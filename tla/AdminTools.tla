----------------------------- MODULE AdminTools -----------------------------
(***************************************************************************)
(* Tools of the toolsets runtime_ops (runtime_ops.py), iam_write           *)
(* (iam_write.py) and system_write (system.py, and the webhooks of         *)
(* response_write.py), and those of service_ops.py in them.  As in         *)
(* PolicyTools, a definition is the plan a tool puts before the guard.     *)
(* (nv_set_service_mode is in ServiceModes.)                               *)
(***************************************************************************)
EXTENDS ToolPlans

RuntimePlan(operation, target, namespace, payload, route) ==
    Plan(operation, "runtime_ops", target, namespace, payload, route)
IamPlan(operation, target, payload, route) ==
    Plan(operation, "iam_write", target, None, payload, route)
SystemPlan(operation, target, namespace, payload, route) ==
    Plan(operation, "system_write", target, namespace, payload, route)
-----------------------------------------------------------------------------
(* Runtime operations.                                                     *)

\* The namespace is the caller's word: it reaches the guard and nothing else.
nv_quarantine_workload(a) ==
    RuntimePlan("nv_quarantine_workload", a.workload_id, a.namespace, [command |-> a.action],
                Route("POST", <<"/v1/workload/request", a.workload_id>>))

nv_start_packet_capture(a) ==
    RuntimePlan("nv_start_packet_capture", a.workload_id, a.namespace,
                [file_number |-> a.file_number, duration |-> a.duration_s, filter |-> a.filter],
                RouteWith("POST", "/v1/sniffer", [f_workload |-> a.workload_id]))

nv_stop_packet_capture(a) ==
    RuntimePlan("nv_stop_packet_capture", a.capture_id, None, NoPayload,
                Route("PATCH", <<"/v1/sniffer/stop", a.capture_id>>))
\* quarantine is always sent, and wire has to be given.
nv_update_workload_config(a) ==
    Checked(a.wire # None,
            RuntimePlan("nv_update_workload_config", a.workload_id, a.namespace,
                        Given([quarantine |-> a.quarantine, wire |-> a.wire,
                               quarantine_reason |-> a.quarantine_reason]),
                        Route("PATCH", <<"/v1/workload", a.workload_id>>)))
-----------------------------------------------------------------------------
(* Identities.                                                             *)

\* The order of a role's namespaces means nothing: they are sorted for the token,
\* so the lists are sets here, and no role_domains is an empty map.
_normalise_role_domains(role_domains) == IF role_domains = None THEN <<>> ELSE role_domains

nv_create_user(a) ==
    IamPlan("nv_create_user", a.username,
            redact_secrets(Given([fullname |-> a.username, username |-> a.username,
                                  password |-> a.password, email |-> a.email,
                                  role |-> a.role, role_domains |-> a.role_domains,
                                  timeout |-> a.timeout_s, locale |-> a.locale])),
            Route("POST", "/v1/user"))

\* Mutant: the target is the account alone, as it once was.
GuardTarget_NameOnly(a) == <<a.fullname>>

\* The role travels in the path, so it is folded into the target.
GuardTarget(a) == <<a.fullname, a.role>>

nv_update_user_role(a) ==
    IamPlan("nv_update_user_role", GuardTarget(a),
            [name |-> a.fullname, role_domains |-> _normalise_role_domains(a.role_domains)],
            Route("PATCH", <<"/v1/user", a.fullname, "role", a.role>>))

nv_delete_user(a) ==
    IamPlan("nv_delete_user", a.fullname, NoPayload,
            Route("DELETE", <<"/v1/user", a.fullname>>))

nv_create_api_key(a) ==
    IamPlan("nv_create_api_key", a.apikey_name,
            Given([apikey_name |-> a.apikey_name, role |-> a.role,
                   expiration_type |-> a.expiration_type, description |-> a.description,
                   expiration_hours |-> a.expiration_hours,
                   role_domains |-> a.role_domains]),
            Route("POST", "/v1/api_key"))

nv_delete_api_key(a) ==
    IamPlan("nv_delete_api_key", a.access_key, NoPayload,
            Route("DELETE", <<"/v1/api_key", a.access_key>>))
-----------------------------------------------------------------------------
(* The system.                                                             *)

\* The fields the caller set, by their write path.  The old values for the effect
\* are read before the guard is asked.
nv_update_system_config(a) ==
    LET body == Given(a)
        plan == [SystemPlan("nv_update_system_config", "cluster system configuration", None,
                            body, Route("PATCH", "/v2/system/config")) EXCEPT !.reads = TRUE]
    IN  Changing(body, plan)

\* Tags are a set: sorted and without duplicates.
nv_set_namespace_tags(a) ==
    SystemPlan("nv_set_namespace_tags", a.namespace, a.namespace,
               [name |-> a.namespace, tags |-> a.tags],
               Route("PATCH", <<"/v1/domain", a.namespace>>))

nv_update_scan_config(a) ==
    LET body == Given(a)
        plan == SystemPlan("nv_update_scan_config", "cluster scan configuration", None, body,
                           Route("PATCH", "/v1/scan/config"))
    IN  Changing(body, plan)
\* Modes, profile and releases for the whole cluster in one request.
nv_apply_system_request(a) ==
    LET scope == Given([group |-> a.unquarantine_group,
                        response_rule |-> a.unquarantine_response_rule_id])
        request == Given([policy_mode |-> a.policy_mode,
                          baseline_profile |-> a.baseline_profile,
                          unquarantine |-> IF a.unquarantine THEN scope ELSE None])
    IN  Checked(/\ ~a.unquarantine => DOMAIN scope = {}
                /\ DOMAIN request # {},
                SystemPlan("nv_apply_system_request", "entire cluster", None, request,
                           Route("POST", "/v1/system/request")))

nv_set_namespace_defaults(a) ==
    SystemPlan("nv_set_namespace_defaults", "all namespaces", None,
               [tag_per_domain |-> a.tag_per_domain], Route("PATCH", "/v1/domain"))
-----------------------------------------------------------------------------
(* Webhooks.  A URL is <<scheme, host, rest>>.                             *)

\* The plan shows scheme and host, and a digest of the whole.
_redact_webhook_url(url) == [scheme |-> url[1], host |-> url[2], sha256 |-> url]

_validate_webhook_url(url) == url[1] \in {"http", "https"} /\ url[2] # ""

WebhookBody(a, cfg_type) ==
    [name |-> a.name, url |-> _redact_webhook_url(a.url), enable |-> a.enable,
     use_proxy |-> a.use_proxy, type |-> a.webhook_type, cfg_type |-> cfg_type]

WebhookPlan(a, plan) == Checked(_validate_webhook_url(a.url), plan)

nv_create_webhook(a) ==
    WebhookPlan(a, SystemPlan("nv_create_webhook", a.name, None, WebhookBody(a, "user_created"),
                              Route("POST", "/v1/system/config/webhook")))

\* The scope is in the query only, but cfg_type mirrors it in the body.
nv_update_webhook(a) ==
    WebhookPlan(a, SystemPlan("nv_update_webhook", a.name, None,
                              WebhookBody(a, IF a.scope = "fed" THEN "federal"
                                                                ELSE "user_created"),
                              RouteWith("PATCH", <<"/v1/system/config/webhook", a.name>>,
                                        [scope |-> a.scope])))

nv_delete_webhook(a) ==
    SystemPlan("nv_delete_webhook", a.name, None, NoPayload,
               RouteWith("DELETE", <<"/v1/system/config/webhook", a.name>>,
                         [scope |-> a.scope]))
=============================================================================
