------------------------------ MODULE ReadTools ------------------------------
(***************************************************************************)
(* The tables of the read tools: for each tool and the arguments of one    *)
(* call, which route it gets, what it filters there and what itself, and   *)
(* where it cuts.  None is an argument the caller omitted (an empty string *)
(* counts as omitted).  A filter is named by the field the request names;  *)
(* prefix matches and comparisons are values like any other.  What the     *)
(* tool makes of a query is kept in ListEdits.                             *)
(***************************************************************************)
EXTENDS ToolPlans, TLC

CONSTANTS MaxItems,           \* settings.max_items
          AllowUndocumented,  \* settings.allow_undocumented
          Everything          \* more items than any list has: no cut

\* Nothing checks NV_MAX_ITEMS: it may be 0.
ASSUME MaxItemsAssumption == MaxItems \in Nat /\ Everything \in Nat

NoFilters == <<>>

\* One object or a whole list, as the controller has it.
Whole(route, filters) ==
    [route |-> route, asked |-> Given(filters), local |-> NoFilters, until |-> None,
     order |-> None, start |-> 0, limit |-> Everything, inner |-> None,
     pages |-> FALSE, valid |-> TRUE]

EffectiveLimit(limit) == IF limit < MaxItems THEN limit ELSE MaxItems

\* The controller filters and pages; the tool takes one item more than it shows.
Listing(path, filters, a) ==
    [Whole(Route("GET", path), filters) EXCEPT
        !.start = a.start, !.limit = EffectiveLimit(a.limit), !.pages = TRUE]

ScopedListing(path, filters, a) ==
    [Listing(path, filters, a) EXCEPT !.route = RouteWith("GET", path, a.scope)]

\* The controller sends the whole list; the tool filters it and cuts its page out.
Sliced(path, local, a) == [Listing(path, NoFilters, a) EXCEPT !.local = Given(local)]

\* Only the first items are shown, and there is no way to the others but a larger limit.
Cut(path, local, limit) ==
    [Whole(Route("GET", path), NoFilters) EXCEPT !.local = Given(local), !.limit = limit]
Capped(path, limit) == Cut(path, NoFilters, EffectiveLimit(limit))

Object(path) == Whole(Route("GET", path), NoFilters)
-----------------------------------------------------------------------------
(* Inventory (inventory.py).                                               *)

nv_get_system_summary(a) == Object("/v1/system/summary")

nv_list_workloads(a) ==
    [Listing("/v2/workload", [domain |-> a.namespace, name |-> a.name_prefix,
                              policy_mode |-> a.policy_mode], a)
        EXCEPT !.route = RouteWith("GET", "/v2/workload", a.pods_only)]

nv_get_workload(a) == Object(<<"/v2/workload", a.workload_id>>)

\* Without the undocumented route it answers from what it knew at startup.
nv_whoami(a) == IF AllowUndocumented THEN Object("/v1/selfuser") ELSE Object("cached")

nv_list_hosts(a) ==
    Listing("/v1/host", [name |-> a.name_prefix, state |-> a.state,
                         policy_mode |-> a.policy_mode], a)

nv_list_groups(a) ==
    ScopedListing("/v1/group", [name |-> a.name_prefix, domain |-> a.namespace,
                                policy_mode |-> a.policy_mode, kind |-> a.kind], a)

\* The members are cut; the criteria, which an update replaces, are not.
nv_get_group(a) == Capped(<<"/v1/group", a.group_name>>, a.max_members)

nv_list_services(a) ==
    Listing("/v1/service", [name |-> a.name_prefix, domain |-> a.namespace,
                            policy_mode |-> a.policy_mode], a)

nv_list_enforcers(a) ==
    Listing("/v1/enforcer", [host_name |-> a.host_name,
                             connection_state |-> a.connection_state], a)

nv_list_namespaces(a) == Listing("/v1/domain", [name |-> a.name_prefix], a)

nv_get_network_conversations(a) ==
    [Listing("/v1/conversation", [from |-> a.from_group, to |-> a.to_group], a)
        EXCEPT !.valid = AllowUndocumented]
-----------------------------------------------------------------------------
(* Events (events.py).                                                     *)

\* One field takes one filter: of a window with two ends the controller gets the older
\* one and the tool drops what is newer, after it has cut its page out.
_reported_time_filter(q, a) ==
    IF a.since_timestamp # None
    THEN [q EXCEPT !.asked = [reported_timestamp |-> <<"gte", a.since_timestamp>>] @@ @,
                   !.until = a.until_timestamp]
    ELSE IF a.until_timestamp # None
    THEN [q EXCEPT !.asked = [reported_timestamp |-> <<"lte", a.until_timestamp>>] @@ @]
    ELSE q

EventListing(path, filters, a) ==
    _reported_time_filter([Listing(path, filters, a) EXCEPT
        !.order = IF a.newest_first THEN "newest_first" ELSE None], a)

_KIND_ENDPOINT(kind) == <<"/v1/log", kind>>
_SEVERITY_FIELD == [threat |-> "severity", violation |-> "level", incident |-> "level"]
_DOMAIN_FIELD ==
    [threat    |-> [client |-> "client_workload_domain", server |-> "server_workload_domain"],
     violation |-> [client |-> "client_domain", server |-> "server_domain"],
     incident  |-> [client |-> "workload_domain", server |-> "remote_workload_domain"]]
_WORKLOAD_ID_FIELD ==
    [threat    |-> [client |-> "client_workload_id", server |-> "server_workload_id"],
     violation |-> [client |-> "client_id", server |-> "server_id"],
     incident  |-> [client |-> "workload_id", server |-> "remote_workload_id"]]

nv_query_security_events(a) ==
    EventListing(_KIND_ENDPOINT(a.kind),
                 (_DOMAIN_FIELD[a.kind][a.side] :> a.namespace)
                 @@ (_WORKLOAD_ID_FIELD[a.kind][a.side] :> a.workload_id)
                 @@ (_SEVERITY_FIELD[a.kind] :> a.severity), a)

nv_get_threat_detail(a) ==
    [Object(<<"/v1/log/threat", a.threat_id>>) EXCEPT !.inner = a.include_packet]

nv_query_audit_events(a) ==
    EventListing("/v1/log/audit", [workload_domain |-> a.namespace,
                 workload_id |-> a.workload_id, level |-> a.level, name |-> a.name], a)

nv_query_system_events(a) ==
    EventListing("/v1/log/event", [workload_domain |-> a.namespace, category |-> a.category,
                 level |-> a.level, user |-> a.user, name |-> a.name], a)

nv_get_system_alerts(a) == Object("/v1/system/alerts")
-----------------------------------------------------------------------------
(* Policy (policy_read.py, dlp.py, response_write.py).                     *)

nv_list_network_rules(a) ==
    ScopedListing("/v1/policy/rule", [from |-> a.from_group, to |-> a.to_group,
                  action |-> a.action, cfg_type |-> a.cfg_type], a)

nv_get_network_rule(a) == Object(<<"/v1/policy/rule", a.rule_id>>)

\* Cut as the caller says, whatever NV_MAX_ITEMS.
nv_get_process_profile(a) ==
    Cut(<<"/v1/process_profile", a.group_name>>, NoFilters, a.max_entries)
nv_get_file_monitor_profile(a) ==
    Cut(<<"/v1/file_monitor", a.group_name>>, NoFilters, a.max_filters)

nv_list_response_rules(a) ==
    ScopedListing("/v1/response/rule", [event |-> a.event, group |-> a.group], a)

nv_get_response_rule_options(a) == Object("/v1/response/options")

nv_list_dlp_sensors(a) == Listing("/v1/dlp/sensor", [name |-> a.name_prefix], a)
nv_list_waf_sensors(a) == ScopedListing("/v1/waf/sensor", [name |-> a.name_prefix], a)
nv_get_dlp_sensor(a) == Object(<<"/v1/dlp/sensor", a.sensor_name>>)
nv_get_waf_sensor(a) == Object(<<"/v1/waf/sensor", a.sensor_name>>)

\* FALSE filters nothing.
BoundOnly(a) == [sensors |-> IF a.bound_only THEN TRUE ELSE None]

nv_list_dlp_groups(a) == Sliced("/v1/dlp/group", BoundOnly(a), a)
nv_list_waf_groups(a) ==
    [Sliced("/v1/waf/group", BoundOnly(a), a)
        EXCEPT !.route = RouteWith("GET", "/v1/waf/group", a.scope)]
nv_get_dlp_group(a) == Object(<<"/v1/dlp/group", a.group_name>>)
nv_get_waf_group(a) == Object(<<"/v1/waf/group", a.group_name>>)
nv_list_waf_rules(a) == Sliced("/v1/waf/rule", NoFilters, a)

nv_get_admission_state(a) == Object("/v1/admission/state")

\* The criteria of each rule are cut too.
nv_list_admission_rules(a) ==
    [ScopedListing("/v1/admission/rules", [rule_type |-> a.rule_type,
                   cfg_type |-> a.cfg_type, category |-> a.category], a)
        EXCEPT !.inner = a.max_criteria]

\* A POST, but one that stores nothing: the rule is assessed, not created.
nv_assess_admission_rule(a) ==
    [Whole(RouteWith("POST", "/v1/assess/admission/rule",
                     <<a.rule_type, a.criteria, a.category, a.containers, a.rule_mode,
                       a.comment>>), NoFilters) EXCEPT !.limit = a.max_results]
-----------------------------------------------------------------------------
(* Scans, registries and profiles (vulnerability.py, compliance.py,        *)
(* sigstore.py).                                                           *)

nv_list_image_scan_summaries(a) ==
    [Listing("/v1/scan/image", [image |-> a.image_prefix, status |-> a.status,
                                high |-> a.min_high_vulnerabilities], a)
        EXCEPT !.order = IF a.worst_first THEN "worst_first" ELSE None]

nv_get_scan_report(a) ==
    LET image == a.target = "registry_image"
        path == IF image THEN <<"/v1/scan/registry", a.registry_name, a.target_id>>
                         ELSE <<"/v1/scan", a.target, a.target_id>>
        report == Cut(path, [severity |-> a.min_severity,
                             fixed |-> IF a.fixable_only THEN TRUE ELSE None],
                      IF a.summary_only THEN 0 ELSE EffectiveLimit(a.max_vulnerabilities))
    IN  [report EXCEPT !.order = "worst_first", !.valid = image => a.registry_name # None]

nv_get_scan_status(a) == Object("/v1/scan/status")
nv_list_scanners(a) == Listing("/v1/scan/scanner", NoFilters, a)

nv_list_registries(a) ==
    ScopedListing("/v1/scan/registry", [name |-> a.name_prefix, status |-> a.status], a)

nv_list_registry_images(a) ==
    Listing(<<"/v1/scan/registry", a.registry_name, "images">>,
            [repository |-> a.repository_prefix, tag |-> a.tag, status |-> a.status,
             high |-> a.min_high_vulnerabilities], a)

nv_get_vulnerability_profile(a) ==
    Capped(<<"/v1/vulnerability/profile", a.profile_name>>, a.max_entries)

nv_get_compliance_findings(a) ==
    Cut(<<"/v1", a.scope, a.target_id, "compliance">>,
        [level |-> a.level, catalog |-> a.catalog], EffectiveLimit(a.max_checks))

nv_get_bench_report(a) ==
    Cut(<<"/v1/bench/host", a.host_id, a.benchmark>>, [level |-> a.level],
        EffectiveLimit(a.max_items))

nv_list_compliance_profiles(a) == Listing("/v1/compliance/profile", NoFilters, a)
nv_get_compliance_profile(a) ==
    Capped(<<"/v1/compliance/profile", a.profile_name>>, a.max_entries)

\* "This route does not page - raise NV_MAX_ITEMS to see the rest."
SIGSTORE == "/v1/scan/sigstore/root_of_trust"
nv_list_sigstore_roots(a) == Capped(SIGSTORE, MaxItems)
nv_list_sigstore_verifiers(a) == Capped(<<SIGSTORE, a.root_name, "verifier">>, MaxItems)
nv_get_sigstore_root(a) == Object(<<SIGSTORE, a.root_name>>)
-----------------------------------------------------------------------------
(* Identities (iam_read.py).                                               *)

nv_list_users(a) ==
    Listing("/v1/user", [role |-> a.role, server |-> a.auth_server,
                         fullname |-> a.name_prefix], a)
nv_list_roles(a) == Listing("/v1/user_role", [name |-> a.name_prefix], a)
nv_list_auth_servers(a) == Listing("/v1/server", [name |-> a.name_prefix], a)
nv_list_api_keys(a) ==
    Listing("/v1/api_key", [role |-> a.role, apikey_name |-> a.name_prefix], a)
=============================================================================
