---------------------------- MODULE MCWriteGuard ----------------------------
(* WriteGuard over the real tools: for each tool a base call, and for the  *)
(* arguments that the plan or the request uses a call that differs from    *)
(* the base in that argument alone, so that a token which leaves an        *)
(* argument out is found.  An invocation is <<tool, arguments, the one     *)
(* argument that differs from the base or "">>.                            *)
EXTENDS WriteGuard, ToolTable, TLC

CONSTANTS c1, c2

\* The calls of a tool: `base`, and `base` with one argument changed.
OneChange(tool, base, other) ==
    {<<tool, base, "">>}
      \cup {<<tool, [base EXCEPT ![f] = other[f]], f>> : f \in DOMAIN other}

prod == <<"nv", "web", "prod">>
dev == <<"nv", "web", "dev">>
custom == <<"edge">>
InDomain(ns) == <<[key |-> "domain", value |-> ns]>>
NetRule(id, disable) == [id |-> id, action |-> "allow", disable |-> disable]

PolicyCalls ==
    UNION {
      OneChange("nv_delete_group", [group_name |-> custom], [group_name |-> prod]),
      OneChange("nv_create_group", [group_name |-> custom, criteria |-> InDomain("prod")],
                [criteria |-> InDomain("dev")]),
      OneChange("nv_update_group_criteria",
                [group_name |-> custom, criteria |-> InDomain("prod")],
                [group_name |-> dev, criteria |-> InDomain("dev")]),
      OneChange("nv_apply_network_rule_changes",
                [scope |-> "local", insert_rules |-> <<NetRule(None, FALSE)>>,
                 insert_after_rule_id |-> None, configure_rules |-> <<>>,
                 delete_rule_ids |-> <<>>, move_rule_id |-> None,
                 move_after_rule_id |-> None],
                [scope |-> "fed", insert_rules |-> <<NetRule(None, TRUE)>>,
                 insert_after_rule_id |-> 10, configure_rules |-> <<NetRule(11, FALSE)>>,
                 delete_rule_ids |-> <<12>>, move_rule_id |-> 13,
                 move_after_rule_id |-> 14]),
      OneChange("nv_delete_network_rule", [rule_id |-> 1], [rule_id |-> 2]),
      OneChange("nv_update_process_profile",
                [group_name |-> prod, alert_disabled |-> TRUE, hash_enabled |-> None,
                 add_entries |-> <<>>, delete_entries |-> <<>>],
                [group_name |-> dev, alert_disabled |-> None, hash_enabled |-> TRUE,
                 add_entries |-> <<"nginx">>, delete_entries |-> <<"sh">>]),
      OneChange("nv_update_file_monitor_profile",
                [group_name |-> prod, add_filters |-> <<"/etc">>, update_filters |-> <<>>,
                 delete_filters |-> <<>>],
                [add_filters |-> <<>>, update_filters |-> <<"/etc">>]),
      OneChange("nv_set_waf_group",
                [group_name |-> prod, sensors |-> <<"s1">>, status |-> None],
                [sensors |-> <<>>, status |-> TRUE])}

SensorAndServiceCalls ==
    UNION {
      OneChange("nv_create_waf_sensor",
                [sensor_name |-> "s1", comment |-> "", rules |-> <<"r1">>],
                [rules |-> <<"r2">>]),
      OneChange("nv_update_waf_sensor",
                [sensor_name |-> "s1", comment |-> None, rules |-> <<"r1">>],
                [comment |-> "", rules |-> <<>>]),
      OneChange("nv_delete_waf_sensor", [sensor_name |-> "s1"], [sensor_name |-> "s2"]),
      OneChange("nv_create_service",
                [name |-> "web", domain |-> "prod", comment |-> None, policy_mode |-> None,
                 baseline_profile |-> None, not_scored |-> None],
                [domain |-> "dev", policy_mode |-> "Protect"])}

ResponseCalls ==
    UNION {
      OneChange("nv_apply_response_rule_changes",
                [insert_rules |-> <<[event |-> "cve", webhooks |-> <<"w1">>]>>,
                 insert_after_rule_id |-> None],
                [insert_rules |-> <<[event |-> "cve", webhooks |-> <<"w1", "w1">>]>>,
                 insert_after_rule_id |-> 3]),
      OneChange("nv_update_response_rule",
                [rule_id |-> 1, event |-> None, group |-> None, actions |-> None,
                 webhooks |-> <<"w1">>, conditions |-> None, comment |-> None,
                 disable |-> None],
                [rule_id |-> 2, webhooks |-> None, disable |-> TRUE]),
      OneChange("nv_delete_response_rule", [rule_id |-> 1], [rule_id |-> 2]),
      OneChange("nv_delete_all_response_rules", [scope |-> "local"], [scope |-> "fed"])}

RuntimeCalls ==
    UNION {
      OneChange("nv_quarantine_workload",
                [workload_id |-> "p1", action |-> "quarantine", namespace |-> None],
                [workload_id |-> "p2", action |-> "unquarantine", namespace |-> "dev"]),
      OneChange("nv_start_packet_capture",
                [workload_id |-> "p1", file_number |-> 1, duration_s |-> 60,
                 filter |-> None, namespace |-> "prod"],
                [filter |-> "tcp"]),
      OneChange("nv_stop_packet_capture", [capture_id |-> 1], [capture_id |-> 2]),
      OneChange("nv_update_workload_config",
                [workload_id |-> "p1", namespace |-> "prod", quarantine |-> TRUE,
                 wire |-> "default", quarantine_reason |-> None],
                [workload_id |-> "p2", quarantine |-> FALSE, wire |-> None])}

IamCalls ==
    UNION {
      OneChange("nv_create_user",
                [username |-> "u", password |-> "pw1", email |-> "", role |-> "reader",
                 role_domains |-> None, timeout_s |-> None, locale |-> None],
                [password |-> "pw2", role |-> "admin"]),
      OneChange("nv_update_user_role",
                [fullname |-> "u", role |-> "reader", role_domains |-> None],
                [role |-> "admin", role_domains |-> [admin |-> {"prod"}]]),
      OneChange("nv_delete_user", [fullname |-> "u"], [fullname |-> "v"]),
      OneChange("nv_create_api_key",
                [apikey_name |-> "k", role |-> "reader", expiration_type |-> "never",
                 description |-> None, expiration_hours |-> None, role_domains |-> None],
                [role |-> "admin"]),
      OneChange("nv_delete_api_key", [access_key |-> "k"], [access_key |-> "l"])}

\* url is <<scheme, host, rest>>.
Webhook(url, scope) ==
    [name |-> "w1", url |-> url, enable |-> TRUE, use_proxy |-> FALSE,
     webhook_type |-> "Slack", scope |-> scope]

SystemCalls ==
    UNION {
      OneChange("nv_update_system_config", [mode |-> "Monitor", syslog |-> None],
                [mode |-> None, syslog |-> "10.0.0.1"]),
      OneChange("nv_set_namespace_tags", [namespace |-> "prod", tags |-> {"pci"}],
                [namespace |-> "dev", tags |-> {}]),
      OneChange("nv_update_scan_config", [auto_scan |-> TRUE], [auto_scan |-> None]),
      OneChange("nv_apply_system_request",
                [policy_mode |-> None, baseline_profile |-> None, unquarantine |-> TRUE,
                 unquarantine_group |-> "web", unquarantine_response_rule_id |-> None],
                [policy_mode |-> "Protect", unquarantine |-> FALSE,
                 unquarantine_group |-> None, unquarantine_response_rule_id |-> 3]),
      OneChange("nv_set_namespace_defaults", [tag_per_domain |-> TRUE],
                [tag_per_domain |-> FALSE]),
      OneChange("nv_create_webhook", Webhook(<<"https", "hook", "a">>, "local"),
                [url |-> <<"ftp", "hook", "a">>]),
      OneChange("nv_update_webhook", Webhook(<<"https", "hook", "a">>, "local"),
                [url |-> <<"https", "hook", "b">>, scope |-> "fed"]),
      OneChange("nv_delete_webhook", [name |-> "w1", scope |-> "local"],
                [name |-> "w2"])}

Criterion(value) == [name |-> "image", op |-> "contains", value |-> value, sub_criteria |-> <<>>]
AdmissionRule ==
    [rule_type |-> "deny", category |-> "Kubernetes", criteria |-> <<Criterion("nginx")>>,
     containers |-> <<"containers">>, rule_mode |-> "", comment |-> "", disable |-> FALSE]

AdmissionCalls ==
    UNION {
      OneChange("nv_set_admission_state",
                [enable |-> TRUE, mode |-> None, default_action |-> None],
                [enable |-> FALSE, mode |-> "protect"]),
      OneChange("nv_create_admission_rule", AdmissionRule,
                [rule_type |-> "exception", disable |-> TRUE,
                 criteria |-> [k \in 1..17 |-> Criterion("nginx")]]),
      OneChange("nv_update_admission_rule", AdmissionRule @@ [rule_id |-> 1],
                [rule_id |-> 2, criteria |-> <<Criterion("redis")>>]),
      OneChange("nv_delete_admission_rule", [rule_id |-> 1], [rule_id |-> 2]),
      OneChange("nv_delete_all_admission_rules",
                [scope |-> "local", expected_rule_count |-> 2],
                [scope |-> "fed", expected_rule_count |-> 0])}

\* A pattern's value is its length.
DlpRule(length) ==
    [name |-> "pan", patterns |-> <<[op |-> "regex", value |-> length, context |-> None]>>]

RulesetCalls ==
    UNION {
      OneChange("nv_update_network_rule",
                [rule_id |-> 1, comment |-> None, from_group |-> None, to_group |-> None,
                 ports |-> None, action |-> "deny", applications |-> None,
                 disable |-> None],
                [rule_id |-> 2, action |-> None, disable |-> TRUE]),
      OneChange("nv_delete_all_network_rules",
                [scope |-> "local", expected_rule_count |-> 2],
                [scope |-> "fed", expected_rule_count |-> 0]),
      OneChange("nv_create_dlp_sensor",
                [sensor_name |-> "d1", rules |-> <<DlpRule(512)>>, comment |-> None],
                [rules |-> <<DlpRule(513)>>]),
      OneChange("nv_update_dlp_sensor",
                [sensor_name |-> "d1", rules |-> <<DlpRule(512)>>, comment |-> None],
                [sensor_name |-> "d2", rules |-> <<>>]),
      OneChange("nv_delete_dlp_sensor", [sensor_name |-> "d1"], [sensor_name |-> "d2"]),
      OneChange("nv_set_dlp_group",
                [group_name |-> prod, sensors |-> <<"d1">>, status |-> None],
                [group_name |-> dev, sensors |-> <<>>, status |-> FALSE])}

Script(text) == [name |-> "cis", script |-> text, configurable |-> FALSE]
Exception(id, namespaces) ==
    [id |-> id, name |-> <<"CVE-1">>, comment |-> "", days |-> 0, namespaces |-> namespaces,
     images |-> <<>>]

ProfileCalls ==
    UNION {
      OneChange("nv_update_compliance_profile",
                [profile_name |-> <<"default">>, disable_system |-> TRUE, entries |-> None],
                [disable_system |-> None,
                 entries |-> <<[test_number |-> "D.1", tags |-> <<"SOC2">>]>>]),
      OneChange("nv_set_compliance_check_tags",
                [profile_name |-> <<"default">>, check |-> <<"D.1">>, tags |-> <<"PCI">>],
                [check |-> <<"D.2">>, tags |-> <<>>]),
      OneChange("nv_delete_compliance_check_tags",
                [profile_name |-> <<"default">>, check |-> <<"D.1">>], [check |-> <<"D.2">>]),
      OneChange("nv_set_custom_compliance_checks",
                [group_name |-> prod, enabled |-> TRUE, add_scripts |-> <<Script("id")>>,
                 update_scripts |-> <<>>, delete_script_names |-> <<>>],
                [group_name |-> dev, enabled |-> FALSE, add_scripts |-> <<>>,
                 update_scripts |-> <<Script("")>>, delete_script_names |-> <<"old">>]),
      OneChange("nv_update_vulnerability_profile",
                [profile_name |-> <<"default">>, entries |-> <<Exception(1, <<>>)>>],
                [entries |-> <<Exception(1, <<>>), Exception(1, <<"prod">>)>>]),
      OneChange("nv_add_vulnerability_profile_entry",
                [profile_name |-> <<"default">>, entry |-> Exception(0, <<"prod">>)],
                [entry |-> Exception(0, <<"prod", "dev">>)]),
      OneChange("nv_update_vulnerability_profile_entry",
                [profile_name |-> <<"default">>, entry_id |-> 1, entry |-> Exception(0, <<"dev">>)],
                [entry_id |-> 2, entry |-> Exception(2, <<>>)]),
      OneChange("nv_delete_vulnerability_profile_entry",
                [profile_name |-> <<"default">>, entry_id |-> 1], [entry_id |-> 2])}

Registry ==
    [name |-> "hub", registry_type |-> None, registry |-> None, filters |-> None,
     scan_layers |-> None, rescan_after_db_update |-> None, ignore_proxy |-> None,
     repo_limit |-> None, tag_limit |-> None, auth_with_token |-> None,
     username |-> None, password |-> None, auth_token |-> None]

ScanCalls ==
    UNION {
      OneChange("nv_trigger_scan",
                [target |-> "workload", target_id |-> "x", namespace |-> "prod"],
                [target |-> "registry", target_id |-> "y", namespace |-> "dev"]),
      {<<"nv_trigger_scan",
         [target |-> "platform", target_id |-> "x", namespace |-> None], "target">>},
      OneChange("nv_stop_registry_scan", [registry_name |-> "hub"],
                [registry_name |-> "quay"]),
      OneChange("nv_scan_repository",
                [registry |-> "", repository |-> "nginx", tag |-> "1", scan_layers |-> FALSE,
                 base_image |-> "", ignore_proxy |-> FALSE, username |-> None,
                 password |-> None],
                [registry |-> "hub", tag |-> "2", password |-> "pw1"]),
      OneChange("nv_create_registry",
                [Registry EXCEPT !.registry_type = "Docker", !.registry = "https://hub",
                                 !.filters = {}, !.auth_with_token = FALSE],
                [filters |-> {"*"}, auth_token |-> "t1"]),
      OneChange("nv_update_registry", [Registry EXCEPT !.tag_limit = 5],
                [name |-> "quay", tag_limit |-> None, password |-> "pw1"]),
      OneChange("nv_delete_registry", [name |-> "hub"], [name |-> "quay"]),
      OneChange("nv_trigger_bench_run", [host_id |-> "h1", benchmark |-> "docker"],
                [host_id |-> "h2", benchmark |-> "kubernetes"])}

SigstoreCalls ==
    UNION {
      OneChange("nv_create_sigstore_root",
                [name |-> <<"r1">>, is_private |-> FALSE, rootless_keypairs_only |-> FALSE,
                 rekor_public_key |-> "", root_cert |-> "", sct_public_key |-> "",
                 comment |-> ""],
                [is_private |-> TRUE, root_cert |-> "pem"]),
      OneChange("nv_update_sigstore_root",
                [root_name |-> <<"r1">>, rekor_public_key |-> "", root_cert |-> None,
                 sct_public_key |-> None, comment |-> None],
                [root_name |-> <<"r2">>, rekor_public_key |-> None]),
      OneChange("nv_delete_sigstore_root", [root_name |-> <<"r1">>], [root_name |-> <<"r2">>]),
      OneChange("nv_create_sigstore_verifier",
                [root_name |-> <<"r1">>, name |-> <<"v1">>, verifier_type |-> "keypair",
                 public_key |-> "pem", cert_issuer |-> "", cert_subject |-> "",
                 comment |-> ""],
                [root_name |-> <<"r2">>, verifier_type |-> "keyless", public_key |-> ""]),
      OneChange("nv_update_sigstore_verifier",
                [root_name |-> <<"r1">>, verifier_name |-> <<"v1">>, verifier_type |-> None,
                 public_key |-> None, cert_issuer |-> "", cert_subject |-> None,
                 comment |-> None],
                [verifier_name |-> <<"v2">>, cert_issuer |-> None]),
      OneChange("nv_delete_sigstore_verifier",
                [root_name |-> <<"r1">>, verifier_name |-> <<"v1">>],
                [root_name |-> <<"r2">>, verifier_name |-> <<"v2">>])}

MCEveryTool ==
    PolicyCalls \cup SensorAndServiceCalls \cup ResponseCalls \cup RuntimeCalls
      \cup IamCalls \cup SystemCalls \cup AdmissionCalls \cup RulesetCalls
      \cup ProfileCalls \cup ScanCalls \cup SigstoreCalls

\* One invocation is enough for a claim about one call.
MCDeleteUser == {<<"nv_delete_user", [fullname |-> "u"], "">>}

\* The two scopes a webhook can be deleted from.
MCWebhookScopes ==
    OneChange("nv_delete_webhook", [name |-> "w1", scope |-> "local"], [scope |-> "fed"])

\* The runs call each tool of the table.
ASSUME EveryToolIsCalled == {i[1] : i \in MCEveryTool} = Tools

\* Every call of the runs is one a client can make.
ASSUME CallsFitSchemas == \A i \in MCEveryTool : SchemaAllows(i[1], i[2])

MCPlanOf(i) == ToolPlan(i[1], i[2])

Setting(read_only, toolsets, require, namespaces) ==
    [read_only |-> read_only, toolsets |-> toolsets, require_confirm_token |-> require,
     allowed_namespaces |-> namespaces]

AllWrites ==
    {"policy_write", "runtime_ops", "iam_write", "system_write", "admission", "scan_ops"}

MCConfigs ==
    {Setting(FALSE, AllWrites, TRUE, {}),
     Setting(FALSE, AllWrites, TRUE, {"prod"}),
     Setting(FALSE, {"policy_write"}, FALSE, {"prod"}),
     Setting(TRUE, {}, TRUE, {})}

\* A token names its operation, so two calls meet over a token of one tool, whatever
\* their arguments; that two tools do not meet is checked of their base calls.
MayMeet(i, j) == i[1] = j[1] \/ (i[3] = "" /\ j[3] = "")

MCInit == Init /\ \A c, d \in Calls : MayMeet(ask[c], ask[d])
MCSpec == MCInit /\ [][Next]_vars

MCSymmetry == Permutations({c1, c2})
=============================================================================
