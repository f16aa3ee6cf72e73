----------------------------- MODULE MCListEdits -----------------------------
(* ListEdits over the queries of the real read tools.  For each tool a     *)
(* base call and calls that differ from it in one argument; what the walk  *)
(* cannot tell apart (which route, which field) is dropped.                *)
EXTENDS ListEdits, ReadTools

CONSTANTS c1, c2

\* The plans of a tool: of the base call, and with one argument changed.
Row(Tool(_), base, other) ==
    [plans |-> {Tool(base)} \cup {Tool([base EXCEPT ![f] = other[f]]) : f \in DOMAIN other},
     changes |-> DOMAIN other]

Listed == [start |-> 0, limit |-> 5]
OtherPage == [start |-> 1, limit |-> 1]
Windowed == Listed @@ [since_timestamp |-> 10, until_timestamp |-> 20, newest_first |-> TRUE]
OtherWindow ==
    OtherPage @@ [since_timestamp |-> None, until_timestamp |-> None, newest_first |-> FALSE]

Args(names, value) == [n \in names |-> value]
\* The tools whose arguments are only filters: one is given in the base call.
FilterRow(Tool(_), first, others) ==
    Row(Tool, (first :> "x") @@ Args(others, None) @@ Listed,
              (first :> None) @@ Args(others, "y") @@ OtherPage)
ScopedRow(Tool(_), first, others) ==
    Row(Tool, (first :> "x") @@ Args(others, None) @@ Listed @@ [scope |-> "local"],
              (first :> None) @@ Args(others, "y") @@ OtherPage @@ [scope |-> "fed"])
EventRow(Tool(_), base, other) == Row(Tool, base @@ Windowed, other @@ OtherWindow)
NameRow(Tool(_), name) == Row(Tool, (name :> "x"), (name :> "y"))
CappedRow(Tool(_), name, max) ==
    Row(Tool, (name :> "x") @@ (max :> 3), (name :> "y") @@ (max :> 1))
PlainRow(Tool(_)) == Row(Tool, <<>>, <<>>)

Inventory == <<
    PlainRow(nv_get_system_summary),
    Row(nv_list_workloads,
        [namespace |-> "x", name_prefix |-> None, policy_mode |-> None, pods_only |-> TRUE]
          @@ Listed,
        [namespace |-> None, name_prefix |-> "y", policy_mode |-> "y", pods_only |-> FALSE]
          @@ OtherPage),
    NameRow(nv_get_workload, "workload_id"),
    PlainRow(nv_whoami),
    FilterRow(nv_list_hosts, "name_prefix", {"state", "policy_mode"}),
    ScopedRow(nv_list_groups, "name_prefix", {"namespace", "policy_mode", "kind"}),
    CappedRow(nv_get_group, "group_name", "max_members"),
    FilterRow(nv_list_services, "name_prefix", {"namespace", "policy_mode"}),
    FilterRow(nv_list_enforcers, "host_name", {"connection_state"}),
    FilterRow(nv_list_namespaces, "name_prefix", {}),
    FilterRow(nv_get_network_conversations, "from_group", {"to_group"})>>

Events == <<
    EventRow(nv_query_security_events,
             [kind |-> "threat", namespace |-> "x", severity |-> None, workload_id |-> None,
              side |-> "client"],
             [kind |-> "violation", namespace |-> None, severity |-> "y",
              workload_id |-> "y", side |-> "server"]),
    EventRow(nv_query_audit_events,
             [namespace |-> "x", workload_id |-> None, level |-> None, name |-> None],
             [namespace |-> None, workload_id |-> "y", level |-> "y", name |-> "y"]),
    EventRow(nv_query_system_events,
             [namespace |-> "x", category |-> None, level |-> None, user |-> None,
              name |-> None],
             [namespace |-> None, category |-> "y", level |-> "y", user |-> "y",
              name |-> "y"]),
    Row(nv_get_threat_detail, [threat_id |-> "x", include_packet |-> FALSE],
                              [threat_id |-> "y", include_packet |-> TRUE]),
    PlainRow(nv_get_system_alerts)>>

Policy == <<
    ScopedRow(nv_list_network_rules, "from_group", {"to_group", "action", "cfg_type"}),
    NameRow(nv_get_network_rule, "rule_id"),
    CappedRow(nv_get_process_profile, "group_name", "max_entries"),
    CappedRow(nv_get_file_monitor_profile, "group_name", "max_filters"),
    ScopedRow(nv_list_response_rules, "event", {"group"}),
    PlainRow(nv_get_response_rule_options),
    FilterRow(nv_list_dlp_sensors, "name_prefix", {}),
    ScopedRow(nv_list_waf_sensors, "name_prefix", {}),
    NameRow(nv_get_dlp_sensor, "sensor_name"),
    NameRow(nv_get_waf_sensor, "sensor_name"),
    Row(nv_list_dlp_groups, [bound_only |-> TRUE] @@ Listed,
                            [bound_only |-> FALSE] @@ OtherPage),
    Row(nv_list_waf_groups, [bound_only |-> TRUE, scope |-> "local"] @@ Listed,
                            [bound_only |-> FALSE, scope |-> "fed"] @@ OtherPage),
    NameRow(nv_get_dlp_group, "group_name"),
    NameRow(nv_get_waf_group, "group_name"),
    Row(nv_list_waf_rules, Listed, OtherPage),
    PlainRow(nv_get_admission_state),
    Row(nv_list_admission_rules,
        [scope |-> "local", rule_type |-> "x", cfg_type |-> None, category |-> None,
         max_criteria |-> 10] @@ Listed,
        [scope |-> "fed", rule_type |-> None, cfg_type |-> "y", category |-> "y",
         max_criteria |-> 1] @@ OtherPage),
    Row(nv_assess_admission_rule,
        Args({"rule_type", "criteria", "category", "containers", "rule_mode", "comment"}, "x")
          @@ [max_results |-> 3],
        Args({"rule_type", "criteria", "category", "containers", "rule_mode", "comment"}, "y")
          @@ [max_results |-> 1])>>

Scans == <<
    Row(nv_list_image_scan_summaries,
        [image_prefix |-> "x", status |-> None, min_high_vulnerabilities |-> None,
         worst_first |-> TRUE] @@ Listed,
        [image_prefix |-> None, status |-> "y", min_high_vulnerabilities |-> 1,
         worst_first |-> FALSE] @@ OtherPage),
    Row(nv_get_scan_report,
        [target |-> "registry_image", target_id |-> "x", registry_name |-> "x",
         min_severity |-> "High", fixable_only |-> FALSE, summary_only |-> FALSE,
         max_vulnerabilities |-> 3],
        [target |-> "host", target_id |-> "y", registry_name |-> None,
         min_severity |-> None, fixable_only |-> TRUE, summary_only |-> TRUE,
         max_vulnerabilities |-> 1]),
    PlainRow(nv_get_scan_status),
    Row(nv_list_scanners, Listed, OtherPage),
    ScopedRow(nv_list_registries, "name_prefix", {"status"}),
    FilterRow(nv_list_registry_images, "registry_name",
              {"repository_prefix", "tag", "status", "min_high_vulnerabilities"}),
    CappedRow(nv_get_vulnerability_profile, "profile_name", "max_entries"),
    Row(nv_get_compliance_findings,
        [scope |-> "host", target_id |-> "x", level |-> "WARN", catalog |-> None,
         max_checks |-> 3],
        [scope |-> "workload", target_id |-> "y", level |-> None, catalog |-> "y",
         max_checks |-> 1]),
    Row(nv_get_bench_report,
        [host_id |-> "x", benchmark |-> "docker", level |-> "WARN", max_items |-> 3],
        [host_id |-> "y", benchmark |-> "kubernetes", level |-> None, max_items |-> 1]),
    Row(nv_list_compliance_profiles, Listed, OtherPage),
    CappedRow(nv_get_compliance_profile, "profile_name", "max_entries"),
    PlainRow(nv_list_sigstore_roots),
    NameRow(nv_list_sigstore_verifiers, "root_name"),
    NameRow(nv_get_sigstore_root, "root_name")>>

Identities == <<
    FilterRow(nv_list_users, "role", {"auth_server", "name_prefix"}),
    FilterRow(nv_list_roles, "name_prefix", {}),
    FilterRow(nv_list_auth_servers, "name_prefix", {}),
    FilterRow(nv_list_api_keys, "role", {"name_prefix"})>>

ReadTable == Inventory \o Events \o Policy \o Scans \o Identities

\* No argument of a read tool is dropped on its way to the request, the filters and
\* the cut.
ASSUME EveryArgumentCounts ==
    \A k \in DOMAIN ReadTable :
       Cardinality(ReadTable[k].plans) = 1 + Cardinality(ReadTable[k].changes)

OneField(filters, name) == IF DOMAIN filters = {} THEN {} ELSE {name}

AsQuery(q) ==
    [asked |-> OneField(q.asked, "field"), local |-> OneField(q.local, "field"),
     residual |-> IF q.until = None THEN {} ELSE {"until"},
     start |-> q.start, limit |-> q.limit, pages |-> q.pages,
     newest_first |-> q.order = "newest_first"]

MCQueries ==
    UNION {{AsQuery(q) : q \in {p \in ReadTable[k].plans : p.valid}} : k \in DOMAIN ReadTable}
-----------------------------------------------------------------------------
(* The jobs.  What an update replaces is read unfiltered and from the      *)
(* start: a sensor, a group, flags of a workload whole, a profile capped.  *)

MCFields == {"field", "until"}
MCMisses == [i \in 1..4 |-> IF i = 1 THEN {"until"} ELSE IF i = 3 THEN {"field"} ELSE {}]

Unfiltered == {q \in MCQueries : q.asked \cup q.local \cup q.residual = {} /\ q.start = 0
                                 /\ q.limit \in {MaxItems, Everything} /\ ~q.newest_first}
WholeQuery == AsQuery(Object("list"))

Edit(q, edit, reads, plus, minus) ==
    [query |-> q, edit |-> edit, reads |-> reads, plus |-> plus, minus |-> minus]
Walks == {Edit(q, "look", TRUE, {}, {}) : q \in MCQueries}
\* What a paging tool does if NV_MAX_ITEMS is 0.
EmptyWalks ==
    {Edit([q EXCEPT !.limit = 0], "look", TRUE, {}, {}) :
        q \in {p \in MCQueries : p.pages /\ p.start = 0 /\ p.asked = {}}}
ReadEdits ==
    {Edit(q, "replace", TRUE, {4}, {2}) : q \in {p \in Unfiltered : ~p.pages}}
      \cup {Edit(q, "change", TRUE, {}, 1..4) : q \in {p \in Unfiltered : p.pages}}
BlindEdits ==
    {Edit(WholeQuery, "replace", FALSE, {2, 3}, {}),
     Edit(WholeQuery, "change", FALSE, {2}, {4}),
     Edit(WholeQuery, "insert", FALSE, {2, 3}, {4})}
Rival == Edit(WholeQuery, "replace", TRUE, {3}, {4})

\* A page past the end of a log: walks do not disturb each other.
PastTheEnd ==
    {Edit([q EXCEPT !.start = 4], "look", TRUE, {}, {}) :
        q \in {p \in MCQueries : p.newest_first /\ p.residual = {}}}

MCJobs == Walks \cup EmptyWalks \cup PastTheEnd \cup ReadEdits \cup BlindEdits \cup {Rival}

\* The second call disturbs the first: it edits the list, after a read of its own only
\* if the first edits too; nobody edits a log, and its second walk is past the end.
MCInit ==
    /\ Init
    /\ \/ job[c2] \in BlindEdits
       \/ job[c2] = Rival /\ job[c1] \in ReadEdits
       \/ job[c2] \in PastTheEnd
MCSpec == MCInit /\ [][Next]_vars
MCFairSpec == MCSpec /\ Fairness
=============================================================================
