-------------------------- MODULE ToolTableProofs --------------------------
(***************************************************************************)
(* The confirm tokens of the real tools, for every value of their          *)
(* arguments: what WriteGuardProofs assumes of a tool table holds of this  *)
(* one, but for one tool.                                                  *)
(***************************************************************************)
EXTENDS WriteGuardProofs, ToolTable, SequenceTheorems

\* Two plans of one operation: with one token they send their requests to one place.
Binds(operation, p, q) ==
    /\ p.operation = operation /\ q.operation = operation
    /\ p.target = q.target /\ p.payload = q.payload => p.route = q.route

(***************************************************************************)
(* Joined names.  A slash between two names can be found again in the      *)
(* joined name when one of the two is known, or the first holds no slash.  *)
(***************************************************************************)
Plain(name) == Len(name) = 1

LEMMA SlashRight ==
    ASSUME NEW p \in Names, NEW q \in Names, NEW x \in Names, Slash(p, x) = Slash(q, x)
    PROVE  p = q
BY ConcatSimplifications DEF Names, Slash

LEMMA SlashPlain ==
    ASSUME NEW p \in Names, NEW q \in Names, NEW x \in Names, NEW y \in Names,
           Plain(p), Plain(q), Slash(p, x) = Slash(q, y)
    PROVE  p = q /\ x = y
<1>1. ASSUME NEW r \in Names, NEW z \in Names, Plain(r)
      PROVE  Slash(r, z)[1] = r[1]
  <2>1. r \in Seq(STRING) /\ z \in Seq(STRING)
    BY DEF Names
  <2>2. Len(r) = 1 /\ Len(z) \in Nat
    BY <1>1, <2>1, LenProperties DEF Plain
  <2>3. \A i \in 1..Len(r) + Len(z) :
           (r \o z)[i] = IF i <= Len(r) THEN r[i] ELSE z[i - Len(r)]
    BY <2>1, ConcatProperties, Zenon
  <2>4. 1 \in 1..Len(r) + Len(z) /\ 1 <= Len(r)
    BY <2>2
  <2> QED BY <2>3, <2>4 DEF Slash
<1>2. p = q
  <2>1. p[1] = q[1] /\ Len(p) = Len(q)
    BY <1>1 DEF Plain
  <2> QED BY <2>1, SeqEqual DEF Names, Plain
<1>3. x = y
  BY <1>2, ConcatSimplifications DEF Names, Slash
<1> QED BY <1>2, <1>3

LEMMA SlashId ==
    ASSUME NEW p \in Names, NEW q \in Names, NEW m \in Nat, NEW n \in Nat,
           Slash(p, <<m>>) = Slash(q, <<n>>)
    PROVE  p = q /\ m = n
<1> DEFINE Part == STRING \cup Nat
<1>1. /\ p \in Seq(Part) /\ q \in Seq(Part) /\ m \in Part /\ n \in Part
  BY SeqMonotonic DEF Names
<1>2. Append(p, m) = Append(q, n)
  BY <1>1, AppendIsConcat DEF Slash
<1> QED BY <1>1, <1>2, AppendInjective

(***************************************************************************)
(* Tool by tool: the arguments the route depends on are in the target, or  *)
(* in the payload and not masked there.                                    *)
(***************************************************************************)
\* toolset policy_write: the scope of a batch of rules is in the target.
LEMMA PolicyToolsBind ==
    ASSUME NEW a, NEW b
    PROVE  /\ Binds("nv_delete_group", nv_delete_group(a), nv_delete_group(b))
           /\ Binds("nv_create_group", nv_create_group(a), nv_create_group(b))
           /\ Binds("nv_update_group_criteria", nv_update_group_criteria(a), nv_update_group_criteria(b))
           /\ Binds("nv_apply_network_rule_changes", nv_apply_network_rule_changes(a), nv_apply_network_rule_changes(b))
           /\ Binds("nv_delete_network_rule", nv_delete_network_rule(a), nv_delete_network_rule(b))
           /\ Binds("nv_update_process_profile", nv_update_process_profile(a), nv_update_process_profile(b))
           /\ Binds("nv_update_file_monitor_profile", nv_update_file_monitor_profile(a), nv_update_file_monitor_profile(b))
           /\ Binds("nv_create_waf_sensor", nv_create_waf_sensor(a), nv_create_waf_sensor(b))
           /\ Binds("nv_update_waf_sensor", nv_update_waf_sensor(a), nv_update_waf_sensor(b))
           /\ Binds("nv_delete_waf_sensor", nv_delete_waf_sensor(a), nv_delete_waf_sensor(b))
           /\ Binds("nv_set_waf_group", nv_set_waf_group(a), nv_set_waf_group(b))
           /\ Binds("nv_apply_response_rule_changes", nv_apply_response_rule_changes(a), nv_apply_response_rule_changes(b))
           /\ Binds("nv_update_response_rule", nv_update_response_rule(a), nv_update_response_rule(b))
           /\ Binds("nv_delete_response_rule", nv_delete_response_rule(a), nv_delete_response_rule(b))
           /\ Binds("nv_delete_all_response_rules", nv_delete_all_response_rules(a), nv_delete_all_response_rules(b))
           /\ Binds("nv_create_service", nv_create_service(a), nv_create_service(b))
BY DEF Binds, Plan, Checked, Changing, Route, RouteWith, PolicyPlan, nv_delete_group,
       nv_create_group, nv_update_group_criteria, nv_apply_network_rule_changes,
       nv_delete_network_rule, nv_update_process_profile,
       nv_update_file_monitor_profile, nv_create_waf_sensor, nv_update_waf_sensor,
       nv_delete_waf_sensor, nv_set_waf_group, nv_apply_response_rule_changes,
       nv_update_response_rule, nv_delete_response_rule, nv_delete_all_response_rules,
       nv_create_service

\* Admission rules, whole rulesets and DLP sensors.
LEMMA RulesetToolsBind ==
    ASSUME NEW a, NEW b
    PROVE  /\ Binds("nv_set_admission_state", nv_set_admission_state(a), nv_set_admission_state(b))
           /\ Binds("nv_create_admission_rule", nv_create_admission_rule(a), nv_create_admission_rule(b))
           /\ Binds("nv_update_admission_rule", nv_update_admission_rule(a), nv_update_admission_rule(b))
           /\ Binds("nv_delete_admission_rule", nv_delete_admission_rule(a), nv_delete_admission_rule(b))
           /\ Binds("nv_update_network_rule", nv_update_network_rule(a), nv_update_network_rule(b))
           /\ Binds("nv_delete_all_network_rules", nv_delete_all_network_rules(a), nv_delete_all_network_rules(b))
           /\ Binds("nv_delete_all_admission_rules", nv_delete_all_admission_rules(a), nv_delete_all_admission_rules(b))
           /\ Binds("nv_create_dlp_sensor", nv_create_dlp_sensor(a), nv_create_dlp_sensor(b))
           /\ Binds("nv_update_dlp_sensor", nv_update_dlp_sensor(a), nv_update_dlp_sensor(b))
           /\ Binds("nv_delete_dlp_sensor", nv_delete_dlp_sensor(a), nv_delete_dlp_sensor(b))
           /\ Binds("nv_set_dlp_group", nv_set_dlp_group(a), nv_set_dlp_group(b))
BY DEF Binds, Plan, Checked, Changing, Route, RouteWith, AdmissionPlan, RulesetPlan,
       AdmissionRulePlan, EveryRuleOf, nv_set_admission_state, nv_create_admission_rule,
       nv_update_admission_rule, nv_delete_admission_rule, nv_update_network_rule,
       nv_delete_all_network_rules, nv_delete_all_admission_rules, nv_create_dlp_sensor,
       nv_update_dlp_sensor, nv_delete_dlp_sensor, nv_set_dlp_group

\* Compliance and vulnerability profiles: profile and entry are both in the target.
LEMMA ProfileToolsBind ==
    ASSUME NEW a, NEW b
    PROVE  /\ Binds("nv_update_compliance_profile", nv_update_compliance_profile(a), nv_update_compliance_profile(b))
           /\ Binds("nv_set_custom_compliance_checks", nv_set_custom_compliance_checks(a), nv_set_custom_compliance_checks(b))
           /\ Binds("nv_update_vulnerability_profile", nv_update_vulnerability_profile(a), nv_update_vulnerability_profile(b))
BY DEF Binds, Plan, Checked, Changing, Route, RouteWith, ProfilePlan, COMPLIANCE,
       VULNERABILITY, nv_update_compliance_profile, nv_set_custom_compliance_checks,
       nv_update_vulnerability_profile

\* The check's tags name the check in the body too, and an added entry its name; an
\* entry's id holds no slash.
LEMMA ProfileEntriesBind ==
    ASSUME NEW tool \in {"nv_set_compliance_check_tags", "nv_add_vulnerability_profile_entry",
                         "nv_update_vulnerability_profile_entry",
                         "nv_delete_vulnerability_profile_entry"},
           NEW a, NEW b, SchemaAllows(tool, a), SchemaAllows(tool, b)
    PROVE  Binds(tool, ToolPlan(tool, a), ToolPlan(tool, b))
<1>1. CASE tool = "nv_set_compliance_check_tags"
  <2> DEFINE p == nv_set_compliance_check_tags(a)
             q == nv_set_compliance_check_tags(b)
  <2>1. /\ p.operation = tool /\ q.operation = tool
        /\ p.target = Slash(a.profile_name, a.check) /\ q.target = Slash(b.profile_name, b.check)
        /\ p.payload.test_number = a.check /\ q.payload.test_number = b.check
        /\ p.route = Route("PATCH", ComplianceEntry(a)) /\ q.route = Route("PATCH", ComplianceEntry(b))
    BY <1>1 DEF nv_set_compliance_check_tags, ProfilePlan, Plan, Checked, CheckOf
  <2>2. ToolPlan(tool, a) = p /\ ToolPlan(tool, b) = q
    BY <1>1 DEF ToolPlan
  <2> HIDE DEF p, q
  <2>3. ASSUME p.target = q.target, p.payload = q.payload
        PROVE  a.profile_name = b.profile_name /\ a.check = b.check
    <3>1. a.check = b.check /\ Slash(a.profile_name, a.check) = Slash(b.profile_name, a.check)
      BY <2>1, <2>3
    <3>2. a.profile_name \in Names /\ b.profile_name \in Names /\ a.check \in Names
      BY <1>1 DEF SchemaAllows
    <3> QED BY <3>1, <3>2, SlashRight
  <2> QED BY <2>1, <2>2, <2>3 DEF Binds, ComplianceEntry
<1>2. CASE tool = "nv_add_vulnerability_profile_entry"
  <2> DEFINE p == nv_add_vulnerability_profile_entry(a)
             q == nv_add_vulnerability_profile_entry(b)
             R(x) == Route("POST", Slash(VULNERABILITY(x.profile_name), <<"entry">>))
  <2>1. /\ p.operation = tool /\ q.operation = tool
        /\ p.target = Slash(a.profile_name, a.entry.name)
        /\ q.target = Slash(b.profile_name, b.entry.name)
        /\ p.payload = _entry_body(a.entry, 0) /\ q.payload = _entry_body(b.entry, 0)
        /\ p.route = R(a) /\ q.route = R(b)
    BY <1>2 DEF nv_add_vulnerability_profile_entry, ProfilePlan, Plan, Checked
  <2>2. ToolPlan(tool, a) = p /\ ToolPlan(tool, b) = q
    BY <1>2 DEF ToolPlan
  <2>3. p.payload.name = a.entry.name /\ q.payload.name = b.entry.name
    BY <1>2, <2>1 DEF _entry_body, SchemaAllows
  <2> HIDE DEF p, q
  <2>4. ASSUME p.target = q.target, p.payload = q.payload
        PROVE  a.profile_name = b.profile_name
    <3>1. Slash(a.profile_name, a.entry.name) = Slash(b.profile_name, a.entry.name)
      BY <2>1, <2>3, <2>4
    <3>2. a.profile_name \in Names /\ b.profile_name \in Names /\ a.entry.name \in Names
      BY <1>2 DEF SchemaAllows
    <3> QED BY <3>1, <3>2, SlashRight
  <2> QED BY <2>1, <2>2, <2>4 DEF Binds
<1>3. CASE tool = "nv_update_vulnerability_profile_entry"
  <2> DEFINE p == nv_update_vulnerability_profile_entry(a)
             q == nv_update_vulnerability_profile_entry(b)
  <2>1. /\ p.operation = tool /\ q.operation = tool
        /\ p.target = Slash(a.profile_name, <<a.entry_id>>)
        /\ q.target = Slash(b.profile_name, <<b.entry_id>>)
        /\ p.route = Route("PATCH", VulnerabilityEntry(a))
        /\ q.route = Route("PATCH", VulnerabilityEntry(b))
    BY <1>3 DEF nv_update_vulnerability_profile_entry, ProfilePlan, Plan, Checked, EntryOf
  <2>2. ToolPlan(tool, a) = p /\ ToolPlan(tool, b) = q
    BY <1>3 DEF ToolPlan
  <2> HIDE DEF p, q
  <2>3. ASSUME p.target = q.target
        PROVE  a.profile_name = b.profile_name /\ a.entry_id = b.entry_id
    BY <1>3, <2>1, <2>3, SlashId DEF SchemaAllows
  <2> QED BY <2>1, <2>2, <2>3 DEF Binds, VulnerabilityEntry
<1>4. CASE tool = "nv_delete_vulnerability_profile_entry"
  <2> DEFINE p == nv_delete_vulnerability_profile_entry(a)
             q == nv_delete_vulnerability_profile_entry(b)
  <2>1. /\ p.operation = tool /\ q.operation = tool
        /\ p.target = Slash(a.profile_name, <<a.entry_id>>)
        /\ q.target = Slash(b.profile_name, <<b.entry_id>>)
        /\ p.route = Route("DELETE", VulnerabilityEntry(a))
        /\ q.route = Route("DELETE", VulnerabilityEntry(b))
    BY <1>4 DEF nv_delete_vulnerability_profile_entry, ProfilePlan, Plan, EntryOf
  <2>2. ToolPlan(tool, a) = p /\ ToolPlan(tool, b) = q
    BY <1>4 DEF ToolPlan
  <2> HIDE DEF p, q
  <2>3. ASSUME p.target = q.target
        PROVE  a.profile_name = b.profile_name /\ a.entry_id = b.entry_id
    BY <1>4, <2>1, <2>3, SlashId DEF SchemaAllows
  <2> QED BY <2>1, <2>2, <2>3 DEF Binds, VulnerabilityEntry
<1> QED BY <1>1, <1>2, <1>3, <1>4

\* Scans, registries and signatures: the path of a scan is a function of its target.
LEMMA ScanToolsBind ==
    ASSUME NEW a, NEW b
    PROVE  /\ Binds("nv_trigger_scan", nv_trigger_scan(a), nv_trigger_scan(b))
           /\ Binds("nv_stop_registry_scan", nv_stop_registry_scan(a), nv_stop_registry_scan(b))
           /\ Binds("nv_scan_repository", nv_scan_repository(a), nv_scan_repository(b))
           /\ Binds("nv_trigger_bench_run", nv_trigger_bench_run(a), nv_trigger_bench_run(b))
           /\ Binds("nv_create_registry", nv_create_registry(a), nv_create_registry(b))
           /\ Binds("nv_update_registry", nv_update_registry(a), nv_update_registry(b))
           /\ Binds("nv_delete_registry", nv_delete_registry(a), nv_delete_registry(b))
           /\ Binds("nv_create_sigstore_root", nv_create_sigstore_root(a), nv_create_sigstore_root(b))
           /\ Binds("nv_update_sigstore_root", nv_update_sigstore_root(a), nv_update_sigstore_root(b))
           /\ Binds("nv_delete_sigstore_root", nv_delete_sigstore_root(a), nv_delete_sigstore_root(b))
BY DEF Binds, Plan, Checked, Changing, Route, RouteWith, ScanPlan, ScanPath,
       nv_trigger_scan, nv_stop_registry_scan, nv_scan_repository, nv_trigger_bench_run,
       nv_create_registry, nv_update_registry, nv_delete_registry,
       nv_create_sigstore_root, nv_update_sigstore_root, nv_delete_sigstore_root

\* A new verifier has its name in the body too.
LEMMA NewVerifierBinds ==
    ASSUME NEW a, NEW b, SchemaAllows("nv_create_sigstore_verifier", a),
           SchemaAllows("nv_create_sigstore_verifier", b)
    PROVE  Binds("nv_create_sigstore_verifier", nv_create_sigstore_verifier(a),
                 nv_create_sigstore_verifier(b))
<1> DEFINE p == nv_create_sigstore_verifier(a)
           q == nv_create_sigstore_verifier(b)
           R(x) == Route("POST", Slash(RootPath(x.root_name), <<"verifier">>))
<1>1. /\ p.operation = "nv_create_sigstore_verifier" /\ q.operation = "nv_create_sigstore_verifier"
      /\ p.target = Slash(a.root_name, a.name) /\ q.target = Slash(b.root_name, b.name)
      /\ p.payload.name = a.name /\ q.payload.name = b.name
      /\ p.route = R(a) /\ q.route = R(b)
  BY DEF nv_create_sigstore_verifier, ScanPlan, Plan, Checked, _verifier_post_body
<1> HIDE DEF p, q
<1>2. ASSUME p.target = q.target, p.payload = q.payload
      PROVE  a.root_name = b.root_name
  <2>1. Slash(a.root_name, a.name) = Slash(b.root_name, a.name)
    BY <1>1, <1>2
  <2>2. a.root_name \in Names /\ b.root_name \in Names /\ a.name \in Names
    BY DEF SchemaAllows
  <2> QED BY <2>1, <2>2, SlashRight
<1> SUFFICES Binds("nv_create_sigstore_verifier", p, q)
  BY DEF p, q
<1> QED BY <1>1, <1>2 DEF Binds

\* Three tools put two names in the target and nothing in the body that tells them
\* apart.  Their tokens bind when the first of the two holds no slash.
FirstIsPlain(tool, a) ==
    /\ tool = "nv_delete_compliance_check_tags" => Plain(a.profile_name)
    /\ tool \in {"nv_update_sigstore_verifier", "nv_delete_sigstore_verifier"} =>
          Plain(a.root_name)

LEMMA PlainNamesBind ==
    ASSUME NEW tool \in {"nv_delete_compliance_check_tags", "nv_update_sigstore_verifier",
                         "nv_delete_sigstore_verifier"},
           NEW a, NEW b, SchemaAllows(tool, a), SchemaAllows(tool, b),
           FirstIsPlain(tool, a), FirstIsPlain(tool, b)
    PROVE  Binds(tool, ToolPlan(tool, a), ToolPlan(tool, b))
<1>1. CASE tool = "nv_delete_compliance_check_tags"
  <2> DEFINE p == nv_delete_compliance_check_tags(a)
             q == nv_delete_compliance_check_tags(b)
  <2>1. /\ p.operation = tool /\ q.operation = tool
        /\ p.target = Slash(a.profile_name, a.check) /\ q.target = Slash(b.profile_name, b.check)
        /\ p.route = Route("DELETE", ComplianceEntry(a))
        /\ q.route = Route("DELETE", ComplianceEntry(b))
    BY <1>1 DEF nv_delete_compliance_check_tags, ProfilePlan, Plan, CheckOf
  <2>2. ToolPlan(tool, a) = p /\ ToolPlan(tool, b) = q
    BY <1>1 DEF ToolPlan
  <2> HIDE DEF p, q
  <2>3. ASSUME p.target = q.target
        PROVE  a.profile_name = b.profile_name /\ a.check = b.check
    <3>1. Slash(a.profile_name, a.check) = Slash(b.profile_name, b.check)
      BY <2>1, <2>3
    <3>2. /\ a.profile_name \in Names /\ b.profile_name \in Names
          /\ a.check \in Names /\ b.check \in Names
      BY <1>1 DEF SchemaAllows
    <3>3. Plain(a.profile_name) /\ Plain(b.profile_name)
      BY <1>1 DEF FirstIsPlain
    <3> QED BY <3>1, <3>2, <3>3, SlashPlain
  <2> QED BY <2>1, <2>2, <2>3 DEF Binds, ComplianceEntry
<1>2. CASE tool = "nv_update_sigstore_verifier"
  <2> DEFINE p == nv_update_sigstore_verifier(a)
             q == nv_update_sigstore_verifier(b)
  <2>1. /\ p.operation = tool /\ q.operation = tool
        /\ p.target = Slash(a.root_name, a.verifier_name)
        /\ q.target = Slash(b.root_name, b.verifier_name)
        /\ p.route = Route("PATCH", VerifierPath(a.root_name, a.verifier_name))
        /\ q.route = Route("PATCH", VerifierPath(b.root_name, b.verifier_name))
    BY <1>2 DEF nv_update_sigstore_verifier, ScanPlan, Plan, Checked, Changing
  <2>2. ToolPlan(tool, a) = p /\ ToolPlan(tool, b) = q
    BY <1>2 DEF ToolPlan
  <2> HIDE DEF p, q
  <2>3. ASSUME p.target = q.target
        PROVE  a.root_name = b.root_name /\ a.verifier_name = b.verifier_name
    <3>1. Slash(a.root_name, a.verifier_name) = Slash(b.root_name, b.verifier_name)
      BY <2>1, <2>3
    <3>2. /\ a.root_name \in Names /\ b.root_name \in Names
          /\ a.verifier_name \in Names /\ b.verifier_name \in Names
      BY <1>2 DEF SchemaAllows
    <3>3. Plain(a.root_name) /\ Plain(b.root_name)
      BY <1>2 DEF FirstIsPlain
    <3> QED BY <3>1, <3>2, <3>3, SlashPlain
  <2> QED BY <2>1, <2>2, <2>3 DEF Binds
<1>3. CASE tool = "nv_delete_sigstore_verifier"
  <2> DEFINE p == nv_delete_sigstore_verifier(a)
             q == nv_delete_sigstore_verifier(b)
  <2>1. /\ p.operation = tool /\ q.operation = tool
        /\ p.target = Slash(a.root_name, a.verifier_name)
        /\ q.target = Slash(b.root_name, b.verifier_name)
        /\ p.route = Route("DELETE", VerifierPath(a.root_name, a.verifier_name))
        /\ q.route = Route("DELETE", VerifierPath(b.root_name, b.verifier_name))
    BY <1>3 DEF nv_delete_sigstore_verifier, ScanPlan, Plan
  <2>2. ToolPlan(tool, a) = p /\ ToolPlan(tool, b) = q
    BY <1>3 DEF ToolPlan
  <2> HIDE DEF p, q
  <2>3. ASSUME p.target = q.target
        PROVE  a.root_name = b.root_name /\ a.verifier_name = b.verifier_name
    <3>1. Slash(a.root_name, a.verifier_name) = Slash(b.root_name, b.verifier_name)
      BY <2>1, <2>3
    <3>2. /\ a.root_name \in Names /\ b.root_name \in Names
          /\ a.verifier_name \in Names /\ b.verifier_name \in Names
      BY <1>3 DEF SchemaAllows
    <3>3. Plain(a.root_name) /\ Plain(b.root_name)
      BY <1>3 DEF FirstIsPlain
    <3> QED BY <3>1, <3>2, <3>3, SlashPlain
  <2> QED BY <2>1, <2>2, <2>3 DEF Binds
<1> QED BY <1>1, <1>2, <1>3

\* toolsets runtime_ops, iam_write and system_write.  The role of a user travels in the
\* path and is in the target; the scope of a webhook is mirrored by cfg_type in the body,
\* which tells apart the two values the schema allows.
LEMMA AdminToolsBind ==
    ASSUME NEW a, NEW b
    PROVE  /\ Binds("nv_quarantine_workload", nv_quarantine_workload(a), nv_quarantine_workload(b))
           /\ Binds("nv_start_packet_capture", nv_start_packet_capture(a), nv_start_packet_capture(b))
           /\ Binds("nv_stop_packet_capture", nv_stop_packet_capture(a), nv_stop_packet_capture(b))
           /\ Binds("nv_update_workload_config", nv_update_workload_config(a), nv_update_workload_config(b))
           /\ Binds("nv_create_user", nv_create_user(a), nv_create_user(b))
           /\ Binds("nv_update_user_role", nv_update_user_role(a), nv_update_user_role(b))
           /\ Binds("nv_delete_user", nv_delete_user(a), nv_delete_user(b))
           /\ Binds("nv_create_api_key", nv_create_api_key(a), nv_create_api_key(b))
           /\ Binds("nv_delete_api_key", nv_delete_api_key(a), nv_delete_api_key(b))
           /\ Binds("nv_update_system_config", nv_update_system_config(a), nv_update_system_config(b))
           /\ Binds("nv_set_namespace_tags", nv_set_namespace_tags(a), nv_set_namespace_tags(b))
           /\ Binds("nv_update_scan_config", nv_update_scan_config(a), nv_update_scan_config(b))
           /\ Binds("nv_apply_system_request", nv_apply_system_request(a), nv_apply_system_request(b))
           /\ Binds("nv_set_namespace_defaults", nv_set_namespace_defaults(a), nv_set_namespace_defaults(b))
           /\ Binds("nv_create_webhook", nv_create_webhook(a), nv_create_webhook(b))
           /\ a.scope \in {"local", "fed"} /\ b.scope \in {"local", "fed"} =>
                 Binds("nv_update_webhook", nv_update_webhook(a), nv_update_webhook(b))
BY DEF Binds, Plan, Checked, Changing, Route, RouteWith, RuntimePlan, IamPlan,
       SystemPlan, GuardTarget, WebhookPlan, WebhookBody, nv_quarantine_workload,
       nv_start_packet_capture, nv_stop_packet_capture, nv_update_workload_config,
       nv_create_user, nv_update_user_role, nv_delete_user, nv_create_api_key,
       nv_delete_api_key, nv_update_system_config, nv_set_namespace_tags,
       nv_update_scan_config, nv_apply_system_request, nv_set_namespace_defaults,
       nv_create_webhook, nv_update_webhook

(***************************************************************************)
(* The table.                                                              *)
(***************************************************************************)
BoundTools == Tools \ {"nv_delete_webhook"}

LEMMA TableBinds ==
    ASSUME NEW tool \in BoundTools, NEW a, NEW b,
           SchemaAllows(tool, a), SchemaAllows(tool, b),
           FirstIsPlain(tool, a), FirstIsPlain(tool, b)
    PROVE  Binds(tool, ToolPlan(tool, a), ToolPlan(tool, b))
BY PolicyToolsBind, RulesetToolsBind, ProfileToolsBind, ProfileEntriesBind, ScanToolsBind,
   NewVerifierBinds, PlainNamesBind, AdminToolsBind
   DEF ToolPlan, Tools, BoundTools, SchemaAllows

TokenOf(plan) == <<plan.operation, plan.target, plan.payload>>

\* guard.py:33: changing a field of a call invalidates its token.  For any two calls
\* of any two tools but nv_delete_webhook, and whatever their arguments: if one token
\* confirms both, both go to the same method, path and query.  (For three of the tools:
\* when the first of two joined names holds no slash.)
THEOREM OneTokenOneRoute ==
    ASSUME NEW s \in BoundTools, NEW t \in BoundTools, NEW a, NEW b,
           SchemaAllows(s, a), SchemaAllows(t, b), FirstIsPlain(s, a), FirstIsPlain(t, b),
           TokenOf(ToolPlan(s, a)) = TokenOf(ToolPlan(t, b))
    PROVE  s = t /\ ToolPlan(s, a).route = ToolPlan(t, b).route
<1>1. /\ ToolPlan(s, a).operation = ToolPlan(t, b).operation
      /\ ToolPlan(s, a).target = ToolPlan(t, b).target
      /\ ToolPlan(s, a).payload = ToolPlan(t, b).payload
  BY DEF TokenOf
<1>2. ToolPlan(s, a).operation = s /\ ToolPlan(t, b).operation = t
  BY TableBinds DEF Binds
<1>3. s = t
  BY <1>1, <1>2
<1>4. Binds(t, ToolPlan(t, a), ToolPlan(t, b))
  BY <1>3, TableBinds
<1> QED BY <1>1, <1>3, <1>4 DEF Binds

\* Without the last hypothesis it is false: the verifier "s/v" of the root "r" and the
\* verifier "v" of the root "r/s" are deleted with one token, and not at one path.
THEOREM SlashedNamesShareTokens ==
    ASSUME NEW r \in STRING, NEW s \in STRING, NEW v \in STRING, s # "verifier"
    PROVE  LET a == [root_name |-> <<r>>, verifier_name |-> <<s, v>>]
               b == [root_name |-> <<r, s>>, verifier_name |-> <<v>>]
               D(x) == ToolPlan("nv_delete_sigstore_verifier", x)
           IN  /\ SchemaAllows("nv_delete_sigstore_verifier", a)
               /\ SchemaAllows("nv_delete_sigstore_verifier", b)
               /\ TokenOf(D(a)) = TokenOf(D(b))
               /\ D(a).route # D(b).route
<1> DEFINE a == [root_name |-> <<r>>, verifier_name |-> <<s, v>>]
           b == [root_name |-> <<r, s>>, verifier_name |-> <<v>>]
           PathOf(c) == VerifierPath(c.root_name, c.verifier_name)
           D(x) == ToolPlan("nv_delete_sigstore_verifier", x)
<1>1. /\ a.root_name = <<r>> /\ a.verifier_name = <<s, v>>
      /\ b.root_name = <<r, s>> /\ b.verifier_name = <<v>>
  OBVIOUS
<1> HIDE DEF a, b
<1>2. \A c : /\ D(c).operation = "nv_delete_sigstore_verifier"
            /\ D(c).target = Slash(c.root_name, c.verifier_name)
            /\ D(c).payload = NoPayload
            /\ D(c).route = <<"DELETE", PathOf(c)>>
  BY DEF ToolPlan, nv_delete_sigstore_verifier, ScanPlan, Plan, Route
<1>3. Slash(a.root_name, a.verifier_name) = Slash(b.root_name, b.verifier_name)
  <2> DEFINE left == <<r>> \o <<s, v>>
             right == <<r, s>> \o <<v>>
  <2>1. left \in Seq(STRING) /\ right \in Seq(STRING)
    OBVIOUS
  <2>2. Len(left) = 3 /\ Len(right) = 3
    OBVIOUS
  <2>3. /\ left[1] = r /\ left[2] = s /\ left[3] = v
        /\ right[1] = r /\ right[2] = s /\ right[3] = v
    OBVIOUS
  <2> HIDE DEF left, right
  <2>4. left = right
    <3>1. \A k \in 1..Len(left) : left[k] = right[k]
      BY <2>2, <2>3
    <3> QED BY <2>1, <2>2, <3>1, SeqEqual
  <2> QED BY <1>1, <2>4 DEF Slash, left, right
<1>4. PathOf(a) # PathOf(b)
  <2>1. /\ PathOf(a) = (ROOTS \o <<r>>) \o (<<"verifier">> \o <<s, v>>)
        /\ PathOf(b) = (ROOTS \o <<r, s>>) \o (<<"verifier">> \o <<v>>)
    BY <1>1 DEF VerifierPath, RootPath, Slash
  <2>2. /\ ((ROOTS \o <<r>>) \o (<<"verifier">> \o <<s, v>>))[3] = "verifier"
        /\ ((ROOTS \o <<r, s>>) \o (<<"verifier">> \o <<v>>))[3] = s
    BY DEF ROOTS
  <2> QED BY <2>1, <2>2
<1>5. /\ SchemaAllows("nv_delete_sigstore_verifier", a)
      /\ SchemaAllows("nv_delete_sigstore_verifier", b)
  <2>1. <<r>> \in Names /\ <<v>> \in Names /\ <<r, s>> \in Names /\ <<s, v>> \in Names
    BY DEF Names
  <2> QED BY <1>1, <2>1 DEF SchemaAllows
<1> HIDE DEF D, PathOf
<1>6. TokenOf(D(a)) = TokenOf(D(b)) /\ D(a).route # D(b).route
  BY <1>2, <1>3, <1>4 DEF TokenOf
<1> QED BY <1>5, <1>6 DEF D, a, b

\* The tool left out: the token of a webhook's deletion does not tell the local webhook
\* from the federated one of the same name.
THEOREM WebhookDeletionIsUnbound ==
    \A name : \E a, b :
       /\ TokenOf(ToolPlan("nv_delete_webhook", a)) = TokenOf(ToolPlan("nv_delete_webhook", b))
       /\ ToolPlan("nv_delete_webhook", a).route # ToolPlan("nv_delete_webhook", b).route
<1> TAKE name
<1> DEFINE a == [name |-> name, scope |-> "local"]
           b == [name |-> name, scope |-> "fed"]
<1>1. \A c : ToolPlan("nv_delete_webhook", c) = nv_delete_webhook(c)
  BY DEF ToolPlan
<1>2. /\ nv_delete_webhook(a).operation = nv_delete_webhook(b).operation
      /\ nv_delete_webhook(a).target = nv_delete_webhook(b).target
      /\ nv_delete_webhook(a).payload = nv_delete_webhook(b).payload
  BY DEF nv_delete_webhook, SystemPlan, Plan
<1>3. nv_delete_webhook(a).route # nv_delete_webhook(b).route
  <2>1. /\ nv_delete_webhook(a).route[3] = [scope |-> "local"]
        /\ nv_delete_webhook(b).route[3] = [scope |-> "fed"]
    BY DEF nv_delete_webhook, SystemPlan, Plan, RouteWith
  <2>2. [scope |-> "local"].scope # [scope |-> "fed"].scope
    OBVIOUS
  <2> QED BY <2>1, <2>2
<1> HIDE DEF a, b
<1> WITNESS a, b
<1> QED BY <1>1, <1>2, <1>3 DEF TokenOf

(***************************************************************************)
(* Secrets.  Four tools send credentials, and mask them before the guard.  *)
(***************************************************************************)
Parameters(tool) ==
    CASE tool = "nv_create_user" ->
           {"username", "password", "email", "role", "role_domains", "timeout_s", "locale"}
      [] tool = "nv_scan_repository" ->
           {"registry", "repository", "tag", "scan_layers", "base_image", "ignore_proxy",
            "username", "password"}
      [] tool \in {"nv_create_registry", "nv_update_registry"} ->
           {"name", "registry_type", "registry", "filters", "scan_layers",
            "rescan_after_db_update", "ignore_proxy", "repo_limit", "tag_limit",
            "auth_with_token", "username", "password", "auth_token"}
CredentialTools ==
    {"nv_create_user", "nv_scan_repository", "nv_create_registry", "nv_update_registry"}

\* Two bodies, or the arguments of two calls, that differ in the values of secrets only.
Alike(p, q) ==
    /\ DOMAIN p = DOMAIN q
    /\ \A f \in DOMAIN p : IF f \in SECRET_FIELDS THEN p[f] = None <=> q[f] = None
                           ELSE p[f] = q[f]

LEMMA MaskedAlike ==
    ASSUME NEW p, NEW q, Alike(p, q)
    PROVE  redact_secrets(Given(p)) = redact_secrets(Given(q))
<1>1. DOMAIN Given(p) = DOMAIN Given(q)
  BY DEF Alike, Given, Restrict
<1>2. \A f \in DOMAIN Given(p) : f \notin SECRET_FIELDS => Given(p)[f] = Given(q)[f]
  BY DEF Alike, Given, Restrict
<1> QED BY <1>1, <1>2 DEF redact_secrets

LEMMA AuthAlike ==
    ASSUME NEW a, NEW b, Alike(a, b), Parameters("nv_create_registry") \subseteq DOMAIN a
    PROVE  RegistryAuth(a) = RegistryAuth(b)
<1> DEFINE Auth(c) == [auth_with_token |-> c.auth_with_token, username |-> c.username,
                       password |-> c.password, auth_token |-> c.auth_token]
<1>1. Alike(Auth(a), Auth(b))
  BY DEF Alike, Parameters, SECRET_FIELDS
<1>2. redact_secrets(Given(Auth(a))) = redact_secrets(Given(Auth(b)))
  <2> HIDE DEF Auth
  <2> QED BY <1>1, MaskedAlike
<1> QED BY <1>2 DEF RegistryAuth

\* iam_write.py:175, scan_ops.py:369, 568, 724: the payload is masked before it is shown
\* and digested.  Two calls that differ in the values of their secrets only have one plan:
\* neither the preview nor the token tells one password from another, and so the token of
\* one confirms the other.
THEOREM PlansKeepSecrets ==
    ASSUME NEW tool \in CredentialTools, NEW a, NEW b, Alike(a, b),
           Parameters(tool) \subseteq DOMAIN a
    PROVE  ToolPlan(tool, a) = ToolPlan(tool, b)
<1>1. CASE tool = "nv_create_user"
  <2> DEFINE Body(c) == [fullname |-> c.username, username |-> c.username,
                         password |-> c.password, email |-> c.email,
                         role |-> c.role, role_domains |-> c.role_domains,
                         timeout |-> c.timeout_s, locale |-> c.locale]
  <2>1. Alike(Body(a), Body(b)) /\ a.username = b.username
    BY <1>1 DEF Alike, Parameters, SECRET_FIELDS
  <2>2. redact_secrets(Given(Body(a))) = redact_secrets(Given(Body(b)))
    <3> HIDE DEF Body
    <3> QED BY <2>1, MaskedAlike
  <2>3. nv_create_user(a) = nv_create_user(b)
    BY <2>1, <2>2 DEF nv_create_user
  <2> QED BY <1>1, <2>3 DEF ToolPlan
<1>2. CASE tool = "nv_scan_repository"
  <2> DEFINE Body(c) == [registry |-> c.registry, repository |-> c.repository,
                         tag |-> c.tag, scan_layers |-> c.scan_layers,
                         base_image |-> c.base_image,
                         ignore_proxy |-> c.ignore_proxy,
                         username |-> c.username, password |-> c.password]
  <2>1. /\ Alike(Body(a), Body(b))
        /\ a.registry = b.registry /\ a.repository = b.repository /\ a.tag = b.tag
    BY <1>2 DEF Alike, Parameters, SECRET_FIELDS
  <2>2. redact_secrets(Given(Body(a))) = redact_secrets(Given(Body(b)))
    <3> HIDE DEF Body
    <3> QED BY <2>1, MaskedAlike
  <2>3. nv_scan_repository(a) = nv_scan_repository(b)
    BY <2>1, <2>2 DEF nv_scan_repository
  <2> QED BY <1>2, <2>3 DEF ToolPlan
<1>3. CASE tool \in {"nv_create_registry", "nv_update_registry"}
  <2>1. Parameters("nv_create_registry") \subseteq DOMAIN a
    BY <1>3 DEF Parameters
  <2>2. \A f \in Parameters("nv_create_registry") \ SECRET_FIELDS : a[f] = b[f]
    BY <2>1 DEF Alike
  <2>3. /\ a.name = b.name /\ a.registry_type = b.registry_type
        /\ a.registry = b.registry /\ a.filters = b.filters
        /\ a.scan_layers = b.scan_layers
        /\ a.rescan_after_db_update = b.rescan_after_db_update
        /\ a.ignore_proxy = b.ignore_proxy /\ a.repo_limit = b.repo_limit
        /\ a.tag_limit = b.tag_limit
    BY <2>2 DEF Parameters, SECRET_FIELDS
  <2>4. RegistryAuth(a) = RegistryAuth(b)
    BY <2>1, AuthAlike
  <2>5. RegistryBody(a) = RegistryBody(b)
    BY <2>3, <2>4 DEF RegistryBody
  <2>6. nv_create_registry(a) = nv_create_registry(b) /\ nv_update_registry(a) = nv_update_registry(b)
    BY <2>3, <2>5 DEF nv_create_registry, nv_update_registry
  <2> QED BY <1>3, <2>6 DEF ToolPlan
<1> QED BY <1>1, <1>2, <1>3 DEF CredentialTools

\* A server that offers any of these tools, with any arguments their schemas allow, the
\* slashes aside.
RealCalls ==
    \A i \in Invocations :
       /\ i[1] \in BoundTools
       /\ SchemaAllows(i[1], i[2]) /\ FirstIsPlain(i[1], i[2])
       /\ PlanOf(i) = ToolPlan(i[1], i[2])

\* The handshake of the real tools: for any set of calls of them, any settings and any
\* number of calls at once, no request is executed that was not shown in a plan before.
\* Nothing is assumed of the tokens here; that they bind is proved above.
THEOREM RealToolsPlannedFirst ==
    ASSUME RealCalls
    PROVE  Spec => []EveryWriteWasPlanned
<1>1. TokenBindsRequest
  <2> SUFFICES ASSUME NEW i \in Invocations, NEW j \in Invocations,
                      confirm_token(i) = confirm_token(j)
               PROVE  PlanOf(i).route = PlanOf(j).route
    BY DEF TokenBindsRequest, Approved
  <2>1. TokenOf(PlanOf(i)) = TokenOf(PlanOf(j))
    BY DEF TokenOf, confirm_token
  <2> QED BY <2>1, OneTokenOneRoute DEF RealCalls
<1> QED BY <1>1, PlannedFirst
=============================================================================
