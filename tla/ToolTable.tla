------------------------------ MODULE ToolTable ------------------------------
(***************************************************************************)
(* The mutating tools of the server with one request each, and the plan    *)
(* each of them makes of its arguments.                                    *)
(***************************************************************************)
EXTENDS PolicyTools, RulesetTools, ProfileTools, ScanTools, AdminTools

Tools ==
    {"nv_delete_group", "nv_create_group", "nv_update_group_criteria",
     "nv_apply_network_rule_changes", "nv_delete_network_rule", "nv_update_process_profile",
     "nv_update_file_monitor_profile", "nv_create_waf_sensor", "nv_update_waf_sensor",
     "nv_delete_waf_sensor", "nv_set_waf_group", "nv_apply_response_rule_changes",
     "nv_update_response_rule", "nv_delete_response_rule", "nv_delete_all_response_rules",
     "nv_create_service", "nv_quarantine_workload", "nv_start_packet_capture",
     "nv_stop_packet_capture", "nv_create_user", "nv_update_user_role", "nv_delete_user",
     "nv_create_api_key", "nv_delete_api_key", "nv_update_system_config",
     "nv_set_namespace_tags", "nv_update_scan_config", "nv_create_webhook",
     "nv_update_webhook", "nv_delete_webhook", "nv_set_admission_state",
     "nv_create_admission_rule", "nv_update_admission_rule", "nv_delete_admission_rule",
     "nv_update_network_rule", "nv_delete_all_network_rules",
     "nv_delete_all_admission_rules", "nv_create_dlp_sensor", "nv_update_dlp_sensor",
     "nv_delete_dlp_sensor", "nv_set_dlp_group", "nv_update_compliance_profile",
     "nv_set_compliance_check_tags", "nv_delete_compliance_check_tags",
     "nv_set_custom_compliance_checks", "nv_update_vulnerability_profile",
     "nv_add_vulnerability_profile_entry", "nv_update_vulnerability_profile_entry",
     "nv_delete_vulnerability_profile_entry", "nv_trigger_scan", "nv_stop_registry_scan",
     "nv_scan_repository", "nv_trigger_bench_run", "nv_create_registry",
     "nv_update_registry", "nv_delete_registry", "nv_create_sigstore_root",
     "nv_update_sigstore_root", "nv_delete_sigstore_root", "nv_create_sigstore_verifier",
     "nv_update_sigstore_verifier", "nv_delete_sigstore_verifier",
     "nv_update_workload_config", "nv_apply_system_request", "nv_set_namespace_defaults"}

Names == Seq(STRING)

\* Arguments that the schema of a tool does not let through never reach its body.  The
\* plans that follow rely on it: a scope is one of two words, a name is a string and
\* the id of an entry a number.
SchemaAllows(tool, a) ==
    /\ tool = "nv_update_webhook" => a.scope \in {"local", "fed"}
    /\ tool \in {"nv_set_compliance_check_tags", "nv_delete_compliance_check_tags"} =>
          a.profile_name \in Names /\ a.check \in Names
    /\ tool = "nv_add_vulnerability_profile_entry" =>
          a.profile_name \in Names /\ "name" \in DOMAIN a.entry /\ a.entry.name \in Names
    /\ tool \in {"nv_update_vulnerability_profile_entry",
                 "nv_delete_vulnerability_profile_entry"} =>
          a.profile_name \in Names /\ a.entry_id \in Nat
    /\ tool = "nv_create_sigstore_verifier" => a.root_name \in Names /\ a.name \in Names
    /\ tool \in {"nv_update_sigstore_verifier", "nv_delete_sigstore_verifier"} =>
          a.root_name \in Names /\ a.verifier_name \in Names

ToolPlan(tool, a) ==
    CASE tool = "nv_delete_group" -> nv_delete_group(a)
      [] tool = "nv_create_group" -> nv_create_group(a)
      [] tool = "nv_update_group_criteria" -> nv_update_group_criteria(a)
      [] tool = "nv_apply_network_rule_changes" -> nv_apply_network_rule_changes(a)
      [] tool = "nv_delete_network_rule" -> nv_delete_network_rule(a)
      [] tool = "nv_update_process_profile" -> nv_update_process_profile(a)
      [] tool = "nv_update_file_monitor_profile" -> nv_update_file_monitor_profile(a)
      [] tool = "nv_create_waf_sensor" -> nv_create_waf_sensor(a)
      [] tool = "nv_update_waf_sensor" -> nv_update_waf_sensor(a)
      [] tool = "nv_delete_waf_sensor" -> nv_delete_waf_sensor(a)
      [] tool = "nv_set_waf_group" -> nv_set_waf_group(a)
      [] tool = "nv_apply_response_rule_changes" -> nv_apply_response_rule_changes(a)
      [] tool = "nv_update_response_rule" -> nv_update_response_rule(a)
      [] tool = "nv_delete_response_rule" -> nv_delete_response_rule(a)
      [] tool = "nv_delete_all_response_rules" -> nv_delete_all_response_rules(a)
      [] tool = "nv_create_service" -> nv_create_service(a)
      [] tool = "nv_quarantine_workload" -> nv_quarantine_workload(a)
      [] tool = "nv_start_packet_capture" -> nv_start_packet_capture(a)
      [] tool = "nv_stop_packet_capture" -> nv_stop_packet_capture(a)
      [] tool = "nv_create_user" -> nv_create_user(a)
      [] tool = "nv_update_user_role" -> nv_update_user_role(a)
      [] tool = "nv_delete_user" -> nv_delete_user(a)
      [] tool = "nv_create_api_key" -> nv_create_api_key(a)
      [] tool = "nv_delete_api_key" -> nv_delete_api_key(a)
      [] tool = "nv_update_system_config" -> nv_update_system_config(a)
      [] tool = "nv_set_namespace_tags" -> nv_set_namespace_tags(a)
      [] tool = "nv_update_scan_config" -> nv_update_scan_config(a)
      [] tool = "nv_create_webhook" -> nv_create_webhook(a)
      [] tool = "nv_update_webhook" -> nv_update_webhook(a)
      [] tool = "nv_delete_webhook" -> nv_delete_webhook(a)
      [] tool = "nv_set_admission_state" -> nv_set_admission_state(a)
      [] tool = "nv_create_admission_rule" -> nv_create_admission_rule(a)
      [] tool = "nv_update_admission_rule" -> nv_update_admission_rule(a)
      [] tool = "nv_delete_admission_rule" -> nv_delete_admission_rule(a)
      [] tool = "nv_update_network_rule" -> nv_update_network_rule(a)
      [] tool = "nv_delete_all_network_rules" -> nv_delete_all_network_rules(a)
      [] tool = "nv_delete_all_admission_rules" -> nv_delete_all_admission_rules(a)
      [] tool = "nv_create_dlp_sensor" -> nv_create_dlp_sensor(a)
      [] tool = "nv_update_dlp_sensor" -> nv_update_dlp_sensor(a)
      [] tool = "nv_delete_dlp_sensor" -> nv_delete_dlp_sensor(a)
      [] tool = "nv_set_dlp_group" -> nv_set_dlp_group(a)
      [] tool = "nv_update_compliance_profile" -> nv_update_compliance_profile(a)
      [] tool = "nv_set_compliance_check_tags" -> nv_set_compliance_check_tags(a)
      [] tool = "nv_delete_compliance_check_tags" -> nv_delete_compliance_check_tags(a)
      [] tool = "nv_set_custom_compliance_checks" -> nv_set_custom_compliance_checks(a)
      [] tool = "nv_update_vulnerability_profile" -> nv_update_vulnerability_profile(a)
      [] tool = "nv_add_vulnerability_profile_entry" -> nv_add_vulnerability_profile_entry(a)
      [] tool = "nv_update_vulnerability_profile_entry" -> nv_update_vulnerability_profile_entry(a)
      [] tool = "nv_delete_vulnerability_profile_entry" -> nv_delete_vulnerability_profile_entry(a)
      [] tool = "nv_trigger_scan" -> nv_trigger_scan(a)
      [] tool = "nv_stop_registry_scan" -> nv_stop_registry_scan(a)
      [] tool = "nv_scan_repository" -> nv_scan_repository(a)
      [] tool = "nv_trigger_bench_run" -> nv_trigger_bench_run(a)
      [] tool = "nv_create_registry" -> nv_create_registry(a)
      [] tool = "nv_update_registry" -> nv_update_registry(a)
      [] tool = "nv_delete_registry" -> nv_delete_registry(a)
      [] tool = "nv_create_sigstore_root" -> nv_create_sigstore_root(a)
      [] tool = "nv_update_sigstore_root" -> nv_update_sigstore_root(a)
      [] tool = "nv_delete_sigstore_root" -> nv_delete_sigstore_root(a)
      [] tool = "nv_create_sigstore_verifier" -> nv_create_sigstore_verifier(a)
      [] tool = "nv_update_sigstore_verifier" -> nv_update_sigstore_verifier(a)
      [] tool = "nv_delete_sigstore_verifier" -> nv_delete_sigstore_verifier(a)
      [] tool = "nv_update_workload_config" -> nv_update_workload_config(a)
      [] tool = "nv_apply_system_request" -> nv_apply_system_request(a)
      [] tool = "nv_set_namespace_defaults" -> nv_set_namespace_defaults(a)
=============================================================================
