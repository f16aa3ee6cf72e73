---------------------------- MODULE ProfileTools ----------------------------
(***************************************************************************)
(* The compliance and vulnerability profiles and the custom check scripts  *)
(* (compliance_write.py, vulnerability_write.py, toolset system_write).    *)
(* As in PolicyTools, a definition is the plan a tool puts before the      *)
(* guard.                                                                  *)
(***************************************************************************)
EXTENDS ToolPlans

COMPLIANCE_TAGS == {"PCI", "PCIv4", "GDPR", "HIPAA", "NIST", "DISA"}
MAX_CUSTOM_SCRIPTS == 16

ProfilePlan(operation, target, namespace, payload, route) ==
    Plan(operation, "system_write", target, namespace, payload, route)
-----------------------------------------------------------------------------
(* Compliance.  An entry is [test_number, tags], tags a list.              *)

COMPLIANCE(profile) == Slash(<<"/v1/compliance/profile">>, profile)
ComplianceEntry(a) == Slash(COMPLIANCE(a.profile_name), Slash(<<"entry">>, a.check))
CheckOf(a) == Slash(a.profile_name, a.check)

_validate_tags(tags) == Range(tags) \subseteq COMPLIANCE_TAGS

nv_update_compliance_profile(a) ==
    LET changes == Given([disable_system |-> a.disable_system, entries |-> a.entries])
    IN  Checked(/\ DOMAIN changes # {}
                /\ a.entries # None =>
                      \A k \in DOMAIN a.entries : _validate_tags(a.entries[k].tags),
                ProfilePlan("nv_update_compliance_profile", a.profile_name, None,
                            <<a.profile_name, changes>>,
                            Route("PATCH", COMPLIANCE(a.profile_name))))

nv_set_compliance_check_tags(a) ==
    Checked(_validate_tags(a.tags),
            ProfilePlan("nv_set_compliance_check_tags", CheckOf(a), None,
                        [test_number |-> a.check, tags |-> a.tags],
                        Route("PATCH", ComplianceEntry(a))))

nv_delete_compliance_check_tags(a) ==
    ProfilePlan("nv_delete_compliance_check_tags", CheckOf(a), None,
                NoPayload, Route("DELETE", ComplianceEntry(a)))

\* One part of the request: all its scripts run, or none.
_custom_checks_body(a, scripts) ==
    IF scripts = <<>> THEN None ELSE <<a.group_name, a.enabled, scripts>>

\* A script is [name, script, configurable]; the blank one is "".
nv_set_custom_compliance_checks(a) ==
    LET sent == a.add_scripts \o a.update_scripts
        body == Given([add |-> _custom_checks_body(a, a.add_scripts),
                       update |-> _custom_checks_body(a, a.update_scripts),
                       delete |-> _custom_checks_body(a, a.delete_script_names)])
    IN  Checked(/\ Len(sent) + Len(a.delete_script_names) \in 1..MAX_CUSTOM_SCRIPTS
                /\ \A k \in DOMAIN sent : sent[k].script # "",
                ProfilePlan("nv_set_custom_compliance_checks", a.group_name,
                            _namespace_from_group_name(a.group_name), body,
                            Route("PATCH", <<"/v1/custom_check", a.group_name>>)))
-----------------------------------------------------------------------------
(* Vulnerability exceptions.  Id 0 stands for "none yet".                  *)

VULNERABILITY(profile) == Slash(<<"/v1/vulnerability/profile">>, profile)
VulnerabilityEntry(a) == Slash(VULNERABILITY(a.profile_name), <<"entry", a.entry_id>>)
EntryOf(a) == Slash(a.profile_name, <<a.entry_id>>)

_entry_body(entry, entry_id) == [entry EXCEPT !.id = entry_id]

\* Only an entry for one namespace has a namespace the guard can look at.
_entry_namespace(entry) == IF Len(entry.namespaces) = 1 THEN entry.namespaces[1] ELSE None

\* No id may come twice.
nv_update_vulnerability_profile(a) ==
    LET entries == a.entries
    IN  Checked(\A j, k \in DOMAIN entries :
                   j # k => entries[j].id = 0 \/ entries[j].id # entries[k].id,
                ProfilePlan("nv_update_vulnerability_profile", a.profile_name, None,
                            [name |-> a.profile_name, entries |-> entries],
                            Route("PATCH", VULNERABILITY(a.profile_name))))

nv_add_vulnerability_profile_entry(a) ==
    Checked(a.entry.id = 0,
            ProfilePlan("nv_add_vulnerability_profile_entry",
                        Slash(a.profile_name, a.entry.name), _entry_namespace(a.entry),
                        _entry_body(a.entry, 0),
                        Route("POST", Slash(VULNERABILITY(a.profile_name), <<"entry">>))))

nv_update_vulnerability_profile_entry(a) ==
    Checked(a.entry.id \in {0, a.entry_id},
            ProfilePlan("nv_update_vulnerability_profile_entry",
                        EntryOf(a), _entry_namespace(a.entry),
                        _entry_body(a.entry, a.entry_id),
                        Route("PATCH", VulnerabilityEntry(a))))

nv_delete_vulnerability_profile_entry(a) ==
    ProfilePlan("nv_delete_vulnerability_profile_entry", EntryOf(a),
                None, NoPayload, Route("DELETE", VulnerabilityEntry(a)))
=============================================================================
