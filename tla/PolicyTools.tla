---------------------------- MODULE PolicyTools ----------------------------
(***************************************************************************)
(* The tools of toolset policy_write: policy_write.py, the response rules  *)
(* of response_write.py and nv_create_service.  For the arguments `a` of   *)
(* one call, each definition is the plan the tool puts before the guard.   *)
(* (nv_set_group_policy_mode is in ServiceModes.)                          *)
(***************************************************************************)
EXTENDS ToolPlans

MAX_RULE_CHANGES == 16
MAX_RESPONSE_RULE_CHANGES == 16

\* The first criterion on `domain` wins.
_namespace_from_criteria(criteria) ==
    LET domains == SelectSeq(criteria, LAMBDA c : c.key = "domain")
    IN  IF Len(domains) = 0 THEN None ELSE Head(domains).value

_rule_body(rule) == Given(rule)

Bodies(rules) == [k \in DOMAIN rules |-> _rule_body(rules[k])]

PolicyPlan(operation, target, namespace, payload, route) ==
    Plan(operation, "policy_write", target, namespace, payload, route)
-----------------------------------------------------------------------------
nv_delete_group(a) ==
    PolicyPlan("nv_delete_group", a.group_name, None, NoPayload,
               Route("DELETE", <<"/v1/group", a.group_name>>))

GroupBody(a) == [name |-> a.group_name, criteria |-> a.criteria]

nv_create_group(a) ==
    PolicyPlan("nv_create_group", a.group_name, _namespace_from_criteria(a.criteria),
               GroupBody(a), Route("POST", "/v1/group"))

nv_update_group_criteria(a) ==
    LET learned == _namespace_from_group_name(a.group_name)
    IN  PolicyPlan("nv_update_group_criteria", a.group_name,
                   IF learned # None THEN learned ELSE _namespace_from_criteria(a.criteria),
                   GroupBody(a), Route("PATCH", <<"/v1/group", a.group_name>>))

ChangeCount(a) ==
    Len(a.insert_rules) + Len(a.configure_rules) + Len(a.delete_rule_ids)
      + (IF a.move_rule_id # None THEN 1 ELSE 0)

RuleChangesValid(a) ==
    /\ ChangeCount(a) \in 1..MAX_RULE_CHANGES
    /\ \A k \in DOMAIN a.configure_rules : a.configure_rules[k].id # None
    /\ \A k \in DOMAIN a.insert_rules : a.insert_rules[k].id = None
    /\ a.move_after_rule_id # None => a.move_rule_id # None
    /\ a.insert_after_rule_id # None => a.insert_rules # <<>>

RuleChangesBody(a) ==
    Given([insert |-> IF a.insert_rules = <<>> THEN None
                      ELSE Given([rules |-> Bodies(a.insert_rules),
                                  after |-> a.insert_after_rule_id]),
           move |-> IF a.move_rule_id = None THEN None
                    ELSE Given([id |-> a.move_rule_id, after |-> a.move_after_rule_id]),
           rules |-> NonEmpty(Bodies(a.configure_rules)),
           delete |-> NonEmpty(a.delete_rule_ids)])

\* The batch is one request; `scope` travels in the query and in the target.
nv_apply_network_rule_changes(a) ==
    LET plan == PolicyPlan("nv_apply_network_rule_changes",
                           <<"network policy rules", a.scope>>, None, RuleChangesBody(a),
                           RouteWith("PATCH", "/v1/policy/rule", [scope |-> a.scope]))
    IN  Checked(RuleChangesValid(a), plan)

nv_delete_network_rule(a) ==
    PolicyPlan("nv_delete_network_rule", a.rule_id, None, NoPayload,
               Route("DELETE", <<"/v1/policy/rule", a.rule_id>>))

\* At least one change, or a ValidationError_.
nv_update_process_profile(a) ==
    LET changes == Given([alert_disabled |-> a.alert_disabled,
                          hash_enabled |-> a.hash_enabled,
                          process_change_list |-> NonEmpty(a.add_entries),
                          process_delete_list |-> NonEmpty(a.delete_entries)])
        plan == PolicyPlan("nv_update_process_profile", a.group_name,
                           _namespace_from_group_name(a.group_name),
                           <<a.group_name, changes>>,
                           Route("PATCH", <<"/v1/process_profile", a.group_name>>))
    IN  Changing(changes, plan)

nv_update_file_monitor_profile(a) ==
    LET changes == Given([add_filters |-> NonEmpty(a.add_filters),
                          update_filters |-> NonEmpty(a.update_filters),
                          delete_filters |-> NonEmpty(a.delete_filters)])
        plan == PolicyPlan("nv_update_file_monitor_profile", a.group_name,
                           _namespace_from_group_name(a.group_name), changes,
                           Route("PATCH", <<"/v1/file_monitor", a.group_name>>))
    IN  Changing(changes, plan)

nv_create_waf_sensor(a) ==
    PolicyPlan("nv_create_waf_sensor", a.sensor_name, None,
               [name |-> a.sensor_name, comment |-> a.comment, rules |-> a.rules],
               Route("POST", "/v1/waf/sensor"))

\* The rules are always sent and replace the sensor's; the comment is kept unless given.
nv_update_waf_sensor(a) ==
    PolicyPlan("nv_update_waf_sensor", a.sensor_name, None,
               Given([name |-> a.sensor_name, rules |-> a.rules, comment |-> a.comment]),
               Route("PATCH", <<"/v1/waf/sensor", a.sensor_name>>))

nv_delete_waf_sensor(a) ==
    PolicyPlan("nv_delete_waf_sensor", a.sensor_name, None, NoPayload,
               Route("DELETE", <<"/v1/waf/sensor", a.sensor_name>>))

nv_set_waf_group(a) ==
    PolicyPlan("nv_set_waf_group", a.group_name, _namespace_from_group_name(a.group_name),
               Given([name |-> a.group_name, replace |-> a.sensors, status |-> a.status]),
               Route("PATCH", <<"/v1/waf/group", a.group_name>>))
-----------------------------------------------------------------------------
(* Response rules.                                                         *)

\* Webhook references are names, none blank and none twice.
_validate_webhook_names(names) ==
    /\ \A k \in DOMAIN names : names[k] # ""
    /\ \A j, k \in DOMAIN names : j # k => names[j] # names[k]

nv_apply_response_rule_changes(a) ==
    LET rules == a.insert_rules
        plan == PolicyPlan("nv_apply_response_rule_changes", "response rules", None,
                           Given([rules |-> rules, after |-> a.insert_after_rule_id]),
                           Route("PATCH", "/v1/response/rule"))
    IN  Checked(/\ Len(rules) \in 1..MAX_RESPONSE_RULE_CHANGES
                /\ \A k \in DOMAIN rules : _validate_webhook_names(rules[k].webhooks),
                plan)

\* Only what was passed is sent: an absent field is left alone by the controller.
nv_update_response_rule(a) ==
    LET changes == Given([event |-> a.event, group |-> a.group, actions |-> a.actions,
                          webhooks |-> a.webhooks, conditions |-> a.conditions,
                          comment |-> a.comment, disable |-> a.disable])
        plan == PolicyPlan("nv_update_response_rule", <<"response rule", a.rule_id>>, None,
                           <<a.rule_id, changes>>,
                           Route("PATCH", <<"/v1/response/rule", a.rule_id>>))
    IN  Checked(/\ DOMAIN changes # {}
                /\ a.webhooks # None => _validate_webhook_names(a.webhooks)
                /\ a.conditions # None => \A k \in DOMAIN a.conditions :
                                             /\ a.conditions[k].type # ""
                                             /\ DOMAIN a.conditions[k] \subseteq
                                                  {"type", "value"},
                plan)

nv_delete_response_rule(a) ==
    PolicyPlan("nv_delete_response_rule", <<"response rule", a.rule_id>>, None, NoPayload,
               Route("DELETE", <<"/v1/response/rule", a.rule_id>>))

nv_delete_all_response_rules(a) ==
    PolicyPlan("nv_delete_all_response_rules", <<"all response rules", a.scope>>, None,
               NoPayload, RouteWith("DELETE", "/v1/response/rule", [scope |-> a.scope]))

\* `domain` is the namespace the allow-list is checked against.
nv_create_service(a) ==
    PolicyPlan("nv_create_service", <<a.name, a.domain>>, a.domain,
               Given([name |-> a.name, domain |-> a.domain, comment |-> a.comment,
                      policy_mode |-> a.policy_mode,
                      baseline_profile |-> a.baseline_profile, not_scored |-> a.not_scored]),
               Route("POST", "/v1/service"))
=============================================================================
