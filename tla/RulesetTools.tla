---------------------------- MODULE RulesetTools ----------------------------
(***************************************************************************)
(* Admission rules (admission.py, toolset admission), the tools over whole *)
(* rulesets (ruleset_ops.py, toolsets policy_write and admission) and DLP  *)
(* sensors (dlp.py, toolset policy_write).  As in PolicyTools, a           *)
(* definition is the plan a tool puts before the guard.                    *)
(***************************************************************************)
EXTENDS ToolPlans

MAX_ADMISSION_CRITERIA == 16
DLP_RULE_PATTERN_MAX_NUM == 16
DLP_RULE_PATTERN_MAX_LEN == 512
DLP_RULE_PATTERN_TOTAL_MAX_LEN == 1024

AdmissionPlan(operation, target, payload, route) ==
    Plan(operation, "admission", target, None, payload, route)
RulesetPlan(operation, target, namespace, payload, route) ==
    Plan(operation, "policy_write", target, namespace, payload, route)
-----------------------------------------------------------------------------
(* Admission control.                                                      *)

nv_set_admission_state(a) ==
    AdmissionPlan("nv_set_admission_state", "cluster admission control",
                  Given([enable |-> a.enable, mode |-> a.mode,
                         default_action |-> a.default_action]),
                  Route("PATCH", "/v1/admission/state"))

\* A criterion goes out as it came in, with its nested criteria if it has some.
_criterion_body(criterion) ==
    Given([criterion EXCEPT !.sub_criteria = NonEmpty(criterion.sub_criteria)])

\* Every field of the rule is sent, whether it was given or is a default.
AdmissionRuleBody(a) ==
    [category |-> a.category, rule_type |-> a.rule_type, cfg_type |-> "user_created",
     criteria |-> [k \in DOMAIN a.criteria |-> _criterion_body(a.criteria[k])],
     containers |-> a.containers, rule_mode |-> a.rule_mode, comment |-> a.comment,
     disable |-> a.disable]

AdmissionRulePlan(a, plan) == Checked(Len(a.criteria) <= MAX_ADMISSION_CRITERIA, plan)

nv_create_admission_rule(a) ==
    AdmissionRulePlan(a, AdmissionPlan("nv_create_admission_rule",
                                       <<"new admission rule", a.rule_type>>,
                                       AdmissionRuleBody(a),
                                       Route("POST", "/v1/admission/rule")))

\* The id of the rule travels in the body.
nv_update_admission_rule(a) ==
    AdmissionRulePlan(a, AdmissionPlan("nv_update_admission_rule", a.rule_id,
                                       <<a.rule_id, AdmissionRuleBody(a)>>,
                                       Route("PATCH", "/v1/admission/rule")))

nv_delete_admission_rule(a) ==
    AdmissionPlan("nv_delete_admission_rule", a.rule_id, NoPayload,
                  Route("DELETE", <<"/v1/admission/rule", a.rule_id>>))
-----------------------------------------------------------------------------
(* Whole rulesets.                                                         *)

\* Only what the caller gave; id and cfg_type are always there.
_rule_config_body(a) ==
    Given([comment |-> a.comment, from |-> a.from_group, to |-> a.to_group,
           ports |-> a.ports, action |-> a.action, applications |-> a.applications,
           disable |-> a.disable])

nv_update_network_rule(a) ==
    LET changes == _rule_config_body(a)
    IN  Changing(changes,
                 RulesetPlan("nv_update_network_rule", <<"network policy rule", a.rule_id>>,
                             None, <<a.rule_id, "user_created", changes>>,
                             Route("PATCH", <<"/v1/policy/rule", a.rule_id>>)))

\* The scope and the number of rules the caller believes in are folded into the
\* target: there is no body that would bind them.  The number is not compared with
\* what the controller has.
EveryRuleOf(a) == <<a.scope, a.expected_rule_count>>

nv_delete_all_network_rules(a) ==
    RulesetPlan("nv_delete_all_network_rules", EveryRuleOf(a), None, NoPayload,
                RouteWith("DELETE", "/v1/policy/rule", [scope |-> a.scope]))

nv_delete_all_admission_rules(a) ==
    AdmissionPlan("nv_delete_all_admission_rules", EveryRuleOf(a), NoPayload,
                  RouteWith("DELETE", "/v1/admission/rules", [scope |-> a.scope]))
-----------------------------------------------------------------------------
(* DLP sensors.  The value of a pattern is its length.                     *)

_dlp_rule_body(rule) ==
    [name |-> rule.name,
     patterns |-> [k \in DOMAIN rule.patterns |->
                      Given([op |-> rule.patterns[k].op, value |-> rule.patterns[k].value,
                             context |-> rule.patterns[k].context])]]

DlpBodies(rules) == [k \in DOMAIN rules |-> _dlp_rule_body(rules[k])]

_validate_dlp_rules(rules) ==
    \A k \in DOMAIN rules :
       LET lengths == [j \in DOMAIN rules[k].patterns |-> rules[k].patterns[j].value]
       IN  /\ Len(lengths) <= DLP_RULE_PATTERN_MAX_NUM
           /\ \A j \in DOMAIN lengths : lengths[j] <= DLP_RULE_PATTERN_MAX_LEN
           /\ FoldFunction(+, 0, lengths) <= DLP_RULE_PATTERN_TOTAL_MAX_LEN

nv_create_dlp_sensor(a) ==
    Checked(_validate_dlp_rules(a.rules),
            RulesetPlan("nv_create_dlp_sensor", a.sensor_name, None,
                        Given([name |-> a.sensor_name, cfg_type |-> "user_created",
                               rules |-> DlpBodies(a.rules), comment |-> a.comment]),
                        Route("POST", "/v1/dlp/sensor")))

\* The rules given become all the rules of the sensor.
nv_update_dlp_sensor(a) ==
    Checked(_validate_dlp_rules(a.rules),
            RulesetPlan("nv_update_dlp_sensor", a.sensor_name, None,
                        Given([name |-> a.sensor_name, rules |-> DlpBodies(a.rules),
                               comment |-> a.comment]),
                        Route("PATCH", <<"/v1/dlp/sensor", a.sensor_name>>)))

nv_delete_dlp_sensor(a) ==
    RulesetPlan("nv_delete_dlp_sensor", a.sensor_name, None, NoPayload,
                Route("DELETE", <<"/v1/dlp/sensor", a.sensor_name>>))

nv_set_dlp_group(a) ==
    RulesetPlan("nv_set_dlp_group", a.group_name, _namespace_from_group_name(a.group_name),
                Given([name |-> a.group_name, replace |-> a.sensors, status |-> a.status]),
                Route("PATCH", <<"/v1/dlp/group", a.group_name>>))
=============================================================================
