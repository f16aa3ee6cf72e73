----------------------------- MODULE ToolPlans -----------------------------
(* What the tables of the tools are written with.  A table gives, for each *)
(* tool and the arguments of one call, what the tool puts before the guard *)
(* and where its request goes.  Arguments keep their names; None stands    *)
(* for an argument the caller omitted.                                     *)
EXTENDS Naturals, Integers, Sequences, Functions

CONSTANT None

SECRET_FIELDS ==
    {"password", "auth_token", "gitlab_private_token", "secret_access_key", "json_key",
     "personal_access_token", "apikey_secret", "temp_token"}
REDACTED == "***"

\* The bodies here are flat: their envelope keys distinguish nothing.
redact_secrets(body) == [f \in DOMAIN body |-> IF f \in SECRET_FIELDS THEN REDACTED ELSE body[f]]

\* _set_fields(), _optional(), "if x is not None": an omitted argument is absent
\* from the body.
Given(body) == Restrict(body, {f \in DOMAIN body : body[f] # None})

\* "if rules:", an empty list is left out.
NonEmpty(list) == IF Len(list) = 0 THEN None ELSE list

NoPayload == <<>>

Route(method, path) == <<method, path>>
RouteWith(method, path, params) == <<method, path, params>>

Plan(operation, toolset, target, namespace, payload, route) ==
    [operation |-> operation, toolset |-> toolset, target |-> target, namespace |-> namespace,
     payload |-> payload, route |-> route, valid |-> TRUE, reads |-> FALSE]

\* The tool's own checks, before the guard: "if not ...: raise ValidationError_".
Checked(condition, plan) == [plan EXCEPT !.valid = condition]

\* An update has to give something to change.
Changing(changes, plan) == Checked(DOMAIN changes # {}, plan)

\* f"{left}/{right}": a name is the sequence of its parts between slashes, and so is a
\* path.  Two names that hold slashes themselves may give one joined name.
Slash(left, right) == left \o right

\* A group's name is the sequence of its dotted parts: <<"nv", service, namespace>>
\* when it was learned.
_namespace_from_group_name(group) == IF Head(group) = "nv" THEN group[Len(group)] ELSE None
=============================================================================
