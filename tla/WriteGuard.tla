----------------------------- MODULE WriteGuard -----------------------------
(***************************************************************************)
(* One mutating tool call, end to end: the AuditMiddleware of audit.py     *)
(* around the five-step tool body, with authorise_write of guard.py        *)
(* between the plan and the request, and the request handed to the client, *)
(* of which only the promise is used (AtLeastOnce).                        *)
(*                                                                         *)
(* What a tool makes of its arguments is a constant here: PlanOf gives,    *)
(* for each invocation, what the tool hands to the guard and where it      *)
(* sends the request.  PolicyTools, RulesetTools, ProfileTools, ScanTools  *)
(* and AdminTools say it for the real tools.                               *)
(*                                                                         *)
(* confirm_token() is a digest of (operation, target, payload); the model  *)
(* uses the triple itself.  A caller knows the tokens of the plans it was  *)
(* shown, by this process or an earlier one: a token has no expiry and is  *)
(* not used up.  Any other string is WrongToken, for the caller cannot     *)
(* guess a token.                                                          *)
(***************************************************************************)
EXTENDS Naturals

CONSTANTS Calls,        \* the tool calls
          Invocations,  \* the tools with their arguments
          PlanOf(_),    \* what each invocation puts before the guard
          NoNamespace,  \* namespace=None
          Configs,      \* the Settings considered
          NoToken,      \* confirm=None
          WrongToken,   \* a string that is nobody's token
          MaxSends      \* how often the client may put one request on the wire

\* Settings._read_only_consistency: a read-only server has no mutating toolset.
ASSUME ConfigsAssumption == \A s \in Configs : s.read_only => s.toolsets = {}

VARIABLES
    settings,   \* frozen
    planned,    \* the invocations whose plan, with its token, was returned
    \* one tool call
    pc,         \* "idle", "reading", "sending" or "done"
    ask,        \* the invocation
    confirm,    \* its confirm argument
    outcome,    \* what the tool returned or raised
    audit,      \* the audit record of the call, or NoRecord
    \* its request, as the client promises it
    status, executed

callVars == <<pc, ask, confirm, outcome, audit>>
clientVars == <<status, executed>>
vars == <<settings, planned, callVars, clientVars>>

Client == INSTANCE AtLeastOnce WITH MaxExecutions <- MaxSends

\* Mutant: the body is left out of the digest.
confirm_token_NoPayload(i) == <<PlanOf(i).operation, PlanOf(i).target>>

confirm_token(i) == <<PlanOf(i).operation, PlanOf(i).target, PlanOf(i).payload>>

Tokens == {confirm_token(i) : i \in Invocations}
Confirms == Tokens \cup {NoToken, WrongToken}
ASSUME TokensAssumption == NoToken \notin Tokens /\ WrongToken \notin Tokens

Outcomes == {"none", "confirmation_required", "applied", "NotFoundError", "ValidationError_",
             "GuardError", "error", "cancelled"}

NoRecord == [result |-> "none", confirmed |-> FALSE]
Records == [result : {"none", "ok", "error"}, confirmed : BOOLEAN]

TypeOK ==
    /\ settings \in Configs
    /\ planned \subseteq Invocations
    /\ pc \in [Calls -> {"idle", "reading", "sending", "done"}]
    /\ ask \in [Calls -> Invocations]
    /\ confirm \in [Calls -> Confirms]
    /\ outcome \in [Calls -> Outcomes]
    /\ audit \in [Calls -> Records]
    /\ status \in [Calls -> {"idle", "running", "ok", "failed"}]
    /\ executed \in [Calls -> SUBSET (1..MaxSends)]

Init ==
    /\ settings \in Configs
    /\ planned = {}
    /\ pc = [c \in Calls |-> "idle"]
    /\ ask \in [Calls -> Invocations]
    /\ confirm = [c \in Calls |-> NoToken]
    /\ outcome = [c \in Calls |-> "none"]
    /\ audit = [c \in Calls |-> NoRecord]
    /\ Client!Init
-----------------------------------------------------------------------------
\* The toolset module registered the tool.
Registered(i) == PlanOf(i).toolset \in settings.toolsets

\* Conditions 1 to 3 of authorise_write.
Forbidden(i) ==
    \/ settings.read_only
    \/ PlanOf(i).toolset \notin settings.toolsets
    \/ /\ PlanOf(i).namespace # NoNamespace
       /\ settings.allowed_namespaces # {}
       /\ PlanOf(i).namespace \notin settings.allowed_namespaces

\* Mutant: any token will do.
Confirmed_AnyToken(i, t) == settings.require_confirm_token => t # NoToken

\* Condition 4 of authorise_write.
Confirmed(i, t) == settings.require_confirm_token => t = confirm_token(i)

\* Mutant: the record is written before the call.
Record_Early(result, t) == [result |-> "ok", confirmed |-> t # NoToken]

\* Mutant: the record holds the confirm argument itself.
Record_Raw(result, t) == [result |-> result, confirmed |-> t]

\* The middleware writes its record when the call returned or raised an Exception.
Record(result, t) == [result |-> result, confirmed |-> t # NoToken]

Answer(c, kind, result, t) ==
    /\ pc' = [pc EXCEPT ![c] = "done"]
    /\ outcome' = [outcome EXCEPT ![c] = kind]
    /\ audit' = [audit EXCEPT ![c] = Record(result, t)]

\* authorise_write and what the tool does with its verdict.
Authorise(c, t) ==
    \/ /\ Forbidden(ask[c])
       /\ Answer(c, "GuardError", "error", t)
       /\ UNCHANGED <<planned, status>>
    \/ /\ ~Forbidden(ask[c])
       /\ ~Confirmed(ask[c], t)
       /\ t = NoToken
       /\ Answer(c, "confirmation_required", "ok", t)
       /\ planned' = planned \cup {ask[c]}
       /\ UNCHANGED status
    \/ /\ ~Forbidden(ask[c])
       /\ ~Confirmed(ask[c], t)
       /\ t # NoToken
       /\ Answer(c, "GuardError", "error", t)
       /\ UNCHANGED <<planned, status>>
    \/ /\ ~Forbidden(ask[c])
       /\ Confirmed(ask[c], t)
       /\ pc' = [pc EXCEPT ![c] = "sending"]
       /\ Client!Begin(c)
       /\ UNCHANGED <<planned, outcome, audit>>

\* The confirm arguments a caller can have.
Known == {confirm_token(j) : j \in planned} \cup {NoToken, WrongToken}

\* tools/call reaches the server: up to the first await.
Start(c, t) ==
    /\ pc[c] = "idle"
    /\ confirm' = [confirm EXCEPT ![c] = t]
    /\ \/ /\ ~Registered(ask[c])
          /\ Answer(c, "NotFoundError", "error", t)
          /\ UNCHANGED <<planned, status>>
       \/ /\ Registered(ask[c])
          /\ ~PlanOf(ask[c]).valid
          /\ Answer(c, "ValidationError_", "error", t)
          /\ UNCHANGED <<planned, status>>
       \/ /\ Registered(ask[c])
          /\ PlanOf(ask[c]).valid
          /\ PlanOf(ask[c]).reads
          /\ pc' = [pc EXCEPT ![c] = "reading"]
          /\ UNCHANGED <<planned, outcome, audit, status>>
       \/ /\ Registered(ask[c])
          /\ PlanOf(ask[c]).valid
          /\ ~PlanOf(ask[c]).reads
          /\ Authorise(c, t)
    /\ UNCHANGED <<settings, ask, executed>>

\* The GET of nv_update_system_config before the guard: it returned, or raised an
\* error of the client, which is swallowed.
HasRead(c) ==
    /\ pc[c] = "reading"
    /\ Authorise(c, confirm[c])
    /\ UNCHANGED <<settings, ask, confirm, executed>>

\* It raised anything else (a broken re-login).
ReadBreaks(c) ==
    /\ pc[c] = "reading"
    /\ Answer(c, "error", "error", confirm[c])
    /\ UNCHANGED <<settings, planned, ask, confirm, clientVars>>

Applied(c) ==
    /\ pc[c] = "sending"
    /\ Client!Succeed(c)
    /\ Answer(c, "applied", "ok", confirm[c])
    /\ UNCHANGED <<settings, planned, ask, confirm>>

RequestFails(c) ==
    /\ pc[c] = "sending"
    /\ Client!Fail(c)
    /\ Answer(c, "error", "error", confirm[c])
    /\ UNCHANGED <<settings, planned, ask, confirm>>

\* CancelledError is no Exception: the middleware's handler does not see it.
Cancel(c) ==
    /\ pc[c] \in {"reading", "sending"}
    /\ pc' = [pc EXCEPT ![c] = "done"]
    /\ outcome' = [outcome EXCEPT ![c] = "cancelled"]
    /\ IF pc[c] = "sending" THEN Client!Fail(c) ELSE UNCHANGED clientVars
    /\ UNCHANGED <<settings, planned, ask, confirm, audit>>

\* The controller executes a delivery of the request, perhaps after the call ended.
Execute(c) ==
    /\ Client!Execute(c)
    /\ UNCHANGED <<settings, planned, callVars>>

CallStep(c) ==
    \/ \E t \in Known : Start(c, t)
    \/ HasRead(c)
    \/ ReadBreaks(c)
    \/ Applied(c)
    \/ RequestFails(c)
    \/ Cancel(c)
    \/ Execute(c)

Next == \E c \in Calls : CallStep(c)

Spec == Init /\ [][Next]_vars
-----------------------------------------------------------------------------
(* Properties.                                                             *)

\* What a caller approves when it confirms: the operation, its target, the body
\* (with its secrets masked), and where the request goes.
Approved(i) == <<confirm_token(i), PlanOf(i).route>>

\* The handshake: while tokens are required, the controller executes a request only
\* if that very request was shown in a plan before, whoever replays which token
\* with which arguments.
EveryWriteWasPlanned ==
    settings.require_confirm_token =>
       \A c \in Calls : executed[c] # {} =>
          \E i \in planned : Approved(i) = Approved(ask[c])

\* The tool table binds its tokens: two invocations with one token send the same
\* request to the same place.
TokenBindsRequest ==
    \A i, j \in Invocations : confirm_token(i) = confirm_token(j) => Approved(i) = Approved(j)

\* An audit record never says "ok" for a write the controller did not execute, and
\* a recorded write shows that it was confirmed when tokens are required.
AuditTellsTheTruth ==
    \A c \in Calls :
       /\ audit[c].result = "ok" =>
             outcome[c] = "confirmation_required" \/ executed[c] # {}
       /\ (executed[c] # {} /\ audit[c] # NoRecord /\ settings.require_confirm_token) =>
             audit[c].confirmed

\* audit.py: "emits one record per tools/call", so a write that was executed and
\* whose call is over has one.
EveryWriteIsAudited ==
    \A c \in Calls : (pc[c] = "done" /\ executed[c] # {}) => audit[c] # NoRecord
=============================================================================
