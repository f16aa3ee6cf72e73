---------------------------- MODULE ServiceModes ----------------------------
(***************************************************************************)
(* Enforcement-mode changes: nv_set_service_mode (runtime_ops.py) and      *)
(* nv_set_group_policy_mode (policy_write.py) over modes.py, by any number *)
(* of concurrent tool calls.                                               *)
(*                                                                         *)
(* Both tools read the services one by one, stop if one is unknown or if   *)
(* nothing would change, send one PATCH /v1/service/config, and poll the   *)
(* services until they agree or a budget is spent.  The controller answers *)
(* the PATCH first and applies it later, service by service, or never.     *)
(*                                                                         *)
(* A call is one that passed the confirmation handshake.  The PATCH goes   *)
(* through the request path of client.py, of which only the promise is     *)
(* used here (AtLeastOnce): it may be executed more than once, and after   *)
(* an error was reported.  A GET changes nothing, so a read is one step.   *)
(*                                                                         *)
(* Service names are numbers, in the order sorted() gives them.            *)
(***************************************************************************)
EXTENDS Naturals, FiniteSets

CONSTANTS Calls,           \* the tool calls
          Services,        \* service names
          NamespaceOf,     \* service_namespace(): the suffix of a name, or NoNamespace
          NoNamespace,     \* a name without a suffix
          AllowLists,      \* the values of NV_ALLOWED_NAMESPACES considered
          Fields,          \* SERVICE_CONFIG_FIELDS
          Values,          \* their values
          Requests,        \* the arguments a caller may give
          VerifyAttempts,  \* VERIFY_ATTEMPTS
          MaxSends         \* how often the client may put one PATCH on the wire

Tools == {"nv_set_service_mode", "nv_set_group_policy_mode"}

ASSUME ServicesAssumption == Services \subseteq Nat /\ IsFiniteSet(Services)
ASSUME VerifyAssumption == VerifyAttempts \in Nat \ {0}
ASSUME RequestsAssumption ==
    \A r \in Requests :
       /\ r.tool \in Tools
       /\ r.services \in SUBSET Services \ {{}}
       /\ DOMAIN r.config \subseteq Fields
       /\ \A f \in DOMAIN r.config : r.config[f] \in Values
       /\ r.tool = "nv_set_group_policy_mode" =>
             Cardinality(r.services) = 1 /\ DOMAIN r.config = {"policy_mode"}

VARIABLES
    allowed,   \* settings.allowed_namespaces, frozen
    \* one tool call
    pc,        \* "idle", "before", "patch", "verify" or "done"
    ask,       \* its arguments
    todo,      \* services the current read_service_modes has not read yet
    agreed,    \* services it found as asked
    missing,   \* services it did not find
    tries,     \* reads of the whole batch verify_applied has begun
    outcome,
    \* the PATCH of each call, as the client promises it
    status, executed,
    \* the controller
    config,    \* the modes of every service
    known,     \* the services it lists
    pending,   \* <<call, service>>: accepted and not applied yet
    \* for the properties only
    held       \* services that were as the call asked since its PATCH was acknowledged

callVars == <<pc, ask, todo, agreed, missing, tries, outcome>>
clientVars == <<status, executed>>
controllerVars == <<config, known, pending>>
vars == <<allowed, callVars, clientVars, controllerVars, held>>

Client == INSTANCE AtLeastOnce WITH MaxExecutions <- MaxSends

Outcomes == {"none", "ValidationError_", "GuardError", "NotFoundError", "no change",
             "applied", "drift", "error"}

Rounds == 0..VerifyAttempts
Deliveries == 1..MaxSends

CallTypes ==
    /\ pc \in [Calls -> {"idle", "before", "patch", "verify", "done"}]
    /\ ask \in [Calls -> Requests]
    /\ todo \in [Calls -> SUBSET Services]
    /\ agreed \in [Calls -> SUBSET Services]
    /\ missing \in [Calls -> SUBSET Services]
    /\ tries \in [Calls -> Rounds]
    /\ outcome \in [Calls -> Outcomes]

OtherTypes ==
    /\ allowed \in AllowLists
    /\ status \in [Calls -> {"idle", "running", "ok", "failed"}]
    /\ executed \in [Calls -> SUBSET Deliveries]
    /\ config \in [Services -> [Fields -> Values]]
    /\ known \subseteq Services
    /\ pending \subseteq Calls \X Services
    /\ held \in [Calls -> SUBSET Services]

TypeOK == CallTypes /\ OtherTypes

Init ==
    /\ allowed \in AllowLists
    /\ pc = [c \in Calls |-> "idle"]
    /\ ask \in [Calls -> Requests]
    /\ todo = [c \in Calls |-> {}]
    /\ agreed = [c \in Calls |-> {}]
    /\ missing = [c \in Calls |-> {}]
    /\ tries = [c \in Calls |-> 0]
    /\ outcome = [c \in Calls |-> "none"]
    /\ Client!Init
    /\ config \in [Services -> [Fields -> Values]]
    /\ known = Services
    /\ pending = {}
    /\ held = [c \in Calls |-> {}]
-----------------------------------------------------------------------------
(* What a call asks for.                                                   *)

Batch(c) == ask[c].services
Asked(c) == DOMAIN ask[c].config

\* Mutant: the guard alone, which is handed no namespace for a batch that spans
\* several.
Refused_GuardOnly(r) ==
    /\ allowed # {}
    /\ Cardinality({NamespaceOf[s] : s \in r.services}) = 1
    /\ \E s \in r.services : NamespaceOf[s] \notin allowed \cup {NoNamespace}

\* NV_ALLOWED_NAMESPACES.  nv_set_service_mode skips the names that carry no
\* namespace; nv_set_group_policy_mode takes the last part of the group's name,
\* which is then the service itself and in no list.
Refused(r) ==
    /\ allowed # {}
    /\ \E s \in r.services :
          /\ NamespaceOf[s] \notin allowed
          /\ r.tool = "nv_set_service_mode" => NamespaceOf[s] # NoNamespace

\* Mutant: one field of the request is enough.
Matches_Some(c, modes) == \E f \in Asked(c) : modes[f] = ask[c].config[f]

\* pending_fields() is empty for a service with these modes.
Matches(c, modes) == \A f \in Asked(c) : modes[f] = ask[c].config[f]

\* Mutant: the answers read before the PATCH count for the verification.
StartReading_KeepsOld(c) ==
    /\ todo' = [todo EXCEPT ![c] = Batch(c) \ agreed[c]]
    /\ UNCHANGED <<agreed, missing>>

\* A fresh read_service_modes over the batch.
StartReading(c) ==
    /\ todo' = [todo EXCEPT ![c] = Batch(c)]
    /\ agreed' = [agreed EXCEPT ![c] = {}]
    /\ missing' = [missing EXCEPT ![c] = {}]

Goto(c, label) == pc' = [pc EXCEPT ![c] = label]

\* The call returns or raises; its local variables are gone.
Finish(c, result) ==
    /\ Goto(c, "done")
    /\ outcome' = [outcome EXCEPT ![c] = result]
    /\ todo' = [todo EXCEPT ![c] = {}]
    /\ agreed' = [agreed EXCEPT ![c] = {}]
    /\ missing' = [missing EXCEPT ![c] = {}]
    /\ tries' = [tries EXCEPT ![c] = 0]
-----------------------------------------------------------------------------
(* A tool call, from await to await.                                       *)

\* The arguments are checked and the guard is passed: nothing was awaited yet.
Start(c) ==
    /\ pc[c] = "idle"
    /\ \/ /\ Asked(c) = {}
          /\ Finish(c, "ValidationError_")
       \/ /\ Asked(c) # {}
          /\ Refused(ask[c])
          /\ Finish(c, "GuardError")
       \/ /\ Asked(c) # {}
          /\ ~Refused(ask[c])
          /\ Goto(c, "before")
          /\ StartReading(c)
          /\ UNCHANGED <<tries, outcome>>
    /\ UNCHANGED <<allowed, ask, clientVars, controllerVars, held>>

Reading(c) == pc[c] \in {"before", "verify"} /\ todo[c] # {}
HasRead(c) == todo[c] = {}

\* The batch is read in the order of its names.
IsNext(c, s) == \A t \in todo[c] : s <= t

\* One GET /v1/service of read_service_modes.
Read(c, s) ==
    /\ Reading(c)
    /\ s \in todo[c]
    /\ IsNext(c, s)
    /\ todo' = [todo EXCEPT ![c] = @ \ {s}]
    /\ agreed' = IF s \in known /\ Matches(c, config[s])
                 THEN [agreed EXCEPT ![c] = @ \cup {s}]
                 ELSE agreed
    /\ missing' = IF s \in known
                  THEN missing
                  ELSE [missing EXCEPT ![c] = @ \cup {s}]
    /\ UNCHANGED <<allowed, pc, ask, tries, outcome, clientVars, controllerVars, held>>

\* The client raises out of a GET.
ReadFails(c) ==
    /\ Reading(c)
    /\ Finish(c, "error")
    /\ UNCHANGED <<allowed, ask, clientVars, controllerVars, held>>

\* After the first read: an unknown service, nothing to change, or the PATCH.
Decide(c) ==
    /\ pc[c] = "before"
    /\ HasRead(c)
    /\ \/ /\ missing[c] # {}
          /\ Finish(c, "NotFoundError")
          /\ UNCHANGED status
       \/ /\ missing[c] = {}
          /\ agreed[c] = Batch(c)
          /\ Finish(c, "no change")
          /\ UNCHANGED status
       \/ /\ missing[c] = {}
          /\ agreed[c] # Batch(c)
          /\ Goto(c, "patch")
          /\ Client!Begin(c)
          /\ UNCHANGED <<todo, agreed, missing, tries, outcome>>
    /\ UNCHANGED <<allowed, ask, executed, controllerVars, held>>

Holding(c) == {s \in Batch(c) : Matches(c, config[s])}

\* The PATCH is acknowledged: verify_applied begins its first read.
PatchOk(c) ==
    /\ pc[c] = "patch"
    /\ Client!Succeed(c)
    /\ Goto(c, "verify")
    /\ StartReading(c)
    /\ tries' = [tries EXCEPT ![c] = 1]
    /\ held' = [held EXCEPT ![c] = Holding(c)]
    /\ UNCHANGED <<allowed, ask, outcome, controllerVars>>

PatchFails(c) ==
    /\ pc[c] = "patch"
    /\ Client!Fail(c)
    /\ Finish(c, "error")
    /\ UNCHANGED <<allowed, ask, controllerVars, held>>

\* Mutants: the budget is one round too long; the rounds are not counted.
Exhausted_OneLate(c) == tries[c] > VerifyAttempts
NextTry_Stuck(c) == tries[c]

Exhausted(c) == tries[c] >= VerifyAttempts
NextTry(c) == tries[c] + 1

\* The end of one round of verify_applied: agreement, another round after a
\* sleep, or the drift it found.
Verify(c) ==
    /\ pc[c] = "verify"
    /\ HasRead(c)
    /\ \/ /\ agreed[c] = Batch(c)
          /\ Finish(c, "applied")
       \/ /\ agreed[c] # Batch(c)
          /\ ~Exhausted(c)
          /\ StartReading(c)
          /\ tries' = [tries EXCEPT ![c] = NextTry(c)]
          /\ UNCHANGED <<pc, outcome>>
       \/ /\ agreed[c] # Batch(c)
          /\ Exhausted(c)
          /\ Finish(c, "drift")
    /\ UNCHANGED <<allowed, ask, clientVars, controllerVars, held>>

\* The MCP client cancels the tool call: the exception leaves it at its await.
Cancel(c) ==
    /\ pc[c] \in {"before", "patch", "verify"}
    /\ Finish(c, "error")
    /\ IF pc[c] = "patch" THEN Client!Fail(c) ELSE UNCHANGED clientVars
    /\ UNCHANGED <<allowed, ask, controllerVars, held>>
-----------------------------------------------------------------------------
(* The controller.                                                         *)

\* It accepts one delivery of the PATCH, for the services it knows.
Accept(c) ==
    /\ Client!Execute(c)
    /\ pending' = pending \cup ({c} \X (Batch(c) \cap known))
    /\ UNCHANGED <<allowed, callVars, config, known, held>>

\* Mutant: the request carries every field, those not asked for reset.
Payload_AllFields(c, modes) ==
    [f \in Fields |-> IF f \in Asked(c) THEN ask[c].config[f] ELSE CHOOSE v \in Values : TRUE]

\* The modes after the fields the payload carries are set.
Payload(c, modes) ==
    [f \in Fields |-> IF f \in Asked(c) THEN ask[c].config[f] ELSE modes[f]]

\* It applies an accepted change to one service, some time after the answer.
Apply(c, s) ==
    /\ <<c, s>> \in pending
    /\ pending' = pending \ {<<c, s>>}
    /\ config' = [config EXCEPT ![s] = Payload(c, @)]
    /\ held' = [d \in Calls |->
                   IF s \in Batch(d) /\ Matches(d, Payload(c, config[s]))
                   THEN held[d] \cup {s} ELSE held[d]]
    /\ UNCHANGED <<allowed, callVars, clientVars, known>>

\* It drops one, although it acknowledged it.
Discard(c, s) ==
    /\ <<c, s>> \in pending
    /\ pending' = pending \ {<<c, s>>}
    /\ UNCHANGED <<allowed, callVars, clientVars, config, known, held>>

\* A service goes away with its last workload.
Vanish(s) ==
    /\ s \in known
    /\ known' = known \ {s}
    /\ pending' = {p \in pending : p[2] # s}
    /\ UNCHANGED <<allowed, callVars, clientVars, config, held>>
-----------------------------------------------------------------------------
CallStep(c) ==
    \/ Start(c)
    \/ \E s \in Services : Read(c, s)
    \/ ReadFails(c)
    \/ Decide(c)
    \/ PatchOk(c)
    \/ PatchFails(c)
    \/ Verify(c)

ControllerStep ==
    \/ \E c \in Calls : Accept(c)
    \/ \E c \in Calls, s \in Services : Apply(c, s) \/ Discard(c, s)
    \/ \E s \in Services : Vanish(s)

Next == (\E c \in Calls : CallStep(c) \/ Cancel(c)) \/ ControllerStep

Spec == Init /\ [][Next]_vars

\* The event loop runs every call, and every request of the client ends
\* (NVClient!EveryCallEnds).  Nothing is assumed of the controller.
FairSpec == Spec /\ \A c \in Calls : WF_vars(CallStep(c))
-----------------------------------------------------------------------------
(* Properties.                                                             *)

\* "applied" is evidence, not an acknowledgement: each service of the batch was
\* as asked, in every field, at some moment after the PATCH was acknowledged.
\* (Not all at one moment: the reads are one by one.)
AppliedWasSeen == \A c \in Calls : outcome[c] = "applied" => held[c] = Batch(c)

Contested(c, s, f) ==
    \E d \in Calls \ {c} :
       executed[d] # {} /\ s \in Batch(d) /\ f \in Asked(d) /\ ask[d].config[f] # ask[c].config[f]

\* A success lasts: once a call reported "applied" or "no change", what it asked
\* stays in force unless another call's PATCH asked otherwise for that very field
\* of that very service.  The two dimensions of a service, and two services, never
\* disturb each other, and late duplicates of the call's own PATCH do no harm.
SuccessLasts ==
    \A c \in Calls : outcome[c] \in {"applied", "no change"} =>
       \A s \in Batch(c), f \in Asked(c) :
          Contested(c, s, f) \/ config[s][f] = ask[c].config[f]

\* Under NV_ALLOWED_NAMESPACES no service of another namespace ever changes, even
\* through a batch that spans several namespaces.
AllowListKept ==
    [][allowed # {} =>
          \A s \in Services :
             config'[s] # config[s] => NamespaceOf[s] \in allowed \cup {NoNamespace}]_vars

\* A call spends its reads and ends, whatever the controller does.
EveryCallEnds == \A c \in Calls : <>(pc[c] = "done")

\* The steps a call has left at most.  A round of verification is a read per service and
\* the decision after them.
Round(c) == Cardinality(Batch(c)) + 1
StepsLeft(c) ==
    CASE pc[c] = "idle" -> VerifyAttempts * Round(c) + Round(c) + 2
      [] pc[c] = "before" -> VerifyAttempts * Round(c) + Cardinality(todo[c]) + 2
      [] pc[c] = "patch" -> VerifyAttempts * Round(c) + 1
      [] pc[c] = "verify" ->
            (VerifyAttempts - tries[c]) * Round(c) + Cardinality(todo[c]) + 1
      [] OTHER -> 0

\* No step takes a call back: each one it makes leaves it fewer, so that it reads each
\* service at most VerifyAttempts + 1 times, whatever the controller answers.
CallsRunDown ==
    [][\A c \in Calls :
          <<pc[c], todo[c], tries[c]>>' # <<pc[c], todo[c], tries[c]>> =>
             StepsLeft(c)' < StepsLeft(c)]_vars

\* runtime_ops.py reports drift as a change that "did not take", and test_modes.py
\* holds that "a change that lands late is not a change that failed": a call that
\* reports drift leaves a service that never was as asked.
DriftMeansNotTaken == \A c \in Calls : outcome[c] = "drift" => held[c] # Batch(c)
=============================================================================
