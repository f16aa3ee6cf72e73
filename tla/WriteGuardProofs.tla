-------------------------- MODULE WriteGuardProofs --------------------------
(***************************************************************************)
(* Theorems about WriteGuard for any tool table, any settings and any      *)
(* number of concurrent calls.                                             *)
(***************************************************************************)
EXTENDS WriteGuard, TLAPS

CallTypes ==
    /\ pc \in [Calls -> {"idle", "reading", "sending", "done"}]
    /\ ask \in [Calls -> Invocations]
    /\ confirm \in [Calls -> Confirms]
    /\ outcome \in [Calls -> Outcomes]
    /\ audit \in [Calls -> Records]

OtherTypes ==
    /\ settings \in Configs
    /\ planned \subseteq Invocations
    /\ status \in [Calls -> {"idle", "running", "ok", "failed"}]
    /\ executed \in [Calls -> SUBSET (1..MaxSends)]

LEMMA TypesSplit == TypeOK <=> CallTypes /\ OtherTypes
BY DEF TypeOK, CallTypes, OtherTypes

LEMMA RecordTypes ==
    ASSUME NEW r \in {"none", "ok", "error"}, NEW t
    PROVE  /\ Record(r, t) \in Records
           /\ Record(r, t).result = r
           /\ Record(r, t).confirmed = (t # NoToken)
BY DEF Record, Records

LEMMA NoRecordTypes ==
    NoRecord \in Records /\ NoRecord.result = "none"
BY DEF NoRecord, Records

(***************************************************************************)
(* The actions in a few shapes: a call is answered, waits for its read,    *)
(* begins its request, or the request goes on.                             *)
(***************************************************************************)
Answers(c, kind, result) ==
    /\ pc[c] # "done"
    /\ kind \in Outcomes
    /\ result \in {"ok", "error"}
    /\ Answer(c, kind, result, confirm'[c])
    /\ result = "ok" => kind = "confirmation_required" \/ executed[c] # {}

\* The call got as far as authorise_write, or was turned away before.
Entered(c) ==
    /\ pc[c] \in {"idle", "reading"}
    /\ settings' = settings /\ ask' = ask /\ executed' = executed
    /\ confirm' \in [Calls -> Confirms]
    /\ \A d \in Calls \ {c} : confirm'[d] = confirm[d]
    /\ confirm'[c] \in Known
    /\ \/ /\ \E kind \in Outcomes, result \in {"ok", "error"} : Answers(c, kind, result)
          /\ planned \subseteq planned' /\ planned' \subseteq Invocations
          /\ status' = status
       \/ /\ pc' = [pc EXCEPT ![c] = "reading"]
          /\ UNCHANGED <<planned, outcome, audit, status>>
       \/ /\ Confirmed(ask[c], confirm'[c])
          /\ pc' = [pc EXCEPT ![c] = "sending"]
          /\ Client!Begin(c)
          /\ UNCHANGED <<planned, outcome, audit>>

LEMMA KnownConfirms == TypeOK => Known \subseteq Confirms
BY DEF TypeOK, Known, Confirms, Tokens

LEMMA AuthoriseShape ==
    ASSUME TypeOK, NEW c \in Calls, NEW t \in Known, Authorise(c, t), confirm'[c] = t,
           pc[c] \in {"idle", "reading"}
    PROVE  \/ /\ \E kind \in Outcomes, result \in {"ok", "error"} : Answers(c, kind, result)
              /\ planned \subseteq planned' /\ planned' \subseteq Invocations
              /\ status' = status
           \/ /\ Confirmed(ask[c], confirm'[c])
              /\ pc' = [pc EXCEPT ![c] = "sending"]
              /\ Client!Begin(c)
              /\ UNCHANGED <<planned, outcome, audit>>
<1> USE DEF Answers, Outcomes
<1>0. ask[c] \in Invocations /\ planned \subseteq Invocations
  BY DEF TypeOK
<1>1. CASE Answer(c, "GuardError", "error", t) /\ UNCHANGED <<planned, status>>
  BY <1>0, <1>1
<1>2. CASE /\ Answer(c, "confirmation_required", "ok", t)
           /\ planned' = planned \cup {ask[c]}
           /\ UNCHANGED status
  BY <1>0, <1>2
<1>3. CASE /\ Confirmed(ask[c], t)
           /\ pc' = [pc EXCEPT ![c] = "sending"]
           /\ Client!Begin(c)
           /\ UNCHANGED <<planned, outcome, audit>>
  BY <1>3
<1> QED BY <1>1, <1>2, <1>3 DEF Authorise

LEMMA StartShape ==
    ASSUME TypeOK, NEW c \in Calls, NEW t \in Known, Start(c, t)
    PROVE  Entered(c)
<1>1. /\ pc[c] = "idle"
      /\ confirm' = [confirm EXCEPT ![c] = t]
      /\ settings' = settings /\ ask' = ask /\ executed' = executed
  BY DEF Start
<1>2. /\ confirm' \in [Calls -> Confirms] /\ confirm'[c] = t
      /\ \A d \in Calls \ {c} : confirm'[d] = confirm[d]
  BY <1>1, KnownConfirms DEF TypeOK
<1> USE <1>1, <1>2
<1>3. CASE Authorise(c, t)
  BY <1>3, AuthoriseShape DEF Entered
<1>4. CASE /\ pc' = [pc EXCEPT ![c] = "reading"]
           /\ UNCHANGED <<planned, outcome, audit, status>>
  BY <1>4 DEF Entered
<1>5. ASSUME NEW kind \in {"NotFoundError", "ValidationError_"},
             Answer(c, kind, "error", t), UNCHANGED <<planned, status>>
      PROVE  Entered(c)
  <2>1. planned' = planned /\ planned \subseteq Invocations
    BY <1>5 DEF TypeOK
  <2>2. Answers(c, kind, "error") /\ kind \in Outcomes
    BY <1>5 DEF Answers, Outcomes
  <2> QED BY <1>5, <2>1, <2>2 DEF Entered
<1> QED BY <1>3, <1>4, <1>5 DEF Start

LEMMA HasReadShape ==
    ASSUME TypeOK, NEW c \in Calls, confirm[c] \in Known, HasRead(c)
    PROVE  Entered(c)
<1>1. /\ pc[c] = "reading" /\ Authorise(c, confirm[c])
      /\ settings' = settings /\ ask' = ask /\ executed' = executed /\ confirm' = confirm
  BY DEF HasRead
<1>2. confirm' \in [Calls -> Confirms]
  BY <1>1 DEF TypeOK
<1> QED BY <1>1, <1>2, AuthoriseShape DEF Entered

(***************************************************************************)
(* The invariant.  Handshake: the token a call came with is one the caller *)
(* could know when it called, and stays so, for plans are never forgotten; *)
(* a request is begun only past Confirmed.  AuditWritten: the record, once *)
(* written, speaks of the outcome and the confirm argument of its call.    *)
(***************************************************************************)
Handshake ==
    \A c \in Calls :
       /\ pc[c] # "idle" => confirm[c] \in Known
       /\ pc[c] \in {"idle", "reading"} => status[c] = "idle"
       /\ status[c] = "idle" => executed[c] = {}
       /\ status[c] # "idle" => Confirmed(ask[c], confirm[c])

AuditWritten ==
    \A c \in Calls :
       /\ audit[c] # NoRecord =>
             pc[c] = "done" /\ audit[c].confirmed = (confirm[c] # NoToken)
       /\ audit[c].result = "ok" =>
             outcome[c] = "confirmation_required" \/ executed[c] # {}

IInv == TypeOK /\ Handshake /\ AuditWritten

LEMMA InitIInv == Init => IInv
<1> SUFFICES ASSUME Init PROVE IInv
  OBVIOUS
<1>1. TypeOK
  BY NoRecordTypes DEF Init, TypeOK, Client!Init, Outcomes, Confirms
<1>2. Handshake
  BY DEF Init, Handshake, Client!Init
<1>3. AuditWritten
  BY NoRecordTypes DEF Init, AuditWritten
<1> QED BY <1>1, <1>2, <1>3 DEF IInv

LEMMA EnteredKeeps ==
    ASSUME IInv, NEW c \in Calls, Entered(c)
    PROVE  IInv'
<1>0. TypeOK /\ Handshake /\ AuditWritten /\ CallTypes /\ OtherTypes
  BY TypesSplit DEF IInv
<1>1. /\ pc[c] \in {"idle", "reading"}
      /\ settings' = settings /\ ask' = ask /\ executed' = executed
      /\ confirm' \in [Calls -> Confirms]
      /\ \A d \in Calls \ {c} : confirm'[d] = confirm[d]
      /\ confirm'[c] \in Known
  BY DEF Entered
<1>2. status[c] = "idle" /\ executed[c] = {}
  BY <1>0, <1>1 DEF Handshake
<1>3. ASSUME NEW kind \in Outcomes, NEW result \in {"ok", "error"},
             Answers(c, kind, result),
             planned \subseteq planned', planned' \subseteq Invocations, status' = status
      PROVE  IInv'
  <2>1. /\ pc' = [pc EXCEPT ![c] = "done"]
        /\ outcome' = [outcome EXCEPT ![c] = kind]
        /\ audit' = [audit EXCEPT ![c] = Record(result, confirm'[c])]
        /\ result = "ok" => kind = "confirmation_required" \/ executed[c] # {}
    BY <1>3 DEF Answers, Answer
  <2>2. /\ Record(result, confirm'[c]) \in Records
        /\ Record(result, confirm'[c]).result = result
        /\ Record(result, confirm'[c]).confirmed = (confirm'[c] # NoToken)
    BY RecordTypes
  <2>3. CallTypes'
    BY <1>0, <1>1, <2>1, <2>2 DEF CallTypes
  <2>4. OtherTypes'
    BY <1>0, <1>1, <1>3 DEF OtherTypes
  <2>5. Known \subseteq Known'
    BY <1>3 DEF Known, confirm_token
  <2>6. Handshake'
    BY <1>0, <1>1, <1>2, <1>3, <2>1, <2>5 DEF Handshake, CallTypes, Confirmed, confirm_token
  <2>7. AuditWritten'
    BY <1>0, <1>1, <2>1, <2>2 DEF AuditWritten, CallTypes
  <2> QED BY <2>3, <2>4, <2>6, <2>7, TypesSplit DEF IInv, TypeOK, CallTypes, OtherTypes
<1>4. CASE /\ pc' = [pc EXCEPT ![c] = "reading"]
           /\ UNCHANGED <<planned, outcome, audit, status>>
  <2>1. CallTypes' /\ OtherTypes'
    BY <1>0, <1>1, <1>4 DEF CallTypes, OtherTypes
  <2>2. Known' = Known
    BY <1>4 DEF Known, confirm_token
  <2>3. Handshake'
    BY <1>0, <1>1, <1>2, <1>4, <2>2 DEF Handshake, CallTypes, Confirmed, confirm_token
  <2>4. AuditWritten'
    BY <1>0, <1>1, <1>4 DEF AuditWritten, CallTypes
  <2> QED BY <2>1, <2>3, <2>4 DEF IInv, TypeOK, CallTypes, OtherTypes
<1>5. CASE /\ Confirmed(ask[c], confirm'[c])
           /\ pc' = [pc EXCEPT ![c] = "sending"]
           /\ Client!Begin(c)
           /\ UNCHANGED <<planned, outcome, audit>>
  <2>0. status' = [status EXCEPT ![c] = "running"]
    BY <1>5 DEF Client!Begin
  <2>1. CallTypes' /\ OtherTypes'
    BY <1>0, <1>1, <1>5, <2>0 DEF CallTypes, OtherTypes
  <2>2. Known' = Known
    BY <1>5 DEF Known, confirm_token
  <2>3. Handshake'
    BY <1>0, <1>1, <1>2, <1>5, <2>0, <2>2
       DEF Handshake, CallTypes, OtherTypes, Confirmed, confirm_token
  <2>4. AuditWritten'
    BY <1>0, <1>1, <1>5 DEF AuditWritten, CallTypes
  <2> QED BY <2>1, <2>3, <2>4 DEF IInv, TypeOK, CallTypes, OtherTypes
<1> QED BY <1>3, <1>4, <1>5 DEF Entered

\* The call is over: recorded with an answer, or cancelled without.
LEMMA EndKeeps ==
    ASSUME IInv, NEW c \in Calls, pc[c] \in {"reading", "sending"},
           NEW kind \in Outcomes, NEW s \in {"idle", "running", "ok", "failed"},
           UNCHANGED <<settings, planned, ask, confirm, executed>>,
           status' = [status EXCEPT ![c] = s],
           pc' = [pc EXCEPT ![c] = "done"],
           outcome' = [outcome EXCEPT ![c] = kind],
           s # status[c] => pc[c] = "sending" /\ s # "idle" /\ status[c] = "running",
           \/ audit' = audit
           \/ \E r \in {"ok", "error"} :
                 /\ audit' = [audit EXCEPT ![c] = Record(r, confirm[c])]
                 /\ r = "ok" => executed[c] # {}
    PROVE  IInv'
<1>0. TypeOK /\ Handshake /\ AuditWritten /\ CallTypes /\ OtherTypes
  BY TypesSplit DEF IInv
<1>1. Known' = Known
  BY DEF Known, confirm_token
<1>2. Handshake'
  BY <1>0, <1>1 DEF Handshake, CallTypes, OtherTypes, Confirmed, confirm_token
<1>3. OtherTypes'
  BY <1>0 DEF OtherTypes
<1>4. CASE audit' = audit
  <2>1. CallTypes'
    BY <1>0, <1>4 DEF CallTypes
  <2>2. audit[c] = NoRecord /\ audit[c].result = "none"
    BY <1>0, NoRecordTypes DEF AuditWritten
  <2>3. AuditWritten'
    BY <1>0, <1>4, <2>2 DEF AuditWritten, CallTypes
  <2> QED BY <1>2, <1>3, <2>1, <2>3 DEF IInv, TypeOK, CallTypes, OtherTypes
<1>5. ASSUME NEW r \in {"ok", "error"}, audit' = [audit EXCEPT ![c] = Record(r, confirm[c])],
             r = "ok" => executed[c] # {}
      PROVE  IInv'
  <2>1. /\ Record(r, confirm[c]) \in Records /\ Record(r, confirm[c]).result = r
        /\ Record(r, confirm[c]).confirmed = (confirm[c] # NoToken)
    BY RecordTypes
  <2>2. CallTypes'
    BY <1>0, <1>5, <2>1 DEF CallTypes
  <2>3. AuditWritten'
    BY <1>0, <1>5, <2>1 DEF AuditWritten, CallTypes
  <2> QED BY <1>2, <1>3, <2>2, <2>3 DEF IInv, TypeOK, CallTypes, OtherTypes
<1> QED BY <1>4, <1>5

LEMMA ExecuteKeeps ==
    ASSUME IInv, NEW c \in Calls, Execute(c)
    PROVE  IInv'
<1>0. TypeOK /\ Handshake /\ AuditWritten /\ CallTypes /\ OtherTypes
  BY TypesSplit DEF IInv
<1>1. /\ UNCHANGED <<settings, planned, pc, ask, confirm, outcome, audit, status>>
      /\ status[c] # "idle"
  BY DEF Execute, Client!Execute, callVars
<1>2. PICK n \in 1..MaxSends : executed' = [executed EXCEPT ![c] = @ \cup {n}]
  BY DEF Execute, Client!Execute
<1>3. CallTypes'
  BY <1>0, <1>1 DEF CallTypes
<1>4. OtherTypes'
  BY <1>0, <1>1, <1>2 DEF OtherTypes
<1>5. Known' = Known
  BY <1>1 DEF Known, confirm_token
<1>6. Handshake'
  BY <1>0, <1>1, <1>2, <1>5 DEF Handshake, OtherTypes, Confirmed, confirm_token
<1>7. \A d \in Calls : executed[d] # {} => executed'[d] # {}
  BY <1>0, <1>2 DEF OtherTypes
<1>8. AuditWritten'
  BY <1>0, <1>1, <1>7 DEF AuditWritten
<1> QED BY <1>3, <1>4, <1>6, <1>8 DEF IInv, TypeOK, CallTypes, OtherTypes

LEMMA NextIInv == IInv /\ [Next]_vars => IInv'
<1> SUFFICES ASSUME IInv, [Next]_vars PROVE IInv'
  OBVIOUS
<1>0. TypeOK /\ Handshake /\ OtherTypes
  BY TypesSplit DEF IInv
<1>1. ASSUME NEW c \in Calls, NEW t \in Known, Start(c, t) PROVE IInv'
  BY <1>0, <1>1, StartShape, EnteredKeeps
<1>2. ASSUME NEW c \in Calls, HasRead(c) PROVE IInv'
  <2>1. confirm[c] \in Known
    BY <1>0, <1>2 DEF HasRead, Handshake
  <2> QED BY <1>0, <1>2, <2>1, HasReadShape, EnteredKeeps
<1>3. ASSUME NEW c \in Calls, ReadBreaks(c) PROVE IInv'
  <2>1. /\ UNCHANGED <<settings, planned, ask, confirm, executed>> /\ pc[c] = "reading"
        /\ status' = [status EXCEPT ![c] = status[c]]
        /\ pc' = [pc EXCEPT ![c] = "done"] /\ outcome' = [outcome EXCEPT ![c] = "error"]
        /\ audit' = [audit EXCEPT ![c] = Record("error", confirm[c])]
    BY <1>0, <1>3 DEF ReadBreaks, Answer, clientVars, OtherTypes
  <2>2. "error" \in Outcomes /\ status[c] \in {"idle", "running", "ok", "failed"}
    BY <1>0 DEF Outcomes, OtherTypes
  <2> QED BY <2>1, <2>2, EndKeeps
<1>4. ASSUME NEW c \in Calls, Applied(c) PROVE IInv'
  <2>1. /\ UNCHANGED <<settings, planned, ask, confirm, executed>> /\ pc[c] = "sending"
        /\ status[c] = "running" /\ status' = [status EXCEPT ![c] = "ok"]
        /\ pc' = [pc EXCEPT ![c] = "done"] /\ outcome' = [outcome EXCEPT ![c] = "applied"]
        /\ audit' = [audit EXCEPT ![c] = Record("ok", confirm[c])] /\ executed[c] # {}
    BY <1>4 DEF Applied, Answer, Client!Succeed
  <2>2. "applied" \in Outcomes
    BY DEF Outcomes
  <2> QED BY <2>1, <2>2, EndKeeps
<1>5. ASSUME NEW c \in Calls, RequestFails(c) PROVE IInv'
  <2>1. /\ UNCHANGED <<settings, planned, ask, confirm, executed>> /\ pc[c] = "sending"
        /\ status[c] = "running" /\ status' = [status EXCEPT ![c] = "failed"]
        /\ pc' = [pc EXCEPT ![c] = "done"] /\ outcome' = [outcome EXCEPT ![c] = "error"]
        /\ audit' = [audit EXCEPT ![c] = Record("error", confirm[c])]
    BY <1>5 DEF RequestFails, Answer, Client!Fail
  <2>2. "error" \in Outcomes
    BY DEF Outcomes
  <2> QED BY <2>1, <2>2, EndKeeps
<1>6. ASSUME NEW c \in Calls, Cancel(c) PROVE IInv'
  <2>1. /\ UNCHANGED <<settings, planned, ask, confirm, audit>>
        /\ pc[c] \in {"reading", "sending"}
        /\ pc' = [pc EXCEPT ![c] = "done"] /\ outcome' = [outcome EXCEPT ![c] = "cancelled"]
    BY <1>6 DEF Cancel
  <2>2. "cancelled" \in Outcomes /\ status[c] \in {"idle", "running", "ok", "failed"}
    BY <1>0 DEF Outcomes, OtherTypes
  <2>3. CASE pc[c] = "sending"
    <3>1. /\ status[c] = "running" /\ status' = [status EXCEPT ![c] = "failed"]
          /\ UNCHANGED executed
      BY <1>6, <2>3 DEF Cancel, Client!Fail
    <3> QED BY <2>1, <2>2, <2>3, <3>1, EndKeeps
  <2>4. CASE pc[c] = "reading"
    <3>1. status' = [status EXCEPT ![c] = status[c]] /\ UNCHANGED executed
      BY <1>0, <1>6, <2>4 DEF Cancel, clientVars, OtherTypes
    <3> QED BY <2>1, <2>2, <2>4, <3>1, EndKeeps
  <2> QED BY <2>1, <2>3, <2>4
<1>7. ASSUME NEW c \in Calls, Execute(c) PROVE IInv'
  BY <1>7, ExecuteKeeps
<1>8. CASE UNCHANGED vars
  BY <1>8 DEF vars, callVars, clientVars, IInv, TypeOK, Handshake, AuditWritten, Known,
             Confirmed, confirm_token
<1> QED
  BY <1>1, <1>2, <1>3, <1>4, <1>5, <1>6, <1>7, <1>8 DEF Next, CallStep

LEMMA AlwaysIInv == Spec => []IInv
BY InitIInv, NextIInv, PTL DEF Spec

(***************************************************************************)
(* The theorems.                                                           *)
(***************************************************************************)
\* Every variable keeps its type, whatever the tools and the settings.
THEOREM TypeCorrect == Spec => []TypeOK
<1>1. IInv => TypeOK
  BY DEF IInv
<1> QED BY <1>1, AlwaysIInv, PTL

\* The handshake holds for every tool table whose tokens bind its requests: then no
\* request is executed that was not shown in a plan before.  The binding is what a
\* tool must see to when it builds its target and payload; the runs check it on the
\* real tools.
THEOREM PlannedFirst ==
    ASSUME TokenBindsRequest
    PROVE  Spec => []EveryWriteWasPlanned
<1>1. IInv => EveryWriteWasPlanned
  <2> SUFFICES ASSUME IInv, settings.require_confirm_token, NEW c \in Calls,
                      executed[c] # {}
               PROVE  \E i \in planned : Approved(i) = Approved(ask[c])
    BY DEF EveryWriteWasPlanned
  <2>1. ask[c] \in Invocations /\ planned \subseteq Invocations
        /\ pc[c] \in {"idle", "reading", "sending", "done"}
    BY DEF IInv, TypeOK
  <2>2. confirm[c] = confirm_token(ask[c]) /\ confirm[c] \in Known
    BY <2>1 DEF IInv, Handshake, Confirmed
  <2>3. confirm_token(ask[c]) \in Tokens
    BY <2>1 DEF Tokens
  <2>4. PICK i \in planned : confirm_token(i) = confirm_token(ask[c])
    BY <2>2, <2>3, TokensAssumption DEF Known
  <2>5. Approved(i) = Approved(ask[c])
    BY <2>1, <2>4 DEF TokenBindsRequest
  <2> QED BY <2>5
<1> QED BY <1>1, AlwaysIInv, PTL

\* The audit trail never reports success for a write that was not executed, nor an
\* unconfirmed write while tokens are required, in any interleaving of calls,
\* cancellations and late executions.
THEOREM AuditTrue == Spec => []AuditTellsTheTruth
<1>1. IInv => AuditTellsTheTruth
  <2> SUFFICES ASSUME IInv, NEW c \in Calls
               PROVE  /\ audit[c].result = "ok" =>
                            outcome[c] = "confirmation_required" \/ executed[c] # {}
                      /\ (executed[c] # {} /\ audit[c] # NoRecord
                            /\ settings.require_confirm_token) => audit[c].confirmed
    BY DEF AuditTellsTheTruth
  <2>1. audit[c].result = "ok" =>
           outcome[c] = "confirmation_required" \/ executed[c] # {}
    BY DEF IInv, AuditWritten
  <2>2. ASSUME executed[c] # {}, audit[c] # NoRecord, settings.require_confirm_token
        PROVE  audit[c].confirmed
    <3>1. ask[c] \in Invocations
      BY DEF IInv, TypeOK
    <3>2. confirm[c] = confirm_token(ask[c])
      BY <2>2 DEF IInv, Handshake, Confirmed
    <3>3. confirm[c] # NoToken
      BY <3>1, <3>2, TokensAssumption DEF Tokens
    <3> QED BY <2>2, <3>3 DEF IInv, AuditWritten
  <2> QED BY <2>1, <2>2
<1> QED BY <1>1, AlwaysIInv, PTL
=============================================================================
