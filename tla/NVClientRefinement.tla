------------------------- MODULE NVClientRefinement -------------------------
(***************************************************************************)
(* NVClient implements AtLeastOnce: whatever the sessions, the retries and *)
(* the network do, the caller of request() sees an operation that is       *)
(* executed at least once if the call succeeds and a bounded number of     *)
(* times in any case.                                                      *)
(***************************************************************************)
EXTENDS NVClientProofs

RefInv == TInv /\ BudgetInv /\ ExecInv /\ OutcomeInv

\* The caller's view of a call, case by case.
LEMMA StatusOf ==
    ASSUME NEW c
    PROVE  /\ pc[c] = "idle" => Status(c) = "idle"
           /\ pc[c] # "idle" /\ outcome[c] = "none" => Status(c) = "running"
           /\ pc[c] # "idle" /\ outcome[c] = "ok" => Status(c) = "ok"
           /\ pc[c] # "idle" /\ outcome[c] \notin {"none", "ok"} => Status(c) = "failed"
BY DEF Status

LEMMA StatusOfPrime ==
    ASSUME NEW c
    PROVE  /\ pc'[c] = "idle" => Status(c)' = "idle"
           /\ pc'[c] # "idle" /\ outcome'[c] = "none" => Status(c)' = "running"
           /\ pc'[c] # "idle" /\ outcome'[c] = "ok" => Status(c)' = "ok"
           /\ pc'[c] # "idle" /\ outcome'[c] \notin {"none", "ok"} => Status(c)' = "failed"
BY DEF Status

LEMMA InvariantRef == Spec => []RefInv
<1>1. RefInv <=> TInv /\ BudgetInv /\ ExecInv /\ OutcomeInv
  BY DEF RefInv
<1> QED
  BY <1>1, InvariantBudget, InvariantExec, InvariantOutcome, PTL

view == [c \in Calls |-> Status(c)]

\* The call at which the caller's view changes is the only one whose program
\* counter or outcome does.
LEMMA ViewChange ==
    ASSUME NEW c \in Calls, NEW s,
           \A d \in Calls : d # c => pc'[d] = pc[d] /\ outcome'[d] = outcome[d],
           Status(c)' = s
    PROVE  view' = [view EXCEPT ![c] = s]
<1>1. \A d \in Calls : d # c => Status(d)' = Status(d)
  BY Zenon DEF Status
<1> QED
  BY <1>1 DEF view

LEMMA ViewSame ==
    ASSUME \A d \in Calls : Status(d)' = Status(d)
    PROVE  view' = view
BY DEF view

LEMMA InitRefines == Init => Promise!Init
<1> SUFFICES ASSUME Init PROVE Promise!Init
  OBVIOUS
<1>1. \A c \in Calls : Status(c) = "idle"
  BY StatusOf DEF Init
<1> QED
  BY <1>1 DEF Init, Promise!Init

LEMMA NextRefines == RefInv /\ [Next]_vars => [Promise!Next]_(Promise!vars)
<1> SUFFICES ASSUME RefInv, [Next]_vars PROVE [Promise!Next]_(Promise!vars)
  OBVIOUS
<1> USE DEF RefInv, TInv, TypeOK, OutcomeInv, processVars, callVars, serverVars
<1>1. ASSUME NEW c \in Calls, Start(c) PROVE Promise!Begin(c)
  <2>1. /\ Status(c) = "idle" /\ Status(c)' = "running"
        /\ \A d \in Calls : d # c => pc'[d] = pc[d] /\ outcome'[d] = outcome[d]
        /\ executed' = executed
    BY <1>1, StatusOf, StatusOfPrime DEF Start
  <2>2. view' = [view EXCEPT ![c] = "running"]
    BY <2>1, ViewChange
  <2> QED BY <2>1, <2>2 DEF Promise!Begin, view
\* The call ends with the outcome r.
<1>2. ASSUME NEW c \in Calls, NEW r \in Outcomes \ {"none"}, Finish(c, r),
             pc[c] \notin {"idle", "done"}, executed' = executed,
             r = "ok" => executed[c] # {}
      PROVE Promise!Succeed(c) \/ Promise!Fail(c)
  <2>1. /\ Status(c) = "running"
        /\ Status(c)' = IF r = "ok" THEN "ok" ELSE "failed"
        /\ \A d \in Calls : d # c => pc'[d] = pc[d] /\ outcome'[d] = outcome[d]
    BY <1>2, StatusOf, StatusOfPrime DEF Finish, Outcomes
  <2>2. view' = [view EXCEPT ![c] = IF r = "ok" THEN "ok" ELSE "failed"]
    BY <2>1, ViewChange
  <2> QED BY <1>2, <2>1, <2>2 DEF Promise!Succeed, Promise!Fail, view
<1>3. ASSUME NEW c \in Calls, RequestOk(c) PROVE Promise!Succeed(c) \/ Promise!Fail(c)
  BY <1>2, <1>3 DEF RequestOk, Answered, ExecInv, SuccessIsEarned, Outcomes
<1>4. ASSUME NEW c \in Calls, NEW r, RetryOrRaise(c, r), r \in ErrorClasses,
             pc[c] = "await", executed' = executed
      PROVE [Promise!Next]_(Promise!vars)
  <2>1. CASE Finish(c, r)
    BY <1>2, <1>4, <2>1 DEF Outcomes, ErrorClasses, Promise!Next
  <2>2. CASE pc' = [pc EXCEPT ![c] = "backoff"] /\ outcome' = outcome
    <3>1. \A d \in Calls : Status(d)' = Status(d)
      BY <1>4, <2>2, StatusOf, StatusOfPrime
    <3> QED BY <1>4, <3>1, ViewSame DEF Promise!vars, view
  <2> QED BY <1>4, <2>1, <2>2 DEF RetryOrRaise
<1>5. ASSUME NEW c \in Calls, RequestTransient(c) \/ RequestLost(c)
      PROVE [Promise!Next]_(Promise!vars)
  BY <1>4, <1>5, ClassifyType
     DEF RequestTransient, RequestLost, Answered, ErrorClasses
<1>6. ASSUME NEW c \in Calls, RequestRefused(c) PROVE Promise!Succeed(c) \/ Promise!Fail(c)
  BY <1>2, <1>6, ClassifyType DEF RequestRefused, Answered, Outcomes, ErrorClasses
<1>7. ASSUME NEW c \in Calls, LoginRefused(c) \/ LoginBroken(c) \/ Cancel(c)
      PROVE Promise!Succeed(c) \/ Promise!Fail(c)
  <2>1. PICK r \in Outcomes \ {"none", "ok"} : Finish(c, r)
    BY <1>7, ClassifyType DEF LoginRefused, LoginBroken, Cancel, Outcomes, ErrorClasses
  <2>2. pc[c] \notin {"idle", "done"} /\ executed' = executed
    BY <1>7 DEF LoginRefused, LoginBroken, Cancel, LoginAnswered
  <2> QED BY <1>2, <2>1, <2>2
\* Steps inside a call are invisible to the caller.
<1>8. ASSUME NEW c \in Calls,
             \/ Send(c) \/ RequestUnauthorized(c) \/ Wake(c) \/ AcquireLock(c) \/ LoginOk(c)
      PROVE UNCHANGED Promise!vars
  <2>1. \A d \in Calls : Status(d)' = Status(d)
    BY <1>8, StatusOf, StatusOfPrime
       DEF Send, RequestUnauthorized, Wake, AcquireLock, LoginOk, Answered, LoginAnswered
  <2>2. executed' = executed
    BY <1>8 DEF Send, RequestUnauthorized, Wake, AcquireLock, LoginOk
  <2> QED BY <2>1, <2>2, ViewSame DEF Promise!vars, view
<1>9. ASSUME pc' = pc, outcome' = outcome PROVE view' = view
  <2>1. \A d \in Calls : Status(d)' = Status(d)
    BY <1>9, Zenon DEF Status
  <2> QED BY <2>1, ViewSame
<1>10. CASE Shutdown
  BY <1>9, <1>10 DEF Shutdown, Promise!vars, view
<1>11. ASSUME NEW m \in net,
              \/ ControllerAccepts(m) \/ ControllerRejects(m)
              \/ ControllerFails(m) \/ GatewayGivesUp(m)
       PROVE [Promise!Next]_(Promise!vars)
  <2>1. m.call \in Calls /\ view' = view
    BY <1>9, <1>11
       DEF Request, ControllerAccepts, ControllerRejects, ControllerFails, GatewayGivesUp
  <2>2. CASE TakesEffect(m)
    <3>1. m.n \in (1..(2 * MaxAttempts)) \ executed[m.call]
      BY <2>1, AttemptsAssumption DEF ExecInv, DeliveriesAreSends, BudgetInv, Request
    <3>2. Status(m.call) # "idle"
      <4>1. pc[m.call] # "idle"
        BY <2>1 DEF ExecInv, DeliveriesAreSends, BudgetInv
      <4>2. outcome[m.call] \in Outcomes
        BY <2>1
      <4> QED BY <4>1, <4>2, StatusOf, Zenon DEF Status
    <3>3. Promise!Execute(m.call)
      BY <2>1, <2>2, <3>1, <3>2 DEF TakesEffect, Promise!Execute, view
    <3> QED BY <2>1, <3>3 DEF Promise!Next
  <2>3. CASE executed' = executed
    BY <2>1, <2>3 DEF Promise!vars, view
  <2> QED
    BY <1>11, <2>2, <2>3
       DEF ControllerAccepts, ControllerRejects, ControllerFails, GatewayGivesUp
<1>12. ASSUME NEW c \in authNet, ControllerGrants(c) \/ ControllerDeniesLogin(c)
       PROVE UNCHANGED Promise!vars
  BY <1>9, <1>12 DEF ControllerGrants, ControllerDeniesLogin, Promise!vars, view
<1>13. ASSUME NEW s \in live, Expire(s) PROVE UNCHANGED Promise!vars
  BY <1>9, <1>13 DEF Expire, Promise!vars, view
<1>14. CASE UNCHANGED vars
  BY <1>9, <1>14 DEF vars, Promise!vars, view
<1> QED
  BY <1>1, <1>3, <1>5, <1>6, <1>7, <1>8, <1>10, <1>11, <1>12, <1>13, <1>14
     DEF Next, ClientStep, ControllerStep, Promise!Next

\* The detailed request path keeps the promise of AtLeastOnce for every number of
\* calls and attempts and every set of error answers.
THEOREM Refinement == Spec => ImplementsAtLeastOnce
BY InitRefines, NextRefines, InvariantRef, PTL DEF Spec, ImplementsAtLeastOnce, Promise!Spec
=============================================================================
