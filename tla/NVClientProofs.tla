--------------------------- MODULE NVClientProofs ---------------------------
(***************************************************************************)
(* Theorems about NVClient for any number of concurrent calls, any number  *)
(* of attempts and any set of error answers.                               *)
(***************************************************************************)
EXTENDS NVClient, FiniteSetTheorems, TLAPS

\* An answer is classified into one of the exception classes of errors.py.
LEMMA ClassifyType == ASSUME NEW r PROVE Classify(r) \in ErrorClasses
<1>1. \A code : ClassOfCode(code) \in ErrorClasses
  BY Zenon DEF ClassOfCode, ErrorClasses
<1>2. \A status : ClassOfStatus(status) \in ErrorClasses
  BY Zenon DEF ClassOfStatus, ErrorClasses
<1> QED
  BY <1>1, <1>2, Zenon DEF Classify

LEMMA AnswerTypes == Ok \in Answer /\ Unauthorized \in Answer /\ NoReply \in Answer
                     /\ ErrorReplies \subseteq Answer
BY RepliesAssumption DEF Ok, Unauthorized, NoReply, Answer, NoCode

(***************************************************************************)
(* Type correctness.                                                       *)
(***************************************************************************)
LEMMA InitType == Init => TypeOK
BY AttemptsAssumption, AnswerTypes
   DEF Init, TypeOK, PcValues, Outcomes, None, FirstCredential

\* The client's steps keep the types: attempt stays within its budget because a
\* call sleeps, and so comes back to send again, only below MaxAttempts.
AttemptBelow == \A c \in Calls : pc[c] \in {"idle", "ready", "backoff"} => attempt[c] < MaxAttempts

TInv == TypeOK /\ AttemptBelow

LEMMA InitTInv == Init => TInv
BY InitType, AttemptsAssumption DEF Init, TInv, AttemptBelow

LEMMA NextTInv == TInv /\ [Next]_vars => TInv'
<1> SUFFICES ASSUME TInv, [Next]_vars PROVE TInv'
  OBVIOUS
<1> USE AnswerTypes, AttemptsAssumption
    DEF TInv, TypeOK, AttemptBelow, PcValues, Outcomes, processVars, callVars, serverVars,
        Finish, ClearReply, None
<1>1. ASSUME NEW c \in Calls, Start(c) PROVE TInv'
  BY <1>1 DEF Start, AuthHeaders, FirstCredential
<1>2. ASSUME NEW c \in Calls, Send(c) PROVE TInv'
  <2>1. [call |-> c, n |-> sends[c] + 1, cred |-> hdr[c]] \in Request
    BY DEF Request
  <2>2. attempt[c] + 1 \in 0..MaxAttempts
    BY <1>2 DEF Send
  <2> QED BY <1>2, <2>1, <2>2 DEF Send
<1>3. ASSUME NEW c \in Calls, RequestOk(c) PROVE TInv'
  BY <1>3 DEF RequestOk
<1>4. ASSUME NEW c \in Calls, RequestUnauthorized(c) PROVE TInv'
  BY <1>4 DEF RequestUnauthorized
<1>5. ASSUME NEW c \in Calls, RequestRefused(c) PROVE TInv'
  BY <1>5, ClassifyType DEF RequestRefused
<1>6. ASSUME NEW c \in Calls, RequestTransient(c) PROVE TInv'
  BY <1>6, ClassifyType DEF RequestTransient, RetryOrRaise
<1>7. ASSUME NEW c \in Calls, RequestLost(c) PROVE TInv'
  BY <1>7 DEF RequestLost, RetryOrRaise, ErrorClasses
<1>8. ASSUME NEW c \in Calls, Wake(c) PROVE TInv'
  BY <1>8 DEF Wake
<1>9. ASSUME NEW c \in Calls, AcquireLock(c) PROVE TInv'
  BY <1>9 DEF AcquireLock
<1>10. ASSUME NEW c \in Calls, LoginOk(c) PROVE TInv'
  BY <1>10 DEF LoginOk, Release, AuthHeaders, FirstCredential
<1>11. ASSUME NEW c \in Calls, LoginRefused(c) PROVE TInv'
  BY <1>11, ClassifyType DEF LoginRefused, Release, ErrorClasses
<1>12. ASSUME NEW c \in Calls, LoginBroken(c) PROVE TInv'
  BY <1>12 DEF LoginBroken, Release
<1>13. ASSUME NEW c \in Calls, Cancel(c) PROVE TInv'
  BY <1>13 DEF Cancel, ReleaseIfHeld
<1>14. CASE Shutdown
  BY <1>14 DEF Shutdown
<1>15. ASSUME NEW m \in net, ControllerAccepts(m) PROVE TInv'
  <2>1. m.call \in Calls /\ m.n \in Nat
    BY DEF Request
  <2> QED BY <1>15, <2>1 DEF ControllerAccepts, Handled, TakesEffect, Deliver
<1>16. ASSUME NEW m \in net, ControllerRejects(m) PROVE TInv'
  BY <1>16 DEF ControllerRejects, Handled, Deliver, Request
<1>17. ASSUME NEW m \in net, GatewayGivesUp(m) PROVE TInv'
  BY <1>17 DEF GatewayGivesUp, Deliver, Request
<1>18. ASSUME NEW m \in net, ControllerFails(m) PROVE TInv'
  <2>1. m.call \in Calls /\ m.n \in Nat
    BY DEF Request
  <2> QED BY <1>18, <2>1 DEF ControllerFails, Handled, TakesEffect, Deliver
<1>19. ASSUME NEW c \in authNet, ControllerGrants(c) PROVE TInv'
  BY <1>19 DEF ControllerGrants, DeliverAuth
<1>20. ASSUME NEW c \in authNet, ControllerDeniesLogin(c) PROVE TInv'
  BY <1>20 DEF ControllerDeniesLogin, DeliverAuth
<1>21. ASSUME NEW s \in live, Expire(s) PROVE TInv'
  BY <1>21 DEF Expire
<1>22. CASE UNCHANGED vars
  BY <1>22 DEF vars
<1> QED
  BY <1>1, <1>2, <1>3, <1>4, <1>5, <1>6, <1>7, <1>8, <1>9, <1>10, <1>11, <1>12, <1>13,
     <1>14, <1>15, <1>16, <1>17, <1>18, <1>19, <1>20, <1>21, <1>22
     DEF Next, ClientStep, ControllerStep

\* Every reachable state of the request path is well typed; in particular no call
\* ever counts more attempts than its loop allows.
THEOREM TypeCorrect == Spec => []TypeOK
<1>1. TInv => TypeOK
  BY DEF TInv
<1> QED
  BY InitTInv, NextTInv, <1>1, PTL DEF Spec

(***************************************************************************)
(* The login lock.                                                         *)
(***************************************************************************)
LEMMA NextLock == TypeOK /\ LoginHoldsLock /\ [Next]_vars => LoginHoldsLock'
<1> SUFFICES ASSUME TypeOK, LoginHoldsLock, [Next]_vars PROVE LoginHoldsLock'
  OBVIOUS
<1> USE CallsAssumption
    DEF TypeOK, LoginHoldsLock, processVars, callVars, Finish
\* Outside the lock's own section neither the lock nor who is in it changes.
<1>1. ASSUME NEW c \in Calls,
             \/ Start(c) \/ Send(c) \/ RequestOk(c) \/ RequestUnauthorized(c)
             \/ RequestRefused(c) \/ Wake(c)
      PROVE LoginHoldsLock'
  BY <1>1 DEF Start, Send, RequestOk, RequestUnauthorized, RequestRefused, Wake, Answered
<1>2. ASSUME NEW c \in Calls, RequestTransient(c) \/ RequestLost(c)
      PROVE LoginHoldsLock'
  BY <1>2 DEF RequestTransient, RequestLost, RetryOrRaise, Answered
<1>3. ASSUME NEW c \in Calls, AcquireLock(c) PROVE LoginHoldsLock'
  BY <1>3 DEF AcquireLock, LockFree
<1>4. ASSUME NEW c \in Calls, LoginOk(c) \/ LoginRefused(c) \/ LoginBroken(c)
      PROVE LoginHoldsLock'
  BY <1>4 DEF LoginOk, LoginRefused, LoginBroken, LoginAnswered, Release
<1>5. ASSUME NEW c \in Calls, Cancel(c) PROVE LoginHoldsLock'
  BY <1>5 DEF Cancel, ReleaseIfHeld
<1>6. CASE Shutdown
  BY <1>6 DEF Shutdown
<1>7. CASE ControllerStep
  BY <1>7 DEF ControllerStep, ControllerAccepts, ControllerRejects, ControllerFails,
              GatewayGivesUp, ControllerGrants, ControllerDeniesLogin, Expire
<1>8. CASE UNCHANGED vars
  BY <1>8 DEF vars
<1> QED
  BY <1>1, <1>2, <1>3, <1>4, <1>5, <1>6, <1>7, <1>8 DEF Next, ClientStep

\* Any number of concurrent calls: no two log in at once, and every way out of a
\* login, a cancellation included, gives the lock back.
THEOREM LockSafe == Spec => []LoginHoldsLock
<1>1. Init => LoginHoldsLock
  BY CallsAssumption DEF Init, LoginHoldsLock
<1> QED
  BY <1>1, NextLock, TypeCorrect, PTL DEF Spec

(***************************************************************************)
(* The send budget.  A call that has not re-logged in has sent exactly     *)
(* once for each attempt of its only loop; one that has re-logged in used  *)
(* at most a whole loop before.                                            *)
(***************************************************************************)
BudgetInv ==
    \A c \in Calls :
       /\ pc[c] = "idle" => sends[c] = 0 /\ attempt[c] = 0
       /\ pc[c] \in {"idle", "lockwait", "login"} => ~relogin[c]
       /\ ~relogin[c] => sends[c] = attempt[c]
       /\ relogin[c] => sends[c] <= MaxAttempts + attempt[c]
       /\ attempt[c] <= sends[c]

LEMMA NextBudget == TInv /\ BudgetInv /\ [Next]_vars => BudgetInv'
<1> SUFFICES ASSUME TInv, BudgetInv, [Next]_vars PROVE BudgetInv'
  OBVIOUS
<1> USE AttemptsAssumption
    DEF TInv, TypeOK, BudgetInv, processVars, callVars, Finish
<1>1. ASSUME NEW c \in Calls,
             \/ Start(c) \/ RequestOk(c) \/ RequestRefused(c) \/ Wake(c) \/ AcquireLock(c)
             \/ LoginRefused(c) \/ LoginBroken(c) \/ Cancel(c)
      PROVE BudgetInv'
  BY <1>1 DEF Start, RequestOk, RequestRefused, Wake, AcquireLock, LoginRefused,
              LoginBroken, Cancel
<1>2. ASSUME NEW c \in Calls, Send(c) PROVE BudgetInv'
  BY <1>2 DEF Send
<1>3. ASSUME NEW c \in Calls, RequestUnauthorized(c) PROVE BudgetInv'
  BY <1>3 DEF RequestUnauthorized, MayRelogin
<1>4. ASSUME NEW c \in Calls, RequestTransient(c) \/ RequestLost(c) PROVE BudgetInv'
  BY <1>4 DEF RequestTransient, RequestLost, RetryOrRaise
<1>5. ASSUME NEW c \in Calls, LoginOk(c) PROVE BudgetInv'
  BY <1>5 DEF LoginOk, LoginAnswered
<1>6. CASE Shutdown
  BY <1>6 DEF Shutdown
<1>7. CASE ControllerStep
  BY <1>7 DEF ControllerStep, ControllerAccepts, ControllerRejects, ControllerFails,
              GatewayGivesUp, ControllerGrants, ControllerDeniesLogin, Expire
<1>8. CASE UNCHANGED vars
  BY <1>8 DEF vars
<1> QED
  BY <1>1, <1>2, <1>3, <1>4, <1>5, <1>6, <1>7, <1>8 DEF Next, ClientStep

LEMMA InvariantBudget == Spec => [](TInv /\ BudgetInv)
<1>1. Init => BudgetInv
  BY DEF Init, BudgetInv
<1> QED
  BY <1>1, InitTInv, NextTInv, NextBudget, PTL DEF Spec

\* Whatever the answers, the losses and the sessions do, a call never sends more
\* than its two loops of MaxAttempts allow.
THEOREM BudgetKept == Spec => []SendBudget
<1>1. TInv /\ BudgetInv => SendBudget
  BY AttemptsAssumption DEF TInv, TypeOK, BudgetInv, SendBudget
<1> QED
  BY <1>1, InvariantBudget, PTL

(***************************************************************************)
(* What an answer says of the operation.  Every delivery is one of the     *)
(* sends of its call and is handled once; a success is on its way to a     *)
(* call only after one of its deliveries took effect.                      *)
(***************************************************************************)
DeliveriesAreSends ==
    /\ \A c \in Calls : executed[c] \subseteq 1..sends[c]
    /\ \A m \in net : m.n \in 1..sends[m.call] /\ m.n \notin executed[m.call]
    /\ \A m1, m2 \in net : m1.call = m2.call /\ m1.n = m2.n => m1 = m2

SuccessIsEarned ==
    \A c \in Calls :
       /\ pc[c] \notin {"await", "login"} => reply[c] = NoReply
       /\ pc[c] = "await" /\ IsSuccess(reply[c]) => executed[c] # {}
       /\ outcome[c] = "ok" => executed[c] # {}

ExecInv == DeliveriesAreSends /\ SuccessIsEarned

\* No error answer, and no missing one, passes for a success.
LEMMA Failures ==
    /\ ~IsSuccess(NoReply)
    /\ ~IsSuccess(Unauthorized)
    /\ \A r \in ErrorReplies : ~IsSuccess(r)
    /\ Ok # NoReply
BY RepliesAssumption DEF IsSuccess, NoReply, Unauthorized, Ok, NoCode

LEMMA NextDeliveries == TInv /\ DeliveriesAreSends /\ [Next]_vars => DeliveriesAreSends'
<1> SUFFICES ASSUME TInv, DeliveriesAreSends, [Next]_vars PROVE DeliveriesAreSends'
  OBVIOUS
<1> USE DEF TInv, TypeOK, DeliveriesAreSends, processVars, callVars, serverVars
<1>1. ASSUME NEW c \in Calls, Send(c) PROVE DeliveriesAreSends'
  <2> DEFINE fresh == [call |-> c, n |-> sends[c] + 1, cred |-> hdr[c]]
  <2>1. /\ sends' = [sends EXCEPT ![c] = @ + 1]
        /\ net' = net \cup {fresh}
        /\ executed' = executed
    BY <1>1 DEF Send
  <2>2. \A m \in net : m.call \in Calls /\ m.n \in Nat
    BY DEF Request
  <2>3. \A d \in Calls : executed'[d] \subseteq 1..sends'[d]
    BY <2>1
  <2>4. \A m \in net' : m.n \in 1..sends'[m.call] /\ m.n \notin executed'[m.call]
    BY <2>1, <2>2
  <2>5. \A m1, m2 \in net' : m1.call = m2.call /\ m1.n = m2.n => m1 = m2
    BY <2>1, <2>2
  <2> QED BY <2>3, <2>4, <2>5
<1>2. ASSUME NEW m \in net, Handled(m), sends' = sends,
             TakesEffect(m) \/ UNCHANGED executed
      PROVE DeliveriesAreSends'
  <2>1. /\ m.call \in Calls
        /\ \A m1 \in net : m1.call \in Calls /\ m1.n \in Nat
    BY DEF Request
  <2>2. \A d \in Calls : executed'[d] \subseteq executed[d] \cup (IF d = m.call THEN {m.n} ELSE {})
    BY <1>2, <2>1 DEF TakesEffect
  <2>3. \A d \in Calls : executed'[d] \subseteq 1..sends'[d]
    BY <1>2, <2>1, <2>2
  <2>4. \A m1 \in net' : m1 \in net /\ m1 # m
    BY <1>2 DEF Handled
  <2>5. \A m1 \in net' : m1.n \in 1..sends'[m1.call] /\ m1.n \notin executed'[m1.call]
    BY <1>2, <2>1, <2>2, <2>4
  <2> QED BY <2>3, <2>4, <2>5
<1>3. ASSUME NEW m \in net,
             ControllerAccepts(m) \/ ControllerRejects(m) \/ ControllerFails(m)
      PROVE DeliveriesAreSends'
  BY <1>2, <1>3 DEF ControllerAccepts, ControllerRejects, ControllerFails
<1>4. ASSUME UNCHANGED <<net, sends, executed>> PROVE DeliveriesAreSends'
  BY <1>4
<1>5. ASSUME NEW c \in Calls,
             \/ Start(c) \/ RequestOk(c) \/ RequestUnauthorized(c) \/ RequestRefused(c)
             \/ RequestTransient(c) \/ RequestLost(c) \/ Wake(c) \/ AcquireLock(c)
             \/ LoginOk(c) \/ LoginRefused(c) \/ LoginBroken(c) \/ Cancel(c)
      PROVE UNCHANGED <<net, sends, executed>>
  BY <1>5 DEF Start, RequestOk, RequestUnauthorized, RequestRefused, RequestTransient,
              RequestLost, Wake, AcquireLock, LoginOk, LoginRefused, LoginBroken, Cancel
<1>6. ASSUME Shutdown \/ \E m \in net : GatewayGivesUp(m) PROVE DeliveriesAreSends'
  BY <1>4, <1>6 DEF Shutdown, GatewayGivesUp
<1>7. ASSUME NEW c \in authNet, ControllerGrants(c) \/ ControllerDeniesLogin(c)
      PROVE DeliveriesAreSends'
  BY <1>4, <1>7 DEF ControllerGrants, ControllerDeniesLogin
<1>8. ASSUME NEW s \in live, Expire(s) PROVE DeliveriesAreSends'
  BY <1>4, <1>8 DEF Expire
<1>9. CASE UNCHANGED vars
  BY <1>4, <1>9 DEF vars
<1> QED
  BY <1>1, <1>3, <1>4, <1>5, <1>6, <1>7, <1>8, <1>9 DEF Next, ClientStep, ControllerStep

LEMMA NextSuccess == TInv /\ SuccessIsEarned /\ [Next]_vars => SuccessIsEarned'
<1> SUFFICES ASSUME TInv, SuccessIsEarned, [Next]_vars PROVE SuccessIsEarned'
  OBVIOUS
<1> USE Failures
    DEF TInv, TypeOK, SuccessIsEarned, processVars, callVars, serverVars, Finish, ClearReply
<1>1. ASSUME NEW c \in Calls, Start(c) \/ Send(c) \/ Wake(c) \/ AcquireLock(c)
      PROVE SuccessIsEarned'
  BY <1>1 DEF Start, Send, Wake, AcquireLock
<1>2. ASSUME NEW c \in Calls, RequestOk(c) PROVE SuccessIsEarned'
  BY <1>2 DEF RequestOk, Answered
<1>3. ASSUME NEW c \in Calls, RequestUnauthorized(c) PROVE SuccessIsEarned'
  BY <1>3 DEF RequestUnauthorized
<1>4. ASSUME NEW c \in Calls, RequestRefused(c) \/ LoginRefused(c) PROVE SuccessIsEarned'
  BY <1>4, ClassifyType DEF RequestRefused, LoginRefused, ErrorClasses
<1>5. ASSUME NEW c \in Calls, RequestTransient(c) \/ RequestLost(c) PROVE SuccessIsEarned'
  BY <1>5, ClassifyType DEF RequestTransient, RequestLost, RetryOrRaise, ErrorClasses
<1>6. ASSUME NEW c \in Calls, LoginOk(c) \/ LoginBroken(c) \/ Cancel(c)
      PROVE SuccessIsEarned'
  BY <1>6 DEF LoginOk, LoginBroken, Cancel
<1>7. CASE Shutdown
  BY <1>7 DEF Shutdown
<1>8. ASSUME NEW m \in net,
             \/ ControllerAccepts(m) \/ ControllerRejects(m)
             \/ ControllerFails(m) \/ GatewayGivesUp(m)
      PROVE SuccessIsEarned'
  <2>1. m.call \in Calls
    BY DEF Request
  <2>2. CASE ControllerAccepts(m)
    BY <2>1, <2>2 DEF ControllerAccepts, Deliver, TakesEffect
  <2>3. CASE ControllerRejects(m)
    BY <2>1, <2>3 DEF ControllerRejects, Deliver
  <2>4. CASE ControllerFails(m)
    BY <2>1, <2>4 DEF ControllerFails, Deliver, TakesEffect
  <2>5. CASE GatewayGivesUp(m)
    BY <2>1, <2>5 DEF GatewayGivesUp, Deliver
  <2> QED BY <1>8, <2>2, <2>3, <2>4, <2>5
<1>9. ASSUME NEW c \in authNet, ControllerGrants(c) \/ ControllerDeniesLogin(c)
      PROVE SuccessIsEarned'
  BY <1>9 DEF ControllerGrants, ControllerDeniesLogin, DeliverAuth
<1>10. ASSUME NEW s \in live, Expire(s) PROVE SuccessIsEarned'
  BY <1>10 DEF Expire
<1>11. CASE UNCHANGED vars
  BY <1>11 DEF vars
<1> QED
  BY <1>1, <1>2, <1>3, <1>4, <1>5, <1>6, <1>7, <1>8, <1>9, <1>10, <1>11
     DEF Next, ClientStep, ControllerStep

LEMMA InvariantExec == Spec => [](TInv /\ ExecInv)
<1>1. Init => DeliveriesAreSends /\ SuccessIsEarned
  BY Failures DEF Init, DeliveriesAreSends, SuccessIsEarned
<1>2. ExecInv <=> DeliveriesAreSends /\ SuccessIsEarned
  BY DEF ExecInv
<1> QED
  BY <1>1, <1>2, InitTInv, NextTInv, NextDeliveries, NextSuccess, PTL DEF Spec

\* A tool never reports success for an operation the controller did not execute,
\* for any number of calls, attempts, losses and expired sessions.
THEOREM OkIsTrue == Spec => []OkMeansExecuted
<1>1. ExecInv => OkMeansExecuted
  BY DEF ExecInv, SuccessIsEarned, OkMeansExecuted
<1> QED
  BY <1>1, InvariantExec, PTL

(***************************************************************************)
(* The shared token.  A login asks for a session while it holds the lock,  *)
(* and a call logs in once, so the session a login is about to store was   *)
(* issued after the token it replaces.                                     *)
(***************************************************************************)
TokenInv ==
    /\ token <= issued
    /\ \A c \in Calls :
          /\ granted[c] <= issued
          /\ pc[c] = "login" /\ granted[c] # None => granted[c] > token
          /\ pc[c] \notin {"login", "done"} /\ ~relogin[c] => granted[c] = None /\ c \notin authNet
          /\ c \in authNet => granted[c] = None

LoginInv == TInv /\ LoginHoldsLock /\ BudgetInv

LEMMA NextToken == LoginInv /\ TokenInv /\ [Next]_vars => TokenInv'
<1> SUFFICES ASSUME LoginInv, TokenInv, [Next]_vars PROVE TokenInv'
  OBVIOUS
<1> USE CallsAssumption
    DEF LoginInv, TInv, TypeOK, TokenInv, processVars, callVars, serverVars, Finish, None
<1>1. ASSUME NEW c \in Calls,
             \/ Start(c) \/ Send(c) \/ RequestOk(c) \/ RequestUnauthorized(c)
             \/ RequestRefused(c) \/ RequestTransient(c) \/ RequestLost(c) \/ Wake(c)
      PROVE TokenInv'
  BY <1>1 DEF Start, Send, RequestOk, RequestUnauthorized, RequestRefused, RequestTransient,
              RequestLost, Wake, RetryOrRaise, Answered
<1>2. ASSUME NEW c \in Calls, AcquireLock(c) PROVE TokenInv'
  BY <1>2 DEF AcquireLock, BudgetInv
<1>3. ASSUME NEW c \in Calls, LoginOk(c) PROVE TokenInv'
  <2>1. \A d \in Calls : d # c => pc[d] # "login"
    BY <1>3 DEF LoginOk, LoginAnswered, LoginHoldsLock
  <2> QED BY <1>3, <2>1 DEF LoginOk, LoginAnswered
<1>4. ASSUME NEW c \in Calls, LoginRefused(c) \/ LoginBroken(c) \/ Cancel(c)
      PROVE TokenInv'
  BY <1>4 DEF LoginRefused, LoginBroken, Cancel, LoginAnswered
<1>5. CASE Shutdown
  BY <1>5 DEF Shutdown
<1>6. ASSUME NEW c \in authNet, ControllerGrants(c) PROVE TokenInv'
  BY <1>6 DEF ControllerGrants
<1>7. ASSUME NEW c \in authNet, ControllerDeniesLogin(c) PROVE TokenInv'
  BY <1>7 DEF ControllerDeniesLogin
<1>8. ASSUME NEW m \in net,
             \/ ControllerAccepts(m) \/ ControllerRejects(m)
             \/ ControllerFails(m) \/ GatewayGivesUp(m)
      PROVE TokenInv'
  BY <1>8 DEF ControllerAccepts, ControllerRejects, ControllerFails, GatewayGivesUp
<1>9. ASSUME NEW s \in live, Expire(s) PROVE TokenInv'
  BY <1>9 DEF Expire
<1>10. CASE UNCHANGED vars
  BY <1>10 DEF vars
<1> QED
  BY <1>1, <1>2, <1>3, <1>4, <1>5, <1>6, <1>7, <1>8, <1>9, <1>10
     DEF Next, ClientStep, ControllerStep

LEMMA InvariantToken == Spec => [](LoginInv /\ TokenInv)
<1>1. Init => LoginHoldsLock /\ BudgetInv /\ TokenInv
  BY CallsAssumption DEF Init, LoginHoldsLock, BudgetInv, TokenInv, None, FirstCredential
<1>2. TInv => TypeOK
  BY DEF TInv
<1>3. LoginInv <=> TInv /\ LoginHoldsLock /\ BudgetInv
  BY DEF LoginInv
<1> QED
  BY <1>1, <1>2, <1>3, InitTInv, NextTInv, NextLock, NextBudget, NextToken, PTL DEF Spec

\* Concurrent logins never make the process forget a newer session for an older
\* one.
THEOREM TokenMonotone == Spec => TokenNeverGoesBack
<1>1. LoginInv /\ TokenInv /\ [Next]_vars => [token' # None => token' >= token]_vars
  <2> SUFFICES ASSUME LoginInv, TokenInv, Next, token' # None PROVE token' >= token
    BY DEF vars, processVars
  <2> USE DEF LoginInv, TInv, TypeOK, TokenInv, processVars, None
  <2>1. ASSUME NEW c \in Calls, LoginOk(c) PROVE token' >= token
    BY <2>1 DEF LoginOk, LoginAnswered
  <2>2. CASE Shutdown
    BY <2>2 DEF Shutdown
  <2>3. ASSUME NEW c \in Calls,
               \/ Start(c) \/ Send(c) \/ RequestOk(c) \/ RequestUnauthorized(c)
               \/ RequestRefused(c) \/ RequestTransient(c) \/ RequestLost(c) \/ Wake(c)
               \/ AcquireLock(c) \/ LoginRefused(c) \/ LoginBroken(c) \/ Cancel(c)
        PROVE token' = token
    BY <2>3 DEF Start, Send, RequestOk, RequestUnauthorized, RequestRefused,
                RequestTransient, RequestLost, Wake, AcquireLock, LoginRefused,
                LoginBroken, Cancel
  <2>4. CASE ControllerStep
    BY <2>4 DEF ControllerStep, ControllerAccepts, ControllerRejects, ControllerFails,
                GatewayGivesUp, ControllerGrants, ControllerDeniesLogin, Expire
  <2> QED BY <2>1, <2>2, <2>3, <2>4 DEF Next, ClientStep
<1> QED
  BY <1>1, InvariantToken, PTL DEF Spec, TokenNeverGoesBack

(***************************************************************************)
(* Sessions.  The controller issues a call at most one session, so beyond  *)
(* the one of startup there are as many as calls that were granted one.    *)
(***************************************************************************)
Granted == {c \in Calls : granted[c] # None}

SessionInv == issued = 1 + Cardinality(Granted)

LEMMA NextSession == LoginInv /\ TokenInv /\ SessionInv /\ [Next]_vars => SessionInv'
<1> SUFFICES ASSUME LoginInv, TokenInv, SessionInv, [Next]_vars PROVE SessionInv'
  OBVIOUS
<1>1. ASSUME NEW c \in authNet, ControllerGrants(c) PROVE SessionInv'
  <2>1. c \in Calls /\ c \notin Granted
    BY DEF LoginInv, TInv, TypeOK, TokenInv, Granted
  <2>2. Granted' = Granted \cup {c} /\ issued' = issued + 1
    BY <1>1, <2>1 DEF ControllerGrants, Granted, LoginInv, TInv, TypeOK, None
  <2>3. IsFiniteSet(Granted)
    BY CallsAssumption, FS_Subset DEF Granted
  <2>4. /\ Cardinality(Granted \cup {c}) = Cardinality(Granted) + 1
        /\ Cardinality(Granted) \in Nat
    BY <2>1, <2>3, FS_AddElement, FS_CardinalityType
  <2> QED BY <2>2, <2>4 DEF SessionInv
<1>2. ASSUME UNCHANGED <<granted, issued>> PROVE SessionInv'
  BY <1>2 DEF SessionInv, Granted
<1>3. ASSUME NEW c \in Calls, Start(c) \/ ClientStep(c) \/ Cancel(c)
      PROVE UNCHANGED <<granted, issued>>
  BY <1>3 DEF ClientStep, Start, Send, RequestOk, RequestUnauthorized, RequestRefused,
              RequestTransient, RequestLost, Wake, AcquireLock, LoginOk, LoginRefused,
              LoginBroken, Cancel, serverVars
<1>4. CASE Shutdown
  BY <1>2, <1>4 DEF Shutdown
<1>5. ASSUME NEW m \in net,
             \/ ControllerAccepts(m) \/ ControllerRejects(m)
             \/ ControllerFails(m) \/ GatewayGivesUp(m)
      PROVE SessionInv'
  BY <1>2, <1>5
     DEF ControllerAccepts, ControllerRejects, ControllerFails, GatewayGivesUp, serverVars
<1>6. ASSUME NEW c \in authNet, ControllerDeniesLogin(c) PROVE SessionInv'
  BY <1>2, <1>6 DEF ControllerDeniesLogin
<1>7. ASSUME NEW s \in live, Expire(s) PROVE SessionInv'
  BY <1>2, <1>7 DEF Expire
<1>8. CASE UNCHANGED vars
  BY <1>2, <1>8 DEF vars, serverVars
<1> QED
  BY <1>1, <1>2, <1>3, <1>4, <1>5, <1>6, <1>7, <1>8 DEF Next, ControllerStep

\* Concurrent and repeated logins open at most one session for each call, on top
\* of the one opened at startup, and count those still being asked for.
THEOREM SessionsAreBounded == Spec => []SessionsBounded
<1>1. Init => SessionInv
  <2>1. Init => Granted = {}
    BY DEF Init, Granted
  <2> QED BY <2>1, FS_EmptySet DEF Init, SessionInv
<1>2. LoginInv /\ TokenInv /\ SessionInv => SessionsBounded
  <2> SUFFICES ASSUME LoginInv, TokenInv, SessionInv PROVE SessionsBounded
    OBVIOUS
  <2>1. authNet \subseteq Calls /\ Granted \subseteq Calls /\ Granted \cap authNet = {}
    BY DEF LoginInv, TInv, TypeOK, TokenInv, Granted
  <2>2. IsFiniteSet(authNet) /\ IsFiniteSet(Granted)
    BY <2>1, CallsAssumption, FS_Subset
  <2>3. Cardinality(Granted \cup authNet) = Cardinality(Granted) + Cardinality(authNet)
    <3>1. Cardinality(Granted \cup authNet)
            = Cardinality(Granted) + Cardinality(authNet) - Cardinality(Granted \cap authNet)
      BY <2>2, FS_Union
    <3>2. Cardinality(Granted \cap authNet) = 0
      BY <2>1, FS_EmptySet
    <3>3. Cardinality(Granted) \in Nat /\ Cardinality(authNet) \in Nat
      BY <2>2, FS_CardinalityType
    <3> QED BY <3>1, <3>2, <3>3
  <2>4. Cardinality(Granted \cup authNet) <= Cardinality(Calls)
    BY <2>1, CallsAssumption, FS_Subset
  <2>5. /\ Cardinality(Granted) \in Nat
        /\ Cardinality(authNet) \in Nat
        /\ Cardinality(Calls) \in Nat
    BY <2>2, CallsAssumption, FS_CardinalityType
  <2> QED BY <2>3, <2>4, <2>5 DEF SessionInv, SessionsBounded
<1> QED
  BY <1>1, <1>2, InvariantToken, NextSession, PTL DEF Spec

(***************************************************************************)
(* Outcomes.                                                               *)
(***************************************************************************)
\* A call has an outcome exactly when it is done.
OutcomeInv == \A c \in Calls : outcome[c] = "none" <=> pc[c] # "done"

LEMMA NextOutcome == TInv /\ OutcomeInv /\ [Next]_vars => OutcomeInv'
<1> SUFFICES ASSUME TInv, OutcomeInv, [Next]_vars PROVE OutcomeInv'
  OBVIOUS
<1> USE DEF TInv, TypeOK, OutcomeInv, processVars, callVars, serverVars, Finish
<1>1. ASSUME NEW c \in Calls,
             \/ Start(c) \/ Send(c) \/ RequestOk(c) \/ RequestUnauthorized(c)
             \/ Wake(c) \/ AcquireLock(c) \/ LoginOk(c) \/ LoginBroken(c) \/ Cancel(c)
      PROVE OutcomeInv'
  BY <1>1 DEF Start, Send, RequestOk, RequestUnauthorized, Wake, AcquireLock, LoginOk,
              LoginBroken, Cancel, Answered, LoginAnswered
<1>2. ASSUME NEW c \in Calls, RequestRefused(c) \/ LoginRefused(c) PROVE OutcomeInv'
  BY <1>2, ClassifyType DEF RequestRefused, LoginRefused, ErrorClasses
<1>3. ASSUME NEW c \in Calls, RequestTransient(c) \/ RequestLost(c) PROVE OutcomeInv'
  BY <1>3, ClassifyType
     DEF RequestTransient, RequestLost, RetryOrRaise, Answered, ErrorClasses
<1>4. CASE Shutdown
  BY <1>4 DEF Shutdown
<1>5. CASE ControllerStep
  BY <1>5 DEF ControllerStep, ControllerAccepts, ControllerRejects, ControllerFails,
              GatewayGivesUp, ControllerGrants, ControllerDeniesLogin, Expire
<1>6. CASE UNCHANGED vars
  BY <1>6 DEF vars
<1> QED
  BY <1>1, <1>2, <1>3, <1>4, <1>5, <1>6 DEF Next, ClientStep

LEMMA InvariantOutcome == Spec => [](TInv /\ OutcomeInv)
<1>1. Init => OutcomeInv
  BY DEF Init, OutcomeInv
<1> QED
  BY <1>1, InitTInv, NextTInv, NextOutcome, PTL DEF Spec

(***************************************************************************)
(* Errors after one send.  An answer that is not retried comes from who    *)
(* handled the send, so nothing of it is on its way any more.              *)
(***************************************************************************)
Settled(c) == \A m \in net : m.call = c => m.n # sends[c]

Permanent(r) == r.status = 401 \/ (r # NoReply /\ ~IsSuccess(r) /\ ~IsRetryable(r))

FinalInv ==
    \A c \in Calls :
       /\ pc[c] = "await" /\ Permanent(reply[c]) => Settled(c)
       /\ pc[c] \in {"lockwait", "login"} => Settled(c)
       /\ (MaxAttempts > 1 /\ outcome[c] \in ErrorClasses /\ sends[c] = 1) => Settled(c)

\* What a proxy answers for a controller that still works is never permanent.
LEMMA PermanentAnswers ==
    /\ ~Permanent(NoReply)
    /\ \A r \in ErrorReplies : r.status \in GatewayStatuses => ~Permanent(r)
BY RepliesAssumption DEF Permanent, NoReply, NoCode, IsRetryable, GatewayStatuses

FinalHyp == TInv /\ BudgetInv /\ ExecInv /\ OutcomeInv

LEMMA NextFinal == FinalHyp /\ FinalInv /\ [Next]_vars => FinalInv'
<1> SUFFICES ASSUME FinalHyp, FinalInv, [Next]_vars PROVE FinalInv'
  OBVIOUS
<1> USE PermanentAnswers
    DEF FinalHyp, TInv, TypeOK, FinalInv, Settled, processVars, callVars, serverVars,
        Finish, ClearReply
<1>1. ASSUME NEW c \in Calls, Start(c) \/ Wake(c) PROVE FinalInv'
  BY <1>1 DEF Start, Wake, ErrorClasses
<1>2. ASSUME NEW c \in Calls, Send(c) PROVE FinalInv'
  BY <1>2 DEF Send, ExecInv, SuccessIsEarned, OutcomeInv, ErrorClasses, Request
<1>3. ASSUME NEW c \in Calls, RequestOk(c) PROVE FinalInv'
  BY <1>3 DEF RequestOk, ErrorClasses
<1>4. ASSUME NEW c \in Calls, RequestUnauthorized(c) PROVE FinalInv'
  BY <1>4 DEF RequestUnauthorized, Answered, MayRelogin, Permanent
<1>5. ASSUME NEW c \in Calls, RequestRefused(c) PROVE FinalInv'
  BY <1>5 DEF RequestRefused, Answered, Permanent
<1>6. ASSUME NEW c \in Calls, RequestTransient(c) \/ RequestLost(c) PROVE FinalInv'
  BY <1>6, AttemptsAssumption DEF RequestTransient, RequestLost, RetryOrRaise, Answered, BudgetInv
<1>7. ASSUME NEW c \in Calls, AcquireLock(c) \/ LoginOk(c) PROVE FinalInv'
  BY <1>7 DEF AcquireLock, LoginOk
<1>8. ASSUME NEW c \in Calls, LoginRefused(c) \/ LoginBroken(c) PROVE FinalInv'
  BY <1>8 DEF LoginRefused, LoginBroken, LoginAnswered, ErrorClasses
<1>9. ASSUME NEW c \in Calls, Cancel(c) PROVE FinalInv'
  BY <1>9 DEF Cancel, ErrorClasses
<1>10. CASE Shutdown
  BY <1>10 DEF Shutdown
<1>11. ASSUME NEW m \in net,
              \/ ControllerAccepts(m) \/ ControllerRejects(m)
              \/ ControllerFails(m) \/ GatewayGivesUp(m)
       PROVE FinalInv'
  <2>1. /\ m.call \in Calls
        /\ \A m1 \in net : m1.call = m.call /\ m1.n = m.n => m1 = m
    BY DEF ExecInv, DeliveriesAreSends, Request
  <2>2. CASE ControllerAccepts(m) \/ ControllerRejects(m) \/ ControllerFails(m)
    <3>1. net' = net \ {m} /\ pc' = pc /\ outcome' = outcome /\ sends' = sends
      BY <2>2 DEF ControllerAccepts, ControllerRejects, ControllerFails, Handled
    <3>2. \A c \in Calls : reply'[c] = reply[c] \/ (c = m.call /\ m.n = sends[c])
      BY <2>1, <2>2 DEF ControllerAccepts, ControllerRejects, ControllerFails, Deliver
    <3> QED BY <2>1, <3>1, <3>2
  <2>3. CASE GatewayGivesUp(m)
    BY <2>1, <2>3 DEF GatewayGivesUp, Deliver
  <2> QED BY <1>11, <2>2, <2>3
<1>12. ASSUME NEW c \in authNet, ControllerGrants(c) \/ ControllerDeniesLogin(c)
       PROVE FinalInv'
  BY <1>12 DEF ControllerGrants, ControllerDeniesLogin, DeliverAuth
<1>13. ASSUME NEW s \in live, Expire(s) PROVE FinalInv'
  BY <1>13 DEF Expire
<1>14. CASE UNCHANGED vars
  BY <1>14 DEF vars
<1> QED
  BY <1>1, <1>2, <1>3, <1>4, <1>5, <1>6, <1>7, <1>8, <1>9, <1>10, <1>11, <1>12, <1>13, <1>14
     DEF Next, ClientStep, ControllerStep

\* A caller told an error after a single send may trust what it then reads: nothing still
\* on the network will change it, for any number of calls and attempts and any errors.
THEOREM OneSendErrorsAreSettled == Spec => []OneSendErrorIsSettled
<1>1. Init => FinalInv
  BY PermanentAnswers DEF Init, FinalInv, ErrorClasses
<1>2. TInv /\ BudgetInv /\ ExecInv /\ OutcomeInv <=> FinalHyp
  BY DEF FinalHyp
<1>3. FinalHyp /\ FinalInv => OneSendErrorIsSettled
  <2> SUFFICES ASSUME FinalHyp, FinalInv, MaxAttempts > 1, NEW c \in Calls,
                      outcome[c] \in ErrorClasses, sends[c] = 1, NEW m \in net, m.call = c
               PROVE  FALSE
    BY DEF OneSendErrorIsSettled, InFlight
  <2>1. m.n \in 1..sends[c]
    BY DEF FinalHyp, ExecInv, DeliveriesAreSends
  <2>2. m.n # sends[c]
    BY DEF FinalInv, Settled
  <2> QED BY <2>1, <2>2
<1> QED
  BY <1>1, <1>2, <1>3, InvariantBudget, InvariantExec, InvariantOutcome, NextFinal, PTL DEF Spec

(***************************************************************************)
(* Expired sessions.  A call sends one credential at a time and changes it *)
(* only by a re-login, which gives it a later one than the one refused; a  *)
(* session that died stays dead.                                           *)
(***************************************************************************)
Dead == (1..issued) \ live

Answers == ErrorReplies \cup {NoReply, Ok, Unauthorized}

\* What a call carries: a session of this process, not later than the current one, and
\* its own after a re-login; in the request it waits for, too.
CredentialInv ==
    /\ phase = "serving" /\ authMode = "password" => token >= 1
    /\ \A c \in Calls :
          /\ reply[c] \in Answers
          /\ pc[c] \notin {"idle", "done"} => phase = "serving"
          /\ pc[c] \notin {"idle", "done"} /\ authMode = "password" => hdr[c] \in 1..token
          /\ pc[c] \in {"lockwait", "login"} \/ relogin[c] => authMode = "password"
          /\ relogin[c] => hdr[c] = granted[c] /\ granted[c] # None
    /\ \A m \in net : pc[m.call] = "await" /\ m.n = sends[m.call] => m.cred = hdr[m.call]

\* A call told 401 carries a dead session, and one that has re-logged in left a dead one
\* behind that is not the one it carries.
DeadInv ==
    \A c \in Calls :
       /\ pc[c] = "await" /\ reply[c].status = 401 /\ authMode = "password" => hdr[c] \in Dead
       /\ pc[c] \in {"lockwait", "login"} => hdr[c] \in Dead
       /\ relogin[c] => \E h \in Dead : h < hdr[c]

SessionHyp == LoginInv /\ TokenInv /\ ExecInv /\ OutcomeInv

LEMMA NextCredential == SessionHyp /\ CredentialInv /\ [Next]_vars => CredentialInv'
<1> SUFFICES ASSUME SessionHyp, CredentialInv, [Next]_vars PROVE CredentialInv'
  OBVIOUS
<1> USE DEF SessionHyp, LoginInv, TInv, TypeOK, CredentialInv, Answers, processVars, callVars,
            serverVars, Finish, ClearReply, None, Request
<1>1. ASSUME NEW c \in Calls, Start(c) PROVE CredentialInv'
  <2>1. ~relogin[c]
    BY <1>1 DEF Start, BudgetInv
  <2> QED BY <1>1, <2>1 DEF Start, AuthHeaders
<1>2. ASSUME NEW c \in Calls, Send(c) PROVE CredentialInv'
  <2>1. \A m \in net : m.call = c => m.n \in 1..sends[c]
    BY DEF ExecInv, DeliveriesAreSends
  <2>2. \A m \in net' : pc'[m.call] = "await" /\ m.n = sends'[m.call] => m.cred = hdr'[m.call]
    BY <1>2, <2>1 DEF Send
  <2> QED BY <1>2, <2>2 DEF Send
<1>3. ASSUME NEW c \in Calls,
             \/ RequestOk(c) \/ RequestUnauthorized(c) \/ RequestRefused(c) \/ Wake(c)
             \/ LoginRefused(c) \/ LoginBroken(c) \/ Cancel(c)
      PROVE CredentialInv'
  BY <1>3 DEF RequestOk, RequestUnauthorized, RequestRefused, Wake, LoginRefused, LoginBroken,
              Cancel, MayRelogin, Answered, LoginAnswered
<1>4. ASSUME NEW c \in Calls, RequestTransient(c) \/ RequestLost(c) PROVE CredentialInv'
  BY <1>4 DEF RequestTransient, RequestLost, RetryOrRaise, Answered
<1>5. ASSUME NEW c \in Calls, AcquireLock(c) PROVE CredentialInv'
  BY <1>5 DEF AcquireLock
<1>6. ASSUME NEW c \in Calls, LoginOk(c) PROVE CredentialInv'
  <2>1. authMode = "password" /\ token' = granted[c] /\ granted[c] > token /\ phase = "serving"
    BY <1>6 DEF LoginOk, LoginAnswered, TokenInv
  <2>2. hdr' = [hdr EXCEPT ![c] = token'] /\ token' \in Nat /\ token >= 1
    BY <1>6, <2>1 DEF LoginOk, AuthHeaders
  <2> QED BY <1>6, <2>1, <2>2 DEF LoginOk
<1>7. CASE Shutdown
  BY <1>7 DEF Shutdown
<1>8. ASSUME NEW m \in net,
             \/ ControllerAccepts(m) \/ ControllerRejects(m)
             \/ ControllerFails(m) \/ GatewayGivesUp(m)
      PROVE CredentialInv'
  BY <1>8 DEF ControllerAccepts, ControllerRejects, ControllerFails, GatewayGivesUp,
              Handled, Deliver
<1>9. ASSUME NEW c \in authNet, ControllerGrants(c) \/ ControllerDeniesLogin(c)
      PROVE CredentialInv'
  <2>1. c \in Calls /\ granted[c] = None
    BY DEF TokenInv
  <2> QED BY <1>9, <2>1 DEF ControllerGrants, ControllerDeniesLogin, DeliverAuth
<1>10. ASSUME NEW s \in live, Expire(s) PROVE CredentialInv'
  BY <1>10 DEF Expire
<1>11. CASE UNCHANGED vars
  BY <1>11 DEF vars
<1> QED
  BY <1>1, <1>2, <1>3, <1>4, <1>5, <1>6, <1>7, <1>8, <1>9, <1>10, <1>11
     DEF Next, ClientStep, ControllerStep

LEMMA NextDead == SessionHyp /\ CredentialInv /\ DeadInv /\ [Next]_vars => DeadInv'
<1> SUFFICES ASSUME SessionHyp, CredentialInv, DeadInv, [Next]_vars PROVE DeadInv'
  OBVIOUS
<1>0. ~(NoReply.status = 401) /\ ~(Ok.status = 401) /\ \A r \in ErrorReplies : r.status # 401
  BY RepliesAssumption DEF NoReply, Ok
<1> USE <1>0
    DEF SessionHyp, LoginInv, TInv, TypeOK, DeadInv, Dead, processVars, callVars, serverVars,
        Finish, ClearReply, None
<1>1. ASSUME NEW c \in Calls, Start(c) PROVE DeadInv'
  BY <1>1 DEF Start, BudgetInv
<1>2. ASSUME NEW c \in Calls, Send(c) PROVE DeadInv'
  BY <1>2 DEF Send, ExecInv, SuccessIsEarned, OutcomeInv
<1>3. ASSUME NEW c \in Calls, RequestUnauthorized(c) PROVE DeadInv'
  BY <1>3 DEF RequestUnauthorized, Answered, MayRelogin
<1>4. ASSUME NEW c \in Calls, RequestRefused(c) PROVE DeadInv'
  BY <1>4 DEF RequestRefused
<1>5. ASSUME NEW c \in Calls, RequestTransient(c) \/ RequestLost(c) PROVE DeadInv'
  BY <1>5 DEF RequestTransient, RequestLost, RetryOrRaise
<1>7. ASSUME NEW c \in Calls,
             RequestOk(c) \/ Wake(c) \/ AcquireLock(c) \/ LoginBroken(c) \/ Cancel(c)
      PROVE DeadInv'
  BY <1>7 DEF RequestOk, Wake, AcquireLock, LoginBroken, Cancel
<1>8. ASSUME NEW c \in Calls, LoginOk(c) PROVE DeadInv'
  <2>1. hdr[c] \in Dead /\ hdr[c] <= token /\ granted[c] > token /\ authMode = "password"
    BY <1>8 DEF LoginOk, LoginAnswered, TokenInv, CredentialInv
  <2>2. hdr' = [hdr EXCEPT ![c] = granted[c]] /\ Dead' = Dead /\ outcome' = outcome
    BY <1>8, <2>1 DEF LoginOk, AuthHeaders
  <2>3. outcome[c] = "none"
    BY <1>8 DEF LoginOk, LoginAnswered, OutcomeInv
  <2>4. hdr[c] < granted[c]
    BY <2>1
  <2> QED BY <1>8, <2>1, <2>2, <2>3, <2>4 DEF LoginOk
<1>9. ASSUME NEW c \in Calls, LoginRefused(c) PROVE DeadInv'
  BY <1>9 DEF LoginRefused, LoginAnswered, BudgetInv
<1>10. CASE Shutdown
  BY <1>10 DEF Shutdown
<1>11. ASSUME NEW m \in net, ControllerRejects(m) PROVE DeadInv'
  <2>1. ASSUME pc[m.call] = "await", m.n = sends[m.call], authMode = "password"
        PROVE  hdr[m.call] \in Dead
    <3>1. m.cred = hdr[m.call] /\ m.call \in Calls
      BY <2>1 DEF CredentialInv, Request
    <3>2. hdr[m.call] \in 1..token /\ token <= issued
      BY <2>1, <3>1 DEF CredentialInv, TokenInv
    <3> QED BY <1>11, <3>1, <3>2 DEF ControllerRejects
  <2> QED BY <1>11, <2>1 DEF ControllerRejects, Deliver
<1>12. ASSUME NEW m \in net, ControllerAccepts(m) \/ ControllerFails(m) \/ GatewayGivesUp(m)
       PROVE DeadInv'
  BY <1>12 DEF ControllerAccepts, ControllerFails, GatewayGivesUp, Deliver
<1>13. ASSUME NEW c \in authNet, ControllerGrants(c) PROVE DeadInv'
  <2>1. Dead \subseteq Dead'
    BY <1>13 DEF ControllerGrants
  <2> QED BY <1>13, <2>1 DEF ControllerGrants, DeliverAuth
<1>14. ASSUME NEW c \in authNet, ControllerDeniesLogin(c) PROVE DeadInv'
  BY <1>14 DEF ControllerDeniesLogin, DeliverAuth
<1>15. ASSUME NEW s \in live, Expire(s) PROVE DeadInv'
  <2>1. Dead \subseteq Dead'
    BY <1>15 DEF Expire
  <2> QED BY <1>15, <2>1 DEF Expire
<1>16. CASE UNCHANGED vars
  BY <1>16 DEF vars
<1> QED
  BY <1>1, <1>2, <1>3, <1>4, <1>5, <1>7, <1>8, <1>9, <1>10, <1>11, <1>12, <1>13, <1>14,
     <1>15, <1>16 DEF Next, ClientStep, ControllerStep

LEMMA InvariantDead == Spec => [](SessionHyp /\ CredentialInv /\ DeadInv)
<1>1. Init => CredentialInv /\ DeadInv
  BY ModesAssumption
     DEF Init, CredentialInv, DeadInv, Answers, NoReply, FirstCredential, None
<1>2. LoginInv /\ TokenInv /\ ExecInv /\ OutcomeInv <=> SessionHyp
  BY DEF SessionHyp
<1> QED
  BY <1>1, <1>2, InvariantToken, InvariantExec, InvariantOutcome, NextCredential, NextDead,
     PTL DEF Spec

\* Only a 401 is an auth failure: among the other answers the controller may give there
\* is none with a code of an auth failure.
OnlyUnauthorizedIsAuth == \A r \in ErrorReplies : Classify(r) # "AuthError"

LEMMA AuthAnswers ==
    ASSUME OnlyUnauthorizedIsAuth, NEW r \in Answers, ~IsSuccess(r), r # NoReply,
           Classify(r) = "AuthError"
    PROVE  r.status = 401
<1>1. r \in ErrorReplies \/ r = Unauthorized
  BY DEF Answers, Ok, IsSuccess
<1> QED BY <1>1 DEF OnlyUnauthorizedIsAuth, Unauthorized

\* Stale headers never surface as an AuthError: in password mode a request is answered
\* into one only after the session its own re-login obtained died, as an older one had,
\* provided only a 401 is an auth failure.
THEOREM StaleHeadersAreInvisible ==
    ASSUME OnlyUnauthorizedIsAuth
    PROVE  Spec => AuthErrorMeansOwnSessionDied
<1> DEFINE Step == \A c \in Calls :
              Answered(c) /\ authMode = "password" /\ outcome'[c] = "AuthError" =>
                 /\ granted[c] # None /\ hdr[c] = granted[c]
                 /\ granted[c] \notin live
                 /\ \E s \in (1..issued) \ live : s < granted[c]
<1>1. SessionHyp /\ CredentialInv /\ DeadInv /\ [Next]_vars => [Step]_vars
  <2> SUFFICES ASSUME SessionHyp, CredentialInv, DeadInv, Next, NEW c \in Calls,
                      Answered(c), authMode = "password", outcome'[c] = "AuthError"
               PROVE  /\ granted[c] # None /\ hdr[c] = granted[c]
                      /\ granted[c] \notin live
                      /\ \E s \in (1..issued) \ live : s < granted[c]
    OBVIOUS
  <2> USE DEF SessionHyp, LoginInv, TInv, TypeOK
  <2>1. outcome[c] = "none" /\ pc[c] = "await" /\ reply[c] # NoReply /\ reply[c] \in Answers
    BY DEF Answered, OutcomeInv, CredentialInv
  <2>2. outcome' # outcome
    BY <2>1
  <2>3. CASE \E d \in Calls : RequestRefused(d) \/ RequestTransient(d)
    <3>1. PICK d \in Calls : RequestRefused(d) \/ RequestTransient(d)
      BY <2>3
    <3>2. d = c
      BY <2>1, <3>1 DEF RequestRefused, RequestTransient, RetryOrRaise, Finish
    <3>3. /\ ~IsSuccess(reply[c]) /\ ~MayRelogin(c)
          /\ Classify(reply[c]) = "AuthError"
      BY <2>1, <3>1, <3>2 DEF RequestRefused, RequestTransient, RetryOrRaise, Finish
    <3>4. reply[c].status = 401
      BY <2>1, <3>3, AuthAnswers
    <3>5. relogin[c]
      BY <3>3, <3>4 DEF MayRelogin
    <3>6. hdr[c] \in Dead /\ (\E h \in Dead : h < hdr[c])
      BY <2>1, <3>4, <3>5 DEF DeadInv
    <3> QED BY <3>5, <3>6 DEF CredentialInv, Dead
  <2>5. ASSUME NEW d \in Calls,
               \/ RequestOk(d) \/ RequestLost(d) \/ LoginBroken(d) \/ Cancel(d)
        PROVE  FALSE
    BY <2>1, <2>5 DEF RequestOk, RequestLost, LoginBroken, Cancel, RetryOrRaise, Finish
  <2>6. ASSUME NEW d \in Calls, LoginRefused(d) PROVE FALSE
    <3>1. d # c
      BY <2>1, <2>6 DEF LoginRefused, LoginAnswered
    <3> QED BY <2>1, <2>6, <3>1 DEF LoginRefused, Finish
  <2>7. ASSUME NEW d \in Calls,
               \/ Start(d) \/ Send(d) \/ RequestUnauthorized(d) \/ Wake(d)
               \/ AcquireLock(d) \/ LoginOk(d)
        PROVE  FALSE
    BY <2>2, <2>7 DEF Start, Send, RequestUnauthorized, Wake, AcquireLock, LoginOk
  <2>8. ASSUME Shutdown \/ ControllerStep PROVE FALSE
    BY <2>2, <2>8 DEF Shutdown, ControllerStep, ControllerAccepts, ControllerRejects,
         ControllerFails, GatewayGivesUp, ControllerGrants, ControllerDeniesLogin, Expire,
         callVars
  <2> QED BY <2>3, <2>5, <2>6, <2>7, <2>8 DEF Next, ClientStep
<1>2. [](SessionHyp /\ CredentialInv /\ DeadInv) /\ [][Next]_vars => [][Step]_vars
  BY <1>1, PTL
<1> QED BY <1>2, InvariantDead, PTL DEF Spec, AuthErrorMeansOwnSessionDied

\* A login replaces a session that the controller still accepts only in a race: its call
\* was refused with an older one, and another call logged in while it queued.
THEOREM OrphansAreRaces == Spec => OrphansNeedARace
<1> DEFINE Step == token' # token /\ token \in live /\ phase' = "serving" =>
                      \E c \in Calls : lock = c /\ hdr[c] < token
<1>1. SessionHyp /\ CredentialInv /\ DeadInv /\ [Next]_vars => [Step]_vars
  <2> SUFFICES ASSUME SessionHyp, CredentialInv, DeadInv, Next,
                      token' # token, token \in live, phase' = "serving"
               PROVE  \E c \in Calls : lock = c /\ hdr[c] < token
    OBVIOUS
  <2> USE DEF SessionHyp, LoginInv, TInv, TypeOK
  <2>1. ASSUME NEW c \in Calls, LoginOk(c) PROVE lock = c /\ hdr[c] < token
    <3>1. pc[c] = "login"
      BY <2>1 DEF LoginOk, LoginAnswered
    <3>2. lock = c
      BY <3>1 DEF LoginHoldsLock
    <3>3. hdr[c] \in Dead /\ hdr[c] \in 1..token
      BY <3>1 DEF DeadInv, CredentialInv
    <3>4. hdr[c] # token
      BY <3>3 DEF Dead
    <3> QED BY <3>2, <3>3, <3>4
  <2>2. CASE Shutdown
    BY <2>2 DEF Shutdown
  <2>3. ASSUME NEW c \in Calls,
               \/ Start(c) \/ Send(c) \/ RequestOk(c) \/ RequestUnauthorized(c)
               \/ RequestRefused(c) \/ RequestTransient(c) \/ RequestLost(c) \/ Wake(c)
               \/ AcquireLock(c) \/ LoginRefused(c) \/ LoginBroken(c) \/ Cancel(c)
        PROVE FALSE
    BY <2>3 DEF Start, Send, RequestOk, RequestUnauthorized, RequestRefused,
                RequestTransient, RequestLost, Wake, AcquireLock, LoginRefused,
                LoginBroken, Cancel, processVars
  <2>4. ASSUME ControllerStep PROVE FALSE
    BY <2>4 DEF ControllerStep, ControllerAccepts, ControllerRejects, ControllerFails,
                GatewayGivesUp, ControllerGrants, ControllerDeniesLogin, Expire, processVars
  <2> QED BY <2>1, <2>2, <2>3, <2>4 DEF Next, ClientStep
<1>2. [](SessionHyp /\ CredentialInv /\ DeadInv) /\ [][Next]_vars => [][Step]_vars
  BY <1>1, PTL
<1> QED BY <1>2, InvariantDead, PTL DEF Spec, OrphansNeedARace
=============================================================================
