-------------------------- MODULE NVClientProgress --------------------------
(***************************************************************************)
(* Why a call of request() ends: the queue for the login lock always has   *)
(* one head, and every step of a call brings it nearer to its end.  What   *)
(* is left to the scheduler is only to run the call that can run.          *)
(***************************************************************************)
EXTENDS NVClientProofs, WellFoundedInduction

LEMMA Least ==
    ASSUME NEW T \in SUBSET Nat, T # {}
    PROVE  \E m \in T : \A k \in T : m <= k
<1> DEFINE R == {p \in Nat \X Nat : p[1] < p[2]}
<1>1. IsWellFoundedOn(R, Nat)
  BY NatLessThanWellFounded DEF OpToRel
<1> HIDE DEF R
<1>2. PICK m \in T : \A k \in T : ~(<<k, m>> \in R)
  BY <1>1, WFMin
<1>3. \A k \in T : ~(k < m)
  BY <1>2 DEF R
<1> QED BY <1>3

\* In a finite set with a strict linear order someone has nobody before them.
LEMMA FirstOf ==
    ASSUME NEW S, IsFiniteSet(S), S # {}, NEW before \in [S -> SUBSET S],
           \A x \in S : x \notin before[x],
           \A x, y \in S : x \in before[y] => before[x] \subseteq before[y]
    PROVE  \E x \in S : before[x] = {}
<1> DEFINE Count(x) == Cardinality(before[x])
           T == {Count(x) : x \in S}
<1>1. \A x \in S : IsFiniteSet(before[x]) /\ Count(x) \in Nat
  BY FS_Subset, FS_CardinalityType
<1>2. T \subseteq Nat /\ T # {}
  BY <1>1
<1>3. PICK x \in S : \A y \in S : Count(x) <= Count(y)
  <2>1. PICK m \in T : \A k \in T : m <= k
    <3> HIDE DEF T
    <3> QED BY <1>2, Least
  <2> QED BY <2>1
<1>4. ASSUME before[x] # {} PROVE FALSE
  <2>1. PICK y \in before[x] : TRUE
    BY <1>4
  <2>2. y \in S /\ before[y] \subseteq before[x] /\ y \notin before[y]
    BY <2>1
  <2>3. before[y] # before[x]
    BY <2>1, <2>2
  <2>4. Count(y) < Count(x)
    BY <1>1, <2>2, <2>3, FS_Subset
  <2> QED BY <1>1, <1>3, <2>2, <2>4
<1> QED BY <1>4

(***************************************************************************)
(* The queue.  A call waits for the lock at most once, so a name in        *)
(* `ahead` of another call never means a later wait of the same call; the  *)
(* calls that wait are in a strict linear order.                           *)
(***************************************************************************)
WaitedOnce ==
    \A c, d \in Calls :
       c \in ahead[d] => relogin[c] \/ pc[c] \in {"lockwait", "login", "done"}

InOrder ==
    \A c, d \in Waiting :
       /\ c \notin ahead[c]
       /\ c = d \/ c \in ahead[d] \/ d \in ahead[c]
       /\ \A e \in Waiting : c \in ahead[d] /\ d \in ahead[e] => c \in ahead[e]

QueueInv == WaitedOnce /\ InOrder

LEMMA NextQueue == TInv /\ BudgetInv /\ QueueInv /\ [Next]_vars => QueueInv'
<1> SUFFICES ASSUME TInv, BudgetInv, QueueInv, [Next]_vars PROVE QueueInv'
  OBVIOUS
<1> USE DEF TInv, TypeOK, QueueInv, WaitedOnce, InOrder, Waiting, processVars, callVars,
            Finish
\* Nobody joins the queue, and whoever leaves it leaves it for good.
<1>1. ASSUME NEW c \in Calls,
             \/ Start(c) \/ Send(c) \/ RequestOk(c) \/ RequestRefused(c) \/ Wake(c)
             \/ AcquireLock(c)
      PROVE QueueInv'
  BY <1>1 DEF Start, Send, RequestOk, RequestRefused, Wake, AcquireLock, Answered
<1>2. ASSUME NEW c \in Calls, LoginRefused(c) \/ LoginBroken(c) \/ Cancel(c)
      PROVE QueueInv'
  BY <1>2 DEF LoginRefused, LoginBroken, Cancel, LoginAnswered
<1>3. ASSUME NEW c \in Calls, RequestTransient(c) \/ RequestLost(c) PROVE QueueInv'
  BY <1>3 DEF RequestTransient, RequestLost, RetryOrRaise, Answered
\* A call comes back from its login with _relogin_done set.
<1>4. ASSUME NEW c \in Calls, LoginOk(c) PROVE QueueInv'
  BY <1>4 DEF LoginOk, LoginAnswered
\* A call joins behind all that wait; it never waited before.
<1>5. ASSUME NEW c \in Calls, RequestUnauthorized(c) PROVE QueueInv'
  <2>1. /\ pc[c] = "await" /\ ~relogin[c] /\ relogin' = relogin
        /\ pc' = [pc EXCEPT ![c] = "lockwait"]
        /\ ahead' = [ahead EXCEPT ![c] = Waiting]
    BY <1>5 DEF RequestUnauthorized, Answered, MayRelogin
  <2>2. \A d \in Calls : c \notin ahead[d]
    BY <2>1
  <2>3. Waiting' = Waiting \cup {c} /\ c \notin Waiting
    BY <2>1
  <2>4. WaitedOnce'
    BY <2>1
  <2>5. InOrder'
    BY <2>1, <2>2, <2>3
  <2> QED BY <2>4, <2>5
<1>6. CASE Shutdown
  BY <1>6 DEF Shutdown
<1>7. CASE ControllerStep
  BY <1>7 DEF ControllerStep, ControllerAccepts, ControllerRejects, ControllerFails,
              GatewayGivesUp, ControllerGrants, ControllerDeniesLogin, Expire
<1>8. CASE UNCHANGED vars
  BY <1>8 DEF vars
<1> QED
  BY <1>1, <1>2, <1>3, <1>4, <1>5, <1>6, <1>7, <1>8 DEF Next, ClientStep

LEMMA InvariantQueue == Spec => [](TInv /\ QueueInv)
<1>1. Init => QueueInv
  BY DEF Init, QueueInv, WaitedOnce, InOrder, Waiting
<1> QED
  BY <1>1, NextQueue, InvariantBudget, PTL DEF Spec

\* With any number of calls, cancelled and logged in in any order, the queue for the
\* login lock has exactly one head whenever it is not empty: the hand-over of
\* _login_lock can neither deadlock nor go to two calls.
THEOREM QueueHasOneHead == Spec => []OneIsNext
<1>1. TInv /\ QueueInv => OneIsNext
  <2> SUFFICES ASSUME TInv, QueueInv, Waiting # {}
               PROVE  \E c \in Waiting : \A d \in Waiting : NextInLine(d) <=> d = c
    BY DEF OneIsNext
  <2> DEFINE before == [c \in Waiting |-> ahead[c] \cap Waiting]
  <2>1. IsFiniteSet(Waiting)
    BY CallsAssumption, FS_Subset DEF Waiting
  <2>2. PICK c \in Waiting : before[c] = {}
    <3>1. before \in [Waiting -> SUBSET Waiting]
      OBVIOUS
    <3>2. \A x \in Waiting : x \notin before[x]
      BY DEF QueueInv, InOrder
    <3>3. \A x, y \in Waiting : x \in before[y] => before[x] \subseteq before[y]
      BY DEF QueueInv, InOrder
    <3> HIDE DEF before
    <3> QED BY <2>1, <3>1, <3>2, <3>3, FirstOf
  <2>3. \A d \in Waiting : NextInLine(d) <=> ahead[d] \cap Waiting = {}
    BY DEF NextInLine, Waiting, TInv, TypeOK
  <2>4. \A d \in Waiting : ahead[d] \cap Waiting = {} => d = c
    BY <2>2 DEF QueueInv, InOrder
  <2> QED BY <2>2, <2>3, <2>4
<1> QED BY <1>1, InvariantQueue, PTL

(***************************************************************************)
(* Progress.                                                               *)
(***************************************************************************)
\* A step of a call moves that call along one of these edges.
Edge(c) ==
    \/ pc[c] = "idle" /\ pc'[c] = "ready" /\ attempt'[c] = 0 /\ ~relogin'[c]
    \/ pc[c] = "ready" /\ pc'[c] = "await" /\ attempt'[c] = attempt[c] + 1
          /\ relogin'[c] = relogin[c]
    \/ pc[c] = "await" /\ pc'[c] \in {"backoff", "lockwait"} /\ attempt'[c] = attempt[c]
          /\ relogin'[c] = relogin[c]
    \/ pc[c] = "backoff" /\ pc'[c] = "ready" /\ attempt'[c] = attempt[c]
          /\ relogin'[c] = relogin[c]
    \/ pc[c] = "lockwait" /\ pc'[c] = "login" /\ attempt'[c] = attempt[c]
          /\ relogin'[c] = relogin[c]
    \/ pc[c] = "login" /\ pc'[c] = "ready" /\ ~relogin[c] /\ relogin'[c] /\ attempt'[c] = 0
    \/ pc[c] \notin {"idle", "done"} /\ pc'[c] = "done"

LEMMA EdgeOfStep ==
    ASSUME TInv, BudgetInv, [Next]_vars, NEW c \in Calls, pc'[c] # pc[c]
    PROVE  Edge(c)
<1> USE DEF TInv, TypeOK, BudgetInv, processVars, callVars, Finish, Edge
<1>1. ASSUME NEW d \in Calls, Start(d) \/ Send(d) \/ Wake(d) PROVE Edge(c)
  <2>1. CASE Start(d)
    BY <2>1 DEF Start
  <2>2. CASE Send(d)
    BY <2>2 DEF Send
  <2>3. CASE Wake(d)
    BY <2>3 DEF Wake
  <2> QED BY <1>1, <2>1, <2>2, <2>3
<1>2. ASSUME NEW d \in Calls,
             RequestOk(d) \/ RequestUnauthorized(d) \/ RequestRefused(d)
      PROVE Edge(c)
  BY <1>2 DEF RequestOk, RequestUnauthorized, RequestRefused, Answered
<1>3. ASSUME NEW d \in Calls, RequestTransient(d) \/ RequestLost(d) PROVE Edge(c)
  BY <1>3 DEF RequestTransient, RequestLost, RetryOrRaise, Answered
<1>4. ASSUME NEW d \in Calls, AcquireLock(d) PROVE Edge(c)
  BY <1>4 DEF AcquireLock
<1>5. ASSUME NEW d \in Calls, LoginOk(d) PROVE Edge(c)
  <2>1. /\ pc[d] = "login" /\ pc' = [pc EXCEPT ![d] = "ready"] /\ ~relogin[d]
        /\ attempt' = [attempt EXCEPT ![d] = 0]
        /\ relogin' = [relogin EXCEPT ![d] = TRUE]
    BY <1>5 DEF LoginOk, LoginAnswered
  <2>2. c = d
    BY <2>1
  <2>3. relogin'[c]
    BY <2>1, <2>2, Zenon
  <2> QED BY <2>1, <2>2, <2>3
<1>6. ASSUME NEW d \in Calls, LoginRefused(d) \/ LoginBroken(d) \/ Cancel(d)
      PROVE Edge(c)
  BY <1>6 DEF LoginRefused, LoginBroken, Cancel, LoginAnswered
<1>7. ~Shutdown
  BY DEF Shutdown
<1>8. ~ControllerStep
  BY DEF ControllerStep, ControllerAccepts, ControllerRejects, ControllerFails,
         GatewayGivesUp, ControllerGrants, ControllerDeniesLogin, Expire
<1>9. ~UNCHANGED vars
  BY DEF vars
<1> QED
  BY <1>1, <1>2, <1>3, <1>4, <1>5, <1>6, <1>7, <1>8, <1>9 DEF Next, ClientStep

\* Each edge leads down, over both loops of the call.
LEMMA EdgesLeadDown ==
    ASSUME TInv, BudgetInv, TypeOK', AttemptBelow', NEW c \in Calls, Edge(c)
    PROVE  StepsLeft(c)' < StepsLeft(c)
<1>1. /\ MaxAttempts \in Nat \ {0}
      /\ attempt[c] \in 0..MaxAttempts /\ attempt'[c] \in 0..MaxAttempts
      /\ pc[c] \in PcValues /\ pc'[c] \in PcValues
      /\ pc[c] \in {"idle", "ready", "backoff"} => attempt[c] < MaxAttempts
      /\ pc'[c] \in {"ready", "backoff"} => attempt'[c] < MaxAttempts
      /\ pc[c] \in {"idle", "lockwait", "login"} => ~relogin[c]
  BY AttemptsAssumption DEF TInv, TypeOK, AttemptBelow, BudgetInv
<1>2. CASE pc[c] = "idle"
  BY <1>1, <1>2 DEF Edge, StepsLeft, PcValues
<1>3. CASE pc[c] = "ready"
  BY <1>1, <1>3 DEF Edge, StepsLeft, PcValues
<1>4. CASE pc[c] = "await"
  BY <1>1, <1>4 DEF Edge, StepsLeft, PcValues
<1>5. CASE pc[c] = "backoff"
  BY <1>1, <1>5 DEF Edge, StepsLeft, PcValues
<1>6. CASE pc[c] = "lockwait"
  BY <1>1, <1>6 DEF Edge, StepsLeft, PcValues
<1>7. CASE pc[c] = "login"
  <2>1. StepsLeft(c) = 3 * (MaxAttempts - attempt[c]) + 3 * MaxAttempts
    BY <1>1, <1>7 DEF StepsLeft
  <2>2. CASE pc'[c] = "ready" /\ relogin'[c] /\ attempt'[c] = 0
    <3>1. StepsLeft(c)' = 3 * MaxAttempts - 1
      BY <1>1, <2>2 DEF StepsLeft
    <3> QED BY <1>1, <2>1, <3>1
  <2>3. CASE pc'[c] = "done"
    <3>1. StepsLeft(c)' = 0
      BY <2>3 DEF StepsLeft
    <3> QED BY <1>1, <2>1, <3>1
  <2> QED BY <1>7, <2>2, <2>3 DEF Edge
<1>8. pc[c] # "done"
  BY DEF Edge
<1> QED BY <1>1, <1>2, <1>3, <1>4, <1>5, <1>6, <1>7, <1>8 DEF PcValues

\* Whatever the controller, the network and the other calls do, a call takes at most
\* 6 * MaxAttempts + 1 steps: every one of them, waits for the lock and the re-login
\* included, lowers what is left.
THEOREM Progress == Spec => EveryStepIsProgress
<1>1. TInv /\ BudgetInv /\ TInv' /\ [Next]_vars =>
        [\A c \in Calls : pc'[c] # pc[c] => StepsLeft(c)' < StepsLeft(c)]_vars
  BY EdgeOfStep, EdgesLeadDown DEF TInv
<1> QED BY <1>1, InvariantBudget, PTL DEF Spec, EveryStepIsProgress
=============================================================================
