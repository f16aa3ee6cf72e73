------------------------- MODULE ServiceModesProofs -------------------------
(***************************************************************************)
(* Theorems about ServiceModes for any number of concurrent calls, any     *)
(* services and namespaces, and any requests.                              *)
(***************************************************************************)
EXTENDS ServiceModes, FiniteSetTheorems, TLAPS

(***************************************************************************)
(* Type correctness.                                                       *)
(***************************************************************************)
LEMMA Budget ==
    /\ 0 \in Rounds /\ 1 \in Rounds
    /\ \A n \in Rounds : n < VerifyAttempts => n + 1 \in Rounds
    /\ \A n \in Rounds : ~(n >= VerifyAttempts) => n < VerifyAttempts
BY VerifyAssumption DEF Rounds

LEMMA InitType == Init => TypeOK
BY Budget DEF Init, TypeOK, CallTypes, OtherTypes, Outcomes, Client!Init

LEMMA RequestTypes ==
    ASSUME TypeOK, NEW c \in Calls
    PROVE  /\ ask[c] \in Requests
           /\ Batch(c) \in SUBSET Services
           /\ Asked(c) \subseteq Fields
           /\ \A f \in Asked(c) : ask[c].config[f] \in Values
BY RequestsAssumption DEF TypeOK, CallTypes, Batch, Asked

\* The two ways a step ends: the call is over, or it begins a read of its batch.
LEMMA FinishTypes ==
    ASSUME CallTypes, NEW c \in Calls, NEW r \in Outcomes, Finish(c, r), ask' = ask
    PROVE  CallTypes'
BY Budget DEF CallTypes, Finish, Goto

LEMMA ReadingTypes ==
    ASSUME TypeOK, NEW c \in Calls, NEW n \in Rounds, StartReading(c),
           pc' \in [Calls -> {"idle", "before", "patch", "verify", "done"}],
           tries' = tries \/ tries' = [tries EXCEPT ![c] = n],
           outcome' = outcome, ask' = ask
    PROVE  CallTypes'
BY RequestTypes DEF TypeOK, CallTypes, StartReading

LEMMA NextCallTypes == TypeOK /\ [Next]_vars => CallTypes'
<1> SUFFICES ASSUME TypeOK, [Next]_vars PROVE CallTypes'
  OBVIOUS
<1>0. CallTypes
  BY DEF TypeOK
<1> USE <1>0, Budget DEF CallTypes, Outcomes, callVars, Goto, Finish, StartReading
<1>1. ASSUME NEW c \in Calls, Start(c) PROVE CallTypes'
  <2>1. CASE \E r \in Outcomes : Finish(c, r)
    BY <1>1, <2>1, FinishTypes DEF Start
  <2>2. CASE StartReading(c) /\ UNCHANGED <<tries, outcome>> /\ Goto(c, "before")
    BY <1>1, <2>2, ReadingTypes DEF Start
  <2> QED BY <1>1, <2>1, <2>2 DEF Start
<1>2. ASSUME NEW c \in Calls, NEW s \in Services, Read(c, s) PROVE CallTypes'
  BY <1>2 DEF Read
<1>3. ASSUME NEW c \in Calls, ReadFails(c) PROVE CallTypes'
  BY <1>3 DEF ReadFails
<1>4. ASSUME NEW c \in Calls, Decide(c) PROVE CallTypes'
  <2>1. CASE \E r \in Outcomes : Finish(c, r)
    BY <1>4, <2>1, FinishTypes DEF Decide
  <2>2. CASE Goto(c, "patch") /\ UNCHANGED <<todo, agreed, missing, tries, outcome>>
    BY <1>4, <2>2 DEF Decide
  <2> QED BY <1>4, <2>1, <2>2 DEF Decide
<1>5. ASSUME NEW c \in Calls, PatchOk(c) PROVE CallTypes'
  BY <1>5, RequestTypes DEF PatchOk
<1>6. ASSUME NEW c \in Calls, PatchFails(c) PROVE CallTypes'
  BY <1>6 DEF PatchFails
<1>7. ASSUME NEW c \in Calls, Verify(c) PROVE CallTypes'
  <2>1. ~Exhausted(c) => NextTry(c) \in Rounds
    BY DEF Exhausted, NextTry
  <2>2. CASE \E r \in Outcomes : Finish(c, r)
    BY <1>7, <2>2, FinishTypes DEF Verify
  <2>3. CASE /\ ~Exhausted(c)
             /\ StartReading(c)
             /\ tries' = [tries EXCEPT ![c] = NextTry(c)]
             /\ UNCHANGED <<pc, outcome>>
    BY <1>7, <2>1, <2>3, ReadingTypes DEF Verify
  <2> QED BY <1>7, <2>2, <2>3 DEF Verify
<1>8. ASSUME NEW c \in Calls, Cancel(c) PROVE CallTypes'
  BY <1>8 DEF Cancel
<1>9. ASSUME UNCHANGED callVars PROVE CallTypes'
  BY <1>9
<1>10. CASE ControllerStep
  BY <1>9, <1>10 DEF ControllerStep, Accept, Apply, Discard, Vanish
<1>11. CASE UNCHANGED vars
  BY <1>9, <1>11 DEF vars
<1> QED
  BY <1>1, <1>2, <1>3, <1>4, <1>5, <1>6, <1>7, <1>8, <1>10, <1>11 DEF Next, CallStep

LEMMA NextOtherTypes == TypeOK /\ [Next]_vars => OtherTypes'
<1> SUFFICES ASSUME TypeOK, [Next]_vars PROVE OtherTypes'
  OBVIOUS
<1>0. OtherTypes
  BY DEF TypeOK
<1> USE <1>0 DEF OtherTypes, clientVars, controllerVars
<1>1. ASSUME NEW c \in Calls,
             Start(c) \/ (\E s \in Services : Read(c, s)) \/ ReadFails(c) \/ Verify(c)
      PROVE OtherTypes'
  BY <1>1 DEF Start, Read, ReadFails, Verify
<1>2. ASSUME NEW c \in Calls, Decide(c) PROVE OtherTypes'
  BY <1>2 DEF Decide, Client!Begin
<1>3. ASSUME NEW c \in Calls, PatchOk(c) PROVE OtherTypes'
  BY <1>3, RequestTypes DEF PatchOk, Client!Succeed, Holding
<1>4. ASSUME NEW c \in Calls, PatchFails(c) \/ Cancel(c) PROVE OtherTypes'
  BY <1>4 DEF PatchFails, Cancel, Client!Fail
<1>5. ASSUME NEW c \in Calls, Accept(c) PROVE OtherTypes'
  BY <1>5, RequestTypes DEF Accept, Deliveries, Client!Execute
<1>6. ASSUME NEW c \in Calls, NEW s \in Services, Apply(c, s) PROVE OtherTypes'
  <2>1. Payload(c, config[s]) \in [Fields -> Values]
    BY RequestTypes DEF Payload
  <2> QED BY <1>6, <2>1 DEF Apply
<1>7. ASSUME NEW c \in Calls, NEW s \in Services, Discard(c, s) PROVE OtherTypes'
  BY <1>7 DEF Discard
<1>8. ASSUME NEW s \in Services, Vanish(s) PROVE OtherTypes'
  BY <1>8 DEF Vanish
<1>9. CASE UNCHANGED vars
  BY <1>9 DEF vars
<1> QED
  BY <1>1, <1>2, <1>3, <1>4, <1>5, <1>6, <1>7, <1>8, <1>9 DEF Next, CallStep, ControllerStep

LEMMA NextType == TypeOK /\ [Next]_vars => TypeOK'
BY NextCallTypes, NextOtherTypes DEF TypeOK

\* Every reachable state is well typed; in particular no call polls the services
\* more than VerifyAttempts times.
THEOREM TypeCorrect == Spec => []TypeOK
BY InitType, NextType, PTL DEF Spec

(***************************************************************************)
(* Where a change comes from.  A PATCH exists only for a call that passed  *)
(* the allowlist, and touches only the services of its batch.              *)
(***************************************************************************)
OriginInv ==
    /\ \A c \in Calls :
          /\ pc[c] \in {"before", "patch", "verify"} => ~Refused(ask[c])
          /\ status[c] # "idle" => ~Refused(ask[c])
          /\ executed[c] # {} => status[c] # "idle"
    /\ \A p \in pending : p[2] \in Batch(p[1]) /\ executed[p[1]] # {}

LEMMA NextOrigin == TypeOK /\ OriginInv /\ [Next]_vars => OriginInv'
<1> SUFFICES ASSUME TypeOK, OriginInv, [Next]_vars PROVE OriginInv'
  OBVIOUS
<1> USE DEF TypeOK, CallTypes, OtherTypes, OriginInv, callVars, clientVars, controllerVars, Goto, Finish, StartReading,
            Refused, Batch
<1>1. ASSUME NEW c \in Calls, Start(c) \/ (\E s \in Services : Read(c, s)) \/ ReadFails(c) \/ Verify(c)
      PROVE OriginInv'
  BY <1>1 DEF Start, Read, ReadFails, Verify
<1>2. ASSUME NEW c \in Calls, Decide(c) PROVE OriginInv'
  BY <1>2 DEF Decide, Client!Begin
<1>3. ASSUME NEW c \in Calls, PatchOk(c) \/ PatchFails(c) PROVE OriginInv'
  BY <1>3 DEF PatchOk, PatchFails, Client!Succeed, Client!Fail
<1>4. ASSUME NEW c \in Calls, Cancel(c) PROVE OriginInv'
  BY <1>4 DEF Cancel, Client!Fail
<1>5. ASSUME NEW c \in Calls, Accept(c) PROVE OriginInv'
  BY <1>5 DEF Accept, Client!Execute
<1>6. ASSUME NEW c \in Calls, NEW s \in Services, Apply(c, s) \/ Discard(c, s)
      PROVE OriginInv'
  BY <1>6 DEF Apply, Discard
<1>7. ASSUME NEW s \in Services, Vanish(s) PROVE OriginInv'
  BY <1>7 DEF Vanish
<1>8. CASE UNCHANGED vars
  BY <1>8 DEF vars
<1> QED
  BY <1>1, <1>2, <1>3, <1>4, <1>5, <1>6, <1>7, <1>8 DEF Next, CallStep, ControllerStep

LEMMA InvariantOrigin == Spec => [](TypeOK /\ OriginInv)
<1>1. Init => OriginInv
  BY DEF Init, OriginInv, Client!Init
<1> QED
  BY <1>1, InitType, NextType, NextOrigin, PTL DEF Spec

\* Only the application of an accepted PATCH changes a service's modes.
LEMMA OnlyApplyChanges ==
    ASSUME [Next]_vars, NEW s \in Services, config'[s] # config[s], TypeOK
    PROVE  \E c \in Calls : Apply(c, s)
<1>1. ASSUME NEW c \in Calls, CallStep(c) \/ Cancel(c) PROVE config' = config
  BY <1>1 DEF CallStep, Start, Read, ReadFails, Decide, PatchOk, PatchFails, Verify, Cancel,
              controllerVars
<1>2. ASSUME NEW c \in Calls, Accept(c) PROVE config' = config
  BY <1>2 DEF Accept
<1>3. ASSUME NEW c \in Calls, NEW t \in Services, Discard(c, t) PROVE config' = config
  BY <1>3 DEF Discard
<1>4. ASSUME NEW t \in Services, Vanish(t) PROVE config' = config
  BY <1>4 DEF Vanish
<1>5. ASSUME NEW c \in Calls, NEW t \in Services, Apply(c, t), t # s
      PROVE config'[s] = config[s]
  BY <1>5 DEF Apply, TypeOK, CallTypes, OtherTypes
<1>6. ASSUME UNCHANGED vars PROVE config' = config
  BY <1>6 DEF vars, controllerVars
<1> QED
  BY <1>1, <1>2, <1>3, <1>4, <1>5, <1>6 DEF Next, ControllerStep

\* With NV_ALLOWED_NAMESPACES set, nothing these tools do ever reaches a service
\* in another namespace, whatever batches are asked for.
THEOREM AllowListSafe == Spec => AllowListKept
<1>1. TypeOK /\ OriginInv /\ [Next]_vars
        => [allowed # {} =>
              \A s \in Services :
                 config'[s] # config[s] => NamespaceOf[s] \in allowed \cup {NoNamespace}]_vars
  <2> SUFFICES ASSUME TypeOK, OriginInv, [Next]_vars, allowed # {},
                      NEW s \in Services, config'[s] # config[s]
               PROVE  NamespaceOf[s] \in allowed \cup {NoNamespace}
    OBVIOUS
  <2>1. PICK c \in Calls : Apply(c, s)
    BY OnlyApplyChanges
  <2>2. s \in Batch(c) /\ ~Refused(ask[c])
    BY <2>1 DEF Apply, OriginInv
  <2>3. ask[c].tool \in Tools
    BY RequestsAssumption DEF TypeOK, CallTypes, OtherTypes
  <2>4. NamespaceOf[s] \in allowed \/ NamespaceOf[s] = NoNamespace
    BY <2>2, <2>3 DEF Refused, Batch
  <2> QED BY <2>4
<1> QED
  BY <1>1, InvariantOrigin, PTL DEF Spec, AllowListKept

(***************************************************************************)
(* What a read proves.  Once a call has seen a service as asked, only a    *)
(* contesting PATCH can make it differ again.                              *)
(***************************************************************************)
Lasts(c, s) == \A f \in Asked(c) : Contested(c, s, f) \/ config[s][f] = ask[c].config[f]

SeenInv ==
    \A c \in Calls :
       /\ \A s \in agreed[c] : Lasts(c, s)
       /\ outcome[c] \in {"applied", "no change"} => \A s \in Batch(c) : Lasts(c, s)

\* A step that neither changes the modes nor takes an execution back keeps what
\* lasts.
LEMMA LastsKept ==
    ASSUME NEW c \in Calls, NEW s \in Services, Lasts(c, s),
           ask' = ask, config'[s] = config[s],
           \A d \in Calls : executed[d] # {} => executed'[d] # {}
    PROVE  Lasts(c, s)'
BY DEF Lasts, Contested, Batch, Asked

\* So does an application: of a contesting PATCH, or of one that agrees.
LEMMA LastsApply ==
    ASSUME TypeOK, OriginInv, NEW c \in Calls, NEW s \in Services, Lasts(c, s),
           NEW d \in Calls, NEW t \in Services, Apply(d, t)
    PROVE  Lasts(c, s)'
<1>1. ask' = ask /\ executed' = executed
  BY DEF Apply, callVars, clientVars
<1>2. CASE s # t
  BY <1>1, <1>2, LastsKept DEF Apply, TypeOK, CallTypes, OtherTypes
<1>3. CASE s = t
  <2>1. config'[s] = Payload(d, config[s])
    BY <1>3 DEF Apply, TypeOK, CallTypes, OtherTypes
  <2>2. s \in Batch(d) /\ executed[d] # {}
    BY <1>3 DEF Apply, OriginInv
  <2>3. Asked(c) \subseteq Fields
    BY RequestTypes
  <2>4. ASSUME NEW f \in Asked(c)
        PROVE Contested(c, s, f)' \/ config'[s][f] = ask'[c].config[f]
    <3>1. Contested(c, s, f) => Contested(c, s, f)'
      BY <1>1 DEF Contested, Batch, Asked
    <3>2. CASE Contested(c, s, f)
      BY <3>1, <3>2
    <3>3. CASE f \notin Asked(d) /\ ~Contested(c, s, f)
      BY <1>1, <2>1, <2>3, <3>3 DEF Payload, Lasts
    <3>4. CASE f \in Asked(d) /\ ~Contested(c, s, f)
      <4>1. config'[s][f] = ask[d].config[f]
        BY <2>1, <2>3, <3>4 DEF Payload
      <4>2. ask[d].config[f] = ask[c].config[f]
        BY <2>2, <3>4 DEF Contested
      <4> QED BY <1>1, <4>1, <4>2
    <3> QED BY <3>2, <3>3, <3>4
  <2> QED BY <2>4, <1>1 DEF Lasts, Asked
<1> QED BY <1>2, <1>3

LEMMA NextSeen == TypeOK /\ OriginInv /\ SeenInv /\ [Next]_vars => SeenInv'
<1> SUFFICES ASSUME TypeOK, OriginInv, SeenInv, [Next]_vars PROVE SeenInv'
  OBVIOUS
<1>0. \A c \in Calls : agreed[c] \subseteq Services /\ Batch(c) \subseteq Services
  BY RequestTypes DEF TypeOK, CallTypes, OtherTypes
\* A step that reads nothing: what it leaves in `agreed` was there before, and a
\* success it reports rests on what the call agreed on.
<1>1. ASSUME ask' = ask, config' = config,
             \A d \in Calls : executed[d] # {} => executed'[d] # {},
             \A c \in Calls : agreed'[c] \subseteq agreed[c],
             \A c \in Calls : outcome'[c] \in {"applied", "no change"} =>
                                 outcome'[c] = outcome[c] \/ agreed[c] = Batch(c)
      PROVE SeenInv'
  <2>1. \A c \in Calls, s \in Services : Lasts(c, s) => Lasts(c, s)'
    BY <1>1, LastsKept
  <2>2. \A c \in Calls : Batch(c)' = Batch(c)
    BY <1>1 DEF Batch
  <2> QED BY <1>0, <1>1, <2>1, <2>2 DEF SeenInv
<1>2. ASSUME NEW c \in Calls,
             Start(c) \/ ReadFails(c) \/ Decide(c) \/ PatchOk(c) \/ PatchFails(c)
               \/ Verify(c) \/ Cancel(c)
      PROVE SeenInv'
  <2>1. ask' = ask /\ config' = config /\ executed' = executed
    BY <1>2 DEF Start, ReadFails, Decide, PatchOk, PatchFails, Verify, Cancel, clientVars,
                controllerVars, Client!Begin, Client!Succeed, Client!Fail
  <2>2. \A d \in Calls : agreed'[d] \subseteq agreed[d]
    BY <1>2 DEF Start, ReadFails, Decide, PatchOk, PatchFails, Verify, Cancel, Finish,
                StartReading, TypeOK, CallTypes, OtherTypes
  <2>3. \A d \in Calls : outcome'[d] \in {"applied", "no change"} =>
                            outcome'[d] = outcome[d] \/ agreed[d] = Batch(d)
    BY <1>2 DEF Start, ReadFails, Decide, PatchOk, PatchFails, Verify, Cancel, Finish, TypeOK, CallTypes, OtherTypes
  <2> QED BY <1>1, <2>1, <2>2, <2>3
<1>3. ASSUME NEW c \in Calls, NEW r \in Services, Read(c, r) PROVE SeenInv'
  <2>1. ask' = ask /\ config' = config /\ executed' = executed /\ outcome' = outcome
    BY <1>3 DEF Read, clientVars, controllerVars
  <2>2. \A d \in Calls, s \in Services : Lasts(d, s) => Lasts(d, s)'
    BY <2>1, LastsKept
  <2>3. \A d \in Calls : Batch(d)' = Batch(d)
    BY <2>1 DEF Batch
  <2>4. ASSUME NEW d \in Calls, NEW s \in agreed'[d] PROVE Lasts(d, s)'
    <3>1. s \in agreed[d] \/ (d = c /\ s \in Services /\ Matches(c, config[s]))
      BY <1>3, <2>4 DEF Read, TypeOK, CallTypes, OtherTypes
    <3>2. d = c /\ Matches(c, config[s]) => Lasts(d, s)
      BY DEF Matches, Lasts
    <3> QED BY <1>0, <2>2, <3>1, <3>2 DEF SeenInv
  <2> QED BY <1>0, <2>1, <2>2, <2>3, <2>4 DEF SeenInv
<1>4. ASSUME NEW c \in Calls, NEW s \in Services, Apply(c, s) PROVE SeenInv'
  <2>1. agreed' = agreed /\ outcome' = outcome /\ \A d \in Calls : Batch(d)' = Batch(d)
    BY <1>4 DEF Apply, callVars, Batch
  <2>2. \A d \in Calls, t \in Services : Lasts(d, t) => Lasts(d, t)'
    BY <1>4, LastsApply
  <2> QED BY <1>0, <2>1, <2>2 DEF SeenInv
<1>5. ASSUME NEW c \in Calls, Accept(c) PROVE SeenInv'
  BY <1>1, <1>5 DEF Accept, Client!Execute, callVars, TypeOK, CallTypes, OtherTypes
<1>6. ASSUME NEW c \in Calls, NEW s \in Services, Discard(c, s) PROVE SeenInv'
  BY <1>1, <1>6 DEF Discard, callVars, clientVars
<1>7. ASSUME NEW s \in Services, Vanish(s) PROVE SeenInv'
  BY <1>1, <1>7 DEF Vanish, callVars, clientVars
<1>8. CASE UNCHANGED vars
  BY <1>1, <1>8 DEF vars, callVars, clientVars, controllerVars
<1> QED
  BY <1>2, <1>3, <1>4, <1>5, <1>6, <1>7, <1>8 DEF Next, CallStep, ControllerStep

\* A success lasts: for any number of concurrent calls on any services and fields,
\* what a successful call asked for stays unless another call's PATCH contests it.
THEOREM SuccessIsLasting == Spec => []SuccessLasts
<1>1. Init => SeenInv
  BY DEF Init, SeenInv
<1>2. SeenInv => SuccessLasts
  BY DEF SeenInv, SuccessLasts, Lasts
<1> QED
  BY <1>1, <1>2, InvariantOrigin, NextSeen, PTL DEF Spec

(***************************************************************************)
(* "Applied" is evidence.                                                  *)
(***************************************************************************)

\* While a call verifies, every service of its batch that is as asked, or that this
\* round has found so, is recorded as held since the PATCH was acknowledged.
HeldOk(c) ==
    /\ held[c] \subseteq Batch(c) /\ todo[c] \subseteq Batch(c)
    /\ pc[c] # "done" => outcome[c] = "none"
    /\ pc[c] = "verify" => agreed[c] \subseteq held[c] /\ Holding(c) \subseteq held[c]
    /\ outcome[c] = "applied" => held[c] = Batch(c)
HeldInv == \A c \in Calls : HeldOk(c)

LEMMA InitHeld == Init => HeldInv
BY DEF Init, HeldInv, HeldOk

\* What HeldOk says of a call that a step leaves alone.
LEMMA HeldKept ==
    ASSUME NEW c \in Calls, HeldOk(c), ask' = ask, config' = config, held'[c] = held[c],
           todo'[c] = todo[c], pc'[c] = pc[c], outcome'[c] = outcome[c], agreed'[c] = agreed[c]
    PROVE  HeldOk(c)'
<1>1. Batch(c)' = Batch(c) /\ Holding(c)' = Holding(c)
  BY DEF Batch, Holding, Matches, Asked
<1> QED BY <1>1 DEF HeldOk

\* And of one that a step ends, other than by a success.
LEMMA HeldFinish ==
    ASSUME TypeOK, NEW c \in Calls, HeldOk(c), NEW r, r # "applied", Finish(c, r),
           ask' = ask, held' = held
    PROVE  HeldOk(c)'
BY DEF HeldOk, Finish, Goto, Batch, TypeOK, CallTypes

LEMMA NextHeld == TypeOK /\ HeldInv /\ [Next]_vars => HeldInv'
<1> SUFFICES ASSUME TypeOK, HeldInv, [Next]_vars, NEW d \in Calls PROVE HeldOk(d)'
  BY DEF HeldInv
<1>0. HeldOk(d)
  BY DEF HeldInv
<1> USE DEF callVars, clientVars, controllerVars
<1>1. ASSUME NEW c \in Calls, c # d, CallStep(c) \/ Cancel(c) PROVE HeldOk(d)'
  <2>1. ask' = ask /\ config' = config
    BY <1>1 DEF CallStep, Start, Read, ReadFails, Decide, PatchOk, PatchFails, Verify, Cancel
  <2>2. /\ held'[d] = held[d] /\ todo'[d] = todo[d] /\ pc'[d] = pc[d]
        /\ outcome'[d] = outcome[d] /\ agreed'[d] = agreed[d]
    BY <1>1 DEF CallStep, Start, Read, ReadFails, Decide, PatchOk, PatchFails, Verify, Cancel,
                Finish, StartReading, Goto, TypeOK, CallTypes, OtherTypes
  <2> QED BY <1>0, <2>1, <2>2, HeldKept
<1>2. ASSUME Start(d) PROVE HeldOk(d)'
  <2>1. CASE \E r \in {"ValidationError_", "GuardError"} : Finish(d, r)
    BY <1>0, <1>2, <2>1, HeldFinish DEF Start
  <2>2. CASE Goto(d, "before") /\ StartReading(d) /\ UNCHANGED <<tries, outcome>>
    BY <1>0, <1>2, <2>2 DEF Start, HeldOk, StartReading, Goto, Batch, TypeOK, CallTypes
  <2> QED BY <1>2, <2>1, <2>2 DEF Start
<1>3. ASSUME NEW s \in Services, Read(d, s) PROVE HeldOk(d)'
  <2>1. /\ Batch(d)' = Batch(d) /\ Holding(d)' = Holding(d) /\ held' = held /\ pc' = pc
        /\ outcome' = outcome /\ todo'[d] \subseteq todo[d] /\ s \in todo[d]
    BY <1>3 DEF Read, Batch, Holding, Matches, Asked, TypeOK, CallTypes
  <2>2. \A t \in agreed'[d] : t \in agreed[d] \/ (t \in Batch(d) /\ Matches(d, config[t]))
    BY <1>0, <1>3, <2>1 DEF Read, HeldOk, TypeOK, CallTypes
  <2> QED BY <1>0, <2>1, <2>2 DEF HeldOk, Holding
<1>4. ASSUME ReadFails(d) PROVE HeldOk(d)'
  BY <1>0, <1>4, HeldFinish DEF ReadFails
<1>5. ASSUME Decide(d) PROVE HeldOk(d)'
  <2>1. CASE \E r \in {"NotFoundError", "no change"} : Finish(d, r)
    BY <1>0, <1>5, <2>1, HeldFinish DEF Decide
  <2>2. CASE Goto(d, "patch") /\ UNCHANGED <<todo, agreed, missing, tries, outcome>>
    BY <1>0, <1>5, <2>2 DEF Decide, HeldOk, Goto, Batch, TypeOK, CallTypes
  <2> QED BY <1>5, <2>1, <2>2 DEF Decide
<1>6. ASSUME PatchOk(d) PROVE HeldOk(d)'
  <2>1. Batch(d)' = Batch(d) /\ Holding(d)' = Holding(d) /\ Holding(d) \subseteq Batch(d)
    BY <1>6 DEF PatchOk, Batch, Holding, Matches, Asked
  <2>2. /\ held'[d] = Holding(d) /\ todo'[d] = Batch(d) /\ agreed'[d] = {}
        /\ pc[d] = "patch" /\ outcome'[d] = outcome[d]
    BY <1>6 DEF PatchOk, StartReading, TypeOK, CallTypes, OtherTypes
  <2> QED BY <1>0, <2>1, <2>2 DEF HeldOk
<1>7. ASSUME PatchFails(d) PROVE HeldOk(d)'
  BY <1>0, <1>7, HeldFinish DEF PatchFails
<1>8. ASSUME Verify(d) PROVE HeldOk(d)'
  <2>1. CASE Finish(d, "drift")
    BY <1>0, <1>8, <2>1, HeldFinish DEF Verify
  <2>2. CASE agreed[d] = Batch(d) /\ Finish(d, "applied")
    BY <1>0, <1>8, <2>2 DEF Verify, HeldOk, Finish, Goto, Batch, TypeOK, CallTypes
  <2>3. CASE StartReading(d) /\ UNCHANGED <<pc, outcome>>
    <3>1. Batch(d)' = Batch(d) /\ Holding(d)' = Holding(d) /\ held' = held
      BY <1>8 DEF Verify, Batch, Holding, Matches, Asked
    <3> QED
      BY <1>0, <2>3, <3>1 DEF HeldOk, StartReading, TypeOK, CallTypes
  <2> QED BY <1>8, <2>1, <2>2, <2>3 DEF Verify
<1>9. ASSUME Cancel(d) PROVE HeldOk(d)'
  BY <1>0, <1>9, HeldFinish DEF Cancel
<1>10. ASSUME NEW c \in Calls, NEW s \in Services, Apply(c, s) PROVE HeldOk(d)'
  <2>1. /\ UNCHANGED <<ask, todo, pc, outcome, agreed>> /\ Batch(d)' = Batch(d)
        /\ config' = [config EXCEPT ![s] = Payload(c, @)]
    BY <1>10 DEF Apply, Batch
  <2>2. held'[d] = IF s \in Batch(d) /\ Matches(d, Payload(c, config[s]))
                   THEN held[d] \cup {s} ELSE held[d]
    BY <1>10 DEF Apply
  <2>3. Holding(d)' \subseteq Holding(d) \cup
                       {t \in Batch(d) : t = s /\ Matches(d, Payload(c, config[s]))}
    BY <2>1, RequestTypes DEF Holding, Matches, Asked, Batch, TypeOK, OtherTypes
  <2> QED BY <1>0, <2>1, <2>2, <2>3 DEF HeldOk
<1>11. ASSUME \/ \E c \in Calls : Accept(c) \/ \E s \in Services : Discard(c, s)
              \/ \E s \in Services : Vanish(s)
       PROVE  HeldOk(d)'
  <2>1. UNCHANGED <<callVars, config, held>>
    BY <1>11 DEF Accept, Discard, Vanish
  <2> QED BY <1>0, <2>1, HeldKept
<1>12. CASE UNCHANGED vars
  BY <1>0, <1>12, HeldKept DEF vars
<1> QED
  BY <1>1, <1>2, <1>3, <1>4, <1>5, <1>6, <1>7, <1>8, <1>9, <1>10, <1>11, <1>12
     DEF Next, CallStep, ControllerStep

\* "Applied" is evidence: each service of the batch was as asked, in every field, at
\* some moment after the PATCH was acknowledged, whatever else changed it.
THEOREM AppliedIsEvidence == Spec => []AppliedWasSeen
<1>1. HeldInv => AppliedWasSeen
  BY DEF HeldInv, HeldOk, AppliedWasSeen
<1> QED
  BY <1>1, InitType, NextType, InitHeld, NextHeld, PTL DEF Spec

(***************************************************************************)
(* Why a call ends: the part of it that needs no fairness.                 *)
(***************************************************************************)

LEMMA Products ==
    ASSUME NEW v \in Nat, NEW t \in Nat, t <= v, NEW r \in Nat
    PROVE  /\ v * r \in Nat /\ (v - t) * r \in Nat
           /\ (v - t) * r = (v - (t + 1)) * r + r
           /\ v * r = (v - 1) * r + r
<1>1. \A x, y \in Nat : x * y \in Nat
  OBVIOUS
<1>2. \A x \in Int : x * r = (x - 1) * r + r
  OBVIOUS
<1>3. v - t \in Nat /\ v - t \in Int /\ v \in Int /\ (v - t) - 1 = v - (t + 1)
  OBVIOUS
<1>4. (v - t) * r = ((v - t) - 1) * r + r
  BY <1>2, <1>3
<1> QED BY <1>1, <1>2, <1>3, <1>4

LEMMA Counts ==
    ASSUME TypeOK, NEW c \in Calls
    PROVE  /\ Cardinality(Batch(c)) \in Nat /\ Round(c) \in Nat
           /\ Round(c) = Cardinality(Batch(c)) + 1
           /\ IsFiniteSet(todo[c]) /\ Cardinality(todo[c]) \in Nat
           /\ todo[c] = {} => Cardinality(todo[c]) = 0
           /\ tries[c] \in Nat /\ tries[c] <= VerifyAttempts /\ VerifyAttempts \in Nat
<1>1. Batch(c) \in SUBSET Services /\ todo[c] \in SUBSET Services
  BY RequestTypes DEF TypeOK, CallTypes
<1>2. IsFiniteSet(Batch(c)) /\ IsFiniteSet(todo[c])
  BY <1>1, ServicesAssumption, FS_Subset
<1>3. Cardinality(Batch(c)) \in Nat /\ Cardinality(todo[c]) \in Nat
  BY <1>2, FS_CardinalityType
<1>4. todo[c] = {} => Cardinality(todo[c]) = 0
  BY FS_EmptySet
<1>5. tries[c] \in Nat /\ tries[c] <= VerifyAttempts /\ VerifyAttempts \in Nat
  BY VerifyAssumption DEF TypeOK, CallTypes, Rounds
<1> QED BY <1>2, <1>3, <1>4, <1>5 DEF Round

\* The measure, stage by stage.
LEMMA Left ==
    ASSUME NEW c \in Calls
    PROVE  /\ pc[c] = "idle" => StepsLeft(c) = VerifyAttempts * Round(c) + Round(c) + 2
           /\ pc[c] = "before" =>
                 StepsLeft(c) = VerifyAttempts * Round(c) + Cardinality(todo[c]) + 2
           /\ pc[c] = "patch" => StepsLeft(c) = VerifyAttempts * Round(c) + 1
           /\ pc[c] = "verify" =>
                 StepsLeft(c) = (VerifyAttempts - tries[c]) * Round(c) + Cardinality(todo[c]) + 1
           /\ pc[c] = "done" => StepsLeft(c) = 0
BY DEF StepsLeft

LEMMA SomeLeft ==
    ASSUME TypeOK, NEW c \in Calls, pc[c] # "done"
    PROVE  StepsLeft(c) \in Nat /\ StepsLeft(c) > 0
<1>1. pc[c] \in {"idle", "before", "patch", "verify"}
  BY DEF TypeOK, CallTypes
<1>2. VerifyAttempts * Round(c) \in Nat /\ (VerifyAttempts - tries[c]) * Round(c) \in Nat
  BY Counts, Products
<1> QED BY <1>1, <1>2, Counts, Left

\* Whatever ends a call leaves it no step.
LEMMA FinishLeaves ==
    ASSUME TypeOK, NEW c \in Calls, pc[c] # "done", pc'[c] = "done"
    PROVE  StepsLeft(c)' < StepsLeft(c)
<1>1. StepsLeft(c)' = 0
  BY DEF StepsLeft
<1> QED BY <1>1, SomeLeft

\* A read takes one service off the list.
LEMMA ReadLeaves ==
    ASSUME TypeOK, NEW c \in Calls, NEW s \in Services, Read(c, s)
    PROVE  StepsLeft(c)' < StepsLeft(c)
<1>1. /\ pc' = pc /\ tries' = tries /\ Round(c)' = Round(c) /\ s \in todo[c]
      /\ todo'[c] = todo[c] \ {s} /\ pc[c] \in {"before", "verify"}
  BY DEF Read, Reading, Round, Batch, TypeOK, CallTypes
<1>2. Cardinality(todo'[c]) = Cardinality(todo[c]) - 1
  BY <1>1, Counts, FS_RemoveElement
<1>3. VerifyAttempts * Round(c) \in Nat /\ (VerifyAttempts - tries[c]) * Round(c) \in Nat
  BY Counts, Products
<1>4. CASE pc[c] = "before"
  <2>1. StepsLeft(c)' = VerifyAttempts * Round(c) + Cardinality(todo'[c]) + 2
    BY <1>1, <1>4 DEF StepsLeft
  <2> QED BY <1>2, <1>3, <1>4, <2>1, Counts, Left
<1>5. CASE pc[c] = "verify"
  <2>1. StepsLeft(c)' = (VerifyAttempts - tries[c]) * Round(c) + Cardinality(todo'[c]) + 1
    BY <1>1, <1>5 DEF StepsLeft
  <2> QED BY <1>2, <1>3, <1>5, <2>1, Counts, Left
<1> QED BY <1>1, <1>4, <1>5

\* The end of the first read, the PATCH and a round of verification.
LEMMA StageLeaves ==
    ASSUME TypeOK, NEW c \in Calls, Start(c) \/ Decide(c) \/ PatchOk(c) \/ Verify(c),
           pc'[c] # "done"
    PROVE  StepsLeft(c)' < StepsLeft(c)
<1>1. Round(c)' = Round(c) /\ Batch(c)' = Batch(c)
  BY DEF Start, Decide, PatchOk, Verify, Round, Batch
<1>2. VerifyAttempts * Round(c) \in Nat /\ (VerifyAttempts - tries[c]) * Round(c) \in Nat
  BY Counts, Products
<1>3. CASE Start(c)
  <2>1. pc[c] = "idle" /\ pc'[c] = "before" /\ todo'[c] = Batch(c)
    BY <1>3 DEF Start, StartReading, Goto, Finish, TypeOK, CallTypes
  <2>2. StepsLeft(c)' = VerifyAttempts * Round(c) + Cardinality(Batch(c)) + 2
    BY <1>1, <2>1 DEF StepsLeft
  <2> QED BY <1>2, <2>1, <2>2, Counts, Left
<1>4. CASE Decide(c)
  <2>1. pc[c] = "before" /\ pc'[c] = "patch"
    BY <1>4 DEF Decide, Goto, Finish, TypeOK, CallTypes
  <2>2. StepsLeft(c)' = VerifyAttempts * Round(c) + 1
    BY <1>1, <2>1 DEF StepsLeft
  <2> QED BY <1>2, <2>1, <2>2, Counts, Left
<1>5. CASE PatchOk(c)
  <2>1. pc[c] = "patch" /\ pc'[c] = "verify" /\ todo'[c] = Batch(c) /\ tries'[c] = 1
    BY <1>5 DEF PatchOk, StartReading, Goto, TypeOK, CallTypes
  <2>2. StepsLeft(c)' = (VerifyAttempts - 1) * Round(c) + Cardinality(Batch(c)) + 1
    BY <1>1, <2>1 DEF StepsLeft
  <2>3. VerifyAttempts * Round(c) = (VerifyAttempts - 1) * Round(c) + Round(c)
    BY Counts, Products
  <2>4. (VerifyAttempts - 1) * Round(c) \in Int
    BY Counts
  <2> QED BY <1>2, <2>1, <2>2, <2>3, <2>4, Counts, Left
<1>6. CASE Verify(c)
  <2>1. /\ pc[c] = "verify" /\ pc'[c] = "verify" /\ todo[c] = {} /\ todo'[c] = Batch(c)
        /\ tries'[c] = tries[c] + 1
    BY <1>6 DEF Verify, HasRead, NextTry, StartReading, Goto, Finish, TypeOK, CallTypes
  <2>2. StepsLeft(c)' =
           (VerifyAttempts - (tries[c] + 1)) * Round(c) + Cardinality(Batch(c)) + 1
    BY <1>1, <2>1 DEF StepsLeft
  <2>3. (VerifyAttempts - tries[c]) * Round(c)
           = (VerifyAttempts - (tries[c] + 1)) * Round(c) + Round(c)
    BY Counts, Products
  <2>4. (VerifyAttempts - (tries[c] + 1)) * Round(c) \in Int
    BY Counts
  <2> QED BY <1>2, <2>1, <2>2, <2>3, <2>4, Counts, Left
<1> QED BY <1>3, <1>4, <1>5, <1>6

\* No step takes a call back, for any number of calls, services and rounds, and whatever
\* the controller does: EveryCallEnds needs of the scheduler only that each call goes on.
THEOREM CallsEnd == Spec => CallsRunDown
<1>1. ASSUME TypeOK, [Next]_vars, NEW c \in Calls,
             <<pc[c], todo[c], tries[c]>>' # <<pc[c], todo[c], tries[c]>>
      PROVE  StepsLeft(c)' < StepsLeft(c)
  <2>1. CallStep(c) \/ Cancel(c)
    <3>1. ASSUME NEW d \in Calls, d # c, CallStep(d) \/ Cancel(d) PROVE FALSE
      BY <1>1, <3>1 DEF CallStep, Start, Read, ReadFails, Decide, PatchOk, PatchFails, Verify,
            Cancel, Finish, StartReading, Goto, TypeOK, CallTypes
    <3>2. ~ControllerStep /\ ~UNCHANGED vars
      BY <1>1 DEF ControllerStep, Accept, Apply, Discard, Vanish, vars, callVars
    <3> QED BY <1>1, <3>1, <3>2 DEF Next
  <2>2. CASE \E s \in Services : Read(c, s)
    BY <1>1, <2>2, ReadLeaves
  <2>3. CASE Start(c) \/ Decide(c) \/ PatchOk(c) \/ Verify(c)
    <3>1. pc[c] # "done"
      BY <2>3 DEF Start, Decide, PatchOk, Verify
    <3> QED BY <1>1, <2>3, <3>1, FinishLeaves, StageLeaves
  <2>4. CASE ReadFails(c) \/ PatchFails(c) \/ Cancel(c)
    <3>1. pc[c] # "done" /\ pc'[c] = "done"
      BY <1>1, <2>4 DEF ReadFails, PatchFails, Cancel, Reading, Finish, Goto, TypeOK, CallTypes
    <3> QED BY <1>1, <3>1, FinishLeaves
  <2> QED BY <2>1, <2>2, <2>3, <2>4 DEF CallStep
<1>2. TypeOK /\ [Next]_vars =>
         [\A c \in Calls : <<pc[c], todo[c], tries[c]>>' # <<pc[c], todo[c], tries[c]>> =>
             StepsLeft(c)' < StepsLeft(c)]_vars
  BY <1>1
<1> QED BY <1>2, TypeCorrect, PTL DEF Spec, CallsRunDown
=============================================================================
