--------------------------- MODULE ListEditsProofs ---------------------------
(***************************************************************************)
(* Theorems about ListEdits for any finite list, any callers, any queries  *)
(* and any edits.                                                          *)
(***************************************************************************)
EXTENDS ListEdits, FiniteSetTheorems, TLAPS

(***************************************************************************)
(* Positions in a list.                                                    *)
(***************************************************************************)

\* What comes before an item, whose number is its position.
Before(S, i) == {j \in S : j < i}

\* A set of numbers that is not empty has a least one.
LEMMA Least ==
    ASSUME NEW T \in SUBSET Nat, T # {}
    PROVE  \E m \in T : \A k \in T : m <= k
<1> DEFINE R == {p \in Nat \X Nat : p[1] < p[2]}
<1>1. IsWellFoundedOn(R, Nat)
  BY NatLessThanWellFounded DEF OpToRel
<1> HIDE DEF R
<1>2. PICK m \in T : \A k \in T : ~(<<k, m>> \in R)
  BY <1>1, WFMin
<1>3. \A k \in T : ~(k < m)
  BY <1>2 DEF R
<1> QED BY <1>3

LEMMA RankType ==
    ASSUME NEW S \in SUBSET Items, NEW i \in Items
    PROVE  /\ IsFiniteSet(S) /\ IsFiniteSet(Before(S, i))
           /\ Rank(S, i) = Cardinality(Before(S, i))
           /\ Rank(S, i) \in Nat
<1>1. IsFiniteSet(S) /\ IsFiniteSet(Before(S, i))
  BY ItemsAssumption, FS_Subset DEF Before
<1> QED BY <1>1, FS_CardinalityType DEF Rank, Before

\* A later item of the same list has a greater position.
LEMMA RankGrows ==
    ASSUME NEW S \in SUBSET Items, NEW i \in S, NEW j \in Items, i < j
    PROVE  Rank(S, i) < Rank(S, j)
<1>1. Before(S, i) \in SUBSET Before(S, j) /\ i \in Before(S, j) /\ i \notin Before(S, i)
  <2>1. \A k \in S \cup {i, j} : k \in Nat
    BY ItemsAssumption
  <2> QED BY <2>1 DEF Before
<1>2. Cardinality(Before(S, i)) <= Cardinality(Before(S, j))
  BY <1>1, RankType, FS_Subset
<1>3. Cardinality(Before(S, i)) # Cardinality(Before(S, j))
  BY <1>1, RankType, FS_Subset
<1> QED BY <1>2, <1>3, RankType

\* No two items are at one position.
LEMMA RankInjective ==
    ASSUME NEW S \in SUBSET Items, NEW i \in S, NEW j \in S, Rank(S, i) = Rank(S, j)
    PROVE  i = j
BY RankGrows, RankType, ItemsAssumption

\* A window is no longer than asked for.
LEMMA WindowBound ==
    ASSUME NEW S \in SUBSET Items, NEW a \in Nat, NEW n \in Nat
    PROVE  /\ Window(S, a, n) \subseteq S
           /\ Cardinality(Window(S, a, n)) \in Nat
           /\ Cardinality(Window(S, a, n)) <= n
<1> DEFINE W == Window(S, a, n)
           f == [i \in W |-> Rank(S, i)]
<1>1. W \subseteq S
  BY DEF Window
<1>2. f \in Injection(W, a..(a + n - 1))
  BY <1>1, RankInjective DEF Window, Injection, IsInjective
<1>3. IsFiniteSet(a..(a + n - 1)) /\ Cardinality(a..(a + n - 1)) = n
  BY FS_Interval
<1>4. IsFiniteSet(W) /\ Cardinality(W) <= n
  BY <1>2, <1>3, FS_Injection
<1> QED BY <1>1, <1>4, FS_CardinalityType

\* Positions have no holes: a list that goes on past n has an item at n.
LEMMA NoHoles ==
    ASSUME NEW S \in SUBSET Items, NEW n \in Nat, NEW i \in S, Rank(S, i) >= n
    PROVE  \E j \in S : Rank(S, j) = n
<1>0. IsFiniteSet(0..(n - 1)) /\ Cardinality(0..(n - 1)) = n
  <2>1. 0 \in Int /\ n - 1 \in Int /\ (0 > n - 1 <=> n = 0)
    OBVIOUS
  <2> QED BY <2>1, FS_Interval
<1> DEFINE T == {j \in S : Rank(S, j) >= n}
<1>1. PICK m \in T : \A k \in T : m <= k
  <2>1. T \in SUBSET Nat /\ T # {}
    BY ItemsAssumption
  <2> QED BY <2>1, Least
<1> DEFINE B == Before(S, m)
           f == [k \in B |-> Rank(S, k)]
<1>2. \A k \in B : k \in S /\ Rank(S, k) \in 0..(n - 1)
  <2> SUFFICES ASSUME NEW k \in B PROVE k \in S /\ Rank(S, k) \in 0..(n - 1)
    OBVIOUS
  <2>1. k \in S /\ k < m /\ m \in Nat /\ k \in Nat
    BY ItemsAssumption DEF Before
  <2>2. k \notin T
    <3> HIDE DEF T
    <3> QED BY <1>1, <2>1
  <2> QED BY <2>1, <2>2, RankType
<1>3. f \in Injection(B, 0..(n - 1))
  BY <1>2, RankInjective DEF Injection, IsInjective
<1>4. Cardinality(B) <= n
  <2> HIDE DEF f, B
  <2> QED BY <1>0, <1>3, FS_Injection
<1>5. Rank(S, m) = n
  BY <1>1, <1>4, RankType
<1> QED BY <1>1, <1>5

\* A window has no holes either: its items are the next ones.
LEMMA WindowDense ==
    ASSUME NEW S \in SUBSET Items, NEW a \in Nat, NEW n \in Nat, NEW i \in Window(S, a, n)
    PROVE  Rank(S, i) < a + Cardinality(Window(S, a, n))
<1> DEFINE W == Window(S, a, n)
           r == Rank(S, i)
           g == [k \in a..r |-> CHOOSE j \in S : Rank(S, j) = k]
<1>1. i \in S /\ r \in a..(a + n - 1) /\ r \in Nat
  BY RankType DEF Window
<1>2. \A k \in a..r : g[k] \in S /\ Rank(S, g[k]) = k
  BY <1>1, NoHoles
<1>3. \A k \in a..r : g[k] \in W
  BY <1>1, <1>2 DEF Window
<1>4. g \in Injection(a..r, W)
  <2>1. g \in [a..r -> W]
    BY <1>3
  <2>2. \A k, l \in a..r : g[k] = g[l] => k = l
    BY <1>2
  <2> HIDE DEF g
  <2> QED BY <2>1, <2>2 DEF Injection, IsInjective
<1>5. Cardinality(a..r) = r - a + 1
  BY <1>1, FS_Interval
<1>6. IsFiniteSet(W) /\ Cardinality(W) \in Nat
  <2>1. W \in SUBSET S
    BY WindowBound
  <2> QED BY <2>1, RankType, FS_Subset, FS_CardinalityType
<1>7. Cardinality(a..r) <= Cardinality(W)
  <2> HIDE DEF g, W
  <2> QED BY <1>4, <1>6, FS_Injection
<1> QED BY <1>1, <1>5, <1>6, <1>7

\* A list that changes only from position a on keeps the first a positions: what was
\* among them is still before a.
LEMMA FrontStays ==
    ASSUME NEW S \in SUBSET Items, NEW T \in SUBSET Items, NEW a \in Nat, NEW i \in Items,
           \A j \in T \ S : Rank(T, j) >= a, Rank(S, i) < a
    PROVE  Rank(T, i) < a
<1> DEFINE New == {j \in T \ S : j < i}
<1>1. CASE New = {}
  <2>1. Before(T, i) \in SUBSET Before(S, i)
    BY <1>1 DEF Before
  <2>2. Cardinality(Before(T, i)) <= Cardinality(Before(S, i))
    BY <2>1, RankType, FS_Subset
  <2> QED BY <2>2, RankType
<1>2. CASE New # {}
  <2>1. New \in SUBSET Nat
    BY ItemsAssumption
  <2>2. PICK m \in New : \A k \in New : m <= k
    BY <1>2, <2>1, Least
  <2>3. Before(T, m) \in SUBSET Before(S, i)
    <3> SUFFICES ASSUME NEW k \in T, k < m PROVE k \in S /\ k < i
      BY DEF Before
    <3>1. k \in Nat /\ m \in Nat /\ i \in Nat /\ m < i
      BY ItemsAssumption
    <3>2. k \notin New
      <4> HIDE DEF New
      <4> QED BY <2>2, <3>1
    <3> QED BY <3>1, <3>2
  <2>4. m \in Items /\ m \in T \ S
    OBVIOUS
  <2>5. Cardinality(Before(T, m)) <= Cardinality(Before(S, i))
    BY <2>3, RankType, FS_Subset
  <2>6. Rank(T, m) <= Rank(S, i)
    BY <2>4, <2>5, RankType
  <2> QED BY <2>4, <2>6, RankType
<1> QED BY <1>1, <1>2

(***************************************************************************)
(* Type correctness.                                                       *)
(***************************************************************************)

LEMMA JobTypes ==
    ASSUME NEW c \in Calls, job \in [Calls -> {j \in Jobs : j.query.newest_first = log}]
    PROVE  /\ query(c).start \in Nat /\ query(c).limit \in Nat
           /\ query(c).newest_first = log
           /\ query(c).newest_first => job[c].edit = "look"
           /\ job[c].edit = "look" => job[c].reads
           /\ job[c].edit \in {"look", "replace", "change", "insert"}
           /\ job[c].plus \subseteq Items
           /\ job[c].edit = "insert" => job[c].plus \cap job[c].minus = {}
BY JobsAssumption DEF query, Queries

LEMMA PageTypes ==
    ASSUME NEW q, NEW S \in SUBSET Items
    PROVE  /\ Found(q, S) \in SUBSET S /\ Found(q, S) \in SUBSET Items
           /\ \A a : page_items(q, S, a) \subseteq Found(q, S)
           /\ \A a : kept(q, S, a) \subseteq page_items(q, S, a)
BY DEF Found, Passing, page_items, kept, Window

\* The next page starts no further on than a page has room for.
LEMMA NextStartType ==
    ASSUME NEW q, NEW S \in SUBSET Items, NEW a \in Nat, q.limit \in Nat
    PROVE  /\ next_start(q, S, a) \in Nat
           /\ next_start(q, S, a) >= a /\ next_start(q, S, a) <= a + q.limit
<1>1. Cardinality(page_items(q, S, a)) \in Nat /\ Cardinality(page_items(q, S, a)) <= q.limit
  BY PageTypes, WindowBound DEF page_items
<1> QED BY <1>1 DEF next_start

LEMMA InitType == Init => TypeOK
<1> SUFFICES ASSUME Init PROVE TypeOK
  OBVIOUS
<1>1. /\ stored \subseteq Items /\ log \in BOOLEAN /\ sorted \in BOOLEAN
      /\ job \in [Calls -> {j \in Jobs : j.query.newest_first = log}]
  BY DEF Init
<1>2. pc \in [Calls -> Stages] /\ at \in [Calls -> Nat]
  BY DEF Init, Stages
<1>3. shown \in [Calls -> SUBSET Items] /\ stayed \in [Calls -> SUBSET Items]
  BY DEF Init
<1>4. /\ more \in [Calls -> BOOLEAN] /\ shrunk \in [Calls -> BOOLEAN]
      /\ grown \in [Calls -> BOOLEAN] /\ repeated \in [Calls -> BOOLEAN]
  BY DEF Init
<1>5. /\ status \in [Calls -> {"idle", "running", "ok", "failed"}]
      /\ executed \in [Calls -> SUBSET (1..MaxSends)]
  BY DEF Init, Client!Init
<1> QED BY <1>1, <1>2, <1>3, <1>4, <1>5 DEF TypeOK

\* What a change of the list changes, and what it leaves alone.
LEMMA BecomesTypes ==
    ASSUME TypeOK, NEW S \in SUBSET Items, Becomes(S)
    PROVE  /\ stored' \subseteq Items
           /\ stayed' \in [Calls -> SUBSET Items]
           /\ shrunk' \in [Calls -> BOOLEAN]
           /\ grown' \in [Calls -> BOOLEAN]
<1>1. stored' = S /\ stayed' \in [Calls -> SUBSET Items]
  BY DEF Becomes, TypeOK
<1>2. shrunk' \in [Calls -> BOOLEAN] /\ grown' \in [Calls -> BOOLEAN]
  BY Zenon DEF Becomes
<1> QED BY <1>1, <1>2

LEMMA WrittenType ==
    ASSUME TypeOK, NEW c \in Calls
    PROVE  \A S \in Written(c, stored) : S \in SUBSET Items
<1>1. shown[c] \subseteq Items /\ stored \subseteq Items /\ job[c].plus \subseteq Items
  BY JobTypes DEF TypeOK
<1> QED BY <1>1 DEF Written, payload

LEMMA NextType == TypeOK /\ [Next]_vars => TypeOK'
<1> SUFFICES ASSUME TypeOK, [Next]_vars PROVE TypeOK'
  OBVIOUS
<1>1. ASSUME NEW c \in Calls, Start(c) PROVE TypeOK'
  <2>1. query(c).start \in Nat /\ Found(query(c), stored) \in SUBSET Items
    BY JobTypes, PageTypes DEF TypeOK
  <2>2. pc' \in [Calls -> Stages]
    BY <1>1 DEF TypeOK, Start, Goto, Stages
  <2>3. at' \in [Calls -> Nat] /\ stayed' \in [Calls -> SUBSET Items]
    BY <1>1, <2>1 DEF TypeOK, Start
  <2> QED BY <1>1, <2>2, <2>3 DEF TypeOK, Start
<1>2. ASSUME NEW c \in Calls, Read(c) PROVE TypeOK'
  <2>1. /\ query(c).limit \in Nat /\ at[c] \in Nat
        /\ kept(query(c), stored, at[c]) \subseteq Items
        /\ truncated(query(c), stored, at[c]) \in BOOLEAN
        /\ next_start(query(c), stored, at[c]) \in Nat
    BY JobTypes, PageTypes, NextStartType DEF TypeOK, truncated
  <2>2. at' \in [Calls -> Nat] /\ shown' \in [Calls -> SUBSET Items] /\ pc' \in [Calls -> Stages]
    BY <1>2, <2>1 DEF Read, TypeOK, Goto, Stages
  <2>3. more' \in [Calls -> BOOLEAN] /\ repeated' \in [Calls -> BOOLEAN]
    BY <1>2, <2>1 DEF Read, TypeOK
  <2> QED BY <1>2, <2>2, <2>3 DEF Read, TypeOK
<1>3. ASSUME NEW c \in Calls, ReadFails(c) PROVE TypeOK'
  BY <1>3 DEF TypeOK, ReadFails, Goto, Stages, history
<1>4. ASSUME NEW c \in Calls, Send(c) \/ WriteOk(c) \/ WriteFails(c) PROVE TypeOK'
  BY <1>4 DEF TypeOK, Send, WriteOk, WriteFails, Goto, Stages, history, Client!Begin,
              Client!Succeed, Client!Fail
<1>5. ASSUME NEW S \in SUBSET Items, Becomes(S), UNCHANGED <<log, sorted, walkVars>>,
             UNCHANGED status, executed' \in [Calls -> SUBSET (1..MaxSends)]
      PROVE TypeOK'
  BY <1>5, BecomesTypes DEF TypeOK, walkVars
<1>6. ASSUME NEW c \in Calls, Execute(c) PROVE TypeOK'
  BY <1>5, <1>6, WrittenType DEF Execute, Client!Execute, TypeOK
<1>7. ASSUME NEW i \in Items, Arrive(i) \/ Leave(i) PROVE TypeOK'
  BY <1>5, <1>7 DEF Arrive, Leave, TypeOK
<1>8. CASE UNCHANGED vars
  BY <1>8 DEF vars, walkVars, TypeOK
<1> QED
  BY <1>1, <1>2, <1>3, <1>4, <1>6, <1>7, <1>8 DEF Next, CallNext

\* Every reachable state is well typed; in particular no page moves a walk backwards
\* below the first item.
THEOREM TypeCorrect == Spec => []TypeOK
BY InitType, NextType, PTL DEF Spec

(***************************************************************************)
(* The path of a call: what is fixed when it writes.                       *)
(***************************************************************************)

\* A call that has not read has been shown nothing, and one that still reads was told
\* that there is more; only a caller who edits, after a complete walk if it reads at
\* all, sends; nothing is executed for a call that has not sent.
PathOk(c) ==
    /\ pc[c] = "idle" => shown[c] = {} /\ ~repeated[c]
    /\ pc[c] \in {"idle", "reading"} => more[c]
    /\ pc[c] \in {"idle", "reading", "ready"} => status[c] = "idle"
    /\ pc[c] = "ready" \/ status[c] # "idle" =>
          job[c].edit # "look" /\ (job[c].reads => ~more[c])
    /\ executed[c] # {} => status[c] # "idle"
    /\ pc[c] = "ok" => executed[c] # {}
Path == \A c \in Calls : PathOk(c)

LEMMA InitPath == Init => Path
BY DEF Init, Path, PathOk, Client!Init

LEMMA NextPath == TypeOK /\ Path /\ [Next]_vars => Path'
<1> SUFFICES ASSUME TypeOK, Path, [Next]_vars, NEW c \in Calls PROVE PathOk(c)'
  BY DEF Path
<1>0. PathOk(c)
  BY DEF Path
<1>1. ASSUME NEW d \in Calls, Start(d) PROVE PathOk(c)'
  BY <1>0, <1>1, JobTypes DEF TypeOK, PathOk, Start, Goto
<1>2. ASSUME NEW d \in Calls, Read(d) PROVE PathOk(c)'
  <2>1. truncated(query(d), stored, at[d]) \in BOOLEAN
    BY DEF truncated
  <2>2. CASE c = d
    <3>1. more'[c] = truncated(query(c), stored, at[c]) /\ pc[c] = "reading"
      BY <1>2, <2>2 DEF Read, Reading, TypeOK
    <3>2. /\ pc'[c] \in {"reading", "shown", "truncated", "ready"}
          /\ pc'[c] = "reading" => more'[c]
          /\ pc'[c] = "ready" => ~more'[c] /\ job[c].edit # "look"
      BY <1>2, <2>1, <2>2, <3>1 DEF Read, Goto, TypeOK
    <3> QED BY <1>0, <1>2, <3>1, <3>2 DEF PathOk, Read
  <2>3. CASE c # d
    BY <1>0, <1>2, <2>3 DEF TypeOK, PathOk, Read, Goto
  <2> QED BY <2>2, <2>3
<1>3. ASSUME NEW d \in Calls, ReadFails(d) PROVE PathOk(c)'
  BY <1>0, <1>3 DEF TypeOK, PathOk, ReadFails, Goto, Reading, history
<1>4. ASSUME NEW d \in Calls, Send(d) \/ WriteOk(d) \/ WriteFails(d) PROVE PathOk(c)'
  BY <1>0, <1>4 DEF TypeOK, PathOk, Send, WriteOk, WriteFails, Goto, history, Client!Begin,
                    Client!Succeed, Client!Fail
<1>5. ASSUME NEW d \in Calls, Execute(d) PROVE PathOk(c)'
  BY <1>0, <1>5 DEF TypeOK, PathOk, Execute, walkVars, Client!Execute
<1>6. ASSUME NEW i \in Items, Arrive(i) \/ Leave(i) PROVE PathOk(c)'
  BY <1>0, <1>6 DEF PathOk, Arrive, Leave, walkVars
<1>7. CASE UNCHANGED vars
  BY <1>0, <1>7 DEF vars, walkVars, PathOk
<1> QED
  BY <1>1, <1>2, <1>3, <1>4, <1>5, <1>6, <1>7 DEF Next, CallNext

(***************************************************************************)
(* The walk: what lies before the next start and what lies after it.       *)
(***************************************************************************)

List(c) == Found(query(c), stored)
Past(c, i) == Rank(List(c), i) < at[c]

\* While c walks, what it has to show is ahead, shown or not asked for, and what it has
\* shown is behind, as far as the list was left alone.
WalkOk(c) ==
    Reading(c) =>
       /\ stayed[c] \subseteq List(c)
       /\ ~shrunk[c] => \A i \in stayed[c] : \/ ~Past(c, i)
                                             \/ i \in shown[c]
                                             \/ Misses[i] \cap query(c).residual # {}
       /\ ~grown[c] => \A i \in shown[c] : Past(c, i)

\* The strengthening of NoGaps and NoRepeats.
Walk == NoGaps /\ NoRepeats /\ \A c \in Calls : WalkOk(c)

LEMMA InitWalk == Init => Walk
BY DEF Init, Walk, WalkOk, NoGaps, NoRepeats, Reading

\* A change of the list moves nothing across the next start unless a walk is told so.
LEMMA WalkBecomes ==
    ASSUME TypeOK, NEW c \in Calls, WalkOk(c), NEW S \in SUBSET Items, Becomes(S),
           UNCHANGED walkVars
    PROVE  WalkOk(c)'
<1> SUFFICES ASSUME Reading(c)
             PROVE /\ stayed'[c] \subseteq List(c)'
                   /\ ~shrunk'[c] => \A i \in stayed'[c] :
                         Past(c, i)' => \/ i \in shown[c]
                                        \/ Misses[i] \cap query(c).residual # {}
                   /\ ~grown'[c] => \A i \in shown[c] : Past(c, i)'
  BY DEF WalkOk, Reading, query, walkVars
<1> DEFINE F == Found(query(c), stored)
           G == Found(query(c), S)
<1>1. /\ List(c) = F /\ List(c)' = G /\ at' = at
      /\ \A i : Past(c, i) <=> Rank(F, i) < at[c]
      /\ \A i : Past(c, i)' <=> Rank(G, i) < at[c]
  BY DEF List, Past, query, walkVars, Becomes
<1>2. F \in SUBSET Items /\ G \in SUBSET Items /\ F \cap S = G \cap stored /\ at[c] \in Nat
  BY DEF TypeOK, Found, Passing
<1>3. stayed'[c] = stayed[c] \cap S
  BY DEF Becomes
<1>4. stayed[c] \subseteq F /\ F \subseteq stored /\ G \subseteq S
  BY <1>1, PageTypes DEF WalkOk, TypeOK
<1>5. ~shrunk'[c] => /\ ~shrunk[c]
                     /\ (\E i \in F : Rank(F, i) >= at[c]) =>
                           \A j \in F \ S : ~(Rank(F, j) < at[c])
  BY DEF Becomes
<1>6. ~grown'[c] => ~grown[c] /\ \A j \in G \ stored : ~(Rank(G, j) < at[c])
  BY DEF Becomes
<1>7. /\ ~shrunk[c] => \A i \in stayed[c] : \/ ~(Rank(F, i) < at[c])
                                            \/ i \in shown[c]
                                            \/ Misses[i] \cap query(c).residual # {}
      /\ ~grown[c] => \A i \in shown[c] : Rank(F, i) < at[c] /\ i \in Items
  BY <1>1 DEF WalkOk, TypeOK
<1> HIDE DEF F, G
<1>8. \A i \in Items : Rank(F, i) \in Nat /\ Rank(G, i) \in Nat
  BY <1>2, RankType
<1>9. ASSUME ~shrunk'[c], NEW i \in stayed'[c], Rank(G, i) < at[c]
      PROVE i \in shown[c] \/ Misses[i] \cap query(c).residual # {}
  <2>1. i \in stayed[c] /\ i \in F /\ i \in Items
    BY <1>2, <1>3, <1>4
  <2>2. ASSUME Rank(F, i) >= at[c] PROVE FALSE
    <3>1. \A j \in F \ G : Rank(F, j) >= at[c]
      BY <1>2, <1>4, <1>5, <1>8, <1>9, <2>1, <2>2
    <3>2. Rank(F, i) < at[c]
      BY <1>2, <1>9, <2>1, <3>1, FrontStays
    <3> QED BY <1>2, <1>8, <2>1, <2>2, <3>2
  <2> QED BY <1>2, <1>5, <1>7, <1>8, <1>9, <2>1, <2>2
<1>10. ASSUME ~grown'[c], NEW i \in shown[c] PROVE Rank(G, i) < at[c]
  <2>1. i \in Items /\ Rank(F, i) < at[c]
    BY <1>6, <1>7, <1>10
  <2>2. \A j \in G \ F : Rank(G, j) >= at[c]
    BY <1>2, <1>4, <1>6, <1>8, <1>10
  <2> QED BY <1>2, <2>1, <2>2, FrontStays
<1>11. stayed'[c] \subseteq G
  BY <1>2, <1>3, <1>4
<1> QED BY <1>1, <1>9, <1>10, <1>11

\* A page that is not truncated has everything that lies ahead.
LEMMA LastPage ==
    ASSUME NEW q, NEW S \in SUBSET Items, NEW a \in Nat, q.limit \in Nat,
           ~truncated(q, S, a), NEW i \in Found(q, S), Rank(Found(q, S), i) >= a
    PROVE  i \in page_items(q, S, a)
<1> DEFINE F == Found(q, S)
           n == q.limit
<1>1. F \in SUBSET Items
  BY PageTypes
<1>2. Window(F, a, n + 1) = Window(F, a, n)
  BY DEF truncated, fetched, page_items
<1> HIDE DEF F
<1>3. \A j \in F : Rank(F, j) \in Nat
  BY <1>1, RankType
<1>4. ASSUME Rank(F, i) >= a + n PROVE FALSE
  <2>1. PICK j \in F : Rank(F, j) = a + n
    BY <1>1, <1>3, <1>4, NoHoles DEF F
  <2>2. j \in Window(F, a, n + 1) /\ j \notin Window(F, a, n)
    BY <2>1 DEF Window
  <2> QED BY <1>2, <2>2
<1>5. i \in F /\ Rank(F, i) >= a
  BY DEF F
<1>6. Rank(F, i) \in a..(a + n - 1)
  BY <1>3, <1>4, <1>5
<1> QED BY <1>5, <1>6 DEF F, page_items, Window

LEMMA WalkRead ==
    ASSUME TypeOK, Path, Walk, NEW c \in Calls, Read(c)
    PROVE  Walk'
<1> DEFINE q == query(c)
           F == List(c)
           page == page_items(q, stored, at[c])
           seen == kept(q, stored, at[c])
<1>1. /\ Reading(c) /\ stayed' = stayed /\ shrunk' = shrunk /\ grown' = grown
      /\ stored' = stored /\ job' = job
      /\ shown' = [shown EXCEPT ![c] = @ \cup seen]
      /\ more' = [more EXCEPT ![c] = truncated(q, stored, at[c])]
      /\ at' = [at EXCEPT ![c] = next_start(q, stored, at[c])]
      /\ repeated' = [repeated EXCEPT ![c] = @ \/ shown[c] \cap seen # {}]
      /\ \A d \in Calls \ {c} : pc'[d] = pc[d]
  BY DEF Read, history, Goto, TypeOK
<1>2. /\ F \in SUBSET Items /\ page \subseteq F /\ seen \subseteq page
      /\ q.limit \in Nat /\ at[c] \in Nat /\ stored \in SUBSET Items
  BY PageTypes, JobTypes DEF TypeOK, List
<1>3. \A i \in seen : at[c] <= Rank(F, i) /\ Rank(F, i) < next_start(q, stored, at[c])
  <2>1. page = Window(F, at[c], q.limit)
    BY DEF page_items, List
  <2>2. \A i \in page : Rank(F, i) < at[c] + Cardinality(page)
    BY <1>2, <2>1, WindowDense
  <2>3. \A i \in page : at[c] <= Rank(F, i)
    BY <2>1, <1>2, RankType DEF Window
  <2> QED BY <1>2, <2>2, <2>3 DEF next_start
<1>4. \A i \in F : Rank(F, i) < next_start(q, stored, at[c]) =>
                      Rank(F, i) < at[c] \/ i \in page
  <2>1. next_start(q, stored, at[c]) <= at[c] + q.limit
    BY <1>2, NextStartType
  <2>2. next_start(q, stored, at[c]) \in Nat
    BY <1>2, NextStartType
  <2>3. \A i \in F : Rank(F, i) \in Nat
    BY <1>2, RankType
  <2> HIDE DEF F, q
  <2>4. \A i \in F : Rank(F, i) < next_start(q, stored, at[c]) =>
                        Rank(F, i) < at[c] \/ Rank(F, i) \in at[c]..(at[c] + q.limit - 1)
    BY <1>2, <2>1, <2>2, <2>3
  <2> QED BY <2>4 DEF F, q, page_items, Window, List
<1>5. \A i \in F : i \in page => i \in seen \/ Misses[i] \cap q.residual # {}
  BY <1>2 DEF kept, Passing
<1>6. /\ stayed[c] \subseteq F
      /\ ~shrunk[c] => \A i \in stayed[c] : \/ ~(Rank(F, i) < at[c])
                                            \/ i \in shown[c]
                                            \/ Misses[i] \cap q.residual # {}
      /\ ~grown[c] => \A i \in shown[c] : Rank(F, i) < at[c] /\ i \in Items
  BY <1>1 DEF Walk, WalkOk, Past, TypeOK
<1> HIDE DEF F, q, page, seen
<1>7. \A i \in Items : Rank(F, i) \in Nat
  BY <1>2, RankType
<1>8. WalkOk(c)'
  <2>1. next_start(q, stored, at[c]) \in Nat /\ next_start(q, stored, at[c]) >= at[c]
    BY <1>2, NextStartType
  <2>2. /\ stayed'[c] \subseteq F
        /\ ~shrunk'[c] => \A i \in stayed'[c] : \/ ~(Rank(F, i) < at'[c])
                                                \/ i \in shown'[c]
                                                \/ Misses[i] \cap q.residual # {}
    BY <1>1, <1>2, <1>4, <1>5, <1>6, <2>1 DEF TypeOK
  <2>3. ~grown'[c] => \A i \in shown'[c] : Rank(F, i) < at'[c]
    BY <1>1, <1>2, <1>3, <1>6, <1>7, <2>1 DEF TypeOK
  <2>4. List(c)' = F /\ query(c)' = q /\ \A i : Past(c, i)' <=> Rank(F, i) < at'[c]
    BY <1>1 DEF List, query, Past, F, q
  <2> QED BY <2>2, <2>3, <2>4 DEF WalkOk
<1>9. ~more'[c] /\ ~shrunk'[c] => Wanted(c)' \subseteq shown'[c]
  <2> SUFFICES ASSUME ~more'[c], ~shrunk'[c], NEW i \in Wanted(c)' PROVE i \in shown'[c]
    OBVIOUS
  <2>1. i \in stayed[c] /\ i \in F /\ Misses[i] \cap q.residual = {}
    BY <1>1, <1>6 DEF Wanted, Passing, query, q
  <2>2. ~truncated(q, stored, at[c])
    BY <1>1 DEF TypeOK
  <2>3. ~(Rank(F, i) < at[c]) => i \in page
    BY <1>2, <1>7, <2>1, <2>2, LastPage DEF F, page, List, q
  <2> QED BY <1>1, <1>2, <1>5, <1>6, <2>1, <2>3 DEF TypeOK
<1>10. repeated'[c] => grown'[c]
  <2>1. ~grown[c] => shown[c] \cap seen = {}
    BY <1>2, <1>3, <1>6, <1>7
  <2> QED BY <1>1, <2>1 DEF Walk, NoRepeats, TypeOK
<1>11. ASSUME NEW d \in Calls, d # c
       PROVE  /\ WalkOk(d)'
              /\ ~more'[d] /\ ~shrunk'[d] => Wanted(d)' \subseteq shown'[d]
              /\ repeated'[d] => grown'[d]
  <2>1. /\ at'[d] = at[d] /\ shown'[d] = shown[d] /\ more'[d] = more[d]
        /\ repeated'[d] = repeated[d] /\ (Reading(d)' <=> Reading(d))
    BY <1>1, <1>11 DEF TypeOK, Reading
  <2>2. List(d)' = List(d) /\ query(d)' = query(d) /\ Wanted(d)' = Wanted(d)
    BY <1>1 DEF List, query, Wanted
  <2>3. \A i : Past(d, i)' <=> Past(d, i)
    BY <2>1, <2>2 DEF Past
  <2>4. WalkOk(d) /\ (~more[d] /\ ~shrunk[d] => Wanted(d) \subseteq shown[d])
        /\ (repeated[d] => grown[d])
    BY DEF Walk, NoGaps, NoRepeats
  <2> QED BY <1>1, <2>1, <2>2, <2>3, <2>4 DEF WalkOk
<1> QED BY <1>8, <1>9, <1>10, <1>11 DEF Walk, NoGaps, NoRepeats

\* A step that leaves what c has been shown and told alone.
LEMMA WalkKept ==
    ASSUME Walk, NEW c \in Calls, WalkOk(c)', query(c)' = query(c),
           stayed'[c] \subseteq stayed[c], shrunk[c] => shrunk'[c], grown[c] => grown'[c],
           shown'[c] = shown[c], more'[c] = more[c], repeated'[c] = repeated[c]
    PROVE  /\ WalkOk(c)'
           /\ ~more'[c] /\ ~shrunk'[c] => Wanted(c)' \subseteq shown'[c]
           /\ repeated'[c] => grown'[c]
BY DEF Walk, NoGaps, NoRepeats, Wanted, Passing

LEMMA NextWalk == TypeOK /\ Path /\ Walk /\ [Next]_vars => Walk'
<1> SUFFICES ASSUME TypeOK, Path, Walk, [Next]_vars PROVE Walk'
  OBVIOUS
<1>0. SUFFICES ASSUME NEW c \in Calls, ~(\E d \in Calls : Read(d))
               PROVE  /\ WalkOk(c)'
                      /\ ~more'[c] /\ ~shrunk'[c] => Wanted(c)' \subseteq shown'[c]
                      /\ repeated'[c] => grown'[c]
  BY WalkRead DEF Walk, NoGaps, NoRepeats
<1>1. WalkOk(c) /\ stored \in SUBSET Items
  BY DEF Walk, TypeOK
<1>2. ASSUME NEW d \in Calls, Start(d)
      PROVE  /\ WalkOk(c)'
             /\ ~more'[c] /\ ~shrunk'[c] => Wanted(c)' \subseteq shown'[c]
             /\ repeated'[c] => grown'[c]
  <2>1. /\ stored' = stored /\ query(c)' = query(c) /\ shown' = shown /\ more' = more
        /\ repeated' = repeated /\ shrunk' = shrunk /\ grown' = grown /\ List(c)' = List(c)
    BY <1>2 DEF Start, query, List
  <2>2. CASE c # d
    <3>1. at'[c] = at[c] /\ stayed'[c] = stayed[c] /\ (Reading(c)' <=> Reading(c))
      BY <1>2, <2>2 DEF Start, Goto, TypeOK, Reading
    <3>2. \A i : Past(c, i)' <=> Past(c, i)
      BY <2>1, <3>1 DEF Past
    <3>3. WalkOk(c)'
      BY <1>1, <2>1, <3>1, <3>2 DEF WalkOk
    <3> QED BY <2>1, <3>1, <3>3, WalkKept
  <2>3. CASE c = d
    <3>1. more'[c] /\ ~repeated'[c] /\ shown'[c] = {}
      BY <1>2, <2>1, <2>3 DEF Start, Path, PathOk
    <3>2. ASSUME Reading(c)'
          PROVE  /\ at'[c] = query(c).start
                 /\ stayed'[c] = {i \in List(c) : Rank(List(c), i) >= query(c).start}
      <4>1. job[c].reads
        BY <1>2, <2>3, <3>2 DEF Start, Goto, Reading, TypeOK
      <4> QED BY <1>2, <2>3, <4>1 DEF Start, TypeOK, List
    <3>3. \A i \in List(c) : Rank(List(c), i) \in Nat
      BY <1>1, PageTypes, RankType DEF List
    <3>4. query(c).start \in Nat
      BY JobTypes DEF TypeOK
    <3>5. WalkOk(c)'
      <4> SUFFICES ASSUME Reading(c)'
                   PROVE  stayed'[c] \subseteq List(c) /\ \A i \in stayed'[c] : ~Past(c, i)'
        BY <2>1, <3>1 DEF WalkOk
      <4>1. \A i \in stayed'[c] : i \in List(c) /\ Rank(List(c), i) >= query(c).start
        BY <3>2
      <4>2. \A i : Past(c, i)' <=> Rank(List(c), i) < query(c).start
        BY <2>1, <3>2 DEF Past
      <4> QED BY <3>3, <3>4, <4>1, <4>2
    <3> QED BY <3>1, <3>5
  <2> QED BY <2>2, <2>3
<1>3. ASSUME NEW d \in Calls, ReadFails(d) \/ Send(d) \/ WriteOk(d) \/ WriteFails(d)
      PROVE  /\ WalkOk(c)'
             /\ ~more'[c] /\ ~shrunk'[c] => Wanted(c)' \subseteq shown'[c]
             /\ repeated'[c] => grown'[c]
  <2>1. /\ stored' = stored /\ job' = job /\ at' = at /\ shown' = shown /\ more' = more
        /\ stayed' = stayed /\ shrunk' = shrunk /\ grown' = grown /\ repeated' = repeated
        /\ Reading(c)' => Reading(c)
    BY <1>3 DEF ReadFails, Send, WriteOk, WriteFails, history, Goto, TypeOK, Reading
  <2>2. query(c)' = query(c) /\ List(c)' = List(c)
    BY <2>1 DEF query, List
  <2>3. \A i : Past(c, i)' <=> Past(c, i)
    BY <2>1, <2>2 DEF Past
  <2>4. WalkOk(c)'
    BY <1>1, <2>1, <2>2, <2>3 DEF WalkOk
  <2> QED BY <2>1, <2>2, <2>4, WalkKept
<1>4. ASSUME NEW S \in SUBSET Items, Becomes(S), UNCHANGED walkVars
      PROVE  /\ WalkOk(c)'
             /\ ~more'[c] /\ ~shrunk'[c] => Wanted(c)' \subseteq shown'[c]
             /\ repeated'[c] => grown'[c]
  <2>1. WalkOk(c)'
    BY <1>1, <1>4, WalkBecomes
  <2>2. /\ query(c)' = query(c) /\ shown'[c] = shown[c] /\ more'[c] = more[c]
        /\ repeated'[c] = repeated[c]
    BY <1>4 DEF walkVars, query
  <2>3. stayed'[c] \subseteq stayed[c] /\ (shrunk[c] => shrunk'[c]) /\ (grown[c] => grown'[c])
    BY <1>4 DEF Becomes
  <2> QED BY <2>1, <2>2, <2>3, WalkKept
<1>5. ASSUME NEW d \in Calls, Execute(d)
      PROVE  /\ WalkOk(c)'
             /\ ~more'[c] /\ ~shrunk'[c] => Wanted(c)' \subseteq shown'[c]
             /\ repeated'[c] => grown'[c]
  BY <1>4, <1>5, WrittenType DEF Execute
<1>6. ASSUME NEW i \in Items, Arrive(i) \/ Leave(i)
      PROVE  /\ WalkOk(c)'
             /\ ~more'[c] /\ ~shrunk'[c] => Wanted(c)' \subseteq shown'[c]
             /\ repeated'[c] => grown'[c]
  <2>1. stored \cup {i} \in SUBSET Items /\ stored \ {i} \in SUBSET Items
    BY <1>1
  <2> QED BY <1>4, <1>6, <2>1 DEF Arrive, Leave
<1>7. CASE UNCHANGED vars
  <2>1. UNCHANGED <<stored, job, pc, at, shown, more, repeated, stayed, shrunk, grown>>
    BY <1>7 DEF vars, walkVars
  <2>2. /\ query(c)' = query(c) /\ List(c)' = List(c) /\ (Reading(c)' <=> Reading(c))
        /\ \A i : Past(c, i)' <=> Past(c, i)
    BY <2>1 DEF query, List, Reading, Past
  <2>3. WalkOk(c)'
    BY <1>1, <2>1, <2>2 DEF WalkOk
  <2> QED BY <2>1, <2>2, <2>3, WalkKept
<1> QED BY <1>0, <1>2, <1>3, <1>5, <1>6, <1>7 DEF Next, CallNext

LEMMA WalkAlways == Spec => [](TypeOK /\ Path /\ Walk)
BY InitType, NextType, InitPath, NextPath, InitWalk, NextWalk, PTL DEF Spec

\* A walk whose last page said there is no more has shown every item that was there all
\* the time and passes the filters, unless an item already walked past vanished.
THEOREM NothingIsMissed == Spec => []NoGaps
BY WalkAlways, PTL DEF Walk

\* A walk shows an item twice only if one appeared in the part already walked past.
THEOREM NothingIsRepeated == Spec => []NoRepeats
BY WalkAlways, PTL DEF Walk

(***************************************************************************)
(* Why a walk ends: the part of it that needs no fairness.                 *)
(***************************************************************************)

\* A page is truncated when an item follows it, and then it is as long as asked for.
LEMMA TruncatedPage ==
    ASSUME NEW q, NEW S \in SUBSET Items, NEW a \in Nat, q.limit \in Nat,
           truncated(q, S, a)
    PROVE  /\ next_start(q, S, a) = a + q.limit
           /\ \E i \in Found(q, S) : Rank(Found(q, S), i) = a + q.limit
<1> DEFINE F == Found(q, S)
           W == Window(F, a, q.limit)
<1>1. F \in SUBSET Items
  BY PageTypes
<1>2. W # Window(F, a, q.limit + 1)
  BY DEF truncated, fetched, page_items
<1> HIDE DEF F
<1>3. PICK i \in F : Rank(F, i) = a + q.limit
  <2>1. \A k \in F : Rank(F, k) \in Nat
    BY <1>1, RankType
  <2> QED BY <1>2, <2>1 DEF Window
<1>4. Cardinality(W) \in Nat /\ Cardinality(W) <= q.limit
  BY <1>1, WindowBound
<1>5. ASSUME q.limit > 0 PROVE Cardinality(W) = q.limit
  <2>1. a + q.limit - 1 \in Nat /\ Rank(F, i) >= a + q.limit - 1
    BY <1>3, <1>5
  <2>2. PICK j \in F : Rank(F, j) = a + q.limit - 1
    BY <1>1, <2>1, NoHoles
  <2>3. j \in W
    BY <1>5, <2>2 DEF Window
  <2> HIDE DEF W
  <2>4. Rank(F, j) < a + Cardinality(W)
    BY <1>1, <2>3, WindowDense DEF W
  <2> QED BY <1>4, <2>2, <2>4
<1>6. Cardinality(W) = q.limit
  <2> HIDE DEF W
  <2> QED BY <1>4, <1>5
<1>7. next_start(q, S, a) = a + q.limit
  BY <1>6 DEF next_start, page_items, F
<1> QED BY <1>3, <1>7 DEF F

\* The hint of a truncated page leads on by a whole page and to an item of the list,
\* whatever the filters left of the page and whatever the limit.  A list of n items is
\* therefore walked in at most n steps, if it holds still and a page is not nothing:
\* EveryWalkEnds needs of the scheduler only that the GETs end.
THEOREM HintsLeadOn == Spec => []HintLeadsOn
<1>1. TypeOK => HintLeadsOn
  <2> SUFFICES ASSUME TypeOK, NEW c \in Calls, truncated(query(c), stored, at[c])
               PROVE  /\ next_start(query(c), stored, at[c]) = at[c] + query(c).limit
                      /\ \E i \in Found(query(c), stored) :
                            Rank(Found(query(c), stored), i) = next_start(query(c), stored, at[c])
    BY DEF HintLeadsOn
  <2>1. query(c).limit \in Nat /\ at[c] \in Nat /\ stored \in SUBSET Items
    BY JobTypes DEF TypeOK
  <2>2. /\ next_start(query(c), stored, at[c]) = at[c] + query(c).limit
        /\ \E i \in Found(query(c), stored) :
              Rank(Found(query(c), stored), i) = at[c] + query(c).limit
    BY <2>1, TruncatedPage
  <2> QED BY <2>2
<1> QED BY <1>1, TypeCorrect, PTL

(***************************************************************************)
(* Event logs.                                                             *)
(***************************************************************************)

\* Nobody writes to a log, and if it is kept newest first, nothing vanishes from it that
\* was walked past while something is ahead: what expires is the last item.
LogOk ==
    /\ sorted => log
    /\ log => \A c \in Calls : status[c] = "idle" /\ executed[c] = {}
    /\ sorted => \A c \in Calls : ~shrunk[c]

LEMMA InitLog == Init => LogOk
BY DEF Init, LogOk, Client!Init

LEMMA LastLeaves ==
    ASSUME TypeOK, NEW c \in Calls, NEW i \in stored, \A j \in stored : j <= i,
           ~shrunk[c], Becomes(stored \ {i})
    PROVE  ~shrunk'[c]
<1> DEFINE F == Found(query(c), stored)
<1>1. F \in SUBSET stored /\ F \in SUBSET Items /\ stored \in SUBSET Items /\ at[c] \in Nat
  BY PageTypes DEF TypeOK
<1>2. shrunk'[c] => /\ \E k \in F : Rank(F, k) >= at[c]
                    /\ \E k \in F \ (stored \ {i}) : Rank(F, k) < at[c]
  BY DEF Becomes
<1> HIDE DEF F
<1>3. SUFFICES ASSUME NEW k \in F, Rank(F, k) >= at[c], i \in F, Rank(F, i) < at[c]
               PROVE  FALSE
  BY <1>1, <1>2
<1>4. k < i \/ k = i
  BY <1>1, ItemsAssumption
<1>5. k < i => Rank(F, k) < Rank(F, i)
  BY <1>1, <1>3, RankGrows
<1>6. Rank(F, k) \in Nat /\ Rank(F, i) \in Nat
  BY <1>1, <1>3, RankType
<1> QED BY <1>1, <1>3, <1>4, <1>5, <1>6

LEMMA NextLog == TypeOK /\ Path /\ LogOk /\ [Next]_vars => LogOk'
<1> SUFFICES ASSUME TypeOK, Path, LogOk, [Next]_vars PROVE LogOk'
  OBVIOUS
<1>1. log' = log /\ sorted' = sorted
  BY DEF Next, CallNext, Start, Read, ReadFails, Send, WriteOk, WriteFails, Execute, Arrive,
         Leave, vars
<1>2. SUFFICES ASSUME log, NEW c \in Calls
               PROVE  /\ status'[c] = "idle" /\ executed'[c] = {}
                      /\ sorted => ~shrunk'[c]
  BY <1>1 DEF LogOk
<1>3. \A d \in Calls : status[d] = "idle" /\ executed[d] = {} /\ (sorted => ~shrunk[d])
  BY <1>2 DEF LogOk
<1>4. \A d \in Calls : pc[d] # "ready"
  BY <1>2, JobTypes DEF Path, PathOk, TypeOK
<1>5. ASSUME NEW d \in Calls, CallNext(d)
      PROVE  shrunk' = shrunk /\ status' = status /\ executed' = executed
  BY <1>3, <1>4, <1>5 DEF CallNext, Start, Read, ReadFails, Send, WriteOk, WriteFails,
        Execute, history, Client!Succeed, Client!Fail, Client!Execute
<1>6. ASSUME NEW i \in Items, Arrive(i)
      PROVE  status' = status /\ executed' = executed /\ (sorted => ~shrunk'[c])
  <2>1. Found(query(c), stored) \ (stored \cup {i}) = {}
    BY PageTypes DEF TypeOK
  <2>2. shrunk'[c] => shrunk[c] \/ \E k \in Found(query(c), stored) \ (stored \cup {i}) : TRUE
    BY <1>6 DEF Arrive, Becomes
  <2> QED BY <1>3, <1>6, <2>1, <2>2 DEF Arrive
<1>7. ASSUME NEW i \in Items, Leave(i)
      PROVE  status' = status /\ executed' = executed /\ (sorted => ~shrunk'[c])
  BY <1>3, <1>7, LastLeaves DEF Leave
<1>8. CASE UNCHANGED vars
  BY <1>3, <1>8 DEF vars
<1> QED BY <1>3, <1>5, <1>6, <1>7, <1>8 DEF Next

\* If the controller keeps an event log newest first, a walk of it misses nothing, however
\* many events are reported, in front or late, and however many expire meanwhile.
THEOREM SortedLogsAreComplete == Spec => []SortedLogMissesNothing
<1>1. Walk /\ LogOk => SortedLogMissesNothing
  BY DEF Walk, NoGaps, LogOk, SortedLogMissesNothing
<1> QED BY <1>1, WalkAlways, InitLog, NextLog, PTL DEF Spec

(***************************************************************************)
(* Edits.                                                                  *)
(***************************************************************************)

EditOk ==
    \A c \in Calls : executed[c] # {} =>
       /\ \A i \in Items \ Volatile : Decides(c, i) => Stands(c, i)
       /\ job[c].edit = "insert" => \E i \in job[c].plus : i \in Volatile \/ Stands(c, i)

LEMMA InitEdit == Init => EditOk
BY DEF Init, EditOk, Client!Init

\* What a write concerns and wants is fixed once it may be executed.
LEMMA WantsFixed ==
    ASSUME TypeOK, Path, [Next]_vars, NEW c \in Calls, status[c] # "idle"
    PROVE  /\ job' = job
           /\ \A i : /\ Wants(c, i)' <=> Wants(c, i)
                     /\ Concerns(c, i)' <=> Concerns(c, i)
                     /\ Decides(c, i)' <=> Decides(c, i)
<1>1. shown'[c] = shown[c]
  <2>1. pc[c] # "reading"
    BY DEF Path, PathOk
  <2> QED
    BY <2>1 DEF Next, CallNext, Start, Read, ReadFails, Send, WriteOk, WriteFails, Execute,
                Arrive, Leave, vars, walkVars, TypeOK, Reading
<1>2. job' = job
  BY DEF Next, CallNext, Start, Read, ReadFails, Send, WriteOk, WriteFails, Execute, Arrive,
         Leave, vars, walkVars
<1> QED BY <1>1, <1>2 DEF Wants, Concerns, Decides, payload

\* What is in the list after a write is what the write wants, where it decides, and what
\* was there, where it is not concerned; an insertion adds one of its copies, and takes
\* none away.
LEMMA WrittenWants ==
    ASSUME TypeOK, NEW c \in Calls, NEW i \in Items, NEW S \in Written(c, stored)
    PROVE  /\ Decides(c, i) => (i \in S <=> Wants(c, i))
           /\ ~Concerns(c, i) => (i \in S <=> i \in stored)
           /\ Concerns(c, i) /\ ~Decides(c, i) => Wants(c, i) /\ (i \in stored => i \in S)
<1>1. job[c].edit = "insert" => job[c].plus \cap job[c].minus = {}
  BY JobTypes DEF TypeOK
<1>2. CASE job[c].edit = "replace"
  <2>1. S = payload(c)
    BY <1>2 DEF Written
  <2> QED BY <1>2, <2>1 DEF Decides, Concerns, Wants
<1>3. CASE job[c].edit = "insert"
  <2>1. PICK k \in job[c].plus : S = (stored \ job[c].minus) \cup {k}
    BY <1>3 DEF Written
  <2> QED BY <1>1, <1>3, <2>1 DEF Decides, Concerns, Wants
<1>4. CASE job[c].edit \notin {"replace", "insert"}
  <2>1. S = (stored \ job[c].minus) \cup job[c].plus
    BY <1>4 DEF Written
  <2> QED BY <1>4, <2>1 DEF Decides, Concerns, Wants
<1> QED BY <1>2, <1>3, <1>4

\* One of the copies of an executed insertion is in the list.
LEMMA WrittenInserts ==
    ASSUME NEW c, job[c].edit = "insert", NEW S \in Written(c, stored)
    PROVE  \E i \in job[c].plus : i \in S
BY DEF Written

\* What stands of an executed write is left standing by every step.
LEMMA StandsKept ==
    ASSUME TypeOK, Path, LogOk, [Next]_vars, NEW c \in Calls, NEW i \in Items \ Volatile,
           executed[c] # {}, Concerns(c, i), Stands(c, i)
    PROVE  Stands(c, i)'
<1>1. \A d \in Calls : executed[d] # {} =>
                          /\ status[d] # "idle"
                          /\ Wants(d, i)' <=> Wants(d, i)
                          /\ Concerns(d, i)' <=> Concerns(d, i)
  BY WantsFixed DEF Path, PathOk
<1>2. ASSUME NEW d \in Calls \ {c}, executed[d] # {}, executed'[d] # {}, Concerns(d, i),
             ~(Wants(d, i) <=> Wants(c, i))
      PROVE  Stands(c, i)'
  <2>1. executed'[d] # {} /\ Concerns(d, i)' /\ ~(Wants(d, i)' <=> Wants(c, i)')
    BY <1>1, <1>2
  <2> QED BY <2>1 DEF Stands
<1>3. ASSUME \A d \in Calls : executed[d] # {} => executed'[d] # {},
             i \in stored /\ Wants(c, i) => i \in stored',
             i \notin stored /\ ~Wants(c, i) => i \notin stored'
      PROVE  Stands(c, i)'
  <2>1. CASE i \in stored <=> Wants(c, i)
    BY <1>1, <1>3, <2>1 DEF Stands
  <2>2. CASE ~(i \in stored <=> Wants(c, i))
    <3>1. PICK d \in Calls \ {c} :
                executed[d] # {} /\ Concerns(d, i) /\ ~(Wants(d, i) <=> Wants(c, i))
      BY <2>2 DEF Stands
    <3> QED BY <1>2, <1>3, <3>1
  <2> QED BY <2>1, <2>2
<1>4. ASSUME NEW d \in Calls,
             Start(d) \/ Read(d) \/ ReadFails(d) \/ Send(d) \/ WriteOk(d) \/ WriteFails(d)
      PROVE  Stands(c, i)'
  <2>1. stored' = stored /\ executed' = executed
    BY <1>4 DEF Start, Read, ReadFails, Send, WriteOk, WriteFails, Client!Begin,
                Client!Succeed, Client!Fail
  <2> QED BY <1>3, <2>1
<1>5. ASSUME NEW d \in Calls, Execute(d) PROVE Stands(c, i)'
  <2>1. /\ status[d] # "idle" /\ executed'[d] # {}
        /\ \A e \in Calls : executed[e] # {} => executed'[e] # {}
    BY <1>5 DEF Execute, Client!Execute, TypeOK
  <2>2. stored' \in Written(d, stored)
    BY <1>5 DEF Execute, Becomes
  <2>3. /\ Decides(d, i) => (i \in stored' <=> Wants(d, i))
        /\ ~Concerns(d, i) => (i \in stored' <=> i \in stored)
        /\ Concerns(d, i) /\ ~Decides(d, i) => Wants(d, i) /\ (i \in stored => i \in stored')
    BY <2>2, WrittenWants
  <2>4. (Wants(d, i)' <=> Wants(d, i)) /\ (Concerns(d, i)' <=> Concerns(d, i))
    BY <2>1, WantsFixed
  <2>5. CASE ~Concerns(d, i)
    BY <1>3, <2>1, <2>3, <2>5
  <2>6. CASE Concerns(d, i) /\ (Wants(d, i) <=> Wants(c, i))
    <3>1. i \in stored /\ Wants(c, i) => i \in stored'
      BY <2>3, <2>6
    <3>2. i \notin stored /\ ~Wants(c, i) => i \notin stored'
      BY <2>3, <2>6
    <3> QED BY <1>3, <2>1, <3>1, <3>2
  <2>7. CASE Concerns(d, i) /\ ~(Wants(d, i) <=> Wants(c, i))
    <3>1. d # c
      BY <2>7
    <3>2. /\ executed'[d] # {} /\ Concerns(d, i)' /\ ~(Wants(d, i)' <=> Wants(c, i)')
      BY <1>1, <2>1, <2>4, <2>7
    <3> QED BY <3>1, <3>2 DEF Stands
  <2> QED BY <2>5, <2>6, <2>7
<1>6. ASSUME NEW k \in Items, Arrive(k) \/ Leave(k) PROVE Stands(c, i)'
  <2>1. executed' = executed /\ ~log
    BY <1>6 DEF Arrive, Leave, LogOk
  <2>2. k # i /\ (stored' = stored \cup {k} \/ stored' = stored \ {k})
    BY <1>6, <2>1 DEF Arrive, Leave, Becomes
  <2> QED BY <1>3, <2>1, <2>2
<1>7. CASE UNCHANGED vars
  BY <1>3, <1>7 DEF vars
<1> QED BY <1>4, <1>5, <1>6, <1>7 DEF Next, CallNext

LEMMA NextEdit == TypeOK /\ Path /\ LogOk /\ EditOk /\ [Next]_vars => EditOk'
<1> SUFFICES ASSUME TypeOK, Path, LogOk, EditOk, [Next]_vars, NEW c \in Calls, executed'[c] # {}
             PROVE  /\ \A i \in Items \ Volatile : Decides(c, i)' => Stands(c, i)'
                    /\ job'[c].edit = "insert" =>
                          \E i \in job'[c].plus : i \in Volatile \/ Stands(c, i)'
  BY DEF EditOk
<1>0. job[c].plus \subseteq Items
  BY JobTypes DEF TypeOK
<1>1. CASE Execute(c)
  <2>1. status[c] # "idle" /\ stored' \in Written(c, stored)
    BY <1>1 DEF Execute, Becomes, Client!Execute
  <2>2. /\ job' = job
        /\ \A i : (Wants(c, i)' <=> Wants(c, i)) /\ (Decides(c, i)' <=> Decides(c, i))
    BY <2>1, WantsFixed
  <2>3. \A i \in Items : Decides(c, i) => (i \in stored' <=> Wants(c, i))
    BY <2>1, WrittenWants
  <2>4. ASSUME job[c].edit = "insert" PROVE \E i \in job[c].plus : Stands(c, i)'
    <3>1. PICK i \in job[c].plus : i \in stored'
      BY <2>1, <2>4, WrittenInserts
    <3>2. Wants(c, i)
      BY <2>4, <3>1 DEF Wants
    <3> QED BY <2>2, <3>1, <3>2 DEF Stands
  <2> QED BY <2>2, <2>3, <2>4 DEF Stands
<1>2. CASE ~Execute(c)
  <2>1. executed[c] # {}
    <3>1. CASE \E d \in Calls : Execute(d)
      BY <1>2, <3>1 DEF Execute, Client!Execute, TypeOK
    <3>2. CASE ~(\E d \in Calls : Execute(d))
      BY <3>2 DEF Next, CallNext, Start, Read, ReadFails, Send, WriteOk, WriteFails, Arrive,
            Leave, Client!Begin, Client!Succeed, Client!Fail, vars
    <3> QED BY <3>1, <3>2
  <2>2. status[c] # "idle"
    BY <2>1 DEF Path, PathOk
  <2>3. job' = job /\ \A i : Decides(c, i)' <=> Decides(c, i)
    BY <2>2, WantsFixed
  <2>4. ASSUME NEW i \in Items \ Volatile, Decides(c, i)' PROVE Stands(c, i)'
    <3>1. Concerns(c, i) /\ Stands(c, i)
      BY <2>1, <2>3, <2>4 DEF EditOk, Decides
    <3> QED BY <2>1, <3>1, StandsKept
  <2>5. ASSUME job[c].edit = "insert"
        PROVE  \E i \in job[c].plus : i \in Volatile \/ Stands(c, i)'
    <3>1. PICK i \in job[c].plus : i \in Volatile \/ Stands(c, i)
      BY <2>1, <2>5 DEF EditOk
    <3>2. CASE i \notin Volatile
      <4>1. Concerns(c, i) /\ i \in Items \ Volatile /\ Stands(c, i)
        BY <1>0, <3>1, <3>2 DEF Concerns
      <4>2. Stands(c, i)'
        BY <2>1, <4>1, StandsKept
      <4> QED BY <4>2
    <3> QED BY <3>1, <3>2
  <2> QED BY <2>3, <2>4, <2>5
<1> QED BY <1>1, <1>2

\* What a caller was told is done stays done, however often and late the request is
\* executed, until the list changes by itself or another caller's write opposes it; of
\* what it inserted one copy at least is there.
THEOREM EditsLast == Spec => []EditLasts
<1>1. Path /\ EditOk => EditLasts
  BY DEF Path, PathOk, EditOk, EditLasts
<1> QED
  BY <1>1, WalkAlways, InitLog, NextLog, InitEdit, NextEdit, PTL DEF Spec

\* An item goes by the write of a caller who read the list first only if the caller was
\* shown it and meant it to go, or if the list changed during or after the read.
THEOREM LossIsStale == Spec => LossNeedsStaleRead
<1> DEFINE Step == \A c \in Calls : \A i \in stored \ stored' :
                      executed'[c] # executed[c] /\ job[c].reads =>
                         \/ i \in job[c].minus \cap shown[c]
                         \/ i \notin Wanted(c)
                         \/ shrunk[c]
<1>1. TypeOK /\ Path /\ Walk /\ [Next]_vars => [Step]_vars
  <2> SUFFICES ASSUME TypeOK, Path, Walk, Next, NEW c \in Calls, NEW i \in stored \ stored',
                      executed'[c] # executed[c], job[c].reads, i \in Wanted(c), ~shrunk[c]
               PROVE  i \in job[c].minus \cap shown[c]
    BY DEF vars
  <2>1. PICK d \in Calls : Execute(d)
    BY DEF Next, CallNext, Start, Read, ReadFails, Send, WriteOk, WriteFails, Arrive, Leave,
           Client!Begin, Client!Succeed, Client!Fail
  <2>2. c = d
    BY <2>1 DEF Execute, Client!Execute, TypeOK
  <2>3. status[c] # "idle" /\ stored' \in Written(c, stored) /\ i \in stored
    BY <2>1, <2>2 DEF Execute, Client!Execute, Becomes
  <2>4. i \in shown[c]
    BY <2>3 DEF Path, PathOk, Walk, NoGaps
  <2>5. i \notin payload(c) \/ i \notin stored \ job[c].minus
    BY <2>3 DEF Written
  <2>6. i \in job[c].minus
    BY <2>4, <2>5 DEF payload
  <2> QED BY <2>4, <2>6
<1>2. [](TypeOK /\ Path /\ Walk) /\ [][Next]_vars => [][Step]_vars
  BY <1>1, PTL
<1> QED BY <1>2, WalkAlways, PTL DEF Spec, LossNeedsStaleRead
=============================================================================
