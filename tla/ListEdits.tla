------------------------------ MODULE ListEdits ------------------------------
(***************************************************************************)
(* A list the controller keeps (rules, sensors, the entries of a profile,  *)
(* the flags of a workload, the events of a log), callers that walk it     *)
(* with the read tools and edit it with the write tools, and the list      *)
(* changing under them.                                                    *)
(*                                                                         *)
(* A read tool is one GET of a list, cut by _page_items_; the caller goes  *)
(* on where the hint tells it to.  The write tools either replace the list *)
(* by what the caller sends or change single items of it; nothing ties the *)
(* write to the list that was read.  The caller modelled here is the one   *)
(* the tool descriptions ask for: it reads first, sends back what it was   *)
(* shown with its change, and gives up when the answer stays truncated.    *)
(*                                                                         *)
(* Items are numbered in the order of the list: the list is a set, and an  *)
(* item that moves is another one.                                         *)
(***************************************************************************)
EXTENDS Naturals, FiniteSets

CONSTANTS Calls,      \* edits and walks, each a read call or several and a write call
          Items,      \* all items the list may hold
          Fields,     \* what the tools filter by
          Misses,     \* Misses[i]: the fields in which item i is not as asked
          Volatile,   \* items that come and go without any caller
          Jobs,       \* what callers do: query, edit, plus, minus
          MaxSends    \* how often a write may be executed (AtLeastOnce)

Queries == [asked : SUBSET Fields,      \* filters of the controller
            local : SUBSET Fields,      \* filters of the tool, before it cuts
            residual : SUBSET Fields,   \* filters of the tool, after it cut
            start : Nat, limit : Nat,
            pages : BOOLEAN,            \* the tool takes start
            newest_first : BOOLEAN]     \* an event log

ASSUME ItemsAssumption == Items \subseteq Nat /\ IsFiniteSet(Items)
ASSUME MissesAssumption == Misses \in [Items -> SUBSET Fields]
ASSUME VolatileAssumption == Volatile \subseteq Items
\* An edit replaces the list, changes it item by item (each carries its id or its key),
\* or inserts: then the body carries no id, every execution adds an item of its own, and
\* plus are the copies, and the places they may take, of the one that is asked for.
\* A limit may be 0: nothing checks NV_MAX_ITEMS.  (A negative one is not modelled.)
ASSUME JobsAssumption ==
    \A j \in Jobs : /\ j.query \in Queries
                    /\ j.edit \in {"look", "replace", "change", "insert"}
                    /\ j.reads \in BOOLEAN
                    /\ j.plus \subseteq Items /\ j.minus \subseteq Items
                    /\ j.edit = "insert" => j.plus \cap j.minus = {}
                    /\ j.query.newest_first => j.edit = "look"   \* nothing edits a log
                    /\ j.edit = "look" => j.reads

VARIABLES stored,    \* the list
          log,       \* whether it is an event log, read newest first
          sorted,    \* whether the controller keeps a log in that order, see Leave
          job, pc,   \* per call
          at,        \* the start of the next GET
          shown,     \* the items the caller was shown
          more,      \* the last page said there is more (or there was no page yet)
          status, executed,                  \* the client, as AtLeastOnce has it
          stayed, shrunk, grown, repeated    \* history of a walk, see below

Client == INSTANCE AtLeastOnce WITH MaxExecutions <- MaxSends

\* What happened to the list during the walk of c: the items that were there all the
\* time; whether one that was walked past vanished while others were still ahead;
\* whether one appeared in the part walked past; whether one was shown twice.
history == <<stayed, shrunk, grown, repeated>>
walkVars == <<job, pc, at, shown, more, repeated>>
vars == <<stored, log, sorted, walkVars, status, executed, stayed, shrunk, grown>>
-----------------------------------------------------------------------------
(* The cut every read tool makes.                                          *)

\* How many items of S come before i.
Rank(S, i) == Cardinality({j \in S : j < i})

\* S[start : start + n]
Window(S, start, n) == {i \in S : Rank(S, i) \in start..(start + n - 1)}

Passing(S, fields) == {i \in S : Misses[i] \cap fields = {}}

Found(q, S) == Passing(S, q.asked \cup q.local)

page_items(q, S, start) == Window(Found(q, S), start, q.limit)
kept(q, S, start) == Passing(page_items(q, S, start), q.residual)

\* Mutant: only the limit is asked for.
fetched_exactly(q, S, start) == page_items(q, S, start)
\* One item more than the limit is asked for, to know whether there is more.
fetched(q, S, start) == Window(Found(q, S), start, q.limit + 1)

\* Mutants: the items that pass the residual filter are counted; a tool that has no
\* next page does not tell that it cut.
truncated_after_trim(q, S, start) ==
    Cardinality(Passing(fetched(q, S, start), q.residual)) > q.limit
truncated_if_paged(q, S, start) ==
    q.pages /\ fetched(q, S, start) # page_items(q, S, start)
truncated(q, S, start) == fetched(q, S, start) # page_items(q, S, start)

\* Mutants: the caller goes on after the items it was shown; at the last item.
next_start_by_returned(q, S, start) == start + Cardinality(kept(q, S, start))
next_start_at_last(q, S, start) == start + Cardinality(page_items(q, S, start)) - 1
next_start(q, S, start) == start + Cardinality(page_items(q, S, start))
-----------------------------------------------------------------------------
(* The list after a write.                                                 *)

query(c) == job[c].query
Reading(c) == pc[c] = "reading"

\* Sent by c: what it was shown, with its change; or only the change.
payload(c) == (shown[c] \ job[c].minus) \cup job[c].plus

\* The lists that may be left by one execution of the write of c.
\* Mutant: what is sent is added to what is there.
Merged(c, S) == {IF job[c].edit = "replace" THEN S \cup payload(c) ELSE S \cup job[c].plus}
Written(c, S) ==
    CASE job[c].edit = "replace" -> {payload(c)}
      [] job[c].edit = "insert"  -> {(S \ job[c].minus) \cup {i} : i \in job[c].plus \ S}
      [] OTHER                   -> {(S \ job[c].minus) \cup job[c].plus}

\* The list becomes S.
Becomes(S) ==
    LET past(q, T, i) == Rank(Found(q, T), i)
        Ahead(c) == \E i \in Found(query(c), stored) : past(query(c), stored, i) >= at[c]
        Lost(c) == \E i \in Found(query(c), stored) \ S : past(query(c), stored, i) < at[c]
        Gained(c) == \E i \in Found(query(c), S) \ stored : past(query(c), S, i) < at[c]
    IN  /\ stored' = S
        /\ stayed' = [c \in Calls |-> IF Reading(c) THEN stayed[c] \cap S ELSE stayed[c]]
        /\ shrunk' = [c \in Calls |-> shrunk[c] \/ (Reading(c) /\ Ahead(c) /\ Lost(c))]
        /\ grown' = [c \in Calls |-> grown[c] \/ (Reading(c) /\ Gained(c))]
-----------------------------------------------------------------------------
Init ==
    /\ stored \in SUBSET Items
    /\ log \in BOOLEAN
    /\ sorted \in BOOLEAN /\ (sorted => log)
    /\ job \in [Calls -> {j \in Jobs : j.query.newest_first = log}]
    /\ pc = [c \in Calls |-> "idle"]
    /\ at = [c \in Calls |-> 0]
    /\ shown = [c \in Calls |-> {}]
    /\ stayed = [c \in Calls |-> {}]
    /\ more = [c \in Calls |-> TRUE]
    /\ shrunk = [c \in Calls |-> FALSE]
    /\ grown = [c \in Calls |-> FALSE]
    /\ repeated = [c \in Calls |-> FALSE]
    /\ Client!Init

Goto(c, l) == pc' = [pc EXCEPT ![c] = l]

\* The caller asks for the list, or writes without having read.
Start(c) ==
    /\ pc[c] = "idle"
    /\ IF job[c].reads
       THEN /\ Goto(c, "reading")
            /\ at' = [at EXCEPT ![c] = query(c).start]
            /\ stayed' = [stayed EXCEPT ![c] = {i \in Found(query(c), stored) :
                             Rank(Found(query(c), stored), i) >= query(c).start}]
       ELSE Goto(c, "ready") /\ UNCHANGED <<at, stayed>>
    /\ UNCHANGED <<stored, log, sorted, job, shown, more, repeated, shrunk, grown,
                   status, executed>>

\* One GET and what the tool makes of it.  The caller calls again with the start of
\* the hint as long as there is more.
Read(c) ==
    LET q == query(c)
        cut == truncated(q, stored, at[c])
        page == kept(q, stored, at[c])
    IN  /\ Reading(c)
        /\ shown' = [shown EXCEPT ![c] = @ \cup page]
        /\ more' = [more EXCEPT ![c] = cut]
        /\ at' = [at EXCEPT ![c] = next_start(q, stored, @)]
        /\ repeated' = [repeated EXCEPT ![c] = @ \/ shown[c] \cap page # {}]
        /\ Goto(c, IF cut /\ q.pages THEN "reading"
                   ELSE IF job[c].edit = "look" THEN "shown"
                   ELSE IF cut THEN "truncated" ELSE "ready")
        /\ UNCHANGED <<stored, log, sorted, job, stayed, shrunk, grown, status, executed>>

ReadFails(c) ==
    /\ Reading(c)
    /\ Goto(c, "failed")
    /\ UNCHANGED <<stored, log, sorted, job, at, shown, more, history, status, executed>>

\* The write tool, past its plan and its guard.
Send(c) ==
    /\ pc[c] = "ready"
    /\ Goto(c, "writing")
    /\ Client!Begin(c)
    /\ UNCHANGED <<stored, log, sorted, job, at, shown, more, history>>

WriteOk(c) ==
    /\ Client!Succeed(c)
    /\ Goto(c, "ok")
    /\ UNCHANGED <<stored, log, sorted, job, at, shown, more, history>>

\* An error, a timeout or a cancellation: the write may be executed all the same.
WriteFails(c) ==
    /\ Client!Fail(c)
    /\ Goto(c, "failed")
    /\ UNCHANGED <<stored, log, sorted, job, at, shown, more, history>>

-----------------------------------------------------------------------------
(* The controller.                                                         *)

\* It executes a write of c: the first time, or a duplicate the client's retry left.  (An
\* insertion has as many copies as plus has items: a bound.)
Execute(c) ==
    /\ Client!Execute(c)
    /\ \E S \in Written(c, stored) : Becomes(S)
    /\ UNCHANGED <<log, sorted, walkVars>>

\* An event is reported, in front or late; an item of another list appears.
Arrive(i) ==
    /\ i \in Items \ stored
    /\ log \/ i \in Volatile
    /\ Becomes(stored \cup {i})
    /\ UNCHANGED <<log, sorted, walkVars, status, executed>>

\* The controller may ignore the order asked for, so nothing says which event expires
\* next; if it keeps the log newest first, it is the last.
Leave(i) ==
    /\ i \in stored
    /\ log \/ i \in Volatile
    /\ sorted => \A j \in stored : j <= i
    /\ Becomes(stored \ {i})
    /\ UNCHANGED <<log, sorted, walkVars, status, executed>>

CallNext(c) ==
    \/ Start(c) \/ Read(c) \/ ReadFails(c)
    \/ Send(c) \/ WriteOk(c) \/ WriteFails(c) \/ Execute(c)

Next == (\E c \in Calls : CallNext(c)) \/ (\E i \in Items : Arrive(i) \/ Leave(i))

Spec == Init /\ [][Next]_vars

\* The client ends every GET, by an answer or by an error, and the caller who is told
\* that there is more asks again.
Fairness == \A c \in Calls : WF_vars(Read(c))
FairSpec == Spec /\ Fairness
-----------------------------------------------------------------------------
(* Properties.                                                             *)

Stages == {"idle", "reading", "ready", "writing", "shown", "truncated", "failed", "ok"}

TypeOK ==
    /\ stored \subseteq Items
    /\ log \in BOOLEAN /\ sorted \in BOOLEAN
    /\ job \in [Calls -> {j \in Jobs : j.query.newest_first = log}]
    /\ pc \in [Calls -> Stages]
    /\ at \in [Calls -> Nat]
    /\ shown \in [Calls -> SUBSET Items]
    /\ stayed \in [Calls -> SUBSET Items]
    /\ more \in [Calls -> BOOLEAN]
    /\ shrunk \in [Calls -> BOOLEAN]
    /\ grown \in [Calls -> BOOLEAN]
    /\ repeated \in [Calls -> BOOLEAN]
    /\ status \in [Calls -> {"idle", "running", "ok", "failed"}]
    /\ executed \in [Calls -> SUBSET (1..MaxSends)]

Wanted(c) == Passing(stayed[c], query(c).asked \cup query(c).local \cup query(c).residual)

\* A walk whose last page said there is no more has shown every item that was there
\* from its first request to its last and passes the filters, unless an item already
\* walked past vanished meanwhile.
NoGaps == \A c \in Calls : ~more[c] /\ ~shrunk[c] => Wanted(c) \subseteq shown[c]

\* If the controller keeps an event log newest first, which the tool calls best effort,
\* a walk of it misses nothing that was there all the time, however many events are
\* reported, also late ones, and however many expire meanwhile.  (Of a log in another
\* order NoGaps says what is missed.)
SortedLogMissesNothing == \A c \in Calls : sorted /\ ~more[c] => Wanted(c) \subseteq shown[c]

\* A walk shows an item twice only if one appeared in the part already walked past.
NoRepeats == \A c \in Calls : repeated[c] => grown[c]

\* An item goes by the write of a caller who read the list first only if the caller was
\* shown it and meant it to go, or if the list changed during or after the read: the
\* item was not there all the time of the read, or one before it vanished.
LossNeedsStaleRead ==
    [][\A c \in Calls : \A i \in stored \ stored' :
          executed'[c] # executed[c] /\ job[c].reads =>
             \/ i \in job[c].minus \cap shown[c]
             \/ i \notin Wanted(c)
             \/ shrunk[c]]_vars

\* The hint of a truncated page leads on by a whole page and to an item of the list as it
\* is then, also when the filter left nothing of the page to show.  (If NV_MAX_ITEMS is 0,
\* a whole page is nothing, and the hint leads to where the caller is.)
HintLeadsOn ==
    \A c \in Calls :
       LET q == query(c)
           next == next_start(q, stored, at[c])
       IN  Reading(c) /\ q.pages /\ truncated(q, stored, at[c]) =>
              /\ next = at[c] + q.limit
              /\ \E i \in Found(q, stored) : Rank(Found(q, stored), i) = next

\* Whether the write of c is about i, what it makes of it, and whether of just this one:
\* an insertion leaves open which of its copies there will be.
Concerns(c, i) == job[c].edit = "replace" \/ i \in job[c].plus \cup job[c].minus
Wants(c, i) == IF job[c].edit = "replace" THEN i \in payload(c) ELSE i \in job[c].plus
Decides(c, i) == Concerns(c, i) /\ ~(job[c].edit = "insert" /\ i \in job[c].plus)

Stands(c, i) ==
    \/ i \in stored <=> Wants(c, i)
    \/ \E d \in Calls \ {c} :
          executed[d] # {} /\ Concerns(d, i) /\ ~(Wants(d, i) <=> Wants(c, i))

\* What a caller was told is done stays done, however often and late the request is
\* executed, until the list changes by itself or another caller's write opposes it: every
\* item is as the write left it, and of what it inserted one copy at least is there.
EditLasts ==
    \A c \in Calls : pc[c] = "ok" =>
       /\ \A i \in Items \ Volatile : Decides(c, i) => Stands(c, i)
       /\ job[c].edit = "insert" => \E i \in job[c].plus : i \in Volatile \/ Stands(c, i)

\* A walk ends, whatever shifts under it, unless NV_MAX_ITEMS is 0: each truncated page
\* moves it on, also one that the filter emptied.  (Items is finite: a list that grows as
\* fast as it is read, for ever, is walked for ever.)
EveryWalkEnds ==
    \A c \in Calls : (Reading(c) /\ query(c).limit > 0) ~> ~Reading(c)
=============================================================================
