------------------------------ MODULE NVClient ------------------------------
(***************************************************************************)
(* The request path of client.py: NeuVectorClient.request with its retry   *)
(* loop, the re-login on 401 under _login_lock, login and logout, run by   *)
(* any number of concurrent tool calls on one asyncio loop against one     *)
(* controller over a network that may lose or delay what it carries.       *)
(*                                                                         *)
(* A step of a call runs from one await to the next, which is what asyncio *)
(* makes atomic.  A call is one invocation of request(); its program       *)
(* counter pc[c] is the await it stands at:                                *)
(*   idle      not yet invoked          ready     about to send            *)
(*   await     in _http.request         backoff   in asyncio.sleep         *)
(*   lockwait  in _login_lock.acquire   login     in _http.post("/v1/auth")*)
(*   done      returned or raised                                          *)
(*                                                                         *)
(* Credentials are numbers.  In password mode they are the session tokens  *)
(* in the order the controller issued them; in apikey mode the key is      *)
(* credential 1 and there is no other.  The model starts where lifespan()  *)
(* has logged in and yielded.                                              *)
(***************************************************************************)
EXTENDS Naturals, FiniteSets, NVErrors

CONSTANTS Calls,         \* the invocations of request()
          NoCall,        \* "the login lock is free"
          MaxAttempts,   \* _MAX_ATTEMPTS
          AuthModes,     \* the values of settings.auth_mode considered
          ErrorReplies   \* the error answers the controller may choose to give

Ok == [status |-> 200, code |-> NoCode]
Unauthorized == [status |-> 401, code |-> 3]
NoReply == [status |-> 0, code |-> NoCode]

ASSUME CallsAssumption == NoCall \notin Calls /\ IsFiniteSet(Calls)
ASSUME AttemptsAssumption == MaxAttempts \in Nat \ {0}
ASSUME ModesAssumption == AuthModes \subseteq {"password", "apikey"}
\* A 401 is the controller's answer to a credential it does not know, so it is
\* not among the answers it chooses freely.
ASSUME RepliesAssumption ==
    /\ ErrorReplies \subseteq [status : 300..599, code : Nat]
    /\ \A r \in ErrorReplies : r.status # 401

None == 0           \* self._token is None
FirstCredential == 1

VARIABLES
    \* the process
    authMode,   \* settings.auth_mode, frozen
    phase,      \* of lifespan(): "serving" until its finally block ran
    token,      \* NeuVectorClient._token
    lock,       \* the call that holds _login_lock, or NoCall
    \* one invocation of request()
    pc,
    hdr,        \* the credential in `headers`, read once per invocation
    attempt,    \* `attempt`
    relogin,    \* `_relogin_done`
    ahead,      \* the calls already waiting for the lock when this one queued
    sends,      \* requests put on the wire for this call, over both invocations
    outcome,    \* "none", "ok", "cancelled", "raw" or an error class
    \* the controller and the network
    reply,      \* the answer on its way to the call, or NoReply
    granted,    \* the session issued to this call's login, or None
    net,        \* requests the controller has not handled yet
    authNet,    \* the calls whose POST /v1/auth is not handled yet
    live,       \* the credentials the controller accepts
    issued,     \* how many credentials it ever issued
    executed    \* executed[c]: the sends of c that took effect

processVars == <<authMode, phase, token, lock>>
callVars == <<pc, hdr, attempt, relogin, ahead, sends, outcome>>
serverVars == <<net, authNet, live, issued, executed>>
vars == <<processVars, callVars, reply, granted, serverVars>>

PcValues == {"idle", "ready", "await", "backoff", "lockwait", "login", "done"}
Outcomes == {"none", "ok", "cancelled", "raw"} \cup ErrorClasses
Answer == [status : Nat, code : Nat]
Request == [call : Calls, n : Nat, cred : Nat]

TypeOK ==
    /\ authMode \in AuthModes
    /\ phase \in {"serving", "stopped"}
    /\ token \in Nat
    /\ lock \in Calls \cup {NoCall}
    /\ pc \in [Calls -> PcValues]
    /\ hdr \in [Calls -> Nat]
    /\ attempt \in [Calls -> 0..MaxAttempts]
    /\ relogin \in [Calls -> BOOLEAN]
    /\ ahead \in [Calls -> SUBSET Calls]
    /\ sends \in [Calls -> Nat]
    /\ outcome \in [Calls -> Outcomes]
    /\ reply \in [Calls -> Answer]
    /\ granted \in [Calls -> Nat]
    /\ net \subseteq Request
    /\ authNet \subseteq Calls
    /\ live \subseteq 1..issued
    /\ issued \in Nat
    /\ executed \in [Calls -> SUBSET Nat]

Init ==
    /\ authMode \in AuthModes
    /\ phase = "serving"
    /\ token = IF authMode = "password" THEN FirstCredential ELSE None
    /\ lock = NoCall
    /\ pc = [c \in Calls |-> "idle"]
    /\ hdr = [c \in Calls |-> None]
    /\ attempt = [c \in Calls |-> 0]
    /\ relogin = [c \in Calls |-> FALSE]
    /\ ahead = [c \in Calls |-> {}]
    /\ sends = [c \in Calls |-> 0]
    /\ outcome = [c \in Calls |-> "none"]
    /\ reply = [c \in Calls |-> NoReply]
    /\ granted = [c \in Calls |-> None]
    /\ net = {}
    /\ authNet = {}
    /\ live = {FirstCredential}
    /\ issued = 1
    /\ executed = [c \in Calls |-> {}]
-----------------------------------------------------------------------------
(* The client.                                                             *)

\* Mutant: the headers are built once for the process.
AuthHeaders_Cached == FirstCredential

AuthHeaders == IF authMode = "apikey" THEN FirstCredential ELSE token

Finish(c, result) ==
    /\ pc' = [pc EXCEPT ![c] = "done"]
    /\ outcome' = [outcome EXCEPT ![c] = result]

\* request() is invoked: the headers are built before the retry loop.
Start(c) ==
    /\ phase = "serving"
    /\ pc[c] = "idle"
    /\ pc' = [pc EXCEPT ![c] = "ready"]
    /\ hdr' = [hdr EXCEPT ![c] = AuthHeaders]
    /\ UNCHANGED <<processVars, attempt, relogin, ahead, sends, outcome, reply,
                   granted, serverVars>>

\* The head of the loop up to the await of _http.request.
Send(c) ==
    /\ pc[c] = "ready"
    /\ pc' = [pc EXCEPT ![c] = "await"]
    /\ attempt' = [attempt EXCEPT ![c] = @ + 1]
    /\ sends' = [sends EXCEPT ![c] = @ + 1]
    /\ net' = net \cup {[call |-> c, n |-> sends[c] + 1, cred |-> hdr[c]]}
    /\ UNCHANGED <<processVars, hdr, relogin, ahead, outcome, reply, granted,
                   authNet, live, issued, executed>>

Answered(c) == pc[c] = "await" /\ reply[c] # NoReply
ClearReply(c) == reply' = [reply EXCEPT ![c] = NoReply]

\* Mutant: only 5xx answers count as failures.
IsSuccess_Lenient(r) == r.status < 500

IsSuccess(r) == r.status \in 200..299

RequestOk(c) ==
    /\ Answered(c)
    /\ IsSuccess(reply[c])
    /\ Finish(c, "ok")
    /\ ClearReply(c)
    /\ UNCHANGED <<processVars, hdr, attempt, relogin, ahead, sends, granted,
                   serverVars>>

\* Mutant: the recursion guard `not _relogin_done` is forgotten.
MayRelogin_Loops(c) == reply[c].status = 401 /\ authMode = "password"

\* Mutant: a denied operation is taken for a refused session.
MayRelogin_OnDenied(c) ==
    reply[c].status \in {401, 403} /\ authMode = "password" /\ ~relogin[c]

MayRelogin(c) ==
    /\ reply[c].status = 401
    /\ authMode = "password"
    /\ ~relogin[c]

\* The call queues for the login lock; asyncio.Lock serves its waiters in order.
RequestUnauthorized(c) ==
    /\ Answered(c)
    /\ MayRelogin(c)
    /\ pc' = [pc EXCEPT ![c] = "lockwait"]
    /\ ahead' = [ahead EXCEPT ![c] = {d \in Calls : pc[d] = "lockwait"}]
    /\ ClearReply(c)
    /\ UNCHANGED <<processVars, hdr, attempt, relogin, sends, outcome, granted,
                   serverVars>>

RequestRefused(c) ==
    /\ Answered(c)
    /\ ~IsSuccess(reply[c])
    /\ ~MayRelogin(c)
    /\ ~IsRetryable(reply[c])
    /\ Finish(c, Classify(reply[c]))
    /\ ClearReply(c)
    /\ UNCHANGED <<processVars, hdr, attempt, relogin, ahead, sends, granted,
                   serverVars>>

\* Mutants: one attempt too many; no retry at all.
RetryOrRaise_OneMore(c, class) ==
    IF attempt[c] <= MaxAttempts
    THEN pc' = [pc EXCEPT ![c] = "backoff"] /\ UNCHANGED outcome
    ELSE Finish(c, class)
RetryOrRaise_AtOnce(c, class) == Finish(c, class)

\* The foot of the loop: sleep and go round, or raise last_exc.
RetryOrRaise(c, class) ==
    IF attempt[c] < MaxAttempts
    THEN pc' = [pc EXCEPT ![c] = "backoff"] /\ UNCHANGED outcome
    ELSE Finish(c, class)

RequestTransient(c) ==
    /\ Answered(c)
    /\ ~IsSuccess(reply[c])
    /\ ~MayRelogin(c)
    /\ IsRetryable(reply[c])
    /\ RetryOrRaise(c, Classify(reply[c]))
    /\ ClearReply(c)
    /\ UNCHANGED <<processVars, hdr, attempt, relogin, ahead, sends, granted,
                   serverVars>>

\* A timeout or a broken connection.  The request may have been handled (its
\* answer is lost), may still be in net and be handled later, or never.
RequestLost(c) ==
    /\ pc[c] = "await"
    /\ RetryOrRaise(c, "UpstreamError")
    /\ ClearReply(c)
    /\ UNCHANGED <<processVars, hdr, attempt, relogin, ahead, sends, granted,
                   serverVars>>

Wake(c) ==
    /\ pc[c] = "backoff"
    /\ pc' = [pc EXCEPT ![c] = "ready"]
    /\ UNCHANGED <<processVars, hdr, attempt, relogin, ahead, sends, outcome, reply,
                   granted, serverVars>>

\* Mutant: a waiter that gave up stays in the queue.
NextInLine_Stale(c) == ahead[c] = {}

NextInLine(c) == \A d \in ahead[c] : pc[d] # "lockwait"

\* Mutant: login() runs without the lock.
LockFree_Always == TRUE

LockFree == lock = NoCall

\* `async with self._login_lock`, then login() up to the await of its POST.
AcquireLock(c) ==
    /\ pc[c] = "lockwait"
    /\ LockFree
    /\ NextInLine(c)
    /\ lock' = c
    /\ pc' = [pc EXCEPT ![c] = "login"]
    /\ authNet' = authNet \cup {c}
    /\ UNCHANGED <<authMode, phase, token, hdr, attempt, relogin, ahead, sends,
                   outcome, reply, granted, net, live, issued, executed>>

LoginAnswered(c) == pc[c] = "login" /\ reply[c] # NoReply

\* Mutants: a path that leaves the lock held.
Release_Forgotten == lock' = lock
ReleaseIfHeld_Forgotten(c) == lock' = lock

Release == lock' = NoCall
ReleaseIfHeld(c) == lock' = IF lock = c THEN NoCall ELSE lock

\* login() stores the token and releases the lock, and request() recurses: the
\* recursion reads its headers before the first await.
LoginOk(c) ==
    /\ LoginAnswered(c)
    /\ reply[c].status = 200
    /\ granted[c] # None
    /\ UNCHANGED authMode
    /\ token' = granted[c]
    /\ Release
    /\ pc' = [pc EXCEPT ![c] = "ready"]
    /\ hdr' = [hdr EXCEPT ![c] = AuthHeaders']
    /\ attempt' = [attempt EXCEPT ![c] = 0]
    /\ relogin' = [relogin EXCEPT ![c] = TRUE]
    /\ ClearReply(c)
    /\ UNCHANGED <<phase, ahead, sends, outcome, granted, serverVars>>

\* A status other than 200 is classified; a 200 without a token is an AuthError.
LoginRefused(c) ==
    /\ LoginAnswered(c)
    /\ \/ /\ reply[c].status # 200
          /\ Finish(c, Classify(reply[c]))
       \/ /\ reply[c].status = 200
          /\ granted[c] = None
          /\ Finish(c, "AuthError")
    /\ Release
    /\ ClearReply(c)
    /\ UNCHANGED <<authMode, phase, token, hdr, attempt, relogin, ahead, sends,
                   granted, serverVars>>

\* The POST times out, the connection breaks or the body is not JSON: login()
\* catches nothing, and no handler of request() covers its else clause.
LoginBroken(c) ==
    /\ pc[c] = "login"
    /\ Finish(c, "raw")
    /\ Release
    /\ ClearReply(c)
    /\ UNCHANGED <<authMode, phase, token, hdr, attempt, relogin, ahead, sends,
                   granted, serverVars>>

\* The MCP client cancels the tool call: CancelledError is raised at its await,
\* and the `async with` releases the lock if the call holds it.
Cancel(c) ==
    /\ pc[c] \notin {"idle", "done"}
    /\ Finish(c, "cancelled")
    /\ ReleaseIfHeld(c)
    /\ ClearReply(c)
    /\ UNCHANGED <<authMode, phase, token, hdr, attempt, relogin, ahead, sends,
                   granted, serverVars>>

\* The finally block of lifespan(), once no call is in flight: logout() tries to
\* end the session the client holds now, ignores a transport error and forgets it.
Shutdown ==
    /\ phase = "serving"
    /\ \A c \in Calls : pc[c] \in {"idle", "done"}
    /\ phase' = "stopped"
    /\ token' = None
    /\ live' \in IF authMode = "password" THEN {live, live \ {token}} ELSE {live}
    /\ UNCHANGED <<authMode, lock, callVars, reply, granted, net, authNet, issued,
                   executed>>
-----------------------------------------------------------------------------
(* The controller and the network, as the client meets them.               *)

\* Only the answer to the send the call is waiting for reaches it, and of two only the
\* first.
Deliver(m, r) ==
    reply' = IF /\ pc[m.call] = "await" /\ m.n = sends[m.call]
                /\ reply[m.call] = NoReply
             THEN [reply EXCEPT ![m.call] = r]
             ELSE reply

Handled(m) == net' = net \ {m}
TakesEffect(m) == executed' = [executed EXCEPT ![m.call] = @ \cup {m.n}]

ControllerAccepts(m) ==
    /\ m.cred \in live
    /\ Handled(m)
    /\ TakesEffect(m)
    /\ Deliver(m, Ok)
    /\ UNCHANGED <<processVars, callVars, granted, authNet, live, issued>>

ControllerRejects(m) ==
    /\ m.cred \notin live
    /\ Handled(m)
    /\ Deliver(m, Unauthorized)
    /\ UNCHANGED <<processVars, callVars, granted, authNet, live, issued, executed>>

\* Any error, a retryable one or not.  Nobody knows whether the operation took effect
\* first: neither the status nor the code says so.
ControllerFails(m) ==
    /\ m.cred \in live
    /\ Handled(m)
    /\ TakesEffect(m) \/ UNCHANGED executed
    /\ \E r \in ErrorReplies : Deliver(m, r)
    /\ UNCHANGED <<processVars, callVars, granted, authNet, live, issued>>

\* A proxy before the controller answers in its place and leaves the request on its
\* way: the controller may still execute it.  That such an answer is one of the three
\* below is what these statuses mean in HTTP; nothing in the repository ensures it.
GatewayStatuses == {502, 503, 504}
GatewayGivesUp(m) ==
    /\ \E r \in ErrorReplies : r.status \in GatewayStatuses /\ Deliver(m, r)
    /\ UNCHANGED <<processVars, callVars, granted, serverVars>>

DeliverAuth(c, r) ==
    reply' = IF pc[c] = "login" THEN [reply EXCEPT ![c] = r] ELSE reply

ControllerGrants(c) ==
    /\ c \in authNet
    /\ authNet' = authNet \ {c}
    /\ issued' = issued + 1
    /\ live' = live \cup {issued + 1}
    /\ granted' = [granted EXCEPT ![c] = issued + 1]
    /\ DeliverAuth(c, Ok)
    /\ UNCHANGED <<processVars, callVars, net, executed>>

\* Bad or blocked credentials, too many sessions, any error, or a 200 whose body
\* carries no token.
ControllerDeniesLogin(c) ==
    /\ c \in authNet
    /\ authNet' = authNet \ {c}
    /\ \E r \in ErrorReplies \cup {Unauthorized, Ok} : DeliverAuth(c, r)
    /\ UNCHANGED <<processVars, callVars, granted, net, live, issued, executed>>

\* The idle timeout of a session, an expired key, a restarted controller.
Expire(s) ==
    /\ s \in live
    /\ live' = live \ {s}
    /\ UNCHANGED <<processVars, callVars, reply, granted, net, authNet, issued,
                   executed>>
-----------------------------------------------------------------------------
ClientStep(c) ==
    \/ Send(c)
    \/ RequestOk(c)
    \/ RequestUnauthorized(c)
    \/ RequestRefused(c)
    \/ RequestTransient(c)
    \/ RequestLost(c)
    \/ Wake(c)
    \/ AcquireLock(c)
    \/ LoginOk(c)
    \/ LoginRefused(c)
    \/ LoginBroken(c)

ControllerStep ==
    \/ \E m \in net : \/ ControllerAccepts(m)
                      \/ ControllerRejects(m)
                      \/ ControllerFails(m)
                      \/ GatewayGivesUp(m)
    \/ \E c \in authNet : ControllerGrants(c) \/ ControllerDeniesLogin(c)
    \/ \E s \in live : Expire(s)

Next ==
    \/ \E c \in Calls : Start(c) \/ ClientStep(c) \/ Cancel(c)
    \/ Shutdown
    \/ ControllerStep

Spec == Init /\ [][Next]_vars

\* The event loop runs every call that can run, and httpx bounds every wait for
\* an answer with a timeout (RequestLost, LoginBroken).  Nothing is assumed of
\* the controller, the network, the caller or the end of the process.
FairSpec == Spec /\ \A c \in Calls : WF_vars(ClientStep(c))
-----------------------------------------------------------------------------
(* Properties.                                                             *)

\* The lock is held exactly while a login is on its way: two tool calls never
\* log in at once, and no path out of a call (an answer, an error, a
\* cancellation) leaves the lock behind for the others to wait on.
LoginHoldsLock == \A c \in Calls : lock = c <=> pc[c] = "login"

\* A call puts at most MaxAttempts requests on the wire before its re-login and
\* at most MaxAttempts after it, whatever the network and the sessions do.
SendBudget ==
    \A c \in Calls :
       /\ sends[c] <= 2 * MaxAttempts
       /\ ~relogin[c] => sends[c] <= MaxAttempts

\* A tool reports "applied" only for an operation the controller executed, even
\* when answers of earlier attempts were lost or a session expired in between.
OkMeansExecuted == \A c \in Calls : outcome[c] = "ok" => executed[c] # {}

InFlight(c) == {m \in net : m.call = c}

\* An error raised after a single send is settled: the operation may have been executed,
\* whatever the error says, but nothing of it is still on its way, so a caller who now
\* looks sees what will stay.  (Timeouts and the answers of a proxy, which leave that
\* open, are tried again: this says nothing of errors after two sends.)
OneSendErrorIsSettled ==
    MaxAttempts > 1 =>
       \A c \in Calls :
          outcome[c] \in ErrorClasses /\ sends[c] = 1 => InFlight(c) = {}

\* In password mode a request is answered into an AuthError only if the session that
\* its own re-login obtained died, after an older one had: headers that went stale
\* while the call slept or waited cost the one re-login and never an error.  (The
\* re-login itself may be refused: that is another AuthError.)
AuthErrorMeansOwnSessionDied ==
    [][\A c \in Calls :
          Answered(c) /\ authMode = "password" /\ outcome'[c] = "AuthError" =>
             /\ granted[c] # None /\ hdr[c] = granted[c]
             /\ granted[c] \notin live
             /\ \E s \in (1..issued) \ live : s < granted[c]]_vars

\* A session the controller still accepts is replaced, and so left open until it
\* expires, only by a call that was refused with an older one and queued for the lock
\* meanwhile: no other path logs in without need.
OrphansNeedARace ==
    [][token' # token /\ token \in live /\ phase' = "serving" =>
          \E c \in Calls : lock = c /\ hdr[c] < token]_vars

\* A process never asks for more sessions than one at startup and one for each
\* call: what the concurrent logins leave behind on the controller is bounded.
SessionsBounded == issued + Cardinality(authNet) <= 1 + Cardinality(Calls)

\* The shared token only moves to a newer session until logout clears it: a slow
\* login never overwrites the token of a faster, later one.
TokenNeverGoesBack == [][token' # None => token' >= token]_vars

Waiting == {c \in Calls : pc[c] = "lockwait"}

\* The queue for the login lock never stalls and never forks: as long as calls wait
\* for the lock, exactly one of them is next, also after waiters ahead of others were
\* cancelled or logged in and came back.
OneIsNext ==
    Waiting # {} => \E c \in Waiting : \A d \in Waiting : NextInLine(d) <=> d = c

\* How many steps a call can still take at most: three for an attempt (send, fail,
\* wake), for two loops of MaxAttempts, the first of which may end in a re-login.
StepsLeft(c) ==
    LET stage == CASE pc[c] = "await" -> 2
                   [] pc[c] \in {"backoff", "lockwait"} -> 1
                   [] OTHER -> 0
        loop == 3 * (MaxAttempts - attempt[c]) + stage
    IN  CASE pc[c] = "done" -> 0
          [] pc[c] = "idle" -> 6 * MaxAttempts + 1
          [] OTHER -> IF relogin[c] THEN loop - 1 ELSE loop + 3 * MaxAttempts

\* Every step of a call brings it nearer to its end, whatever answers it gets and
\* whatever the other calls do: no retry, re-login or wait for the lock ever starts
\* the count anew.
EveryStepIsProgress ==
    [][\A c \in Calls : pc'[c] # pc[c] => StepsLeft(c)' < StepsLeft(c)]_vars

\* Every call ends, whether or not the controller ever answers: no call waits for
\* the login lock for ever.
EveryCallEnds == \A c \in Calls : (pc[c] = "ready") ~> (pc[c] = "done")

\* What the caller of request() has been told.
Status(c) ==
    IF pc[c] = "idle" THEN "idle"
    ELSE IF outcome[c] = "none" THEN "running"
    ELSE IF outcome[c] = "ok" THEN "ok" ELSE "failed"

Promise == INSTANCE AtLeastOnce WITH
              MaxExecutions <- 2 * MaxAttempts,
              status <- [c \in Calls |-> Status(c)]

\* The request path keeps the promise of AtLeastOnce.
ImplementsAtLeastOnce == Promise!Spec

\* SPEC.md 7.2: after the re-login "the original request is retried once. Never
\* a second time."
RetriedOnceAfterRelogin == \A c \in Calls : relogin[c] => attempt[c] <= 1

\* errors.py:11: every exception raised out of a tool function is a ToolError
\* subclass, so request() raises nothing else.
OnlyToolErrors == \A c \in Calls : outcome[c] # "raw"

\* Appendix D, error table: code 3 means "re-login once (password mode) then
\* surface as AuthError", whatever the HTTP status that carries it.
CodeThreeRelogs ==
    [][\A c \in Calls :
          (/\ Answered(c)
           /\ reply[c].code = 3
           /\ authMode = "password"
           /\ ~relogin[c])
             => outcome'[c] # "AuthError"]_vars
=============================================================================
