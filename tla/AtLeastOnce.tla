----------------------------- MODULE AtLeastOnce -----------------------------
(***************************************************************************)
(* What a tool may rely on when it hands one operation to the client: the  *)
(* call ends, an "ok" means the controller executed the operation at least *)
(* once, and the controller executes it at most MaxExecutions times.  An   *)
(* error promises nothing: the operation may have been executed, and may   *)
(* even be executed after the error was reported.                          *)
(*                                                                         *)
(* NVClient, the request path of client.py, implements this specification. *)
(***************************************************************************)
EXTENDS Naturals

CONSTANTS Calls,          \* the operations handed to the client
          MaxExecutions   \* how often one operation may reach the controller

VARIABLES status,    \* status[c]: what the caller has been told
          executed   \* executed[c]: the deliveries of c that took effect

vars == <<status, executed>>

Init ==
    /\ status = [c \in Calls |-> "idle"]
    /\ executed = [c \in Calls |-> {}]

Begin(c) ==
    /\ status[c] = "idle"
    /\ status' = [status EXCEPT ![c] = "running"]
    /\ UNCHANGED executed

\* One delivery takes effect: while the caller waits, or after it gave up.
Execute(c) ==
    /\ status[c] # "idle"
    /\ \E n \in (1..MaxExecutions) \ executed[c] :
          executed' = [executed EXCEPT ![c] = @ \cup {n}]
    /\ UNCHANGED status

Succeed(c) ==
    /\ status[c] = "running"
    /\ executed[c] # {}
    /\ status' = [status EXCEPT ![c] = "ok"]
    /\ UNCHANGED executed

Fail(c) ==
    /\ status[c] = "running"
    /\ status' = [status EXCEPT ![c] = "failed"]
    /\ UNCHANGED executed

Next == \E c \in Calls : Begin(c) \/ Execute(c) \/ Succeed(c) \/ Fail(c)

Spec == Init /\ [][Next]_vars

\* Every call ends: the part of the promise that needs the scheduler.
FairSpec == Spec /\ \A c \in Calls : WF_vars(Succeed(c) \/ Fail(c))
=============================================================================
