----------------------------- MODULE RemoteCall -----------------------------
(***************************************************************************)
(* What a caller of a service relies on, without sockets, loop and pool:   *)
(* the handler of a call runs at most once, only after the call was made,  *)
(* and a call succeeds only with the value its own handler has returned.   *)
(* A call may fail at any time; its handler may then still run, so a call  *)
(* that is repeated may run twice.  Module Services implements this.       *)
(***************************************************************************)
CONSTANT Calls

VARIABLES
  call,      \* call -> "idle", "open", "ok", "failed"
  handler    \* call -> "no" (not run), "running", "returned", "raised"

vars == <<call, handler>>

Init ==
  /\ call = [c \in Calls |-> "idle"]
  /\ handler = [c \in Calls |-> "no"]

Begin(c) ==
  /\ call[c] = "idle"
  /\ call' = [call EXCEPT ![c] = "open"]
  /\ UNCHANGED handler

Run(c) ==
  /\ call[c] # "idle"
  /\ handler[c] = "no"
  /\ handler' = [handler EXCEPT ![c] = "running"]
  /\ UNCHANGED call

Finish(c) ==
  /\ handler[c] = "running"
  /\ \E result \in {"returned", "raised"} : handler' = [handler EXCEPT ![c] = result]
  /\ UNCHANGED call

Succeed(c) ==
  /\ call[c] = "open"
  /\ handler[c] = "returned"
  /\ call' = [call EXCEPT ![c] = "ok"]
  /\ UNCHANGED handler

Fail(c) ==
  /\ call[c] \in {"idle", "open"}
  /\ call' = [call EXCEPT ![c] = "failed"]
  /\ UNCHANGED handler

Next == \E c \in Calls : Begin(c) \/ Run(c) \/ Finish(c) \/ Succeed(c) \/ Fail(c)

Spec == Init /\ [][Next]_vars
=============================================================================
