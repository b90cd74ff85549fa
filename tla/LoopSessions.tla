---------------------------- MODULE LoopSessions -----------------------------
(***************************************************************************)
(* What the life cycle of nodes relies on of TaskLoopManager, without      *)
(* threads, locks and callbacks: loop managers are made one after the      *)
(* other, a closed loop stays closed, and a manager is given up only when  *)
(* its loop is closed.  So an open loop is always that of the singleton.   *)
(* Modules LoopManager and Lifecycle implement this.                       *)
(***************************************************************************)
CONSTANTS Managers, None

VARIABLES
  instance,   \* the singleton, or None
  made,       \* managers that have been the singleton
  closed      \* those whose loop is closed

vars == <<instance, made, closed>>

Init ==
  /\ instance = None
  /\ made = {}
  /\ closed = {}

Make(m) ==
  /\ instance = None
  /\ m \notin made
  /\ instance' = m
  /\ made' = made \cup {m}
  /\ UNCHANGED closed

(* By stop, or by a coroutine that takes the loop down. *)
Close(m) ==
  /\ m \in made \ closed
  /\ closed' = closed \cup {m}
  /\ UNCHANGED <<instance, made>>

Unset ==
  /\ instance \in closed
  /\ instance' = None
  /\ UNCHANGED <<made, closed>>

Next ==
  \/ \E m \in Managers : Make(m) \/ Close(m)
  \/ Unset

Spec == Init /\ [][Next]_vars
=============================================================================
