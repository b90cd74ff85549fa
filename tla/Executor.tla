------------------------------ MODULE Executor ------------------------------
(***************************************************************************)
(* What the users of an executor rely on, without queue and threads: a     *)
(* task is accepted only while the executor is open, its function is       *)
(* called at most once and never after a successful cancel, and the        *)
(* executor is drained only when it is closed and nothing is left to do.   *)
(* A task is "abandoned" when its function takes its thread down: its      *)
(* future stays in the state RUNNING.  Module ThreadPool implements this.  *)
(***************************************************************************)
CONSTANT Tasks

VARIABLES
  task,      \* task -> its state
  open,      \* tasks are accepted
  drained    \* a waiting shutdown has returned

vars == <<task, open, drained>>

Over == {"none", "done", "cancelled", "abandoned"}

Init ==
  /\ task = [t \in Tasks |-> "none"]
  /\ open = TRUE
  /\ drained = FALSE

Moves(t, from, to) ==
  /\ task[t] = from
  /\ task' = [task EXCEPT ![t] = to]
  /\ UNCHANGED <<open, drained>>

Accept(t) == open /\ Moves(t, "none", "pending")
Cancel(t) == Moves(t, "pending", "cancelled")
Call(t) == Moves(t, "pending", "running")
Finish(t) == Moves(t, "running", "done") \/ Moves(t, "running", "abandoned")

Close ==
  /\ open' = FALSE
  /\ UNCHANGED <<task, drained>>

Drain ==
  /\ ~ open
  /\ \A t \in Tasks : task[t] \in Over
  /\ drained' = TRUE
  /\ UNCHANGED <<task, open>>

Next ==
  \/ \E t \in Tasks : Accept(t) \/ Cancel(t) \/ Call(t) \/ Finish(t)
  \/ Close
  \/ Drain

Spec == Init /\ [][Next]_vars
=============================================================================
