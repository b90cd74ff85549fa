----------------------------- MODULE ThreadPool -----------------------------
(***************************************************************************)
(* DaemonThreadPoolExecutor (src/src/pyzlc/nodes/loop_manager.py): worker  *)
(* threads that poll a queue.Queue, the futures of the submitted tasks,    *)
(* and a shutdown that waits on Queue.join.                                *)
(*                                                                         *)
(* submit and shutdown hold the lock, so each is one step against the      *)
(* other; the workers take no lock, and everything one of them reads or    *)
(* writes is a step of its own.                                            *)
(***************************************************************************)
EXTENDS Integers, Sequences, FiniteSets

CONSTANTS
  Tasks,     \* calls of submit
  Workers,   \* as many thread slots as _max_workers
  Exits,     \* tasks whose function may raise a BaseException (sys.exit())
  NoTask

ASSUME PoolAssumption ==
  /\ IsFiniteSet(Workers)
  /\ NoTask \notin Tasks
  /\ Exits \subseteq Tasks

VARIABLES
  work_queue,   \* _work_queue: tasks in the order of submission
  unfinished,   \* its counter unfinished_tasks: put minus task_done
  future,       \* task -> state of its Future
  worker,       \* worker thread -> where it is in _worker
  item,         \* worker thread -> the task it has taken from the queue
  shutdown,     \* _shutdown
  waiter        \* the caller of shutdown(wait=True)

queueVars == <<work_queue, unfinished>>
workerVars == <<worker, item>>
vars == <<queueVars, future, workerVars, shutdown, waiter>>

FutureStates == {"none", "pending", "running", "finished", "cancelled", "notified"}

Alive == {"get", "empty", "got", "call", "leave", "resolved"}
WorkerStates == Alive \cup {"none", "exited", "killed"}

TypeOK ==
  /\ work_queue \in Seq(Tasks)
  /\ unfinished \in Nat
  /\ future \in [Tasks -> FutureStates]
  /\ worker \in [Workers -> WorkerStates]
  /\ item \in [Workers -> Tasks \cup {NoTask}]
  /\ shutdown \in BOOLEAN
  /\ waiter \in {"none", "joining", "returned"}

Init ==
  /\ work_queue = <<>>
  /\ unfinished = 0
  /\ future = [t \in Tasks |-> "none"]
  /\ worker = [w \in Workers |-> "none"]
  /\ item = [w \in Workers |-> NoTask]
  /\ shutdown = FALSE
  /\ waiter = "none"

-----------------------------------------------------------------------------
(* Callers. *)

(***************************************************************************)
(* len(self._threads) < self._max_workers: a slot is free.  A thread that  *)
(* was killed by an exception never removes itself from _threads.          *)
(***************************************************************************)
SpawnWorker ==
  LET free == {w \in Workers : worker[w] \in {"none", "exited"}} IN
  IF free = {} THEN UNCHANGED worker
  ELSE \E w \in free : worker' = [worker EXCEPT ![w] = "get"]

Submit(t) ==
  /\ ~ shutdown
  /\ future[t] = "none"
  /\ future' = [future EXCEPT ![t] = "pending"]
  /\ work_queue' = Append(work_queue, t)
  /\ unfinished' = unfinished + 1
  /\ SpawnWorker
  /\ UNCHANGED <<item, shutdown, waiter>>

(* Future.cancel, also called by asyncio for an await that is cancelled. *)
Cancel(t) ==
  /\ future[t] = "pending"
  /\ future' = [future EXCEPT ![t] = "cancelled"]
  /\ UNCHANGED <<queueVars, workerVars, shutdown, waiter>>

Shutdown ==
  /\ waiter = "none"
  /\ shutdown' = TRUE
  /\ waiter' = "joining"
  /\ UNCHANGED <<queueVars, future, workerVars>>

(* Queue.join *)
JoinReturns ==
  /\ waiter = "joining"
  /\ unfinished = 0
  /\ waiter' = "returned"
  /\ UNCHANGED <<queueVars, future, workerVars, shutdown>>

-----------------------------------------------------------------------------
(* Worker threads. *)

Step(w, from, to) ==
  /\ worker[w] = from
  /\ worker' = [worker EXCEPT ![w] = to]

(* Not the code: the task is counted as done when it is taken. *)
GetCountsDone(w) ==
  /\ Step(w, "get", "got")
  /\ work_queue # <<>>
  /\ item' = [item EXCEPT ![w] = Head(work_queue)]
  /\ work_queue' = Tail(work_queue)
  /\ unfinished' = unfinished - 1
  /\ UNCHANGED <<future, shutdown, waiter>>

Get(w) ==
  /\ Step(w, "get", "got")
  /\ work_queue # <<>>
  /\ item' = [item EXCEPT ![w] = Head(work_queue)]
  /\ work_queue' = Tail(work_queue)
  /\ UNCHANGED <<unfinished, future, shutdown, waiter>>

(* After 0.5 seconds: queue.Empty; only then _shutdown is read. *)
GetTimesOut(w) ==
  /\ Step(w, "get", "empty")
  /\ work_queue = <<>>
  /\ UNCHANGED <<queueVars, future, item, shutdown, waiter>>

(* Not the code: an idle worker leaves at once. *)
PollAlwaysLeaves(w) ==
  /\ Step(w, "empty", "exited")
  /\ UNCHANGED <<queueVars, future, item, shutdown, waiter>>

PollShutdown(w) ==
  /\ Step(w, "empty", IF shutdown THEN "exited" ELSE "get")
  /\ UNCHANGED <<queueVars, future, item, shutdown, waiter>>

(* set_running_or_notify_cancel *)
Begin(w) ==
  /\ Step(w, "got", "call")
  /\ future[item[w]] = "pending"
  /\ future' = [future EXCEPT ![item[w]] = "running"]
  /\ UNCHANGED <<queueVars, item, shutdown, waiter>>

TaskDone(w) ==
  /\ unfinished' = unfinished - 1
  /\ item' = [item EXCEPT ![w] = NoTask]

(* Not the code: "break" for "continue". *)
SkipCancelledLeaves(w) ==
  /\ Step(w, "got", "exited")
  /\ future[item[w]] = "cancelled"
  /\ future' = [future EXCEPT ![item[w]] = "notified"]
  /\ TaskDone(w)
  /\ UNCHANGED <<work_queue, shutdown, waiter>>

(* Not the code: task_done here and again in a finally clause around it. *)
SkipCancelledTwice(w) ==
  /\ Step(w, "got", "get")
  /\ future[item[w]] = "cancelled"
  /\ future' = [future EXCEPT ![item[w]] = "notified"]
  /\ unfinished' = unfinished - 2
  /\ item' = [item EXCEPT ![w] = NoTask]
  /\ UNCHANGED <<work_queue, shutdown, waiter>>

SkipCancelled(w) ==
  /\ Step(w, "got", "get")
  /\ future[item[w]] = "cancelled"
  /\ future' = [future EXCEPT ![item[w]] = "notified"]
  /\ TaskDone(w)
  /\ UNCHANGED <<work_queue, shutdown, waiter>>

(* The function returns or raises an Exception. *)
Resolve(w) ==
  /\ Step(w, "call", "resolved")
  /\ future' = [future EXCEPT ![item[w]] = "finished"]
  /\ UNCHANGED <<queueVars, item, shutdown, waiter>>

(* Any other exception passes by the except clause and ends the thread. *)
Raise(w) ==
  /\ item[w] \in Exits
  /\ Step(w, "call", "leave")
  /\ UNCHANGED <<queueVars, future, item, shutdown, waiter>>

(* The finally clause. *)
Finally(w) ==
  /\ Step(w, "resolved", "get") \/ Step(w, "leave", "killed")
  /\ TaskDone(w)
  /\ UNCHANGED <<work_queue, future, shutdown, waiter>>

Work(w) ==
  \/ Get(w) \/ GetTimesOut(w) \/ PollShutdown(w)
  \/ Begin(w) \/ SkipCancelled(w) \/ Resolve(w) \/ Raise(w) \/ Finally(w)

Next ==
  \/ \E t \in Tasks : Submit(t) \/ Cancel(t)
  \/ Shutdown
  \/ JoinReturns
  \/ \E w \in Workers : Work(w)

Spec == Init /\ [][Next]_vars

(* Threads are scheduled, the submitted functions end. *)
FairSpec == Spec /\ WF_vars(JoinReturns) /\ \A w \in Workers : WF_vars(Work(w))

-----------------------------------------------------------------------------

(* The function has raised past the except clause: nobody sets the future. *)
Killed(t) ==
  /\ future[t] = "running"
  /\ \A w \in Workers : item[w] = t => worker[w] = "leave"

Pool == INSTANCE Executor WITH
  task <- [t \in Tasks |->
             CASE future[t] = "notified" -> "cancelled"
               [] future[t] = "finished" -> "done"
               [] Killed(t) -> "abandoned"
               [] OTHER -> future[t]],
  open <- ~ shutdown,
  drained <- waiter = "returned"

(***************************************************************************)
(* The pool is an Executor: in particular shutdown(wait=True) returns only *)
(* when every accepted task is over, although workers leave the queue, run *)
(* tasks and count them as done without the lock.                          *)
(***************************************************************************)
ExecutorSpec == Pool!Spec

(***************************************************************************)
(* While the pool is open a queued task has a live worker that will come   *)
(* back to the queue, unless exceptions have killed them all.              *)
(***************************************************************************)
OpenPoolIsServed ==
  ~ shutdown /\ work_queue # <<>> =>
    \/ \E w \in Workers : worker[w] \in Alive \ {"leave"}
    \/ \A w \in Workers : worker[w] \in {"leave", "killed"}

(***************************************************************************)
(* An accepted task is run or found cancelled, although a worker reads the *)
(* queue and _shutdown at different times and may be killed by a function. *)
(* It takes that no worker is left to strand a task: exceptions have       *)
(* killed all of them, or the pool is shut down and the last one is gone.  *)
(* (A function that raises past the except clause has been run.)           *)
(***************************************************************************)
AcceptedTasksRun ==
  \A t \in Tasks :
    future[t] \in {"pending", "cancelled"} ~>
      \/ future[t] \in {"finished", "notified"} \/ Killed(t)
      \/ \A w \in Workers : worker[w] = "killed"
      \/ shutdown /\ \A w \in Workers : worker[w] \notin Alive
=============================================================================
