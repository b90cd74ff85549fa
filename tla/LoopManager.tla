---------------------------- MODULE LoopManager -----------------------------
(***************************************************************************)
(* TaskLoopManager (src/src/pyzlc/nodes/loop_manager.py): the singleton    *)
(* that owns an event loop in a thread of its own, the user threads that   *)
(* get it, block on it for the result of a coroutine, and stop it, and the *)
(* asyncio loop as far as that is visible from outside: it runs ready      *)
(* callbacks in iterations, and loop.stop() lets the current one finish.   *)
(*                                                                         *)
(* The executor is module ThreadPool; here it has tasks that are not over, *)
(* or none, and may be shut down.                                          *)
(***************************************************************************)
EXTENDS Integers, SequencesExt

CONSTANTS
  Threads,       \* user threads
  Managers,      \* TaskLoopManager objects; bound: how many are ever made
  None,
  CallbacksExit  \* may a coroutine raise SystemExit or KeyboardInterrupt?

ASSUME LoopAssumption ==
  /\ IsFiniteSet(Threads)
  /\ None \notin Threads \cup Managers
  /\ CallbacksExit \in BOOLEAN

VARIABLES
  instance,       \* TaskLoopManager.instance
  instance_lock,  \* holder of _instance_lock
  stop_lock,      \* manager -> holder of its _stop_lock
  loop,           \* manager -> state of its spin thread and event loop
  ready,          \* manager -> the callbacks its loop will run, in order
  todo,           \* manager -> how many of them the current iteration runs
  executor,       \* manager -> "open" or "shutdown"
  unfinished,     \* manager -> does its executor have tasks that are not over?
  pc,             \* thread -> what it is doing
  mine,           \* thread -> the manager it has a reference to
  job             \* thread -> the task and the future it is blocked on

locks == <<instance_lock, stop_lock>>
loopVars == <<loop, ready, todo>>
vars == <<instance, locks, loopVars, executor, unfinished, pc, mine, job>>

LoopStates == {"none", "thread", "made", "running", "stopping", "exited", "closed"}

(***************************************************************************)
(* A job: its first callback is queued ("scheduled"), its task is queued   *)
(* to run ("started", or "woken" after an await), it awaits ("waiting"),   *)
(* it is over and its done callback is queued ("finished"), the caller's   *)
(* future is set ("resolved"), or it took the loop down ("fatal").         *)
(***************************************************************************)
Queued == {"scheduled", "started", "woken", "finished"}
JobStates == Queued \cup {"none", "waiting", "resolved", "fatal"}

ThreadStates ==
  {"idle", "lock", "create", "return", "blocked",
   "stop", "cancel", "signal", "signalled", "unsignalled", "join", "clear"}

(* Inside the with block of stop. *)
Ending == {"cancel", "signal", "signalled", "unsignalled", "join", "clear"}

(* A lock is held by a thread that is inside the with block of that lock.  *)
TypeOK ==
  /\ instance \in Managers \cup {None}
  /\ instance_lock \in Threads \cup {None}
  /\ stop_lock \in [Managers -> Threads \cup {None}]
  /\ loop \in [Managers -> LoopStates]
  /\ \A m \in Managers :
       /\ ready[m] \in Seq(Threads \cup {None})
       /\ todo[m] \in 0 .. Len(ready[m])
  /\ executor \in [Managers -> {"open", "shutdown"}]
  /\ unfinished \in [Managers -> BOOLEAN]
  /\ pc \in [Threads -> ThreadStates]
  /\ mine \in [Threads -> Managers \cup {None}]
  /\ job \in [Threads -> JobStates]
  /\ \A t \in Threads : instance_lock = t => pc[t] = "create"
  /\ \A t \in Threads, m \in Managers :
        stop_lock[m] = t => pc[t] \in Ending /\ mine[t] = m

Init ==
  /\ instance = None
  /\ instance_lock = None
  /\ stop_lock = [m \in Managers |-> None]
  /\ loop = [m \in Managers |-> "none"]
  /\ ready = [m \in Managers |-> <<>>]
  /\ todo = [m \in Managers |-> 0]
  /\ executor = [m \in Managers |-> "open"]
  /\ unfinished = [m \in Managers |-> FALSE]
  /\ pc = [t \in Threads |-> "idle"]
  /\ mine = [t \in Threads |-> None]
  /\ job = [t \in Threads |-> "none"]

Goto(t, from, to) ==
  /\ pc[t] = from
  /\ pc' = [pc EXCEPT ![t] = to]

-----------------------------------------------------------------------------
(* get_instance and __init__ *)

GetInstance(t) ==
  /\ Goto(t, "idle", IF instance = None THEN "lock" ELSE "return")
  /\ UNCHANGED <<instance, locks, loopVars, executor, unfinished, mine, job>>

(* Not the code: instance is not checked again under the lock. *)
LockInstanceUnchecked(t) ==
  /\ instance_lock = None
  /\ Goto(t, "lock", "create")
  /\ instance_lock' = t
  /\ \E m \in Managers :
       /\ loop[m] = "none"
       /\ loop' = [loop EXCEPT ![m] = "thread"]
       /\ mine' = [mine EXCEPT ![t] = m]
  /\ UNCHANGED <<instance, stop_lock, ready, todo, executor, unfinished, job>>

LockInstance(t) ==
  /\ instance_lock = None
  /\ \/ /\ instance # None
        /\ Goto(t, "lock", "return")
        /\ UNCHANGED <<instance_lock, loop, mine>>
     \/ /\ instance = None
        /\ Goto(t, "lock", "create")
        /\ instance_lock' = t
        /\ \E m \in Managers :
             /\ loop[m] = "none"
             /\ loop' = [loop EXCEPT ![m] = "thread"]
             /\ mine' = [mine EXCEPT ![t] = m]
  /\ UNCHANGED <<instance, stop_lock, ready, todo, executor, unfinished, job>>

(* Not the code: the lock is not released. *)
CreatedKeepsLock(t) ==
  /\ Goto(t, "create", "return")
  /\ loop[mine[t]] # "thread"
  /\ instance' = mine[t]
  /\ UNCHANGED <<locks, loopVars, executor, unfinished, mine, job>>

(* __init__ polls until _loop is set, which is not until the loop runs. *)
Created(t) ==
  /\ Goto(t, "create", "return")
  /\ loop[mine[t]] # "thread"
  /\ instance' = mine[t]
  /\ instance_lock' = None
  /\ UNCHANGED <<stop_lock, loopVars, executor, unfinished, mine, job>>

(* "return cls.instance" reads it once more: a stop may have cleared it. *)
ReturnInstance(t) ==
  /\ Goto(t, "return", "idle")
  /\ mine' = [mine EXCEPT ![t] = instance]
  /\ UNCHANGED <<instance, locks, loopVars, executor, unfinished, job>>

-----------------------------------------------------------------------------
(* The spin thread and the loop. *)

MakeLoop(m) ==
  /\ loop[m] = "thread"
  /\ loop' = [loop EXCEPT ![m] = "made"]
  /\ UNCHANGED <<instance, locks, ready, todo, executor, unfinished, pc, mine, job>>

RunForever(m) ==
  /\ loop[m] = "made"
  /\ loop' = [loop EXCEPT ![m] = "running"]
  /\ UNCHANGED <<instance, locks, ready, todo, executor, unfinished, pc, mine, job>>

InLoop(m) == loop[m] \in {"running", "stopping"}

Iterate(m) ==
  /\ loop[m] = "running"
  /\ todo[m] = 0
  /\ ready[m] # <<>>
  /\ todo' = [todo EXCEPT ![m] = Len(ready[m])]
  /\ UNCHANGED <<instance, locks, loop, ready, executor, unfinished, pc, mine, job>>

(* The next callback is popped; it may append one of its own task. *)
Pop(m, callback, appended) ==
  /\ InLoop(m)
  /\ todo[m] > 0
  /\ Head(ready[m]) = callback
  /\ ready' = [ready EXCEPT ![m] = Tail(@) \o appended]
  /\ todo' = [todo EXCEPT ![m] = @ - 1]
  /\ UNCHANGED <<instance, locks, executor, unfinished, pc, mine>>

JobStep(m, t, from, to) ==
  /\ Pop(m, t, IF to \in Queued THEN <<t>> ELSE <<>>)
  /\ job[t] = from
  /\ job' = [job EXCEPT ![t] = to]

(***************************************************************************)
(* run_coroutine_threadsafe's callback makes the task; the task runs to    *)
(* an await or to its end; one iteration later its done callback sets the  *)
(* caller's future.  (Several awaits are one: the last.)                   *)
(***************************************************************************)
RunJob(m) ==
  /\ \E t \in Threads :
       \/ JobStep(m, t, "scheduled", "started")
       \/ JobStep(m, t, "started", "waiting")
       \/ JobStep(m, t, "started", "finished")
       \/ JobStep(m, t, "woken", "finished")
       \/ JobStep(m, t, "finished", "resolved")
  /\ UNCHANGED loop

RunStop(m) ==
  /\ Pop(m, None, <<>>)
  /\ loop' = [loop EXCEPT ![m] = "stopping"]
  /\ UNCHANGED job

(* SystemExit and KeyboardInterrupt leave the task and run_forever as well. *)
RunFatal(m) ==
  /\ CallbacksExit
  /\ \E t \in Threads, from \in {"started", "woken"} : JobStep(m, t, from, "fatal")
  /\ loop' = [loop EXCEPT ![m] = "exited"]

(* The I/O or the timeout that a task awaits. *)
Wake(t) ==
  /\ job[t] = "waiting"
  /\ loop[mine[t]] = "running"
  /\ todo[mine[t]] = 0
  /\ job' = [job EXCEPT ![t] = "woken"]
  /\ ready' = [ready EXCEPT ![mine[t]] = Append(@, t)]
  /\ UNCHANGED <<instance, locks, loop, todo, executor, unfinished, pc, mine>>

LeaveLoop(m) ==
  /\ loop[m] = "stopping"
  /\ todo[m] = 0
  /\ loop' = [loop EXCEPT ![m] = "exited"]
  /\ UNCHANGED <<instance, locks, ready, todo, executor, unfinished, pc, mine, job>>

(* loop.close() drops what is ready; _stopped_event is set. *)
CloseLoop(m) ==
  /\ loop[m] = "exited"
  /\ loop' = [loop EXCEPT ![m] = "closed"]
  /\ ready' = [ready EXCEPT ![m] = <<>>]
  /\ todo' = [todo EXCEPT ![m] = 0]
  /\ UNCHANGED <<instance, locks, executor, unfinished, pc, mine, job>>

-----------------------------------------------------------------------------
(* submit_loop_task_and_wait.  On a closed loop it raises RuntimeError. *)

(* Not the code: the coroutine is never handed to the loop. *)
SubmitUnscheduled(t) ==
  /\ mine[t] # None
  /\ loop[mine[t]] # "closed"
  /\ Goto(t, "idle", "blocked")
  /\ job' = [job EXCEPT ![t] = "scheduled"]
  /\ UNCHANGED <<instance, locks, loopVars, executor, unfinished, mine>>

Submit(t) ==
  /\ mine[t] # None
  /\ loop[mine[t]] # "closed"
  /\ Goto(t, "idle", "blocked")
  /\ job' = [job EXCEPT ![t] = "scheduled"]
  /\ ready' = [ready EXCEPT ![mine[t]] = Append(@, t)]
  /\ UNCHANGED <<instance, locks, loop, todo, executor, unfinished, mine>>

Result(t) ==
  /\ Goto(t, "blocked", "idle")
  /\ job[t] = "resolved"
  /\ job' = [job EXCEPT ![t] = "none"]
  /\ UNCHANGED <<instance, locks, loopVars, executor, unfinished, mine>>

-----------------------------------------------------------------------------
(* The executor: its users and its workers. *)

PoolAccepts(m) ==
  /\ loop[m] # "none"
  /\ executor[m] = "open"
  /\ unfinished' = [unfinished EXCEPT ![m] = TRUE]
  /\ UNCHANGED <<instance, locks, loopVars, executor, pc, mine, job>>

(* All tasks are over.  Nothing says that this must happen. *)
PoolFinishes(m) ==
  /\ unfinished[m]
  /\ unfinished' = [unfinished EXCEPT ![m] = FALSE]
  /\ UNCHANGED <<instance, locks, loopVars, executor, pc, mine, job>>

-----------------------------------------------------------------------------
(* stop *)

Stop(t) ==
  /\ mine[t] # None
  /\ Goto(t, "idle", "stop")
  /\ UNCHANGED <<instance, locks, loopVars, executor, unfinished, mine, job>>

(* Not the code: stop without its lock. *)
LockStopUnlocked(t) ==
  /\ pc[t] = "stop"
  /\ \/ /\ loop[mine[t]] = "closed"
        /\ Goto(t, "stop", "idle")
     \/ /\ loop[mine[t]] # "closed"
        /\ Goto(t, "stop", "cancel")
  /\ UNCHANGED <<instance, locks, loopVars, executor, unfinished, mine, job>>

(* Not the code: acquire() for "with", and no release before the return. *)
LockStopKeepsLock(t) ==
  /\ pc[t] = "stop"
  /\ stop_lock[mine[t]] = None
  /\ \/ /\ loop[mine[t]] = "closed"
        /\ Goto(t, "stop", "idle")
     \/ /\ loop[mine[t]] # "closed"
        /\ Goto(t, "stop", "cancel")
  /\ stop_lock' = [stop_lock EXCEPT ![mine[t]] = t]
  /\ UNCHANGED <<instance, instance_lock, loopVars, executor, unfinished, mine, job>>

LockStop(t) ==
  /\ pc[t] = "stop"
  /\ stop_lock[mine[t]] = None
  /\ \/ /\ loop[mine[t]] = "closed"
        /\ Goto(t, "stop", "idle")
        /\ UNCHANGED stop_lock
     \/ /\ loop[mine[t]] # "closed"
        /\ Goto(t, "stop", "cancel")
        /\ stop_lock' = [stop_lock EXCEPT ![mine[t]] = t]
  /\ UNCHANGED <<instance, instance_lock, loopVars, executor, unfinished, mine, job>>

(***************************************************************************)
(* task.cancel() on every task of the loop: an awaiting one is queued to   *)
(* receive its CancelledError, a queued one will receive it when it runs.  *)
(***************************************************************************)
CancelTasks(t) ==
  LET m == mine[t]
      tasks == {u \in Threads : mine[u] = m /\ job[u] \in {"started", "waiting"}}
      waiting == {u \in tasks : job[u] = "waiting"}
  IN  /\ Goto(t, "cancel", "signal")
      /\ job' = [u \in Threads |-> IF u \in tasks THEN "woken" ELSE job[u]]
      /\ \E cancelled \in SetToSeqs(waiting) :
           ready' = [ready EXCEPT ![m] =
                       IF loop[m] = "closed" THEN @ ELSE @ \o cancelled]
      /\ UNCHANGED <<instance, locks, loop, todo, executor, unfinished, mine>>

(* Not the code: the singleton is cleared before the loop has ended. *)
SignalAndClear(t) ==
  LET m == mine[t]
  IN  /\ \/ /\ Goto(t, "signal", "signalled")
            /\ InLoop(m)
            /\ ready' = [ready EXCEPT ![m] = Append(@, None)]
         \/ /\ Goto(t, "signal", "unsignalled")
            /\ ~ InLoop(m)
            /\ UNCHANGED ready
      /\ instance' = None
      /\ UNCHANGED <<locks, loop, todo, executor, unfinished, mine, job>>

(* call_soon_threadsafe(loop.stop), only if the loop is running. *)
Signal(t) ==
  LET m == mine[t]
  IN  /\ \/ /\ Goto(t, "signal", "signalled")
            /\ InLoop(m)
            /\ ready' = [ready EXCEPT ![m] = Append(@, None)]
         \/ /\ Goto(t, "signal", "unsignalled")
            /\ ~ InLoop(m)
            /\ UNCHANGED ready
      /\ UNCHANGED <<instance, locks, loop, todo, executor, unfinished, mine, job>>

(* Not the code: the end of the loop is not awaited. *)
ShutExecutorAtOnce(t) ==
  /\ Goto(t, "signalled", "join") \/ Goto(t, "unsignalled", "join")
  /\ executor' = [executor EXCEPT ![mine[t]] = "shutdown"]
  /\ UNCHANGED <<instance, locks, loopVars, unfinished, mine, job>>

(* _stopped_event.wait(), then the executor accepts nothing any more ... *)
ShutExecutor(t) ==
  /\ Goto(t, "signalled", "join") \/ Goto(t, "unsignalled", "join")
  /\ loop[mine[t]] = "closed"
  /\ executor' = [executor EXCEPT ![mine[t]] = "shutdown"]
  /\ UNCHANGED <<instance, locks, loopVars, unfinished, mine, job>>

(* ... and stop waits in Queue.join, for ever if a function does not end. *)
JoinExecutor(t) ==
  /\ Goto(t, "join", "clear")
  /\ ~ unfinished[mine[t]]
  /\ UNCHANGED <<instance, locks, loopVars, executor, unfinished, mine, job>>

ClearInstance(t) ==
  /\ Goto(t, "clear", "idle")
  /\ instance_lock = None
  /\ instance' = None
  /\ stop_lock' = [stop_lock EXCEPT ![mine[t]] = None]
  /\ UNCHANGED <<instance_lock, loopVars, executor, unfinished, mine, job>>

-----------------------------------------------------------------------------

LoopStep(m) ==
  \/ MakeLoop(m) \/ RunForever(m) \/ Iterate(m) \/ RunJob(m) \/ RunStop(m)
  \/ RunFatal(m) \/ LeaveLoop(m) \/ CloseLoop(m)

Continue(t) ==
  \/ LockInstance(t) \/ Created(t) \/ ReturnInstance(t) \/ Result(t)
  \/ LockStop(t) \/ CancelTasks(t) \/ Signal(t)
  \/ ShutExecutor(t) \/ JoinExecutor(t) \/ ClearInstance(t)

Next ==
  \/ \E t \in Threads :
       GetInstance(t) \/ Submit(t) \/ Stop(t) \/ Wake(t) \/ Continue(t)
  \/ \E m \in Managers : LoopStep(m) \/ PoolAccepts(m) \/ PoolFinishes(m)

Spec == Init /\ [][Next]_vars

(***************************************************************************)
(* Threads are scheduled, every await ends (each request has a timeout),   *)
(* and a thread that waits for a lock gets it.  Nothing is assumed of the  *)
(* functions that the executor runs: they may never end.                   *)
(***************************************************************************)
FairSpec ==
  /\ Spec
  /\ \A m \in Managers : WF_vars(LoopStep(m))
  /\ \A t \in Threads : SF_vars(Continue(t)) /\ SF_vars(Wake(t))

-----------------------------------------------------------------------------
(* Safety. *)

(* At no time are there two event loops. *)
OneLoop ==
  \A m, n \in Managers :
    loop[m] \notin {"none", "closed"} /\ loop[n] \notin {"none", "closed"} => m = n

(* The manager is still being made, under _instance_lock. *)
Making(m) == \E t \in Threads : pc[t] = "create" /\ mine[t] = m

(***************************************************************************)
(* A manager that is not the singleton, any more or after all, has left    *)
(* nothing behind: its loop is closed, its executor is shut down, and what *)
(* the executor had accepted is over.                                      *)
(***************************************************************************)
NoLeftovers ==
  \A m \in Managers :
    loop[m] # "none" /\ m # instance /\ ~ Making(m)
      => loop[m] = "closed" /\ executor[m] = "shutdown" /\ ~ unfinished[m]

Sessions == INSTANCE LoopSessions WITH
  made <- {m \in Managers : loop[m] # "none" /\ ~ Making(m)},
  closed <- {m \in Managers : loop[m] = "closed"}

(***************************************************************************)
(* The manager keeps its promise to the life cycle: however get_instance   *)
(* and stop interleave, managers follow one another, and the singleton is  *)
(* cleared only when its own loop is closed.                               *)
(***************************************************************************)
SessionSpec == Sessions!Spec

(* A coroutine has ended the loop with SystemExit or KeyboardInterrupt. *)
TakenDown(m) == \E t \in Threads : job[t] = "fatal" /\ mine[t] = m

(***************************************************************************)
(* "Stop the event loop and shut down the thread pool executor": both are  *)
(* done whenever stop returns, by its early return, too, and no accepted   *)
(* task is left.  (Unless a coroutine took the loop down: then stop        *)
(* returns early and the executor is left open.)                           *)
(***************************************************************************)
StopShutsDown ==
  [][\A t \in Threads : pc[t] \in {"stop", "clear"} /\ pc'[t] = "idle"
       => /\ loop'[mine[t]] = "closed"
          /\ \/ executor'[mine[t]] = "shutdown" /\ ~ unfinished'[mine[t]]
             \/ TakenDown(mine[t])]_vars

-----------------------------------------------------------------------------
(* Liveness. *)

(***************************************************************************)
(* A stop that has found the loop running and has told it to stop returns, *)
(* unless it waits in Queue.join for a task that never ends: neither the   *)
(* locks nor the loop hold it up, whatever coroutines and other threads in *)
(* get_instance and stop do.                                               *)
(***************************************************************************)
SignalledStopReturns ==
  \A t \in Threads :
    pc[t] = "signalled" ~>
      (pc[t] = "idle" \/ [](pc[t] = "join" /\ unfinished[mine[t]]))

(***************************************************************************)
(* A stop returns (shutdown() is documented as safe to call multiple       *)
(* times), or waits for a task of the executor.                            *)
(***************************************************************************)
StopReturns == \A t \in Threads : pc[t] = "stop" ~> pc[t] \in {"idle", "join"}

(***************************************************************************)
(* A thread blocked on a coroutine gets its result, or the loop of its     *)
(* manager gets closed.  In that case nothing sets the caller's future,    *)
(* and the thread stays in future.result().                                *)
(***************************************************************************)
CallsEndWithLoop ==
  \A t \in Threads :
    pc[t] = "blocked" ~>
      pc[t] = "idle" \/ \E m \in Managers : m = mine[t] /\ loop[m] = "closed"
=============================================================================
