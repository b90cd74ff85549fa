-------------------------- MODULE ThreadPoolProofs --------------------------
(***************************************************************************)
(* ThreadPool implements Executor, for any number of tasks and workers.    *)
(*                                                                         *)
(* The argument: a task is in one place at a time (once in the queue, or   *)
(* with one worker) and the state of its future follows from that place;   *)
(* the counter of the queue is the number of tasks that are in a place.    *)
(* So when Queue.join finds it zero, nothing is left to do.                *)
(***************************************************************************)
EXTENDS ThreadPool, FiniteSetTheorems, TLAPS

Queued(t) == \E i \in 1 .. Len(work_queue) : work_queue[i] = t
Holding == {w \in Workers : item[w] # NoTask}

(* A worker has a task between get and task_done. *)
HoldsInv ==
  \A w \in Workers :
    item[w] # NoTask <=> worker[w] \in {"got", "call", "leave", "resolved"}

OnePlace ==
  /\ \A i, j \in 1 .. Len(work_queue) : work_queue[i] = work_queue[j] => i = j
  /\ \A v, w \in Workers : item[v] # NoTask /\ item[v] = item[w] => v = w
  /\ \A w \in Workers : ~ Queued(item[w])

FutureInv ==
  /\ \A i \in 1 .. Len(work_queue) : future[work_queue[i]] \in {"pending", "cancelled"}
  /\ \A w \in Workers :
       /\ worker[w] = "got" => future[item[w]] \in {"pending", "cancelled"}
       /\ worker[w] \in {"call", "leave"} => future[item[w]] = "running"
       /\ worker[w] = "resolved" => future[item[w]] = "finished"
  /\ \A t \in Tasks : future[t] = "pending"
       => Queued(t) \/ \E w \in Workers : item[w] = t

CountInv == unfinished = Len(work_queue) + Cardinality(Holding)

WaiterInv == waiter # "none" => shutdown

Types ==
  /\ work_queue \in Seq(Tasks)
  /\ unfinished \in Int
  /\ future \in [Tasks -> FutureStates]
  /\ worker \in [Workers -> WorkerStates]
  /\ item \in [Workers -> Tasks \cup {NoTask}]
  /\ shutdown \in BOOLEAN
  /\ waiter \in {"none", "joining", "returned"}

IInv == Types /\ HoldsInv /\ OnePlace /\ FutureInv /\ CountInv /\ WaiterInv

-----------------------------------------------------------------------------

LEMMA HoldingFinite == IsFiniteSet(Holding) /\ Cardinality(Holding) \in Nat
<1>1. Holding \subseteq Workers
  BY DEF Holding
<1>2. IsFiniteSet(Holding)
  BY <1>1, PoolAssumption, FS_Subset
<1>3. QED
  BY <1>2, FS_CardinalityType

LEMMA InitInv == Init => IInv
<1> SUFFICES ASSUME Init
             PROVE  IInv
  OBVIOUS
<1>1. Holding = {}
  BY DEF Init, Holding
<1>2. CountInv
  BY <1>1, FS_EmptySet DEF Init, CountInv
<1>3. Types
  <2>1. work_queue \in Seq(Tasks)
    BY DEF Init
  <2>2. /\ future \in [Tasks -> FutureStates]
        /\ worker \in [Workers -> WorkerStates]
        /\ item \in [Workers -> Tasks \cup {NoTask}]
    BY DEF Init, FutureStates, WorkerStates
  <2>3. unfinished \in Int /\ waiter \in {"none", "joining", "returned"}
    BY DEF Init
  <2>4. shutdown \in BOOLEAN
    BY Zenon DEF Init
  <2>5. QED
    BY <2>1, <2>2, <2>3, <2>4 DEF Types
<1>4. HoldsInv /\ OnePlace /\ FutureInv /\ WaiterInv
  BY DEF Init, HoldsInv, OnePlace, FutureInv, WaiterInv, Queued
<1>5. QED
  BY <1>2, <1>3, <1>4 DEF IInv

(* The type invariant of the model: the counter is never negative. *)
LEMMA TypeFollows == IInv => TypeOK
BY HoldingFinite DEF IInv, Types, CountInv, TypeOK

-----------------------------------------------------------------------------
(* One lemma per step. *)

LEMMA SubmitInv ==
  ASSUME IInv, NEW t \in Tasks, Submit(t)
  PROVE  IInv'
<1> USE PoolAssumption DEF IInv, Types
<1>1. /\ worker' \in [Workers -> WorkerStates]
      /\ \A w \in Workers :
           \/ worker'[w] = worker[w]
           \/ worker[w] \in {"none", "exited"} /\ worker'[w] = "get"
  BY DEF Submit, SpawnWorker, WorkerStates, Alive
<1>2. Types'
  BY <1>1 DEF Submit, FutureStates
<1>3. /\ Len(work_queue') = Len(work_queue) + 1
      /\ work_queue'[Len(work_queue) + 1] = t
      /\ \A i \in 1 .. Len(work_queue) : work_queue'[i] = work_queue[i]
  BY DEF Submit
<1>4. ~ Queued(t) /\ \A w \in Workers : item[w] # t
  BY DEF Submit, FutureInv, HoldsInv, Queued
<1>5. \A u : Queued(u)' <=> Queued(u) \/ u = t
  BY <1>3 DEF Queued
<1>6. HoldsInv'
  BY <1>1 DEF Submit, HoldsInv
<1>7. OnePlace'
  BY <1>3, <1>4, <1>5 DEF Submit, OnePlace, Queued
<1>8. FutureInv'
  <2>1. \A i \in 1 .. Len(work_queue') : future'[work_queue'[i]] \in {"pending", "cancelled"}
    BY <1>3 DEF Submit, FutureInv
  <2>2. \A w \in Workers :
          /\ worker'[w] = "got" => future'[item'[w]] \in {"pending", "cancelled"}
          /\ worker'[w] \in {"call", "leave"} => future'[item'[w]] = "running"
          /\ worker'[w] = "resolved" => future'[item'[w]] = "finished"
    BY <1>1, <1>4 DEF Submit, FutureInv, HoldsInv
  <2>3. \A u \in Tasks : future'[u] = "pending"
          => Queued(u)' \/ \E w \in Workers : item'[w] = u
    BY <1>5 DEF Submit, FutureInv
  <2>4. QED
    BY <2>1, <2>2, <2>3 DEF FutureInv
<1>9. CountInv'
  <2>1. Holding' = Holding
    BY DEF Submit, Holding
  <2>2. QED
    BY <1>3, <2>1, HoldingFinite DEF Submit, CountInv
<1>10. WaiterInv'
  BY DEF Submit, WaiterInv
<1>11. QED
  BY <1>2, <1>6, <1>7, <1>8, <1>9, <1>10

LEMMA CancelInv ==
  ASSUME IInv, NEW t \in Tasks, Cancel(t)
  PROVE  IInv'
<1>1. UNCHANGED <<work_queue, unfinished, worker, item, shutdown, waiter>>
  BY DEF Cancel, queueVars, workerVars
<1>2. Types'
  BY <1>1 DEF Cancel, IInv, Types, FutureStates
<1>3. \A u : Queued(u)' <=> Queued(u)
  BY <1>1 DEF Queued
<1>4. FutureInv'
  BY <1>1, <1>3 DEF Cancel, IInv, Types, FutureInv
<1>5. QED
  BY <1>1, <1>2, <1>3, <1>4
    DEF IInv, HoldsInv, OnePlace, CountInv, WaiterInv, Holding

LEMMA ShutdownInv ==
  ASSUME IInv, Shutdown \/ JoinReturns
  PROVE  IInv'
<1>1. UNCHANGED <<work_queue, unfinished, future, worker, item>>
  BY DEF Shutdown, JoinReturns, queueVars, workerVars
<1>2. Types' /\ WaiterInv'
  BY <1>1 DEF Shutdown, JoinReturns, IInv, Types, WaiterInv
<1>3. QED
  BY <1>1, <1>2 DEF IInv, HoldsInv, OnePlace, FutureInv, CountInv, Holding, Queued

LEMMA GetInv ==
  ASSUME IInv, NEW w \in Workers, Get(w)
  PROVE  IInv'
<1> USE PoolAssumption DEF IInv, Types
<1> DEFINE t == Head(work_queue)
<1>1. /\ t \in Tasks /\ Len(work_queue) >= 1 /\ t = work_queue[1]
      /\ Len(work_queue') = Len(work_queue) - 1
      /\ \A i \in 1 .. Len(work_queue') : work_queue'[i] = work_queue[i + 1]
      /\ work_queue' \in Seq(Tasks)
  BY DEF Get
<1>2. /\ worker[w] = "get" /\ worker' = [worker EXCEPT ![w] = "got"]
      /\ item[w] = NoTask /\ item' = [item EXCEPT ![w] = t]
      /\ UNCHANGED <<unfinished, future, shutdown, waiter>>
  BY DEF Get, Step, HoldsInv
<1> HIDE DEF t
<1>3. Types'
  BY <1>1, <1>2 DEF WorkerStates, Alive
<1>4. \A u : Queued(u)' <=> Queued(u) /\ u # t
  <2>1. \A i \in 2 .. Len(work_queue) :
          i - 1 \in 1 .. Len(work_queue') /\ work_queue'[i - 1] = work_queue[i]
    BY <1>1
  <2>2. ASSUME NEW u, Queued(u), u # t
        PROVE  Queued(u)'
    <3>1. PICK i \in 1 .. Len(work_queue) : work_queue[i] = u
      BY <2>2 DEF Queued
    <3>2. i \in 2 .. Len(work_queue)
      BY <1>1, <2>2, <3>1
    <3>3. QED
      BY <2>1, <3>1, <3>2 DEF Queued
  <2>3. ASSUME NEW u, Queued(u)'
        PROVE  Queued(u) /\ u # t
    <3>1. PICK i \in 1 .. Len(work_queue') : work_queue'[i] = u
      BY <2>3 DEF Queued
    <3>2. i + 1 \in 2 .. Len(work_queue) /\ work_queue[i + 1] = u
      BY <1>1, <3>1
    <3>3. 1 \in 1 .. Len(work_queue) /\ i + 1 \in 1 .. Len(work_queue) /\ i + 1 # 1
      BY <1>1, <3>1, <3>2
    <3>4. QED
      BY <1>1, <3>2, <3>3 DEF Queued, OnePlace
  <2>4. QED
    BY <2>2, <2>3
<1>5. Queued(t) /\ \A v \in Workers : item[v] # t
  BY <1>1 DEF Queued, OnePlace
<1>6. HoldsInv'
  BY <1>1, <1>2 DEF HoldsInv
<1>7. OnePlace'
  BY <1>1, <1>2, <1>4, <1>5 DEF OnePlace
<1>8. FutureInv'
  <2>1. \A i \in 1 .. Len(work_queue') : future'[work_queue'[i]] \in {"pending", "cancelled"}
    BY <1>1, <1>2 DEF FutureInv
  <2>2. future[t] \in {"pending", "cancelled"}
    BY <1>1 DEF FutureInv
  <2>3. \A v \in Workers :
          /\ worker'[v] = "got" => future'[item'[v]] \in {"pending", "cancelled"}
          /\ worker'[v] \in {"call", "leave"} => future'[item'[v]] = "running"
          /\ worker'[v] = "resolved" => future'[item'[v]] = "finished"
    BY <1>2, <2>2 DEF FutureInv
  <2>4. \A u \in Tasks : future'[u] = "pending"
          => Queued(u)' \/ \E v \in Workers : item'[v] = u
    BY <1>2, <1>4 DEF FutureInv
  <2>5. QED
    BY <2>1, <2>3, <2>4 DEF FutureInv
<1>9. CountInv'
  <2>1. Holding' = Holding \cup {w} /\ w \notin Holding
    BY <1>1, <1>2 DEF Holding
  <2>2. Cardinality(Holding') = Cardinality(Holding) + 1
    BY <2>1, HoldingFinite, FS_AddElement
  <2>3. QED
    BY <1>1, <1>2, <2>2, HoldingFinite DEF CountInv
<1>10. WaiterInv'
  BY <1>2 DEF WaiterInv
<1>11. QED
  BY <1>3, <1>6, <1>7, <1>8, <1>9, <1>10

(* Steps of a worker that neither take nor count a task. *)
LEMMA StayInv ==
  ASSUME IInv, NEW w \in Workers,
         GetTimesOut(w) \/ PollShutdown(w) \/ Begin(w) \/ Resolve(w) \/ Raise(w)
  PROVE  IInv'
<1> USE PoolAssumption DEF IInv, Types
<1>1. UNCHANGED <<work_queue, unfinished, item, shutdown, waiter>>
  BY DEF GetTimesOut, PollShutdown, Begin, Resolve, Raise, queueVars
<1>2. \A u : Queued(u)' <=> Queued(u)
  BY <1>1 DEF Queued
<1>3. OnePlace' /\ CountInv' /\ WaiterInv'
  BY <1>1, <1>2 DEF OnePlace, CountInv, WaiterInv, Holding
<1>4. HoldsInv' /\ Types'
  BY <1>1 DEF GetTimesOut, PollShutdown, Begin, Resolve, Raise, Step, HoldsInv,
    FutureStates, WorkerStates, Alive
<1>5. CASE GetTimesOut(w) \/ PollShutdown(w) \/ Raise(w)
  BY <1>1, <1>2, <1>3, <1>4, <1>5
    DEF GetTimesOut, PollShutdown, Raise, Step, FutureInv
<1>6. CASE Begin(w) \/ Resolve(w)
  <2>1. /\ item[w] \in Tasks /\ ~ Queued(item[w])
        /\ \A v \in Workers : v # w => item[v] # item[w]
    BY <1>6 DEF Begin, Resolve, Step, HoldsInv, OnePlace
  <2>2. FutureInv'
    BY <1>1, <1>2, <1>6, <2>1 DEF Begin, Resolve, Step, FutureInv, HoldsInv, Queued
  <2>3. QED
    BY <1>3, <1>4, <2>2
<1>7. QED
  BY <1>5, <1>6

LEMMA TaskDoneInv ==
  ASSUME IInv, NEW w \in Workers, SkipCancelled(w) \/ Finally(w)
  PROVE  IInv'
<1> USE PoolAssumption DEF IInv, Types
<1>1. /\ UNCHANGED <<work_queue, shutdown, waiter>>
      /\ unfinished' = unfinished - 1
      /\ item' = [item EXCEPT ![w] = NoTask]
      /\ item[w] \in Tasks /\ item[w] # NoTask
      /\ ~ Queued(item[w])
      /\ \A v \in Workers : v # w => item[v] # item[w]
  BY DEF SkipCancelled, Finally, TaskDone, Step, HoldsInv, OnePlace
<1>2. \A u : Queued(u)' <=> Queued(u)
  BY <1>1 DEF Queued
<1>3. Types'
  BY <1>1 DEF SkipCancelled, Finally, Step, FutureStates, WorkerStates, Alive
<1>4. HoldsInv'
  BY <1>1 DEF SkipCancelled, Finally, Step, HoldsInv
<1>5. OnePlace'
  <2>1. ~ Queued(NoTask)
    BY DEF Queued
  <2>2. QED
    BY <1>1, <1>2, <2>1 DEF OnePlace
<1>6. FutureInv'
  <2>1. /\ future' \in [Tasks -> FutureStates]
        /\ \A u \in Tasks \ {item[w]} : future'[u] = future[u]
        /\ future'[item[w]] # "pending"
    BY <1>1 DEF SkipCancelled, Finally, Step, FutureInv, FutureStates
  <2>2. \A i \in 1 .. Len(work_queue') : future'[work_queue'[i]] \in {"pending", "cancelled"}
    <3> SUFFICES ASSUME NEW i \in 1 .. Len(work_queue)
                 PROVE  future'[work_queue[i]] \in {"pending", "cancelled"}
      BY <1>1
    <3>1. work_queue[i] \in Tasks /\ work_queue[i] # item[w]
      BY <1>1 DEF Queued
    <3>2. QED
      BY <2>1, <3>1 DEF FutureInv
  <2>3. \A v \in Workers :
          /\ worker'[v] = "got" => future'[item'[v]] \in {"pending", "cancelled"}
          /\ worker'[v] \in {"call", "leave"} => future'[item'[v]] = "running"
          /\ worker'[v] = "resolved" => future'[item'[v]] = "finished"
    BY <1>1, <2>1 DEF SkipCancelled, Finally, Step, FutureInv, HoldsInv
  <2>4. \A u \in Tasks : future'[u] = "pending"
          => Queued(u)' \/ \E v \in Workers : item'[v] = u
    BY <1>1, <1>2, <2>1 DEF FutureInv
  <2>5. QED
    BY <2>2, <2>3, <2>4 DEF FutureInv
<1>7. CountInv'
  <2>1. Holding' = Holding \ {w} /\ w \in Holding
    BY <1>1 DEF Holding
  <2>2. Cardinality(Holding') = Cardinality(Holding) - 1
    BY <2>1, HoldingFinite, FS_RemoveElement
  <2>3. QED
    BY <1>1, <2>2, HoldingFinite DEF CountInv
<1>8. WaiterInv'
  BY <1>1 DEF WaiterInv
<1>9. QED
  BY <1>3, <1>4, <1>5, <1>6, <1>7, <1>8

LEMMA StepInv == IInv /\ [Next]_vars => IInv'
<1> SUFFICES ASSUME IInv, [Next]_vars
             PROVE  IInv'
  OBVIOUS
<1>1. CASE Next
  BY <1>1, SubmitInv, CancelInv, ShutdownInv, GetInv, StayInv, TaskDoneInv DEF Next, Work
<1>2. CASE UNCHANGED vars
  BY <1>2 DEF vars, queueVars, workerVars, IInv, Types, HoldsInv, OnePlace, FutureInv,
    CountInv, WaiterInv, Holding, Queued
<1>3. QED
  BY <1>1, <1>2

THEOREM Invariance == Spec => []IInv
BY InitInv, StepInv, PTL DEF Spec

(***************************************************************************)
(* Types; in particular task_done is called at most once for each put, so  *)
(* it never raises "called too many times".                                *)
(***************************************************************************)
THEOREM TypeCorrect == Spec => []TypeOK
BY Invariance, TypeFollows, PTL

-----------------------------------------------------------------------------
(* The refinement. *)

States == [t \in Tasks |->
             CASE future[t] = "notified" -> "cancelled"
               [] future[t] = "finished" -> "done"
               [] Killed(t) -> "abandoned"
               [] OTHER -> future[t]]

LEMMA PoolInit == Init => Pool!Init
<1> SUFFICES ASSUME Init
             PROVE  Pool!Init
  OBVIOUS
<1>1. States = [t \in Tasks |-> "none"]
  BY DEF Init, States, Killed
<1>2. QED
  BY <1>1 DEF Init, Pool!Init, States

(* A running task is abandoned exactly when its only worker is leaving. *)
LEMMA HeldIsKilled ==
  ASSUME IInv, NEW w \in Workers, item[w] # NoTask
  PROVE  Killed(item[w]) <=> worker[w] = "leave"
BY DEF IInv, Types, OnePlace, HoldsInv, FutureInv, Killed

LEMMA SameState ==
  ASSUME NEW u \in Tasks, future'[u] = future[u],
         future[u] = "running" => (Killed(u)' <=> Killed(u))
  PROVE  States'[u] = States[u]
<1>1. CASE future[u] = "running"
  BY <1>1 DEF States
<1>2. CASE future[u] # "running"
  BY <1>2 DEF States, Killed
<1>3. QED
  BY <1>1, <1>2

(* A step of Executor is known by what it does to one task. *)
LEMMA PoolMove ==
  ASSUME NEW t \in Tasks, NEW from, NEW to,
         States[t] = from, States'[t] = to,
         \A u \in Tasks \ {t} : States'[u] = States[u],
         UNCHANGED <<shutdown, waiter>>
  PROVE  Pool!Moves(t, from, to)
<1>1. States' = [States EXCEPT ![t] = to]
  <2>1. /\ DOMAIN States = Tasks /\ DOMAIN States' = Tasks
        /\ States = [u \in Tasks |-> States[u]]
        /\ States' = [u \in Tasks |-> States'[u]]
    BY DEF States
  <2>2. QED
    BY <2>1
<1>2. QED
  BY <1>1 DEF Pool!Moves, States

LEMMA PoolStutter ==
  ASSUME \A u \in Tasks : States'[u] = States[u], UNCHANGED <<shutdown, waiter>>
  PROVE  UNCHANGED Pool!vars
<1>1. States' = States
  BY DEF States
<1>2. QED
  BY <1>1 DEF Pool!vars, States

LEMMA PoolCallers ==
  ASSUME IInv, NEW t \in Tasks, Submit(t) \/ Cancel(t)
  PROVE  Pool!Next
<1> USE DEF IInv, Types
<1>1. CASE Submit(t)
  <2>1. \A u \in Tasks \ {t} : States'[u] = States[u]
    <3> SUFFICES ASSUME NEW u \in Tasks \ {t}
                 PROVE  States'[u] = States[u]
      OBVIOUS
    <3>1. future'[u] = future[u] /\ item' = item
      BY <1>1 DEF Submit
    <3>2. \A w \in Workers : item[w] = u => worker'[w] = worker[w]
      BY <1>1, PoolAssumption DEF Submit, SpawnWorker, HoldsInv
    <3>3. Killed(u)' <=> Killed(u)
      BY <3>1, <3>2 DEF Killed
    <3>4. QED
      BY <3>1, <3>3, SameState
  <2>2. States[t] = "none" /\ States'[t] = "pending"
    BY <1>1 DEF Submit, States, Killed
  <2>3. UNCHANGED <<shutdown, waiter>> /\ ~ shutdown
    BY <1>1 DEF Submit
  <2>4. Pool!Accept(t)
    BY <2>1, <2>2, <2>3, PoolMove DEF Pool!Accept
  <2>5. QED
    BY <2>4 DEF Pool!Next
<1>2. CASE Cancel(t)
  <2>1. UNCHANGED <<worker, item, shutdown, waiter>>
    BY <1>2 DEF Cancel, workerVars
  <2>2. \A u \in Tasks \ {t} : States'[u] = States[u]
    BY <1>2, <2>1, SameState DEF Cancel, Killed
  <2>3. States[t] = "pending" /\ States'[t] = "cancelled"
    BY <1>2 DEF Cancel, States, Killed
  <2>4. Pool!Cancel(t)
    BY <2>1, <2>2, <2>3, PoolMove DEF Pool!Cancel
  <2>5. QED
    BY <2>4 DEF Pool!Next
<1>3. QED
  BY <1>1, <1>2

(* When the counter is zero, no task is left in any place. *)
LEMMA PoolShutdown ==
  ASSUME IInv, Shutdown \/ JoinReturns
  PROVE  Pool!Next
<1>1. UNCHANGED <<future, worker, item>>
  BY DEF Shutdown, JoinReturns, workerVars
<1>2. States' = States
  BY <1>1 DEF States, Killed
<1>3. CASE Shutdown
  <2>1. Pool!Close
    BY <1>2, <1>3 DEF Shutdown, Pool!Close, States
  <2>2. QED
    BY <2>1 DEF Pool!Next
<1>4. CASE JoinReturns
  <2>1. Len(work_queue) = 0 /\ Cardinality(Holding) = 0
    BY <1>4, HoldingFinite DEF JoinReturns, IInv, Types, CountInv
  <2>2. Holding = {}
    BY <2>1, HoldingFinite, FS_EmptySet
  <2>3. ASSUME NEW t \in Tasks
        PROVE  States[t] \in Pool!Over
    <3>1. \A w \in Workers : item[w] # t
      BY <2>2, PoolAssumption DEF Holding
    <3>2. future[t] # "pending"
      BY <2>1, <3>1 DEF IInv, FutureInv, Queued
    <3>3. future[t] \in FutureStates
      BY DEF IInv, Types
    <3>4. QED
      BY <3>1, <3>2, <3>3 DEF States, Killed, Pool!Over, FutureStates
  <2>4. shutdown /\ waiter' = "returned" /\ UNCHANGED shutdown
    BY <1>4 DEF JoinReturns, IInv, WaiterInv
  <2>5. Pool!Drain
    BY <1>2, <2>3, <2>4 DEF Pool!Drain, States
  <2>6. QED
    BY <2>5 DEF Pool!Next
<1>5. QED
  BY <1>3, <1>4

LEMMA PoolStutters ==
  ASSUME IInv, NEW w \in Workers,
         Get(w) \/ GetTimesOut(w) \/ PollShutdown(w) \/ SkipCancelled(w) \/ Finally(w)
  PROVE  UNCHANGED Pool!vars
<1> USE PoolAssumption DEF IInv, Types
<1>1. CASE Get(w)
  <2>1. Head(work_queue) \in Tasks /\ future[Head(work_queue)] # "running"
    BY <1>1 DEF Get, FutureInv
  <2>2. ASSUME NEW u \in Tasks
        PROVE  States'[u] = States[u]
    <3>1. future' = future
      BY <1>1 DEF Get
    <3>2. future[u] = "running" => (Killed(u)' <=> Killed(u))
      BY <1>1, <2>1 DEF Get, Step, Killed, HoldsInv
    <3>3. QED
      BY <3>1, <3>2, SameState
  <2>3. UNCHANGED <<shutdown, waiter>>
    BY <1>1 DEF Get
  <2>4. QED
    BY <2>2, <2>3, PoolStutter
<1>2. CASE GetTimesOut(w) \/ PollShutdown(w)
  <2>1. UNCHANGED <<future, item, shutdown, waiter>>
    BY <1>2 DEF GetTimesOut, PollShutdown
  <2>2. item[w] = NoTask /\ \A v \in Workers \ {w} : worker'[v] = worker[v]
    BY <1>2 DEF GetTimesOut, PollShutdown, Step, HoldsInv
  <2>3. \A u \in Tasks : Killed(u)' <=> Killed(u)
    BY <2>1, <2>2 DEF Killed
  <2>4. \A u \in Tasks : States'[u] = States[u]
    BY <2>1, <2>3, SameState
  <2>5. QED
    BY <2>1, <2>4, PoolStutter
<1>3. CASE SkipCancelled(w)
  <2>1. item[w] \in Tasks /\ UNCHANGED <<shutdown, waiter>>
    BY <1>3 DEF SkipCancelled, Step, HoldsInv
  <2>2. States[item[w]] = "cancelled" /\ States'[item[w]] = "cancelled"
    BY <1>3, <2>1 DEF SkipCancelled, States, Killed
  <2>3. ASSUME NEW u \in Tasks \ {item[w]}
        PROVE  States'[u] = States[u]
    <3>1. future'[u] = future[u]
      BY <1>3 DEF SkipCancelled
    <3>2. Killed(u)' <=> Killed(u)
      BY <1>3, <3>1 DEF SkipCancelled, TaskDone, Step, Killed
    <3>3. QED
      BY <3>1, <3>2, SameState
  <2>4. QED
    BY <2>1, <2>2, <2>3, PoolStutter
<1>4. CASE Finally(w)
  <2>1. item[w] \in Tasks /\ UNCHANGED <<future, shutdown, waiter>>
    BY <1>4 DEF Finally, Step, HoldsInv
  <2>2. future[item[w]] = "running" => worker[w] = "leave"
    BY <1>4 DEF Finally, Step, FutureInv
  <2>3. ASSUME NEW u \in Tasks, future[u] = "running"
        PROVE  Killed(u)' <=> Killed(u)
    <3>1. \A v \in Workers : item'[v] = u <=> v # w /\ item[v] = u
      BY <1>4 DEF Finally, TaskDone
    <3>2. item[w] = u => worker[w] = "leave"
      BY <2>2, <2>3
    <3>3. \A v \in Workers \ {w} : worker'[v] = worker[v]
      BY <1>4 DEF Finally, Step
    <3>4. QED
      BY <2>1, <3>1, <3>2, <3>3 DEF Killed
  <2>4. \A u \in Tasks : States'[u] = States[u]
    BY <2>1, <2>3, SameState
  <2>5. QED
    BY <2>1, <2>4, PoolStutter
<1>5. QED
  BY <1>1, <1>2, <1>3, <1>4

LEMMA PoolTaskSteps ==
  ASSUME IInv, NEW w \in Workers, Begin(w) \/ Resolve(w) \/ Raise(w)
  PROVE  [Pool!Next]_(Pool!vars)
<1> USE PoolAssumption DEF IInv, Types
<1>1. PICK t \in Tasks : t = item[w]
  BY DEF Begin, Resolve, Raise, Step, HoldsInv
<1>2. \A v \in Workers \ {w} : item[v] # t
  BY <1>1 DEF OnePlace
<1>3. UNCHANGED <<item, shutdown, waiter>>
  BY DEF Begin, Resolve, Raise
<1>4. ASSUME NEW u \in Tasks \ {t}
      PROVE  States'[u] = States[u]
  <2>1. future'[u] = future[u]
    BY <1>1 DEF Begin, Resolve, Raise
  <2>2. \A v \in Workers : item[v] = u => worker'[v] = worker[v]
    BY <1>1 DEF Begin, Resolve, Raise, Step
  <2>3. Killed(u)' <=> Killed(u)
    BY <1>3, <2>1, <2>2 DEF Killed
  <2>4. QED
    BY <2>1, <2>3, SameState
<1>5. CASE Begin(w)
  <2>1. States[t] = "pending" /\ States'[t] = "running"
    BY <1>1, <1>3, <1>5 DEF Begin, Step, States, Killed
  <2>2. Pool!Call(t)
    BY <1>3, <1>4, <2>1, PoolMove DEF Pool!Call
  <2>3. QED
    BY <2>2 DEF Pool!Next
<1>6. CASE Resolve(w)
  <2>1. States[t] = "running" /\ States'[t] = "done"
    BY <1>1, <1>6 DEF Resolve, Step, States, Killed, FutureInv
  <2>2. Pool!Finish(t)
    BY <1>3, <1>4, <2>1, PoolMove DEF Pool!Finish
  <2>3. QED
    BY <2>2 DEF Pool!Next
<1>7. CASE Raise(w)
  <2>1. States[t] = "running" /\ States'[t] = "abandoned"
    BY <1>1, <1>2, <1>3, <1>7 DEF Raise, Step, States, Killed, FutureInv
  <2>2. Pool!Finish(t)
    BY <1>3, <1>4, <2>1, PoolMove DEF Pool!Finish
  <2>3. QED
    BY <2>2 DEF Pool!Next
<1>8. QED
  BY <1>5, <1>6, <1>7

LEMMA PoolStep == IInv /\ [Next]_vars => [Pool!Next]_(Pool!vars)
<1> SUFFICES ASSUME IInv, [Next]_vars
             PROVE  [Pool!Next]_(Pool!vars)
  OBVIOUS
<1>1. CASE Next
  BY <1>1, PoolCallers, PoolShutdown, PoolStutters, PoolTaskSteps DEF Next, Work
<1>2. CASE UNCHANGED vars
  <2>1. UNCHANGED <<future, worker, item, shutdown, waiter>>
    BY <1>2 DEF vars, workerVars
  <2>2. States' = States
    BY <2>1 DEF States, Killed
  <2>3. QED
    BY <2>1, <2>2, PoolStutter
<1>3. QED
  BY <1>1, <1>2

(***************************************************************************)
(* DaemonThreadPoolExecutor is an Executor: no function is called twice or *)
(* after its cancellation, and shutdown(wait=True) returns only when every *)
(* accepted task is over.                                                  *)
(***************************************************************************)
THEOREM Refinement == Spec => ExecutorSpec
<1>1. QED
  BY Invariance, PoolInit, PoolStep, PTL DEF Spec, ExecutorSpec, Pool!Spec
-----------------------------------------------------------------------------
(***************************************************************************)
(* An open pool is served.  No thread leaves an open pool, and as long as  *)
(* there is a free slot each queued task has an idle worker of its own,    *)
(* because its submit has started one.                                     *)
(***************************************************************************)

Idle == {w \in Workers : worker[w] \in {"get", "empty"}}

ServedInv ==
  ~ shutdown =>
    /\ \A w \in Workers : worker[w] # "exited"
    /\ (\E w \in Workers : worker[w] = "none") => Len(work_queue) <= Cardinality(Idle)

LEMMA IdleFinite == IsFiniteSet(Idle) /\ Cardinality(Idle) \in Nat
<1>1. Idle \subseteq Workers
  BY DEF Idle
<1>2. IsFiniteSet(Idle)
  BY <1>1, PoolAssumption, FS_Subset
<1>3. QED
  BY <1>2, FS_CardinalityType

LEMMA ServedInit == Init => ServedInv
<1> SUFFICES ASSUME Init
             PROVE  ServedInv
  OBVIOUS
<1>1. Len(work_queue) = 0 /\ \A w \in Workers : worker[w] = "none"
  BY DEF Init
<1>2. QED
  BY <1>1, IdleFinite DEF ServedInv

LEMMA ServedSubmit ==
  ASSUME IInv, ServedInv, NEW t \in Tasks, Submit(t)
  PROVE  ServedInv'
<1> DEFINE free == {w \in Workers : worker[w] \in {"none", "exited"}}
<1>1. ~ shutdown /\ ~ shutdown' /\ Len(work_queue') = Len(work_queue) + 1
  BY DEF Submit, IInv, Types
<1>2. CASE free = {}
  BY <1>1, <1>2 DEF Submit, SpawnWorker, ServedInv
<1>3. CASE free # {}
  <2>1. PICK w \in free : worker' = [worker EXCEPT ![w] = "get"]
    BY <1>3 DEF Submit, SpawnWorker
  <2>2. worker[w] = "none"
    BY <1>1, <2>1 DEF ServedInv
  <2>3. Idle' = Idle \cup {w} /\ w \notin Idle
    BY <2>1, <2>2 DEF Idle, IInv, Types
  <2>4. Cardinality(Idle') = Cardinality(Idle) + 1
    BY <2>3, IdleFinite, FS_AddElement
  <2>5. Len(work_queue) <= Cardinality(Idle)
    BY <1>1, <2>1, <2>2 DEF ServedInv
  <2>6. \A v \in Workers : worker'[v] # "exited"
    BY <1>1, <2>1 DEF ServedInv, IInv, Types
  <2>7. Len(work_queue') <= Cardinality(Idle')
    BY <1>1, <2>4, <2>5, IdleFinite DEF IInv, Types
  <2>8. QED
    BY <2>6, <2>7 DEF ServedInv
<1>4. QED
  BY <1>2, <1>3

LEMMA ServedGet ==
  ASSUME IInv, ServedInv, NEW w \in Workers, Get(w)
  PROVE  ServedInv'
<1>1. /\ worker[w] = "get" /\ worker' = [worker EXCEPT ![w] = "got"]
      /\ shutdown' = shutdown
      /\ Len(work_queue') = Len(work_queue) - 1
  BY DEF Get, Step, IInv, Types
<1>2. Idle' = Idle \ {w} /\ w \in Idle
  BY <1>1 DEF Idle, IInv, Types
<1>3. Cardinality(Idle') = Cardinality(Idle) - 1
  BY <1>2, IdleFinite, FS_RemoveElement
<1>4. \A v \in Workers : worker'[v] \in {"none", "exited"} => worker[v] = worker'[v]
  BY <1>1 DEF IInv, Types
<1>5. Len(work_queue) \in Nat
  BY DEF IInv, Types
<1>6. QED
  BY <1>1, <1>3, <1>4, <1>5, IdleFinite DEF ServedInv

(* Whatever else a worker does while the pool is open leaves it no less idle. *)
LEMMA ServedWorker ==
  ASSUME IInv, ServedInv, NEW w \in Workers,
         \/ GetTimesOut(w) \/ PollShutdown(w) \/ Begin(w) \/ SkipCancelled(w)
         \/ Resolve(w) \/ Raise(w) \/ Finally(w)
  PROVE  ServedInv'
<1> SUFFICES ASSUME ~ shutdown'
             PROVE  ServedInv'
  BY DEF ServedInv
<1>1. shutdown' = shutdown /\ work_queue' = work_queue /\ ~ shutdown
  BY DEF GetTimesOut, PollShutdown, Begin, SkipCancelled, Resolve, Raise, Finally, queueVars
<1>2. PICK s \in {"get", "empty", "call", "resolved", "leave", "killed"} :
        worker' = [worker EXCEPT ![w] = s]
  BY <1>1 DEF GetTimesOut, PollShutdown, Begin, SkipCancelled, Resolve, Raise, Finally, Step
<1>3. w \in Idle => s \in {"get", "empty"}
  BY <1>1, <1>2
    DEF Idle, IInv, Types, GetTimesOut, PollShutdown, Begin, SkipCancelled, Resolve, Raise,
        Finally, Step
<1>4. Idle' = Idle \/ Idle' = Idle \cup {w}
  BY <1>2, <1>3 DEF Idle, IInv, Types
<1>5. Cardinality(Idle) <= Cardinality(Idle')
  BY <1>4, IdleFinite, FS_AddElement
<1>6. \A v \in Workers : worker'[v] \in {"none", "exited"} => worker[v] = worker'[v]
  BY <1>2 DEF IInv, Types
<1>7. Cardinality(Idle') \in Nat
  BY <1>4, IdleFinite, FS_AddElement
<1>8. QED
  BY <1>1, <1>5, <1>6, <1>7, IdleFinite DEF ServedInv, IInv, Types

LEMMA ServedStep == IInv /\ ServedInv /\ [Next]_vars => ServedInv'
<1> SUFFICES ASSUME IInv, ServedInv, [Next]_vars
             PROVE  ServedInv'
  OBVIOUS
<1>1. CASE Shutdown \/ JoinReturns \/ (\E t \in Tasks : Cancel(t)) \/ UNCHANGED vars
  <2>1. UNCHANGED <<work_queue, worker>> /\ (shutdown => shutdown')
    BY <1>1 DEF Shutdown, JoinReturns, Cancel, vars, queueVars, workerVars
  <2>2. Idle' = Idle
    BY <2>1 DEF Idle
  <2>3. QED
    BY <2>1, <2>2 DEF ServedInv
<1>2. ASSUME NEW w \in Workers, Work(w)
      PROVE  ServedInv'
  BY <1>2, ServedGet, ServedWorker DEF Work
<1>3. QED
  BY <1>1, <1>2, ServedSubmit DEF Next

(***************************************************************************)
(* While the pool is open a queued task has a live worker, unless          *)
(* exceptions have killed them all: with a free slot there is an idle      *)
(* worker for each queued task, and without one every thread is alive or   *)
(* killed.                                                                 *)
(***************************************************************************)
THEOREM QueuedTasksAreServed == Spec => []OpenPoolIsServed
<1>1. ASSUME IInv, ServedInv
      PROVE  OpenPoolIsServed
  <2> SUFFICES ASSUME ~ shutdown, work_queue # <<>>,
                      \A w \in Workers : worker[w] \notin Alive \ {"leave"}
               PROVE  \A w \in Workers : worker[w] \in {"leave", "killed"}
    BY DEF OpenPoolIsServed
  <2>1. Idle = {}
    BY DEF Idle, Alive
  <2>2. Cardinality(Idle) = 0
    BY <2>1, FS_EmptySet
  <2>3. Len(work_queue) \in Nat /\ Len(work_queue) > 0
    BY <1>1 DEF IInv, Types
  <2>4. \A w \in Workers : worker[w] \notin {"none", "exited"}
    BY <1>1, <2>2, <2>3 DEF ServedInv
  <2>5. QED
    BY <1>1, <2>4 DEF IInv, Types, WorkerStates
<1>2. QED
  BY <1>1, Invariance, ServedInit, ServedStep, PTL DEF Spec
=============================================================================
