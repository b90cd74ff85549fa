------------------------- MODULE LoopManagerProofs --------------------------
(***************************************************************************)
(* What the two locks of TaskLoopManager achieve, for any number of        *)
(* threads and of managers made one after the other.                       *)
(*                                                                         *)
(* The argument: a manager whose loop is not closed is the singleton or    *)
(* the one being made.  While one is being made there is no singleton and  *)
(* nobody else has a reference to it; while a thread is in stop, holding   *)
(* its manager's lock, that manager is the singleton.  So the instance     *)
(* that stop clears is its own, and it has shut that one down.  An         *)
(* executor that is shut gets no tasks, and the last ones are waited for   *)
(* under the lock.                                                         *)
(***************************************************************************)
EXTENDS LoopManager, FiniteSetTheorems, TLAPS

Types ==
  /\ instance \in Managers \cup {None}
  /\ instance_lock \in Threads \cup {None}
  /\ stop_lock \in [Managers -> Threads \cup {None}]
  /\ loop \in [Managers -> LoopStates]
  /\ ready \in [Managers -> Seq(Threads \cup {None})]
  /\ todo \in [Managers -> Nat]
  /\ \A m \in Managers : todo[m] <= Len(ready[m])
  /\ executor \in [Managers -> {"open", "shutdown"}]
  /\ unfinished \in [Managers -> BOOLEAN]
  /\ pc \in [Threads -> ThreadStates]
  /\ mine \in [Threads -> Managers \cup {None}]
  /\ job \in [Threads -> JobStates]

(* The holders of the locks are the threads in the critical sections. *)
InstanceLockInv == \A t \in Threads : pc[t] = "create" <=> instance_lock = t

StopLockInv ==
  \A t \in Threads, m \in Managers :
    pc[t] \in Ending /\ mine[t] = m <=> stop_lock[m] = t

(* Who has a reference to a manager, and that the manager has been made. *)
ReferenceInv ==
  /\ \A t \in Threads :
       /\ pc[t] \in {"create", "blocked", "stop"} \cup Ending => mine[t] # None
       /\ mine[t] # None => loop[mine[t]] # "none"
  /\ instance # None => loop[instance] # "none"

(* A job belongs to a thread that is blocked on it. *)
JobInv == \A t \in Threads : job[t] # "none" => pc[t] = "blocked"

(* While a manager is being made it has no rival and no other user. *)
MakingInv ==
  \A t \in Threads : pc[t] = "create" =>
    /\ instance = None
    /\ \A u \in Threads : mine[u] = mine[t] => u = t

(* Only the singleton is being stopped; once its loop is closed and its    *)
(* executor shut down and idle, it may be cleared.                         *)
EndingInv ==
  \A t \in Threads :
    /\ pc[t] \in Ending => instance = mine[t]
    /\ pc[t] \in {"join", "clear"} => loop[mine[t]] = "closed" /\ executor[mine[t]] = "shutdown"
    /\ pc[t] = "clear" => ~ unfinished[mine[t]]

(* The last tasks of an executor are waited for under the stop lock. *)
JoinInv ==
  \A m \in Managers : executor[m] = "shutdown" /\ unfinished[m] => stop_lock[m] # None

(* Only stop ends a loop, or an exception that escapes it. *)
StopQueued(m) == \E i \in 1 .. Len(ready[m]) : ready[m][i] = None

StopInv ==
  \A m \in Managers :
    StopQueued(m) \/ loop[m] \in {"stopping", "exited", "closed"}
      => stop_lock[m] # None \/ executor[m] = "shutdown" \/ TakenDown(m)

LockInv ==
  /\ Types
  /\ InstanceLockInv /\ StopLockInv /\ ReferenceInv /\ JobInv
  /\ MakingInv /\ EndingInv /\ JoinInv /\ NoLeftovers /\ StopInv

(***************************************************************************)
(* A caller's job is in the queue of one loop, that of its manager, and is *)
(* there once.                                                             *)
(***************************************************************************)
QueueInv ==
  \A m \in Managers :
    /\ \A i \in 1 .. Len(ready[m]) :
         ready[m][i] # None => job[ready[m][i]] \in Queued /\ mine[ready[m][i]] = m
    /\ \A i, j \in 1 .. Len(ready[m]) :
         ready[m][i] = ready[m][j] /\ ready[m][i] # None => i = j

IInv == LockInv /\ QueueInv

-----------------------------------------------------------------------------

LEMMA InitInv == Init => IInv
<1> SUFFICES ASSUME Init
             PROVE  IInv
  OBVIOUS
<1> USE LoopAssumption
<1>1. Types
  BY DEF Init, Types, LoopStates, ThreadStates, JobStates
<1>2. /\ InstanceLockInv /\ StopLockInv /\ ReferenceInv /\ JobInv
      /\ MakingInv /\ EndingInv /\ JoinInv
  BY DEF Init, InstanceLockInv, StopLockInv, ReferenceInv, JobInv, MakingInv, EndingInv, JoinInv,
         Ending
<1>3. NoLeftovers
  BY DEF Init, NoLeftovers
<1>4. StopInv /\ QueueInv
  BY DEF Init, StopInv, StopQueued, QueueInv
<1>5. QED
  BY <1>1, <1>2, <1>3, <1>4 DEF IInv, LockInv

LEMMA TypeFollows == IInv => TypeOK
BY DEF IInv, LockInv, Types, TypeOK, InstanceLockInv, StopLockInv

(* Two loops that are not closed would be the singleton and one in the making. *)
LEMMA OneLoopFollows == IInv => OneLoop
<1> SUFFICES ASSUME IInv, NEW m \in Managers, NEW n \in Managers,
                    loop[m] \notin {"none", "closed"}, loop[n] \notin {"none", "closed"}
             PROVE  m = n
  BY DEF OneLoop
<1>1. (m = instance \/ Making(m)) /\ (n = instance \/ Making(n))
  BY DEF IInv, LockInv, NoLeftovers
<1>2. QED
  BY <1>1, LoopAssumption DEF IInv, LockInv, Making, MakingInv, InstanceLockInv

-----------------------------------------------------------------------------
(* Steps of a loop, and steps of a thread that only put a job in a queue. *)

LEMMA LoopOnlyInv ==
  ASSUME IInv, Types', StopInv', JobInv',
         UNCHANGED <<instance, locks, executor, unfinished, mine>>,
         \A m \in Managers : loop'[m] = "none" <=> loop[m] = "none",
         \A m \in Managers : loop[m] = "closed" => loop'[m] = "closed",
         \A t \in Threads :
           \/ pc'[t] = pc[t]
           \/ /\ pc[t] \notin Ending \cup {"create"}
              /\ pc'[t] \notin Ending \cup {"create"}
              /\ pc'[t] \in {"blocked", "stop"} => mine[t] # None
  PROVE  LockInv'
<1> USE DEF locks
<1>1. \A t \in Threads : /\ pc'[t] = "create" <=> pc[t] = "create"
                         /\ pc'[t] \in Ending <=> pc[t] \in Ending
                         /\ pc'[t] = "clear" <=> pc[t] = "clear"
                         /\ pc'[t] = "join" <=> pc[t] = "join"
  BY DEF Ending
<1>2. InstanceLockInv' /\ StopLockInv' /\ MakingInv' /\ JoinInv'
  BY <1>1 DEF IInv, LockInv, InstanceLockInv, StopLockInv, MakingInv, JoinInv
<1>3. ReferenceInv'
  <2>0. instance # None => loop'[instance] # "none"
    BY DEF IInv, LockInv, Types, ReferenceInv
  <2> SUFFICES ASSUME NEW t \in Threads
               PROVE  /\ pc'[t] \in {"create", "blocked", "stop"} \cup Ending => mine[t] # None
                      /\ mine[t] # None => loop'[mine[t]] # "none"
    BY <2>0 DEF ReferenceInv
  <2>1. mine[t] \in Managers \cup {None}
    BY DEF IInv, LockInv, Types
  <2>2. QED
    BY <1>1, <2>1 DEF IInv, LockInv, ReferenceInv
<1>4. EndingInv'
  <2> SUFFICES ASSUME NEW t \in Threads
               PROVE  /\ pc[t] \in Ending => instance = mine[t]
                      /\ pc[t] \in {"join", "clear"}
                           => loop'[mine[t]] = "closed" /\ executor[mine[t]] = "shutdown"
                      /\ pc[t] = "clear" => ~ unfinished[mine[t]]
    BY <1>1 DEF EndingInv
  <2>1. pc[t] \in Ending => mine[t] \in Managers
    BY DEF IInv, LockInv, Types, ReferenceInv
  <2>2. QED
    BY <2>1 DEF IInv, LockInv, EndingInv, Ending
<1>5. NoLeftovers'
  <2>1. \A m \in Managers : Making(m)' <=> Making(m)
    BY <1>1 DEF Making
  <2>2. QED
    BY <2>1 DEF IInv, LockInv, NoLeftovers
<1>6. QED
  BY <1>2, <1>3, <1>4, <1>5 DEF IInv, LockInv

(* The queue is the only thing to check when a callback is appended. *)
LEMMA AppendQueue ==
  ASSUME NEW q \in Seq(Threads \cup {None}), NEW s \in Seq(Threads \cup {None})
  PROVE  /\ q \o s \in Seq(Threads \cup {None})
         /\ Len(q \o s) = Len(q) + Len(s)
         /\ \A i \in 1 .. Len(q \o s) :
              (q \o s)[i] = IF i <= Len(q) THEN q[i] ELSE s[i - Len(q)]
OBVIOUS

(* A thread enters a queue: nothing told the loop to stop. *)
LEMMA QueueThreads ==
  ASSUME IInv, NEW m \in Managers, NEW s \in Seq(Threads),
         ready' = [ready EXCEPT ![m] = @ \o s]
  PROVE  /\ ready' \in [Managers -> Seq(Threads \cup {None})]
         /\ \A n \in Managers : todo[n] <= Len(ready'[n])
         /\ \A n \in Managers : StopQueued(n)' => StopQueued(n)
<1> USE LoopAssumption
<1>1. /\ ready[m] \in Seq(Threads \cup {None})
      /\ s \in Seq(Threads \cup {None})
  BY DEF IInv, LockInv, Types
<1>2. /\ ready'[m] = ready[m] \o s
      /\ \A n \in Managers \ {m} : ready'[n] = ready[n]
      /\ ready' = [n \in Managers |-> ready'[n]]
  BY DEF IInv, LockInv, Types
<1>3. ready' \in [Managers -> Seq(Threads \cup {None})]
  BY <1>1, <1>2, AppendQueue DEF IInv, LockInv, Types
<1>4. \A n \in Managers : todo[n] <= Len(ready'[n])
  <2>1. todo[m] <= Len(ready'[m])
    BY <1>1, <1>2, AppendQueue DEF IInv, LockInv, Types
  <2>2. QED
    BY <1>2, <2>1 DEF IInv, LockInv, Types
<1>5. \A i \in 1 .. Len(s) : s[i] # None
  OBVIOUS
<1>6. \A n \in Managers : StopQueued(n)' => StopQueued(n)
  <2>1. ASSUME NEW i \in 1 .. Len(ready'[m]), ready'[m][i] = None
        PROVE  StopQueued(m)
    BY <1>1, <1>2, <1>5, <2>1, AppendQueue DEF StopQueued
  <2>2. QED
    BY <1>2, <2>1 DEF StopQueued
<1>7. QED
  BY <1>3, <1>4, <1>6

LEMMA PopQueue ==
  ASSUME IInv, NEW m \in Managers, NEW c, NEW s \in Seq(Threads), Pop(m, c, s)
  PROVE  /\ ready' \in [Managers -> Seq(Threads \cup {None})]
         /\ todo' \in [Managers -> Nat]
         /\ \A n \in Managers : todo'[n] <= Len(ready'[n])
         /\ \A n \in Managers : StopQueued(n)' => StopQueued(n)
         /\ c = None => StopQueued(m)
<1> USE LoopAssumption
<1>1. /\ ready[m] \in Seq(Threads \cup {None}) /\ ready[m] # <<>>
      /\ todo[m] \in Nat /\ todo[m] > 0 /\ todo[m] <= Len(ready[m])
      /\ ready[m][1] = c
  BY DEF IInv, LockInv, Types, Pop
<1> DEFINE q == Tail(ready[m])
<1>2. /\ q \in Seq(Threads \cup {None})
      /\ Len(q) = Len(ready[m]) - 1
      /\ \A i \in 1 .. Len(q) : q[i] = ready[m][i + 1]
  BY <1>1
<1>3. s \in Seq(Threads \cup {None}) /\ \A i \in 1 .. Len(s) : s[i] # None
  OBVIOUS
<1>4. /\ ready'[m] = q \o s
      /\ \A n \in Managers \ {m} : ready'[n] = ready[n]
      /\ ready' = [n \in Managers |-> ready'[n]]
      /\ todo'[m] = todo[m] - 1
      /\ \A n \in Managers \ {m} : todo'[n] = todo[n]
      /\ todo' = [n \in Managers |-> todo'[n]]
  BY DEF IInv, LockInv, Types, Pop
<1> HIDE DEF q
<1>5. /\ q \o s \in Seq(Threads \cup {None})
      /\ Len(q \o s) = Len(q) + Len(s)
      /\ \A i \in 1 .. Len(q \o s) : (q \o s)[i] = IF i <= Len(q) THEN q[i] ELSE s[i - Len(q)]
  BY <1>2, <1>3, AppendQueue
<1>6. ready' \in [Managers -> Seq(Threads \cup {None})]
  <2>1. \A n \in Managers : ready'[n] \in Seq(Threads \cup {None})
    BY <1>4, <1>5 DEF IInv, LockInv, Types
  <2>2. QED
    BY <1>4, <2>1
<1>7. todo' \in [Managers -> Nat]
  <2>1. todo'[m] \in Nat
    BY <1>1, <1>4
  <2>2. \A n \in Managers : todo'[n] \in Nat
    BY <1>4, <2>1 DEF IInv, LockInv, Types
  <2>3. QED
    BY <1>4, <2>2
<1>8. \A n \in Managers : todo'[n] <= Len(ready'[n])
  <2>1. todo'[m] <= Len(ready'[m])
    <3>1. Len(s) \in Nat /\ Len(ready[m]) \in Nat
      BY <1>1, <1>3
    <3>2. QED
      BY <1>1, <1>2, <1>4, <1>5, <3>1
  <2>2. QED
    BY <1>4, <2>1 DEF IInv, LockInv, Types
<1>9. StopQueued(m)' => StopQueued(m)
  <2> SUFFICES ASSUME NEW i \in 1 .. Len(q \o s), (q \o s)[i] = None
               PROVE  StopQueued(m)
    BY <1>4 DEF StopQueued
  <2>1. i \in 1 .. Len(q)
    <3>1. Len(q) \in Nat /\ Len(s) \in Nat
      BY <1>2, <1>3
    <3>2. i > Len(q) => i - Len(q) \in 1 .. Len(s)
      BY <1>5, <3>1
    <3>3. QED
      BY <1>3, <1>5, <3>1, <3>2
  <2>2. ready[m][i + 1] = None /\ i + 1 \in 1 .. Len(ready[m])
    BY <1>1, <1>2, <1>5, <2>1
  <2>3. QED
    BY <2>2 DEF StopQueued
<1>10. c = None => StopQueued(m)
  BY <1>1 DEF StopQueued
<1>11. \A n \in Managers : StopQueued(n)' => StopQueued(n)
  BY <1>4, <1>9 DEF StopQueued
<1>12. QED
  BY <1>6, <1>7, <1>8, <1>10, <1>11

LEMMA JobPops ==
  ASSUME NEW m \in Managers, NEW t \in Threads, NEW from, NEW to, JobStep(m, t, from, to)
  PROVE  \E s \in Seq(Threads) : Pop(m, t, s)
<1>1. PICK s : s = IF to \in Queued THEN <<t>> ELSE <<>>
  OBVIOUS
<1>2. Pop(m, t, s)
  BY <1>1, Zenon DEF JobStep
<1>3. s \in Seq(Threads)
  BY <1>1
<1>4. QED
  BY <1>2, <1>3

(* Without an escaping exception a loop leaves "running" only when told to. *)
LEMMA LoopStepInv ==
  ASSUME IInv, NEW m \in Managers, LoopStep(m)
  PROVE  LockInv'
<1> USE LoopAssumption
<1>0. JobInv'
  <2>1. UNCHANGED pc
    BY DEF LoopStep, MakeLoop, RunForever, Iterate, RunJob, RunStop, RunFatal,
           LeaveLoop, CloseLoop, JobStep, Pop
  <2>2. \A t \in Threads : job'[t] # "none" => job[t] # "none"
    <3>1. CASE UNCHANGED job
      BY <3>1
    <3>2. CASE \E t \in Threads, from \in JobStates \ {"none"}, to \in JobStates : JobStep(m, t, from, to)
      BY <3>2 DEF JobStep, IInv, LockInv, Types
    <3>3. QED
      BY <3>1, <3>2 DEF LoopStep, MakeLoop, RunForever, Iterate, RunJob, RunStop, RunFatal,
                        LeaveLoop, CloseLoop, JobStates, Queued
  <2>3. QED
    BY <2>1, <2>2 DEF IInv, LockInv, JobInv
<1>1. CASE MakeLoop(m) \/ RunForever(m)
  <2>1. UNCHANGED <<instance, locks, ready, todo, executor, unfinished, pc, mine, job>>
    BY <1>1 DEF MakeLoop, RunForever
  <2>2. /\ loop' \in [Managers -> LoopStates]
        /\ \A n \in Managers : \/ loop'[n] = loop[n]
                               \/ loop[n] \in {"thread", "made"} /\ loop'[n] \in {"made", "running"}
    <3>1. CASE MakeLoop(m)
      BY <3>1 DEF MakeLoop, IInv, LockInv, Types, LoopStates
    <3>2. CASE RunForever(m)
      BY <3>2 DEF RunForever, IInv, LockInv, Types, LoopStates
    <3>3. QED
      BY <1>1, <3>1, <3>2
  <2>3. Types'
    BY <2>1, <2>2 DEF IInv, LockInv, Types, locks
  <2>4. StopInv'
    BY <2>1, <2>2 DEF IInv, LockInv, StopInv, StopQueued, TakenDown, locks
  <2>5. QED
    BY <2>1, <2>2, <2>3, <2>4, <1>0, LoopOnlyInv
<1>2. CASE Iterate(m)
  <2>1. UNCHANGED <<instance, locks, loop, ready, executor, unfinished, pc, mine, job>>
    BY <1>2 DEF Iterate
  <2>2. todo' \in [Managers -> Nat] /\ \A n \in Managers : todo'[n] <= Len(ready[n])
    BY <1>2 DEF Iterate, IInv, LockInv, Types
  <2>3. Types'
    BY <2>1, <2>2 DEF IInv, LockInv, Types, locks
  <2>4. StopInv'
    BY <2>1 DEF IInv, LockInv, StopInv, StopQueued, TakenDown, locks
  <2>5. QED
    BY <2>1, <2>3, <2>4, <1>0, LoopOnlyInv
<1>3. CASE RunJob(m)
  <2>1. PICK t \in Threads, from \in Queued, to \in JobStates : JobStep(m, t, from, to) /\ UNCHANGED loop
    BY <1>3 DEF RunJob, JobStates, Queued
  <2>2. PICK s \in Seq(Threads) : Pop(m, t, s)
    BY <2>1, JobPops
  <2>3. UNCHANGED <<instance, locks, loop, executor, unfinished, pc, mine>>
    BY <2>1, <2>2 DEF Pop
  <2>4. job' \in [Threads -> JobStates]
    BY <2>1 DEF JobStep, IInv, LockInv, Types
  <2>5. Types'
    BY <2>2, <2>3, <2>4, PopQueue DEF IInv, LockInv, Types, locks
  <2>6. \A n \in Managers : TakenDown(n) => TakenDown(n)'
    BY <2>1, <2>3 DEF JobStep, IInv, LockInv, Types, TakenDown, Queued
  <2>7. StopInv'
    BY <2>2, <2>3, <2>6, PopQueue DEF IInv, LockInv, StopInv, locks
  <2>8. QED
    BY <2>7, <2>3, <2>5, <2>6, <1>0, LoopOnlyInv
<1>4. CASE RunStop(m)
  <2>1. Pop(m, None, <<>>) /\ <<>> \in Seq(Threads)
    BY <1>4 DEF RunStop
  <2>2. UNCHANGED <<instance, locks, executor, unfinished, pc, mine, job>>
    BY <1>4 DEF RunStop, Pop
  <2>3. /\ loop' \in [Managers -> LoopStates]
        /\ loop[m] \in {"running", "stopping"} /\ loop'[m] = "stopping"
        /\ \A n \in Managers \ {m} : loop'[n] = loop[n]
    BY <1>4 DEF RunStop, Pop, InLoop, IInv, LockInv, Types, LoopStates
  <2>4. Types'
    BY <2>1, <2>2, <2>3, PopQueue DEF IInv, LockInv, Types, locks
  <2>5. StopInv'
    BY <2>1, <2>2, <2>3, PopQueue DEF IInv, LockInv, StopInv, TakenDown, locks
  <2>6. QED
    BY <2>2, <2>3, <2>4, <2>5, <1>0, LoopOnlyInv
<1>5. CASE RunFatal(m)
  <2>1. PICK t \in Threads, from \in {"started", "woken"} : JobStep(m, t, from, "fatal")
    BY <1>5 DEF RunFatal
  <2>2. PICK s \in Seq(Threads) : Pop(m, t, s)
    BY <2>1, JobPops
  <2>3. UNCHANGED <<instance, locks, executor, unfinished, pc, mine>>
    BY <2>2 DEF Pop
  <2>4. job' \in [Threads -> JobStates]
    BY <2>1 DEF JobStep, IInv, LockInv, Types, JobStates
  <2>5. /\ loop' \in [Managers -> LoopStates]
        /\ loop[m] \in {"running", "stopping"} /\ loop'[m] = "exited"
        /\ \A n \in Managers \ {m} : loop'[n] = loop[n]
    BY <1>5, <2>2 DEF RunFatal, Pop, InLoop, IInv, LockInv, Types, LoopStates
  <2>6. Types'
    BY <2>2, <2>3, <2>4, <2>5, PopQueue DEF IInv, LockInv, Types, locks
  <2>7. StopInv'
    <3>1. job' = [job EXCEPT ![t] = "fatal"] /\ job[t] # "fatal"
      BY <2>1 DEF JobStep
    <3>2. mine[t] = m
      <4>1. /\ ready[m] \in Seq(Threads \cup {None})
            /\ todo[m] > 0 /\ todo[m] \in Nat /\ todo[m] <= Len(ready[m])
            /\ Head(ready[m]) = t
        BY <2>2 DEF Pop, IInv, LockInv, Types
      <4>2. ready[m][1] = t /\ 1 \in 1 .. Len(ready[m]) /\ t # None
        BY <4>1
      <4>3. QED
        BY <4>2 DEF IInv, QueueInv
    <3>3. TakenDown(m)' /\ \A n \in Managers : TakenDown(n) => TakenDown(n)'
      BY <2>3, <3>1, <3>2 DEF IInv, LockInv, Types, TakenDown
    <3>4. QED
      BY <2>2, <2>3, <2>5, <3>3, PopQueue DEF IInv, LockInv, StopInv, locks
  <2>8. QED
    BY <2>3, <2>5, <2>6, <2>7, <1>0, LoopOnlyInv
<1>6. CASE LeaveLoop(m)
  <2>1. UNCHANGED <<instance, locks, ready, todo, executor, unfinished, pc, mine, job>>
    BY <1>6 DEF LeaveLoop
  <2>2. /\ loop' \in [Managers -> LoopStates]
        /\ loop[m] = "stopping" /\ loop'[m] = "exited"
        /\ \A n \in Managers \ {m} : loop'[n] = loop[n]
    BY <1>6 DEF LeaveLoop, IInv, LockInv, Types, LoopStates
  <2>3. Types'
    BY <2>1, <2>2 DEF IInv, LockInv, Types, locks
  <2>4. StopInv'
    BY <2>1, <2>2 DEF IInv, LockInv, StopInv, StopQueued, TakenDown, locks
  <2>5. QED
    BY <2>1, <2>2, <2>3, <2>4, <1>0, LoopOnlyInv
<1>7. CASE CloseLoop(m)
  <2>1. UNCHANGED <<instance, locks, executor, unfinished, pc, mine, job>>
    BY <1>7 DEF CloseLoop
  <2>2. /\ loop' \in [Managers -> LoopStates]
        /\ loop[m] = "exited" /\ loop'[m] = "closed"
        /\ \A n \in Managers \ {m} : loop'[n] = loop[n]
    BY <1>7 DEF CloseLoop, IInv, LockInv, Types, LoopStates
  <2>3. /\ ready' \in [Managers -> Seq(Threads \cup {None})]
        /\ todo' \in [Managers -> Nat]
        /\ \A n \in Managers : todo'[n] <= Len(ready'[n])
        /\ ready'[m] = <<>> /\ todo'[m] = 0
        /\ \A n \in Managers \ {m} : ready'[n] = ready[n] /\ todo'[n] = todo[n]
    BY <1>7 DEF CloseLoop, IInv, LockInv, Types
  <2>4. Types'
    BY <2>1, <2>2, <2>3 DEF IInv, LockInv, Types, locks
  <2>5. StopInv'
    <3>1. \A n \in Managers : StopQueued(n)' => StopQueued(n)
      BY <2>3 DEF StopQueued
    <3>2. \A n \in Managers : TakenDown(n)' <=> TakenDown(n)
      BY <2>1 DEF TakenDown
    <3>3. QED
      BY <2>1, <2>2, <3>1, <3>2 DEF IInv, LockInv, StopInv, locks
  <2>6. QED
    BY <2>1, <2>2, <2>4, <2>5, <1>0, LoopOnlyInv
<1>8. QED
  BY <1>1, <1>2, <1>3, <1>4, <1>5, <1>6, <1>7 DEF LoopStep

-----------------------------------------------------------------------------
(* Steps of a thread outside the critical sections. *)

LEMMA OutsideInv ==
  ASSUME IInv, NEW t \in Threads,
         GetInstance(t) \/ Result(t) \/ Stop(t) \/ Submit(t) \/ Wake(t)
  PROVE  LockInv'
<1> USE LoopAssumption
<1>0. JobInv'
  <2>1. CASE GetInstance(t)
    BY <2>1 DEF GetInstance, Goto, IInv, LockInv, Types, JobInv
  <2>2. CASE Result(t)
    BY <2>2 DEF Result, Goto, IInv, LockInv, Types, JobInv
  <2>3. CASE Stop(t)
    BY <2>3 DEF Stop, Goto, IInv, LockInv, Types, JobInv
  <2>4. CASE Submit(t)
    BY <2>4 DEF Submit, Goto, IInv, LockInv, Types, JobInv
  <2>5. CASE Wake(t)
    BY <2>5 DEF Wake, IInv, LockInv, Types, JobInv
  <2>6. QED
    BY <2>1, <2>2, <2>3, <2>4, <2>5
<1>1. CASE GetInstance(t) \/ Result(t) \/ Stop(t)
  <2>1. UNCHANGED <<instance, locks, loop, ready, todo, executor, unfinished, mine>>
    BY <1>1 DEF GetInstance, Result, Stop, loopVars
  <2>2. /\ pc' \in [Threads -> ThreadStates]
        /\ \A u \in Threads :
             \/ pc'[u] = pc[u]
             \/ /\ pc[u] \notin Ending \cup {"create"}
                /\ pc'[u] \notin Ending \cup {"create"}
                /\ pc'[u] \in {"blocked", "stop"} => mine[u] # None
    <3>1. CASE GetInstance(t)
      BY <3>1 DEF GetInstance, Goto, IInv, LockInv, Types, ThreadStates, Ending
    <3>2. CASE Result(t)
      BY <3>2 DEF Result, Goto, IInv, LockInv, Types, ThreadStates, Ending
    <3>3. CASE Stop(t)
      BY <3>3 DEF Stop, Goto, IInv, LockInv, Types, ThreadStates, Ending
    <3>4. QED
      BY <1>1, <3>1, <3>2, <3>3
  <2>3. job' \in [Threads -> JobStates]
    BY <1>1 DEF GetInstance, Result, Stop, IInv, LockInv, Types, JobStates
  <2>4. Types'
    BY <2>1, <2>2, <2>3 DEF IInv, LockInv, Types, locks
  <2>5. StopInv'
    <3>1. \A u \in Threads : job[u] = "fatal" => job'[u] = "fatal"
      BY <1>1 DEF GetInstance, Result, Stop, IInv, LockInv, Types
    <3>2. QED
      BY <2>1, <3>1 DEF IInv, LockInv, StopInv, StopQueued, TakenDown, locks
  <2>6. QED
    BY <2>1, <2>2, <2>4, <2>5, <1>0, LoopOnlyInv
<1>2. CASE Submit(t) \/ Wake(t)
  <2>1. UNCHANGED <<instance, locks, loop, todo, executor, unfinished, mine>>
    BY <1>2 DEF Submit, Wake
  <2>2. /\ mine[t] \in Managers
        /\ pc' \in [Threads -> ThreadStates]
        /\ \A u \in Threads :
             \/ pc'[u] = pc[u]
             \/ /\ pc[u] = "idle" /\ pc'[u] = "blocked" /\ mine[u] # None
    <3>1. CASE Submit(t)
      BY <3>1 DEF Submit, Goto, IInv, LockInv, Types, ThreadStates
    <3>2. CASE Wake(t)
      <4>1. mine[t] # None
        BY <3>2 DEF Wake, IInv, LockInv, JobInv, ReferenceInv
      <4>2. QED
        BY <3>2, <4>1 DEF Wake, IInv, LockInv, Types
    <3>3. QED
      BY <1>2, <3>1, <3>2
  <2>3. job' \in [Threads -> JobStates]
    BY <1>2 DEF Submit, Wake, IInv, LockInv, Types, JobStates, Queued
  <2>4. <<t>> \in Seq(Threads) /\ ready' = [ready EXCEPT ![mine[t]] = @ \o <<t>>]
    <3>1. ready' = [ready EXCEPT ![mine[t]] = Append(@, t)]
      BY <1>2 DEF Submit, Wake
    <3>2. Append(ready[mine[t]], t) = ready[mine[t]] \o <<t>>
      BY <2>2 DEF IInv, LockInv, Types
    <3>3. QED
      BY <3>1, <3>2
  <2>5. /\ ready' \in [Managers -> Seq(Threads \cup {None})]
        /\ \A n \in Managers : todo[n] <= Len(ready'[n])
        /\ \A n \in Managers : StopQueued(n)' => StopQueued(n)
    BY <2>2, <2>4, QueueThreads
  <2>6. Types'
    BY <2>1, <2>2, <2>3, <2>5 DEF IInv, LockInv, Types, locks
  <2>7. StopInv'
    <3>1. \A u \in Threads : job[u] = "fatal" => job'[u] = "fatal"
      BY <1>2 DEF Submit, Wake, Goto, IInv, LockInv, Types, JobInv
    <3>2. QED
      BY <2>1, <2>5, <3>1 DEF IInv, LockInv, StopInv, TakenDown, locks
  <2>8. QED
    BY <2>1, <2>2, <2>6, <2>7, <1>0, LoopOnlyInv DEF Ending
<1>3. QED
  BY <1>1, <1>2

(* A fresh manager: nobody refers to it, and there is no singleton. *)
LEMMA LockInstanceInv ==
  ASSUME IInv, NEW t \in Threads, LockInstance(t)
  PROVE  LockInv'
<1> USE LoopAssumption
<1>1. CASE instance # None
  <2>1. UNCHANGED <<instance, locks, loop, ready, todo, executor, unfinished, mine, job>>
    BY <1>1 DEF LockInstance, locks
  <2>2. pc[t] = "lock" /\ pc' = [pc EXCEPT ![t] = "return"]
    BY <1>1 DEF LockInstance, Goto
  <2>3. Types'
    BY <2>1, <2>2 DEF IInv, LockInv, Types, ThreadStates, locks
  <2>4. StopInv'
    BY <2>1 DEF IInv, LockInv, StopInv, StopQueued, TakenDown, locks
  <2>5. JobInv'
    BY <2>1, <2>2 DEF IInv, LockInv, Types, JobInv
  <2>6. QED
    BY <2>1, <2>2, <2>3, <2>4, <2>5, LoopOnlyInv DEF IInv, LockInv, Types, Ending
<1>2. CASE instance = None
  <2>1. /\ instance_lock = None /\ instance_lock' = t
        /\ pc[t] = "lock" /\ pc' = [pc EXCEPT ![t] = "create"]
        /\ UNCHANGED <<instance, stop_lock, ready, todo, executor, unfinished, job>>
    BY <1>2 DEF LockInstance, Goto
  <2>2. PICK m \in Managers : /\ loop[m] = "none"
                             /\ loop' = [loop EXCEPT ![m] = "thread"]
                             /\ mine' = [mine EXCEPT ![t] = m]
    BY <1>2 DEF LockInstance
  <2>3. \A u \in Threads : mine[u] # m
    BY <2>2 DEF IInv, LockInv, ReferenceInv
  <2>4. \A u \in Threads : pc[u] # "create"
    BY <2>1 DEF IInv, LockInv, InstanceLockInv
  <2>5. \A u \in Threads : pc[u] \notin Ending
    BY <1>2 DEF IInv, LockInv, EndingInv, ReferenceInv
  <2>6. /\ pc' \in [Threads -> ThreadStates] /\ pc'[t] = "create"
        /\ \A u \in Threads \ {t} : pc'[u] = pc[u]
    BY <2>1 DEF IInv, LockInv, Types, ThreadStates
  <2>7. /\ mine' \in [Threads -> Managers \cup {None}] /\ mine'[t] = m
        /\ \A u \in Threads \ {t} : mine'[u] = mine[u]
    BY <2>2 DEF IInv, LockInv, Types
  <2>8. /\ loop' \in [Managers -> LoopStates] /\ loop'[m] = "thread"
        /\ \A n \in Managers \ {m} : loop'[n] = loop[n]
    BY <2>2 DEF IInv, LockInv, Types, LoopStates
  <2>9. Types'
    BY <2>1, <2>6, <2>7, <2>8 DEF IInv, LockInv, Types
  <2>10. InstanceLockInv'
    BY <2>1, <2>4, <2>6 DEF InstanceLockInv
  <2>11. StopLockInv'
    BY <2>1, <2>5, <2>6, <2>7 DEF IInv, LockInv, StopLockInv, Ending
  <2>12. ReferenceInv'
    BY <2>1, <2>6, <2>7, <2>8 DEF IInv, LockInv, Types, ReferenceInv
  <2>13. MakingInv'
    BY <1>2, <2>1, <2>3, <2>4, <2>6, <2>7 DEF MakingInv
  <2>14. EndingInv' /\ JoinInv'
    BY <2>1, <2>5, <2>6 DEF IInv, LockInv, EndingInv, JoinInv, Ending
  <2>15. NoLeftovers'
    <3> SUFFICES ASSUME NEW n \in Managers, loop'[n] # "none", n # instance', ~ Making(n)'
                 PROVE  loop'[n] = "closed" /\ executor'[n] = "shutdown" /\ ~ unfinished'[n]
      BY DEF NoLeftovers
    <3>1. n # m
      BY <2>6, <2>7 DEF Making
    <3>2. ~ Making(n)
      BY <2>4 DEF Making
    <3>3. QED
      BY <2>1, <2>8, <3>1, <3>2 DEF IInv, LockInv, NoLeftovers
  <2>16. StopInv'
    <3>1. \A n \in Managers : TakenDown(n) => TakenDown(n)'
      BY <2>1, <2>7 DEF IInv, LockInv, JobInv, TakenDown
    <3>2. QED
      BY <2>1, <2>2, <2>8, <3>1 DEF IInv, LockInv, StopInv, StopQueued
  <2>17. JobInv'
    BY <2>1, <2>6 DEF IInv, LockInv, JobInv
  <2>18. QED
    BY <2>17, <2>9, <2>10, <2>11, <2>12, <2>13, <2>14, <2>15, <2>16 DEF IInv, LockInv
<1>3. QED
  BY <1>1, <1>2

LEMMA CreatedInv ==
  ASSUME IInv, NEW t \in Threads, Created(t)
  PROVE  LockInv'
<1> USE LoopAssumption
<1>1. /\ pc[t] = "create" /\ pc' = [pc EXCEPT ![t] = "return"]
      /\ instance' = mine[t] /\ instance_lock' = None
      /\ UNCHANGED <<stop_lock, loop, ready, todo, executor, unfinished, mine, job>>
  BY DEF Created, Goto, loopVars
<1>2. /\ mine[t] \in Managers /\ instance = None
      /\ \A u \in Threads : mine[u] = mine[t] => u = t
      /\ \A u \in Threads : pc[u] = "create" => u = t
  BY <1>1 DEF IInv, LockInv, Types, ReferenceInv, MakingInv, InstanceLockInv
<1>3. \A u \in Threads : pc[u] \notin Ending
  BY <1>2 DEF IInv, LockInv, EndingInv, ReferenceInv
<1>4. /\ pc' \in [Threads -> ThreadStates] /\ pc'[t] = "return"
      /\ \A u \in Threads \ {t} : pc'[u] = pc[u]
  BY <1>1 DEF IInv, LockInv, Types, ThreadStates
<1>5. Types'
  BY <1>1, <1>2, <1>4 DEF IInv, LockInv, Types
<1>6. InstanceLockInv' /\ MakingInv'
  BY <1>1, <1>2, <1>4 DEF InstanceLockInv, MakingInv
<1>7. StopLockInv' /\ EndingInv' /\ JoinInv'
  BY <1>1, <1>3, <1>4 DEF IInv, LockInv, StopLockInv, EndingInv, JoinInv, Ending
<1>8. ReferenceInv'
  BY <1>1, <1>4 DEF IInv, LockInv, ReferenceInv, Ending
<1>9. NoLeftovers'
  BY <1>1, <1>2, <1>4 DEF IInv, LockInv, NoLeftovers, Making
<1>10. StopInv'
  BY <1>1 DEF IInv, LockInv, StopInv, StopQueued, TakenDown
<1>11. JobInv'
  BY <1>1, <1>4 DEF IInv, LockInv, JobInv
<1>12. QED
  BY <1>11, <1>5, <1>6, <1>7, <1>8, <1>9, <1>10 DEF IInv, LockInv

LEMMA ReturnInstanceInv ==
  ASSUME IInv, NEW t \in Threads, ReturnInstance(t)
  PROVE  LockInv'
<1> USE LoopAssumption
<1>1. /\ pc[t] = "return" /\ pc' = [pc EXCEPT ![t] = "idle"]
      /\ mine' = [mine EXCEPT ![t] = instance]
      /\ UNCHANGED <<instance, instance_lock, stop_lock, loop, ready, todo, executor, unfinished, job>>
  BY DEF ReturnInstance, Goto, locks, loopVars
<1>2. /\ pc' \in [Threads -> ThreadStates] /\ pc'[t] = "idle"
      /\ \A u \in Threads \ {t} : pc'[u] = pc[u]
  BY <1>1 DEF IInv, LockInv, Types, ThreadStates
<1>3. /\ mine' \in [Threads -> Managers \cup {None}] /\ mine'[t] = instance
      /\ \A u \in Threads \ {t} : mine'[u] = mine[u]
  BY <1>1 DEF IInv, LockInv, Types
<1>4. Types'
  BY <1>1, <1>2, <1>3 DEF IInv, LockInv, Types
<1>5. InstanceLockInv' /\ StopLockInv' /\ EndingInv' /\ JoinInv'
  BY <1>1, <1>2, <1>3 DEF IInv, LockInv, InstanceLockInv, StopLockInv, EndingInv, JoinInv, Ending
<1>6. MakingInv'
  <2> SUFFICES ASSUME NEW u \in Threads, pc'[u] = "create", NEW v \in Threads, mine'[v] = mine'[u]
               PROVE  v = u /\ instance = None
    BY <1>1 DEF MakingInv
  <2>1. u # t /\ pc[u] = "create" /\ mine'[u] = mine[u] /\ mine[u] # None /\ instance = None
    BY <1>2, <1>3 DEF IInv, LockInv, ReferenceInv, MakingInv
  <2>2. v # t
    BY <1>3, <2>1
  <2>3. QED
    BY <1>3, <2>1, <2>2 DEF IInv, LockInv, MakingInv
<1>7. ReferenceInv'
  <2>1. instance # None => loop[instance] # "none"
    BY DEF IInv, LockInv, ReferenceInv
  <2>2. QED
    BY <1>1, <1>2, <1>3, <2>1 DEF IInv, LockInv, ReferenceInv, Ending
<1>8. NoLeftovers'
  <2>1. \A m \in Managers : Making(m)' <=> Making(m)
    BY <1>1, <1>2, <1>3 DEF Making
  <2>2. QED
    BY <1>1, <2>1 DEF IInv, LockInv, NoLeftovers
<1>9. StopInv'
  <2>1. \A n \in Managers : TakenDown(n) => TakenDown(n)'
    BY <1>1, <1>3 DEF IInv, LockInv, JobInv, TakenDown
  <2>2. QED
    BY <1>1, <2>1 DEF IInv, LockInv, StopInv, StopQueued
<1>10. JobInv'
  BY <1>1, <1>2 DEF IInv, LockInv, JobInv
<1>11. QED
  BY <1>10, <1>4, <1>5, <1>6, <1>7, <1>8, <1>9 DEF IInv, LockInv

-----------------------------------------------------------------------------
(* The steps of stop. *)

LEMMA LockStopInv ==
  ASSUME IInv, NEW t \in Threads, LockStop(t)
  PROVE  LockInv'
<1> USE LoopAssumption
<1>1. /\ pc[t] = "stop" /\ mine[t] \in Managers /\ stop_lock[mine[t]] = None
      /\ UNCHANGED <<instance, instance_lock, loop, ready, todo, executor, unfinished, mine, job>>
  BY DEF LockStop, loopVars, IInv, LockInv, Types, ReferenceInv
<1>2. StopInv' /\ JobInv'
  <2>1. \A m \in Managers : stop_lock[m] # None => stop_lock'[m] # None
    BY <1>1 DEF LockStop, IInv, LockInv, Types
  <2>2. \A u \in Threads : pc'[u] # pc[u] => u = t
    BY DEF LockStop, Goto, IInv, LockInv, Types
  <2>3. StopInv'
    BY <1>1, <2>1 DEF IInv, LockInv, StopInv, StopQueued, TakenDown
  <2>4. QED
    BY <1>1, <2>2, <2>3 DEF IInv, LockInv, JobInv
<1>3. CASE loop[mine[t]] = "closed"
  <2>1. pc' = [pc EXCEPT ![t] = "idle"] /\ UNCHANGED stop_lock
    BY <1>3 DEF LockStop, Goto
  <2>2. Types'
    BY <1>1, <2>1 DEF IInv, LockInv, Types, ThreadStates
  <2>3. QED
    BY <1>1, <1>2, <2>1, <2>2, LoopOnlyInv DEF IInv, LockInv, Types, Ending, locks
<1>4. CASE loop[mine[t]] # "closed"
  <2>1. /\ pc' = [pc EXCEPT ![t] = "cancel"]
        /\ stop_lock' = [stop_lock EXCEPT ![mine[t]] = t]
    BY <1>4 DEF LockStop, Goto
  <2>2. /\ pc' \in [Threads -> ThreadStates] /\ pc'[t] = "cancel"
        /\ \A u \in Threads \ {t} : pc'[u] = pc[u]
    BY <2>1 DEF IInv, LockInv, Types, ThreadStates
  <2>3. /\ stop_lock' \in [Managers -> Threads \cup {None}] /\ stop_lock'[mine[t]] = t
        /\ \A n \in Managers \ {mine[t]} : stop_lock'[n] = stop_lock[n]
    BY <1>1, <2>1 DEF IInv, LockInv, Types
  <2>4. Types'
    BY <1>1, <2>2, <2>3 DEF IInv, LockInv, Types
  <2>5. instance = mine[t]
    <3>1. loop[mine[t]] # "none"
      BY <1>1 DEF IInv, LockInv, ReferenceInv
    <3>2. ~ Making(mine[t])
      BY <1>1 DEF IInv, LockInv, Making, MakingInv
    <3>3. QED
      BY <1>1, <1>4, <3>1, <3>2 DEF IInv, LockInv, NoLeftovers
  <2>6. InstanceLockInv' /\ MakingInv' /\ ReferenceInv'
    BY <1>1, <2>2 DEF IInv, LockInv, InstanceLockInv, MakingInv, ReferenceInv, Ending
  <2>7. StopLockInv'
    <3> SUFFICES ASSUME NEW u \in Threads, NEW m \in Managers
                 PROVE  pc'[u] \in Ending /\ mine[u] = m <=> stop_lock'[m] = u
      BY <1>1 DEF StopLockInv
    <3>1. CASE u = t
      BY <1>1, <2>2, <2>3, <3>1 DEF IInv, LockInv, StopLockInv, Ending
    <3>2. CASE u # t
      BY <1>1, <2>2, <2>3, <3>2 DEF IInv, LockInv, StopLockInv
    <3>3. QED
      BY <3>1, <3>2
  <2>8. EndingInv' /\ JoinInv'
    BY <1>1, <2>2, <2>3, <2>5, LoopAssumption DEF IInv, LockInv, EndingInv, JoinInv
  <2>9. NoLeftovers'
    <3>1. \A m \in Managers : Making(m)' <=> Making(m)
      BY <1>1, <2>2 DEF Making
    <3>2. QED
      BY <1>1, <3>1 DEF IInv, LockInv, NoLeftovers
  <2>10. QED
    BY <1>2, <2>4, <2>6, <2>7, <2>8, <2>9 DEF IInv, LockInv
<1>5. QED
  BY <1>3, <1>4

(* The thread stays in stop: who holds the locks does not change. *)
LEMMA InsideInv ==
  ASSUME IInv, Types', StopInv', JobInv', NEW t \in Threads,
         UNCHANGED <<instance, locks, loop, mine>>,
         pc[t] \in Ending, pc'[t] \in Ending,
         \A u \in Threads \ {t} : pc'[u] = pc[u],
         \A m \in Managers : executor[m] = "shutdown" => executor'[m] = "shutdown",
         \A m \in Managers : executor'[m] = "shutdown" /\ executor[m] # "shutdown" => m = mine[t],
         UNCHANGED unfinished,
         pc'[t] \in {"join", "clear"}
           => loop[mine[t]] = "closed" /\ executor'[mine[t]] = "shutdown",
         pc'[t] = "clear" => ~ unfinished[mine[t]]
  PROVE  LockInv'
<1> USE DEF locks
<1>1. InstanceLockInv' /\ StopLockInv' /\ MakingInv' /\ ReferenceInv'
  BY DEF IInv, LockInv, InstanceLockInv, StopLockInv, MakingInv, ReferenceInv, Ending
<1>2. EndingInv'
  <2>1. \A u \in Threads : pc[u] \in {"join", "clear"} => executor'[mine[u]] = "shutdown"
    BY DEF IInv, LockInv, Types, EndingInv, ReferenceInv, Ending
  <2>2. QED
    BY <2>1 DEF IInv, LockInv, EndingInv, Ending
<1>3. NoLeftovers'
  <2>1. \A m \in Managers : Making(m)' <=> Making(m)
    BY DEF Making, Ending
  <2>2. QED
    BY <2>1 DEF IInv, LockInv, NoLeftovers
<1>4. JoinInv'
  <2>1. \A m \in Managers : m = mine[t] => stop_lock[m] = t
    BY DEF IInv, LockInv, StopLockInv
  <2>2. QED
    BY <2>1, LoopAssumption DEF IInv, LockInv, JoinInv
<1>5. QED
  BY <1>1, <1>2, <1>3, <1>4 DEF IInv, LockInv

LEMMA CancelTasksInv ==
  ASSUME IInv, NEW t \in Threads, CancelTasks(t)
  PROVE  LockInv'
<1> USE LoopAssumption
<1> DEFINE m == mine[t]
           waiting == {u \in Threads : mine[u] = m /\ job[u] = "waiting"}
<1>1. /\ pc[t] = "cancel" /\ pc' = [pc EXCEPT ![t] = "signal"]
      /\ UNCHANGED <<instance, locks, loop, todo, executor, unfinished, mine>>
  BY DEF CancelTasks, Goto
<1>2. m \in Managers
  BY <1>1 DEF IInv, LockInv, Types, ReferenceInv, Ending
<1>3. /\ job' \in [Threads -> JobStates]
      /\ \A u \in Threads : job'[u] # "none" => job[u] # "none"
  BY DEF CancelTasks, IInv, LockInv, Types, JobStates, Queued
<1>4. PICK cancelled \in SetToSeqs(waiting) :
        ready' = [ready EXCEPT ![m] = IF loop[m] = "closed" THEN @ ELSE @ \o cancelled]
  <2>1. waiting = {u \in {v \in Threads : mine[v] = m /\ job[v] \in {"started", "waiting"}} : job[u] = "waiting"}
    OBVIOUS
  <2>2. QED
    BY <2>1 DEF CancelTasks
<1>5. cancelled \in Seq(Threads)
  <2>1. IsFiniteSet(waiting)
    BY FS_Subset
  <2>2. Cardinality(waiting) \in Nat
    BY <2>1, FS_CardinalityType
  <2>3. cancelled \in [1 .. Cardinality(waiting) -> waiting]
    BY DEF SetToSeqs
  <2>4. PICK n \in Nat : n = Cardinality(waiting)
    BY <2>2
  <2>5. cancelled \in [1 .. n -> Threads]
    BY <2>3, <2>4
  <2>6. QED
    BY <2>5
<1> HIDE DEF m, waiting
<1>6. /\ ready' \in [Managers -> Seq(Threads \cup {None})]
      /\ \A n \in Managers : todo[n] <= Len(ready'[n])
      /\ \A n \in Managers : StopQueued(n)' => StopQueued(n)
  <2>1. CASE loop[m] = "closed"
    <3>1. ready' = ready
      BY <1>2, <1>4, <2>1 DEF IInv, LockInv, Types
    <3>2. QED
      BY <3>1 DEF IInv, LockInv, Types, StopQueued
  <2>2. CASE loop[m] # "closed"
    <3>1. ready' = [ready EXCEPT ![m] = @ \o cancelled]
      BY <1>4, <2>2
    <3>2. QED
      BY <1>2, <1>5, <3>1, QueueThreads
  <2>3. QED
    BY <2>1, <2>2
<1>7. /\ pc' \in [Threads -> ThreadStates] /\ pc'[t] = "signal"
      /\ \A u \in Threads \ {t} : pc'[u] = pc[u]
  BY <1>1 DEF IInv, LockInv, Types, ThreadStates
<1>8. Types'
  BY <1>1, <1>3, <1>6, <1>7 DEF IInv, LockInv, Types, locks
<1>9. StopInv'
  <2>1. \A u \in Threads : job[u] = "fatal" => job'[u] = "fatal"
    BY DEF CancelTasks, IInv, LockInv, Types
  <2>2. QED
    BY <1>1, <1>6, <2>1 DEF IInv, LockInv, StopInv, TakenDown, locks
<1>10. JobInv'
  BY <1>1, <1>3, <1>7 DEF IInv, LockInv, JobInv
<1>11. QED
  BY <1>1, <1>7, <1>8, <1>9, <1>10, InsideInv DEF Ending

LEMMA SignalInv ==
  ASSUME IInv, NEW t \in Threads, Signal(t)
  PROVE  LockInv'
<1> USE LoopAssumption
<1>1. /\ pc[t] = "signal" /\ pc'[t] \in {"signalled", "unsignalled"}
      /\ pc' \in [Threads -> ThreadStates]
      /\ \A u \in Threads \ {t} : pc'[u] = pc[u]
      /\ UNCHANGED <<instance, locks, loop, todo, executor, unfinished, mine, job>>
  <2>1. Goto(t, "signal", "signalled") \/ Goto(t, "signal", "unsignalled")
    BY DEF Signal
  <2>2. UNCHANGED <<instance, locks, loop, todo, executor, unfinished, mine, job>>
    BY DEF Signal
  <2>3. QED
    BY <2>1, <2>2 DEF Goto, IInv, LockInv, Types, ThreadStates
<1>2. mine[t] \in Managers /\ stop_lock[mine[t]] = t
  BY <1>1 DEF IInv, LockInv, Types, ReferenceInv, StopLockInv, Ending
<1>3. /\ ready' \in [Managers -> Seq(Threads \cup {None})]
      /\ \A n \in Managers : todo[n] <= Len(ready'[n])
      /\ \A n \in Managers \ {mine[t]} : ready'[n] = ready[n]
  <2>1. CASE UNCHANGED ready
    BY <2>1 DEF IInv, LockInv, Types
  <2>2. CASE ready' = [ready EXCEPT ![mine[t]] = Append(@, None)]
    <3>1. /\ Append(ready[mine[t]], None) \in Seq(Threads \cup {None})
          /\ Len(Append(ready[mine[t]], None)) = Len(ready[mine[t]]) + 1
          /\ Len(ready[mine[t]]) \in Nat /\ todo[mine[t]] <= Len(ready[mine[t]])
          /\ todo[mine[t]] \in Nat
      BY <1>2 DEF IInv, LockInv, Types
    <3>2. /\ ready'[mine[t]] = Append(ready[mine[t]], None)
          /\ \A n \in Managers \ {mine[t]} : ready'[n] = ready[n]
          /\ ready' = [n \in Managers |-> ready'[n]]
      BY <1>2, <2>2 DEF IInv, LockInv, Types
    <3>3. todo[mine[t]] <= Len(ready'[mine[t]])
      BY <3>1, <3>2
    <3>4. ready' \in [Managers -> Seq(Threads \cup {None})]
      <4>1. \A n \in Managers : ready'[n] \in Seq(Threads \cup {None})
        BY <3>1, <3>2 DEF IInv, LockInv, Types
      <4>2. QED
        BY <3>2, <4>1
    <3>5. \A n \in Managers : todo[n] <= Len(ready'[n])
      BY <3>2, <3>3 DEF IInv, LockInv, Types
    <3>6. QED
      BY <3>2, <3>4, <3>5
  <2>3. QED
    BY <2>1, <2>2 DEF Signal
<1>4. \A m \in Managers : StopQueued(m)' => StopQueued(m) \/ m = mine[t]
  BY <1>3 DEF StopQueued
<1>5. Types'
  BY <1>1, <1>3 DEF IInv, LockInv, Types, locks
<1>6. StopInv'
  BY <1>1, <1>2, <1>4 DEF IInv, LockInv, StopInv, TakenDown, locks
<1>7. JobInv'
  BY <1>1 DEF IInv, LockInv, JobInv
<1>8. QED
  BY <1>1, <1>5, <1>6, <1>7, InsideInv DEF Ending

LEMMA ShutExecutorInv ==
  ASSUME IInv, NEW t \in Threads, ShutExecutor(t)
  PROVE  LockInv'
<1>1. /\ pc[t] \in {"signalled", "unsignalled"} /\ pc'[t] = "join"
      /\ pc' \in [Threads -> ThreadStates]
      /\ \A u \in Threads \ {t} : pc'[u] = pc[u]
      /\ UNCHANGED <<instance, locks, loop, ready, todo, unfinished, mine, job>>
      /\ loop[mine[t]] = "closed"
      /\ executor' = [executor EXCEPT ![mine[t]] = "shutdown"]
  <2>1. Goto(t, "signalled", "join") \/ Goto(t, "unsignalled", "join")
    BY DEF ShutExecutor
  <2>2. /\ UNCHANGED <<instance, locks, loop, ready, todo, unfinished, mine, job>>
        /\ loop[mine[t]] = "closed"
        /\ executor' = [executor EXCEPT ![mine[t]] = "shutdown"]
    BY DEF ShutExecutor, loopVars
  <2>3. QED
    BY <2>1, <2>2 DEF Goto, IInv, LockInv, Types, ThreadStates
<1>2. mine[t] \in Managers
  BY <1>1 DEF IInv, LockInv, Types, ReferenceInv, Ending
<1>3. /\ executor' \in [Managers -> {"open", "shutdown"}]
      /\ executor'[mine[t]] = "shutdown"
      /\ \A m \in Managers : executor[m] = "shutdown" => executor'[m] = "shutdown"
      /\ \A m \in Managers : executor'[m] = "shutdown" /\ executor[m] # "shutdown" => m = mine[t]
  BY <1>1, <1>2 DEF IInv, LockInv, Types
<1>4. Types'
  BY <1>1, <1>3 DEF IInv, LockInv, Types, locks
<1>5. StopInv'
  BY <1>1, <1>3 DEF IInv, LockInv, StopInv, StopQueued, TakenDown, locks
<1>6. JobInv'
  BY <1>1 DEF IInv, LockInv, JobInv
<1>7. QED
  BY <1>1, <1>3, <1>4, <1>5, <1>6, InsideInv DEF Ending

(* Queue.join has returned: no task of this executor is left. *)
LEMMA JoinExecutorInv ==
  ASSUME IInv, NEW t \in Threads, JoinExecutor(t)
  PROVE  LockInv'
<1>1. /\ pc[t] = "join" /\ pc' = [pc EXCEPT ![t] = "clear"]
      /\ UNCHANGED <<instance, locks, loop, ready, todo, executor, unfinished, mine, job>>
      /\ ~ unfinished[mine[t]]
  BY DEF JoinExecutor, Goto, loopVars
<1>2. /\ pc' \in [Threads -> ThreadStates] /\ pc'[t] = "clear"
      /\ \A u \in Threads \ {t} : pc'[u] = pc[u]
  BY <1>1 DEF IInv, LockInv, Types, ThreadStates
<1>3. Types'
  BY <1>1, <1>2 DEF IInv, LockInv, Types, locks
<1>4. StopInv'
  BY <1>1 DEF IInv, LockInv, StopInv, StopQueued, TakenDown, locks
<1>5. JobInv'
  BY <1>1, <1>2 DEF IInv, LockInv, JobInv
<1>6. loop[mine[t]] = "closed" /\ executor[mine[t]] = "shutdown"
  BY <1>1 DEF IInv, LockInv, EndingInv
<1>7. QED
  BY <1>1, <1>2, <1>3, <1>4, <1>5, <1>6, InsideInv DEF Ending

(* A shut executor gets no tasks, so those waited for only get fewer. *)
LEMMA PoolInv ==
  ASSUME IInv, NEW m \in Managers, PoolAccepts(m) \/ PoolFinishes(m)
  PROVE  LockInv'
<1>1. /\ UNCHANGED <<instance, instance_lock, stop_lock, loop, ready, todo, executor, pc, mine, job>>
      /\ unfinished' \in [Managers -> BOOLEAN]
      /\ \A n \in Managers : executor[n] = "shutdown" /\ unfinished'[n] => unfinished[n]
  BY DEF PoolAccepts, PoolFinishes, locks, loopVars, IInv, LockInv, Types
<1>2. Types'
  BY <1>1 DEF IInv, LockInv, Types
<1>3. InstanceLockInv' /\ StopLockInv' /\ ReferenceInv' /\ JobInv' /\ MakingInv'
  BY <1>1 DEF IInv, LockInv, InstanceLockInv, StopLockInv, ReferenceInv, JobInv, MakingInv
<1>4. EndingInv'
  BY <1>1 DEF IInv, LockInv, Types, EndingInv, ReferenceInv, Ending
<1>5. JoinInv' /\ NoLeftovers'
  BY <1>1 DEF IInv, LockInv, JoinInv, NoLeftovers, Making
<1>6. StopInv'
  BY <1>1 DEF IInv, LockInv, StopInv, StopQueued, TakenDown
<1>7. QED
  BY <1>2, <1>3, <1>4, <1>5, <1>6 DEF IInv, LockInv

(* The instance that is cleared is the one that has been shut down. *)
LEMMA ClearInstanceInv ==
  ASSUME IInv, NEW t \in Threads, ClearInstance(t)
  PROVE  LockInv'
<1> USE LoopAssumption
<1>1. /\ pc[t] = "clear" /\ pc' = [pc EXCEPT ![t] = "idle"]
      /\ instance_lock = None /\ instance' = None
      /\ stop_lock' = [stop_lock EXCEPT ![mine[t]] = None]
      /\ UNCHANGED <<instance_lock, loop, ready, todo, executor, unfinished, mine, job>>
  BY DEF ClearInstance, Goto, loopVars
<1>2. /\ mine[t] \in Managers /\ instance = mine[t] /\ stop_lock[mine[t]] = t
      /\ loop[mine[t]] = "closed" /\ executor[mine[t]] = "shutdown" /\ ~ unfinished[mine[t]]
  BY <1>1 DEF IInv, LockInv, Types, ReferenceInv, EndingInv, StopLockInv, Ending
<1>3. /\ pc' \in [Threads -> ThreadStates] /\ pc'[t] = "idle"
      /\ \A u \in Threads \ {t} : pc'[u] = pc[u]
  BY <1>1 DEF IInv, LockInv, Types, ThreadStates
<1>4. /\ stop_lock' \in [Managers -> Threads \cup {None}] /\ stop_lock'[mine[t]] = None
      /\ \A n \in Managers \ {mine[t]} : stop_lock'[n] = stop_lock[n]
  BY <1>1, <1>2 DEF IInv, LockInv, Types
<1>5. \A u \in Threads : pc[u] \in Ending => u = t
  BY <1>2 DEF IInv, LockInv, EndingInv, StopLockInv
<1>6. \A u \in Threads : pc[u] # "create"
  BY <1>1 DEF IInv, LockInv, InstanceLockInv
<1>7. Types'
  BY <1>1, <1>3, <1>4 DEF IInv, LockInv, Types
<1>8. InstanceLockInv' /\ MakingInv' /\ EndingInv'
  BY <1>1, <1>3, <1>5, <1>6 DEF IInv, LockInv, InstanceLockInv, MakingInv, EndingInv, Ending
<1>9. StopLockInv'
  <2> SUFFICES ASSUME NEW u \in Threads, NEW m \in Managers
               PROVE  pc'[u] \in Ending /\ mine[u] = m <=> stop_lock'[m] = u
    BY <1>1 DEF StopLockInv
  <2>1. pc'[u] \notin Ending
    BY <1>3, <1>5 DEF Ending
  <2>2. stop_lock'[m] # u
    BY <1>2, <1>4, <1>5 DEF IInv, LockInv, StopLockInv
  <2>3. QED
    BY <2>1, <2>2
<1>10. ReferenceInv' /\ JobInv'
  BY <1>1, <1>3 DEF IInv, LockInv, ReferenceInv, JobInv, Ending
<1>11. NoLeftovers'
  BY <1>1, <1>2, <1>6 DEF IInv, LockInv, NoLeftovers, Making
<1>12. StopInv' /\ JoinInv'
  BY <1>1, <1>2, <1>4 DEF IInv, LockInv, StopInv, JoinInv, StopQueued, TakenDown
<1>13. QED
  BY <1>7, <1>8, <1>9, <1>10, <1>11, <1>12 DEF IInv, LockInv

-----------------------------------------------------------------------------
(* Each step keeps QueueInv. *)

(* The queues are as they were, and so is the job of a thread in a queue. *)
LEMMA QueueKept ==
  ASSUME IInv, UNCHANGED ready,
         \A t \in Threads : job[t] \in Queued => job'[t] \in Queued /\ mine'[t] = mine[t]
  PROVE  QueueInv'
<1>1. \A m \in Managers : \A i \in 1 .. Len(ready[m]) :
        ready[m][i] # None => ready[m][i] \in Threads
  BY DEF IInv, LockInv, Types
<1>2. QED
  BY <1>1 DEF IInv, QueueInv

(* Threads whose job was not in a queue enter one. *)
LEMMA QueueGrows ==
  ASSUME IInv, NEW m \in Managers, NEW s \in Seq(Threads),
         ready' = [ready EXCEPT ![m] = @ \o s],
         \A i, j \in 1 .. Len(s) : s[i] = s[j] => i = j,
         \A i \in 1 .. Len(s) : job[s[i]] \notin Queued /\ job'[s[i]] \in Queued /\ mine'[s[i]] = m,
         \A t \in Threads : job[t] \in Queued => job'[t] \in Queued /\ mine'[t] = mine[t]
  PROVE  QueueInv'
<1>1. \A n \in Managers : \A i \in 1 .. Len(ready[n]) :
        ready[n][i] # None => ready[n][i] \in Threads
  BY DEF IInv, LockInv, Types
<1>2. ready'[m] = ready[m] \o s /\ \A n \in Managers \ {m} : ready'[n] = ready[n]
  BY DEF IInv, LockInv, Types
<1>3. /\ ready[m] \in Seq(Threads \cup {None}) /\ s \in Seq(Threads \cup {None})
      /\ Len(ready[m]) \in Nat /\ Len(s) \in Nat
  BY DEF IInv, LockInv, Types
<1>4. /\ Len(ready'[m]) = Len(ready[m]) + Len(s)
      /\ \A i \in 1 .. Len(ready'[m]) :
           \/ i \in 1 .. Len(ready[m]) /\ ready'[m][i] = ready[m][i]
           \/ i - Len(ready[m]) \in 1 .. Len(s) /\ ready'[m][i] = s[i - Len(ready[m])]
  BY <1>2, <1>3, AppendQueue
<1>5. \A i \in 1 .. Len(ready'[m]) :
        ready'[m][i] # None => job'[ready'[m][i]] \in Queued /\ mine'[ready'[m][i]] = m
  BY <1>1, <1>4 DEF IInv, QueueInv
<1>6. ASSUME NEW i \in 1 .. Len(ready'[m]), NEW j \in 1 .. Len(ready'[m]),
             ready'[m][i] = ready'[m][j], ready'[m][i] # None
      PROVE  i = j
  <2>1. CASE i \in 1 .. Len(ready[m]) /\ ready'[m][i] = ready[m][i]
    <3>1. job[ready'[m][i]] \in Queued
      BY <1>6, <2>1 DEF IInv, QueueInv
    <3>2. j \in 1 .. Len(ready[m]) /\ ready'[m][j] = ready[m][j]
      BY <1>4, <1>6, <3>1
    <3>3. QED
      BY <1>6, <2>1, <3>2 DEF IInv, QueueInv
  <2>2. CASE i - Len(ready[m]) \in 1 .. Len(s) /\ ready'[m][i] = s[i - Len(ready[m])]
    <3>1. job[ready'[m][i]] \notin Queued
      BY <2>2
    <3>2. ~ (j \in 1 .. Len(ready[m]) /\ ready'[m][j] = ready[m][j])
      BY <1>6, <3>1 DEF IInv, QueueInv
    <3>3. j - Len(ready[m]) \in 1 .. Len(s) /\ ready'[m][j] = s[j - Len(ready[m])]
      BY <1>4, <3>2
    <3>4. i - Len(ready[m]) = j - Len(ready[m])
      BY <1>6, <2>2, <3>3
    <3>5. QED
      BY <1>3, <3>4
  <2>3. QED
    BY <1>4, <2>1, <2>2
<1>7. ASSUME NEW n \in Managers \ {m}
      PROVE  /\ \A i \in 1 .. Len(ready'[n]) :
                  ready'[n][i] # None => job'[ready'[n][i]] \in Queued /\ mine'[ready'[n][i]] = n
             /\ \A i, j \in 1 .. Len(ready'[n]) :
                  ready'[n][i] = ready'[n][j] /\ ready'[n][i] # None => i = j
  BY <1>1, <1>2 DEF IInv, QueueInv
<1>8. QED
  BY <1>5, <1>6, <1>7 DEF QueueInv

-----------------------------------------------------------------------------

(* A callback leaves the queue and is put at its end or is not put back. *)
LEMMA QueuePops ==
  ASSUME IInv, NEW m \in Managers, NEW t \in Threads, NEW from \in Queued, NEW to \in JobStates,
         JobStep(m, t, from, to)
  PROVE  QueueInv'
<1> USE LoopAssumption
<1>1. /\ ready[m] \in Seq(Threads \cup {None}) /\ Len(ready[m]) \in Nat \ {0}
      /\ ready[m][1] = t
      /\ job[t] = from /\ job' = [job EXCEPT ![t] = to]
      /\ UNCHANGED mine
  BY DEF JobStep, Pop, IInv, LockInv, Types
<1>2. PICK s : /\ s = IF to \in Queued THEN <<t>> ELSE <<>>
               /\ ready' = [ready EXCEPT ![m] = Tail(@) \o s]
  <2>1. PICK s : s = IF to \in Queued THEN <<t>> ELSE <<>>
    OBVIOUS
  <2>2. Pop(m, t, s)
    BY <2>1, Zenon DEF JobStep
  <2>3. QED
    BY <2>1, <2>2 DEF Pop
<1>3. /\ s \in Seq(Threads) /\ (to \in Queued \/ Len(s) = 0)
      /\ Len(s) \in Nat
      /\ \A i \in 1 .. Len(s) : s[i] = t /\ i = 1
  BY <1>2
<1> DEFINE q == Tail(ready[m])
<1>4. /\ q \in Seq(Threads \cup {None}) /\ Len(q) = Len(ready[m]) - 1 /\ Len(q) \in Nat
      /\ \A i \in 1 .. Len(q) : q[i] = ready[m][i + 1]
  BY <1>1
<1>5. ready'[m] = q \o s /\ \A n \in Managers \ {m} : ready'[n] = ready[n]
  BY <1>2 DEF IInv, LockInv, Types
<1> HIDE DEF q
<1>6. /\ Len(ready'[m]) = Len(q) + Len(s)
      /\ \A i \in 1 .. Len(ready'[m]) :
           \/ i \in 1 .. Len(q) /\ ready'[m][i] = ready[m][i + 1]
           \/ i - Len(q) \in 1 .. Len(s) /\ ready'[m][i] = t
  <2>1. s \in Seq(Threads \cup {None})
    BY <1>3
  <2>2. /\ Len(q \o s) = Len(q) + Len(s)
        /\ \A i \in 1 .. Len(q \o s) : (q \o s)[i] = IF i <= Len(q) THEN q[i] ELSE s[i - Len(q)]
    BY <1>4, <2>1, AppendQueue
  <2>3. ASSUME NEW i \in 1 .. Len(q \o s)
        PROVE  \/ i \in 1 .. Len(q) /\ (q \o s)[i] = ready[m][i + 1]
               \/ i - Len(q) \in 1 .. Len(s) /\ (q \o s)[i] = t
    <3>1. CASE i <= Len(q)
      BY <1>4, <2>2, <3>1
    <3>2. CASE ~ i <= Len(q)
      <4>1. i - Len(q) \in 1 .. Len(s)
        BY <1>3, <1>4, <2>2, <3>2
      <4>2. QED
        BY <1>3, <2>2, <3>2, <4>1
    <3>3. QED
      BY <3>1, <3>2
  <2>4. QED
    BY <1>5, <2>2, <2>3
<1>7. \A i \in 1 .. Len(q) : i + 1 \in 1 .. Len(ready[m]) /\ ready[m][i + 1] # t
  <2> SUFFICES ASSUME NEW i \in 1 .. Len(q)
               PROVE  i + 1 \in 1 .. Len(ready[m]) /\ ready[m][i + 1] # t
    OBVIOUS
  <2>1. i + 1 \in 1 .. Len(ready[m]) /\ 1 \in 1 .. Len(ready[m]) /\ i + 1 # 1
    BY <1>1, <1>4
  <2>2. QED
    BY <1>1, <2>1 DEF IInv, QueueInv
<1>8. /\ mine[t] = m
      /\ \A u \in Threads \ {t} : job'[u] = job[u]
      /\ job'[t] = to
  <2>1. 1 \in 1 .. Len(ready[m])
    BY <1>1
  <2>2. QED
    BY <1>1, <2>1 DEF IInv, LockInv, Types, QueueInv
<1>9. \A i \in 1 .. Len(ready'[m]) :
        ready'[m][i] # None => job'[ready'[m][i]] \in Queued /\ mine'[ready'[m][i]] = m
  <2> SUFFICES ASSUME NEW i \in 1 .. Len(ready'[m]), ready'[m][i] # None
               PROVE  job'[ready'[m][i]] \in Queued /\ mine'[ready'[m][i]] = m
    OBVIOUS
  <2>1. CASE i \in 1 .. Len(q) /\ ready'[m][i] = ready[m][i + 1]
    <3>1. ready[m][i + 1] \in Threads \ {t}
      BY <1>1, <1>7, <2>1
    <3>2. job[ready[m][i + 1]] \in Queued /\ mine[ready[m][i + 1]] = m
      BY <1>7, <2>1 DEF IInv, QueueInv
    <3>3. QED
      BY <1>1, <1>8, <2>1, <3>1, <3>2
  <2>2. CASE i - Len(q) \in 1 .. Len(s) /\ ready'[m][i] = t
    <3>1. Len(s) # 0
      BY <1>3, <2>2
    <3>2. QED
      BY <1>1, <1>3, <1>8, <2>2, <3>1
  <2>3. QED
    BY <1>6, <2>1, <2>2
<1>10. ASSUME NEW i \in 1 .. Len(ready'[m]), NEW j \in 1 .. Len(ready'[m]),
              ready'[m][i] = ready'[m][j], ready'[m][i] # None
       PROVE  i = j
  <2>1. CASE i \in 1 .. Len(q) /\ ready'[m][i] = ready[m][i + 1]
    <3>1. j \in 1 .. Len(q) /\ ready'[m][j] = ready[m][j + 1]
      BY <1>6, <1>7, <1>10, <2>1
    <3>2. /\ i + 1 \in 1 .. Len(ready[m]) /\ j + 1 \in 1 .. Len(ready[m])
          /\ ready[m][i + 1] = ready[m][j + 1] /\ ready[m][i + 1] # None
      BY <1>7, <1>10, <2>1, <3>1
    <3>3. i + 1 = j + 1
      BY <3>2 DEF IInv, QueueInv
    <3>4. QED
      BY <3>1, <3>3, <1>4
  <2>2. CASE i - Len(q) \in 1 .. Len(s) /\ ready'[m][i] = t
    <3>1. j - Len(q) \in 1 .. Len(s)
      BY <1>6, <1>7, <1>10, <2>2
    <3>2. i - Len(q) = 1 /\ j - Len(q) = 1
      BY <1>3, <2>2, <3>1
    <3>3. QED
      BY <1>4, <1>6, <3>2
  <2>3. QED
    BY <1>6, <2>1, <2>2
<1>11. ASSUME NEW n \in Managers \ {m}
       PROVE  /\ \A i \in 1 .. Len(ready'[n]) :
                   ready'[n][i] # None => job'[ready'[n][i]] \in Queued /\ mine'[ready'[n][i]] = n
              /\ \A i, j \in 1 .. Len(ready'[n]) :
                   ready'[n][i] = ready'[n][j] /\ ready'[n][i] # None => i = j
  <2>1. \A i \in 1 .. Len(ready[n]) : ready[n][i] # None => ready[n][i] \in Threads \ {t}
    BY <1>8 DEF IInv, LockInv, Types, QueueInv
  <2>2. QED
    BY <1>1, <1>5, <1>8, <2>1 DEF IInv, QueueInv
<1>12. QED
  BY <1>9, <1>10, <1>11 DEF QueueInv

(* loop.stop enters or leaves a queue: only threads are counted. *)
LEMMA QueueStops ==
  ASSUME IInv, NEW m \in Managers, UNCHANGED <<job, mine>>,
         \A n \in Managers \ {m} : ready'[n] = ready[n],
         NEW k \in {0, 1}, Len(ready[m]) >= k,
         \A i \in 1 .. Len(ready'[m]) :
           \/ i + k \in 1 .. Len(ready[m]) /\ ready'[m][i] = ready[m][i + k]
           \/ ready'[m][i] = None
  PROVE  QueueInv'
<1>1. \A i \in 1 .. Len(ready'[m]) :
        ready'[m][i] # None => job'[ready'[m][i]] \in Queued /\ mine'[ready'[m][i]] = m
  BY DEF IInv, QueueInv
<1>2. ASSUME NEW i \in 1 .. Len(ready'[m]), NEW j \in 1 .. Len(ready'[m]),
             ready'[m][i] = ready'[m][j], ready'[m][i] # None
      PROVE  i = j
  <2>1. i + k = j + k
    BY <1>2 DEF IInv, QueueInv
  <2>2. QED
    BY <2>1
<1>3. QED
  BY <1>1, <1>2 DEF IInv, QueueInv

(* The awaiting tasks are queued, each once, to receive their CancelledError. *)
LEMMA CancelQueue ==
  ASSUME IInv, NEW t \in Threads, CancelTasks(t)
  PROVE  QueueInv'
<1> USE LoopAssumption
<1> DEFINE m == mine[t]
           waiting == {u \in Threads : mine[u] = m /\ job[u] = "waiting"}
<1>1. m \in Managers /\ UNCHANGED mine
  BY DEF CancelTasks, Goto, IInv, LockInv, Types, ReferenceInv, Ending
<1>2. /\ \A u \in Threads : job[u] \in Queued => job'[u] \in Queued
      /\ \A u \in waiting : job'[u] \in Queued
  BY DEF CancelTasks, IInv, LockInv, Types, Queued
<1>3. PICK cancelled \in SetToSeqs(waiting) :
        ready' = [ready EXCEPT ![m] = IF loop[m] = "closed" THEN @ ELSE @ \o cancelled]
  <2>1. waiting = {u \in {v \in Threads : mine[v] = m /\ job[v] \in {"started", "waiting"}} : job[u] = "waiting"}
    OBVIOUS
  <2>2. QED
    BY <2>1 DEF CancelTasks
<1>4. PICK n \in Nat : /\ cancelled \in [1 .. n -> waiting]
                      /\ \A i, j \in 1 .. n : i # j => cancelled[i] # cancelled[j]
  <2>1. IsFiniteSet(waiting)
    BY FS_Subset
  <2>2. PICK n \in Nat : n = Cardinality(waiting)
    BY <2>1, FS_CardinalityType
  <2>3. QED
    BY <2>2 DEF SetToSeqs
<1>5. /\ cancelled \in Seq(Threads) /\ Len(cancelled) = n
      /\ \A i \in 1 .. n : cancelled[i] \in waiting
  <2>1. cancelled \in [1 .. n -> Threads]
    BY <1>4
  <2>2. QED
    BY <1>4, <2>1
<1>6. \A u \in waiting : job[u] \notin Queued /\ mine[u] = m
  BY DEF Queued
<1> HIDE DEF m, waiting
<1>7. CASE loop[m] = "closed"
  <2>1. ready' = ready
    BY <1>1, <1>3, <1>7 DEF IInv, LockInv, Types
  <2>2. QED
    BY <1>1, <1>2, <2>1, QueueKept
<1>8. CASE loop[m] # "closed"
  <2>1. ready' = [ready EXCEPT ![m] = @ \o cancelled]
    BY <1>3, <1>8
  <2>2. QED
    BY <1>1, <1>2, <1>4, <1>5, <1>6, <2>1, QueueGrows
<1>9. QED
  BY <1>7, <1>8

LEMMA QueueStepInv ==
  ASSUME IInv, [Next]_vars
  PROVE  QueueInv'
<1> USE LoopAssumption
<1>1. CASE UNCHANGED vars
  BY <1>1, QueueKept DEF vars, loopVars
<1>2. ASSUME NEW t \in Threads, GetInstance(t) \/ Submit(t) \/ Stop(t) \/ Wake(t) \/ Continue(t)
      PROVE  QueueInv'
  <2>1. CASE GetInstance(t) \/ Stop(t) \/ Created(t) \/ LockStop(t)
             \/ ShutExecutor(t) \/ JoinExecutor(t) \/ ClearInstance(t)
    <3>1. UNCHANGED <<ready, job, mine>>
      BY <2>1 DEF GetInstance, Stop, Created, LockStop, ShutExecutor, JoinExecutor, ClearInstance,
         loopVars
    <3>2. QED
      BY <3>1, QueueKept
  <2>2. CASE LockInstance(t) \/ ReturnInstance(t) \/ Result(t)
    <3>1. UNCHANGED ready /\ job[t] \notin Queued
      BY <2>2 DEF LockInstance, ReturnInstance, Result, Goto, loopVars, IInv, LockInv, JobInv, Queued
    <3>2. \A u \in Threads \ {t} : job'[u] = job[u] /\ mine'[u] = mine[u]
      BY <2>2 DEF LockInstance, ReturnInstance, Result, IInv, LockInv, Types
    <3>3. QED
      BY <3>1, <3>2, QueueKept
  <2>3. CASE Submit(t) \/ Wake(t)
    <3>1. job[t] \in {"none", "waiting"}
      BY <2>3 DEF Submit, Wake, Goto, IInv, LockInv, JobInv
    <3>2. /\ job'[t] \in Queued /\ UNCHANGED mine
          /\ \A u \in Threads \ {t} : job'[u] = job[u]
      BY <2>3 DEF Submit, Wake, IInv, LockInv, Types, Queued
    <3>3. mine[t] \in Managers
      BY <2>3 DEF Submit, Wake, IInv, LockInv, Types, JobInv, ReferenceInv
    <3>4. ready' = [ready EXCEPT ![mine[t]] = @ \o <<t>>] /\ <<t>> \in Seq(Threads)
      <4>1. ready' = [ready EXCEPT ![mine[t]] = Append(@, t)]
        BY <2>3 DEF Submit, Wake
      <4>2. Append(ready[mine[t]], t) = ready[mine[t]] \o <<t>>
        BY <3>3 DEF IInv, LockInv, Types
      <4>3. QED
        BY <4>1, <4>2
    <3>5. PICK s \in Seq(Threads) : s = <<t>>
      BY <3>4
    <3>6. \A i \in 1 .. Len(s) : i = 1 /\ s[i] = t
      BY <3>5
    <3>7. ready' = [ready EXCEPT ![mine[t]] = @ \o s]
      BY <3>4, <3>5
    <3>8. job[t] \notin Queued
      BY <3>1 DEF Queued
    <3>9. /\ \A i, j \in 1 .. Len(s) : s[i] = s[j] => i = j
          /\ \A i \in 1 .. Len(s) :
               job[s[i]] \notin Queued /\ job'[s[i]] \in Queued /\ mine'[s[i]] = mine[t]
      BY <3>2, <3>6, <3>8
    <3>10. \A u \in Threads : job[u] \in Queued => job'[u] \in Queued /\ mine'[u] = mine[u]
      BY <3>2
    <3>11. QED
      BY <3>3, <3>7, <3>9, <3>10, QueueGrows
  <2>4. CASE CancelTasks(t)
    BY <2>4, CancelQueue
  <2>5. CASE Signal(t)
    <3>1. UNCHANGED <<job, mine>> /\ mine[t] \in Managers
      BY <2>5 DEF Signal, Goto, IInv, LockInv, Types, ReferenceInv, Ending
    <3>2. CASE UNCHANGED ready
      BY <3>1, <3>2, QueueKept
    <3>3. CASE ready' = [ready EXCEPT ![mine[t]] = Append(@, None)]
      <4>1. ready[mine[t]] \in Seq(Threads \cup {None}) /\ Len(ready[mine[t]]) >= 0
        BY <3>1 DEF IInv, LockInv, Types
      <4>2. /\ ready'[mine[t]] = Append(ready[mine[t]], None)
            /\ \A n \in Managers \ {mine[t]} : ready'[n] = ready[n]
        BY <3>1, <3>3 DEF IInv, LockInv, Types
      <4>3. \A i \in 1 .. Len(ready'[mine[t]]) :
              \/ i + 0 \in 1 .. Len(ready[mine[t]]) /\ ready'[mine[t]][i] = ready[mine[t]][i + 0]
              \/ ready'[mine[t]][i] = None
        BY <4>1, <4>2
      <4>4. QED
        BY <3>1, <4>1, <4>2, <4>3, QueueStops
    <3>4. QED
      BY <2>5, <3>2, <3>3 DEF Signal
  <2>6. QED
    BY <1>2, <2>1, <2>2, <2>3, <2>4, <2>5 DEF Continue
<1>3. ASSUME NEW m \in Managers, LoopStep(m)
      PROVE  QueueInv'
  <2>1. CASE MakeLoop(m) \/ RunForever(m) \/ Iterate(m) \/ LeaveLoop(m)
    <3>1. UNCHANGED <<ready, job, mine>>
      BY <2>1 DEF MakeLoop, RunForever, Iterate, LeaveLoop
    <3>2. QED
      BY <3>1, QueueKept
  <2>2. CASE RunJob(m) \/ RunFatal(m)
    <3>1. \E t \in Threads, from \in Queued, to \in JobStates : JobStep(m, t, from, to)
      BY <2>2 DEF RunJob, RunFatal, JobStates, Queued
    <3>2. QED
      BY <3>1, QueuePops
  <2>3. CASE RunStop(m)
    <3>1. UNCHANGED <<job, mine>> /\ Pop(m, None, <<>>)
      BY <2>3 DEF RunStop, Pop
    <3>2. /\ ready[m] \in Seq(Threads \cup {None}) /\ Len(ready[m]) >= 1
          /\ ready'[m] = Tail(ready[m]) \o <<>>
          /\ \A n \in Managers \ {m} : ready'[n] = ready[n]
      BY <3>1 DEF Pop, IInv, LockInv, Types
    <3>3. \A i \in 1 .. Len(ready'[m]) :
            i + 1 \in 1 .. Len(ready[m]) /\ ready'[m][i] = ready[m][i + 1]
      BY <3>2
    <3>4. QED
      BY <3>1, <3>2, <3>3, QueueStops
  <2>4. CASE CloseLoop(m)
    <3>1. /\ UNCHANGED <<job, mine>> /\ ready'[m] = <<>>
          /\ \A n \in Managers \ {m} : ready'[n] = ready[n]
      BY <2>4 DEF CloseLoop, IInv, LockInv, Types
    <3>2. 1 .. Len(ready'[m]) = {}
      BY <3>1
    <3>3. ASSUME NEW n \in Managers \ {m}
          PROVE  /\ \A i \in 1 .. Len(ready'[n]) :
                      ready'[n][i] # None => job'[ready'[n][i]] \in Queued /\ mine'[ready'[n][i]] = n
                 /\ \A i, j \in 1 .. Len(ready'[n]) :
                      ready'[n][i] = ready'[n][j] /\ ready'[n][i] # None => i = j
      <4>1. ready'[n] = ready[n] /\ UNCHANGED <<job, mine>>
        BY <3>1
      <4>2. QED
        BY <4>1 DEF IInv, QueueInv
    <3>4. QED
      BY <3>2, <3>3 DEF QueueInv
  <2>5. QED
    BY <1>3, <2>1, <2>2, <2>3, <2>4 DEF LoopStep
<1>4. ASSUME NEW m \in Managers, PoolAccepts(m) \/ PoolFinishes(m)
      PROVE  QueueInv'
  BY <1>4, QueueKept DEF PoolAccepts, PoolFinishes, loopVars
<1>5. QED
  BY <1>1, <1>2, <1>3, <1>4 DEF Next

-----------------------------------------------------------------------------

LEMMA LockStepInv ==
  ASSUME IInv, [Next]_vars
  PROVE  LockInv'
<1>1. CASE UNCHANGED vars
  <2>1. UNCHANGED <<instance, locks, executor, unfinished, mine, loop, pc, ready, todo, job>>
    BY <1>1 DEF vars, loopVars
  <2>2. Types' /\ StopInv' /\ JobInv'
    BY <2>1 DEF IInv, LockInv, Types, StopInv, StopQueued, TakenDown, JobInv, locks
  <2>3. QED
    BY <2>1, <2>2, LoopOnlyInv
<1>2. ASSUME NEW t \in Threads, GetInstance(t) \/ Submit(t) \/ Stop(t) \/ Wake(t) \/ Continue(t)
      PROVE  LockInv'
  BY <1>2, OutsideInv, LockInstanceInv, CreatedInv, ReturnInstanceInv, LockStopInv,
     CancelTasksInv, SignalInv, ShutExecutorInv, JoinExecutorInv, ClearInstanceInv DEF Continue
<1>3. ASSUME NEW m \in Managers, LoopStep(m) \/ PoolAccepts(m) \/ PoolFinishes(m)
      PROVE  LockInv'
  BY <1>3, LoopStepInv, PoolInv
<1>4. QED
  BY <1>1, <1>2, <1>3 DEF Next

LEMMA StepInv == IInv /\ [Next]_vars => IInv'
BY LockStepInv, QueueStepInv DEF IInv

THEOREM Invariance == Spec => []IInv
<1>1. QED
  BY InitInv, StepInv, PTL DEF Spec

(* The types of the loop manager's variables (loop_manager.py:121-141). *)
THEOREM TypeCorrect == Spec => []TypeOK
<1>1. QED
  BY Invariance, TypeFollows, PTL

(***************************************************************************)
(* get_instance and stop, called from any number of threads in any order,  *)
(* never have two event loops at a time (loop_manager.py:112-119, 171-197).*)
(***************************************************************************)
THEOREM AtMostOneLoop == Spec => []OneLoop
<1>1. QED
  BY Invariance, OneLoopFollows, PTL

(***************************************************************************)
(* stop never clears a manager that it has not shut down (191-195), and    *)
(* clears it only when the tasks that its executor had accepted are over.  *)
(***************************************************************************)
THEOREM NothingIsLeftOver == Spec => []NoLeftovers
<1>1. IInv => NoLeftovers
  BY DEF IInv, LockInv
<1>2. QED
  BY <1>1, Invariance, PTL

(***************************************************************************)
(* Whichever way stop returns, by its early return as well, the loop is    *)
(* closed and the executor shut down and idle (171-197), unless a          *)
(* coroutine took the loop down by raising SystemExit or KeyboardInterrupt.*)
(***************************************************************************)
THEOREM StopHasShutDown == Spec => StopShutsDown
<1>1. ASSUME IInv, Next, NEW t \in Threads, pc[t] \in {"stop", "clear"}, pc'[t] = "idle"
      PROVE  /\ loop'[mine[t]] = "closed"
             /\ \/ executor'[mine[t]] = "shutdown" /\ ~ unfinished'[mine[t]]
                \/ TakenDown(mine[t])
  <2>1. \/ LockStop(t) /\ loop[mine[t]] = "closed"
        \/ ClearInstance(t)
    <3>1. pc[t] # pc'[t]
      BY <1>1
    <3>2. \A m \in Managers : ~ (LoopStep(m) \/ PoolAccepts(m) \/ PoolFinishes(m))
      BY <3>1 DEF PoolAccepts, PoolFinishes, LoopStep, MakeLoop, RunForever, Iterate, RunJob,
                  RunStop, RunFatal, LeaveLoop, CloseLoop, JobStep, Pop
    <3>3. PICK u \in Threads : GetInstance(u) \/ Submit(u) \/ Stop(u) \/ Wake(u) \/ Continue(u)
      BY <1>1, <3>2 DEF Next
    <3>4. ~ Wake(u)
      BY <3>1 DEF Wake
    <3>5. /\ GetInstance(u) => Goto(u, "idle", "lock") \/ Goto(u, "idle", "return")
          /\ Submit(u) => Goto(u, "idle", "blocked")
          /\ Stop(u) => Goto(u, "idle", "stop")
          /\ LockInstance(u) => Goto(u, "lock", "return") \/ Goto(u, "lock", "create")
          /\ Created(u) => Goto(u, "create", "return")
          /\ ReturnInstance(u) => Goto(u, "return", "idle")
          /\ Result(u) => Goto(u, "blocked", "idle")
          /\ LockStop(u) => (Goto(u, "stop", "idle") /\ loop[mine[u]] = "closed") \/ Goto(u, "stop", "cancel")
          /\ CancelTasks(u) => Goto(u, "cancel", "signal")
          /\ Signal(u) => Goto(u, "signal", "signalled") \/ Goto(u, "signal", "unsignalled")
          /\ ShutExecutor(u) => Goto(u, "signalled", "join") \/ Goto(u, "unsignalled", "join")
          /\ JoinExecutor(u) => Goto(u, "join", "clear")
          /\ ClearInstance(u) => Goto(u, "clear", "idle")
      BY DEF GetInstance, Submit, Stop, LockInstance, Created, ReturnInstance, Result,
             LockStop, CancelTasks, Signal, ShutExecutor, JoinExecutor, ClearInstance
    <3>6. \A from, to : Goto(u, from, to) => u = t /\ from \in {"stop", "clear"} /\ to = "idle"
      BY <1>1, <3>1 DEF Goto, IInv, LockInv, Types
    <3>7. QED
      BY <3>3, <3>4, <3>5, <3>6 DEF Continue
  <2>2. CASE LockStop(t) /\ loop[mine[t]] = "closed"
    <3>1. /\ mine[t] \in Managers /\ stop_lock[mine[t]] = None
          /\ UNCHANGED <<loop, executor, unfinished>>
      BY <1>1, <2>2 DEF LockStop, loopVars, IInv, LockInv, Types, ReferenceInv, Ending
    <3>2. QED
      BY <1>1, <2>2, <3>1 DEF IInv, LockInv, StopInv, JoinInv
  <2>3. CASE ClearInstance(t)
    <3>1. pc[t] = "clear" /\ UNCHANGED <<loop, executor, unfinished>>
      BY <2>3 DEF ClearInstance, Goto, loopVars
    <3>2. QED
      BY <1>1, <3>1 DEF IInv, LockInv, EndingInv
  <2>4. QED
    BY <2>1, <2>2, <2>3
<1>2. IInv /\ [Next]_vars =>
        [\A t \in Threads : pc[t] \in {"stop", "clear"} /\ pc'[t] = "idle"
           => /\ loop'[mine[t]] = "closed"
              /\ \/ executor'[mine[t]] = "shutdown" /\ ~ unfinished'[mine[t]]
                 \/ TakenDown(mine[t])]_vars
  BY <1>1
<1>3. QED
  BY <1>2, Invariance, PTL DEF Spec, StopShutsDown

-----------------------------------------------------------------------------
(***************************************************************************)
(* LoopManager implements LoopSessions.  The executor of a manager that is *)
(* still being made is open, so nothing has stopped its loop, and it comes *)
(* to be the singleton with a loop that is not closed.                     *)
(***************************************************************************)

MadeManagers == {m \in Managers : loop[m] # "none" /\ ~ Making(m)}
ClosedManagers == {m \in Managers : loop[m] = "closed"}

ExecutorInv == \A m \in Managers : loop[m] = "none" \/ Making(m) => executor[m] = "open"

LEMMA ExecutorStep == IInv /\ ExecutorInv /\ [Next]_vars => ExecutorInv'
<1> SUFFICES ASSUME IInv, ExecutorInv, [Next]_vars, NEW m \in Managers
             PROVE  (loop[m] = "none" \/ Making(m) => executor[m] = "open")'
  BY DEF ExecutorInv
<1> USE DEF locks, loopVars, IInv, LockInv, Types
<1>1. ASSUME NEW t \in Threads, ShutExecutor(t)
      PROVE  (loop[m] = "none" \/ Making(m) => executor[m] = "open")'
  <2>1. /\ UNCHANGED <<loop, mine>> /\ executor' = [executor EXCEPT ![mine[t]] = "shutdown"]
        /\ loop[mine[t]] = "closed" /\ pc[t] \in Ending
        /\ \A u \in Threads : pc'[u] = "create" => pc[u] = "create"
    BY <1>1 DEF ShutExecutor, Goto, Ending
  <2>2. \A u \in Threads : pc[u] = "create" => mine[u] # mine[t]
    BY <2>1 DEF MakingInv, Ending
  <2>3. QED
    BY <2>1, <2>2 DEF ExecutorInv, Making
<1>2. ASSUME NEW t \in Threads, LockInstance(t)
      PROVE  (loop[m] = "none" \/ Making(m) => executor[m] = "open")'
  <2>1. CASE instance # None
    <3>1. UNCHANGED <<loop, mine, executor>> /\ \A u \in Threads : pc'[u] = "create" => pc[u] = "create"
      BY <1>2, <2>1 DEF LockInstance, Goto
    <3>2. QED
      BY <3>1 DEF ExecutorInv, Making
  <2>2. CASE instance = None
    <3>1. PICK n \in Managers :
            /\ loop[n] = "none" /\ loop' = [loop EXCEPT ![n] = "thread"]
            /\ pc' = [pc EXCEPT ![t] = "create"]
            /\ mine' = [mine EXCEPT ![t] = n]
            /\ executor' = executor
      BY <1>2, <2>2 DEF LockInstance, Goto
    <3>2. executor[n] = "open"
      BY <3>1 DEF ExecutorInv
    <3>3. loop'[m] = "none" => loop[m] = "none"
      BY <3>1
    <3>4. Making(m)' => Making(m) \/ m = n
      BY <3>1 DEF Making
    <3>5. QED
      BY <3>1, <3>2, <3>3, <3>4 DEF ExecutorInv
  <2>3. QED
    BY <2>1, <2>2
<1>3. ASSUME NEW t \in Threads,
             \/ GetInstance(t) \/ Submit(t) \/ Stop(t) \/ Wake(t)
             \/ Created(t) \/ ReturnInstance(t) \/ Result(t)
             \/ LockStop(t) \/ CancelTasks(t) \/ Signal(t) \/ JoinExecutor(t) \/ ClearInstance(t)
      PROVE  (loop[m] = "none" \/ Making(m) => executor[m] = "open")'
  <2>1. UNCHANGED <<loop, executor>>
    BY <1>3 DEF GetInstance, Submit, Stop, Wake, Created, ReturnInstance, Result, LockStop,
       CancelTasks, Signal, JoinExecutor, ClearInstance
  <2>2. \A u \in Threads : pc'[u] = "create" => pc[u] = "create" /\ mine'[u] = mine[u]
    BY <1>3 DEF GetInstance, Submit, Stop, Wake, Created, ReturnInstance, Result, LockStop,
       CancelTasks, Signal, JoinExecutor, ClearInstance, Goto
  <2>3. QED
    BY <2>1, <2>2 DEF ExecutorInv, Making
<1>4. ASSUME NEW n \in Managers, LoopStep(n) \/ PoolAccepts(n) \/ PoolFinishes(n)
      PROVE  (loop[m] = "none" \/ Making(m) => executor[m] = "open")'
  <2>1. UNCHANGED <<executor, pc, mine>>
    BY <1>4 DEF LoopStep, MakeLoop, RunForever, Iterate, RunJob, RunStop, RunFatal, LeaveLoop,
       CloseLoop, JobStep, Pop, InLoop, PoolAccepts, PoolFinishes
  <2>2. loop'[m] = "none" => loop[m] = "none"
    <3>1. CASE LoopStep(n)
      BY <3>1 DEF LoopStep, MakeLoop, RunForever, Iterate, RunJob, RunStop, RunFatal, LeaveLoop,
         CloseLoop, JobStep, Pop, InLoop
    <3>2. CASE PoolAccepts(n) \/ PoolFinishes(n)
      BY <3>2 DEF PoolAccepts, PoolFinishes
    <3>3. QED
      BY <1>4, <3>1, <3>2
  <2>3. QED
    BY <2>1, <2>2 DEF ExecutorInv, Making
<1>5. CASE UNCHANGED vars
  BY <1>5 DEF vars, ExecutorInv, Making
<1>6. QED
  BY <1>1, <1>2, <1>3, <1>4, <1>5 DEF Next, Continue

LEMMA MakingIsOpen ==
  ASSUME IInv, ExecutorInv, NEW m \in Managers, Making(m)
  PROVE  loop[m] \notin {"none", "exited", "closed"}
<1>1. PICK t \in Threads : pc[t] = "create" /\ mine[t] = m
  BY DEF Making
<1>2. \A u \in Threads : mine[u] = m => u = t
  BY <1>1 DEF IInv, LockInv, MakingInv
<1>3. stop_lock[m] = None
  <2>1. stop_lock[m] \in Threads \cup {None}
    BY DEF IInv, LockInv, Types
  <2>2. \A u \in Threads : stop_lock[m] = u => pc[u] \in Ending /\ mine[u] = m
    BY DEF IInv, LockInv, StopLockInv
  <2>3. QED
    BY <1>1, <1>2, <2>1, <2>2 DEF Ending
<1>4. ~ TakenDown(m)
  BY <1>1, <1>2 DEF IInv, LockInv, JobInv, TakenDown
<1>5. QED
  BY <1>1, <1>3, <1>4, LoopAssumption DEF IInv, LockInv, ReferenceInv, StopInv, ExecutorInv

LEMMA SessionInit == Init => Sessions!Init
<1> SUFFICES ASSUME Init
             PROVE  Sessions!Init
  OBVIOUS
<1>1. \A m \in Managers : loop[m] = "none"
  BY DEF Init
<1>2. QED
  BY <1>1 DEF Init, Sessions!Init

(* A step that changes neither the singleton nor which managers are made or closed. *)
LEMMA SessionStutter ==
  ASSUME instance' = instance, MadeManagers' = MadeManagers, ClosedManagers' = ClosedManagers
  PROVE  UNCHANGED Sessions!vars
  BY DEF MadeManagers, ClosedManagers, Sessions!vars

LEMMA SessionThreads ==
  ASSUME IInv, ExecutorInv, NEW t \in Threads,
         \/ GetInstance(t) \/ Submit(t) \/ Stop(t) \/ Wake(t)
         \/ LockInstance(t) \/ ReturnInstance(t) \/ Result(t)
         \/ LockStop(t) \/ CancelTasks(t) \/ Signal(t) \/ ShutExecutor(t) \/ JoinExecutor(t)
  PROVE  [Sessions!Next]_(Sessions!vars)
<1> USE DEF locks, loopVars, IInv, LockInv, Types
<1>1. CASE LockInstance(t) /\ instance = None
  <2>1. PICK n \in Managers :
          /\ loop[n] = "none" /\ loop' = [loop EXCEPT ![n] = "thread"]
          /\ pc[t] = "lock" /\ pc' = [pc EXCEPT ![t] = "create"]
          /\ mine' = [mine EXCEPT ![t] = n]
          /\ instance' = instance /\ instance_lock = None
    BY <1>1 DEF LockInstance, Goto
  <2>2. \A u \in Threads : pc[u] # "create"
    BY <2>1, LoopAssumption DEF InstanceLockInv
  <2>3. \A m \in Managers : ~ Making(m) /\ (Making(m)' <=> m = n)
    BY <2>1, <2>2 DEF Making
  <2>4. MadeManagers' = MadeManagers /\ ClosedManagers' = ClosedManagers
    BY <2>1, <2>3 DEF MadeManagers, ClosedManagers
  <2>5. QED
    BY <2>1, <2>4, SessionStutter
<1>2. CASE ~ (LockInstance(t) /\ instance = None)
  <2>1. UNCHANGED <<instance, loop>>
    BY <1>2 DEF GetInstance, Submit, Stop, Wake, LockInstance, ReturnInstance, Result, LockStop,
       CancelTasks, Signal, ShutExecutor, JoinExecutor
  <2>2. \A u \in Threads : /\ pc'[u] = "create" <=> pc[u] = "create"
                           /\ pc[u] = "create" => mine'[u] = mine[u]
    BY <1>2 DEF GetInstance, Submit, Stop, Wake, LockInstance, ReturnInstance, Result, LockStop,
       CancelTasks, Signal, ShutExecutor, JoinExecutor, Goto
  <2>3. \A m \in Managers : Making(m)' <=> Making(m)
    BY <2>2 DEF Making
  <2>4. MadeManagers' = MadeManagers /\ ClosedManagers' = ClosedManagers
    BY <2>1, <2>3 DEF MadeManagers, ClosedManagers
  <2>5. QED
    BY <2>1, <2>4, SessionStutter
<1>3. QED
  BY <1>1, <1>2

LEMMA SessionCreated ==
  ASSUME IInv, ExecutorInv, NEW t \in Threads, Created(t)
  PROVE  \E m \in Managers : Sessions!Make(m)
<1> USE DEF locks, loopVars, IInv, LockInv, Types
<1> DEFINE m == mine[t]
<1>1. /\ pc[t] = "create" /\ pc' = [pc EXCEPT ![t] = "return"]
      /\ instance' = m /\ UNCHANGED <<loop, mine>>
      /\ m \in Managers /\ instance = None
  BY DEF Created, Goto, ReferenceInv, MakingInv
<1>2. Making(m)
  BY <1>1 DEF Making
<1>3. \A u \in Threads : mine[u] = m => u = t
  BY <1>1 DEF MakingInv
<1>4. \A u \in Threads : pc[u] = "create" => u = t
  BY <1>1 DEF InstanceLockInv
<1>5. \A n \in Managers : ~ Making(n)' /\ (Making(n) <=> n = m)
  BY <1>1, <1>2, <1>4 DEF Making
<1>6. loop[m] # "none"
  BY <1>1, <1>2, MakingIsOpen
<1> HIDE DEF m
<1>7. MadeManagers' = MadeManagers \cup {m} /\ m \notin MadeManagers
  BY <1>1, <1>5, <1>6 DEF MadeManagers
<1>8. ClosedManagers' = ClosedManagers
  BY <1>1 DEF ClosedManagers
<1>9. QED
  BY <1>1, <1>7, <1>8 DEF Sessions!Make, MadeManagers, ClosedManagers

LEMMA SessionCleared ==
  ASSUME IInv, ExecutorInv, NEW t \in Threads, ClearInstance(t)
  PROVE  Sessions!Unset
<1> USE DEF locks, loopVars, IInv, LockInv, Types
<1>1. /\ pc[t] = "clear" /\ pc' = [pc EXCEPT ![t] = "idle"]
      /\ instance' = None /\ UNCHANGED <<loop, mine>>
  BY DEF ClearInstance, Goto
<1>2. instance = mine[t] /\ mine[t] \in Managers /\ loop[mine[t]] = "closed"
  BY <1>1 DEF EndingInv, ReferenceInv, Ending
<1>3. \A m \in Managers : Making(m)' <=> Making(m)
  BY <1>1 DEF Making
<1>4. MadeManagers' = MadeManagers /\ ClosedManagers' = ClosedManagers
  BY <1>1, <1>3 DEF MadeManagers, ClosedManagers
<1>5. instance \in ClosedManagers
  BY <1>2 DEF ClosedManagers
<1>6. QED
  BY <1>1, <1>4, <1>5 DEF Sessions!Unset, MadeManagers, ClosedManagers

LEMMA SessionLoops ==
  ASSUME IInv, ExecutorInv, NEW m \in Managers, LoopStep(m)
  PROVE  [Sessions!Next]_(Sessions!vars)
<1> USE DEF locks, loopVars, IInv, LockInv, Types
<1>1. UNCHANGED <<instance, pc, mine>> /\ \A n \in Managers : Making(n)' <=> Making(n)
  BY DEF LoopStep, MakeLoop, RunForever, Iterate, RunJob, RunStop, RunFatal, LeaveLoop,
     CloseLoop, JobStep, Pop, Making
<1>2. CASE CloseLoop(m)
  <2>1. loop[m] = "exited" /\ loop' = [loop EXCEPT ![m] = "closed"]
    BY <1>2 DEF CloseLoop
  <2>2. ~ Making(m)
    BY <1>1, <2>1, MakingIsOpen
  <2>3. MadeManagers' = MadeManagers
    BY <1>1, <2>1 DEF MadeManagers
  <2>4. ClosedManagers' = ClosedManagers \cup {m} /\ m \in MadeManagers \ ClosedManagers
    BY <2>1, <2>2 DEF MadeManagers, ClosedManagers
  <2>5. Sessions!Close(m)
    BY <1>1, <2>3, <2>4 DEF Sessions!Close, MadeManagers, ClosedManagers
  <2>6. QED
    BY <2>5 DEF Sessions!Next
<1>3. CASE ~ CloseLoop(m)
  <2>1. \A n \in Managers : /\ loop'[n] = "none" <=> loop[n] = "none"
                            /\ loop'[n] = "closed" <=> loop[n] = "closed"
    BY <1>3 DEF LoopStep, MakeLoop, RunForever, Iterate, RunJob, RunStop, RunFatal, LeaveLoop,
       JobStep, Pop, InLoop
  <2>2. MadeManagers' = MadeManagers /\ ClosedManagers' = ClosedManagers
    BY <1>1, <2>1 DEF MadeManagers, ClosedManagers
  <2>3. QED
    BY <1>1, <2>2, SessionStutter
<1>4. QED
  BY <1>2, <1>3

LEMMA SessionPool ==
  ASSUME NEW m \in Managers, PoolAccepts(m) \/ PoolFinishes(m)
  PROVE  UNCHANGED Sessions!vars
<1>1. UNCHANGED <<instance, loop, pc, mine>>
  BY DEF PoolAccepts, PoolFinishes, loopVars
<1>2. QED
  BY <1>1, SessionStutter DEF MadeManagers, ClosedManagers, Making

LEMMA SessionStep == IInv /\ ExecutorInv /\ [Next]_vars => [Sessions!Next]_(Sessions!vars)
<1> SUFFICES ASSUME IInv, ExecutorInv, [Next]_vars
             PROVE  [Sessions!Next]_(Sessions!vars)
  OBVIOUS
<1>1. CASE UNCHANGED vars
  <2>1. UNCHANGED <<instance, loop>> /\ MadeManagers' = MadeManagers
    BY <1>1 DEF vars, loopVars, MadeManagers, Making
  <2>2. QED
    BY <2>1, SessionStutter DEF ClosedManagers
<1>2. QED
  BY <1>1, SessionThreads, SessionCreated, SessionCleared, SessionLoops, SessionPool
    DEF Next, Continue, Sessions!Next

(***************************************************************************)
(* TaskLoopManager keeps its promise to the life cycle of nodes, for any   *)
(* number of threads: loop managers follow one another, and the singleton  *)
(* is cleared only when its own loop is closed (112-119, 171-197).         *)
(***************************************************************************)
THEOREM SessionsTakeTurns == Spec => SessionSpec
<1>1. Init => ExecutorInv
  BY DEF Init, ExecutorInv
<1>2. QED
  BY <1>1, Invariance, ExecutorStep, SessionInit, SessionStep, PTL
    DEF Spec, SessionSpec, Sessions!Spec
=============================================================================
