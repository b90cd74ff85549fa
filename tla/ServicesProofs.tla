--------------------------- MODULE ServicesProofs ---------------------------
(***************************************************************************)
(* Services implements RemoteCall, for any number of requests, services    *)
(* and workers, and whatever the handlers do.                              *)
(*                                                                         *)
(* The argument: an answer SUCCESS, be it about to be sent or on its way,  *)
(* has been made from the return value of the handler of its own request,  *)
(* and what has become of a handler does not change afterwards.  A handler *)
(* is run only for a request that was made.                                *)
(***************************************************************************)
EXTENDS Services, TLAPS

(* Nothing is done for a request that has not been made. *)
MadeInv ==
  /\ \A r \in wire : client[r] # "idle"
  /\ current # None => client[current] # "idle"
  /\ \A r \in Requests : task[r] # "none" => client[r] # "idle"

Returned(r) == task[r] = "done" /\ outcome[r] = "returned"

SuccessInv ==
  /\ \A r \in Requests : replies[r] = "SUCCESS" => Returned(r)
  /\ status = "SUCCESS" => Returned(current)

AnswerInv == TypeOK /\ MadeInv /\ SuccessInv

(* A request for a service that has no handler yet has come early. *)
RefusalInv ==
  /\ \A r \in wire : service[Service[r]] # "callable" => r \in early
  /\ \A r \in Requests : replies[r] = "NOSERVICE" => r \in early
  /\ status = "NOSERVICE" => current \in early

-----------------------------------------------------------------------------

LEMMA NoneIsNoStatus ==
  /\ None \notin Statuses
  /\ {"SUCCESS", "EMPTY", "NOSERVICE", "SERVICE_TIMEOUT"} \subseteq Statuses
  BY ServicesAssumption DEF Statuses

LEMMA TypeInit == Init => TypeOK
  BY DEF Init, TypeOK

LEMMA StatusType == \A o : StatusOf(o) \in Statuses \ {"NOSERVICE"}
  BY DEF StatusOf, Statuses

(* What a step does to the pool keeps the types of its variables. *)
LEMMA MovesType ==
  ASSUME TypeOK, NEW r \in Requests, NEW from,
         NEW to \in {"none", "pending", "running", "done", "cancelled", "abandoned"},
         Pool!Moves(r, from, to)
  PROVE  /\ task' \in [Requests ->
              {"none", "pending", "running", "done", "cancelled", "abandoned"}]
         /\ open' \in BOOLEAN
         /\ drained' \in BOOLEAN
  BY DEF TypeOK, Pool!Moves

LEMMA TypeClients ==
  ASSUME TypeOK, NEW r \in Requests,
         Call(r) \/ CallUnknown(r) \/ ReceiveReply(r) \/ GiveUp(r)
  PROVE  TypeOK'
<1>1. CASE Call(r) \/ CallUnknown(r)
  BY <1>1, ServicesAssumption DEF TypeOK, Call, CallUnknown, serverVars, poolVars
<1>2. CASE ReceiveReply(r) \/ GiveUp(r)
  <2>1. UNCHANGED <<service, early, serverVars, stop, poolVars>> /\ wire' \subseteq wire
    BY <1>2 DEF ReceiveReply, GiveUp
  <2>2. client' \in [Requests -> {"idle", "waiting", "ok", "failed", "raised"}]
    BY <1>2 DEF TypeOK, ReceiveReply, GiveUp
  <2>3. replies' \in [Requests -> Statuses \cup {None}]
    BY <1>2 DEF TypeOK, ReceiveReply, GiveUp
  <2>4. \A q \in Requests : replies'[q] # None => client'[q] = "waiting"
    BY <1>2 DEF TypeOK, ReceiveReply, GiveUp
  <2>5. QED
    BY <2>1, <2>2, <2>3, <2>4 DEF TypeOK, serverVars, poolVars
<1>3. QED
  BY <1>1, <1>2

LEMMA TypeReceive ==
  ASSUME TypeOK, NEW r \in Requests, Receive(r)
  PROVE  TypeOK'
<1>1. /\ UNCHANGED <<service, client, early, replies, stop>>
      /\ wire' \subseteq wire /\ current' = r
      /\ status = None
  BY DEF Receive, TypeOK
<1>2. CASE service[Service[r]] = "callable"
  <2>1. Pool!Moves(r, "none", "pending") /\ loop' = "await" /\ UNCHANGED <<status, outcome>>
    BY <1>2 DEF Receive, Pool!Accept
  <2>2. QED
    BY <1>1, <2>1, MovesType, ServicesAssumption DEF TypeOK
<1>3. CASE service[Service[r]] # "callable"
  <2>1. loop' = "send" /\ status' = "NOSERVICE" /\ UNCHANGED poolVars
    BY <1>3 DEF Receive
  <2>2. QED
    BY <1>1, <2>1, ServicesAssumption, NoneIsNoStatus DEF TypeOK, poolVars
<1>4. QED
  BY <1>2, <1>3

LEMMA TypeMalformed ==
  ASSUME TypeOK, NEW r \in Requests, ReceiveMalformed(r)
  PROVE  TypeOK'
  BY DEF TypeOK, ReceiveMalformed, poolVars

LEMMA CancelTaskType ==
  ASSUME TypeOK, loop = "await", CancelTask
  PROVE  /\ task' \in [Requests ->
              {"none", "pending", "running", "done", "cancelled", "abandoned"}]
         /\ open' \in BOOLEAN
         /\ drained' \in BOOLEAN
<1>1. current \in Requests
  BY DEF TypeOK
<1>2. CASE Pool!Cancel(current)
  BY <1>1, <1>2, MovesType DEF Pool!Cancel
<1>3. CASE UNCHANGED <<task, open, drained>>
  BY <1>3 DEF TypeOK
<1>4. QED
  BY <1>2, <1>3 DEF CancelTask

LEMMA TypeServer ==
  ASSUME TypeOK, HandlerDone \/ HandlerOverdue \/ Send \/ Leave \/ Cancelled
  PROVE  TypeOK'
<1>1. UNCHANGED <<service, clientVars, stop>>
  BY DEF HandlerDone, HandlerOverdue, Send, Leave, Cancelled
<1>2. CASE HandlerDone
  <2>1. UNCHANGED <<replies, poolVars>>
    BY <1>2 DEF HandlerDone
  <2>2. End \/ Answer(StatusOf(outcome[current]))
    BY <1>2 DEF HandlerDone
  <2>3. loop = "await"
    BY <1>2 DEF HandlerDone
  <2>4. QED
    BY <1>1, <2>1, <2>2, <2>3, StatusType, NoneIsNoStatus DEF TypeOK, End, Answer, clientVars, poolVars
<1>3. CASE HandlerOverdue \/ Cancelled
  <2>1. loop = "await" /\ CancelTask /\ UNCHANGED <<replies, outcome>>
    BY <1>3 DEF HandlerOverdue, Cancelled
  <2>2. End \/ Answer("SERVICE_TIMEOUT")
    BY <1>3 DEF HandlerOverdue, Cancelled
  <2>3. QED
    BY <1>1, <2>1, <2>2, CancelTaskType, NoneIsNoStatus DEF TypeOK, End, Answer, clientVars
<1>4. CASE Send
  BY <1>1, <1>4 DEF TypeOK, Send, clientVars, poolVars
<1>5. CASE Leave
  BY <1>1, <1>5 DEF TypeOK, Leave, End, clientVars, poolVars
<1>6. QED
  BY <1>2, <1>3, <1>4, <1>5

LEMMA TypePool ==
  ASSUME TypeOK, NEW r \in Requests,
         Begin(r) \/ HandlerReturns(r) \/ HandlerExits(r)
  PROVE  TypeOK'
<1>1. UNCHANGED <<service, clientVars, replies, serverVars, stop>>
  BY DEF Begin, HandlerReturns, HandlerExits
<1>2. CASE Begin(r) \/ HandlerExits(r)
  <2>1. /\ Pool!Moves(r, "pending", "running") \/ Pool!Moves(r, "running", "abandoned")
        /\ UNCHANGED outcome
    BY <1>2 DEF Begin, HandlerExits, Pool!Call
  <2>2. QED
    BY <1>1, <2>1, MovesType DEF TypeOK, clientVars, serverVars
<1>3. CASE HandlerReturns(r)
  <2>1. Pool!Moves(r, "running", "done")
    BY <1>3 DEF HandlerReturns
  <2>2. outcome' \in [Requests -> Outcomes \cup {None}]
    <3>1. PICK o \in MayEnd[r] : outcome' = [outcome EXCEPT ![r] = o]
      BY <1>3 DEF HandlerReturns
    <3>2. MayEnd[r] \subseteq Outcomes
      BY ServicesAssumption
    <3>3. QED
      BY <3>1, <3>2 DEF TypeOK
  <2>3. QED
    BY <1>1, <2>1, <2>2, MovesType DEF TypeOK, clientVars, serverVars
<1>4. QED
  BY <1>2, <1>3

LEMMA TypeOthers ==
  ASSUME TypeOK,
         \/ \E n \in Names : Announce(n) \/ RegisterService(n)
         \/ stop # "done" /\ Stop
         \/ Shutdown
  PROVE  TypeOK'
<1>1. CASE \E n \in Names : Announce(n) \/ RegisterService(n)
  BY <1>1 DEF TypeOK, Announce, RegisterService, clientVars, serverVars, poolVars
<1>2. CASE stop # "done" /\ Stop
  <2>1. stop' \in {"no", "flag", "closed", "done"}
    BY <1>2 DEF TypeOK, Stop
  <2>2. QED
    BY <1>2, <2>1 DEF TypeOK, Stop, clientVars, serverVars, poolVars
<1>3. CASE Shutdown
  BY <1>3 DEF TypeOK, Shutdown, Pool!Close, Pool!Drain, clientVars, serverVars
<1>4. QED
  BY <1>1, <1>2, <1>3

LEMMA TypeStep == TypeOK /\ [Next]_vars => TypeOK'
<1> SUFFICES ASSUME TypeOK, [Next]_vars
             PROVE  TypeOK'
  OBVIOUS
<1>1. CASE UNCHANGED vars
  BY <1>1 DEF TypeOK, vars, clientVars, serverVars, poolVars
<1>2. CASE Next
  BY <1>2, TypeClients, TypeReceive, TypeMalformed, TypeServer, TypePool, TypeOthers
    DEF Next, Serve
<1>3. QED
  BY <1>1, <1>2

(* The type invariant. *)
THEOREM TypeCorrect == Spec => []TypeOK
  BY TypeInit, TypeStep, PTL DEF Spec

-----------------------------------------------------------------------------

LEMMA RefusalStep == TypeOK /\ RefusalInv /\ [Next]_vars => RefusalInv'
<1> SUFFICES ASSUME TypeOK, RefusalInv, [Next]_vars
             PROVE  RefusalInv'
  OBVIOUS
<1>1. CASE UNCHANGED vars
  BY <1>1 DEF RefusalInv, vars, clientVars, serverVars
<1>2. ASSUME NEW n \in Names, Announce(n) \/ RegisterService(n)
      PROVE  RefusalInv'
  <2>1. UNCHANGED <<clientVars, replies, serverVars>>
    BY <1>2 DEF Announce, RegisterService
  <2>2. \A r \in Requests : service'[Service[r]] # "callable" => service[Service[r]] # "callable"
    BY <1>2, ServicesAssumption DEF Announce, RegisterService, TypeOK
  <2>3. QED
    BY <2>1, <2>2 DEF RefusalInv, TypeOK, clientVars, serverVars
<1>3. ASSUME NEW r \in Requests, Call(r) \/ CallUnknown(r) \/ ReceiveReply(r) \/ GiveUp(r)
      PROVE  RefusalInv'
  <2>1. UNCHANGED <<service, serverVars>>
    BY <1>3 DEF Call, CallUnknown, ReceiveReply, GiveUp
  <2>2. \A q \in Requests : replies'[q] = replies[q] \/ replies'[q] = None
    BY <1>3 DEF Call, CallUnknown, ReceiveReply, GiveUp, TypeOK
  <2>3. early \subseteq early' /\ wire' \subseteq wire \cup {r}
    BY <1>3 DEF Call, CallUnknown, ReceiveReply, GiveUp
  <2>4. r \in wire' \ wire /\ service[Service[r]] # "callable" => r \in early'
    BY <1>3 DEF Call, CallUnknown, ReceiveReply, GiveUp
  <2>5. QED
    BY <2>1, <2>2, <2>3, <2>4, NoneIsNoStatus DEF RefusalInv, serverVars
<1>4. ASSUME NEW r \in Requests, Receive(r)
      PROVE  RefusalInv'
  <2>1. /\ wire' \subseteq wire
        /\ current' = r /\ r \in wire
        /\ UNCHANGED <<service, early, replies>>
        /\ service[Service[r]] # "callable" \/ status' = status
    BY <1>4 DEF Receive
  <2>2. status = None
    BY <1>4 DEF Receive, TypeOK
  <2>3. QED
    BY <2>1, <2>2, NoneIsNoStatus DEF RefusalInv
<1>5. CASE Serve
  <2>1. UNCHANGED <<service, clientVars>>
    BY <1>5 DEF Serve, HandlerDone, HandlerOverdue, Send, Leave, Cancelled
  <2>2. CASE Send
    <3>1. \A q \in Requests : replies'[q] = replies[q] \/ (q = current /\ replies'[q] = status)
      BY <2>2 DEF Send
    <3>2. status' = None
      BY <2>2 DEF Send
    <3>3. QED
      BY <2>1, <3>1, <3>2, NoneIsNoStatus DEF RefusalInv, clientVars
  <2>3. CASE ~ Send
    <3>1. UNCHANGED replies /\ (End \/ (\E o : Answer(StatusOf(o))) \/ Answer("SERVICE_TIMEOUT"))
      BY <1>5, <2>3 DEF Serve, HandlerDone, HandlerOverdue, Leave, Cancelled
    <3>2. status' # "NOSERVICE"
      BY <3>1, StatusType, NoneIsNoStatus DEF End, Answer
    <3>3. QED
      BY <2>1, <3>1, <3>2 DEF RefusalInv, clientVars
  <2>4. QED
    BY <2>2, <2>3
<1>6. CASE \/ stop # "done" /\ Stop
           \/ Shutdown
           \/ \E r \in Requests : Begin(r) \/ HandlerReturns(r) \/ HandlerExits(r)
  BY <1>6 DEF RefusalInv, Stop, Shutdown, Begin, HandlerReturns, HandlerExits,
              clientVars, serverVars
<1>7. ASSUME NEW r \in Requests, ReceiveMalformed(r)
      PROVE  RefusalInv'
  BY <1>7 DEF RefusalInv, ReceiveMalformed
<1>8. QED
  BY <1>1, <1>2, <1>3, <1>4, <1>5, <1>6, <1>7 DEF Next

LEMMA RefusalInit == Init => RefusalInv
  BY NoneIsNoStatus DEF Init, RefusalInv

(***************************************************************************)
(* A request is answered NOSERVICE only if it was made between the two     *)
(* halves of register_service_handler.                                     *)
(***************************************************************************)
THEOREM RefusalsAreEarly == Spec => []RefusedOnlyWhileRegistering
<1>1. TypeOK /\ RefusalInv => RefusedOnlyWhileRegistering
  BY NoneIsNoStatus DEF RefusalInv, RefusedOnlyWhileRegistering
<1>2. QED
  BY <1>1, TypeInit, TypeStep, RefusalInit, RefusalStep, PTL DEF Spec

-----------------------------------------------------------------------------
(* What a step does to the tasks. *)

(* A task starts when its request is received, and what is done stays done. *)
LEMMA TaskSteps ==
  ASSUME TypeOK, Next, NEW r \in Requests
  PROVE  /\ task[r] = "none" /\ task'[r] # "none" => r \in wire /\ Receive(r)
         /\ Returned(r) => Returned(r)'
<1> DEFINE Good == /\ task[r] = "none" /\ task'[r] # "none" => r \in wire /\ Receive(r)
                   /\ Returned(r) => Returned(r)'
<1>1. CASE UNCHANGED <<task, outcome>>
  BY <1>1 DEF Returned
<1>2. ASSUME NEW q \in Requests, Receive(q), task' # task
      PROVE  Good
  <2>1. Pool!Moves(q, "none", "pending") /\ UNCHANGED outcome /\ q \in wire
    BY <1>2 DEF Receive, Pool!Accept, poolVars
  <2>2. QED
    BY <1>2, <2>1 DEF Returned, Pool!Moves, TypeOK
<1>3. ASSUME loop = "await", CancelTask, UNCHANGED outcome
      PROVE  Good
  BY <1>3 DEF CancelTask, Pool!Cancel, Pool!Moves, Returned, TypeOK
<1>4. ASSUME NEW q \in Requests, Begin(q) \/ HandlerExits(q)
      PROVE  Good
  BY <1>4 DEF Begin, HandlerExits, Pool!Call, Pool!Moves, Returned, TypeOK
<1>5. ASSUME NEW q \in Requests, HandlerReturns(q)
      PROVE  Good
  BY <1>5 DEF HandlerReturns, Pool!Moves, Returned, TypeOK
<1>6. CASE HandlerOverdue \/ Cancelled
  BY <1>3, <1>6 DEF HandlerOverdue, Cancelled
<1>7. CASE \/ HandlerDone \/ Send \/ Leave \/ Shutdown \/ (stop # "done" /\ Stop)
           \/ \E n \in Names : Announce(n) \/ RegisterService(n)
           \/ \E q \in Requests : Call(q) \/ CallUnknown(q) \/ ReceiveReply(q) \/ GiveUp(q)
           \/ \E q \in Requests : ReceiveMalformed(q)
  <2>1. UNCHANGED <<task, outcome>>
    BY <1>7 DEF HandlerDone, Send, Leave, Shutdown, Stop, Announce, RegisterService, Call,
                CallUnknown, ReceiveReply, GiveUp, ReceiveMalformed, poolVars, Pool!Close, Pool!Drain
  <2>2. QED
    BY <1>1, <2>1
<1>8. ASSUME NEW q \in Requests, Receive(q)
      PROVE  Good
  <2>1. UNCHANGED outcome
    BY <1>8 DEF Receive, poolVars
  <2>2. QED
    BY <1>1, <1>2, <1>8, <2>1
<1>9. QED
  BY <1>4, <1>5, <1>6, <1>7, <1>8 DEF Next, Serve

LEMMA MadeStep == TypeOK /\ MadeInv /\ [Next]_vars => MadeInv'
<1> SUFFICES ASSUME TypeOK, MadeInv, [Next]_vars
             PROVE  MadeInv'
  OBVIOUS
<1>1. CASE UNCHANGED vars
  BY <1>1 DEF MadeInv, vars, clientVars, serverVars, poolVars
<1>2. CASE Next
  <2>1. \A r \in Requests : client[r] # "idle" => client'[r] # "idle"
    BY <1>2 DEF Next, Serve, Announce, RegisterService, Call, CallUnknown, ReceiveReply, GiveUp,
       Receive, ReceiveMalformed, HandlerDone, HandlerOverdue, Send, Leave, Cancelled, Stop, Begin,
       HandlerReturns, HandlerExits, Shutdown, clientVars, TypeOK
  <2>2. \A r \in wire' : r \in wire \/ (r \in Requests /\ client'[r] = "waiting")
    BY <1>2 DEF Next, Serve, Announce, RegisterService, Call, CallUnknown, ReceiveReply, GiveUp,
       Receive, ReceiveMalformed, HandlerDone, HandlerOverdue, Send, Leave, Cancelled, Stop, Begin,
       HandlerReturns, HandlerExits, Shutdown, clientVars, TypeOK
  <2>3. current' \in {None, current} \cup wire
    BY <1>2 DEF Next, Serve, Announce, RegisterService, Call, CallUnknown, ReceiveReply, GiveUp,
       Receive, ReceiveMalformed, HandlerDone, HandlerOverdue, Send, Leave, Cancelled, Stop, Begin,
       HandlerReturns, HandlerExits, Shutdown, serverVars, Answer, End
  <2>4. \A r \in Requests : task'[r] # "none" => task[r] # "none" \/ r \in wire
    BY <1>2, TaskSteps
  <2>5. QED
    BY <2>1, <2>2, <2>3, <2>4 DEF MadeInv, TypeOK
<1>3. QED
  BY <1>1, <1>2

LEMMA SuccessStep == TypeOK /\ SuccessInv /\ [Next]_vars => SuccessInv'
<1> SUFFICES ASSUME TypeOK, SuccessInv, [Next]_vars
             PROVE  SuccessInv'
  OBVIOUS
<1>1. CASE UNCHANGED vars
  BY <1>1 DEF SuccessInv, Returned, vars, serverVars, poolVars
<1>2. CASE Next
  <2>1. \A r \in Requests : Returned(r) => Returned(r)'
    BY <1>2, TaskSteps
  <2>2. \A r \in Requests : replies'[r] = "SUCCESS" =>
           replies[r] = "SUCCESS" \/ (r = current /\ status = "SUCCESS")
    <3>1. CASE Send
      BY <3>1 DEF Send
    <3>2. CASE \E q \in Requests : ReceiveReply(q) \/ GiveUp(q)
      BY <3>2, NoneIsNoStatus DEF ReceiveReply, GiveUp, TypeOK
    <3>3. CASE UNCHANGED replies
      BY <3>3
    <3>4. QED
      BY <1>2, <3>1, <3>2, <3>3 DEF Next, Serve, Announce, RegisterService, Call, CallUnknown,
         Receive, ReceiveMalformed, HandlerDone, HandlerOverdue, Leave, Cancelled, Stop, Begin,
         HandlerReturns, HandlerExits, Shutdown
  <2>3. status' = "SUCCESS" => current' = current /\ current \in Requests
                               /\ (status = "SUCCESS" \/ Returned(current))
    <3>1. CASE HandlerDone
      <4>1. current \in Requests /\ task[current] = "done"
        BY <3>1 DEF HandlerDone, TypeOK
      <4>2. StatusOf(outcome[current]) = "SUCCESS" => outcome[current] = "returned"
        BY DEF StatusOf
      <4>3. QED
        BY <3>1, <4>1, <4>2, NoneIsNoStatus DEF HandlerDone, Answer, End, Returned
    <3>2. CASE UNCHANGED serverVars
      BY <3>2, NoneIsNoStatus DEF serverVars, TypeOK
    <3>3. ASSUME NEW r \in Requests, Receive(r)
          PROVE  status' # "SUCCESS"
      <4>1. status = None /\ status' \in {status, "NOSERVICE"}
        BY <3>3 DEF Receive, TypeOK
      <4>2. QED
        BY <4>1, NoneIsNoStatus
    <3>4. CASE HandlerOverdue \/ Send \/ Leave \/ Cancelled
      <4>1. status' \in {None, "SERVICE_TIMEOUT"}
        BY <3>4 DEF HandlerOverdue, Send, Leave, Cancelled, Answer, End
      <4>2. QED
        BY <4>1, NoneIsNoStatus
    <3>5. ASSUME NEW r \in Requests, ReceiveMalformed(r)
          PROVE  status' # "SUCCESS"
      BY <3>5, NoneIsNoStatus DEF ReceiveMalformed, TypeOK
    <3>6. QED
      BY <1>2, <3>1, <3>2, <3>3, <3>4, <3>5 DEF Next, Serve, Announce, RegisterService, Call,
         CallUnknown, ReceiveReply, GiveUp, Stop, Begin, HandlerReturns, HandlerExits, Shutdown
  <2>4. \A r \in Requests : replies'[r] = "SUCCESS" => Returned(r)'
    BY <2>1, <2>2 DEF SuccessInv
  <2>5. status' = "SUCCESS" => Returned(current)'
    BY <2>1, <2>3 DEF SuccessInv, Returned
  <2>6. QED
    BY <2>4, <2>5 DEF SuccessInv
<1>3. QED
  BY <1>1, <1>2

LEMMA AnswerInit == Init => AnswerInv
  BY TypeInit, NoneIsNoStatus DEF Init, AnswerInv, MadeInv, SuccessInv

LEMMA AnswerStep == AnswerInv /\ [Next]_vars => AnswerInv'
  BY TypeStep, MadeStep, SuccessStep DEF AnswerInv

-----------------------------------------------------------------------------
(* The refinement. *)

C == [r \in Requests |-> CallState(r)]
H == [r \in Requests |-> HandlerState(r)]

LEMMA CallMove ==
  ASSUME NEW r \in Requests, NEW s, CallState(r)' = s,
         \A q \in Requests \ {r} : client'[q] = client[q]
  PROVE  C' = [C EXCEPT ![r] = s]
<1>1. \A q \in Requests \ {r} : CallState(q)' = CallState(q)
  BY DEF CallState
<1>2. QED
  BY <1>1 DEF C

LEMMA HandlerMove ==
  ASSUME NEW r \in Requests, NEW s, HandlerState(r)' = s,
         \A q \in Requests \ {r} : task'[q] = task[q] /\ outcome'[q] = outcome[q]
  PROVE  H' = [H EXCEPT ![r] = s]
<1>1. \A q \in Requests \ {r} : HandlerState(q)' = HandlerState(q)
  BY DEF HandlerState
<1>2. QED
  BY <1>1 DEF H

LEMMA SameHandler ==
  ASSUME NEW r \in Requests, UNCHANGED outcome,
         \/ task'[r] = task[r]
         \/ {task[r], task'[r]} \subseteq {"none", "pending", "cancelled"}
         \/ {task[r], task'[r]} \subseteq {"running", "abandoned"}
  PROVE  HandlerState(r)' = HandlerState(r)
  BY DEF HandlerState

LEMMA RemoteStutter ==
  ASSUME UNCHANGED client, \A r \in Requests : HandlerState(r)' = HandlerState(r)
  PROVE  UNCHANGED Remote!vars
<1>1. \A r \in Requests : CallState(r)' = CallState(r)
  BY DEF CallState
<1>2. QED
  BY <1>1 DEF Remote!vars

LEMMA RemoteInit == Init => Remote!Init
<1> SUFFICES ASSUME Init
             PROVE  Remote!Init
  OBVIOUS
<1>1. \A r \in Requests : CallState(r) = "idle" /\ HandlerState(r) = "no"
  BY DEF Init, CallState, HandlerState
<1>2. QED
  BY <1>1 DEF Remote!Init

LEMMA RemoteClients ==
  ASSUME AnswerInv, NEW r \in Requests,
         Call(r) \/ CallUnknown(r) \/ ReceiveReply(r) \/ GiveUp(r)
  PROVE  Remote!Begin(r) \/ Remote!Succeed(r) \/ Remote!Fail(r)
<1> USE DEF AnswerInv
<1>1. H' = H
  <2>1. UNCHANGED <<task, outcome>>
    BY DEF Call, CallUnknown, ReceiveReply, GiveUp, poolVars
  <2>2. QED
    BY <2>1 DEF H, HandlerState
<1>2. \A q \in Requests \ {r} : client'[q] = client[q]
  BY DEF Call, CallUnknown, ReceiveReply, GiveUp, TypeOK
<1>3. C[r] = CallState(r) /\ H[r] = HandlerState(r)
  BY DEF C, H
<1>4. CASE Call(r)
  <2>1. CallState(r) = "idle" /\ CallState(r)' = "open"
    BY <1>4 DEF Call, CallState, TypeOK
  <2>2. QED
    BY <1>1, <1>2, <1>3, <2>1, CallMove DEF Remote!Begin, C, H
<1>5. CASE CallUnknown(r) \/ GiveUp(r)
  <2>1. CallState(r) \in {"idle", "open"} /\ CallState(r)' = "failed"
    BY <1>5 DEF CallUnknown, GiveUp, CallState, TypeOK
  <2>2. QED
    BY <1>1, <1>2, <1>3, <2>1, CallMove DEF Remote!Fail, C, H
<1>6. CASE ReceiveReply(r)
  <2>1. CallState(r) = "open"
    BY <1>6 DEF ReceiveReply, CallState
  <2>2. CASE replies[r] = "SUCCESS"
    <3>1. CallState(r)' = "ok"
      BY <1>6, <2>2 DEF ReceiveReply, CallState, TypeOK
    <3>2. HandlerState(r) = "returned"
      BY <2>2 DEF SuccessInv, Returned, HandlerState
    <3>3. QED
      BY <1>1, <1>2, <1>3, <2>1, <3>1, <3>2, CallMove DEF Remote!Succeed, C, H
  <2>3. CASE replies[r] # "SUCCESS"
    <3>1. client'[r] \in {"failed", "raised"}
      BY <1>6, <2>3 DEF ReceiveReply, TypeOK
    <3>2. CallState(r)' = "failed"
      BY <3>1 DEF CallState
    <3>3. QED
      BY <1>1, <1>2, <1>3, <2>1, <3>2, CallMove DEF Remote!Fail, C, H
  <2>4. QED
    BY <2>2, <2>3
<1>7. QED
  BY <1>4, <1>5, <1>6

LEMMA RemoteReceive ==
  ASSUME AnswerInv, NEW r \in Requests, Receive(r)
  PROVE  UNCHANGED Remote!vars
<1>1. UNCHANGED <<client, outcome>>
  BY DEF Receive, poolVars
<1>2. CASE UNCHANGED task
  BY <1>1, <1>2, RemoteStutter, SameHandler
<1>3. CASE Pool!Accept(r)
  <2>1. \A q \in Requests :
          task'[q] = task[q] \/ (task[q] = "none" /\ task'[q] = "pending")
    BY <1>3 DEF Pool!Accept, Pool!Moves, AnswerInv, TypeOK
  <2>2. QED
    BY <1>1, <2>1, RemoteStutter, SameHandler
<1>4. QED
  BY <1>2, <1>3 DEF Receive, poolVars

LEMMA RemoteMalformed ==
  ASSUME NEW r \in Requests, ReceiveMalformed(r)
  PROVE  UNCHANGED Remote!vars
<1>1. UNCHANGED <<client, task, outcome>>
  BY DEF ReceiveMalformed, poolVars
<1>2. QED
  BY <1>1, RemoteStutter, SameHandler

LEMMA RemoteServer ==
  ASSUME AnswerInv, HandlerDone \/ HandlerOverdue \/ Send \/ Leave \/ Cancelled
  PROVE  UNCHANGED Remote!vars
<1>1. UNCHANGED <<client, outcome>>
  BY DEF HandlerDone, HandlerOverdue, Send, Leave, Cancelled, clientVars, poolVars
<1>2. CASE UNCHANGED task
  BY <1>1, <1>2, RemoteStutter, SameHandler
<1>3. CASE Pool!Cancel(current)
  <2>1. \A q \in Requests :
          task'[q] = task[q] \/ (task[q] = "pending" /\ task'[q] = "cancelled")
    BY <1>3 DEF Pool!Cancel, Pool!Moves, AnswerInv, TypeOK
  <2>2. QED
    BY <1>1, <2>1, RemoteStutter, SameHandler
<1>4. QED
  BY <1>2, <1>3 DEF HandlerDone, HandlerOverdue, Send, Leave, Cancelled, CancelTask, poolVars

LEMMA RemotePool ==
  ASSUME AnswerInv, NEW r \in Requests,
         Begin(r) \/ HandlerReturns(r) \/ HandlerExits(r)
  PROVE  Remote!Run(r) \/ Remote!Finish(r) \/ UNCHANGED Remote!vars
<1> USE DEF AnswerInv
<1>1. UNCHANGED client
  BY DEF Begin, HandlerReturns, HandlerExits, clientVars
<1>2. C' = C
  BY <1>1 DEF C, CallState
<1>3. C[r] = CallState(r) /\ H[r] = HandlerState(r)
  BY DEF C, H
<1>4. \A q \in Requests \ {r} : task'[q] = task[q] /\ outcome'[q] = outcome[q]
  BY DEF Begin, HandlerReturns, HandlerExits, Pool!Call, Pool!Moves, TypeOK
<1>5. CASE Begin(r)
  <2>1. task[r] = "pending" /\ task'[r] = "running"
    BY <1>5 DEF Begin, Pool!Call, Pool!Moves, TypeOK
  <2>2. HandlerState(r) = "no" /\ HandlerState(r)' = "running"
    BY <2>1 DEF HandlerState
  <2>3. client[r] \in {"waiting", "ok", "failed", "raised"}
    BY <2>1 DEF MadeInv, TypeOK
  <2>4. CallState(r) # "idle"
    BY <2>3 DEF CallState
  <2>5. QED
    BY <1>2, <1>3, <1>4, <2>2, <2>4, HandlerMove DEF Remote!Run, C, H
<1>6. CASE HandlerReturns(r)
  <2>1. task[r] = "running" /\ task'[r] = "done"
    BY <1>6 DEF HandlerReturns, Pool!Moves, TypeOK
  <2>2. HandlerState(r) = "running"
    BY <2>1 DEF HandlerState
  <2>3. HandlerState(r)' \in {"returned", "raised"}
    BY <2>1 DEF HandlerState
  <2>4. H' = [H EXCEPT ![r] = HandlerState(r)']
    BY <1>4, HandlerMove
  <2>5. QED
    BY <1>2, <1>3, <2>2, <2>3, <2>4 DEF Remote!Finish, C, H
<1>7. CASE HandlerExits(r)
  <2>1. task[r] = "running" /\ task'[r] = "abandoned" /\ UNCHANGED outcome
    BY <1>7 DEF HandlerExits, Pool!Moves, TypeOK
  <2>2. \A q \in Requests : HandlerState(q)' = HandlerState(q)
    BY <1>4, <2>1, SameHandler
  <2>3. QED
    BY <1>1, <2>2, RemoteStutter
<1>8. QED
  BY <1>5, <1>6, <1>7

LEMMA RemoteStep == AnswerInv /\ [Next]_vars => [Remote!Next]_(Remote!vars)
<1> SUFFICES ASSUME AnswerInv, [Next]_vars
             PROVE  [Remote!Next]_(Remote!vars)
  OBVIOUS
<1>1. CASE UNCHANGED <<client, task, outcome>>
  BY <1>1, RemoteStutter, SameHandler
<1>2. CASE \/ Shutdown \/ (stop # "done" /\ Stop)
           \/ \E n \in Names : Announce(n) \/ RegisterService(n)
           \/ UNCHANGED vars
  <2>1. UNCHANGED <<client, task, outcome>>
    BY <1>2 DEF Shutdown, Stop, Announce, RegisterService, vars, clientVars, poolVars,
                Pool!Close, Pool!Drain
  <2>2. QED
    BY <1>1, <2>1
<1>3. ASSUME NEW r \in Requests, Call(r) \/ CallUnknown(r) \/ ReceiveReply(r) \/ GiveUp(r)
      PROVE  Remote!Next
  BY <1>3, RemoteClients DEF Remote!Next
<1>4. ASSUME NEW r \in Requests, Begin(r) \/ HandlerReturns(r) \/ HandlerExits(r)
      PROVE  [Remote!Next]_(Remote!vars)
  BY <1>4, RemotePool DEF Remote!Next
<1>5. QED
  BY <1>2, <1>3, <1>4, RemoteReceive, RemoteMalformed, RemoteServer DEF Next, Serve

(***************************************************************************)
(* Services are RemoteCalls: at most one run of its handler per request,   *)
(* and no success but with the value that the handler has returned.        *)
(***************************************************************************)
THEOREM Refinement == Spec => RemoteCallSpec
  BY AnswerInit, AnswerStep, RemoteInit, RemoteStep, PTL DEF Spec, RemoteCallSpec, Remote!Spec
=============================================================================
