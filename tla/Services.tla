------------------------------ MODULE Services ------------------------------
(***************************************************************************)
(* Services of one node: the ServiceManager with its REP socket and its    *)
(* coroutine service_loop (src/src/pyzlc/sockets/service_manager.py), the  *)
(* handlers it runs on the thread pool, and send_request on the clients'   *)
(* side (src/src/pyzlc/utils/msg.py).  The pool is an Executor, which is   *)
(* what module ThreadPool implements, of MaxWorkers threads.               *)
(*                                                                         *)
(* A client opens a socket for each request, so a request stands for its   *)
(* socket too.  The server answers one request at a time, and awaits its   *)
(* handler no longer than two seconds; the handler itself is never         *)
(* interrupted.  Timeouts may fire at any moment.  A handler may call a    *)
(* service of the same node: its inner request then waits behind it.       *)
(***************************************************************************)
EXTENDS Integers, FiniteSets

CONSTANTS
  Requests,     \* calls of services
  Names,        \* services
  Service,      \* the service that a request names
  Inner,        \* the request that its handler makes, or None
  Malformed,    \* requests that may come without two frames or a name
  Stuck,        \* requests whose handler may never return
  MayEnd,       \* the ways in which the handler of a request may return
  MaxWorkers,   \* threads of the pool
  None

Outcomes == {"returned", "unpackable", "raised", "runtime_error", "timeout_error"}
Statuses == {"SUCCESS", "EMPTY", "NOSERVICE", "SERVICE_TIMEOUT", "UNKNOWN_ERROR"}

ASSUME ServicesAssumption ==
  /\ Service \in [Requests -> Names]
  /\ Inner \in [Requests -> Requests \cup {None}]
  /\ MayEnd \in [Requests -> (SUBSET Outcomes) \ {{}}]
  /\ None \notin Requests \cup Statuses
  /\ IsFiniteSet(Requests)
  /\ MaxWorkers \in Nat \ {0}

VARIABLES
  service,    \* name -> "none", "announced" (in local_node_info), "callable"
  client,     \* request -> where its send_request is, or how it has ended
  early,      \* history: requests made before their service was callable
  wire,       \* requests the server's socket has not yet handed out
  replies,    \* request -> the status of the answer that is on its way
  loop,       \* service_loop: "poll", "await", "send", "jammed" or "ended"
  current,    \* the request it has received and not answered
  status,     \* what it is about to answer
  stop,       \* stop(): "no", then what it has done: "flag", "closed", "done"
  task,       \* request -> its task in the pool, as in Executor
  outcome,    \* request -> how its handler ended
  open,       \* the pool, as in Executor
  drained

clientVars == <<client, early, wire>>
serverVars == <<loop, current, status>>
poolVars == <<task, outcome, open, drained>>
vars == <<service, clientVars, replies, serverVars, stop, poolVars>>

(* An answer is on its way only to a socket that is open. *)
TypeOK ==
  /\ service \in [Names -> {"none", "announced", "callable"}]
  /\ client \in [Requests -> {"idle", "waiting", "ok", "failed", "raised"}]
  /\ early \subseteq Requests
  /\ wire \subseteq Requests
  /\ replies \in [Requests -> Statuses \cup {None}]
  /\ \A r \in Requests : replies[r] # None => client[r] = "waiting"
  /\ loop \in {"poll", "await", "send", "jammed", "ended"}
  /\ current \in Requests \cup {None}
  /\ current = None <=> loop \in {"poll", "jammed", "ended"}
  /\ status \in Statuses \cup {None}
  /\ status = None <=> loop # "send"
  /\ stop \in {"no", "flag", "closed", "done"}
  /\ task \in [Requests ->
       {"none", "pending", "running", "done", "cancelled", "abandoned"}]
  /\ outcome \in [Requests -> Outcomes \cup {None}]
  /\ open \in BOOLEAN
  /\ drained \in BOOLEAN

Init ==
  /\ service = [n \in Names |-> "none"]
  /\ client = [r \in Requests |-> "idle"]
  /\ early = {}
  /\ wire = {}
  /\ replies = [r \in Requests |-> None]
  /\ loop = "poll"
  /\ current = None
  /\ status = None
  /\ stop = "no"
  /\ task = [r \in Requests |-> "none"]
  /\ outcome = [r \in Requests |-> None]
  /\ open = TRUE
  /\ drained = FALSE

Pool == INSTANCE Executor WITH Tasks <- Requests

-----------------------------------------------------------------------------
(* register_service_handler. *)

(* register_local_service: from now on peers can learn of the service. *)
Announce(n) ==
  /\ service[n] = "none"
  /\ service' = [service EXCEPT ![n] = "announced"]
  /\ UNCHANGED <<clientVars, replies, serverVars, stop, poolVars>>

(* register_service: only now the server has a handler for it. *)
RegisterService(n) ==
  /\ service[n] = "announced"
  /\ service' = [service EXCEPT ![n] = "callable"]
  /\ UNCHANGED <<clientVars, replies, serverVars, stop, poolVars>>

-----------------------------------------------------------------------------
(* Clients: zlc_request_async and send_request. *)

(* A handler makes its inner request while it runs, others come at any time. *)
MayCall(r) == \A o \in Requests : Inner[o] = r => task[o] = "running"

Call(r) ==
  /\ client[r] = "idle"
  /\ MayCall(r)
  /\ service[Service[r]] # "none"
  /\ client' = [client EXCEPT ![r] = "waiting"]
  /\ early' = IF service[Service[r]] = "callable" THEN early ELSE early \cup {r}
  /\ wire' = wire \cup {r}
  /\ UNCHANGED <<service, replies, serverVars, stop, poolVars>>

(* The caller's registry does not have the service, or not yet. *)
CallUnknown(r) ==
  /\ client[r] = "idle"
  /\ MayCall(r)
  /\ client' = [client EXCEPT ![r] = "failed"]
  /\ UNCHANGED <<service, early, wire, replies, serverVars, stop, poolVars>>

(* Not the code: any answer at all counts as success. *)
ReceiveAnyReply(r) ==
  /\ client[r] = "waiting"
  /\ replies[r] # None
  /\ client' = [client EXCEPT ![r] = "ok"]
  /\ replies' = [replies EXCEPT ![r] = None]
  /\ UNCHANGED <<service, early, wire, serverVars, stop, poolVars>>

(***************************************************************************)
(* An error status becomes the result None, like a timeout.  An empty body *)
(* has the status SUCCESS, but msgpack.unpackb raises on it.               *)
(***************************************************************************)
ReceiveReply(r) ==
  /\ client[r] = "waiting"
  /\ replies[r] # None
  /\ client' = [client EXCEPT ![r] =
       CASE replies[r] = "SUCCESS" -> "ok"
         [] replies[r] = "EMPTY" -> "raised"
         [] OTHER -> "failed"]
  /\ replies' = [replies EXCEPT ![r] = None]
  /\ UNCHANGED <<service, early, wire, serverVars, stop, poolVars>>

(* Not the code: the socket is left open. *)
GiveUpLeavesSocket(r) ==
  /\ client[r] = "waiting"
  /\ client' = [client EXCEPT ![r] = "failed"]
  /\ UNCHANGED <<service, early, wire, replies, serverVars, stop, poolVars>>

(***************************************************************************)
(* The timeout is over: the socket is closed, and what it has sent may     *)
(* have reached the server.  The timer is one of the caller's own event    *)
(* loop; nothing makes it fire when that loop has been closed.             *)
(***************************************************************************)
GiveUp(r) ==
  /\ client[r] = "waiting"
  /\ client' = [client EXCEPT ![r] = "failed"]
  /\ wire' \in {wire, wire \ {r}}
  /\ replies' = [replies EXCEPT ![r] = None]
  /\ UNCHANGED <<service, early, serverVars, stop, poolVars>>

-----------------------------------------------------------------------------
(* The server: service_loop and _handle_request. *)

Running == stop = "no"
Open == stop \in {"no", "flag"}     \* res_socket is not closed

(***************************************************************************)
(* poll and recv_multipart.  A request of a client that has given up is    *)
(* received like any other.  Without a handler the answer is NOSERVICE;    *)
(* otherwise the handler is handed to the pool.                            *)
(***************************************************************************)
Receive(r) ==
  /\ loop = "poll"
  /\ Open
  /\ r \in wire
  /\ wire' = wire \ {r}
  /\ current' = r
  /\ \/ /\ service[Service[r]] # "callable"
        /\ loop' = "send"
        /\ status' = "NOSERVICE"
        /\ UNCHANGED poolVars
     \/ /\ service[Service[r]] = "callable"
        /\ loop' = "await"
        /\ Pool!Accept(r)
        /\ UNCHANGED <<status, outcome>>
  /\ UNCHANGED <<service, client, early, replies, stop>>

(***************************************************************************)
(* Unpacking the frames or decoding the name of the service raises.  While *)
(* the server runs the exception is logged and nothing is sent.  A REP     *)
(* socket that owes an answer hands out no further request, so from now on *)
(* poll finds nothing: the loop is jammed.                                 *)
(***************************************************************************)
ReceiveMalformed(r) ==
  /\ r \in Malformed
  /\ loop = "poll"
  /\ Open
  /\ r \in wire
  /\ wire' = wire \ {r}
  /\ loop' = IF Running THEN "jammed" ELSE "ended"
  /\ UNCHANGED <<service, client, early, replies, current, status, stop, poolVars>>

Answer(s) ==
  /\ loop' = "send"
  /\ status' = s
  /\ UNCHANGED current

End ==
  /\ loop' = "ended"
  /\ current' = None
  /\ status' = None

StatusOf(o) ==
  CASE o = "returned" -> "SUCCESS"
    [] o = "unpackable" -> "EMPTY"
    [] o = "timeout_error" -> "SERVICE_TIMEOUT"
    [] OTHER -> "UNKNOWN_ERROR"

(* Not the code: a RuntimeError of the handler is always passed on. *)
HandlerDoneUncaught ==
  /\ loop = "await"
  /\ task[current] = "done"
  /\ IF outcome[current] = "runtime_error"
       THEN /\ loop' = IF Running THEN "jammed" ELSE "ended"
            /\ current' = None
            /\ status' = None
       ELSE Answer(StatusOf(outcome[current]))
  /\ UNCHANGED <<service, clientVars, replies, stop, poolVars>>

(* The result of the handler.  A RuntimeError ends a loop that is stopped. *)
HandlerDone ==
  /\ loop = "await"
  /\ task[current] = "done"
  /\ IF outcome[current] = "runtime_error" /\ ~ Running THEN End
     ELSE Answer(StatusOf(outcome[current]))
  /\ UNCHANGED <<service, clientVars, replies, stop, poolVars>>

(* A task that no worker has taken yet is cancelled, another one goes on. *)
CancelTask ==
  \/ Pool!Cancel(current)
  \/ task[current] # "pending" /\ UNCHANGED <<task, open, drained>>

(* Not the code: the handler is awaited for as long as it takes. *)
HandlerOverdueNever ==
  /\ loop = "await" /\ ~ Running
  /\ CancelTask
  /\ Answer("SERVICE_TIMEOUT")
  /\ UNCHANGED <<service, clientVars, replies, stop, outcome>>

(* Not the code: a service that was too slow is taken off the services. *)
HandlerOverdueDeregisters ==
  /\ loop = "await"
  /\ CancelTask
  /\ Answer("SERVICE_TIMEOUT")
  /\ service' = [service EXCEPT ![Service[current]] = "announced"]
  /\ UNCHANGED <<clientVars, replies, stop, outcome>>

(* wait_for: two seconds are over. *)
HandlerOverdue ==
  /\ loop = "await"
  /\ CancelTask
  /\ Answer("SERVICE_TIMEOUT")
  /\ UNCHANGED <<service, clientVars, replies, stop, outcome>>

(* The answer to a client that has given up is dropped by the socket. *)
Send ==
  /\ loop = "send"
  /\ Open
  /\ loop' = "poll"
  /\ current' = None
  /\ status' = None
  /\ replies' = [r \in Requests |->
       IF r = current /\ client[r] = "waiting" THEN status ELSE replies[r]]
  /\ UNCHANGED <<service, clientVars, stop, poolVars>>

(* Not the code: the loop ends by its test of _running only. *)
LeaveAtTest ==
  /\ loop \in {"poll", "jammed"} /\ ~ Running
  /\ End
  /\ UNCHANGED <<service, clientVars, replies, stop, poolVars>>

(***************************************************************************)
(* The loop ends: at its next test of _running, or by the exception that a *)
(* closed socket raises or the cancellation of a poll.                     *)
(***************************************************************************)
Leave ==
  /\ \/ loop \in {"poll", "jammed"} /\ ~ Running
     \/ loop = "send" /\ ~ Open
  /\ End
  /\ UNCHANGED <<service, clientVars, replies, stop, poolVars>>

(* The cancellation of the service loop, delivered while a handler is awaited. *)
Cancelled ==
  /\ loop = "await"
  /\ stop = "done"
  /\ CancelTask
  /\ End
  /\ UNCHANGED <<service, clientVars, replies, stop, outcome>>

(* stop(): _running is cleared, the socket closed, the future cancelled. *)
Stop ==
  /\ stop' = CASE stop = "no" -> "flag"
               [] stop = "flag" -> "closed"
               [] stop = "closed" -> "done"
  /\ UNCHANGED <<service, clientVars, replies, serverVars, poolVars>>

-----------------------------------------------------------------------------
(* The thread pool. *)

(* A thread that a handler has taken down is never replaced. *)
Occupied == {r \in Requests : task[r] \in {"running", "abandoned"}}

Begin(r) ==
  /\ Cardinality(Occupied) < MaxWorkers
  /\ Pool!Call(r)
  /\ UNCHANGED <<service, clientVars, replies, serverVars, stop, outcome>>

(* A handler that makes an inner call is blocked until that has returned. *)
Blocked(r) == Inner[r] # None /\ client[Inner[r]] \in {"idle", "waiting"}

HandlerReturns(r) ==
  /\ ~ Blocked(r)
  /\ Pool!Moves(r, "running", "done")
  /\ \E o \in MayEnd[r] : outcome' = [outcome EXCEPT ![r] = o]
  /\ UNCHANGED <<service, clientVars, replies, serverVars, stop>>

(* SystemExit takes the worker thread down. *)
HandlerExits(r) ==
  /\ r \in Stuck
  /\ Pool!Moves(r, "running", "abandoned")
  /\ UNCHANGED <<service, clientVars, replies, serverVars, stop, outcome>>

(* shutdown, after the node has been stopped. *)
Shutdown ==
  /\ stop = "done"
  /\ (open /\ Pool!Close) \/ Pool!Drain
  /\ UNCHANGED <<service, clientVars, replies, serverVars, stop, outcome>>

-----------------------------------------------------------------------------

Serve == HandlerDone \/ HandlerOverdue \/ Send \/ Leave \/ Cancelled

Next ==
  \/ \E n \in Names : Announce(n) \/ RegisterService(n)
  \/ \E r \in Requests :
       \/ Call(r) \/ CallUnknown(r) \/ ReceiveReply(r) \/ GiveUp(r)
       \/ Receive(r) \/ ReceiveMalformed(r)
       \/ Begin(r) \/ HandlerReturns(r) \/ HandlerExits(r)
  \/ Serve
  \/ stop # "done" /\ Stop
  \/ ~ drained /\ Shutdown

Spec == Init /\ [][Next]_vars

(***************************************************************************)
(* The server's loop is scheduled, its two-second timer fires, and stop    *)
(* goes on once it has begun.  The REP socket takes its requests from all  *)
(* clients in turn, so none is passed over for ever (strong).  Nothing is  *)
(* assumed of the callers, of the handlers and of the pool's threads.      *)
(***************************************************************************)
FairSpec ==
  /\ Spec
  /\ WF_vars(Serve)
  /\ WF_vars(stop \in {"flag", "closed"} /\ Stop)
  /\ \A r \in Requests : SF_vars(Receive(r))

-----------------------------------------------------------------------------

HandlerState(r) ==
  CASE task[r] \in {"running", "abandoned"} -> "running"
    [] task[r] = "done" -> IF outcome[r] = "returned" THEN "returned" ELSE "raised"
    [] OTHER -> "no"

CallState(r) ==
  CASE client[r] = "waiting" -> "open"
    [] client[r] = "raised" -> "failed"
    [] OTHER -> client[r]

Remote == INSTANCE RemoteCall WITH
  Calls <- Requests,
  call <- [r \in Requests |-> CallState(r)],
  handler <- [r \in Requests |-> HandlerState(r)]

(***************************************************************************)
(* Calls are RemoteCalls: the handler of a request runs at most once, and  *)
(* a call succeeds only with what its own handler has returned, although   *)
(* handlers outlive their timeout, late answers meet closed sockets, and   *)
(* requests of clients that have given up are served.                      *)
(***************************************************************************)
RemoteCallSpec == Remote!Spec

(***************************************************************************)
(* A request is answered NOSERVICE only if it was made between the two     *)
(* halves of register_service_handler, which announces a service before    *)
(* the server has its handler.                                             *)
(***************************************************************************)
RefusedOnlyWhileRegistering ==
  \A r \in Requests :
    "NOSERVICE" \in {replies[r], IF current = r THEN status ELSE None} => r \in early

(***************************************************************************)
(* A malformed request was received.  After it service_loop receives and   *)
(* answers nothing, so the next two properties exempt it, and only it: an  *)
(* exception of a handler must not have that effect.                       *)
(***************************************************************************)
Jammed == loop = "jammed" /\ \E r \in Malformed : client[r] # "idle"

(***************************************************************************)
(* The server goes on: as long as it is not stopped every request is       *)
(* received, whatever the handlers before it did: raise, never return,     *)
(* take all workers with them, or wait for a request behind themselves.    *)
(***************************************************************************)
EveryRequestIsReceived ==
  \A r \in Requests : r \in wire ~> r \notin wire \/ ~ Running \/ Jammed

(***************************************************************************)
(* A client that goes on waiting gets an answer: SUCCESS, or an error that *)
(* says what happened, also when its handler raises, has no thread to run  *)
(* on, or runs on for ever.                                                *)
(***************************************************************************)
EveryRequestIsAnswered ==
  \A r \in Requests :
    client[r] = "waiting" ~>
      replies[r] # None \/ client[r] # "waiting" \/ ~ Running \/ Jammed

(* service_loop ends after a stop, whatever it was waiting for. *)
StoppedServerEnds == stop # "no" ~> loop = "ended"
=============================================================================
