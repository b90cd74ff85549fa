# pyzlc in TLA+

A verification project for **pyzlc** (`src/`), a Python library with which processes on a LAN find
each other by UDP multicast and exchange topics and services over ZeroMQ.

## 1. The system

| Component | Source (under `src/src/pyzlc/`) | State | Operations | Runs on |
|---|---|---|---|---|
| Registry of nodes | `nodes/nodes_info_manager.py` | `nodes_info`, `nodes_info_id`, `nodes_heartbeat`, `unreplyed_heartbeats`, `local_node_info`, event handlers | `handle_heartbeat_async`, `update_node`, `remove_node`, `check_heartbeat`, `register_local_*`, `get_*` | the event loop; registrations and look-ups on any thread |
| Multicast worker | `nodes/multicast.py` | stop event, two threads | `_multicast_loop`, `_discovery_loop`, `_handle_datagram`, `start`, `stop` | a sender and a receiver thread |
| Thread pool | `nodes/loop_manager.py` (`DaemonThreadPoolExecutor`) | work queue, threads, shutdown flag | `submit`, `_worker`, `shutdown` | any thread; three workers |
| Loop manager | `nodes/loop_manager.py` (`TaskLoopManager`) | the singleton, the loop, `_running`, `_stopped_event`, locks | `get_instance`, `spin_task`, `spin`, `stop`, `submit_*` | one daemon thread; any caller |
| Service server | `sockets/service_manager.py` | REP socket, handlers | `service_loop`, `_handle_request`, `register_service`, `stop` | the event loop; handlers on the pool |
| Service client | `sockets/service_client.py`, `utils/msg.py` (`send_request`) | one REQ socket per request | `call`, `async_call` | the event loop |
| Publishers | `sockets/publisher.py` | PUB sockets, streamer task | `publish`, `_update_loop` | any thread; the event loop |
| Subscribers | `sockets/subscriber_manager.py`, `utils/event.py` | subscribers by topic, connected URLs | `add_subscriber`, `check_new_node`, receive loops | any thread; the event loop |
| Node life cycle | `nodes/lancom_node.py`, `__init__.py` | `node_instances`, `default_instance` | `init`, `start_node`, `stop_node`, `shutdown` | user threads, `atexit` |
| Codecs | `utils/msg.py`, `utils/node_info.py` | none | heartbeat and node-info encoding, subnet test | - |

How they interact: the sender thread multicasts (node ID, infoID, service port, group) every 0.5 s.
The receiver thread of every node hands a heartbeat that passes its filters to the loop as a
coroutine, which asks the sender's service port for `get_node_info` when the infoID is news, stores
the answer in the registry and emits the update event; the subscriber manager is a handler of that
event. The service server answers requests on the loop and runs handlers on the thread pool;
`get_node_info` is such a handler, so a node's `local_node_info` is read by a pool thread while user
threads append to it. `call`, `add_subscriber`, `register_*` and `shutdown` come from user threads.
There are three locks (the pool's, the loop manager's `_instance_lock` and `_stop_lock`); the
registry, the subscribers and the life cycle have none.

What is hard about it:

- *concurrency*: user threads, two multicast threads, three pool threads and the loop share
  dictionaries and flags; coroutines are suspended at requests while others run;
- *the network*: heartbeats are lost and reordered, requests are answered late, by another process,
  or not at all; nodes vanish and come back under a new ID, on an old port;
- *failure*: an exception may end a coroutine or a thread that nobody restarts;
- *ending*: stop, cancellation and `loop.stop` race with everything else.

What makes each component correct:

- *registry*: a stored infoID never promises more than the stored information; entries are honest,
  converge to what a node has, never become older than they were when the request that brings them
  was sent, and go when the node goes; the dictionaries agree;
- *multicast worker*: only members of the group get in; the sender goes on;
- *thread pool*: a function is called at most once, not after its cancellation; shutdown waits for
  what was accepted, and returns; what an open pool accepts is run;
- *loop manager*: one loop at a time; nothing of an old manager is left; stop has stopped when it
  returns; nothing keeps it but a task that does not end; a call made to a loop that goes on gets its
  result;
- *services*: a handler runs at most once per call and answers its own call only; the server goes on
  and answers whatever its handlers do; a stopped server ends;
- *subscribers*: what the registry knows is connected, once; stop closes everything;
- *life cycle*: whatever runs can be found and stopped; shutdown may be called more than once, does
  not raise, and nothing runs when it returns;
- *codecs*: decoding undoes encoding for every value that fits the fields, and data that were cut are
  not taken for something else.

## 2. Modules

| Module | Models | Composes |
|---|---|---|
| `NodesInfoManager` | the registry of one node in an open environment | |
| `Discovery` | remote nodes, the LAN, requests, and one registry | `NodesInfoManager` |
| `PeerDirectory` | abstract: what a registry promises | |
| `DiscoveryProofs` | theorems about the two | |
| `ThreadPool` | `DaemonThreadPoolExecutor` | |
| `Executor` | abstract: what a pool promises | |
| `ThreadPoolProofs` | theorems about it | |
| `LoopManager` | `TaskLoopManager`, its callers, and the asyncio loop | |
| `LoopSessions` | abstract: managers that are made, closed and given up in turn | |
| `LoopManagerProofs` | theorems about it | |
| `Subscriptions` | `SubscriberManager` for one topic, the event, user threads | |
| `SubscriptionsProofs` | theorems about it | |
| `Services` | `ServiceManager`, its handlers on the pool, `send_request` and its callers | `Executor` |
| `RemoteCall` | abstract: what a caller of a service relies on | |
| `ServicesProofs` | theorems about the two | |
| `Lifecycle` | `init` and `shutdown`, `LanComNode` and its class variables, several threads | |
| `LifecycleProofs` | theorems about it | |
| `Codecs` | the byte formats of node information and heartbeats | |
| `CodecsProofs` | theorems about it | |
| `MC*` | constants of the instances that TLC checks | each its module |

An operator with the comment "Not the code" is a plausible mistake in the operator that follows it.
It is used by no specification; replacing the code's operator by it shows that a property notices.

### Registry and discovery

`nodes_info`, `nodes_info_id` and `nodes_heartbeat` are the dictionaries, with `Absent` for a key
that is missing. Topics and services are only ever appended, so `nodes_info` holds how many sockets
an entry lists. `fetches` are the coroutines suspended in `handle_heartbeat_async`, which has one
await: `HeartbeatKnown` and `HeartbeatNews` are the code before it, `FetchReturns` and `FetchFails`
the code after it. `CheckHeartbeatRemoves` and `CheckHeartbeatRaises` are a pass of
`check_heartbeat`. These run on the loop thread, so each is one action. Times are ages that `Tick`
increases. `Discovery` adds the remote nodes: `Register` takes three steps for each thread, append,
read `infoID`, write it, because `infoID += 1` is not locked and `get_node_info` is packed on another
thread (`adding` is where a thread is; the history variable `lowered` remembers that an `infoID` went
back); the packer holds the interpreter lock (and packs `infoID` first), so `Serve` reads a node in
one step. `PortOf` says which nodes share a service port. The history variable `known` keeps, for
each suspended fetch, the infoIDs that were stored when it began. All observers are alike and do not
influence one another, so one is enough.

### Thread pool

`submit` and `shutdown` hold the lock and are one action each. A worker is a program counter: `Get`
or `GetTimesOut` (`queue.Empty`), `PollShutdown`, `Begin` or `SkipCancelled`
(`set_running_or_notify_cancel`), `Resolve` or `Raise`, `Finally` (`task_done`). `Executor` has one
state per task: accepted, called, over, cancelled, or abandoned by an exception that nobody catches.

### Loop manager

A thread's program counter says where it is in `get_instance`, `submit_loop_task_and_wait` or `stop`;
every read or write of shared state is a step. The asyncio loop runs its `ready` callbacks in
iterations (`todo` is what is left of the current one); `loop.stop()` is a callback too, and lets the
iteration end. A submitted coroutine is a job: its first callback makes the task, the task runs to an
await or its end, and its done callback, one iteration later, sets the caller's future. `stop` shuts
the executor in two steps: it accepts nothing more (`ShutExecutor`), then `Queue.join` waits
(`JoinExecutor`), holding `_stop_lock`, until no accepted task is `unfinished`. Tasks come at any
time and need never end (`PoolAccepts`, `PoolFinishes`). `LoopSessions` is what other components rely
on of it: no threads, no locks, only which manager is the singleton and which loops are closed. A
manager counts as made when `__init__` has returned.

### Subscriptions

One topic. A call of `add_subscriber` is a program counter: the iteration of `get_publisher_info`
over `nodes_info` (`BeginScan`, `Visit`, `ScanEnds`, or `ScanRaises` when the dictionary changes
size), then `Enter`. The update event is emitted by the loop thread or by a thread that registers a
local publisher; `check_new_node` is `Check` and `Connect` per topic. The history variable `late`
remembers the publishers whose event came while a call was running. The environment may put any
information of a node into the registry, so this includes every registry `Discovery` can reach. The
rehash of a dictionary that loses and gains a node within one iteration is not modelled.

### Services

A request is one call of `send_request`, which opens a socket of its own; `wire` is what the server's
REP socket has not handed out, `replies` what is on its way back. `service_loop` is at its poll, at
the await of a handler, or about to send: `Receive` is poll, `recv_multipart` and the first part of
`_handle_request` (on the loop thread without an await that matters), `HandlerDone`, `HandlerOverdue`
and `Cancelled` are the ways in which `wait_for` ends, `Send` the answer. A `RuntimeError` of a
handler ends a loop that is stopped and is an `UNKNOWN_ERROR` otherwise, a `TimeoutError` raised by
the handler looks like the timeout, a body that does not unpack comes back as an empty answer with
status `SUCCESS`, on which the client's `unpackb` raises. A request that is not two frames, or whose
name does not decode (`Malformed`), raises before there is anything to answer; the loop logs it and
polls on, but its REP socket owes an answer and hands out nothing more (`ReceiveMalformed`, state
"jammed"). `stop` takes three steps, any of which may come between two steps of the loop. The pool is
an `Executor`, used by the handlers only, with `MaxWorkers` threads; a handler that has timed out
keeps its thread, one that raises `SystemExit` takes it along. `Inner` names the request that a
handler makes itself: it runs on a pool thread and waits for the loop, which waits for it.
`register_service_handler` is `Announce` (`register_local_service`), then `RegisterService`. `early`
remembers the requests that were made between the two.

### Node life cycle

A thread's program counter says where it is in `init` or `shutdown`; every read or write of
`node_instances`, `default_instance` and `TaskLoopManager.instance` is a step, also the second read
behind a test (`TestDefault` and `SetDefault`, `TestManager` and `GetManager`). The two tests in
`init` are one step, and of the three look-ups before the registration of `get_node_info` only the
deciding one is kept. A node's services, heartbeat check and multicast threads are running or not;
`beats` counts the heartbeat checks because a second `start_node` would start another. Of the loop
manager `Lifecycle` keeps which loops are closed, and implements `LoopSessions` too, so that what the
two modules say of managers is the same. `Lifecycle` states safety only: that a stop may not return,
because its signal was lost or a task of the executor does not end, is left to `LoopManager`.
`overlaps` remembers which kinds of calls have ever overlapped: inits of one group, an init and a
shutdown, or shutdowns.

### Codecs

A message is encoded, arrives whole or cut (`Arrive`), and is decoded. The calls of `BinWriter` are
the steps of `encode_node_info`, those of `BinReader` the steps of `decode_node_info`: `field` is the
field that comes next and `left` the number of sockets that the loop over a list has still to do, so
both sides go through the same fields in the same order. `pos` is `BinReader.pos`. `struct.pack`
raises on a value that does not fit (`PackRaises`), `unpack_from` beyond the end of the data
(`UnpackRaises`); a slice is only shorter, while `pos` moves on. A heartbeat is one `struct.pack` and
one `struct.unpack`; what is left behind the header is the group's name. Numbers have 2 and 4 bytes
as in the code; how many values a byte has, and the length of an ID, are parameters. Strings are
bytes: that a cut character does not decode only makes more decodings fail. `marks` is a history
variable, read by the proofs only: where the writer was when it came to each field.
`encode_node_info` and `decode_node_info` are called by `tests/test_node_info_coder.py` only: a node
answers `get_node_info` with msgpack.

## 3. What TLC checks

| Run | Shows |
|---|---|
| `discovery_reuse` | the registry's dictionaries agree; every copy of a node's information is honest; `Discovery` implements `PeerDirectory`. Two nodes share a port, two fetches overlap |
| `discovery_members` | an equal infoID means nothing is missing, although two threads register at once and lose increments; only members are registered |
| `discovery_live` | two fetches that overtake each other store nothing older than what was stored when the answered request was sent; a sending node is registered with all it has, again and again; a silent one is forgotten |
| `discovery_monitor` | **violated**: `check_heartbeat` ends with a KeyError when a node falls silent that was never fetched |
| `pool` | `ThreadPool` implements `Executor`; an open pool is served; accepted tasks run as long as a worker is left |
| `loop` | `LoopManager` implements `LoopSessions`; one loop, no leftovers, stop has stopped; a signalled stop returns unless it waits for a task that never ends; a caller gets its result or the loop gets closed |
| `loop_stop_lost` | **violated**: a stop just after `get_instance` made the loop waits for ever |
| `subscriptions` | only publishers whose event comes while `add_subscriber` runs are missed; later and earlier ones are connected |
| `subscriptions_missed` | **violated**: a publisher registered while `add_subscriber` runs is not connected |
| `services` | `Services` implements `RemoteCall`; NOSERVICE is answered only to calls made during the registration; every request is received, and every client that goes on waiting is answered, whatever the handlers do, unless a malformed request has jammed the server; a stopped server ends |
| `lifecycle` | no orphaned nodes and no dangling default node, unless `init` overlaps another one of its group or a shutdown; a shutdown on its own does not raise; one that returns has stopped everything; `Lifecycle` implements `LoopSessions` |
| `codecs` | round trip; cut node information never decodes; a cut heartbeat is not accepted by its group |

**Bounds.** `MaxInfoID` (2 to 4) bounds the registrations of a node; 2 is enough for a torn snapshot,
3 for two versions that overtake each other and for a lost increment of two threads, 4 for an infoID
that goes back: one thread reads it, the other increments it twice, the first one writes.
`OfflineAfter` is one tick: only being above it matters. Two nodes are enough for a reused port, for
a member and a stranger; one for convergence, since entries are independent. Two fetches are enough
for one to overtake the other. Two workers and four tasks give a busy and an idle worker with tasks
behind them; two of the tasks may kill their worker, so one or both are killed. Two user threads and
three managers give a thread that uses an old manager while another makes a new one, and a third life
after that. Two calls, one remote and one local publisher give a replaced subscription and events on
two threads. Three requests for one service and one worker are a handler that makes a call of its
own, a call that waits behind a stuck handler, and the call made inside; with one worker the pool is
starved as soon as one handler hangs. One of the three may be malformed. Two threads, groups, nodes
and managers give overlapping inits of the same and of different groups, a shutdown during an init,
two shutdowns, and a second life; three threads with one group and three nodes with two threads were
checked once and showed nothing new. For the codecs, bytes of one bit (so strings of up to 3 bytes,
2-byte numbers up to 3 and 4-byte numbers up to 15) put every field at its limit and beyond; two
topics and one service are enough for a count that is wrong by one. In all runs but `subscriptions`,
deadlock is not checked: nodes that have stopped, a pool that is shut down, managers and nodes that
are used up, a stopped server and a decoded message are where a behaviour may end.

**Fairness.** `Discovery`: a running sender sends, a registering thread goes on, the loop and the
clock go on (weak), and the network is fair-lossy: of infinitely many heartbeats, requests and
answers, some arrive in time (strong). `ThreadPool`: threads are scheduled and functions end (weak);
nothing is assumed of callers. `LoopManager`: threads and the loop are scheduled (weak); locks and
awaits are served (strong: Python's locks make no promise to a waiter, but their holders here do not
compete for ever; each await of the library has a timeout). Nothing is assumed of the functions that
the executor runs. `Subscriptions`: threads are scheduled (weak). `Services`: the loop is scheduled,
its 2 s timer fires, a stop that has begun goes on (weak), and the REP socket takes requests from its
clients in turn, so that a request is not passed over for ever (strong). Nothing is assumed of
handlers and pool threads: they may hang for ever, and the liveness properties hold all the same. Nor
of clients: a client's timer belongs to its own loop manager, and does not fire when that loop has
been closed. `Lifecycle` and `Codecs` state safety only.

**What the properties leave out.** `IdMatchIsFresh`, `NoRegress` and `Converges` leave out a node
whose infoID has gone back, which takes a thread that reads it and writes it only after other threads
have incremented it twice: then an infoID is announced a second time for other sockets, and what
peers have can stay incomplete until the next registration (TLC finds this with two threads and
`MaxInfoID = 4` when the exemption is dropped). A mere lost increment is not left out: it is harmless
because each socket is appended before infoID is read. `NoRegress` compares what is stored with what
was stored when the answered request was sent. It does not compare with what another answer has
stored in between: `handle_heartbeat_async` does not look again after its await, so of two
overlapping answers the older one may be stored last; `Converges` shows that this heals. The run has
one node, the theorem any number of nodes and fetches. The runs that do not ask for `NoRegress` hide
its history variable by a VIEW. `OnlyMembersRegistered` is stated for nodes with ports of their own:
with a reused port a stranger may answer for a member. `SilentAreForgotten` exempts the dead monitor
of `discovery_monitor`. `OpenPoolIsServed` and `AcceptedTasksRun` exempt a pool all of whose workers
died of SystemExit: such a worker stays counted in `_threads`, and its future stays RUNNING. With a
worker left both hold. `StopShutsDown` exempts a loop that a coroutine took down: then every later
`stop` returns at line 175 of `loop_manager.py` and leaves executor and singleton as they are.
`get_instance` may return None (`ReturnInstance`) when a stop clears the singleton between its two
reads.

Some properties end where the code makes no promise. A task that is submitted between a worker's
`queue.Empty` and its reading of `_shutdown` (line 68), just before a shutdown, may be left in the
queue without a worker: `shutdown(wait=True)`, which `stop` calls, then waits for ever. So
`AcceptedTasksRun` exempts a pool that is shut down and has no worker left. The same happens in a
shutdown with a handler that hangs, or that waits for a loop that is gone: `SignalledStopReturns`
says that a stop that has told the loop to stop returns or waits in `Queue.join` for such a task, and
nowhere else, and `StopReturns`, which fails in `loop_stop_lost`, does not blame the join. And `stop`
queues `loop.stop` behind the cancelled tasks but before their done callbacks: a thread in
`future.result()` whose task is cancelled that way, or not yet started, is not woken and stays there
for good, so `CallsEndWithLoop` ends at the closed loop. For a request on its way the same holds, as
its timeout is one of that loop; no property says that every call returns.

`EveryRequestIsReceived` and `EveryRequestIsAnswered` exempt a server that a malformed request has
jammed (`Jammed`): after it they are false. They do not exempt a jam that a handler could cause, and
TLC finds none. `StoppedServerEnds` has no such exemption.

`NoOrphans`, `DefaultIsEntered` and `ShutdownIsComplete` exempt overlapping inits of one group and an
init that overlaps a shutdown: both pass the test before either enters its node, or
`node_instances.clear()` drops a node that was entered after the list was taken, and such a node goes
on announcing itself with nobody to stop it. `ShutdownSucceeds` excludes overlapping shutdowns (the
singleton may be None at its second reading) and inits that a shutdown overlaps (they may not have
come to `heartbeat_future`). What the properties say is that it takes such an overlap: everything
else may be interleaved.

## 4. What is proved

TLAPS checks these for all values of the constants under the assumptions named in the modules.

| Theorem | Says |
|---|---|
| `DiscoveryProofs!ManagerKeysAgree`, `DiscoveryKeysAgree` | the dictionaries agree, in any environment and in `Discovery` |
| `DiscoveryProofs!TypeCorrect` | `Discovery`'s type invariant |
| `DiscoveryProofs!CopiesAreHonest`, `IdMatchSuffices` | stored and travelling copies are honest; an equal infoID means nothing is missing, with any number of registering threads |
| `DiscoveryProofs!Refinement` | `Discovery` implements `PeerDirectory` |
| `DiscoveryProofs!MembersOnly` | only members are registered, if no port is used by two nodes |
| `DiscoveryProofs!EntriesNeverRegress` | an entry is written only by an answered request, with nothing older than was stored when the request was sent, for any number of overlapping fetches |
| `ThreadPoolProofs!TypeCorrect`, `Refinement` | `ThreadPool` implements `Executor` |
| `ThreadPoolProofs!QueuedTasksAreServed` | a queued task of an open pool has a live worker, unless exceptions have killed all |
| `LoopManagerProofs!TypeCorrect`, `AtMostOneLoop`, `NothingIsLeftOver`, `StopHasShutDown` | the safety properties of the loop manager |
| `LoopManagerProofs!SessionsTakeTurns`, `LifecycleProofs!ManagersTakeTurns` | both implement `LoopSessions` |
| `SubscriptionsProofs!TypeCorrect`, `OthersAreConnected` | only late publishers can be missed |
| `ServicesProofs!TypeCorrect`, `Refinement` | `Services` implements `RemoteCall` |
| `ServicesProofs!RefusalsAreEarly` | NOSERVICE is answered only to calls made during the registration |
| `LifecycleProofs!TypeCorrect` | `Lifecycle`'s type invariant |
| `LifecycleProofs!NobodyIsOrphaned`, `DefaultNodeIsEntered` | what runs can be found, without the two overlaps |
| `LifecycleProofs!ShutdownDoesNotRaise`, `ShutdownStopsEverything` | shutdown, on its own, does not raise; having returned, it has stopped everything |
| `CodecsProofs!TypeCorrect`, `DecodesWhatWasEncoded` | what is encoded and arrives whole decodes to itself; decoding fails for cut data only |
| `CodecsProofs!NoTruncatedNode`, `CutHeartbeat` | cut node information is not accepted; of a cut heartbeat that is, only the group's name is wrong |

*Discovery.* A snapshot stays honest when the node goes on (the number of sockets and the highest
infoID only grow), and each new copy is made from another copy or by the node itself (`CopiesStep`).
Among the node's threads, each one that has appended and not yet written accounts for one socket that
neither the infoID nor any infoID read counts (`Counted`, with a cardinality); so a write never
announces more than is there, and is an `Announce` of `PeerDirectory` or, if the increment is lost,
no step of it. An equal infoID suffices because a copy that lacks a socket belongs to a node that
will exceed its infoID: its infoID is higher, or a thread has appended and will read one at least as
high, or has read one (`LacksOnlyNews`). For `NoRegress` it is added that what a fetch has found
stored at its beginning was announced by then, and that an answer to it is therefore at least as new
(`KnownBefore`); it takes no bound on the number of fetches.

*Thread pool.* A task is in one place at a time, in the queue or with a worker, and its future's
state follows from that place; `unfinished` is the number of tasks in a place. So when `join` finds
zero, everything accepted is over. The refinement maps a running future that no worker holds any more
to "abandoned". That an open pool is served needs a count: as long as a slot is free, there is an
idle worker for each queued task, since its submit has started one.

*Loop manager.* The invariant says who holds which lock at which program counter, that only the
manager being made or the singleton has a loop that is not closed, and that whoever is past the wait
in `stop` finds it closed; a second part says that a caller's job stands in the ready queue of its
own manager only, and only once. For the refinement it is added that a manager that is being made has
an open executor, so it has not been through a `stop`; whoever is past the join has left an executor
that is shut down and has no unfinished task (`JoinInv`), and it gets none, as it accepts none;
whoever clears the singleton finds his own manager there, and its loop closed.

*Subscriptions.* It follows one publisher of the registry through one call: its node is still to be
visited, or it was found, or its event is still to come, or that came while the call was running
(then it is late), or the call is entered and it is connected, or about to be.

*Services.* An answer with status `SUCCESS`, about to be sent or on its way, is backed by the return
value of the handler of its own request, and what has become of a handler never changes; a handler
runs only for a request that was made. Hence a call succeeds only with its own result (`AnswerInv`).
For the refusals, a request on the wire whose service is not yet callable is in `early`, and so is
every request that is answered NOSERVICE (`RefusalInv`): a service never stops being callable.

*Life cycle.* Only the current loop manager can be open, and if it is closed, the thread that closed
it is about to clear the singleton (`ManagerInv`); this gives `LoopSessions`. As long as no init and
shutdown overlap, the entered nodes are all of the current manager, and each running shutdown has all
of them still on its list (`SessionInv`); without overlapping inits of a group an init does not
overwrite a node, starts the one that it has entered, and what multicasts is entered (`OrderInv`). So
when a shutdown comes to `clear()`, nothing is entered, nothing multicasts, and it closes the loop
that everything else runs on. Whatever inits overlap, each entered node has a `heartbeat_future` or
an init that will set it (`StartInv`): so a later `stop_node` does not raise. `OverlapInv` ties the
history to the program counters, `FreshInv` says that a node about to be entered is nobody else's.

*Codecs.* The writer leaves a mark at each field. The invariant says that a mark is followed by the
bytes of its field and, behind them, by the mark of the next field, or of the next socket of a list
(`MarksInv`); it stays so when more is written. The reader, as long as it has not run over the end of
the data, is at a mark and has read the fields before it right (`ReaderInv`); so it finds the right
length, and goes to the next mark. No induction over the length of a message is needed. Over the end
it can only run within a string, and the next field is then always one that begins with a number:
this is why a cut string, which does not raise, is noticed. A heartbeat is split into its seven parts
(`HeartbeatInv`): five numbers and the ID are complete as soon as the header is, and of the group's
name, the last part, a beginning is left. That packing and unpacking a number gives it back is proved
for any base of a byte.

Only model-checked: all liveness (`Converges`, `SilentAreForgotten`, `AcceptedTasksRun`,
`SignalledStopReturns`, `CallsEndWithLoop`, `NewPublishersAreConnected`,
`LaunchedPublishersAreConnected`, `EveryRequestIsReceived`, `EveryRequestIsAnswered`,
`StoppedServerEnds`), because the prover does neither fairness nor ENABLED. Every other property that
a passing run checks is stated by a theorem.

## 5. Not modelled

- delivery of messages on topics: the subscriber's receive loop, a publisher's `publish`, a
  streamer's loop (its flag `running` is set by the loop and cleared by user code only, so a second
  `start_streaming` runs a second loop), and publishers of one topic that share an IPC path; what a
  message does is up to ZeroMQ and to user callbacks;
- clashes of service names between nodes, and `wait_for_service`, a poll of the registry with
  `sleep`;
- sockets of the multicast threads, and threads that outlive their join timeout; that an exception
  (of `select`, or when the socket is set up) ends the receiver thread, line 135 of `multicast.py`:
  such a node hears no more heartbeats and forgets everybody, which for `Discovery` is a network that
  loses them all;
- a callback or task that calls into the loop it runs on, or stops it: it waits for itself, whatever
  else happens;
- subnet test (a filter of `Discovery`), broadcast address, hash identifiers; logging, exception
  classes, version; the ZeroMQ socket manager, whose state is the library's.

## 6. Plan

Done, in the order of importance: registry and discovery, thread pool, loop manager, subscriptions,
services, life cycle, codecs, and theorems about all of them. What could follow:

1. IPC paths in `Subscriptions`: who listens on a path that two publishers bound;
2. `LoopManager` over `ThreadPool` instead of "tasks come, and may be over";
3. the registry of a node whose receiver thread has died, and of several observers with name clashes.
