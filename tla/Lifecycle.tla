----------------------------- MODULE Lifecycle ------------------------------
(***************************************************************************)
(* Life and death of the nodes of one process: init and shutdown           *)
(* (src/src/pyzlc/__init__.py) and the class LanComNode with its           *)
(* dictionary of nodes (src/src/pyzlc/nodes/lancom_node.py), called by     *)
(* several threads.  No lock protects them, so every read or write of      *)
(* shared state is a step.                                                 *)
(*                                                                         *)
(* Of the loop manager this keeps the singleton and which loops are        *)
(* closed, as module LoopSessions does; module LoopManager has the rest,   *)
(* also the case of a stop that does not return.  A node's services,       *)
(* heartbeat check and multicast threads are only running or not.          *)
(***************************************************************************)
EXTENDS Naturals, FiniteSets

CONSTANTS
  Threads,
  Groups,     \* group names
  Nodes,      \* LanComNodes that may be made
  Managers,   \* TaskLoopManagers that may be made
  None

ASSUME LifecycleAssumption ==
  None \notin Threads \cup Groups \cup Nodes \cup Managers

VARIABLES
  node_instances,     \* group -> the node that is entered, or None
  default_instance,
  instance,           \* TaskLoopManager.instance
  made,               \* loop managers made
  closed,             \* loop managers whose loop is closed
  groupOf,            \* node -> its group, None until it is made
  manager,            \* node -> its loop_manager
  serving,            \* nodes whose service manager is not stopped
  registered,         \* nodes that have the service get_node_info
  running,            \* nodes with running = True
  multicasting,       \* nodes with multicast threads that are not told to stop
  beats,              \* node -> its check_heartbeat coroutines
  heartbeat_future,   \* node -> "none" (no such attribute), "live", "cancelled"
  pc,                 \* thread -> where it is, or how its last call ended
  group,              \* thread -> the group that it inits
  node,               \* thread -> the node that it makes, starts or stops
  mgr,                \* thread -> the loop manager that it has read
  todo,               \* thread -> nodes that its shutdown has yet to stop
  overlaps            \* history: kinds of calls that have overlapped

classVars == <<node_instances, default_instance>>
managerVars == <<instance, made, closed>>
serviceVars == <<groupOf, manager, serving, registered>>
workerVars == <<running, multicasting, beats, heartbeat_future>>
localVars == <<group, node, mgr, todo>>
vars == <<classVars, managerVars, serviceVars, workerVars, pc, localVars, overlaps>>

Init_pcs == {"manager", "read", "construct", "enter", "default", "set", "register",
             "start", "run", "multicast", "heartbeat"}
Stop_pcs == {"next", "services", "threads", "cancel", "leave", "clear", "reset",
             "test", "get", "close", "unset"}
Ended == {"idle", "inited", "refused", "failed", "stopped", "broken"}
Kinds == {"inits", "init_shutdown", "shutdowns"}

(* Every node that has been made has a loop manager. *)
TypeOK ==
  /\ node_instances \in [Groups -> Nodes \cup {None}]
  /\ default_instance \in Nodes \cup {None}
  /\ instance \in made \cup {None}
  /\ made \subseteq Managers
  /\ closed \subseteq made
  /\ groupOf \in [Nodes -> Groups \cup {None}]
  /\ manager \in [Nodes -> made \cup {None}]
  /\ \A n \in Nodes : manager[n] = None <=> groupOf[n] = None
  /\ registered \cup running \cup multicasting \cup serving \subseteq
       {n \in Nodes : groupOf[n] # None}
  /\ beats \in [Nodes -> Nat]
  /\ heartbeat_future \in [Nodes -> {"none", "live", "cancelled"}]
  /\ pc \in [Threads -> Init_pcs \cup Stop_pcs \cup Ended]
  /\ group \in [Threads -> Groups \cup {None}]
  /\ \A t \in Threads : group[t] # None <=> pc[t] \in Init_pcs
  /\ node \in [Threads -> Nodes \cup {None}]
  /\ mgr \in [Threads -> made \cup {None}]
  /\ todo \in [Threads -> SUBSET Nodes]
  /\ overlaps \subseteq Kinds

Init ==
  /\ node_instances = [g \in Groups |-> None]
  /\ default_instance = None
  /\ instance = None
  /\ made = {}
  /\ closed = {}
  /\ groupOf = [n \in Nodes |-> None]
  /\ manager = [n \in Nodes |-> None]
  /\ serving = {}
  /\ registered = {}
  /\ running = {}
  /\ multicasting = {}
  /\ beats = [n \in Nodes |-> 0]
  /\ heartbeat_future = [n \in Nodes |-> "none"]
  /\ pc = [t \in Threads |-> "idle"]
  /\ group = [t \in Threads |-> None]
  /\ node = [t \in Threads |-> None]
  /\ mgr = [t \in Threads |-> None]
  /\ todo = [t \in Threads |-> {}]
  /\ overlaps = {}

Entered == {node_instances[g] : g \in Groups} \ {None}

Goto(t, l) == pc' = [pc EXCEPT ![t] = l]

(* A call returns or raises, and its local variables are gone. *)
Leave(t, l) ==
  /\ Goto(t, l)
  /\ group' = [group EXCEPT ![t] = None]
  /\ node' = [node EXCEPT ![t] = None]
  /\ mgr' = [mgr EXCEPT ![t] = None]
  /\ todo' = [todo EXCEPT ![t] = {}]

Handles(t, n) == node' = [node EXCEPT ![t] = n]

-----------------------------------------------------------------------------
(* init. *)

InitsIn(g) == {t \in Threads : group[t] = g}
Stoppers == {t \in Threads : pc[t] \in Stop_pcs}

(* Both tests, in init and LanComNode.init; the second decides. *)
CallInit(t, g) ==
  /\ pc[t] \in Ended
  /\ IF node_instances[g] # None
     THEN Leave(t, "refused") /\ UNCHANGED overlaps
     ELSE /\ Goto(t, "manager")
          /\ group' = [group EXCEPT ![t] = g]
          /\ overlaps' = overlaps \cup (IF InitsIn(g) # {} THEN {"inits"} ELSE {})
               \cup (IF Stoppers # {} THEN {"init_shutdown"} ELSE {})
          /\ UNCHANGED <<node, mgr, todo>>
  /\ UNCHANGED <<classVars, managerVars, serviceVars, workerVars>>

(* TaskLoopManager.get_instance: the singleton is made under a lock ... *)
MakeManager(t) ==
  /\ pc[t] = "manager"
  /\ Goto(t, "read")
  /\ \/ /\ instance # None
        /\ UNCHANGED <<instance, made>>
     \/ /\ instance = None
        /\ \E m \in Managers \ made :
             /\ instance' = m
             /\ made' = made \cup {m}
  /\ UNCHANGED <<closed, classVars, serviceVars, workerVars, localVars, overlaps>>

(* ... and read again without, when a stop may have cleared it. *)
ReadManager(t) ==
  /\ pc[t] = "read"
  /\ Goto(t, "construct")
  /\ mgr' = [mgr EXCEPT ![t] = instance]
  /\ UNCHANGED <<group, node, todo>>
  /\ UNCHANGED <<classVars, managerVars, serviceVars, workerVars, overlaps>>

(* Not the code: the service loop is not submitted yet, so None goes unnoticed. *)
ConstructWithoutManager(t) ==
  /\ pc[t] = "construct"
  /\ IF mgr[t] \in closed
     THEN Leave(t, "failed") /\ UNCHANGED serviceVars
     ELSE \E n \in Nodes :
            /\ groupOf[n] = None
            /\ Goto(t, "enter")
            /\ Handles(t, n)
            /\ groupOf' = [groupOf EXCEPT ![n] = group[t]]
            /\ manager' = [manager EXCEPT ![n] = mgr[t]]
            /\ serving' = serving \cup {n}
            /\ UNCHANGED <<registered, group, mgr, todo>>
  /\ UNCHANGED <<classVars, managerVars, workerVars, overlaps>>

(***************************************************************************)
(* The rest of LanComNode.__init__.  The service manager submits its loop: *)
(* an AttributeError without a loop manager, a RuntimeError with a closed  *)
(* loop.                                                                   *)
(***************************************************************************)
Construct(t) ==
  /\ pc[t] = "construct"
  /\ IF mgr[t] \in closed \cup {None}
     THEN Leave(t, "failed") /\ UNCHANGED serviceVars
     ELSE \E n \in Nodes :
            /\ groupOf[n] = None
            /\ Goto(t, "enter")
            /\ Handles(t, n)
            /\ groupOf' = [groupOf EXCEPT ![n] = group[t]]
            /\ manager' = [manager EXCEPT ![n] = mgr[t]]
            /\ serving' = serving \cup {n}
            /\ UNCHANGED <<registered, group, mgr, todo>>
  /\ UNCHANGED <<classVars, managerVars, workerVars, overlaps>>

(* An earlier node of the group is overwritten.  default_group is optional. *)
Enter(t) ==
  /\ pc[t] = "enter"
  /\ \E l \in {"default", "register"} : Goto(t, l)
  /\ node_instances' = [node_instances EXCEPT ![group[t]] = node[t]]
  /\ UNCHANGED default_instance
  /\ UNCHANGED <<managerVars, serviceVars, workerVars, localVars, overlaps>>

TestDefault(t) ==
  /\ pc[t] = "default"
  /\ Goto(t, IF default_instance = None THEN "set" ELSE "register")
  /\ UNCHANGED <<classVars, managerVars, serviceVars, workerVars, localVars, overlaps>>

(* A KeyError when the node has been taken out in the meantime. *)
SetDefault(t) ==
  /\ pc[t] = "set"
  /\ IF node_instances[group[t]] = None
     THEN Leave(t, "failed") /\ UNCHANGED default_instance
     ELSE /\ Goto(t, "register")
          /\ default_instance' = node_instances[group[t]]
          /\ UNCHANGED localVars
  /\ UNCHANGED <<node_instances, managerVars, serviceVars, workerVars, overlaps>>

(***************************************************************************)
(* get_instance raises without a node; a service is registered only once.  *)
(* That the node is looked up three times is left out.                     *)
(***************************************************************************)
RegisterNodeInfo(t) ==
  /\ pc[t] = "register"
  /\ LET n == node_instances[group[t]] IN
       IF n \in registered \cup {None}
       THEN Leave(t, "failed") /\ UNCHANGED registered
       ELSE /\ Goto(t, "start")
            /\ registered' = registered \cup {n}
            /\ UNCHANGED localVars
  /\ UNCHANGED <<groupOf, manager, serving>>
  /\ UNCHANGED <<classVars, managerVars, workerVars, overlaps>>

(* The node to start is looked up once more. *)
FindNode(t) ==
  /\ pc[t] = "start"
  /\ LET n == node_instances[group[t]] IN
       IF n = None THEN Leave(t, "failed")
       ELSE Goto(t, "run") /\ Handles(t, n) /\ UNCHANGED <<group, mgr, todo>>
  /\ UNCHANGED <<classVars, managerVars, serviceVars, workerVars, overlaps>>

StartRunning(t) ==
  /\ pc[t] = "run"
  /\ Goto(t, "multicast")
  /\ running' = running \cup {node[t]}
  /\ UNCHANGED <<multicasting, beats, heartbeat_future>>
  /\ UNCHANGED <<classVars, managerVars, serviceVars, localVars, overlaps>>

(* MulticastWorker.start clears the stop event and starts two threads. *)
StartMulticast(t) ==
  /\ pc[t] = "multicast"
  /\ Goto(t, "heartbeat")
  /\ multicasting' = multicasting \cup {node[t]}
  /\ UNCHANGED <<running, beats, heartbeat_future>>
  /\ UNCHANGED <<classVars, managerVars, serviceVars, localVars, overlaps>>

(* The last step of init, but for atexit.register. *)
StartHeartbeat(t) ==
  /\ pc[t] = "heartbeat"
  /\ IF manager[node[t]] \in closed
     THEN Leave(t, "failed") /\ UNCHANGED <<beats, heartbeat_future>>
     ELSE /\ Leave(t, "inited")
          /\ beats' = [beats EXCEPT ![node[t]] = @ + 1]
          /\ heartbeat_future' = [heartbeat_future EXCEPT ![node[t]] = "live"]
  /\ UNCHANGED <<running, multicasting>>
  /\ UNCHANGED <<classVars, managerVars, serviceVars, overlaps>>

-----------------------------------------------------------------------------
(* shutdown: stop_all_nodes and stop_node. *)

MarkShutdown ==
  overlaps' = overlaps \cup (IF Stoppers # {} THEN {"shutdowns"} ELSE {})
    \cup (IF \E g \in Groups : InitsIn(g) # {} THEN {"init_shutdown"} ELSE {})

(* Not the code: only the default node is stopped. *)
CallShutdownDefault(t) ==
  /\ pc[t] \in Ended
  /\ Goto(t, "next")
  /\ todo' = [todo EXCEPT ![t] = {default_instance} \ {None}]
  /\ MarkShutdown
  /\ UNCHANGED <<group, node, mgr>>
  /\ UNCHANGED <<classVars, managerVars, serviceVars, workerVars>>

(* The list of nodes is taken first. *)
CallShutdown(t) ==
  /\ pc[t] \in Ended
  /\ Goto(t, "next")
  /\ todo' = [todo EXCEPT ![t] = Entered]
  /\ MarkShutdown
  /\ UNCHANGED <<group, node, mgr>>
  /\ UNCHANGED <<classVars, managerVars, serviceVars, workerVars>>

NextNode(t) ==
  /\ pc[t] = "next"
  /\ \/ /\ todo[t] = {}
        /\ Goto(t, "clear")
        /\ UNCHANGED localVars
     \/ \E n \in todo[t] :
          /\ Goto(t, "services")
          /\ Handles(t, n)
          /\ todo' = [todo EXCEPT ![t] = @ \ {n}]
          /\ UNCHANGED <<group, mgr>>
  /\ UNCHANGED <<classVars, managerVars, serviceVars, workerVars, overlaps>>

(* Not the code: a node is taken out before it is stopped. *)
StopServicesAndPop(t) ==
  /\ pc[t] = "services"
  /\ Goto(t, "threads")
  /\ running' = running \ {node[t]}
  /\ serving' = serving \ {node[t]}
  /\ node_instances' = [node_instances EXCEPT ![groupOf[node[t]]] = None]
  /\ UNCHANGED <<default_instance, groupOf, manager, registered>>
  /\ UNCHANGED <<multicasting, beats, heartbeat_future>>
  /\ UNCHANGED <<managerVars, localVars, overlaps>>

(* running, the service manager and the subscribers. *)
StopServices(t) ==
  /\ pc[t] = "services"
  /\ Goto(t, "threads")
  /\ running' = running \ {node[t]}
  /\ serving' = serving \ {node[t]}
  /\ UNCHANGED <<groupOf, manager, registered, multicasting, beats, heartbeat_future>>
  /\ UNCHANGED <<classVars, managerVars, localVars, overlaps>>

(* MulticastWorker.stop sets the stop event, and joins with a limit. *)
StopMulticast(t) ==
  /\ pc[t] = "threads"
  /\ Goto(t, "cancel")
  /\ multicasting' = multicasting \ {node[t]}
  /\ UNCHANGED <<running, beats, heartbeat_future>>
  /\ UNCHANGED <<classVars, managerVars, serviceVars, localVars, overlaps>>

(***************************************************************************)
(* An AttributeError when start_node has not come that far: the other      *)
(* nodes and the loop manager are not stopped.                             *)
(***************************************************************************)
CancelHeartbeat(t) ==
  /\ pc[t] = "cancel"
  /\ \/ /\ heartbeat_future[node[t]] = "none"
        /\ Leave(t, "broken")
        /\ UNCHANGED <<beats, heartbeat_future>>
     \/ /\ heartbeat_future[node[t]] # "none"
        /\ Goto(t, "leave")
        /\ beats' = [beats EXCEPT ![node[t]] =
             IF heartbeat_future[node[t]] = "live" /\ @ > 0 THEN @ - 1 ELSE @]
        /\ heartbeat_future' = [heartbeat_future EXCEPT ![node[t]] = "cancelled"]
        /\ UNCHANGED localVars
  /\ UNCHANGED <<running, multicasting>>
  /\ UNCHANGED <<classVars, managerVars, serviceVars, overlaps>>

(* Not the code: default_instance stays until the end of stop_all_nodes. *)
PopNodeOnly(t) ==
  /\ pc[t] = "leave"
  /\ Goto(t, "next")
  /\ Handles(t, None)
  /\ node_instances' = [node_instances EXCEPT ![groupOf[node[t]]] = None]
  /\ UNCHANGED <<default_instance, group, mgr, todo>>
  /\ UNCHANGED <<managerVars, serviceVars, workerVars, overlaps>>

(* Whatever node of the group is entered is taken out. *)
PopNode(t) ==
  /\ pc[t] = "leave"
  /\ Goto(t, "next")
  /\ Handles(t, None)
  /\ node_instances' = [node_instances EXCEPT ![groupOf[node[t]]] = None]
  /\ default_instance' = IF default_instance = node[t] THEN None ELSE default_instance
  /\ UNCHANGED <<group, mgr, todo>>
  /\ UNCHANGED <<managerVars, serviceVars, workerVars, overlaps>>

(* Nodes that were entered since CallShutdown are dropped, and run on. *)
ClearNodes(t) ==
  /\ pc[t] = "clear"
  /\ Goto(t, "reset")
  /\ node_instances' = [g \in Groups |-> None]
  /\ UNCHANGED default_instance
  /\ UNCHANGED <<managerVars, serviceVars, workerVars, localVars, overlaps>>

ResetDefault(t) ==
  /\ pc[t] = "reset"
  /\ Goto(t, "test")
  /\ default_instance' = None
  /\ UNCHANGED node_instances
  /\ UNCHANGED <<managerVars, serviceVars, workerVars, localVars, overlaps>>

(* Not the code: the loop manager is stopped without a test. *)
TestManagerNot(t) ==
  /\ pc[t] = "test"
  /\ Goto(t, "get")
  /\ UNCHANGED <<classVars, managerVars, serviceVars, workerVars, localVars, overlaps>>

TestManager(t) ==
  /\ pc[t] = "test"
  /\ IF instance = None THEN Leave(t, "stopped")
     ELSE Goto(t, "get") /\ UNCHANGED localVars
  /\ UNCHANGED <<classVars, managerVars, serviceVars, workerVars, overlaps>>

(* The singleton is read again: None.stop() is an AttributeError. *)
GetManager(t) ==
  /\ pc[t] = "get"
  /\ IF instance = None THEN Leave(t, "broken")
     ELSE /\ Goto(t, "close")
          /\ mgr' = [mgr EXCEPT ![t] = instance]
          /\ UNCHANGED <<group, node, todo>>
  /\ UNCHANGED <<classVars, managerVars, serviceVars, workerVars, overlaps>>

(* Not the code: two threads may stop one manager at once. *)
CloseLoopUnlocked(t) ==
  /\ pc[t] = "close"
  /\ Goto(t, "unset")
  /\ closed' = closed \cup {mgr[t]}
  /\ beats' = [n \in Nodes |-> IF manager[n] = mgr[t] THEN 0 ELSE beats[n]]
  /\ UNCHANGED <<instance, made, running, multicasting, heartbeat_future>>
  /\ UNCHANGED <<classVars, serviceVars, localVars, overlaps>>

(* TaskLoopManager.stop under its lock: a second stop returns at once. *)
CloseLoop(t) ==
  /\ pc[t] = "close"
  /\ \A s \in Threads : pc[s] = "unset" => mgr[s] # mgr[t]
  /\ IF mgr[t] \in closed
     THEN Leave(t, "stopped") /\ UNCHANGED <<closed, beats>>
     ELSE /\ Goto(t, "unset")
          /\ closed' = closed \cup {mgr[t]}
          /\ beats' = [n \in Nodes |-> IF manager[n] = mgr[t] THEN 0 ELSE beats[n]]
          /\ UNCHANGED localVars
  /\ UNCHANGED <<instance, made, running, multicasting, heartbeat_future>>
  /\ UNCHANGED <<classVars, serviceVars, overlaps>>

UnsetManager(t) ==
  /\ pc[t] = "unset"
  /\ Leave(t, "stopped")
  /\ instance' = None
  /\ UNCHANGED <<made, closed, classVars, serviceVars, workerVars, overlaps>>

-----------------------------------------------------------------------------

InitStep(t) ==
  \/ MakeManager(t) \/ ReadManager(t) \/ Construct(t) \/ Enter(t)
  \/ TestDefault(t) \/ SetDefault(t) \/ RegisterNodeInfo(t) \/ FindNode(t)
  \/ StartRunning(t) \/ StartMulticast(t) \/ StartHeartbeat(t)

StopStep(t) ==
  \/ NextNode(t) \/ StopServices(t) \/ StopMulticast(t) \/ CancelHeartbeat(t)
  \/ PopNode(t) \/ ClearNodes(t) \/ ResetDefault(t)
  \/ TestManager(t) \/ GetManager(t) \/ CloseLoop(t) \/ UnsetManager(t)

Next ==
  \E t \in Threads :
    \/ \E g \in Groups : CallInit(t, g)
    \/ CallShutdown(t)
    \/ InitStep(t)
    \/ StopStep(t)

Spec == Init /\ [][Next]_vars

-----------------------------------------------------------------------------

Sessions == INSTANCE LoopSessions

(***************************************************************************)
(* Nodes come and go, but loop managers live as module LoopSessions, which *)
(* LoopManager implements, says: in particular a shutdown never clears a   *)
(* manager that an init has made since, whatever calls overlap.            *)
(***************************************************************************)
SessionSpec == Sessions!Spec

(* Neither two inits of one group nor an init and a shutdown have overlapped. *)
Orderly == overlaps \subseteq {"shutdowns"}

(* Something of the node still runs. *)
Alive(n) ==
  \/ n \in multicasting
  \/ manager[n] \notin closed \cup {None} /\ (n \in serving \/ beats[n] > 0)

(***************************************************************************)
(* No orphans: a node whose threads announce it is the one that its group  *)
(* has entered, and its loop is the current one and open, unless inits of  *)
(* one group, or an init and a shutdown, have overlapped.                  *)
(***************************************************************************)
NoOrphans ==
  Orderly => \A n \in multicasting :
    /\ node_instances[groupOf[n]] = n
    /\ manager[n] = instance
    /\ instance \notin closed

(***************************************************************************)
(* The default node is an entered one, under the same condition.  Inits of *)
(* different groups may overlap, and shutdowns.                            *)
(***************************************************************************)
DefaultIsEntered == Orderly => default_instance \in Entered \cup {None}

(***************************************************************************)
(* "Safe to call multiple times" (__init__.py): shutdown does not raise if *)
(* it never overlaps an init or a shutdown, also after inits that failed.  *)
(***************************************************************************)
ShutdownSucceeds ==
  overlaps \subseteq {"inits"} => \A t \in Threads : pc[t] # "broken"

(***************************************************************************)
(* When a shutdown returns nothing runs any more, whatever node it is of,  *)
(* also if another shutdown does part of the work.                         *)
(***************************************************************************)
ShutdownIsComplete ==
  [][\A t \in Threads :
       pc[t] \in Stop_pcs /\ pc'[t] = "stopped" /\ Orderly =>
         \A n \in Nodes : ~ Alive(n)']_vars
=============================================================================
