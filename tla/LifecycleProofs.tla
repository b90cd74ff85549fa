-------------------------- MODULE LifecycleProofs ---------------------------
(***************************************************************************)
(* The safety properties of Lifecycle, for any number of threads, groups,  *)
(* nodes and loop managers.                                                *)
(***************************************************************************)
EXTENDS Lifecycle, TLAPS

(* A step of thread t. *)
Act(t) == CallShutdown(t) \/ (\E g \in Groups : CallInit(t, g)) \/ InitStep(t) \/ StopStep(t)

(* Thread s is where it was. *)
Same(s) ==
  /\ pc'[s] = pc[s]
  /\ group'[s] = group[s]
  /\ node'[s] = node[s]
  /\ mgr'[s] = mgr[s]
  /\ todo'[s] = todo[s]

(* The types of the local variables. *)
LocalTypes ==
  /\ pc \in [Threads -> Init_pcs \cup Stop_pcs \cup Ended]
  /\ group \in [Threads -> Groups \cup {None}]
  /\ \A t \in Threads : group[t] # None <=> pc[t] \in Init_pcs
  /\ node \in [Threads -> Nodes \cup {None}]
  /\ mgr \in [Threads -> made \cup {None}]
  /\ todo \in [Threads -> SUBSET Nodes]

(* Where a shutdown stops one of its nodes. *)
Working == {"services", "threads", "cancel", "leave"}

(***************************************************************************)
(* What a thread works on has been made, for its group, and an entered     *)
(* node is entered for its own group.                                      *)
(***************************************************************************)
MadeNodes == {n \in Nodes : groupOf[n] # None}

OwnNode(t) ==
  /\ pc[t] \in {"enter", "run", "multicast", "heartbeat"} =>
       node[t] \in Nodes /\ groupOf[node[t]] = group[t]
  /\ pc[t] \in Working => node[t] \in MadeNodes
  /\ todo[t] \subseteq MadeNodes
  /\ pc[t] \in {"close", "unset"} => mgr[t] \in made

MadeInv ==
  /\ \A g \in Groups : node_instances[g] # None => groupOf[node_instances[g]] = g
  /\ \A t \in Threads : OwnNode(t)

(***************************************************************************)
(* Only the current loop manager can be open, and if it is closed then the *)
(* one thread that closed it is about to unset it.                         *)
(***************************************************************************)
ManagerInv ==
  /\ made \ closed \subseteq {instance}
  /\ instance \in closed => \E t \in Threads : pc[t] = "unset"
  /\ \A t \in Threads : pc[t] = "unset" => instance = mgr[t] /\ mgr[t] \in closed
  /\ \A s, t \in Threads : pc[s] = "unset" /\ pc[t] = "unset" => s = t

(* A node that is yet to be entered is nobody else's. *)
FreshInv ==
  /\ \A t \in Threads : pc[t] = "enter" => node[t] \notin Entered \cup registered
  /\ \A s, t \in Threads : pc[s] = "enter" /\ pc[t] = "enter" /\ node[s] = node[t] => s = t

(* What overlaps records. *)
OverlapInv ==
  /\ \A s, t \in Threads :
       pc[s] \in Init_pcs /\ pc[t] \in Stop_pcs => "init_shutdown" \in overlaps
  /\ \A s, t \in Threads :
       s # t /\ pc[s] \in Init_pcs /\ group[s] = group[t] => "inits" \in overlaps
  /\ \A s, t \in Threads :
       s # t /\ pc[s] \in Stop_pcs /\ pc[t] \in Stop_pcs => "shutdowns" \in overlaps

Apart == "init_shutdown" \notin overlaps

(* The nodes that thread t's shutdown has yet to stop, also the one that it stops now. *)
Pending(t) ==
  IF pc[t] = "next" THEN todo[t]
  ELSE IF pc[t] \in Working THEN todo[t] \cup {node[t]} ELSE {}

(***************************************************************************)
(* As long as no init and shutdown overlap, the entered nodes are all of   *)
(* the current loop manager, and each shutdown will stop all of them.      *)
(***************************************************************************)
SessionInv ==
  Apart =>
    /\ \A n \in Entered : manager[n] = instance
    /\ \A t \in Threads :
         /\ pc[t] = "construct" => mgr[t] \in {instance, None}
         /\ pc[t] = "enter" => manager[node[t]] = instance
         /\ pc[t] = "close" => instance \in {mgr[t], None}
         /\ pc[t] \in Stop_pcs => Entered \subseteq Pending(t)
         /\ \A n \in Pending(t) : node_instances[groupOf[n]] \in {n, None}

(***************************************************************************)
(* When inits of one group do not overlap either, an init does not         *)
(* overwrite a node, and starts the one that it has entered.               *)
(***************************************************************************)
OrderInv ==
  Orderly =>
    /\ default_instance \in Entered \cup {None}
    /\ \A n \in multicasting : node_instances[groupOf[n]] = n
    /\ \A t \in Threads :
         /\ pc[t] \in {"manager", "read", "construct", "enter"} => node_instances[group[t]] = None
         /\ pc[t] \in {"run", "multicast", "heartbeat"} => node_instances[group[t]] = node[t]
         /\ pc[t] \in {"cancel", "leave"} => node[t] \notin multicasting

(* Thread t's init is going to start the node that is entered for its group. *)
Starts(t) ==
  LET n == node_instances[group[t]] IN
    \/ pc[t] = "start"
    \/ pc[t] \in {"run", "multicast", "heartbeat"} /\ node[t] = n
    \/ pc[t] \in {"default", "set", "register"} /\ n \notin registered

(***************************************************************************)
(* Whatever inits overlap, each entered node has its heartbeat check or    *)
(* will get it, so that a later shutdown finds one to cancel.              *)
(***************************************************************************)
StartInv ==
  overlaps \subseteq {"inits"} =>
    /\ \A g \in Groups : node_instances[g] # None =>
         \/ heartbeat_future[node_instances[g]] # "none"
         \/ \E t \in Threads : group[t] = g /\ Starts(t)
    /\ \A t \in Threads :
         /\ \A n \in Pending(t) : heartbeat_future[n] # "none"
         /\ pc[t] = "get" => instance # None
         /\ pc[t] # "broken"

LEMMA PcsDisjoint ==
  /\ Init_pcs \cap Stop_pcs = {}
  /\ Init_pcs \cap Ended = {}
  /\ Stop_pcs \cap Ended = {}
  BY DEF Init_pcs, Stop_pcs, Ended

LEMMA TypeInit == Init => TypeOK
  BY LifecycleAssumption, PcsDisjoint DEF Init, TypeOK, Init_pcs, Ended, Kinds

LEMMA TypeCalls ==
  ASSUME TypeOK, NEW t \in Threads, CallShutdown(t) \/ \E g \in Groups : CallInit(t, g)
  PROVE  TypeOK'
<1>1. CASE CallShutdown(t)
  <2>1. Entered \subseteq Nodes
    BY DEF TypeOK, Entered
  <2>2. overlaps' \subseteq Kinds
    BY <1>1 DEF CallShutdown, MarkShutdown, TypeOK, Kinds
  <2>3. QED
    BY <1>1, <2>1, <2>2 DEF CallShutdown, TypeOK, Goto, Init_pcs, Stop_pcs, Ended,
       classVars, managerVars, serviceVars, workerVars
<1>2. ASSUME NEW g \in Groups, CallInit(t, g)
      PROVE  TypeOK'
  <2>1. overlaps' \subseteq Kinds
    BY <1>2 DEF CallInit, TypeOK, Kinds
  <2>2. CASE node_instances[g] # None
    BY <1>2, <2>1, <2>2 DEF CallInit, TypeOK, Leave, Goto, Init_pcs, Ended,
       classVars, managerVars, serviceVars, workerVars
  <2>3. CASE node_instances[g] = None
    BY <1>2, <2>1, <2>3, LifecycleAssumption DEF CallInit, TypeOK, Goto, Init_pcs, Ended,
       classVars, managerVars, serviceVars, workerVars
  <2>4. QED
    BY <2>2, <2>3
<1>3. QED
  BY <1>1, <1>2

LEMMA LeaveType ==
  ASSUME TypeOK, NEW t \in Threads, NEW l \in Ended, Leave(t, l), UNCHANGED made
  PROVE  LocalTypes'
  BY PcsDisjoint DEF TypeOK, Leave, Goto, LocalTypes

(* The step of a call that goes on. *)
LEMMA GotoType ==
  ASSUME TypeOK, NEW t \in Threads, NEW l, Goto(t, l), UNCHANGED localVars,
         \/ pc[t] \in Init_pcs /\ l \in Init_pcs
         \/ pc[t] \in Stop_pcs /\ l \in Stop_pcs,
         made \subseteq made'
  PROVE  LocalTypes'
  BY PcsDisjoint DEF TypeOK, Goto, LocalTypes, localVars

LEMMA TypeInitSteps ==
  ASSUME TypeOK, MadeInv, NEW t \in Threads, InitStep(t)
  PROVE  TypeOK'
<1> USE DEF classVars, managerVars, serviceVars, workerVars
<1>1. CASE MakeManager(t)
  <2>1. LocalTypes'
    BY <1>1, GotoType DEF MakeManager, Init_pcs
  <2>2. instance' \in made' \cup {None} /\ made \subseteq made' /\ made' \subseteq Managers
    BY <1>1 DEF MakeManager, TypeOK
  <2>3. QED
    BY <1>1, <2>1, <2>2 DEF MakeManager, TypeOK, LocalTypes
<1>2. CASE ReadManager(t)
  <2>1. LocalTypes'
    BY <1>2, PcsDisjoint DEF ReadManager, Goto, TypeOK, LocalTypes, Init_pcs
  <2>2. QED
    BY <1>2, <2>1 DEF ReadManager, TypeOK, LocalTypes
<1>3. CASE Construct(t)
  <2>1. CASE mgr[t] \in closed \cup {None}
    <3>1. LocalTypes'
      BY <1>3, <2>1, LeaveType DEF Construct, Ended
    <3>2. QED
      BY <1>3, <2>1, <3>1 DEF Construct, TypeOK, LocalTypes
  <2>2. CASE mgr[t] \notin closed \cup {None}
    <3>1. PICK n \in Nodes :
            /\ groupOf[n] = None
            /\ Goto(t, "enter")
            /\ Handles(t, n)
            /\ groupOf' = [groupOf EXCEPT ![n] = group[t]]
            /\ manager' = [manager EXCEPT ![n] = mgr[t]]
            /\ serving' = serving \cup {n}
            /\ UNCHANGED <<registered, group, mgr, todo>>
      BY <1>3, <2>2 DEF Construct
    <3>2. group[t] \in Groups /\ mgr[t] \in made /\ pc[t] = "construct"
      BY <1>3, <2>2 DEF Construct, TypeOK, Init_pcs
    <3>3. LocalTypes'
      BY <1>3, <3>1, <3>2, PcsDisjoint DEF Construct, Goto, Handles, TypeOK, LocalTypes, Init_pcs
    <3>4. /\ groupOf' \in [Nodes -> Groups \cup {None}]
          /\ manager' \in [Nodes -> made \cup {None}]
          /\ \A m \in Nodes : manager'[m] = None <=> groupOf'[m] = None
          /\ \A m \in Nodes : groupOf[m] # None => groupOf'[m] # None
          /\ groupOf'[n] # None
      BY <3>1, <3>2, LifecycleAssumption DEF TypeOK
    <3>5. QED
      BY <1>3, <3>1, <3>3, <3>4 DEF Construct, TypeOK, LocalTypes
  <2>3. QED
    BY <2>1, <2>2
<1>4. CASE Enter(t) \/ TestDefault(t)
  <2>1. LocalTypes'
    BY <1>4, GotoType DEF Enter, TestDefault, Init_pcs
  <2>2. node_instances' \in [Groups -> Nodes \cup {None}]
    BY <1>4 DEF Enter, TestDefault, TypeOK
  <2>3. QED
    BY <1>4, <2>1, <2>2 DEF Enter, TestDefault, TypeOK, LocalTypes
<1>5. CASE SetDefault(t)
  <2>1. LocalTypes'
    BY <1>5, GotoType, LeaveType DEF SetDefault, Init_pcs, Ended
  <2>2. group[t] \in Groups
    BY <1>5 DEF SetDefault, TypeOK, Init_pcs
  <2>3. default_instance' \in Nodes \cup {None}
    BY <1>5, <2>2 DEF SetDefault, TypeOK
  <2>4. QED
    BY <1>5, <2>1, <2>3 DEF SetDefault, TypeOK, LocalTypes
<1>6. CASE RegisterNodeInfo(t)
  <2>1. LocalTypes'
    BY <1>6, GotoType, LeaveType DEF RegisterNodeInfo, Init_pcs, Ended
  <2>2. group[t] \in Groups
    BY <1>6 DEF RegisterNodeInfo, TypeOK, Init_pcs
  <2>3. registered' \subseteq {n \in Nodes : groupOf[n] # None}
    BY <1>6, <2>2, LifecycleAssumption DEF RegisterNodeInfo, TypeOK, MadeInv
  <2>4. QED
    BY <1>6, <2>1, <2>3 DEF RegisterNodeInfo, TypeOK, LocalTypes
<1>7. CASE FindNode(t)
  <2>1. group[t] \in Groups
    BY <1>7 DEF FindNode, TypeOK, Init_pcs
  <2>2. CASE node_instances[group[t]] = None
    BY <1>7, <2>2, LeaveType DEF FindNode, TypeOK, LocalTypes, Ended
  <2>3. CASE node_instances[group[t]] # None
    <3>1. LocalTypes'
      BY <1>7, <2>1, <2>3, PcsDisjoint DEF FindNode, Goto, Handles, TypeOK, LocalTypes, Init_pcs
    <3>2. QED
      BY <1>7, <3>1 DEF FindNode, TypeOK, LocalTypes
  <2>4. QED
    BY <2>2, <2>3
<1>8. CASE StartRunning(t) \/ StartMulticast(t)
  <2>1. LocalTypes'
    BY <1>8, GotoType DEF StartRunning, StartMulticast, Init_pcs
  <2>2. node[t] \in MadeNodes
    BY <1>8, LifecycleAssumption
    DEF StartRunning, StartMulticast, MadeInv, OwnNode, Working, MadeNodes, TypeOK, Init_pcs
  <2>3. QED
    BY <1>8, <2>1, <2>2 DEF StartRunning, StartMulticast, TypeOK, LocalTypes, MadeNodes
<1>9. CASE StartHeartbeat(t)
  <2>1. LocalTypes'
    BY <1>9, LeaveType DEF StartHeartbeat, Ended
  <2>2. beats' \in [Nodes -> Nat] /\ heartbeat_future' \in [Nodes -> {"none", "live", "cancelled"}]
    BY <1>9 DEF StartHeartbeat, TypeOK
  <2>3. QED
    BY <1>9, <2>1, <2>2 DEF StartHeartbeat, TypeOK, LocalTypes
<1>10. QED
  BY <1>1, <1>2, <1>3, <1>4, <1>5, <1>6, <1>7, <1>8, <1>9 DEF InitStep

LEMMA TypeStopSteps ==
  ASSUME TypeOK, MadeInv, NEW t \in Threads, StopStep(t)
  PROVE  TypeOK'
<1> USE DEF classVars, managerVars, serviceVars, workerVars
<1>1. CASE NextNode(t)
  <2>1. CASE todo[t] = {} /\ Goto(t, "clear") /\ UNCHANGED localVars
    BY <1>1, <2>1, GotoType DEF NextNode, Stop_pcs, TypeOK, LocalTypes
  <2>2. ASSUME NEW n \in todo[t], Goto(t, "services"), Handles(t, n),
               todo' = [todo EXCEPT ![t] = @ \ {n}], UNCHANGED <<group, mgr>>
        PROVE  TypeOK'
    <3>1. n \in Nodes
      BY DEF TypeOK
    <3>2. LocalTypes'
      BY <1>1, <2>2, <3>1, PcsDisjoint DEF NextNode, Goto, Handles, TypeOK, LocalTypes, Stop_pcs
    <3>3. QED
      BY <1>1, <3>2 DEF NextNode, TypeOK, LocalTypes
  <2>3. QED
    BY <1>1, <2>1, <2>2 DEF NextNode
<1>2. CASE StopServices(t) \/ StopMulticast(t)
  <2>1. LocalTypes'
    BY <1>2, GotoType DEF StopServices, StopMulticast, Stop_pcs
  <2>2. QED
    BY <1>2, <2>1 DEF StopServices, StopMulticast, TypeOK, LocalTypes
<1>3. CASE CancelHeartbeat(t)
  <2>1. LocalTypes'
    BY <1>3, GotoType, LeaveType DEF CancelHeartbeat, Stop_pcs, Ended
  <2>2. node[t] \in Nodes
    BY <1>3 DEF CancelHeartbeat, MadeInv, OwnNode, Working, MadeNodes
  <2>3. beats' \in [Nodes -> Nat] /\ heartbeat_future' \in [Nodes -> {"none", "live", "cancelled"}]
    BY <1>3, <2>2 DEF CancelHeartbeat, TypeOK
  <2>4. QED
    BY <1>3, <2>1, <2>3 DEF CancelHeartbeat, TypeOK, LocalTypes
<1>4. CASE PopNode(t)
  <2>1. LocalTypes'
    BY <1>4, PcsDisjoint DEF PopNode, Goto, Handles, TypeOK, LocalTypes, Stop_pcs
  <2>2. node_instances' \in [Groups -> Nodes \cup {None}]
    BY <1>4 DEF PopNode, TypeOK
  <2>3. QED
    BY <1>4, <2>1, <2>2 DEF PopNode, TypeOK, LocalTypes
<1>5. CASE ClearNodes(t) \/ ResetDefault(t)
  <2>1. LocalTypes'
    BY <1>5, GotoType DEF ClearNodes, ResetDefault, Stop_pcs
  <2>2. QED
    BY <1>5, <2>1 DEF ClearNodes, ResetDefault, TypeOK, LocalTypes
<1>6. CASE TestManager(t)
  <2>1. LocalTypes'
    BY <1>6, GotoType, LeaveType DEF TestManager, Stop_pcs, Ended
  <2>2. QED
    BY <1>6, <2>1 DEF TestManager, TypeOK, LocalTypes
<1>7. CASE GetManager(t)
  <2>1. LocalTypes'
    <3>1. CASE instance = None
      BY <1>7, <3>1, LeaveType DEF GetManager, Ended
    <3>2. CASE instance # None
      BY <1>7, <3>2, PcsDisjoint DEF GetManager, Goto, TypeOK, LocalTypes, Stop_pcs
    <3>3. QED
      BY <3>1, <3>2
  <2>2. QED
    BY <1>7, <2>1 DEF GetManager, TypeOK, LocalTypes
<1>8. CASE CloseLoop(t)
  <2>1. LocalTypes'
    BY <1>8, GotoType, LeaveType DEF CloseLoop, Stop_pcs, Ended
  <2>2. mgr[t] \in made
    BY <1>8 DEF CloseLoop, MadeInv, OwnNode, Working
  <2>3. beats' \in [Nodes -> Nat]
    BY <1>8 DEF CloseLoop, TypeOK
  <2>4. QED
    BY <1>8, <2>1, <2>2, <2>3 DEF CloseLoop, TypeOK, LocalTypes
<1>9. CASE UnsetManager(t)
  <2>1. LocalTypes'
    BY <1>9, LeaveType DEF UnsetManager, Ended
  <2>2. QED
    BY <1>9, <2>1 DEF UnsetManager, TypeOK, LocalTypes
<1>10. QED
  BY <1>1, <1>2, <1>3, <1>4, <1>5, <1>6, <1>7, <1>8, <1>9 DEF StopStep

LEMMA MadeInit == Init => MadeInv
  BY DEF Init, MadeInv, OwnNode, Working

(* A thread that leaves works on nothing. *)
LEMMA LeaveOwns ==
  ASSUME TypeOK, MadeInv, NEW t \in Threads, NEW l \in Ended, Leave(t, l), made \subseteq made',
         UNCHANGED groupOf
  PROVE  \A s \in Threads : OwnNode(s)'
<1>1. TAKE s \in Threads
<1>2. CASE s = t
  BY <1>2 DEF Leave, Goto, OwnNode, Working, TypeOK, Ended, MadeNodes
<1>3. CASE s # t
  BY <1>3 DEF Leave, Goto, OwnNode, Working, MadeInv, TypeOK, MadeNodes
<1>4. QED
  BY <1>2, <1>3

(* A thread that goes on with what it has. *)
LEMMA GotoOwns ==
  ASSUME TypeOK, MadeInv, NEW t \in Threads, NEW l, Goto(t, l), UNCHANGED localVars,
         made \subseteq made', UNCHANGED groupOf,
         \/ l \notin {"enter", "run", "multicast", "heartbeat", "services", "threads",
                      "cancel", "leave", "close", "unset"}
         \/ pc[t] \in {"enter", "run", "multicast", "heartbeat"} /\ l \in {"multicast", "heartbeat"}
         \/ pc[t] \in {"services", "threads", "cancel"} /\ l \in {"threads", "cancel", "leave"}
         \/ pc[t] = "close" /\ l = "unset"
  PROVE  \A s \in Threads : OwnNode(s)'
<1>1. TAKE s \in Threads
<1>2. CASE s = t
  BY <1>2 DEF Goto, OwnNode, Working, MadeInv, TypeOK, MadeNodes, localVars
<1>3. CASE s # t
  BY <1>3 DEF Goto, OwnNode, Working, MadeInv, TypeOK, MadeNodes, localVars
<1>4. QED
  BY <1>2, <1>3

LEMMA MadeCalls ==
  ASSUME TypeOK, MadeInv, NEW t \in Threads, CallShutdown(t) \/ \E g \in Groups : CallInit(t, g)
  PROVE  MadeInv'
<1> USE DEF classVars, managerVars, serviceVars
<1>1. CASE CallShutdown(t)
  <2>1. Entered \subseteq MadeNodes
    BY LifecycleAssumption DEF TypeOK, Entered, MadeInv, MadeNodes
  <2>2. ASSUME NEW s \in Threads PROVE OwnNode(s)'
    BY <1>1, <2>1 DEF CallShutdown, Goto, OwnNode, Working, MadeInv, TypeOK, MadeNodes
  <2>3. QED
    BY <1>1, <2>2 DEF CallShutdown, MadeInv
<1>2. ASSUME NEW g \in Groups, CallInit(t, g)
      PROVE  MadeInv'
  <2>1. CASE node_instances[g] # None
    BY <1>2, <2>1, LeaveOwns DEF CallInit, MadeInv, Ended
  <2>2. CASE node_instances[g] = None
    <3>1. ASSUME NEW s \in Threads PROVE OwnNode(s)'
      BY <1>2, <2>2 DEF CallInit, Goto, OwnNode, Working, MadeInv, TypeOK, MadeNodes
    <3>2. QED
      BY <1>2, <2>2, <3>1 DEF CallInit, MadeInv
  <2>3. QED
    BY <2>1, <2>2
<1>3. QED
  BY <1>1, <1>2

LEMMA MadeInitSteps ==
  ASSUME TypeOK, MadeInv, NEW t \in Threads, InitStep(t)
  PROVE  MadeInv'
<1> USE DEF classVars, managerVars, serviceVars, workerVars
<1>1. CASE MakeManager(t)
  BY <1>1, GotoOwns DEF MakeManager, MadeInv
<1>2. CASE ReadManager(t)
  <2>1. ASSUME NEW s \in Threads PROVE OwnNode(s)'
    BY <1>2 DEF ReadManager, Goto, OwnNode, Working, MadeInv, TypeOK, MadeNodes
  <2>2. QED
    BY <1>2, <2>1 DEF ReadManager, MadeInv
<1>3. CASE Construct(t)
  <2>1. CASE mgr[t] \in closed \cup {None}
    BY <1>3, <2>1, LeaveOwns DEF Construct, MadeInv, Ended
  <2>2. CASE mgr[t] \notin closed \cup {None}
    <3>1. PICK n \in Nodes :
            /\ groupOf[n] = None
            /\ Goto(t, "enter")
            /\ Handles(t, n)
            /\ groupOf' = [groupOf EXCEPT ![n] = group[t]]
            /\ UNCHANGED <<group, mgr, todo>>
      BY <1>3, <2>2 DEF Construct
    <3>2. group[t] \in Groups /\ group[t] # None
      BY <1>3 DEF Construct, TypeOK, Init_pcs
    <3>3. \A m \in Nodes : groupOf[m] # None => groupOf'[m] = groupOf[m]
      BY <3>1 DEF TypeOK
    <3>4. MadeNodes \subseteq MadeNodes'
      BY <3>3 DEF MadeNodes
    <3>5. ASSUME NEW s \in Threads PROVE OwnNode(s)'
      <4>1. CASE s = t
        BY <1>3, <3>1, <3>2, <3>4, <4>1 DEF Construct, Goto, Handles, OwnNode, Working, MadeInv, TypeOK
      <4>2. CASE s # t
        <5>1. pc'[s] = pc[s] /\ node'[s] = node[s] /\ todo'[s] = todo[s] /\ mgr'[s] = mgr[s]
              /\ group'[s] = group[s] /\ made' = made
          BY <1>3, <3>1, <4>2 DEF Construct, Goto, Handles, TypeOK
        <5>2. OwnNode(s)
          BY DEF MadeInv
        <5>3. pc[s] \in Init_pcs => group[s] # None
          BY DEF TypeOK
        <5>4. QED
          BY <5>1, <5>2, <5>3, <3>3, <3>4 DEF OwnNode, Working, Init_pcs
      <4>3. QED
        BY <4>1, <4>2
    <3>6. ASSUME NEW g \in Groups, node_instances[g] # None PROVE groupOf'[node_instances[g]] = g
      <4>1. node_instances[g] \in Nodes /\ groupOf[node_instances[g]] = g
        BY <3>6 DEF MadeInv, TypeOK
      <4>2. g # None
        BY LifecycleAssumption
      <4>3. QED
        BY <3>3, <4>1, <4>2
    <3>7. QED
      BY <1>3, <3>5, <3>6 DEF Construct, MadeInv
  <2>3. QED
    BY <2>1, <2>2
<1>4. CASE Enter(t)
  <2>1. \A s \in Threads : OwnNode(s)'
    BY <1>4, GotoOwns DEF Enter
  <2>2. node[t] \in Nodes /\ groupOf[node[t]] = group[t]
    BY <1>4 DEF Enter, MadeInv, OwnNode, Working
  <2>3. QED
    BY <1>4, <2>1, <2>2 DEF Enter, MadeInv, TypeOK
<1>5. CASE TestDefault(t)
  BY <1>5, GotoOwns DEF TestDefault, MadeInv
<1>6. CASE SetDefault(t)
  BY <1>6, GotoOwns, LeaveOwns DEF SetDefault, MadeInv, Ended
<1>7. CASE RegisterNodeInfo(t)
  BY <1>7, GotoOwns, LeaveOwns DEF RegisterNodeInfo, MadeInv, Ended
<1>8. CASE FindNode(t)
  <2>1. CASE node_instances[group[t]] = None
    BY <1>8, <2>1, LeaveOwns DEF FindNode, MadeInv, Ended
  <2>2. CASE node_instances[group[t]] # None
    <3>1. group[t] \in Groups
      BY <1>8 DEF FindNode, TypeOK, Init_pcs
    <3>2. ASSUME NEW s \in Threads PROVE OwnNode(s)'
      BY <1>8, <2>2, <3>1 DEF FindNode, Goto, Handles, OwnNode, Working, MadeInv, TypeOK, MadeNodes
    <3>3. QED
      BY <1>8, <3>2 DEF FindNode, MadeInv
  <2>3. QED
    BY <2>1, <2>2
<1>9. CASE StartRunning(t) \/ StartMulticast(t)
  BY <1>9, GotoOwns DEF StartRunning, StartMulticast, MadeInv
<1>10. CASE StartHeartbeat(t)
  BY <1>10, LeaveOwns DEF StartHeartbeat, MadeInv, Ended
<1>11. QED
  BY <1>1, <1>2, <1>3, <1>4, <1>5, <1>6, <1>7, <1>8, <1>9, <1>10 DEF InitStep

LEMMA MadeStopSteps ==
  ASSUME TypeOK, MadeInv, NEW t \in Threads, StopStep(t)
  PROVE  MadeInv'
<1> USE DEF classVars, managerVars, serviceVars, workerVars
<1>1. CASE NextNode(t)
  <2>1. CASE Goto(t, "clear") /\ UNCHANGED localVars
    BY <1>1, <2>1, GotoOwns DEF NextNode, MadeInv
  <2>2. ASSUME NEW n \in todo[t], Goto(t, "services"), Handles(t, n),
               todo' = [todo EXCEPT ![t] = @ \ {n}], UNCHANGED <<group, mgr>>
        PROVE  MadeInv'
    <3>1. ASSUME NEW s \in Threads PROVE OwnNode(s)'
      BY <1>1, <2>2 DEF NextNode, Goto, Handles, OwnNode, Working, MadeInv, TypeOK, MadeNodes
    <3>2. QED
      BY <1>1, <3>1 DEF NextNode, MadeInv
  <2>3. QED
    BY <1>1, <2>1, <2>2 DEF NextNode
<1>2. CASE StopServices(t) \/ StopMulticast(t)
  BY <1>2, GotoOwns DEF StopServices, StopMulticast, MadeInv
<1>3. CASE CancelHeartbeat(t)
  BY <1>3, GotoOwns, LeaveOwns DEF CancelHeartbeat, MadeInv, Ended
<1>4. CASE PopNode(t)
  <2>1. ASSUME NEW s \in Threads PROVE OwnNode(s)'
    BY <1>4 DEF PopNode, Goto, Handles, OwnNode, Working, MadeInv, TypeOK, MadeNodes
  <2>2. QED
    BY <1>4, <2>1 DEF PopNode, MadeInv, TypeOK
<1>5. CASE ClearNodes(t) \/ ResetDefault(t)
  BY <1>5, GotoOwns DEF ClearNodes, ResetDefault, MadeInv
<1>6. CASE TestManager(t)
  BY <1>6, GotoOwns, LeaveOwns DEF TestManager, MadeInv, Ended
<1>7. CASE GetManager(t)
  <2>1. CASE instance = None
    BY <1>7, <2>1, LeaveOwns DEF GetManager, MadeInv, Ended
  <2>2. CASE instance # None
    <3>1. ASSUME NEW s \in Threads PROVE OwnNode(s)'
      BY <1>7, <2>2 DEF GetManager, Goto, OwnNode, Working, MadeInv, TypeOK, MadeNodes
    <3>2. QED
      BY <1>7, <3>1 DEF GetManager, MadeInv
  <2>3. QED
    BY <2>1, <2>2
<1>8. CASE CloseLoop(t)
  BY <1>8, GotoOwns, LeaveOwns DEF CloseLoop, MadeInv, Ended
<1>9. CASE UnsetManager(t)
  BY <1>9, LeaveOwns DEF UnsetManager, MadeInv, Ended
<1>10. QED
  BY <1>1, <1>2, <1>3, <1>4, <1>5, <1>6, <1>7, <1>8, <1>9 DEF StopStep

(* Every step keeps the types. *)
LEMMA TypeStep ==
  ASSUME TypeOK, MadeInv, [Next]_vars
  PROVE  TypeOK' /\ MadeInv'
<1>1. CASE UNCHANGED vars
  BY <1>1 DEF TypeOK, MadeInv, OwnNode, Working, MadeNodes, vars, classVars, managerVars, serviceVars,
     workerVars, localVars
<1>2. ASSUME NEW t \in Threads, CallShutdown(t) \/ \E g \in Groups : CallInit(t, g)
      PROVE  TypeOK' /\ MadeInv'
  BY <1>2, TypeCalls, MadeCalls
<1>3. ASSUME NEW t \in Threads, InitStep(t)
      PROVE  TypeOK' /\ MadeInv'
  BY <1>3, TypeInitSteps, MadeInitSteps
<1>4. ASSUME NEW t \in Threads, StopStep(t)
      PROVE  TypeOK' /\ MadeInv'
  BY <1>4, TypeStopSteps, MadeStopSteps
<1>5. QED
  BY <1>1, <1>2, <1>3, <1>4 DEF Next

(***************************************************************************)
(* Every variable keeps its type: a call's group is set exactly while it   *)
(* is an init, and nothing is announced, served or registered for a node   *)
(* that has not been made.                                                 *)
(***************************************************************************)
THEOREM TypeCorrect == Spec => []TypeOK
<1>1. Init => TypeOK /\ MadeInv
  BY TypeInit, MadeInit
<1>2. TypeOK /\ MadeInv /\ [Next]_vars => (TypeOK /\ MadeInv)'
  BY TypeStep
<1>3. QED
  BY <1>1, <1>2, PTL DEF Spec

-----------------------------------------------------------------------------
(* A step of one thread leaves the others where they are. *)
LEMMA OthersSame ==
  ASSUME TypeOK, NEW t \in Threads, Act(t), NEW s \in Threads, s # t
  PROVE  Same(s)
<1> USE DEF TypeOK, Same, Goto
<1>1. ASSUME NEW l, Leave(t, l) PROVE Same(s)
  BY <1>1 DEF Leave
<1>2. ASSUME NEW l, Goto(t, l), UNCHANGED localVars PROVE Same(s)
  BY <1>2 DEF localVars
<1>3. ASSUME NEW l, NEW n, Goto(t, l), Handles(t, n), UNCHANGED <<group, mgr>>,
             \A r \in Threads : r # t => todo'[r] = todo[r]
      PROVE Same(s)
  BY <1>3 DEF Handles
<1>4. CASE CallShutdown(t)
  BY <1>4 DEF CallShutdown
<1>5. CASE \E g \in Groups : CallInit(t, g)
  BY <1>5, <1>1 DEF CallInit
<1>6. CASE InitStep(t)
  <2>1. CASE MakeManager(t)
    BY <2>1, <1>2 DEF MakeManager
  <2>2. CASE ReadManager(t)
    BY <2>2 DEF ReadManager
  <2>3. CASE Construct(t)
    BY <2>3, <1>1, <1>3 DEF Construct
  <2>4. CASE Enter(t) \/ TestDefault(t)
    BY <2>4, <1>2 DEF Enter, TestDefault
  <2>5. CASE SetDefault(t) \/ RegisterNodeInfo(t)
    BY <2>5, <1>1, <1>2 DEF SetDefault, RegisterNodeInfo
  <2>6. CASE FindNode(t)
    BY <2>6, <1>1, <1>3 DEF FindNode
  <2>7. CASE StartRunning(t) \/ StartMulticast(t) \/ StartHeartbeat(t)
    BY <2>7, <1>1, <1>2 DEF StartRunning, StartMulticast, StartHeartbeat
  <2>8. QED
    BY <1>6, <2>1, <2>2, <2>3, <2>4, <2>5, <2>6, <2>7 DEF InitStep
<1>7. CASE StopStep(t)
  <2>1. CASE NextNode(t)
    BY <2>1, <1>2, <1>3 DEF NextNode
  <2>2. CASE StopServices(t) \/ StopMulticast(t) \/ ClearNodes(t) \/ ResetDefault(t)
    BY <2>2, <1>2 DEF StopServices, StopMulticast, ClearNodes, ResetDefault
  <2>3. CASE CancelHeartbeat(t)
    BY <2>3, <1>1, <1>2 DEF CancelHeartbeat
  <2>4. CASE PopNode(t)
    BY <2>4, <1>3 DEF PopNode
  <2>5. CASE TestManager(t) \/ CloseLoop(t) \/ UnsetManager(t)
    BY <2>5, <1>1, <1>2 DEF TestManager, CloseLoop, UnsetManager
  <2>6. CASE GetManager(t)
    BY <2>6, <1>1 DEF GetManager
  <2>7. QED
    BY <1>7, <2>1, <2>2, <2>3, <2>4, <2>5, <2>6 DEF StopStep
<1>8. QED
  BY <1>4, <1>5, <1>6, <1>7 DEF Act

(***************************************************************************)
(* Where a step takes its thread: a call begins when the last one has      *)
(* ended, and stays an init or a shutdown until it ends.                   *)
(***************************************************************************)
LEMMA StepsOfACall ==
  ASSUME TypeOK, NEW t \in Threads, Act(t)
  PROVE  /\ pc'[t] \in Stop_pcs => pc[t] \in Stop_pcs \/ CallShutdown(t)
         /\ pc'[t] \in Init_pcs =>
              (pc[t] \in Init_pcs /\ group'[t] = group[t]) \/ (\E g \in Groups : CallInit(t, g))
<1> USE DEF TypeOK, Goto, Init_pcs, Stop_pcs
<1>1. ASSUME NEW l \in Ended, Leave(t, l) PROVE pc'[t] \notin Stop_pcs \cup Init_pcs
  BY <1>1 DEF Leave, Ended
<1>2. CASE InitStep(t)
  <2>1. pc[t] \in Init_pcs
    BY <1>2 DEF InitStep, MakeManager, ReadManager, Construct, Enter, TestDefault, SetDefault,
       RegisterNodeInfo, FindNode, StartRunning, StartMulticast, StartHeartbeat
  <2>2. CASE \E l \in Ended : Leave(t, l)
    BY <2>2, <1>1
  <2>3. CASE pc'[t] \in Init_pcs /\ group'[t] = group[t]
    BY <2>1, <2>3
  <2>4. (\E l \in Ended : Leave(t, l)) \/ (pc'[t] \in Init_pcs /\ group'[t] = group[t])
    <3>1. CASE MakeManager(t) \/ ReadManager(t) \/ Enter(t) \/ TestDefault(t) \/ StartRunning(t)
               \/ StartMulticast(t)
      BY <3>1 DEF MakeManager, ReadManager, Enter, TestDefault, StartRunning, StartMulticast,
         localVars
    <3>2. CASE Construct(t) \/ FindNode(t)
      BY <3>2 DEF Construct, FindNode, Ended
    <3>3. CASE SetDefault(t) \/ RegisterNodeInfo(t) \/ StartHeartbeat(t)
      BY <3>3 DEF SetDefault, RegisterNodeInfo, StartHeartbeat, Ended, localVars
    <3>4. QED
      BY <1>2, <3>1, <3>2, <3>3 DEF InitStep
  <2>5. QED
    BY <2>2, <2>3, <2>4
<1>3. CASE StopStep(t)
  <2>1. pc[t] \in Stop_pcs
    BY <1>3 DEF StopStep, NextNode, StopServices, StopMulticast, CancelHeartbeat, PopNode,
       ClearNodes, ResetDefault, TestManager, GetManager, CloseLoop, UnsetManager
  <2>2. CASE \E l \in Ended : Leave(t, l)
    BY <2>2, <1>1
  <2>3. CASE pc'[t] \in Stop_pcs
    BY <2>1, <2>3
  <2>4. (\E l \in Ended : Leave(t, l)) \/ pc'[t] \in Stop_pcs
    <3>1. CASE NextNode(t) \/ StopServices(t) \/ StopMulticast(t) \/ PopNode(t) \/ ClearNodes(t)
               \/ ResetDefault(t)
      BY <3>1 DEF NextNode, StopServices, StopMulticast, PopNode, ClearNodes, ResetDefault
    <3>2. CASE CancelHeartbeat(t) \/ TestManager(t) \/ GetManager(t)
      BY <3>2 DEF CancelHeartbeat, TestManager, GetManager, Ended
    <3>3. CASE CloseLoop(t) \/ UnsetManager(t)
      BY <3>3 DEF CloseLoop, UnsetManager, Ended
    <3>4. QED
      BY <1>3, <3>1, <3>2, <3>3 DEF StopStep
  <2>5. QED
    BY <2>2, <2>3, <2>4
<1>4. CASE CallShutdown(t)
  BY <1>4 DEF CallShutdown
<1>5. CASE \E g \in Groups : CallInit(t, g)
  <2>1. PICK g \in Groups : CallInit(t, g)
    BY <1>5
  <2>2. CASE node_instances[g] # None
    BY <1>1, <2>1, <2>2 DEF CallInit, Ended
  <2>3. CASE node_instances[g] = None
    BY <1>5, <2>1, <2>3 DEF CallInit
  <2>4. QED
    BY <2>2, <2>3
<1>6. QED
  BY <1>2, <1>3, <1>4, <1>5 DEF Act

LEMMA InACall ==
  ASSUME NEW t \in Threads, InitStep(t) \/ StopStep(t)
  PROVE  /\ overlaps' = overlaps
         /\ InitStep(t) => pc[t] \in Init_pcs
         /\ StopStep(t) => pc[t] \in Stop_pcs
<1>1. CASE InitStep(t)
  BY <1>1, PcsDisjoint DEF InitStep, MakeManager, ReadManager, Construct, Enter, TestDefault,
     SetDefault, RegisterNodeInfo, FindNode, StartRunning, StartMulticast, StartHeartbeat,
     Init_pcs, StopStep, NextNode, StopServices, StopMulticast, CancelHeartbeat, PopNode,
     ClearNodes, ResetDefault, TestManager, GetManager, CloseLoop, UnsetManager
<1>2. CASE StopStep(t)
  BY <1>2, PcsDisjoint DEF StopStep, NextNode, StopServices, StopMulticast, CancelHeartbeat,
     PopNode, ClearNodes, ResetDefault, TestManager, GetManager, CloseLoop, UnsetManager,
     Stop_pcs, InitStep, MakeManager, ReadManager, Construct, Enter, TestDefault, SetDefault,
     RegisterNodeInfo, FindNode, StartRunning, StartMulticast, StartHeartbeat
<1>3. QED
  BY <1>1, <1>2

-----------------------------------------------------------------------------
(* The loop manager. *)

LEMMA ManagerInit == Init => ManagerInv
  BY LifecycleAssumption DEF Init, ManagerInv

LEMMA ManagerStep ==
  ASSUME TypeOK, MadeInv, ManagerInv, NEW t \in Threads, Act(t)
  PROVE  ManagerInv'
<1> USE DEF classVars, managerVars, serviceVars, workerVars, localVars
<1>1. \A s \in Threads : s # t => Same(s)
  BY OthersSame
<1>2. None \notin made
  BY LifecycleAssumption DEF TypeOK
<1>3. ASSUME pc[t] # "unset", pc'[t] # "unset", UNCHANGED closed,
             \/ UNCHANGED <<made, instance>>
             \/ instance = None /\ instance' \notin closed /\ made' = made \cup {instance'}
      PROVE  ManagerInv'
  <2>1. \A s \in Threads : pc'[s] = "unset" <=> pc[s] = "unset"
    BY <1>1, <1>3 DEF Same
  <2>2. \A s \in Threads : pc[s] = "unset" => mgr'[s] = mgr[s]
    BY <1>1, <1>3 DEF Same
  <2>3. instance = None => ~ \E s \in Threads : pc[s] = "unset"
    BY <1>2 DEF ManagerInv, TypeOK
  <2>4. CASE UNCHANGED <<made, instance>>
    BY <1>3, <2>1, <2>2, <2>4 DEF ManagerInv
  <2>5. CASE instance = None /\ instance' \notin closed /\ made' = made \cup {instance'}
    BY <1>2, <1>3, <2>1, <2>3, <2>5 DEF ManagerInv
  <2>6. QED
    BY <1>3, <2>4, <2>5
<1>4. ASSUME NEW l, l # "unset", Goto(t, l) PROVE pc'[t] # "unset"
  BY <1>4 DEF Goto, TypeOK
<1>5. ASSUME NEW l, l # "unset", Leave(t, l) PROVE pc'[t] # "unset"
  BY <1>5 DEF Leave, Goto, TypeOK
<1>6. CASE CallShutdown(t) \/ \E g \in Groups : CallInit(t, g)
  BY <1>3, <1>4, <1>5, <1>6 DEF CallShutdown, CallInit, Ended
<1>7. CASE InitStep(t)
  <2>1. CASE MakeManager(t)
    BY <1>3, <1>4, <2>1 DEF MakeManager, TypeOK
  <2>2. CASE ReadManager(t) \/ Enter(t) \/ TestDefault(t) \/ SetDefault(t) \/ RegisterNodeInfo(t)
    BY <1>3, <1>4, <1>5, <2>2
    DEF ReadManager, Enter, TestDefault, SetDefault, RegisterNodeInfo
  <2>3. CASE Construct(t) \/ FindNode(t) \/ StartRunning(t) \/ StartMulticast(t) \/ StartHeartbeat(t)
    BY <1>3, <1>4, <1>5, <2>3
    DEF Construct, FindNode, StartRunning, StartMulticast, StartHeartbeat
  <2>4. QED
    BY <1>7, <2>1, <2>2, <2>3 DEF InitStep
<1>8. CASE CloseLoop(t)
  <2>1. CASE mgr[t] \in closed
    BY <1>3, <1>5, <1>8, <2>1 DEF CloseLoop
  <2>2. CASE mgr[t] \notin closed
    <3>1. mgr[t] = instance
      BY <1>8, <2>2 DEF CloseLoop, MadeInv, OwnNode, Working, ManagerInv
    <3>2. \A s \in Threads : pc[s] # "unset"
      BY <1>8, <3>1 DEF CloseLoop, ManagerInv
    <3>3. pc'[t] = "unset" /\ mgr'[t] = instance /\ closed' = closed \cup {instance}
      BY <1>8, <2>2, <3>1 DEF CloseLoop, Goto, TypeOK
    <3>4. \A s \in Threads : pc'[s] = "unset" => s = t
      BY <1>1, <3>2 DEF Same
    <3>5. QED
      BY <1>8, <3>3, <3>4 DEF CloseLoop, ManagerInv
  <2>3. QED
    BY <2>1, <2>2
<1>9. CASE UnsetManager(t)
  <2>1. made \subseteq closed
    BY <1>9 DEF UnsetManager, ManagerInv
  <2>2. \A s \in Threads : pc'[s] # "unset"
    BY <1>1, <1>5, <1>9 DEF UnsetManager, ManagerInv, Same
  <2>3. instance' = None /\ made' = made /\ closed' = closed
    BY <1>9 DEF UnsetManager
  <2>4. None \notin closed
    BY <1>2 DEF TypeOK
  <2>5. QED
    BY <2>1, <2>2, <2>3, <2>4 DEF ManagerInv
<1>10. CASE NextNode(t) \/ StopServices(t) \/ StopMulticast(t) \/ CancelHeartbeat(t) \/ PopNode(t)
  BY <1>3, <1>4, <1>5, <1>10
  DEF NextNode, StopServices, StopMulticast, CancelHeartbeat, PopNode
<1>11. CASE ClearNodes(t) \/ ResetDefault(t) \/ TestManager(t) \/ GetManager(t)
  BY <1>3, <1>4, <1>5, <1>11 DEF ClearNodes, ResetDefault, TestManager, GetManager
<1>12. QED
  BY <1>6, <1>7, <1>8, <1>9, <1>10, <1>11 DEF Act, StopStep

-----------------------------------------------------------------------------
(* What overlaps. *)

LEMMA OverlapInit == Init => OverlapInv
  BY DEF Init, OverlapInv, Init_pcs, Stop_pcs

LEMMA OverlapStep ==
  ASSUME TypeOK, TypeOK', OverlapInv, NEW t \in Threads, Act(t)
  PROVE  OverlapInv'
<1>1. \A s \in Threads : s # t => Same(s)
  BY OthersSame
<1>2. CASE CallShutdown(t)
  <2>1. pc'[t] = "next" /\ group[t] = None /\ group' = group
    BY <1>2, PcsDisjoint DEF CallShutdown, Goto, TypeOK
  <2>2. \A s \in Threads : s # t /\ pc[s] \in Stop_pcs => "shutdowns" \in overlaps'
    BY <1>2 DEF CallShutdown, MarkShutdown, Stoppers
  <2>3. \A s \in Threads : pc[s] \in Init_pcs => "init_shutdown" \in overlaps'
    <3>1. \A s \in Threads : pc[s] \in Init_pcs => group[s] \in Groups
      BY DEF TypeOK
    <3>2. QED
      BY <1>2, <3>1 DEF CallShutdown, MarkShutdown, InitsIn
  <2>4. overlaps \subseteq overlaps'
    BY <1>2 DEF CallShutdown, MarkShutdown
  <2>5. pc'[t] \notin Init_pcs
    BY <2>1 DEF Init_pcs
  <2>6. QED
    BY <1>1, <2>1, <2>2, <2>3, <2>4, <2>5 DEF OverlapInv, Same
<1>3. ASSUME NEW g \in Groups, CallInit(t, g), node_instances[g] = None
      PROVE  OverlapInv'
  <2>1. pc'[t] = "manager" /\ group'[t] = g
    BY <1>3 DEF CallInit, Goto, TypeOK
  <2>2. \A s \in Threads : group[s] = g => "inits" \in overlaps'
    BY <1>3 DEF CallInit, InitsIn
  <2>3. \A s \in Threads : pc[s] \in Stop_pcs => "init_shutdown" \in overlaps'
    BY <1>3 DEF CallInit, Stoppers
  <2>4. overlaps \subseteq overlaps'
    BY <1>3 DEF CallInit
  <2>5. pc'[t] \notin Stop_pcs
    BY <2>1 DEF Stop_pcs
  <2>6. \A r, s \in Threads : pc'[r] \in Init_pcs /\ pc'[s] \in Stop_pcs => "init_shutdown" \in overlaps'
    BY <1>1, <2>3, <2>4, <2>5 DEF OverlapInv, Same
  <2>7. \A r, s \in Threads : r # s /\ pc'[r] \in Init_pcs /\ group'[r] = group'[s] => "inits" \in overlaps'
    BY <1>1, <2>1, <2>2, <2>4 DEF OverlapInv, Same
  <2>8. \A r, s \in Threads : r # s /\ pc'[r] \in Stop_pcs /\ pc'[s] \in Stop_pcs => "shutdowns" \in overlaps'
    BY <1>1, <2>4, <2>5 DEF OverlapInv, Same
  <2>9. QED
    BY <2>6, <2>7, <2>8 DEF OverlapInv
<1>4. ASSUME overlaps' = overlaps, ~ CallShutdown(t),
             pc'[t] \in Init_pcs => pc[t] \in Init_pcs /\ group'[t] = group[t]
      PROVE  OverlapInv'
  <2>1. pc'[t] \in Stop_pcs => pc[t] \in Stop_pcs
    BY <1>4, StepsOfACall, PcsDisjoint
  <2>2. \A s \in Threads : group'[s] # None <=> pc'[s] \in Init_pcs
    BY DEF TypeOK
  <2>3. QED
    BY <1>1, <1>4, <2>1, <2>2 DEF OverlapInv, Same
<1>5. CASE InitStep(t) \/ StopStep(t)
  <2>1. ~ CallShutdown(t) /\ ~ \E g \in Groups : CallInit(t, g)
    BY <1>5, InACall, PcsDisjoint DEF CallShutdown, CallInit
  <2>2. QED
    BY <1>4, <1>5, <2>1, InACall, StepsOfACall
<1>6. ASSUME NEW g \in Groups, CallInit(t, g), node_instances[g] # None
      PROVE  OverlapInv'
  <2>1. pc'[t] \notin Init_pcs \cup Stop_pcs
    BY <1>6 DEF CallInit, Leave, Goto, TypeOK, Init_pcs, Stop_pcs
  <2>2. ~ CallShutdown(t)
    BY <2>1 DEF CallShutdown, Goto, TypeOK, Stop_pcs
  <2>3. QED
    BY <1>4, <1>6, <2>1, <2>2 DEF CallInit
<1>7. QED
  BY <1>2, <1>3, <1>5, <1>6 DEF Act

-----------------------------------------------------------------------------
(* The node that an init is going to enter. *)

(* Only Enter enters a node. *)
LEMMA OnlyEnter ==
  ASSUME TypeOK, NEW t \in Threads, Act(t), ~ Enter(t)
  PROVE  /\ \A g \in Groups : node_instances'[g] \in {node_instances[g], None}
         /\ Entered' \subseteq Entered
<1>1. \A g \in Groups : node_instances'[g] \in {node_instances[g], None}
  <2> USE DEF classVars
  <2>1. CASE CallShutdown(t) \/ (\E g \in Groups : CallInit(t, g)) \/ InitStep(t)
    BY <2>1 DEF CallShutdown, CallInit, InitStep, MakeManager, ReadManager, Construct, TestDefault,
       SetDefault, RegisterNodeInfo, FindNode, StartRunning, StartMulticast, StartHeartbeat
  <2>2. CASE PopNode(t) \/ ClearNodes(t)
    BY <2>2 DEF PopNode, ClearNodes, TypeOK
  <2>3. CASE StopStep(t)
    BY <2>2, <2>3 DEF StopStep, NextNode, StopServices, StopMulticast, CancelHeartbeat,
       ResetDefault, TestManager, GetManager, CloseLoop, UnsetManager
  <2>4. QED
    BY <2>1, <2>3 DEF Act
<1>2. QED
  BY <1>1 DEF Entered

(* Only Construct makes a node, and only RegisterNodeInfo registers one. *)
LEMMA OnlyConstruct ==
  ASSUME TypeOK, NEW t \in Threads, Act(t), ~ Construct(t)
  PROVE  /\ pc'[t] # "enter"
         /\ groupOf' = groupOf /\ manager' = manager
         /\ ~ RegisterNodeInfo(t) => registered' = registered
<1> USE DEF TypeOK, Goto, Leave, serviceVars
<1>1. CASE CallShutdown(t) \/ (\E g \in Groups : CallInit(t, g))
  BY <1>1 DEF CallShutdown, CallInit
<1>2. CASE MakeManager(t) \/ ReadManager(t) \/ Enter(t) \/ TestDefault(t) \/ SetDefault(t)
  BY <1>2 DEF MakeManager, ReadManager, Enter, TestDefault, SetDefault
<1>3. CASE RegisterNodeInfo(t) \/ FindNode(t)
  BY <1>3 DEF RegisterNodeInfo, FindNode
<1>4. CASE StartRunning(t) \/ StartMulticast(t) \/ StartHeartbeat(t)
  BY <1>4 DEF StartRunning, StartMulticast, StartHeartbeat
<1>5. CASE NextNode(t) \/ StopServices(t) \/ StopMulticast(t) \/ CancelHeartbeat(t)
  BY <1>5 DEF NextNode, StopServices, StopMulticast, CancelHeartbeat
<1>6. CASE PopNode(t) \/ ClearNodes(t) \/ ResetDefault(t) \/ TestManager(t) \/ GetManager(t)
  BY <1>6 DEF PopNode, ClearNodes, ResetDefault, TestManager, GetManager
<1>7. CASE CloseLoop(t) \/ UnsetManager(t)
  BY <1>7 DEF CloseLoop, UnsetManager
<1>8. QED
  BY <1>1, <1>2, <1>3, <1>4, <1>5, <1>6, <1>7 DEF Act, InitStep, StopStep

LEMMA FreshInit == Init => FreshInv
  BY DEF Init, FreshInv

LEMMA FreshStep ==
  ASSUME TypeOK, MadeInv, FreshInv, NEW t \in Threads, Act(t)
  PROVE  FreshInv'
<1>1. \A s \in Threads : s # t => Same(s)
  BY OthersSame
<1>2. \A n \in Entered : n \in MadeNodes
  BY LifecycleAssumption DEF Entered, MadeInv, MadeNodes, TypeOK
<1>3. CASE Construct(t)
  <2>1. ~ Enter(t) /\ registered' = registered
    BY <1>3 DEF Construct, Enter, serviceVars
  <2>2. Entered' \subseteq Entered
    BY <2>1, OnlyEnter
  <2>3. CASE mgr[t] \in closed \cup {None}
    <3>1. pc'[t] # "enter"
      BY <1>3, <2>3 DEF Construct, Leave, Goto, TypeOK
    <3>2. QED
      BY <1>1, <2>1, <2>2, <3>1 DEF FreshInv, Same
  <2>4. CASE mgr[t] \notin closed \cup {None}
    <3>1. node'[t] \notin MadeNodes
      BY <1>3, <2>4 DEF Construct, Handles, TypeOK, MadeNodes
    <3>2. \A s \in Threads : s # t /\ pc[s] = "enter" => node[s] \in MadeNodes
      <4>1. \A s \in Threads : pc[s] = "enter" => group[s] # None
        BY DEF TypeOK, Init_pcs
      <4>2. QED
        BY <4>1 DEF MadeInv, OwnNode, Working, MadeNodes
    <3>3. registered \subseteq MadeNodes
      BY DEF TypeOK, MadeNodes
    <3>4. QED
      BY <1>1, <1>2, <2>1, <2>2, <3>1, <3>2, <3>3 DEF FreshInv, Same
  <2>5. QED
    BY <2>3, <2>4
<1>4. CASE Enter(t)
  <2>1. Entered' \subseteq Entered \cup {node[t]} /\ registered' = registered /\ pc'[t] # "enter"
    BY <1>4 DEF Enter, Entered, TypeOK, Goto, serviceVars
  <2>2. QED
    BY <1>1, <1>4, <2>1 DEF FreshInv, Same, Enter
<1>5. CASE RegisterNodeInfo(t)
  <2>1. registered' \subseteq registered \cup Entered
    <3>1. group[t] \in Groups
      BY <1>5 DEF RegisterNodeInfo, TypeOK, Init_pcs
    <3>2. QED
      BY <1>5, <3>1 DEF RegisterNodeInfo, Entered
  <2>2. ~ Enter(t) /\ ~ Construct(t)
    BY <1>5 DEF RegisterNodeInfo, Enter, Construct
  <2>3. QED
    BY <1>1, <2>1, <2>2, OnlyEnter, OnlyConstruct DEF FreshInv, Same
<1>6. CASE ~ Construct(t) /\ ~ Enter(t) /\ ~ RegisterNodeInfo(t)
  BY <1>1, <1>6, OnlyEnter, OnlyConstruct DEF FreshInv, Same
<1>7. QED
  BY <1>3, <1>4, <1>5, <1>6

-----------------------------------------------------------------------------
(* The nodes of a session: between two shutdowns. *)

LEMMA PendingOf ==
  ASSUME NEW t \in Threads
  PROVE  /\ pc[t] = "next" => Pending(t) = todo[t]
         /\ pc[t] \in Working => Pending(t) = todo[t] \cup {node[t]}
         /\ pc[t] \notin Working \cup {"next"} => Pending(t) = {}
  BY DEF Pending, Working

LEMMA SessionInit == Init => SessionInv
  BY PendingOf DEF Init, SessionInv, Entered, Stop_pcs, Working

(* While inits run and no shutdown. *)
LEMMA SessionInitSteps ==
  ASSUME TypeOK, TypeOK', MadeInv, FreshInv, OverlapInv, OverlapInv', SessionInv,
         NEW t \in Threads, InitStep(t)
  PROVE  SessionInv'
<1> SUFFICES ASSUME Apart'
             PROVE  SessionInv'
  BY DEF SessionInv
<1>1. \A s \in Threads : s # t => Same(s)
  BY OthersSame DEF Act
<1>2. Apart /\ pc[t] \in Init_pcs /\ \A s \in Threads : pc[s] \notin Stop_pcs
  BY InACall DEF Apart, OverlapInv
<1>3. \A s \in Threads : pc'[s] \notin Stop_pcs
  <2>1. ~ CallShutdown(t)
    BY <1>2, PcsDisjoint DEF CallShutdown
  <2>2. QED
    BY <1>1, <1>2, <2>1, StepsOfACall DEF Act, Same
<1>4. \A s \in Threads : Pending(s)' = {} /\ pc'[s] # "close"
  BY <1>3 DEF Pending, Working, Stop_pcs
<1>5. ASSUME \A n \in Entered' : manager'[n] = instance',
             \A s \in Threads :
               /\ pc'[s] = "construct" => mgr'[s] \in {instance', None}
               /\ pc'[s] = "enter" => manager'[node'[s]] = instance'
      PROVE  SessionInv'
  BY <1>3, <1>4, <1>5 DEF SessionInv
<1>6. \A n \in Entered : n \in MadeNodes /\ manager[n] = instance
  BY <1>2, LifecycleAssumption DEF Entered, MadeInv, MadeNodes, TypeOK, SessionInv
<1>7. \A s \in Threads : pc[s] = "enter" =>
        /\ node[s] \in MadeNodes
        /\ manager[node[s]] = instance
        /\ node[s] \notin Entered
  <2>1. \A s \in Threads : pc[s] = "enter" => group[s] # None
    BY DEF TypeOK, Init_pcs
  <2>2. QED
    BY <1>2, <2>1 DEF MadeInv, OwnNode, Working, MadeNodes, SessionInv, FreshInv
<1>8. \A n \in MadeNodes : manager[n] # None
  BY DEF TypeOK, MadeNodes
<1>9. CASE MakeManager(t)
  <2>1. ~ Enter(t) /\ ~ Construct(t) /\ pc'[t] = "read"
    BY <1>9 DEF MakeManager, Enter, Construct, Goto, TypeOK
  <2>2. Entered' \subseteq Entered /\ manager' = manager
    BY <2>1, OnlyEnter, OnlyConstruct DEF Act
  <2>3. instance # None => instance' = instance
    BY <1>9 DEF MakeManager
  <2>4. CASE instance # None
    BY <1>1, <1>2, <1>5, <1>6, <1>7, <2>1, <2>2, <2>3, <2>4 DEF Same, SessionInv
  <2>5. CASE instance = None
    BY <1>1, <1>2, <1>5, <1>6, <1>7, <1>8, <2>1, <2>2, <2>5 DEF Same, SessionInv
  <2>6. QED
    BY <2>4, <2>5
<1>10. CASE ReadManager(t)
  <2>1. ~ Enter(t) /\ ~ Construct(t) /\ pc'[t] = "construct" /\ mgr'[t] = instance
    BY <1>10 DEF ReadManager, Enter, Construct, Goto, TypeOK
  <2>2. Entered' \subseteq Entered /\ manager' = manager
    BY <2>1, OnlyEnter, OnlyConstruct DEF Act
  <2>3. instance' = instance
    BY <1>10 DEF ReadManager, managerVars
  <2>4. QED
    BY <1>1, <1>2, <1>5, <1>6, <1>7, <2>1, <2>2, <2>3 DEF Same, SessionInv
<1>11. CASE Construct(t)
  <2>1. ~ Enter(t) /\ instance' = instance
    BY <1>11 DEF Construct, Enter, managerVars
  <2>2. Entered' \subseteq Entered
    BY <2>1, OnlyEnter DEF Act
  <2>3. CASE mgr[t] \in closed \cup {None}
    <3>1. pc'[t] = "failed" /\ manager' = manager
      BY <1>11, <2>3 DEF Construct, Leave, Goto, TypeOK, serviceVars
    <3>2. QED
      BY <1>1, <1>2, <1>5, <1>6, <1>7, <2>1, <2>2, <3>1 DEF Same, SessionInv
  <2>4. CASE mgr[t] \notin closed \cup {None}
    <3>1. mgr[t] = instance
      BY <1>2, <1>11, <2>4 DEF Construct, SessionInv
    <3>2. pc'[t] = "enter" /\ manager'[node'[t]] = instance
      BY <1>11, <2>4, <3>1 DEF Construct, Handles, Goto, TypeOK
    <3>3. \A n \in MadeNodes : manager'[n] = manager[n]
      BY <1>11, <2>4 DEF Construct, MadeNodes, TypeOK
    <3>4. QED
      BY <1>1, <1>2, <1>5, <1>6, <1>7, <2>1, <2>2, <3>2, <3>3 DEF Same, SessionInv
  <2>5. QED
    BY <2>3, <2>4
<1>12. CASE Enter(t)
  <2>1. Entered' \subseteq Entered \cup {node[t]} /\ pc[t] = "enter"
        /\ pc'[t] \in {"default", "register"} /\ manager' = manager /\ instance' = instance
    BY <1>12 DEF Enter, Entered, TypeOK, Goto, serviceVars, managerVars
  <2>2. QED
    BY <1>1, <1>2, <1>5, <1>6, <1>7, <2>1 DEF Same, SessionInv
<1>13. CASE TestDefault(t) \/ SetDefault(t) \/ RegisterNodeInfo(t) \/ FindNode(t)
            \/ StartRunning(t) \/ StartMulticast(t) \/ StartHeartbeat(t)
  <2>1. ~ Enter(t) /\ ~ Construct(t) /\ ~ ReadManager(t) /\ instance' = instance
    BY <1>13 DEF TestDefault, SetDefault, RegisterNodeInfo, FindNode, StartRunning,
       StartMulticast, StartHeartbeat, Enter, Construct, ReadManager, managerVars
  <2>2. Entered' \subseteq Entered /\ manager' = manager /\ pc'[t] # "enter"
    BY <2>1, OnlyEnter, OnlyConstruct DEF Act
  <2>3. pc'[t] # "construct"
    BY <1>13 DEF TestDefault, SetDefault, RegisterNodeInfo, FindNode, StartRunning,
       StartMulticast, StartHeartbeat, Goto, Leave, TypeOK
  <2>4. QED
    BY <1>1, <1>2, <1>5, <1>6, <1>7, <2>1, <2>2, <2>3 DEF Same, SessionInv
<1>14. QED
  BY <1>9, <1>10, <1>11, <1>12, <1>13 DEF InitStep

(* A shutdown is done with a node only when the node is not entered any more. *)
LEMMA PendingStep ==
  ASSUME TypeOK, MadeInv, NEW t \in Threads, StopStep(t), pc'[t] \in Stop_pcs,
         Entered \subseteq Pending(t)
  PROVE  /\ Pending(t)' \subseteq Pending(t)
         /\ Entered' \subseteq Pending(t)'
<1> USE DEF Goto, Handles, Working, localVars, TypeOK, classVars
<1>1. \A n \in Entered : n \in MadeNodes /\ node_instances[groupOf[n]] = n
  BY LifecycleAssumption DEF Entered, MadeInv, MadeNodes
<1>2. Entered' \subseteq Entered
  <2>1. ~ Enter(t)
    BY InACall, PcsDisjoint DEF Enter, Init_pcs
  <2>2. QED
    BY <2>1, OnlyEnter DEF Act
<1>3. ASSUME Pending(t) = Pending(t)' PROVE Pending(t)' \subseteq Pending(t) /\ Entered' \subseteq Pending(t)'
  BY <1>2, <1>3
<1>4. CASE NextNode(t)
  <2>1. Pending(t) = Pending(t)'
    BY <1>4 DEF NextNode, Pending
  <2>2. QED
    BY <1>3, <2>1
<1>5. CASE StopServices(t) \/ StopMulticast(t)
  <2>1. Pending(t) = Pending(t)'
    BY <1>5 DEF StopServices, StopMulticast, Pending
  <2>2. QED
    BY <1>3, <2>1
<1>6. CASE CancelHeartbeat(t)
  <2>1. pc'[t] = "leave"
    BY <1>6 DEF CancelHeartbeat, Leave, Stop_pcs
  <2>2. Pending(t) = Pending(t)'
    BY <1>6, <2>1 DEF CancelHeartbeat, Leave, Pending
  <2>3. QED
    BY <1>3, <2>2
<1>7. CASE PopNode(t)
  <2>1. Pending(t) = todo[t] \cup {node[t]} /\ Pending(t)' = todo[t]
    BY <1>7 DEF PopNode, Pending
  <2>2. node[t] \in MadeNodes
    BY <1>7 DEF PopNode, MadeInv, OwnNode
  <2>3. node[t] \notin Entered'
    <3>1. SUFFICES ASSUME NEW g \in Groups, node_instances'[g] = node[t] PROVE FALSE
      BY <2>2, <1>7 DEF Entered, PopNode, MadeNodes
    <3>2. node_instances[g] = node[t] /\ g # groupOf[node[t]]
      BY <1>7, <2>2, <3>1, LifecycleAssumption DEF PopNode, MadeNodes
    <3>3. QED
      BY <2>2, <3>2, LifecycleAssumption DEF MadeInv, MadeNodes
  <2>4. QED
    BY <1>2, <2>1, <2>3
<1>8. CASE ClearNodes(t) \/ ResetDefault(t) \/ TestManager(t) \/ GetManager(t) \/ CloseLoop(t)
           \/ UnsetManager(t)
  <2>1. pc[t] \notin Working \cup {"next"}
    BY <1>8 DEF ClearNodes, ResetDefault, TestManager, GetManager, CloseLoop, UnsetManager
  <2>2. pc'[t] \notin Working \cup {"next"}
    BY <1>8 DEF ClearNodes, ResetDefault, TestManager, GetManager, CloseLoop, UnsetManager, Leave,
       Stop_pcs
  <2>3. Pending(t) = {} /\ Pending(t)' = {}
    BY <2>1, <2>2 DEF Pending
  <2>4. QED
    BY <1>2, <2>3
<1>9. QED
  BY <1>4, <1>5, <1>6, <1>7, <1>8 DEF StopStep

(* While shutdowns run and no init. *)
LEMMA SessionStopSteps ==
  ASSUME TypeOK, TypeOK', MadeInv, MadeInv', ManagerInv, OverlapInv, OverlapInv', SessionInv,
         NEW t \in Threads, StopStep(t)
  PROVE  SessionInv'
<1> SUFFICES ASSUME Apart'
             PROVE  SessionInv'
  BY DEF SessionInv
<1>1. \A s \in Threads : s # t => Same(s)
  BY OthersSame DEF Act
<1>2. Apart /\ pc[t] \in Stop_pcs /\ \A s \in Threads : pc[s] \notin Init_pcs
  BY InACall DEF Apart, OverlapInv
<1>3. \A s \in Threads : pc'[s] \notin Init_pcs
  <2>1. ~ \E g \in Groups : CallInit(t, g)
    BY <1>2, PcsDisjoint DEF CallInit
  <2>2. QED
    BY <1>1, <1>2, <2>1, StepsOfACall DEF Act, Same
<1>4. ~ Enter(t) /\ ~ Construct(t)
  BY <1>2, PcsDisjoint DEF Enter, Construct, Init_pcs
<1>5. /\ \A g \in Groups : node_instances'[g] \in {node_instances[g], None}
      /\ Entered' \subseteq Entered
      /\ groupOf' = groupOf /\ manager' = manager
  BY <1>4, OnlyEnter, OnlyConstruct DEF Act
<1>6. \A s \in Threads : s # t => Pending(s)' = Pending(s)
  BY <1>1 DEF Same, Pending
<1>7. Entered \subseteq Pending(t) /\ \A n \in Entered : manager[n] = instance
  BY <1>2 DEF SessionInv
<1>8. instance' = instance \/ (instance' = None /\ UnsetManager(t))
  BY DEF StopStep, NextNode, StopServices, StopMulticast, CancelHeartbeat, PopNode, ClearNodes,
     ResetDefault, TestManager, GetManager, CloseLoop, UnsetManager, managerVars
<1>9. \A n \in Entered' : manager'[n] = instance'
  <2>1. UnsetManager(t) => Entered = {}
    BY <1>7 DEF UnsetManager, Pending, Working
  <2>2. QED
    BY <1>5, <1>7, <1>8, <2>1
<1>10. \A s \in Threads : pc'[s] = "close" => instance' \in {mgr'[s], None}
  <2>1. ASSUME NEW s \in Threads, s # t, pc'[s] = "close" PROVE instance' \in {mgr'[s], None}
    BY <1>1, <1>2, <1>8, <2>1 DEF Same, SessionInv
  <2>2. pc'[t] = "close" => GetManager(t)
    BY DEF StopStep, NextNode, StopServices, StopMulticast, CancelHeartbeat, PopNode, ClearNodes,
       ResetDefault, TestManager, CloseLoop, UnsetManager, Goto, Leave, TypeOK
  <2>3. GetManager(t) /\ pc'[t] = "close" => mgr'[t] = instance /\ instance' = instance
    BY DEF GetManager, Leave, Goto, TypeOK, managerVars
  <2>4. QED
    BY <2>1, <2>2, <2>3
<1>11. \A s \in Threads : pc'[s] \in Stop_pcs => Entered' \subseteq Pending(s)'
  <2>1. ASSUME NEW s \in Threads, s # t, pc'[s] \in Stop_pcs PROVE Entered' \subseteq Pending(s)'
    BY <1>1, <1>2, <1>5, <1>6, <2>1 DEF Same, SessionInv
  <2>2. QED
    BY <1>7, <2>1, PendingStep
<1>12. \A s \in Threads : Pending(s)' \subseteq Pending(s)
  <2>1. pc'[t] \notin Stop_pcs => Pending(t)' = {}
    BY DEF Pending, Working, Stop_pcs
  <2>2. QED
    BY <1>6, <1>7, <2>1, PendingStep
<1>13. ASSUME NEW s \in Threads, NEW n \in Pending(s)'
       PROVE  node_instances'[groupOf'[n]] \in {n, None}
  <2>1. n \in Pending(s) /\ n \in MadeNodes
    BY <1>12, <1>13 DEF Pending, MadeInv, OwnNode
  <2>2. groupOf[n] \in Groups
    BY <2>1 DEF TypeOK, MadeNodes
  <2>3. node_instances[groupOf[n]] \in {n, None}
    BY <1>2, <2>1 DEF SessionInv
  <2>4. QED
    BY <1>5, <2>2, <2>3
<1>14. QED
  BY <1>3, <1>9, <1>10, <1>11, <1>13 DEF SessionInv, Init_pcs

LEMMA SessionCalls ==
  ASSUME TypeOK, TypeOK', MadeInv, OverlapInv', SessionInv, NEW t \in Threads,
         CallShutdown(t) \/ \E g \in Groups : CallInit(t, g)
  PROVE  SessionInv'
<1> SUFFICES ASSUME Apart'
             PROVE  SessionInv'
  BY DEF SessionInv
<1>1. \A s \in Threads : s # t => Same(s) /\ Pending(s)' = Pending(s)
  BY OthersSame DEF Act, Same, Pending
<1>2. Apart /\ UNCHANGED <<node_instances, groupOf, manager, instance>>
  BY DEF Apart, CallShutdown, CallInit, MarkShutdown, classVars, managerVars, serviceVars
<1>3. Entered' = Entered
  BY <1>2 DEF Entered
<1>4. pc'[t] \notin {"construct", "enter", "close"}
  BY DEF CallShutdown, CallInit, Leave, Goto, TypeOK
<1>5. pc'[t] \in Stop_pcs => Entered \subseteq Pending(t)'
  BY <1>2 DEF CallShutdown, CallInit, Leave, Goto, TypeOK, Pending, Stop_pcs
<1>6. \A n \in Pending(t)' : node_instances[groupOf[n]] \in {n, None}
  <2>1. \A n \in Entered : node_instances[groupOf[n]] = n
    BY LifecycleAssumption DEF Entered, MadeInv, TypeOK
  <2>2. CASE CallShutdown(t)
    BY <2>1, <2>2 DEF CallShutdown, Goto, TypeOK, Pending
  <2>3. CASE \E g \in Groups : CallInit(t, g)
    BY <2>3 DEF CallInit, Leave, Goto, TypeOK, Pending, Working
  <2>4. QED
    BY <2>2, <2>3
<1>7. QED
  BY <1>1, <1>2, <1>3, <1>4, <1>5, <1>6 DEF Same, SessionInv

-----------------------------------------------------------------------------
(* Who is announced, and the default node. *)

LEMMA OrderInit == Init => OrderInv
  BY DEF Init, OrderInv

LEMMA OrderlyApart == Orderly => Apart /\ "inits" \notin overlaps
  BY DEF Orderly, Apart

LEMMA OrderCalls ==
  ASSUME TypeOK, OrderInv, NEW t \in Threads,
         CallShutdown(t) \/ \E g \in Groups : CallInit(t, g)
  PROVE  OrderInv'
<1> SUFFICES ASSUME Orderly'
             PROVE  OrderInv'
  BY DEF OrderInv
<1>1. \A s \in Threads : s # t => Same(s)
  BY OthersSame DEF Act
<1>2. Orderly
  BY DEF Orderly, CallShutdown, CallInit, MarkShutdown
<1>3. UNCHANGED <<node_instances, default_instance, groupOf, multicasting>> /\ Entered' = Entered
  BY DEF CallShutdown, CallInit, classVars, serviceVars, workerVars, Entered
<1>4. pc'[t] = "manager" => node_instances[group'[t]] = None
  <2>1. CASE CallShutdown(t)
    BY <2>1 DEF CallShutdown, Goto, TypeOK
  <2>2. ASSUME NEW g \in Groups, CallInit(t, g) PROVE pc'[t] = "manager" => node_instances[group'[t]] = None
    BY <2>2 DEF CallInit, Leave, Goto, TypeOK
  <2>3. QED
    BY <2>1, <2>2
<1>5. pc'[t] \in {"manager", "refused", "next"}
  BY DEF CallShutdown, CallInit, Leave, Goto, TypeOK
<1>6. QED
  BY <1>1, <1>2, <1>3, <1>4, <1>5 DEF OrderInv, Same

LEMMA OrderInitSteps ==
  ASSUME TypeOK, MadeInv, OverlapInv, OrderInv, NEW t \in Threads, InitStep(t)
  PROVE  OrderInv'
<1> SUFFICES ASSUME Orderly'
             PROVE  OrderInv'
  BY DEF OrderInv
<1> USE DEF classVars, serviceVars, workerVars
<1>1. \A s \in Threads : s # t => Same(s)
  BY OthersSame DEF Act
<1>2. Orderly /\ pc[t] \in Init_pcs /\ group[t] \in Groups
  BY InACall DEF Orderly, TypeOK
<1>3. \A s \in Threads : s # t /\ pc[s] \in Init_pcs => group[s] # group[t]
  BY <1>2, OrderlyApart DEF OverlapInv
<1>4. \A s \in Threads : s # t => pc'[s] = pc[s] /\ group'[s] = group[s] /\ node'[s] = node[s]
  BY <1>1 DEF Same
<1>5. ASSUME UNCHANGED <<node_instances, multicasting>>,
             \A n \in multicasting : groupOf'[n] = groupOf[n],
             default_instance' \in {default_instance} \cup Entered,
             pc'[t] \in {"manager", "read", "construct", "enter"} =>
               pc[t] \in {"manager", "read", "construct", "enter"} /\ group'[t] = group[t],
             pc'[t] \in {"run", "multicast", "heartbeat"} => node_instances[group'[t]] = node'[t],
             pc'[t] \notin {"cancel", "leave"}
      PROVE  OrderInv'
  <2>1. Entered' = Entered
    BY <1>5 DEF Entered
  <2>2. QED
    BY <1>2, <1>4, <1>5, <2>1 DEF OrderInv
<1>6. CASE MakeManager(t) \/ ReadManager(t) \/ TestDefault(t)
  <2>1. /\ pc'[t] \in {"read", "construct", "set", "register"}
        /\ pc'[t] \in {"read", "construct"} => pc[t] \in {"manager", "read"}
        /\ group' = group
    BY <1>6 DEF MakeManager, ReadManager, TestDefault, Goto, TypeOK, localVars
  <2>2. UNCHANGED <<node_instances, multicasting, groupOf, default_instance>>
    BY <1>6 DEF MakeManager, ReadManager, TestDefault
  <2>3. QED
    BY <1>5, <2>1, <2>2
<1>7. CASE SetDefault(t)
  <2>1. pc'[t] \in {"failed", "register"}
    BY <1>7 DEF SetDefault, Goto, Leave, TypeOK
  <2>2. UNCHANGED <<node_instances, multicasting, groupOf>>
    BY <1>7 DEF SetDefault
  <2>3. default_instance' \in {default_instance} \cup Entered
    BY <1>2, <1>7 DEF SetDefault, Entered
  <2>4. QED
    BY <1>5, <2>1, <2>2, <2>3
<1>8. CASE RegisterNodeInfo(t) \/ StartHeartbeat(t)
  <2>1. pc'[t] \in {"failed", "start", "inited"}
    BY <1>8 DEF RegisterNodeInfo, StartHeartbeat, Goto, Leave, TypeOK
  <2>2. UNCHANGED <<node_instances, multicasting, groupOf, default_instance>>
    BY <1>8 DEF RegisterNodeInfo, StartHeartbeat
  <2>3. QED
    BY <1>5, <2>1, <2>2
<1>9. CASE FindNode(t)
  <2>1. pc'[t] \in {"failed", "run"} /\ UNCHANGED <<node_instances, multicasting, groupOf, default_instance>>
    BY <1>9 DEF FindNode, Goto, Leave, TypeOK
  <2>2. pc'[t] = "run" => node_instances[group'[t]] = node'[t]
    BY <1>9 DEF FindNode, Goto, Leave, Handles, TypeOK
  <2>3. QED
    BY <1>5, <2>1, <2>2
<1>10. CASE StartRunning(t)
  <2>1. pc'[t] = "multicast" /\ UNCHANGED <<node_instances, multicasting, groupOf, default_instance, group, node>>
    BY <1>10 DEF StartRunning, Goto, TypeOK, localVars
  <2>2. node_instances[group[t]] = node[t]
    BY <1>2, <1>10 DEF StartRunning, OrderInv
  <2>3. QED
    BY <1>5, <2>1, <2>2
<1>11. CASE Construct(t)
  <2>1. pc'[t] \in {"failed", "enter"} /\ (pc'[t] = "enter" => group'[t] = group[t]) /\ pc[t] = "construct"
    BY <1>11 DEF Construct, Goto, Leave, TypeOK
  <2>2. UNCHANGED <<node_instances, multicasting, default_instance>>
    BY <1>11 DEF Construct
  <2>3. \A n \in multicasting : groupOf'[n] = groupOf[n]
    BY <1>11 DEF Construct, TypeOK
  <2>4. QED
    BY <1>5, <2>1, <2>2, <2>3
<1>12. CASE StartMulticast(t)
  <2>1. pc'[t] = "heartbeat" /\ multicasting' = multicasting \cup {node[t]}
        /\ UNCHANGED <<node_instances, groupOf, default_instance, group, node>>
    BY <1>12 DEF StartMulticast, Goto, TypeOK, localVars
  <2>2. node_instances[group[t]] = node[t] /\ groupOf[node[t]] = group[t]
    BY <1>2, <1>12 DEF StartMulticast, OrderInv, MadeInv, OwnNode
  <2>3. Entered' = Entered
    BY <2>1 DEF Entered
  <2>4. \A s \in Threads : s # t => pc[s] \notin {"cancel", "leave"}
    BY <1>2, OrderlyApart DEF OverlapInv, Apart, Stop_pcs
  <2>5. QED
    BY <1>2, <1>4, <2>1, <2>2, <2>3, <2>4 DEF OrderInv
<1>13. CASE Enter(t)
  <2>1. node_instances[group[t]] = None
    BY <1>2, <1>13 DEF Enter, OrderInv
  <2>2. pc'[t] \in {"default", "register"} /\ UNCHANGED <<multicasting, groupOf, default_instance>>
    BY <1>13 DEF Enter, Goto, TypeOK
  <2>3. \A g \in Groups : g # group[t] => node_instances'[g] = node_instances[g]
    BY <1>13 DEF Enter, TypeOK
  <2>4. Entered \subseteq Entered'
    BY <2>1, <2>3 DEF Entered
  <2>5. ASSUME NEW n \in multicasting PROVE node_instances'[groupOf[n]] = n
    <3>1. node_instances[groupOf[n]] = n /\ n # None /\ groupOf[n] \in Groups
      BY <1>2, LifecycleAssumption DEF OrderInv, TypeOK
    <3>2. QED
      BY <2>1, <2>3, <3>1
  <2>6. \A s \in Threads : s # t /\ pc[s] \in Init_pcs => node_instances'[group[s]] = node_instances[group[s]]
    BY <1>3, <2>3 DEF TypeOK
  <2>7. QED
    BY <1>2, <1>4, <2>2, <2>4, <2>5, <2>6 DEF OrderInv, Init_pcs
<1>14. QED
  BY <1>6, <1>7, <1>8, <1>9, <1>10, <1>11, <1>12, <1>13 DEF InitStep

LEMMA OrderStopSteps ==
  ASSUME TypeOK, MadeInv, OverlapInv, SessionInv, OrderInv, NEW t \in Threads, StopStep(t)
  PROVE  OrderInv'
<1> SUFFICES ASSUME Orderly'
             PROVE  OrderInv'
  BY DEF OrderInv
<1> USE DEF classVars, serviceVars, workerVars
<1>1. \A s \in Threads : s # t => pc'[s] = pc[s] /\ node'[s] = node[s]
  BY OthersSame DEF Act, Same
<1>2. Orderly /\ Apart /\ pc[t] \in Stop_pcs /\ \A s \in Threads : pc[s] \notin Init_pcs
  BY InACall, OrderlyApart DEF Orderly, OverlapInv, Apart
<1>3. pc'[t] \notin Init_pcs
  <2>1. ~ \E g \in Groups : CallInit(t, g)
    BY <1>2, PcsDisjoint DEF CallInit
  <2>2. QED
    BY <1>2, <2>1, StepsOfACall DEF Act
<1>4. groupOf' = groupOf
  BY <1>2, PcsDisjoint, OnlyConstruct DEF Act, Construct, Init_pcs
<1>5. ASSUME default_instance' \in Entered' \cup {None},
             \A n \in multicasting' : n \in multicasting /\ node_instances'[groupOf[n]] = n,
             pc'[t] \in {"cancel", "leave"} => node'[t] \notin multicasting'
      PROVE  OrderInv'
  BY <1>1, <1>2, <1>3, <1>4, <1>5 DEF OrderInv, Init_pcs
<1>6. CASE NextNode(t) \/ TestManager(t) \/ GetManager(t) \/ CloseLoop(t) \/ UnsetManager(t)
  <2>1. pc'[t] \notin {"cancel", "leave"}
    BY <1>6 DEF NextNode, TestManager, GetManager, CloseLoop, UnsetManager, Goto, Leave, TypeOK
  <2>2. UNCHANGED <<node_instances, multicasting, default_instance>> /\ Entered' = Entered
    BY <1>6 DEF NextNode, TestManager, GetManager, CloseLoop, UnsetManager, Entered
  <2>3. QED
    BY <1>2, <1>5, <2>1, <2>2 DEF OrderInv
<1>7. CASE StopServices(t) \/ StopMulticast(t)
  <2>1. UNCHANGED <<node_instances, default_instance>> /\ Entered' = Entered
    BY <1>7 DEF StopServices, StopMulticast, Entered
  <2>2. multicasting' \subseteq multicasting
    BY <1>7 DEF StopServices, StopMulticast
  <2>3. pc'[t] \in {"cancel", "leave"} => node'[t] \notin multicasting'
    BY <1>7 DEF StopServices, StopMulticast, Goto, TypeOK, localVars
  <2>4. QED
    BY <1>2, <1>5, <2>1, <2>2, <2>3 DEF OrderInv
<1>8. CASE CancelHeartbeat(t)
  <2>1. UNCHANGED <<node_instances, default_instance, multicasting>> /\ Entered' = Entered
    BY <1>8 DEF CancelHeartbeat, Entered
  <2>2. pc'[t] \in {"cancel", "leave"} => pc[t] = "cancel" /\ node'[t] = node[t]
    BY <1>8 DEF CancelHeartbeat, Goto, Leave, TypeOK, localVars
  <2>3. QED
    BY <1>2, <1>5, <2>1, <2>2 DEF OrderInv
<1>9. CASE PopNode(t)
  <2>1. node[t] \in Pending(t) /\ node[t] \notin multicasting
    BY <1>2, <1>9 DEF PopNode, Pending, Working, OrderInv
  <2>2. node_instances[groupOf[node[t]]] \in {node[t], None}
    BY <1>2, <2>1 DEF SessionInv
  <2>3. \A g \in Groups : g # groupOf[node[t]] => node_instances'[g] = node_instances[g]
    BY <1>9 DEF PopNode, TypeOK
  <2>4. ASSUME NEW n \in multicasting PROVE node_instances'[groupOf[n]] = n
    <3>1. node_instances[groupOf[n]] = n /\ n # None /\ groupOf[n] \in Groups
      BY <1>2, LifecycleAssumption DEF OrderInv, TypeOK
    <3>2. QED
      BY <2>1, <2>2, <2>3, <3>1
  <2>5. default_instance' \in Entered' \cup {None}
    <3>1. CASE default_instance = node[t] \/ default_instance = None
      BY <1>9, <3>1 DEF PopNode
    <3>2. CASE default_instance # node[t] /\ default_instance # None
      <4>1. PICK g \in Groups : node_instances[g] = default_instance
        BY <1>2, <3>2 DEF OrderInv, Entered
      <4>2. node_instances'[g] = default_instance /\ default_instance' = default_instance
        BY <1>9, <2>2, <2>3, <3>2, <4>1 DEF PopNode
      <4>3. QED
        BY <3>2, <4>2 DEF Entered
    <3>3. QED
      BY <3>1, <3>2
  <2>6. multicasting' = multicasting /\ pc'[t] = "next"
    BY <1>9 DEF PopNode, Goto, TypeOK
  <2>7. QED
    BY <1>5, <2>4, <2>5, <2>6
<1>10. CASE ClearNodes(t) \/ ResetDefault(t)
  <2>1. Entered = {}
    BY <1>2, <1>10 DEF ClearNodes, ResetDefault, SessionInv, Pending, Working
  <2>2. multicasting = {} /\ default_instance = None
    <3>1. \A n \in multicasting : n \in Entered
      BY <1>2, LifecycleAssumption DEF OrderInv, TypeOK, Entered
    <3>2. QED
      BY <1>2, <2>1, <3>1 DEF OrderInv
  <2>3. multicasting' = multicasting /\ default_instance' = None
    BY <1>10, <2>2 DEF ClearNodes, ResetDefault
  <2>4. QED
    BY <1>5, <2>2, <2>3
<1>11. QED
  BY <1>6, <1>7, <1>8, <1>9, <1>10 DEF StopStep

-----------------------------------------------------------------------------
(* Every entered node is started, whichever init does it. *)

Calm == overlaps \subseteq {"inits"}

(* The node that is entered for group g has its heartbeat check, or will. *)
Covered(g) ==
  node_instances[g] # None =>
    \/ heartbeat_future[node_instances[g]] # "none"
    \/ \E t \in Threads : group[t] = g /\ Starts(t)

LEMMA StartInit == Init => StartInv
  BY PendingOf DEF Init, StartInv, Working

LEMMA StartCalls ==
  ASSUME TypeOK, TypeOK', StartInv, NEW t \in Threads,
         CallShutdown(t) \/ \E g \in Groups : CallInit(t, g)
  PROVE  StartInv'
<1> SUFFICES ASSUME Calm'
             PROVE  StartInv'
  BY DEF StartInv, Calm
<1>1. \A s \in Threads : s # t => Same(s) /\ Pending(s)' = Pending(s)
  BY OthersSame DEF Act, Same, Pending
<1>2. Calm
  BY DEF Calm, CallShutdown, CallInit, MarkShutdown
<1>3. UNCHANGED <<node_instances, heartbeat_future, registered, instance>>
  BY DEF CallShutdown, CallInit, classVars, serviceVars, workerVars, managerVars
<1>4. pc'[t] \in {"manager", "refused", "next"} /\ pc[t] \in Ended /\ group[t] = None
  BY PcsDisjoint DEF CallShutdown, CallInit, Leave, Goto, TypeOK
<1>5. \A g \in Groups : Covered(g)'
  <2>1. ASSUME NEW g \in Groups, NEW s \in Threads, group[s] = g, Starts(s)
        PROVE  group'[s] = g /\ Starts(s)'
    <3>1. s # t
      BY <1>4, <2>1, LifecycleAssumption
    <3>2. QED
      BY <1>1, <1>3, <2>1, <3>1 DEF Starts, Same
  <2>2. QED
    BY <1>2, <1>3, <2>1 DEF Covered, StartInv, Calm
<1>6. \A n \in Pending(t)' : heartbeat_future[n] # "none"
  <2>1. CASE CallShutdown(t)
    <3>1. Pending(t)' = Entered
      BY <2>1 DEF CallShutdown, Goto, TypeOK, Pending
    <3>2. \A g \in Groups, s \in Threads : group[s] # g
      BY <2>1 DEF CallShutdown, MarkShutdown, InitsIn, Calm
    <3>3. QED
      BY <1>2, <3>1, <3>2 DEF StartInv, Calm, Entered
  <2>2. CASE \E g \in Groups : CallInit(t, g)
    BY <2>2 DEF CallInit, Leave, Goto, TypeOK, Pending, Working
  <2>3. QED
    BY <2>1, <2>2
<1>7. QED
  BY <1>1, <1>2, <1>3, <1>4, <1>5, <1>6 DEF StartInv, Covered, Calm, Same

LEMMA StartInitSteps ==
  ASSUME TypeOK, TypeOK', MadeInv, ManagerInv, FreshInv, OverlapInv, SessionInv, StartInv,
         NEW t \in Threads, InitStep(t)
  PROVE  StartInv'
<1> SUFFICES ASSUME Calm'
             PROVE  StartInv'
  BY DEF StartInv, Calm
<1> USE DEF classVars, managerVars, serviceVars, workerVars, localVars
<1>1. \A s \in Threads : s # t => Same(s)
  BY OthersSame DEF Act
<1>2. /\ Calm /\ Apart
      /\ pc[t] \in Init_pcs /\ group[t] \in Groups
      /\ \A s \in Threads : pc[s] \notin Stop_pcs
  BY InACall DEF Calm, Apart, OverlapInv, TypeOK
<1>3. pc'[t] \notin Stop_pcs \cup {"broken"}
  <2>1. pc'[t] \notin Stop_pcs
    BY <1>2, PcsDisjoint, StepsOfACall DEF Act, CallShutdown
  <2>2. pc'[t] # "broken"
    BY DEF InitStep, MakeManager, ReadManager, Construct, Enter, TestDefault, SetDefault,
       RegisterNodeInfo, FindNode, StartRunning, StartMulticast, StartHeartbeat, Goto, Leave, TypeOK
  <2>3. QED
    BY <2>1, <2>2
<1>4. ASSUME \A g \in Groups : Covered(g)'
      PROVE  StartInv'
  <2>1. \A s \in Threads : pc'[s] \notin Stop_pcs /\ pc'[s] # "broken"
    BY <1>1, <1>2, <1>3 DEF Same, StartInv, Calm
  <2>2. \A s \in Threads : Pending(s)' = {}
    BY <2>1 DEF Pending, Working, Stop_pcs
  <2>3. QED
    BY <1>4, <2>1, <2>2 DEF StartInv, Covered, Stop_pcs
<1>5. \A g \in Groups : Covered(g)
  BY <1>2 DEF StartInv, Calm, Covered
<1>6. ASSUME UNCHANGED <<node_instances, registered>>,
             \A n \in Nodes : heartbeat_future[n] # "none" => heartbeat_future'[n] # "none",
             Starts(t) /\ node_instances[group[t]] # None =>
               \/ Starts(t)' /\ group'[t] = group[t]
               \/ heartbeat_future'[node_instances[group[t]]] # "none"
      PROVE  StartInv'
  <2>1. ASSUME NEW s \in Threads, s # t, Starts(s) PROVE Starts(s)' /\ group'[s] = group[s]
    BY <1>1, <1>6, <2>1 DEF Starts, Same
  <2>2. ASSUME NEW g \in Groups PROVE Covered(g)'
    <3>1. node_instances[g] # None => node_instances[g] \in Nodes
      BY DEF TypeOK
    <3>2. QED
      BY <1>5, <1>6, <2>1, <3>1 DEF Covered
  <2>3. QED
    BY <1>4, <2>2
<1>7. CASE MakeManager(t) \/ ReadManager(t) \/ Construct(t)
  <2>1. ~ Starts(t)
    BY <1>7 DEF MakeManager, ReadManager, Construct, Starts
  <2>2. UNCHANGED <<node_instances, registered, heartbeat_future>>
    BY <1>7 DEF MakeManager, ReadManager, Construct
  <2>3. QED
    BY <1>6, <2>1, <2>2
<1>8. CASE Enter(t)
  <2>1. node[t] \notin registered /\ registered' = registered /\ heartbeat_future' = heartbeat_future
    BY <1>8 DEF Enter, FreshInv
  <2>2. /\ pc'[t] \in {"default", "register"} /\ group' = group
        /\ node_instances'[group[t]] = node[t]
        /\ \A g \in Groups : g # group[t] => node_instances'[g] = node_instances[g]
    BY <1>2, <1>8 DEF Enter, Goto, TypeOK
  <2>3. Starts(t)'
    BY <2>1, <2>2 DEF Starts
  <2>4. ASSUME NEW g \in Groups, g # group[t] PROVE Covered(g)'
    <3>1. ASSUME NEW s \in Threads, group[s] = g, Starts(s) PROVE Starts(s)' /\ group'[s] = g
      <4>1. s # t
        BY <2>4, <3>1
      <4>2. QED
        BY <1>1, <2>1, <2>2, <2>4, <3>1, <4>1 DEF Starts, Same
    <3>2. QED
      BY <1>5, <2>1, <2>2, <2>4, <3>1 DEF Covered
  <2>5. QED
    BY <1>4, <2>2, <2>3, <2>4 DEF Covered
<1>9. CASE TestDefault(t) \/ SetDefault(t)
  <2>1. UNCHANGED <<node_instances, registered, heartbeat_future>>
    BY <1>9 DEF TestDefault, SetDefault
  <2>2. node_instances[group[t]] # None => pc'[t] \in {"set", "register"} /\ group' = group
    BY <1>9 DEF TestDefault, SetDefault, Goto, TypeOK
  <2>3. Starts(t) => node_instances[group[t]] \notin registered
    BY <1>9 DEF TestDefault, SetDefault, Starts
  <2>4. QED
    BY <1>6, <2>1, <2>2, <2>3 DEF Starts
<1>10. CASE RegisterNodeInfo(t)
  <2>1. UNCHANGED <<node_instances, heartbeat_future>>
    BY <1>10 DEF RegisterNodeInfo
  <2>2. CASE node_instances[group[t]] \in registered \cup {None}
    <3>1. registered' = registered
      BY <1>10, <2>2 DEF RegisterNodeInfo
    <3>2. Starts(t) => node_instances[group[t]] = None
      BY <1>10, <2>2 DEF RegisterNodeInfo, Starts
    <3>3. QED
      BY <1>6, <2>1, <3>1, <3>2
  <2>3. CASE node_instances[group[t]] \notin registered \cup {None}
    <3>1. /\ pc'[t] = "start" /\ group' = group
          /\ registered' = registered \cup {node_instances[group[t]]}
      BY <1>10, <2>3 DEF RegisterNodeInfo, Goto, TypeOK
    <3>2. Starts(t)'
      BY <3>1 DEF Starts
    <3>3. ASSUME NEW g \in Groups, g # group[t] PROVE Covered(g)'
      <4>1. node_instances[g] # None => node_instances[g] # node_instances[group[t]]
        BY <1>2, <2>3, <3>3 DEF MadeInv
      <4>2. ASSUME NEW s \in Threads, group[s] = g, node_instances[g] # None, Starts(s)
            PROVE  Starts(s)' /\ group'[s] = g
        <5>1. s # t
          BY <3>3, <4>2
        <5>2. QED
          BY <1>1, <2>1, <3>1, <4>1, <4>2, <5>1 DEF Starts, Same
      <4>3. QED
        BY <1>5, <2>1, <4>2 DEF Covered
    <3>4. QED
      BY <1>4, <2>1, <3>1, <3>2, <3>3 DEF Covered
  <2>4. QED
    BY <2>2, <2>3
<1>11. CASE FindNode(t) \/ StartRunning(t) \/ StartMulticast(t)
  <2>1. UNCHANGED <<node_instances, registered, heartbeat_future>>
    BY <1>11 DEF FindNode, StartRunning, StartMulticast
  <2>2. Starts(t) /\ node_instances[group[t]] # None => Starts(t)' /\ group'[t] = group[t]
    BY <1>11 DEF FindNode, StartRunning, StartMulticast, Starts, Goto, Handles, TypeOK
  <2>3. QED
    BY <1>6, <2>1, <2>2
<1>12. CASE StartHeartbeat(t)
  <2>1. UNCHANGED <<node_instances, registered>>
    BY <1>12 DEF StartHeartbeat
  <2>2. \A n \in Nodes : heartbeat_future[n] # "none" => heartbeat_future'[n] # "none"
    BY <1>12 DEF StartHeartbeat, TypeOK
  <2>3. ASSUME Starts(t), node_instances[group[t]] # None
        PROVE  heartbeat_future'[node_instances[group[t]]] # "none"
    <3>1. node[t] = node_instances[group[t]] /\ node[t] \in Entered /\ node[t] \in Nodes
      BY <1>2, <1>12, <2>3 DEF StartHeartbeat, Starts, Entered, TypeOK
    <3>2. manager[node[t]] \notin closed
      BY <1>2, <3>1 DEF SessionInv, ManagerInv, Stop_pcs
    <3>3. QED
      BY <1>12, <3>1, <3>2 DEF StartHeartbeat, TypeOK
  <2>4. QED
    BY <1>6, <2>1, <2>2, <2>3
<1>13. QED
  BY <1>7, <1>8, <1>9, <1>10, <1>11, <1>12 DEF InitStep

LEMMA StartStopSteps ==
  ASSUME TypeOK, TypeOK', MadeInv, OverlapInv, SessionInv, StartInv, NEW t \in Threads, StopStep(t)
  PROVE  StartInv'
<1> SUFFICES ASSUME Calm'
             PROVE  StartInv'
  BY DEF StartInv, Calm
<1> USE DEF classVars, managerVars, serviceVars, workerVars, localVars
<1>1. \A s \in Threads : s # t => Same(s)
  BY OthersSame DEF Act
<1>2. /\ Calm /\ Apart /\ pc[t] \in Stop_pcs
      /\ \A s \in Threads : pc[s] \notin Init_pcs
      /\ \A s \in Threads : s # t => pc[s] \notin Stop_pcs
  BY InACall DEF Calm, Apart, OverlapInv
<1>3. Entered \subseteq Pending(t)
  BY <1>2 DEF SessionInv
<1>4. \A n \in Pending(t) : heartbeat_future[n] # "none" /\ n \in Nodes
  BY <1>2 DEF StartInv, Calm, Pending, MadeInv, OwnNode, MadeNodes
<1>5. \A n \in Nodes : heartbeat_future[n] # "none" => heartbeat_future'[n] # "none"
  BY DEF StopStep, NextNode, StopServices, StopMulticast, CancelHeartbeat, PopNode, ClearNodes,
     ResetDefault, TestManager, GetManager, CloseLoop, UnsetManager, TypeOK
<1>6. \A g \in Groups : node_instances'[g] # None => heartbeat_future'[node_instances'[g]] # "none"
  <2>1. ~ Enter(t)
    BY <1>2, PcsDisjoint DEF Enter, Init_pcs
  <2>2. Entered' \subseteq Entered
    BY <2>1, OnlyEnter DEF Act
  <2>3. QED
    BY <1>3, <1>4, <1>5, <2>2 DEF Entered
<1>7. \A n \in Pending(t)' : heartbeat_future'[n] # "none"
  <2>1. CASE pc'[t] \in Stop_pcs
    BY <1>3, <1>4, <1>5, <2>1, PendingStep
  <2>2. CASE pc'[t] \notin Stop_pcs
    BY <2>2 DEF Pending, Working, Stop_pcs
  <2>3. QED
    BY <2>1, <2>2
<1>8. pc'[t] = "get" => instance' # None
  BY DEF StopStep, NextNode, StopServices, StopMulticast, CancelHeartbeat, PopNode, ClearNodes,
     ResetDefault, TestManager, GetManager, CloseLoop, UnsetManager, Goto, Leave, TypeOK
<1>9. pc'[t] # "broken"
  <2>1. CASE CancelHeartbeat(t)
    <3>1. heartbeat_future[node[t]] # "none"
      BY <1>4, <2>1 DEF CancelHeartbeat, Pending, Working
    <3>2. QED
      BY <2>1, <3>1 DEF CancelHeartbeat, Goto, TypeOK
  <2>2. CASE GetManager(t)
    <3>1. instance # None
      BY <1>2, <2>2 DEF GetManager, StartInv, Calm
    <3>2. QED
      BY <2>2, <3>1 DEF GetManager, Goto, TypeOK
  <2>3. CASE ~ CancelHeartbeat(t) /\ ~ GetManager(t)
    BY <2>3 DEF StopStep, NextNode, StopServices, StopMulticast, PopNode, ClearNodes,
       ResetDefault, TestManager, CloseLoop, UnsetManager, Goto, Leave, TypeOK
  <2>4. QED
    BY <2>1, <2>2, <2>3
<1>10. ASSUME NEW s \in Threads, s # t
       PROVE  Pending(s)' = {} /\ pc'[s] # "get" /\ pc'[s] # "broken"
  <2>1. pc'[s] = pc[s] /\ pc[s] \notin Stop_pcs /\ pc[s] # "broken"
    BY <1>1, <1>2, <1>10 DEF Same, StartInv, Calm
  <2>2. QED
    BY <2>1 DEF Pending, Working, Stop_pcs
<1>11. QED
  BY <1>6, <1>7, <1>8, <1>9, <1>10 DEF StartInv

-----------------------------------------------------------------------------
(* The theorems. *)

IInv ==
  /\ TypeOK
  /\ MadeInv
  /\ ManagerInv
  /\ FreshInv
  /\ OverlapInv
  /\ SessionInv
  /\ OrderInv
  /\ StartInv

LEMMA Inductive ==
  /\ Init => IInv
  /\ IInv /\ [Next]_vars => IInv'
<1>1. Init => IInv
  BY TypeInit, MadeInit, ManagerInit, FreshInit, OverlapInit, SessionInit, OrderInit, StartInit
  DEF IInv
<1>2. ASSUME IInv, UNCHANGED vars PROVE IInv'
  BY <1>2 DEF IInv, TypeOK, MadeInv, OwnNode, MadeNodes, ManagerInv, FreshInv, OverlapInv,
     SessionInv, OrderInv, StartInv, Starts, Pending, Entered, Apart, Orderly, vars, classVars,
     managerVars, serviceVars, workerVars, localVars
<1>3. ASSUME IInv, NEW t \in Threads, Act(t) PROVE IInv'
  <2> USE <1>3 DEF IInv
  <2>1. TypeOK' /\ MadeInv'
    BY TypeStep DEF Next, Act
  <2>2. ManagerInv' /\ FreshInv' /\ OverlapInv'
    BY <2>1, ManagerStep, FreshStep, OverlapStep
  <2>3. SessionInv'
    BY <2>1, <2>2, SessionCalls, SessionInitSteps, SessionStopSteps DEF Act
  <2>4. OrderInv'
    BY OrderCalls, OrderInitSteps, OrderStopSteps DEF Act
  <2>5. StartInv'
    BY <2>1, StartCalls, StartInitSteps, StartStopSteps DEF Act
  <2>6. QED
    BY <2>1, <2>2, <2>3, <2>4, <2>5
<1>4. QED
  BY <1>1, <1>2, <1>3 DEF Next, Act

(***************************************************************************)
(* A node that is announced is the entered one of its group, on the open   *)
(* loop: no init or shutdown leaves threads behind that announce a node    *)
(* nobody can stop, as long as inits of a group and inits and shutdowns    *)
(* take turns.                                                             *)
(***************************************************************************)
THEOREM NobodyIsOrphaned == Spec => []NoOrphans
<1>1. ASSUME IInv PROVE NoOrphans
  <2>1. SUFFICES ASSUME Orderly, NEW n \in multicasting
                 PROVE  node_instances[groupOf[n]] = n /\ manager[n] = instance /\ instance \notin closed
    BY DEF NoOrphans
  <2>2. node_instances[groupOf[n]] = n /\ n \in Nodes /\ groupOf[n] \in Groups
    BY <1>1, <2>1 DEF IInv, OrderInv, TypeOK
  <2>3. n \in Entered
    BY <2>2, LifecycleAssumption DEF Entered
  <2>4. Apart
    BY <2>1, OrderlyApart
  <2>5. manager[n] = instance
    BY <1>1, <2>3, <2>4 DEF IInv, SessionInv
  <2>6. \A t \in Threads : pc[t] # "unset"
    BY <1>1, <2>3, <2>4 DEF IInv, SessionInv, Stop_pcs, Pending, Working
  <2>7. QED
    BY <1>1, <2>2, <2>5, <2>6 DEF IInv, ManagerInv
<1>2. QED
  BY <1>1, Inductive, PTL DEF Spec

(***************************************************************************)
(* get() never answers with a default node that has been stopped and taken *)
(* out, under the same condition.                                          *)
(***************************************************************************)
THEOREM DefaultNodeIsEntered == Spec => []DefaultIsEntered
<1>1. IInv => DefaultIsEntered
  BY DEF IInv, OrderInv, DefaultIsEntered
<1>2. QED
  BY <1>1, Inductive, PTL DEF Spec

(***************************************************************************)
(* shutdown does not raise when it overlaps neither an init nor another    *)
(* shutdown, whatever inits overlapped or failed before.                   *)
(***************************************************************************)
THEOREM ShutdownDoesNotRaise == Spec => []ShutdownSucceeds
<1>1. IInv => ShutdownSucceeds
  BY DEF IInv, StartInv, ShutdownSucceeds
<1>2. QED
  BY <1>1, Inductive, PTL DEF Spec

(***************************************************************************)
(* When a shutdown returns, nothing of any node runs any more, even if     *)
(* another shutdown did part of the work.                                  *)
(***************************************************************************)
THEOREM ShutdownStopsEverything == Spec => ShutdownIsComplete
<1>1. ASSUME IInv, IInv', Next,
             NEW t \in Threads, pc[t] \in Stop_pcs, pc'[t] = "stopped", Orderly,
             NEW n \in Nodes
      PROVE  ~ Alive(n)'
  <2>1. Apart
    BY <1>1, OrderlyApart
  <2>2. StopStep(t)
    <3>1. PICK s \in Threads : Act(s)
      BY <1>1 DEF Next, Act
    <3>2. s = t
      BY <1>1, <3>1, OthersSame DEF IInv, Same, Stop_pcs
    <3>3. QED
      BY <1>1, <3>1, <3>2, PcsDisjoint, InACall DEF Act, CallShutdown, CallInit
  <2>3. TestManager(t) \/ CloseLoop(t) \/ UnsetManager(t)
    BY <1>1, <2>2 DEF IInv, TypeOK, StopStep, NextNode, StopServices, StopMulticast,
       CancelHeartbeat, PopNode, ClearNodes, ResetDefault, GetManager, Goto, Leave
  <2>4. Entered = {}
    BY <1>1, <2>1, <2>3
    DEF IInv, SessionInv, Pending, Working, TestManager, CloseLoop, UnsetManager
  <2>5. multicasting' = {}
    <3>1. \A m \in multicasting : m \in Nodes /\ node_instances[groupOf[m]] = m /\ groupOf[m] \in Groups
      BY <1>1 DEF IInv, OrderInv, TypeOK
    <3>2. multicasting \subseteq Entered
      BY <3>1, LifecycleAssumption DEF Entered
    <3>3. QED
      BY <2>3, <2>4, <3>2 DEF TestManager, CloseLoop, UnsetManager, workerVars
  <2>6. made' \subseteq closed'
    <3>1. made' = made /\ closed \subseteq closed'
      BY <2>3 DEF TestManager, CloseLoop, UnsetManager, managerVars
    <3>2. CASE TestManager(t)
      <4>1. instance = None /\ None \notin made
        BY <1>1, <3>2, LifecycleAssumption DEF IInv, TypeOK, TestManager, Goto
      <4>2. QED
        BY <1>1, <3>1, <4>1 DEF IInv, ManagerInv
    <3>3. CASE CloseLoop(t)
      <4>1. mgr[t] \in closed
        BY <1>1, <3>3 DEF IInv, TypeOK, CloseLoop, Goto
      <4>2. instance \in {mgr[t], None} /\ None \notin made
        BY <1>1, <2>1, <3>3, LifecycleAssumption DEF IInv, SessionInv, TypeOK, CloseLoop
      <4>3. QED
        BY <1>1, <3>1, <4>1, <4>2 DEF IInv, ManagerInv
    <3>4. CASE UnsetManager(t)
      BY <1>1, <3>1, <3>4 DEF IInv, ManagerInv, UnsetManager
    <3>5. QED
      BY <2>3, <3>2, <3>3, <3>4
  <2>7. QED
    BY <1>1, <2>5, <2>6 DEF IInv, TypeOK, Alive
<1>2. IInv /\ IInv' /\ [Next]_vars =>
        [\A t \in Threads :
           pc[t] \in Stop_pcs /\ pc'[t] = "stopped" /\ Orderly => \A n \in Nodes : ~ Alive(n)']_vars
  BY <1>1
<1>3. QED
  BY <1>2, Inductive, PTL DEF Spec, ShutdownIsComplete

LEMMA TurnsInit == Init => Sessions!Init
  BY DEF Init, Sessions!Init

LEMMA TurnsStep ==
  ASSUME IInv, NEW t \in Threads, Act(t)
  PROVE  [Sessions!Next]_(Sessions!vars)
<1> USE DEF IInv, TypeOK
<1>1. CASE MakeManager(t)
  <2>1. instance' = instance \/ \E m \in Managers : Sessions!Make(m)
    BY <1>1 DEF MakeManager, Sessions!Make
  <2>2. instance' = instance => UNCHANGED <<made, closed>>
    BY <1>1, LifecycleAssumption DEF MakeManager
  <2>3. QED
    BY <2>1, <2>2 DEF Sessions!Next, Sessions!vars
<1>2. CASE CloseLoop(t)
  <2>1. mgr[t] \in made /\ made \subseteq Managers
    BY <1>2 DEF CloseLoop, MadeInv, OwnNode
  <2>2. CASE mgr[t] \in closed
    BY <1>2, <2>2 DEF CloseLoop, Sessions!vars
  <2>3. CASE mgr[t] \notin closed
    <3>1. Sessions!Close(mgr[t])
      BY <1>2, <2>1, <2>3 DEF CloseLoop, Sessions!Close
    <3>2. QED
      BY <2>1, <3>1 DEF Sessions!Next
  <2>4. QED
    BY <2>2, <2>3
<1>3. CASE UnsetManager(t)
  <2>1. instance \in closed
    BY <1>3 DEF UnsetManager, ManagerInv
  <2>2. Sessions!Unset
    BY <1>3, <2>1 DEF UnsetManager, Sessions!Unset
  <2>3. QED
    BY <2>2 DEF Sessions!Next
<1>4. CASE ~ (MakeManager(t) \/ CloseLoop(t) \/ UnsetManager(t))
  <2>1. UNCHANGED managerVars
    BY <1>4 DEF Act, CallShutdown, CallInit, InitStep, StopStep, ReadManager, Construct, Enter,
       TestDefault, SetDefault, RegisterNodeInfo, FindNode, StartRunning, StartMulticast,
       StartHeartbeat, NextNode, StopServices, StopMulticast, CancelHeartbeat, PopNode,
       ClearNodes, ResetDefault, TestManager, GetManager
  <2>2. QED
    BY <2>1 DEF managerVars, Sessions!vars
<1>5. QED
  BY <1>1, <1>2, <1>3, <1>4

(***************************************************************************)
(* init and shutdown make, close and clear loop managers in turn, whatever *)
(* calls overlap: a shutdown clears the manager it has stopped, not one    *)
(* that an init has made since (lancom_node.py:46-47, 76-106).             *)
(***************************************************************************)
THEOREM ManagersTakeTurns == Spec => SessionSpec
<1>1. IInv /\ [Next]_vars => [Sessions!Next]_(Sessions!vars)
  <2>1. ASSUME IInv, UNCHANGED vars
        PROVE  UNCHANGED Sessions!vars
    BY <2>1 DEF vars, managerVars, Sessions!vars
  <2>2. QED
    BY <2>1, TurnsStep DEF Next, Act
<1>2. QED
  BY <1>1, Inductive, TurnsInit, PTL DEF Spec, SessionSpec, Sessions!Spec
=============================================================================
