----------------------------- MODULE Discovery ------------------------------
(***************************************************************************)
(* Discovery on the LAN: the registry of one node (module                  *)
(* NodesInfoManager, the observer) composed with the nodes it hears of and *)
(* with the network between them.  Every node is an observer too, but      *)
(* observers do not influence one another, so one of them is enough.       *)
(*                                                                         *)
(* A remote node registers topics and services in its local_node_info,     *)
(* multicasts heartbeats (node ID, infoID) and answers get_node_info with  *)
(* local_node_info as it is at that moment (lancom_node.py:119).  UDP      *)
(* loses, delays and reorders heartbeats; a duplicate is the same as one   *)
(* more heartbeat of the periodic sender.                                  *)
(***************************************************************************)
EXTENDS NodesInfoManager, FiniteSets

CONSTANTS
  Threads,   \* user threads
  ThreadsOf, \* those of each node that register topics and services
  Members,   \* the nodes of the observer's group and subnet
  Ports,     \* service ports
  PortOf     \* the service port each node gets when it starts

ASSUME DiscoveryAssumption ==
  /\ Members \subseteq Nodes
  /\ PortOf \in [Nodes -> Ports]
  /\ IsFiniteSet(Threads)
  /\ ThreadsOf \in [Nodes -> SUBSET Threads]

VARIABLES
  status,      \* node -> "new", "up", "mute" (up, its sender ended), "down"
  infoID,      \* node -> its local_node_info["infoID"]
  sockets,     \* node -> how many topics and services it has appended
  adding,      \* node -> thread -> Idle, Appended, or the infoID it has read
  lowered,     \* history: node -> highest infoID it has gone back from, or 0
  datagrams,   \* heartbeats in the network
  replies,     \* fetch -> the answer on its way to the suspended coroutine
  known        \* history: fetch -> nodes_info_id when its request was sent

peerVars == <<status, infoID, sockets, adding, lowered>>
netVars == <<datagrams, replies, known>>
vars == <<managerVars, peerVars, netVars>>

Idle == -1       \* the thread does not register
Appended == 0    \* it has appended the socket and not yet read infoID

NothingKnown == [n \in Nodes |-> Absent]

TypeOK ==
  /\ ManagerTypeOK
  /\ status \in [Nodes -> {"new", "up", "mute", "down"}]
  /\ infoID \in [Nodes -> 0 .. MaxInfoID]
  /\ sockets \in [Nodes -> 0 .. MaxInfoID]
  /\ adding \in [Nodes -> [Threads -> {Idle, Appended} \cup InfoIDs]]
  /\ lowered \in [Nodes -> 0 .. MaxInfoID]
  /\ datagrams \subseteq HeartbeatMessage
  /\ replies \in [Fetches -> NodeInfo \cup {None}]
  /\ known \in [Fetches -> [Nodes -> InfoIDs \cup {Absent}]]

Init ==
  /\ ManagerInit
  /\ status = [n \in Nodes |-> "new"]
  /\ infoID = [n \in Nodes |-> 0]
  /\ sockets = [n \in Nodes |-> 0]
  /\ adding = [n \in Nodes |-> [t \in Threads |-> Idle]]
  /\ lowered = [n \in Nodes |-> 0]
  /\ datagrams = {}
  /\ replies = [f \in Fetches |-> None]
  /\ known = [f \in Fetches |-> NothingKnown]

-----------------------------------------------------------------------------
(* Remote nodes. *)

Running(p) == status[p] \in {"up", "mute"}

(* Not the code: the multicast threads start before the first registration. *)
StartEmpty(p) ==
  /\ status[p] = "new"
  /\ \A q \in Nodes : Running(q) => PortOf[q] # PortOf[p]
  /\ status' = [status EXCEPT ![p] = "up"]
  /\ UNCHANGED <<managerVars, infoID, sockets, adding, lowered, netVars>>

(***************************************************************************)
(* init(): get_node_info is registered, as infoID 1, before start_node     *)
(* starts the multicast threads.  A port belongs to one process at a time. *)
(***************************************************************************)
Start(p) ==
  /\ status[p] = "new"
  /\ \A q \in Nodes : Running(q) => PortOf[q] # PortOf[p]
  /\ status' = [status EXCEPT ![p] = "up"]
  /\ infoID' = [infoID EXCEPT ![p] = 1]
  /\ sockets' = [sockets EXCEPT ![p] = 1]
  /\ UNCHANGED <<managerVars, adding, lowered, netVars>>

(***************************************************************************)
(* register_local_service, register_local_publisher: the socket is         *)
(* appended, then infoID += 1 reads infoID and writes it, without a lock.  *)
(* get_node_info is answered on another thread, other threads register,    *)
(* both at any point.                                                      *)
(***************************************************************************)
At(p, t, next) == adding' = [adding EXCEPT ![p][t] = next]

AppendSocket(p) ==
  /\ sockets[p] < MaxInfoID
  /\ sockets' = [sockets EXCEPT ![p] = @ + 1]
  /\ UNCHANGED <<infoID, lowered>>

Larger(a, b) == IF a < b THEN b ELSE a

WriteInfoID(p, id) ==
  /\ infoID' = [infoID EXCEPT ![p] = id]
  /\ lowered' = [lowered EXCEPT ![p] = IF id < infoID[p] THEN Larger(infoID[p], @) ELSE @]
  /\ UNCHANGED sockets

(* Not the code: infoID is incremented before the socket is appended. *)
RegisterCountsFirst(p, t) ==
  /\ Running(p)
  /\ \/ adding[p][t] = Idle /\ infoID[p] < MaxInfoID
        /\ At(p, t, infoID[p]) /\ UNCHANGED <<infoID, sockets, lowered>>
     \/ adding[p][t] \in InfoIDs /\ WriteInfoID(p, adding[p][t] + 1) /\ At(p, t, Appended)
     \/ adding[p][t] = Appended /\ AppendSocket(p) /\ At(p, t, Idle)
  /\ UNCHANGED <<managerVars, status, netVars>>

Register(p, t) ==
  /\ Running(p)
  /\ \/ adding[p][t] = Idle /\ AppendSocket(p) /\ At(p, t, Appended)
     \/ adding[p][t] = Appended /\ At(p, t, infoID[p]) /\ UNCHANGED <<infoID, sockets, lowered>>
     \/ adding[p][t] \in InfoIDs /\ WriteInfoID(p, adding[p][t] + 1) /\ At(p, t, Idle)
  /\ UNCHANGED <<managerVars, status, netVars>>

SendHeartbeat(p) ==
  /\ status[p] = "up"
  /\ datagrams' = datagrams \cup {[nodeID |-> p, infoID |-> infoID[p]]}
  /\ UNCHANGED <<managerVars, peerVars, replies, known>>

(* _multicast_loop leaves its loop on any exception, sendto's included. *)
SenderFails(p) ==
  /\ status[p] = "up"
  /\ status' = [status EXCEPT ![p] = "mute"]
  /\ UNCHANGED <<managerVars, infoID, sockets, adding, lowered, netVars>>

(* The process stops or crashes; it may come back only as another node. *)
Stop(p) ==
  /\ Running(p)
  /\ status' = [status EXCEPT ![p] = "down"]
  /\ UNCHANGED <<managerVars, infoID, sockets, adding, lowered, netVars>>

-----------------------------------------------------------------------------
(* The network and the observer. *)

(* Not the code: the group name of a heartbeat is not compared. *)
AcceptsAll(d) == d.nodeID \in Nodes

(* _handle_datagram: other subnets, other groups and itself are ignored. *)
Accepts(d) == d.nodeID \in Members

Receive(d) ==
  /\ d \in datagrams
  /\ Accepts(d)
  /\ \/ HeartbeatKnown(d) /\ UNCHANGED known
     \/ \E f \in Fetches :
          HeartbeatNews(d, f) /\ known' = [known EXCEPT ![f] = nodes_info_id]
  /\ datagrams' = datagrams \ {d}
  /\ UNCHANGED <<peerVars, replies>>

Lose(d) ==
  /\ d \in datagrams
  /\ datagrams' = datagrams \ {d}
  /\ UNCHANGED <<managerVars, peerVars, replies, known>>

(***************************************************************************)
(* The node now listening on the port of the heartbeat answers.            *)
(***************************************************************************)
Serve(f) ==
  /\ fetches[f] # None
  /\ replies[f] = None
  /\ \E q \in Nodes :
        /\ Running(q)
        /\ PortOf[q] = PortOf[fetches[f]]
        /\ replies' = [replies EXCEPT ![f] =
             [nodeID |-> q, infoID |-> infoID[q], sockets |-> sockets[q]]]
  /\ UNCHANGED <<managerVars, peerVars, datagrams, known>>

Finished(f) == known' = [known EXCEPT ![f] = NothingKnown]

Answered(f) ==
  /\ replies[f] # None
  /\ FetchReturns(f, replies[f])
  /\ replies' = [replies EXCEPT ![f] = None]
  /\ Finished(f)
  /\ UNCHANGED <<peerVars, datagrams>>

(* Not the code: a request may get the answer to one that timed out. *)
UnansweredKeepsSocket(f) ==
  /\ FetchFails(f)
  /\ Finished(f)
  /\ UNCHANGED <<peerVars, datagrams, replies>>

(* The timeout may fire first: a late answer goes to a closed socket. *)
Unanswered(f) ==
  /\ FetchFails(f)
  /\ replies' = [replies EXCEPT ![f] = None]
  /\ Finished(f)
  /\ UNCHANGED <<peerVars, datagrams>>

Observer == (CheckHeartbeat \/ Tick) /\ UNCHANGED <<peerVars, netVars>>

-----------------------------------------------------------------------------

Next ==
  \/ \E p \in Nodes :
        \/ Start(p) \/ SendHeartbeat(p) \/ SenderFails(p) \/ Stop(p)
        \/ \E t \in ThreadsOf[p] : Register(p, t)
  \/ \E d \in datagrams : Receive(d) \/ Lose(d)
  \/ \E f \in Fetches : Serve(f) \/ Answered(f) \/ Unanswered(f)
  \/ Observer

Spec == Init /\ [][Next]_vars

(***************************************************************************)
(* A registering thread finishes, a running sender goes on sending, the    *)
(* clock and the event loop go on.  The network is fair-lossy: what a node *)
(* sends for ever is not lost for ever, and a request repeated for ever is *)
(* not for ever too slow.                                                  *)
(***************************************************************************)
Asked(p) == {f \in Fetches : fetches[f] = p}

Fairness ==
  /\ \A p \in Nodes :
       /\ WF_vars(SendHeartbeat(p))
       /\ \A t \in ThreadsOf[p] : WF_vars(adding[p][t] # Idle /\ Register(p, t))
       /\ SF_vars(\E d \in datagrams :
                    d.nodeID = p /\ d.infoID = infoID[p] /\ Receive(d))
       /\ WF_vars(\E d \in datagrams : d.nodeID = p /\ (Receive(d) \/ Lose(d)))
       /\ SF_vars(\E f \in Asked(p) : Serve(f))
       /\ SF_vars(\E f \in Asked(p) : Answered(f))
  /\ \A f \in Fetches : WF_vars(Unanswered(f))
  /\ WF_vars(CheckHeartbeat /\ UNCHANGED <<peerVars, netVars>>)
  /\ WF_vars(Tick /\ UNCHANGED <<peerVars, netVars>>)

FairSpec == Spec /\ Fairness

-----------------------------------------------------------------------------
(* Safety. *)

(***************************************************************************)
(* Comparing infoIDs is a sound test of freshness, whatever was torn, lost *)
(* or reordered: if the stored ID is the one a node has now, and no thread *)
(* is in the middle of a registration, then every socket it registered is  *)
(* in the stored entry.  Otherwise the early return of                     *)
(* handle_heartbeat_async would hide a topic or a service for ever.  An    *)
(* increment that is lost does no harm; only an infoID that goes back      *)
(* does, which takes a thread that reads it, waits until others have       *)
(* incremented it twice, and writes.                                       *)
(***************************************************************************)
IdMatchIsFresh ==
  \A p \in Nodes :
    /\ nodes_info_id[p] = infoID[p]
    /\ \A t \in Threads : adding[p][t] = Idle
    /\ lowered[p] = 0
    => nodes_info[p] = sockets[p]

(* The highest infoID that p has had. *)
Highest(p) == Larger(infoID[p], lowered[p])

(* Node p has had, at some time, id announced and n appended sockets. *)
Snapshot(p, id, n) == id <= Highest(p) /\ id <= n /\ n <= sockets[p]

(***************************************************************************)
(* Every copy of a node's information, stored or still on its way, is an   *)
(* honest snapshot of that node: it holds at least as many sockets as its  *)
(* infoID announces and none that the node has not appended.  update_node  *)
(* stores an answer under the node ID found in it, not under that of the   *)
(* heartbeat, which another process on the same port may have outlived.    *)
(***************************************************************************)
EveryCopyIsHonest ==
  /\ \A p \in Nodes :
        nodes_info_id[p] # Absent => Snapshot(p, nodes_info_id[p], nodes_info[p])
  /\ \A f \in Fetches :
        replies[f] # None =>
          Snapshot(replies[f].nodeID, replies[f].infoID, replies[f].sockets)

(***************************************************************************)
(* Only nodes of the observer's group and subnet are registered, although  *)
(* get_node_info itself knows nothing of groups: it is the filter on the   *)
(* heartbeats that keeps others out, as long as no port is reused.         *)
(***************************************************************************)
OnlyMembersRegistered == \A n \in Nodes \ Members : nodes_info[n] = Absent

(***************************************************************************)
(* update_node is the only writer of an entry, and what it writes is never *)
(* older than what was stored when the request it answers was sent: losses *)
(* and delays of heartbeats, late answers, removals in between and reused  *)
(* ports do not bring the past back.  So an entry goes back to an older    *)
(* one only when requests overlap and their answers overtake one another:  *)
(* handle_heartbeat_async does not compare the infoID again after its      *)
(* await.  (As long as the node's own infoID has not gone back.)           *)
(***************************************************************************)
NoRegress ==
  [][\A n \in Nodes :
       /\ nodes_info_id'[n] \notin {nodes_info_id[n], Absent}
       /\ lowered[n] = 0
       => \E f \in Fetches :
            fetches[f] # None /\ fetches'[f] = None /\ nodes_info_id'[n] >= known[f][n]]_vars

Directory == INSTANCE PeerDirectory WITH
  listed <- sockets,
  announced <- [p \in Nodes |-> Highest(p)],
  entry <- [p \in Nodes |-> [id |-> nodes_info_id[p], sockets |-> nodes_info[p]]]

(***************************************************************************)
(* The registry is a PeerDirectory: all that a step of the protocol can do *)
(* to an entry is to replace it by an honest snapshot or to forget it.     *)
(***************************************************************************)
DirectorySpec == Directory!Spec

-----------------------------------------------------------------------------
(* Liveness. *)

Current(p) == nodes_info_id[p] = infoID[p] /\ nodes_info[p] = sockets[p]

(***************************************************************************)
(* A node of the group that keeps sending heartbeats is registered again   *)
(* and again with all it has registered: losses, failed requests, answers  *)
(* of the past and removals for silence are all made up for; so are lost   *)
(* increments of its infoID, unless it has gone back.                      *)
(***************************************************************************)
Converges == \A p \in Members : []<>(status[p] # "up" \/ lowered[p] # 0 \/ Current(p))

(***************************************************************************)
(* A node that no longer sends is removed for good, unless the monitor     *)
(* coroutine has died of its KeyError.                                     *)
(***************************************************************************)
SilentAreForgotten ==
  \A p \in Nodes :
    status[p] \in {"mute", "down"}
      ~> [](nodes_info[p] = Absent \/ monitor = "failed")
=============================================================================
