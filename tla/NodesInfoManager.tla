-------------------------- MODULE NodesInfoManager --------------------------
(***************************************************************************)
(* The registry of remote nodes that every pyzlc node keeps                *)
(* (src/src/pyzlc/nodes/nodes_info_manager.py): three dictionaries keyed   *)
(* by node ID, the coroutines handle_heartbeat_async that are suspended at *)
(* their only await (the get_node_info request), and the coroutine         *)
(* check_heartbeat that removes silent nodes.                              *)
(*                                                                         *)
(* All of it runs on the one event-loop thread, so the code between two    *)
(* awaits is one action.  This module leaves the environment open: any     *)
(* heartbeat may arrive at any time and a request may be answered with any *)
(* node information, or not at all.  Module Discovery closes it.           *)
(***************************************************************************)
EXTENDS Integers

CONSTANTS
  Nodes,         \* node IDs: a restarted process has a new one (uuid4)
  Fetches,       \* handle_heartbeat_async calls that can be suspended at once
  None,          \* no node, no answer
  MaxInfoID,     \* bound: registrations of one node
  OfflineAfter   \* the 3 seconds of check_heartbeat, in clock ticks

InfoIDs == 1 .. MaxInfoID

(***************************************************************************)
(* What get_node_info answers.  Topics and services are only ever appended *)
(* to, so a count of sockets stands for the lists themselves.              *)
(***************************************************************************)
NodeInfo == [nodeID : Nodes, infoID : InfoIDs, sockets : InfoIDs]

HeartbeatMessage == [nodeID : Nodes, infoID : InfoIDs]

ASSUME ManagerAssumption ==
  /\ None \notin Nodes
  /\ None \notin NodeInfo
  /\ MaxInfoID \in Nat \ {0}
  /\ OfflineAfter \in Nat \ {0}

Absent == -1     \* the key is not in the dictionary

VARIABLES
  nodes_info,        \* node -> the sockets listed in the stored NodeInfo
  nodes_info_id,     \* node -> the infoID stored with it
  nodes_heartbeat,   \* node -> ticks since its entry was last refreshed
  fetches,           \* suspended coroutine -> node whose heartbeat started it
  monitor            \* check_heartbeat: "running", or ended by a KeyError

registry == <<nodes_info, nodes_info_id>>
managerVars == <<nodes_info, nodes_info_id, nodes_heartbeat, fetches, monitor>>

ManagerTypeOK ==
  /\ nodes_info \in [Nodes -> InfoIDs \cup {Absent}]
  /\ nodes_info_id \in [Nodes -> InfoIDs \cup {Absent}]
  /\ nodes_heartbeat \in [Nodes -> -1 .. OfflineAfter + 1]
  /\ fetches \in [Fetches -> Nodes \cup {None}]
  /\ monitor \in {"running", "failed"}

ManagerInit ==
  /\ nodes_info = [n \in Nodes |-> Absent]
  /\ nodes_info_id = [n \in Nodes |-> Absent]
  /\ nodes_heartbeat = [n \in Nodes |-> Absent]
  /\ fetches = [f \in Fetches |-> None]
  /\ monitor = "running"

-----------------------------------------------------------------------------

CheckInfo(n, id) == nodes_info_id[n] = id

(***************************************************************************)
(* handle_heartbeat_async up to its early return or its await.             *)
(***************************************************************************)
HeartbeatKnown(h) ==
  /\ CheckInfo(h.nodeID, h.infoID)
  /\ nodes_heartbeat' = [nodes_heartbeat EXCEPT ![h.nodeID] = 0]
  /\ UNCHANGED <<registry, fetches, monitor>>

HeartbeatNews(h, f) ==
  /\ ~ CheckInfo(h.nodeID, h.infoID)
  /\ fetches[f] = None
  /\ nodes_heartbeat' = [nodes_heartbeat EXCEPT ![h.nodeID] = 0]
  /\ fetches' = [fetches EXCEPT ![f] = h.nodeID]
  /\ UNCHANGED <<registry, monitor>>

(* Not the code: a known node's information is never replaced. *)
UpdateNodeOnce(info) ==
  /\ \/ /\ nodes_info[info.nodeID] # Absent
        /\ UNCHANGED registry
     \/ /\ nodes_info[info.nodeID] = Absent
        /\ nodes_info' = [nodes_info EXCEPT ![info.nodeID] = info.sockets]
        /\ nodes_info_id' = [nodes_info_id EXCEPT ![info.nodeID] = info.infoID]
  /\ nodes_heartbeat' = [nodes_heartbeat EXCEPT ![info.nodeID] = 0]

(* Not the code: storing an answer does not count as a sign of life. *)
UpdateNodeUntimed(info) ==
  /\ \/ /\ CheckInfo(info.nodeID, info.infoID)
        /\ UNCHANGED registry
     \/ /\ ~ CheckInfo(info.nodeID, info.infoID)
        /\ nodes_info' = [nodes_info EXCEPT ![info.nodeID] = info.sockets]
        /\ nodes_info_id' = [nodes_info_id EXCEPT ![info.nodeID] = info.infoID]
  /\ UNCHANGED nodes_heartbeat

(***************************************************************************)
(* update_node: everything is keyed by the node ID of the answer, which is *)
(* not necessarily that of the heartbeat.                                  *)
(***************************************************************************)
UpdateNode(info) ==
  /\ \/ /\ CheckInfo(info.nodeID, info.infoID)
        /\ UNCHANGED registry
     \/ /\ ~ CheckInfo(info.nodeID, info.infoID)
        /\ nodes_info' = [nodes_info EXCEPT ![info.nodeID] = info.sockets]
        /\ nodes_info_id' = [nodes_info_id EXCEPT ![info.nodeID] = info.infoID]
  /\ nodes_heartbeat' = [nodes_heartbeat EXCEPT ![info.nodeID] = 0]

(* Not the code: the answer is stored under the heartbeat's node ID. *)
FetchReturnsByHeartbeat(f, info) ==
  /\ fetches[f] # None
  /\ UpdateNode([info EXCEPT !.nodeID = fetches[f]])
  /\ fetches' = [fetches EXCEPT ![f] = None]
  /\ UNCHANGED monitor

(* The rest of handle_heartbeat_async, once the request was answered. *)
FetchReturns(f, info) ==
  /\ fetches[f] # None
  /\ UpdateNode(info)
  /\ fetches' = [fetches EXCEPT ![f] = None]
  /\ UNCHANGED monitor

(***************************************************************************)
(* ... and when it was not: send_request gave None after its 0.3 s, on an  *)
(* error status or on a socket error, or it raised.  (The set              *)
(* unreplyed_heartbeats only decides whether that is logged again.)        *)
(***************************************************************************)
FetchFails(f) ==
  /\ fetches[f] # None
  /\ fetches' = [fetches EXCEPT ![f] = None]
  /\ UNCHANGED <<registry, nodes_heartbeat, monitor>>

(***************************************************************************)
(* One pass of check_heartbeat.  It first collects the expired nodes,      *)
(* reading nodes_info[node_id]["name"] of each for a log line: a node that *)
(* is timed but not registered raises KeyError there, which nothing        *)
(* catches before the coroutine ends.                                      *)
(***************************************************************************)
Expired == {n \in Nodes : nodes_heartbeat[n] > OfflineAfter}

(* Not the code: the infoID is not popped with the information. *)
RemoveNodesKeepsID(S) ==
  /\ nodes_info' = [n \in Nodes |-> IF n \in S THEN Absent ELSE nodes_info[n]]
  /\ nodes_heartbeat' = [n \in Nodes |-> IF n \in S THEN Absent ELSE nodes_heartbeat[n]]
  /\ UNCHANGED nodes_info_id

RemoveNodes(S) ==
  /\ nodes_info' = [n \in Nodes |-> IF n \in S THEN Absent ELSE nodes_info[n]]
  /\ nodes_info_id' = [n \in Nodes |-> IF n \in S THEN Absent ELSE nodes_info_id[n]]
  /\ nodes_heartbeat' = [n \in Nodes |-> IF n \in S THEN Absent ELSE nodes_heartbeat[n]]

CheckHeartbeatRemoves ==
  /\ monitor = "running"
  /\ Expired # {}
  /\ \A n \in Expired : nodes_info[n] # Absent
  /\ RemoveNodes(Expired)
  /\ UNCHANGED <<fetches, monitor>>

CheckHeartbeatRaises ==
  /\ monitor = "running"
  /\ \E n \in Expired : nodes_info[n] = Absent
  /\ monitor' = "failed"
  /\ UNCHANGED <<registry, nodes_heartbeat, fetches>>

CheckHeartbeat == CheckHeartbeatRemoves \/ CheckHeartbeatRaises

(* time.monotonic(): ages above OfflineAfter are all alike. *)
Older(age) == IF age = Absent \/ age > OfflineAfter THEN age ELSE age + 1

Tick ==
  /\ \E n \in Nodes : Older(nodes_heartbeat[n]) # nodes_heartbeat[n]
  /\ nodes_heartbeat' = [n \in Nodes |-> Older(nodes_heartbeat[n])]
  /\ UNCHANGED <<registry, fetches, monitor>>

-----------------------------------------------------------------------------

ManagerNext ==
  \/ \E h \in HeartbeatMessage : HeartbeatKnown(h)
  \/ \E h \in HeartbeatMessage, f \in Fetches : HeartbeatNews(h, f)
  \/ \E f \in Fetches, info \in NodeInfo : FetchReturns(f, info)
  \/ \E f \in Fetches : FetchFails(f)
  \/ CheckHeartbeat
  \/ Tick

ManagerSpec == ManagerInit /\ [][ManagerNext]_managerVars

(***************************************************************************)
(* The three dictionaries agree: a stored infoID never outlives the        *)
(* information it stands for (check_info would go on answering "known" and *)
(* the node would never be fetched again), and every registered node has a *)
(* heartbeat time, without which check_heartbeat can never remove it.      *)
(***************************************************************************)
KeysAgree ==
  \A n \in Nodes :
    /\ nodes_info[n] = Absent <=> nodes_info_id[n] = Absent
    /\ nodes_info[n] # Absent => nodes_heartbeat[n] # Absent

(***************************************************************************)
(* "Periodically check the heartbeat of nodes": the coroutine that removes *)
(* silent nodes goes on while the node runs.                               *)
(***************************************************************************)
MonitorKeepsRunning == monitor = "running"
=============================================================================
