--------------------------- MODULE PeerDirectory ----------------------------
(***************************************************************************)
(* What a node may rely on in its registry of remote nodes, without        *)
(* heartbeats, requests, ports or clocks: an entry is an honest snapshot.  *)
(* It may be old, and it may be forgotten, but it holds every socket that  *)
(* the infoID stored with it announces, and no socket that was never       *)
(* listed.  Module Discovery implements this specification.                *)
(***************************************************************************)
EXTENDS Integers

CONSTANTS Nodes, MaxInfoID

NoEntry == [id |-> -1, sockets |-> -1]
Entry == [id : 1 .. MaxInfoID, sockets : 1 .. MaxInfoID]

VARIABLES
  listed,      \* node -> sockets in its local_node_info
  announced,   \* node -> its infoID
  entry        \* node -> what the observer has of it

vars == <<listed, announced, entry>>

Init ==
  /\ listed = [p \in Nodes |-> 0]
  /\ announced = [p \in Nodes |-> 0]
  /\ entry = [p \in Nodes |-> NoEntry]

(* A new node lists and announces get_node_info before anyone can see it. *)
Join(p) ==
  /\ listed[p] = 0
  /\ listed' = [listed EXCEPT ![p] = 1]
  /\ announced' = [announced EXCEPT ![p] = 1]
  /\ UNCHANGED entry

(* A socket is listed first and announced second. *)
List(p) ==
  /\ listed[p] \in 1 .. MaxInfoID - 1
  /\ listed' = [listed EXCEPT ![p] = @ + 1]
  /\ UNCHANGED <<announced, entry>>

Announce(p) ==
  /\ announced[p] < listed[p]
  /\ announced' = [announced EXCEPT ![p] = @ + 1]
  /\ UNCHANGED <<listed, entry>>

Honest(p, e) ==
  /\ e.id <= announced[p]
  /\ e.id <= e.sockets
  /\ e.sockets <= listed[p]

Learn(p) ==
  /\ \E e \in Entry :
        /\ Honest(p, e)
        /\ entry' = [entry EXCEPT ![p] = e]
  /\ UNCHANGED <<listed, announced>>

Forget(S) ==
  /\ entry' = [p \in Nodes |-> IF p \in S THEN NoEntry ELSE entry[p]]
  /\ UNCHANGED <<listed, announced>>

Next ==
  \/ \E p \in Nodes : Join(p) \/ List(p) \/ Announce(p) \/ Learn(p)
  \/ \E S \in SUBSET Nodes : Forget(S)

Spec == Init /\ [][Next]_vars
=============================================================================
