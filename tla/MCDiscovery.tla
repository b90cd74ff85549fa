---------------------------- MODULE MCDiscovery -----------------------------
(* Instances of Discovery for TLC. *)
EXTENDS Discovery, TLC

CONSTANTS n1, n2, p1, p2, t1, t2

OwnPort == [n \in Nodes |-> IF n = n1 THEN p1 ELSE p2]
OnePort == [n \in Nodes |-> p1]     \* each node gets the port of the last one

OneThread == [n \in Nodes |-> {t1}]
RacingThreads == [n \in Nodes |-> IF n = n1 THEN {t1, t2} ELSE {}]

(* A history variable decides no step: runs that do not ask for it hide it. *)
WithoutHistory == <<managerVars, peerVars, datagrams, replies>>

NodeSymmetry == Permutations(Nodes) \cup Permutations(Fetches)
=============================================================================
