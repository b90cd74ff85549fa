-------------------------- MODULE DiscoveryProofs ---------------------------
(***************************************************************************)
(* Theorems about NodesInfoManager and Discovery, for any number of nodes, *)
(* ports, suspended fetches and registrations.                             *)
(*                                                                         *)
(* The registry's own invariant (types, KeysAgree) is proved in the open   *)
(* environment of ManagerSpec; every step of Discovery is a step of that   *)
(* environment, or leaves the registry alone.  What the peers and the      *)
(* network add is that every copy of a node's information is an honest     *)
(* snapshot.                                                               *)
(***************************************************************************)
EXTENDS Discovery, FiniteSetTheorems, TLAPS

LEMMA ConstantFacts ==
  /\ MaxInfoID \in Nat /\ MaxInfoID >= 1
  /\ OfflineAfter \in Nat /\ OfflineAfter >= 1
  /\ None \notin Nodes
  /\ None \notin NodeInfo
  /\ Members \subseteq Nodes
  /\ PortOf \in [Nodes -> Ports]
  /\ ThreadsOf \in [Nodes -> SUBSET Threads]
  /\ IsFiniteSet(Threads)
BY ManagerAssumption, DiscoveryAssumption

-----------------------------------------------------------------------------
(* The registry in an open environment. *)

ManagerInv == ManagerTypeOK /\ KeysAgree

LEMMA ManagerInitInv == ManagerInit => ManagerInv
BY ConstantFacts DEF ManagerInit, ManagerInv, ManagerTypeOK, KeysAgree, InfoIDs, Absent

LEMMA HeartbeatKnownInv ==
  ASSUME ManagerInv, NEW h \in HeartbeatMessage, HeartbeatKnown(h)
  PROVE  ManagerInv'
BY ConstantFacts DEF ManagerInv, ManagerTypeOK, KeysAgree, HeartbeatKnown,
  HeartbeatMessage, registry, InfoIDs, Absent

LEMMA HeartbeatNewsInv ==
  ASSUME ManagerInv, NEW h \in HeartbeatMessage, NEW f \in Fetches, HeartbeatNews(h, f)
  PROVE  ManagerInv'
BY ConstantFacts DEF ManagerInv, ManagerTypeOK, KeysAgree, HeartbeatNews,
  HeartbeatMessage, registry, InfoIDs, Absent

LEMMA FetchReturnsInv ==
  ASSUME ManagerInv, NEW f \in Fetches, NEW info \in NodeInfo, FetchReturns(f, info)
  PROVE  ManagerInv'
BY ConstantFacts DEF ManagerInv, ManagerTypeOK, KeysAgree, FetchReturns, UpdateNode,
  NodeInfo, registry, InfoIDs, Absent

LEMMA FetchFailsInv ==
  ASSUME ManagerInv, NEW f \in Fetches, FetchFails(f)
  PROVE  ManagerInv'
BY ConstantFacts DEF ManagerInv, ManagerTypeOK, KeysAgree, FetchFails, registry

LEMMA CheckHeartbeatInv ==
  ASSUME ManagerInv, CheckHeartbeat
  PROVE  ManagerInv'
<1>1. CASE CheckHeartbeatRemoves
  BY <1>1, ConstantFacts DEF ManagerInv, ManagerTypeOK, KeysAgree,
    CheckHeartbeatRemoves, RemoveNodes, InfoIDs, Absent
<1>2. CASE CheckHeartbeatRaises
  BY <1>2 DEF ManagerInv, ManagerTypeOK, KeysAgree, CheckHeartbeatRaises, registry
<1>3. QED
  BY <1>1, <1>2 DEF CheckHeartbeat

LEMMA TickInv ==
  ASSUME ManagerInv, Tick
  PROVE  ManagerInv'
BY ConstantFacts DEF ManagerInv, ManagerTypeOK, KeysAgree, Tick, Older, registry,
  InfoIDs, Absent

LEMMA ManagerStepInv == ManagerInv /\ [ManagerNext]_managerVars => ManagerInv'
<1> SUFFICES ASSUME ManagerInv, [ManagerNext]_managerVars
             PROVE  ManagerInv'
  OBVIOUS
<1>1. CASE ManagerNext
  BY <1>1, HeartbeatKnownInv, HeartbeatNewsInv, FetchReturnsInv, FetchFailsInv,
    CheckHeartbeatInv, TickInv DEF ManagerNext
<1>2. CASE UNCHANGED managerVars
  BY <1>2 DEF ManagerInv, ManagerTypeOK, KeysAgree, managerVars
<1>3. QED
  BY <1>1, <1>2

(***************************************************************************)
(* Whatever heartbeats arrive and whatever is answered, the dictionaries   *)
(* of the registry agree.                                                  *)
(***************************************************************************)
THEOREM ManagerKeysAgree == ManagerSpec => []KeysAgree
<1>1. ManagerInv => KeysAgree
  BY DEF ManagerInv
<1>2. QED
  BY <1>1, ManagerInitInv, ManagerStepInv, PTL DEF ManagerSpec

-----------------------------------------------------------------------------
(* Every step of Discovery is a step of the registry or leaves it alone.   *)

LEMMA RegistrySteps ==
  ASSUME TypeOK, [Next]_vars
  PROVE  [ManagerNext]_managerVars
<1>1. ASSUME NEW d \in datagrams, Receive(d)
      PROVE  ManagerNext
  BY <1>1 DEF Receive, ManagerNext, TypeOK
<1>2. ASSUME NEW f \in Fetches, Answered(f)
      PROVE  ManagerNext
  <2>1. replies[f] \in NodeInfo
    BY <1>2 DEF Answered, TypeOK
  <2>2. QED
    BY <1>2, <2>1 DEF Answered, ManagerNext
<1>3. ASSUME NEW f \in Fetches, Unanswered(f)
      PROVE  ManagerNext
  BY <1>3 DEF Unanswered, ManagerNext
<1>4. ASSUME Observer
      PROVE  ManagerNext
  BY <1>4 DEF Observer, ManagerNext
<1>5. ASSUME NEW p \in Nodes,
             \/ Start(p) \/ SendHeartbeat(p) \/ SenderFails(p) \/ Stop(p)
             \/ \E t \in ThreadsOf[p] : Register(p, t)
      PROVE  UNCHANGED managerVars
  BY <1>5 DEF Start, Register, SendHeartbeat, SenderFails, Stop
<1>6. ASSUME NEW d \in datagrams, Lose(d)
      PROVE  UNCHANGED managerVars
  BY <1>6 DEF Lose
<1>7. ASSUME NEW f \in Fetches, Serve(f)
      PROVE  UNCHANGED managerVars
  BY <1>7 DEF Serve
<1>8. ASSUME UNCHANGED vars
      PROVE  UNCHANGED managerVars
  BY <1>8 DEF vars
<1>9. QED
  BY <1>1, <1>2, <1>3, <1>4, <1>5, <1>6, <1>7, <1>8 DEF Next

-----------------------------------------------------------------------------
(***************************************************************************)
(* The peers, in any state: a started node has registered get_node_info,   *)
(* and every thread that is between its append and its increment accounts  *)
(* for one socket that the infoID, or the infoID the thread has read, does *)
(* not count.  Increments that were lost leave it further behind.          *)
(***************************************************************************)
Registering(p) == {t \in Threads : adding[p][t] # Idle}

PeersTyped ==
  /\ status \in [Nodes -> {"new", "up", "mute", "down"}]
  /\ infoID \in [Nodes -> 0 .. MaxInfoID]
  /\ sockets \in [Nodes -> 0 .. MaxInfoID]
  /\ adding \in [Nodes -> [Threads -> {Idle, Appended} \cup InfoIDs]]
  /\ lowered \in [Nodes -> 0 .. MaxInfoID]

Counted(p) ==
  /\ infoID[p] + Cardinality(Registering(p)) <= sockets[p]
  /\ lowered[p] <= sockets[p]
  /\ infoID[p] = 0 <=> status[p] = "new"
  /\ sockets[p] = 0 <=> status[p] = "new"
  /\ \A t \in Threads : adding[p][t] \in InfoIDs =>
       /\ adding[p][t] + Cardinality(Registering(p)) <= sockets[p]
       /\ adding[p][t] <= Highest(p)

PeersInv == PeersTyped /\ \A p \in Nodes : Counted(p)

LEMMA RegisteringFinite ==
  ASSUME NEW p
  PROVE  IsFiniteSet(Registering(p)) /\ Cardinality(Registering(p)) \in Nat
<1>1. Registering(p) \subseteq Threads
  BY DEF Registering
<1>2. IsFiniteSet(Registering(p))
  BY <1>1, ConstantFacts, FS_Subset
<1>3. QED
  BY <1>2, FS_CardinalityType

(* How a step of a registration changes the number of those under way. *)
LEMMA RegisteringCount ==
  ASSUME PeersTyped, NEW p \in Nodes, NEW t \in Threads, NEW next, At(p, t, next),
         NEW k \in Nat, Cardinality(Registering(p)) = k
  PROVE  /\ adding[p][t] = Idle /\ next # Idle
              => Cardinality(Registering(p)') = k + 1
         /\ adding[p][t] # Idle /\ next # Idle
              => Cardinality(Registering(p)') = k
         /\ adding[p][t] # Idle /\ next = Idle
              => k >= 1 /\ Cardinality(Registering(p)') = k - 1
<1>1. \A u \in Threads : adding'[p][u] = IF u = t THEN next ELSE adding[p][u]
  BY DEF PeersTyped, At
<1>2. IsFiniteSet(Registering(p))
  BY RegisteringFinite
<1>3. CASE adding[p][t] = Idle /\ next # Idle
  <2>1. Registering(p)' = Registering(p) \cup {t} /\ t \notin Registering(p)
    BY <1>1, <1>3 DEF Registering
  <2>2. QED
    BY <1>2, <1>3, <2>1, FS_AddElement
<1>4. CASE adding[p][t] # Idle /\ next # Idle
  <2>1. Registering(p)' = Registering(p)
    BY <1>1, <1>4 DEF Registering
  <2>2. QED
    BY <1>4, <2>1
<1>5. CASE adding[p][t] # Idle /\ next = Idle
  <2>1. Registering(p)' = Registering(p) \ {t} /\ t \in Registering(p)
    BY <1>1, <1>5 DEF Registering
  <2>2. Cardinality(Registering(p)') = k - 1
    BY <1>2, <2>1, FS_RemoveElement
  <2>3. k # 0
    BY <1>2, <2>1, FS_EmptySet
  <2>4. QED
    BY <1>5, <2>2, <2>3
<1>6. QED
  BY <1>3, <1>4, <1>5

(* What a step does to the counts of one node. *)
Goes(p) ==
  /\ Counted(p)'
  /\ sockets'[p] >= sockets[p]
  /\ Highest(p)' >= Highest(p)
  /\ lowered[p] # 0 => lowered'[p] # 0

LEMMA RegisterGoes ==
  ASSUME PeersInv, NEW p \in Nodes, NEW t \in ThreadsOf[p], Register(p, t)
  PROVE  PeersTyped' /\ Goes(p)
<1> DEFINE k == Cardinality(Registering(p))
           l == Cardinality(Registering(p)')
<1>1. k \in Nat /\ t \in Threads
  BY RegisteringFinite, ConstantFacts
<1>2. PeersTyped /\ Counted(p) /\ MaxInfoID \in Nat
  BY ConstantFacts DEF PeersInv
<1>3. infoID[p] >= 1 /\ status'[p] = status[p] /\ status' = status /\ status[p] # "new"
  BY <1>2 DEF Register, Running, Counted, PeersTyped
<1>4. \A next : At(p, t, next) =>
        \A u \in Threads : adding'[p][u] = IF u = t THEN next ELSE adding[p][u]
  BY <1>1, <1>2 DEF At, PeersTyped
<1> HIDE DEF k, l
<1>5. CASE adding[p][t] = Idle /\ AppendSocket(p) /\ At(p, t, Appended)
  <2>1. l = k + 1
    BY <1>1, <1>2, <1>5, RegisteringCount DEF k, l, Idle, Appended
  <2>2. PeersTyped'
    BY <1>1, <1>2, <1>3, <1>5 DEF PeersTyped, AppendSocket, At
  <2>3. sockets'[p] = sockets[p] + 1 /\ infoID'[p] = infoID[p] /\ lowered'[p] = lowered[p]
    BY <1>2, <1>5 DEF PeersTyped, AppendSocket
  <2>4. \A u \in Threads : adding'[p][u] \in InfoIDs => adding'[p][u] = adding[p][u]
    BY <1>4, <1>5 DEF InfoIDs, Appended
  <2>5. QED
    BY <1>1, <1>2, <1>3, <2>1, <2>2, <2>3, <2>4
      DEF k, l, Goes, Counted, Highest, Larger, PeersTyped, InfoIDs
<1>6. CASE /\ adding[p][t] = Appended
           /\ At(p, t, infoID[p]) /\ UNCHANGED <<infoID, sockets, lowered>>
  <2>1. l = k
    BY <1>1, <1>2, <1>3, <1>6, RegisteringCount DEF k, l, Idle, Appended, PeersTyped
  <2>2. PeersTyped'
    BY <1>1, <1>2, <1>3, <1>6 DEF PeersTyped, At, InfoIDs
  <2>3. \A u \in Threads : adding'[p][u] \in {adding[p][u], infoID[p]}
    BY <1>4, <1>6
  <2>4. QED
    BY <1>1, <1>2, <1>3, <1>6, <2>1, <2>2, <2>3
      DEF k, l, Goes, Counted, Highest, Larger, PeersTyped, InfoIDs
<1>7. CASE /\ adding[p][t] \in InfoIDs
           /\ WriteInfoID(p, adding[p][t] + 1) /\ At(p, t, Idle)
  <2>1. l = k - 1 /\ k >= 1
    BY <1>1, <1>2, <1>7, RegisteringCount DEF k, l, Idle, InfoIDs
  <2>2. PICK id \in InfoIDs : id = adding[p][t]
    BY <1>7
  <2>3. id + k <= sockets[p] /\ id <= Highest(p) /\ id \in Nat
    BY <1>1, <1>2, <2>2 DEF Counted, k, InfoIDs
  <2>4. /\ infoID' = [infoID EXCEPT ![p] = id + 1]
        /\ lowered' = [lowered EXCEPT ![p] =
             IF id + 1 < infoID[p] THEN Larger(infoID[p], @) ELSE @]
        /\ sockets' = sockets
    BY <1>7, <2>2 DEF WriteInfoID
  <2>5. PeersTyped'
    <3>1. id + 1 \in 0 .. MaxInfoID
      BY <1>1, <1>2, <2>1, <2>3 DEF PeersTyped
    <3>2. Larger(infoID[p], lowered[p]) \in 0 .. MaxInfoID
      BY <1>2 DEF PeersTyped, Larger
    <3>3. adding' \in [Nodes -> [Threads -> {Idle, Appended} \cup InfoIDs]]
      BY <1>1, <1>2, <1>7 DEF PeersTyped, At
    <3>4. QED
      BY <1>2, <1>3, <2>4, <3>1, <3>2, <3>3 DEF PeersTyped
  <2>6. /\ infoID'[p] = id + 1
        /\ lowered'[p] = IF id + 1 < infoID[p] THEN Larger(infoID[p], lowered[p])
                         ELSE lowered[p]
    BY <1>2, <2>4 DEF PeersTyped
  <2>7. \A u \in Threads : adding'[p][u] \in InfoIDs => adding'[p][u] = adding[p][u]
    BY <1>4, <1>7 DEF InfoIDs, Idle
  <2>8. Highest(p)' >= Highest(p)
    BY <1>2, <2>2, <2>6 DEF Highest, Larger, PeersTyped, InfoIDs
  <2>9. lowered'[p] <= sockets[p] /\ (lowered[p] # 0 => lowered'[p] # 0)
    BY <1>1, <1>2, <2>6 DEF Counted, Larger, PeersTyped, k
  <2>10. infoID'[p] + l <= sockets[p]
    BY <1>1, <2>1, <2>3, <2>6, <1>2 DEF PeersTyped
  <2>11. \A u \in Threads : adding'[p][u] \in InfoIDs =>
           adding'[p][u] + l <= sockets[p] /\ adding'[p][u] <= Highest(p)'
    <3> SUFFICES ASSUME NEW u \in Threads, NEW a \in InfoIDs, adding[p][u] = a
                 PROVE  a + l <= sockets[p] /\ a <= Highest(p)'
      BY <2>7
    <3>1. a + k <= sockets[p] /\ a <= Highest(p) /\ a \in Nat
      BY <1>2 DEF Counted, k, InfoIDs
    <3>2. Highest(p) \in Nat /\ Highest(p)' \in Nat /\ sockets[p] \in Nat
      BY <1>2, <2>5 DEF Highest, Larger, PeersTyped
    <3>3. QED
      BY <1>1, <2>1, <2>8, <3>1, <3>2
  <2>12. QED
    BY <1>2, <1>3, <2>3, <2>4, <2>5, <2>6, <2>8, <2>9, <2>10, <2>11
      DEF Goes, Counted, PeersTyped, l
<1>8. QED
  BY <1>5, <1>6, <1>7 DEF Register

(* Nothing changes for a node whose counts stay as they are. *)
LEMMA NothingGoes ==
  ASSUME PeersInv, NEW p \in Nodes,
         UNCHANGED <<infoID[p], sockets[p], adding[p], lowered[p]>>,
         status'[p] = "new" <=> status[p] = "new"
  PROVE  Goes(p)
<1>1. Highest(p)' = Highest(p) /\ Highest(p) \in Nat
  BY DEF Highest, Larger, PeersInv, PeersTyped
<1>2. Registering(p)' = Registering(p)
  BY DEF Registering
<1>3. QED
  BY <1>1, <1>2 DEF Goes, Counted, PeersInv, PeersTyped

LEMMA PeersStep ==
  ASSUME PeersInv, [Next]_vars
  PROVE  PeersInv' /\ \A q \in Nodes : Goes(q)
<1> SUFFICES PeersTyped' /\ \A q \in Nodes : Goes(q)
  BY DEF Goes, PeersInv
<1>1. ASSUME NEW p \in Nodes, Start(p)
      PROVE  PeersTyped' /\ \A q \in Nodes : Goes(q)
  <2>1. PeersTyped'
    BY <1>1, ConstantFacts DEF Start, PeersInv, PeersTyped
  <2>2. Goes(p)
    <3>1. PeersTyped /\ Counted(p) /\ status[p] = "new"
      BY <1>1 DEF Start, PeersInv
    <3>2. infoID[p] = 0 /\ sockets[p] = 0 /\ lowered[p] = 0
      BY <3>1 DEF Counted, PeersTyped
    <3>3. PICK k \in Nat : Cardinality(Registering(p)) = k
      BY RegisteringFinite
    <3>4. k = 0 /\ \A t \in Threads : adding[p][t] \notin InfoIDs
      BY <3>1, <3>2, <3>3 DEF Counted, InfoIDs
    <3>5. /\ infoID'[p] = 1 /\ sockets'[p] = 1 /\ status'[p] = "up"
          /\ lowered' = lowered /\ adding' = adding
      BY <1>1, <3>1 DEF Start, PeersTyped
    <3>6. Registering(p)' = Registering(p)
      BY <3>5 DEF Registering
    <3>7. QED
      BY <3>2, <3>3, <3>4, <3>5, <3>6 DEF Goes, Counted, Highest, Larger
  <2>3. ASSUME NEW q \in Nodes, q # p
        PROVE  Goes(q)
    BY <1>1, <2>3, NothingGoes DEF Start, PeersInv, PeersTyped
  <2>4. QED
    BY <2>1, <2>2, <2>3
<1>2. ASSUME NEW p \in Nodes, NEW t \in ThreadsOf[p], Register(p, t)
      PROVE  PeersTyped' /\ \A q \in Nodes : Goes(q)
  <2>1. PeersTyped' /\ Goes(p)
    BY <1>2, RegisterGoes
  <2>2. ASSUME NEW q \in Nodes, q # p
        PROVE  Goes(q)
    BY <1>2, <2>2, NothingGoes DEF Register, AppendSocket, WriteInfoID, At, PeersInv,
      PeersTyped
  <2>3. QED
    BY <2>1, <2>2
<1>3. ASSUME NEW p \in Nodes, SenderFails(p) \/ Stop(p)
      PROVE  PeersTyped' /\ \A q \in Nodes : Goes(q)
  <2>1. PeersTyped'
    BY <1>3 DEF PeersInv, PeersTyped, SenderFails, Stop
  <2>2. ASSUME NEW q \in Nodes
        PROVE  Goes(q)
    BY <1>3, NothingGoes DEF PeersInv, PeersTyped, SenderFails, Stop, Running
  <2>3. QED
    BY <2>1, <2>2
<1>4. ASSUME UNCHANGED peerVars
      PROVE  PeersTyped' /\ \A q \in Nodes : Goes(q)
  BY <1>4, NothingGoes DEF PeersInv, PeersTyped, peerVars
<1>5. ASSUME \/ \E p \in Nodes : SendHeartbeat(p)
             \/ \E d \in datagrams : Receive(d) \/ Lose(d)
             \/ \E f \in Fetches : Serve(f) \/ Answered(f) \/ Unanswered(f)
             \/ Observer
             \/ UNCHANGED vars
      PROVE  UNCHANGED peerVars
  BY <1>5 DEF SendHeartbeat, Receive, Lose, Serve, Answered, Unanswered, Observer, vars
<1>6. QED
  BY <1>1, <1>2, <1>3, <1>4, <1>5 DEF Next

-----------------------------------------------------------------------------
(* The inductive invariant. *)

(***************************************************************************)
(* A copy of p's information, stored or on its way to a coroutine, says    *)
(* that p has id announced and n sockets.                                  *)
(***************************************************************************)
IsCopy(p, id, n) ==
  \/ nodes_info_id[p] # Absent /\ id = nodes_info_id[p] /\ n = nodes_info[p]
  \/ \E f \in Fetches :
       /\ replies[f] # None
       /\ p = replies[f].nodeID /\ id = replies[f].infoID /\ n = replies[f].sockets

(* p will announce an infoID above id, unless it dies first or goes back.  *)
WillExceed(p, id) ==
  \/ id < infoID[p]
  \/ \E t \in Threads :
       adding[p][t] = Appended \/ (adding[p][t] \in InfoIDs /\ adding[p][t] >= id)

(* A copy that lacks a socket shall not be taken for the current one.      *)
LacksOnlyNews ==
  \A p \in Nodes : \A id, n \in Int :
    IsCopy(p, id, n) /\ lowered[p] = 0 /\ n < sockets[p] => WillExceed(p, id)

IInv ==
  /\ TypeOK
  /\ KeysAgree
  /\ PeersInv
  /\ EveryCopyIsHonest
  /\ LacksOnlyNews

LEMMA InitInv == Init => IInv
<1> SUFFICES ASSUME Init
             PROVE  IInv
  OBVIOUS
<1>1. TypeOK /\ KeysAgree /\ PeersTyped
  <2>1. ManagerTypeOK /\ KeysAgree
    BY ManagerInitInv DEF Init, ManagerInv
  <2>2. PeersTyped /\ datagrams \subseteq HeartbeatMessage
    BY ConstantFacts DEF Init, PeersTyped
  <2>3. replies \in [Fetches -> NodeInfo \cup {None}]
    BY DEF Init
  <2>4. known \in [Fetches -> [Nodes -> InfoIDs \cup {Absent}]]
    BY DEF Init, NothingKnown
  <2>5. QED
    BY <2>1, <2>2, <2>3, <2>4 DEF TypeOK, PeersTyped
<1>2. ASSUME NEW p \in Nodes
      PROVE  Counted(p)
  <2>1. Registering(p) = {}
    BY <1>2 DEF Init, Registering
  <2>2. Cardinality(Registering(p)) = 0
    BY <2>1, FS_EmptySet
  <2>3. QED
    BY <1>2, <2>2 DEF Init, Counted, Idle, InfoIDs
<1>3. EveryCopyIsHonest /\ LacksOnlyNews
  BY DEF Init, ManagerInit, EveryCopyIsHonest, LacksOnlyNews, IsCopy, Absent
<1>4. QED
  BY <1>1, <1>2, <1>3 DEF IInv, PeersInv

(* What is in the network is well typed. *)
LEMMA NetworkTyped ==
  ASSUME IInv, [Next]_vars
  PROVE  /\ datagrams' \subseteq HeartbeatMessage
         /\ replies' \in [Fetches -> NodeInfo \cup {None}]
         /\ known' \in [Fetches -> [Nodes -> InfoIDs \cup {Absent}]]
<1>1. \A p \in Nodes : Running(p) =>
        /\ infoID[p] \in InfoIDs
        /\ sockets[p] \in InfoIDs
  BY ConstantFacts DEF IInv, PeersInv, PeersTyped, Counted, Running, InfoIDs
<1>2. ASSUME NEW p \in Nodes, SendHeartbeat(p)
      PROVE  [nodeID |-> p, infoID |-> infoID[p]] \in HeartbeatMessage
  BY <1>1, <1>2 DEF SendHeartbeat, Running, HeartbeatMessage
<1>3. ASSUME NEW q \in Nodes, Running(q)
      PROVE  [nodeID |-> q, infoID |-> infoID[q], sockets |-> sockets[q]] \in NodeInfo
  BY <1>1, <1>3 DEF NodeInfo
<1>4. NothingKnown \in [Nodes -> InfoIDs \cup {Absent}]
  BY DEF NothingKnown
<1>5. known' \in [Fetches -> [Nodes -> InfoIDs \cup {Absent}]]
  BY <1>4 DEF IInv, TypeOK, ManagerTypeOK, Next, Start, Register, SendHeartbeat,
    SenderFails, Stop, Receive, Lose, Serve, Answered, Unanswered, Finished, Observer,
    vars, netVars
<1>6. QED
  BY <1>2, <1>3, <1>5 DEF IInv, TypeOK, Next, Start, Register, SendHeartbeat, SenderFails,
    Stop, Receive, Lose, Serve, Answered, Unanswered, Observer, vars, netVars

LEMMA TypeStep ==
  ASSUME IInv, [Next]_vars
  PROVE  TypeOK' /\ KeysAgree' /\ PeersInv'
<1>1. ManagerInv'
  BY RegistrySteps, ManagerStepInv DEF IInv, ManagerInv, TypeOK
<1>2. PeersInv'
  BY PeersStep DEF IInv
<1>3. QED
  BY <1>1, <1>2, NetworkTyped DEF ManagerInv, TypeOK, PeersInv, PeersTyped

LEMMA CopyTyped ==
  ASSUME TypeOK, NEW p \in Nodes, NEW id, NEW n, IsCopy(p, id, n)
  PROVE  id \in Int /\ n \in Int
BY ConstantFacts DEF IsCopy, TypeOK, ManagerTypeOK, NodeInfo, InfoIDs, Absent

(***************************************************************************)
(* A new copy is made either from another copy or by the node itself, from *)
(* what its local_node_info is at that moment.                             *)
(***************************************************************************)
LEMMA CopiesStep ==
  ASSUME IInv, [Next]_vars, NEW p \in Nodes, NEW id, NEW n, IsCopy(p, id, n)'
  PROVE  IsCopy(p, id, n) \/ (id = infoID[p] /\ n = sockets[p])
<1>1. TypeOK
  BY DEF IInv
<1>2. CASE UNCHANGED registry /\ UNCHANGED replies
  BY <1>2 DEF registry, IsCopy
<1>3. ASSUME NEW f \in Fetches, Serve(f)
      PROVE  IsCopy(p, id, n) \/ (id = infoID[p] /\ n = sockets[p])
  <2>1. PICK q \in Nodes :
          replies' = [replies EXCEPT ![f] =
            [nodeID |-> q, infoID |-> infoID[q], sockets |-> sockets[q]]]
    BY <1>3 DEF Serve
  <2>2. UNCHANGED registry
    BY <1>3 DEF Serve, managerVars, registry
  <2>3. QED
    BY <1>1, <2>1, <2>2 DEF registry, IsCopy, TypeOK
<1>4. ASSUME NEW f \in Fetches, Answered(f)
      PROVE  IsCopy(p, id, n)
  <2>1. replies[f] \in NodeInfo /\ replies[f] # None
    BY <1>1, <1>4 DEF Answered, TypeOK
  <2>2. \A g \in Fetches : replies'[g] # None => replies'[g] = replies[g]
    BY <1>1, <1>4 DEF Answered, TypeOK
  <2>3. \/ nodes_info_id'[p] = nodes_info_id[p] /\ nodes_info'[p] = nodes_info[p]
        \/ /\ p = replies[f].nodeID
           /\ nodes_info_id'[p] = replies[f].infoID /\ nodes_info'[p] = replies[f].sockets
    BY <1>1, <1>4, <2>1
      DEF Answered, FetchReturns, UpdateNode, registry, TypeOK, ManagerTypeOK, NodeInfo
  <2>4. QED
    BY <2>1, <2>2, <2>3 DEF IsCopy
<1>5. ASSUME NEW f \in Fetches, Unanswered(f)
      PROVE  IsCopy(p, id, n)
  <2>1. \A g \in Fetches : replies'[g] # None => replies'[g] = replies[g]
    BY <1>1, <1>5 DEF Unanswered, TypeOK
  <2>2. UNCHANGED registry
    BY <1>5 DEF Unanswered, FetchFails, registry
  <2>3. QED
    BY <2>1, <2>2 DEF registry, IsCopy
<1>6. ASSUME Observer
      PROVE  IsCopy(p, id, n)
  <2>1. UNCHANGED replies
    BY <1>6 DEF Observer, netVars
  <2>2. nodes_info_id'[p] # Absent =>
          nodes_info_id'[p] = nodes_info_id[p] /\ nodes_info'[p] = nodes_info[p]
    BY <1>1, <1>6 DEF Observer, CheckHeartbeat, CheckHeartbeatRemoves, RemoveNodes,
      CheckHeartbeatRaises, Tick, registry, TypeOK, ManagerTypeOK
  <2>3. QED
    BY <2>1, <2>2 DEF IsCopy
<1>7. ASSUME NEW d \in datagrams, Receive(d) \/ Lose(d)
      PROVE  UNCHANGED registry /\ UNCHANGED replies
  BY <1>7 DEF Receive, HeartbeatKnown, HeartbeatNews, Lose, managerVars, registry
<1>8. ASSUME NEW q \in Nodes,
             \/ Start(q) \/ SendHeartbeat(q) \/ SenderFails(q) \/ Stop(q)
             \/ \E t \in ThreadsOf[q] : Register(q, t)
      PROVE  UNCHANGED registry /\ UNCHANGED replies
  BY <1>8 DEF Start, Register, SendHeartbeat, SenderFails, Stop, managerVars, registry,
    netVars
<1>9. ASSUME UNCHANGED vars
      PROVE  UNCHANGED registry /\ UNCHANGED replies
  BY <1>9 DEF vars, managerVars, registry, netVars
<1>10. QED
  BY <1>2, <1>3, <1>4, <1>5, <1>6, <1>7, <1>8, <1>9 DEF Next

(* EveryCopyIsHonest, in terms of copies. *)
AllCopiesAreSnapshots ==
  \A p \in Nodes : \A id, n \in Int : IsCopy(p, id, n) => Snapshot(p, id, n)

LEMMA Honesty == TypeOK => (EveryCopyIsHonest <=> AllCopiesAreSnapshots)
<1> SUFFICES ASSUME TypeOK
             PROVE  EveryCopyIsHonest <=> AllCopiesAreSnapshots
  OBVIOUS
<1>1. ASSUME EveryCopyIsHonest
      PROVE  AllCopiesAreSnapshots
  BY <1>1 DEF EveryCopyIsHonest, AllCopiesAreSnapshots, IsCopy
<1>2. ASSUME AllCopiesAreSnapshots
      PROVE  EveryCopyIsHonest
  <2>1. ASSUME NEW p \in Nodes, nodes_info_id[p] # Absent
        PROVE  Snapshot(p, nodes_info_id[p], nodes_info[p])
    <3>1. IsCopy(p, nodes_info_id[p], nodes_info[p])
      BY <2>1 DEF IsCopy
    <3>2. QED
      BY <1>2, <3>1, CopyTyped DEF AllCopiesAreSnapshots
  <2>2. ASSUME NEW f \in Fetches, replies[f] # None
        PROVE  Snapshot(replies[f].nodeID, replies[f].infoID, replies[f].sockets)
    <3>1. replies[f].nodeID \in Nodes
      BY <2>2 DEF TypeOK, NodeInfo
    <3>2. IsCopy(replies[f].nodeID, replies[f].infoID, replies[f].sockets)
      BY <2>2 DEF IsCopy
    <3>3. QED
      BY <1>2, <3>1, <3>2, CopyTyped DEF AllCopiesAreSnapshots
  <2>3. QED
    BY <2>1, <2>2 DEF EveryCopyIsHonest
<1>3. QED
  BY <1>1, <1>2

(* A snapshot stays one, because both counts only grow.                    *)
LEMMA HonestStep ==
  ASSUME IInv, [Next]_vars
  PROVE  EveryCopyIsHonest'
<1>1. TypeOK /\ PeersInv /\ PeersInv' /\ AllCopiesAreSnapshots
  BY TypeStep, Honesty DEF IInv
<1>2. AllCopiesAreSnapshots'
  <2> SUFFICES ASSUME NEW p \in Nodes, NEW id \in Int, NEW n \in Int, IsCopy(p, id, n)'
               PROVE  Snapshot(p, id, n)'
    BY DEF AllCopiesAreSnapshots
  <2>1. Snapshot(p, id, n)
    <3>1. CASE IsCopy(p, id, n)
      BY <1>1, <3>1 DEF AllCopiesAreSnapshots
    <3>2. CASE id = infoID[p] /\ n = sockets[p]
      <4>1. PICK k \in Nat : Cardinality(Registering(p)) = k
        BY RegisteringFinite
      <4>2. QED
        BY <1>1, <3>2, <4>1 DEF Snapshot, Highest, Larger, PeersInv, PeersTyped, Counted
    <3>3. QED
      BY <3>1, <3>2, CopiesStep
  <2>2. Highest(p)' >= Highest(p) /\ sockets'[p] >= sockets[p]
    BY PeersStep DEF IInv, Goes
  <2>3. /\ Highest(p) \in Int /\ Highest(p)' \in Int
        /\ sockets[p] \in Int /\ sockets'[p] \in Int
    BY <1>1 DEF Highest, Larger, PeersInv, PeersTyped
  <2>4. QED
    BY <2>1, <2>2, <2>3 DEF Snapshot
<1>3. TypeOK'
  BY TypeStep
<1>4. QED
  BY <1>2, <1>3, Honesty, PTL

(***************************************************************************)
(* The step of a registering thread: an append makes it promise a higher   *)
(* infoID than that of any copy, its read keeps the promise, because no    *)
(* copy has a higher infoID than the node, and its write fulfils it.       *)
(***************************************************************************)
LEMMA ExceedStep ==
  ASSUME IInv, [Next]_vars, NEW p \in Nodes, NEW id \in Int, lowered'[p] = 0,
         id <= Highest(p), WillExceed(p, id) \/ sockets'[p] # sockets[p]
  PROVE  WillExceed(p, id)'
<1>1. PeersInv /\ PeersTyped /\ PeersTyped' /\ Counted(p) /\ Goes(p)
  BY PeersStep DEF IInv, PeersInv
<1>2. lowered[p] = 0 /\ id <= infoID[p]
  BY <1>1 DEF Goes, Highest, Larger, PeersTyped
<1>3. CASE UNCHANGED <<infoID[p], sockets[p], adding[p]>>
  BY <1>3 DEF WillExceed
<1>4. ASSUME NEW t \in ThreadsOf[p], Register(p, t)
      PROVE  WillExceed(p, id)'
  <2>1. t \in Threads
    BY ConstantFacts
  <2>2. \A next : At(p, t, next) =>
          \A u \in Threads : adding'[p][u] = IF u = t THEN next ELSE adding[p][u]
    BY <1>1, <2>1 DEF At, PeersTyped
  <2>3. CASE adding[p][t] = Idle /\ AppendSocket(p) /\ At(p, t, Appended)
    BY <2>1, <2>2, <2>3 DEF WillExceed
  <2>4. CASE /\ adding[p][t] = Appended
             /\ At(p, t, infoID[p]) /\ UNCHANGED <<infoID, sockets, lowered>>
    <3>1. infoID[p] \in InfoIDs
      BY <1>1, <1>4 DEF Register, Running, Counted, PeersTyped, InfoIDs
    <3>2. adding'[p][t] = infoID[p]
      BY <2>1, <2>2, <2>4
    <3>3. QED
      BY <1>2, <2>1, <3>1, <3>2 DEF WillExceed
  <2>5. CASE /\ adding[p][t] \in InfoIDs
             /\ WriteInfoID(p, adding[p][t] + 1) /\ At(p, t, Idle)
    <3>1. PICK a \in InfoIDs : a = adding[p][t]
      BY <2>5
    <3>2. infoID'[p] = a + 1 /\ sockets'[p] = sockets[p] /\ WillExceed(p, id)
      BY <1>1, <2>5, <3>1 DEF WriteInfoID, PeersTyped
    <3>3. a + 1 >= infoID[p]
      BY <1>1, <1>2, <2>5, <3>1 DEF WriteInfoID, PeersTyped, Larger, InfoIDs
    <3>4. CASE id < infoID[p]
      BY <1>1, <3>2, <3>3, <3>4, ConstantFacts DEF WillExceed, PeersTyped, InfoIDs
    <3>5. CASE a >= id
      BY <3>2, <3>5, ConstantFacts DEF WillExceed, InfoIDs
    <3>6. ASSUME NEW u \in Threads, u # t,
                 adding[p][u] = Appended \/ (adding[p][u] \in InfoIDs /\ adding[p][u] >= id)
          PROVE  WillExceed(p, id)'
      <4>1. adding'[p][u] = adding[p][u]
        BY <2>2, <2>5, <3>6
      <4>2. QED
        BY <3>6, <4>1 DEF WillExceed
    <3>7. adding[p][t] # Appended
      BY <2>5 DEF Appended, InfoIDs
    <3>8. QED
      BY <3>1, <3>2, <3>4, <3>5, <3>6, <3>7 DEF WillExceed
  <2>6. QED
    BY <1>4, <2>3, <2>4, <2>5 DEF Register
<1>5. ASSUME NEW q \in Nodes, q # p,
             Start(q) \/ \E t \in ThreadsOf[q] : Register(q, t)
      PROVE  UNCHANGED <<infoID[p], sockets[p], adding[p]>>
  BY <1>1, <1>5 DEF Start, Register, AppendSocket, WriteInfoID, At, PeersTyped
<1>6. ASSUME Start(p)
      PROVE  WillExceed(p, id)'
  <2>1. infoID[p] = 0 /\ infoID'[p] = 1
    BY <1>1, <1>6 DEF Start, Counted, PeersTyped
  <2>2. QED
    BY <1>2, <2>1 DEF WillExceed
<1>7. ASSUME \/ \E q \in Nodes : SendHeartbeat(q) \/ SenderFails(q) \/ Stop(q)
             \/ \E d \in datagrams : Receive(d) \/ Lose(d)
             \/ \E f \in Fetches : Serve(f) \/ Answered(f) \/ Unanswered(f)
             \/ Observer
             \/ UNCHANGED vars
      PROVE  UNCHANGED <<infoID[p], sockets[p], adding[p]>>
  BY <1>7 DEF SendHeartbeat, SenderFails, Stop, Receive, Lose, Serve, Answered,
    Unanswered, Observer, vars, peerVars
<1>8. QED
  BY <1>3, <1>4, <1>5, <1>6, <1>7 DEF Next

LEMMA LacksStep ==
  ASSUME IInv, [Next]_vars
  PROVE  LacksOnlyNews'
<1> SUFFICES ASSUME NEW p \in Nodes, NEW id \in Int, NEW n \in Int,
                    IsCopy(p, id, n)', lowered'[p] = 0, n < sockets'[p]
             PROVE  WillExceed(p, id)'
  BY DEF LacksOnlyNews
<1>1. TypeOK /\ PeersInv /\ PeersTyped /\ Goes(p)
  BY PeersStep DEF IInv, PeersInv
<1>2. lowered[p] = 0
  BY <1>1 DEF Goes
<1>3. id <= Highest(p)
  <2>1. CASE IsCopy(p, id, n)
    BY <1>1, <2>1, Honesty DEF IInv, AllCopiesAreSnapshots, Snapshot
  <2>2. CASE id = infoID[p] /\ n = sockets[p]
    BY <1>1, <2>2 DEF Highest, Larger, PeersTyped
  <2>3. QED
    BY <2>1, <2>2, CopiesStep
<1>4. CASE sockets'[p] # sockets[p]
  BY <1>2, <1>3, <1>4, ExceedStep
<1>5. CASE sockets'[p] = sockets[p]
  <2>1. IsCopy(p, id, n)
    BY <1>5, CopiesStep
  <2>2. WillExceed(p, id)
    BY <1>2, <1>5, <2>1 DEF IInv, LacksOnlyNews
  <2>3. QED
    BY <1>3, <2>2, ExceedStep
<1>6. QED
  BY <1>4, <1>5

LEMMA StepInv == IInv /\ [Next]_vars => IInv'
BY TypeStep, HonestStep, LacksStep DEF IInv

THEOREM Invariance == Spec => []IInv
BY InitInv, StepInv, PTL DEF Spec

(* The dictionaries agree in this environment, too (nodes_info_manager.py:113-141). *)
THEOREM DiscoveryKeysAgree == Spec => []KeysAgree
<1>1. IInv => KeysAgree
  BY DEF IInv
<1>2. QED
  BY <1>1, Invariance, PTL

(***************************************************************************)
(* The variables of the nodes, the network and the observer stay in their  *)
(* types: in particular, no answer has the infoID 0 of an unstarted node.  *)
(***************************************************************************)
THEOREM TypeCorrect == Spec => []TypeOK
<1>1. IInv => TypeOK
  BY DEF IInv
<1>2. QED
  BY <1>1, Invariance, PTL

(***************************************************************************)
(* No copy of a node's information shows a socket its node has not         *)
(* appended or lacks one its infoID announces.                             *)
(***************************************************************************)
THEOREM CopiesAreHonest == Spec => []EveryCopyIsHonest
<1>1. IInv => EveryCopyIsHonest
  BY DEF IInv
<1>2. QED
  BY <1>1, Invariance, PTL

(***************************************************************************)
(* The early return of handle_heartbeat_async hides nothing: an equal      *)
(* infoID means that all the sockets are known.  Threads may register at   *)
(* once, and increments may be lost, as long as the infoID does not go     *)
(* back.                                                                   *)
(***************************************************************************)
THEOREM IdMatchSuffices == Spec => []IdMatchIsFresh
<1>1. IInv => IdMatchIsFresh
  <2> SUFFICES ASSUME IInv, NEW p \in Nodes, nodes_info_id[p] = infoID[p],
                      \A t \in Threads : adding[p][t] = Idle, lowered[p] = 0
               PROVE  nodes_info[p] = sockets[p]
    BY DEF IdMatchIsFresh
  <2>1. TypeOK /\ PeersTyped
    BY DEF IInv, PeersInv
  <2>2. IsCopy(p, infoID[p], nodes_info[p])
    BY <2>1 DEF PeersTyped, IsCopy, Absent
  <2>3. infoID[p] \in Int /\ nodes_info[p] \in Int /\ sockets[p] \in Int
    BY <2>1, <2>2, CopyTyped DEF PeersTyped
  <2>4. ~ WillExceed(p, infoID[p])
    BY <2>1, <2>3 DEF WillExceed, Idle, Appended, InfoIDs
  <2>5. ~ (nodes_info[p] < sockets[p])
    BY <2>2, <2>3, <2>4 DEF IInv, LacksOnlyNews
  <2>6. nodes_info[p] <= sockets[p]
    BY <2>1, <2>2, <2>3, Honesty DEF IInv, AllCopiesAreSnapshots, Snapshot
  <2>7. QED
    BY <2>3, <2>5, <2>6
<1>2. QED
  BY <1>1, Invariance, PTL

-----------------------------------------------------------------------------
(* The abstract specification. *)

Entries == [p \in Nodes |-> [id |-> nodes_info_id[p], sockets |-> nodes_info[p]]]

LEMMA DirectoryInit == Init => Directory!Init
BY DEF Init, ManagerInit, Directory!Init, Directory!NoEntry, Absent, Highest, Larger

Announced == [p \in Nodes |-> Highest(p)]

LEMMA DirectoryStart ==
  ASSUME IInv, NEW p \in Nodes, Start(p)
  PROVE  Directory!Next
<1>1. UNCHANGED Entries
  BY DEF Entries, Start, managerVars
<1>2. PeersTyped /\ Counted(p)
  BY DEF IInv, PeersInv
<1>3. sockets[p] = 0 /\ infoID[p] = 0 /\ lowered[p] = 0
  <2>1. sockets[p] = 0 /\ infoID[p] = 0
    BY <1>2 DEF Start, Counted
  <2>2. QED
    BY <1>2, <2>1 DEF Counted, PeersTyped
<1>4. Announced[p] = 0 /\ Announced' = [Announced EXCEPT ![p] = 1]
  <2>1. Highest(p) = 0
    BY <1>3 DEF Highest, Larger
  <2>2. infoID'[p] = 1 /\ lowered'[p] = 0
    BY <1>2, <1>3 DEF Start, PeersTyped
  <2>3. Highest(p)' = 1
    BY <2>2 DEF Highest, Larger
  <2>4. \A q \in Nodes : q # p => Highest(q)' = Highest(q)
    BY <1>2 DEF Start, Highest, PeersTyped
  <2>5. QED
    BY <2>1, <2>3, <2>4 DEF Announced
<1>5. Directory!Join(p)
  BY <1>1, <1>3, <1>4 DEF Start, Directory!Join, Entries, Announced
<1>6. QED
  BY <1>5 DEF Directory!Next

(* What is announced is one more if a write exceeds all earlier ones.      *)
LEMMA DirectoryRegister ==
  ASSUME IInv, NEW p \in Nodes, NEW t \in ThreadsOf[p], Register(p, t)
  PROVE  [Directory!Next]_(Directory!vars)
<1>1. UNCHANGED Entries
  BY DEF Entries, Register, managerVars
<1>2. PeersTyped /\ Counted(p) /\ t \in Threads /\ MaxInfoID \in Nat
  BY ConstantFacts DEF IInv, PeersInv
<1>3. infoID[p] >= 1
  BY <1>2 DEF Register, Running, Counted, PeersTyped
<1>4. PICK k \in Nat : Cardinality(Registering(p)) = k
  BY RegisteringFinite
<1>5. CASE AppendSocket(p)
  <2>1. UNCHANGED Announced
    BY <1>5 DEF AppendSocket, Announced, Highest
  <2>2. sockets[p] \in 1 .. MaxInfoID - 1
    BY <1>2, <1>3, <1>4, <1>5 DEF AppendSocket, Counted, PeersTyped
  <2>3. Directory!List(p)
    BY <1>1, <1>5, <2>1, <2>2 DEF AppendSocket, Directory!List, Entries, Announced
  <2>4. QED
    BY <2>3 DEF Directory!Next
<1>6. CASE UNCHANGED <<infoID, sockets, lowered>>
  BY <1>1, <1>6 DEF Directory!vars, Entries, Highest
<1>7. CASE /\ adding[p][t] \in InfoIDs
           /\ WriteInfoID(p, adding[p][t] + 1)
  <2>1. PICK id \in InfoIDs : id = adding[p][t]
    BY <1>7
  <2>2. id <= Highest(p) /\ id + k <= sockets[p] /\ id \in Nat
    BY <1>2, <1>4, <2>1 DEF Counted, InfoIDs
  <2>3. k # 0
    <3>1. t \in Registering(p)
      BY <1>2, <1>7 DEF Registering, Idle, InfoIDs
    <3>2. QED
      BY <1>4, <3>1, RegisteringFinite, FS_EmptySet
  <2>4. \A q \in Nodes : q # p => Highest(q)' = Highest(q)
    BY <1>2, <1>7 DEF WriteInfoID, Highest, PeersTyped
  <2>5. /\ infoID'[p] = id + 1
        /\ lowered'[p] = IF id + 1 < infoID[p] THEN Larger(infoID[p], lowered[p])
                         ELSE lowered[p]
        /\ sockets' = sockets
    BY <1>2, <1>7, <2>1 DEF WriteInfoID, PeersTyped
  <2>6. /\ Highest(p)' \in {Highest(p), Highest(p) + 1}
        /\ Highest(p)' # Highest(p) => Highest(p)' = id + 1
    <3>1. infoID[p] \in Nat /\ lowered[p] \in Nat
      BY <1>2 DEF PeersTyped
    <3>2. CASE id + 1 < infoID[p]
      BY <2>2, <2>5, <3>1, <3>2 DEF Highest, Larger
    <3>3. CASE ~ (id + 1 < infoID[p])
      BY <2>2, <2>5, <3>1, <3>3 DEF Highest, Larger
    <3>4. QED
      BY <3>2, <3>3
  <2>7. CASE Highest(p)' = Highest(p)
    <3>1. UNCHANGED Announced
      BY <2>4, <2>7 DEF Announced
    <3>2. QED
      BY <1>1, <2>5, <3>1 DEF Directory!vars, Entries, Announced
  <2>8. CASE Highest(p)' # Highest(p)
    <3>1. Announced' = [Announced EXCEPT ![p] = @ + 1]
      BY <2>4, <2>6, <2>8 DEF Announced
    <3>2. Highest(p) < sockets[p]
      BY <1>2, <1>4, <2>2, <2>3, <2>6, <2>8 DEF Highest, Larger, PeersTyped
    <3>3. Directory!Announce(p)
      BY <1>1, <2>5, <3>1, <3>2 DEF Directory!Announce, Entries, Announced
    <3>4. QED
      BY <3>3 DEF Directory!Next
  <2>9. QED
    BY <2>7, <2>8
<1>8. QED
  BY <1>5, <1>6, <1>7 DEF Register

LEMMA DirectoryLearns ==
  ASSUME IInv, NEW f \in Fetches, Answered(f)
  PROVE  [Directory!Next]_(Directory!vars)
<1> DEFINE info == replies[f]
           e == [id |-> info.infoID, sockets |-> info.sockets]
<1>1. info \in NodeInfo /\ info # None
  BY DEF Answered, IInv, TypeOK
<1>2. info.nodeID \in Nodes /\ e \in Directory!Entry
  BY <1>1 DEF NodeInfo, InfoIDs, Directory!Entry
<1>3. Directory!Honest(info.nodeID, e)
  BY <1>1, <1>2 DEF IInv, EveryCopyIsHonest, Snapshot, Directory!Honest
<1>4. UNCHANGED <<sockets, infoID, lowered>>
  BY DEF Answered, peerVars
<1>5. CASE UNCHANGED registry
  BY <1>4, <1>5 DEF registry, Directory!vars, Highest
<1>6. CASE /\ nodes_info' = [nodes_info EXCEPT ![info.nodeID] = info.sockets]
           /\ nodes_info_id' = [nodes_info_id EXCEPT ![info.nodeID] = info.infoID]
  <2>1. Entries' = [Entries EXCEPT ![info.nodeID] = e]
    BY <1>2, <1>6 DEF Entries, IInv, TypeOK, ManagerTypeOK
  <2>2. PICK p \in Nodes : p = info.nodeID
    BY <1>2
  <2>3. Directory!Learn(p)
    BY <1>2, <1>3, <1>4, <2>1, <2>2 DEF Directory!Learn, Entries, Highest
  <2>4. QED
    BY <2>3 DEF Directory!Next
<1>7. QED
  BY <1>5, <1>6 DEF Answered, FetchReturns, UpdateNode

LEMMA DirectoryForgets ==
  ASSUME IInv, Observer
  PROVE  [Directory!Next]_(Directory!vars)
<1>1. UNCHANGED <<sockets, infoID, lowered>>
  BY DEF Observer, peerVars
<1>2. CASE UNCHANGED registry
  BY <1>1, <1>2 DEF registry, Directory!vars, Highest
<1>3. CASE RemoveNodes(Expired)
  <2>1. Entries' = [p \in Nodes |-> IF p \in Expired THEN Directory!NoEntry ELSE Entries[p]]
    BY <1>3 DEF RemoveNodes, Entries, Directory!NoEntry, Absent
  <2>2. PICK S \in SUBSET Nodes : S = Expired
    BY DEF Expired
  <2>3. Directory!Forget(S)
    BY <1>1, <2>1, <2>2 DEF Directory!Forget, Entries, Highest
  <2>4. QED
    BY <2>3 DEF Directory!Next
<1>4. QED
  BY <1>2, <1>3 DEF Observer, CheckHeartbeat, CheckHeartbeatRemoves,
    CheckHeartbeatRaises, Tick

LEMMA DirectoryStep == IInv /\ [Next]_vars => [Directory!Next]_(Directory!vars)
<1> SUFFICES ASSUME IInv, [Next]_vars
             PROVE  [Directory!Next]_(Directory!vars)
  OBVIOUS
<1>1. ASSUME UNCHANGED registry, UNCHANGED <<infoID, sockets, lowered>>
      PROVE  UNCHANGED Directory!vars
  BY <1>1 DEF registry, Directory!vars, Highest
<1>2. ASSUME \/ \E p \in Nodes : SendHeartbeat(p) \/ SenderFails(p) \/ Stop(p)
             \/ \E d \in datagrams : Receive(d) \/ Lose(d)
             \/ \E f \in Fetches : Serve(f) \/ Unanswered(f)
             \/ UNCHANGED vars
      PROVE  UNCHANGED registry /\ UNCHANGED <<infoID, sockets, lowered>>
  BY <1>2 DEF SendHeartbeat, SenderFails, Stop, Receive, HeartbeatKnown, HeartbeatNews,
    Lose, Serve, Unanswered, FetchFails, vars, managerVars, peerVars, registry
<1>3. QED
  BY <1>1, <1>2, DirectoryStart, DirectoryRegister, DirectoryLearns, DirectoryForgets
    DEF Next

(***************************************************************************)
(* The protocol of heartbeats and requests implements PeerDirectory.       *)
(***************************************************************************)
THEOREM Refinement == Spec => DirectorySpec
<1>1. QED
  BY Invariance, DirectoryInit, DirectoryStep, PTL
    DEF Spec, DirectorySpec, Directory!Spec

-----------------------------------------------------------------------------
(* Two properties that hold only in some networks. *)

OwnPorts == \A p, q \in Nodes : PortOf[p] = PortOf[q] => p = q

MembersInv ==
  /\ \A f \in Fetches :
       /\ fetches[f] \in Members \cup {None}
       /\ replies[f] # None => replies[f].nodeID \in Members
  /\ OnlyMembersRegistered

LEMMA MembersStep ==
  ASSUME OwnPorts, IInv, MembersInv, [Next]_vars
  PROVE  MembersInv'
<1>1. TypeOK /\ Members \subseteq Nodes /\ None \notin Nodes
  BY ConstantFacts DEF IInv
<1>2. ASSUME NEW d \in datagrams, Receive(d)
      PROVE  MembersInv'
  BY <1>1, <1>2 DEF Receive, Accepts, HeartbeatKnown, HeartbeatNews, MembersInv,
    OnlyMembersRegistered, registry, TypeOK, ManagerTypeOK
<1>3. ASSUME NEW f \in Fetches, Serve(f)
      PROVE  MembersInv'
  <2>1. PICK q \in Nodes :
          /\ PortOf[q] = PortOf[fetches[f]]
          /\ replies' = [replies EXCEPT ![f] =
               [nodeID |-> q, infoID |-> infoID[q], sockets |-> sockets[q]]]
    BY <1>3 DEF Serve
  <2>2. q \in Members
    BY <1>1, <1>3, <2>1 DEF Serve, MembersInv, OwnPorts
  <2>3. QED
    BY <1>1, <1>3, <2>1, <2>2 DEF Serve, MembersInv, OnlyMembersRegistered, TypeOK,
      managerVars
<1>4. ASSUME NEW f \in Fetches, Answered(f)
      PROVE  MembersInv'
  <2>1. replies[f] \in NodeInfo /\ replies[f].nodeID \in Members
    BY <1>1, <1>4 DEF Answered, MembersInv, TypeOK
  <2>2. QED
    BY <1>1, <1>4, <2>1 DEF Answered, FetchReturns, UpdateNode, MembersInv,
      OnlyMembersRegistered, TypeOK, ManagerTypeOK, registry
<1>5. ASSUME NEW f \in Fetches, Unanswered(f)
      PROVE  MembersInv'
  BY <1>1, <1>5 DEF Unanswered, FetchFails, MembersInv, OnlyMembersRegistered, TypeOK,
    ManagerTypeOK, registry
<1>6. ASSUME Observer
      PROVE  MembersInv'
  BY <1>1, <1>6 DEF Observer, CheckHeartbeat, CheckHeartbeatRemoves, RemoveNodes,
    CheckHeartbeatRaises, Tick, MembersInv, OnlyMembersRegistered, registry, netVars,
    TypeOK, ManagerTypeOK
<1>7. ASSUME \/ \E p \in Nodes :
                  \/ Start(p) \/ SendHeartbeat(p) \/ SenderFails(p) \/ Stop(p)
                  \/ \E t \in ThreadsOf[p] : Register(p, t)
             \/ \E d \in datagrams : Lose(d)
             \/ UNCHANGED vars
      PROVE  MembersInv'
  <2>1. UNCHANGED managerVars /\ UNCHANGED replies
    BY <1>7 DEF Start, Register, SendHeartbeat, SenderFails, Stop, Lose, vars, netVars
  <2>2. QED
    BY <2>1 DEF managerVars, MembersInv, OnlyMembersRegistered
<1>8. QED
  BY <1>2, <1>3, <1>4, <1>5, <1>6, <1>7 DEF Next

(***************************************************************************)
(* The filter on heartbeats keeps other groups out of the registry when no *)
(* service port is used by two nodes, one after the other.                 *)
(***************************************************************************)
THEOREM MembersOnly ==
  ASSUME OwnPorts
  PROVE  Spec => []OnlyMembersRegistered
<1>1. Init => MembersInv
  BY ConstantFacts DEF Init, ManagerInit, MembersInv, OnlyMembersRegistered
<1>2. IInv /\ MembersInv /\ [Next]_vars => MembersInv'
  BY MembersStep
<1>3. MembersInv => OnlyMembersRegistered
  BY DEF MembersInv
<1>4. QED
  BY <1>1, <1>2, <1>3, Invariance, PTL DEF Spec

-----------------------------------------------------------------------------
(***************************************************************************)
(* The past does not come back, however many requests are under way.  An   *)
(* answer is made after its request was sent, and what was stored by then  *)
(* was announced by then.                                                  *)
(***************************************************************************)
KnownBefore ==
  /\ \A f \in Fetches : fetches[f] = None => replies[f] = None
  /\ \A f \in Fetches, n \in Nodes : known[f][n] <= Highest(n)
  /\ \A f \in Fetches :
        replies[f] # None /\ lowered[replies[f].nodeID] = 0
          => replies[f].infoID >= known[f][replies[f].nodeID]

(* One conjunct of KnownBefore for one fetch. *)
AnswersNews(f) ==
  replies[f] # None /\ lowered[replies[f].nodeID] = 0
    => replies[f].infoID >= known[f][replies[f].nodeID]

LEMMA KnownTyped ==
  ASSUME IInv, NEW f \in Fetches, NEW n \in Nodes
  PROVE  /\ known[f][n] \in Int
         /\ nodes_info_id[n] \in Int
         /\ Highest(n) \in Nat
         /\ nodes_info_id[n] <= Highest(n)
<1>1. TypeOK /\ PeersTyped /\ EveryCopyIsHonest
  BY DEF IInv, PeersInv
<1>2. Highest(n) \in Nat
  BY <1>1 DEF PeersTyped, Highest, Larger
<1>3. known[f][n] \in Int /\ nodes_info_id[n] \in Int
  BY <1>1, ConstantFacts DEF TypeOK, ManagerTypeOK, InfoIDs, Absent
<1>4. QED
  BY <1>1, <1>2, <1>3 DEF EveryCopyIsHonest, Snapshot, Absent

(* A request that goes on as it was keeps its part of KnownBefore.         *)
LEMMA KnownStays ==
  ASSUME IInv, KnownBefore, [Next]_vars, NEW f \in Fetches,
         UNCHANGED <<fetches[f], replies[f], known[f]>>
  PROVE  /\ fetches'[f] = None => replies'[f] = None
         /\ \A n \in Nodes : known'[f][n] <= Highest(n)'
         /\ AnswersNews(f)'
<1>1. \A n \in Nodes : Goes(n)
  BY PeersStep DEF IInv
<1>2. PeersInv'
  BY PeersStep DEF IInv
<1>3. ASSUME NEW n \in Nodes
      PROVE  known'[f][n] <= Highest(n)'
  <2>1. Highest(n)' \in Nat
    BY <1>2 DEF PeersInv, PeersTyped, Highest, Larger
  <2>2. known[f][n] \in Int /\ Highest(n) \in Nat
    BY KnownTyped
  <2>3. known[f][n] <= Highest(n) /\ Highest(n)' >= Highest(n)
    BY <1>1 DEF KnownBefore, Goes
  <2>4. QED
    BY <2>1, <2>2, <2>3
<1>4. AnswersNews(f)'
  <2> SUFFICES ASSUME replies[f] # None, lowered'[replies[f].nodeID] = 0
               PROVE  replies[f].infoID >= known[f][replies[f].nodeID]
    BY DEF AnswersNews
  <2>1. replies[f].nodeID \in Nodes
    BY DEF IInv, TypeOK, NodeInfo
  <2>2. QED
    BY <1>1, <2>1 DEF Goes, KnownBefore
<1>5. QED
  BY <1>3, <1>4 DEF KnownBefore

LEMMA KnownStep == IInv /\ KnownBefore /\ [Next]_vars => KnownBefore'
<1> SUFFICES ASSUME IInv, KnownBefore, [Next]_vars
             PROVE  KnownBefore'
  OBVIOUS
<1> DEFINE Fine(f) == /\ fetches'[f] = None => replies'[f] = None
                      /\ \A n \in Nodes : known'[f][n] <= Highest(n)'
                      /\ AnswersNews(f)'
<1> SUFFICES ASSUME NEW f \in Fetches
             PROVE  Fine(f)
  BY DEF KnownBefore, AnswersNews
<1>1. TypeOK /\ PeersTyped /\ None \notin Nodes
  BY ConstantFacts DEF IInv, PeersInv
<1>2. CASE UNCHANGED <<fetches[f], replies[f], known[f]>>
  BY <1>2, KnownStays
<1>3. ASSUME NEW d \in datagrams, HeartbeatNews(d, f), Receive(d),
             known' = [known EXCEPT ![f] = nodes_info_id]
      PROVE  Fine(f)
  <2>1. replies'[f] = None
    BY <1>3 DEF HeartbeatNews, Receive, KnownBefore
  <2>2. known'[f] = nodes_info_id /\ UNCHANGED <<infoID, lowered>>
    BY <1>1, <1>3 DEF TypeOK, Receive, peerVars
  <2>3. \A n \in Nodes : nodes_info_id[n] <= Highest(n)
    BY KnownTyped
  <2>4. QED
    BY <2>1, <2>2, <2>3 DEF AnswersNews, Highest
<1>4. ASSUME Serve(f)
      PROVE  Fine(f)
  <2>1. PICK q \in Nodes :
          replies' = [replies EXCEPT ![f] =
            [nodeID |-> q, infoID |-> infoID[q], sockets |-> sockets[q]]]
    BY <1>4 DEF Serve
  <2>2. /\ replies'[f].nodeID = q /\ replies'[f].infoID = infoID[q]
        /\ UNCHANGED <<fetches, known, infoID, lowered>> /\ fetches[f] # None
    BY <1>1, <1>4, <2>1 DEF TypeOK, Serve, managerVars, peerVars
  <2>3. known[f][q] <= Highest(q)
    BY DEF KnownBefore
  <2>4. lowered[q] = 0 => infoID[q] = Highest(q)
    BY <1>1 DEF PeersTyped, Highest, Larger
  <2>5. known[f][q] \in Int /\ Highest(q) \in Nat
    BY KnownTyped
  <2>6. lowered[q] = 0 => infoID[q] >= known[f][q]
    BY <2>3, <2>4, <2>5
  <2>7. QED
    BY <2>2, <2>6 DEF AnswersNews, KnownBefore, Highest
<1>5. ASSUME Answered(f) \/ Unanswered(f)
      PROVE  Fine(f)
  <2>1. replies'[f] = None /\ known'[f] = NothingKnown /\ UNCHANGED <<infoID, lowered>>
    BY <1>1, <1>5 DEF TypeOK, Answered, Unanswered, Finished, peerVars
  <2>2. \A n \in Nodes : Highest(n) \in Nat
    BY KnownTyped
  <2>3. QED
    BY <2>1, <2>2 DEF AnswersNews, NothingKnown, Absent, Highest
<1>6. ASSUME NEW d \in datagrams, Receive(d)
      PROVE  Fine(f)
  <2>1. CASE HeartbeatKnown(d) /\ UNCHANGED known
    BY <1>2, <1>6, <2>1 DEF Receive, HeartbeatKnown
  <2>2. CASE \E g \in Fetches :
               HeartbeatNews(d, g) /\ known' = [known EXCEPT ![g] = nodes_info_id]
    <3>1. PICK g \in Fetches :
            HeartbeatNews(d, g) /\ known' = [known EXCEPT ![g] = nodes_info_id]
      BY <2>2
    <3>2. CASE g = f
      BY <1>3, <1>6, <3>1, <3>2
    <3>3. CASE g # f
      BY <1>1, <1>2, <1>6, <3>1, <3>3 DEF Receive, HeartbeatNews, TypeOK, ManagerTypeOK
    <3>4. QED
      BY <3>2, <3>3
  <2>3. QED
    BY <1>6, <2>1, <2>2 DEF Receive
<1>7. ASSUME NEW g \in Fetches, Serve(g) \/ Answered(g) \/ Unanswered(g)
      PROVE  Fine(f)
  <2>1. CASE g = f
    BY <1>4, <1>5, <1>7, <2>1
  <2>2. CASE g # f
    <3>1. UNCHANGED <<fetches[f], replies[f], known[f]>>
      BY <1>1, <1>7, <2>2 DEF Serve, Answered, Unanswered, Finished, FetchReturns,
        FetchFails, TypeOK, ManagerTypeOK, managerVars
    <3>2. QED
      BY <1>2, <3>1
  <2>3. QED
    BY <2>1, <2>2
<1>8. ASSUME \/ \E p \in Nodes :
                  \/ Start(p) \/ SendHeartbeat(p) \/ SenderFails(p) \/ Stop(p)
                  \/ \E t \in ThreadsOf[p] : Register(p, t)
             \/ \E d \in datagrams : Lose(d)
             \/ Observer
             \/ UNCHANGED vars
      PROVE  UNCHANGED <<fetches, replies, known>>
  BY <1>8 DEF Start, Register, SendHeartbeat, SenderFails, Stop, Lose, Observer,
    CheckHeartbeat, CheckHeartbeatRemoves, CheckHeartbeatRaises, Tick, vars, netVars,
    managerVars
<1>9. QED
  BY <1>2, <1>6, <1>7, <1>8 DEF Next

(* What an action property must say of one step. *)
StoresNoPast ==
  \A n \in Nodes :
    /\ nodes_info_id'[n] \notin {nodes_info_id[n], Absent}
    /\ lowered[n] = 0
    => \E f \in Fetches :
         fetches[f] # None /\ fetches'[f] = None /\ nodes_info_id'[n] >= known[f][n]

LEMMA EntryStep ==
  ASSUME IInv, KnownBefore, [Next]_vars
  PROVE  StoresNoPast
<1> SUFFICES ASSUME NEW n \in Nodes, nodes_info_id'[n] \notin {nodes_info_id[n], Absent},
                    lowered[n] = 0
             PROVE  \E f \in Fetches : /\ fetches[f] # None /\ fetches'[f] = None
                                       /\ nodes_info_id'[n] >= known[f][n]
  BY DEF StoresNoPast
<1>1. TypeOK
  BY DEF IInv
<1>2. ASSUME NEW f \in Fetches, Answered(f)
      PROVE  /\ fetches[f] # None /\ fetches'[f] = None
             /\ nodes_info_id'[n] >= known[f][n]
  <2>1. replies[f] \in NodeInfo /\ replies[f] # None
    BY <1>1, <1>2 DEF Answered, TypeOK
  <2>2. n = replies[f].nodeID /\ nodes_info_id'[n] = replies[f].infoID
    BY <1>1, <1>2, <2>1 DEF Answered, FetchReturns, UpdateNode, registry, TypeOK,
      ManagerTypeOK, NodeInfo
  <2>3. nodes_info_id'[n] >= known[f][n]
    BY <2>1, <2>2 DEF KnownBefore
  <2>4. QED
    BY <1>1, <1>2, <2>3 DEF Answered, FetchReturns, TypeOK, ManagerTypeOK
<1>3. ASSUME Observer
      PROVE  nodes_info_id'[n] \in {nodes_info_id[n], Absent}
  BY <1>1, <1>3 DEF Observer, CheckHeartbeat, CheckHeartbeatRemoves, RemoveNodes,
    CheckHeartbeatRaises, Tick, registry
<1>4. ASSUME \/ \E p \in Nodes :
                  \/ Start(p) \/ SendHeartbeat(p) \/ SenderFails(p) \/ Stop(p)
                  \/ \E t \in ThreadsOf[p] : Register(p, t)
             \/ \E d \in datagrams : Receive(d) \/ Lose(d)
             \/ \E f \in Fetches : Serve(f) \/ Unanswered(f)
             \/ UNCHANGED vars
      PROVE  UNCHANGED nodes_info_id
  BY <1>4 DEF Start, Register, SendHeartbeat, SenderFails, Stop, Receive, HeartbeatKnown,
    HeartbeatNews, Lose, Serve, Unanswered, FetchFails, vars, managerVars, registry
<1>5. QED
  BY <1>2, <1>3, <1>4 DEF Next

(***************************************************************************)
(* However many requests are under way at once, an entry is only written   *)
(* by an answered request, and with nothing older than what was stored     *)
(* when that request was sent.                                             *)
(***************************************************************************)
THEOREM EntriesNeverRegress == Spec => NoRegress
<1>1. Init => KnownBefore
  <2> SUFFICES ASSUME Init
               PROVE  KnownBefore
    OBVIOUS
  <2>1. \A n \in Nodes : Highest(n) = 0
    BY DEF Init, Highest, Larger
  <2>2. QED
    BY <2>1 DEF Init, KnownBefore, NothingKnown, Absent
<1>2. IInv /\ KnownBefore /\ [Next]_vars => StoresNoPast
  BY EntryStep
<1>3. QED
  BY <1>1, <1>2, KnownStep, Invariance, PTL DEF Spec, NoRegress, StoresNoPast
=============================================================================
