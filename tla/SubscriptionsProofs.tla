------------------------ MODULE SubscriptionsProofs -------------------------
(***************************************************************************)
(* add_subscriber and check_new_node miss only publishers whose event came *)
(* while add_subscriber was running, for any number of nodes, publishers,  *)
(* calls and registering threads.                                          *)
(*                                                                         *)
(* The argument follows one publisher of the registry through one call: as *)
(* long as its node has not been visited, the scan will still find it; if  *)
(* it enters the registry after that, its event is under way, and when the *)
(* event gets to it the call is either running, and the publisher late, or *)
(* entered, and connected.                                                 *)
(***************************************************************************)
EXTENDS Subscriptions, FiniteSetTheorems, TLAPS

ClosedIsStopped == closed # {} => stop # "no"

KnownHasKey == \A p \in Publishers : Known(p) => NodeOf[p] \in keys \cup {Local}

EmitInv ==
  /\ \A e \in Emitters :
       /\ emit[e] = "idle" => checks[e] = {}
       /\ emit[e] = "connect" => about[e] \in Publishers /\ subscriber_dict # None
  /\ \A p \in LocalPublishers : p \notin topics[Local] => emit[p] = "idle"

EnteredIsAdded == subscriber_dict # None => add[subscriber_dict] = "added"

(* The event has not yet come to the publisher, or it came too early. *)
Pending(p) == \E e \in Emitters : p \in checks[e]

Excused(c, p) == Pending(p) \/ p \in late[c]

ScanCovers(c, p) ==
  add[c] = "scan" =>
    p \in found[c] \/ Excused(c, p) \/ NodeOf[p] = Local \/ NodeOf[p] \notin scan[c].visited

FoundCovers(c, p) == add[c] = "found" => p \in found[c] \/ Excused(c, p)

EnteredCovers(c, p) ==
  subscriber_dict = c => Url[p] \in sub_urls[c] \/ Checking(p) \/ p \in late[c]

Covered ==
  stop = "no" =>
    \A c \in Calls, p \in Publishers :
      Known(p) => ScanCovers(c, p) /\ FoundCovers(c, p) /\ EnteredCovers(c, p)

IInv ==
  TypeOK /\ ClosedIsStopped /\ KnownHasKey /\ EmitInv /\ EnteredIsAdded /\ Covered

-----------------------------------------------------------------------------

LEMMA InitInv == Init => IInv
<1> SUFFICES ASSUME Init
             PROVE  IInv
  OBVIOUS
<1> USE SubscriptionsAssumption DEF Init
<1>1. TypeOK
  BY DEF TypeOK, AddStates, NoScan
<1>2. \A p \in Publishers : ~ Known(p)
  BY DEF Known
<1>3. ClosedIsStopped /\ EmitInv /\ EnteredIsAdded
  <2>1. LocalPublishers \subseteq Emitters
    BY DEF Emitters
  <2>2. QED
    BY <2>1 DEF ClosedIsStopped, EmitInv, EnteredIsAdded
<1>4. KnownHasKey /\ Covered
  BY <1>2 DEF KnownHasKey, Covered
<1>5. QED
  BY <1>1, <1>3, <1>4 DEF IInv

-----------------------------------------------------------------------------
(* Types. *)

LEMMA KeysFinite ==
  ASSUME TypeOK
  PROVE  Cardinality(keys) \in Nat
BY SubscriptionsAssumption, FS_Subset, FS_CardinalityType DEF TypeOK

LEMMA EmissionTypes ==
  ASSUME IInv, NEW e \in Emitters, Handle(e)
  PROVE  TypeOK'
<1> USE SubscriptionsAssumption DEF IInv, TypeOK
<1>1. CASE Emit(e)
  BY <1>1 DEF Emit, registry, calls
<1>2. CASE Connect(e)
  <2>1. about[e] \in Publishers /\ subscriber_dict \in Calls
    BY <1>2 DEF Connect, EmitInv
  <2>2. sub_urls' \in [Calls -> SUBSET {Url[p] : p \in Publishers}]
    BY <1>2, <2>1 DEF Connect
  <2>3. QED
    BY <1>2, <2>2 DEF Connect, registry, calls
<1>3. CASE Emitted(e)
  BY <1>3 DEF Emitted, registry, calls
<1>4. CASE \E p \in checks[e] : Check(e, p)
  <2>1. PICK p \in checks[e] : Check(e, p)
    BY <1>4
  <2>2. p \in Publishers
    BY <2>1
  <2>3. late' \in [Calls -> SUBSET Publishers]
    BY <2>1, <2>2 DEF Check
  <2>4. /\ checks' \in [Emitters -> SUBSET Publishers]
        /\ emit' \in [Emitters -> {"idle", "emit", "check", "connect"}]
        /\ about' \in [Emitters -> Publishers \cup {None}]
    BY <2>1, <2>2 DEF Check
  <2>5. ASSUME NEW f \in Emitters, emit'[f] = "connect"
        PROVE  about'[f] \in Publishers /\ subscriber_dict' # None
    <3>1. CASE f = e
      BY <2>1, <2>2, <2>5, <3>1 DEF Check, Wanted, WantedOnce
    <3>2. CASE f # e
      BY <2>1, <2>5, <3>2 DEF Check
    <3>3. QED
      BY <3>1, <3>2
  <2>6. QED
    BY <2>1, <2>3, <2>4, <2>5 DEF Check, registry, calls
<1>5. QED
  BY <1>1, <1>2, <1>3, <1>4 DEF Handle

LEMMA CallTypes ==
  ASSUME TypeOK, NEW c \in Calls, AddSubscriber(c) \/ Continue(c)
  PROVE  TypeOK'
<1> USE SubscriptionsAssumption, KeysFinite DEF TypeOK, AddStates, AddStep, registry, emission
<1>1. CASE AddSubscriber(c)
  BY <1>1 DEF AddSubscriber
<1>2. CASE BeginScan(c)
  BY <1>2 DEF BeginScan
<1>3. CASE ScanRaises(c)
  BY <1>3 DEF ScanRaises, NoScan
<1>4. CASE ScanEnds(c)
  BY <1>4 DEF ScanEnds, NoScan
<1>5. CASE Enter(c)
  BY <1>5 DEF Enter
<1>6. CASE \E n \in Nodes : Visit(c, n)
  BY <1>6 DEF Visit
<1>7. QED
  BY <1>1, <1>2, <1>3, <1>4, <1>5, <1>6 DEF Continue

LEMMA TypeStep == IInv /\ [Next]_vars => TypeOK'
<1> SUFFICES ASSUME IInv, TypeOK, [Next]_vars
             PROVE  TypeOK'
  BY DEF IInv
<1>1. ASSUME NEW n \in Nodes, NEW listed \in SUBSET Publishers, UpdateNode(n, listed)
      PROVE  TypeOK'
  BY <1>1, SubscriptionsAssumption DEF UpdateNode, TypeOK, calls, registry, Emitters
<1>2. ASSUME NEW n \in Nodes, RemoveNode(n)
      PROVE  TypeOK'
  BY <1>2 DEF RemoveNode, TypeOK, calls, emission
<1>3. ASSUME NEW p \in LocalPublishers, RegisterLocalPublisher(p)
      PROVE  TypeOK'
  BY <1>3, SubscriptionsAssumption
  DEF RegisterLocalPublisher, TypeOK, calls, LocalPublishers, Emitters
<1>4. CASE Unregister \/ Close
  BY <1>4 DEF Unregister, Close, TypeOK, registry, calls, emission
<1>5. CASE UNCHANGED vars
  BY <1>5 DEF vars, TypeOK, registry, calls, emission
<1>6. QED
  BY <1>1, <1>2, <1>3, <1>4, <1>5, EmissionTypes, CallTypes DEF Next

-----------------------------------------------------------------------------
(* One lemma per step for the rest of the invariant. *)

Rest == ClosedIsStopped /\ KnownHasKey /\ EmitInv /\ EnteredIsAdded /\ Covered

LEMMA UpdateNodeInv ==
  ASSUME IInv, NEW n \in Nodes, NEW listed \in SUBSET Publishers,
         \A p \in listed : NodeOf[p] = n, UpdateNode(n, listed)
  PROVE  Rest'
<1> USE SubscriptionsAssumption DEF IInv, TypeOK
<1>1. Loop \in Emitters /\ Loop \notin LocalPublishers /\ checks[Loop] = {}
  BY DEF Emitters, LocalPublishers, UpdateNode, EmitInv
<1>2. /\ \A e \in Emitters : checks[e] \subseteq checks'[e]
      /\ \A e \in Emitters : emit[e] = "connect" => emit'[e] = "connect"
      /\ checks'[Loop] = listed
  BY <1>1 DEF UpdateNode
<1>3. \A p \in Publishers :
        (Pending(p) => Pending(p)') /\ (Checking(p) => Checking(p)')
  BY <1>2 DEF Pending, Checking, UpdateNode
<1>4. \A p \in listed : Pending(p)' /\ Checking(p)'
  BY <1>1, <1>2 DEF Pending, Checking
<1>5. \A p \in Publishers : Known(p)' => Known(p) \/ p \in listed
  BY DEF Known, UpdateNode, registry
<1>6. KnownHasKey'
  <2>1. \A p \in Publishers : Known(p)' => NodeOf[p] \in keys' \cup {Local}
    BY <1>5 DEF KnownHasKey, UpdateNode, Known, registry
  <2>2. QED
    BY <2>1 DEF KnownHasKey, Known
<1>7. EmitInv'
  BY <1>1 DEF EmitInv, UpdateNode, registry
<1>8. ClosedIsStopped' /\ EnteredIsAdded'
  BY DEF ClosedIsStopped, EnteredIsAdded, UpdateNode, calls
<1>9. Covered'
  BY <1>3, <1>4, <1>5
  DEF Covered, ScanCovers, FoundCovers, EnteredCovers, Excused, UpdateNode, calls
<1>10. QED
  BY <1>6, <1>7, <1>8, <1>9 DEF Rest

LEMMA RemoveNodeInv ==
  ASSUME IInv, NEW n \in Nodes, RemoveNode(n)
  PROVE  Rest'
<1> USE SubscriptionsAssumption DEF IInv, TypeOK
<1>1. \A p \in Publishers : Known(p)' => Known(p) /\ NodeOf[p] # n
  BY DEF Known, RemoveNode
<1>2. \A p \in Publishers : (Pending(p)' <=> Pending(p)) /\ (Checking(p)' <=> Checking(p))
  BY DEF Pending, Checking, RemoveNode, emission
<1>3. KnownHasKey'
  BY <1>1 DEF KnownHasKey, RemoveNode
<1>4. EmitInv' /\ ClosedIsStopped' /\ EnteredIsAdded'
  BY DEF EmitInv, ClosedIsStopped, EnteredIsAdded, RemoveNode, emission, calls
<1>5. Covered'
  BY <1>1, <1>2
  DEF Covered, ScanCovers, FoundCovers, EnteredCovers, Excused, RemoveNode, calls
<1>6. QED
  BY <1>3, <1>4, <1>5 DEF Rest

LEMMA RegisterInv ==
  ASSUME IInv, NEW q \in LocalPublishers, RegisterLocalPublisher(q)
  PROVE  Rest'
<1> USE SubscriptionsAssumption DEF IInv, TypeOK
<1>1. q \in Emitters /\ q # Loop /\ q \in Publishers /\ NodeOf[q] = Local
  BY DEF Emitters, LocalPublishers
<1>2. emit[q] = "idle" /\ checks[q] = {}
  BY <1>1 DEF RegisterLocalPublisher, EmitInv
<1>3. /\ \A e \in Emitters : checks[e] \subseteq checks'[e]
      /\ \A e \in Emitters : emit[e] = "connect" => emit'[e] = "connect"
      /\ q \in checks'[q]
  BY <1>1, <1>2 DEF RegisterLocalPublisher
<1>4. \A p \in Publishers :
        (Pending(p) => Pending(p)') /\ (Checking(p) => Checking(p)')
  BY <1>3 DEF Pending, Checking, RegisterLocalPublisher
<1>5. Pending(q)' /\ Checking(q)'
  BY <1>1, <1>3 DEF Pending, Checking
<1>6. \A p \in Publishers : Known(p)' => Known(p) \/ p = q
  BY DEF Known, RegisterLocalPublisher
<1>7. KnownHasKey'
  BY <1>1, <1>6 DEF KnownHasKey, RegisterLocalPublisher
<1>8. EmitInv'
  BY <1>1 DEF EmitInv, RegisterLocalPublisher, Emitters
<1>9. ClosedIsStopped' /\ EnteredIsAdded'
  BY DEF ClosedIsStopped, EnteredIsAdded, RegisterLocalPublisher, calls
<1>10. Covered'
  BY <1>4, <1>5, <1>6
  DEF Covered, ScanCovers, FoundCovers, EnteredCovers, Excused, RegisterLocalPublisher, calls
<1>11. QED
  BY <1>7, <1>8, <1>9, <1>10 DEF Rest

LEMMA EmitStepInv ==
  ASSUME IInv, NEW e \in Emitters, Emit(e) \/ Emitted(e)
  PROVE  Rest'
<1> USE SubscriptionsAssumption DEF IInv, TypeOK
<1>1. /\ emit[e] # "connect" /\ emit'[e] # "connect"
      /\ \A f \in Emitters \ {e} : emit'[f] = emit[f] /\ checks'[f] = checks[f]
      /\ UNCHANGED <<registry, subscriber_dict, sub_urls, closed, calls, late, about, stop>>
  BY DEF Emit, Emitted
<1>2. emit[e] # "idle" /\ (emit'[e] = "idle" => checks'[e] = {})
  BY DEF Emit, Emitted
<1>3. stop = "no" => checks' = checks
  BY DEF Emit, Emitted
<1>4. stop = "no" => \A p \in Publishers :
        (Pending(p) => Pending(p)') /\ (Checking(p) => Checking(p)')
  BY <1>1, <1>3 DEF Pending, Checking
<1>5. EmitInv'
  BY <1>1, <1>2 DEF EmitInv, registry, LocalPublishers, Emitters
<1>6. ClosedIsStopped' /\ EnteredIsAdded' /\ KnownHasKey'
  BY <1>1 DEF ClosedIsStopped, EnteredIsAdded, KnownHasKey, Known, registry, calls
<1>7. Covered'
  BY <1>1, <1>4
  DEF Covered, ScanCovers, FoundCovers, EnteredCovers, Excused, Known, registry, calls
<1>8. QED
  BY <1>5, <1>6, <1>7 DEF Rest

LEMMA CheckInv ==
  ASSUME IInv, NEW e \in Emitters, NEW q \in checks[e], Check(e, q)
  PROVE  Rest'
<1> USE SubscriptionsAssumption DEF IInv, TypeOK
<1>1. /\ q \in Publishers
      /\ emit[e] = "check" /\ emit'[e] # "idle"
      /\ checks'[e] = checks[e] \ {q}
      /\ \A f \in Emitters \ {e} :
           emit'[f] = emit[f] /\ checks'[f] = checks[f] /\ about'[f] = about[f]
      /\ UNCHANGED <<registry, subscriber_dict, sub_urls, closed, calls, stop>>
  BY DEF Check
<1>2. \A c \in Calls :
        /\ late[c] \subseteq late'[c]
        /\ Running(c) => q \in late'[c]
  BY DEF Check
<1>3. Wanted(q) => Checking(q)'
  <2>1. Wanted(q) => emit'[e] = "connect" /\ about'[e] = q
    BY DEF Check
  <2>2. QED
    BY <2>1 DEF Checking
<1>4. \A p \in Publishers \ {q} : Pending(p) => Pending(p)'
  BY <1>1 DEF Pending
<1>5. \A p \in Publishers \ {q} : Checking(p) => Checking(p)'
  <2> SUFFICES ASSUME NEW p \in Publishers \ {q},
                      NEW f \in Emitters,
                      p \in checks[f] \/ (emit[f] = "connect" /\ about[f] = p)
               PROVE  Checking(p)'
    BY DEF Checking
  <2>1. p \in checks'[f] \/ (emit'[f] = "connect" /\ about'[f] = p)
    BY <1>1
  <2>2. QED
    BY <2>1 DEF Checking
<1>6. EmitInv'
  <2>1. emit'[e] = "connect" => about'[e] \in Publishers /\ subscriber_dict # None
    BY <1>1 DEF Check, Wanted
  <2>2. QED
    BY <1>1, <2>1 DEF EmitInv, registry, LocalPublishers, Emitters
<1>7. ClosedIsStopped' /\ EnteredIsAdded' /\ KnownHasKey'
  BY <1>1 DEF ClosedIsStopped, EnteredIsAdded, KnownHasKey, Known, registry, calls
<1>8. Covered'
  <2> SUFFICES ASSUME stop = "no", NEW c \in Calls, NEW p \in Publishers, Known(p)
               PROVE  ScanCovers(c, p)' /\ FoundCovers(c, p)' /\ EnteredCovers(c, p)'
    BY <1>1 DEF Covered, Known, registry
  <2>1. ScanCovers(c, p) /\ FoundCovers(c, p) /\ EnteredCovers(c, p)
    BY DEF Covered
  <2>2. CASE p # q
    <3>1. Excused(c, p) => Excused(c, p)'
      BY <1>2, <1>4, <2>2 DEF Excused
    <3>2. QED
      BY <1>1, <1>2, <1>5, <2>1, <2>2, <3>1 DEF ScanCovers, FoundCovers, EnteredCovers, calls
  <2>3. CASE p = q
    <3>1. Running(c) => Excused(c, p)'
      BY <1>2, <2>3 DEF Excused
    <3>2. subscriber_dict = c => Url[p] \in sub_urls[c] \/ Checking(p)'
      BY <1>3, <2>3 DEF Wanted
    <3>3. QED
      BY <1>1, <3>1, <3>2 DEF ScanCovers, FoundCovers, EnteredCovers, calls, Running
  <2>4. QED
    BY <2>2, <2>3
<1>9. QED
  BY <1>6, <1>7, <1>8 DEF Rest

LEMMA ConnectInv ==
  ASSUME IInv, NEW e \in Emitters, Connect(e)
  PROVE  Rest'
<1> USE SubscriptionsAssumption DEF IInv, TypeOK
<1>1. /\ emit[e] = "connect" /\ emit'[e] # "connect"
      /\ emit'[e] = "idle" => checks'[e] = {}
      /\ \A f \in Emitters \ {e} :
           emit'[f] = emit[f] /\ checks'[f] = checks[f] /\ about'[f] = about[f]
      /\ UNCHANGED <<registry, subscriber_dict, closed, calls, late, stop>>
  BY DEF Connect
<1>2. about[e] \in Publishers /\ subscriber_dict \in Calls
  BY <1>1 DEF EmitInv
<1>3. stop = "no" =>
        /\ checks' = checks
        /\ Url[about[e]] \in sub_urls'[subscriber_dict]
        /\ \A c \in Calls : sub_urls[c] \subseteq sub_urls'[c]
  BY <1>2 DEF Connect, ClosedIsStopped
<1>4. stop = "no" =>
        \A p \in Publishers : Checking(p) => Checking(p)' \/ p = about[e]
  <2> SUFFICES ASSUME stop = "no", NEW p \in Publishers, p # about[e],
                      NEW f \in Emitters,
                      p \in checks[f] \/ (emit[f] = "connect" /\ about[f] = p)
               PROVE  Checking(p)'
    BY DEF Checking
  <2>1. p \in checks'[f] \/ (emit'[f] = "connect" /\ about'[f] = p)
    BY <1>1, <1>3
  <2>2. QED
    BY <2>1 DEF Checking
<1>5. EmitInv'
  BY <1>1 DEF EmitInv, registry, LocalPublishers, Emitters
<1>6. ClosedIsStopped' /\ EnteredIsAdded' /\ KnownHasKey'
  BY <1>1 DEF ClosedIsStopped, EnteredIsAdded, KnownHasKey, Known, registry, calls
<1>7. Covered'
  <2> SUFFICES ASSUME stop = "no", NEW c \in Calls, NEW p \in Publishers, Known(p)
               PROVE  ScanCovers(c, p)' /\ FoundCovers(c, p)' /\ EnteredCovers(c, p)'
    BY <1>1 DEF Covered, Known, registry
  <2>1. ScanCovers(c, p) /\ FoundCovers(c, p) /\ EnteredCovers(c, p)
    BY DEF Covered
  <2>2. Excused(c, p) => Excused(c, p)'
    BY <1>1, <1>3 DEF Excused, Pending
  <2>3. QED
    BY <1>1, <1>3, <1>4, <2>1, <2>2 DEF ScanCovers, FoundCovers, EnteredCovers, calls
<1>8. QED
  BY <1>5, <1>6, <1>7 DEF Rest

(* The steps of add_subscriber that neither connect nor enter anything. *)
LEMMA ScanInv ==
  ASSUME IInv, NEW c \in Calls,
         \/ AddSubscriber(c) \/ BeginScan(c) \/ ScanRaises(c) \/ ScanEnds(c)
         \/ \E n \in Nodes : Visit(c, n)
  PROVE  Rest'
<1> USE SubscriptionsAssumption DEF IInv, TypeOK
<1>1. /\ UNCHANGED <<registry, subscriber_dict, sub_urls, closed, late, emission, stop>>
      /\ \A d \in Calls \ {c} :
           add'[d] = add[d] /\ scan'[d] = scan[d] /\ found'[d] = found[d]
      /\ add[c] # "added"
  BY DEF AddSubscriber, BeginScan, ScanRaises, ScanEnds, Visit, AddStep
<1>2. \A p \in Publishers :
        /\ Known(p)' <=> Known(p)
        /\ Pending(p)' <=> Pending(p)
        /\ Checking(p)' <=> Checking(p)
  BY <1>1 DEF Known, Pending, Checking, registry, emission
<1>3. ClosedIsStopped' /\ KnownHasKey' /\ EmitInv'
  BY <1>1, <1>2 DEF ClosedIsStopped, KnownHasKey, EmitInv, registry, emission
<1>4. EnteredIsAdded'
  BY <1>1 DEF EnteredIsAdded
<1>5. Covered'
  <2> SUFFICES ASSUME stop = "no", NEW d \in Calls, NEW p \in Publishers, Known(p)
               PROVE  ScanCovers(d, p)' /\ FoundCovers(d, p)' /\ EnteredCovers(d, p)'
    BY <1>1, <1>2 DEF Covered
  <2>1. ScanCovers(d, p) /\ FoundCovers(d, p) /\ EnteredCovers(d, p)
    BY DEF Covered
  <2>2. EnteredCovers(d, p)'
    BY <1>1, <1>2, <2>1 DEF EnteredCovers
  <2>3. CASE d # c
    BY <1>1, <1>2, <2>1, <2>2, <2>3 DEF ScanCovers, FoundCovers, Excused
  <2>4. CASE d = c
    <3>1. NodeOf[p] \in keys \cup {Local}
      BY DEF KnownHasKey
    <3>2. CASE AddSubscriber(c) \/ ScanRaises(c)
      BY <2>2, <2>4, <3>2 DEF AddSubscriber, ScanRaises, AddStep, ScanCovers, FoundCovers
    <3>3. CASE BeginScan(c)
      BY <2>2, <2>4, <3>3 DEF BeginScan, AddStep, ScanCovers, FoundCovers
    <3>4. CASE ScanEnds(c)
      <4>1. /\ add[c] = "scan" /\ add'[c] = "found"
            /\ keys \subseteq scan[c].visited
            /\ found'[c] = found[c] \cup topics[Local]
        BY <3>4 DEF ScanEnds, AddStep
      <4>2. p \in found'[c] \/ Excused(c, p)
        BY <2>1, <2>4, <3>1, <4>1 DEF ScanCovers, Known
      <4>3. QED
        BY <1>1, <1>2, <2>2, <2>4, <4>1, <4>2 DEF ScanCovers, FoundCovers, Excused
    <3>5. CASE \E n \in Nodes : Visit(c, n)
      <4>1. PICK n \in Nodes : Visit(c, n)
        BY <3>5
      <4>2. /\ add[c] = "scan" /\ add'[c] = "scan"
            /\ scan'[c].visited = scan[c].visited \cup {n}
            /\ found'[c] = found[c] \cup topics[n]
        BY <4>1 DEF Visit, AddStep
      <4>3. QED
        BY <1>1, <1>2, <2>1, <2>2, <2>4, <4>2 DEF ScanCovers, FoundCovers, Excused, Known
    <3>6. QED
      BY <3>2, <3>3, <3>4, <3>5
  <2>5. QED
    BY <2>3, <2>4
<1>6. QED
  BY <1>3, <1>4, <1>5 DEF Rest

LEMMA EnterInv ==
  ASSUME IInv, NEW c \in Calls, Enter(c)
  PROVE  Rest'
<1> USE SubscriptionsAssumption DEF IInv, TypeOK
<1>1. /\ UNCHANGED <<registry, closed, late, emission, stop, scan>>
      /\ add[c] = "found" /\ add'[c] = "added" /\ subscriber_dict' = c
      /\ sub_urls'[c] = {Url[p] : p \in found[c]}
      /\ \A d \in Calls \ {c} : add'[d] = add[d] /\ found'[d] = found[d]
  BY DEF Enter, AddStep
<1>2. \A p \in Publishers :
        /\ Known(p)' <=> Known(p)
        /\ Pending(p)' <=> Pending(p)
        /\ Checking(p)' <=> Checking(p)
  BY <1>1 DEF Known, Pending, Checking, registry, emission
<1>3. ClosedIsStopped' /\ KnownHasKey' /\ EmitInv' /\ EnteredIsAdded'
  BY <1>1, <1>2
  DEF ClosedIsStopped, KnownHasKey, EmitInv, EnteredIsAdded, registry, emission
<1>4. Covered'
  <2> SUFFICES ASSUME stop = "no", NEW d \in Calls, NEW p \in Publishers, Known(p)
               PROVE  ScanCovers(d, p)' /\ FoundCovers(d, p)' /\ EnteredCovers(d, p)'
    BY <1>1, <1>2 DEF Covered
  <2>1. ScanCovers(d, p) /\ FoundCovers(d, p)
    BY DEF Covered
  <2>2. ScanCovers(d, p)' /\ FoundCovers(d, p)'
    BY <1>1, <1>2, <2>1 DEF ScanCovers, FoundCovers, Excused
  <2>3. Pending(p) => Checking(p)
    BY DEF Pending, Checking
  <2>4. EnteredCovers(d, p)'
    BY <1>1, <1>2, <2>1, <2>3 DEF FoundCovers, EnteredCovers, Excused
  <2>5. QED
    BY <2>2, <2>4
<1>5. QED
  BY <1>3, <1>4 DEF Rest

LEMMA StopInv ==
  ASSUME IInv, Unregister \/ Close \/ UNCHANGED vars
  PROVE  Rest'
<1> USE DEF IInv, TypeOK
<1>1. /\ UNCHANGED <<registry, subscriber_dict, sub_urls, calls, late, emission>>
      /\ closed' = closed \/ stop' = "done"
      /\ stop' = "no" => stop = "no"
  BY DEF Unregister, Close, vars
<1>2. \A p \in Publishers :
        /\ Known(p)' <=> Known(p)
        /\ Pending(p)' <=> Pending(p)
        /\ Checking(p)' <=> Checking(p)
  BY <1>1 DEF Known, Pending, Checking, registry, emission
<1>3. KnownHasKey' /\ EmitInv' /\ EnteredIsAdded'
  BY <1>1, <1>2 DEF KnownHasKey, EmitInv, EnteredIsAdded, registry, emission, calls
<1>4. ClosedIsStopped'
  BY <1>1 DEF ClosedIsStopped, Unregister, Close, vars
<1>5. Covered'
  BY <1>1, <1>2 DEF Covered, ScanCovers, FoundCovers, EnteredCovers, Excused, calls
<1>6. QED
  BY <1>3, <1>4, <1>5 DEF Rest

-----------------------------------------------------------------------------

LEMMA InvStep == IInv /\ [Next]_vars => IInv'
<1> SUFFICES ASSUME IInv, [Next]_vars
             PROVE  IInv'
  OBVIOUS
<1>1. Rest'
  <2>1. ASSUME NEW e \in Emitters, Handle(e)
        PROVE  Rest'
    BY <2>1, EmitStepInv, CheckInv, ConnectInv DEF Handle
  <2>2. ASSUME NEW c \in Calls, AddSubscriber(c) \/ Continue(c)
        PROVE  Rest'
    BY <2>2, ScanInv, EnterInv DEF Continue
  <2>3. QED
    BY <2>1, <2>2, UpdateNodeInv, RemoveNodeInv, RegisterInv, StopInv DEF Next
<1>2. QED
  BY <1>1, TypeStep DEF IInv, Rest

THEOREM Invariance == Spec => []IInv
<1>1. QED
  BY InitInv, InvStep, PTL DEF Spec

(* The variables of add_subscriber and of the event keep their types. *)
THEOREM TypeCorrect == Spec => []TypeOK
<1>1. IInv => TypeOK
  BY DEF IInv
<1>2. QED
  BY <1>1, Invariance, PTL

(***************************************************************************)
(* What add_subscriber and check_new_node miss of the registry is late: no *)
(* other order of their steps loses a publisher.                           *)
(***************************************************************************)
THEOREM OthersAreConnected == Spec => []OnlyLateOnesAreMissed
<1>1. IInv => OnlyLateOnesAreMissed
  BY DEF IInv, TypeOK, Covered, EnteredCovers, OnlyLateOnesAreMissed
<1>2. QED
  BY <1>1, Invariance, PTL
=============================================================================
