--------------------------- MODULE Subscriptions ----------------------------
(***************************************************************************)
(* SubscriberManager (src/src/pyzlc/sockets/subscriber_manager.py) for one *)
(* topic: add_subscriber, run by user threads, connects a new Subscriber   *)
(* to the publishers it finds in the registry and enters it in             *)
(* subscriber_dict; check_new_node, the handler of the registry's update   *)
(* event, connects the entered one to publishers that turn up later.  The  *)
(* event is emitted on the loop thread for remote nodes, and on the thread *)
(* that calls register_local_publisher for local topics.  No lock is held  *)
(* by any of them.                                                         *)
(*                                                                         *)
(* Connecting twice to one URL is connecting once (the sub_urls list and   *)
(* libzmq see to it), so sub_urls is a set and connect() one step.         *)
(***************************************************************************)
EXTENDS Integers, FiniteSets

CONSTANTS
  Nodes,        \* remote nodes
  Publishers,   \* publishers of the topic, on any node
  Calls,        \* calls of add_subscriber, and the Subscriber each one makes
  Local,        \* the local node
  Loop,         \* the event-loop thread
  NodeOf,       \* the node a publisher belongs to
  Url,          \* the URL that _get_connect_url has for it
  None

LocalPublishers == {p \in Publishers : NodeOf[p] = Local}

(* A local publisher stands for the thread that registers it, too. *)
Emitters == LocalPublishers \cup {Loop}

ASSUME SubscriptionsAssumption ==
  /\ IsFiniteSet(Nodes)
  /\ Local \notin Nodes
  /\ Loop \notin Publishers
  /\ None \notin Calls \cup Publishers
  /\ NodeOf \in [Publishers -> Nodes \cup {Local}]
  /\ DOMAIN Url = Publishers

VARIABLES
  keys,              \* the nodes that have an entry in nodes_info
  topics,            \* node -> publishers listed in its stored info
  subscriber_dict,   \* the topic's entry: a Subscriber or None
  sub_urls,          \* Subscriber -> the URLs it has connected to
  closed,            \* the Subscribers whose socket is closed
  add,               \* call -> where it is in add_subscriber
  scan,              \* call -> its iteration over nodes_info
  found,             \* call -> publishers found so far
  late,              \* call -> history: checked for while the call was running
  emit,              \* emitter -> where it is in the event
  checks,            \* emitter -> topics check_new_node has still to look at
  about,             \* emitter -> the one it is about to connect to
  stop               \* SubscriberManager.stop

registry == <<keys, topics>>
calls == <<add, scan, found>>
emission == <<emit, checks, about>>
vars == <<registry, subscriber_dict, sub_urls, closed, calls, late, emission, stop>>

AddStates == {"none", "created", "scan", "found", "added", "raised"}

(* A connect is for a publisher, and there is a Subscriber to make it. *)
TypeOK ==
  /\ keys \subseteq Nodes
  /\ topics \in [Nodes \cup {Local} -> SUBSET Publishers]
  /\ subscriber_dict \in Calls \cup {None}
  /\ sub_urls \in [Calls -> SUBSET {Url[p] : p \in Publishers}]
  /\ closed \subseteq Calls
  /\ add \in [Calls -> AddStates]
  /\ scan \in [Calls -> [size : Nat, visited : SUBSET Nodes]]
  /\ found \in [Calls -> SUBSET Publishers]
  /\ late \in [Calls -> SUBSET Publishers]
  /\ emit \in [Emitters -> {"idle", "emit", "check", "connect"}]
  /\ checks \in [Emitters -> SUBSET Publishers]
  /\ about \in [Emitters -> Publishers \cup {None}]
  /\ \A e \in Emitters :
       emit[e] = "connect" => about[e] \in Publishers /\ subscriber_dict # None
  /\ stop \in {"no", "closing", "done"}

NoScan == [size |-> 0, visited |-> {}]

Init ==
  /\ keys = {}
  /\ topics = [n \in Nodes \cup {Local} |-> {}]
  /\ subscriber_dict = None
  /\ sub_urls = [c \in Calls |-> {}]
  /\ closed = {}
  /\ add = [c \in Calls |-> "none"]
  /\ scan = [c \in Calls |-> NoScan]
  /\ found = [c \in Calls |-> {}]
  /\ late = [c \in Calls |-> {}]
  /\ emit = [e \in Emitters |-> "idle"]
  /\ checks = [e \in Emitters |-> {}]
  /\ about = [e \in Emitters |-> None]
  /\ stop = "no"

-----------------------------------------------------------------------------
(* The registry, as far as subscribers see it. *)

(* Not the code: the event is emitted for nodes that are new only. *)
UpdateNewNode(n, listed) ==
  /\ emit[Loop] = "idle"
  /\ \/ /\ n \notin keys
        /\ emit' = [emit EXCEPT ![Loop] = "emit"]
        /\ checks' = [checks EXCEPT ![Loop] = listed]
     \/ /\ n \in keys
        /\ UNCHANGED <<emit, checks>>
  /\ keys' = keys \cup {n}
  /\ topics' = [topics EXCEPT ![n] = listed]
  /\ UNCHANGED <<subscriber_dict, sub_urls, closed, calls, late, about, stop>>

(***************************************************************************)
(* update_node stores an answer (not, if its infoID is the stored one) and *)
(* emits the event with it in any case.  An answer may be an older one.    *)
(***************************************************************************)
UpdateNode(n, listed) ==
  /\ emit[Loop] = "idle"
  /\ emit' = [emit EXCEPT ![Loop] = "emit"]
  /\ checks' = [checks EXCEPT ![Loop] = listed]
  /\ \/ /\ keys' = keys \cup {n}
        /\ topics' = [topics EXCEPT ![n] = listed]
     \/ /\ n \in keys
        /\ UNCHANGED registry
  /\ UNCHANGED <<subscriber_dict, sub_urls, closed, calls, late, about, stop>>

RemoveNode(n) ==
  /\ emit[Loop] = "idle"
  /\ n \in keys
  /\ keys' = keys \ {n}
  /\ topics' = [topics EXCEPT ![n] = {}]
  /\ UNCHANGED <<subscriber_dict, sub_urls, closed, calls, late, emission, stop>>

(***************************************************************************)
(* register_local_publisher emits the local list itself: threads that are  *)
(* iterating over it see the new topic as well.                            *)
(***************************************************************************)
RegisterLocalPublisher(p) ==
  /\ p \notin topics[Local]
  /\ topics' = [topics EXCEPT ![Local] = @ \cup {p}]
  /\ emit' = [emit EXCEPT ![p] = "emit"]
  /\ checks' = [e \in Emitters |->
       IF e = p THEN topics[Local] \cup {p}
       ELSE IF e # Loop /\ emit[e] # "idle" THEN checks[e] \cup {p} ELSE checks[e]]
  /\ UNCHANGED <<keys, subscriber_dict, sub_urls, closed, calls, late, about, stop>>

-----------------------------------------------------------------------------
(* The event and check_new_node. *)

Emit(e) ==
  /\ emit[e] = "emit"
  /\ \/ /\ stop = "no"
        /\ emit' = [emit EXCEPT ![e] = "check"]
        /\ UNCHANGED checks
     \/ /\ stop # "no"
        /\ emit' = [emit EXCEPT ![e] = "idle"]
        /\ checks' = [checks EXCEPT ![e] = {}]
  /\ UNCHANGED <<registry, subscriber_dict, sub_urls, closed, calls, late, about, stop>>

Running(c) == add[c] \in {"scan", "found"}

(* Not the code: a subscriber that has a connection gets no other. *)
WantedOnce(p) ==
  /\ subscriber_dict # None
  /\ sub_urls[subscriber_dict] = {}

(* The topic is subscribed and its URL is not yet among sub_urls. *)
Wanted(p) ==
  /\ subscriber_dict # None
  /\ Url[p] \notin sub_urls[subscriber_dict]

Check(e, p) ==
  /\ emit[e] = "check"
  /\ p \in checks[e]
  /\ checks' = [checks EXCEPT ![e] = @ \ {p}]
  /\ \/ /\ Wanted(p)
        /\ emit' = [emit EXCEPT ![e] = "connect"]
        /\ about' = [about EXCEPT ![e] = p]
     \/ /\ ~ Wanted(p)
        /\ UNCHANGED <<emit, about>>
  /\ late' = [c \in Calls |-> IF Running(c) THEN late[c] \cup {p} ELSE late[c]]
  /\ UNCHANGED <<registry, subscriber_dict, sub_urls, closed, calls, stop>>

(* subscriber_dict is read again; on a closed socket connect() raises. *)
Connect(e) ==
  /\ emit[e] = "connect"
  /\ \/ /\ subscriber_dict \notin closed
        /\ sub_urls' = [sub_urls EXCEPT ![subscriber_dict] = @ \cup {Url[about[e]]}]
        /\ emit' = [emit EXCEPT ![e] = "check"]
        /\ UNCHANGED checks
     \/ /\ subscriber_dict \in closed
        /\ emit' = [emit EXCEPT ![e] = "idle"]
        /\ checks' = [checks EXCEPT ![e] = {}]
        /\ UNCHANGED sub_urls
  /\ about' = [about EXCEPT ![e] = None]
  /\ UNCHANGED <<registry, subscriber_dict, closed, calls, late, stop>>

Emitted(e) ==
  /\ emit[e] = "check"
  /\ checks[e] = {}
  /\ emit' = [emit EXCEPT ![e] = "idle"]
  /\ UNCHANGED <<registry, subscriber_dict, sub_urls, closed, calls, late, checks, about, stop>>

-----------------------------------------------------------------------------
(* add_subscriber. *)

AddStep(c, from, to) ==
  /\ add[c] = from
  /\ add' = [add EXCEPT ![c] = to]
  /\ UNCHANGED <<registry, closed, late, emission, stop>>

AddSubscriber(c) ==
  /\ AddStep(c, "none", "created")
  /\ UNCHANGED <<subscriber_dict, sub_urls, scan, found>>

(***************************************************************************)
(* get_publisher_info iterates over the dictionary nodes_info, which the   *)
(* loop thread changes: if its size is not the one it began with, Python   *)
(* raises RuntimeError at the next entry, or in place of the end.          *)
(***************************************************************************)
BeginScan(c) ==
  /\ AddStep(c, "created", "scan")
  /\ scan' = [scan EXCEPT ![c] = [size |-> Cardinality(keys), visited |-> {}]]
  /\ UNCHANGED <<subscriber_dict, sub_urls, found>>

Visit(c, n) ==
  /\ AddStep(c, "scan", "scan")
  /\ scan[c].size = Cardinality(keys)
  /\ n \in keys \ scan[c].visited
  /\ scan' = [scan EXCEPT ![c].visited = @ \cup {n}]
  /\ found' = [found EXCEPT ![c] = @ \cup topics[n]]
  /\ UNCHANGED <<subscriber_dict, sub_urls>>

ScanRaises(c) ==
  /\ AddStep(c, "scan", "raised")
  /\ scan[c].size # Cardinality(keys)
  /\ scan' = [scan EXCEPT ![c] = NoScan]
  /\ found' = [found EXCEPT ![c] = {}]
  /\ UNCHANGED <<subscriber_dict, sub_urls>>

(* Not the code: the local publishers replace the remote ones. *)
ScanEndsLocal(c) ==
  /\ AddStep(c, "scan", "found")
  /\ scan[c].size = Cardinality(keys)
  /\ keys \subseteq scan[c].visited
  /\ scan' = [scan EXCEPT ![c] = NoScan]
  /\ found' = [found EXCEPT ![c] = topics[Local]]
  /\ UNCHANGED <<subscriber_dict, sub_urls>>

ScanEnds(c) ==
  /\ AddStep(c, "scan", "found")
  /\ scan[c].size = Cardinality(keys)
  /\ keys \subseteq scan[c].visited
  /\ scan' = [scan EXCEPT ![c] = NoScan]
  /\ found' = [found EXCEPT ![c] = @ \cup topics[Local]]
  /\ UNCHANGED <<subscriber_dict, sub_urls>>

(***************************************************************************)
(* The connects, and the entry in subscriber_dict that first lets another  *)
(* thread see the Subscriber.  It replaces the one of an earlier call.     *)
(***************************************************************************)
Enter(c) ==
  /\ AddStep(c, "found", "added")
  /\ sub_urls' = [sub_urls EXCEPT ![c] = {Url[p] : p \in found[c]}]
  /\ subscriber_dict' = c
  /\ found' = [found EXCEPT ![c] = {}]
  /\ UNCHANGED scan

-----------------------------------------------------------------------------
(* stop: the handler is removed from the event, then sockets are closed. *)

Unregister ==
  /\ stop = "no"
  /\ stop' = "closing"
  /\ UNCHANGED <<registry, subscriber_dict, sub_urls, closed, calls, late, emission>>

(* Not the code: the entry is closed without a look whether it is there. *)
CloseEntry ==
  /\ stop = "closing"
  /\ stop' = "done"
  /\ closed' = closed \cup {subscriber_dict}
  /\ UNCHANGED <<registry, subscriber_dict, sub_urls, calls, late, emission>>

Close ==
  /\ stop = "closing"
  /\ stop' = "done"
  /\ closed' = closed \cup ({subscriber_dict} \ {None})
  /\ UNCHANGED <<registry, subscriber_dict, sub_urls, calls, late, emission>>

-----------------------------------------------------------------------------

Handle(e) ==
  \/ Emit(e) \/ Connect(e) \/ Emitted(e)
  \/ \E p \in checks[e] : Check(e, p)

Continue(c) ==
  \/ BeginScan(c) \/ ScanRaises(c) \/ ScanEnds(c) \/ Enter(c)
  \/ \E n \in Nodes : Visit(c, n)

Next ==
  \/ \E n \in Nodes, listed \in SUBSET Publishers :
       (\A p \in listed : NodeOf[p] = n) /\ UpdateNode(n, listed)
  \/ \E n \in Nodes : RemoveNode(n)
  \/ \E p \in LocalPublishers : RegisterLocalPublisher(p)
  \/ \E e \in Emitters : Handle(e)
  \/ \E c \in Calls : AddSubscriber(c) \/ Continue(c)
  \/ Unregister \/ Close

Spec == Init /\ [][Next]_vars

(* Threads are scheduled; nothing here waits. *)
FairSpec ==
  /\ Spec
  /\ \A e \in Emitters : WF_vars(Handle(e))
  /\ \A c \in Calls : WF_vars(Continue(c))

-----------------------------------------------------------------------------

(* A publisher that get_publisher_info would find now. *)
Known(p) == p \in topics[NodeOf[p]]

(* A running event will still come to the publisher. *)
Checking(p) ==
  \E e \in Emitters : p \in checks[e] \/ (emit[e] = "connect" /\ about[e] = p)

(***************************************************************************)
(* add_subscriber and check_new_node between them miss no publisher, but   *)
(* for one: whatever is in the registry is connected, or an event that     *)
(* will connect it is under way, or its event came between the beginning   *)
(* of add_subscriber and the entry in subscriber_dict.                     *)
(***************************************************************************)
OnlyLateOnesAreMissed ==
  \A p \in Publishers :
    Known(p) /\ subscriber_dict # None /\ stop = "no" =>
      \/ Url[p] \in sub_urls[subscriber_dict]
      \/ Checking(p)
      \/ p \in late[subscriber_dict]

(***************************************************************************)
(* A publisher that turns up while the topic is subscribed is connected,   *)
(* unless the subscription is replaced or stopped.                         *)
(***************************************************************************)
NewPublishersAreConnected ==
  \A p \in Publishers, c \in Calls :
    Checking(p) /\ subscriber_dict = c ~>
      Url[p] \in sub_urls[c] \/ subscriber_dict # c \/ stop # "no"

(***************************************************************************)
(* A publisher that was there before add_subscriber is connected by it,    *)
(* unless it goes away or the registry changes size under the iteration.   *)
(***************************************************************************)
LaunchedPublishersAreConnected ==
  \A p \in Publishers, c \in Calls :
    add[c] = "created" /\ Known(p) ~>
      Url[p] \in sub_urls[c] \/ ~ Known(p) \/ add[c] = "raised"

(***************************************************************************)
(* "Auto subscribe to new topics": a publisher that is and stays in the    *)
(* registry of a node with a subscription is connected.                    *)
(***************************************************************************)
KnownPublishersAreConnected ==
  \A p \in Publishers, c \in Calls :
    Known(p) /\ subscriber_dict = c ~>
      Url[p] \in sub_urls[c] \/ ~ Known(p) \/ subscriber_dict # c \/ stop # "no"
=============================================================================
