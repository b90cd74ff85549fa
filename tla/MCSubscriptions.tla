-------------------------- MODULE MCSubscriptions ---------------------------
(* Instances of Subscriptions for TLC. *)
EXTENDS Subscriptions, TLC

CONSTANTS n1, n2, p1, p2

(* One remote and one local publisher. *)
RemoteAndLocal == (p1 :> n1) @@ (p2 :> Local)

(* Two publishers on two remote nodes. *)
TwoRemote == (p1 :> n1) @@ (p2 :> n2)

(* Each publisher has a URL of its own: TCP, or IPC and no second one. *)
OwnUrl == [p \in Publishers |-> p]
=============================================================================
