---------------------------- MODULE MCLifecycle -----------------------------
(* Instances of Lifecycle for TLC: nodes and managers are interchangeable. *)
EXTENDS Lifecycle, TLC

CONSTANTS t1, t2, g1, g2, n1, n2, m1, m2

Interchangeable == Permutations(Threads) \cup Permutations(Groups)
  \cup Permutations(Nodes) \cup Permutations(Managers)
=============================================================================
