---------------------------- MODULE MCThreadPool ----------------------------
(* Instances of ThreadPool for TLC, with model values as constants. *)
EXTENDS ThreadPool
=============================================================================
