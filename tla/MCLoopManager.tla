--------------------------- MODULE MCLoopManager ----------------------------
(* Instances of LoopManager for TLC, with model values as constants. *)
EXTENDS LoopManager
=============================================================================
