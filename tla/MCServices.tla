----------------------------- MODULE MCServices -----------------------------
(* Instances of Services for TLC. *)
EXTENDS Services

CONSTANTS r1, r2, r3, s1

(* The handler of r1 calls the service that r3 names; r2 may get stuck, or be malformed. *)
Named == [r \in Requests |-> s1]
Nested == [r \in Requests |-> IF r = r1 THEN r3 ELSE None]

Ends == [r \in Requests |->
  CASE r = r1 -> {"returned", "runtime_error"}
    [] r = r2 -> {"unpackable", "timeout_error"}
    [] r = r3 -> {"returned", "raised"}]
=============================================================================
