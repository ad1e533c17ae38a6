------------------------------ MODULE MCBooks ------------------------------
(* An instance of Books for TLC: two requests of one user. *)
EXTENDS Books

CONSTANTS r1, r2, ann

MCUserOf == [r \in Requests |-> ann]
=============================================================================
