----------------------------- MODULE MCGateway -----------------------------
(* An instance of Gateway for TLC: requests of one user, so that their calls *)
(* meet at the user's quota as well as at the semaphore.                     *)
EXTENDS Gateway

CONSTANTS r1, r2, r3, ann

MCUserOf == [r \in Requests |-> ann]
=============================================================================
