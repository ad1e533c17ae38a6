------------------------------- MODULE MCClient -------------------------------
(* Instances of Client: two users who may both decide, or one of them.       *)
EXTENDS Client, TLC

CONSTANTS ann, bob

Everyone == {ann, bob}

MCInitially == {[active |-> Everyone, members |-> Everyone]}

UserSymmetry == Permutations(Everyone)
===============================================================================
