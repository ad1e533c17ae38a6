----------------------------- MODULE MCApprovals -----------------------------
(* Small instances of Approvals: one user per authority, and the calls that *)
(* make decisions race, exceed the ceiling, overflow or lack authority.     *)
EXTENDS Approvals, TLC

MCInitialRoles ==
  [u \in Users |-> CASE u = "rep" -> {"support"} [] u = "lead" -> {"finance"}
                     [] u = "boss" -> {"admin"} [] OTHER -> {}]

Create(u, m) == [kind |-> "create", user |-> u, amount |-> m, target |-> 1, approve |-> FALSE]
Decide(u, a, yes) == [kind |-> "decide", user |-> u, amount |-> 1, target |-> a, approve |-> yes]

\* An action that waits, its deciders, and the automatic path.
RaceCalls ==
  {Create("rep", 1), Create("rep", 2), Create("boss", 3), Create("clerk", 1),
   Decide("lead", 1, TRUE), Decide("boss", 1, TRUE), Decide("boss", 1, FALSE),
   Decide("rep", 1, TRUE)}

CreateUnknown(u) == [Create(u, 1) EXCEPT !.kind = "create_unknown"]
ListActionsOf(u) == [Create(u, 1) EXCEPT !.kind = "list"]

\* Every kind of call, by two users whose roles are being edited meanwhile.
RoleCalls ==
  {Create("rep", 1), Create("lead", 2),
   Decide("lead", 1, TRUE), Decide("rep", 1, FALSE),
   CreateUnknown("lead"), ListActionsOf("lead")}

\* Every kind of call, by users whose roles stay.
AllCalls ==
  RaceCalls \cup {Decide("boss", 2, TRUE), Create("boss", 2), CreateUnknown("rep"),
                  ListActionsOf("clerk"), ListActionsOf("lead")}

\* Requests that meet at the lock of one row.
QueueCalls ==
  {Create("rep", 1), Create("rep", 3), Decide("lead", 1, TRUE), Decide("boss", 1, TRUE)}

RequestSymmetry == Permutations(Requests)
=============================================================================
