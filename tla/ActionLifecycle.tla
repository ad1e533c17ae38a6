--------------------------- MODULE ActionLifecycle ---------------------------
(***************************************************************************)
(* What the write path promises about one table of actions, seen from      *)
(* outside: an action is blocked, waits for a decision, or is decided;     *)
(* a decision is taken once; the refund appears in the very step in which  *)
(* the action becomes completed.  Approvals implements this specification. *)
(***************************************************************************)
EXTENDS Naturals

CONSTANT Ids

VARIABLES status, refunded

vars == <<status, refunded>>

Decided == {"completed", "failed", "rejected"}

Init ==
  /\ status = [a \in Ids |-> "absent"]
  /\ refunded = [a \in Ids |-> 0]

Becomes(a, s) ==
  /\ status' = [status EXCEPT ![a] = s]
  /\ refunded' = [refunded EXCEPT ![a] = IF s = "completed" THEN 1 ELSE 0]

\* A request is recorded: turned down, waiting, or executed at once.
Record(a) ==
  /\ status[a] = "absent"
  /\ \E s \in {"blocked", "pending_approval", "completed", "failed"} : Becomes(a, s)

\* A waiting action is decided.
Decide(a) ==
  /\ status[a] = "pending_approval"
  /\ \E s \in Decided : Becomes(a, s)

Next == \E a \in Ids : Record(a) \/ Decide(a)

Spec == Init /\ [][Next]_vars
=============================================================================
