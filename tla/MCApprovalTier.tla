--------------------------- MODULE MCApprovalTier ---------------------------
(* FIN-001 with thresholds on both sides of the fallback's (2 and 4) and of *)
(* the ceiling (6), complete, partial, contradictory and in another order.  *)
EXTENDS ApprovalTier, FiniteSets

Rep(limit) == [policy |-> TRUE, tier |-> "representative", ceiling |-> limit]
Lead(limit) == [policy |-> TRUE, tier |-> "team_lead", ceiling |-> limit]
Board == [policy |-> TRUE, tier |-> "committee", ceiling |-> 0]

MCForeign == {[policy |-> FALSE, tier |-> "representative", ceiling |-> 7]}

MCPolicies ==
  {{Rep(3), Lead(6), Board}, {Rep(2), Lead(4)}, {Rep(4), Lead(4), Board},
   {Rep(5), Lead(3)}, {Lead(5), Board}, {Rep(3), Rep(5), Lead(7)}, {Rep(2), Lead(4), Lead(6)},
   {Board}}

\* Finance lowers the representative's ceiling below the fallback's.
LoweredPolicies == {{Rep(3), Lead(6), Board}, {Rep(1), Lead(4), Board}}

Injective(n, S) == {q \in [1..n -> S] : \A i, j \in 1..n : q[i] = q[j] => i = j}
MCReadings == UNION {Injective(n, UNION Policies \cup Foreign) : n \in 0..3}
=============================================================================
