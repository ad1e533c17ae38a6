-------------------------------- MODULE Tiers --------------------------------
(* What the write path relies on of the approval tiers: Approvals takes any  *)
(* possible tier, ApprovalTier shows that it yields no other.                *)
EXTENDS Integers

CONSTANT HardCeiling       \* settings.approval_hard_ceiling

TierRoles == {"support", "finance", "admin"}

\* approval.py resolve_approval_tier: the policy document decides, whatever it and the
\* retrieval yield, but nothing above the hard ceiling stays below the committee.
PossibleTiers(amount) == IF amount > HardCeiling THEN {"admin"} ELSE TierRoles
=============================================================================
