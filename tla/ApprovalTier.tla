---------------------------- MODULE ApprovalTier ----------------------------
(***************************************************************************)
(* Who must approve an amount (app/agent/approval.py).  The thresholds are *)
(* sentences of the policy document FIN-001, which Finance edits and the   *)
(* retrieval yields in part, in any order, mixed with sentences of other   *)
(* documents, or not at all: for a user who may not read the document, or  *)
(* when retrieval fails.  A sentence stands for one match of the patterns  *)
(* of parse_tiers_from_text.                                               *)
(***************************************************************************)
EXTENDS Tiers, Sequences

CONSTANTS
  AmountsAsked,    \* amounts that are asked about
  Policies,        \* the versions of FIN-001: sets of sentences
  Foreign,         \* sentences of other documents that look like thresholds
  FallbackRep,     \* FALLBACK_TIERS: the representative's ceiling
  FallbackLead,    \* FALLBACK_TIERS: the team lead's ceiling
  Readings         \* bound: the sequences of sentences that a retrieval may yield

Limited == {"representative", "team_lead"}
Tier == Limited \cup {"committee"}

\* A committee sentence has no ceiling, written 0 and never compared; a sentence about
\* another tier counts only with an amount.
Sentence == {s \in [policy : BOOLEAN, tier : Tier, ceiling : Nat] :
               s.tier = "committee" <=> s.ceiling = 0}

ASSUME TierAssumption ==
  /\ AmountsAsked \subseteq Nat
  /\ HardCeiling \in Nat /\ FallbackRep \in Nat /\ FallbackLead \in Nat
  /\ FallbackRep \in 1..FallbackLead
  /\ \A p \in Policies : p \subseteq {s \in Sentence : s.policy}
  /\ Foreign \subseteq {s \in Sentence : ~s.policy}
  /\ Readings \subseteq Seq(Sentence)

VARIABLES
  policy,     \* the sentences of FIN-001 in force
  found,      \* the sentences the last retrieval yielded, best first
  amount,     \* the amount last asked about
  tier        \* the answer; "none" before the first question

tierVars == <<policy, found, amount, tier>>

-----------------------------------------------------------------------------
(* parse_tiers_from_text                                                   *)

\* Mutant of Mentions: sentences of every document count.
AnyDocument(seen, name) == {i \in DOMAIN seen : seen[i].tier = name}

Mentions(seen, name) == {i \in DOMAIN seen : seen[i].policy /\ seen[i].tier = name}

\* Mutant of Permits: the highest ceiling of a tier counts.
HighestCounts(seen, name, sum) == \E i \in Mentions(seen, name) : sum <= seen[i].ceiling

\* The tier is known and the sum is within its lowest ceiling.
Permits(seen, name, sum) ==
  /\ Mentions(seen, name) # {}
  /\ \A i \in Mentions(seen, name) : sum <= seen[i].ceiling

\* The lowest ceiling of m is not above that of n; m is mentioned before n.
NotAbove(seen, m, n) ==
  \E i \in Mentions(seen, m) : \A j \in Mentions(seen, n) : seen[i].ceiling <= seen[j].ceiling
NamedFirst(seen, m, n) == \E i \in Mentions(seen, m) : \A j \in Mentions(seen, n) : i < j

\* The order of sorted(): by ceiling, and for equal ceilings by first mention.
Before(seen, m, n) == NotAbove(seen, m, n) /\ (NotAbove(seen, n, m) => NamedFirst(seen, m, n))

-----------------------------------------------------------------------------
(* resolve_approval_tier                                                   *)

Known(name, limit) == [policy |-> TRUE, tier |-> name, ceiling |-> limit]
FallbackTiers ==
  <<Known("representative", FallbackRep), Known("team_lead", FallbackLead), Known("committee", 0)>>

Usable(seen) == IF \E i \in DOMAIN seen : seen[i].policy THEN seen ELSE FallbackTiers

\* Mutant of Selected: next() defaults to tiers[0] and no committee is appended.
FirstByDefault(seen, sum) ==
  IF ~Permits(seen, "representative", sum) /\ Permits(seen, "team_lead", sum)
  THEN "team_lead" ELSE "representative"

\* The first tier, in order of ceilings, that permits the sum; else the committee.
Selected(seen, sum) ==
  IF Permits(seen, "representative", sum)
       /\ (Permits(seen, "team_lead", sum) => Before(seen, "representative", "team_lead"))
  THEN "representative"
  ELSE IF Permits(seen, "team_lead", sum) THEN "team_lead" ELSE "committee"

Resolve(seen, sum) == IF sum > HardCeiling THEN "committee" ELSE Selected(Usable(seen), sum)

RoleOf(name) ==
  CASE name = "representative" -> "support" [] name = "team_lead" -> "finance" [] OTHER -> "admin"

-----------------------------------------------------------------------------
TierInit ==
  /\ policy \in Policies
  /\ found = <<>>
  /\ amount = 0
  /\ tier = "none"

\* Finance replaces the document; what was asked about the old one is settled.
Publish(p) ==
  /\ policy' = p
  /\ found' = <<>>
  /\ amount' = 0
  /\ tier' = "none"

\* A retrieval yields some sentences, each at most once, in any order.
Yields(seen) ==
  /\ \A i \in DOMAIN seen : seen[i] \in policy \cup Foreign
  /\ \A i, j \in DOMAIN seen : seen[i] = seen[j] => i = j

Ask(sum, seen) ==
  /\ Yields(seen)
  /\ found' = seen
  /\ amount' = sum
  /\ tier' = Resolve(seen, sum)
  /\ UNCHANGED policy

TierNext ==
  \/ \E p \in Policies : Publish(p)
  \/ \E sum \in AmountsAsked, seen \in Readings : Ask(sum, seen)

TierSpec == TierInit /\ [][TierNext]_tierVars

-----------------------------------------------------------------------------
(* What must hold.                                                         *)

TierTypeOK ==
  /\ policy \in Policies
  /\ found \in Seq(Sentence)
  /\ amount \in Nat
  /\ tier \in Tier \cup {"none"}

\* The document, read in full, lets this tier approve this sum.
Grants(name, sum) ==
  /\ \E s \in policy : s.tier = name
  /\ \A s \in policy : s.tier = name => sum <= s.ceiling

\* A document in good order: one ceiling per tier, none below the fallback's.
Consistent ==
  /\ \A s, t \in policy : s.tier = t.tier => s = t
  /\ \E s \in policy : s.tier = "representative" /\ s.ceiling >= FallbackRep
  /\ \E s \in policy : s.tier = "team_lead" /\ s.ceiling >= FallbackLead

\* The retrieval missed nothing of the document.
Complete == policy # {} /\ \A s \in policy : \E i \in DOMAIN found : found[i] = s

\* Nobody is named approver of a sum that the document, read in full, does not let them
\* approve: whatever a retrieval misses, reorders or mixes in, the decision only gets
\* stricter, as long as the document is in good order; and whatever it contradicts itself
\* in, if the retrieval yields all of it.
OnlyGrantedAuthority ==
  (Consistent \/ Complete) /\ tier \in Limited => Grants(tier, amount)

Rank(name) == CASE name = "representative" -> 1 [] name = "team_lead" -> 2 [] OTHER -> 3

\* A larger sum never needs a weaker approver: true of every reading of a document whose
\* representative's ceilings lie below its team lead's.
Ordered ==
  \A s, t \in policy :
    s.tier = "representative" /\ t.tier = "team_lead" => s.ceiling <= t.ceiling
StricterWithAmount ==
  Ordered => \A sum \in AmountsAsked : sum >= amount /\ tier # "none" =>
                 Rank(Resolve(found, sum)) >= Rank(tier)

\* A part of a reading names the same limited tiers as the whole.
SameTiers(part, whole) ==
  \A name \in Limited : Mentions(part, name) = {} <=> Mentions(whole, name) = {}
ClearlyOrdered ==
  \A s, t \in policy :
    s.tier = "representative" /\ t.tier = "team_lead" => s.ceiling < t.ceiling

\* "Keep the lowest ceiling: extraction errors must make the decision stricter"
\* (parse_tiers_from_text): whatever else a retrieval yields about the tiers it names, in
\* whatever place, repeated, outdated or misread, names no weaker approver than what it yields
\* without that.  True where the ceilings of the representative lie below the team lead's: of
\* equal ones the tier that was mentioned first is tried first.
RepetitionTightens ==
  ClearlyOrdered /\ tier # "none" =>
    \A kept \in SUBSET DOMAIN found :
      LET part == [i \in kept |-> found[i]]
      IN  SameTiers(part, found) => Rank(Resolve(part, amount)) <= Rank(tier)

\* What Approvals takes from Tiers: the tier's role is a possible one (a lemma of
\* Approvals_proofs).
RoleIsPossible == tier # "none" => RoleOf(tier) \in PossibleTiers(amount)

-----------------------------------------------------------------------------
\* approval.py, on the fallback: "The lower amounts are intentional: retrieval failure must
\* make the decision stricter"; docs/adr/0006: "Retrieval may loosen nothing".  A document
\* with ceilings below the fallback's is read as if it were more generous than it is.
RetrievalOnlyTightens == tier \in Limited => Grants(tier, amount)
=============================================================================
