\* Every reading of up to three sentences of eight versions of the policy document.
SPECIFICATION TierSpec
CONSTANTS
  HardCeiling = 6
  AmountsAsked = {0, 1, 2, 3, 4, 5, 6, 7}
  Policies <- MCPolicies
  Foreign <- MCForeign
  FallbackRep = 2
  FallbackLead = 4
  Readings <- MCReadings
INVARIANTS
  OnlyGrantedAuthority
  StricterWithAmount
  RepetitionTightens
