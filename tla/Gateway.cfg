\* Three requests of one user queue for one permit, each with a retry.
SPECIFICATION FairSpec
CONSTANTS
  r1 = r1
  r2 = r2
  r3 = r3
  ann = ann
  Requests = {r1, r2, r3}
  Users = {ann}
  UserOf <- MCUserOf
  Permits = 1
  DailyLimit = 2
  TokenCounts = {1}
  MaxTokens = 1
  Generation = "qwen-7b"
  Utility = "qwen-3b"
  Judge = "qwen-3b"
  MaxRounds = 1
INVARIANTS
  PermitsKept
  OvershootBounded
PROPERTY EveryRequestEnds
