\* A refusal is rolled back together with its audit row.
SPECIFICATION Spec
CONSTANTS
  Users = {"clerk", "rep", "lead", "boss"}
  Nobody = Nobody
  Roles = {"support", "finance", "admin", "hr"}
  InitialRoles <- MCInitialRoles
  Amounts = {1, 2, 3}
  HardCeiling = 1
  NumericMax = 2
  Requests = {r1, r2}
  Calls <- AllCalls
  PoolSize = 2
  MaxActions = 2
  MaxRoleChanges = 0
  ReplyBeforeCommit = FALSE
SYMMETRY RequestSymmetry
INVARIANT DenialsAreAudited
