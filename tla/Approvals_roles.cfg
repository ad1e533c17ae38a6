\* Roles are edited while requests run, a connection for each, and the response leaves
\* before the commit.
SPECIFICATION Spec
CONSTANTS
  Users = {"rep", "lead"}
  Nobody = Nobody
  Roles = {"support", "finance", "admin"}
  InitialRoles <- MCInitialRoles
  Amounts = {1, 2}
  HardCeiling = 1
  NumericMax = 2
  Requests = {r1, r2, r3}
  Calls <- RoleCalls
  PoolSize = 3
  MaxActions = 3
  MaxRoleChanges = 1
  ReplyBeforeCommit = TRUE
SYMMETRY RequestSymmetry
INVARIANTS
  DecisionHadAuthority
