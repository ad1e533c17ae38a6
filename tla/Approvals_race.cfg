\* Three requests race over the same action and over two connections, under fairness; roles
\* stay as they are.
SPECIFICATION FairSpec
CONSTANTS
  Users = {"clerk", "rep", "lead", "boss"}
  Nobody = Nobody
  Roles = {"support", "finance", "admin", "hr"}
  InitialRoles <- MCInitialRoles
  Amounts = {1, 2, 3}
  HardCeiling = 1
  NumericMax = 2
  Requests = {r1, r2, r3}
  Calls <- RaceCalls
  PoolSize = 2
  MaxActions = 3
  MaxRoleChanges = 0
  ReplyBeforeCommit = FALSE
INVARIANTS
  RefundIffCompleted
  WritersOwnTheirRows
  AuditMatchesActions
PROPERTIES
  EveryRequestAnswered
  DecidedForGood
  ImplementsLifecycle
