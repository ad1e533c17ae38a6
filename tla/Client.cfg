\* Two users; four clicks, losses, edits, decisions of others and steps of the clock in all.
SPECIFICATION Spec
CONSTANTS
  ann = ann
  bob = bob
  Users <- Everyone
  TTL = 1
  Initially <- MCInitially
  MaxEvents = 4
  Filters = {"all", "pending"}
  Amounts = {1, 2}
  MaxWaiting = 2
SYMMETRY UserSymmetry
INVARIANTS
  TypeOK
  ListIsOfTheSession
  QuietListIsRight
  RightsEndWithTheToken
CHECK_DEADLOCK FALSE
