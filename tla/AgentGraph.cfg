SPECIFICATION FairSpec
CONSTANTS
  Calls <- MCCalls
  ToolOf <- MCToolOf
  Plans <- MCPlans
  MaxToolCalls = 3
  MaxSameToolCalls = 2
  MaxRetries = 1
  FirstSize = 1
  BroadSize = 2
  MaxMark = 2
INVARIANTS
  ToolLimits
  ServedAnswerVerified
  RefusalIsBare
  TraceAndAuditsTogether
PROPERTY Terminates
