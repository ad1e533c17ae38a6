SPECIFICATION Spec
CONSTANTS
  RetrievalOnly = {"v3"}
  Full = "v5-full"
  Invocations <- MCInvocations
  Retrieved <- MCRetrieved
  Answers <- MCAnswers
  Shown = 1
  Conditions = {"canary", "tool"}
  Attacks <- MCAttacks
  Controls <- MCControls
INVARIANTS
  LeakStopsBuild
  GreenMeansGood
  RecordsAgree
