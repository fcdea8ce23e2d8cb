SPECIFICATION FairSpec
CONSTANTS
  NumCommands = 3
  MAXJOBS = 2
  Options <- MCOptions
  Detaches = FALSE
INVARIANTS TypeOK SlotsCovered NothingLost ReportsTrue
PROPERTIES ImplementsExecution LimitEnforced
