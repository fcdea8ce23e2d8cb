SPECIFICATION FairSpec
CONSTANTS
  NumCommands = 3
  MAXJOBS = 2
  Half = 2
  Options <- MCOptions
  LastStart = 2
  MaxTime = 5
INVARIANTS TypeOK ReportsTrue
PROPERTIES ImplementsExecution LimitEnforced LimitKept
