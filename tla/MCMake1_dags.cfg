SPECIFICATION FairSpec
CONSTANTS
  Targets <- MCTargets
  NoTarget = NoTarget
  Roots <- TwoRoots
  Starts <- MCStarts
  Headers <- NoHeaders
  RescanFates <- NoFates
  Internal = {}
  Original <- NoOriginals
  NoCare = {"obj"}
  FailExpected = {"lib"}
  RmOld = {"lib"}
  NotFile = {}
  Precious = {}
  Actions <- MCActions
  ActionsOf <- MCActionsOf
  Commands <- MCCommands
  Ignore = {"cc1"}
  Names <- MCTargets
  BoundName <- MCBoundName
  Outputs <- MCOutputs
  TargetNamed <- MCBoundName
  Sems = {"lock"}
  NoSem = NoSem
  Options <- MCOptions
  Interrupts = TRUE
INVARIANTS TypeOK SemaphoreExclusion WakeupsCounted NoneLeftBehind ResultIsRight JobsBounded
PROPERTIES BuildsInOrder ImplementsBuild NothingStartsAfterIntr Termination
