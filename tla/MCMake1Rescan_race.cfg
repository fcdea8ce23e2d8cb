SPECIFICATION FairSpec
CONSTANTS
  Targets <- MCTargets
  NoTarget = NoTarget
  Roots <- MCRoots
  Starts <- MCStarts
  Headers <- MCHeaders
  RescanFates <- MCRescanFates
  Internal <- MCInternal
  Original <- MCOriginal
  NoCare = {}
  FailExpected = {}
  RmOld = {}
  NotFile = {"all"}
  Precious = {}
  Actions <- MCActions
  ActionsOf <- MCActionsOf
  Commands <- MCCommands
  Ignore = {}
  Names <- MCTargets
  BoundName <- MCBoundName
  Outputs <- MCOutputs
  TargetNamed <- MCBoundName
  Sems = {"lock"}
  NoSem = NoSem
  Options <- MCOptions
  Interrupts = FALSE
  Found <- Header
  HNeeds <- Prerequisite
PROPERTY BuildsInOrder
