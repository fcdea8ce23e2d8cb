SPECIFICATION FairSpec
CONSTANTS
  Targets <- MCTargets
  NoTarget = NoTarget
  Roots <- MCRoots
  Starts <- Unlocked
  Headers <- NoHeaders
  RescanFates <- NoFates
  Internal = {}
  Original <- NoOriginals
  NoCare = {"obj"}
  FailExpected = {}
  RmOld = {"lib"}
  NotFile = {}
  Precious = {}
  Actions <- MCActions
  ActionsOf <- MCActionsOf
  Commands <- MCCommands
  Ignore = {}
  Names <- MCTargets
  BoundName <- MCBoundName
  Outputs <- MCOutputs
  TargetNamed <- MCBoundName
  Sems = {}
  NoSem = NoSem
  Options <- Quitting
  Interrupts = FALSE
INVARIANT NoPartialOutput
