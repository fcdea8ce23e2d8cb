SPECIFICATION FairSpec
CONSTANTS
  Targets <- MCTargets
  NoTarget = NoTarget
  Roots <- MCRoots
  Starts <- MCStarts
  Headers <- NoHeaders
  RescanFates <- NoFates
  Internal <- MCInternal
  Original <- MCOriginal
  NoCare = {}
  FailExpected = {}
  RmOld = {}
  NotFile = {"all"}
  Precious = {}
  Actions <- MCActions
  ActionsOf <- MCActionsOf
  Commands <- MCCommands
  Ignore = {}
  Names <- MCTargets
  BoundName <- MCBoundName
  Outputs <- MCOutputs
  TargetNamed <- MCBoundName
  Sems = {"lock"}
  NoSem = NoSem
  Options <- ThreeJobs
  Interrupts = FALSE
  Locked = {}
  Generated <- Three
  Uses1 <- UsesH
  Uses2 <- UsesTab
PROPERTY OutputsReady
