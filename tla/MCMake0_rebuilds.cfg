SPECIFICATION Spec
CONSTANTS
  Files <- MCFiles
  NoTarget = NoTarget
  IncludeNode <- MCIncludeNode
  ActionTargets <- MCActionTargets
  HeadersOf <- MCHeaders
  Another <- NoOther
  Anyhow = FALSE
  NewestFirst = FALSE
  Calls <- NoCalls
  MaxCalls = 0
  Base <- RebuildsFirst
  Disks <- MCDisks
  Asked <- MCAsked
INVARIANT FatesDecided
CHECK_DEADLOCK FALSE
