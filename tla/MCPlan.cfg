SPECIFICATION PlanSpec
CONSTANTS
  Files <- MCFiles
  NoTarget = NoTarget
  IncludeNode <- MCIncludeNode
  ActionTargets <- MCActionTargets
  HeadersOf <- MCHeaders
  Another <- NoOther
  Anyhow = FALSE
  NewestFirst = TRUE
  Calls <- MCCalls
  MaxCalls = 3
  Base <- MCBase
  Disks <- MCDisks
  Asked <- MCAsked
  Targets <- MCTargets
  Names <- MCTargets
  Actions <- MCActions
  RuleSet <- MCRules
  ActionsOf <- MCActionsOf
  RuleOf <- MCRuleOf
  TargetsOf <- MCTargetsOf
  SourcesOf <- MCSourcesOf
  BoundName <- MCBoundName
  Existing = {"o1", "o3"}
  Together = {"Archive"}
  Piecemeal = {"Archive", "List"}
  NewSrcs = {"Archive", "Copy"}
  ExistingOnly = {"Copy"}
  Width <- MCWidth
  MaxLine = 5
INVARIANTS FatesDecided UpdatedWhenNeeded UpdatedOnlyForAReason BrokenSpreads JointTargets RebuildsHonoured EverySourceGiven ActionsStartedOnce SplitAsNeeded
CHECK_DEADLOCK FALSE
