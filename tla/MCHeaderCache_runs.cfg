SPECIFICATION Spec
CONSTANTS
  Targets <- MCTargets
  NoTarget = NoTarget
  Names <- MCNames
  FileName <- MCFileName
  Dirs <- MCDirs
  Cwd = "cwd"
  KeptDirs = {"src", "cwd"}
  Locate <- MCLocate
  SearchPath <- MCSearch
  Roots <- MCRoots
  Sources <- MCSources
  Generated = {"gen"}
  HeaderOf <- MCHeaderOf
  Scanned = {"cpp", "hdr"}
  HdrScans <- Quoted
  Matched <- MCMatched
  MAXINC = 1
  MaxAge = 1
  StartDisk <- MCStartDisk
  Contents <- MCContents
  Edited <- Sources1
  Globbed = {"out"}
  MaxRuns = 3
  MaxMakes = 2
  MaxEdits = 1
INVARIANTS TypeOK CacheTrue HeadersTrue GeneratedKnown
PROPERTIES BoundAsDocumented OneAnswer Purged
CHECK_DEADLOCK FALSE
