SPECIFICATION MCSpec
CONSTANTS
  Files <- MCFiles
  PathOf <- MCPathOf
  PathLength <- MCPathLength
  PrefixLike = {}
  SuffixLike = {}
  ModuleList <- MCModules
  Contents <- MCContents
  Calls <- MCCalls
  Suffixed <- MCSuffixed
  RowLimit = 2
  CalleeLimit = 2
  MaxCommits = 1
INVARIANTS TypeOK TreeIsExact PathIsExact CyclesAreFound
CHECK_DEADLOCK FALSE
