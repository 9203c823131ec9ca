SPECIFICATION MCSpec
CONSTANTS
  Absent = Absent
  Denied = Denied
  None = None
  Files <- MCFiles
  PathOf <- MCPathOf
  PathLength <- MCPathLength
  PrefixLike <- MCPrefixLike
  SuffixLike <- MCSuffixLike
  ModuleList <- MCModules
  PkgPath <- MCPkgPath
  ModPath <- MCModPath
  Versions <- MCVersions
  Parsed <- MCParsed
  LinesIn <- MCLinesIn
  Calls <- MCCalls
  RowLimit = 5
  CalleeLimit = 5
  UnusedLimit = 5
  MaxMoves = 1
INVARIANTS OnlyEmptyMatchesPanic  BucketsAreExact TrimKeepsTheHead
CHECK_DEADLOCK FALSE
