\* Paths, calls of calls and rounds, breadth first.
SPECIFICATION FairSpec
CONSTANTS
  Search = "bfs"
  TransactionCount = 2
  MaxDepth = 2
  CallDepthLimit = 1
  CallKinds = {"CALL"}
  Events <- CalleeEnds
  MaxForks = 1
  MaxCalls = 2
INVARIANTS
  TypeOK
  OnlyFailuresMix
  CallDepthWithinLimit
PROPERTIES
  Terminates
