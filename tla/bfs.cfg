\* Breadth first search after a complete preprocessing.
SPECIFICATION FairSpec
CONSTANTS
  Functions <- MCFunctions
  Fallback <- MCFallback
  Constructor <- MCConstructor
  SeqLenLimit = 3
  TimesLimit = 1
  ConsiderAllReads = FALSE
  AllReads <- MCAllReads
  Strategy = "bfs"
  P1DL = 1
  TransactionCount = 5
  Threshold = 98
  CovLevels = {0, 60, 100}
  Measured = {"g"}
  Graphs <- MCGraphs
  Efforts = {0}
  SilentEnd = {}
  MaxGenesis = 1
  MaxOpen = 2
INVARIANTS
  TypeOK
  KeysSound
  BfsLayers
PROPERTIES
  Terminates
