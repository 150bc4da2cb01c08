\* Depth first search; every read counts as a dependency; the preprocessing may time out.
SPECIFICATION Spec
CONSTANTS
  Functions <- MCFunctions
  Fallback <- MCFallback
  Constructor <- MCConstructor
  SeqLenLimit = 3
  TimesLimit = 1
  ConsiderAllReads = TRUE
  AllReads <- MCAllReads
  Strategy = "dfs"
  P1DL = 2
  TransactionCount = 5
  Threshold = 98
  CovLevels = {0, 60, 100}
  Measured = {"g"}
  Graphs <- MCGraphs
  Efforts = {0, 3}
  SilentEnd = {}
  MaxGenesis = 1
  MaxOpen = 2
INVARIANTS
  StopsOnceDecided
  OneStartContinues
