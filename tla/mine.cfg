\* The default strategy, from one or two genesis states.
SPECIFICATION Spec
CONSTANTS
  Functions <- MCFunctions
  Fallback <- MCFallback
  Constructor <- MCConstructor
  SeqLenLimit = 2
  TimesLimit = 1
  ConsiderAllReads = FALSE
  AllReads <- MCAllReads
  Strategy = "mine"
  P1DL = 1
  TransactionCount = 5
  Threshold = 98
  CovLevels = {0, 60, 100}
  Measured = {"g"}
  Graphs <- MCGraphs
  Efforts = {0, 3}
  SilentEnd = {}
  MaxGenesis = 2
  MaxOpen = 2
INVARIANTS
  KeysSound
  PathsWithinLimit
  StopsWithReason
  NoCrash
PROPERTIES
  ImplementsLifecycle
