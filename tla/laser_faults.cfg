\* Failing callees and both timeouts, any search order.
SPECIFICATION Spec
CONSTANTS
  Search = "random"
  TransactionCount = 2
  MaxDepth = 2
  CallDepthLimit = 1
  CallKinds = {"STATICCALL", "DELEGATECALL"}
  Events <- Failures
  MaxForks = 2
  MaxCalls = 1
INVARIANTS
  DistinctPaths
  RoundsDoNotMix
  NoWriteLost
