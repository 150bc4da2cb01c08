\* A DELEGATECALL is not hooked by CallDepthLimit.
SPECIFICATION Spec
CONSTANTS
  Search = "dfs"
  TransactionCount = 1
  MaxDepth = 2
  CallDepthLimit = 1
  CallKinds = {"CALL", "DELEGATECALL"}
  Events = {}
  MaxForks = 0
  MaxCalls = 3
INVARIANTS
  CallDepthWithinLimit
