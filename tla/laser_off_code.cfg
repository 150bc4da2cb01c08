\* A callee runs off its code with the write of its caller.
SPECIFICATION Spec
CONSTANTS
  Search = "dfs"
  TransactionCount = 1
  MaxDepth = 2
  CallDepthLimit = 1
  CallKinds = {"CALL"}
  Events = {"callee_off_code"}
  MaxForks = 0
  MaxCalls = 1
INVARIANTS
  NoWriteLost
