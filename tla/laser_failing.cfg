\* Two paths of a callee fail: the second inherits the branch of the first.
SPECIFICATION Spec
CONSTANTS
  Search = "dfs"
  TransactionCount = 1
  MaxDepth = 2
  CallDepthLimit = 1
  CallKinds = {"CALL"}
  Events = {"callee_failure"}
  MaxForks = 1
  MaxCalls = 1
INVARIANTS
  PathsConsistent
