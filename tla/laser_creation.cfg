\* A creation that its timeout has cut off goes on in the first round.
SPECIFICATION Spec
CONSTANTS
  Search = "dfs"
  TransactionCount = 1
  MaxDepth = 3
  CallDepthLimit = 1
  CallKinds = {}
  Events = {"create_timeout"}
  MaxForks = 2
  MaxCalls = 0
INVARIANTS
  CreationEnds
