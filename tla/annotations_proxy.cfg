\* Breadth first, a contract that delegates before its first hooked instruction.
SPECIFICATION Spec
CONSTANTS
  Searches = {"bfs"}
  Functions = {"f"}
  Fallback = "fallback"
  Slots = {"x", "y"}
  Sites = {1, 2}
  CallKinds = {"DELEGATECALL"}
  EarlyStop = FALSE
  Rounds = 2
  MaxHooked = 3
  MaxPicked = 2
INVARIANT SeqIsPath
