\* Breadth first, with a STOP right behind a JUMPI.
SPECIFICATION Spec
CONSTANTS
  Searches = {"bfs"}
  Functions = {"f"}
  Fallback = "fallback"
  Slots = {"x", "y"}
  Sites = {1, 2}
  CallKinds = {"CALL"}
  EarlyStop = TRUE
  Rounds = 2
  MaxHooked = 3
  MaxPicked = 2
INVARIANT SeqIsPath
