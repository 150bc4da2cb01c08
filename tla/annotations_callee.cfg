\* A callee that detects and returns: its issues at the end of the transaction.
SPECIFICATION Spec
CONSTANTS
  Searches = {"bfs"}
  Functions = {"f"}
  Fallback = "fallback"
  Slots = {"x", "y"}
  Sites = {1, 2}
  CallKinds = {"CALL"}
  EarlyStop = FALSE
  Rounds = 2
  MaxHooked = 3
  MaxPicked = 2
INVARIANT CalleeIssuesChecked
