\* Sequences, writes and issues over forks, calls and rounds, depth and breadth first.
SPECIFICATION Spec
CONSTANTS
  Searches = {"dfs", "bfs"}
  Functions = {"f"}
  Fallback = "fallback"
  Slots = {"x", "y"}
  Sites = {1, 2}
  CallKinds = {"CALL"}
  EarlyStop = FALSE
  Rounds = 2
  MaxHooked = 3
  MaxPicked = 2
INVARIANTS
  TypeOK
  SeqIsPath
  WritesKnown
  AnnotationsPrivate
  OwnIssuesChecked
