SPECIFICATION Spec
CONSTANTS
  Contracts <- Keys
  Interruptible <- MCInterruptible
  seq_len_limit = 4
  loop_bound = 2
  max_depth = 7
  threshold = 98
  MaxStarts = 2
  MaxDeep = 1
INVARIANTS KeysCollected
CHECK_DEADLOCK FALSE
