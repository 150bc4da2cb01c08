\* A jump into the data of a PUSH.
SPECIFICATION Spec
CONSTANTS
  W = 4
  B = 2
  Programs <- MCPrograms
  PushValues = {1, 3}
  Symbols = {0, 3}
  CodeBytes <- MCCode
  Data <- MCData
  SymbolicSize = 3
  GasLimits = {30, 900}
  StackLimit = 4
INVARIANT NeverTaken
CHECK_DEADLOCK FALSE
