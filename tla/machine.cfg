SPECIFICATION Spec
CONSTANTS
  W = 4
  B = 2
  Programs <- MCPrograms
  PushValues = {0, 2, 3, 9}
  Symbols = {0, 3}
  CodeBytes <- MCCode
  Data <- MCData
  SymbolicSize = 3
  GasLimits = {30, 900}
  StackLimit = 4
INVARIANTS StackAgrees MemoryAgrees NeverLost MemoryPaid
CHECK_DEADLOCK FALSE
