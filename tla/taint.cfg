SPECIFICATION Spec
CONSTANTS
  Size = 4
  Programs <- MCPrograms
INVARIANTS OverflowsReported DecisionsReported
CHECK_DEADLOCK FALSE
