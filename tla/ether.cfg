SPECIFICATION Spec
CONSTANTS
  MaxSteps = 2
  MaxFrames = 1
  MaxRounds = 1
INVARIANTS EtherConserved
CHECK_DEADLOCK FALSE
