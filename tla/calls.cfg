SPECIFICATION Spec
CONSTANTS
  MaxSteps = 5
  MaxFrames = 3
  MaxRounds = 2
INVARIANTS WorldAgrees ContextAgrees AnswersAgree StaticWritesNothing
CHECK_DEADLOCK FALSE
