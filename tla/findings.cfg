SPECIFICATION Spec
CONSTANT Sessions <- MCSessions
INVARIANTS CallsReported StateChangesReported AttacksReported
CHECK_DEADLOCK FALSE
