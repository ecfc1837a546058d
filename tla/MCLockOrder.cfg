\* The three threads; a deadlock is a state without a step.
CONSTANT MaxPending = 2
SPECIFICATION Spec
INVARIANTS NoSelfDeadlock OnlyTwoDeadlocks BackgroundBlocksNobody
CHECK_DEADLOCK FALSE
