\* The three threads, scheduled fairly.
CONSTANT MaxPending = 1
SPECIFICATION Spec
PROPERTIES CallsReturn
CHECK_DEADLOCK FALSE
