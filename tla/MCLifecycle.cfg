\* Two jobs may wait; the program ends, and may hang at the end.
CONSTANT MaxJobs = 2
SPECIFICATION LSpec
INVARIANTS LTypeOK OnlyShutdownRaces ManagerOutlivesJobs NothingSleptThrough
PROPERTIES ImplementsActionQueue SyncReturns WorkerStops ProgramEnds
CHECK_DEADLOCK FALSE
