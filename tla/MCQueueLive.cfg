\* Two keys, picture data and a URI, one life of the process; scripts may fail.
CONSTANTS
    StreamKeys = {k1, k2}
    Priorities = {1}
    Sources = {d, u}
    DataSources = {d}
    Objects = {o1}
    KeyLimit = 7
    SourceLimit = 7
    ObjectLimit = 7
    SizeMax = 7
    Faults <- NoFaults
    MaxJobs = 2
    WorkdirFaults = FALSE
SPECIFICATION QLive
INVARIANTS AddedKeyLinked WorkdirOwned
PROPERTIES KeepsPromises BusyEnds
