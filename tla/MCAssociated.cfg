\* Two keys, the data of one picture.
CONSTANTS
    StreamKeys = {k1, k2}
    Priorities = {1}
    Sources = {d}
    DataSources = {d}
    Objects = {o1}
    KeyLimit = 7
    SourceLimit = 7
    ObjectLimit = 7
    SizeMax = 7
    Faults <- NoFaults
    MaxJobs = 2
    WorkdirFaults = FALSE
SPECIFICATION QLive
PROPERTIES AssociatedResolves
