\* Two keys, picture data and a URI; restarts, working directories that fail.
CONSTANTS
    StreamKeys = {k1, k2}
    Priorities = {1}
    Sources = {d, u}
    DataSources = {d}
    Objects = {o1}
    KeyLimit = 7
    SourceLimit = 7
    ObjectLimit = 7
    SizeMax = 7
    Faults <- NoFaults
    MaxJobs = 2
    WorkdirFaults = TRUE
SYMMETRY SameKeys
SPECIFICATION QSpec
INVARIANTS QTypeOK DataJobUnique FailedKeyGone
