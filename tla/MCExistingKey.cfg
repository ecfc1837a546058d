\* Two keys, two URIs, no call fails but scripts may.
CONSTANTS
    StreamKeys = {k1, k2}
    Priorities = {1}
    Sources = {u, v}
    DataSources = {}
    Objects = {o1}
    KeyLimit = 7
    SourceLimit = 7
    ObjectLimit = 7
    SizeMax = 7
    Faults <- NoFaults
    MaxJobs = 2
    WorkdirFaults = FALSE
SPECIFICATION QSpec
PROPERTIES ExistingKeyKeepsPicture
