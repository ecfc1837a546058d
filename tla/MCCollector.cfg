\* Two keys, one source, one picture, four moments; only removals fail.
CONSTANTS
    StreamKeys = {k1, k2}
    Priorities = {1}
    Sources = {s1}
    Objects = {o1}
    KeyLimit = 1
    SourceLimit = 7
    ObjectLimit = 7
    SizeMax = 2
    Faults <- RemovalFaults
    UsecPerSec = 1
    SecMax = 3
    FracMax = 1
    FirstDay <- Noon
    LastDay <- Evening
    MaxRequests = 4
SYMMETRY SameKeys
SPECIFICATION CSpec
INVARIANTS CTypeOK UseOrder HotPathKept NoDanglingKey
PROPERTIES LatestKept
