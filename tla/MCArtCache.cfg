\* Two clients' keys over two sources and two pictures, every call may fail.
CONSTANTS
    StreamKeys = {k1, k2}
    Priorities = {1}
    Sources = {s1, s2}
    Objects = {o1}
    KeyLimit = 1
    SourceLimit = 1
    ObjectLimit = 1
    SizeMax = 2
    Faults <- AllFaults
SYMMETRY Symmetry
SPECIFICATION Spec
INVARIANTS TypeOK NoDanglingKey NoDanglingPicture OneSourcePerKey ObjectCountExact
PROPERTIES LivePictureKept
