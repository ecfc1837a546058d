\* One key, one source, one picture, no call fails.
CONSTANTS
    StreamKeys = {k1}
    Priorities = {1}
    Sources = {s1}
    Objects = {o1}
    KeyLimit = 7
    SourceLimit = 7
    ObjectLimit = 7
    SizeMax = 7
    Faults <- NoFaults
SPECIFICATION Spec
PROPERTIES DeleteKeyRemovesSource
