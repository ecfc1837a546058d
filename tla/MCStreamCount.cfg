\* One stream key with two priorities, no call fails.
CONSTANTS
    StreamKeys = {k1}
    Priorities = {1, 2}
    Sources = {s1}
    Objects = {o1}
    KeyLimit = 1
    SourceLimit = 1
    ObjectLimit = 1
    SizeMax = 7
    Faults <- NoFaults
SPECIFICATION Spec
INVARIANTS StreamCountExpected
