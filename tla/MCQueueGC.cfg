\* One key and the data of one picture, collections between any two steps;
\* links, working directories and scripts may fail.
CONSTANTS
    StreamKeys = {k1}
    Priorities = {1}
    Sources = {d}
    DataSources = {d}
    Objects = {o1}
    KeyLimit = 7
    SourceLimit = 0
    ObjectLimit = 7
    SizeMax = 2
    Faults <- LinkFaults
    MaxJobs = 2
    WorkdirFaults = TRUE
SPECIFICATION QCollecting
INVARIANTS DataJobUnique
PROPERTIES Spec CollectionEnds CollectionShrinks
