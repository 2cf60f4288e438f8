SPECIFICATION FairSpec
CONSTANTS
    Attempts = {a1}
    Subscribers = {i1, i2}
    Probes = {n1}
    MaxFaults = 2
INVARIANTS
    TypeOK
    OutcomeLast
    ReachesTheSteady
PROPERTIES
    ProbesEnd
    PublishesResolve
CHECK_DEADLOCK FALSE
