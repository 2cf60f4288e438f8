SPECIFICATION FairSpec
CONSTANTS
    Rows = {r1, r2, r3}
    Instances = {i1, i2}
    BatchSize = 1
    MaxFaults = 2
INVARIANTS
    TypeOK
    BoundedWait
PROPERTIES
    NeverStarved
