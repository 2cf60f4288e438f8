SPECIFICATION Spec
CONSTANTS
    Orders = {o1}
    Stages = {payment}
    Instances = {i1, i2}
    NoStage = NoStage
    MaxRetries = 1
    BatchSize = 1
    FaultKinds = {"publish", "redis"}
    MaxFaults = 1
SYMMETRY Symmetry
INVARIANTS
    OnlyAFrame
CHECK_DEADLOCK FALSE
