SPECIFICATION Spec
CONSTANTS
    Orders = {o1}
    Stages = {payment}
    Instances = {i1}
    NoStage = NoStage
    MaxRetries = 1
    BatchSize = 1
    FaultKinds = {"query"}
    MaxFaults = 1
SYMMETRY Symmetry
PROPERTIES
    AbortsOnlyProcessed
CHECK_DEADLOCK FALSE
