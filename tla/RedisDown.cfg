SPECIFICATION FairSpec
CONSTANTS
    Orders = {o1}
    Stages = {payment}
    Instances = {i1}
    NoStage = NoStage
    MaxRetries = 1
    BatchSize = 1
    FaultKinds = {"redis"}
    MaxFaults = 1
PROPERTIES
    StagesDecided
CHECK_DEADLOCK FALSE
