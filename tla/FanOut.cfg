SPECIFICATION FairSpec
CONSTANTS
    Orders = {o1}
    Stages = {payment, inventory}
    Instances = {i1, i2}
    NoStage = NoStage
    MaxRetries = 1
    BatchSize = 1
    FaultKinds = {"commit", "query", "publish", "redis", "crash"}
    MaxFaults = 2
INVARIANTS
    OneOutcome
    StatusTruthful
PROPERTIES
    ImplementsLifecycle
    EveryRowProcessed
CHECK_DEADLOCK FALSE
