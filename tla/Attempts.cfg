SPECIFICATION Spec
CONSTANTS
    Orders = {o1}
    Stages = {payment}
    Instances = {i1, i2}
    NoStage = NoStage
    MaxRetries = 2
    BatchSize = 2
    FaultKinds = {"commit", "query", "publish", "redis", "crash"}
    MaxFaults = 3
SYMMETRY Symmetry
INVARIANTS
    TypeOK
    OneAttemptAtATime
    RetryAccounting
    FailureHasSuccessor
    AttemptInv
    RowsHeldAlone
PROPERTIES
    LostStaysLost
    ImplementsTable
CHECK_DEADLOCK FALSE
