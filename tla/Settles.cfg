SPECIFICATION FairSpec
CONSTANTS
    Orders = {o1}
    Stages = {payment, inventory}
    Instances = {i1}
    NoStage = NoStage
    MaxRetries = 2
    BatchSize = 1
    FaultKinds = {"commit"}
    MaxFaults = 1
INVARIANTS
    NoStageForgotten
    NothingDropped
    NoOrderForgotten
    RestsSettled
PROPERTIES
    EventuallySettled
CHECK_DEADLOCK FALSE
