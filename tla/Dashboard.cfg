SPECIFICATION FairSpec
CONSTANTS
    Orders = {o1, o2}
    NoOrder = NoOrder
    Instances = {i1, i2}
    Nowhere = Nowhere
    Busy = {o1}
    MaxRows = 1
    MaxSelects = 2
    MaxErrors = 1
INVARIANTS
    TypeOK
    OneOrderShown
    ShownPerCopy
    MissesOnlyTheGap
    LastClickLives
PROPERTIES
    HighlightSettles
