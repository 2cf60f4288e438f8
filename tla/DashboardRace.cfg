SPECIFICATION Spec
CONSTANTS
    Orders = {o1, o2}
    NoOrder = NoOrder
    Instances = {i1, i2}
    Nowhere = Nowhere
    Busy = {o1, o2}
    MaxRows = 1
    MaxSelects = 2
    MaxErrors = 0
SYMMETRY Symmetry
INVARIANTS
    TimelineOfSelected
