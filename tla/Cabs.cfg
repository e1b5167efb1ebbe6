SPECIFICATION Spec
CONSTANTS
    r1 = r1
    r2 = r2
    r3 = r3
    j1 = j1
    j2 = j2
    Requests = {r1, r2, r3}
    Jobs = {j1, j2}
    Price = 2
    Refundable = {0, 1}
    MaxLosses = 1
    MaxUnderWay = 2
CONSTRAINTS FewUnderWay LastInOrder
SYMMETRY Symmetry
INVARIANTS
    PaidOncePerLoss
    OneRideStands
    RefundedIfCharged
    FailedIsRefunded
CHECK_DEADLOCK FALSE
