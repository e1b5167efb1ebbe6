SPECIFICATION Spec
CONSTANTS
    Procs = {p1, p2}
    Orders <- PaidOrders
    Price = 2
    Penalties = {1, 2}
    MaxRequests = 1
    MaxLosses = 1
INVARIANTS
    PaidOncePerLoss
    RefundForCause
    ClosedIsRefunded
    RecordNotAhead
SYMMETRY Symmetry
CHECK_DEADLOCK FALSE
