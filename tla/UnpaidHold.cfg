SPECIFICATION Spec
CONSTANTS
    Procs = {p1}
    Orders <- AllOrders
    Price = 2
    Penalties = {1, 2}
    MaxRequests = 1
    MaxLosses = 0
INVARIANTS
    OnlyWhatWasPaid
CHECK_DEADLOCK FALSE
