SPECIFICATION Spec
CONSTANTS
    Commits = {c1, c2}
    Pollers = {p1}
    Cancellers = {x1}
    NoBooking = NoBooking
    Keys = {k1, k2}
    Deals = {d1}
    Pollable = {d1}
    Price = 3
    Penalties = {0, 1, 4}
    MaxCrashes = 0
    MaxRedeploys = 0
INVARIANTS
    OneBookingPerKey
    DealLockUnlessRevived
PROPERTIES
    KeepsPromise
SYMMETRY Symmetry
CHECK_DEADLOCK FALSE
