SPECIFICATION FairSpec
CONSTANTS
    Commits = {c1}
    Pollers = {p1}
    Cancellers = {x1, x2}
    NoBooking = NoBooking
    Keys = {k1}
    Deals = {d1, d2}
    Pollable = {d1}
    Price = 3
    Penalties = {0, 1, 4}
    MaxCrashes = 1
    MaxRedeploys = 1
INVARIANTS
    RefundedAtMostOnce
    NoRefundWhileHeld
    ConfirmedIsHeld
    NoStrandedMoney
    RefundRecordIsTrue
PROPERTIES
    FollowsTransitions
    PendingIsSettled
CHECK_DEADLOCK FALSE
