SPECIFICATION Spec
CONSTANTS
    r1 = r1
    r2 = r2
    r3 = r3
    k1 = k1
    k2 = k2
    option = option
    pay1 = pay1
    pay2 = pay2
    Requests = {r1, r2, r3}
    LockKeys = {k1, k2, option}
    IdempotencyKeys = {k1, k2}
    Payments = {pay1, pay2}
    Profiles <- TheProfiles
    Price = 2
    Opening = 4
    MaxLosses = 1
INVARIANTS
    LockExcludes
    NoStrandedCharge
    RefundedForCause
    ChargedOncePerKey
PROPERTY
    LockIsFreed
CHECK_DEADLOCK FALSE
