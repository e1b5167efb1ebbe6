SPECIFICATION FairSpec
CONSTANTS
    s1 = s1
    s2 = s2
    b3 = b3
    b2 = b2
    b1 = b1
    Bookings = {b1, b2, b3}
    Sweeps = {s1, s2}
    BatchSize = 2
    Concurrency = 1
    MaxRestarts = 1
INVARIANTS OneSweepAtATime AtMostConcurrency
PROPERTIES ReachedUnlessCrowded
CHECK_DEADLOCK FALSE
