SPECIFICATION FairSpec
CONSTANTS
    c1 = c1
    c2 = c2
    c3 = c3
    Calls = {c1, c2, c3}
    Kinds = {"read", "write"}
    Deadlines = {0, 1, 4}
    Timeout = 2
    MaxRetries = 1
    BackoffUnit = 1
    MaxBackoff = 2
    Threshold = 2
    OpenFor = 5
INVARIANTS NeverDeniesABooking OneReservation NoneOutlivesItsDeadline OneProbe OpenedForCause
PROPERTIES ProbedInTheEnd
CHECK_DEADLOCK FALSE
