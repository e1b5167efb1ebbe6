SPECIFICATION Spec
CONSTANTS
    c1 = c1
    c2 = c2
    Calls = {c1, c2}
    Kinds = {"read"}
    Deadlines = {0, 1, 4}
    Timeout = 2
    MaxRetries = 1
    BackoffUnit = 1
    MaxBackoff = 2
    Threshold = 2
    OpenFor = 5
INVARIANTS OpenedByFaults
CHECK_DEADLOCK FALSE
