SPECIFICATION Spec
CONSTANTS
    c1 = c1
    c2 = c2
    f1 = f1
    f2 = f2
    ours = ours
    theirs = theirs
    Callers = {c1, c2}
    Refunds = {f1, f2}
    Payments = {ours, theirs}
    Own = ours
    Worth <- Value
    Before <- Begun
    Most = 2
    Asked = {0, 1}
    MaxLosses = 1
SYMMETRY Symmetry
INVARIANTS
    SuccessIsCaptured
    ReturnedIsReserved
    NoOverRefund
    RefundRecordIsTrue
CHECK_DEADLOCK FALSE
