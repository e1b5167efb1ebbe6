SPECIFICATION Spec
CONSTANTS
    c1 = c1
    c2 = c2
    Callers = {c1}
    Payers = {"admin"}
    MaxDebits <- Debits
    MaxLosses = 0
INVARIANT
    TicketIsCharged
CHECK_DEADLOCK FALSE
