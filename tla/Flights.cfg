SPECIFICATION Spec
CONSTANTS
    c1 = c1
    c2 = c2
    Callers = {c1, c2}
    Payers = {"admin", "rm", "sub", "house", "guest"}
    MaxDebits <- Debits
    MaxLosses = 1
SYMMETRY Symmetry
INVARIANTS
    TakenBeforeTicket
    CreditedWhatWasTaken
    NoStrandedDebit
    CancellationPaidOnce
CHECK_DEADLOCK FALSE
