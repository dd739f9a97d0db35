SPECIFICATION RequestsSpec
CONSTANTS
    e1 = e1
    e2 = e2
    Emails = {e1, e2}
    Deals = {}
    Terms <- MCTerms
    MaxChanges = 0
    r1 = r1
    r2 = r2
    r3 = r3
    Tries = {r1, r2, r3}
    Address = e2
    Limit = 1
    Window = 2
    MaxFaults = 2
INVARIANTS RetriesAreReplayed ReplaysTellTheTruth
CONSTRAINT OneAccount
SYMMETRY Symmetry
CHECK_DEADLOCK FALSE
