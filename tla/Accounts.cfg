SPECIFICATION Spec
CONSTANTS
    e1 = e1
    e2 = e2
    d1 = d1
    d2 = d2
    Emails = {e1, e2}
    Deals = {d1, d2}
    Terms <- MCTerms
    MaxChanges = 2
INVARIANTS TypeOK AcceptedDealHasSeller InvitationsAreLinked
PROPERTIES UsedAccountsStay
CHECK_DEADLOCK FALSE
