SPECIFICATION Spec
CONSTANTS
    u1 = u1
    u2 = u2
    ngn = ngn
    usd = usd
    p1 = p1
    p2 = p2
    d1 = d1
    w1 = w1
    w2 = w2
    t1 = t1
    t2 = t2
    k1 = k1
    k2 = k2
    Users = {u1, u2}
    Currencies = {ngn, usd}
    Payments = {p1, p2}
    Payment <- MCPayment
    CryptoDeposits = {d1}
    CryptoCredit <- MCCryptoCredit
    Withdrawals = {w1, w2}
    Withdrawal <- MCWithdrawal
    Transfers = {t1, t2}
    Transfer <- MCTransfer
    Conversions = {k1}
    Conversion <- MCConversion
    Requests = {q1}
    Rates = {1}
    FirstRates <- MCFirstRates
    Markup = 2
    Verified = {u1}
    Cent = 3
    MaxSettings = 1
    MaxRows = 4
CONSTRAINT FewRows
INVARIANTS TypeOK CreditedOnce PendingMatchesRequests MoneyExplained
CHECK_DEADLOCK FALSE
