SPECIFICATION Spec
CONSTANTS
    btc = btc
    sol = sol
    eth = eth
    btc1 = btc1
    btc2 = btc2
    sol1 = sol1
    sol2 = sol2
    eth1 = eth1
    b1 = b1
    b2 = b2
    b3 = b3
    s1 = s1
    s2 = s2
    e1 = e1
    e2 = e2
    r1 = r1
    r2 = r2
    NoHash = NoHash
    Networks = {btc, sol}
    Kind <- MCKind
    Addresses = {btc1, btc2, sol1, sol2}
    NetworkOf <- MCNetworkOf
    Transfers = {b1, b2, b3, s1, s2}
    PaidTo <- MCPaidTo
    TwoOutputs = {b2}
    PageSize = 1
    Scans = {r1, r2}
    MaxIncidents = 1
INVARIANTS TypeOK MissedIsExplained
CONSTRAINT FewTransfers
SYMMETRY Symmetry
CHECK_DEADLOCK FALSE
