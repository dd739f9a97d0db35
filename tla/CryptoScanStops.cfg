SPECIFICATION Spec
CONSTANTS
    btc = btc
    sol = sol
    eth = eth
    btc1 = btc1
    btc2 = btc2
    sol1 = sol1
    sol2 = sol2
    eth1 = eth1
    b1 = b1
    b2 = b2
    b3 = b3
    s1 = s1
    s2 = s2
    e1 = e1
    e2 = e2
    r1 = r1
    r2 = r2
    NoHash = NoHash
    Networks = {eth}
    Kind <- MCKind
    Addresses = {eth1}
    NetworkOf <- MCNetworkOf
    Transfers = {e1, e2}
    PaidTo <- MCPaidTo
    TwoOutputs = {}
    PageSize = 2
    Scans = {r1}
    MaxIncidents = 0
PROPERTIES EveryTransferDetected
CHECK_DEADLOCK FALSE
