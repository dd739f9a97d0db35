SPECIFICATION SessionsSpec
CONSTANTS
    Users <- TwoUsers
    Deals <- OneDeal
    Milestones <- TwoMilestones
    Requests <- NoRequests
    AgentOf <- NoRequestMap
    DealOf <- OneDealOf
    RequestDeal <- NoRequestMap
    Buyer <- AdaBuys
    Seller <- BobSells
    Balance <- AdaHas3
    Amounts = {2}
    Fee <- NoRequestMap
    Payout <- NoRequestMap
    Freezable = {}
    MaxBooked = 2
    SessionIds = {s1, s2}
INVARIANTS
    SessionsTypeOK
    WorkIsPaidFor
PROPERTIES
    FreshCommitsAreAtomic
CHECK_DEADLOCK FALSE
SYMMETRY SessionSymmetry
