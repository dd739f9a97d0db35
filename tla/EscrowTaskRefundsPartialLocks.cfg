SPECIFICATION Spec
CONSTANTS
    Users <- TwoUsers
    Deals <- OneDeal
    Milestones <- TwoMilestones
    Requests <- NoRequests
    AgentOf <- NoRequestMap
    DealOf <- OneDealOf
    RequestDeal <- NoRequestMap
    Buyer <- AdaBuys
    Seller <- BobSells
    Balance <- AdaHas3
    Amounts = {2}
    Fee <- NoRequestMap
    Payout <- NoRequestMap
    Freezable = {}
PROPERTIES
    TaskRefundsPartialLocks
