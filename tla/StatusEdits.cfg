SPECIFICATION EditsSpec
CONSTANTS
    Users <- TwoUsers
    Deals <- OneDeal
    Milestones <- OneMilestone
    Requests <- NoRequests
    AgentOf <- NoRequestMap
    DealOf <- OneDealOf
    RequestDeal <- NoRequestMap
    Buyer <- AdaBuys
    Seller <- BobSells
    Balance <- AdaHas2
    Amounts = {1, 3}
    Fee <- NoRequestMap
    Payout <- NoRequestMap
    Freezable = {}
    MaxEdits = 2
INVARIANTS
    AvailableMatchesLedger
    FundedCounterAgrees
