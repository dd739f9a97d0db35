SPECIFICATION AgentSpec
CONSTANTS
    Users <- ThreeUsers
    Deals <- OneDeal
    Milestones <- OneMilestone
    Requests <- OneRequest
    AgentOf <- EveVerifies
    DealOf <- OneDealOf
    RequestDeal <- ForD1
    Buyer <- AdaBuys
    Seller <- BobSells
    Balance <- AdaHas3
    Amounts = {1, 2}
    Fee <- FeeOf2
    Payout <- PayoutOf1
    Freezable = {}
INVARIANTS
    FeeSettledOnce
    MoneyConserved
PROPERTIES
    CancelRefundsFees
    NoPassivePayout
