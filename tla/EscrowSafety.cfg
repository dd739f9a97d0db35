SPECIFICATION Spec
CONSTANTS
    Users <- TwoUsers
    Deals <- OneDeal
    Milestones <- TwoMilestones
    Requests <- NoRequests
    AgentOf <- NoRequestMap
    DealOf <- OneDealOf
    RequestDeal <- NoRequestMap
    Buyer <- AdaBuys
    Seller <- BobSells
    Balance <- AdaHas3
    Amounts = {0, 2}
    Fee <- NoRequestMap
    Payout <- NoRequestMap
    Freezable = {"ada"}
INVARIANTS
    TypeOK
    EscrowBacked
    LedgerBalanced
    PaidOnceInFull
    FundedMeansFull
    CountersAgree
    StatusTellsFunding
    CompletedIsDrained
    MoneyConserved
PROPERTIES
    NoEarlyAutoRelease
    ImplementsVault
