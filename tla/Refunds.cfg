SPECIFICATION FairSpec
CONSTANTS
    Users = {"ada"}
    RefundIds <- TwoRefunds
    To <- AllToAda
    Amount <- Amounts2And1
    Workers = {"w1", "w2"}
    MaxRetries = 2
    MaxRedeliveries = 2
    MaxFailures = 2
INVARIANTS
    BalanceIsCredits
    PaidMeansCompleted
    OnlyRedeliveryRepeats
PROPERTIES
    WaitingRefundIsPaid
CHECK_DEADLOCK FALSE
