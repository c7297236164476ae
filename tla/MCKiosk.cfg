SPECIFICATION FairSpec
CONSTANTS
    UseRemote = FALSE
    AllowSimulated = FALSE
    MaxSessions = 2
    MaxVisits = 2
    MaxPayments = 2
    MaxRequests = 2
    MaxItems = 1
INVARIANTS
    OrdersArePaid
    ReceiptIsOwnOrder
    OneAuthorizationPerVisit
    PaidForThisCart
    PaymentBuysOneCart
PROPERTY
    AbandonedSessionEnds
CHECK_DEADLOCK FALSE
