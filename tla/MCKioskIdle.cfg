SPECIFICATION FairSpec
CONSTANTS
    UseRemote = FALSE
    AllowSimulated = FALSE
    MaxSessions = 1
    MaxVisits = 1
    MaxPayments = 1
    MaxRequests = 1
    MaxItems = 1
PROPERTIES
    PaidSessionNotAbandoned
CHECK_DEADLOCK FALSE
