SPECIFICATION FairSpec
CONSTANTS
    e1 = e1
    e2 = e2
    e3 = e3
    r1 = r1
    r2 = r2
    Events = {e1, e2, e3}
    Relays = {r1, r2}
    Services <- TwoServices
    Owner <- TwoOwner
    RelayOf <- TwoRelayOf
    Fallback <- TwoFallback
    BatchSize = 2
    MaxTime = 2
    MaxFaults = 1
INVARIANTS
    PublishedWasAcked
    DuplicatesBounded
PROPERTY
    ImplementsEventLog
CHECK_DEADLOCK FALSE
