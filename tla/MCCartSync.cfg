SPECIFICATION FairSpec
CONSTANTS
    Items = {burger, drink}
    Flushes = {f1, f2}
    MaxQuantity = 1
    MaxChanges = 2
    MaxFaults = 2
INVARIANT
    SyncedCartHasLines
PROPERTY
    SyncLoopRecovers
CHECK_DEADLOCK FALSE
