SPECIFICATION FairSpec
CONSTANTS
    Handlers = {h1, h2}
    Carts = {c1, c2}
    NoCart = NoCart
    NoHandler = NoHandler
    MaxQuantity = 2
    Deltas <- MCDeltas
    MaxTx = 4
INVARIANTS
    ReservationsMatchLedger
    SerialLedgerExact
PROPERTY
    HandlersFinish
CHECK_DEADLOCK FALSE
