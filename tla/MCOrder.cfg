SPECIFICATION FairSpec
CONSTANTS
    c1 = c1
    o1 = o1
    o2 = o2
    cartMsg = cartMsg
    payMsg = payMsg
    wrappedMsg = wrappedMsg
    declinedMsg = declinedMsg
    NoKey = NoKey
    NoCart = NoCart
    NoOrder = NoOrder
    NoMessage = NoMessage
    Consumers = {w1, w2}
    Rpcs = {h1}
    Carts = {c1}
    OrderIds = {o1, o2}
    Keys = {k1}
    Messages = {cartMsg, payMsg}
    Body <- MCBody
    MaxDeliver = 2
    MaxFaults = 1
    Requests = {"pending", "cancelled"}
    MaxEvents = 3
INVARIANTS
    AckedCartHasOrder
    HistoryIsConsistent
PROPERTY
    ReadableCartBecomesOrder
CHECK_DEADLOCK FALSE
