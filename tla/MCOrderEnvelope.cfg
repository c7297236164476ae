SPECIFICATION FairSpec
CONSTANTS
    c1 = c1
    o1 = o1
    o2 = o2
    cartMsg = cartMsg
    payMsg = payMsg
    wrappedMsg = wrappedMsg
    declinedMsg = declinedMsg
    NoKey = NoKey
    NoCart = NoCart
    NoOrder = NoOrder
    NoMessage = NoMessage
    Consumers = {w1}
    Rpcs = {}
    Carts = {c1}
    OrderIds = {o1, o2}
    Keys = {k1}
    Messages = {wrappedMsg, declinedMsg}
    Body <- MCBody
    MaxDeliver = 5
    MaxFaults = 0
    Requests = {"pending", "cancelled"}
    MaxEvents = 3
PROPERTY
    FinalizedCartBecomesOrder
CHECK_DEADLOCK FALSE
