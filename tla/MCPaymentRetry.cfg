SPECIFICATION Spec
CONSTANTS
    Threads = {t1, t2}
    PaymentIds = {p1, p2}
    Keys = {k1}
    NoKey = NoKey
    NoPayment = NoPayment
    MaxEvents = 4
INVARIANT
    AuthorizedOncePerKey
CHECK_DEADLOCK FALSE
