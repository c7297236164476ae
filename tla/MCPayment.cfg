SPECIFICATION FairSpec
CONSTANTS
    Threads = {t1, t2}
    PaymentIds = {p1, p2}
    Keys = {k1, k2}
    NoKey = NoKey
    NoPayment = NoPayment
    MaxEvents = 4
INVARIANTS
    OnePaymentPerKey
    EventsMatchStatus
    MoneyMovesInOrder
PROPERTY
    FinishedStaysFinished
CHECK_DEADLOCK FALSE
