CONSTANTS
    Tables = {"stores", "kiosks", "categories", "items", "carts", "cartLines",
              "orders", "orderItems", "payments", "refunds"}
    MaxRows = 7
    MaxEach = 2
    Nodes = {1, 2}
    Elements = {bread}
    MaxOps = 3
    MaxTime = 2
    MaxCount = 3
    None = None
    bread = bread
    Catalogues <- MCCatalogues
    PageSize = 2
    Users = {ana, leo}
    TokenUser = ana
    MaxRequests = 2
    MaxChanges = 1
    ana = ana
    leo = leo
    OptionIds = {"oat", "soy", "shot", "cream"}
    Groups <- MCGroups
    PriceCents = 250
    Threshold = 3
    MaxQuantity = 2
    MaxEdits = 3
SPECIFICATION FairSpec
INVARIANTS
    Converged
PROPERTIES
    LedgerSurvives
    OwnWriteWins
    QuietReadIsComplete
    QuoteIsCharged
    TotalsCatchUp
CHECK_DEADLOCK FALSE
