CONSTANTS
    FirstVersion <- MCFirstVersion
    Manifests <- MCManifests
    HasHealthCheck = TRUE
    MaxChecks = 3
    MaxApplies = 2
    Remotes = {menu, cart}
    MaxManifests = 2
    MaxRegisters = 1
    menu = menu
    cart = cart
    MAX_QUEUED_MESSAGES = 2
    StaleTicks = 3
    MaxSends = 4
    MaxFlaps = 2
    EnvKey = FALSE
    Dev = TRUE
    MaxAttempts = 3
    MaxOutages = 2
    MenuItems <- MCMenuItems
    ITEMS_PER_PAGE = 2
    MaxMounts = 2
    MaxStarts = 3
SPECIFICATION FairSpec
INVARIANTS
    AppliedIsVerified
    UrlWasHealthy
    MessagesKeepOrder
    DeclinedIsNotCharged
    OneResult
    WaitingIsForSomething
    DisplayedIsPrefix
    ScanningIsWatched
PROPERTIES
    UpdateIsProbed
    AbandonedSessionCloses
    RecoveryIsNoticed
CHECK_DEADLOCK FALSE
