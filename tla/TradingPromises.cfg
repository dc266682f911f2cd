\* Buys filled in full: the portfolio keeps the ledger's promise, and settings
\* pushes are acted on.
SPECIFICATION MCSpec
CONSTANTS
    btc = btc
    eth = eth
    loop = loop
    h1 = h1
    Pairs = {btc, eth}
    Stops = {5, 10}
    Loop = loop
    Handlers = {h1}
    Sides = {"buy"}
    Fillings = {"filled"}
    ExecutorMayFail = FALSE
    Returns = {0, 3}
    SellReturns = {}
    InitialBalance = 4
    SizeDivisor = 2
    OtherAmounts = {1}
    MaxOpened = 2
    MaxPushes = 2
    MaxFaults = 0
    MaxRestarts = 0
    InitialSettings <- Both
    SettingsPushes <- StopsPushed
INVARIANTS
    AvailableNotNegative
    AllocationExact
    SettledStopsCurrent
PROPERTIES
    ImplementsLedger
    ForbiddenPairsClosed
