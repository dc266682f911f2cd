\* Pushes, restarts, orders and faults against the trading loop.
SPECIFICATION MCSpec
CONSTANTS
    btc = btc
    eth = eth
    loop = loop
    h1 = h1
    h2 = h2
    Pairs = {btc, eth}
    Stops = {5, 10}
    Loop = loop
    Handlers = {h1, h2}
    Sides = {"buy", "sell"}
    Fillings = {"filled", "partial", "unfilled"}
    ExecutorMayFail = TRUE
    Returns = {0, 3}
    SellReturns <- LossOrGain
    InitialBalance = 4
    SizeDivisor = 2
    OtherAmounts = {}
    MaxOpened = 2
    MaxPushes = 2
    MaxFaults = 2
    MaxRestarts = 1
    InitialSettings <- Both
    SettingsPushes <- AllPushed
INVARIANTS
    TypeOK
    OnePositionPerPair
    SettledPairsAllowed
    BooksBalance
    AloneCoversOpen
    FaultsAreContained
PROPERTIES
    OpensWithinLimit
SYMMETRY TwoHandlers
