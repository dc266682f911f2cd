\* A position is bought and sold again.
SPECIFICATION Spec
CONSTANTS
    btc = btc
    eth = eth
    loop = loop
    h1 = h1
    Pairs = {btc, eth}
    Stops = {5, 10}
    Loop = loop
    Handlers = {}
    Sides = {"buy", "sell"}
    Fillings = {"filled"}
    ExecutorMayFail = FALSE
    Returns = {3}
    SellReturns = {3}
    InitialBalance = 4
    SizeDivisor = 2
    OtherAmounts = {}
    MaxOpened = 1
    MaxPushes = 0
    MaxFaults = 0
    MaxRestarts = 0
    InitialSettings <- Both
    SettingsPushes <- PairsPushed
INVARIANTS
    AllocationExact
