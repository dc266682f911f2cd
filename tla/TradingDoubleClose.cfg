\* One settings push: the handler and the loop close the same positions.
SPECIFICATION Spec
CONSTANTS
    btc = btc
    eth = eth
    loop = loop
    h1 = h1
    Pairs = {btc, eth}
    Stops = {5, 10}
    Loop = loop
    Handlers = {h1}
    Sides = {"buy"}
    Fillings = {"filled"}
    ExecutorMayFail = FALSE
    Returns = {2}
    SellReturns = {}
    InitialBalance = 4
    SizeDivisor = 2
    OtherAmounts = {}
    MaxOpened = 2
    MaxPushes = 1
    MaxFaults = 0
    MaxRestarts = 0
    InitialSettings <- Both
    SettingsPushes <- PairsPushed
INVARIANTS
    AllocationCoversOpen
