\* Pushes, re-evaluations, trades, faults and fair scheduling.
SPECIFICATION MCSpec
CONSTANTS
    loop = loop
    h1 = h1
    m1 = m1
    m2 = m2
    Markets = {m1, m2}
    Sides = {"yes", "no"}
    Loop = loop
    Handlers = {h1}
    InitialLimit = 6
    LimitPushes = {0, 1, 2}
    Actions = {"buy", "sell"}
    Costs = {1, 2}
    BetterFills = TRUE
    Statuses = {"filled", "placed"}
    ExecutorMayFail = TRUE
    Profits <- AnyProfit
    Unpriced = {m2}
    InitialBalance = 4
    MaxOpened = 2
    MaxPushes = 2
    MaxFaults = 2
    MaxRestarts = 1
INVARIANTS
    AloneCoversOpen
PROPERTIES
    ExposureBounded
    RestsInOrder
    LoopCatchesUp
