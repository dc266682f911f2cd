\* Two overlapping calls, a failing statement, a crash, and receivers that go on.
SPECIFICATION FairSpec
CONSTANTS
    w1 = w1
    w2 = w2
    trading = trading
    polymarket = polymarket
    Values = {default, new, newer, bad}
    Valid = {default, new, newer}
    Default = default
    NoRow = none
    Writers = {w1, w2}
    Receivers = {trading, polymarket}
    MaxPushes = 3
    MaxFaults = 1
    MaxRestarts = 1
INVARIANTS
    TypeOK
    TableNotLeftEmpty
    OnlyOverlapsDiverge
    RefusedOnlyOnOverlap
PROPERTIES
    ReceiversCatchUp
CHECK_DEADLOCK FALSE
