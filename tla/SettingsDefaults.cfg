\* A crash between the delete and the insert.
SPECIFICATION Spec
CONSTANTS
    w1 = w1
    w2 = w2
    trading = trading
    polymarket = polymarket
    Values = {default, new, newer, bad}
    Valid = {default, new, newer}
    Default = default
    NoRow = none
    Writers = {w1}
    Receivers = {trading, polymarket}
    MaxPushes = 3
    MaxFaults = 1
    MaxRestarts = 1
INVARIANTS
    DefaultsCreatedOnce
CHECK_DEADLOCK FALSE
