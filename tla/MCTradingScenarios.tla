------------------------- MODULE MCTradingScenarios -------------------------
(* The trading side under four kinds of load, one of which a behaviour has *)
(* from its beginning.  The .cfg gives the bounds that hold for all; each  *)
(* scenario narrows them, so that none pays for what another one needs.    *)
EXTENDS TradingLedger, TLC

CONSTANTS btc, eth, loop, h1, h2

VARIABLE scenario

Both == [pairs |-> {btc, eth}, max |-> 2, stop |-> 5]
OnlyBtc == [pairs |-> {btc}, max |-> 2, stop |-> 5]
OnlyEth == [pairs |-> {eth}, max |-> 2, stop |-> 5]
One == [pairs |-> {btc, eth}, max |-> 1, stop |-> 10]
AllPushed == {OnlyBtc, OnlyEth, One}

\* A Sell whose fee exceeds what the position brings in, and one that pays.
LossOrGain == {-1, 3}

\* Two concurrent handlers and the loop; no position has a value.
Pushes == INSTANCE TradingLedger WITH
    SettingsPushes <- {OnlyBtc, One}, Sides <- {"buy"}, Fillings <- {"filled"},
    ExecutorMayFail <- FALSE, Returns <- {0}, SizeDivisor <- 2 * InitialBalance,
    MaxFaults <- 0, MaxRestarts <- 0

\* A crash or a shutdown at any point of a push and a tick.
Restarts == INSTANCE TradingLedger WITH
    SettingsPushes <- {OnlyEth}, Sides <- {"buy"}, Fillings <- {"filled"},
    Returns <- {3}, MaxOpened <- 1, MaxPushes <- 1, MaxFaults <- 0

\* The loop alone: orders of either side and of every outcome.
Trades == INSTANCE TradingLedger WITH
    MaxPushes <- 0, MaxFaults <- 0, MaxRestarts <- 0

\* The loop alone: bought positions, failing statements.
Faults == INSTANCE TradingLedger WITH
    Sides <- {"buy"}, Fillings <- {"filled"}, Returns <- {0}, MaxPushes <- 0, MaxRestarts <- 0

MCInit == Init /\ scenario \in {"pushes", "restarts", "orders", "faults"}

MCNext ==
    /\ \/ scenario = "pushes" /\ Pushes!Next
       \/ scenario = "restarts" /\ Restarts!Next
       \/ scenario = "orders" /\ Trades!Next
       \/ scenario = "faults" /\ Faults!Next
    /\ UNCHANGED scenario

MCSpec == MCInit /\ [][MCNext]_<<vars, scenario>>

\* Two handlers run the same code and no property tells them apart.
TwoHandlers == Permutations({h1, h2})
=============================================================================
