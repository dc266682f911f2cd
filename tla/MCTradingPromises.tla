-------------------------- MODULE MCTradingPromises --------------------------
(* What the trading side promises: the portfolio, to hold capital for its  *)
(* orders and positions and for nothing else; the loop, to act on what the *)
(* master pushes.  A behaviour has one of two scenarios from its           *)
(* beginning.  The .cfg gives the bounds that hold for both.               *)
EXTENDS TradingLedger, TLC

CONSTANTS btc, eth, loop, h1

VARIABLE scenario

Both == [pairs |-> {btc, eth}, max |-> 2, stop |-> 5]
OnlyBtc == [pairs |-> {btc}, max |-> 2, stop |-> 5]
OnlyEthTighter == [pairs |-> {eth}, max |-> 2, stop |-> 10]
StopsPushed == {OnlyBtc, OnlyEthTighter}

\* Orders filled in full, buys only, beside the Polymarket module.
Capital == INSTANCE TradingLedger WITH ExecutorMayFail <- TRUE, MaxPushes <- 0

\* Pushes under fair scheduling; no order is refused, and capital does not matter.
Reacts == INSTANCE TradingLedger WITH
    Returns <- {0}, InitialBalance <- 0, SizeDivisor <- 1, OtherAmounts <- {}

MCInit ==
    \/ scenario = "capital" /\ Capital!Init
    \/ scenario = "reacts" /\ Reacts!Init

MCNext ==
    /\ \/ scenario = "capital" /\ Capital!Next
       \/ scenario = "reacts" /\ Reacts!Next
    /\ UNCHANGED scenario

MCSpec ==
    /\ MCInit /\ [][MCNext]_<<vars, scenario>>
    /\ WF_vars(scenario = "reacts" /\ Reacts!LoopStep)
    /\ SF_vars(scenario = "reacts" /\ Reacts!LoopSettingsChanged)
=============================================================================
