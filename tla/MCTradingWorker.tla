--------------------------- MODULE MCTradingWorker ---------------------------
(* Small instances of TradingLedger in which the code breaks its promises. *)
EXTENDS TradingLedger, TLC

CONSTANTS btc, eth, loop, h1

\* Settings as the master may push them.
Both == [pairs |-> {btc, eth}, max |-> 2, stop |-> 5]
PairsPushed == {[pairs |-> {btc}, max |-> 2, stop |-> 5], [pairs |-> {eth}, max |-> 2, stop |-> 5]}
=============================================================================
