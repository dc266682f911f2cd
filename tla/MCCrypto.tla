------------------------------- MODULE MCCrypto -------------------------------
(* What a crypto worker sees (MarketFeed), how it makes up its mind        *)
(* (Decisions) and what the master reads of it (FleetReports), on small    *)
(* instances.  The parts share no state: a behaviour has one of them, and  *)
(* the others stay as they began.                                          *)
EXTENDS CryptoParts, Integers, Sequences, TLC

VARIABLE part

\* One indicator needs half a window, the other a full one.
HalfAndFull == "rsi" :> 1 @@ "macd" :> 2

\* Surenesses on both sides of the threshold and of the prices, and beyond 0 and 1.
AnyConfidence == {-8, 8, 18, 24, 30, 40, 60}

\* Of two workers one trades.
OneTrades == "w1" :> 3 @@ "w2" :> 0

ASSUME CryptoAssumption ==
    Feed!FeedAssumption /\ Decide!PriceAssumption /\ Fleet!FleetAssumption

market == <<feed, shutdown, ticked, closed, first, tickers, candles, loop, copied, history, known, due>>
decision == <<stage, question, book, indicators, reply, rec, signal>>
fleet == <<waiting, pool, position, portfolio, records, update, request, answer, totals>>
vars == <<part, market, decision, fleet>>

Init ==
    /\ part \in {"feed", "decide", "pair", "single", "updated"}
    /\ Feed!Init /\ Decide!Init /\ Fleet!Init

\* The other worker is not there when the master starts.
Alone == Fleet!Discover("w1") \/ (Fleet!Discover("w2") /\ pool' = pool)

\* Two trades, beside the updates.
TwoTrades == Len(records["w1"]) < 2 /\ Fleet!Trades("w1")

Next ==
    /\ UNCHANGED part
    /\ \/ part = "feed" /\ Feed!Next /\ UNCHANGED <<decision, fleet>>
       \/ part = "decide" /\ Decide!Next /\ UNCHANGED <<market, fleet>>
       \/ /\ \/ /\ part = "pair"
                /\ \/ Fleet!Handlers \/ \E w \in Workers : Fleet!Discover(w)
                   \/ Fleet!Updates("w1") \/ TwoTrades
             \/ part = "single" /\ (Fleet!Handlers \/ Alone \/ Fleet!Trades("w1"))
             \/ part = "updated" /\ (Fleet!Handlers \/ Alone \/ Fleet!Updates("w1") \/ TwoTrades)
          /\ UNCHANGED <<market, decision>>

\* The fairness of FleetReports.
Spec ==
    /\ Init /\ [][Next]_vars
    /\ WF_fleet(part = "updated" /\ Fleet!UpdateStarts("w1"))
    /\ WF_fleet(part = "updated" /\ Fleet!UpdateFails("w1"))
    /\ WF_fleet(part = "updated" /\ Fleet!UpdateTotal("w1"))
    /\ SF_fleet(part = "updated" /\ \E price \in Prices : Fleet!UpdateRow("w1", price))

\* FleetReports: the unrealised result of a closed position is taken out again.
UnrealizedSettles ==
    <>[](part = "updated" /\ update["w1"].step = "idle" =>
            portfolio["w1"].unrealized =
                IF position["w1"] = None THEN 0 ELSE position["w1"].unrealized)
=============================================================================
