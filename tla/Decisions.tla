------------------------------- MODULE Decisions -------------------------------
(***************************************************************************)
(* How a crypto worker makes up its mind: the decision engines             *)
(* (crypto/src/llm.rs) and the strategies that turn an answer into a       *)
(* signal (crypto/src/polymarket/strategy.rs, crypto/src/trading/          *)
(* strategy.rs), with the order book of the live Polymarket executor.      *)
(*                                                                         *)
(* Prices and confidences are counted in units of 1/Dollar, Dollar being   *)
(* 1.00; Cents(5) is 0.05.  One question at a time: a decision engine      *)
(* keeps nothing from one question to the next.                            *)
(***************************************************************************)
EXTENDS Integers

CONSTANTS
    Dollar,        \* units of a price of 1.00
    Quotes,        \* prices at which the market quotes bids and asks
    Confidences,   \* what the model may answer
    Liquidities,   \* liquidity of an order book (the live one always says 0)
    RsiValues,     \* relative strength indices, 0 .. 100
    Threshold,     \* confidence_threshold
    MinLiquidity   \* min_liquidity_threshold

Absent == -1

PriceAssumption ==
    /\ Dollar \in Nat /\ Dollar % 20 = 0
    /\ Quotes \subseteq {q \in 1 .. Dollar - 1 : q % 2 = 0}
    /\ Confidences \subseteq Int \ {Absent}   \* not clamped: a model may be surer than sure
    /\ Liquidities \subseteq Nat
    /\ RsiValues \subseteq 0 .. 100
    /\ Threshold \in Int /\ MinLiquidity \in Int

Cents(n) == (n * Dollar) \div 100

TradeWords == {"Buy", "Sell", "Hold"}
PredictionWords == {"BuyYes", "BuyNo", "Sell", "Hold"}
Words == TradeWords \cup PredictionWords

\* What comes back from the provider: nothing, something that is no JSON, or an
\* object in which the action may be another word and the confidence missing.
Answers ==
    [kind : {"lost", "garbage"}, action : {"Hold"}, confidence : {Absent}]
    \cup [kind : {"json"}, action : Words \cup {"other"}, confidence : Confidences \cup {Absent}]

OrderBook == [bid : Int, ask : Int, mid : Int, liquidity : Int]
Indicators == [rsi : RsiValues \cup {Absent}, band : {Absent, 0, 1}]
NoBook == [bid |-> 0, ask |-> 0, mid |-> 0, liquidity |-> 0]
NoIndicators == [rsi |-> Absent, band |-> Absent]

NoAnswer == [kind |-> "lost", action |-> "Hold", confidence |-> Absent]
HoldBack == [action |-> "Hold", confidence |-> Dollar \div 2]
NoSignal == [side |-> "none", action |-> "none", limit |-> 0, edge |-> 0]

VARIABLES
    stage,       \* "idle", "ask", "parse", "decide", "done"
    question,    \* "trade" or "prediction"
    book,        \* the order book of the market asked about
    indicators,  \* the indicators of the pair asked about
    answer,      \* what the provider answered
    rec,         \* the recommendation
    signal       \* the signal handed to the service

vars == <<stage, question, book, indicators, answer, rec, signal>>

TypeOK ==
    /\ stage \in {"idle", "ask", "parse", "decide", "done"}
    /\ question \in {"trade", "prediction"}
    /\ book \in OrderBook
    /\ indicators \in Indicators
    /\ answer \in Answers
    /\ rec \in [action : Words, confidence : Int]
    /\ signal \in [side : {"yes", "no", "pair", "none"}, action : {"buy", "sell", "none"},
                   limit : 0 .. Dollar, edge : Int]

-----------------------------------------------------------------------------
(* The order book: get_market_prices and extract_best_price.               *)

\* Half a dollar unless both sides are quoted.
Mid(bid, ask) == IF bid > 0 /\ ask > 0 THEN (bid + ask) \div 2 ELSE Dollar \div 2

\* A side without orders counts as 0.
Books ==
    {[bid |-> bid, ask |-> ask, mid |-> Mid(bid, ask), liquidity |-> liquidity] :
        bid \in Quotes \cup {0}, ask \in Quotes \cup {0}, liquidity \in Liquidities}

\* The market matches orders that cross.
Uncrossed(b) == b.bid > 0 /\ b.ask > 0 => b.bid < b.ask

YesPrice(b) == b.mid
NoPrice(b) == Dollar - b.mid

-----------------------------------------------------------------------------
(* The decision engines.                                                   *)

\* Mutant: a missing action is a purchase.
Parse_DefaultBuy(a) ==
    [action |-> IF a.action \in (IF question = "trade" THEN TradeWords ELSE PredictionWords)
                THEN a.action
                ELSE IF question = "trade" THEN "Buy" ELSE "BuyYes",
     confidence |-> IF a.confidence = Absent THEN Dollar \div 2 ELSE a.confidence]

\* parse_trade_response and parse_prediction_response: a word that is not an
\* action means Hold, a missing confidence one half.
Parse(a) ==
    [action |-> IF a.action \in (IF question = "trade" THEN TradeWords ELSE PredictionWords)
                THEN a.action ELSE "Hold",
     confidence |-> IF a.confidence = Absent THEN Dollar \div 2 ELSE a.confidence]

\* FallbackDecisionEngine: a call that fails or an answer that cannot be parsed
\* gets the recommendation of HeuristicFallback, which is to hold.
Recommend == IF answer.kind = "json" THEN Parse(answer) ELSE HoldBack

AskPrediction ==
    /\ stage \in {"idle", "done"}
    /\ stage' = "ask"
    /\ question' = "prediction"
    /\ \E b \in Books : Uncrossed(b) /\ book' = b
    /\ indicators' = NoIndicators
    /\ answer' = NoAnswer
    /\ signal' = NoSignal
    /\ UNCHANGED rec

\* Indicators for which there are too few candles are Absent.
AskTrade ==
    /\ stage \in {"idle", "done"}
    /\ stage' = "ask"
    /\ question' = "trade"
    /\ indicators' \in Indicators
    /\ book' = NoBook
    /\ answer' = NoAnswer
    /\ signal' = NoSignal
    /\ UNCHANGED rec

ModelAnswers ==
    /\ stage = "ask"
    /\ stage' = "parse"
    /\ answer' \in Answers
    /\ UNCHANGED <<question, book, indicators, rec, signal>>

ParseAnswer ==
    /\ stage = "parse"
    /\ stage' = "decide"
    /\ rec' = Recommend
    /\ UNCHANGED <<question, book, indicators, answer, signal>>

-----------------------------------------------------------------------------
(* The strategies.                                                         *)

\* calculate_edge: the confidence less the price of the side to buy; a Sell is
\* about YES.
Edge ==
    rec.confidence - (IF rec.action = "BuyNo" THEN NoPrice(book) ELSE YesPrice(book))

Abs(x) == IF x < 0 THEN -x ELSE x

PassesPredictionHeuristics ==
    /\ rec.confidence >= Threshold
    /\ Abs(Edge) >= Cents(5)
    /\ book.liquidity >= MinLiquidity
    /\ Cents(5) <= YesPrice(book) /\ YesPrice(book) <= Cents(95)

\* Mutant: NO is bought at the price at which it sells.
PredictionSignal_NoBid ==
    CASE rec.action = "BuyYes" ->
            [side |-> "yes", action |-> "buy", limit |-> book.ask, edge |-> Edge]
      [] rec.action = "BuyNo" ->
            [side |-> "no", action |-> "buy", limit |-> Dollar - book.ask, edge |-> Edge]
      [] rec.action = "Sell" ->
            [side |-> "yes", action |-> "sell", limit |-> book.bid, edge |-> Edge]

\* Buy at the ask of the side, sell YES at its bid; NO is quoted as the complement
\* of YES.
PredictionSignal ==
    CASE rec.action = "BuyYes" ->
            [side |-> "yes", action |-> "buy", limit |-> book.ask, edge |-> Edge]
      [] rec.action = "BuyNo" ->
            [side |-> "no", action |-> "buy", limit |-> Dollar - book.bid, edge |-> Edge]
      [] rec.action = "Sell" ->
            [side |-> "yes", action |-> "sell", limit |-> book.bid, edge |-> Edge]

DecidePrediction ==
    /\ stage = "decide"
    /\ question = "prediction"
    /\ stage' = "done"
    /\ signal' = IF rec.action # "Hold" /\ PassesPredictionHeuristics
                 THEN PredictionSignal ELSE NoSignal
    /\ UNCHANGED <<question, book, indicators, answer, rec>>

\* An indicator that is Absent filters nothing.
PassesTradeHeuristics ==
    /\ rec.confidence >= Threshold
    /\ indicators.rsi # Absent =>
          /\ rec.action = "Buy" => indicators.rsi <= 75
          /\ rec.action = "Sell" => indicators.rsi >= 25
    /\ indicators.band # 0

DecideTrade ==
    /\ stage = "decide"
    /\ question = "trade"
    /\ stage' = "done"
    /\ signal' = IF rec.action # "Hold" /\ PassesTradeHeuristics
                 THEN [NoSignal EXCEPT !.side = "pair",
                          !.action = IF rec.action = "Buy" THEN "buy" ELSE "sell"]
                 ELSE NoSignal
    /\ UNCHANGED <<question, book, indicators, answer, rec>>

-----------------------------------------------------------------------------

Init ==
    /\ stage = "idle"
    /\ question = "trade"
    /\ book = NoBook
    /\ indicators = NoIndicators
    /\ answer = NoAnswer
    /\ rec = HoldBack
    /\ signal = NoSignal

Next ==
    \/ AskPrediction
    \/ AskTrade
    \/ ModelAnswers
    \/ ParseAnswer
    \/ DecidePrediction
    \/ DecideTrade

Spec == Init /\ [][Next]_vars

-----------------------------------------------------------------------------
(* What must hold.                                                         *)

\* HeuristicFallback holds: when the provider does not answer, or answers without
\* an action that is known, no order comes of it.
NoOrderWithoutAnswer ==
    signal # NoSignal => answer.kind = "json" /\ answer.action \in Words \ {"Hold"}

\* The limit prices are the far side of the book: with both sides quoted, an order
\* pays no less than the price the model was shown, and is worth something.
OrdersCrossTheBook ==
    (signal # NoSignal /\ question = "prediction" /\ book.bid > 0 /\ book.ask > 0) =>
        /\ signal.limit > 0
        /\ signal.action = "sell" => signal.limit < YesPrice(book)
        /\ signal.action = "buy" =>
              signal.limit > (IF signal.side = "no" THEN NoPrice(book) ELSE YesPrice(book))

\* What becomes an order has an answer of the model behind it and a price in the market.
OrdersJustified == TypeOK /\ NoOrderWithoutAnswer /\ OrdersCrossTheBook
=============================================================================
