------------------------------ MODULE MarketFeed ------------------------------
(***************************************************************************)
(* The market feed of a crypto worker (crypto/src/trading/market_data.rs), *)
(* the exchange on the other side of its WebSocket, and the trading loop's *)
(* reads of what the feed publishes (crypto/src/main.rs).  The feed is a   *)
(* task of its own: it may deliver between any two reads of the loop.      *)
(*                                                                         *)
(* The tickers and the closed candles of a pair are numbered as the        *)
(* exchange makes them; a ticker stands for its number, and so does a      *)
(* candle.                                                                 *)
(***************************************************************************)
EXTENDS Integers, Sequences, SequencesExt

CONSTANTS
    Pairs,        \* pairs the exchange quotes
    Subscribed,   \* the pairs allowed at start-up
    Window,       \* candles kept of a pair (200)
    Indicators,   \* rsi, macd, bollinger, sma_20, ema_12, ema_26
    Needs,        \* the candles each of them needs (15, 35, 20, 20, 12, 26)
    MaxTickers,   \* bound: tickers of a pair
    MaxCandles    \* bound: closed candles of a pair

FeedAssumption ==
    /\ Subscribed \subseteq Pairs
    /\ Window \in Nat \ {0}
    /\ Needs \in [Indicators -> 1 .. Window]
    /\ MaxTickers \in Nat
    /\ MaxCandles \in Nat

VARIABLES
    feed,       \* run_feed: "connecting", "up", "ended"
    shutdown,   \* the shutdown token
    ticked,     \* tickers the exchange has made of each pair
    closed,     \* candles it has closed of each pair
    first,      \* the number of the first candle delivered (0: none yet)
    tickers,    \* ticker_rx: the last ticker of each pair (0: none)
    candles,    \* candle_rx: the candles of each pair
    loop,       \* "idle", "tickers", "ready": what the trading loop has read
    seen,       \* the loop's copy of the tickers
    history,    \* the loop's copy of the candles
    known,      \* the indicators of each pair at the last round, the others None
    due         \* candles there were when the loop read the tickers

exchange == <<ticked, closed>>
published == <<first, tickers, candles>>
reader == <<loop, seen, history, known, due>>
vars == <<feed, shutdown, exchange, published, reader>>

Nothing == [p \in Pairs |-> 0]
NoCandles == [p \in Pairs |-> <<>>]

TypeOK ==
    /\ feed \in {"connecting", "up", "ended"}
    /\ shutdown \in BOOLEAN
    /\ ticked \in [Pairs -> 0 .. MaxTickers]
    /\ closed \in [Pairs -> 0 .. MaxCandles]
    /\ first \in [Pairs -> 0 .. MaxCandles]
    /\ tickers \in [Pairs -> 0 .. MaxTickers]
    /\ candles \in [Pairs -> Seq(1 .. MaxCandles)]
    /\ loop \in {"idle", "tickers", "ready"}
    /\ seen \in [Pairs -> 0 .. MaxTickers]
    /\ history \in [Pairs -> Seq(1 .. MaxCandles)]
    /\ known \in [Pairs -> SUBSET Indicators]
    /\ due \in [Pairs -> 0 .. MaxCandles]

-----------------------------------------------------------------------------
(* The feed.                                                               *)

\* connect_async, or the error that ends the task at once.
Connect ==
    /\ feed = "connecting"
    /\ feed' \in {"up", "ended"}
    /\ UNCHANGED <<shutdown, exchange, published, reader>>

\* Delivered only to a feed that is up and has asked for the pair.
Delivered(p) == feed = "up" /\ p \in Subscribed

\* Mutant: the snapshot is the one ticker that has come in.
Ticker_Alone(p) ==
    /\ ticked[p] < MaxTickers
    /\ ticked' = [ticked EXCEPT ![p] = @ + 1]
    /\ tickers' = IF Delivered(p) THEN [Nothing EXCEPT ![p] = ticked'[p]] ELSE tickers
    /\ UNCHANGED <<feed, shutdown, closed, first, candles, reader>>

\* "24hrTicker": the pair's entry is replaced and the whole snapshot published.
Ticker(p) ==
    /\ ticked[p] < MaxTickers
    /\ ticked' = [ticked EXCEPT ![p] = @ + 1]
    /\ tickers' = IF Delivered(p) THEN [tickers EXCEPT ![p] = ticked'[p]] ELSE tickers
    /\ UNCHANGED <<feed, shutdown, closed, first, candles, reader>>

\* Mutant: one candle too many is drained.
Rolling_OffByOne(s) == IF Len(s) > Window THEN SubSeq(s, Len(s) - Window + 2, Len(s)) ELSE s

\* Mutant: a full window is begun again.
Rolling_Restart(s) == IF Len(s) > Window THEN <<s[Len(s)]>> ELSE s

\* The last Window candles.
Rolling(s) == IF Len(s) > Window THEN SubSeq(s, Len(s) - Window + 1, Len(s)) ELSE s

\* "kline": a candle that is not closed is passed over, the others go to the end
\* of the rolling window.
Kline(p) ==
    /\ closed[p] < MaxCandles
    /\ closed' = [closed EXCEPT ![p] = @ + 1]
    /\ IF Delivered(p)
       THEN /\ candles' = [candles EXCEPT ![p] = Rolling(Append(@, closed'[p]))]
            /\ first' = [first EXCEPT ![p] = IF @ = 0 THEN closed'[p] ELSE @]
       ELSE UNCHANGED <<candles, first>>
    /\ UNCHANGED <<feed, shutdown, ticked, tickers, reader>>

\* The stream ends, the server closes it or a read fails: the task is over.
StreamEnds ==
    /\ feed = "up"
    /\ feed' = "ended"
    /\ UNCHANGED <<shutdown, exchange, published, reader>>

\* main() sends true after ctrl-c.
SignalShutdown ==
    /\ ~shutdown
    /\ shutdown' = TRUE
    /\ UNCHANGED <<feed, exchange, published, reader>>

FeedShutsDown ==
    /\ shutdown
    /\ feed = "up"
    /\ feed' = "ended"
    /\ UNCHANGED <<shutdown, exchange, published, reader>>

-----------------------------------------------------------------------------
(* The trading loop, each time its timer wakes it.                         *)

ReadTickers ==
    /\ loop = "idle"
    /\ loop' = "tickers"
    /\ seen' = tickers
    /\ due' = [p \in Pairs |-> IF candles[p] = <<>> THEN 0 ELSE Last(candles[p])]
    /\ UNCHANGED <<feed, shutdown, exchange, published, history, known>>

\* Mutant: the loop goes on with the candles of its last round.
ReadCandles_Cached ==
    /\ loop = "tickers"
    /\ loop' = "ready"
    /\ UNCHANGED <<feed, shutdown, exchange, published, seen, history, known, due>>

ReadCandles ==
    /\ loop = "tickers"
    /\ loop' = "ready"
    /\ history' = candles
    /\ UNCHANGED <<feed, shutdown, exchange, published, seen, known, due>>

\* compute_indicators: each from enough candles, or None.
Known(h) == {i \in Indicators : Len(h) >= Needs[i]}

\* Every pair of the snapshot is ticked, with the indicators of its candles.
TickAll ==
    /\ loop = "ready"
    /\ loop' = "idle"
    /\ known' = [p \in Pairs |-> IF seen[p] # 0 THEN Known(history[p]) ELSE known[p]]
    /\ UNCHANGED <<feed, shutdown, exchange, published, seen, history, due>>

-----------------------------------------------------------------------------

Init ==
    /\ feed = "connecting"
    /\ shutdown = FALSE
    /\ ticked = Nothing
    /\ closed = Nothing
    /\ first = Nothing
    /\ tickers = Nothing
    /\ candles = NoCandles
    /\ loop = "idle"
    /\ seen = Nothing
    /\ history = NoCandles
    /\ known = [p \in Pairs |-> {}]
    /\ due = Nothing

Next ==
    \/ Connect
    \/ \E p \in Pairs : Ticker(p) \/ Kline(p)
    \/ StreamEnds
    \/ SignalShutdown
    \/ FeedShutsDown
    \/ ReadTickers
    \/ ReadCandles
    \/ TickAll

Spec == Init /\ [][Next]_vars

-----------------------------------------------------------------------------
(* What must hold.                                                         *)

Shorter(m, n) == IF m <= n THEN m ELSE n

\* compute_indicators takes the slice for the candles of consecutive intervals:
\* what the loop holds of a pair is a gapless run, in order, of candles the feed
\* was given, and as many as there are, up to the window.
HistoryIsGapless ==
    \A p \in Pairs :
        LET h == history[p]
        IN  h # <<>> =>
              /\ \A i \in 1 .. Len(h) - 1 : h[i + 1] = h[i] + 1
              /\ Len(h) = Shorter(Window, Last(h) - first[p] + 1)

\* The indicators of a tick are never older than its ticker: the candles the loop
\* works with include every one published when it took the ticker.
CandlesNotOlder ==
    loop = "ready" =>
        \A p \in Pairs : due[p] > 0 => history[p] # <<>> /\ Last(history[p]) >= due[p]

\* No pair is lost from the snapshot, and no price goes back in time.
SnapshotsAdvance == [][\A p \in Pairs : tickers'[p] >= tickers[p]]_vars

\* An indicator that a pair once had is not None again: the heuristics that filter
\* by it, which let everything pass without it, stay in force.
IndicatorsStay == [][\A p \in Pairs : known[p] \subseteq known'[p]]_vars

\* The loop works with consecutive candles and with indicators that are not older than
\* the ticker they judge; no pair is lost from a snapshot, no price goes back, and an
\* indicator that was there is not missing again.
FeedSound == [](TypeOK /\ HistoryIsGapless /\ CandlesNotOlder) /\ SnapshotsAdvance /\ IndicatorsStay
=============================================================================
