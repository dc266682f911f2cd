------------------------------ MODULE CryptoParts ------------------------------
(***************************************************************************)
(* What a crypto worker sees (MarketFeed), how it makes up its mind        *)
(* (Decisions) and what the master reads of it (FleetReports), side by     *)
(* side.  They share no state.                                             *)
(***************************************************************************)

CONSTANTS
    Pairs, Subscribed, Window, Studies, Needs, MaxTickers, MaxCandles,
    Dollar, Quotes, Confidences, Liquidities, RsiValues, Threshold, MinLiquidity,
    Workers, Prices, Fee, Quantity, Page, MaxTrades,
    None

VARIABLES
    feed, shutdown, ticked, closed, first, tickers, candles, loop, copied, history, known, due,
    stage, question, book, indicators, reply, rec, signal,
    waiting, pool, position, portfolio, records, update, request, answer, totals

Feed == INSTANCE MarketFeed WITH Indicators <- Studies, seen <- copied
Decide == INSTANCE Decisions WITH answer <- reply
Fleet == INSTANCE FleetReports WITH history <- records, seen <- totals

\* MarketFeed: the loop works with consecutive candles and with indicators that are
\* not older than the ticker they judge; no pair is lost from a snapshot, no price
\* goes back, and an indicator that was there is not missing again.
FeedSound == Feed!FeedSound

\* Decisions: no order comes of a provider that does not answer, and the limit prices
\* are on the far side of the order book.
OrdersJustified == Decide!OrdersJustified

\* FleetReports: a worker that does not answer costs its own report and no other,
\* nobody in the report has earned more than the best, the total that is reported was
\* the worker's at some moment, and the drawdown is the worst that a run of sells has
\* cost.
ReportsSound ==
    /\ Fleet!TypeOK
    /\ Fleet!OnlyFailuresAreMissing
    /\ Fleet!BestIsNamed
    /\ Fleet!TotalWasTheirs
    /\ Fleet!DrawdownIsWorstRun
=============================================================================
