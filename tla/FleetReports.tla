------------------------------ MODULE FleetReports ------------------------------
(***************************************************************************)
(* The crypto master (crypto-master/src) asking its workers for what they  *)
(* have earned, while they trade.                                          *)
(*                                                                         *)
(* A worker is its books: the open position, the figures of the portfolio  *)
(* and the trade records.  How a position is opened and closed under the   *)
(* loop and the handlers is TradingWorker's subject; here a trade is one   *)
(* step, its order fills, and it has Quantity units of the only pair.  The *)
(* update of prices is in its own steps, because it awaits the exchange    *)
(* and the table while a handler may close.                                *)
(*                                                                         *)
(* The gRPC server (grpc.rs) and the REST server (rest.rs) have the same   *)
(* handlers.  They only read, so that one request at a time is enough.     *)
(***************************************************************************)
EXTENDS Integers, Sequences, FiniteSets, FiniteSetsExt, SequencesExt

CONSTANTS
    Workers,
    Prices,        \* what an executor may fill an order at
    Fee,
    Quantity,
    Page,          \* the limit that the master asks for
    MaxTrades,     \* bound: the records of each worker
    None

FleetAssumption ==
    /\ IsFiniteSet(Workers) /\ None \notin Workers /\ Prices \subseteq Nat
    /\ Fee \in Nat /\ Quantity \in Nat \ {0} /\ Page \in Nat \ {0} /\ MaxTrades \in [Workers -> Nat]

VARIABLES
    waiting,       \* WORKER_ADDRESSES that are still to be connected
    pool,
    position,      \* of each worker, or None: id, entry price, unrealised result
    portfolio,     \* of each worker: the realised and the unrealised result
    history,       \* of each worker: its trade records, the oldest first
    update,        \* of each worker: where update_position_prices is
    request,       \* what the master is doing, or None
    answer,        \* what it answered last, or None
    seen           \* history: the total results of each worker since the request

worker == <<position, portfolio, history, update>>
vars == <<waiting, pool, position, portfolio, history, update, request, answer, seen>>

Idle == [step |-> "idle"]
Total(w) == portfolio[w].realized + portfolio[w].unrealized

TypeOK ==
    /\ waiting \subseteq Workers /\ pool \subseteq Workers \ waiting
    /\ \A w \in Workers :
        /\ position[w] # None => position[w] \in [id : 1 .. MaxTrades[w], entry : Prices, unrealized : Int]
        /\ portfolio[w] \in [realized : Int, unrealized : Int]
        /\ update[w].step \in {"idle", "row", "total"}
        /\ \A i \in DOMAIN history[w] : history[w][i].price \in Prices \union {0}
    /\ request # None =>
        /\ request.kind \in {"list", "one", "all"}
        /\ request.left \union request.failed \union DOMAIN request.got \subseteq pool
        /\ request.at \in pool \union {None} /\ request.at \notin request.left
    /\ answer # None => DOMAIN answer.workers \subseteq pool

Init ==
    /\ waiting = Workers /\ pool = {}
    /\ position = [w \in Workers |-> None]
    /\ portfolio = [w \in Workers |-> [realized |-> 0, unrealized |-> 0]]
    /\ history = [w \in Workers |-> <<>>]
    /\ update = [w \in Workers |-> Idle]
    /\ request = None /\ answer = None
    /\ seen = [w \in Workers |-> {}]

-----------------------------------------------------------------------------
(* The workers.                                                            *)

\* The total is looked at after every step of a worker, while somebody asks.
Watch ==
    /\ seen' = IF request = None THEN seen
               ELSE [w \in Workers |-> seen[w] \union {portfolio'[w].realized + portfolio'[w].unrealized}]
    /\ UNCHANGED <<waiting, pool, request, answer>>

Record(w, side, price, fill) ==
    /\ Len(history[w]) < MaxTrades[w]
    /\ history' = [history EXCEPT ![w] = Append(@, [side |-> side, price |-> price, fill |-> fill])]

Buy(w, price, fill) ==
    /\ position[w] = None
    /\ Record(w, "buy", price, fill)
    /\ position' = [position EXCEPT ![w] =
            [id |-> Len(history[w]) + 1, entry |-> fill, unrealized |-> 0]]
    /\ UNCHANGED <<portfolio, update>> /\ Watch

Result(w, fill) == (fill - position[w].entry) * Quantity - Fee

\* release_funds: unrealized_pnl is left as it is.
Closed(w, fill) ==
    /\ portfolio' = [portfolio EXCEPT ![w].realized = @ + Result(w, fill)]
    /\ position' = [position EXCEPT ![w] = None]

\* A signal to sell closes the position of the pair, if there is one.
Sell(w, price, fill) ==
    /\ Record(w, "sell", price, fill)
    /\ IF position[w] = None THEN UNCHANGED <<position, portfolio>> ELSE Closed(w, fill)
    /\ UNCHANGED update /\ Watch

\* A market order has no price: stop losses, and positions new settings forbid.
ForceClose(w, fill) ==
    /\ position[w] # None
    /\ Record(w, "sell", 0, fill)
    /\ Closed(w, fill)
    /\ UNCHANGED update /\ Watch

UpdateStarts(w) ==
    /\ update[w] = Idle
    /\ update' = [update EXCEPT ![w] =
            IF position[w] = None THEN [step |-> "total", sum |-> 0]
            ELSE [step |-> "row", id |-> position[w].id, entry |-> position[w].entry]]
    /\ UNCHANGED <<position, portfolio, history>> /\ Watch

\* A price that does not come, or a row that is not there any more, ends the update.
UpdateFails(w) ==
    /\ update[w].step = "row"
    /\ update' = [update EXCEPT ![w] = Idle]
    /\ UNCHANGED <<position, portfolio, history>> /\ Watch

UpdateRow(w, price) ==
    /\ update[w].step = "row"
    /\ position[w] # None /\ position[w].id = update[w].id
    /\ LET pnl == (price - update[w].entry) * Quantity IN
        /\ position' = [position EXCEPT ![w].unrealized = pnl]
        /\ update' = [update EXCEPT ![w] = [step |-> "total", sum |-> pnl]]
    /\ UNCHANGED <<portfolio, history>> /\ Watch

\* Mutant: with no position there is nothing to update.
UpdateTotal_NonZero(w) ==
    /\ update[w].step = "total"
    /\ portfolio' = IF update[w].sum = 0 THEN portfolio
                    ELSE [portfolio EXCEPT ![w].unrealized = update[w].sum]
    /\ update' = [update EXCEPT ![w] = Idle]
    /\ UNCHANGED <<position, history>> /\ Watch

UpdateTotal(w) ==
    /\ update[w].step = "total"
    /\ portfolio' = [portfolio EXCEPT ![w].unrealized = update[w].sum]
    /\ update' = [update EXCEPT ![w] = Idle]
    /\ UNCHANGED <<position, history>> /\ Watch

Trades(w) ==
    \/ \E price, fill \in Prices : Buy(w, price, fill) \/ Sell(w, price, fill)
    \/ \E fill \in Prices : ForceClose(w, fill)

Updates(w) ==
    \/ UpdateStarts(w) \/ UpdateFails(w) \/ UpdateTotal(w)
    \/ \E price \in Prices : UpdateRow(w, price)

-----------------------------------------------------------------------------
(* What the master computes from a worker's history.                       *)

\* get_trade_history: the first page, the latest first; the offset is not used.
Latest(w) == SubSeq(Reverse(history[w]), 1, IF Len(history[w]) < Page THEN Len(history[w]) ELSE Page)

Sells(trades) == SelectSeq(trades, LAMBDA t : t.side = "sell")

Outcomes(trades) ==
    LET pnl(t) == t.fill - t.price - Fee
        sells == Sells(trades)
    IN [winning |-> Cardinality({i \in DOMAIN sells : pnl(sells[i]) > 0}),
        losing |-> Cardinality({i \in DOMAIN sells : pnl(sells[i]) < 0})]

NoneSeen == [cumulative |-> 0, peak |-> 0, drawdown |-> 0]

\* Mutant: the first sell is the first peak.
OneMore_FirstPeak(d, t) ==
    LET cumulative == d.cumulative + (t.fill - t.price) * Quantity - Fee
        peak == IF d = NoneSeen THEN cumulative ELSE Max({d.peak, cumulative})
    IN IF t.side # "sell" THEN d
       ELSE [cumulative |-> cumulative, peak |-> peak,
             drawdown |-> Max({d.drawdown, peak - cumulative})]

OneMore(d, t) ==
    LET cumulative == d.cumulative + (t.fill - t.price) * Quantity - Fee
        peak == Max({d.peak, cumulative})
    IN IF t.side # "sell" THEN d
       ELSE [cumulative |-> cumulative, peak |-> peak,
             drawdown |-> Max({d.drawdown, peak - cumulative})]

\* The loop of compute_max_drawdown over the trades, in the order they are given.
MaxDrawdown(trades) ==
    LET after[n \in 0 .. Len(trades)] ==
            IF n = 0 THEN NoneSeen ELSE OneMore(after[n - 1], trades[n])
    IN after[Len(trades)].drawdown

\* Mutant: the unrealised result is that of the positions, asked for last.
Report_OpenTrades(w, books, trades) ==
    [total |-> books.realized + (IF position[w] = None THEN 0 ELSE position[w].unrealized),
     trades |-> Len(trades), outcomes |-> Outcomes(trades), drawdown |-> MaxDrawdown(trades)]

\* compute_performance; no prediction is ever resolved.
Report(w, books, trades) ==
    [total |-> books.realized + books.unrealized,
     trades |-> Len(trades), outcomes |-> Outcomes(trades), drawdown |-> MaxDrawdown(trades)]

-----------------------------------------------------------------------------
(* The master.                                                             *)

\* A worker that cannot be connected at the start is never tried again.
Discover(w) ==
    /\ w \in waiting
    /\ waiting' = waiting \ {w}
    /\ pool' \in {pool, pool \union {w}}
    /\ UNCHANGED <<worker, request, answer, seen>>

Ask(kind, ids) ==
    /\ waiting = {} /\ request = None
    /\ request' = [kind |-> kind, left |-> ids, at |-> None, call |-> "status",
                   got |-> <<>>, failed |-> {}, books |-> None, trades |-> None]
    /\ answer' = None
    /\ seen' = [w \in Workers |-> {Total(w)}]
    /\ UNCHANGED <<waiting, pool, worker>>

\* for_each calls every worker at once, and they answer in any order.
GetStatus(w) ==
    /\ request # None /\ request.kind = "list" /\ w \in request.left
    /\ request' = [request EXCEPT !.left = @ \ {w},
                                  !.got = [v \in DOMAIN @ \union {w} |->
                                              IF v = w THEN position[w] # None ELSE @[v]]]
    /\ UNCHANGED <<waiting, pool, worker, answer, seen>>

\* Mutant: the worker that is asked stays on the list.
NextWorker_Stays(w) ==
    /\ request # None /\ request.kind # "list" /\ request.at = None /\ w \in request.left
    /\ request' = [request EXCEPT !.at = w, !.call = "status"]
    /\ UNCHANGED <<waiting, pool, worker, answer, seen>>

\* with_worker, for one worker after the other
NextWorker(w) ==
    /\ request # None /\ request.kind # "list" /\ request.at = None /\ w \in request.left
    /\ request' = [request EXCEPT !.left = @ \ {w}, !.at = w, !.call = "status"]
    /\ UNCHANGED <<waiting, pool, worker, answer, seen>>

Calling(call) == request # None /\ request.at # None /\ request.call = call

ReadStatus ==
    /\ Calling("status")
    /\ request' = [request EXCEPT !.call = "portfolio"]
    /\ UNCHANGED <<waiting, pool, worker, answer, seen>>

ReadPortfolio ==
    /\ Calling("portfolio")
    /\ request' = [request EXCEPT !.call = "trades", !.books = portfolio[request.at]]
    /\ UNCHANGED <<waiting, pool, worker, answer, seen>>

ReadTrades ==
    /\ Calling("trades")
    /\ request' = [request EXCEPT !.call = "predictions", !.trades = Latest(request.at)]
    /\ UNCHANGED <<waiting, pool, worker, answer, seen>>

\* Nothing of a worker is kept but its report, or that it failed.
Proceed(got, failed) ==
    request' = [request EXCEPT !.at = None, !.call = "status", !.got = got, !.failed = failed,
                               !.books = None, !.trades = None]

\* The last read is followed by the computation.
ReadPredictions ==
    /\ Calling("predictions")
    /\ LET w == request.at
           got == [v \in DOMAIN request.got \union {w} |->
                     IF v = w THEN Report(w, request.books, request.trades) ELSE request.got[v]]
       IN Proceed(got, request.failed)
    /\ UNCHANGED <<waiting, pool, worker, answer, seen>>

\* Mutant: the first failure ends the request.
CallFails_All ==
    /\ request # None /\ request.at # None
    /\ request' = [request EXCEPT !.left = {}, !.at = None, !.failed = @ \union {request.at}]
    /\ UNCHANGED <<waiting, pool, worker, answer, seen>>

\* Any of the four calls: the worker is left out.
CallFails ==
    /\ request # None /\ request.at # None
    /\ Proceed(request.got, request.failed \union {request.at})
    /\ UNCHANGED <<waiting, pool, worker, answer, seen>>

StatusFails(w) ==
    /\ request # None /\ request.kind = "list" /\ w \in request.left
    /\ request' = [request EXCEPT !.left = @ \ {w}, !.failed = @ \union {w}]
    /\ UNCHANGED <<waiting, pool, worker, answer, seen>>

\* Mutant: a worker must have earned something to be the best.
Best_Positive(reports) ==
    {w \in DOMAIN reports : reports[w].total > 0
                            /\ \A v \in DOMAIN reports : reports[v].total <= reports[w].total}

\* max_by_key; which one of equals depends on the order of the map.
Best(reports) ==
    {w \in DOMAIN reports : \A v \in DOMAIN reports : reports[v].total <= reports[w].total}

\* "failed" is not part of the answer.
Answer ==
    /\ request # None /\ request.left = {} /\ request.at = None
    /\ \E best \in CASE request.kind # "all" -> {None}
                     [] Best(request.got) = {} -> {None}
                     [] OTHER -> Best(request.got) :
          answer' = [kind |-> request.kind, workers |-> request.got, failed |-> request.failed,
                     best |-> best]
    /\ request' = None
    /\ UNCHANGED <<waiting, pool, worker, seen>>

Handlers ==
    \/ Ask("list", pool) \/ Ask("all", pool) \/ \E w \in pool : Ask("one", {w})
    \/ ReadStatus \/ ReadPortfolio \/ ReadTrades \/ ReadPredictions \/ CallFails
    \/ Answer
    \/ \E w \in Workers : GetStatus(w) \/ StatusFails(w) \/ NextWorker(w)

Next ==
    \/ Handlers
    \/ \E w \in Workers : Discover(w) \/ Trades(w) \/ Updates(w)

Spec == Init /\ [][Next]_vars

\* The loop goes on updating, and the exchange does not refuse every price.
FairSpec ==
    /\ Spec
    /\ \A w \in Workers :
        /\ WF_vars(UpdateStarts(w)) /\ WF_vars(UpdateFails(w)) /\ WF_vars(UpdateTotal(w))
        /\ SF_vars(\E price \in Prices : UpdateRow(w, price))

-----------------------------------------------------------------------------
(* Properties.                                                             *)

(* A worker that does not answer costs its own report and no other         *)
(* (get_aggregate_performance and list_workers skip what fails).           *)
OnlyFailuresAreMissing ==
    answer # None /\ answer.kind # "one" => DOMAIN answer.workers = pool \ answer.failed

(* The total result that is reported is one the worker really had at some  *)
(* moment of the request, although the report is put together from four    *)
(* calls between which it trades.                                          *)
TotalWasTheirs ==
    answer # None /\ answer.kind # "list" =>
        \A w \in DOMAIN answer.workers : answer.workers[w].total \in seen[w]

(* Whenever somebody reports, there is a best worker, and nobody in the    *)
(* report has earned more, losses included.                                *)
BestIsNamed ==
    answer # None /\ answer.kind = "all" /\ answer.workers # <<>> =>
        /\ answer.best \in DOMAIN answer.workers
        /\ \A w \in DOMAIN answer.workers :
              answer.workers[w].total <= answer.workers[answer.best].total

(* A position that is closed while its price is updated leaves its         *)
(* unrealised result in the portfolio, and release_funds does not take it  *)
(* out: once the trading stops, the loop does.                             *)
UnrealizedSettles ==
    \A w \in Workers :
        <>[](update[w].step = "idle" =>
                portfolio[w].unrealized = IF position[w] = None THEN 0 ELSE position[w].unrealized)

\* What the record has cost.
Costs(w) ==
    [i \in DOMAIN history[w] |->
        IF history[w][i].side # "sell" THEN 0
        ELSE Fee - (history[w][i].fill - history[w][i].price) * Quantity]

\* The most that a run of consecutive records between two of them has cost.
WorstRun(w, first, last) ==
    Max({0} \union {MapThenSumSet(LAMBDA k : Costs(w)[k], i .. j) : i, j \in first .. last})

(* The drawdown that is reported is the worst that any run of consecutive  *)
(* sells has cost, of the records that were the latest when they were read,*)
(* whatever was recorded since: although get_trade_history puts the latest *)
(* first, and compute_max_drawdown takes them as they come.                *)
DrawdownIsWorstRun ==
    answer # None /\ answer.kind # "list" =>
        \A w \in DOMAIN answer.workers : \E last \in 0 .. Len(history[w]) :
            LET first == IF last <= Page THEN 1 ELSE last - Page + 1
            IN /\ answer.workers[w].trades = last - first + 1
               /\ answer.workers[w].drawdown = WorstRun(w, first, last)
=============================================================================
