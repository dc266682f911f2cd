--------------------------- MODULE PolymarketWorker ---------------------------
(***************************************************************************)
(* The prediction-market side of a crypto worker: the Polymarket loop of   *)
(* crypto/src/main.rs, the PolymarketService it drives                     *)
(* (crypto/src/polymarket/service.rs) and the UpdateSettings handlers,     *)
(* which run the same re-evaluation in tasks of their own.                 *)
(*                                                                         *)
(* An actor is the loop or one handler; every await on the database, the   *)
(* executor or the portfolio lock is a step boundary.  Of a row only the   *)
(* market, the side and allocated_capital (which is avg_price * shares)    *)
(* are kept, of the settings only max_prediction_exposure.                 *)
(***************************************************************************)
EXTENDS Portfolio, FiniteSets, Totals

CONSTANTS
    Markets,          \* active prediction markets
    Sides,            \* "yes", "no"
    Loop,             \* the task of the Polymarket loop
    Handlers,         \* concurrent UpdateSettings calls
    InitialLimit,     \* max_prediction_exposure when the worker first starts
    LimitPushes,      \* the limits the master may push
    Actions,          \* what the strategy may recommend, besides Hold
    Costs,            \* shares * limit_price of a signal
    BetterFills,      \* may the market fill less, or at a better price?
    Statuses,         \* what an accepted order may report
    ExecutorMayFail,  \* may execute() return an error?
    Profits,          \* (avg_price - row's avg_price) * filled_shares of a sale
    Unpriced,         \* markets whose order book may be out of reach
    InitialBalance,
    MaxOpened,        \* bound: rows ever inserted
    MaxPushes,        \* bound: settings pushes
    MaxFaults,        \* bound: failing database statements
    MaxRestarts       \* bound: crashes and restarts

Ids == 1 .. MaxOpened

Actors == {Loop} \cup Handlers

ASSUME MarketAssumption ==
    /\ Markets # {}
    /\ Unpriced \subseteq Markets
    /\ Sides \subseteq {"yes", "no"}
    /\ "yes" \in Sides
    /\ Actions \subseteq {"buy", "sell"}
    /\ Statuses \subseteq {"filled", "placed", "cancelled", "failed"}

ASSUME MoneyAssumption ==
    /\ InitialBalance \in Nat
    /\ InitialLimit \in Int
    /\ LimitPushes \subseteq Int
    /\ Costs \subseteq Nat
    /\ Profits \subseteq Int

ASSUME BoundAssumption ==
    /\ MaxOpened \in Nat
    /\ MaxPushes \in Nat
    /\ MaxFaults \in Nat
    /\ MaxRestarts \in Nat

ASSUME ActorAssumption == Loop \notin Handlers

Row == [market : Markets, side : Sides, capital : Int]

\* A signal on its way through process_market, and what execute() made of it.
Signal == [market : Markets, side : Sides, action : {"buy", "sell"},
           cost : Int, spent : Int, status : Statuses \cup {"none", "sent"}]

SomeMarket == CHOOSE m \in Markets : TRUE
NoRow == [market |-> SomeMarket, side |-> "yes", capital |-> 0]
NoSignal == [market |-> SomeMarket, side |-> "yes", action |-> "buy",
             cost |-> 0, spent |-> 0, status |-> "none"]

Steps == {"idle", "read", "excess", "release", "delete", "record",
          "market", "exposure", "reserve", "order", "undo", "log",
          "lookup", "merge", "insert", "prices", "price"}

VARIABLES
    portfolio,   \* PortfolioService.state
    snapshot,    \* what a restart loads
    open,        \* ids of the rows of open_prediction
    book,        \* the columns of every row ever inserted
    opened,      \* how many rows were ever inserted
    unpriced,    \* rows whose unrealized_pnl is not that of their shares
    limit,       \* max_prediction_exposure in the settings watch channel
    changed,     \* has the loop's receiver an unseen value?
    step,        \* where an actor is
    cfg,         \* the limit an actor works with
    todo,        \* rows an actor has read and still to treat
    copy,        \* their capital as it was read
    total,       \* total_exposure of a re-evaluation
    row,         \* the row in an actor's hands (0: none)
    queue,       \* markets fetched and still to be processed
    signal,      \* the signal being traded
    faults, restarts, pushes

money == <<portfolio, snapshot>>
table == <<open, book, opened, unpriced>>
hub == <<limit, changed>>
hands == <<cfg, todo, copy, total, row>>
ticks == <<queue, signal>>
counts == <<faults, restarts, pushes>>
vars == <<money, table, hub, step, hands, ticks, counts>>

TypeOK ==
    /\ portfolio \in PortfolioState
    /\ snapshot \in PortfolioState
    /\ open \in SUBSET Ids
    /\ book \in [Ids -> Row]
    /\ opened \in 0 .. MaxOpened
    /\ unpriced \in SUBSET Ids
    /\ limit \in Int
    /\ changed \in BOOLEAN
    /\ step \in [Actors -> Steps]
    /\ cfg \in [Actors -> Int]
    /\ todo \in [Actors -> SUBSET Ids]
    /\ copy \in [Actors -> [Ids -> Int]]
    /\ total \in [Actors -> Int]
    /\ row \in [Actors -> Ids \cup {0}]
    /\ queue \in SUBSET Markets
    /\ signal \in Signal
    /\ faults \in 0 .. MaxFaults
    /\ restarts \in 0 .. MaxRestarts
    /\ pushes \in 0 .. MaxPushes

-----------------------------------------------------------------------------
(* Where an actor goes next.                                               *)

GoTo(a, st) == step' = [step EXCEPT ![a] = st]

NoCopy == [i \in Ids |-> 0]

\* The handler answers, or the loop goes back to its select!.
Return(a) ==
    /\ GoTo(a, "idle")
    /\ cfg' = [cfg EXCEPT ![a] = InitialLimit]
    /\ todo' = [todo EXCEPT ![a] = {}]
    /\ copy' = [copy EXCEPT ![a] = NoCopy]
    /\ total' = [total EXCEPT ![a] = 0]
    /\ row' = [row EXCEPT ![a] = 0]

\* process_market is over, well or not: tick() reports an error and goes on.
NextMarket ==
    /\ GoTo(Loop, "market")
    /\ signal' = NoSignal
    /\ row' = [row EXCEPT ![Loop] = 0]
    /\ UNCHANGED <<cfg, todo, copy, total>>

\* allocated_capital of every row, its sum over a set of rows, and the rows in
\* one market.
CapitalOf == [i \in Ids |-> book[i].capital]
Exposure(rows) == Total(CapitalOf, rows)
InMarket(m) == {i \in open : book[i].market = m}

-----------------------------------------------------------------------------
(* Settings pushes and reevaluate_predictions.                             *)

\* update_settings: the settings are persisted and sent through the watch
\* channel; the handler re-evaluates trading first, then the predictions.
UpdateSettings(h, l) ==
    /\ step[h] = "idle"
    /\ pushes < MaxPushes
    /\ pushes' = pushes + 1
    /\ limit' = l
    /\ changed' = TRUE
    /\ cfg' = [cfg EXCEPT ![h] = l]
    /\ GoTo(h, "read")
    /\ UNCHANGED <<money, table, todo, copy, total, row, ticks, faults, restarts>>

\* Mutant: the loop leaves the re-evaluation to the handler.
LoopSettingsChanged_HandlerOnly ==
    /\ step[Loop] = "idle"
    /\ changed
    /\ changed' = FALSE
    /\ UNCHANGED <<money, table, limit, step, hands, ticks, counts>>

\* rx.changed() wins the loop's select!.
LoopSettingsChanged ==
    /\ step[Loop] = "idle"
    /\ changed
    /\ changed' = FALSE
    /\ cfg' = [cfg EXCEPT ![Loop] = limit]
    /\ GoTo(Loop, "read")
    /\ UNCHANGED <<money, table, limit, todo, copy, total, row, ticks, counts>>

\* The rows are read once; from here on the actor works on its copies.
ReadPredictions(a) ==
    /\ step[a] = "read"
    /\ todo' = [todo EXCEPT ![a] = open]
    /\ copy' = [copy EXCEPT ![a] = [i \in Ids |-> IF i \in open THEN book[i].capital ELSE 0]]
    /\ total' = [total EXCEPT ![a] = Exposure(open)]
    /\ GoTo(a, "excess")
    /\ UNCHANGED <<money, table, hub, cfg, row, ticks, counts>>

\* Mutant: the order of allocated_capital is not reversed.
Smallest_LargestFirst(a) ==
    {i \in todo[a] : \A j \in todo[a] : copy[a][i] >= copy[a][j]}

\* The first of the rows ordered by ascending capital; ties come in any order.
Smallest(a) == {i \in todo[a] : \A j \in todo[a] : copy[a][i] <= copy[a][j]}

Excessive(a) == total[a] > cfg[a]

\* Mutant: the row in hand is the one after the row that was sold.
ForceClose_NextRow(a, i) ==
    /\ step[a] = "excess"
    /\ Excessive(a)
    /\ i \in Smallest(a)
    /\ row' = [row EXCEPT ![a] = i + 1]
    /\ GoTo(a, "release")
    /\ UNCHANGED <<money, table, hub, cfg, todo, copy, total, ticks, counts>>

\* The market sell of the smallest row goes through.
ForceClose(a, i) ==
    /\ step[a] = "excess"
    /\ Excessive(a)
    /\ i \in Smallest(a)
    /\ row' = [row EXCEPT ![a] = i]
    /\ GoTo(a, "release")
    /\ UNCHANGED <<money, table, hub, cfg, todo, copy, total, ticks, counts>>

\* The executor refuses.  The error is published and swallowed, and the caller
\* takes the exposure for reduced.
ForceCloseRejected(a, i) ==
    /\ ExecutorMayFail
    /\ step[a] = "excess"
    /\ Excessive(a)
    /\ i \in Smallest(a)
    /\ todo' = [todo EXCEPT ![a] = @ \ {i}]
    /\ total' = [total EXCEPT ![a] = @ - copy[a][i]]
    /\ UNCHANGED <<money, table, hub, step, cfg, copy, row, ticks, counts>>

\* Mutant: the proceeds, not the capital, leave the allocation.
ReleaseCapital_Proceeds(a) ==
    /\ step[a] = "release"
    /\ \E pnl \in Profits :
          portfolio' = Release(portfolio, copy[a][row[a]] + pnl, 0, "polymarket")
    /\ GoTo(a, "delete")
    /\ UNCHANGED <<snapshot, table, hub, hands, ticks, counts>>

\* release_funds of the capital in the actor's copy of the row.
ReleaseCapital(a) ==
    /\ step[a] = "release"
    /\ \E pnl \in Profits :
          portfolio' = Release(portfolio, copy[a][row[a]], pnl, "polymarket")
    /\ GoTo(a, "delete")
    /\ UNCHANGED <<snapshot, table, hub, hands, ticks, counts>>

\* A Sell signal is done with its row here; a forced close is recorded after.
\* Deleting a row that is gone already is no error.
DeleteRow(a) ==
    /\ step[a] = "delete"
    /\ open' = open \ {row[a]}
    /\ unpriced' = unpriced \ {row[a]}
    /\ IF a = Loop /\ signal # NoSignal
       THEN NextMarket
       ELSE GoTo(a, "record") /\ UNCHANGED <<hands, signal>>
    /\ UNCHANGED <<money, book, opened, hub, queue, counts>>

\* Mutant: what was sold is taken off the exposure twice.
RecordClose_Twice(a) ==
    /\ step[a] = "record"
    /\ todo' = [todo EXCEPT ![a] = @ \ {row[a]}]
    /\ total' = [total EXCEPT ![a] = @ - 2 * copy[a][row[a]]]
    /\ row' = [row EXCEPT ![a] = 0]
    /\ GoTo(a, "excess")
    /\ UNCHANGED <<money, table, hub, cfg, copy, ticks, counts>>

\* record_prediction of a forced close.
RecordClose(a) ==
    /\ step[a] = "record"
    /\ todo' = [todo EXCEPT ![a] = @ \ {row[a]}]
    /\ total' = [total EXCEPT ![a] = @ - copy[a][row[a]]]
    /\ row' = [row EXCEPT ![a] = 0]
    /\ GoTo(a, "excess")
    /\ UNCHANGED <<money, table, hub, cfg, copy, ticks, counts>>

ReevaluateDone(a) ==
    /\ step[a] = "excess"
    /\ ~Excessive(a) \/ todo[a] = {}
    /\ Return(a)
    /\ UNCHANGED <<money, table, hub, ticks, counts>>

-----------------------------------------------------------------------------
(* The timer branch of the loop: tick().                                   *)

\* The sleep ends first.  The settings are read once for all the markets, and
\* the active markets fetched; when that fails nothing else is done.
LoopTimer ==
    /\ step[Loop] = "idle"
    /\ cfg' = [cfg EXCEPT ![Loop] = limit]
    /\ queue' \in SUBSET Markets
    /\ GoTo(Loop, "market")
    /\ UNCHANGED <<money, table, hub, todo, copy, total, row, signal, counts>>

\* No order book, a Hold, or a signal that does not pass the heuristics.
MarketHold(m) ==
    /\ step[Loop] = "market"
    /\ m \in queue
    /\ queue' = queue \ {m}
    /\ UNCHANGED <<money, table, hub, step, hands, signal, counts>>

\* The strategy comes back with a signal.  It sells "yes" only.
MarketSignal(m) ==
    /\ step[Loop] = "market"
    /\ m \in queue
    /\ queue' = queue \ {m}
    /\ \E side \in Sides, action \in Actions, cost \in Costs :
          /\ action = "sell" => side = "yes"
          /\ action = "buy" => opened < MaxOpened
          /\ signal' = [NoSignal EXCEPT !.market = m, !.side = side,
                                        !.action = action, !.cost = cost,
                                        !.status = "sent"]
    /\ GoTo(Loop, "exposure")
    /\ UNCHANGED <<money, table, hub, hands, counts>>

\* Mutant: only the total is checked.
WithinExposure_TotalOnly == Exposure(open) + signal.cost <= cfg[Loop]

\* The total limit, and a third of it for one market.
WithinExposure ==
    /\ Exposure(open) + signal.cost <= cfg[Loop]
    /\ 3 * (Exposure(InMarket(signal.market)) + signal.cost) <= cfg[Loop]

\* check_exposure, then reserve_funds for a Buy.
CheckExposure ==
    /\ step[Loop] = "exposure"
    /\ \/ /\ WithinExposure
          /\ GoTo(Loop, IF signal.action = "buy" THEN "reserve" ELSE "order")
          /\ UNCHANGED <<hands, signal>>
       \/ /\ ~WithinExposure
          /\ NextMarket
    /\ UNCHANGED <<money, table, hub, queue, counts>>

ReserveFunds ==
    /\ step[Loop] = "reserve"
    /\ \/ /\ CanReserve(portfolio, signal.cost)
          /\ portfolio' = Reserve(portfolio, signal.cost, "polymarket")
          /\ GoTo(Loop, "order")
          /\ UNCHANGED <<hands, signal>>
       \/ /\ ~CanReserve(portfolio, signal.cost)
          /\ NextMarket
          /\ UNCHANGED portfolio
    /\ UNCHANGED <<snapshot, table, hub, queue, counts>>

\* What the shares filled cost.  A limit order pays its price or less; the paper
\* executor fills everything at the limit price.
SpentOf(cost) == IF BetterFills THEN {cost, cost \div 2} ELSE {cost}

Execute ==
    /\ step[Loop] = "order"
    /\ \/ /\ \E status \in Statuses, spent \in SpentOf(signal.cost) :
                signal' = [signal EXCEPT !.status = status, !.spent = spent]
          /\ GoTo(Loop, "log")
          /\ UNCHANGED hands
       \/ /\ ExecutorMayFail
          /\ IF signal.action = "buy"
             THEN GoTo(Loop, "undo") /\ UNCHANGED <<hands, signal>>
             ELSE NextMarket
    /\ UNCHANGED <<money, table, hub, queue, counts>>

\* execute() failed: give the reservation of a Buy back.
Undo ==
    /\ step[Loop] = "undo"
    /\ portfolio' = Release(portfolio, signal.cost, 0, "polymarket")
    /\ NextMarket
    /\ UNCHANGED <<snapshot, table, hub, queue, counts>>

\* record_prediction; the table of open predictions only if the order is filled.
RecordPrediction ==
    /\ step[Loop] = "log"
    /\ \/ /\ signal.status = "filled"
          /\ GoTo(Loop, "lookup")
          /\ UNCHANGED <<hands, signal>>
       \/ /\ signal.status # "filled"
          /\ NextMarket
    /\ UNCHANGED <<money, table, hub, queue, counts>>

\* The row of the signal's market and side.
Existing == {i \in open : book[i].market = signal.market /\ book[i].side = signal.side}

\* update_open_predictions reads the row first ...
LookupRow ==
    /\ step[Loop] = "lookup"
    /\ \/ \E i \in Existing :
             /\ row' = [row EXCEPT ![Loop] = i]
             /\ copy' = [copy EXCEPT ![Loop][i] = book[i].capital]
             /\ GoTo(Loop, IF signal.action = "buy" THEN "merge" ELSE "release")
             /\ UNCHANGED <<cfg, todo, total, signal>>
       \/ /\ Existing = {}
          /\ signal.action = "buy"
          /\ GoTo(Loop, "insert")
          /\ UNCHANGED <<hands, signal>>
       \/ /\ Existing = {}
          /\ signal.action = "sell"
          /\ NextMarket
    /\ UNCHANGED <<money, table, hub, queue, counts>>

\* Mutant: the row takes the capital of the new order alone.
MergeRow_Replace ==
    /\ step[Loop] = "merge"
    /\ IF row[Loop] \in open
       THEN /\ book' = [book EXCEPT ![row[Loop]].capital = signal.spent]
            /\ unpriced' = unpriced \cup {row[Loop]}
       ELSE UNCHANGED <<book, unpriced>>
    /\ NextMarket
    /\ UNCHANGED <<money, open, opened, hub, queue, counts>>

\* ... and then writes it.  A row that has been deleted since is an error.
MergeRow ==
    /\ step[Loop] = "merge"
    /\ IF row[Loop] \in open
       THEN /\ book' = [book EXCEPT ![row[Loop]].capital = copy[Loop][row[Loop]] + signal.spent]
            /\ unpriced' = unpriced \cup {row[Loop]}
       ELSE UNCHANGED <<book, unpriced>>
    /\ NextMarket
    /\ UNCHANGED <<money, open, opened, hub, queue, counts>>

InsertRow ==
    /\ step[Loop] = "insert"
    /\ opened' = opened + 1
    /\ open' = open \cup {opened'}
    /\ book' = [book EXCEPT ![opened'] =
                  [market |-> signal.market, side |-> signal.side, capital |-> signal.spent]]
    /\ NextMarket
    /\ UNCHANGED <<money, unpriced, hub, queue, counts>>

\* All markets done: update_prediction_prices reads the rows.
ReadPrices ==
    /\ step[Loop] = "market"
    /\ queue = {}
    /\ GoTo(Loop, "prices")
    /\ todo' = [todo EXCEPT ![Loop] = open]
    /\ UNCHANGED <<money, table, hub, cfg, copy, total, row, ticks, counts>>

\* get_market_prices; an order book out of reach ends the tick, and with it the
\* update of the rows that come later.
PriceRow(i) ==
    /\ step[Loop] = "prices"
    /\ i \in todo[Loop]
    /\ \/ /\ row' = [row EXCEPT ![Loop] = i]
          /\ GoTo(Loop, "price")
          /\ UNCHANGED <<cfg, todo, copy, total>>
       \/ /\ book[i].market \in Unpriced
          /\ Return(Loop)
    /\ UNCHANGED <<money, table, hub, ticks, counts>>

\* Mutant: the gain is written before the price is read.
UpdatePrice_Stale ==
    /\ step[Loop] = "price"
    /\ \/ /\ row[Loop] \in open
          /\ todo' = [todo EXCEPT ![Loop] = @ \ {row[Loop]}]
          /\ row' = [row EXCEPT ![Loop] = 0]
          /\ GoTo(Loop, "prices")
          /\ UNCHANGED <<cfg, copy, total>>
       \/ /\ row[Loop] \notin open
          /\ Return(Loop)
    /\ UNCHANGED <<money, table, hub, ticks, counts>>

\* current_price and unrealized_pnl are written; a row that a handler has
\* deleted since is an error, and the tick is over.
UpdatePrice ==
    /\ step[Loop] = "price"
    /\ \/ /\ row[Loop] \in open
          /\ unpriced' = unpriced \ {row[Loop]}
          /\ todo' = [todo EXCEPT ![Loop] = @ \ {row[Loop]}]
          /\ row' = [row EXCEPT ![Loop] = 0]
          /\ GoTo(Loop, "prices")
          /\ UNCHANGED <<cfg, copy, total>>
       \/ /\ row[Loop] \notin open
          /\ Return(Loop)
          /\ UNCHANGED unpriced
    /\ UNCHANGED <<money, open, book, opened, hub, ticks, counts>>

TickDone ==
    /\ step[Loop] = "prices"
    /\ todo[Loop] = {}
    /\ Return(Loop)
    /\ UNCHANGED <<money, table, hub, ticks, counts>>

-----------------------------------------------------------------------------
(* Failures, snapshots and restarts.                                       *)

\* The next thing the actor does is a database statement.
AtDatabase(a) ==
    step[a] \in {"read", "delete", "record", "exposure", "log", "lookup",
                 "merge", "insert", "price"}

\* The statement fails and ? hands the error up: out of process_market to the
\* next market, out of everything else to the handler's answer or the select!.
DatabaseFails(a) ==
    /\ faults < MaxFaults
    /\ AtDatabase(a)
    /\ faults' = faults + 1
    /\ IF a = Loop /\ signal # NoSignal
       THEN NextMarket
       ELSE Return(a) /\ UNCHANGED signal
    /\ UNCHANGED <<money, table, hub, queue, restarts, pushes>>

PersistSnapshot ==
    /\ restarts < MaxRestarts
    /\ snapshot' = portfolio
    /\ UNCHANGED <<portfolio, table, hub, step, hands, ticks, counts>>

\* The process dies at any point, or is stopped, and starts again: the newest
\* snapshot and the settings are loaded, and publishing the settings counts as a
\* change for the loop's receiver.
Restart ==
    /\ restarts < MaxRestarts
    /\ restarts' = restarts + 1
    /\ portfolio' = snapshot
    /\ changed' = TRUE
    /\ step' = [a \in Actors |-> "idle"]
    /\ cfg' = [a \in Actors |-> InitialLimit]
    /\ todo' = [a \in Actors |-> {}]
    /\ copy' = [a \in Actors |-> NoCopy]
    /\ total' = [a \in Actors |-> 0]
    /\ row' = [a \in Actors |-> 0]
    /\ queue' = {}
    /\ signal' = NoSignal
    /\ UNCHANGED <<snapshot, table, limit, faults, pushes>>

-----------------------------------------------------------------------------

Init ==
    /\ portfolio = StartingPortfolio(InitialBalance)
    /\ snapshot = StartingPortfolio(InitialBalance)
    /\ open = {}
    /\ book = [i \in Ids |-> NoRow]
    /\ opened = 0
    /\ unpriced = {}
    /\ limit = InitialLimit
    /\ changed = TRUE
    /\ step = [a \in Actors |-> "idle"]
    /\ cfg = [a \in Actors |-> InitialLimit]
    /\ todo = [a \in Actors |-> {}]
    /\ copy = [a \in Actors |-> NoCopy]
    /\ total = [a \in Actors |-> 0]
    /\ row = [a \in Actors |-> 0]
    /\ queue = {}
    /\ signal = NoSignal
    /\ faults = 0
    /\ restarts = 0
    /\ pushes = 0

Reevaluate(a) ==
    \/ ReadPredictions(a)
    \/ \E i \in Ids : ForceClose(a, i) \/ ForceCloseRejected(a, i)
    \/ ReleaseCapital(a)
    \/ DeleteRow(a)
    \/ RecordClose(a)
    \/ ReevaluateDone(a)

ProcessMarket ==
    \/ \E m \in Markets : MarketHold(m) \/ MarketSignal(m)
    \/ CheckExposure
    \/ ReserveFunds
    \/ Execute
    \/ Undo
    \/ RecordPrediction
    \/ LookupRow
    \/ MergeRow
    \/ InsertRow

UpdatePredictionPrices ==
    \/ ReadPrices
    \/ \E i \in Ids : PriceRow(i)
    \/ UpdatePrice
    \/ TickDone

LoopStep ==
    \/ LoopSettingsChanged
    \/ LoopTimer
    \/ ProcessMarket
    \/ UpdatePredictionPrices
    \/ Reevaluate(Loop)

HandlerStep(h) == Reevaluate(h)

Next ==
    \/ LoopStep
    \/ \E h \in Handlers :
          \/ HandlerStep(h)
          \/ \E l \in LimitPushes : UpdateSettings(h, l)
    \/ \E a \in Actors : DatabaseFails(a)
    \/ PersistSnapshot
    \/ Restart

Spec == Init /\ [][Next]_vars

\* The loop and the handlers are tasks that go on when they can; select! picks a
\* ready branch at random, so a settings change is not passed over for ever; the
\* interval of the timer ends each time it is waited for.
FairSpec ==
    /\ Spec
    /\ WF_vars(LoopStep)
    /\ SF_vars(LoopSettingsChanged)
    /\ WF_vars(\E h \in Handlers : HandlerStep(h))

-----------------------------------------------------------------------------
(* What must hold.                                                         *)

\* check_exposure: whenever a prediction grows, the rows together stay within the
\* limit the tick works with, and the rows of its market within a third of it,
\* whatever the handlers, failing statements and restarts do meanwhile.
GrowsWithinLimits ==
    \A m \in Markets :
        LET before == Exposure(InMarket(m))
            after == Exposure(InMarket(m))'
        IN  after > before => /\ 3 * after <= cfg[Loop]
                              /\ Exposure(open)' <= cfg[Loop]

ExposureBounded == [][GrowsWithinLimits]_vars

\* "starting from the smallest position": a forced sale never takes a prediction
\* while a smaller one that has not been refused is open.
SmallestFirst ==
    [][ (step[Loop] = "excess" /\ step'[Loop] = "release") =>
          \A i \in open \cap todo[Loop] : book[row'[Loop]].capital <= book[i].capital ]_vars

\* "sell predictions ... until compliant": when the loop's re-evaluation comes to its
\* end, what is open is within the limit it was given.
EndsCompliant ==
    step[Loop] = "excess" /\ step'[Loop] = "idle" /\ restarts' = restarts =>
        Exposure(open)' <= cfg[Loop]

SellsUntilCompliant == [][EndsCompliant]_vars

\* With nobody re-evaluating and every push seen by the loop, the open
\* predictions are within the limit in force.
SettledCompliant ==
    ((\A a \in Actors : step[a] \in {"idle", "prices", "price"}) /\ ~changed)
        => Exposure(open) <= limit

\* Rows whose capital has been released but which are still there.
BeingDeleted == {row[a] : a \in {b \in Actors : step[b] = "delete"}}

\* The allocation covers the capital of the open predictions.
AllocationCoversOpen ==
    portfolio.allocated["polymarket"] >= Exposure(open \ BeingDeleted)

\* As long as nobody but the loop has closed anything and no statement has failed,
\* a close releases the capital of its row once, whatever the orders reported.
AloneCoversOpen ==
    pushes = 0 /\ faults = 0 /\ restarts = 0 => AllocationCoversOpen

\* The paper executor fills every order at its price.
PaperExecutor == ~BetterFills /\ Statuses = {"filled"}

\* With nobody but the loop at work, and the loop at rest, the allocation is short of
\* the capital of the open predictions by no more than one row (a third of the limit)
\* per statement that failed.  If in addition every order is filled at its price, it
\* is in excess of it by no more than one order, as large, per statement: no error path
\* misplaces more than what it had in hand.
FaultsAreContained ==
    pushes = 0 /\ restarts = 0 /\ step[Loop] = "idle" =>
        LET short == Exposure(open) - portfolio.allocated["polymarket"]
        IN  /\ 3 * short <= faults * InitialLimit
            /\ PaperExecutor => -3 * short <= faults * InitialLimit
=============================================================================
