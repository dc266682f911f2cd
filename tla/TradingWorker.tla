---------------------------- MODULE TradingWorker ----------------------------
(***************************************************************************)
(* The trading side of a crypto worker: the trading loop of                *)
(* crypto/src/main.rs, the TradingService it drives                        *)
(* (crypto/src/trading/service.rs) and the UpdateSettings handlers of the  *)
(* gRPC server (crypto/src/grpc.rs), which run the same re-evaluation in   *)
(* tasks of their own.                                                     *)
(*                                                                         *)
(* An actor is the loop or one handler.  Every await on the database, the  *)
(* executor, the strategy or the portfolio lock is a step boundary, so     *)
(* actors interleave exactly where tokio can switch between them.          *)
(***************************************************************************)
EXTENDS Portfolio, FiniteSets

CONSTANTS
    Pairs,            \* trading pairs
    Stops,            \* values of stop_loss_pct
    Loop,             \* the task of the trading loop
    Handlers,         \* concurrent UpdateSettings calls
    InitialSettings,  \* the settings in force when the worker first starts
    SettingsPushes,   \* the settings the master may push
    Sides,            \* what the strategy may recommend, besides Hold
    Fillings,         \* the outcomes an accepted order may report
    ExecutorMayFail,  \* may execute() return an error?
    Returns,          \* what closing a position may bring in: price * quantity - fee
    SellReturns,      \* the same on a Sell, whose fee is that of an order of another size
    InitialBalance,
    SizeDivisor,      \* the share of the balance a position may take, inverted
    OtherAmounts,     \* amounts the Polymarket module reserves
    MaxOpened,        \* bound: positions ever opened
    MaxPushes,        \* bound: settings pushes
    MaxFaults,        \* bound: failing database statements
    MaxRestarts       \* bound: crashes and restarts

Ids == 1 .. MaxOpened    \* in the order of opened_at

Settings == [pairs : SUBSET Pairs, max : Int, stop : Stops]

Actors == {Loop} \cup Handlers

ASSUME SettingsAssumption ==
    /\ Pairs # {}
    /\ InitialSettings \in Settings
    /\ SettingsPushes \subseteq Settings

ASSUME MoneyAssumption ==
    /\ InitialBalance \in Nat
    /\ SizeDivisor \in Nat \ {0}
    /\ Returns \subseteq Int /\ SellReturns \subseteq Int
    /\ OtherAmounts \subseteq Nat

ASSUME BoundAssumption ==
    /\ MaxOpened \in Nat
    /\ MaxPushes \in Nat
    /\ MaxFaults \in Nat
    /\ MaxRestarts \in Nat

ASSUME ActorAssumption == Loop \notin Handlers

ASSUME ChoiceAssumption ==
    /\ Sides \subseteq {"buy", "sell"}
    /\ Fillings \subseteq {"filled", "partial", "unfilled"}
    /\ ExecutorMayFail \in BOOLEAN

\* A signal on its way through tick(): the capital sized for it, then the value
\* that was filled and whether the status is Filled or PartiallyFilled.
Orders == [pair : Pairs, side : {"buy", "sell", "none"},
           capital : Int, fill : Int, booked : BOOLEAN]

NewOrder(p) ==
    [pair |-> p, side |-> "none", capital |-> 0, fill |-> 0, booked |-> FALSE]

NoPair == CHOOSE p \in Pairs : TRUE
NoOrder == NewOrder(NoPair)

Phases == {"idle", "read", "removed", "restop", "excess", "tick", "stops"}

Steps == {"next", "release", "delete", "record",
          "analyze", "risk", "reserve", "order", "undo", "log", "book"}

VARIABLES
    portfolio,   \* PortfolioService.state
    snapshot,    \* the newest row of portfolio_snapshot ("what a restart loads")
    open,        \* ids of the rows of open_position
    book,        \* the columns of every row ever inserted
    opened,      \* how many rows were ever inserted
    settings,    \* the value in the settings watch channel
    changed,     \* has the loop's receiver an unseen value?
    feed,        \* the pairs the market feed subscribed to at start-up
    phase,       \* which loop of the code an actor is in
    step,        \* where in that loop's body it is
    cfg,         \* the settings the actor works with
    work,        \* rows the current phase has still to treat
    kept,        \* rows whose pair is still allowed
    row,         \* the row being closed (0: none)
    queue,       \* pairs of the ticker snapshot still to be ticked
    order,       \* the signal being traded
    unrecorded,  \* orders executed less rows of trade_record
    rejected,    \* rows whose closing order the executor refused
    leftOver,    \* history: what orders reserved and made no position of
    atFault,     \* history: the capital that failed statements had in hand
    faults, restarts, pushes

money == <<portfolio, snapshot>>
table == <<open, book, opened>>
hub == <<settings, changed, feed>>
place == <<phase, step>>
hands == <<cfg, work, kept, row>>
ticks == <<queue, order>>
spilt == <<leftOver, atFault>>
notes == <<unrecorded, rejected, leftOver, atFault>>
counts == <<faults, restarts, pushes>>
vars == <<money, table, hub, place, hands, ticks, notes, counts>>

\* Rows are read by their id: pair and allocated_capital never change after the
\* insert, so a stale copy of a row and the row itself agree on them.
Row == [pair : Pairs, capital : Int, stop : Stops]
NoRow == [pair |-> NoPair, capital |-> 0, stop |-> InitialSettings.stop]

MoneyOK ==
    /\ portfolio \in PortfolioState
    /\ snapshot \in PortfolioState

TableOK ==
    /\ open \in SUBSET Ids
    /\ book \in [Ids -> Row]
    /\ opened \in 0 .. MaxOpened

HubOK ==
    /\ settings \in Settings
    /\ changed \in BOOLEAN
    /\ feed \in SUBSET Pairs

ActorsOK ==
    /\ phase \in [Actors -> Phases]
    /\ step \in [Actors -> Steps]
    /\ cfg \in [Actors -> Settings]
    /\ work \in [Actors -> SUBSET Ids]
    /\ kept \in [Actors -> SUBSET Ids]
    /\ row \in [Actors -> Ids \cup {0}]

TicksOK ==
    /\ queue \in SUBSET Pairs
    /\ order \in Orders

NotesOK ==
    /\ unrecorded \in Int
    /\ rejected \in SUBSET Ids
    /\ leftOver \in Int /\ atFault \in Int
    /\ faults \in 0 .. MaxFaults
    /\ restarts \in 0 .. MaxRestarts
    /\ pushes \in 0 .. MaxPushes

TypeOK == MoneyOK /\ TableOK /\ HubOK /\ ActorsOK /\ TicksOK /\ NotesOK

-----------------------------------------------------------------------------
(* Where an actor goes next.                                               *)

GoTo(a, ph, st) ==
    /\ phase' = [phase EXCEPT ![a] = ph]
    /\ step' = [step EXCEPT ![a] = st]

\* The handler answers, or the loop goes back to its select!.
Return(a) ==
    /\ GoTo(a, "idle", "next")
    /\ cfg' = [cfg EXCEPT ![a] = InitialSettings]
    /\ work' = [work EXCEPT ![a] = {}]
    /\ kept' = [kept EXCEPT ![a] = {}]
    /\ row' = [row EXCEPT ![a] = 0]

\* tick() of one pair is over, well or not: the loop logs an error and goes on.
NextTicker ==
    /\ GoTo(Loop, "tick", "next")
    /\ order' = NoOrder
    /\ cfg' = [cfg EXCEPT ![Loop] = InitialSettings]
    /\ row' = [row EXCEPT ![Loop] = 0]
    /\ UNCHANGED <<work, kept>>

At(a, ph, st) == phase[a] = ph /\ step[a] = st

\* Mutant: one more than the limit.
AtLimit_OffByOne(count, max) == max >= 0 /\ count > max

\* a as usize / as u64 turns a negative limit into one no count reaches.
AtLimit(count, max) == max >= 0 /\ count >= max

\* kept[max..] of the rows ordered by opened_at: all but the max oldest.
Excess(rows, max) ==
    {i \in rows : AtLimit(Cardinality({j \in rows : j < i}), max)}

\* tick() sizes a signal as a share of a share of the balance; both percentages
\* are within 0..100 here.
PositionCap(balance) ==
    IF balance < 0 THEN -((-balance) \div SizeDivisor) ELSE balance \div SizeDivisor

-----------------------------------------------------------------------------
(* Settings pushes and the re-evaluation they cause.                       *)

\* update_settings: the new settings are persisted and sent through the watch
\* channel, and the handler then re-evaluates the positions itself.
UpdateSettings(h, s) ==
    /\ At(h, "idle", "next")
    /\ pushes < MaxPushes
    /\ pushes' = pushes + 1
    /\ settings' = s
    /\ changed' = TRUE
    /\ cfg' = [cfg EXCEPT ![h] = s]
    /\ GoTo(h, "read", "next")
    /\ UNCHANGED <<money, table, feed, work, kept, row, ticks, notes, faults, restarts>>

\* Mutant: the loop leaves the re-evaluation to the handler.
LoopSettingsChanged_HandlerOnly ==
    /\ At(Loop, "idle", "next")
    /\ changed
    /\ changed' = FALSE
    /\ UNCHANGED <<money, table, settings, feed, place, hands, ticks, notes, counts>>

\* rx.changed() wins the loop's select!: the loop re-evaluates as well.
LoopSettingsChanged ==
    /\ At(Loop, "idle", "next")
    /\ changed
    /\ changed' = FALSE
    /\ cfg' = [cfg EXCEPT ![Loop] = settings]
    /\ GoTo(Loop, "read", "next")
    /\ UNCHANGED <<money, table, settings, feed, work, kept, row, ticks, notes, counts>>

\* reevaluate_positions reads the table once, oldest row first, and splits it
\* into the rows to close and the rows to keep.
ReadPositions(a) ==
    LET allowed == {i \in open : book[i].pair \in cfg[a].pairs}
    IN  /\ At(a, "read", "next")
        /\ work' = [work EXCEPT ![a] = open \ allowed]
        /\ kept' = [kept EXCEPT ![a] = allowed]
        /\ GoTo(a, "removed", "next")
        /\ UNCHANGED <<money, table, hub, cfg, row, ticks, notes, counts>>

RemovedDone(a) ==
    /\ At(a, "removed", "next")
    /\ work[a] = {}
    /\ work' = [work EXCEPT ![a] = kept[a]]
    /\ GoTo(a, "restop", "next")
    /\ UNCHANGED <<money, table, hub, cfg, kept, row, ticks, notes, counts>>

\* Mutant: the rows keep the stop-loss they were opened with.
Restop_Skipped(a, i) ==
    /\ At(a, "restop", "next")
    /\ i \in work[a]
    /\ work' = [work EXCEPT ![a] = @ \ {i}]
    /\ UNCHANGED <<money, table, hub, place, cfg, kept, row, ticks, notes, counts>>

\* The new stop-loss goes to the rows kept, oldest first.  Updating a row that
\* another actor has deleted since is an error, which ends the re-evaluation.
Restop(a, i) ==
    /\ At(a, "restop", "next")
    /\ i \in work[a]
    /\ \A j \in work[a] : i <= j
    /\ \/ /\ i \in open
          /\ book' = [book EXCEPT ![i].stop = cfg[a].stop]
          /\ work' = [work EXCEPT ![a] = @ \ {i}]
          /\ UNCHANGED <<place, cfg, kept, row>>
       \/ /\ i \notin open
          /\ Return(a)
          /\ UNCHANGED book
    /\ UNCHANGED <<money, open, opened, hub, ticks, notes, counts>>

RestopDone(a) ==
    /\ At(a, "restop", "next")
    /\ work[a] = {}
    /\ work' = [work EXCEPT ![a] = Excess(kept[a], cfg[a].max)]
    /\ GoTo(a, "excess", "next")
    /\ UNCHANGED <<money, table, hub, cfg, kept, row, ticks, notes, counts>>

ReevaluateDone(a) ==
    /\ At(a, "excess", "next")
    /\ work[a] = {}
    /\ Return(a)
    /\ UNCHANGED <<money, table, hub, ticks, notes, counts>>

-----------------------------------------------------------------------------
(* Closing a row: execute, release, delete, record.  The same four steps   *)
(* make up force_close_position and the body of check_stop_losses; the     *)
(* Sell arm of update_positions shares release and delete.                 *)

\* Whose turn it is: oldest first for removed pairs, newest first for excess
\* rows, in any order for stop-losses.
InTurn(a, i) ==
    /\ i \in work[a]
    /\ phase[a] = "removed" => \A j \in work[a] : i <= j
    /\ phase[a] = "excess" => \A j \in work[a] : j <= i

\* Mutant: the row in hand is the one after the row that was sold.
ExecuteClose_NextRow(a, i) ==
    /\ phase[a] \in {"removed", "excess", "stops"}
    /\ step[a] = "next"
    /\ InTurn(a, i)
    /\ work' = [work EXCEPT ![a] = @ \ {i}]
    /\ row' = [row EXCEPT ![a] = i + 1]
    /\ GoTo(a, phase[a], "release")
    /\ unrecorded' = unrecorded + 1
    /\ UNCHANGED <<money, table, hub, cfg, kept, ticks, rejected, spilt, counts>>

\* The market sell goes through.
ExecuteClose(a, i) ==
    /\ phase[a] \in {"removed", "excess", "stops"}
    /\ step[a] = "next"
    /\ InTurn(a, i)
    /\ work' = [work EXCEPT ![a] = @ \ {i}]
    /\ row' = [row EXCEPT ![a] = i]
    /\ GoTo(a, phase[a], "release")
    /\ unrecorded' = unrecorded + 1
    /\ UNCHANGED <<money, table, hub, cfg, kept, ticks, rejected, spilt, counts>>

\* The executor refuses: the error is published and the row left as it is.
CloseRejected(a, i) ==
    /\ ExecutorMayFail
    /\ phase[a] \in {"removed", "excess", "stops"}
    /\ step[a] = "next"
    /\ InTurn(a, i)
    /\ work' = [work EXCEPT ![a] = @ \ {i}]
    /\ rejected' = rejected \cup {i}
    /\ UNCHANGED <<money, table, hub, place, cfg, kept, row, ticks, unrecorded, spilt, counts>>

\* A position is closed by an order of its own quantity, whose fee is a share of what
\* it brings in; but a Sell of the strategy by an order sized on the balance, whose
\* fee may be more than that.
Proceeds(a) == IF phase[a] = "tick" THEN SellReturns ELSE Returns

\* Mutant: the proceeds, not the capital, leave the allocation.
ReleaseCapital_Proceeds(a) ==
    /\ step[a] = "release"
    /\ \E proceeds \in Proceeds(a) : portfolio' = Release(portfolio, proceeds, 0, "trading")
    /\ GoTo(a, phase[a], "delete")
    /\ UNCHANGED <<snapshot, table, hub, hands, ticks, notes, counts>>

\* Positions are long only: proceeds = allocated_capital + pnl.
ReleaseCapital(a) ==
    /\ step[a] = "release"
    /\ \E proceeds \in Proceeds(a) :
          LET capital == book[row[a]].capital
          IN  portfolio' = Release(portfolio, capital, proceeds - capital, "trading")
    /\ GoTo(a, phase[a], "delete")
    /\ UNCHANGED <<snapshot, table, hub, hands, ticks, notes, counts>>

\* Mutant: the row stays.
DeletePosition_Forgotten(a) ==
    /\ step[a] = "delete"
    /\ IF phase[a] = "tick"
       THEN NextTicker
       ELSE GoTo(a, phase[a], "record") /\ UNCHANGED <<hands, order>>
    /\ UNCHANGED <<money, table, hub, queue, notes, counts>>

\* Deleting a row that is gone already is no error.
DeletePosition(a) ==
    /\ step[a] = "delete"
    /\ open' = open \ {row[a]}
    /\ IF phase[a] = "tick"
       THEN NextTicker
       ELSE GoTo(a, phase[a], "record") /\ UNCHANGED <<hands, order>>
    /\ UNCHANGED <<money, book, opened, hub, queue, notes, counts>>

RecordClose(a) ==
    /\ step[a] = "record"
    /\ unrecorded' = unrecorded - 1
    /\ row' = [row EXCEPT ![a] = 0]
    /\ GoTo(a, phase[a], "next")
    /\ UNCHANGED <<money, table, hub, cfg, work, kept, ticks, rejected, spilt, counts>>

-----------------------------------------------------------------------------
(* The timer branch of the loop: tick every ticker, then the stop-losses.  *)

\* The sleep ends first; the loop takes the tickers the feed has delivered.
LoopTimer ==
    /\ At(Loop, "idle", "next")
    /\ queue' \in SUBSET feed
    /\ GoTo(Loop, "tick", "next")
    /\ UNCHANGED <<money, table, hub, hands, order, notes, counts>>

\* tick() reads the settings once; a pair no longer allowed is passed over.
TickStart(p) ==
    /\ At(Loop, "tick", "next")
    /\ p \in queue
    /\ queue' = queue \ {p}
    /\ \/ /\ p \in settings.pairs
          /\ cfg' = [cfg EXCEPT ![Loop] = settings]
          /\ order' = NewOrder(p)
          /\ GoTo(Loop, "tick", "analyze")
       \/ /\ p \notin settings.pairs
          /\ UNCHANGED <<cfg, order, place>>
    /\ UNCHANGED <<money, table, hub, work, kept, row, notes, counts>>

\* analyze() comes back without a signal, or with an error.
TickHold ==
    /\ At(Loop, "tick", "analyze")
    /\ NextTicker
    /\ UNCHANGED <<money, table, hub, queue, notes, counts>>

\* analyze() comes back with a signal, which is sized on the balance of now.
TickSize ==
    /\ At(Loop, "tick", "analyze")
    /\ \E side \in Sides :
          /\ side = "buy" => opened < MaxOpened
          /\ order' = [order EXCEPT !.side = side,
                                    !.capital = PositionCap(portfolio.available)]
    /\ GoTo(Loop, "tick", "risk")
    /\ UNCHANGED <<money, table, hub, hands, queue, notes, counts>>

\* Mutant: no duplicate check.
WithinRisk_NoDuplicateCheck == ~AtLimit(Cardinality(open), cfg[Loop].max)

WithinRisk ==
    /\ ~AtLimit(Cardinality(open), cfg[Loop].max)
    /\ order.side = "buy" => \A i \in open : book[i].pair # order.pair

\* check_risk.  Only the loop inserts rows, so its two queries, with no insert
\* between them, pass exactly when they pass at the second one.
TickRisk ==
    /\ At(Loop, "tick", "risk")
    /\ \/ /\ WithinRisk
          /\ GoTo(Loop, "tick", "reserve")
          /\ UNCHANGED <<hands, order>>
       \/ /\ ~WithinRisk
          /\ NextTicker
    /\ UNCHANGED <<money, table, hub, queue, notes, counts>>

\* The capital is reserved for a Buy and for a Sell alike.
TickReserve ==
    /\ At(Loop, "tick", "reserve")
    /\ \/ /\ CanReserve(portfolio, order.capital)
          /\ portfolio' = Reserve(portfolio, order.capital, "trading")
          /\ GoTo(Loop, "tick", "order")
          /\ UNCHANGED <<hands, order>>
       \/ /\ ~CanReserve(portfolio, order.capital)
          /\ NextTicker
          /\ UNCHANGED portfolio
    /\ UNCHANGED <<snapshot, table, hub, queue, notes, counts>>

\* What an order that was accepted may have filled: a limit order fills at the
\* price of the ticker or better, a market is free to fill part of it.
FillOf(filling, capital) ==
    CASE filling = "filled" -> capital
      [] filling = "partial" -> capital \div 2
      [] filling = "unfilled" -> 0

TickExecute ==
    /\ At(Loop, "tick", "order")
    /\ \/ /\ \E filling \in Fillings :
                order' = [order EXCEPT !.fill = FillOf(filling, order.capital),
                                       !.booked = filling # "unfilled"]
          /\ GoTo(Loop, "tick", "log")
          /\ unrecorded' = unrecorded + 1
       \/ /\ ExecutorMayFail
          /\ GoTo(Loop, "tick", "undo")
          /\ UNCHANGED <<order, unrecorded>>
    /\ UNCHANGED <<money, table, hub, hands, queue, rejected, spilt, counts>>

\* Mutant: the reservation is not given back.
TickUndo_Leak ==
    /\ At(Loop, "tick", "undo")
    /\ NextTicker
    /\ UNCHANGED <<money, table, hub, queue, notes, counts>>

\* execute() failed: give the reservation back.
TickUndo ==
    /\ At(Loop, "tick", "undo")
    /\ portfolio' = Release(portfolio, order.capital, 0, "trading")
    /\ NextTicker
    /\ UNCHANGED <<snapshot, table, hub, queue, notes, counts>>

\* record_trade; then the position table, if anything was filled.
TickRecord ==
    /\ At(Loop, "tick", "log")
    /\ unrecorded' = unrecorded - 1
    /\ \/ /\ order.booked
          /\ GoTo(Loop, "tick", "book")
          /\ UNCHANGED <<hands, order, leftOver>>
       \/ /\ ~order.booked
          /\ leftOver' = leftOver + order.capital
          /\ NextTicker
    /\ UNCHANGED <<money, table, hub, queue, rejected, atFault, counts>>

\* update_positions, Buy: insert the row with the value that was filled.
TickOpen ==
    /\ At(Loop, "tick", "book")
    /\ order.side = "buy"
    /\ opened' = opened + 1
    /\ open' = open \cup {opened'}
    /\ book' = [book EXCEPT ![opened'] =
                  [pair |-> order.pair, capital |-> order.fill, stop |-> cfg[Loop].stop]]
    /\ leftOver' = leftOver + order.capital - order.fill
    /\ NextTicker
    /\ UNCHANGED <<money, hub, queue, unrecorded, rejected, atFault, counts>>

\* update_positions, Sell: close the position in the pair, if there is one.
TickClose ==
    /\ At(Loop, "tick", "book")
    /\ order.side = "sell"
    /\ \/ \E i \in open :
             /\ book[i].pair = order.pair
             /\ row' = [row EXCEPT ![Loop] = i]
             /\ GoTo(Loop, "tick", "release")
             /\ UNCHANGED <<cfg, work, kept, order>>
       \/ /\ \A i \in open : book[i].pair # order.pair
          /\ NextTicker
    /\ leftOver' = leftOver + order.capital
    /\ UNCHANGED <<money, table, hub, queue, unrecorded, rejected, atFault, counts>>

\* All tickers done: update_position_prices, whose errors are logged, and
\* check_stop_losses reads the table.  Prices are the executor's, so any of the
\* open rows may be at their stop.
CheckStopLosses ==
    /\ At(Loop, "tick", "next")
    /\ queue = {}
    /\ \E hit \in SUBSET open : work' = [work EXCEPT ![Loop] = hit]
    /\ GoTo(Loop, "stops", "next")
    /\ UNCHANGED <<money, table, hub, cfg, kept, row, ticks, notes, counts>>

StopLossesDone ==
    /\ At(Loop, "stops", "next")
    /\ work[Loop] = {}
    /\ Return(Loop)
    /\ UNCHANGED <<money, table, hub, ticks, notes, counts>>

-----------------------------------------------------------------------------
(* Failures, snapshots and restarts, and the other module.                 *)

\* The next thing the actor does is a database statement.
AtDatabase(a) ==
    \/ phase[a] = "read"
    \/ phase[a] = "restop" /\ work[a] # {}
    \/ step[a] \in {"delete", "record", "risk", "log", "book"}

\* The capital that is then neither where it was nor where it was to go: that of an
\* executed order, or that of a position which is sold and still has its row.
InHand(a) ==
    CASE step[a] \in {"log", "book"} -> order.capital
      [] step[a] = "delete" -> book[row[a]].capital
      [] OTHER -> 0

\* The statement fails and ? hands the error up: out of tick() to the next
\* ticker, out of everything else to the handler's answer or the select!.
DatabaseFails(a) ==
    /\ faults < MaxFaults
    /\ AtDatabase(a)
    /\ faults' = faults + 1
    /\ atFault' = atFault + InHand(a)
    /\ IF phase[a] = "tick"
       THEN NextTicker
       ELSE Return(a) /\ UNCHANGED order
    /\ UNCHANGED <<money, table, hub, queue, unrecorded, rejected, leftOver, restarts, pushes>>

\* persist_snapshot, every 300 s and at a graceful shutdown.  Only snapshots a
\* later restart can load are kept track of.
PersistSnapshot ==
    /\ restarts < MaxRestarts
    /\ snapshot' = portfolio
    /\ UNCHANGED <<portfolio, table, hub, place, hands, ticks, notes, counts>>

\* The process dies at any point, or is stopped, and starts again: the newest
\* snapshot and the settings are loaded, and publishing the settings counts as a
\* change for the loop's receiver.
Restart ==
    /\ restarts < MaxRestarts
    /\ restarts' = restarts + 1
    /\ portfolio' = snapshot
    /\ changed' = TRUE
    /\ feed' = settings.pairs
    /\ phase' = [a \in Actors |-> "idle"]
    /\ step' = [a \in Actors |-> "next"]
    /\ cfg' = [a \in Actors |-> InitialSettings]
    /\ work' = [a \in Actors |-> {}]
    /\ kept' = [a \in Actors |-> {}]
    /\ row' = [a \in Actors |-> 0]
    /\ queue' = {}
    /\ order' = NoOrder
    /\ UNCHANGED <<snapshot, table, settings, notes, faults, pushes>>

\* PolymarketService takes and returns capital of the same portfolio; a
\* prediction closes at its cost or at nothing.
PolymarketReserve(amount) ==
    /\ CanReserve(portfolio, amount)
    /\ portfolio' = Reserve(portfolio, amount, "polymarket")
    /\ UNCHANGED <<snapshot, table, hub, place, hands, ticks, notes, counts>>

PolymarketRelease(amount) ==
    /\ portfolio.allocated["polymarket"] >= amount
    /\ \E pnl \in {0, -amount} :
          portfolio' = Release(portfolio, amount, pnl, "polymarket")
    /\ UNCHANGED <<snapshot, table, hub, place, hands, ticks, notes, counts>>

-----------------------------------------------------------------------------

Init ==
    /\ portfolio = StartingPortfolio(InitialBalance)
    /\ snapshot = StartingPortfolio(InitialBalance)
    /\ open = {}
    /\ book = [i \in Ids |-> NoRow]
    /\ opened = 0
    /\ settings = InitialSettings
    /\ changed = TRUE
    /\ feed = InitialSettings.pairs
    /\ phase = [a \in Actors |-> "idle"]
    /\ step = [a \in Actors |-> "next"]
    /\ cfg = [a \in Actors |-> InitialSettings]
    /\ work = [a \in Actors |-> {}]
    /\ kept = [a \in Actors |-> {}]
    /\ row = [a \in Actors |-> 0]
    /\ queue = {}
    /\ order = NoOrder
    /\ unrecorded = 0
    /\ rejected = {}
    /\ leftOver = 0
    /\ atFault = 0
    /\ faults = 0
    /\ restarts = 0
    /\ pushes = 0

Reevaluate(a) ==
    \/ ReadPositions(a)
    \/ RemovedDone(a)
    \/ \E i \in Ids : Restop(a, i)
    \/ RestopDone(a)
    \/ ReevaluateDone(a)

ClosePosition(a) ==
    \/ \E i \in Ids : ExecuteClose(a, i) \/ CloseRejected(a, i)
    \/ ReleaseCapital(a)
    \/ DeletePosition(a)
    \/ RecordClose(a)

Tick ==
    \/ \E p \in Pairs : TickStart(p)
    \/ TickHold
    \/ TickSize
    \/ TickRisk
    \/ TickReserve
    \/ TickExecute
    \/ TickUndo
    \/ TickRecord
    \/ TickOpen
    \/ TickClose

LoopStep ==
    \/ LoopSettingsChanged
    \/ LoopTimer
    \/ Tick
    \/ CheckStopLosses
    \/ StopLossesDone
    \/ Reevaluate(Loop)
    \/ ClosePosition(Loop)

HandlerStep(h) ==
    \/ \E s \in SettingsPushes : UpdateSettings(h, s)
    \/ Reevaluate(h)
    \/ ClosePosition(h)

Environment ==
    \/ \E a \in Actors : DatabaseFails(a)
    \/ PersistSnapshot
    \/ Restart
    \/ \E amount \in OtherAmounts : PolymarketReserve(amount) \/ PolymarketRelease(amount)

Next ==
    \/ LoopStep
    \/ \E h \in Handlers : HandlerStep(h)
    \/ Environment

Spec == Init /\ [][Next]_vars

\* The loop's task is scheduled, its awaits are answered, and a select! that
\* finds the settings changed time and again takes that branch at last.
LoopFairness ==
    /\ WF_vars(LoopStep)
    /\ SF_vars(LoopSettingsChanged)

FairSpec == Spec /\ LoopFairness

-----------------------------------------------------------------------------
(* Properties.                                                             *)

\* No module can spend capital that is not there: neither stale balances nor two
\* modules reserving at once take available_balance below zero, as long as no Sell
\* costs more than it brings in.
AvailableNotNegative == portfolio.available >= 0

\* The total that is reported is what is available plus what the modules hold,
\* and it has moved from the starting balance by exactly the realised result.
\* That holds across crashes, for the snapshot a restart loads agrees with itself.
Balanced(p) ==
    /\ p.total = Worth(p)
    /\ p.total = InitialBalance + p.realized

BooksBalance == Balanced(portfolio) /\ Balanced(snapshot)

\* check_risk refuses a second position in a pair; what it saw still holds at
\* the insert several awaits later, because nobody but the loop inserts.
OnePositionPerPair ==
    \A i, j \in open : book[i].pair = book[j].pair => i = j

\* Opening a position never takes the table beyond the max_open_positions that
\* the tick read at its start.
OpensWithinLimit ==
    [][opened' > opened =>
         \/ cfg[Loop].max < 0
         \/ Cardinality(open') <= cfg[Loop].max]_vars

\* The loop is back in its select! and has seen the newest settings.
Settled == phase[Loop] = "idle" /\ ~changed

\* Once the loop has settled, a position in a pair that is no longer allowed is
\* one whose closing order the executor refused.  A tick that was under way when
\* the push came may open such a position after the handler has read the table:
\* it is the loop's own re-evaluation that closes it.
SettledPairsAllowed ==
    Settled /\ faults = 0 =>
        \A i \in open \ rejected : book[i].pair \in settings.pairs

\* "Recalculate stop-loss prices using the new stop_loss_pct": once everyone has
\* settled, every stop-loss was computed with the settings in force, but for the
\* rows the executor refused to close, which no re-evaluation kept.
SettledStopsCurrent ==
    Settled /\ faults = 0 /\ (\A h \in Handlers : phase[h] = "idle") =>
        \A i \in open \ rejected : book[i].stop = settings.stop

\* A position in a pair the settings forbid is closed in the end, if the
\* executor and the database do their work.
ForbiddenPairsClosed ==
    \A p \in Pairs :
        (p \notin settings.pairs) ~>
            \/ p \in settings.pairs
            \/ \A i \in open : book[i].pair # p
=============================================================================
