---------------------------- MODULE TradingLedger ----------------------------
(***************************************************************************)
(* TradingWorker measured against FundsLedger: what the trading module     *)
(* holds, order by order and position by position, against the allocation  *)
(* the portfolio keeps for it.                                             *)
(***************************************************************************)
EXTENDS TradingWorker, Totals

\* allocated_capital of every row.
CapitalOf == [i \in Ids |-> book[i].capital]

\* Positions whose capital has been released but whose row is still there.
BeingDeleted == {row[a] : a \in {b \in Actors : step[b] = "delete"}}

\* The order under way is holder 0; a position is held under its id.
OrderHolds ==
    IF phase[Loop] = "tick" /\ step[Loop] \in {"order", "undo", "log", "book"}
    THEN order.capital ELSE 0

Holding ==
    [h \in Ids \cup {0} |->
        IF h = 0 THEN OrderHolds
        ELSE IF h \in open \ BeingDeleted THEN book[h].capital ELSE 0]

Ledger == INSTANCE FundsLedger
    WITH Holders <- Ids \cup {0},
         free <- portfolio.available,
         committed <- portfolio.allocated["trading"],
         held <- Holding

\* "call reserve_funds before execution and release_funds when closing
\* positions": every step of the trading module is one of reserving, handing an
\* order's capital over to its position, and settling a holder once.
ImplementsLedger == Ledger!Spec

\* The allocation the portfolio shows for trading is exactly what the order under
\* way and the open positions hold.
AllocationExact ==
    portfolio.allocated["trading"] = Total(Holding, Ids \cup {0})

\* The allocation covers the capital of the open positions, but for those whose
\* capital has just been released: closing a position releases its capital once.
AllocationCoversOpen ==
    portfolio.allocated["trading"] >= Total(CapitalOf, open \ BeingDeleted)

\* As long as nobody but the loop has closed anything and no statement has failed,
\* closing a position releases its capital once, whatever its orders reported.
AloneCoversOpen ==
    pushes = 0 /\ faults = 0 /\ restarts = 0 => AllocationCoversOpen

Distance(x, y) == IF x >= y THEN x - y ELSE y - x

\* As long as nobody but the loop has closed anything and the worker has not been
\* restarted, the allocation is off from what the order under way and the open
\* positions hold by exactly what orders have left over, give or take what the failed
\* statements had in hand: no error path misplaces more than that, and none makes up
\* for another's.
FaultsAreContained ==
    pushes = 0 /\ restarts = 0 =>
        Distance(portfolio.allocated["trading"], Total(Holding, Ids \cup {0}) + leftOver)
            <= atFault
=============================================================================
