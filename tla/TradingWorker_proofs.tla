------------------------ MODULE TradingWorker_proofs ------------------------
(***************************************************************************)
(* The trading side, for every set of pairs, handlers and settings, every  *)
(* balance and every bound.  In this order:                                *)
(*                                                                         *)
(*   - its types;                                                          *)
(*   - the table of open positions: one position a pair, none beyond the   *)
(*     limit the tick read, none left in a forbidden pair and none with a  *)
(*     stale stop-loss once the loop has caught up with the settings;      *)
(*   - the portfolio's own books, under every interleaving;                *)
(*   - what they are a ledger of, when the loop is alone.                  *)
(***************************************************************************)
EXTENDS TradingLedger, Accounts_proofs

(* A share of the balance is an amount, and one that is not negative when  *)
(* the balance is not (sizing in tick()).                                  *)
LEMMA CapType ==
  ASSUME NEW b \in Nat PROVE PositionCap(b) \in Nat
BY MoneyAssumption DEF PositionCap

(* A share of any balance is an amount.                                    *)
LEMMA CapInt ==
  ASSUME NEW b \in Int PROVE PositionCap(b) \in Int
BY MoneyAssumption DEF PositionCap

(* What an order fills is an amount.                                       *)
LEMMA FillType ==
  ASSUME NEW f \in Fillings, NEW c \in Int PROVE FillOf(f, c) \in Int
BY ChoiceAssumption DEF FillOf

-----------------------------------------------------------------------------

(* Returning leaves every actor with a phase, a step, settings and rows.   *)
LEMMA ReturnActors ==
  ASSUME ActorsOK, NEW a \in Actors, Return(a) PROVE ActorsOK'
BY SettingsAssumption DEF ActorsOK, Return, GoTo, Phases, Steps

(* So does going on to the next ticker ...                                 *)
LEMMA NextTickerActors ==
  ASSUME ActorsOK, NextTicker PROVE ActorsOK'
BY SettingsAssumption DEF ActorsOK, NextTicker, GoTo, Phases, Steps, Actors

(* ... which puts the blank order in place of the last one.                *)
LEMMA NextTickerTicks ==
  ASSUME TicksOK, NextTicker, UNCHANGED queue PROVE TicksOK'
BY SettingsAssumption DEF TicksOK, NextTicker, NoOrder, NewOrder, NoPair, Orders

-----------------------------------------------------------------------------

\* The loop is inside tick(), at one of the given steps.
Trading(steps) == phase[Loop] = "tick" /\ step[Loop] \in steps

\* The steps between the sizing of a signal and the end of its tick.
Sized == {"risk", "reserve", "order", "undo", "log", "book"}

\* An actor that is closing a row has one in hand: without it, the capital that
\* ReleaseCapital gives back would be that of no row.
RowInHand ==
    \A a \in Actors : step[a] \in {"release", "delete", "record"} => row[a] \in Ids

\* A Buy under way still finds a free id: the bound is checked when the signal is
\* sized and only the loop inserts rows.
RoomToOpen == Trading(Sized) /\ order.side = "buy" => opened < MaxOpened

\* TypeOK is not inductive by itself: the two facts above make it so.
TypeInv == TypeOK /\ RowInHand /\ RoomToOpen

(* The worker starts in a state of the right types.                        *)
LEMMA InitType == Init => TypeInv
<1>1. Init => TypeOK
  BY SettingsAssumption, MoneyAssumption, BoundAssumption
     DEF Init, TypeOK, MoneyOK, TableOK, HubOK, ActorsOK, TicksOK, NotesOK,
         StartingPortfolio, PortfolioState, Row, NoRow, NoPair, NoOrder, NewOrder,
         Orders, Settings, Phases, Steps
<1>2. Init => RowInHand /\ RoomToOpen
  BY DEF Init, RowInHand, RoomToOpen, Trading, Sized, NoOrder, NewOrder
<1>. QED
  BY <1>1, <1>2 DEF TypeInv

(* Every step keeps the types: one step of the proof per action, and under *)
(* it one per conjunct that the action can disturb.                        *)
LEMMA TypeStep == TypeInv /\ [Next]_vars => TypeInv'
<1>. SUFFICES ASSUME MoneyOK, TableOK, HubOK, ActorsOK, TicksOK, NotesOK,
                     RowInHand, RoomToOpen, [Next]_vars
              PROVE  TypeInv'
  BY DEF TypeInv, TypeOK
<1>1. ASSUME NEW h \in Handlers, NEW s \in SettingsPushes, UpdateSettings(h, s) PROVE TypeInv'
  <2>1. HubOK'
    BY <1>1, SettingsAssumption DEF HubOK, UpdateSettings
  <2>2. ActorsOK'
    BY <1>1, SettingsAssumption
       DEF ActorsOK, UpdateSettings, GoTo, Actors, Phases, Steps, At
  <2>3. NotesOK'
    BY <1>1, BoundAssumption DEF NotesOK, UpdateSettings, notes
  <2>4. RowInHand'
    BY <1>1 DEF RowInHand, UpdateSettings, ActorsOK, GoTo, Actors, Phases, Steps, At
  <2>5. RoomToOpen'
    BY <1>1, ActorAssumption
       DEF RoomToOpen, UpdateSettings, ActorsOK, GoTo, Actors, Phases, Steps, At,
           TableOK, TicksOK, Trading, Sized, table, ticks, Orders
  <2>. QED
    BY <1>1, <2>1, <2>2, <2>3, <2>4, <2>5
       DEF TypeInv, TypeOK, UpdateSettings, MoneyOK, TableOK, TicksOK, money, table,
           ticks
<1>2. ASSUME LoopSettingsChanged PROVE TypeInv'
  <2>1. HubOK'
    BY <1>2, SettingsAssumption DEF HubOK, LoopSettingsChanged
  <2>2. ActorsOK'
    BY <1>2 DEF ActorsOK, LoopSettingsChanged, GoTo, Actors, Phases, Steps, HubOK
  <2>3. RowInHand'
    BY <1>2 DEF RowInHand, LoopSettingsChanged, ActorsOK, GoTo, Actors, Phases, Steps, At
  <2>4. RoomToOpen'
    BY <1>2, ActorAssumption
       DEF RoomToOpen, LoopSettingsChanged, ActorsOK, GoTo, Actors, Phases, Steps, At,
           TableOK, TicksOK, Trading, Sized, table, ticks, Orders
  <2>. QED
    BY <1>2, <2>1, <2>2, <2>3, <2>4
       DEF TypeInv, TypeOK, LoopSettingsChanged, MoneyOK, TableOK, TicksOK, NotesOK,
           money, table, ticks, notes, counts
<1>3. ASSUME NEW a \in Actors, ReadPositions(a) PROVE TypeInv'
  <2>1. ActorsOK'
    BY <1>3, SettingsAssumption DEF ActorsOK, ReadPositions, GoTo, Phases, Steps, TableOK
  <2>2. RowInHand'
    BY <1>3 DEF RowInHand, ReadPositions, ActorsOK, GoTo, Actors, Phases, Steps, At
  <2>3. RoomToOpen'
    BY <1>3, ActorAssumption
       DEF RoomToOpen, ReadPositions, ActorsOK, GoTo, Actors, Phases, Steps, At,
           TableOK, TicksOK, Trading, Sized, table, ticks, Orders
  <2>. QED
    BY <1>3, <2>1, <2>2, <2>3
       DEF TypeInv, TypeOK, ReadPositions, MoneyOK, TableOK, HubOK, TicksOK, NotesOK,
           money, table, hub, ticks, notes, counts
<1>4. ASSUME NEW a \in Actors, RemovedDone(a) PROVE TypeInv'
  <2>1. ActorsOK'
    BY <1>4, SettingsAssumption DEF ActorsOK, RemovedDone, GoTo, Actors, Phases, Steps, At
  <2>2. RowInHand'
    BY <1>4 DEF RowInHand, RemovedDone, ActorsOK, GoTo, Actors, Phases, Steps, At
  <2>3. RoomToOpen'
    BY <1>4, ActorAssumption
       DEF RoomToOpen, RemovedDone, ActorsOK, GoTo, Actors, Phases, Steps, At, TableOK,
           TicksOK, Trading, Sized, table, ticks, Orders
  <2>. QED
    BY <1>4, <2>1, <2>2, <2>3
       DEF TypeInv, TypeOK, RemovedDone, MoneyOK, TableOK, HubOK, TicksOK, NotesOK,
           money, table, hub, ticks, notes, counts
<1>5. ASSUME NEW a \in Actors, NEW i \in Ids, Restop(a, i) PROVE TypeInv'
  <2>1. TableOK'
    <3>1. cfg[a].stop \in Stops
      BY DEF ActorsOK, Settings
    <3>2. CASE book' = [book EXCEPT ![i].stop = cfg[a].stop]
      BY <1>5, <3>1, <3>2 DEF TableOK, Restop, Row
    <3>3. CASE UNCHANGED book
      BY <1>5, <3>3 DEF TableOK, Restop
    <3>. QED
      BY <1>5, <3>2, <3>3 DEF Restop
  <2>2. ActorsOK'
    BY <1>5, ReturnActors DEF ActorsOK, Restop, place
  <2>3. RowInHand'
    BY <1>5 DEF RowInHand, Restop, ActorsOK, GoTo, Return, Actors, Phases, Steps, place, At
  <2>4. RoomToOpen'
    BY <1>5, ActorAssumption
       DEF RoomToOpen, Restop, ActorsOK, GoTo, Return, Actors, Phases, Steps, place, At,
           TableOK, TicksOK, Trading, Sized, ticks, Orders
  <2>. QED
    BY <1>5, <2>1, <2>2, <2>3, <2>4
       DEF TypeInv, TypeOK, Restop, MoneyOK, HubOK, TicksOK, NotesOK, money, hub, ticks,
           notes, counts
<1>6. ASSUME NEW a \in Actors, RestopDone(a) PROVE TypeInv'
  <2>1. ActorsOK'
    BY <1>6 DEF ActorsOK, RestopDone, GoTo, Phases, Steps, Excess
  <2>2. RowInHand'
    BY <1>6 DEF RowInHand, RestopDone, ActorsOK, GoTo, Actors, Phases, Steps, At
  <2>3. RoomToOpen'
    BY <1>6, ActorAssumption
       DEF RoomToOpen, RestopDone, ActorsOK, GoTo, Actors, Phases, Steps, At, TableOK,
           TicksOK, Trading, Sized, table, ticks, Orders
  <2>. QED
    BY <1>6, <2>1, <2>2, <2>3
       DEF TypeInv, TypeOK, RestopDone, MoneyOK, TableOK, HubOK, TicksOK, NotesOK,
           money, table, hub, ticks, notes, counts
<1>7. ASSUME NEW a \in Actors, ReevaluateDone(a) PROVE TypeInv'
  <2>1. ActorsOK'
    BY <1>7, SettingsAssumption
       DEF ActorsOK, ReevaluateDone, GoTo, Return, Actors, Phases, Steps, At
  <2>2. RowInHand'
    BY <1>7 DEF RowInHand, ReevaluateDone, ActorsOK, GoTo, Return, Actors, Phases, Steps, At
  <2>3. RoomToOpen'
    BY <1>7, ActorAssumption
       DEF RoomToOpen, ReevaluateDone, ActorsOK, GoTo, Return, Actors, Phases, Steps,
           At, TableOK, TicksOK, Trading, Sized, table, ticks, Orders
  <2>. QED
    BY <1>7, <2>1, <2>2, <2>3
       DEF TypeInv, TypeOK, ReevaluateDone, MoneyOK, TableOK, HubOK, TicksOK, NotesOK,
           money, table, hub, ticks, notes, counts
<1>8. ASSUME NEW a \in Actors, NEW i \in Ids, ExecuteClose(a, i) PROVE TypeInv'
  <2>1. ActorsOK'
    BY <1>8, SettingsAssumption DEF ActorsOK, ExecuteClose, GoTo, Actors, Phases, Steps
  <2>2. NotesOK'
    BY <1>8, BoundAssumption DEF NotesOK, ExecuteClose, spilt, counts
  <2>3. RowInHand'
    BY <1>8 DEF RowInHand, ExecuteClose, ActorsOK, GoTo, Actors, Phases, Steps
  <2>4. RoomToOpen'
    BY <1>8, ActorAssumption
       DEF RoomToOpen, ExecuteClose, ActorsOK, GoTo, Actors, Phases, Steps, TableOK,
           TicksOK, Trading, Sized, table, ticks, Orders
  <2>. QED
    BY <1>8, <2>1, <2>2, <2>3, <2>4
       DEF TypeInv, TypeOK, ExecuteClose, MoneyOK, TableOK, HubOK, TicksOK, money,
           table, hub, ticks
<1>9. ASSUME NEW a \in Actors, NEW i \in Ids, CloseRejected(a, i) PROVE TypeInv'
  <2>1. ActorsOK'
    BY <1>9, SettingsAssumption DEF ActorsOK, CloseRejected, Actors, Phases, Steps, place
  <2>2. NotesOK'
    BY <1>9, BoundAssumption DEF NotesOK, CloseRejected, spilt, counts
  <2>3. RowInHand'
    BY <1>9 DEF RowInHand, CloseRejected, ActorsOK, Actors, Phases, Steps, place
  <2>4. RoomToOpen'
    BY <1>9, ActorAssumption
       DEF RoomToOpen, CloseRejected, ActorsOK, Actors, Phases, Steps, place, TableOK,
           TicksOK, Trading, Sized, table, ticks, Orders
  <2>. QED
    BY <1>9, <2>1, <2>2, <2>3, <2>4
       DEF TypeInv, TypeOK, CloseRejected, MoneyOK, TableOK, HubOK, TicksOK, money,
           table, hub, ticks
<1>10. ASSUME NEW a \in Actors, ReleaseCapital(a) PROVE TypeInv'
  <2>1. MoneyOK'
    <3>1. book[row[a]].capital \in Int
      BY <1>10 DEF ReleaseCapital, RowInHand, TableOK, Row
    <3>2. PICK proceeds \in Proceeds(a) :
            portfolio' = Release(portfolio, book[row[a]].capital,
                                 proceeds - book[row[a]].capital, "trading")
      BY <1>10 DEF ReleaseCapital
    <3>3. proceeds - book[row[a]].capital \in Int
      BY <3>1, MoneyAssumption DEF Proceeds
    <3>4. portfolio' \in PortfolioState
      BY <3>1, <3>2, <3>3, ReleaseType DEF MoneyOK, Modules
    <3> QED
      BY <1>10, <3>4 DEF MoneyOK, ReleaseCapital
  <2>2. ActorsOK'
    BY <1>10, SettingsAssumption
       DEF ActorsOK, ReleaseCapital, GoTo, Actors, Phases, Steps, hands
  <2>3. RowInHand'
    BY <1>10 DEF RowInHand, ReleaseCapital, ActorsOK, GoTo, Actors, Phases, Steps, hands
  <2>4. RoomToOpen'
    BY <1>10, ActorAssumption
       DEF RoomToOpen, ReleaseCapital, ActorsOK, GoTo, Actors, Phases, Steps, hands,
           TableOK, TicksOK, Trading, Sized, table, ticks, Orders
  <2>. QED
    BY <1>10, <2>1, <2>2, <2>3, <2>4
       DEF TypeInv, TypeOK, ReleaseCapital, TableOK, HubOK, TicksOK, NotesOK, table,
           hub, ticks, notes, counts
<1>11. ASSUME NEW a \in Actors, DeletePosition(a) PROVE TypeInv'
  <2>1. TableOK'
    BY <1>11, BoundAssumption DEF TableOK, DeletePosition, Ids, Row, ActorsOK
  <2>2. ActorsOK'
    BY <1>11, NextTickerActors DEF ActorsOK, DeletePosition, GoTo, Phases, Steps, hands
  <2>3. TicksOK'
    BY <1>11, NextTickerTicks DEF TicksOK, DeletePosition
  <2>4. RowInHand'
    BY <1>11
       DEF RowInHand, DeletePosition, ActorsOK, GoTo, NextTicker, Actors, Phases, Steps,
           hands
  <2>5. RoomToOpen'
    BY <1>11, ActorAssumption
       DEF RoomToOpen, DeletePosition, ActorsOK, GoTo, NextTicker, Actors, Phases,
           Steps, hands, TableOK, TicksOK, Trading, Sized, NoOrder, NewOrder, Orders
  <2>. QED
    BY <1>11, <2>1, <2>2, <2>3, <2>4, <2>5
       DEF TypeInv, TypeOK, DeletePosition, MoneyOK, HubOK, NotesOK, money, hub, notes,
           counts
<1>12. ASSUME NEW a \in Actors, RecordClose(a) PROVE TypeInv'
  <2>1. ActorsOK'
    BY <1>12, SettingsAssumption DEF ActorsOK, RecordClose, GoTo, Actors, Phases, Steps
  <2>2. NotesOK'
    BY <1>12, BoundAssumption DEF NotesOK, RecordClose, spilt, counts
  <2>3. RowInHand'
    BY <1>12 DEF RowInHand, RecordClose, ActorsOK, GoTo, Actors, Phases, Steps
  <2>4. RoomToOpen'
    BY <1>12, ActorAssumption
       DEF RoomToOpen, RecordClose, ActorsOK, GoTo, Actors, Phases, Steps, TableOK,
           TicksOK, Trading, Sized, table, ticks, Orders
  <2>. QED
    BY <1>12, <2>1, <2>2, <2>3, <2>4
       DEF TypeInv, TypeOK, RecordClose, MoneyOK, TableOK, HubOK, TicksOK, money, table,
           hub, ticks
<1>13. ASSUME LoopTimer PROVE TypeInv'
  <2>1. ActorsOK'
    BY <1>13, SettingsAssumption
       DEF ActorsOK, LoopTimer, GoTo, Actors, Phases, Steps, hands, At
  <2>2. TicksOK'
    BY <1>13 DEF TicksOK, LoopTimer, HubOK
  <2>3. RowInHand'
    BY <1>13 DEF RowInHand, LoopTimer, ActorsOK, GoTo, Actors, Phases, Steps, hands, At
  <2>4. RoomToOpen'
    BY <1>13, ActorAssumption
       DEF RoomToOpen, LoopTimer, ActorsOK, GoTo, Actors, Phases, Steps, hands, At,
           TableOK, TicksOK, Trading, Sized, table, Orders
  <2>. QED
    BY <1>13, <2>1, <2>2, <2>3, <2>4
       DEF TypeInv, TypeOK, LoopTimer, MoneyOK, TableOK, HubOK, NotesOK, money, table,
           hub, notes, counts
<1>14. ASSUME NEW p \in Pairs, TickStart(p) PROVE TypeInv'
  <2>1. ActorsOK'
    BY <1>14 DEF ActorsOK, TickStart, GoTo, Phases, Steps, Actors, HubOK, place
  <2>2. TicksOK'
    <3>1. CASE order' = NewOrder(p)
      BY <1>14, <3>1 DEF TicksOK, TickStart, NewOrder, Orders
    <3>2. CASE UNCHANGED order
      BY <1>14, <3>2 DEF TicksOK, TickStart
    <3>. QED
      BY <1>14, <3>1, <3>2 DEF TickStart
  <2>3. RowInHand'
    BY <1>14 DEF RowInHand, TickStart, ActorsOK, GoTo, Actors, Phases, Steps, place, At
  <2>4. RoomToOpen'
    BY <1>14, ActorAssumption
       DEF RoomToOpen, TickStart, ActorsOK, GoTo, Actors, Phases, Steps, place, At,
           TableOK, TicksOK, Trading, Sized, table, NewOrder, Orders
  <2>. QED
    BY <1>14, <2>1, <2>2, <2>3, <2>4
       DEF TypeInv, TypeOK, TickStart, MoneyOK, TableOK, HubOK, NotesOK, money, table,
           hub, notes, counts
<1>15. ASSUME TickHold PROVE TypeInv'
  <2>1. ActorsOK'
    BY <1>15, SettingsAssumption
       DEF ActorsOK, TickHold, GoTo, NextTicker, Actors, Phases, Steps, At
  <2>2. TicksOK'
    BY <1>15, NextTickerTicks DEF TickHold
  <2>3. RowInHand'
    BY <1>15 DEF RowInHand, TickHold, ActorsOK, GoTo, NextTicker, Actors, Phases, Steps, At
  <2>4. RoomToOpen'
    BY <1>15, ActorAssumption
       DEF RoomToOpen, TickHold, ActorsOK, GoTo, NextTicker, Actors, Phases, Steps, At,
           TableOK, TicksOK, Trading, Sized, table, NoOrder, NewOrder, Orders
  <2>. QED
    BY <1>15, <2>1, <2>2, <2>3, <2>4
       DEF TypeInv, TypeOK, TickHold, MoneyOK, TableOK, HubOK, NotesOK, money, table,
           hub, notes, counts
<1>16. ASSUME TickSize PROVE TypeInv'
  <2>1. ActorsOK'
    BY <1>16, SettingsAssumption
       DEF ActorsOK, TickSize, GoTo, Actors, Phases, Steps, hands, At
  <2>2. TicksOK'
    <3>1. PositionCap(portfolio.available) \in Int
      BY CapInt DEF MoneyOK, PortfolioState
    <3>2. PICK side \in Sides :
            order' = [order EXCEPT !.side = side,
                                   !.capital = PositionCap(portfolio.available)]
      BY <1>16 DEF TickSize
    <3>3. side \in {"buy", "sell", "none"}
      BY ChoiceAssumption
    <3>. QED
      BY <1>16, <3>1, <3>2, <3>3 DEF TicksOK, TickSize, Orders
  <2>3. RowInHand'
    BY <1>16 DEF RowInHand, TickSize, ActorsOK, GoTo, Actors, Phases, Steps, hands, At
  <2>4. RoomToOpen'
    BY <1>16, ActorAssumption
       DEF RoomToOpen, TickSize, ActorsOK, GoTo, Actors, Phases, Steps, hands, At,
           TableOK, TicksOK, Trading, Sized, table, Orders
  <2>. QED
    BY <1>16, <2>1, <2>2, <2>3, <2>4
       DEF TypeInv, TypeOK, TickSize, MoneyOK, TableOK, HubOK, NotesOK, money, table,
           hub, notes, counts
<1>17. ASSUME TickRisk PROVE TypeInv'
  <2>1. ActorsOK'
    BY <1>17, SettingsAssumption
       DEF ActorsOK, TickRisk, GoTo, NextTicker, Actors, Phases, Steps, hands, At
  <2>2. TicksOK'
    BY <1>17, NextTickerTicks DEF TickRisk, TicksOK
  <2>3. RowInHand'
    BY <1>17
       DEF RowInHand, TickRisk, ActorsOK, GoTo, NextTicker, Actors, Phases, Steps,
           hands, At
  <2>4. RoomToOpen'
    BY <1>17, ActorAssumption
       DEF RoomToOpen, TickRisk, ActorsOK, GoTo, NextTicker, Actors, Phases, Steps,
           hands, At, TableOK, TicksOK, Trading, Sized, table, NoOrder, NewOrder, Orders
  <2>. QED
    BY <1>17, <2>1, <2>2, <2>3, <2>4
       DEF TypeInv, TypeOK, TickRisk, MoneyOK, TableOK, HubOK, NotesOK, money, table,
           hub, notes, counts
<1>18. ASSUME TickReserve PROVE TypeInv'
  <2>1. MoneyOK'
    BY <1>18, ReserveType DEF MoneyOK, TickReserve, TicksOK, Orders, Modules
  <2>2. ActorsOK'
    BY <1>18, SettingsAssumption
       DEF ActorsOK, TickReserve, GoTo, NextTicker, Actors, Phases, Steps, hands, At
  <2>3. TicksOK'
    BY <1>18, NextTickerTicks DEF TickReserve, TicksOK
  <2>4. RowInHand'
    BY <1>18
       DEF RowInHand, TickReserve, ActorsOK, GoTo, NextTicker, Actors, Phases, Steps,
           hands, At
  <2>5. RoomToOpen'
    BY <1>18, ActorAssumption
       DEF RoomToOpen, TickReserve, ActorsOK, GoTo, NextTicker, Actors, Phases, Steps,
           hands, At, TableOK, TicksOK, Trading, Sized, table, NoOrder, NewOrder, Orders
  <2>. QED
    BY <1>18, <2>1, <2>2, <2>3, <2>4, <2>5
       DEF TypeInv, TypeOK, TickReserve, TableOK, HubOK, NotesOK, table, hub, notes,
           counts
<1>19. ASSUME TickExecute PROVE TypeInv'
  <2>1. ActorsOK'
    BY <1>19, SettingsAssumption
       DEF ActorsOK, TickExecute, GoTo, Actors, Phases, Steps, hands, At
  <2>2. TicksOK'
    <3>1. CASE UNCHANGED order
      BY <1>19, <3>1 DEF TickExecute, TicksOK
    <3>2. ASSUME NEW filling \in Fillings,
                 order' = [order EXCEPT !.fill = FillOf(filling, order.capital),
                                        !.booked = filling # "unfilled"]
          PROVE  TicksOK'
      <4>1. FillOf(filling, order.capital) \in Int
        BY FillType DEF TicksOK, Orders
      <4>. QED
        BY <1>19, <3>2, <4>1 DEF TickExecute, TicksOK, Orders
    <3>. QED
      BY <1>19, <3>1, <3>2 DEF TickExecute
  <2>3. NotesOK'
    <3>1. unrecorded' \in {unrecorded, unrecorded + 1}
      BY <1>19 DEF TickExecute
    <3>2. UNCHANGED <<rejected, leftOver, atFault, faults, restarts, pushes>>
      BY <1>19 DEF TickExecute, spilt, counts
    <3>. QED
      BY <3>1, <3>2 DEF NotesOK
  <2>4. RowInHand'
    BY <1>19 DEF RowInHand, TickExecute, ActorsOK, GoTo, Actors, Phases, Steps, hands, At
  <2>5. RoomToOpen'
    BY <1>19, ActorAssumption
       DEF RoomToOpen, TickExecute, ActorsOK, GoTo, Actors, Phases, Steps, hands, At,
           TableOK, TicksOK, Trading, Sized, table, Orders
  <2>. QED
    BY <1>19, <2>1, <2>2, <2>3, <2>4, <2>5
       DEF TypeInv, TypeOK, TickExecute, MoneyOK, TableOK, HubOK, money, table, hub
<1>20. ASSUME TickUndo PROVE TypeInv'
  <2>1. MoneyOK'
    BY <1>20, ReleaseType DEF MoneyOK, TickUndo, TicksOK, Orders, Modules
  <2>2. ActorsOK'
    BY <1>20, SettingsAssumption
       DEF ActorsOK, TickUndo, GoTo, NextTicker, Actors, Phases, Steps, At
  <2>3. TicksOK'
    BY <1>20, NextTickerTicks DEF TickUndo
  <2>4. RowInHand'
    BY <1>20 DEF RowInHand, TickUndo, ActorsOK, GoTo, NextTicker, Actors, Phases, Steps, At
  <2>5. RoomToOpen'
    BY <1>20, ActorAssumption
       DEF RoomToOpen, TickUndo, ActorsOK, GoTo, NextTicker, Actors, Phases, Steps, At,
           TableOK, TicksOK, Trading, Sized, table, NoOrder, NewOrder, Orders
  <2>. QED
    BY <1>20, <2>1, <2>2, <2>3, <2>4, <2>5
       DEF TypeInv, TypeOK, TickUndo, TableOK, HubOK, NotesOK, table, hub, notes, counts
<1>21. ASSUME TickRecord PROVE TypeInv'
  <2>1. ActorsOK'
    BY <1>21, SettingsAssumption
       DEF ActorsOK, TickRecord, GoTo, NextTicker, Actors, Phases, Steps, hands, At
  <2>2. TicksOK'
    BY <1>21, NextTickerTicks DEF TickRecord, TicksOK
  <2>3. NotesOK'
    <3>1. order.capital \in Int
      BY DEF TicksOK, Orders
    <3> QED
      BY <1>21, <3>1, BoundAssumption DEF NotesOK, TickRecord, counts
  <2>4. RowInHand'
    BY <1>21
       DEF RowInHand, TickRecord, ActorsOK, GoTo, NextTicker, Actors, Phases, Steps,
           hands, At
  <2>5. RoomToOpen'
    BY <1>21, ActorAssumption
       DEF RoomToOpen, TickRecord, ActorsOK, GoTo, NextTicker, Actors, Phases, Steps,
           hands, At, TableOK, TicksOK, Trading, Sized, table, NoOrder, NewOrder, Orders
  <2>. QED
    BY <1>21, <2>1, <2>2, <2>3, <2>4, <2>5
       DEF TypeInv, TypeOK, TickRecord, MoneyOK, TableOK, HubOK, money, table, hub
<1>22. ASSUME TickOpen PROVE TypeInv'
  <2>1. TableOK'
    <3>1. opened < MaxOpened
      BY <1>22 DEF TickOpen, RoomToOpen, Trading, Sized, At
    <3>2. opened' \in Ids
      BY <1>22, <3>1, BoundAssumption DEF TickOpen, TableOK, Ids
    <3>3. [pair |-> order.pair, capital |-> order.fill, stop |-> cfg[Loop].stop] \in Row
      BY DEF TicksOK, Orders, Row, ActorsOK, Settings, Actors
    <3>. QED
      BY <1>22, <3>1, <3>2, <3>3, BoundAssumption DEF TickOpen, TableOK
  <2>2. ActorsOK'
    BY <1>22, SettingsAssumption
       DEF ActorsOK, TickOpen, GoTo, NextTicker, Actors, Phases, Steps, At
  <2>3. TicksOK'
    BY <1>22, NextTickerTicks DEF TickOpen
  <2>4. RowInHand'
    BY <1>22 DEF RowInHand, TickOpen, ActorsOK, GoTo, NextTicker, Actors, Phases, Steps, At
  <2>5. RoomToOpen'
    BY <1>22, ActorAssumption
       DEF RoomToOpen, TickOpen, ActorsOK, GoTo, NextTicker, Actors, Phases, Steps, At,
           TableOK, TicksOK, Trading, Sized, NoOrder, NewOrder, Orders
  <2>. QED
    BY <1>22, <2>1, <2>2, <2>3, <2>4, <2>5
       DEF TypeInv, TypeOK, TickOpen, MoneyOK, HubOK, NotesOK, money, hub, notes, counts
<1>23. ASSUME TickClose PROVE TypeInv'
  <2>1. ActorsOK'
    BY <1>23, NextTickerActors DEF TickClose, ActorsOK, TableOK, GoTo, Phases, Steps
  <2>2. TicksOK'
    BY <1>23, NextTickerTicks DEF TickClose, TicksOK
  <2>3. RowInHand'
    BY <1>23 DEF RowInHand, TickClose, ActorsOK, TableOK, GoTo, NextTicker, Actors
  <2>4. RoomToOpen'
    BY <1>23, ActorAssumption
       DEF RoomToOpen, TickClose, ActorsOK, GoTo, NextTicker, Actors, Phases, Steps, At,
           TableOK, TicksOK, Trading, Sized, table, NoOrder, NewOrder, Orders
  <2>. QED
    BY <1>23, <2>1, <2>2, <2>3, <2>4
       DEF TypeInv, TypeOK, TickClose, MoneyOK, TableOK, HubOK, NotesOK, money, table,
           hub, notes, counts
<1>24. ASSUME CheckStopLosses PROVE TypeInv'
  <2>1. ActorsOK'
    BY <1>24 DEF CheckStopLosses, ActorsOK, TableOK, GoTo, Phases, Steps
  <2>2. RowInHand'
    BY <1>24 DEF RowInHand, CheckStopLosses, ActorsOK, GoTo, Actors, Phases, Steps, At
  <2>3. RoomToOpen'
    BY <1>24, ActorAssumption
       DEF RoomToOpen, CheckStopLosses, ActorsOK, GoTo, Actors, Phases, Steps, At,
           TableOK, TicksOK, Trading, Sized, table, ticks, Orders
  <2>. QED
    BY <1>24, <2>1, <2>2, <2>3
       DEF TypeInv, TypeOK, CheckStopLosses, MoneyOK, TableOK, HubOK, TicksOK, NotesOK,
           money, table, hub, ticks, notes, counts
<1>25. ASSUME StopLossesDone PROVE TypeInv'
  <2>1. ActorsOK'
    BY <1>25, SettingsAssumption
       DEF ActorsOK, StopLossesDone, GoTo, Return, Actors, Phases, Steps, At
  <2>2. RowInHand'
    BY <1>25
       DEF RowInHand, StopLossesDone, ActorsOK, GoTo, Return, Actors, Phases, Steps, At
  <2>3. RoomToOpen'
    BY <1>25, ActorAssumption
       DEF RoomToOpen, StopLossesDone, ActorsOK, GoTo, Return, Actors, Phases, Steps,
           At, TableOK, TicksOK, Trading, Sized, table, ticks, Orders
  <2>. QED
    BY <1>25, <2>1, <2>2, <2>3
       DEF TypeInv, TypeOK, StopLossesDone, MoneyOK, TableOK, HubOK, TicksOK, NotesOK,
           money, table, hub, ticks, notes, counts
<1>26. ASSUME NEW a \in Actors, DatabaseFails(a) PROVE TypeInv'
  <2>1. ActorsOK'
    BY <1>26, NextTickerActors, ReturnActors DEF DatabaseFails
  <2>2. TicksOK'
    BY <1>26, NextTickerTicks DEF DatabaseFails, TicksOK
  <2>3. NotesOK'
    BY <1>26, BoundAssumption DEF NotesOK, DatabaseFails, notes
  <2>4. RowInHand'
    BY <1>26
       DEF RowInHand, DatabaseFails, ActorsOK, GoTo, Return, NextTicker, Actors, Phases,
           Steps
  <2>5. RoomToOpen'
    BY <1>26, ActorAssumption
       DEF RoomToOpen, DatabaseFails, ActorsOK, GoTo, Return, NextTicker, Actors,
           Phases, Steps, TableOK, TicksOK, Trading, Sized, table, NoOrder, NewOrder,
           Orders
  <2>. QED
    BY <1>26, <2>1, <2>2, <2>3, <2>4, <2>5
       DEF TypeInv, TypeOK, DatabaseFails, MoneyOK, TableOK, HubOK, money, table, hub
<1>27. ASSUME PersistSnapshot PROVE TypeInv'
  <2>1. MoneyOK'
    BY <1>27, MoneyAssumption DEF MoneyOK, PersistSnapshot
  <2>2. RowInHand'
    BY <1>27 DEF RowInHand, PersistSnapshot, ActorsOK, Actors, Phases, Steps, hands, place
  <2>3. RoomToOpen'
    BY <1>27, ActorAssumption
       DEF RoomToOpen, PersistSnapshot, ActorsOK, Actors, Phases, Steps, hands, place,
           TableOK, TicksOK, Trading, Sized, table, ticks, Orders
  <2>. QED
    BY <1>27, <2>1, <2>2, <2>3
       DEF TypeInv, TypeOK, PersistSnapshot, TableOK, HubOK, ActorsOK, TicksOK, NotesOK,
           table, hub, ticks, notes, counts, place, hands
<1>28. ASSUME Restart PROVE TypeInv'
  <2>1. MoneyOK'
    BY <1>28, MoneyAssumption DEF MoneyOK, Restart
  <2>2. HubOK'
    BY <1>28 DEF Restart, HubOK, Settings
  <2>3. ActorsOK'
    BY <1>28, SettingsAssumption DEF ActorsOK, Restart, Actors, Phases, Steps
  <2>4. TicksOK'
    BY <1>28, SettingsAssumption DEF TicksOK, Restart, NoOrder, NewOrder, NoPair, Orders
  <2>5. NotesOK'
    BY <1>28, BoundAssumption DEF NotesOK, Restart, notes
  <2>6. RowInHand'
    BY <1>28 DEF RowInHand, Restart, ActorsOK, Actors, Phases, Steps
  <2>7. RoomToOpen'
    BY <1>28, ActorAssumption
       DEF RoomToOpen, Restart, ActorsOK, Actors, Phases, Steps, TableOK, TicksOK,
           Trading, Sized, table, NoOrder, NewOrder, Orders
  <2>. QED
    BY <1>28, <2>1, <2>2, <2>3, <2>4, <2>5, <2>6, <2>7
       DEF TypeInv, TypeOK, Restart, TableOK, table
<1>29. ASSUME NEW x \in OtherAmounts, PolymarketReserve(x) PROVE TypeInv'
  <2>1. MoneyOK'
    BY <1>29, ReserveType, MoneyAssumption DEF MoneyOK, PolymarketReserve, Modules
  <2>2. RowInHand'
    BY <1>29 DEF RowInHand, PolymarketReserve, ActorsOK, Actors, Phases, Steps, hands, place
  <2>3. RoomToOpen'
    BY <1>29, ActorAssumption
       DEF RoomToOpen, PolymarketReserve, ActorsOK, Actors, Phases, Steps, hands, place,
           TableOK, TicksOK, Trading, Sized, table, ticks, Orders
  <2>. QED
    BY <1>29, <2>1, <2>2, <2>3
       DEF TypeInv, TypeOK, PolymarketReserve, TableOK, HubOK, ActorsOK, TicksOK,
           NotesOK, table, hub, ticks, notes, counts, place, hands
<1>30. ASSUME NEW x \in OtherAmounts, PolymarketRelease(x) PROVE TypeInv'
  <2>1. MoneyOK'
    <3>1. PICK pnl \in {0, -x} :
            portfolio' = Release(portfolio, x, pnl, "polymarket")
      BY <1>30 DEF PolymarketRelease
    <3>2. x \in Int /\ pnl \in Int
      BY MoneyAssumption
    <3>3. Release(portfolio, x, pnl, "polymarket") \in PortfolioState
      BY <3>2, ReleaseType DEF MoneyOK, Modules
    <3>. QED
      BY <1>30, <3>1, <3>3 DEF MoneyOK, PolymarketRelease
  <2>2. RowInHand'
    BY <1>30 DEF RowInHand, PolymarketRelease, ActorsOK, Actors, Phases, Steps, hands, place
  <2>3. RoomToOpen'
    BY <1>30, ActorAssumption
       DEF RoomToOpen, PolymarketRelease, ActorsOK, Actors, Phases, Steps, hands, place,
           TableOK, TicksOK, Trading, Sized, table, ticks, Orders
  <2>. QED
    BY <1>30, <2>1, <2>2, <2>3
       DEF TypeInv, TypeOK, PolymarketRelease, TableOK, HubOK, ActorsOK, TicksOK,
           NotesOK, table, hub, ticks, notes, counts, place, hands
<1>31. CASE UNCHANGED vars
  BY <1>31
     DEF TypeInv, TypeOK, vars, money, table, hub, place, hands, ticks, notes, counts,
         MoneyOK, TableOK, HubOK, ActorsOK, TicksOK, NotesOK, RowInHand, RoomToOpen, Trading
<1>32. ASSUME NEW a \in Actors, Reevaluate(a) PROVE TypeInv'
  BY <1>32, <1>3, <1>4, <1>5, <1>6, <1>7 DEF Reevaluate
<1>33. ASSUME NEW a \in Actors, ClosePosition(a) PROVE TypeInv'
  BY <1>33, <1>8, <1>9, <1>10, <1>11, <1>12 DEF ClosePosition
<1>34. ASSUME Tick PROVE TypeInv'
  BY <1>34, <1>14, <1>15, <1>16, <1>17, <1>18, <1>19, <1>20, <1>21, <1>22, <1>23 DEF Tick
<1>35. ASSUME LoopStep PROVE TypeInv'
  BY <1>35, <1>2, <1>13, <1>24, <1>25, <1>32, <1>33, <1>34 DEF LoopStep, Actors
<1>36. ASSUME NEW h \in Handlers, HandlerStep(h) PROVE TypeInv'
  BY <1>36, <1>1, <1>32, <1>33 DEF HandlerStep, Actors
<1>37. ASSUME Environment PROVE TypeInv'
  BY <1>37, <1>26, <1>27, <1>28, <1>29, <1>30 DEF Environment
<1>. QED
  BY <1>31, <1>35, <1>36, <1>37 DEF Next

(* The strengthened invariant, for the other proof modules.                *)
THEOREM TypeInvariant == Spec => []TypeInv
BY InitType, TypeStep, PTL DEF Spec

(* Every variable of the worker keeps its type.                            *)
THEOREM TypeCorrect == Spec => []TypeOK
<1>1. TypeInv => TypeOK
  BY DEF TypeInv
<1>. QED
  BY TypeInvariant, <1>1, PTL

-----------------------------------------------------------------------------
(* The table of open positions.                                            *)

\* The steps of a tick after check_risk has passed, but for a refused order.
Chosen == {"reserve", "order", "log", "book"}

\* Ids are given out in order; between check_risk and the insert the order stays
\* the only claim on its pair and there stays room for it under the limit the tick
\* read, because the loop alone inserts rows and waits for its own insert.
PairInv ==
    /\ open \subseteq 1 .. opened
    /\ OnePositionPerPair
    /\ Trading(Chosen) /\ order.side = "buy" => \A i \in open : book[i].pair # order.pair
    /\ Trading(Chosen) => ~AtLimit(Cardinality(open), cfg[Loop].max)

(* The table is finite.                                                    *)
LEMMA OpenFinite ==
  ASSUME TableOK PROVE IsFiniteSet(open) /\ Cardinality(open) \in Nat
<1>1. IsFiniteSet(Ids)
  BY BoundAssumption, FS_Interval DEF Ids
<1>. QED
  BY <1>1, FS_Subset, FS_CardinalityType DEF TableOK

(* Every step keeps PairInv: a step that inserts no row, alters no pair    *)
(* and leaves the order alone does so by <1>1.                             *)
LEMMA PairStep == TypeInv /\ PairInv /\ [Next]_vars => PairInv'
<1>. SUFFICES ASSUME TypeInv, PairInv, [Next]_vars PROVE PairInv'
  OBVIOUS
<1>. USE DEF TypeInv, TypeOK
<1>1. ASSUME open' \subseteq open,
             UNCHANGED opened,
             \A i \in Ids : book'[i].pair = book[i].pair,
             Trading(Chosen)' => /\ Trading(Chosen)
                                 /\ order'.pair = order.pair
                                 /\ order'.side = order.side
                                 /\ cfg'[Loop] = cfg[Loop]
      PROVE  PairInv'
  <2>1. Trading(Chosen)' => ~AtLimit(Cardinality(open'), cfg'[Loop].max)
    <3>1. Cardinality(open') \in Nat /\ Cardinality(open') <= Cardinality(open)
      BY <1>1, OpenFinite, FS_Subset, FS_CardinalityType
    <3>2. cfg[Loop].max \in Int
      BY DEF ActorsOK, Actors, Settings
    <3>. QED
      BY <1>1, <3>1, <3>2, OpenFinite DEF PairInv, AtLimit
  <2>. QED
    BY <1>1, <2>1 DEF PairInv, OnePositionPerPair, TableOK
<1>2. ASSUME UNCHANGED <<table, order, cfg>>, Trading(Chosen)' => Trading(Chosen)
      PROVE  PairInv'
  BY <1>1, <1>2 DEF table
<1>3. ASSUME NEW a \in Actors, Reevaluate(a) PROVE PairInv'
  <2>1. ASSUME NEW i \in Ids, Restop(a, i) PROVE PairInv'
    <3>1. open' = open /\ opened' = opened /\ order' = order
      BY <2>1 DEF Restop, ticks
    <3>2. \A j \in Ids : book'[j].pair = book[j].pair
      BY <2>1 DEF Restop, TableOK, Row
    <3>3. Trading(Chosen)' => Trading(Chosen) /\ cfg'[Loop] = cfg[Loop]
      BY <2>1 DEF Restop, Return, GoTo, At, Trading, Chosen, ActorsOK, Actors, place
    <3>. QED
      BY <1>1, <3>1, <3>2, <3>3
  <2>2. CASE ReadPositions(a)
    BY <1>2, <2>2 DEF ReadPositions, GoTo, At, Trading, Chosen, ActorsOK, Actors, ticks
  <2>3. CASE RemovedDone(a) \/ RestopDone(a)
    BY <1>2, <2>3 DEF RemovedDone, RestopDone, GoTo, At, Trading, Chosen, ActorsOK, Actors, ticks
  <2>4. CASE ReevaluateDone(a)
    BY <1>1, <2>4 DEF ReevaluateDone, Return, GoTo, At, Trading, Chosen, ActorsOK, Actors,
                      table, ticks
  <2>. QED
    BY <1>3, <2>1, <2>2, <2>3, <2>4 DEF Reevaluate
<1>4. ASSUME NEW a \in Actors, ClosePosition(a) PROVE PairInv'
  <2>1. ASSUME NEW i \in Ids, ExecuteClose(a, i) PROVE PairInv'
    BY <1>2, <2>1 DEF ExecuteClose, GoTo, Trading, Chosen, ActorsOK, Actors, ticks
  <2>2. ASSUME NEW i \in Ids, CloseRejected(a, i) PROVE PairInv'
    BY <1>2, <2>2 DEF CloseRejected, Trading, ticks, place
  <2>3. CASE ReleaseCapital(a) \/ RecordClose(a)
    BY <1>2, <2>3 DEF ReleaseCapital, RecordClose, GoTo, Trading, Chosen, ActorsOK, Actors,
                      ticks, hands
  <2>4. CASE DeletePosition(a)
    BY <1>1, <2>4 DEF DeletePosition, NextTicker, GoTo, Trading, Chosen, ActorsOK, Actors, hands
  <2>. QED
    BY <1>4, <2>1, <2>2, <2>3, <2>4 DEF ClosePosition
<1>5. CASE Tick
  <2>1. CASE TickRisk
    <3>1. CASE WithinRisk /\ UNCHANGED <<hands, order>>
      BY <2>1, <3>1 DEF TickRisk, WithinRisk, PairInv, OnePositionPerPair, table, hands
    <3>2. CASE NextTicker
      BY <1>1, <2>1, <3>2 DEF TickRisk, NextTicker, GoTo, Trading, Chosen, ActorsOK, Actors, table
    <3>. QED
      BY <2>1, <3>1, <3>2 DEF TickRisk
  <2>2. CASE TickOpen
    <3>1. /\ Trading(Chosen) /\ order.side = "buy"
          /\ opened' = opened + 1 /\ opened \in Nat
          /\ open' = open \cup {opened'}
          /\ opened' \notin open /\ opened' \in Ids
      BY <2>2, BoundAssumption
         DEF TickOpen, Trading, Chosen, At, PairInv, TableOK, RoomToOpen, Sized, Ids
    <3>2. book'[opened'].pair = order.pair /\ \A i \in open : book'[i].pair = book[i].pair
      BY <2>2, <3>1 DEF TickOpen, TableOK
    <3>3. OnePositionPerPair'
      <4>1. \A i \in open : book'[i].pair # book'[opened'].pair
        BY <3>1, <3>2 DEF PairInv
      <4>2. \A i, j \in open : book'[i].pair = book'[j].pair => i = j
        BY <3>2 DEF PairInv, OnePositionPerPair
      <4>3. SUFFICES ASSUME NEW i \in open', NEW j \in open', book'[i].pair = book'[j].pair
                     PROVE  i = j
        BY DEF OnePositionPerPair
      <4>4. i \in open \cup {opened'} /\ j \in open \cup {opened'}
        BY <3>1
      <4>. QED
        BY <4>1, <4>2, <4>3, <4>4
    <3>4. ~Trading(Chosen)'
      BY <2>2 DEF TickOpen, NextTicker, GoTo, Trading, Chosen, ActorsOK, Actors
    <3>5. open' \subseteq 1 .. opened'
      <4>1. 1 .. opened \subseteq 1 .. opened + 1 /\ opened + 1 \in 1 .. opened + 1
        BY <3>1
      <4>. QED
        BY <3>1, <4>1 DEF PairInv
    <3>. QED
      BY <3>3, <3>4, <3>5 DEF PairInv
  <2>3. ASSUME NEW p \in Pairs, TickStart(p) PROVE PairInv'
    BY <1>1, <2>3 DEF TickStart, GoTo, At, Trading, Chosen, ActorsOK, Actors, table, place
  <2>4. CASE TickHold \/ TickUndo
    BY <1>1, <2>4 DEF TickHold, TickUndo, NextTicker, GoTo, Trading, Chosen, ActorsOK, Actors, table
  <2>5. CASE TickSize
    BY <1>1, <2>5 DEF TickSize, GoTo, Trading, Chosen, ActorsOK, Actors, table, hands
  <2>6. CASE TickReserve
    BY <1>1, <2>6 DEF TickReserve, NextTicker, GoTo, At, Trading, Chosen, ActorsOK, Actors, table, hands
  <2>7. CASE TickExecute
    BY <1>1, <2>7 DEF TickExecute, GoTo, At, Trading, Chosen, ActorsOK, Actors, table, hands,
                      TicksOK, Orders
  <2>8. CASE TickRecord \/ TickClose
    BY <1>1, <2>8 DEF TickRecord, TickClose, NextTicker, GoTo, At, Trading, Chosen, ActorsOK, Actors,
                      table, hands
  <2>. QED
    BY <1>5, <2>1, <2>2, <2>3, <2>4, <2>5, <2>6, <2>7, <2>8 DEF Tick
<1>6. CASE LoopStep
  <2>1. CASE LoopSettingsChanged \/ LoopTimer
    BY <1>1, <2>1 DEF LoopSettingsChanged, LoopTimer, GoTo, Trading, Chosen, ActorsOK, Actors,
                      table, ticks, hands
  <2>2. CASE CheckStopLosses \/ StopLossesDone
    BY <1>1, <2>2 DEF CheckStopLosses, StopLossesDone, Return, GoTo, Trading, Chosen, ActorsOK,
                      Actors, table, ticks, hands
  <2>. QED
    BY <1>3, <1>4, <1>5, <1>6, <2>1, <2>2 DEF LoopStep, Actors
<1>7. ASSUME NEW h \in Handlers, HandlerStep(h) PROVE PairInv'
  <2>1. ASSUME NEW s \in SettingsPushes, UpdateSettings(h, s) PROVE PairInv'
    BY <1>1, <2>1, ActorAssumption
       DEF UpdateSettings, GoTo, Trading, Chosen, ActorsOK, Actors, table, ticks
  <2>. QED
    BY <1>3, <1>4, <1>7, <2>1 DEF HandlerStep, Actors
<1>8. CASE Environment
  <2>1. ASSUME NEW a \in Actors, DatabaseFails(a) PROVE PairInv'
    BY <1>1, <2>1 DEF DatabaseFails, NextTicker, Return, GoTo, Trading, Chosen, ActorsOK, Actors, table
  <2>2. CASE Restart
    BY <1>1, <2>2 DEF Restart, Trading, Chosen, Actors, table
  <2>3. ASSUME UNCHANGED <<table, place, hands, ticks>> PROVE PairInv'
    BY <1>2, <2>3 DEF Trading, place, hands, ticks
  <2>. QED
    BY <1>8, <2>1, <2>2, <2>3
       DEF Environment, PersistSnapshot, PolymarketReserve, PolymarketRelease
<1>9. CASE UNCHANGED vars
  BY <1>2, <1>9 DEF vars, ticks, hands, place, Trading
<1>. QED
  BY <1>6, <1>7, <1>8, <1>9 DEF Next

(* PairInv holds throughout.                                               *)
THEOREM PairInvariant == Spec => []PairInv
<1>1. Init => PairInv
  BY DEF Init, PairInv, OnePositionPerPair, Trading, Chosen, Actors
<1>. QED
  BY TypeInvariant, PairStep, <1>1, PTL DEF Spec

(* There is never a second open position in a pair: the duplicate check of *)
(* check_risk still holds at the insert, several awaits later.             *)
THEOREM OnePositionAlways == Spec => []OnePositionPerPair
<1>1. PairInv => OnePositionPerPair
  BY DEF PairInv
<1>. QED
  BY PairInvariant, <1>1, PTL

(* Only an insert raises opened.                                           *)
LEMMA OnlyTickOpens ==
  ASSUME TypeInv, [Next]_vars, opened' > opened PROVE TickOpen
<1>1. opened \in Int
  BY DEF TypeInv, TypeOK, TableOK
<1>2. ASSUME opened' = opened PROVE FALSE
  BY <1>1, <1>2
<1>3. ASSUME NEW a \in Actors, Reevaluate(a) PROVE FALSE
  BY <1>2, <1>3 DEF Reevaluate, ReadPositions, RemovedDone, Restop, RestopDone, ReevaluateDone, table
<1>4. ASSUME NEW a \in Actors, ClosePosition(a) PROVE FALSE
  BY <1>2, <1>4 DEF ClosePosition, ExecuteClose, CloseRejected, ReleaseCapital, DeletePosition,
                    RecordClose, table
<1>5. ASSUME Tick PROVE TickOpen
  BY <1>2, <1>5 DEF Tick, TickStart, TickHold, TickSize, TickRisk, TickReserve, TickExecute,
                    TickUndo, TickRecord, TickClose, table
<1>6. ASSUME LoopStep PROVE TickOpen
  BY <1>2, <1>3, <1>4, <1>5, <1>6
     DEF LoopStep, LoopSettingsChanged, LoopTimer, CheckStopLosses, StopLossesDone, table, Actors
<1>7. ASSUME NEW h \in Handlers, HandlerStep(h) PROVE FALSE
  BY <1>2, <1>3, <1>4, <1>7 DEF HandlerStep, UpdateSettings, table, Actors
<1>8. ASSUME Environment PROVE FALSE
  BY <1>2, <1>8 DEF Environment, DatabaseFails, PersistSnapshot, Restart, PolymarketReserve,
                    PolymarketRelease, table
<1>9. ASSUME UNCHANGED vars PROVE FALSE
  BY <1>2, <1>9 DEF vars, table
<1>. QED
  BY <1>6, <1>7, <1>8, <1>9 DEF Next

(* Opening a position never takes the table beyond the max_open_positions  *)
(* the tick read, whatever is pushed or closed while the tick runs.        *)
THEOREM OpensStayWithinLimit == Spec => OpensWithinLimit
<1>1. ASSUME TypeInv, PairInv, [Next]_vars
      PROVE  [opened' > opened =>
                 \/ cfg[Loop].max < 0
                 \/ Cardinality(open') <= cfg[Loop].max]_vars
  <2>1. SUFFICES ASSUME opened' > opened, ~(cfg[Loop].max < 0)
                 PROVE  Cardinality(open') <= cfg[Loop].max
    OBVIOUS
  <2>2. TickOpen
    BY <1>1, <2>1, OnlyTickOpens
  <2>3. open' = open \cup {opened + 1} /\ Trading(Chosen)
    BY <2>2 DEF TickOpen, At, Trading, Chosen
  <2>4. ~AtLimit(Cardinality(open), cfg[Loop].max)
    BY <1>1, <2>3 DEF PairInv
  <2>5. IsFiniteSet(open) /\ Cardinality(open) \in Nat
    BY <1>1, OpenFinite DEF TypeInv, TypeOK
  <2>6. Cardinality(open') \in Nat /\ Cardinality(open') <= Cardinality(open) + 1
    <3>1. \/ Cardinality(open \cup {opened + 1}) = Cardinality(open)
          \/ Cardinality(open \cup {opened + 1}) = Cardinality(open) + 1
      BY <2>5, FS_AddElement
    <3>. QED
      BY <2>3, <2>5, <3>1
  <2>7. cfg[Loop].max \in Int
    BY <1>1 DEF TypeInv, TypeOK, ActorsOK, Actors, Settings
  <2>. QED
    BY <2>1, <2>4, <2>5, <2>6, <2>7 DEF AtLimit
<1>. QED
  BY <1>1, TypeInvariant, PairInvariant, PTL DEF Spec, OpensWithinLimit

-----------------------------------------------------------------------------

\* The steps of a tick whose pair has passed the first check of tick().
Picked == {"analyze"} \cup Sized

\* Row i is one the loop is about to look at or to close.
Closing(i) ==
    \/ phase[Loop] = "read"
    \/ phase[Loop] = "removed" /\ i \in work[Loop]
    \/ phase[Loop] = "removed" /\ row[Loop] = i /\ step[Loop] \in {"release", "delete"}

\* As long as the loop has not been told of newer settings, every row in a pair
\* those settings forbid is one the loop is about to close, and no tick is under
\* way in such a pair.
AllowedInv ==
    faults = 0 /\ ~changed =>
        /\ \A i \in open \ rejected : book[i].pair \in settings.pairs \/ Closing(i)
        /\ phase[Loop] \in {"read", "removed"} => cfg[Loop] = settings
        /\ Trading(Picked) => order.pair \in settings.pairs

\* No handler ever ticks.
OnlyLoopTicks == \A h \in Handlers : phase[h] # "tick"

(* Every step keeps OnlyLoopTicks.                                         *)
LEMMA OnlyLoopTicksStep == ActorsOK /\ OnlyLoopTicks /\ [Next]_vars => OnlyLoopTicks'
<1>. SUFFICES ASSUME ActorsOK, OnlyLoopTicks, [Next]_vars PROVE OnlyLoopTicks'
  OBVIOUS
<1>. USE ActorAssumption DEF ActorsOK, Actors, OnlyLoopTicks
<1>1. ASSUME NEW a \in Actors, Reevaluate(a) PROVE OnlyLoopTicks'
  BY <1>1 DEF Reevaluate, ReadPositions, RemovedDone, Restop, RestopDone, ReevaluateDone,
              Return, GoTo, place
<1>2. ASSUME NEW a \in Actors, ClosePosition(a) PROVE OnlyLoopTicks'
  BY <1>2 DEF ClosePosition, ExecuteClose, CloseRejected, ReleaseCapital, DeletePosition,
              RecordClose, NextTicker, GoTo, place
<1>3. CASE Tick
  BY <1>3 DEF Tick, TickStart, TickHold, TickSize, TickRisk, TickReserve, TickExecute, TickUndo,
              TickRecord, TickOpen, TickClose, NextTicker, GoTo, place
<1>4. CASE LoopStep
  BY <1>1, <1>2, <1>3, <1>4
     DEF LoopStep, LoopSettingsChanged, LoopTimer, CheckStopLosses, StopLossesDone, Return, GoTo
<1>5. ASSUME NEW h \in Handlers, HandlerStep(h) PROVE OnlyLoopTicks'
  BY <1>1, <1>2, <1>5 DEF HandlerStep, UpdateSettings, GoTo
<1>6. CASE Environment
  BY <1>6 DEF Environment, DatabaseFails, PersistSnapshot, Restart, PolymarketReserve,
              PolymarketRelease, NextTicker, Return, GoTo, place
<1>7. CASE UNCHANGED vars
  BY <1>7 DEF vars, place
<1>. QED
  BY <1>4, <1>5, <1>6, <1>7 DEF Next

(* Every step keeps AllowedInv; <1>1 covers the steps that insert no row   *)
(* and touch no settings.                                                  *)
LEMMA AllowedStep ==
  TypeInv /\ OnlyLoopTicks /\ PairInv /\ AllowedInv /\ [Next]_vars => AllowedInv'
<1>. SUFFICES ASSUME TypeInv, OnlyLoopTicks, PairInv, AllowedInv, [Next]_vars PROVE AllowedInv'
  OBVIOUS
<1>. USE DEF TypeInv, TypeOK
<1>1. ASSUME open' \subseteq open, rejected \subseteq rejected',
             \A i \in Ids : book'[i].pair = book[i].pair,
             UNCHANGED settings,
             changed => changed',
             faults' = faults,
             \A i \in open' \ rejected' : Closing(i) => Closing(i)',
             phase'[Loop] \in {"read", "removed"} =>
                 phase[Loop] \in {"read", "removed"} /\ cfg'[Loop] = cfg[Loop],
             Trading(Picked)' => Trading(Picked) /\ order'.pair = order.pair
      PROVE  AllowedInv'
  BY <1>1 DEF AllowedInv, TableOK
<1>2. ASSUME UNCHANGED <<table, settings, changed, cfg, ticks, faults>>,
             rejected \subseteq rejected',
             UNCHANGED <<phase[Loop], step[Loop], work[Loop], row[Loop]>>
      PROVE  AllowedInv'
  BY <1>1, <1>2 DEF table, ticks, Closing, Trading
<1>3. ASSUME NEW a \in Actors, Reevaluate(a) PROVE AllowedInv'
  <2>1. ASSUME NEW i \in Ids, Restop(a, i) PROVE AllowedInv'
    <3>1. \A j \in Ids : book'[j].pair = book[j].pair
      BY <2>1 DEF Restop, TableOK, Row
    <3>2. /\ open' = open /\ rejected' = rejected /\ order' = order /\ faults' = faults
          /\ UNCHANGED <<settings, changed>>
      BY <2>1 DEF Restop, hub, ticks, notes, counts
    <3>3. phase'[Loop] = phase[Loop] \/ (phase[Loop] = "restop" /\ phase'[Loop] = "idle")
      BY <2>1 DEF Restop, Return, GoTo, At, place, ActorsOK, Actors
    <3>4. a # Loop => UNCHANGED <<cfg[Loop], work[Loop], row[Loop], step[Loop]>>
      BY <2>1 DEF Restop, Return, GoTo, place, ActorsOK, Actors
    <3>5. a = Loop => phase[Loop] = "restop"
      BY <2>1 DEF Restop, At
    <3>. QED
      BY <1>1, <3>1, <3>2, <3>3, <3>4, <3>5 DEF Closing, Trading
  <2>2. CASE ReadPositions(a)
    <3>1. CASE a # Loop
      BY <1>2, <2>2, <3>1 DEF ReadPositions, GoTo, ActorsOK, Actors, hub, notes, counts
    <3>2. CASE a = Loop
      <4>1. /\ phase'[Loop] = "removed" /\ phase[Loop] = "read" /\ cfg' = cfg
            /\ work'[Loop] = open \ {i \in open : book[i].pair \in cfg[Loop].pairs}
            /\ UNCHANGED <<open, book, settings, changed, rejected, faults>>
        BY <2>2, <3>2 DEF ReadPositions, GoTo, At, ActorsOK, Actors, hub, table, notes, counts
      <4>. QED
        BY <4>1 DEF AllowedInv, Closing, Trading
    <3>. QED
      BY <3>1, <3>2
  <2>3. CASE RemovedDone(a)
    BY <1>1, <2>3 DEF RemovedDone, GoTo, At, Closing, Trading, ActorsOK, Actors,
                      table, hub, ticks, notes, counts
  <2>4. CASE RestopDone(a)
    BY <1>1, <2>4 DEF RestopDone, GoTo, At, Closing, Trading, ActorsOK, Actors,
                      table, hub, ticks, notes, counts
  <2>5. CASE ReevaluateDone(a)
    BY <1>1, <2>5 DEF ReevaluateDone, Return, GoTo, At, Closing, Trading, ActorsOK, Actors,
                      table, hub, ticks, notes, counts
  <2>. QED
    BY <1>3, <2>1, <2>2, <2>3, <2>4, <2>5 DEF Reevaluate
<1>4. ASSUME NEW a \in Actors, ClosePosition(a) PROVE AllowedInv'
  <2>1. ASSUME NEW i \in Ids, ExecuteClose(a, i) PROVE AllowedInv'
    <3>1. \A j \in Ids : Closing(j) => Closing(j)'
      BY <2>1 DEF ExecuteClose, GoTo, Closing, ActorsOK, Actors
    <3>. QED
      BY <1>1, <2>1, <3>1 DEF ExecuteClose, GoTo, Trading, ActorsOK, Actors, TableOK,
                        table, hub, ticks, counts
  <2>2. ASSUME NEW i \in Ids, CloseRejected(a, i) PROVE AllowedInv'
    <3>1. \A j \in Ids \ rejected' : Closing(j) => Closing(j)'
      BY <2>2 DEF CloseRejected, place, Closing, ActorsOK, Actors
    <3>. QED
      BY <1>1, <2>2, <3>1 DEF CloseRejected, Trading, ActorsOK, Actors, TableOK, place,
                        table, hub, ticks, counts
  <2>3. CASE ReleaseCapital(a)
    BY <1>1, <2>3 DEF ReleaseCapital, GoTo, Closing, Trading, Picked, Sized, ActorsOK, Actors,
                      table, hub, ticks, hands, notes, counts
  <2>4. CASE DeletePosition(a)
    <3>1. \A i \in open' : Closing(i) => Closing(i)'
      BY <2>4 DEF DeletePosition, NextTicker, GoTo, Closing, OnlyLoopTicks, ActorsOK, Actors, hands
    <3>. QED
      BY <1>1, <2>4, <3>1 DEF DeletePosition, NextTicker, GoTo, Trading, Picked, Sized, ActorsOK, Actors,
                      hub, hands, notes, counts
  <2>5. CASE RecordClose(a)
    BY <1>1, <2>5 DEF RecordClose, GoTo, Closing, Trading, Picked, Sized, ActorsOK, Actors,
                      table, hub, ticks, counts
  <2>. QED
    BY <1>4, <2>1, <2>2, <2>3, <2>4, <2>5 DEF ClosePosition
<1>5. CASE Tick
  <2>1. ASSUME NEW p \in Pairs, TickStart(p) PROVE AllowedInv'
    <3>1. CASE p \in settings.pairs
      BY <2>1, <3>1 DEF TickStart, NewOrder, GoTo, At, AllowedInv, Closing, Trading,
                        ActorsOK, Actors, table, hub, notes, counts
    <3>2. CASE p \notin settings.pairs
      BY <1>2, <2>1, <3>2 DEF TickStart, At, AllowedInv, Closing, Trading, Picked, Sized, place,
                        table, hub, notes, counts
    <3>. QED
      BY <3>1, <3>2
  <2>2. CASE TickOpen
    <3>1. opened' \notin open /\ opened' \in Ids
      BY <2>2, BoundAssumption
         DEF TickOpen, Trading, At, PairInv, TableOK, RoomToOpen, Sized, Ids
    <3>2. /\ open' = open \cup {opened'}
          /\ book'[opened'].pair = order.pair /\ \A i \in open : book'[i].pair = book[i].pair
      BY <2>2, <3>1 DEF TickOpen, TableOK
    <3>3. /\ Trading(Picked) /\ phase'[Loop] = "tick" /\ step'[Loop] = "next"
          /\ UNCHANGED <<settings, changed, rejected, faults>>
      BY <2>2 DEF TickOpen, NextTicker, GoTo, At, Trading, Picked, Sized, ActorsOK, Actors,
                  hub, notes, counts
    <3>. QED
      BY <3>2, <3>3 DEF AllowedInv, Closing, Trading, Picked, Sized
  <2>3. CASE TickHold \/ TickUndo
    BY <1>1, <2>3 DEF TickHold, TickUndo, NextTicker, GoTo, At, Closing, Trading, Picked, Sized,
                      ActorsOK, Actors, table, hub, notes, counts
  <2>4. CASE TickSize
    BY <1>1, <2>4 DEF TickSize, GoTo, At, Closing, Trading, Picked, Sized, ActorsOK, Actors,
                      TicksOK, Orders, table, hub, hands, notes, counts
  <2>5. CASE TickRisk \/ TickReserve
    BY <1>1, <2>5 DEF TickRisk, TickReserve, NextTicker, GoTo, At, Closing, Trading, Picked, Sized,
                      ActorsOK, Actors, table, hub, hands, notes, counts
  <2>6. CASE TickExecute
    BY <1>1, <2>6 DEF TickExecute, GoTo, At, Closing, Trading, Picked, Sized, ActorsOK, Actors,
                      TicksOK, Orders, table, hub, hands, counts
  <2>7. CASE TickRecord
    BY <1>1, <2>7 DEF TickRecord, NextTicker, GoTo, At, Closing, Trading, Picked, Sized,
                      ActorsOK, Actors, table, hub, hands, counts
  <2>8. CASE TickClose
    BY <1>1, <2>8 DEF TickClose, NextTicker, GoTo, At, Closing, Trading, Picked, Sized,
                      ActorsOK, Actors, table, hub, hands, notes, counts
  <2>. QED
    BY <1>5, <2>1, <2>2, <2>3, <2>4, <2>5, <2>6, <2>7, <2>8 DEF Tick
<1>6. CASE LoopStep
  <2>1. CASE LoopSettingsChanged
    BY <2>1 DEF LoopSettingsChanged, GoTo, AllowedInv, Closing, Trading, ActorsOK, Actors
  <2>2. CASE LoopTimer
    BY <1>1, <2>2 DEF LoopTimer, GoTo, At, Closing, Trading, Picked, Sized, ActorsOK, Actors,
                      table, hub, hands, notes, counts
  <2>3. CASE CheckStopLosses
    BY <1>1, <2>3 DEF CheckStopLosses, GoTo, At, Closing, Trading, ActorsOK, Actors,
                      table, hub, ticks, notes, counts
  <2>4. CASE StopLossesDone
    BY <1>1, <2>4 DEF StopLossesDone, Return, GoTo, At, Closing, Trading, ActorsOK, Actors,
                      table, hub, ticks, notes, counts
  <2>. QED
    BY <1>3, <1>4, <1>5, <1>6, <2>1, <2>2, <2>3, <2>4 DEF LoopStep, Actors
<1>7. ASSUME NEW h \in Handlers, HandlerStep(h) PROVE AllowedInv'
  <2>1. ASSUME NEW s \in SettingsPushes, UpdateSettings(h, s) PROVE AllowedInv'
    BY <2>1 DEF UpdateSettings, AllowedInv
  <2>. QED
    BY <1>3, <1>4, <1>7, <2>1 DEF HandlerStep, Actors
<1>8. CASE Environment
  <2>1. ASSUME NEW a \in Actors, DatabaseFails(a) PROVE AllowedInv'
    BY <2>1 DEF DatabaseFails, AllowedInv, NotesOK
  <2>2. CASE Restart
    BY <2>2 DEF Restart, AllowedInv
  <2>3. ASSUME UNCHANGED <<table, hub, place, hands, ticks, notes, counts>> PROVE AllowedInv'
    BY <1>2, <2>3 DEF hub, place, hands, notes, counts
  <2>. QED
    BY <1>8, <2>1, <2>2, <2>3
       DEF Environment, PersistSnapshot, PolymarketReserve, PolymarketRelease
<1>9. CASE UNCHANGED vars
  BY <1>2, <1>9 DEF vars, ticks, hub, hands, place, notes, counts
<1>. QED
  BY <1>6, <1>7, <1>8, <1>9 DEF Next

(* Once the loop has settled, no position is left in a pair the settings   *)
(* forbid, unless the executor refused its closing order: not even one     *)
(* opened by a tick that was under way when the push came.                 *)
THEOREM SettledPairsAlwaysAllowed == Spec => []SettledPairsAllowed
<1>1. Init => OnlyLoopTicks /\ AllowedInv
  BY DEF Init, OnlyLoopTicks, AllowedInv, Actors
<1>2. TypeInv => ActorsOK
  BY DEF TypeInv, TypeOK
<1>3. AllowedInv => SettledPairsAllowed
  BY DEF AllowedInv, SettledPairsAllowed, Settled, Closing
<1>. QED
  BY TypeInvariant, PairInvariant, OnlyLoopTicksStep, AllowedStep, <1>1, <1>2, <1>3, PTL DEF Spec

-----------------------------------------------------------------------------
(* Stop-losses.  Two handlers that re-evaluate at once may leave a stop-loss *)
(* of the older push behind, and a re-evaluation that meets a row closed as  *)
(* an excess ends before it has reached them all: TLC shows both.  With one  *)
(* handler, and pushes that leave the limit alone, neither can happen.       *)

OneHandler == \A g, h \in Handlers : g = h

Limit == InitialSettings.max

SameLimit == \A s \in SettingsPushes : s.max = Limit

\* Nobody works with another limit, so the table keeps within it and a
\* re-evaluation finds no excess.
Limited(a) ==
    /\ cfg[a].max = Limit
    /\ Limit >= 0 => Cardinality(kept[a]) <= Limit
    /\ phase[a] = "excess" => step[a] = "next" /\ work[a] = {}

LimitInv ==
    /\ settings.max = Limit
    /\ Limit >= 0 => Cardinality(open) <= Limit
    /\ \A a \in Actors : Limited(a)

\* What a re-evaluation has in its hands: rows that were inserted, those it
\* removes in pairs its settings forbid, those it keeps in pairs they allow.
Removes(a, i) == book[i].pair \notin cfg[a].pairs

Hand(a) ==
    /\ work[a] \subseteq 1 .. opened
    /\ kept[a] \subseteq 1 .. opened
    /\ row[a] \in 0 .. opened
    /\ phase[a] \in {"removed", "restop"} => \A i \in kept[a] : ~Removes(a, i)
    /\ phase[a] = "removed" => \A i \in work[a] : Removes(a, i)
    /\ phase[a] = "removed" /\ step[a] \in {"release", "delete"} =>
          row[a] # 0 /\ Removes(a, row[a])
    /\ phase[a] = "restop" => work[a] \subseteq kept[a]
    /\ phase[a] \in {"idle", "read", "restop"} => step[a] = "next"
    /\ phase[a] = "stops" => a = Loop

HandInv == \A a \in Actors : Hand(a)

\* The one handler works with the settings it has just published.
HandlerInv == \A h \in Handlers : phase[h] # "idle" => cfg[h] = settings

\* The loop's re-evaluation has still to treat row i.
Treating(i) ==
    \/ phase[Loop] = "read"
    \/ phase[Loop] = "removed" /\ i \in work[Loop] \cup kept[Loop]
    \/ phase[Loop] = "removed" /\ row[Loop] = i /\ step[Loop] \in {"release", "delete"}
    \/ phase[Loop] = "restop" /\ i \in work[Loop]

\* As long as the loop has not been told of newer settings, a stale stop-loss is
\* one its re-evaluation has still to reach, and no row it will come to has gone.
StopInv ==
    faults = 0 /\ ~changed =>
        /\ \A i \in open \ rejected : book[i].stop = settings.stop \/ Treating(i)
        /\ phase[Loop] \in {"read", "removed", "restop"} => cfg[Loop] = settings
        /\ phase[Loop] = "removed" => kept[Loop] \subseteq open
        /\ phase[Loop] = "restop" => work[Loop] \subseteq open
        /\ Trading(Picked) => cfg[Loop].stop = settings.stop

(* A row that was inserted keeps its pair.                                 *)
LEMMA RowsStay ==
  TypeInv /\ PairInv /\ [Next]_vars =>
      /\ opened \in Nat /\ opened' \in Nat /\ opened <= opened'
      /\ \A i \in 1 .. opened : book'[i].pair = book[i].pair
<1>. SUFFICES ASSUME TypeInv, PairInv, [Next]_vars
              PROVE  /\ opened \in Nat /\ opened' \in Nat /\ opened <= opened'
                     /\ \A i \in 1 .. opened : book'[i].pair = book[i].pair
  OBVIOUS
<1>1. opened \in Nat /\ opened <= MaxOpened /\ MaxOpened \in Nat /\ 1 .. opened \subseteq Ids
  BY BoundAssumption DEF TypeInv, TypeOK, TableOK, Ids
<1>2. CASE UNCHANGED <<book, opened>>
  BY <1>1, <1>2
<1>3. ASSUME NEW a \in Actors, NEW i \in Ids, Restop(a, i)
      PROVE  opened' = opened /\ \A j \in Ids : book'[j].pair = book[j].pair
  BY <1>3 DEF Restop, TypeInv, TypeOK, TableOK, Row
<1>4. CASE TickOpen
  BY <1>1, <1>4 DEF TickOpen, TypeInv, TypeOK, TableOK, Ids
<1>5. ASSUME NEW a \in Actors, Reevaluate(a)
      PROVE  UNCHANGED <<book, opened>> \/ \E i \in Ids : Restop(a, i)
  BY <1>5 DEF Reevaluate, ReadPositions, RemovedDone, RestopDone, ReevaluateDone, table
<1>6. ASSUME NEW a \in Actors, ClosePosition(a) PROVE UNCHANGED <<book, opened>>
  BY <1>6 DEF ClosePosition, ExecuteClose, CloseRejected, ReleaseCapital, DeletePosition,
              RecordClose, table
<1>7. CASE Tick
  BY <1>2, <1>4, <1>7 DEF Tick, TickStart, TickHold, TickSize, TickRisk, TickReserve, TickExecute,
                    TickUndo, TickRecord, TickClose, table
<1>8. CASE LoopStep
  BY <1>1, <1>2, <1>3, <1>5, <1>6, <1>7, <1>8
     DEF LoopStep, LoopSettingsChanged, LoopTimer, CheckStopLosses, StopLossesDone, table, Actors
<1>9. ASSUME NEW h \in Handlers, HandlerStep(h)
      PROVE  UNCHANGED <<book, opened>> \/ \E i \in Ids : Restop(h, i)
  BY <1>5, <1>6, <1>9 DEF HandlerStep, UpdateSettings, table, Actors
<1>10. CASE Environment
  BY <1>2, <1>10 DEF Environment, DatabaseFails, PersistSnapshot, Restart, PolymarketReserve,
                    PolymarketRelease, table
<1>11. CASE UNCHANGED vars
  BY <1>2, <1>11 DEF vars, table
<1>. QED
  BY <1>1, <1>2, <1>3, <1>8, <1>9, <1>10, <1>11 DEF Next, Actors

(* Every step keeps HandInv: <1>1 says it of the actors that do not move.  *)
LEMMA HandStep == TypeInv /\ PairInv /\ OnlyLoopTicks /\ HandInv /\ [Next]_vars => HandInv'
<1>. SUFFICES ASSUME TypeInv, PairInv, OnlyLoopTicks, HandInv, [Next]_vars,
                     NEW b \in Actors
              PROVE  Hand(b)'
  BY DEF HandInv
<1>. USE ActorAssumption DEF Actors
<1>r. /\ opened \in Nat /\ opened' \in Nat /\ opened <= opened'
      /\ \A i \in 1 .. opened : book'[i].pair = book[i].pair
  BY RowsStay
<1>o. open \subseteq 1 .. opened /\ Hand(b) /\ 1 .. opened \subseteq 1 .. opened'
  BY <1>r DEF PairInv, HandInv
<1>a. ActorsOK
  BY DEF TypeInv, TypeOK
<1>1. CASE UNCHANGED <<phase[b], step[b], cfg[b], work[b], kept[b], row[b]>>
  BY <1>1, <1>r, <1>o DEF Hand, Removes
<1>2. CASE /\ phase'[b] \in {"idle", "tick"}
           /\ work'[b] \in {work[b], {}}
           /\ kept'[b] \in {kept[b], {}}
           /\ row'[b] \in {row[b], 0}
           /\ step'[b] = "next"
  BY <1>2, <1>r, <1>o DEF Hand
<1>3. ASSUME NEW a \in Actors, Reevaluate(a), a = b PROVE Hand(b)'
  <2>1. ASSUME NEW i \in Ids, Restop(a, i) PROVE Hand(b)'
    <3>1. CASE Return(a)
      BY <1>2, <1>3, <1>a, <3>1 DEF Return, GoTo, ActorsOK
    <3>2. CASE UNCHANGED <<place, cfg, kept, row>> /\ work' = [work EXCEPT ![a] = @ \ {i}]
      BY <1>3, <1>r, <1>o, <1>a, <2>1, <3>2 DEF Hand, Removes, Restop, At, place, ActorsOK
    <3>. QED
      BY <2>1, <3>1, <3>2 DEF Restop
  <2>2. CASE ReadPositions(a)
    <3>1. /\ phase'[b] = "removed" /\ step'[b] = "next" /\ cfg' = cfg /\ row' = row /\ book' = book
          /\ kept'[b] = {i \in open : book[i].pair \in cfg[b].pairs}
          /\ work'[b] = open \ kept'[b]
      BY <1>3, <1>a, <2>2 DEF ReadPositions, GoTo, ActorsOK, table
    <3>. QED
      <4>1. \A i \in work'[b] \cup kept'[b] : i \in 1 .. opened /\ book'[i] = book[i]
        BY <3>1, <1>o
      <4>2. /\ \A i \in kept'[b] : book[i].pair \in cfg[b].pairs
            /\ \A i \in work'[b] : book[i].pair \notin cfg[b].pairs
        BY <3>1
      <4>3. row'[b] \in 0 .. opened'
        BY <3>1, <1>r, <1>o DEF Hand
      <4>. QED
        BY <3>1, <4>1, <4>2, <4>3, <1>r, <1>o DEF Hand, Removes
  <2>3. CASE RemovedDone(a)
    BY <1>3, <1>r, <1>o, <1>a, <2>3 DEF RemovedDone, GoTo, At, Hand, Removes, ActorsOK
  <2>4. CASE RestopDone(a)
    BY <1>3, <1>r, <1>o, <1>a, <2>4 DEF RestopDone, GoTo, At, Hand, Excess, ActorsOK
  <2>5. CASE ReevaluateDone(a)
    BY <1>2, <1>3, <1>a, <2>5 DEF ReevaluateDone, Return, GoTo, ActorsOK
  <2>. QED
    BY <1>3, <2>1, <2>2, <2>3, <2>4, <2>5 DEF Reevaluate
<1>4. ASSUME NEW a \in Actors, ClosePosition(a), a = b PROVE Hand(b)'
  <2>1. ASSUME NEW i \in Ids, ExecuteClose(a, i) PROVE Hand(b)'
    BY <1>4, <1>r, <1>o, <1>a, <2>1 DEF ExecuteClose, InTurn, GoTo, Hand, Removes, ActorsOK
  <2>2. ASSUME NEW i \in Ids, CloseRejected(a, i) PROVE Hand(b)'
    BY <1>4, <1>r, <1>o, <1>a, <2>2 DEF CloseRejected, place, Hand, Removes, ActorsOK
  <2>3. CASE ReleaseCapital(a)
    BY <1>4, <1>r, <1>o, <1>a, <2>3 DEF ReleaseCapital, GoTo, hands, Hand, Removes, ActorsOK
  <2>4. CASE DeletePosition(a)
    <3>1. CASE phase[a] = "tick"
      BY <1>2, <1>4, <1>a, <2>4, <3>1 DEF DeletePosition, NextTicker, GoTo, OnlyLoopTicks, ActorsOK
    <3>2. CASE phase[a] # "tick"
      BY <1>4, <1>r, <1>o, <1>a, <2>4, <3>2 DEF DeletePosition, GoTo, hands, Hand, Removes, ActorsOK
    <3>. QED
      BY <3>1, <3>2
  <2>5. CASE RecordClose(a)
    BY <1>4, <1>r, <1>o, <1>a, <2>5 DEF RecordClose, GoTo, Hand, Removes, ActorsOK
  <2>. QED
    BY <1>4, <2>1, <2>2, <2>3, <2>4, <2>5 DEF ClosePosition
<1>5. ASSUME Tick, b = Loop PROVE Hand(b)'
  <2>1. ASSUME NEW p \in Pairs, TickStart(p) PROVE Hand(b)'
    BY <1>5, <1>r, <1>o, <1>a, <2>1 DEF TickStart, GoTo, At, place, Hand, Removes, ActorsOK
  <2>2. CASE NextTicker
    BY <1>2, <1>5, <1>a, <2>2 DEF NextTicker, GoTo, ActorsOK
  <2>3. CASE TickClose
    BY <1>2, <1>5, <1>r, <1>o, <1>a, <2>3 DEF TickClose, NextTicker, GoTo, Hand, ActorsOK
  <2>4. CASE GoTo(Loop, "tick", step'[Loop]) /\ UNCHANGED hands
    BY <1>5, <1>r, <1>o, <1>a, <2>4 DEF GoTo, hands, Hand, ActorsOK
  <2>. QED
    BY <1>5, <1>a, <2>1, <2>2, <2>3, <2>4
       DEF Tick, TickHold, TickSize, TickRisk, TickReserve, TickExecute, TickUndo, TickRecord,
           TickOpen, GoTo, ActorsOK
<1>6. ASSUME NEW a \in Actors, a # b, Reevaluate(a) \/ ClosePosition(a) PROVE Hand(b)'
  <2>1. UNCHANGED <<phase[b], step[b], cfg[b], work[b], kept[b], row[b]>>
    <3>1. CASE NextTicker /\ a = Loop
      BY <1>6, <1>a, <3>1 DEF NextTicker, GoTo, ActorsOK
    <3>2. CASE Return(a)
      BY <1>6, <1>a, <3>2 DEF Return, GoTo, ActorsOK
    <3>. QED
      BY <1>6, <1>a, <3>1, <3>2
         DEF Reevaluate, ReadPositions, RemovedDone, Restop, RestopDone, ReevaluateDone,
             ClosePosition, ExecuteClose, CloseRejected, ReleaseCapital, DeletePosition,
             RecordClose, GoTo, place, hands, ActorsOK, OnlyLoopTicks
  <2>. QED
    BY <1>1, <2>1
<1>7. CASE LoopStep
  <2>1. CASE b # Loop
    <3>1. CASE Tick
      BY <1>1, <1>a, <2>1, <3>1
         DEF Tick, TickStart, TickHold, TickSize, TickRisk, TickReserve, TickExecute, TickUndo,
             TickRecord, TickOpen, TickClose, NextTicker, GoTo, place, hands, ActorsOK
    <3>2. CASE LoopSettingsChanged \/ LoopTimer \/ CheckStopLosses \/ StopLossesDone
      BY <1>1, <1>a, <2>1, <3>2
         DEF LoopSettingsChanged, LoopTimer, CheckStopLosses, StopLossesDone, Return, GoTo,
             place, hands, ActorsOK
    <3>. QED
      BY <1>6, <1>7, <2>1, <3>1, <3>2 DEF LoopStep
  <2>2. CASE b = Loop
    <3>1. CASE LoopSettingsChanged \/ LoopTimer
      BY <1>r, <1>o, <1>a, <2>2, <3>1 DEF LoopSettingsChanged, LoopTimer, GoTo, hands, Hand, ActorsOK
    <3>2. CASE CheckStopLosses
      <4>1. /\ phase'[b] = "stops" /\ work'[b] \subseteq open /\ kept' = kept /\ row' = row
        BY <1>a, <2>2, <3>2 DEF CheckStopLosses, GoTo, ActorsOK
      <4>2. work'[b] \subseteq 1 .. opened'
        BY <1>o, <4>1
      <4>. QED
        BY <1>r, <1>o, <2>2, <4>1, <4>2 DEF Hand
    <3>3. CASE StopLossesDone
      BY <1>2, <1>a, <2>2, <3>3 DEF StopLossesDone, Return, GoTo, ActorsOK
    <3>. QED
      BY <1>3, <1>4, <1>5, <1>7, <2>2, <3>1, <3>2, <3>3 DEF LoopStep
  <2>. QED
    BY <2>1, <2>2
<1>8. ASSUME NEW h \in Handlers, HandlerStep(h) PROVE Hand(b)'
  <2>1. ASSUME NEW s \in SettingsPushes, UpdateSettings(h, s) PROVE Hand(b)'
    <3>1. CASE b # h
      BY <1>1, <1>a, <2>1, <3>1 DEF UpdateSettings, GoTo, ActorsOK
    <3>2. CASE b = h
      BY <1>r, <1>o, <1>a, <2>1, <3>2 DEF UpdateSettings, GoTo, Hand, ActorsOK
    <3>. QED
      BY <3>1, <3>2
  <2>. QED
    BY <1>3, <1>4, <1>6, <1>8, <2>1 DEF HandlerStep
<1>9. CASE Environment
  <2>1. ASSUME NEW a \in Actors, DatabaseFails(a) PROVE Hand(b)'
    <3>1. CASE Return(a)
      <4>1. CASE a = b
        BY <1>2, <1>a, <3>1, <4>1 DEF Return, GoTo, ActorsOK
      <4>2. CASE a # b
        BY <1>1, <1>a, <3>1, <4>2 DEF Return, GoTo, ActorsOK
      <4>. QED
        BY <4>1, <4>2
    <3>2. CASE phase[a] = "tick" /\ NextTicker
      <4>1. a = Loop
        BY <3>2 DEF OnlyLoopTicks
      <4>2. CASE b # Loop
        BY <1>1, <1>a, <3>2, <4>2 DEF NextTicker, GoTo, ActorsOK
      <4>. QED
        BY <1>2, <1>a, <3>2, <4>1, <4>2 DEF NextTicker, GoTo, ActorsOK
    <3>. QED
      BY <2>1, <3>1, <3>2 DEF DatabaseFails
  <2>2. CASE Restart
    BY <1>r, <2>2 DEF Restart, Hand
  <2>3. ASSUME UNCHANGED <<place, hands>> PROVE Hand(b)'
    BY <1>1, <2>3 DEF place, hands
  <2>. QED
    BY <1>9, <2>1, <2>2, <2>3
       DEF Environment, PersistSnapshot, PolymarketReserve, PolymarketRelease
<1>10. CASE UNCHANGED vars
  BY <1>1, <1>10 DEF vars, hands, place
<1>. QED
  BY <1>7, <1>8, <1>9, <1>10 DEF Next

(* The one handler works with what it pushed until it is idle again.       *)
LEMMA HandlerStays ==
  OneHandler /\ ActorsOK /\ HandlerInv /\ [Next]_vars => HandlerInv'
<1>. SUFFICES ASSUME OneHandler, ActorsOK, HandlerInv, [Next]_vars,
                     NEW b \in Handlers, phase'[b] # "idle"
              PROVE  cfg'[b] = settings'
  BY DEF HandlerInv
<1>. USE ActorAssumption DEF ActorsOK, Actors
<1>1. CASE settings' = settings /\ cfg'[b] = cfg[b] /\ phase[b] # "idle"
  BY <1>1 DEF HandlerInv
<1>2. ASSUME NEW a \in Actors, Reevaluate(a) PROVE cfg'[b] = settings'
  BY <1>1, <1>2 DEF Reevaluate, ReadPositions, RemovedDone, Restop, RestopDone, ReevaluateDone,
                    Return, GoTo, At, hub, place
<1>3. ASSUME NEW a \in Actors, ClosePosition(a) PROVE cfg'[b] = settings'
  <2>1. settings' = settings
    BY <1>3 DEF ClosePosition, ExecuteClose, CloseRejected, ReleaseCapital, DeletePosition,
                RecordClose, hub
  <2>2. (phase'[b] = phase[b] /\ cfg'[b] = cfg[b]) \/ NextTicker
    BY <1>3 DEF ClosePosition, ExecuteClose, CloseRejected, ReleaseCapital, DeletePosition,
                RecordClose, GoTo, place, hands
  <2>3. NextTicker => phase'[b] = phase[b] /\ cfg'[b] = cfg[b]
    BY DEF NextTicker, GoTo
  <2>. QED
    BY <1>1, <2>1, <2>2, <2>3
<1>4. CASE Tick
  BY <1>1, <1>4
     DEF Tick, TickStart, TickHold, TickSize, TickRisk, TickReserve, TickExecute, TickUndo,
         TickRecord, TickOpen, TickClose, NextTicker, GoTo, hub, place, hands
<1>5. CASE LoopStep
  BY <1>1, <1>2, <1>3, <1>4, <1>5
     DEF LoopStep, LoopSettingsChanged, LoopTimer, CheckStopLosses, StopLossesDone, Return, GoTo,
         hub, place, hands
<1>6. ASSUME NEW h \in Handlers, HandlerStep(h) PROVE cfg'[b] = settings'
  <2>1. ASSUME NEW s \in SettingsPushes, UpdateSettings(h, s) PROVE cfg'[b] = settings'
    BY <2>1 DEF UpdateSettings, OneHandler
  <2>. QED
    BY <1>2, <1>3, <1>6, <2>1 DEF HandlerStep
<1>7. CASE Environment
  <2>1. ASSUME NEW a \in Actors, DatabaseFails(a) PROVE cfg'[b] = settings'
    BY <1>1, <2>1 DEF DatabaseFails, NextTicker, Return, GoTo, hub
  <2>2. CASE Restart
    BY <2>2 DEF Restart
  <2>3. ASSUME UNCHANGED <<hub, place, hands>> PROVE cfg'[b] = settings'
    BY <1>1, <2>3 DEF hub, place, hands
  <2>. QED
    BY <1>7, <2>1, <2>2, <2>3
       DEF Environment, PersistSnapshot, PolymarketReserve, PolymarketRelease
<1>8. CASE UNCHANGED vars
  BY <1>1, <1>8 DEF vars, hub, hands, place
<1>. QED
  BY <1>5, <1>6, <1>7, <1>8 DEF Next

(* Where nobody's limit differs, a re-evaluation finds no excess.          *)
LEMMA NoExcess ==
  ASSUME NEW S, S \subseteq Ids, NEW m \in Int, m >= 0 => Cardinality(S) <= m
  PROVE  Excess(S, m) = {}
<1>1. SUFFICES ASSUME NEW i \in S, AtLimit(Cardinality({j \in S : j < i}), m) PROVE FALSE
  BY DEF Excess
<1>. DEFINE Older == {j \in S : j < i}
<1>2. IsFiniteSet(S)
  <2>1. IsFiniteSet(Ids)
    BY BoundAssumption, FS_Interval DEF Ids
  <2>. QED
    BY <2>1, FS_Subset
<1>3. Older \subseteq S /\ i \notin Older
  BY DEF Ids
<1>4. Older # S
  BY <1>3
<1>5. Cardinality(Older) < Cardinality(S) /\ Cardinality(Older) \in Nat /\ Cardinality(S) \in Nat
  BY <1>2, <1>3, <1>4, FS_Subset, FS_CardinalityType
<1>. QED
  BY <1>1, <1>5 DEF AtLimit

(* A row is opened with room for it under the limit of the tick.           *)
LEMMA TableWithinLimit ==
  ASSUME TypeInv, PairInv, LimitInv, [Next]_vars, Limit >= 0
  PROVE  Cardinality(open') <= Limit
<1>1. IsFiniteSet(open) /\ Cardinality(open) \in Nat /\ Cardinality(open) <= Limit /\ Limit \in Int
  BY OpenFinite, SettingsAssumption DEF TypeInv, TypeOK, LimitInv, Limit, Settings
<1>2. CASE TickOpen
  <2>1. open' = open \cup {opened + 1} /\ Trading(Chosen)
    BY <1>2 DEF TickOpen, At, Trading, Chosen
  <2>2. ~AtLimit(Cardinality(open), Limit)
    BY <2>1 DEF PairInv, LimitInv, Limited, Actors
  <2>3. \/ Cardinality(open \cup {opened + 1}) = Cardinality(open)
        \/ Cardinality(open \cup {opened + 1}) = Cardinality(open) + 1
    BY <1>1, FS_AddElement
  <2>. QED
    BY <1>1, <2>1, <2>2, <2>3 DEF AtLimit
<1>3. CASE open' \subseteq open
  <2>1. Cardinality(open') <= Cardinality(open) /\ Cardinality(open') \in Nat
    BY <1>1, <1>3, FS_Subset, FS_CardinalityType
  <2>. QED
    BY <1>1, <2>1
<1>4. ASSUME NEW a \in Actors, Reevaluate(a) PROVE open' = open
  BY <1>4 DEF Reevaluate, ReadPositions, RemovedDone, Restop, RestopDone, ReevaluateDone, table
<1>5. ASSUME NEW a \in Actors, ClosePosition(a) PROVE open' \subseteq open
  BY <1>5 DEF ClosePosition, ExecuteClose, CloseRejected, ReleaseCapital, DeletePosition,
              RecordClose, table
<1>6. CASE Tick
  BY <1>2, <1>3, <1>6 DEF Tick, TickStart, TickHold, TickSize, TickRisk, TickReserve, TickExecute,
                    TickUndo, TickRecord, TickClose, table
<1>7. CASE LoopStep
  BY <1>3, <1>4, <1>5, <1>6, <1>7
     DEF LoopStep, LoopSettingsChanged, LoopTimer, CheckStopLosses, StopLossesDone, table, Actors
<1>8. ASSUME NEW h \in Handlers, HandlerStep(h) PROVE open' \subseteq open
  BY <1>4, <1>5, <1>8 DEF HandlerStep, UpdateSettings, table, Actors
<1>9. CASE Environment
  BY <1>3, <1>9 DEF Environment, DatabaseFails, PersistSnapshot, Restart, PolymarketReserve,
                    PolymarketRelease, table
<1>10. CASE UNCHANGED vars
  BY <1>3, <1>10 DEF vars, table
<1>. QED
  BY <1>3, <1>7, <1>8, <1>9, <1>10 DEF Next

(* Every step keeps LimitInv, when no push changes the limit.              *)
LEMMA LimitStep ==
  SameLimit /\ TypeInv /\ PairInv /\ OnlyLoopTicks /\ LimitInv /\ [Next]_vars => LimitInv'
<1>. SUFFICES ASSUME SameLimit, TypeInv, PairInv, OnlyLoopTicks, LimitInv, [Next]_vars
              PROVE  LimitInv'
  OBVIOUS
<1>1. Limit >= 0 => Cardinality(open') <= Limit
  BY TableWithinLimit
<1>. USE DEF Limit
<1>a. ActorsOK /\ settings.max = Limit
  BY DEF TypeInv, TypeOK, LimitInv
<1>z. Cardinality({}) = 0 /\ Limit \in Int
  BY FS_EmptySet, SettingsAssumption DEF Settings
<1>. USE ActorAssumption DEF Actors
<1>2. settings'.max = Limit
  <2>1. ASSUME NEW a \in Actors, Reevaluate(a) \/ ClosePosition(a) PROVE settings' = settings
    BY <2>1 DEF Reevaluate, ReadPositions, RemovedDone, Restop, RestopDone, ReevaluateDone,
                ClosePosition, ExecuteClose, CloseRejected, ReleaseCapital, DeletePosition,
                RecordClose, hub
  <2>2. CASE LoopStep
    BY <1>a, <2>1, <2>2
       DEF LoopStep, LoopSettingsChanged, LoopTimer, CheckStopLosses, StopLossesDone,
           Tick, TickStart, TickHold, TickSize, TickRisk, TickReserve, TickExecute, TickUndo,
           TickRecord, TickOpen, TickClose, hub
  <2>3. ASSUME NEW h \in Handlers, HandlerStep(h) PROVE settings'.max = Limit
    BY <1>a, <2>1, <2>3 DEF HandlerStep, UpdateSettings, SameLimit
  <2>4. CASE Environment
    BY <1>a, <2>4 DEF Environment, DatabaseFails, PersistSnapshot, Restart, PolymarketReserve,
                PolymarketRelease, hub
  <2>5. CASE UNCHANGED vars
    BY <1>a, <2>5 DEF vars, hub
  <2>. QED
    BY <2>2, <2>3, <2>4, <2>5 DEF Next
<1>3. SUFFICES ASSUME NEW b \in Actors PROVE Limited(b)'
  BY <1>1, <1>2 DEF LimitInv
<1>b. Limited(b)
  BY DEF LimitInv
<1>4. CASE UNCHANGED <<phase[b], step[b], cfg[b], work[b], kept[b]>>
  BY <1>4, <1>a, <1>b DEF Limited
<1>5. CASE Return(b)
  BY <1>5, <1>a, <1>b, <1>z DEF Return, GoTo, ActorsOK, Limited
<1>6. ASSUME b = Loop, NextTicker PROVE Limited(b)'
  BY <1>6, <1>a, <1>b, <1>z DEF NextTicker, GoTo, ActorsOK, Limited
<1>7. CASE UNCHANGED <<cfg[b], kept[b]>> /\ phase'[b] # "excess"
  BY <1>7, <1>a, <1>b DEF Limited
<1>8. ASSUME NEW a \in Actors, Reevaluate(a) PROVE Limited(b)'
  <2>1. CASE a # b
    BY <1>4, <1>8, <1>a, <1>b, <2>1
       DEF Reevaluate, ReadPositions, RemovedDone, Restop, RestopDone, ReevaluateDone,
           Return, GoTo, place, ActorsOK
  <2>2. CASE a = b
    <3>1. CASE ReadPositions(b)
      <4>1. /\ kept'[b] = {i \in open : book[i].pair \in cfg[b].pairs}
            /\ cfg' = cfg /\ phase'[b] = "removed"
        BY <1>a, <1>b, <3>1 DEF ReadPositions, GoTo, ActorsOK
      <4>2. IsFiniteSet(open) /\ Cardinality(open) \in Nat
        BY OpenFinite DEF TypeInv, TypeOK
      <4>3. kept'[b] \subseteq open
        BY <4>1
      <4>4. Cardinality(kept'[b]) <= Cardinality(open) /\ Cardinality(kept'[b]) \in Nat
        BY <4>2, <4>3, FS_Subset, FS_CardinalityType
      <4>5. Limit >= 0 => Cardinality(kept'[b]) <= Limit
        BY <4>2, <4>4, SettingsAssumption DEF LimitInv, Settings
      <4>. QED
        BY <1>a, <1>b, <4>1, <4>5 DEF Limited
    <3>2. CASE RestopDone(b)
      <4>1. /\ work'[b] = Excess(kept[b], Limit)
            /\ kept' = kept /\ cfg' = cfg /\ step'[b] = "next"
        BY <1>a, <1>b, <3>2 DEF RestopDone, GoTo, ActorsOK, Limited
      <4>2. work'[b] = {}
        BY <1>a, <1>b, <4>1, NoExcess, SettingsAssumption DEF ActorsOK, Limited, Settings
      <4>. QED
        BY <1>a, <1>b, <4>1, <4>2 DEF Limited
    <3>3. CASE RemovedDone(b)
      BY <1>7, <1>a, <1>b, <3>3 DEF RemovedDone, GoTo, ActorsOK
    <3>4. ASSUME NEW i \in Ids, Restop(b, i) PROVE Limited(b)'
      BY <1>5, <1>7, <1>a, <1>b, <3>4 DEF Restop, At, place
    <3>5. CASE ReevaluateDone(b)
      BY <1>5, <3>5 DEF ReevaluateDone
    <3>. QED
      BY <1>8, <2>2, <3>1, <3>2, <3>3, <3>4, <3>5 DEF Reevaluate
  <2>. QED
    BY <2>1, <2>2
<1>9. ASSUME NEW a \in Actors, ClosePosition(a) PROVE Limited(b)'
  <2>1. CASE a # b
    BY <1>4, <1>9, <1>a, <1>b, <2>1
       DEF ClosePosition, ExecuteClose, CloseRejected, ReleaseCapital, DeletePosition, RecordClose,
           NextTicker, GoTo, place, hands, ActorsOK, OnlyLoopTicks
  <2>2. CASE a = b
    <3>1. CASE phase[b] = "tick" /\ DeletePosition(b)
      BY <1>6, <1>a, <1>b, <3>1 DEF DeletePosition, OnlyLoopTicks
    <3>2. CASE phase[b] = "excess"
      BY <1>9, <1>a, <1>b, <2>2, <3>2
         DEF Limited, ClosePosition, ExecuteClose, CloseRejected, InTurn, ReleaseCapital,
             DeletePosition, RecordClose
    <3>3. CASE phase[b] # "excess" /\ ~(phase[b] = "tick" /\ DeletePosition(b))
      BY <1>7, <1>9, <1>a, <1>b, <2>2, <3>3
         DEF ClosePosition, ExecuteClose, CloseRejected, ReleaseCapital, DeletePosition,
             RecordClose, GoTo, place, hands, ActorsOK
    <3>. QED
      BY <3>1, <3>2, <3>3
  <2>. QED
    BY <2>1, <2>2
<1>10. CASE Tick
  <2>1. CASE b # Loop
    BY <1>4, <1>10, <1>a, <1>b, <2>1
       DEF Tick, TickStart, TickHold, TickSize, TickRisk, TickReserve, TickExecute, TickUndo,
           TickRecord, TickOpen, TickClose, NextTicker, GoTo, place, hands, ActorsOK
  <2>2. CASE b = Loop
    <3>1. ASSUME NEW p \in Pairs, TickStart(p) PROVE Limited(b)'
      BY <1>a, <1>b, <2>2, <3>1 DEF TickStart, GoTo, At, place, Limited, ActorsOK
    <3>2. CASE TickClose
      BY <1>6, <1>7, <1>a, <1>b, <2>2, <3>2 DEF TickClose, GoTo, ActorsOK
    <3>. QED
      BY <1>6, <1>7, <1>10, <1>a, <1>b, <2>2, <3>1, <3>2
         DEF Tick, TickHold, TickSize, TickRisk, TickReserve, TickExecute, TickUndo,
             TickRecord, TickOpen, GoTo, hands, ActorsOK
  <2>. QED
    BY <2>1, <2>2
<1>11. CASE LoopStep
  <2>1. CASE LoopSettingsChanged
    BY <1>a, <1>b, <2>1 DEF LoopSettingsChanged, GoTo, Limited, ActorsOK
  <2>2. CASE LoopTimer \/ CheckStopLosses
    BY <1>4, <1>7, <1>a, <1>b, <2>2 DEF LoopTimer, CheckStopLosses, GoTo, hands, ActorsOK
  <2>3. CASE StopLossesDone
    BY <1>4, <1>5, <1>a, <1>b, <2>3 DEF StopLossesDone, Return, GoTo, ActorsOK
  <2>. QED
    BY <1>8, <1>9, <1>10, <1>11, <2>1, <2>2, <2>3 DEF LoopStep
<1>12. ASSUME NEW h \in Handlers, HandlerStep(h) PROVE Limited(b)'
  <2>1. ASSUME NEW s \in SettingsPushes, UpdateSettings(h, s) PROVE Limited(b)'
    BY <1>a, <1>b, <2>1 DEF UpdateSettings, GoTo, Limited, ActorsOK, SameLimit
  <2>. QED
    BY <1>8, <1>9, <1>12, <2>1 DEF HandlerStep
<1>13. CASE Environment
  <2>1. ASSUME NEW a \in Actors, DatabaseFails(a) PROVE Limited(b)'
    <3>1. CASE NextTicker /\ a = Loop
      BY <1>4, <1>6, <1>a, <1>b, <3>1 DEF NextTicker, GoTo, ActorsOK
    <3>2. CASE Return(a)
      BY <1>4, <1>5, <1>a, <1>b, <3>2 DEF Return, GoTo, ActorsOK
    <3>. QED
      BY <2>1, <3>1, <3>2 DEF DatabaseFails, OnlyLoopTicks
  <2>2. CASE Restart
    BY <1>z, <2>2 DEF Restart, Limited
  <2>3. ASSUME UNCHANGED <<place, hands>> PROVE Limited(b)'
    BY <1>4, <2>3 DEF place, hands
  <2>. QED
    BY <1>13, <2>1, <2>2, <2>3
       DEF Environment, PersistSnapshot, PolymarketReserve, PolymarketRelease
<1>14. CASE UNCHANGED vars
  BY <1>4, <1>14 DEF vars, hands, place
<1>. QED
  BY <1>11, <1>12, <1>13, <1>14 DEF Next

(* Every step keeps StopInv; <1>1 covers the steps that insert no row and  *)
(* touch no settings.                                                      *)
LEMMA StopStep ==
  /\ TypeInv /\ PairInv /\ OnlyLoopTicks /\ HandInv /\ HandlerInv /\ LimitInv
  /\ StopInv /\ [Next]_vars
  => StopInv'
<1>. SUFFICES ASSUME TypeInv, PairInv, OnlyLoopTicks, HandInv, HandlerInv, LimitInv,
                     StopInv, [Next]_vars, faults' = 0, ~changed'
              PROVE  StopInv'
  BY DEF StopInv
<1>. USE ActorAssumption DEF Actors
<1>a. /\ ActorsOK /\ TableOK /\ faults \in Nat
      /\ Hand(Loop) /\ Limited(Loop)
      /\ \A h \in Handlers : Hand(h) /\ Limited(h)
  BY BoundAssumption DEF TypeInv, TypeOK, NotesOK, HandInv, LimitInv
<1>1. ASSUME faults = 0, ~changed,
             UNCHANGED settings,
             open' \subseteq open, rejected \subseteq rejected',
             \A i \in open' : book'[i].stop \in {book[i].stop, settings.stop},
             \A i \in open' \ rejected' :
                 Treating(i) => Treating(i)' \/ book'[i].stop = settings.stop,
             phase'[Loop] \in {"read", "removed", "restop"} =>
                 phase[Loop] \in {"read", "removed", "restop"} /\ cfg'[Loop] = cfg[Loop],
             phase'[Loop] = "removed" => kept'[Loop] \subseteq open',
             phase'[Loop] = "restop" => work'[Loop] \subseteq open',
             Trading(Picked)' => Trading(Picked) /\ cfg'[Loop].stop = cfg[Loop].stop
      PROVE  StopInv'
  <2>1. ASSUME NEW i \in open' \ rejected'
        PROVE  book'[i].stop = settings'.stop \/ Treating(i)'
    BY <1>1, <2>1 DEF StopInv
  <2>. QED
    BY <1>1, <2>1 DEF StopInv
<1>2. ASSUME UNCHANGED <<settings, changed, faults, open>>,
             rejected \subseteq rejected',
             \A i \in open : book'[i].stop \in {book[i].stop, settings.stop},
             UNCHANGED <<phase[Loop], step[Loop], work[Loop], row[Loop], cfg[Loop], kept[Loop]>>
      PROVE  StopInv'
  <2>1. Trading(Picked)' = Trading(Picked)
    BY <1>2 DEF Trading
  <2>2. \A i \in open : Treating(i) => Treating(i)'
    BY <1>2 DEF Treating
  <2>3. faults = 0 /\ ~changed
    BY <1>2
  <2>4. /\ phase[Loop] = "removed" => kept[Loop] \subseteq open
        /\ phase[Loop] = "restop" => work[Loop] \subseteq open
    BY <2>3 DEF StopInv
  <2>. QED
    BY <1>1, <1>2, <2>1, <2>2, <2>3, <2>4
<1>3. ASSUME NEW h \in Handlers, Reevaluate(h) PROVE StopInv'
  <2>1. ASSUME NEW i \in Ids, Restop(h, i) PROVE StopInv'
    <3>1. cfg[h] = settings
      BY <2>1 DEF Restop, At, HandlerInv
    <3>2. \A j \in open : book'[j].stop \in {book[j].stop, settings.stop}
      BY <1>a, <2>1, <3>1 DEF Restop, TableOK, Row
    <3>. QED
      BY <1>2, <1>a, <2>1, <3>2 DEF Restop, Return, GoTo, place, hub, notes, counts, ActorsOK
  <2>2. CASE ReadPositions(h) \/ RemovedDone(h) \/ RestopDone(h) \/ ReevaluateDone(h)
    BY <1>2, <1>a, <2>2
       DEF ReadPositions, RemovedDone, RestopDone, ReevaluateDone, Return, GoTo, place,
           table, hub, notes, counts, ActorsOK
  <2>. QED
    BY <1>3, <2>1, <2>2 DEF Reevaluate
<1>4. ASSUME NEW h \in Handlers, ClosePosition(h) PROVE StopInv'
  <2>1. CASE DeletePosition(h)
    <3>1. phase[h] = "removed"
      BY <1>a, <2>1 DEF DeletePosition, Hand, Limited, OnlyLoopTicks, ActorsOK, Phases
    <3>2. /\ open' = open \ {row[h]}
          /\ UNCHANGED <<settings, changed, faults, book, rejected>>
          /\ UNCHANGED <<phase[Loop], step[Loop], work[Loop], row[Loop], cfg[Loop], kept[Loop]>>
      BY <1>a, <2>1, <3>1 DEF DeletePosition, GoTo, hands, hub, notes, counts, ActorsOK
    <3>3. book[row[h]].pair \notin settings.pairs
      BY <1>a, <2>1, <3>1 DEF DeletePosition, Hand, Removes, HandlerInv
    <3>4. phase[Loop] \in {"removed", "restop"} => \A i \in kept[Loop] : book[i].pair \in settings.pairs
      BY <1>a, <3>2 DEF StopInv, Hand, Removes
    <3>5. /\ phase[Loop] = "removed" => kept[Loop] \subseteq open'
          /\ phase[Loop] = "restop" => work[Loop] \subseteq open'
      BY <1>a, <3>2, <3>3, <3>4 DEF StopInv, Hand
    <3>6. \A i \in open : Treating(i) => Treating(i)'
      BY <3>2 DEF Treating
    <3>7. Trading(Picked)' = Trading(Picked)
      BY <3>2 DEF Trading
    <3>. QED
      BY <1>1, <3>2, <3>5, <3>6, <3>7
  <2>2. CASE ~DeletePosition(h)
    BY <1>2, <1>4, <1>a, <2>2
       DEF ClosePosition, ExecuteClose, CloseRejected, ReleaseCapital, RecordClose,
           GoTo, place, hands, table, hub, notes, counts, ActorsOK
  <2>. QED
    BY <2>1, <2>2
<1>5. CASE Reevaluate(Loop)
  <2>1. ASSUME NEW i \in Ids, Restop(Loop, i) PROVE StopInv'
    <3>1. /\ phase[Loop] = "restop" /\ i \in work[Loop] /\ step[Loop] = "next"
          /\ UNCHANGED <<open, settings, changed, faults, rejected>>
      BY <2>1 DEF Restop, At, hub, notes, counts
    <3>2. work[Loop] \subseteq open /\ cfg[Loop] = settings
      BY <3>1 DEF StopInv
    <3>3. /\ book' = [book EXCEPT ![i].stop = settings.stop]
          /\ work'[Loop] = work[Loop] \ {i}
          /\ UNCHANGED <<place, cfg, kept, row>>
      BY <1>a, <2>1, <3>1, <3>2 DEF Restop, ActorsOK
    <3>4. \A j \in open : book'[j].stop = IF j = i THEN settings.stop ELSE book[j].stop
      BY <1>a, <3>3 DEF TableOK, Row
    <3>5. \A j \in open : Treating(j) => Treating(j)' \/ book'[j].stop = settings.stop
      BY <3>1, <3>3, <3>4 DEF Treating, place
    <3>6. ~Trading(Picked)'
      BY <3>1, <3>3 DEF Trading, place
    <3>. QED
      BY <1>1, <3>1, <3>2, <3>3, <3>4, <3>5, <3>6 DEF place
  <2>2. CASE ReadPositions(Loop)
    <3>1. /\ phase'[Loop] = "removed" /\ phase[Loop] = "read" /\ cfg' = cfg
          /\ kept'[Loop] = {i \in open : book[i].pair \in cfg[Loop].pairs}
          /\ work'[Loop] = open \ kept'[Loop]
          /\ UNCHANGED <<open, book, settings, changed, faults, rejected>>
      BY <1>a, <2>2 DEF ReadPositions, GoTo, At, table, hub, notes, counts, ActorsOK
    <3>2. \A i \in open : Treating(i)'
      BY <3>1 DEF Treating
    <3>3. ~Trading(Picked)' /\ kept'[Loop] \subseteq open
      BY <3>1 DEF Trading
    <3>. QED
      BY <1>1, <3>1, <3>2, <3>3
  <2>3. CASE RemovedDone(Loop)
    <3>1. /\ phase'[Loop] = "restop" /\ phase[Loop] = "removed" /\ step[Loop] = "next"
          /\ work[Loop] = {} /\ work'[Loop] = kept[Loop] /\ cfg' = cfg
          /\ UNCHANGED <<open, book, settings, changed, faults, rejected>>
      BY <1>a, <2>3 DEF RemovedDone, GoTo, At, table, hub, notes, counts, ActorsOK
    <3>2. \A i \in open : Treating(i) => Treating(i)'
      BY <3>1 DEF Treating
    <3>3. ~Trading(Picked)' /\ kept[Loop] \subseteq open
      BY <3>1 DEF Trading, StopInv
    <3>. QED
      BY <1>1, <3>1, <3>2, <3>3
  <2>4. CASE RestopDone(Loop)
    <3>1. /\ phase'[Loop] = "excess" /\ phase[Loop] = "restop" /\ work[Loop] = {}
          /\ UNCHANGED <<open, book, settings, changed, faults, rejected>>
      BY <1>a, <2>4 DEF RestopDone, GoTo, At, table, hub, notes, counts, ActorsOK
    <3>. QED
      BY <3>1 DEF StopInv, Treating, Trading
  <2>5. CASE ReevaluateDone(Loop)
    <3>1. /\ phase'[Loop] = "idle" /\ phase[Loop] = "excess"
          /\ UNCHANGED <<open, book, settings, changed, faults, rejected>>
      BY <1>a, <2>5 DEF ReevaluateDone, Return, GoTo, At, table, hub, notes, counts, ActorsOK
    <3>. QED
      BY <3>1 DEF StopInv, Treating, Trading
  <2>. QED
    BY <1>5, <2>1, <2>2, <2>3, <2>4, <2>5 DEF Reevaluate
<1>6. CASE ClosePosition(Loop)
  <2>1. ASSUME NEW i \in Ids, ExecuteClose(Loop, i) PROVE StopInv'
    <3>1. /\ phase[Loop] \in {"removed", "excess", "stops"} /\ phase'[Loop] = phase[Loop]
          /\ step[Loop] = "next" /\ step'[Loop] = "release"
          /\ work'[Loop] = work[Loop] \ {i} /\ row'[Loop] = i
          /\ UNCHANGED <<open, book, settings, changed, faults, rejected, cfg, kept>>
      BY <1>a, <2>1 DEF ExecuteClose, GoTo, table, hub, counts, ActorsOK
    <3>2. \A j \in open : Treating(j) => Treating(j)'
      BY <3>1 DEF Treating
    <3>3. ~Trading(Picked)' /\ (phase[Loop] = "removed" => kept[Loop] \subseteq open)
      BY <3>1 DEF Trading, StopInv
    <3>. QED
      BY <1>1, <3>1, <3>2, <3>3
  <2>2. ASSUME NEW i \in Ids, CloseRejected(Loop, i) PROVE StopInv'
    <3>1. /\ phase[Loop] \in {"removed", "excess", "stops"}
          /\ work'[Loop] = work[Loop] \ {i} /\ rejected' = rejected \cup {i}
          /\ UNCHANGED <<open, book, settings, changed, faults, phase, step, row, cfg, kept>>
      BY <1>a, <2>2 DEF CloseRejected, place, table, hub, counts, ActorsOK
    <3>2. \A j \in open \ rejected' : Treating(j) => Treating(j)'
      BY <3>1 DEF Treating
    <3>3. ~Trading(Picked)' /\ (phase[Loop] = "removed" => kept[Loop] \subseteq open)
      BY <3>1 DEF Trading, StopInv
    <3>. QED
      BY <1>1, <3>1, <3>2, <3>3
  <2>3. ASSUME phase'[Loop] = phase[Loop], phase[Loop] \notin {"idle", "read", "restop", "tick"},
               UNCHANGED <<open, book, settings, changed, faults, rejected, cfg, work, kept>>,
               \A i \in open : Treating(i) => Treating(i)'
        PROVE  StopInv'
    <3>1. ~Trading(Picked)' /\ (phase[Loop] = "removed" => kept[Loop] \subseteq open)
      BY <2>3 DEF Trading, StopInv
    <3>. QED
      BY <1>1, <2>3, <3>1
  <2>4. ASSUME UNCHANGED <<book, settings, changed, faults, rejected>>, open' \subseteq open,
               phase'[Loop] = "tick", phase[Loop] = "tick", step'[Loop] \in {"next", "delete"}
        PROVE  StopInv'
    <3>1. ~Trading(Picked)'
      BY <2>4 DEF Trading, Picked, Sized
    <3>. QED
      BY <1>1, <2>4, <3>1 DEF Treating
  <2>5. CASE ReleaseCapital(Loop)
    <3>1. /\ phase'[Loop] = phase[Loop] /\ step[Loop] = "release" /\ step'[Loop] = "delete"
          /\ UNCHANGED <<open, book, settings, changed, faults, rejected, cfg, work, kept, row>>
      BY <1>a, <2>5 DEF ReleaseCapital, GoTo, table, hub, hands, notes, counts, ActorsOK
    <3>2. \A i \in open : Treating(i) => Treating(i)'
      BY <3>1 DEF Treating
    <3>. QED
      BY <1>a, <2>3, <2>4, <3>1, <3>2 DEF Hand
  <2>6. CASE DeletePosition(Loop)
    <3>1. CASE phase[Loop] = "tick"
      BY <1>a, <2>4, <2>6, <3>1 DEF DeletePosition, NextTicker, GoTo, hub, notes, counts, ActorsOK
    <3>2. CASE phase[Loop] # "tick"
      <4>1. /\ open' = open \ {row[Loop]} /\ phase'[Loop] = phase[Loop]
            /\ step[Loop] = "delete" /\ step'[Loop] = "record"
            /\ UNCHANGED <<book, settings, changed, faults, rejected, cfg, work, kept, row>>
        BY <1>a, <2>6, <3>2 DEF DeletePosition, GoTo, hub, hands, notes, counts, ActorsOK
      <4>2. \A i \in open' : Treating(i) => Treating(i)'
        BY <4>1 DEF Treating
      <4>3. phase[Loop] = "removed" => kept[Loop] \subseteq open'
        BY <1>a, <4>1 DEF StopInv, Hand
      <4>4. ~Trading(Picked)' /\ phase[Loop] # "restop"
        BY <1>a, <3>2, <4>1 DEF Trading, Hand
      <4>. QED
        BY <1>1, <4>1, <4>2, <4>3, <4>4
    <3>. QED
      BY <3>1, <3>2
  <2>7. CASE RecordClose(Loop)
    <3>1. /\ phase'[Loop] = phase[Loop] /\ step[Loop] = "record" /\ step'[Loop] = "next"
          /\ UNCHANGED <<open, book, settings, changed, faults, rejected, cfg, work, kept>>
      BY <1>a, <2>7 DEF RecordClose, GoTo, table, hub, counts, ActorsOK
    <3>2. \A i \in open : Treating(i) => Treating(i)'
      BY <3>1 DEF Treating
    <3>. QED
      BY <1>a, <2>3, <2>4, <3>1, <3>2 DEF Hand
  <2>. QED
    BY <1>6, <2>1, <2>2, <2>5, <2>6, <2>7 DEF ClosePosition
<1>7. CASE Tick
  <2>1. ASSUME NEW p \in Pairs, TickStart(p) PROVE StopInv'
    BY <1>a, <2>1 DEF TickStart, GoTo, At, StopInv, Treating, Trading, Picked, Sized, place, ActorsOK,
                table, hub, notes, counts
  <2>2. CASE TickOpen
    <3>1. opened' \notin open /\ opened' \in Ids
      BY <2>2, BoundAssumption
         DEF TickOpen, Trading, At, PairInv, TableOK, RoomToOpen, Sized, Ids, TypeInv, TypeOK
    <3>2. /\ open' = open \cup {opened'}
          /\ book'[opened'].stop = cfg[Loop].stop /\ \A i \in open : book'[i] = book[i]
      BY <1>a, <2>2, <3>1 DEF TickOpen, TableOK
    <3>3. /\ Trading(Picked) /\ phase'[Loop] = "tick" /\ step'[Loop] = "next"
          /\ UNCHANGED <<settings, changed, rejected, faults>>
      BY <1>a, <2>2 DEF TickOpen, NextTicker, GoTo, At, Trading, Picked, Sized, ActorsOK,
                  hub, notes, counts
    <3>. QED
      BY <3>2, <3>3 DEF StopInv, Treating, Trading, Picked, Sized
  <2>3. ASSUME UNCHANGED <<table, settings, changed, faults, rejected>>,
               phase[Loop] = "tick", phase'[Loop] = "tick",
               Trading(Picked)' => Trading(Picked) /\ cfg'[Loop] = cfg[Loop]
        PROVE  StopInv'
    BY <2>3 DEF StopInv, Treating, table
  <2>4. CASE TickHold \/ TickSize
    BY <1>a, <2>3, <2>4 DEF TickHold, TickSize, NextTicker, GoTo, At, Trading, Picked, Sized,
                      ActorsOK, hub, hands, notes, counts
  <2>5. CASE TickRisk \/ TickReserve \/ TickUndo
    BY <1>a, <2>3, <2>5 DEF TickRisk, TickReserve, TickUndo, NextTicker, GoTo, At, Trading, Picked,
                      Sized, ActorsOK, hub, hands, notes, counts
  <2>6. CASE TickExecute \/ TickRecord \/ TickClose
    BY <1>a, <2>3, <2>6 DEF TickExecute, TickRecord, TickClose, NextTicker, GoTo, At, Trading, Picked,
                      Sized, ActorsOK, hub, hands, notes, counts
  <2>. QED
    BY <1>7, <2>1, <2>2, <2>4, <2>5, <2>6 DEF Tick
<1>8. CASE LoopStep
  <2>1. CASE LoopSettingsChanged
    BY <1>a, <2>1 DEF LoopSettingsChanged, GoTo, StopInv, Treating, Trading, ActorsOK
  <2>2. ASSUME UNCHANGED <<table, settings, changed, faults, rejected>>,
               phase[Loop] \in {"idle", "tick", "stops"}, phase'[Loop] \in {"idle", "tick", "stops"},
               ~Trading(Picked)'
        PROVE  StopInv'
    BY <2>2 DEF StopInv, Treating, table
  <2>3. CASE LoopTimer \/ CheckStopLosses \/ StopLossesDone
    BY <1>a, <2>2, <2>3
       DEF LoopTimer, CheckStopLosses, StopLossesDone, Return, GoTo, At, Trading, Picked, Sized,
           ActorsOK, hub, notes, counts
  <2>. QED
    BY <1>5, <1>6, <1>7, <1>8, <2>1, <2>3 DEF LoopStep
<1>9. ASSUME NEW h \in Handlers, HandlerStep(h) PROVE StopInv'
  <2>1. ASSUME NEW s \in SettingsPushes, UpdateSettings(h, s) PROVE StopInv'
    BY <2>1 DEF UpdateSettings
  <2>. QED
    BY <1>3, <1>4, <1>9, <2>1 DEF HandlerStep
<1>10. CASE Environment
  <2>1. ASSUME NEW a \in Actors, DatabaseFails(a) PROVE StopInv'
    BY <1>a, <2>1 DEF DatabaseFails
  <2>2. CASE Restart
    BY <2>2 DEF Restart
  <2>3. ASSUME UNCHANGED <<table, hub, place, hands, ticks, notes, counts>> PROVE StopInv'
    BY <1>2, <2>3 DEF table, hub, place, hands, notes, counts
  <2>. QED
    BY <1>10, <2>1, <2>2, <2>3
       DEF Environment, PersistSnapshot, PolymarketReserve, PolymarketRelease
<1>11. CASE UNCHANGED vars
  BY <1>2, <1>11 DEF vars, table, hub, hands, place, notes, counts
<1>. QED
  BY <1>8, <1>9, <1>10, <1>11 DEF Next

(* With one handler, and a limit that no push changes, every stop-loss is  *)
(* one of the settings in force once everybody has settled, whatever is    *)
(* closed, refused or opened meanwhile.                                    *)
THEOREM SettledStopsAlwaysCurrent ==
  ASSUME OneHandler, SameLimit
  PROVE  Spec => []SettledStopsCurrent
<1>1. Init => HandInv /\ HandlerInv /\ LimitInv /\ StopInv
  BY FS_EmptySet, SettingsAssumption
     DEF Init, HandInv, Hand, HandlerInv, LimitInv, Limited, Limit, StopInv, Actors, Settings
<1>2. Init => OnlyLoopTicks
  BY DEF Init, OnlyLoopTicks, Actors
<1>3. TypeInv => ActorsOK
  BY DEF TypeInv, TypeOK
<1>4. StopInv => SettledStopsCurrent
  BY DEF StopInv, SettledStopsCurrent, Settled, Treating
<1>. QED
  BY OneHandler, SameLimit, TypeInvariant, PairInvariant, OnlyLoopTicksStep, HandStep, HandlerStays,
     LimitStep, StopStep, <1>1, <1>2, <1>3, <1>4, PTL DEF Spec

-----------------------------------------------------------------------------
(* The books.                                                              *)

\* No sale costs more than it brings in.  The order that closes a position has the
\* position's quantity, and its fee is a share of what it brings in; the fee of a Sell
\* of the strategy is that of an order sized on the balance, which may be far larger
\* than the position.  Without Sells, SellReturns may be empty.
SalesPay == Returns \cup SellReturns \subseteq Nat

\* The snapshot is as sound as the portfolio, for a restart makes it the portfolio;
\* an order under way was sized on a balance that was not negative.
MoneyInv ==
    /\ AvailableNotNegative
    /\ snapshot.available >= 0
    /\ order.capital >= 0

(* A reservation keeps the books balanced ...                              *)
LEMMA ReserveBalanced ==
  ASSUME NEW p \in PortfolioState, NEW x \in Int, NEW m \in Modules, Balanced(p)
  PROVE  Balanced(Reserve(p, x, m))
BY ReserveType DEF Balanced

(* ... and so does a release, even one made twice: release_funds recomputes *)
(* the total from the fields it has just changed.                          *)
LEMMA ReleaseBalanced ==
  ASSUME NEW p \in PortfolioState, NEW x \in Int, NEW y \in Int, NEW m \in Modules,
         Balanced(p)
  PROVE  Balanced(Release(p, x, y, m))
<1>1. /\ Release(p, x, y, m).total = Worth(p) + y
      /\ Worth(Release(p, x, y, m)) = Worth(p) + y
      /\ Release(p, x, y, m).realized = p.realized + y
  BY ReleaseType
<1>2. p.realized \in Int /\ Worth(p) = InitialBalance + p.realized
  BY DEF PortfolioState, Balanced
<1>. QED
  BY <1>1, <1>2, MoneyAssumption DEF Balanced

(* Every step keeps MoneyInv.                                              *)
LEMMA MoneyStep ==
  ASSUME SalesPay, TypeInv, MoneyInv, [Next]_vars
  PROVE  MoneyInv'
<1>. USE DEF TypeInv, TypeOK
<1>a. /\ portfolio \in PortfolioState /\ portfolio.available \in Int
      /\ portfolio.realized \in Int /\ portfolio.total \in Int
      /\ order \in Orders /\ order.capital \in Int
  BY DEF MoneyOK, PortfolioState, TicksOK, Orders
<1>1. ASSUME UNCHANGED money, order'.capital \in {0, order.capital} PROVE MoneyInv'
  BY <1>1 DEF MoneyInv, AvailableNotNegative, money
<1>2. ASSUME UNCHANGED snapshot, order'.capital \in {0, order.capital},
             portfolio'.available >= 0
      PROVE  MoneyInv'
  BY <1>2 DEF MoneyInv, AvailableNotNegative
<1>3. ASSUME NextTicker PROVE order'.capital = 0
  BY <1>3 DEF NextTicker, NoOrder, NewOrder
<1>4. ASSUME NEW a \in Actors, Reevaluate(a) PROVE MoneyInv'
  BY <1>1, <1>4 DEF Reevaluate, ReadPositions, RemovedDone, Restop, RestopDone, ReevaluateDone, ticks
<1>5. ASSUME NEW a \in Actors, ClosePosition(a) PROVE MoneyInv'
  <2>1. ASSUME NEW i \in Ids, ExecuteClose(a, i) \/ CloseRejected(a, i) PROVE MoneyInv'
    BY <1>1, <2>1 DEF ExecuteClose, CloseRejected, ticks
  <2>2. CASE ReleaseCapital(a)
    <3>1. PICK proceeds \in Proceeds(a) :
            portfolio' = Release(portfolio, book[row[a]].capital,
                                 proceeds - book[row[a]].capital, "trading")
      BY <2>2 DEF ReleaseCapital
    <3>2. book[row[a]].capital \in Int /\ proceeds \in Nat
      BY <2>2 DEF ReleaseCapital, RowInHand, TableOK, Row, Proceeds, SalesPay
    <3>3. portfolio'.available >= 0
      <4>1. portfolio'.available = portfolio.available + book[row[a]].capital
                                      + (proceeds - book[row[a]].capital)
        BY <3>1, <3>2, ReleaseType DEF MoneyOK, Modules
      <4>. QED
        BY <1>a, <3>2, <4>1 DEF MoneyInv, AvailableNotNegative
    <3>. QED
      BY <1>2, <2>2, <3>3 DEF ReleaseCapital, hands, ticks
  <2>3. CASE DeletePosition(a) \/ RecordClose(a)
    BY <1>1, <1>3, <2>3 DEF DeletePosition, RecordClose, ticks
  <2>. QED
    BY <1>5, <2>1, <2>2, <2>3 DEF ClosePosition
<1>6. CASE Tick
  <2>1. CASE TickReserve
    <3>1. CASE UNCHANGED portfolio
      BY <1>1, <1>3, <2>1, <3>1 DEF TickReserve, money
    <3>2. CASE /\ CanReserve(portfolio, order.capital)
               /\ portfolio' = Reserve(portfolio, order.capital, "trading")
               /\ UNCHANGED order
      <4>1. portfolio'.available >= 0
        <5>1. portfolio'.available = portfolio.available - order.capital
          BY <1>a, <3>2, ReserveType DEF Modules
        <5>. QED
          BY <1>a, <3>2, <5>1 DEF CanReserve
      <4>. QED
        BY <1>2, <2>1, <3>2, <4>1 DEF TickReserve
    <3>. QED
      BY <2>1, <3>1, <3>2 DEF TickReserve
  <2>2. CASE TickUndo
    <3>1. portfolio' = Release(portfolio, order.capital, 0, "trading")
      BY <2>2 DEF TickUndo
    <3>2. portfolio'.available >= 0
      <4>1. portfolio'.available = portfolio.available + order.capital
        BY <1>a, <3>1, ReleaseType DEF Modules
      <4>. QED
        BY <1>a, <4>1 DEF MoneyInv, AvailableNotNegative
    <3>. QED
      BY <1>2, <1>3, <2>2, <3>2 DEF TickUndo
  <2>3. CASE TickSize
    <3>1. order'.capital = PositionCap(portfolio.available)
      BY <1>a, <2>3 DEF TickSize, Orders
    <3>2. order'.capital >= 0
      BY <1>a, <3>1, CapType DEF MoneyInv, AvailableNotNegative
    <3>. QED
      BY <2>3, <3>2 DEF TickSize, money, MoneyInv, AvailableNotNegative
  <2>4. CASE TickExecute
    BY <1>1, <1>a, <2>4 DEF TickExecute, Orders
  <2>5. ASSUME NEW p \in Pairs, TickStart(p) PROVE MoneyInv'
    BY <1>1, <2>5 DEF TickStart, NewOrder
  <2>6. CASE TickHold \/ TickRisk \/ TickRecord \/ TickOpen \/ TickClose
    BY <1>1, <1>3, <2>6 DEF TickHold, TickRisk, TickRecord, TickOpen, TickClose
  <2>. QED
    BY <1>6, <2>1, <2>2, <2>3, <2>4, <2>5, <2>6 DEF Tick
<1>7. CASE LoopStep
  BY <1>1, <1>4, <1>5, <1>6, <1>7
     DEF LoopStep, LoopSettingsChanged, LoopTimer, CheckStopLosses, StopLossesDone, ticks, Actors
<1>8. ASSUME NEW h \in Handlers, HandlerStep(h) PROVE MoneyInv'
  BY <1>1, <1>4, <1>5, <1>8 DEF HandlerStep, UpdateSettings, ticks, Actors
<1>9. CASE Environment
  <2>1. ASSUME NEW a \in Actors, DatabaseFails(a) PROVE MoneyInv'
    BY <1>1, <1>3, <2>1 DEF DatabaseFails
  <2>2. CASE PersistSnapshot \/ Restart
    BY <2>2 DEF PersistSnapshot, Restart, MoneyInv, AvailableNotNegative,
                NoOrder, NewOrder, ticks
  <2>3. ASSUME NEW x \in OtherAmounts, PolymarketReserve(x) PROVE MoneyInv'
    <3>1. x \in Int
      BY MoneyAssumption
    <3>2. portfolio'.available >= 0
      <4>1. portfolio'.available = portfolio.available - x
        BY <1>a, <2>3, <3>1, ReserveType DEF PolymarketReserve, Modules
      <4>. QED
        BY <1>a, <2>3, <3>1, <4>1 DEF PolymarketReserve, CanReserve
    <3>. QED
      BY <1>2, <2>3, <3>2 DEF PolymarketReserve, ticks
  <2>4. ASSUME NEW x \in OtherAmounts, PolymarketRelease(x) PROVE MoneyInv'
    <3>1. PICK pnl \in {0, -x} : portfolio' = Release(portfolio, x, pnl, "polymarket")
      BY <2>4 DEF PolymarketRelease
    <3>2. x \in Nat /\ pnl \in Int /\ x + pnl >= 0
      BY MoneyAssumption
    <3>3. portfolio'.available >= 0
      <4>1. portfolio'.available = portfolio.available + x + pnl
        BY <3>1, <3>2, ReleaseType DEF MoneyOK, Modules
      <4>. QED
        BY <1>a, <3>2, <4>1 DEF MoneyInv, AvailableNotNegative
    <3>. QED
      BY <1>2, <2>4, <3>3 DEF PolymarketRelease, ticks
  <2>. QED
    BY <1>9, <2>1, <2>2, <2>3, <2>4 DEF Environment
<1>10. CASE UNCHANGED vars
  BY <1>1, <1>10 DEF vars, ticks
<1>. QED
  BY <1>7, <1>8, <1>9, <1>10 DEF Next

(* The starting balance is not negative and nothing is on order.           *)
LEMMA MoneyInit == Init => MoneyInv
BY MoneyAssumption DEF Init, MoneyInv, AvailableNotNegative,
                       StartingPortfolio, Modules, NoOrder, NewOrder

(* MoneyInv holds throughout, if sales pay.                                *)
THEOREM MoneyInvariant ==
  ASSUME SalesPay
  PROVE  Spec => []MoneyInv
<1>. USE DEF Spec
<1>1. TypeInv /\ MoneyInv /\ [Next]_vars => MoneyInv'
  BY MoneyStep
<1>. QED
  BY TypeInvariant, MoneyInit, <1>1, PTL

(* As long as no sale costs more than it brings in, reserve_funds never    *)
(* lets a module spend what is not there, however the loop, the handlers   *)
(* and the other module interleave and whatever stale balance an order was *)
(* sized on.                                                               *)
THEOREM AvailableStaysNonNegative ==
  ASSUME SalesPay
  PROVE  Spec => []AvailableNotNegative
<1>1. MoneyInv => AvailableNotNegative
  BY DEF MoneyInv
<1>. QED
  BY MoneyInvariant, <1>1, PTL

(* Every step keeps the books balanced, whatever a sale brings in or costs. *)
LEMMA BooksStep == TypeInv /\ BooksBalance /\ [Next]_vars => BooksBalance'
<1>. SUFFICES ASSUME TypeInv, BooksBalance, [Next]_vars PROVE BooksBalance'
  OBVIOUS
<1>. USE DEF TypeInv, TypeOK
<1>0. portfolio \in PortfolioState /\ order.capital \in Int
  BY DEF MoneyOK, TicksOK, Orders
<1>1. ASSUME UNCHANGED money PROVE BooksBalance'
  BY <1>1 DEF BooksBalance, Balanced, Worth, money
<1>2. ASSUME UNCHANGED snapshot, Balanced(portfolio') PROVE BooksBalance'
  BY <1>2 DEF BooksBalance, Balanced, Worth
<1>3. ASSUME NEW x \in Int, NEW m \in Modules, portfolio' = Reserve(portfolio, x, m)
      PROVE  Balanced(portfolio')
  BY <1>0, <1>3, ReserveBalanced DEF BooksBalance
<1>4. ASSUME NEW x \in Int, NEW y \in Int, NEW m \in Modules,
             portfolio' = Release(portfolio, x, y, m)
      PROVE  Balanced(portfolio')
  BY <1>0, <1>4, ReleaseBalanced DEF BooksBalance
<1>5. ASSUME NEW a \in Actors, Reevaluate(a) PROVE BooksBalance'
  BY <1>1, <1>5 DEF Reevaluate, ReadPositions, RemovedDone, Restop, RestopDone, ReevaluateDone
<1>6. ASSUME NEW a \in Actors, ClosePosition(a) PROVE BooksBalance'
  <2>1. CASE ReleaseCapital(a)
    <3>1. PICK proceeds \in Proceeds(a) :
            portfolio' = Release(portfolio, book[row[a]].capital,
                                 proceeds - book[row[a]].capital, "trading")
      BY <2>1 DEF ReleaseCapital
    <3>2. book[row[a]].capital \in Int /\ proceeds \in Int
      BY <2>1, MoneyAssumption DEF ReleaseCapital, RowInHand, TableOK, Row, Proceeds
    <3>3. proceeds - book[row[a]].capital \in Int
      BY <3>2
    <3>. QED
      BY <1>2, <1>4, <2>1, <3>1, <3>2, <3>3 DEF ReleaseCapital, Modules
  <2>2. CASE \/ \E i \in Ids : ExecuteClose(a, i) \/ CloseRejected(a, i)
             \/ DeletePosition(a) \/ RecordClose(a)
    BY <1>1, <2>2 DEF ExecuteClose, CloseRejected, DeletePosition, RecordClose
  <2>. QED
    BY <1>6, <2>1, <2>2 DEF ClosePosition
<1>7. CASE Tick
  <2>1. CASE TickReserve
    BY <1>0, <1>1, <1>2, <1>3, <2>1 DEF TickReserve, Modules, money
  <2>2. CASE TickUndo
    BY <1>0, <1>2, <1>4, <2>2 DEF TickUndo, Modules
  <2>. QED
    BY <1>1, <1>7, <2>1, <2>2
       DEF Tick, TickStart, TickHold, TickSize, TickRisk, TickExecute, TickRecord, TickOpen, TickClose
<1>8. CASE LoopStep
  BY <1>1, <1>5, <1>6, <1>7, <1>8
     DEF LoopStep, LoopSettingsChanged, LoopTimer, CheckStopLosses, StopLossesDone, Actors
<1>9. ASSUME NEW h \in Handlers, HandlerStep(h) PROVE BooksBalance'
  BY <1>1, <1>5, <1>6, <1>9 DEF HandlerStep, UpdateSettings, Actors
<1>10. CASE Environment
  <2>1. ASSUME NEW a \in Actors, DatabaseFails(a) PROVE BooksBalance'
    BY <1>1, <2>1 DEF DatabaseFails
  <2>2. CASE PersistSnapshot \/ Restart
    BY <2>2 DEF PersistSnapshot, Restart, BooksBalance, Balanced, Worth
  <2>3. ASSUME NEW x \in OtherAmounts, PolymarketReserve(x) \/ PolymarketRelease(x)
        PROVE  BooksBalance'
    <3>1. x \in Int /\ -x \in Int /\ 0 \in Int /\ "polymarket" \in Modules
      BY MoneyAssumption DEF Modules
    <3>. QED
      BY <1>2, <1>3, <1>4, <2>3, <3>1 DEF PolymarketReserve, PolymarketRelease
  <2>. QED
    BY <1>10, <2>1, <2>2, <2>3 DEF Environment
<1>11. CASE UNCHANGED vars
  BY <1>1, <1>11 DEF vars
<1>. QED
  BY <1>8, <1>9, <1>10, <1>11 DEF Next

(* The total reported is always what is available plus what is allocated,  *)
(* and has moved from the starting balance by exactly the realised result: *)
(* in the state in memory and in the snapshot a restart loads.             *)
THEOREM BooksAlwaysBalance == Spec => []BooksBalance
<1>1. Init => BooksBalance
  BY MoneyAssumption DEF Init, BooksBalance, Balanced, Worth, StartingPortfolio, Modules
<1>2. TypeInv /\ BooksBalance /\ [Next]_vars => BooksBalance'
  BY BooksStep
<1>. QED
  BY TypeInvariant, <1>1, <1>2, PTL DEF Spec

-----------------------------------------------------------------------------

\* What the ledger's promise depends on: so far the loop is the only one that has
\* closed positions, no statement has failed and nobody has restarted the worker.
Undisturbed == pushes = 0 /\ faults = 0 /\ restarts = 0

\* Statements may have failed, but nobody else has closed anything.
Unpushed == pushes = 0 /\ restarts = 0

\* A worker that is never disturbed.
LoopAlone == (Handlers = {} \/ MaxPushes = 0) /\ MaxFaults = 0 /\ MaxRestarts = 0

\* Orders are buys that are filled in full.
OrdersInFull == Sides \subseteq {"buy"} /\ Fillings \subseteq {"filled"}

\* The handlers, who have nothing to do then.
Quiet == \A h \in Handlers : At(h, "idle", "next")

\* The rows the loop has still to treat are in the table, and the row it is
\* closing is in the table as well and will not be treated again.
RowsInHand ==
    /\ phase[Loop] \in {"removed", "restop", "excess", "stops"} => work[Loop] \subseteq open
    /\ phase[Loop] \in {"removed", "restop"} => kept[Loop] \subseteq open
    /\ phase[Loop] = "removed" => work[Loop] \cap kept[Loop] = {}
    /\ step[Loop] \in {"release", "delete"} =>
          /\ phase[Loop] \in {"removed", "excess", "stops", "tick"}
          /\ row[Loop] \in open
          /\ phase[Loop] # "tick" => row[Loop] \notin work[Loop]
          /\ phase[Loop] = "removed" => row[Loop] \notin kept[Loop]

\* An order is never filled beyond what it reserved.
FilledWithin == Trading({"log", "book"}) => order.fill \in 0 .. order.capital

\* Together: when a position is released it is still held, and only once.
LedgerInv == Quiet /\ open \subseteq 1 .. opened /\ RowsInHand /\ FilledWithin

\* An order that was executed was bought, and filled with what it reserved.
BoughtInFull ==
    /\ order.side # "sell"
    /\ Trading({"log", "book"}) => order.fill = order.capital /\ order.booked

(* Nobody but the loop and the other module takes a step, well or not.     *)
LEMMA UnpushedSteps ==
  ASSUME Unpushed', TypeInv, Quiet, [Next]_vars
  PROVE  \/ LoopStep
         \/ \E x \in OtherAmounts : PolymarketReserve(x) \/ PolymarketRelease(x)
         \/ PersistSnapshot
         \/ DatabaseFails(Loop)
         \/ UNCHANGED vars
<1>1. restarts \in Nat /\ pushes \in Nat
  BY BoundAssumption DEF TypeInv, TypeOK, NotesOK
<1>2. ASSUME NEW h \in Handlers PROVE ~HandlerStep(h) /\ ~DatabaseFails(h)
  <2>1. phase[h] = "idle" /\ step[h] = "next" /\ ~(pushes' = pushes + 1)
    BY <1>1, <1>2 DEF Quiet, At, Unpushed
  <2>2. ~Reevaluate(h)
    BY <2>1 DEF Reevaluate, ReadPositions, RemovedDone, Restop, RestopDone, ReevaluateDone, At
  <2>3. ~ClosePosition(h)
    BY <2>1 DEF ClosePosition, ExecuteClose, CloseRejected, ReleaseCapital, DeletePosition, RecordClose
  <2>4. ~DatabaseFails(h)
    BY <2>1 DEF DatabaseFails, AtDatabase
  <2> QED
    BY <2>1, <2>2, <2>3, <2>4 DEF HandlerStep, UpdateSettings
<1>3. ~Restart
  BY <1>1 DEF Unpushed, Restart
<1> QED
  BY <1>2, <1>3 DEF Next, Environment, Actors

(* When no statement has failed, none has just failed.                     *)
LEMMA AloneSteps ==
  ASSUME Undisturbed', TypeInv, Quiet, [Next]_vars
  PROVE  \/ LoopStep
         \/ \E x \in OtherAmounts : PolymarketReserve(x) \/ PolymarketRelease(x)
         \/ PersistSnapshot
         \/ UNCHANGED vars
<1>1. faults \in Nat
  BY BoundAssumption DEF TypeInv, TypeOK, NotesOK
<1>2. ~DatabaseFails(Loop)
  BY <1>1 DEF Undisturbed, DatabaseFails
<1> QED
  BY <1>2, UnpushedSteps DEF Undisturbed, Unpushed

(* The handlers stay where they are when the loop moves.                   *)
LEMMA QuietStep ==
  ASSUME Unpushed', TypeInv, Quiet, [Next]_vars
  PROVE  Quiet'
<1> USE DEF TypeInv, TypeOK, ActorsOK, Quiet, At
<1>0. \A h \in Handlers : h # Loop /\ h \in Actors /\ Loop \in Actors
  BY ActorAssumption DEF Actors
<1>1. ASSUME NEW ph, NEW st, GoTo(Loop, ph, st) PROVE Quiet'
  BY <1>0, <1>1 DEF GoTo
<1>2. ASSUME UNCHANGED place PROVE Quiet'
  BY <1>2 DEF place
<1>3. CASE Tick
  BY <1>1, <1>2, <1>3
     DEF Tick, TickStart, TickHold, TickSize, TickRisk, TickReserve, TickExecute, TickUndo,
         TickRecord, TickOpen, TickClose, NextTicker
<1>4. CASE Reevaluate(Loop)
  BY <1>1, <1>2, <1>4
     DEF Reevaluate, ReadPositions, RemovedDone, Restop, RestopDone, ReevaluateDone, Return, place
<1>5. CASE ClosePosition(Loop)
  BY <1>1, <1>2, <1>5
     DEF ClosePosition, ExecuteClose, CloseRejected, ReleaseCapital, DeletePosition, RecordClose,
         NextTicker
<1>6. CASE LoopStep
  BY <1>1, <1>3, <1>4, <1>5, <1>6
     DEF LoopStep, LoopSettingsChanged, LoopTimer, CheckStopLosses, StopLossesDone, Return
<1>7. ASSUME NEW x \in OtherAmounts, PolymarketReserve(x) \/ PolymarketRelease(x) PROVE Quiet'
  BY <1>2, <1>7 DEF PolymarketReserve, PolymarketRelease
<1>8. CASE PersistSnapshot
  BY <1>2, <1>8 DEF PersistSnapshot
<1>9. CASE DatabaseFails(Loop)
  BY <1>1, <1>9 DEF DatabaseFails, NextTicker, Return
<1> QED
  BY <1>2, <1>6, <1>7, <1>8, <1>9, UnpushedSteps DEF vars, place

(* The order under way is a buy for what it has reserved.                  *)
LEMMA BoughtStep ==
  ASSUME Undisturbed', OrdersInFull, TypeInv, LedgerInv, BoughtInFull, [Next]_vars
  PROVE  BoughtInFull'
<1> USE DEF TypeInv, TypeOK, ActorsOK, TicksOK, LedgerInv, BoughtInFull, Trading
<1>0. Loop \in Actors
  BY DEF Actors
<1>1. ASSUME order' = NoOrder, step'[Loop] = "next" PROVE BoughtInFull'
  BY <1>1 DEF NoOrder, NewOrder
<1>2. ASSUME UNCHANGED order, Trading({"log", "book"})' => Trading({"log", "book"})
      PROVE  BoughtInFull'
  BY <1>2
<1>3. ASSUME NextTicker PROVE BoughtInFull'
  BY <1>0, <1>1, <1>3 DEF NextTicker, GoTo
<1>4. CASE Tick
  <2>1. ASSUME NEW p \in Pairs, TickStart(p) PROVE BoughtInFull'
    BY <1>0, <2>1 DEF TickStart, GoTo, At, NewOrder, place
  <2>2. CASE TickSize
    <3>1. PICK side \in Sides : order' = [order EXCEPT !.side = side,
                                            !.capital = PositionCap(portfolio.available)]
      BY <2>2 DEF TickSize
    <3>2. order'.side = "buy"
      BY <3>1 DEF OrdersInFull, Orders
    <3> QED
      BY <1>0, <2>2, <3>2 DEF TickSize, GoTo
  <2>3. CASE TickExecute
    <3>1. CASE \E filling \in Fillings :
                  order' = [order EXCEPT !.fill = FillOf(filling, order.capital),
                                         !.booked = filling # "unfilled"]
      <4>1. order' = [order EXCEPT !.fill = order.capital, !.booked = TRUE]
        BY <3>1 DEF OrdersInFull, FillOf
      <4> QED
        BY <4>1 DEF Orders
    <3>2. CASE UNCHANGED order /\ GoTo(Loop, "tick", "undo")
      BY <1>0, <1>2, <3>2 DEF GoTo
    <3> QED
      BY <2>3, <3>1, <3>2 DEF TickExecute
  <2>4. CASE TickHold \/ TickRisk \/ TickReserve \/ TickUndo
    BY <1>0, <1>2, <1>3, <2>4 DEF TickHold, TickRisk, TickReserve, TickUndo, GoTo
  <2>5. CASE TickRecord \/ TickOpen \/ TickClose
    BY <1>0, <1>2, <1>3, <2>5 DEF TickRecord, TickOpen, TickClose, GoTo, At
  <2> QED
    BY <1>4, <2>1, <2>2, <2>3, <2>4, <2>5 DEF Tick
<1>5. CASE Reevaluate(Loop)
  BY <1>0, <1>2, <1>5
     DEF Reevaluate, ReadPositions, RemovedDone, Restop, RestopDone, ReevaluateDone, Return, GoTo,
         ticks, place
<1>6. CASE ClosePosition(Loop)
  BY <1>0, <1>2, <1>3, <1>6
     DEF ClosePosition, ExecuteClose, CloseRejected, ReleaseCapital, DeletePosition, RecordClose,
         GoTo, ticks, place
<1>7. CASE LoopStep
  BY <1>0, <1>2, <1>4, <1>5, <1>6, <1>7
     DEF LoopStep, LoopSettingsChanged, LoopTimer, CheckStopLosses, StopLossesDone, Return, GoTo, ticks
<1>8. ASSUME NEW x \in OtherAmounts, PolymarketReserve(x) \/ PolymarketRelease(x)
      PROVE  BoughtInFull'
  BY <1>2, <1>8 DEF PolymarketReserve, PolymarketRelease, ticks, place
<1>9. CASE PersistSnapshot
  BY <1>2, <1>9 DEF PersistSnapshot, ticks, place
<1> QED
  BY <1>2, <1>7, <1>8, <1>9, AloneSteps DEF vars, ticks, place

(* Whatever the market does with an order, it fills no more than it asked. *)
LEMMA FilledStep ==
  ASSUME Unpushed', TypeInv, MoneyInv, LedgerInv, [Next]_vars
  PROVE  FilledWithin'
<1> USE DEF TypeInv, TypeOK, ActorsOK, TicksOK, LedgerInv, FilledWithin, Trading
<1>0. Loop \in Actors
  BY DEF Actors
<1>1. ASSUME order' = NoOrder PROVE FilledWithin'
  BY <1>1 DEF NoOrder, NewOrder
<1>2. ASSUME UNCHANGED order, Trading({"log", "book"})' => Trading({"log", "book"})
      PROVE  FilledWithin'
  BY <1>2
<1>3. ASSUME NextTicker PROVE FilledWithin'
  BY <1>1, <1>3 DEF NextTicker
<1>4. CASE Tick
  <2>1. ASSUME NEW p \in Pairs, TickStart(p) PROVE FilledWithin'
    BY <1>0, <2>1 DEF TickStart, GoTo, At, NewOrder, place
  <2>2. CASE TickExecute
    <3>1. CASE \E filling \in Fillings :
                  order' = [order EXCEPT !.fill = FillOf(filling, order.capital),
                                         !.booked = filling # "unfilled"]
      <4>1. PICK filling \in Fillings :
              order' = [order EXCEPT !.fill = FillOf(filling, order.capital),
                                     !.booked = filling # "unfilled"]
        BY <3>1
      <4>2. order.capital \in Nat
        BY DEF Orders, MoneyInv
      <4>3. FillOf(filling, order.capital) \in 0 .. order.capital
        BY <4>2, ChoiceAssumption DEF FillOf
      <4> QED
        BY <4>1, <4>3 DEF Orders
    <3>2. CASE UNCHANGED order /\ GoTo(Loop, "tick", "undo")
      BY <1>0, <1>2, <3>2 DEF GoTo
    <3> QED
      BY <2>2, <3>1, <3>2 DEF TickExecute
  <2>3. CASE TickHold \/ TickSize \/ TickRisk \/ TickReserve \/ TickUndo
    BY <1>0, <1>2, <1>3, <2>3 DEF TickHold, TickSize, TickRisk, TickReserve, TickUndo, GoTo
  <2>4. CASE TickRecord \/ TickOpen \/ TickClose
    BY <1>0, <1>2, <1>3, <2>4 DEF TickRecord, TickOpen, TickClose, GoTo, At
  <2> QED
    BY <1>4, <2>1, <2>2, <2>3, <2>4 DEF Tick
<1>5. CASE Reevaluate(Loop)
  BY <1>0, <1>2, <1>5
     DEF Reevaluate, ReadPositions, RemovedDone, Restop, RestopDone, ReevaluateDone, Return, GoTo,
         ticks, place
<1>6. CASE ClosePosition(Loop)
  BY <1>0, <1>2, <1>3, <1>6
     DEF ClosePosition, ExecuteClose, CloseRejected, ReleaseCapital, DeletePosition, RecordClose,
         GoTo, ticks, place
<1>7. CASE LoopStep
  BY <1>0, <1>2, <1>4, <1>5, <1>6, <1>7
     DEF LoopStep, LoopSettingsChanged, LoopTimer, CheckStopLosses, StopLossesDone, Return, GoTo, ticks
<1>8. ASSUME NEW x \in OtherAmounts, PolymarketReserve(x) \/ PolymarketRelease(x)
      PROVE  FilledWithin'
  BY <1>2, <1>8 DEF PolymarketReserve, PolymarketRelease, ticks, place
<1>9. CASE PersistSnapshot
  BY <1>2, <1>9 DEF PersistSnapshot, ticks, place
<1>10. CASE DatabaseFails(Loop)
  BY <1>0, <1>2, <1>3, <1>10 DEF DatabaseFails, Return, GoTo
<1> QED
  BY <1>2, <1>7, <1>8, <1>9, <1>10, UnpushedSteps DEF vars, ticks, place

(* What the loop has in hand stays in the table until it deletes it.       *)
LEMMA RowsStep ==
  ASSUME Unpushed', TypeInv, LedgerInv, [Next]_vars
  PROVE  RowsInHand' /\ (open \subseteq 1 .. opened)'
<1> USE DEF TypeInv, TypeOK, ActorsOK, TableOK, LedgerInv, RowsInHand
<1>0. Loop \in Actors
  BY DEF Actors
<1> DEFINE Goal == RowsInHand' /\ (open \subseteq 1 .. opened)'
<1>1. ASSUME UNCHANGED <<open, opened, place, hands>> PROVE Goal
  BY <1>1 DEF place, hands
<1>2. ASSUME open' \subseteq 1 .. opened', phase'[Loop] \in {"idle", "read", "tick"},
             step'[Loop] \notin {"release", "delete"}
      PROVE  Goal
  BY <1>2
<1>3. CASE Tick
  <2>1. CASE TickOpen
    <3>1. opened' = opened + 1 /\ opened \in Nat /\ open' = open \cup {opened'}
      BY <2>1, BoundAssumption DEF TickOpen
    <3>2. open' \subseteq 1 .. opened'
      <4>1. 1 .. opened \subseteq 1 .. opened + 1 /\ opened + 1 \in 1 .. opened + 1
        BY <3>1
      <4> QED
        BY <3>1, <4>1
    <3> QED
      BY <1>0, <1>2, <2>1, <3>2 DEF TickOpen, NextTicker, GoTo
  <2>2. CASE TickClose
    BY <1>0, <1>2, <2>2 DEF TickClose, NextTicker, GoTo, At, table
  <2>3. ASSUME NEW p \in Pairs, TickStart(p) PROVE Goal
    BY <1>0, <1>2, <2>3 DEF TickStart, GoTo, At, table, place
  <2>4. CASE TickHold \/ TickSize \/ TickRisk \/ TickReserve
    BY <1>0, <1>2, <2>4 DEF TickHold, TickSize, TickRisk, TickReserve, NextTicker, GoTo, table
  <2>5. CASE TickExecute \/ TickUndo \/ TickRecord
    BY <1>0, <1>2, <2>5 DEF TickExecute, TickUndo, TickRecord, NextTicker, GoTo, table
  <2> QED
    BY <1>3, <2>1, <2>2, <2>3, <2>4, <2>5 DEF Tick
<1>4. CASE Reevaluate(Loop)
  <2>1. CASE ReadPositions(Loop)
    BY <1>0, <2>1 DEF ReadPositions, GoTo, At, table
  <2>2. CASE RemovedDone(Loop)
    BY <1>0, <2>2 DEF RemovedDone, GoTo, At, table
  <2>3. ASSUME NEW i \in Ids, Restop(Loop, i) PROVE Goal
    BY <1>0, <2>3 DEF Restop, Return, GoTo, At, place
  <2>4. CASE RestopDone(Loop)
    BY <1>0, <2>4 DEF RestopDone, Excess, GoTo, At, table
  <2>5. CASE ReevaluateDone(Loop)
    BY <1>0, <1>2, <2>5 DEF ReevaluateDone, Return, GoTo, table
  <2> QED
    BY <1>4, <2>1, <2>2, <2>3, <2>4, <2>5 DEF Reevaluate
<1>5. CASE ClosePosition(Loop)
  <2>1. ASSUME NEW i \in Ids, ExecuteClose(Loop, i) PROVE Goal
    BY <1>0, <2>1 DEF ExecuteClose, InTurn, GoTo, table
  <2>2. ASSUME NEW i \in Ids, CloseRejected(Loop, i) PROVE Goal
    BY <1>0, <2>2 DEF CloseRejected, GoTo, place, table
  <2>3. CASE ReleaseCapital(Loop)
    BY <1>0, <2>3 DEF ReleaseCapital, GoTo, table, hands
  <2>4. CASE DeletePosition(Loop)
    BY <1>0, <1>2, <2>4 DEF DeletePosition, NextTicker, GoTo, hands
  <2>5. CASE RecordClose(Loop)
    BY <1>0, <2>5 DEF RecordClose, GoTo, table
  <2> QED
    BY <1>5, <2>1, <2>2, <2>3, <2>4, <2>5 DEF ClosePosition
<1>6. CASE LoopStep
  <2>1. CASE LoopSettingsChanged \/ LoopTimer \/ StopLossesDone
    BY <1>0, <1>2, <2>1 DEF LoopSettingsChanged, LoopTimer, StopLossesDone, Return, GoTo, table
  <2>2. CASE CheckStopLosses
    BY <1>0, <2>2 DEF CheckStopLosses, GoTo, At, table
  <2> QED
    BY <1>3, <1>4, <1>5, <1>6, <2>1, <2>2 DEF LoopStep
<1>7. ASSUME NEW x \in OtherAmounts, PolymarketReserve(x) \/ PolymarketRelease(x) PROVE Goal
  BY <1>1, <1>7 DEF PolymarketReserve, PolymarketRelease, table
<1>8. CASE PersistSnapshot
  BY <1>1, <1>8 DEF PersistSnapshot, table
<1>9. CASE DatabaseFails(Loop)
  BY <1>0, <1>2, <1>9 DEF DatabaseFails, NextTicker, Return, GoTo, table
<1> QED
  BY <1>1, <1>6, <1>7, <1>8, <1>9, UnpushedSteps DEF vars, table

\* A step of the worker seen as one of the ledger.
LedgerVars == <<portfolio.available, portfolio.allocated["trading"], Holding>>

Promise == [Ledger!Next]_LedgerVars

\* A step that is none of the ledger's: the order under way gives up what it holds,
\* the new position x, if there is one, takes over part of it, and the portfolio
\* is not told.
Leak ==
    /\ UNCHANGED portfolio
    /\ \/ /\ Holding' = [Holding EXCEPT ![0] = 0]
          /\ leftOver' = leftOver + Holding[0]
       \/ \E x \in Ids, fill \in 0 .. Holding[0] :
             /\ Holding[x] = 0
             /\ Holding' = [Holding EXCEPT ![0] = 0, ![x] = fill]
             /\ leftOver' = leftOver + Holding[0] - fill

(* Only the loop closes positions, so only its row can be half closed.     *)
LEMMA HoldingOf ==
  ASSUME Quiet, NEW i \in Ids
  PROVE  Holding[i] = IF i \in open /\ ~(step[Loop] = "delete" /\ row[Loop] = i)
                      THEN book[i].capital ELSE 0
<1>1. BeingDeleted = IF step[Loop] = "delete" THEN {row[Loop]} ELSE {}
  BY DEF BeingDeleted, Actors, Quiet, At
<1>2. i # 0
  BY DEF Ids
<1> QED
  BY <1>1, <1>2 DEF Holding

(* Holder 0 is the order under way.                                        *)
LEMMA OrderHolding == Holding[0] = OrderHolds
BY DEF Holding

(* A step that leaves the portfolio, the order and the rows as they are    *)
(* changes nobody's holding.                                               *)
LEMMA SameHolding ==
  ASSUME Quiet, Quiet',
         OrderHolds' = OrderHolds,
         \A i \in Ids : book'[i].capital = book[i].capital,
         open' = open,
         step[Loop] = "delete" <=> step'[Loop] = "delete",
         step[Loop] = "delete" => row'[Loop] = row[Loop]
  PROVE  Holding' = Holding
<1>1. BeingDeleted = IF step[Loop] = "delete" THEN {row[Loop]} ELSE {}
  BY DEF BeingDeleted, Actors, Quiet, At
<1>2. BeingDeleted' = IF step'[Loop] = "delete" THEN {row'[Loop]} ELSE {}
  BY DEF BeingDeleted, Actors, Quiet, At
<1>3. BeingDeleted' = BeingDeleted
  BY <1>1, <1>2
<1> QED
  BY <1>3 DEF Holding

(* Then the ledger stutters, if the portfolio is left alone as well.       *)
LEMMA PortfolioKept ==
  ASSUME UNCHANGED portfolio, Holding' = Holding PROVE Promise
BY DEF Promise, LedgerVars

(* Re-evaluating, waiting and going from pair to pair touch no capital.    *)
LEMMA QuietPromise ==
  ASSUME TypeInv, Quiet, Quiet', LedgerInv,
         \/ LoopSettingsChanged \/ LoopTimer \/ CheckStopLosses \/ StopLossesDone
         \/ Reevaluate(Loop)
         \/ \E p \in Pairs : TickStart(p)
         \/ TickHold \/ TickSize \/ TickRisk
  PROVE  Promise
<1> USE DEF TypeInv, TypeOK, ActorsOK
<1>0. Loop \in Actors
  BY DEF Actors
<1>2. ASSUME UNCHANGED portfolio, open' = open, \A i \in Ids : book'[i].capital = book[i].capital,
             step[Loop] # "delete", step'[Loop] # "delete",
             OrderHolds = 0, OrderHolds' = 0
      PROVE  Promise
  BY <1>2, SameHolding, PortfolioKept
<1>3. CASE LoopSettingsChanged \/ LoopTimer \/ CheckStopLosses \/ StopLossesDone
  BY <1>0, <1>2, <1>3
     DEF LoopSettingsChanged, LoopTimer, CheckStopLosses, StopLossesDone, Return, GoTo, At,
         OrderHolds, money, table
<1>4. CASE \E p \in Pairs : TickStart(p)
  BY <1>0, <1>2, <1>4 DEF TickStart, GoTo, At, OrderHolds, money, table, place
<1>5. CASE TickHold \/ TickSize \/ TickRisk
  BY <1>0, <1>2, <1>5 DEF TickHold, TickSize, TickRisk, NextTicker, GoTo, At, OrderHolds, money, table
<1>6. CASE Reevaluate(Loop)
  <2>1. ASSUME NEW i \in Ids, Restop(Loop, i) PROVE Promise
    <3>1. \A j \in Ids : book'[j].capital = book[j].capital
      BY <2>1 DEF Restop, TableOK, Row
    <3> QED
      BY <1>0, <1>2, <2>1, <3>1 DEF Restop, Return, GoTo, At, OrderHolds, money, place
  <2>2. CASE ReadPositions(Loop) \/ RemovedDone(Loop) \/ RestopDone(Loop) \/ ReevaluateDone(Loop)
    BY <1>0, <1>2, <2>2
       DEF ReadPositions, RemovedDone, RestopDone, ReevaluateDone, Return, GoTo, At, OrderHolds,
           money, table
  <2> QED
    BY <1>6, <2>1, <2>2 DEF Reevaluate
<1> QED
  BY <1>3, <1>4, <1>5, <1>6

(* An order commits capital that is there, or none; when it fails it gives *)
(* all of it back.                                                         *)
LEMMA OrderPromise ==
  ASSUME TypeInv, MoneyInv, LedgerInv, LedgerInv', TickReserve \/ TickExecute \/ TickUndo
  PROVE  Promise
<1> USE DEF TypeInv, TypeOK, ActorsOK, LedgerInv
<1>0. /\ Loop \in Actors /\ portfolio \in PortfolioState /\ order \in Orders
      /\ order.capital \in Int /\ portfolio.available \in Int
      /\ portfolio.allocated["trading"] \in Int /\ order.capital >= 0
  BY DEF Actors, MoneyOK, TicksOK, Orders, PortfolioState, Modules, MoneyInv
<1>1. ASSUME open' = open, book' = book, step[Loop] # "delete", step'[Loop] # "delete"
      PROVE  Holding' = [Holding EXCEPT ![0] = OrderHolds']
  <2>1. BeingDeleted = {} /\ BeingDeleted' = {}
    BY <1>1 DEF BeingDeleted, Actors, Quiet, At
  <2> QED
    BY <1>1, <2>1 DEF Holding
<1>2. CASE TickExecute
  <2>1. OrderHolds' = OrderHolds
    BY <1>0, <1>2 DEF TickExecute, GoTo, At, OrderHolds, Orders
  <2> QED
    BY <1>0, <1>2, <2>1, SameHolding, PortfolioKept DEF TickExecute, GoTo, At, money, table
<1>3. CASE TickReserve /\ NextTicker /\ UNCHANGED portfolio
  BY <1>0, <1>3, SameHolding, PortfolioKept DEF TickReserve, NextTicker, GoTo, At, OrderHolds, table
<1>4. CASE TickReserve /\ ~(NextTicker /\ UNCHANGED portfolio)
  <2>1. /\ portfolio.available >= order.capital
        /\ portfolio' = Reserve(portfolio, order.capital, "trading")
        /\ GoTo(Loop, "tick", "order") /\ At(Loop, "tick", "reserve")
        /\ order' = order /\ open' = open /\ book' = book
    BY <1>4 DEF TickReserve, CanReserve, table
  <2>2. /\ portfolio'.available = portfolio.available - order.capital
        /\ portfolio'.allocated["trading"] = portfolio.allocated["trading"] + order.capital
    BY <1>0, <2>1 DEF Reserve, PortfolioState, Modules
  <2>3. OrderHolds = 0 /\ OrderHolds' = order.capital
    BY <1>0, <2>1 DEF OrderHolds, GoTo, At
  <2>4. Holding' = [Holding EXCEPT ![0] = order.capital]
    BY <1>0, <1>1, <2>1, <2>3 DEF GoTo, At
  <2>5. order.capital \in 0 .. portfolio.available
    BY <1>0, <2>1
  <2>6. Ledger!Commit(0, order.capital)
    BY <2>2, <2>3, <2>4, <2>5, OrderHolding DEF Ledger!Commit
  <2> QED
    BY <2>5, <2>6 DEF Promise, Ledger!Next
<1>5. CASE TickUndo
  <2>1. /\ portfolio' = Release(portfolio, order.capital, 0, "trading")
        /\ NextTicker /\ At(Loop, "tick", "undo")
        /\ open' = open /\ book' = book
    BY <1>5 DEF TickUndo, table
  <2>2. /\ portfolio'.available = portfolio.available + order.capital
        /\ portfolio'.allocated["trading"] = portfolio.allocated["trading"] - order.capital
    BY <1>0, <2>1 DEF Release, PortfolioState, Modules
  <2>3. OrderHolds = order.capital /\ OrderHolds' = 0
    BY <1>0, <2>1 DEF OrderHolds, NextTicker, GoTo, At
  <2>4. Holding' = [Holding EXCEPT ![0] = 0]
    BY <1>0, <1>1, <2>1, <2>3 DEF NextTicker, GoTo, At
  <2>5. portfolio'.available - portfolio.available = order.capital
    BY <1>0, <2>2
  <2>6. Ledger!Settle(0, portfolio'.available - portfolio.available)
    BY <1>0, <2>2, <2>3, <2>4, <2>5, OrderHolding DEF Ledger!Settle
  <2> QED
    BY <2>6 DEF Promise, Ledger!Next
<1> QED
  BY <1>2, <1>3, <1>4, <1>5

(* The order gives up its holding when its tick is over.                   *)
LEMMA OrderGone ==
  ASSUME Quiet, Quiet', Loop \in Actors, UNCHANGED <<portfolio, open, book>>,
         step[Loop] # "delete", step'[Loop] # "delete", OrderHolds' = 0,
         leftOver' = leftOver + OrderHolds
  PROVE  Leak
<1>1. BeingDeleted = {} /\ BeingDeleted' = {}
  BY DEF BeingDeleted, Actors, Quiet, At
<1>2. Holding' = [Holding EXCEPT ![0] = OrderHolds']
  BY <1>1 DEF Holding
<1> QED
  BY <1>2, OrderHolding DEF Leak

(* An order that was filled hands its capital over to its position, all of *)
(* it if it was filled in full.  An order that was not filled, and one to  *)
(* sell, keep theirs from everyone.                                        *)
LEMMA OpenPromise ==
  ASSUME TypeInv, LedgerInv, LedgerInv', TickRecord \/ TickOpen \/ TickClose
  PROVE  (Promise /\ UNCHANGED leftOver) \/ (Leak /\ ~BoughtInFull)
<1> USE DEF TypeInv, TypeOK, ActorsOK, LedgerInv
<1>0. Loop \in Actors
  BY DEF Actors
<1>1. CASE TickRecord
  <2>1. CASE order.booked /\ UNCHANGED <<order, leftOver>>
    BY <1>0, <1>1, <2>1, SameHolding, PortfolioKept
       DEF TickRecord, NextTicker, GoTo, At, OrderHolds, money, table, hands, NoOrder, NewOrder
  <2>2. CASE ~order.booked
    <3>1. leftOver' = leftOver + OrderHolds
      BY <1>1, <2>2 DEF TickRecord, OrderHolds, At
    <3>2. Leak
      BY <1>0, <1>1, <2>2, <3>1, OrderGone DEF TickRecord, NextTicker, GoTo, At, OrderHolds, money, table
    <3> QED
      BY <1>1, <2>2, <3>2 DEF TickRecord, BoughtInFull, Trading, At
  <2> QED
    BY <1>1, <2>1, <2>2 DEF TickRecord
<1>2. CASE TickOpen
  <2>1. /\ At(Loop, "tick", "book") /\ order.side = "buy" /\ NextTicker
        /\ order.fill \in 0 .. order.capital
        /\ opened' = opened + 1 /\ open' = open \cup {opened'}
        /\ UNCHANGED portfolio
        /\ leftOver' = leftOver + order.capital - order.fill
    BY <1>2 DEF TickOpen, FilledWithin, Trading, At, money
  <2>2. opened' \in Ids /\ opened' \notin open /\ opened' # 0 /\ open \subseteq Ids
    BY <2>1, BoundAssumption DEF TableOK, RoomToOpen, Trading, Sized, At, Ids
  <2>3. /\ book'[opened'].capital = order.fill
        /\ \A i \in open : book'[i].capital = book[i].capital
    BY <1>2, <2>1, <2>2 DEF TickOpen, TableOK
  <2>4. OrderHolds = order.capital /\ OrderHolds' = 0
    BY <1>0, <2>1 DEF OrderHolds, NextTicker, GoTo, At
  <2>5. BeingDeleted = {} /\ BeingDeleted' = {}
    BY <1>0, <2>1 DEF BeingDeleted, Actors, Quiet, NextTicker, GoTo, At
  <2>6. Holding[opened'] = 0 /\ Holding[0] = order.capital
    BY <2>2, <2>4 DEF Holding
  <2>7. Holding' = [Holding EXCEPT ![0] = 0, ![opened'] = order.fill]
    BY <2>1, <2>2, <2>3, <2>4, <2>5 DEF Holding
  <2>8. CASE order.fill = order.capital
    <3>1. Holding' = [Holding EXCEPT ![0] = 0, ![opened'] = Holding[0]]
      BY <2>6, <2>7, <2>8
    <3>2. Ledger!HandOver(0, opened')
      BY <2>1, <2>6, <3>1 DEF Ledger!HandOver
    <3>3. leftOver' = leftOver
      BY <2>1, <2>8 DEF NotesOK, TicksOK, Orders
    <3> QED
      BY <2>2, <3>2, <3>3 DEF Promise, Ledger!Next
  <2>9. CASE order.fill # order.capital
    <3>1. Leak
      BY <2>1, <2>2, <2>6, <2>7 DEF Leak
    <3> QED
      BY <2>1, <2>9, <3>1 DEF BoughtInFull, Trading, At
  <2> QED
    BY <2>8, <2>9
<1>3. CASE TickClose
  <2>1. order.side = "sell"
    BY <1>3 DEF TickClose
  <2>2. leftOver' = leftOver + OrderHolds
    BY <1>3 DEF TickClose, OrderHolds, At
  <2>3. Leak
    BY <1>0, <1>3, <2>2, OrderGone DEF TickClose, NextTicker, GoTo, At, OrderHolds, money, table
  <2> QED
    BY <2>1, <2>3 DEF BoughtInFull
<1> QED
  BY <1>1, <1>2, <1>3

(* Closing a position settles its holding, once, with what the sale gave.  *)
LEMMA ClosePromise ==
  ASSUME SalesPay, TypeInv, LedgerInv, LedgerInv', ClosePosition(Loop)
  PROVE  Promise
<1> USE DEF TypeInv, TypeOK, ActorsOK, LedgerInv
<1>0. /\ Loop \in Actors /\ portfolio \in PortfolioState
      /\ portfolio.available \in Int /\ portfolio.allocated["trading"] \in Int
  BY DEF Actors, MoneyOK, PortfolioState, Modules
<1>1. CASE \E i \in Ids : ExecuteClose(Loop, i) \/ CloseRejected(Loop, i)
  BY <1>0, <1>1, SameHolding, PortfolioKept
     DEF ExecuteClose, CloseRejected, GoTo, OrderHolds, money, table, ticks, place
<1>2. CASE RecordClose(Loop)
  BY <1>0, <1>2, SameHolding, PortfolioKept
     DEF RecordClose, GoTo, OrderHolds, money, table, ticks
<1>3. CASE ReleaseCapital(Loop)
  <2> DEFINE i == row[Loop]
             capital == book[i].capital
  <2>1. i \in Ids /\ i \in open /\ capital \in Int /\ i # 0
    BY <1>0, <1>3 DEF ReleaseCapital, RowInHand, RowsInHand, TableOK, Row, Ids
  <2>2. PICK proceeds \in Proceeds(Loop) :
          portfolio' = Release(portfolio, capital, proceeds - capital, "trading")
    BY <1>3 DEF ReleaseCapital
  <2>3. proceeds \in Nat
    BY DEF SalesPay, Proceeds
  <2>4. /\ portfolio'.available = portfolio.available + capital + (proceeds - capital)
        /\ portfolio'.allocated["trading"] = portfolio.allocated["trading"] - capital
    BY <1>0, <2>2 DEF Release, PortfolioState, Modules
  <2>5. /\ portfolio'.available = portfolio.available + proceeds
        /\ portfolio'.available - portfolio.available = proceeds
    BY <1>0, <2>1, <2>3, <2>4
  <2>6. /\ BeingDeleted = {} /\ BeingDeleted' = {i}
        /\ open' = open /\ book' = book
    BY <1>0, <1>3 DEF ReleaseCapital, BeingDeleted, Actors, Quiet, GoTo, At, hands, table
  <2>7. OrderHolds' = OrderHolds
    BY <1>0, <1>3 DEF ReleaseCapital, OrderHolds, GoTo, ticks
  <2>8. Holding[i] = capital
    BY <2>1, <2>6 DEF Holding
  <2>9. Holding' = [Holding EXCEPT ![i] = 0]
    BY <2>1, <2>6, <2>7 DEF Holding
  <2>10. Ledger!Settle(i, portfolio'.available - portfolio.available)
    BY <2>3, <2>4, <2>5, <2>8, <2>9 DEF Ledger!Settle
  <2> QED
    BY <2>1, <2>10 DEF Promise, Ledger!Next
<1>4. CASE DeletePosition(Loop)
  <2>1. /\ step[Loop] = "delete" /\ step'[Loop] \in {"record", "next"}
        /\ open' = open \ {row[Loop]} /\ book' = book
        /\ UNCHANGED portfolio
    BY <1>0, <1>4 DEF DeletePosition, NextTicker, GoTo, money
  <2>2. BeingDeleted = {row[Loop]} /\ BeingDeleted' = {}
    BY <2>1 DEF BeingDeleted, Actors, Quiet, At
  <2>3. Holding' = Holding
    BY <2>1, <2>2 DEF Holding, OrderHolds
  <2> QED
    BY <2>1, <2>3, PortfolioKept
<1> QED
  BY <1>1, <1>2, <1>3, <1>4 DEF ClosePosition

(* What the Polymarket module reserves and releases is capital that the    *)
(* trading module does not hold.                                           *)
LEMMA OtherPromise ==
  ASSUME TypeInv, TypeInv', MoneyInv', LedgerInv, LedgerInv',
         NEW x \in OtherAmounts, PolymarketReserve(x) \/ PolymarketRelease(x)
  PROVE  Promise
<1> USE DEF TypeInv, TypeOK, LedgerInv
<1>1. Holding' = Holding
  BY SameHolding DEF PolymarketReserve, PolymarketRelease, table, place, hands, ticks, OrderHolds
<1>2. portfolio'.allocated["trading"] = portfolio.allocated["trading"]
  BY DEF PolymarketReserve, PolymarketRelease, Reserve, Release, MoneyOK, PortfolioState, Modules
<1>3. portfolio'.available \in Nat
  BY DEF MoneyInv, AvailableNotNegative, MoneyOK, PortfolioState
<1> QED
  BY <1>1, <1>2, <1>3 DEF Promise, Ledger!Next, Ledger!OtherModule

(* The worker starts with nothing held.                                    *)
LEMMA LedgerInit == Init => LedgerInv /\ Ledger!Init
<1> SUFFICES ASSUME Init PROVE LedgerInv /\ Ledger!Init
  OBVIOUS
<1>1. LedgerInv
  BY DEF Init, LedgerInv, Quiet, At, Actors, RowsInHand, FilledWithin, Trading
<1>2. Holding = [h \in Ids \cup {0} |-> 0]
  BY DEF Init, Holding, OrderHolds, Actors
<1> QED
  BY <1>1, <1>2, MoneyAssumption DEF Init, Ledger!Init, StartingPortfolio, Modules

(* What orders leave over is noted when their ticks end, and nowhere else. *)
LEMMA OthersLeaveNothing ==
  ASSUME \/ LoopStep /\ ~TickRecord /\ ~TickOpen /\ ~TickClose
         \/ \E x \in OtherAmounts : PolymarketReserve(x) \/ PolymarketRelease(x)
         \/ PersistSnapshot
         \/ UNCHANGED vars
  PROVE  UNCHANGED spilt
<1>1. CASE Reevaluate(Loop)
  BY <1>1 DEF Reevaluate, ReadPositions, RemovedDone, Restop, RestopDone, ReevaluateDone, notes, spilt
<1>2. CASE ClosePosition(Loop)
  BY <1>2 DEF ClosePosition, ExecuteClose, CloseRejected, ReleaseCapital, DeletePosition, RecordClose,
     notes, spilt
<1>3. CASE Tick /\ ~TickRecord /\ ~TickOpen /\ ~TickClose
  BY <1>3 DEF Tick, TickStart, TickHold, TickSize, TickRisk, TickReserve, TickExecute, TickUndo,
     notes, spilt
<1> QED
  BY <1>1, <1>2, <1>3 DEF LoopStep, LoopSettingsChanged, LoopTimer, CheckStopLosses, StopLossesDone,
     PolymarketReserve, PolymarketRelease, PersistSnapshot, vars, notes, spilt

(* Unless a statement fails, every step of the worker is one of the ledger *)
(* or loses sight of capital that an order has not used.                   *)
LEMMA StepPromise ==
  ASSUME SalesPay, Unpushed', ~DatabaseFails(Loop), [Next]_vars,
         TypeInv, TypeInv', MoneyInv, MoneyInv', LedgerInv, LedgerInv'
  PROVE  /\ (Promise /\ UNCHANGED leftOver) \/ (Leak /\ ~BoughtInFull)
         /\ UNCHANGED atFault
<1>1. CASE TickRecord \/ TickOpen \/ TickClose
  BY <1>1, OpenPromise DEF TickRecord, TickOpen, TickClose
<1>2. CASE LoopStep /\ ~TickRecord /\ ~TickOpen /\ ~TickClose
  <2>1. Promise
    BY <1>2, QuietPromise, OrderPromise, ClosePromise DEF LoopStep, Tick, LedgerInv
  <2> QED
    BY <1>2, <2>1, OthersLeaveNothing DEF spilt
<1>3. CASE \E x \in OtherAmounts : PolymarketReserve(x) \/ PolymarketRelease(x)
  BY <1>3, OtherPromise, OthersLeaveNothing DEF spilt
<1>4. CASE PersistSnapshot \/ UNCHANGED vars
  <2>1. Promise
    BY <1>4, SameHolding, PortfolioKept
       DEF PersistSnapshot, vars, money, table, place, hands, ticks, OrderHolds, LedgerInv
  <2> QED
    BY <1>4, <2>1, OthersLeaveNothing DEF spilt
<1> QED
  BY <1>1, <1>2, <1>3, <1>4, UnpushedSteps DEF LedgerInv

(* The counters of what disturbs the loop only go up.                      *)
LEMMA CountsGrow ==
  ASSUME [Next]_vars
  PROVE  /\ faults' \in {faults, faults + 1}
         /\ \/ UNCHANGED <<restarts, pushes>>
            \/ restarts' = restarts + 1
            \/ pushes' = pushes + 1
<1>1. ASSUME NEW a \in Actors, Reevaluate(a) \/ ClosePosition(a) PROVE UNCHANGED counts
  BY <1>1 DEF Reevaluate, ReadPositions, RemovedDone, Restop, RestopDone, ReevaluateDone,
     ClosePosition, ExecuteClose, CloseRejected, ReleaseCapital, DeletePosition, RecordClose, counts
<1>2. CASE Tick
  BY <1>2 DEF Tick, TickStart, TickHold, TickSize, TickRisk, TickReserve, TickExecute, TickUndo,
     TickRecord, TickOpen, TickClose, counts
<1>3. CASE LoopStep
  BY <1>1, <1>2, <1>3 DEF LoopStep, Actors, LoopSettingsChanged, LoopTimer, CheckStopLosses,
     StopLossesDone, counts
<1>4. ASSUME NEW h \in Handlers, HandlerStep(h)
      PROVE  UNCHANGED counts \/ (UNCHANGED faults /\ pushes' = pushes + 1)
  BY <1>1, <1>4 DEF HandlerStep, Actors, UpdateSettings, counts
<1>5. CASE Environment
  BY <1>5 DEF Environment, DatabaseFails, PersistSnapshot, Restart, PolymarketReserve,
     PolymarketRelease, counts
<1> QED
  BY <1>3, <1>4, <1>5 DEF Next, counts, vars

(* What nobody has done so far, nobody had done before.                    *)
LEMMA UndisturbedBefore ==
  ASSUME TypeInv, [Next]_vars
  PROVE  /\ Unpushed' => Unpushed
         /\ Undisturbed' => Undisturbed
         /\ faults' = 0 => faults = 0
<1>1. faults \in Nat /\ restarts \in Nat /\ pushes \in Nat
  BY BoundAssumption DEF TypeInv, TypeOK, NotesOK
<1> QED
  BY <1>1, CountsGrow DEF Undisturbed, Unpushed

\* What holds until somebody else has closed something.
AloneInv == Unpushed => LedgerInv

(* Every step keeps it, also one that fails.                               *)
LEMMA AloneStep ==
  TypeInv /\ MoneyInv /\ AloneInv /\ [Next]_vars => AloneInv'
BY UndisturbedBefore, QuietStep, RowsStep, FilledStep DEF AloneInv, LedgerInv

(* A loop that is alone stays undisturbed.                                 *)
LEMMA AloneUndisturbed ==
  ASSUME LoopAlone, TypeInv, Undisturbed, [Next]_vars PROVE Undisturbed'
<1>1. faults = 0 /\ restarts = 0 /\ pushes = 0
  BY DEF Undisturbed
<1>2. ASSUME NEW a \in Actors, Reevaluate(a) \/ ClosePosition(a) PROVE UNCHANGED counts
  BY <1>2 DEF Reevaluate, ReadPositions, RemovedDone, Restop, RestopDone, ReevaluateDone,
     ClosePosition, ExecuteClose, CloseRejected, ReleaseCapital, DeletePosition, RecordClose, counts
<1>3. CASE Tick
  BY <1>1, <1>3 DEF Tick, TickStart, TickHold, TickSize, TickRisk, TickReserve, TickExecute, TickUndo,
     TickRecord, TickOpen, TickClose, counts, Undisturbed
<1>4. ASSUME NEW h \in Handlers, NEW s \in SettingsPushes PROVE ~UpdateSettings(h, s)
  BY <1>1 DEF LoopAlone, UpdateSettings
<1> QED
  BY <1>1, <1>2, <1>3, <1>4 DEF Next, LoopStep, HandlerStep, Environment, Actors, LoopAlone,
     LoopSettingsChanged, LoopTimer, CheckStopLosses, StopLossesDone, DatabaseFails,
     PersistSnapshot, Restart, PolymarketReserve, PolymarketRelease, counts, vars, Undisturbed

\* The strengthening for orders that are filled in full.
FullInv == Undisturbed /\ LedgerInv /\ BoughtInFull

(* The worker starts so, and stays so when it is alone.                    *)
LEMMA FullStep ==
  ASSUME LoopAlone, OrdersInFull
  PROVE  /\ Init => FullInv
         /\ TypeInv /\ MoneyInv /\ FullInv /\ [Next]_vars => FullInv'
<1>1. Init => FullInv
  BY LedgerInit DEF FullInv, Init, Undisturbed, BoughtInFull, Trading, NoOrder, NewOrder, Actors
<1>2. ASSUME TypeInv, MoneyInv, FullInv, [Next]_vars PROVE FullInv'
  <2>1. Undisturbed'
    BY <1>2, AloneUndisturbed DEF FullInv
  <2>2. LedgerInv'
    BY <1>2, <2>1, AloneStep DEF FullInv, AloneInv, Undisturbed, Unpushed
  <2>3. BoughtInFull'
    BY <1>2, <2>1, BoughtStep DEF FullInv
  <2> QED
    BY <2>1, <2>2, <2>3 DEF FullInv
<1> QED
  BY <1>1, <1>2

(* Then every step is one of the ledger.                                   *)
LEMMA FullPromise ==
  ASSUME SalesPay, TypeInv, TypeInv', MoneyInv, MoneyInv', FullInv, FullInv', [Next]_vars
  PROVE  Promise
<1>1. faults \in Nat
  BY BoundAssumption DEF TypeInv, TypeOK, NotesOK
<1>2. Unpushed' /\ ~DatabaseFails(Loop)
  BY <1>1 DEF FullInv, Undisturbed, Unpushed, DatabaseFails
<1> QED
  BY <1>2, StepPromise DEF FullInv

(* As long as the loop is alone and its buys are filled in full, the       *)
(* portfolio keeps the promise of FundsLedger: capital is reserved before  *)
(* the order, handed over to the position, and released once when it is    *)
(* closed, whatever the market and the other module do.                    *)
THEOREM LoopImplementsLedger ==
  ASSUME LoopAlone, OrdersInFull, SalesPay
  PROVE  Spec => ImplementsLedger
<1>1. Init => FullInv
  BY FullStep
<1>2. TypeInv /\ MoneyInv /\ FullInv /\ [Next]_vars => FullInv'
  BY FullStep
<1>3. Init => Ledger!Init
  BY LedgerInit
<1>4. /\ TypeInv /\ TypeInv' /\ MoneyInv /\ MoneyInv' /\ FullInv /\ FullInv' /\ [Next]_vars
      => [Ledger!Next]_LedgerVars
  BY FullPromise DEF Promise
<1> QED
  BY <1>1, <1>2, <1>3, <1>4, TypeInvariant, MoneyInvariant, PTL
     DEF Spec, ImplementsLedger, Ledger!Spec, Ledger!vars, LedgerVars

-----------------------------------------------------------------------------
(* What is allocated, and to whom.                                         *)

Holders == Ids \cup {0}

Allocated == portfolio.allocated["trading"]

HoldingOK ==
    /\ IsFiniteSet(Ids) /\ IsFiniteSet(Holders)
    /\ Holding \in [Holders -> Int]
    /\ Allocated \in Int
    /\ Total(Holding, Holders) \in Int

(* Every holder holds a whole amount, and there are finitely many.         *)
LEMMA HoldingType == TypeInv => HoldingOK
<1> SUFFICES ASSUME TypeInv PROVE HoldingOK
  OBVIOUS
<1> USE DEF TypeInv, TypeOK
<1>1. IsFiniteSet(Ids)
  BY BoundAssumption, FS_Interval DEF Ids
<1>2. IsFiniteSet(Holders)
  BY <1>1, FS_AddElement DEF Holders
<1>3. OrderHolds \in Int /\ \A i \in Ids : book[i].capital \in Int
  BY DEF OrderHolds, TicksOK, Orders, TableOK, Row
<1>4. Holding \in [Holders -> Int]
  BY <1>3, BoundAssumption DEF Holding, Holders, Ids
<1>5. Allocated \in Int
  BY DEF Allocated, MoneyOK, PortfolioState, Modules
<1> QED
  BY <1>1, <1>2, <1>4, <1>5, TotalType DEF HoldingOK

(* Also after a step.                                                      *)
LEMMA HoldingTypeNext == TypeInv' => HoldingOK'
BY HoldingType, PTL

(* A step of the ledger changes the allocation by as much as the holdings. *)
LEMMA PromiseAllocates ==
  ASSUME TypeInv, TypeInv', Promise
  PROVE  Allocated' - Allocated = Total(Holding, Holders)' - Total(Holding, Holders)
<1> DEFINE T == Total(Holding, Holders)
           U == Total(Holding', Holders)
<1>1. /\ IsFiniteSet(Holders) /\ Holding \in [Holders -> Int] /\ Holding' \in [Holders -> Int]
      /\ Allocated \in Int /\ Allocated' \in Int
  BY HoldingType, HoldingTypeNext DEF HoldingOK, Holders
<1>2. T \in Int /\ U \in Int
  BY HoldingType, HoldingTypeNext DEF HoldingOK, Holders
<1>3. CASE Holding' = Holding /\ Allocated' = Allocated
  BY <1>1, <1>2, <1>3 DEF Holders
<1>4. ASSUME NEW h \in Holders, NEW x \in Int, Holding' = [Holding EXCEPT ![h] = x]
      PROVE  U = T - Holding[h] + x
  <2>1. Holding'[h] = x /\ \A y \in Holders \ {h} : Holding'[y] = Holding[y]
    BY <1>1, <1>4
  <2> QED
    BY <1>1, <2>1, TotalUpdate
<1>5. ASSUME NEW h \in Holders, NEW x \in Int, Ledger!Commit(h, x)
      PROVE  Allocated' - Allocated = U - T
  <2>1. /\ Holding[h] = 0 /\ Allocated' = Allocated + x
        /\ Holding' = [Holding EXCEPT ![h] = x]
    BY <1>5 DEF Ledger!Commit, Allocated
  <2>2. U = T - 0 + x
    BY <1>4, <2>1
  <2> HIDE DEF T, U
  <2> QED
    BY <1>1, <1>2, <2>1, <2>2
<1>6. ASSUME NEW g \in Holders, NEW h \in Holders, g # h, Ledger!HandOver(g, h)
      PROVE  Allocated' - Allocated = U - T
  <2>1. /\ Holding[h] = 0 /\ Allocated' = Allocated
        /\ Holding' = [Holding EXCEPT ![g] = 0, ![h] = Holding[g]]
    BY <1>6 DEF Ledger!HandOver, Allocated
  <2> DEFINE mid == [Holding EXCEPT ![g] = 0]
  <2>2. Total(mid, Holders) = T - Holding[g] + 0
    <3>1. mid[g] = 0 /\ \A y \in Holders \ {g} : mid[y] = Holding[y]
      BY <1>1
    <3> HIDE DEF mid
    <3> QED
      BY <1>1, <3>1, TotalUpdate
  <2>3. U = Total(mid, Holders) - 0 + Holding[g]
    <3>1. /\ \A y \in Holders : mid[y] \in Int
          /\ mid[h] = 0 /\ Holding'[h] = Holding[g]
          /\ \A y \in Holders \ {h} : Holding'[y] = mid[y]
      BY <1>1, <1>6, <2>1
    <3>2. Holding'[h] \in Int
      BY <1>1
    <3> HIDE DEF mid
    <3>3. U = Total(mid, Holders) - mid[h] + Holding'[h]
      BY <1>1, <3>1, <3>2, TotalUpdate
    <3> QED
      BY <3>1, <3>3
  <2>4. Holding[g] \in Int
    BY <1>1
  <2> HIDE DEF T, U, mid
  <2> QED
    BY <1>1, <1>2, <2>1, <2>2, <2>3, <2>4
<1>7. ASSUME NEW h \in Holders, NEW x, Ledger!Settle(h, x)
      PROVE  Allocated' - Allocated = U - T
  <2>1. Allocated' = Allocated - Holding[h] /\ Holding' = [Holding EXCEPT ![h] = 0]
    BY <1>7 DEF Ledger!Settle, Allocated
  <2>2. U = T - Holding[h] + 0 /\ Holding[h] \in Int
    BY <1>1, <1>4, <2>1
  <2> HIDE DEF T, U
  <2> QED
    BY <1>1, <1>2, <2>1, <2>2
<1>8. CASE Ledger!OtherModule
  BY <1>3, <1>8 DEF Ledger!OtherModule, Allocated
<1>9. Allocated' - Allocated = U - T
  <2>1. ASSUME NEW x \in 0 .. portfolio.available PROVE x \in Int
    OBVIOUS
  <2> QED
    BY <1>3, <1>5, <1>6, <1>7, <1>8, <2>1
       DEF Promise, LedgerVars, Ledger!Next, Holders, Allocated
<1> QED
  BY <1>9 DEF Holders

(* When capital is lost sight of, the holdings shrink by what is left over *)
(* and the allocation does not.                                            *)
LEMMA LeakAllocates ==
  ASSUME TypeInv, TypeInv', MoneyInv, Leak
  PROVE  /\ Allocated' = Allocated /\ leftOver' >= leftOver
         /\ Total(Holding, Holders)' + leftOver' = Total(Holding, Holders) + leftOver
<1> DEFINE T == Total(Holding, Holders)
           U == Total(Holding', Holders)
           mid == [Holding EXCEPT ![0] = 0]
<1>1. /\ IsFiniteSet(Holders) /\ Holding \in [Holders -> Int] /\ Holding' \in [Holders -> Int]
      /\ 0 \in Holders
  BY HoldingType, HoldingTypeNext DEF HoldingOK, Holders
<1>2. T \in Int /\ U \in Int /\ leftOver \in Int
  BY HoldingType, HoldingTypeNext DEF HoldingOK, Holders, TypeInv, TypeOK, NotesOK
<1>3. Holding[0] \in Int /\ Holding[0] >= 0
  <2>1. order.capital \in Int /\ order.capital >= 0
    BY DEF MoneyInv, TypeInv, TypeOK, TicksOK, Orders
  <2> QED
    BY <2>1, OrderHolding DEF OrderHolds
<1>4. Total(mid, Holders) = T - Holding[0] + 0
  <2>1. mid[0] = 0 /\ \A y \in Holders \ {0} : mid[y] = Holding[y]
    BY <1>1
  <2> HIDE DEF mid
  <2> QED
    BY <1>1, <2>1, TotalUpdate
<1> DEFINE Goal == U + leftOver' = T + leftOver /\ leftOver' >= leftOver
<1>5. CASE Holding' = mid /\ leftOver' = leftOver + Holding[0]
  <2>1. U = Total(mid, Holders)
    BY <1>5
  <2>2. Goal
    <3> HIDE DEF T, U, mid
    <3> QED
      BY <1>2, <1>3, <1>4, <1>5, <2>1
  <2> QED
    BY <2>2 DEF Leak, Allocated, Holders
<1>6. ASSUME NEW x \in Ids, NEW fill \in 0 .. Holding[0],
             Holding[x] = 0, Holding' = [Holding EXCEPT ![0] = 0, ![x] = fill],
             leftOver' = leftOver + Holding[0] - fill
      PROVE  Goal
  <2>1. x \in Holders /\ x # 0
    BY DEF Holders, Ids
  <2>2. /\ \A y \in Holders : mid[y] \in Int
        /\ mid[x] = 0 /\ Holding'[x] = fill
        /\ \A y \in Holders \ {x} : Holding'[y] = mid[y]
    BY <1>1, <1>6, <2>1
  <2>3. U = Total(mid, Holders) - mid[x] + Holding'[x]
    <3> HIDE DEF mid
    <3> QED
      BY <1>1, <2>1, <2>2, TotalUpdate
  <2> HIDE DEF T, U, mid
  <2> QED
    BY <1>2, <1>3, <1>4, <1>6, <2>2, <2>3
<1> QED
  BY <1>5, <1>6 DEF Leak, Allocated, Holders

(* The worker starts with nothing allocated and nothing held.              *)
LEMMA NothingAllocated == Init => Allocated = 0 /\ Total(Holding, Holders) = 0
<1> SUFFICES ASSUME Init PROVE Allocated = 0 /\ Total(Holding, Holders) = 0
  OBVIOUS
<1>1. Ledger!Init
  BY LedgerInit
<1>2. \A h \in Holders : Holding[h] = 0
  BY <1>1 DEF Ledger!Init, Holders
<1>3. IsFiniteSet(Holders)
  <2>1. IsFiniteSet(Ids)
    BY BoundAssumption, FS_Interval DEF Ids
  <2> QED
    BY <2>1, FS_AddElement DEF Holders
<1> QED
  BY <1>1, <1>2, <1>3, TotalZero DEF Ledger!Init, Allocated

(* The allocation the portfolio shows for trading is exactly what the      *)
(* order under way and the open positions hold, as long as the loop is     *)
(* alone and its buys are filled in full.                                  *)
THEOREM AllocationAlwaysExact ==
  ASSUME LoopAlone, OrdersInFull, SalesPay
  PROVE  Spec => []AllocationExact
<1>1. Init => FullInv
  BY FullStep
<1>2. TypeInv /\ MoneyInv /\ FullInv /\ [Next]_vars => FullInv'
  BY FullStep
<1>3. Init => AllocationExact
  BY NothingAllocated DEF AllocationExact, Allocated, Holders
<1>4. /\ TypeInv /\ TypeInv' /\ MoneyInv /\ MoneyInv' /\ FullInv /\ FullInv' /\ [Next]_vars
      /\ AllocationExact
      => AllocationExact'
  <2> SUFFICES ASSUME TypeInv, TypeInv', MoneyInv, MoneyInv', FullInv, FullInv', [Next]_vars,
                      AllocationExact
               PROVE  AllocationExact'
    OBVIOUS
  <2>1. Promise
    BY FullPromise
  <2>2. Allocated' - Allocated = Total(Holding, Holders)' - Total(Holding, Holders)
    BY <2>1, PromiseAllocates
  <2>3. /\ Allocated \in Int /\ Allocated' \in Int
        /\ Total(Holding, Holders) \in Int /\ Total(Holding, Holders)' \in Int
    BY HoldingType, HoldingTypeNext DEF HoldingOK
  <2>4. Allocated' = Total(Holding, Holders)'
    BY <2>2, <2>3 DEF AllocationExact, Allocated, Holders
  <2> QED
    BY <2>4 DEF AllocationExact, Allocated, Holders
<1> QED
  BY <1>1, <1>2, <1>3, <1>4, TypeInvariant, MoneyInvariant, PTL DEF Spec

\* The account of what is allocated, until somebody else closes something.
AccountInv ==
    /\ AloneInv
    /\ Unpushed =>
          /\ \A i \in Ids : book[i].capital >= 0
          /\ leftOver >= 0
          /\ faults = 0 => atFault = 0
          /\ FaultsAreContained

(* No position has less than nothing.                                      *)
LEMMA CapitalStep ==
  ASSUME Unpushed', TypeInv, LedgerInv, [Next]_vars, \A i \in Ids : book[i].capital >= 0
  PROVE  \A i \in Ids : book'[i].capital >= 0
<1> USE DEF TypeInv, TypeOK, TableOK, Row
<1>1. CASE UNCHANGED book
  BY <1>1
<1>2. CASE TickOpen
  <2>1. order.fill >= 0
    BY <1>2 DEF TickOpen, LedgerInv, FilledWithin, Trading, At, TicksOK, Orders
  <2> QED
    BY <1>2, <2>1 DEF TickOpen
<1>3. CASE Reevaluate(Loop)
  BY <1>3 DEF Reevaluate, ReadPositions, RemovedDone, Restop, RestopDone, ReevaluateDone, table
<1>4. CASE ClosePosition(Loop)
  BY <1>1, <1>4 DEF ClosePosition, ExecuteClose, CloseRejected, ReleaseCapital, DeletePosition,
     RecordClose, table
<1>5. CASE Tick
  BY <1>1, <1>2, <1>5 DEF Tick, TickStart, TickHold, TickSize, TickRisk, TickReserve, TickExecute,
     TickUndo, TickRecord, TickClose, table
<1> QED
  BY <1>1, <1>3, <1>4, <1>5, UnpushedSteps
     DEF LedgerInv, LoopStep, LoopSettingsChanged, LoopTimer, CheckStopLosses, StopLossesDone,
         PolymarketReserve, PolymarketRelease, PersistSnapshot, DatabaseFails, vars, table

(* A statement that fails misplaces no more than it had in hand: the order *)
(* it was about to record, or the position it was about to delete.         *)
LEMMA FaultMisplaces ==
  ASSUME TypeInv, TypeInv', MoneyInv, LedgerInv, LedgerInv', DatabaseFails(Loop),
         \A i \in Ids : book[i].capital >= 0
  PROVE  /\ Allocated' = Allocated /\ UNCHANGED leftOver /\ InHand(Loop) \in Nat
         /\ \/ Total(Holding, Holders)' = Total(Holding, Holders)
            \/ Total(Holding, Holders)' = Total(Holding, Holders) - InHand(Loop)
            \/ Total(Holding, Holders)' = Total(Holding, Holders) + InHand(Loop)
<1> USE DEF TypeInv, TypeOK, ActorsOK, LedgerInv
<1> DEFINE T == Total(Holding, Holders)
           U == Total(Holding', Holders)
<1>0. /\ Loop \in Actors /\ UNCHANGED <<portfolio, open, book, leftOver>>
      /\ step'[Loop] = "next"
      /\ order.capital \in Nat
  BY DEF Actors, DatabaseFails, NextTicker, Return, GoTo, money, table, MoneyInv, TicksOK, Orders
<1>1. /\ IsFiniteSet(Holders) /\ Holding \in [Holders -> Int] /\ Holding' \in [Holders -> Int]
      /\ 0 \in Holders
  BY HoldingType, HoldingTypeNext DEF HoldingOK, Holders
<1>2. T \in Int /\ U \in Int
  BY HoldingType, HoldingTypeNext DEF HoldingOK, Holders
<1>3. BeingDeleted' = {} /\ OrderHolds' = 0
  BY <1>0 DEF BeingDeleted, Actors, Quiet, At, OrderHolds
<1>4. ASSUME NEW h \in Holders, NEW x \in Int, Holding' = [Holding EXCEPT ![h] = x]
      PROVE  U = T - Holding[h] + x
  <2>1. Holding'[h] = x /\ \A y \in Holders \ {h} : Holding'[y] = Holding[y]
    BY <1>1, <1>4
  <2> QED
    BY <1>1, <2>1, TotalUpdate
<1>5. CASE step[Loop] = "delete"
  <2>1. row[Loop] \in open /\ row[Loop] \in Ids /\ row[Loop] # 0
    BY <1>0, <1>5 DEF RowsInHand, TableOK, Ids
  <2>2. BeingDeleted = {row[Loop]} /\ OrderHolds = 0 /\ InHand(Loop) = book[row[Loop]].capital
    BY <1>5 DEF BeingDeleted, Actors, Quiet, At, OrderHolds, InHand
  <2>3. InHand(Loop) \in Nat
    <3>1. book[row[Loop]].capital \in Int
      BY <2>1 DEF TableOK, Row
    <3>2. book[row[Loop]].capital >= 0
      BY <2>1
    <3> QED
      BY <2>2, <3>1, <3>2
  <2>4. Holding[row[Loop]] = 0 /\ Holding' = [Holding EXCEPT ![row[Loop]] = InHand(Loop)]
    BY <1>0, <1>3, <2>1, <2>2 DEF Holding
  <2>5. U = T - Holding[row[Loop]] + InHand(Loop)
    <3>1. row[Loop] \in Holders /\ InHand(Loop) \in Int
      BY <2>1, <2>3 DEF Holders
    <3> HIDE DEF T, U
    <3> QED
      BY <1>4, <2>4, <3>1
  <2>6. U = T + InHand(Loop)
    <3> HIDE DEF T, U
    <3> QED
      BY <1>2, <2>3, <2>4, <2>5
  <2> QED
    BY <1>0, <2>3, <2>6 DEF Allocated, Holders
<1>6. CASE step[Loop] # "delete"
  <2>1. BeingDeleted = {}
    BY <1>6 DEF BeingDeleted, Actors, Quiet, At
  <2>2. Holding' = [Holding EXCEPT ![0] = 0]
    BY <1>0, <1>3, <2>1 DEF Holding
  <2>3. U = T - OrderHolds
    <3>1. OrderHolds \in Int
      BY <1>0 DEF OrderHolds
    <3> HIDE DEF T, U
    <3>2. U = T - Holding[0] + 0
      BY <1>1, <1>4, <2>2
    <3> QED
      BY <1>2, <3>1, <3>2, OrderHolding
  <2>4. CASE phase[Loop] = "tick" /\ step[Loop] \in {"log", "book"}
    <3>1. InHand(Loop) = order.capital /\ OrderHolds = order.capital
      BY <2>4 DEF InHand, OrderHolds
    <3> QED
      BY <1>0, <2>3, <3>1 DEF Allocated, Holders
  <2>5. CASE ~(phase[Loop] = "tick" /\ step[Loop] \in {"log", "book"})
    <3>1. OrderHolds = 0
      BY <2>5 DEF OrderHolds, DatabaseFails, AtDatabase
    <3>2. InHand(Loop) \in Nat
      BY <1>0, <1>6 DEF InHand
    <3>3. U = T
      <4> HIDE DEF T, U
      <4> QED
        BY <1>2, <2>3, <3>1
    <3> QED
      BY <1>0, <3>2, <3>3 DEF Allocated, Holders
  <2> QED
    BY <2>4, <2>5
<1> QED
  BY <1>5, <1>6

(* What one of two amounts loses the other gains, when their sum stays.    *)
LEMMA SameSum ==
  ASSUME NEW x \in Int, NEW y \in Int, NEW v \in Int, NEW w \in Int, x + y = v + w
  PROVE  (x - v) + (y - w) = 0
OBVIOUS

(* Two amounts that move together stay as far from each other as they were. *)
LEMMA MovedTogether ==
  ASSUME NEW x \in Int, NEW y \in Int, NEW v \in Int, NEW w \in Int, NEW d \in Int,
         Distance(x, y) <= d, v - x = w - y
  PROVE  Distance(v, w) <= d
BY DEF Distance

(* Every step keeps the account, whatever its orders reported and whether  *)
(* its statements failed or not.                                           *)
LEMMA AccountStep ==
  ASSUME SalesPay, TypeInv, TypeInv', MoneyInv, MoneyInv', AccountInv, [Next]_vars
  PROVE  AccountInv'
<1>1. AloneInv'
  BY AloneStep DEF AccountInv
<1>2. ASSUME Unpushed'
      PROVE  /\ \A i \in Ids : book'[i].capital >= 0
             /\ leftOver' >= 0
             /\ faults' = 0 => atFault' = 0
             /\ FaultsAreContained'
  <2> DEFINE T == Total(Holding, Holders)
             U == Total(Holding', Holders)
             Far(x, y, z) == Distance(x, y) <= z
  <2>1. /\ Unpushed /\ LedgerInv /\ LedgerInv' /\ leftOver >= 0
        /\ faults = 0 => atFault = 0
        /\ \A i \in Ids : book[i].capital >= 0
        /\ Far(Allocated, T + leftOver, atFault)
    BY <1>1, <1>2, UndisturbedBefore
       DEF AccountInv, AloneInv, FaultsAreContained, Unpushed, Allocated, Holders
  <2>2. \A i \in Ids : book'[i].capital >= 0
    BY <1>2, <2>1, CapitalStep
  <2>3. /\ Allocated \in Int /\ Allocated' \in Int /\ T \in Int /\ U \in Int
        /\ leftOver \in Int /\ leftOver' \in Int /\ atFault \in Int /\ faults \in Nat
    BY HoldingType, HoldingTypeNext, BoundAssumption
       DEF HoldingOK, TypeInv, TypeOK, NotesOK, Holders
  <2>4. CASE DatabaseFails(Loop)
    <3>1. /\ Allocated' = Allocated /\ leftOver' = leftOver /\ InHand(Loop) \in Nat
          /\ U = T \/ U = T - InHand(Loop) \/ U = T + InHand(Loop)
      BY <2>1, <2>4, FaultMisplaces DEF Holders
    <3>2. atFault' = atFault + InHand(Loop) /\ faults' = faults + 1
      BY <2>4 DEF DatabaseFails
    <3>3. Far(Allocated', U + leftOver', atFault')
      <4> HIDE DEF T, U
      <4> QED
        BY <2>1, <2>3, <3>1, <3>2 DEF Distance
    <3> QED
      BY <2>1, <2>2, <2>3, <3>1, <3>2, <3>3 DEF FaultsAreContained, Allocated, Holders
  <2>5. CASE ~DatabaseFails(Loop)
    <3>1. /\ (Promise /\ UNCHANGED leftOver) \/ Leak
          /\ UNCHANGED atFault
      BY <1>2, <2>1, <2>5, StepPromise
    <3>2. leftOver' >= leftOver /\ Allocated' - Allocated = (U - T) + (leftOver' - leftOver)
      <4>1. CASE Promise /\ UNCHANGED leftOver
        <5>1. Allocated' - Allocated = U - T
          BY <4>1, PromiseAllocates DEF Holders
        <5>2. leftOver' = leftOver
          BY <4>1
        <5>3. leftOver' >= leftOver
          BY <2>3, <5>2
        <5>4. leftOver' - leftOver = 0
          BY <2>3, <5>2
        <5>5. U - T \in Int
          <6> HIDE DEF T, U
          <6> QED
            BY <2>3
        <5>6. (U - T) + (leftOver' - leftOver) = U - T
          <6> HIDE DEF T, U
          <6> QED
            BY <5>4, <5>5
        <5> QED
          BY <5>1, <5>3, <5>6
      <4>2. CASE Leak
        <5>1. Allocated' = Allocated /\ leftOver' >= leftOver /\ U + leftOver' = T + leftOver
          BY <4>2, LeakAllocates DEF Holders
        <5>2. Allocated' - Allocated = 0
          BY <2>3, <5>1
        <5>3. (U - T) + (leftOver' - leftOver) = 0
          <6> HIDE DEF T, U
          <6>1. T \in Int /\ U \in Int /\ leftOver \in Int /\ leftOver' \in Int
            BY <2>3
          <6>2. U + leftOver' = T + leftOver
            BY <5>1
          <6> QED
            BY <6>1, <6>2, SameSum
        <5> QED
          BY <5>1, <5>2, <5>3
      <4> QED
        BY <3>1, <4>1, <4>2
    <3>3. Far(Allocated', U + leftOver', atFault')
      <4>1. atFault' = atFault
        BY <3>1
      <4> HIDE DEF T, U
      <4>2. /\ T + leftOver \in Int /\ U + leftOver' \in Int
            /\ Allocated' - Allocated = (U + leftOver') - (T + leftOver)
        BY <2>3, <3>2
      <4> QED
        BY <2>1, <2>3, <4>1, <4>2, MovedTogether
    <3>4. faults' = 0 => faults = 0
      BY UndisturbedBefore
    <3> QED
      BY <2>1, <2>2, <2>3, <3>1, <3>2, <3>3, <3>4 DEF FaultsAreContained, Allocated, Holders
  <2> QED
    BY <2>4, <2>5
<1> QED
  BY <1>1, <1>2 DEF AccountInv

(* What the open positions hold is part of what is held.                   *)
LEMMA HeldCoversOpen ==
  ASSUME TypeInv, MoneyInv, Allocated >= Total(Holding, Holders) PROVE AllocationCoversOpen
<1> DEFINE S == open \ BeingDeleted
<1>1. /\ IsFiniteSet(Ids) /\ IsFiniteSet(Holders) /\ Holding \in [Holders -> Int]
      /\ Allocated \in Int
  BY HoldingType DEF HoldingOK
<1>2. /\ S \in SUBSET Ids /\ 0 \in Holders /\ Holders \ {0} = Ids
      /\ \A i \in Ids : Holding[i] = IF i \in S THEN CapitalOf[i] ELSE 0
  <2>1. 0 \notin Ids
    BY BoundAssumption DEF Ids
  <2> QED
    BY <2>1 DEF TypeInv, TypeOK, TableOK, Holders, Holding, CapitalOf
<1>3. IsFiniteSet(S)
  BY <1>1, <1>2, FS_Subset
<1>4. Total(Holding, Holders) = Holding[0] + Total(Holding, Ids)
  BY <1>1, <1>2, TotalRemove
<1>5. Total(Holding, Ids) = Total(Holding, S)
  <2> HIDE DEF S
  <2>1. \A i \in Ids : Holding[i] \in Int
    BY <1>1 DEF Holders
  <2> QED
    BY <1>1, <1>2, <2>1, TotalWithout
<1>6. Total(Holding, S) = Total(CapitalOf, S)
  <2> HIDE DEF S
  <2> QED
    BY <1>2, <1>3, TotalSame
<1>7. Holding[0] \in Int /\ Holding[0] >= 0
  <2>1. order.capital \in Int /\ order.capital >= 0
    BY DEF MoneyInv, TypeInv, TypeOK, TicksOK, Orders
  <2> QED
    BY <2>1, OrderHolding DEF OrderHolds
<1>8. Total(Holding, Ids) \in Int
  <2>1. \A i \in Ids : Holding[i] \in Int
    BY <1>1 DEF Holders
  <2> QED
    BY <1>1, <2>1, TotalType
<1>9. Allocated >= Total(CapitalOf, S)
  <2> HIDE DEF S
  <2> QED
    BY <1>1, <1>4, <1>5, <1>6, <1>7, <1>8
<1> QED
  BY <1>9 DEF AllocationCoversOpen, Allocated

(* The worker starts with a clean account.                                 *)
LEMMA InitAccount == Init => AccountInv
<1> SUFFICES ASSUME Init PROVE AccountInv
  OBVIOUS
<1>1. LedgerInv /\ Allocated = 0 /\ Total(Holding, Holders) = 0
  BY LedgerInit, NothingAllocated
<1>2. leftOver = 0 /\ atFault = 0 /\ \A i \in Ids : book[i].capital = 0
  BY DEF Init, NoRow
<1> QED
  BY <1>1, <1>2 DEF AccountInv, AloneInv, FaultsAreContained, Distance, Allocated, Holders

(* Whatever the market does with the orders and whichever statements fail: *)
(* as long as nobody but the loop has closed anything, the allocation is   *)
(* what is held and what orders left over, but for what the failed         *)
(* statements had in hand.                                                 *)
THEOREM FaultsAlwaysContained ==
  ASSUME SalesPay
  PROVE  Spec => []FaultsAreContained
<1>1. Init => AccountInv
  BY InitAccount
<1>2. TypeInv /\ TypeInv' /\ MoneyInv /\ MoneyInv' /\ AccountInv /\ [Next]_vars => AccountInv'
  BY AccountStep
<1>3. AccountInv => FaultsAreContained
  BY DEF AccountInv, FaultsAreContained, Unpushed
<1> QED
  BY <1>1, <1>2, <1>3, TypeInvariant, MoneyInvariant, PTL DEF Spec

(* Until something disturbs the loop, the allocation covers the capital of *)
(* every open position, whichever orders it buys or sells with and however *)
(* little of them is filled: closing a position releases its capital once. *)
THEOREM AloneAlwaysCovers ==
  ASSUME SalesPay
  PROVE  Spec => []AloneCoversOpen
<1>1. Init => AccountInv
  BY InitAccount
<1>2. TypeInv /\ TypeInv' /\ MoneyInv /\ MoneyInv' /\ AccountInv /\ [Next]_vars => AccountInv'
  BY AccountStep
<1>3. TypeInv /\ MoneyInv /\ AccountInv => AloneCoversOpen
  <2> SUFFICES ASSUME TypeInv, MoneyInv, AccountInv, Undisturbed PROVE AllocationCoversOpen
    BY DEF AloneCoversOpen, Undisturbed
  <2>1. /\ Allocated \in Int /\ Total(Holding, Holders) \in Int /\ leftOver \in Int
    BY HoldingType DEF HoldingOK, TypeInv, TypeOK, NotesOK
  <2>2. leftOver >= 0 /\ Distance(Allocated, Total(Holding, Holders) + leftOver) <= 0
    BY DEF AccountInv, FaultsAreContained, Undisturbed, Unpushed, Allocated, Holders
  <2>3. Allocated >= Total(Holding, Holders)
    BY <2>1, <2>2 DEF Distance
  <2> QED
    BY <2>3, HeldCoversOpen
<1> QED
  BY <1>1, <1>2, <1>3, TypeInvariant, MoneyInvariant, PTL DEF Spec
=============================================================================
