----------------------- MODULE PolymarketWorker_proofs -----------------------
(***************************************************************************)
(* The prediction-market side, for every set of markets and handlers,      *)
(* every limit, cost and profit, and every bound.  In this order: its      *)
(* types; what check_exposure promises; the order of forced sales; what a  *)
(* re-evaluation leaves behind; the allocation, while the loop is alone.   *)
(***************************************************************************)
EXTENDS PolymarketWorker, Accounts_proofs

\* An actor that is working on one row has it in hand.
RowInHand ==
    \A a \in Actors :
        step[a] \in {"release", "delete", "record", "merge", "price"} => row[a] \in Ids

\* The steps of process_market between the signal and the table of predictions.
Buying == {"exposure", "reserve", "order", "undo", "log", "lookup", "merge", "insert"}

\* Only a Buy gets to the steps that take capital or write a row, and there is an
\* id left for it.
BuyInHand ==
    /\ step[Loop] \in {"reserve", "undo", "merge", "insert"} => signal.action = "buy"
    /\ step[Loop] \in Buying /\ signal.action = "buy" => opened < MaxOpened

TypeInv == TypeOK /\ RowInHand /\ BuyInHand

(* The blank signal is one.                                                *)
LEMMA NoSignalType == NoSignal \in Signal /\ NoRow \in Row /\ NoSignal.action = "buy"
BY MarketAssumption DEF NoSignal, Signal, NoRow, Row, SomeMarket

(* A set of rows is finite, and its capital an amount.                     *)
LEMMA ExposureType ==
  ASSUME TypeOK, NEW rows \in SUBSET Ids
  PROVE  IsFiniteSet(rows) /\ Exposure(rows) \in Int
<1>1. IsFiniteSet(rows)
  <2>1. IsFiniteSet(Ids)
    BY BoundAssumption, FS_Interval DEF Ids
  <2>. QED
    BY <2>1, FS_Subset
<1>2. \A i \in rows : CapitalOf[i] \in Int
  BY DEF CapitalOf, TypeOK, Row
<1>. QED
  BY <1>1, <1>2, TotalType DEF Exposure

(* Returning leaves every actor a step, a limit, rows and copies.          *)
LEMMA ReturnTyped ==
  ASSUME TypeOK, NEW a \in Actors, Return(a)
  PROVE  /\ step' \in [Actors -> Steps]
         /\ cfg' \in [Actors -> Int]
         /\ todo' \in [Actors -> SUBSET Ids]
         /\ copy' \in [Actors -> [Ids -> Int]]
         /\ total' \in [Actors -> Int]
         /\ row' \in [Actors -> Ids \cup {0}]
BY MoneyAssumption DEF TypeOK, Return, GoTo, Steps, NoCopy

(* So does going on to the next market.                                    *)
LEMMA NextMarketTyped ==
  ASSUME TypeOK, NextMarket
  PROVE  /\ step' \in [Actors -> Steps]
         /\ UNCHANGED <<cfg, todo, copy, total>>
         /\ row' \in [Actors -> Ids \cup {0}]
         /\ signal' \in Signal
BY NoSignalType DEF TypeOK, NextMarket, GoTo, Steps, Actors

(* The worker starts in a state of the right types.                        *)
LEMMA InitType == Init => TypeInv
<1>. SUFFICES ASSUME Init PROVE TypeInv
  OBVIOUS
<1>1. TypeOK
  BY NoSignalType, MoneyAssumption, BoundAssumption
     DEF Init, TypeOK, StartingPortfolio, PortfolioState, Steps, NoCopy
<1>. QED
  BY <1>1 DEF Init, TypeInv, RowInHand, BuyInHand, Buying, Actors

(* The steps that handlers take as well keep the types.                    *)
LEMMA ReevaluateTyped ==
  ASSUME TypeInv, NEW a \in Actors, Reevaluate(a)
  PROVE  TypeInv'
<1>. USE DEF TypeInv, TypeOK
<1>1. CASE ReadPredictions(a)
  <2>1. Exposure(open) \in Int
    BY ExposureType
  <2>2. [i \in Ids |-> IF i \in open THEN book[i].capital ELSE 0] \in [Ids -> Int]
    BY DEF Row
  <2>. QED
    BY <1>1, <2>1, <2>2 DEF ReadPredictions, GoTo, Steps, RowInHand, BuyInHand, Buying, Actors,
                        money, table, hub, ticks, counts
<1>2. ASSUME NEW i \in Ids, ForceClose(a, i) PROVE TypeInv'
  BY <1>2 DEF ForceClose, GoTo, Steps, RowInHand, BuyInHand, Buying, Actors,
              money, table, hub, ticks, counts
<1>3. ASSUME NEW i \in Ids, ForceCloseRejected(a, i) PROVE TypeInv'
  BY <1>3 DEF ForceCloseRejected, RowInHand, BuyInHand, Buying, Actors,
              money, table, hub, ticks, counts
<1>4. CASE ReleaseCapital(a)
  <2>1. row[a] \in Ids
    BY <1>4 DEF ReleaseCapital, RowInHand
  <2>2. copy[a][row[a]] \in Int
    BY <2>1
  <2>3. \A pnl \in Profits : Release(portfolio, copy[a][row[a]], pnl, "polymarket") \in PortfolioState
    BY <2>2, ReleaseType, MoneyAssumption DEF Modules
  <2>. QED
    BY <1>4, <2>1, <2>3 DEF ReleaseCapital, GoTo, Steps, RowInHand, BuyInHand, Buying, Actors,
                        table, hub, hands, ticks, counts
<1>5. CASE DeleteRow(a)
  <2>1. CASE a = Loop /\ NextMarket
    <3>1. step' \in [Actors -> Steps] /\ row' \in [Actors -> Ids \cup {0}] /\ signal' \in Signal
          /\ UNCHANGED <<cfg, todo, copy, total>>
      BY <2>1, NextMarketTyped
    <3>. QED
      BY <1>5, <2>1, <3>1 DEF DeleteRow, NextMarket, GoTo, Steps, RowInHand, BuyInHand, Buying, Actors,
                        money, hub, counts
  <2>2. CASE GoTo(a, "record") /\ UNCHANGED <<hands, signal>>
    BY <1>5, <2>2 DEF DeleteRow, GoTo, Steps, RowInHand, BuyInHand, Buying, Actors,
                        money, hub, hands, counts
  <2>. QED
    BY <1>5, <2>1, <2>2 DEF DeleteRow
<1>6. CASE RecordClose(a)
  <2>1. copy[a][row[a]] \in Int
    BY <1>6 DEF RecordClose, RowInHand
  <2>. QED
    BY <1>6, <2>1 DEF RecordClose, GoTo, Steps, RowInHand, BuyInHand, Buying, Actors,
                      money, table, hub, ticks, counts
<1>7. CASE ReevaluateDone(a)
  BY <1>7, ReturnTyped DEF ReevaluateDone, Return, GoTo, Steps, RowInHand, BuyInHand, Buying, Actors,
                      money, table, hub, ticks, counts
<1>. QED
  BY <1>1, <1>2, <1>3, <1>4, <1>5, <1>6, <1>7 DEF Reevaluate

(* So do the steps of process_market.                                      *)
LEMMA ProcessMarketTyped ==
  ASSUME TypeInv, ProcessMarket
  PROVE  TypeInv'
<1>. USE DEF TypeInv, TypeOK
<1>0. Loop \in Actors /\ signal \in Signal
  BY DEF Actors
<1>n. ASSUME NextMarket, UNCHANGED <<opened>>, portfolio' \in PortfolioState,
             UNCHANGED <<snapshot, open, book, unpriced, hub, queue, counts>>
      PROVE  TypeInv'
  BY <1>n, NextMarketTyped DEF NextMarket, GoTo, RowInHand, BuyInHand, Buying, Actors, hub, counts
<1>1. ASSUME NEW m \in Markets, MarketHold(m) PROVE TypeInv'
  BY <1>1 DEF MarketHold, RowInHand, BuyInHand, Buying, money, table, hub, hands, counts
<1>2. ASSUME NEW m \in Markets, MarketSignal(m) PROVE TypeInv'
  <2>1. PICK side \in Sides, action \in Actions, cost \in Costs :
           /\ action = "buy" => opened < MaxOpened
           /\ signal' = [NoSignal EXCEPT !.market = m, !.side = side,
                                         !.action = action, !.cost = cost, !.status = "sent"]
    BY <1>2 DEF MarketSignal
  <2>2. signal' \in Signal /\ signal'.action = action
    <3>1. signal' = [market |-> m, side |-> side, action |-> action,
                     cost |-> cost, spent |-> 0, status |-> "sent"]
      BY <2>1 DEF NoSignal
    <3>2. action \in {"buy", "sell"} /\ cost \in Int
      BY <2>1, MarketAssumption, MoneyAssumption
    <3>. QED
      BY <3>1, <3>2 DEF Signal
  <2>. QED
    BY <1>0, <1>2, <2>1, <2>2 DEF MarketSignal, GoTo, Steps, RowInHand, BuyInHand, Buying,
                       money, table, hub, hands, counts
<1>3. CASE CheckExposure
  <2>1. CASE NextMarket
    BY <1>3, <2>1, <1>n DEF CheckExposure, money, table
  <2>2. CASE GoTo(Loop, IF signal.action = "buy" THEN "reserve" ELSE "order") /\ UNCHANGED <<hands, signal>>
    BY <1>0, <1>3, <2>2 DEF CheckExposure, GoTo, Steps, RowInHand, BuyInHand, Buying,
                      money, table, hub, hands, counts
  <2>. QED
    BY <1>3, <2>1, <2>2 DEF CheckExposure
<1>4. CASE ReserveFunds
  <2>0. signal.cost \in Int /\ "polymarket" \in Modules
    BY <1>0 DEF Signal, Modules
  <2>1. Reserve(portfolio, signal.cost, "polymarket") \in PortfolioState
    BY <2>0, ReserveType
  <2>2. CASE NextMarket /\ UNCHANGED portfolio
    BY <1>4, <2>2, <1>n DEF ReserveFunds, table
  <2>3. CASE /\ portfolio' = Reserve(portfolio, signal.cost, "polymarket")
             /\ GoTo(Loop, "order") /\ UNCHANGED <<hands, signal>>
    BY <1>0, <1>4, <2>1, <2>3 DEF ReserveFunds, GoTo, Steps, RowInHand, BuyInHand, Buying,
                      table, hub, hands, counts
  <2>. QED
    BY <1>4, <2>2, <2>3 DEF ReserveFunds
<1>5. CASE Execute
  <2>0. signal.cost \in Int
    BY <1>0 DEF Signal
  <2>1. CASE NextMarket
    BY <1>5, <2>1, <1>n DEF Execute, money, table
  <2>2. CASE /\ \E status \in Statuses, spent \in SpentOf(signal.cost) :
                   signal' = [signal EXCEPT !.status = status, !.spent = spent]
             /\ GoTo(Loop, "log") /\ UNCHANGED hands
    <3>1. PICK status \in Statuses, spent \in SpentOf(signal.cost) :
             signal' = [signal EXCEPT !.status = status, !.spent = spent]
      BY <2>2
    <3>2. spent \in Int
      BY <2>0 DEF SpentOf
    <3>3. signal' \in Signal /\ signal'.action = signal.action
      BY <1>0, <3>1, <3>2 DEF Signal
    <3>. QED
      BY <1>0, <1>5, <2>2, <3>3 DEF Execute, GoTo, Steps, RowInHand, BuyInHand, Buying,
                      money, table, hub, hands, counts
  <2>3. CASE signal.action = "buy" /\ GoTo(Loop, "undo") /\ UNCHANGED <<hands, signal>>
    BY <1>0, <1>5, <2>3 DEF Execute, GoTo, Steps, RowInHand, BuyInHand, Buying,
                      money, table, hub, hands, counts
  <2>. QED
    BY <1>5, <2>1, <2>2, <2>3 DEF Execute
<1>6. CASE Undo
  <2>0. signal.cost \in Int /\ "polymarket" \in Modules /\ 0 \in Int
    BY <1>0 DEF Signal, Modules
  <2>1. Release(portfolio, signal.cost, 0, "polymarket") \in PortfolioState
    BY <2>0, ReleaseType
  <2>. QED
    BY <1>6, <2>1, <1>n DEF Undo, table
<1>7. CASE RecordPrediction
  <2>1. CASE NextMarket
    BY <1>7, <2>1, <1>n DEF RecordPrediction, money, table
  <2>2. CASE GoTo(Loop, "lookup") /\ UNCHANGED <<hands, signal>>
    BY <1>0, <1>7, <2>2 DEF RecordPrediction, GoTo, Steps, RowInHand, BuyInHand, Buying,
                      money, table, hub, hands, counts
  <2>. QED
    BY <1>7, <2>1, <2>2 DEF RecordPrediction
<1>8. CASE LookupRow
  <2>1. CASE NextMarket
    BY <1>8, <2>1, <1>n DEF LookupRow, money, table
  <2>2. ASSUME NEW i \in Existing,
               row' = [row EXCEPT ![Loop] = i],
               copy' = [copy EXCEPT ![Loop][i] = book[i].capital],
               GoTo(Loop, IF signal.action = "buy" THEN "merge" ELSE "release"),
               UNCHANGED <<cfg, todo, total, signal>>
        PROVE  TypeInv'
    <3>1. i \in Ids /\ book[i].capital \in Int
      BY DEF Existing, Row
    <3>. QED
      BY <1>0, <1>8, <2>2, <3>1 DEF LookupRow, GoTo, Steps, RowInHand, BuyInHand, Buying,
                      money, table, hub, counts
  <2>3. CASE GoTo(Loop, "insert") /\ signal.action = "buy" /\ UNCHANGED <<hands, signal>>
    BY <1>0, <1>8, <2>3 DEF LookupRow, GoTo, Steps, RowInHand, BuyInHand, Buying,
                      money, table, hub, hands, counts
  <2>. QED
    BY <1>8, <2>1, <2>2, <2>3 DEF LookupRow
<1>9. CASE MergeRow
  <2>1. row[Loop] \in Ids /\ copy[Loop][row[Loop]] + signal.spent \in Int
    BY <1>0, <1>9 DEF MergeRow, RowInHand, Signal
  <2>2. book' \in [Ids -> Row]
    <3>0. book[row[Loop]] \in Row
      BY <2>1
    <3>1. ASSUME NEW r \in Row, NEW x \in Int PROVE [r EXCEPT !.capital = x] \in Row
      BY DEF Row
    <3>2. [book[row[Loop]] EXCEPT !.capital = copy[Loop][row[Loop]] + signal.spent] \in Row
      BY <3>0, <3>1, <2>1
    <3>. QED
      BY <1>9, <2>1, <3>2 DEF MergeRow
  <2>3. unpriced' \in SUBSET Ids
    BY <1>9, <2>1 DEF MergeRow
  <2>. QED
    BY <1>9, <2>2, <2>3, NextMarketTyped DEF MergeRow, NextMarket, GoTo, RowInHand, BuyInHand, Buying, Actors,
                      money, hub, counts
<1>10. CASE InsertRow
  <2>1. opened < MaxOpened /\ opened' = opened + 1 /\ opened' \in Ids /\ opened' \in 0 .. MaxOpened
    BY <1>10, BoundAssumption DEF InsertRow, BuyInHand, Buying, Ids
  <2>2. [market |-> signal.market, side |-> signal.side, capital |-> signal.spent] \in Row
    BY <1>0 DEF Signal, Row
  <2>3. book' \in [Ids -> Row] /\ open' \in SUBSET Ids
    BY <1>10, <2>1, <2>2 DEF InsertRow
  <2>. QED
    BY <1>10, <2>1, <2>3, NextMarketTyped DEF InsertRow, NextMarket, GoTo, RowInHand, BuyInHand, Buying, Actors,
                      money, hub, counts
<1>. QED
  <2>. HIDE DEF TypeInv, TypeOK
  <2>. QED
    BY <1>1, <1>2, <1>3, <1>4, <1>5, <1>6, <1>7, <1>8, <1>9, <1>10 DEF ProcessMarket

(* And those of update_prediction_prices.                                  *)
LEMMA PricesTyped ==
  ASSUME TypeInv, UpdatePredictionPrices
  PROVE  TypeInv'
<1>. USE DEF TypeInv, TypeOK
<1>0. Loop \in Actors
  BY DEF Actors
<1>r. ASSUME Return(Loop), unpriced' \in SUBSET Ids,
             UNCHANGED <<money, open, book, opened, hub, ticks, counts>>
      PROVE  TypeInv'
  BY <1>0, <1>r, ReturnTyped DEF Return, GoTo, RowInHand, BuyInHand, Buying, Actors,
                                 money, hub, ticks, counts
<1>1. CASE ReadPrices
  BY <1>0, <1>1 DEF ReadPrices, GoTo, Steps, RowInHand, BuyInHand, Buying, money, table, hub, ticks, counts
<1>2. ASSUME NEW i \in Ids, PriceRow(i) PROVE TypeInv'
  <2>1. CASE Return(Loop)
    BY <1>2, <2>1, <1>r DEF PriceRow, table
  <2>2. CASE /\ row' = [row EXCEPT ![Loop] = i] /\ GoTo(Loop, "price")
             /\ UNCHANGED <<cfg, todo, copy, total>>
    BY <1>0, <1>2, <2>2 DEF PriceRow, GoTo, Steps, RowInHand, BuyInHand, Buying,
                            money, table, hub, ticks, counts
  <2>. QED
    BY <1>2, <2>1, <2>2 DEF PriceRow
<1>3. CASE UpdatePrice
  <2>1. CASE Return(Loop) /\ UNCHANGED unpriced
    BY <1>3, <2>1, <1>r DEF UpdatePrice
  <2>2. CASE /\ unpriced' = unpriced \ {row[Loop]}
             /\ todo' = [todo EXCEPT ![Loop] = @ \ {row[Loop]}]
             /\ row' = [row EXCEPT ![Loop] = 0]
             /\ GoTo(Loop, "prices")
             /\ UNCHANGED <<cfg, copy, total>>
    BY <1>0, <1>3, <2>2 DEF UpdatePrice, GoTo, Steps, RowInHand, BuyInHand, Buying,
                            money, hub, ticks, counts
  <2>. QED
    BY <1>3, <2>1, <2>2 DEF UpdatePrice
<1>4. CASE TickDone
  BY <1>4, <1>r DEF TickDone, table
<1>. QED
  <2>. HIDE DEF TypeInv, TypeOK
  <2>. QED
    BY <1>1, <1>2, <1>3, <1>4 DEF UpdatePredictionPrices

(* Every step of the specification keeps the types.                        *)
LEMMA TypeStep == TypeInv /\ [Next]_vars => TypeInv'
<1>. SUFFICES ASSUME TypeInv, [Next]_vars PROVE TypeInv'
  OBVIOUS
<1>. USE DEF TypeInv, TypeOK
<1>0. Loop \in Actors
  BY DEF Actors
<1>1. CASE LoopSettingsChanged
  BY <1>0, <1>1 DEF LoopSettingsChanged, GoTo, Steps, RowInHand, BuyInHand, Buying, money, table, ticks, counts
<1>2. CASE LoopTimer
  BY <1>0, <1>2 DEF LoopTimer, GoTo, Steps, RowInHand, BuyInHand, Buying, money, table, hub, counts
<1>3. CASE ProcessMarket
  BY <1>3, ProcessMarketTyped
<1>4. CASE UpdatePredictionPrices
  BY <1>4, PricesTyped
<1>5. ASSUME NEW a \in Actors, Reevaluate(a) PROVE TypeInv'
  BY <1>5, ReevaluateTyped
<1>6. ASSUME NEW h \in Handlers, NEW l \in LimitPushes, UpdateSettings(h, l) PROVE TypeInv'
  <2>1. h \in Actors /\ h # Loop /\ l \in Int
    BY ActorAssumption, MoneyAssumption DEF Actors
  <2>. QED
    BY <1>0, <1>6, <2>1, BoundAssumption
       DEF UpdateSettings, GoTo, Steps, RowInHand, BuyInHand, Buying, money, table, ticks
<1>7. ASSUME NEW a \in Actors, DatabaseFails(a) PROVE TypeInv'
  <2>1. faults' \in 0 .. MaxFaults
    BY <1>7, BoundAssumption DEF DatabaseFails
  <2>2. CASE NextMarket
    BY <1>7, <2>1, <2>2, NextMarketTyped
       DEF DatabaseFails, NextMarket, GoTo, RowInHand, BuyInHand, Buying, Actors, money, table, hub
  <2>3. CASE Return(a) /\ UNCHANGED signal
    BY <1>7, <2>1, <2>3, ReturnTyped
       DEF DatabaseFails, Return, GoTo, RowInHand, BuyInHand, Buying, Actors, money, table, hub
  <2>. QED
    BY <1>7, <2>2, <2>3 DEF DatabaseFails
<1>8. CASE PersistSnapshot
  BY <1>8 DEF PersistSnapshot, RowInHand, BuyInHand, Buying, table, hub, hands, ticks, counts
<1>9. CASE Restart
  BY <1>0, <1>9, NoSignalType, MoneyAssumption, BoundAssumption
     DEF Restart, Steps, NoCopy, RowInHand, BuyInHand, Buying, table
<1>10. CASE UNCHANGED vars
  BY <1>10 DEF vars, RowInHand, BuyInHand, Buying, money, table, hub, hands, ticks, counts
<1>. QED
  <2>. HIDE DEF TypeInv, TypeOK
  <2>. QED
    BY <1>0, <1>1, <1>2, <1>3, <1>4, <1>5, <1>6, <1>7, <1>8, <1>9, <1>10
       DEF Next, LoopStep, HandlerStep, Actors

(* Every variable of the Polymarket side keeps its type, whatever the loop, *)
(* the handlers, failing statements and restarts do: in particular a row   *)
(* is only written while one is in hand, and no row is inserted without a  *)
(* free id (RunPredictions, reevaluate_predictions).                       *)
THEOREM TypeCorrect == Spec => []TypeOK
<1>1. TypeInv => TypeOK
  BY DEF TypeInv
<1>. QED
  BY InitType, TypeStep, <1>1, PTL DEF Spec

-----------------------------------------------------------------------------
(* What check_exposure promises.                                           *)

\* The steps after check_exposure.
Checked == {"reserve", "order", "undo", "log", "lookup", "merge", "insert"}

\* The rows of the table have ids that were given out, and no amount is negative.
AmountsOK ==
    /\ open \subseteq 1 .. opened
    /\ \A i \in Ids : book[i].capital >= 0
    /\ signal.cost >= 0

\* What check_exposure saw still holds when the row is written: handlers and faults
\* only take rows away, and the row that is merged into is as it was read.
CheckedInv ==
    /\ step[Loop] \in Checked =>
          /\ Exposure(open) + signal.cost <= cfg[Loop]
          /\ 3 * (Exposure(InMarket(signal.market)) + signal.cost) <= cfg[Loop]
    /\ step[Loop] \in {"log", "lookup", "merge", "insert"} =>
          0 <= signal.spent /\ signal.spent <= signal.cost
    /\ step[Loop] = "merge" =>
          /\ book[row[Loop]].market = signal.market
          /\ copy[Loop][row[Loop]] = book[row[Loop]].capital

LimitInv == TypeInv /\ AmountsOK /\ CheckedInv

(* Closing rows lowers the exposure, in all markets together and in each.  *)
LEMMA Shrinks ==
  ASSUME TypeOK, AmountsOK, open' \subseteq open, book' = book
  PROVE  /\ Exposure(open)' \in Int /\ Exposure(open) \in Int
         /\ Exposure(open)' <= Exposure(open)
         /\ \A m : /\ Exposure(InMarket(m))' \in Int /\ Exposure(InMarket(m)) \in Int
                  /\ Exposure(InMarket(m))' <= Exposure(InMarket(m))
<1>1. ASSUME NEW rows \in SUBSET Ids
      PROVE  IsFiniteSet(rows) /\ \A i \in rows : CapitalOf[i] \in Int /\ CapitalOf[i] >= 0
  BY <1>1, ExposureType DEF TypeOK, AmountsOK, CapitalOf, Row
<1>2. ASSUME NEW rows \in SUBSET Ids, NEW less \in SUBSET rows
      PROVE  /\ Total(CapitalOf, less) \in Int /\ Total(CapitalOf, rows) \in Int
             /\ Total(CapitalOf, less) <= Total(CapitalOf, rows)
  <2>1. less \in SUBSET Ids
    BY <1>2
  <2>2. Total(CapitalOf, less) \in Int /\ Total(CapitalOf, rows) \in Int
    BY <2>1, ExposureType DEF Exposure
  <2>. QED
    BY <1>1, <1>2, <2>2, TotalSubset
<1>3. CapitalOf' = CapitalOf
  BY DEF CapitalOf
<1>4. open \in SUBSET Ids
  BY DEF TypeOK
<1>5. ASSUME NEW m PROVE InMarket(m) \in SUBSET Ids /\ InMarket(m)' \in SUBSET InMarket(m)
  BY <1>4 DEF InMarket
<1>. QED
  BY <1>2, <1>3, <1>4, <1>5 DEF Exposure

(* Writing one row, new or not, that has the capital of an order more than *)
(* before raises the exposure of its market by that much, the exposure of  *)
(* all together by that much, and that of no other market.                 *)
LEMMA Grows ==
  ASSUME TypeOK, TypeOK', NEW r \in Ids, NEW market, NEW spent \in Int,
         open' = open \cup {r},
         \A i \in Ids \ {r} : book'[i] = book[i],
         r \in open => book[r].market = market,
         book'[r].market = market,
         book'[r].capital = (IF r \in open THEN book[r].capital ELSE 0) + spent
  PROVE  /\ Exposure(open)' = Exposure(open) + spent
         /\ Exposure(InMarket(market))' = Exposure(InMarket(market)) + spent
         /\ \A m : m # market => Exposure(InMarket(m))' = Exposure(InMarket(m))
<1>0. open \in SUBSET Ids /\ book \in [Ids -> Row] /\ book' \in [Ids -> Row]
  BY DEF TypeOK
<1>1. ASSUME NEW rows \in SUBSET Ids
      PROVE  IsFiniteSet(rows) /\ \A i \in rows : CapitalOf[i] \in Int
  BY <1>0, <1>1, ExposureType DEF CapitalOf, Row
<1>2. /\ CapitalOf'[r] \in Int
      /\ \A i \in Ids \ {r} : CapitalOf'[i] = CapitalOf[i]
      /\ CapitalOf[r] = book[r].capital /\ CapitalOf'[r] = book'[r].capital
  BY <1>0 DEF CapitalOf, Row
<1>3. ASSUME NEW rows, rows \subseteq Ids, r \in open <=> r \in rows
      PROVE  Total(CapitalOf', rows \cup {r}) = Total(CapitalOf, rows) + spent
  <2>1. /\ r \in rows => CapitalOf'[r] = CapitalOf[r] + spent
        /\ r \notin rows => CapitalOf'[r] = spent
    BY <1>2, <1>3
  <2>2. \A i \in rows \ {r} : CapitalOf'[i] = CapitalOf[i]
    BY <1>2, <1>3
  <2>3. IsFiniteSet(rows) /\ (\A i \in rows : CapitalOf[i] \in Int) /\ CapitalOf'[r] \in Int
    BY <1>1, <1>2, <1>3
  <2>4. Total(CapitalOf, rows) \in Int
    BY <2>3, TotalType
  <2>5. CASE r \in rows
    <3>1. Total(CapitalOf', rows) = Total(CapitalOf, rows) - CapitalOf[r] + CapitalOf'[r]
      BY <2>2, <2>3, <2>5, TotalUpdate
    <3>2. rows \cup {r} = rows /\ CapitalOf[r] \in Int
      BY <2>3, <2>5
    <3>3. Total(CapitalOf', rows \cup {r}) = Total(CapitalOf', rows)
      BY <3>2
    <3>4. CapitalOf'[r] = CapitalOf[r] + spent
      BY <2>1, <2>5
    <3>. QED
      BY <2>4, <3>1, <3>2, <3>3, <3>4
  <2>6. CASE r \notin rows
    <3>1. \A i \in rows \cup {r} : CapitalOf'[i] \in Int
      BY <2>2, <2>3, <2>6
    <3>2. Total(CapitalOf', rows \cup {r}) = CapitalOf'[r] + Total(CapitalOf', rows)
      BY <2>3, <2>6, <3>1, TotalAdd
    <3>3. Total(CapitalOf, rows) = Total(CapitalOf', rows)
      BY <2>2, <2>3, <2>6, TotalSame
    <3>. QED
      BY <2>1, <2>4, <2>6, <3>2, <3>3
  <2>. QED
    BY <2>5, <2>6
<1>4. InMarket(market) \in SUBSET Ids /\ (r \in open <=> r \in InMarket(market))
  BY <1>0 DEF InMarket
<1>5. InMarket(market)' = InMarket(market) \cup {r}
  BY <1>0 DEF InMarket
<1>6. ASSUME NEW m, m # market
      PROVE  Total(CapitalOf', InMarket(m)') = Total(CapitalOf, InMarket(m))
  <2>1. InMarket(m) \in SUBSET Ids /\ InMarket(m)' = InMarket(m) /\ r \notin InMarket(m)
    BY <1>0, <1>6 DEF InMarket
  <2>2. \A i \in InMarket(m) : CapitalOf'[i] = CapitalOf[i]
    BY <1>2, <2>1
  <2>. QED
    BY <1>1, <2>1, <2>2, TotalSame
<1>. QED
  BY <1>0, <1>3, <1>4, <1>5, <1>6 DEF Exposure

(* The initial state, with nothing open and nothing checked.               *)
LEMMA InitLimit == Init => LimitInv
<1>. SUFFICES ASSUME Init PROVE LimitInv
  OBVIOUS
<1>1. TypeInv
  BY InitType
<1>2. signal.cost = 0 /\ \A i \in Ids : book[i].capital = 0
  BY DEF Init, NoSignal, NoRow
<1>. QED
  BY <1>1, <1>2 DEF Init, LimitInv, AmountsOK, CheckedInv, Checked, Actors

(* Whoever leaves the checked signal and the loop's limit alone, and takes  *)
(* rows away, or none, leaves what was checked as it was.                  *)
LEMMA LimitKept ==
  ASSUME LimitInv, TypeInv', open' \subseteq open, UNCHANGED <<book, opened>>,
         signal'.market = signal.market, signal'.cost = signal.cost,
         cfg'[Loop] = cfg[Loop],
         step'[Loop] \in Checked => step[Loop] \in Checked,
         step'[Loop] \in {"log", "lookup", "merge", "insert"} =>
            0 <= signal'.spent /\ signal'.spent <= signal.cost,
         step'[Loop] = "merge" =>
            /\ book[row'[Loop]].market = signal.market
            /\ copy'[Loop][row'[Loop]] = book[row'[Loop]].capital
  PROVE  LimitInv'
<1>0. TypeInv /\ TypeOK /\ AmountsOK /\ CheckedInv /\ TypeOK'
  BY DEF LimitInv, TypeInv
<1>1. /\ Exposure(open)' \in Int /\ Exposure(open) \in Int
      /\ Exposure(open)' <= Exposure(open)
      /\ \A m : /\ Exposure(InMarket(m))' \in Int /\ Exposure(InMarket(m)) \in Int
               /\ Exposure(InMarket(m))' <= Exposure(InMarket(m))
  BY <1>0, Shrinks
<1>2. signal.cost \in Int /\ cfg[Loop] \in Int
  BY <1>0 DEF TypeOK, Signal, Actors
<1>3. AmountsOK'
  BY <1>0 DEF AmountsOK
<1>4. CheckedInv'
  BY <1>0, <1>1, <1>2 DEF CheckedInv
<1>. QED
  BY <1>3, <1>4 DEF LimitInv

(* Nothing is claimed of a loop that has nothing in hand that was checked. *)
LEMMA LimitLeaves ==
  ASSUME TypeInv', AmountsOK', step'[Loop] \notin Checked
  PROVE  LimitInv'
BY DEF LimitInv, CheckedInv, Checked

(* Handlers, faults and the rest of the loop, when they close rows or none. *)
LEMMA LimitElsewhere ==
  ASSUME LimitInv, TypeInv', open' \subseteq open, UNCHANGED <<book, opened>>,
         \/ /\ UNCHANGED signal
            /\ step'[Loop] = step[Loop] /\ cfg'[Loop] = cfg[Loop]
            /\ copy'[Loop] = copy[Loop] /\ row'[Loop] = row[Loop]
         \/ step'[Loop] \notin Checked /\ signal'.cost >= 0
  PROVE  LimitInv'
<1>1. CASE step'[Loop] \notin Checked /\ signal'.cost >= 0
  <2>1. AmountsOK'
    BY <1>1 DEF LimitInv, AmountsOK
  <2>. QED
    BY <1>1, <2>1, LimitLeaves
<1>2. CASE /\ UNCHANGED signal
           /\ step'[Loop] = step[Loop] /\ cfg'[Loop] = cfg[Loop]
           /\ copy'[Loop] = copy[Loop] /\ row'[Loop] = row[Loop]
  <2>1. CheckedInv
    BY DEF LimitInv
  <2>. QED
    BY <1>2, <2>1, LimitKept DEF CheckedInv
<1>. QED
  BY <1>1, <1>2

(* Every step keeps the limits of a signal that was checked.               *)
LEMMA LimitStep == LimitInv /\ [Next]_vars => LimitInv'
<1>. SUFFICES ASSUME LimitInv, [Next]_vars PROVE LimitInv'
  OBVIOUS
<1>0. TypeInv' /\ TypeInv /\ TypeOK /\ AmountsOK /\ CheckedInv
  BY TypeStep DEF LimitInv, TypeInv
<1>1. Loop \in Actors /\ signal \in Signal /\ NoSignal.cost = 0 /\ Loop \in DOMAIN step /\ signal.cost \in Int /\ signal.cost >= 0
  BY <1>0 DEF Actors, TypeOK, Signal, NoSignal, AmountsOK
<1>n. ASSUME NextMarket, open' \subseteq open, UNCHANGED <<book, opened>> PROVE LimitInv'
  BY <1>0, <1>1, <1>n, LimitElsewhere DEF NextMarket, GoTo, Checked, TypeOK
<1>r. ASSUME NEW a \in Actors, Return(a), UNCHANGED <<open, book, opened, signal>> PROVE LimitInv'
  BY <1>0, <1>1, <1>r, LimitElsewhere DEF Return, GoTo, Checked, TypeOK
<1>2. ASSUME NEW a \in Actors, Reevaluate(a) PROVE LimitInv'
  <2>1. CASE ReadPredictions(a)
    BY <1>0, <1>1, <2>1, LimitElsewhere DEF ReadPredictions, GoTo, Checked, TypeOK, table, ticks
  <2>2. ASSUME NEW i \in Ids, ForceClose(a, i) PROVE LimitInv'
    BY <1>0, <1>1, <2>2, LimitElsewhere DEF ForceClose, GoTo, Checked, TypeOK, table, ticks
  <2>3. ASSUME NEW i \in Ids, ForceCloseRejected(a, i) PROVE LimitInv'
    BY <1>0, <1>1, <2>3, LimitElsewhere DEF ForceCloseRejected, GoTo, Checked, TypeOK, table, ticks
  <2>4. CASE ReleaseCapital(a)
    BY <1>0, <1>1, <2>4, LimitElsewhere DEF ReleaseCapital, GoTo, Checked, TypeOK, table, ticks, hands
  <2>5. CASE DeleteRow(a)
    <3>1. open' \subseteq open /\ UNCHANGED <<book, opened>>
      BY <2>5 DEF DeleteRow
    <3>2. CASE NextMarket
      BY <1>n, <3>1, <3>2
    <3>3. CASE GoTo(a, "record") /\ UNCHANGED <<hands, signal>>
      BY <1>0, <1>1, <2>5, <3>1, <3>3, LimitElsewhere DEF DeleteRow, GoTo, Checked, TypeOK, hands
    <3>. QED
      BY <2>5, <3>2, <3>3 DEF DeleteRow
  <2>6. CASE RecordClose(a)
    BY <1>0, <1>1, <2>6, LimitElsewhere DEF RecordClose, GoTo, Checked, TypeOK, table, ticks
  <2>7. CASE ReevaluateDone(a)
    BY <2>7, <1>r DEF ReevaluateDone, table, ticks
  <2>. QED
    BY <1>2, <2>1, <2>2, <2>3, <2>4, <2>5, <2>6, <2>7 DEF Reevaluate
<1>3. CASE LoopSettingsChanged
  BY <1>0, <1>1, <1>3, LimitElsewhere DEF LoopSettingsChanged, GoTo, Checked, TypeOK, table, ticks
<1>4. CASE LoopTimer
  BY <1>0, <1>1, <1>4, LimitElsewhere DEF LoopTimer, GoTo, Checked, TypeOK, table
<1>5. CASE ProcessMarket
  <2>1. ASSUME NEW m \in Markets, MarketHold(m) PROVE LimitInv'
    BY <1>0, <1>1, <2>1, LimitElsewhere DEF MarketHold, table, hands
  <2>2. ASSUME NEW m \in Markets, MarketSignal(m) PROVE LimitInv'
    <3>1. signal'.cost >= 0
      BY <2>2, MoneyAssumption DEF MarketSignal, NoSignal
    <3>. QED
      BY <1>0, <1>1, <2>2, <3>1, LimitElsewhere DEF MarketSignal, GoTo, Checked, TypeOK, table
  <2>3. CASE CheckExposure
    <3>1. CASE NextMarket
      BY <2>3, <3>1, <1>n DEF CheckExposure, table
    <3>2. CASE /\ WithinExposure
               /\ GoTo(Loop, IF signal.action = "buy" THEN "reserve" ELSE "order")
               /\ UNCHANGED <<hands, signal>>
      <4>1. step'[Loop] \in {"reserve", "order"} /\ cfg' = cfg
        BY <1>0, <1>1, <3>2 DEF GoTo, TypeOK, hands
      <4>2. AmountsOK'
        BY <1>0, <2>3, <3>2 DEF AmountsOK, CheckExposure, table
      <4>3. Exposure(open)' = Exposure(open)
            /\ Exposure(InMarket(signal.market))' = Exposure(InMarket(signal.market))
        BY <2>3, <3>2 DEF CheckExposure, table, Exposure, CapitalOf, InMarket
      <4>4. CheckedInv'
        BY <3>2, <4>1, <4>3 DEF CheckedInv, WithinExposure
      <4>. QED
        BY <1>0, <4>2, <4>4 DEF LimitInv
    <3>. QED
      BY <2>3, <3>1, <3>2 DEF CheckExposure
  <2>4. CASE ReserveFunds
    <3>1. CASE NextMarket
      BY <2>4, <3>1, <1>n DEF ReserveFunds, table
    <3>2. CASE GoTo(Loop, "order") /\ UNCHANGED <<hands, signal>>
      BY <1>0, <1>1, <2>4, <3>2, LimitKept DEF ReserveFunds, GoTo, Checked, TypeOK, table, hands
    <3>. QED
      BY <2>4, <3>1, <3>2 DEF ReserveFunds
  <2>5. CASE Execute
    <3>1. CASE NextMarket
      BY <2>5, <3>1, <1>n DEF Execute, table
    <3>2. CASE GoTo(Loop, "undo") /\ UNCHANGED <<hands, signal>>
      BY <1>0, <1>1, <2>5, <3>2, LimitKept DEF Execute, GoTo, Checked, TypeOK, table, hands
    <3>3. CASE /\ \E status \in Statuses, spent \in SpentOf(signal.cost) :
                     signal' = [signal EXCEPT !.status = status, !.spent = spent]
               /\ GoTo(Loop, "log") /\ UNCHANGED hands
      <4>1. PICK status \in Statuses, spent \in SpentOf(signal.cost) :
               signal' = [signal EXCEPT !.status = status, !.spent = spent]
        BY <3>3
      <4>2. 0 <= spent /\ spent <= signal.cost
        BY <1>1 DEF SpentOf
      <4>3. /\ signal'.market = signal.market /\ signal'.cost = signal.cost
            /\ 0 <= signal'.spent /\ signal'.spent <= signal.cost
        BY <1>1, <4>1, <4>2 DEF Signal
      <4>. QED
        BY <1>0, <1>1, <2>5, <3>3, <4>3, LimitKept DEF Execute, GoTo, Checked, TypeOK, table, hands
    <3>. QED
      BY <2>5, <3>1, <3>2, <3>3 DEF Execute
  <2>6. CASE Undo
    BY <2>6, <1>n DEF Undo, table
  <2>7. CASE RecordPrediction
    <3>1. CASE NextMarket
      BY <2>7, <3>1, <1>n DEF RecordPrediction, table
    <3>2. CASE GoTo(Loop, "lookup") /\ UNCHANGED <<hands, signal>>
      BY <1>0, <1>1, <2>7, <3>2, LimitKept DEF RecordPrediction, GoTo, Checked, CheckedInv, TypeOK, table, hands
    <3>. QED
      BY <2>7, <3>1, <3>2 DEF RecordPrediction
  <2>8. CASE LookupRow
    <3>1. CASE NextMarket
      BY <2>8, <3>1, <1>n DEF LookupRow, table
    <3>2. CASE GoTo(Loop, "insert") /\ UNCHANGED <<hands, signal>>
      BY <1>0, <1>1, <2>8, <3>2, LimitKept DEF LookupRow, GoTo, Checked, CheckedInv, TypeOK, table, hands
    <3>3. ASSUME NEW i \in Existing,
                 row' = [row EXCEPT ![Loop] = i],
                 copy' = [copy EXCEPT ![Loop][i] = book[i].capital],
                 GoTo(Loop, IF signal.action = "buy" THEN "merge" ELSE "release"),
                 UNCHANGED <<cfg, todo, total, signal>>
          PROVE  LimitInv'
      <4>1. i \in Ids /\ book[i].market = signal.market
        BY <1>0 DEF Existing, TypeOK
      <4>2. row'[Loop] = i /\ copy'[Loop][i] = book[i].capital /\ step'[Loop] \in {"merge", "release"}
        BY <1>0, <1>1, <3>3, <4>1 DEF GoTo, TypeOK
      <4>. QED
        BY <1>0, <1>1, <2>8, <3>3, <4>1, <4>2, LimitKept DEF LookupRow, Checked, CheckedInv, table
    <3>. QED
      BY <2>8, <3>1, <3>2, <3>3 DEF LookupRow
  <2>9. CASE MergeRow
    <3>0. NextMarket /\ step'[Loop] = "market" /\ open' = open /\ opened' = opened
      BY <1>0, <1>1, <2>9 DEF MergeRow, NextMarket, GoTo, TypeOK
    <3>1. row[Loop] \in Ids /\ book \in [Ids -> Row]
      BY <1>0, <1>1, <2>9 DEF MergeRow, TypeInv, RowInHand, TypeOK
    <3>2. copy[Loop][row[Loop]] = book[row[Loop]].capital /\ signal.spent \in Int /\ signal.spent >= 0
      BY <1>0, <1>1, <2>9 DEF MergeRow, CheckedInv, Signal
    <3>3. book[row[Loop]].capital \in Int /\ book[row[Loop]].capital >= 0
      BY <1>0, <3>1 DEF Row, AmountsOK
    <3>4. \A i \in Ids : book'[i].capital >= 0
      BY <1>0, <2>9, <3>1, <3>2, <3>3 DEF MergeRow, AmountsOK, Row
    <3>5. AmountsOK'
      BY <1>0, <1>1, <3>0, <3>4 DEF AmountsOK, NextMarket
    <3>. QED
      BY <1>0, <3>0, <3>5, LimitLeaves DEF Checked
  <2>10. CASE InsertRow
    <3>0. NextMarket /\ step'[Loop] = "market"
      BY <1>0, <1>1, <2>10 DEF InsertRow, NextMarket, GoTo, TypeOK
    <3>1. signal.spent \in Int /\ signal.spent >= 0
      BY <1>0, <1>1, <2>10 DEF InsertRow, CheckedInv, Signal
    <3>2. \A i \in Ids : book'[i].capital >= 0
      BY <1>0, <2>10, <3>1 DEF InsertRow, AmountsOK, TypeOK
    <3>3. open' \subseteq 1 .. opened'
      BY <1>0, <2>10 DEF InsertRow, AmountsOK, TypeOK
    <3>5. AmountsOK'
      BY <1>0, <1>1, <3>0, <3>2, <3>3 DEF AmountsOK, NextMarket
    <3>. QED
      BY <1>0, <3>0, <3>5, LimitLeaves DEF Checked
  <2>. QED
    BY <1>5, <2>1, <2>2, <2>3, <2>4, <2>5, <2>6, <2>7, <2>8, <2>9, <2>10 DEF ProcessMarket
<1>6. CASE UpdatePredictionPrices
  <2>1. CASE ReadPrices
    BY <1>0, <1>1, <2>1, LimitElsewhere DEF ReadPrices, GoTo, Checked, TypeOK, table, ticks
  <2>2. ASSUME NEW i \in Ids, PriceRow(i) PROVE LimitInv'
    <3>1. CASE Return(Loop)
      BY <1>1, <2>2, <3>1, <1>r DEF PriceRow, table, ticks
    <3>2. CASE GoTo(Loop, "price")
      BY <1>0, <1>1, <2>2, <3>2, LimitElsewhere DEF PriceRow, GoTo, Checked, TypeOK, table, ticks
    <3>. QED
      BY <2>2, <3>1, <3>2 DEF PriceRow
  <2>3. CASE UpdatePrice
    <3>1. CASE Return(Loop)
      BY <1>1, <2>3, <3>1, <1>r DEF UpdatePrice, ticks
    <3>2. CASE GoTo(Loop, "prices")
      BY <1>0, <1>1, <2>3, <3>2, LimitElsewhere DEF UpdatePrice, GoTo, Checked, TypeOK, ticks
    <3>. QED
      BY <2>3, <3>1, <3>2 DEF UpdatePrice
  <2>4. CASE TickDone
    BY <1>1, <2>4, <1>r DEF TickDone, table, ticks
  <2>. QED
    BY <1>6, <2>1, <2>2, <2>3, <2>4 DEF UpdatePredictionPrices
<1>7. ASSUME NEW h \in Handlers, NEW l \in LimitPushes, UpdateSettings(h, l) PROVE LimitInv'
  <2>1. h \in Actors /\ h # Loop
    BY ActorAssumption DEF Actors
  <2>. QED
    BY <1>0, <1>1, <1>7, <2>1, LimitElsewhere DEF UpdateSettings, GoTo, TypeOK, table, ticks
<1>8. ASSUME NEW a \in Actors, DatabaseFails(a) PROVE LimitInv'
  BY <1>8, <1>n, <1>r DEF DatabaseFails, table
<1>9. CASE PersistSnapshot
  BY <1>0, <1>1, <1>9, LimitElsewhere DEF PersistSnapshot, table, hands, ticks
<1>10. CASE Restart
  BY <1>0, <1>1, <1>10, LimitElsewhere DEF Restart, Checked, table
<1>11. CASE UNCHANGED vars
  BY <1>0, <1>1, <1>11, LimitElsewhere DEF vars, table, hands, ticks
<1>. QED
  BY <1>1, <1>2, <1>3, <1>4, <1>5, <1>6, <1>7, <1>8, <1>9, <1>10, <1>11
     DEF Next, LoopStep, HandlerStep, Actors

(* Rows are written by an order that was filled, and taken away else.      *)
LEMMA OnlyOrdersWrite ==
  ASSUME [Next]_vars
  PROVE  \/ open' \subseteq open /\ UNCHANGED <<book, opened>>
         \/ MergeRow /\ row[Loop] \in open
         \/ InsertRow
<1>1. ASSUME NEW a, Reevaluate(a) PROVE open' \subseteq open /\ UNCHANGED <<book, opened>>
  BY <1>1 DEF Reevaluate, ReadPredictions, ForceClose, ForceCloseRejected, ReleaseCapital,
              DeleteRow, RecordClose, ReevaluateDone, table
<1>2. CASE LoopSettingsChanged \/ LoopTimer \/ UpdatePredictionPrices
  BY <1>2 DEF LoopSettingsChanged, LoopTimer, UpdatePredictionPrices, ReadPrices, PriceRow,
              UpdatePrice, TickDone, table
<1>3. CASE ProcessMarket
  BY <1>3 DEF ProcessMarket, MarketHold, MarketSignal, CheckExposure, ReserveFunds, Execute,
              Undo, RecordPrediction, LookupRow, MergeRow, table
<1>4. ASSUME NEW h, NEW l, UpdateSettings(h, l) PROVE open' = open /\ UNCHANGED <<book, opened>>
  BY <1>4 DEF UpdateSettings, table
<1>5. ASSUME NEW a, DatabaseFails(a) PROVE open' = open /\ UNCHANGED <<book, opened>>
  BY <1>5 DEF DatabaseFails, table
<1>6. CASE PersistSnapshot \/ Restart \/ UNCHANGED vars
  BY <1>6 DEF PersistSnapshot, Restart, vars, table
<1>. QED
  BY <1>1, <1>2, <1>3, <1>4, <1>5, <1>6 DEF Next, LoopStep, HandlerStep

(* Writing a row raises the exposure of its market, and that of all, by    *)
(* what the order has spent, which is no more than what was checked.       *)
LEMMA WriteStep ==
  ASSUME LimitInv, LimitInv', (MergeRow /\ row[Loop] \in open) \/ InsertRow
  PROVE  \E market, spent :
            /\ market = signal.market
            /\ spent = signal.spent /\ spent \in Int /\ 0 <= spent /\ spent <= signal.cost
            /\ Exposure(open)' = Exposure(open) + spent
            /\ Exposure(InMarket(market))' = Exposure(InMarket(market)) + spent
            /\ \A m : m # market => Exposure(InMarket(m))' = Exposure(InMarket(m))
<1>0. TypeInv /\ TypeOK /\ TypeOK' /\ AmountsOK /\ CheckedInv /\ Loop \in Actors
  BY DEF LimitInv, TypeInv, Actors
<1>1. signal.spent \in Int /\ 0 <= signal.spent /\ signal.spent <= signal.cost
  BY <1>0 DEF TypeOK, Signal, MergeRow, InsertRow, CheckedInv
<1>2. ASSUME NEW r \in Ids, open' = open \cup {r},
             \A i \in Ids \ {r} : book'[i] = book[i],
             r \in open => book[r].market = signal.market,
             book'[r].market = signal.market,
             book'[r].capital = (IF r \in open THEN book[r].capital ELSE 0) + signal.spent
      PROVE  \E market, spent :
                /\ market = signal.market
                /\ spent = signal.spent /\ spent \in Int /\ 0 <= spent /\ spent <= signal.cost
                /\ Exposure(open)' = Exposure(open) + spent
                /\ Exposure(InMarket(market))' = Exposure(InMarket(market)) + spent
                /\ \A m : m # market => Exposure(InMarket(m))' = Exposure(InMarket(m))
  <2>1. PICK market, spent : market = signal.market /\ spent = signal.spent
    OBVIOUS
  <2>2. /\ spent \in Int
        /\ r \in open => book[r].market = market
        /\ book'[r].market = market
        /\ book'[r].capital = (IF r \in open THEN book[r].capital ELSE 0) + spent
    BY <1>1, <1>2, <2>1
  <2>3. /\ Exposure(open)' = Exposure(open) + spent
        /\ Exposure(InMarket(market))' = Exposure(InMarket(market)) + spent
        /\ \A k : k # market => Exposure(InMarket(k))' = Exposure(InMarket(k))
    BY <1>0, <1>2, <2>2, Grows
  <2>. QED
    BY <1>1, <2>1, <2>3
<1>3. CASE MergeRow /\ row[Loop] \in open
  <2>1. /\ row[Loop] \in Ids /\ book \in [Ids -> Row] /\ open' = open
        /\ book[row[Loop]].market = signal.market
        /\ copy[Loop][row[Loop]] = book[row[Loop]].capital
    BY <1>0, <1>3 DEF MergeRow, TypeInv, RowInHand, TypeOK, CheckedInv
  <2>2. book' = [book EXCEPT ![row[Loop]].capital = copy[Loop][row[Loop]] + signal.spent]
    BY <1>3 DEF MergeRow
  <2>3. /\ book'[row[Loop]].market = book[row[Loop]].market
        /\ book'[row[Loop]].capital = copy[Loop][row[Loop]] + signal.spent
        /\ \A i \in Ids \ {row[Loop]} : book'[i] = book[i]
    BY <2>1, <2>2 DEF Row
  <2>4. PICK r : r = row[Loop]
    OBVIOUS
  <2>. QED
    BY <1>2, <1>3, <2>1, <2>3, <2>4
<1>4. CASE InsertRow
  <2>1. PICK r : r = opened + 1
    OBVIOUS
  <2>2. r \in Ids /\ r \notin open /\ book \in [Ids -> Row]
    BY <1>0, <1>4, <2>1 DEF InsertRow, TypeInv, BuyInHand, Buying, TypeOK, AmountsOK, Ids
  <2>3. /\ open' = open \cup {r}
        /\ book' = [book EXCEPT ![r] =
                      [market |-> signal.market, side |-> signal.side, capital |-> signal.spent]]
    BY <1>4, <2>1 DEF InsertRow
  <2>4. /\ book'[r].market = signal.market /\ book'[r].capital = 0 + signal.spent
        /\ \A i \in Ids \ {r} : book'[i] = book[i]
    BY <1>1, <2>2, <2>3
  <2>. QED
    BY <1>2, <2>2, <2>3, <2>4
<1>. QED
  BY <1>3, <1>4

(* A market whose exposure a step raises is within its limits after it.    *)
LEMMA GrowthStep == LimitInv /\ LimitInv' /\ [Next]_vars => GrowsWithinLimits
<1>. SUFFICES ASSUME LimitInv, LimitInv', [Next]_vars, NEW m \in Markets,
                     Exposure(InMarket(m))' > Exposure(InMarket(m))
              PROVE  3 * Exposure(InMarket(m))' <= cfg[Loop] /\ Exposure(open)' <= cfg[Loop]
  BY DEF GrowsWithinLimits
<1>0. TypeOK /\ AmountsOK /\ CheckedInv /\ Loop \in Actors
  BY DEF LimitInv, TypeInv, Actors
<1>1. ASSUME NEW k PROVE Exposure(InMarket(k)) \in Int
  <2>1. InMarket(k) \in SUBSET Ids
    BY <1>0 DEF TypeOK, InMarket
  <2>. QED
    BY <1>0, <2>1, ExposureType
<1>2. ASSUME open' \subseteq open, book' = book PROVE FALSE
  BY <1>0, <1>2, Shrinks
<1>3. CASE (MergeRow /\ row[Loop] \in open) \/ InsertRow
  <2>1. PICK market, spent :
            /\ market = signal.market
            /\ spent = signal.spent /\ spent \in Int /\ 0 <= spent /\ spent <= signal.cost
            /\ Exposure(open)' = Exposure(open) + spent
            /\ Exposure(InMarket(market))' = Exposure(InMarket(market)) + spent
            /\ \A k : k # market => Exposure(InMarket(k))' = Exposure(InMarket(k))
    BY <1>3, WriteStep
  <2>2. /\ Exposure(open) \in Int /\ signal.cost \in Int /\ cfg[Loop] \in Int
        /\ Exposure(open) + signal.cost <= cfg[Loop]
        /\ 3 * (Exposure(InMarket(market)) + signal.cost) <= cfg[Loop]
    BY <1>0, <1>3, <2>1, ExposureType
       DEF CheckedInv, Checked, MergeRow, InsertRow, TypeOK, Signal
  <2>3. m = market
    BY <1>1, <2>1
  <2>. QED
    BY <1>1, <2>1, <2>2, <2>3
<1>. QED
  BY <1>2, <1>3, OnlyOrdersWrite

(* A prediction that grows, whether by a new row or by one merged into,    *)
(* leaves the exposure within max_prediction_exposure, and that of its     *)
(* market within a third of it, as of the settings the tick read: for any  *)
(* number of handlers that re-evaluate meanwhile, any faults and restarts, *)
(* and orders that fill less than they asked for (check_exposure).         *)
THEOREM NeverBeyondExposure == Spec => ExposureBounded
<1>. QED
  BY InitLimit, LimitStep, GrowthStep, PTL DEF Spec, ExposureBounded

-----------------------------------------------------------------------------
(* What the loop's re-evaluation does with the rows it has read.           *)

Reevaluating == {"excess", "release", "delete", "record"}

\* process_market has a signal; so has the sale it may end with; nothing else has.
SignalInv ==
    /\ step[Loop] \in Buying => signal # NoSignal
    /\ step[Loop] \notin Buying \cup {"release", "delete"} => signal = NoSignal

\* While the loop re-evaluates, its copies agree with the rows they were made of,
\* total_exposure is what the rows still to treat add up to, and the row in hand is
\* one of them.
ReadInv ==
    step[Loop] \in Reevaluating /\ signal = NoSignal =>
        /\ \A i \in todo[Loop] : copy[Loop][i] = book[i].capital
        /\ total[Loop] = Total(copy[Loop], todo[Loop])
        /\ step[Loop] # "excess" => row[Loop] \in todo[Loop]

LoopInv == LimitInv /\ SignalInv /\ ReadInv

(* A step that is none of the loop's leaves its hands, and the columns of  *)
(* the rows, alone.                                                        *)
LEMMA Elsewhere ==
  ASSUME TypeOK, [Next]_vars
  PROVE  \/ LoopStep
         \/ DatabaseFails(Loop)
         \/ Restart
         \/ /\ open' \subseteq open
            /\ UNCHANGED <<book, opened, signal>>
            /\ step'[Loop] = step[Loop] /\ cfg'[Loop] = cfg[Loop]
            /\ todo'[Loop] = todo[Loop] /\ copy'[Loop] = copy[Loop]
            /\ total'[Loop] = total[Loop] /\ row'[Loop] = row[Loop]
            /\ faults' \in {faults, faults + 1}
            /\ \/ UNCHANGED <<limit, changed>>
               \/ pushes' = pushes + 1 /\ changed' = TRUE /\ limit' \in LimitPushes
<1>. USE DEF TypeOK
<1>1. ASSUME NEW h \in Handlers PROVE h \in Actors /\ h # Loop /\ Loop \in Actors
  BY ActorAssumption DEF Actors
<1>2. ASSUME NEW h \in Handlers, Reevaluate(h)
      PROVE  /\ open' \subseteq open
             /\ UNCHANGED <<book, opened, signal, limit, changed>>
             /\ step'[Loop] = step[Loop] /\ cfg'[Loop] = cfg[Loop]
             /\ todo'[Loop] = todo[Loop] /\ copy'[Loop] = copy[Loop]
             /\ total'[Loop] = total[Loop] /\ row'[Loop] = row[Loop]
             /\ faults' \in {faults, faults + 1}
  BY <1>1, <1>2 DEF Reevaluate, ReadPredictions, ForceClose, ForceCloseRejected, ReleaseCapital,
              DeleteRow, RecordClose, ReevaluateDone, Return, GoTo, table, hub, hands, ticks, counts
<1>3. ASSUME NEW h \in Handlers, NEW l \in LimitPushes, UpdateSettings(h, l)
      PROVE  /\ open' = open
             /\ UNCHANGED <<book, opened, signal>>
             /\ step'[Loop] = step[Loop] /\ cfg'[Loop] = cfg[Loop]
             /\ todo'[Loop] = todo[Loop] /\ copy'[Loop] = copy[Loop]
             /\ total'[Loop] = total[Loop] /\ row'[Loop] = row[Loop]
             /\ faults' = faults
             /\ pushes' = pushes + 1 /\ changed' = TRUE /\ limit' \in LimitPushes
  BY <1>1, <1>3 DEF UpdateSettings, GoTo, table, ticks
<1>4. ASSUME NEW h \in Handlers, DatabaseFails(h)
      PROVE  /\ open' = open
             /\ UNCHANGED <<book, opened, signal, limit, changed>>
             /\ step'[Loop] = step[Loop] /\ cfg'[Loop] = cfg[Loop]
             /\ todo'[Loop] = todo[Loop] /\ copy'[Loop] = copy[Loop]
             /\ total'[Loop] = total[Loop] /\ row'[Loop] = row[Loop]
             /\ faults' \in {faults, faults + 1}
  BY <1>1, <1>4 DEF DatabaseFails, Return, GoTo, table, hub
<1>5. CASE PersistSnapshot \/ UNCHANGED vars
  BY <1>5 DEF PersistSnapshot, vars, table, hub, hands, ticks, counts
<1>6. \/ LoopStep \/ Restart \/ PersistSnapshot \/ UNCHANGED vars
      \/ DatabaseFails(Loop)
      \/ \E h \in Handlers : \/ Reevaluate(h) \/ DatabaseFails(h)
                             \/ \E l \in LimitPushes : UpdateSettings(h, l)
  BY DEF Next, HandlerStep, Actors
<1>. QED
  BY <1>2, <1>3, <1>4, <1>5, <1>6

(* The initial state: the loop rests.                                      *)
LEMMA InitLoop == Init => LoopInv
BY InitLimit DEF Init, LoopInv, SignalInv, ReadInv, Reevaluating, Buying, Actors

(* The loop has a signal in hand exactly where it should.                  *)
LEMMA SignalStep == LoopInv /\ [Next]_vars => SignalInv'
<1>. SUFFICES ASSUME LoopInv, [Next]_vars PROVE SignalInv'
  OBVIOUS
<1>0. TypeOK /\ SignalInv /\ Loop \in Actors /\ NoSignal.status = "none" /\ signal \in Signal
  BY DEF LoopInv, LimitInv, TypeInv, Actors, NoSignal, TypeOK
<1>. USE DEF SignalInv, Buying, TypeOK
<1>n. ASSUME NextMarket PROVE SignalInv'
  BY <1>0, <1>n DEF NextMarket, GoTo
<1>r. ASSUME Return(Loop), signal = NoSignal, UNCHANGED signal PROVE SignalInv'
  BY <1>0, <1>r DEF Return, GoTo
<1>1. CASE LoopSettingsChanged \/ LoopTimer
  BY <1>0, <1>1 DEF LoopSettingsChanged, LoopTimer, GoTo, ticks
<1>2. CASE ProcessMarket
  <2>1. ASSUME NEW m \in Markets, MarketHold(m) \/ MarketSignal(m) PROVE SignalInv'
    <3>1. MarketSignal(m) => signal'.status = "sent"
      BY DEF MarketSignal, NoSignal
    <3>. QED
      BY <1>0, <2>1, <3>1 DEF MarketHold, MarketSignal, GoTo, hands
  <2>2. CASE CheckExposure \/ ReserveFunds \/ RecordPrediction
    BY <1>0, <1>n, <2>2 DEF CheckExposure, ReserveFunds, RecordPrediction, GoTo, hands
  <2>3. CASE Execute
    <3>1. signal' = signal \/ signal'.status \in Statuses \/ NextMarket
      BY <1>0, <2>3 DEF Execute, Signal
    <3>2. "none" \notin Statuses
      BY MarketAssumption
    <3>. QED
      BY <1>0, <1>n, <2>3, <3>1, <3>2 DEF Execute, GoTo, hands
  <2>4. CASE LookupRow
    BY <1>0, <1>n, <2>4 DEF LookupRow, GoTo, hands
  <2>5. CASE Undo \/ MergeRow \/ InsertRow
    BY <1>n, <2>5 DEF Undo, MergeRow, InsertRow
  <2>. QED
    BY <1>2, <2>1, <2>2, <2>3, <2>4, <2>5 DEF ProcessMarket
<1>3. CASE UpdatePredictionPrices
  BY <1>0, <1>r, <1>3 DEF UpdatePredictionPrices, ReadPrices, PriceRow, UpdatePrice, TickDone, GoTo, ticks
<1>4. CASE Reevaluate(Loop)
  BY <1>0, <1>n, <1>r, <1>4 DEF Reevaluate, ReadPredictions, ForceClose, ForceCloseRejected, ReleaseCapital,
              DeleteRow, RecordClose, ReevaluateDone, GoTo, hands, ticks
<1>5. CASE DatabaseFails(Loop)
  BY <1>0, <1>n, <1>r, <1>5 DEF DatabaseFails
<1>6. CASE Restart
  BY <1>0, <1>6 DEF Restart
<1>. QED
  BY <1>0, <1>1, <1>2, <1>3, <1>4, <1>5, <1>6, Elsewhere DEF LoopStep

(* Rows that are taken off one by one are taken off the sum of their       *)
(* copies by as much as each of them brought.                              *)
LEMMA TakenOff ==
  ASSUME TypeOK, NEW i \in todo[Loop]
  PROVE  /\ Total(copy[Loop], todo[Loop]) = copy[Loop][i] + Total(copy[Loop], todo[Loop] \ {i})
         /\ copy[Loop][i] \in Int /\ Total(copy[Loop], todo[Loop] \ {i}) \in Int
<1>1. todo[Loop] \in SUBSET Ids /\ todo[Loop] \ {i} \in SUBSET Ids /\ copy[Loop] \in [Ids -> Int]
  BY DEF TypeOK, Actors
<1>2. IsFiniteSet(todo[Loop]) /\ IsFiniteSet(todo[Loop] \ {i})
  BY <1>1, ExposureType
<1>3. (\A j \in todo[Loop] : copy[Loop][j] \in Int) /\ (\A j \in todo[Loop] \ {i} : copy[Loop][j] \in Int)
  BY <1>1
<1>. QED
  BY <1>2, <1>3, TotalRemove, TotalType

(* The loop's copies, their sum and the row in hand stay in step.          *)
LEMMA ReadStep == LoopInv /\ [Next]_vars => ReadInv'
<1>. SUFFICES ASSUME LoopInv, [Next]_vars PROVE ReadInv'
  OBVIOUS
<1>0. TypeOK /\ SignalInv /\ ReadInv /\ Loop \in Actors
  BY DEF LoopInv, LimitInv, TypeInv, Actors
<1>l. ASSUME step'[Loop] \notin Reevaluating \/ signal' # NoSignal PROVE ReadInv'
  BY <1>l DEF ReadInv
<1>n. ASSUME NextMarket PROVE ReadInv'
  BY <1>0, <1>n, <1>l DEF NextMarket, GoTo, TypeOK, Reevaluating
<1>r. ASSUME Return(Loop) PROVE ReadInv'
  BY <1>0, <1>r, <1>l DEF Return, GoTo, TypeOK, Reevaluating
<1>k. ASSUME step[Loop] \in Reevaluating, signal = NoSignal,
             copy'[Loop] = copy[Loop], todo'[Loop] = todo[Loop], total'[Loop] = total[Loop],
             book' = book, step'[Loop] # "excess" => row'[Loop] \in todo[Loop]
      PROVE  ReadInv'
  BY <1>0, <1>k DEF ReadInv
<1>1. CASE LoopSettingsChanged \/ LoopTimer
  BY <1>0, <1>1, <1>l DEF LoopSettingsChanged, LoopTimer, GoTo, TypeOK, Reevaluating
<1>2. CASE ProcessMarket
  <2>1. ASSUME NEW m \in Markets, MarketHold(m) \/ MarketSignal(m) PROVE ReadInv'
    BY <1>0, <2>1, <1>l DEF MarketHold, MarketSignal, GoTo, TypeOK, Reevaluating
  <2>2. CASE CheckExposure \/ ReserveFunds \/ RecordPrediction \/ Execute
    BY <1>0, <1>n, <1>l, <2>2 DEF CheckExposure, ReserveFunds, RecordPrediction, Execute, GoTo, TypeOK, Reevaluating
  <2>3. CASE LookupRow
    <3>1. signal # NoSignal
      BY <1>0, <2>3 DEF LookupRow, SignalInv, Buying
    <3>. QED
      BY <1>n, <1>l, <2>3, <3>1 DEF LookupRow
  <2>4. CASE Undo \/ MergeRow \/ InsertRow
    BY <1>n, <2>4 DEF Undo, MergeRow, InsertRow
  <2>. QED
    BY <1>2, <2>1, <2>2, <2>3, <2>4 DEF ProcessMarket
<1>3. CASE UpdatePredictionPrices
  BY <1>0, <1>r, <1>l, <1>3
     DEF UpdatePredictionPrices, ReadPrices, PriceRow, UpdatePrice, TickDone, GoTo, TypeOK, Reevaluating
<1>4. CASE Reevaluate(Loop)
  <2>1. CASE ReadPredictions(Loop)
    <3>1. /\ book' = book /\ todo'[Loop] = open /\ step'[Loop] = "excess"
          /\ copy'[Loop] = [i \in Ids |-> IF i \in open THEN book[i].capital ELSE 0]
          /\ total'[Loop] = Exposure(open)
      BY <1>0, <2>1 DEF ReadPredictions, GoTo, TypeOK, table
    <3>2. open \in SUBSET Ids /\ IsFiniteSet(open)
      BY <1>0, ExposureType DEF TypeOK
    <3>3. \A i \in open : CapitalOf[i] = copy'[Loop][i] /\ copy'[Loop][i] = book[i].capital
      BY <3>1, <3>2 DEF CapitalOf
    <3>4. Total(CapitalOf, open) = Total(copy'[Loop], open)
      BY <3>2, <3>3, TotalSame
    <3>. QED
      BY <3>1, <3>3, <3>4 DEF ReadInv, Exposure
  <2>2. ASSUME NEW i \in Ids, ForceClose(Loop, i) PROVE ReadInv'
    <3>1. signal = NoSignal
      BY <1>0, <2>2 DEF ForceClose, SignalInv, Buying
    <3>. QED
      BY <1>0, <1>k, <2>2, <3>1 DEF ForceClose, Smallest, GoTo, TypeOK, Reevaluating, table
  <2>3. ASSUME NEW i \in Ids, ForceCloseRejected(Loop, i) PROVE ReadInv'
    <3>1. /\ step[Loop] = "excess" /\ signal = NoSignal /\ i \in todo[Loop]
          /\ UNCHANGED <<step, copy, book, signal>>
          /\ todo'[Loop] = todo[Loop] \ {i} /\ total'[Loop] = total[Loop] - copy[Loop][i]
      BY <1>0, <2>3 DEF ForceCloseRejected, Smallest, SignalInv, Buying, TypeOK, table, ticks
    <3>2. /\ total[Loop] = Total(copy[Loop], todo[Loop])
          /\ \A j \in todo[Loop] : copy[Loop][j] = book[j].capital
      BY <1>0, <3>1 DEF ReadInv, Reevaluating
    <3>3. total'[Loop] = Total(copy[Loop], todo[Loop] \ {i})
      BY <1>0, <3>1, <3>2, TakenOff
    <3>. QED
      BY <3>1, <3>2, <3>3 DEF ReadInv
  <2>4. CASE ReleaseCapital(Loop)
    <3>1. CASE signal = NoSignal
      BY <1>0, <1>k, <2>4, <3>1 DEF ReleaseCapital, ReadInv, GoTo, TypeOK, Reevaluating, table, hands, ticks
    <3>2. CASE signal # NoSignal
      BY <1>l, <2>4, <3>2 DEF ReleaseCapital, ticks
    <3>. QED
      BY <3>1, <3>2
  <2>5. CASE DeleteRow(Loop)
    <3>1. CASE signal = NoSignal
      BY <1>0, <1>k, <2>5, <3>1 DEF DeleteRow, ReadInv, GoTo, TypeOK, Reevaluating, hands
    <3>2. CASE signal # NoSignal
      BY <1>n, <2>5, <3>2 DEF DeleteRow
    <3>. QED
      BY <3>1, <3>2
  <2>6. CASE RecordClose(Loop)
    <3>1. /\ step[Loop] = "record" /\ signal = NoSignal
          /\ UNCHANGED <<copy, book, signal>> /\ step'[Loop] = "excess"
          /\ todo'[Loop] = todo[Loop] \ {row[Loop]}
          /\ total'[Loop] = total[Loop] - copy[Loop][row[Loop]]
      BY <1>0, <2>6 DEF RecordClose, SignalInv, Buying, GoTo, TypeOK, table, ticks
    <3>2. /\ total[Loop] = Total(copy[Loop], todo[Loop]) /\ row[Loop] \in todo[Loop]
          /\ \A j \in todo[Loop] : copy[Loop][j] = book[j].capital
      BY <1>0, <3>1 DEF ReadInv, Reevaluating
    <3>3. total'[Loop] = Total(copy[Loop], todo[Loop] \ {row[Loop]})
      <4>1. PICK i \in todo[Loop] : i = row[Loop]
        BY <3>2
      <4>2. total'[Loop] = total[Loop] - copy[Loop][i]
        BY <3>1, <4>1
      <4>3. total'[Loop] = Total(copy[Loop], todo[Loop] \ {i})
        BY <1>0, <3>2, <4>2, TakenOff
      <4>. QED
        BY <4>1, <4>3
    <3>. QED
      BY <3>1, <3>2, <3>3 DEF ReadInv
  <2>7. CASE ReevaluateDone(Loop)
    BY <1>r, <2>7 DEF ReevaluateDone
  <2>. QED
    BY <1>4, <2>1, <2>2, <2>3, <2>4, <2>5, <2>6, <2>7 DEF Reevaluate
<1>5. CASE DatabaseFails(Loop)
  BY <1>n, <1>r, <1>5 DEF DatabaseFails
<1>6. CASE Restart
  BY <1>0, <1>l, <1>6 DEF Restart, Reevaluating
<1>7. CASE /\ UNCHANGED <<book, signal>> /\ step'[Loop] = step[Loop]
           /\ todo'[Loop] = todo[Loop] /\ copy'[Loop] = copy[Loop]
           /\ total'[Loop] = total[Loop] /\ row'[Loop] = row[Loop]
  BY <1>0, <1>7 DEF ReadInv
<1>. QED
  BY <1>0, <1>1, <1>2, <1>3, <1>4, <1>5, <1>6, <1>7, Elsewhere DEF LoopStep

(* Every step keeps all of it.                                             *)
LEMMA LoopInvStep == LoopInv /\ [Next]_vars => LoopInv'
BY LimitStep, SignalStep, ReadStep DEF LoopInv

(* The next row the loop sells is a smallest of those it has read.         *)
LEMMA SmallestStep ==
  LoopInv /\ [Next]_vars =>
    (step[Loop] = "excess" /\ step'[Loop] = "release" =>
        \A i \in open \cap todo[Loop] : book[row'[Loop]].capital <= book[i].capital)
<1>. SUFFICES ASSUME LoopInv, [Next]_vars, step[Loop] = "excess", step'[Loop] = "release",
                     NEW i \in todo[Loop]
              PROVE  book[row'[Loop]].capital <= book[i].capital
  OBVIOUS
<1>0. TypeOK /\ SignalInv /\ ReadInv /\ Loop \in Actors
  BY DEF LoopInv, LimitInv, TypeInv, Actors
<1>1. \A j \in todo[Loop] : copy[Loop][j] = book[j].capital
  BY <1>0 DEF SignalInv, ReadInv, Buying, Reevaluating
<1>2. CASE LoopStep
  <2>1. PICK j \in Ids : ForceClose(Loop, j)
    BY <1>0, <1>2 DEF LoopStep, LoopSettingsChanged, LoopTimer, ProcessMarket, MarketHold, MarketSignal,
          CheckExposure, ReserveFunds, Execute, Undo, RecordPrediction, LookupRow, MergeRow, InsertRow,
          UpdatePredictionPrices, ReadPrices, PriceRow, UpdatePrice, TickDone,
          Reevaluate, ReadPredictions, ForceCloseRejected, ReleaseCapital, DeleteRow, RecordClose,
          ReevaluateDone, Return, GoTo, TypeOK
  <2>2. row'[Loop] = j /\ j \in todo[Loop] /\ copy[Loop][j] <= copy[Loop][i]
    BY <1>0, <2>1 DEF ForceClose, Smallest, TypeOK
  <2>. QED
    BY <1>1, <2>2
<1>3. CASE DatabaseFails(Loop) \/ Restart
  BY <1>0, <1>3 DEF DatabaseFails, AtDatabase, Restart
<1>. QED
  BY <1>0, <1>2, <1>3, Elsewhere

(* "starting from the smallest position": the loop never sells a           *)
(* prediction while it has a smaller one before it, whatever was refused   *)
(* before and whatever the handlers sell meanwhile.                        *)
THEOREM SmallestGoFirst == Spec => SmallestFirst
BY InitLoop, LoopInvStep, SmallestStep, PTL DEF Spec, SmallestFirst

-----------------------------------------------------------------------------
(* What a re-evaluation leaves behind.                                     *)

\* Limits on an exposure are not negative.
LimitsNotNegative == InitialLimit \in Nat /\ LimitPushes \subseteq Nat

\* The loop's re-evaluation, nothing of which is refused, has every row before it
\* that is still open; and once it has seen every push, and no statement has failed,
\* what is open is within the limit, but for while it re-evaluates.
CompliantInv ==
    /\ limit >= 0
    /\ cfg[Loop] >= 0
    /\ step[Loop] \in Reevaluating /\ signal = NoSignal => open \subseteq todo[Loop]
    /\ step[Loop] = "record" => row[Loop] \notin open
    /\ faults = 0 /\ ~changed =>
          /\ step[Loop] \notin {"idle", "prices", "price"} => cfg[Loop] = limit
          /\ step[Loop] # "read" /\ ~(step[Loop] \in Reevaluating /\ signal = NoSignal) =>
                Exposure(open) <= limit

(* The initial state has not seen the settings it started with.            *)
LEMMA InitCompliant ==
  ASSUME LimitsNotNegative PROVE Init => CompliantInv
BY DEF LimitsNotNegative, Init, CompliantInv, Reevaluating, Actors

(* A re-evaluation that has every open row before it ends when they are    *)
(* within the limit, or are none.                                          *)
LEMMA DoneCompliant ==
  ASSUME LoopInv, CompliantInv, ReevaluateDone(Loop)
  PROVE  Exposure(open) <= cfg[Loop]
<1>0. /\ TypeOK /\ AmountsOK /\ SignalInv /\ ReadInv /\ Loop \in Actors
      /\ open \in SUBSET Ids /\ todo[Loop] \in SUBSET Ids /\ cfg[Loop] \in Int
  BY DEF LoopInv, LimitInv, TypeInv, Actors, TypeOK
<1>1. step[Loop] = "excess" /\ signal = NoSignal
  BY <1>0 DEF ReevaluateDone, SignalInv, Buying
<1>2. /\ open \subseteq todo[Loop]
      /\ \A i \in todo[Loop] : copy[Loop][i] = book[i].capital
      /\ total[Loop] = Total(copy[Loop], todo[Loop])
  BY <1>0, <1>1 DEF CompliantInv, ReadInv, Reevaluating
<1>3. IsFiniteSet(todo[Loop]) /\ IsFiniteSet(open)
  BY <1>0, ExposureType
<1>4. \A i \in todo[Loop] : /\ copy[Loop][i] \in Int /\ copy[Loop][i] >= 0
                            /\ CapitalOf[i] = copy[Loop][i]
  BY <1>0, <1>2 DEF AmountsOK, TypeOK, CapitalOf, Actors
<1>5. Exposure(open) = Total(copy[Loop], open)
  BY <1>2, <1>3, <1>4, TotalSame DEF Exposure
<1>6. Total(copy[Loop], open) <= Total(copy[Loop], todo[Loop])
  BY <1>2, <1>3, <1>4, TotalSubset
<1>7. Total(copy[Loop], open) \in Int /\ Total(copy[Loop], todo[Loop]) \in Int
  <2>1. (\A i \in open : copy[Loop][i] \in Int) /\ (\A i \in todo[Loop] : copy[Loop][i] \in Int)
    BY <1>2, <1>4
  <2>. QED
    BY <1>3, <2>1, TotalType
<1>8. CASE ~Excessive(Loop)
  BY <1>0, <1>2, <1>5, <1>6, <1>7, <1>8 DEF Excessive
<1>9. CASE todo[Loop] = {}
  <2>1. Total(copy[Loop], {}) = 0
    BY TotalEmpty
  <2>2. open = {}
    BY <1>2, <1>9
  <2>. QED
    BY <1>5, <2>1, <2>2 DEF CompliantInv
<1>. QED
  BY <1>8, <1>9 DEF ReevaluateDone

(* Only the end of a re-evaluation leads from the loop over excess rows to *)
(* rest.                                                                   *)
LEMMA EndStep ==
  ASSUME LimitsNotNegative
  PROVE  LoopInv /\ CompliantInv /\ [Next]_vars => EndsCompliant
<1>. SUFFICES ASSUME LoopInv, CompliantInv, [Next]_vars,
                     step[Loop] = "excess", step'[Loop] = "idle", restarts' = restarts
              PROVE  Exposure(open)' <= cfg[Loop]
  BY DEF EndsCompliant
<1>0. TypeOK /\ Loop \in Actors
  BY DEF LoopInv, LimitInv, TypeInv, Actors
<1>1. CASE LoopStep
  <2>1. ReevaluateDone(Loop)
    BY <1>0, <1>1 DEF LoopStep, LoopSettingsChanged, LoopTimer, ProcessMarket, MarketHold, MarketSignal,
          CheckExposure, ReserveFunds, Execute, Undo, RecordPrediction, LookupRow, MergeRow, InsertRow,
          UpdatePredictionPrices, ReadPrices, PriceRow, UpdatePrice, TickDone, ForceClose,
          Reevaluate, ReadPredictions, ForceCloseRejected, ReleaseCapital, DeleteRow, RecordClose,
          Return, GoTo, TypeOK
  <2>2. Exposure(open)' = Exposure(open)
    BY <2>1 DEF ReevaluateDone, Exposure, CapitalOf, table
  <2>. QED
    BY <2>1, <2>2, DoneCompliant
<1>2. CASE DatabaseFails(Loop) \/ Restart
  BY <1>0, <1>2 DEF DatabaseFails, AtDatabase, Restart, TypeOK
<1>. QED
  BY <1>0, <1>1, <1>2, Elsewhere

(* Every step keeps what a re-evaluation has to show at its end.           *)
LEMMA CompliantStep ==
  ASSUME LimitsNotNegative, ~ExecutorMayFail
  PROVE  LoopInv /\ LoopInv' /\ CompliantInv /\ [Next]_vars => CompliantInv'
<1>. SUFFICES ASSUME LoopInv, LoopInv', CompliantInv, [Next]_vars PROVE CompliantInv'
  OBVIOUS
<1>0. /\ TypeOK /\ TypeOK' /\ AmountsOK /\ SignalInv /\ SignalInv' /\ ReadInv /\ LimitInv /\ LimitInv' /\ CheckedInv
      /\ Loop \in Actors /\ faults \in Nat
      /\ Exposure(open) \in Int /\ cfg[Loop] \in Int /\ limit \in Int
  BY ExposureType, BoundAssumption DEF LoopInv, LimitInv, TypeInv, Actors, TypeOK
<1>1. open' \subseteq open /\ book' = book => Exposure(open)' \in Int /\ Exposure(open)' <= Exposure(open)
  BY <1>0, Shrinks
<1>e. open' = open /\ book' = book => Exposure(open)' = Exposure(open)
  BY DEF Exposure, CapitalOf
\* A step that reads no rows and does not rest from reading them.
<1>k. ASSUME open' = open, book' = book, limit' = limit, cfg'[Loop] = cfg[Loop], changed' = changed, faults' = faults,
             step'[Loop] \notin Reevaluating \/ signal' # NoSignal,
             step'[Loop] # "record", step'[Loop] # "read",
             step[Loop] # "read", step[Loop] \notin Reevaluating \/ signal # NoSignal,
             step[Loop] \in {"idle", "prices", "price"} => step'[Loop] \in {"idle", "prices", "price"}
      PROVE  CompliantInv'
  BY <1>k, <1>0, <1>e DEF CompliantInv
<1>2. CASE LoopSettingsChanged
  BY <1>0, <1>2, <1>e DEF LoopSettingsChanged, CompliantInv, GoTo, TypeOK, Reevaluating, table
<1>3. CASE LoopTimer
  BY <1>0, <1>3, <1>e DEF LoopTimer, CompliantInv, GoTo, TypeOK, Reevaluating, table, hub, counts
<1>w. ASSUME InsertRow \/ (MergeRow /\ row[Loop] \in open) PROVE CompliantInv'
  <2>1. PICK spent : /\ spent \in Int /\ 0 <= spent /\ spent <= signal.cost
                     /\ Exposure(open)' = Exposure(open) + spent
    BY <1>0, <1>w, WriteStep
  <2>2. signal.cost \in Int /\ Exposure(open) + signal.cost <= cfg[Loop] /\ step[Loop] \in {"merge", "insert"}
    BY <1>0, <1>w DEF CheckedInv, Checked, MergeRow, InsertRow, TypeOK, Signal
  <2>3. Exposure(open)' <= cfg[Loop]
    BY <1>0, <2>1, <2>2
  <2>. QED
    BY <1>0, <1>w, <2>2, <2>3
       DEF CompliantInv, MergeRow, InsertRow, NextMarket, GoTo, TypeOK, Reevaluating, hub, counts
<1>4. CASE ProcessMarket
  <2>1. ASSUME NEW m \in Markets, MarketHold(m) \/ MarketSignal(m) PROVE CompliantInv'
    BY <1>0, <1>k, <2>1 DEF MarketHold, MarketSignal, GoTo, TypeOK, Reevaluating, table, hub, hands, counts
  <2>2. CASE CheckExposure \/ ReserveFunds \/ RecordPrediction
    BY <1>0, <1>k, <2>2 DEF CheckExposure, ReserveFunds, RecordPrediction, NextMarket, GoTo, TypeOK,
                            Reevaluating, table, hub, hands, counts
  <2>3. CASE Execute \/ Undo
    BY <1>0, <1>k, <2>3 DEF Execute, Undo, NextMarket, GoTo, TypeOK,
                            Reevaluating, table, hub, hands, counts
  <2>4. CASE LookupRow
    <3>1. signal # NoSignal
      BY <1>0, <2>4 DEF LookupRow, SignalInv, Buying
    <3>. QED
      BY <1>0, <1>k, <2>4, <3>1 DEF LookupRow, NextMarket, GoTo, TypeOK,
                            Reevaluating, table, hub, hands, counts
  <2>5. CASE MergeRow /\ row[Loop] \notin open
    BY <1>0, <1>k, <2>5 DEF MergeRow, NextMarket, GoTo, TypeOK, Reevaluating, hub, counts
  <2>. QED
    BY <1>4, <1>w, <2>1, <2>2, <2>3, <2>4, <2>5 DEF ProcessMarket
<1>5. CASE UpdatePredictionPrices
  <2>1. CASE ReadPrices \/ TickDone
    BY <1>0, <1>e, <2>1 DEF ReadPrices, TickDone, Return, CompliantInv, LimitsNotNegative, GoTo, TypeOK,
                            Reevaluating, table, hub, hands, ticks, counts
  <2>2. ASSUME NEW i \in Ids, PriceRow(i) PROVE CompliantInv'
    BY <1>0, <1>e, <2>2 DEF PriceRow, Return, CompliantInv, LimitsNotNegative, GoTo, TypeOK,
                            Reevaluating, table, hub, hands, ticks, counts
  <2>3. CASE UpdatePrice
    BY <1>0, <1>e, <2>3 DEF UpdatePrice, Return, CompliantInv, LimitsNotNegative, GoTo, TypeOK,
                            Reevaluating, hub, hands, ticks, counts
  <2>. QED
    BY <1>5, <2>1, <2>2, <2>3 DEF UpdatePredictionPrices
<1>6. CASE Reevaluate(Loop)
  <2>1. CASE ReadPredictions(Loop)
    BY <1>0, <2>1 DEF ReadPredictions, CompliantInv, SignalInv, Buying, GoTo, TypeOK,
                            Reevaluating, table, hub, ticks, counts
  <2>2. ASSUME NEW i \in Ids, ForceClose(Loop, i) PROVE CompliantInv'
    BY <1>0, <2>2 DEF ForceClose, CompliantInv, SignalInv, Buying, GoTo, TypeOK,
                            Reevaluating, table, hub, ticks, counts
  <2>3. ASSUME NEW i \in Ids, ForceCloseRejected(Loop, i) PROVE CompliantInv'
    BY <2>3 DEF ForceCloseRejected
  <2>4. CASE ReleaseCapital(Loop)
    BY <1>0, <1>e, <2>4 DEF ReleaseCapital, CompliantInv, GoTo, TypeOK,
                            Reevaluating, table, hub, hands, ticks, counts
  <2>5. CASE DeleteRow(Loop)
    <3>1. CASE signal = NoSignal
      BY <1>0, <2>5, <3>1 DEF DeleteRow, CompliantInv, GoTo, TypeOK,
                            Reevaluating, hub, hands, counts
    <3>2. CASE signal # NoSignal
      BY <1>0, <1>1, <2>5, <3>2 DEF DeleteRow, CompliantInv, NextMarket, GoTo, TypeOK,
                            Reevaluating, hub, hands, counts
    <3>. QED
      BY <3>1, <3>2
  <2>6. CASE RecordClose(Loop)
    <3>1. signal = NoSignal
      BY <1>0, <2>6 DEF RecordClose, SignalInv, Buying
    <3>. QED
      BY <1>0, <2>6, <3>1 DEF RecordClose, CompliantInv, GoTo, TypeOK,
                            Reevaluating, table, hub, ticks, counts
  <2>7. CASE ReevaluateDone(Loop)
    <3>1. Exposure(open) <= cfg[Loop]
      BY <2>7, DoneCompliant
    <3>2. signal = NoSignal
      BY <1>0, <2>7 DEF ReevaluateDone, SignalInv, Buying
    <3>. QED
      BY <1>0, <1>e, <2>7, <3>1, <3>2 DEF ReevaluateDone, Return, CompliantInv, LimitsNotNegative, GoTo, TypeOK,
                            Reevaluating, table, hub, ticks, counts
  <2>. QED
    BY <1>6, <2>1, <2>2, <2>3, <2>4, <2>5, <2>6, <2>7 DEF Reevaluate
<1>7. CASE DatabaseFails(Loop)
  <2>1. faults' # 0
    BY <1>0, <1>7 DEF DatabaseFails
  <2>. QED
    BY <1>0, <1>7, <2>1 DEF DatabaseFails, NextMarket, Return, CompliantInv, LimitsNotNegative, GoTo, TypeOK,
                            Reevaluating, hub
<1>8. CASE Restart
  BY <1>0, <1>8 DEF Restart, CompliantInv, LimitsNotNegative, Reevaluating, table
<1>9. ASSUME open' \subseteq open, UNCHANGED <<book, opened, signal>>,
             step'[Loop] = step[Loop], cfg'[Loop] = cfg[Loop],
             todo'[Loop] = todo[Loop], copy'[Loop] = copy[Loop],
             total'[Loop] = total[Loop], row'[Loop] = row[Loop],
             faults' \in {faults, faults + 1},
             \/ UNCHANGED <<limit, changed>>
             \/ pushes' = pushes + 1 /\ changed' = TRUE /\ limit' \in LimitPushes
      PROVE  CompliantInv'
  <2>1. faults' = 0 => faults = 0
    BY <1>0, <1>9
  <2>2. /\ step'[Loop] \in Reevaluating /\ signal' = NoSignal => open' \subseteq todo'[Loop]
        /\ step'[Loop] = "record" => row'[Loop] \notin open'
        /\ cfg'[Loop] >= 0
    BY <1>9 DEF CompliantInv
  <2>3. CASE UNCHANGED <<limit, changed>>
    BY <1>0, <1>1, <1>9, <2>1, <2>2, <2>3 DEF CompliantInv
  <2>4. CASE changed' = TRUE /\ limit' \in LimitPushes
    <3>1. limit' >= 0
      BY <2>4 DEF LimitsNotNegative
    <3>2. changed'
      BY <2>4
    <3>. QED
      BY <2>2, <3>1, <3>2 DEF CompliantInv
  <2>. QED
    BY <1>9, <2>3, <2>4
<1>. QED
  BY <1>0, <1>2, <1>3, <1>4, <1>5, <1>6, <1>7, <1>8, <1>9, Elsewhere DEF LoopStep

(* "sell predictions ... until compliant": when nothing is refused, a      *)
(* re-evaluation of the loop's that comes to its end leaves open what its  *)
(* limit allows and no more, whatever the handlers have closed, whatever   *)
(* they have been pushed and however often the worker has been restarted   *)
(* (reevaluate_predictions).                                               *)
THEOREM SellsEnough ==
  ASSUME LimitsNotNegative, ~ExecutorMayFail
  PROVE  Spec => SellsUntilCompliant
<1>1. Init => LoopInv /\ CompliantInv
  BY InitLoop, InitCompliant
<1>2. (LoopInv /\ CompliantInv) /\ [Next]_vars => (LoopInv /\ CompliantInv)'
  BY LoopInvStep, CompliantStep
<1>3. (LoopInv /\ CompliantInv) /\ [Next]_vars => EndsCompliant
  BY EndStep
<1>. QED
  BY <1>1, <1>2, <1>3, PTL DEF Spec, SellsUntilCompliant

(* Once every push has been seen, and as long as no statement has failed,  *)
(* the predictions that are open while nobody re-evaluates are within the  *)
(* limit in force.                                                         *)
THEOREM RestsWithinLimit ==
  ASSUME LimitsNotNegative, ~ExecutorMayFail
  PROVE  Spec => [](faults = 0 => SettledCompliant)
<1>1. Init => LoopInv /\ CompliantInv
  BY InitLoop, InitCompliant
<1>2. (LoopInv /\ CompliantInv) /\ [Next]_vars => (LoopInv /\ CompliantInv)'
  BY LoopInvStep, CompliantStep
<1>3. CompliantInv => (faults = 0 => SettledCompliant)
  BY DEF CompliantInv, SettledCompliant, Reevaluating, Actors
<1>. QED
  BY <1>1, <1>2, <1>3, PTL DEF Spec

-----------------------------------------------------------------------------
(* The allocation, as long as the loop is alone.                           *)

Unpushed == pushes = 0 /\ restarts = 0

\* Capital that is reserved and not yet that of a row.
InFlight ==
    IF step[Loop] \in {"order", "undo", "log", "lookup", "merge", "insert"}
       /\ signal.action = "buy"
    THEN signal.cost ELSE 0

\* The rows whose capital has not been released.
Held == IF step[Loop] = "delete" THEN open \ {row[Loop]} ELSE open

\* What is allocated and is neither a row's nor on its way to one.
Drift == portfolio.allocated["polymarket"] - (Exposure(Held) + InFlight)

\* The limit is what it was, and no row has more than a third of it.  The rows the loop
\* has read are open but for the one it has just deleted, what it is about to release is
\* the capital of an open row, and the row an order is to be merged into is there.
PlacedInv ==
    Unpushed =>
        /\ limit = InitialLimit /\ cfg[Loop] = InitialLimit
        /\ \A i \in open : 3 * book[i].capital <= InitialLimit
        /\ \A h \in Handlers : step[h] = "idle"
        /\ step[Loop] = "excess" => todo[Loop] \subseteq open
        /\ step[Loop] \in {"release", "delete", "record"} /\ signal = NoSignal =>
              todo[Loop] \subseteq open \cup {row[Loop]}
        /\ step[Loop] \in {"release", "delete"} =>
              row[Loop] \in open /\ copy[Loop][row[Loop]] = book[row[Loop]].capital
        /\ step[Loop] = "merge" => row[Loop] \in open

\* An order of the paper executor is filled, at its price.
PaperInv ==
    PaperExecutor /\ step[Loop] \in {"log", "lookup", "merge", "insert"} =>
        signal.spent = signal.cost /\ signal.status = "filled"

\* A statement that fails misplaces no more than a row or an order.
AccountInv ==
    Unpushed /\ (InitialLimit >= 0 \/ faults = 0) =>
        /\ -3 * Drift <= faults * InitialLimit
        /\ PaperExecutor => 3 * Drift <= faults * InitialLimit

AloneInv == LoopInv /\ PaperInv /\ PlacedInv /\ AccountInv

(* Nothing is open and nothing allocated at first.                         *)
LEMMA InitAlone == Init => AloneInv
<1>. SUFFICES ASSUME Init PROVE AloneInv
  OBVIOUS
<1>1. LoopInv /\ PaperInv /\ PlacedInv
  BY InitLoop DEF Init, PaperInv, PlacedInv, Actors
<1>2. Total(CapitalOf, {}) = 0
  BY TotalEmpty
<1>3. Drift = 0 /\ faults = 0
  BY <1>2 DEF Init, Drift, Held, InFlight, Exposure, StartingPortfolio, Modules, Actors
<1>4. AccountInv
  BY <1>3, MoneyAssumption DEF AccountInv
<1>. QED
  BY <1>1, <1>4 DEF AloneInv

(* A row that is closed takes its capital with it.                         *)
LEMMA Closed ==
  ASSUME TypeOK, NEW i \in open
  PROVE  /\ Exposure(open) = book[i].capital + Exposure(open \ {i})
         /\ book[i].capital \in Int /\ Exposure(open \ {i}) \in Int
<1>1. open \in SUBSET Ids /\ open \ {i} \in SUBSET Ids /\ i \in Ids
  BY DEF TypeOK
<1>2. IsFiniteSet(open) /\ Exposure(open \ {i}) \in Int
  BY <1>1, ExposureType
<1>3. \A j \in open : CapitalOf[j] \in Int
  BY <1>1 DEF CapitalOf, TypeOK, Row
<1>4. CapitalOf[i] = book[i].capital /\ CapitalOf[i] \in Int
  BY <1>1, <1>3 DEF CapitalOf
<1>. QED
  BY <1>2, <1>3, <1>4, TotalRemove DEF Exposure

(* No row of a market has more capital than all of them.                   *)
LEMMA RowWithin ==
  ASSUME TypeOK, AmountsOK, NEW m
  PROVE  /\ Exposure(InMarket(m)) \in Int /\ Exposure(InMarket(m)) >= 0
         /\ \A i \in InMarket(m) : book[i].capital <= Exposure(InMarket(m))
<1> DEFINE rows == InMarket(m)
<1>1. rows \in SUBSET Ids
  BY DEF InMarket, TypeOK
<1>2. IsFiniteSet(rows) /\ Exposure(rows) \in Int
  BY <1>1, ExposureType
<1>3. \A i \in rows : CapitalOf[i] \in Int /\ CapitalOf[i] >= 0 /\ CapitalOf[i] = book[i].capital
  BY <1>1 DEF CapitalOf, TypeOK, AmountsOK, Row
<1> HIDE DEF rows
<1>4. ASSUME NEW less \in SUBSET rows
      PROVE  Total(CapitalOf, less) <= Total(CapitalOf, rows)
  BY <1>2, <1>3, TotalSubset
<1>5. Exposure(rows) >= 0
  <2>1. {} \in SUBSET rows
    OBVIOUS
  <2>. QED
    BY <1>4, <2>1, TotalEmpty DEF Exposure
<1>6. ASSUME NEW i \in rows PROVE book[i].capital <= Exposure(rows)
  <2>1. Total(CapitalOf, rows) = CapitalOf[i] + Total(CapitalOf, rows \ {i})
    BY <1>2, <1>3, TotalRemove
  <2>2. rows \ {i} \in SUBSET rows /\ IsFiniteSet(rows \ {i})
    BY <1>2, FS_Subset
  <2>3. {} \in SUBSET (rows \ {i}) /\ \A j \in rows \ {i} : CapitalOf[j] \in Int /\ CapitalOf[j] >= 0
    BY <1>3
  <2>4. Total(CapitalOf, rows \ {i}) \in Int
    BY <2>2, <2>3, TotalType
  <2>5. 0 <= Total(CapitalOf, rows \ {i})
    BY <2>2, <2>3, TotalSubset, TotalEmpty
  <2>. QED
    BY <1>3, <2>1, <2>4, <2>5 DEF Exposure
<1>. QED
  BY <1>2, <1>5, <1>6 DEF rows

(* Without a push or a restart every step is the loop's.                   *)
LEMMA AloneSteps ==
  ASSUME TypeOK, PlacedInv, [Next]_vars, Unpushed'
  PROVE  /\ Unpushed
         /\ \/ LoopStep /\ faults' = faults
            \/ DatabaseFails(Loop) /\ faults' = faults + 1
            \/ UNCHANGED <<portfolio, table, hub, step, hands, ticks, faults>>
<1>0. pushes \in Nat /\ restarts \in Nat
  BY BoundAssumption DEF TypeOK
<1>1. /\ \A h \in Handlers : \A l \in LimitPushes : ~UpdateSettings(h, l)
      /\ ~Restart
  BY <1>0 DEF Unpushed, UpdateSettings, Restart
<1>2. ASSUME NEW h \in Handlers, Reevaluate(h) PROVE step[h] # "idle" /\ UNCHANGED counts
  BY <1>2 DEF Reevaluate, ReadPredictions, ForceClose, ForceCloseRejected, ReleaseCapital,
              DeleteRow, RecordClose, ReevaluateDone
<1>3. LoopStep => UNCHANGED counts
  BY DEF LoopStep, LoopSettingsChanged, LoopTimer, ProcessMarket, MarketHold, MarketSignal,
         CheckExposure, ReserveFunds, Execute, Undo, RecordPrediction, LookupRow, MergeRow, InsertRow,
         UpdatePredictionPrices, ReadPrices, PriceRow, UpdatePrice, TickDone,
         Reevaluate, ReadPredictions, ForceClose, ForceCloseRejected, ReleaseCapital, DeleteRow,
         RecordClose, ReevaluateDone
<1>4. PersistSnapshot \/ UNCHANGED vars =>
         UNCHANGED counts /\ UNCHANGED <<portfolio, table, hub, step, hands, ticks>>
  BY DEF PersistSnapshot, vars, money
<1>5. ASSUME NEW a \in Actors, DatabaseFails(a)
      PROVE  step[a] # "idle" /\ faults' = faults + 1 /\ UNCHANGED <<restarts, pushes>>
  BY <1>5 DEF DatabaseFails, AtDatabase
<1>6. Unpushed
  BY <1>1, <1>2, <1>3, <1>4, <1>5 DEF Next, HandlerStep, Unpushed, counts
<1>7. /\ \A h \in Handlers : ~Reevaluate(h)
      /\ \A h \in Handlers : ~DatabaseFails(h)
  BY <1>2, <1>5, <1>6 DEF PlacedInv, Actors
<1>. QED
  BY <1>1, <1>3, <1>4, <1>5, <1>6, <1>7 DEF Next, HandlerStep, Actors, counts

(* What the paper executor fills is as it filled it until it is written.   *)
LEMMA PaperStep == LoopInv /\ PaperInv /\ [Next]_vars => PaperInv'
<1>. SUFFICES ASSUME LoopInv, PaperInv, [Next]_vars, PaperExecutor,
                     step'[Loop] \in {"log", "lookup", "merge", "insert"}
              PROVE  signal'.spent = signal'.cost /\ signal'.status = "filled"
  BY DEF PaperInv, PaperExecutor
<1>0. TypeOK /\ Loop \in Actors /\ signal \in Signal
  BY DEF LoopInv, LimitInv, TypeInv, Actors, TypeOK
<1>. USE DEF TypeOK
<1>1. ~NextMarket /\ ~Return(Loop)
  BY <1>0 DEF NextMarket, Return, GoTo
<1>2. CASE LoopStep
  <2>1. Execute \/ RecordPrediction \/ LookupRow
    BY <1>0, <1>1, <1>2
       DEF LoopStep, LoopSettingsChanged, LoopTimer, ProcessMarket, MarketHold, MarketSignal,
           CheckExposure, ReserveFunds, Undo, MergeRow, InsertRow, UpdatePredictionPrices,
           ReadPrices, PriceRow, UpdatePrice, TickDone, Reevaluate, ReadPredictions, ForceClose,
           ForceCloseRejected, ReleaseCapital, DeleteRow, RecordClose, ReevaluateDone, GoTo,
           hands, PaperInv
  <2>2. CASE Execute
    <3>1. \E status \in Statuses, spent \in SpentOf(signal.cost) :
             signal' = [signal EXCEPT !.status = status, !.spent = spent]
      BY <1>0, <1>1, <2>2 DEF Execute, GoTo
    <3>. QED
      BY <1>0, <3>1 DEF PaperExecutor, SpentOf, Signal
  <2>3. CASE RecordPrediction
    BY <1>1, <2>3 DEF RecordPrediction, PaperInv
  <2>4. CASE LookupRow
    BY <1>1, <2>4 DEF LookupRow, PaperInv
  <2>. QED
    BY <2>1, <2>2, <2>3, <2>4
<1>3. CASE DatabaseFails(Loop)
  BY <1>1, <1>3 DEF DatabaseFails
<1>4. CASE Restart
  BY <1>0, <1>4 DEF Restart
<1>5. CASE step'[Loop] = step[Loop] /\ UNCHANGED signal
  BY <1>5 DEF PaperInv
<1>. QED
  BY <1>0, <1>2, <1>3, <1>4, <1>5, Elsewhere

(* What is written leaves no row beyond a third of the limit.              *)
LEMMA RowsWithin ==
  ASSUME LimitInv, LimitInv', (MergeRow /\ row[Loop] \in open) \/ InsertRow,
         \A i \in open : 3 * book[i].capital <= cfg[Loop]
  PROVE  \A i \in open' : 3 * book'[i].capital <= cfg[Loop]
<1>0. TypeInv /\ TypeOK /\ TypeOK' /\ AmountsOK /\ CheckedInv /\ Loop \in Actors
  BY DEF LimitInv, TypeInv, Actors
<1>1. /\ signal.spent \in Int /\ signal.cost \in Int /\ signal.spent <= signal.cost
      /\ cfg[Loop] \in Int
      /\ 3 * (Exposure(InMarket(signal.market)) + signal.cost) <= cfg[Loop]
  BY <1>0 DEF TypeOK, Signal, MergeRow, InsertRow, CheckedInv, Checked
<1>2. /\ Exposure(InMarket(signal.market)) \in Int /\ Exposure(InMarket(signal.market)) >= 0
      /\ \A i \in InMarket(signal.market) : book[i].capital <= Exposure(InMarket(signal.market))
  BY <1>0, RowWithin
<1>3. CASE MergeRow /\ row[Loop] \in open
  <2>1. PICK r : r = row[Loop]
    OBVIOUS
  <2>2. /\ r \in Ids /\ book \in [Ids -> Row] /\ open' = open /\ open \subseteq Ids
        /\ r \in InMarket(signal.market) /\ copy[Loop][r] = book[r].capital
    BY <1>0, <1>3, <2>1 DEF MergeRow, TypeInv, RowInHand, TypeOK, CheckedInv, InMarket
  <2>3. book' = [book EXCEPT ![r].capital = copy[Loop][r] + signal.spent]
    BY <1>3, <2>1 DEF MergeRow
  <2>4. /\ book'[r].capital = book[r].capital + signal.spent
        /\ \A i \in Ids \ {r} : book'[i] = book[i]
        /\ book[r].capital \in Int /\ book[r].capital <= Exposure(InMarket(signal.market))
    BY <1>2, <2>2, <2>3 DEF Row
  <2>5. 3 * book'[r].capital <= cfg[Loop]
    BY <1>1, <1>2, <2>4
  <2>. QED
    BY <2>2, <2>4, <2>5
<1>4. CASE InsertRow
  <2>1. PICK r : r = opened + 1
    OBVIOUS
  <2>2. r \in Ids /\ r \notin open /\ book \in [Ids -> Row]
    BY <1>0, <1>4, <2>1 DEF InsertRow, TypeInv, BuyInHand, Buying, TypeOK, AmountsOK, Ids
  <2>0. open \subseteq Ids
    BY <1>0 DEF TypeOK
  <2>3. /\ open' = open \cup {r}
        /\ book' = [book EXCEPT ![r] =
                      [market |-> signal.market, side |-> signal.side, capital |-> signal.spent]]
    BY <1>4, <2>1 DEF InsertRow
  <2>4. /\ book'[r].capital = signal.spent
        /\ \A i \in Ids \ {r} : book'[i] = book[i]
    BY <2>2, <2>3
  <2>5. 3 * book'[r].capital <= cfg[Loop]
    BY <1>1, <1>2, <2>4
  <2>. QED
    BY <2>0, <2>2, <2>3, <2>4, <2>5
<1>. QED
  BY <1>3, <1>4

(* The loop's rows and copies stay where they were found.                  *)
LEMMA PlacedStep == LoopInv /\ LoopInv' /\ PlacedInv /\ [Next]_vars => PlacedInv'
<1>. SUFFICES ASSUME LoopInv, LoopInv', PlacedInv, [Next]_vars, Unpushed' PROVE PlacedInv'
  BY DEF PlacedInv
<1>0. /\ TypeOK /\ SignalInv /\ LimitInv /\ LimitInv' /\ Loop \in Actors /\ cfg[Loop] \in Int /\ open \subseteq Ids
  BY DEF LoopInv, LimitInv, TypeInv, Actors, TypeOK
<1>1. \A h \in Handlers : h # Loop /\ h \in Actors
  BY ActorAssumption DEF Actors
<1>2. /\ Unpushed
      /\ LoopStep \/ DatabaseFails(Loop) \/ UNCHANGED <<portfolio, table, hub, step, hands, ticks>>
  BY <1>0, AloneSteps
<1>3. /\ limit = InitialLimit /\ cfg[Loop] = InitialLimit
      /\ \A i \in open : 3 * book[i].capital <= InitialLimit
      /\ \A h \in Handlers : step[h] = "idle"
      /\ step[Loop] = "excess" => todo[Loop] \subseteq open
      /\ step[Loop] \in {"release", "delete", "record"} /\ signal = NoSignal =>
            todo[Loop] \subseteq open \cup {row[Loop]}
      /\ step[Loop] \in {"release", "delete"} =>
            row[Loop] \in open /\ copy[Loop][row[Loop]] = book[row[Loop]].capital
      /\ step[Loop] = "merge" => row[Loop] \in open
  BY <1>2 DEF PlacedInv
<1>g. ASSUME NEW st, GoTo(Loop, st)
      PROVE  step'[Loop] = st /\ \A h \in Handlers : step'[h] = "idle"
  BY <1>0, <1>1, <1>3, <1>g DEF GoTo, TypeOK
\* Where nothing is said of the loop's hands.
<1>k. ASSUME limit' = limit, cfg'[Loop] = InitialLimit,
             \/ open' \subseteq open /\ UNCHANGED book
             \/ \A i \in open' : 3 * book'[i].capital <= InitialLimit,
             \A h \in Handlers : step'[h] = "idle",
             step'[Loop] \notin {"excess", "release", "delete", "record", "merge"}
      PROVE  PlacedInv'
  BY <1>3, <1>k DEF PlacedInv
<1>n. ASSUME NextMarket, UNCHANGED limit, open' \subseteq open /\ UNCHANGED book PROVE PlacedInv'
  BY <1>3, <1>g, <1>k, <1>n DEF NextMarket
<1>r. ASSUME Return(Loop), UNCHANGED <<limit, open, book>> PROVE PlacedInv'
  <2>1. cfg'[Loop] = InitialLimit
    BY <1>0, <1>r DEF Return, TypeOK
  <2>. QED
    BY <1>g, <1>k, <1>r, <2>1 DEF Return
<1>4. CASE LoopSettingsChanged \/ LoopTimer
  <2>1. cfg'[Loop] = InitialLimit \/ cfg' = [cfg EXCEPT ![Loop] = limit]
    BY <1>4 DEF LoopSettingsChanged, LoopTimer
  <2>2. cfg'[Loop] = InitialLimit
    BY <1>0, <1>3, <2>1 DEF TypeOK
  <2>. QED
    BY <1>g, <1>k, <1>4, <2>2 DEF LoopSettingsChanged, LoopTimer, table, hub
<1>5. CASE ProcessMarket
  <2>1. ASSUME NEW m \in Markets, MarketHold(m) \/ MarketSignal(m) PROVE PlacedInv'
    <3>1. step'[Loop] \in {"market", "exposure"} /\ \A h \in Handlers : step'[h] = "idle"
      BY <1>3, <1>g, <2>1 DEF MarketHold, MarketSignal
    <3>2. UNCHANGED <<limit, cfg, open, book>>
      BY <2>1 DEF MarketHold, MarketSignal, table, hub, hands
    <3>. QED
      BY <1>3, <1>k, <3>1, <3>2
  <2>2. CASE CheckExposure
    BY <1>3, <1>g, <1>k, <1>n, <2>2 DEF CheckExposure, table, hub, hands
  <2>3. CASE ReserveFunds
    BY <1>3, <1>g, <1>k, <1>n, <2>3 DEF ReserveFunds, table, hub, hands
  <2>4. CASE Execute
    <3>1. NextMarket \/ ((GoTo(Loop, "undo") \/ GoTo(Loop, "log")) /\ UNCHANGED hands)
      BY <2>4 DEF Execute
    <3>2. UNCHANGED <<limit, open, book>>
      BY <2>4 DEF Execute, table, hub
    <3>. QED
      BY <1>3, <1>g, <1>k, <1>n, <3>1, <3>2 DEF hands
  <2>5. CASE Undo
    BY <1>n, <2>5 DEF Undo, table, hub
  <2>6. CASE RecordPrediction
    BY <1>3, <1>g, <1>k, <1>n, <2>6 DEF RecordPrediction, table, hub, hands
  <2>7. CASE LookupRow
    <3>0. UNCHANGED <<limit, open, book>> /\ step[Loop] = "lookup"
      BY <2>7 DEF LookupRow, table, hub
    <3>1. CASE NextMarket
      BY <1>n, <3>0, <3>1
    <3>2. CASE GoTo(Loop, "insert") /\ UNCHANGED <<hands, signal>>
      BY <1>3, <1>g, <1>k, <3>0, <3>2 DEF hands
    <3>3. ASSUME NEW i \in Existing,
                 row' = [row EXCEPT ![Loop] = i],
                 copy' = [copy EXCEPT ![Loop][i] = book[i].capital],
                 GoTo(Loop, IF signal.action = "buy" THEN "merge" ELSE "release"),
                 UNCHANGED <<cfg, todo, total, signal>>
          PROVE  PlacedInv'
      <4>1. i \in Ids /\ i \in open /\ signal # NoSignal
        BY <1>0, <3>0 DEF Existing, SignalInv, Buying
      <4>2. row'[Loop] = i /\ copy'[Loop][i] = book[i].capital
        BY <1>0, <3>3, <4>1 DEF TypeOK
      <4>3. step'[Loop] \in {"merge", "release"} /\ \A h \in Handlers : step'[h] = "idle"
        BY <1>g, <3>3
      <4>. QED
        BY <1>3, <3>0, <3>3, <4>1, <4>2, <4>3 DEF PlacedInv
    <3>. QED
      BY <2>7, <3>1, <3>2, <3>3 DEF LookupRow
  <2>8. CASE InsertRow \/ MergeRow
    <3>1. InsertRow \/ (MergeRow /\ row[Loop] \in open)
      BY <1>3, <2>8 DEF MergeRow
    <3>2. \A i \in open' : 3 * book'[i].capital <= InitialLimit
      BY <1>0, <1>3, <3>1, RowsWithin
    <3>3. limit' = limit /\ cfg' = cfg /\ step'[Loop] = "market" /\ \A h \in Handlers : step'[h] = "idle"
      BY <1>g, <3>1 DEF MergeRow, InsertRow, NextMarket, hub
    <3>. QED
      BY <1>3, <1>k, <3>2, <3>3
  <2>. QED
    BY <1>5, <2>1, <2>2, <2>3, <2>4, <2>5, <2>6, <2>7, <2>8 DEF ProcessMarket
<1>6. CASE UpdatePredictionPrices
  <2>1. CASE ReadPrices \/ TickDone
    BY <1>3, <1>g, <1>k, <1>r, <2>1 DEF ReadPrices, TickDone, table, hub
  <2>2. ASSUME NEW i \in Ids, PriceRow(i) PROVE PlacedInv'
    BY <1>3, <1>g, <1>k, <1>r, <2>2 DEF PriceRow, table, hub
  <2>3. CASE UpdatePrice
    BY <1>3, <1>g, <1>k, <1>r, <2>3 DEF UpdatePrice, hub
  <2>. QED
    BY <1>6, <2>1, <2>2, <2>3 DEF UpdatePredictionPrices
<1>7. CASE Reevaluate(Loop)
  <2>1. CASE ReadPredictions(Loop)
    <3>1. step'[Loop] = "excess" /\ (\A h \in Handlers : step'[h] = "idle") /\ todo'[Loop] = open
          /\ UNCHANGED <<limit, cfg, open, book>>
      BY <1>0, <1>g, <2>1 DEF ReadPredictions, TypeOK, table, hub
    <3>. QED
      BY <1>3, <3>1 DEF PlacedInv
  <2>2. ASSUME NEW i \in Ids, ForceClose(Loop, i) PROVE PlacedInv'
    <3>1. /\ step[Loop] = "excess" /\ signal = NoSignal /\ i \in todo[Loop]
          /\ UNCHANGED <<limit, cfg, open, book, todo, copy, signal>>
          /\ row'[Loop] = i /\ step'[Loop] = "release"
          /\ \A h \in Handlers : step'[h] = "idle"
      BY <1>0, <1>g, <2>2 DEF ForceClose, Smallest, SignalInv, Buying, TypeOK, table, hub, ticks
    <3>2. copy[Loop][i] = book[i].capital
      BY <3>1 DEF LoopInv, ReadInv, Reevaluating
    <3>. QED
      BY <1>3, <3>1, <3>2 DEF PlacedInv
  <2>3. ASSUME NEW i \in Ids, ForceCloseRejected(Loop, i) PROVE PlacedInv'
    <3>1. /\ step[Loop] = "excess" /\ UNCHANGED <<limit, cfg, open, book, step>>
          /\ todo'[Loop] \subseteq todo[Loop]
      BY <1>0, <2>3 DEF ForceCloseRejected, TypeOK, table, hub
    <3>. QED
      BY <1>3, <3>1 DEF PlacedInv
  <2>4. CASE ReleaseCapital(Loop)
    <3>1. /\ step[Loop] = "release" /\ step'[Loop] = "delete"
          /\ UNCHANGED <<limit, cfg, open, book, todo, copy, row, signal>>
          /\ \A h \in Handlers : step'[h] = "idle"
      BY <1>g, <2>4 DEF ReleaseCapital, table, hub, hands, ticks
    <3>. QED
      BY <1>3, <3>1 DEF PlacedInv
  <2>5. CASE DeleteRow(Loop)
    <3>1. CASE NextMarket
      BY <1>n, <2>5, <3>1 DEF DeleteRow, hub
    <3>2. CASE signal = NoSignal /\ GoTo(Loop, "record") /\ UNCHANGED <<hands, signal>>
      <4>1. /\ step[Loop] = "delete" /\ step'[Loop] = "record"
            /\ UNCHANGED <<limit, cfg, book, todo, row>> /\ open' = open \ {row[Loop]}
            /\ \A h \in Handlers : step'[h] = "idle"
        BY <1>g, <2>5, <3>2 DEF DeleteRow, hub, hands
      <4>2. todo[Loop] \subseteq open' \cup {row[Loop]}
        BY <1>3, <3>2, <4>1
      <4>. QED
        BY <1>3, <4>1, <4>2 DEF PlacedInv
    <3>. QED
      BY <2>5, <3>1, <3>2 DEF DeleteRow
  <2>6. CASE RecordClose(Loop)
    <3>1. /\ step[Loop] = "record" /\ signal = NoSignal /\ step'[Loop] = "excess"
          /\ UNCHANGED <<limit, cfg, book, open>>
          /\ todo'[Loop] = todo[Loop] \ {row[Loop]}
          /\ \A h \in Handlers : step'[h] = "idle"
      BY <1>0, <1>g, <2>6 DEF RecordClose, SignalInv, Buying, TypeOK, table, hub
    <3>. QED
      BY <1>3, <3>1 DEF PlacedInv
  <2>7. CASE ReevaluateDone(Loop)
    BY <1>r, <2>7 DEF ReevaluateDone, table, hub
  <2>. QED
    BY <1>7, <2>1, <2>2, <2>3, <2>4, <2>5, <2>6, <2>7 DEF Reevaluate
<1>8. CASE DatabaseFails(Loop)
  BY <1>8, <1>n, <1>r DEF DatabaseFails, table, hub
<1>9. CASE UNCHANGED <<portfolio, table, hub, step, hands, ticks>>
  BY <1>3, <1>9 DEF PlacedInv, table, hub, hands, ticks
<1>. QED
  BY <1>2, <1>4, <1>5, <1>6, <1>7, <1>8, <1>9 DEF LoopStep

(* What the drift is made of are integers.                                 *)
LEMMA DriftType ==
  ASSUME TypeOK
  PROVE  /\ Drift \in Int /\ InFlight \in Int
         /\ Exposure(open) \in Int /\ Exposure(Held) \in Int
         /\ portfolio.allocated["polymarket"] \in Int
         /\ signal.cost \in Int /\ Loop \in Actors
<1>1. open \in SUBSET Ids /\ Held \in SUBSET Ids
  BY DEF TypeOK, Held
<1>2. portfolio.allocated["polymarket"] \in Int
  BY DEF TypeOK, PortfolioState, Modules
<1>3. signal.cost \in Int
  BY DEF TypeOK, Signal
<1>. QED
  BY <1>1, <1>2, <1>3, ExposureType DEF Drift, InFlight, Actors

DriftKept == Drift' >= Drift /\ (PaperExecutor => Drift' = Drift)

(* A step of the loop moves capital between an order, a row and the free   *)
(* balance, and loses none: only an order that spends less than it         *)
(* reserved, or is not filled, leaves something in the allocation.         *)
LEMMA DriftStep ==
  ASSUME AloneInv, LoopInv', Unpushed, LoopStep
  PROVE  DriftKept
<1>0. /\ TypeOK /\ TypeOK' /\ LimitInv /\ LimitInv' /\ AmountsOK /\ SignalInv /\ CheckedInv /\ BuyInHand
      /\ PaperInv /\ portfolio \in PortfolioState /\ signal \in Signal /\ signal.cost >= 0
  BY DEF AloneInv, LoopInv, LimitInv, TypeInv, TypeOK, AmountsOK
<1>1. /\ Drift \in Int /\ InFlight \in Int
      /\ Exposure(open) \in Int /\ Exposure(Held) \in Int
      /\ portfolio.allocated["polymarket"] \in Int
      /\ signal.cost \in Int /\ Loop \in Actors
  BY <1>0, DriftType
<1>2. /\ step[Loop] \in {"release", "delete"} =>
            row[Loop] \in open /\ copy[Loop][row[Loop]] = book[row[Loop]].capital
      /\ step[Loop] = "merge" => row[Loop] \in open
  BY DEF AloneInv, PlacedInv
<1>g. ASSUME NEW st, GoTo(Loop, st) PROVE step'[Loop] = st
  BY <1>0, <1>1, <1>g DEF GoTo, TypeOK
<1>n. ASSUME NextMarket PROVE step'[Loop] = "market" /\ InFlight' = 0
  BY <1>g, <1>n DEF NextMarket, InFlight
\* Steps that touch neither the portfolio nor the table.
<1>k. ASSUME UNCHANGED <<portfolio, open, book>>, step[Loop] # "delete", step'[Loop] # "delete",
             InFlight' \in Int, InFlight' <= InFlight, PaperExecutor => InFlight' = InFlight
      PROVE  DriftKept
  <2>1. Held' = Held /\ Exposure(Held)' = Exposure(Held)
    BY <1>k DEF Held, Exposure, CapitalOf
  <2>. QED
    BY <1>1, <1>k, <2>1 DEF Drift, DriftKept
<1>z. ASSUME UNCHANGED <<portfolio, open, book>>,
             step[Loop] \notin {"delete", "order", "undo", "log", "lookup", "merge", "insert"},
             step'[Loop] \notin {"delete", "undo", "log", "lookup", "merge", "insert"},
             step'[Loop] = "order" => signal' = signal /\ signal.action # "buy"
      PROVE  DriftKept
  <2>1. InFlight = 0 /\ InFlight' = 0
    BY <1>z DEF InFlight
  <2>. QED
    BY <1>k, <1>z, <2>1
<1>r. ASSUME Return(Loop) PROVE step'[Loop] = "idle"
  BY <1>g, <1>r DEF Return
<1>3. CASE LoopSettingsChanged \/ LoopTimer
  BY <1>g, <1>z, <1>3 DEF LoopSettingsChanged, LoopTimer, money, table
<1>4. CASE ProcessMarket
  <2>1. ASSUME NEW m \in Markets, MarketHold(m) \/ MarketSignal(m) PROVE DriftKept
    BY <1>g, <1>z, <2>1 DEF MarketHold, MarketSignal, money, table
  <2>2. CASE CheckExposure
    BY <1>g, <1>n, <1>z, <2>2 DEF CheckExposure, money, table
  <2>3. CASE ReserveFunds
    <3>0. step[Loop] = "reserve" /\ UNCHANGED <<open, book>> /\ signal.action = "buy"
      BY <1>0, <2>3 DEF ReserveFunds, table, BuyInHand
    <3>1. CASE NextMarket /\ UNCHANGED portfolio
      BY <1>n, <1>z, <3>0, <3>1
    <3>2. CASE /\ portfolio' = Reserve(portfolio, signal.cost, "polymarket")
               /\ GoTo(Loop, "order") /\ UNCHANGED <<hands, signal>>
      <4>1. portfolio'.allocated["polymarket"] = portfolio.allocated["polymarket"] + signal.cost
        BY <1>0, <3>2 DEF Reserve, PortfolioState, Modules
      <4>2. InFlight = 0 /\ InFlight' = signal.cost /\ Held = open /\ Held' = open
        BY <1>g, <3>0, <3>2 DEF InFlight, Held
      <4>3. Exposure(Held)' = Exposure(Held)
        BY <3>0, <4>2 DEF Exposure, CapitalOf
      <4>. QED
        BY <1>1, <4>1, <4>2, <4>3 DEF Drift, DriftKept
    <3>. QED
      BY <2>3, <3>1, <3>2 DEF ReserveFunds
  <2>4. CASE Execute
    <3>0. step[Loop] = "order" /\ UNCHANGED <<portfolio, open, book>>
      BY <2>4 DEF Execute, money, table
    <3>1. CASE signal.action # "buy" /\ NextMarket
      <4>1. InFlight = 0
        BY <3>1 DEF InFlight
      <4>. QED
        BY <1>k, <1>n, <3>0, <3>1, <4>1
    <3>2. CASE GoTo(Loop, "undo") /\ UNCHANGED <<hands, signal>>
      <4>1. InFlight' = InFlight /\ step'[Loop] = "undo"
        BY <1>g, <3>0, <3>2 DEF InFlight
      <4>. QED
        BY <1>1, <1>k, <3>0, <4>1
    <3>3. CASE /\ \E status \in Statuses, spent \in SpentOf(signal.cost) :
                     signal' = [signal EXCEPT !.status = status, !.spent = spent]
               /\ GoTo(Loop, "log") /\ UNCHANGED hands
      <4>1. signal'.action = signal.action /\ signal'.cost = signal.cost
        BY <1>0, <3>3 DEF Signal
      <4>2. InFlight' = InFlight /\ step'[Loop] = "log"
        BY <1>g, <3>0, <3>3, <4>1 DEF InFlight
      <4>. QED
        BY <1>1, <1>k, <3>0, <4>2
    <3>. QED
      BY <2>4, <3>1, <3>2, <3>3 DEF Execute
  <2>5. CASE Undo
    <3>0. step[Loop] = "undo" /\ NextMarket /\ UNCHANGED <<open, book>>
      BY <2>5 DEF Undo, table
    <3>1. portfolio'.allocated["polymarket"] = portfolio.allocated["polymarket"] - signal.cost
      BY <1>0, <2>5 DEF Undo, Release, PortfolioState, Modules
    <3>2. InFlight = signal.cost /\ InFlight' = 0 /\ Held = open /\ Held' = open
      BY <1>0, <1>n, <3>0 DEF InFlight, Held, BuyInHand
    <3>3. Exposure(Held)' = Exposure(Held)
      BY <3>0, <3>2 DEF Exposure, CapitalOf
    <3>. QED
      BY <1>1, <3>1, <3>2, <3>3 DEF Drift, DriftKept
  <2>6. CASE RecordPrediction
    <3>0. step[Loop] = "log" /\ UNCHANGED <<portfolio, open, book>>
      BY <2>6 DEF RecordPrediction, money, table
    <3>1. CASE signal.status # "filled" /\ NextMarket
      <4>1. ~PaperExecutor
        BY <1>0, <3>0, <3>1 DEF PaperInv
      <4>2. 0 <= InFlight
        BY <1>0, <1>1 DEF InFlight
      <4>. QED
        BY <1>1, <1>k, <1>n, <3>0, <3>1, <4>1, <4>2
    <3>2. CASE GoTo(Loop, "lookup") /\ UNCHANGED <<hands, signal>>
      <4>1. InFlight' = InFlight /\ step'[Loop] = "lookup"
        BY <1>g, <3>0, <3>2 DEF InFlight
      <4>. QED
        BY <1>1, <1>k, <3>0, <4>1
    <3>. QED
      BY <2>6, <3>1, <3>2 DEF RecordPrediction
  <2>7. CASE LookupRow
    <3>0. step[Loop] = "lookup" /\ UNCHANGED <<portfolio, open, book>>
      BY <2>7 DEF LookupRow, money, table
    <3>1. CASE signal.action = "sell" /\ NextMarket
      <4>1. InFlight = 0
        BY <3>1 DEF InFlight
      <4>. QED
        BY <1>k, <1>n, <3>0, <3>1, <4>1
    <3>2. CASE GoTo(Loop, "insert") /\ UNCHANGED <<hands, signal>>
      <4>1. InFlight' = InFlight /\ step'[Loop] = "insert"
        BY <1>g, <3>0, <3>2 DEF InFlight
      <4>. QED
        BY <1>1, <1>k, <3>0, <4>1
    <3>3. CASE GoTo(Loop, IF signal.action = "buy" THEN "merge" ELSE "release") /\ UNCHANGED signal
      <4>1. InFlight' = InFlight /\ step'[Loop] \in {"merge", "release"}
        BY <1>g, <3>0, <3>3 DEF InFlight
      <4>. QED
        BY <1>1, <1>k, <3>0, <4>1
    <3>. QED
      BY <2>7, <3>1, <3>2, <3>3 DEF LookupRow
  <2>8. CASE InsertRow \/ MergeRow
    <3>1. InsertRow \/ (MergeRow /\ row[Loop] \in open)
      BY <1>2, <2>8 DEF MergeRow
    <3>2. PICK spent : /\ spent = signal.spent /\ spent \in Int /\ 0 <= spent /\ spent <= signal.cost
                       /\ Exposure(open)' = Exposure(open) + spent
      BY <1>0, <3>1, WriteStep
    <3>3. /\ portfolio' = portfolio /\ step[Loop] \in {"merge", "insert"} /\ NextMarket
      BY <3>1 DEF MergeRow, InsertRow, money
    <3>4. InFlight = signal.cost /\ InFlight' = 0 /\ Held = open /\ Held' = open'
      BY <1>0, <1>n, <3>3 DEF InFlight, Held, BuyInHand
    <3>5. Exposure(Held) = Exposure(open) /\ Exposure(Held)' = Exposure(open)'
      BY <3>4 DEF Exposure
    <3>6. PaperExecutor => spent = signal.cost
      BY <1>0, <3>2, <3>3 DEF PaperInv
    <3>. QED
      BY <1>1, <3>2, <3>3, <3>4, <3>5, <3>6 DEF Drift, DriftKept
  <2>. QED
    BY <1>4, <2>1, <2>2, <2>3, <2>4, <2>5, <2>6, <2>7, <2>8 DEF ProcessMarket
<1>5. CASE UpdatePredictionPrices
  <2>1. CASE ReadPrices \/ TickDone
    BY <1>g, <1>r, <1>z, <2>1 DEF ReadPrices, TickDone, money, table
  <2>2. ASSUME NEW i \in Ids, PriceRow(i) PROVE DriftKept
    BY <1>g, <1>r, <1>z, <2>2 DEF PriceRow, money, table
  <2>3. CASE UpdatePrice
    BY <1>g, <1>r, <1>z, <2>3 DEF UpdatePrice, money
  <2>. QED
    BY <1>5, <2>1, <2>2, <2>3 DEF UpdatePredictionPrices
<1>6. CASE Reevaluate(Loop)
  <2>1. CASE ReadPredictions(Loop)
    BY <1>g, <1>z, <2>1 DEF ReadPredictions, money, table
  <2>2. ASSUME NEW i \in Ids, ForceClose(Loop, i) PROVE DriftKept
    BY <1>g, <1>z, <2>2 DEF ForceClose, money, table
  <2>3. ASSUME NEW i \in Ids, ForceCloseRejected(Loop, i) PROVE DriftKept
    BY <1>z, <2>3 DEF ForceCloseRejected, money, table
  <2>4. CASE ReleaseCapital(Loop)
    <3>1. /\ step[Loop] = "release" /\ step'[Loop] = "delete"
          /\ UNCHANGED <<open, book, row>>
      BY <1>g, <2>4 DEF ReleaseCapital, table, hands
    <3>2. PICK i \in open : i = row[Loop]
      BY <1>2, <3>1
    <3>3. portfolio'.allocated["polymarket"] = portfolio.allocated["polymarket"] - book[i].capital
      <4>1. copy[Loop][row[Loop]] = book[i].capital
        BY <1>2, <3>1, <3>2
      <4>. QED
        BY <1>0, <2>4, <4>1 DEF ReleaseCapital, Release, PortfolioState, Modules
    <3>4. /\ Exposure(open) = book[i].capital + Exposure(open \ {i})
          /\ book[i].capital \in Int /\ Exposure(open \ {i}) \in Int
      BY <1>0, Closed
    <3>5. Exposure(Held)' = Exposure(open \ {i}) /\ Exposure(Held) = Exposure(open)
      BY <3>1, <3>2 DEF Exposure, CapitalOf, Held
    <3>6. InFlight = 0 /\ InFlight' = 0
      BY <3>1 DEF InFlight
    <3>. QED
      BY <1>1, <3>3, <3>4, <3>5, <3>6 DEF Drift, DriftKept
  <2>5. CASE DeleteRow(Loop)
    <3>1. /\ step[Loop] = "delete" /\ step'[Loop] \in {"market", "record"}
          /\ UNCHANGED <<portfolio, book>> /\ open' = open \ {row[Loop]}
      BY <1>g, <1>n, <2>5 DEF DeleteRow, money
    <3>2. InFlight = 0 /\ InFlight' = 0
      BY <3>1 DEF InFlight
    <3>3. Exposure(Held)' = Exposure(Held)
      BY <3>1 DEF Exposure, CapitalOf, Held
    <3>. QED
      BY <1>1, <3>1, <3>2, <3>3 DEF Drift, DriftKept
  <2>6. CASE RecordClose(Loop)
    BY <1>g, <1>z, <2>6 DEF RecordClose, money, table
  <2>7. CASE ReevaluateDone(Loop)
    BY <1>r, <1>z, <2>7 DEF ReevaluateDone, money, table
  <2>. QED
    BY <1>6, <2>1, <2>2, <2>3, <2>4, <2>5, <2>6, <2>7 DEF Reevaluate
<1>. QED
  BY <1>3, <1>4, <1>5, <1>6 DEF LoopStep

(* A statement that fails leaves the reservation of an order without a row *)
(* or a row without its capital, and neither is more than a third of the   *)
(* limit.                                                                  *)
LEMMA FaultStep ==
  ASSUME AloneInv, Unpushed, DatabaseFails(Loop), InitialLimit >= 0
  PROVE  \E lost \in Int : /\ Drift' = Drift + lost
                           /\ -InitialLimit <= 3 * lost /\ 3 * lost <= InitialLimit
<1>0. /\ TypeOK /\ AmountsOK /\ CheckedInv /\ BuyInHand /\ signal.cost >= 0 /\ InitialLimit \in Int
  BY MoneyAssumption DEF AloneInv, LoopInv, LimitInv, TypeInv, AmountsOK
<1>1. /\ Drift \in Int /\ InFlight \in Int
      /\ Exposure(open) \in Int /\ Exposure(Held) \in Int
      /\ portfolio.allocated["polymarket"] \in Int
      /\ signal.cost \in Int /\ Loop \in Actors
  BY <1>0, DriftType
<1>2. /\ cfg[Loop] = InitialLimit
      /\ \A i \in open : 3 * book[i].capital <= InitialLimit
      /\ step[Loop] = "delete" => row[Loop] \in open
  BY DEF AloneInv, PlacedInv
<1>3. /\ UNCHANGED <<portfolio, open, book>> /\ step'[Loop] \in {"market", "idle"}
      /\ step[Loop] \in {"read", "delete", "record", "exposure", "log", "lookup",
                         "merge", "insert", "price"}
  <2>1. NextMarket \/ Return(Loop)
    BY DEF DatabaseFails
  <2>2. step'[Loop] \in {"market", "idle"}
    BY <1>0, <1>1, <2>1 DEF NextMarket, Return, GoTo, TypeOK
  <2>. QED
    BY <2>2 DEF DatabaseFails, AtDatabase, money, table
<1>4. InFlight' = 0 /\ Held' = open
  BY <1>3 DEF InFlight, Held
<1>5. Exposure(Held)' = Exposure(open)
  BY <1>3, <1>4 DEF Exposure, CapitalOf
<1>6. CASE step[Loop] = "delete"
  <2>1. PICK i \in open : i = row[Loop]
    BY <1>2, <1>6
  <2>2. Exposure(open) = book[i].capital + Exposure(open \ {i}) /\ book[i].capital \in Int
    BY <1>0, Closed
  <2>3. InFlight = 0 /\ Held = open \ {i}
    BY <1>6, <2>1 DEF InFlight, Held
  <2>4. book[i].capital >= 0 /\ 3 * book[i].capital <= InitialLimit
    BY <1>0, <1>2 DEF TypeOK, AmountsOK
  <2>5. Drift' = Drift + (0 - book[i].capital)
    BY <1>1, <1>3, <1>4, <1>5, <2>2, <2>3 DEF Drift
  <2>6. PICK lost \in Int : lost = 0 - book[i].capital
    BY <2>2
  <2>. QED
    BY <1>0, <2>2, <2>4, <2>5, <2>6
<1>7. CASE step[Loop] # "delete"
  <2>1. Held = open /\ InFlight >= 0
    BY <1>0, <1>1, <1>7 DEF Held, InFlight
  <2>2. 3 * InFlight <= InitialLimit
    <3>1. CASE InFlight = 0
      BY <1>0, <3>1
    <3>2. CASE InFlight # 0
      <4>1. InFlight = signal.cost /\ step[Loop] \in Checked
        BY <3>2 DEF InFlight, Checked
      <4>2. 3 * (Exposure(InMarket(signal.market)) + signal.cost) <= InitialLimit
        BY <1>0, <1>2, <4>1 DEF CheckedInv
      <4>3. Exposure(InMarket(signal.market)) \in Int /\ Exposure(InMarket(signal.market)) >= 0
        BY <1>0, RowWithin
      <4>. QED
        BY <1>0, <1>1, <4>1, <4>2, <4>3
    <3>. QED
      BY <3>1, <3>2
  <2>3. Drift' = Drift + InFlight
    BY <1>1, <1>3, <1>4, <1>5, <2>1 DEF Drift
  <2>. QED
    BY <1>0, <1>1, <2>1, <2>2, <2>3
<1>. QED
  BY <1>6, <1>7

(* One more fault allows for one more share.                               *)
LEMMA OneMoreFault ==
  ASSUME NEW n \in Nat, NEW l \in Int
  PROVE  (n + 1) * l = n * l + l /\ n * l \in Int /\ 0 * l = 0
OBVIOUS

(* The account is kept.                                                    *)
LEMMA AccountStep == AloneInv /\ LoopInv' /\ [Next]_vars => AccountInv'
<1>. SUFFICES ASSUME AloneInv, LoopInv', [Next]_vars, Unpushed', InitialLimit >= 0 \/ faults' = 0
              PROVE  /\ -3 * Drift' <= faults' * InitialLimit
                     /\ PaperExecutor => 3 * Drift' <= faults' * InitialLimit
  BY DEF AccountInv, PaperExecutor
<1>0. TypeOK /\ TypeOK' /\ faults \in Nat /\ InitialLimit \in Int
  BY MoneyAssumption, BoundAssumption DEF AloneInv, LoopInv, LimitInv, TypeInv, TypeOK
<1>1. /\ Unpushed
      /\ \/ LoopStep /\ faults' = faults
         \/ DatabaseFails(Loop) /\ faults' = faults + 1
         \/ UNCHANGED <<portfolio, table, hub, step, hands, ticks, faults>>
  BY <1>0, AloneSteps DEF AloneInv
<1>2. /\ -3 * Drift <= faults * InitialLimit
      /\ PaperExecutor => 3 * Drift <= faults * InitialLimit
  BY <1>0, <1>1 DEF AloneInv, AccountInv
<1>3. Drift \in Int /\ (TypeOK => Drift \in Int)'
  <2>1. TypeOK => Drift \in Int
    BY DriftType
  <2>. QED
    BY <1>0, <2>1, DriftType, PTL
<1>4. PICK most \in Int : most = faults * InitialLimit
  BY <1>0, OneMoreFault
<1>5. CASE LoopStep /\ faults' = faults
  BY <1>0, <1>1, <1>2, <1>3, <1>4, <1>5, DriftStep DEF DriftKept
<1>6. CASE DatabaseFails(Loop) /\ faults' = faults + 1
  <2>1. InitialLimit >= 0 /\ faults' * InitialLimit = most + InitialLimit
    BY <1>0, <1>4, <1>6, OneMoreFault
  <2>2. PICK lost \in Int : /\ Drift' = Drift + lost
                            /\ -InitialLimit <= 3 * lost /\ 3 * lost <= InitialLimit
    BY <1>1, <1>6, <2>1, FaultStep
  <2>. QED
    BY <1>0, <1>2, <1>3, <1>4, <2>1, <2>2
<1>7. CASE UNCHANGED <<portfolio, table, hub, step, hands, ticks, faults>>
  <2>1. Drift' = Drift
    BY <1>7 DEF Drift, Exposure, CapitalOf, Held, InFlight, table, hands, ticks
  <2>. QED
    BY <1>2, <1>7, <2>1
<1>. QED
  BY <1>1, <1>5, <1>6, <1>7

(* All of it.                                                              *)
LEMMA AloneStep == AloneInv /\ [Next]_vars => AloneInv'
BY LoopInvStep, PaperStep, PlacedStep, AccountStep DEF AloneInv

(* As long as nobody else has closed anything, no statement has failed and *)
(* the worker has not been restarted, what the portfolio allocates to      *)
(* predictions covers the capital of those that are open and not about to  *)
(* be deleted: reserve_funds, release_funds and the table stay in step     *)
(* whatever orders report, spend or refuse, and however often the loop     *)
(* re-evaluates on its own.                                                *)
THEOREM AloneAlwaysCovers == Spec => []AloneCoversOpen
<1>1. AloneInv => AloneCoversOpen
  <2>. SUFFICES ASSUME AloneInv, Unpushed, faults = 0 PROVE AllocationCoversOpen
    BY DEF AloneCoversOpen, Unpushed
  <2>0. TypeOK /\ AmountsOK /\ InitialLimit \in Int
    BY MoneyAssumption DEF AloneInv, LoopInv, LimitInv, TypeInv
  <2>1. \A h \in Handlers : step[h] = "idle"
    BY DEF AloneInv, PlacedInv
  <2>2. open \ BeingDeleted = Held
    BY <2>1 DEF BeingDeleted, Held, Actors
  <2>3. -3 * Drift <= 0
    BY <2>0 DEF AloneInv, AccountInv
  <2>4. /\ InFlight >= 0 /\ Drift \in Int /\ InFlight \in Int /\ Exposure(Held) \in Int
        /\ portfolio.allocated["polymarket"] \in Int
    BY <2>0, DriftType DEF InFlight, AmountsOK
  <2>5. Drift >= 0
    BY <2>3, <2>4
  <2>6. Drift = portfolio.allocated["polymarket"] - (Exposure(Held) + InFlight)
    BY <2>4 DEF Drift
  <2>7. portfolio.allocated["polymarket"] >= Exposure(Held)
    BY <2>4, <2>5, <2>6
  <2>. QED
    BY <2>2, <2>7 DEF AllocationCoversOpen
<1>. QED
  BY InitAlone, AloneStep, <1>1, PTL DEF Spec

(* As long as nobody pushes settings and the worker has not been restarted, *)
(* an error path of the loop misplaces no more than what it had in hand:   *)
(* per statement that failed the allocation is short by a row at most,     *)
(* whatever the executor does, and with the paper executor it exceeds the  *)
(* rows by an order at most; each is at most a third of the limit.  A      *)
(* limit below zero lets nothing open.                                     *)
THEOREM FaultsAlwaysContained ==
  ASSUME InitialLimit >= 0
  PROVE  Spec => []FaultsAreContained
<1>1. AloneInv => FaultsAreContained
  <2>. SUFFICES ASSUME AloneInv, Unpushed, step[Loop] = "idle"
                PROVE  LET short == Exposure(open) - portfolio.allocated["polymarket"]
                       IN  /\ 3 * short <= faults * InitialLimit
                           /\ PaperExecutor => -3 * short <= faults * InitialLimit
    BY DEF FaultsAreContained, Unpushed
  <2>0. TypeOK /\ InitialLimit \in Int /\ faults \in Nat
    BY MoneyAssumption, BoundAssumption DEF AloneInv, LoopInv, LimitInv, TypeInv, TypeOK
  <2>1. Exposure(Held) = Exposure(open) /\ InFlight = 0
    BY DEF Held, InFlight
  <2>2. /\ Exposure(open) \in Int /\ portfolio.allocated["polymarket"] \in Int
        /\ faults * InitialLimit \in Int
    BY <2>0, DriftType, OneMoreFault
  <2>3. Drift = portfolio.allocated["polymarket"] - Exposure(open)
    BY <2>1, <2>2 DEF Drift
  <2>4. /\ -3 * Drift <= faults * InitialLimit
        /\ PaperExecutor => 3 * Drift <= faults * InitialLimit
    BY DEF AloneInv, AccountInv
  <2>. QED
    BY <2>2, <2>3, <2>4
<1>. QED
  BY InitAlone, AloneStep, <1>1, PTL DEF Spec
=============================================================================
