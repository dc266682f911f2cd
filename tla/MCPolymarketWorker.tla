-------------------------- MODULE MCPolymarketWorker --------------------------
(* The Polymarket module under five kinds of load, one of which a          *)
(* behaviour has from its beginning.  The .cfg gives the bounds that hold  *)
(* for all; each scenario narrows them.                                    *)
EXTENDS PolymarketWorker, TLC

CONSTANTS loop, h1, m1, m2

VARIABLE scenario

AnyProfit == {-1, 0, 1}

\* One handler, a failing statement, a restart, refused orders.
Pushes == INSTANCE PolymarketWorker WITH
    Sides <- {"yes"}, LimitPushes <- {1}, Actions <- {"buy"}, Costs <- {1},
    BetterFills <- FALSE, Statuses <- {"filled"}, Profits <- {0},
    MaxPushes <- 1, MaxFaults <- 1

\* Two pushes; the executor refuses nothing.
Compliance == INSTANCE PolymarketWorker WITH
    Sides <- {"yes"}, LimitPushes <- {0, 2}, Actions <- {"buy"}, Costs <- {1},
    BetterFills <- FALSE, Statuses <- {"filled"}, ExecutorMayFail <- FALSE,
    Profits <- {0}, Unpriced <- {}, MaxFaults <- 0, MaxRestarts <- 0

\* The loop alone, on one market that may fill less, or nothing.
Trades == INSTANCE PolymarketWorker WITH
    Markets <- {m1}, Profits <- {-1, 1}, Unpriced <- {},
    MaxPushes <- 0, MaxFaults <- 0, MaxRestarts <- 0

\* The loop alone over the paper executor, with failing statements.
Faults == INSTANCE PolymarketWorker WITH
    Sides <- {"yes"}, BetterFills <- FALSE, Statuses <- {"filled"},
    Profits <- {0}, Unpriced <- {}, MaxPushes <- 0, MaxRestarts <- 0

\* One push under fair scheduling.
Reacts == INSTANCE PolymarketWorker WITH
    Sides <- {"yes"}, LimitPushes <- {0}, Actions <- {"buy"}, Costs <- {1},
    BetterFills <- FALSE, Statuses <- {"filled"}, ExecutorMayFail <- FALSE,
    Profits <- {0}, Unpriced <- {}, MaxPushes <- 1, MaxFaults <- 0,
    MaxRestarts <- 0

MCInit == Init /\ scenario \in {"pushes", "compliance", "trades", "faults", "reacts"}

MCNext ==
    /\ \/ scenario = "pushes" /\ Pushes!Next
       \/ scenario = "compliance" /\ Compliance!Next
       \/ scenario = "trades" /\ Trades!Next
       \/ scenario = "faults" /\ Faults!Next
       \/ scenario = "reacts" /\ Reacts!Next
    /\ UNCHANGED scenario

MCSpec ==
    /\ MCInit /\ [][MCNext]_<<vars, scenario>>
    /\ WF_vars(scenario = "reacts" /\ Reacts!LoopStep)
    /\ SF_vars(scenario = "reacts" /\ Reacts!LoopSettingsChanged)
    /\ WF_vars(scenario = "reacts" /\ \E h \in Handlers : Reacts!HandlerStep(h))

\* With an executor that refuses nothing the loop's re-evaluations end compliant.
LoopSellsEnough == [][scenario = "compliance" => EndsCompliant]_vars

\* The same at rest: with every push seen, the open predictions are within the
\* limit in force, whoever has re-evaluated them.
RestsCompliant == scenario = "compliance" => SettledCompliant

\* What failed statements cost, under every load before a push or a restart, and with
\* the paper executor.
FaultsStayContained ==
    FaultsAreContained /\ (scenario = "faults" => Faults!FaultsAreContained)

\* A row that grows gets a price and a gain for all its shares.  Rows are treated
\* alike, and the first stands for any.
GainsCatchUp == (scenario = "reacts" /\ 1 \in unpriced) ~> (1 \notin unpriced)

\* A limit that is exceeded is met again, or raised.
ExcessGoes == (scenario = "reacts" /\ Exposure(open) > limit) ~> (Exposure(open) <= limit)

\* When all rest: a limit that was pushed is met by every re-evaluation that ended,
\* and by what is open; the smallest predictions went first; and a statement that
\* failed costs no more than the capital of one prediction.
RestsInOrder ==
    /\ [](TypeOK /\ RestsCompliant /\ FaultsStayContained)
    /\ LoopSellsEnough
    /\ SmallestFirst

\* The loop does not leave an excess, or a row without a price, for good.
LoopCatchesUp == ExcessGoes /\ GainsCatchUp
=============================================================================
