# A TLA+ verification of quasi-bots

quasi-bots is a Rust workspace: a crypto trading worker and its master, an MCP
server with knowledge, finance and news tools, the OAuth server in front of it,
and a terminal client.  This project models the parts of it whose correctness
depends on the order in which things happen, checks small instances with TLC and
proves the central properties for every instance with TLAPS.

## Inventory

| component | state | operations | what is hard |
|---|---|---|---|
| portfolio (`crypto/src/portfolio.rs`) | available balance, two allocations, realised result, total, behind one `RwLock`; snapshots in a table | `reserve_funds`, `release_funds`, `persist_snapshot`, `load_latest` | several tasks reserve and release at once; snapshots are 300 s apart |
| trading (`crypto/src/trading/service.rs`, loop in `main.rs`) | rows of `open_position`, `trade_record` | `tick`, `check_stop_losses`, `reevaluate_positions` | five awaits between the risk check and the insert; the same re-evaluation runs in two tasks at once; errors half way |
| Polymarket (`crypto/src/polymarket/service.rs`) | rows of `open_prediction`, `prediction_record` | `tick`, `reevaluate_predictions` | as above; positions are merged; two cost formulas |
| settings (`crypto/src/settings.rs`) | one row, a `watch` channel | `load_or_create`, `replace`, `get`, `subscribe` | two statements to persist; concurrent pushes; missed wake-ups |
| gRPC of the worker (`crypto/src/grpc.rs`) | none of its own | `UpdateSettings` and queries | each call is a task of its own |
| market feed (`trading/market_data.rs`) | last tickers, 200 candles a pair | one WebSocket loop | pairs fixed at start-up, no reconnection |
| strategy (`trading/strategy.rs`, `indicators.rs`) | none | `analyze`, pure heuristics | numeric edges |
| crypto master (`crypto-master/src`) | map of workers | discovery, fan-out, aggregation | reads of several workers are not one moment |
| authorization server (`mcp-auth/src/oauth`) | clients, pending authorizations, codes, tokens, in memory | register, authorize, Google login and callback, code exchange, refresh | single use under concurrency, expiry, consumed before checked |
| terminal client (`mcp-client/src`) | connection state on both sides of two channels | connect, login, call, disconnect, keys | answers and errors that arrive late, a login nobody completes |
| exchange clients (`finance/src/portfolio`) | two channels, a correlation id; pages fetched so far | WebSocket requests, ledger paging, portfolio | late answers, one channel for answers and pushes, pages cut at one timestamp |
| expenses (`finance/src/expenses`, tools) | categories and entries | enter, change, delete, three reports | ends of weeks, months, years |
| knowledge (`knowledge/src`) | topics, entries, affinities, reviews, with triggers | next question, affinities, reviews, additions | several statements a call, concurrent calls, rotation |
| news (`news/src`) | topics, articles; broken links in memory | refresh, purge | one task a feed, failures, restarts between insert and summary |
| quotes (`skill-master/src/quotes`) | table of quotes, a `Notify` | task, next quote | a wake-up that may be lost; two callers and one quote |
| telemetry, monitor, migration, communication | none | start-up, generated code | |

The crypto worker is the part with money, shared state and concurrency, and the
repository calls it experimental; it comes first.

How the worker's parts interact.  `main` starts a trading loop, a Polymarket
loop, a snapshot task, a market feed and a gRPC server.  Both loops wait in a
`select!` for their interval or for a change of the settings; a change makes
them re-evaluate what they hold.  An `UpdateSettings` call persists and publishes
the settings and then runs the same re-evaluations itself, in its own task.  All
of them share the portfolio, and each module's tables are shared by its loop and
the handlers.  Nothing but the portfolio's lock orders them.

## Modules

| module | what it is |
|---|---|
| `Portfolio` | `PortfolioState` and its operations, as functions from states to states |
| `TradingWorker` | trading loop, trading service, `UpdateSettings` handlers, restarts |
| `FundsLedger` | what the portfolio promises: capital is committed once, handed over, settled once |
| `TradingLedger` | `TradingWorker` with the refinement mapping to `FundsLedger` |
| `PolymarketWorker` | Polymarket loop and service, its half of the handlers |
| `MarketFeed` | the feed task, the exchange, the trading loop's reads |
| `Decisions` | decision engines and strategies, from an answer to a signal |
| `FleetReports` | the master's reports over workers that trade meanwhile |
| `SettingsService` | the settings' table and watch channel under concurrent calls, errors and crashes |
| `OneTimeGrant` | what the authorization server promises of a flow |
| `AuthorizationServer` | its five tables and the handlers of all requests |
| `ClientApp` | the terminal client: user interface, session worker, login |
| `QuoteBank` | the quotes task and the tool that hands quotes out |
| `NewsRefresh` | refreshing feeds, broken links, purging |
| `KnowledgeBank` | questions in turn, rests, reviews, the triggers of the tables |
| `ExpenseBook` | expenses, the calendar and the reports |
| `SocketClient` | requests and pushes over one websocket |
| `LedgerFetch` | paging through the exchange's ledger while it grows |
| `Totals` | sums over finite sets, for the allocations, the exposures and the reports |
| `CryptoParts`, `FinanceParts` | parts of one crate side by side, for their run and their proofs |
| `Accounts_proofs` | induction, the laws of sums, the operations of `Portfolio` |
| `TradingWorker_proofs` | theorems about `TradingWorker`, and that `TradingLedger` implements `FundsLedger` |
| `PolymarketWorker_proofs` | theorems about `PolymarketWorker` |
| `AuthorizationServer_proofs` | theorems about `AuthorizationServer`, and that it implements `OneTimeGrant` |
| `ClientApp_proofs` | theorems about `ClientApp` |
| `Crypto_proofs` | theorems about `SettingsService`, `MarketFeed`, `Decisions` and `FleetReports` |
| `SkillMaster_proofs` | theorems about `QuoteBank`, `NewsRefresh` and `KnowledgeBank` |
| `Finance_proofs` | theorems about `LedgerFetch`, `SocketClient` and `ExpenseBook` |
| `MC...` | the instances for TLC |

Composition.  `TradingWorker` and `PolymarketWorker` are each the product of
their loop and the handlers over one `Portfolio`; what the other module does to
the portfolio is one reservation and one release in `TradingWorker`
(`PolymarketReserve`, `PolymarketRelease`), which is all it can do.
`SettingsService` shows what the settings' channel delivers, `MarketFeed` what
the loop finds in its two channels and `Decisions` what a strategy may answer;
`TradingWorker` takes any of these.  `MCCrypto`, `MCSkillMaster` and `MCFinance`
put several parts into one run: see Runs.

### TradingWorker

*State.*  `portfolio` is `PortfolioService.state`; `snapshot` the newest row of
`portfolio_snapshot`, or the starting state when there is none.  `open`, `book`
and `opened` are the `open_position` table: ids in the order of `opened_at`, and
the columns that are read back.  `settings`, `changed` are the watch channel and
the loop's receiver; `feed` the pairs the market feed subscribed to.  `phase`
and `step` are an actor's place in the code, `cfg`, `work`, `kept` and `row` its
local variables; `queue` and `order` belong to the tick.  `unrecorded` and
`rejected` take notes of what the code does not keep and a property needs.

*Steps.*  Tokio switches tasks at awaits only, so a step runs from one await on
shared state to the next: `ReleaseCapital`, `DeletePosition` and `RecordClose`
are three steps because `release_funds`, `delete_by_id` and `record_trade` are
three awaits.  The two queries of `check_risk` are one step: only the loop
inserts rows, so what can happen between them makes the first more permissive
and never the second.  `ExecuteClose`, `ReleaseCapital` and the steps after them
stand for `force_close_position`, the body of `check_stop_losses` and (from the
release to the delete) the Sell arm of `update_positions`, which are the same
sequence of calls.

*Data.*  Amounts are integers; a position's size is the share `1 / SizeDivisor`
of the balance, standing for the two percentages when both are within 0..100
(`SettingsService::validate` bounds their sum and the second one).  Prices do not
appear: what an order that closes a position brings in, less its fee, is any element
of `Returns`, including nothing, as the paper executor has it (`executor.rs:25`), and
what a Sell of the strategy brings in any element of `SellReturns`.  The two differ: a
position is closed by an order of its own quantity, whose fee is a share of what it
brings in, while a Sell is an order sized on the balance, and its fee, which is taken
from what the position brings in (`service.rs:425`), may be more than that.  Any set of
positions may be at its stop.  An order is filled at the price of its ticker; what is
left open is whether it is refused, unfilled, half filled or filled.  The fee of
a Buy is not booked by the code and does not appear.  `max_open_positions` may be
negative and then is no limit, as the casts have it.

*Failures.*  `DatabaseFails` makes the statement an actor is about to run fail:
`?` takes a tick to the next ticker and everything else back to its start.
`CloseRejected` and `TickUndo` are the executor's errors.  Two histories serve
`FaultsAreContained`: `leftOver` is what orders reserved and made no position of, and
`atFault` the capital that failed statements had in hand.  `Restart` is a crash,
or a shutdown, at any point, and a start from the newest snapshot.

*Left out.*  `unrealized_pnl` and the current prices are reported figures;
events are broadcast to nobody who acts on them; persisting and publishing a
push is one step here and several in `SettingsService`.

### FundsLedger and TradingLedger

`FundsLedger` knows holders.  A holder commits free capital, hands it to another
holder when an order becomes a position, and settles it once.  `TradingLedger`
maps the order under way to holder 0 and every open row to its id; a row whose
capital has been released and which is not deleted yet holds nothing.  The code
implements this ledger when nobody but the loop closes positions, positions are
only bought, and accepted orders are filled in full.  Each of the three
conditions is needed: `trading_double_close` drops the first and `trading_sells`
the second, and an order that is accepted without being filled keeps its
reservation as a Sell does.

### SettingsService

`row` is the table `bot_settings`, `published` and `version` are the watch
channel, `seen` a receiver's place in it and `applied` the settings a loop has
last acted on.  A call runs from await to await: `Push` validates, `DeleteRow`
and `InsertRow` are the two statements of `persist`, `SendSettings` publishes.
Every insert has the id 1, so it is refused while there is a row.  `CallFails` is
a failing statement or a call that the server drops because its client has gone;
the statement it was awaiting may have run.  `Start` is `load_or_create`, which
runs before anything else does; `Crash` keeps the row only.  `overlapped`,
`failed`, `refused` and `defaulted` are notes for the properties.  Settings are
values without an inside: which of them `validate` accepts is a constant.  `update`
has no caller and is left out.

### PolymarketWorker

*State.*  As in `TradingWorker`: `open`, `book`, `opened` are the table
`open_prediction`, `limit` and `changed` the watch channel and the loop's
receiver, `step` an actor's place in the code and `cfg`, `todo`, `copy`, `total`,
`row`, `queue`, `signal` its locals.  Of a row only market, side and
`allocated_capital` (which is `avg_price * shares`) are kept; `unpriced` are the
rows whose reported gain is not that of their shares.  A signal carries its cost,
and what the executor made of it (`spent`, `status`).

*Steps.*  From await to await.  `reevaluate_predictions` reads the rows once, sums
their capital and sells the smallest until the sum is within the limit, where a
refused order counts as sold (`force_close_prediction` logs it and returns `Ok`).  `process_market` checks the
exposure, reserves, executes, looks the row up and merges or inserts it, each in a
step of its own.  `update_prediction_prices` stops at the first order book that
is out of reach.

`main` wires the paper executor, which lists no markets; the instances with
markets are the service over `HttpPolymarketExecutor`, where an order may be
placed and not filled.  Costs are not negative, as limit prices are not.

### MarketFeed and Decisions

`MarketFeed` numbers the tickers and candles of a pair.  `tickers` and `candles`
are the two watch channels, `seen` and `history` what the loop has copied, one
after the other; the feed may publish in between, and may end at any time.  An
indicator is the set of candles it needs; the formulas are left to the crate that
computes them.

`Decisions` follows one question from the order book or the indicators to the
signal: the provider's answer may be lost, not be JSON, or be an object with a word
for the action that is not known and without a confidence, and a confidence may lie
outside 0..1, since the parser does not clamp it.  Prices and confidences
are in units of 1/40 dollar, in which the heuristics' limits (5, 10, 95 cents)
are exact.  Live order books report a liquidity of 0; with the default threshold of
50 the heuristics would refuse every one of them, so the instance sets 1 and takes
both 0 and 1.

### FleetReports

A worker is its open position, the two results of its portfolio and its trade
records.  The master's report of a worker is four calls, each a step, between
which the worker trades and updates its prices; a call may fail.  The gRPC and the
REST server have the same handlers and only read, so one request at a time is
enough.  `seen` is a history variable: the totals a worker had since the request.
A trade is one step here (how it comes about is `TradingWorker`) and its order
fills; `update_position_prices` is in its own steps, since a handler may
close a position between the update of its row and that of the portfolio.
`MaxTrades` is a bound per worker.  `compute_max_drawdown` is a step per trade
(`OneMore`) and the recursive function that repeats it.  `DrawdownIsWorstRun` says what it should
compute without it, from the records: the dearest of all runs of consecutive sells.

### OneTimeGrant and AuthorizationServer

`pending`, `google`, `sessions` and `tokens` are the tables of `store.rs`, each
behind a lock of its own; a *flow* is one authorization, and records carry it
though the code's do not.  A request is a task: `at` is the lock or the answer it
waits for, `target` the id it looks for, `held` a grant that it has taken out of a
table.  `Dropped` ends a task anywhere, as axum drops the handler of a client that
has gone; `Restart` empties the tables.  `Tick` moves the clock, against which
consent pages and Google states (`PendingTtl`) and tokens (`TokenTtl`) expire.
What a request may get wrong besides (redirect URI, resource, code verifier, the
owner's account) is one nondeterministic outcome where the code checks it.

`OneTimeGrant` is a flow's life: consent, signing, code, redeeming, token, and
from token to token; the grant stays with its client and with an owner who is on
the list, may be lost, and never comes back.  The mapping looks for the flow's record
in the tables and hands: `ImplementsOneTime`.

### ClientApp

The two tasks of `mcp-client` and the two channels between them.  `ui` is where
`run_tui` is (draining events, polling keys, closing), `conn`, `has_session` and
the following are fields of `App`, `at` is what `session_worker` awaits, and
`listener`, `callback` are the login's callback task and its port.  Every key of
every pane is an action, guarded as the `match` has it.  A filter is the set of
tools its text matches, an argument text the set of fields it gives.  Drawing,
status lines and the log are left out.

### QuoteBank, NewsRefresh, KnowledgeBank

These work on SQLite tables through `sqlx`.  A statement is a step, and a
transaction that reads and then writes is two: SQLite lets the write through only
when nobody has committed since the read (`MayCommit`, external).

`QuoteBank`: `permit` is the permit that `Notify` keeps for a task that is not
waiting; `Rest` lets six months pass for one quote.  `NewsRefresh`: time in hours,
one task a feed, `broken` the shared map of links with their attempts, `table` the
articles (absent, bare, full); `failed` takes note of articles whose summary failed
or was interrupted.  `KnowledgeBank`: time in days; the triggers of the migration
that keep `disabled_until` and the review rows are part of the statement that
fires them.  `passed` and `due` are history variables: how often an item was passed
over while it was free, and the day it is to rest until.  `Watched` bounds the items
for which that is counted.

### ExpenseBook, SocketClient, LedgerFetch

`ExpenseBook`: a date is the number of a day; a call is one statement, and what a
report answers is an operator on the table.  Years are counted from 1 to `LastYear`,
and any of them may be leap (`LeapYears`); `YearStart` and `MonthStart` are the days
that `chrono` makes of a year and a month, for a year more on either side.

`SocketClient`: the writer and reader tasks, their channels and the exchange.  A
correlation id is the kind of a request and a time stamp: of the client's own clock
(`now_ms`) for the kinds in `Clocked`, and `server_ts`, which the caller chooses, for
the others.  Of a stamp it matters only whether it has been used before, and
`stamp` is `None` when more than a timeout has passed, so that a stamp in use is not
used again by the clock alone.  `NewIdIsFree` says of an id by the clock that no
command and no answer on its way has it, as long as answers come in; an id with the
caller's stamp has no such promise, and the instance has a kind of each.  The client
is exported by the crate; no binary of the repository uses it yet.

`LedgerFetch`: the exchange (external) gives the oldest entries first, up to a
limit, in any order within a page.  `before` remembers what there was when the fetch
began.  All entries are of one kind and worth a dollar: their totals are not
modelled.

## Runs

| run | instance | shows |
|---|---|---|
| `trading_scenarios` | two pairs; four scenarios: *pushes* (two symmetric handlers, two pushes, no money), *restarts* (one push, one crash, refused orders), *orders* (the loop alone, buys and sells, every outcome, a Sell that costs more than it brings in), *faults* (the loop alone, two failing statements) | one position a pair, no opening beyond the limit, no position in a forbidden pair once the loop has settled, balanced books, an allocation that covers the open positions while only the loop acts and nothing fails (`AloneCoversOpen`) and, counted exactly, is off from what is held by what orders left over, give or take what failed statements had in hand (`FaultsAreContained`) |
| `trading_promises` | *capital* (the loop alone, buys filled in full, refused orders, the Polymarket module reserving) and *reacts* (one handler, two pushes, fair) | `ImplementsLedger`, an exact allocation, a balance that is never negative; forbidden positions are closed in the end and stop-losses are those in force |
| `trading_double_close` | one handler, one push that removes a pair | violation: see Findings |
| `trading_sells` | the loop alone, buys and sells | violation |
| `settings_calls` | two calls, two loops (symmetric), three pushes, one failure, one crash, fair receivers | overlapping calls never leave the table empty; without overlap and failure the table is what was published; only overlaps have inserts refused; each loop ends up with the settings in force |
| `settings_defaults` | one call, one crash | violation |
| `auth_grants` | two clients, two accounts, two tasks, two flows, two logins, two codes, three tokens, a clock of 2 | `OneGrantPerFlow`, `OneValidToken`, `ImplementsOneTime` |
| `predict` | five scenarios: *pushes* (a handler, a failing statement, a restart, refused orders), *compliance* (two pushes, nothing refused), *trades* (the loop alone, one market that fills less or nothing), *faults* (the loop alone, two failing statements), *reacts* (one push, fair) | an allocation that covers the open predictions while only the loop acts and nothing fails (`AloneCoversOpen`); a prediction grows within the total limit and a third of it for its market (`ExposureBounded`); re-evaluations sell the smallest first and until compliant, and a failed statement misplaces a third of the limit at most (`RestsInOrder`); an excess does not last, and prices catch up (`LoopCatchesUp`) |
| `client` | two tools, three lists, three keys, any answers | what is selected is shown; no title of waiting without a wait; a session that is believed in is there; quitting and waiting end |
| `crypto` | *feed* (two pairs, a window of 2 and 3 candles), *decide* (seven quotes, seven confidences), *pair*, *single*, *updated* (one or two workers, up to three records) | `FeedSound`, `OrdersJustified`, `ReportsSound`, `UnrealizedSettles` |
| `skill_master` | *quotes* (two quotes, two clients), *news* (one URL under two topics, two articles, four hours, a restart), *alone*, *rests*, *calls* (two topics, three entries; two calls at once) | `QuotesSound`, `NewsSound`, `KnowledgeSound` |
| `finance` | *expenses* (two years, thirteen days at their boundaries, two entries), *subscribed*, *quiet* (two kinds of requests, one by each clock, and two stamps), *ledger* (pages of two, up to three entries in three milliseconds) | `ReportsAddUp`, `AnswerIsOwn`, `PagesComplete`, `RequestsEnd` |

*Scenarios and parts.*  In most runs one variable is chosen by `Init` and never
changes: the scenario of a module (each an `INSTANCE` that narrows the bounds), or
one of several modules, whose variables then move while those of the others stay as
they began.  Scenarios differ in what they afford: the properties about pairs and
limits need two handlers and no money, those about money need amounts and fewer
actors.  Modules that are put side by side share no state, so that every behaviour
of the product is, seen from one of them, one that the run has.  Fairness is
conditioned on the scenario in the same way.  A property of several parts is a
conjunction of named ones, which are stated in the part's module; each conjunct
has a mutant of the code that breaks it.

*Why the bounds are enough to be of interest.*  Two positions are what a
duplicate, an excess row and a row that another actor deletes need.  Two
handlers and two pushes give every pair of concurrent re-evaluations, with equal
and with different settings, next to a tick.  One restart or one failing
statement can fall between any two steps.  Two tasks and three tokens are two
refreshes of one token, or a refresh beside a restarted flow; a clock of 2 lets a page
expire between any two looks at it.  Three keys are what it takes to press one while
the answers of two are on their way.  A window of 2 and three candles overflow
once; two quotes and two clients leave one client without; one URL under two topics
is the least that two feed tasks can share.  Three entries in three
milliseconds, two to a page, put a tie on a page's end, and the last two of the
milliseconds are in different seconds.

*Deadlock* is checked in every run but the settings' and the authorization
server's: once the bounded pushes, flows and ids are used up and everybody has seen
the last value, these two wait for calls, as they should.

*Fairness.*
* Trading: the loop's task is scheduled and its awaits are answered (`WF` of
  `LoopStep`), and a `select!` which finds the settings changed again and again takes
  that branch at last (`SF` of `LoopSettingsChanged`): tokio's `select!` picks at
  random among the branches that are ready.  Nothing is asked of the handlers, so
  `ForbiddenPairsClosed` holds even when a handler stops half way.
* Polymarket: the same, and `WF` of the handlers: a row that a handler has sold and not
  deleted yet still counts as exposure.
* Settings: a loop whose receiver has something to see is scheduled; nothing is
  asked of the calls.
* Client: the loop of `run_tui` and the session worker go on, and requests
  answer or fail.  `WaitsReturn` needs in addition that every login be completed in
  the browser (`AcceptCallback`); without that the program does not return, see below.
* Quotes and news: the tasks go on, timers fire, requests answer or fail.
* `UnrealizedSettles`: the loop goes on updating, and the exchange does not refuse
  every price.
* Websocket: a request that waits is woken when an event or its timeout comes;
  nothing is asked of the exchange.  Ledger: the exchange answers.

## Proofs

A theorem is about the specification of its module, with any set of pairs, handlers,
workers, tasks, topics or messages and any bounds, from the assumptions that the
module declares of its constants.  Some results are true only under conditions that
the code does not meet by itself; these state the conditions, and their names are
defined next to them:

| theorem | condition | what happens without it |
|---|---|---|
| `LoopImplementsLedger`, `AllocationAlwaysExact` | `LoopAlone`, `OrdersInFull` | runs `trading_double_close`, `trading_sells` |
| the same two, `AvailableStaysNonNegative`, and of the trading module `AloneAlwaysCovers` and `FaultsAlwaysContained` | `SalesPay`: no sale costs more than it brings in (a condition on Sells of the strategy only, see above; without Sells `SellReturns` is empty) | a Sell of a small position whose order has taken the whole balance takes `available_balance` below zero, and later orders are sized on that |
| `AloneAlwaysCovers` (both modules) | in the property: no push, no failed statement and no restart so far | `trading_double_close` |
| `FaultsAlwaysContained` (both modules) | in the property: no push and no restart so far; for predictions, a first limit that is not negative | `trading_double_close`; nothing opens, and the bound itself is below zero |
| `SettledStopsAlwaysCurrent` | `OneHandler`, `SameLimit` | a re-evaluation that stops half way, see Findings |
| `SellsEnough`, `RestsWithinLimit` | no order is refused, limits are not negative | a refused order counts as sold |
| `NeverPassedThrice`, `ResetAlwaysFinds`, `RestAlwaysKept` | `OneCall` | two calls take one topic, see Findings |

*Sums and induction* (`Accounts_proofs`).  The exposure and the allocation are sums
over a set, which `MapThenSumSet` adds up in an order of its own choosing.
`InductiveSet` is induction for a set of numbers, from the library's theorem that a
non-empty subset of a well-founded set has a minimal element; with it, a table of
the sums of all subsets exists and is unique, and `TotalAdd`, `TotalRemove`,
`TotalUpdate`, `TotalSubset` and `TotalMonotone` follow.  `ReserveType`, `ReleaseType`
are the arithmetic of the portfolio.  The same induction shows what the recursive
`Matching` of the client returns (`MatchingShows`), and that a best worker exists in
every report (`BestExists`).

*TradingWorker.*
* `TypeCorrect`: `TypeOK` is strengthened to `TypeInv`.  `RowInHand` says that
  an actor between release and record holds a row; `RoomToOpen` that a Buy under
  way still finds a free id.  Without them `ReleaseCapital` and `TickOpen`
  would leave their types.
* `AvailableStaysNonNegative`: `MoneyInv` adds that the snapshot is as sound as the
  state in memory (a restart replaces one by the other) and that the order under way
  was sized on a balance that was not negative.  It needs `SalesPay`, and the run that
  checks the property has no Sells.
* `BooksAlwaysBalance` needs no condition: the sum of the books is kept by a sale that
  costs money, and by a position that is closed twice (`BooksStep`).  That is why the
  double release shows in the allocation only.
* `LoopImplementsLedger`: `RowsInHand` says that a row to be closed is in the
  table until the loop deletes it and is not in its list a second time, so that
  every release settles a holder that holds something; `BoughtInFull` that a
  position takes over exactly what its order reserved.
* `AllocationAlwaysExact` follows from the refinement: a step of the ledger changes
  the allocation by what it changes in the sum of what the holders hold
  (`PromiseAllocates`).  `AloneAlwaysCovers` lets orders be sold, unfilled or half
  filled: a step that is none of the ledger's only leaks, that is, a holder loses its
  claim and the allocation keeps it (`Leak`, `LeakAllocates`).
* `FaultsAlwaysContained` also lets statements fail, as often as they like, and has no
  condition but the property's own: no push and no restart so far.  `AccountInv` keeps
  the account from step to step.  A step of the ledger moves allocation and holdings
  together, a leak moves capital from the holdings to `leftOver`, and a failure
  moves the holdings by what the statement had in hand (`FaultMisplaces`): an executed
  order loses its claim, a position that was sold and not deleted gets its claim back.
  `AloneAlwaysCovers` is the case without failures.
* `OnePositionAlways`, `OpensStayWithinLimit`: `PairInv` says what `check_risk`
  saw still holds at every later step of the tick: no other row has the order's
  pair, and there is room under the limit.  It rests on the fact that only the
  loop inserts rows; the theorems would fail if a second task ticked.
* `SettledPairsAlwaysAllowed`: `AllowedInv` says that as long as the loop has no
  unseen settings, every row in a forbidden pair is one the loop is about to
  look at or is closing, and no tick is under way in a forbidden pair.
* `SettledStopsAlwaysCurrent`: `StopInv` says that a stale stop-loss is one the
  loop's re-evaluation has still to reach (`Treating`), and that no row it will come
  to has gone, so that it does reach it.  `LimitInv` keeps re-evaluations from
  finding an excess, and `HandlerInv` says that the handler works with what it
  has published.

*PolymarketWorker.*  `NeverBeyondExposure`: `CheckedInv` says that what
`check_exposure` saw still holds when the row is written, since everybody else only
takes rows away and the row to merge into is as it was read.  `SmallestGoFirst`:
while the loop re-evaluates, its copies agree with the rows and `total_exposure` is
what the rows still to treat add up to (`ReadInv`).  `SellsEnough` and
`RestsWithinLimit`: when nothing is refused, every open row is among those
(`CompliantInv`).  `AloneAlwaysCovers` and `FaultsAlwaysContained` come from one invariant, `AloneInv`.
`Drift` is what the allocation holds beyond the rows and the order in flight, where a
row that has been released and not yet deleted counts no more.  `PlacedInv` says that
the rows that were read are open but for the one just deleted, that the loop releases
what the row holds, and that no row has more than a third of the limit.  A step of the
loop then never lowers the drift, and with the paper executor leaves it as it is
(`DriftStep`, `PaperInv`); a failed statement moves it by the row or the order in hand,
a third of the limit at most (`FaultStep`); `AccountInv` adds these up.
`AloneAlwaysCovers` is the case without failures.

*SettingsService.*  `NeverLeftEmpty`, `DivergeOnlyByOverlap`, `RefusalsAreOverlaps`:
the invariant says where a call is from what the table holds.  An empty table
means some call is before its insert, since a refused insert found a row; without an
overlap a call has the table to itself, and the row is the published one before its
delete and the pushed one after its insert.

*MarketFeed.*  `Run` is the inductive form of a gapless history: it ends with its
last candle and is as long as the feed and the window let it be.  `CandlesOK` says it
of what is published, and that the last candle is the newest closed one while the
feed is up; `CopiesOK` says it of the loop's copies, which are never longer than what
is published and support every indicator of the last round; `DueOK` follows the
candles that were there when the loop took the tickers to its second read.
`IndicatorsAlwaysStay` holds because neither the window nor its copy ever gets
shorter.  `FeedAlwaysSound` is all of the run's `FeedSound`.

*Decisions.*  `OrdersAlwaysJustified`: a book does not cross and has its middle between its sides
(`BookInv`), and a recommendation is what was made of the answer (`RecInv`).

*FleetReports.*  Four calls make a worker's report, and the worker trades between
them.  `Asking`: while a request runs, every worker's total is among those seen.
`Apart`: the workers that are left, called, failed and reported partition the pool.
`ReadsOK`: what has been read of a worker is one of its totals.  `DrawdownAlwaysWorstRun`
needs a second invariant, `PagesOK`: the trades that were read are the last of the
records as they were at some length (`PageOf`), and every report's drawdown is the
worst run of such a page (`Judged`); records are only added, which changes no run before
them (`JudgedStays`).  That the loop finds the worst run is `LoopOverPage`: when it has
come down to record *lo*, its sum is what the records *lo* to *k* have cost, negated, its peak the
highest of these sums so far, and its drawdown the greatest difference of two of them
(`LoopAt`); what a run costs is such a difference (`RunCostSplits`).  `ReportsAlwaysSound` is
all of the run's `ReportsSound`.

*AuthorizationServer.*  `TaskOK` strengthens the types: a waiting task has
the id or the grant its next step works on.  `OneGrantAlways` rests on `Unique`,
which for every flow says in pairs what the property says at once: one code, one
token, one task that holds its grant (`OneCode`, `OneToken`, `OneHolder`), none of
them beside another or beside the consent page (`CodeAlone`, `TokenAlone`,
`HolderAlone`), and ids that were not given out are nowhere (`Fresh`).
Each is preserved because a handler takes a record out of a table under
that table's lock before it goes on.  `OneValidTokenAlways` follows from it.

`ServerImplementsOneTime`: the grant of a flow is read off the one place that
`Unique` leaves it (`GrantKnown`), and a flow none of whose entries changed keeps
its grant (`SameGrant`).  With these, one lemma per step of a handler shows that
the step opens, moves or loses the grant of one flow and leaves the others alone.
Loss by expiry, by a dropped request or by a restart may take several flows at
once, which is why `Lose` has a set.  The proof needs that no stored record is
`None` (`NoneAssumption`).

*ClientApp.*  `SettledAlwaysNotPending`: `WaitInv` says that a wait which is shown, or
on its way to be shown, has its end before it: an event that follows it, a login or
connect under way, a call that is made or queued.  `BelievedAlwaysExists`: a
worker without a session has told the loop so after whatever could make it believe
otherwise (`BeliefInv`).  `ScreenAlwaysSound`: `ScreenInv` types both channels by what
the two tasks send, and `MatchingShows` says that the indices shown are those of the
tools that match, in order.

*QuoteBank.*  `ReadStillFresh`: a client about to write whom nobody has overtaken
still holds a fresh quote.  `PermitKept`: a refusal since the last count has left its
permit, before the task waits as well as while it does.

*NewsRefresh.*  A task touches articles of its own feed only (`OwnArticles`), and
one that stores its summaries has taken note of those it could not make
(`TriedInv`).

*KnowledgeBank.*  `ClearedAlwaysBack`, `ReviewAlwaysThere` are about the triggers and
hold for any number of calls.  The other three are about turns.  `PassedInv` bounds
how often an item was passed over by another by what there is `Room` for: once while
both or neither are marked, twice while only the other is, never while only it is.
`ResetInv` says that a reset finds nobody who waits and was passed over, `CallInv`
that what a call has read still holds, `DueInv` that what was taken is disabled as
long as its affinity said.

*LedgerFetch.*  `CoveredOK`: what was in the ledger when it was asked for is fetched,
or of the time of something fetched, or not before `start`; when the pages are over,
the last is impossible.  `OnceOK`: unless what is fetched goes back in time, all of it
lies before `start`.  `SortKeepsTheOrder`: the client's sort by the second does not
make it go back.

*SocketClient.*  `OwnStamp`: as long as answers come in, the only message with the
millisecond of the last request is that request or its answer, once.  An id by
the clock is therefore free when it is taken (`NewIdAlwaysFree`), and what a request
returns has the id it asked with (`AnswerAlwaysOwn` is both).

*ExpenseBook.*  `ExpensesTypeCorrect` is all that is needed of the steps: every entry has
a day of the calendar and a category of the table, and `ReportsAddUp` is true of any such
table, for any number of years, leap or not.  The calendar is built by induction:
`YearFollows` (the recursion of `YearStart` has a table, a year begins when the one before
it has passed), `YearsAscend`, `YearFound`, and with them `YearIs`, that `YearOf` is the
one year a day is in.  Within a year `MonthsFollow` sums up the months before each, and
`MonthIs` says that the month which is read off a day is m exactly when the day is in
the range that `list_by_month` asks for.  `TotalByKey` (a sum may be made by keys first)
then gives the months of the year's report and the categories of every report; that the
weeks overlap nowhere is division by seven (`WeekIs`).  The recursion of `YearStart` is
a function, so that its existence can be proved.

*Only model-checked.*  Every invariant of the runs that pass is stated by a theorem.  Beyond the
prover: everything under fairness (`ForbiddenPairsClosed`, `ReceiversCatchUp`,
`LoopCatchesUp`, `WaitsReturn`, `UnrealizedSettles`, `RequestsEnd`, the wake-up in
`QuotesSound`, the purge in `NewsSound`).

## Findings

Three runs end in a violation of what a comment in the code says.

* Positions closed twice (`trading_double_close`).  The handler and the loop both
  work through the rows they have read; neither looks at the table again before
  it sells and releases, and the capital of one position leaves
  `trading_allocated` twice.
* Reservations of Sell orders (`trading_sells`) are never released.
* Settings lost (`settings_defaults`).  The row is deleted and inserted without
  a transaction; a crash, an error or an abandoned call between the two makes the
  next start create the defaults.

Other places where code and words differ, met while modelling.  The models behave as
the code does there, and no run depends on the words.

* A re-evaluation ends at the first row that another one has deleted
  (`trading/service.rs:262`): `update()` fails with `RecordNotUpdated`, `?` returns,
  and step 3, "close the newest positions first (LIFO) until compliant", is not
  reached.  The rows behind it also keep the stop-losses of the settings before.
  With two handlers an older push may be applied to a row after a newer one; and with
  a push that lowers `max_open_positions` one handler is enough: it closes a
  position as excess that the loop has still in hand, and the loop's re-evaluation
  stops there.  These are the two conditions of `SettledStopsAlwaysCurrent`.
* `force_close_prediction` sells the row it was given without looking at the table
  again, so that handler and loop sell the same prediction for one push, and it
  counts a refused order as sold ("until compliant", `polymarket/service.rs:114`).
* The market feed "runs until the provided shutdown token fires"
  (`market_data.rs:23`); it also ends with its connection, and nothing starts it
  again: the loop goes on with the last prices.
* `calculate_edge` takes the confidence for the probability of the side to buy; the
  prompt defines it as "your estimated true probability of the YES outcome"
  (`llm.rs:125`).
* The client's `login_oauth` waits for the browser without a time limit and the
  worker reads no command meanwhile: a user who quits during a login nobody
  completes does not get the terminal back.  A login that fails forgets a live
  session; a call without a session ends in "Ready"; a result moves the focus while
  the arguments are edited; a login that fails before its URL is shown keeps the
  redirect port; a tool without required fields is seeded with its optional ones.
* An article whose summary fails is never processed again: the next refresh meets
  the unique key and skips it.  The news briefing joins ids of `news_topic` with the
  knowledge table `topic` (`articles/queries.rs:21`).
* `fetch_and_update_topic` selects and marks in two statements, so that two calls
  take one topic.
* The weekly report asks for the ISO week and counts weeks from the first of January
  (`tools/expenses.rs:237`, `expenses/entry.rs:200`).
* The master takes a sell's recorded price for its entry price
  (`performance.rs:66`); the worker records the price of the signal, zero for stop
  losses and forced closes, and such a sell is never a losing one.
* The timeout of a websocket request begins again with every event, and events that
  are not the answer are dropped, snapshots among them.  After a timeout, a caller who
  gives the same `server_ts` again may be given the late answer to the first request.
* `current_volume` leaves out the locked part of every asset but the dollar, against
  the comment above it (`routes.rs:33`).

## Not modelled

* Reported figures that nothing reads back: `unrealized_pnl` in the workers'
  modules (in `FleetReports` it is), current prices, the Sharpe ratio,
  prediction figures of the master (no resolution is ever set).
* Calls that pass one request on and keep nothing: the master's portfolio, trades,
  history and settings of one worker; single REST calls of the exchange; the
  worker's read-only gRPC calls; the news briefing and listings.
* Formulas and parsing: the indicators, charts, `metrics.rs`, `recommendations.rs`,
  feeds, the exchange's messages, amounts with decimals.  Amounts here are small
  integers, so that overflow (an expense of 2^63, `entry.rs:48`) is not met.
* `BinanceExecutor`'s signed requests: an order's outcomes are in `TradingWorker`.
* Details on which no property depends.  A row id may be given again after a purge
  (the table of articles has no `AUTOINCREMENT`), so that a summary written late may
  reach another article (`news/src/sync_task.rs:198`); an article is known by its feed
  here.  An affinity of millions of days makes SQLite's `datetime` NULL, and such an item
  does not rest.  Two websocket requests of one kind and one `server_ts` are one element
  of `asked` and get one answer.  `list_by_month` panics when it is asked for a month
  outside 1..12 (`entry.rs:157`).  The price calls that the routes make for the entries
  of a finished fetch may still fail (`routes.rs:52`).
* The constant documents and configuration of `mcp-auth`; drawing, status lines and
  the log of the client; telemetry, monitor, search, migrations as such, and generated
  code.

What would come next: both modules of a worker over one portfolio in one
specification.
