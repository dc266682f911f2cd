\* Expenses, the websocket and the ledger, each by itself.
SPECIFICATION MCSpec
CONSTANTS
    None = None
    Subscribe = Subscribe
    Snapshot = Snapshot
    Closed = Closed
    TimedOut = TimedOut
    \* Two kinds of requests, of which one has the caller's stamp, and a clock that may
    \* stand still between two of them.
    Kinds = {"time", "account"}
    Clocked = {"time"}
    Stamps = {1, 2}
    MaxQueue = 2
    \* Pages of two entries.
    Limit = 2
    Second = 2
    MaxTime = 2
    MaxEntries = 3
    MaxFetched = 9
    \* A common and a leap year, and days at the ends of months, weeks and years.
    Predefined = {"food"}
    Custom = {"custom"}
    Amounts = {1, 2}
    LastYear = 2
    LeapYears = {2}
    Dates <- Boundaries
    Todays = {395, 729, 730}
    MaxId = 2
INVARIANTS
    ReportsAddUp
    PagesComplete
PROPERTIES
    AnswerIsOwn
    RequestsEnd
