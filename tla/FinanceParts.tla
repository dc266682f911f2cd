----------------------------- MODULE FinanceParts -----------------------------
(***************************************************************************)
(* The finance crate side by side: the fetch of the exchange's ledger,     *)
(* which is this module's own, the websocket and the expense book, which   *)
(* are instances.  They share no state.                                    *)
(***************************************************************************)
EXTENDS LedgerFetch

CONSTANTS
    Kinds, Clocked, Stamps, MaxQueue, Subscribe, Snapshot, Closed, TimedOut,
    Predefined, Custom, Amounts, LastYear, LeapYears, Dates, Todays, MaxId,
    None

VARIABLES
    stamp, writer, reader, commands, asked, subscribed, events, waiting, elapsed, result,
    today, categories, entries

\* Both with constants and variables of the same names.
Socket == INSTANCE SocketClient
Expenses == INSTANCE ExpenseBook

\* SocketClient: what a request returns is the answer to it, and to no earlier one of
\* the same id.
AnswerIsOwn == Socket!AnswerIsOwn

\* ExpenseBook: the year's report is made of its months' reports, every expense of a
\* year is in exactly one of its weeks, the categories add up to the total, and what is
\* entered today is in the reports of today's month and year.
ReportsAddUp ==
    /\ Expenses!TypeOK
    /\ Expenses!MonthsMakeTheYear
    /\ Expenses!WeeksMakeTheYear
    /\ Expenses!CategoriesMakeTheTotal
    /\ Expenses!TodayIsReported
=============================================================================
