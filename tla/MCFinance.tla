------------------------------ MODULE MCFinance ------------------------------
(* The finance crate on small instances: the expense book with its tools,  *)
(* the websocket client and the fetch of the exchange's ledger.  The parts *)
(* share no state: a behaviour has one of them, and the others stay as     *)
(* they began.                                                             *)
EXTENDS FinanceParts

VARIABLE part

\* Year 1 is common, year 2 is leap, and year 1 begins with day 365.
\* The ends of the year, of its longest and its shortest month, and of a week.
Boundaries == {365, 372, 395, 396, 423, 424, 698, 699, 729, 730, 730 + 59, 730 + 60, 1095}

ASSUME FinanceAssumption ==
    Expenses!ExpenseAssumption /\ Socket!SocketAssumption /\ LedgerAssumption

book == <<today, categories, entries>>
socket == <<stamp, writer, reader, commands, asked, subscribed, events, waiting, elapsed, result>>
account == vars
MCvars == <<part, book, socket, account>>

MCInit ==
    /\ part \in {"expenses", "subscribed", "quiet", "ledger"}
    /\ Expenses!Init /\ (part # "expenses" => today = 395)
    /\ Socket!Init
    /\ Init

MCNext ==
    /\ UNCHANGED part
    /\ \/ part = "expenses" /\ Expenses!Next /\ UNCHANGED <<socket, account>>
       \/ part = "subscribed" /\ Socket!Next /\ UNCHANGED <<book, account>>
       \/ part = "quiet" /\ Socket!Quiet /\ UNCHANGED <<book, account>>
       \/ part = "ledger" /\ Next /\ UNCHANGED <<book, socket>>

\* The fairness of SocketClient, for a caller that has not subscribed, and of
\* LedgerFetch.
MCSpec ==
    /\ MCInit /\ [][MCNext]_MCvars
    /\ WF_socket(part = "quiet" /\ Socket!Receive)
    /\ WF_socket(part = "quiet" /\ Socket!ReceiveClosed)
    /\ WF_socket(part = "quiet" /\ Socket!TimePasses)
    /\ WF_socket(part = "quiet" /\ Socket!Timeout)
    /\ WF_account(part = "ledger" /\ Account)
    /\ WF_account(part = "ledger" /\ Page)

\* SocketClient: without a subscription, a request returns.
RequestReturns == (part = "quiet" /\ waiting # None) ~> waiting = None

\* What was asked of the exchange comes to an end: the requests, and the pages.
RequestsEnd == RequestReturns /\ (part = "ledger" => FetchEnds)
=============================================================================
