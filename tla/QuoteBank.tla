------------------------------- MODULE QuoteBank -------------------------------
(***************************************************************************)
(* The quotes of skill-master (skill-master/src/quotes): the background    *)
(* task that keeps the table stocked from an external API, and the tool    *)
(* that hands out the next unused quote and wakes the task when there is   *)
(* none.                                                                   *)
(*                                                                         *)
(* A transaction reads, then writes; SQLite lets its write through only    *)
(* when nobody has committed since it read.  A quote that was used is      *)
(* fresh again after six months, which is a step of its own here.          *)
(***************************************************************************)
EXTENDS Integers, FiniteSets

CONSTANTS
    Quotes,    \* the quotes the API knows
    Clients,   \* callers of quotes_bank_next
    MinFresh,  \* MIN_FRESH_QUOTES
    None

QuoteAssumption ==
    /\ IsFiniteSet(Quotes)
    /\ MinFresh \in Nat
    /\ None \notin Quotes

VARIABLES
    bank,     \* the quote table: "absent", "unused", "recent", "old"
    task,     \* "count", "enough", "wait", "fetch", "insert"
    batch,    \* quotes fetched and not yet inserted
    permit,   \* the permit of needs_more_quotes
    client,   \* "idle", "begin", "write"
    chosen,   \* the quote a client's transaction has read
    stale,    \* somebody has committed since the client read
    refused   \* a client was refused since the task last counted

clients == <<client, chosen, stale>>
vars == <<bank, task, batch, permit, clients, refused>>

TypeOK ==
    /\ bank \in [Quotes -> {"absent", "unused", "recent", "old"}]
    /\ task \in {"count", "enough", "wait", "fetch", "insert"}
    /\ batch \subseteq Quotes
    /\ permit \in BOOLEAN
    /\ client \in [Clients -> {"idle", "begin", "write"}]
    /\ chosen \in [Clients -> Quotes \union {None}]
    /\ \A c \in Clients : client[c] = "write" <=> chosen[c] # None
    /\ stale \in [Clients -> BOOLEAN]
    /\ refused \in BOOLEAN

\* when_used IS NULL OR when_used < datetime('now', '-6 months')
Fresh == {q \in Quotes : bank[q] \in {"unused", "old"}}

\* Every open transaction that has read is out of date after a commit.
Outdated == [c \in Clients |-> client[c] = "write" \/ stale[c]]

Init ==
    /\ bank \in [Quotes -> {"absent", "unused", "recent", "old"}]
    /\ task = "count" /\ batch = {} /\ permit = FALSE
    /\ client = [c \in Clients |-> "idle"]
    /\ chosen = [c \in Clients |-> None]
    /\ stale = [c \in Clients |-> FALSE]
    /\ refused = FALSE

-----------------------------------------------------------------------------
(* task.                                                                   *)

\* Mutant: the task waits when it has nothing.
Count_Reversed ==
    /\ task = "count"
    /\ refused' = FALSE
    /\ task' = IF Cardinality(Fresh) > MinFresh \/ Fresh = {} THEN "enough" ELSE "fetch"
    /\ UNCHANGED <<bank, batch, permit, clients>>

\* The fresh quotes are counted (a count that fails is taken for 0).
Count ==
    /\ task = "count"
    /\ refused' = FALSE
    /\ task' \in IF Cardinality(Fresh) > MinFresh THEN {"enough", "fetch"} ELSE {"fetch"}
    /\ UNCHANGED <<bank, batch, permit, clients>>

\* There were enough when they were counted: the task begins to wait.
Pause ==
    /\ task = "enough"
    /\ task' = "wait"
    /\ UNCHANGED <<bank, batch, permit, clients, refused>>

\* select!: a notification, or four hours; then the quotes are counted again.
Wake ==
    /\ task = "wait"
    /\ task' = "count"
    /\ permit' \in {permit, FALSE}
    /\ UNCHANGED <<bank, batch, clients, refused>>

\* Mutant: a fetch that fails gives a placeholder.
Fetch_Placeholder ==
    /\ task = "fetch"
    /\ \/ \E b \in SUBSET Quotes : batch' = b
       \/ batch' = {None}
    /\ task' = "insert"
    /\ UNCHANGED <<bank, permit, clients, refused>>

\* fetch_quotes_from_api, or an empty batch when it fails.
Fetch ==
    /\ task = "fetch"
    /\ \E b \in SUBSET Quotes : batch' = b
    /\ task' = "insert"
    /\ UNCHANGED <<bank, permit, clients, refused>>

\* Mutant: a quote that is there is inserted again.
Inserted_Again(q) == [bank EXCEPT ![q] = "unused"]

\* A quote that is there stays as it is.
Inserted(q) == [bank EXCEPT ![q] = IF @ = "absent" THEN "unused" ELSE @]

\* insert_new_quotes: one transaction per quote.
Insert ==
    /\ task = "insert"
    /\ \E q \in batch :
          /\ batch' = batch \ {q}
          /\ bank' = Inserted(q)
          /\ stale' = IF bank' = bank THEN stale ELSE Outdated
    /\ UNCHANGED <<task, permit, client, chosen, refused>>

\* The batch is done, or a statement failed and the rest of it is dropped.
InsertDone ==
    /\ task = "insert"
    /\ task' = "count" /\ batch' = {}
    /\ UNCHANGED <<bank, permit, clients, refused>>

-----------------------------------------------------------------------------
(* quotes_bank_next.                                                       *)

NextQuote(c) ==
    /\ client[c] = "idle"
    /\ client' = [client EXCEPT ![c] = "begin"]
    /\ UNCHANGED <<bank, task, batch, permit, chosen, stale, refused>>

\* fetch_next_unused_quote: any fresh quote is read ...
SelectQuote(c) ==
    /\ client[c] = "begin"
    /\ \E q \in Fresh :
          /\ client' = [client EXCEPT ![c] = "write"]
          /\ chosen' = [chosen EXCEPT ![c] = q]
          /\ stale' = [stale EXCEPT ![c] = FALSE]
    /\ UNCHANGED <<bank, task, batch, permit, refused>>

\* Mutant: only a task that waits is woken.
Notify_Waiters == permit' = (permit \/ task = "wait")

\* notify_one: the permit is kept for a task that does not wait.
Notify == permit' = TRUE

\* ... or there is none, and the task is told.
Refuse(c) ==
    /\ client[c] = "begin" /\ Fresh = {}
    /\ client' = [client EXCEPT ![c] = "idle"]
    /\ Notify
    /\ refused' = TRUE
    /\ UNCHANGED <<bank, task, batch, chosen, stale>>

\* Mutant: the two statements are not one transaction.
MayCommit_Always(c) == TRUE

MayCommit(c) == ~stale[c]

\* The quote is marked as used and handed out.
UseQuote(c) ==
    /\ client[c] = "write" /\ MayCommit(c)
    /\ bank' = [bank EXCEPT ![chosen[c]] = "recent"]
    /\ client' = [client EXCEPT ![c] = "idle"]
    /\ chosen' = [chosen EXCEPT ![c] = None]
    /\ stale' = [d \in Clients |-> IF d = c THEN FALSE ELSE Outdated[d]]
    /\ UNCHANGED <<task, batch, permit, refused>>

\* The database is busy: the call fails and the quote stays unused.
UseFails(c) ==
    /\ client[c] = "write"
    /\ client' = [client EXCEPT ![c] = "idle"]
    /\ chosen' = [chosen EXCEPT ![c] = None]
    /\ stale' = [stale EXCEPT ![c] = FALSE]
    /\ UNCHANGED <<bank, task, batch, permit, refused>>

\* Six months pass for a quote.
Rest(q) ==
    /\ bank[q] = "recent"
    /\ bank' = [bank EXCEPT ![q] = "old"]
    /\ UNCHANGED <<task, batch, permit, clients, refused>>

Task == Count \/ Pause \/ Wake \/ Fetch \/ Insert \/ InsertDone

Next ==
    \/ Task
    \/ \E c \in Clients : NextQuote(c) \/ SelectQuote(c) \/ Refuse(c) \/ UseQuote(c) \/ UseFails(c)
    \/ \E q \in Quotes : Rest(q)

\* The task goes on; its timer and the API answer in the end.
Spec == Init /\ [][Next]_vars /\ WF_vars(Task)

-----------------------------------------------------------------------------
(* Properties.                                                             *)

(* A quote is handed out only while it is fresh, however the calls of      *)
(* several clients interleave: no two get the same one                     *)
(* (fetch_next_unused_quote).                                              *)
HandedWhileFresh ==
    [][\A c \in Clients : UseQuote(c) => bank[chosen[c]] \in {"unused", "old"}]_vars

(* A quote that was used is not made fresh by the API returning it again   *)
(* (insert_new_quotes).                                                    *)
UsedStaysUsed ==
    [][\A q \in Quotes : bank[q] = "recent" => bank'[q] \in {"recent", "old"}]_vars

(* A client that found nothing is not forgotten between the task's count   *)
(* and its wait: the task waits only with the permit there                 *)
(* (notify_needs_more_quotes).                                             *)
RefusalWakesTask == task = "wait" /\ refused => permit

(* When there is no fresh quote, the task goes to the API for more.        *)
ShortageIsFetched == Fresh = {} ~> (task = "fetch" \/ Fresh # {})
=============================================================================
