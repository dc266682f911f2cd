------------------------------- MODULE LedgerFetch -------------------------------
(***************************************************************************)
(* The portfolio of the exchange account (finance/src/portfolio):          *)
(* fetch_portfolio reads the balances and then the ledger, in pages, while *)
(* the account goes on being used.                                         *)
(*                                                                         *)
(* Every asset is worth a dollar and every movement is of one, so that     *)
(* what a price call does is that it may fail.  Time is in milliseconds.   *)
(***************************************************************************)
EXTENDS Integers, Sequences, FiniteSets, SequencesExt

CONSTANTS
    Limit,         \* entries of a page
    Second,        \* milliseconds of a second
    MaxTime, MaxEntries,   \* bounds
    MaxFetched             \* a bound that the pages do not come to: more than Limit * (MaxTime + 2)

LedgerAssumption ==
    Limit \in Nat \ {0} /\ Second \in Nat \ {0} /\ MaxTime \in Nat /\ MaxEntries \in Nat /\ MaxFetched > Limit * (MaxTime + 2)

VARIABLES
    now,
    ledger,        \* of the exchange: the time of each entry
    balances,      \* of the exchange: free and locked of each asset
    phase,         \* of fetch_portfolio
    kind,          \* what is fetched: the ledger, or the transactions
    volume,        \* current_volume
    start,         \* start_time
    fetched,       \* all_entries, by their number
    before         \* history: the account and the number of entries when it was asked

vars == <<now, ledger, balances, phase, kind, volume, start, fetched, before>>

Assets == {"USD", "BTC"}
Amount == [free : Nat, locked : Nat]
Entries == DOMAIN ledger
Has(i) == \E k \in DOMAIN fetched : fetched[k] = i

TypeOK ==
    /\ ledger \in Seq(0 .. MaxTime) /\ balances \in [Assets -> Amount]
    /\ phase \in {"idle", "account", "pages", "done", "failed"} /\ kind \in {"ledger", "transactions"}
    /\ volume \in 0 .. before.owned /\ start \in 0 .. MaxTime + 1
    /\ fetched \in Seq(Entries)

Init ==
    /\ now = 0 /\ ledger = <<>>
    /\ balances = [a \in Assets |-> [free |-> 0, locked |-> 0]]
    /\ phase = "idle" /\ kind = "ledger" /\ volume = 0 /\ start = 0 /\ fetched = <<>>
    /\ before = [entries |-> 0, owned |-> 0]

-----------------------------------------------------------------------------
(* The exchange.                                                           *)

Exchange(a, free, locked) ==
    /\ balances' = [balances EXCEPT ![a] = [free |-> @.free + free, locked |-> @.locked + locked]]
    /\ UNCHANGED <<phase, kind, volume, start, fetched, before>>

Deposit(a) ==
    /\ Len(ledger) < MaxEntries
    /\ ledger' = Append(ledger, now)
    /\ Exchange(a, 1, 0) /\ UNCHANGED now

\* An open order
Lock(a) ==
    /\ balances[a].free > 0
    /\ Exchange(a, -1, 1) /\ UNCHANGED <<now, ledger>>

Tick ==
    /\ now < MaxTime /\ now' = now + 1
    /\ UNCHANGED <<ledger, balances, phase, kind, volume, start, fetched, before>>

\* The oldest entries from a time on, at most limit of them
Pages(from) ==
    LET there == {i \in Entries : ledger[i] >= from}
    IN {p \in SUBSET there :
          /\ Cardinality(p) = IF Cardinality(there) < Limit THEN Cardinality(there) ELSE Limit
          /\ \A i \in p, j \in there \ p : ledger[i] <= ledger[j]}

\* ... in any order.
Orders(page) == SetToSeqs(page)

-----------------------------------------------------------------------------
(* fetch_portfolio.                                                        *)

Owned(b) == b["USD"].free + b["USD"].locked + b["BTC"].free + b["BTC"].locked

Fetch(k) ==
    /\ phase \in {"idle", "done", "failed"}
    /\ kind' = k /\ volume' = 0 /\ start' = 0 /\ fetched' = <<>>
    /\ phase' = IF k = "ledger" THEN "account" ELSE "pages"
    /\ before' = [entries |-> Len(ledger), owned |-> Owned(balances)]
    /\ UNCHANGED <<now, ledger, balances>>

\* The locked part is added for dollars only.
CurrentVolume(b) == b["USD"].free + b["USD"].locked + b["BTC"].free

Account ==
    /\ phase = "account" /\ phase' = "pages"
    /\ volume' = CurrentVolume(balances)
    /\ before' = [before EXCEPT !.owned = Owned(balances)]
    /\ UNCHANGED <<now, ledger, balances, kind, start, fetched>>

InSecond(i) == ledger[i] \div Second

\* sort_by_key is stable; the key is the second.  Transactions are not sorted.  (There
\* is one such order.)
Sorted(s) ==
    IF kind = "transactions" THEN {s}
    ELSE {t \in SetToSeqs(ToSet(s)) :
            \A k, l \in DOMAIN t : k < l =>
                \/ InSecond(t[k]) < InSecond(t[l])
                \/ /\ InSecond(t[k]) = InSecond(t[l])
                   /\ \E i, j \in DOMAIN s : i < j /\ s[i] = t[k] /\ s[j] = t[l]}

\* Mutant: the next page starts with the last item's timestamp.
NextStart_Same(time) == time

\* Mutant: the next page starts with the next second.
NextStart_Second(time) == (time \div Second + 1) * Second

\* The next page starts after the last item's timestamp.
NextStart(time) == time + 1

\* A page that is empty, or not full, is the last.
Page ==
    /\ phase = "pages" /\ Len(fetched) < MaxFetched
    /\ \E page \in Pages(start) : \E order \in Orders(page) : \E list \in Sorted(order) :
          /\ fetched' = fetched \o list
          /\ IF Cardinality(page) < Limit
             THEN phase' = "done" /\ UNCHANGED start
             ELSE start' = NextStart(ledger[Last(list)]) /\ UNCHANGED phase
    /\ UNCHANGED <<now, ledger, balances, kind, volume, before>>

\* Any call: what was fetched is dropped.
CallFails ==
    /\ phase \in {"account", "pages"} /\ phase' = "failed"
    /\ UNCHANGED <<now, ledger, balances, kind, volume, start, fetched, before>>

Next ==
    \/ Tick \/ \E a \in Assets : Deposit(a) \/ Lock(a)
    \/ Fetch("ledger") \/ Fetch("transactions") \/ Account \/ Page \/ CallFails

Spec == Init /\ [][Next]_vars

\* The client goes on, and the exchange answers.
FairSpec == Spec /\ WF_vars(Account) /\ WF_vars(Page)

-----------------------------------------------------------------------------
(* Properties.                                                             *)

(* What was in the ledger before it was asked for is fetched, but for      *)
(* entries of the very millisecond with which a page ended: the pages leave *)
(* no other gap, however the exchange orders them and whatever is added.   *)
MissedAreTies ==
    phase = "done" => \A i \in 1 .. before.entries :
        Has(i) \/ \E k \in DOMAIN fetched : ledger[fetched[k]] = ledger[i]

InTimeOrder ==
    \A k, l \in DOMAIN fetched : k < l => ledger[fetched[k]] <= ledger[fetched[l]]

(* No entry is fetched twice, and so none is counted twice in the totals,  *)
(* unless the exchange lets what is fetched go back in time.               *)
NothingTwice == InTimeOrder => Cardinality({i \in Entries : Has(i)}) = Len(fetched)

(* The pages leave out only ties with the last entry of a page, and in the *)
(* order of time they fetch no entry twice.                                *)
PagesComplete == TypeOK /\ MissedAreTies /\ NothingTwice

(* The pages come to an end although every full one asks for another.      *)
FetchEnds == phase = "pages" ~> phase \in {"done", "failed"}
=============================================================================
