---------------------------- MODULE Finance_proofs ----------------------------
(***************************************************************************)
(* Proofs about the finance crate: the fetch of the exchange's ledger, the *)
(* websocket and the expense book.                                         *)
(***************************************************************************)
EXTENDS FinanceParts, Accounts_proofs, SequenceTheorems

-----------------------------------------------------------------------------
(* LedgerFetch.                                                            *)

(* The account: what is in the ledger was there when it was written, and   *)
(* nothing is owed.                                                        *)
AccountOK ==
    /\ now \in 0 .. MaxTime
    /\ ledger \in Seq(0 .. MaxTime)
    /\ balances \in [Assets -> Amount]
    /\ before \in [entries : 0 .. Len(ledger), owned : Nat]
    /\ volume \in 0 .. before.owned

(* Where the fetch is.                                                     *)
FetchOK ==
    /\ phase \in {"idle", "account", "pages", "done", "failed"}
    /\ kind \in {"ledger", "transactions"}
    /\ start \in 0 .. MaxTime + 1
    /\ fetched \in Seq(Entries)

\* Fetched, or of the very time of one that is.
Settled(i) == Has(i) \/ \E k \in DOMAIN fetched : ledger[fetched[k]] = ledger[i]

(* What was in the ledger when it was asked for and is neither fetched nor *)
(* tied with what is, is still to come; when the pages are over, nothing.  *)
CoveredOK ==
    /\ phase = "account" => start = 0
    /\ phase = "pages" => \A i \in 1 .. before.entries : Settled(i) \/ ledger[i] >= start
    /\ phase = "done" => \A i \in 1 .. before.entries : Settled(i)

(* Together they are inductive.                                            *)
FetchInv == LedgerAssumption /\ AccountOK /\ FetchOK /\ CoveredOK

(* In the order of time, what is fetched lies before the next page.        *)
OnceOK ==
    /\ phase = "account" => fetched = <<>>
    /\ InTimeOrder => \A k, l \in DOMAIN fetched : fetched[k] = fetched[l] => k = l
    /\ phase = "pages" /\ InTimeOrder => \A k \in DOMAIN fetched : ledger[fetched[k]] < start

-----------------------------------------------------------------------------
(* The members of a finite set in a row: each once, and all of them.       *)
LEMMA InARow ==
  ASSUME NEW S, IsFiniteSet(S), NEW s \in SetToSeqs(S)
  PROVE  /\ s \in Seq(S) /\ Len(s) = Cardinality(S)
         /\ \A k, l \in DOMAIN s : s[k] = s[l] => k = l
         /\ \A x \in S : \E k \in DOMAIN s : s[k] = x
<1> DEFINE n == Cardinality(S)
<1>1. n \in Nat
  BY FS_CardinalityType
<1>2. s \in [1 .. n -> S] /\ \A k, l \in 1 .. n : k # l => s[k] # s[l]
  BY DEF SetToSeqs
<1>3. s \in Seq(S) /\ Len(s) = n /\ DOMAIN s = 1 .. n
  BY <1>1, <1>2
<1>4. s \in Injection(1 .. n, S)
  BY <1>2 DEF Injection, IsInjective, Restrict
<1>5. Cardinality(1 .. n) = n
  BY <1>1, FS_Interval
<1>6. s \in Surjection(1 .. n, S)
  BY <1>4, <1>5, FS_Injection
<1>7. \A x \in S : \E k \in 1 .. n : s[k] = x
  BY <1>6 DEF Surjection
<1> QED
  BY <1>2, <1>3, <1>7

(* Earlier in an earlier second.                                           *)
LEMMA EarlierSecond ==
  ASSUME NEW a \in Nat, NEW b \in Nat, NEW n \in Nat \ {0}, a \div n < b \div n
  PROVE  a <= b
<1>1. b < a => b \div n <= a \div n
  BY SMTT(20)
<1>2. a \div n \in Int /\ b \div n \in Int
  BY SMTT(20)
<1> DEFINE p == a \div n
           q == b \div n
<1> HIDE DEF p, q
<1> QED
  BY <1>1, <1>2 DEF p, q

(* A page as fetch_portfolio leaves it: its entries, each once.            *)
LEMMA PageFetched ==
  ASSUME FetchInv, NEW page \in Pages(start), NEW order \in Orders(page), NEW list \in Sorted(order)
  PROVE  /\ IsFiniteSet(page) /\ page \subseteq Entries /\ \A i \in page : ledger[i] >= start
         /\ list \in Seq(page) /\ Len(list) = Cardinality(page)
         /\ \A k, l \in DOMAIN list : list[k] = list[l] => k = l
         /\ \A i \in page : \E k \in DOMAIN list : list[k] = i
<1> DEFINE there == {i \in Entries : ledger[i] >= start}
<1>1. page \in SUBSET there
  BY DEF Pages
<1>2. Len(ledger) \in Nat /\ Entries = 1 .. Len(ledger) /\ \A i \in Entries : ledger[i] \in Nat
  <2>1. ledger \in Seq(0 .. MaxTime)
    BY DEF FetchInv, AccountOK
  <2>2. Len(ledger) \in Nat /\ DOMAIN ledger = 1 .. Len(ledger)
    BY <2>1
  <2>3. ASSUME NEW i \in 1 .. Len(ledger) PROVE ledger[i] \in 0 .. MaxTime
    BY <2>1, ElementOfSeq
  <2> QED
    BY <2>2, <2>3 DEF Entries
<1>3. IsFiniteSet(Entries)
  <2>1. IsFiniteSet(1 .. Len(ledger))
    BY <1>2, FS_Interval
  <2> QED
    BY <1>2, <2>1
<1>4. IsFiniteSet(page)
  BY <1>1, <1>3, FS_Subset
<1>5. order \in SetToSeqs(page)
  BY DEF Orders
<1>6. /\ order \in Seq(page) /\ Len(order) = Cardinality(page)
      /\ \A k, l \in DOMAIN order : order[k] = order[l] => k = l
      /\ \A i \in page : \E k \in DOMAIN order : order[k] = i
  BY <1>4, <1>5, InARow
<1>7. ToSet(order) = page
  <2>1. \A k \in DOMAIN order : order[k] \in page
    BY <1>6
  <2> QED
    BY <1>6, <2>1 DEF ToSet
<1>9. CASE kind = "transactions"
  <2>1. list = order
    BY <1>9 DEF Sorted
  <2> QED
    BY <1>1, <1>4, <1>6, <2>1
<1>10. CASE kind # "transactions"
  <2>1. /\ list \in SetToSeqs(page)
        /\ \A k, l \in DOMAIN list : k < l =>
              \/ InSecond(list[k]) < InSecond(list[l])
              \/ \E i, j \in DOMAIN order : i < j /\ order[i] = list[k] /\ order[j] = list[l]
    BY <1>7, <1>10 DEF Sorted
  <2>2. /\ list \in Seq(page) /\ Len(list) = Cardinality(page)
        /\ \A k, l \in DOMAIN list : list[k] = list[l] => k = l
        /\ \A i \in page : \E k \in DOMAIN list : list[k] = i
    BY <1>4, <2>1, InARow
  <2> QED
    BY <1>1, <1>4, <2>2
<1> QED
  BY <1>9, <1>10

(* A page that the exchange leaves in the order of time stays so when it   *)
(* is sorted by the second (sort_by_key in fetch_ledgers): the sort is     *)
(* stable.                                                                 *)
THEOREM SortKeepsTheOrder ==
  ASSUME FetchInv, NEW page \in Pages(start), NEW order \in Orders(page), NEW list \in Sorted(order),
         \A i, j \in DOMAIN order : i < j => ledger[order[i]] <= ledger[order[j]]
  PROVE  \A k, l \in DOMAIN list : k < l => ledger[list[k]] <= ledger[list[l]]
<1>1. CASE kind = "transactions"
  BY <1>1 DEF Sorted
<1>2. CASE kind # "transactions"
  <2> SUFFICES ASSUME NEW k \in DOMAIN list, NEW l \in DOMAIN list, k < l
               PROVE  ledger[list[k]] <= ledger[list[l]]
    OBVIOUS
  <2>1. \/ InSecond(list[k]) < InSecond(list[l])
        \/ \E i, j \in DOMAIN order : i < j /\ order[i] = list[k] /\ order[j] = list[l]
    BY <1>2 DEF Sorted
  <2>2. CASE InSecond(list[k]) < InSecond(list[l])
    <3>1. list[k] \in Entries /\ list[l] \in Entries
      <4>1. list \in Seq(page) /\ page \subseteq Entries
        BY PageFetched
      <4>2. list[k] \in page /\ list[l] \in page
        BY <4>1
      <4> QED
        BY <4>1, <4>2
    <3>2. ledger[list[k]] \in Nat /\ ledger[list[l]] \in Nat /\ Second \in Nat \ {0}
      <4>1. ledger \in Seq(0 .. MaxTime) /\ Second \in Nat \ {0}
        BY DEF FetchInv, AccountOK, LedgerAssumption
      <4>2. ASSUME NEW i \in 1 .. Len(ledger) PROVE ledger[i] \in 0 .. MaxTime
        BY <4>1, ElementOfSeq
      <4>3. Entries = 1 .. Len(ledger)
        BY <4>1 DEF Entries
      <4> QED
        BY <3>1, <4>1, <4>2, <4>3
    <3>3. ledger[list[k]] \div Second < ledger[list[l]] \div Second
      BY <2>2 DEF InSecond
    <3> QED
      BY <3>2, <3>3, EarlierSecond
  <2> QED
    BY <2>1, <2>2
<1> QED
  BY <1>1, <1>2

(* A page that is full has the first of what there is, and one that is not *)
(* has all of it.                                                          *)
LEMMA PageFirst ==
  ASSUME FetchInv, NEW page \in Pages(start), IsFiniteSet(page)
  PROVE  /\ \A i \in Entries, j \in page :
               ledger[i] >= start /\ i \notin page => ledger[j] <= ledger[i]
         /\ Cardinality(page) < Limit => \A i \in Entries : ledger[i] >= start => i \in page
         /\ Cardinality(page) \in Nat
<1> DEFINE there == {i \in Entries : ledger[i] >= start}
<1>1. /\ page \in SUBSET there
      /\ Cardinality(page) = IF Cardinality(there) < Limit THEN Cardinality(there) ELSE Limit
      /\ \A i \in page, j \in there \ page : ledger[i] <= ledger[j]
  BY DEF Pages
<1>2. IsFiniteSet(there)
  <2>1. ledger \in Seq(0 .. MaxTime)
    BY DEF FetchInv, AccountOK
  <2>2. Len(ledger) \in Nat /\ DOMAIN ledger = 1 .. Len(ledger)
    BY <2>1
  <2>3. IsFiniteSet(1 .. Len(ledger))
    BY <2>2, FS_Interval
  <2> QED
    BY <2>2, <2>3, FS_Subset DEF Entries
<1>3. Cardinality(there) \in Nat /\ Cardinality(page) \in Nat
  BY <1>2, FS_CardinalityType
<1>4. Limit \in Nat
  BY DEF FetchInv, LedgerAssumption
<1>5. ASSUME Cardinality(page) < Limit PROVE page = there
  <2>1. Cardinality(page) = Cardinality(there)
    <3> HIDE DEF there
    <3> QED
      BY <1>1, <1>3, <1>4, <1>5
  <2> QED
    BY <1>1, <1>2, <2>1, FS_Subset
<1> QED
  BY <1>1, <1>3, <1>5

(* Before the first fetch there is nothing to be complete about.           *)
LEMMA InitFetch == ASSUME LedgerAssumption, Init PROVE FetchInv /\ OnceOK
<1>1. /\ now = 0 /\ ledger = <<>>
      /\ balances = [a \in Assets |-> [free |-> 0, locked |-> 0]]
      /\ phase = "idle" /\ kind = "ledger" /\ volume = 0 /\ start = 0 /\ fetched = <<>>
      /\ before = [entries |-> 0, owned |-> 0]
  BY DEF Init
<1>2. MaxTime \in Nat
  BY DEF LedgerAssumption
<1>3. AccountOK
  BY <1>1, <1>2 DEF AccountOK, Amount
<1>4. FetchOK /\ CoveredOK /\ OnceOK
  BY <1>1, <1>2 DEF FetchOK, CoveredOK, OnceOK, InTimeOrder, Entries
<1> QED
  BY <1>3, <1>4 DEF FetchInv

(* What the exchange does to the account while the fetch is under way      *)
(* leaves what was fetched, and adds nothing to what there was before.     *)
LEMMA AccountMoves ==
  ASSUME FetchInv, AccountOK', UNCHANGED <<phase, kind, volume, start, fetched, before>>,
         Len(ledger) <= Len(ledger'), \A i \in Entries : ledger'[i] = ledger[i]
  PROVE  FetchInv' /\ (OnceOK => OnceOK')
<1>1. ledger \in Seq(0 .. MaxTime) /\ ledger' \in Seq(0 .. MaxTime)
  BY DEF FetchInv, AccountOK
<1>2. /\ Entries = 1 .. Len(ledger)
      /\ Entries' = 1 .. Len(ledger')
      /\ Len(ledger) \in Nat
      /\ Len(ledger') \in Nat
  BY <1>1 DEF Entries
<1>3. Entries \subseteq Entries'
  BY <1>2
<1>4. fetched \in Seq(Entries) /\ \A k \in DOMAIN fetched : fetched[k] \in Entries
  <2>1. fetched \in Seq(Entries)
    BY DEF FetchInv, FetchOK
  <2> HIDE DEF Entries
  <2> QED
    BY <2>1
<1>5. fetched' \in Seq(Entries')
  <2>1. fetched' = fetched
    OBVIOUS
  <2> QED
    BY <1>3, <1>4, <2>1
<1>6. FetchOK'
  BY <1>5 DEF FetchInv, FetchOK
<1>7. \A i \in 1 .. before.entries : i \in Entries
  <2>1. before.entries \in 0 .. Len(ledger)
    BY DEF FetchInv, AccountOK
  <2> QED
    BY <1>2, <2>1
<1>8. \A i \in Entries : Settled(i) => Settled(i)'
  BY <1>4 DEF Settled, Has
<1>9. CoveredOK'
  <2>1. before' = before /\ start' = start /\ phase' = phase
    OBVIOUS
  <2> QED
    BY <1>7, <1>8, <2>1 DEF FetchInv, CoveredOK
<1>10. OnceOK => OnceOK'
  BY <1>4 DEF OnceOK, InTimeOrder
<1> QED
  BY <1>6, <1>9, <1>10 DEF FetchInv, LedgerAssumption

(* What the exchange adds is not older than what it has: it neither        *)
(* changes what is covered nor what is next.                               *)
LEMMA ExchangeStep ==
  ASSUME FetchInv, Tick \/ \E a \in Assets : Deposit(a) \/ Lock(a)
  PROVE  FetchInv' /\ (OnceOK => OnceOK')
<1>1. /\ now \in 0 .. MaxTime /\ ledger \in Seq(0 .. MaxTime) /\ balances \in [Assets -> Amount]
      /\ before \in [entries : 0 .. Len(ledger), owned : Nat] /\ volume \in 0 .. before.owned
      /\ MaxTime \in Nat
  BY DEF FetchInv, AccountOK, LedgerAssumption
<1>2. CASE Tick
  <2>1. AccountOK' /\ ledger' = ledger
    BY <1>1, <1>2 DEF Tick, AccountOK
  <2>2. UNCHANGED <<phase, kind, volume, start, fetched, before>>
    BY <1>2 DEF Tick
  <2>3. Len(ledger) \in Nat
    BY <1>1
  <2> QED
    BY <2>1, <2>2, <2>3, AccountMoves
<1>3. ASSUME NEW a \in Assets, NEW free \in Int, NEW locked \in Int, Exchange(a, free, locked),
             balances[a].free + free \in Nat, balances[a].locked + locked \in Nat
      PROVE  balances' \in [Assets -> Amount]
  <2>1. balances' = [balances EXCEPT ![a] = [free |-> balances[a].free + free,
                                             locked |-> balances[a].locked + locked]]
    BY <1>3 DEF Exchange
  <2>2. [free |-> balances[a].free + free, locked |-> balances[a].locked + locked] \in Amount
    BY <1>3 DEF Amount
  <2> QED
    BY <1>1, <2>1, <2>2
<1>4. ASSUME NEW a \in Assets PROVE balances[a].free \in Nat /\ balances[a].locked \in Nat
  BY <1>1 DEF Amount
<1>5. ASSUME NEW a \in Assets, Deposit(a) PROVE FetchInv' /\ (OnceOK => OnceOK')
  <2>1. /\ ledger' = Append(ledger, now) /\ now' = now /\ Exchange(a, 1, 0)
    BY <1>5 DEF Deposit
  <2>2. balances' \in [Assets -> Amount]
    BY <1>3, <1>4, <2>1
  <2>3. /\ ledger' \in Seq(0 .. MaxTime) /\ Len(ledger') = Len(ledger) + 1 /\ Len(ledger) \in Nat
        /\ \A i \in 1 .. Len(ledger) : ledger'[i] = ledger[i]
    BY <1>1, <2>1
  <2>4. UNCHANGED <<phase, kind, volume, start, fetched, before>>
    BY <2>1 DEF Exchange
  <2>5. before \in [entries : 0 .. Len(ledger'), owned : Nat]
    BY <1>1, <2>3
  <2>6. AccountOK'
    BY <1>1, <2>1, <2>2, <2>3, <2>4, <2>5 DEF AccountOK, Amount
  <2>7. Entries = 1 .. Len(ledger)
    BY <1>1 DEF Entries
  <2> QED
    BY <2>3, <2>4, <2>6, <2>7, AccountMoves
<1>6. ASSUME NEW a \in Assets, Lock(a) PROVE FetchInv' /\ (OnceOK => OnceOK')
  <2>1. /\ ledger' = ledger /\ now' = now /\ Exchange(a, -1, 1) /\ balances[a].free > 0
    BY <1>6 DEF Lock
  <2>2. balances' \in [Assets -> Amount]
    <3>1. balances[a].free + -1 \in Nat /\ balances[a].locked + 1 \in Nat
      BY <1>4, <2>1
    <3> QED
      BY <1>3, <2>1, <3>1
  <2>3. UNCHANGED <<phase, kind, volume, start, fetched, before>> /\ Len(ledger) \in Nat
    BY <1>1, <2>1 DEF Exchange
  <2>4. AccountOK'
    BY <1>1, <2>1, <2>2, <2>3 DEF AccountOK, Amount
  <2> QED
    BY <2>1, <2>3, <2>4, AccountMoves
<1> QED
  BY <1>2, <1>5, <1>6

(* The amounts are numbers, and what is free is no more than what is       *)
(* owned.                                                                  *)
LEMMA AmountsOwned ==
  ASSUME FetchInv
  PROVE  Owned(balances) \in Nat /\ CurrentVolume(balances) \in 0 .. Owned(balances)
<1>1. balances["USD"] \in Amount /\ balances["BTC"] \in Amount
  BY DEF FetchInv, AccountOK, Assets
<1> QED
  BY <1>1 DEF Owned, CurrentVolume, Amount

(* A fetch begins, goes on to its pages or fails: nothing is covered yet.  *)
LEMMA StartStep ==
  ASSUME FetchInv, (\E k \in {"ledger", "transactions"} : Fetch(k)) \/ Account \/ CallFails
  PROVE  FetchInv' /\ (OnceOK => OnceOK')
<1>1. /\ now \in 0 .. MaxTime /\ ledger \in Seq(0 .. MaxTime) /\ balances \in [Assets -> Amount]
      /\ before \in [entries : 0 .. Len(ledger), owned : Nat] /\ volume \in 0 .. before.owned
      /\ MaxTime \in Nat
  BY DEF FetchInv, AccountOK, LedgerAssumption
<1>2. Owned(balances) \in Nat /\ CurrentVolume(balances) \in 0 .. Owned(balances)
  BY AmountsOwned
<1>3. Len(ledger) \in Nat /\ Entries = 1 .. Len(ledger) /\ \A i \in Entries : ledger[i] >= 0
  <2>1. Len(ledger) \in Nat /\ Entries = 1 .. Len(ledger)
    BY <1>1 DEF Entries
  <2>2. ASSUME NEW i \in 1 .. Len(ledger) PROVE ledger[i] \in 0 .. MaxTime
    BY <1>1, ElementOfSeq
  <2> QED
    BY <1>1, <2>1, <2>2
<1>4. ASSUME UNCHANGED ledger PROVE Entries' = Entries /\ LedgerAssumption'
  BY <1>4 DEF Entries, LedgerAssumption, FetchInv
<1>5. ASSUME NEW k \in {"ledger", "transactions"}, Fetch(k)
      PROVE  FetchInv' /\ (OnceOK => OnceOK')
  <2>1. /\ kind' = k /\ volume' = 0 /\ start' = 0 /\ fetched' = <<>>
        /\ phase' = IF k = "ledger" THEN "account" ELSE "pages"
        /\ before' = [entries |-> Len(ledger), owned |-> Owned(balances)]
        /\ UNCHANGED <<now, ledger, balances>>
    BY <1>5 DEF Fetch
  <2>2. AccountOK'
    BY <1>1, <1>2, <1>3, <2>1 DEF AccountOK, Amount
  <2>3. FetchOK' /\ OnceOK'
    BY <1>1, <2>1 DEF FetchOK, OnceOK, InTimeOrder
  <2>4. CoveredOK'
    BY <1>3, <2>1 DEF CoveredOK, Settled
  <2> QED
    BY <1>4, <2>1, <2>2, <2>3, <2>4 DEF FetchInv
<1>6. CASE Account
  <2>1. /\ phase = "account" /\ phase' = "pages"
        /\ volume' = CurrentVolume(balances)
        /\ before' = [before EXCEPT !.owned = Owned(balances)]
        /\ UNCHANGED <<now, ledger, balances, kind, start, fetched>>
    BY <1>6 DEF Account
  <2>2. /\ before' = [entries |-> before.entries, owned |-> Owned(balances)]
        /\ before.entries \in 0 .. Len(ledger)
    BY <1>1, <2>1
  <2>3. AccountOK'
    BY <1>1, <1>2, <1>3, <2>1, <2>2 DEF AccountOK, Amount
  <2>4. start = 0
    BY <2>1 DEF FetchInv, CoveredOK
  <2>5. FetchOK'
    BY <1>4, <2>1 DEF FetchOK, FetchInv
  <2>6. CoveredOK'
    <3>1. \A i \in 1 .. before'.entries : ledger'[i] >= start'
      BY <1>3, <2>1, <2>2, <2>4
    <3> QED
      BY <2>1, <3>1 DEF CoveredOK
  <2>7. OnceOK => OnceOK'
    <3> SUFFICES ASSUME OnceOK PROVE OnceOK'
      OBVIOUS
    <3>1. fetched' = <<>> /\ DOMAIN <<>> = {}
      BY <2>1 DEF OnceOK
    <3> QED
      BY <2>1, <3>1 DEF OnceOK, InTimeOrder
  <2> QED
    BY <1>4, <2>1, <2>3, <2>5, <2>6, <2>7 DEF FetchInv
<1>7. CASE CallFails
  <2>1. /\ phase' = "failed"
        /\ UNCHANGED <<now, ledger, balances, kind, volume, start, fetched, before>>
    BY <1>7 DEF CallFails
  <2>2. AccountOK'
    BY <1>1, <2>1 DEF AccountOK, Amount
  <2>3. FetchOK'
    BY <1>4, <2>1 DEF FetchInv, FetchOK
  <2>4. CoveredOK' /\ (OnceOK => OnceOK')
    BY <2>1 DEF CoveredOK, OnceOK, InTimeOrder
  <2> QED
    BY <1>4, <2>1, <2>2, <2>3, <2>4 DEF FetchInv
<1> QED
  BY <1>5, <1>6, <1>7

(* What a page adds to what is fetched, ...                                *)
LEMMA Longer ==
  ASSUME NEW S, NEW s \in Seq(S), NEW t \in Seq(S)
  PROVE  /\ s \o t \in Seq(S) /\ Len(s \o t) = Len(s) + Len(t)
         /\ \A k \in DOMAIN (s \o t) :
               \/ k \in DOMAIN s /\ (s \o t)[k] = s[k]
               \/ k > Len(s) /\ k - Len(s) \in DOMAIN t /\ (s \o t)[k] = t[k - Len(s)]
         /\ \A k \in DOMAIN s : k \in DOMAIN (s \o t) /\ (s \o t)[k] = s[k]
         /\ \A k \in DOMAIN t : Len(s) + k \in DOMAIN (s \o t) /\ (s \o t)[Len(s) + k] = t[k]
OBVIOUS

(* A page covers what it has, and the next one starts after it.            *)
LEMMA PageStep ==
  ASSUME FetchInv, Page
  PROVE  FetchInv' /\ (OnceOK => OnceOK')
<1>1. /\ now \in 0 .. MaxTime /\ ledger \in Seq(0 .. MaxTime) /\ balances \in [Assets -> Amount]
      /\ before \in [entries : 0 .. Len(ledger), owned : Nat] /\ volume \in 0 .. before.owned
      /\ MaxTime \in Nat /\ Limit \in Nat \ {0}
  BY DEF FetchInv, AccountOK, LedgerAssumption
<1>2. PICK page, order, list :
        /\ page \in Pages(start) /\ order \in Orders(page) /\ list \in Sorted(order)
        /\ fetched' = fetched \o list
        /\ IF Cardinality(page) < Limit
           THEN phase' = "done" /\ start' = start
           ELSE start' = NextStart(ledger[Last(list)]) /\ phase' = phase
  BY DEF Page
<1>3. phase = "pages" /\ UNCHANGED <<now, ledger, balances, kind, volume, before>>
  BY DEF Page
<1>4. /\ IsFiniteSet(page) /\ page \subseteq Entries /\ \A i \in page : ledger[i] >= start
      /\ list \in Seq(page) /\ Len(list) = Cardinality(page)
      /\ \A k, l \in DOMAIN list : list[k] = list[l] => k = l
      /\ \A i \in page : \E k \in DOMAIN list : list[k] = i
  BY <1>2, PageFetched
<1>5. /\ \A i \in Entries, j \in page : ledger[i] >= start /\ i \notin page => ledger[j] <= ledger[i]
      /\ Cardinality(page) < Limit => \A i \in Entries : ledger[i] >= start => i \in page
      /\ Cardinality(page) \in Nat
  BY <1>2, <1>4, PageFirst
<1>6. Len(ledger) \in Nat /\ Entries = 1 .. Len(ledger) /\ \A i \in Entries : ledger[i] \in 0 .. MaxTime
  <2>1. Len(ledger) \in Nat /\ Entries = 1 .. Len(ledger)
    BY <1>1 DEF Entries
  <2>2. ASSUME NEW i \in 1 .. Len(ledger) PROVE ledger[i] \in 0 .. MaxTime
    BY <1>1, ElementOfSeq
  <2> QED
    BY <2>1, <2>2
<1>7. \A k \in DOMAIN list : list[k] \in page
  BY <1>4
<1>8. fetched \in Seq(Entries) /\ list \in Seq(Entries) /\ start \in 0 .. MaxTime + 1
  BY <1>4 DEF FetchInv, FetchOK
<1>9. /\ fetched' \in Seq(Entries)
      /\ \A k \in DOMAIN fetched' :
            \/ k \in DOMAIN fetched /\ fetched'[k] = fetched[k]
            \/ /\ k > Len(fetched) /\ k - Len(fetched) \in DOMAIN list
               /\ fetched'[k] = list[k - Len(fetched)]
      /\ \A k \in DOMAIN fetched : k \in DOMAIN fetched' /\ fetched'[k] = fetched[k]
      /\ \A k \in DOMAIN list :
            Len(fetched) + k \in DOMAIN fetched' /\ fetched'[Len(fetched) + k] = list[k]
  <2> HIDE DEF Entries
  <2> QED
    BY <1>2, <1>8, Longer
<1>10. \A i \in Entries : Settled(i) \/ i \in page => Settled(i)'
  <2> SUFFICES ASSUME NEW i \in Entries, Settled(i) \/ i \in page PROVE Settled(i)'
    OBVIOUS
  <2>1. CASE i \in page
    <3>1. PICK k \in DOMAIN list : list[k] = i
      BY <1>4, <2>1
    <3>2. Len(fetched) + k \in DOMAIN fetched' /\ fetched'[Len(fetched) + k] = i
      BY <1>9, <3>1
    <3> QED
      BY <3>2 DEF Settled, Has
  <2>2. CASE Settled(i)
    <3>1. PICK k \in DOMAIN fetched : fetched[k] = i \/ ledger[fetched[k]] = ledger[i]
      BY <2>2 DEF Settled, Has
    <3>2. k \in DOMAIN fetched' /\ fetched'[k] = fetched[k]
      BY <1>9, <3>1
    <3> QED
      BY <1>3, <3>1, <3>2 DEF Settled, Has
  <2> QED
    BY <2>1, <2>2
<1>11. ASSUME ~(Cardinality(page) < Limit)
       PROVE  /\ Len(list) \in DOMAIN list /\ Last(list) \in page
              /\ Last(list) = list[Len(list)]
              /\ Len(fetched) + Len(list) \in DOMAIN fetched'
              /\ fetched'[Len(fetched) + Len(list)] = Last(list)
              /\ start' = ledger[Last(list)] + 1
  <2>1. Len(list) \in Nat \ {0}
    BY <1>1, <1>4, <1>5, <1>11
  <2>2. Len(list) \in DOMAIN list /\ Last(list) = list[Len(list)]
    BY <1>4, <2>1 DEF Last
  <2> QED
    BY <1>2, <1>7, <1>9, <1>11, <2>2 DEF NextStart
<1>12. AccountOK'
  BY <1>1, <1>3 DEF AccountOK, Amount
<1>13. FetchOK'
  <2>1. start' \in 0 .. MaxTime + 1
    <3>1. CASE Cardinality(page) < Limit
      BY <1>2, <1>8, <3>1
    <3>2. CASE ~(Cardinality(page) < Limit)
      <4>1. ledger[Last(list)] \in 0 .. MaxTime
        BY <1>4, <1>6, <1>11, <3>2
      <4> QED
        BY <1>1, <1>11, <3>2, <4>1
    <3> QED
      BY <3>1, <3>2
  <2>2. Entries' = Entries
    BY <1>3 DEF Entries
  <2>3. phase' \in {"pages", "done"} /\ kind' \in {"ledger", "transactions"}
    BY <1>2, <1>3 DEF FetchInv, FetchOK
  <2> QED
    BY <1>9, <2>1, <2>2, <2>3 DEF FetchOK
<1>14. \A i \in 1 .. before.entries : i \in Entries /\ (Settled(i) \/ ledger[i] >= start)
  <2>1. before.entries \in 0 .. Len(ledger)
    BY <1>1
  <2> QED
    BY <1>3, <1>6, <2>1 DEF FetchInv, CoveredOK
<1>15. CoveredOK'
  <2>1. CASE Cardinality(page) < Limit
    <3>1. \A i \in 1 .. before.entries : Settled(i)'
      BY <1>5, <1>10, <1>14, <2>1
    <3>2. phase' = "done"
      BY <1>2, <2>1
    <3> QED
      BY <1>3, <3>1, <3>2 DEF CoveredOK
  <2>2. CASE ~(Cardinality(page) < Limit)
    <3>1. ASSUME NEW i \in 1 .. before.entries PROVE Settled(i)' \/ ledger[i] >= start'
      <4>1. CASE Settled(i) \/ i \in page
        BY <1>10, <1>14, <4>1
      <4>2. CASE ~Settled(i) /\ i \notin page
        <5>1. ledger[Last(list)] <= ledger[i]
          BY <1>5, <1>11, <1>14, <2>2, <4>2
        <5>2. CASE ledger[Last(list)] = ledger[i]
          <6>1. ledger'[fetched'[Len(fetched) + Len(list)]] = ledger'[i]
            BY <1>3, <1>11, <2>2, <5>2
          <6> QED
            BY <1>11, <2>2, <6>1 DEF Settled
        <5>4. ledger[Last(list)] \in 0 .. MaxTime /\ ledger[i] \in 0 .. MaxTime
          <6>1. Last(list) \in Entries /\ i \in Entries
            BY <1>4, <1>11, <1>14, <2>2
          <6>2. \A j \in Entries : ledger[j] \in 0 .. MaxTime
            BY <1>6
          <6> QED
            BY <6>1, <6>2
        <5>3. CASE ledger[Last(list)] < ledger[i]
          <6>1. start' = ledger[Last(list)] + 1
            BY <1>11, <2>2
          <6> QED
            BY <1>1, <5>3, <5>4, <6>1
        <5> QED
          BY <5>1, <5>2, <5>3, <5>4
      <4> QED
        BY <4>1, <4>2
    <3>2. phase' = "pages"
      BY <1>2, <1>3, <2>2
    <3> QED
      BY <1>3, <3>1, <3>2 DEF CoveredOK
  <2> QED
    BY <2>1, <2>2
<1>16. ASSUME OnceOK, InTimeOrder' PROVE OnceOK'
  <2>1. /\ \A k, l \in DOMAIN fetched : fetched[k] = fetched[l] => k = l
        /\ \A k \in DOMAIN fetched : ledger[fetched[k]] < start
    <3>1. ASSUME NEW k \in DOMAIN fetched, NEW l \in DOMAIN fetched, k < l
          PROVE  ledger[fetched[k]] <= ledger[fetched[l]]
      BY <1>3, <1>9, <1>16, <3>1 DEF InTimeOrder
    <3> QED
      BY <1>3, <1>16, <3>1 DEF OnceOK, InTimeOrder
  <2>2. \A k \in DOMAIN fetched, l \in DOMAIN list : fetched[k] # list[l]
    <3> SUFFICES ASSUME NEW k \in DOMAIN fetched, NEW l \in DOMAIN list, fetched[k] = list[l]
                 PROVE  FALSE
      OBVIOUS
    <3>1. ledger[list[l]] >= start /\ ledger[list[l]] < start
      BY <1>4, <1>7, <2>1
    <3>2. ledger[list[l]] \in Int /\ start \in Int
      BY <1>4, <1>6, <1>7, <1>8
    <3> QED
      BY <3>1, <3>2
  <2>3. ASSUME NEW k \in DOMAIN fetched', NEW l \in DOMAIN fetched', fetched'[k] = fetched'[l]
        PROVE  k = l
    <3>1. Len(fetched) \in Nat /\ k \in Int /\ l \in Int
      BY <1>8, <1>9
    <3>2. CASE k \in DOMAIN fetched /\ fetched'[k] = fetched[k]
      <4>1. l \in DOMAIN fetched /\ fetched'[l] = fetched[l]
        BY <1>9, <2>2, <2>3, <3>2
      <4> QED
        BY <2>1, <2>3, <3>2, <4>1
    <3>3. CASE k > Len(fetched) /\ k - Len(fetched) \in DOMAIN list
               /\ fetched'[k] = list[k - Len(fetched)]
      <4>1. l > Len(fetched) /\ l - Len(fetched) \in DOMAIN list
            /\ fetched'[l] = list[l - Len(fetched)]
        BY <1>9, <2>2, <2>3, <3>3
      <4>2. k - Len(fetched) = l - Len(fetched)
        BY <1>4, <2>3, <3>3, <4>1
      <4> QED
        BY <3>1, <4>2
    <3> QED
      BY <1>9, <3>2, <3>3
  <2>4. ASSUME phase' = "pages", NEW k \in DOMAIN fetched' PROVE ledger'[fetched'[k]] < start'
    <3>1. ~(Cardinality(page) < Limit)
      BY <1>2, <2>4
    <3>2. ledger[Last(list)] \in 0 .. MaxTime /\ ledger[Last(list)] >= start
          /\ start' = ledger[Last(list)] + 1
      BY <1>4, <1>6, <1>11, <3>1
    <3>3. CASE k \in DOMAIN fetched /\ fetched'[k] = fetched[k]
      <4>1. ledger[fetched[k]] < start /\ fetched[k] \in Entries
        <5> HIDE DEF Entries
        <5> QED
          BY <1>8, <2>1, <3>3
      <4>2. ledger[fetched[k]] \in 0 .. MaxTime
        BY <1>6, <4>1
      <4>3. ledger'[fetched'[k]] = ledger[fetched[k]]
        BY <1>3, <3>3
      <4>4. ASSUME NEW a \in Int, NEW b \in Int, a < start, start <= b PROVE a < b + 1
        BY <1>8, <4>4
      <4> QED
        BY <1>1, <3>2, <4>1, <4>2, <4>3, <4>4
    <3>4. CASE k - Len(fetched) \in DOMAIN list /\ fetched'[k] = list[k - Len(fetched)]
      <4> DEFINE l == k - Len(fetched)
      <4>1. l \in 1 .. Len(list) /\ l \in DOMAIN list /\ list[l] \in page
        BY <1>4, <1>7, <3>4
      <4>2. ledger[list[l]] <= ledger[Last(list)]
        <5>1. CASE l = Len(list)
          BY <1>4, <1>6, <1>11, <3>1, <3>2, <5>1
        <5>2. CASE l < Len(list)
          <6>1. /\ Len(fetched) + l \in DOMAIN fetched' /\ fetched'[Len(fetched) + l] = list[l]
                /\ Len(fetched) \in Nat /\ Len(list) \in Nat /\ l \in Nat
            BY <1>4, <1>8, <1>9, <4>1
          <6>2. Len(fetched) + l < Len(fetched) + Len(list)
            BY <5>2, <6>1
          <6> QED
            BY <1>3, <1>11, <1>16, <3>1, <6>1, <6>2 DEF InTimeOrder
        <5> QED
          BY <1>4, <1>5, <4>1, <5>1, <5>2
      <4>3. ledger[list[l]] \in 0 .. MaxTime
        BY <1>4, <1>6, <4>1
      <4> QED
        BY <1>1, <1>3, <3>2, <3>4, <4>2, <4>3
    <3> QED
      BY <1>9, <3>3, <3>4
  <2>5. phase' # "account"
    BY <1>2, <1>3
  <2> QED
    BY <2>3, <2>4, <2>5 DEF OnceOK
<1>17. OnceOK => OnceOK'
  <2>1. phase' # "account"
    BY <1>2, <1>3
  <2> QED
    BY <1>16, <2>1 DEF OnceOK
<1> QED
  BY <1>12, <1>13, <1>15, <1>17 DEF FetchInv, LedgerAssumption

(* Every step keeps the invariant.                                         *)
LEMMA NextFetch == ASSUME FetchInv, [Next]_vars PROVE FetchInv' /\ (OnceOK => OnceOK')
<1>1. CASE UNCHANGED vars
  <2>1. UNCHANGED <<now, ledger, balances, phase, kind, volume, start, fetched, before>>
    BY <1>1 DEF vars
  <2>2. AccountOK'
    BY <2>1 DEF FetchInv, AccountOK, Amount
  <2>3. Len(ledger) \in Nat
    BY DEF FetchInv, AccountOK
  <2> QED
    BY <2>1, <2>2, <2>3, AccountMoves
<1> QED
  BY <1>1, ExchangeStep, StartStep, PageStep DEF Next

(* So the invariant always holds.                                          *)
LEMMA FetchKept == ASSUME LedgerAssumption PROVE Spec => []FetchInv
<1>1. Init => FetchInv
  BY InitFetch
<1>2. FetchInv /\ [Next]_vars => FetchInv'
  BY NextFetch
<1> QED
  BY <1>1, <1>2, PTL DEF Spec

(* So does the rest of it.                                                 *)
LEMMA OnceKept == ASSUME LedgerAssumption PROVE Spec => [](FetchInv /\ OnceOK)
<1>1. Init => FetchInv /\ OnceOK
  BY InitFetch
<1>2. FetchInv /\ OnceOK /\ [Next]_vars => FetchInv' /\ OnceOK'
  BY NextFetch
<1> QED
  BY <1>1, <1>2, PTL DEF Spec

(* The types of LedgerFetch, for any limit of a page and any ledger.       *)
THEOREM LedgerTypeCorrect == ASSUME LedgerAssumption PROVE Spec => []TypeOK
<1>1. FetchInv => TypeOK
  BY DEF FetchInv, AccountOK, FetchOK, TypeOK
<1> QED
  BY <1>1, FetchKept, PTL

(* Of what was in the ledger before, a fetch that is done leaves out only  *)
(* ties with the last entry of a page, whatever the order in which the     *)
(* exchange answers and whatever it adds meanwhile (fetch_ledgers).        *)
THEOREM OnlyTiesAreMissed == ASSUME LedgerAssumption PROVE Spec => []MissedAreTies
<1>1. FetchInv => MissedAreTies
  BY DEF FetchInv, CoveredOK, Settled, MissedAreTies
<1> QED
  BY <1>1, FetchKept, PTL

(* Unless the exchange lets what is fetched go back in time, no entry is   *)
(* fetched twice (fetch_ledgers).                                          *)
THEOREM NothingEverTwice == ASSUME LedgerAssumption PROVE Spec => []NothingTwice
<1>1. FetchInv /\ OnceOK => NothingTwice
  <2> SUFFICES ASSUME FetchInv, OnceOK, InTimeOrder
               PROVE  Cardinality({i \in Entries : Has(i)}) = Len(fetched)
    BY DEF NothingTwice
  <2> DEFINE S == {i \in Entries : Has(i)}
             n == Len(fetched)
  <2>1. fetched \in Seq(Entries)
    BY DEF FetchInv, FetchOK
  <2>2. n \in Nat /\ DOMAIN fetched = 1 .. n /\ \A k \in 1 .. n : fetched[k] \in Entries
    <3> HIDE DEF Entries
    <3> QED
      BY <2>1
  <2>3. fetched \in [1 .. n -> S]
    <3>1. \A k \in 1 .. n : fetched[k] \in S
      BY <2>2 DEF Has
    <3>2. fetched = [k \in 1 .. n |-> fetched[k]]
      BY <2>1, <2>2
    <3> HIDE DEF S, n
    <3> QED
      BY <3>1, <3>2
  <2>4. \A x \in S : \E k \in 1 .. n : fetched[k] = x
    BY <2>2 DEF Has
  <2>5. \A k, l \in 1 .. n : fetched[k] = fetched[l] => k = l
    BY <2>2 DEF OnceOK
  <2>6. fetched \in Bijection(1 .. n, S)
    <3> HIDE DEF S, n
    <3> QED
      BY <2>3, <2>4, <2>5 DEF Bijection, Injection, Surjection, IsInjective
  <2>7. ExistsBijection(1 .. n, S)
    BY <2>6 DEF ExistsBijection
  <2>8. Cardinality(S) = n
    <3> HIDE DEF S, n
    <3> QED
      BY <2>2, <2>7, FS_CountingElements
  <2> QED
    BY <2>8
<1> QED
  BY <1>1, OnceKept, PTL

(* What the pages leave out are ties, whatever the exchange does, and      *)
(* unless it lets time go back, nothing is fetched twice (fetch_ledgers).  *)
THEOREM PagesAlwaysComplete == ASSUME LedgerAssumption PROVE Spec => []PagesComplete
<1>1. TypeOK /\ MissedAreTies /\ NothingTwice => PagesComplete
  BY DEF PagesComplete
<1> QED
  BY <1>1, LedgerTypeCorrect, OnlyTiesAreMissed, NothingEverTwice, PTL

-----------------------------------------------------------------------------
(* SocketClient.                                                           *)

(* At most one message on its way has this id.                             *)
Once(id) ==
    /\ \A i, j \in DOMAIN commands : commands[i] = id /\ commands[j] = id => i = j
    /\ \A i, j \in DOMAIN events : events[i] = id /\ events[j] = id => i = j
    /\ \A i \in DOMAIN commands : commands[i] = id => id \notin asked
    /\ \A i \in DOMAIN events : events[i] = id => id \notin asked
    /\ \A i \in DOMAIN commands, j \in DOMAIN events : commands[i] = id => events[j] # id

(* As long as answers come in, the only message with the millisecond of    *)
(* the last request is that request, or its answer.                        *)
OwnStamp ==
    \A dest \in Clocked :
        /\ waiting = <<dest, stamp>> => Once(waiting)
        /\ Socket!InUse(<<dest, stamp>>) => waiting = <<dest, stamp>>

(* The request that waits has the last millisecond in its id.              *)
WaitsForStamp == waiting # None /\ waiting[1] \in Clocked => waiting[2] = stamp

(* Together they are inductive.                                            *)
SocketInv ==
    /\ Socket!TypeOK
    /\ Socket!GotIsAsked
    /\ WaitsForStamp
    /\ reader /\ stamp # None => OwnStamp

(* What Append and Tail do to the elements of a sequence.                  *)
LEMMA Appended ==
    ASSUME NEW S, NEW s \in Seq(S), NEW e \in S
    PROVE  /\ Append(s, e) \in Seq(S)
           /\ \A i \in DOMAIN s : i \in DOMAIN Append(s, e) /\ Append(s, e)[i] = s[i]
           /\ \A i \in DOMAIN Append(s, e) : (i \in DOMAIN s /\ Append(s, e)[i] = s[i])
                                             \/ (i = Len(s) + 1 /\ Append(s, e)[i] = e)
  OBVIOUS

(* And without the first of them.                                          *)
LEMMA Removed ==
    ASSUME NEW S, NEW s \in Seq(S), s # <<>>
    PROVE  /\ Tail(s) \in Seq(S)
           /\ 1 \in DOMAIN s /\ Head(s) = s[1] /\ Head(s) \in S
           /\ \A i \in DOMAIN Tail(s) :
                 i \in Int /\ i # 0 /\ i + 1 \in DOMAIN s /\ Tail(s)[i] = s[i + 1]
  OBVIOUS

(* Every step keeps the types.                                             *)
LEMMA SocketTypes ==
    ASSUME Socket!SocketAssumption, Socket!TypeOK, [Socket!Next]_Socket!vars
    PROVE  Socket!TypeOK'
  <1> USE DEF Socket!TypeOK, Socket!Ids, Socket!Return
  <1>1. CASE Socket!SubscribePortfolio BY <1>1, Appended DEF Socket!SubscribePortfolio
  <1>2. CASE Socket!Requests
    <2>1. PICK dest \in Kinds : Socket!Request(dest) BY <1>2 DEF Socket!Requests
    <2>2. CASE ~writer BY <2>1, <2>2 DEF Socket!Request
    <2>3. CASE writer
      <3>1. PICK at \in Stamps :
              /\ stamp' = IF dest \in Clocked THEN at ELSE stamp
              /\ waiting' = <<dest, at>>
              /\ commands' = Append(commands, <<dest, at>>)
              /\ result' = None
        BY <2>1, <2>3, Zenon DEF Socket!Request, Socket!Now
      <3>2. <<dest, at>> \in Kinds \X Stamps OBVIOUS
      <3>3. waiting' # None BY <3>1, <3>2 DEF Socket!SocketAssumption
      <3> QED BY <2>1, <3>1, <3>2, <3>3 DEF Socket!Request
    <2> QED BY <2>2, <2>3
  <1>3. CASE Socket!Receive
    <2>1. /\ Head(events) \in Socket!Ids \union {Snapshot}
          /\ Tail(events) \in Seq(Socket!Ids \union {Snapshot})
      BY <1>3, Removed DEF Socket!Receive
    <2>2. CASE Socket!IsAnswer(Head(events)) BY <1>3, <2>1, <2>2 DEF Socket!Receive, Socket!IsAnswer
    <2>3. CASE ~Socket!IsAnswer(Head(events)) BY <1>3, <2>1, <2>3 DEF Socket!Receive
    <2> QED BY <2>2, <2>3
  <1>4. CASE Socket!ReceiveClosed BY <1>4 DEF Socket!ReceiveClosed
  <1>5. CASE Socket!TimePasses BY <1>5 DEF Socket!TimePasses
  <1>6. CASE Socket!Timeout BY <1>6 DEF Socket!Timeout
  <1>7. CASE Socket!ReadEvent BY <1>7, Removed DEF Socket!ReadEvent
  <1>8. CASE Socket!Write
    <2>1. /\ Head(commands) \in Socket!Ids \union {Subscribe}
          /\ Tail(commands) \in Seq(Socket!Ids \union {Subscribe})
      BY <1>8, Removed DEF Socket!Write
    <2> QED BY <1>8, <2>1 DEF Socket!Write
  <1>9. CASE Socket!WriteFails BY <1>9 DEF Socket!WriteFails
  <1>10. CASE Socket!ReadFails BY <1>10 DEF Socket!ReadFails
  <1>11. ASSUME NEW id \in asked, Socket!Answered(id) PROVE Socket!TypeOK'
    BY <1>11, Appended DEF Socket!Answered
  <1>12. CASE Socket!Pushed BY <1>12, Appended DEF Socket!Pushed
  <1>13. CASE UNCHANGED Socket!vars BY <1>13 DEF Socket!vars
  <1> QED
    BY <1>1, <1>2, <1>3, <1>4, <1>5, <1>6, <1>7, <1>8, <1>9, <1>10, <1>11, <1>12, <1>13
    DEF Socket!Next, Socket!Quiet, Socket!Waits, Socket!Tasks

(* A message that is read is gone from the channel, and nothing comes.     *)
LEMMA MessageRead ==
    ASSUME Socket!TypeOK, NEW id \in Socket!Ids, events # <<>>, events' = Tail(events),
           UNCHANGED <<commands, asked>>
    PROVE  /\ Socket!InUse(id)' => Socket!InUse(id)
           /\ Once(id) => Once(id)'
           /\ Once(id) /\ Head(events) = id => ~Socket!InUse(id)'
  <1>1. \A i \in DOMAIN events' :
            /\ i \in Int
            /\ i # 0
            /\ i + 1 \in DOMAIN events
            /\ events'[i] = events[i + 1]
    BY Removed DEF Socket!TypeOK
  <1>2. 1 \in DOMAIN events /\ Head(events) = events[1]
    BY Removed DEF Socket!TypeOK
  <1>3. Socket!InUse(id)' => Socket!InUse(id)
    BY <1>1 DEF Socket!InUse
  <1>4. ASSUME Once(id) PROVE Once(id)'
    <2>1. \A i, j \in DOMAIN events' : events'[i] = id /\ events'[j] = id => i = j
      BY <1>1, <1>4 DEF Once
    <2> QED BY <1>1, <1>4, <2>1 DEF Once
  <1>5. ASSUME Once(id), Head(events) = id PROVE ~Socket!InUse(id)'
    <2>1. \A i \in DOMAIN events' : events'[i] # id
      BY <1>1, <1>2, <1>5 DEF Once
    <2> QED BY <1>2, <1>5, <2>1 DEF Once, Socket!InUse
  <1> QED BY <1>3, <1>4, <1>5

(* A command that is written is with the exchange.                         *)
LEMMA MessageWritten ==
    ASSUME Socket!TypeOK, Socket!SocketAssumption, NEW id \in Socket!Ids, Socket!Write
    PROVE  (Socket!InUse(id)' => Socket!InUse(id)) /\ (Once(id) => Once(id)')
  <1>1. \A i \in DOMAIN commands' :
            /\ i \in Int
            /\ i # 0
            /\ i + 1 \in DOMAIN commands
            /\ commands'[i] = commands[i + 1]
    BY Removed DEF Socket!TypeOK, Socket!Write
  <1>2. 1 \in DOMAIN commands /\ Head(commands) = commands[1]
    BY Removed DEF Socket!TypeOK, Socket!Write
  <1>3. id \in asked' <=> id \in asked \/ commands[1] = id
    BY <1>2 DEF Socket!Write, Socket!SocketAssumption, Socket!Ids
  <1>4. UNCHANGED events
    BY DEF Socket!Write
  <1>5. Socket!InUse(id)' => Socket!InUse(id)
    BY <1>1, <1>2, <1>3, <1>4 DEF Socket!InUse
  <1>6. ASSUME Once(id) PROVE Once(id)'
    <2>1. \A i \in DOMAIN commands' : commands'[i] = id => commands[1] # id
      BY <1>1, <1>2, <1>6 DEF Once
    <2>2. \A i, j \in DOMAIN commands' : commands'[i] = id /\ commands'[j] = id => i = j
      BY <1>1, <1>6 DEF Once
    <2> QED BY <1>1, <1>2, <1>3, <1>4, <1>6, <2>1, <2>2 DEF Once
  <1> QED BY <1>5, <1>6

(* A request that is answered is on the channel to the caller.             *)
LEMMA MessageAnswered ==
    ASSUME Socket!TypeOK, NEW id \in Socket!Ids, NEW other \in asked, Socket!Answered(other)
    PROVE  (Socket!InUse(id)' => Socket!InUse(id)) /\ (Once(id) => Once(id)')
  <1>1. \A i \in DOMAIN events' : \/ i \in DOMAIN events /\ events'[i] = events[i]
                                  \/ i = Len(events) + 1 /\ events'[i] = other
    BY Appended DEF Socket!TypeOK, Socket!Answered
  <1>2. UNCHANGED commands /\ asked' = asked \ {other}
    BY DEF Socket!Answered
  <1>3. Socket!InUse(id)' => Socket!InUse(id)
    BY <1>1, <1>2 DEF Socket!InUse
  <1>4. Once(id) => Once(id)'
    BY <1>1, <1>2 DEF Once
  <1> QED BY <1>3, <1>4

(* A command is added: another one changes nothing for an id, and an id    *)
(* that was free is in use once.                                           *)
LEMMA MessageSent ==
    ASSUME Socket!TypeOK, NEW id \in Socket!Ids, NEW command \in Socket!Ids \union {Subscribe},
           commands' = Append(commands, command), UNCHANGED <<asked, events>>
    PROVE  /\ command # id => (Socket!InUse(id)' => Socket!InUse(id)) /\ (Once(id) => Once(id)')
           /\ command = id /\ ~Socket!InUse(id) => Once(id)'
  <1>1. \A i \in DOMAIN commands' : \/ i \in DOMAIN commands /\ commands'[i] = commands[i]
                                    \/ i = Len(commands) + 1 /\ commands'[i] = command
    BY Appended DEF Socket!TypeOK
  <1>2. ASSUME command # id
        PROVE  (Socket!InUse(id)' => Socket!InUse(id)) /\ (Once(id) => Once(id)')
    BY <1>1, <1>2 DEF Socket!InUse, Once
  <1>3. ASSUME command = id, ~Socket!InUse(id) PROVE Once(id)'
    BY <1>1, <1>3 DEF Socket!InUse, Once
  <1> QED BY <1>2, <1>3

(* What is pushed has no id.                                               *)
LEMMA MessagePushed ==
    ASSUME Socket!TypeOK, Socket!SocketAssumption, NEW id \in Socket!Ids, Socket!Pushed
    PROVE  (Socket!InUse(id)' => Socket!InUse(id)) /\ (Once(id) => Once(id)')
  <1>1. \A i \in DOMAIN events' : \/ i \in DOMAIN events /\ events'[i] = events[i]
                                  \/ i = Len(events) + 1 /\ events'[i] = Snapshot
    BY Appended DEF Socket!TypeOK, Socket!Pushed
  <1>2. UNCHANGED <<commands, asked>> /\ Snapshot # id
    BY DEF Socket!Pushed, Socket!SocketAssumption, Socket!Ids
  <1> QED BY <1>1, <1>2 DEF Socket!InUse, Once

(* A step that takes no new id and leaves the stamp and the wait as they   *)
(* are keeps the invariant.                                                *)
LEMMA OwnStampKept ==
    ASSUME Socket!TypeOK, Socket!SocketAssumption, SocketInv, UNCHANGED <<stamp, waiting>>,
           reader' => reader,
           \A id \in Socket!Ids : (Socket!InUse(id)' => Socket!InUse(id)) /\ (Once(id) => Once(id)')
    PROVE  (reader /\ stamp # None => OwnStamp)'
  <1> SUFFICES ASSUME reader', stamp # None, NEW dest \in Clocked
        PROVE  /\ (waiting = <<dest, stamp>> => Once(waiting))'
               /\ (Socket!InUse(<<dest, stamp>>) => waiting = <<dest, stamp>>)'
    BY DEF OwnStamp
  <1>1. <<dest, stamp>> \in Socket!Ids
    BY DEF Socket!Ids, Socket!TypeOK, Socket!SocketAssumption
  <1>2. /\ waiting = <<dest, stamp>> => Once(waiting)
        /\ Socket!InUse(<<dest, stamp>>) => waiting = <<dest, stamp>>
    BY DEF SocketInv, OwnStamp
  <1>3. /\ Socket!InUse(<<dest, stamp>>)' => Socket!InUse(<<dest, stamp>>)
        /\ Once(<<dest, stamp>>) => Once(<<dest, stamp>>)'
    BY <1>1
  <1>4. (waiting = <<dest, stamp>> => Once(waiting))'
    BY <1>2, <1>3 DEF Once
  <1>5. (Socket!InUse(<<dest, stamp>>) => waiting = <<dest, stamp>>)'
    BY <1>2, <1>3 DEF Socket!InUse
  <1> QED BY <1>4, <1>5

(* Before anything is asked nothing is on its way.                         *)
LEMMA InitSocket == Socket!SocketAssumption /\ Socket!Init => SocketInv
  BY DEF Socket!Init, SocketInv, Socket!TypeOK, Socket!GotIsAsked, WaitsForStamp,
         Socket!SocketAssumption

(* A request with the client's clock takes an id that is free.             *)
LEMMA TakesFree ==
    ASSUME Socket!SocketAssumption, SocketInv, waiting = None, reader, NEW dest \in Clocked,
           NEW at \in Socket!Now
    PROVE  ~Socket!InUse(<<dest, at>>)
  <1>1. CASE at = stamp
    BY <1>1 DEF SocketInv, OwnStamp, Socket!Now, Socket!SocketAssumption
  <1>2. CASE \A other \in Clocked : ~Socket!InUse(<<other, at>>)
    BY <1>2
  <1> QED BY <1>1, <1>2, Zenon DEF Socket!Now

(* Every step keeps the invariant.                                         *)
LEMMA NextSocket == Socket!SocketAssumption /\ SocketInv /\ [Socket!Next]_Socket!vars => SocketInv'
  <1> SUFFICES ASSUME Socket!SocketAssumption, SocketInv, [Socket!Next]_Socket!vars
               PROVE  SocketInv'
    OBVIOUS
  <1>t. Socket!TypeOK /\ Socket!TypeOK'
    BY SocketTypes DEF SocketInv
  <1>1. CASE Socket!SubscribePortfolio
    <2>1. \A id \in Socket!Ids : (Socket!InUse(id)' => Socket!InUse(id)) /\ (Once(id) => Once(id)')
      BY <1>1, <1>t, MessageSent DEF Socket!SubscribePortfolio, Socket!SocketAssumption,
                                     Socket!Ids
    <2>2. (reader /\ stamp # None => OwnStamp)'
      BY <1>1, <1>t, <2>1, OwnStampKept DEF Socket!SubscribePortfolio
    <2> QED BY <1>1, <1>t, <2>2 DEF Socket!SubscribePortfolio, SocketInv, Socket!GotIsAsked,
                                      WaitsForStamp
  <1>2. CASE Socket!Requests
    <2>1. PICK dest \in Kinds : Socket!Request(dest) BY <1>2 DEF Socket!Requests
    <2>2. CASE ~writer
      <3>1. UNCHANGED <<stamp, waiting, commands, reader, asked, events>> /\ result' = Closed
        BY <2>1, <2>2 DEF Socket!Request
      <3>2. \A id \in Socket!Ids : (Socket!InUse(id)' => Socket!InUse(id)) /\ (Once(id) => Once(id)')
        BY <3>1 DEF Socket!InUse, Once
      <3>3. (reader /\ stamp # None => OwnStamp)'
        BY <3>1, <3>2, <1>t, OwnStampKept
      <3> QED BY <3>1, <3>3, <1>t DEF SocketInv, Socket!GotIsAsked, WaitsForStamp
    <2>3. CASE writer /\ dest \in Clocked
      <3>1. PICK at \in Socket!Now :
              /\ stamp' = at /\ waiting' = <<dest, at>>
              /\ commands' = Append(commands, <<dest, at>>)
              /\ result' = None
        BY <2>1, <2>3, Zenon DEF Socket!Request
      <3>2. waiting = None /\ UNCHANGED <<reader, asked, events>>
        BY <2>1 DEF Socket!Request
      <3>3. at \in Stamps BY DEF Socket!Now
      <3>4. ASSUME reader', stamp' # None, NEW other \in Clocked
            PROVE  /\ (waiting = <<other, stamp>> => Once(waiting))'
                   /\ (Socket!InUse(<<other, stamp>>) => waiting = <<other, stamp>>)'
        <4>1. ~Socket!InUse(<<other, at>>)
          BY <3>2, <3>4, TakesFree
        <4>2. <<other, at>> \in Socket!Ids /\ <<dest, at>> \in Socket!Ids
          BY <3>3, <2>3 DEF Socket!Ids, Socket!SocketAssumption
        <4>3. CASE other = dest
          <5>1. Once(<<dest, at>>)'
            BY <4>1, <4>2, <4>3, <3>1, <3>2, <1>t, MessageSent
          <5>2. Once(waiting)'
            BY <5>1, <3>1 DEF Once
          <5> QED BY <5>2, <3>1, <4>3
        <4>4. CASE other # dest
          <5>1. <<other, at>> # <<dest, at>> BY <4>4
          <5>2. ~Socket!InUse(<<other, at>>)'
            BY <4>1, <4>2, <5>1, <3>1, <3>2, <1>t, MessageSent
          <5>3. ~Socket!InUse(<<other, stamp>>)'
            BY <5>2, <3>1 DEF Socket!InUse
          <5> QED BY <5>1, <5>3, <3>1
        <4> QED BY <4>3, <4>4
      <3>5. (reader /\ stamp # None => OwnStamp)'
        BY <3>4 DEF OwnStamp
      <3> QED BY <3>1, <3>5, <1>t DEF SocketInv, Socket!GotIsAsked, WaitsForStamp
    <2>4. CASE writer /\ dest \notin Clocked
      <3>1. PICK at \in Stamps :
              /\ stamp' = stamp /\ waiting' = <<dest, at>>
              /\ commands' = Append(commands, <<dest, at>>)
              /\ result' = None
        BY <2>1, <2>4, Zenon DEF Socket!Request
      <3>2. waiting = None /\ UNCHANGED <<reader, asked, events>>
        BY <2>1 DEF Socket!Request
      <3>3. ASSUME reader', stamp' # None, NEW other \in Clocked
            PROVE  /\ (waiting = <<other, stamp>> => Once(waiting))'
                   /\ (Socket!InUse(<<other, stamp>>) => waiting = <<other, stamp>>)'
        <4>1. /\ <<other, stamp>> \in Socket!Ids
              /\ <<dest, at>> \in Socket!Ids
              /\ <<other, stamp>> # <<dest, at>>
          BY <2>4, <3>1, <3>3, <1>t DEF Socket!Ids, Socket!SocketAssumption, Socket!TypeOK
        <4>2. ~Socket!InUse(<<other, stamp>>)
          BY <3>1, <3>2, <3>3, <4>1 DEF SocketInv, OwnStamp, Socket!SocketAssumption, Socket!Ids
        <4>3. ~Socket!InUse(<<other, stamp>>)'
          <5>1. ASSUME NEW id \in Socket!Ids, id # <<dest, at>>, ~Socket!InUse(id)
                PROVE  ~Socket!InUse(id)'
            BY <5>1, <4>1, <3>1, <3>2, <1>t, MessageSent
          <5> DEFINE id == <<other, stamp>>
          <5> QED BY <5>1, <4>1, <4>2, <3>1 DEF Socket!InUse
        <4> QED BY <4>1, <4>3, <3>1
      <3>4. (reader /\ stamp # None => OwnStamp)'
        BY <3>3 DEF OwnStamp
      <3> QED BY <3>1, <3>4, <2>4, <1>t DEF SocketInv, Socket!GotIsAsked, WaitsForStamp
    <2> QED BY <2>2, <2>3, <2>4
  <1>3. CASE Socket!Receive
    <2>1. /\ events # <<>>
          /\ events' = Tail(events)
          /\ waiting # None
          /\ UNCHANGED <<stamp, commands, asked, reader>>
      BY <1>3 DEF Socket!Receive
    <2>2. \A id \in Socket!Ids : (Socket!InUse(id)' => Socket!InUse(id)) /\ (Once(id) => Once(id)')
      BY <2>1, <1>t, MessageRead
    <2>3. CASE Socket!IsAnswer(Head(events))
      <3>1. /\ waiting' = None
            /\ result' = [asked |-> waiting, got |-> Head(events)]
            /\ Head(events) = waiting
        BY <1>3, <2>3 DEF Socket!Receive, Socket!Return, Socket!IsAnswer
      <3>2. ASSUME reader', stamp' # None, NEW dest \in Clocked
            PROVE  /\ (waiting = <<dest, stamp>> => Once(waiting))'
                   /\ (Socket!InUse(<<dest, stamp>>) => waiting = <<dest, stamp>>)'
        <4>1. <<dest, stamp>> \in Socket!Ids /\ <<dest, stamp>> # None
          BY <2>1, <3>2, <1>t DEF Socket!Ids, Socket!SocketAssumption, Socket!TypeOK
        <4>2. /\ waiting = <<dest, stamp>> => Once(waiting)
              /\ Socket!InUse(<<dest, stamp>>) => waiting = <<dest, stamp>>
          BY <2>1, <3>2 DEF SocketInv, OwnStamp
        <4>3. ASSUME NEW id \in Socket!Ids, waiting = id => Once(id),
                     Socket!InUse(id) => waiting = id
              PROVE  ~Socket!InUse(id)'
          BY <4>3, <3>1, <2>1, <1>t, MessageRead
        <4>4. ~Socket!InUse(<<dest, stamp>>)'
          BY <4>1, <4>2, <4>3, <2>1 DEF Socket!InUse
        <4> QED BY <4>1, <4>4, <3>1, <2>1
      <3>3. (reader /\ stamp # None => OwnStamp)'
        BY <3>2 DEF OwnStamp
      <3> QED BY <3>1, <3>3, <1>t DEF SocketInv, Socket!GotIsAsked, WaitsForStamp
    <2>4. CASE ~Socket!IsAnswer(Head(events))
      <3>1. UNCHANGED <<waiting, result>> BY <1>3, <2>4 DEF Socket!Receive
      <3>2. (reader /\ stamp # None => OwnStamp)'
        BY <2>1, <2>2, <3>1, <1>t, OwnStampKept
      <3> QED BY <2>1, <3>1, <3>2, <1>t DEF SocketInv, Socket!GotIsAsked, WaitsForStamp
    <2> QED BY <2>3, <2>4
  <1>4. CASE Socket!ReceiveClosed
    BY <1>4, <1>t DEF Socket!ReceiveClosed, Socket!Return, SocketInv, Socket!GotIsAsked,
                      WaitsForStamp
  <1>5. CASE Socket!TimePasses
    <2>1. UNCHANGED <<stamp, waiting, result, reader, commands, asked, events>>
      BY <1>5 DEF Socket!TimePasses
    <2>2. \A id \in Socket!Ids : (Socket!InUse(id)' => Socket!InUse(id)) /\ (Once(id) => Once(id)')
      BY <2>1 DEF Socket!InUse, Once
    <2> QED BY <2>1, <2>2, <1>t, OwnStampKept DEF SocketInv, Socket!GotIsAsked, WaitsForStamp
  <1>6. CASE Socket!Timeout
    BY <1>6, <1>t DEF Socket!Timeout, Socket!Return, SocketInv, Socket!GotIsAsked, WaitsForStamp
  <1>7. CASE Socket!ReadEvent
    <2>1. /\ events # <<>>
          /\ events' = Tail(events)
          /\ UNCHANGED <<stamp, waiting, result, reader, commands, asked>>
      BY <1>7 DEF Socket!ReadEvent
    <2>2. \A id \in Socket!Ids : (Socket!InUse(id)' => Socket!InUse(id)) /\ (Once(id) => Once(id)')
      BY <2>1, <1>t, MessageRead
    <2> QED BY <2>1, <2>2, <1>t, OwnStampKept DEF SocketInv, Socket!GotIsAsked, WaitsForStamp
  <1>8. CASE Socket!Write
    <2>1. UNCHANGED <<stamp, waiting, result, reader>>
      BY <1>8 DEF Socket!Write
    <2>2. \A id \in Socket!Ids : (Socket!InUse(id)' => Socket!InUse(id)) /\ (Once(id) => Once(id)')
      BY <1>8, <1>t, MessageWritten
    <2> QED BY <2>1, <2>2, <1>t, OwnStampKept DEF SocketInv, Socket!GotIsAsked, WaitsForStamp
  <1>9. CASE Socket!WriteFails
    <2>1. UNCHANGED <<stamp, waiting, result, reader, asked, events>> /\ commands' = <<>>
      BY <1>9 DEF Socket!WriteFails
    <2>2. \A id \in Socket!Ids : (Socket!InUse(id)' => Socket!InUse(id)) /\ (Once(id) => Once(id)')
      BY <2>1 DEF Socket!InUse, Once
    <2> QED BY <2>1, <2>2, <1>t, OwnStampKept DEF SocketInv, Socket!GotIsAsked, WaitsForStamp
  <1>10. CASE Socket!ReadFails
    BY <1>10, <1>t DEF Socket!ReadFails, SocketInv, Socket!GotIsAsked, WaitsForStamp
  <1>11. ASSUME NEW other \in asked, Socket!Answered(other) PROVE SocketInv'
    <2>1. UNCHANGED <<stamp, waiting, result, reader>>
      BY <1>11 DEF Socket!Answered
    <2>2. \A id \in Socket!Ids : (Socket!InUse(id)' => Socket!InUse(id)) /\ (Once(id) => Once(id)')
      BY <1>11, <1>t, MessageAnswered
    <2> QED BY <2>1, <2>2, <1>t, OwnStampKept DEF SocketInv, Socket!GotIsAsked, WaitsForStamp
  <1>12. CASE Socket!Pushed
    <2>1. UNCHANGED <<stamp, waiting, result, reader>>
      BY <1>12 DEF Socket!Pushed
    <2>2. \A id \in Socket!Ids : (Socket!InUse(id)' => Socket!InUse(id)) /\ (Once(id) => Once(id)')
      BY <1>12, <1>t, MessagePushed
    <2> QED BY <2>1, <2>2, <1>t, OwnStampKept DEF SocketInv, Socket!GotIsAsked, WaitsForStamp
  <1>13. CASE UNCHANGED Socket!vars
    <2>1. UNCHANGED <<stamp, waiting, result, reader, commands, asked, events>>
      BY <1>13 DEF Socket!vars
    <2>2. \A id \in Socket!Ids : (Socket!InUse(id)' => Socket!InUse(id)) /\ (Once(id) => Once(id)')
      BY <2>1 DEF Socket!InUse, Once
    <2> QED BY <2>1, <2>2, <1>t, OwnStampKept DEF SocketInv, Socket!GotIsAsked, WaitsForStamp
  <1> QED
    BY <1>1, <1>2, <1>3, <1>4, <1>5, <1>6, <1>7, <1>8, <1>9, <1>10, <1>11, <1>12, <1>13
    DEF Socket!Next, Socket!Quiet, Socket!Waits, Socket!Tasks

(* So the invariant always holds.                                          *)
LEMMA SocketKept == ASSUME Socket!SocketAssumption PROVE Socket!Spec => []SocketInv
  <1>1. Socket!Init => SocketInv BY InitSocket
  <1>2. SocketInv /\ [Socket!Next]_Socket!vars => SocketInv' BY NextSocket
  <1> QED BY <1>1, <1>2, PTL DEF Socket!Spec

(* What a request returns has its id, and never that of another event that *)
(* was in the channel (Client::request).                                   *)
THEOREM GotAlwaysAsked ==
  ASSUME Socket!SocketAssumption
  PROVE  Socket!Spec => []Socket!GotIsAsked
  <1>1. SocketInv => Socket!GotIsAsked BY DEF SocketInv
  <1> QED BY <1>1, SocketKept, PTL

(* An id that is made with now_ms is of no command and no answer that is   *)
(* on its way, so a late answer is never taken for that of a new request.  *)
THEOREM NewIdAlwaysFree ==
  ASSUME Socket!SocketAssumption
  PROVE  Socket!Spec => Socket!NewIdIsFree
  <1>1. SocketInv /\ [Socket!Next]_Socket!vars
          => [waiting = None /\ waiting' # None /\ waiting'[1] \in Clocked /\ reader =>
                ~Socket!InUse(waiting')]_Socket!vars
    <2> SUFFICES ASSUME SocketInv, [Socket!Next]_Socket!vars,
                        waiting = None, waiting' # None, waiting'[1] \in Clocked, reader
          PROVE  ~Socket!InUse(waiting')
      OBVIOUS
    <2>1. PICK dest \in Kinds : Socket!Request(dest)
      BY DEF Socket!Next, Socket!Quiet, Socket!Requests, Socket!SubscribePortfolio,
             Socket!Waits, Socket!Receive, Socket!ReceiveClosed, Socket!TimePasses,
             Socket!Timeout,
             Socket!ReadEvent, Socket!Tasks, Socket!Write, Socket!WriteFails, Socket!ReadFails,
             Socket!Answered, Socket!Pushed, Socket!Return, Socket!vars
    <2>2. writer BY <2>1 DEF Socket!Request
    <2>3. PICK at \in IF dest \in Clocked THEN Socket!Now ELSE Stamps : waiting' = <<dest, at>>
      BY <2>1, <2>2, Zenon DEF Socket!Request
    <2>4. dest \in Clocked /\ at \in Socket!Now BY <2>3
    <2> QED BY <2>3, <2>4, TakesFree
  <1> QED BY <1>1, SocketKept, PTL DEF Socket!Spec, Socket!NewIdIsFree

(* What a request returns has its id, and an id by the client's clock is   *)
(* free when it is taken, so that no late answer is taken for another's,   *)
(* for any number of answers that come late (Client::request).             *)
THEOREM AnswerAlwaysOwn ==
  ASSUME Socket!SocketAssumption
  PROVE  Socket!Spec => AnswerIsOwn
  <1>1. SocketInv => Socket!TypeOK /\ Socket!GotIsAsked BY DEF SocketInv
  <1> QED BY <1>1, SocketKept, NewIdAlwaysFree, PTL DEF AnswerIsOwn, Socket!AnswerIsOwn

-----------------------------------------------------------------------------
(* ExpenseBook: the calendar.                                              *)

\* An instance has operators of its own for what is said here of Total.
LEMMA SameTotal == \A f, S : Expenses!Total(f, S) = Total(f, S)
BY DEF Expenses!Total, Expenses!MapThenSumSet, Expenses!MapThenFoldSet,
       Total, MapThenSumSet, MapThenFoldSet

\* g is a table of the days on which the years up to n begin.
YearsUp(g, n) ==
    g = [y \in 0 .. n |-> IF y = 0 THEN 0 ELSE g[y - 1] + Expenses!Length(y - 1)]

(* The recursion of YearStart has a table, for any number of years.        *)
LEMMA YearsExist == \A n \in Nat : \E g : YearsUp(g, n)
<1> DEFINE P == {n \in Nat : \E g : YearsUp(g, n)}
<1>1. 0 \in P
  <2> DEFINE g == [y \in 0 .. 0 |-> 0]
  <2>1. YearsUp(g, 0)
    BY DEF YearsUp
  <2> QED
    BY <2>1
<1>2. ASSUME NEW n \in Nat, n \in P PROVE n + 1 \in P
  <2>1. PICK g : YearsUp(g, n)
    BY <1>2
  <2> DEFINE h == [y \in 0 .. n + 1 |->
                     IF y = 0 THEN 0 ELSE g[y - 1] + Expenses!Length(y - 1)]
  <2>2. ASSUME NEW y \in 0 .. n PROVE h[y] = g[y]
    <3>1. g[y] = IF y = 0 THEN 0 ELSE g[y - 1] + Expenses!Length(y - 1)
      BY <2>1 DEF YearsUp
    <3>2. y \in 0 .. n + 1
      OBVIOUS
    <3> QED
      BY <3>1, <3>2
  <2>3. ASSUME NEW y \in 0 .. n + 1, y # 0 PROVE h[y - 1] = g[y - 1]
    <3>1. y - 1 \in 0 .. n
      BY <2>3
    <3> HIDE DEF h
    <3> QED
      BY <2>2, <3>1
  <2>4. h = [y \in 0 .. n + 1 |-> IF y = 0 THEN 0 ELSE h[y - 1] + Expenses!Length(y - 1)]
    BY <2>3
  <2>5. YearsUp(h, n + 1)
    <3> HIDE DEF h
    <3> QED
      BY <2>4 DEF YearsUp
  <2> QED
    BY <2>5
<1> HIDE DEF P
<1>3. Nat \subseteq P
  BY <1>1, <1>2, InductiveSet
<1> QED
  BY <1>3 DEF P

\* The day on which a year begins.
Begin(y) == Expenses!YearStart[y]

(* A year begins when the one before it has passed.                        *)
LEMMA YearFollows ==
  ASSUME LastYear \in Nat
  PROVE  /\ Begin(0) = 0
         /\ \A y \in 0 .. LastYear + 1 : Begin(y + 1) = Begin(y) + Expenses!Length(y)
         /\ \A y \in Nat : Expenses!Length(y) \in {365, 366}
         /\ \A y \in 0 .. LastYear + 2 : Begin(y) \in Nat
<1> DEFINE s == Expenses!YearStart
           P == {n \in Nat : n <= LastYear + 2 => s[n] \in Nat}
<1>1. YearsUp(s, LastYear + 2)
  <2>1. s = CHOOSE g : YearsUp(g, LastYear + 2)
    BY DEF Expenses!YearStart, YearsUp
  <2>2. LastYear + 2 \in Nat
    OBVIOUS
  <2> QED
    BY <2>1, <2>2, YearsExist
<1> HIDE DEF s
<1>2. s[0] = 0
  BY <1>1 DEF YearsUp
<1>3. ASSUME NEW y \in 0 .. LastYear + 1 PROVE s[y + 1] = s[y] + Expenses!Length(y)
  <2>1. y + 1 \in 0 .. LastYear + 2 /\ y + 1 # 0 /\ y + 1 - 1 = y
    OBVIOUS
  <2> QED
    BY <1>1, <2>1 DEF YearsUp
<1>4. \A y \in Nat : Expenses!Length(y) \in {365, 366}
  BY DEF Expenses!Length
<1>5. 0 \in P
  BY <1>2
<1>6. ASSUME NEW n \in Nat, n \in P PROVE n + 1 \in P
  <2> SUFFICES ASSUME n + 1 <= LastYear + 2 PROVE s[n + 1] \in Nat
    OBVIOUS
  <2>1. n \in 0 .. LastYear + 1 /\ s[n] \in Nat
    BY <1>6
  <2> QED
    BY <1>3, <1>4, <2>1
<1> HIDE DEF P
<1>7. Nat \subseteq P
  BY <1>5, <1>6, InductiveSet
<1>8. \A y \in 0 .. LastYear + 2 : s[y] \in Nat
  BY <1>7 DEF P
<1> QED
  BY <1>2, <1>3, <1>4, <1>8 DEF Begin, s

(* Of two years the earlier is over when the later begins.                 *)
LEMMA YearsAscend ==
  ASSUME LastYear \in Nat
  PROVE  \A y, z \in 0 .. LastYear + 2 : y < z => Begin(y + 1) <= Begin(z)
<1> SUFFICES ASSUME NEW y \in 0 .. LastYear + 2
             PROVE  \A z \in 0 .. LastYear + 2 : y < z => Begin(y + 1) <= Begin(z)
  OBVIOUS
<1> DEFINE P == {n \in Nat : y + 1 + n <= LastYear + 2 => Begin(y + 1) <= Begin(y + 1 + n)}
<1>1. 0 \in P
  <2> SUFFICES ASSUME y + 1 <= LastYear + 2 PROVE Begin(y + 1) <= Begin(y + 1)
    OBVIOUS
  <2>1. y + 1 \in 0 .. LastYear + 2
    OBVIOUS
  <2> QED
    BY <2>1, YearFollows
<1>2. ASSUME NEW n \in Nat, n \in P PROVE n + 1 \in P
  <2> SUFFICES ASSUME y + 1 + (n + 1) <= LastYear + 2
               PROVE  Begin(y + 1) <= Begin(y + 1 + (n + 1))
    OBVIOUS
  <2> DEFINE z == y + 1 + n
  <2>1. z \in 0 .. LastYear + 1 /\ z \in 0 .. LastYear + 2 /\ z \in Nat /\ z + 1 = y + 1 + (n + 1)
        /\ y + 1 \in 0 .. LastYear + 2 /\ z + 1 \in 0 .. LastYear + 2
    OBVIOUS
  <2>2. Begin(y + 1) <= Begin(z)
    BY <1>2, <2>1
  <2> HIDE DEF z
  <2>3. Begin(z + 1) = Begin(z) + Expenses!Length(z) /\ Expenses!Length(z) \in {365, 366}
    BY <2>1, YearFollows
  <2>4. Begin(y + 1) \in Nat /\ Begin(z) \in Nat
    BY <2>1, YearFollows
  <2>5. Begin(y + 1) <= Begin(z + 1)
    BY <2>2, <2>3, <2>4
  <2> QED
    BY <2>1, <2>5
<1> HIDE DEF P
<1>3. Nat \subseteq P
  BY <1>1, <1>2, InductiveSet
<1> SUFFICES ASSUME NEW z \in 0 .. LastYear + 2, y < z PROVE Begin(y + 1) <= Begin(z)
  OBVIOUS
<1>4. z - (y + 1) \in Nat /\ y + 1 + (z - (y + 1)) = z
  OBVIOUS
<1>5. z - (y + 1) \in P
  BY <1>3, <1>4
<1> QED
  BY <1>4, <1>5 DEF P

\* The day d is in the year y.
InYear(d, y) == Begin(y) <= d /\ d < Begin(y + 1)

(* Whatever day is asked for is in one of the years.                       *)
LEMMA YearFound ==
  ASSUME LastYear \in Nat, NEW d \in Int, Begin(1) <= d, d < Begin(LastYear + 1)
  PROVE  \E y \in 1 .. LastYear : InYear(d, y)
<1> DEFINE P == {n \in Nat : n <= LastYear /\ d < Begin(n + 1) => \E y \in 1 .. n : InYear(d, y)}
<1>1. 0 \in P
  <2>1. 1 \in 0 .. LastYear + 2
    OBVIOUS
  <2>2. ~(d < Begin(1))
    BY <2>1, YearFollows
  <2> QED
    BY <2>2
<1>2. ASSUME NEW n \in Nat, n \in P PROVE n + 1 \in P
  <2> SUFFICES ASSUME n + 1 <= LastYear, d < Begin(n + 1 + 1)
               PROVE  \E y \in 1 .. n + 1 : InYear(d, y)
    OBVIOUS
  <2>1. CASE d < Begin(n + 1)
    <3>1. \E y \in 1 .. n : InYear(d, y)
      BY <1>2, <2>1
    <3> QED
      BY <3>1
  <2>2. CASE ~(d < Begin(n + 1))
    <3>1. n + 1 \in 0 .. LastYear + 2 /\ n + 1 \in 1 .. n + 1
      OBVIOUS
    <3>2. Begin(n + 1) <= d
      BY <2>2, <3>1, YearFollows
    <3> QED
      BY <3>1, <3>2 DEF InYear
  <2> QED
    BY <2>1, <2>2
<1> HIDE DEF P
<1>3. Nat \subseteq P
  BY <1>1, <1>2, InductiveSet
<1> QED
  BY <1>3 DEF P

(* The year that is read off a day is the one that it is in.               *)
LEMMA YearIs ==
  ASSUME LastYear \in Nat, NEW d \in Int, NEW y \in 0 .. LastYear + 1, InYear(d, y)
  PROVE  Expenses!YearOf(d) = y
<1>1. ASSUME NEW z \in 0 .. LastYear + 1, InYear(d, z) PROVE z = y
  <2>1. /\ y \in 0 .. LastYear + 2 /\ z \in 0 .. LastYear + 2
        /\ y + 1 \in 0 .. LastYear + 2 /\ z + 1 \in 0 .. LastYear + 2
    OBVIOUS
  <2>2. /\ Begin(y) \in Nat /\ Begin(z) \in Nat /\ Begin(y + 1) \in Nat /\ Begin(z + 1) \in Nat
    BY <2>1, YearFollows
  <2>3. ~(y < z)
    <3>1. y < z => Begin(y + 1) <= Begin(z)
      BY <2>1, YearsAscend
    <3> QED
      BY <1>1, <2>2, <3>1 DEF InYear
  <2>4. ~(z < y)
    <3>1. z < y => Begin(z + 1) <= Begin(y)
      BY <2>1, YearsAscend
    <3> QED
      BY <1>1, <2>2, <3>1 DEF InYear
  <2> QED
    BY <2>3, <2>4
<1>2. Expenses!YearOf(d) = CHOOSE z \in 0 .. LastYear + 1 : InYear(d, z)
  BY DEF Expenses!YearOf, Expenses!Around, InYear, Begin
<1> QED
  BY <1>1, <1>2

\* The days of February, and the days of a year before each of its months.
February(y) == IF y \in LeapYears THEN 29 ELSE 28
DaysBefore(l, m) ==
    <<0, 31, 31 + l, 62 + l, 92 + l, 123 + l, 153 + l, 184 + l, 215 + l, 245 + l, 276 + l, 306 + l>>[m]

(* The sum of the months before a month is known.                          *)
LEMMA MonthsSumUp ==
  ASSUME NEW y
  PROVE  \A m \in 1 .. 12 :
            Total([k \in 1 .. 12 |-> Expenses!MonthLength(y, k)], 1 .. m - 1) = DaysBefore(February(y), m)
<1> DEFINE c == [k \in 1 .. 12 |-> Expenses!MonthLength(y, k)]
           l == February(y)
           T(m) == Total(c, 1 .. m - 1)
<1>1. /\ l \in {28, 29}
      /\ c[1] = 31 /\ c[2] = l /\ c[3] = 31 /\ c[4] = 30 /\ c[5] = 31 /\ c[6] = 30 /\ c[7] = 31
      /\ c[8] = 31 /\ c[9] = 30 /\ c[10] = 31 /\ c[11] = 30 /\ c[12] = 31
  BY DEF February, Expenses!MonthLength
<1>2. \A k \in 1 .. 12 : c[k] \in Int
  <2>1. \A k \in 1 .. 12 : k = 1 \/ k = 2 \/ k = 3 \/ k = 4 \/ k = 5 \/ k = 6 \/ k = 7 \/ k = 8
                           \/ k = 9 \/ k = 10 \/ k = 11 \/ k = 12
    OBVIOUS
  <2> HIDE DEF c, l
  <2> QED
    BY <1>1, <2>1
<1> HIDE DEF c, l
<1>3. T(1) = 0
  <2>1. 1 .. 1 - 1 = {}
    OBVIOUS
  <2> QED
    BY <2>1, TotalEmpty
<1>4. ASSUME NEW m \in 1 .. 11 PROVE T(m + 1) = c[m] + T(m)
  <2>1. 1 .. (m + 1) - 1 = (1 .. m - 1) \cup {m} /\ m \notin 1 .. m - 1
    OBVIOUS
  <2>2. IsFiniteSet(1 .. m - 1)
    BY FS_Interval
  <2>3. \A k \in (1 .. m - 1) \cup {m} : c[k] \in Int
    BY <1>2
  <2> QED
    BY <2>1, <2>2, <2>3, TotalAdd
<1> HIDE DEF T
<1>5. /\ T(2) = 31 /\ T(3) = 31 + l /\ T(4) = 62 + l /\ T(5) = 92 + l
  <2>1. T(1 + 1) = c[1] + T(1) /\ T(2 + 1) = c[2] + T(2) /\ T(3 + 1) = c[3] + T(3)
        /\ T(4 + 1) = c[4] + T(4)
    BY <1>4
  <2> QED
    BY <1>1, <1>3, <2>1
<1>6. /\ T(6) = 123 + l /\ T(7) = 153 + l /\ T(8) = 184 + l
  <2>1. T(5 + 1) = c[5] + T(5) /\ T(6 + 1) = c[6] + T(6) /\ T(7 + 1) = c[7] + T(7)
    BY <1>4
  <2> QED
    BY <1>1, <1>5, <2>1
<1>7. /\ T(9) = 215 + l /\ T(10) = 245 + l /\ T(11) = 276 + l /\ T(12) = 306 + l
  <2>1. T(8 + 1) = c[8] + T(8) /\ T(9 + 1) = c[9] + T(9) /\ T(10 + 1) = c[10] + T(10)
        /\ T(11 + 1) = c[11] + T(11)
    BY <1>4
  <2> QED
    BY <1>1, <1>6, <2>1
<1>8. \A m \in 1 .. 12 : T(m) = DaysBefore(l, m)
  <2> SUFFICES ASSUME NEW m \in 1 .. 12 PROVE T(m) = DaysBefore(l, m)
    OBVIOUS
  <2>1. m = 1 \/ m = 2 \/ m = 3 \/ m = 4 \/ m = 5 \/ m = 6 \/ m = 7 \/ m = 8
        \/ m = 9 \/ m = 10 \/ m = 11 \/ m = 12
    OBVIOUS
  <2> QED
    BY <1>3, <1>5, <1>6, <1>7, <2>1 DEF DaysBefore
<1> QED
  BY <1>8 DEF T, c, l

\* When a month begins, and when it is over: list_by_month asks for what is between.
From(y, m) == Expenses!MonthStart[y][m]
Until(y, m) == IF m = 12 THEN From(y + 1, 1) ELSE From(y, m + 1)

(* The months of a year follow each other, and fill it.                    *)
LEMMA MonthsFollow ==
  ASSUME LastYear \in Nat, NEW y \in 0 .. LastYear
  PROVE  /\ \A m \in 1 .. 12 : From(y, m) = Begin(y) + DaysBefore(February(y), m)
         /\ From(y + 1, 1) = Begin(y) + 337 + February(y)
         /\ Begin(y + 1) = Begin(y) + 337 + February(y)
         /\ February(y) \in {28, 29} /\ Begin(y) \in Nat
<1>1. ASSUME NEW z \in 0 .. LastYear + 1, NEW m \in 1 .. 12
      PROVE  From(z, m) = Begin(z) + DaysBefore(February(z), m)
  <2> DEFINE c == [k \in 1 .. 12 |-> Expenses!MonthLength(z, k)]
  <2>1. From(z, m) = Begin(z) + Expenses!Total(c, 1 .. m - 1)
    BY DEF From, Begin, Expenses!MonthStart, Expenses!Around
  <2>2. Total(c, 1 .. m - 1) = DaysBefore(February(z), m)
    BY MonthsSumUp
  <2> HIDE DEF c
  <2>3. Expenses!Total(c, 1 .. m - 1) = Total(c, 1 .. m - 1)
    BY SameTotal
  <2> QED
    BY <2>1, <2>2, <2>3
<1>2. /\ y \in Nat /\ y \in 0 .. LastYear + 1 /\ y + 1 \in 0 .. LastYear + 1
      /\ y \in 0 .. LastYear + 2 /\ y + 1 \in 0 .. LastYear + 2
  OBVIOUS
<1>3. Begin(y + 1) = Begin(y) + Expenses!Length(y) /\ Begin(y) \in Nat /\ Begin(y + 1) \in Nat
  BY <1>2, YearFollows
<1>4. February(y) \in {28, 29} /\ Expenses!Length(y) = 337 + February(y)
  BY DEF February, Expenses!Length
<1>5. From(y + 1, 1) = Begin(y + 1)
  <2>1. From(y + 1, 1) = Begin(y + 1) + DaysBefore(February(y + 1), 1)
    BY <1>1, <1>2
  <2>2. DaysBefore(February(y + 1), 1) = 0
    BY DEF DaysBefore
  <2> QED
    BY <1>3, <2>1, <2>2
<1> QED
  BY <1>1, <1>2, <1>3, <1>4, <1>5

(* Of a year's days, each is in one of its months, and in no other.        *)
LEMMA DayHasMonth ==
  ASSUME NEW b \in Nat, NEW l \in {28, 29}, NEW d \in Int, b <= d, d < b + 337 + l
  PROVE  \E m \in 1 .. 12 : /\ b + DaysBefore(l, m) <= d
                            /\ d < (IF m = 12 THEN b + 337 + l ELSE b + DaysBefore(l, m + 1))
<1>1. /\ DaysBefore(l, 1) = 0 /\ DaysBefore(l, 2) = 31 /\ DaysBefore(l, 3) = 31 + l
      /\ DaysBefore(l, 4) = 62 + l /\ DaysBefore(l, 5) = 92 + l /\ DaysBefore(l, 6) = 123 + l
      /\ DaysBefore(l, 7) = 153 + l /\ DaysBefore(l, 8) = 184 + l /\ DaysBefore(l, 9) = 215 + l
      /\ DaysBefore(l, 10) = 245 + l /\ DaysBefore(l, 11) = 276 + l
      /\ DaysBefore(l, 12) = 306 + l
  BY DEF DaysBefore
<1> DEFINE In(m) == /\ b + DaysBefore(l, m) <= d
                    /\ d < (IF m = 12 THEN b + 337 + l ELSE b + DaysBefore(l, m + 1))
<1>2. CASE d < b + 92 + l
  <2>1. In(1) \/ In(2) \/ In(3) \/ In(4)
    BY <1>1, <1>2
  <2> QED
    BY <2>1
<1>3. CASE b + 92 + l <= d /\ d < b + 215 + l
  <2>1. In(5) \/ In(6) \/ In(7) \/ In(8)
    BY <1>1, <1>3
  <2> QED
    BY <2>1
<1>4. CASE b + 215 + l <= d
  <2>1. In(9) \/ In(10) \/ In(11) \/ In(12)
    BY <1>1, <1>4
  <2> QED
    BY <2>1
<1> QED
  BY <1>2, <1>3, <1>4

(* A month is over before a later one begins.                              *)
LEMMA MonthsAscend ==
  ASSUME NEW l \in {28, 29}, NEW m \in 1 .. 12, NEW n \in 1 .. 12, m < n
  PROVE  /\ DaysBefore(l, m + 1) <= DaysBefore(l, n)
         /\ DaysBefore(l, m) \in Nat /\ DaysBefore(l, n) \in Nat
         /\ DaysBefore(l, m + 1) \in Nat
<1>1. /\ DaysBefore(l, 1) = 0 /\ DaysBefore(l, 2) = 31 /\ DaysBefore(l, 3) = 31 + l
      /\ DaysBefore(l, 4) = 62 + l /\ DaysBefore(l, 5) = 92 + l /\ DaysBefore(l, 6) = 123 + l
      /\ DaysBefore(l, 7) = 153 + l /\ DaysBefore(l, 8) = 184 + l /\ DaysBefore(l, 9) = 215 + l
      /\ DaysBefore(l, 10) = 245 + l /\ DaysBefore(l, 11) = 276 + l
      /\ DaysBefore(l, 12) = 306 + l
  BY DEF DaysBefore
<1>2. /\ m = 1 \/ m = 2 \/ m = 3 \/ m = 4 \/ m = 5 \/ m = 6 \/ m = 7 \/ m = 8 \/ m = 9
         \/ m = 10 \/ m = 11
      /\ n = 2 \/ n = 3 \/ n = 4 \/ n = 5 \/ n = 6 \/ n = 7 \/ n = 8 \/ n = 9
         \/ n = 10 \/ n = 11 \/ n = 12
  OBVIOUS
<1> QED
  BY <1>1, <1>2

(* The month that is read off a day of a year is the one whose range it is *)
(* in, and it is in no other month's.                                      *)
LEMMA MonthIs ==
  ASSUME LastYear \in Nat, NEW y \in 0 .. LastYear, NEW d \in Int, InYear(d, y)
  PROVE  /\ Expenses!MonthOf(d) \in 1 .. 12
         /\ \A m \in 1 .. 12 : Expenses!MonthOf(d) = m <=> From(y, m) <= d /\ d < Until(y, m)
<1> DEFINE S == {m \in 1 .. 12 : From(y, m) <= d}
           l == February(y)
           b == Begin(y)
<1>0. /\ \A m \in 1 .. 12 : From(y, m) = b + DaysBefore(l, m)
      /\ From(y + 1, 1) = b + 337 + l /\ Begin(y + 1) = b + 337 + l
      /\ l \in {28, 29} /\ b \in Nat
  BY MonthsFollow
<1>1. Expenses!MonthOf(d) = CHOOSE m \in S : \A n \in S : m >= n
  <2>1. Expenses!YearOf(d) = y
    <3>1. y \in 0 .. LastYear + 1
      OBVIOUS
    <3> QED
      BY <3>1, YearIs
  <2> QED
    BY <2>1 DEF Expenses!MonthOf, Expenses!Max, From
<1> HIDE DEF l, b
<1>2. b <= d /\ d < b + 337 + l
  BY <1>0 DEF InYear, b
<1>3. \A m \in 1 .. 12 : Until(y, m) = IF m = 12 THEN b + 337 + l ELSE b + DaysBefore(l, m + 1)
  BY <1>0 DEF Until
<1>4. \E m \in 1 .. 12 : From(y, m) <= d /\ d < Until(y, m)
  <2>1. PICK m \in 1 .. 12 : /\ b + DaysBefore(l, m) <= d
                             /\ d < (IF m = 12 THEN b + 337 + l ELSE b + DaysBefore(l, m + 1))
    BY <1>0, <1>2, DayHasMonth
  <2> QED
    BY <1>0, <1>3, <2>1
<1>5. ASSUME NEW m \in 1 .. 12, From(y, m) <= d, d < Until(y, m)
      PROVE  m \in S /\ \A n \in S : m >= n
  <2> SUFFICES ASSUME NEW n \in 1 .. 12, m < n, From(y, n) <= d PROVE FALSE
    BY <1>5
  <2>1. /\ DaysBefore(l, m + 1) <= DaysBefore(l, n)
        /\ DaysBefore(l, n) \in Nat /\ DaysBefore(l, m + 1) \in Nat
    BY <1>0, MonthsAscend
  <2>2. d < b + DaysBefore(l, m + 1) /\ b + DaysBefore(l, n) <= d
    BY <1>0, <1>3, <1>5
  <2> QED
    BY <1>0, <2>1, <2>2
<1> HIDE DEF S
<1>6. ASSUME NEW m \in S, \A k \in S : m >= k, NEW n \in S, \A k \in S : n >= k,
             S \subseteq Int
      PROVE  m = n
  BY <1>6
<1>7. S \subseteq Int
  BY DEF S
<1>8. ASSUME NEW m \in 1 .. 12, From(y, m) <= d, d < Until(y, m)
      PROVE  Expenses!MonthOf(d) = m
  <2>1. m \in S /\ \A n \in S : m >= n
    BY <1>5, <1>8
  <2> QED
    BY <1>1, <1>6, <1>7, <2>1
<1> QED
  BY <1>4, <1>8

(* A month's days are days of its year.                                    *)
LEMMA MonthInYear ==
  ASSUME LastYear \in Nat, NEW y \in 0 .. LastYear, NEW m \in 1 .. 12,
         NEW d \in Int, From(y, m) <= d, d < Until(y, m)
  PROVE  InYear(d, y)
<1> DEFINE l == February(y)
           b == Begin(y)
<1>1. /\ \A k \in 1 .. 12 : From(y, k) = b + DaysBefore(l, k)
      /\ From(y + 1, 1) = b + 337 + l /\ Begin(y + 1) = b + 337 + l
      /\ l \in {28, 29} /\ b \in Nat
  BY MonthsFollow
<1> HIDE DEF l, b
<1>2. \A k \in 1 .. 12 : DaysBefore(l, k) \in 0 .. 306 + l
  <2> SUFFICES ASSUME NEW k \in 1 .. 12 PROVE DaysBefore(l, k) \in 0 .. 306 + l
    OBVIOUS
  <2>1. k = 1 \/ k = 2 \/ k = 3 \/ k = 4 \/ k = 5 \/ k = 6 \/ k = 7 \/ k = 8
        \/ k = 9 \/ k = 10 \/ k = 11 \/ k = 12
    OBVIOUS
  <2> QED
    BY <1>1, <2>1 DEF DaysBefore
<1>3. b <= d
  BY <1>1, <1>2
<1>4. d < b + 337 + l
  <2>1. CASE m = 12
    BY <1>1, <2>1 DEF Until
  <2>2. CASE m # 12
    <3>1. m + 1 \in 1 .. 12 /\ d < b + DaysBefore(l, m + 1)
      BY <1>1, <2>2 DEF Until
    <3> QED
      BY <1>1, <1>2, <3>1
  <2> QED
    BY <2>1, <2>2
<1> QED
  BY <1>1, <1>3, <1>4 DEF InYear, b

-----------------------------------------------------------------------------
(* ExpenseBook: the entries.                                               *)

\* The members that go with a key.
Keyed(S, key, k) == {x \in S : key[x] = k}

(* A sum can be made by keys: what goes with each key, and then the keys.  *)
LEMMA TotalByKey ==
  ASSUME NEW S, IsFiniteSet(S), NEW f, \A x \in S : f[x] \in Int,
         NEW K, IsFiniteSet(K), NEW key, \A x \in S : key[x] \in K,
         NEW g, \A k \in K : g[k] = Total(f, Keyed(S, key, k))
  PROVE  Total(f, S) = Total(g, K)
<1> DEFINE With(s, k) == {x \in s : key[x] = k}
           Adds(s) == Total(f, s) = Total([k \in K |-> Total(f, With(s, k))], K)
           P == {n \in Nat : \A s \in SUBSET S : Cardinality(s) = n => Adds(s)}
<1>0. \A s \in SUBSET S : IsFiniteSet(s) /\ Cardinality(s) \in Nat
  BY FS_Subset, FS_CardinalityType
<1>1. 0 \in P
  <2> SUFFICES ASSUME NEW s \in SUBSET S, Cardinality(s) = 0 PROVE Adds(s)
    OBVIOUS
  <2>1. s = {}
    BY <1>0, FS_EmptySet
  <2>2. \A k \in K : Total(f, With({}, k)) = 0
    <3>1. \A k \in K : With({}, k) = {}
      OBVIOUS
    <3> QED
      BY <3>1, TotalEmpty
  <2>3. Total([k \in K |-> Total(f, With({}, k))], K) = 0
    BY <2>2, TotalZero
  <2> QED
    BY <2>1, <2>3, TotalEmpty
<1>2. ASSUME NEW n \in Nat, n \in P PROVE n + 1 \in P
  <2> SUFFICES ASSUME NEW s \in SUBSET S, Cardinality(s) = n + 1 PROVE Adds(s)
    OBVIOUS
  <2>1. PICK x \in s : TRUE
    <3>1. Cardinality({}) = 0 /\ n + 1 # 0
      BY FS_EmptySet
    <3>2. s # {}
      BY <3>1
    <3> QED
      BY <3>2
  <2> DEFINE t == s \ {x}
             e == [k \in K |-> Total(f, With(t, k))]
             h == [k \in K |-> Total(f, With(s, k))]
             c == key[x]
  <2>2. t \in SUBSET S /\ IsFiniteSet(t) /\ Cardinality(t) = n
    <3>1. IsFiniteSet(s) /\ t \in SUBSET S
      BY <1>0
    <3>2. Cardinality(t) = Cardinality(s) - 1 /\ IsFiniteSet(t)
      BY <2>1, <3>1, FS_RemoveElement
    <3> QED
      BY <3>1, <3>2
  <2>3. Total(f, t) = Total(e, K)
    BY <1>2, <2>2
  <2>4. x \in S /\ c \in K /\ f[x] \in Int /\ x \notin t /\ s = t \cup {x}
    BY <2>1
  <2>5. ASSUME NEW k \in K PROVE With(t, k) \in SUBSET S /\ IsFiniteSet(With(t, k)) /\ e[k] \in Int
    <3>1. With(t, k) \in SUBSET S
      BY <2>2
    <3>2. IsFiniteSet(With(t, k)) /\ \A y \in With(t, k) : f[y] \in Int
      BY <1>0, <3>1
    <3> QED
      BY <3>1, <3>2, TotalType
  <2>6. h[c] = f[x] + e[c]
    <3>1. With(s, c) = With(t, c) \cup {x} /\ x \notin With(t, c)
      BY <2>4
    <3>2. \A y \in With(t, c) \cup {x} : f[y] \in Int
      BY <2>4, <2>5
    <3>3. Total(f, With(t, c) \cup {x}) = f[x] + Total(f, With(t, c))
      BY <2>4, <2>5, <3>1, <3>2, TotalAdd
    <3> QED
      BY <2>4, <3>1, <3>3
  <2>7. \A k \in K \ {c} : h[k] = e[k]
    <3>1. \A k \in K \ {c} : With(s, k) = With(t, k)
      BY <2>4
    <3> QED
      BY <3>1
  <2>8. Total(f, s) = f[x] + Total(f, t)
    <3>1. \A y \in t \cup {x} : f[y] \in Int
      BY <2>2, <2>4
    <3> QED
      BY <2>2, <2>4, <3>1, TotalAdd
  <2> HIDE DEF e, h, c, t
  <2>9. Total(h, K) = Total(e, K) - e[c] + h[c]
    <3>1. \A k \in K : e[k] \in Int
      BY <2>5
    <3>2. h[c] \in Int
      BY <2>4, <2>6, <3>1
    <3> QED
      BY <2>4, <2>7, <3>1, <3>2, TotalUpdate
  <2>10. Total(e, K) \in Int /\ e[c] \in Int
    BY <2>4, <2>5, TotalType
  <2>11. Total(f, s) = Total(h, K)
    BY <2>3, <2>4, <2>6, <2>8, <2>9, <2>10
  <2> QED
    BY <2>11 DEF h
<1> HIDE DEF P
<1>3. Nat \subseteq P
  BY <1>1, <1>2, InductiveSet
<1>4. Adds(S)
  <2>1. S \in SUBSET S /\ Cardinality(S) \in Nat
    BY FS_CardinalityType
  <2> QED
    BY <1>3, <2>1 DEF P
<1>5. Total([k \in K |-> Total(f, With(S, k))], K) = Total(g, K)
  <2>1. \A k \in K : [i \in K |-> Total(f, With(S, i))][k] = g[k]
    BY DEF Keyed
  <2> QED
    BY <2>1, TotalSame
<1> QED
  BY <1>4, <1>5

(* A set of numbers up to n has a greatest.                                *)
LEMMA GreatestExists ==
  \A n \in Nat : \A S \in SUBSET (1 .. n) : S # {} => \E x \in S : \A y \in S : x >= y
<1> DEFINE P == {n \in Nat : \A S \in SUBSET (1 .. n) :
                               S # {} => \E x \in S : \A y \in S : x >= y}
<1>1. 0 \in P
  <2>1. 1 .. 0 = {}
    OBVIOUS
  <2> QED
    BY <2>1
<1>2. ASSUME NEW n \in Nat, n \in P PROVE n + 1 \in P
  <2> SUFFICES ASSUME NEW S \in SUBSET (1 .. n + 1), S # {}
               PROVE  \E x \in S : \A y \in S : x >= y
    OBVIOUS
  <2>1. CASE n + 1 \in S
    BY <2>1
  <2>2. CASE n + 1 \notin S
    <3>1. S \in SUBSET (1 .. n)
      BY <2>2
    <3> QED
      BY <1>2, <3>1
  <2> QED
    BY <2>1, <2>2
<1> HIDE DEF P
<1>3. Nat \subseteq P
  BY <1>1, <1>2, InductiveSet
<1> QED
  BY <1>3 DEF P

(* The id that is given next is none that there is.                        *)
LEMMA NextIdIsNew ==
  ASSUME Expenses!ExpenseAssumption, DOMAIN entries \subseteq 1 .. MaxId
  PROVE  Expenses!NextId \in Nat \ {0}
<1> DEFINE S == DOMAIN entries
<1>1. CASE S = {}
  BY <1>1 DEF Expenses!NextId, Expenses!Ids
<1>2. CASE S # {}
  <2>1. \E x \in S : \A y \in S : x >= y
    BY <1>2, GreatestExists DEF Expenses!ExpenseAssumption
  <2>2. Expenses!NextId = (CHOOSE x \in S : \A y \in S : x >= y) + 1
    BY <1>2 DEF Expenses!NextId, Expenses!Ids, Expenses!Max
  <2>3. (CHOOSE x \in S : \A y \in S : x >= y) \in 1 .. MaxId
    BY <2>1
  <2> QED
    BY <2>2, <2>3
<1> QED
  BY <1>1, <1>2

(* A row is written to the table with a category that is in it.            *)
LEMMA StoredKeeps ==
  ASSUME Expenses!ExpenseAssumption, Expenses!TypeOK, UNCHANGED <<today, categories>>,
         NEW i \in 1 .. MaxId, NEW date \in Dates \union {None}, NEW amount \in Amounts,
         NEW category,
         Expenses!Stored(i, [date |-> Expenses!CreatedAt(date), amount |-> amount,
                             category |-> category])
  PROVE  Expenses!TypeOK'
<1> DEFINE e == [date |-> Expenses!CreatedAt(date), amount |-> amount, category |-> category]
<1>1. e \in [date : Dates \union Todays, amount : Amounts, category : categories]
  BY DEF Expenses!CreatedAt, Expenses!Stored, Expenses!TypeOK
<1> HIDE DEF e
<1>2. entries' = [j \in DOMAIN entries \union {i} |-> IF j = i THEN e ELSE entries[j]]
  BY DEF Expenses!Stored, Expenses!Ids, e
<1> QED
  BY <1>1, <1>2 DEF Expenses!TypeOK, Expenses!Ids

(* Every tool keeps the types.                                             *)
LEMMA NextExpenses ==
  ASSUME Expenses!ExpenseAssumption, Expenses!TypeOK, [Expenses!Next]_Expenses!vars
  PROVE  Expenses!TypeOK'
<1>1. CASE Expenses!DayPasses
  BY <1>1 DEF Expenses!DayPasses, Expenses!TypeOK, Expenses!Ids
<1>2. ASSUME NEW name \in Custom, Expenses!CreateCategory(name)
      PROVE  Expenses!TypeOK'
  BY <1>2 DEF Expenses!CreateCategory, Expenses!TypeOK, Expenses!Ids
<1>3. ASSUME NEW date \in Dates \union {None}, NEW amount \in Amounts, NEW category,
             Expenses!CreateEntry(date, amount, category)
      PROVE  Expenses!TypeOK'
  <2>1. Expenses!NextId \in 1 .. MaxId
    <3>1. Expenses!NextId \in Nat \ {0}
      BY NextIdIsNew DEF Expenses!TypeOK, Expenses!Ids
    <3>2. Expenses!NextId <= MaxId /\ MaxId \in Nat
      BY <1>3 DEF Expenses!CreateEntry, Expenses!ExpenseAssumption
    <3> QED
      BY <3>1, <3>2
  <2> QED
    BY <1>3, <2>1, StoredKeeps DEF Expenses!CreateEntry
<1>4. ASSUME NEW date \in Dates \union {None}, NEW amount \in Amounts, NEW category,
             NEW i \in Expenses!Ids, Expenses!UpdateEntry(i, date, amount, category)
      PROVE  Expenses!TypeOK'
  <2>1. i \in 1 .. MaxId
    BY DEF Expenses!TypeOK
  <2> QED
    BY <1>4, <2>1, StoredKeeps DEF Expenses!UpdateEntry
<1>5. ASSUME NEW i \in Expenses!Ids, Expenses!DeleteEntry(i)
      PROVE  Expenses!TypeOK'
  BY <1>5 DEF Expenses!DeleteEntry, Expenses!TypeOK, Expenses!Ids
<1>6. CASE UNCHANGED Expenses!vars
  BY <1>6 DEF Expenses!vars, Expenses!TypeOK, Expenses!Ids
<1> QED
  BY <1>1, <1>2, <1>3, <1>4, <1>5, <1>6 DEF Expenses!Next

(* The expense book keeps its types: in particular every entry has a       *)
(* category of the table (insert and update, through the foreign key).     *)
THEOREM ExpensesTypeCorrect ==
  ASSUME Expenses!ExpenseAssumption
  PROVE  Expenses!Spec => []Expenses!TypeOK
<1>1. Expenses!Init => Expenses!TypeOK
  <2>1. DOMAIN <<>> = {}
    OBVIOUS
  <2> QED
    BY <2>1 DEF Expenses!Init, Expenses!TypeOK, Expenses!Ids
<1>2. Expenses!TypeOK /\ [Expenses!Next]_Expenses!vars => Expenses!TypeOK'
  BY NextExpenses
<1> QED
  BY <1>1, <1>2, PTL DEF Expenses!Spec
-----------------------------------------------------------------------------
(* ExpenseBook: the reports.                                               *)

\* The days and the amounts of the entries.
Day == [i \in Expenses!Ids |-> entries[i].date]
Spent == [i \in Expenses!Ids |-> entries[i].amount]

(* The entries are finitely many, each on a day of one of the years.       *)
LEMMA EntriesKnown ==
  ASSUME Expenses!ExpenseAssumption, Expenses!TypeOK
  PROVE  /\ LastYear \in Nat
         /\ IsFiniteSet(Expenses!Ids) /\ Expenses!Ids \subseteq Nat
         /\ \A i \in Expenses!Ids : Spent[i] \in Int /\ Day[i] = entries[i].date
         /\ \A d \in Dates \union Todays : d \in Int /\ Begin(1) <= d /\ d < Begin(LastYear + 1)
         /\ \A i \in Expenses!Ids : Day[i] \in Dates \union Todays
<1>1. LastYear \in Nat /\ MaxId \in Nat
  BY DEF Expenses!ExpenseAssumption
<1>2. IsFiniteSet(Expenses!Ids) /\ Expenses!Ids \subseteq Nat
  <2>1. IsFiniteSet(1 .. MaxId)
    BY <1>1, FS_Interval
  <2>2. Expenses!Ids \subseteq 1 .. MaxId
    BY DEF Expenses!TypeOK
  <2>3. IsFiniteSet(Expenses!Ids)
    BY <2>1, <2>2, FS_Subset
  <2> QED
    BY <2>2, <2>3
<1>3. \A i \in Expenses!Ids : entries[i].amount \in Amounts /\ entries[i].date \in Dates \union Todays
  BY DEF Expenses!TypeOK
<1>4. Amounts \subseteq Int /\ Dates \union Todays \subseteq Begin(1) .. Begin(LastYear + 1) - 1
  BY DEF Expenses!ExpenseAssumption, Begin
<1>5. Begin(1) \in Nat /\ Begin(LastYear + 1) \in Nat
  <2>1. 1 \in 0 .. LastYear + 2 /\ LastYear + 1 \in 0 .. LastYear + 2
    BY <1>1
  <2> QED
    BY <1>1, <2>1, YearFollows
<1>6. \A d \in Dates \union Todays : d \in Int /\ Begin(1) <= d /\ d < Begin(LastYear + 1)
  BY <1>4, <1>5
<1> QED
  BY <1>1, <1>2, <1>3, <1>4, <1>6 DEF Spent, Day

(* A report sums the amounts of its entries.                               *)
LEMMA SumIs ==
  \A ids : Expenses!Sum(ids) = Total(Spent, ids)
BY SameTotal DEF Expenses!Sum, Spent

(* In a report the sums by a key add up to the sum of all.                 *)
LEMMA SumsAddUp ==
  ASSUME Expenses!ExpenseAssumption, Expenses!TypeOK,
         NEW ids \in SUBSET Expenses!Ids, NEW key
  PROVE  LET sums == Expenses!SumsBy(key, ids)
         IN Expenses!Sum(ids) = Expenses!Total(sums, DOMAIN sums)
<1> DEFINE K == {key[i] : i \in ids}
           sums == Expenses!SumsBy(key, ids)
<1>1. IsFiniteSet(ids) /\ \A i \in ids : Spent[i] \in Int
  <2>1. IsFiniteSet(Expenses!Ids) /\ \A i \in Expenses!Ids : Spent[i] \in Int
    BY EntriesKnown
  <2> QED
    BY <2>1, FS_Subset
<1>2. IsFiniteSet(K)
  <2> DEFINE f == [i \in ids |-> key[i]]
  <2>1. f \in Surjection(ids, K)
    BY DEF Surjection
  <2> QED
    BY <1>1, <2>1, FS_Surjection
<1>3. DOMAIN sums = K /\ \A k \in K : sums[k] = Total(Spent, Keyed(ids, key, k))
  BY SumIs DEF Expenses!SumsBy, Keyed
<1>4. \A i \in ids : key[i] \in K
  OBVIOUS
<1> HIDE DEF K, sums
<1>5. Total(Spent, ids) = Total(sums, K)
  BY <1>1, <1>2, <1>3, <1>4, TotalByKey
<1>6. Expenses!Sum(ids) = Expenses!Total(sums, DOMAIN sums)
  BY <1>3, <1>5, SumIs, SameTotal
<1> QED
  BY <1>6 DEF sums

(* What each list is of the entries.                                       *)
LEMMA ListsAre ==
  ASSUME Expenses!ExpenseAssumption, Expenses!TypeOK
  PROVE  /\ \A y : Expenses!ListByYear(y) = {i \in Expenses!Ids : InYear(Day[i], y)}
         /\ \A y, m : Expenses!ListByMonth(y, m) =
                        {i \in Expenses!Ids : From(y, m) <= Day[i] /\ Day[i] < Until(y, m)}
         /\ \A y, w : Expenses!ListByWeek(y, w) \subseteq Expenses!Ids
BY EntriesKnown
   DEF Expenses!ListByYear, Expenses!ListByMonth, Expenses!ListByWeek, Expenses!ListByDateRange,
       InYear, From, Until, Begin

(* The categories of a report add up to its total.                         *)
LEMMA CategoriesAddUp ==
  ASSUME Expenses!ExpenseAssumption, Expenses!TypeOK
  PROVE  Expenses!CategoriesMakeTheTotal
<1>1. ASSUME NEW ids \in SUBSET Expenses!Ids
      PROVE  Expenses!Sum(ids)
                = Expenses!Total(Expenses!ByCategory(ids), DOMAIN Expenses!ByCategory(ids))
  BY SumsAddUp DEF Expenses!ByCategory
<1>2. ASSUME NEW y
      PROVE  LET r == Expenses!YearReport(y)
             IN r.total = Expenses!Total(r.by_category, DOMAIN r.by_category)
  <2>1. Expenses!ListByYear(y) \in SUBSET Expenses!Ids
    BY ListsAre
  <2> QED
    BY <1>1, <2>1 DEF Expenses!YearReport
<1>3. ASSUME NEW y, NEW m
      PROVE  LET r == Expenses!MonthlyReport(y, m)
             IN r.total = Expenses!Total(r.by_category, DOMAIN r.by_category)
  <2>1. Expenses!ListByMonth(y, m) \in SUBSET Expenses!Ids
    BY ListsAre
  <2> QED
    BY <1>1, <2>1 DEF Expenses!MonthlyReport
<1>4. ASSUME NEW y, NEW w
      PROVE  LET r == Expenses!WeeklyReport(y, w)
             IN r.total = Expenses!Total(r.by_category, DOMAIN r.by_category)
  <2>1. Expenses!ListByWeek(y, w) \in SUBSET Expenses!Ids
    BY ListsAre
  <2> QED
    BY <1>1, <2>1 DEF Expenses!WeeklyReport
<1> QED
  BY <1>2, <1>3, <1>4 DEF Expenses!CategoriesMakeTheTotal

(* Of a year's entries, those that are read to be of a month are the ones  *)
(* that list_by_month has of it.                                           *)
LEMMA MonthOfYear ==
  ASSUME Expenses!ExpenseAssumption, Expenses!TypeOK, NEW y \in 1 .. LastYear
  PROVE  LET list == Expenses!ListByYear(y)
         IN /\ \A i \in list : Expenses!MonthOf(Day[i]) \in 1 .. 12
            /\ \A m \in 1 .. 12 :
                  {i \in list : Expenses!MonthOf(Day[i]) = m} = Expenses!ListByMonth(y, m)
<1> DEFINE list == Expenses!ListByYear(y)
<1>1. LastYear \in Nat /\ y \in 0 .. LastYear
  BY DEF Expenses!ExpenseAssumption
<1>2. \A i \in Expenses!Ids : Day[i] \in Int
  BY EntriesKnown
<1>3. list = {i \in Expenses!Ids : InYear(Day[i], y)}
  BY ListsAre
<1>4. ASSUME NEW i \in list
      PROVE  /\ Expenses!MonthOf(Day[i]) \in 1 .. 12
             /\ \A m \in 1 .. 12 : Expenses!MonthOf(Day[i]) = m
                                     <=> From(y, m) <= Day[i] /\ Day[i] < Until(y, m)
  <2>1. Day[i] \in Int /\ InYear(Day[i], y)
    BY <1>2, <1>3
  <2> QED
    BY <1>1, <2>1, MonthIs
<1>5. ASSUME NEW m \in 1 .. 12, NEW d \in Int, From(y, m) <= d, d < Until(y, m)
      PROVE  InYear(d, y)
  BY <1>1, <1>5, MonthInYear
<1> HIDE DEF list
<1>6. ASSUME NEW m \in 1 .. 12
      PROVE  {i \in list : Expenses!MonthOf(Day[i]) = m} = Expenses!ListByMonth(y, m)
  <2>1. Expenses!ListByMonth(y, m)
          = {i \in Expenses!Ids : From(y, m) <= Day[i] /\ Day[i] < Until(y, m)}
    BY ListsAre
  <2> QED
    BY <1>2, <1>3, <1>4, <1>5, <2>1
<1> QED
  BY <1>4, <1>6 DEF list

(* The months are finitely many.                                           *)
LEMMA MonthsFinite == IsFiniteSet(1 .. 12)
<1>1. PICK n \in Int : n = 12
  OBVIOUS
<1>2. IsFiniteSet(1 .. n)
  BY FS_Interval
<1> QED
  BY <1>1, <1>2

(* The months of the year's report are the months' own reports.            *)
LEMMA MonthsAddUp ==
  ASSUME Expenses!ExpenseAssumption, Expenses!TypeOK
  PROVE  Expenses!MonthsMakeTheYear
<1> SUFFICES ASSUME NEW y \in 1 .. LastYear
    PROVE  LET report == Expenses!YearReport(y)
               months == [m \in 1 .. 12 |-> Expenses!MonthlyReport(y, m).total]
           IN /\ report.total = Expenses!Total(months, 1 .. 12)
              /\ \A m \in 1 .. 12 :
                    months[m] = IF m \in DOMAIN report.by_month THEN report.by_month[m] ELSE 0
  BY DEF Expenses!MonthsMakeTheYear, Expenses!Years
<1> DEFINE list == Expenses!ListByYear(y)
           key == [i \in Expenses!Ids |-> Expenses!MonthOf(entries[i].date)]
           sums == Expenses!SumsBy(key, list)
           months == [m \in 1 .. 12 |-> Expenses!MonthlyReport(y, m).total]
<1>1. /\ Expenses!YearReport(y).total = Total(Spent, list)
      /\ Expenses!YearReport(y).by_month = sums
  BY SumIs DEF Expenses!YearReport
<1>2. \A m \in 1 .. 12 : months[m] = Total(Spent, Expenses!ListByMonth(y, m))
  BY SumIs DEF Expenses!MonthlyReport
<1>3. IsFiniteSet(list) /\ list \subseteq Expenses!Ids /\ \A i \in list : Spent[i] \in Int
  <2>1. IsFiniteSet(Expenses!Ids) /\ \A i \in Expenses!Ids : Spent[i] \in Int
    BY EntriesKnown
  <2>2. list \in SUBSET Expenses!Ids
    BY ListsAre
  <2> QED
    BY <2>1, <2>2, FS_Subset
<1>4. /\ \A i \in list : key[i] \in 1 .. 12
      /\ \A m \in 1 .. 12 : {i \in list : key[i] = m} = Expenses!ListByMonth(y, m)
  <2>1. \A i \in list : key[i] = Expenses!MonthOf(Day[i])
    BY <1>3 DEF Day
  <2> HIDE DEF key
  <2> QED
    BY <2>1, MonthOfYear
<1>5. DOMAIN sums = {key[i] : i \in list}
      /\ \A m \in DOMAIN sums : sums[m] = Total(Spent, {i \in list : key[i] = m})
  BY SumIs DEF Expenses!SumsBy
<1> HIDE DEF list, key, sums, months
<1>6. \A m \in 1 .. 12 : months[m] = Total(Spent, {i \in list : key[i] = m})
  BY <1>2, <1>4
<1>7. Total(Spent, list) = Total(months, 1 .. 12)
  <2> DEFINE K == 1 .. 12
  <2>1. IsFiniteSet(K) /\ \A i \in list : key[i] \in K
    BY <1>4, MonthsFinite
  <2>2. \A m \in K : months[m] = Total(Spent, Keyed(list, key, m))
    BY <1>6 DEF Keyed
  <2>3. IsFiniteSet(list) /\ \A i \in list : Spent[i] \in Int
    BY <1>3
  <2> HIDE DEF K
  <2>4. Total(Spent, list) = Total(months, K)
    BY <2>1, <2>2, <2>3, TotalByKey
  <2> QED
    BY <2>4 DEF K
<1>8. ASSUME NEW m \in 1 .. 12
      PROVE  months[m] = IF m \in DOMAIN sums THEN sums[m] ELSE 0
  <2>1. CASE m \in DOMAIN sums
    BY <1>5, <1>6, <2>1
  <2>2. CASE m \notin DOMAIN sums
    <3>1. {i \in list : key[i] = m} = {}
      BY <1>5, <2>2
    <3> QED
      BY <1>6, <2>2, <3>1, TotalEmpty
  <2> QED
    BY <2>1, <2>2
<1>9. Expenses!YearReport(y).total = Expenses!Total(months, 1 .. 12)
  BY <1>1, <1>7, SameTotal
<1> QED
  BY <1>1, <1>8, <1>9 DEF months

(* A week of a year that a day is in is one, and the same however it is    *)
(* counted.                                                                *)
LEMMA WeekIs ==
  ASSUME NEW n \in Nat, n < 366
  PROVE  \E w \in 1 .. 53 : /\ 7 * (w - 1) <= n /\ n < 7 * (w - 1) + 7
                            /\ \A v \in 1 .. 53 :
                                  7 * (v - 1) <= n /\ n < 7 * (v - 1) + 7 => v = w
<1> DEFINE w == (n \div 7) + 1
<1>1. 7 * (n \div 7) <= n /\ n < 7 * (n \div 7) + 7 /\ n \div 7 \in Int
  OBVIOUS
<1>2. w \in 1 .. 53 /\ w - 1 = n \div 7
  BY <1>1
<1>3. \A v \in 1 .. 53 : 7 * (v - 1) <= n /\ n < 7 * (v - 1) + 7 => v = w
  BY <1>1
<1> HIDE DEF w
<1> QED
  BY <1>1, <1>2, <1>3

(* Each of a year's expenses is in one of its weeks, and in no other.      *)
LEMMA WeeksAddUp ==
  ASSUME Expenses!ExpenseAssumption, Expenses!TypeOK
  PROVE  Expenses!WeeksMakeTheYear
<1> SUFFICES ASSUME NEW y \in 1 .. LastYear, NEW i \in Expenses!ListByYear(y)
             PROVE  LET its == {w \in 1 .. 53 : i \in Expenses!ListByWeek(y, w)}
                    IN \E w \in 1 .. 53 : its = {w}
  BY DEF Expenses!WeeksMakeTheYear, Expenses!Years
<1> DEFINE n == Day[i] - Begin(y)
           its == {w \in 1 .. 53 : i \in Expenses!ListByWeek(y, w)}
<1>1. i \in Expenses!Ids /\ InYear(Day[i], y)
  BY ListsAre
<1>2. Day[i] \in Int /\ Day[i] = entries[i].date
  BY <1>1, EntriesKnown
<1>3. Begin(y) \in Nat /\ Begin(y + 1) \in Nat /\ Begin(y + 1) <= Begin(y) + 366
  <2>1. LastYear \in Nat /\ y \in Nat /\ y \in 0 .. LastYear + 1
        /\ y \in 0 .. LastYear + 2 /\ y + 1 \in 0 .. LastYear + 2
    BY DEF Expenses!ExpenseAssumption
  <2> QED
    BY <2>1, YearFollows
<1>4. n \in Nat /\ n < 366 /\ Day[i] = Begin(y) + n
  BY <1>1, <1>2, <1>3 DEF InYear
<1> HIDE DEF n
<1>5. ASSUME NEW w \in 1 .. 53
      PROVE  i \in Expenses!ListByWeek(y, w) <=> 7 * (w - 1) <= n /\ n < 7 * (w - 1) + 7
  <2> DEFINE s == Begin(y) + 7 * (w - 1)
  <2>1. Expenses!ListByWeek(y, w) = {j \in Expenses!Ids : s <= entries[j].date /\ entries[j].date < s + 7}
    BY DEF Expenses!ListByWeek, Expenses!ListByDateRange, Begin
  <2>2. i \in Expenses!ListByWeek(y, w) <=> s <= Day[i] /\ Day[i] < s + 7
    BY <1>1, <1>2, <2>1
  <2>3. s <= Day[i] /\ Day[i] < s + 7 <=> 7 * (w - 1) <= n /\ n < 7 * (w - 1) + 7
    BY <1>3, <1>4
  <2> QED
    BY <2>2, <2>3
<1>6. PICK w \in 1 .. 53 : /\ 7 * (w - 1) <= n /\ n < 7 * (w - 1) + 7
                           /\ \A v \in 1 .. 53 :
                                 7 * (v - 1) <= n /\ n < 7 * (v - 1) + 7 => v = w
  BY <1>4, WeekIs
<1>7. its = {w}
  BY <1>5, <1>6
<1> QED
  BY <1>7

(* What is dated today is in the reports of today.                         *)
LEMMA TodayShows ==
  ASSUME Expenses!ExpenseAssumption, Expenses!TypeOK
  PROVE  Expenses!TodayIsReported
<1> SUFFICES ASSUME NEW i \in Expenses!Ids, entries[i].date = today
             PROVE  i \in Expenses!DefaultMonthly /\ i \in Expenses!DefaultYearly
  BY DEF Expenses!TodayIsReported
<1>1. LastYear \in Nat /\ today \in Int /\ Begin(1) <= today /\ today < Begin(LastYear + 1)
      /\ Day[i] = today
  BY EntriesKnown DEF Expenses!TypeOK
<1>2. PICK y \in 1 .. LastYear : InYear(today, y)
  BY <1>1, YearFound
<1>3. y \in 0 .. LastYear /\ y \in 0 .. LastYear + 1
  BY <1>1
<1>4. Expenses!YearOf(today) = y
  BY <1>1, <1>2, <1>3, YearIs
<1>5. i \in Expenses!DefaultYearly
  BY <1>1, <1>2, <1>4, ListsAre DEF Expenses!DefaultYearly
<1>6. LET m == Expenses!MonthOf(today) IN From(y, m) <= today /\ today < Until(y, m)
  BY <1>1, <1>2, <1>3, MonthIs
<1>7. i \in Expenses!DefaultMonthly
  BY <1>1, <1>4, <1>6, ListsAre DEF Expenses!DefaultMonthly
<1> QED
  BY <1>5, <1>7

(* In every state the months make the year, each expense is in one week,   *)
(* the categories make the total, and what is dated today is reported      *)
(* today (list_by_month, list_by_week, the reports and their defaults).    *)
THEOREM ReportsAlwaysAddUp ==
  ASSUME Expenses!ExpenseAssumption
  PROVE  Expenses!Spec => []ReportsAddUp
<1>1. Expenses!TypeOK => ReportsAddUp
  BY CategoriesAddUp, MonthsAddUp, WeeksAddUp, TodayShows DEF ReportsAddUp
<1>2. Expenses!Spec => []Expenses!TypeOK
  BY ExpensesTypeCorrect
<1> QED
  BY <1>1, <1>2, PTL
=============================================================================
