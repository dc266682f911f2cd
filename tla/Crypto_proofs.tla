---------------------------- MODULE Crypto_proofs ----------------------------
(***************************************************************************)
(* What a crypto worker and its master rest on beside the trading loop:    *)
(* the settings, the market feed, the decisions and the reports.  They     *)
(* share no state; the settings are this module's own, the others are      *)
(* instances.                                                              *)
(***************************************************************************)
EXTENDS SettingsService, CryptoParts, Accounts_proofs, SequenceTheorems

-----------------------------------------------------------------------------
(* SettingsService.                                                        *)

\* The settings a service comes up with have the types they should have.
LEMMA InitTyped == Init => TypeOK
<1> SUFFICES ASSUME Init
             PROVE  TypeOK
  OBVIOUS
<1>1. Default \in Values
  BY ValueAssumption
<1>2. seen \in [Receivers -> Nat]
  BY DEF Init
<1>3. applied \in [Receivers -> Values]
  BY <1>1 DEF Init
<1>4. step \in [Writers -> Steps]
  BY DEF Init, Steps
<1>5. pushed \in [Writers -> Values]
  BY <1>1 DEF Init
<1>6. pushes \in 0 .. MaxPushes /\ faults \in 0 .. MaxFaults /\ restarts \in 0 .. MaxRestarts
  BY BoundAssumption DEF Init
<1>7. row \in Values \cup {NoRow} /\ published \in Values /\ version \in Nat
  BY <1>1 DEF Init
<1>8. QED
  BY <1>2, <1>3, <1>4, <1>5, <1>6, <1>7 DEF Init, TypeOK

\* TypeOK is inductive by itself.
THEOREM TypeCorrect == Spec => []TypeOK
<1>1. Init => TypeOK
  BY InitTyped
<1>2. ASSUME TypeOK, [Next]_vars
      PROVE  TypeOK'
  <2> USE <1>2, ValueAssumption, BoundAssumption DEF TypeOK, Steps
  <2>1. CASE Start
    <3>1. seen' \in [Receivers -> Nat]
      BY <2>1 DEF Start
    <3>2. row' \in Values /\ defaulted' \in Nat
      BY <2>1 DEF Start
    <3>3. QED
      BY <2>1, <3>1, <3>2 DEF Start, calls, counts
  <2>2. ASSUME NEW w \in Writers, NEW v \in Values, Push(w, v)
        PROVE  TypeOK'
    BY <2>2 DEF Push, channel, watchers
  <2>3. ASSUME NEW w \in Writers, DeleteRow(w)
        PROVE  TypeOK'
    BY <2>3 DEF DeleteRow, channel, watchers, notes, counts
  <2>4. ASSUME NEW w \in Writers, InsertRow(w)
        PROVE  TypeOK'
    BY <2>4 DEF InsertRow, channel, watchers, counts
  <2>5. ASSUME NEW w \in Writers, SendSettings(w)
        PROVE  TypeOK'
    BY <2>5 DEF SendSettings, watchers, notes, counts
  <2>6. ASSUME NEW w \in Writers, CallFails(w)
        PROVE  TypeOK'
    BY <2>6 DEF CallFails, channel, watchers
  <2>7. ASSUME NEW r \in Receivers, Receive(r)
        PROVE  TypeOK'
    BY <2>7 DEF Receive, channel, calls, notes, counts
  <2>8. CASE Crash
    <3>1. step' \in [Writers -> Steps]
      BY <2>8 DEF Crash
    <3>2. restarts' \in 0 .. MaxRestarts
      BY <2>8 DEF Crash
    <3>3. QED
      BY <2>8, <3>1, <3>2 DEF Crash, channel, watchers, notes
  <2>9. CASE UNCHANGED vars
    BY <2>9 DEF vars, channel, watchers, calls, notes, counts
  <2>10. QED
    BY <2>1, <2>2, <2>3, <2>4, <2>5, <2>6, <2>7, <2>8, <2>9 DEF Next, Call
<1>3. QED
  BY <1>1, <1>2, PTL DEF Spec

-----------------------------------------------------------------------------
(* The inductive invariant: where a call is tells what the row can be.     *)

\* Nothing runs in a process that is down.
DownIsIdle == ~running => \A w \in Writers : step[w] = "idle"

\* Without an overlap at most one call is under way, and before its insert
\* it finds the table as its own delete left it.
AloneUnlessOverlapped ==
    ~overlapped =>
        /\ \A w, x \in Writers : step[w] # "idle" /\ step[x] # "idle" => w = x
        /\ \A w \in Writers : step[w] = "insert" => row = NoRow

\* The row, step by step, of calls that neither overlap nor fail.
RowFollowsTheCall ==
    running /\ ~overlapped /\ ~failed =>
        /\ (\A w \in Writers : step[w] = "idle") => row = published
        /\ \A w \in Writers :
              /\ step[w] = "delete" => row = published
              /\ step[w] = "send" => row = pushed[w]

\* Whoever emptied the table has yet to insert.
EmptyOnlyBeforeInsert ==
    running /\ ~failed /\ row = NoRow => \E w \in Writers : step[w] = "insert"

(* Together they are inductive.                                            *)
IInv ==
    /\ TypeOK
    /\ DownIsIdle
    /\ AloneUnlessOverlapped
    /\ RowFollowsTheCall
    /\ EmptyOnlyBeforeInsert
    /\ RefusedOnlyOnOverlap

\* IInv holds of every state of the service.
THEOREM Invariant == Spec => []IInv
<1>1. Init => IInv
  <2>1. Init => TypeOK
    BY InitTyped
  <2>2. QED
    BY <2>1 DEF Init, IInv, DownIsIdle, AloneUnlessOverlapped, RowFollowsTheCall,
                EmptyOnlyBeforeInsert, RefusedOnlyOnOverlap
<1>2. ASSUME IInv, TypeOK', [Next]_vars
      PROVE  IInv'
  <2> USE <1>2, ValueAssumption
      DEF IInv, TypeOK, Steps, DownIsIdle, AloneUnlessOverlapped, RowFollowsTheCall,
          EmptyOnlyBeforeInsert, RefusedOnlyOnOverlap
  <2>1. CASE Start
    BY <2>1 DEF Start, calls, counts
  <2>2. ASSUME NEW w \in Writers, NEW v \in Values, Push(w, v)
        PROVE  IInv'
    <3>1. overlapped' = (overlapped \/ \E x \in Writers : step[x] # "idle")
      BY <2>2 DEF Push, Busy
    <3>2. \A x \in Writers : x # w => step'[x] = step[x] /\ pushed'[x] = pushed[x]
      BY <2>2 DEF Push
    <3>3. step[w] = "idle" /\ step'[w] = "delete"
      BY <2>2 DEF Push
    <3>4. QED
      BY <2>2, <3>1, <3>2, <3>3 DEF Push, channel, watchers
  <2>3. ASSUME NEW w \in Writers, DeleteRow(w)
        PROVE  IInv'
    BY <2>3 DEF DeleteRow, channel, watchers, notes, counts
  <2>4. ASSUME NEW w \in Writers, InsertRow(w)
        PROVE  IInv'
    BY <2>4 DEF InsertRow, channel, watchers, counts
  <2>5. ASSUME NEW w \in Writers, SendSettings(w)
        PROVE  IInv'
    BY <2>5 DEF SendSettings, watchers, notes, counts
  <2>6. ASSUME NEW w \in Writers, CallFails(w)
        PROVE  IInv'
    BY <2>6 DEF CallFails, channel, watchers
  <2>7. ASSUME NEW r \in Receivers, Receive(r)
        PROVE  IInv'
    BY <2>7 DEF Receive, channel, calls, notes, counts
  <2>8. CASE Crash
    BY <2>8 DEF Crash, channel, watchers, notes
  <2>9. CASE UNCHANGED vars
    BY <2>9 DEF vars, channel, watchers, calls, notes, counts
  <2>10. QED
    BY <2>1, <2>2, <2>3, <2>4, <2>5, <2>6, <2>7, <2>8, <2>9 DEF Next, Call
<1>3. QED
  BY <1>1, <1>2, TypeCorrect, PTL DEF Spec

-----------------------------------------------------------------------------

\* However many calls overlap, the table is empty only while one of them is at work.
THEOREM NeverLeftEmpty == Spec => []TableNotLeftEmpty
<1>1. IInv => TableNotLeftEmpty
  BY DEF IInv, EmptyOnlyBeforeInsert, TableNotLeftEmpty, Busy
<1>2. QED
  BY <1>1, Invariant, PTL

\* Without overlaps and failures the row is what was published.
THEOREM DivergeOnlyByOverlap == Spec => []OnlyOverlapsDiverge
<1>1. IInv => OnlyOverlapsDiverge
  BY DEF IInv, RowFollowsTheCall, OnlyOverlapsDiverge, Busy
<1>2. QED
  BY <1>1, Invariant, PTL

\* An insert is refused only to a call that overlapped another.
THEOREM RefusalsAreOverlaps == Spec => []RefusedOnlyOnOverlap
<1>1. IInv => RefusedOnlyOnOverlap
  BY DEF IInv
<1>2. QED
  BY <1>1, Invariant, PTL

-----------------------------------------------------------------------------
(* MarketFeed.                                                             *)

(* The candles h of a pair whose first was f: a gapless run that ends with *)
(* the last one and is as long as the window lets it be.                   *)
Run(h, f) ==
    h # <<>> =>
        /\ f # 0 /\ f <= Feed!Last(h)
        /\ \A i \in 1 .. Len(h) - 1 : h[i + 1] = h[i] + 1
        /\ Len(h) = Feed!Shorter(Window, Feed!Last(h) - f + 1)

(* What the feed has published of a pair: nothing before it is connected,  *)
(* nothing of a pair it did not ask for, and everything up to the newest   *)
(* closed candle while it is up.                                           *)
CandlesOK ==
    \A p \in Pairs :
        /\ candles[p] = <<>> <=> first[p] = 0
        /\ feed = "connecting" \/ p \notin Subscribed => candles[p] = <<>>
        /\ feed = "up" /\ candles[p] # <<>> => Feed!Last(candles[p]) = closed[p]
        /\ Run(candles[p], first[p])

(* The loop's copies are runs as well, never longer than what is           *)
(* published, and support every indicator of the last round.               *)
CopiesOK ==
    \A p \in Pairs :
        /\ Run(history[p], first[p])
        /\ Len(history[p]) <= Len(candles[p])
        /\ known[p] \subseteq Feed!Known(history[p])

(* Once the loop has taken the tickers, the candles it will read, or has   *)
(* read, include all there were at that moment.                            *)
Reaches(h, n) == n > 0 => h # <<>> /\ Feed!Last(h) >= n

(* That is so until the loop has read the candles, and afterwards.         *)
DueOK ==
    \A p \in Pairs :
        /\ loop = "tickers" => Reaches(candles[p], due[p])
        /\ loop = "ready" => Reaches(history[p], due[p])

(* No ticker is published before the exchange has made it.                 *)
TickersOK == \A p \in Pairs : tickers[p] <= ticked[p]

(* Together they are inductive.                                            *)
FeedInv == Feed!TypeOK /\ CandlesOK /\ CopiesOK /\ DueOK /\ TickersOK

(* One more candle in the rolling window: it comes last, and of the others *)
(* as many as fit stay, in their places before it.                         *)
LEMMA RollingProperties ==
  ASSUME Feed!FeedAssumption, NEW s \in Seq(1 .. MaxCandles), Len(s) <= Window,
         NEW n \in 1 .. MaxCandles
  PROVE  LET r == Feed!Rolling(Append(s, n))
         IN  /\ r \in Seq(1 .. MaxCandles)
             /\ r # <<>>
             /\ Len(r) = Feed!Shorter(Window, Len(s) + 1)
             /\ Feed!Last(r) = n
             /\ \A i \in 1 .. Len(r) - 1 : r[i] = s[Len(s) + 1 - Len(r) + i]
<1> DEFINE a == Append(s, n)
           r == Feed!Rolling(a)
<1>1. /\ a \in Seq(1 .. MaxCandles)
      /\ Len(a) = Len(s) + 1
      /\ a[Len(a)] = n
      /\ \A i \in 1 .. Len(s) : a[i] = s[i]
  OBVIOUS
<1>2. Window \in Nat \ {0} /\ Len(s) \in Nat
  BY DEF Feed!FeedAssumption
<1>3. CASE Len(s) < Window
  <2>1. r = a
    BY <1>1, <1>2, <1>3 DEF Feed!Rolling
  <2> QED
    BY <2>1, <1>1, <1>2, <1>3 DEF Feed!Shorter, Feed!Last
<1>4. CASE Len(s) = Window
  <2>1. r = SubSeq(a, 2, Len(a))
    BY <1>1, <1>2, <1>4 DEF Feed!Rolling
  <2>2. ASSUME NEW i \in 2 .. Len(a) PROVE a[i] \in 1 .. MaxCandles
    <3>1. i \in 1 .. Len(a)
      BY <1>1
    <3> QED
      BY <3>1, <1>1, ElementOfSeq
  <2>3. /\ r \in Seq(1 .. MaxCandles)
        /\ Len(r) = Window
        /\ \A i \in 1 .. Window : r[i] = a[i + 1]
    BY <2>1, <2>2, <1>1, <1>2, <1>4, SubSeqProperties
  <2>4. r # <<>> /\ Feed!Last(r) = n
    BY <2>3, <1>1, <1>2, <1>4 DEF Feed!Last
  <2> QED
    BY <2>3, <2>4, <1>1, <1>2, <1>4 DEF Feed!Shorter
<1> QED
  BY <1>2, <1>3, <1>4

(* A run that the feed goes on with is a run: the candle after its last.   *)
LEMMA RunGrows ==
  ASSUME Feed!FeedAssumption, NEW s \in Seq(1 .. MaxCandles), s # <<>>,
         NEW f \in Nat, Run(s, f), Feed!Last(s) + 1 \in 1 .. MaxCandles
  PROVE  LET r == Feed!Rolling(Append(s, Feed!Last(s) + 1))
         IN  r \in Seq(1 .. MaxCandles) /\ Run(r, f) /\ Feed!Last(r) = Feed!Last(s) + 1
             /\ Len(r) >= Len(s) /\ r # <<>>
<1> DEFINE n == Feed!Last(s) + 1
           r == Feed!Rolling(Append(s, n))
<1>1. Window \in Nat \ {0} /\ Len(s) \in Nat \ {0}
  BY DEF Feed!FeedAssumption
<1>2. Feed!Last(s) \in 1 .. MaxCandles
  <2>1. Len(s) \in 1 .. Len(s)
    BY <1>1
  <2>2. s[Len(s)] \in 1 .. MaxCandles
    BY <2>1, ElementOfSeq
  <2> QED
    BY <2>2 DEF Feed!Last
<1>3. Len(s) = Feed!Shorter(Window, Feed!Last(s) - f + 1) /\ f # 0 /\ f <= Feed!Last(s)
  BY DEF Run
<1>4. Len(s) <= Window
  BY <1>1, <1>2, <1>3 DEF Feed!Shorter
<1>5. /\ r \in Seq(1 .. MaxCandles)
      /\ r # <<>>
      /\ Len(r) = Feed!Shorter(Window, Len(s) + 1)
      /\ Feed!Last(r) = n
      /\ \A i \in 1 .. Len(r) - 1 : r[i] = s[Len(s) + 1 - Len(r) + i]
  BY <1>4, RollingProperties
<1>6. Len(r) = Feed!Shorter(Window, n - f + 1) /\ Len(r) >= Len(s) /\ Len(r) \in 1 .. Len(s) + 1
  <2>1. /\ Len(r) = Feed!Shorter(Window, Len(s) + 1)
        /\ Len(s) = Feed!Shorter(Window, Feed!Last(s) - f + 1)
        /\ f <= Feed!Last(s) /\ n = Feed!Last(s) + 1
    BY <1>3, <1>5
  <2>2. Len(s) \in Nat /\ Feed!Last(s) \in Int /\ Window \in Nat \ {0} /\ Len(s) <= Window
    BY <1>1, <1>2, <1>4
  <2> HIDE DEF n, r
  <2> QED
    BY <2>1, <2>2 DEF Feed!Shorter
<1>7. ASSUME NEW i \in 1 .. Len(r) - 1 PROVE r[i + 1] = r[i] + 1
  <2> DEFINE k == Len(s) + 1 - Len(r) + i
  <2>1. k \in 1 .. Len(s) /\ r[i] = s[k]
    BY <1>1, <1>5, <1>6
  <2>2. CASE i = Len(r) - 1
    BY <2>1, <2>2, <1>1, <1>2, <1>5, <1>6 DEF Feed!Last
  <2>3. CASE i # Len(r) - 1
    <3>1. i + 1 \in 1 .. Len(r) - 1 /\ k \in 1 .. Len(s) - 1
      BY <2>1, <2>3, <1>1, <1>6
    <3>2. r[i + 1] = s[k + 1]
      BY <3>1, <1>1, <1>5, <1>6
    <3>3. s[k + 1] = s[k] + 1
      BY <3>1 DEF Run
    <3> QED
      BY <3>2, <3>3, <2>1
  <2> QED
    BY <2>2, <2>3
<1> HIDE DEF r, n
<1>8. Run(r, f)
  BY <1>2, <1>3, <1>5, <1>6, <1>7 DEF Run, n
<1> QED
  BY <1>5, <1>6, <1>8 DEF r, n

(* The first candle makes a run of its own.                                *)
LEMMA RunBegins ==
  ASSUME Feed!FeedAssumption, NEW n \in 1 .. MaxCandles
  PROVE  LET r == Feed!Rolling(Append(<<>>, n))
         IN  r \in Seq(1 .. MaxCandles) /\ Run(r, n) /\ Feed!Last(r) = n /\ Len(r) >= 0 /\ r # <<>>
<1> DEFINE r == Feed!Rolling(Append(<<>>, n))
<1>1. Window \in Nat \ {0}
  BY DEF Feed!FeedAssumption
<1>2. r = <<n>>
  BY <1>1 DEF Feed!Rolling
<1>3. Feed!Last(r) = n
  BY <1>2 DEF Feed!Last
<1> HIDE DEF r
<1>4. Run(r, n)
  BY <1>1, <1>2, <1>3 DEF Run, Feed!Shorter
<1>5. r \in Seq(1 .. MaxCandles) /\ Len(r) >= 0 /\ r # <<>>
  BY <1>2
<1> QED
  BY <1>3, <1>4, <1>5 DEF r

(* Before the feed is connected nothing is published.                      *)
LEMMA InitFeed == ASSUME Feed!FeedAssumption, Feed!Init PROVE FeedInv
<1> USE DEF Feed!Init, Feed!Nothing, Feed!NoCandles
<1>1. Feed!TypeOK
  <2>1. Feed!NoCandles \in [Pairs -> Seq(1 .. MaxCandles)]
    BY EmptySeq
  <2>2. 0 \in 0 .. MaxCandles /\ 0 \in 0 .. MaxTickers
    BY DEF Feed!FeedAssumption
  <2>3. candles \in [Pairs -> Seq(1 .. MaxCandles)] /\ history \in [Pairs -> Seq(1 .. MaxCandles)]
    BY <2>1
  <2> QED
    BY <2>2, <2>3 DEF Feed!TypeOK
<1>2. CandlesOK /\ CopiesOK
  BY DEF CandlesOK, CopiesOK, Run
<1>3. DueOK /\ TickersOK
  BY DEF DueOK, TickersOK
<1> QED
  BY <1>1, <1>2, <1>3 DEF FeedInv

(* What a delivered candle does to its pair's window.                      *)
LEMMA KlineDelivered ==
  ASSUME Feed!FeedAssumption, Feed!TypeOK, CandlesOK, NEW p \in Pairs, Feed!Kline(p),
         Feed!Delivered(p)
  PROVE  /\ candles' \in [Pairs -> Seq(1 .. MaxCandles)]
         /\ first' \in [Pairs -> 0 .. MaxCandles]
         /\ Run(candles'[p], first'[p])
         /\ candles'[p] # <<>> /\ first'[p] # 0
         /\ Feed!Last(candles'[p]) = closed'[p] /\ closed'[p] = closed[p] + 1
         /\ Len(candles'[p]) >= Len(candles[p])
         /\ first[p] # 0 => first'[p] = first[p]
         /\ \A q \in Pairs \ {p} :
                candles'[q] = candles[q] /\ first'[q] = first[q] /\ closed'[q] = closed[q]
<1>1. /\ candles \in [Pairs -> Seq(1 .. MaxCandles)]
      /\ first \in [Pairs -> 0 .. MaxCandles]
      /\ closed \in [Pairs -> 0 .. MaxCandles]
      /\ MaxCandles \in Nat
  BY DEF Feed!TypeOK, Feed!FeedAssumption
<1>2. /\ closed'[p] = closed[p] + 1
      /\ closed'[p] \in 1 .. MaxCandles
      /\ candles' = [candles EXCEPT ![p] = Feed!Rolling(Append(candles[p], closed'[p]))]
      /\ first' = [first EXCEPT ![p] = IF first[p] = 0 THEN closed'[p] ELSE first[p]]
      /\ \A q \in Pairs \ {p} : closed'[q] = closed[q]
  BY <1>1 DEF Feed!Kline
<1> DEFINE r == Feed!Rolling(Append(candles[p], closed'[p]))
<1>3. CASE candles[p] = <<>>
  <2>1. first[p] = 0
    BY <1>3 DEF CandlesOK
  <2>2. r \in Seq(1 .. MaxCandles) /\ Run(r, closed'[p]) /\ Feed!Last(r) = closed'[p]
        /\ Len(r) >= 0 /\ r # <<>>
    BY <1>2, <1>3, RunBegins
  <2>3. Len(candles[p]) = 0
    BY <1>3
  <2> HIDE DEF r
  <2>4. candles'[p] = r /\ first'[p] = closed'[p]
    BY <1>1, <1>2, <2>1 DEF r
  <2> QED
    BY <1>1, <1>2, <2>1, <2>2, <2>3, <2>4 DEF r
<1>4. CASE candles[p] # <<>>
  <2>1. first[p] # 0 /\ Feed!Last(candles[p]) = closed[p] /\ Run(candles[p], first[p])
    BY <1>4 DEF CandlesOK, Feed!Delivered
  <2>2. first[p] \in Nat /\ candles[p] \in Seq(1 .. MaxCandles)
    BY <1>1
  <2>3. r \in Seq(1 .. MaxCandles) /\ Run(r, first[p]) /\ Feed!Last(r) = closed'[p]
        /\ Len(r) >= Len(candles[p]) /\ r # <<>>
    BY <1>2, <1>4, <2>1, <2>2, RunGrows
  <2> HIDE DEF r
  <2>4. candles'[p] = r /\ first'[p] = first[p]
    BY <1>1, <1>2, <2>1 DEF r
  <2> QED
    BY <1>1, <1>2, <2>1, <2>3, <2>4 DEF r
<1> QED
  BY <1>3, <1>4

(* A candle keeps the invariant, whether the feed gets it or not.          *)
LEMMA KlineInv ==
  ASSUME Feed!FeedAssumption, FeedInv, NEW p \in Pairs, Feed!Kline(p)
  PROVE  FeedInv'
<1> USE DEF FeedInv
<1>1. UNCHANGED <<feed, shutdown, ticked, tickers, Feed!reader>>
  BY DEF Feed!Kline
<1>2. closed' \in [Pairs -> 0 .. MaxCandles]
  BY DEF Feed!Kline, Feed!TypeOK, Feed!FeedAssumption
<1>3. CASE Feed!Delivered(p)
  <2> DEFINE Facts == /\ candles' \in [Pairs -> Seq(1 .. MaxCandles)]
                      /\ first' \in [Pairs -> 0 .. MaxCandles]
                      /\ Run(candles'[p], first'[p])
                      /\ candles'[p] # <<>> /\ first'[p] # 0
                      /\ Feed!Last(candles'[p]) = closed'[p] /\ closed'[p] = closed[p] + 1
                      /\ Len(candles'[p]) >= Len(candles[p])
                      /\ first[p] # 0 => first'[p] = first[p]
                      /\ \A q \in Pairs \ {p} :
                             candles'[q] = candles[q] /\ first'[q] = first[q] /\ closed'[q] = closed[q]
  <2>1. Facts
    BY <1>3, KlineDelivered
  <2>2. Feed!TypeOK'
    BY <1>1, <1>2, <2>1 DEF Feed!TypeOK, Feed!reader
  <2>3. CandlesOK'
    <3> SUFFICES ASSUME NEW q \in Pairs
                 PROVE  /\ candles'[q] = <<>> <=> first'[q] = 0
                        /\ feed' = "connecting" \/ q \notin Subscribed => candles'[q] = <<>>
                        /\ feed' = "up" /\ candles'[q] # <<>> => Feed!Last(candles'[q]) = closed'[q]
                        /\ Run(candles'[q], first'[q])
      BY DEF CandlesOK, Run, Feed!Shorter, Feed!Last
    <3>1. CASE q = p
      BY <1>1, <1>3, <2>1, <3>1 DEF Feed!Delivered
    <3>2. CASE q # p
      BY <1>1, <2>1, <3>2 DEF CandlesOK
    <3> QED
      BY <3>1, <3>2
  <2>4. CopiesOK'
    <3>1. history' = history /\ known' = known
      BY <1>1 DEF Feed!reader
    <3> SUFFICES ASSUME NEW q \in Pairs
                 PROVE  /\ Run(history[q], first'[q])
                        /\ Len(history[q]) <= Len(candles'[q])
                        /\ known[q] \subseteq Feed!Known(history[q])
      BY <3>1 DEF CopiesOK, Run, Feed!Shorter, Feed!Last, Feed!Known
    <3>2. Run(history[q], first[q]) /\ Len(history[q]) <= Len(candles[q])
          /\ known[q] \subseteq Feed!Known(history[q])
      BY DEF CopiesOK
    <3>3. Run(history[q], first'[q])
      BY <2>1, <3>2 DEF Run
    <3>4. Len(history[q]) \in Nat /\ Len(candles[q]) \in Nat /\ Len(candles'[q]) \in Nat
      BY <2>1, LenProperties DEF Feed!TypeOK
    <3>5. Len(candles'[q]) >= Len(candles[q])
      BY <2>1, <3>4
    <3> QED
      BY <3>2, <3>3, <3>4, <3>5
  <2>5. DueOK'
    <3>1. loop' = loop /\ due' = due /\ history' = history
      BY <1>1 DEF Feed!reader
    <3> SUFFICES ASSUME NEW q \in Pairs
                 PROVE  /\ loop = "tickers" => Reaches(candles'[q], due[q])
                        /\ loop = "ready" => Reaches(history[q], due[q])
      BY <3>1 DEF DueOK, Reaches, Feed!Last
    <3>2. /\ loop = "tickers" => Reaches(candles[q], due[q])
          /\ loop = "ready" => Reaches(history[q], due[q])
      BY DEF DueOK
    <3>3. CASE q = p
      <4>1. candles[p] # <<>> => Feed!Last(candles[p]) = closed[p]
        BY <1>3 DEF CandlesOK, Feed!Delivered
      <4>2. due[p] \in Nat /\ closed[p] \in Nat
        BY DEF Feed!TypeOK
      <4> QED
        BY <2>1, <3>2, <3>3, <4>1, <4>2 DEF Reaches
    <3>4. CASE q # p
      BY <2>1, <3>2, <3>4
    <3> QED
      BY <3>3, <3>4
  <2>6. TickersOK'
    BY <1>1 DEF TickersOK
  <2> QED
    BY <2>2, <2>3, <2>4, <2>5, <2>6
<1>4. CASE ~Feed!Delivered(p)
  <2>1. candles' = candles /\ first' = first
    BY <1>4 DEF Feed!Kline
  <2>2. feed = "up" => candles[p] = <<>>
    BY <1>4 DEF Feed!Delivered, CandlesOK
  <2>3. \A q \in Pairs \ {p} : closed'[q] = closed[q]
    BY DEF Feed!Kline, Feed!TypeOK
  <2>4. Feed!TypeOK' /\ TickersOK'
    BY <1>1, <1>2, <2>1 DEF Feed!TypeOK, TickersOK, Feed!reader
  <2>5. CandlesOK'
    BY <1>1, <2>1, <2>2, <2>3 DEF CandlesOK, Run, Feed!Shorter, Feed!Last
  <2>6. CopiesOK' /\ DueOK'
    BY <1>1, <2>1 DEF CopiesOK, DueOK, Run, Reaches, Feed!Shorter, Feed!Last, Feed!Known,
                      Feed!reader
  <2> QED
    BY <2>4, <2>5, <2>6
<1> QED
  BY <1>3, <1>4

(* So does every step of the feed that delivers no candle.                 *)
LEMMA FeedMoves ==
  ASSUME Feed!FeedAssumption, FeedInv,
         \/ Feed!Connect \/ Feed!StreamEnds \/ Feed!SignalShutdown \/ Feed!FeedShutsDown
         \/ (\E p \in Pairs : Feed!Ticker(p)) \/ UNCHANGED Feed!vars
  PROVE  FeedInv'
<1> USE DEF FeedInv
<1>1. UNCHANGED <<closed, first, candles, Feed!reader>>
  BY DEF Feed!Connect, Feed!StreamEnds, Feed!SignalShutdown, Feed!FeedShutsDown, Feed!Ticker,
         Feed!vars, Feed!exchange, Feed!published
<1>2. CopiesOK' /\ DueOK'
  BY <1>1 DEF CopiesOK, DueOK, Run, Reaches, Feed!Shorter, Feed!Last, Feed!Known, Feed!reader
<1>3. feed' = feed \/ feed' \in {"up", "ended"}
  BY DEF Feed!Connect, Feed!StreamEnds, Feed!SignalShutdown, Feed!FeedShutsDown, Feed!Ticker,
         Feed!vars
<1>4. feed' = "up" => feed = "up" \/ feed = "connecting"
  BY DEF Feed!Connect, Feed!StreamEnds, Feed!SignalShutdown, Feed!FeedShutsDown, Feed!Ticker,
         Feed!vars
<1>5. feed' = "connecting" => feed = "connecting"
  BY <1>3
<1>6. CandlesOK'
  BY <1>1, <1>4, <1>5 DEF CandlesOK, Run, Feed!Shorter, Feed!Last
<1>7. CASE \E p \in Pairs : Feed!Ticker(p)
  <2>1. PICK p \in Pairs : Feed!Ticker(p)
    BY <1>7
  <2>2. /\ ticked' = [ticked EXCEPT ![p] = ticked[p] + 1]
        /\ ticked[p] + 1 \in 1 .. MaxTickers
        /\ tickers' = tickers \/ tickers' = [tickers EXCEPT ![p] = ticked[p] + 1]
        /\ UNCHANGED <<feed, shutdown>>
    BY <2>1 DEF Feed!Ticker, Feed!TypeOK, Feed!FeedAssumption
  <2>3. /\ ticked \in [Pairs -> 0 .. MaxTickers]
        /\ tickers \in [Pairs -> 0 .. MaxTickers]
        /\ MaxTickers \in Nat
    BY DEF Feed!TypeOK, Feed!FeedAssumption
  <2>4. ticked' \in [Pairs -> 0 .. MaxTickers] /\ tickers' \in [Pairs -> 0 .. MaxTickers]
    BY <2>2, <2>3
  <2>5. Feed!TypeOK'
    BY <1>1, <2>2, <2>4 DEF Feed!TypeOK, Feed!reader
  <2>6. ASSUME NEW q \in Pairs PROVE tickers'[q] <= ticked'[q]
    <3>1. tickers[q] <= ticked[q]
      BY DEF TickersOK
    <3> QED
      BY <2>2, <2>3, <3>1
  <2>7. TickersOK'
    BY <2>6 DEF TickersOK
  <2> QED
    BY <2>5, <2>7, <1>2, <1>6
<1>8. CASE ~ \E p \in Pairs : Feed!Ticker(p)
  <2>1. UNCHANGED <<ticked, tickers>> /\ shutdown' \in BOOLEAN
        /\ feed' \in {"connecting", "up", "ended"}
    BY <1>8 DEF Feed!Connect, Feed!StreamEnds, Feed!SignalShutdown, Feed!FeedShutsDown,
                Feed!vars, Feed!exchange, Feed!published, Feed!TypeOK
  <2>2. Feed!TypeOK' /\ TickersOK'
    BY <1>1, <2>1 DEF Feed!TypeOK, TickersOK, Feed!reader
  <2> QED
    BY <2>2, <1>2, <1>6
<1> QED
  BY <1>7, <1>8

(* And every step of the loop.                                             *)
LEMMA LoopMoves ==
  ASSUME Feed!FeedAssumption, FeedInv, Feed!ReadTickers \/ Feed!ReadCandles \/ Feed!TickAll
  PROVE  FeedInv'
<1> USE DEF FeedInv
<1>1. UNCHANGED <<feed, shutdown, Feed!exchange, Feed!published>>
  BY DEF Feed!ReadTickers, Feed!ReadCandles, Feed!TickAll
<1>2. CandlesOK' /\ TickersOK'
  BY <1>1 DEF CandlesOK, TickersOK, Run, Feed!Shorter, Feed!Last, Feed!exchange, Feed!published
<1>3. CASE Feed!ReadTickers
  <2>1. UNCHANGED <<history, known>> /\ loop' = "tickers" /\ copied' = tickers
    BY <1>3 DEF Feed!ReadTickers
  <2>2. \A p \in Pairs : due'[p] = IF candles[p] = <<>> THEN 0 ELSE Feed!Last(candles[p])
    BY <1>3 DEF Feed!ReadTickers
  <2>3. ASSUME NEW p \in Pairs, candles[p] # <<>>
        PROVE  Feed!Last(candles[p]) \in 1 .. MaxCandles
    <3>1. candles[p] \in Seq(1 .. MaxCandles)
      BY DEF Feed!TypeOK
    <3>2. Len(candles[p]) \in 1 .. Len(candles[p])
      BY <2>3, <3>1, EmptySeq
    <3>3. candles[p][Len(candles[p])] \in 1 .. MaxCandles
      BY <3>1, <3>2, ElementOfSeq
    <3> QED
      BY <3>3 DEF Feed!Last
  <2>4. due' \in [Pairs -> 0 .. MaxCandles]
    <3>1. due' = [p \in Pairs |-> IF candles[p] = <<>> THEN 0 ELSE Feed!Last(candles[p])]
      BY <1>3 DEF Feed!ReadTickers
    <3> QED
      BY <2>3, <3>1 DEF Feed!FeedAssumption
  <2>5. Feed!TypeOK'
    BY <1>1, <2>1, <2>4 DEF Feed!TypeOK, Feed!exchange, Feed!published
  <2>6. CopiesOK'
    BY <1>1, <2>1 DEF CopiesOK, Run, Feed!Shorter, Feed!Last, Feed!Known, Feed!published
  <2>7. DueOK'
    <3> SUFFICES ASSUME NEW p \in Pairs
                 PROVE  Reaches(candles[p], due'[p])
      BY <1>1, <2>1 DEF DueOK, Reaches, Feed!Last, Feed!published
    <3>1. CASE candles[p] = <<>>
      BY <2>2, <3>1 DEF Reaches
    <3>2. CASE candles[p] # <<>>
      BY <2>2, <2>3, <3>2 DEF Reaches
    <3> QED
      BY <3>1, <3>2
  <2> QED
    BY <1>2, <2>5, <2>6, <2>7
<1>4. CASE Feed!ReadCandles
  <2>1. /\ history' = candles
        /\ loop = "tickers"
        /\ loop' = "ready"
        /\ UNCHANGED <<copied, known, due>>
    BY <1>4 DEF Feed!ReadCandles
  <2>2. Feed!TypeOK'
    BY <1>1, <2>1 DEF Feed!TypeOK, Feed!exchange, Feed!published
  <2>3. CopiesOK'
    <3> SUFFICES ASSUME NEW p \in Pairs
                 PROVE  /\ Run(candles[p], first[p])
                        /\ Len(candles[p]) <= Len(candles[p])
                        /\ known[p] \subseteq Feed!Known(candles[p])
      BY <1>1, <2>1 DEF CopiesOK, Run, Feed!Shorter, Feed!Last, Feed!Known, Feed!published
    <3>1. Len(history[p]) \in Nat /\ Len(candles[p]) \in Nat
      BY LenProperties DEF Feed!TypeOK
    <3>2. Feed!Known(history[p]) \subseteq Feed!Known(candles[p])
      BY <3>1 DEF Feed!Known, CopiesOK, Feed!FeedAssumption
    <3> QED
      BY <3>1, <3>2 DEF CandlesOK, CopiesOK
  <2>4. DueOK'
    BY <2>1 DEF DueOK, Reaches, Feed!Last
  <2> QED
    BY <1>2, <2>2, <2>3, <2>4
<1>5. CASE Feed!TickAll
  <2>1. /\ UNCHANGED <<copied, history, due>> /\ loop' = "idle"
        /\ known' = [p \in Pairs |-> IF copied[p] # 0 THEN Feed!Known(history[p]) ELSE known[p]]
    BY <1>5 DEF Feed!TickAll
  <2>2. known' \in [Pairs -> SUBSET Studies]
    BY <2>1 DEF Feed!TypeOK, Feed!Known
  <2>3. Feed!TypeOK'
    BY <1>1, <2>1, <2>2 DEF Feed!TypeOK, Feed!exchange, Feed!published
  <2>4. \A p \in Pairs : known'[p] \subseteq Feed!Known(history[p])
    BY <2>1 DEF CopiesOK
  <2>5. CopiesOK'
    BY <1>1, <2>1, <2>4 DEF CopiesOK, Run, Feed!Shorter, Feed!Last, Feed!Known, Feed!published
  <2>6. DueOK'
    BY <2>1 DEF DueOK
  <2> QED
    BY <1>2, <2>3, <2>5, <2>6
<1> QED
  BY <1>3, <1>4, <1>5

(* So the invariant always holds.                                          *)
LEMMA FeedKept == ASSUME Feed!FeedAssumption PROVE Feed!Spec => []FeedInv
<1>1. Feed!Init => FeedInv
  BY InitFeed
<1>2. FeedInv /\ [Feed!Next]_Feed!vars => FeedInv'
  BY KlineInv, FeedMoves, LoopMoves DEF Feed!Next
<1> QED
  BY <1>1, <1>2, PTL DEF Feed!Spec

(* The types of the state, for any constants (trading/market_data.rs).     *)
THEOREM FeedTypeCorrect == ASSUME Feed!FeedAssumption PROVE Feed!Spec => []Feed!TypeOK
<1>1. FeedInv => Feed!TypeOK
  BY DEF FeedInv
<1> QED
  BY <1>1, FeedKept, PTL

(* Whenever the loop reads, what it computes the indicators from is a      *)
(* gapless run of candles, as many as there are up to the window.          *)
THEOREM HistoryAlwaysGapless ==
  ASSUME Feed!FeedAssumption
  PROVE  Feed!Spec => []Feed!HistoryIsGapless
<1>1. FeedInv => Feed!HistoryIsGapless
  BY DEF FeedInv, CopiesOK, Run, Feed!HistoryIsGapless
<1> QED
  BY <1>1, FeedKept, PTL

(* Whatever is delivered between the loop's two reads, its candles are not *)
(* older than its ticker.                                                  *)
THEOREM CandlesNeverOlder ==
  ASSUME Feed!FeedAssumption
  PROVE  Feed!Spec => []Feed!CandlesNotOlder
<1>1. FeedInv => Feed!CandlesNotOlder
  BY DEF FeedInv, DueOK, Reaches, Feed!CandlesNotOlder
<1> QED
  BY <1>1, FeedKept, PTL

(* An indicator, once it has candles enough, is never missing again: the   *)
(* filters of the heuristics do not fall open (compute_indicators).        *)
THEOREM IndicatorsAlwaysStay ==
  ASSUME Feed!FeedAssumption
  PROVE  Feed!Spec => Feed!IndicatorsStay
<1>1. FeedInv /\ [Feed!Next]_Feed!vars => [\A p \in Pairs : known[p] \subseteq known'[p]]_Feed!vars
  <2> SUFFICES ASSUME FeedInv, Feed!Next
               PROVE  \A p \in Pairs : known[p] \subseteq known'[p]
    OBVIOUS
  <2>1. CASE Feed!TickAll
    BY <2>1 DEF Feed!TickAll, FeedInv, CopiesOK
  <2>2. CASE ~Feed!TickAll
    <3>1. known' = known
      BY <2>2 DEF Feed!Next, Feed!Connect, Feed!Ticker, Feed!Kline, Feed!StreamEnds,
                  Feed!SignalShutdown, Feed!FeedShutsDown,
                  Feed!ReadTickers, Feed!ReadCandles, Feed!reader
    <3> QED
      BY <3>1
  <2> QED
    BY <2>1, <2>2
<1> QED
  BY <1>1, FeedKept, PTL DEF Feed!Spec, Feed!IndicatorsStay

(* A ticker that replaces another is newer, and the other pairs keep       *)
(* theirs ("24hrTicker").                                                  *)
THEOREM SnapshotsAlwaysAdvance ==
  ASSUME Feed!FeedAssumption
  PROVE  Feed!Spec => Feed!SnapshotsAdvance
<1>1. FeedInv /\ [Feed!Next]_Feed!vars => [\A p \in Pairs : tickers'[p] >= tickers[p]]_Feed!vars
  <2> SUFFICES ASSUME FeedInv, Feed!Next, NEW q \in Pairs
               PROVE  tickers'[q] >= tickers[q]
    OBVIOUS
  <2>1. tickers \in [Pairs -> Nat] /\ ticked \in [Pairs -> Nat] /\ tickers[q] <= ticked[q]
    BY DEF FeedInv, Feed!TypeOK, TickersOK
  <2>2. CASE \E p \in Pairs : Feed!Ticker(p)
    BY <2>1, <2>2 DEF Feed!Ticker
  <2>3. CASE ~ \E p \in Pairs : Feed!Ticker(p)
    <3>1. tickers' = tickers
      BY <2>3 DEF Feed!Next, Feed!Connect, Feed!Kline, Feed!StreamEnds, Feed!SignalShutdown,
                  Feed!FeedShutsDown,
                  Feed!ReadTickers, Feed!ReadCandles, Feed!TickAll, Feed!published
    <3> QED
      BY <2>1, <3>1
  <2> QED
    BY <2>2, <2>3
<1> QED
  BY <1>1, FeedKept, PTL DEF Feed!Spec, Feed!SnapshotsAdvance

(* All of it together: the loop judges a ticker by indicators of candles   *)
(* that are consecutive and not older, and nothing it had is lost.         *)
THEOREM FeedAlwaysSound == ASSUME Feed!FeedAssumption PROVE Feed!Spec => FeedSound
<1> QED
  BY FeedTypeCorrect, HistoryAlwaysGapless, CandlesNeverOlder, SnapshotsAlwaysAdvance,
     IndicatorsAlwaysStay, PTL DEF FeedSound, Feed!FeedSound

-----------------------------------------------------------------------------
(* Decisions.                                                              *)

(* A book does not cross, and has its middle between the sides.            *)
BookInv ==
    /\ book.bid \in Quotes \union {0} /\ book.ask \in Quotes \union {0}
    /\ book.mid \in 0 .. Dollar
    /\ book.liquidity \in Nat
    /\ book.bid > 0 /\ book.ask > 0 =>
          /\ book.bid < book.ask
          /\ book.mid = (book.bid + book.ask) \div 2

(* A recommendation is what was made of the answer, until the next         *)
(* question, and a signal is only there when one has been decided on.      *)
RecInv ==
    /\ stage \in {"decide", "done"} => rec = Decide!Recommend
    /\ stage = "parse" \/ stage = "ask" => signal = Decide!NoSignal
    /\ signal # Decide!NoSignal => stage = "done"

(* Together they are inductive.                                            *)
DecisionInv ==
    /\ Decide!TypeOK /\ BookInv /\ RecInv
    /\ Decide!NoOrderWithoutAnswer /\ Decide!OrdersCrossTheBook

(* Prices are numbers of cents below a dollar.                             *)
LEMMA QuotedPrices ==
  ASSUME Decide!PriceAssumption
  PROVE  /\ Dollar \in Nat /\ Threshold \in Int /\ MinLiquidity \in Int
         /\ \A q \in Quotes : q \in Int /\ 1 <= q /\ q <= Dollar - 1 /\ q % 2 = 0
         /\ Dollar \div 2 \in 0 .. Dollar
BY DEF Decide!PriceAssumption

(* The middle of an even bid and a higher even ask is between them.        *)
LEMMA MidBetween ==
  ASSUME NEW bid \in Nat, NEW ask \in Nat, bid % 2 = 0, ask % 2 = 0, bid < ask
  PROVE  /\ (bid + ask) \div 2 \in Nat
         /\ bid < (bid + ask) \div 2 /\ (bid + ask) \div 2 < ask
OBVIOUS

(* What is made of an answer.                                              *)
LEMMA RecommendType ==
  ASSUME Decide!PriceAssumption, Decide!TypeOK
  PROVE  /\ Decide!Recommend \in [action : Decide!Words, confidence : Int]
         /\ Decide!Recommend.action # "Hold" =>
               /\ reply.kind = "json" /\ reply.action = Decide!Recommend.action
               /\ Decide!Recommend.action \in (IF question = "trade"
                                            THEN Decide!TradeWords ELSE Decide!PredictionWords)
<1>1. Dollar \div 2 \in Int
  BY QuotedPrices
<1>2. CASE reply.kind # "json"
  BY <1>1, <1>2 DEF Decide!Recommend, Decide!HoldBack, Decide!Words, Decide!TradeWords
<1>3. CASE reply.kind = "json"
  <2>1. reply.confidence \in Int
    <3>1. Confidences \subseteq Int
      BY QuotedPrices DEF Decide!PriceAssumption
    <3>2. reply.confidence \in Confidences \union {Decide!Absent}
      BY <1>3 DEF Decide!TypeOK, Decide!Answers
    <3>. QED
      <4>1. Decide!Absent \in Int
        BY DEF Decide!Absent
      <4>. QED
        BY <3>1, <3>2, <4>1
  <2>. QED
    BY <1>1, <1>3, <2>1 DEF Decide!Recommend, Decide!Parse, Decide!Words, Decide!TradeWords,
                            Decide!PredictionWords
<1>. QED
  BY <1>2, <1>3

(* Every book that the market may have is one, with its middle in range.   *)
LEMMA BookType ==
  ASSUME Decide!PriceAssumption, NEW b \in Decide!Books
  PROVE  b \in Decide!OrderBook /\ b.mid \in 0 .. Dollar
<1>1. PICK bid \in Quotes \union {0}, ask \in Quotes \union {0}, liquidity \in Liquidities :
        b = [bid |-> bid, ask |-> ask, mid |-> Decide!Mid(bid, ask), liquidity |-> liquidity]
  BY DEF Decide!Books
<1>2. liquidity \in Int
  BY DEF Decide!PriceAssumption
<1>3. bid \in Nat /\ ask \in Nat /\ bid <= Dollar /\ ask <= Dollar /\ Dollar \in Nat
  BY QuotedPrices
<1>4. Decide!Mid(bid, ask) \in 0 .. Dollar
  BY <1>3, QuotedPrices DEF Decide!Mid
<1>. QED
  BY <1>1, <1>2, <1>3, <1>4 DEF Decide!OrderBook

(* A signal of a prediction has a limit price only when it is an order.    *)
LEMMA SignalType ==
  ASSUME Decide!PriceAssumption, DecisionInv, stage = "decide",
         question = "prediction", rec.action # "Hold"
  PROVE  /\ Decide!PredictionSignal \in [side : {"yes", "no", "pair", "none"},
                                  action : {"buy", "sell", "none"}, limit : 0 .. Dollar, edge : Int]
         /\ book.bid > 0 /\ book.ask > 0 =>
              /\ Decide!PredictionSignal.limit > 0
              /\ Decide!PredictionSignal.action = "sell" =>
                    Decide!PredictionSignal.limit < Decide!YesPrice(book)
              /\ Decide!PredictionSignal.action = "buy" =>
                    Decide!PredictionSignal.limit >
                        (IF Decide!PredictionSignal.side = "no" THEN Decide!NoPrice(book)
                         ELSE Decide!YesPrice(book))
<1>1. rec.action \in {"BuyYes", "BuyNo", "Sell"}
  BY RecommendType DEF DecisionInv, RecInv, Decide!PredictionWords
<1>2. /\ book.bid \in Nat /\ book.ask \in Nat /\ book.mid \in Nat /\ Dollar \in Nat
      /\ book.bid <= Dollar /\ book.ask <= Dollar
      /\ book.bid > 0 => book.bid <= Dollar - 1
  BY QuotedPrices DEF DecisionInv, BookInv
<1>3. ASSUME book.bid > 0, book.ask > 0 PROVE book.bid < book.mid /\ book.mid < book.ask
  <2>1. book.bid % 2 = 0 /\ book.ask % 2 = 0
    BY <1>3, QuotedPrices DEF DecisionInv, BookInv
  <2>2. book.bid < book.ask /\ book.mid = (book.bid + book.ask) \div 2
    BY <1>3 DEF DecisionInv, BookInv
  <2>. QED
    BY <1>2, <2>1, <2>2, MidBetween
<1>4. Decide!Edge \in Int
  <2>1. rec.confidence \in Int
    BY DEF DecisionInv, Decide!TypeOK
  <2>. QED
    BY <1>2, <2>1 DEF Decide!Edge, Decide!NoPrice, Decide!YesPrice
<1>5. CASE rec.action = "BuyYes"
  <2>1. Decide!PredictionSignal =
          [side |-> "yes", action |-> "buy", limit |-> book.ask, edge |-> Decide!Edge]
    BY <1>5 DEF Decide!PredictionSignal
  <2>. QED
    BY <1>2, <1>3, <1>4, <2>1 DEF Decide!YesPrice
<1>6. CASE rec.action = "BuyNo"
  <2>1. Decide!PredictionSignal =
          [side |-> "no", action |-> "buy", limit |-> Dollar - book.bid, edge |-> Decide!Edge]
    BY <1>6 DEF Decide!PredictionSignal
  <2>. QED
    BY <1>2, <1>3, <1>4, <2>1 DEF Decide!NoPrice
<1>7. CASE rec.action = "Sell"
  <2>1. Decide!PredictionSignal =
          [side |-> "yes", action |-> "sell", limit |-> book.bid, edge |-> Decide!Edge]
    BY <1>7 DEF Decide!PredictionSignal
  <2>. QED
    BY <1>2, <1>3, <1>4, <2>1 DEF Decide!YesPrice
<1>. QED
  BY <1>1, <1>5, <1>6, <1>7

(* Before the first question there is neither an answer nor a signal.      *)
LEMMA InitDecision == ASSUME Decide!PriceAssumption, Decide!Init PROVE DecisionInv
<1>. Dollar \in Nat /\ Dollar \div 2 \in Int
  BY QuotedPrices
<1>1. Decide!TypeOK
  BY DEF Decide!Init, Decide!TypeOK, Decide!NoBook, Decide!OrderBook, Decide!NoIndicators,
         Decide!Indicators, Decide!NoAnswer, Decide!Answers, Decide!HoldBack, Decide!Words,
         Decide!TradeWords, Decide!NoSignal, Decide!Absent
<1>2. BookInv
  BY DEF Decide!Init, BookInv, Decide!NoBook
<1>. QED
  BY <1>1, <1>2 DEF Decide!Init, DecisionInv, RecInv, Decide!NoOrderWithoutAnswer,
                    Decide!OrdersCrossTheBook

(* Every step of a question keeps the invariant.                           *)
LEMMA NextDecision ==
  ASSUME Decide!PriceAssumption, DecisionInv, [Decide!Next]_Decide!vars
  PROVE  DecisionInv'
<1>. Decide!TypeOK
  BY DEF DecisionInv
<1>. Dollar \in Nat
  BY QuotedPrices
<1>1. CASE Decide!AskPrediction \/ Decide!AskTrade
  <2>1. PICK b : /\ (b \in Decide!Books /\ Decide!Uncrossed(b)) \/ b = Decide!NoBook
                 /\ book' = b
    BY <1>1 DEF Decide!AskPrediction, Decide!AskTrade
  <2>2. b \in Decide!OrderBook /\ b.mid \in 0 .. Dollar
    <3>1. Decide!NoBook \in Decide!OrderBook /\ Decide!NoBook.mid \in 0 .. Dollar
      BY DEF Decide!NoBook, Decide!OrderBook
    <3>. QED
      BY <2>1, <3>1, BookType
  <2>3. BookInv'
    <3>1. CASE b = Decide!NoBook
      BY <2>1, <3>1 DEF BookInv, Decide!NoBook
    <3>2. CASE b \in Decide!Books /\ Decide!Uncrossed(b)
      <4>1. PICK bid \in Quotes \union {0}, ask \in Quotes \union {0}, liquidity \in Liquidities :
              b = [bid |-> bid, ask |-> ask, mid |-> Decide!Mid(bid, ask), liquidity |-> liquidity]
        BY <3>2 DEF Decide!Books
      <4>2. liquidity \in Nat
        BY DEF Decide!PriceAssumption
      <4>. QED
        BY <2>1, <2>2, <3>2, <4>1, <4>2 DEF BookInv, Decide!Uncrossed, Decide!Mid
    <3>. QED
      BY <2>1, <3>1, <3>2
  <2>4. /\ stage' = "ask" /\ question' \in {"trade", "prediction"}
        /\ reply' = Decide!NoAnswer /\ signal' = Decide!NoSignal
        /\ indicators' \in Decide!Indicators /\ rec' = rec
    BY <1>1 DEF Decide!AskPrediction, Decide!AskTrade, Decide!NoIndicators, Decide!Indicators,
                Decide!Absent
  <2>5. Decide!TypeOK'
    BY <2>1, <2>2, <2>4 DEF Decide!TypeOK, Decide!NoAnswer, Decide!Answers, Decide!NoSignal
  <2>. QED
    BY <2>3, <2>4, <2>5 DEF DecisionInv, RecInv, Decide!NoOrderWithoutAnswer,
                            Decide!OrdersCrossTheBook
<1>2. CASE Decide!ModelAnswers
  <2>1. Decide!TypeOK' /\ BookInv'
    BY <1>2 DEF Decide!ModelAnswers, Decide!TypeOK, DecisionInv, BookInv
  <2>2. signal' = Decide!NoSignal /\ stage' = "parse"
    BY <1>2 DEF Decide!ModelAnswers, DecisionInv, RecInv
  <2>. QED
    BY <2>1, <2>2 DEF DecisionInv, RecInv, Decide!NoOrderWithoutAnswer,
                      Decide!OrdersCrossTheBook
<1>3. CASE Decide!ParseAnswer
  <2>1. rec' = Decide!Recommend /\ Decide!Recommend' = Decide!Recommend
    BY <1>3 DEF Decide!ParseAnswer, Decide!Recommend, Decide!Parse, Decide!HoldBack
  <2>2. Decide!TypeOK' /\ BookInv'
    BY <1>3, <2>1, RecommendType DEF Decide!ParseAnswer, Decide!TypeOK, DecisionInv, BookInv
  <2>3. signal' = Decide!NoSignal /\ stage' = "decide"
    BY <1>3 DEF Decide!ParseAnswer, DecisionInv, RecInv
  <2>. QED
    BY <2>1, <2>2, <2>3 DEF DecisionInv, RecInv, Decide!NoOrderWithoutAnswer,
                            Decide!OrdersCrossTheBook
<1>4. CASE Decide!DecidePrediction
  <2>1. UNCHANGED <<question, book, indicators, reply, rec>> /\ stage' = "done"
        /\ stage = "decide" /\ question = "prediction"
    BY <1>4 DEF Decide!DecidePrediction
  <2>2. BookInv' /\ Decide!Recommend' = Decide!Recommend
    BY <2>1 DEF DecisionInv, BookInv, Decide!Recommend, Decide!Parse, Decide!HoldBack
  <2>3. RecInv'
    BY <2>1, <2>2 DEF DecisionInv, RecInv
  <2>4. CASE signal' = Decide!NoSignal
    BY <2>1, <2>2, <2>3, <2>4
       DEF Decide!TypeOK, Decide!NoSignal, DecisionInv, Decide!NoOrderWithoutAnswer,
           Decide!OrdersCrossTheBook
  <2>5. CASE rec.action # "Hold" /\ signal' = Decide!PredictionSignal
    <3>1. signal' \in [side : {"yes", "no", "pair", "none"}, action : {"buy", "sell", "none"},
                       limit : 0 .. Dollar, edge : Int]
      BY <2>1, <2>5, SignalType
    <3>2. Decide!TypeOK'
      BY <2>1, <3>1 DEF Decide!TypeOK
    <3>3. Decide!NoOrderWithoutAnswer'
      <4>1. rec = Decide!Recommend /\ rec.action \in Decide!Words
        BY <2>1 DEF DecisionInv, RecInv, Decide!TypeOK
      <4>. QED
        BY <2>1, <2>5, <4>1, RecommendType DEF Decide!NoOrderWithoutAnswer
    <3>4. Decide!OrdersCrossTheBook'
      BY <2>1, <2>5, SignalType DEF Decide!OrdersCrossTheBook, Decide!YesPrice, Decide!NoPrice
    <3>. QED
      BY <2>2, <2>3, <3>2, <3>3, <3>4 DEF DecisionInv
  <2>. QED
    BY <1>4, <2>4, <2>5 DEF Decide!DecidePrediction
<1>5. CASE Decide!DecideTrade
  <2>1. UNCHANGED <<question, book, indicators, reply, rec>> /\ stage' = "done"
        /\ stage = "decide" /\ question = "trade"
    BY <1>5 DEF Decide!DecideTrade
  <2>2. BookInv' /\ Decide!Recommend' = Decide!Recommend
    BY <2>1 DEF DecisionInv, BookInv, Decide!Recommend, Decide!Parse, Decide!HoldBack
  <2>3. RecInv'
    BY <2>1, <2>2 DEF DecisionInv, RecInv
  <2>4. signal' \in [side : {"yes", "no", "pair", "none"}, action : {"buy", "sell", "none"},
                     limit : 0 .. Dollar, edge : Int]
    <3>1. \/ signal' = Decide!NoSignal
          \/ \E a \in {"buy", "sell"} : signal' = [Decide!NoSignal EXCEPT !.side = "pair", !.action = a]
      BY <1>5 DEF Decide!DecideTrade
    <3>2. Decide!NoSignal = [side |-> "none", action |-> "none", limit |-> 0, edge |-> 0]
      BY DEF Decide!NoSignal
    <3>3. CASE signal' = Decide!NoSignal
      BY <3>2, <3>3
    <3>4. ASSUME NEW a \in {"buy", "sell"},
                 signal' = [Decide!NoSignal EXCEPT !.side = "pair", !.action = a]
          PROVE  signal' = [side |-> "pair", action |-> a, limit |-> 0, edge |-> 0]
      BY <3>2, <3>4
    <3>. QED
      BY <3>1, <3>3, <3>4
  <2>5. Decide!NoOrderWithoutAnswer'
    <3>1. rec = Decide!Recommend /\ rec.action \in Decide!Words
      BY <2>1 DEF DecisionInv, RecInv, Decide!TypeOK
    <3>2. signal' # Decide!NoSignal => rec.action # "Hold"
      BY <1>5 DEF Decide!DecideTrade
    <3>. QED
      BY <2>1, <3>1, <3>2, RecommendType DEF Decide!NoOrderWithoutAnswer
  <2>6. Decide!TypeOK' /\ Decide!OrdersCrossTheBook'
    BY <2>1, <2>4 DEF Decide!TypeOK, Decide!OrdersCrossTheBook
  <2>. QED
    BY <2>2, <2>3, <2>5, <2>6 DEF DecisionInv
<1>6. CASE UNCHANGED Decide!vars
  BY <1>6 DEF Decide!vars, DecisionInv, Decide!TypeOK, BookInv, RecInv,
              Decide!NoOrderWithoutAnswer, Decide!OrdersCrossTheBook,
              Decide!Recommend, Decide!Parse, Decide!HoldBack, Decide!YesPrice, Decide!NoPrice
<1>. QED
  BY <1>1, <1>2, <1>3, <1>4, <1>5, <1>6 DEF Decide!Next

(* So the invariant always holds.                                          *)
LEMMA DecisionKept == ASSUME Decide!PriceAssumption PROVE Decide!Spec => []DecisionInv
<1>1. Decide!Init => DecisionInv
  BY InitDecision
<1>2. DecisionInv /\ [Decide!Next]_Decide!vars => DecisionInv'
  BY NextDecision
<1>. QED
  BY <1>1, <1>2, PTL DEF Decide!Spec

(* A provider that fails, or answers with something else than an action,   *)
(* orders nothing, whatever the thresholds and the indicators are          *)
(* (HeuristicFallback).                                                    *)
THEOREM NoAnswerNeverOrders ==
  ASSUME Decide!PriceAssumption
  PROVE  Decide!Spec => []Decide!NoOrderWithoutAnswer
<1>1. DecisionInv => Decide!NoOrderWithoutAnswer
  BY DEF DecisionInv
<1>. QED
  BY <1>1, DecisionKept, PTL

(* A limit price that crosses the book is worth something and no better    *)
(* than the price the model was shown, for every book the market may have  *)
(* (PredictionStrategy::evaluate).                                         *)
THEOREM OrdersAlwaysCross ==
  ASSUME Decide!PriceAssumption
  PROVE  Decide!Spec => []Decide!OrdersCrossTheBook
<1>1. DecisionInv => Decide!OrdersCrossTheBook
  BY DEF DecisionInv
<1>. QED
  BY <1>1, DecisionKept, PTL

(* No order is without an answer, and none is on the near side of the book.*)
THEOREM OrdersAlwaysJustified ==
  ASSUME Decide!PriceAssumption
  PROVE  Decide!Spec => []OrdersJustified
<1>1. DecisionInv => OrdersJustified
  BY DEF DecisionInv, OrdersJustified, Decide!OrdersJustified
<1>. QED
  BY <1>1, DecisionKept, PTL

-----------------------------------------------------------------------------
(* FleetReports.                                                           *)

(* What the workers keep.                                                  *)
Trade == [side : {"buy", "sell"}, price : Prices \union {0}, fill : Prices]

(* The open position of a worker.                                          *)
Row(w) == [id : 1 .. MaxTrades[w], entry : Prices, unrealized : Int]

(* An update of prices is between two of its steps, or none is under way.  *)
Updating(u) ==
    \/ u = Fleet!Idle
    \/ u.step = "row" /\ u = [step |-> "row", id |-> u.id, entry |-> u.entry] /\ u.entry \in Prices
    \/ u.step = "total" /\ u = [step |-> "total", sum |-> u.sum] /\ u.sum \in Int

(* What the workers are, and what the master has connected of them.        *)
WorkersOK ==
    /\ waiting \subseteq Workers /\ pool \subseteq Workers \ waiting
    /\ DOMAIN position = Workers /\ position = [w \in Workers |-> position[w]]
    /\ \A w \in Workers : position[w] # None => position[w] \in Row(w)
    /\ portfolio \in [Workers -> [realized : Int, unrealized : Int]]
    /\ records \in [Workers -> Seq(Trade)]
    /\ DOMAIN update = Workers /\ update = [w \in Workers |-> update[w]]
    /\ \A w \in Workers : Updating(update[w])
    /\ totals \in [Workers -> SUBSET Int]

(* While a request is under way nothing has been answered, every worker    *)
(* that can be connected is, and what each of them has is among what has   *)
(* been seen of it.                                                        *)
Asking ==
    request # None =>
        /\ waiting = {} /\ answer = None
        /\ \A w \in Workers : Fleet!Total(w) \in totals[w]

(* The master's request: of the workers it is about, some are left, one is *)
(* being called, and the others have answered or failed.                   *)
RequestShape ==
    request # None =>
        /\ request = [kind |-> request.kind, left |-> request.left, at |-> request.at,
                      call |-> request.call, got |-> request.got, failed |-> request.failed,
                      books |-> request.books, trades |-> request.trades]
        /\ request.kind \in {"list", "one", "all"}
        /\ request.left \subseteq pool /\ request.failed \subseteq pool
        /\ request.at \in pool \union {None}
        /\ request.got = [w \in DOMAIN request.got |-> request.got[w]]
        /\ DOMAIN request.got \subseteq pool

(* The worker that is being called.                                        *)
Called == IF request.at = None THEN {} ELSE {request.at}

(* A worker is left, failed, called or reported, never two of these at a   *)
(* time, and of a request about all of them none is forgotten.             *)
Apart ==
    request # None =>
        /\ request.left \intersect request.failed = {}
        /\ request.left \intersect Called = {}
        /\ request.left \intersect DOMAIN request.got = {}
        /\ request.failed \intersect Called = {}
        /\ request.failed \intersect DOMAIN request.got = {}
        /\ Called \intersect DOMAIN request.got = {}
        /\ request.kind # "one" =>
              pool = request.left \union request.failed \union Called \union DOMAIN request.got

(* What has been read of a worker is one of the totals it had.             *)
ReadsOK ==
    request # None /\ request.kind # "list" =>
        /\ request.at # None /\ request.call \in {"trades", "predictions"} =>
              /\ request.books \in [realized : Int, unrealized : Int]
              /\ request.books.realized + request.books.unrealized \in totals[request.at]
        /\ \A w \in DOMAIN request.got : request.got[w].total \in totals[w]

(* The answer keeps what the properties say of it.                         *)
Answered ==
    /\ answer # None => waiting = {} /\ DOMAIN answer.workers \subseteq pool
    /\ Fleet!OnlyFailuresAreMissing /\ Fleet!TotalWasTheirs /\ Fleet!BestIsNamed

(* Together they are inductive.                                            *)
ReportsInv ==
    /\ Fleet!FleetAssumption
    /\ WorkersOK /\ Asking /\ RequestShape /\ Apart /\ ReadsOK /\ Answered

(* Some worker has earned the most, in every report of a finite number.    *)
LEMMA BestExists ==
  ASSUME NEW D, IsFiniteSet(D), D # {}, NEW f, \A x \in D : f[x] \in Int
  PROVE  \E x \in D : \A y \in D : f[y] <= f[x]
<1> DEFINE Has(S) == \E x \in S : \A y \in S : f[y] <= f[x]
           P == {n \in Nat : \A S \in SUBSET D : Cardinality(S) = n /\ S # {} => Has(S)}
<1>0. ASSUME NEW S \in SUBSET D PROVE IsFiniteSet(S) /\ Cardinality(S) \in Nat
  BY <1>0, FS_Subset, FS_CardinalityType
<1>1. 0 \in P
  BY <1>0, FS_EmptySet
<1>2. ASSUME NEW n \in Nat, n \in P PROVE n + 1 \in P
  <2> SUFFICES ASSUME NEW S \in SUBSET D, Cardinality(S) = n + 1, S # {} PROVE Has(S)
    OBVIOUS
  <2>1. PICK x \in S : TRUE
    OBVIOUS
  <2>2. S \ {x} \in SUBSET D /\ Cardinality(S \ {x}) = n
    <3>1. IsFiniteSet(S) /\ S \ {x} \in SUBSET D
      BY <1>0
    <3>2. Cardinality(S \ {x}) = Cardinality(S) - 1
      BY <2>1, <3>1, FS_RemoveElement
    <3> QED
      BY <3>1, <3>2
  <2>3. CASE S \ {x} = {}
    BY <2>1, <2>3
  <2>4. CASE S \ {x} # {}
    <3>1. PICK m \in S \ {x} : \A y \in S \ {x} : f[y] <= f[m]
      BY <1>2, <2>2, <2>4
    <3>2. f[x] \in Int /\ f[m] \in Int /\ \A y \in S : f[y] \in Int
      BY <2>1, <3>1
    <3>3. CASE f[x] <= f[m]
      BY <3>1, <3>3
    <3>4. CASE f[m] <= f[x]
      <4>1. \A y \in S : f[y] <= f[x]
        BY <3>1, <3>2, <3>4
      <4> QED
        BY <2>1, <4>1
    <3> QED
      BY <3>2, <3>3, <3>4
  <2> QED
    BY <2>3, <2>4
<1>3. Cardinality(D) \in P
  <2> HIDE DEF P
  <2>1. Nat \subseteq P
    BY <1>1, <1>2, InductiveSet
  <2> QED
    BY <2>1, FS_CardinalityType
<1> QED
  BY <1>3

(* A function without arguments is the empty one.                          *)
LEMMA NoArguments ==
  ASSUME NEW f, f = [x \in DOMAIN f |-> f[x]], DOMAIN f = {}
  PROVE  f = <<>>
OBVIOUS

(* What the end of a worker's step, its Watch, leaves of the request.      *)
LEMMA WatchKeeps ==
  ASSUME ReportsInv, Fleet!Watch, portfolio' \in [Workers -> [realized : Int, unrealized : Int]]
  PROVE  /\ waiting' \subseteq Workers /\ pool' \subseteq Workers \ waiting'
         /\ totals' \in [Workers -> SUBSET Int]
         /\ Fleet!FleetAssumption' /\ Asking' /\ RequestShape' /\ Apart' /\ ReadsOK' /\ Answered'
<1> USE DEF ReportsInv
<1>1. UNCHANGED <<waiting, pool, request, answer>>
  BY DEF Fleet!Watch
<1>2. waiting' \subseteq Workers /\ pool' \subseteq Workers \ waiting'
  BY <1>1 DEF WorkersOK
<1>3. RequestShape' /\ Apart' /\ Fleet!FleetAssumption'
  BY <1>1 DEF RequestShape, Apart, Called, Fleet!FleetAssumption
<1>4. CASE request = None
  <2>1. totals' = totals
    BY <1>4 DEF Fleet!Watch
  <2> QED
    BY <1>1, <1>2, <1>3, <1>4, <2>1
       DEF WorkersOK, Asking, ReadsOK, Answered, Fleet!OnlyFailuresAreMissing,
           Fleet!TotalWasTheirs, Fleet!BestIsNamed
<1>5. CASE request # None
  <2>1. totals' = [w \in Workers |->
                     totals[w] \union {portfolio'[w].realized + portfolio'[w].unrealized}]
    BY <1>5 DEF Fleet!Watch
  <2>2. \A w \in Workers : portfolio'[w].realized + portfolio'[w].unrealized \in Int
    OBVIOUS
  <2>3. totals \in [Workers -> SUBSET Int]
    BY DEF WorkersOK
  <2>4. \A w \in Workers : /\ totals[w] \subseteq totals'[w] /\ Fleet!Total(w)' \in totals'[w]
                           /\ totals'[w] \subseteq Int
    BY <2>1, <2>2, <2>3 DEF Fleet!Total
  <2>5. totals' \in [Workers -> SUBSET Int]
    BY <2>1, <2>4
  <2>6. Asking'
    BY <1>1, <1>5, <2>4 DEF Asking
  <2>7. pool \subseteq Workers
    BY DEF WorkersOK
  <2>8. ReadsOK'
    <3>1. request' = request
      BY <1>1
    <3>2. request.at # None => request.at \in Workers
      BY <1>5, <2>7 DEF RequestShape
    <3>3. DOMAIN request.got \subseteq Workers
      BY <1>5, <2>7 DEF RequestShape
    <3> QED
      BY <1>5, <2>4, <3>1, <3>2, <3>3 DEF ReadsOK
  <2>9. answer' = None
    BY <1>1, <1>5 DEF Asking
  <2>10. Answered'
    BY <2>9 DEF Answered, Fleet!OnlyFailuresAreMissing, Fleet!TotalWasTheirs, Fleet!BestIsNamed
  <2> QED
    BY <1>2, <1>3, <2>5, <2>6, <2>8, <2>10
<1> QED
  BY <1>4, <1>5

(* Results are numbers.                                                    *)
LEMMA Numbers ==
  ASSUME Fleet!FleetAssumption
  PROVE  /\ Prices \subseteq Int /\ Quantity \in Int /\ Fee \in Int
         /\ \A p, q \in Prices : (p - q) * Quantity \in Int /\ (p - q) * Quantity - Fee \in Int
         /\ \A w \in Workers : MaxTrades[w] \in Nat
<1>1. Prices \subseteq Int /\ Quantity \in Int /\ Fee \in Int
  BY DEF Fleet!FleetAssumption
<1>2. ASSUME NEW p \in Prices, NEW q \in Prices PROVE (p - q) * Quantity \in Int
  <2>1. p - q \in Int
    BY <1>1
  <2> QED
    BY <1>1, <2>1
<1>3. \A w \in Workers : MaxTrades[w] \in Nat
  BY DEF Fleet!FleetAssumption
<1> QED
  BY <1>1, <1>2, <1>3

(* A record comes last.                                                    *)
LEMMA RecordKeeps ==
  ASSUME ReportsInv, NEW w \in Workers, NEW side \in {"buy", "sell"},
         NEW price \in Prices \union {0},
         NEW fill \in Prices, Fleet!Record(w, side, price, fill)
  PROVE  /\ records' \in [Workers -> Seq(Trade)]
         /\ Len(records[w]) + 1 \in 1 .. MaxTrades[w]
<1> DEFINE t == [side |-> side, price |-> price, fill |-> fill]
<1>1. records \in [Workers -> Seq(Trade)]
  BY DEF ReportsInv, WorkersOK
<1>2. t \in Trade
  BY DEF Trade
<1>3. Append(records[w], t) \in Seq(Trade)
  BY <1>1, <1>2
<1>4. records' = [records EXCEPT ![w] = Append(records[w], t)]
  BY DEF Fleet!Record
<1>5. records' \in [Workers -> Seq(Trade)]
  <2> HIDE DEF t
  <2> QED
    BY <1>1, <1>3, <1>4
<1>6. Len(records[w]) \in Nat /\ MaxTrades[w] \in Nat /\ Len(records[w]) < MaxTrades[w]
  <2>1. Len(records[w]) \in Nat
    BY <1>1
  <2> QED
    BY <2>1, Numbers DEF Fleet!Record, ReportsInv
<1> QED
  BY <1>5, <1>6

(* A position is closed.                                                   *)
LEMMA ClosedKeeps ==
  ASSUME ReportsInv, NEW w \in Workers, NEW fill \in Prices, position[w] # None,
         Fleet!Closed(w, fill)
  PROVE  /\ portfolio' \in [Workers -> [realized : Int, unrealized : Int]]
         /\ DOMAIN position' = Workers /\ position' = [v \in Workers |-> position'[v]]
         /\ \A v \in Workers : position'[v] # None => position'[v] \in Row(v)
<1>1. position[w] \in Row(w)
  BY DEF ReportsInv, WorkersOK
<1>2. position[w].entry \in Prices
  BY <1>1 DEF Row
<1>3. Fleet!Result(w, fill) \in Int
  BY <1>2, Numbers DEF Fleet!Result, ReportsInv
<1>4. portfolio \in [Workers -> [realized : Int, unrealized : Int]]
  BY DEF ReportsInv, WorkersOK
<1>5. portfolio' = [portfolio EXCEPT ![w].realized = @ + Fleet!Result(w, fill)]
  BY DEF Fleet!Closed
<1>6. \A v \in Workers : portfolio'[v] \in [realized : Int, unrealized : Int]
  BY <1>3, <1>4, <1>5
<1>7. portfolio' \in [Workers -> [realized : Int, unrealized : Int]]
  BY <1>4, <1>5, <1>6
<1>8. position' = [position EXCEPT ![w] = None]
  BY DEF Fleet!Closed
<1>9. /\ DOMAIN position = Workers /\ position = [v \in Workers |-> position[v]]
      /\ \A v \in Workers : position[v] # None => position[v] \in Row(v)
  BY DEF ReportsInv, WorkersOK
<1> QED
  BY <1>7, <1>8, <1>9

(* A step of a worker.                                                     *)
LEMMA WorkerStep ==
  ASSUME ReportsInv, NEW w \in Workers, Fleet!Trades(w) \/ Fleet!Updates(w)
  PROVE  ReportsInv'
<1> USE DEF ReportsInv
<1>1. /\ DOMAIN position = Workers /\ position = [v \in Workers |-> position[v]]
      /\ \A v \in Workers : position[v] # None => position[v] \in Row(v)
      /\ portfolio \in [Workers -> [realized : Int, unrealized : Int]]
      /\ records \in [Workers -> Seq(Trade)]
      /\ DOMAIN update = Workers /\ update = [v \in Workers |-> update[v]]
      /\ \A v \in Workers : Updating(update[v])
  BY DEF WorkersOK
<1> DEFINE PositionOK == /\ DOMAIN position = Workers /\ position = [v \in Workers |-> position[v]]
                         /\ \A v \in Workers : position[v] # None => position[v] \in Row(v)
           UpdateOK == /\ DOMAIN update = Workers /\ update = [v \in Workers |-> update[v]]
                       /\ \A v \in Workers : Updating(update[v])
           PortfolioOK == portfolio \in [Workers -> [realized : Int, unrealized : Int]]
           HistoryOK == records \in [Workers -> Seq(Trade)]
<1>2. ASSUME PositionOK', UpdateOK', PortfolioOK', HistoryOK', Fleet!Watch
      PROVE  ReportsInv'
  BY <1>2, WatchKeeps DEF WorkersOK
<1>3. ASSUME UNCHANGED update PROVE UpdateOK'
  BY <1>1, <1>3
<1>4. ASSUME NEW price \in Prices, NEW fill \in Prices, Fleet!Buy(w, price, fill)
      PROVE  ReportsInv'
  <2>1. HistoryOK' /\ Len(records[w]) + 1 \in 1 .. MaxTrades[w]
    BY <1>4, RecordKeeps DEF Fleet!Buy
  <2>2. [id |-> Len(records[w]) + 1, entry |-> fill, unrealized |-> 0] \in Row(w)
    BY <2>1 DEF Row
  <2>3. PositionOK'
    <3>1. position' = [position EXCEPT ![w] = [id |-> Len(records[w]) + 1, entry |-> fill,
                                               unrealized |-> 0]]
      BY <1>4 DEF Fleet!Buy
    <3>2. position'[w] \in Row(w) /\ \A v \in Workers \ {w} : position'[v] = position[v]
      BY <1>1, <2>2, <3>1
    <3>3. MaxTrades' = MaxTrades
      OBVIOUS
    <3>4. DOMAIN position' = Workers /\ position' = [v \in Workers |-> position'[v]]
      BY <1>1, <3>1
    <3> QED
      BY <1>1, <3>2, <3>4 DEF Row
  <2>4. UNCHANGED <<portfolio, update>> /\ Fleet!Watch
    BY <1>4 DEF Fleet!Buy
  <2> QED
    BY <1>1, <1>2, <1>3, <2>1, <2>3, <2>4
<1>5. ASSUME NEW price \in Prices, NEW fill \in Prices, Fleet!Sell(w, price, fill)
      PROVE  ReportsInv'
  <2>1. HistoryOK'
    BY <1>5, RecordKeeps DEF Fleet!Sell
  <2>2. PositionOK' /\ PortfolioOK'
    <3>1. CASE position[w] = None
      BY <1>1, <1>5, <3>1 DEF Fleet!Sell, Row
    <3>2. CASE position[w] # None
      BY <1>5, <3>2, ClosedKeeps DEF Fleet!Sell, Row
    <3> QED
      BY <3>1, <3>2
  <2>3. UNCHANGED update /\ Fleet!Watch
    BY <1>5 DEF Fleet!Sell
  <2> QED
    BY <1>2, <1>3, <2>1, <2>2, <2>3
<1>6. ASSUME NEW fill \in Prices, Fleet!ForceClose(w, fill)
      PROVE  ReportsInv'
  <2>1. HistoryOK'
    BY <1>6, RecordKeeps DEF Fleet!ForceClose
  <2>2. PositionOK' /\ PortfolioOK'
    BY <1>6, ClosedKeeps DEF Fleet!ForceClose, Row
  <2>3. UNCHANGED update /\ Fleet!Watch
    BY <1>6 DEF Fleet!ForceClose
  <2> QED
    BY <1>2, <1>3, <2>1, <2>2, <2>3
<1>7. ASSUME NEW u, Updating(u), update' = [update EXCEPT ![w] = u]
      PROVE  UpdateOK'
  BY <1>1, <1>7 DEF Updating, Fleet!Idle
<1>8. CASE Fleet!UpdateStarts(w)
  <2> DEFINE u == IF position[w] = None THEN [step |-> "total", sum |-> 0]
                  ELSE [step |-> "row", id |-> position[w].id, entry |-> position[w].entry]
  <2>1. Updating(u)
    <3>1. position[w] # None => position[w].entry \in Prices
      BY <1>1 DEF Row
    <3> QED
      BY <3>1 DEF Updating
  <2>2. update' = [update EXCEPT ![w] = u]
    BY <1>8 DEF Fleet!UpdateStarts
  <2>3. UpdateOK'
    <3> HIDE DEF u
    <3> QED
      BY <1>7, <2>1, <2>2
  <2>4. UNCHANGED <<position, portfolio, records>> /\ Fleet!Watch
    BY <1>8 DEF Fleet!UpdateStarts
  <2> QED
    BY <1>1, <1>2, <2>3, <2>4 DEF Row
<1>9. CASE Fleet!UpdateFails(w)
  <2>1. UpdateOK'
    BY <1>7, <1>9 DEF Fleet!UpdateFails, Updating
  <2>2. UNCHANGED <<position, portfolio, records>> /\ Fleet!Watch
    BY <1>9 DEF Fleet!UpdateFails
  <2> QED
    BY <1>1, <1>2, <2>1, <2>2 DEF Row
<1>10. ASSUME NEW price \in Prices, Fleet!UpdateRow(w, price)
       PROVE  ReportsInv'
  <2> DEFINE pnl == (price - update[w].entry) * Quantity
  <2>1. update[w].entry \in Prices
    <3>1. Updating(update[w]) /\ update[w].step = "row"
      BY <1>1, <1>10 DEF Fleet!UpdateRow
    <3> QED
      BY <3>1 DEF Updating, Fleet!Idle
  <2>2. pnl \in Int
    BY <2>1, Numbers
  <2>3. /\ position' = [position EXCEPT ![w].unrealized = pnl]
        /\ update' = [update EXCEPT ![w] = [step |-> "total", sum |-> pnl]]
    BY <1>10 DEF Fleet!UpdateRow
  <2> HIDE DEF pnl
  <2>4. Updating([step |-> "total", sum |-> pnl])
    BY <2>2 DEF Updating
  <2>5. UpdateOK'
    BY <1>7, <2>3, <2>4
  <2>6. PositionOK'
    <3>1. position[w] \in Row(w)
      BY <1>1, <1>10 DEF Fleet!UpdateRow
    <3>2. [position[w] EXCEPT !.unrealized = pnl] \in Row(w)
      BY <2>2, <3>1 DEF Row
    <3>3. position'[w] \in Row(w)
      BY <1>1, <2>3, <3>2
    <3>4. \A v \in Workers \ {w} : position'[v] = position[v]
      BY <1>1, <2>3
    <3>5. DOMAIN position' = Workers /\ position' = [v \in Workers |-> position'[v]]
      BY <1>1, <2>3
    <3> QED
      BY <1>1, <3>3, <3>4, <3>5 DEF Row
  <2>7. UNCHANGED <<portfolio, records>> /\ Fleet!Watch
    BY <1>10 DEF Fleet!UpdateRow
  <2> QED
    BY <1>1, <1>2, <2>5, <2>6, <2>7
<1>11. CASE Fleet!UpdateTotal(w)
  <2>1. update[w].sum \in Int
    <3>1. Updating(update[w]) /\ update[w].step = "total"
      BY <1>1, <1>11 DEF Fleet!UpdateTotal
    <3> QED
      BY <3>1 DEF Updating, Fleet!Idle
  <2>2. portfolio' = [portfolio EXCEPT ![w].unrealized = update[w].sum]
    BY <1>11 DEF Fleet!UpdateTotal
  <2>3. \A v \in Workers : portfolio'[v] \in [realized : Int, unrealized : Int]
    BY <1>1, <2>1, <2>2
  <2>4. PortfolioOK'
    BY <1>1, <2>2, <2>3
  <2>5. UpdateOK'
    BY <1>7, <1>11 DEF Fleet!UpdateTotal, Updating
  <2>6. UNCHANGED <<position, records>> /\ Fleet!Watch
    BY <1>11 DEF Fleet!UpdateTotal
  <2> QED
    BY <1>1, <1>2, <2>4, <2>5, <2>6 DEF Row
<1> QED
  BY <1>4, <1>5, <1>6, <1>8, <1>9, <1>10, <1>11 DEF Fleet!Trades, Fleet!Updates

(* Connecting a worker happens before anything is asked.                   *)
LEMMA DiscoverStep ==
  ASSUME ReportsInv, NEW w \in Workers, Fleet!Discover(w)
  PROVE  ReportsInv'
<1>0. request = None /\ answer = None
  BY DEF Fleet!Discover, ReportsInv, Asking, Answered
<1>1. UNCHANGED <<position, portfolio, records, update, request, answer, totals>>
  BY DEF Fleet!Discover, Fleet!worker
<1>2. waiting' \subseteq Workers /\ pool' \subseteq Workers \ waiting'
  BY DEF Fleet!Discover, ReportsInv, WorkersOK
<1>3. WorkersOK'
  BY <1>1, <1>2 DEF ReportsInv, WorkersOK, Row
<1>4. Fleet!FleetAssumption'
  BY DEF ReportsInv, Fleet!FleetAssumption
<1> QED
  BY <1>0, <1>1, <1>3, <1>4
     DEF ReportsInv, Asking, RequestShape, Apart, ReadsOK, Answered,
         Fleet!OnlyFailuresAreMissing,
         Fleet!TotalWasTheirs, Fleet!BestIsNamed

(* A step of the master leaves the workers alone.                          *)
LEMMA WorkersUnasked ==
  ASSUME ReportsInv, UNCHANGED <<waiting, pool, position, portfolio, records, update>>,
         totals' \in [Workers -> SUBSET Int]
  PROVE  WorkersOK' /\ Fleet!FleetAssumption'
BY DEF ReportsInv, WorkersOK, Row, Fleet!FleetAssumption

(* A request begins with all of its workers left, and what they have seen. *)
LEMMA AskStep ==
  ASSUME ReportsInv, NEW kind \in {"list", "one", "all"}, NEW ids \in SUBSET pool,
         kind # "one" => ids = pool, Fleet!Ask(kind, ids)
  PROVE  ReportsInv'
<1>1. /\ request' = [kind |-> kind, left |-> ids, at |-> None, call |-> "status",
                     got |-> <<>>, failed |-> {}, books |-> None, trades |-> None]
      /\ answer' = None /\ totals' = [w \in Workers |-> {Fleet!Total(w)}]
      /\ waiting = {}
      /\ UNCHANGED <<waiting, pool, position, portfolio, records, update>>
  BY DEF Fleet!Ask, Fleet!worker
<1>2. \A w \in Workers : Fleet!Total(w) \in Int
  BY DEF ReportsInv, WorkersOK, Fleet!Total
<1>3. WorkersOK' /\ Fleet!FleetAssumption'
  <2>1. totals' \in [Workers -> SUBSET Int]
    BY <1>1, <1>2
  <2> QED
    BY <1>1, <2>1, WorkersUnasked
<1>4. Asking'
  <2>1. \A w \in Workers : Fleet!Total(w)' = Fleet!Total(w) /\ totals'[w] = {Fleet!Total(w)}
    BY <1>1 DEF Fleet!Total
  <2> QED
    BY <1>1, <2>1 DEF Asking
<1>5. DOMAIN <<>> = {} /\ <<>> = [w \in DOMAIN <<>> |-> <<>>[w]]
  OBVIOUS
<1>6. RequestShape'
  BY <1>1, <1>5 DEF RequestShape
<1>7. Apart' /\ ReadsOK'
  BY <1>1, <1>5 DEF Apart, ReadsOK, Called
<1>8. Answered'
  BY <1>1 DEF Answered, Fleet!OnlyFailuresAreMissing, Fleet!TotalWasTheirs, Fleet!BestIsNamed
<1> QED
  BY <1>3, <1>4, <1>6, <1>7, <1>8 DEF ReportsInv

(* A step of the master that goes on with its request: what is left to     *)
(* show is that the request is as it should be.                            *)
LEMMA RequestGoesOn ==
  ASSUME ReportsInv, request # None, UNCHANGED <<waiting, pool, Fleet!worker, answer, totals>>
  PROVE  /\ WorkersOK' /\ Fleet!FleetAssumption' /\ Asking' /\ Answered'
         /\ pool' = pool /\ totals' = totals /\ answer' = None
<1>1. UNCHANGED <<waiting, pool, position, portfolio, records, update, answer, totals>>
  BY DEF Fleet!worker
<1>2. WorkersOK' /\ Fleet!FleetAssumption'
  <2>1. totals' \in [Workers -> SUBSET Int]
    BY <1>1 DEF ReportsInv, WorkersOK
  <2> QED
    BY <1>1, <2>1, WorkersUnasked
<1>3. answer' = None /\ waiting' = {}
  BY <1>1 DEF ReportsInv, Asking
<1>4. Asking'
  BY <1>1, <1>3 DEF ReportsInv, Asking, Fleet!Total
<1>5. Answered'
  BY <1>3 DEF Answered, Fleet!OnlyFailuresAreMissing, Fleet!TotalWasTheirs, Fleet!BestIsNamed
<1> QED
  BY <1>1, <1>2, <1>3, <1>4, <1>5

(* list_workers: a worker answers, or does not.                            *)
LEMMA ListStep ==
  ASSUME ReportsInv, NEW w \in Workers, Fleet!GetStatus(w) \/ Fleet!StatusFails(w)
  PROVE  ReportsInv'
<1> USE DEF ReportsInv
<1>1. /\ request # None /\ request.kind = "list" /\ w \in request.left
      /\ UNCHANGED <<waiting, pool, Fleet!worker, answer, totals>>
  BY DEF Fleet!GetStatus, Fleet!StatusFails
<1>2. WorkersOK' /\ Fleet!FleetAssumption' /\ Asking' /\ Answered' /\ pool' = pool
  BY <1>1, RequestGoesOn
<1>3. w \in pool
  BY <1>1 DEF RequestShape
<1>4. CASE Fleet!GetStatus(w)
  <2> DEFINE got == [v \in DOMAIN request.got \union {w} |->
                       IF v = w THEN position[w] # None ELSE request.got[v]]
  <2>1. request' = [request EXCEPT !.left = request.left \ {w}, !.got = got]
    BY <1>4 DEF Fleet!GetStatus
  <2>2. DOMAIN got = DOMAIN request.got \union {w} /\ got = [v \in DOMAIN got |-> got[v]]
    OBVIOUS
  <2> HIDE DEF got
  <2>3. RequestShape'
    BY <1>1, <1>2, <1>3, <2>1, <2>2 DEF RequestShape
  <2>4. Apart' /\ ReadsOK'
    BY <1>1, <1>2, <1>3, <2>1, <2>2 DEF RequestShape, Apart, ReadsOK, Called
  <2> QED
    BY <1>2, <2>3, <2>4
<1>5. CASE Fleet!StatusFails(w)
  <2>1. request' = [request EXCEPT !.left = request.left \ {w}, !.failed = request.failed \union {w}]
    BY <1>5 DEF Fleet!StatusFails
  <2>2. RequestShape'
    BY <1>1, <1>2, <1>3, <2>1 DEF RequestShape
  <2>3. Apart' /\ ReadsOK'
    BY <1>1, <1>2, <1>3, <2>1 DEF RequestShape, Apart, ReadsOK, Called
  <2> QED
    BY <1>2, <2>2, <2>3
<1> QED
  BY <1>4, <1>5

(* The reports: a worker is called, and its four calls are answered.       *)
LEMMA NextWorkerStep ==
  ASSUME ReportsInv, NEW w \in Workers, Fleet!NextWorker(w)
  PROVE  ReportsInv'
<1> USE DEF ReportsInv
<1>1. /\ request # None /\ request.kind # "list" /\ request.at = None /\ w \in request.left
      /\ request' = [request EXCEPT !.left = request.left \ {w}, !.at = w, !.call = "status"]
      /\ UNCHANGED <<waiting, pool, Fleet!worker, answer, totals>>
  BY DEF Fleet!NextWorker
<1>2. /\ WorkersOK' /\ Fleet!FleetAssumption' /\ Asking' /\ Answered'
      /\ pool' = pool /\ totals' = totals
  BY <1>1, RequestGoesOn
<1>3. w \in pool /\ w # None
  BY <1>1 DEF RequestShape, Fleet!FleetAssumption
<1>4. RequestShape'
  BY <1>1, <1>2, <1>3 DEF RequestShape
<1>5. Apart' /\ ReadsOK'
  BY <1>1, <1>2, <1>3 DEF RequestShape, Apart, ReadsOK, Called
<1> QED
  BY <1>2, <1>4, <1>5

(* Who is where depends on a few fields of the request.                    *)
LEMMA ApartStays ==
  ASSUME Apart, request # None, pool' = pool, request'.kind = request.kind,
         request'.left = request.left,
         \/ /\ request'.at = request.at /\ request'.failed = request.failed
            /\ DOMAIN request'.got = DOMAIN request.got
         \/ /\ request.at # None /\ request'.at = None /\ request'.failed = request.failed
            /\ DOMAIN request'.got = DOMAIN request.got \union {request.at}
         \/ /\ request.at # None /\ request'.at = None
            /\ request'.failed = request.failed \union {request.at}
            /\ DOMAIN request'.got = DOMAIN request.got
  PROVE  Apart'
BY DEF Apart, Called

(* The reads before the last one change the worker that is called by       *)
(* nothing but what was read of it.                                        *)
LEMMA ReadStep ==
  ASSUME ReportsInv, Fleet!ReadStatus \/ Fleet!ReadPortfolio \/ Fleet!ReadTrades
  PROVE  ReportsInv'
<1> USE DEF ReportsInv
<1>1. /\ request # None /\ request.at # None
      /\ UNCHANGED <<waiting, pool, Fleet!worker, answer, totals>>
  BY DEF Fleet!ReadStatus, Fleet!ReadPortfolio, Fleet!ReadTrades, Fleet!Calling
<1>2. /\ WorkersOK' /\ Fleet!FleetAssumption' /\ Asking' /\ Answered'
      /\ pool' = pool /\ totals' = totals
  BY <1>1, RequestGoesOn
<1>3. request.at \in Workers
  BY <1>1 DEF RequestShape, WorkersOK
<1>4. CASE Fleet!ReadStatus
  <2>1. request' = [request EXCEPT !.call = "portfolio"]
    BY <1>4 DEF Fleet!ReadStatus
  <2>2. RequestShape' /\ Apart' /\ ReadsOK'
    BY <1>1, <1>2, <2>1 DEF RequestShape, Apart, ReadsOK, Called
  <2> QED
    BY <1>2, <2>2
<1>5. CASE Fleet!ReadPortfolio
  <2>1. request' = [request EXCEPT !.call = "trades", !.books = portfolio[request.at]]
    BY <1>5 DEF Fleet!ReadPortfolio
  <2>2. portfolio[request.at] \in [realized : Int, unrealized : Int]
    BY <1>3 DEF WorkersOK
  <2>3. portfolio[request.at].realized + portfolio[request.at].unrealized \in totals[request.at]
    BY <1>1, <1>3 DEF Asking, Fleet!Total
  <2>4. RequestShape'
    BY <1>1, <1>2, <2>1 DEF RequestShape
  <2>6. Apart'
    BY <1>1, <1>2, <2>1, ApartStays DEF RequestShape
  <2>5. ReadsOK'
    BY <1>1, <1>2, <2>1, <2>2, <2>3 DEF RequestShape, ReadsOK
  <2> QED
    BY <1>2, <2>4, <2>5, <2>6
<1>6. CASE Fleet!ReadTrades
  <2>1. /\ request' = [request EXCEPT !.call = "predictions", !.trades = Fleet!Latest(request.at)]
        /\ request.call = "trades"
    BY <1>6 DEF Fleet!ReadTrades, Fleet!Calling
  <2>2. RequestShape'
    BY <1>1, <1>2, <2>1 DEF RequestShape
  <2>4. Apart'
    BY <1>1, <1>2, <2>1, ApartStays DEF RequestShape
  <2>3. ReadsOK'
    BY <1>1, <1>2, <2>1 DEF RequestShape, ReadsOK
  <2> QED
    BY <1>2, <2>2, <2>3, <2>4
<1> QED
  BY <1>4, <1>5, <1>6

(* What the report's total is.                                             *)
LEMMA ReportTotal ==
  ASSUME NEW w, NEW books, NEW trades
  PROVE  Fleet!Report(w, books, trades).total = books.realized + books.unrealized
BY DEF Fleet!Report

(* With the last read the worker has its report.                           *)
LEMMA ReportStep ==
  ASSUME ReportsInv, Fleet!ReadPredictions
  PROVE  ReportsInv'
<1> USE DEF ReportsInv
<1> DEFINE w == request.at
           got == [v \in DOMAIN request.got \union {w} |->
                     IF v = w THEN Fleet!Report(w, request.books, request.trades) ELSE request.got[v]]
<1>1. /\ request # None /\ request.at # None /\ request.call = "predictions"
      /\ request' = [request EXCEPT !.at = None, !.call = "status", !.got = got,
                                    !.failed = request.failed, !.books = None, !.trades = None]
      /\ UNCHANGED <<waiting, pool, Fleet!worker, answer, totals>>
  BY DEF Fleet!ReadPredictions, Fleet!Calling, Fleet!Proceed
<1>2. /\ WorkersOK' /\ Fleet!FleetAssumption' /\ Asking' /\ Answered'
      /\ pool' = pool /\ totals' = totals
  BY <1>1, RequestGoesOn
<1>3. w \in pool
  BY <1>1 DEF RequestShape
<1>4. /\ DOMAIN got = DOMAIN request.got \union {w}
      /\ got = [v \in DOMAIN got |-> got[v]]
      /\ got[w].total = request.books.realized + request.books.unrealized
      /\ \A v \in DOMAIN request.got : v # w => got[v] = request.got[v]
  BY ReportTotal
<1> HIDE DEF got
<1>5. RequestShape' /\ Apart'
  <2>1. RequestShape'
    BY <1>1, <1>2, <1>3, <1>4 DEF RequestShape
  <2>2. /\ request'.kind = request.kind /\ request'.left = request.left /\ request'.at = None
        /\ request'.failed = request.failed /\ request'.got = got
    BY <1>1 DEF RequestShape
  <2> QED
    BY <1>1, <1>2, <1>4, <2>1, <2>2, ApartStays
<1>6. ReadsOK'
  <2>1. /\ request'.kind = request.kind /\ request'.at = None /\ request'.got = got
    BY <1>1 DEF RequestShape
  <2> QED
    BY <1>1, <1>2, <1>4, <2>1 DEF ReadsOK
<1> QED
  BY <1>2, <1>5, <1>6

(* A call that fails moves the worker to those that failed.                *)
LEMMA CallFailsStep ==
  ASSUME ReportsInv, Fleet!CallFails
  PROVE  ReportsInv'
<1> USE DEF ReportsInv
<1>1. /\ request # None /\ request.at # None
      /\ request' = [request EXCEPT !.at = None, !.call = "status", !.got = request.got,
                                    !.failed = request.failed \union {request.at},
                                    !.books = None, !.trades = None]
      /\ UNCHANGED <<waiting, pool, Fleet!worker, answer, totals>>
  BY DEF Fleet!CallFails, Fleet!Proceed
<1>2. /\ WorkersOK' /\ Fleet!FleetAssumption' /\ Asking' /\ Answered'
      /\ pool' = pool /\ totals' = totals
  BY <1>1, RequestGoesOn
<1>3. RequestShape' /\ Apart'
  <2>1. RequestShape'
    BY <1>1, <1>2 DEF RequestShape
  <2>2. /\ request'.kind = request.kind /\ request'.left = request.left /\ request'.at = None
        /\ request'.failed = request.failed \union {request.at} /\ request'.got = request.got
    BY <1>1 DEF RequestShape
  <2> QED
    BY <1>1, <1>2, <2>1, <2>2, ApartStays
<1>4. ReadsOK'
  BY <1>1, <1>2 DEF RequestShape, ReadsOK
<1> QED
  BY <1>2, <1>3, <1>4

(* The answer: of equals, any may be the best.                             *)
LEMMA AnswerStep ==
  ASSUME ReportsInv, Fleet!Answer
  PROVE  ReportsInv'
<1> USE DEF ReportsInv
<1>1. /\ request # None /\ request.left = {} /\ request.at = None
      /\ request' = None
      /\ UNCHANGED <<waiting, pool, Fleet!worker, totals>>
  BY DEF Fleet!Answer
<1>2. PICK best : /\ request.kind = "all" /\ Fleet!Best(request.got) # {} =>
                        best \in Fleet!Best(request.got)
                  /\ answer' = [kind |-> request.kind, workers |-> request.got,
                                failed |-> request.failed, best |-> best]
  BY DEF Fleet!Answer
<1>3. WorkersOK' /\ Fleet!FleetAssumption'
  <2>1. totals' \in [Workers -> SUBSET Int] /\ UNCHANGED <<position, portfolio, records, update>>
    BY <1>1 DEF WorkersOK, Fleet!worker
  <2> QED
    BY <1>1, <2>1, WorkersUnasked
<1>4. Asking' /\ RequestShape' /\ Apart' /\ ReadsOK'
  BY <1>1 DEF Asking, RequestShape, Apart, ReadsOK
<1>5. waiting' = {} /\ DOMAIN answer'.workers \subseteq pool'
  BY <1>1, <1>2 DEF Asking, RequestShape
<1>6. Fleet!OnlyFailuresAreMissing'
  BY <1>1, <1>2 DEF Fleet!OnlyFailuresAreMissing, Apart, Called
<1>7. Fleet!TotalWasTheirs'
  BY <1>1, <1>2 DEF Fleet!TotalWasTheirs, ReadsOK
<1>8. Fleet!BestIsNamed'
  <2> DEFINE got == request.got
  <2> SUFFICES ASSUME request.kind = "all", got # <<>>
               PROVE  /\ best \in DOMAIN got
                      /\ \A w \in DOMAIN got : got[w].total <= got[best].total
    BY <1>2 DEF Fleet!BestIsNamed
  <2>1. got = [w \in DOMAIN got |-> got[w]] /\ DOMAIN got \subseteq pool
    BY <1>1 DEF RequestShape
  <2>2. DOMAIN got # {}
    <3> HIDE DEF got
    <3> QED
      BY <2>1, NoArguments
  <2>3. IsFiniteSet(DOMAIN got)
    <3>1. DOMAIN got \subseteq Workers /\ IsFiniteSet(Workers)
      BY <2>1 DEF WorkersOK, Fleet!FleetAssumption, Fleet!IsFiniteSet, IsFiniteSet
    <3> QED
      BY <3>1, FS_Subset
  <2> DEFINE f == [w \in DOMAIN got |-> got[w].total]
  <2>4. \A w \in DOMAIN got : f[w] \in Int
    <3>1. \A w \in DOMAIN got : got[w].total \in totals[w]
      BY <1>1 DEF ReadsOK
    <3>2. \A w \in DOMAIN got : w \in Workers
      BY <2>1 DEF WorkersOK
    <3>3. \A w \in DOMAIN got : totals[w] \subseteq Int
      BY <3>2 DEF WorkersOK
    <3> QED
      BY <3>1, <3>3
  <2>5. \E x \in DOMAIN got : \A y \in DOMAIN got : f[y] <= f[x]
    <3> HIDE DEF f, got
    <3> QED
      BY <2>2, <2>3, <2>4, BestExists
  <2>6. Fleet!Best(got) # {}
    BY <2>5 DEF Fleet!Best
  <2>7. best \in Fleet!Best(got)
    BY <1>2, <2>6
  <2> QED
    BY <2>7 DEF Fleet!Best
<1> QED
  BY <1>3, <1>4, <1>5, <1>6, <1>7, <1>8 DEF Answered

(* Before anything is asked, there is nothing to answer for.               *)
LEMMA InitReports == ASSUME Fleet!FleetAssumption, Fleet!Init PROVE ReportsInv
<1>1. WorkersOK
  <2>1. /\ waiting = Workers /\ pool = {}
        /\ position = [w \in Workers |-> None]
        /\ portfolio = [w \in Workers |-> [realized |-> 0, unrealized |-> 0]]
        /\ records = [w \in Workers |-> <<>>]
        /\ update = [w \in Workers |-> Fleet!Idle]
        /\ totals = [w \in Workers |-> {}]
    BY DEF Fleet!Init
  <2> QED
    BY <2>1 DEF WorkersOK, Updating
<1>2. request = None /\ answer = None
  BY DEF Fleet!Init
<1> QED
  BY <1>1, <1>2
     DEF ReportsInv, Asking, RequestShape, Apart, ReadsOK, Answered,
         Fleet!OnlyFailuresAreMissing,
         Fleet!TotalWasTheirs, Fleet!BestIsNamed

(* Every step of the master and of the workers keeps the invariant.        *)
LEMMA NextReports == ASSUME ReportsInv, [Fleet!Next]_Fleet!vars PROVE ReportsInv'
<1>1. CASE Fleet!Handlers
  <2>1. ASSUME NEW w \in pool, Fleet!Ask("one", {w}) PROVE ReportsInv'
    BY <2>1, AskStep
  <2>2. CASE Fleet!Ask("list", pool) \/ Fleet!Ask("all", pool)
    BY <2>2, AskStep
  <2>3. CASE Fleet!ReadStatus \/ Fleet!ReadPortfolio \/ Fleet!ReadTrades
    BY <2>3, ReadStep
  <2>4. ASSUME NEW w \in Workers, Fleet!GetStatus(w) \/ Fleet!StatusFails(w) \/ Fleet!NextWorker(w)
        PROVE  ReportsInv'
    BY <2>4, ListStep, NextWorkerStep
  <2> QED
    BY <1>1, <2>1, <2>2, <2>3, <2>4, ReportStep, CallFailsStep, AnswerStep DEF Fleet!Handlers
<1>2. ASSUME NEW w \in Workers, Fleet!Discover(w) \/ Fleet!Trades(w) \/ Fleet!Updates(w)
      PROVE  ReportsInv'
  BY <1>2, DiscoverStep, WorkerStep
<1>3. CASE UNCHANGED Fleet!vars
  <2>1. UNCHANGED <<waiting, pool, position, portfolio, records, update, request, answer, totals>>
    BY <1>3 DEF Fleet!vars
  <2>2. WorkersOK' /\ Fleet!FleetAssumption'
    BY <2>1, WorkersUnasked DEF ReportsInv, WorkersOK
  <2> QED
    BY <2>1, <2>2
       DEF ReportsInv, Asking, RequestShape, Apart, Called, ReadsOK, Answered, Fleet!Total,
           Fleet!OnlyFailuresAreMissing, Fleet!TotalWasTheirs, Fleet!BestIsNamed
<1> QED
  BY <1>1, <1>2, <1>3 DEF Fleet!Next

(* So the invariant always holds.                                          *)
LEMMA ReportsKept == ASSUME Fleet!FleetAssumption PROVE Fleet!Spec => []ReportsInv
<1>1. Fleet!Init => ReportsInv
  BY InitReports
<1>2. ReportsInv /\ [Fleet!Next]_Fleet!vars => ReportsInv'
  BY NextReports
<1> QED
  BY <1>1, <1>2, PTL DEF Fleet!Spec

(* The types of FleetReports, for any number of workers that trade and     *)
(* update while the master reads.                                          *)
THEOREM ReportsTypeCorrect == ASSUME Fleet!FleetAssumption PROVE Fleet!Spec => []Fleet!TypeOK
<1>1. ReportsInv => Fleet!TypeOK
  <2> SUFFICES ASSUME ReportsInv PROVE Fleet!TypeOK
    OBVIOUS
  <2>1. \A w \in Workers :
            /\ Updating(update[w])
            /\ portfolio[w] \in [realized : Int, unrealized : Int]
    BY DEF ReportsInv, WorkersOK
  <2>2. \A w \in Workers : update[w].step \in {"idle", "row", "total"}
    <3>1. ASSUME NEW u, Updating(u) PROVE u.step \in {"idle", "row", "total"}
      BY <3>1 DEF Updating, Fleet!Idle
    <3> QED
      BY <2>1, <3>1
  <2>3. \A w \in Workers : \A i \in DOMAIN records[w] : records[w][i].price \in Prices \union {0}
    <3>1. \A w \in Workers : records[w] \in Seq(Trade)
      BY DEF ReportsInv, WorkersOK
    <3>2. \A w \in Workers : \A i \in DOMAIN records[w] : records[w][i] \in Trade
      BY <3>1
    <3> QED
      BY <3>2 DEF Trade
  <2>4. waiting \subseteq Workers /\ pool \subseteq Workers \ waiting
    BY DEF ReportsInv, WorkersOK
  <2>5. \A w \in Workers : position[w] # None =>
            position[w] \in [id : 1 .. MaxTrades[w], entry : Prices, unrealized : Int]
    BY DEF ReportsInv, WorkersOK, Row
  <2>6. request # None => request.at \notin request.left
    <3> SUFFICES ASSUME request # None PROVE request.at \notin request.left
      OBVIOUS
    <3>1. request.left \subseteq Workers /\ None \notin Workers
      BY <2>4 DEF ReportsInv, RequestShape, Fleet!FleetAssumption
    <3>2. request.left \intersect Called = {}
      BY DEF ReportsInv, Apart
    <3> QED
      BY <3>1, <3>2 DEF Called
  <2>7. request # None =>
          /\ request.kind \in {"list", "one", "all"}
          /\ request.left \union request.failed \union DOMAIN request.got \subseteq pool
          /\ request.at \in pool \union {None}
    BY DEF ReportsInv, RequestShape
  <2>8. answer # None => DOMAIN answer.workers \subseteq pool
    BY DEF ReportsInv, Answered
  <2> QED
    BY <2>1, <2>2, <2>3, <2>4, <2>5, <2>6, <2>7, <2>8 DEF Fleet!TypeOK
<1> QED
  BY <1>1, ReportsKept, PTL

(* A worker that does not answer costs its own report and no other, with   *)
(* any number of workers and any of them failing                           *)
(* (get_aggregate_performance and list_workers).                           *)
THEOREM OnlyFailuresAlwaysMissing ==
  ASSUME Fleet!FleetAssumption
  PROVE  Fleet!Spec => []Fleet!OnlyFailuresAreMissing
<1>1. ReportsInv => Fleet!OnlyFailuresAreMissing
  BY DEF ReportsInv, Answered
<1> QED
  BY <1>1, ReportsKept, PTL

(* The total that is reported is one that the worker had during the        *)
(* request, however it trades between the calls (with_worker).             *)
THEOREM TotalAlwaysTheirs ==
  ASSUME Fleet!FleetAssumption
  PROVE  Fleet!Spec => []Fleet!TotalWasTheirs
<1>1. ReportsInv => Fleet!TotalWasTheirs
  BY DEF ReportsInv, Answered
<1> QED
  BY <1>1, ReportsKept, PTL

(* Whenever somebody reports, there is a best worker in the report, and    *)
(* nobody in it has earned more (get_aggregate_performance).               *)
THEOREM BestAlwaysNamed == ASSUME Fleet!FleetAssumption PROVE Fleet!Spec => []Fleet!BestIsNamed
<1>1. ReportsInv => Fleet!BestIsNamed
  BY DEF ReportsInv, Answered
<1> QED
  BY <1>1, ReportsKept, PTL
-----------------------------------------------------------------------------
(* The drawdown of a report (compute_max_drawdown).                        *)

\* What one record has cost, and what the records i to j of h have cost.
Cost(t) == IF t.side # "sell" THEN 0 ELSE Fee - (t.fill - t.price) * Quantity
CostsOf(h) == [i \in DOMAIN h |-> Cost(h[i])]
RunCost(h, i, j) == Total(CostsOf(h), i .. j)

\* d is the most that a run of the records a to b of h has cost.
IsWorst(d, h, a, b) ==
    /\ d \in Int /\ 0 <= d
    /\ \A i, j \in a .. b : RunCost(h, i, j) <= d
    /\ d = 0 \/ \E i, j \in a .. b : RunCost(h, i, j) = d

\* t is what the master reads when h has k records: the latest of them first.
FirstOf(k) == IF k <= Page THEN 1 ELSE k - Page + 1
PageOf(t, h, k) ==
    /\ k \in 0 .. Len(h) /\ t \in Seq(Trade)
    /\ Len(t) = k - FirstOf(k) + 1
    /\ \A x \in 1 .. Len(t) : t[x] = h[k + 1 - x]

(* A record costs a number.                                                *)
LEMMA CostType ==
  ASSUME Fleet!FleetAssumption
  PROVE  /\ \A t \in Trade : Cost(t) \in Int
         /\ \A h \in Seq(Trade) : \A i \in 1 .. Len(h) : CostsOf(h)[i] = Cost(h[i]) /\ Cost(h[i]) \in Int
<1>1. ASSUME NEW t \in Trade PROVE Cost(t) \in Int
  <2>1. t.fill \in Int /\ t.price \in Int
    BY Numbers DEF Trade
  <2>2. t.fill - t.price \in Int /\ Quantity \in Int /\ Fee \in Int
    BY <2>1, Numbers
  <2>3. (t.fill - t.price) * Quantity \in Int
    BY <2>2
  <2> QED
    BY <2>2, <2>3 DEF Cost
<1>2. ASSUME NEW h \in Seq(Trade), NEW i \in 1 .. Len(h)
      PROVE  CostsOf(h)[i] = Cost(h[i]) /\ Cost(h[i]) \in Int
  <2>1. i \in DOMAIN h /\ h[i] \in Trade
    OBVIOUS
  <2> QED
    BY <1>1, <2>1 DEF CostsOf
<1> QED
  BY <1>1, <1>2

(* A run costs a number, and nothing when there is no record in it.        *)
LEMMA RunCostType ==
  ASSUME Fleet!FleetAssumption, NEW h \in Seq(Trade)
  PROVE  /\ \A i, j \in Int : 1 <= i /\ j <= Len(h) => RunCost(h, i, j) \in Int
         /\ \A i, j \in Int : j < i => RunCost(h, i, j) = 0
<1>1. ASSUME NEW i \in Int, NEW j \in Int, 1 <= i, j <= Len(h) PROVE RunCost(h, i, j) \in Int
  <2>1. IsFiniteSet(i .. j)
    BY FS_Interval
  <2>2. \A x \in i .. j : CostsOf(h)[x] \in Int
    BY <1>1, CostType
  <2> QED
    BY <2>1, <2>2, TotalType DEF RunCost
<1>2. ASSUME NEW i \in Int, NEW j \in Int, j < i PROVE RunCost(h, i, j) = 0
  <2>1. i .. j = {}
    BY <1>2
  <2> QED
    BY <2>1, TotalEmpty DEF RunCost
<1> QED
  BY <1>1, <1>2

(* A run costs what its first record and the others cost.                  *)
LEMMA RunCostFirst ==
  ASSUME Fleet!FleetAssumption, NEW h \in Seq(Trade),
         NEW i \in Int, NEW j \in Int, 1 <= i, i <= j, j <= Len(h)
  PROVE  RunCost(h, i, j) = Cost(h[i]) + RunCost(h, i + 1, j)
<1>1. IsFiniteSet((i + 1) .. j)
  BY FS_Interval
<1>2. i .. j = ((i + 1) .. j) \cup {i} /\ i \notin (i + 1) .. j
  OBVIOUS
<1>3. i \in 1 .. Len(h) /\ \A x \in ((i + 1) .. j) \cup {i} : x \in 1 .. Len(h)
  OBVIOUS
<1>4. CostsOf(h)[i] = Cost(h[i]) /\ \A x \in ((i + 1) .. j) \cup {i} : CostsOf(h)[x] \in Int
  BY <1>3, CostType
<1>5. Total(CostsOf(h), ((i + 1) .. j) \cup {i}) = CostsOf(h)[i] + Total(CostsOf(h), (i + 1) .. j)
  BY <1>1, <1>2, <1>4, TotalAdd
<1> QED
  BY <1>2, <1>4, <1>5 DEF RunCost

(* A run up to k costs what its records up to j and those after j cost.    *)
LEMMA RunCostSplits ==
  ASSUME Fleet!FleetAssumption, NEW h \in Seq(Trade),
         NEW j \in Int, NEW k \in Int, j <= k, k <= Len(h)
  PROVE  \A i \in Int : 1 <= i /\ i <= j + 1 =>
             RunCost(h, i, k) = RunCost(h, i, j) + RunCost(h, j + 1, k)
<1> DEFINE Splits(i) == 1 <= i => RunCost(h, i, k) = RunCost(h, i, j) + RunCost(h, j + 1, k)
           P == {n \in Nat : Splits(j + 1 - n)}
<1>1. 0 \in P
  <2> SUFFICES ASSUME 1 <= j + 1 PROVE Splits(j + 1)
    OBVIOUS
  <2>1. RunCost(h, j + 1, j) = 0 /\ RunCost(h, j + 1, k) \in Int
    BY RunCostType
  <2> QED
    BY <2>1
<1>2. ASSUME NEW n \in Nat, n \in P PROVE n + 1 \in P
  <2> DEFINE i == j - n
  <2>0. i \in Int /\ i + 1 = j + 1 - n /\ i = j + 1 - (n + 1) /\ i <= j
    OBVIOUS
  <2> SUFFICES ASSUME 1 <= i PROVE Splits(i)
    BY <2>0
  <2> HIDE DEF i
  <2>1. Splits(i + 1)
    BY <1>2, <2>0
  <2>2. RunCost(h, i, k) = Cost(h[i]) + RunCost(h, i + 1, k)
    BY <2>0, RunCostFirst
  <2>3. RunCost(h, i, j) = Cost(h[i]) + RunCost(h, i + 1, j)
    BY <2>0, RunCostFirst
  <2>4. /\ RunCost(h, i + 1, j) \in Int /\ RunCost(h, j + 1, k) \in Int
        /\ RunCost(h, i + 1, k) = RunCost(h, i + 1, j) + RunCost(h, j + 1, k)
    BY <2>0, <2>1, RunCostType
  <2>5. Cost(h[i]) \in Int
    BY <2>0, CostType
  <2> QED
    BY <2>2, <2>3, <2>4, <2>5
<1> HIDE DEF P
<1>3. Nat \subseteq P
  BY <1>1, <1>2, InductiveSet
<1>4. ASSUME NEW i \in Int, 1 <= i, i <= j + 1 PROVE Splits(i)
  <2>1. j + 1 - i \in Nat /\ j + 1 - (j + 1 - i) = i
    BY <1>4
  <2>2. j + 1 - i \in P
    BY <1>3, <2>1
  <2> QED
    BY <2>1, <2>2 DEF P
<1> QED
  BY <1>4

(* The worst run is what DrawdownIsWorstRun says it is.                    *)
LEMMA WorstIsMax ==
  ASSUME NEW w \in Workers, NEW a, NEW b, NEW d, IsWorst(d, records[w], a, b),
         \A i, j \in a .. b : RunCost(records[w], i, j) \in Int
  PROVE  d = Fleet!WorstRun(w, a, b)
<1> DEFINE S == {0} \union {RunCost(records[w], i, j) : i, j \in a .. b}
<1>1. Fleet!Costs(w) = CostsOf(records[w])
  BY DEF Fleet!Costs, CostsOf, Cost
<1> DEFINE T == {0} \union {Total(Fleet!Costs(w), i .. j) : i, j \in a .. b}
<1>2. Fleet!WorstRun(w, a, b) = CHOOSE x \in T : \A y \in T : x >= y
  BY DEF Fleet!WorstRun, Fleet!Max, Fleet!MapThenSumSet, Fleet!MapThenFoldSet,
         Total, MapThenSumSet, MapThenFoldSet
<1>3. Fleet!WorstRun(w, a, b) = CHOOSE x \in S : \A y \in S : x >= y
  BY <1>1, <1>2 DEF RunCost
<1>4. d \in S /\ \A y \in S : d >= y /\ y \in Int
  BY DEF IsWorst
<1>5. \A x \in S : (\A y \in S : x >= y) => x = d
  <2> HIDE DEF S
  <2> QED
    BY <1>4
<1> QED
  <2> HIDE DEF S
  <2> QED
    BY <1>3, <1>4, <1>5

\* g is a table of what compute_max_drawdown has after the first m of the trades t.
Losses(g, t, n) ==
    g = [m \in 0 .. n |-> IF m = 0 THEN Fleet!NoneSeen ELSE Fleet!OneMore(g[m - 1], t[m])]

(* The recursion of MaxDrawdown has a table, whatever the trades.          *)
LEMMA LossesExist ==
  ASSUME NEW t
  PROVE  \A n \in Nat : \E g : Losses(g, t, n)
<1> DEFINE P == {n \in Nat : \E g : Losses(g, t, n)}
<1>1. 0 \in P
  <2> DEFINE g == [m \in 0 .. 0 |-> Fleet!NoneSeen]
  <2>1. Losses(g, t, 0)
    BY DEF Losses
  <2> QED
    BY <2>1
<1>2. ASSUME NEW n \in Nat, n \in P PROVE n + 1 \in P
  <2>1. PICK g : Losses(g, t, n)
    BY <1>2
  <2> DEFINE h == [m \in 0 .. n + 1 |->
                     IF m = 0 THEN Fleet!NoneSeen ELSE Fleet!OneMore(g[m - 1], t[m])]
  <2>2. ASSUME NEW m \in 0 .. n PROVE h[m] = g[m]
    <3>1. g[m] = IF m = 0 THEN Fleet!NoneSeen ELSE Fleet!OneMore(g[m - 1], t[m])
      BY <2>1 DEF Losses
    <3>2. m \in 0 .. n + 1
      OBVIOUS
    <3> QED
      BY <3>1, <3>2
  <2>3. ASSUME NEW m \in 0 .. n + 1, m # 0 PROVE h[m - 1] = g[m - 1]
    <3>1. m - 1 \in 0 .. n
      BY <2>3
    <3> HIDE DEF h
    <3> QED
      BY <2>2, <3>1
  <2>4. h = [m \in 0 .. n + 1 |->
               IF m = 0 THEN Fleet!NoneSeen ELSE Fleet!OneMore(h[m - 1], t[m])]
    BY <2>3
  <2>5. Losses(h, t, n + 1)
    <3> HIDE DEF h
    <3> QED
      BY <2>4 DEF Losses
  <2> QED
    BY <2>5
<1> HIDE DEF P
<1>3. Nat \subseteq P
  BY <1>1, <1>2, InductiveSet
<1> QED
  BY <1>3 DEF P

\* The loop has come down to the record lo, from the record k: s[i] is what the records
\* i to k have cost, and s[k + 1] is nothing.
LoopAt(d, s, lo, k) ==
    /\ d = [cumulative |-> d.cumulative, peak |-> d.peak, drawdown |-> d.drawdown]
    /\ d.cumulative = - s[lo] /\ d.peak \in Int /\ d.drawdown \in Int
    /\ \A i \in lo .. k + 1 : - s[i] <= d.peak
    /\ \E i \in lo .. k + 1 : - s[i] = d.peak
    /\ \A i, j \in lo .. k + 1 : i <= j => s[i] - s[j] <= d.drawdown
    /\ \E i, j \in lo .. k + 1 : i <= j /\ s[i] - s[j] = d.drawdown

(* The greater of two numbers.                                             *)
LEMMA GreaterOfTwo ==
  ASSUME NEW x \in Int, NEW y \in Int
  PROVE  Fleet!Max({x, y}) = IF x <= y THEN y ELSE x
BY DEF Fleet!Max

(* The peak is no lower than it was, nor than the sum.                     *)
LEMMA AtThePeak ==
  ASSUME NEW x \in Int, NEW y \in Int, NEW p, p = IF x <= - y THEN - y ELSE x
  PROVE  p \in Int /\ x <= p /\ - y <= p /\ p + y \in Int /\ p + y = p - (- y)
<1>1. CASE x <= - y
  <2>1. p = - y /\ - y \in Int
    BY <1>1
  <2> QED
    BY <1>1, <2>1
<1>2. CASE ~(x <= - y)
  <2>1. p = x /\ - y \in Int
    BY <1>2
  <2> QED
    BY <1>2, <2>1
<1> QED
  BY <1>1, <1>2

(* A record that is no sell changes nothing.                               *)
LEMMA LoopPasses ==
  ASSUME NEW lo \in Int, NEW k \in Int, lo <= k + 1, NEW s, NEW d, LoopAt(d, s, lo, k),
         \A i \in lo - 1 .. k + 1 : s[i] \in Int, s[lo - 1] = s[lo]
  PROVE  LoopAt(d, s, lo - 1, k)
<1>1. lo \in lo .. k + 1 /\ \A i \in lo - 1 .. k + 1 : i = lo - 1 \/ i \in lo .. k + 1
  OBVIOUS
<1>2. s[lo] \in Int /\ 0 <= d.drawdown
  <2>1. s[lo] \in Int /\ s[lo] - s[lo] <= d.drawdown /\ d.drawdown \in Int
    BY <1>1 DEF LoopAt
  <2> QED
    BY <2>1
<1>3. \A i \in lo - 1 .. k + 1 : - s[i] <= d.peak
  BY <1>1 DEF LoopAt
<1>4. \E i \in lo - 1 .. k + 1 : - s[i] = d.peak
  BY DEF LoopAt
<1>5. ASSUME NEW i \in lo - 1 .. k + 1, NEW j \in lo - 1 .. k + 1, i <= j
      PROVE  s[i] - s[j] <= d.drawdown
  <2>1. CASE i \in lo .. k + 1
    BY <1>1, <1>5, <2>1 DEF LoopAt
  <2>2. CASE i = lo - 1 /\ j = lo - 1
    BY <1>2, <2>2
  <2>3. CASE i = lo - 1 /\ j \in lo .. k + 1
    <3>1. s[lo] - s[j] <= d.drawdown /\ s[i] = s[lo]
      BY <1>1, <2>3 DEF LoopAt
    <3> QED
      BY <3>1
  <2> QED
    BY <1>1, <2>1, <2>2, <2>3
<1>6. \E i, j \in lo - 1 .. k + 1 : i <= j /\ s[i] - s[j] = d.drawdown
  <2>1. PICK i \in lo .. k + 1, j \in lo .. k + 1 : i <= j /\ s[i] - s[j] = d.drawdown
    BY DEF LoopAt
  <2>2. i \in lo - 1 .. k + 1 /\ j \in lo - 1 .. k + 1
    OBVIOUS
  <2> QED
    BY <2>1, <2>2
<1> QED
  BY <1>3, <1>4, <1>5, <1>6 DEF LoopAt

(* A sell moves the sum, the peak and the drawdown.                        *)
LEMMA LoopSells ==
  ASSUME NEW lo \in Int, NEW k \in Int, lo <= k + 1, NEW s, NEW d, LoopAt(d, s, lo, k),
         \A i \in lo - 1 .. k + 1 : s[i] \in Int,
         NEW e, NEW p, p = Fleet!Max({d.peak, - s[lo - 1]}),
         e = [cumulative |-> - s[lo - 1], peak |-> p,
              drawdown |-> Fleet!Max({d.drawdown, p - (- s[lo - 1])})]
  PROVE  LoopAt(e, s, lo - 1, k)
<1> DEFINE c == s[lo - 1]
<1>1. /\ lo - 1 \in lo - 1 .. k + 1
      /\ \A i \in lo - 1 .. k + 1 : i = lo - 1 \/ i \in lo .. k + 1
      /\ \A i \in lo .. k + 1 : i \in lo - 1 .. k + 1 /\ lo - 1 <= i
  OBVIOUS
<1>2. c \in Int /\ d.peak \in Int /\ d.drawdown \in Int
  BY <1>1 DEF LoopAt
<1>3. p = IF d.peak <= - c THEN - c ELSE d.peak
  BY <1>2, GreaterOfTwo
<1>4. p \in Int /\ d.peak <= p /\ - c <= p /\ p + c \in Int /\ p + c = p - (- c)
  BY <1>2, <1>3, AtThePeak
<1>5. /\ e.cumulative = - c /\ e.peak = p
      /\ e = [cumulative |-> e.cumulative, peak |-> e.peak, drawdown |-> e.drawdown]
      /\ e.drawdown = IF d.drawdown <= p + c THEN p + c ELSE d.drawdown
  <2>1. e = [cumulative |-> - c, peak |-> p, drawdown |-> Fleet!Max({d.drawdown, p + c})]
    BY <1>4
  <2>2. Fleet!Max({d.drawdown, p + c}) = IF d.drawdown <= p + c THEN p + c ELSE d.drawdown
    BY <1>2, <1>4, GreaterOfTwo
  <2> QED
    BY <2>1, <2>2
<1>6. e.drawdown \in Int /\ d.drawdown <= e.drawdown /\ p + c <= e.drawdown
  BY <1>2, <1>4, <1>5
<1>7. \A i \in lo - 1 .. k + 1 : - s[i] <= p
  <2>1. \A i \in lo .. k + 1 : - s[i] <= d.peak /\ s[i] \in Int
    BY <1>1 DEF LoopAt
  <2> QED
    BY <1>1, <1>2, <1>4, <2>1
<1>8. PICK m \in lo - 1 .. k + 1 : - s[m] = p
  <2>1. \E i \in lo .. k + 1 : - s[i] = d.peak
    BY DEF LoopAt
  <2> QED
    BY <1>1, <1>3, <2>1
<1>9. ASSUME NEW i \in lo - 1 .. k + 1, NEW j \in lo - 1 .. k + 1, i <= j
      PROVE  s[i] - s[j] <= e.drawdown
  <2>1. s[i] \in Int /\ s[j] \in Int /\ - s[j] <= p
    BY <1>7
  <2>2. CASE i = lo - 1
    <3>1. s[i] = c
      BY <2>2
    <3> QED
      BY <1>4, <1>6, <2>1, <3>1
  <2>3. CASE i \in lo .. k + 1 /\ j \in lo .. k + 1
    <3>1. s[i] - s[j] <= d.drawdown
      BY <1>9, <2>3 DEF LoopAt
    <3> QED
      BY <1>2, <1>6, <2>1, <3>1
  <2> QED
    BY <1>1, <1>9, <2>2, <2>3
<1>10. \E i, j \in lo - 1 .. k + 1 : i <= j /\ s[i] - s[j] = e.drawdown
  <2>1. CASE e.drawdown = p + c
    <3>1. s[m] \in Int /\ lo - 1 <= m /\ s[lo - 1] - s[m] = p + c
      BY <1>2, <1>8
    <3> QED
      BY <1>1, <2>1, <3>1
  <2>2. CASE e.drawdown = d.drawdown
    <3>1. PICK i \in lo .. k + 1, j \in lo .. k + 1 : i <= j /\ s[i] - s[j] = d.drawdown
      BY DEF LoopAt
    <3> QED
      BY <1>1, <2>2, <3>1
  <2> QED
    BY <1>5, <2>1, <2>2
<1>11. e.cumulative = - s[lo - 1] /\ e.peak \in Int
  BY <1>4, <1>5
<1>12. (\A i \in lo - 1 .. k + 1 : - s[i] <= e.peak) /\ (\E i \in lo - 1 .. k + 1 : - s[i] = e.peak)
  BY <1>5, <1>7, <1>8
<1> QED
  BY <1>5, <1>6, <1>9, <1>10, <1>11, <1>12 DEF LoopAt

\* What the records i to k of h have cost, for each i.
FromEach(h, k) == [i \in 1 .. k + 1 |-> RunCost(h, i, k)]

(* Before the first record nothing has been seen.                          *)
LEMMA LoopBegins ==
  ASSUME NEW k \in Nat, NEW s, s[k + 1] = 0
  PROVE  LoopAt(Fleet!NoneSeen, s, k + 1, k)
<1>1. k + 1 \in k + 1 .. k + 1 /\ \A i \in k + 1 .. k + 1 : s[i] = 0
  OBVIOUS
<1>2. \A i \in k + 1 .. k + 1 : - s[i] = 0 /\ s[i] - s[i] = 0 /\ s[i] \in Int
  BY <1>1
<1>3. \A i, j \in k + 1 .. k + 1 : s[i] - s[j] = 0 /\ i <= j
  BY <1>1
<1> DEFINE d == Fleet!NoneSeen
<1>4. /\ d = [cumulative |-> d.cumulative, peak |-> d.peak, drawdown |-> d.drawdown]
      /\ d.cumulative = 0 /\ d.peak = 0 /\ d.drawdown = 0
  BY DEF Fleet!NoneSeen
<1> HIDE DEF d
<1>5. d.cumulative = - s[k + 1] /\ d.peak \in Int /\ d.drawdown \in Int
  BY <1>1, <1>2, <1>4
<1>6. \A i \in k + 1 .. k + 1 : - s[i] <= d.peak
  BY <1>2, <1>4
<1>7. \E i \in k + 1 .. k + 1 : - s[i] = d.peak
  BY <1>1, <1>2, <1>4
<1>8. \A i, j \in k + 1 .. k + 1 : i <= j => s[i] - s[j] <= d.drawdown
  BY <1>3, <1>4
<1>9. \E i, j \in k + 1 .. k + 1 : i <= j /\ s[i] - s[j] = d.drawdown
  BY <1>1, <1>3, <1>4
<1>10. LoopAt(d, s, k + 1, k)
  BY <1>4, <1>5, <1>6, <1>7, <1>8, <1>9 DEF LoopAt
<1> QED
  BY <1>10 DEF d

(* One more record of the page takes the loop one further down.            *)
LEMMA LoopGoesOn ==
  ASSUME Fleet!FleetAssumption, NEW h \in Seq(Trade), NEW k \in 0 .. Len(h),
         NEW lo \in 2 .. k + 1, NEW d, LoopAt(d, FromEach(h, k), lo, k)
  PROVE  LoopAt(Fleet!OneMore(d, h[lo - 1]), FromEach(h, k), lo - 1, k)
<1> DEFINE s == FromEach(h, k)
           t == h[lo - 1]
<1>1. /\ lo \in Int /\ k \in Int /\ lo <= k + 1 /\ 1 <= lo - 1 /\ lo - 1 <= k /\ k <= Len(h)
      /\ lo - 1 \in Int /\ lo - 1 + 1 = lo
      /\ lo \in 1 .. k + 1 /\ lo - 1 \in 1 .. k + 1 /\ lo \in lo .. k + 1
  <2>1. Len(h) \in Nat
    OBVIOUS
  <2>2. k \in Int /\ k <= Len(h)
    BY <2>1
  <2> QED
    BY <2>2
<1>2. \A i \in 1 .. k + 1 : s[i] = RunCost(h, i, k) /\ s[i] \in Int
  BY <1>1, RunCostType DEF FromEach
<1>3. t \in Trade /\ Cost(t) \in Int
  <2>1. t \in Trade
    BY <1>1
  <2> QED
    BY <2>1, CostType
<1>4. s[lo - 1] = Cost(t) + s[lo]
  <2>1. RunCost(h, lo - 1, k) = Cost(t) + RunCost(h, lo - 1 + 1, k)
    BY <1>1, RunCostFirst
  <2> QED
    BY <1>1, <1>2, <2>1
<1>5. \A i \in lo - 1 .. k + 1 : s[i] \in Int
  BY <1>1, <1>2
<1> HIDE DEF s, t
<1>6. LoopAt(d, s, lo, k)
  BY DEF s
<1>7. CASE t.side # "sell"
  <2>1. Fleet!OneMore(d, t) = d
    BY <1>7 DEF Fleet!OneMore
  <2>2. s[lo - 1] = s[lo]
    BY <1>1, <1>4, <1>5, <1>7 DEF Cost
  <2>3. LoopAt(d, s, lo - 1, k)
    BY <1>1, <1>5, <1>6, <2>2, LoopPasses
  <2> QED
    BY <2>1, <2>3 DEF s, t
<1>8. CASE t.side = "sell"
  <2> DEFINE won == (t.fill - t.price) * Quantity
             p == Fleet!Max({d.peak, - s[lo - 1]})
  <2>1. t.fill - t.price \in Int /\ Quantity \in Int /\ Fee \in Int
    <3>1. t.fill \in Int /\ t.price \in Int
      BY <1>3, Numbers DEF Trade
    <3> QED
      BY <3>1, Numbers
  <2>2. won \in Int
    BY <2>1
  <2>3. Cost(t) = Fee - won
    BY <1>8 DEF Cost
  <2>4. d.cumulative = - s[lo] /\ s[lo] \in Int
    <3>1. lo \in lo - 1 .. k + 1
      BY <1>1
    <3>2. s[lo] \in Int
      BY <1>5, <3>1
    <3> QED
      BY <1>6, <3>2 DEF LoopAt
  <2> HIDE DEF won
  <2>5. d.cumulative + won - Fee = - s[lo - 1]
    <3>1. s[lo - 1] = (Fee - won) + s[lo]
      BY <1>4, <2>3
    <3> QED
      BY <2>1, <2>2, <2>4, <3>1
  <2>6. Fleet!OneMore(d, t) = [cumulative |-> - s[lo - 1], peak |-> p,
                               drawdown |-> Fleet!Max({d.drawdown, p - (- s[lo - 1])})]
    BY <1>8, <2>5 DEF Fleet!OneMore, won
  <2>7. LoopAt(Fleet!OneMore(d, t), s, lo - 1, k)
    BY <1>1, <1>5, <1>6, <2>6, LoopSells
  <2> QED
    BY <2>7 DEF s, t
<1> QED
  BY <1>7, <1>8

(* The loop over a page has come down to the first record of the page.     *)
LEMMA LoopOverPage ==
  ASSUME Fleet!FleetAssumption, NEW h \in Seq(Trade), NEW t, NEW k, PageOf(t, h, k),
         NEW g, Losses(g, t, Len(t))
  PROVE  LoopAt(g[Len(t)], FromEach(h, k), FirstOf(k), k)
<1> DEFINE s == FromEach(h, k)
           P == {m \in Nat : m <= Len(t) => LoopAt(g[m], s, k + 1 - m, k)}
<1>0. /\ k \in Nat /\ k \in 0 .. Len(h) /\ Len(t) \in Nat /\ FirstOf(k) = k + 1 - Len(t)
      /\ 1 <= FirstOf(k)
  <2>1. k \in Nat /\ k \in 0 .. Len(h) /\ Len(t) \in Nat /\ Len(t) = k - FirstOf(k) + 1
    BY DEF PageOf
  <2>2. FirstOf(k) \in Int /\ 1 <= FirstOf(k)
    BY <2>1 DEF FirstOf, Fleet!FleetAssumption
  <2> QED
    BY <2>1, <2>2
<1>1. 0 \in P
  <2>1. k + 1 \in 1 .. k + 1 /\ RunCost(h, k + 1, k) = 0
    BY <1>0, RunCostType
  <2>2. s[k + 1] = 0
    BY <2>1 DEF FromEach
  <2>3. g[0] = Fleet!NoneSeen
    BY <1>0 DEF Losses
  <2> HIDE DEF s
  <2>4. LoopAt(g[0], s, k + 1, k) /\ k + 1 - 0 = k + 1
    BY <1>0, <2>2, <2>3, LoopBegins
  <2> QED
    BY <2>4
<1>2. ASSUME NEW m \in Nat, m \in P PROVE m + 1 \in P
  <2> SUFFICES ASSUME m + 1 <= Len(t) PROVE LoopAt(g[m + 1], s, k + 1 - (m + 1), k)
    OBVIOUS
  <2>1. LoopAt(g[m], s, k + 1 - m, k)
    BY <1>0, <1>2
  <2>2. m + 1 \in 0 .. Len(t) /\ m + 1 # 0 /\ m + 1 - 1 = m /\ m + 1 \in 1 .. Len(t)
    BY <1>0
  <2>3. g[m + 1] = Fleet!OneMore(g[m], t[m + 1])
    BY <2>2 DEF Losses
  <2> DEFINE lo == k + 1 - m
  <2>4. lo \in 2 .. k + 1 /\ k + 1 - (m + 1) = lo - 1
    BY <1>0
  <2>5. t[m + 1] = h[lo - 1]
    <3>1. t[m + 1] = h[k + 1 - (m + 1)]
      BY <2>2 DEF PageOf
    <3> QED
      BY <2>4, <3>1
  <2> HIDE DEF lo
  <2>6. LoopAt(Fleet!OneMore(g[m], h[lo - 1]), FromEach(h, k), lo - 1, k)
    BY <1>0, <2>1, <2>4, LoopGoesOn DEF lo
  <2> QED
    BY <2>3, <2>4, <2>5, <2>6
<1> HIDE DEF P
<1>3. Nat \subseteq P
  BY <1>1, <1>2, InductiveSet
<1>4. LoopAt(g[Len(t)], s, k + 1 - Len(t), k)
  BY <1>0, <1>3 DEF P
<1> QED
  BY <1>0, <1>4

(* What compute_max_drawdown makes of a page is the worst run in it.       *)
LEMMA PageIsJudged ==
  ASSUME Fleet!FleetAssumption, NEW h \in Seq(Trade), NEW t, NEW k, PageOf(t, h, k)
  PROVE  IsWorst(Fleet!MaxDrawdown(t), h, FirstOf(k), k)
<1> DEFINE g == CHOOSE e : Losses(e, t, Len(t))
           s == FromEach(h, k)
           a == FirstOf(k)
           d == g[Len(t)].drawdown
<1>1. Fleet!MaxDrawdown(t) = d
  BY DEF Fleet!MaxDrawdown, Losses
<1>2. Losses(g, t, Len(t))
  <2>1. Len(t) \in Nat
    BY DEF PageOf
  <2> QED
    BY <2>1, LossesExist
<1> HIDE DEF g
<1>3. LoopAt(g[Len(t)], s, a, k)
  BY <1>2, LoopOverPage
<1>4. k \in Nat /\ k <= Len(h) /\ Len(h) \in Nat /\ a \in Int /\ 1 <= a /\ a <= k + 1
  <2>1. k \in Nat /\ k <= Len(h) /\ Len(h) \in Nat
    BY DEF PageOf
  <2> QED
    BY <2>1 DEF FirstOf, Fleet!FleetAssumption
<1> HIDE DEF a
<1>5. \A i \in 1 .. k + 1 : s[i] = RunCost(h, i, k) /\ s[i] \in Int
  BY <1>4, RunCostType DEF FromEach
<1>6. /\ d \in Int
      /\ \A i, j \in a .. k + 1 : i <= j => s[i] - s[j] <= d
      /\ \E i, j \in a .. k + 1 : i <= j /\ s[i] - s[j] = d
  BY <1>3 DEF LoopAt
<1> HIDE DEF s, d
<1>7. \A i, j \in a .. k : i <= j => /\ RunCost(h, i, j) = s[i] - s[j + 1]
                                     /\ i \in a .. k + 1 /\ j + 1 \in a .. k + 1 /\ i <= j + 1
  <2> SUFFICES ASSUME NEW i \in a .. k, NEW j \in a .. k, i <= j
               PROVE  RunCost(h, i, j) = s[i] - s[j + 1]
    BY <1>4
  <2>1. /\ i \in Int /\ j \in Int /\ 1 <= i /\ i <= j + 1 /\ j <= k /\ j <= Len(h)
        /\ i \in 1 .. k + 1 /\ j + 1 \in 1 .. k + 1
    BY <1>4
  <2>2. RunCost(h, i, k) = RunCost(h, i, j) + RunCost(h, j + 1, k)
    BY <1>4, <2>1, RunCostSplits
  <2>3. RunCost(h, i, j) \in Int
    BY <2>1, RunCostType
  <2> QED
    BY <1>5, <2>1, <2>2, <2>3
<1>8. 0 <= d
  <2>1. a \in a .. k + 1 /\ a \in 1 .. k + 1
    BY <1>4
  <2>2. s[a] \in Int /\ s[a] - s[a] <= d
    BY <1>4, <1>5, <1>6, <2>1
  <2> QED
    BY <1>6, <2>2
<1>9. ASSUME NEW i \in a .. k, NEW j \in a .. k PROVE RunCost(h, i, j) <= d
  <2>1. CASE i <= j
    BY <1>6, <1>7, <2>1
  <2>2. CASE j < i
    BY <1>4, <1>8, <2>2, RunCostType
  <2> QED
    BY <1>4, <2>1, <2>2
<1>10. d = 0 \/ \E i, j \in a .. k : RunCost(h, i, j) = d
  <2>1. PICK i \in a .. k + 1, j \in a .. k + 1 : i <= j /\ s[i] - s[j] = d
    BY <1>6
  <2>2. CASE i = j
    <3>1. i \in 1 .. k + 1
      BY <1>4
    <3> QED
      BY <1>5, <2>1, <2>2, <3>1
  <2>3. CASE i < j
    <3>1. i \in a .. k /\ j - 1 \in a .. k /\ i <= j - 1 /\ j - 1 + 1 = j
      BY <1>4, <2>3
    <3> QED
      BY <1>7, <2>1, <3>1
  <2> QED
    BY <1>4, <2>1, <2>2, <2>3
<1> QED
  BY <1>1, <1>6, <1>8, <1>9, <1>10 DEF IsWorst, a

(* A page is as long as there are records for it.                          *)
LEMMA PageLength ==
  ASSUME NEW k \in Nat, Page \in Nat \ {0}, NEW n, n = IF k < Page THEN k ELSE Page
  PROVE  n \in Nat /\ n <= k /\ n = k - FirstOf(k) + 1
<1>1. CASE k < Page
  BY <1>1 DEF FirstOf
<1>2. CASE k = Page
  BY <1>2 DEF FirstOf
<1>3. CASE Page < k
  BY <1>3 DEF FirstOf
<1> QED
  BY <1>1, <1>2, <1>3

(* get_trade_history gives the page of what there is.                      *)
LEMMA LatestIsPage ==
  ASSUME Fleet!FleetAssumption, NEW w \in Workers, records[w] \in Seq(Trade)
  PROVE  PageOf(Fleet!Latest(w), records[w], Len(records[w]))
<1> DEFINE h == records[w]
           k == Len(h)
           n == IF k < Page THEN k ELSE Page
           r == [i \in 1 .. k |-> h[(k - i) + 1]]
<1>0. k \in Nat /\ Page \in Nat \ {0} /\ h \in Seq(Trade)
  BY DEF Fleet!FleetAssumption
<1>1. Fleet!Latest(w) = SubSeq(r, 1, n)
  BY DEF Fleet!Latest, Fleet!Reverse
<1>2. r \in Seq(Trade) /\ Len(r) = k
  <2>1. \A i \in 1 .. k : h[(k - i) + 1] \in Trade
    BY <1>0
  <2> HIDE DEF h, k
  <2> QED
    BY <1>0, <2>1
<1>3. n \in Nat /\ n <= k /\ n = k - FirstOf(k) + 1
  BY <1>0, PageLength
<1> DEFINE t == SubSeq(r, 1, n)
<1> HIDE DEF r, h, k, n
<1>4. t \in Seq(Trade) /\ Len(t) = n /\ \A x \in 1 .. n : t[x] = r[x]
  BY <1>2, <1>3
<1>5. \A x \in 1 .. n : t[x] = h[k + 1 - x]
  <2> SUFFICES ASSUME NEW x \in 1 .. n PROVE t[x] = h[k + 1 - x]
    OBVIOUS
  <2>1. x \in 1 .. k /\ (k - x) + 1 = k + 1 - x
    BY <1>0, <1>3
  <2> QED
    BY <1>4, <2>1 DEF r
<1>6. k \in 0 .. Len(h)
  BY <1>0 DEF k
<1>7. PageOf(t, h, k)
  BY <1>3, <1>4, <1>5, <1>6 DEF PageOf
<1> QED
  BY <1>1, <1>7 DEF h, k

\* What r says of the drawdown is the worst run of a page of h.
Judged(r, h) ==
    \E k \in 0 .. Len(h) : r.trades = k - FirstOf(k) + 1 /\ IsWorst(r.drawdown, h, FirstOf(k), k)

(* What the master has read is a page of the records that were the latest  *)
(* then, and what it has reported is the worst run of such a page.         *)
PagesOK ==
    /\ request # None /\ request.kind # "list" =>
        /\ request.at # None /\ request.call = "predictions" =>
              \E k \in Nat : PageOf(request.trades, records[request.at], k)
        /\ \A w \in DOMAIN request.got : Judged(request.got[w], records[w])
    /\ answer # None /\ answer.kind # "list" =>
        \A w \in DOMAIN answer.workers : Judged(answer.workers[w], records[w])

\* e has the records of h, and maybe more after them.
Extends(e, h) == Len(h) <= Len(e) /\ \A i \in 1 .. Len(h) : e[i] = h[i]

(* More records do not change what has been said of the earlier ones.      *)
LEMMA JudgedStays ==
  ASSUME Fleet!FleetAssumption, NEW h \in Seq(Trade), NEW e \in Seq(Trade), Extends(e, h)
  PROVE  /\ \A r : Judged(r, h) => Judged(r, e)
         /\ \A t, k : PageOf(t, h, k) => PageOf(t, e, k)
<1>0. Len(h) \in Nat /\ Len(e) \in Nat /\ Len(h) <= Len(e)
  BY DEF Extends
<1>1. ASSUME NEW i \in Int, NEW j \in Int, 1 <= i, j <= Len(h)
      PROVE  RunCost(h, i, j) = RunCost(e, i, j)
  <2>1. IsFiniteSet(i .. j)
    BY FS_Interval
  <2>2. ASSUME NEW x \in i .. j PROVE CostsOf(h)[x] = CostsOf(e)[x]
    <3>1. x \in 1 .. Len(h) /\ x \in 1 .. Len(e)
      BY <1>0, <1>1
    <3>2. CostsOf(h)[x] = Cost(h[x]) /\ CostsOf(e)[x] = Cost(e[x])
      BY <3>1, CostType
    <3> QED
      BY <3>1, <3>2 DEF Extends
  <2> QED
    BY <2>1, <2>2, TotalSame DEF RunCost
<1>2. ASSUME NEW k \in 0 .. Len(h)
      PROVE  /\ k \in 0 .. Len(e) /\ k \in Nat
             /\ FirstOf(k) \in Int /\ 1 <= FirstOf(k) /\ k - FirstOf(k) + 1 <= k
  <2>1. k \in Nat /\ k <= Len(h) /\ Page \in Nat
    BY <1>0 DEF Fleet!FleetAssumption
  <2> QED
    BY <1>0, <2>1 DEF FirstOf
<1>3. ASSUME NEW d, NEW k \in 0 .. Len(h), IsWorst(d, h, FirstOf(k), k)
      PROVE  IsWorst(d, e, FirstOf(k), k)
  <2>1. \A i, j \in FirstOf(k) .. k : i \in Int /\ j \in Int /\ 1 <= i /\ j <= Len(h)
    BY <1>0, <1>2
  <2>2. \A i, j \in FirstOf(k) .. k : RunCost(h, i, j) = RunCost(e, i, j)
    BY <1>1, <2>1
  <2> QED
    BY <1>3, <2>2 DEF IsWorst
<1>4. ASSUME NEW r, Judged(r, h) PROVE Judged(r, e)
  BY <1>2, <1>3, <1>4 DEF Judged
<1>5. ASSUME NEW t, NEW k, PageOf(t, h, k) PROVE PageOf(t, e, k)
  <2>1. k \in 0 .. Len(h) /\ t \in Seq(Trade) /\ Len(t) = k - FirstOf(k) + 1
    BY <1>5 DEF PageOf
  <2>2. ASSUME NEW x \in 1 .. Len(t) PROVE t[x] = e[k + 1 - x]
    <3>1. t[x] = h[k + 1 - x] /\ k + 1 - x \in 1 .. Len(h)
      BY <1>0, <1>2, <1>5, <2>1 DEF PageOf
    <3> QED
      BY <3>1 DEF Extends
  <2> QED
    BY <1>2, <2>1, <2>2 DEF PageOf
<1> QED
  BY <1>4, <1>5

(* Whatever happens, the records of a worker only grow.                    *)
LEMMA RecordsGrow ==
  ASSUME ReportsInv, [Fleet!Next]_Fleet!vars
  PROVE  \A w \in Workers : Extends(records'[w], records[w])
<1>0. records \in [Workers -> Seq(Trade)]
  BY DEF ReportsInv, WorkersOK
<1>1. CASE records' = records
  BY <1>0, <1>1 DEF Extends
<1>2. ASSUME NEW v \in Workers, NEW side, NEW price, NEW fill, Fleet!Record(v, side, price, fill)
      PROVE  \A w \in Workers : Extends(records'[w], records[w])
  <2> DEFINE t == [side |-> side, price |-> price, fill |-> fill]
  <2>1. records' = [records EXCEPT ![v] = Append(records[v], t)]
    BY <1>2 DEF Fleet!Record
  <2> HIDE DEF t
  <2> SUFFICES ASSUME NEW w \in Workers PROVE Extends(records'[w], records[w])
    OBVIOUS
  <2>2. CASE w = v
    <3>1. records'[w] = Append(records[w], t) /\ records[w] \in Seq(Trade)
      BY <1>0, <2>1, <2>2
    <3> QED
      BY <3>1 DEF Extends
  <2>3. CASE w # v
    <3>1. records'[w] = records[w] /\ records[w] \in Seq(Trade)
      BY <1>0, <2>1, <2>3
    <3>2. Len(records[w]) <= Len(records[w])
      BY <3>1
    <3> QED
      BY <3>1, <3>2 DEF Extends
  <2> QED
    BY <2>2, <2>3
<1>3. ASSUME Fleet!Handlers \/ UNCHANGED Fleet!vars
      PROVE  records' = records
  BY <1>3
     DEF Fleet!Handlers, Fleet!Ask, Fleet!ReadStatus, Fleet!ReadPortfolio, Fleet!ReadTrades,
         Fleet!ReadPredictions, Fleet!CallFails, Fleet!Answer, Fleet!GetStatus, Fleet!StatusFails,
         Fleet!NextWorker, Fleet!worker, Fleet!vars
<1>4. ASSUME NEW w \in Workers, Fleet!Discover(w) \/ Fleet!Updates(w)
      PROVE  records' = records
  BY <1>4 DEF Fleet!Discover, Fleet!Updates, Fleet!UpdateStarts, Fleet!UpdateFails,
              Fleet!UpdateTotal, Fleet!UpdateRow, Fleet!worker
<1>5. ASSUME NEW w \in Workers, Fleet!Trades(w)
      PROVE  \E side, price, fill : Fleet!Record(w, side, price, fill)
  BY <1>5 DEF Fleet!Trades, Fleet!Buy, Fleet!Sell, Fleet!ForceClose
<1> QED
  BY <1>1, <1>2, <1>3, <1>4, <1>5 DEF Fleet!Next

(* Nothing that was read or reported is undone by what a worker does, by   *)
(* the master's other steps, or by time.                                   *)
LEMMA PagesStay ==
  ASSUME ReportsInv, ReportsInv', PagesOK, \A w \in Workers : Extends(records'[w], records[w])
  PROVE  /\ \A w \in Workers : \A r : Judged(r, records[w]) => Judged(r, records'[w])
         /\ \A w \in Workers : \A t, k : PageOf(t, records[w], k) => PageOf(t, records'[w], k)
<1>1. \A w \in Workers : records[w] \in Seq(Trade) /\ records'[w] \in Seq(Trade)
  BY DEF ReportsInv, WorkersOK
<1> QED
  BY <1>1, JudgedStays DEF ReportsInv

(* Every step keeps what has been read and reported.                       *)
LEMMA NextPages ==
  ASSUME ReportsInv, ReportsInv', PagesOK, [Fleet!Next]_Fleet!vars
  PROVE  PagesOK'
<1>1. /\ \A w \in Workers : \A r : Judged(r, records[w]) => Judged(r, records'[w])
      /\ \A w \in Workers : \A t, k : PageOf(t, records[w], k) => PageOf(t, records'[w], k)
  BY RecordsGrow, PagesStay
<1>2. /\ request # None => DOMAIN request.got \subseteq Workers
                           /\ request.at \in Workers \union {None}
      /\ answer # None => DOMAIN answer.workers \subseteq Workers
  BY DEF ReportsInv, WorkersOK, RequestShape, Answered
<1>3. CASE UNCHANGED <<request, answer>>
  BY <1>1, <1>2, <1>3 DEF PagesOK
<1>4. ASSUME NEW w \in Workers, Fleet!Discover(w) \/ Fleet!Trades(w) \/ Fleet!Updates(w)
      PROVE  UNCHANGED <<request, answer>>
  BY <1>4 DEF Fleet!Discover, Fleet!Trades, Fleet!Updates, Fleet!UpdateStarts, Fleet!UpdateFails,
              Fleet!UpdateTotal, Fleet!UpdateRow, Fleet!Buy, Fleet!Sell, Fleet!ForceClose,
              Fleet!Watch
<1>5. ASSUME NEW kind, NEW ids, Fleet!Ask(kind, ids)
      PROVE  PagesOK'
  <2>1. /\ answer' = None /\ request'.at = None /\ request'.got = <<>>
    BY <1>5 DEF Fleet!Ask
  <2>2. DOMAIN <<>> = {}
    OBVIOUS
  <2> QED
    BY <2>1, <2>2 DEF PagesOK
<1>6. CASE Fleet!Answer
  <2>1. request' = None /\ answer'.kind = request.kind /\ answer'.workers = request.got
        /\ request # None
    BY <1>6 DEF Fleet!Answer
  <2> QED
    BY <1>1, <1>2, <2>1 DEF PagesOK
<1>7. ASSUME request # None, answer' = None, request'.kind = request.kind,
             request.kind = "list" \/ request'.got = request.got,
             request'.at = None \/ request'.call # "predictions"
      PROVE  PagesOK'
  BY <1>1, <1>2, <1>7 DEF PagesOK
<1>8. ASSUME request # None, UNCHANGED answer
      PROVE  answer' = None
  BY <1>8 DEF ReportsInv, Asking
<1>9. /\ request # None =>
           request = [kind |-> request.kind, left |-> request.left, at |-> request.at,
                      call |-> request.call, got |-> request.got, failed |-> request.failed,
                      books |-> request.books, trades |-> request.trades]
  BY DEF ReportsInv, RequestShape
<1>10. ASSUME NEW w \in Workers, Fleet!GetStatus(w) \/ Fleet!StatusFails(w)
       PROVE  PagesOK'
  <2>1. /\ request # None /\ request.kind = "list" /\ answer' = answer
        /\ request'.kind = request.kind
    BY <1>9, <1>10 DEF Fleet!GetStatus, Fleet!StatusFails
  <2> QED
    BY <1>8, <2>1 DEF PagesOK
<1>11. ASSUME NEW w \in Workers, Fleet!NextWorker(w)
       PROVE  PagesOK'
  <2>1. /\ request # None /\ answer' = answer /\ request'.kind = request.kind
        /\ request'.call = "status" /\ request'.got = request.got
    BY <1>9, <1>11 DEF Fleet!NextWorker
  <2> QED
    BY <1>7, <1>8, <2>1
<1>12. CASE Fleet!ReadStatus \/ Fleet!ReadPortfolio
  <2>1. /\ request # None /\ answer' = answer /\ request'.kind = request.kind
        /\ request'.call # "predictions" /\ request'.got = request.got
    BY <1>9, <1>12 DEF Fleet!ReadStatus, Fleet!ReadPortfolio, Fleet!Calling
  <2> QED
    BY <1>7, <1>8, <2>1
<1>13. CASE Fleet!CallFails
  <2>1. /\ request # None /\ answer' = answer /\ request'.kind = request.kind
        /\ request'.at = None /\ request'.got = request.got
    BY <1>9, <1>13 DEF Fleet!CallFails, Fleet!Proceed
  <2> QED
    BY <1>7, <1>8, <2>1
<1>14. CASE Fleet!ReadTrades
  <2>1. /\ request # None /\ request.at # None /\ answer' = answer
        /\ request'.kind = request.kind /\ request'.at = request.at
        /\ request'.got = request.got /\ request'.trades = Fleet!Latest(request.at)
    BY <1>9, <1>14 DEF Fleet!ReadTrades, Fleet!Calling
  <2>2. records[request.at] \in Seq(Trade) /\ request.at \in Workers
    BY <1>2, <2>1 DEF ReportsInv, WorkersOK
  <2>3. /\ PageOf(Fleet!Latest(request.at), records[request.at], Len(records[request.at]))
        /\ Len(records[request.at]) \in Nat
    BY <2>2, LatestIsPage DEF ReportsInv
  <2>4. PageOf(request'.trades, records'[request'.at], Len(records[request.at]))
    BY <1>1, <2>1, <2>2, <2>3
  <2>5. answer' = None
    BY <1>8, <2>1
  <2> QED
    BY <1>1, <1>2, <2>1, <2>3, <2>4, <2>5 DEF PagesOK
<1>15. CASE Fleet!ReadPredictions
  <2> DEFINE w == request.at
             got == [v \in DOMAIN request.got \union {w} |->
                       IF v = w THEN Fleet!Report(w, request.books, request.trades)
                       ELSE request.got[v]]
  <2>1. /\ request # None /\ w # None /\ request.call = "predictions" /\ answer' = answer
        /\ request'.kind = request.kind /\ request'.at = None /\ request'.got = got
    BY <1>9, <1>15 DEF Fleet!ReadPredictions, Fleet!Calling, Fleet!Proceed
  <2>2. answer' = None
    BY <1>8, <2>1
  <2>3. /\ DOMAIN got = DOMAIN request.got \union {w}
        /\ got[w].trades = Len(request.trades)
        /\ got[w].drawdown = Fleet!MaxDrawdown(request.trades)
        /\ \A v \in DOMAIN request.got : v # w => got[v] = request.got[v]
    BY DEF Fleet!Report
  <2> HIDE DEF got
  <2>4. CASE request.kind # "list"
    <3>1. PICK k \in Nat : PageOf(request.trades, records[w], k)
      BY <2>1, <2>4 DEF PagesOK
    <3>2. w \in Workers /\ records[w] \in Seq(Trade)
      BY <1>2, <2>1 DEF ReportsInv, WorkersOK
    <3>3. IsWorst(Fleet!MaxDrawdown(request.trades), records[w], FirstOf(k), k)
      BY <3>1, <3>2, PageIsJudged DEF ReportsInv
    <3>4. Judged(got[w], records[w])
      BY <2>3, <3>1, <3>3 DEF Judged, PageOf
    <3>5. \A v \in DOMAIN got : Judged(got[v], records[v]) /\ v \in Workers
      BY <1>2, <2>1, <2>3, <2>4, <3>2, <3>4 DEF PagesOK
    <3> QED
      BY <1>1, <2>1, <2>2, <3>5 DEF PagesOK
  <2>5. CASE request.kind = "list"
    BY <2>1, <2>2, <2>5 DEF PagesOK
  <2> QED
    BY <2>4, <2>5
<1>16. CASE Fleet!Handlers
  BY <1>5, <1>6, <1>10, <1>11, <1>12, <1>13, <1>14, <1>15, <1>16 DEF Fleet!Handlers
<1>17. CASE UNCHANGED Fleet!vars
  BY <1>3, <1>17 DEF Fleet!vars
<1> QED
  BY <1>3, <1>4, <1>16, <1>17 DEF Fleet!Next

(* Both parts of the invariant always hold.                                *)
LEMMA PagesKept == ASSUME Fleet!FleetAssumption PROVE Fleet!Spec => [](ReportsInv /\ PagesOK)
<1>1. Fleet!Init => ReportsInv /\ PagesOK
  <2>1. ASSUME Fleet!Init PROVE request = None /\ answer = None
    BY <2>1 DEF Fleet!Init
  <2> QED
    BY <2>1, InitReports DEF PagesOK
<1>2. ReportsInv /\ PagesOK /\ [Fleet!Next]_Fleet!vars => (ReportsInv /\ PagesOK)'
  BY NextReports, NextPages
<1> QED
  BY <1>1, <1>2, PTL DEF Fleet!Spec

(* The drawdown that is reported is the most that a run of consecutive     *)
(* sells has cost, of the page of records that was the latest when it was  *)
(* read, with any page and any number of trades: compute_max_drawdown gets *)
(* the latest first, and is right all the same.                            *)
THEOREM DrawdownAlwaysWorstRun ==
  ASSUME Fleet!FleetAssumption
  PROVE  Fleet!Spec => []Fleet!DrawdownIsWorstRun
<1>1. ReportsInv /\ PagesOK => Fleet!DrawdownIsWorstRun
  <2> SUFFICES ASSUME ReportsInv, PagesOK, answer # None, answer.kind # "list",
                      NEW w \in DOMAIN answer.workers
               PROVE  \E last \in 0 .. Len(records[w]) :
                        /\ answer.workers[w].trades = last - FirstOf(last) + 1
                        /\ answer.workers[w].drawdown = Fleet!WorstRun(w, FirstOf(last), last)
    BY DEF Fleet!DrawdownIsWorstRun, FirstOf
  <2>1. PICK k \in 0 .. Len(records[w]) :
            /\ answer.workers[w].trades = k - FirstOf(k) + 1
            /\ IsWorst(answer.workers[w].drawdown, records[w], FirstOf(k), k)
    BY DEF PagesOK, Judged
  <2>2. w \in Workers /\ records[w] \in Seq(Trade)
    BY DEF ReportsInv, Answered, WorkersOK
  <2>3. \A i, j \in FirstOf(k) .. k : RunCost(records[w], i, j) \in Int
    <3>1. k \in Nat /\ k <= Len(records[w]) /\ Page \in Nat
      BY <2>2 DEF ReportsInv, Fleet!FleetAssumption
    <3>2. 1 <= FirstOf(k) /\ FirstOf(k) \in Int
      BY <3>1 DEF FirstOf
    <3>3. \A i, j \in FirstOf(k) .. k : i \in Int /\ j \in Int /\ 1 <= i /\ j <= Len(records[w])
      BY <2>2, <3>1, <3>2
    <3> QED
      BY <2>2, <3>3, RunCostType DEF ReportsInv
  <2>4. answer.workers[w].drawdown = Fleet!WorstRun(w, FirstOf(k), k)
    BY <2>1, <2>2, <2>3, WorstIsMax
  <2> QED
    BY <2>1, <2>4
<1> QED
  BY <1>1, PagesKept, PTL

(* What the run checks of the reports, as one.                             *)
THEOREM ReportsAlwaysSound == ASSUME Fleet!FleetAssumption PROVE Fleet!Spec => []ReportsSound
BY ReportsTypeCorrect, OnlyFailuresAlwaysMissing, BestAlwaysNamed, TotalAlwaysTheirs,
   DrawdownAlwaysWorstRun, PTL DEF ReportsSound
=============================================================================
