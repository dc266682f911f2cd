-------------------------- MODULE SkillMaster_proofs --------------------------
(***************************************************************************)
(* Proofs about the background tasks and the question bank of skill-master, *)
(* each by itself: for any number of quotes and clients, of feeds and      *)
(* articles, and of topics, entries and concurrent calls.  A constant that *)
(* two of the modules have is declared once; no theorem is about two.      *)
(***************************************************************************)
EXTENDS Integers, Sequences, FiniteSets, TLAPS

CONSTANTS
    Quotes, Clients, MinFresh,                                  \* QuoteBank
    Feeds, UrlOf, TopicOfFeed, Articles, FeedOf, Published,     \* NewsRefresh
    Retries, Cooldown, MaxAge, MaxTime, MaxRestarts,
    Topics, Entries, TopicOf, Filed, Calls, Days,               \* KnowledgeBank
    MaxDay, MaxChanges, Watched,
    DbFails, None

VARIABLES
    stock, task, batch, permit, client, chosen, stale, refused,
    now, refresh, feedStep, found, fresh, ready, broken, topics, table, failed, purge, restarts,
    today, used, reviewed, affinity, disabled, review, entries, callStep, again, picked,
    passed, due, changes

\* The three parts, which share no state.
Quote == INSTANCE QuoteBank WITH bank <- stock
News == INSTANCE NewsRefresh WITH TopicOf <- TopicOfFeed, step <- feedStep
Bank == INSTANCE KnowledgeBank WITH bank <- entries, step <- callStep

-----------------------------------------------------------------------------
(* QuoteBank.                                                              *)

(* A client about to write whom nobody has overtaken holds a fresh quote:  *)
(* the reading and the writing of a quote are one transaction.             *)
ReadStillFresh ==
    \A c \in Clients : client[c] = "write" /\ ~stale[c] => chosen[c] \in Quote!Fresh

(* A refusal since the last count has left its permit until the task looks *)
(* at the table again, before it waits as well as while it does.           *)
PermitKept == task \in {"enough", "wait"} /\ refused => permit

(* Together they are inductive.                                            *)
QuotesInv == Quote!TypeOK /\ ReadStillFresh /\ PermitKept

(* Before the first batch nothing has been read.                           *)
LEMMA InitQuotes == ASSUME Quote!QuoteAssumption, Quote!Init PROVE QuotesInv
BY DEF Quote!QuoteAssumption, Quote!Init, QuotesInv, Quote!TypeOK, ReadStillFresh,
       PermitKept

(* The types are kept by every step.                                       *)
LEMMA QuotesTypes ==
  ASSUME Quote!QuoteAssumption, Quote!TypeOK, [Quote!Next]_Quote!vars
  PROVE  Quote!TypeOK'
<1> USE DEF Quote!TypeOK
<1>1. CASE Quote!Count
  BY <1>1 DEF Quote!Count, Quote!clients
<1>2. CASE Quote!Pause
  BY <1>2 DEF Quote!Pause, Quote!clients
<1>3. CASE Quote!Wake
  BY <1>3 DEF Quote!Wake, Quote!clients
<1>4. CASE Quote!Fetch
  BY <1>4 DEF Quote!Fetch, Quote!clients
<1>5. CASE Quote!Insert
  BY <1>5 DEF Quote!Insert, Quote!Inserted, Quote!Outdated
<1>6. CASE Quote!InsertDone
  BY <1>6 DEF Quote!InsertDone, Quote!clients
<1>7. ASSUME NEW c \in Clients, Quote!NextQuote(c) PROVE Quote!TypeOK'
  BY <1>7 DEF Quote!NextQuote
<1>8. ASSUME NEW c \in Clients, Quote!SelectQuote(c) PROVE Quote!TypeOK'
  BY <1>8 DEF Quote!SelectQuote, Quote!Fresh, Quote!QuoteAssumption
<1>9. ASSUME NEW c \in Clients, Quote!Refuse(c) PROVE Quote!TypeOK'
  BY <1>9 DEF Quote!Refuse, Quote!Notify
<1>10. ASSUME NEW c \in Clients, Quote!UseQuote(c) PROVE Quote!TypeOK'
  BY <1>10 DEF Quote!UseQuote, Quote!Outdated
<1>11. ASSUME NEW c \in Clients, Quote!UseFails(c) PROVE Quote!TypeOK'
  BY <1>11 DEF Quote!UseFails
<1>12. ASSUME NEW q \in Quotes, Quote!Rest(q) PROVE Quote!TypeOK'
  BY <1>12 DEF Quote!Rest, Quote!clients
<1>13. CASE UNCHANGED Quote!vars
  BY <1>13 DEF Quote!vars, Quote!clients
<1> QED
  BY <1>1, <1>2, <1>3, <1>4, <1>5, <1>6, <1>7, <1>8, <1>9, <1>10, <1>11, <1>12, <1>13
     DEF Quote!Next, Quote!Task

(* No step takes the quote away from a client who has read it without      *)
(* making the client's transaction out of date.                            *)
LEMMA NextReadStillFresh ==
  ASSUME Quote!QuoteAssumption, Quote!TypeOK, ReadStillFresh, [Quote!Next]_Quote!vars
  PROVE  ReadStillFresh'
<1> USE DEF Quote!TypeOK, ReadStillFresh, Quote!Fresh
<1>1. CASE Quote!Count \/ Quote!Pause \/ Quote!Wake \/ Quote!Fetch \/ Quote!InsertDone
  BY <1>1 DEF Quote!Count, Quote!Pause, Quote!Wake, Quote!Fetch, Quote!InsertDone,
              Quote!clients
<1>2. CASE Quote!Insert
  BY <1>2 DEF Quote!Insert, Quote!Inserted, Quote!Outdated
<1>3. ASSUME NEW c \in Clients, Quote!NextQuote(c) PROVE ReadStillFresh'
  BY <1>3 DEF Quote!NextQuote
<1>4. ASSUME NEW c \in Clients, Quote!SelectQuote(c) PROVE ReadStillFresh'
  BY <1>4 DEF Quote!SelectQuote
<1>5. ASSUME NEW c \in Clients, Quote!Refuse(c) PROVE ReadStillFresh'
  BY <1>5 DEF Quote!Refuse
<1>6. ASSUME NEW c \in Clients, Quote!UseQuote(c) PROVE ReadStillFresh'
  BY <1>6 DEF Quote!UseQuote, Quote!Outdated
<1>7. ASSUME NEW c \in Clients, Quote!UseFails(c) PROVE ReadStillFresh'
  BY <1>7 DEF Quote!UseFails
<1>8. ASSUME NEW q \in Quotes, Quote!Rest(q) PROVE ReadStillFresh'
  BY <1>8 DEF Quote!Rest, Quote!clients
<1>9. CASE UNCHANGED Quote!vars
  BY <1>9 DEF Quote!vars, Quote!clients
<1> QED
  BY <1>1, <1>2, <1>3, <1>4, <1>5, <1>6, <1>7, <1>8, <1>9 DEF Quote!Next, Quote!Task

(* A permit is taken back only by the task, on its way to a new count.     *)
LEMMA NextPermitKept ==
  ASSUME Quote!TypeOK, PermitKept, [Quote!Next]_Quote!vars
  PROVE  PermitKept'
<1> USE DEF PermitKept
<1>1. CASE Quote!Task
  BY <1>1 DEF Quote!Task, Quote!Count, Quote!Pause, Quote!Wake, Quote!Fetch, Quote!Insert,
              Quote!InsertDone
<1>2. ASSUME NEW c \in Clients,
             Quote!NextQuote(c) \/ Quote!SelectQuote(c) \/ Quote!Refuse(c)
                 \/ Quote!UseQuote(c) \/ Quote!UseFails(c)
      PROVE  PermitKept'
  BY <1>2 DEF Quote!NextQuote, Quote!SelectQuote, Quote!Refuse, Quote!Notify,
              Quote!UseQuote, Quote!UseFails
<1>3. ASSUME NEW q \in Quotes, Quote!Rest(q) PROVE PermitKept'
  BY <1>3 DEF Quote!Rest
<1>4. CASE UNCHANGED Quote!vars
  BY <1>4 DEF Quote!vars
<1> QED
  BY <1>1, <1>2, <1>3, <1>4 DEF Quote!Next

(* So the invariant always holds.                                          *)
LEMMA QuotesKept == ASSUME Quote!QuoteAssumption PROVE Quote!Spec => []QuotesInv
<1>1. Quote!Init => QuotesInv
  BY InitQuotes
<1>2. QuotesInv /\ [Quote!Next]_Quote!vars => QuotesInv'
  BY QuotesTypes, NextReadStillFresh, NextPermitKept DEF QuotesInv
<1> QED
  BY <1>1, <1>2, PTL DEF Quote!Spec

(* The types of the state, for any constants (skill-master/src/quotes).    *)
THEOREM QuotesTypeCorrect == ASSUME Quote!QuoteAssumption PROVE Quote!Spec => []Quote!TypeOK
<1>1. QuotesInv => Quote!TypeOK
  BY DEF QuotesInv
<1> QED
  BY <1>1, QuotesKept, PTL

(* The task never waits past a client who found nothing since its count:   *)
(* the permit is there and ends the wait (notify_needs_more_quotes).       *)
THEOREM RefusalAlwaysWakes ==
  ASSUME Quote!QuoteAssumption
  PROVE  Quote!Spec => []Quote!RefusalWakesTask
<1>1. QuotesInv => Quote!RefusalWakesTask
  BY DEF QuotesInv, PermitKept, Quote!RefusalWakesTask
<1> QED
  BY <1>1, QuotesKept, PTL

(* However the clients' calls interleave, a quote is handed out only while *)
(* it is fresh (fetch_next_unused_quote).                                  *)
THEOREM AlwaysHandedFresh ==
  ASSUME Quote!QuoteAssumption
  PROVE  Quote!Spec => Quote!HandedWhileFresh
<1>1. QuotesInv /\ [Quote!Next]_Quote!vars
      => [\A c \in Clients : Quote!UseQuote(c) => stock[chosen[c]] \in {"unused",
      "old"}]_Quote!vars
  BY DEF QuotesInv, Quote!TypeOK, ReadStillFresh, Quote!Fresh, Quote!UseQuote,
         Quote!MayCommit
<1> QED
  BY <1>1, QuotesKept, PTL DEF Quote!Spec, Quote!HandedWhileFresh

(* The API cannot make a used quote fresh by returning it again            *)
(* (insert_new_quotes).                                                    *)
THEOREM AlwaysStaysUsed ==
  ASSUME Quote!QuoteAssumption
  PROVE  Quote!Spec => Quote!UsedStaysUsed
<1>1. ASSUME Quote!TypeOK, [Quote!Next]_Quote!vars
      PROVE  [\A q \in Quotes : stock[q] = "recent" => stock'[q] \in {"recent",
      "old"}]_Quote!vars
  <2> USE <1>1 DEF Quote!TypeOK
  <2>1. CASE Quote!Task
    BY <2>1 DEF Quote!Task, Quote!Count, Quote!Pause, Quote!Wake, Quote!Fetch,
                Quote!Insert, Quote!Inserted, Quote!InsertDone
  <2>2. ASSUME NEW c \in Clients,
               Quote!NextQuote(c) \/ Quote!SelectQuote(c) \/ Quote!Refuse(c)
                   \/ Quote!UseQuote(c) \/ Quote!UseFails(c)
        PROVE  \A q \in Quotes : stock[q] = "recent" => stock'[q] \in {"recent", "old"}
    BY <2>2 DEF Quote!NextQuote, Quote!SelectQuote, Quote!Refuse, Quote!UseQuote,
                Quote!UseFails
  <2>3. ASSUME NEW r \in Quotes, Quote!Rest(r)
        PROVE  \A q \in Quotes : stock[q] = "recent" => stock'[q] \in {"recent", "old"}
    BY <2>3 DEF Quote!Rest
  <2> QED
    BY <2>1, <2>2, <2>3 DEF Quote!Next
<1>2. Quote!Spec => []Quote!TypeOK
  BY QuotesTypeCorrect
<1> QED
  BY <1>1, <1>2, PTL DEF Quote!Spec, Quote!UsedStaysUsed

-----------------------------------------------------------------------------
(* NewsRefresh.                                                            *)

(* The types, with topics a sequence: its ids are positions.               *)
NewsTypes == News!TypeOK /\ topics \in Seq(News!Names)

(* An empty database and idle tasks have their types.                      *)
LEMMA InitNewsTypes == ASSUME News!NewsAssumption, News!Init PROVE NewsTypes
<1>1. topics \in Seq(News!Names) /\ News!ToSet(topics) = {} /\ News!IsInjective(topics)
  BY DEF News!Init, News!ToSet, News!IsInjective
<1>2. broken \in [News!Urls -> [attempts : 0 .. Retries, next : 0 .. MaxTime + Cooldown]]
  BY DEF News!Init, News!Whole, News!NewsAssumption
<1>3. now \in 0 .. MaxTime /\ restarts \in 0 .. MaxRestarts
  BY DEF News!Init, News!NewsAssumption
<1>4. \A f \in Feeds : ready[f] \subseteq fresh[f]
  BY DEF News!Init
<1>. QED
  BY <1>1, <1>2, <1>3, <1>4 DEF News!Init, NewsTypes, News!TypeOK

(* The tables a feed's task does not write.                                *)
LEMMA FeedType ==
  ASSUME News!NewsAssumption, NewsTypes, NEW f \in Feeds, News!Feed(f)
  PROVE  NewsTypes'
<1>. USE DEF NewsTypes
<1>1. CASE News!FetchFeed(f)
  <2>1. broken' \in [News!Urls -> [attempts : 0 .. Retries, next : 0 .. MaxTime + Cooldown]]
    <3>1. UrlOf[f] \in News!Urls
      BY DEF News!Urls
    <3>2. 0 \in 0 .. Retries /\ 0 \in 0 .. MaxTime + Cooldown
      BY DEF News!NewsAssumption
    <3>3. now + Cooldown \in 0 .. MaxTime + Cooldown
      BY DEF News!NewsAssumption, News!TypeOK
    <3>4. \A n \in 0 .. Retries : (IF n < Retries THEN n + 1 ELSE n) \in 0 .. Retries
      BY DEF News!NewsAssumption
    <3>5. broken \in [News!Urls -> [attempts : 0 .. Retries, next : 0 .. MaxTime + Cooldown]]
      BY DEF News!TypeOK
    <3>6. \A u \in News!Urls : broken[u].attempts \in 0 .. Retries
      BY <3>5
    <3>7. CASE broken' = [broken EXCEPT ![UrlOf[f]] = News!Whole]
      BY <3>1, <3>2, <3>5, <3>7 DEF News!Whole
    <3>8. CASE News!SetBroken(UrlOf[f])
      BY <3>1, <3>3, <3>4, <3>5, <3>6, <3>8 DEF News!SetBroken
    <3>. QED
      BY <1>1, <3>7, <3>8 DEF News!FetchFeed
  <2>2. found' \in [Feeds -> SUBSET Articles]
    <3>1. News!Young(f) \in SUBSET Articles
      BY DEF News!Young
    <3>2. found' = found \/ found' = [found EXCEPT ![f] = News!Young(f)]
      BY <1>1 DEF News!FetchFeed
    <3>3. found \in [Feeds -> SUBSET Articles]
      BY DEF News!TypeOK
    <3>. QED
      BY <3>1, <3>2, <3>3
  <2>3. feedStep' \in [Feeds -> {"none", "fetch", "topic", "insert", "summarize", "update"}]
    BY <1>1 DEF News!FetchFeed, News!TypeOK
  <2>. QED
    BY <1>1, <2>1, <2>2, <2>3 DEF News!FetchFeed, News!TypeOK
<1>2. CASE News!InsertTopic(f)
  <2>1. topics' \in Seq(News!Names) /\ News!ToSet(topics') \subseteq News!Names
            /\ News!IsInjective(topics')
    <3>1. TopicOfFeed[f] \in News!Names
      BY DEF News!Names
    <3>2. topics \in Seq(News!Names) /\ News!ToSet(topics) \subseteq News!Names
              /\ News!IsInjective(topics)
      BY DEF News!TypeOK
    <3>3. CASE topics' = topics
      BY <3>2, <3>3
    <3>4. CASE TopicOfFeed[f] \notin News!ToSet(topics) /\ topics' = Append(topics, TopicOfFeed[f])
      BY <3>1, <3>2, <3>4 DEF News!ToSet, News!IsInjective
    <3>. QED
      BY <1>2, <3>3, <3>4 DEF News!InsertTopic
  <2>. QED
    BY <1>2, <2>1 DEF News!InsertTopic, News!TypeOK
<1>3. CASE News!InsertArticle(f)
  <2>1. UNCHANGED <<now, refresh, feedStep, ready, broken, topics, failed, purge, restarts>>
    BY <1>3 DEF News!InsertArticle
  <2>2. PICK a \in found[f] :
          /\ found' = [found EXCEPT ![f] = @ \ {a}]
          /\ \/ /\ table' = [table EXCEPT ![a] = "bare"]
                /\ fresh' = [fresh EXCEPT ![f] = @ \union {a}]
             \/ UNCHANGED <<table, fresh>>
    BY <1>3 DEF News!InsertArticle
  <2>3. a \in Articles
    BY DEF News!TypeOK
  <2>4. found' \in [Feeds -> SUBSET Articles]
    BY <2>2 DEF News!TypeOK
  <2>5. /\ fresh' \in [Feeds -> SUBSET Articles] /\ \A g \in Feeds : ready[g] \subseteq fresh'[g]
        /\ table' \in [Articles -> {"absent", "bare", "full"}]
    <3>1. /\ fresh \in [Feeds -> SUBSET Articles] /\ \A g \in Feeds : ready[g] \subseteq fresh[g]
          /\ table \in [Articles -> {"absent", "bare", "full"}]
      BY Zenon DEF News!TypeOK
    <3>2. fresh' = [fresh EXCEPT ![f] = @ \union {a}] \/ fresh' = fresh
      BY <2>2
    <3>3. table' = [table EXCEPT ![a] = "bare"] \/ table' = table
      BY <2>2
    <3>4. table' \in [Articles -> {"absent", "bare", "full"}]
      BY <3>1, <3>3, <2>3
    <3>. QED
      BY <3>1, <3>2, <3>4, <2>3
  <2>. QED
    BY <2>1, <2>4, <2>5 DEF News!TypeOK
<1>4. CASE News!Summarize(f)
  BY <1>4 DEF News!Summarize, News!TypeOK
<1>5. CASE News!UpdateArticle(f)
  <2>1. PICK a \in ready[f] :
          \/ /\ ready' = [ready EXCEPT ![f] = @ \ {a}]
             /\ table' = [table EXCEPT ![a] = IF @ = "absent" THEN @ ELSE "full"]
             /\ UNCHANGED <<feedStep, fresh, failed>>
          \/ /\ ready' = [ready EXCEPT ![f] = {}]
             /\ fresh' = [fresh EXCEPT ![f] = {}]
             /\ feedStep' = [feedStep EXCEPT ![f] = "none"]
             /\ failed' = failed \union ready[f]
             /\ UNCHANGED table
    BY <1>5 DEF News!UpdateArticle
  <2>2. a \in Articles
    BY <2>1 DEF News!TypeOK
  <2>3. UNCHANGED <<now, refresh, found, broken, topics, purge, restarts>>
    BY <1>5 DEF News!UpdateArticle
  <2>4. /\ ready' \in [Feeds -> SUBSET Articles] /\ fresh' \in [Feeds -> SUBSET Articles]
        /\ \A g \in Feeds : ready'[g] \subseteq fresh'[g]
    <3>1. /\ ready \in [Feeds -> SUBSET Articles] /\ fresh \in [Feeds -> SUBSET Articles]
          /\ \A g \in Feeds : ready[g] \subseteq fresh[g]
      BY Zenon DEF News!TypeOK
    <3>2. \/ ready' = [ready EXCEPT ![f] = @ \ {a}] /\ fresh' = fresh
          \/ ready' = [ready EXCEPT ![f] = {}] /\ fresh' = [fresh EXCEPT ![f] = {}]
      BY <2>1
    <3>. QED
      BY <3>1, <3>2
  <2>5. /\ table' \in [Articles -> {"absent", "bare", "full"}]
        /\ feedStep' \in [Feeds -> {"none", "fetch", "topic", "insert", "summarize", "update"}]
        /\ failed' \subseteq Articles
    BY <2>1, <2>2 DEF News!TypeOK
  <2>. QED
    BY <2>3, <2>4, <2>5 DEF News!TypeOK
<1>6. CASE News!FeedDone(f) \/ News!FeedFails(f)
  BY <1>6 DEF News!FeedDone, News!FeedFails, News!TypeOK
<1>. QED
  BY <1>1, <1>2, <1>3, <1>4, <1>5, <1>6 DEF News!Feed

(* The types are kept by every step.                                       *)
LEMMA NextNewsTypes ==
  ASSUME News!NewsAssumption, NewsTypes, [News!Next]_News!vars
  PROVE  NewsTypes'
<1>1. CASE News!Tick
  <2>1. now' \in 0 .. MaxTime
    BY <1>1 DEF News!Tick, NewsTypes, News!TypeOK, News!NewsAssumption
  <2>. QED
    BY <1>1, <2>1 DEF News!Tick, NewsTypes, News!TypeOK, News!tasks
<1>2. CASE News!Refresh \/ News!RefreshDone
  BY <1>2 DEF News!Refresh, News!RefreshDone, NewsTypes, News!TypeOK, News!tasks
<1>3. CASE News!Purge
  BY <1>3 DEF News!Purge, NewsTypes, News!TypeOK, News!tasks
<1>4. CASE News!Restart
  <2>1. restarts' \in 0 .. MaxRestarts
    BY <1>4 DEF News!Restart, NewsTypes, News!TypeOK, News!NewsAssumption
  <2>2. broken' \in [News!Urls -> [attempts : 0 .. Retries, next : 0 .. MaxTime + Cooldown]]
    BY <1>4 DEF News!Restart, News!Whole, News!NewsAssumption
  <2>3. failed' \subseteq Articles
    BY <1>4 DEF News!Restart, NewsTypes, News!TypeOK
  <2>. QED
    BY <1>4, <2>1, <2>2, <2>3 DEF News!Restart, NewsTypes, News!TypeOK
<1>5. CASE UNCHANGED News!vars
  BY <1>5 DEF News!vars, News!tasks, NewsTypes, News!TypeOK
<1>. QED
  BY <1>1, <1>2, <1>3, <1>4, <1>5, FeedType DEF News!Next

(* What a task has found and inserted is of its own feed, and what it has  *)
(* tried to summarize without success is taken note of.                    *)
OwnArticles == \A f \in Feeds : \A a \in found[f] \union fresh[f] : FeedOf[a] = f

(* A task that stores its summaries has lost none it did not report.       *)
TriedInv ==
    \A f \in Feeds : feedStep[f] = "update" =>
        \A a \in fresh[f] \ ready[f] : table[a] = "bare" => a \in failed

(* The inductive invariant.                                                *)
NewsInv == NewsTypes /\ OwnArticles /\ TriedInv /\ News!BareHasFailed

(* No step of a task loses an article of its own or of another task.       *)
LEMMA FeedKeeps ==
  ASSUME News!NewsAssumption, NewsInv, NEW f \in Feeds, News!Feed(f)
  PROVE  OwnArticles' /\ TriedInv' /\ News!BareHasFailed'
<1>a. /\ feedStep \in [Feeds -> {"none", "fetch", "topic", "insert", "summarize", "update"}]
      /\ found \in [Feeds -> SUBSET Articles]
      /\ fresh \in [Feeds -> SUBSET Articles]
      /\ ready \in [Feeds -> SUBSET Articles]
      /\ \A g \in Feeds : ready[g] \subseteq fresh[g]
      /\ table \in [Articles -> {"absent", "bare", "full"}]
      /\ failed \subseteq Articles
  BY Zenon DEF NewsInv, NewsTypes, News!TypeOK
<1>b. FeedOf \in [Articles -> Feeds]
  BY DEF News!NewsAssumption
<1>c. OwnArticles /\ TriedInv /\ News!BareHasFailed
  BY DEF NewsInv
<1>. USE <1>a, <1>b, <1>c DEF OwnArticles, TriedInv, News!BareHasFailed
<1>1. CASE News!FetchFeed(f)
  BY <1>1 DEF News!FetchFeed, News!Young
<1>2. CASE News!InsertTopic(f)
  BY <1>2 DEF News!InsertTopic
<1>3. CASE News!InsertArticle(f)
  BY <1>3 DEF News!InsertArticle, News!IsNew
<1>4. CASE News!Summarize(f)
  BY <1>4 DEF News!Summarize
<1>5. CASE News!UpdateArticle(f)
  BY <1>5 DEF News!UpdateArticle
<1>6. CASE News!FeedDone(f) \/ News!FeedFails(f)
  BY <1>6 DEF News!FeedDone, News!FeedFails
<1>. QED
  BY <1>1, <1>2, <1>3, <1>4, <1>5, <1>6 DEF News!Feed

(* A refresh, a purge and a restart keep it as well.                       *)
LEMMA NewsKept == ASSUME News!NewsAssumption PROVE News!Spec => []NewsInv
<1>1. News!Init => NewsInv
  BY InitNewsTypes DEF NewsInv, News!Init, OwnArticles, TriedInv, News!BareHasFailed
<1>2. ASSUME NewsInv, [News!Next]_News!vars PROVE NewsInv'
  <2>. USE <1>2
  <2>0. NewsTypes'
    BY NextNewsTypes DEF NewsInv
  <2>1. CASE News!Tick \/ UNCHANGED News!vars
    BY <2>0, <2>1 DEF News!Tick, News!vars, News!tasks, NewsInv, OwnArticles, TriedInv,
                      News!BareHasFailed
  <2>2. CASE News!RefreshDone
    BY <2>0, <2>2 DEF News!RefreshDone, News!tasks, NewsInv, OwnArticles, TriedInv,
                      News!BareHasFailed
  <2>3. CASE News!Refresh
    <3>1. \A f \in Feeds : feedStep'[f] # "update"
      BY <2>3 DEF News!Refresh
    <3>. QED
      BY <2>0, <2>3, <3>1 DEF News!Refresh, NewsInv, OwnArticles, TriedInv,
                              News!BareHasFailed
  <2>4. CASE News!Purge
    BY <2>0, <2>4 DEF News!Purge, News!tasks, NewsInv, OwnArticles, TriedInv,
                      News!BareHasFailed, NewsTypes, News!TypeOK, News!NewsAssumption
  <2>5. CASE News!Restart
    <3>1. \A f \in Feeds : feedStep'[f] = "none" /\ found'[f] = {} /\ fresh'[f] = {}
      BY <2>5 DEF News!Restart
    <3>2. News!BareHasFailed'
      <4>1. table' = table /\ failed' = failed \union UNION {fresh[f] : f \in Feeds}
        BY <2>5 DEF News!Restart
      <4>2. FeedOf \in [Articles -> Feeds]
        BY DEF News!NewsAssumption
      <4>. QED
        BY <4>1, <4>2 DEF NewsInv, News!BareHasFailed
    <3>. QED
      BY <2>0, <3>1, <3>2 DEF NewsInv, OwnArticles, TriedInv
  <2>6. ASSUME NEW f \in Feeds, News!Feed(f) PROVE NewsInv'
    BY <2>0, <2>6, FeedKeeps DEF NewsInv
  <2>. QED
    BY <2>1, <2>2, <2>3, <2>4, <2>5, <2>6 DEF News!Next
<1>. QED
  BY <1>1, <1>2, PTL DEF News!Spec

(* For any feeds, articles and configuration: an article without content   *)
(* that no task works on is one whose summary has failed, was not stored   *)
(* or was cut off (refresh_task).                                          *)
THEOREM BareAlwaysFailed ==
  ASSUME News!NewsAssumption
  PROVE  News!Spec => []News!BareHasFailed
<1>1. NewsInv => News!BareHasFailed
  BY DEF NewsInv
<1>. QED
  BY <1>1, NewsKept, PTL

(* No step sets an article with content back to one without               *)
(* (insert_article, update_article, purge_task).                           *)
THEOREM ContentAlwaysKept ==
  ASSUME News!NewsAssumption
  PROVE  News!Spec => News!ContentIsKept
<1>1. ASSUME NewsInv, [News!Next]_News!vars
      PROVE  [\A a \in Articles : table[a] = "full" => table'[a] \in {"full",
      "absent"}]_News!vars
  <2>. USE <1>1
  <2>1. table \in [Articles -> {"absent", "bare", "full"}]
    BY DEF NewsInv, NewsTypes, News!TypeOK
  <2>2. CASE UNCHANGED table
    BY <2>2
  <2>3. CASE News!Purge
    BY <2>1, <2>3 DEF News!Purge
  <2>4. ASSUME NEW f \in Feeds, News!InsertArticle(f)
        PROVE  \A a \in Articles : table[a] = "full" => table'[a] \in {"full", "absent"}
    BY <2>1, <2>4 DEF News!InsertArticle, News!IsNew
  <2>5. ASSUME NEW f \in Feeds, News!UpdateArticle(f)
        PROVE  \A a \in Articles : table[a] = "full" => table'[a] \in {"full", "absent"}
    BY <2>1, <2>5 DEF News!UpdateArticle
  <2>. QED
    BY <2>2, <2>3, <2>4, <2>5
       DEF News!Next, News!Feed, News!Tick, News!Refresh, News!RefreshDone, News!Restart,
           News!FetchFeed, News!InsertTopic, News!Summarize,
           News!FeedDone, News!FeedFails, News!vars
<1>. QED
  BY <1>1, NewsKept, PTL DEF News!Spec, News!ContentIsKept

(* No task is spawned for a URL that has failed too often before its       *)
(* cooldown is over (fetch_active_sources).                                *)
THEOREM CooldownAlwaysKept ==
  ASSUME News!NewsAssumption
  PROVE  News!Spec => News!CooldownKept
<1>. DEFINE P == \A f \in Feeds : News!Idle(f) /\ feedStep'[f] = "fetch" =>
                     ~(broken[UrlOf[f]].attempts = Retries /\ now < broken[UrlOf[f]].next)
<1>1. ASSUME NewsInv, [News!Next]_News!vars PROVE [P]_News!vars
  <2>. USE <1>1
  <2>1. feedStep \in [Feeds -> {"none", "fetch", "topic", "insert", "summarize", "update"}]
    BY DEF NewsInv, NewsTypes, News!TypeOK
  <2>2. CASE News!Refresh
    <3>1. ASSUME NEW f \in Feeds, feedStep'[f] = "fetch" PROVE News!Active(UrlOf[f])
      BY <2>2, <3>1 DEF News!Refresh
    <3>2. ASSUME NEW u \in News!Urls, News!Active(u)
          PROVE  ~(broken[u].attempts = Retries /\ now < broken[u].next)
      <4>1. /\ broken[u].next \in Nat /\ broken[u].attempts \in Nat
            /\ now \in Nat /\ Retries \in Nat
        <5>1. now \in 0 .. MaxTime /\ MaxTime \in Nat /\ Cooldown \in Nat /\ Retries \in Nat
          BY Zenon DEF NewsInv, NewsTypes, News!TypeOK, News!NewsAssumption
        <5>2. broken \in [News!Urls -> [attempts : 0 .. Retries,
        next : 0 .. MaxTime + Cooldown]]
          BY Zenon DEF NewsInv, NewsTypes, News!TypeOK
        <5>. QED
          BY <5>1, <5>2
      <4>. QED
        BY <4>1, <3>2 DEF News!Active
    <3>. QED
      BY <3>1, <3>2 DEF News!Urls
  <2>3. ASSUME \A f \in Feeds : feedStep'[f] = "fetch" => feedStep[f] = "fetch" PROVE P
    BY <2>3 DEF News!Idle
  <2>4. ASSUME NEW f \in Feeds, News!Feed(f)
        PROVE  \A g \in Feeds : feedStep'[g] = "fetch" => feedStep[g] = "fetch"
    BY <2>1, <2>4 DEF News!Feed, News!FetchFeed, News!InsertTopic, News!InsertArticle,
                      News!Summarize, News!UpdateArticle,
                      News!FeedDone, News!FeedFails
  <2>. QED
    BY <2>2, <2>3, <2>4 DEF News!Next, News!Tick, News!RefreshDone, News!Purge,
                            News!Restart, News!tasks, News!vars
<1>. QED
  BY <1>1, NewsKept, PTL DEF News!Spec, News!CooldownKept

-----------------------------------------------------------------------------
(* KnowledgeBank.                                                          *)

(* One call of knowledge_bank_next_question at a time.                     *)
OneCall == \A c, d \in Calls : c = d

(* The types, with those of the history variables.                         *)
BankTypes ==
    /\ Bank!TypeOK
    /\ due \in [Bank!Items -> Nat]
    /\ passed \in [Watched -> [Bank!Items -> Nat]]
    /\ \A c \in Calls : callStep[c] = "mark entry" => picked[c] \in entries

(* What the arithmetic below uses.                                         *)
LEMMA Numbers ==
  ASSUME Bank!KnowledgeAssumption, Bank!TypeOK
  PROVE  /\ today \in Nat /\ MaxDay \in Nat /\ today <= MaxDay
         /\ changes \in Nat /\ MaxChanges \in Nat /\ changes <= MaxChanges
         /\ None \notin Nat
         /\ \A i \in Bank!Items : affinity[i] # None => affinity[i] \in Nat
<1>1. /\ today \in 0 .. MaxDay /\ MaxDay \in Nat
      /\ changes \in 0 .. MaxChanges /\ MaxChanges \in Nat
  BY Zenon DEF Bank!KnowledgeAssumption, Bank!TypeOK
<1>2. None \notin Nat
  BY Zenon DEF Bank!KnowledgeAssumption
<1>3. affinity \in [Bank!Items -> (Days \ {0}) \union {None}] /\ Days \subseteq Nat
  BY Zenon DEF Bank!KnowledgeAssumption, Bank!TypeOK
<1>4. \A i \in Bank!Items : affinity[i] # None => affinity[i] \in Nat
  BY <1>3
<1>. QED
  BY <1>1, <1>2, <1>4

(* A bank filled from the files has its types.                             *)
LEMMA InitBankTypes == ASSUME Bank!KnowledgeAssumption, Bank!Init PROVE BankTypes
BY DEF Bank!KnowledgeAssumption, Bank!Init, BankTypes, Bank!TypeOK, Bank!Items, Bank!Steps

(* A return ends a call, whatever it had read.                             *)
LEMMA GoToType ==
  ASSUME Bank!TypeOK, NEW c \in Calls, NEW s \in Bank!Steps, NEW a \in BOOLEAN,
         NEW p \in Bank!Items \union {None}, Bank!GoTo(c, s, a, p),
         s = "mark topic" => p \in Topics,
         s \in {"entry", "reset entries"} => p \in Topics,
         s = "mark entry" => p \in Entries
  PROVE  /\ callStep' \in [Calls -> Bank!Steps]
         /\ again' \in [Calls -> BOOLEAN]
         /\ picked' \in [Calls -> Bank!Items \union {None}]
         /\ \A d \in Calls : /\ callStep'[d] = "mark topic" => picked'[d] \in Topics
                             /\ callStep'[d] \in {"entry", "reset entries"} => picked'[d] \in Topics
                             /\ callStep'[d] = "mark entry" => picked'[d] \in Entries
BY DEF Bank!TypeOK, Bank!GoTo

(* What a trigger writes into disabled_until is a day.                     *)
LEMMA RestedType ==
  ASSUME Bank!KnowledgeAssumption, Bank!TypeOK, NEW i \in Bank!Items
  PROVE  /\ Bank!Rested(i) \in [Bank!Items -> Nat \union {None}]
         /\ affinity[i] # None => today + affinity[i] \in Nat
<1>2. affinity[i] # None => today + affinity[i] \in Nat
  BY Numbers
<1>3. Bank!Rested(i) \in [Bank!Items -> Nat \union {None}]
  BY <1>2 DEF Bank!TypeOK, Bank!Rested
<1>. QED
  BY <1>2, <1>3

(* The history variables keep their types when an item is taken.           *)
LEMMA TakenType ==
  ASSUME Bank!KnowledgeAssumption, BankTypes, NEW i \in Bank!Items, NEW Kind, Bank!Taken(i, Kind)
  PROVE  /\ due' \in [Bank!Items -> Nat]
         /\ passed' \in [Watched -> [Bank!Items -> Nat]]
<1>1. due' \in [Bank!Items -> Nat]
  <2>1. affinity[i] # None => today + affinity[i] \in Nat
    BY RestedType DEF BankTypes
  <2>. QED
    BY <2>1 DEF BankTypes, Bank!Taken
<1>2. passed' \in [Watched -> [Bank!Items -> Nat]]
  <2>1. ASSUME NEW u \in Watched, NEW t \in Bank!Items
        PROVE  passed[u][t] \in Nat /\ passed[u][t] + 1 \in Nat
    <3>1. passed \in [Watched -> [Bank!Items -> Nat]]
      BY DEF BankTypes
    <3>. QED
      BY <3>1
  <2>. QED
    BY <2>1 DEF Bank!Taken
<1>. QED
  BY <1>1, <1>2

(* The types are kept by every step.                                       *)
LEMMA NextBankTypes ==
  ASSUME Bank!KnowledgeAssumption, BankTypes, [Bank!Next]_Bank!vars
  PROVE  BankTypes'
<1>. Bank!TypeOK
  BY DEF BankTypes
<1>1. CASE Bank!NextDay
  <2>1. today' \in 0 .. MaxDay
    <3>1. today' = today + 1 /\ today < MaxDay
      BY <1>1 DEF Bank!NextDay
    <3>. QED
      BY <3>1, Numbers
  <2>. QED
    BY <1>1, <2>1 DEF Bank!NextDay, BankTypes, Bank!TypeOK, Bank!rows, Bank!call, Bank!seen
<1>2. ASSUME NEW c \in Calls,
             Bank!NextQuestion(c) \/ Bank!CountTopics(c) \/ Bank!FetchTopic(c)
                 \/ Bank!FetchEntry(c) \/ Bank!QuestionFails(c)
      PROVE  BankTypes'
  <2>1. UNCHANGED <<today, Bank!rows, Bank!seen, changes>>
    BY <1>2 DEF Bank!NextQuestion, Bank!CountTopics, Bank!FetchTopic, Bank!FetchEntry,
                Bank!QuestionFails
  <2>2. PICK s \in Bank!Steps, a \in BOOLEAN, p \in Bank!Items \union {None} :
          /\ Bank!GoTo(c, s, a, p)
          /\ s = "mark topic" => p \in Topics
          /\ s \in {"entry", "reset entries"} => p \in Topics
          /\ s = "mark entry" => p \in Entries /\ p \in entries
    BY <1>2 DEF Bank!NextQuestion, Bank!CountTopics, Bank!FetchTopic, Bank!FetchEntry,
                Bank!QuestionFails, Bank!Return, Bank!Of,
                Bank!Steps, Bank!Items, Bank!TypeOK
  <2>3. /\ callStep' \in [Calls -> Bank!Steps]
        /\ again' \in [Calls -> BOOLEAN]
        /\ picked' \in [Calls -> Bank!Items \union {None}]
        /\ \A d \in Calls : /\ callStep'[d] = "mark topic" => picked'[d] \in Topics
                            /\ callStep'[d] \in {"entry", "reset entries"} => picked'[d] \in Topics
                            /\ callStep'[d] = "mark entry" => picked'[d] \in Entries
    BY <2>2, GoToType
  <2>4. \A d \in Calls : callStep'[d] = "mark entry" => picked'[d] \in entries
    BY <2>2 DEF Bank!GoTo, BankTypes, Bank!TypeOK
  <2>. QED
    BY <2>1, <2>3, <2>4 DEF BankTypes, Bank!TypeOK, Bank!rows, Bank!seen
<1>3. ASSUME NEW c \in Calls, Bank!ResetTopics(c) PROVE BankTypes'
  BY <1>3 DEF Bank!ResetTopics, Bank!GoTo, BankTypes, Bank!TypeOK, Bank!seen, Bank!Steps
<1>4. ASSUME NEW c \in Calls, Bank!MarkTopic(c) PROVE BankTypes'
  <2>1. picked[c] \in Topics /\ picked[c] \in Bank!Items
    BY <1>4 DEF Bank!MarkTopic, Bank!TypeOK, Bank!Items
  <2>2. /\ due' \in [Bank!Items -> Nat]
        /\ passed' \in [Watched -> [Bank!Items -> Nat]]
    BY <1>4, <2>1, TakenType DEF Bank!MarkTopic
  <2>3. disabled' \in [Bank!Items -> Nat \union {None}]
    BY <1>4, <2>1, RestedType DEF Bank!MarkTopic, Bank!TypeOK
  <2>4. /\ callStep' \in [Calls -> Bank!Steps]
        /\ again' \in [Calls -> BOOLEAN]
        /\ picked' \in [Calls -> Bank!Items \union {None}]
        /\ \A d \in Calls : /\ callStep'[d] = "mark topic" => picked'[d] \in Topics
                            /\ callStep'[d] \in {"entry", "reset entries"} => picked'[d] \in Topics
                            /\ callStep'[d] = "mark entry" => picked'[d] \in Entries
    BY <1>4, <2>1 DEF Bank!MarkTopic, Bank!GoTo, Bank!TypeOK, Bank!Steps
  <2>. QED
    <3>1. used' \in [Topics -> BOOLEAN]
              /\ UNCHANGED <<today, reviewed, affinity, review, entries, changes>>
      BY <1>4 DEF Bank!MarkTopic, Bank!TypeOK
    <3>2. \A d \in Calls : callStep'[d] = "mark entry" => picked'[d] \in entries
      BY <1>4 DEF Bank!MarkTopic, Bank!GoTo, BankTypes, Bank!TypeOK
    <3>. QED
      BY <3>1, <3>2, <2>2, <2>3, <2>4 DEF BankTypes, Bank!TypeOK
<1>5. ASSUME NEW c \in Calls, Bank!ResetEntries(c) PROVE BankTypes'
  <2>1. reviewed' \in [Entries -> BOOLEAN]
        /\ \A e \in Entries \ entries : ~reviewed'[e]
    BY <1>5 DEF Bank!ResetEntries, Bank!TypeOK
  <2>. QED
    BY <1>5, <2>1 DEF Bank!ResetEntries, Bank!GoTo, BankTypes, Bank!TypeOK, Bank!seen,
                      Bank!Steps
<1>6. ASSUME NEW c \in Calls, Bank!MarkEntry(c) PROVE BankTypes'
  <2>1. picked[c] \in entries /\ picked[c] \in Entries /\ picked[c] \in Bank!Items
    BY <1>6 DEF Bank!MarkEntry, BankTypes, Bank!TypeOK, Bank!Items
  <2>2. /\ due' \in [Bank!Items -> Nat]
        /\ passed' \in [Watched -> [Bank!Items -> Nat]]
    BY <1>6, <2>1, TakenType DEF Bank!MarkEntry
  <2>3. disabled' \in [Bank!Items -> Nat \union {None}]
    BY <1>6, <2>1, RestedType DEF Bank!MarkEntry, Bank!TypeOK
  <2>4. reviewed' \in [Entries -> BOOLEAN] /\ \A e \in Entries \ entries : ~reviewed'[e]
    BY <1>6, <2>1 DEF Bank!MarkEntry, Bank!TypeOK
  <2>5. review' \in [Entries -> {0, 1, None}] /\ \A e \in Entries \ entries : review'[e] = None
    BY <1>6, <2>1 DEF Bank!MarkEntry, Bank!NewReview, Bank!TypeOK
  <2>6. /\ callStep' \in [Calls -> Bank!Steps]
        /\ again' \in [Calls -> BOOLEAN]
        /\ picked' \in [Calls -> Bank!Items \union {None}]
        /\ \A d \in Calls : /\ callStep'[d] = "mark topic" => picked'[d] \in Topics
                            /\ callStep'[d] \in {"entry", "reset entries"} => picked'[d] \in Topics
                            /\ callStep'[d] = "mark entry" =>
                                     picked'[d] \in Entries /\ picked'[d] \in entries
    BY <1>6 DEF Bank!MarkEntry, Bank!Return, Bank!GoTo, BankTypes, Bank!TypeOK, Bank!Steps
  <2>. QED
    BY <1>6, <2>2, <2>3, <2>4, <2>5, <2>6 DEF Bank!MarkEntry, BankTypes, Bank!TypeOK
<1>7. ASSUME NEW i \in Bank!Items, NEW d \in Days, Bank!SetAffinity(i, d) PROVE BankTypes'
  <2>1. affinity' \in [Bank!Items -> (Days \ {0}) \union {None}]
    BY <1>7 DEF Bank!SetAffinity, Bank!DaysOrNull, Bank!TypeOK
  <2>2. disabled' \in [Bank!Items -> Nat \union {None}]
    BY <1>7 DEF Bank!SetAffinity, Bank!Enabled, Bank!TypeOK
  <2>3. due' \in [Bank!Items -> Nat]
    BY <1>7 DEF Bank!SetAffinity, BankTypes
  <2>4. changes' \in 0 .. MaxChanges
    <3>1. changes < MaxChanges /\ changes' = changes + 1
      BY <1>7 DEF Bank!SetAffinity
    <3>. QED
      BY <3>1, Numbers
  <2>. QED
    BY <1>7, <2>1, <2>2, <2>3, <2>4 DEF Bank!SetAffinity, BankTypes, Bank!TypeOK, Bank!call
<1>8. ASSUME NEW e \in Entries, Bank!UpdateReview(e) PROVE BankTypes'
  <2>1. e \in entries
    <3>1. review[e] = 0 /\ \A d \in Entries \ entries : review[d] = None
      BY <1>8 DEF Bank!UpdateReview, Bank!TypeOK
    <3>2. None # 0
      BY Numbers
    <3>. QED
      BY <3>1, <3>2
  <2>2. review' \in [Entries -> {0, 1, None}] /\ \A d \in Entries \ entries : review'[d] = None
    BY <1>8, <2>1 DEF Bank!UpdateReview, Bank!TypeOK
  <2>. QED
    BY <1>8, <2>2 DEF Bank!UpdateReview, BankTypes, Bank!TypeOK, Bank!call, Bank!seen
<1>9. ASSUME NEW e \in Entries, Bank!AddNewEntry(e) PROVE BankTypes'
  BY <1>9 DEF Bank!AddNewEntry, BankTypes, Bank!TypeOK, Bank!call, Bank!seen
<1>10. CASE UNCHANGED Bank!vars
  BY <1>10 DEF Bank!vars, Bank!rows, Bank!call, Bank!seen, BankTypes, Bank!TypeOK
<1>. QED
  BY <1>1, <1>2, <1>3, <1>4, <1>5, <1>6, <1>7, <1>8, <1>9, <1>10
     DEF Bank!Next, Bank!Question, Bank!SetTopicAffinity, Bank!SetEntryAffinity, Bank!Items

(* What a call does before it marks leaves the tables alone.               *)
Looks(c) ==
    Bank!NextQuestion(c) \/ Bank!CountTopics(c) \/ Bank!FetchTopic(c)
        \/ Bank!FetchEntry(c) \/ Bank!QuestionFails(c)

(* The reading steps of a call.                                            *)
LEMMA LooksOnly ==
  ASSUME NEW c, Looks(c)
  PROVE  UNCHANGED <<today, Bank!rows, Bank!seen, changes>>
BY DEF Looks, Bank!NextQuestion, Bank!CountTopics, Bank!FetchTopic, Bank!FetchEntry,
       Bank!QuestionFails

(* The steps there are.                                                    *)
LEMMA Cases ==
  ASSUME [Bank!Next]_Bank!vars
  PROVE  \/ Bank!NextDay \/ UNCHANGED Bank!vars
         \/ \E c \in Calls : Looks(c)
         \/ \E c \in Calls : Bank!ResetTopics(c) \/ Bank!MarkTopic(c)
                \/ Bank!ResetEntries(c) \/ Bank!MarkEntry(c)
         \/ \E i \in Bank!Items, d \in Days : Bank!SetAffinity(i, d)
         \/ \E e \in Entries : Bank!UpdateReview(e) \/ Bank!AddNewEntry(e)
BY DEF Bank!Next, Bank!Question, Looks, Bank!SetTopicAffinity, Bank!SetEntryAffinity,
       Bank!Items

(* The triggers of marking and of changing an affinity agree.              *)
LEMMA NextDisabled ==
  ASSUME Bank!KnowledgeAssumption, BankTypes, Bank!DisabledHasAffinity, [Bank!Next]_Bank!vars
  PROVE  Bank!DisabledHasAffinity'
<1>. USE DEF Bank!DisabledHasAffinity
<1>. disabled \in [Bank!Items -> Nat \union {None}]
         /\ affinity \in [Bank!Items -> (Days \ {0}) \union {None}]
  BY DEF BankTypes, Bank!TypeOK
<1>1. CASE UNCHANGED <<disabled, affinity>>
  BY <1>1
<1>2. ASSUME NEW c \in Calls, Bank!MarkTopic(c) \/ Bank!MarkEntry(c)
      PROVE  Bank!DisabledHasAffinity'
  BY <1>2 DEF Bank!MarkTopic, Bank!MarkEntry, Bank!Rested
<1>3. ASSUME NEW i \in Bank!Items, NEW d \in Days, Bank!SetAffinity(i, d)
      PROVE  Bank!DisabledHasAffinity'
  BY <1>3 DEF Bank!SetAffinity, Bank!Enabled
<1>. QED
  BY <1>1, <1>2, <1>3, Cases, LooksOnly
     DEF Bank!NextDay, Bank!vars, Bank!rows, Bank!ResetTopics, Bank!ResetEntries,
         Bank!UpdateReview, Bank!AddNewEntry

(* An entry is marked and gets its review row in one statement.            *)
LEMMA NextReviewed ==
  ASSUME Bank!KnowledgeAssumption, BankTypes, Bank!ReviewedHasRow, [Bank!Next]_Bank!vars
  PROVE  Bank!ReviewedHasRow'
<1>. USE DEF Bank!ReviewedHasRow
<1>. reviewed \in [Entries -> BOOLEAN] /\ review \in [Entries -> {0, 1, None}]
  BY DEF BankTypes, Bank!TypeOK
<1>a. None # 0 /\ None # 1
  <2>1. None \notin Nat
    BY Zenon DEF Bank!KnowledgeAssumption
  <2>. QED
    BY <2>1
<1>1. CASE UNCHANGED <<reviewed, review>>
  BY <1>1
<1>2. ASSUME NEW c \in Calls, Bank!MarkEntry(c) PROVE Bank!ReviewedHasRow'
  BY <1>a, <1>2 DEF Bank!MarkEntry, Bank!NewReview
<1>3. ASSUME NEW c \in Calls, Bank!ResetEntries(c) PROVE Bank!ReviewedHasRow'
  BY <1>3 DEF Bank!ResetEntries
<1>4. ASSUME NEW e \in Entries, Bank!UpdateReview(e) PROVE Bank!ReviewedHasRow'
  BY <1>a, <1>4 DEF Bank!UpdateReview
<1>. QED
  BY <1>1, <1>2, <1>3, <1>4, Cases, LooksOnly
     DEF Bank!NextDay, Bank!vars, Bank!rows, Bank!ResetTopics, Bank!MarkTopic,
         Bank!SetAffinity, Bank!AddNewEntry

(* What was taken with an affinity is disabled until then, or longer.      *)
DueInv == \A i \in Bank!Items : due[i] = 0 \/ (disabled[i] # None /\ due[i] <= disabled[i])

(* What a call has read still holds: only a call marks, and it is the only one. *)
CallInv ==
    \A c \in Calls :
        /\ callStep[c] \in {"topic", "reset topics"} => \E t \in Topics : Bank!Free(t)
        /\ callStep[c] = "topic" /\ again[c] => \A t \in Topics : ~used[t]
        /\ callStep[c] = "mark topic" => ~used[picked[c]] /\ Bank!Free(picked[c])
        /\ callStep[c] = "mark entry" => ~reviewed[picked[c]] /\ Bank!Free(picked[c])

(* Time and the user end rests and begin none.                             *)
LEMMA FreeStays ==
  ASSUME Bank!KnowledgeAssumption, BankTypes, NEW i \in Bank!Items, Bank!Free(i),
         \/ Bank!NextDay
         \/ \E j \in Bank!Items, d \in Days : Bank!SetAffinity(j, d)
         \/ UNCHANGED <<today, disabled>>
  PROVE  Bank!Free(i)'
<1>. USE DEF Bank!Free
<1>. disabled \in [Bank!Items -> Nat \union {None}]
  BY DEF BankTypes, Bank!TypeOK
<1>0. Bank!TypeOK
  BY DEF BankTypes
<1>1. today \in Nat
  BY <1>0, Numbers, Zenon
<1>2. CASE Bank!NextDay
  BY <1>1, <1>2 DEF Bank!NextDay, Bank!rows
<1>3. ASSUME NEW j \in Bank!Items, NEW d \in Days, Bank!SetAffinity(j, d)
      PROVE  Bank!Free(i)'
  BY <1>3 DEF Bank!SetAffinity, Bank!Enabled
<1>. QED
  BY <1>2, <1>3

(* What the only call has read is changed by nobody else.                  *)
LEMMA NextCallInv ==
  ASSUME Bank!KnowledgeAssumption, OneCall, BankTypes, CallInv, [Bank!Next]_Bank!vars
  PROVE  CallInv'
<1>. USE DEF CallInv
<1>a. /\ callStep \in [Calls -> Bank!Steps] /\ picked \in [Calls -> Bank!Items \union {None}]
      /\ again \in [Calls -> BOOLEAN]
      /\ \A c \in Calls : /\ callStep[c] = "mark topic" => picked[c] \in Topics
                          /\ callStep[c] = "mark entry" => picked[c] \in Entries
      /\ used \in [Topics -> BOOLEAN] /\ reviewed \in [Entries -> BOOLEAN]
  BY Zenon DEF BankTypes, Bank!TypeOK
<1>b. Topics \subseteq Bank!Items /\ Entries \subseteq Bank!Items
  BY DEF Bank!Items
<1>1. ASSUME \A i \in Bank!Items : Bank!Free(i) => Bank!Free(i)', UNCHANGED <<used, reviewed,
             Bank!call>>
      PROVE  CallInv'
  BY <1>1, <1>a, <1>b DEF Bank!call
<1>2. CASE Bank!NextDay
  BY <1>1, <1>2, FreeStays DEF Bank!NextDay, Bank!rows
<1>3. CASE UNCHANGED Bank!vars
  BY <1>1, <1>3, FreeStays DEF Bank!vars, Bank!rows
<1>4. ASSUME NEW i \in Bank!Items, NEW d \in Days, Bank!SetAffinity(i, d) PROVE CallInv'
  BY <1>1, <1>4, FreeStays DEF Bank!SetAffinity
<1>5. ASSUME NEW e \in Entries, Bank!UpdateReview(e) \/ Bank!AddNewEntry(e) PROVE CallInv'
  BY <1>1, <1>5, FreeStays DEF Bank!UpdateReview, Bank!AddNewEntry
<1>6. ASSUME NEW c \in Calls, Looks(c) PROVE CallInv'
  <2>1. UNCHANGED <<today, disabled, used, reviewed>>
    BY <1>6, LooksOnly DEF Bank!rows
  <2>2. \A i \in Bank!Items : Bank!Free(i)' <=> Bank!Free(i)
    BY <2>1 DEF Bank!Free
  <2>3. \A d \in Calls : d = c
    BY DEF OneCall
  <2>4. ASSUME callStep'[c] \in {"idle", "count", "reset entries"} PROVE CallInv'
    BY <2>3, <2>4
  <2>5. CASE Bank!NextQuestion(c) \/ Bank!QuestionFails(c)
    BY <2>4, <2>5, <1>a DEF Bank!NextQuestion, Bank!QuestionFails, Bank!Return, Bank!GoTo
  <2>6. CASE Bank!CountTopics(c)
    BY <2>2, <2>3, <2>6, <1>a, <1>b DEF Bank!CountTopics, Bank!Return, Bank!GoTo
  <2>7. CASE Bank!FetchTopic(c)
    BY <2>1, <2>2, <2>3, <2>7, <1>a, <1>b DEF Bank!FetchTopic, Bank!Return, Bank!GoTo
  <2>8. CASE Bank!FetchEntry(c)
    <3>1. ASSUME NEW e \in Entries, ~reviewed[e], Bank!Free(e), Bank!GoTo(c, "mark entry", FALSE, e)
          PROVE  CallInv'
      <4>1. callStep'[c] = "mark entry" /\ picked'[c] = e
        BY <3>1, <1>a DEF Bank!GoTo
      <4>2. ~reviewed'[e] /\ Bank!Free(e)'
        BY <3>1, <2>1, <2>2, <1>b
      <4>. QED
        BY <2>3, <4>1, <4>2
    <3>2. \/ \E e \in Entries : ~reviewed[e] /\ Bank!Free(e) /\ Bank!GoTo(c, "mark entry", FALSE, e)
          \/ callStep'[c] \in {"idle", "reset entries"}
      BY <2>8, <1>a DEF Bank!FetchEntry, Bank!Of, Bank!Return, Bank!GoTo, BankTypes,
                        Bank!TypeOK
    <3>. QED
      BY <3>1, <3>2, <2>4
  <2>. QED
    BY <1>6, <2>5, <2>6, <2>7, <2>8 DEF Looks
<1>7. ASSUME NEW c \in Calls, Bank!ResetTopics(c) PROVE CallInv'
  <2>1. \A i \in Bank!Items : Bank!Free(i)' <=> Bank!Free(i)
    BY <1>7 DEF Bank!ResetTopics, Bank!Free
  <2>2. \A d \in Calls : d = c
    BY DEF OneCall
  <2>. QED
    BY <1>7, <1>a, <1>b, <2>1, <2>2 DEF Bank!ResetTopics, Bank!GoTo
<1>8. ASSUME NEW c \in Calls, Bank!MarkTopic(c) \/ Bank!ResetEntries(c) \/ Bank!MarkEntry(c)
      PROVE  CallInv'
  <2>1. callStep'[c] \in {"entry", "idle"}
    BY <1>8, <1>a DEF Bank!MarkTopic, Bank!ResetEntries, Bank!MarkEntry, Bank!Return,
                      Bank!GoTo
  <2>2. \A d \in Calls : d = c
    BY DEF OneCall
  <2>. QED
    BY <2>1, <2>2
<1>. QED
  BY <1>2, <1>3, <1>4, <1>5, <1>6, <1>7, <1>8, Cases

(* A rest that an affinity has begun is kept in the table.                 *)
LEMMA NextDueInv ==
  ASSUME Bank!KnowledgeAssumption, BankTypes, CallInv, DueInv, [Bank!Next]_Bank!vars
  PROVE  DueInv'
<1>. USE DEF DueInv
<1>a. /\ disabled \in [Bank!Items -> Nat \union {None}] /\ due \in [Bank!Items -> Nat]
      /\ affinity \in [Bank!Items -> (Days \ {0}) \union {None}]
  BY DEF BankTypes, Bank!TypeOK
<1>b. today \in Nat /\ None \notin Nat /\ \A i \in Bank!Items : affinity[i] # None
          => affinity[i] \in Nat
  BY Numbers DEF BankTypes
<1>1. CASE UNCHANGED <<disabled, due>>
  BY <1>1
<1>2. ASSUME NEW i \in Bank!Items, NEW Kind, Bank!Taken(i, Kind), disabled' = Bank!Rested(i)
      PROVE  DueInv'
  <2>1. ASSUME NEW j \in Bank!Items
        PROVE  due'[j] = 0 \/ (disabled'[j] # None /\ due'[j] <= disabled'[j])
    <3>1. CASE j # i
      BY <1>2, <1>a, <3>1 DEF Bank!Taken, Bank!Rested
    <3>2. CASE j = i /\ affinity[i] = None
      BY <1>2, <1>a, <3>2 DEF Bank!Taken
    <3>3. CASE j = i /\ affinity[i] # None
      <4>1. today + affinity[i] \in Nat
        BY <1>b, <3>3
      <4>2. due'[j] = today + affinity[i] /\ disabled'[j] = today + affinity[i]
        BY <1>2, <1>a, <3>3 DEF Bank!Taken, Bank!Rested
      <4>. QED
        BY <1>b, <4>1, <4>2
    <3>. QED
      BY <3>1, <3>2, <3>3
  <2>. QED
    BY <2>1
<1>3. ASSUME NEW c \in Calls, Bank!MarkTopic(c) PROVE DueInv'
  <2>1. picked[c] \in Bank!Items /\ ~used[picked[c]]
    BY <1>3 DEF CallInv, Bank!MarkTopic, BankTypes, Bank!TypeOK, Bank!Items
  <2>. QED
    BY <1>2, <1>3, <2>1 DEF Bank!MarkTopic
<1>4. ASSUME NEW c \in Calls, Bank!MarkEntry(c) PROVE DueInv'
  <2>1. picked[c] \in Bank!Items /\ ~reviewed[picked[c]]
    BY <1>4 DEF CallInv, Bank!MarkEntry, BankTypes, Bank!TypeOK, Bank!Items
  <2>. QED
    BY <1>2, <1>4, <2>1 DEF Bank!MarkEntry
<1>5. ASSUME NEW i \in Bank!Items, NEW d \in Days, Bank!SetAffinity(i, d) PROVE DueInv'
  BY <1>5, <1>a DEF Bank!SetAffinity, Bank!Enabled
<1>. QED
  BY <1>1, <1>3, <1>4, <1>5, Cases, LooksOnly
     DEF Bank!NextDay, Bank!vars, Bank!rows, Bank!seen, Bank!ResetTopics,
         Bank!ResetEntries, Bank!UpdateReview, Bank!AddNewEntry

(* How often an item may have been passed over by another of its kind:     *)
(* once while both or neither are marked, twice while only the other is,   *)
(* and never while only it is.                                             *)
Room(marked, other) == (IF marked THEN 0 ELSE 1) + (IF other THEN 1 ELSE 0)

(* The values of Room.                                                     *)
LEMMA Rooms ==
  /\ Room(FALSE, FALSE) = 1
  /\ \A b \in BOOLEAN : Room(TRUE, b) <= 1 /\ Room(b, TRUE) = Room(b, FALSE) + 1
<1>1. /\ Room(TRUE, TRUE) = 1 /\ Room(TRUE, FALSE) = 0
      /\ Room(FALSE, TRUE) = 2 /\ Room(FALSE, FALSE) = 1
  BY DEF Room
<1>a. 1 <= 1 /\ 0 <= 1 /\ 1 = 0 + 1 /\ 2 = 1 + 1
  OBVIOUS
<1>2. ASSUME NEW b \in BOOLEAN
      PROVE  Room(TRUE, b) <= 1 /\ Room(b, TRUE) = Room(b, FALSE) + 1
  <2>1. CASE b = TRUE
    <3>1. Room(TRUE, b) = 1 /\ Room(b, TRUE) = 1 /\ Room(b, FALSE) = 0
      BY <1>1, <2>1, Zenon
    <3>. QED
      BY <1>a, <3>1, Zenon
  <2>2. CASE b = FALSE
    <3>1. Room(TRUE, b) = 0 /\ Room(b, TRUE) = 2 /\ Room(b, FALSE) = 1
      BY <1>1, <2>2, Zenon
    <3>. QED
      BY <1>a, <3>1, Zenon
  <2>. QED
    BY <2>1, <2>2
<1>. QED
  BY <1>1, <1>2

(* What is watched has been passed over only by items of its own kind, and *)
(* no more often than there is room for.                                   *)
PassedInv ==
    \A u \in Watched, t \in Bank!Items :
        /\ ~Bank!Free(u) => passed[u][t] = 0
        /\ passed[u][t] # 0 =>
              (u \in Topics /\ t \in Topics) \/ (u \in entries /\ t \in Bank!Of(TopicOf[u]))
        /\ u \in Topics /\ t \in Topics => passed[u][t] <= Room(used[u], used[t])
        /\ u \in Entries /\ t \in Entries => passed[u][t] <= Room(reviewed[u], reviewed[t])

(* A reset finds nobody who waits and was passed over.                     *)
ResetInv ==
    \A c \in Calls, u \in Watched, t \in Bank!Items :
        /\ callStep[c] = "reset topics" /\ u \in Topics => used[u] \/ passed[u][t] = 0
        /\ callStep[c] = "reset entries" /\ u \in Bank!Of(picked[c]) =>
                 reviewed[u] \/ passed[u][t] = 0

(* Taking an item adds one to what it has passed over, and nothing else.   *)
LEMMA TakenPasses ==
  ASSUME Bank!KnowledgeAssumption, BankTypes, NEW i \in Bank!Items, NEW Kind, Bank!Taken(i, Kind),
         NEW u \in Watched, NEW t \in Bank!Items
  PROVE  /\ passed[u][t] \in Nat /\ passed'[u][t] \in Nat
         /\ u = i => passed'[u][t] = 0
         /\ u \in Kind /\ ~Bank!Free(u) => passed'[u][t] = 0
         /\ t # i \/ u \notin Kind => passed'[u][t] = 0 \/ passed'[u][t] = passed[u][t]
         /\ passed'[u][t] <= passed[u][t] + 1
<1>1. passed \in [Watched -> [Bank!Items -> Nat]]
  BY DEF BankTypes
<1>2. passed[u][t] \in Nat
  BY <1>1
<1>3. passed'[u][t] = IF u = i \/ (u \in Kind /\ ~Bank!Free(u)) THEN 0
                      ELSE IF t = i /\ u \in Kind /\ passed[u][t] < 3 THEN passed[u][t] + 1
                      ELSE passed[u][t]
  BY DEF Bank!Taken
<1>. QED
  BY <1>2, <1>3

(* Counts are numbers.                                                     *)
LEMMA PassedType ==
  ASSUME BankTypes, NEW u \in Watched, NEW t \in Bank!Items
  PROVE  passed[u][t] \in Nat
<1>1. passed \in [Watched -> [Bank!Items -> Nat]]
  BY DEF BankTypes
<1>. QED
  BY <1>1

(* Marking, resetting and resting keep the counts within their room.       *)
LEMMA NextPassed ==
  ASSUME Bank!KnowledgeAssumption, OneCall, BankTypes, CallInv, PassedInv, ResetInv,
             [Bank!Next]_Bank!vars
  PROVE  PassedInv'
<1>. USE DEF PassedInv
<1>a. Watched \subseteq Bank!Items /\ Topics \subseteq Bank!Items
          /\ Entries \subseteq Bank!Items /\ entries \subseteq Entries
      /\ Topics \intersect Entries = {} /\ Bank!Items = Topics \union Entries
  BY Zenon DEF BankTypes, Bank!TypeOK, Bank!KnowledgeAssumption, Bank!Items
<1>b. used \in [Topics -> BOOLEAN] /\ reviewed \in [Entries -> BOOLEAN]
  BY Zenon DEF BankTypes, Bank!TypeOK
<1>1. ASSUME \A i \in Bank!Items : Bank!Free(i)
                 => Bank!Free(i)', UNCHANGED <<used, reviewed, entries, passed>>
      PROVE  PassedInv'
  BY <1>1, <1>a DEF Bank!Of
<1>2. CASE Bank!NextDay
  BY <1>1, <1>2, FreeStays DEF Bank!NextDay, Bank!rows, Bank!seen
<1>3. CASE UNCHANGED Bank!vars
  BY <1>1, <1>3, FreeStays DEF Bank!vars, Bank!rows, Bank!seen
<1>4. ASSUME NEW i \in Bank!Items, NEW d \in Days, Bank!SetAffinity(i, d) PROVE PassedInv'
  BY <1>1, <1>4, FreeStays DEF Bank!SetAffinity
<1>5. ASSUME NEW e \in Entries, Bank!UpdateReview(e) PROVE PassedInv'
  BY <1>1, <1>5, FreeStays DEF Bank!UpdateReview, Bank!seen
<1>6. ASSUME NEW e \in Entries, Bank!AddNewEntry(e) PROVE PassedInv'
  <2>1. UNCHANGED <<used, reviewed, passed>> /\ \A i \in Bank!Items : Bank!Free(i)' <=> Bank!Free(i)
    BY <1>6 DEF Bank!AddNewEntry, Bank!seen, Bank!Free
  <2>2. entries \subseteq entries'
    BY <1>6 DEF Bank!AddNewEntry
  <2>. QED
    BY <2>1, <2>2, <1>a DEF Bank!Of
<1>7. ASSUME NEW c \in Calls, Looks(c) PROVE PassedInv'
  BY <1>1, <1>7, LooksOnly, FreeStays DEF Bank!rows, Bank!seen
<1>8. ASSUME NEW c \in Calls, Bank!ResetTopics(c) PROVE PassedInv'
  <2>1. UNCHANGED <<reviewed, entries, passed>>
            /\ \A i \in Bank!Items : Bank!Free(i)' <=> Bank!Free(i)
    BY <1>8 DEF Bank!ResetTopics, Bank!seen, Bank!Free
  <2>2. ASSUME NEW u \in Watched, NEW t \in Bank!Items, u \in Topics, t \in Topics
        PROVE  passed[u][t] <= Room(used'[u], used'[t])
    <3>1. used[u] \/ passed[u][t] = 0
      BY <1>8, <2>2 DEF ResetInv, Bank!ResetTopics
    <3>2. ~used'[u] /\ ~used'[t]
      BY <1>8, <2>2 DEF Bank!ResetTopics
    <3>3. passed[u][t] \in Nat /\ passed[u][t] <= Room(used[u], used[t])
      BY <2>2, PassedType
    <3>. QED
      BY <3>1, <3>2, <3>3 DEF Room
  <2>. QED
    BY <2>1, <2>2, <1>a DEF Bank!Of
<1>9. ASSUME NEW c \in Calls, Bank!ResetEntries(c) PROVE PassedInv'
  <2>1. UNCHANGED <<used, entries, passed>> /\ \A i \in Bank!Items : Bank!Free(i)' <=> Bank!Free(i)
    BY <1>9 DEF Bank!ResetEntries, Bank!seen, Bank!Free
  <2>2. ASSUME NEW u \in Watched, NEW t \in Bank!Items, u \in Entries, t \in Entries
        PROVE  passed[u][t] <= Room(reviewed'[u], reviewed'[t])
    <3>. DEFINE p == picked[c]
    <3>1. u \in Bank!Of(p) => reviewed[u] \/ passed[u][t] = 0
      BY <1>9, <2>2 DEF ResetInv, Bank!ResetEntries
    <3>2. /\ reviewed'[u] = (reviewed[u] /\ u \notin Bank!Of(p))
          /\ reviewed'[t] = (reviewed[t] /\ t \notin Bank!Of(p))
      BY <1>9, <2>2, <1>b DEF Bank!ResetEntries
    <3>3. passed[u][t] \in Nat /\ passed[u][t] <= Room(reviewed[u], reviewed[t])
      BY <2>2, PassedType
    <3>4. passed[u][t] # 0 => u \in entries /\ t \in Bank!Of(TopicOf[u])
      BY <2>2, <1>a
    <3>5. passed[u][t] # 0 => (u \in Bank!Of(p) <=> t \in Bank!Of(p))
      BY <3>4 DEF Bank!Of
    <3>6. reviewed[u] \in BOOLEAN /\ reviewed[t] \in BOOLEAN
      BY <2>2, <1>b
    <3>7. CASE passed[u][t] = 0
      <4>1. Room(reviewed'[u], reviewed'[t]) \in Nat
        BY DEF Room
      <4>. QED
        BY <3>7, <4>1
    <3>8. CASE passed[u][t] # 0 /\ u \in Bank!Of(p)
      <4>1. reviewed[u] = TRUE /\ reviewed'[u] = FALSE /\ reviewed'[t] = FALSE
        BY <3>1, <3>2, <3>5, <3>6, <3>8
      <4>2. Room(reviewed'[u], reviewed'[t]) = 1
        BY <4>1, Rooms
      <4>3. Room(reviewed[u], reviewed[t]) <= 1
        BY <4>1, <3>6, Rooms, Zenon
      <4>4. Room(reviewed[u], reviewed[t]) \in Int
        BY DEF Room
      <4>. HIDE DEF p
      <4>. QED
        BY <3>3, <4>2, <4>3, <4>4
    <3>9. CASE passed[u][t] # 0 /\ u \notin Bank!Of(p)
      <4>1. reviewed'[u] = reviewed[u] /\ reviewed'[t] = reviewed[t]
        BY <3>2, <3>5, <3>6, <3>9
      <4>. QED
        BY <3>3, <4>1
    <3>. QED
      BY <3>7, <3>8, <3>9
  <2>. QED
    BY <2>1, <2>2, <1>a DEF Bank!Of
<1>10. ASSUME NEW c \in Calls, Bank!MarkTopic(c) PROVE PassedInv'
  <2>. DEFINE i == picked[c]
  <2>1. i \in Topics /\ i \in Bank!Items /\ ~used[i]
    BY <1>10, <1>a DEF Bank!MarkTopic, CallInv, BankTypes, Bank!TypeOK
  <2>2. /\ Bank!Taken(i, Topics) /\ UNCHANGED <<today, reviewed, entries>>
        /\ used' = [used EXCEPT ![i] = TRUE]
        /\ disabled' = Bank!Rested(i)
    BY <1>10, <2>1 DEF Bank!MarkTopic
  <2>. HIDE DEF i
  <2>3. ASSUME NEW u \in Bank!Items, u # i PROVE Bank!Free(u)' <=> Bank!Free(u)
    BY <2>2, <2>3 DEF Bank!Free, Bank!Rested, BankTypes, Bank!TypeOK
  <2>. SUFFICES ASSUME NEW u \in Watched, NEW t \in Bank!Items
                PROVE  /\ ~Bank!Free(u)' => passed'[u][t] = 0
                       /\ passed'[u][t] # 0 =>
                             (u \in Topics /\ t \in Topics) \/ (u \in entries
                                 /\ t \in Bank!Of(TopicOf[u]))
                       /\ u \in Topics /\ t \in Topics => passed'[u][t] <= Room(used'[u], used'[t])
                       /\ u \in Entries /\ t \in Entries =>
                             passed'[u][t] <= Room(reviewed[u], reviewed[t])
    BY <2>2 DEF Bank!Of
  <2>4. /\ passed[u][t] \in Nat /\ passed'[u][t] \in Nat
        /\ u = i => passed'[u][t] = 0
        /\ u \in Topics /\ ~Bank!Free(u) => passed'[u][t] = 0
        /\ t # i \/ u \notin Topics => passed'[u][t] = 0 \/ passed'[u][t] = passed[u][t]
        /\ passed'[u][t] <= passed[u][t] + 1
    BY <2>1, <2>2, TakenPasses
  <2>5. ~Bank!Free(u)' => passed'[u][t] = 0
    BY <2>3, <2>4, <1>a
  <2>6. passed'[u][t] # 0 =>
              (u \in Topics /\ t \in Topics) \/ (u \in entries /\ t \in Bank!Of(TopicOf[u]))
    BY <2>1, <2>4
  <2>7. ASSUME u \in Topics, t \in Topics PROVE passed'[u][t] <= Room(used'[u], used'[t])
    <3>1. passed[u][t] <= Room(used[u], used[t])
      BY <2>7
    <3>2. used[u] \in BOOLEAN /\ used[t] \in BOOLEAN /\ used[i] = FALSE
      BY <2>1, <2>7, <1>b
    <3>3. Room(used'[u], used'[t]) \in Nat /\ Room(used[u], used[t]) \in Nat
      BY DEF Room
    <3>4. CASE u = i
      BY <2>4, <3>3, <3>4
    <3>5. CASE u # i /\ t # i
      <4>1. used'[u] = used[u] /\ used'[t] = used[t]
        BY <2>1, <2>2, <2>7, <3>5, <1>b
      <4>. QED
        BY <2>4, <3>1, <3>3, <3>5, <4>1
    <3>6. CASE u # i /\ t = i
      <4>1. used'[u] = used[u] /\ used'[t] = TRUE /\ used[t] = FALSE
        BY <2>1, <2>2, <2>7, <3>2, <3>6, <1>b
      <4>2. Room(used'[u], used'[t]) = Room(used[u], used[t]) + 1
        BY <4>1, <3>2, Rooms, Zenon
      <4>. QED
        BY <2>4, <3>1, <3>3, <4>2
    <3>. QED
      BY <3>4, <3>5, <3>6
  <2>8. ASSUME u \in Entries, t \in Entries
        PROVE  passed'[u][t] <= Room(reviewed[u], reviewed[t])
    BY <2>1, <2>4, <2>8, <1>a DEF Room
  <2>. QED
    BY <2>5, <2>6, <2>7, <2>8
<1>11. ASSUME NEW c \in Calls, Bank!MarkEntry(c) PROVE PassedInv'
  <2>. DEFINE i == picked[c]
              Kind == Bank!Of(TopicOf[i])
  <2>1. i \in Entries /\ i \in entries /\ i \in Bank!Items /\ ~reviewed[i]
    BY <1>11, <1>a DEF Bank!MarkEntry, CallInv, BankTypes, Bank!TypeOK
  <2>2. /\ Bank!Taken(i, Kind) /\ UNCHANGED <<today, used, entries>>
        /\ reviewed' = [reviewed EXCEPT ![i] = TRUE]
        /\ disabled' = Bank!Rested(i)
    BY <1>11, <2>1 DEF Bank!MarkEntry
  <2>0. /\ i \in Kind /\ Kind \subseteq Entries
        /\ \A v \in Kind : v \in entries /\ TopicOf[v] = TopicOf[i]
    BY <2>1, <1>a DEF Bank!Of
  <2>z. ASSUME NEW v \in Kind PROVE i \in Bank!Of(TopicOf[v])
    BY <2>0, <2>1, <2>z DEF Bank!Of
  <2>. HIDE DEF i, Kind
  <2>3. ASSUME NEW u \in Bank!Items, u # i PROVE Bank!Free(u)' <=> Bank!Free(u)
    BY <2>2, <2>3 DEF Bank!Free, Bank!Rested, BankTypes, Bank!TypeOK
  <2>. SUFFICES ASSUME NEW u \in Watched, NEW t \in Bank!Items
                PROVE  /\ ~Bank!Free(u)' => passed'[u][t] = 0
                       /\ passed'[u][t] # 0 =>
                             (u \in Topics /\ t \in Topics) \/ (u \in entries
                                 /\ t \in Bank!Of(TopicOf[u]))
                       /\ u \in Topics /\ t \in Topics => passed'[u][t] <= Room(used[u], used[t])
                       /\ u \in Entries /\ t \in Entries =>
                             passed'[u][t] <= Room(reviewed'[u], reviewed'[t])
    BY <2>2 DEF Bank!Of
  <2>4. /\ passed[u][t] \in Nat /\ passed'[u][t] \in Nat
        /\ u = i => passed'[u][t] = 0
        /\ u \in Kind /\ ~Bank!Free(u) => passed'[u][t] = 0
        /\ t # i \/ u \notin Kind => passed'[u][t] = 0 \/ passed'[u][t] = passed[u][t]
        /\ passed'[u][t] <= passed[u][t] + 1
    BY <2>1, <2>2, TakenPasses
  <2>5. ~Bank!Free(u)' => passed'[u][t] = 0
    BY <2>3, <2>4, <1>a
  <2>6. passed'[u][t] # 0 =>
              (u \in Topics /\ t \in Topics) \/ (u \in entries /\ t \in Bank!Of(TopicOf[u]))
    BY <2>0, <2>1, <2>4, <2>z
  <2>7. ASSUME u \in Topics, t \in Topics PROVE passed'[u][t] <= Room(used[u], used[t])
    BY <2>1, <2>4, <2>7, <1>a DEF Room
  <2>8. ASSUME u \in Entries, t \in Entries
        PROVE  passed'[u][t] <= Room(reviewed'[u], reviewed'[t])
    <3>1. passed[u][t] <= Room(reviewed[u], reviewed[t])
      BY <2>8
    <3>2. reviewed[u] \in BOOLEAN /\ reviewed[t] \in BOOLEAN /\ reviewed[i] = FALSE
      BY <2>1, <2>8, <1>b
    <3>3. Room(reviewed'[u], reviewed'[t]) \in Nat /\ Room(reviewed[u], reviewed[t]) \in Nat
      BY DEF Room
    <3>4. CASE u = i
      BY <2>4, <3>3, <3>4
    <3>5. CASE u # i /\ t # i
      <4>1. reviewed'[u] = reviewed[u] /\ reviewed'[t] = reviewed[t]
        BY <2>1, <2>2, <2>8, <3>5, <1>b
      <4>. QED
        BY <2>4, <3>1, <3>3, <3>5, <4>1
    <3>6. CASE u # i /\ t = i
      <4>1. reviewed'[u] = reviewed[u] /\ reviewed'[t] = TRUE /\ reviewed[t] = FALSE
        BY <2>1, <2>2, <2>8, <3>2, <3>6, <1>b
      <4>2. Room(reviewed'[u], reviewed'[t]) = Room(reviewed[u], reviewed[t]) + 1
        BY <4>1, <3>2, Rooms, Zenon
      <4>. QED
        BY <2>4, <3>1, <3>3, <4>2
    <3>. QED
      BY <3>4, <3>5, <3>6
  <2>. QED
    BY <2>5, <2>6, <2>7, <2>8
<1>. QED
  BY <1>2, <1>3, <1>4, <1>5, <1>6, <1>7, <1>8, <1>9, <1>10, <1>11, Cases

(* The call resets only what it has found no free item in.                 *)
LEMMA NextReset ==
  ASSUME Bank!KnowledgeAssumption, OneCall, BankTypes, CallInv, PassedInv, ResetInv,
             [Bank!Next]_Bank!vars
  PROVE  ResetInv'
<1>. USE DEF ResetInv
<1>a. Watched \subseteq Bank!Items /\ Bank!Items = Topics \union Entries
          /\ Topics \intersect Entries = {}
      /\ entries \subseteq Entries
  BY Zenon DEF BankTypes, Bank!TypeOK, Bank!KnowledgeAssumption, Bank!Items
<1>b. /\ callStep \in [Calls -> Bank!Steps] /\ picked \in [Calls -> Bank!Items \union {None}]
      /\ \A c \in Calls : callStep[c] \in {"entry", "reset entries"} => picked[c] \in Topics
  BY Zenon DEF BankTypes, Bank!TypeOK
<1>1. ASSUME UNCHANGED <<callStep, picked, used, reviewed, entries, passed>> PROVE ResetInv'
  BY <1>1 DEF Bank!Of
<1>2. CASE Bank!NextDay
  BY <1>1, <1>2 DEF Bank!NextDay, Bank!rows, Bank!seen, Bank!call
<1>3. CASE UNCHANGED Bank!vars
  BY <1>1, <1>3 DEF Bank!vars, Bank!rows, Bank!seen, Bank!call
<1>4. ASSUME NEW i \in Bank!Items, NEW d \in Days, Bank!SetAffinity(i, d) PROVE ResetInv'
  BY <1>1, <1>4 DEF Bank!SetAffinity, Bank!call
<1>5. ASSUME NEW e \in Entries, Bank!UpdateReview(e) PROVE ResetInv'
  BY <1>1, <1>5 DEF Bank!UpdateReview, Bank!seen, Bank!call
<1>6. ASSUME NEW e \in Entries, Bank!AddNewEntry(e) PROVE ResetInv'
  <2>1. UNCHANGED <<callStep, picked, used, reviewed, passed>>
            /\ entries' = entries \union {e} /\ e \notin entries
    BY <1>6 DEF Bank!AddNewEntry, Bank!seen, Bank!call
  <2>2. ASSUME e \in Watched PROVE \A t \in Bank!Items : passed[e][t] = 0
    BY <2>1, <2>2, <1>a DEF PassedInv
  <2>. QED
    BY <2>1, <2>2 DEF Bank!Of
<1>7. ASSUME NEW c \in Calls, Looks(c) PROVE ResetInv'
  <2>1. UNCHANGED <<used, reviewed, passed, entries>>
    BY <1>7, LooksOnly DEF Bank!rows, Bank!seen
  <2>2. \A d \in Calls : d = c
    BY DEF OneCall
  <2>3. CASE callStep'[c] \notin {"reset topics", "reset entries"}
    BY <2>2, <2>3
  <2>4. ASSUME Bank!FetchTopic(c), callStep'[c] = "reset topics" PROVE ResetInv'
    <3>1. \A u \in Topics : ~used[u] => ~Bank!Free(u)
      BY <2>4, <1>b DEF Bank!FetchTopic, Bank!GoTo, Bank!Return
    <3>2. \A u \in Watched, t \in Bank!Items : u \in Topics => used[u] \/ passed[u][t] = 0
      BY <3>1 DEF PassedInv
    <3>. QED
      BY <2>1, <2>2, <2>4, <3>2
  <2>5. ASSUME Bank!FetchEntry(c), callStep'[c] = "reset entries" PROVE ResetInv'
    <3>1. picked'[c] = picked[c] /\ \A u \in Bank!Of(picked[c]) : ~reviewed[u] => ~Bank!Free(u)
      BY <2>5, <1>b DEF Bank!FetchEntry, Bank!GoTo, Bank!Return
    <3>2. \A u \in Watched, t \in Bank!Items : u \in Bank!Of(picked[c]) => reviewed[u]
              \/ passed[u][t] = 0
      BY <3>1 DEF PassedInv
    <3>. QED
      BY <2>1, <2>2, <2>5, <3>1, <3>2 DEF Bank!Of
  <2>. QED
    BY <1>7, <1>b, <2>3, <2>4, <2>5
       DEF Looks, Bank!NextQuestion, Bank!CountTopics, Bank!FetchTopic, Bank!FetchEntry,
           Bank!QuestionFails, Bank!GoTo, Bank!Return
<1>8. ASSUME NEW c \in Calls, Bank!ResetTopics(c) \/ Bank!MarkTopic(c)
                 \/ Bank!ResetEntries(c) \/ Bank!MarkEntry(c)
      PROVE  ResetInv'
  <2>1. callStep'[c] \in {"topic", "entry", "idle"}
    BY <1>8, <1>b DEF Bank!ResetTopics, Bank!MarkTopic, Bank!ResetEntries, Bank!MarkEntry,
                      Bank!Return, Bank!GoTo
  <2>2. \A d \in Calls : d = c
    BY DEF OneCall
  <2>. QED
    BY <2>1, <2>2
<1>. QED
  BY <1>2, <1>3, <1>4, <1>5, <1>6, <1>7, <1>8, Cases

(* What holds however many calls there are.                                *)
TableInv == BankTypes /\ Bank!DisabledHasAffinity /\ Bank!ReviewedHasRow

(* It is inductive.                                                        *)
LEMMA TablesKept == ASSUME Bank!KnowledgeAssumption PROVE Bank!Spec => []TableInv
<1>1. Bank!Init => TableInv
  BY InitBankTypes DEF TableInv, Bank!Init, Bank!DisabledHasAffinity, Bank!ReviewedHasRow
<1>2. TableInv /\ [Bank!Next]_Bank!vars => TableInv'
  BY NextBankTypes, NextDisabled, NextReviewed DEF TableInv
<1>. QED
  BY <1>1, <1>2, PTL DEF Bank!Spec

(* What holds with one call at a time.                                     *)
TurnInv == BankTypes /\ CallInv /\ DueInv /\ PassedInv /\ ResetInv

(* It is inductive.                                                        *)
LEMMA TurnsKept == ASSUME Bank!KnowledgeAssumption, OneCall PROVE Bank!Spec => []TurnInv
<1>1. Bank!Init => TurnInv
  <2>. SUFFICES ASSUME Bank!Init PROVE TurnInv
    OBVIOUS
  <2>1. CallInv /\ DueInv /\ ResetInv
    BY DEF Bank!Init, CallInv, DueInv, ResetInv
  <2>2. PassedInv
    <3>1. \A u \in Watched, t \in Bank!Items : passed[u][t] = 0
      BY DEF Bank!Init
    <3>2. \A i \in Bank!Items : Bank!Free(i)
      BY DEF Bank!Init, Bank!Free
    <3>3. \A a, b : Room(a, b) \in Nat
      BY DEF Room
    <3>. QED
      BY <3>1, <3>2, <3>3 DEF PassedInv
  <2>. QED
    BY <2>1, <2>2, InitBankTypes DEF TurnInv
<1>2. TurnInv /\ [Bank!Next]_Bank!vars => TurnInv'
  BY NextBankTypes, NextCallInv, NextDueInv, NextPassed, NextReset DEF TurnInv
<1>. QED
  BY <1>1, <1>2, PTL DEF Bank!Spec

(* For any number of concurrent calls: what is disabled has an affinity    *)
(* that can be cleared to bring it back (the triggers of both tables).     *)
THEOREM ClearedAlwaysBack ==
  ASSUME Bank!KnowledgeAssumption
  PROVE  Bank!Spec => []Bank!DisabledHasAffinity
<1>1. TableInv => Bank!DisabledHasAffinity
  BY DEF TableInv
<1>. QED
  BY <1>1, TablesKept, PTL

(* For any number of concurrent calls: every entry that counts as asked    *)
(* has its review row (trg_mark_entry_reviewed).                           *)
THEOREM ReviewAlwaysThere ==
  ASSUME Bank!KnowledgeAssumption
  PROVE  Bank!Spec => []Bank!ReviewedHasRow
<1>1. TableInv => Bank!ReviewedHasRow
  BY DEF TableInv
<1>. QED
  BY <1>1, TablesKept, PTL

(* For any topics and entries and one call at a time: no free item is      *)
(* passed over by another one more than twice, whatever rests, is added    *)
(* or fails in between (fetch_random_topic, fetch_random_entry).           *)
THEOREM NeverPassedThrice ==
  ASSUME Bank!KnowledgeAssumption, OneCall PROVE Bank!Spec => []Bank!PassedTwiceAtMost
<1>1. ASSUME Bank!KnowledgeAssumption, TurnInv PROVE Bank!PassedTwiceAtMost
  <2>. SUFFICES ASSUME NEW u \in Watched, NEW t \in Bank!Items PROVE passed[u][t] <= 2
    BY DEF Bank!PassedTwiceAtMost
  <2>1. passed[u][t] \in Nat
    BY <1>1, PassedType DEF TurnInv
  <2>2. /\ passed[u][t] # 0 =>
              (u \in Topics /\ t \in Topics) \/ (u \in entries /\ t \in Bank!Of(TopicOf[u]))
        /\ u \in Topics /\ t \in Topics => passed[u][t] <= Room(used[u], used[t])
        /\ u \in Entries /\ t \in Entries => passed[u][t] <= Room(reviewed[u], reviewed[t])
    BY <1>1 DEF TurnInv, PassedInv
  <2>3. entries \subseteq Entries /\ \A s : Bank!Of(s) \subseteq Entries
    BY <1>1, Zenon DEF TurnInv, BankTypes, Bank!TypeOK, Bank!Of
  <2>4. /\ Room(used[u], used[t]) \in Nat /\ Room(used[u], used[t]) <= 2
        /\ Room(reviewed[u], reviewed[t]) \in Nat /\ Room(reviewed[u], reviewed[t]) <= 2
    BY DEF Room
  <2>. QED
    BY <2>1, <2>2, <2>3, <2>4
<1>. QED
  BY <1>1, TurnsKept, PTL

(* With one call at a time the fetch after a reset finds a topic: the      *)
(* count taken at the start still holds (fetch_random_topic).              *)
THEOREM ResetAlwaysFinds ==
  ASSUME Bank!KnowledgeAssumption, OneCall PROVE Bank!Spec => []Bank!ResetFindsTopic
<1>1. TurnInv => Bank!ResetFindsTopic
  BY DEF TurnInv, CallInv, Bank!ResetFindsTopic
<1>. QED
  BY <1>1, TurnsKept, PTL

(* An item that is free has rested as long as it was to.                   *)
LEMMA FreeIsDue ==
  ASSUME Bank!KnowledgeAssumption, BankTypes, DueInv, NEW i \in Bank!Items, Bank!Free(i)
  PROVE  due[i] <= today
<1>1. Bank!TypeOK
  BY DEF BankTypes
<1>2. today \in Nat
  BY <1>1, Numbers, Zenon
<1>3. due \in [Bank!Items -> Nat] /\ disabled \in [Bank!Items -> Nat \union {None}]
  BY Zenon DEF BankTypes, Bank!TypeOK
<1>4. due[i] \in Nat /\ (disabled[i] = None \/ disabled[i] \in Nat)
  BY <1>3
<1>5. CASE due[i] = 0
  BY <1>2, <1>5
<1>6. CASE disabled[i] # None /\ due[i] <= disabled[i]
  <2>1. disabled[i] \in Nat /\ disabled[i] <= today
    BY <1>4, <1>6, Zenon DEF Bank!Free
  <2>. QED
    BY <1>2, <1>4, <1>6, <2>1
<1>. QED
  BY <1>5, <1>6, Zenon DEF DueInv

(* With one call at a time an item is taken only after the rest it was     *)
(* taken with (trg_mark_topic_disabled, trg_mark_entry_disabled).          *)
THEOREM RestAlwaysKept ==
  ASSUME Bank!KnowledgeAssumption, OneCall
  PROVE  Bank!Spec => Bank!RestIsKept
<1>1. ASSUME Bank!KnowledgeAssumption, TurnInv PROVE [Bank!RestEndsFirst]_Bank!vars
  <2>. SUFFICES ASSUME NEW c \in Calls, callStep[c] \in {"mark topic", "mark entry"}
                PROVE  due[picked[c]] <= today
    BY DEF Bank!RestEndsFirst
  <2>1. picked[c] \in Bank!Items /\ Bank!Free(picked[c])
    BY <1>1 DEF TurnInv, CallInv, BankTypes, Bank!TypeOK, Bank!Items
  <2>. QED
    BY <1>1, <2>1, FreeIsDue DEF TurnInv
<1>. QED
  BY <1>1, TurnsKept, PTL DEF Bank!RestIsKept
=============================================================================
