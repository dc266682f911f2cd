------------------------------ MODULE NewsRefresh ------------------------------
(***************************************************************************)
(* The news of skill-master (news/src): refresh_task, which runs one task  *)
(* per feed, purge_task, and the list of broken links the two tools and    *)
(* the refresh share.                                                      *)
(*                                                                         *)
(* Time is counted in hours.  A feed is a topic and a URL; one URL may     *)
(* stand under several topics.  An article is identified by its feed and   *)
(* what the UNIQUE constraint names besides it; its content is NULL        *)
(* ("bare") until it is summarized.                                        *)
(***************************************************************************)
EXTENDS Integers, Sequences, FiniteSets, SequencesExt

CONSTANTS
    Feeds,        \* the tasks of one refresh
    UrlOf,        \* the URL of each feed
    TopicOf,      \* its topic
    Articles,     \* what the feeds offer
    FeedOf,       \* the feed an article is in
    Published,    \* when it was published
    Retries,      \* retry_attempts
    Cooldown,     \* broken_link_cooldown
    MaxAge,       \* article_max_age
    DbFails,      \* whether statements may fail
    MaxTime,      \* bound: the clock
    MaxRestarts   \* bound: restarts

Urls == {UrlOf[f] : f \in Feeds}

NewsAssumption ==
    /\ FeedOf \in [Articles -> Feeds]
    /\ Published \in [Articles -> 0 .. MaxTime]
    /\ Retries \in Nat \ {0} /\ Cooldown \in Nat /\ MaxAge \in Nat
    /\ DbFails \in BOOLEAN
    /\ MaxTime \in Nat /\ MaxRestarts \in Nat

VARIABLES
    now,
    refresh,   \* refresh_task: "sleep", or "run" while its tasks do
    step,      \* of each feed's task: "none", "fetch", "topic", "insert", "summarize", "update"
    found,     \* articles the task has still to insert
    fresh,     \* articles it has inserted
    ready,     \* those of them that are summarized, and not yet updated
    broken,    \* attempts and next attempt of each broken URL; attempts 0: not broken
    topics,    \* the table news_topic: the names by id
    table,     \* each article: "absent", "bare", "full"
    failed,    \* articles whose summary has failed or was not stored
    purge,     \* the permit of purge_notify
    restarts

tasks == <<step, found, fresh, ready>>
vars == <<now, refresh, tasks, broken, topics, table, failed, purge, restarts>>

Names == {TopicOf[f] : f \in Feeds}
Whole == [attempts |-> 0, next |-> 0]

TypeOK ==
    /\ now \in 0 .. MaxTime
    /\ refresh \in {"sleep", "run"}
    /\ step \in [Feeds -> {"none", "fetch", "topic", "insert", "summarize", "update"}]
    /\ found \in [Feeds -> SUBSET Articles]
    /\ fresh \in [Feeds -> SUBSET Articles]
    /\ ready \in [Feeds -> SUBSET Articles]
    /\ \A f \in Feeds : ready[f] \subseteq fresh[f]
    /\ broken \in [Urls -> [attempts : 0 .. Retries, next : 0 .. MaxTime + Cooldown]]
    /\ ToSet(topics) \subseteq Names /\ IsInjective(topics)
    /\ table \in [Articles -> {"absent", "bare", "full"}]
    /\ failed \subseteq Articles
    /\ purge \in BOOLEAN
    /\ restarts \in 0 .. MaxRestarts

Idle(f) == step[f] = "none"

\* published_at < now - article_max_age
Expired(a) == now - Published[a] > MaxAge

Init ==
    /\ now = 0
    /\ refresh = "sleep"
    /\ step = [f \in Feeds |-> "none"]
    /\ found = [f \in Feeds |-> {}]
    /\ fresh = [f \in Feeds |-> {}]
    /\ ready = [f \in Feeds |-> {}]
    /\ broken = [u \in Urls |-> Whole]
    /\ topics = <<>>
    /\ table = [a \in Articles |-> "absent"]
    /\ failed = {}
    /\ purge = FALSE
    /\ restarts = 0

Tick ==
    /\ now < MaxTime
    /\ now' = now + 1
    /\ UNCHANGED <<refresh, tasks, broken, topics, table, failed, purge, restarts>>

-----------------------------------------------------------------------------
(* refresh_task.                                                           *)

\* Mutant: a link whose cooldown has not passed is left out from its first failure.
Active_Always(u) == TRUE

\* fetch_active_sources
Active(u) == ~(broken[u].next > now /\ broken[u].attempts >= Retries)

\* A task is spawned for each active feed.
Refresh ==
    /\ refresh = "sleep"
    /\ refresh' = "run"
    /\ step' = [f \in Feeds |-> IF Active(UrlOf[f]) THEN "fetch" ELSE "none"]
    /\ UNCHANGED <<now, found, fresh, ready, broken, topics, table, failed, purge, restarts>>

\* All tasks have ended; the purge is told, and the task sleeps.
RefreshDone ==
    /\ refresh = "run" /\ \A f \in Feeds : Idle(f)
    /\ refresh' = "sleep"
    /\ purge' = TRUE
    /\ UNCHANGED <<now, tasks, broken, topics, table, failed, restarts>>

\* set_broken
SetBroken(u) ==
    broken' = [broken EXCEPT ![u] = [attempts |-> IF @.attempts < Retries THEN @.attempts + 1
                                                                          ELSE @.attempts,
                                     next |-> now + Cooldown]]

\* What the feed offers, as far as it is young enough.
Young(f) == {a \in Articles : FeedOf[a] = f /\ Published[a] <= now /\ now - Published[a] < MaxAge}

\* fetch_raw_articles: the link is restored, or set broken and the task ends.
FetchFeed(f) ==
    /\ step[f] = "fetch"
    /\ \/ /\ step' = [step EXCEPT ![f] = "topic"]
          /\ found' = [found EXCEPT ![f] = Young(f)]
          /\ broken' = [broken EXCEPT ![UrlOf[f]] = Whole]
       \/ /\ step' = [step EXCEPT ![f] = "none"]
          /\ SetBroken(UrlOf[f])
          /\ UNCHANGED found
    /\ UNCHANGED <<now, refresh, fresh, ready, topics, table, failed, purge, restarts>>

\* The topic and the source get their rows.
InsertTopic(f) ==
    /\ step[f] = "topic"
    /\ step' = [step EXCEPT ![f] = "insert"]
    /\ topics' = IF TopicOf[f] \in ToSet(topics) THEN topics ELSE Append(topics, TopicOf[f])
    /\ UNCHANGED <<now, refresh, found, fresh, ready, broken, table, failed, purge, restarts>>

\* Mutant: an article that is there is taken for a new one.
IsNew_Always(a) == TRUE

IsNew(a) == table[a] = "absent"

\* An article that is there is skipped by its unique key; one whose insert
\* fails is skipped as well.
InsertArticle(f) ==
    /\ step[f] = "insert"
    /\ \E a \in found[f] :
          /\ found' = [found EXCEPT ![f] = @ \ {a}]
          /\ \/ /\ IsNew(a)
                /\ table' = [table EXCEPT ![a] = "bare"]
                /\ fresh' = [fresh EXCEPT ![f] = @ \union {a}]
             \/ /\ ~IsNew(a) \/ DbFails
                /\ UNCHANGED <<table, fresh>>
    /\ UNCHANGED <<now, refresh, step, ready, broken, topics, failed, purge, restarts>>

\* All new articles are summarized at once, and all answers are awaited.
Summarize(f) ==
    /\ step[f] = "insert" /\ found[f] = {}
    /\ step' = [step EXCEPT ![f] = "update"]
    /\ \E done \in SUBSET fresh[f] :
          /\ ready' = [ready EXCEPT ![f] = done]
          /\ failed' = (failed \union (fresh[f] \ done)) \ done
    /\ UNCHANGED <<now, refresh, found, fresh, broken, topics, table, purge, restarts>>

\* The summary is stored, if the row is still there; a statement that fails ends
\* the task and drops the summaries that are left.
UpdateArticle(f) ==
    /\ step[f] = "update"
    /\ \E a \in ready[f] :
          \/ /\ ready' = [ready EXCEPT ![f] = @ \ {a}]
             /\ table' = [table EXCEPT ![a] = IF @ = "absent" THEN @ ELSE "full"]
             /\ UNCHANGED <<step, fresh, failed>>
          \/ /\ DbFails
             /\ ready' = [ready EXCEPT ![f] = {}]
             /\ fresh' = [fresh EXCEPT ![f] = {}]
             /\ step' = [step EXCEPT ![f] = "none"]
             /\ failed' = failed \union ready[f]
             /\ UNCHANGED table
    /\ UNCHANGED <<now, refresh, found, broken, topics, purge, restarts>>

\* Mutant: the task ends at the first summary.
FeedDone_First(f) ==
    /\ step[f] = "update"
    /\ step' = [step EXCEPT ![f] = "none"]
    /\ fresh' = [fresh EXCEPT ![f] = {}]
    /\ ready' = [ready EXCEPT ![f] = {}]
    /\ UNCHANGED <<now, refresh, found, broken, topics, table, failed, purge, restarts>>

FeedDone(f) ==
    /\ step[f] = "update" /\ ready[f] = {}
    /\ step' = [step EXCEPT ![f] = "none"]
    /\ fresh' = [fresh EXCEPT ![f] = {}]
    /\ UNCHANGED <<now, refresh, found, ready, broken, topics, table, failed, purge, restarts>>

\* A statement on the topic, the source or the link fails: the task ends.
FeedFails(f) ==
    /\ DbFails /\ step[f] = "topic"
    /\ step' = [step EXCEPT ![f] = "none"]
    /\ found' = [found EXCEPT ![f] = {}]
    /\ UNCHANGED <<now, refresh, fresh, ready, broken, topics, table, failed, purge, restarts>>

-----------------------------------------------------------------------------
(* purge_task, and the program around it.                                  *)

\* Mutant: articles that are not processed yet are left to later processing.
Purge_FullOnly ==
    /\ purge' = FALSE
    /\ table' = [a \in Articles |-> IF Expired(a) /\ table[a] = "full" THEN "absent" ELSE table[a]]
    /\ failed' = {a \in failed : ~Expired(a)}
    /\ UNCHANGED <<now, refresh, tasks, broken, topics, restarts>>

\* When a refresh has told it, or by its own timer.
Purge ==
    /\ purge' = FALSE
    /\ table' = [a \in Articles |-> IF Expired(a) THEN "absent" ELSE table[a]]
    /\ failed' = {a \in failed : ~Expired(a)}
    /\ UNCHANGED <<now, refresh, tasks, broken, topics, restarts>>

\* The tables are kept; the broken links and the tasks are not.
Restart ==
    /\ restarts < MaxRestarts
    /\ restarts' = restarts + 1
    /\ refresh' = "sleep" /\ purge' = FALSE
    /\ step' = [f \in Feeds |-> "none"]
    /\ found' = [f \in Feeds |-> {}]
    /\ fresh' = [f \in Feeds |-> {}]
    /\ ready' = [f \in Feeds |-> {}]
    /\ broken' = [u \in Urls |-> Whole]
    /\ failed' = failed \union UNION {fresh[f] : f \in Feeds}
    /\ UNCHANGED <<now, topics, table>>

Feed(f) ==
    \/ FetchFeed(f) \/ InsertTopic(f) \/ InsertArticle(f) \/ Summarize(f) \/ UpdateArticle(f)
    \/ FeedDone(f) \/ FeedFails(f)

Next ==
    \/ Tick \/ Refresh \/ RefreshDone \/ Purge \/ Restart
    \/ \E f \in Feeds : Feed(f)

Spec == Init /\ [][Next]_vars

\* Time passes, the timers fire, and requests are answered or fail.
Running ==
    /\ WF_vars(Tick) /\ WF_vars(Refresh) /\ WF_vars(RefreshDone)
    /\ WF_vars(Purge)
    /\ \A f \in Feeds : WF_vars(Feed(f))

FairSpec == Spec /\ Running

-----------------------------------------------------------------------------
(* Properties.                                                             *)

(* A URL that has failed as often as the configuration allows is left      *)
(* alone until its cooldown is over, also when it stands under two topics  *)
(* whose tasks fail and succeed side by side (fetch_active_sources).       *)
CooldownKept ==
    [][\A f \in Feeds : Idle(f) /\ step'[f] = "fetch" =>
          ~(broken[UrlOf[f]].attempts = Retries /\ now < broken[UrlOf[f]].next)]_vars

(* An article with no content and no task at work on it is one whose       *)
(* summary has failed, was not stored or was cut off by a restart: no two  *)
(* tasks lose each other's work, and no refresh one that went well.        *)
BareHasFailed ==
    \A a \in Articles : table[a] = "bare" => a \in failed \union fresh[FeedOf[a]]

(* Whatever a feed still offers, an article that is too old does not stay. *)
OldIsPurged ==
    \A a \in Articles : table[a] # "absent" /\ Expired(a) ~> table[a] = "absent"

(* An article that has content is not set back to one without.             *)
ContentIsKept ==
    [][\A a \in Articles : table[a] = "full" => table'[a] \in {"full", "absent"}]_vars
=============================================================================
