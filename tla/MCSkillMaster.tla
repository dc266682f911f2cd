---------------------------- MODULE MCSkillMaster ----------------------------
(* The background tasks and the question bank of skill-master on small     *)
(* instances.  The parts share no state: a behaviour has one of them, and  *)
(* the others stay as they began.                                          *)
EXTENDS Integers, TLC

CONSTANT None

VARIABLES
    part,
    stock, task, batch, permit, client, chosen, stale, refused,
    now, refresh, feedStep, found, fresh, ready, broken, topics, table, failed, purge, restarts,
    today, used, reviewed, affinity, disabled, review, entries, callStep, again, picked,
    passed, due, changes

\* Two clients and two quotes, at any step of the task.
Quote == INSTANCE QuoteBank WITH
    Quotes <- {"q1", "q2"}, Clients <- {"c1", "c2"}, MinFresh <- 1, bank <- stock

\* One URL under two topics, with failing statements and a restart.
News == INSTANCE NewsRefresh WITH
    Feeds <- {"f1", "f2"}, UrlOf <- ("f1" :> "url" @@ "f2" :> "url"),
    TopicOf <- ("f1" :> "tech" @@ "f2" :> "world"),
    Articles <- {"a1", "a2"}, FeedOf <- ("a1" :> "f1" @@ "a2" :> "f2"),
    Published <- ("a1" :> 0 @@ "a2" :> 1),
    Retries <- 1, Cooldown <- 2, MaxAge <- 2, DbFails <- TRUE,
    MaxTime <- 4, MaxRestarts <- 1, step <- feedStep

\* One call at a time with failing statements; the entry that is not filed is added
\* on the way.
Alone == INSTANCE KnowledgeBank WITH
    Topics <- {"t1", "t2"}, Entries <- {"e1", "e2", "e3"},
    TopicOf <- ("e1" :> "t1" @@ "e2" :> "t1" @@ "e3" :> "t2"), Filed <- {"e1", "e3"},
    Calls <- {"c1"}, Days <- {0, 2}, DbFails <- TRUE, Watched <- {"t1", "e1"},
    MaxDay <- 1, MaxChanges <- 1, bank <- entries, step <- callStep

\* One call at a time, and an affinity that is changed again.
Rests == INSTANCE KnowledgeBank WITH
    Topics <- {"t1", "t2"}, Entries <- {"e1", "e2"},
    TopicOf <- ("e1" :> "t1" @@ "e2" :> "t2"), Filed <- {"e1", "e2"},
    Calls <- {"c1"}, Days <- {0, 1, 2}, DbFails <- FALSE, Watched <- {},
    MaxDay <- 1, MaxChanges <- 2, bank <- entries, step <- callStep

\* Two calls at a time.
Calls == INSTANCE KnowledgeBank WITH
    Topics <- {"t1"}, Entries <- {"e1", "e2"},
    TopicOf <- ("e1" :> "t1" @@ "e2" :> "t1"), Filed <- {"e1", "e2"},
    Calls <- {"c1", "c2"}, Days <- {0, 1}, DbFails <- FALSE, Watched <- {},
    MaxDay <- 1, MaxChanges <- 2, bank <- entries, step <- callStep

ASSUME SkillMasterAssumption ==
    /\ Quote!QuoteAssumption /\ News!NewsAssumption
    /\ Alone!KnowledgeAssumption /\ Rests!KnowledgeAssumption /\ Calls!KnowledgeAssumption

quote == <<stock, task, batch, permit, client, chosen, stale, refused>>
news == <<now, refresh, feedStep, found, fresh, ready, broken, topics, table, failed, purge, restarts>>
knowledge == <<today, used, reviewed, affinity, disabled, review, entries, callStep, again, picked,
               passed, due, changes>>
vars == <<part, quote, news, knowledge>>

Init ==
    /\ part \in {"quotes", "news", "alone", "rests", "calls"}
    /\ Quote!Init /\ (part # "quotes" => stock = [q \in {"q1", "q2"} |-> "unused"])
    /\ News!Init
    /\ CASE part = "rests" -> Rests!Init
         [] part = "calls" -> Calls!Init
         [] OTHER -> Alone!Init

Next ==
    /\ UNCHANGED part
    /\ \/ part = "quotes" /\ Quote!Next /\ UNCHANGED <<news, knowledge>>
       \/ part = "news" /\ News!Next /\ UNCHANGED <<quote, knowledge>>
       \/ part = "alone" /\ Alone!Next /\ UNCHANGED <<quote, news>>
       \/ part = "rests" /\ Rests!Next /\ UNCHANGED <<quote, news>>
       \/ part = "calls" /\ Calls!Next /\ UNCHANGED <<quote, news>>

\* The fairness of QuoteBank and of NewsRefresh.
Spec ==
    /\ Init /\ [][Next]_vars
    /\ WF_quote(part = "quotes" /\ Quote!Task)
    /\ WF_news(part = "news" /\ News!Tick)
    /\ WF_news(part = "news" /\ News!Refresh)
    /\ WF_news(part = "news" /\ News!RefreshDone)
    /\ WF_news(part = "news" /\ News!Purge)
    /\ WF_news(part = "news" /\ News!Feed("f1"))
    /\ WF_news(part = "news" /\ News!Feed("f2"))

\* QuoteBank: a client that found nothing is not forgotten by the task, no two clients
\* are handed the same fresh quote, what was used is not fresh again because the API
\* returns it, and when nothing is left, the API is asked.
QuotesSound ==
    /\ [](Quote!TypeOK /\ Quote!RefusalWakesTask)
    /\ Quote!HandedWhileFresh
    /\ Quote!UsedStaysUsed
    /\ Quote!ShortageIsFetched

\* NewsRefresh: an article is left without content only by a failure or a restart, and
\* content, once there, is not set back; a URL that has failed too often is left alone
\* for its cooldown, and an article that is too old does not stay.
NewsSound ==
    /\ [](News!TypeOK /\ News!BareHasFailed)
    /\ News!ContentIsKept
    /\ News!CooldownKept
    /\ News!OldIsPurged

\* KnowledgeBank: no free topic or entry is passed over more than twice, and the fetch
\* after a reset finds a topic; an item that was taken rests as long as its affinity
\* said, clearing the affinity brings it back, and what counts as asked has its review
\* row.
KnowledgeSound ==
    /\ [](CASE part = "rests" -> Rests!TypeOK /\ Rests!DisabledHasAffinity /\ Rests!ResetFindsTopic
            [] part = "calls" -> Calls!TypeOK /\ Calls!DisabledHasAffinity /\ Calls!ReviewedHasRow
            [] part = "alone" -> /\ Alone!TypeOK /\ Alone!ReviewedHasRow
                                 /\ Alone!PassedTwiceAtMost /\ Alone!ResetFindsTopic
            [] OTHER -> TRUE)
    /\ [][part = "rests" => Rests!RestEndsFirst]_vars
=============================================================================
