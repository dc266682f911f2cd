----------------------------- MODULE KnowledgeBank -----------------------------
(***************************************************************************)
(* The knowledge bank of skill-master (knowledge/src): topics and entries  *)
(* that are asked in turn, each of which may rest for some days after it   *)
(* was taken (its affinity), and one review row an entry.                  *)
(*                                                                         *)
(* Statements are not in a transaction unless the code opens one: each is  *)
(* a step, with the triggers of the migration it fires.  Time is counted   *)
(* in days.  What the user may expect (passed, due) is not in the code.     *)
(***************************************************************************)
EXTENDS Integers, FiniteSets

CONSTANTS
    Topics, Entries,
    TopicOf,     \* the topic of each entry
    Filed,       \* the entries of the YAML files
    Calls,       \* concurrent calls of knowledge_bank_next_question
    Days,        \* affinities the user sets (0 clears)
    DbFails,     \* whether statements may fail
    MaxDay,      \* bound: the clock
    MaxChanges,  \* bound: affinities set
    Watched,     \* bound: the items whose passing over is counted
    None

KnowledgeAssumption ==
    /\ Topics \intersect Entries = {}
    /\ TopicOf \in [Entries -> Topics]
    /\ Filed \subseteq Entries /\ {TopicOf[e] : e \in Filed} = Topics
    /\ Days \subseteq Nat
    /\ DbFails \in BOOLEAN
    /\ MaxDay \in Nat /\ MaxChanges \in Nat
    /\ Watched \subseteq Topics \union Entries
    /\ None \notin Topics \union Entries \union Nat

VARIABLES
    today,
    used, reviewed,       \* is_used of each topic, is_reviewed of each entry
    affinity, disabled,   \* affinity_days and disabled_until of topics and entries
    review,               \* attempts of the review row of each entry, if there is one
    bank,                 \* the entries there are
    step, again, picked,  \* of each call: where it is, after a reset, and what it has read
    passed,               \* passed[u][t]: how often t was taken since u was, while u was free
    due,                  \* the day before which an item is not to be taken again
    changes

Items == Topics \union Entries
rows == <<used, reviewed, affinity, disabled, review, bank>>
call == <<step, again, picked>>
seen == <<passed, due>>
vars == <<today, rows, call, seen, changes>>

Steps == {"idle", "count", "topic", "reset topics", "mark topic",
          "entry", "reset entries", "mark entry"}

TypeOK ==
    /\ today \in 0 .. MaxDay
    /\ used \in [Topics -> BOOLEAN]
    /\ reviewed \in [Entries -> BOOLEAN]
    /\ affinity \in [Items -> (Days \ {0}) \union {None}]
    /\ disabled \in [Items -> Nat \union {None}]
    /\ review \in [Entries -> {0, 1, None}]
    /\ Filed \subseteq bank /\ bank \subseteq Entries
    /\ \A e \in Entries \ bank : ~reviewed[e] /\ review[e] = None
    /\ step \in [Calls -> Steps]
    /\ again \in [Calls -> BOOLEAN]
    /\ picked \in [Calls -> Items \union {None}]
    /\ \A c \in Calls : /\ step[c] = "mark topic" => picked[c] \in Topics
                        /\ step[c] \in {"entry", "reset entries"} => picked[c] \in Topics
                        /\ step[c] = "mark entry" => picked[c] \in Entries
    /\ changes \in 0 .. MaxChanges

\* disabled_until IS NULL OR disabled_until <= CURRENT_TIMESTAMP
Free(i) == disabled[i] = None \/ disabled[i] <= today

\* The database is empty and has been filled from the files.
Init ==
    /\ today = 0
    /\ used = [t \in Topics |-> FALSE]
    /\ reviewed = [e \in Entries |-> FALSE]
    /\ affinity = [i \in Items |-> None]
    /\ disabled = [i \in Items |-> None]
    /\ review = [e \in Entries |-> None]
    /\ bank = Filed
    /\ step = [c \in Calls |-> "idle"]
    /\ again = [c \in Calls |-> FALSE]
    /\ picked = [c \in Calls |-> None]
    /\ passed = [i \in Watched |-> [j \in Items |-> 0]]
    /\ due = [i \in Items |-> 0]
    /\ changes = 0

GoTo(c, s, a, p) ==
    /\ step' = [step EXCEPT ![c] = s]
    /\ again' = [again EXCEPT ![c] = a]
    /\ picked' = [picked EXCEPT ![c] = p]

Return(c) == GoTo(c, "idle", FALSE, None)

\* trg_mark_topic_disabled, trg_mark_entry_disabled
Rested(i) == [disabled EXCEPT ![i] = IF affinity[i] = None THEN @ ELSE today + affinity[i]]

\* Item i of kind Kind is taken: it passes the others that are free, and is due
\* again when its affinity says.
Taken(i, Kind) ==
    /\ passed' = [u \in Watched |-> [t \in Items |->
          IF u = i \/ (u \in Kind /\ ~Free(u)) THEN 0
          ELSE IF t = i /\ u \in Kind /\ passed[u][t] < 3 THEN passed[u][t] + 1
          ELSE passed[u][t]]]
    /\ due' = [due EXCEPT ![i] = IF affinity[i] = None THEN 0 ELSE today + affinity[i]]

-----------------------------------------------------------------------------
(* fetch_random_entry, and fetch_random_topic it begins with.              *)

NextQuestion(c) ==
    /\ step[c] = "idle"
    /\ GoTo(c, "count", FALSE, None)
    /\ UNCHANGED <<today, rows, seen, changes>>

\* "No topics are available"
CountTopics(c) ==
    /\ step[c] = "count"
    /\ IF \E t \in Topics : Free(t) THEN GoTo(c, "topic", FALSE, None) ELSE Return(c)
    /\ UNCHANGED <<today, rows, seen, changes>>

\* Any unused topic that is free; else the flags are reset, once.
FetchTopic(c) ==
    /\ step[c] = "topic"
    /\ LET unused == {t \in Topics : ~used[t] /\ Free(t)} IN
       \/ \E t \in unused : GoTo(c, "mark topic", FALSE, t)
       \/ unused = {} /\ ~again[c] /\ GoTo(c, "reset topics", FALSE, None)
       \/ unused = {} /\ again[c] /\ Return(c)
    /\ UNCHANGED <<today, rows, seen, changes>>

\* Mutant: only topics that rest get their flag reset.
ResetTopics_Resting(c) ==
    /\ step[c] = "reset topics"
    /\ used' = [t \in Topics |-> used[t] /\ Free(t)]
    /\ GoTo(c, "topic", TRUE, None)
    /\ UNCHANGED <<today, reviewed, affinity, disabled, review, bank, seen, changes>>

ResetTopics(c) ==
    /\ step[c] = "reset topics"
    /\ used' = [t \in Topics |-> FALSE]
    /\ GoTo(c, "topic", TRUE, None)
    /\ UNCHANGED <<today, reviewed, affinity, disabled, review, bank, seen, changes>>

\* Mutant: the topic is not marked as used.
MarkTopic_Forgotten(c) ==
    /\ step[c] = "mark topic"
    /\ LET t == picked[c] IN
       /\ disabled' = IF used[t] THEN disabled ELSE Rested(t)
       /\ Taken(t, Topics)
       /\ GoTo(c, "entry", FALSE, t)
    /\ UNCHANGED <<today, used, reviewed, affinity, review, bank, changes>>

MarkTopic(c) ==
    /\ step[c] = "mark topic"
    /\ LET t == picked[c] IN
       /\ used' = [used EXCEPT ![t] = TRUE]
       /\ disabled' = IF used[t] THEN disabled ELSE Rested(t)
       /\ Taken(t, Topics)
       /\ GoTo(c, "entry", FALSE, t)
    /\ UNCHANGED <<today, reviewed, affinity, review, bank, changes>>

Of(t) == {e \in bank : TopicOf[e] = t}

\* Any entry of the topic that is not reviewed and free; else they are reset, once.
FetchEntry(c) ==
    /\ step[c] = "entry"
    /\ LET t == picked[c]
           open == {e \in Of(t) : ~reviewed[e] /\ Free(e)}
       IN
       \/ \E e \in open : GoTo(c, "mark entry", FALSE, e)
       \/ open = {} /\ ~again[c] /\ GoTo(c, "reset entries", FALSE, t)
       \/ open = {} /\ again[c] /\ Return(c)
    /\ UNCHANGED <<today, rows, seen, changes>>

ResetEntries(c) ==
    /\ step[c] = "reset entries"
    /\ reviewed' = [e \in Entries |-> reviewed[e] /\ e \notin Of(picked[c])]
    /\ GoTo(c, "entry", TRUE, picked[c])
    /\ UNCHANGED <<today, used, affinity, disabled, review, bank, seen, changes>>

\* Mutant: the old row goes, and no new one comes.
NewReview_Missing(e) == [review EXCEPT ![e] = None]

\* trg_mark_entry_reviewed
NewReview(e) == [review EXCEPT ![e] = 0]

\* The entry is asked; its tags are read and the call returns.
MarkEntry(c) ==
    /\ step[c] = "mark entry"
    /\ LET e == picked[c] IN
       /\ reviewed' = [reviewed EXCEPT ![e] = TRUE]
       /\ disabled' = IF reviewed[e] THEN disabled ELSE Rested(e)
       /\ review' = IF reviewed[e] THEN review ELSE NewReview(e)
       /\ Taken(e, Of(TopicOf[e]))
    /\ Return(c)
    /\ UNCHANGED <<today, used, affinity, bank, changes>>

\* A statement fails: the call ends with what it has done so far.
QuestionFails(c) ==
    /\ DbFails /\ step[c] # "idle"
    /\ Return(c)
    /\ UNCHANGED <<today, rows, seen, changes>>

Question(c) ==
    \/ NextQuestion(c) \/ CountTopics(c) \/ FetchTopic(c) \/ ResetTopics(c) \/ MarkTopic(c)
    \/ FetchEntry(c) \/ ResetEntries(c) \/ MarkEntry(c) \/ QuestionFails(c)

-----------------------------------------------------------------------------
(* The other tools.                                                        *)

\* Mutant: clearing an affinity leaves the rest it has begun.
Enabled_Later(i, a) == disabled

\* Mutant: any new affinity ends the rest.
Enabled_OnChange(i, a) ==
    IF affinity[i] # None /\ a # affinity[i] THEN [disabled EXCEPT ![i] = None] ELSE disabled

\* trg_mark_topic_enabled, trg_mark_entry_enabled
Enabled(i, a) ==
    IF affinity[i] # None /\ a = None THEN [disabled EXCEPT ![i] = None] ELSE disabled

DaysOrNull(days) == IF days = 0 THEN None ELSE days

\* set_topic_affinity, set_entry_affinity: the one UPDATE of either table.
SetAffinity(i, days) ==
    /\ changes < MaxChanges
    /\ changes' = changes + 1
    /\ LET a == DaysOrNull(days) IN
       /\ affinity' = [affinity EXCEPT ![i] = a]
       /\ disabled' = Enabled(i, a)
       /\ due' = IF a = None THEN [due EXCEPT ![i] = 0] ELSE due
    /\ UNCHANGED <<today, used, reviewed, review, bank, call, passed>>

SetTopicAffinity(t, days) == SetAffinity(t, days)
SetEntryAffinity(e, days) == e \in bank /\ SetAffinity(e, days)

\* update_review: nothing happens when there is no row.
UpdateReview(e) ==
    /\ review[e] = 0
    /\ review' = [review EXCEPT ![e] = 1]
    /\ UNCHANGED <<today, used, reviewed, affinity, disabled, bank, call, seen, changes>>

\* add_new_entry, one transaction.
AddNewEntry(e) ==
    /\ e \notin bank
    /\ bank' = bank \union {e}
    /\ UNCHANGED <<today, used, reviewed, affinity, disabled, review, call, seen, changes>>

NextDay ==
    /\ today < MaxDay
    /\ today' = today + 1
    /\ UNCHANGED <<rows, call, seen, changes>>

Next ==
    \/ NextDay
    \/ \E c \in Calls : Question(c)
    \/ \E t \in Topics, d \in Days : SetTopicAffinity(t, d)
    \/ \E e \in Entries : UpdateReview(e) \/ AddNewEntry(e)
    \/ \E e \in Entries, d \in Days : SetEntryAffinity(e, d)

Spec == Init /\ [][Next]_vars

-----------------------------------------------------------------------------
(* Properties.                                                             *)

(* What is disabled has an affinity that disables it: however calls and    *)
(* changes interleave, clearing the affinity brings an item back           *)
(* (set_topic_affinity, set_entry_affinity and the four triggers).         *)
DisabledHasAffinity == \A i \in Items : disabled[i] # None => affinity[i] # None

(* Every entry that counts as asked has its review row, also after resets  *)
(* and when two calls ask the same one (trg_mark_entry_reviewed).          *)
ReviewedHasRow == \A e \in Entries : reviewed[e] => review[e] # None

(* With one call at a time, no topic and no entry that is free is passed   *)
(* over by another more than twice, whatever rests, fails or is added      *)
(* (fetch_random_topic, fetch_random_entry).                               *)
PassedTwiceAtMost == \A u \in Watched, t \in Items : passed[u][t] <= 2

(* With one call at a time, the fetch after a reset finds a topic: the     *)
(* count that was taken at the start still holds (fetch_random_topic).     *)
ResetFindsTopic ==
    \A c \in Calls : step[c] = "topic" /\ again[c] => \E t \in Topics : ~used[t] /\ Free(t)

\* An item is taken only after the rest it was taken with.
RestEndsFirst ==
    \A c \in Calls : step[c] \in {"mark topic", "mark entry"} /\ due' # due =>
          due[picked[c]] <= today

(* With one call at a time, an item that was taken rests as long as its    *)
(* affinity said when it was taken, or until that is cleared.              *)
RestIsKept == [][RestEndsFirst]_vars
=============================================================================
