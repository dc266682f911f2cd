--------------------------- MODULE SettingsService ---------------------------
(***************************************************************************)
(* SettingsService (crypto/src/settings.rs): a table of one row, persisted *)
(* by a delete and an insert that are not one transaction, and a watch     *)
(* channel that tells the worker's loops of a change.  UpdateSettings      *)
(* calls of the gRPC server replace the settings, each in its own task.    *)
(***************************************************************************)
EXTENDS Naturals

CONSTANTS
    Values,       \* settings, as the master may send them
    Valid,        \* those that validate() accepts
    Default,      \* BotSettings::default()
    NoRow,        \* the table is empty
    Writers,      \* concurrent UpdateSettings calls
    Receivers,    \* the loops that wait for changes
    MaxPushes,    \* bound: pushes
    MaxFaults,    \* bound: failing statements and abandoned calls
    MaxRestarts   \* bound: crashes

ASSUME ValueAssumption == Valid \subseteq Values /\ Default \in Valid /\ NoRow \notin Values

ASSUME BoundAssumption == MaxPushes \in Nat /\ MaxFaults \in Nat /\ MaxRestarts \in Nat

VARIABLES
    row,         \* the row of bot_settings
    published,   \* the value in the watch channel
    version,     \* how often a value was sent since the start
    seen,        \* the version each receiver has seen
    applied,     \* the settings each receiver has last acted on
    running,     \* is the process up?
    step,        \* the statement a call runs next
    pushed,      \* the settings a call was given
    overlapped,  \* since the start, a call was let in while another was under way
    failed,      \* since the start, a call ended half way
    refused,     \* since the start, the table refused an insert
    defaulted,   \* how often the defaults were created
    pushes, faults, restarts

channel == <<published, version>>
watchers == <<seen, applied>>
calls == <<step, pushed>>
notes == <<overlapped, failed, refused, defaulted>>
counts == <<pushes, faults, restarts>>
vars == <<row, channel, watchers, running, calls, notes, counts>>

Steps == {"idle", "delete", "insert", "send"}

TypeOK ==
    /\ row \in Values \cup {NoRow}
    /\ published \in Values
    /\ version \in Nat
    /\ seen \in [Receivers -> Nat]
    /\ applied \in [Receivers -> Values]
    /\ running \in BOOLEAN
    /\ step \in [Writers -> Steps]
    /\ pushed \in [Writers -> Values]
    /\ overlapped \in BOOLEAN
    /\ failed \in BOOLEAN
    /\ refused \in BOOLEAN
    /\ defaulted \in Nat
    /\ pushes \in 0 .. MaxPushes
    /\ faults \in 0 .. MaxFaults
    /\ restarts \in 0 .. MaxRestarts

Busy == {w \in Writers : step[w] # "idle"}

-----------------------------------------------------------------------------

\* Mutant: the defaults are published and not persisted.
Start_NotPersisted ==
    /\ ~running
    /\ running' = TRUE
    /\ published' = IF row = NoRow THEN Default ELSE row
    /\ version' = 1
    /\ seen' = [r \in Receivers |-> 0]
    /\ overlapped' = FALSE
    /\ failed' = FALSE
    /\ refused' = FALSE
    /\ UNCHANGED <<row, defaulted, applied, calls, counts>>

\* Mutant: what was loaded is published, the row that is not there included.
Start_PublishesLoaded ==
    /\ ~running
    /\ running' = TRUE
    /\ row' = IF row = NoRow THEN Default ELSE row
    /\ published' = row
    /\ version' = 1
    /\ seen' = [r \in Receivers |-> 0]
    /\ overlapped' = FALSE
    /\ failed' = FALSE
    /\ refused' = FALSE
    /\ UNCHANGED <<defaulted, applied, calls, counts>>

\* load_or_create, before the loops and the server are started: publish the row,
\* or make the defaults the row.  The delete and the insert of the defaults are one
\* step, for nobody else runs, the table is empty, and a crash between them leaves
\* what a crash before them leaves.  An error ends the process.
Start ==
    /\ ~running
    /\ running' = TRUE
    /\ IF row = NoRow
       THEN row' = Default /\ defaulted' = defaulted + 1
       ELSE UNCHANGED <<row, defaulted>>
    /\ published' = row'
    /\ version' = 1
    /\ seen' = [r \in Receivers |-> 0]
    /\ overlapped' = FALSE
    /\ failed' = FALSE
    /\ refused' = FALSE
    /\ UNCHANGED <<applied, calls, counts>>

\* replace: the settings are validated, and nothing else happens if they are not valid.
Push(w, v) ==
    /\ running
    /\ step[w] = "idle"
    /\ pushes < MaxPushes
    /\ pushes' = pushes + 1
    /\ v \in Valid
    /\ pushed' = [pushed EXCEPT ![w] = v]
    /\ step' = [step EXCEPT ![w] = "delete"]
    /\ overlapped' = (overlapped \/ Busy # {})
    /\ UNCHANGED <<row, channel, watchers, running, failed, refused, defaulted, faults, restarts>>

\* Mutant: the old row is left for the insert.
DeleteRow_Skipped(w) ==
    /\ step[w] = "delete"
    /\ step' = [step EXCEPT ![w] = "insert"]
    /\ UNCHANGED <<row, channel, watchers, running, pushed, notes, counts>>

\* persist: delete_many ...
DeleteRow(w) ==
    /\ step[w] = "delete"
    /\ row' = NoRow
    /\ step' = [step EXCEPT ![w] = "insert"]
    /\ UNCHANGED <<channel, watchers, running, pushed, notes, counts>>

\* ... and insert, always with the id 1: with a row in the table it is an error.
InsertRow(w) ==
    /\ step[w] = "insert"
    /\ \/ /\ row = NoRow
          /\ row' = pushed[w]
          /\ step' = [step EXCEPT ![w] = "send"]
          /\ UNCHANGED refused
       \/ /\ row # NoRow
          /\ step' = [step EXCEPT ![w] = "idle"]
          /\ refused' = TRUE
          /\ UNCHANGED row
    /\ UNCHANGED <<channel, watchers, running, pushed, overlapped, failed, defaulted, counts>>

\* Mutant: the settings are persisted and not published.
SendSettings_Forgotten(w) ==
    /\ step[w] = "send"
    /\ step' = [step EXCEPT ![w] = "idle"]
    /\ UNCHANGED <<row, channel, watchers, running, pushed, notes, counts>>

\* Mutant: the value is replaced and nobody is told.
SendSettings_Silent(w) ==
    /\ step[w] = "send"
    /\ published' = pushed[w]
    /\ step' = [step EXCEPT ![w] = "idle"]
    /\ UNCHANGED <<row, version, watchers, running, pushed, notes, counts>>

\* send_replace, and the call goes on to its re-evaluation.
SendSettings(w) ==
    /\ step[w] = "send"
    /\ published' = pushed[w]
    /\ version' = version + 1
    /\ step' = [step EXCEPT ![w] = "idle"]
    /\ UNCHANGED <<row, watchers, running, pushed, notes, counts>>

\* A statement fails and the call answers with the error, or the client goes away
\* and the server drops the call at its await, when the statement may still run.
CallFails(w) ==
    /\ step[w] \in {"delete", "insert"}
    /\ faults < MaxFaults
    /\ faults' = faults + 1
    /\ step' = [step EXCEPT ![w] = "idle"]
    /\ failed' = TRUE
    /\ \/ UNCHANGED row
       \/ step[w] = "delete" /\ row' = NoRow
       \/ step[w] = "insert" /\ row = NoRow /\ row' = pushed[w]
    /\ UNCHANGED <<channel, watchers, running, pushed, overlapped, refused, defaulted,
                   pushes, restarts>>

\* A loop's changed() returns; it takes the newest value and acts on it.
Receive(r) ==
    /\ running
    /\ seen[r] # version
    /\ seen' = [seen EXCEPT ![r] = version]
    /\ applied' = [applied EXCEPT ![r] = published]
    /\ UNCHANGED <<row, channel, running, calls, notes, counts>>

\* The process dies: only the row is left.
Crash ==
    /\ running
    /\ restarts < MaxRestarts
    /\ restarts' = restarts + 1
    /\ running' = FALSE
    /\ step' = [w \in Writers |-> "idle"]
    /\ UNCHANGED <<row, channel, watchers, pushed, notes, pushes, faults>>

-----------------------------------------------------------------------------

Init ==
    /\ row = NoRow
    /\ published = Default
    /\ version = 0
    /\ seen = [r \in Receivers |-> 0]
    /\ applied = [r \in Receivers |-> Default]
    /\ running = FALSE
    /\ step = [w \in Writers |-> "idle"]
    /\ pushed = [w \in Writers |-> Default]
    /\ overlapped = FALSE
    /\ failed = FALSE
    /\ refused = FALSE
    /\ defaulted = 0
    /\ pushes = 0
    /\ faults = 0
    /\ restarts = 0

Call(w) == DeleteRow(w) \/ InsertRow(w) \/ SendSettings(w)

Next ==
    \/ Start
    \/ \E w \in Writers : \E v \in Values : Push(w, v)
    \/ \E w \in Writers : Call(w) \/ CallFails(w)
    \/ \E r \in Receivers : Receive(r)
    \/ Crash

Spec == Init /\ [][Next]_vars

\* A receiver that has something to see is woken, whatever the calls do.
ReceiverFairness == \A r \in Receivers : WF_vars(Receive(r))

FairSpec == Spec /\ ReceiverFairness

-----------------------------------------------------------------------------

\* Overlapping calls delete each other's rows and have their inserts refused, but
\* they never leave the table empty behind them: one that has deleted the row has
\* yet to insert, or finds a row that was inserted since.
TableNotLeftEmpty == running /\ ~failed /\ Busy = {} => row # NoRow

\* As long as no two calls overlapped and none ended half way, the row is what was
\* published: a restart changes no settings.
OnlyOverlapsDiverge ==
    running /\ Busy = {} /\ ~overlapped /\ ~failed => row = published

\* The table refuses an insert only to a call that overlapped another.
RefusedOnlyOnOverlap == refused => overlapped

\* "Load settings from DB or persist defaults if none exist yet": the defaults are
\* created once.
DefaultsCreatedOnce == defaulted <= 1

\* Every loop ends up acting on the settings in force, although values sent in
\* quick succession may pass it by.
ReceiversCatchUp == \A r \in Receivers : <>[](running => applied[r] = published)
=============================================================================
