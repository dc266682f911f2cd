------------------------------ MODULE SocketClient ------------------------------
(***************************************************************************)
(* The websocket client of the exchange (finance/src/portfolio/ws_api.rs): *)
(* a task that writes commands, a task that reads events, and requests     *)
(* that wait for the event with their correlation id.                      *)
(*                                                                         *)
(* &mut self lets one request wait at a time.  A correlation id is the     *)
(* kind of the request and a time stamp in milliseconds: the client's own  *)
(* clock for some kinds, server_ts, which the caller chooses, for the      *)
(* others.  Of a stamp it only matters whether it was used before.         *)
(***************************************************************************)
EXTENDS Integers, Sequences

CONSTANTS
    Kinds,         \* the destinations that are asked
    Clocked,       \* those whose ids are made with the client's clock (now_ms)
    Stamps,        \* bound: the time stamps in use
    MaxQueue,      \* bound: what is on its way to the exchange, or to the caller
    Subscribe, Snapshot,        \* the command, and the event it asks for
    Closed, TimedOut,           \* the errors of a request
    None

SocketAssumption ==
    /\ Clocked \subseteq Kinds
    /\ MaxQueue \in Nat \ {0} /\ None \notin Stamps
    /\ {Subscribe, Snapshot, None} \intersect (Kinds \X Stamps) = {}

VARIABLES
    stamp,             \* the client's last time stamp; None when at least a timeout has passed
    writer, reader,    \* the tasks: TRUE while they run
    commands,          \* the channel to the writer
    asked,             \* requests that the exchange has and has not answered
    subscribed,        \* by the exchange
    events,            \* the channel from the reader
    waiting,           \* the id of the request that waits, or None
    elapsed,           \* whether it has waited timeout_secs for an event
    result             \* of the last request

vars == <<stamp, writer, reader, commands, asked, subscribed, events, waiting, elapsed, result>>

Ids == Kinds \X Stamps

InUse(id) ==
    \/ id \in asked
    \/ \E i \in DOMAIN commands : commands[i] = id
    \/ \E i \in DOMAIN events : events[i] = id

TypeOK ==
    /\ stamp \in Stamps \union {None}
    /\ asked \subseteq Ids
    /\ commands \in Seq(Ids \union {Subscribe}) /\ events \in Seq(Ids \union {Snapshot})
    /\ waiting \in Ids \union {None}
    /\ elapsed => waiting # None
    /\ result \in [asked : Ids, got : Ids] \union {None, Closed, TimedOut}

\* connect: the tasks run.  The authentication it sends is not waited for.
Init ==
    /\ stamp = None
    /\ writer = TRUE /\ reader = TRUE
    /\ commands = <<>> /\ asked = {} /\ events = <<>> /\ subscribed = FALSE
    /\ waiting = None /\ elapsed = FALSE /\ result = None

-----------------------------------------------------------------------------
(* The caller.                                                             *)

SubscribePortfolio ==
    /\ waiting = None /\ writer /\ Len(commands) < MaxQueue
    /\ commands' = Append(commands, Subscribe)
    /\ UNCHANGED <<stamp, writer, reader, asked, subscribed, events, waiting, elapsed, result>>

\* Now is the millisecond of the last request, or one that no id has.
Now == {s \in Stamps : s = stamp \/ \A kind \in Clocked : ~InUse(<<kind, s>>)}

\* The send fails when the writer is gone.
Request(kind) ==
    /\ waiting = None /\ Len(commands) < MaxQueue
    /\ IF writer
       THEN \E now \in IF kind \in Clocked THEN Now ELSE Stamps :
                /\ stamp' = IF kind \in Clocked THEN now ELSE stamp
                /\ waiting' = <<kind, now>>
                /\ commands' = Append(commands, <<kind, now>>)
                /\ result' = None
       ELSE result' = Closed /\ UNCHANGED <<stamp, waiting, commands>>
    /\ UNCHANGED <<writer, reader, asked, subscribed, events, elapsed>>

Return(r) == result' = r /\ waiting' = None /\ elapsed' = FALSE

\* Mutant: any event that is no snapshot is taken for the answer.
IsAnswer_Any(event) == event # Snapshot

\* An event with the correlation id of the request
IsAnswer(event) == event = waiting

\* What is not the answer is dropped, and the timeout begins again.
Receive ==
    /\ waiting # None /\ events # <<>>
    /\ events' = Tail(events)
    /\ IF IsAnswer(Head(events))
       THEN Return([asked |-> waiting, got |-> Head(events)])
       ELSE /\ elapsed' = FALSE
            /\ UNCHANGED <<waiting, result>>
    /\ UNCHANGED <<stamp, writer, reader, commands, asked, subscribed>>

\* The channel closes with the reader, when it is empty.
ReceiveClosed ==
    /\ waiting # None /\ events = <<>> /\ ~reader
    /\ Return(Closed)
    /\ UNCHANGED <<stamp, writer, reader, commands, asked, subscribed, events>>

TimePasses ==
    /\ waiting # None /\ ~elapsed /\ elapsed' = TRUE
    /\ UNCHANGED <<stamp, writer, reader, commands, asked, subscribed, events, waiting, result>>

\* Mutant: it is the writer's end that ends the wait.
Timeout_Writer ==
    /\ elapsed /\ events = <<>> /\ ~writer
    /\ Return(TimedOut) /\ stamp' = None
    /\ UNCHANGED <<writer, reader, commands, asked, subscribed, events>>

\* Mutant: the next request may be of the millisecond of this one.
Timeout_NoTime ==
    /\ elapsed /\ events = <<>>
    /\ Return(TimedOut)
    /\ UNCHANGED <<stamp, writer, reader, commands, asked, subscribed, events>>

\* An event that is there is preferred to the timeout.
Timeout ==
    /\ elapsed /\ events = <<>>
    /\ Return(TimedOut) /\ stamp' = None
    /\ UNCHANGED <<writer, reader, commands, asked, subscribed, events>>

\* Between requests the caller reads the channel itself.
ReadEvent ==
    /\ waiting = None /\ events # <<>>
    /\ events' = Tail(events)
    /\ UNCHANGED <<stamp, writer, reader, commands, asked, subscribed, waiting, elapsed, result>>

-----------------------------------------------------------------------------
(* The tasks, and the exchange.                                            *)

Write ==
    /\ writer /\ commands # <<>>
    /\ commands' = Tail(commands)
    /\ IF Head(commands) = Subscribe
       THEN subscribed' = TRUE /\ UNCHANGED asked
       ELSE asked' = asked \union {Head(commands)} /\ UNCHANGED subscribed
    /\ UNCHANGED <<stamp, writer, reader, events, waiting, elapsed, result>>

\* A write or a ping that fails ends the task, with what it had to write.
WriteFails ==
    /\ writer /\ writer' = FALSE /\ commands' = <<>>
    /\ UNCHANGED <<stamp, reader, asked, subscribed, events, waiting, elapsed, result>>

Answered(id) ==
    /\ reader /\ id \in asked /\ Len(events) < MaxQueue
    /\ asked' = asked \ {id} /\ events' = Append(events, id)
    /\ UNCHANGED <<stamp, writer, reader, commands, subscribed, waiting, elapsed, result>>

Pushed ==
    /\ reader /\ subscribed /\ Len(events) < MaxQueue
    /\ events' = Append(events, Snapshot)
    /\ UNCHANGED <<stamp, writer, reader, commands, asked, subscribed, waiting, elapsed, result>>

\* Close, or an error: what is in the channel is still received.
ReadFails ==
    /\ reader /\ reader' = FALSE
    /\ UNCHANGED <<stamp, writer, commands, asked, subscribed, events, waiting, elapsed, result>>

Requests == \E kind \in Kinds : Request(kind)
Waits == Receive \/ ReceiveClosed \/ TimePasses \/ Timeout
Tasks == Write \/ WriteFails \/ ReadFails \/ \E id \in asked : Answered(id)

Quiet == Requests \/ Waits \/ ReadEvent \/ Tasks
Next == Quiet \/ SubscribePortfolio \/ Pushed

Spec == Init /\ [][Next]_vars

\* A caller that has not subscribed: time passes, and it is woken when it waits;
\* nothing is asked of the exchange.
QuietSpec ==
    /\ Init /\ [][Quiet]_vars
    /\ WF_vars(Receive) /\ WF_vars(ReceiveClosed) /\ WF_vars(TimePasses) /\ WF_vars(Timeout)

-----------------------------------------------------------------------------
(* Properties.                                                             *)

(* What a request returns has its id, although answers to requests that    *)
(* were given up arrive late (Client::request).                            *)
GotIsAsked == result \notin {None, Closed, TimedOut} => result.got = result.asked

(* Nor is it the answer to an earlier request with this id: as long as     *)
(* answers come in, an id made with the client's clock is taken only when  *)
(* no command and no answer with it is on its way, although two requests   *)
(* may be of one millisecond (ws_time, ws_depth, ws_exchange_info).  With  *)
(* server_ts this is up to the caller.                                     *)
NewIdIsFree ==
    [][waiting = None /\ waiting' # None /\ waiting'[1] \in Clocked /\ reader => ~InUse(waiting')]_vars

(* What a request returns is the answer to it, and to no earlier one.      *)
AnswerIsOwn == [](TypeOK /\ GotIsAsked) /\ NewIdIsFree

(* A request of a caller that has not subscribed returns: its answer, an   *)
(* error or "timeout waiting for websocket response".                      *)
RequestReturns == waiting # None ~> waiting = None
=============================================================================
