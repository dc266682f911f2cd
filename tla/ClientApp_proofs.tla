--------------------------- MODULE ClientApp_proofs ----------------------------
(***************************************************************************)
(* The terminal client, for every set of tools, lists and filters and any  *)
(* number of keys: what the title shows, and what the loop believes of the *)
(* session, agree with the session worker as soon as nothing is left       *)
(* between the two.                                                        *)
(***************************************************************************)
EXTENDS ClientApp, WellFoundedInduction, TLAPS

\* The events that session_worker sends.
Event == {Connected, CallResult, Token, Gone, Error}
            \union {Conn(c) : c \in {"Connecting", "Authenticating"}}
            \union {ToolsEvent(l) : l \in Lists}

\* Both channels hold sequences; the tool of a call may be anything.
QueuesOK == evts \in Seq(Event) /\ \E S : cmds \in Seq(S)

\* From here the worker comes to a session or to an error.
Opening == at \in {"bind", "authorize", "browser", "connect"}

\* The events that end a wait, whichever it is, and one of them after the k-th.
Ends == {"Connected", "CallResult", "Disconnected", "Error"}
EndsAfter(k) == \E j \in 1 .. Len(evts) : j > k /\ evts[j].kind \in Ends

CallQueued == \E j \in 1 .. Len(cmds) : cmds[j].kind = "CallTool"

\* A wait that is shown, or on its way to be shown, has its end before it: an event
\* that follows it, a login or connect under way, a call that is made or queued.
WaitInv ==
    /\ conn \in ConnState
    /\ conn \notin {"Disconnected", "Ready"} =>
          EndsAfter(0) \/ Opening \/ (conn = "Calling" /\ (at = "call" \/ CallQueued))
    /\ \A k \in 1 .. Len(evts) : evts[k].kind = "Conn" => EndsAfter(k) \/ Opening

\* The events after which the loop knows of no session, and one of them after the k-th.
Clears == {"Conn", "Disconnected"}
ClearsAfter(k) == \E j \in 1 .. Len(evts) : j > k /\ evts[j].kind \in Clears

\* A worker without a session, and not about to hold one, has told the loop so after
\* whatever could make it believe otherwise.
BeliefInv ==
    ~session /\ at \notin {"list", "done"} =>
        /\ has_session => ClearsAfter(0)
        /\ \A k \in 1 .. Len(evts) : evts[k].kind = "Connected" => ClearsAfter(k)

ChannelInv == QueuesOK /\ WaitInv /\ BeliefInv

(* The kind of an event tells the others apart.                            *)
LEMMA EventKinds ==
  /\ Connected \in Event /\ Connected.kind = "Connected"
  /\ CallResult \in Event /\ CallResult.kind = "CallResult"
  /\ Token \in Event /\ Token.kind = "Token"
  /\ Gone \in Event /\ Gone.kind = "Disconnected"
  /\ Error \in Event /\ Error.kind = "Error"
  /\ \A c \in {"Connecting", "Authenticating"} : Conn(c) \in Event /\ Conn(c).kind = "Conn"
  /\ \A l \in Lists : ToolsEvent(l) \in Event /\ ToolsEvent(l).kind = "Tools"
  /\ \A e \in Event : e.kind = "Conn" => e.conn \in {"Connecting", "Authenticating"}
  /\ \A e \in Event : e.kind = "Tools" => e.tools \in Lists
<1>1. /\ Connected \in Event /\ CallResult \in Event /\ Token \in Event
      /\ Gone \in Event /\ Error \in Event
  BY DEF Event
<1>2. /\ \A c \in {"Connecting", "Authenticating"} : Conn(c) \in Event
      /\ \A l \in Lists : ToolsEvent(l) \in Event
  BY DEF Event
<1>3. /\ Connected.kind = "Connected" /\ CallResult.kind = "CallResult" /\ Token.kind = "Token"
      /\ Gone.kind = "Disconnected" /\ Error.kind = "Error"
  BY DEF Connected, CallResult, Token, Gone, Error
<1>4. /\ \A c : Conn(c).kind = "Conn" /\ Conn(c).conn = c
      /\ \A l : ToolsEvent(l).kind = "Tools"
  BY DEF Conn, ToolsEvent
<1>5. ASSUME NEW e \in Event, e.kind = "Conn" PROVE e.conn \in {"Connecting", "Authenticating"}
  <2>1. CASE e \in {Connected, CallResult, Token, Gone, Error}
    BY <1>3, <1>5, <2>1
  <2>2. CASE e \in {Conn(c) : c \in {"Connecting", "Authenticating"}}
    BY <1>4, <2>2
  <2>3. CASE e \in {ToolsEvent(l) : l \in Lists}
    BY <1>4, <1>5, <2>3
  <2>. QED
    BY <2>1, <2>2, <2>3 DEF Event
<1>6. ASSUME NEW e \in Event, e.kind = "Tools" PROVE e.tools \in Lists
  <2>1. CASE e \in {Connected, CallResult, Token, Gone, Error}
    BY <1>3, <1>6, <2>1
  <2>2. CASE e \in {Conn(c) : c \in {"Connecting", "Authenticating"}}
    BY <1>4, <1>6, <2>2
  <2>3. CASE e \in {ToolsEvent(l) : l \in Lists}
    BY <2>3 DEF ToolsEvent
  <2>. QED
    BY <2>1, <2>2, <2>3 DEF Event
<1>. QED
  BY <1>1, <1>2, <1>3, <1>4, <1>5, <1>6

(* What is sent comes after what was sent before.                          *)
LEMMA Sent ==
  ASSUME evts \in Seq(Event), NEW es \in Seq(Event), Send(es)
  PROVE  /\ evts' \in Seq(Event) /\ Len(evts') = Len(evts) + Len(es)
         /\ \A j \in 1 .. Len(evts) : evts'[j] = evts[j]
         /\ \A j \in 1 .. Len(es) : evts'[Len(evts) + j] = es[j]
         /\ \A j \in 1 .. Len(evts') : j > Len(evts) => evts'[j] = es[j - Len(evts)]
BY DEF Send

(* The initial state, with at most the first command queued.               *)
LEMMA InitChannels == Init => ChannelInv
<1>. SUFFICES ASSUME Init PROVE ChannelInv
  OBVIOUS
<1>1. evts = <<>> /\ evts \in Seq(Event) /\ Len(evts) = 0
  BY DEF Init
<1>2. cmds \in Seq({Cmd("Connect")})
  <2>1. <<Cmd("Connect")>> \in Seq({Cmd("Connect")}) /\ <<>> \in Seq({Cmd("Connect")})
    OBVIOUS
  <2>. QED
    BY <2>1 DEF Init
<1>3. WaitInv
  BY <1>1 DEF Init, WaitInv, ConnState
<1>4. BeliefInv
  BY <1>1 DEF Init, BeliefInv
<1>. QED
  BY <1>1, <1>2, <1>3, <1>4 DEF ChannelInv, QueuesOK

(* Every step keeps sequences in the channels.                             *)
LEMMA QueuesStep == QueuesOK /\ [Next]_vars => QueuesOK'
<1>. SUFFICES ASSUME QueuesOK, [Next]_vars PROVE QueuesOK'
  OBVIOUS
<1>1. PICK S : cmds \in Seq(S)
  BY DEF QueuesOK
<1>2. evts \in Seq(Event)
  BY DEF QueuesOK
<1>3. ASSUME NEW c, cmds' = Append(cmds, c) PROVE \E T : cmds' \in Seq(T)
  <2>1. cmds \in Seq(S \cup {c})
    BY <1>1
  <2>. QED
    BY <1>3, <2>1
<1>4. cmds' = Tail(cmds) /\ cmds # <<>> => \E T : cmds' \in Seq(T)
  BY <1>1
<1>5. cmds' = cmds => \E T : cmds' \in Seq(T)
  BY <1>1
<1>6. ASSUME NEW es \in Seq(Event), Send(es) PROVE evts' \in Seq(Event)
  BY <1>2, <1>6, Sent
<1>7. CASE HandleEvent
  BY <1>2, <1>5, <1>7 DEF HandleEvent, QueuesOK
<1>8. CASE Key
  BY <1>2, <1>3, <1>5, <1>8 DEF Key, FilterKey, ArgsKey, QuitKey, CommandKey, FocusKey, MoveKey,
        SelectKey, InvokeKey, Command, Press, QueuesOK
<1>9. CASE Drained \/ PollTimeout \/ Return \/ Done \/ AcceptCallback \/ UNCHANGED vars
  BY <1>2, <1>3, <1>5, <1>9 DEF Drained, PollTimeout, Return, Done, AcceptCallback, vars, QueuesOK
<1>10. CASE Worker
  <2>1. evts' = evts \/ \E es \in Seq(Event) : Send(es)
    <3>0. /\ <<>> \in Seq(Event)
          /\ \A e \in Event : <<e>> \in Seq(Event) /\ \A d \in Event : <<d, e>> \in Seq(Event)
      OBVIOUS
    <3>1. CASE OnShutdown \/ OnDisconnect \/ OnConnect \/ OnLogin
      BY <3>0, <3>1, EventKinds DEF OnShutdown, OnDisconnect, OnConnect, OnLogin
    <3>2. CASE OnRefresh \/ OnCall
      <4>1. (IF session THEN <<>> ELSE <<Error>>) \in Seq(Event)
        BY <3>0, EventKinds
      <4>. QED
        BY <4>1, <3>2 DEF OnRefresh, OnCall
    <3>3. CASE Refreshed \/ Called \/ ConnectDone \/ ConnectListed
      BY <3>0, <3>3, EventKinds DEF Refreshed, Called, ConnectDone, ConnectListed
    <3>4. CASE LoginBind \/ LoginAuthorize \/ LoginCallback
      BY <3>0, <3>4, EventKinds DEF LoginBind, LoginAuthorize, LoginCallback, LoginFailed
    <3>. QED
      BY <1>10, <3>1, <3>2, <3>3, <3>4 DEF Worker
  <2>2. cmds' = cmds \/ (cmds # <<>> /\ cmds' = Tail(cmds))
    BY <1>10 DEF Worker, OnShutdown, OnDisconnect, OnConnect, OnLogin, OnRefresh, OnCall, Refreshed,
          Called, ConnectDone, ConnectListed, LoginBind, LoginAuthorize, LoginCallback, Take
  <2>. QED
    BY <1>2, <1>4, <1>5, <1>6, <2>1, <2>2 DEF QueuesOK
<1>. QED
  BY <1>7, <1>8, <1>9, <1>10 DEF Next

(* What is sent leaves what was still to come, and an end that is sent     *)
(* comes after everything.                                                 *)
LEMMA StillToCome ==
  ASSUME evts \in Seq(Event), NEW es \in Seq(Event), Send(es)
  PROVE  /\ \A k \in Nat : /\ EndsAfter(k) => EndsAfter(k)'
                           /\ ClearsAfter(k) => ClearsAfter(k)'
         /\ \A j \in 1 .. Len(es), k \in 0 .. Len(evts) :
               /\ es[j].kind \in Ends => EndsAfter(k)'
               /\ es[j].kind \in Clears => ClearsAfter(k)'
<1>1. /\ Len(evts) \in Nat /\ Len(es) \in Nat /\ Len(evts') = Len(evts) + Len(es)
      /\ \A j \in 1 .. Len(evts) : evts'[j] = evts[j]
      /\ \A j \in 1 .. Len(es) : evts'[Len(evts) + j] = es[j]
  BY Sent
<1>2. ASSUME NEW k \in Nat
      PROVE  /\ EndsAfter(k) => EndsAfter(k)'
             /\ ClearsAfter(k) => ClearsAfter(k)'
  BY <1>1 DEF EndsAfter, ClearsAfter
<1>3. ASSUME NEW j \in 1 .. Len(es), NEW k \in 0 .. Len(evts)
      PROVE  /\ es[j].kind \in Ends => EndsAfter(k)'
             /\ es[j].kind \in Clears => ClearsAfter(k)'
  <2>1. Len(evts) + j \in 1 .. Len(evts') /\ Len(evts) + j > k
    BY <1>1
  <2>. QED
    BY <1>1, <2>1 DEF EndsAfter, ClearsAfter
<1>. QED
  BY <1>2, <1>3

(* A worker step that sends the end of a wait keeps WaitInv.               *)
LEMMA WaitEnding ==
  ASSUME evts \in Seq(Event), WaitInv, conn' = conn, NEW e \in Event, e.kind \in Ends, Send(<<e>>)
  PROVE  WaitInv'
<1>1. <<e>> \in Seq(Event) /\ Len(<<e>>) = 1 /\ <<e>>[1] = e
  OBVIOUS
<1>2. \A k \in 0 .. Len(evts) : EndsAfter(k)'
  <2>. DEFINE es == <<e>>
  <2>1. es \in Seq(Event) /\ Send(es) /\ 1 \in 1 .. Len(es) /\ es[1].kind \in Ends
    BY <1>1
  <2>. HIDE DEF es
  <2>. QED
    BY <2>1, StillToCome
<1>3. /\ Len(evts) \in Nat /\ Len(evts') = Len(evts) + 1
      /\ evts'[Len(evts) + 1] = e
  BY <1>1 DEF Send
<1>4. e.kind # "Conn"
  BY DEF Ends
<1>5. EndsAfter(0)'
  BY <1>2, <1>3
<1>6. \A k \in 1 .. Len(evts') : evts'[k].kind = "Conn" => EndsAfter(k)'
  <2>. SUFFICES ASSUME NEW k \in 1 .. Len(evts'), evts'[k].kind = "Conn" PROVE EndsAfter(k)'
    OBVIOUS
  <2>1. k # Len(evts) + 1
    BY <1>3, <1>4
  <2>. QED
    BY <1>2, <1>3, <2>1
<1>. QED
  BY <1>5, <1>6 DEF WaitInv

(* A step that leaves the worker on its way to a session keeps it.         *)
LEMMA WaitOpening == WaitInv /\ conn' = conn /\ Opening' => WaitInv'
BY DEF WaitInv

(* A step that sends nothing the title reads keeps it, if the waits it     *)
(* shows are still under way.                                              *)
LEMMA WaitFrame ==
  ASSUME evts \in Seq(Event), WaitInv, conn' = conn, Opening => Opening',
         at = "call" \/ CallQueued => at' = "call" \/ CallQueued',
         NEW es \in Seq(Event), Send(es), \A j \in 1 .. Len(es) : es[j].kind # "Conn"
  PROVE  WaitInv'
<1>1. \A k \in Nat : EndsAfter(k) => EndsAfter(k)'
  BY StillToCome
<1>2. /\ Len(evts) \in Nat /\ Len(evts') = Len(evts) + Len(es) /\ Len(es) \in Nat
      /\ \A j \in 1 .. Len(evts) : evts'[j] = evts[j]
      /\ \A j \in 1 .. Len(evts') : j > Len(evts) => evts'[j] = es[j - Len(evts)]
  BY Sent
<1>3. \A k \in 1 .. Len(evts') : evts'[k].kind = "Conn" => EndsAfter(k)' \/ Opening'
  <2>. SUFFICES ASSUME NEW k \in 1 .. Len(evts'), evts'[k].kind = "Conn"
                PROVE  EndsAfter(k)' \/ Opening'
    OBVIOUS
  <2>1. k \in 1 .. Len(evts)
    <3>1. k > Len(evts) => k - Len(evts) \in 1 .. Len(es)
      BY <1>2
    <3>. QED
      BY <1>2, <3>1
  <2>2. evts[k].kind = "Conn" /\ k \in Nat
    BY <1>2, <2>1
  <2>3. EndsAfter(k) \/ Opening
    BY <2>1, <2>2 DEF WaitInv
  <2>. QED
    BY <1>1, <2>2, <2>3
<1>4. EndsAfter(0) => EndsAfter(0)'
  BY <1>1
<1>. QED
  BY <1>3, <1>4 DEF WaitInv

(* A call waits in the queue until the worker takes it.                    *)
LEMMA CallWaits ==
  ASSUME NEW S, cmds \in Seq(S), CallQueued,
         \/ \E c : cmds' = Append(cmds, c)
         \/ cmds # <<>> /\ Head(cmds).kind # "CallTool" /\ cmds' = Tail(cmds)
  PROVE  CallQueued'
<1>1. PICK j \in 1 .. Len(cmds) : cmds[j].kind = "CallTool"
  BY DEF CallQueued
<1>2. CASE \E c : cmds' = Append(cmds, c)
  <2>1. j \in 1 .. Len(cmds') /\ cmds'[j] = cmds[j]
    <3>1. PICK c : cmds' = Append(cmds, c)
      BY <1>2
    <3>2. cmds \in Seq(S \cup {c}) /\ c \in S \cup {c}
      OBVIOUS
    <3>. QED
      BY <3>1, <3>2
  <2>. QED
    BY <1>1, <2>1 DEF CallQueued
<1>3. CASE cmds # <<>> /\ Head(cmds).kind # "CallTool" /\ cmds' = Tail(cmds)
  <2>1. j # 1
    BY <1>1, <1>3
  <2>2. j - 1 \in 1 .. Len(cmds') /\ cmds'[j - 1] = cmds[j]
    BY <1>3, <2>1
  <2>. QED
    BY <1>1, <2>2 DEF CallQueued
<1>. QED
  BY <1>2, <1>3

(* The loop takes the first event, and the others move up by one.          *)
LEMMA Taken ==
  ASSUME evts \in Seq(Event), evts # <<>>, evts' = Tail(evts)
  PROVE  /\ Len(evts) \in Nat /\ 1 \in 1 .. Len(evts) /\ Head(evts) = evts[1]
         /\ Head(evts) \in Event
         /\ \A k \in 1 .. Len(evts') : k + 1 \in 1 .. Len(evts) /\ evts'[k] = evts[k + 1]
         /\ \A k \in Nat : /\ EndsAfter(k + 1) => EndsAfter(k)'
                           /\ ClearsAfter(k + 1) => ClearsAfter(k)'
         /\ Head(evts).kind \notin Ends => (EndsAfter(0) => EndsAfter(1))
         /\ Head(evts).kind \notin Clears => (ClearsAfter(0) => ClearsAfter(1))
<1>1. /\ Len(evts) \in Nat /\ Len(evts) > 0 /\ Head(evts) = evts[1] /\ Head(evts) \in Event
      /\ Len(evts') = Len(evts) - 1
      /\ \A k \in 1 .. Len(evts') : evts'[k] = evts[k + 1]
  OBVIOUS
<1>2. ASSUME NEW k \in Nat
      PROVE  /\ EndsAfter(k + 1) => EndsAfter(k)'
             /\ ClearsAfter(k + 1) => ClearsAfter(k)'
  <2>1. ASSUME NEW j \in 1 .. Len(evts), j > k + 1
        PROVE  j - 1 \in 1 .. Len(evts') /\ j - 1 > k /\ evts'[j - 1] = evts[j]
    BY <1>1, <2>1
  <2>2. EndsAfter(k + 1) => EndsAfter(k)'
    BY <2>1 DEF EndsAfter
  <2>3. ClearsAfter(k + 1) => ClearsAfter(k)'
    BY <2>1 DEF ClearsAfter
  <2>. QED
    BY <2>2, <2>3
<1>3. ASSUME NEW j \in 1 .. Len(evts), j # 1 PROVE j > 1
  BY <1>1, <1>3
<1>4. Head(evts).kind \notin Ends => (EndsAfter(0) => EndsAfter(1))
  BY <1>1, <1>3 DEF EndsAfter
<1>5. Head(evts).kind \notin Clears => (ClearsAfter(0) => ClearsAfter(1))
  BY <1>1, <1>3 DEF ClearsAfter
<1>6. \A k \in 1 .. Len(evts') : k + 1 \in 1 .. Len(evts)
  BY <1>1
<1>. QED
  BY <1>1, <1>2, <1>4, <1>5, <1>6

(* The title after an event: a wait that goes on, or that the event        *)
(* begins, has its end among the events that follow or in the worker.      *)
LEMMA WaitEvents ==
  ASSUME evts \in Seq(Event), WaitInv, HandleEvent
  PROVE  WaitInv'
<1>. DEFINE e == Head(evts)
<1>1. /\ e \in Event /\ e = evts[1] /\ 1 \in 1 .. Len(evts)
      /\ \A k \in 1 .. Len(evts') : k + 1 \in 1 .. Len(evts) /\ evts'[k] = evts[k + 1]
      /\ \A k \in Nat : EndsAfter(k + 1) => EndsAfter(k)'
      /\ e.kind \notin Ends => (EndsAfter(0) => EndsAfter(1))
  BY Taken DEF HandleEvent
<1>2. UNCHANGED <<at, cmds>> /\ (Opening' <=> Opening) /\ (CallQueued' <=> CallQueued)
  BY DEF HandleEvent, worker, Opening, CallQueued
<1>3. \A k \in 1 .. Len(evts') : evts'[k].kind = "Conn" => EndsAfter(k)' \/ Opening'
  <2>. SUFFICES ASSUME NEW k \in 1 .. Len(evts'), evts'[k].kind = "Conn"
                PROVE  EndsAfter(k)' \/ Opening'
    OBVIOUS
  <2>1. k \in Nat /\ k + 1 \in 1 .. Len(evts) /\ evts[k + 1].kind = "Conn"
    BY <1>1
  <2>2. EndsAfter(k + 1) \/ Opening
    BY <2>1 DEF WaitInv
  <2>. QED
    BY <1>1, <1>2, <2>1, <2>2
<1>4. EndsAfter(1) => EndsAfter(0)'
  BY <1>1
<1>5. CASE e.kind = "Conn" /\ conn' = e.conn
  <2>1. conn' \in ConnState
    BY <1>1, <1>5, EventKinds DEF ConnState
  <2>2. EndsAfter(1) \/ Opening
    BY <1>1, <1>5 DEF WaitInv
  <2>. QED
    BY <1>2, <1>3, <1>4, <2>1, <2>2 DEF WaitInv
<1>6. CASE conn' \in {"Ready", "Disconnected"}
  BY <1>3, <1>6 DEF WaitInv, ConnState
<1>7. CASE e.kind \in {"Tools", "Token"} /\ conn' = conn
  BY <1>1, <1>2, <1>3, <1>4, <1>7 DEF WaitInv, Ends
<1>8. CASE e.kind = "Error" /\ OnError
  BY <1>6, <1>8 DEF OnError, WaitInv, ConnState
<1>. QED
  BY <1>5, <1>6, <1>7, <1>8 DEF HandleEvent, view, OnDisconnected

(* Every step keeps the end of each wait before it.                        *)
LEMMA WaitStep == QueuesOK /\ WaitInv /\ [Next]_vars => WaitInv'
<1>. SUFFICES ASSUME QueuesOK, WaitInv, [Next]_vars PROVE WaitInv'
  OBVIOUS
<1>1. evts \in Seq(Event)
  BY DEF QueuesOK
<1>2. PICK S : cmds \in Seq(S)
  BY DEF QueuesOK
<1>3. ASSUME evts' = evts, conn' = conn, Opening => Opening',
             at = "call" \/ CallQueued => at' = "call" \/ CallQueued'
      PROVE  WaitInv'
  BY <1>3 DEF WaitInv, EndsAfter
<1>4. ASSUME NEW e \in Event, e.kind \in Ends, Send(<<e>>), conn' = conn PROVE WaitInv'
  BY <1>1, <1>4, WaitEnding
<1>5. CASE HandleEvent
  BY <1>1, <1>5, WaitEvents
<1>6. CASE InvokeKey
  <2>1. evts' = evts /\ at' = at /\ conn' = "Calling"
    BY <1>6 DEF InvokeKey, Command, Press, worker
  <2>2. CallQueued'
    <3>1. PICK c : c.kind = "CallTool" /\ cmds' = Append(cmds, c)
      BY <1>6 DEF InvokeKey, CallTool
    <3>2. cmds \in Seq(S \cup {c}) /\ c \in S \cup {c}
      BY <1>2
    <3>3. Len(cmds') \in 1 .. Len(cmds') /\ cmds'[Len(cmds')] = c
      BY <3>1, <3>2
    <3>. QED
      BY <3>1, <3>3 DEF CallQueued
  <2>3. (Opening' <=> Opening) /\ \A k : EndsAfter(k)' <=> EndsAfter(k)
    BY <2>1 DEF Opening, EndsAfter
  <2>. QED
    BY <2>1, <2>2, <2>3 DEF WaitInv, ConnState
<1>7. CASE FilterKey \/ ArgsKey \/ QuitKey \/ CommandKey \/ FocusKey \/ MoveKey \/ SelectKey
  <2>1. evts' = evts /\ at' = at /\ conn' = conn
    BY <1>7 DEF FilterKey, ArgsKey, QuitKey, CommandKey, FocusKey, MoveKey, SelectKey, Command,
          Press, worker, view
  <2>2. cmds' = cmds \/ \E c : cmds' = Append(cmds, c)
    BY <1>7 DEF FilterKey, ArgsKey, QuitKey, CommandKey, FocusKey, MoveKey, SelectKey, Command,
          Press
  <2>3. CallQueued => CallQueued'
    BY <1>2, <2>2, CallWaits DEF CallQueued
  <2>. QED
    BY <1>3, <2>1, <2>3 DEF Opening
<1>8. CASE Drained \/ PollTimeout \/ Return \/ Done \/ AcceptCallback \/ UNCHANGED vars
  <2>1. evts' = evts /\ at' = at /\ conn' = conn
    BY <1>8 DEF Drained, PollTimeout, Return, Done, AcceptCallback, vars, app, view, worker
  <2>2. cmds' = cmds \/ \E c : cmds' = Append(cmds, c)
    BY <1>8 DEF Drained, PollTimeout, Return, Done, AcceptCallback, vars
  <2>3. CallQueued => CallQueued'
    BY <1>2, <2>2, CallWaits DEF CallQueued
  <2>. QED
    BY <1>3, <2>1, <2>3 DEF Opening
<1>9. CASE OnShutdown
  <2>1. at = "recv" /\ evts' = evts /\ conn' = conn
    BY <1>9 DEF OnShutdown, Take, app, view
  <2>2. CallQueued => CallQueued'
    BY <1>2, <1>9, CallWaits DEF OnShutdown, Take
  <2>. QED
    BY <1>3, <2>1, <2>2 DEF Opening
<1>10. CASE OnDisconnect
  BY <1>4, <1>10, EventKinds DEF OnDisconnect, app, view, Ends
<1>11. CASE OnConnect \/ OnLogin
  BY <1>11, WaitOpening DEF OnConnect, OnLogin, app, view, Opening
<1>12. CASE OnRefresh
  <2>1. CASE ~session
    BY <1>4, <1>12, <2>1, EventKinds DEF OnRefresh, app, view, Ends
  <2>2. CASE session
    <3>1. at = "recv" /\ evts' = evts \o <<>> /\ conn' = conn
      BY <1>12, <2>2 DEF OnRefresh, Take, Send, app, view
    <3>2. evts' = evts
      BY <1>1, <3>1
    <3>3. CallQueued => CallQueued'
      BY <1>2, <1>12, CallWaits DEF OnRefresh, Take
    <3>. QED
      BY <1>3, <3>1, <3>2, <3>3 DEF Opening
  <2>. QED
    BY <2>1, <2>2
<1>13. CASE OnCall
  <2>1. CASE ~session
    BY <1>4, <1>13, <2>1, EventKinds DEF OnCall, app, view, Ends
  <2>2. CASE session
    <3>1. at = "recv" /\ at' = "call" /\ evts' = evts \o <<>> /\ conn' = conn
      BY <1>13, <2>2 DEF OnCall, Take, Send, app, view
    <3>2. evts' = evts
      BY <1>1, <3>1
    <3>. QED
      BY <1>3, <3>1, <3>2 DEF Opening
  <2>. QED
    BY <2>1, <2>2
<1>14. ASSUME NEW es \in Seq(Event), Send(es), \A j \in 1 .. Len(es) : es[j].kind # "Conn",
              at \in {"refresh", "list"}, UNCHANGED <<conn, cmds>>
       PROVE  WaitInv'
  <2>1. ~Opening /\ (at = "call" \/ CallQueued => CallQueued')
    BY <1>14 DEF Opening, CallQueued
  <2>. QED
    BY <1>1, <1>14, <2>1, WaitFrame
<1>15. ASSUME NEW l \in Lists, Send(<<ToolsEvent(l)>>), at \in {"refresh", "list"},
              UNCHANGED <<conn, cmds>>
       PROVE  WaitInv'
  <2>. DEFINE es == <<ToolsEvent(l)>>
  <2>1. es \in Seq(Event) /\ Send(es) /\ \A j \in 1 .. Len(es) : es[j].kind # "Conn"
    BY <1>15, EventKinds
  <2>. HIDE DEF es
  <2>. QED
    BY <1>14, <1>15, <2>1
<1>16. CASE Refreshed
  <2>1. at \in {"refresh", "list"} /\ UNCHANGED <<conn, cmds>>
    BY <1>16 DEF Refreshed, app, view
  <2>. QED
    BY <1>4, <1>15, <1>16, <2>1, EventKinds DEF Refreshed, Ends
<1>17. CASE ConnectListed
  <2>1. at \in {"refresh", "list"} /\ UNCHANGED <<conn, cmds>>
    BY <1>17 DEF ConnectListed, app, view
  <2>2. CASE Send(<<>>)
    <3>. DEFINE es == <<>>
    <3>1. es \in Seq(Event) /\ Send(es) /\ \A j \in 1 .. Len(es) : es[j].kind # "Conn"
      BY <2>2
    <3>. HIDE DEF es
    <3>. QED
      BY <1>14, <2>1, <3>1
  <2>. QED
    BY <1>15, <1>17, <2>1, <2>2 DEF ConnectListed
<1>18. CASE Called \/ ConnectDone
  BY <1>4, <1>18, EventKinds DEF Called, ConnectDone, app, view, Ends
<1>19. CASE LoginBind \/ LoginAuthorize \/ LoginCallback
  <2>1. conn' = conn
    BY <1>19 DEF LoginBind, LoginAuthorize, LoginCallback, app, view
  <2>2. CASE LoginFailed
    BY <1>4, <2>1, <2>2, EventKinds DEF LoginFailed, Ends
  <2>3. CASE at' \in {"authorize", "browser", "connect"}
    BY <2>1, <2>3, WaitOpening DEF Opening
  <2>. QED
    BY <1>19, <2>2, <2>3 DEF LoginBind, LoginAuthorize, LoginCallback
<1>. QED
  BY <1>5, <1>6, <1>7, <1>8, <1>9, <1>10, <1>11, <1>12, <1>13, <1>16, <1>17, <1>18, <1>19
     DEF Next, Key, Worker

(* A worker step that closes the session tells the loop so.                *)
LEMMA BeliefCleared ==
  ASSUME evts \in Seq(Event), NEW e \in Event, e.kind \in Clears, Send(<<e>>)
  PROVE  BeliefInv'
<1>. DEFINE es == <<e>>
<1>1. es \in Seq(Event) /\ Send(es) /\ Len(es) = 1 /\ 1 \in 1 .. Len(es) /\ es[1] = e
  OBVIOUS
<1>. HIDE DEF es
<1>2. \A k \in 0 .. Len(evts) : ClearsAfter(k)'
  BY <1>1, StillToCome
<1>3. /\ Len(evts) \in Nat /\ Len(evts') = Len(evts) + 1 /\ evts'[Len(evts) + 1] = e
  BY <1>1 DEF Send
<1>4. e.kind # "Connected"
  BY DEF Clears
<1>5. ASSUME NEW k \in 1 .. Len(evts'), evts'[k].kind = "Connected" PROVE ClearsAfter(k)'
  <2>1. k # Len(evts) + 1
    BY <1>3, <1>4, <1>5
  <2>. QED
    BY <1>2, <1>3, <2>1
<1>6. ClearsAfter(0)'
  BY <1>2, <1>3
<1>. QED
  BY <1>5, <1>6 DEF BeliefInv

(* A step that neither closes the session nor sends that there is one      *)
(* keeps BeliefInv.                                                        *)
LEMMA BeliefFrame ==
  ASSUME evts \in Seq(Event), BeliefInv, has_session' = has_session,
         ~session' /\ at' \notin {"list", "done"} => ~session /\ at \notin {"list", "done"},
         NEW es \in Seq(Event), Send(es), \A j \in 1 .. Len(es) : es[j].kind # "Connected"
  PROVE  BeliefInv'
<1>. SUFFICES ASSUME ~session', at' \notin {"list", "done"}
              PROVE  /\ has_session' => ClearsAfter(0)'
                     /\ \A k \in 1 .. Len(evts') :
                           evts'[k].kind = "Connected" => ClearsAfter(k)'
  BY DEF BeliefInv
<1>1. \A k \in Nat : ClearsAfter(k) => ClearsAfter(k)'
  BY StillToCome
<1>2. /\ Len(evts) \in Nat /\ Len(evts') = Len(evts) + Len(es) /\ Len(es) \in Nat
      /\ \A j \in 1 .. Len(evts) : evts'[j] = evts[j]
      /\ \A j \in 1 .. Len(evts') : j > Len(evts) => evts'[j] = es[j - Len(evts)]
  BY Sent
<1>3. has_session' => ClearsAfter(0)'
  BY <1>1 DEF BeliefInv
<1>4. ASSUME NEW k \in 1 .. Len(evts'), evts'[k].kind = "Connected" PROVE ClearsAfter(k)'
  <2>1. k > Len(evts) => k - Len(evts) \in 1 .. Len(es)
    BY <1>2
  <2>2. k \in 1 .. Len(evts) /\ k \in Nat /\ evts[k].kind = "Connected"
    BY <1>2, <1>4, <2>1
  <2>3. ClearsAfter(k)
    BY <2>2 DEF BeliefInv
  <2>. QED
    BY <1>1, <2>2, <2>3
<1>. QED
  BY <1>3, <1>4

(* What the loop believes after an event.                                  *)
LEMMA BeliefEvents ==
  ASSUME evts \in Seq(Event), BeliefInv, HandleEvent
  PROVE  BeliefInv'
<1>. SUFFICES ASSUME ~session', at' \notin {"list", "done"}
              PROVE  /\ has_session' => ClearsAfter(0)'
                     /\ \A k \in 1 .. Len(evts') :
                           evts'[k].kind = "Connected" => ClearsAfter(k)'
  BY DEF BeliefInv
<1>. DEFINE e == Head(evts)
<1>1. /\ e \in Event /\ e = evts[1] /\ 1 \in 1 .. Len(evts)
      /\ \A k \in 1 .. Len(evts') : k + 1 \in 1 .. Len(evts) /\ evts'[k] = evts[k + 1]
      /\ \A k \in Nat : ClearsAfter(k + 1) => ClearsAfter(k)'
      /\ e.kind \notin Clears => (ClearsAfter(0) => ClearsAfter(1))
  BY Taken DEF HandleEvent
<1>2. ~session /\ at \notin {"list", "done"}
  BY DEF HandleEvent, worker
<1>3. /\ has_session => ClearsAfter(0)
      /\ \A k \in 1 .. Len(evts) : evts[k].kind = "Connected" => ClearsAfter(k)
  BY <1>2 DEF BeliefInv
<1>4. ASSUME NEW k \in 1 .. Len(evts'), evts'[k].kind = "Connected" PROVE ClearsAfter(k)'
  <2>1. k \in Nat /\ k + 1 \in 1 .. Len(evts) /\ evts[k + 1].kind = "Connected"
    BY <1>1, <1>4
  <2>. QED
    BY <1>1, <1>3, <2>1
<1>5. ClearsAfter(1) => ClearsAfter(0)'
  BY <1>1
<1>6. CASE e.kind = "Conn"
  <2>1. e.conn \notin {"Ready", "Calling"}
    BY <1>1, <1>6, EventKinds
  <2>2. ~has_session'
    BY <1>6, <2>1 DEF HandleEvent
  <2>. QED
    BY <1>4, <2>2
<1>7. CASE e.kind = "Connected"
  <2>1. ClearsAfter(1)
    BY <1>1, <1>3, <1>7
  <2>. QED
    BY <1>4, <1>5, <2>1
<1>8. CASE e.kind = "Disconnected"
  <2>1. ~has_session'
    BY <1>8 DEF HandleEvent, OnDisconnected
  <2>. QED
    BY <1>4, <2>1
<1>9. CASE e.kind \in {"Tools", "CallResult", "Token", "Error"}
  <2>1. has_session' => has_session
    BY <1>9 DEF HandleEvent, OnError, view
  <2>2. e.kind \notin Clears
    BY <1>9 DEF Clears
  <2>. QED
    BY <1>1, <1>3, <1>4, <1>5, <2>1, <2>2
<1>. QED
  BY <1>6, <1>7, <1>8, <1>9 DEF HandleEvent

(* Every step keeps the loop told of the session that is gone.             *)
LEMMA BeliefStep == QueuesOK /\ BeliefInv /\ [Next]_vars => BeliefInv'
<1>. SUFFICES ASSUME QueuesOK, BeliefInv, [Next]_vars PROVE BeliefInv'
  OBVIOUS
<1>1. evts \in Seq(Event)
  BY DEF QueuesOK
<1>2. ASSUME evts' = evts, has_session' = has_session,
             ~session' /\ at' \notin {"list", "done"} => ~session /\ at \notin {"list", "done"}
      PROVE  BeliefInv'
  BY <1>2 DEF BeliefInv, ClearsAfter
<1>3. ASSUME NEW e \in Event, e.kind # "Connected", Send(<<e>>), has_session' = has_session,
             ~session' /\ at' \notin {"list", "done"} => ~session /\ at \notin {"list", "done"}
      PROVE  BeliefInv'
  <2>. DEFINE es == <<e>>
  <2>1. es \in Seq(Event) /\ Send(es) /\ \A j \in 1 .. Len(es) : es[j].kind # "Connected"
    BY <1>3
  <2>. HIDE DEF es
  <2>. QED
    BY <1>1, <1>3, <2>1, BeliefFrame
<1>4. CASE session' \/ at' \in {"list", "done"}
  BY <1>4 DEF BeliefInv
<1>5. CASE HandleEvent
  BY <1>1, <1>5, BeliefEvents
<1>6. CASE Key
  BY <1>2, <1>6 DEF Key, FilterKey, ArgsKey, QuitKey, CommandKey, FocusKey, MoveKey, SelectKey,
        InvokeKey, Command, Press, worker, view
<1>7. CASE Drained \/ PollTimeout \/ Return \/ Done \/ AcceptCallback \/ UNCHANGED vars
  BY <1>2, <1>7 DEF Drained, PollTimeout, Return, Done, AcceptCallback, vars, app, view, worker
<1>8. CASE OnDisconnect \/ OnConnect
  BY <1>1, <1>8, BeliefCleared, EventKinds DEF OnDisconnect, OnConnect, Clears
<1>9. CASE OnLogin
  BY <1>3, <1>9, EventKinds DEF OnLogin, Take, app, view
<1>10. CASE OnRefresh \/ OnCall
  <2>1. at = "recv" /\ session' = session /\ has_session' = has_session
    BY <1>10 DEF OnRefresh, OnCall, Take, app, view
  <2>2. CASE ~session
    BY <1>3, <1>10, <2>1, <2>2, EventKinds DEF OnRefresh, OnCall
  <2>. QED
    BY <1>4, <2>1, <2>2
<1>11. CASE Refreshed \/ Called
  <2>1. at \in {"refresh", "call"} /\ session' = session /\ has_session' = has_session
    BY <1>11 DEF Refreshed, Called, app, view
  <2>2. PICK e \in Event : e.kind # "Connected" /\ Send(<<e>>)
    <3>1. CASE Refreshed
      BY <3>1, EventKinds DEF Refreshed
    <3>2. CASE Called
      BY <3>2, EventKinds DEF Called
    <3>. QED
      BY <1>11, <3>1, <3>2
  <2>. QED
    BY <1>3, <2>1, <2>2
<1>12. CASE ConnectDone
  <2>1. CASE at' = "list"
    BY <1>4, <2>1
  <2>. QED
    BY <1>3, <1>12, <2>1, EventKinds DEF ConnectDone, app, view
<1>13. CASE LoginBind \/ LoginAuthorize \/ LoginCallback
  <2>1. at \in {"bind", "authorize", "browser"} /\ session' = session /\ has_session' = has_session
    BY <1>13 DEF LoginBind, LoginAuthorize, LoginCallback, app, view
  <2>2. CASE LoginFailed
    BY <1>3, <2>1, <2>2, EventKinds DEF LoginFailed
  <2>3. CASE evts' = evts
    BY <1>2, <2>1, <2>3
  <2>4. CASE Send(<<Token, Conn("Connecting")>>)
    <3>. DEFINE es == <<Token, Conn("Connecting")>>
    <3>1. es \in Seq(Event) /\ Send(es) /\ \A j \in 1 .. Len(es) : es[j].kind # "Connected"
      BY <2>4, EventKinds
    <3>. HIDE DEF es
    <3>. QED
      BY <1>1, <2>1, <3>1, BeliefFrame
  <2>. QED
    BY <1>13, <2>2, <2>3, <2>4 DEF LoginBind, LoginAuthorize, LoginCallback
<1>14. CASE OnShutdown \/ ConnectListed
  BY <1>4, <1>14 DEF OnShutdown, ConnectListed
<1>. QED
  BY <1>5, <1>6, <1>7, <1>8, <1>9, <1>10, <1>11, <1>12, <1>13, <1>14 DEF Next, Worker

(* What is told of the waits and of the session holds throughout.          *)
LEMMA ChannelsAlways == Spec => []ChannelInv
<1>1. ChannelInv /\ [Next]_vars => ChannelInv'
  BY QueuesStep, WaitStep, BeliefStep DEF ChannelInv
<1>. QED
  BY <1>1, InitChannels, PTL DEF Spec

(* Whatever is pressed, answered or lost, the title shows no wait once     *)
(* every command is carried out and every event shown (handle_event,       *)
(* session_worker).                                                        *)
THEOREM SettledAlwaysNotPending == Spec => []SettledNotPending
<1>1. ChannelInv => SettledNotPending
  BY DEF ChannelInv, QueuesOK, WaitInv, SettledNotPending, Quiet, EndsAfter, Opening, CallQueued,
        ConnState
<1>. QED
  BY <1>1, ChannelsAlways, PTL

(* A client that believes in a session, with nothing left to wait for, has *)
(* one: every way session_worker loses it tells the loop.                  *)
THEOREM BelievedAlwaysExists == Spec => []BelievedSessionExists
<1>1. ChannelInv => BelievedSessionExists
  BY DEF ChannelInv, QueuesOK, BeliefInv, BelievedSessionExists, Quiet, ClearsAfter
<1>. QED
  BY <1>1, ChannelsAlways, PTL

-----------------------------------------------------------------------------
(* The list of tools that is shown.  Matching is defined by recursion; what *)
(* it computes follows by induction on the length of the list, stated for  *)
(* a set of numbers.                                                       *)

(* A set of numbers with 0 in it, and the successor of each of its numbers, *)
(* has every number in it.                                                 *)
LEMMA InductiveSet ==
  ASSUME NEW P, 0 \in P, \A n \in Nat : n \in P => n + 1 \in P
  PROVE  Nat \subseteq P
<1>. DEFINE T == {n \in Nat : n \notin P}
<1>. SUFFICES ASSUME T # {} PROVE FALSE
  OBVIOUS
<1>1. PICK m \in T : \A y \in T : ~(<<y, m>> \in OpToRel(<, Nat))
  <2>. HIDE DEF T
  <2>1. T \subseteq Nat
    BY DEF T
  <2>. QED
    BY <2>1, NatLessThanWellFounded, WFMin
<1>2. m - 1 \in Nat /\ m - 1 < m /\ (m - 1) + 1 = m
  <2>1. m \in Nat /\ m # 0
    OBVIOUS
  <2>. QED
    BY <2>1
<1>3. m - 1 \in T
  BY <1>2
<1>. QED
  BY <1>1, <1>2, <1>3 DEF OpToRel

\* g is a table of what matches among the first m tools of l, for m up to n.
MatchesUp(g, l, f, n) ==
    g = [m \in 0 .. n |->
           IF m = 0 THEN <<>>
           ELSE IF l[m] \in f THEN Append(g[m - 1], m - 1) ELSE g[m - 1]]

\* s lists, in order, the indices from 0 of those of the first n tools of l that f matches.
MatchesOf(s, l, f, n) ==
    /\ s \in Seq(Nat) /\ Len(s) \in Nat
    /\ \A i \in 1 .. Len(s) : s[i] < n /\ l[s[i] + 1] \in f
    /\ \A i, j \in 1 .. Len(s) : i < j => s[i] < s[j]
    /\ \A i \in Nat : i < n /\ l[i + 1] \in f => \E j \in 1 .. Len(s) : s[j] = i

(* The recursion of Matching has a table, whatever the list and filter.    *)
LEMMA MatchesExist ==
  ASSUME NEW l, NEW f
  PROVE  \A n \in Nat : \E g : MatchesUp(g, l, f, n)
<1>. DEFINE P == {n \in Nat : \E g : MatchesUp(g, l, f, n)}
<1>1. 0 \in P
  <2>. DEFINE g == [m \in 0 .. 0 |-> <<>>]
  <2>1. MatchesUp(g, l, f, 0)
    BY DEF MatchesUp
  <2>. QED
    BY <2>1
<1>2. ASSUME NEW n \in Nat, n \in P PROVE n + 1 \in P
  <2>1. PICK g : MatchesUp(g, l, f, n)
    BY <1>2
  <2>. DEFINE h == [m \in 0 .. n + 1 |->
                      IF m = 0 THEN <<>>
                      ELSE IF l[m] \in f THEN Append(g[m - 1], m - 1) ELSE g[m - 1]]
  <2>2. ASSUME NEW m \in 0 .. n PROVE h[m] = g[m]
    <3>1. g[m] = IF m = 0 THEN <<>>
                 ELSE IF l[m] \in f THEN Append(g[m - 1], m - 1) ELSE g[m - 1]
      BY <2>1 DEF MatchesUp
    <3>2. m \in 0 .. n + 1
      OBVIOUS
    <3>. QED
      BY <3>1, <3>2
  <2>3. ASSUME NEW m \in 0 .. n + 1, m # 0 PROVE h[m - 1] = g[m - 1]
    <3>1. m - 1 \in 0 .. n
      BY <2>3
    <3>. HIDE DEF h
    <3>. QED
      BY <2>2, <3>1
  <2>4. h = [m \in 0 .. n + 1 |->
               IF m = 0 THEN <<>>
               ELSE IF l[m] \in f THEN Append(h[m - 1], m - 1) ELSE h[m - 1]]
    BY <2>3
  <2>5. MatchesUp(h, l, f, n + 1)
    <3>. HIDE DEF h
    <3>. QED
      BY <2>4 DEF MatchesUp
  <2>. QED
    BY <2>5
<1>. HIDE DEF P
<1>3. Nat \subseteq P
  BY <1>1, <1>2, InductiveSet
<1>. QED
  BY <1>3 DEF P

(* Each entry of the table lists what matches so far.                      *)
LEMMA MatchesEach ==
  ASSUME NEW l, NEW f, NEW n \in Nat, NEW g, MatchesUp(g, l, f, n)
  PROVE  MatchesOf(g[n], l, f, n)
<1>. DEFINE P == {m \in Nat : m <= n => MatchesOf(g[m], l, f, m)}
<1>1. 0 \in P
  <2>1. g[0] = <<>>
    BY DEF MatchesUp
  <2>2. <<>> \in Seq(Nat) /\ Len(<<>>) = 0
    OBVIOUS
  <2>3. MatchesOf(<<>>, l, f, 0)
    BY <2>2 DEF MatchesOf
  <2>. QED
    BY <2>1, <2>3
<1>2. ASSUME NEW m \in Nat, m \in P PROVE m + 1 \in P
  <2>. SUFFICES ASSUME m + 1 <= n PROVE MatchesOf(g[m + 1], l, f, m + 1)
    OBVIOUS
  <2>1. MatchesOf(g[m], l, f, m)
    BY <1>2
  <2>2. g[m + 1] = IF l[m + 1] \in f THEN Append(g[m], m) ELSE g[m]
    <3>1. m + 1 \in 0 .. n /\ m + 1 # 0 /\ (m + 1) - 1 = m
      OBVIOUS
    <3>. QED
      BY <3>1 DEF MatchesUp
  <2>. DEFINE s == g[m]
              t == g[m + 1]
  <2>a. MatchesOf(s, l, f, m)
    BY <2>1
  <2>. HIDE DEF s, t
  <2>b. s \in Seq(Nat)
    BY <2>a DEF MatchesOf
  <2>c. Len(s) \in Nat
    BY <2>b
  <2>d. /\ \A i \in 1 .. Len(s) : s[i] \in Nat /\ s[i] < m /\ l[s[i] + 1] \in f
        /\ \A i, j \in 1 .. Len(s) : i < j => s[i] < s[j]
        /\ \A i \in Nat : i < m /\ l[i + 1] \in f => \E j \in 1 .. Len(s) : s[j] = i
    <3>1. \A i \in 1 .. Len(s) : s[i] \in Nat
      BY <2>b
    <3>. QED
      BY <2>a, <3>1, Zenon DEF MatchesOf
  <2>3. /\ s \in Seq(Nat) /\ Len(s) \in Nat
        /\ \A i \in 1 .. Len(s) : s[i] \in Nat /\ s[i] < m /\ l[s[i] + 1] \in f
        /\ \A i, j \in 1 .. Len(s) : i < j => s[i] < s[j]
        /\ \A i \in Nat : i < m /\ l[i + 1] \in f => \E j \in 1 .. Len(s) : s[j] = i
    BY <2>b, <2>c, <2>d, Zenon
  <2>4. CASE l[m + 1] \notin f
    <3>1. t = s
      BY <2>2, <2>4 DEF s, t
    <3>2. \A i \in 1 .. Len(s) : s[i] < m + 1 /\ l[s[i] + 1] \in f
      BY <2>3
    <3>3. ASSUME NEW i \in Nat, i < m + 1, l[i + 1] \in f
          PROVE  \E j \in 1 .. Len(s) : s[j] = i
      <4>1. i # m
        BY <2>4, <3>3
      <4>2. i < m
        BY <3>3, <4>1
      <4>. QED
        BY <2>3, <3>3, <4>2
    <3>. QED
      BY <2>3, <3>1, <3>2, <3>3 DEF MatchesOf, t
  <2>5. CASE l[m + 1] \in f
    <3>1. t = Append(s, m)
      BY <2>2, <2>5 DEF s, t
    <3>2. /\ t \in Seq(Nat) /\ Len(t) = Len(s) + 1 /\ Len(t) \in Nat /\ t[Len(s) + 1] = m
          /\ \A i \in 1 .. Len(s) : t[i] = s[i]
      BY <2>3, <3>1
    <3>3. ASSUME NEW i \in 1 .. Len(t) PROVE i \in 1 .. Len(s) \/ i = Len(s) + 1
      BY <2>3, <3>2
    <3>4. ASSUME NEW i \in 1 .. Len(t) PROVE t[i] < m + 1 /\ l[t[i] + 1] \in f
      <4>1. CASE i \in 1 .. Len(s)
        <5>1. t[i] = s[i] /\ s[i] \in Nat /\ s[i] < m /\ l[s[i] + 1] \in f
          BY <2>3, <3>2, <4>1
        <5>2. s[i] < m + 1
          BY <5>1
        <5>. QED
          BY <5>1, <5>2
      <4>2. CASE i = Len(s) + 1
        BY <2>5, <3>2, <4>2
      <4>. QED
        BY <3>3, <4>1, <4>2
    <3>5. ASSUME NEW i \in 1 .. Len(t), NEW j \in 1 .. Len(t), i < j PROVE t[i] < t[j]
      <4>1. i \in 1 .. Len(s)
        BY <2>3, <3>2, <3>5
      <4>. QED
        BY <2>3, <3>2, <3>3, <3>5, <4>1
    <3>6. ASSUME NEW i \in Nat, i < m + 1, l[i + 1] \in f
          PROVE  \E j \in 1 .. Len(t) : t[j] = i
      <4>1. CASE i = m
        <5>1. Len(s) + 1 \in 1 .. Len(t)
          BY <2>3, <3>2
        <5>. QED
          BY <3>2, <4>1, <5>1
      <4>2. CASE i # m
        <5>1. PICK j \in 1 .. Len(s) : s[j] = i
          <6>1. i < m
            BY <3>6, <4>2
          <6>. QED
            BY <2>3, <3>6, <6>1
        <5>2. j \in 1 .. Len(t)
          BY <2>3, <3>2
        <5>. QED
          BY <3>2, <5>1, <5>2
      <4>. QED
        BY <4>1, <4>2
    <3>. QED
      BY <3>2, <3>4, <3>5, <3>6 DEF MatchesOf, t
  <2>. QED
    BY <2>4, <2>5
<1>. HIDE DEF P
<1>3. Nat \subseteq P
  BY <1>1, <1>2, InductiveSet
<1>4. n \in P /\ n <= n
  BY <1>3
<1>. QED
  BY <1>4 DEF P

(* What recompute_filter shows: the tools that match, all of them, each    *)
(* once and in the order of the list.                                      *)
LEMMA MatchingShows ==
  ASSUME NEW l, Len(l) \in Nat, NEW f
  PROVE  MatchesOf(Matching(l, f), l, f, Len(l))
<1>. DEFINE g == CHOOSE h : MatchesUp(h, l, f, Len(l))
<1>1. Matching(l, f) = g[Len(l)]
  BY DEF Matching, MatchesUp
<1>2. MatchesUp(g, l, f, Len(l))
  BY MatchesExist
<1>. HIDE DEF g
<1>. QED
  BY <1>1, <1>2, MatchesEach

\* The commands that the loop sends; a call is of a tool, with text that is no malformed JSON.
Plain == {"Connect", "Login", "RefreshTools", "Disconnect", "Shutdown"}
Commands == {Cmd(k) : k \in Plain} \union {CallTool(t, x) : t \in Tools, x \in Texts}

\* What is shown, and the one selected.
ListInv ==
    /\ tools \in Lists \union {<<>>}
    /\ filter \in Filters \union {Tools}
    /\ selected \in Nat
    /\ SelectionShown

\* The rest of the state.
ControlInv ==
    /\ ui \in {"drain", "poll", "closing", "returned"}
    /\ conn \in ConnState
    /\ has_session \in BOOLEAN
    /\ focus \in Panes \union {"Filter"}
    /\ editing_args \in BOOLEAN
    /\ args \in Texts
    /\ should_quit \in BOOLEAN
    /\ keys \in 0 .. MaxKeys
    /\ at \in Steps
    /\ call \in Texts
    /\ session \in BOOLEAN
    /\ token \in BOOLEAN
    /\ listener \in {"free", "login", "left"}
    /\ callback \in {None, "code", "bad"}

ScreenInv == cmds \in Seq(Commands) /\ evts \in Seq(Event) /\ ListInv /\ ControlInv

(* The lists of tools are sequences of tools.                              *)
LEMMA ListTypes == \A l \in Lists \union {<<>>} : l \in Seq(Tools) /\ Len(l) \in Nat
<1>1. Lists \subseteq Seq(Tools)
  BY ClientAssumption DEF ClientAssumption
<1>2. <<>> \in Seq(Tools)
  OBVIOUS
<1>3. \A l \in Lists \union {<<>>} : l \in Seq(Tools)
  BY <1>1, <1>2
<1>. QED
  BY <1>3

(* The kinds of commands, and the text of a call.                          *)
LEMMA CommandKinds ==
  /\ \A k \in Plain : Cmd(k) \in Commands
  /\ \A t \in Tools, x \in Texts : CallTool(t, x) \in Commands
  /\ \A c \in Commands : c.kind \in Plain \union {"CallTool"}
  /\ \A c \in Commands : c.kind = "CallTool" => c.args \in Texts
<1>1. (\A k \in Plain : Cmd(k) \in Commands) /\ (\A t \in Tools, x \in Texts : CallTool(t, x) \in Commands)
  BY DEF Commands
<1>2. ASSUME NEW c \in Commands
      PROVE  /\ c.kind \in Plain \union {"CallTool"}
             /\ c.kind = "CallTool" => c.args \in Texts
  <2>1. CASE c \in {Cmd(k) : k \in Plain}
    BY <2>1 DEF Cmd, Plain
  <2>2. CASE c \in {CallTool(t, x) : t \in Tools, x \in Texts}
    BY <2>2 DEF CallTool
  <2>. QED
    BY <2>1, <2>2 DEF Commands
<1>. QED
  BY <1>1, <1>2

(* What is shown are indices of the list, and the tool selected is one.    *)
LEMMA Shown ==
  ASSUME ListInv
  PROVE  /\ filtered_indices \in Seq(0 .. Len(tools) - 1)
         /\ Len(filtered_indices) \in Nat
         /\ HasSelection => SelectedTool \in Tools
<1>1. tools \in Seq(Tools) /\ Len(tools) \in Nat
  BY ListTypes DEF ListInv
<1>2. MatchesOf(filtered_indices, tools, filter, Len(tools))
  BY <1>1, MatchingShows DEF ListInv, SelectionShown
<1>3. filtered_indices \in Seq(Nat) /\ Len(filtered_indices) \in Nat
  BY <1>2 DEF MatchesOf
<1>4. \A i \in 1 .. Len(filtered_indices) : filtered_indices[i] \in 0 .. Len(tools) - 1
  BY <1>1, <1>2, <1>3 DEF MatchesOf
<1>5. filtered_indices \in Seq(0 .. Len(tools) - 1)
  BY <1>3, <1>4
<1>6. ASSUME HasSelection PROVE SelectedTool \in Tools
  <2>1. selected + 1 \in 1 .. Len(filtered_indices)
    BY <1>3, <1>6 DEF HasSelection, ListInv
  <2>2. filtered_indices[selected + 1] + 1 \in 1 .. Len(tools)
    BY <1>1, <1>4, <2>1
  <2>. QED
    BY <1>1, <2>2 DEF SelectedTool
<1>. QED
  BY <1>3, <1>5, <1>6

(* Whatever list and filter come, the selection ends on a tool shown.      *)
LEMMA ShowKeeps ==
  ASSUME ListInv, NEW l \in Lists \union {<<>>}, NEW f \in Filters \union {Tools}, ShowTools(l, f)
  PROVE  ListInv'
<1>1. MatchesOf(Matching(l, f), l, f, Len(l))
  BY ListTypes, MatchingShows
<1>2. /\ tools' = l /\ filter' = f /\ filtered_indices' = Matching(l, f)
      /\ selected' = Clamp(selected, filtered_indices')
  BY DEF ShowTools
<1>3. filtered_indices' \in Seq(Nat) /\ Len(filtered_indices') \in Nat
  BY <1>1, <1>2 DEF MatchesOf
<1>4. filtered_indices' = <<>> <=> Len(filtered_indices') = 0
  BY <1>3
<1>5. selected \in Nat
  BY DEF ListInv
<1>6. /\ selected' \in Nat
      /\ IF filtered_indices' = <<>> THEN selected' = 0 ELSE selected' < Len(filtered_indices')
  BY <1>2, <1>3, <1>4, <1>5 DEF Clamp
<1>. QED
  BY <1>2, <1>6 DEF ListInv, SelectionShown, HasSelection

(* The initial state shows an empty list.                                  *)
LEMMA InitScreen == Init => ScreenInv
<1>. SUFFICES ASSUME Init PROVE ScreenInv
  OBVIOUS
<1>1. /\ <<Cmd("Connect")>> \in Seq(Commands) /\ <<>> \in Seq(Commands) /\ <<>> \in Seq(Event)
      /\ {} \in Texts
  BY CommandKinds DEF Plain, Texts
<1>2. cmds \in Seq(Commands) /\ evts \in Seq(Event)
  BY <1>1 DEF Init
<1>3. ControlInv
  <2>1. 0 \in 0 .. MaxKeys
    BY ClientAssumption DEF ClientAssumption
  <2>2. has_session \in BOOLEAN /\ editing_args \in BOOLEAN /\ should_quit \in BOOLEAN
    BY DEF Init
  <2>3. session \in BOOLEAN /\ token \in BOOLEAN
    BY DEF Init
  <2>. QED
    BY <1>1, <2>1, <2>2, <2>3 DEF Init, ControlInv, ConnState, Panes, Steps, None
<1>4. Matching(<<>>, Tools) = <<>>
  <2>1. Len(<<>>) = 0 /\ Len(<<>>) \in Nat
    OBVIOUS
  <2>2. MatchesOf(Matching(<<>>, Tools), <<>>, Tools, 0)
    BY <2>1, MatchingShows
  <2>. DEFINE s == Matching(<<>>, Tools)
  <2>3. /\ s \in Seq(Nat) /\ Len(s) \in Nat
        /\ \A i \in 1 .. Len(s) : s[i] < 0
    BY <2>2 DEF MatchesOf
  <2>. HIDE DEF s
  <2>4. Len(s) = 0
    <3>. SUFFICES ASSUME Len(s) # 0 PROVE FALSE
      OBVIOUS
    <3>1. 1 \in 1 .. Len(s)
      BY <2>3
    <3>2. s[1] \in Nat /\ s[1] < 0
      BY <2>3, <3>1
    <3>. QED
      BY <3>2
  <2>5. s = <<>>
    BY <2>3, <2>4
  <2>. QED
    BY <2>5 DEF s
<1>5. ListInv
  BY <1>4 DEF Init, ListInv, SelectionShown
<1>. QED
  BY <1>2, <1>3, <1>5 DEF ScreenInv

(* The list, the filter and the selection change together.                 *)
LEMMA ListStep == ScreenInv /\ [Next]_vars => ListInv'
<1>. SUFFICES ASSUME ScreenInv, [Next]_vars PROVE ListInv'
  OBVIOUS
<1>1. ListInv /\ evts \in Seq(Event)
  BY DEF ScreenInv
<1>2. CASE UNCHANGED list
  BY <1>1, <1>2 DEF list, ListInv, SelectionShown, HasSelection
<1>3. CASE HandleEvent
  <2>1. Head(evts) \in Event
    BY <1>1, <1>3 DEF HandleEvent
  <2>2. CASE Head(evts).kind = "Tools" /\ OnTools(Head(evts).tools)
    <3>1. Head(evts).tools \in Lists \union {<<>>} /\ filter \in Filters \union {Tools}
      BY <1>1, <2>1, <2>2, EventKinds DEF ListInv
    <3>2. ShowTools(Head(evts).tools, filter)
      BY <2>2 DEF OnTools
    <3>. QED
      BY <1>1, <3>1, <3>2, ShowKeeps
  <2>. QED
    BY <1>2, <1>3, <2>2 DEF HandleEvent
<1>4. CASE FilterKey
  <2>1. tools \in Lists \union {<<>>} /\ filter \in Filters \union {Tools}
    BY <1>1 DEF ListInv
  <2>2. CASE ShowTools(tools, filter)
    BY <1>1, <2>1, <2>2, ShowKeeps
  <2>3. CASE \E f \in Filters : ShowTools(tools, f)
    BY <1>1, <2>1, <2>3, ShowKeeps
  <2>. QED
    BY <1>2, <1>4, <2>2, <2>3 DEF FilterKey
<1>5. CASE MoveKey
  <2>1. /\ UNCHANGED <<tools, filter, filtered_indices>>
        /\ \/ selected > 0 /\ selected' = selected - 1
           \/ selected + 1 < Len(filtered_indices) /\ selected' = selected + 1
    BY <1>5 DEF MoveKey
  <2>2. selected \in Nat /\ Len(filtered_indices) \in Nat
    BY <1>1, Shown DEF ListInv
  <2>3. IF filtered_indices = <<>> THEN selected = 0 ELSE selected < Len(filtered_indices)
    BY <1>1 DEF ListInv, SelectionShown, HasSelection
  <2>4. selected' \in Nat
    BY <2>1, <2>2
  <2>5. CASE filtered_indices = <<>>
    <3>1. Len(filtered_indices) = 0
      BY <2>5
    <3>. QED
      BY <2>1, <2>2, <2>3, <2>5, <3>1
  <2>6. CASE filtered_indices # <<>>
    <3>1. selected' < Len(filtered_indices')
      BY <2>1, <2>2, <2>3, <2>6
    <3>. QED
      BY <1>1, <2>1, <2>4, <2>6, <3>1 DEF ListInv, SelectionShown, HasSelection
  <2>. QED
    BY <2>5, <2>6
<1>6. CASE ArgsKey \/ QuitKey \/ CommandKey \/ FocusKey \/ SelectKey \/ InvokeKey
  BY <1>2, <1>6 DEF ArgsKey, QuitKey, CommandKey, FocusKey, SelectKey, InvokeKey
<1>7. CASE Drained \/ PollTimeout \/ Return \/ Done \/ AcceptCallback \/ UNCHANGED vars
  BY <1>2, <1>7 DEF Drained, PollTimeout, Return, Done, AcceptCallback, vars, app
<1>8. CASE Worker
  BY <1>2, <1>8 DEF Worker, OnShutdown, OnDisconnect, OnConnect, OnLogin, OnRefresh, OnCall,
        Refreshed, Called, ConnectDone, ConnectListed, LoginBind, LoginAuthorize, LoginCallback, app
<1>. QED
  BY <1>3, <1>4, <1>5, <1>6, <1>7, <1>8 DEF Next, Key

(* The commands are of the kinds that session_worker knows.                *)
LEMMA CommandsStep == ScreenInv /\ [Next]_vars => cmds' \in Seq(Commands)
<1>. SUFFICES ASSUME ScreenInv, [Next]_vars PROVE cmds' \in Seq(Commands)
  OBVIOUS
<1>1. cmds \in Seq(Commands)
  BY DEF ScreenInv
<1>2. CASE cmds' = cmds
  BY <1>1, <1>2
<1>3. ASSUME NEW c \in Commands, cmds' = Append(cmds, c) PROVE cmds' \in Seq(Commands)
  BY <1>1, <1>3
<1>4. CASE InvokeKey
  <2>1. HasSelection /\ cmds' = Append(cmds, CallTool(SelectedTool, args))
    BY <1>4 DEF InvokeKey
  <2>2. SelectedTool \in Tools /\ args \in Texts
    BY <2>1, Shown DEF ScreenInv, ControlInv
  <2>3. CallTool(SelectedTool, args) \in Commands
    BY <2>2, CommandKinds
  <2>. QED
    BY <1>3, <2>1, <2>3
<1>5. CASE QuitKey \/ CommandKey \/ Drained
  <2>1. \A k \in Plain : cmds' = Append(cmds, Cmd(k)) => cmds' \in Seq(Commands)
    BY <1>3, CommandKinds
  <2>. QED
    BY <1>2, <1>5, <2>1 DEF QuitKey, CommandKey, Drained, Plain
<1>6. CASE FilterKey \/ ArgsKey \/ FocusKey \/ MoveKey \/ SelectKey \/ HandleEvent
  BY <1>2, <1>6 DEF FilterKey, ArgsKey, FocusKey, MoveKey, SelectKey, HandleEvent
<1>7. CASE PollTimeout \/ Return \/ Done \/ AcceptCallback \/ UNCHANGED vars
  BY <1>2, <1>7 DEF PollTimeout, Return, Done, AcceptCallback, vars
<1>8. CASE Worker
  <2>1. cmds' = cmds \/ (cmds # <<>> /\ cmds' = Tail(cmds))
    BY <1>8 DEF Worker, OnShutdown, OnDisconnect, OnConnect, OnLogin, OnRefresh, OnCall, Refreshed,
          Called, ConnectDone, ConnectListed, LoginBind, LoginAuthorize, LoginCallback, Take
  <2>. QED
    BY <1>1, <2>1
<1>. QED
  BY <1>4, <1>5, <1>6, <1>7, <1>8 DEF Next, Key

(* Every key, event and step of the worker keeps the types of the rest.    *)
LEMMA ControlStep == ScreenInv /\ [Next]_vars => ControlInv'
<1>. SUFFICES ASSUME ScreenInv, [Next]_vars PROVE ControlInv'
  OBVIOUS
<1>1. ListInv /\ ControlInv /\ evts \in Seq(Event) /\ cmds \in Seq(Commands)
  BY DEF ScreenInv
<1>2. MaxKeys \in Nat /\ {{}, Malformed, NotObject} \subseteq Texts
  BY ClientAssumption DEF ClientAssumption, Texts
<1>3. CASE HandleEvent
  <2>1. Head(evts) \in Event
    BY <1>1, <1>3 DEF HandleEvent
  <2>2. Head(evts).kind = "Conn" => Head(evts).conn \in ConnState
    BY <2>1, EventKinds DEF ConnState
  <2>3. conn \in ConnState /\ focus \in Panes \union {"Filter"} /\ has_session \in BOOLEAN
        /\ editing_args \in BOOLEAN
    BY <1>1 DEF ControlInv
  <2>4. conn' \in ConnState
    BY <1>3, <2>2, <2>3 DEF HandleEvent, OnError, OnDisconnected, view, ConnState
  <2>5. has_session' \in BOOLEAN
    <3>1. CASE OnError
      BY <3>1, Zenon DEF OnError
    <3>2. CASE ~OnError
      <4>1. \/ has_session' = has_session \/ has_session' = TRUE \/ has_session' = FALSE
            \/ has_session' = (Head(evts).conn \in {"Ready", "Calling"})
        BY <1>3, <3>2 DEF HandleEvent, OnDisconnected, view
      <4>2. has_session' = (Head(evts).conn \in {"Ready", "Calling"}) => has_session' \in BOOLEAN
        OBVIOUS
      <4>. QED
        BY <2>3, <4>1, <4>2
    <3>. QED
      BY <3>1, <3>2
  <2>6. focus' \in Panes \union {"Filter"} /\ editing_args' = editing_args
    BY <1>3, <2>3 DEF HandleEvent, view, Panes
  <2>7. UNCHANGED <<ui, args, should_quit, keys, at, call, session, token, listener, callback>>
    BY <1>3 DEF HandleEvent, worker, oauth
  <2>. QED
    BY <1>1, <2>3, <2>4, <2>5, <2>6, <2>7 DEF ControlInv
<1>4. CASE Key
  <2>1. Press
    BY <1>4 DEF Key, FilterKey, ArgsKey, QuitKey, CommandKey, FocusKey, MoveKey, SelectKey,
          InvokeKey, Command
  <2>2. keys' \in 0 .. MaxKeys /\ ui' = "drain" /\ UNCHANGED worker
    BY <1>1, <1>2, <2>1 DEF Press, ControlInv
  <2>3. args' \in Texts
    <3>1. CASE SelectKey
      <4>1. SelectedTool \in Tools /\ args' = EmptyArgs(SelectedTool)
        BY <1>1, <3>1, Shown DEF SelectKey
      <4>2. EmptyArgs(SelectedTool) \in SUBSET (Required[SelectedTool] \union Optional[SelectedTool])
        BY DEF EmptyArgs
      <4>. QED
        BY <4>1, <4>2 DEF Texts
    <3>2. CASE ~SelectKey
      BY <1>1, <1>2, <1>4, <3>2 DEF Key, FilterKey, ArgsKey, QuitKey, CommandKey, FocusKey, MoveKey,
            InvokeKey, ControlInv
    <3>. QED
      BY <3>1, <3>2
  <2>4. conn' \in ConnState /\ has_session' = has_session
    BY <1>1, <1>4 DEF Key, FilterKey, ArgsKey, QuitKey, CommandKey, FocusKey, MoveKey, SelectKey,
          InvokeKey, view, ControlInv, ConnState
  <2>5. focus' \in Panes \union {"Filter"}
    BY <1>1, <1>4 DEF Key, FilterKey, ArgsKey, QuitKey, CommandKey, FocusKey, MoveKey, SelectKey,
          InvokeKey, view, ControlInv, Panes
  <2>6. editing_args' \in BOOLEAN
    BY <1>1, <1>4 DEF Key, FilterKey, ArgsKey, QuitKey, CommandKey, FocusKey, MoveKey, SelectKey,
          InvokeKey, view, ControlInv
  <2>7. should_quit' \in BOOLEAN
    BY <1>1, <1>4 DEF Key, FilterKey, ArgsKey, QuitKey, CommandKey, FocusKey, MoveKey, SelectKey,
          InvokeKey, ControlInv
  <2>. QED
    BY <1>1, <2>2, <2>3, <2>4, <2>5, <2>6, <2>7 DEF ControlInv, worker, oauth
<1>5. CASE Drained \/ PollTimeout \/ Return
  <2>1. ui' \in {"drain", "poll", "closing", "returned"} /\ UNCHANGED <<app, worker>>
    BY <1>5 DEF Drained, PollTimeout, Return
  <2>. QED
    BY <1>1, <2>1 DEF ControlInv, app, view, worker, oauth
<1>6. CASE Done \/ UNCHANGED vars
  BY <1>1, <1>6 DEF Done, vars, ControlInv, app, view, worker, oauth
<1>7. CASE AcceptCallback
  <2>1. /\ listener' = "free" /\ callback' \in {"code", "bad", callback}
        /\ UNCHANGED <<ui, app, at, call, session, token>>
    BY <1>7 DEF AcceptCallback
  <2>. QED
    BY <1>1, <2>1 DEF ControlInv, app, view
<1>8. CASE Worker
  <2>1. UNCHANGED <<ui, app>>
    BY <1>8 DEF Worker, OnShutdown, OnDisconnect, OnConnect, OnLogin, OnRefresh, OnCall, Refreshed,
          Called, ConnectDone, ConnectListed, LoginBind, LoginAuthorize, LoginCallback
  <2>2. at' \in Steps /\ session' \in BOOLEAN
    <3>1. at \in Steps /\ session \in BOOLEAN
      BY <1>1 DEF ControlInv
    <3>. QED
      BY <1>8, <3>1 DEF Worker, OnShutdown, OnDisconnect, OnConnect, OnLogin, OnRefresh, OnCall,
            Refreshed, Called, ConnectDone, ConnectListed, LoginBind, LoginAuthorize, LoginCallback,
            LoginFailed, Steps
  <2>3. call' \in Texts
    <3>1. CASE OnCall
      <4>1. Head(cmds) \in Commands /\ Head(cmds).kind = "CallTool"
        BY <1>1, <3>1 DEF OnCall, Take
      <4>2. Head(cmds).args \in Texts
        BY <4>1, CommandKinds
      <4>. QED
        BY <1>1, <3>1, <4>2 DEF OnCall, ControlInv
    <3>2. CASE ~OnCall
      BY <1>1, <1>2, <1>8, <3>2 DEF Worker, OnShutdown, OnDisconnect, OnConnect, OnLogin, OnRefresh,
            Refreshed, Called, ConnectDone, ConnectListed, LoginBind, LoginAuthorize, LoginCallback,
            ControlInv
    <3>. QED
      BY <3>1, <3>2
  <2>4. /\ token' \in BOOLEAN /\ listener' \in {"free", "login", "left"}
        /\ callback' \in {None, "code", "bad"}
    <3>1. /\ token \in BOOLEAN /\ listener \in {"free", "login", "left"}
          /\ callback \in {None, "code", "bad"}
      BY <1>1 DEF ControlInv
    <3>2. CASE LoginBind \/ LoginAuthorize \/ LoginCallback
      BY <3>1, <3>2 DEF LoginBind, LoginAuthorize, LoginCallback
    <3>3. CASE ~(LoginBind \/ LoginAuthorize \/ LoginCallback)
      BY <1>8, <3>1, <3>3 DEF Worker, OnShutdown, OnDisconnect, OnConnect, OnLogin, OnRefresh,
            OnCall, Refreshed, Called, ConnectDone, ConnectListed, oauth
    <3>. QED
      BY <3>2, <3>3
  <2>. QED
    BY <1>1, <2>1, <2>2, <2>3, <2>4 DEF ControlInv, app, view
<1>. QED
  BY <1>3, <1>4, <1>5, <1>6, <1>7, <1>8 DEF Next

(* Whatever lists arrive while the user types a filter or moves, for any   *)
(* tools, filters and number of keys: the state has its types, what is     *)
(* shown is what matches, and the selection is on a tool that is shown.    *)
THEOREM ScreenAlwaysSound == Spec => []ScreenSound
<1>1. ScreenInv /\ [Next]_vars => ScreenInv'
  <2>1. ScreenInv => QueuesOK
    BY DEF ScreenInv, QueuesOK
  <2>2. ScreenInv /\ [Next]_vars => evts' \in Seq(Event)
    BY <2>1, QueuesStep DEF QueuesOK
  <2>. QED
    BY <2>2, ListStep, CommandsStep, ControlStep DEF ScreenInv
<1>2. ScreenInv => ScreenSound
  <2>. SUFFICES ASSUME ScreenInv PROVE ScreenSound
    OBVIOUS
  <2>1. filtered_indices \in Seq(0 .. Len(tools) - 1)
    BY Shown DEF ScreenInv
  <2>2. \A c \in ToSet(cmds) : c.kind \in Plain \union {"CallTool"}
    BY CommandKinds DEF ScreenInv, ToSet
  <2>3. \A e \in ToSet(evts) :
           e.kind \in {"Conn", "Connected", "Tools", "CallResult", "Token", "Disconnected", "Error"}
    BY EventKinds DEF ScreenInv, ToSet, Event
  <2>. QED
    BY <2>1, <2>2, <2>3 DEF ScreenInv, ListInv, ControlInv, ScreenSound, TypeOK, Plain
<1>. QED
  BY <1>1, <1>2, InitScreen, PTL DEF Spec
=============================================================================
