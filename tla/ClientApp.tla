------------------------------- MODULE ClientApp -------------------------------
(***************************************************************************)
(* The terminal client of mcp-client: the loop of run_tui (tui/app.rs),    *)
(* its keys and its view of the connection, and the task session_worker    *)
(* that owns the session and performs an OAuth login (client/session.rs,   *)
(* client/auth.rs).  The two exchange commands and events over unbounded   *)
(* channels; neither knows what the other is doing.                        *)
(*                                                                         *)
(* Status lines and log entries are left out.  A filter is the set of the  *)
(* tools its text matches, the argument text the set of the fields it      *)
(* gives, or one of Malformed and NotObject.                               *)
(***************************************************************************)
EXTENDS Integers, Sequences, SequencesExt

CONSTANTS
    Tools,       \* names of tools
    Lists,       \* the tool lists the server may return
    Filters,     \* what a filter may match
    Required,    \* the required fields of each tool
    Optional,    \* its other fields
    Malformed,   \* argument text that is not JSON
    NotObject,   \* JSON that is neither an object nor null
    MayFail,     \* whether requests may fail
    MaxKeys      \* bound: keys pressed

ASSUME ClientAssumption ==
    /\ Lists \subseteq Seq(Tools)
    /\ Filters \subseteq SUBSET Tools
    /\ MayFail \in BOOLEAN
    /\ MaxKeys \in Nat

VARIABLES
    ui,        \* run_tui: "drain", "poll", "closing", "returned"
    conn, has_session,
    focus, editing_args,
    tools, filter, filtered_indices, selected,
    args,      \* args_text
    should_quit,
    keys,      \* keys pressed so far
    cmds,      \* cmd_tx to cmd_rx
    evts,      \* evt_tx to evt_rx
    at,        \* what session_worker awaits
    call,      \* the arguments of the call it makes
    session,   \* whether it holds a session
    token,     \* opts.token
    listener,  \* the redirect port: "free", "login", or "left" by a failed login
    callback   \* what the callback task has sent: "none", "code", "bad"

view == <<conn, has_session, focus, editing_args>>
list == <<tools, filter, filtered_indices, selected>>
app == <<view, list, args, should_quit, keys>>
oauth == <<token, listener, callback>>
worker == <<at, call, session, oauth>>
vars == <<ui, app, cmds, evts, worker>>

Panes == {"Tools", "Detail", "Args", "Result"}
ConnState == {"Disconnected", "Authenticating", "Connecting", "Ready", "Calling"}
Steps == {"recv", "bind", "authorize", "browser", "connect", "list", "refresh", "call", "done"}
Texts == {{}, Malformed, NotObject}
            \union UNION {SUBSET (Required[t] \union Optional[t]) : t \in Tools}

None == "none"

\* Commands and events.
Cmd(kind) == [kind |-> kind]
CallTool(tool, text) == [kind |-> "CallTool", tool |-> tool, args |-> text]
Conn(c) == [kind |-> "Conn", conn |-> c]
Connected == [kind |-> "Connected"]
ToolsEvent(l) == [kind |-> "Tools", tools |-> l]
CallResult == [kind |-> "CallResult"]
Token == [kind |-> "Token"]
Gone == [kind |-> "Disconnected"]
Error == [kind |-> "Error"]

TypeOK ==
    /\ ui \in {"drain", "poll", "closing", "returned"}
    /\ conn \in ConnState
    /\ has_session \in BOOLEAN
    /\ focus \in Panes \union {"Filter"}
    /\ editing_args \in BOOLEAN
    /\ tools \in Lists \union {<<>>}
    /\ filter \in Filters \union {Tools}
    /\ filtered_indices \in Seq(0 .. Len(tools) - 1)
    /\ selected \in Nat
    /\ args \in Texts
    /\ should_quit \in BOOLEAN
    /\ keys \in 0 .. MaxKeys
    /\ \A c \in ToSet(cmds) :
          c.kind \in {"Connect", "Login", "RefreshTools", "CallTool", "Disconnect", "Shutdown"}
    /\ \A e \in ToSet(evts) :
          e.kind \in {"Conn", "Connected", "Tools", "CallResult", "Token", "Disconnected", "Error"}
    /\ at \in Steps
    /\ call \in Texts
    /\ session \in BOOLEAN
    /\ token \in BOOLEAN
    /\ listener \in {"free", "login", "left"}
    /\ callback \in {None, "code", "bad"}

-----------------------------------------------------------------------------
(* The tool list and its filter.                                           *)

\* The indices, from 0, of the tools of l that f matches.
Matching(l, f) ==
    LET upto[n \in 0 .. Len(l)] ==
          IF n = 0 THEN <<>>
          ELSE IF l[n] \in f THEN Append(upto[n - 1], n - 1) ELSE upto[n - 1]
    IN  upto[Len(l)]

\* Mutant: the selection is left where it was.
Clamp_Keep(sel, shown) == sel

\* The selection moves up to the last tool that is still shown.
Clamp(sel, shown) ==
    IF Len(shown) = 0 THEN 0 ELSE IF sel >= Len(shown) THEN Len(shown) - 1 ELSE sel

\* recompute_filter
ShowTools(l, f) ==
    /\ tools' = l
    /\ filter' = f
    /\ filtered_indices' = Matching(l, f)
    /\ selected' = Clamp(selected, filtered_indices')

HasSelection == selected < Len(filtered_indices)
SelectedTool == tools[filtered_indices[selected + 1] + 1]

\* empty_args_from_schema: the required fields, or all of them when none is.
EmptyArgs(tool) == IF Required[tool] = {} THEN Optional[tool] ELSE Required[tool]

-----------------------------------------------------------------------------
(* The loop of run_tui.                                                    *)

Init ==
    /\ ui = "drain"
    /\ conn = "Disconnected" /\ has_session = FALSE
    /\ focus = "Tools" /\ editing_args = FALSE
    /\ tools = <<>> /\ filter = Tools /\ filtered_indices = <<>> /\ selected = 0
    /\ args = {}
    /\ should_quit = FALSE
    /\ keys = 0
    /\ token \in BOOLEAN
    /\ cmds = IF token THEN <<Cmd("Connect")>> ELSE <<>>
    /\ evts = <<>>
    /\ at = "recv" /\ call = {} /\ session = FALSE
    /\ listener = "free" /\ callback = None

\* Mutant: an error never ends a call.
OnError_Late ==
    /\ conn' = IF conn \in {"Connecting", "Authenticating"} THEN "Disconnected" ELSE conn
    /\ has_session' = (has_session /\ conn \notin {"Connecting", "Authenticating"})

\* WorkerEvent::Error, read by the state of the connection it meets.
OnError ==
    /\ conn' = CASE conn = "Calling" -> "Ready"
                 [] conn \in {"Connecting", "Authenticating"} -> "Disconnected"
                 [] OTHER -> conn
    /\ has_session' = (has_session /\ conn \notin {"Connecting", "Authenticating"})

\* Mutant: the tools are replaced and the filter is not computed again.
OnTools_Unfiltered(l) == tools' = l /\ UNCHANGED <<filter, filtered_indices, selected>>

OnTools(l) == ShowTools(l, filter)

\* Mutant: the event only clears the server.
OnDisconnected_ServerOnly == UNCHANGED <<conn, has_session>>

OnDisconnected == conn' = "Disconnected" /\ has_session' = FALSE

\* handle_event
HandleEvent ==
    /\ ui = "drain" /\ evts # <<>>
    /\ evts' = Tail(evts)
    /\ LET e == Head(evts) IN
       \/ /\ e.kind = "Conn"
          /\ conn' = e.conn
          /\ has_session' = (e.conn \in {"Ready", "Calling"})
          /\ UNCHANGED <<focus, editing_args, list>>
       \/ /\ e.kind = "Connected"
          /\ conn' = "Ready" /\ has_session' = TRUE
          /\ UNCHANGED <<focus, editing_args, list>>
       \/ /\ e.kind = "Tools"
          /\ OnTools(e.tools)
          /\ UNCHANGED view
       \/ /\ e.kind = "CallResult"
          /\ conn' = "Ready" /\ focus' = "Result"
          /\ UNCHANGED <<has_session, editing_args, list>>
       \/ /\ e.kind = "Token"
          /\ UNCHANGED <<view, list>>
       \/ /\ e.kind = "Disconnected"
          /\ OnDisconnected
          /\ UNCHANGED <<focus, editing_args, list>>
       \/ /\ e.kind = "Error"
          /\ OnError
          /\ UNCHANGED <<focus, editing_args, list>>
    /\ UNCHANGED <<ui, args, should_quit, keys, cmds, worker>>

\* Mutant: the loop does not look whether it should quit.
Drained_KeepsPolling ==
    /\ ui = "drain" /\ evts = <<>>
    /\ ui' = "poll"
    /\ UNCHANGED <<app, cmds, evts, worker>>

\* No event is left: the loop ends, with a last command, or looks for a key.
Drained ==
    /\ ui = "drain" /\ evts = <<>>
    /\ ui' = IF should_quit THEN "closing" ELSE "poll"
    /\ cmds' = IF should_quit THEN Append(cmds, Cmd("Shutdown")) ELSE cmds
    /\ UNCHANGED <<app, evts, worker>>

\* No key within 50 ms.
PollTimeout ==
    /\ ui = "poll"
    /\ ui' = "drain"
    /\ UNCHANGED <<app, cmds, evts, worker>>

\* worker.await, and the terminal is given back.
Return ==
    /\ ui = "closing" /\ at = "done"
    /\ ui' = "returned"
    /\ UNCHANGED <<app, cmds, evts, worker>>

-----------------------------------------------------------------------------
(* handle_key.                                                             *)

\* A key is read, and the loop goes back to the events.
Press ==
    /\ ui = "poll" /\ keys < MaxKeys
    /\ ui' = "drain" /\ keys' = keys + 1
    /\ UNCHANGED <<evts, worker>>

Typing == editing_args /\ focus = "Args"
Command == Press /\ focus # "Filter" /\ ~Typing

\* Esc and Enter leave the filter, any other key changes it.
FilterKey ==
    /\ Press /\ focus = "Filter"
    /\ \/ focus' = "Tools" /\ UNCHANGED list
       \/ focus' = "Tools" /\ ShowTools(tools, filter)
       \/ \E f \in Filters : ShowTools(tools, f) /\ UNCHANGED focus
    /\ UNCHANGED <<conn, has_session, editing_args, args, should_quit, cmds>>

\* Esc ends the editing, any other key changes the text.
ArgsKey ==
    /\ Press /\ Typing
    /\ \/ editing_args' = FALSE /\ UNCHANGED args
       \/ args' \in {{}, Malformed, NotObject} /\ UNCHANGED editing_args
    /\ UNCHANGED <<conn, has_session, focus, list, should_quit, cmds>>

\* q and Ctrl-C
QuitKey ==
    /\ Command
    /\ should_quit' = TRUE
    /\ cmds' = Append(cmds, Cmd("Disconnect"))
    /\ UNCHANGED <<view, list, args>>

\* c, l and r
CommandKey ==
    /\ Command
    /\ \E kind \in {"Connect", "Login", "RefreshTools"} : cmds' = Append(cmds, Cmd(kind))
    /\ UNCHANGED <<view, list, args, should_quit>>

\* Tab, the digits, "/" and "e"
FocusKey ==
    /\ Command
    /\ \/ focus' \in Panes \union {"Filter"} /\ UNCHANGED editing_args
       \/ focus' = "Args" /\ editing_args' = TRUE
    /\ UNCHANGED <<conn, has_session, list, args, should_quit, cmds>>

\* Up and Down in the list of tools
MoveKey ==
    /\ Command /\ focus = "Tools"
    /\ \/ selected > 0 /\ selected' = selected - 1
       \/ selected + 1 < Len(filtered_indices) /\ selected' = selected + 1
    /\ UNCHANGED <<view, tools, filter, filtered_indices, args, should_quit, cmds>>

\* select_tool_into_args
SelectKey ==
    /\ Command /\ focus = "Tools" /\ HasSelection
    /\ args' = EmptyArgs(SelectedTool)
    /\ focus' = "Args"
    /\ UNCHANGED <<conn, has_session, editing_args, list, should_quit, cmds>>

\* invoke_tool: i, and Enter on the arguments.
InvokeKey ==
    /\ Command /\ HasSelection /\ args # Malformed
    /\ editing_args' = FALSE
    /\ conn' = "Calling"
    /\ cmds' = Append(cmds, CallTool(SelectedTool, args))
    /\ UNCHANGED <<has_session, focus, list, args, should_quit>>

Key ==
    \/ FilterKey \/ ArgsKey \/ QuitKey \/ CommandKey \/ FocusKey \/ MoveKey \/ SelectKey
    \/ InvokeKey

-----------------------------------------------------------------------------
(* session_worker.                                                         *)

Send(es) == evts' = evts \o es

Take(kind) == at = "recv" /\ cmds # <<>> /\ Head(cmds).kind = kind /\ cmds' = Tail(cmds)

Fails == MayFail

\* Shutdown: the session is closed and the task ends.
OnShutdown ==
    /\ Take("Shutdown")
    /\ session' = FALSE
    /\ at' = "done"
    /\ UNCHANGED <<ui, app, evts, call, oauth>>

OnDisconnect ==
    /\ Take("Disconnect")
    /\ session' = FALSE
    /\ Send(<<Gone>>)
    /\ UNCHANGED <<ui, app, at, call, oauth>>

\* The old session is closed before the new one is asked for.
OnConnect ==
    /\ Take("Connect")
    /\ session' = FALSE
    /\ Send(<<Conn("Connecting")>>)
    /\ at' = "connect"
    /\ UNCHANGED <<ui, app, call, oauth>>

OnLogin ==
    /\ Take("Login")
    /\ Send(<<Conn("Authenticating")>>)
    /\ at' = "bind"
    /\ UNCHANGED <<ui, app, call, session, oauth>>

\* Without a session both are answered at once.
OnRefresh ==
    /\ Take("RefreshTools")
    /\ at' = IF session THEN "refresh" ELSE "recv"
    /\ Send(IF session THEN <<>> ELSE <<Error>>)
    /\ UNCHANGED <<ui, app, call, session, oauth>>

OnCall ==
    /\ Take("CallTool")
    /\ at' = IF session THEN "call" ELSE "recv"
    /\ call' = IF session THEN Head(cmds).args ELSE call
    /\ Send(IF session THEN <<>> ELSE <<Error>>)
    /\ UNCHANGED <<ui, app, session, oauth>>

Refreshed ==
    /\ at = "refresh"
    /\ \/ \E l \in Lists : Send(<<ToolsEvent(l)>>)
       \/ Fails /\ Send(<<Error>>)
    /\ at' = "recv"
    /\ UNCHANGED <<ui, app, cmds, call, session, oauth>>

\* call_tool: arguments that are not an object are refused before the request.
Called ==
    /\ at = "call"
    /\ \/ call # NotObject /\ Send(<<CallResult>>)
       \/ (Fails \/ call = NotObject) /\ Send(<<Error>>)
    /\ at' = "recv" /\ call' = {}
    /\ UNCHANGED <<ui, app, cmds, session, oauth>>

\* McpSession::connect; without a token it fails before any request.
ConnectDone ==
    /\ at = "connect"
    /\ \/ token /\ at' = "list" /\ Send(<<Connected>>)
       \/ (Fails \/ ~token) /\ at' = "recv" /\ Send(<<Error>>)
    /\ UNCHANGED <<ui, app, cmds, call, session, oauth>>

\* A list that fails is only logged: there is a session all the same.
ConnectListed ==
    /\ at = "list"
    /\ \/ \E l \in Lists : Send(<<ToolsEvent(l)>>)
       \/ Fails /\ Send(<<>>)
    /\ session' = TRUE
    /\ at' = "recv"
    /\ UNCHANGED <<ui, app, cmds, call, oauth>>

-----------------------------------------------------------------------------
(* login_oauth, and the task it spawns for the callback.                   *)

LoginFailed == at' = "recv" /\ Send(<<Error>>)

\* TcpListener::bind fails while an earlier listener holds the port.
LoginBind ==
    /\ at = "bind"
    /\ IF listener = "free"
       THEN at' = "authorize" /\ listener' = "login" /\ UNCHANGED evts
       ELSE LoginFailed /\ UNCHANGED listener
    /\ UNCHANGED <<ui, app, cmds, call, session, token, callback>>

\* Discovery, registration and the URL to open.  A failure leaves the callback
\* task waiting on the port, and drops the end it would send to.
LoginAuthorize ==
    /\ at = "authorize"
    /\ \/ at' = "browser" /\ UNCHANGED <<evts, listener, callback>>
       \/ /\ Fails /\ LoginFailed
          /\ listener' = IF listener = "login" THEN "left" ELSE listener
          /\ callback' = None
    /\ UNCHANGED <<ui, app, cmds, call, session, token>>

\* accept_callback: the one connection it accepts, with a code or without.
AcceptCallback ==
    /\ listener # "free"
    /\ listener' = "free"
    /\ callback' \in IF listener = "login" THEN {"code", "bad"} ELSE {callback}
    /\ UNCHANGED <<ui, app, cmds, evts, at, call, session, token>>

\* The code is exchanged for a token, and a session opened with it.
LoginCallback ==
    /\ at = "browser" /\ callback # None
    /\ callback' = None
    /\ \/ /\ callback = "code"
          /\ token' = TRUE
          /\ at' = "connect"
          /\ Send(<<Token, Conn("Connecting")>>)
       \/ /\ Fails \/ callback = "bad"
          /\ LoginFailed
          /\ UNCHANGED token
    /\ UNCHANGED <<ui, app, cmds, call, session, listener>>

Worker ==
    \/ OnShutdown \/ OnDisconnect \/ OnConnect \/ OnLogin \/ OnRefresh \/ OnCall
    \/ Refreshed \/ Called \/ ConnectDone \/ ConnectListed
    \/ LoginBind \/ LoginAuthorize \/ LoginCallback

\* The program is over; only a connection to a port left behind can still come.
Done == ui = "returned" /\ UNCHANGED vars

Next ==
    \/ HandleEvent \/ Drained \/ PollTimeout \/ Return \/ Key
    \/ Worker \/ AcceptCallback
    \/ Done

Spec == Init /\ [][Next]_vars

\* The loop's own steps, and requests that are answered or fail in the end.
Running == WF_vars(HandleEvent) /\ WF_vars(Drained) /\ WF_vars(PollTimeout) /\ WF_vars(Return)
           /\ WF_vars(Worker)

FairSpec == Spec /\ Running

\* In addition, somebody completes every login in the browser.
AnsweredSpec == FairSpec /\ WF_vars(AcceptCallback)

-----------------------------------------------------------------------------
(* Properties.                                                             *)

\* Every command has been carried out and every event shown.
Quiet == cmds = <<>> /\ evts = <<>> /\ at = "recv"

(* Whatever lists arrive while the user types a filter or moves through   *)
(* the list, what is shown is what matches, and the selection is on a tool *)
(* that is shown (recompute_filter).                                       *)
SelectionShown ==
    /\ filtered_indices = Matching(tools, filter)
    /\ IF filtered_indices = <<>> THEN selected = 0 ELSE HasSelection

\* The state has its types, and what is shown and selected is of the list there is.
ScreenSound == TypeOK /\ SelectionShown

(* No order of keys, answers and errors leaves the title on                *)
(* "Connecting", "Authenticating" or "Calling" when there is nothing to    *)
(* wait for.                                                               *)
SettledNotPending == Quiet => conn \in {"Disconnected", "Ready"}

(* When there is nothing to wait for, a client that believes it has a      *)
(* session has one: a failed reconnect or a disconnect is not forgotten.   *)
BelievedSessionExists == Quiet /\ has_session => session

(* Once the user quits, the program returns.                               *)
QuitReturns == should_quit ~> ui = "returned"

(* A wait that the title shows comes to an end.                            *)
WaitEnds == (conn \in {"Connecting", "Authenticating", "Calling"}) ~>
            (conn \in {"Disconnected", "Ready"} \/ ui = "returned")
=============================================================================
