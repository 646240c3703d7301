------------------------------- MODULE Session -------------------------------
(***************************************************************************)
(* One run of the debugger server, from accepting a front-end to cleaning  *)
(* up after it: the single client connection (src/src/worker.cc), the      *)
(* request/response engine on the worker thread (src/backend/context.js    *)
(* and the methods of the agents that drive it), the signals the main      *)
(* thread acts on (src/src/controller.cc), and V8's debugger as those two  *)
(* use it.                                                                 *)
(*                                                                         *)
(* Three actors run concurrently: the clients, the worker thread (its      *)
(* event-loop callbacks are atomic, except ClientDataCb, which is one step *)
(* per line because the main thread can act between two lines) and the     *)
(* main thread (one step per signal).  They share signals_ and             *)
(* debugger_messages_, two FIFO queues (what LockedQueue.tla shows), V8's  *)
(* command queue, and two coalescing async handles.                        *)
(***************************************************************************)
EXTENDS Naturals, Sequences, SequencesExt

CONSTANTS
  Kinds,            \* the kinds of line a client sends, see AllKinds
  StatementBreaks,  \* TRUE: the debugged code has `debugger;` statements
  MaxConns,         \* bound: connections accepted
  MaxRequests,      \* bound: lines sent by all clients
  MaxChunk,         \* bound: lines in one chunk of received data
  MaxBreaks         \* bound: stops of the program

\* Debugger.enable, Debugger.disable, and one representative of each way an
\* agent method uses the engine:
\*   evaluate       a request to V8 that only looks (Runtime.evaluate)
\*   setBreakpoint  a request that arms V8 (Debugger.setBreakpointByUrl)
\*   resume         a request that lets the program run (Debugger.resume)
\*   step           a request that lets it run to its next statement
\*                  (Debugger.stepOver, stepInto, stepOut)
\*   pause          a request that stops the program (Debugger.pause)
\*   deferred       waits for the debugger, then evaluates
\*                  (Page.getResourceTree)
\*   throwing       waits for the debugger, then throws
\*                  (Debugger.setPauseOnExceptions without params)
\*   close          { "close": true }
AllKinds == {"enable", "disable", "evaluate", "setBreakpoint", "resume",
             "step", "pause", "deferred", "throwing", "close"}

ASSUME KindsAssumption == Kinds \subseteq AllKinds

ASSUME BoundsAssumption ==
  /\ StatementBreaks \in BOOLEAN
  /\ {MaxConns, MaxRequests, MaxChunk, MaxBreaks} \subseteq Nat

VARIABLES
  \* the worker thread: the connection
  conn,             \* "none", "open", or "closing": client_connected_ holds
                    \* in the last two, the handle is live in "open" only
  gen,              \* number of the current (last accepted) connection
  chunk,            \* lines the running ClientDataCb has still to handle
  \* the worker thread: the script context
  enabled,          \* context._enabled
  enableCbs,        \* context._enableCallbacks
  afterEnableCbs,   \* context._afterEnableCallbacks
  disableCbs,       \* context._disableCallbacks, <<>> when undefined
  reqCallbacks,     \* context._reqCallbacks; _reqId is its length
  \* between the threads
  signals,          \* Controller::signals_
  cmds,             \* V8's command queue: request ids, 0 for "disconnect"
  msgs,             \* Worker::debugger_messages_
  enableSig,        \* Worker::enable_response_signal_ is pending
  disableSig,       \* Worker::disable_response_signal_ is pending
  \* the main thread
  handler,          \* V8 has MessageHandler installed
  armed,            \* V8 has an enabled breakpoint
  stepping,         \* V8 stops at the next statement
  paused,           \* V8 waits for commands, the main thread is blocked
  breaks,           \* stops of the program so far (for the bound)
  \* observation
  requests,         \* every line handled: its connection, kind and answers
  held,             \* the program waits in a stop it made by itself after its
                    \* client was gone and disconnected, see StopsByItself
  crashed           \* uv_close was called on a closing handle

connVars == <<conn, gen>>
jsVars   == <<enabled, enableCbs, afterEnableCbs, disableCbs>>
sentVars == <<reqCallbacks, cmds, signals>>
mainVars == <<handler, armed, stepping, paused, held, breaks>>
vars == <<connVars, chunk, jsVars, sentVars, msgs, enableSig, disableSig,
          mainVars, requests, crashed>>

Disconnect == 0

Init ==
  /\ conn = "none"
  /\ gen = 0
  /\ chunk = <<>>
  /\ enabled = FALSE
  /\ enableCbs = <<>>
  /\ afterEnableCbs = <<>>
  /\ disableCbs = <<>>
  /\ reqCallbacks = <<>>
  /\ signals = <<>>
  /\ cmds = <<>>
  /\ msgs = <<>>
  /\ enableSig = FALSE
  /\ disableSig = FALSE
  /\ handler = FALSE
  /\ armed = FALSE
  /\ stepping = FALSE
  /\ paused = FALSE
  /\ breaks = 0
  /\ requests = <<>>
  /\ held = FALSE
  /\ crashed = FALSE

------------------------------------------------------------------------------
(* What the callbacks of the worker thread have in common.                 *)

\* Between two callbacks of the worker's event loop, and in the middle of
\* ClientDataCb.
AtLoop == chunk = <<>> /\ ~crashed
InChunk == chunk # <<>> /\ ~crashed

\* Where SendClientMessage's data goes: to the connection of the moment,
\* whoever asked; nowhere (0) when there is none or it is being closed.
Recipient == IF conn = "open" THEN gen ELSE 0

\* requests, after the requests in R have each been answered once.
Answered(R) ==
  [r \in DOMAIN requests |->
     IF r \in R
     THEN [requests[r] EXCEPT !.answers = Append(@, Recipient)]
     ELSE requests[r]]

\* Mutant: the sequence number is advanced once more before it is sent.
SendRequestsAhead(entries) ==
  /\ reqCallbacks' = reqCallbacks \o entries
  /\ cmds' = cmds \o [i \in DOMAIN entries |-> Len(reqCallbacks) + i + 1]
  /\ signals' = signals \o [i \in DOMAIN entries |-> "Process"]

\* Mutant: SendDebuggerCommand does not signal the main thread.
SendRequestsQuietly(entries) ==
  /\ reqCallbacks' = reqCallbacks \o entries
  /\ cmds' = cmds \o [i \in DOMAIN entries |-> Len(reqCallbacks) + i]
  /\ signals' = signals

\* sendDebuggerRequest, for each entry [step, req] in turn, the debugger
\* being enabled: register the callback, SendCommand, and signal the main
\* thread to process it.
SendRequests(entries) ==
  /\ reqCallbacks' = reqCallbacks \o entries
  /\ cmds' = cmds \o [i \in DOMAIN entries |-> Len(reqCallbacks) + i]
  /\ signals' = signals \o [i \in DOMAIN entries |-> "Process"]

SendRequest(step, req) == SendRequests(<<[step |-> step, req |-> req]>>)

\* Mutant: Disable forgets the "disconnect" command its NOTE is about.
DisableSilently ==
  /\ cmds' = cmds
  /\ signals' = signals \o <<"Process", "Disable">>
  /\ UNCHANGED reqCallbacks

\* Mutant: Disable only lets the program run on.
DisableUnsignalled ==
  /\ cmds' = Append(cmds, Disconnect)
  /\ signals' = Append(signals, "Process")
  /\ UNCHANGED reqCallbacks

\* Worker::Disable: "disconnect" to V8, then the Disable signal.
Disable ==
  /\ cmds' = Append(cmds, Disconnect)
  /\ signals' = signals \o <<"Process", "Disable">>
  /\ UNCHANGED reqCallbacks

\* context.notifyDebuggerPaused: ask for the call frames; the answer, or the
\* refusal when the debugger is not enabled, goes out as an event.
NotifyPaused ==
  IF enabled THEN SendRequest("backtrace", 0) ELSE UNCHANGED sentVars

------------------------------------------------------------------------------
(* The connection (worker.cc).                                             *)

\* ServerConnectionCb with no client: the connection is accepted.  While
\* there is one, others are accepted and rejected without touching any of
\* this state (RejectedClient).
Accept ==
  /\ AtLoop
  /\ conn = "none"
  /\ gen < MaxConns
  /\ conn' = "open"
  /\ gen' = gen + 1
  /\ UNCHANGED <<chunk, jsVars, sentVars, msgs, enableSig, disableSig,
                 mainVars, requests, crashed>>

\* ServerConnectionCb when accepting or reading fails on the initialised
\* handle: the half-open connection is closed like any other.
AcceptFails ==
  /\ AtLoop
  /\ conn = "none"
  /\ gen < MaxConns
  /\ conn' = "closing"
  /\ gen' = gen + 1
  /\ Disable
  /\ UNCHANGED <<chunk, jsVars, msgs, enableSig, disableSig, mainVars,
                 requests, crashed>>

\* ClientErrorCb: the client went away, CloseClientConnection.
Hangup ==
  /\ AtLoop
  /\ conn = "open"
  /\ conn' = "closing"
  /\ Disable
  /\ UNCHANGED <<gen, chunk, jsVars, msgs, enableSig, disableSig, mainVars,
                 requests, crashed>>

\* ClientClosedCb: libuv is done with the handle.
ClientClosedCb ==
  /\ AtLoop
  /\ conn = "closing"
  /\ conn' = "none"
  /\ UNCHANGED <<gen, chunk, jsVars, sentVars, msgs, enableSig, disableSig,
                 mainVars, requests, crashed>>

\* ClientDataCb gets a chunk with some complete lines.
Receive ==
  /\ AtLoop
  /\ conn = "open"
  /\ \E n \in 1..MaxChunk :
       /\ Len(requests) + n <= MaxRequests
       /\ chunk' \in [1..n -> Kinds]
  /\ UNCHANGED <<connVars, jsVars, sentVars, msgs, enableSig, disableSig,
                 mainVars, requests, crashed>>

------------------------------------------------------------------------------
(* One line: onFrontEndCommand and the agent method it leads to.  The line *)
(* becomes the last of requests; Recv(k, a) records it with answers a.     *)

Recv(k, a) ==
  requests' = Append(requests, [from |-> gen, kind |-> k, answers |-> a])

NewReq == Len(requests) + 1

Line(k) ==
  /\ InChunk
  /\ Head(chunk) = k
  /\ chunk' = Tail(chunk)
  /\ UNCHANGED <<gen, msgs, enableSig, disableSig, mainVars>>

\* Mutant: every Debugger.enable signals, whether or not one is under way.
EnableAlways ==
  /\ Line("enable")
  /\ Recv("enable", <<>>)
  /\ signals' = Append(signals, "Enable")
  /\ enableCbs' = Append(enableCbs, NewReq)
  /\ UNCHANGED <<conn, crashed, enabled, afterEnableCbs, disableCbs,
                 reqCallbacks, cmds>>

\* Debugger.enable: context.enableDebugger signals only when no enable is
\* under way; the request joins those that wait.
LineEnable ==
  /\ Line("enable")
  /\ Recv("enable", <<>>)
  /\ signals' = IF enableCbs = <<>> THEN Append(signals, "Enable") ELSE signals
  /\ enableCbs' = Append(enableCbs, NewReq)
  /\ UNCHANGED <<conn, crashed, enabled, afterEnableCbs, disableCbs,
                 reqCallbacks, cmds>>

\* Debugger.disable: context.disableDebugger.
LineDisable ==
  /\ Line("disable")
  /\ Recv("disable", <<>>)
  /\ IF disableCbs = <<>> THEN Disable ELSE UNCHANGED sentVars
  /\ disableCbs' = Append(disableCbs, NewReq)
  /\ UNCHANGED <<conn, crashed, enabled, enableCbs, afterEnableCbs>>

\* What each kind that goes to V8 sends.  "step" is a "continue" with a
\* stepaction.
StepFor(k) ==
  CASE k = "evaluate"      -> "evaluate"
    [] k = "setBreakpoint" -> "setbreakpoint"
    [] k = "resume"        -> "continue"
    [] k = "step"          -> "step"
    [] k = "pause"         -> "suspend"
    [] k = "deferred"      -> "evaluate"

DirectKinds == {"evaluate", "setBreakpoint", "resume", "step", "pause"}

\* A method that calls sendDebuggerRequest at once; refused with an error
\* when the debugger is not enabled.
LineDirect ==
  /\ \E k \in DirectKinds :
       /\ Line(k)
       /\ IF enabled
          THEN SendRequest(StepFor(k), NewReq) /\ Recv(k, <<>>)
          ELSE UNCHANGED sentVars /\ Recv(k, <<Recipient>>)
  /\ UNCHANGED <<conn, crashed, jsVars>>

\* Mutant: waitForDebuggerEnabled always queues.
LineDeferredAlways ==
  /\ \E k \in {"deferred", "throwing"} :
       /\ Line(k)
       /\ afterEnableCbs' = Append(afterEnableCbs, NewReq)
       /\ Recv(k, <<>>)
       /\ UNCHANGED <<sentVars, conn, crashed, enabled, enableCbs, disableCbs>>

\* A method that goes through waitForDebuggerEnabled: run now, or later.  A
\* throw in the method itself is caught and answered.
LineDeferred ==
  /\ \E k \in {"deferred", "throwing"} :
       /\ Line(k)
       /\ \/ /\ ~enabled
             /\ afterEnableCbs' = Append(afterEnableCbs, NewReq)
             /\ UNCHANGED sentVars
             /\ Recv(k, <<>>)
          \/ /\ enabled
             /\ k = "deferred"
             /\ SendRequest(StepFor(k), NewReq)
             /\ UNCHANGED afterEnableCbs
             /\ Recv(k, <<>>)
          \/ /\ enabled
             /\ k = "throwing"
             /\ UNCHANGED <<afterEnableCbs, sentVars>>
             /\ Recv(k, <<Recipient>>)
  /\ UNCHANGED <<conn, crashed, enabled, enableCbs, disableCbs>>

\* { "close": true }: CloseClientConnection from inside ClientDataCb.  The
\* handle still looks initialised while it is closing.
LineClose ==
  /\ Line("close")
  /\ Recv("close", <<>>)
  /\ conn' = "closing"
  /\ crashed' = (conn = "closing")
  /\ Disable
  /\ UNCHANGED jsVars

------------------------------------------------------------------------------
(* What comes back from the main thread.                                   *)

Throws(i) == requests[afterEnableCbs[i]].kind = "throwing"

\* onDebuggerEnabled gets to run n of the deferred callbacks: all of them, or
\* those before the first that throws.
Runs(n) ==
  /\ \A i \in 1..n : ~Throws(i)
  /\ n < Len(afterEnableCbs) => Throws(n + 1)

\* EnableResponseSignalCb, bindings.onDebuggerEnabled: the enable callbacks
\* ask for the scripts, then the deferred callbacks run.  A throw leaves
\* through forEach, before the list is cleared.
OnDebuggerEnabled ==
  /\ AtLoop
  /\ enableSig
  /\ enableSig' = FALSE
  /\ enabled' = TRUE
  /\ \/ /\ enableCbs = <<>>
        /\ UNCHANGED <<enableCbs, afterEnableCbs, sentVars>>
     \/ /\ enableCbs # <<>>
        /\ enableCbs' = <<>>
        /\ \E n \in 0..Len(afterEnableCbs) :
             /\ Runs(n)
             /\ SendRequests(
                  [i \in DOMAIN enableCbs |->
                     [step |-> "scripts", req |-> enableCbs[i]]]
                  \o [i \in 1..n |->
                     [step |-> "evaluate", req |-> afterEnableCbs[i]]])
             /\ afterEnableCbs' =
                  IF n = Len(afterEnableCbs) THEN <<>> ELSE afterEnableCbs
  /\ UNCHANGED <<connVars, chunk, disableCbs, msgs, disableSig, mainVars,
                 requests, crashed>>

\* Mutant: the list of disable callbacks is not deleted after it was called.
OnDebuggerDisabledKeepsList ==
  /\ AtLoop
  /\ disableSig
  /\ disableSig' = FALSE
  /\ requests' = Answered(ToSet(disableCbs))
  /\ UNCHANGED <<connVars, chunk, enabled, enableCbs, afterEnableCbs,
                 disableCbs, sentVars, msgs, enableSig, mainVars, crashed>>

\* DisableResponseSignalCb, bindings.onDebuggerDisabled: sets _disabled, a
\* variable nothing reads, and answers those who wait.  _enabled stays.
OnDebuggerDisabled ==
  /\ AtLoop
  /\ disableSig
  /\ disableSig' = FALSE
  /\ disableCbs' = <<>>
  /\ requests' = Answered(ToSet(disableCbs))
  /\ UNCHANGED <<connVars, chunk, enabled, enableCbs, afterEnableCbs,
                 sentVars, msgs, enableSig, mainVars, crashed>>

\* DebuggerMessageSignalCb, one message: bindings.onDebuggerMessage.
\* The "break" event and the answer to "suspend" make the front-end hear of
\* the pause; the answers to "disconnect" and "backtrace" are nobody's.
OnDebuggerMessage ==
  /\ AtLoop
  /\ msgs # <<>>
  /\ msgs' = Tail(msgs)
  /\ LET m  == Head(msgs)
         cb == reqCallbacks[m.id]
     IN \/ /\ m.event
           /\ NotifyPaused
           /\ UNCHANGED requests
        \/ /\ ~m.event /\ m.id = Disconnect
           /\ UNCHANGED <<sentVars, requests>>
        \/ /\ ~m.event /\ m.id # Disconnect
           /\ requests' = IF cb.step = "backtrace" THEN requests
                                                   ELSE Answered({cb.req})
           /\ IF cb.step = "suspend" THEN NotifyPaused ELSE UNCHANGED sentVars
  /\ UNCHANGED <<connVars, chunk, jsVars, enableSig, disableSig, mainVars,
                 crashed>>

------------------------------------------------------------------------------
(* V8, as controller.cc and worker.cc use it (external).                   *)

StepOf(id) ==
  IF id = Disconnect THEN "disconnect" ELSE reqCallbacks[id].step

\* What a FIFO of things that switch a flag on or off leaves it at.
LeavesOn(s, on, off, was) ==
  \/ \E i \in DOMAIN s : s[i] \in on /\ \A j \in DOMAIN s : j > i => s[j] \notin off
  \/ was /\ \A i \in DOMAIN s : s[i] \notin off

Steps == [i \in DOMAIN cmds |-> StepOf(cmds[i])]

\* MessageHandler, once for each command: the answers to be pushed onto
\* debugger_messages_.
Responses == [i \in DOMAIN cmds |-> [event |-> FALSE, id |-> cmds[i]]]

\* The commands that let a stopped program go.
GoOn == {"continue", "step", "disconnect"}

\* V8 runs every queued command, answers each through the message handler,
\* and returns to the program unless the last word was "suspend".  Without a
\* handler the commands stay where they are.  "disconnect" disables the
\* breakpoints and leaves a pending step.
RunCommands ==
  IF handler
  THEN /\ msgs' = msgs \o Responses
       /\ paused' = LeavesOn(Steps, {"suspend"}, GoOn, paused)
       /\ held' = (held /\ paused')
       /\ armed' = LeavesOn(Steps, {"setbreakpoint"}, {"disconnect"}, armed)
       /\ stepping' = LeavesOn(Steps, {"step"}, {"continue"}, stepping)
       /\ cmds' = <<>>
  ELSE UNCHANGED <<msgs, paused, held, armed, stepping, cmds>>

------------------------------------------------------------------------------
(* The main thread: SignalsAvailableCb, one signal per step.               *)

\* Mutant: signals are served while the program is paused as well.
NextSignalAnyway(s) ==
  /\ ~crashed
  /\ signals # <<>>
  /\ Head(signals) = s
  /\ UNCHANGED <<connVars, chunk, jsVars, reqCallbacks, breaks, requests, crashed>>

NextSignal(s) ==
  /\ ~crashed
  /\ ~paused
  /\ signals # <<>>
  /\ Head(signals) = s
  /\ UNCHANGED <<connVars, chunk, jsVars, reqCallbacks, breaks, requests, crashed>>

\* EnableRequestSignalCb.
EnableRequestSignalCb ==
  /\ NextSignal("Enable")
  /\ signals' = Tail(signals)
  /\ handler' = TRUE
  /\ enableSig' = TRUE
  /\ UNCHANGED <<cmds, msgs, disableSig, armed, stepping, paused, held>>

\* ProcessDebugMessagesCb.
ProcessDebugMessagesCb ==
  /\ NextSignal("Process")
  /\ signals' = Tail(signals)
  /\ RunCommands
  /\ UNCHANGED <<handler, enableSig, disableSig>>

\* DisableRequestSignalCb, first half: process what is queued.  This can
\* stop in the debugger, so what follows is a step of its own.
DisableRequestSignalCb ==
  /\ NextSignal("Disable")
  /\ signals' = <<"Detach">> \o Tail(signals)
  /\ RunCommands
  /\ UNCHANGED <<handler, enableSig, disableSig>>

\* Mutant: no response.
DetachUnanswered ==
  /\ NextSignal("Detach")
  /\ signals' = Tail(signals)
  /\ handler' = FALSE
  /\ armed' = FALSE
  /\ stepping' = FALSE
  /\ UNCHANGED <<cmds, msgs, enableSig, disableSig, paused, held>>

\* DisableRequestSignalCb, second half: SetMessageHandler(0), which makes V8
\* drop its breakpoints and a pending step, and the response.
Detach ==
  /\ NextSignal("Detach")
  /\ signals' = Tail(signals)
  /\ handler' = FALSE
  /\ armed' = FALSE
  /\ stepping' = FALSE
  /\ disableSig' = TRUE
  /\ UNCHANGED <<cmds, msgs, enableSig, paused, held>>

\* The main thread runs the debugged program.
InProgram == ~crashed /\ ~paused /\ ~IsPrefix(<<"Detach">>, signals)

\* The current connection sent `{ "close": true }` and more lines after it.
LateLines ==
  \E r, s \in DOMAIN requests :
    r < s /\ requests[r].kind = "close" /\ requests[r].from = gen
          /\ requests[s].from = gen

\* The last client is gone, and its close was the last thing it said.
Gone == conn # "open" /\ AtLoop /\ ~LateLines

\* Observed: the client is gone, its "disconnect" served and no breakpoint
\* left, and still the program stops: at a step or a statement.
StopsByItself == Gone /\ ~armed /\ Disconnect \notin ToSet(cmds)

\* The program reaches a breakpoint, the end of a step or a `debugger;`
\* statement, which V8 heeds as long as a handler is there.  A stop ends the
\* step.
Break ==
  /\ InProgram
  /\ handler
  /\ armed \/ stepping \/ StatementBreaks
  /\ breaks < MaxBreaks
  /\ breaks' = breaks + 1
  /\ paused' = TRUE
  /\ stepping' = FALSE
  /\ held' = StopsByItself
  /\ msgs' = Append(msgs, [event |-> TRUE, id |-> 0])
  /\ UNCHANGED <<connVars, chunk, jsVars, sentVars, enableSig, disableSig,
                 handler, armed, requests, crashed>>

\* V8 interrupts running JavaScript to look at its command queue.
Interrupt ==
  /\ InProgram
  /\ handler
  /\ cmds # <<>>
  /\ RunCommands
  /\ UNCHANGED <<connVars, chunk, jsVars, reqCallbacks, signals, enableSig,
                 disableSig, handler, breaks, requests, crashed>>

\* V8 waits in the debugger and gets commands.
ServePaused ==
  /\ ~crashed
  /\ paused
  /\ cmds # <<>>
  /\ RunCommands
  /\ UNCHANGED <<connVars, chunk, jsVars, reqCallbacks, signals, enableSig,
                 disableSig, handler, breaks, requests, crashed>>

------------------------------------------------------------------------------
ClientLine ==
  LineEnable \/ LineDisable \/ LineDirect \/ LineDeferred \/ LineClose

Signal ==
  EnableRequestSignalCb \/ ProcessDebugMessagesCb \/ DisableRequestSignalCb \/ Detach

Next ==
  \/ Accept \/ AcceptFails \/ Hangup \/ Receive \/ ClientLine \/ ClientClosedCb
  \/ OnDebuggerEnabled \/ OnDebuggerDisabled \/ OnDebuggerMessage
  \/ Signal \/ ServePaused
  \/ Break \/ Interrupt

Spec == Init /\ [][Next]_vars

\* The worker's loop serves every callback that is due, the main thread's
\* loop every signal, and V8 the commands that come while it waits.  Clients,
\* breakpoints and interrupts come when they like.
FairSpec ==
  /\ Spec
  /\ WF_vars(ClientLine)
  /\ WF_vars(ClientClosedCb)
  /\ WF_vars(OnDebuggerEnabled)
  /\ WF_vars(OnDebuggerDisabled)
  /\ WF_vars(OnDebuggerMessage)
  /\ WF_vars(Signal)
  /\ WF_vars(ServePaused)

------------------------------------------------------------------------------
(* Properties.                                                             *)

AllSteps == {"scripts", "evaluate", "setbreakpoint", "continue", "step",
             "suspend", "backtrace"}

TypeOK ==
  /\ conn \in {"none", "open", "closing"}
  /\ gen \in Nat
  /\ chunk \in Seq(Kinds)
  /\ {enableCbs, afterEnableCbs, disableCbs} \subseteq Seq(1..Len(requests))
  /\ reqCallbacks \in Seq([step : AllSteps, req : 0..Len(requests)])
  /\ signals \in Seq({"Enable", "Disable", "Detach", "Process"})
  /\ cmds \in Seq(0..Len(reqCallbacks))
  /\ msgs \in Seq([event : BOOLEAN, id : 0..Len(reqCallbacks)])
  /\ {enabled, enableSig, disableSig, handler, armed, stepping, paused, held,
      crashed} \subseteq BOOLEAN
  /\ breaks \in Nat
  /\ requests \in Seq([from : Nat, kind : Kinds, answers : Seq(Nat)])

Signalled(S) == \E i \in DOMAIN signals : signals[i] \in S

\* The signals under way end with the message handler installed.
EndsAttached ==
  LeavesOn(signals, {"Enable"}, {"Disable", "Detach"}, handler)

\* The first who waits for the enable is the current client, which is still
\* there and has not asked to disable since.  (One that joins the handshake
\* of a client before it is not the first.)
OwnEnable ==
  /\ conn = "open"
  /\ enableCbs # <<>>
  /\ requests[Head(enableCbs)].from = gen
  /\ \A r \in DOMAIN requests : r > Head(enableCbs) => requests[r].kind # "disable"

\* One enable handshake at a time, and one whenever somebody waits for it:
\* callbacks are waiting exactly if one Enable signal or its response is
\* under way.  context.enableDebugger, EnableRequestSignalCb and
\* onDebuggerEnabled keep it up together; a second signal would make the
\* second response find no callbacks, a lost one would block every later
\* Debugger.enable.  And it takes hold: whatever an earlier client left in
\* the queue, the debugger ends up enabled for the one that asked.
EnableHandshake ==
  /\ enableCbs # <<>> <=> enableSig \/ Signalled({"Enable"})
  /\ enableSig => ~Signalled({"Enable"})
  /\ \A i, j \in DOMAIN signals :
       signals[i] = "Enable" /\ signals[j] = "Enable" => i = j
  /\ OwnEnable => EndsAttached

\* Whoever waits in _disableCallbacks will be called: a Disable signal, the
\* rest of its handling or its response is under way.
DisableHandshake ==
  disableCbs # <<>> => disableSig \/ Signalled({"Disable", "Detach"})

\* waitForDebuggerEnabled keeps a function back only while the debugger is
\* not enabled: it can never be stranded by a handshake that found nobody
\* waiting (the early return of onDebuggerEnabled).
DeferredOnlyUntilEnabled == afterEnableCbs # <<>> => ~enabled

\* No line of a front-end is ever answered twice, by whichever way its
\* answer comes (at once, by V8, by a handshake, by a deferred callback).
AnsweredAtMostOnce ==
  \A r \in DOMAIN requests : Len(requests[r].answers) <= 1

\* Without a client, the main thread is on its way to detach the debugger:
\* whatever was enabled by a client that left, in whichever order the
\* signals of enable, disable and disconnect were pushed, the message
\* handler ends up removed.
DetachedOnceGone ==
  Gone => ~EndsAttached

\* Without a client, nothing the client left behind holds the program but a
\* step: the commands already queued for V8 let a paused program run and
\* disarm every breakpoint.  What they do not undo is a step that is pending
\* when the "disconnect" of Worker::Disable is served, nor can they undo a
\* debugger statement: a program that stops at one after that is held.
ReleasedOnceGone ==
  Gone =>
    /\ LeavesOn(Steps, {"suspend"}, GoOn, paused) => held
    /\ ~LeavesOn(Steps, {"setbreakpoint"}, {"disconnect"}, armed)

\* A client that is gone lets go: the program runs again and the debugger is
\* turned off, unless another client comes first.  The NOTE in
\* Worker::Disable is about this; a pending step or a debugger statement
\* breaks it.
GoneClientReleases ==
  (Gone /\ (paused \/ handler)) ~>
    (conn = "open" \/ (~paused /\ ~handler))

Abstract ==
  INSTANCE Attachment WITH client <- ~Gone, attached <- handler, stopped <- paused

\* The session implements Attachment: for all that is queued between the
\* threads, the program is stopped only under an attached debugger, is never
\* left stopped without one, and is let go once its client is gone, unless it
\* stops by itself after that (held).
ImplementsAttachment == Abstract!LiveSpec

\* Request r waits for V8, its client is there and the debugger attached.
Waiting(r) ==
  /\ r \in DOMAIN requests
  /\ requests[r].kind \in DirectKinds
  /\ requests[r].answers = <<>>
  /\ requests[r].from = gen
  /\ conn = "open"
  /\ handler

\* A request that went to V8 is answered, paused or not, as long as its
\* client stays and the debugger stays attached.
ServedWhileAttached ==
  \A r \in 1..MaxRequests : Waiting(r) ~> ~Waiting(r)

\* A disable is answered, unless the program stops at a breakpoint first.
DisableAnswered == disableCbs # <<>> ~> disableCbs = <<>> \/ paused \/ crashed

\* uv_close is never called on a handle that is closing.  Said of
\* `{ "close": true }` by context.js:243: it closes the client connection.
ClosedOnce == ~crashed

\* A request is refused while the debugger is not enabled (context.js:121):
\* once every handshake is over, _enabled says what V8 is in.
EnabledMeansAttached ==
  enabled /\ signals = <<>> /\ ~enableSig /\ ~disableSig => handler

=============================================================================
