---------------------------- MODULE DebuggerAgent ----------------------------
(***************************************************************************)
(* The methods of the Debugger agent (src/backend/debugger-agent.js) that  *)
(* send requests to V8, several of them more than one: what a front-end is *)
(* told of the program's state, breakpoints that are switched one after    *)
(* another, and the temporary breakpoint of continueToLocation.            *)
(*                                                                         *)
(* The debugger is enabled and the connection open throughout (Session is  *)
(* about the rest).  Three actors: the front-end, the agent on the worker  *)
(* thread, and V8 on the main thread.  A callback that context.js keeps    *)
(* under a request id travels here with the request and its response;      *)
(* that the ids find it again is Session's subject.                        *)
(***************************************************************************)
EXTENDS Naturals, Sequences, FiniteSets, SequencesExt

CONSTANTS
  Kinds,        \* the methods the front-end calls
  MaxRequests,  \* bound: requests of the front-end
  MaxStops      \* bound: breakpoints and exceptions that stop the program

ASSUME KindsAssumption ==
  Kinds \subseteq {"pause", "resume", "continueToLocation", "setBreakpoint",
                   "removeBreakpoint", "setBreakpointsActive",
                   "setPauseOnExceptions", "getScriptSource", "inspect"}

ASSUME BoundsAssumption == {MaxRequests, MaxStops} \subseteq Nat

VARIABLES
  \* the front-end
  view,            \* what it was last told: "running" or "paused"
  awaiting,        \* its run-control request that is under way, or 0
  \* the agent
  slot,            \* _continueToLocationBreakpointId, 0 when null
  \* between them
  out,             \* answers and events that the front-end has not read yet
  cmds,            \* requests to V8
  msgs,            \* events and responses of V8
  \* V8
  v8,              \* "program", "serving" (commands, then back to the
                   \* program) or "waiting" (for commands, in the debugger)
  stepping,        \* V8 stops at the next statement
  bps,             \* breakpoints by number: who set it, is it enabled
  lastBp,          \* number of the last breakpoint ever set
  exceptionBreak,  \* V8 stops at exceptions, by their type
  stops,           \* stops so far (for the bound)
  \* observation
  requests         \* every request of the front-end, with its answer

clientVars == <<view, awaiting>>
v8Vars == <<v8, stepping, bps, lastBp, exceptionBreak, stops>>
vars == <<clientVars, slot, out, cmds, msgs, v8Vars, requests>>

\* The types of the V8 request 'setexceptionbreak', in the order in which
\* setPauseOnExceptions goes through them.
All == 1
Uncaught == 2

\* An earlier front-end may have left the number of a breakpoint that V8
\* dropped when the debugger was disabled.
Init ==
  /\ view = "running"
  /\ awaiting = 0
  /\ slot \in {0, 1}
  /\ lastBp = 1
  /\ out = <<>>
  /\ cmds = <<>>
  /\ msgs = <<>>
  /\ v8 = "program"
  /\ stepping = FALSE
  /\ bps = <<>>
  /\ exceptionBreak = [t \in {All, Uncaught} |-> FALSE]
  /\ stops = 0
  /\ requests = <<>>

------------------------------------------------------------------------------
(* What the methods use.                                                   *)

\* A callback: the function, the request it answers, and the array it shifts.
Callback(step, r, rest) == [step |-> step, req |-> r, rest |-> rest]

\* context.sendDebuggerRequest.
Send(do, id, flag, cb) ==
  cmds' = Append(cmds, [do |-> do, id |-> id, flag |-> flag, cb |-> cb])

FetchCallFrames == Send("backtrace", 0, FALSE, Callback("paused", 0, <<>>))

Answer(r, result) ==
  /\ requests' = [requests EXCEPT ![r].answer = result]
  /\ out' = Append(out, <<"answer", r>>)

NewReq == Len(requests) + 1

\* A request of the front-end reaches its method.
Receive(kind, arg) ==
  /\ kind \in Kinds
  /\ Len(requests) < MaxRequests
  /\ requests' = Append(requests, [kind |-> kind, arg |-> arg, answer |-> "none"])
  /\ UNCHANGED <<view, slot, out, msgs, v8Vars>>

------------------------------------------------------------------------------
(* The methods.  A front-end pauses the program when it runs and resumes   *)
(* it when it is paused, as far as it was told, and then waits for the     *)
(* answer and the event after it.  Everything else it sends at any time.   *)

\* The front-end has read the answer to request r.
HasRead(r) == requests[r].answer # "none" /\ <<"answer", r>> \notin ToSet(out)

Believes(state) == view = state /\ awaiting = 0

Pause ==
  /\ Believes("running")
  /\ awaiting' = NewReq
  /\ Receive("pause", "")
  /\ Send("suspend", 0, FALSE, Callback("suspended", NewReq, <<>>))

\* resume and the three steps: _sendContinue with and without a stepaction.
Resume ==
  /\ Believes("paused")
  /\ awaiting' = NewReq
  /\ Receive("resume", "")
  /\ \E step \in BOOLEAN :
       Send("continue", 0, step, Callback("continued", NewReq, <<>>))

ContinueToLocation ==
  /\ Believes("paused")
  /\ awaiting' = NewReq
  /\ Receive("continueToLocation", "")
  /\ Send("setbreakpoint", 0, TRUE, Callback("located", NewReq, <<>>))

SetBreakpointByUrl ==
  /\ Receive("setBreakpoint", "")
  /\ Send("setbreakpoint", 0, TRUE, Callback("done", NewReq, <<>>))
  /\ UNCHANGED awaiting

\* A front-end removes what it has been told of.
RemoveBreakpoint ==
  /\ \E b \in DOMAIN bps :
       /\ requests[bps[b].by].kind = "setBreakpoint"
       /\ HasRead(bps[b].by)
       /\ Send("clearbreakpoint", b, FALSE, Callback("done", NewReq, <<>>))
  /\ Receive("removeBreakpoint", "")
  /\ UNCHANGED awaiting

SetBreakpointsActive ==
  /\ \E active \in {"on", "off"} : Receive("setBreakpointsActive", active)
  /\ Send("listbreakpoints", 0, FALSE, Callback("listed", NewReq, <<>>))
  /\ UNCHANGED awaiting

\* Whether the state of setPauseOnExceptions enables exceptions of type t.
Enables(state, t) ==
  (t = All /\ state = "all") \/ (t = Uncaught /\ state = "uncaught")

\* Its inner next(): one request for each type that is left.
NextException(r, state, types) ==
  Send("setexceptionbreak", Head(types), Enables(state, Head(types)),
       Callback("excepted", r, Tail(types)))

SetPauseOnExceptions ==
  /\ \E state \in {"all", "uncaught", "none"} :
       /\ Receive("setPauseOnExceptions", state)
       /\ NextException(NewReq, state, <<All, Uncaught>>)
  /\ UNCHANGED awaiting

GetScriptSource ==
  /\ Receive("getScriptSource", "")
  /\ Send("scripts", 0, FALSE, Callback("done", NewReq, <<>>))
  /\ UNCHANGED awaiting

\* evaluateOnCallFrame, getFunctionDetails and setVariableValue: a front-end
\* asks about the frames it was shown.
Inspect ==
  /\ Believes("paused")
  /\ Receive("inspect", "")
  /\ \E step \in {"evaluated", "done"} :
       Send("inspect", 0, FALSE, Callback(step, NewReq, <<>>))
  /\ UNCHANGED awaiting

------------------------------------------------------------------------------
(* The callbacks, one for each kind of message from V8.                    *)

\* Mutant: the responses are taken for those of a request without next().
NextChangeOnce(r, ids) ==
  IF Len(ids) <= 1
  THEN Answer(r, "ok") /\ UNCHANGED cmds
  ELSE /\ Send("changebreakpoint", Head(ids), requests[r].arg = "on",
               Callback("changed", r, Tail(ids)))
       /\ UNCHANGED <<requests, out>>

\* The inner next() of setBreakpointsActive: one request for each breakpoint
\* that is left.
NextChange(r, ids) ==
  IF ids = <<>>
  THEN Answer(r, "ok") /\ UNCHANGED cmds
  ELSE /\ Send("changebreakpoint", Head(ids), requests[r].arg = "on",
               Callback("changed", r, Tail(ids)))
       /\ UNCHANGED <<requests, out>>

\* Mutant: the front-end is not told, it has its answer.
OnSuspendedQuietly(m) ==
  /\ m.cb.step = "suspended"
  /\ Answer(m.cb.req, "ok")
  /\ UNCHANGED <<cmds, slot>>

\* pause: the answer first, then notifyDebuggerPaused.
OnSuspended(m) ==
  /\ m.cb.step = "suspended"
  /\ Answer(m.cb.req, "ok")
  /\ FetchCallFrames
  /\ UNCHANGED slot

\* _sendContinue: the answer first, then Debugger.resumed.
OnContinued(m) ==
  /\ m.cb.step = "continued"
  /\ requests' = [requests EXCEPT ![m.cb.req].answer = "ok"]
  /\ out' = out \o << <<"answer", m.cb.req>>, <<"resumed", 0>> >>
  /\ UNCHANGED <<cmds, slot>>

\* Mutant: the number kept is that of the next breakpoint.
OnLocatedNext(m) ==
  /\ m.cb.step = "located"
  /\ m.ok
  /\ slot' = Head(m.body) + 1
  /\ Send("continue", 0, FALSE, Callback("continued", m.cb.req, <<>>))
  /\ UNCHANGED <<requests, out>>

\* continueToLocation has its breakpoint: keep its number, and go on.
OnLocated(m) ==
  /\ m.cb.step = "located"
  /\ m.ok
  /\ slot' = Head(m.body)
  /\ Send("continue", 0, FALSE, Callback("continued", m.cb.req, <<>>))
  /\ UNCHANGED <<requests, out>>

\* The methods with one request to V8: its answer, or its error.
OnDone(m) ==
  /\ m.cb.step = "done"
  /\ Answer(m.cb.req, IF m.ok THEN "ok" ELSE "error")
  /\ UNCHANGED <<cmds, slot>>

\* evaluateOnCallFrame: an error of V8 is a result, too.
OnEvaluated(m) ==
  /\ m.cb.step = "evaluated"
  /\ Answer(m.cb.req, "ok")
  /\ UNCHANGED <<cmds, slot>>

\* setBreakpointsActive has the list of breakpoints.
OnListed(m) ==
  /\ m.cb.step = "listed"
  /\ NextChange(m.cb.req, m.body)
  /\ UNCHANGED slot

\* setBreakpointsActive has switched one of them.
OnChanged(m) ==
  /\ m.cb.step = "changed"
  /\ m.ok
  /\ NextChange(m.cb.req, m.cb.rest)
  /\ UNCHANGED slot

\* setPauseOnExceptions has set one type.
OnExcepted(m) ==
  /\ m.cb.step = "excepted"
  /\ IF m.cb.rest = <<>>
     THEN Answer(m.cb.req, "ok") /\ UNCHANGED cmds
     ELSE /\ NextException(m.cb.req, requests[m.cb.req].arg, m.cb.rest)
          /\ UNCHANGED <<requests, out>>
  /\ UNCHANGED slot

\* Mutant: `if (err) return;`.
OnRefusedSilently(m) ==
  /\ m.cb.step \in {"located", "changed"}
  /\ ~m.ok
  /\ UNCHANGED <<cmds, slot, requests, out>>

\* `if (err) return cb(err)` of the methods that stop at the first error.
OnRefused(m) ==
  /\ m.cb.step \in {"located", "changed"}
  /\ ~m.ok
  /\ Answer(m.cb.req, "error")
  /\ UNCHANGED <<cmds, slot>>

\* Mutant: the temporary breakpoint is left where it is.
OnStoppedKeeps(m) ==
  /\ m.cb.step = "stopped"
  /\ FetchCallFrames
  /\ UNCHANGED <<slot, requests, out>>

\* eventHandlers.break and eventHandlers.exception: clear the temporary
\* breakpoint, if there is one, before telling the front-end.
OnStopped(m) ==
  /\ m.cb.step = "stopped"
  /\ IF slot = 0
     THEN FetchCallFrames
     ELSE Send("clearbreakpoint", slot, FALSE, Callback("cleared", 0, <<>>))
  /\ UNCHANGED <<slot, requests, out>>

\* Mutant: an error ends the handler.
OnClearedReturns(m) ==
  /\ m.cb.step = "cleared"
  /\ slot' = IF m.ok THEN 0 ELSE slot
  /\ IF m.ok THEN FetchCallFrames ELSE UNCHANGED cmds
  /\ UNCHANGED <<requests, out>>

\* The temporary breakpoint is cleared, or V8 does not know it any more and
\* its number is kept.
OnCleared(m) ==
  /\ m.cb.step = "cleared"
  /\ slot' = IF m.ok THEN 0 ELSE slot
  /\ FetchCallFrames
  /\ UNCHANGED <<requests, out>>

\* notifyDebuggerPaused has the call frames.
OnPaused(m) ==
  /\ m.cb.step = "paused"
  /\ out' = Append(out, <<"paused", 0>>)
  /\ UNCHANGED <<cmds, slot, requests>>

\* bindings.onDebuggerMessage.
OnDebuggerMessage ==
  /\ msgs # <<>>
  /\ msgs' = Tail(msgs)
  /\ LET m == Head(msgs)
     IN \/ OnSuspended(m) \/ OnContinued(m) \/ OnLocated(m) \/ OnDone(m)
        \/ OnEvaluated(m) \/ OnListed(m) \/ OnChanged(m) \/ OnExcepted(m) \/ OnRefused(m)
        \/ OnStopped(m) \/ OnCleared(m) \/ OnPaused(m)
  /\ UNCHANGED <<clientVars, v8Vars>>

------------------------------------------------------------------------------
(* The front-end reads.                                                    *)

\* The event that ends a run-control request.
EventOf(r) == IF requests[r].kind = "pause" THEN "paused" ELSE "resumed"

\* A refusal is all there will be; otherwise the event comes after the answer.
Read ==
  /\ out # <<>>
  /\ out' = Tail(out)
  /\ LET what == Head(out)[1]
         r    == Head(out)[2]
     IN \/ /\ what = "answer"
           /\ awaiting' = IF awaiting = r /\ requests[r].answer = "error"
                          THEN 0 ELSE awaiting
           /\ UNCHANGED view
        \/ /\ what # "answer"
           /\ view' = IF what = "paused" THEN "paused" ELSE "running"
           /\ awaiting' = IF awaiting # 0 /\ HasRead(awaiting) /\ EventOf(awaiting) = what
                          THEN 0 ELSE awaiting
  /\ UNCHANGED <<slot, cmds, msgs, v8Vars, requests>>

------------------------------------------------------------------------------
(* V8, as the agent uses it (external).                                    *)

Respond(c, ok, body) ==
  msgs' = Append(msgs, [cb |-> c.cb, ok |-> ok, body |-> body])

\* ProcessDebugMessages, or an interrupt, looks at the commands.
EnterDebugger ==
  /\ v8 = "program"
  /\ cmds # <<>>
  /\ v8' = "serving"
  /\ UNCHANGED <<clientVars, slot, out, cmds, msgs, stepping, bps, lastBp,
                 exceptionBreak, stops, requests>>

\* No more commands, and the program may run.
LeaveDebugger ==
  /\ v8 = "serving"
  /\ cmds = <<>>
  /\ v8' = "program"
  /\ UNCHANGED <<clientVars, slot, out, cmds, msgs, stepping, bps, lastBp,
                 exceptionBreak, stops, requests>>

RunControl(c) ==
  /\ \/ c.do = "suspend" /\ v8' = "waiting" /\ UNCHANGED stepping
     \/ c.do = "continue" /\ v8' = "serving" /\ stepping' = c.flag
  /\ Respond(c, TRUE, <<>>)
  /\ UNCHANGED <<bps, lastBp, exceptionBreak>>

\* A breakpoint is set, or refused (no such script, for example).
SetBreakpoint(c) ==
  /\ c.do = "setbreakpoint"
  /\ \/ /\ lastBp' = lastBp + 1
        /\ bps' = [b \in DOMAIN bps \cup {lastBp'} |->
                     IF b = lastBp' THEN [by |-> c.cb.req, enabled |-> TRUE]
                                    ELSE bps[b]]
        /\ Respond(c, TRUE, <<lastBp'>>)
     \/ /\ UNCHANGED <<lastBp, bps>>
        /\ Respond(c, FALSE, <<>>)
  /\ UNCHANGED <<v8, stepping, exceptionBreak>>

\* A request about a breakpoint that is gone may be refused or ignored.
RespondAbout(b, c) ==
  \E ok \in BOOLEAN : (ok \/ b \notin DOMAIN bps) /\ Respond(c, ok, <<>>)

ClearBreakpoint(c) ==
  /\ c.do = "clearbreakpoint"
  /\ bps' = Restrict(bps, DOMAIN bps \ {c.id})
  /\ RespondAbout(c.id, c)
  /\ UNCHANGED <<v8, stepping, lastBp, exceptionBreak>>

ChangeBreakpoint(c) ==
  /\ c.do = "changebreakpoint"
  /\ bps' = [b \in DOMAIN bps |->
               IF b = c.id THEN [bps[b] EXCEPT !.enabled = c.flag] ELSE bps[b]]
  /\ RespondAbout(c.id, c)
  /\ UNCHANGED <<v8, stepping, lastBp, exceptionBreak>>

SetExceptionBreak(c) ==
  /\ c.do = "setexceptionbreak"
  /\ exceptionBreak' = [exceptionBreak EXCEPT ![c.id] = c.flag]
  /\ Respond(c, TRUE, <<>>)
  /\ UNCHANGED <<v8, stepping, bps, lastBp>>

\* What only looks. An inspection may fail; a frame is gone, for example.
Look(c) ==
  /\ \/ /\ c.do = "listbreakpoints"
        /\ \E list \in [1..Cardinality(DOMAIN bps) -> DOMAIN bps] :
             (\A i, j \in DOMAIN list : i < j => list[i] < list[j]) /\ Respond(c, TRUE, list)
     \/ c.do \in {"backtrace", "scripts"} /\ Respond(c, TRUE, <<>>)
     \/ c.do = "inspect" /\ \E ok \in BOOLEAN : Respond(c, ok, <<>>)
  /\ UNCHANGED <<v8, stepping, bps, lastBp, exceptionBreak>>

\* V8 is in the debugger and takes the next command.
ServeCommand ==
  /\ v8 # "program"
  /\ cmds # <<>>
  /\ cmds' = Tail(cmds)
  /\ LET c == Head(cmds)
     IN \/ RunControl(c) \/ SetBreakpoint(c) \/ ClearBreakpoint(c)
        \/ ChangeBreakpoint(c) \/ SetExceptionBreak(c) \/ Look(c)
  /\ UNCHANGED <<clientVars, slot, out, stops, requests>>

\* The program comes to a breakpoint, throws, or has made its step.
Stop ==
  /\ v8 = "program"
  /\ stops < MaxStops
  /\ \/ stepping
     \/ \E b \in DOMAIN bps : bps[b].enabled
     \/ \E t \in {All, Uncaught} : exceptionBreak[t]
  /\ v8' = "waiting"
  /\ stepping' = FALSE
  /\ stops' = stops + 1
  /\ msgs' = Append(msgs, [cb |-> Callback("stopped", 0, <<>>), ok |-> TRUE, body |-> <<>>])
  /\ UNCHANGED <<clientVars, slot, out, cmds, bps, lastBp, exceptionBreak, requests>>

------------------------------------------------------------------------------
Method ==
  \/ Pause \/ Resume \/ ContinueToLocation \/ SetBreakpointByUrl
  \/ RemoveBreakpoint \/ SetBreakpointsActive \/ SetPauseOnExceptions
  \/ GetScriptSource \/ Inspect

V8 == EnterDebugger \/ ServeCommand \/ LeaveDebugger

Next == Method \/ OnDebuggerMessage \/ Read \/ V8 \/ Stop

Spec == Init /\ [][Next]_vars

\* The worker's loop serves every message, the main thread every command
\* (each is signalled), and the front-end reads.
FairSpec ==
  Spec /\ WF_vars(OnDebuggerMessage) /\ WF_vars(V8) /\ WF_vars(Read)

------------------------------------------------------------------------------
(* Properties.                                                             *)

AllSteps == {"suspended", "continued", "located", "done", "evaluated", "listed",
             "changed", "excepted", "stopped", "cleared", "paused"}

AllCommands == {"suspend", "continue", "setbreakpoint", "clearbreakpoint",
                "changebreakpoint", "setexceptionbreak", "listbreakpoints",
                "backtrace", "scripts", "inspect"}

CallbackType == [step : AllSteps, req : 0..Len(requests), rest : Seq(Nat)]

TypeOK ==
  /\ view \in {"running", "paused"}
  /\ awaiting \in 0..Len(requests)
  /\ slot \in 0..lastBp
  /\ out \in Seq({"answer", "paused", "resumed"} \X (0..Len(requests)))
  /\ cmds \in Seq([do : AllCommands, id : Nat, flag : BOOLEAN, cb : CallbackType])
  /\ msgs \in Seq([cb : CallbackType, ok : BOOLEAN, body : Seq(1..lastBp)])
  /\ v8 \in {"program", "serving", "waiting"}
  /\ stepping \in BOOLEAN
  /\ lastBp \in Nat
  /\ DOMAIN bps \subseteq 1..lastBp
  /\ \A b \in DOMAIN bps : bps[b] \in [by : 1..Len(requests), enabled : BOOLEAN]
  /\ exceptionBreak \in [{All, Uncaught} -> BOOLEAN]
  /\ stops \in Nat
  /\ requests \in Seq([kind : Kinds,
                       arg : {"", "on", "off", "all", "uncaught", "none"},
                       answer : {"none", "ok", "error"}])

Settled == cmds = <<>> /\ msgs = <<>> /\ v8 # "serving"

\* When everything under way has arrived, the front-end has been told last
\* what is the case, however a pause and a breakpoint crossed, and whether or
\* not a temporary breakpoint had to be cleared in between.
ViewIsRight ==
  Settled /\ out = <<>> => (view = "paused" <=> v8 = "waiting")

\* The breakpoints of continueToLocation that V8 has.
Temporary == {b \in DOMAIN bps : requests[bps[b].by].kind = "continueToLocation"}

\* V8 keeps no temporary breakpoint that the agent does not know of, so that
\* there is one at most and the next stop clears it, as long as the program
\* is stopped by breakpoints and exceptions: `pause` leaves it set, and the
\* next continueToLocation forgets it.
TemporaryTracked ==
  (\A r \in DOMAIN requests : requests[r].kind # "pause") =>
    \A b \in Temporary :
      \/ slot = b
      \/ \E i \in DOMAIN msgs : msgs[i].cb.step = "located" /\ msgs[i].body = <<b>>

\* There was no other request of r's kind after r.
LastOfItsKind(r) ==
  \A s \in DOMAIN requests : s > r => requests[s].kind # requests[r].kind

\* A breakpoint that goes away shifts the rest of a later list: the earlier
\* setBreakpointsActive may then come to a breakpoint after the later one.
BreakpointsStay ==
  \A r \in DOMAIN requests :
    requests[r].kind \notin {"removeBreakpoint", "continueToLocation"}

\* Settings that overlap, each sent to V8 one part after another, do not
\* mix: the last one holds for every exception type, and, unless breakpoints
\* were removed, for every breakpoint that was asked for before it.
LaterSettingWins ==
  Settled =>
    \A r \in DOMAIN requests : requests[r].answer = "ok" /\ LastOfItsKind(r) =>
      /\ requests[r].kind = "setPauseOnExceptions" =>
           \A t \in {All, Uncaught} : exceptionBreak[t] = Enables(requests[r].arg, t)
      /\ requests[r].kind = "setBreakpointsActive" /\ BreakpointsStay =>
           \A b \in DOMAIN bps :
             bps[b].by < r => (bps[b].enabled <=> requests[r].arg = "on")

\* Whenever V8 waits, the front-end comes to know of it.
StopsReported == v8 = "waiting" ~> view = "paused" \/ v8 # "waiting"

\* Every request is answered, however many requests to V8 it takes and
\* whichever of them fails.
RequestsAnswered ==
  \A r \in 1..MaxRequests :
    r \in DOMAIN requests ~> (r \in DOMAIN requests /\ requests[r].answer # "none")

=============================================================================
