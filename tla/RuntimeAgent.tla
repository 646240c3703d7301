----------------------------- MODULE RuntimeAgent -----------------------------
(***************************************************************************)
(* The objects of the program, as a front-end gets to see them: the        *)
(* Runtime agent (src/backend/runtime-agent.js), the call frames and the   *)
(* inspections of the Debugger agent, and the conversions of               *)
(* src/backend/convert.js they use.                                        *)
(*                                                                         *)
(* A front-end names an object by the number V8 gave it, its handle.  V8   *)
(* numbers objects anew each time it enters its debugger, so that one      *)
(* number means several objects in turn, and getProperties of a scope asks *)
(* for the scope's handle first and for the object afterwards.  Is an      *)
(* answer about the object that the front-end was shown?                   *)
(*                                                                         *)
(* The debugger is enabled throughout and the program stops by itself (at  *)
(* breakpoints); pausing and stepping is DebuggerAgent's subject.          *)
(***************************************************************************)
EXTENDS Naturals, Sequences, SequencesExt

CONSTANTS
  Objects,      \* objects of the program
  MaxRequests,  \* bound: requests of the front-end
  MaxStops      \* bound: times the program stops

ASSUME BoundsAssumption == {MaxRequests, MaxStops} \subseteq Nat

NoObject == "none"
ASSUME ObjectsAssumption == NoObject \notin Objects

VARIABLES
  \* the front-end
  paused,     \* it was told that the program is paused and has not asked to
              \* go on
  shown,      \* <<id, object>>: the ids it was given in this pause
  \* between front-end and agent, and agent and V8
  out,        \* answers and events it has not read yet
  cmds,       \* requests to V8, with their callback
  msgs,       \* responses and events of V8
  \* V8
  v8,         \* "program", "serving" (commands, then back to the program) or
              \* "waiting" (in the debugger)
  handles,    \* the objects that have a number, in order
  scope,      \* the scope object of the top frame, when there is a frame
  looks,      \* what an object looks like: names of its own properties in
              \* order, and whether it has a prototype
  stops,      \* stops so far (for the bound)
  \* observation
  requests    \* every request of the front-end, with its answer

clientVars == <<paused, shown>>
v8Vars == <<v8, handles, scope, looks, stops>>
vars == <<clientVars, out, cmds, msgs, v8Vars, requests>>

Looks == [own : {<<>>, <<"p">>, <<"p", "__proto__">>}, proto : BOOLEAN]

Init ==
  /\ paused = FALSE
  /\ shown = {}
  /\ out = <<>>
  /\ cmds = <<>>
  /\ msgs = <<>>
  /\ v8 = "program"
  /\ handles = <<>>
  /\ scope = NoObject
  /\ looks \in Looks
  /\ stops = 0
  /\ requests = <<>>

------------------------------------------------------------------------------
(* The requests.  id is a handle; means is what the front-end was shown    *)
(* under that id.                                                          *)

\* The two requests for an object, and the one for a scope (the comment in
\* getProperties): options.ownProperties, options.accessorPropertiesOnly.
ForOwn == [own |-> TRUE, accessors |-> FALSE]
ForAccessors == [own |-> FALSE, accessors |-> TRUE]
ForScope == [own |-> FALSE, accessors |-> FALSE]

NewReq == Len(requests) + 1

\* A method is called.  hurried: the front-end asks the program to go on
\* before it has the answer.
Receive(kind, means, options) ==
  /\ Len(requests) < MaxRequests
  /\ requests' = Append(requests, [kind |-> kind, means |-> means, options |-> options,
                                   hurried |-> FALSE, answer |-> "none",
                                   object |-> NoObject, names |-> <<>>])
  /\ UNCHANGED <<clientVars, out, msgs, v8Vars>>

\* context.sendDebuggerRequest.
Send(do, id, step, r) ==
  cmds' = Append(cmds, [do |-> do, id |-> id, step |-> step, req |-> r])

\* Runtime.evaluate at any time, Debugger.evaluateOnCallFrame while paused.
Evaluate ==
  /\ Receive("evaluate", NoObject, ForOwn)
  /\ Send("evaluate", 0, "evaluated", NewReq)

\* getProperties, _getPropertiesOfObjectId.
GetPropertiesOfObjectId ==
  /\ paused
  /\ \E x \in shown, options \in {ForOwn, ForAccessors} :
       /\ Receive("object", x[2], options)
       /\ Send("lookup", x[1], "looked", NewReq)

\* getProperties, _getPropertiesOfScopeId: frame and scope are by number.
GetPropertiesOfScopeId ==
  /\ paused
  /\ Receive("scope", scope, ForScope)
  /\ Send("scope", 0, "scoped", NewReq)

\* callFunctionOn with an argument that V8 does not know how to pass: throws,
\* and the catch answers.
CallFunctionOnRefused ==
  /\ paused
  /\ Len(requests) < MaxRequests
  /\ \E x \in shown :
       requests' = Append(requests, [kind |-> "use", means |-> x[2], options |-> ForOwn,
                                     hurried |-> FALSE, answer |-> "error",
                                     object |-> NoObject, names |-> <<>>])
  /\ out' = Append(out, [what |-> "answer", req |-> NewReq, id |-> 0, object |-> NoObject])
  /\ UNCHANGED <<clientVars, cmds, msgs, v8Vars>>

\* callFunctionOn: evaluate with the object as context.
CallFunctionOn ==
  /\ paused
  /\ \E x \in shown :
       /\ Receive("use", x[2], ForOwn)
       /\ Send("use", x[1], "called", NewReq)

\* Debugger.setVariableValue with an object as new value.
SetVariableValue ==
  /\ paused
  /\ \E x \in shown :
       /\ Receive("use", x[2], ForOwn)
       /\ Send("use", x[1], "set", NewReq)

\* Debugger.resume and the steps.  The front-end forgets what it was shown.
Resume ==
  /\ paused
  /\ paused' = FALSE
  /\ shown' = {}
  /\ cmds' = Append(cmds, [do |-> "continue", id |-> 0, step |-> "continued", req |-> 0])
  /\ requests' = [r \in DOMAIN requests |->
                    IF requests[r].answer = "none"
                    THEN [requests[r] EXCEPT !.hurried = TRUE] ELSE requests[r]]
  /\ UNCHANGED <<out, msgs, v8Vars>>

------------------------------------------------------------------------------
(* The callbacks.                                                          *)

\* Mutant: the prototype is added without a look at the own properties.
PropertiesWithProto(l, options) ==
  IF options.accessors THEN <<>>
  ELSE l.own \o (IF options.own /\ l.proto THEN <<"__proto__">> ELSE <<>>)

\* convert.v8ObjectToDevToolsProperties: V8 names own properties only, and
\* none of them is known to be an accessor.
PropertiesOf(l, options) ==
  LET addProto == options.own /\ l.proto /\ "__proto__" \notin ToSet(l.own)
  IN IF options.accessors THEN <<>>
     ELSE l.own \o (IF addProto THEN <<"__proto__">> ELSE <<>>)

\* The answer to r, with the ids that it gives to the front-end.
Answer(r, result, object, names, id, known) ==
  /\ requests' = [requests EXCEPT ![r].answer = result, ![r].object = object,
                                  ![r].names = names]
  /\ out' = Append(out, [what |-> "answer", req |-> r, id |-> id, object |-> known])

\* evaluate: convert.v8ResultToDevToolsResult.
OnEvaluated(m) ==
  /\ m.step = "evaluated"
  /\ m.ok
  /\ Answer(m.req, "ok", m.object, <<>>, m.id, m.object)
  /\ UNCHANGED cmds

\* Mutant: asks for the scope by the number it was asked for itself.
OnScopedByNumber(m) ==
  /\ m.step = "scoped"
  /\ m.ok
  /\ Send("lookup", 1, "looked", m.req)
  /\ UNCHANGED <<requests, out>>

\* _getPropertiesOfScopeId has the scope's handle.
OnScoped(m) ==
  /\ m.step = "scoped"
  /\ m.ok
  /\ Send("lookup", m.id, "looked", m.req)
  /\ UNCHANGED <<requests, out>>

\* _getPropertiesOfObjectId has the object; its properties' values have ids.
OnLooked(m) ==
  /\ m.step = "looked"
  /\ m.ok
  /\ Answer(m.req, "ok", m.object, PropertiesOf(looks, requests[m.req].options),
            m.id, m.value)
  /\ UNCHANGED cmds

\* callFunctionOn and setVariableValue.
OnUsed(m) ==
  /\ m.step \in {"called", "set"}
  /\ m.ok
  /\ Answer(m.req, "ok", m.object, <<>>, 0, NoObject)
  /\ UNCHANGED cmds

\* Mutant: V8's refusal is passed on as it comes.
OnRefusedRaw(m) ==
  /\ m.step # "paused" /\ m.step # "stopped" /\ m.step # "continued"
  /\ ~m.ok
  /\ Answer(m.req, "body", NoObject, <<>>, 0, NoObject)
  /\ UNCHANGED cmds

\* Mutant: an object that is not found ends it.
OnRefusedButLookup(m) ==
  /\ m.step # "paused" /\ m.step # "stopped" /\ m.step # "continued"
  /\ ~m.ok
  /\ IF m.step = "looked" THEN UNCHANGED <<requests, out>>
     ELSE Answer(m.req, IF m.step = "called" THEN "thrown" ELSE "error",
                 NoObject, <<>>, 0, NoObject)
  /\ UNCHANGED cmds

\* V8 refused: an error, but _handleCallFnOnObjectResponse and evaluate make
\* it a result that says wasThrown.
OnRefused(m) ==
  /\ m.step # "paused" /\ m.step # "stopped" /\ m.step # "continued"
  /\ ~m.ok
  /\ Answer(m.req, IF m.step \in {"called", "evaluated"} THEN "thrown" ELSE "error",
            NoObject, <<>>, 0, NoObject)
  /\ UNCHANGED cmds

\* eventHandlers.break: notifyDebuggerPaused asks for the call frames.
OnStopped(m) ==
  /\ m.step = "stopped"
  /\ Send("backtrace", 0, "paused", 0)
  /\ UNCHANGED <<requests, out>>

\* Mutant: the receiver goes by the number of its frame.
OnPausedByFrame(m) ==
  /\ m.step = "paused"
  /\ out' = Append(out, [what |-> "paused", req |-> 0, id |-> 0, object |-> m.object])
  /\ UNCHANGED <<requests, cmds>>

\* notifyDebuggerPaused has them: convert.v8FrameToDevToolsFrame gives the
\* front-end numbers of scopes and the handle of the receiver.
OnPaused(m) ==
  /\ m.step = "paused"
  /\ out' = Append(out, [what |-> "paused", req |-> 0, id |-> m.id, object |-> m.object])
  /\ UNCHANGED <<requests, cmds>>

OnContinued(m) ==
  /\ m.step = "continued"
  /\ UNCHANGED <<requests, cmds, out>>

\* bindings.onDebuggerMessage.
OnDebuggerMessage ==
  /\ msgs # <<>>
  /\ msgs' = Tail(msgs)
  /\ LET m == Head(msgs)
     IN \/ OnEvaluated(m) \/ OnScoped(m) \/ OnLooked(m) \/ OnUsed(m) \/ OnRefused(m)
        \/ OnStopped(m) \/ OnPaused(m) \/ OnContinued(m)
  /\ UNCHANGED <<clientVars, v8Vars>>

------------------------------------------------------------------------------
(* The front-end reads.                                                    *)

\* It takes up what it is shown while paused, and nothing that comes too late
\* or from before it asked to go on.
Read ==
  /\ out # <<>>
  /\ out' = Tail(out)
  /\ LET m == Head(out)
         news == IF m.object = NoObject THEN {} ELSE {<<m.id, m.object>>}
     IN \/ /\ m.what = "paused"
           /\ paused' = TRUE
           /\ shown' = news
        \/ /\ m.what = "answer"
           /\ shown' = IF paused /\ ~requests[m.req].hurried THEN shown \cup news
                                                             ELSE shown
           /\ UNCHANGED paused
  /\ UNCHANGED <<cmds, msgs, v8Vars, requests>>

------------------------------------------------------------------------------
(* V8 (external).                                                          *)

\* The handle of o, a new one if it has none yet.
HandleOf(o, s) == IF o \in ToSet(s) THEN CHOOSE i \in DOMAIN s : s[i] = o ELSE Len(s) + 1
Numbered(o, s) == IF o \in ToSet(s) THEN s ELSE Append(s, o)

Respond(c, ok, id, object, value) ==
  msgs' = Append(msgs, [step |-> c.step, req |-> c.req, ok |-> ok, id |-> id,
                        object |-> object, value |-> value])
Refuse(c) == Respond(c, FALSE, 0, NoObject, NoObject) /\ UNCHANGED handles

\* An object of V8's choice, with its handle.
Show(c, o) ==
  /\ handles' = Numbered(o, handles)
  /\ Respond(c, TRUE, HandleOf(o, handles), o, NoObject)

EnterDebugger ==
  /\ v8 = "program"
  /\ cmds # <<>>
  /\ v8' = "serving"
  /\ handles' = <<>>
  /\ UNCHANGED <<clientVars, out, cmds, msgs, scope, looks, stops, requests>>

LeaveDebugger ==
  /\ v8 = "serving"
  /\ cmds = <<>>
  /\ v8' = "program"
  /\ handles' = <<>>
  /\ UNCHANGED <<clientVars, out, cmds, msgs, scope, looks, stops, requests>>

ServeEvaluate(c) ==
  /\ c.do = "evaluate"
  /\ Refuse(c) \/ \E o \in Objects : Show(c, o)
  /\ UNCHANGED <<v8, scope>>

\* The frames are gone when the program runs.
ServeScope(c) ==
  /\ c.do = "scope"
  /\ IF scope = NoObject THEN Refuse(c) ELSE Show(c, scope)
  /\ UNCHANGED <<v8, scope>>

\* The object with this number, and the value of a property of it.
ServeLookup(c) ==
  /\ c.do = "lookup"
  /\ IF c.id \notin DOMAIN handles THEN Refuse(c)
     ELSE \E v \in Objects :
            /\ handles' = Numbered(v, handles)
            /\ Respond(c, TRUE, HandleOf(v, handles), handles[c.id], v)
  /\ UNCHANGED <<v8, scope>>

\* The function that is called may throw, the variable be unknown.
ServeUse(c) ==
  /\ c.do = "use"
  /\ \/ Refuse(c)
     \/ /\ c.id \in DOMAIN handles
        /\ Respond(c, TRUE, 0, handles[c.id], NoObject)
        /\ UNCHANGED handles
  /\ UNCHANGED <<v8, scope>>

ServeBacktrace(c) ==
  /\ c.do = "backtrace"
  /\ \E o \in Objects : Show(c, o)
  /\ UNCHANGED <<v8, scope>>

\* The program goes on as soon as there are no more commands.
ServeContinue(c) ==
  /\ c.do = "continue"
  /\ v8' = "serving"
  /\ scope' = NoObject
  /\ Respond(c, TRUE, 0, NoObject, NoObject)
  /\ UNCHANGED handles

ServeCommand ==
  /\ v8 # "program"
  /\ cmds # <<>>
  /\ cmds' = Tail(cmds)
  /\ LET c == Head(cmds)
     IN \/ ServeEvaluate(c) \/ ServeScope(c) \/ ServeLookup(c) \/ ServeUse(c)
        \/ ServeBacktrace(c) \/ ServeContinue(c)
  /\ UNCHANGED <<clientVars, out, looks, stops, requests>>

\* The program comes to a breakpoint.
Stop ==
  /\ v8 = "program"
  /\ stops < MaxStops
  /\ stops' = stops + 1
  /\ v8' = "waiting"
  /\ handles' = <<>>
  /\ scope' \in Objects
  /\ msgs' = Append(msgs, [step |-> "stopped", req |-> 0, ok |-> TRUE, id |-> 0,
                           object |-> NoObject, value |-> NoObject])
  /\ UNCHANGED <<clientVars, out, cmds, looks, requests>>

------------------------------------------------------------------------------
Method ==
  \/ Evaluate \/ GetPropertiesOfObjectId \/ GetPropertiesOfScopeId
  \/ CallFunctionOn \/ CallFunctionOnRefused \/ SetVariableValue \/ Resume

V8 == EnterDebugger \/ ServeCommand \/ LeaveDebugger

Next == Method \/ OnDebuggerMessage \/ Read \/ V8 \/ Stop

Spec == Init /\ [][Next]_vars

\* The worker's loop serves every message, the main thread every command
\* (each is signalled).
FairSpec == Spec /\ WF_vars(OnDebuggerMessage) /\ WF_vars(V8)

------------------------------------------------------------------------------
(* Properties.                                                             *)

Steps == {"evaluated", "scoped", "looked", "called", "set", "continued",
          "stopped", "paused"}

TypeOK ==
  /\ paused \in BOOLEAN
  /\ shown \subseteq (Nat \X Objects)
  /\ out \in Seq([what : {"answer", "paused"}, req : 0..Len(requests), id : Nat,
                  object : Objects \cup {NoObject}])
  /\ cmds \in Seq([do : {"evaluate", "scope", "lookup", "use", "backtrace", "continue"},
                   id : Nat, step : Steps, req : 0..Len(requests)])
  /\ msgs \in Seq([step : Steps, req : 0..Len(requests), ok : BOOLEAN, id : Nat,
                   object : Objects \cup {NoObject}, value : Objects \cup {NoObject}])
  /\ v8 \in {"program", "serving", "waiting"}
  /\ handles \in Seq(Objects)
  /\ scope \in Objects \cup {NoObject}
  /\ looks \in Looks
  /\ stops \in Nat
  /\ requests \in Seq([kind : {"evaluate", "object", "scope", "use"},
                       means : Objects \cup {NoObject}, options : {ForOwn, ForAccessors, ForScope},
                       hurried : BOOLEAN, answer : {"none", "ok", "thrown", "error"},
                       object : Objects \cup {NoObject}, names : Seq({"p", "__proto__"})])

\* What is answered about an object that the front-end was shown in this
\* pause, and what is done with it, is about that very object, although V8
\* reuses its number later and whether or not the program goes on before the
\* answer comes; and it can be asked for as long as the program is paused.
\* For a scope, which takes two requests to V8, the front-end has to wait for
\* the answer before it lets the program go on: the second request would
\* otherwise find no object, or another one.
AboutWhatWasShown ==
  \A r \in DOMAIN requests :
    LET q == requests[r]
        settled == q.kind # "scope" \/ ~q.hurried
    IN /\ q.kind # "evaluate" /\ settled /\ q.answer = "ok" => q.object = q.means
       /\ q.kind \in {"object", "scope"} /\ settled => q.answer # "error"

\* The two requests for the properties of an object give each of its
\* properties once, and its prototype once if it has one.
EachPropertyOnce ==
  \A r, s \in DOMAIN requests :
    LET q == requests[r]
        p == requests[s]
        all == q.names \o p.names
    IN q.kind = "object" /\ p.kind = "object" /\ q.answer = "ok" /\ p.answer = "ok"
       /\ q.options = ForOwn /\ p.options = ForAccessors
       => /\ IsInjective(all)
          /\ ToSet(all) = ToSet(looks.own) \cup (IF looks.proto THEN {"__proto__"} ELSE {})

\* Every request is answered, whatever becomes of the program in between.
RequestsAnswered ==
  \A r \in 1..MaxRequests :
    r \in DOMAIN requests ~> (r \in DOMAIN requests /\ requests[r].answer # "none")

=============================================================================
