------------------------- MODULE DebuggerAgentProofs -------------------------
(*****************************************************************************)
(* The safety of DebuggerAgent, for any methods, any number of requests and  *)
(* any number of stops: types, what the front-end is told of the program's   *)
(* state, the temporary breakpoint of continueToLocation, and settings that  *)
(* are sent to V8 part by part.                                              *)
(*                                                                           *)
(* The second and the last need to know what is on its way between front-end,*)
(* agent and V8, and in which order: see Control and LastToWrite.            *)
(*****************************************************************************)
EXTENDS DebuggerAgent, FiniteSetTheorems, TLAPS

------------------------------------------------------------------------------
(* Sequences.                                                                *)

\* A sequence with one more element at its end.
Grows(s, t, x) ==
  /\ Len(s) \in Nat /\ Len(t) = Len(s) + 1
  /\ DOMAIN t = DOMAIN s \cup {Len(s) + 1} /\ Len(s) + 1 \notin DOMAIN s
  /\ t[Len(s) + 1] = x
  /\ \A k \in DOMAIN s : t[k] = s[k] /\ k \in Nat \ {0} /\ k < Len(s) + 1

\* A sequence without its first element.
Shrinks(s, t, x) ==
  /\ 1 \in DOMAIN s /\ s[1] = x
  /\ \A k \in DOMAIN t : k \in Nat \ {0} /\ k + 1 \in DOMAIN s /\ t[k] = s[k + 1]
  /\ \A k \in DOMAIN s : k # 1 => k \in Nat /\ k > 1 /\ k - 1 \in DOMAIN t

\* What Append and Tail do.
LEMMA GrowsShrinks ==
  ASSUME NEW S, NEW s \in Seq(S)
  PROVE  /\ \A x \in S : Append(s, x) \in Seq(S) /\ Grows(s, Append(s, x), x)
         /\ s # <<>> => /\ Tail(s) \in Seq(S) /\ Head(s) \in S
                        /\ Shrinks(s, Tail(s), Head(s))
<1>1. ASSUME NEW x \in S PROVE Append(s, x) \in Seq(S) /\ Grows(s, Append(s, x), x)
  <2>1. Append(s, x) \in Seq(S) /\ Len(s) \in Nat /\ Len(Append(s, x)) = Len(s) + 1
    OBVIOUS
  <2>2. DOMAIN Append(s, x) = DOMAIN s \cup {Len(s) + 1} /\ Len(s) + 1 \notin DOMAIN s
    OBVIOUS
  <2>3. /\ Append(s, x)[Len(s) + 1] = x
        /\ \A k \in DOMAIN s : Append(s, x)[k] = s[k] /\ k \in Nat \ {0} /\ k < Len(s) + 1
    OBVIOUS
  <2> QED BY <2>1, <2>2, <2>3 DEF Grows
<1>2. ASSUME s # <<>>
      PROVE  Tail(s) \in Seq(S) /\ Head(s) \in S /\ Shrinks(s, Tail(s), Head(s))
  <2>1. Tail(s) \in Seq(S) /\ Head(s) \in S
    BY <1>2
  <2>2. /\ 1 \in DOMAIN s /\ s[1] = Head(s)
        /\ \A k \in DOMAIN Tail(s) : k \in Nat \ {0} /\ k + 1 \in DOMAIN s
                                     /\ Tail(s)[k] = s[k + 1]
    BY <1>2
  <2>3. \A k \in DOMAIN s : k # 1 => k \in Nat /\ k > 1 /\ k - 1 \in DOMAIN Tail(s)
    BY <1>2
  <2> QED BY <2>1, <2>2, <2>3 DEF Shrinks
<1> QED BY <1>1, <1>2

\* A function on the first numbers.
LEMMA FunctionSeq ==
  ASSUME NEW S, NEW n \in Nat, NEW f \in [1..n -> S]
  PROVE  f \in Seq(S)
  OBVIOUS

\* Two elements at the end.
LEMMA AppendTwo ==
  ASSUME NEW S, NEW s \in Seq(S), NEW x \in S, NEW y \in S
  PROVE  s \o <<x, y>> = Append(Append(s, x), y)
  OBVIOUS

\* A set that holds more.
LEMMA SeqWider ==
  ASSUME NEW S, NEW T, S \subseteq T, NEW s \in Seq(S)
  PROVE  s \in Seq(T)
  OBVIOUS

------------------------------------------------------------------------------
(* Types.                                                                    *)

CbType(n) == [step : AllSteps, req : 0..n, rest : Seq(Nat)]
CmdType(n) == [do : AllCommands, id : Nat, flag : BOOLEAN, cb : CbType(n)]
MsgType(n, last) == [cb : CbType(n), ok : BOOLEAN, body : Seq(1..last)]
OutType(n) == {"answer", "paused", "resumed"} \X (0..n)
Args == {"", "on", "off", "all", "uncaught", "none"}
RequestType ==
  [kind : Kinds, arg : Args,
   answer : {"none", "ok", "error"}]

ClientType ==
  /\ view \in {"running", "paused"}
  /\ awaiting \in 0..Len(requests)
V8Type ==
  /\ slot \in 0..lastBp
  /\ v8 \in {"program", "serving", "waiting"}
  /\ stepping \in BOOLEAN
  /\ lastBp \in Nat
  /\ exceptionBreak \in [{All, Uncaught} -> BOOLEAN]
  /\ stops \in Nat
BpsType ==
  /\ DOMAIN bps \subseteq 1..lastBp
  /\ \A b \in DOMAIN bps : bps[b] \in [by : 1..Len(requests), enabled : BOOLEAN]
CmdsType == cmds \in Seq(CmdType(Len(requests)))
MsgsType == msgs \in Seq(MsgType(Len(requests), lastBp))
OutsType == out \in Seq(OutType(Len(requests)))
RequestsType == requests \in Seq(RequestType)

\* TypeOK is the conjunction of these.
LEMMA TypeParts ==
  TypeOK <=> /\ ClientType /\ V8Type /\ BpsType /\ CmdsType /\ MsgsType /\ OutsType
             /\ RequestsType
BY DEF TypeOK, ClientType, V8Type, BpsType, CmdsType, MsgsType, OutsType, RequestsType,
       CbType, CmdType, MsgType, OutType, RequestType, CallbackType, Args

\* ... after a step, too.
LEMMA TypePartsNext ==
  /\ ClientType' /\ V8Type' /\ BpsType' /\ CmdsType' /\ MsgsType' /\ OutsType'
  /\ RequestsType'
  => TypeOK'
BY DEF TypeOK, ClientType, V8Type, BpsType, CmdsType, MsgsType, OutsType, RequestsType,
       CbType, CmdType, MsgType, OutType, RequestType, CallbackType, Args

\* What is on its way names requests and breakpoints there are, also when
\* there are more.
LEMMA MoreRequests ==
  ASSUME NEW m \in Nat, NEW n \in Nat, m <= n, NEW l \in Nat, NEW h \in Nat, l <= h
  PROVE  /\ \A s \in Seq(CmdType(m)) : s \in Seq(CmdType(n))
         /\ \A s \in Seq(MsgType(m, l)) : s \in Seq(MsgType(n, h))
         /\ \A s \in Seq(OutType(m)) : s \in Seq(OutType(n))
<1>1. CbType(m) \subseteq CbType(n)
  BY DEF CbType
<1>2. CmdType(m) \subseteq CmdType(n)
  BY <1>1 DEF CmdType
<1>3. MsgType(m, l) \subseteq MsgType(n, h)
  <2>1. \A s \in Seq(1..l) : s \in Seq(1..h)
    BY SeqWider
  <2> QED BY <1>1, <2>1 DEF MsgType
<1>4. OutType(m) \subseteq OutType(n)
  BY DEF OutType
<1> QED BY <1>2, <1>3, <1>4, SeqWider

\* The initial state has its types.
LEMMA InitType == Init => TypeOK
<1> SUFFICES ASSUME Init PROVE TypeOK
  OBVIOUS
<1>1. \A S : <<>> \in Seq(S)
  OBVIOUS
<1>2. Len(requests) = 0 /\ DOMAIN bps = {}
  BY DEF Init
<1>3. ClientType /\ BpsType
  BY <1>2 DEF Init, ClientType, BpsType
<1>4. V8Type
  <2>1. exceptionBreak \in [{All, Uncaught} -> BOOLEAN]
    BY DEF Init
  <2>2. slot \in 0..lastBp /\ lastBp \in Nat
    BY DEF Init
  <2> QED BY <2>1, <2>2 DEF Init, V8Type
<1>5. CmdsType /\ MsgsType /\ OutsType /\ RequestsType
  BY <1>1 DEF Init, CmdsType, MsgsType, OutsType, RequestsType
<1> QED BY <1>3, <1>4, <1>5, TypeParts

------------------------------------------------------------------------------
(* What is on its way.                                                       *)

RunControls == {"pause", "resume", "continueToLocation"}

\* The request that a callback answers is of the kind that has this step.
CallFits(cb, reqs) ==
  /\ cb.req = 0 <=> cb.step \in {"stopped", "cleared", "paused"}
  /\ cb.step = "suspended" => reqs[cb.req].kind = "pause"
  /\ cb.step = "continued" => reqs[cb.req].kind \in {"resume", "continueToLocation"}
  /\ cb.step = "located" => reqs[cb.req].kind = "continueToLocation"
  /\ cb.step \in {"listed", "changed"} => reqs[cb.req].kind = "setBreakpointsActive"
  /\ cb.step = "excepted" => /\ reqs[cb.req].kind = "setPauseOnExceptions"
                             /\ cb.rest \in {<<>>, <<Uncaught>>}
  /\ cb.step \in {"done", "evaluated"} =>
       reqs[cb.req].kind \in {"setBreakpoint", "removeBreakpoint", "getScriptSource", "inspect"}

\* A command has the callback that its method or callback sends it with.
CmdFits(c, reqs) ==
  /\ CallFits(c.cb, reqs)
  /\ c.cb.step # "stopped"
  /\ c.do = "suspend" <=> c.cb.step = "suspended"
  /\ c.do = "continue" <=> c.cb.step = "continued"
  /\ c.do = "backtrace" <=> c.cb.step = "paused"
  /\ c.do = "listbreakpoints" <=> c.cb.step = "listed"
  /\ c.do = "changebreakpoint" <=> c.cb.step = "changed"
  /\ c.do = "setexceptionbreak" <=> c.cb.step = "excepted"
  /\ c.cb.step = "located" => c.do = "setbreakpoint"
  /\ c.cb.step = "cleared" => c.do = "clearbreakpoint"
  /\ c.do = "setbreakpoint" /\ c.cb.step # "located" =>
       c.cb.step = "done" /\ reqs[c.cb.req].kind = "setBreakpoint"
  /\ c.do = "clearbreakpoint" /\ c.cb.step # "cleared" =>
       c.cb.step = "done" /\ reqs[c.cb.req].kind = "removeBreakpoint"
  /\ c.do = "changebreakpoint" => (c.flag <=> reqs[c.cb.req].arg = "on")
  /\ c.do = "setexceptionbreak" =>
       /\ c.id \in {All, Uncaught}
       /\ c.cb.rest = IF c.id = All THEN <<Uncaught>> ELSE <<>>
       /\ c.flag <=> Enables(reqs[c.cb.req].arg, c.id)

MsgFits(m, reqs) ==
  /\ CallFits(m.cb, reqs)
  /\ m.cb.step = "located" /\ m.ok => Len(m.body) = 1

\* Every command and message fits the request it is about.
Fits ==
  /\ \A k \in DOMAIN cmds : CmdFits(cmds[k], requests)
  /\ \A k \in DOMAIN msgs : MsgFits(msgs[k], requests)

\* A request is on its way to V8 or back once, and not answered yet.
Underway ==
  /\ \A k \in DOMAIN cmds : cmds[k].cb.req # 0 => requests[cmds[k].cb.req].answer = "none"
  /\ \A k \in DOMAIN msgs : msgs[k].cb.req # 0 => requests[msgs[k].cb.req].answer = "none"
  /\ \A j, k \in DOMAIN cmds : cmds[j].cb.req = cmds[k].cb.req /\ cmds[j].cb.req # 0 => j = k
  /\ \A j, k \in DOMAIN msgs : msgs[j].cb.req = msgs[k].cb.req /\ msgs[j].cb.req # 0 => j = k
  /\ \A j \in DOMAIN cmds, k \in DOMAIN msgs :
       cmds[j].cb.req = msgs[k].cb.req => cmds[j].cb.req = 0

------------------------------------------------------------------------------
(* What the steps do, in terms of what is on its way.                        *)

\* A method puts down its request q and sends V8 the command c.
Called(q, c) ==
  /\ q \in RequestType /\ q.answer = "none" /\ requests' = Append(requests, q)
  /\ c \in CmdType(NewReq) /\ c.cb.req = NewReq /\ cmds' = Append(cmds, c)
  /\ \/ /\ q.kind \notin RunControls /\ awaiting' = awaiting
        /\ c.cb.step \in {"done", "evaluated", "listed", "excepted"}
     \/ /\ q.kind = "pause" /\ awaiting = 0 /\ awaiting' = NewReq /\ view = "running"
        /\ c.cb.step = "suspended"
     \/ /\ q.kind \in {"resume", "continueToLocation"}
        /\ awaiting = 0 /\ awaiting' = NewReq /\ view = "paused"
        /\ c.cb.step \in {"continued", "located"}
  /\ CmdFits(c, requests')
  /\ q.kind = "setPauseOnExceptions" => c.id = All
  /\ UNCHANGED <<view, slot, out, msgs, v8, stepping, bps, lastBp, exceptionBreak, stops>>

\* The same, with the command and the callback spelled out.
CalledWith(q, c, kind, arg, do, id, flag, step, rest) ==
  /\ q \in RequestType /\ q.answer = "none" /\ requests' = Append(requests, q)
  /\ q.kind = kind /\ q.arg = arg /\ requests'[NewReq] = q
  /\ c \in CmdType(NewReq) /\ c.cb.req = NewReq /\ cmds' = Append(cmds, c)
  /\ c.do = do /\ c.id = id /\ c.flag = flag /\ c.cb.step = step /\ c.cb.rest = rest
  /\ UNCHANGED <<view, slot, out, msgs, v8, stepping, bps, lastBp, exceptionBreak, stops>>

\* Receive and Send together are such a call.
LEMMA ReceiveAndSend ==
  ASSUME TypeOK, NEW kind, NEW arg \in Args,
         Receive(kind, arg),
         NEW do \in AllCommands, NEW id \in Nat, NEW flag \in BOOLEAN,
         NEW step \in AllSteps, NEW rest \in Seq(Nat),
         Send(do, id, flag, Callback(step, NewReq, rest))
  PROVE  \E q, c : CalledWith(q, c, kind, arg, do, id, flag, step, rest)
<1> DEFINE q == [kind |-> kind, arg |-> arg, answer |-> "none"]
           cb == [step |-> step, req |-> NewReq, rest |-> rest]
           c == [do |-> do, id |-> id, flag |-> flag, cb |-> cb]
<1>0. requests \in Seq(RequestType)
  BY TypeParts DEF RequestsType
<1>1. NewReq \in 0..NewReq /\ NewReq = Len(requests) + 1
  BY <1>0 DEF NewReq
<1>2. q \in RequestType
  BY DEF Receive, RequestType
<1>3. c \in CmdType(NewReq)
  BY <1>1 DEF CmdType, CbType
<1>4. requests' = Append(requests, q) /\ cmds' = Append(cmds, c)
      /\ UNCHANGED <<view, slot, out, msgs, v8, stepping, bps, lastBp, exceptionBreak, stops>>
  BY DEF Receive, Send, Callback, v8Vars
<1>5. /\ q.answer = "none" /\ q.kind = kind /\ q.arg = arg /\ c.do = do /\ c.id = id
      /\ c.flag = flag /\ c.cb.step = step /\ c.cb.rest = rest /\ c.cb.req = NewReq
  OBVIOUS
<1> HIDE DEF q, c
<1>6. requests'[NewReq] = q
  <2>1. Grows(requests, requests', q)
    BY <1>0, <1>2, <1>4, GrowsShrinks
  <2> QED BY <1>1, <2>1 DEF Grows
<1> QED BY <1>2, <1>3, <1>4, <1>5, <1>6 DEF CalledWith

\* Each method is such a call.
LEMMA MethodCalls ==
  ASSUME TypeOK, Method
  PROVE  \E q, c : Called(q, c)
<1>1. requests \in Seq(RequestType) /\ Len(requests) \in Nat /\ DOMAIN bps \subseteq Nat
  BY TypeParts DEF RequestsType, BpsType, V8Type
<1>2. <<>> \in Seq(Nat) /\ <<Uncaught>> \in Seq(Nat) /\ Tail(<<All, Uncaught>>) = <<Uncaught>>
      /\ Head(<<All, Uncaught>>) = All
  BY DEF Uncaught, All
<1>4. NewReq \in 0..NewReq /\ NewReq # 0
  BY <1>1 DEF NewReq
<1>6. /\ "suspend" \in AllCommands /\ "continue" \in AllCommands
      /\ "setbreakpoint" \in AllCommands /\ "clearbreakpoint" \in AllCommands
      /\ "setexceptionbreak" \in AllCommands /\ "listbreakpoints" \in AllCommands
      /\ "scripts" \in AllCommands /\ "inspect" \in AllCommands /\ "" \in Args
      /\ "suspended" \in AllSteps /\ "continued" \in AllSteps /\ "located" \in AllSteps
      /\ "done" \in AllSteps /\ "evaluated" \in AllSteps /\ "listed" \in AllSteps
      /\ "excepted" \in AllSteps
      /\ FALSE \in BOOLEAN /\ TRUE \in BOOLEAN /\ 0 \in Nat /\ All \in Nat
  BY DEF AllCommands, AllSteps, All, Args
<1>7. CASE Pause
  <2>1. /\ Receive("pause", "") /\ awaiting = 0 /\ awaiting' = NewReq /\ view = "running"
        /\ Send("suspend", 0, FALSE, Callback("suspended", NewReq, <<>>))
    BY <1>2, <1>7 DEF Pause, Believes
  <2>2. PICK q, c : CalledWith(q, c, "pause", "", "suspend", 0, FALSE, "suspended", <<>>)
    BY <1>2, <1>6, <2>1, ReceiveAndSend
  <2>3. CmdFits(c, requests')
    BY <1>4, <2>1, <2>2 DEF CmdFits, CallFits, CalledWith
  <2> QED BY <2>1, <2>2, <2>3 DEF Called, CalledWith, RunControls
<1>8. CASE Resume
  <2>1. PICK flag \in BOOLEAN :
          /\ Receive("resume", "") /\ awaiting = 0 /\ awaiting' = NewReq /\ view = "paused"
          /\ Send("continue", 0, flag, Callback("continued", NewReq, <<>>))
    BY <1>2, <1>8 DEF Resume, Believes
  <2>2. PICK q, c : CalledWith(q, c, "resume", "", "continue", 0, flag, "continued", <<>>)
    BY <1>2, <1>6, <2>1, ReceiveAndSend
  <2>3. CmdFits(c, requests')
    BY <1>4, <2>1, <2>2 DEF CmdFits, CallFits, CalledWith
  <2> QED BY <2>1, <2>2, <2>3 DEF Called, CalledWith, RunControls
<1>9. CASE ContinueToLocation
  <2>1. /\ Receive("continueToLocation", "")
        /\ awaiting = 0 /\ awaiting' = NewReq /\ view = "paused"
        /\ Send("setbreakpoint", 0, TRUE, Callback("located", NewReq, <<>>))
    BY <1>2, <1>9 DEF ContinueToLocation, Believes
  <2>2. PICK q, c : CalledWith(q, c, "continueToLocation", "",
                             "setbreakpoint", 0, TRUE, "located", <<>>)
    BY <1>2, <1>6, <2>1, ReceiveAndSend
  <2>3. CmdFits(c, requests')
    BY <1>4, <2>1, <2>2 DEF CmdFits, CallFits, CalledWith
  <2> QED BY <2>1, <2>2, <2>3 DEF Called, CalledWith, RunControls
<1>10. CASE SetBreakpointByUrl
  <2>1. /\ Receive("setBreakpoint", "") /\ awaiting' = awaiting
        /\ Send("setbreakpoint", 0, TRUE, Callback("done", NewReq, <<>>))
    BY <1>2, <1>10 DEF SetBreakpointByUrl
  <2>2. PICK q, c : CalledWith(q, c, "setBreakpoint", "", "setbreakpoint", 0, TRUE, "done", <<>>)
    BY <1>2, <1>6, <2>1, ReceiveAndSend
  <2>3. CmdFits(c, requests')
    BY <1>4, <2>1, <2>2 DEF CmdFits, CallFits, CalledWith
  <2> QED BY <2>1, <2>2, <2>3 DEF Called, CalledWith, RunControls
<1>11. CASE RemoveBreakpoint
  <2>1. PICK b \in Nat :
          /\ Receive("removeBreakpoint", "") /\ awaiting' = awaiting
          /\ Send("clearbreakpoint", b, FALSE, Callback("done", NewReq, <<>>))
    BY <1>1, <1>11 DEF RemoveBreakpoint
  <2>2. PICK q, c : CalledWith(q, c, "removeBreakpoint", "",
                             "clearbreakpoint", b, FALSE, "done", <<>>)
    BY <1>2, <1>6, <2>1, ReceiveAndSend
  <2>3. CmdFits(c, requests')
    BY <1>4, <2>1, <2>2 DEF CmdFits, CallFits, CalledWith
  <2> QED BY <2>1, <2>2, <2>3 DEF Called, CalledWith, RunControls
<1>12. CASE SetBreakpointsActive
  <2>1. PICK arg \in {"on", "off"} :
          /\ Receive("setBreakpointsActive", arg) /\ awaiting' = awaiting
          /\ Send("listbreakpoints", 0, FALSE, Callback("listed", NewReq, <<>>))
    BY <1>2, <1>12 DEF SetBreakpointsActive
  <2>2. PICK q, c : CalledWith(q, c, "setBreakpointsActive", arg,
                             "listbreakpoints", 0, FALSE, "listed", <<>>)
    <3>1. arg \in Args
      BY DEF Args
    <3> QED BY <3>1, <1>2, <1>6, <2>1, ReceiveAndSend
  <2>3. CmdFits(c, requests')
    BY <1>4, <2>1, <2>2 DEF CmdFits, CallFits, CalledWith
  <2> QED BY <2>1, <2>2, <2>3 DEF Called, CalledWith, RunControls
<1>13. CASE SetPauseOnExceptions
  <2>1. PICK arg \in {"all", "uncaught", "none"}, flag \in BOOLEAN :
          /\ Receive("setPauseOnExceptions", arg) /\ awaiting' = awaiting
          /\ flag = Enables(arg, All)
          /\ Send("setexceptionbreak", All, flag, Callback("excepted", NewReq, <<Uncaught>>))
    BY <1>2, <1>13 DEF SetPauseOnExceptions, NextException, Enables
  <2>2. PICK q, c : CalledWith(q, c, "setPauseOnExceptions", arg,
                             "setexceptionbreak", All, flag, "excepted", <<Uncaught>>)
    <3>1. arg \in Args
      BY DEF Args
    <3>2. /\ Receive("setPauseOnExceptions", arg)
          /\ Send("setexceptionbreak", All, flag, Callback("excepted", NewReq, <<Uncaught>>))
      BY <2>1
    <3>3. /\ "setexceptionbreak" \in AllCommands /\ "excepted" \in AllSteps /\ All \in Nat
          /\ <<Uncaught>> \in Seq(Nat)
      BY <1>2, <1>6
    <3> QED BY TypeOK, <3>1, <3>2, <3>3, ReceiveAndSend
  <2>3. CmdFits(c, requests')
    BY <1>4, <2>1, <2>2 DEF CmdFits, CallFits, CalledWith
  <2> QED BY <2>1, <2>2, <2>3 DEF Called, CalledWith, RunControls
<1>14. CASE GetScriptSource
  <2>1. /\ Receive("getScriptSource", "") /\ awaiting' = awaiting
        /\ Send("scripts", 0, FALSE, Callback("done", NewReq, <<>>))
    BY <1>2, <1>14 DEF GetScriptSource
  <2>2. PICK q, c : CalledWith(q, c, "getScriptSource", "", "scripts", 0, FALSE, "done", <<>>)
    BY <1>2, <1>6, <2>1, ReceiveAndSend
  <2>3. CmdFits(c, requests')
    BY <1>4, <2>1, <2>2 DEF CmdFits, CallFits, CalledWith
  <2> QED BY <2>1, <2>2, <2>3 DEF Called, CalledWith, RunControls
<1>15. CASE Inspect
  <2>1. PICK step \in {"evaluated", "done"} :
          /\ Receive("inspect", "") /\ awaiting' = awaiting
          /\ Send("inspect", 0, FALSE, Callback(step, NewReq, <<>>))
    BY <1>2, <1>15 DEF Inspect
  <2>2. PICK q, c : CalledWith(q, c, "inspect", "", "inspect", 0, FALSE, step, <<>>)
    BY <1>2, <1>6, <2>1, ReceiveAndSend
  <2>3. CmdFits(c, requests')
    BY <1>4, <2>1, <2>2 DEF CmdFits, CallFits, CalledWith
  <2> QED BY <2>1, <2>2, <2>3 DEF Called, CalledWith, RunControls
<1> QED BY <1>7, <1>8, <1>9, <1>10, <1>11, <1>12, <1>13, <1>14, <1>15 DEF Method

\* A call keeps the types.
LEMMA MethodType == TypeOK /\ Method => TypeOK'
<1> SUFFICES ASSUME TypeOK, Method PROVE TypeOK'
  OBVIOUS
<1>1. PICK q, c : Called(q, c)
  BY MethodCalls
<1>2. ClientType /\ V8Type /\ BpsType /\ CmdsType /\ MsgsType /\ OutsType /\ RequestsType
  BY TypeParts
<1>3. /\ q \in RequestType /\ requests' = Append(requests, q)
      /\ c \in CmdType(NewReq) /\ cmds' = Append(cmds, c)
      /\ awaiting' \in {awaiting, NewReq}
      /\ UNCHANGED <<view, slot, out, msgs, v8, stepping, bps, lastBp, exceptionBreak, stops>>
  BY <1>1 DEF Called
<1>4. Len(requests) \in Nat /\ Len(requests') = NewReq /\ RequestsType'
  BY <1>2, <1>3 DEF RequestsType, NewReq
<1>5. lastBp \in Nat /\ NewReq \in Nat /\ Len(requests) <= NewReq
  BY <1>2, <1>4 DEF V8Type, NewReq
<1>6. /\ cmds \in Seq(CmdType(NewReq)) /\ msgs \in Seq(MsgType(NewReq, lastBp))
      /\ out \in Seq(OutType(NewReq))
  BY <1>2, <1>4, <1>5, MoreRequests DEF CmdsType, MsgsType, OutsType
<1>7. CmdsType'
  BY <1>3, <1>4, <1>6 DEF CmdsType
<1>8. MsgsType' /\ OutsType'
  BY <1>3, <1>4, <1>6 DEF MsgsType, OutsType
<1>9. ClientType'
  BY <1>2, <1>3, <1>4, <1>5 DEF ClientType
<1>10. V8Type'
  BY <1>2, <1>3 DEF V8Type
<1>11. BpsType'
  <2>1. [by : 1..Len(requests), enabled : BOOLEAN] \subseteq [by : 1..NewReq, enabled : BOOLEAN]
    BY <1>4, <1>5
  <2> QED BY <1>2, <1>3, <1>4, <2>1 DEF BpsType
<1> QED BY <1>4, <1>7, <1>8, <1>9, <1>10, <1>11, TypePartsNext

\* An answer is put down with its request, and appended to what the front-end
\* reads.
LEMMA AnswerType ==
  ASSUME TypeOK, NEW r \in 0..Len(requests), NEW result \in {"ok", "error"},
         requests' = [requests EXCEPT ![r].answer = result]
  PROVE  /\ RequestsType' /\ Len(requests') = Len(requests)
         /\ DOMAIN requests' = DOMAIN requests
         /\ \A s \in DOMAIN requests :
              /\ requests'[s].kind = requests[s].kind /\ requests'[s].arg = requests[s].arg
              /\ s # r => requests'[s] = requests[s]
              /\ s = r => requests'[s].answer = result
<1>1. requests \in Seq(RequestType)
  BY TypeParts DEF RequestsType
<1>2. CASE r \in DOMAIN requests
  <2>1. PICK q : q = [requests[r] EXCEPT !.answer = result]
    OBVIOUS
  <2>2. requests[r] \in RequestType
    BY <1>1, <1>2
  <2>3. q \in RequestType /\ q.kind = requests[r].kind /\ q.arg = requests[r].arg
        /\ q.answer = result
    BY <2>1, <2>2 DEF RequestType
  <2>4. requests' = [requests EXCEPT ![r] = q]
    BY <1>1, <1>2, <2>1
  <2>5. requests' \in Seq(RequestType) /\ Len(requests') = Len(requests)
        /\ DOMAIN requests' = DOMAIN requests
        /\ \A s \in DOMAIN requests : requests'[s] = IF s = r THEN q ELSE requests[s]
    BY <1>1, <1>2, <2>3, <2>4
  <2> QED BY <2>3, <2>5 DEF RequestsType
<1>3. CASE r \notin DOMAIN requests
  <2>1. requests' = requests
    BY <1>1, <1>3
  <2> QED BY <1>1, <1>3, <2>1 DEF RequestsType
<1> QED BY <1>2, <1>3

\* What an answer leaves of the rest.
LEMMA RestOfCallback ==
  ASSUME TypeOK, OnDebuggerMessage
  PROVE  /\ msgs # <<>> /\ msgs' = Tail(msgs)
         /\ Head(msgs) \in MsgType(Len(requests), lastBp)
         /\ Shrinks(msgs, msgs', Head(msgs))
         /\ UNCHANGED <<view, awaiting, v8, stepping, bps, lastBp, exceptionBreak, stops>>
         /\ msgs' \in Seq(MsgType(Len(requests), lastBp))
<1>1. msgs # <<>> /\ msgs' = Tail(msgs)
      /\ UNCHANGED <<view, awaiting, v8, stepping, bps, lastBp, exceptionBreak, stops>>
  BY DEF OnDebuggerMessage, clientVars, v8Vars
<1>2. msgs \in Seq(MsgType(Len(requests), lastBp))
  BY TypeParts DEF MsgsType
<1> QED BY <1>1, <1>2, GrowsShrinks

\* What a callback may do with the message m.
Sends(c) == c \in CmdType(Len(requests)) /\ CmdFits(c, requests) /\ cmds' = Append(cmds, c)
Answered(r, result) == requests' = [requests EXCEPT ![r].answer = result]

\* What is left of a list when m has come.
Left(m) == IF m.cb.step = "listed" THEN m.body ELSE m.cb.rest

Replies(m) ==
  /\ m.cb.step \in {"done", "evaluated", "listed", "changed", "excepted", "located"}
  /\ \E result \in {"ok", "error"} :
       /\ Answered(m.cb.req, result)
       /\ m.cb.step = "located" => ~m.ok /\ result = "error"
       /\ m.cb.step \in {"listed", "changed", "excepted"} /\ result = "ok" => Left(m) = <<>>
  /\ out' = Append(out, <<"answer", m.cb.req>>)
  /\ UNCHANGED <<cmds, slot>>

AsksOn(m) ==
  /\ Left(m) # <<>>
  /\ \E c : /\ Sends(c) /\ c.cb.req = m.cb.req
            /\ c.id = Head(Left(m)) /\ c.cb.rest = Tail(Left(m))
            /\ \/ m.cb.step \in {"listed", "changed"} /\ c.cb.step = "changed"
               \/ m.cb.step = "excepted" /\ c.cb.step = "excepted"
  /\ UNCHANGED <<requests, out, slot>>

GoesOn(m) ==
  /\ m.cb.step = "located" /\ m.ok
  /\ slot' = m.body[1]
  /\ \E c : Sends(c) /\ c.cb.req = m.cb.req /\ c.cb.step = "continued"
  /\ UNCHANGED <<requests, out>>

Suspends(m) ==
  /\ m.cb.step = "suspended"
  /\ Answered(m.cb.req, "ok") /\ out' = Append(out, <<"answer", m.cb.req>>)
  /\ \E c : Sends(c) /\ c.cb.req = 0 /\ c.cb.step = "paused"
  /\ UNCHANGED slot

Continues(m) ==
  /\ m.cb.step = "continued"
  /\ Answered(m.cb.req, "ok")
  /\ out' = Append(Append(out, <<"answer", m.cb.req>>), <<"resumed", 0>>)
  /\ UNCHANGED <<cmds, slot>>

Stops(m) ==
  /\ m.cb.step = "stopped"
  /\ \E c : /\ Sends(c) /\ c.cb.req = 0
            /\ IF slot = 0 THEN c.cb.step = "paused" ELSE c.cb.step = "cleared" /\ c.id = slot
  /\ UNCHANGED <<requests, out, slot>>

Clears(m) ==
  /\ m.cb.step = "cleared"
  /\ slot' \in {0, slot}
  /\ \E c : Sends(c) /\ c.cb.req = 0 /\ c.cb.step = "paused"
  /\ UNCHANGED <<requests, out>>

Reports(m) ==
  /\ m.cb.step = "paused"
  /\ out' = Append(out, <<"paused", 0>>)
  /\ UNCHANGED <<requests, cmds, slot>>

\* A command about a request that is on its way.
SentAs(c, do, id, flag, step, r, rest) ==
  /\ c \in CmdType(Len(requests)) /\ cmds' = Append(cmds, c)
  /\ c.do = do /\ c.id = id /\ c.flag = flag
  /\ c.cb.step = step /\ c.cb.req = r /\ c.cb.rest = rest

\* Send sends such a command.
LEMMA SendFits ==
  ASSUME TypeOK, NEW do \in AllCommands, NEW id \in Nat, NEW flag \in BOOLEAN,
         NEW step \in AllSteps, NEW r \in 0..Len(requests), NEW rest \in Seq(Nat),
         Send(do, id, flag, Callback(step, r, rest))
  PROVE  \E c : SentAs(c, do, id, flag, step, r, rest)
<1> DEFINE cb == [step |-> step, req |-> r, rest |-> rest]
           c == [do |-> do, id |-> id, flag |-> flag, cb |-> cb]
<1>1. c \in CmdType(Len(requests))
  BY DEF CmdType, CbType
<1>2. /\ cmds' = Append(cmds, c)
      /\ c.do = do /\ c.id = id /\ c.flag = flag
      /\ c.cb.step = step /\ c.cb.req = r /\ c.cb.rest = rest
  BY DEF Send, Callback
<1> HIDE DEF c
<1> QED BY <1>1, <1>2 DEF SentAs

\* FetchCallFrames asks for the frames.
LEMMA FetchSends ==
  ASSUME TypeOK, FetchCallFrames
  PROVE  \E c : Sends(c) /\ c.cb.req = 0 /\ c.cb.step = "paused"
<1>1. "backtrace" \in AllCommands /\ "paused" \in AllSteps /\ <<>> \in Seq(Nat)
      /\ 0 \in 0..Len(requests) /\ FALSE \in BOOLEAN /\ 0 \in Nat
  BY TypeParts DEF AllCommands, AllSteps, RequestsType
<1>2. Send("backtrace", 0, FALSE, Callback("paused", 0, <<>>))
  BY DEF FetchCallFrames
<1>3. PICK c : SentAs(c, "backtrace", 0, FALSE, "paused", 0, <<>>)
  BY <1>1, <1>2, SendFits
<1>4. CmdFits(c, requests)
  BY <1>3 DEF CmdFits, CallFits, SentAs
<1> QED BY <1>3, <1>4 DEF Sends, SentAs

\* Each callback is one of these.
LEMMA Reactions ==
  ASSUME TypeOK, Fits, OnDebuggerMessage, NEW m, m = Head(msgs)
  PROVE  \/ Replies(m) \/ AsksOn(m) \/ GoesOn(m) \/ Suspends(m) \/ Continues(m) \/ Stops(m)
         \/ Clears(m) \/ Reports(m)
<1>1. /\ m \in MsgType(Len(requests), lastBp) /\ MsgFits(m, requests)
      /\ requests \in Seq(RequestType) /\ slot \in Nat
  <2>1. 1 \in DOMAIN msgs /\ msgs[1] = m
    BY RestOfCallback DEF Shrinks
  <2> QED BY <2>1, RestOfCallback, TypeParts DEF Fits, RequestsType, V8Type
<1>2. /\ m.cb.step \in AllSteps /\ m.cb.req \in 0..Len(requests) /\ m.cb.rest \in Seq(Nat)
      /\ m.ok \in BOOLEAN
  BY <1>1 DEF MsgType, CbType
<1>3. m.body \in Seq(Nat)
  <2>1. lastBp \in Nat /\ m.body \in Seq(1..lastBp)
    BY <1>1, TypeParts DEF MsgType, V8Type
  <2> QED BY <2>1, SeqWider
<1>4. ASSUME Answer(m.cb.req, "ok")
      PROVE  Answered(m.cb.req, "ok") /\ out' = Append(out, <<"answer", m.cb.req>>)
  BY <1>4 DEF Answer, Answered
<1>5. ASSUME Answer(m.cb.req, "error")
      PROVE  Answered(m.cb.req, "error") /\ out' = Append(out, <<"answer", m.cb.req>>)
  BY <1>5 DEF Answer, Answered
<1>6. CallFits(m.cb, requests)
  BY <1>1 DEF MsgFits
<1>7. /\ "changebreakpoint" \in AllCommands /\ "setexceptionbreak" \in AllCommands
      /\ "continue" \in AllCommands /\ "clearbreakpoint" \in AllCommands
      /\ "changed" \in AllSteps /\ "excepted" \in AllSteps /\ "continued" \in AllSteps
      /\ "cleared" \in AllSteps
      /\ <<>> \in Seq(Nat) /\ 0 \in Nat /\ FALSE \in BOOLEAN /\ 0 \in 0..Len(requests)
  BY <1>1 DEF AllCommands, AllSteps
<1>8. OnDebuggerMessage =>
        \/ OnSuspended(m) \/ OnContinued(m) \/ OnLocated(m) \/ OnDone(m)
        \/ OnEvaluated(m) \/ OnListed(m) \/ OnChanged(m) \/ OnExcepted(m) \/ OnRefused(m)
        \/ OnStopped(m) \/ OnCleared(m) \/ OnPaused(m)
  BY DEF OnDebuggerMessage
<1>9. CASE OnSuspended(m)
  <2>1. FetchCallFrames /\ m.cb.step = "suspended" /\ Answer(m.cb.req, "ok") /\ UNCHANGED slot
    BY <1>9 DEF OnSuspended
  <2> QED BY <1>4, <2>1, FetchSends DEF Suspends
<1>10. CASE OnContinued(m)
  <2>1. out' = Append(Append(out, <<"answer", m.cb.req>>), <<"resumed", 0>>)
    <3>2. /\ <<"answer", m.cb.req>> \in OutType(Len(requests))
          /\ <<"resumed", 0>> \in OutType(Len(requests))
      BY <1>2, <1>7 DEF OutType
    <3>3. out \in Seq(OutType(Len(requests)))
      BY TypeParts DEF OutsType
    <3>4. out' = out \o << <<"answer", m.cb.req>>, <<"resumed", 0>> >>
      BY <1>10 DEF OnContinued
    <3>5. PICK x, y : x = <<"answer", m.cb.req>> /\ y = <<"resumed", 0>>
      OBVIOUS
    <3>6. out \o <<x, y>> = Append(Append(out, x), y)
      <4>1. x \in OutType(Len(requests)) /\ y \in OutType(Len(requests))
        BY <3>2, <3>5
      <4> QED BY <3>3, <4>1, AppendTwo
    <3> QED BY <3>4, <3>5, <3>6
  <2> QED BY <1>10, <2>1 DEF OnContinued, Continues, Answered
<1>11. CASE OnLocated(m)
  <2>1. /\ m.cb.step = "located" /\ m.ok /\ slot' = Head(m.body) /\ UNCHANGED <<requests, out>>
        /\ Send("continue", 0, FALSE, Callback("continued", m.cb.req, <<>>))
    BY <1>11 DEF OnLocated
  <2>2. PICK c : SentAs(c, "continue", 0, FALSE, "continued", m.cb.req, <<>>)
    BY <1>2, <1>7, <2>1, SendFits
  <2>3. CmdFits(c, requests)
    BY <1>6, <2>1, <2>2 DEF CmdFits, CallFits, SentAs
  <2>4. Head(m.body) = m.body[1]
    BY <1>3
  <2> QED BY <2>1, <2>2, <2>3, <2>4 DEF GoesOn, Sends, SentAs
<1>12. CASE OnDone(m)
  BY <1>4, <1>5, <1>12 DEF OnDone, Replies
<1>13. CASE OnEvaluated(m)
  BY <1>4, <1>13 DEF OnEvaluated, Replies
<1>14. CASE OnListed(m) \/ OnChanged(m)
  <2>1. /\ m.cb.step \in {"listed", "changed"} /\ UNCHANGED slot
        /\ NextChange(m.cb.req, Left(m))
    BY <1>14 DEF OnListed, OnChanged, Left
  <2>2. CASE Left(m) = <<>>
    BY <1>4, <2>1, <2>2 DEF NextChange, Replies
  <2>3. CASE Left(m) # <<>>
    <3>1. PICK flag \in BOOLEAN : /\ flag <=> requests[m.cb.req].arg = "on"
                   /\ Send("changebreakpoint", Head(Left(m)), flag,
                           Callback("changed", m.cb.req, Tail(Left(m))))
      BY <2>1, <2>3 DEF NextChange
    <3>2. UNCHANGED <<requests, out, slot>>
      BY <2>1, <2>3 DEF NextChange
    <3>3. Head(Left(m)) \in Nat /\ Tail(Left(m)) \in Seq(Nat)
      BY <1>2, <1>3, <2>3 DEF Left
    <3>4. PICK c : SentAs(c, "changebreakpoint", Head(Left(m)), flag, "changed", m.cb.req,
                          Tail(Left(m)))
      BY <1>2, <1>7, <3>1, <3>3, SendFits
    <3>5. CmdFits(c, requests)
      BY <1>6, <2>1, <3>1, <3>4 DEF CmdFits, CallFits, SentAs
    <3> QED BY <2>1, <2>3, <3>2, <3>4, <3>5 DEF AsksOn, Sends, SentAs
  <2> QED BY <2>2, <2>3
<1>15. CASE OnExcepted(m)
  <2>1. m.cb.step = "excepted" /\ UNCHANGED slot /\ Left(m) = m.cb.rest
        /\ m.cb.rest \in {<<>>, <<Uncaught>>}
    BY <1>6, <1>15 DEF OnExcepted, Left, CallFits
  <2>2. CASE Left(m) = <<>>
    BY <1>4, <1>15, <2>1, <2>2 DEF OnExcepted, Replies
  <2>3. CASE Left(m) # <<>>
    <3>1. PICK flag \in BOOLEAN : /\ flag <=> Enables(requests[m.cb.req].arg, Head(Left(m)))
                   /\ Send("setexceptionbreak", Head(Left(m)), flag,
                           Callback("excepted", m.cb.req, Tail(Left(m))))
      BY <1>15, <2>1, <2>3 DEF OnExcepted, NextException, Enables
    <3>2. UNCHANGED <<requests, out, slot>>
      BY <1>15, <2>1, <2>3 DEF OnExcepted
    <3>3. Head(Left(m)) = Uncaught /\ Tail(Left(m)) = <<>> /\ Uncaught \in Nat
      <4>1. \A x : Head(<<x>>) = x /\ Tail(<<x>>) = <<>>
        OBVIOUS
      <4>2. Left(m) = <<Uncaught>> /\ Uncaught \in Nat
        BY <2>1, <2>3 DEF Uncaught
      <4> QED BY <4>1, <4>2
    <3>4. PICK c : SentAs(c, "setexceptionbreak", Head(Left(m)), flag, "excepted", m.cb.req,
                          Tail(Left(m)))
      BY <1>2, <1>7, <3>1, <3>3, SendFits
    <3>5. CmdFits(c, requests)
      <4>1. c.do = "setexceptionbreak" /\ c.id = Uncaught /\ c.cb.step = "excepted"
            /\ c.cb.rest = <<>> /\ c.cb.req = m.cb.req /\ All # Uncaught
        BY <3>3, <3>4 DEF SentAs, All, Uncaught
      <4>2. c.flag <=> Enables(requests[c.cb.req].arg, c.id)
        BY <3>1, <3>3, <3>4, <4>1 DEF SentAs
      <4>3. CallFits(c.cb, requests)
        BY <1>6, <2>1, <4>1 DEF CallFits
      <4> QED BY <4>1, <4>2, <4>3 DEF CmdFits
    <3> QED BY <2>1, <2>3, <3>2, <3>4, <3>5 DEF AsksOn, Sends, SentAs
  <2> QED BY <2>2, <2>3
<1>16. CASE OnRefused(m)
  <2>1. m.cb.step \in {"located", "changed"} /\ ~m.ok /\ Answer(m.cb.req, "error")
        /\ UNCHANGED <<cmds, slot>>
    BY <1>16 DEF OnRefused
  <2> QED BY <1>5, <2>1 DEF Replies
<1>17. CASE OnStopped(m)
  <2>1. m.cb.step = "stopped" /\ UNCHANGED <<slot, requests, out>>
    BY <1>17 DEF OnStopped
  <2>2. CASE slot = 0
    BY <1>17, <2>1, <2>2, FetchSends DEF OnStopped, Stops
  <2>3. CASE slot # 0
    <3>1. Send("clearbreakpoint", slot, FALSE, Callback("cleared", 0, <<>>))
      BY <1>17, <2>3 DEF OnStopped
    <3>2. PICK c : SentAs(c, "clearbreakpoint", slot, FALSE, "cleared", 0, <<>>)
      BY <1>1, <1>7, <3>1, SendFits
    <3>3. CmdFits(c, requests)
      BY <3>2 DEF CmdFits, CallFits, SentAs
    <3> QED BY <2>1, <2>3, <3>2, <3>3 DEF Stops, Sends, SentAs
  <2> QED BY <2>2, <2>3
<1>18. CASE OnCleared(m)
  BY <1>18, FetchSends DEF OnCleared, Clears
<1>19. CASE OnPaused(m)
  BY <1>19 DEF OnPaused, Reports
<1> QED BY <1>8, <1>9, <1>10, <1>11, <1>12, <1>13, <1>14, <1>15, <1>16, <1>17, <1>18, <1>19

\* The callbacks keep the types.
LEMMA CallbacksType == TypeOK /\ Fits /\ OnDebuggerMessage => TypeOK'
<1> SUFFICES ASSUME TypeOK, Fits, OnDebuggerMessage PROVE TypeOK'
  OBVIOUS
<1>0. PICK m : m = Head(msgs)
  OBVIOUS
<1>1. ClientType /\ V8Type /\ BpsType /\ CmdsType /\ MsgsType /\ OutsType /\ RequestsType
  BY TypeParts
<1>2. /\ m \in MsgType(Len(requests), lastBp) /\ MsgFits(m, requests)
      /\ UNCHANGED <<view, awaiting, v8, stepping, bps, lastBp, exceptionBreak, stops>>
      /\ msgs' \in Seq(MsgType(Len(requests), lastBp))
  BY <1>0, RestOfCallback DEF Fits, Shrinks
<1>3. m.cb.req \in 0..Len(requests) /\ 0 \in 0..Len(requests) /\ m.body \in Seq(1..lastBp)
  BY <1>1, <1>2 DEF MsgType, CbType, RequestsType
<1>4. slot' \in 0..lastBp =>  V8Type'
  BY <1>1, <1>2 DEF V8Type
<1>5. ASSUME Len(requests') = Len(requests), RequestsType', slot' \in 0..lastBp,
             cmds' = cmds \/ \E c \in CmdType(Len(requests)) : cmds' = Append(cmds, c),
             OutsType'
      PROVE  TypeOK'
  <2>1. CmdsType'
    BY <1>1, <1>5 DEF CmdsType
  <2>2. ClientType' /\ BpsType' /\ MsgsType'
    BY <1>1, <1>2, <1>5 DEF ClientType, BpsType, MsgsType
  <2> QED BY <1>4, <1>5, <2>1, <2>2, TypePartsNext
<1>6. slot \in 0..lastBp /\ 0 \in 0..lastBp
  BY <1>1 DEF V8Type
<1>7. \A x \in OutType(Len(requests)) : Append(out, x) \in Seq(OutType(Len(requests)))
  BY <1>1 DEF OutsType
<1>8. ASSUME NEW result \in {"ok", "error"}, Answered(m.cb.req, result)
      PROVE  RequestsType' /\ Len(requests') = Len(requests)
  BY <1>3, <1>8, AnswerType DEF Answered
<1>9. /\ <<"answer", m.cb.req>> \in OutType(Len(requests))
      /\ <<"resumed", 0>> \in OutType(Len(requests))
      /\ <<"paused", 0>> \in OutType(Len(requests))
  BY <1>3 DEF OutType
<1>10. CASE Replies(m)
  <2>1. RequestsType' /\ Len(requests') = Len(requests) /\ cmds' = cmds /\ slot' = slot
        /\ out' = Append(out, <<"answer", m.cb.req>>)
    BY <1>8, <1>10 DEF Replies
  <2>2. OutsType'
    BY <1>7, <1>9, <2>1 DEF OutsType
  <2> QED BY <1>5, <1>6, <2>1, <2>2
<1>11. CASE AsksOn(m) \/ Stops(m) \/ Clears(m)
  <2>1. /\ requests' = requests /\ out' = out /\ slot' \in {0, slot}
        /\ \E c \in CmdType(Len(requests)) : cmds' = Append(cmds, c)
    BY <1>11 DEF AsksOn, Stops, Clears, Sends
  <2>2. OutsType' /\ RequestsType'
    BY <1>1, <2>1 DEF OutsType, RequestsType
  <2> QED BY <1>5, <1>6, <2>1, <2>2
<1>12. CASE GoesOn(m)
  <2>1. /\ requests' = requests /\ out' = out /\ slot' = m.body[1]
        /\ \E c \in CmdType(Len(requests)) : cmds' = Append(cmds, c)
    BY <1>12 DEF GoesOn, Sends
  <2>2. OutsType' /\ RequestsType'
    BY <1>1, <2>1 DEF OutsType, RequestsType
  <2>3. m.body[1] \in 1..lastBp /\ lastBp \in Nat
    BY <1>1, <1>2, <1>3, <1>12 DEF GoesOn, MsgFits, V8Type
  <2>4. slot' \in 0..lastBp
    BY <2>1, <2>3
  <2> QED BY <1>5, <2>1, <2>2, <2>4
<1>13. CASE Suspends(m)
  <2>1. RequestsType' /\ Len(requests') = Len(requests) /\ slot' = slot
        /\ out' = Append(out, <<"answer", m.cb.req>>)
        /\ \E c \in CmdType(Len(requests)) : cmds' = Append(cmds, c)
    BY <1>8, <1>13 DEF Suspends, Sends
  <2>2. OutsType'
    BY <1>7, <1>9, <2>1 DEF OutsType
  <2> QED BY <1>5, <1>6, <2>1, <2>2
<1>14. CASE Continues(m)
  <2>1. RequestsType' /\ Len(requests') = Len(requests) /\ slot' = slot /\ cmds' = cmds
        /\ out' = Append(Append(out, <<"answer", m.cb.req>>), <<"resumed", 0>>)
    BY <1>8, <1>14 DEF Continues
  <2>2. OutsType'
    BY <1>7, <1>9, <2>1 DEF OutsType
  <2> QED BY <1>5, <1>6, <2>1, <2>2
<1>15. CASE Reports(m)
  <2>1. requests' = requests /\ slot' = slot /\ cmds' = cmds /\ out' = Append(out, <<"paused", 0>>)
    BY <1>15 DEF Reports
  <2>2. OutsType' /\ RequestsType'
    BY <1>1, <1>7, <1>9, <2>1 DEF OutsType, RequestsType
  <2> QED BY <1>5, <1>6, <2>1, <2>2
<1> QED BY <1>0, <1>10, <1>11, <1>12, <1>13, <1>14, <1>15, Reactions

\* The front-end reads.
LEMMA ReadType == TypeOK /\ Read => TypeOK'
<1> SUFFICES ASSUME TypeOK, Read PROVE TypeOK'
  OBVIOUS
<1>1. ClientType /\ V8Type /\ BpsType /\ CmdsType /\ MsgsType /\ OutsType /\ RequestsType
  BY TypeParts
<1>2. out # <<>> /\ out' = Tail(out)
      /\ UNCHANGED <<slot, cmds, msgs, v8, stepping, bps, lastBp, exceptionBreak, stops, requests>>
  BY DEF Read, v8Vars
<1>3. OutsType'
  BY <1>1, <1>2, GrowsShrinks DEF OutsType
<1>4. ClientType'
  <2>1. view' \in {"running", "paused"} /\ awaiting' \in {0, awaiting}
    BY <1>1 DEF Read, ClientType
  <2> QED BY <1>1, <1>2, <2>1 DEF ClientType, RequestsType
<1>5. V8Type' /\ BpsType' /\ CmdsType' /\ MsgsType' /\ RequestsType'
  BY <1>1, <1>2 DEF V8Type, BpsType, CmdsType, MsgsType, RequestsType
<1> QED BY <1>3, <1>4, <1>5, TypePartsNext

------------------------------------------------------------------------------
(* V8 serves a command.                                                      *)

\* What becomes of the breakpoints.
BpsAfter(c, m) ==
  /\ c.do = "setbreakpoint" /\ m.ok =>
       /\ lastBp' = lastBp + 1 /\ m.body = <<lastBp'>>
       /\ DOMAIN bps' = DOMAIN bps \cup {lastBp'} /\ lastBp' \notin DOMAIN bps
       /\ bps'[lastBp'].by = c.cb.req
       /\ \A b \in DOMAIN bps : bps'[b] = bps[b]
  /\ ~(c.do = "setbreakpoint" /\ m.ok) =>
       /\ lastBp' = lastBp
       /\ DOMAIN bps' = DOMAIN bps \ (IF c.do = "clearbreakpoint" THEN {c.id} ELSE {})
       /\ \A b \in DOMAIN bps' :
            /\ bps'[b].by = bps[b].by
            /\ bps'[b].enabled = IF c.do = "changebreakpoint" /\ b = c.id THEN c.flag
                                                                          ELSE bps[b].enabled

\* m is V8's response to c.
Outcome(c, m) ==
  /\ m \in MsgType(Len(requests), lastBp')
  /\ m.cb = c.cb
  /\ v8' = IF c.do = "suspend" THEN "waiting" ELSE IF c.do = "continue" THEN "serving" ELSE v8
  /\ BpsAfter(c, m)
  /\ exceptionBreak' = IF c.do = "setexceptionbreak"
                       THEN [exceptionBreak EXCEPT ![c.id] = c.flag] ELSE exceptionBreak
  /\ c.do = "changebreakpoint" => m.ok \/ c.id \notin DOMAIN bps
  /\ c.do = "listbreakpoints" =>
       /\ m.body \in [1..Cardinality(DOMAIN bps) -> DOMAIN bps]
       /\ \A i, j \in DOMAIN m.body : i < j => m.body[i] < m.body[j]

\* The first command is answered by a message at the end.
LEMMA Served ==
  ASSUME TypeOK, Fits, ServeCommand
  PROVE  /\ cmds # <<>> /\ cmds' = Tail(cmds) /\ v8 # "program"
         /\ UNCHANGED <<view, awaiting, slot, out, stops, requests>>
         /\ V8Type' /\ BpsType'
         /\ \E m : msgs' = Append(msgs, m) /\ Outcome(Head(cmds), m)
<1>0. PICK c : c = Head(cmds)
  OBVIOUS
<1>1. ClientType /\ V8Type /\ BpsType /\ CmdsType /\ MsgsType /\ OutsType /\ RequestsType
  BY TypeParts
<1>2. cmds # <<>> /\ cmds' = Tail(cmds) /\ v8 # "program"
      /\ UNCHANGED <<view, awaiting, slot, out, stops, requests>>
  BY DEF ServeCommand, clientVars
<1>3. c \in CmdType(Len(requests)) /\ CmdFits(c, requests)
  BY <1>0, <1>1, <1>2, GrowsShrinks DEF CmdsType, Shrinks, Fits
<1>4. /\ c.cb \in CbType(Len(requests)) /\ c.do \in AllCommands /\ c.flag \in BOOLEAN
      /\ c.id \in Nat /\ c.cb.req \in 0..Len(requests)
      /\ c.do = "setbreakpoint" => c.cb.req \in 1..Len(requests)
      /\ lastBp \in Nat /\ DOMAIN bps \subseteq 1..lastBp
      /\ Len(requests) \in Nat
  BY <1>1, <1>3 DEF CmdType, CbType, CmdFits, CallFits, V8Type, BpsType, RequestsType
<1> DEFINE R(ok, body) == [cb |-> c.cb, ok |-> ok, body |-> body]
<1>5. ASSUME NEW ok \in BOOLEAN, NEW l \in Nat, NEW body \in Seq(1..l)
      PROVE  /\ R(ok, body) \in MsgType(Len(requests), l)
             /\ R(ok, body).cb = c.cb /\ (R(ok, body).ok <=> ok) /\ R(ok, body).body = body
  BY <1>4, <1>5 DEF MsgType
<1>6. ASSUME NEW ok, NEW body, Respond(c, ok, body) PROVE msgs' = Append(msgs, R(ok, body))
  BY <1>6 DEF Respond
<1> HIDE DEF R
<1>7. <<>> \in Seq(1..lastBp)
  OBVIOUS
<1>19. ASSUME NEW ok \in BOOLEAN, Respond(c, ok, <<>>)
       PROVE  /\ msgs' = Append(msgs, R(ok, <<>>))
              /\ R(ok, <<>>) \in MsgType(Len(requests), lastBp) /\ R(ok, <<>>).cb = c.cb
              /\ R(ok, <<>>).ok <=> ok
  <2>1. msgs' = Append(msgs, R(ok, <<>>))
    BY <1>6, <1>19
  <2>2. lastBp \in Nat
    BY <1>4
  <2>3. /\ R(ok, <<>>) \in MsgType(Len(requests), lastBp)
        /\ R(ok, <<>>).cb = c.cb /\ (R(ok, <<>>).ok <=> ok)
    BY <1>5, <1>7, <1>19, <2>2
  <2> QED BY <2>1, <2>3
<1> SUFFICES V8Type' /\ BpsType' /\ \E m : msgs' = Append(msgs, m) /\ Outcome(c, m)
  BY <1>0, <1>2
<1>8. ASSUME UNCHANGED <<bps, lastBp>> PROVE BpsType'
  BY <1>1, <1>2, <1>8 DEF BpsType
<1>9. ASSUME v8' \in {"program", "serving", "waiting"}, stepping' \in BOOLEAN,
             lastBp' \in {lastBp, lastBp + 1},
             exceptionBreak' \in [{All, Uncaught} -> BOOLEAN]
      PROVE  V8Type'
  <2>1. slot \in 0..lastBp' /\ lastBp' \in Nat
    BY <1>1, <1>4, <1>9 DEF V8Type
  <2> QED BY <1>1, <1>2, <1>9, <2>1 DEF V8Type
<1>10. /\ v8 \in {"program", "serving", "waiting"} /\ stepping \in BOOLEAN
       /\ exceptionBreak \in [{All, Uncaught} -> BOOLEAN]
  BY <1>1 DEF V8Type
<1>11. \/ RunControl(c) \/ SetBreakpoint(c) \/ ClearBreakpoint(c)
       \/ ChangeBreakpoint(c) \/ SetExceptionBreak(c) \/ Look(c)
  BY <1>0 DEF ServeCommand
<1>12. CASE RunControl(c)
  <2>1. PICK m : m = R(TRUE, <<>>)
    OBVIOUS
  <2>2. /\ msgs' = Append(msgs, m) /\ m \in MsgType(Len(requests), lastBp) /\ m.cb = c.cb
    <3>1. Respond(c, TRUE, <<>>)
      BY <1>12 DEF RunControl
    <3> QED BY <1>19, <2>1, <3>1
  <2>3. /\ c.do \in {"suspend", "continue"} /\ UNCHANGED <<bps, lastBp, exceptionBreak>>
        /\ v8' = IF c.do = "suspend" THEN "waiting" ELSE "serving"
        /\ stepping' \in BOOLEAN
    BY <1>4, <1>10, <1>12 DEF RunControl
  <2>4. BpsAfter(c, m)
    BY <2>3 DEF BpsAfter
  <2>5. Outcome(c, m)
    BY <2>2, <2>3, <2>4 DEF Outcome
  <2> QED BY <1>8, <1>9, <1>10, <2>2, <2>3, <2>5
<1>13. CASE SetBreakpoint(c)
  <2>1. c.do = "setbreakpoint" /\ UNCHANGED <<v8, stepping, exceptionBreak>>
    BY <1>13 DEF SetBreakpoint
  <2>2. CASE UNCHANGED <<lastBp, bps>> /\ Respond(c, FALSE, <<>>)
    <3>1. PICK m : m = R(FALSE, <<>>)
      OBVIOUS
    <3>2. /\ msgs' = Append(msgs, m) /\ m \in MsgType(Len(requests), lastBp) /\ m.cb = c.cb
          /\ ~m.ok
      BY <1>19, <2>2, <3>1
    <3>3. BpsAfter(c, m)
      BY <2>1, <2>2, <3>2 DEF BpsAfter
    <3>4. Outcome(c, m)
      BY <2>1, <2>2, <3>2, <3>3 DEF Outcome
    <3> QED BY <1>8, <1>9, <1>10, <2>1, <2>2, <3>2, <3>4
  <2>3. CASE /\ lastBp' = lastBp + 1
             /\ bps' = [b \in DOMAIN bps \cup {lastBp'} |->
                          IF b = lastBp' THEN [by |-> c.cb.req, enabled |-> TRUE] ELSE bps[b]]
             /\ Respond(c, TRUE, <<lastBp'>>)
    <3>0. PICK l \in Nat : l = lastBp + 1
      BY <1>4
    <3>1. PICK m : m = R(TRUE, <<l>>)
      OBVIOUS
    <3>2. /\ msgs' = Append(msgs, m) /\ m \in MsgType(Len(requests), l) /\ m.cb = c.cb
          /\ m.body = <<l>> /\ m.ok
      <4>1. <<l>> \in Seq(1..l)
        BY <1>4, <3>0
      <4>2. Respond(c, TRUE, <<l>>)
        BY <2>3, <3>0
      <4>3. msgs' = Append(msgs, m)
        BY <1>6, <3>1, <4>2
      <4>4. TRUE \in BOOLEAN
        OBVIOUS
      <4>5. /\ m \in MsgType(Len(requests), l) /\ m.cb = c.cb
            /\ m.body = <<l>> /\ m.ok
        BY <1>5, <3>1, <4>1, <4>4
      <4> QED BY <4>3, <4>5
    <3>3. /\ lastBp' = l /\ l \notin DOMAIN bps /\ DOMAIN bps' = DOMAIN bps \cup {l}
          /\ bps'[l] = [by |-> c.cb.req, enabled |-> TRUE]
          /\ \A b \in DOMAIN bps : bps'[b] = bps[b]
      BY <1>4, <2>3, <3>0
    <3>4. BpsAfter(c, m)
      BY <2>1, <3>0, <3>2, <3>3 DEF BpsAfter
    <3>5. Outcome(c, m)
      BY <2>1, <3>2, <3>3, <3>4 DEF Outcome
    <3>6. BpsType'
      <4>1. [by |-> c.cb.req, enabled |-> TRUE] \in [by : 1..Len(requests), enabled : BOOLEAN]
        BY <1>4, <2>1
      <4>2. \A b \in DOMAIN bps' : bps'[b] \in [by : 1..Len(requests), enabled : BOOLEAN]
        BY <1>1, <3>3, <4>1 DEF BpsType
      <4>3. DOMAIN bps' \subseteq 1..l
        BY <1>4, <3>0, <3>3
      <4> QED BY <1>2, <3>3, <4>2, <4>3 DEF BpsType
    <3> QED BY <1>9, <1>10, <2>1, <2>3, <3>2, <3>5, <3>6
  <2> QED BY <1>13, <2>2, <2>3 DEF SetBreakpoint
<1>14. ASSUME RespondAbout(c.id, c)
       PROVE  \E m : /\ msgs' = Append(msgs, m) /\ m \in MsgType(Len(requests), lastBp)
                     /\ m.cb = c.cb /\ (m.ok \/ c.id \notin DOMAIN bps)
  <2>1. PICK ok \in BOOLEAN : (ok \/ c.id \notin DOMAIN bps) /\ Respond(c, ok, <<>>)
    BY <1>14 DEF RespondAbout
  <2>2. PICK m : m = R(ok, <<>>)
    OBVIOUS
  <2>3. msgs' = Append(msgs, m) /\ m \in MsgType(Len(requests), lastBp) /\ m.cb = c.cb
    <3>1. Respond(c, ok, <<>>)
      BY <2>1
    <3> QED BY <1>19, <2>2, <3>1
  <2>4. m.ok <=> ok
    BY <1>19, <2>1, <2>2
  <2> QED BY <2>1, <2>3, <2>4
<1>15. CASE ClearBreakpoint(c)
  <2>1. PICK m : /\ msgs' = Append(msgs, m) /\ m \in MsgType(Len(requests), lastBp)
                 /\ m.cb = c.cb
    BY <1>14, <1>15 DEF ClearBreakpoint
  <2>2. /\ c.do = "clearbreakpoint" /\ UNCHANGED <<v8, stepping, lastBp, exceptionBreak>>
        /\ bps' = [b \in DOMAIN bps \ {c.id} |-> bps[b]]
    BY <1>15 DEF ClearBreakpoint, Restrict
  <2>3. BpsAfter(c, m)
    BY <2>2 DEF BpsAfter
  <2>4. Outcome(c, m)
    BY <2>1, <2>2, <2>3 DEF Outcome
  <2>5. BpsType'
    BY <1>1, <1>2, <2>2 DEF BpsType
  <2> QED BY <1>9, <1>10, <2>1, <2>2, <2>4, <2>5
<1>16. CASE ChangeBreakpoint(c)
  <2>1. PICK m : /\ msgs' = Append(msgs, m) /\ m \in MsgType(Len(requests), lastBp)
                 /\ m.cb = c.cb /\ (m.ok \/ c.id \notin DOMAIN bps)
    BY <1>14, <1>16 DEF ChangeBreakpoint
  <2>2. /\ c.do = "changebreakpoint" /\ UNCHANGED <<v8, stepping, lastBp, exceptionBreak>>
        /\ bps' = [b \in DOMAIN bps |->
                     IF b = c.id THEN [bps[b] EXCEPT !.enabled = c.flag] ELSE bps[b]]
    BY <1>16 DEF ChangeBreakpoint
  <2>3. /\ DOMAIN bps' = DOMAIN bps
        /\ \A b \in DOMAIN bps : /\ bps[b] \in [by : 1..Len(requests), enabled : BOOLEAN]
                                 /\ bps'[b] = IF b = c.id THEN [bps[b] EXCEPT !.enabled = c.flag]
                                                          ELSE bps[b]
    BY <1>1, <2>2 DEF BpsType
  <2>4. \A b \in DOMAIN bps :
          /\ bps'[b] \in [by : 1..Len(requests), enabled : BOOLEAN]
          /\ bps'[b].by = bps[b].by
          /\ bps'[b].enabled = IF b = c.id THEN c.flag ELSE bps[b].enabled
    BY <1>4, <2>3
  <2>5. BpsAfter(c, m)
    BY <2>2, <2>3, <2>4 DEF BpsAfter
  <2>6. Outcome(c, m)
    BY <2>1, <2>2, <2>5 DEF Outcome
  <2>7. BpsType'
    BY <1>1, <1>2, <2>2, <2>3, <2>4 DEF BpsType
  <2> QED BY <1>9, <1>10, <2>1, <2>2, <2>6, <2>7
<1>17. CASE SetExceptionBreak(c)
  <2>1. PICK m : m = R(TRUE, <<>>)
    OBVIOUS
  <2>2. /\ msgs' = Append(msgs, m) /\ m \in MsgType(Len(requests), lastBp) /\ m.cb = c.cb
    BY <1>17, <1>19, <2>1 DEF SetExceptionBreak
  <2>3. /\ c.do = "setexceptionbreak" /\ UNCHANGED <<v8, stepping, bps, lastBp>>
        /\ exceptionBreak' = [exceptionBreak EXCEPT ![c.id] = c.flag]
    BY <1>17 DEF SetExceptionBreak
  <2>4. exceptionBreak' \in [{All, Uncaught} -> BOOLEAN]
    BY <1>4, <1>10, <2>3
  <2>5. BpsAfter(c, m)
    BY <2>3 DEF BpsAfter
  <2>6. Outcome(c, m)
    BY <2>2, <2>3, <2>5 DEF Outcome
  <2> QED BY <1>8, <1>9, <1>10, <2>2, <2>3, <2>4, <2>6
<1>18. CASE Look(c)
  <2>1. /\ c.do \in {"listbreakpoints", "backtrace", "scripts", "inspect"}
        /\ UNCHANGED <<v8, stepping, bps, lastBp, exceptionBreak>>
    BY <1>18 DEF Look
  <2>2. \E m : /\ msgs' = Append(msgs, m) /\ m \in MsgType(Len(requests), lastBp) /\ m.cb = c.cb
               /\ c.do = "listbreakpoints" =>
                    /\ m.body \in [1..Cardinality(DOMAIN bps) -> DOMAIN bps]
                    /\ \A i, j \in DOMAIN m.body : i < j => m.body[i] < m.body[j]
    <3>1. CASE c.do # "listbreakpoints"
      <4>1. PICK ok \in BOOLEAN : Respond(c, ok, <<>>)
        BY <1>18, <3>1 DEF Look
      <4>2. PICK m : m = R(ok, <<>>)
        OBVIOUS
      <4>3. msgs' = Append(msgs, m) /\ m \in MsgType(Len(requests), lastBp) /\ m.cb = c.cb
        BY <1>19, <4>1, <4>2
      <4> QED BY <3>1, <4>3
    <3>2. CASE c.do = "listbreakpoints"
      <4>1. PICK list \in [1..Cardinality(DOMAIN bps) -> DOMAIN bps] :
              /\ \A i, j \in DOMAIN list : i < j => list[i] < list[j]
              /\ Respond(c, TRUE, list)
        BY <1>18, <3>2 DEF Look
      <4>2. list \in Seq(1..lastBp)
        <5>1. Cardinality(DOMAIN bps) \in Nat
          <6>1. IsFiniteSet(1..lastBp)
            BY <1>4, FS_Interval
          <6> QED BY <1>4, <6>1, FS_Subset, FS_CardinalityType
        <5>2. PICK n \in Nat : n = Cardinality(DOMAIN bps)
          BY <5>1
        <5>3. list \in [1..n -> 1..lastBp]
          BY <1>4, <5>2
        <5> QED BY <5>3, FunctionSeq
      <4>3. PICK m : m = R(TRUE, list)
        OBVIOUS
      <4>4. msgs' = Append(msgs, m) /\ m \in MsgType(Len(requests), lastBp) /\ m.cb = c.cb
            /\ m.body = list
        BY <1>4, <1>5, <1>6, <4>1, <4>2, <4>3
      <4> QED BY <4>1, <4>4
    <3> QED BY <3>1, <3>2
  <2>3. PICK m : /\ msgs' = Append(msgs, m) /\ m \in MsgType(Len(requests), lastBp)
                 /\ m.cb = c.cb
                 /\ c.do = "listbreakpoints" =>
                      /\ m.body \in [1..Cardinality(DOMAIN bps) -> DOMAIN bps]
                      /\ \A i, j \in DOMAIN m.body : i < j => m.body[i] < m.body[j]
    BY <2>2
  <2>4. BpsAfter(c, m)
    BY <2>1 DEF BpsAfter
  <2>5. Outcome(c, m)
    BY <2>1, <2>3, <2>4 DEF Outcome
  <2> QED BY <1>8, <1>9, <1>10, <2>1, <2>3, <2>5
<1> QED BY <1>11, <1>12, <1>13, <1>15, <1>16, <1>17, <1>18

\* V8's steps keep the types.
LEMMA V8Types == TypeOK /\ Fits /\ (V8 \/ Stop) => TypeOK'
<1> SUFFICES ASSUME TypeOK, Fits, V8 \/ Stop PROVE TypeOK'
  OBVIOUS
<1>1. /\ ClientType /\ V8Type /\ BpsType /\ CmdsType /\ MsgsType /\ OutsType /\ RequestsType
      /\ Len(requests) \in Nat /\ lastBp \in Nat
  BY TypeParts DEF RequestsType, V8Type
<1>2. CASE ServeCommand
  <2>1. /\ cmds # <<>> /\ cmds' = Tail(cmds)
        /\ UNCHANGED <<view, awaiting, slot, out, stops, requests>>
        /\ V8Type' /\ BpsType'
        /\ \E m : msgs' = Append(msgs, m) /\ Outcome(Head(cmds), m)
    BY <1>2, Served
  <2>2. PICK m : msgs' = Append(msgs, m) /\ m \in MsgType(Len(requests), lastBp')
                 /\ lastBp' \in {lastBp, lastBp + 1}
    BY <2>1 DEF Outcome, BpsAfter
  <2>3. MsgsType'
    <3>1. PICK l \in Nat : l = lastBp' /\ lastBp <= l
      BY <1>1, <2>2
    <3>2. msgs \in Seq(MsgType(Len(requests), l))
      BY <1>1, <3>1, MoreRequests DEF MsgsType
    <3> QED BY <2>1, <2>2, <3>1, <3>2 DEF MsgsType
  <2>4. CmdsType'
    BY <1>1, <2>1, GrowsShrinks DEF CmdsType
  <2>5. ClientType' /\ OutsType' /\ RequestsType'
    BY <1>1, <2>1 DEF ClientType, OutsType, RequestsType
  <2> QED BY <2>1, <2>3, <2>4, <2>5, TypePartsNext
<1>3. CASE EnterDebugger \/ LeaveDebugger
  <2>1. /\ UNCHANGED <<view, awaiting, slot, out, cmds, msgs, stepping, bps, lastBp,
                       exceptionBreak, stops, requests>>
        /\ v8' \in {"program", "serving"}
    BY <1>3 DEF EnterDebugger, LeaveDebugger, clientVars
  <2>2. V8Type'
    BY <1>1, <2>1 DEF V8Type
  <2> QED BY <1>1, <2>1, <2>2, TypePartsNext
          DEF ClientType, BpsType, CmdsType, MsgsType, OutsType, RequestsType
<1>4. CASE Stop
  <2>1. PICK m : m = [cb |-> Callback("stopped", 0, <<>>), ok |-> TRUE, body |-> <<>>]
    OBVIOUS
  <2>2. /\ UNCHANGED <<view, awaiting, slot, out, cmds, bps, lastBp, exceptionBreak, requests>>
        /\ v8' = "waiting" /\ stepping' \in BOOLEAN /\ stops' = stops + 1
        /\ msgs' = Append(msgs, m)
    BY <1>4, <2>1 DEF Stop, clientVars
  <2>3. m \in MsgType(Len(requests), lastBp)
    <3>1. <<>> \in Seq(Nat) /\ <<>> \in Seq(1..lastBp) /\ "stopped" \in AllSteps
          /\ 0 \in 0..Len(requests)
      BY <1>1 DEF AllSteps
    <3> QED BY <2>1, <3>1 DEF MsgType, CbType, Callback
  <2>4. MsgsType'
    BY <1>1, <2>2, <2>3 DEF MsgsType
  <2>5. V8Type'
    BY <1>1, <2>2 DEF V8Type
  <2> QED BY <1>1, <2>2, <2>4, <2>5, TypePartsNext
          DEF ClientType, BpsType, CmdsType, OutsType, RequestsType
<1> QED BY <1>2, <1>3, <1>4 DEF V8

------------------------------------------------------------------------------
(* Commands and messages fit their requests.                                 *)

\* The method and argument of a request do not change.
LEMMA FitsKept ==
  ASSUME NEW a, NEW b, \A r \in DOMAIN a : b[r].kind = a[r].kind /\ b[r].arg = a[r].arg
  PROVE  /\ \A c : CmdFits(c, a) /\ (c.cb.req = 0 \/ c.cb.req \in DOMAIN a) => CmdFits(c, b)
         /\ \A m : MsgFits(m, a) /\ (m.cb.req = 0 \/ m.cb.req \in DOMAIN a) => MsgFits(m, b)
<1>1. ASSUME NEW cb, CallFits(cb, a), cb.req = 0 \/ cb.req \in DOMAIN a
      PROVE  CallFits(cb, b)
  BY <1>1 DEF CallFits
<1>2. ASSUME NEW c, CmdFits(c, a), c.cb.req = 0 \/ c.cb.req \in DOMAIN a
      PROVE  CmdFits(c, b)
  <2>1. CallFits(c.cb, b)
    BY <1>1, <1>2 DEF CmdFits
  <2> QED BY <1>2, <2>1 DEF CmdFits, CallFits
<1>3. ASSUME NEW m, MsgFits(m, a), m.cb.req = 0 \/ m.cb.req \in DOMAIN a
      PROVE  MsgFits(m, b)
  BY <1>1, <1>3 DEF MsgFits
<1> QED BY <1>2, <1>3

\* What there is on its way names a request, or none.
LEMMA Named ==
  ASSUME TypeOK
  PROVE  /\ \A k \in DOMAIN cmds : cmds[k].cb.req = 0 \/ cmds[k].cb.req \in DOMAIN requests
         /\ \A k \in DOMAIN msgs : msgs[k].cb.req = 0 \/ msgs[k].cb.req \in DOMAIN requests
<1>1. /\ cmds \in Seq(CmdType(Len(requests))) /\ msgs \in Seq(MsgType(Len(requests), lastBp))
      /\ DOMAIN requests = 1..Len(requests) /\ Len(requests) \in Nat
  BY TypeParts DEF CmdsType, MsgsType, RequestsType
<1>2. \A k \in DOMAIN cmds : cmds[k].cb.req \in 0..Len(requests)
  <2>1. \A k \in DOMAIN cmds : cmds[k] \in CmdType(Len(requests))
    BY <1>1
  <2> QED BY <2>1 DEF CmdType, CbType
<1>3. \A k \in DOMAIN msgs : msgs[k].cb.req \in 0..Len(requests)
  <2>1. \A k \in DOMAIN msgs : msgs[k] \in MsgType(Len(requests), lastBp)
    BY <1>1
  <2> QED BY <2>1 DEF MsgType, CbType
<1> QED BY <1>1, <1>2, <1>3

\* What a step adds to the queues fits.
LEMMA FitsStep ==
  ASSUME TypeOK, Fits,
         \A r \in DOMAIN requests : /\ requests'[r].kind = requests[r].kind
                                    /\ requests'[r].arg = requests[r].arg,
         \A k \in DOMAIN cmds' : \/ CmdFits(cmds'[k], requests')
                                 \/ \E j \in DOMAIN cmds : cmds'[k] = cmds[j],
         \A k \in DOMAIN msgs' : \/ MsgFits(msgs'[k], requests')
                                 \/ \E j \in DOMAIN msgs : msgs'[k] = msgs[j]
  PROVE  Fits'
<1>1. PICK a, b : a = requests /\ b = requests'
  OBVIOUS
<1>2. \A r \in DOMAIN a : b[r].kind = a[r].kind /\ b[r].arg = a[r].arg
  BY <1>1
<1>3. /\ \A c : CmdFits(c, a) /\ (c.cb.req = 0 \/ c.cb.req \in DOMAIN a) => CmdFits(c, b)
      /\ \A m : MsgFits(m, a) /\ (m.cb.req = 0 \/ m.cb.req \in DOMAIN a) => MsgFits(m, b)
  BY <1>2, FitsKept
<1>4. \A j \in DOMAIN cmds : CmdFits(cmds[j], b)
  BY <1>1, <1>3, Named DEF Fits
<1>5. \A j \in DOMAIN msgs : MsgFits(msgs[j], b)
  BY <1>1, <1>3, Named DEF Fits
<1>6. \A k \in DOMAIN cmds' : CmdFits(cmds'[k], requests')
  BY <1>1, <1>4
<1>7. \A k \in DOMAIN msgs' : MsgFits(msgs'[k], requests')
  BY <1>1, <1>5
<1> QED BY <1>6, <1>7 DEF Fits

\* The methods send what fits.
LEMMA MethodFits == TypeOK /\ Fits /\ Method => Fits'
<1> SUFFICES ASSUME TypeOK, Fits, Method PROVE Fits'
  OBVIOUS
<1>1. PICK q, c : Called(q, c)
  BY MethodCalls
<1>2. /\ q \in RequestType /\ requests' = Append(requests, q)
      /\ c \in CmdType(NewReq) /\ cmds' = Append(cmds, c) /\ CmdFits(c, requests')
      /\ msgs' = msgs
  BY <1>1 DEF Called
<1>3. Grows(requests, requests', q)
  BY <1>2, TypeParts, GrowsShrinks DEF RequestsType
<1>4. Grows(cmds, cmds', c)
  <2>1. requests \in Seq(RequestType) /\ Len(requests) \in Nat /\ lastBp \in Nat
    BY TypeParts DEF RequestsType, V8Type
  <2>2. cmds \in Seq(CmdType(NewReq))
    BY <2>1, TypeParts, MoreRequests DEF NewReq, CmdsType
  <2> QED BY <1>2, <2>2, GrowsShrinks
<1>5. \A k \in DOMAIN cmds' : \/ CmdFits(cmds'[k], requests')
                              \/ \E j \in DOMAIN cmds : cmds'[k] = cmds[j]
  BY <1>2, <1>4 DEF Grows
<1>6. \A r \in DOMAIN requests : /\ requests'[r].kind = requests[r].kind
                                 /\ requests'[r].arg = requests[r].arg
  BY <1>3 DEF Grows
<1> QED BY <1>2, <1>5, <1>6, FitsStep

\* What a callback leaves of requests and messages.
LEMMA CallbackKeeps ==
  ASSUME TypeOK, Fits, OnDebuggerMessage, NEW m, m = Head(msgs)
  PROVE  /\ DOMAIN requests' = DOMAIN requests
         /\ \A r \in DOMAIN requests :
              /\ requests'[r].kind = requests[r].kind /\ requests'[r].arg = requests[r].arg
              /\ r # m.cb.req => requests'[r] = requests[r]
         /\ \A c : Sends(c) => Grows(cmds, cmds', c)
         /\ MsgFits(m, requests) /\ m \in MsgType(Len(requests), lastBp)
         /\ Shrinks(msgs, msgs', m)
         /\ UNCHANGED <<view, awaiting, v8, stepping, bps, lastBp, exceptionBreak, stops>>
<1>1. /\ m \in MsgType(Len(requests), lastBp) /\ MsgFits(m, requests)
      /\ Shrinks(msgs, msgs', m)
      /\ UNCHANGED <<view, awaiting, v8, stepping, bps, lastBp, exceptionBreak, stops>>
  BY RestOfCallback DEF Shrinks, Fits
<1>2. \A c : Sends(c) => Grows(cmds, cmds', c)
  <2>1. cmds \in Seq(CmdType(Len(requests)))
    BY TypeParts DEF CmdsType
  <2> QED BY <2>1, GrowsShrinks DEF Sends
<1>3. m.cb.req \in 0..Len(requests)
  BY <1>1 DEF MsgType, CbType
<1>4. \/ requests' = requests
      \/ \E result \in {"ok", "error"} : Answered(m.cb.req, result)
  BY Reactions DEF Replies, AsksOn, GoesOn, Suspends, Continues, Stops, Clears, Reports
<1>5. /\ DOMAIN requests' = DOMAIN requests
      /\ \A r \in DOMAIN requests :
              /\ requests'[r].kind = requests[r].kind /\ requests'[r].arg = requests[r].arg
              /\ r # m.cb.req => requests'[r] = requests[r]
  BY <1>3, <1>4, AnswerType DEF Answered
<1> QED BY <1>1, <1>2, <1>5

\* The callbacks send what fits.
LEMMA CallbacksFit == TypeOK /\ Fits /\ OnDebuggerMessage => Fits'
<1> SUFFICES ASSUME TypeOK, Fits, OnDebuggerMessage PROVE Fits'
  OBVIOUS
<1>0. PICK m : m = Head(msgs)
  OBVIOUS
<1>1. /\ DOMAIN requests' = DOMAIN requests
      /\ \A r \in DOMAIN requests :
           requests'[r].kind = requests[r].kind /\ requests'[r].arg = requests[r].arg
      /\ \A c : Sends(c) => Grows(cmds, cmds', c)
      /\ Shrinks(msgs, msgs', m)
  BY <1>0, CallbackKeeps
<1>2. \A k \in DOMAIN msgs' : \E j \in DOMAIN msgs : msgs'[k] = msgs[j]
  BY <1>1 DEF Shrinks
<1>3. cmds' = cmds \/ \E c : Sends(c)
  BY <1>0, Reactions DEF Replies, AsksOn, GoesOn, Suspends, Continues, Stops, Clears, Reports
<1>4. \A c : Sends(c) => CmdFits(c, requests')
  <2>1. PICK a, b : a = requests /\ b = requests'
    OBVIOUS
  <2>2. \A c : CmdFits(c, a) /\ (c.cb.req = 0 \/ c.cb.req \in DOMAIN a) => CmdFits(c, b)
    BY <1>1, <2>1, FitsKept
  <2>3. \A c \in CmdType(Len(requests)) : c.cb.req = 0 \/ c.cb.req \in DOMAIN requests
    BY TypeParts DEF CmdType, CbType, RequestsType
  <2> QED BY <2>1, <2>2, <2>3 DEF Sends
<1>5. \A k \in DOMAIN cmds' : \/ CmdFits(cmds'[k], requests')
                              \/ \E j \in DOMAIN cmds : cmds'[k] = cmds[j]
  BY <1>1, <1>3, <1>4 DEF Grows
<1> QED BY <1>1, <1>2, <1>5, FitsStep

\* V8's responses fit.
LEMMA V8Fits == TypeOK /\ Fits /\ (V8 \/ Stop) => Fits'
<1> SUFFICES ASSUME TypeOK, Fits, V8 \/ Stop PROVE Fits'
  OBVIOUS
<1>0. lastBp \in Nat /\ Len(requests) \in Nat /\ requests' = requests
  BY TypeParts DEF RequestsType, V8Type, V8, Stop, EnterDebugger, LeaveDebugger, ServeCommand
<1>1. CASE ServeCommand
  <2>1. /\ cmds # <<>> /\ cmds' = Tail(cmds)
        /\ \E m : msgs' = Append(msgs, m) /\ Outcome(Head(cmds), m)
    BY <1>1, Served
  <2>2. PICK c : c = Head(cmds)
    OBVIOUS
  <2>3. PICK m : msgs' = Append(msgs, m) /\ Outcome(c, m)
    BY <2>1, <2>2
  <2>4. Shrinks(cmds, cmds', c)
    BY <2>1, <2>2, TypeParts, GrowsShrinks DEF CmdsType
  <2>5. Grows(msgs, msgs', m)
    <3>1. PICK l \in Nat : l = lastBp' /\ lastBp <= l
      BY <1>0, <2>3 DEF Outcome, BpsAfter
    <3>2. msgs \in Seq(MsgType(Len(requests), l)) /\ m \in MsgType(Len(requests), l)
      BY <1>0, <2>3, <3>1, TypeParts, MoreRequests DEF MsgsType, Outcome
    <3> QED BY <2>3, <3>2, GrowsShrinks
  <2>6. MsgFits(m, requests')
    <3>1. CmdFits(c, requests)
      BY <2>4 DEF Shrinks, Fits
    <3>2. m.cb.step = "located" /\ m.ok => Len(m.body) = 1
      <4>1. m.cb.step = "located" /\ m.ok => m.body = <<lastBp'>>
        BY <2>3, <3>1 DEF Outcome, BpsAfter, CmdFits
      <4>2. \A x : Len(<<x>>) = 1
        OBVIOUS
      <4> QED BY <4>1, <4>2
    <3> QED BY <1>0, <2>3, <3>1, <3>2 DEF MsgFits, CmdFits, Outcome
  <2>7. \A k \in DOMAIN cmds' : \E j \in DOMAIN cmds : cmds'[k] = cmds[j]
    BY <2>4 DEF Shrinks
  <2>8. \A k \in DOMAIN msgs' : \/ MsgFits(msgs'[k], requests')
                                \/ \E j \in DOMAIN msgs : msgs'[k] = msgs[j]
    BY <2>5, <2>6 DEF Grows
  <2> QED BY <1>0, <2>7, <2>8, FitsStep
<1>2. CASE EnterDebugger \/ LeaveDebugger
  BY <1>0, <1>2, FitsStep DEF EnterDebugger, LeaveDebugger
<1>3. CASE Stop
  <2>1. PICK m : m = [cb |-> Callback("stopped", 0, <<>>), ok |-> TRUE, body |-> <<>>]
    OBVIOUS
  <2>2. msgs' = Append(msgs, m) /\ cmds' = cmds
    BY <1>3, <2>1 DEF Stop
  <2>3. m \in MsgType(Len(requests), lastBp) /\ m.cb.step = "stopped" /\ m.cb.req = 0
    <3>1. <<>> \in Seq(Nat) /\ <<>> \in Seq(1..lastBp) /\ "stopped" \in AllSteps
          /\ 0 \in 0..Len(requests)
      BY <1>0 DEF AllSteps
    <3> QED BY <2>1, <3>1 DEF MsgType, CbType, Callback
  <2>4. Grows(msgs, msgs', m)
    BY <2>2, <2>3, TypeParts, GrowsShrinks DEF MsgsType
  <2>5. MsgFits(m, requests')
    BY <2>3 DEF MsgFits, CallFits
  <2>6. \A k \in DOMAIN msgs' : \/ MsgFits(msgs'[k], requests')
                                \/ \E j \in DOMAIN msgs : msgs'[k] = msgs[j]
    BY <2>4, <2>5 DEF Grows
  <2> QED BY <1>0, <2>2, <2>6, FitsStep
<1> QED BY <1>1, <1>2, <1>3 DEF V8

\* Initially there is nothing that has to fit.
LEMMA InitFits == Init => Fits
BY DEF Init, Fits

\* Every step keeps types and fits.
LEMMA NextTypeFits == TypeOK /\ Fits /\ [Next]_vars => TypeOK' /\ Fits'
<1> SUFFICES ASSUME TypeOK, Fits, [Next]_vars PROVE TypeOK' /\ Fits'
  OBVIOUS
<1>1. CASE UNCHANGED vars
  <2>1. UNCHANGED <<view, awaiting, slot, out, cmds, msgs, v8, stepping, bps, lastBp,
                    exceptionBreak, stops, requests>>
    BY <1>1 DEF vars, clientVars, v8Vars
  <2>2. TypeOK'
    BY <2>1, TypeParts, TypePartsNext
       DEF ClientType, V8Type, BpsType, CmdsType, MsgsType, OutsType, RequestsType
  <2> QED BY <2>1, <2>2 DEF Fits
<1>2. CASE Read
  <2>1. Fits'
    BY <1>2 DEF Read, Fits
  <2> QED BY <1>2, <2>1, ReadType
<1> QED BY <1>1, <1>2, MethodType, MethodFits, CallbacksType, CallbacksFit, V8Types, V8Fits DEF Next

\* Every variable keeps its type, for any methods and bounds.
THEOREM TypeCorrect == Spec => []TypeOK
<1>1. Init => TypeOK /\ Fits
  BY InitType, InitFits
<1>2. TypeOK /\ Fits /\ [Next]_vars => (TypeOK /\ Fits)'
  BY NextTypeFits
<1> QED BY <1>1, <1>2, PTL DEF Spec

------------------------------------------------------------------------------
(* Run control.                                                              *)

\* Where the commands or messages with this step, and what the front-end has
\* to read of this kind, are.
At(queue, step) == {k \in DOMAIN queue : queue[k].cb.step = step}
OutAt(list, what) == {k \in DOMAIN list : list[k][1] = what}

\* V8 has let the program go since the front-end was last told that it paused.
Going ==
  view = "running" \/ At(msgs, "continued") # {} \/ OutAt(out, "resumed") # {}

\* News of a pause since then.
News(queue, step) == {k \in At(queue, step) : \A j \in At(queue, "continued") : j < k}
NewOuts(list, queue) ==
  {k \in OutAt(list, "paused") :
     At(queue, "continued") = {} /\ \A j \in OutAt(list, "resumed") : j < k}

\* What is under way of run control is of the request the front-end waits
\* for.
Awaits(reqs, look, r) ==
  r # 0 => reqs[r].kind \in RunControls /\ (reqs[r].kind # "pause" => look = "paused")
Leads(step) == step \in {"suspended", "continued", "located"}
Awaited ==
  /\ Awaits(requests, view, awaiting)
  /\ \A k \in DOMAIN cmds : Leads(cmds[k].cb.step) => cmds[k].cb.req = awaiting
  /\ \A k \in DOMAIN msgs : Leads(msgs[k].cb.step) => msgs[k].cb.req = awaiting
  /\ \A j \in OutAt(out, "resumed") :
       /\ awaiting # 0 /\ requests[awaiting].kind # "pause" /\ requests[awaiting].answer = "ok"
       /\ \A k \in OutAt(out, "resumed") : j = k
       /\ \A k \in DOMAIN out : out[k] = <<"answer", awaiting>> => k < j

\* The program runs if and only if there is no news of a pause since it was
\* let go.
Heard ==
  \/ At(cmds, "cleared") # {} \/ At(cmds, "paused") # {}
  \/ News(msgs, "suspended") # {} \/ News(msgs, "stopped") # {}
  \/ News(msgs, "cleared") # {} \/ News(msgs, "paused") # {}
  \/ NewOuts(out, msgs) # {}
Told ==
  IF Going
  THEN v8 = "waiting" <=> Heard
  ELSE /\ v8 = "waiting" /\ At(cmds, "cleared") = {}
       /\ At(msgs, "stopped") = {} /\ At(msgs, "cleared") = {}

\* The news of a stop goes through the agent once or twice, but is not
\* overtaken by the news of a pause on the way; and all news of pauses is
\* ahead of the command to go on.
ClearingFirst ==
  \A i \in At(cmds, "cleared") :
    /\ At(msgs, "stopped") = {} /\ At(msgs, "cleared") = {}
    /\ News(msgs, "paused") = {} /\ NewOuts(out, msgs) = {}
    /\ \A j \in At(cmds, "cleared") : j = i
    /\ \A j \in At(cmds, "paused") : i < j
StopFirst ==
  \A i \in At(msgs, "stopped") :
    /\ At(cmds, "cleared") = {} /\ At(msgs, "cleared") = {} /\ At(cmds, "paused") = {}
    /\ News(msgs, "paused") = {} /\ NewOuts(out, msgs) = {}
    /\ i \in News(msgs, "stopped")
    /\ \A j \in At(msgs, "stopped") : j = i
    /\ \A j \in At(msgs, "suspended") : i < j
ClearedFirst ==
  \A i \in At(msgs, "cleared") :
    /\ At(cmds, "cleared") = {} /\ NewOuts(out, msgs) = {}
    /\ i \in News(msgs, "cleared")
    /\ \A j \in At(msgs, "cleared") : j = i
    /\ \A j \in News(msgs, "paused") : i < j
FramesFirst == \A i \in At(cmds, "continued"), j \in At(cmds, "paused") : j < i
InOrder == ClearingFirst /\ StopFirst /\ ClearedFirst /\ FramesFirst

Control == Awaited /\ Told /\ InOrder

------------------------------------------------------------------------------
(* What a queue that grows or shrinks does to the places in it.              *)

\* A new element is at the last place.
LEMMA AtGrows ==
  ASSUME NEW s, NEW t, NEW x, Grows(s, t, x)
  PROVE  \A step :
           /\ x.cb.step = step => At(t, step) = At(s, step) \cup {Len(s) + 1}
           /\ x.cb.step # step => At(t, step) = At(s, step)
           /\ \A k \in At(s, step) : k \in Nat \ {0} /\ k < Len(s) + 1
BY DEF Grows, At

\* Without the first element the others are one place further ahead.
LEMMA AtShrinks ==
  ASSUME NEW s, NEW t, NEW x, Shrinks(s, t, x)
  PROVE  \A step :
           /\ \A k \in At(t, step) : k \in Nat \ {0} /\ k + 1 \in At(s, step)
           /\ \A k \in At(s, step) : k \in Nat \ {0} /\ (k = 1 \/ k - 1 \in At(t, step))
           /\ 1 \in At(s, step) <=> x.cb.step = step
BY DEF Shrinks, At

\* The same for what the front-end reads.
LEMMA OutGrows ==
  ASSUME NEW s, NEW t, NEW x, Grows(s, t, x)
  PROVE  \A what :
           /\ x[1] = what => OutAt(t, what) = OutAt(s, what) \cup {Len(s) + 1}
           /\ x[1] # what => OutAt(t, what) = OutAt(s, what)
           /\ \A k \in OutAt(s, what) : k \in Nat \ {0} /\ k < Len(s) + 1
BY DEF Grows, OutAt

\* What is read is gone, and the rest is one place further ahead.
LEMMA OutShrinks ==
  ASSUME NEW s, NEW t, NEW x, Shrinks(s, t, x)
  PROVE  \A what :
           /\ \A k \in OutAt(t, what) : k \in Nat \ {0} /\ k + 1 \in OutAt(s, what)
           /\ \A k \in OutAt(s, what) : k \in Nat \ {0} /\ (k = 1 \/ k - 1 \in OutAt(t, what))
           /\ 1 \in OutAt(s, what) <=> x[1] = what
BY DEF Shrinks, OutAt

\* A message at the end is news, unless it lets the program go: then nothing
\* is.
LEMMA NewsGrows ==
  ASSUME NEW s, NEW t, NEW x, Grows(s, t, x)
  PROVE  \A step : step # "continued" =>
           /\ x.cb.step = step => News(t, step) = News(s, step) \cup {Len(s) + 1}
           /\ x.cb.step # step /\ x.cb.step # "continued" => News(t, step) = News(s, step)
           /\ x.cb.step = "continued" => News(t, step) = {}
           /\ \A k \in News(s, step) : k \in At(s, step)
<1> SUFFICES ASSUME NEW step, step # "continued"
             PROVE  /\ x.cb.step = step => News(t, step) = News(s, step) \cup {Len(s) + 1}
                    /\ x.cb.step # step /\ x.cb.step # "continued" =>
                         News(t, step) = News(s, step)
                    /\ x.cb.step = "continued" => News(t, step) = {}
                    /\ \A k \in News(s, step) : k \in At(s, step)
  OBVIOUS
<1>1. Len(s) + 1 \in Nat
  BY DEF Grows
<1>2. PICK old, now, ahead, let : /\ old = At(s, step) /\ now = At(t, step)
                                  /\ ahead = At(s, "continued") /\ let = At(t, "continued")
  OBVIOUS
<1>3. /\ x.cb.step = step => now = old \cup {Len(s) + 1}
      /\ x.cb.step # step => now = old
      /\ x.cb.step = "continued" => let = ahead \cup {Len(s) + 1}
      /\ x.cb.step # "continued" => let = ahead
      /\ \A k \in old \cup ahead : k \in Nat /\ k < Len(s) + 1
  BY <1>2, AtGrows
<1> QED BY <1>1, <1>2, <1>3 DEF News

\* The first message was news if none lets the program go; the others stay what
\* they are.
LEMMA NewsShrinks ==
  ASSUME NEW s, NEW t, NEW x, Shrinks(s, t, x)
  PROVE  \A step :
           /\ \A k \in News(t, step) : k \in Nat \ {0} /\ k + 1 \in News(s, step)
           /\ \A k \in News(s, step) : k \in Nat \ {0} /\ (k = 1 \/ k - 1 \in News(t, step))
           /\ 1 \in News(s, step) => x.cb.step = step /\ At(s, "continued") = {}
           /\ x.cb.step = step /\ At(s, "continued") = {} => 1 \in News(s, step)
<1> SUFFICES ASSUME NEW step
    PROVE  /\ \A k \in News(t, step) : k \in Nat \ {0} /\ k + 1 \in News(s, step)
           /\ \A k \in News(s, step) : k \in Nat \ {0} /\ (k = 1 \/ k - 1 \in News(t, step))
           /\ 1 \in News(s, step) => x.cb.step = step /\ At(s, "continued") = {}
           /\ x.cb.step = step /\ At(s, "continued") = {} => 1 \in News(s, step)
  OBVIOUS
<1>1. PICK old, now, ahead, let : /\ old = At(s, step) /\ now = At(t, step)
                                  /\ ahead = At(s, "continued") /\ let = At(t, "continued")
  OBVIOUS
<1>2. /\ \A k \in now : k \in Nat \ {0} /\ k + 1 \in old
      /\ \A k \in old : k \in Nat \ {0} /\ (k = 1 \/ k - 1 \in now)
      /\ 1 \in old <=> x.cb.step = step
      /\ \A k \in let : k \in Nat \ {0} /\ k + 1 \in ahead
      /\ \A k \in ahead : k \in Nat \ {0} /\ (k = 1 \/ k - 1 \in let)
  BY <1>1, AtShrinks
<1> QED BY <1>1, <1>2 DEF News

------------------------------------------------------------------------------
(* A request is under way once.                                              *)

\* The same, for the queues and the requests as parameters.
OnTheirWay(cs, ms, reqs) ==
  /\ \A k \in DOMAIN cs : cs[k].cb.req # 0 => reqs[cs[k].cb.req].answer = "none"
  /\ \A k \in DOMAIN ms : ms[k].cb.req # 0 => reqs[ms[k].cb.req].answer = "none"
  /\ \A j, k \in DOMAIN cs : cs[j].cb.req = cs[k].cb.req /\ cs[j].cb.req # 0 => j = k
  /\ \A j, k \in DOMAIN ms : ms[j].cb.req = ms[k].cb.req /\ ms[j].cb.req # 0 => j = k
  /\ \A j \in DOMAIN cs, k \in DOMAIN ms : cs[j].cb.req = ms[k].cb.req => cs[j].cb.req = 0

\* Underway says this of the queues as they are, ...
LEMMA UnderwayNow == Underway <=> OnTheirWay(cmds, msgs, requests)
BY DEF Underway, OnTheirWay

\* ... and after a step.
LEMMA UnderwayNext == OnTheirWay(cmds', msgs', requests') => Underway'
BY DEF Underway, OnTheirWay

\* A command is sent.
LEMMA SentOnItsWay ==
  ASSUME NEW cs, NEW ds, NEW c, NEW ms, NEW reqs, Grows(cs, ds, c), OnTheirWay(cs, ms, reqs),
         c.cb.req # 0 =>
           /\ reqs[c.cb.req].answer = "none"
           /\ \A k \in DOMAIN cs : cs[k].cb.req # c.cb.req
           /\ \A k \in DOMAIN ms : ms[k].cb.req # c.cb.req
  PROVE  OnTheirWay(ds, ms, reqs)
BY DEF Grows, OnTheirWay

\* The first message is taken, and there is no other about its request.
LEMMA TakenOffItsWay ==
  ASSUME NEW cs, NEW ms, NEW ns, NEW m, NEW reqs, Shrinks(ms, ns, m), OnTheirWay(cs, ms, reqs)
  PROVE  /\ OnTheirWay(cs, ns, reqs)
         /\ m.cb.req # 0 => /\ reqs[m.cb.req].answer = "none"
                            /\ \A k \in DOMAIN cs : cs[k].cb.req # m.cb.req
                            /\ \A k \in DOMAIN ns : ns[k].cb.req # m.cb.req
<1>1. /\ 1 \in DOMAIN ms /\ ms[1] = m
      /\ \A k \in DOMAIN ns : k \in Nat \ {0} /\ k + 1 # 1 /\ k + 1 \in DOMAIN ms
                              /\ ns[k] = ms[k + 1]
  BY DEF Shrinks
<1>2. \A j, k \in DOMAIN ns : j + 1 = k + 1 => j = k
  BY <1>1
<1>3. OnTheirWay(cs, ns, reqs)
  BY <1>1, <1>2 DEF OnTheirWay
<1>4. ASSUME m.cb.req # 0
      PROVE  /\ reqs[m.cb.req].answer = "none"
             /\ \A k \in DOMAIN cs : cs[k].cb.req # m.cb.req
             /\ \A k \in DOMAIN ns : ns[k].cb.req # m.cb.req
  BY <1>1, <1>4 DEF OnTheirWay
<1> QED BY <1>3, <1>4

\* The first command has become a message.
LEMMA ServedOnItsWay ==
  ASSUME NEW cs, NEW ds, NEW c, NEW ms, NEW ns, NEW m, NEW reqs,
         Shrinks(cs, ds, c), Grows(ms, ns, m), m.cb = c.cb, OnTheirWay(cs, ms, reqs)
  PROVE  OnTheirWay(ds, ns, reqs)
<1>1. /\ 1 \in DOMAIN cs /\ cs[1] = c
      /\ \A k \in DOMAIN ds : k \in Nat \ {0} /\ k + 1 # 1 /\ k + 1 \in DOMAIN cs
                              /\ ds[k] = cs[k + 1]
  BY DEF Shrinks
<1>2. \A j, k \in DOMAIN ds : j + 1 = k + 1 => j = k
  BY <1>1
<1>3. /\ DOMAIN ns = DOMAIN ms \cup {Len(ms) + 1} /\ ns[Len(ms) + 1].cb = c.cb
      /\ \A k \in DOMAIN ms : ns[k] = ms[k]
  BY DEF Grows
<1> QED BY <1>1, <1>2, <1>3 DEF OnTheirWay

\* Requests are answered of which nothing is under way, and others come.
LEMMA OtherAnswered ==
  ASSUME NEW cs, NEW ms, NEW a, NEW b, NEW R, OnTheirWay(cs, ms, a),
         \A k \in DOMAIN cs : cs[k].cb.req = 0 \/ cs[k].cb.req \in R,
         \A k \in DOMAIN ms : ms[k].cb.req = 0 \/ ms[k].cb.req \in R,
         \A r \in R : b[r] = a[r]
  PROVE  OnTheirWay(cs, ms, b)
BY DEF OnTheirWay

\* What a method adds.
LEMMA MethodAdds ==
  ASSUME TypeOK, Method
  PROVE  \E q, c : /\ Called(q, c) /\ Grows(requests, requests', q) /\ Grows(cmds, cmds', c)
                   /\ NewReq = Len(requests) + 1 /\ NewReq # 0 /\ NewReq \notin DOMAIN requests
                   /\ requests'[NewReq] = q
<1>1. PICK q, c : Called(q, c)
  BY MethodCalls
<1>2. /\ q \in RequestType /\ requests' = Append(requests, q)
      /\ c \in CmdType(NewReq) /\ cmds' = Append(cmds, c)
  BY <1>1 DEF Called
<1>3. Grows(requests, requests', q)
  BY <1>2, TypeParts, GrowsShrinks DEF RequestsType
<1>4. requests \in Seq(RequestType) /\ Len(requests) \in Nat /\ lastBp \in Nat
  BY TypeParts DEF RequestsType, V8Type
<1>5. Grows(cmds, cmds', c)
  <2>1. cmds \in Seq(CmdType(NewReq))
    BY <1>4, TypeParts, MoreRequests DEF NewReq, CmdsType
  <2> QED BY <1>2, <2>1, GrowsShrinks
<1> QED BY <1>1, <1>3, <1>4, <1>5 DEF Grows, NewReq

\* What V8 adds when it serves a command.
LEMMA ServeAdds ==
  ASSUME TypeOK, Fits, ServeCommand, NEW c, c = Head(cmds)
  PROVE  /\ UNCHANGED <<view, awaiting, slot, out, stops, requests>>
         /\ Shrinks(cmds, cmds', c) /\ CmdFits(c, requests) /\ v8 # "program"
         /\ \E m : Grows(msgs, msgs', m) /\ Outcome(c, m)
<1>1. /\ cmds # <<>> /\ cmds' = Tail(cmds) /\ v8 # "program"
      /\ UNCHANGED <<view, awaiting, slot, out, stops, requests>>
      /\ \E m : msgs' = Append(msgs, m) /\ Outcome(Head(cmds), m)
  BY Served
<1>2. PICK m : msgs' = Append(msgs, m) /\ Outcome(c, m)
  BY <1>1
<1>3. Shrinks(cmds, cmds', c)
  BY <1>1, TypeParts, GrowsShrinks DEF CmdsType
<1>4. Grows(msgs, msgs', m)
  <2>0. lastBp \in Nat /\ Len(requests) \in Nat
    BY TypeParts DEF RequestsType, V8Type
  <2>1. PICK l \in Nat : l = lastBp' /\ lastBp <= l
    BY <1>2, <2>0 DEF Outcome, BpsAfter
  <2>2. msgs \in Seq(MsgType(Len(requests), l)) /\ m \in MsgType(Len(requests), l)
    BY <1>2, <2>0, <2>1, TypeParts, MoreRequests DEF MsgsType, Outcome
  <2> QED BY <1>2, <2>2, GrowsShrinks
<1>5. CmdFits(c, requests)
  BY <1>3 DEF Shrinks, Fits
<1> QED BY <1>1, <1>2, <1>3, <1>4, <1>5

\* What a stop adds.
LEMMA StopAdds ==
  ASSUME TypeOK, Stop
  PROVE  /\ UNCHANGED <<view, awaiting, slot, out, cmds, bps, lastBp, exceptionBreak, requests>>
         /\ v8 = "program" /\ v8' = "waiting"
         /\ \E m : Grows(msgs, msgs', m) /\ m.cb.step = "stopped" /\ m.cb.req = 0
<1>1. PICK m : m = [cb |-> Callback("stopped", 0, <<>>), ok |-> TRUE, body |-> <<>>]
  OBVIOUS
<1>2. /\ UNCHANGED <<view, awaiting, slot, out, cmds, bps, lastBp, exceptionBreak, requests>>
      /\ v8 = "program" /\ v8' = "waiting" /\ msgs' = Append(msgs, m)
  BY <1>1 DEF Stop, clientVars
<1>3. m \in MsgType(Len(requests), lastBp) /\ m.cb.step = "stopped" /\ m.cb.req = 0
  <2>1. <<>> \in Seq(Nat) /\ <<>> \in Seq(1..lastBp) /\ "stopped" \in AllSteps
        /\ 0 \in 0..Len(requests)
    BY TypeParts DEF AllSteps, RequestsType
  <2> QED BY <1>1, <2>1 DEF MsgType, CbType, Callback
<1>4. Grows(msgs, msgs', m)
  BY <1>2, <1>3, TypeParts, GrowsShrinks DEF MsgsType
<1> QED BY <1>2, <1>3, <1>4

\* What reading takes.
LEMMA ReadTakes ==
  ASSUME TypeOK, Read
  PROVE  /\ UNCHANGED <<slot, cmds, msgs, v8, stepping, bps, lastBp, exceptionBreak, stops,
                        requests>>
         /\ \E what, r : Shrinks(out, out', <<what, r>>) /\ Head(out) = <<what, r>>
<1>1. /\ out # <<>> /\ out' = Tail(out)
      /\ UNCHANGED <<slot, cmds, msgs, v8, stepping, bps, lastBp, exceptionBreak, stops, requests>>
  BY DEF Read, v8Vars
<1>2. out \in Seq(OutType(Len(requests)))
  BY TypeParts DEF OutsType
<1>3. Head(out) \in OutType(Len(requests)) /\ Shrinks(out, out', Head(out))
  BY <1>1, <1>2, GrowsShrinks
<1>4. \E what, r : Head(out) = <<what, r>>
  BY <1>3 DEF OutType
<1>5. \E what, r : Shrinks(out, out', <<what, r>>) /\ Head(out) = <<what, r>>
  BY <1>3, <1>4
<1> QED BY <1>1, <1>5

\* A method starts a request of its own.
LEMMA MethodUnderway == TypeOK /\ Underway /\ Method => Underway'
<1> SUFFICES ASSUME TypeOK, Underway, Method PROVE Underway'
  OBVIOUS
<1>1. PICK q, c : /\ Called(q, c) /\ Grows(requests, requests', q) /\ Grows(cmds, cmds', c)
                  /\ NewReq # 0 /\ NewReq \notin DOMAIN requests /\ requests'[NewReq] = q
  BY MethodAdds
<1>2. \A r \in DOMAIN requests : requests'[r] = requests[r]
  BY <1>1 DEF Grows
<1>3. OnTheirWay(cmds, msgs, requests')
  BY <1>2, Named, OtherAnswered, UnderwayNow
<1>4. c.cb.req = NewReq /\ q.answer = "none" /\ msgs' = msgs
  BY <1>1 DEF Called
<1>5. OnTheirWay(cmds', msgs, requests')
  BY <1>1, <1>3, <1>4, Named, SentOnItsWay
<1> QED BY <1>4, <1>5, UnderwayNext

\* A callback ends its request, or goes on with it.
LEMMA CallbacksUnderway == TypeOK /\ Fits /\ Underway /\ OnDebuggerMessage => Underway'
<1> SUFFICES ASSUME TypeOK, Fits, Underway, OnDebuggerMessage PROVE Underway'
  OBVIOUS
<1>0. PICK m : m = Head(msgs)
  OBVIOUS
<1>1. /\ DOMAIN requests' = DOMAIN requests
      /\ \A r \in DOMAIN requests : r # m.cb.req => requests'[r] = requests[r]
      /\ \A c : Sends(c) => Grows(cmds, cmds', c)
      /\ Shrinks(msgs, msgs', m) /\ MsgFits(m, requests)
  BY <1>0, CallbackKeeps
<1>2. /\ OnTheirWay(cmds, msgs', requests)
      /\ m.cb.req # 0 => /\ requests[m.cb.req].answer = "none"
                         /\ \A k \in DOMAIN cmds : cmds[k].cb.req # m.cb.req
                         /\ \A k \in DOMAIN msgs' : msgs'[k].cb.req # m.cb.req
  BY <1>1, UnderwayNow, TakenOffItsWay
<1>3. OnTheirWay(cmds, msgs', requests')
  <2>1. CASE m.cb.req = 0
    <3>1. \/ Stops(m) \/ Clears(m) \/ Reports(m)
      BY <1>0, <1>1, <2>1, Reactions
         DEF Replies, AsksOn, GoesOn, Suspends, Continues, MsgFits, CallFits
    <3> QED BY <1>2, <3>1 DEF Stops, Clears, Reports
  <2>2. CASE m.cb.req # 0
    <3>1. PICK R : R = DOMAIN requests \ {m.cb.req}
      OBVIOUS
    <3>2. \A k \in DOMAIN cmds : cmds[k].cb.req = 0 \/ cmds[k].cb.req \in R
      BY <1>2, <2>2, <3>1, Named
    <3>3. \A k \in DOMAIN msgs' : msgs'[k].cb.req = 0 \/ msgs'[k].cb.req \in R
      BY <1>1, <1>2, <2>2, <3>1, Named DEF Shrinks
    <3>4. \A r \in R : requests'[r] = requests[r]
      BY <1>1, <3>1
    <3> QED BY <1>2, <3>2, <3>3, <3>4, OtherAnswered
  <2> QED BY <2>1, <2>2
<1>4. \/ cmds' = cmds
      \/ \E c : Sends(c) /\ (c.cb.req = 0 \/ (c.cb.req = m.cb.req /\ requests' = requests))
  <2>1. CASE Replies(m) \/ Continues(m) \/ Reports(m)
    BY <2>1 DEF Replies, Continues, Reports
  <2>2. CASE AsksOn(m) \/ GoesOn(m)
    <3>1. PICK c : Sends(c) /\ c.cb.req = m.cb.req
      BY <2>2 DEF AsksOn, GoesOn
    <3>2. requests' = requests
      BY <2>2 DEF AsksOn, GoesOn
    <3> QED BY <3>1, <3>2
  <2>3. CASE Suspends(m) \/ Stops(m) \/ Clears(m)
    <3>1. PICK c : Sends(c) /\ c.cb.req = 0
      BY <2>3 DEF Suspends, Stops, Clears
    <3> QED BY <3>1
  <2> QED BY <1>0, <2>1, <2>2, <2>3, Reactions
<1>5. CASE cmds' = cmds
  BY <1>3, <1>5, UnderwayNext
<1>6. CASE \E c : Sends(c) /\ (c.cb.req = 0 \/ (c.cb.req = m.cb.req /\ requests' = requests))
  <2>1. PICK c : Sends(c) /\ (c.cb.req = 0 \/ (c.cb.req = m.cb.req /\ requests' = requests))
    BY <1>6
  <2>2. Grows(cmds, cmds', c)
    BY <1>1, <2>1
  <2>3. OnTheirWay(cmds', msgs', requests')
    BY <1>2, <1>3, <2>1, <2>2, SentOnItsWay
  <2> QED BY <2>3, UnderwayNext
<1> QED BY <1>4, <1>5, <1>6

\* V8 answers what it takes, and a stop is about no request.
LEMMA V8Underway == TypeOK /\ Fits /\ Underway /\ (V8 \/ Stop) => Underway'
<1> SUFFICES ASSUME TypeOK, Fits, Underway, V8 \/ Stop PROVE Underway'
  OBVIOUS
<1>1. CASE ServeCommand
  <2>1. PICK c : c = Head(cmds)
    OBVIOUS
  <2>2. PICK m : Shrinks(cmds, cmds', c) /\ Grows(msgs, msgs', m) /\ Outcome(c, m)
                 /\ requests' = requests
    BY <1>1, <2>1, ServeAdds
  <2>3. m.cb = c.cb
    BY <2>2 DEF Outcome
  <2> QED BY <2>2, <2>3, UnderwayNow, ServedOnItsWay, UnderwayNext
<1>2. CASE EnterDebugger \/ LeaveDebugger
  BY <1>2 DEF EnterDebugger, LeaveDebugger, Underway
<1>3. CASE Stop
  <2>1. PICK m : Grows(msgs, msgs', m) /\ m.cb.req = 0 /\ cmds' = cmds /\ requests' = requests
    BY <1>3, StopAdds
  <2>2. OnTheirWay(cmds, msgs', requests)
    BY <2>1, UnderwayNow DEF Grows, OnTheirWay
  <2> QED BY <2>1, <2>2, UnderwayNext
<1> QED BY <1>1, <1>2, <1>3 DEF V8

------------------------------------------------------------------------------
(* Requests for control, one at a time.                                      *)

\* Of the steps that lead to a pause or let the program go there is one on
\* its way at most, and it belongs to a request.
LEMMA OneLead ==
  ASSUME Fits, Underway, Awaited
  PROVE  /\ \A k \in DOMAIN cmds : Leads(cmds[k].cb.step) =>
              awaiting # 0 /\ requests[awaiting].answer = "none"
         /\ \A k \in DOMAIN msgs : Leads(msgs[k].cb.step) =>
              awaiting # 0 /\ requests[awaiting].answer = "none"
         /\ \A j, k \in DOMAIN cmds : Leads(cmds[j].cb.step) /\ Leads(cmds[k].cb.step) => j = k
         /\ \A j, k \in DOMAIN msgs : Leads(msgs[j].cb.step) /\ Leads(msgs[k].cb.step) => j = k
         /\ \A j \in DOMAIN cmds, k \in DOMAIN msgs :
              ~(Leads(cmds[j].cb.step) /\ Leads(msgs[k].cb.step))
<1>1. \A k \in DOMAIN cmds : Leads(cmds[k].cb.step) =>
        cmds[k].cb.req = awaiting /\ cmds[k].cb.req # 0
  BY DEF Fits, Awaited, Leads, CmdFits, CallFits
<1>2. \A k \in DOMAIN msgs : Leads(msgs[k].cb.step) =>
        msgs[k].cb.req = awaiting /\ msgs[k].cb.req # 0
  BY DEF Fits, Awaited, Leads, MsgFits, CallFits
<1> QED BY <1>1, <1>2 DEF Underway

\* The kind of the request that is waited for, by the step that is on its way.
LEMMA LeadKind ==
  ASSUME Fits, Awaited
  PROVE  /\ \A k \in DOMAIN cmds :
              /\ cmds[k].cb.step = "suspended" => requests[awaiting].kind = "pause"
              /\ cmds[k].cb.step \in {"continued", "located"} =>
                   requests[awaiting].kind # "pause"
         /\ \A k \in DOMAIN msgs :
              /\ msgs[k].cb.step = "suspended" => requests[awaiting].kind = "pause"
              /\ msgs[k].cb.step \in {"continued", "located"} =>
                   requests[awaiting].kind # "pause"
<1>1. \A k \in DOMAIN cmds :
        /\ cmds[k].cb.step = "suspended" => requests[awaiting].kind = "pause"
        /\ cmds[k].cb.step \in {"continued", "located"} => requests[awaiting].kind # "pause"
  BY DEF Fits, Awaited, Leads, CmdFits, CallFits
<1>2. \A k \in DOMAIN msgs :
        /\ msgs[k].cb.step = "suspended" => requests[awaiting].kind = "pause"
        /\ msgs[k].cb.step \in {"continued", "located"} => requests[awaiting].kind # "pause"
  BY DEF Fits, Awaited, Leads, MsgFits, CallFits
<1> QED BY <1>1, <1>2

\* A front-end asks for control only when it waits for nothing.
LEMMA MethodAwaited == TypeOK /\ Fits /\ Awaited /\ Method => Awaited'
<1> SUFFICES ASSUME TypeOK, Fits, Awaited, Method PROVE Awaited'
  OBVIOUS
<1>1. PICK q, c : /\ Called(q, c) /\ Grows(requests, requests', q) /\ Grows(cmds, cmds', c)
                  /\ NewReq # 0 /\ NewReq \notin DOMAIN requests /\ requests'[NewReq] = q
  BY MethodAdds
<1>2. /\ DOMAIN cmds' = DOMAIN cmds \cup {Len(cmds) + 1} /\ cmds'[Len(cmds) + 1] = c
      /\ \A k \in DOMAIN cmds : cmds'[k] = cmds[k]
      /\ msgs' = msgs /\ view' = view /\ out' = out /\ c.cb.req = NewReq
  BY <1>1 DEF Grows, Called
<1>3. \A r \in DOMAIN requests : requests'[r] = requests[r]
  BY <1>1 DEF Grows
<1>4. CASE /\ q.kind \notin RunControls /\ awaiting' = awaiting
           /\ c.cb.step \in {"done", "evaluated", "listed", "excepted"}
  <2>1. awaiting = 0 \/ awaiting \in DOMAIN requests
    BY TypeParts DEF ClientType, RequestsType
  <2>2. awaiting # 0 => requests'[awaiting] = requests[awaiting]
    BY <1>3, <2>1
  <2>3. ~Leads(c.cb.step)
    BY <1>4 DEF Leads
  <2> QED BY <1>2, <1>4, <2>2, <2>3 DEF Awaited, Awaits
<1>5. CASE /\ awaiting = 0 /\ awaiting' = NewReq
           /\ q.kind \in RunControls /\ (q.kind # "pause" => view = "paused")
  <2>1. Awaits(requests', view', awaiting')
    BY <1>1, <1>2, <1>5 DEF Awaits
  <2>2. /\ \A k \in DOMAIN cmds : ~Leads(cmds[k].cb.step)
        /\ \A k \in DOMAIN msgs : ~Leads(msgs[k].cb.step)
    <3>1. \A k \in DOMAIN cmds : Leads(cmds[k].cb.step) => cmds[k].cb.req # 0
      BY DEF Fits, Leads, CmdFits, CallFits
    <3>2. \A k \in DOMAIN msgs : Leads(msgs[k].cb.step) => msgs[k].cb.req # 0
      BY DEF Fits, Leads, MsgFits, CallFits
    <3> QED BY <1>5, <3>1, <3>2 DEF Awaited
  <2>3. OutAt(out, "resumed") = {}
    BY <1>5 DEF Awaited
  <2> QED BY <1>2, <1>5, <2>1, <2>2, <2>3 DEF Awaited
<1> QED BY <1>1, <1>4, <1>5 DEF Called, RunControls

\* A callback goes on for the same request, and answers before the event.
LEMMA CallbacksAwaited == TypeOK /\ Fits /\ Underway /\ Awaited /\ OnDebuggerMessage => Awaited'
<1> SUFFICES ASSUME TypeOK, Fits, Underway, Awaited, OnDebuggerMessage PROVE Awaited'
  OBVIOUS
<1>0. PICK m : m = Head(msgs)
  OBVIOUS
<1>1. /\ DOMAIN requests' = DOMAIN requests
      /\ \A r \in DOMAIN requests :
           requests'[r].kind = requests[r].kind /\ (r # m.cb.req => requests'[r] = requests[r])
      /\ \A c : Sends(c) => Grows(cmds, cmds', c)
      /\ Shrinks(msgs, msgs', m) /\ MsgFits(m, requests)
      /\ view' = view /\ awaiting' = awaiting
  BY <1>0, CallbackKeeps
<1>2. 1 \in DOMAIN msgs /\ msgs[1] = m
  BY <1>1 DEF Shrinks
<1>3. awaiting = 0 \/ awaiting \in DOMAIN requests
  BY TypeParts DEF ClientType, RequestsType
<1>4. Awaits(requests', view', awaiting')
  BY <1>1, <1>3 DEF Awaited, Awaits
<1>5. \A k \in DOMAIN msgs' : Leads(msgs'[k].cb.step) => msgs'[k].cb.req = awaiting'
  BY <1>1 DEF Shrinks, Awaited
<1>6. \A k \in DOMAIN cmds' : Leads(cmds'[k].cb.step) => cmds'[k].cb.req = awaiting'
  <2>1. \/ cmds' = cmds
        \/ \E c : Sends(c) /\ (Leads(c.cb.step) => c.cb.req = awaiting)
    <3>1. CASE Replies(m) \/ Continues(m) \/ Reports(m)
      BY <3>1 DEF Replies, Continues, Reports
    <3>2. CASE GoesOn(m)
      <4>1. PICK c : Sends(c) /\ c.cb.req = m.cb.req
        BY <3>2 DEF GoesOn
      <4>2. m.cb.req = awaiting
        BY <1>2, <3>2 DEF GoesOn, Awaited, Leads
      <4> QED BY <4>1, <4>2
    <3>3. CASE AsksOn(m) \/ Suspends(m) \/ Stops(m) \/ Clears(m)
      <4>1. PICK c : Sends(c) /\ c.cb.step \in {"changed", "excepted", "paused", "cleared"}
        BY <3>3 DEF AsksOn, Suspends, Stops, Clears
      <4>2. ~Leads(c.cb.step)
        BY <4>1 DEF Leads
      <4> QED BY <4>1, <4>2
    <3> QED BY <1>0, <3>1, <3>2, <3>3, Reactions
  <2>2. CASE cmds' = cmds
    BY <1>1, <2>2 DEF Awaited
  <2>3. ASSUME NEW c, Sends(c), Leads(c.cb.step) => c.cb.req = awaiting
        PROVE  \A k \in DOMAIN cmds' : Leads(cmds'[k].cb.step) => cmds'[k].cb.req = awaiting'
    <3>1. Grows(cmds, cmds', c)
      BY <1>1, <2>3
    <3> QED BY <1>1, <2>3, <3>1 DEF Awaited, Grows
  <2> QED BY <2>1, <2>2, <2>3
<1> DEFINE Final(o, reqs) ==
      \A j \in OutAt(o, "resumed") :
        /\ awaiting # 0 /\ reqs[awaiting].kind # "pause" /\ reqs[awaiting].answer = "ok"
        /\ \A k \in OutAt(o, "resumed") : j = k
        /\ \A k \in DOMAIN o : o[k] = <<"answer", awaiting>> => k < j
<1>7. Final(out, requests)
  BY DEF Awaited
<1>8. m.cb.req # 0 => requests[m.cb.req].answer = "none"
  BY <1>2 DEF Underway
<1>9. Final(out', requests')
  <2>1. CASE UNCHANGED <<requests, out>>
    BY <1>7, <2>1
  <2>2. CASE Replies(m) \/ Suspends(m)
    <3>1. out' = Append(out, <<"answer", m.cb.req>>) /\ m.cb.req # 0
      BY <1>1, <2>2 DEF Replies, Suspends, MsgFits, CallFits
    <3>2. <<"answer", m.cb.req>> \in OutType(Len(requests))
      <4>1. m.cb.req \in 0..Len(requests)
        BY <1>0, CallbackKeeps DEF MsgType, CbType
      <4> QED BY <4>1 DEF OutType
    <3>3. PICK x : /\ x = <<"answer", m.cb.req>> /\ x[1] = "answer"
                   /\ awaiting # m.cb.req => x # <<"answer", awaiting>>
      <4>1. <<"answer", m.cb.req>>[1] = "answer"
        OBVIOUS
      <4>2. awaiting # m.cb.req => <<"answer", m.cb.req>> # <<"answer", awaiting>>
        OBVIOUS
      <4> QED BY <4>1, <4>2
    <3>4. Grows(out, out', x)
      BY <3>1, <3>2, <3>3, TypeParts, GrowsShrinks DEF OutsType
    <3>5. OutAt(out', "resumed") = OutAt(out, "resumed")
      BY <3>3, <3>4, OutGrows
    <3>6. ASSUME OutAt(out, "resumed") # {} PROVE Final(out', requests')
      <4>1. requests[awaiting].answer = "ok" /\ awaiting # 0
        BY <1>7, <3>6
      <4>2. awaiting # m.cb.req
        BY <1>8, <3>1, <4>1
      <4>3. requests'[awaiting] = requests[awaiting]
        BY <1>1, <1>3, <4>1, <4>2
      <4>4. \A k \in DOMAIN out' : out'[k] = <<"answer", awaiting>> => k \in DOMAIN out
        BY <3>3, <3>4, <4>2 DEF Grows
      <4> QED BY <1>7, <3>4, <3>5, <4>3, <4>4 DEF Grows
    <3> QED BY <3>5, <3>6
  <2>3. CASE Continues(m)
    <3>1. m.cb.req = awaiting /\ awaiting # 0
      BY <1>1, <1>2, <2>3 DEF Continues, MsgFits, CallFits, Awaited, Leads
    <3>2. requests[awaiting].kind # "pause" /\ requests'[awaiting].kind # "pause"
      BY <1>1, <1>3, <2>3, <3>1 DEF Continues, MsgFits, CallFits
    <3>3. OutAt(out, "resumed") = {}
      BY <1>7, <1>8, <3>1
    <3>4. requests'[awaiting].answer = "ok"
      BY <1>3, <2>3, <3>1, TypeParts, AnswerType DEF Continues, Answered, ClientType
    <3>5. PICK x, y : /\ x = <<"answer", awaiting>> /\ y = <<"resumed", 0>>
                      /\ x[1] = "answer" /\ y[1] = "resumed" /\ y # x
      <4>1. <<"answer", awaiting>>[1] = "answer" /\ <<"resumed", 0>>[1] = "resumed"
        OBVIOUS
      <4>2. <<"answer", awaiting>> # <<"resumed", 0>>
        OBVIOUS
      <4> QED BY <4>1, <4>2
    <3>6. x \in OutType(Len(requests)) /\ y \in OutType(Len(requests))
      BY <3>5, TypeParts DEF OutType, ClientType, RequestsType
    <3>7. PICK o : o = Append(out, x) /\ out' = Append(o, y)
      BY <2>3, <3>1, <3>5 DEF Continues
    <3>8. Grows(out, o, x) /\ Grows(o, out', y)
      BY <3>6, <3>7, TypeParts, GrowsShrinks DEF OutsType
    <3>9. OutAt(out', "resumed") = {Len(o) + 1}
      <4>1. OutAt(o, "resumed") = {}
        BY <3>3, <3>5, <3>8, OutGrows
      <4> QED BY <3>5, <3>8, <4>1, OutGrows
    <3>10. \A k \in DOMAIN out' : out'[k] = x => k < Len(o) + 1
      BY <3>5, <3>8 DEF Grows
    <3> QED BY <3>1, <3>2, <3>4, <3>5, <3>9, <3>10
  <2>4. CASE Reports(m)
    <3>1. PICK x : x = <<"paused", 0>> /\ x[1] = "paused" /\ x # <<"answer", awaiting>>
      <4>1. <<"paused", 0>>[1] = "paused" /\ <<"paused", 0>> # <<"answer", awaiting>>
        OBVIOUS
      <4> QED BY <4>1
    <3>2. x \in OutType(Len(requests))
      BY <3>1, TypeParts DEF OutType, RequestsType
    <3>3. Grows(out, out', x) /\ requests' = requests
      BY <2>4, <3>1, <3>2, TypeParts, GrowsShrinks DEF OutsType, Reports
    <3>4. OutAt(out', "resumed") = OutAt(out, "resumed")
      BY <3>1, <3>3, OutGrows
    <3>5. \A k \in DOMAIN out' : out'[k] = <<"answer", awaiting>> =>
            k \in DOMAIN out /\ out[k] = <<"answer", awaiting>>
      BY <3>1, <3>3 DEF Grows
    <3> QED BY <1>7, <3>3, <3>4, <3>5
  <2>5. AsksOn(m) \/ GoesOn(m) \/ Stops(m) \/ Clears(m) => UNCHANGED <<requests, out>>
    BY DEF AsksOn, GoesOn, Stops, Clears
  <2> QED BY <1>0, <2>1, <2>2, <2>3, <2>4, <2>5, Reactions
<1> QED BY <1>1, <1>4, <1>5, <1>6, <1>9 DEF Awaited

\* What an event ends.
LEMMA ReadAwaiting ==
  ASSUME TypeOK, Read, NEW what, NEW r, Head(out) = <<what, r>>
  PROVE  \/ /\ what = "answer" /\ view' = view
            /\ awaiting' = IF awaiting = r /\ requests[r].answer = "error"
                           THEN 0 ELSE awaiting
         \/ /\ what \in {"paused", "resumed"}
            /\ view' = IF what = "paused" THEN "paused" ELSE "running"
            /\ awaiting' = IF awaiting # 0 /\ HasRead(awaiting) /\ EventOf(awaiting) = what
                           THEN 0 ELSE awaiting
<1>1. PICK head : head = Head(out) /\ head = <<what, r>>
  OBVIOUS
<1>2. head[1] = what /\ head[2] = r
  BY <1>1
<1>3. what \in {"answer", "paused", "resumed"}
  <2>1. out # <<>> /\ out \in Seq(OutType(Len(requests)))
    BY TypeParts DEF Read, OutsType
  <2>2. head \in OutType(Len(requests))
    BY <1>1, <2>1, GrowsShrinks
  <2> QED BY <1>2, <2>2 DEF OutType
<1>4. \/ /\ head[1] = "answer"
         /\ awaiting' = IF awaiting = head[2] /\ requests[head[2]].answer = "error"
                        THEN 0 ELSE awaiting
         /\ view' = view
      \/ /\ head[1] # "answer"
         /\ view' = IF head[1] = "paused" THEN "paused" ELSE "running"
         /\ awaiting' = IF awaiting # 0 /\ HasRead(awaiting) /\ EventOf(awaiting) = head[1]
                        THEN 0 ELSE awaiting
  BY <1>1 DEF Read
<1> QED BY <1>2, <1>3, <1>4

\* When the front-end reads that the program goes on, it has read the answer.
LEMMA ReadResumed ==
  ASSUME TypeOK, Fits, Underway, Awaited, Read, NEW r, Head(out) = <<"resumed", r>>,
         Shrinks(out, out', <<"resumed", r>>)
  PROVE  /\ OutAt(out, "resumed") = {1} /\ awaiting # 0 /\ awaiting' = 0
         /\ view' = "running" /\ requests[awaiting].answer = "ok"
<1>0. PICK x : x = <<"resumed", r>> /\ x[1] = "resumed"
  <2>1. <<"resumed", r>>[1] = "resumed"
    OBVIOUS
  <2> QED BY <2>1
<1>1. 1 \in OutAt(out, "resumed")
  BY <1>0, OutShrinks
<1>2. /\ awaiting # 0 /\ requests[awaiting].kind # "pause" /\ requests[awaiting].answer = "ok"
      /\ OutAt(out, "resumed") = {1}
      /\ \A k \in DOMAIN out : out[k] = <<"answer", awaiting>> => k < 1
  BY <1>1 DEF Awaited
<1>3. \A k \in DOMAIN out : k \in Nat /\ k >= 1
  BY TypeParts DEF OutsType
<1>4. HasRead(awaiting)
  <2>1. ToSet(out) = {out[k] : k \in DOMAIN out}
    BY DEF ToSet
  <2>2. \A k \in DOMAIN out : out[k] # <<"answer", awaiting>>
    <3>1. PICK a : a = <<"answer", awaiting>>
      OBVIOUS
    <3>2. \A k \in DOMAIN out : out[k] = a => k < 1
      BY <1>2, <3>1
    <3> QED BY <1>3, <3>1, <3>2
  <2>3. PICK a : a = <<"answer", awaiting>>
    OBVIOUS
  <2>4. a \notin ToSet(out)
    BY <2>1, <2>2, <2>3
  <2> QED BY <1>2, <2>3, <2>4 DEF HasRead
<1>5. EventOf(awaiting) = "resumed"
  BY <1>2 DEF EventOf
<1>6. view' = "running" /\ awaiting' = 0
  BY <1>2, <1>4, <1>5, ReadAwaiting
<1> QED BY <1>2, <1>6

\* What the front-end still waits for, it waited for before; what it does not
\* wait for any more has been answered.
LEMMA ReadEnds ==
  ASSUME TypeOK, Read, NEW what, NEW r, Head(out) = <<what, r>>
  PROVE  /\ awaiting' \in {0, awaiting}
         /\ awaiting' # awaiting =>
              /\ requests[awaiting].answer # "none"
              /\ requests[awaiting].answer = "error" \/ what = EventOf(awaiting)
<1>1. CASE what = "answer"
  BY <1>1, ReadAwaiting
<1>2. CASE what # "answer"
  BY <1>2, ReadAwaiting DEF HasRead
<1> QED BY <1>1, <1>2

\* A front-end waits until it has read all there is about its request.
LEMMA ReadAwaited == TypeOK /\ Fits /\ Underway /\ Awaited /\ Read => Awaited'
<1> SUFFICES ASSUME TypeOK, Fits, Underway, Awaited, Read PROVE Awaited'
  OBVIOUS
<1>1. PICK what, r : Shrinks(out, out', <<what, r>>) /\ Head(out) = <<what, r>>
  BY ReadTakes
<1>2. cmds' = cmds /\ msgs' = msgs /\ requests' = requests
  BY ReadTakes
<1>3. PICK x : x = <<what, r>> /\ x[1] = what
  <2>1. <<what, r>>[1] = what
    OBVIOUS
  <2> QED BY <2>1
<1>4. Shrinks(out, out', x)
  BY <1>1, <1>3
<1>5. CASE awaiting' = awaiting
  <2>1. Awaits(requests', view', awaiting')
    <3>1. CASE what = "answer"
      BY <1>1, <1>2, <1>5, <3>1, ReadAwaiting DEF Awaited, Awaits
    <3>2. CASE what = "paused"
      BY <1>1, <1>2, <1>5, <3>2, ReadAwaiting DEF Awaited, Awaits
    <3>3. CASE what = "resumed"
      BY <1>1, <1>2, <1>5, <3>3, ReadResumed
    <3> QED BY <1>1, <3>1, <3>2, <3>3, ReadAwaiting
  <2>2. ASSUME NEW j \in OutAt(out', "resumed")
        PROVE  /\ awaiting # 0 /\ requests[awaiting].kind # "pause"
               /\ requests[awaiting].answer = "ok"
               /\ \A k \in OutAt(out', "resumed") : j = k
               /\ \A k \in DOMAIN out' : out'[k] = <<"answer", awaiting>> => k < j
    <3>1. \A k \in OutAt(out', "resumed") : k \in Nat /\ k + 1 \in OutAt(out, "resumed")
      BY <1>4, OutShrinks
    <3>2. PICK a : a = <<"answer", awaiting>>
      OBVIOUS
    <3>3. /\ awaiting # 0 /\ requests[awaiting].kind # "pause"
          /\ requests[awaiting].answer = "ok"
          /\ \A k \in OutAt(out, "resumed") : j + 1 = k
          /\ \A k \in DOMAIN out : out[k] = a => k < j + 1
      BY <2>2, <3>1, <3>2 DEF Awaited
    <3>4. \A k \in DOMAIN out' : out'[k] = a => k + 1 < j + 1 /\ k \in Nat
      BY <1>4, <3>3 DEF Shrinks
    <3> QED BY <2>2, <3>1, <3>2, <3>3, <3>4
  <2> QED BY <1>2, <1>5, <2>1, <2>2 DEF Awaited
<1>6. CASE awaiting' # awaiting
  <2>1. /\ awaiting' = 0 /\ requests[awaiting].answer # "none"
        /\ requests[awaiting].answer = "error" \/ what = EventOf(awaiting)
    BY <1>1, <1>6, ReadEnds
  <2>2. /\ \A k \in DOMAIN cmds : ~Leads(cmds[k].cb.step)
        /\ \A k \in DOMAIN msgs : ~Leads(msgs[k].cb.step)
    BY <2>1, OneLead
  <2>3. OutAt(out', "resumed") = {}
    <3>1. CASE what = "resumed"
      <4>1. OutAt(out, "resumed") = {1}
        BY <1>1, <3>1, ReadResumed
      <4> QED BY <1>4, <4>1, OutShrinks
    <3>2. CASE what # "resumed"
      <4>1. requests[awaiting].answer = "error" \/ requests[awaiting].kind = "pause"
        BY <2>1, <3>2 DEF EventOf
      <4>2. OutAt(out, "resumed") = {}
        BY <4>1 DEF Awaited
      <4> QED BY <1>4, <4>2, OutShrinks
    <3> QED BY <3>1, <3>2
  <2> QED BY <1>2, <2>1, <2>2, <2>3 DEF Awaited, Awaits
<1> QED BY <1>5, <1>6

\* V8 answers with the callback of the command.
LEMMA V8Awaited == TypeOK /\ Fits /\ Awaited /\ (V8 \/ Stop) => Awaited'
<1> SUFFICES ASSUME TypeOK, Fits, Awaited, V8 \/ Stop PROVE Awaited'
  OBVIOUS
<1>1. CASE ServeCommand
  <2>1. PICK c : c = Head(cmds)
    OBVIOUS
  <2>2. PICK m : Shrinks(cmds, cmds', c) /\ Grows(msgs, msgs', m) /\ Outcome(c, m)
                 /\ UNCHANGED <<requests, view, awaiting, out>>
    BY <1>1, <2>1, ServeAdds
  <2>3. m.cb = c.cb
    BY <2>2 DEF Outcome
  <2>4. \A k \in DOMAIN cmds' : Leads(cmds'[k].cb.step) => cmds'[k].cb.req = awaiting
    BY <2>2 DEF Shrinks, Awaited
  <2>5. \A k \in DOMAIN msgs' : Leads(msgs'[k].cb.step) => msgs'[k].cb.req = awaiting
    BY <2>2, <2>3 DEF Shrinks, Grows, Awaited
  <2> QED BY <2>2, <2>4, <2>5 DEF Awaited
<1>2. CASE EnterDebugger \/ LeaveDebugger
  BY <1>2 DEF EnterDebugger, LeaveDebugger, clientVars, Awaited
<1>3. CASE Stop
  <2>1. PICK m : Grows(msgs, msgs', m) /\ m.cb.step = "stopped"
                 /\ UNCHANGED <<requests, view, awaiting, out, cmds>>
    BY <1>3, StopAdds
  <2>2. \A k \in DOMAIN msgs' : Leads(msgs'[k].cb.step) => msgs'[k].cb.req = awaiting
    BY <2>1 DEF Grows, Awaited, Leads
  <2> QED BY <2>1, <2>2 DEF Awaited
<1> QED BY <1>1, <1>2, <1>3 DEF V8

------------------------------------------------------------------------------
(* What the front-end is told of the program.                                *)

\* What is under way of run control excludes the rest of it.
LEMMA LeadsAlone ==
  ASSUME TypeOK, Fits, Underway, Awaited
  PROVE  /\ At(cmds, "continued") # {} =>
              view = "paused" /\ At(msgs, "continued") = {} /\ OutAt(out, "resumed") = {}
         /\ At(msgs, "continued") # {} =>
              view = "paused" /\ At(cmds, "continued") = {} /\ OutAt(out, "resumed") = {}
         /\ At(msgs, "suspended") # {} =>
              /\ At(msgs, "continued") = {} /\ OutAt(out, "resumed") = {}
              /\ At(cmds, "continued") = {}
         /\ \A j, k \in At(msgs, "continued") : j = k
         /\ \A j, k \in At(cmds, "continued") : j = k
<1>1. ASSUME requests[awaiting].answer = "none" PROVE OutAt(out, "resumed") = {}
  BY <1>1 DEF Awaited
<1>2. ASSUME awaiting # 0, requests[awaiting].kind # "pause" PROVE view = "paused"
  BY <1>2 DEF Awaited, Awaits
<1>3. \A step : Leads(step) =>
        /\ \A j, k \in At(cmds, step) : j = k
        /\ \A j, k \in At(msgs, step) : j = k
        /\ At(cmds, step) # {} \/ At(msgs, step) # {} =>
             awaiting # 0 /\ OutAt(out, "resumed") = {}
  BY <1>1, OneLead DEF At
<1>4. Leads("continued") /\ Leads("suspended")
  BY DEF Leads
<1>5. ASSUME At(cmds, "continued") # {} \/ At(msgs, "continued") # {} PROVE view = "paused"
  BY <1>2, <1>3, <1>4, <1>5, LeadKind DEF At
<1>6. At(cmds, "continued") = {} \/ At(msgs, "continued") = {}
  BY <1>4, OneLead DEF At
<1>7. ASSUME At(msgs, "suspended") # {}
      PROVE  At(msgs, "continued") = {} /\ At(cmds, "continued") = {}
  BY <1>7, LeadKind DEF At
<1> QED BY <1>3, <1>4, <1>5, <1>6, <1>7

\* A method changes nothing of it.
LEMMA MethodControl ==
  TypeOK /\ Fits /\ Told /\ InOrder /\ Method => Told' /\ InOrder'
<1> SUFFICES ASSUME TypeOK, Fits, Told, InOrder, Method PROVE Told' /\ InOrder'
  OBVIOUS
<1>1. PICK q, c : Called(q, c) /\ Grows(cmds, cmds', c)
  BY MethodAdds
<1>2. /\ UNCHANGED <<msgs, out, view, v8>>
      /\ c.cb.step # "cleared" /\ c.cb.step # "paused"
  BY <1>1 DEF Called
<1>3. /\ At(cmds', "cleared") = At(cmds, "cleared") /\ At(cmds', "paused") = At(cmds, "paused")
  BY <1>1, <1>2, AtGrows
<1>4. /\ \A k \in At(cmds', "continued") : k \in At(cmds, "continued") \/ k = Len(cmds) + 1
      /\ \A k \in At(cmds, "paused") : k < Len(cmds) + 1
  BY <1>1, AtGrows
<1>5. Told'
  BY <1>2, <1>3 DEF Told, Going, Heard
<1>6. ClearingFirst' /\ StopFirst' /\ ClearedFirst'
  BY <1>2, <1>3 DEF InOrder, ClearingFirst, StopFirst, ClearedFirst
<1>7. FramesFirst'
  BY <1>3, <1>4 DEF InOrder, FramesFirst
<1> QED BY <1>5, <1>6, <1>7 DEF InOrder

\* V8 comes and goes as long as it is not waiting.
LEMMA EnterLeaveControl ==
  Told /\ InOrder /\ (EnterDebugger \/ LeaveDebugger) => Told' /\ InOrder'
<1> SUFFICES ASSUME Told, InOrder, EnterDebugger \/ LeaveDebugger PROVE Told' /\ InOrder'
  OBVIOUS
<1>1. /\ UNCHANGED <<msgs, out, view, cmds>>
      /\ v8 # "waiting" /\ v8' # "waiting"
  BY DEF EnterDebugger, LeaveDebugger, clientVars
<1>2. Told'
  BY <1>1 DEF Told, Going, Heard
<1>3. InOrder'
  BY <1>1 DEF InOrder, ClearingFirst, StopFirst, ClearedFirst, FramesFirst
<1> QED BY <1>2, <1>3

\* The program stops while there is no news.
LEMMA StopControl ==
  TypeOK /\ Fits /\ Underway /\ Awaited /\ Told /\ InOrder /\ Stop => Told' /\ InOrder'
<1> SUFFICES ASSUME TypeOK, Fits, Underway, Awaited, Told, InOrder, Stop
             PROVE  Told' /\ InOrder'
  OBVIOUS
<1>1. PICK m : /\ Grows(msgs, msgs', m) /\ m.cb.step = "stopped"
               /\ UNCHANGED <<out, view, cmds>> /\ v8 = "program" /\ v8' = "waiting"
  BY StopAdds
<1>2. Going /\ ~Heard
  BY <1>1 DEF Told
<1>3. PICK n \in Nat : n = Len(msgs) + 1
  BY <1>1 DEF Grows
<1>4. /\ \A step : step # "stopped" => At(msgs', step) = At(msgs, step)
      /\ At(msgs', "stopped") = At(msgs, "stopped") \cup {n}
      /\ \A step : \A k \in At(msgs, step) : k \in Nat /\ k < n
  BY <1>1, <1>3, AtGrows
<1>5. /\ News(msgs', "suspended") = News(msgs, "suspended")
      /\ News(msgs', "cleared") = News(msgs, "cleared")
      /\ News(msgs', "paused") = News(msgs, "paused")
      /\ News(msgs', "stopped") = News(msgs, "stopped") \cup {n}
  BY <1>1, <1>3, NewsGrows
<1>6. NewOuts(out', msgs') = NewOuts(out, msgs)
  BY <1>1, <1>4 DEF NewOuts
<1>7. Told'
  <2>1. Going'
    BY <1>1, <1>2, <1>4 DEF Going
  <2> QED BY <1>1, <1>5, <2>1 DEF Told, Heard
<1>8. At(msgs, "stopped") = {} /\ At(msgs, "cleared") = {} /\ At(msgs, "suspended") = {}
  <2>1. \A k \in At(msgs, "suspended") : k \in News(msgs, "suspended")
    BY LeadsAlone DEF News
  <2> QED BY <1>2, <2>1 DEF Heard, InOrder, StopFirst, ClearedFirst
<1>9. ClearingFirst' /\ ClearedFirst' /\ FramesFirst'
  BY <1>1, <1>2, <1>4, <1>8 DEF Heard, InOrder, ClearingFirst, ClearedFirst, FramesFirst
<1>10. StopFirst'
  BY <1>1, <1>2, <1>4, <1>5, <1>6, <1>8 DEF Heard, StopFirst
<1> QED BY <1>7, <1>9, <1>10 DEF InOrder

\* V8 serves a command: the request to pause, the request to go on, ...
LEMMA ServeControl ==
  TypeOK /\ Fits /\ Underway /\ Awaited /\ Told /\ InOrder /\ ServeCommand => Told' /\ InOrder'
<1> SUFFICES ASSUME TypeOK, Fits, Underway, Awaited, Told, InOrder, ServeCommand
             PROVE  Told' /\ InOrder'
  OBVIOUS
<1>0. PICK c : c = Head(cmds)
  OBVIOUS
<1>1. PICK m : /\ Shrinks(cmds, cmds', c) /\ Grows(msgs, msgs', m) /\ CmdFits(c, requests)
               /\ Outcome(c, m) /\ v8 # "program" /\ UNCHANGED <<out, view>>
  BY <1>0, ServeAdds
<1>2. /\ m.cb.step = c.cb.step /\ c.cb.step # "stopped"
      /\ v8' = IF c.cb.step = "suspended" THEN "waiting"
               ELSE IF c.cb.step = "continued" THEN "serving" ELSE v8
  BY <1>1 DEF Outcome, CmdFits
<1>3. PICK n \in Nat : n = Len(msgs) + 1
  BY <1>1 DEF Grows
<1>4. \A step :
        /\ m.cb.step = step => At(msgs', step) = At(msgs, step) \cup {n}
        /\ m.cb.step # step => At(msgs', step) = At(msgs, step)
        /\ \A k \in At(msgs, step) : k \in Nat /\ k < n
  BY <1>1, <1>3, AtGrows
<1>5. \A step :
        /\ \A k \in At(cmds', step) : k \in Nat \ {0} /\ k + 1 \in At(cmds, step)
        /\ \A k \in At(cmds, step) : k \in Nat \ {0} /\ (k = 1 \/ k - 1 \in At(cmds', step))
        /\ 1 \in At(cmds, step) <=> c.cb.step = step
  BY <1>1, AtShrinks
<1>6. \A step : step # "continued" =>
        /\ m.cb.step = step => News(msgs', step) = News(msgs, step) \cup {n}
        /\ m.cb.step # step /\ m.cb.step # "continued" => News(msgs', step) = News(msgs, step)
        /\ m.cb.step = "continued" => News(msgs', step) = {}
        /\ \A k \in News(msgs, step) : k \in At(msgs, step)
  BY <1>1, <1>3, NewsGrows
<1>7. FramesFirst'
  BY <1>5 DEF InOrder, FramesFirst
<1>8. CASE m.cb.step = "continued"
  <2>1. /\ 1 \in At(cmds, "continued") /\ At(msgs, "continued") = {}
        /\ ~Going
    BY <1>2, <1>5, <1>8, LeadsAlone DEF Going
  <2>2. At(cmds, "cleared") = {} /\ At(msgs, "stopped") = {} /\ At(msgs, "cleared") = {}
    BY <2>1 DEF Told
  <2>3. At(cmds', "paused") = {} /\ At(cmds', "cleared") = {}
    BY <1>2, <1>5, <1>8, <2>1, <2>2 DEF InOrder, FramesFirst
  <2>4. /\ News(msgs', "suspended") = {} /\ News(msgs', "stopped") = {}
        /\ News(msgs', "cleared") = {} /\ News(msgs', "paused") = {}
        /\ NewOuts(out', msgs') = {} /\ At(msgs', "continued") # {}
        /\ At(msgs', "stopped") = {} /\ At(msgs', "cleared") = {}
    BY <1>4, <1>6, <1>8, <2>2 DEF NewOuts
  <2>5. Told'
    BY <1>2, <1>8, <2>3, <2>4 DEF Told, Going, Heard
  <2>6. ClearingFirst' /\ StopFirst' /\ ClearedFirst'
    BY <2>3, <2>4 DEF ClearingFirst, StopFirst, ClearedFirst
  <2> QED BY <1>7, <2>5, <2>6 DEF InOrder
<1>9. CASE m.cb.step # "continued"
  <2>1. At(msgs', "continued") = At(msgs, "continued") /\ NewOuts(out', msgs') = NewOuts(out, msgs)
    BY <1>1, <1>4, <1>9 DEF NewOuts
  <2>2. Going' <=> Going
    BY <1>1, <2>1 DEF Going
  <2>3. /\ News(msgs', "stopped") = News(msgs, "stopped")
        /\ At(msgs', "stopped") = At(msgs, "stopped")
    BY <1>2, <1>4, <1>6, <1>9
  <2>4. CASE c.cb.step = "suspended"
    <3>1. /\ News(msgs', "suspended") = News(msgs, "suspended") \cup {n}
          /\ News(msgs', "cleared") = News(msgs, "cleared")
          /\ News(msgs', "paused") = News(msgs, "paused")
          /\ At(msgs', "cleared") = At(msgs, "cleared") /\ v8' = "waiting"
          /\ \A k \in At(cmds', "cleared") : k + 1 \in At(cmds, "cleared")
      BY <1>2, <1>4, <1>5, <1>6, <2>4
    <3>2. Told'
      BY <2>2, <2>3, <3>1 DEF Told, Heard
    <3>3. ClearingFirst'
      BY <1>5, <2>1, <2>3, <3>1 DEF InOrder, ClearingFirst
    <3>4. StopFirst'
      BY <1>2, <1>4, <1>5, <2>1, <2>3, <2>4, <3>1 DEF InOrder, StopFirst
    <3>5. ClearedFirst'
      BY <1>5, <2>1, <3>1 DEF InOrder, ClearedFirst
    <3> QED BY <1>7, <3>2, <3>3, <3>4, <3>5 DEF InOrder
  <2>5. CASE c.cb.step = "cleared"
    <3>1. /\ News(msgs', "suspended") = News(msgs, "suspended")
          /\ News(msgs', "cleared") = News(msgs, "cleared") \cup {n}
          /\ News(msgs', "paused") = News(msgs, "paused")
          /\ At(msgs', "cleared") = At(msgs, "cleared") \cup {n} /\ v8' = v8
      BY <1>2, <1>4, <1>6, <2>5
    <3>2. /\ At(msgs, "stopped") = {} /\ At(msgs, "cleared") = {}
          /\ News(msgs, "paused") = {} /\ NewOuts(out, msgs) = {}
          /\ At(cmds', "cleared") = {} /\ Going /\ v8 = "waiting"
      <4>1. 1 \in At(cmds, "cleared")
        BY <1>5, <2>5
      <4>2. \A j \in At(cmds, "cleared") : j = 1
        BY <4>1 DEF InOrder, ClearingFirst
      <4>3. At(cmds', "cleared") = {}
        BY <1>5, <4>2
      <4> QED BY <4>1, <4>3 DEF InOrder, ClearingFirst, Told, Heard
    <3>3. Told'
      BY <2>2, <3>1, <3>2 DEF Told, Heard
    <3>4. ClearingFirst' /\ StopFirst' /\ ClearedFirst'
      BY <2>1, <2>3, <3>1, <3>2 DEF ClearingFirst, StopFirst, ClearedFirst
    <3> QED BY <1>7, <3>3, <3>4 DEF InOrder
  <2>6. CASE c.cb.step = "paused"
    <3>1. /\ News(msgs', "suspended") = News(msgs, "suspended")
          /\ News(msgs', "cleared") = News(msgs, "cleared")
          /\ News(msgs', "paused") = News(msgs, "paused") \cup {n}
          /\ At(msgs', "cleared") = At(msgs, "cleared") /\ v8' = v8
          /\ 1 \in At(cmds, "paused")
      BY <1>2, <1>4, <1>5, <1>6, <2>6
    <3>2. At(cmds, "cleared") = {} /\ At(cmds', "cleared") = {} /\ At(msgs, "stopped") = {}
      BY <1>5, <3>1 DEF InOrder, ClearingFirst, StopFirst
    <3>3. Told'
      BY <2>2, <2>3, <3>1, <3>2 DEF Told, Heard
    <3>4. ClearingFirst' /\ StopFirst'
      BY <2>3, <3>2 DEF ClearingFirst, StopFirst
    <3>5. ClearedFirst'
      BY <1>4, <2>1, <3>1, <3>2 DEF InOrder, ClearedFirst
    <3> QED BY <1>7, <3>3, <3>4, <3>5 DEF InOrder
  <2>7. CASE c.cb.step \notin {"suspended", "cleared", "paused"}
    <3>1. /\ News(msgs', "suspended") = News(msgs, "suspended")
          /\ News(msgs', "cleared") = News(msgs, "cleared")
          /\ News(msgs', "paused") = News(msgs, "paused")
          /\ At(msgs', "cleared") = At(msgs, "cleared") /\ v8' = v8
          /\ At(msgs', "suspended") = At(msgs, "suspended")
      BY <1>2, <1>4, <1>6, <1>9, <2>7
    <3>2. \A step \in {"cleared", "paused"} :
            /\ \A k \in At(cmds', step) : k + 1 \in At(cmds, step)
            /\ \A k \in At(cmds, step) : k - 1 \in At(cmds', step)
      BY <1>5, <2>7
    <3>3. /\ At(cmds', "cleared") = {} <=> At(cmds, "cleared") = {}
          /\ At(cmds', "paused") = {} <=> At(cmds, "paused") = {}
      BY <3>2
    <3>4. Told'
      BY <2>1, <2>2, <2>3, <3>1, <3>3 DEF Told, Heard
    <3>5. ClearingFirst'
      BY <1>5, <2>1, <2>3, <3>1 DEF InOrder, ClearingFirst
    <3>6. StopFirst' /\ ClearedFirst'
      BY <2>1, <2>3, <3>1, <3>3 DEF InOrder, StopFirst, ClearedFirst
    <3> QED BY <1>7, <3>4, <3>5, <3>6 DEF InOrder
  <2> QED BY <2>4, <2>5, <2>6, <2>7
<1> QED BY <1>8, <1>9

\* The front-end reads.
LEMMA ReadControl ==
  TypeOK /\ Fits /\ Underway /\ Awaited /\ Told /\ InOrder /\ Read => Told' /\ InOrder'
<1> SUFFICES ASSUME TypeOK, Fits, Underway, Awaited, Told, InOrder, Read
             PROVE  Told' /\ InOrder'
  OBVIOUS
<1>1. PICK what, r : /\ Shrinks(out, out', <<what, r>>) /\ Head(out) = <<what, r>>
  BY ReadTakes
<1>2. cmds' = cmds /\ msgs' = msgs /\ v8' = v8
  BY ReadTakes
<1>3. PICK x : x = <<what, r>> /\ x[1] = what
  <2>1. <<what, r>>[1] = what
    OBVIOUS
  <2> QED BY <2>1
<1>4. \A kind :
        /\ \A k \in OutAt(out', kind) : k \in Nat \ {0} /\ k + 1 \in OutAt(out, kind)
        /\ \A k \in OutAt(out, kind) : k \in Nat \ {0} /\ (k = 1 \/ k - 1 \in OutAt(out', kind))
        /\ 1 \in OutAt(out, kind) <=> what = kind
  BY <1>1, <1>3, OutShrinks
<1>5. /\ NewOuts(out, msgs) = {} => NewOuts(out', msgs) = {}
      /\ 1 \notin NewOuts(out, msgs) =>
           (NewOuts(out', msgs) = {} => NewOuts(out, msgs) = {})
  <2>1. PICK p, q, a, b, c : /\ p = OutAt(out, "paused") /\ q = OutAt(out', "paused")
                             /\ a = OutAt(out, "resumed") /\ b = OutAt(out', "resumed")
                             /\ c = At(msgs, "continued")
    OBVIOUS
  <2>2. /\ \A k \in q : k \in Nat \ {0} /\ k + 1 \in p
        /\ \A k \in p : k \in Nat \ {0} /\ (k = 1 \/ k - 1 \in q)
        /\ \A k \in b : k \in Nat \ {0} /\ k + 1 \in a
        /\ \A k \in a : k \in Nat \ {0} /\ (k = 1 \/ k - 1 \in b)
    BY <1>4, <2>1
  <2>3. \A k \in NewOuts(out', msgs) : k + 1 \in NewOuts(out, msgs)
    BY <2>1, <2>2 DEF NewOuts
  <2>4. \A k \in NewOuts(out, msgs) : k # 1 => k - 1 \in NewOuts(out', msgs)
    BY <2>1, <2>2 DEF NewOuts
  <2> QED BY <2>3, <2>4
<1>6. InOrder'
  BY <1>2, <1>5 DEF InOrder, ClearingFirst, StopFirst, ClearedFirst, FramesFirst
<1>7. CASE what = "answer"
  <2>1. view' = view
    BY <1>1, <1>7, ReadAwaiting
  <2>2. Going' <=> Going
    BY <1>2, <1>4, <1>7, <2>1 DEF Going
  <2>3. NewOuts(out', msgs) = {} <=> NewOuts(out, msgs) = {}
    BY <1>4, <1>5, <1>7 DEF NewOuts
  <2> QED BY <1>2, <1>6, <2>2, <2>3 DEF Told, Heard
<1>8. CASE what = "resumed"
  <2>1. /\ OutAt(out, "resumed") = {1} /\ view' = "running" /\ requests[awaiting].answer = "ok"
    BY <1>1, <1>8, ReadResumed
  <2>2. Going /\ Going'
    BY <2>1 DEF Going
  <2>3. NewOuts(out', msgs) = {} <=> NewOuts(out, msgs) = {}
    BY <1>4, <1>5, <1>8 DEF NewOuts
  <2> QED BY <1>2, <1>6, <2>2, <2>3 DEF Told, Heard
<1>9. CASE what = "paused"
  <2>1. view' = "paused" /\ 1 \in OutAt(out, "paused")
    BY <1>1, <1>4, <1>9, ReadAwaiting
  <2>2. CASE 1 \in NewOuts(out, msgs)
    <3>1. At(msgs, "continued") = {} /\ OutAt(out', "resumed") = {}
      BY <1>4, <2>2 DEF NewOuts
    <3>2. ~Going'
      BY <1>2, <2>1, <3>1 DEF Going
    <3>3. At(cmds, "cleared") = {} /\ At(msgs, "stopped") = {} /\ At(msgs, "cleared") = {}
      BY <2>2 DEF InOrder, ClearingFirst, StopFirst, ClearedFirst
    <3>4. v8 = "waiting"
      BY <2>2 DEF Told, Heard
    <3> QED BY <1>2, <1>6, <3>2, <3>3, <3>4 DEF Told
  <2>3. CASE 1 \notin NewOuts(out, msgs)
    <3>1. At(msgs, "continued") # {} \/ \E j \in OutAt(out, "resumed") : j # 1
      BY <1>4, <2>1, <2>3 DEF NewOuts
    <3>2. Going /\ Going'
      BY <1>2, <1>4, <3>1 DEF Going
    <3>3. NewOuts(out', msgs) = {} <=> NewOuts(out, msgs) = {}
      BY <1>5, <2>3
    <3> QED BY <1>2, <1>6, <3>2, <3>3 DEF Told, Heard
  <2> QED BY <2>2, <2>3
<1> QED BY <1>1, <1>7, <1>8, <1>9, ReadAwaiting

\* The first message taken, and perhaps a command sent.
LEMMA CallbackPlaces ==
  ASSUME TypeOK, Fits, OnDebuggerMessage, NEW m, m = Head(msgs)
  PROVE  /\ \A step :
              /\ \A k \in At(msgs', step) : k \in Nat \ {0} /\ k + 1 \in At(msgs, step)
              /\ \A k \in At(msgs, step) : k \in Nat \ {0} /\ (k = 1 \/ k - 1 \in At(msgs', step))
              /\ 1 \in At(msgs, step) <=> m.cb.step = step
              /\ \A k \in News(msgs', step) : k \in Nat \ {0} /\ k + 1 \in News(msgs, step)
              /\ \A k \in News(msgs, step) : k = 1 \/ k - 1 \in News(msgs', step)
              /\ 1 \in News(msgs, step) => m.cb.step = step /\ At(msgs, "continued") = {}
              /\ m.cb.step = step /\ At(msgs, "continued") = {} => 1 \in News(msgs, step)
         /\ \A c : Sends(c) =>
              \E n \in Nat : \A step :
                /\ c.cb.step = step => At(cmds', step) = At(cmds, step) \cup {n}
                /\ c.cb.step # step => At(cmds', step) = At(cmds, step)
                /\ \A k \in At(cmds, step) : k \in Nat /\ k < n
         /\ view' = view /\ v8' = v8
<1>1. /\ Shrinks(msgs, msgs', m) /\ view' = view /\ v8' = v8
      /\ \A c : Sends(c) => Grows(cmds, cmds', c)
  BY CallbackKeeps
<1>2. ASSUME NEW c, Sends(c)
      PROVE  \E n \in Nat : \A step :
                /\ c.cb.step = step => At(cmds', step) = At(cmds, step) \cup {n}
                /\ c.cb.step # step => At(cmds', step) = At(cmds, step)
                /\ \A k \in At(cmds, step) : k \in Nat /\ k < n
  <2>1. Grows(cmds, cmds', c)
    BY <1>1, <1>2
  <2>2. PICK n \in Nat : n = Len(cmds) + 1
    BY <2>1 DEF Grows
  <2> QED BY <2>1, <2>2, AtGrows
<1>3. ASSUME NEW step
      PROVE  /\ \A k \in At(msgs', step) : k \in Nat \ {0} /\ k + 1 \in At(msgs, step)
             /\ \A k \in At(msgs, step) : k \in Nat \ {0} /\ (k = 1 \/ k - 1 \in At(msgs', step))
             /\ 1 \in At(msgs, step) <=> m.cb.step = step
  BY <1>1, AtShrinks
<1>4. ASSUME NEW step
      PROVE  /\ \A k \in News(msgs', step) : k \in Nat \ {0} /\ k + 1 \in News(msgs, step)
             /\ \A k \in News(msgs, step) : k = 1 \/ k - 1 \in News(msgs', step)
             /\ 1 \in News(msgs, step) => m.cb.step = step /\ At(msgs, "continued") = {}
             /\ m.cb.step = step /\ At(msgs, "continued") = {} => 1 \in News(msgs, step)
  BY <1>1, NewsShrinks
<1> QED BY <1>1, <1>2, <1>3, <1>4

\* What an answer or an event adds to what the front-end reads.
Adds(o, p, what) ==
  \E n \in Nat : \A kind :
    /\ kind = what => OutAt(p, kind) = OutAt(o, kind) \cup {n}
    /\ kind # what => OutAt(p, kind) = OutAt(o, kind)
    /\ \A k \in OutAt(o, kind) : k \in Nat /\ k < n

\* Append adds like this.
LEMMA OutPlaces ==
  ASSUME NEW l \in Nat, NEW o \in Seq(OutType(l)), NEW what \in {"answer", "paused", "resumed"},
         NEW r \in 0..l, NEW p, p = Append(o, <<what, r>>)
  PROVE  p \in Seq(OutType(l)) /\ Adds(o, p, what)
<1>1. PICK x : x = <<what, r>> /\ x[1] = what
  <2>1. <<what, r>>[1] = what
    OBVIOUS
  <2> QED BY <2>1
<1>2. x \in OutType(l)
  BY <1>1 DEF OutType
<1>3. p \in Seq(OutType(l)) /\ Grows(o, p, x)
  BY <1>1, <1>2, GrowsShrinks
<1>4. PICK n \in Nat : n = Len(o) + 1
  BY <1>3 DEF Grows
<1>5. ASSUME NEW kind
      PROVE  /\ kind = what => OutAt(p, kind) = OutAt(o, kind) \cup {n}
             /\ kind # what => OutAt(p, kind) = OutAt(o, kind)
             /\ \A k \in OutAt(o, kind) : k \in Nat /\ k < n
  <2>1. /\ x[1] = kind => OutAt(p, kind) = OutAt(o, kind) \cup {n}
        /\ x[1] # kind => OutAt(p, kind) = OutAt(o, kind)
        /\ \A k \in OutAt(o, kind) : k \in Nat /\ k < n
    BY <1>3, <1>4, OutGrows
  <2> QED BY <1>1, <2>1
<1> QED BY <1>3, <1>4, <1>5 DEF Adds

\* The answers and events of a callback.
LEMMA OutAdded ==
  ASSUME TypeOK, Fits, OnDebuggerMessage, NEW m, m = Head(msgs)
  PROVE  /\ out' = Append(out, <<"answer", m.cb.req>>) => Adds(out, out', "answer")
         /\ out' = Append(out, <<"paused", 0>>) => Adds(out, out', "paused")
         /\ out' = Append(Append(out, <<"answer", m.cb.req>>), <<"resumed", 0>>) =>
              \E o : Adds(out, o, "answer") /\ Adds(o, out', "resumed")
<1>1. PICK l \in Nat : l = Len(requests)
  BY TypeParts DEF RequestsType
<1>2. out \in Seq(OutType(l)) /\ m.cb.req \in 0..l /\ 0 \in 0..l
  BY <1>1, TypeParts, CallbackKeeps DEF OutsType, MsgType, CbType
<1>3. "answer" \in {"answer", "paused", "resumed"} /\ "paused" \in {"answer", "paused", "resumed"}
      /\ "resumed" \in {"answer", "paused", "resumed"}
  OBVIOUS
<1>4. ASSUME NEW p, p = Append(out, <<"answer", m.cb.req>>)
      PROVE  p \in Seq(OutType(l)) /\ Adds(out, p, "answer")
  BY <1>2, <1>3, <1>4, OutPlaces
<1>5. ASSUME out' = Append(out, <<"paused", 0>>) PROVE Adds(out, out', "paused")
  BY <1>2, <1>3, <1>5, OutPlaces
<1>6. ASSUME out' = Append(Append(out, <<"answer", m.cb.req>>), <<"resumed", 0>>)
      PROVE  \E o : Adds(out, o, "answer") /\ Adds(o, out', "resumed")
  <2>1. PICK o : o = Append(out, <<"answer", m.cb.req>>)
    OBVIOUS
  <2>2. o \in Seq(OutType(l)) /\ Adds(out, o, "answer")
    BY <1>4, <2>1
  <2>3. out' = Append(o, <<"resumed", 0>>)
    BY <1>6, <2>1
  <2>4. Adds(o, out', "resumed")
    BY <1>2, <1>3, <2>2, <2>3, OutPlaces
  <2> QED BY <2>2, <2>4
<1> QED BY <1>4, <1>5, <1>6

\* Callbacks that have nothing to do with it.
LEMMA OtherControl ==
  ASSUME TypeOK, Fits, Underway, Awaited, Told, InOrder, OnDebuggerMessage,
         NEW m, m = Head(msgs), Replies(m) \/ AsksOn(m) \/ GoesOn(m)
  PROVE  Told' /\ InOrder'
<1>1. m.cb.step \notin {"suspended", "stopped", "cleared", "paused", "continued"}
  BY DEF Replies, AsksOn, GoesOn
<1>2. \A step \in {"suspended", "stopped", "cleared", "paused", "continued"} :
        /\ \A k \in At(msgs', step) : k \in Nat \ {0} /\ k + 1 \in At(msgs, step)
        /\ \A k \in At(msgs, step) : k \in Nat \ {0} /\ k - 1 \in At(msgs', step)
        /\ \A k \in News(msgs', step) : k \in Nat \ {0} /\ k + 1 \in News(msgs, step)
        /\ \A k \in News(msgs, step) : k \in Nat \ {0} /\ k - 1 \in News(msgs', step)
  <2>1. \A step : \A k \in News(msgs, step) : k \in At(msgs, step)
    BY DEF News
  <2> QED BY <1>1, <2>1, CallbackPlaces
<1>3. /\ view' = view /\ v8' = v8
      /\ At(cmds', "cleared") = At(cmds, "cleared") /\ At(cmds', "paused") = At(cmds, "paused")
      /\ \A j \in At(cmds', "continued"), k \in At(cmds, "paused") :
           j \in At(cmds, "continued") \/ k < j
  <2>1. CASE Replies(m)
    BY <2>1, CallbackPlaces DEF Replies
  <2>2. CASE AsksOn(m) \/ GoesOn(m)
    <3>1. PICK c : Sends(c) /\ c.cb.step \in {"changed", "excepted", "continued"}
      BY <2>2 DEF AsksOn, GoesOn
    <3>2. PICK n \in Nat : \A step :
                /\ c.cb.step = step => At(cmds', step) = At(cmds, step) \cup {n}
                /\ c.cb.step # step => At(cmds', step) = At(cmds, step)
                /\ \A k \in At(cmds, step) : k \in Nat /\ k < n
      BY <3>1, CallbackPlaces
    <3> QED BY <3>1, <3>2, CallbackPlaces
  <2> QED BY <2>1, <2>2
<1>4. OutAt(out', "paused") = OutAt(out, "paused") /\ OutAt(out', "resumed") = OutAt(out, "resumed")
  <2>1. CASE Replies(m)
    <3>1. Adds(out, out', "answer")
      BY <2>1, OutAdded DEF Replies
    <3> QED BY <3>1 DEF Adds
  <2>2. CASE AsksOn(m) \/ GoesOn(m)
    BY <2>2 DEF AsksOn, GoesOn
  <2> QED BY <2>1, <2>2
<1>5. /\ At(msgs', "continued") = {} <=> At(msgs, "continued") = {}
      /\ At(msgs', "stopped") = {} <=> At(msgs, "stopped") = {}
      /\ At(msgs', "cleared") = {} <=> At(msgs, "cleared") = {}
      /\ News(msgs', "suspended") = {} <=> News(msgs, "suspended") = {}
      /\ News(msgs', "stopped") = {} <=> News(msgs, "stopped") = {}
      /\ News(msgs', "cleared") = {} <=> News(msgs, "cleared") = {}
      /\ News(msgs', "paused") = {} <=> News(msgs, "paused") = {}
  BY <1>2
<1>6. NewOuts(out', msgs') = NewOuts(out, msgs)
  BY <1>4, <1>5 DEF NewOuts
<1>7. Told'
  BY <1>3, <1>4, <1>5, <1>6 DEF Told, Going, Heard
<1>8. ClearingFirst' /\ FramesFirst'
  BY <1>3, <1>5, <1>6 DEF InOrder, ClearingFirst, FramesFirst
<1>9. StopFirst'
  <2> SUFFICES ASSUME NEW i \in At(msgs', "stopped")
      PROVE /\ At(cmds, "cleared") = {} /\ At(msgs', "cleared") = {} /\ At(cmds, "paused") = {}
            /\ News(msgs', "paused") = {} /\ NewOuts(out', msgs') = {}
            /\ i \in News(msgs', "stopped")
            /\ \A j \in At(msgs', "stopped") : j = i
            /\ \A j \in At(msgs', "suspended") : i < j
    BY <1>3 DEF StopFirst
  <2>1. i \in Nat \ {0} /\ i + 1 \in At(msgs, "stopped")
    BY <1>2
  <2>2. /\ At(cmds, "cleared") = {} /\ At(msgs, "cleared") = {} /\ At(cmds, "paused") = {}
        /\ News(msgs, "paused") = {} /\ NewOuts(out, msgs) = {}
        /\ i + 1 \in News(msgs, "stopped")
        /\ \A j \in At(msgs, "stopped") : j = i + 1
        /\ \A j \in At(msgs, "suspended") : i + 1 < j
    BY <2>1 DEF InOrder, StopFirst
  <2>3. i \in News(msgs', "stopped")
    <3>1. (i + 1) - 1 \in News(msgs', "stopped")
      BY <1>2, <2>2
    <3> QED BY <2>1, <3>1
  <2> QED BY <1>2, <1>5, <1>6, <2>1, <2>2, <2>3
<1>10. ClearedFirst'
  <2> SUFFICES ASSUME NEW i \in At(msgs', "cleared")
      PROVE /\ At(cmds, "cleared") = {} /\ NewOuts(out', msgs') = {}
            /\ i \in News(msgs', "cleared")
            /\ \A j \in At(msgs', "cleared") : j = i
            /\ \A j \in News(msgs', "paused") : i < j
    BY <1>3 DEF ClearedFirst
  <2>1. i \in Nat \ {0} /\ i + 1 \in At(msgs, "cleared")
    BY <1>2
  <2>2. /\ At(cmds, "cleared") = {} /\ NewOuts(out, msgs) = {}
        /\ i + 1 \in News(msgs, "cleared")
        /\ \A j \in At(msgs, "cleared") : j = i + 1
        /\ \A j \in News(msgs, "paused") : i + 1 < j
    BY <2>1 DEF InOrder, ClearedFirst
  <2>3. i \in News(msgs', "cleared")
    <3>1. (i + 1) - 1 \in News(msgs', "cleared")
      BY <1>2, <2>2
    <3> QED BY <2>1, <3>1
  <2> QED BY <1>2, <1>6, <2>1, <2>2, <2>3
<1> QED BY <1>7, <1>8, <1>9, <1>10 DEF InOrder

\* pause has stopped the program: its answer, and the frames are asked for.
LEMMA SuspendsControl ==
  ASSUME TypeOK, Fits, Underway, Awaited, Told, InOrder, OnDebuggerMessage,
         NEW m, m = Head(msgs), Suspends(m)
  PROVE  Told' /\ InOrder'
<1>1. m.cb.step = "suspended" /\ out' = Append(out, <<"answer", m.cb.req>>)
  BY DEF Suspends
<1>2. PICK c : Sends(c) /\ c.cb.step = "paused"
  BY DEF Suspends
<1>3. PICK n \in Nat : \A step :
        /\ c.cb.step = step => At(cmds', step) = At(cmds, step) \cup {n}
        /\ c.cb.step # step => At(cmds', step) = At(cmds, step)
        /\ \A k \in At(cmds, step) : k \in Nat /\ k < n
  BY <1>2, CallbackPlaces
<1>4. /\ 1 \in At(msgs, "suspended") /\ At(msgs, "continued") = {}
      /\ OutAt(out, "resumed") = {} /\ At(cmds, "continued") = {}
  BY <1>1, CallbackPlaces, LeadsAlone
<1>5. At(msgs, "stopped") = {}
  BY <1>4, CallbackPlaces DEF InOrder, StopFirst
<1>6. /\ At(msgs', "continued") = {} /\ At(msgs', "stopped") = {}
      /\ \A k \in At(msgs', "cleared") : k \in Nat /\ k + 1 \in At(msgs, "cleared")
      /\ \A k \in News(msgs', "paused") : k \in Nat /\ k + 1 \in News(msgs, "paused")
      /\ \A k \in News(msgs, "cleared") : k \in Nat /\ k # 1 /\ k - 1 \in News(msgs', "cleared")
  <2>1. \A step : \A k \in News(msgs, step) : k \in At(msgs, step)
    BY DEF News
  <2> QED BY <1>1, <1>4, <1>5, <2>1, CallbackPlaces
<1>7. OutAt(out', "paused") = OutAt(out, "paused") /\ OutAt(out', "resumed") = {}
  <2>1. Adds(out, out', "answer")
    BY <1>1, OutAdded
  <2> QED BY <1>4, <2>1 DEF Adds
<1>8. NewOuts(out', msgs') = NewOuts(out, msgs)
  BY <1>4, <1>6, <1>7 DEF NewOuts
<1>9. view' = view /\ v8' = v8
  BY CallbackPlaces
<1>10. Told'
  <2>1. CASE Going
    <3>1. Going' /\ Heard'
      BY <1>2, <1>3, <1>4, <1>9, <2>1 DEF Going, Heard
    <3>2. Heard
      BY <1>1, <1>4, CallbackPlaces DEF Heard
    <3> QED BY <1>9, <2>1, <3>1, <3>2 DEF Told
  <2>2. CASE ~Going
    <3>1. ~Going'
      BY <1>6, <1>7, <1>9, <2>2 DEF Going
    <3> QED BY <1>2, <1>3, <1>6, <1>9, <2>2, <3>1 DEF Told
  <2> QED BY <2>1, <2>2
<1>11. At(cmds', "cleared") = At(cmds, "cleared")
       /\ At(cmds', "paused") = At(cmds, "paused") \cup {n}
       /\ At(cmds', "continued") = {}
  BY <1>2, <1>3, <1>4
<1>12. ClearingFirst'
  BY <1>3, <1>6, <1>8, <1>11 DEF InOrder, ClearingFirst
<1>13. StopFirst' /\ FramesFirst'
  BY <1>6, <1>11 DEF StopFirst, FramesFirst
<1>14. ClearedFirst'
  <2> SUFFICES ASSUME NEW i \in At(msgs', "cleared")
      PROVE /\ At(cmds, "cleared") = {} /\ NewOuts(out', msgs') = {}
            /\ i \in News(msgs', "cleared")
            /\ \A j \in At(msgs', "cleared") : j = i
            /\ \A j \in News(msgs', "paused") : i < j
    BY <1>11 DEF ClearedFirst
  <2>1. i \in Nat /\ i + 1 \in At(msgs, "cleared")
    BY <1>6
  <2>2. /\ At(cmds, "cleared") = {} /\ NewOuts(out, msgs) = {}
        /\ i + 1 \in News(msgs, "cleared")
        /\ \A j \in At(msgs, "cleared") : j = i + 1
        /\ \A j \in News(msgs, "paused") : i + 1 < j
    BY <2>1 DEF InOrder, ClearedFirst
  <2>3. i \in News(msgs', "cleared")
    <3>1. (i + 1) - 1 \in News(msgs', "cleared")
      BY <1>6, <2>2
    <3> QED BY <2>1, <3>1
  <2> QED BY <1>6, <1>8, <2>1, <2>2, <2>3
<1> QED BY <1>10, <1>12, <1>13, <1>14 DEF InOrder

\* The program goes on: its answer, and the event.
LEMMA ContinuesControl ==
  ASSUME TypeOK, Fits, Underway, Awaited, Told, InOrder, OnDebuggerMessage,
         NEW m, m = Head(msgs), Continues(m)
  PROVE  Told' /\ InOrder'
<1>1. /\ m.cb.step = "continued" /\ UNCHANGED cmds
      /\ out' = Append(Append(out, <<"answer", m.cb.req>>), <<"resumed", 0>>)
  BY DEF Continues
<1>2. 1 \in At(msgs, "continued") /\ \A j \in At(msgs, "continued") : j = 1
  BY <1>1, CallbackPlaces, LeadsAlone
<1>3. At(msgs', "continued") = {} /\ NewOuts(out, msgs) = {}
  BY <1>2, CallbackPlaces DEF NewOuts
<1>4. \A step \in {"suspended", "stopped", "cleared", "paused"} :
        /\ \A k \in At(msgs', step) : k \in Nat /\ k + 1 \in At(msgs, step)
        /\ \A k \in News(msgs', step) : k \in Nat /\ k + 1 \in News(msgs, step)
        /\ \A k \in News(msgs, step) : k \in Nat /\ k - 1 \in News(msgs', step)
  <2>1. \A step : \A k \in News(msgs, step) : k \in At(msgs, step)
    BY DEF News
  <2> QED BY <1>1, <2>1, CallbackPlaces
<1>5. NewOuts(out', msgs') = {} /\ OutAt(out', "resumed") # {}
  <2>1. PICK o : Adds(o, out', "resumed")
    BY <1>1, OutAdded
  <2>2. PICK n \in Nat : \A kind :
          /\ kind = "resumed" => OutAt(out', kind) = OutAt(o, kind) \cup {n}
          /\ kind # "resumed" => OutAt(out', kind) = OutAt(o, kind)
          /\ \A k \in OutAt(o, kind) : k \in Nat /\ k < n
    BY <2>1 DEF Adds
  <2> QED BY <2>2 DEF NewOuts
<1>6. view' = view /\ v8' = v8
  BY CallbackPlaces
<1>7. Going /\ Going'
  BY <1>2, <1>5 DEF Going
<1>8. Heard' <=> Heard
  <2>1. /\ News(msgs', "suspended") = {} <=> News(msgs, "suspended") = {}
        /\ News(msgs', "stopped") = {} <=> News(msgs, "stopped") = {}
        /\ News(msgs', "cleared") = {} <=> News(msgs, "cleared") = {}
        /\ News(msgs', "paused") = {} <=> News(msgs, "paused") = {}
    BY <1>4
  <2> QED BY <1>1, <1>3, <1>5, <2>1 DEF Heard
<1>9. Told'
  BY <1>6, <1>7, <1>8 DEF Told
<1>10. ClearingFirst' /\ FramesFirst'
  <2>1. /\ At(msgs, "stopped") = {} => At(msgs', "stopped") = {}
        /\ At(msgs, "cleared") = {} => At(msgs', "cleared") = {}
        /\ News(msgs, "paused") = {} => News(msgs', "paused") = {}
    BY <1>4
  <2> QED BY <1>1, <1>5, <2>1 DEF InOrder, ClearingFirst, FramesFirst
<1>11. StopFirst'
  <2> SUFFICES ASSUME NEW i \in At(msgs', "stopped")
      PROVE /\ At(cmds, "cleared") = {} /\ At(msgs', "cleared") = {} /\ At(cmds, "paused") = {}
            /\ News(msgs', "paused") = {} /\ i \in News(msgs', "stopped")
            /\ \A j \in At(msgs', "stopped") : j = i
            /\ \A j \in At(msgs', "suspended") : i < j
    BY <1>1, <1>5 DEF StopFirst
  <2>1. i \in Nat /\ i + 1 \in At(msgs, "stopped")
    BY <1>4
  <2>2. /\ At(cmds, "cleared") = {} /\ At(msgs, "cleared") = {} /\ At(cmds, "paused") = {}
        /\ News(msgs, "paused") = {} /\ i + 1 \in News(msgs, "stopped")
        /\ \A j \in At(msgs, "stopped") : j = i + 1
        /\ \A j \in At(msgs, "suspended") : i + 1 < j
    BY <2>1 DEF InOrder, StopFirst
  <2>3. i \in News(msgs', "stopped")
    <3>1. (i + 1) - 1 \in News(msgs', "stopped")
      BY <1>4, <2>2
    <3> QED BY <2>1, <3>1
  <2>4. At(msgs', "cleared") = {} /\ News(msgs', "paused") = {}
    BY <1>4, <2>2
  <2>5. \A j \in At(msgs', "stopped") : j = i
    BY <1>4, <2>1, <2>2
  <2>6. \A j \in At(msgs', "suspended") : i < j
    BY <1>4, <2>1, <2>2
  <2> QED BY <2>2, <2>3, <2>4, <2>5, <2>6
<1>12. ClearedFirst'
  <2> SUFFICES ASSUME NEW i \in At(msgs', "cleared")
      PROVE /\ At(cmds, "cleared") = {} /\ i \in News(msgs', "cleared")
            /\ \A j \in At(msgs', "cleared") : j = i
            /\ \A j \in News(msgs', "paused") : i < j
    BY <1>1, <1>5 DEF ClearedFirst
  <2>1. i \in Nat /\ i + 1 \in At(msgs, "cleared")
    BY <1>4
  <2>2. /\ At(cmds, "cleared") = {} /\ i + 1 \in News(msgs, "cleared")
        /\ \A j \in At(msgs, "cleared") : j = i + 1
        /\ \A j \in News(msgs, "paused") : i + 1 < j
    BY <2>1 DEF InOrder, ClearedFirst
  <2>3. i \in News(msgs', "cleared")
    <3>1. (i + 1) - 1 \in News(msgs', "cleared")
      BY <1>4, <2>2
    <3> QED BY <2>1, <3>1
  <2> QED BY <1>4, <2>1, <2>2, <2>3
<1> QED BY <1>9, <1>10, <1>11, <1>12 DEF InOrder

\* The program has stopped, or the temporary breakpoint is cleared: the next
\* command of the news.
LEMMA StopsClearsControl ==
  ASSUME TypeOK, Fits, Underway, Awaited, Told, InOrder, OnDebuggerMessage,
         NEW m, m = Head(msgs), Stops(m) \/ Clears(m)
  PROVE  Told' /\ InOrder'
<1>1. m.cb.step \in {"stopped", "cleared"} /\ out' = out
  BY DEF Stops, Clears
<1>2. PICK c : /\ Sends(c) /\ c.cb.step \in {"cleared", "paused"}
               /\ m.cb.step = "cleared" => c.cb.step = "paused"
  BY DEF Stops, Clears
<1>3. PICK n \in Nat : \A step :
        /\ c.cb.step = step => At(cmds', step) = At(cmds, step) \cup {n}
        /\ c.cb.step # step => At(cmds', step) = At(cmds, step)
        /\ \A k \in At(cmds, step) : k \in Nat /\ k < n
  BY <1>2, CallbackPlaces
<1>4. view' = view /\ v8' = v8
  BY CallbackPlaces
<1>5. /\ 1 \in At(msgs, m.cb.step)
      /\ 1 \in News(msgs, m.cb.step)
      /\ At(cmds, "cleared") = {} /\ NewOuts(out, msgs) = {}
      /\ \A j \in At(msgs, m.cb.step) : j = 1
      /\ m.cb.step = "stopped" => /\ At(msgs, "cleared") = {} /\ At(cmds, "paused") = {}
                                  /\ News(msgs, "paused") = {}
  <2>1. 1 \in At(msgs, m.cb.step)
    BY CallbackPlaces
  <2>2. CASE m.cb.step = "stopped"
    BY <2>1, <2>2 DEF InOrder, StopFirst
  <2>3. CASE m.cb.step = "cleared"
    BY <2>1, <2>3 DEF InOrder, ClearedFirst
  <2> QED BY <1>1, <2>1, <2>2, <2>3
<1>6. At(msgs, "continued") = {} /\ At(msgs', "continued") = {}
  BY <1>5, CallbackPlaces
<1>7. At(msgs', "stopped") = {} /\ At(msgs', "cleared") = {}
  <2>1. CASE m.cb.step = "stopped"
    BY <1>5, <2>1, CallbackPlaces
  <2>2. CASE m.cb.step = "cleared"
    <3>1. At(msgs, "stopped") = {}
      BY <1>5, <2>2 DEF InOrder, StopFirst
    <3> QED BY <1>5, <2>2, <3>1, CallbackPlaces
  <2> QED BY <1>1, <2>1, <2>2
<1>8. Going /\ v8 = "waiting" /\ At(cmds, "continued") = {}
  <2>1. At(msgs, "stopped") # {} \/ At(msgs, "cleared") # {}
    BY <1>1, <1>5
  <2>2. Going
    BY <2>1 DEF Told
  <2>3. Heard
    BY <1>1, <1>5 DEF Heard
  <2> QED BY <2>2, <2>3, LeadsAlone DEF Told, Going
<1>9. Told'
  <2>1. Going'
    BY <1>1, <1>4, <1>6, <1>8 DEF Going
  <2>2. Heard'
    BY <1>2, <1>3 DEF Heard
  <2> QED BY <1>4, <1>8, <2>1, <2>2 DEF Told
<1>10. NewOuts(out', msgs') = {}
  BY <1>1, <1>5, <1>6 DEF NewOuts
<1>11. At(cmds', "continued") = {}
  BY <1>2, <1>3, <1>8
<1>12. ClearingFirst'
  <2>1. CASE c.cb.step = "cleared"
    <3>1. m.cb.step = "stopped"
      BY <1>1, <1>2, <2>1
    <3>2. News(msgs', "paused") = {} /\ At(cmds', "cleared") = {n} /\ At(cmds', "paused") = {}
      BY <1>3, <1>5, <2>1, <3>1, CallbackPlaces
    <3> QED BY <1>7, <1>10, <3>2 DEF ClearingFirst
  <2>2. CASE c.cb.step = "paused"
    <3>1. At(cmds', "cleared") = {}
      BY <1>3, <1>5, <2>2
    <3> QED BY <3>1 DEF ClearingFirst
  <2> QED BY <1>2, <2>1, <2>2
<1>13. StopFirst' /\ ClearedFirst' /\ FramesFirst'
  BY <1>7, <1>11 DEF StopFirst, ClearedFirst, FramesFirst
<1> QED BY <1>9, <1>12, <1>13 DEF InOrder

\* The frames are there: the front-end is told.
LEMMA ReportsControl ==
  ASSUME TypeOK, Fits, Underway, Awaited, Told, InOrder, OnDebuggerMessage,
         NEW m, m = Head(msgs), Reports(m)
  PROVE  Told' /\ InOrder'
<1>1. m.cb.step = "paused" /\ out' = Append(out, <<"paused", 0>>) /\ cmds' = cmds
  BY DEF Reports
<1>2. view' = view /\ v8' = v8
  BY CallbackPlaces
<1>3. PICK n \in Nat : \A kind :
        /\ kind = "paused" => OutAt(out', kind) = OutAt(out, kind) \cup {n}
        /\ kind # "paused" => OutAt(out', kind) = OutAt(out, kind)
        /\ \A k \in OutAt(out, kind) : k \in Nat /\ k < n
  BY <1>1, OutAdded DEF Adds
<1>4. \A step \in {"suspended", "stopped", "cleared", "continued"} :
        /\ \A k \in At(msgs', step) : k \in Nat \ {0} /\ k + 1 \in At(msgs, step)
        /\ \A k \in At(msgs, step) : k \in Nat /\ k - 1 \in At(msgs', step)
        /\ \A k \in News(msgs', step) : k \in Nat \ {0} /\ k + 1 \in News(msgs, step)
        /\ \A k \in News(msgs, step) : k \in Nat /\ k - 1 \in News(msgs', step)
  <2>1. \A step : \A k \in News(msgs, step) : k \in At(msgs, step)
    BY DEF News
  <2> QED BY <1>1, <2>1, CallbackPlaces
<1>5. \A k \in News(msgs', "paused") : k \in Nat \ {0} /\ k + 1 \in News(msgs, "paused")
  BY CallbackPlaces
<1>6. /\ At(msgs', "continued") = {} <=> At(msgs, "continued") = {}
      /\ At(msgs', "stopped") = {} <=> At(msgs, "stopped") = {}
      /\ At(msgs', "cleared") = {} <=> At(msgs, "cleared") = {}
      /\ News(msgs', "suspended") = {} <=> News(msgs, "suspended") = {}
      /\ News(msgs', "stopped") = {} <=> News(msgs, "stopped") = {}
      /\ News(msgs', "cleared") = {} <=> News(msgs, "cleared") = {}
  BY <1>4
<1>7. Going' <=> Going
  BY <1>2, <1>3, <1>6 DEF Going
<1>8. CASE At(msgs, "continued") = {}
  <2>1. 1 \in News(msgs, "paused") /\ n \in NewOuts(out', msgs')
    BY <1>1, <1>3, <1>6, <1>8, CallbackPlaces DEF NewOuts
  <2>2. At(cmds, "cleared") = {} /\ At(msgs, "stopped") = {} /\ At(msgs, "cleared") = {}
    <3>1. \A i \in At(msgs, "cleared") : i \in Nat \ {0} /\ i < 1
      BY <2>1, CallbackPlaces DEF InOrder, ClearedFirst
    <3> QED BY <2>1, <3>1 DEF InOrder, ClearingFirst, StopFirst
  <2>3. Heard /\ Heard'
    BY <2>1 DEF Heard
  <2>4. Told'
    BY <1>1, <1>2, <1>6, <1>7, <2>3 DEF Told
  <2>5. ClearingFirst' /\ StopFirst' /\ ClearedFirst' /\ FramesFirst'
    BY <1>1, <1>6, <2>2 DEF InOrder, ClearingFirst, StopFirst, ClearedFirst, FramesFirst
  <2> QED BY <2>4, <2>5 DEF InOrder
<1>9. CASE At(msgs, "continued") # {}
  <2>1. NewOuts(out, msgs) = {} /\ NewOuts(out', msgs') = {} /\ 1 \notin News(msgs, "paused")
    BY <1>6, <1>9, CallbackPlaces DEF NewOuts
  <2>2. News(msgs', "paused") = {} <=> News(msgs, "paused") = {}
    BY <1>5, <2>1, CallbackPlaces
  <2>3. Told'
    BY <1>1, <1>2, <1>6, <1>7, <2>1, <2>2 DEF Told, Heard
  <2>4. ClearingFirst' /\ FramesFirst'
    BY <1>1, <1>6, <2>1, <2>2 DEF InOrder, ClearingFirst, FramesFirst
  <2>5. StopFirst'
    <3> SUFFICES ASSUME NEW i \in At(msgs', "stopped")
        PROVE /\ At(cmds, "cleared") = {} /\ At(msgs', "cleared") = {} /\ At(cmds, "paused") = {}
              /\ News(msgs', "paused") = {} /\ i \in News(msgs', "stopped")
              /\ \A j \in At(msgs', "stopped") : j = i
              /\ \A j \in At(msgs', "suspended") : i < j
      BY <1>1, <2>1 DEF StopFirst
    <3>1. i \in Nat /\ i + 1 \in At(msgs, "stopped")
      BY <1>4
    <3>2. /\ At(cmds, "cleared") = {} /\ At(msgs, "cleared") = {} /\ At(cmds, "paused") = {}
          /\ News(msgs, "paused") = {} /\ i + 1 \in News(msgs, "stopped")
          /\ \A j \in At(msgs, "stopped") : j = i + 1
          /\ \A j \in At(msgs, "suspended") : i + 1 < j
      BY <3>1 DEF InOrder, StopFirst
    <3>3. i \in News(msgs', "stopped")
      <4>1. (i + 1) - 1 \in News(msgs', "stopped")
        BY <1>4, <3>2
      <4> QED BY <3>1, <4>1
    <3> QED BY <1>4, <1>6, <2>2, <3>1, <3>2, <3>3
  <2>6. ClearedFirst'
    <3> SUFFICES ASSUME NEW i \in At(msgs', "cleared")
        PROVE /\ At(cmds, "cleared") = {} /\ i \in News(msgs', "cleared")
              /\ \A j \in At(msgs', "cleared") : j = i
              /\ \A j \in News(msgs', "paused") : i < j
      BY <1>1, <2>1 DEF ClearedFirst
    <3>1. i \in Nat /\ i + 1 \in At(msgs, "cleared")
      BY <1>4
    <3>2. /\ At(cmds, "cleared") = {} /\ i + 1 \in News(msgs, "cleared")
          /\ \A j \in At(msgs, "cleared") : j = i + 1
          /\ \A j \in News(msgs, "paused") : i + 1 < j
      BY <3>1 DEF InOrder, ClearedFirst
    <3>3. i \in News(msgs', "cleared")
      <4>1. (i + 1) - 1 \in News(msgs', "cleared")
        BY <1>4, <3>2
      <4> QED BY <3>1, <4>1
    <3> QED BY <1>4, <1>5, <3>1, <3>2, <3>3
  <2> QED BY <2>3, <2>4, <2>5, <2>6 DEF InOrder
<1> QED BY <1>8, <1>9

\* What there is to the invariant of run control.
RunInv == TypeOK /\ Fits /\ Underway /\ Control

\* At the beginning nothing is on its way.
LEMMA InitRunInv == Init => RunInv
<1> SUFFICES ASSUME Init PROVE RunInv
  OBVIOUS
<1>1. cmds = <<>> /\ msgs = <<>> /\ out = <<>> /\ view = "running" /\ awaiting = 0
      /\ v8 = "program"
  BY DEF Init
<1>2. /\ \A step : At(cmds, step) = {} /\ At(msgs, step) = {} /\ News(msgs, step) = {}
      /\ \A what : OutAt(out, what) = {}
      /\ NewOuts(out, msgs) = {}
  BY <1>1 DEF At, OutAt, News, NewOuts
<1>3. Underway
  BY <1>1 DEF Underway
<1>4. Awaited
  BY <1>1, <1>2 DEF Awaited, Awaits
<1>5. Told
  BY <1>1, <1>2 DEF Told, Going, Heard
<1>6. InOrder
  BY <1>2 DEF InOrder, ClearingFirst, StopFirst, ClearedFirst, FramesFirst
<1> QED BY <1>3, <1>4, <1>5, <1>6, InitType, InitFits DEF RunInv, Control

\* Every step keeps the invariant of run control.
LEMMA NextRunInv == RunInv /\ [Next]_vars => RunInv'
<1> SUFFICES ASSUME RunInv, [Next]_vars PROVE RunInv'
  OBVIOUS
<1>1. TypeOK /\ Fits /\ Underway /\ Awaited /\ Told /\ InOrder
  BY DEF RunInv, Control
<1>2. TypeOK' /\ Fits'
  BY <1>1, NextTypeFits
<1>3. CASE Method
  BY <1>1, <1>2, <1>3, MethodUnderway, MethodAwaited, MethodControl DEF RunInv, Control
<1>4. CASE OnDebuggerMessage
  <2>1. PICK m : m = Head(msgs)
    OBVIOUS
  <2>2. Told' /\ InOrder'
    BY <1>1, <1>4, <2>1, Reactions, OtherControl, SuspendsControl, ContinuesControl,
       StopsClearsControl, ReportsControl
  <2> QED BY <1>1, <1>2, <1>4, <2>2, CallbacksUnderway, CallbacksAwaited DEF RunInv, Control
<1>5. CASE Read
  <2>1. Underway'
    BY <1>1, <1>5, ReadTakes DEF Underway
  <2> QED BY <1>1, <1>2, <1>5, <2>1, ReadAwaited, ReadControl DEF RunInv, Control
<1>6. CASE V8 \/ Stop
  <2>1. Told' /\ InOrder'
    BY <1>1, <1>6, EnterLeaveControl, ServeControl, StopControl DEF V8
  <2> QED BY <1>1, <1>2, <1>6, <2>1, V8Underway, V8Awaited DEF RunInv, Control
<1>7. CASE UNCHANGED vars
  <2>1. UNCHANGED <<view, awaiting, out, cmds, msgs, v8, requests>>
    BY <1>7 DEF vars, clientVars, v8Vars
  <2>2. Underway' /\ Awaited'
    BY <1>1, <2>1 DEF Underway, Awaited
  <2>3. Told' /\ InOrder'
    BY <1>1, <2>1
       DEF Told, Going, Heard, InOrder, ClearingFirst, StopFirst, ClearedFirst, FramesFirst
  <2> QED BY <1>2, <2>2, <2>3 DEF RunInv, Control
<1> QED BY <1>3, <1>4, <1>5, <1>6, <1>7 DEF Next

\* Run control is as Control says, for any methods and bounds.
THEOREM ControlAlways == Spec => []Control
<1>1. RunInv => Control
  BY DEF RunInv
<1> QED BY <1>1, InitRunInv, NextRunInv, PTL DEF Spec

\* When everything under way has arrived, the front-end has been told last
\* what is the case.
THEOREM ViewIsRightAlways == Spec => []ViewIsRight
<1>1. TypeOK /\ Control => ViewIsRight
  <2> SUFFICES ASSUME TypeOK, Control, Settled, out = <<>>
               PROVE  view = "paused" <=> v8 = "waiting"
    BY DEF ViewIsRight
  <2>1. cmds = <<>> /\ msgs = <<>>
    BY DEF Settled
  <2>2. /\ \A step : At(cmds, step) = {} /\ At(msgs, step) = {} /\ News(msgs, step) = {}
        /\ \A what : OutAt(out, what) = {}
        /\ NewOuts(out, msgs) = {}
    BY <2>1 DEF At, OutAt, News, NewOuts
  <2>3. view \in {"running", "paused"}
    BY TypeParts DEF ClientType
  <2> QED BY <2>2, <2>3 DEF Control, Told, Going, Heard
<1>2. RunInv => TypeOK /\ Control
  BY DEF RunInv
<1> QED BY <1>1, <1>2, InitRunInv, NextRunInv, PTL DEF Spec

------------------------------------------------------------------------------
(* The temporary breakpoint of continueToLocation.                           *)

NeverPaused == \A r \in DOMAIN requests : requests[r].kind # "pause"

\* No temporary breakpoint is left once the news of a stop has been through
\* the agent, until the front-end asks for another one.
Gone ==
  \/ /\ Going
     /\ \/ At(cmds, "paused") # {} \/ NewOuts(out, msgs) # {}
        \/ News(msgs, "cleared") # {} \/ News(msgs, "paused") # {}
  \/ /\ ~Going /\ At(cmds, "continued") = {}
     /\ \A k \in At(msgs, "located") : ~msgs[k].ok

\* The agent knows of a temporary breakpoint, or is about to.
Known(b) == slot = b \/ \E k \in At(msgs, "located") : msgs[k].ok /\ msgs[k].body = <<b>>

OneTemporary ==
  NeverPaused =>
    /\ \A k \in At(cmds, "cleared") : cmds[k].id = slot /\ slot # 0
    /\ Gone => Temporary = {}
    /\ \A k \in At(msgs, "located") : msgs[k].ok => Temporary \subseteq {msgs[k].body[1]}
    /\ \A b \in Temporary : Known(b)

\* A breakpoint that continueToLocation asks for is on its way only while the
\* front-end looks at the program.
LEMMA LocatedWaits ==
  ASSUME TypeOK, Fits, Underway, Awaited
  PROVE  /\ \A k \in At(cmds, "located") :
              ~Going /\ At(cmds, "continued") = {} /\ At(msgs, "located") = {}
         /\ \A k \in At(msgs, "located") : ~Going /\ At(cmds, "continued") = {}
         /\ \A j, k \in At(msgs, "located") : j = k
<1>1. Leads("located") /\ Leads("continued")
  BY DEF Leads
<1>2. ASSUME awaiting # 0, requests[awaiting].kind # "pause", requests[awaiting].answer = "none"
      PROVE  view = "paused" /\ OutAt(out, "resumed") = {}
  BY <1>2 DEF Awaited, Awaits
<1>3. ASSUME NEW k \in At(cmds, "located")
      PROVE  ~Going /\ At(cmds, "continued") = {} /\ At(msgs, "located") = {}
  <2>1. k \in DOMAIN cmds /\ cmds[k].cb.step = "located"
    BY DEF At
  <2>2. view = "paused" /\ OutAt(out, "resumed") = {}
    BY <1>1, <1>2, <2>1, OneLead, LeadKind
  <2>3. At(cmds, "continued") = {} /\ At(msgs, "continued") = {} /\ At(msgs, "located") = {}
    BY <1>1, <2>1, OneLead DEF At
  <2> QED BY <2>2, <2>3 DEF Going
<1>4. ASSUME NEW k \in At(msgs, "located")
      PROVE  ~Going /\ At(cmds, "continued") = {}
  <2>1. k \in DOMAIN msgs /\ msgs[k].cb.step = "located"
    BY DEF At
  <2>2. view = "paused" /\ OutAt(out, "resumed") = {}
    BY <1>1, <1>2, <2>1, OneLead, LeadKind
  <2>3. At(cmds, "continued") = {} /\ At(msgs, "continued") = {}
    BY <1>1, <2>1, OneLead DEF At
  <2> QED BY <2>2, <2>3 DEF Going
<1>5. \A j, k \in At(msgs, "located") : j = k
  BY <1>1, OneLead DEF At
<1> QED BY <1>3, <1>4, <1>5

\* The methods of requests do not change, and so no more of the breakpoints
\* are temporary, unless V8 sets or clears some.
LEMMA TemporaryKept ==
  ASSUME TypeOK, UNCHANGED bps,
         \A r \in DOMAIN requests :
           r \in DOMAIN requests' /\ requests'[r].kind = requests[r].kind
  PROVE  Temporary' = Temporary /\ (NeverPaused' => NeverPaused)
<1>1. \A b \in DOMAIN bps : bps[b].by \in DOMAIN requests
  <2>1. \A b \in DOMAIN bps : bps[b] \in [by : 1..Len(requests), enabled : BOOLEAN]
    BY TypeParts DEF BpsType
  <2>2. DOMAIN requests = 1..Len(requests)
    BY TypeParts DEF RequestsType
  <2> QED BY <2>1, <2>2
<1> QED BY <1>1 DEF Temporary, NeverPaused

\* Nothing of pause is on its way where it was never called.
LEMMA NoPauseComes ==
  ASSUME TypeOK, Fits, NeverPaused
  PROVE  At(cmds, "suspended") = {} /\ At(msgs, "suspended") = {}
<1>1. \A k \in DOMAIN cmds : cmds[k].cb.step = "suspended" =>
        cmds[k].cb.req \in DOMAIN requests /\ requests[cmds[k].cb.req].kind = "pause"
  BY Named DEF Fits, CmdFits, CallFits
<1>2. \A k \in DOMAIN msgs : msgs[k].cb.step = "suspended" =>
        msgs[k].cb.req \in DOMAIN requests /\ requests[msgs[k].cb.req].kind = "pause"
  BY Named DEF Fits, MsgFits, CallFits
<1> QED BY <1>1, <1>2 DEF NeverPaused, At

\* A step keeps it that takes no temporary breakpoint away from the agent,
\* adds none, and brings on no state in which there should be none.
LEMMA OneTemporaryKept ==
  ASSUME OneTemporary, NeverPaused' => NeverPaused,
         Temporary' \subseteq Temporary,
         \A k \in At(cmds', "cleared") : \E j \in At(cmds, "cleared") : cmds'[k] = cmds[j],
         slot' = slot,
         NeverPaused /\ Gone' => Gone,
         \A k \in At(msgs', "located") : \E j \in At(msgs, "located") : msgs'[k] = msgs[j],
         \A j \in At(msgs, "located") : msgs[j].ok =>
           \E k \in At(msgs', "located") : msgs'[k] = msgs[j]
  PROVE  OneTemporary'
<1> SUFFICES ASSUME NeverPaused, NeverPaused'
    PROVE  /\ \A k \in At(cmds', "cleared") : cmds'[k].id = slot' /\ slot' # 0
           /\ Gone' => Temporary' = {}
           /\ \A k \in At(msgs', "located") :
                msgs'[k].ok => Temporary' \subseteq {msgs'[k].body[1]}
           /\ \A b \in Temporary' : Known(b)'
  BY DEF OneTemporary
<1>1. \A k \in At(cmds', "cleared") : cmds'[k].id = slot' /\ slot' # 0
  BY DEF OneTemporary
<1>2. Gone' => Temporary' = {}
  BY DEF OneTemporary
<1>3. \A k \in At(msgs', "located") : msgs'[k].ok => Temporary' \subseteq {msgs'[k].body[1]}
  BY DEF OneTemporary
<1>4. ASSUME NEW b \in Temporary' PROVE Known(b)'
  <2>1. Known(b)
    BY <1>4 DEF OneTemporary
  <2>2. CASE slot = b
    BY <2>2 DEF Known
  <2>3. CASE slot # b
    <3>1. PICK j \in At(msgs, "located") : msgs[j].ok /\ msgs[j].body = <<b>>
      BY <2>1, <2>3 DEF Known
    <3>2. PICK k \in At(msgs', "located") : msgs'[k] = msgs[j]
      BY <3>1
    <3> QED BY <3>1, <3>2 DEF Known
  <2> QED BY <2>2, <2>3
<1> QED BY <1>1, <1>2, <1>3, <1>4

\* A method takes nothing away from it.
LEMMA MethodTemporary == TypeOK /\ Fits /\ OneTemporary /\ Method => OneTemporary'
<1> SUFFICES ASSUME TypeOK, Fits, OneTemporary, Method PROVE OneTemporary'
  OBVIOUS
<1>1. PICK q, c : Called(q, c) /\ Grows(requests, requests', q) /\ Grows(cmds, cmds', c)
  BY MethodAdds
<1>2. /\ UNCHANGED <<msgs, out, view, slot, bps>>
      /\ c.cb.step # "cleared" /\ c.cb.step # "paused"
  BY <1>1 DEF Called
<1>3. Temporary' = Temporary /\ (NeverPaused' => NeverPaused)
  <2>1. \A r \in DOMAIN requests : r \in DOMAIN requests' /\ requests'[r].kind = requests[r].kind
    BY <1>1 DEF Grows
  <2> QED BY <1>2, <2>1, TemporaryKept
<1>4. /\ At(cmds', "cleared") = At(cmds, "cleared") /\ At(cmds', "paused") = At(cmds, "paused")
      /\ At(cmds, "continued") \subseteq At(cmds', "continued")
      /\ \A k \in DOMAIN cmds : cmds'[k] = cmds[k]
  <2>1. \A k \in DOMAIN cmds : cmds'[k] = cmds[k]
    BY <1>1 DEF Grows
  <2>2. \A step :
          /\ c.cb.step = step => At(cmds', step) = At(cmds, step) \cup {Len(cmds) + 1}
          /\ c.cb.step # step => At(cmds', step) = At(cmds, step)
    BY <1>1, AtGrows
  <2> QED BY <1>2, <2>1, <2>2
<1>5. Gone' => Gone
  BY <1>2, <1>4 DEF Gone, Going
<1>6. \A k \in At(cmds', "cleared") : k \in At(cmds, "cleared") /\ cmds'[k] = cmds[k]
  BY <1>4 DEF At
<1> QED BY <1>2, <1>3, <1>5, <1>6, OneTemporaryKept

\* Nor does the front-end when it reads.
LEMMA ReadTemporary ==
  ASSUME TypeOK, Fits, Underway, Awaited, OneTemporary, Read
  PROVE  OneTemporary'
<1>1. PICK what, r : /\ Shrinks(out, out', <<what, r>>) /\ Head(out) = <<what, r>>
  BY ReadTakes
<1>2. cmds' = cmds /\ msgs' = msgs /\ slot' = slot /\ bps' = bps /\ requests' = requests
  BY ReadTakes
<1>3. PICK x : x = <<what, r>> /\ x[1] = what
  <2>1. <<what, r>>[1] = what
    OBVIOUS
  <2> QED BY <2>1
<1>4. \A kind :
        /\ \A k \in OutAt(out', kind) : k \in Nat \ {0} /\ k + 1 \in OutAt(out, kind)
        /\ \A k \in OutAt(out, kind) : k \in Nat \ {0} /\ (k = 1 \/ k - 1 \in OutAt(out', kind))
        /\ 1 \in OutAt(out, kind) <=> what = kind
  BY <1>1, <1>3, OutShrinks
<1>5. NewOuts(out, msgs) = {} => NewOuts(out', msgs) = {}
  <2>1. PICK p, q, a, b, c : /\ p = OutAt(out, "paused") /\ q = OutAt(out', "paused")
                             /\ a = OutAt(out, "resumed") /\ b = OutAt(out', "resumed")
                             /\ c = At(msgs, "continued")
    OBVIOUS
  <2>2. /\ \A k \in q : k \in Nat \ {0} /\ k + 1 \in p
        /\ \A k \in b : k \in Nat \ {0} /\ k + 1 \in a
        /\ \A k \in a : k \in Nat \ {0} /\ (k = 1 \/ k - 1 \in b)
    BY <1>4, <2>1
  <2>3. \A k \in NewOuts(out', msgs) : k + 1 \in NewOuts(out, msgs)
    BY <2>1, <2>2 DEF NewOuts
  <2> QED BY <2>3
<1>6. Gone' => Gone
  <2>1. CASE what = "answer"
    <3>1. view' = view
      BY <1>1, <2>1, ReadAwaiting
    <3>2. Going' <=> Going
      BY <1>2, <1>4, <2>1, <3>1 DEF Going
    <3> QED BY <1>2, <1>5, <3>2 DEF Gone
  <2>2. CASE what = "resumed"
    <3>1. OutAt(out, "resumed") = {1} /\ view' = "running"
      BY <1>1, <2>2, ReadResumed
    <3>2. Going /\ Going'
      BY <3>1 DEF Going
    <3> QED BY <1>2, <1>5, <3>2 DEF Gone
  <2>3. CASE what = "paused"
    <3>1. view' = "paused" /\ 1 \in OutAt(out, "paused")
      BY <1>1, <1>4, <2>3, ReadAwaiting
    <3>2. CASE 1 \in NewOuts(out, msgs)
      <4>1. At(msgs, "continued") = {} /\ OutAt(out', "resumed") = {}
        BY <1>4, <3>2 DEF NewOuts
      <4>2. ~Going'
        BY <1>2, <3>1, <4>1 DEF Going
      <4> QED BY <1>2, <3>2, <4>2 DEF Gone
    <3>3. CASE 1 \notin NewOuts(out, msgs)
      <4>1. At(msgs, "continued") # {} \/ \E j \in OutAt(out, "resumed") : j # 1
        BY <1>4, <3>1, <3>3 DEF NewOuts
      <4>2. Going /\ Going'
        BY <1>2, <1>4, <4>1 DEF Going
      <4> QED BY <1>2, <1>5, <4>2 DEF Gone
    <3> QED BY <3>2, <3>3
  <2> QED BY <1>1, <2>1, <2>2, <2>3, ReadAwaiting
<1>7. Temporary' = Temporary /\ (NeverPaused' => NeverPaused)
  BY <1>2 DEF Temporary, NeverPaused
<1> QED BY <1>2, <1>6, <1>7, OneTemporaryKept

\* Nor does a stop, which finds no news of an earlier one.
LEMMA StopTemporary ==
  ASSUME TypeOK, Fits, Told, OneTemporary, Stop
  PROVE  OneTemporary'
<1>1. PICK m : /\ Grows(msgs, msgs', m) /\ m.cb.step = "stopped" /\ v8 = "program"
               /\ UNCHANGED <<out, view, cmds, slot, bps, requests>>
  BY StopAdds
<1>2. Going /\ ~Heard
  BY <1>1 DEF Told
<1>3. /\ At(msgs', "continued") = At(msgs, "continued")
      /\ At(msgs', "located") = At(msgs, "located")
      /\ \A k \in At(msgs, "located") : msgs'[k] = msgs[k]
  <2>1. \A k \in DOMAIN msgs : msgs'[k] = msgs[k]
    BY <1>1 DEF Grows
  <2>2. /\ At(msgs', "continued") = At(msgs, "continued")
        /\ At(msgs', "located") = At(msgs, "located")
    BY <1>1, AtGrows
  <2> QED BY <2>1, <2>2 DEF At
<1>4. /\ News(msgs', "cleared") = News(msgs, "cleared")
      /\ News(msgs', "paused") = News(msgs, "paused")
  BY <1>1, NewsGrows
<1>5. ~Gone'
  BY <1>1, <1>2, <1>3, <1>4 DEF Gone, Going, Heard, NewOuts
<1>6. Temporary' = Temporary /\ (NeverPaused' => NeverPaused)
  BY <1>1 DEF Temporary, NeverPaused
<1> QED BY <1>1, <1>3, <1>5, <1>6, OneTemporaryKept

\* V8 sets a temporary breakpoint only when there is none, and clears it when
\* it is told to.
LEMMA ServeTemporary ==
  ASSUME TypeOK, Fits, Underway, Awaited, Told, InOrder, OneTemporary, ServeCommand
  PROVE  OneTemporary'
<1>0. PICK c : c = Head(cmds)
  OBVIOUS
<1>1. PICK m : /\ Shrinks(cmds, cmds', c) /\ Grows(msgs, msgs', m) /\ CmdFits(c, requests)
               /\ Outcome(c, m) /\ UNCHANGED <<out, view, slot, requests>>
  BY <1>0, ServeAdds
<1>2. m.cb.step = c.cb.step /\ BpsAfter(c, m)
  BY <1>1 DEF Outcome
<1>3. PICK n \in Nat : n = Len(msgs) + 1
  BY <1>1 DEF Grows
<1>4. \A step :
        /\ m.cb.step = step => At(msgs', step) = At(msgs, step) \cup {n}
        /\ m.cb.step # step => At(msgs', step) = At(msgs, step)
        /\ \A k \in At(msgs, step) : k \in Nat /\ k < n
  BY <1>1, <1>3, AtGrows
<1>5. \A step :
        /\ \A k \in At(cmds', step) : k \in Nat \ {0} /\ k + 1 \in At(cmds, step)
        /\ \A k \in At(cmds, step) : k \in Nat \ {0} /\ (k = 1 \/ k - 1 \in At(cmds', step))
        /\ 1 \in At(cmds, step) <=> c.cb.step = step
  BY <1>1, AtShrinks
<1>6. \A step : step # "continued" =>
        /\ m.cb.step # step /\ m.cb.step # "continued" => News(msgs', step) = News(msgs, step)
        /\ m.cb.step = "continued" => News(msgs', step) = {}
  BY <1>1, <1>3, NewsGrows
<1>7. /\ \A k \in At(msgs, "located") : msgs'[k] = msgs[k]
      /\ msgs'[n] = m
      /\ \A k \in At(cmds', "cleared") : k + 1 \in At(cmds, "cleared") /\ cmds'[k] = cmds[k + 1]
  <2>1. /\ \A k \in DOMAIN msgs : msgs'[k] = msgs[k]
        /\ msgs'[n] = m
    BY <1>1, <1>3 DEF Grows
  <2>2. \A k \in DOMAIN cmds' : cmds'[k] = cmds[k + 1]
    BY <1>1 DEF Shrinks
  <2> QED BY <1>5, <2>1, <2>2 DEF At
<1>8. NeverPaused' => NeverPaused
  BY <1>1 DEF NeverPaused
<1>9. ~(c.do = "setbreakpoint" /\ m.ok) =>
        Temporary' = Temporary \ (IF c.do = "clearbreakpoint" THEN {c.id} ELSE {})
  BY <1>1, <1>2 DEF BpsAfter, Temporary
<1>10. c.do = "setbreakpoint" /\ m.ok =>
         Temporary' = IF c.cb.step = "located" THEN Temporary \cup {lastBp'} ELSE Temporary
  <2> SUFFICES ASSUME c.do = "setbreakpoint", m.ok
      PROVE  Temporary' = IF c.cb.step = "located" THEN Temporary \cup {lastBp'} ELSE Temporary
    OBVIOUS
  <2>1. /\ DOMAIN bps' = DOMAIN bps \cup {lastBp'} /\ lastBp' \notin DOMAIN bps
        /\ bps'[lastBp'].by = c.cb.req
        /\ \A b \in DOMAIN bps : bps'[b] = bps[b]
    BY <1>2 DEF BpsAfter
  <2>2. requests[c.cb.req].kind = "continueToLocation" <=> c.cb.step = "located"
    BY <1>1 DEF CmdFits, CallFits
  <2> QED BY <1>1, <2>1, <2>2 DEF Temporary
<1>11. CASE c.cb.step \notin {"continued", "cleared", "located"}
  <2>1. Temporary' \subseteq Temporary
    BY <1>9, <1>10, <1>11
  <2>2. /\ At(msgs', "continued") = At(msgs, "continued")
        /\ At(msgs', "located") = At(msgs, "located")
        /\ News(msgs', "cleared") = News(msgs, "cleared")
    BY <1>2, <1>4, <1>6, <1>11
  <2>3. Going' <=> Going
    BY <1>1, <2>2 DEF Going
  <2>4. /\ At(cmds', "continued") = {} => At(cmds, "continued") = {}
        /\ At(cmds', "paused") # {} => At(cmds, "paused") # {}
    <3>1. \A k \in At(cmds, "continued") : k - 1 \in At(cmds', "continued")
      BY <1>5, <1>11
    <3> QED BY <1>5, <3>1
  <2>5. News(msgs', "paused") # {} => News(msgs, "paused") # {} \/ At(cmds, "paused") # {}
    <3>1. CASE c.cb.step = "paused"
      BY <1>5, <3>1
    <3>2. CASE c.cb.step # "paused"
      BY <1>2, <1>6, <1>11, <3>2
    <3> QED BY <3>1, <3>2
  <2>6. Gone' => Gone
    BY <1>1, <1>7, <2>2, <2>3, <2>4, <2>5 DEF Gone, NewOuts
  <2> QED BY <1>1, <1>7, <1>8, <2>1, <2>2, <2>6, OneTemporaryKept
<1>12. CASE c.cb.step = "continued"
  <2>1. Temporary' \subseteq Temporary
    BY <1>1, <1>9, <1>12 DEF CmdFits
  <2>2. n \in At(msgs', "continued") /\ At(msgs', "located") = At(msgs, "located")
    BY <1>2, <1>4, <1>12
  <2>3. ~Going /\ 1 \in At(cmds, "continued")
    BY <1>5, <1>12, LeadsAlone DEF Going
  <2>4. At(cmds', "paused") = {}
    BY <1>5, <2>3 DEF InOrder, FramesFirst
  <2>5. News(msgs', "cleared") = {} /\ News(msgs', "paused") = {}
    BY <1>2, <1>6, <1>12
  <2>6. ~Gone'
    BY <2>2, <2>4, <2>5 DEF Gone, Going, NewOuts
  <2> QED BY <1>1, <1>7, <1>8, <2>1, <2>2, <2>6, OneTemporaryKept
<1>13. CASE c.cb.step = "cleared"
  <2> SUFFICES ASSUME NeverPaused' PROVE OneTemporary'
    BY DEF OneTemporary
  <2>1. 1 \in At(cmds, "cleared") /\ cmds[1] = c
    BY <1>1, <1>5, <1>13 DEF Shrinks
  <2>2. c.id = slot
    BY <1>8, <2>1 DEF OneTemporary
  <2>3. At(msgs, "located") = {}
    BY <2>1, LocatedWaits DEF Told
  <2>4. Temporary \subseteq {slot}
    BY <1>8, <2>3 DEF OneTemporary, Known
  <2>5. Temporary' = {}
    BY <1>1, <1>9, <1>13, <2>2, <2>4 DEF CmdFits
  <2>6. \A j \in At(cmds, "cleared") : j = 1
    BY <2>1 DEF InOrder, ClearingFirst
  <2>7. At(cmds', "cleared") = {}
    BY <1>5, <2>6
  <2> QED BY <2>5, <2>7 DEF OneTemporary
<1>14. CASE c.cb.step = "located"
  <2> SUFFICES ASSUME NeverPaused' PROVE OneTemporary'
    BY DEF OneTemporary
  <2>1. 1 \in At(cmds, "located") /\ c.do = "setbreakpoint"
    BY <1>1, <1>5, <1>14 DEF CmdFits
  <2>2. ~Going /\ At(cmds, "continued") = {} /\ At(msgs, "located") = {}
    BY <2>1, LocatedWaits
  <2>3. Temporary = {}
    BY <1>8, <2>2 DEF OneTemporary, Gone
  <2>4. At(cmds', "cleared") = {}
    BY <1>5, <2>2 DEF Told
  <2>5. At(msgs', "located") = {n} /\ At(msgs', "continued") = At(msgs, "continued")
    BY <1>2, <1>4, <1>14, <2>2
  <2>6. ~Going'
    BY <1>1, <2>2, <2>5 DEF Going
  <2>7. CASE m.ok
    <3>1. Temporary' = {lastBp'}
      BY <1>10, <1>14, <2>1, <2>3, <2>7
    <3>2. m.body = <<lastBp'>> /\ m.body[1] = lastBp'
      <4>1. m.body = <<lastBp'>>
        BY <1>2, <2>1, <2>7 DEF BpsAfter
      <4> QED BY <4>1
    <3>3. ~Gone'
      BY <1>7, <2>5, <2>6, <2>7 DEF Gone
    <3>4. \A b \in Temporary' : Known(b)'
      BY <1>7, <2>5, <2>7, <3>1, <3>2 DEF Known
    <3> QED BY <1>7, <2>4, <2>5, <3>1, <3>2, <3>3, <3>4 DEF OneTemporary
  <2>8. CASE ~m.ok
    <3>1. Temporary' = {}
      BY <1>9, <2>3, <2>8
    <3> QED BY <2>4, <3>1 DEF OneTemporary
  <2> QED BY <2>7, <2>8
<1> QED BY <1>11, <1>12, <1>13, <1>14

\* Callbacks that set no number and find none.
LEMMA QuietTemporary ==
  ASSUME TypeOK, Fits, Underway, Awaited, OneTemporary, OnDebuggerMessage,
         NEW m, m = Head(msgs), Replies(m) \/ AsksOn(m) \/ Continues(m) \/ Reports(m)
  PROVE  OneTemporary'
<1>1. /\ slot' = slot /\ Temporary' = Temporary /\ (NeverPaused' => NeverPaused)
      /\ view' = view /\ Shrinks(msgs, msgs', m)
  <2>1. \A r \in DOMAIN requests : r \in DOMAIN requests' /\ requests'[r].kind = requests[r].kind
    BY CallbackKeeps
  <2>2. UNCHANGED bps /\ view' = view /\ Shrinks(msgs, msgs', m)
    BY CallbackKeeps
  <2>3. slot' = slot
    BY DEF Replies, AsksOn, Continues, Reports
  <2> QED BY <2>1, <2>2, <2>3, TemporaryKept
<1>2. m.cb.step = "located" => ~m.ok
  BY DEF Replies, AsksOn, Continues, Reports
<1>3. m.cb.step \notin {"suspended", "stopped", "cleared"}
  BY DEF Replies, AsksOn, Continues, Reports
<1>4. \A k \in At(msgs', "located") :
        k \in Nat /\ k + 1 \in At(msgs, "located") /\ msgs'[k] = msgs[k + 1]
  <2>1. \A k \in DOMAIN msgs' : msgs'[k] = msgs[k + 1]
    BY <1>1 DEF Shrinks
  <2> QED BY <2>1, CallbackPlaces DEF At
<1>5. \A j \in At(msgs, "located") : msgs[j].ok =>
        \E k \in At(msgs', "located") : msgs'[k] = msgs[j]
  <2> SUFFICES ASSUME NEW j \in At(msgs, "located"), msgs[j].ok
      PROVE  \E k \in At(msgs', "located") : msgs'[k] = msgs[j]
    OBVIOUS
  <2>1. j # 1
    BY <1>1, <1>2 DEF At, Shrinks
  <2>2. j \in Nat /\ j - 1 \in At(msgs', "located")
    BY <2>1, CallbackPlaces
  <2>3. msgs'[j - 1] = msgs[(j - 1) + 1]
    BY <1>4, <2>2
  <2> QED BY <2>2, <2>3
<1>6. /\ \A k \in At(cmds', "cleared") : k \in At(cmds, "cleared") /\ cmds'[k] = cmds[k]
      /\ At(cmds', "paused") = At(cmds, "paused")
      /\ At(cmds', "continued") = At(cmds, "continued")
  <2>1. CASE UNCHANGED cmds
    BY <2>1
  <2>2. CASE AsksOn(m)
    <3>1. PICK c : Sends(c) /\ c.cb.step \in {"changed", "excepted"}
      BY <2>2 DEF AsksOn
    <3>2. Grows(cmds, cmds', c)
      BY <3>1, CallbackKeeps
    <3>3. \A k \in DOMAIN cmds : cmds'[k] = cmds[k]
      BY <3>2 DEF Grows
    <3>4. PICK n \in Nat : \A step :
                /\ c.cb.step = step => At(cmds', step) = At(cmds, step) \cup {n}
                /\ c.cb.step # step => At(cmds', step) = At(cmds, step)
                /\ \A k \in At(cmds, step) : k \in Nat /\ k < n
      BY <3>1, CallbackPlaces
    <3>5. /\ At(cmds', "paused") = At(cmds, "paused")
          /\ At(cmds', "continued") = At(cmds, "continued")
          /\ At(cmds', "cleared") = At(cmds, "cleared")
      BY <3>1, <3>4
    <3> QED BY <3>3, <3>5 DEF At
  <2> QED BY <2>1, <2>2 DEF Replies, Continues, Reports
<1>7. \A step : /\ At(msgs', step) # {} => At(msgs, step) # {}
                /\ News(msgs', step) # {} => News(msgs, step) # {}
                /\ m.cb.step # step /\ At(msgs', step) = {} => At(msgs, step) = {}
  BY CallbackPlaces
<1>8. (\A k \in At(msgs', "located") : ~msgs'[k].ok) =>
        \A k \in At(msgs, "located") : ~msgs[k].ok
  BY <1>5
<1>9. CASE m.cb.step # "continued"
  <2>1. At(msgs', "continued") = {} <=> At(msgs, "continued") = {}
    BY <1>7, <1>9
  <2>2. OutAt(out', "resumed") = OutAt(out, "resumed")
    <3>1. CASE Replies(m)
      <4>1. Adds(out, out', "answer")
        BY <3>1, OutAdded DEF Replies
      <4> QED BY <4>1 DEF Adds
    <3>2. CASE AsksOn(m)
      BY <3>2 DEF AsksOn
    <3>3. CASE Reports(m)
      <4>1. Adds(out, out', "paused")
        BY <3>3, OutAdded DEF Reports
      <4> QED BY <4>1 DEF Adds
    <3> QED BY <1>9, <3>1, <3>2, <3>3 DEF Continues
  <2>3. Going' <=> Going
    BY <1>1, <2>1, <2>2 DEF Going
  <2>4. NewOuts(out', msgs') # {} => NewOuts(out, msgs) # {} \/ News(msgs, "paused") # {}
    <3>1. CASE Replies(m)
      <4>1. Adds(out, out', "answer")
        BY <3>1, OutAdded DEF Replies
      <4>2. OutAt(out', "paused") = OutAt(out, "paused")
        BY <4>1 DEF Adds
      <4> QED BY <2>1, <2>2, <4>2 DEF NewOuts
    <3>2. CASE AsksOn(m)
      BY <2>1, <3>2 DEF AsksOn, NewOuts
    <3>3. CASE Reports(m)
      <4>1. At(msgs, "continued") = {} => 1 \in News(msgs, "paused")
        BY <3>3, CallbackPlaces DEF Reports
      <4> QED BY <2>1, <4>1 DEF NewOuts
    <3> QED BY <1>9, <3>1, <3>2, <3>3 DEF Continues
  <2>5. Gone' => Gone
    BY <1>6, <1>7, <1>8, <2>3, <2>4 DEF Gone
  <2> QED BY <1>1, <1>4, <1>5, <1>6, <2>5, OneTemporaryKept
<1>10. CASE m.cb.step = "continued"
  <2>1. /\ 1 \in At(msgs, "continued")
        /\ out' = Append(Append(out, <<"answer", m.cb.req>>), <<"resumed", 0>>)
    BY <1>10, CallbackPlaces DEF Replies, AsksOn, Continues, Reports
  <2>2. NewOuts(out', msgs') = {} /\ OutAt(out', "resumed") # {}
    <3>1. PICK o : Adds(o, out', "resumed")
      BY <2>1, OutAdded
    <3>2. PICK n \in Nat : \A kind :
            /\ kind = "resumed" => OutAt(out', kind) = OutAt(o, kind) \cup {n}
            /\ kind # "resumed" => OutAt(out', kind) = OutAt(o, kind)
            /\ \A k \in OutAt(o, kind) : k \in Nat /\ k < n
      BY <3>1 DEF Adds
    <3> QED BY <3>2 DEF NewOuts
  <2>3. Going /\ Going'
    BY <2>1, <2>2 DEF Going
  <2>4. Gone' => Gone
    BY <1>6, <1>7, <2>2, <2>3 DEF Gone
  <2> QED BY <1>1, <1>4, <1>5, <1>6, <2>4, OneTemporaryKept
<1> QED BY <1>9, <1>10

\* continueToLocation keeps the number of the one there is.
LEMMA LocatedTemporary ==
  ASSUME TypeOK, Fits, Underway, Awaited, Told, OneTemporary, OnDebuggerMessage,
         NEW m, m = Head(msgs), GoesOn(m)
  PROVE  OneTemporary'
<1>1. /\ Temporary' = Temporary /\ (NeverPaused' => NeverPaused)
      /\ view' = view /\ Shrinks(msgs, msgs', m)
  <2>1. \A r \in DOMAIN requests : r \in DOMAIN requests' /\ requests'[r].kind = requests[r].kind
    BY CallbackKeeps
  <2>2. UNCHANGED bps /\ view' = view /\ Shrinks(msgs, msgs', m)
    BY CallbackKeeps
  <2> QED BY <2>1, <2>2, TemporaryKept
<1>2. m.cb.step = "located" /\ m.ok /\ slot' = m.body[1] /\ out' = out
  BY DEF GoesOn
<1>3. 1 \in At(msgs, "located") /\ msgs[1] = m
  BY <1>1, <1>2, CallbackPlaces DEF Shrinks
<1>4. ~Going /\ \A k \in At(msgs, "located") : k = 1
  BY <1>3, LocatedWaits
<1>5. At(msgs', "located") = {}
  BY <1>4, CallbackPlaces
<1>6. PICK c : Sends(c) /\ c.cb.step = "continued"
  BY DEF GoesOn
<1>7. At(cmds', "cleared") = {} /\ At(cmds', "continued") # {}
  <2>1. PICK n \in Nat : \A step :
          /\ c.cb.step = step => At(cmds', step) = At(cmds, step) \cup {n}
          /\ c.cb.step # step => At(cmds', step) = At(cmds, step)
          /\ \A k \in At(cmds, step) : k \in Nat /\ k < n
    BY <1>6, CallbackPlaces
  <2>2. At(cmds, "cleared") = {}
    BY <1>4 DEF Told
  <2> QED BY <1>6, <2>1, <2>2
<1>8. ~Going'
  <2>1. At(msgs', "continued") = {}
    BY <1>4, CallbackPlaces DEF Going
  <2> QED BY <1>1, <1>2, <1>4, <2>1 DEF Going
<1>9. ~Gone'
  BY <1>7, <1>8 DEF Gone
<1>10. ASSUME NeverPaused', NEW b \in Temporary' PROVE Known(b)'
  <2>1. Temporary \subseteq {m.body[1]}
    BY <1>1, <1>2, <1>3, <1>10 DEF OneTemporary
  <2> QED BY <1>1, <1>2, <1>10, <2>1 DEF Known
<1> QED BY <1>5, <1>7, <1>9, <1>10 DEF OneTemporary

\* The program has stopped: the one there is gets cleared.
LEMMA StoppedTemporary ==
  ASSUME TypeOK, Fits, Underway, Awaited, Told, InOrder, OneTemporary, OnDebuggerMessage,
         NEW m, m = Head(msgs), Stops(m)
  PROVE  OneTemporary'
<1> SUFFICES ASSUME NeverPaused' PROVE OneTemporary'
  BY DEF OneTemporary
<1>1. Temporary' = Temporary /\ NeverPaused
  <2>1. \A r \in DOMAIN requests : r \in DOMAIN requests' /\ requests'[r].kind = requests[r].kind
    BY CallbackKeeps
  <2>2. UNCHANGED bps
    BY CallbackKeeps
  <2> QED BY <2>1, <2>2, TemporaryKept
<1>2. m.cb.step = "stopped" /\ slot' = slot /\ out' = out
  BY DEF Stops
<1>3. 1 \in At(msgs, "stopped")
  BY <1>2, CallbackPlaces
<1>4. /\ At(cmds, "cleared") = {} /\ At(cmds, "paused") = {} /\ At(msgs, "cleared") = {}
      /\ News(msgs, "paused") = {} /\ NewOuts(out, msgs) = {}
      /\ 1 \in News(msgs, "stopped")
  BY <1>3 DEF InOrder, StopFirst
<1>5. At(msgs, "continued") = {} /\ At(msgs', "continued") = {}
  BY <1>4, CallbackPlaces
<1>6. Going /\ Going'
  <2>1. Going
    BY <1>3 DEF Told
  <2>2. view' = view
    BY CallbackKeeps
  <2> QED BY <1>2, <1>5, <2>1, <2>2 DEF Going
<1>7. At(msgs, "located") = {} /\ At(msgs', "located") = {}
  <2>1. At(msgs, "located") = {}
    BY <1>6, LocatedWaits
  <2> QED BY <2>1, CallbackPlaces
<1>8. \A b \in Temporary : slot = b
  BY <1>1, <1>7 DEF OneTemporary, Known
<1>9. PICK c : /\ Sends(c)
               /\ IF slot = 0 THEN c.cb.step = "paused" ELSE c.cb.step = "cleared" /\ c.id = slot
  BY DEF Stops
<1>10. Grows(cmds, cmds', c)
  BY <1>9, CallbackKeeps
<1>11. CASE slot = 0
  <2>1. Temporary = {}
    <3>1. \A b \in DOMAIN bps : b # 0
      BY TypeParts DEF BpsType, V8Type
    <3> QED BY <1>8, <1>11, <3>1 DEF Temporary
  <2>2. At(cmds', "cleared") = {}
    BY <1>4, <1>9, <1>10, <1>11, AtGrows
  <2> QED BY <1>1, <2>1, <2>2 DEF OneTemporary
<1>12. CASE slot # 0
  <2>1. c.cb.step = "cleared" /\ c.id = slot
    BY <1>9, <1>12
  <2>2. At(cmds', "cleared") = {Len(cmds) + 1} /\ cmds'[Len(cmds) + 1] = c
    <3>1. At(cmds', "cleared") = At(cmds, "cleared") \cup {Len(cmds) + 1}
      BY <1>10, <2>1, AtGrows
    <3>2. cmds'[Len(cmds) + 1] = c
      BY <1>10 DEF Grows
    <3> QED BY <1>4, <3>1, <3>2
  <2>3. At(cmds', "paused") = {}
    <3>1. \A step : c.cb.step # step => At(cmds', step) = At(cmds, step)
      BY <1>10, AtGrows
    <3> QED BY <1>4, <2>1, <3>1
  <2>4. News(msgs', "cleared") = {} /\ News(msgs', "paused") = {}
    <3>1. \A step : \A k \in News(msgs, step) : k \in At(msgs, step)
      BY DEF News
    <3>2. News(msgs, "cleared") = {}
      BY <1>4, <3>1
    <3> QED BY <1>4, <3>2, CallbackPlaces
  <2>5. ~Gone'
    <3>1. NewOuts(out', msgs') = {}
      BY <1>2, <1>4, <1>5 DEF NewOuts
    <3> QED BY <1>6, <2>3, <2>4, <3>1 DEF Gone
  <2>6. \A k \in At(cmds', "cleared") : cmds'[k].id = slot' /\ slot' # 0
    BY <1>2, <1>12, <2>1, <2>2
  <2>7. \A b \in Temporary' : Known(b)'
    BY <1>1, <1>2, <1>8 DEF Known
  <2> QED BY <1>7, <2>5, <2>6, <2>7 DEF OneTemporary
<1> QED BY <1>11, <1>12

\* It is cleared.
LEMMA ClearedTemporary ==
  ASSUME TypeOK, Fits, Underway, Awaited, Told, InOrder, OneTemporary, OnDebuggerMessage,
         NEW m, m = Head(msgs), Clears(m)
  PROVE  OneTemporary'
<1> SUFFICES ASSUME NeverPaused' PROVE OneTemporary'
  BY DEF OneTemporary
<1>1. Temporary' = Temporary /\ NeverPaused
  <2>1. \A r \in DOMAIN requests : r \in DOMAIN requests' /\ requests'[r].kind = requests[r].kind
    BY CallbackKeeps
  <2>2. UNCHANGED bps
    BY CallbackKeeps
  <2> QED BY <2>1, <2>2, TemporaryKept
<1>2. 1 \in At(msgs, "cleared")
  BY CallbackPlaces DEF Clears
<1>3. At(cmds, "cleared") = {} /\ 1 \in News(msgs, "cleared")
  BY <1>2 DEF InOrder, ClearedFirst
<1>4. Going
  BY <1>2 DEF Told
<1>5. Temporary = {}
  BY <1>1, <1>3, <1>4 DEF OneTemporary, Gone
<1>6. At(cmds', "cleared") = {}
  <2>1. PICK c : Sends(c) /\ c.cb.step = "paused"
    BY DEF Clears
  <2>2. PICK n \in Nat : \A step :
          /\ c.cb.step = step => At(cmds', step) = At(cmds, step) \cup {n}
          /\ c.cb.step # step => At(cmds', step) = At(cmds, step)
          /\ \A k \in At(cmds, step) : k \in Nat /\ k < n
    BY <2>1, CallbackPlaces
  <2> QED BY <1>3, <2>1, <2>2
<1> QED BY <1>1, <1>5, <1>6 DEF OneTemporary

\* Every step keeps it.
LEMMA NextTemporary == RunInv /\ OneTemporary /\ [Next]_vars => OneTemporary'
<1> SUFFICES ASSUME RunInv, OneTemporary, [Next]_vars PROVE OneTemporary'
  OBVIOUS
<1>1. TypeOK /\ Fits /\ Underway /\ Awaited /\ Told /\ InOrder
  BY DEF RunInv, Control
<1>2. CASE Method
  BY <1>1, <1>2, MethodTemporary
<1>3. CASE OnDebuggerMessage
  <2>1. PICK m : m = Head(msgs)
    OBVIOUS
  <2>2. CASE Suspends(m)
    <3>1. ~NeverPaused
      <4>1. 1 \in At(msgs, "suspended")
        BY <1>1, <1>3, <2>1, <2>2, CallbackPlaces DEF Suspends
      <4> QED BY <1>1, <4>1, NoPauseComes
    <3>2. ~NeverPaused'
      <4>1. \A r \in DOMAIN requests :
              r \in DOMAIN requests' /\ requests'[r].kind = requests[r].kind
        BY <1>1, <1>3, <2>1, CallbackKeeps
      <4> QED BY <3>1, <4>1 DEF NeverPaused
    <3> QED BY <3>2 DEF OneTemporary
  <2>3. CASE ~Suspends(m)
    BY <1>1, <1>3, <2>1, <2>3, Reactions, QuietTemporary, LocatedTemporary, StoppedTemporary,
       ClearedTemporary
  <2> QED BY <2>2, <2>3
<1>4. CASE Read
  BY <1>1, <1>4, ReadTemporary
<1>5. CASE ServeCommand
  BY <1>1, <1>5, ServeTemporary
<1>6. CASE EnterDebugger \/ LeaveDebugger \/ UNCHANGED vars
  <2>1. UNCHANGED <<view, slot, out, cmds, msgs, bps, requests>>
    BY <1>6 DEF EnterDebugger, LeaveDebugger, vars, clientVars, v8Vars
  <2>2. /\ NeverPaused' = NeverPaused /\ Temporary' = Temporary /\ Gone' = Gone
        /\ \A b : Known(b)' = Known(b)
    BY <2>1 DEF NeverPaused, Temporary, Gone, Going, Known
  <2> QED BY <2>1, <2>2 DEF OneTemporary
<1>7. CASE Stop
  BY <1>1, <1>7, StopTemporary
<1> QED BY <1>2, <1>3, <1>4, <1>5, <1>6, <1>7 DEF Next, V8

\* At the beginning there is none.
LEMMA InitTemporary == Init => OneTemporary
<1> SUFFICES ASSUME Init PROVE OneTemporary
  OBVIOUS
<1>1. At(cmds, "cleared") = {} /\ Temporary = {}
  BY DEF Init, At, Temporary
<1> QED BY <1>1 DEF OneTemporary

\* V8 keeps no temporary breakpoint that the agent does not know of, as long
\* as nobody calls pause.
THEOREM TemporaryTrackedAlways == Spec => []TemporaryTracked
<1>1. OneTemporary => TemporaryTracked
  BY DEF OneTemporary, NeverPaused, Known, At, TemporaryTracked
<1> QED BY <1>1, InitRunInv, NextRunInv, InitTemporary, NextTemporary, PTL DEF Spec

------------------------------------------------------------------------------
(* Settings that are sent to V8 part by part: who will write what, and when. *)
(* An entry of a queue stands for the writes it will still cause, each with  *)
(* its turn: what is sent now has turn 2, what is sent when its answer has   *)
(* come back has turn 4; a message comes in between.  With the same turn, the*)
(* one further ahead in the queue writes first.                              *)

\* Of each entry of a queue: the request it is for, and what it will still
\* write, <<setting, turn>>.
Gains(s, t, x) ==
  \E n \in Nat :
    /\ DOMAIN t = DOMAIN s \cup {n} /\ n \notin DOMAIN s /\ t[n] = x
    /\ \A k \in DOMAIN s : t[k] = s[k] /\ k \in Nat /\ k < n
Behind(X, r, b, t, i) ==
  \E j \in DOMAIN X : X[j].req = r /\ \E v \in X[j].todo :
    v[1] = b /\ (t < v[2] \/ (t = v[2] /\ i < j))
Beyond(Y, r, b, t) ==
  \E j \in DOMAIN Y : Y[j].req = r /\ \E v \in Y[j].todo : v[1] = b /\ t < v[2]
Overtaken(X, Y, r) ==
  \A i \in DOMAIN X : X[i].req # r => \A w \in X[i].todo :
    Behind(X, r, w[1], w[2], i) \/ Beyond(Y, r, w[1], w[2])
Followed(X, Y, r) == Overtaken(X, Y, r) /\ Overtaken(Y, X, r)
Pending(X, r, b) == \E j \in DOMAIN X : X[j].req = r /\ \E v \in X[j].todo : v[1] = b

Evens == {2 * k : k \in Nat \ {0}}
Odds == {2 * k + 1 : k \in Nat \ {0}}
Turns(X, T) == \A i \in DOMAIN X : i \in Nat \ {0} /\ \A w \in X[i].todo : w[2] \in T

\* What comes of e when it is its turn: the writes of its next turns.
Comes(e, f) ==
  /\ f.req = e.req
  /\ \A w \in f.todo : w[2] \in Nat /\ w[2] > 1 /\ <<w[1], w[2] + 1>> \in e.todo
  /\ \A v \in e.todo : v[2] > 2 => <<v[1], v[2] - 1>> \in f.todo

LEMMA EvensOdds ==
  /\ \A t \in Evens : t \in Nat /\ t > 1
  /\ \A t \in Odds : t \in Nat /\ t > 2
  /\ \A t \in Evens, u \in Odds : t # u
  /\ \A t \in Evens, u \in Evens : t < u => t + 1 < u
  /\ \A t \in Odds, u \in Odds : t < u => t + 1 < u
BY DEF Evens, Odds

\* The same of the two kinds of turn.
Alternate(T, U) ==
  /\ \A t \in T : t \in Nat /\ t > 1
  /\ \A t \in U : t \in Nat /\ t > 1
  /\ \A t \in T, u \in U : t # u
  /\ \A t \in T, u \in T : t < u => t + 1 < u

LEMMA Move ==
  ASSUME NEW T, NEW U, Alternate(T, U), NEW X, NEW Y, NEW X2, NEW Y2, NEW e, NEW f, NEW r,
         Turns(X, T), Turns(Y, U), Shrinks(X, X2, e), Gains(Y, Y2, f), Comes(e, f),
         Followed(X, Y, r)
  PROVE  Followed(X2, Y2, r)
<1> PICK n \in Nat :
      /\ DOMAIN Y2 = DOMAIN Y \cup {n} /\ n \notin DOMAIN Y /\ Y2[n] = f
      /\ \A k \in DOMAIN Y : Y2[k] = Y[k] /\ k \in Nat /\ k < n
  BY DEF Gains
<1>0. /\ \A w \in e.todo : w[2] \in T
      /\ \A w \in f.todo : w[2] \in Nat /\ w[2] + 1 \in T /\ <<w[1], w[2] + 1>> \in e.todo
  <2>1. \A w \in e.todo : w[2] \in T
    BY DEF Shrinks, Turns
  <2>2. ASSUME NEW w \in f.todo
        PROVE  w[2] \in Nat /\ w[2] + 1 \in T /\ <<w[1], w[2] + 1>> \in e.todo
    <3>1. <<w[1], w[2] + 1>> \in e.todo /\ w[2] \in Nat
      BY DEF Comes
    <3>2. <<w[1], w[2] + 1>>[2] \in T
      BY <2>1, <3>1
    <3> QED BY <3>1, <3>2
  <2> QED BY <2>1, <2>2
\* What was behind in X still is.
<1>1. ASSUME NEW b, NEW t \in T, NEW i \in DOMAIN X, i # 1, Behind(X, r, b, t, i)
      PROVE  Behind(X2, r, b, t, i - 1) \/ Beyond(Y2, r, b, t)
  <2>1. PICK j \in DOMAIN X : X[j].req = r /\ \E v \in X[j].todo :
               v[1] = b /\ (t < v[2] \/ (t = v[2] /\ i < j))
    BY <1>1 DEF Behind
  <2>2. PICK v \in X[j].todo : v[1] = b /\ (t < v[2] \/ (t = v[2] /\ i < j))
    BY <2>1
  <2>3. CASE j = 1
    <3>1. /\ e.req = r /\ v \in e.todo /\ v[2] \in T /\ t + 1 < v[2]
          /\ t \in Nat /\ t > 1 /\ v[2] \in Nat
      BY <2>1, <2>2, <2>3, <1>0, <1>1 DEF Shrinks, Alternate, Turns
    <3>2. <<v[1], v[2] - 1>> \in f.todo /\ f.req = r
      BY <3>1 DEF Comes
    <3>3. Beyond(Y2, r, b, t)
      BY <2>2, <3>1, <3>2 DEF Beyond
    <3> QED BY <3>3
  <2>4. CASE j # 1
    <3>1. /\ j - 1 \in DOMAIN X2 /\ X2[j - 1] = X[j] /\ j \in Nat /\ i \in Nat
      BY <2>4, <1>1 DEF Shrinks
    <3> QED BY <2>1, <2>2, <3>1 DEF Behind
  <2> QED BY <2>3, <2>4
\* What was beyond, in the other queue, still is further on.
<1>2. ASSUME NEW b, NEW t \in U, NEW i \in DOMAIN Y, Beyond(X, r, b, t)
      PROVE  Behind(Y2, r, b, t, i) \/ Beyond(X2, r, b, t)
  <2>1. PICK j \in DOMAIN X : X[j].req = r /\ \E v \in X[j].todo : v[1] = b /\ t < v[2]
    BY <1>2 DEF Beyond
  <2>2. PICK v \in X[j].todo : v[1] = b /\ t < v[2]
    BY <2>1
  <2>3. CASE j = 1
    <3>1. e.req = r /\ v \in e.todo /\ v[2] \in Nat /\ t \in Nat /\ t > 1
      BY <2>1, <2>2, <2>3, <1>0, <1>2 DEF Shrinks, Alternate, Turns
    <3>2. <<v[1], v[2] - 1>> \in f.todo /\ f.req = r /\ v[2] > 2
      BY <2>2, <3>1 DEF Comes
    <3>3. (t < v[2] - 1 \/ t = v[2] - 1) /\ i < n /\ n \in DOMAIN Y2 /\ Y2[n] = f
      BY <2>2, <3>1
    <3>4. Behind(Y2, r, b, t, i)
      BY <2>2, <3>2, <3>3 DEF Behind
    <3> QED BY <3>4
  <2>4. CASE j # 1
    <3>1. j - 1 \in DOMAIN X2 /\ X2[j - 1] = X[j]
      BY <2>4 DEF Shrinks
    <3>2. Beyond(X2, r, b, t)
      BY <2>1, <2>2, <3>1 DEF Beyond
    <3> QED BY <3>2
  <2> QED BY <2>3, <2>4
\* What is added to Y comes after all that was there.
<1>3. ASSUME NEW b, NEW t, Beyond(Y, r, b, t) PROVE Beyond(Y2, r, b, t)
  BY <1>3 DEF Beyond
<1>4. ASSUME NEW b, NEW t, NEW i, Behind(Y, r, b, t, i) PROVE Behind(Y2, r, b, t, i)
  BY <1>4 DEF Behind
<1>5. Overtaken(X2, Y2, r)
  <2> SUFFICES ASSUME NEW i \in DOMAIN X2, X2[i].req # r, NEW w \in X2[i].todo
               PROVE  Behind(X2, r, w[1], w[2], i) \/ Beyond(Y2, r, w[1], w[2])
    BY DEF Overtaken
  <2>1. /\ i \in Nat /\ i > 0 /\ i + 1 \in DOMAIN X /\ X[i + 1] = X2[i]
    BY DEF Shrinks
  <2>2. i + 1 # 1 /\ (i + 1) - 1 = i /\ w[2] \in T
    BY <2>1 DEF Turns
  <2>3. Behind(X, r, w[1], w[2], i + 1) \/ Beyond(Y, r, w[1], w[2])
    BY <2>1 DEF Followed, Overtaken
  <2> QED BY <1>1, <1>3, <2>1, <2>2, <2>3
<1>6. Overtaken(Y2, X2, r)
  <2> SUFFICES ASSUME NEW i \in DOMAIN Y2, Y2[i].req # r, NEW w \in Y2[i].todo
               PROVE  Behind(Y2, r, w[1], w[2], i) \/ Beyond(X2, r, w[1], w[2])
    BY DEF Overtaken
  <2>1. CASE i \in DOMAIN Y
    <3>1. Y[i] = Y2[i] /\ w[2] \in U
      BY <2>1 DEF Turns
    <3>2. Behind(Y, r, w[1], w[2], i) \/ Beyond(X, r, w[1], w[2])
      BY <2>1, <3>1 DEF Followed, Overtaken
    <3> QED BY <1>2, <1>4, <2>1, <3>1, <3>2
  <2>2. CASE i = n
    <3>1. PICK t : t = w[2]
      OBVIOUS
    <3>2. PICK u : u = <<w[1], t + 1>>
      OBVIOUS
    <3>3. /\ 1 \in DOMAIN X /\ X[1] = e /\ e.req # r /\ t \in Nat /\ t + 1 \in T
          /\ u \in X[1].todo /\ u[1] = w[1] /\ u[2] = t + 1
      BY <1>0, <2>2, <3>1, <3>2 DEF Shrinks, Comes
    <3>4. Behind(X, r, w[1], t + 1, 1) \/ Beyond(Y, r, w[1], t + 1)
      BY <3>3 DEF Followed, Overtaken
    <3>5. CASE Behind(X, r, w[1], t + 1, 1)
      <4>1. PICK j \in DOMAIN X : X[j].req = r /\ \E v \in X[j].todo :
                   v[1] = w[1] /\ (t + 1 < v[2] \/ (t + 1 = v[2] /\ 1 < j))
        BY <3>5 DEF Behind
      <4>2. PICK v \in X[j].todo : v[1] = w[1] /\ (t + 1 < v[2] \/ (t + 1 = v[2] /\ 1 < j))
        BY <4>1
      <4>3. j # 1 /\ j - 1 \in DOMAIN X2 /\ X2[j - 1] = X[j]
        BY <3>3, <4>1 DEF Shrinks
      <4>4. v[2] \in Nat
        BY DEF Turns, Alternate
      <4>5. t < v[2]
        BY <3>3, <4>2, <4>4
      <4>6. Beyond(X2, r, w[1], t)
        BY <4>1, <4>2, <4>3, <4>5 DEF Beyond
      <4> QED BY <3>1, <4>6
    <3>6. CASE Beyond(Y, r, w[1], t + 1)
      <4>1. PICK j \in DOMAIN Y : Y[j].req = r /\ \E v \in Y[j].todo : v[1] = w[1] /\ t + 1 < v[2]
        BY <3>6 DEF Beyond
      <4>2. PICK v \in Y[j].todo : v[1] = w[1] /\ t + 1 < v[2]
        BY <4>1
      <4>3. v[2] \in Nat
        BY DEF Turns, Alternate
      <4>4. t < v[2] /\ j \in DOMAIN Y2 /\ Y2[j] = Y[j]
        BY <3>3, <4>2, <4>3
      <4>5. Behind(Y2, r, w[1], t, i)
        BY <4>1, <4>2, <4>4 DEF Behind
      <4> QED BY <3>1, <4>5
    <3> QED BY <3>4, <3>5, <3>6
  <2> QED BY <2>1, <2>2
<1> QED BY <1>5, <1>6 DEF Followed

\* An entry that goes, and asks for nothing or is another's.
LEMMA Drop ==
  ASSUME NEW X, NEW Y, NEW X2, NEW e, NEW r, Shrinks(X, X2, e), e.req # r \/ e.todo = {},
         Followed(X, Y, r)
  PROVE  Followed(X2, Y, r)
<1>1. \A j \in DOMAIN X : X[j].req = r /\ X[j].todo # {} => j # 1
  BY DEF Shrinks
<1>2. ASSUME NEW b, NEW t, Beyond(X, r, b, t) PROVE Beyond(X2, r, b, t)
  <2>1. PICK j \in DOMAIN X : X[j].req = r /\ \E v \in X[j].todo : v[1] = b /\ t < v[2]
    BY <1>2 DEF Beyond
  <2>2. j - 1 \in DOMAIN X2 /\ X2[j - 1] = X[j]
    BY <1>1, <2>1 DEF Shrinks
  <2> QED BY <2>1, <2>2 DEF Beyond
<1>3. ASSUME NEW b, NEW t, NEW i \in DOMAIN X2, Behind(X, r, b, t, i + 1)
      PROVE  Behind(X2, r, b, t, i)
  <2>1. PICK j \in DOMAIN X : X[j].req = r /\ \E v \in X[j].todo :
               v[1] = b /\ (t < v[2] \/ (t = v[2] /\ i + 1 < j))
    BY <1>3 DEF Behind
  <2>2. /\ j - 1 \in DOMAIN X2 /\ X2[j - 1] = X[j] /\ j \in Nat /\ i \in Nat
    BY <1>1, <2>1 DEF Shrinks
  <2> QED BY <2>1, <2>2 DEF Behind
<1>4. Overtaken(X2, Y, r)
  BY <1>3 DEF Shrinks, Followed, Overtaken
<1>5. Overtaken(Y, X2, r)
  BY <1>2 DEF Followed, Overtaken
<1> QED BY <1>4, <1>5 DEF Followed

\* An entry that comes, and asks for nothing.
LEMMA Add ==
  ASSUME NEW X, NEW Y, NEW Y2, NEW f, NEW r, Gains(Y, Y2, f), f.todo = {},
         Followed(X, Y, r)
  PROVE  Followed(X, Y2, r)
<1> PICK n \in Nat :
      /\ DOMAIN Y2 = DOMAIN Y \cup {n} /\ n \notin DOMAIN Y /\ Y2[n] = f
      /\ \A k \in DOMAIN Y : Y2[k] = Y[k] /\ k \in Nat /\ k < n
  BY DEF Gains
<1>1. ASSUME NEW b, NEW t, Beyond(Y, r, b, t) PROVE Beyond(Y2, r, b, t)
  BY <1>1 DEF Beyond
<1>2. ASSUME NEW b, NEW t, NEW i, Behind(Y, r, b, t, i) PROVE Behind(Y2, r, b, t, i)
  BY <1>2 DEF Behind
<1>3. Overtaken(X, Y2, r)
  BY <1>1 DEF Followed, Overtaken
<1>4. Overtaken(Y2, X, r)
  BY <1>2 DEF Followed, Overtaken
<1> QED BY <1>3, <1>4 DEF Followed

LEMMA FollowedSwap ==
  ASSUME NEW X, NEW Y, NEW r PROVE Followed(X, Y, r) <=> Followed(Y, X, r)
BY DEF Followed

\* One that comes last and goes through all settings not before anyone else.
LEMMA AddAll ==
  ASSUME NEW X, NEW Y, NEW Y2, NEW f, NEW r, Gains(Y, Y2, f), f.req = r,
         \A i \in DOMAIN X : \A w \in X[i].todo : \E v \in f.todo : v[1] = w[1] /\ w[2] < v[2],
         \A i \in DOMAIN Y : \A w \in Y[i].todo :
           \E v \in f.todo : v[1] = w[1] /\ (w[2] < v[2] \/ w[2] = v[2])
  PROVE  Followed(X, Y2, r)
<1> PICK n \in Nat :
      /\ DOMAIN Y2 = DOMAIN Y \cup {n} /\ n \notin DOMAIN Y /\ Y2[n] = f
      /\ \A k \in DOMAIN Y : Y2[k] = Y[k] /\ k \in Nat /\ k < n
  BY DEF Gains
<1>1. Overtaken(X, Y2, r)
  <2> SUFFICES ASSUME NEW i \in DOMAIN X, NEW w \in X[i].todo
               PROVE  Beyond(Y2, r, w[1], w[2])
    BY DEF Overtaken
  <2> QED BY DEF Beyond
<1>2. Overtaken(Y2, X, r)
  <2> SUFFICES ASSUME NEW i \in DOMAIN Y, NEW w \in Y[i].todo
               PROVE  Behind(Y2, r, w[1], w[2], i)
    BY DEF Overtaken
  <2> QED BY DEF Behind
<1> QED BY <1>1, <1>2 DEF Followed

\* What r will still write it does, unless it was its turn.
LEMMA PendingMove ==
  ASSUME NEW X, NEW Y, NEW X2, NEW Y2, NEW e, NEW f, NEW r, NEW b,
         Shrinks(X, X2, e), Gains(Y, Y2, f), Comes(e, f),
         Pending(X, r, b) \/ Pending(Y, r, b)
  PROVE  \/ Pending(X2, r, b) \/ Pending(Y2, r, b)
         \/ e.req = r /\ \E v \in e.todo : v[1] = b /\ ~(v[2] > 2)
<1>1. CASE Pending(Y, r, b)
  BY <1>1 DEF Pending, Gains
<1>2. CASE Pending(X, r, b)
  <2>1. PICK j \in DOMAIN X : X[j].req = r /\ \E v \in X[j].todo : v[1] = b
    BY <1>2 DEF Pending
  <2>2. PICK v \in X[j].todo : v[1] = b
    BY <2>1
  <2>3. CASE j = 1 /\ v[2] > 2
    <3>1. <<b, v[2] - 1>> \in f.todo /\ f.req = r
      BY <2>1, <2>2, <2>3 DEF Shrinks, Comes
    <3>2. \E w \in f.todo : w[1] = b
      BY <3>1
    <3>3. \E n \in DOMAIN Y2 : Y2[n] = f
      BY DEF Gains
    <3> QED BY <3>1, <3>2, <3>3 DEF Pending
  <2>4. CASE j = 1 /\ ~(v[2] > 2)
    BY <2>1, <2>2, <2>4 DEF Shrinks
  <2>5. CASE j # 1
    BY <2>1, <2>5 DEF Pending, Shrinks
  <2> QED BY <2>3, <2>4, <2>5
<1> QED BY <1>1, <1>2

\* It does so when another's entry or an empty one goes, and when one comes.
LEMMA PendingKept ==
  ASSUME NEW X, NEW X2, NEW e, NEW r, NEW b, Pending(X, r, b)
  PROVE  /\ Shrinks(X, X2, e) /\ (e.req # r \/ e.todo = {}) => Pending(X2, r, b)
         /\ Gains(X, X2, e) => Pending(X2, r, b)
<1>1. ASSUME Shrinks(X, X2, e), e.req # r \/ e.todo = {} PROVE Pending(X2, r, b)
  <2>1. PICK j \in DOMAIN X : X[j].req = r /\ \E v \in X[j].todo : v[1] = b
    BY DEF Pending
  <2>2. j # 1
    BY <1>1, <2>1 DEF Shrinks
  <2> QED BY <1>1, <2>1, <2>2 DEF Pending, Shrinks
<1>2. ASSUME Gains(X, X2, e) PROVE Pending(X2, r, b)
  BY <1>2 DEF Pending, Gains
<1> QED BY <1>1, <1>2

\* Whoever writes b before r does, r will.
LEMMA FollowedPending ==
  ASSUME NEW X, NEW Y, NEW r, Followed(X, Y, r),
         NEW i \in DOMAIN X, X[i].req # r, NEW w \in X[i].todo
  PROVE  Pending(X, r, w[1]) \/ Pending(Y, r, w[1])
BY DEF Followed, Overtaken, Behind, Beyond, Pending

\* What a command and a message will still make V8 write of breakpoints or of
\* exception types: a command now, and the rest of its list at every second
\* turn; a message comes in between.
Writers == {"changebreakpoint", "setexceptionbreak"}
TodoC(c, do) ==
  IF c.do = do
  THEN {<<c.id, 2>>} \cup {<<c.cb.rest[k], 2 * k + 2>> : k \in DOMAIN c.cb.rest}
  ELSE {}
StepsOf(do) == IF do = "changebreakpoint" THEN {"listed", "changed"} ELSE {"excepted"}
TodoM(m, do) ==
  IF m.cb.step \in StepsOf(do)
  THEN {<<Left(m)[k], 2 * k + 1>> : k \in DOMAIN Left(m)} ELSE {}
EntryC(c, do) == [req |-> c.cb.req, todo |-> TodoC(c, do)]
EntryM(m, do) == [req |-> m.cb.req, todo |-> TodoM(m, do)]
BookC(cs, do) == [k \in DOMAIN cs |-> EntryC(cs[k], do)]
BookM(ms, do) == [k \in DOMAIN ms |-> EntryM(ms[k], do)]

\* Nobody writes after request r but r itself, and what it will still write.
LastToWrite(cs, ms, do, r) == Followed(BookC(cs, do), BookM(ms, do), r)
WillWrite(cs, ms, do, r, b) == Pending(BookC(cs, do), r, b) \/ Pending(BookM(ms, do), r, b)

\* The books grow and shrink with the queues.
LEMMA BooksFollow ==
  ASSUME NEW s, NEW t, NEW x, NEW do
  PROVE  /\ Shrinks(s, t, x) => /\ Shrinks(BookC(s, do), BookC(t, do), EntryC(x, do))
                                /\ Shrinks(BookM(s, do), BookM(t, do), EntryM(x, do))
         /\ Grows(s, t, x) => /\ Gains(BookC(s, do), BookC(t, do), EntryC(x, do))
                              /\ Gains(BookM(s, do), BookM(t, do), EntryM(x, do))
<1>1. ASSUME Shrinks(s, t, x)
      PROVE  /\ Shrinks(BookC(s, do), BookC(t, do), EntryC(x, do))
             /\ Shrinks(BookM(s, do), BookM(t, do), EntryM(x, do))
  BY <1>1 DEF Shrinks, BookC, BookM
<1>2. ASSUME Grows(s, t, x)
      PROVE  /\ Gains(BookC(s, do), BookC(t, do), EntryC(x, do))
             /\ Gains(BookM(s, do), BookM(t, do), EntryM(x, do))
  <2>1. PICK n \in Nat : n = Len(s) + 1
    BY <1>2 DEF Grows
  <2>2. /\ DOMAIN t = DOMAIN s \cup {n} /\ n \notin DOMAIN s /\ t[n] = x
        /\ \A k \in DOMAIN s : t[k] = s[k] /\ k \in Nat /\ k < n
    BY <1>2, <2>1 DEF Grows
  <2>3. Gains(BookC(s, do), BookC(t, do), EntryC(x, do))
    <3>1. /\ DOMAIN BookC(t, do) = DOMAIN BookC(s, do) \cup {n} /\ n \notin DOMAIN BookC(s, do)
          /\ BookC(t, do)[n] = EntryC(x, do)
          /\ \A k \in DOMAIN BookC(s, do) : BookC(t, do)[k] = BookC(s, do)[k] /\ k \in Nat /\ k < n
      BY <2>2 DEF BookC
    <3> QED BY <3>1 DEF Gains
  <2>4. Gains(BookM(s, do), BookM(t, do), EntryM(x, do))
    <3>1. /\ DOMAIN BookM(t, do) = DOMAIN BookM(s, do) \cup {n} /\ n \notin DOMAIN BookM(s, do)
          /\ BookM(t, do)[n] = EntryM(x, do)
          /\ \A k \in DOMAIN BookM(s, do) : BookM(t, do)[k] = BookM(s, do)[k] /\ k \in Nat /\ k < n
      BY <2>2 DEF BookM
    <3> QED BY <3>1 DEF Gains
  <2> QED BY <2>3, <2>4
<1> QED BY <1>1, <1>2

\* Commands have the even turns, and messages the odd ones.
LEMMA TurnsAre ==
  ASSUME TypeOK, NEW do
  PROVE  Turns(BookC(cmds, do), Evens) /\ Turns(BookM(msgs, do), Odds)
<1>1. /\ cmds \in Seq(CmdType(Len(requests))) /\ msgs \in Seq(MsgType(Len(requests), lastBp))
      /\ Len(requests) \in Nat /\ lastBp \in Nat
  BY TypeParts DEF CmdsType, MsgsType, RequestsType, V8Type
<1>2. ASSUME NEW c \in CmdType(Len(requests)), NEW w \in TodoC(c, do)
      PROVE  w[2] \in Evens
  <2>1. c.cb.rest \in Seq(Nat)
    BY DEF CmdType, CbType
  <2>2. w[2] = 2 \/ \E k \in DOMAIN c.cb.rest : w[2] = 2 * k + 2
    BY DEF TodoC
  <2>3. CASE w[2] = 2
    <3>1. 1 \in Nat \ {0} /\ w[2] = 2 * 1
      BY <2>3
    <3> QED BY <3>1 DEF Evens
  <2>4. ASSUME NEW k \in DOMAIN c.cb.rest, w[2] = 2 * k + 2 PROVE w[2] \in Evens
    <3>1. k \in Nat
      BY <2>1
    <3>2. k + 1 \in Nat \ {0} /\ w[2] = 2 * (k + 1)
      BY <2>4, <3>1
    <3> QED BY <3>2 DEF Evens
  <2> QED BY <2>2, <2>3, <2>4
<1>3. ASSUME NEW m \in MsgType(Len(requests), lastBp), NEW w \in TodoM(m, do)
      PROVE  w[2] \in Odds
  <2>1. m.cb.rest \in Seq(Nat) /\ m.body \in Seq(1..lastBp)
    BY DEF MsgType, CbType
  <2>2. PICK k \in DOMAIN Left(m) : w[2] = 2 * k + 1
    BY DEF TodoM
  <2>3. k \in Nat \ {0}
    BY <2>1, <2>2 DEF Left
  <2> QED BY <2>2, <2>3 DEF Odds
<1>4. \A k \in DOMAIN cmds : cmds[k] \in CmdType(Len(requests)) /\ k \in Nat \ {0}
  BY <1>1
<1>5. \A k \in DOMAIN msgs : msgs[k] \in MsgType(Len(requests), lastBp) /\ k \in Nat \ {0}
  BY <1>1
<1>6. Turns(BookC(cmds, do), Evens)
  BY <1>2, <1>4 DEF Turns, BookC, EntryC
<1>7. Turns(BookM(msgs, do), Odds)
  BY <1>3, <1>5 DEF Turns, BookM, EntryM
<1> QED BY <1>6, <1>7

\* They alternate.
LEMMA TurnsAlternate == Alternate(Evens, Odds) /\ Alternate(Odds, Evens)
BY EvensOdds DEF Alternate

\* A turn at which a command writes, counted from that of its message.
LEMMA TurnBefore == \A k \in Nat : 2 * k + 2 \in Nat /\ 2 * k + 2 > 1
                                   /\ (2 * k + 2) + 1 = 2 * (k + 1) + 1
OBVIOUS

\* The callback of a message goes on with what is left.
LEMMA AskedOn ==
  ASSUME NEW do, NEW m, NEW c, c.cb.req = m.cb.req, Left(m) \in Seq(Nat), Left(m) # <<>>,
         c.id = Head(Left(m)), c.cb.rest = Tail(Left(m)),
         c.do = do <=> m.cb.step \in StepsOf(do)
  PROVE  Comes(EntryM(m, do), EntryC(c, do))
<1>1. CASE c.do = do
  <2>1. PICK l \in Seq(Nat) : l = Left(m) /\ l # <<>>
    OBVIOUS
  <2>2. PICK rest \in Seq(Nat) : rest = Tail(l) /\ Shrinks(l, rest, Head(l))
    BY <2>1, GrowsShrinks
  <2>3. /\ c.id = l[1] /\ c.cb.rest = rest /\ 1 \in DOMAIN l
        /\ \A k \in DOMAIN rest : k \in Nat \ {0} /\ k + 1 \in DOMAIN l /\ rest[k] = l[k + 1]
        /\ \A k \in DOMAIN l : k \in Nat \ {0} /\ (k # 1 => k - 1 \in DOMAIN rest)
    BY <2>1, <2>2 DEF Shrinks
  <2>4. /\ TodoM(m, do) = {<<l[k], 2 * k + 1>> : k \in DOMAIN l}
        /\ TodoC(c, do) = {<<l[1], 2>>} \cup {<<rest[k], 2 * k + 2>> : k \in DOMAIN rest}
    <3>1. m.cb.step \in StepsOf(do)
      BY <1>1
    <3>2. TodoM(m, do) = {<<l[k], 2 * k + 1>> : k \in DOMAIN l}
      BY <2>1, <3>1 DEF TodoM
    <3>3. TodoC(c, do) = {<<l[1], 2>>} \cup {<<rest[k], 2 * k + 2>> : k \in DOMAIN rest}
      BY <1>1, <2>3 DEF TodoC
    <3> QED BY <3>2, <3>3
  <2>5. ASSUME NEW w \in TodoC(c, do)
        PROVE  w[2] \in Nat /\ w[2] > 1 /\ <<w[1], w[2] + 1>> \in TodoM(m, do)
    <3>1. CASE w = <<l[1], 2>>
      <4>1. w[1] = l[1] /\ w[2] = 2 /\ w[2] + 1 = 2 * 1 + 1
        BY <3>1
      <4> QED BY <2>3, <2>4, <4>1
    <3>2. ASSUME NEW k \in DOMAIN rest, w = <<rest[k], 2 * k + 2>> 
              PROVE  w[2] \in Nat /\ w[2] > 1 /\ <<w[1], w[2] + 1>> \in TodoM(m, do)
      <4>1. PICK j \in Nat : j = k + 1
        BY <2>3
      <4>2. j \in DOMAIN l /\ w[1] = l[j] /\ k \in Nat /\ w[2] = 2 * k + 2
        BY <2>3, <3>2, <4>1
      <4>3. k \in Nat
        BY <4>2
      <4>4. 2 * k + 2 \in Nat /\ 2 * k + 2 > 1 /\ (2 * k + 2) + 1 = 2 * j + 1
        BY <4>1, <4>3, TurnBefore
      <4>5. w[2] \in Nat /\ w[2] > 1 /\ w[2] + 1 = 2 * j + 1
        BY <4>2, <4>4
      <4> QED BY <2>4, <4>2, <4>5
    <3> QED BY <2>4, <3>1, <3>2
  <2>6. ASSUME NEW v \in TodoM(m, do)
        PROVE  <<v[1], v[2] - 1>> \in TodoC(c, do)
    <3>1. PICK k \in DOMAIN l : v = <<l[k], 2 * k + 1>>
      BY <2>4
    <3>2. k \in Nat /\ v[1] = l[k] /\ v[2] - 1 = 2 * k
      BY <2>3, <3>1
    <3>3. CASE k = 1
      BY <2>4, <3>2, <3>3
    <3>4. CASE k # 1
      <4>1. PICK j : j = k - 1
        OBVIOUS
      <4>2. j \in DOMAIN rest
        BY <2>3, <3>4, <4>1
      <4>3. j \in Nat /\ rest[j] = l[j + 1] /\ j + 1 = k
        BY <2>3, <3>2, <4>1, <4>2
      <4>4. v[2] - 1 = 2 * j + 2
        BY <3>2, <4>1, <4>3
      <4> QED BY <2>4, <3>2, <4>2, <4>3, <4>4
    <3> QED BY <3>3, <3>4
  <2> QED BY <2>5, <2>6 DEF Comes, EntryM, EntryC
<1>2. CASE c.do # do
  <2>1. TodoC(c, do) = {} /\ TodoM(m, do) = {}
    BY <1>2 DEF TodoC, TodoM
  <2> QED BY <2>1 DEF Comes, EntryM, EntryC
<1> QED BY <1>1, <1>2

\* V8 answers a command of the list with the rest of it.
LEMMA AnsweredWithRest ==
  ASSUME NEW do, NEW c, NEW m, m.cb = c.cb, m.cb.rest \in Seq(Nat),
         TodoM(m, do) # {} => m.cb.step # "listed",
         c.do = do <=> m.cb.step \in StepsOf(do) \ {"listed"}
  PROVE  Comes(EntryC(c, do), EntryM(m, do))
<1>1. CASE c.do = do
  <2>1. PICK rest \in Seq(Nat) : rest = m.cb.rest
    OBVIOUS
  <2>2. /\ TodoM(m, do) = {<<rest[k], 2 * k + 1>> : k \in DOMAIN rest}
        /\ TodoC(c, do) = {<<c.id, 2>>} \cup {<<rest[k], 2 * k + 2>> : k \in DOMAIN rest}
        /\ \A k \in DOMAIN rest : k \in Nat \ {0}
    BY <1>1, <2>1 DEF TodoM, TodoC, Left
  <2>3. ASSUME NEW w \in TodoM(m, do)
        PROVE  w[2] \in Nat /\ w[2] > 1 /\ <<w[1], w[2] + 1>> \in TodoC(c, do)
    <3>1. PICK k \in DOMAIN rest : w = <<rest[k], 2 * k + 1>>
      BY <2>2
    <3>2. w[1] = rest[k] /\ w[2] = 2 * k + 1 /\ w[2] + 1 = 2 * k + 2 /\ w[2] \in Nat /\ w[2] > 1
      BY <2>2, <3>1
    <3> QED BY <2>2, <3>2
  <2>4. ASSUME NEW v \in TodoC(c, do), v[2] > 2
        PROVE  <<v[1], v[2] - 1>> \in TodoM(m, do)
    <3>1. v # <<c.id, 2>>
      BY <2>4
    <3>2. PICK k \in DOMAIN rest : v = <<rest[k], 2 * k + 2>>
      BY <2>2, <3>1
    <3>3. v[1] = rest[k] /\ v[2] - 1 = 2 * k + 1
      BY <2>2, <3>2
    <3> QED BY <2>2, <3>3
  <2> QED BY <2>3, <2>4 DEF Comes, EntryM, EntryC
<1>2. CASE c.do # do
  <2>1. TodoC(c, do) = {} /\ TodoM(m, do) = {}
    BY <1>2 DEF TodoC, TodoM
  <2> QED BY <2>1 DEF Comes, EntryM, EntryC
<1> QED BY <1>1, <1>2

\* What comes at the end of a queue and writes nothing changes neither.
LEMMA NothingWritten ==
  ASSUME NEW cs, NEW ms, NEW ds, NEW ns, NEW x, NEW do, NEW r,
         \/ Grows(cs, ds, x) /\ ns = ms /\ TodoC(x, do) = {}
         \/ Grows(ms, ns, x) /\ ds = cs /\ TodoM(x, do) = {}
  PROVE  /\ LastToWrite(cs, ms, do, r) => LastToWrite(ds, ns, do, r)
         /\ \A b : WillWrite(cs, ms, do, r, b) => WillWrite(ds, ns, do, r, b)
<1>1. CASE Grows(cs, ds, x) /\ ns = ms /\ TodoC(x, do) = {}
  <2>1. Gains(BookC(cs, do), BookC(ds, do), EntryC(x, do)) /\ EntryC(x, do).todo = {}
    BY <1>1, BooksFollow DEF EntryC
  <2>2. ASSUME Followed(BookM(ms, do), BookC(cs, do), r)
        PROVE  Followed(BookM(ms, do), BookC(ds, do), r)
    BY <2>1, <2>2, Add
  <2> QED BY <1>1, <2>1, <2>2, FollowedSwap, PendingKept DEF LastToWrite, WillWrite
<1>2. CASE Grows(ms, ns, x) /\ ds = cs /\ TodoM(x, do) = {}
  <2>1. Gains(BookM(ms, do), BookM(ns, do), EntryM(x, do)) /\ EntryM(x, do).todo = {}
    BY <1>2, BooksFollow DEF EntryM
  <2>2. ASSUME Followed(BookC(cs, do), BookM(ms, do), r)
        PROVE  Followed(BookC(cs, do), BookM(ns, do), r)
    BY <2>1, <2>2, Add
  <2> QED BY <1>2, <2>1, <2>2, PendingKept DEF LastToWrite, WillWrite
<1> QED BY <1>1, <1>2

\* A callback sends a command that goes on with the list of its message, or
\* one that writes nothing, or none.
LEMMA CallbackBooks ==
  ASSUME TypeOK, Fits, OnDebuggerMessage, NEW do \in Writers, NEW m, m = Head(msgs)
  PROVE  /\ AsksOn(m) => \E c : /\ Grows(cmds, cmds', c) /\ CmdFits(c, requests)
                                /\ c.cb.step \in {"changed", "excepted"}
                                /\ Comes(EntryM(m, do), EntryC(c, do))
         /\ ~AsksOn(m) => \/ cmds' = cmds
                          \/ \E c : /\ Grows(cmds, cmds', c) /\ CmdFits(c, requests)
                                    /\ c.cb.step \in {"continued", "paused", "cleared"}
                                    /\ c.cb.step = "cleared" => c.id = slot
                                    /\ TodoC(c, do) = {}
<1>1. /\ \A c : Sends(c) => Grows(cmds, cmds', c)
      /\ m \in MsgType(Len(requests), lastBp)
  BY CallbackKeeps
<1>2. ASSUME AsksOn(m)
      PROVE  \E c : /\ Grows(cmds, cmds', c) /\ CmdFits(c, requests)
                    /\ c.cb.step \in {"changed", "excepted"}
                    /\ Comes(EntryM(m, do), EntryC(c, do))
  <2>1. PICK c : /\ Sends(c) /\ c.cb.req = m.cb.req /\ Left(m) # <<>>
                 /\ c.id = Head(Left(m)) /\ c.cb.rest = Tail(Left(m))
                 /\ \/ m.cb.step \in {"listed", "changed"} /\ c.cb.step = "changed"
                    \/ m.cb.step = "excepted" /\ c.cb.step = "excepted"
    BY <1>2 DEF AsksOn
  <2>2. c.do = do <=> m.cb.step \in StepsOf(do)
    BY <2>1 DEF Sends, CmdFits, Writers, StepsOf
  <2>3. Left(m) \in Seq(Nat)
    <3>1. m.cb.rest \in Seq(Nat) /\ m.body \in Seq(1..lastBp) /\ lastBp \in Nat
      BY <1>1, TypeParts DEF MsgType, CbType, V8Type
    <3>2. m.body \in Seq(Nat)
      BY <3>1, SeqWider
    <3> QED BY <3>1, <3>2 DEF Left
  <2>4. Comes(EntryM(m, do), EntryC(c, do))
    BY <2>1, <2>2, <2>3, AskedOn
  <2> QED BY <1>1, <2>1, <2>4 DEF Sends
<1>3. ASSUME ~AsksOn(m)
      PROVE  \/ cmds' = cmds
             \/ \E c : /\ Grows(cmds, cmds', c) /\ CmdFits(c, requests)
                       /\ c.cb.step \in {"continued", "paused", "cleared"}
                       /\ c.cb.step = "cleared" => c.id = slot
                       /\ TodoC(c, do) = {}
  <2>1. CASE Replies(m) \/ Continues(m) \/ Reports(m)
    BY <2>1 DEF Replies, Continues, Reports
  <2>2. CASE GoesOn(m) \/ Suspends(m) \/ Stops(m) \/ Clears(m)
    <3>1. PICK c : /\ Sends(c) /\ c.cb.step \in {"continued", "paused", "cleared"}
                   /\ c.cb.step = "cleared" => c.id = slot
      BY <2>2 DEF GoesOn, Suspends, Stops, Clears
    <3>2. c.do # do
      BY <3>1 DEF Sends, CmdFits, Writers
    <3> QED BY <1>1, <3>1, <3>2 DEF TodoC, Sends
  <2> QED BY <1>3, <2>1, <2>2, Reactions
<1> QED BY <1>2, <1>3

\* The order of those that write is kept, unless r fails.
LEMMA CallbackWrites ==
  ASSUME TypeOK, Fits, OnDebuggerMessage, NEW do \in Writers, NEW r \in DOMAIN requests,
         requests'[r].answer # "error"
  PROVE  /\ LastToWrite(cmds, msgs, do, r) => LastToWrite(cmds', msgs', do, r)
         /\ \A b : WillWrite(cmds, msgs, do, r, b) => WillWrite(cmds', msgs', do, r, b)
<1>1. PICK m, cs, ms : m = Head(msgs) /\ cs = cmds' /\ ms = msgs'
  OBVIOUS
<1>2. Shrinks(msgs, ms, m) /\ m \in MsgType(Len(requests), lastBp)
  BY <1>1, CallbackKeeps
<1>3. Shrinks(BookM(msgs, do), BookM(ms, do), EntryM(m, do))
  BY <1>2, BooksFollow
<1>4. Turns(BookC(cmds, do), Evens) /\ Turns(BookM(msgs, do), Odds)
  BY TurnsAre
<1> DEFINE Goal == /\ LastToWrite(cmds, msgs, do, r) => LastToWrite(cs, ms, do, r)
                   /\ \A b : WillWrite(cmds, msgs, do, r, b) => WillWrite(cs, ms, do, r, b)
<1>5. ASSUME AsksOn(m) PROVE Goal
  <2>1. PICK c : Grows(cmds, cs, c) /\ Comes(EntryM(m, do), EntryC(c, do))
    BY <1>1, <1>5, CallbackBooks
  <2>2. Gains(BookC(cmds, do), BookC(cs, do), EntryC(c, do))
    BY <2>1, BooksFollow
  <2>3. ASSUME Followed(BookM(msgs, do), BookC(cmds, do), r)
        PROVE  Followed(BookM(ms, do), BookC(cs, do), r)
    BY <1>3, <1>4, <2>1, <2>2, <2>3, TurnsAlternate, Move
  <2>4. \A v \in EntryM(m, do).todo : v[2] > 2
    BY <1>3, <1>4, EvensOdds DEF Shrinks, Turns
  <2>5. ASSUME NEW b, WillWrite(cmds, msgs, do, r, b)
        PROVE  WillWrite(cs, ms, do, r, b)
    BY <1>3, <2>1, <2>2, <2>4, <2>5, PendingMove DEF WillWrite
  <2> QED BY <2>3, <2>5, FollowedSwap DEF LastToWrite
<1>6. ASSUME ~AsksOn(m) PROVE Goal
  <2>1. m.cb.req # r \/ TodoM(m, do) = {}
    <3>1. CASE Replies(m) /\ m.cb.req = r
      <4>1. PICK result \in {"ok", "error"} :
              /\ Answered(m.cb.req, result)
              /\ m.cb.step \in {"listed", "changed", "excepted"} /\ result = "ok" => Left(m) = <<>>
        BY <3>1 DEF Replies
      <4>2. r \in 0..Len(requests)
        BY <1>2, <3>1 DEF MsgType, CbType
      <4>3. requests'[r].answer = result
        BY <3>1, <4>1, <4>2, AnswerType DEF Answered
      <4>4. m.cb.step \in {"listed", "changed", "excepted"} => Left(m) = <<>>
        BY <4>1, <4>3
      <4> QED BY <4>4 DEF TodoM, StepsOf, Writers
    <3>2. CASE ~Replies(m)
      <4>1. m.cb.step \notin {"listed", "changed", "excepted"}
        BY <1>1, <1>6, <3>2, Reactions
           DEF GoesOn, Suspends, Continues, Stops, Clears, Reports
      <4> QED BY <4>1 DEF TodoM, StepsOf, Writers
    <3> QED BY <3>1, <3>2
  <2>2. /\ LastToWrite(cmds, msgs, do, r) => LastToWrite(cmds, ms, do, r)
        /\ \A b : WillWrite(cmds, msgs, do, r, b) => WillWrite(cmds, ms, do, r, b)
    <3>1. EntryM(m, do).req # r \/ EntryM(m, do).todo = {}
      BY <2>1 DEF EntryM
    <3>2. ASSUME Followed(BookM(msgs, do), BookC(cmds, do), r)
          PROVE  Followed(BookM(ms, do), BookC(cmds, do), r)
      BY <1>3, <3>1, <3>2, Drop
    <3> QED BY <1>3, <3>1, <3>2, FollowedSwap, PendingKept DEF LastToWrite, WillWrite
  <2>3. cs = cmds \/ \E c : Grows(cmds, cs, c) /\ TodoC(c, do) = {}
    BY <1>1, <1>6, CallbackBooks
  <2> QED BY <2>2, <2>3, NothingWritten
<1> QED BY <1>1, <1>5, <1>6

\* V8 answers a command with a message that goes on with its list.
LEMMA ServeBooks ==
  ASSUME TypeOK, Fits, ServeCommand, NEW do \in Writers, NEW c, c = Head(cmds),
         c.do # "listbreakpoints" \/ do # "changebreakpoint"
  PROVE  /\ Shrinks(BookC(cmds, do), BookC(cmds', do), EntryC(c, do))
         /\ \E m : /\ Gains(BookM(msgs, do), BookM(msgs', do), EntryM(m, do))
                   /\ Comes(EntryC(c, do), EntryM(m, do))
         /\ c.cb.rest \in Seq(Nat)
<1>1. PICK cs, ms : cs = cmds' /\ ms = msgs'
  OBVIOUS
<1>2. PICK m : /\ Shrinks(cmds, cs, c) /\ CmdFits(c, requests)
               /\ Grows(msgs, ms, m) /\ m.cb = c.cb
  BY <1>1, ServeAdds DEF Outcome
<1>3. /\ Shrinks(BookC(cmds, do), BookC(cs, do), EntryC(c, do))
      /\ Gains(BookM(msgs, do), BookM(ms, do), EntryM(m, do))
  BY <1>2, BooksFollow
<1>4. c.cb.rest \in Seq(Nat)
  <2>1. cmds \in Seq(CmdType(Len(requests))) /\ 1 \in DOMAIN cmds /\ cmds[1] = c
    BY <1>2, TypeParts DEF CmdsType, Shrinks
  <2>2. c \in CmdType(Len(requests))
    BY <2>1
  <2> QED BY <2>2 DEF CmdType, CbType
<1>5. Comes(EntryC(c, do), EntryM(m, do))
  <2>1. TodoM(m, do) # {} => m.cb.step # "listed"
    BY <1>2 DEF TodoM, StepsOf, CmdFits, Writers
  <2>2. c.do = do <=> m.cb.step \in StepsOf(do) \ {"listed"}
    BY <1>2 DEF StepsOf, CmdFits, Writers
  <2> QED BY <1>2, <1>4, <2>1, <2>2, AnsweredWithRest
<1> QED BY <1>1, <1>3, <1>4, <1>5

\* V8 keeps the order, too, except when it lists the breakpoints; and when it
\* writes for r, it writes what r will not write any more.
LEMMA ServeWrites ==
  ASSUME TypeOK, Fits, ServeCommand, NEW do \in Writers, NEW r, NEW c, c = Head(cmds),
         c.do # "listbreakpoints" \/ do # "changebreakpoint"
  PROVE  /\ LastToWrite(cmds, msgs, do, r) => LastToWrite(cmds', msgs', do, r)
         /\ \A b : WillWrite(cmds, msgs, do, r, b) =>
              \/ WillWrite(cmds', msgs', do, r, b)
              \/ c.cb.req = r /\ c.do = do /\ c.id = b
<1>1. PICK cs, ms : cs = cmds' /\ ms = msgs'
  OBVIOUS
<1>2. PICK m : /\ Shrinks(BookC(cmds, do), BookC(cs, do), EntryC(c, do))
               /\ Gains(BookM(msgs, do), BookM(ms, do), EntryM(m, do))
               /\ Comes(EntryC(c, do), EntryM(m, do)) /\ c.cb.rest \in Seq(Nat)
  BY <1>1, ServeBooks
<1>3. Turns(BookC(cmds, do), Evens) /\ Turns(BookM(msgs, do), Odds)
  BY TurnsAre
<1>4. ASSUME Followed(BookC(cmds, do), BookM(msgs, do), r)
      PROVE  Followed(BookC(cs, do), BookM(ms, do), r)
  BY <1>2, <1>3, <1>4, TurnsAlternate, Move
<1>5. ASSUME NEW b, NEW v \in EntryC(c, do).todo, v[1] = b, ~(v[2] > 2)
      PROVE  c.do = do /\ c.id = b
  <2>1. /\ c.do = do
        /\ v = <<c.id, 2>> \/ \E k \in DOMAIN c.cb.rest : v = <<c.cb.rest[k], 2 * k + 2>>
    BY <1>5 DEF EntryC, TodoC
  <2>2. ASSUME NEW k \in DOMAIN c.cb.rest, v = <<c.cb.rest[k], 2 * k + 2>> PROVE FALSE
    <3>1. k \in Nat \ {0}
      BY <1>2
    <3>2. 2 * k + 2 > 2
      BY <3>1
    <3> QED BY <1>5, <2>2, <3>2
  <2> QED BY <1>5, <2>1, <2>2
<1>6. ASSUME NEW b, WillWrite(cmds, msgs, do, r, b)
      PROVE  WillWrite(cs, ms, do, r, b) \/ (c.cb.req = r /\ c.do = do /\ c.id = b)
  <2>1. \/ Pending(BookC(cs, do), r, b) \/ Pending(BookM(ms, do), r, b)
        \/ EntryC(c, do).req = r /\ \E v \in EntryC(c, do).todo : v[1] = b /\ ~(v[2] > 2)
    BY <1>2, <1>6, PendingMove DEF WillWrite
  <2> QED BY <1>5, <2>1 DEF WillWrite, EntryC
<1> QED BY <1>1, <1>4, <1>6 DEF LastToWrite

------------------------------------------------------------------------------
(* The exceptions that V8 stops at.                                          *)

\* Request r has not failed, and there was no other of its kind after it.
Latest(reqs, r, kind) ==
  /\ reqs[r].kind = kind /\ reqs[r].answer # "error"
  /\ \A s \in DOMAIN reqs : s > r => reqs[s].kind # kind

Exceptions == "setexceptionbreak"

\* The latest setting will be written to every type, after all others, unless
\* it has been already.
ExceptionsAsSet(cs, ms, breaks, reqs) ==
  \A r \in DOMAIN reqs : Latest(reqs, r, "setPauseOnExceptions") =>
    /\ LastToWrite(cs, ms, Exceptions, r)
    /\ \A t \in {All, Uncaught} :
         WillWrite(cs, ms, Exceptions, r, t) \/ breaks[t] = Enables(reqs[r].arg, t)

\* What was latest before is so no longer when another comes or it fails; it
\* does not become so.
LEMMA LatestBefore ==
  ASSUME TypeOK, Fits, Underway, [Next]_vars, NEW r \in DOMAIN requests, NEW kind,
         Latest(requests', r, kind)
  PROVE  Latest(requests, r, kind) /\ requests'[r].arg = requests[r].arg
<1>1. CASE requests' = requests
  BY <1>1
<1>2. CASE Method
  <2>1. PICK q : Grows(requests, requests', q)
    BY <1>2, MethodAdds
  <2>2. DOMAIN requests \subseteq DOMAIN requests'
        /\ \A s \in DOMAIN requests : requests'[s] = requests[s]
    BY <2>1 DEF Grows
  <2> QED BY <2>2 DEF Latest
<1>3. CASE OnDebuggerMessage
  <2>1. PICK m : m = Head(msgs)
    OBVIOUS
  <2>2. /\ DOMAIN requests' = DOMAIN requests
        /\ \A s \in DOMAIN requests :
             /\ requests'[s].kind = requests[s].kind /\ requests'[s].arg = requests[s].arg
             /\ s # m.cb.req => requests'[s] = requests[s]
        /\ Shrinks(msgs, msgs', m)
    BY <1>3, <2>1, CallbackKeeps
  <2>3. requests[r].answer # "error"
    <3>1. CASE m.cb.req = r
      <4>1. r # 0
        BY TypeParts DEF RequestsType
      <4>2. 1 \in DOMAIN msgs /\ msgs[1] = m
        BY <2>2 DEF Shrinks
      <4>3. requests[r].answer = "none"
        BY <3>1, <4>1, <4>2 DEF Underway
      <4> QED BY <4>3
    <3>2. CASE m.cb.req # r
      BY <2>2, <3>2 DEF Latest
    <3> QED BY <3>1, <3>2
  <2> QED BY <2>2, <2>3 DEF Latest
<1>4. CASE Read
  BY <1>1, <1>4, ReadTakes
<1>5. CASE ServeCommand
  BY <1>1, <1>5 DEF ServeCommand
<1>6. CASE EnterDebugger \/ LeaveDebugger \/ Stop \/ UNCHANGED vars
  BY <1>1, <1>6 DEF EnterDebugger, LeaveDebugger, Stop, vars
<1> QED BY <1>2, <1>3, <1>4, <1>5, <1>6 DEF Next, V8

\* Which types are written when.
LEMMA ExceptionTurns ==
  ASSUME Fits
  PROVE  /\ \A i \in DOMAIN BookC(cmds, Exceptions) : \A w \in BookC(cmds, Exceptions)[i].todo :
              (w[1] = All /\ w[2] = 2) \/ (w[1] = Uncaught /\ w[2] \in {2, 4})
         /\ \A i \in DOMAIN BookM(msgs, Exceptions) : \A w \in BookM(msgs, Exceptions)[i].todo :
              w[1] = Uncaught /\ w[2] = 3
<1>1. ASSUME NEW rest, rest \in {<<>>, <<Uncaught>>}, NEW k \in DOMAIN rest
      PROVE  k = 1 /\ rest[k] = Uncaught
  BY <1>1
<1>2. ASSUME NEW c, CmdFits(c, requests), NEW w \in TodoC(c, Exceptions)
      PROVE  (w[1] = All /\ w[2] = 2) \/ (w[1] = Uncaught /\ w[2] \in {2, 4})
  <2>1. /\ c.do = Exceptions /\ c.id \in {All, Uncaught} /\ c.cb.rest \in {<<>>, <<Uncaught>>}
        /\ w = <<c.id, 2>> \/ \E k \in DOMAIN c.cb.rest : w = <<c.cb.rest[k], 2 * k + 2>>
    BY <1>2 DEF TodoC, CmdFits, Exceptions
  <2>2. CASE w = <<c.id, 2>>
    BY <2>1, <2>2
  <2>3. ASSUME NEW k \in DOMAIN c.cb.rest, w = <<c.cb.rest[k], 2 * k + 2>>
        PROVE  w[1] = Uncaught /\ w[2] = 4
    BY <1>1, <2>1, <2>3
  <2> QED BY <2>1, <2>2, <2>3
<1>3. ASSUME NEW m, MsgFits(m, requests), NEW w \in TodoM(m, Exceptions)
      PROVE  w[1] = Uncaught /\ w[2] = 3
  <2>1. m.cb.step = "excepted"
    BY <1>3 DEF TodoM, StepsOf, Exceptions
  <2>2. m.cb.rest \in {<<>>, <<Uncaught>>} /\ Left(m) = m.cb.rest
    BY <1>3, <2>1 DEF MsgFits, CallFits, Left
  <2>3. PICK k \in DOMAIN m.cb.rest : w = <<m.cb.rest[k], 2 * k + 1>>
    BY <2>2 DEF TodoM
  <2> QED BY <1>1, <2>2, <2>3
<1> QED BY <1>2, <1>3 DEF Fits, BookC, BookM, EntryC, EntryM

\* What another will write of b, r will write.
LEMMA WrittenAgain ==
  ASSUME TypeOK, ServeCommand, NEW do, NEW r, NEW c, Shrinks(cmds, cmds', c),
         LastToWrite(cmds, msgs, do, r), c.do = do, c.cb.req # r
  PROVE  WillWrite(cmds, msgs, do, r, c.id)
<1>1. 1 \in DOMAIN BookC(cmds, do) /\ BookC(cmds, do)[1] = EntryC(c, do)
  BY DEF Shrinks, BookC
<1>2. PICK w : w = <<c.id, 2>>
  OBVIOUS
<1>3. w \in BookC(cmds, do)[1].todo /\ w[1] = c.id /\ BookC(cmds, do)[1].req # r
  BY <1>1, <1>2 DEF EntryC, TodoC
<1> QED BY <1>1, <1>3, FollowedPending DEF LastToWrite, WillWrite

\* A method comes with a setting of its own, or none.
LEMMA MethodExceptions ==
  ASSUME TypeOK, Fits, Underway, Method, ExceptionsAsSet(cmds, msgs, exceptionBreak, requests)
  PROVE  ExceptionsAsSet(cmds', msgs', exceptionBreak', requests')
<1>1. PICK q, c : /\ Called(q, c) /\ Grows(requests, requests', q) /\ Grows(cmds, cmds', c)
                  /\ NewReq = Len(requests) + 1 /\ NewReq \notin DOMAIN requests
                  /\ requests'[NewReq] = q
  BY MethodAdds
<1>2. /\ CmdFits(c, requests') /\ c.cb.req = NewReq /\ msgs' = msgs
      /\ exceptionBreak' = exceptionBreak
      /\ q.kind = "setPauseOnExceptions" => c.id = All
      /\ c.cb.step \in {"done", "evaluated", "listed", "excepted", "suspended", "continued",
                        "located"}
  BY <1>1 DEF Called
<1>3. /\ DOMAIN requests' = DOMAIN requests \cup {NewReq}
      /\ \A r \in DOMAIN requests : NewReq > r
  BY <1>1 DEF Grows
<1>4. q.kind = "setPauseOnExceptions" <=> c.do = Exceptions
  BY <1>1, <1>2 DEF CmdFits, CallFits, Exceptions
<1> SUFFICES ASSUME NEW r \in DOMAIN requests', Latest(requests', r, "setPauseOnExceptions")
             PROVE  /\ LastToWrite(cmds', msgs, Exceptions, r)
                    /\ \A t \in {All, Uncaught} :
                         \/ WillWrite(cmds', msgs, Exceptions, r, t)
                         \/ exceptionBreak[t] = Enables(requests'[r].arg, t)
  BY <1>2 DEF ExceptionsAsSet
<1>5. CASE r \in DOMAIN requests
  <2>1. q.kind # "setPauseOnExceptions"
    BY <1>1, <1>3, <1>5 DEF Latest
  <2>2. TodoC(c, Exceptions) = {}
    BY <1>4, <2>1 DEF TodoC
  <2>3. Latest(requests, r, "setPauseOnExceptions") /\ requests'[r].arg = requests[r].arg
    BY <1>5, LatestBefore DEF Next
  <2> QED BY <1>1, <1>5, <2>2, <2>3, NothingWritten DEF ExceptionsAsSet
<1>6. CASE r = NewReq
  <2>1. c.do = Exceptions /\ c.id = All /\ c.cb.rest = <<Uncaught>>
    <3>1. c.do = Exceptions /\ c.id = All
      BY <1>1, <1>2, <1>4, <1>6 DEF Latest
    <3> QED BY <1>2, <3>1 DEF CmdFits, Exceptions
  <2>2. TodoC(c, Exceptions) = {<<All, 2>>, <<Uncaught, 4>>}
    <3>1. {<<c.cb.rest[k], 2 * k + 2>> : k \in DOMAIN c.cb.rest} = {<<Uncaught, 4>>}
      BY <2>1
    <3> QED BY <2>1, <3>1 DEF TodoC
  <2>3. PICK v, u : v = <<All, 2>> /\ u = <<Uncaught, 4>>
    OBVIOUS
  <2>4. /\ v \in EntryC(c, Exceptions).todo /\ v[1] = All /\ v[2] = 2
        /\ u \in EntryC(c, Exceptions).todo /\ u[1] = Uncaught /\ u[2] = 4
        /\ EntryC(c, Exceptions).req = r
    BY <1>2, <1>6, <2>2, <2>3 DEF EntryC
  <2>5. Gains(BookC(cmds, Exceptions), BookC(cmds', Exceptions), EntryC(c, Exceptions))
    BY <1>1, BooksFollow
  <2>6. \A i \in DOMAIN BookC(cmds, Exceptions) : \A w \in BookC(cmds, Exceptions)[i].todo :
          \E x \in EntryC(c, Exceptions).todo : x[1] = w[1] /\ (w[2] < x[2] \/ w[2] = x[2])
    BY <2>4, ExceptionTurns
  <2>7. \A i \in DOMAIN BookM(msgs, Exceptions) : \A w \in BookM(msgs, Exceptions)[i].todo :
          \E x \in EntryC(c, Exceptions).todo : x[1] = w[1] /\ w[2] < x[2]
    BY <2>4, ExceptionTurns
  <2>8. Followed(BookM(msgs, Exceptions), BookC(cmds', Exceptions), r)
    BY <2>4, <2>5, <2>6, <2>7, AddAll
  <2>9. \A t \in {All, Uncaught} : Pending(BookC(cmds', Exceptions), r, t)
    BY <2>4, <2>5 DEF Gains, Pending
  <2> QED BY <2>8, <2>9, FollowedSwap DEF LastToWrite, WillWrite
<1> QED BY <1>3, <1>5, <1>6

\* V8 writes one type of one setting.
LEMMA ServeExceptions ==
  ASSUME TypeOK, Fits, Underway, ServeCommand,
         ExceptionsAsSet(cmds, msgs, exceptionBreak, requests)
  PROVE  ExceptionsAsSet(cmds', msgs', exceptionBreak', requests')
<1>1. PICK c : c = Head(cmds)
  OBVIOUS
<1>2. PICK m : Shrinks(cmds, cmds', c) /\ CmdFits(c, requests) /\ requests' = requests
               /\ Outcome(c, m)
  BY <1>1, ServeAdds
<1>3. exceptionBreak' = IF c.do = Exceptions
                        THEN [exceptionBreak EXCEPT ![c.id] = c.flag] ELSE exceptionBreak
  BY <1>2 DEF Outcome, Exceptions
<1> SUFFICES ASSUME NEW r \in DOMAIN requests, Latest(requests, r, "setPauseOnExceptions")
             PROVE  /\ LastToWrite(cmds', msgs', Exceptions, r)
                    /\ \A t \in {All, Uncaught} :
                         \/ WillWrite(cmds', msgs', Exceptions, r, t)
                         \/ exceptionBreak'[t] = Enables(requests[r].arg, t)
  BY <1>2 DEF ExceptionsAsSet
<1>4. /\ LastToWrite(cmds, msgs, Exceptions, r)
      /\ \A t \in {All, Uncaught} : \/ WillWrite(cmds, msgs, Exceptions, r, t)
                                    \/ exceptionBreak[t] = Enables(requests[r].arg, t)
  BY DEF ExceptionsAsSet
<1>5. c.do # "listbreakpoints" \/ Exceptions # "changebreakpoint"
  BY DEF Exceptions
<1>6. Exceptions \in Writers
  BY DEF Exceptions, Writers
<1>7. /\ LastToWrite(cmds', msgs', Exceptions, r)
      /\ \A b : WillWrite(cmds, msgs, Exceptions, r, b) =>
           \/ WillWrite(cmds', msgs', Exceptions, r, b)
           \/ c.cb.req = r /\ c.do = Exceptions /\ c.id = b
  BY <1>1, <1>4, <1>5, <1>6, ServeWrites
<1> SUFFICES ASSUME NEW t \in {All, Uncaught}, ~WillWrite(cmds', msgs', Exceptions, r, t)
             PROVE  exceptionBreak'[t] = Enables(requests[r].arg, t)
  BY <1>7
<1>8. CASE c.do = Exceptions /\ c.id = t
  <2>1. c.cb.req = r
    BY <1>2, <1>4, <1>7, <1>8, WrittenAgain
  <2>2. c.flag <=> Enables(requests[r].arg, t)
    BY <1>2, <1>8, <2>1 DEF CmdFits, Exceptions
  <2>3. c.flag \in BOOLEAN /\ exceptionBreak \in [{All, Uncaught} -> BOOLEAN]
    <3>1. cmds \in Seq(CmdType(Len(requests))) /\ 1 \in DOMAIN cmds /\ cmds[1] = c
      BY <1>2, TypeParts DEF CmdsType, Shrinks
    <3>2. c \in CmdType(Len(requests))
      BY <3>1
    <3> QED BY <3>2, TypeParts DEF CmdType, V8Type
  <2>4. exceptionBreak'[t] = c.flag
    BY <1>3, <1>8, <2>3
  <2>5. Enables(requests[r].arg, t) \in BOOLEAN
    BY DEF Enables
  <2> QED BY <2>2, <2>3, <2>4, <2>5
<1>9. CASE ~(c.do = Exceptions /\ c.id = t)
  <2>1. exceptionBreak[t] = Enables(requests[r].arg, t)
    BY <1>4, <1>7, <1>9
  <2>2. exceptionBreak \in [{All, Uncaught} -> BOOLEAN]
    BY TypeParts DEF V8Type
  <2>3. exceptionBreak'[t] = exceptionBreak[t]
    BY <1>3, <1>9, <2>2
  <2> QED BY <2>1, <2>3
<1> QED BY <1>8, <1>9

\* A stop adds a message that writes nothing.
LEMMA StopWrites ==
  ASSUME TypeOK, Stop
  PROVE  \E m : Grows(msgs, msgs', m) /\ \A do \in Writers : TodoM(m, do) = {}
<1>1. PICK m : Grows(msgs, msgs', m) /\ m.cb.step = "stopped"
  BY StopAdds
<1>2. \A do \in Writers : TodoM(m, do) = {}
  BY <1>1 DEF TodoM, StepsOf, Writers
<1> QED BY <1>1, <1>2

\* Every step keeps the latest setting.
LEMMA NextExceptions ==
  ASSUME TypeOK, Fits, Underway, [Next]_vars,
         ExceptionsAsSet(cmds, msgs, exceptionBreak, requests)
  PROVE  ExceptionsAsSet(cmds', msgs', exceptionBreak', requests')
<1>0. Exceptions \in Writers
  BY DEF Exceptions, Writers
<1>1. CASE Method
  BY <1>1, MethodExceptions
<1>2. CASE OnDebuggerMessage
  <2>1. DOMAIN requests' = DOMAIN requests /\ exceptionBreak' = exceptionBreak
    BY <1>2, CallbackKeeps
  <2> SUFFICES ASSUME NEW r \in DOMAIN requests, Latest(requests', r, "setPauseOnExceptions")
               PROVE  /\ LastToWrite(cmds', msgs', Exceptions, r)
                      /\ \A t \in {All, Uncaught} :
                           \/ WillWrite(cmds', msgs', Exceptions, r, t)
                           \/ exceptionBreak[t] = Enables(requests'[r].arg, t)
    BY <2>1 DEF ExceptionsAsSet
  <2>2. Latest(requests, r, "setPauseOnExceptions") /\ requests'[r].arg = requests[r].arg
    BY LatestBefore
  <2>3. requests'[r].answer # "error"
    BY DEF Latest
  <2> QED BY <1>0, <1>2, <2>2, <2>3, CallbackWrites DEF ExceptionsAsSet
<1>3. CASE Read
  BY <1>3, ReadTakes DEF ExceptionsAsSet
<1>4. CASE ServeCommand
  BY <1>4, ServeExceptions
<1>5. CASE EnterDebugger \/ LeaveDebugger \/ UNCHANGED vars
  <2>1. UNCHANGED <<cmds, msgs, exceptionBreak, requests>>
    BY <1>5 DEF EnterDebugger, LeaveDebugger, vars, v8Vars
  <2> QED BY <2>1
<1>6. CASE Stop
  <2>1. UNCHANGED <<cmds, exceptionBreak, requests>>
    BY <1>6, StopAdds
  <2>2. PICK m : Grows(msgs, msgs', m) /\ TodoM(m, Exceptions) = {}
    BY <1>0, <1>6, StopWrites
  <2>3. \A r : /\ LastToWrite(cmds, msgs, Exceptions, r) => LastToWrite(cmds, msgs', Exceptions, r)
               /\ \A b : WillWrite(cmds, msgs, Exceptions, r, b)
                         => WillWrite(cmds, msgs', Exceptions, r, b)
    BY <2>2, NothingWritten
  <2> QED BY <2>1, <2>3 DEF ExceptionsAsSet
<1> QED BY <1>1, <1>2, <1>3, <1>4, <1>5, <1>6 DEF Next, V8

------------------------------------------------------------------------------
(* The breakpoints that V8 switches.                                         *)

Breakpoints == "changebreakpoint"

\* The place of breakpoint b in a list of all of D.
Rank(D, b) == Cardinality({a \in D : a <= b})

\* No write comes later than a list made now would make it come.
InPlace(e, D) == \A w \in e.todo : w[1] \in D /\ w[2] <= 2 * Rank(D, w[1]) + 1
InRank(X, D) == \A i \in DOMAIN X : InPlace(X[i], D)

\* Ranks are numbers, and no smaller among more breakpoints.
LEMMA RankWider ==
  ASSUME NEW n \in Nat, NEW E, E \subseteq 1..n, NEW D, D \subseteq E
  PROVE  \A b : Rank(D, b) \in Nat /\ Rank(E, b) \in Nat /\ Rank(D, b) <= Rank(E, b)
<1> SUFFICES ASSUME NEW b
             PROVE  Rank(D, b) \in Nat /\ Rank(E, b) \in Nat /\ Rank(D, b) <= Rank(E, b)
  OBVIOUS
<1>1. IsFiniteSet(1..n)
  BY FS_Interval
<1>2. PICK S, T : S = {a \in D : a <= b} /\ T = {a \in E : a <= b}
  OBVIOUS
<1>3. S \in SUBSET T /\ T \in SUBSET (1..n)
  BY <1>2
<1>4. IsFiniteSet(T)
  BY <1>1, <1>3, FS_Subset
<1>5. IsFiniteSet(S) /\ Cardinality(S) <= Cardinality(T)
  BY <1>3, <1>4, FS_Subset
<1>6. Cardinality(S) \in Nat /\ Cardinality(T) \in Nat
  BY <1>4, <1>5, FS_CardinalityType
<1> QED BY <1>2, <1>5, <1>6 DEF Rank

\* A list in ascending order has each breakpoint, at its rank.
LEMMA Listing ==
  ASSUME NEW D, IsFiniteSet(D), \A b \in D : b \in Nat,
         NEW list, list \in [1..Cardinality(D) -> D],
         \A i, j \in DOMAIN list : i < j => list[i] < list[j]
  PROVE  /\ \A b \in D : \E k \in DOMAIN list : list[k] = b
         /\ \A k \in DOMAIN list : k \in Nat \ {0} /\ Rank(D, list[k]) = k
<1>1. PICK c \in Nat : c = Cardinality(D)
  BY FS_CardinalityType
<1>2. /\ DOMAIN list = 1..c /\ list \in [1..c -> D]
      /\ \A k \in 1..c : list[k] \in D /\ list[k] \in Nat
      /\ \A i, j \in 1..c : i < j => list[i] < list[j]
  <2>1. list \in [1..c -> D]
    BY <1>1
  <2>2. DOMAIN list = 1..c
    BY <2>1
  <2>3. \A k \in 1..c : list[k] \in D
    BY <2>1
  <2>4. \A b \in D : b \in Nat
    OBVIOUS
  <2> QED BY <2>1, <2>2, <2>3, <2>4
<1>3. \A i, j \in 1..c : list[i] = list[j] => i = j
  BY <1>2
<1>4. list \in Surjection(1..c, D)
  <2>1. list \in Injection(1..c, D)
    BY <1>2, <1>3 DEF Injection, IsInjective
  <2>2. Cardinality(1..c) = Cardinality(D)
    BY <1>1, FS_Interval
  <2> QED BY <2>1, <2>2, FS_Injection
<1>5. \A b \in D : \E k \in 1..c : list[k] = b
  BY <1>4 DEF Surjection
<1>6. ASSUME NEW k \in 1..c PROVE Rank(D, list[k]) = k
  <2>1. PICK T : T = {a \in D : a <= list[k]}
    OBVIOUS
  <2>2. PICK g : g = [i \in 1..k |-> list[i]]
    OBVIOUS
  <2>3. g \in [1..k -> T]
    <3>1. ASSUME NEW i \in 1..k PROVE i \in 1..c /\ list[i] \in D /\ list[i] <= list[k]
      <4>1. i \in 1..c /\ (i < k \/ i = k) /\ k \in 1..c
        OBVIOUS
      <4>2. list[i] \in D /\ list[i] \in Nat /\ list[k] \in Nat
        BY <1>2, <4>1
      <4>3. i < k => list[i] < list[k]
        BY <1>2, <4>1
      <4> QED BY <4>1, <4>2, <4>3
    <3> QED BY <2>1, <2>2, <3>1
  <2>4. \A i, j \in 1..k : g[i] = g[j] => i = j
    BY <1>3, <2>2
  <2>5. ASSUME NEW a \in T PROVE \E i \in 1..k : g[i] = a
    <3>1. PICK i \in 1..c : list[i] = a
      BY <1>5, <2>1
    <3>2. i <= k
      BY <1>2, <2>1, <3>1
    <3> QED BY <2>2, <3>1, <3>2
  <2>6. ExistsBijection(1..k, T)
    <3>1. g \in Bijection(1..k, T)
      BY <2>3, <2>4, <2>5 DEF Bijection, Injection, IsInjective, Surjection
    <3> QED BY <3>1 DEF ExistsBijection
  <2>7. IsFiniteSet(1..k) /\ Cardinality(1..k) = k
    BY FS_Interval
  <2>8. Cardinality(T) = k
    BY <2>6, <2>7, FS_Bijection
  <2> QED BY <2>1, <2>8 DEF Rank
<1> QED BY <1>2, <1>5, <1>6

\* What goes, what comes of it, and what comes otherwise.
LEMMA RankKept ==
  ASSUME NEW D, NEW X, NEW X2, NEW e, InRank(X, D)
  PROVE  /\ Shrinks(X, X2, e) => InRank(X2, D) /\ InPlace(e, D)
         /\ Gains(X, X2, e) /\ InPlace(e, D) => InRank(X2, D)
         /\ Gains(X, X2, e) /\ e.todo = {} => InRank(X2, D)
<1>1. ASSUME Shrinks(X, X2, e) PROVE InRank(X2, D) /\ InPlace(e, D)
  BY <1>1 DEF Shrinks, InRank
<1>2. ASSUME Gains(X, X2, e), InPlace(e, D) PROVE InRank(X2, D)
  BY <1>2 DEF Gains, InRank
<1>3. e.todo = {} => InPlace(e, D)
  BY DEF InPlace
<1> QED BY <1>1, <1>2, <1>3

\* What comes of it is in its place.
LEMMA PlaceKept ==
  ASSUME NEW D, \A b : Rank(D, b) \in Nat, NEW e, NEW f, Comes(e, f), InPlace(e, D)
  PROVE  InPlace(f, D)
<1> SUFFICES ASSUME NEW w \in f.todo PROVE w[1] \in D /\ w[2] <= 2 * Rank(D, w[1]) + 1
  BY DEF InPlace
<1>1. PICK b, t : b = w[1] /\ t = w[2]
  OBVIOUS
<1>2. PICK v : v = <<b, t + 1>>
  OBVIOUS
<1>3. t \in Nat /\ v \in e.todo /\ v[1] = b /\ v[2] = t + 1
  BY <1>1, <1>2 DEF Comes
<1>4. b \in D /\ t + 1 <= 2 * Rank(D, b) + 1
  BY <1>3 DEF InPlace
<1>5. Rank(D, b) \in Nat
  OBVIOUS
<1> QED BY <1>1, <1>3, <1>4, <1>5

\* More breakpoints leave it there.
LEMMA PlaceWider ==
  ASSUME NEW n \in Nat, NEW E, E \subseteq 1..n, NEW D, D \subseteq E,
         NEW e, \A w \in e.todo : w[2] \in Nat, InPlace(e, D)
  PROVE  InPlace(e, E)
<1> SUFFICES ASSUME NEW w \in e.todo
             PROVE  w[1] \in E /\ w[2] <= 2 * Rank(E, w[1]) + 1
  BY DEF InPlace
<1>1. PICK b, t : b = w[1] /\ t = w[2]
  OBVIOUS
<1>2. b \in D /\ t \in Nat /\ t <= 2 * Rank(D, b) + 1
  BY <1>1 DEF InPlace
<1>3. Rank(D, b) \in Nat /\ Rank(E, b) \in Nat /\ Rank(D, b) <= Rank(E, b)
  BY RankWider
<1> QED BY <1>1, <1>2, <1>3

\* Request r will have the breakpoints listed, after the first i commands.
Lists(cs, r, i) ==
  \E j \in DOMAIN cs : cs[j].do = "listbreakpoints" /\ cs[j].cb.req = r /\ i < j

\* What must not come after that: another list, and a breakpoint older than r.
Early(c, r) ==
  \/ c.do = "listbreakpoints" /\ c.cb.req # r
  \/ c.do = "setbreakpoint" /\ c.cb.req < r

\* The latest setting will list the breakpoints, or it has and will write to
\* every one older than it, after all others, unless it has been already.
Switched(cs, ms, bp, reqs, r) ==
  /\ LastToWrite(cs, ms, Breakpoints, r)
  /\ \A b \in DOMAIN bp : bp[b].by < r =>
       WillWrite(cs, ms, Breakpoints, r, b) \/ (bp[b].enabled <=> reqs[r].arg = "on")
BreakpointsAsSet(cs, ms, bp, reqs) ==
  \A r \in DOMAIN reqs : Latest(reqs, r, "setBreakpointsActive") =>
    /\ \A i \in DOMAIN cs : Early(cs[i], r) => Lists(cs, r, i)
    /\ Lists(cs, r, 0) \/ Switched(cs, ms, bp, reqs, r)

\* The only breakpoint that is cleared is one V8 does not have.
Stale(cs) == \A k \in DOMAIN cs : cs[k].do = "clearbreakpoint" => cs[k].id <= 1
NoneGoes == slot <= 1 /\ lastBp >= 1 /\ (\A b \in DOMAIN bps : b > 1) /\ Stale(cmds)

SwitchInv ==
  BreakpointsStay =>
    /\ NoneGoes
    /\ InRank(BookC(cmds, Breakpoints), DOMAIN bps)
    /\ InRank(BookM(msgs, Breakpoints), DOMAIN bps)
    /\ BreakpointsAsSet(cmds, msgs, bps, requests)

\* More commands leave what was listed listed.
LEMMA ListsGrows ==
  ASSUME NEW cs, NEW ds, NEW x, Grows(cs, ds, x), NEW r, NEW i
  PROVE  /\ Lists(cs, r, i) => Lists(ds, r, i)
         /\ x.do # "clearbreakpoint" \/ x.id <= 1 => (Stale(cs) => Stale(ds))
BY DEF Grows, Lists, Stale

\* A method comes with a setting of its own, or none, and clears nothing.
LEMMA MethodSwitch ==
  ASSUME TypeOK, Fits, Underway, Method, SwitchInv
  PROVE  SwitchInv'
<1>1. PICK q, c : /\ Called(q, c) /\ Grows(requests, requests', q) /\ Grows(cmds, cmds', c)
                  /\ NewReq = Len(requests) + 1 /\ NewReq \notin DOMAIN requests
                  /\ requests'[NewReq] = q
  BY MethodAdds
<1>2. /\ CmdFits(c, requests') /\ c.cb.req = NewReq
      /\ UNCHANGED <<msgs, slot, bps, lastBp>>
      /\ c.cb.step \in {"done", "evaluated", "listed", "excepted", "suspended", "continued",
                        "located"}
      /\ q.kind = "setBreakpointsActive" =>
           c.cb.step \in {"done", "evaluated", "listed", "excepted"}
  BY <1>1 DEF Called, RunControls
<1>3. /\ DOMAIN requests' = DOMAIN requests \cup {NewReq}
      /\ \A r \in DOMAIN requests : requests'[r] = requests[r] /\ NewReq > r /\ r \in Nat
      /\ NewReq \in Nat
  BY <1>1 DEF Grows
<1>4. c.do = "listbreakpoints" <=> q.kind = "setBreakpointsActive"
  BY <1>1, <1>2 DEF CmdFits, CallFits
<1> SUFFICES ASSUME BreakpointsStay'
             PROVE  /\ NoneGoes'
                    /\ InRank(BookC(cmds', Breakpoints), DOMAIN bps)
                    /\ InRank(BookM(msgs', Breakpoints), DOMAIN bps)
                    /\ BreakpointsAsSet(cmds', msgs', bps', requests')
  BY <1>2 DEF SwitchInv
<1>5. BreakpointsStay /\ q.kind \notin {"removeBreakpoint", "continueToLocation"}
  BY <1>1, <1>3 DEF BreakpointsStay
<1>6. /\ NoneGoes
      /\ InRank(BookC(cmds, Breakpoints), DOMAIN bps)
      /\ InRank(BookM(msgs, Breakpoints), DOMAIN bps)
      /\ BreakpointsAsSet(cmds, msgs, bps, requests)
  BY <1>5 DEF SwitchInv
<1>7. NoneGoes'
  <2>1. c.do # "clearbreakpoint"
    BY <1>1, <1>2, <1>5 DEF CmdFits
  <2>2. Stale(cmds')
    BY <1>1, <1>6, <2>1, ListsGrows DEF NoneGoes
  <2> QED BY <1>2, <1>6, <2>2 DEF NoneGoes, Stale
<1>8. TodoC(c, Breakpoints) = {}
  BY <1>2 DEF TodoC, CmdFits, Breakpoints
<1>9. InRank(BookC(cmds', Breakpoints), DOMAIN bps)
  <2>1. /\ Gains(BookC(cmds, Breakpoints), BookC(cmds', Breakpoints), EntryC(c, Breakpoints))
        /\ EntryC(c, Breakpoints).todo = {}
    BY <1>1, <1>8, BooksFollow DEF EntryC
  <2> QED BY <1>6, <2>1, RankKept
<1>10. ASSUME NEW r \in DOMAIN requests', Latest(requests', r, "setBreakpointsActive")
       PROVE  /\ \A i \in DOMAIN cmds' : Early(cmds'[i], r) => Lists(cmds', r, i)
              /\ Lists(cmds', r, 0) \/ Switched(cmds', msgs, bps, requests', r)
  <2>1. CASE r \in DOMAIN requests
    <3>1. Latest(requests, r, "setBreakpointsActive") /\ requests'[r].arg = requests[r].arg
      BY <1>10, <2>1, LatestBefore DEF Next
    <3>2. ~Early(c, r)
      BY <1>1, <1>2, <1>3, <1>4, <1>10, <2>1 DEF Latest, Early
    <3>3. \A i \in DOMAIN cmds' : Early(cmds'[i], r) => Lists(cmds', r, i)
      BY <1>1, <1>6, <2>1, <3>1, <3>2, ListsGrows DEF BreakpointsAsSet, Grows
    <3>4. CASE Lists(cmds, r, 0)
      BY <1>1, <3>3, <3>4, ListsGrows
    <3>5. CASE Switched(cmds, msgs, bps, requests, r)
      <4>1. Switched(cmds', msgs, bps, requests', r)
        BY <1>1, <1>8, <3>1, <3>5, NothingWritten DEF Switched
      <4> QED BY <3>3, <4>1
    <3> QED BY <1>6, <2>1, <3>1, <3>4, <3>5 DEF BreakpointsAsSet
  <2>2. CASE r = NewReq
    <3>1. c.do = "listbreakpoints" /\ c.cb.req = r
      BY <1>1, <1>2, <1>4, <1>10, <2>2 DEF Latest
    <3>2. PICK n \in Nat : n = Len(cmds) + 1 /\ n \in DOMAIN cmds' /\ cmds'[n] = c
                           /\ \A k \in DOMAIN cmds' : k = n \/ (k \in DOMAIN cmds /\ k < n)
      BY <1>1 DEF Grows
    <3>3. \A i \in DOMAIN cmds' : i # n => Lists(cmds', r, i)
      BY <3>1, <3>2 DEF Lists
    <3>4. ~Early(cmds'[n], r)
      BY <3>1, <3>2 DEF Early
    <3>5. Lists(cmds', r, 0)
      <4>1. n > 0
        BY <1>1, <3>2 DEF Grows
      <4> QED BY <3>1, <3>2, <4>1 DEF Lists
    <3> QED BY <3>3, <3>4, <3>5
  <2> QED BY <1>3, <2>1, <2>2
<1>11. BreakpointsAsSet(cmds', msgs', bps', requests')
  BY <1>2, <1>10 DEF BreakpointsAsSet
<1> QED BY <1>2, <1>6, <1>7, <1>9, <1>11

\* A callback sends what goes on with a list, or clears what V8 does not have.
LEMMA CallbackSwitch ==
  ASSUME TypeOK, Fits, Underway, OnDebuggerMessage, SwitchInv
  PROVE  SwitchInv'
<1>0. Breakpoints \in Writers
  BY DEF Breakpoints, Writers
<1>1. PICK m : m = Head(msgs)
  OBVIOUS
<1>2. /\ DOMAIN requests' = DOMAIN requests
      /\ \A r \in DOMAIN requests :
           requests'[r].kind = requests[r].kind /\ requests'[r].arg = requests[r].arg
      /\ MsgFits(m, requests) /\ m \in MsgType(Len(requests), lastBp)
      /\ Shrinks(msgs, msgs', m)
      /\ UNCHANGED <<bps, lastBp>>
  BY <1>1, CallbackKeeps
<1> SUFFICES ASSUME BreakpointsStay'
             PROVE  /\ NoneGoes'
                    /\ InRank(BookC(cmds', Breakpoints), DOMAIN bps)
                    /\ InRank(BookM(msgs', Breakpoints), DOMAIN bps)
                    /\ BreakpointsAsSet(cmds', msgs', bps', requests')
  BY <1>2 DEF SwitchInv
<1>3. BreakpointsStay
  BY <1>2 DEF BreakpointsStay
<1>4. /\ NoneGoes
      /\ InRank(BookC(cmds, Breakpoints), DOMAIN bps)
      /\ InRank(BookM(msgs, Breakpoints), DOMAIN bps)
      /\ BreakpointsAsSet(cmds, msgs, bps, requests)
  BY <1>3 DEF SwitchInv
<1>5. m.cb.step # "located"
  <2>1. m.cb.step = "located" =>
          m.cb.req \in DOMAIN requests /\ requests[m.cb.req].kind = "continueToLocation"
    BY <1>2, Named DEF MsgFits, CallFits, Shrinks
  <2> QED BY <1>3, <2>1 DEF BreakpointsStay
<1>6. slot' \in {0, slot}
  BY <1>1, <1>5, Reactions
     DEF Replies, AsksOn, GoesOn, Suspends, Continues, Stops, Clears, Reports
<1>7. \/ cmds' = cmds
      \/ \E c : /\ Grows(cmds, cmds', c)
                /\ c.do \notin {"listbreakpoints", "setbreakpoint"}
                /\ c.do = "clearbreakpoint" => c.id = slot
  <2>1. \/ cmds' = cmds
        \/ \E c : /\ Grows(cmds, cmds', c) /\ CmdFits(c, requests)
                  /\ c.cb.step \in {"changed", "excepted", "continued", "paused", "cleared"}
                  /\ c.cb.step = "cleared" => c.id = slot
    BY <1>0, <1>1, CallbackBooks
  <2> QED BY <2>1 DEF CmdFits
<1>8. NoneGoes'
  <2>1. Stale(cmds) /\ slot <= 1
    BY <1>4 DEF NoneGoes
  <2>2. ASSUME NEW c, Grows(cmds, cmds', c), c.do = "clearbreakpoint" => c.id = slot
        PROVE  Stale(cmds')
    BY <2>1, <2>2, ListsGrows
  <2>3. Stale(cmds')
    BY <1>7, <2>1, <2>2
  <2> QED BY <1>2, <1>4, <1>6, <2>3 DEF NoneGoes, Stale
<1>9. /\ InRank(BookM(msgs', Breakpoints), DOMAIN bps)
      /\ InPlace(EntryM(m, Breakpoints), DOMAIN bps)
  BY <1>2, <1>4, BooksFollow, RankKept
<1>10. InRank(BookC(cmds', Breakpoints), DOMAIN bps)
  <2>1. ASSUME NEW c, Grows(cmds, cmds', c), Comes(EntryM(m, Breakpoints), EntryC(c, Breakpoints))
        PROVE  InRank(BookC(cmds', Breakpoints), DOMAIN bps)
    <3>1. lastBp \in Nat /\ DOMAIN bps \subseteq 1..lastBp
      BY TypeParts DEF V8Type, BpsType
    <3>2. \A b : Rank(DOMAIN bps, b) \in Nat
      BY <3>1, RankWider
    <3>3. InPlace(EntryC(c, Breakpoints), DOMAIN bps)
      BY <1>9, <2>1, <3>2, PlaceKept
    <3> QED BY <1>4, <2>1, <3>3, BooksFollow, RankKept
  <2>2. ASSUME NEW c, Grows(cmds, cmds', c), TodoC(c, Breakpoints) = {}
        PROVE  InRank(BookC(cmds', Breakpoints), DOMAIN bps)
    <3>1. EntryC(c, Breakpoints).todo = {}
      BY <2>2 DEF EntryC
    <3> QED BY <1>4, <2>2, <3>1, BooksFollow, RankKept
  <2> QED BY <1>0, <1>1, <1>4, <2>1, <2>2, CallbackBooks
<1>11. ASSUME NEW r \in DOMAIN requests, Latest(requests', r, "setBreakpointsActive")
       PROVE  /\ \A i \in DOMAIN cmds' : Early(cmds'[i], r) => Lists(cmds', r, i)
              /\ Lists(cmds', r, 0) \/ Switched(cmds', msgs', bps, requests', r)
  <2>1. Latest(requests, r, "setBreakpointsActive") /\ requests'[r].answer # "error"
    BY <1>11, LatestBefore DEF Latest, Next
  <2>2. \A i : Lists(cmds, r, i) => Lists(cmds', r, i)
    BY <1>7, ListsGrows
  <2>3. \A i \in DOMAIN cmds' : Early(cmds'[i], r) => Lists(cmds', r, i)
    BY <1>4, <1>7, <2>1, <2>2 DEF BreakpointsAsSet, Grows, Early
  <2>4. Switched(cmds, msgs, bps, requests, r) => Switched(cmds', msgs', bps, requests', r)
    BY <1>0, <1>2, <2>1, CallbackWrites DEF Switched
  <2> QED BY <1>4, <2>1, <2>2, <2>3, <2>4 DEF BreakpointsAsSet
<1>12. BreakpointsAsSet(cmds', msgs', bps', requests')
  BY <1>2, <1>11 DEF BreakpointsAsSet
<1> QED BY <1>8, <1>9, <1>10, <1>12

\* V8 serves a command: what it says of the places of the writes.
LEMMA ServeRanks ==
  ASSUME TypeOK, Fits, ServeCommand, NoneGoes,
         InRank(BookC(cmds, Breakpoints), DOMAIN bps),
         InRank(BookM(msgs, Breakpoints), DOMAIN bps)
  PROVE  /\ NoneGoes' /\ DOMAIN bps \subseteq DOMAIN bps'
         /\ InRank(BookC(cmds', Breakpoints), DOMAIN bps')
         /\ InRank(BookM(msgs', Breakpoints), DOMAIN bps')
<1>1. PICK c : c = Head(cmds)
  OBVIOUS
<1>2. PICK m : /\ Shrinks(cmds, cmds', c) /\ CmdFits(c, requests) /\ slot' = slot
               /\ Grows(msgs, msgs', m) /\ Outcome(c, m)
  BY <1>1, ServeAdds
<1>3. lastBp \in Nat /\ DOMAIN bps \subseteq 1..lastBp
  BY TypeParts DEF V8Type, BpsType
<1>4. c.do = "clearbreakpoint" => c.id \notin DOMAIN bps
  BY <1>2, <1>3 DEF Shrinks, NoneGoes, Stale
<1>5. \/ DOMAIN bps' = DOMAIN bps /\ lastBp' = lastBp
      \/ DOMAIN bps' = DOMAIN bps \cup {lastBp'} /\ lastBp' = lastBp + 1
  <2>1. BpsAfter(c, m)
    BY <1>2 DEF Outcome
  <2>2. CASE c.do = "setbreakpoint" /\ m.ok
    BY <2>1, <2>2 DEF BpsAfter
  <2>3. CASE ~(c.do = "setbreakpoint" /\ m.ok)
    <3>1. lastBp' = lastBp
          /\ DOMAIN bps' = DOMAIN bps \ (IF c.do = "clearbreakpoint" THEN {c.id} ELSE {})
      BY <2>1, <2>3 DEF BpsAfter
    <3>2. DOMAIN bps' = DOMAIN bps
      BY <1>4, <3>1
    <3> QED BY <3>1, <3>2
  <2> QED BY <2>2, <2>3
<1>6. NoneGoes'
  <2>1. Stale(cmds')
    BY <1>2 DEF Shrinks, NoneGoes, Stale
  <2>2. lastBp' >= 1 /\ \A b \in DOMAIN bps' : b > 1
    BY <1>3, <1>5 DEF NoneGoes
  <2> QED BY <1>2, <2>1, <2>2 DEF NoneGoes, Stale
<1>7. /\ lastBp' \in Nat /\ DOMAIN bps \subseteq DOMAIN bps' /\ DOMAIN bps' \subseteq 1..lastBp'
  BY <1>3, <1>5
<1>8. \A b : Rank(DOMAIN bps, b) \in Nat
  BY <1>3, RankWider
<1>9. PICK D, E, n : D = DOMAIN bps /\ E = DOMAIN bps' /\ n = lastBp'
  OBVIOUS
<1>10. PICK X, Y, X2, Y2 : /\ X = BookC(cmds, Breakpoints) /\ Y = BookM(msgs, Breakpoints)
                           /\ X2 = BookC(cmds', Breakpoints) /\ Y2 = BookM(msgs', Breakpoints)
  OBVIOUS
<1>11. /\ Shrinks(X, X2, EntryC(c, Breakpoints)) /\ Gains(Y, Y2, EntryM(m, Breakpoints))
       /\ Turns(X, Evens) /\ Turns(Y, Odds)
  BY <1>2, <1>10, BooksFollow, TurnsAre
<1>12. InRank(X2, D) /\ InPlace(EntryC(c, Breakpoints), D) /\ InRank(Y, D)
  BY <1>9, <1>10, <1>11, RankKept
<1>13. /\ \A i \in DOMAIN X2 : \A w \in X2[i].todo : w[2] \in Nat
       /\ \A i \in DOMAIN Y : \A w \in Y[i].todo : w[2] \in Nat
  BY <1>11, EvensOdds DEF Shrinks, Turns
<1>14. InRank(X2, E)
  BY <1>7, <1>9, <1>12, <1>13, PlaceWider DEF InRank
<1>15. InRank(Y, E)
  BY <1>7, <1>9, <1>12, <1>13, PlaceWider DEF InRank
<1>16. InRank(Y2, E)
  <2>1. CASE c.do = "listbreakpoints"
    <3>1. E = D /\ m.cb.step = "listed" /\ m.body \in [1..Cardinality(D) -> D]
          /\ \A i, j \in DOMAIN m.body : i < j => m.body[i] < m.body[j]
      BY <1>2, <1>9, <2>1 DEF Outcome, BpsAfter, CmdFits
    <3>2. PICK list \in [1..Cardinality(D) -> D] : list = m.body
      BY <3>1
    <3>3. \A k \in DOMAIN list : list[k] \in D /\ k \in Nat \ {0} /\ Rank(D, list[k]) = k
      <4>1. \A i, j \in DOMAIN list : i < j => list[i] < list[j]
        BY <3>1, <3>2
      <4>2. \A k \in DOMAIN list : k \in Nat \ {0} /\ Rank(D, list[k]) = k
        <5>1. IsFiniteSet(D) /\ \A b \in D : b \in Nat
          <6>1. IsFiniteSet(1..lastBp) /\ D \in SUBSET (1..lastBp)
            BY <1>3, <1>9, FS_Interval
          <6>2. IsFiniteSet(D)
            BY <6>1, FS_Subset
          <6>3. \A b \in D : b \in Nat
            BY <1>3, <6>1
          <6> QED BY <6>2, <6>3
        <5>2. list \in [1..Cardinality(D) -> D]
          BY <3>2
        <5> QED BY <4>1, <5>1, <5>2, Listing
      <4> QED BY <4>2
    <3>4. ASSUME NEW w \in TodoM(m, Breakpoints)
          PROVE  w[1] \in D /\ w[2] <= 2 * Rank(D, w[1]) + 1
      <4>1. PICK k \in DOMAIN list : w = <<list[k], 2 * k + 1>>
        BY <3>1, <3>2 DEF TodoM, Left
      <4>2. k \in Nat /\ w[1] = list[k] /\ w[2] = 2 * k + 1 /\ Rank(D, w[1]) = k /\ w[1] \in D
        BY <3>3, <4>1
      <4>3. 2 * k + 1 <= 2 * k + 1
        BY <4>2
      <4> QED BY <4>2, <4>3
    <3>5. InPlace(EntryM(m, Breakpoints), E)
      BY <3>1, <3>4 DEF InPlace, EntryM
    <3> QED BY <1>11, <1>15, <3>5, RankKept
  <2>2. CASE c.do # "listbreakpoints"
    <3>1. PICK a : /\ Gains(Y, Y2, EntryM(a, Breakpoints))
                   /\ Comes(EntryC(c, Breakpoints), EntryM(a, Breakpoints))
      BY <1>1, <1>10, <2>2, ServeBooks DEF Breakpoints, Writers
    <3>2. InPlace(EntryM(a, Breakpoints), D)
      BY <1>8, <1>9, <1>12, <3>1, PlaceKept
    <3>3. InPlace(EntryM(a, Breakpoints), E)
      <4>1. \A w \in EntryM(a, Breakpoints).todo : w[2] \in Nat
        BY <3>1 DEF Comes
      <4> QED BY <1>7, <1>9, <3>2, <4>1, PlaceWider
    <3> QED BY <1>15, <3>1, <3>3, RankKept
  <2> QED BY <2>1, <2>2
<1> QED BY <1>6, <1>7, <1>9, <1>10, <1>14, <1>16

\* When V8 lists the breakpoints for r, r is the last to write to each.
LEMMA ListedLast ==
  ASSUME TypeOK, Fits, ServeCommand,
         InRank(BookC(cmds, Breakpoints), DOMAIN bps),
         InRank(BookM(msgs, Breakpoints), DOMAIN bps),
         NEW c, c = Head(cmds), c.do = "listbreakpoints"
  PROVE  Switched(cmds', msgs', bps', requests, c.cb.req)
<1>1. PICK m : /\ Shrinks(cmds, cmds', c) /\ CmdFits(c, requests)
               /\ Grows(msgs, msgs', m) /\ Outcome(c, m)
  BY ServeAdds
<1>2. PICK D, r : D = DOMAIN bps /\ r = c.cb.req
  OBVIOUS
<1>3. lastBp \in Nat /\ D \subseteq 1..lastBp
  BY <1>2, TypeParts DEF V8Type, BpsType
<1>4. /\ IsFiniteSet(D) /\ \A b \in D : b \in Nat
      /\ \A b : Rank(D, b) \in Nat
  <2>1. IsFiniteSet(1..lastBp) /\ D \in SUBSET (1..lastBp)
    BY <1>3, FS_Interval
  <2>2. IsFiniteSet(D)
    BY <2>1, FS_Subset
  <2>3. \A b \in D : b \in Nat
    BY <1>3
  <2> QED BY <1>3, <2>2, <2>3, RankWider
<1>5. DOMAIN bps' = D
  BY <1>1, <1>2 DEF Outcome, BpsAfter
<1>6. /\ m.cb.step = "listed" /\ m.cb.req = r /\ m.body \in [1..Cardinality(D) -> D]
      /\ \A i, j \in DOMAIN m.body : i < j => m.body[i] < m.body[j]
  BY <1>1, <1>2 DEF Outcome, CmdFits
<1>7. PICK list : list = m.body /\ list \in [1..Cardinality(D) -> D]
  BY <1>6
<1>8. /\ \A b \in D : \E k \in DOMAIN list : list[k] = b
      /\ \A k \in DOMAIN list : k \in Nat \ {0} /\ Rank(D, list[k]) = k
  <2>1. \A i, j \in DOMAIN list : i < j => list[i] < list[j]
    BY <1>6, <1>7
  <2> QED BY <1>4, <1>7, <2>1, Listing
<1>9. PICK f : f = EntryM(m, Breakpoints)
  OBVIOUS
<1>10. /\ f.req = r /\ \A b \in D : \E v \in f.todo : v[1] = b /\ v[2] = 2 * Rank(D, b) + 1
  <2>1. f.req = r /\ f.todo = {<<list[k], 2 * k + 1>> : k \in DOMAIN list}
    BY <1>6, <1>7, <1>9 DEF EntryM, TodoM, StepsOf, Left, Breakpoints
  <2>2. ASSUME NEW b \in D PROVE \E v \in f.todo : v[1] = b /\ v[2] = 2 * Rank(D, b) + 1
    <3>1. PICK k \in DOMAIN list : list[k] = b
      BY <1>8
    <3>2. PICK v : v = <<b, 2 * k + 1>>
      OBVIOUS
    <3>3. v \in f.todo /\ v[1] = b /\ v[2] = 2 * k + 1 /\ Rank(D, b) = k
      BY <1>8, <2>1, <3>1, <3>2
    <3> QED BY <3>3
  <2> QED BY <2>1, <2>2
<1>11. PICK X, Y, X2, Y2 : /\ X = BookC(cmds, Breakpoints) /\ Y = BookM(msgs, Breakpoints)
                           /\ X2 = BookC(cmds', Breakpoints) /\ Y2 = BookM(msgs', Breakpoints)
  OBVIOUS
<1>12. /\ Shrinks(X, X2, EntryC(c, Breakpoints)) /\ Gains(Y, Y2, f)
       /\ Turns(X, Evens) /\ Turns(Y, Odds) /\ InRank(X, D) /\ InRank(Y, D)
  BY <1>1, <1>2, <1>9, <1>11, BooksFollow, TurnsAre
<1>13. \A n \in Nat, t \in Evens : t <= 2 * n + 1 => t < 2 * n + 1
  BY DEF Evens
<1>14. ASSUME NEW i \in DOMAIN X2, NEW w \in X2[i].todo
       PROVE  \E v \in f.todo : v[1] = w[1] /\ w[2] < v[2]
  <2>1. i + 1 \in DOMAIN X /\ X[i + 1] = X2[i]
    BY <1>12 DEF Shrinks
  <2>2. w[1] \in D /\ w[2] <= 2 * Rank(D, w[1]) + 1 /\ w[2] \in Evens
    BY <1>12, <2>1 DEF InRank, InPlace, Turns
  <2>3. PICK v \in f.todo : v[1] = w[1] /\ v[2] = 2 * Rank(D, w[1]) + 1
    BY <1>10, <2>2
  <2> QED BY <1>4, <1>13, <2>2, <2>3
<1>15. ASSUME NEW i \in DOMAIN Y, NEW w \in Y[i].todo
       PROVE  \E v \in f.todo : v[1] = w[1] /\ (w[2] < v[2] \/ w[2] = v[2])
  <2>1. PICK b, t : b = w[1] /\ t = w[2]
    OBVIOUS
  <2>2. b \in D /\ t <= 2 * Rank(D, b) + 1 /\ t \in Nat
    BY <1>12, <2>1, EvensOdds DEF InRank, InPlace, Turns
  <2>3. PICK v \in f.todo : v[1] = b /\ v[2] = 2 * Rank(D, b) + 1
    BY <1>10, <2>2
  <2>4. Rank(D, b) \in Nat
    BY <1>4
  <2>5. t < 2 * Rank(D, b) + 1 \/ t = 2 * Rank(D, b) + 1
    BY <2>2, <2>4
  <2> QED BY <2>1, <2>3, <2>5
<1>16. Followed(X2, Y2, r)
  BY <1>10, <1>12, <1>14, <1>15, AddAll
<1>17. \A b \in D : Pending(Y2, r, b)
  BY <1>10, <1>12 DEF Gains, Pending
<1> QED BY <1>2, <1>5, <1>11, <1>16, <1>17 DEF Switched, LastToWrite, WillWrite

\* V8 serves any other command, and r has its list.
LEMMA SwitchedOn ==
  ASSUME TypeOK, Fits, ServeCommand, NoneGoes, NEW r \in DOMAIN requests,
         NEW c, c = Head(cmds), c.do # "listbreakpoints", ~Early(c, r),
         Switched(cmds, msgs, bps, requests, r)
  PROVE  Switched(cmds', msgs', bps', requests, r)
<1>1. PICK m : Shrinks(cmds, cmds', c) /\ CmdFits(c, requests) /\ Outcome(c, m)
  BY ServeAdds
<1>2. /\ LastToWrite(cmds', msgs', Breakpoints, r)
      /\ \A b : WillWrite(cmds, msgs, Breakpoints, r, b) =>
           \/ WillWrite(cmds', msgs', Breakpoints, r, b)
           \/ c.cb.req = r /\ c.do = Breakpoints /\ c.id = b
  BY ServeWrites DEF Switched, Breakpoints, Writers
<1>3. ASSUME NEW b \in DOMAIN bps', bps'[b].by < r,
             ~WillWrite(cmds', msgs', Breakpoints, r, b)
      PROVE  bps'[b].enabled <=> requests[r].arg = "on"
  <2>1. BpsAfter(c, m)
    BY <1>1 DEF Outcome
  <2>2. b \in DOMAIN bps /\ bps'[b].by = bps[b].by
        /\ bps'[b].enabled = IF c.do = Breakpoints /\ b = c.id THEN c.flag ELSE bps[b].enabled
    <3>1. CASE c.do = "setbreakpoint" /\ m.ok
      <4>1. ~(c.cb.req < r)
        BY <3>1 DEF Early
      <4> QED BY <1>3, <2>1, <3>1, <4>1 DEF BpsAfter, Breakpoints
    <3>2. CASE ~(c.do = "setbreakpoint" /\ m.ok)
      BY <1>3, <2>1, <3>2 DEF BpsAfter, Breakpoints
    <3> QED BY <3>1, <3>2
  <2>3. CASE c.do = Breakpoints /\ b = c.id
    <3>1. c.cb.req = r
      BY <1>1, <1>2, <1>3, <2>3, WrittenAgain DEF Switched
    <3>2. c.flag <=> requests[r].arg = "on"
      BY <1>1, <2>3, <3>1 DEF CmdFits, Breakpoints
    <3>3. bps'[b].enabled = c.flag
      BY <2>2, <2>3
    <3> QED BY <3>2, <3>3
  <2>4. CASE ~(c.do = Breakpoints /\ b = c.id)
    <3>1. ~WillWrite(cmds, msgs, Breakpoints, r, b)
      BY <1>2, <1>3, <2>4
    <3>2. bps[b].enabled <=> requests[r].arg = "on"
      BY <1>3, <2>2, <3>1 DEF Switched
    <3>3. bps'[b].enabled = bps[b].enabled
      BY <2>2, <2>4
    <3> QED BY <3>2, <3>3
  <2> QED BY <2>3, <2>4
<1> QED BY <1>2, <1>3 DEF Switched

\* V8 lists, sets and switches breakpoints in the order of the commands.
LEMMA ServeSwitch ==
  ASSUME TypeOK, Fits, ServeCommand, SwitchInv
  PROVE  SwitchInv'
<1>1. PICK c : c = Head(cmds)
  OBVIOUS
<1>2. Shrinks(cmds, cmds', c) /\ requests' = requests
  BY <1>1, ServeAdds
<1> SUFFICES ASSUME BreakpointsStay'
             PROVE  /\ NoneGoes'
                    /\ InRank(BookC(cmds', Breakpoints), DOMAIN bps')
                    /\ InRank(BookM(msgs', Breakpoints), DOMAIN bps')
                    /\ BreakpointsAsSet(cmds', msgs', bps', requests)
  BY <1>2 DEF SwitchInv
<1>3. /\ NoneGoes
      /\ InRank(BookC(cmds, Breakpoints), DOMAIN bps)
      /\ InRank(BookM(msgs, Breakpoints), DOMAIN bps)
      /\ BreakpointsAsSet(cmds, msgs, bps, requests)
  BY <1>2 DEF SwitchInv, BreakpointsStay
<1>4. ASSUME NEW r \in DOMAIN requests, Latest(requests, r, "setBreakpointsActive")
      PROVE  /\ \A i \in DOMAIN cmds' : Early(cmds'[i], r) => Lists(cmds', r, i)
             /\ Lists(cmds', r, 0) \/ Switched(cmds', msgs', bps', requests, r)
  <2>1. /\ \A i \in DOMAIN cmds : Early(cmds[i], r) => Lists(cmds, r, i)
        /\ Lists(cmds, r, 0) \/ Switched(cmds, msgs, bps, requests, r)
    BY <1>3, <1>4 DEF BreakpointsAsSet
  <2>2. ASSUME NEW i \in Nat, Lists(cmds, r, i + 1)
        PROVE  Lists(cmds', r, i)
    <3>1. PICK j \in DOMAIN cmds : /\ cmds[j].do = "listbreakpoints" /\ cmds[j].cb.req = r
                                   /\ i + 1 < j
      BY <2>2 DEF Lists
    <3>2. j # 1 => j \in Nat /\ j - 1 \in DOMAIN cmds' /\ cmds'[j - 1] = cmds[j]
      BY <1>2 DEF Shrinks
    <3>3. j # 1
      BY <3>1
    <3>4. j - 1 \in DOMAIN cmds' /\ i < j - 1 /\ cmds'[j - 1] = cmds[j]
      BY <3>1, <3>2, <3>3
    <3> QED BY <3>1, <3>4 DEF Lists
  <2>3. ASSUME NEW i \in DOMAIN cmds', Early(cmds'[i], r)
        PROVE  Lists(cmds', r, i)
    <3>1. i \in Nat /\ i + 1 \in DOMAIN cmds /\ cmds[i + 1] = cmds'[i]
      BY <1>2 DEF Shrinks
    <3> QED BY <2>1, <2>2, <2>3, <3>1
  <2>4. CASE Early(c, r)
    <3>1. Lists(cmds, r, 0 + 1)
      BY <1>2, <2>1, <2>4 DEF Shrinks
    <3> QED BY <2>2, <2>3, <3>1
  <2>5. CASE c.do = "listbreakpoints" /\ ~Early(c, r)
    <3>1. c.cb.req = r
      BY <2>5 DEF Early
    <3> QED BY <1>1, <1>3, <2>3, <2>5, <3>1, ListedLast
  <2>6. CASE c.do # "listbreakpoints" /\ ~Early(c, r)
    <3>1. Lists(cmds, r, 0) => Lists(cmds', r, 0)
      <4>1. ASSUME NEW j \in DOMAIN cmds, cmds[j].do = "listbreakpoints", cmds[j].cb.req = r
            PROVE  Lists(cmds', r, 0)
        <5>1. j # 1
          BY <1>2, <2>6, <4>1 DEF Shrinks
        <5>2. j - 1 \in DOMAIN cmds' /\ 0 < j - 1 /\ cmds'[j - 1] = cmds[j]
          <6>1. j \in Nat /\ j > 1 /\ j - 1 \in DOMAIN cmds'
            BY <1>2, <5>1 DEF Shrinks
          <6>2. cmds'[j - 1] = cmds[(j - 1) + 1] /\ (j - 1) + 1 = j
            BY <1>2, <6>1 DEF Shrinks
          <6> QED BY <6>1, <6>2
        <5> QED BY <4>1, <5>2 DEF Lists
      <4> QED BY <4>1 DEF Lists
    <3>2. Switched(cmds, msgs, bps, requests, r) => Switched(cmds', msgs', bps', requests, r)
      BY <1>1, <1>3, <2>6, SwitchedOn
    <3> QED BY <2>1, <2>3, <3>1, <3>2
  <2> QED BY <2>4, <2>5, <2>6
<1>5. BreakpointsAsSet(cmds', msgs', bps', requests)
  BY <1>4 DEF BreakpointsAsSet
<1> QED BY <1>3, <1>5, ServeRanks

\* Every step keeps the latest switch.
LEMMA NextSwitch ==
  ASSUME TypeOK, Fits, Underway, [Next]_vars, SwitchInv
  PROVE  SwitchInv'
<1>1. ASSUME UNCHANGED <<slot, lastBp, bps, cmds, msgs, requests>> PROVE SwitchInv'
  BY <1>1 DEF SwitchInv, BreakpointsStay, NoneGoes
<1>2. CASE Read
  BY <1>1, <1>2, ReadTakes
<1>3. CASE EnterDebugger \/ LeaveDebugger \/ UNCHANGED vars
  <2>1. UNCHANGED <<slot, lastBp, bps, cmds, msgs, requests>>
    BY <1>3 DEF EnterDebugger, LeaveDebugger, vars, v8Vars
  <2> QED BY <1>1, <2>1
<1>4. CASE Stop
  <2>1. UNCHANGED <<slot, lastBp, bps, cmds, requests>>
    BY <1>4, StopAdds
  <2>2. PICK m : Grows(msgs, msgs', m) /\ TodoM(m, Breakpoints) = {}
    BY <1>4, StopWrites DEF Breakpoints, Writers
  <2>3. \A r : Switched(cmds, msgs, bps, requests, r) => Switched(cmds, msgs', bps, requests, r)
    BY <2>2, NothingWritten DEF Switched
  <2>4. BreakpointsAsSet(cmds, msgs, bps, requests) => BreakpointsAsSet(cmds, msgs', bps, requests)
    BY <2>3 DEF BreakpointsAsSet
  <2>5. InRank(BookM(msgs, Breakpoints), DOMAIN bps) =>
          InRank(BookM(msgs', Breakpoints), DOMAIN bps)
    <3>1. /\ Gains(BookM(msgs, Breakpoints), BookM(msgs', Breakpoints), EntryM(m, Breakpoints))
          /\ EntryM(m, Breakpoints).todo = {}
      BY <2>2, BooksFollow DEF EntryM
    <3> QED BY <3>1, RankKept
  <2> QED BY <2>1, <2>4, <2>5 DEF SwitchInv, BreakpointsStay, NoneGoes
<1> QED BY <1>2, <1>3, <1>4, MethodSwitch, CallbackSwitch, ServeSwitch DEF Next, V8

\* At the beginning nothing is set and nothing on its way.
LEMMA InitSettings ==
  ASSUME Init
  PROVE  ExceptionsAsSet(cmds, msgs, exceptionBreak, requests) /\ SwitchInv
<1>1. cmds = <<>> /\ msgs = <<>> /\ requests = <<>> /\ bps = <<>> /\ slot \in {0, 1} /\ lastBp = 1
  BY DEF Init
<1>2. DOMAIN requests = {} /\ DOMAIN bps = {} /\ DOMAIN cmds = {} /\ DOMAIN msgs = {}
  BY <1>1
<1>3. NoneGoes
  BY <1>1, <1>2 DEF NoneGoes, Stale
<1>4. /\ InRank(BookC(cmds, Breakpoints), DOMAIN bps)
      /\ InRank(BookM(msgs, Breakpoints), DOMAIN bps)
  BY <1>2 DEF InRank, BookC, BookM
<1> QED BY <1>2, <1>3, <1>4 DEF SwitchInv, BreakpointsAsSet, ExceptionsAsSet

\* Settings that overlap do not mix: the last one holds for every exception
\* type, and, unless breakpoints go away, for every breakpoint older than it.
THEOREM LaterSettingWinsAlways == Spec => []LaterSettingWins
<1> DEFINE Inv == /\ RunInv /\ ExceptionsAsSet(cmds, msgs, exceptionBreak, requests)
                  /\ SwitchInv
<1>1. Init => Inv
  BY InitRunInv, InitSettings
<1>2. Inv /\ [Next]_vars => Inv'
  BY NextRunInv, NextExceptions, NextSwitch DEF RunInv
<1>3. Inv => LaterSettingWins
  <2> SUFFICES ASSUME Inv, Settled, NEW r \in DOMAIN requests, requests[r].answer = "ok",
                      LastOfItsKind(r)
               PROVE  /\ requests[r].kind = "setPauseOnExceptions" =>
                           \A t \in {All, Uncaught} :
                             exceptionBreak[t] = Enables(requests[r].arg, t)
                      /\ requests[r].kind = "setBreakpointsActive" /\ BreakpointsStay =>
                           \A b \in DOMAIN bps :
                             bps[b].by < r => (bps[b].enabled <=> requests[r].arg = "on")
    BY DEF LaterSettingWins
  <2>1. DOMAIN cmds = {} /\ DOMAIN msgs = {}
    BY DEF Settled
  <2>2. \A do, b : ~WillWrite(cmds, msgs, do, r, b)
    BY <2>1 DEF WillWrite, Pending, BookC, BookM
  <2>3. ~Lists(cmds, r, 0)
    BY <2>1 DEF Lists
  <2>4. Latest(requests, r, requests[r].kind)
    BY DEF Latest, LastOfItsKind
  <2>5. CASE requests[r].kind = "setPauseOnExceptions"
    BY <2>2, <2>4, <2>5 DEF ExceptionsAsSet
  <2>6. CASE requests[r].kind = "setBreakpointsActive" /\ BreakpointsStay
    <3>1. Switched(cmds, msgs, bps, requests, r)
      BY <2>3, <2>4, <2>6 DEF SwitchInv, BreakpointsAsSet
    <3> QED BY <2>2, <2>6, <3>1 DEF Switched
  <2> QED BY <2>5, <2>6
<1> QED BY <1>1, <1>2, <1>3, PTL DEF Spec

==============================================================================
