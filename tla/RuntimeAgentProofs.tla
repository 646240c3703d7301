------------------------- MODULE RuntimeAgentProofs --------------------------
(*****************************************************************************)
(* The safety of RuntimeAgent, for any objects, any number of requests and   *)
(* any number of stops: types, that an answer is about the object that the   *)
(* front-end was shown, and that each property is listed once.               *)
(*                                                                           *)
(* The second needs to know where everything is that is on its way between   *)
(* the front-end, the agent and V8: see IInv.                                *)
(*****************************************************************************)
EXTENDS RuntimeAgent, SequenceTheorems, TLAPS

------------------------------------------------------------------------------
(* Sequences.                                                                *)

\* A sequence with one more element at its end.
LEMMA Appended ==
  ASSUME NEW S, NEW s \in Seq(S), NEW x \in S
  PROVE  /\ Append(s, x) \in Seq(S)
         /\ Append(s, x) # <<>>
         /\ Len(s) \in Nat /\ Len(Append(s, x)) = Len(s) + 1
         /\ DOMAIN Append(s, x) = DOMAIN s \cup {Len(s) + 1}
         /\ Len(s) + 1 \notin DOMAIN s
         /\ \A k \in DOMAIN s : Append(s, x)[k] = s[k] /\ k \in Nat /\ k <= Len(s)
         /\ Append(s, x)[Len(s) + 1] = x
  OBVIOUS

\* A sequence without its first element.
LEMMA Popped ==
  ASSUME NEW S, NEW s \in Seq(S), s # <<>>
  PROVE  /\ Tail(s) \in Seq(S)
         /\ 1 \in DOMAIN s /\ s[1] = Head(s) /\ Head(s) \in S
         /\ \A k \in DOMAIN Tail(s) :
              k \in Nat \ {0} /\ k + 1 \in DOMAIN s /\ k + 1 # 1 /\ Tail(s)[k] = s[k + 1]
         /\ \A k \in DOMAIN s : k # 1 => k \in Nat /\ k > 1 /\ k - 1 \in DOMAIN Tail(s)
  OBVIOUS

\* Two elements one behind the other.
LEMMA JoinedPair ==
  ASSUME NEW x, NEW y
  PROVE  <<x>> \o <<y>> = <<x, y>>
<1> DEFINE S == {x, y}
           s == <<x>>
           t == <<y>>
           u == <<x, y>>
<1>1. s \in Seq(S) /\ t \in Seq(S) /\ u \in Seq(S)
      /\ Len(s) = 1 /\ Len(t) = 1 /\ Len(u) = 2
      /\ s[1] = x /\ t[1] = y /\ u[1] = x /\ u[2] = y
  OBVIOUS
<1> HIDE DEF s, t, u, S
<1>2. /\ s \o t \in Seq(S)
      /\ Len(s \o t) = 2
      /\ \A i \in 1 .. 2 : (s \o t)[i] = IF i <= 1 THEN s[i] ELSE t[i - 1]
  BY <1>1, ConcatProperties
<1>3. \A i \in 1 .. 2 : i = 1 \/ i = 2
  OBVIOUS
<1>4. \A i \in 1 .. 2 : (s \o t)[i] = u[i]
  BY <1>1, <1>2, <1>3
<1>5. s \o t = u
  BY <1>1, <1>2, <1>4, SeqEqual
<1> QED BY <1>5 DEF s, t, u

\* A set that holds more.
LEMMA SeqWider ==
  ASSUME NEW S, NEW T, S \subseteq T, NEW s \in Seq(S)
  PROVE  s \in Seq(T)
  OBVIOUS

\* The handle of an object: a new number never renames another object.
LEMMA HandleIs ==
  ASSUME NEW o \in Objects, NEW s \in Seq(Objects)
  PROVE  /\ Numbered(o, s) \in Seq(Objects)
         /\ HandleOf(o, s) \in Nat
         /\ HandleOf(o, s) \in DOMAIN Numbered(o, s)
         /\ Numbered(o, s)[HandleOf(o, s)] = o
         /\ \A k \in DOMAIN s : k \in DOMAIN Numbered(o, s) /\ Numbered(o, s)[k] = s[k]
<1>1. DOMAIN s \subseteq Nat
  OBVIOUS
<1>2. CASE o \in ToSet(s)
  <2>1. \E i \in DOMAIN s : s[i] = o
    BY <1>2 DEF ToSet
  <2>2. HandleOf(o, s) \in DOMAIN s /\ s[HandleOf(o, s)] = o
    BY <1>2, <2>1 DEF HandleOf
  <2> QED BY <1>1, <1>2, <2>2 DEF Numbered
<1>3. CASE o \notin ToSet(s)
  <2>1. HandleOf(o, s) = Len(s) + 1 /\ Numbered(o, s) = Append(s, o)
    BY <1>3 DEF HandleOf, Numbered
  <2> QED BY <2>1, Appended
<1> QED BY <1>2, <1>3

------------------------------------------------------------------------------
(* Types.                                                                    *)

Anything == Objects \cup {NoObject}
CmdType(n) == [do : {"evaluate", "scope", "lookup", "use", "backtrace", "continue"},
               id : Nat, step : Steps, req : 0..n]
MsgType(n) == [step : Steps, req : 0..n, ok : BOOLEAN, id : Nat, object : Anything,
               value : Anything]
OutType(n) == [what : {"answer", "paused"}, req : 0..n, id : Nat, object : Anything]
RequestType ==
  [kind : {"evaluate", "object", "scope", "use"}, means : Anything,
   options : {ForOwn, ForAccessors, ForScope}, hurried : BOOLEAN,
   answer : {"none", "ok", "thrown", "error"}, object : Anything,
   names : Seq({"p", "__proto__"})]

RestType ==
  /\ paused \in BOOLEAN
  /\ shown \subseteq (Nat \X Objects)
  /\ v8 \in {"program", "serving", "waiting"}
  /\ handles \in Seq(Objects)
  /\ scope \in Anything
  /\ looks \in Looks
  /\ stops \in Nat

CmdsType == cmds \in Seq(CmdType(Len(requests)))
MsgsType == msgs \in Seq(MsgType(Len(requests)))
OutsType == out \in Seq(OutType(Len(requests)))
RequestsType == requests \in Seq(RequestType)

\* TypeOK is the conjunction of these.
LEMMA TypeParts ==
  TypeOK <=> RestType /\ CmdsType /\ MsgsType /\ OutsType /\ RequestsType
BY DEF TypeOK, RestType, CmdsType, MsgsType, OutsType, RequestsType, CmdType, MsgType, OutType,
   RequestType, Anything

\* ... after a step, too.
LEMMA TypePartsNext ==
  RestType' /\ CmdsType' /\ MsgsType' /\ OutsType' /\ RequestsType' => TypeOK'
BY DEF TypeOK, RestType, CmdsType, MsgsType, OutsType, RequestsType, CmdType, MsgType, OutType,
   RequestType, Anything

\* What is on its way names requests there are, also when there are more.
LEMMA MoreRequests ==
  ASSUME NEW m \in Nat, NEW n \in Nat, m <= n
  PROVE  /\ \A s \in Seq(CmdType(m)) : s \in Seq(CmdType(n))
         /\ \A s \in Seq(MsgType(m)) : s \in Seq(MsgType(n))
         /\ \A s \in Seq(OutType(m)) : s \in Seq(OutType(n))
<1>1. CmdType(m) \subseteq CmdType(n)
  BY DEF CmdType
<1>2. MsgType(m) \subseteq MsgType(n)
  BY DEF MsgType
<1>3. OutType(m) \subseteq OutType(n)
  BY DEF OutType
<1> QED BY <1>1, <1>2, <1>3, SeqWider

\* Lists of properties.
LEMMA NamesType ==
  /\ <<>> \in Seq({"p", "__proto__"})
  /\ \A l \in Looks : \A options : PropertiesOf(l, options) \in Seq({"p", "__proto__"})
<1> DEFINE N == {"p", "__proto__"}
<1>1. <<>> \in Seq(N) /\ <<"p">> \in Seq(N) /\ <<"p", "__proto__">> \in Seq(N)
      /\ <<"__proto__">> \in Seq(N)
  OBVIOUS
<1>2. \A s, t \in Seq(N) : s \o t \in Seq(N)
  OBVIOUS
<1> HIDE DEF N
<1>3. \A l \in Looks : l.own \in Seq(N)
  BY <1>1 DEF Looks
<1> QED BY <1>1, <1>2, <1>3 DEF PropertiesOf, N

\* The initial state has its types.
LEMMA InitType == Init => TypeOK
<1> SUFFICES ASSUME Init PROVE TypeOK
  OBVIOUS
<1>1. \A S : <<>> \in Seq(S)
  OBVIOUS
<1> QED BY <1>1, TypeParts DEF Init, RestType, CmdsType, MsgsType, OutsType, RequestsType,
        Anything

\* A method appends its request; of what is on its way, it may append a
\* command.
LEMMA ReceiveType ==
  ASSUME TypeOK, NEW kind \in {"evaluate", "object", "scope", "use"},
         NEW means \in Anything, NEW options \in {ForOwn, ForAccessors, ForScope},
         NEW do \in {"evaluate", "scope", "lookup", "use", "backtrace", "continue"},
         NEW id \in Nat, NEW step \in Steps,
         Receive(kind, means, options), Send(do, id, step, NewReq)
  PROVE  TypeOK'
<1> DEFINE q == [kind |-> kind, means |-> means, options |-> options, hurried |-> FALSE,
                 answer |-> "none", object |-> NoObject, names |-> <<>>]
           c == [do |-> do, id |-> id, step |-> step, req |-> NewReq]
<1>1. requests' = Append(requests, q) /\ cmds' = Append(cmds, c)
      /\ UNCHANGED <<paused, shown, out, msgs, v8, handles, scope, looks, stops>>
  BY DEF Receive, Send, clientVars, v8Vars
<1>2. q \in RequestType
  BY NamesType DEF RequestType, Anything
<1>3. requests' \in Seq(RequestType) /\ Len(requests') = Len(requests) + 1
      /\ Len(requests) \in Nat
  BY <1>1, <1>2, TypeParts DEF RequestsType
<1>4. c \in CmdType(Len(requests'))
  BY <1>3 DEF CmdType, NewReq
<1> HIDE DEF q, c
<1>5. /\ cmds \in Seq(CmdType(Len(requests'))) /\ msgs \in Seq(MsgType(Len(requests')))
      /\ out \in Seq(OutType(Len(requests')))
  BY <1>3, TypeParts, MoreRequests DEF CmdsType, MsgsType, OutsType
<1>6. cmds' \in Seq(CmdType(Len(requests')))
  BY <1>1, <1>4, <1>5
<1>7. RestType'
  BY <1>1, TypeParts DEF RestType
<1> QED BY <1>1, <1>3, <1>5, <1>6, <1>7, TypePartsNext
        DEF CmdsType, MsgsType, OutsType, RequestsType

\* The methods.
LEMMA MethodType == TypeOK /\ Method => TypeOK'
<1> SUFFICES ASSUME TypeOK, Method PROVE TypeOK'
  OBVIOUS
<1>1. /\ RestType /\ CmdsType /\ MsgsType /\ OutsType /\ RequestsType
      /\ Len(requests) \in Nat
  BY TypeParts DEF RequestsType
<1>2. \A x \in shown : x[1] \in Nat /\ x[2] \in Anything
  BY <1>1 DEF RestType, Anything
<1>3. NoObject \in Anything /\ scope \in Anything
  BY <1>1 DEF RestType, Anything
<1>4. CASE Evaluate
  BY <1>3, <1>4, ReceiveType DEF Evaluate, Steps
<1>5. CASE GetPropertiesOfObjectId
  <2>1. PICK x \in shown, options \in {ForOwn, ForAccessors} :
          Receive("object", x[2], options) /\ Send("lookup", x[1], "looked", NewReq)
    BY <1>5 DEF GetPropertiesOfObjectId
  <2> QED BY <1>2, <2>1, ReceiveType DEF Steps
<1>6. CASE GetPropertiesOfScopeId
  BY <1>3, <1>6, ReceiveType DEF GetPropertiesOfScopeId, Steps
<1>7. CASE CallFunctionOn
  <2>1. PICK x \in shown : Receive("use", x[2], ForOwn) /\ Send("use", x[1], "called", NewReq)
    BY <1>7 DEF CallFunctionOn
  <2> QED BY <1>2, <2>1, ReceiveType DEF Steps
<1>8. CASE SetVariableValue
  <2>1. PICK x \in shown : Receive("use", x[2], ForOwn) /\ Send("use", x[1], "set", NewReq)
    BY <1>8 DEF SetVariableValue
  <2> QED BY <1>2, <2>1, ReceiveType DEF Steps
<1>9. CASE CallFunctionOnRefused
  <2>1. PICK x \in shown :
          requests' = Append(requests, [kind |-> "use", means |-> x[2], options |-> ForOwn,
                                        hurried |-> FALSE, answer |-> "error",
                                        object |-> NoObject, names |-> <<>>])
    BY <1>9 DEF CallFunctionOnRefused
  <2> DEFINE q == [kind |-> "use", means |-> x[2], options |-> ForOwn, hurried |-> FALSE,
                   answer |-> "error", object |-> NoObject, names |-> <<>>]
             o == [what |-> "answer", req |-> NewReq, id |-> 0, object |-> NoObject]
  <2>2. q \in RequestType
    BY <1>2, NamesType DEF RequestType, Anything
  <2>3. requests' \in Seq(RequestType) /\ Len(requests') = Len(requests) + 1
    BY <1>1, <2>1, <2>2 DEF RequestsType
  <2>4. o \in OutType(Len(requests'))
    BY <1>1, <2>3 DEF OutType, NewReq, Anything
  <2>5. /\ cmds \in Seq(CmdType(Len(requests'))) /\ msgs \in Seq(MsgType(Len(requests')))
        /\ out \in Seq(OutType(Len(requests')))
    BY <1>1, <2>3, MoreRequests DEF CmdsType, MsgsType, OutsType
  <2>6. out' = Append(out, o)
        /\ UNCHANGED <<paused, shown, cmds, msgs, v8, handles, scope, looks, stops>>
    BY <1>9 DEF CallFunctionOnRefused, clientVars, v8Vars
  <2> HIDE DEF q, o
  <2>7. out' \in Seq(OutType(Len(requests')))
    BY <2>4, <2>5, <2>6
  <2>8. RestType'
    BY <1>1, <2>6 DEF RestType
  <2> QED BY <2>3, <2>5, <2>6, <2>7, <2>8, TypePartsNext
          DEF CmdsType, MsgsType, OutsType, RequestsType
<1>10. CASE Resume
  <2> DEFINE c == [do |-> "continue", id |-> 0, step |-> "continued", req |-> 0]
  <2>1. /\ requests' = [r \in DOMAIN requests |->
                          IF requests[r].answer = "none"
                          THEN [requests[r] EXCEPT !.hurried = TRUE] ELSE requests[r]]
        /\ cmds' = Append(cmds, c) /\ paused' = FALSE /\ shown' = {}
        /\ UNCHANGED <<out, msgs, v8, handles, scope, looks, stops>>
    BY <1>10 DEF Resume, v8Vars
  <2>2. \A q \in RequestType : [q EXCEPT !.hurried = TRUE] \in RequestType
    BY DEF RequestType
  <2>3. requests' \in Seq(RequestType) /\ Len(requests') = Len(requests)
    <3>1. DOMAIN requests = 1..Len(requests) /\ \A r \in DOMAIN requests : requests[r] \in RequestType
      BY <1>1 DEF RequestsType
    <3>2. requests' \in [1..Len(requests) -> RequestType]
      BY <2>1, <2>2, <3>1
    <3> QED BY <1>1, <3>2
  <2>4. c \in CmdType(Len(requests'))
    BY <1>1, <2>3 DEF CmdType, Steps
  <2> HIDE DEF c
  <2>5. cmds' \in Seq(CmdType(Len(requests')))
    BY <1>1, <2>1, <2>3, <2>4 DEF CmdsType
  <2>6. RestType'
    BY <1>1, <2>1 DEF RestType
  <2> QED BY <1>1, <2>1, <2>3, <2>5, <2>6, TypePartsNext
          DEF MsgsType, OutsType, RequestsType, CmdsType
<1> QED BY <1>4, <1>5, <1>6, <1>7, <1>8, <1>9, <1>10 DEF Method

\* An answer changes one request, and appends to what the front-end reads.
LEMMA AnswerType ==
  ASSUME TypeOK, NEW r \in 0..Len(requests), NEW result \in {"ok", "thrown", "error"},
         NEW object \in Anything, NEW names \in Seq({"p", "__proto__"}), NEW id \in Nat,
         NEW known \in Anything, Answer(r, result, object, names, id, known)
  PROVE  RequestsType' /\ OutsType' /\ Len(requests') = Len(requests)
<1> DEFINE o == [what |-> "answer", req |-> r, id |-> id, object |-> known]
<1>1. requests \in Seq(RequestType) /\ out \in Seq(OutType(Len(requests)))
      /\ Len(requests) \in Nat
  BY TypeParts DEF RequestsType, OutsType
<1>2. requests' \in Seq(RequestType) /\ Len(requests') = Len(requests)
  <2>1. requests' = [requests EXCEPT ![r].answer = result, ![r].object = object,
                                     ![r].names = names]
    BY DEF Answer
  <2>2. CASE r \in DOMAIN requests
    <3> DEFINE q == [requests[r] EXCEPT !.answer = result, !.object = object, !.names = names]
    <3>1. q \in RequestType
      <4>1. requests[r] \in RequestType
        BY <1>1, <2>2
      <4> QED BY <4>1 DEF RequestType
    <3>2. requests' = [requests EXCEPT ![r] = q]
      BY <1>1, <2>1, <2>2
    <3> HIDE DEF q
    <3> QED BY <1>1, <2>2, <3>1, <3>2
  <2>3. CASE r \notin DOMAIN requests
    <3>1. requests' = requests
      BY <1>1, <2>1, <2>3
    <3> QED BY <1>1, <3>1
  <2> QED BY <2>2, <2>3
<1>3. out' = Append(out, o)
  BY DEF Answer
<1>4. o \in OutType(Len(requests'))
  BY <1>2 DEF OutType
<1> HIDE DEF o
<1> QED BY <1>1, <1>2, <1>3, <1>4 DEF RequestsType, OutsType

\* The callbacks.
LEMMA CallbackType == TypeOK /\ OnDebuggerMessage => TypeOK'
<1> SUFFICES ASSUME TypeOK, OnDebuggerMessage PROVE TypeOK'
  OBVIOUS
<1> DEFINE m == Head(msgs)
<1>1. /\ RestType /\ CmdsType /\ MsgsType /\ OutsType /\ RequestsType
      /\ Len(requests) \in Nat
  BY TypeParts DEF RequestsType
<1>2. msgs # <<>> /\ msgs' = Tail(msgs)
      /\ UNCHANGED <<paused, shown, v8, handles, scope, looks, stops>>
  BY DEF OnDebuggerMessage, clientVars, v8Vars
<1>3. m \in MsgType(Len(requests)) /\ msgs' \in Seq(MsgType(Len(requests)))
  BY <1>1, <1>2, Popped DEF MsgsType
<1>4. \/ OnEvaluated(m) \/ OnScoped(m) \/ OnLooked(m) \/ OnUsed(m) \/ OnRefused(m)
      \/ OnStopped(m) \/ OnPaused(m) \/ OnContinued(m)
  BY DEF OnDebuggerMessage
<1> HIDE DEF m
<1>5. /\ m.step \in Steps /\ m.req \in 0..Len(requests) /\ m.id \in Nat
      /\ m.object \in Anything /\ m.value \in Anything /\ NoObject \in Anything
  BY <1>3 DEF MsgType, Anything
<1>6. RestType'
  BY <1>1, <1>2 DEF RestType
<1>7. ASSUME Len(requests') = Len(requests) PROVE MsgsType'
  BY <1>3, <1>7 DEF MsgsType
<1>8. CASE OnEvaluated(m) \/ OnLooked(m) \/ OnUsed(m) \/ OnRefused(m)
  <2>1. RequestsType' /\ OutsType' /\ Len(requests') = Len(requests)
    <3>1. CASE OnEvaluated(m)
      BY <1>5, <3>1, AnswerType, NamesType DEF OnEvaluated
    <3>2. CASE OnLooked(m)
      <4>1. PropertiesOf(looks, requests[m.req].options) \in Seq({"p", "__proto__"})
        BY <1>1, NamesType DEF RestType
      <4> QED BY <1>5, <3>2, <4>1, AnswerType DEF OnLooked
    <3>3. CASE OnUsed(m)
      BY <1>5, <3>3, AnswerType, NamesType DEF OnUsed
    <3>4. CASE OnRefused(m)
      BY <1>5, <3>4, AnswerType, NamesType DEF OnRefused
    <3> QED BY <1>8, <3>1, <3>2, <3>3, <3>4
  <2>2. cmds' = cmds
    BY <1>8 DEF OnEvaluated, OnLooked, OnUsed, OnRefused
  <2>3. CmdsType'
    BY <1>1, <2>1, <2>2 DEF CmdsType
  <2> QED BY <1>6, <1>7, <2>1, <2>3, TypePartsNext
<1>9. CASE OnScoped(m) \/ OnStopped(m)
  <2>1. PICK c \in CmdType(Len(requests)) : cmds' = Append(cmds, c)
    BY <1>1, <1>5, <1>9 DEF OnScoped, OnStopped, Send, CmdType, Steps
  <2>2. requests' = requests /\ out' = out
    BY <1>9 DEF OnScoped, OnStopped
  <2>3. CmdsType'
    BY <1>1, <2>1, <2>2 DEF CmdsType
  <2> QED BY <1>1, <1>6, <1>7, <2>2, <2>3, TypePartsNext DEF OutsType, RequestsType
<1>10. CASE OnPaused(m) \/ OnContinued(m)
  <2>1. requests' = requests /\ cmds' = cmds
    BY <1>10 DEF OnPaused, OnContinued
  <2>2. OutsType'
    <3>1. CASE OnPaused(m)
      <4>1. PICK o \in OutType(Len(requests)) : out' = Append(out, o)
        BY <1>1, <1>5, <3>1 DEF OnPaused, OutType
      <4> QED BY <1>1, <2>1, <4>1 DEF OutsType
    <3>2. CASE OnContinued(m)
      BY <1>1, <2>1, <3>2 DEF OnContinued, OutsType
    <3> QED BY <1>10, <3>1, <3>2
  <2> QED BY <1>1, <1>6, <1>7, <2>1, <2>2, TypePartsNext DEF CmdsType, RequestsType
<1> QED BY <1>4, <1>8, <1>9, <1>10

\* The front-end reads.
LEMMA ReadType == TypeOK /\ Read => TypeOK'
<1> SUFFICES ASSUME TypeOK, Read PROVE TypeOK'
  OBVIOUS
<1> DEFINE o == Head(out)
<1>1. RestType /\ CmdsType /\ MsgsType /\ OutsType /\ RequestsType
  BY TypeParts
<1>2. out # <<>> /\ out' = Tail(out) /\ UNCHANGED <<cmds, msgs, v8, handles, scope, looks, stops, requests>>
  BY DEF Read, v8Vars
<1>3. o \in OutType(Len(requests)) /\ OutsType'
  BY <1>1, <1>2, Popped DEF OutsType
<1>4. /\ paused' \in BOOLEAN
      /\ \A x \in shown' : x \in shown \/ (o.object # NoObject /\ x = <<o.id, o.object>>)
  BY <1>1 DEF Read, RestType
<1> HIDE DEF o
<1>5. o.object # NoObject => <<o.id, o.object>> \in Nat \X Objects
  BY <1>3 DEF OutType, Anything
<1>6. shown' \subseteq Nat \X Objects
  BY <1>1, <1>4, <1>5 DEF RestType
<1>7. RestType'
  BY <1>1, <1>2, <1>4, <1>6 DEF RestType
<1> QED BY <1>1, <1>2, <1>3, <1>7, TypePartsNext DEF CmdsType, MsgsType, RequestsType

------------------------------------------------------------------------------
(* V8 serves a command.                                                      *)

\* m is V8's response to c: numbers stay with their objects, and new numbers
\* are those of the objects that m shows.
Outcome(c, m) ==
  /\ m.step = c.step /\ m.req = c.req
  /\ handles' \in Seq(Objects)
  /\ \A k \in DOMAIN handles : k \in DOMAIN handles' /\ handles'[k] = handles[k]
  /\ IF c.do = "continue" THEN v8' = "serving" /\ scope' = NoObject /\ m.object = NoObject
                          ELSE v8' = v8 /\ scope' = scope
  /\ c.do = "scope" =>
       IF scope = NoObject
       THEN ~m.ok
       ELSE m.ok /\ m.object = scope /\ m.id \in DOMAIN handles' /\ handles'[m.id] = m.object
  /\ c.do = "lookup" =>
       IF c.id \in DOMAIN handles
       THEN m.ok /\ m.object = handles[c.id] /\ m.id \in DOMAIN handles' /\ handles'[m.id] = m.value
       ELSE ~m.ok /\ m.value = NoObject
  /\ c.do = "use" /\ m.ok => c.id \in DOMAIN handles /\ m.object = handles[c.id]
  /\ c.do \in {"evaluate", "backtrace"} /\ m.object # NoObject =>
       m.id \in DOMAIN handles' /\ handles'[m.id] = m.object

\* The first command is answered by a message at the end.
LEMMA Served ==
  ASSUME TypeOK, ServeCommand
  PROVE  /\ cmds # <<>> /\ cmds' = Tail(cmds) /\ v8 # "program"
         /\ UNCHANGED <<paused, shown, out, looks, stops, requests>>
         /\ \E m \in MsgType(Len(requests)) :
              msgs' = Append(msgs, m) /\ Outcome(Head(cmds), m)
<1> DEFINE c == Head(cmds)
           No == [step |-> c.step, req |-> c.req, ok |-> FALSE, id |-> 0,
                  object |-> NoObject, value |-> NoObject]
           Yes(id, object, value) == [step |-> c.step, req |-> c.req, ok |-> TRUE, id |-> id,
                                      object |-> object, value |-> value]
<1>1. /\ RestType /\ CmdsType /\ Len(requests) \in Nat
  BY TypeParts DEF RequestsType
<1>2. cmds # <<>> /\ cmds' = Tail(cmds) /\ v8 # "program"
      /\ UNCHANGED <<paused, shown, out, looks, stops, requests>>
  BY DEF ServeCommand, clientVars
<1>3. c \in CmdType(Len(requests))
  BY <1>1, <1>2, Popped DEF CmdsType
<1>4. \/ ServeEvaluate(c) \/ ServeScope(c) \/ ServeLookup(c) \/ ServeUse(c)
      \/ ServeBacktrace(c) \/ ServeContinue(c)
  BY DEF ServeCommand
<1> SUFFICES \E m \in MsgType(Len(requests)) : msgs' = Append(msgs, m) /\ Outcome(c, m)
  BY <1>2
<1> HIDE DEF c
<1>5. c.step \in Steps /\ c.req \in 0..Len(requests) /\ c.id \in Nat
  BY <1>3 DEF CmdType
<1>6. /\ \A id \in Nat, object \in Anything, value \in Anything :
           /\ Yes(id, object, value) \in MsgType(Len(requests))
           /\ Yes(id, object, value).ok = TRUE
           /\ Yes(id, object, value).step = c.step
           /\ Yes(id, object, value).req = c.req
           /\ Yes(id, object, value).id = id
           /\ Yes(id, object, value).object = object
           /\ Yes(id, object, value).value = value
      /\ No \in MsgType(Len(requests)) /\ No.step = c.step /\ No.req = c.req /\ No.ok = FALSE
      /\ No.object = NoObject /\ No.value = NoObject
  BY <1>5 DEF MsgType, Anything
<1>7. handles \in Seq(Objects) /\ scope \in Anything /\ NoObject \in Anything
      /\ Objects \subseteq Anything /\ NoObject \notin Objects
  BY <1>1, ObjectsAssumption DEF RestType, Anything
<1>8. \A k \in DOMAIN handles : handles[k] \in Objects
  BY <1>7
<1>9. \A o \in Objects :
        /\ Numbered(o, handles) \in Seq(Objects) /\ HandleOf(o, handles) \in Nat
        /\ HandleOf(o, handles) \in DOMAIN Numbered(o, handles)
        /\ Numbered(o, handles)[HandleOf(o, handles)] = o
        /\ \A k \in DOMAIN handles :
             k \in DOMAIN Numbered(o, handles) /\ Numbered(o, handles)[k] = handles[k]
  BY <1>7, HandleIs
<1>10. ASSUME Refuse(c)
       PROVE  msgs' = Append(msgs, No) /\ handles' = handles
  BY <1>10 DEF Refuse, Respond
<1>11. ASSUME NEW o \in Objects, Show(c, o)
       PROVE  /\ msgs' = Append(msgs, Yes(HandleOf(o, handles), o, NoObject))
              /\ handles' = Numbered(o, handles)
  BY <1>11 DEF Show, Respond
<1>12. ASSUME ServeLookup(c)
       PROVE  /\ c.do = "lookup" /\ UNCHANGED <<v8, scope>>
              /\ \/ c.id \notin DOMAIN handles /\ Refuse(c)
                 \/ /\ c.id \in DOMAIN handles
                    /\ \E v \in Objects :
                         /\ msgs' = Append(msgs, Yes(HandleOf(v, handles), handles[c.id], v))
                         /\ handles' = Numbered(v, handles)
  BY <1>12 DEF ServeLookup, Respond
<1>13. ASSUME ServeUse(c)
       PROVE  /\ c.do = "use" /\ UNCHANGED <<v8, scope>>
              /\ \/ Refuse(c)
                 \/ /\ c.id \in DOMAIN handles /\ handles' = handles
                    /\ msgs' = Append(msgs, Yes(0, handles[c.id], NoObject))
  BY <1>13 DEF ServeUse, Respond
<1>14. ASSUME ServeContinue(c)
       PROVE  /\ c.do = "continue" /\ handles' = handles /\ v8' = "serving" /\ scope' = NoObject
              /\ msgs' = Append(msgs, Yes(0, NoObject, NoObject))
  BY <1>14 DEF ServeContinue, Respond
<1> HIDE DEF Yes, No
<1>15. ASSUME Refuse(c), UNCHANGED <<v8, scope>>,
              \/ c.do \in {"evaluate", "use"}
              \/ c.do = "scope" /\ scope = NoObject
              \/ c.do = "lookup" /\ c.id \notin DOMAIN handles
       PROVE  \E m \in MsgType(Len(requests)) : msgs' = Append(msgs, m) /\ Outcome(c, m)
  <2> DEFINE m == No
  <2>1. msgs' = Append(msgs, m) /\ handles' = handles
    BY <1>10, <1>15
  <2>2. /\ m \in MsgType(Len(requests)) /\ m.step = c.step /\ m.req = c.req /\ m.ok = FALSE
        /\ m.object = NoObject /\ m.value = NoObject
    BY <1>6, <1>7
  <2> HIDE DEF m
  <2>3. Outcome(c, m)
    BY <1>7, <1>15, <2>1, <2>2 DEF Outcome
  <2> QED BY <2>1, <2>2, <2>3
<1>16. ASSUME NEW o \in Objects, Show(c, o), UNCHANGED <<v8, scope>>,
              c.do \in {"evaluate", "backtrace"} \/ (c.do = "scope" /\ o = scope)
       PROVE  \E m \in MsgType(Len(requests)) : msgs' = Append(msgs, m) /\ Outcome(c, m)
  <2> DEFINE m == Yes(HandleOf(o, handles), o, NoObject)
  <2>1. msgs' = Append(msgs, m) /\ handles' = Numbered(o, handles)
    BY <1>11, <1>16
  <2>2. /\ m \in MsgType(Len(requests)) /\ m.step = c.step /\ m.req = c.req /\ m.ok = TRUE
        /\ m.object = o /\ m.id = HandleOf(o, handles)
    <3>1. HandleOf(o, handles) \in Nat /\ o \in Anything /\ NoObject \in Anything
      BY <1>7, <1>9
    <3> HIDE DEF Anything
    <3> QED BY ONLY <1>6, <3>1
  <2> HIDE DEF m
  <2>3. Outcome(c, m)
    BY <1>7, <1>9, <1>16, <2>1, <2>2 DEF Outcome
  <2> QED BY <2>1, <2>2, <2>3
<1>17. CASE ServeEvaluate(c)
  BY <1>15, <1>16, <1>17 DEF ServeEvaluate
<1>18. CASE ServeScope(c)
  <2>1. scope = NoObject \/ scope \in Objects
    BY <1>7 DEF Anything
  <2> QED BY <1>15, <1>16, <1>18, <2>1 DEF ServeScope
<1>19. CASE ServeBacktrace(c)
  BY <1>16, <1>19 DEF ServeBacktrace
<1>20. CASE ServeLookup(c)
  <2>1. CASE c.id \notin DOMAIN handles
    BY <1>12, <1>15, <1>20, <2>1
  <2>2. CASE c.id \in DOMAIN handles
    <3>1. PICK v \in Objects :
            /\ msgs' = Append(msgs, Yes(HandleOf(v, handles), handles[c.id], v))
            /\ handles' = Numbered(v, handles)
      BY <1>12, <1>20, <2>2
    <3> DEFINE m == Yes(HandleOf(v, handles), handles[c.id], v)
    <3>2. /\ m \in MsgType(Len(requests)) /\ m.step = c.step /\ m.req = c.req /\ m.ok = TRUE
          /\ m.object = handles[c.id] /\ m.id = HandleOf(v, handles) /\ m.value = v
      <4>1. HandleOf(v, handles) \in Nat /\ v \in Anything /\ handles[c.id] \in Anything
        BY <1>7, <1>8, <1>9, <2>2
      <4> QED BY ONLY <1>6, <4>1
    <3>3. msgs' = Append(msgs, m)
      BY <3>1
    <3> HIDE DEF m
    <3>4. Outcome(c, m)
      BY <1>9, <1>12, <1>20, <2>2, <3>1, <3>2 DEF Outcome
    <3> QED BY <3>2, <3>3, <3>4
  <2> QED BY <2>1, <2>2
<1>21. CASE ServeUse(c)
  <2>1. CASE Refuse(c)
    BY <1>13, <1>15, <1>21, <2>1
  <2>2. CASE ~Refuse(c)
    <3> DEFINE m == Yes(0, handles[c.id], NoObject)
    <3>1. c.id \in DOMAIN handles /\ handles' = handles /\ msgs' = Append(msgs, m)
      BY <1>13, <1>21, <2>2
    <3>2. /\ m \in MsgType(Len(requests)) /\ m.step = c.step /\ m.req = c.req /\ m.ok = TRUE
          /\ m.object = handles[c.id]
      BY <1>6, <1>7, <1>8, <3>1
    <3> HIDE DEF m
    <3>3. Outcome(c, m)
      BY <1>7, <1>13, <1>21, <3>1, <3>2 DEF Outcome
    <3> QED BY <3>1, <3>2, <3>3
  <2> QED BY <2>1, <2>2
<1>22. CASE ServeContinue(c)
  <2> DEFINE m == Yes(0, NoObject, NoObject)
  <2>1. /\ c.do = "continue" /\ handles' = handles /\ v8' = "serving" /\ scope' = NoObject
        /\ msgs' = Append(msgs, m)
    BY <1>14, <1>22
  <2>2. /\ m \in MsgType(Len(requests)) /\ m.step = c.step /\ m.req = c.req /\ m.ok = TRUE
        /\ m.object = NoObject
    BY <1>6, <1>7
  <2> HIDE DEF m
  <2>3. Outcome(c, m)
    BY <1>7, <2>1, <2>2 DEF Outcome
  <2> QED BY <2>1, <2>2, <2>3
<1> QED BY <1>4, <1>17, <1>18, <1>19, <1>20, <1>21, <1>22

\* V8's steps keep their types.
LEMMA V8Type == TypeOK /\ (V8 \/ Stop) => TypeOK'
<1> SUFFICES ASSUME TypeOK, V8 \/ Stop PROVE TypeOK'
  OBVIOUS
<1>1. RestType /\ CmdsType /\ MsgsType /\ OutsType /\ RequestsType /\ Len(requests) \in Nat
  BY TypeParts DEF RequestsType
<1>2. <<>> \in Seq(Objects) /\ NoObject \in Anything /\ Objects \subseteq Anything
  BY DEF Anything
<1>3. CASE ServeCommand
  <2>1. /\ cmds # <<>> /\ cmds' = Tail(cmds)
        /\ UNCHANGED <<paused, shown, out, looks, stops, requests>>
        /\ \E m \in MsgType(Len(requests)) :
             msgs' = Append(msgs, m) /\ Outcome(Head(cmds), m)
    BY <1>3, Served
  <2>2. CmdsType'
    BY <1>1, <2>1, Popped DEF CmdsType
  <2>3. MsgsType'
    BY <1>1, <2>1 DEF MsgsType
  <2>4. handles' \in Seq(Objects) /\ v8' \in {"program", "serving", "waiting"}
        /\ scope' \in Anything
    BY <1>1, <1>2, <2>1 DEF Outcome, RestType
  <2>5. RestType'
    BY <1>1, <2>1, <2>4 DEF RestType
  <2> QED BY <1>1, <2>1, <2>2, <2>3, <2>5, TypePartsNext DEF OutsType, RequestsType
<1>4. CASE EnterDebugger \/ LeaveDebugger
  <2>1. UNCHANGED <<paused, shown, out, cmds, msgs, scope, looks, stops, requests>>
        /\ handles' = <<>> /\ v8' \in {"program", "serving"}
    BY <1>4 DEF EnterDebugger, LeaveDebugger, clientVars
  <2>2. RestType'
    BY <1>1, <1>2, <2>1 DEF RestType
  <2> QED BY <1>1, <2>1, <2>2, TypePartsNext DEF CmdsType, MsgsType, OutsType, RequestsType
<1>5. CASE Stop
  <2> DEFINE m == [step |-> "stopped", req |-> 0, ok |-> TRUE, id |-> 0,
                   object |-> NoObject, value |-> NoObject]
  <2>1. UNCHANGED <<paused, shown, out, cmds, looks, requests>>
        /\ handles' = <<>> /\ v8' = "waiting" /\ scope' \in Objects /\ stops' = stops + 1
        /\ msgs' = Append(msgs, m)
    BY <1>5 DEF Stop, clientVars
  <2>2. m \in MsgType(Len(requests))
    BY <1>1, <1>2 DEF MsgType, Steps
  <2> HIDE DEF m
  <2>3. MsgsType'
    BY <1>1, <2>1, <2>2 DEF MsgsType
  <2>4. RestType'
    BY <1>1, <1>2, <2>1 DEF RestType
  <2> QED BY <1>1, <2>1, <2>3, <2>4, TypePartsNext DEF CmdsType, OutsType, RequestsType
<1> QED BY <1>3, <1>4, <1>5 DEF V8

\* Every step keeps every variable's type.
LEMMA NextType == TypeOK /\ [Next]_vars => TypeOK'
<1> SUFFICES ASSUME TypeOK, [Next]_vars PROVE TypeOK'
  OBVIOUS
<1>1. CASE UNCHANGED vars
  <2>1. UNCHANGED <<paused, shown, out, cmds, msgs, v8, handles, scope, looks, stops, requests>>
    BY <1>1 DEF vars, clientVars, v8Vars
  <2> QED BY <2>1, TypeParts, TypePartsNext
          DEF RestType, CmdsType, MsgsType, OutsType, RequestsType
<1> QED BY <1>1, MethodType, CallbackType, ReadType, V8Type DEF Next

\* Every variable keeps its type, for any objects and bounds.
THEOREM TypeCorrect == Spec => []TypeOK
BY InitType, NextType, PTL DEF Spec

------------------------------------------------------------------------------
(* What is on its way, and what it is about.                                 *)

\* Commands and messages that carry a stop from V8 to the front-end and the
\* answer to it back.
CmdMark(c) == c.do \in {"backtrace", "continue"}
MsgMark(m) == m.step \in {"stopped", "paused"}
OutMark(o) == o.what = "paused"

CmdMarks == {k \in DOMAIN cmds : CmdMark(cmds[k])}
MsgMarks == {k \in DOMAIN msgs : MsgMark(msgs[k])}
OutMarks == {k \in DOMAIN out : OutMark(out[k])}

\* While V8 waits, the stop is in one place: on its way to the front-end,
\* with it, or on its way back.  While it does not, it is nowhere.
OneStop ==
  /\ \A j, k \in CmdMarks : j = k
  /\ \A j, k \in MsgMarks : j = k
  /\ \A j, k \in OutMarks : j = k
  /\ CmdMarks # {} => MsgMarks = {} /\ OutMarks = {} /\ ~paused
  /\ MsgMarks # {} => OutMarks = {} /\ ~paused
  /\ OutMarks # {} => ~paused
  /\ paused \/ CmdMarks # {} \/ MsgMarks # {} \/ OutMarks # {} => v8 = "waiting"
  /\ v8 = "waiting" => scope # NoObject

\* A request is on its way to V8 or back once, and not answered yet.
Underway ==
  /\ \A k \in DOMAIN cmds : cmds[k].req # 0 =>
       cmds[k].req \in DOMAIN requests /\ requests[cmds[k].req].answer = "none"
  /\ \A k \in DOMAIN msgs : msgs[k].req # 0 =>
       msgs[k].req \in DOMAIN requests /\ requests[msgs[k].req].answer = "none"
  /\ \A j, k \in DOMAIN cmds : cmds[j].req = cmds[k].req /\ cmds[j].req # 0 => j = k
  /\ \A j, k \in DOMAIN msgs : msgs[j].req = msgs[k].req /\ msgs[j].req # 0 => j = k
  /\ \A j \in DOMAIN cmds, k \in DOMAIN msgs : cmds[j].req = msgs[k].req => cmds[j].req = 0

\* The step of a request, and the command that leads to it.
StepOf(kind, step) ==
  \/ kind = "evaluate" /\ step = "evaluated"
  \/ kind = "object" /\ step = "looked"
  \/ kind = "scope" /\ step \in {"scoped", "looked"}
  \/ kind = "use" /\ step \in {"called", "set"}

StepFits(req, step) ==
  IF req = 0 THEN step \in {"paused", "continued", "stopped"}
             ELSE StepOf(requests[req].kind, step)

DoFits(do, step) ==
  \/ do = "evaluate" /\ step = "evaluated"
  \/ do = "scope" /\ step = "scoped"
  \/ do = "lookup" /\ step = "looked"
  \/ do = "use" /\ step \in {"called", "set"}
  \/ do = "backtrace" /\ step = "paused"
  \/ do = "continue" /\ step = "continued"

Fits ==
  /\ \A k \in DOMAIN cmds : StepFits(cmds[k].req, cmds[k].step) /\ DoFits(cmds[k].do, cmds[k].step)
  /\ \A k \in DOMAIN msgs : StepFits(msgs[k].req, msgs[k].step)

\* The number id is the object's, at this moment.
Names(id, object) == id \in DOMAIN handles /\ handles[id] = object

Settled(q) == q.kind # "scope" \/ ~q.hurried

\* A command that was given for what the front-end was shown in this pause.
Given(c) == c.do = "scope" \/ (c.do \in {"lookup", "use"} /\ Settled(requests[c.req]))

CmdAbout(c) ==
  Given(c) =>
    /\ v8 = "waiting"
    /\ c.do = "scope" => requests[c.req].means = scope
    /\ c.do # "scope" => Names(c.id, requests[c.req].means)

MsgAbout(m) ==
  LET q == requests[m.req]
  IN /\ m.step = "scoped" => m.ok /\ (~q.hurried => Names(m.id, q.means))
     /\ m.step = "looked" /\ Settled(q) => m.ok /\ m.object = q.means
     /\ m.step \in {"called", "set"} /\ m.ok => m.object = q.means

Waits(req) ==
  req # 0 /\ requests[req].kind # "evaluate" /\ ~requests[req].hurried => paused

\* Commands about what was shown come before the one to go on, and unless the
\* front-end hurries, it waits.
About ==
  /\ \A k \in DOMAIN cmds : CmdAbout(cmds[k]) /\ Waits(cmds[k].req)
  /\ \A j, k \in DOMAIN cmds : j < k /\ cmds[j].do = "continue" => ~Given(cmds[k])
  /\ \A k \in DOMAIN msgs : MsgAbout(msgs[k]) /\ Waits(msgs[k].req)

\* What the front-end is shown with a message.
Gives(m) ==
  CASE m.step = "looked" -> m.value
    [] m.step \in {"evaluated", "paused"} -> m.object
    [] OTHER -> NoObject

\* Numbers that the front-end has taken up, or will, are those of this stop.
Current ==
  /\ \A x \in shown : paused /\ Names(x[1], x[2])
  /\ \A k \in DOMAIN out :
       /\ out[k].object # NoObject
       /\ paused \/ \E j \in OutMarks : j <= k
       => Names(out[k].id, out[k].object)
  /\ \A k \in DOMAIN msgs :
       /\ Gives(msgs[k]) # NoObject
       /\ v8 = "waiting"
       /\ \A j \in DOMAIN msgs : msgs[j].step = "stopped" => j <= k
       => Names(msgs[k].id, Gives(msgs[k]))

NamesGiven ==
  \A r \in DOMAIN requests :
    requests[r].kind = "object" /\ requests[r].answer = "ok" =>
      requests[r].names = PropertiesOf(looks, requests[r].options)

IInv == OneStop /\ Underway /\ Fits /\ About /\ Current /\ AboutWhatWasShown /\ NamesGiven

\* t is s with x behind it.
Grows(s, t, x) ==
  /\ Len(s) \in Nat /\ Len(s) + 1 \notin DOMAIN s
  /\ DOMAIN t = DOMAIN s \cup {Len(s) + 1}
  /\ \A k \in DOMAIN s : t[k] = s[k] /\ k \in Nat /\ k < Len(s) + 1
  /\ t[Len(s) + 1] = x

\* s is t with x before it.
Shrinks(s, t, x) ==
  /\ 1 \in DOMAIN s /\ s[1] = x
  /\ \A k \in DOMAIN t : k \in Nat \ {0} /\ k + 1 \in DOMAIN s /\ k + 1 # 1 /\ t[k] = s[k + 1]
  /\ \A k \in DOMAIN s : k # 1 => k \in Nat /\ k > 1 /\ k - 1 \in DOMAIN t

\* Append and Tail do that.
LEMMA GrowsShrinks ==
  ASSUME NEW S, NEW s \in Seq(S)
  PROVE  /\ \A x \in S : Grows(s, Append(s, x), x)
         /\ s # <<>> => Shrinks(s, Tail(s), Head(s))
<1>1. ASSUME NEW x \in S PROVE Grows(s, Append(s, x), x)
  <2>1. \A k \in DOMAIN s : k <= Len(s) => k < Len(s) + 1
    OBVIOUS
  <2> QED BY Appended, <2>1 DEF Grows
<1>2. ASSUME s # <<>> PROVE Shrinks(s, Tail(s), Head(s))
  BY <1>2, Popped DEF Shrinks
<1> QED BY <1>1, <1>2

\* Only commands and messages of the stop itself belong to no request.
LEMMA NoRequest ==
  ASSUME Fits
  PROVE  /\ \A k \in DOMAIN cmds : cmds[k].req = 0 => CmdMark(cmds[k]) /\ ~Given(cmds[k])
         /\ \A k \in DOMAIN msgs : msgs[k].req = 0 =>
              msgs[k].step \notin {"evaluated", "scoped", "looked", "called", "set"}
         /\ \A k \in DOMAIN msgs : MsgMark(msgs[k]) => msgs[k].req = 0
<1>1. ASSUME NEW k \in DOMAIN cmds, cmds[k].req = 0
      PROVE  cmds[k].do \in {"backtrace", "continue"}
  BY <1>1 DEF Fits, StepFits, DoFits
<1> QED BY <1>1 DEF Fits, StepFits, StepOf, CmdMark, MsgMark, Given

\* Nothing is on its way in the beginning.
LEMMA InitIInv == Init => IInv
<1>1. DOMAIN <<>> = {}
  OBVIOUS
<1> QED BY <1>1 DEF Init, IInv, OneStop, CmdMarks, MsgMarks, OutMarks, Underway, Fits, About,
        Current, AboutWhatWasShown, NamesGiven

\* A method asks V8 for something, about what the front-end was shown if it is
\* about an object.
LEMMA ReceiveIInv ==
  ASSUME TypeOK, IInv,
         NEW kind \in {"evaluate", "object", "scope", "use"},
         NEW means \in Anything, NEW options \in {ForOwn, ForAccessors, ForScope},
         NEW do \in {"evaluate", "scope", "lookup", "use"},
         NEW id \in Nat, NEW step \in Steps,
         Receive(kind, means, options), Send(do, id, step, NewReq),
         StepOf(kind, step),
         DoFits(do, step),
         kind # "evaluate" => paused,
         do = "evaluate" <=> kind = "evaluate",
         do = "scope" => means = scope,
         do \in {"lookup", "use"} => Names(id, means)
  PROVE  IInv'
<1>0. PICK r, q, c, n :
        /\ r = NewReq /\ n = Len(cmds) + 1
        /\ q = [kind |-> kind, means |-> means, options |-> options, hurried |-> FALSE,
                answer |-> "none", object |-> NoObject, names |-> <<>>]
        /\ c = [do |-> do, id |-> id, step |-> step, req |-> r]
  OBVIOUS
<1>1. /\ CmdsType /\ MsgsType /\ OutsType /\ RequestsType
  BY TypeParts
<1>2. requests' = Append(requests, q) /\ cmds' = Append(cmds, c)
      /\ UNCHANGED <<paused, shown, out, msgs, v8, handles, scope, looks, stops>>
  BY <1>0 DEF Receive, Send, clientVars, v8Vars
<1>3. /\ q.answer = "none" /\ q.kind = kind /\ q.means = means /\ ~q.hurried
      /\ c.do = do /\ c.id = id /\ c.step = step /\ c.req = r
  BY <1>0
<1>4. Grows(requests, requests', q) /\ q \in RequestType
  <2>1. q \in RequestType
    BY <1>0, NamesType DEF RequestType, Anything
  <2> QED BY <1>1, <1>2, <2>1, GrowsShrinks DEF RequestsType
<1>5. Grows(cmds, cmds', c)
  <2>1. c \in CmdType(Len(requests) + 1) /\ cmds \in Seq(CmdType(Len(requests) + 1))
    <3>1. Len(requests) \in Nat
      BY <1>1 DEF RequestsType
    <3>2. cmds \in Seq(CmdType(Len(requests) + 1))
      BY <1>1, <3>1, MoreRequests DEF CmdsType
    <3> QED BY <1>0, <3>1, <3>2 DEF CmdType, NewReq
  <2> QED BY <1>2, <2>1, GrowsShrinks
<1>6. /\ r = Len(requests) + 1 /\ r # 0 /\ r \notin DOMAIN requests
      /\ requests'[r] = q /\ DOMAIN requests' = DOMAIN requests \cup {r}
      /\ \A x \in DOMAIN requests : requests'[x] = requests[x]
  BY <1>0, <1>4 DEF Grows, NewReq
<1>7. /\ DOMAIN cmds' = DOMAIN cmds \cup {n} /\ n \notin DOMAIN cmds /\ cmds'[n] = c
      /\ \A k \in DOMAIN cmds : cmds'[k] = cmds[k] /\ k < n /\ ~(n < k) /\ ~(n < n)
  BY <1>0, <1>5 DEF Grows
<1>8. /\ \A k \in DOMAIN cmds : cmds[k].req # r /\ (cmds[k].req # 0 => cmds[k].req \in DOMAIN requests)
      /\ \A k \in DOMAIN msgs : msgs[k].req # r /\ (msgs[k].req # 0 => msgs[k].req \in DOMAIN requests)
  BY <1>6 DEF IInv, Underway
<1>9. OneStop'
  <2>1. CmdMarks' = CmdMarks
    BY <1>3, <1>7 DEF CmdMarks, CmdMark
  <2>2. MsgMarks' = MsgMarks /\ OutMarks' = OutMarks
    BY <1>2 DEF MsgMarks, OutMarks
  <2> QED BY <1>2, <2>1, <2>2 DEF OneStop, IInv
<1>10. Underway'
  BY <1>2, <1>3, <1>6, <1>7, <1>8 DEF Underway, IInv
<1>11. Fits'
  BY <1>2, <1>3, <1>6, <1>7, <1>8 DEF Fits, StepFits, IInv
<1>12. About'
  <2>1. \A k \in DOMAIN cmds : (Given(cmds[k])' <=> Given(cmds[k])) /\ CmdAbout(cmds[k])'
    BY <1>2, <1>6, <1>8, NoRequest DEF Given, Settled, CmdAbout, Names, About, IInv, CmdMark
  <2>2. paused => v8 = "waiting" /\ CmdMarks = {}
    BY DEF OneStop, IInv
  <2>3. CmdAbout(c)'
    BY <1>2, <1>3, <1>6, <2>2 DEF CmdAbout, Given, Names
  <2>4. Given(c)' => paused
    BY <1>3 DEF Given
  <2>5. \A k \in DOMAIN cmds : Waits(cmds[k].req)'
    BY <1>2, <1>6, <1>8 DEF Waits, About, IInv
  <2>6. \A k \in DOMAIN msgs : Waits(msgs[k].req)' /\ MsgAbout(msgs[k])'
    BY <1>2, <1>6, <1>8, NoRequest DEF Waits, MsgAbout, Settled, Names, About, IInv
  <2>7. Waits(c.req)'
    BY <1>2, <1>3, <1>6 DEF Waits
  <2>8. \A j, k \in DOMAIN cmds' : j < k /\ cmds'[j].do = "continue" => ~Given(cmds[k])'
    <3> SUFFICES ASSUME NEW j \in DOMAIN cmds', NEW k \in DOMAIN cmds', j < k,
                        cmds'[j].do = "continue"
                 PROVE  ~Given(cmds[k])'
      OBVIOUS
    <3>1. j \in DOMAIN cmds /\ cmds[j].do = "continue"
      BY <1>3, <1>7
    <3>2. CASE k \in DOMAIN cmds
      BY <2>1, <3>1, <3>2 DEF About, IInv
    <3>3. CASE k = n
      <4>1. ~paused
        BY <2>2, <3>1 DEF CmdMarks, CmdMark
      <4> QED BY <1>3, <1>7, <3>3, <4>1 DEF Given
    <3> QED BY <1>7, <3>2, <3>3
  <2>9. CmdAbout(cmds[n])' /\ Waits(cmds[n].req)'
    BY <1>7, <2>3, <2>7 DEF CmdAbout, Waits, Given, Settled
  <2> QED BY <1>2, <1>7, <2>1, <2>5, <2>6, <2>8, <2>9 DEF About
<1>13. Current'
  <2>1. OutMarks' = OutMarks
    BY <1>2 DEF OutMarks
  <2> QED BY <1>2, <2>1 DEF Current, Gives, Names, IInv
<1>14. AboutWhatWasShown' /\ NamesGiven'
  BY <1>2, <1>3, <1>6 DEF AboutWhatWasShown, NamesGiven, IInv
<1> QED BY <1>9, <1>10, <1>11, <1>12, <1>13, <1>14 DEF IInv

\* A call that is refused at once.
LEMMA RefusedCallIInv ==
  ASSUME TypeOK, IInv, CallFunctionOnRefused
  PROVE  IInv'
<1>0. PICK x, r, q, o, n :
        /\ x \in shown /\ r = NewReq /\ n = Len(out) + 1
        /\ q = [kind |-> "use", means |-> x[2], options |-> ForOwn, hurried |-> FALSE,
                answer |-> "error", object |-> NoObject, names |-> <<>>]
        /\ o = [what |-> "answer", req |-> r, id |-> 0, object |-> NoObject]
        /\ requests' = Append(requests, q) /\ out' = Append(out, o)
  BY DEF CallFunctionOnRefused
<1>1. RestType /\ OutsType /\ RequestsType
  BY TypeParts
<1>2. UNCHANGED <<paused, shown, cmds, msgs, v8, handles, scope, looks, stops>>
  BY DEF CallFunctionOnRefused, clientVars, v8Vars
<1>3. /\ q.answer = "error" /\ q.kind = "use" /\ o.what = "answer" /\ o.object = NoObject
  BY <1>0
<1>4. Grows(requests, requests', q)
  <2>1. x[2] \in Anything
    BY <1>0, <1>1 DEF RestType, Anything
  <2>2. q \in RequestType
    BY <1>0, <2>1, NamesType DEF RequestType, Anything
  <2> QED BY <1>0, <1>1, <2>2, GrowsShrinks DEF RequestsType
<1>5. Grows(out, out', o)
  <2>1. Len(requests) \in Nat
    BY <1>1 DEF RequestsType
  <2>2. out \in Seq(OutType(Len(requests) + 1))
    BY <1>1, <2>1, MoreRequests DEF OutsType
  <2>3. o \in OutType(Len(requests) + 1)
    BY <1>0, <2>1 DEF OutType, NewReq, Anything
  <2> QED BY <1>0, <2>2, <2>3, GrowsShrinks
<1>6. /\ r # 0 /\ r \notin DOMAIN requests
      /\ requests'[r] = q /\ DOMAIN requests' = DOMAIN requests \cup {r}
      /\ \A z \in DOMAIN requests : requests'[z] = requests[z]
  BY <1>0, <1>4 DEF Grows, NewReq
<1>7. /\ DOMAIN out' = DOMAIN out \cup {n} /\ out'[n] = o
      /\ \A k \in DOMAIN out : out'[k] = out[k]
  BY <1>0, <1>5 DEF Grows
<1>8. /\ \A k \in DOMAIN cmds : cmds[k].req # 0 => cmds[k].req \in DOMAIN requests
      /\ \A k \in DOMAIN msgs : msgs[k].req # 0 => msgs[k].req \in DOMAIN requests
  BY DEF IInv, Underway
<1>9. OneStop' /\ OutMarks' = OutMarks
  <2>1. OutMarks' = OutMarks
    BY <1>3, <1>7 DEF OutMarks, OutMark
  <2>2. MsgMarks' = MsgMarks /\ CmdMarks' = CmdMarks
    BY <1>2 DEF MsgMarks, CmdMarks
  <2> QED BY <1>2, <2>1, <2>2 DEF OneStop, IInv
<1>10. Underway' /\ Fits'
  BY <1>2, <1>6, <1>8 DEF Underway, Fits, StepFits, IInv
<1>11. About'
  <2>1. \A k \in DOMAIN cmds : (Given(cmds[k])' <=> Given(cmds[k])) /\ CmdAbout(cmds[k])'
    BY <1>2, <1>6, <1>8, NoRequest DEF Given, Settled, CmdAbout, Names, About, IInv, CmdMark
  <2>2. \A k \in DOMAIN cmds : Waits(cmds[k].req)'
    BY <1>2, <1>6, <1>8 DEF Waits, About, IInv
  <2>3. \A k \in DOMAIN msgs : Waits(msgs[k].req)' /\ MsgAbout(msgs[k])'
    BY <1>2, <1>6, <1>8, NoRequest DEF Waits, MsgAbout, Settled, Names, About, IInv
  <2> QED BY <1>2, <2>1, <2>2, <2>3 DEF About, IInv
<1>12. Current'
  BY <1>2, <1>3, <1>7, <1>9 DEF Current, Gives, Names, IInv
<1>13. AboutWhatWasShown' /\ NamesGiven'
  BY <1>2, <1>3, <1>6 DEF AboutWhatWasShown, NamesGiven, IInv
<1> QED BY <1>9, <1>10, <1>11, <1>12, <1>13 DEF IInv

\* The front-end lets the program go on.
LEMMA ResumeIInv ==
  ASSUME TypeOK, IInv, Resume
  PROVE  IInv'
<1>0. PICK c, n :
        /\ n = Len(cmds) + 1
        /\ c = [do |-> "continue", id |-> 0, step |-> "continued", req |-> 0]
        /\ cmds' = Append(cmds, c)
  BY DEF Resume
<1>1. CmdsType /\ RequestsType /\ Len(requests) \in Nat
  BY TypeParts DEF RequestsType
<1>2. /\ requests' = [r \in DOMAIN requests |->
                        IF requests[r].answer = "none"
                        THEN [requests[r] EXCEPT !.hurried = TRUE] ELSE requests[r]]
      /\ paused /\ paused' = FALSE /\ shown' = {}
      /\ UNCHANGED <<out, msgs, v8, handles, scope, looks, stops>>
  BY DEF Resume, v8Vars
<1>3. c.do = "continue" /\ c.step = "continued" /\ c.req = 0
  BY <1>0
<1>4. Grows(cmds, cmds', c)
  <2>1. c \in CmdType(Len(requests))
    BY <1>0, <1>1 DEF CmdType, Steps
  <2> QED BY <1>0, <1>1, <2>1, GrowsShrinks DEF CmdsType
<1>5. /\ DOMAIN requests' = DOMAIN requests
      /\ \A r \in DOMAIN requests :
           LET q == requests[r]
               p == requests'[r]
           IN /\ p.kind = q.kind /\ p.means = q.means /\ p.options = q.options
              /\ p.answer = q.answer /\ p.object = q.object /\ p.names = q.names
              /\ q.hurried => p.hurried
              /\ q.answer = "none" => p.hurried
  <2>1. \A r \in DOMAIN requests : requests[r] \in RequestType
    BY <1>1 DEF RequestsType
  <2> QED BY <1>2, <2>1 DEF RequestType
<1>6. /\ DOMAIN cmds' = DOMAIN cmds \cup {n} /\ n \notin DOMAIN cmds /\ cmds'[n] = c
      /\ \A k \in DOMAIN cmds : cmds'[k] = cmds[k] /\ k < n /\ ~(n < k) /\ ~(n < n)
  BY <1>0, <1>4 DEF Grows
<1>7. /\ \A k \in DOMAIN cmds : cmds[k].req # 0 =>
           cmds[k].req \in DOMAIN requests /\ requests'[cmds[k].req].hurried
      /\ \A k \in DOMAIN msgs : msgs[k].req # 0 =>
           msgs[k].req \in DOMAIN requests /\ requests'[msgs[k].req].hurried
  BY <1>5 DEF IInv, Underway
<1>8. CmdMarks = {} /\ MsgMarks = {} /\ OutMarks = {} /\ v8 = "waiting"
  BY <1>2 DEF OneStop, IInv
<1>9. OneStop' /\ OutMarks' = {}
  <2>1. CmdMarks' = {n}
    BY <1>3, <1>6, <1>8 DEF CmdMarks, CmdMark
  <2>2. MsgMarks' = {} /\ OutMarks' = {}
    BY <1>2, <1>8 DEF MsgMarks, OutMarks
  <2> QED BY <1>2, <1>8, <2>1, <2>2 DEF OneStop, IInv
<1>10. Underway'
  BY <1>2, <1>3, <1>5, <1>6, <1>7 DEF Underway, IInv
<1>11. Fits'
  BY <1>2, <1>3, <1>5, <1>6, <1>7 DEF Fits, StepFits, DoFits, IInv
<1>12. About'
  <2>1. \A k \in DOMAIN cmds : (Given(cmds[k])' => Given(cmds[k])) /\ CmdAbout(cmds[k])'
    BY <1>2, <1>5, <1>6, <1>7, NoRequest
       DEF Given, Settled, CmdAbout, Names, About, IInv, CmdMark
  <2>2. ~Given(cmds[n])' /\ CmdAbout(cmds[n])' /\ Waits(cmds[n].req)'
    BY <1>3, <1>6 DEF Given, CmdAbout, Waits
  <2>3. \A k \in DOMAIN cmds : Waits(cmds[k].req)'
    BY <1>6, <1>7 DEF Waits
  <2>4. \A k \in DOMAIN msgs : Waits(msgs[k].req)'
    BY <1>2, <1>7 DEF Waits
  <2>5. \A k \in DOMAIN msgs : MsgAbout(msgs[k])'
    BY <1>2, <1>5, <1>7, NoRequest DEF MsgAbout, Settled, Names, About, IInv
  <2>6. \A j, k \in DOMAIN cmds' : j < k /\ cmds'[j].do = "continue" => ~Given(cmds[k])'
    BY <1>6, <2>1, <2>2 DEF About, IInv
  <2> QED BY <1>2, <1>6, <2>1, <2>2, <2>3, <2>4, <2>5, <2>6 DEF About
<1>13. Current'
  BY <1>2, <1>9 DEF Current, Gives, Names, IInv
<1>14. AboutWhatWasShown' /\ NamesGiven'
  BY <1>2, <1>5 DEF AboutWhatWasShown, NamesGiven, IInv
<1> QED BY <1>9, <1>10, <1>11, <1>12, <1>13, <1>14 DEF IInv

\* The methods keep it: what they ask for was shown in this pause, so that
\* its number is still its number.
LEMMA MethodIInv == TypeOK /\ IInv /\ Method => IInv'
<1> SUFFICES ASSUME TypeOK, IInv, Method PROVE IInv'
  OBVIOUS
<1>1. /\ \A x \in shown : x[1] \in Nat /\ x[2] \in Anything /\ Names(x[1], x[2])
      /\ scope \in Anything /\ NoObject \in Anything
  BY TypeParts DEF RestType, Anything, Current, IInv
<1>2. CASE Evaluate
  BY <1>1, <1>2, ReceiveIInv DEF Evaluate, Steps, StepOf, DoFits
<1>3. CASE GetPropertiesOfObjectId
  <2>1. PICK x \in shown, options \in {ForOwn, ForAccessors} :
          paused /\ Receive("object", x[2], options) /\ Send("lookup", x[1], "looked", NewReq)
    BY <1>3 DEF GetPropertiesOfObjectId
  <2> QED BY <1>1, <2>1, ReceiveIInv DEF Steps, StepOf, DoFits
<1>4. CASE GetPropertiesOfScopeId
  BY <1>1, <1>4, ReceiveIInv DEF GetPropertiesOfScopeId, Steps, StepOf, DoFits
<1>5. CASE CallFunctionOn
  <2>1. PICK x \in shown : paused /\ Receive("use", x[2], ForOwn)
                           /\ Send("use", x[1], "called", NewReq)
    BY <1>5 DEF CallFunctionOn
  <2> QED BY <1>1, <2>1, ReceiveIInv DEF Steps, StepOf, DoFits
<1>6. CASE SetVariableValue
  <2>1. PICK x \in shown : paused /\ Receive("use", x[2], ForOwn)
                           /\ Send("use", x[1], "set", NewReq)
    BY <1>6 DEF SetVariableValue
  <2> QED BY <1>1, <2>1, ReceiveIInv DEF Steps, StepOf, DoFits
<1> QED BY <1>2, <1>3, <1>4, <1>5, <1>6, RefusedCallIInv, ResumeIInv DEF Method

------------------------------------------------------------------------------
(* The callbacks keep it.  Each has popped the first message, m.             *)

\* What is known of the first message, and of the rest without it.
LEMMA FirstMessage ==
  ASSUME TypeOK, IInv, OnDebuggerMessage
  PROVE  LET m == Head(msgs)
         IN /\ Shrinks(msgs, msgs', m) /\ 1 \in DOMAIN msgs /\ msgs[1] = m
            /\ m \in MsgType(Len(requests))
            /\ StepFits(m.req, m.step) /\ MsgAbout(m) /\ Waits(m.req)
            /\ m.req # 0 => m.req \in DOMAIN requests /\ requests[m.req].answer = "none"
            /\ MsgMark(m) => MsgMarks = {1} /\ MsgMarks' = {}
            /\ \A j \in MsgMarks' : j + 1 \in MsgMarks
            /\ paused \/ OutMarks # {} \/ m.step = "paused" =>
                 /\ v8 = "waiting"
                 /\ Gives(m) # NoObject => Names(m.id, Gives(m))
<1> DEFINE m == Head(msgs)
<1>1. MsgsType /\ msgs # <<>> /\ msgs' = Tail(msgs)
  BY TypeParts DEF OnDebuggerMessage
<1>2. Shrinks(msgs, msgs', m) /\ m \in MsgType(Len(requests))
  BY <1>1, Popped, GrowsShrinks DEF MsgsType
<1>3. /\ 1 \in DOMAIN msgs /\ msgs[1] = m
      /\ \A k \in DOMAIN msgs' : k \in Nat \ {0} /\ k + 1 \in DOMAIN msgs /\ k + 1 # 1
                                 /\ msgs'[k] = msgs[k + 1]
      /\ \A k \in DOMAIN msgs : k # 1 => k \in Nat /\ k > 1
  BY <1>2 DEF Shrinks
<1> HIDE DEF m
<1>4. /\ StepFits(m.req, m.step) /\ MsgAbout(m) /\ Waits(m.req)
      /\ m.req # 0 => m.req \in DOMAIN requests /\ requests[m.req].answer = "none"
  BY <1>3 DEF IInv, Fits, About, Underway
<1>5. \A j \in MsgMarks' : j + 1 \in MsgMarks /\ j + 1 # 1
  BY <1>3 DEF MsgMarks, MsgMark
<1>6. MsgMark(m) => MsgMarks = {1} /\ MsgMarks' = {}
  <2>1. ASSUME MsgMark(m) PROVE 1 \in MsgMarks
    BY <1>3, <2>1 DEF MsgMarks
  <2> QED BY <1>5, <2>1 DEF IInv, OneStop
<1>7. ASSUME paused \/ OutMarks # {} \/ m.step = "paused"
      PROVE  /\ v8 = "waiting"
             /\ Gives(m) # NoObject => Names(m.id, Gives(m))
  <2>1. MsgMarks = {} \/ (m.step = "paused" /\ MsgMarks = {1})
    BY <1>6, <1>7 DEF IInv, OneStop, MsgMark
  <2>2. v8 = "waiting"
    <3>1. m.step = "paused" => 1 \in MsgMarks
      BY <1>3 DEF MsgMarks, MsgMark
    <3> QED BY <1>7, <3>1 DEF IInv, OneStop
  <2>3. \A j \in DOMAIN msgs : msgs[j].step # "stopped"
    BY <1>3, <2>1 DEF MsgMarks, MsgMark
  <2> QED BY <1>3, <2>2, <2>3 DEF IInv, Current
<1> QED BY <1>2, <1>3, <1>4, <1>5, <1>6, <1>7 DEF m

\* An answer to m's request, of which the front-end may learn a number.
LEMMA AnswerIInv ==
  ASSUME TypeOK, IInv, OnDebuggerMessage, NEW m, m = Head(msgs),
         NEW result \in {"ok", "thrown", "error"},
         NEW object \in Anything, NEW names \in Seq({"p", "__proto__"}), NEW id \in Nat,
         NEW known \in Anything,
         Answer(m.req, result, object, names, id, known), UNCHANGED cmds,
         m.step \notin {"stopped", "paused", "continued"},
         known # NoObject => known = Gives(m) /\ id = m.id,
         LET q == requests[m.req]
         IN /\ q.kind # "evaluate" /\ Settled(q) /\ result = "ok" => object = q.means
            /\ q.kind \in {"object", "scope"} /\ Settled(q) => result # "error"
            /\ q.kind = "object" /\ result = "ok" => names = PropertiesOf(looks, q.options)
  PROVE  IInv'
<1>0. PICK r, o, n :
        /\ r = m.req /\ n = Len(out) + 1
        /\ o = [what |-> "answer", req |-> r, id |-> id, object |-> known]
  OBVIOUS
<1>1. OutsType /\ RequestsType /\ m \in MsgType(Len(requests))
  BY TypeParts, FirstMessage
<1>2. UNCHANGED <<paused, shown, cmds, v8, handles, scope, looks, stops>>
  BY DEF OnDebuggerMessage, clientVars, v8Vars
<1>3. /\ r # 0 /\ r \in DOMAIN requests /\ requests[r].answer = "none"
      /\ 1 \in DOMAIN msgs /\ msgs[1] = m
  BY <1>0, FirstMessage DEF StepFits
<1>4. \A k \in DOMAIN msgs' : k \in Nat \ {0} /\ k + 1 \in DOMAIN msgs /\ k + 1 # 1
                              /\ msgs'[k] = msgs[k + 1]
  BY FirstMessage DEF Shrinks
<1>5. /\ DOMAIN requests' = DOMAIN requests
      /\ \A x \in DOMAIN requests : x # r => requests'[x] = requests[x]
      /\ LET q == requests[r]
             p == requests'[r]
         IN /\ p.kind = q.kind /\ p.means = q.means /\ p.options = q.options
            /\ p.answer = result /\ p.object = object /\ p.names = names
            /\ p.hurried = q.hurried
  <2>1. requests' = [requests EXCEPT ![r].answer = result, ![r].object = object,
                                     ![r].names = names]
    BY <1>0 DEF Answer
  <2>2. requests[r] \in RequestType
    BY <1>1, <1>3 DEF RequestsType
  <2> DEFINE p == [requests[r] EXCEPT !.answer = result, !.object = object, !.names = names]
  <2>3. /\ p.kind = requests[r].kind /\ p.means = requests[r].means
        /\ p.options = requests[r].options
        /\ p.answer = result /\ p.object = object /\ p.names = names
        /\ p.hurried = requests[r].hurried
    BY <2>2 DEF RequestType
  <2>4. requests' = [requests EXCEPT ![r] = p]
    BY <1>3, <2>1
  <2> HIDE DEF p
  <2> QED BY <1>1, <1>3, <2>3, <2>4 DEF RequestsType
<1>6. /\ DOMAIN out' = DOMAIN out \cup {n} /\ out'[n] = o
      /\ \A k \in DOMAIN out : out'[k] = out[k] /\ k < n
  <2>1. o \in OutType(Len(requests))
    BY <1>0, <1>1 DEF OutType, MsgType
  <2>2. out' = Append(out, o)
    BY <1>0 DEF Answer
  <2>3. Grows(out, out', o)
    BY <1>1, <2>1, <2>2, GrowsShrinks DEF OutsType
  <2> QED BY <1>0, <2>3 DEF Grows
<1>7. o.what = "answer" /\ o.id = id /\ o.object = known
  BY <1>0
<1>8. /\ \A k \in DOMAIN cmds : cmds[k].req # r /\ (cmds[k].req # 0 => cmds[k].req \in DOMAIN requests)
      /\ \A k \in DOMAIN msgs' : msgs'[k].req # r /\ (msgs'[k].req # 0 => msgs'[k].req \in DOMAIN requests)
  BY <1>0, <1>3, <1>4 DEF IInv, Underway
<1>9. OneStop' /\ OutMarks' = OutMarks
  <2>1. OutMarks' = OutMarks
    BY <1>6, <1>7 DEF OutMarks, OutMark
  <2>2. CmdMarks' = CmdMarks
    BY <1>2 DEF CmdMarks
  <2>3. \A j \in MsgMarks' : j + 1 \in MsgMarks /\ j \in Nat
    BY <1>4, FirstMessage DEF MsgMarks
  <2> QED BY <1>2, <2>1, <2>2, <2>3 DEF OneStop, IInv
<1>10. Underway'
  <2>1. \A k \in DOMAIN msgs' : msgs'[k].req # 0 => requests'[msgs'[k].req].answer = "none"
    BY <1>4, <1>5, <1>8 DEF Underway, IInv
  <2>2. \A k \in DOMAIN cmds : cmds[k].req # 0 => requests'[cmds[k].req].answer = "none"
    BY <1>5, <1>8 DEF Underway, IInv
  <2>3. \A j, k \in DOMAIN msgs' : j + 1 = k + 1 => j = k
    BY <1>4
  <2> QED BY <1>2, <1>4, <1>5, <1>8, <2>1, <2>2, <2>3 DEF Underway, IInv
<1>11. Fits'
  BY <1>2, <1>4, <1>5, <1>8 DEF Fits, StepFits, IInv
<1>12. About'
  <2>1. \A k \in DOMAIN cmds : (Given(cmds[k])' <=> Given(cmds[k])) /\ CmdAbout(cmds[k])'
    BY <1>2, <1>5, <1>8, NoRequest DEF Given, Settled, CmdAbout, Names, About, IInv, CmdMark
  <2>2. \A k \in DOMAIN cmds : Waits(cmds[k].req)'
    BY <1>2, <1>5, <1>8 DEF Waits, About, IInv
  <2>3. \A k \in DOMAIN msgs' : Waits(msgs[k].req)'
    BY <1>2, <1>4, <1>5, <1>8 DEF Waits, About, IInv
  <2>4. \A k \in DOMAIN msgs' : MsgAbout(msgs[k])'
    <3>1. SUFFICES ASSUME NEW k \in DOMAIN msgs' PROVE MsgAbout(msgs[k])'
      OBVIOUS
    <3>2. MsgAbout(msgs[k + 1]) /\ msgs'[k] = msgs[k + 1]
      BY <1>4 DEF About, IInv
    <3>3. msgs[k + 1].req = 0 =>
            msgs[k + 1].step \notin {"evaluated", "scoped", "looked", "called", "set"}
      BY <1>4, NoRequest DEF IInv
    <3> QED BY <1>2, <1>5, <1>8, <3>2, <3>3 DEF MsgAbout, Settled, Names
  <2> QED BY <1>2, <2>1, <2>2, <2>3, <2>4 DEF About, IInv
<1>13. Current'
  <2>1. \A k \in DOMAIN out :
          out'[k].object # NoObject /\ (paused' \/ \E j \in OutMarks' : j <= k) =>
            Names(out'[k].id, out'[k].object)
    BY <1>2, <1>6, <1>9 DEF Current, IInv
  <2>2. paused' \/ OutMarks' # {} => (o.object # NoObject => Names(o.id, o.object))
    BY <1>2, <1>7, <1>9, FirstMessage
  <2>3. \A k \in DOMAIN msgs' :
          /\ Gives(msgs'[k]) # NoObject
          /\ v8' = "waiting"
          /\ \A j \in DOMAIN msgs' : msgs'[j].step = "stopped" => j <= k
          => Names(msgs'[k].id, Gives(msgs'[k]))
    <3> SUFFICES ASSUME NEW k \in DOMAIN msgs', Gives(msgs'[k]) # NoObject, v8' = "waiting",
                        \A j \in DOMAIN msgs' : msgs'[j].step = "stopped" => j <= k
                 PROVE  Names(msgs'[k].id, Gives(msgs'[k]))
      OBVIOUS
    <3>1. ASSUME NEW j \in DOMAIN msgs, msgs[j].step = "stopped" PROVE j <= k + 1
      <4>1. j # 1 => j - 1 \in DOMAIN msgs' /\ j \in Nat /\ (j - 1) + 1 = j
        BY FirstMessage DEF Shrinks
      <4> QED BY <1>4, <3>1, <4>1
    <3> QED BY <1>2, <1>4, <3>1 DEF Current, IInv
  <2>4. \A x \in shown : paused /\ Names(x[1], x[2])
    BY DEF Current, IInv
  <2> QED BY <1>2, <1>6, <1>9, <2>1, <2>2, <2>3, <2>4 DEF Current, Gives, Names
<1>14. AboutWhatWasShown'
  BY <1>0, <1>3, <1>5 DEF AboutWhatWasShown, Settled, IInv
<1>15. NamesGiven'
  BY <1>0, <1>2, <1>3, <1>5 DEF NamesGiven, IInv
<1> QED BY <1>9, <1>10, <1>11, <1>12, <1>13, <1>14, <1>15 DEF IInv

\* What every callback that answers nothing yet leaves to show.
LEMMA MessagesLeft ==
  ASSUME TypeOK, IInv, OnDebuggerMessage, requests' = requests, v8' = v8, handles' = handles,
         paused' = paused
  PROVE  /\ \A k \in DOMAIN msgs' :
              /\ msgs'[k].req # 0 =>
                   msgs'[k].req \in DOMAIN requests /\ requests[msgs'[k].req].answer = "none"
              /\ StepFits(msgs'[k].req, msgs'[k].step) /\ MsgAbout(msgs'[k]) /\ Waits(msgs'[k].req)
              /\ msgs'[k].req # 0 => msgs'[k].req # msgs[1].req
         /\ \A j, k \in DOMAIN msgs' : msgs'[j].req = msgs'[k].req /\ msgs'[j].req # 0 => j = k
         /\ \A j, k \in MsgMarks' : j = k
         /\ \A j \in DOMAIN cmds, k \in DOMAIN msgs' :
              cmds[j].req = msgs'[k].req => cmds[j].req = 0
         /\ \A k \in DOMAIN msgs' :
              /\ Gives(msgs'[k]) # NoObject
              /\ v8 = "waiting"
              /\ \A j \in DOMAIN msgs' : msgs'[j].step = "stopped" => j <= k
              => Names(msgs'[k].id, Gives(msgs'[k]))
<1>1. /\ 1 \in DOMAIN msgs
      /\ \A k \in DOMAIN msgs' : k \in Nat \ {0} /\ k + 1 \in DOMAIN msgs /\ k + 1 # 1
                                 /\ msgs'[k] = msgs[k + 1]
  BY FirstMessage DEF Shrinks
<1>2. \A j, k \in DOMAIN msgs' : j + 1 = k + 1 => j = k
  BY <1>1
<1>3. \A k \in DOMAIN msgs' :
        /\ msgs'[k].req # 0 =>
             msgs'[k].req \in DOMAIN requests /\ requests[msgs'[k].req].answer = "none"
        /\ StepFits(msgs'[k].req, msgs'[k].step) /\ MsgAbout(msgs'[k]) /\ Waits(msgs'[k].req)
        /\ msgs'[k].req # 0 => msgs'[k].req # msgs[1].req
  BY <1>1 DEF IInv, Underway, Fits, About
<1>4. \A j, k \in DOMAIN msgs' : msgs'[j].req = msgs'[k].req /\ msgs'[j].req # 0 => j = k
  BY <1>1, <1>2 DEF IInv, Underway
<1>5. \A j, k \in MsgMarks' : j = k
  BY <1>1, <1>2 DEF IInv, OneStop, MsgMarks, MsgMark
<1>6. \A j \in DOMAIN cmds, k \in DOMAIN msgs' : cmds[j].req = msgs'[k].req => cmds[j].req = 0
  BY <1>1 DEF IInv, Underway
<1>7. ASSUME NEW k \in DOMAIN msgs', Gives(msgs'[k]) # NoObject, v8 = "waiting",
             \A j \in DOMAIN msgs' : msgs'[j].step = "stopped" => j <= k
      PROVE  Names(msgs'[k].id, Gives(msgs'[k]))
  <2>1. ASSUME NEW j \in DOMAIN msgs, msgs[j].step = "stopped" PROVE j <= k + 1
    <3>1. j # 1 => j - 1 \in DOMAIN msgs' /\ j \in Nat /\ (j - 1) + 1 = j
      BY FirstMessage DEF Shrinks
    <3> QED BY <1>1, <1>7, <2>1, <3>1
  <2> QED BY <1>1, <1>7, <2>1 DEF Current, IInv
<1> QED BY <1>3, <1>4, <1>5, <1>6, <1>7

\* The scope's handle is there, or the program has stopped: V8 is asked again.
LEMMA AskAgainIInv ==
  ASSUME TypeOK, IInv, OnDebuggerMessage, NEW m, m = Head(msgs),
         OnScoped(m) \/ OnStopped(m)
  PROVE  IInv'
<1>0. PICK c, n :
        /\ n = Len(cmds) + 1
        /\ c = IF m.step = "scoped"
               THEN [do |-> "lookup", id |-> m.id, step |-> "looked", req |-> m.req]
               ELSE [do |-> "backtrace", id |-> 0, step |-> "paused", req |-> 0]
        /\ cmds' = Append(cmds, c)
  BY DEF OnScoped, OnStopped, Send
<1>1. /\ CmdsType /\ m \in MsgType(Len(requests)) /\ Len(requests) \in Nat
  BY TypeParts, FirstMessage DEF RequestsType
<1>2. UNCHANGED <<paused, shown, out, v8, handles, scope, looks, stops, requests>>
  BY DEF OnDebuggerMessage, OnScoped, OnStopped, clientVars, v8Vars
<1>3. /\ 1 \in DOMAIN msgs /\ msgs[1] = m
      /\ \A k \in DOMAIN msgs' : k \in Nat \ {0} /\ k + 1 \in DOMAIN msgs /\ k + 1 # 1
                                 /\ msgs'[k] = msgs[k + 1]
      /\ StepFits(m.req, m.step) /\ MsgAbout(m) /\ Waits(m.req)
      /\ m.req # 0 => m.req \in DOMAIN requests /\ requests[m.req].answer = "none"
      /\ \A j \in MsgMarks' : j + 1 \in MsgMarks
      /\ MsgMark(m) => MsgMarks = {1} /\ MsgMarks' = {}
  BY FirstMessage DEF Shrinks
<1>4. \/ /\ m.step = "scoped" /\ m.ok /\ m.req # 0
         /\ c.do = "lookup" /\ c.id = m.id /\ c.step = "looked" /\ c.req = m.req
      \/ /\ m.step = "stopped" /\ m.req = 0
         /\ c.do = "backtrace" /\ c.step = "paused" /\ c.req = 0
  BY <1>0, <1>3 DEF OnScoped, OnStopped, StepFits, StepOf
<1>5. Grows(cmds, cmds', c)
  <2>1. c \in CmdType(Len(requests))
    BY <1>0, <1>1 DEF CmdType, MsgType, Steps
  <2> QED BY <1>0, <1>1, <2>1, GrowsShrinks DEF CmdsType
<1>6. /\ DOMAIN cmds' = DOMAIN cmds \cup {n} /\ n \notin DOMAIN cmds /\ cmds'[n] = c
      /\ \A k \in DOMAIN cmds : cmds'[k] = cmds[k] /\ k < n /\ ~(n < k) /\ ~(n < n)
  BY <1>0, <1>5 DEF Grows
<1>7. /\ \A k \in DOMAIN msgs' :
           /\ msgs'[k].req # 0 =>
                msgs'[k].req \in DOMAIN requests /\ requests[msgs'[k].req].answer = "none"
           /\ StepFits(msgs'[k].req, msgs'[k].step) /\ MsgAbout(msgs'[k]) /\ Waits(msgs'[k].req)
           /\ msgs'[k].req # 0 => msgs'[k].req # msgs[1].req
      /\ \A j, k \in DOMAIN msgs' : msgs'[j].req = msgs'[k].req /\ msgs'[j].req # 0 => j = k
      /\ \A j, k \in MsgMarks' : j = k
      /\ \A j \in DOMAIN cmds, k \in DOMAIN msgs' :
           cmds[j].req = msgs'[k].req => cmds[j].req = 0
      /\ \A k \in DOMAIN msgs' :
           /\ Gives(msgs'[k]) # NoObject
           /\ v8 = "waiting"
           /\ \A j \in DOMAIN msgs' : msgs'[j].step = "stopped" => j <= k
           => Names(msgs'[k].id, Gives(msgs'[k]))
  BY <1>2, MessagesLeft
<1>8. OneStop' /\ OutMarks' = OutMarks
  <2>1. OutMarks' = OutMarks
    BY <1>2 DEF OutMarks
  <2>2. CASE m.step = "scoped"
    <3>1. CmdMarks' = CmdMarks
      BY <1>4, <1>6, <2>2 DEF CmdMarks, CmdMark
    <3> QED BY <1>2, <1>3, <1>7, <2>1, <3>1 DEF OneStop, IInv
  <2>3. CASE m.step = "stopped"
    <3>1. MsgMarks = {1} /\ MsgMarks' = {}
      BY <1>3, <2>3 DEF MsgMark
    <3>2. CmdMarks = {} /\ OutMarks = {} /\ ~paused /\ v8 = "waiting"
      BY <3>1 DEF OneStop, IInv
    <3>3. CmdMarks' = {n}
      BY <1>4, <1>6, <2>3, <3>2 DEF CmdMarks, CmdMark
    <3> QED BY <1>2, <2>1, <3>1, <3>2, <3>3 DEF OneStop, IInv
  <2> QED BY <1>4, <2>2, <2>3
<1>9. Underway'
  <2>1. \A k \in DOMAIN cmds : cmds[k].req # 0 => cmds[k].req # c.req
    BY <1>3, <1>4 DEF Underway, IInv
  <2>2. \A k \in DOMAIN msgs' : msgs'[k].req # 0 => msgs'[k].req # c.req
    BY <1>3, <1>4, <1>7
  <2> QED BY <1>2, <1>3, <1>4, <1>6, <1>7, <2>1, <2>2 DEF Underway, IInv
<1>10. Fits'
  BY <1>2, <1>3, <1>4, <1>6, <1>7 DEF Fits, StepFits, StepOf, DoFits, IInv
<1>11. About'
  <2>1. \A k \in DOMAIN cmds : (Given(cmds[k])' <=> Given(cmds[k])) /\ CmdAbout(cmds[k])'
                               /\ Waits(cmds[k].req)'
    BY <1>2, <1>6 DEF Given, Settled, CmdAbout, Names, Waits, About, IInv
  <2>2. paused => v8 = "waiting" /\ CmdMarks = {}
    BY DEF OneStop, IInv
  <2>3. c.do = "lookup" => requests[c.req].kind = "scope"
    BY <1>3, <1>4 DEF StepFits, StepOf
  <2>4. Given(c) => paused
    BY <1>3, <1>4, <2>3 DEF Given, Settled, Waits
  <2>5. CmdAbout(c)
    BY <1>3, <1>4, <2>2, <2>3, <2>4 DEF CmdAbout, Given, Settled, MsgAbout
  <2>6. CmdAbout(cmds[n])' /\ Waits(cmds[n].req)'
    <3>1. Waits(c.req)
      BY <1>3, <1>4 DEF Waits
    <3> QED BY <1>2, <1>6, <2>5, <3>1 DEF CmdAbout, Given, Settled, Names, Waits
  <2>7. \A k \in DOMAIN msgs' : MsgAbout(msgs[k])' /\ Waits(msgs[k].req)'
    BY <1>2, <1>7 DEF MsgAbout, Settled, Names, Waits
  <2>8. \A j, k \in DOMAIN cmds' : j < k /\ cmds'[j].do = "continue" => ~Given(cmds[k])'
    <3> SUFFICES ASSUME NEW j \in DOMAIN cmds', NEW k \in DOMAIN cmds', j < k,
                        cmds'[j].do = "continue"
                 PROVE  ~Given(cmds[k])'
      OBVIOUS
    <3>1. j \in DOMAIN cmds /\ cmds[j].do = "continue"
      BY <1>4, <1>6
    <3>2. CASE k \in DOMAIN cmds
      BY <2>1, <3>1, <3>2 DEF About, IInv
    <3>3. CASE k = n
      <4>1. ~Given(c)
        BY <2>2, <2>4, <3>1 DEF CmdMarks, CmdMark
      <4> QED BY <1>2, <1>6, <3>3, <4>1 DEF Given, Settled
    <3> QED BY <1>6, <3>2, <3>3
  <2> QED BY <1>6, <2>1, <2>6, <2>7, <2>8 DEF About
<1>12. Current'
  BY <1>2, <1>7, <1>8 DEF Current, Gives, Names, IInv
<1>13. AboutWhatWasShown' /\ NamesGiven'
  BY <1>2 DEF AboutWhatWasShown, NamesGiven, IInv
<1> QED BY <1>8, <1>9, <1>10, <1>11, <1>12, <1>13 DEF IInv

\* The front-end is told of the stop, or the response says nothing new.
LEMMA TellIInv ==
  ASSUME TypeOK, IInv, OnDebuggerMessage, NEW m, m = Head(msgs),
         OnPaused(m) \/ OnContinued(m)
  PROVE  IInv'
<1>1. /\ OutsType /\ m \in MsgType(Len(requests)) /\ Len(requests) \in Nat
  BY TypeParts, FirstMessage DEF RequestsType
<1>2. UNCHANGED <<paused, shown, cmds, v8, handles, scope, looks, stops, requests>>
  BY DEF OnDebuggerMessage, OnPaused, OnContinued, clientVars, v8Vars
<1>3. /\ 1 \in DOMAIN msgs /\ msgs[1] = m
      /\ \A j \in MsgMarks' : j + 1 \in MsgMarks
      /\ MsgMark(m) => MsgMarks = {1} /\ MsgMarks' = {}
  BY FirstMessage DEF Shrinks
<1>4. /\ \A k \in DOMAIN msgs' :
           /\ msgs'[k].req # 0 =>
                msgs'[k].req \in DOMAIN requests /\ requests[msgs'[k].req].answer = "none"
           /\ StepFits(msgs'[k].req, msgs'[k].step) /\ MsgAbout(msgs'[k]) /\ Waits(msgs'[k].req)
           /\ msgs'[k].req # 0 => msgs'[k].req # msgs[1].req
      /\ \A j, k \in DOMAIN msgs' : msgs'[j].req = msgs'[k].req /\ msgs'[j].req # 0 => j = k
      /\ \A j, k \in MsgMarks' : j = k
      /\ \A j \in DOMAIN cmds, k \in DOMAIN msgs' :
           cmds[j].req = msgs'[k].req => cmds[j].req = 0
      /\ \A k \in DOMAIN msgs' :
           /\ Gives(msgs'[k]) # NoObject
           /\ v8 = "waiting"
           /\ \A j \in DOMAIN msgs' : msgs'[j].step = "stopped" => j <= k
           => Names(msgs'[k].id, Gives(msgs'[k]))
  BY <1>2, MessagesLeft
<1>5. Underway'
  BY <1>2, <1>4 DEF Underway, IInv
<1>6. Fits'
  BY <1>2, <1>4 DEF Fits, StepFits, IInv
<1>7. About'
  <2>1. \A k \in DOMAIN cmds : (Given(cmds[k])' <=> Given(cmds[k])) /\ CmdAbout(cmds[k])'
                               /\ Waits(cmds[k].req)'
    BY <1>2 DEF Given, Settled, CmdAbout, Names, Waits, About, IInv
  <2>2. \A k \in DOMAIN msgs' : MsgAbout(msgs[k])' /\ Waits(msgs[k].req)'
    BY <1>2, <1>4 DEF MsgAbout, Settled, Names, Waits
  <2> QED BY <1>2, <2>1, <2>2 DEF About, IInv
<1>8. AboutWhatWasShown' /\ NamesGiven'
  BY <1>2 DEF AboutWhatWasShown, NamesGiven, IInv
<1>9. CmdMarks' = CmdMarks
  BY <1>2 DEF CmdMarks
<1>10. CASE OnContinued(m)
  <2>1. out' = out /\ OutMarks' = OutMarks
    BY <1>10 DEF OnContinued, OutMarks
  <2>2. OneStop'
    BY <1>2, <1>3, <1>4, <1>9, <2>1 DEF OneStop, IInv
  <2>3. Current'
    BY <1>2, <1>4, <2>1 DEF Current, Gives, Names, IInv
  <2> QED BY <1>5, <1>6, <1>7, <1>8, <2>2, <2>3 DEF IInv
<1>11. CASE OnPaused(m)
  <2>0. PICK o, n :
          /\ n = Len(out) + 1
          /\ o = [what |-> "paused", req |-> 0, id |-> m.id, object |-> m.object]
          /\ out' = Append(out, o)
    BY <1>11 DEF OnPaused
  <2>1. o.what = "paused" /\ o.id = m.id /\ o.object = m.object /\ m.step = "paused"
    BY <1>11, <2>0 DEF OnPaused
  <2>2. /\ DOMAIN out' = DOMAIN out \cup {n} /\ out'[n] = o /\ n \notin DOMAIN out
        /\ \A k \in DOMAIN out : out'[k] = out[k] /\ ~(n <= k)
    <3>1. o \in OutType(Len(requests))
      BY <1>1, <2>0 DEF OutType, MsgType
    <3>2. Grows(out, out', o)
      BY <1>1, <2>0, <3>1, GrowsShrinks DEF OutsType
    <3> QED BY <2>0, <3>2 DEF Grows
  <2>3. MsgMarks = {1} /\ MsgMarks' = {}
    BY <1>3, <2>1 DEF MsgMark
  <2>4. CmdMarks = {} /\ OutMarks = {} /\ ~paused /\ v8 = "waiting"
    BY <2>3 DEF OneStop, IInv
  <2>5. OutMarks' = {n}
    BY <2>1, <2>2, <2>4 DEF OutMarks, OutMark
  <2>6. OneStop'
    BY <1>2, <1>9, <2>3, <2>4, <2>5 DEF OneStop, IInv
  <2>7. m.object # NoObject => Names(m.id, m.object)
    BY <2>1, FirstMessage DEF Gives
  <2>8. Current'
    BY <1>2, <1>4, <2>1, <2>2, <2>4, <2>5, <2>7 DEF Current, Gives, Names, IInv
  <2> QED BY <1>5, <1>6, <1>7, <1>8, <2>6, <2>8 DEF IInv
<1> QED BY <1>10, <1>11

\* Every callback keeps it.
LEMMA CallbackIInv == TypeOK /\ IInv /\ OnDebuggerMessage => IInv'
<1> SUFFICES ASSUME TypeOK, IInv, OnDebuggerMessage PROVE IInv'
  OBVIOUS
<1>0. PICK m : m = Head(msgs)
  OBVIOUS
<1>1. /\ m \in MsgType(Len(requests))
      /\ StepFits(m.req, m.step) /\ MsgAbout(m)
  BY <1>0, FirstMessage
<1>2. /\ m.object \in Anything /\ m.value \in Anything /\ NoObject \in Anything /\ m.id \in Nat
      /\ 0 \in Nat
  BY <1>1 DEF MsgType, Anything
<1>3. looks \in Looks
  BY TypeParts DEF RestType
<1>4. CASE OnEvaluated(m)
  <2>1. requests[m.req].kind = "evaluate"
    BY <1>1, <1>4 DEF OnEvaluated, StepFits, StepOf
  <2>2. Answer(m.req, "ok", m.object, <<>>, m.id, m.object) /\ UNCHANGED cmds
        /\ m.step = "evaluated" /\ Gives(m) = m.object
    BY <1>4 DEF OnEvaluated, Gives
  <2> QED BY <1>0, <1>2, <2>1, <2>2, NamesType, AnswerIInv
<1>5. CASE OnLooked(m)
  <2>1. requests[m.req].kind \in {"object", "scope"}
    BY <1>1, <1>5 DEF OnLooked, StepFits, StepOf
  <2>2. /\ Answer(m.req, "ok", m.object, PropertiesOf(looks, requests[m.req].options),
                  m.id, m.value)
        /\ UNCHANGED cmds /\ m.step = "looked" /\ Gives(m) = m.value
    BY <1>5 DEF OnLooked, Gives
  <2>3. PropertiesOf(looks, requests[m.req].options) \in Seq({"p", "__proto__"})
    BY <1>3, NamesType
  <2>4. Settled(requests[m.req]) => m.object = requests[m.req].means
    BY <1>1, <2>2 DEF MsgAbout
  <2> QED BY <1>0, <1>2, <2>1, <2>2, <2>3, <2>4, AnswerIInv
<1>6. CASE OnUsed(m)
  <2>1. requests[m.req].kind = "use"
    BY <1>1, <1>6 DEF OnUsed, StepFits, StepOf
  <2>2. Answer(m.req, "ok", m.object, <<>>, 0, NoObject) /\ UNCHANGED cmds
        /\ m.step \in {"called", "set"} /\ m.ok
    BY <1>6 DEF OnUsed
  <2>3. m.object = requests[m.req].means
    BY <1>1, <2>2 DEF MsgAbout
  <2> QED BY <1>0, <1>2, <2>1, <2>2, <2>3, NamesType, AnswerIInv
<1>7. CASE OnRefused(m)
  <2>1. PICK result \in {"thrown", "error"} :
          Answer(m.req, result, NoObject, <<>>, 0, NoObject)
    BY <1>7 DEF OnRefused
  <2>2. UNCHANGED cmds /\ m.step \notin {"stopped", "paused", "continued"} /\ ~m.ok
    BY <1>7 DEF OnRefused
  <2>3. requests[m.req].kind \in {"object", "scope"} => ~Settled(requests[m.req])
    BY <1>1, <2>2 DEF MsgAbout, StepFits, StepOf
  <2> QED BY <1>0, <1>2, <2>1, <2>2, <2>3, NamesType, AnswerIInv
<1> QED BY <1>0, <1>4, <1>5, <1>6, <1>7, AskAgainIInv, TellIInv DEF OnDebuggerMessage

------------------------------------------------------------------------------
(* The front-end and V8 keep it.                                             *)

\* The front-end reads: what it takes up behind the news of a stop is of that
\* stop.
LEMMA ReadIInv ==
  ASSUME TypeOK, IInv, Read
  PROVE  IInv'
<1>0. PICK o : o = Head(out)
  OBVIOUS
<1>1. OutsType /\ out # <<>> /\ out' = Tail(out)
      /\ UNCHANGED <<cmds, msgs, v8, handles, scope, looks, stops, requests>>
  BY TypeParts DEF Read, v8Vars
<1>2. /\ 1 \in DOMAIN out /\ out[1] = o
      /\ \A k \in DOMAIN out' : k \in Nat \ {0} /\ k + 1 \in DOMAIN out /\ k + 1 # 1
                                /\ out'[k] = out[k + 1]
      /\ \A k \in DOMAIN out : k # 1 => k \in Nat /\ k > 1 /\ k - 1 \in DOMAIN out'
  BY <1>0, <1>1, GrowsShrinks DEF OutsType, Shrinks
<1>3. \/ /\ o.what = "paused" /\ paused' = TRUE
         /\ \A x \in shown' : o.object # NoObject /\ x = <<o.id, o.object>>
      \/ /\ o.what = "answer" /\ paused' = paused
         /\ \A x \in shown' : \/ x \in shown
                              \/ paused /\ o.object # NoObject /\ x = <<o.id, o.object>>
  BY <1>0 DEF Read
<1>4. \A j \in OutMarks' : j + 1 \in OutMarks /\ j \in Nat
  BY <1>2 DEF OutMarks, OutMark
<1>5. o.what = "paused" =>
        OutMarks = {1} /\ OutMarks' = {} /\ CmdMarks = {} /\ MsgMarks = {} /\ v8 = "waiting"
  <2> SUFFICES ASSUME o.what = "paused"
               PROVE  OutMarks = {1} /\ OutMarks' = {} /\ CmdMarks = {} /\ MsgMarks = {}
                      /\ v8 = "waiting"
    OBVIOUS
  <2>1. 1 \in OutMarks
    BY <1>2 DEF OutMarks, OutMark
  <2>2. OutMarks = {1}
    BY <2>1 DEF OneStop, IInv
  <2>3. \A j \in OutMarks' : j \in DOMAIN out' /\ j + 1 \in OutMarks
    BY <1>4 DEF OutMarks
  <2>4. \A j \in OutMarks' : j \in Nat \ {0} /\ j + 1 = 1
    BY <1>2, <2>2, <2>3
  <2>5. OutMarks' = {}
    BY <2>4
  <2> QED BY <2>2, <2>5 DEF OneStop, IInv
<1>6. OneStop'
  <2>1. CmdMarks' = CmdMarks /\ MsgMarks' = MsgMarks
    BY <1>1 DEF CmdMarks, MsgMarks
  <2> QED BY <1>1, <1>3, <1>4, <1>5, <2>1 DEF OneStop, IInv
<1>7. Underway' /\ Fits' /\ AboutWhatWasShown' /\ NamesGiven'
  BY <1>1 DEF Underway, Fits, StepFits, AboutWhatWasShown, NamesGiven, IInv
<1>8. paused => paused'
  BY <1>3
<1>9. About'
  <2>1. \A k \in DOMAIN cmds : (Given(cmds[k])' <=> Given(cmds[k])) /\ CmdAbout(cmds[k])'
                               /\ Waits(cmds[k].req)'
    BY <1>1, <1>8 DEF Given, Settled, CmdAbout, Names, Waits, About, IInv
  <2>2. \A k \in DOMAIN msgs : MsgAbout(msgs[k])' /\ Waits(msgs[k].req)'
    BY <1>1, <1>8 DEF MsgAbout, Settled, Names, Waits, About, IInv
  <2> QED BY <1>1, <2>1, <2>2 DEF About, IInv
<1>10. Current'
  <2>1. ASSUME NEW x \in shown' PROVE paused' /\ Names(x[1], x[2])
    <3>1. CASE x \in shown
      BY <1>8, <3>1 DEF Current, IInv
    <3>2. CASE x \notin shown
      <4>1. o.object # NoObject /\ x[1] = o.id /\ x[2] = o.object
            /\ (o.what = "paused" \/ paused) /\ paused'
        BY <1>3, <2>1, <3>2
      <4>2. o.what = "paused" => 1 \in OutMarks
        BY <1>5
      <4> QED BY <1>2, <4>1, <4>2 DEF Current, IInv
    <3> QED BY <3>1, <3>2
  <2>2. ASSUME NEW k \in DOMAIN out', out'[k].object # NoObject,
               paused' \/ \E j \in OutMarks' : j <= k
        PROVE  Names(out'[k].id, out'[k].object)
    <3>1. paused \/ \E j \in OutMarks : j <= k + 1
      <4>1. CASE o.what = "paused"
        BY <1>2, <1>5, <4>1
      <4>2. CASE o.what # "paused"
        BY <1>2, <1>3, <1>4, <2>2, <4>2
      <4> QED BY <4>1, <4>2
    <3> QED BY <1>2, <2>2, <3>1 DEF Current, IInv
  <2>3. \A k \in DOMAIN msgs :
          /\ Gives(msgs[k]) # NoObject
          /\ v8 = "waiting"
          /\ \A j \in DOMAIN msgs : msgs[j].step = "stopped" => j <= k
          => Names(msgs[k].id, Gives(msgs[k]))
    BY DEF Current, IInv
  <2> QED BY <1>1, <2>1, <2>2, <2>3 DEF Current, Gives, Names
<1> QED BY <1>6, <1>7, <1>9, <1>10 DEF IInv

\* V8 serves a command: the numbers that are known stay with their objects.
LEMMA ServeIInv ==
  ASSUME TypeOK, IInv, ServeCommand
  PROVE  IInv'
<1>a. PICK m \in MsgType(Len(requests)) : msgs' = Append(msgs, m) /\ Outcome(Head(cmds), m)
  BY Served
<1>b. PICK c, n : c = Head(cmds) /\ n = Len(msgs) + 1
  OBVIOUS
<1>0. /\ c = Head(cmds) /\ n = Len(msgs) + 1
      /\ msgs' = Append(msgs, m) /\ Outcome(c, m)
  BY <1>a, <1>b
<1>1. /\ CmdsType /\ MsgsType /\ cmds # <<>> /\ cmds' = Tail(cmds)
      /\ UNCHANGED <<paused, shown, out, looks, stops, requests>>
  BY TypeParts, Served
<1>2. /\ 1 \in DOMAIN cmds /\ cmds[1] = c
      /\ \A k \in DOMAIN cmds' : k \in Nat \ {0} /\ k + 1 \in DOMAIN cmds /\ k + 1 # 1
                                 /\ 1 < k + 1 /\ cmds'[k] = cmds[k + 1]
      /\ \A j, k \in DOMAIN cmds' : (j < k => j + 1 < k + 1) /\ (j + 1 = k + 1 => j = k)
  <2>1. Shrinks(cmds, cmds', c)
    BY <1>0, <1>1, GrowsShrinks DEF CmdsType
  <2> QED BY <2>1 DEF Shrinks
<1>3. /\ DOMAIN msgs' = DOMAIN msgs \cup {n} /\ n \notin DOMAIN msgs /\ msgs'[n] = m
      /\ \A k \in DOMAIN msgs : msgs'[k] = msgs[k]
  <2>1. Grows(msgs, msgs', m)
    BY <1>0, <1>1, GrowsShrinks DEF MsgsType
  <2> QED BY <1>0, <2>1 DEF Grows
<1>4. /\ m.step = c.step /\ m.req = c.req
      /\ \A k \in DOMAIN handles : k \in DOMAIN handles' /\ handles'[k] = handles[k]
      /\ v8' = "waiting" => v8 = "waiting"
      /\ v8' = (IF c.do = "continue" THEN "serving" ELSE v8)
      /\ c.do # "continue" => scope' = scope
  BY <1>0 DEF Outcome
<1>5. \A id, object : Names(id, object) => id \in DOMAIN handles' /\ handles'[id] = object
  BY <1>4 DEF Names
<1>6. StepFits(c.req, c.step) /\ DoFits(c.do, c.step) /\ CmdAbout(c) /\ Waits(c.req)
      /\ (c.req # 0 => c.req \in DOMAIN requests /\ requests[c.req].answer = "none")
  BY <1>2 DEF IInv, Fits, About, Underway
<1>7. \A j \in CmdMarks' : j + 1 \in CmdMarks /\ j + 1 # 1
  BY <1>2 DEF CmdMarks, CmdMark
<1>8. CmdMark(c) => CmdMarks = {1} /\ CmdMarks' = {} /\ MsgMarks = {} /\ OutMarks = {} /\ ~paused
                    /\ v8 = "waiting"
  <2> SUFFICES ASSUME CmdMark(c)
               PROVE  CmdMarks = {1} /\ CmdMarks' = {} /\ MsgMarks = {} /\ OutMarks = {} /\ ~paused
                      /\ v8 = "waiting"
    OBVIOUS
  <2>1. 1 \in CmdMarks
    BY <1>2 DEF CmdMarks
  <2>2. CmdMarks = {1}
    BY <2>1 DEF OneStop, IInv
  <2>3. CmdMarks' = {}
    BY <1>7, <2>2
  <2> QED BY <2>1, <2>2, <2>3 DEF OneStop, IInv
<1>9. OneStop'
  <2>1. OutMarks' = OutMarks
    BY <1>1 DEF OutMarks
  <2>2. CASE c.do = "backtrace"
    <3>1. m.step = "paused" /\ CmdMark(c)
      BY <1>4, <1>6, <2>2 DEF DoFits, CmdMark
    <3>2. MsgMarks' = {n}
      BY <1>3, <1>8, <3>1 DEF MsgMarks, MsgMark
    <3> QED BY <1>1, <1>4, <1>8, <2>1, <2>2, <3>1, <3>2 DEF OneStop, IInv
  <2>3. CASE c.do = "continue"
    <3>1. m.step = "continued" /\ CmdMark(c)
      BY <1>4, <1>6, <2>3 DEF DoFits, CmdMark
    <3>2. MsgMarks' = {}
      BY <1>3, <1>8, <3>1 DEF MsgMarks, MsgMark
    <3> QED BY <1>1, <1>4, <1>8, <2>1, <2>3, <3>1, <3>2 DEF OneStop
  <2>4. CASE ~CmdMark(c)
    <3>1. m.step \notin {"stopped", "paused"} /\ c.do # "continue"
      BY <1>4, <1>6, <2>4 DEF DoFits, CmdMark
    <3>2. MsgMarks' = MsgMarks
      BY <1>3, <3>1 DEF MsgMarks, MsgMark
    <3>3. \A j, k \in CmdMarks' : j = k
      <4>1. \A j \in CmdMarks' : j \in Nat
        BY <1>2 DEF CmdMarks
      <4> QED BY <1>7, <4>1 DEF OneStop, IInv
    <3>4. CmdMarks' # {} => CmdMarks # {}
      BY <1>7
    <3> QED BY <1>1, <1>4, <2>1, <3>1, <3>2, <3>3, <3>4 DEF OneStop, IInv
  <2> QED BY <2>2, <2>3, <2>4 DEF CmdMark
<1>10. Underway'
  <2>1. \A k \in DOMAIN msgs : msgs[k].req # 0 => msgs[k].req # m.req
    BY <1>2, <1>4 DEF Underway, IInv
  <2>2. \A k \in DOMAIN cmds' : cmds'[k].req # 0 => cmds'[k].req # m.req
    BY <1>2, <1>4 DEF Underway, IInv
  <2>3. \A j, k \in DOMAIN cmds' : cmds'[j].req = cmds'[k].req /\ cmds'[j].req # 0 => j = k
    BY <1>2 DEF Underway, IInv
  <2>4. \A j, k \in DOMAIN msgs' : msgs'[j].req = msgs'[k].req /\ msgs'[j].req # 0 => j = k
    BY <1>3, <2>1 DEF Underway, IInv
  <2>5. \A j \in DOMAIN cmds', k \in DOMAIN msgs' : cmds'[j].req = msgs'[k].req => cmds'[j].req = 0
    BY <1>2, <1>3, <2>2 DEF Underway, IInv
  <2> QED BY <1>1, <1>2, <1>3, <1>4, <1>6, <2>3, <2>4, <2>5 DEF Underway, IInv
<1>11. Fits'
  BY <1>1, <1>2, <1>3, <1>4, <1>6 DEF Fits, StepFits, IInv
<1>12. About'
  <2>1. \A k \in DOMAIN cmds' : (Given(cmds[k])' <=> Given(cmds[k + 1])) /\ Waits(cmds[k].req)'
    BY <1>1, <1>2 DEF Given, Settled, Waits, About, IInv
  <2>2. \A k \in DOMAIN cmds' : CmdAbout(cmds[k])'
    <3> SUFFICES ASSUME NEW k \in DOMAIN cmds', Given(cmds[k + 1])
                 PROVE  CmdAbout(cmds[k])'
      BY <2>1 DEF CmdAbout
    <3>1. c.do # "continue"
      BY <1>2 DEF About, IInv
    <3>2. CmdAbout(cmds[k + 1])
      BY <1>2 DEF About, IInv
    <3> QED BY <1>1, <1>2, <1>4, <1>5, <2>1, <3>1, <3>2 DEF CmdAbout, Names
  <2>3. \A j, k \in DOMAIN cmds' : j < k /\ cmds'[j].do = "continue" => ~Given(cmds[k])'
    BY <1>2, <2>1 DEF About, IInv
  <2>4. \A k \in DOMAIN msgs : MsgAbout(msgs[k])' /\ Waits(msgs[k].req)'
    BY <1>1, <1>3, <1>5 DEF MsgAbout, Settled, Names, Waits, About, IInv
  <2>5. Waits(msgs[n].req)'
    BY <1>1, <1>3, <1>4, <1>6 DEF Waits
  <2>6. MsgAbout(msgs[n])'
    <3>1. m.step = "scoped" =>
            m.ok /\ m.object = requests[m.req].means
            /\ m.id \in DOMAIN handles' /\ handles'[m.id] = requests[m.req].means
      <4> SUFFICES ASSUME m.step = "scoped"
                   PROVE  m.ok /\ m.object = requests[m.req].means
                          /\ m.id \in DOMAIN handles' /\ handles'[m.id] = requests[m.req].means
        OBVIOUS
      <4>1. c.do = "scope" /\ Given(c)
        BY <1>4, <1>6 DEF DoFits, Given
      <4>2. v8 = "waiting" /\ requests[c.req].means = scope
        BY <1>6, <4>1 DEF CmdAbout
      <4>3. scope # NoObject
        BY <4>2 DEF OneStop, IInv
      <4> QED BY <1>0, <1>4, <4>1, <4>2, <4>3 DEF Outcome
    <3>2. m.step = "looked" /\ Settled(requests[m.req]) =>
            m.ok /\ m.object = requests[m.req].means
      <4> SUFFICES ASSUME m.step = "looked", Settled(requests[m.req])
                   PROVE  m.ok /\ m.object = requests[m.req].means
        OBVIOUS
      <4>1. c.do = "lookup" /\ Given(c)
        BY <1>4, <1>6 DEF DoFits, Given
      <4>2. Names(c.id, requests[c.req].means)
        BY <1>6, <4>1 DEF CmdAbout
      <4> QED BY <1>0, <1>4, <4>1, <4>2 DEF Outcome, Names
    <3>3. m.step \in {"called", "set"} /\ m.ok => m.object = requests[m.req].means
      <4> SUFFICES ASSUME m.step \in {"called", "set"}, m.ok
                   PROVE  m.object = requests[m.req].means
        OBVIOUS
      <4>1. c.do = "use" /\ requests[c.req].kind = "use"
        BY <1>4, <1>6 DEF DoFits, StepFits, StepOf
      <4>2. Given(c)
        BY <4>1 DEF Given, Settled
      <4>3. Names(c.id, requests[c.req].means)
        BY <1>6, <4>1, <4>2 DEF CmdAbout
      <4> QED BY <1>0, <1>4, <4>1, <4>3 DEF Outcome, Names
    <3> QED BY <1>1, <1>3, <3>1, <3>2, <3>3 DEF MsgAbout, Settled, Names
  <2> QED BY <1>2, <1>3, <2>1, <2>2, <2>3, <2>4, <2>5, <2>6 DEF About
<1>13. Current'
  <2>1. OutMarks' = OutMarks
    BY <1>1 DEF OutMarks
  <2>2. \A x \in shown : paused /\ x[1] \in DOMAIN handles' /\ handles'[x[1]] = x[2]
    BY <1>5 DEF Current, IInv
  <2>3. \A k \in DOMAIN out :
          /\ out[k].object # NoObject
          /\ paused \/ \E j \in OutMarks : j <= k
          => out[k].id \in DOMAIN handles' /\ handles'[out[k].id] = out[k].object
    BY <1>5 DEF Current, IInv
  <2>4. ASSUME NEW k \in DOMAIN msgs, Gives(msgs[k]) # NoObject, v8' = "waiting",
               \A j \in DOMAIN msgs' : msgs'[j].step = "stopped" => j <= k
        PROVE  msgs[k].id \in DOMAIN handles' /\ handles'[msgs[k].id] = Gives(msgs[k])
    <3>1. \A j \in DOMAIN msgs : msgs[j].step = "stopped" => j <= k
      BY <1>3, <2>4
    <3> QED BY <1>4, <1>5, <2>4, <3>1 DEF Current, IInv
  <2>5. Gives(m) # NoObject => m.id \in DOMAIN handles' /\ handles'[m.id] = Gives(m)
    <3>1. m.step = "looked" /\ m.value # NoObject =>
            m.id \in DOMAIN handles' /\ handles'[m.id] = m.value
      BY <1>0, <1>4, <1>6 DEF Outcome, DoFits
    <3>2. m.step \in {"evaluated", "paused"} /\ m.object # NoObject =>
            m.id \in DOMAIN handles' /\ handles'[m.id] = m.object
      BY <1>0, <1>4, <1>6 DEF Outcome, DoFits
    <3> QED BY <3>1, <3>2 DEF Gives
  <2>6. \A k \in DOMAIN msgs' :
          /\ Gives(msgs'[k]) # NoObject
          /\ v8' = "waiting"
          /\ \A j \in DOMAIN msgs' : msgs'[j].step = "stopped" => j <= k
          => msgs'[k].id \in DOMAIN handles' /\ handles'[msgs'[k].id] = Gives(msgs'[k])
    BY <1>3, <2>4, <2>5
  <2> QED BY <1>1, <2>1, <2>2, <2>3, <2>6 DEF Current, Gives, Names
<1>14. AboutWhatWasShown' /\ NamesGiven'
  BY <1>1 DEF AboutWhatWasShown, NamesGiven, IInv
<1> QED BY <1>9, <1>10, <1>11, <1>12, <1>13, <1>14 DEF IInv

\* Numbers are given anew only while nothing that names one is on its way.
LEMMA AnewIInv ==
  ASSUME TypeOK, IInv, EnterDebugger \/ LeaveDebugger \/ Stop
  PROVE  IInv'
<1>1. UNCHANGED <<paused, shown, out, cmds, looks, requests>> /\ v8 # "waiting"
  BY DEF EnterDebugger, LeaveDebugger, Stop, clientVars
<1>2. CmdMarks = {} /\ MsgMarks = {} /\ OutMarks = {} /\ ~paused
  BY <1>1 DEF OneStop, IInv
<1>3. /\ \A k \in DOMAIN cmds : ~Given(cmds[k])
      /\ \A k \in DOMAIN msgs : msgs[k].step = "scoped" => requests[msgs[k].req].hurried
      /\ shown = {}
  <2>1. \A k \in DOMAIN cmds : ~Given(cmds[k])
    BY <1>1 DEF About, CmdAbout, IInv
  <2>2. ASSUME NEW k \in DOMAIN msgs, msgs[k].step = "scoped"
        PROVE  requests[msgs[k].req].hurried
    <3>1. msgs[k].req # 0 /\ requests[msgs[k].req].kind = "scope" /\ Waits(msgs[k].req)
      BY <2>2 DEF Fits, StepFits, StepOf, About, IInv
    <3> QED BY <1>2, <3>1 DEF Waits
  <2>3. shown = {}
    BY <1>2 DEF Current, IInv
  <2> QED BY <2>1, <2>2, <2>3
<1>4. CmdMarks' = {} /\ OutMarks' = {}
  BY <1>1, <1>2 DEF CmdMarks, OutMarks
<1>5. AboutWhatWasShown' /\ NamesGiven'
  BY <1>1 DEF AboutWhatWasShown, NamesGiven, IInv
<1>6. \A k \in DOMAIN cmds : ~Given(cmds[k])' /\ Waits(cmds[k].req)'
  BY <1>1, <1>3 DEF Given, Settled, Waits, About, IInv
<1>7. CASE EnterDebugger \/ LeaveDebugger
  <2>1. msgs' = msgs /\ v8' # "waiting"
    BY <1>7 DEF EnterDebugger, LeaveDebugger
  <2>2. OneStop'
    <3>1. MsgMarks' = {}
      BY <1>2, <2>1 DEF MsgMarks
    <3> QED BY <1>1, <1>2, <1>4, <2>1, <3>1 DEF OneStop
  <2>3. Underway' /\ Fits'
    BY <1>1, <2>1 DEF Underway, Fits, StepFits, IInv
  <2>4. About'
    <3>1. \A k \in DOMAIN msgs : MsgAbout(msgs[k])' /\ Waits(msgs[k].req)'
      BY <1>1, <1>3, <2>1 DEF MsgAbout, Settled, Waits, About, IInv
    <3> QED BY <1>1, <1>6, <2>1, <3>1 DEF About, CmdAbout
  <2>5. Current'
    BY <1>1, <1>2, <1>3, <1>4, <2>1 DEF Current
  <2> QED BY <1>5, <2>2, <2>3, <2>4, <2>5 DEF IInv
<1>8. CASE Stop
  <2>0. PICK m, n :
          /\ n = Len(msgs) + 1 /\ msgs' = Append(msgs, m)
          /\ m = [step |-> "stopped", req |-> 0, ok |-> TRUE, id |-> 0,
                  object |-> NoObject, value |-> NoObject]
    BY <1>8 DEF Stop
  <2>1. m.step = "stopped" /\ m.req = 0 /\ m.object = NoObject
    BY <2>0
  <2>2. v8' = "waiting" /\ scope' # NoObject
    BY <1>8, ObjectsAssumption DEF Stop
  <2>3. /\ DOMAIN msgs' = DOMAIN msgs \cup {n} /\ n \notin DOMAIN msgs /\ msgs'[n] = m
        /\ \A k \in DOMAIN msgs : msgs'[k] = msgs[k] /\ ~(n <= k)
    <3>1. Len(requests) \in Nat /\ MsgsType
      BY TypeParts DEF RequestsType
    <3>2. m \in MsgType(Len(requests))
      BY <2>0, <3>1 DEF MsgType, Steps, Anything
    <3>3. Grows(msgs, msgs', m)
      BY <2>0, <3>1, <3>2, GrowsShrinks DEF MsgsType
    <3> QED BY <2>0, <3>3 DEF Grows
  <2>4. OneStop'
    <3>1. MsgMarks' = {n}
      BY <1>2, <2>1, <2>3 DEF MsgMarks, MsgMark
    <3> QED BY <1>1, <1>2, <1>4, <2>2, <3>1 DEF OneStop
  <2>5. Underway' /\ Fits'
    BY <1>1, <2>1, <2>3 DEF Underway, Fits, StepFits, IInv
  <2>6. About'
    <3>1. \A k \in DOMAIN msgs : MsgAbout(msgs[k])' /\ Waits(msgs[k].req)'
      BY <1>1, <1>3, <2>3 DEF MsgAbout, Settled, Waits, About, IInv
    <3>2. MsgAbout(msgs[n])' /\ Waits(msgs[n].req)'
      BY <2>1, <2>3 DEF MsgAbout, Waits
    <3> QED BY <1>1, <1>6, <2>3, <3>1, <3>2 DEF About, CmdAbout
  <2>7. Current'
    <3>1. \A k \in DOMAIN msgs' :
            Gives(msgs'[k]) # NoObject =>
              \E j \in DOMAIN msgs' : msgs'[j].step = "stopped" /\ ~(j <= k)
      BY <2>1, <2>3 DEF Gives
    <3> QED BY <1>1, <1>2, <1>3, <1>4, <3>1 DEF Current, Gives
  <2> QED BY <1>5, <2>4, <2>5, <2>6, <2>7 DEF IInv
<1> QED BY <1>7, <1>8

\* IInv is inductive.
LEMMA NextIInv == TypeOK /\ IInv /\ [Next]_vars => IInv'
<1> SUFFICES ASSUME TypeOK, IInv, [Next]_vars PROVE IInv'
  OBVIOUS
<1>1. CASE UNCHANGED vars
  <2>1. UNCHANGED <<paused, shown, out, cmds, msgs, v8, handles, scope, looks, stops, requests>>
    BY <1>1 DEF vars, clientVars, v8Vars
  <2> QED BY <2>1 DEF IInv, OneStop, CmdMarks, MsgMarks, OutMarks, Underway, Fits, StepFits,
          About, CmdAbout, MsgAbout, Given, Settled, Waits, Names, Current, Gives,
          AboutWhatWasShown, NamesGiven
<1> QED BY <1>1, MethodIInv, CallbackIInv, ReadIInv, ServeIInv, AnewIInv DEF Next, V8

\* Where everything is that is on its way, and what it is about.
THEOREM IInvAlways == Spec => []IInv
<1>1. Init => IInv
  BY InitIInv
<1>2. TypeOK /\ IInv /\ [Next]_vars => IInv'
  BY NextIInv
<1> QED BY <1>1, <1>2, TypeCorrect, PTL DEF Spec

------------------------------------------------------------------------------
(* What follows.                                                             *)

\* Whatever V8 renumbers and however front-end, agent and V8 overtake each
\* other: an answer about an object that the front-end was shown in this pause
\* is about that very object, and such an object can always be asked for
\* (runtime-agent.js getProperties, callFunctionOn; debugger-agent.js
\* setVariableValue).
THEOREM AboutWhatWasShownAlways == Spec => []AboutWhatWasShown
<1>1. IInv => AboutWhatWasShown
  BY DEF IInv
<1> QED BY <1>1, IInvAlways, PTL

\* The requests for own properties and for accessors of an object together
\* list each of its properties, and its prototype, exactly once
\* (convert.v8ObjectToDevToolsProperties).
THEOREM EachPropertyOnceAlways == Spec => []EachPropertyOnce
<1>1. TypeOK /\ IInv => EachPropertyOnce
  <2> SUFFICES ASSUME RestType, NamesGiven PROVE EachPropertyOnce
    BY TypeParts DEF IInv
  <2> DEFINE all == PropertiesOf(looks, ForOwn) \o PropertiesOf(looks, ForAccessors)
  <2>1. /\ looks.own \in {<<>>, <<"p">>, <<"p", "__proto__">>} /\ looks.proto \in BOOLEAN
    BY DEF RestType, Looks
  <2>2. IsInjective(all)
        /\ ToSet(all) = ToSet(looks.own) \cup (IF looks.proto THEN {"__proto__"} ELSE {})
    <3>1. PropertiesOf(looks, ForAccessors) = <<>>
      BY DEF PropertiesOf, ForAccessors
    <3>2. /\ ToSet(<<>>) = {} /\ ToSet(<<"p">>) = {"p"} /\ ToSet(<<"__proto__">>) = {"__proto__"}
          /\ ToSet(<<"p", "__proto__">>) = {"p", "__proto__"}
      BY DEF ToSet
    <3>3. PropertiesOf(looks, ForOwn) =
            looks.own \o (IF looks.proto /\ "__proto__" \notin ToSet(looks.own)
                          THEN <<"__proto__">> ELSE <<>>)
      BY DEF PropertiesOf, ForOwn
    <3>4. /\ <<>> \o <<"__proto__">> = <<"__proto__">> /\ <<>> \o <<>> = <<>>
          /\ <<"p">> \o <<"__proto__">> = <<"p", "__proto__">> /\ <<"p">> \o <<>> = <<"p">>
          /\ <<"p", "__proto__">> \o <<>> = <<"p", "__proto__">>
          /\ <<"__proto__">> \o <<>> = <<"__proto__">>
      <4>1. \A s \in Seq({"p", "__proto__"}) : s \o <<>> = s /\ <<>> \o s = s
        BY ConcatEmptySeq
      <4>2. /\ <<>> \in Seq({"p", "__proto__"}) /\ <<"p">> \in Seq({"p", "__proto__"})
            /\ <<"__proto__">> \in Seq({"p", "__proto__"})
            /\ <<"p", "__proto__">> \in Seq({"p", "__proto__"})
        OBVIOUS
      <4>3. <<"p">> \o <<"__proto__">> = <<"p", "__proto__">>
        BY JoinedPair
      <4> QED BY <4>1, <4>2, <4>3
    <3>5. /\ IsInjective(<<>>) /\ IsInjective(<<"p">>) /\ IsInjective(<<"__proto__">>)
          /\ IsInjective(<<"p", "__proto__">>)
      BY DEF IsInjective
    <3>6. CASE looks.own = <<>>
      BY <2>1, <3>1, <3>2, <3>3, <3>4, <3>5, <3>6
    <3>7. CASE looks.own = <<"p">>
      BY <2>1, <3>1, <3>2, <3>3, <3>4, <3>5, <3>7
    <3>8. CASE looks.own = <<"p", "__proto__">>
      BY <2>1, <3>1, <3>2, <3>3, <3>4, <3>5, <3>8
    <3> QED BY <2>1, <3>6, <3>7, <3>8
  <2> HIDE DEF all
  <2>3. ASSUME NEW r \in DOMAIN requests, NEW s \in DOMAIN requests,
               requests[r].kind = "object", requests[s].kind = "object",
               requests[r].answer = "ok", requests[s].answer = "ok",
               requests[r].options = ForOwn, requests[s].options = ForAccessors
        PROVE  requests[r].names \o requests[s].names = all
    BY <2>3 DEF NamesGiven, all
  <2> QED BY <2>2, <2>3 DEF EachPropertyOnce
<1> QED BY <1>1, TypeCorrect, IInvAlways, PTL

==============================================================================
