--------------------------- MODULE LifecycleProofs ---------------------------
(*****************************************************************************)
(* The safety of Lifecycle, for any number of instances, calls and clients:  *)
(* types, that every call is answered once, and what ties index.js, the      *)
(* Controller and the thread of its Worker together.  The last is one        *)
(* inductive invariant, Lives, from which four of the module's properties    *)
(* follow: SendsFindHandlesOpen is not among them, because it is false.      *)
(*****************************************************************************)
EXTENDS Lifecycle, SequenceTheorems, TLAPS

------------------------------------------------------------------------------
(* Types.                                                                    *)

SignalKinds == {"WorkerStarted", "WorkerStopped", "Enable", "Disable"}
CallType == [op : {"start", "stop"}, answers : Seq({"ok", "error", "thrown"})]
MainType == {Idle} \cup [at : {"popping", "responding"}, inst : Instances, shutdown : BOOLEAN]

\* The variables of index.js; those of the rest but signals_ and the main
\* thread's place; and these two.
ApiType ==
  /\ listening \in BOOLEAN
  /\ startCbs \in Seq(DOMAIN calls)
  /\ stopCbs \in Seq(DOMAIN calls)
  /\ calls \in Seq(CallType)

ThreadsType ==
  /\ handler \in BOOLEAN /\ lateEnable \in BOOLEAN /\ crashed \in BOOLEAN
  /\ singleton \in {None} \cup Instances
  /\ created \in {None} \cup Instances
  /\ sigHandle \in [Instances -> HandleStates]
  /\ sigRef \in [Instances -> BOOLEAN]
  /\ sigPending \in [Instances -> BOOLEAN]
  /\ sending \in [Instances -> BOOLEAN]
  /\ running \in [Instances -> BOOLEAN]
  /\ stopSig \in [Instances -> BOOLEAN]
  /\ startResult \in [Instances -> {"ok", "error"}]
  /\ worker \in [Instances -> {"none", "announce", "begin", "loop", "closeClient",
                               "drain", "cleanup", "farewell", "done"}]
  /\ asyncs \in [Instances -> HandleStates]
  /\ client \in [Instances -> {"none", "open", "enabled", "closing", "lines"}]
  /\ connects \in Nat
  /\ rejected \in [Instances -> {"none", "writing", "closing"}]

SigsType == sigs \in [Instances -> Seq(SignalKinds)]
MainTyped == main \in MainType

\* TypeOK is the conjunction of these.
LEMMA TypeParts == TypeOK <=> ApiType /\ ThreadsType /\ SigsType /\ MainTyped
<1>1. main \in MainType <=>
        main = Idle \/ main \in [at : {"popping", "responding"}, inst : Instances,
                                 shutdown : BOOLEAN]
  BY DEF MainType
<1>2. \A x, y, S : {x, y} \subseteq S <=> x \in S /\ y \in S
  OBVIOUS
<1>3. \A x, y, z, S : {x, y, z} \subseteq S <=> x \in S /\ y \in S /\ z \in S
  OBVIOUS
<1>a. \A w, x, y, z, S : {w, x, y, z} \subseteq S <=> w \in S /\ x \in S /\ y \in S /\ z \in S
  OBVIOUS
<1>4. \A v, w, x, y, z, S :
        {v, w, x, y, z} \subseteq S <=> v \in S /\ w \in S /\ x \in S /\ y \in S /\ z \in S
  OBVIOUS
<1>5. TypeOK <=>
        /\ listening \in BOOLEAN /\ handler \in BOOLEAN /\ lateEnable \in BOOLEAN
        /\ crashed \in BOOLEAN
        /\ startCbs \in Seq(DOMAIN calls) /\ stopCbs \in Seq(DOMAIN calls)
        /\ calls \in Seq(CallType)
        /\ singleton \in {None} \cup Instances /\ created \in {None} \cup Instances
        /\ sigHandle \in [Instances -> HandleStates]
        /\ {sigRef, sigPending, sending, running, stopSig} \subseteq [Instances -> BOOLEAN]
        /\ SigsType
        /\ MainTyped
        /\ startResult \in [Instances -> {"ok", "error"}]
        /\ worker \in [Instances -> {"none", "announce", "begin", "loop", "closeClient",
                                     "drain", "cleanup", "farewell", "done"}]
        /\ asyncs \in [Instances -> HandleStates]
        /\ client \in [Instances -> {"none", "open", "enabled", "closing", "lines"}]
        /\ connects \in Nat
        /\ rejected \in [Instances -> {"none", "writing", "closing"}]
  BY <1>1, <1>2, <1>3, <1>a, Zenon DEF TypeOK, CallType, SigsType, MainTyped, SignalKinds
<1> QED BY <1>4, <1>5, Zenon DEF ApiType, ThreadsType

\* A new call is recorded behind the others.
LEMMA CalledType ==
  ASSUME calls \in Seq(CallType), NEW op \in {"start", "stop"},
         NEW a \in Seq({"ok", "error", "thrown"}), calls' = Called(op, a)
  PROVE  /\ calls' \in Seq(CallType)
         /\ Len(calls) \in Nat
         /\ DOMAIN calls = 1..Len(calls)
         /\ DOMAIN calls' = 1..(Len(calls) + 1)
         /\ \A c \in DOMAIN calls : calls'[c] = calls[c]
         /\ NewCall \in DOMAIN calls' /\ NewCall \notin DOMAIN calls
         /\ calls'[NewCall] = [op |-> op, answers |-> a]
<1>1. [op |-> op, answers |-> a] \in CallType
  BY DEF CallType
<1> QED BY <1>1 DEF Called, NewCall

\* Answering the calls of C changes their answers only.
LEMMA AnswerType ==
  ASSUME calls \in Seq(CallType), NEW C, NEW r \in {"ok", "error", "thrown"},
         calls' = Answer(calls, C, r)
  PROVE  /\ calls' \in Seq(CallType)
         /\ DOMAIN calls' = DOMAIN calls
         /\ \A c \in DOMAIN calls :
              /\ calls'[c].op = calls[c].op
              /\ c \in C => calls'[c].answers = Append(calls[c].answers, r)
              /\ c \notin C => calls'[c] = calls[c]
<1>1. DOMAIN calls = 1..Len(calls) /\ Len(calls) \in Nat
  OBVIOUS
<1>2. ASSUME NEW q \in CallType
      PROVE  /\ [q EXCEPT !.answers = Append(@, r)] \in CallType
             /\ [q EXCEPT !.answers = Append(@, r)].op = q.op
             /\ [q EXCEPT !.answers = Append(@, r)].answers = Append(q.answers, r)
  <2>1. q.answers \in Seq({"ok", "error", "thrown"})
    BY DEF CallType
  <2>2. Append(q.answers, r) \in Seq({"ok", "error", "thrown"})
    BY <2>1
  <2> QED BY <2>2 DEF CallType
<1>3. \A c \in 1..Len(calls) : calls[c] \in CallType
  OBVIOUS
<1>4. calls' = [c \in 1..Len(calls) |->
                  IF c \in C THEN [calls[c] EXCEPT !.answers = Append(@, r)] ELSE calls[c]]
  BY <1>1 DEF Answer
<1>5. calls' \in [1..Len(calls) -> CallType]
  BY <1>2, <1>3, <1>4
<1>6. calls' \in Seq(CallType)
  BY <1>1, <1>5
<1> QED BY <1>1, <1>2, <1>3, <1>4, <1>6

\* The lists of index.js keep their type when calls are added.
LEMMA ListGrows ==
  ASSUME NEW n \in Nat, NEW s \in Seq(1..n)
  PROVE  s \in Seq(1..(n + 1)) /\ Append(s, n + 1) \in Seq(1..(n + 1))
<1>1. 1..n \subseteq 1..(n + 1) /\ n + 1 \in 1..(n + 1)
  OBVIOUS
<1>2. s \in Seq(1..(n + 1))
  BY <1>1, SeqMonotonic
<1> QED BY <1>1, <1>2

\* The API keeps the types of index.js.
LEMMA ApiCallsType ==
  ASSUME ApiType, StartAgain \/ StartJoin \/ StartRefused \/ StopNothing \/ Stop
                  \/ \E i \in Instances : StartBegins(i)
  PROVE  ApiType'
<1>1. /\ <<>> \in Seq({"ok", "error", "thrown"})
      /\ \A r \in {"ok", "error", "thrown"} : <<r>> \in Seq({"ok", "error", "thrown"})
  OBVIOUS
<1>2. PICK op \in {"start", "stop"}, a \in Seq({"ok", "error", "thrown"}) :
        calls' = Called(op, a)
  BY <1>1 DEF StartAgain, StartJoin, StartRefused, StopNothing, Stop, StartBegins
<1>3. listening' = listening
  BY DEF StartAgain, StartJoin, StartRefused, StopNothing, Stop, StartBegins
<1>4. /\ startCbs' \in {startCbs, Append(startCbs, NewCall), <<NewCall>>}
      /\ stopCbs' \in {stopCbs, Append(stopCbs, NewCall)}
  BY DEF StartAgain, StartJoin, StartRefused, StopNothing, Stop, StartBegins
<1>5. /\ calls' \in Seq(CallType)
      /\ Len(calls) \in Nat /\ DOMAIN calls = 1..Len(calls)
      /\ DOMAIN calls' = 1..(Len(calls) + 1)
  BY <1>2, CalledType DEF ApiType
<1>6. startCbs' \in Seq(DOMAIN calls') /\ stopCbs' \in Seq(DOMAIN calls')
  <2>1. <<NewCall>> \in Seq(1..(Len(calls) + 1))
    BY <1>5 DEF NewCall
  <2> QED BY <1>4, <1>5, <2>1, ListGrows DEF ApiType, NewCall
<1> QED BY <1>3, <1>5, <1>6 DEF ApiType

\* So do the callbacks of the main thread, and nothing else touches them.
LEMMA CallbacksApiType ==
  ASSUME ApiType, ThreadsType, NEW i \in Instances, PopStarted(i) \/ ShutDown(i)
  PROVE  ApiType'
<1>1. CASE PopStarted(i)
  <2>1. startResult[i] \in {"ok", "error", "thrown"}
    BY DEF ThreadsType
  <2>2. calls' \in Seq(CallType) /\ DOMAIN calls' = DOMAIN calls
    BY <1>1, <2>1, AnswerType DEF PopStarted, ApiType
  <2>3. listening' \in BOOLEAN /\ startCbs' = <<>> /\ stopCbs' = stopCbs
    BY <1>1 DEF PopStarted, Pop, ApiType, ThreadsType
  <2> QED BY <2>2, <2>3 DEF ApiType
<1>2. CASE ShutDown(i)
  <2>2. calls' \in Seq(CallType) /\ DOMAIN calls' = DOMAIN calls
    BY <1>2, AnswerType DEF ShutDown, ApiType
  <2>3. listening' \in BOOLEAN /\ stopCbs' = <<>> /\ startCbs' = startCbs
    BY <1>2 DEF ShutDown
  <2> QED BY <2>2, <2>3 DEF ApiType
<1> QED BY <1>1, <1>2

\* Pushing a signal keeps the type of signals_ and of sending.
LEMMA PushType ==
  ASSUME SigsType, ThreadsType, NEW i \in Instances, NEW s \in SignalKinds, Push(i, s)
  PROVE  /\ SigsType'
         /\ sending' \in [Instances -> BOOLEAN]
         /\ sigs'[i] = Append(sigs[i], s)
         /\ \A j \in Instances : j # i => sigs'[j] = sigs[j]
<1>1. Append(sigs[i], s) \in Seq(SignalKinds)
  BY DEF SigsType
<1> QED BY <1>1 DEF SigsType, ThreadsType, Push

\* Popping one keeps the type of signals_.
LEMMA PopType ==
  ASSUME SigsType, NEW i \in Instances, NEW s, Pop(i, s)
  PROVE  /\ SigsType'
         /\ sigs'[i] = Tail(sigs[i])
         /\ \A j \in Instances : j # i => sigs'[j] = sigs[j]
<1>1. Tail(sigs[i]) \in Seq(SignalKinds)
  BY DEF SigsType, Pop
<1> QED BY <1>1 DEF SigsType, Pop

\* Calls of start and stop keep the types of the rest.
LEMMA ApiThreadsType ==
  ASSUME ApiType, ThreadsType, SigsType, MainTyped,
         \/ StartAgain \/ StartJoin \/ StartRefused \/ StopNothing \/ Stop
         \/ \E i \in Instances : StartFails(i) \/ StartThread(i)
  PROVE  ThreadsType' /\ SigsType' /\ MainTyped'
<1>1. CASE StartAgain \/ StartJoin \/ StartRefused \/ StopNothing
  BY <1>1 DEF StartAgain, StartJoin, StartRefused, StopNothing, sigVars, ctlVars,
     thrVars, connVars, ThreadsType, SigsType, MainTyped
<1>2. CASE Stop
  BY <1>2 DEF Stop, ctlVars, thrVars, connVars, ThreadsType, SigsType, MainTyped, None
<1>3. ASSUME NEW i \in Instances, StartFails(i)
      PROVE  ThreadsType' /\ SigsType' /\ MainTyped'
  <2>1. ThreadsType' /\ MainTyped'
    BY <1>3 DEF StartFails, StartBegins, ThreadsType, MainTyped, HandleStates, connVars
  <2>2. Append(sigs[i], "WorkerStarted") \in Seq(SignalKinds)
    BY DEF SigsType, SignalKinds
  <2>3. SigsType'
    BY <1>3, <2>2 DEF StartFails, SigsType
  <2> QED BY <2>1, <2>3
<1>4. ASSUME NEW i \in Instances, StartThread(i)
      PROVE  ThreadsType' /\ SigsType' /\ MainTyped'
  BY <1>4 DEF StartThread, StartBegins, ThreadsType, SigsType, MainTyped, HandleStates, connVars
<1> QED BY <1>1, <1>2, <1>3, <1>4

\* The places the main thread goes to.
LEMMA MainTypeSteps ==
  ASSUME MainTyped, NEW i \in Instances, main.at = "popping" \/ main.at = "responding"
  PROVE  /\ [main EXCEPT !.at = "responding"] \in MainType
         /\ [main EXCEPT !.at = "popping"] \in MainType
         /\ [main EXCEPT !.shutdown = TRUE] \in MainType
<1>1. main \in [at : {"popping", "responding"}, inst : Instances, shutdown : BOOLEAN]
  BY DEF MainTyped, MainType, Idle
<1> QED BY <1>1 DEF MainType

\* The main thread keeps them.
LEMMA MainThreadsType ==
  ASSUME ThreadsType, SigsType, MainTyped, NEW i \in Instances, MainStep(i)
  PROVE  ThreadsType' /\ SigsType' /\ MainTyped'
<1> USE DEF ThreadsType, MainTyped, sigVars, ctlVars, thrVars, connVars
<1>0. \A s \in {"WorkerStarted", "WorkerStopped", "Enable", "Disable"} :
        Pop(i, s) => SigsType' /\ main.at = "popping"
  BY PopType DEF Pop
<1>1. CASE Wake(i)
  BY <1>1 DEF Wake, MainType, SigsType
<1>2. CASE PopStarted(i)
  BY <1>0, <1>2 DEF PopStarted, Pop
<1>3. CASE PopRequest(i)
  BY <1>0, <1>3, MainTypeSteps DEF PopRequest, Pop
<1>4. CASE SendResponse(i)
  BY <1>4, MainTypeSteps DEF SendResponse, SigsType
<1>5. CASE PopStopped(i)
  BY <1>0, <1>5, MainTypeSteps DEF PopStopped, Pop
<1>6. CASE DrainEnds(i)
  BY <1>6 DEF DrainEnds, MainType, SigsType
<1>7. CASE ShutDown(i)
  BY <1>7 DEF ShutDown, MainType, HandleStates, SigsType
<1> QED BY <1>1, <1>2, <1>3, <1>4, <1>5, <1>6, <1>7 DEF MainStep

\* The worker's thread and its clients keep them.
LEMMA WorkerThreadsType ==
  ASSUME ThreadsType, SigsType, MainTyped, NEW i \in Instances,
         ThreadStep(i) \/ Connect(i) \/ Reject(i) \/ ClientEnables(i) \/ ClientLeaves(i)
  PROVE  ThreadsType' /\ SigsType' /\ MainTyped'
<1> USE DEF ThreadsType, MainTyped, FromThread, ctlVars, thrVars, connVars, Goto, HandleStates
<1>0. \A s \in SignalKinds : Push(i, s) => SigsType' /\ sending' \in [Instances -> BOOLEAN]
  BY PushType
<1>a. {"WorkerStarted", "WorkerStopped", "Enable", "Disable"} = SignalKinds
  BY DEF SignalKinds
<1>b. UNCHANGED sigs => SigsType'
  BY DEF SigsType
<1>1. CASE SendSignal(i)
  BY <1>1, <1>b DEF SendSignal
<1>2. CASE Announce(i)
  BY <1>0, <1>a, <1>2 DEF Announce
<1>3. CASE Begin(i)
  BY <1>b, <1>3 DEF Begin
<1>4. CASE Connect(i) \/ Reject(i) \/ WriteCb(i) \/ CloseCb(i)
  BY <1>4, <1>b DEF Connect, Reject, WriteCb, CloseCb
<1>5. CASE ClientEnables(i) \/ ClientLeaves(i) \/ LateEnable(i)
  <2>1. CASE ClientEnables(i)
    BY <1>0, <1>a, <2>1 DEF ClientEnables
  <2>2. CASE ClientLeaves(i)
    <3>1. PICK next \in {"closing", "lines"} : client' = [client EXCEPT ![i] = next]
      BY <2>2 DEF ClientLeaves
    <3>2. client' \in [Instances -> {"none", "open", "enabled", "closing", "lines"}]
      BY <3>1
    <3>3. SigsType' /\ sending' \in [Instances -> BOOLEAN] /\ lateEnable' \in BOOLEAN
      BY <1>0, <1>a, <2>2 DEF ClientLeaves
    <3> QED BY <2>2, <3>2, <3>3 DEF ClientLeaves
  <2>3. CASE LateEnable(i)
    BY <1>0, <1>a, <2>3 DEF LateEnable
  <2> QED BY <1>5, <2>1, <2>2, <2>3
<1>6. CASE ClientClosed(i) \/ StopSignalCb(i) \/ LeaveRun(i) \/ Cleanup(i)
  BY <1>b, <1>6 DEF ClientClosed, StopSignalCb, LeaveRun, Cleanup
<1>7. CASE CloseClient(i)
  BY <1>0, <1>a, <1>b, <1>7 DEF CloseClient
<1>8. CASE Farewell(i)
  BY <1>0, <1>a, <1>8 DEF Farewell
<1> QED BY <1>1, <1>2, <1>3, <1>4, <1>5, <1>6, <1>7, <1>8 DEF ThreadStep

\* What is not the main thread's leaves index.js alone.
LEMMA OthersApiType ==
  ASSUME ApiType, NEW i \in Instances,
         \/ Wake(i) \/ PopRequest(i) \/ SendResponse(i) \/ PopStopped(i) \/ DrainEnds(i)
         \/ ThreadStep(i) \/ Connect(i) \/ Reject(i) \/ ClientEnables(i) \/ ClientLeaves(i)
  PROVE  ApiType' /\ UNCHANGED jsVars
<1>1. UNCHANGED jsVars
  BY DEF jsVars, Wake, PopRequest, Pop, SendResponse, PopStopped, DrainEnds, ThreadStep,
     SendSignal, Announce, Begin, ClientClosed, LateEnable, WriteCb, CloseCb, StopSignalCb, CloseClient,
     LeaveRun, Cleanup, Farewell, Connect, Reject, ClientEnables, ClientLeaves, FromThread
<1> QED BY <1>1 DEF ApiType, jsVars

\* Before the first start() everything has its type.
LEMMA InitType == Init => TypeOK
<1> SUFFICES ASSUME Init PROVE TypeOK
  OBVIOUS
<1>1. ApiType
  <2>1. <<>> \in Seq(CallType) /\ <<>> \in Seq(DOMAIN calls)
    OBVIOUS
  <2> QED BY <2>1 DEF Init, ApiType
<1>2. ThreadsType
  BY DEF Init, ThreadsType, HandleStates, None
<1>4. MainTyped
  BY DEF Init, MainType, MainTyped
<1>3. SigsType
  <2>1. <<>> \in Seq(SignalKinds)
    OBVIOUS
  <2> QED BY <2>1 DEF Init, SigsType
<1> QED BY <1>1, <1>2, <1>3, <1>4, TypeParts

\* No call, signal or callback of libuv leaves the types.
LEMMA NextType == TypeOK /\ [Next]_vars => TypeOK'
<1> DEFINE Types == ApiType /\ ThreadsType /\ SigsType /\ MainTyped
<1>0. TypeOK <=> Types
  BY TypeParts
<1>00. TypeOK' <=> Types'
  BY TypeParts, PTL
<1> SUFFICES ASSUME Types, [Next]_vars PROVE Types'
  BY <1>0, <1>00
<1>1. CASE UNCHANGED vars
  BY <1>1 DEF vars, jsVars, sigVars, ctlVars, thrVars, connVars, ApiType, ThreadsType,
     SigsType, MainTyped
<1>2. CASE StartAgain \/ StartJoin \/ StartRefused \/ StopNothing \/ Stop
  BY <1>2, ApiCallsType, ApiThreadsType
<1>3. ASSUME NEW i \in Instances, StartFails(i) \/ StartThread(i)
      PROVE  Types'
  BY <1>3, ApiCallsType, ApiThreadsType DEF StartFails, StartThread
<1>4. ASSUME NEW i \in Instances, MainStep(i)
      PROVE  Types'
  BY <1>4, CallbacksApiType, OthersApiType, MainThreadsType DEF MainStep
<1>5. ASSUME NEW i \in Instances,
             ThreadStep(i) \/ Connect(i) \/ Reject(i) \/ ClientEnables(i) \/ ClientLeaves(i)
      PROVE  Types'
  BY <1>5, OthersApiType, WorkerThreadsType
<1> QED BY <1>1, <1>2, <1>3, <1>4, <1>5 DEF Next

\* Every state is well-typed, for any number of instances, calls and clients:
\* in particular what waits in startCallbacks or stopCallbacks is a call that
\* was made, and singleton, created and main name instances there can be.
THEOREM TypeCorrect == Spec => []TypeOK
  BY InitType, NextType, PTL DEF Spec

------------------------------------------------------------------------------
(* Every call is answered once.                                              *)

\* What is in a list of calls, and in one with a call more.
LEMMA ToSetAppend ==
  ASSUME NEW S, NEW s \in Seq(S), NEW e
  PROVE  ToSet(Append(s, e)) = ToSet(s) \cup {e} /\ ToSet(s) \subseteq S
<1>1. /\ DOMAIN s = 1..Len(s) /\ DOMAIN Append(s, e) = 1..(Len(s) + 1)
      /\ Len(s) \in Nat
  OBVIOUS
<1>2. /\ \A i \in 1..Len(s) : Append(s, e)[i] = s[i] /\ s[i] \in S
      /\ Append(s, e)[Len(s) + 1] = e
  OBVIOUS
<1>3. 1..(Len(s) + 1) = 1..Len(s) \cup {Len(s) + 1}
  BY <1>1
<1> QED BY <1>1, <1>2, <1>3 DEF ToSet

\* What is in a sequence of none or one.
LEMMA ToSetShort == ToSet(<<>>) = {} /\ \A e : ToSet(<<e>>) = {e}
<1>1. DOMAIN <<>> = {} /\ \A e : DOMAIN <<e>> = {1} /\ <<e>>[1] = e
  OBVIOUS
<1> QED BY <1>1 DEF ToSet

\* The two lists are of the kinds they are called for.
ListsByKind ==
  \A c \in DOMAIN calls :
    /\ c \in ToSet(startCbs) => calls[c].op = "start"
    /\ c \in ToSet(stopCbs) => calls[c].op = "stop"

\* A call that is answered at once waits nowhere; one that is not waits in
\* the list of its kind.
LEMMA CallAnswered ==
  ASSUME ApiType, ListsByKind, AnsweredOrWaiting,
         \/ StartAgain \/ StartJoin \/ StartRefused \/ StopNothing \/ Stop
         \/ \E i \in Instances : StartBegins(i)
  PROVE  (ListsByKind /\ AnsweredOrWaiting)'
<1> DEFINE D == DOMAIN calls
           SL == ToSet(startCbs)
           PL == ToSet(stopCbs)
<1>1. SL \subseteq D /\ PL \subseteq D
  BY ToSetAppend DEF ApiType
<1>2. \A op \in {"start", "stop"}, a \in {<<>>, <<"ok">>, <<"error">>, <<"thrown">>} :
        calls' = Called(op, a) =>
          /\ D' = D \cup {NewCall} /\ NewCall \notin D
          /\ \A c \in D : calls'[c] = calls[c]
          /\ calls'[NewCall].op = op /\ calls'[NewCall].answers = a
  <2> SUFFICES ASSUME NEW op \in {"start", "stop"},
                      NEW a \in {<<>>, <<"ok">>, <<"error">>, <<"thrown">>},
                      calls' = Called(op, a)
               PROVE  /\ D' = D \cup {NewCall} /\ NewCall \notin D
                      /\ \A c \in D : calls'[c] = calls[c]
                      /\ calls'[NewCall].op = op /\ calls'[NewCall].answers = a
    OBVIOUS
  <2>1. a \in Seq({"ok", "error", "thrown"})
    <3>1. /\ <<>> \in Seq({"ok", "error", "thrown"})
          /\ \A r \in {"ok", "error", "thrown"} : <<r>> \in Seq({"ok", "error", "thrown"})
      OBVIOUS
    <3> QED BY <3>1
  <2>2. /\ Len(calls) \in Nat
        /\ DOMAIN calls = 1..Len(calls)
        /\ DOMAIN calls' = 1..(Len(calls) + 1)
        /\ \A c \in DOMAIN calls : calls'[c] = calls[c]
        /\ NewCall \notin DOMAIN calls
        /\ calls'[NewCall] = [op |-> op, answers |-> a]
    BY <2>1, CalledType DEF ApiType
  <2>3. 1..(Len(calls) + 1) = 1..Len(calls) \cup {NewCall}
    BY <2>2 DEF NewCall
  <2> QED BY <2>2, <2>3
<1>3. Len(<<"ok">>) = 1 /\ Len(<<"error">>) = 1 /\ Len(<<"thrown">>) = 1
  OBVIOUS
<1>4. <<"ok">> # <<>> /\ <<"error">> # <<>> /\ <<"thrown">> # <<>>
  OBVIOUS
<1>5. CASE StartAgain \/ StartRefused \/ StopNothing
  <2>1. PICK op \in {"start", "stop"}, a \in {<<"ok">>, <<"error">>, <<"thrown">>} :
          calls' = Called(op, a)
    BY <1>5 DEF StartAgain, StartRefused, StopNothing
  <2>2. SL' = SL /\ PL' = PL
    BY <1>5 DEF StartAgain, StartRefused, StopNothing
  <2>3. a # <<>> /\ Len(a) = 1
    BY <1>3, <1>4
  <2>4. /\ D' = D \cup {NewCall} /\ NewCall \notin D
        /\ \A c \in D : calls'[c] = calls[c]
        /\ calls'[NewCall].answers = a
    BY <1>2, <2>1
  <2> QED BY <1>1, <2>2, <2>3, <2>4 DEF ListsByKind, AnsweredOrWaiting
<1>6. CASE StartJoin \/ \E i \in Instances : StartBegins(i)
  <2>1. calls' = Called("start", <<>>)
    BY <1>6 DEF StartJoin, StartBegins
  <2>2. SL' = SL \cup {NewCall} /\ PL' = PL
    <3>1. CASE StartJoin
      BY <3>1, ToSetAppend DEF StartJoin, ApiType
    <3>2. CASE \E i \in Instances : StartBegins(i)
      BY <3>2, ToSetShort DEF StartBegins
    <3> QED BY <1>6, <3>1, <3>2
  <2>3. /\ D' = D \cup {NewCall} /\ NewCall \notin D
        /\ \A c \in D : calls'[c] = calls[c]
        /\ calls'[NewCall].op = "start" /\ calls'[NewCall].answers = <<>>
    BY <1>2, <2>1
  <2> QED BY <1>1, <2>2, <2>3 DEF ListsByKind, AnsweredOrWaiting
<1>7. CASE Stop
  <2>1. calls' = Called("stop", <<>>)
    BY <1>7 DEF Stop
  <2>2. SL' = SL /\ PL' = PL \cup {NewCall}
    BY <1>7, ToSetAppend DEF Stop, ApiType
  <2>3. /\ D' = D \cup {NewCall} /\ NewCall \notin D
        /\ \A c \in D : calls'[c] = calls[c]
        /\ calls'[NewCall].op = "stop" /\ calls'[NewCall].answers = <<>>
    BY <1>2, <2>1
  <2> QED BY <1>1, <2>2, <2>3 DEF ListsByKind, AnsweredOrWaiting
<1> QED BY <1>5, <1>6, <1>7

\* Whoever waited is answered when the list is called, and was not before.
LEMMA CallbacksAnswer ==
  ASSUME ApiType, ThreadsType, ListsByKind, AnsweredOrWaiting,
         NEW i \in Instances, PopStarted(i) \/ ShutDown(i)
  PROVE  (ListsByKind /\ AnsweredOrWaiting)'
<1>1. \A r : Append(<<>>, r) # <<>> /\ Len(Append(<<>>, r)) = 1
  OBVIOUS
<1>2. CASE PopStarted(i)
  <2>1. startResult[i] \in {"ok", "error", "thrown"}
    BY DEF ThreadsType
  <2>2. /\ DOMAIN calls' = DOMAIN calls
        /\ \A c \in DOMAIN calls :
             /\ calls'[c].op = calls[c].op
             /\ c \in ToSet(startCbs) =>
                  calls'[c].answers = Append(calls[c].answers, startResult[i])
             /\ c \notin ToSet(startCbs) => calls'[c] = calls[c]
    BY <1>2, <2>1, AnswerType DEF PopStarted, ApiType
  <2>3. ToSet(startCbs') = {} /\ stopCbs' = stopCbs
    BY <1>2, ToSetShort DEF PopStarted, Pop
  <2>4. ListsByKind'
    BY <2>2, <2>3 DEF ListsByKind
  <2>5. SUFFICES ASSUME NEW c \in DOMAIN calls
                 PROVE  IF calls'[c].answers = <<>>
                        THEN c \in ToSet(IF calls'[c].op = "start" THEN startCbs' ELSE stopCbs')
                        ELSE /\ Len(calls'[c].answers) = 1
                             /\ c \notin ToSet(startCbs') \cup ToSet(stopCbs')
    BY <2>2, <2>4 DEF AnsweredOrWaiting
  <2>6. CASE c \in ToSet(startCbs)
    <3>1. calls[c].answers = <<>>
      BY <2>6 DEF AnsweredOrWaiting
    <3>2. c \notin ToSet(stopCbs)
      BY <2>6 DEF ListsByKind
    <3> QED BY <1>1, <2>2, <2>3, <2>6, <3>1, <3>2
  <2>7. CASE c \notin ToSet(startCbs)
    BY <2>2, <2>3, <2>7 DEF AnsweredOrWaiting
  <2> QED BY <2>6, <2>7
<1>3. CASE ShutDown(i)
  <2>2. /\ DOMAIN calls' = DOMAIN calls
        /\ \A c \in DOMAIN calls :
             /\ calls'[c].op = calls[c].op
             /\ c \in ToSet(stopCbs) => calls'[c].answers = Append(calls[c].answers, "ok")
             /\ c \notin ToSet(stopCbs) => calls'[c] = calls[c]
    BY <1>3, AnswerType DEF ShutDown, ApiType
  <2>3. ToSet(stopCbs') = {} /\ startCbs' = startCbs
    BY <1>3, ToSetShort DEF ShutDown
  <2>4. ListsByKind'
    BY <2>2, <2>3 DEF ListsByKind
  <2>5. SUFFICES ASSUME NEW c \in DOMAIN calls
                 PROVE  IF calls'[c].answers = <<>>
                        THEN c \in ToSet(IF calls'[c].op = "start" THEN startCbs' ELSE stopCbs')
                        ELSE /\ Len(calls'[c].answers) = 1
                             /\ c \notin ToSet(startCbs') \cup ToSet(stopCbs')
    BY <2>2, <2>4 DEF AnsweredOrWaiting
  <2>6. CASE c \in ToSet(stopCbs)
    <3>1. calls[c].answers = <<>>
      BY <2>6 DEF AnsweredOrWaiting
    <3>2. c \notin ToSet(startCbs)
      BY <2>6 DEF ListsByKind
    <3> QED BY <1>1, <2>2, <2>3, <2>6, <3>1, <3>2
  <2>7. CASE c \notin ToSet(stopCbs)
    BY <2>2, <2>3, <2>7 DEF AnsweredOrWaiting
  <2> QED BY <2>6, <2>7
<1> QED BY <1>2, <1>3

\* However calls of start and stop overlap with each other, with the main
\* thread's signals and with the worker's thread: a call is answered once, or
\* waits in the list of its kind (startCallbacks, stopCallbacks).
THEOREM AnsweredOrWaitingAlways == Spec => []AnsweredOrWaiting
<1> DEFINE Inv == ListsByKind /\ AnsweredOrWaiting
<1>1. Init => Inv
  BY DEF Init, ListsByKind, AnsweredOrWaiting
<1>2. TypeOK /\ Inv /\ [Next]_vars => Inv'
  <2> SUFFICES ASSUME ApiType, ThreadsType, Inv, [Next]_vars PROVE Inv'
    BY TypeParts
  <2>1. CASE UNCHANGED jsVars
    BY <2>1 DEF jsVars, ListsByKind, AnsweredOrWaiting
  <2>2. CASE StartAgain \/ StartJoin \/ StartRefused \/ StopNothing \/ Stop
    BY <2>2, CallAnswered
  <2>3. ASSUME NEW i \in Instances, StartFails(i) \/ StartThread(i)
        PROVE  Inv'
    BY <2>3, CallAnswered DEF StartFails, StartThread
  <2>4. ASSUME NEW i \in Instances, PopStarted(i) \/ ShutDown(i)
        PROVE  Inv'
    BY <2>4, CallbacksAnswer
  <2> QED BY <2>1, <2>2, <2>3, <2>4, OthersApiType DEF Next, MainStep, vars
<1>3. Inv => AnsweredOrWaiting
  OBVIOUS
<1> QED BY <1>1, <1>2, <1>3, TypeCorrect, PTL DEF Spec

------------------------------------------------------------------------------
(* What is left in signals_.                                                 *)

Has(s, x) == \E k \in DOMAIN s : s[k] = x

\* WorkerStarted comes first and WorkerStopped last.
InOrder(s) ==
  \A k \in DOMAIN s : /\ s[k] = "WorkerStarted" => k = 1
                      /\ s[k] = "WorkerStopped" => k = Len(s)

\* MessageHandler is not installed, once the main thread has worked off s:
\* was tells whether it is now.
LeavesOff(s, was) ==
  /\ was => Has(s, "Disable")
  /\ \A k \in DOMAIN s : s[k] = "Enable" => \E j \in DOMAIN s : j > k /\ s[j] = "Disable"

\* A signal is pushed behind the others.
LEMMA PushBehind ==
  ASSUME NEW s \in Seq(SignalKinds), NEW x \in SignalKinds
  PROVE  /\ Append(s, x) # <<>>
         /\ \A y : Has(Append(s, x), y) <=> Has(s, y) \/ x = y
         /\ InOrder(s) /\ ~Has(s, "WorkerStopped") /\ (x = "WorkerStarted" => s = <<>>)
              => InOrder(Append(s, x))
         /\ \A was \in BOOLEAN :
              /\ x = "Disable" => LeavesOff(Append(s, x), was)
              /\ x # "Enable" /\ LeavesOff(s, was) => LeavesOff(Append(s, x), was)
<1> DEFINE u == Append(s, x)
<1>1. /\ DOMAIN s = 1..Len(s) /\ DOMAIN u = 1..(Len(s) + 1)
      /\ Len(s) \in Nat /\ Len(u) = Len(s) + 1 /\ u # <<>>
      /\ Len(s) + 1 \in 1..(Len(s) + 1)
  OBVIOUS
<1>2. /\ \A k \in 1..Len(s) : u[k] = s[k] /\ k \in 1..(Len(s) + 1) /\ k < Len(s) + 1
      /\ u[Len(s) + 1] = x
  OBVIOUS
<1>3. \A k \in 1..(Len(s) + 1) : k \in 1..Len(s) \/ k = Len(s) + 1
  BY <1>1
<1> HIDE DEF u
<1>4. \A y : Has(u, y) <=> Has(s, y) \/ x = y
  BY <1>1, <1>2, <1>3 DEF Has
<1>5. ASSUME InOrder(s), ~Has(s, "WorkerStopped"), x = "WorkerStarted" => s = <<>>
      PROVE  InOrder(u)
  <2>1. x = "WorkerStarted" => Len(s) + 1 = 1
    BY <1>5
  <2> QED BY <1>1, <1>2, <1>3, <1>5, <2>1 DEF InOrder, Has
<1>6. ASSUME NEW was \in BOOLEAN, x = "Disable"
      PROVE  LeavesOff(u, was)
  <2>1. Has(u, "Disable")
    BY <1>4, <1>6
  <2>2. \A k \in DOMAIN u : u[k] = "Enable" => Len(s) + 1 > k
    BY <1>1, <1>2, <1>3, <1>6
  <2> QED BY <1>1, <1>2, <1>6, <2>1, <2>2 DEF LeavesOff
<1>7. ASSUME NEW was \in BOOLEAN, x # "Enable", LeavesOff(s, was)
      PROVE  LeavesOff(u, was)
  BY <1>1, <1>2, <1>3, <1>4, <1>7 DEF LeavesOff
<1> QED BY <1>1, <1>4, <1>5, <1>6, <1>7 DEF u

\* The first signal is popped.
LEMMA PopFirst ==
  ASSUME NEW s \in Seq(SignalKinds), s # <<>>
  PROVE  /\ \A y : Has(s, y) <=> Head(s) = y \/ Has(Tail(s), y)
         /\ InOrder(s) => /\ InOrder(Tail(s))
                          /\ ~Has(Tail(s), "WorkerStarted")
                          /\ Head(s) = "WorkerStopped" => Tail(s) = <<>>
         /\ \A was \in BOOLEAN : LeavesOff(s, was) =>
              /\ Head(s) = "Enable" => LeavesOff(Tail(s), TRUE)
              /\ Head(s) = "Disable" => LeavesOff(Tail(s), FALSE)
              /\ Head(s) \notin {"Enable", "Disable"} => LeavesOff(Tail(s), was)
<1> DEFINE t == Tail(s)
<1>1. /\ DOMAIN s = 1..Len(s) /\ DOMAIN t = 1..(Len(s) - 1) /\ Len(t) = Len(s) - 1
      /\ Len(s) \in Nat \ {0} /\ Head(s) = s[1] /\ 1 \in 1..Len(s)
  OBVIOUS
<1>2. \A k \in 1..(Len(s) - 1) : t[k] = s[k + 1] /\ k + 1 \in 1..Len(s) /\ k + 1 # 1
  OBVIOUS
<1>3. \A k \in 1..Len(s) : k # 1 => k - 1 \in 1..(Len(s) - 1) /\ k = (k - 1) + 1
  BY <1>1
<1>4. Len(s) = 1 => t = <<>>
  <2>1. t \in Seq(SignalKinds)
    OBVIOUS
  <2> QED BY <1>1, <2>1, EmptySeq
<1> HIDE DEF t
<1>5. \A y : Has(s, y) <=> Head(s) = y \/ Has(t, y)
  <2> SUFFICES ASSUME NEW y PROVE Has(s, y) <=> Head(s) = y \/ Has(t, y)
    OBVIOUS
  <2>1. ASSUME NEW k \in 1..Len(s), s[k] = y, k # 1 PROVE Has(t, y)
    <3>1. k - 1 \in 1..(Len(s) - 1) /\ t[k - 1] = y
      BY <1>2, <1>3, <2>1
    <3> QED BY <1>1, <3>1 DEF Has
  <2> QED BY <1>1, <1>2, <2>1 DEF Has
<1>6. ASSUME InOrder(s)
      PROVE  /\ InOrder(t) /\ ~Has(t, "WorkerStarted")
             /\ Head(s) = "WorkerStopped" => t = <<>>
  <2>1. ~Has(t, "WorkerStarted")
    BY <1>1, <1>2, <1>6 DEF InOrder, Has
  <2>2. InOrder(t)
    BY <1>1, <1>2, <1>6, <2>1 DEF InOrder, Has
  <2> QED BY <1>1, <1>4, <1>6, <2>1, <2>2 DEF InOrder
<1>7. ASSUME NEW was \in BOOLEAN, LeavesOff(s, was)
      PROVE  /\ Head(s) = "Enable" => LeavesOff(t, TRUE)
             /\ Head(s) = "Disable" => LeavesOff(t, FALSE)
             /\ Head(s) \notin {"Enable", "Disable"} => LeavesOff(t, was)
  <2>1. ASSUME NEW k \in 1..(Len(s) - 1), t[k] = "Enable"
        PROVE  \E j \in 1..(Len(s) - 1) : j > k /\ t[j] = "Disable"
    <3>1. PICK j \in 1..Len(s) : j > k + 1 /\ s[j] = "Disable"
      BY <1>1, <1>2, <1>7, <2>1 DEF LeavesOff
    <3>2. j - 1 \in 1..(Len(s) - 1) /\ j - 1 > k /\ t[j - 1] = "Disable"
      BY <1>1, <1>2, <1>3, <3>1
    <3> QED BY <3>2
  <2>2. Head(s) = "Enable" => Has(t, "Disable")
    <3>1. SUFFICES ASSUME s[1] = "Enable" PROVE Has(t, "Disable")
      BY <1>1
    <3>2. PICK j \in 1..Len(s) : j > 1 /\ s[j] = "Disable"
      BY <1>1, <1>7, <3>1 DEF LeavesOff
    <3>3. j - 1 \in 1..(Len(s) - 1) /\ t[j - 1] = "Disable"
      BY <1>1, <1>2, <1>3, <3>2
    <3> QED BY <1>1, <3>3 DEF Has
  <2>3. was /\ Head(s) # "Disable" => Has(t, "Disable")
    BY <1>5, <1>7 DEF LeavesOff
  <2> QED BY <1>1, <2>1, <2>2, <2>3 DEF LeavesOff
<1> QED BY <1>5, <1>6, <1>7 DEF t

\* Nothing is left of an empty queue.
LEMMA NothingLeft ==
  /\ \A y : ~Has(<<>>, y)
  /\ InOrder(<<>>)
  /\ \A was \in BOOLEAN : LeavesOff(<<>>, was) <=> ~was
<1>1. DOMAIN <<>> = {}
  OBVIOUS
<1> QED BY <1>1 DEF Has, InOrder, LeavesOff

------------------------------------------------------------------------------
(* Which instance lives, and how far it is.                                  *)

InRun == {"loop", "closeClient", "drain"}
Leaving == {"closeClient", "drain", "cleanup", "farewell", "done"}

\* An instance still to be made, and one that Controller::Cleanup is done with.
Fresh(i) ==
  /\ sigHandle[i] = "none" /\ sigs[i] = <<>> /\ startResult[i] = "ok"
  /\ worker[i] = "none" /\ ~sending[i] /\ asyncs[i] = "none" /\ ~stopSig[i]
  /\ client[i] = "none"

Over(i) == worker[i] = "done" /\ sigHandle[i] = "closed"

\* Only the newest instance can be anything else, and the main thread is
\* busy with no other.
OnlyNewest ==
  /\ singleton # None => singleton = created
  /\ \A i \in Instances : i # singleton => IF i <= created THEN Over(i) ELSE Fresh(i)
  /\ main # Idle => singleton # None /\ main.inst = singleton

\* A thread pushes WorkerStarted first and WorkerStopped last, and the main
\* thread shuts down when it has popped everything.
Signals(i) ==
  /\ InOrder(sigs[i])
  /\ Has(sigs[i], "WorkerStopped") => worker[i] = "done"
  /\ worker[i] = "announce" => sigs[i] = <<>>

SignalsInOrder ==
  /\ \A i \in Instances : Signals(i)
  /\ main # Idle /\ main.shutdown =>
       worker[main.inst] = "done" /\ sigs[main.inst] = <<>>

\* Without a Controller, nobody waits and V8 is let alone.
Rest ==
  singleton = None =>
    ~listening /\ startCbs = <<>> /\ stopCbs = <<>> /\ (~handler \/ lateEnable)

\* index.js waits for a start as long as WorkerStarted is due, and then
\* believes in a thread if there is one.
StartDue(i) == worker[i] = "announce" \/ Has(sigs[i], "WorkerStarted")

Started(i) ==
  /\ startCbs # <<>> <=> StartDue(i)
  /\ startCbs # <<>> => ~listening
  /\ ~listening => stopCbs = <<>>
  /\ startResult[i] = "error" => worker[i] = "none" /\ ~listening
  /\ startResult[i] = "ok" => worker[i] # "none" /\ (startCbs # <<>> \/ listening)

\* A thread leaves only when stop was called, and closes its handles last.
Stoppable(i) ==
  /\ stopSig[i] \/ worker[i] \in Leaving => stopCbs # <<>>
  /\ startResult[i] = "ok" /\ worker[i] \notin {"farewell", "done"} => asyncs[i] = "open"

\* Who waits keeps signals_ referenced.
Held(i) ==
  /\ sigHandle[i] = "open"
  /\ startCbs # <<>> \/ stopCbs # <<>> => sigRef[i]

\* Only a client that enabled the debugger, and is still there, leaves
\* MessageHandler installed, or one that enabled it after its close.
Watched(i) ==
  /\ client[i] # "enabled" => LeavesOff(sigs[i], handler) \/ lateEnable
  /\ worker[i] \notin InRun => client[i] = "none"

Lives ==
  /\ OnlyNewest
  /\ SignalsInOrder
  /\ Rest
  /\ singleton # None =>
       Started(singleton) /\ Stoppable(singleton) /\ Held(singleton) /\ Watched(singleton)

\* A thread that runs is the newest instance's.
LEMMA RunningIsCurrent ==
  ASSUME ThreadsType, Lives, NEW i \in Instances, worker[i] \notin {"none", "done"}
  PROVE  i = singleton /\ singleton # None /\ startResult[i] = "ok"
<1>1. i = singleton
  BY DEF Lives, OnlyNewest, Over, Fresh
<1>2. singleton # None
  BY <1>1 DEF Instances, None
<1> QED BY <1>1, <1>2 DEF ThreadsType, Lives, Started

\* The main thread pops signals of the newest instance.
LEMMA PoppedIsCurrent ==
  ASSUME ThreadsType, SigsType, Lives, NEW i \in Instances, NEW s, Pop(i, s)
  PROVE  /\ i = singleton /\ singleton # None /\ main # Idle /\ ~main.shutdown
         /\ sigs[i] \in Seq(SignalKinds) /\ sigs[i] # <<>> /\ Head(sigs[i]) = s
         /\ worker[i] # "announce"
<1>1. main # Idle /\ main.inst = i /\ sigs[i] # <<>> /\ Head(sigs[i]) = s
  BY DEF Pop, Idle
<1>2. i = singleton /\ singleton # None
  BY <1>1 DEF Lives, OnlyNewest
<1>3. sigs[i] \in Seq(SignalKinds)
  BY DEF SigsType
<1>4. ~main.shutdown /\ worker[i] # "announce"
  BY <1>1 DEF Lives, SignalsInOrder, Signals
<1> QED BY <1>1, <1>2, <1>3, <1>4

\* Before the first start() there is nothing to account for.
LEMMA InitLives == Init => Lives
<1> SUFFICES ASSUME Init PROVE Lives
  OBVIOUS
<1>1. singleton = None /\ created = None /\ main = Idle
  BY DEF Init, None
<1>2. \A i \in Instances : Fresh(i) /\ ~(i <= created)
  BY DEF Init, Fresh, Instances
<1> QED BY <1>1, <1>2, NothingLeft DEF Init, Lives, OnlyNewest, SignalsInOrder, Signals, Fresh, Rest

\* What a step leaves alone of instance j.
Same(j) ==
  /\ sigHandle'[j] = sigHandle[j] /\ sigs'[j] = sigs[j] /\ worker'[j] = worker[j]
  /\ startResult'[j] = startResult[j] /\ sending'[j] = sending[j]
  /\ asyncs'[j] = asyncs[j] /\ stopSig'[j] = stopSig[j] /\ client'[j] = client[j]

\* Of the Controller's instance, all that matters.
Sound(i) == Signals(i) /\ Started(i) /\ Stoppable(i) /\ Held(i) /\ Watched(i)

\* It is enough to look at the instance that takes the step.
LEMMA OthersStay ==
  ASSUME Lives, NEW i \in Instances, i = singleton, singleton # None,
         singleton' = singleton, created' = created,
         \A j \in Instances : j # i => Same(j),
         main' # Idle => /\ main'.inst = i
                         /\ main'.shutdown => worker'[i] = "done" /\ sigs'[i] = <<>>,
         Sound(i)'
  PROVE  Lives'
<1>1. OnlyNewest'
  <2>1. \A j \in Instances : j # i => IF j <= created' THEN Over(j)' ELSE Fresh(j)'
    BY DEF Lives, OnlyNewest, Same, Over, Fresh
  <2> QED BY <2>1 DEF Lives, OnlyNewest
<1>2. SignalsInOrder'
  <2>1. \A j \in Instances : j # i => Signals(j)'
    BY DEF Lives, SignalsInOrder, Signals, Same
  <2> QED BY <2>1 DEF SignalsInOrder, Sound
<1> QED BY <1>1, <1>2 DEF Lives, Rest, Sound

\* Calls of start and stop.
LEMMA ApiLives ==
  ASSUME ThreadsType, SigsType, MainTyped, Lives,
         StartAgain \/ StartJoin \/ StartRefused \/ StopNothing \/ Stop
  PROVE  Lives'
<1>1. CASE StartAgain \/ StartRefused \/ StopNothing
  BY <1>1 DEF StartAgain, StartRefused, StopNothing, sigVars, ctlVars, thrVars, connVars,
     Started, Stoppable, Held, Watched, StartDue, Lives, OnlyNewest, SignalsInOrder, Signals,
     Rest, Over, Fresh
<1>2. CASE StartJoin
  <2>1. startCbs' # <<>>
    BY <1>2 DEF StartJoin
  <2> QED BY <1>2, <2>1 DEF StartJoin, sigVars, ctlVars, thrVars, connVars,
          Started, Stoppable, Held, Watched, StartDue, Lives, OnlyNewest, SignalsInOrder,
          Signals, Rest, Over, Fresh
<1>3. CASE Stop
  <2>1. /\ stopCbs' # <<>> /\ listening /\ startCbs' = startCbs /\ listening' = listening
        /\ UNCHANGED <<singleton, created, handler, main, sigHandle, sigs, startResult,
                       worker, client, sending, asyncs, lateEnable>>
    BY <1>3 DEF Stop, ctlVars, thrVars, connVars
  <2>2. singleton # None /\ singleton \in Instances
    BY <2>1 DEF ThreadsType, Lives, Rest
  <2>3. CASE stopCbs # <<>>
    <3>1. stopSig' = stopSig /\ sigRef' = sigRef
      BY <1>3, <2>3 DEF Stop
    <3> QED BY <2>1, <2>2, <2>3, <3>1 DEF Started, Stoppable, Held, Watched, StartDue, Lives,
            OnlyNewest, SignalsInOrder, Signals, Rest, Over, Fresh
  <2>4. CASE stopCbs = <<>>
    <3>1. /\ stopSig' = [stopSig EXCEPT ![singleton] = TRUE]
          /\ sigRef' = [sigRef EXCEPT ![singleton] = TRUE]
      BY <1>3, <2>4 DEF Stop
    <3>2. /\ \A j \in Instances : j # singleton => Same(j)
          /\ sigRef'[singleton]
      BY <2>1, <2>2, <3>1 DEF ThreadsType, Same
    <3>3. Sound(singleton)'
      BY <2>1, <2>2, <3>2 DEF Sound, Started, Stoppable, Held, Watched, StartDue, Lives,
         SignalsInOrder, Signals
    <3>4. main' # Idle => /\ main'.inst = singleton
                          /\ main'.shutdown =>
                               worker'[singleton] = "done" /\ sigs'[singleton] = <<>>
      BY <2>1 DEF Lives, OnlyNewest, SignalsInOrder
    <3> QED BY <2>1, <2>2, <3>2, <3>3, <3>4, OthersStay
  <2> QED BY <2>3, <2>4
<1> QED BY <1>1, <1>2, <1>3

\* A new instance.
LEMMA StartLives ==
  ASSUME ThreadsType, SigsType, MainTyped, Lives, NEW i \in Instances,
         StartFails(i) \/ StartThread(i)
  PROVE  Lives'
<1>0. /\ singleton = None /\ i = created + 1 /\ singleton' = i /\ created' = i
      /\ ~listening /\ startCbs' # <<>> /\ listening' = listening
      /\ stopCbs' = stopCbs /\ handler' = handler /\ lateEnable' = lateEnable
      /\ main = Idle /\ main' = main
  BY DEF StartFails, StartThread, StartBegins, MainIdle, CallApi, connVars
<1>1. /\ singleton = None /\ i = created + 1 /\ singleton' = i /\ created' = i
      /\ ~listening /\ startCbs' # <<>> /\ listening' = listening
      /\ stopCbs' = <<>> /\ handler' \in BOOLEAN /\ (~handler' \/ lateEnable')
      /\ main = Idle /\ main' = main
  BY <1>0 DEF Lives, Rest, ThreadsType
<1>2. Fresh(i) /\ i # None /\ created \in Nat
  BY <1>1 DEF Lives, OnlyNewest, ThreadsType, Instances, None
<1>3. \A j \in Instances : j # i => Same(j)
  BY DEF StartFails, StartThread, StartBegins, ThreadsType, SigsType, Same
<1>4. /\ sigHandle'[i] = "open" /\ sigRef'[i] /\ stopSig'[i] = stopSig[i]
      /\ client'[i] = client[i]
  BY DEF StartFails, StartThread, StartBegins, ThreadsType
<1>5. OnlyNewest'
  <2>1. ASSUME NEW j \in Instances, j # i
        PROVE  IF j <= i THEN Over(j)' ELSE Fresh(j)'
    <3>1. j <= i <=> j <= created
      BY <1>1, <1>2, <2>1 DEF Instances
    <3>2. IF j <= created THEN Over(j) ELSE Fresh(j)
      BY <1>1 DEF Lives, OnlyNewest, None, Instances
    <3> QED BY <1>3, <2>1, <3>1, <3>2 DEF Over, Fresh, Same
  <2> QED BY <1>1, <1>2, <2>1 DEF OnlyNewest
<1>6. Rest' /\ Held(i)'
  BY <1>1, <1>2, <1>4 DEF Rest, Held
<1>7. ASSUME Signals(i)' PROVE SignalsInOrder'
  BY <1>1, <1>3, <1>7 DEF SignalsInOrder, Signals, Lives, Same
<1>8. client'[i] = "none" /\ ~stopSig'[i] /\ sigs[i] = <<>> /\ worker[i] = "none"
      /\ startResult[i] = "ok"
  BY <1>2, <1>4 DEF Fresh
<1>9. CASE StartFails(i)
  <2>1. /\ sigs'[i] = Append(<<>>, "WorkerStarted") /\ startResult'[i] = "error"
        /\ worker'[i] = "none" /\ asyncs'[i] = "closed"
    BY <1>8, <1>9 DEF StartFails, StartBegins, ThreadsType, SigsType
  <2> DEFINE s == Append(<<>>, "WorkerStarted")
  <2>2. Has(s, "WorkerStarted") /\ ~Has(s, "WorkerStopped") /\ InOrder(s) /\ LeavesOff(s, FALSE)
    <3>1. /\ Len(s) = 1 /\ DOMAIN s = {1} /\ s[1] = "WorkerStarted"
      OBVIOUS
    <3> HIDE DEF s
    <3> QED BY <3>1 DEF Has, InOrder, LeavesOff
  <2> HIDE DEF s
  <2>3. Signals(i)'
    BY <2>1, <2>2 DEF Signals, s
  <2>4. Started(i)'
    BY <1>1, <2>1, <2>2 DEF Started, StartDue, s
  <2>5. Stoppable(i)'
    BY <1>8, <2>1 DEF Stoppable, Leaving
  <2>6. Watched(i)'
    BY <1>1, <1>8, <2>1, <2>2 DEF Watched, s
  <2> QED BY <1>1, <1>5, <1>6, <1>7, <2>3, <2>4, <2>5, <2>6 DEF Lives
<1>10. CASE StartThread(i)
  <2>1. /\ sigs'[i] = <<>> /\ startResult'[i] = "ok"
        /\ worker'[i] = "announce" /\ asyncs'[i] = "open"
    BY <1>8, <1>10 DEF StartThread, StartBegins, ThreadsType, SigsType
  <2>2. Signals(i)'
    BY <2>1, NothingLeft DEF Signals
  <2>3. Started(i)'
    BY <1>1, <2>1 DEF Started, StartDue
  <2>4. Stoppable(i)'
    BY <1>8, <2>1 DEF Stoppable, Leaving
  <2>5. Watched(i)'
    BY <1>1, <1>8, <2>1, NothingLeft DEF Watched
  <2> QED BY <1>1, <1>5, <1>6, <1>7, <2>2, <2>3, <2>4, <2>5 DEF Lives
<1> QED BY <1>9, <1>10

\* What a step of the main thread that pops a signal does to signals_, and to
\* what is expected of it.
LEMMA Popped ==
  ASSUME ThreadsType, SigsType, Lives, NEW i \in Instances, NEW x, Pop(i, x)
  PROVE  /\ \A j \in Instances : j # i => Same(j)
         /\ worker'[i] = worker[i] /\ sigHandle'[i] = sigHandle[i]
         /\ startResult'[i] = startResult[i] /\ stopSig'[i] = stopSig[i]
         /\ asyncs'[i] = asyncs[i] /\ client'[i] = client[i]
         /\ singleton' = singleton /\ created' = created /\ stopCbs' = stopCbs
         /\ lateEnable' = lateEnable
         /\ sigs'[i] = Tail(sigs[i])
         /\ Signals(i)' /\ ~Has(sigs'[i], "WorkerStarted")
         /\ StartDue(i) <=> x = "WorkerStarted"
         /\ x = "WorkerStopped" => worker'[i] = "done" /\ sigs'[i] = <<>>
         /\ Stoppable(i)'
<1>1. /\ i = singleton /\ singleton # None /\ sigs[i] \in Seq(SignalKinds)
      /\ sigs[i] # <<>> /\ Head(sigs[i]) = x /\ worker[i] # "announce"
  BY PoppedIsCurrent
<1>2. /\ \A j \in Instances : j # i => Same(j)
      /\ sigs'[i] = Tail(sigs[i])
  BY DEF Pop, SigsType, Same, thrVars
<1>3. /\ UNCHANGED <<worker, sigHandle, startResult, stopSig, asyncs, client, singleton,
                     created, stopCbs, lateEnable>>
  BY DEF Pop, thrVars, connVars
<1>4. Signals(i) /\ Stoppable(i)
  BY <1>1 DEF Lives, SignalsInOrder
<1>5. /\ \A y : Has(sigs[i], y) <=> x = y \/ Has(sigs'[i], y)
      /\ InOrder(sigs'[i]) /\ ~Has(sigs'[i], "WorkerStarted")
      /\ x = "WorkerStopped" => sigs'[i] = <<>>
  BY <1>1, <1>2, <1>4, PopFirst DEF Signals
<1>6. Signals(i)' /\ (x = "WorkerStopped" => worker'[i] = "done")
  BY <1>1, <1>3, <1>4, <1>5 DEF Signals
<1>7. Stoppable(i)'
  BY <1>3, <1>4 DEF Stoppable
<1>8. StartDue(i) <=> x = "WorkerStarted"
  BY <1>1, <1>5 DEF StartDue
<1> QED BY <1>2, <1>3, <1>5, <1>6, <1>7, <1>8

\* The main thread pops a signal.
LEMMA PopLives ==
  ASSUME ThreadsType, SigsType, MainTyped, Lives, NEW i \in Instances,
         PopStarted(i) \/ PopRequest(i) \/ PopStopped(i)
  PROVE  Lives'
<1>1. PICK x : Pop(i, x)
  BY DEF PopStarted, PopRequest, PopStopped
<1>2. /\ i = singleton /\ singleton # None /\ main # Idle /\ ~main.shutdown
      /\ sigs[i] \in Seq(SignalKinds) /\ sigs[i] # <<>> /\ Head(sigs[i]) = x
      /\ worker[i] # "announce"
  BY <1>1, PoppedIsCurrent
<1>3. /\ \A j \in Instances : j # i => Same(j)
      /\ worker'[i] = worker[i] /\ sigHandle'[i] = sigHandle[i]
      /\ startResult'[i] = startResult[i] /\ client'[i] = client[i]
      /\ singleton' = singleton /\ created' = created /\ stopCbs' = stopCbs
      /\ lateEnable' = lateEnable
      /\ sigs'[i] = Tail(sigs[i])
      /\ Signals(i)' /\ ~Has(sigs'[i], "WorkerStarted")
      /\ StartDue(i) <=> x = "WorkerStarted"
      /\ x = "WorkerStopped" => worker'[i] = "done" /\ sigs'[i] = <<>>
      /\ Stoppable(i)'
  BY <1>1, Popped
<1>4. Started(i) /\ Held(i) /\ Watched(i)
  BY <1>2 DEF Lives
<1>5. main \in [at : {"popping", "responding"}, inst : Instances, shutdown : BOOLEAN]
      /\ main.inst = i
  BY <1>1, <1>2 DEF MainTyped, MainType, Pop
<1>6. ASSUME NEW was \in BOOLEAN, LeavesOff(sigs[i], was)
      PROVE  /\ x = "Enable" => LeavesOff(sigs'[i], TRUE)
             /\ x = "Disable" => LeavesOff(sigs'[i], FALSE)
             /\ x \notin {"Enable", "Disable"} => LeavesOff(sigs'[i], was)
  BY <1>2, <1>3, <1>6, PopFirst
<1>7. ~StartDue(i)'
  BY <1>2, <1>3 DEF StartDue
<1>8. handler \in BOOLEAN /\ sigRef \in [Instances -> BOOLEAN]
      /\ startResult[i] \in {"ok", "error"}
  BY DEF ThreadsType
<1>9. CASE PopStarted(i)
  <2>1. x = "WorkerStarted" /\ startCbs' = <<>> /\ handler' = handler /\ main' = main
        /\ listening' = (listening \/ startResult[i] = "ok")
    BY <1>1, <1>9 DEF PopStarted, Pop
  <2>2. startCbs # <<>> /\ ~listening /\ stopCbs = <<>>
    BY <1>3, <1>4, <2>1 DEF Started
  <2>3. Started(i)'
    BY <1>3, <1>4, <1>7, <1>8, <2>1, <2>2 DEF Started
  <2>4. Held(i)'
    BY <1>3, <1>4, <2>1, <2>2 DEF Held
  <2>5. Watched(i)'
    BY <1>3, <1>4, <1>6, <1>8, <2>1 DEF Watched
  <2> QED BY <1>2, <1>3, <1>5, <2>1, <2>3, <2>4, <2>5, OthersStay DEF Sound
<1>10. CASE PopRequest(i) \/ PopStopped(i)
  <2>1. UNCHANGED <<sigRef, listening, startCbs>> /\ x # "WorkerStarted"
    BY <1>1, <1>10 DEF PopRequest, PopStopped, Pop
  <2>2. Started(i)' /\ Held(i)'
    BY <1>3, <1>4, <1>7, <2>1 DEF Started, Held
  <2>3. Watched(i)'
    <3>1. CASE PopRequest(i)
      <4>1. x \in {"Enable", "Disable"} /\ handler' = (x = "Enable")
        BY <1>1, <3>1 DEF PopRequest, Pop
      <4> QED BY <1>3, <1>4, <1>6, <1>8, <4>1 DEF Watched
    <3>2. CASE PopStopped(i)
      <4>1. x = "WorkerStopped" /\ handler' = handler
        BY <1>1, <3>2 DEF PopStopped, Pop
      <4> QED BY <1>3, <1>4, <1>6, <1>8, <4>1 DEF Watched
    <3> QED BY <1>10, <3>1, <3>2
  <2>4. main' # Idle => /\ main'.inst = i
                        /\ main'.shutdown => worker'[i] = "done" /\ sigs'[i] = <<>>
    <3>1. CASE PopRequest(i)
      <4>1. main' = main \/ main' = [main EXCEPT !.at = "responding"]
        BY <3>1 DEF PopRequest
      <4> QED BY <1>2, <1>5, <4>1
    <3>2. CASE PopStopped(i)
      <4>1. main' = [main EXCEPT !.shutdown = TRUE] /\ x = "WorkerStopped"
        BY <1>1, <3>2 DEF PopStopped, Pop
      <4> QED BY <1>3, <1>5, <4>1
    <3> QED BY <1>10, <3>1, <3>2
  <2> QED BY <1>2, <1>3, <2>2, <2>3, <2>4, OthersStay DEF Sound
<1> QED BY <1>9, <1>10

\* The main thread wakes up, responds, goes back to its loop or shuts down.
LEMMA MainLives ==
  ASSUME ThreadsType, SigsType, MainTyped, Lives, NEW i \in Instances,
         Wake(i) \/ SendResponse(i) \/ DrainEnds(i) \/ ShutDown(i)
  PROVE  Lives'
<1>1. CASE Wake(i)
  <2>1. i = singleton /\ singleton # None
    BY <1>1 DEF Wake, Lives, OnlyNewest, Over, Fresh, Instances, None
  <2>2. main' = [at |-> "popping", inst |-> i, shutdown |-> FALSE]
    BY <1>1 DEF Wake
  <2>3. UNCHANGED <<jsVars, sigHandle, sigRef, sigs, ctlVars, startResult, thrVars,
                    sending, asyncs, stopSig, lateEnable>>
    BY <1>1 DEF Wake, connVars
  <2>4. Sound(i)'
    BY <2>1, <2>3 DEF jsVars, ctlVars, thrVars, Lives, Sound, SignalsInOrder, Signals,
       Started, Stoppable, Held, Watched, StartDue
  <2> QED BY <2>1, <2>2, <2>3, <2>4, OthersStay DEF ctlVars, thrVars, Same
<1>2. CASE SendResponse(i)
  <2>1. main # Idle /\ main.inst = i /\ main' = [main EXCEPT !.at = "popping"]
    BY <1>2 DEF SendResponse, Idle
  <2>2. i = singleton /\ singleton # None
    BY <2>1 DEF Lives, OnlyNewest
  <2>3. main'.inst = i /\ main'.shutdown = main.shutdown
    BY <2>1 DEF MainTyped, MainType
  <2>4. UNCHANGED <<jsVars, sigVars, ctlVars, startResult, thrVars, sending, asyncs, stopSig,
                    lateEnable>>
    BY <1>2 DEF SendResponse, connVars
  <2>5. Sound(i)'
    BY <2>2, <2>4 DEF jsVars, sigVars, ctlVars, thrVars, Lives, Sound, SignalsInOrder, Signals,
       Started, Stoppable, Held, Watched, StartDue
  <2> QED BY <2>1, <2>2, <2>3, <2>4, <2>5, OthersStay
          DEF sigVars, ctlVars, thrVars, Same, Lives, SignalsInOrder
<1>3. CASE DrainEnds(i)
  <2>1. main' = Idle /\ UNCHANGED <<jsVars, sigVars, ctlVars, startResult, thrVars, sending,
                                    asyncs, stopSig, lateEnable>>
    BY <1>3 DEF DrainEnds, connVars
  <2> QED BY <2>1 DEF jsVars, sigVars, ctlVars, thrVars, Lives, OnlyNewest, SignalsInOrder,
          Signals, Rest, Started, Stoppable, Held, Watched, StartDue, Over, Fresh
<1>4. CASE ShutDown(i)
  <2>1. main # Idle /\ main.inst = i /\ main.shutdown
    BY <1>4 DEF ShutDown, Idle
  <2>2. i = singleton /\ singleton # None /\ i = created /\ worker[i] = "done" /\ sigs[i] = <<>>
    BY <2>1 DEF Lives, OnlyNewest, SignalsInOrder
  <2>3. startCbs = <<>>
    BY <2>2, NothingLeft DEF Lives, Started, StartDue
  <2>4. ~handler \/ lateEnable
    BY <2>2, NothingLeft DEF Lives, Watched, InRun, ThreadsType
  <2>5. /\ main' = Idle /\ singleton' = None /\ created' = created /\ ~listening'
        /\ startCbs' = <<>> /\ stopCbs' = <<>> /\ (~handler' \/ lateEnable')
        /\ UNCHANGED <<sigs, startResult, worker, sending, asyncs, stopSig, client>>
        /\ sigHandle' = [sigHandle EXCEPT ![i] = "closed"]
    BY <1>4, <2>3, <2>4 DEF ShutDown, thrVars, connVars
  <2>6. Over(i)' /\ \A j \in Instances : j # i => sigHandle'[j] = sigHandle[j]
    BY <2>2, <2>5 DEF ThreadsType, Over
  <2>7. \A j \in Instances : IF j <= created' THEN Over(j)' ELSE Fresh(j)'
    <3>1. \A j \in Instances : j # i => IF j <= created THEN Over(j) ELSE Fresh(j)
      BY <2>2 DEF Lives, OnlyNewest
    <3>2. i <= created
      BY <2>2 DEF Instances
    <3> QED BY <2>5, <2>6, <3>1, <3>2 DEF Over, Fresh
  <2>8. SignalsInOrder'
    BY <2>5 DEF Lives, SignalsInOrder, Signals
  <2> QED BY <2>5, <2>7, <2>8 DEF Lives, OnlyNewest, Rest
<1> QED BY <1>1, <1>2, <1>3, <1>4

\* A step of a thread that has neither ended nor yet to begin: what holds
\* before it.
LEMMA ThreadIs ==
  ASSUME ThreadsType, SigsType, Lives, NEW i \in Instances, worker[i] \notin {"none", "done"}
  PROVE  /\ i = singleton /\ singleton # None /\ startResult[i] = "ok"
         /\ Signals(i) /\ Started(i) /\ Stoppable(i) /\ Held(i) /\ Watched(i)
         /\ sigs[i] \in Seq(SignalKinds) /\ ~Has(sigs[i], "WorkerStopped")
         /\ main # Idle => main.inst = i /\ ~main.shutdown
<1>1. i = singleton /\ singleton # None /\ startResult[i] = "ok"
  BY RunningIsCurrent
<1>2. Signals(i) /\ Started(i) /\ Stoppable(i) /\ Held(i) /\ Watched(i)
  BY <1>1 DEF Lives, SignalsInOrder
<1>3. main # Idle => main.inst = i /\ ~main.shutdown
  BY <1>1 DEF Lives, OnlyNewest, SignalsInOrder
<1> QED BY <1>1, <1>2, <1>3 DEF SigsType, Signals

\* What no step of a thread changes.
LEMMA ThreadLeaves ==
  ASSUME FromThread
  PROVE  UNCHANGED <<listening, startCbs, stopCbs, singleton, created, handler, main,
                     startResult, sigHandle, sigRef>>
BY DEF FromThread, jsVars, ctlVars

\* A thread goes on without a signal.
LEMMA QuietLives ==
  ASSUME ThreadsType, SigsType, Lives, NEW i \in Instances,
         worker[i] \notin {"none", "done"}, FromThread, UNCHANGED sigs,
         \A j \in Instances : j # i => Same(j),
         worker'[i] # "done",
         worker[i] # "announce" /\ worker'[i] \notin {"none", "announce"},
         stopSig'[i] => stopSig[i],
         worker'[i] \in Leaving => stopSig[i] \/ worker[i] \in Leaving,
         asyncs'[i] = asyncs[i] \/ worker'[i] = "farewell",
         worker[i] # "farewell",
         client'[i] # "enabled" => client[i] # "enabled",
         lateEnable' = lateEnable,
         worker'[i] \notin InRun => client'[i] = "none"
  PROVE  Lives'
<1>1. /\ i = singleton /\ singleton # None /\ startResult[i] = "ok"
      /\ Signals(i) /\ Started(i) /\ Stoppable(i) /\ Held(i) /\ Watched(i)
      /\ sigs[i] \in Seq(SignalKinds) /\ ~Has(sigs[i], "WorkerStopped")
      /\ main # Idle => main.inst = i /\ ~main.shutdown
  BY ThreadIs
<1>2. UNCHANGED <<listening, startCbs, stopCbs, singleton, created, handler, main,
                  startResult, sigHandle, sigRef>>
  BY ThreadLeaves
<1>3. Signals(i)'
  BY <1>1 DEF Signals
<1>4. Started(i)'
  BY <1>1, <1>2 DEF Started, StartDue
<1>5. Stoppable(i)'
  BY <1>1, <1>2 DEF Stoppable
<1>6. Held(i)' /\ Watched(i)'
  BY <1>1, <1>2 DEF Held, Watched
<1> QED BY <1>1, <1>2, <1>3, <1>4, <1>5, <1>6, OthersStay DEF Sound

\* A thread goes on and pushes signal x.
LEMMA PushingLives ==
  ASSUME ThreadsType, SigsType, Lives, NEW i \in Instances, NEW x \in SignalKinds,
         worker[i] \notin {"none", "done"}, FromThread,
         sigs'[i] = Append(sigs[i], x),
         \A j \in Instances : j # i => Same(j),
         x = "WorkerStarted" <=> worker[i] = "announce",
         x = "WorkerStopped" => worker'[i] = "done",
         worker'[i] \notin {"none", "announce"},
         stopSig'[i] = stopSig[i],
         worker'[i] \in Leaving => worker[i] \in Leaving,
         asyncs'[i] = asyncs[i],
         worker[i] = "farewell" => worker'[i] = "done",
         x = "Enable" => client'[i] = "enabled" \/ lateEnable',
         client'[i] # "enabled" => client[i] # "enabled" \/ x = "Disable" \/ lateEnable',
         lateEnable => lateEnable' \/ x = "Disable",
         worker'[i] \notin InRun => client'[i] = "none"
  PROVE  Lives'
<1>1. /\ i = singleton /\ singleton # None /\ startResult[i] = "ok"
      /\ Signals(i) /\ Started(i) /\ Stoppable(i) /\ Held(i) /\ Watched(i)
      /\ sigs[i] \in Seq(SignalKinds) /\ ~Has(sigs[i], "WorkerStopped")
      /\ main # Idle => main.inst = i /\ ~main.shutdown
  BY ThreadIs
<1>2. UNCHANGED <<listening, startCbs, stopCbs, singleton, created, handler, main,
                  startResult, sigHandle, sigRef>>
  BY ThreadLeaves
<1>3. handler \in BOOLEAN
  BY DEF ThreadsType
<1>4. /\ \A y : Has(sigs'[i], y) <=> Has(sigs[i], y) \/ x = y
      /\ InOrder(sigs[i]) /\ (x = "WorkerStarted" => sigs[i] = <<>>) => InOrder(sigs'[i])
      /\ x = "Disable" => LeavesOff(sigs'[i], handler)
      /\ x # "Enable" /\ LeavesOff(sigs[i], handler) => LeavesOff(sigs'[i], handler)
  BY <1>1, <1>3, PushBehind
<1>5. Signals(i)'
  BY <1>1, <1>4 DEF Signals
<1>6. Started(i)'
  BY <1>1, <1>2, <1>4 DEF Started, StartDue
<1>7. Stoppable(i)'
  BY <1>1, <1>2 DEF Stoppable
<1>8. Held(i)'
  BY <1>1, <1>2 DEF Held
<1>9. Watched(i)'
  BY <1>1, <1>2, <1>4 DEF Watched
<1> QED BY <1>1, <1>2, <1>5, <1>6, <1>7, <1>8, <1>9, OthersStay DEF Sound

\* The steps of a thread.
LEMMA WorkerLives ==
  ASSUME ThreadsType, SigsType, Lives, NEW i \in Instances,
         \/ Announce(i) \/ Begin(i) \/ Connect(i) \/ ClientEnables(i) \/ ClientLeaves(i)
         \/ LateEnable(i) \/ ClientClosed(i) \/ StopSignalCb(i) \/ CloseClient(i) \/ LeaveRun(i)
         \/ Cleanup(i) \/ Farewell(i)
  PROVE  Lives'
<1>1. worker \in [Instances -> {"none", "announce", "begin", "loop", "closeClient",
                                "drain", "cleanup", "farewell", "done"}]
      /\ asyncs \in [Instances -> HandleStates] /\ stopSig \in [Instances -> BOOLEAN]
      /\ client \in [Instances -> {"none", "open", "enabled", "closing", "lines"}]
      /\ sending \in [Instances -> BOOLEAN]
  BY DEF ThreadsType
<1>2. FromThread /\ worker[i] \notin {"none", "done"}
  BY DEF Announce, Begin, Connect, ClientEnables, ClientLeaves, LateEnable, ClientClosed,
     StopSignalCb, CloseClient, LeaveRun, Cleanup, Farewell, At, Serving
<1>3. UNCHANGED <<startResult, sigHandle>>
  BY <1>2, ThreadLeaves
<1>4. Watched(i)
  BY <1>2, ThreadIs
<1>5. CASE Begin(i) \/ Connect(i) \/ ClientClosed(i) \/ StopSignalCb(i) \/ LeaveRun(i)
           \/ Cleanup(i)
  <2>1. UNCHANGED <<sigs, sending, lateEnable>>
    BY <1>5 DEF Begin, Connect, ClientClosed, StopSignalCb, LeaveRun, Cleanup, connVars
  <2>2. /\ \A j \in Instances : j # i =>
             /\ worker'[j] = worker[j] /\ asyncs'[j] = asyncs[j]
             /\ stopSig'[j] = stopSig[j] /\ client'[j] = client[j]
        /\ worker'[i] # "done" /\ worker[i] \notin {"announce", "farewell"}
        /\ worker'[i] \notin {"none", "announce"}
        /\ stopSig'[i] => stopSig[i]
        /\ worker'[i] \in Leaving => stopSig[i] \/ worker[i] \in Leaving
        /\ asyncs'[i] = asyncs[i] \/ worker'[i] = "farewell"
        /\ client'[i] # "enabled" => client[i] # "enabled"
        /\ worker'[i] \notin InRun => client'[i] = "none"
    <3>1. CASE Begin(i) \/ Connect(i) \/ ClientClosed(i)
      BY <1>1, <1>4, <3>1 DEF Begin, Connect, ClientClosed, At, Serving, Goto, Leaving, InRun,
         Watched
    <3>2. CASE StopSignalCb(i) \/ LeaveRun(i) \/ Cleanup(i)
      BY <1>1, <1>4, <3>2 DEF StopSignalCb, LeaveRun, Cleanup, At, Goto, Leaving, InRun,
         Watched
    <3> QED BY <1>5, <3>1, <3>2
  <2>3. \A j \in Instances : j # i => Same(j)
    BY <1>3, <2>1, <2>2 DEF Same
  <2> QED BY <1>2, <2>1, <2>2, <2>3, QuietLives
<1>6. CASE CloseClient(i) /\ client[i] = "none"
  <2>1. /\ worker' = [worker EXCEPT ![i] = "drain"] /\ worker[i] = "closeClient"
        /\ UNCHANGED <<sigs, sending, client, asyncs, stopSig, lateEnable>>
    BY <1>6 DEF CloseClient, Goto, At
  <2>2. worker'[i] = "drain" /\ \A j \in Instances : j # i => Same(j)
    BY <1>1, <1>3, <2>1 DEF Same
  <2> QED BY <1>2, <1>6, <2>1, <2>2, QuietLives DEF Leaving, InRun
<1>7. CASE Announce(i) \/ ClientEnables(i) \/ ClientLeaves(i) \/ LateEnable(i) \/ Farewell(i)
           \/ (CloseClient(i) /\ client[i] # "none")
  <2>1. PICK x \in SignalKinds :
          /\ sigs' = [sigs EXCEPT ![i] = Append(@, x)]
          /\ sending' = [sending EXCEPT ![i] = TRUE]
          /\ stopSig' = stopSig /\ asyncs' = asyncs
          /\ \A j \in Instances : j # i => worker'[j] = worker[j] /\ client'[j] = client[j]
          /\ x = "WorkerStarted" <=> worker[i] = "announce"
          /\ x = "WorkerStopped" => worker'[i] = "done"
          /\ worker'[i] \notin {"none", "announce"}
          /\ worker'[i] \in Leaving => worker[i] \in Leaving
          /\ worker[i] = "farewell" => worker'[i] = "done"
          /\ x = "Enable" => client'[i] = "enabled" \/ lateEnable'
          /\ client'[i] # "enabled" => client[i] # "enabled" \/ x = "Disable" \/ lateEnable'
          /\ lateEnable => lateEnable' \/ x = "Disable"
          /\ worker'[i] \notin InRun => client'[i] = "none"
    <3>1. CASE Announce(i) \/ Farewell(i)
      <4>1. client[i] = "none"
        BY <1>4, <3>1 DEF Announce, Farewell, At, Watched, InRun
      <4>2. CASE Announce(i)
        <5>1. Push(i, "WorkerStarted") /\ worker[i] = "announce"
              /\ worker' = [worker EXCEPT ![i] = "begin"]
              /\ UNCHANGED <<client, asyncs, stopSig, lateEnable>>
          BY <4>2 DEF Announce, At, Goto, connVars
        <5> QED BY <1>1, <4>1, <5>1 DEF Push, Leaving, InRun, SignalKinds
      <4>3. CASE Farewell(i)
        <5>1. Push(i, "WorkerStopped") /\ worker[i] = "farewell"
              /\ worker' = [worker EXCEPT ![i] = "done"]
              /\ UNCHANGED <<client, asyncs, stopSig, lateEnable>>
          BY <4>3 DEF Farewell, At, Goto, connVars
        <5> QED BY <1>1, <4>1, <5>1 DEF Push, Leaving, InRun, SignalKinds
      <4> QED BY <3>1, <4>2, <4>3
    <3>2. CASE ClientEnables(i)
      <4>1. Push(i, "Enable") /\ worker[i] \in Serving
            /\ client' = [client EXCEPT ![i] = "enabled"]
            /\ UNCHANGED <<worker, asyncs, stopSig, lateEnable>>
        BY <3>2 DEF ClientEnables, At, connVars
      <4> QED BY <1>1, <4>1 DEF Push, Serving, Leaving, InRun, SignalKinds
    <3>3. CASE ClientLeaves(i)
      <4>1. PICK next \in {"closing", "lines"} : client' = [client EXCEPT ![i] = next]
        BY <3>3 DEF ClientLeaves
      <4>2. Push(i, "Disable") /\ worker[i] \in Serving
            /\ UNCHANGED <<worker, asyncs, stopSig>>
        BY <3>3 DEF ClientLeaves, At
      <4> QED BY <1>1, <4>1, <4>2 DEF Push, Serving, Leaving, InRun, SignalKinds
    <3>5. CASE LateEnable(i)
      <4>1. Push(i, "Enable") /\ worker[i] \in Serving
            /\ client' = [client EXCEPT ![i] = "closing"] /\ lateEnable'
            /\ UNCHANGED <<worker, asyncs, stopSig>>
        BY <3>5 DEF LateEnable
      <4> QED BY <1>1, <4>1 DEF Push, Serving, Leaving, InRun, SignalKinds
    <3>4. CASE CloseClient(i) /\ client[i] # "none"
      <4>1. Push(i, "Disable") /\ worker[i] = "closeClient"
            /\ client' = [client EXCEPT ![i] = "closing"]
            /\ worker' = [worker EXCEPT ![i] = "drain"]
            /\ UNCHANGED <<asyncs, stopSig>>
        BY <3>4 DEF CloseClient, Goto, At
      <4> QED BY <1>1, <4>1 DEF Push, Serving, Leaving, InRun, SignalKinds
    <3> QED BY <1>7, <3>1, <3>2, <3>3, <3>4, <3>5
  <2>2. sigs'[i] = Append(sigs[i], x) /\ \A j \in Instances : j # i => sigs'[j] = sigs[j]
    BY <2>1 DEF SigsType
  <2>3. \A j \in Instances : j # i => Same(j)
    BY <1>1, <1>3, <2>1, <2>2 DEF Same
  <2>4. stopSig'[i] = stopSig[i] /\ asyncs'[i] = asyncs[i]
    BY <2>1
  <2> HIDE DEF InRun, Leaving
  <2>5. /\ x = "WorkerStarted" <=> worker[i] = "announce"
        /\ x = "WorkerStopped" => worker'[i] = "done"
        /\ worker'[i] \notin {"none", "announce"}
        /\ worker'[i] \in Leaving => worker[i] \in Leaving
        /\ worker[i] = "farewell" => worker'[i] = "done"
        /\ x = "Enable" => client'[i] = "enabled" \/ lateEnable'
        /\ client'[i] # "enabled" => client[i] # "enabled" \/ x = "Disable" \/ lateEnable'
        /\ lateEnable => lateEnable' \/ x = "Disable"
        /\ worker'[i] \notin InRun => client'[i] = "none"
    BY <2>1
  <2> QED BY ONLY <1>2, <2>2, <2>3, <2>4, <2>5, PushingLives, ThreadsType, SigsType, Lives
<1> QED BY <1>5, <1>6, <1>7

\* Send, and what happens to rejected clients.
LEMMA AsideLives ==
  ASSUME ThreadsType, SigsType, Lives, NEW i \in Instances,
         SendSignal(i) \/ Reject(i) \/ WriteCb(i) \/ CloseCb(i)
  PROVE  Lives'
<1>1. FromThread /\ UNCHANGED <<sigs, thrVars, asyncs, stopSig, lateEnable>>
      /\ (sending' = sending \/ sending' = [sending EXCEPT ![i] = FALSE])
  BY DEF SendSignal, Reject, WriteCb, CloseCb, connVars
<1>2. UNCHANGED <<listening, startCbs, stopCbs, singleton, created, handler, main,
                  startResult, sigHandle, sigRef>>
  BY <1>1, ThreadLeaves
<1>3. \A j \in Instances : sending'[j] => sending[j]
  BY <1>1 DEF ThreadsType
<1> QED BY <1>1, <1>2, <1>3 DEF thrVars, Lives, OnlyNewest, SignalsInOrder, Signals, Rest,
        Started, Stoppable, Held, Watched, StartDue, Over, Fresh

\* Lives is inductive: every step of either thread keeps it.
LEMMA NextLives == TypeOK /\ Lives /\ [Next]_vars => Lives'
<1> SUFFICES ASSUME TypeOK, Lives, [Next]_vars PROVE Lives'
  OBVIOUS
<1>1. ThreadsType /\ SigsType /\ MainTyped
  BY TypeParts
<1>2. CASE UNCHANGED vars
  <2>1. UNCHANGED <<jsVars, sigVars, ctlVars, main, startResult, thrVars, sending, asyncs,
                    stopSig, lateEnable>>
    BY <1>2 DEF vars, connVars
  <2> QED BY <2>1 DEF jsVars, sigVars, ctlVars, thrVars, Lives, OnlyNewest, SignalsInOrder,
          Signals, Rest, Started, Stoppable, Held, Watched, StartDue, Over, Fresh
<1>3. CASE StartAgain \/ StartJoin \/ StartRefused \/ StopNothing \/ Stop
  BY <1>1, <1>3, ApiLives
<1>4. ASSUME NEW i \in Instances, StartFails(i) \/ StartThread(i)
      PROVE  Lives'
  BY <1>1, <1>4, StartLives
<1>5. ASSUME NEW i \in Instances, MainStep(i)
      PROVE  Lives'
  BY <1>1, <1>5, MainLives, PopLives DEF MainStep
<1>6. ASSUME NEW i \in Instances,
             ThreadStep(i) \/ Connect(i) \/ Reject(i) \/ ClientEnables(i) \/ ClientLeaves(i)
      PROVE  Lives'
  BY <1>1, <1>6, WorkerLives, AsideLives DEF ThreadStep
<1> QED BY <1>2, <1>3, <1>4, <1>5, <1>6 DEF Next

\* Throughout the life of the module, whatever is called and whoever connects:
\* one instance at most is neither fresh nor over, and index.js, the Controller
\* and the thread agree on how far it is.
THEOREM LivesAlways == Spec => []Lives
<1>1. Init => Lives
  BY InitLives
<1>2. TypeOK /\ TypeOK' /\ Lives /\ [Next]_vars => Lives'
  BY NextLives
<1> QED BY <1>1, <1>2, TypeCorrect, PTL DEF Spec

------------------------------------------------------------------------------
(* What follows.                                                             *)

\* stop() always finds the Controller it dereferences without a check, and the
\* handle of the stop signal is open (debugger.cc:117-118, worker.cc's
\* Worker::Stop).
THEOREM StopFindsWorkerAlways == Spec => []StopFindsWorker
<1>1. TypeOK /\ Lives => StopFindsWorker
  <2> SUFFICES ASSUME ThreadsType, Lives, listening, stopCbs = <<>>
               PROVE  singleton # None /\ asyncs[singleton] = "open"
    BY TypeParts DEF StopFindsWorker
  <2>1. singleton # None
    BY DEF Lives, Rest
  <2>2. Started(singleton) /\ Stoppable(singleton) /\ singleton \in Instances
    BY <2>1 DEF Lives, ThreadsType
  <2>3. startResult[singleton] = "ok" /\ worker[singleton] \notin Leaving
    BY <2>2 DEF Started, Stoppable, ThreadsType
  <2> QED BY <2>1, <2>2, <2>3 DEF Stoppable, Leaving
<1> QED BY <1>1, TypeCorrect, LivesAlways, PTL

\* While a call of start or of stop waits for its answer, signals_ of the
\* instance that will answer it is open and referenced: the process does not
\* end before it.
THEOREM PendingKeepsProcessUpAlways == Spec => []PendingKeepsProcessUp
<1>1. TypeOK /\ Lives => PendingKeepsProcessUp
  <2> SUFFICES ASSUME ThreadsType, Lives, startCbs # <<>> \/ stopCbs # <<>>
               PROVE  \E i \in Instances : sigHandle[i] = "open" /\ sigRef[i]
    BY TypeParts DEF PendingKeepsProcessUp
  <2>1. singleton # None /\ singleton \in Instances
    BY DEF Lives, Rest, ThreadsType
  <2> QED BY <2>1 DEF Lives, Held
<1> QED BY <1>1, TypeCorrect, LivesAlways, PTL

\* When index.js believes that nothing runs or is being started, it is right:
\* every thread has pushed its last signal, and the next start finds no
\* Controller in its way but one whose Worker::Start failed.
THEOREM NothingLeftBehindAlways == Spec => []NothingLeftBehind
<1>1. TypeOK /\ Lives => NothingLeftBehind
  <2> SUFFICES ASSUME ThreadsType, Lives, ~listening, startCbs = <<>>
               PROVE  /\ \A i \in Instances : worker[i] \in {"none", "done"}
                      /\ singleton = None \/ startResult[singleton] = "error"
    BY TypeParts DEF NothingLeftBehind
  <2>1. ASSUME singleton # None
        PROVE  startResult[singleton] = "error" /\ worker[singleton] = "none"
    BY <2>1 DEF Lives, Started, ThreadsType
  <2>2. \A i \in Instances : i # singleton => worker[i] \in {"none", "done"}
    BY DEF Lives, OnlyNewest, Over, Fresh
  <2>3. \A i \in Instances : i # None
    BY DEF Instances, None
  <2> QED BY <2>1, <2>2, <2>3
<1> QED BY <1>1, TypeCorrect, LivesAlways, PTL

\* V8 has MessageHandler installed only while there is a Controller for it to
\* find (controller.cc:225-226), or since a client enabled the debugger after
\* its own close and no other has left since.
THEOREM HandlerHasControllerAlways == Spec => []HandlerHasController
<1>1. Lives => HandlerHasController
  BY DEF Lives, Rest, HandlerHasController
<1> QED BY <1>1, LivesAlways, PTL

==============================================================================
