---------------------------- MODULE SessionProofs ----------------------------
(*****************************************************************************)
(* The safety of Session: its two handshakes, the functions deferred until   *)
(* the debugger is enabled, what a client that is gone leaves behind, that   *)
(* no line is answered twice, and the refinement of Attachment.              *)
(* Each invariant is inductive relative to those proved before it; the       *)
(* proofs turn on what a step pushes onto signals_ and onto V8's queue.      *)
(*****************************************************************************)
EXTENDS SessionTypeProofs

\* The step only pushes signals, of the kinds S.
Pushes(S) == \E t \in Seq(S) : signals' = signals \o t

\* A step that leaves signals_ alone pushes none.
LEMMA PushesNothing ==
  ASSUME TypeOK, UNCHANGED signals, NEW S
  PROVE  Pushes(S)
<1>1. signals \o <<>> = signals /\ <<>> \in Seq(S)
  BY DEF TypeOK
<1> QED BY <1>1 DEF Pushes

\* Sending requests pushes "Process" signals only,
LEMMA SendRequestsPushes ==
  ASSUME NEW T, NEW e \in Seq(T), SendRequests(e)
  PROVE  Pushes({"Process"})
<1>1. [i \in DOMAIN e |-> "Process"] \in Seq({"Process"})
  <2>1. DOMAIN e = 1..Len(e) /\ Len(e) \in Nat
    OBVIOUS
  <2> QED BY <2>1
<1> QED BY <1>1 DEF SendRequests, Pushes

\* and so does sending one.
LEMMA SendRequestPushes ==
  ASSUME NEW s, NEW r, SendRequest(s, r)
  PROVE  Pushes({"Process"})
<1>1. <<[step |-> s, req |-> r]>> \in Seq({[step |-> s, req |-> r]})
  OBVIOUS
<1> QED BY <1>1, SendRequestsPushes DEF SendRequest

\* Worker::Disable pushes "Process" and then "Disable".
LEMMA DisablePushes ==
  ASSUME Disable
  PROVE  /\ signals' = signals \o <<"Process", "Disable">>
         /\ <<"Process", "Disable">> \in Seq({"Process", "Disable"})
  BY DEF Disable

\* Pushes is monotone.
LEMMA PushesMore ==
  ASSUME NEW S, NEW T, S \subseteq T, Pushes(S)
  PROVE  Pushes(T)
  BY SeqMonotonic DEF Pushes

\* The steps that may send requests push "Process" signals only.
LEMMA RequestsPush ==
  ASSUME TypeOK, LineDirect \/ LineDeferred \/ OnDebuggerEnabled \/ OnDebuggerMessage
  PROVE  Pushes({"Process"})
<1>0. ASSUME UNCHANGED sentVars PROVE Pushes({"Process"})
  BY <1>0, PushesNothing DEF sentVars
<1>1. CASE LineDirect
  BY <1>0, <1>1, SendRequestPushes DEF LineDirect
<1>2. CASE LineDeferred
  BY <1>0, <1>2, SendRequestPushes DEF LineDeferred
<1>3. CASE OnDebuggerEnabled
  <2>1. CASE enableCbs = <<>>
    BY <1>0, <1>3, <2>1 DEF OnDebuggerEnabled
  <2>2. CASE enableCbs # <<>>
    <3>0. PICK m \in 0..Len(afterEnableCbs) :
             SendRequests(
                  [i \in DOMAIN enableCbs |->
                     [step |-> "scripts", req |-> enableCbs[i]]]
                  \o [i \in 1..m |->
                     [step |-> "evaluate", req |-> afterEnableCbs[i]]])
      BY <1>3, <2>2 DEF OnDebuggerEnabled
    <3>1. PICK n \in Nat : n = Len(requests)
      BY DEF TypeOK
    <3> QED BY <3>0, <3>1, EnabledEntries, SendRequestsPushes
  <2> QED BY <2>1, <2>2
<1>4. CASE OnDebuggerMessage
  BY <1>0, <1>4, SendRequestPushes DEF OnDebuggerMessage, NotifyPaused
<1> QED BY <1>1, <1>2, <1>3, <1>4

\* All steps of the worker thread and of V8, but those of the enable
\* handshake, push no "Enable" and leave its two ends alone.
LEMMA OthersPush ==
  ASSUME TypeOK,
         \/ Accept \/ AcceptFails \/ Hangup \/ Receive \/ ClientClosedCb
         \/ LineDisable \/ LineDirect \/ LineDeferred \/ LineClose
         \/ OnDebuggerDisabled \/ OnDebuggerMessage
         \/ ServePaused \/ Break \/ Interrupt
  PROVE  Pushes({"Process", "Disable"}) /\ UNCHANGED <<enableCbs, enableSig>>
<1>1. CASE \/ Accept \/ Receive \/ ClientClosedCb \/ OnDebuggerDisabled
           \/ ServePaused \/ Break \/ Interrupt
  <2>1. UNCHANGED <<signals, enableCbs>> /\ UNCHANGED enableSig
    BY <1>1 DEF Accept, Receive, ClientClosedCb, OnDebuggerDisabled, ServePaused,
       Break, Interrupt, sentVars, jsVars
  <2> QED BY <2>1, PushesNothing
<1>2. CASE AcceptFails \/ Hangup \/ LineClose
  BY <1>2, DisablePushes DEF AcceptFails, Hangup, LineClose, Line, jsVars, Pushes
<1>3. CASE LineDisable
  BY <1>3, DisablePushes, PushesNothing DEF LineDisable, Line, sentVars, Pushes
<1>4. CASE LineDirect \/ LineDeferred \/ OnDebuggerMessage
  <2>1. Pushes({"Process"})
    BY <1>4, RequestsPush
  <2>2. UNCHANGED <<enableCbs, enableSig>>
    BY <1>4 DEF LineDirect, LineDeferred, OnDebuggerMessage, Line, jsVars
  <2> QED BY <2>1, <2>2, PushesMore
<1> QED BY <1>1, <1>2, <1>3, <1>4

\* The part of EnableHandshake that counts: there is a handshake under way if
\* and only if somebody waits for it, and never a second one.
OneHandshake ==
  /\ enableCbs # <<>> <=> enableSig \/ Has(signals, {"Enable"})
  /\ enableSig => ~Has(signals, {"Enable"})
  /\ OneEnable(signals)

\* The type of signals_.
LEMMA SignalsAreSignals == TypeOK => signals \in Seq(SignalKinds)
  BY DEF TypeOK, SignalKinds

\* Pushing other signals keeps OneHandshake.
LEMMA PushKeepsEnable ==
  ASSUME TypeOK, OneHandshake, Pushes({"Process", "Disable"}),
         UNCHANGED <<enableCbs, enableSig>>
  PROVE  OneHandshake'
<1>1. PICK t \in Seq({"Process", "Disable"}) : signals' = signals \o t
  BY DEF Pushes
<1>2. ~Has(t, {"Enable"}) /\ OneEnable(t)
  BY NoEnable
<1>3. signals \in Seq(SignalKinds) /\ t \in Seq(SignalKinds)
  BY <1>1, SignalsAreSignals, SeqMonotonic DEF SignalKinds
<1>4. Has(signals', {"Enable"}) <=> Has(signals, {"Enable"})
  BY <1>1, <1>2, <1>3, HasConcat
<1>5. OneEnable(signals')
  BY <1>1, <1>2, <1>3, OneEnableConcat DEF OneHandshake
<1> QED BY <1>4, <1>5 DEF OneHandshake

\* Debugger.enable keeps OneHandshake: it signals if nobody waits, and
\* then no Enable is under way.
LEMMA LineEnableHandshake ==
  ASSUME TypeOK, OneHandshake, LineEnable
  PROVE  OneHandshake'
<1>1. enableCbs' # <<>> /\ enableSig' = enableSig
  <2>1. PICK n \in Nat : enableCbs \in Seq(1..n)
    BY DEF TypeOK
  <2>2. enableCbs' = Append(enableCbs, NewReq) /\ enableSig' = enableSig
    BY DEF LineEnable, Line
  <2>3. Len(Append(enableCbs, NewReq)) = Len(enableCbs) + 1 /\ Len(enableCbs) \in Nat
    BY <2>1
  <2> QED BY <2>2, <2>3
<1>2. CASE enableCbs # <<>>
  <2>1. signals' = signals
    BY <1>2 DEF LineEnable
  <2> QED BY <1>1, <1>2, <2>1 DEF OneHandshake
<1>3. CASE enableCbs = <<>>
  <2>1. signals \in Seq(SignalKinds) /\ <<"Enable">> \in Seq(SignalKinds)
    BY SignalsAreSignals DEF SignalKinds
  <2>2. signals' = signals \o <<"Enable">>
    BY <1>3, <2>1 DEF LineEnable
  <2>3. Has(<<"Enable">>, {"Enable"}) /\ OneEnable(<<"Enable">>)
    BY DEF Has, OneEnable
  <2>4. ~enableSig /\ ~Has(signals, {"Enable"}) /\ OneEnable(signals)
    BY <1>3 DEF OneHandshake
  <2>5. Has(signals', {"Enable"})
    BY <2>1, <2>2, <2>3, HasConcat
  <2>6. OneEnable(signals')
    BY <2>1, <2>2, <2>3, <2>4, OneEnableConcat
  <2> QED BY <1>1, <2>4, <2>5, <2>6 DEF OneHandshake
<1> QED BY <1>2, <1>3

\* onDebuggerEnabled ends a handshake: nobody waits, nothing is under way.
LEMMA OnEnabledHandshake ==
  ASSUME TypeOK, OneHandshake, OnDebuggerEnabled
  PROVE  OneHandshake'
<1>1. enableCbs' = <<>> /\ enableSig /\ enableSig' = FALSE
  BY DEF OnDebuggerEnabled
<1>2. PICK t \in Seq({"Process"}) : signals' = signals \o t
  BY RequestsPush DEF Pushes
<1>3. ~Has(t, {"Enable"}) /\ OneEnable(t)
  BY NoEnable
<1>4. signals \in Seq(SignalKinds) /\ t \in Seq(SignalKinds)
  BY <1>2, SignalsAreSignals, SeqMonotonic DEF SignalKinds
<1>5. ~Has(signals, {"Enable"}) /\ OneEnable(signals)
  BY <1>1 DEF OneHandshake
<1>6. ~Has(signals', {"Enable"})
  BY <1>2, <1>3, <1>4, <1>5, HasConcat
<1>7. OneEnable(signals')
  BY <1>2, <1>3, <1>4, <1>5, OneEnableConcat
<1> QED BY <1>1, <1>6, <1>7 DEF OneHandshake

\* The main thread turns the only Enable into its response.
LEMMA SignalHandshake ==
  ASSUME TypeOK, OneHandshake, Signal
  PROVE  OneHandshake'
<1>0. signals \in Seq(SignalKinds)
  BY SignalsAreSignals
<1>1. signals # <<>> /\ UNCHANGED enableCbs
  BY DEF Signal, EnableRequestSignalCb, ProcessDebugMessagesCb, DisableRequestSignalCb,
     Detach, NextSignal, jsVars
<1>2. /\ Has(signals, {"Enable"}) <=> Head(signals) = "Enable" \/ Has(Tail(signals), {"Enable"})
      /\ OneEnable(Tail(signals))
      /\ Head(signals) = "Enable" => ~Has(Tail(signals), {"Enable"})
  BY <1>0, <1>1, HasHead, OneEnableTail DEF OneHandshake
<1>3. CASE EnableRequestSignalCb
  <2>1. Head(signals) = "Enable" /\ signals' = Tail(signals) /\ enableSig' = TRUE
    BY <1>3 DEF EnableRequestSignalCb, NextSignal
  <2> QED BY <1>1, <1>2, <2>1 DEF OneHandshake
<1>4. CASE ProcessDebugMessagesCb \/ Detach
  <2>1. Head(signals) # "Enable" /\ signals' = Tail(signals) /\ UNCHANGED enableSig
    BY <1>4 DEF ProcessDebugMessagesCb, Detach, NextSignal
  <2> QED BY <1>1, <1>2, <2>1 DEF OneHandshake
<1>5. CASE DisableRequestSignalCb
  <2>1. /\ Head(signals) # "Enable" /\ signals' = <<"Detach">> \o Tail(signals)
        /\ UNCHANGED enableSig
    BY <1>5 DEF DisableRequestSignalCb, NextSignal
  <2>2. <<"Detach">> \in Seq(SignalKinds) /\ Tail(signals) \in Seq(SignalKinds)
    BY <1>0, <1>1, HeadTailProperties DEF SignalKinds
  <2>3. ~Has(<<"Detach">>, {"Enable"}) /\ OneEnable(<<"Detach">>)
    BY DEF Has, OneEnable
  <2>4. Has(signals', {"Enable"}) <=> Has(Tail(signals), {"Enable"})
    BY <2>1, <2>2, <2>3, HasConcat
  <2>5. OneEnable(signals')
    BY <1>2, <2>1, <2>2, <2>3, OneEnableConcat
  <2> QED BY <1>1, <1>2, <2>1, <2>4, <2>5 DEF OneHandshake
<1> QED BY <1>3, <1>4, <1>5 DEF Signal

\* OneHandshake is inductive relative to TypeOK.
LEMMA NextOneHandshake ==
  TypeOK /\ OneHandshake /\ [Next]_vars => OneHandshake'
<1> SUFFICES ASSUME TypeOK, OneHandshake, [Next]_vars PROVE OneHandshake'
  OBVIOUS
<1>1. CASE UNCHANGED vars
  BY <1>1 DEF vars, jsVars, sentVars, OneHandshake, Has, OneEnable
<1>2. CASE Next
  BY <1>2, OthersPush, PushKeepsEnable, LineEnableHandshake, OnEnabledHandshake,
     SignalHandshake DEF Next, ClientLine
<1> QED BY <1>1, <1>2

\* OneHandshake is an invariant.
LEMMA OneHandshakeAlways == Spec => []OneHandshake
<1>1. Init => OneHandshake
  BY DEF Init, OneHandshake, Has, OneEnable
<1> QED
  BY <1>1, TypeCorrect, NextOneHandshake, PTL DEF Spec

------------------------------------------------------------------------------

\* DisableHandshake in terms of Has, of this state and of the next.
LEMMA DisableHandshakeParts ==
  /\ DisableHandshake <=>
       (disableCbs # <<>> => disableSig \/ Has(signals, {"Disable", "Detach"}))
  /\ DisableHandshake' <=>
       (disableCbs' # <<>> => disableSig' \/ Has(signals', {"Disable", "Detach"}))
  BY DEF DisableHandshake, Signalled, Has

\* Pushing signals keeps DisableHandshake.
LEMMA PushKeepsDisable ==
  ASSUME TypeOK, DisableHandshake, Pushes({"Process", "Disable", "Enable"}),
         UNCHANGED <<disableCbs, disableSig>>
  PROVE  DisableHandshake'
<1>1. PICK t \in Seq({"Process", "Disable", "Enable"}) : signals' = signals \o t
  BY DEF Pushes
<1>2. signals \in Seq(SignalKinds) /\ t \in Seq(SignalKinds)
  BY <1>1, SignalsAreSignals, SeqMonotonic DEF SignalKinds
<1>3. Has(signals, {"Disable", "Detach"}) => Has(signals', {"Disable", "Detach"})
  BY <1>1, <1>2, HasConcat
<1> QED BY <1>3, DisableHandshakeParts

\* All steps of the worker thread and of V8, but those of the disable
\* handshake, push signals and leave its two ends alone.
LEMMA DisablingPushes ==
  ASSUME TypeOK,
         \/ Accept \/ AcceptFails \/ Hangup \/ Receive \/ ClientClosedCb
         \/ LineEnable \/ LineDirect \/ LineDeferred \/ LineClose
         \/ OnDebuggerEnabled \/ OnDebuggerMessage
         \/ ServePaused \/ Break \/ Interrupt
  PROVE  /\ Pushes({"Process", "Disable", "Enable"})
         /\ UNCHANGED <<disableCbs, disableSig>>
<1>1. CASE LineEnable
  <2>1. signals' = signals \/ signals' = signals \o <<"Enable">>
    BY <1>1 DEF LineEnable, TypeOK
  <2>2. <<"Enable">> \in Seq({"Process", "Disable", "Enable"})
    OBVIOUS
  <2> QED BY <1>1, <2>1, <2>2, PushesNothing DEF LineEnable, Line, Pushes
<1>2. CASE OnDebuggerEnabled
  BY <1>2, RequestsPush, PushesMore DEF OnDebuggerEnabled
<1>3. CASE ~(LineEnable \/ OnDebuggerEnabled)
  <2>1. Pushes({"Process", "Disable", "Enable"})
    BY <1>3, OthersPush, PushesMore
  <2>2. UNCHANGED <<disableCbs, disableSig>>
    BY <1>3 DEF Accept, AcceptFails, Hangup, Receive, ClientClosedCb, LineDirect,
       LineDeferred, LineClose, Line, OnDebuggerMessage, ServePaused, Break,
       Interrupt, jsVars
  <2> QED BY <2>1, <2>2
<1> QED BY <1>1, <1>2, <1>3

\* Debugger.disable keeps DisableHandshake.
LEMMA LineDisableHandshake ==
  ASSUME TypeOK, DisableHandshake, LineDisable
  PROVE  DisableHandshake'
<1>1. disableSig' = disableSig
  BY DEF LineDisable, Line
<1>2. CASE disableCbs # <<>>
  <2>1. signals' = signals
    BY <1>2 DEF LineDisable, sentVars
  <2> QED BY <1>1, <1>2, <2>1, DisableHandshakeParts
<1>3. CASE disableCbs = <<>>
  <2>1. signals' = signals \o <<"Process", "Disable">>
    BY <1>3, DisablePushes DEF LineDisable
  <2>2. /\ signals \in Seq(SignalKinds) /\ <<"Process", "Disable">> \in Seq(SignalKinds)
        /\ <<"Process", "Disable">>[2] = "Disable" /\ 2 \in DOMAIN <<"Process", "Disable">>
    BY SignalsAreSignals DEF SignalKinds
  <2>3. Has(<<"Process", "Disable">>, {"Disable", "Detach"})
    BY <2>2 DEF Has
  <2> QED BY <2>1, <2>2, <2>3, HasConcat, DisableHandshakeParts
<1> QED BY <1>2, <1>3

\* The main thread turns Disable into Detach, and that into the response.
LEMMA SignalDisableHandshake ==
  ASSUME TypeOK, DisableHandshake, Signal
  PROVE  DisableHandshake'
<1>0. signals \in Seq(SignalKinds)
  BY SignalsAreSignals
<1>1. signals # <<>> /\ UNCHANGED disableCbs
  BY DEF Signal, EnableRequestSignalCb, ProcessDebugMessagesCb, DisableRequestSignalCb,
     Detach, NextSignal, jsVars
<1>2. Has(signals, {"Disable", "Detach"}) <=>
        Head(signals) \in {"Disable", "Detach"} \/ Has(Tail(signals), {"Disable", "Detach"})
  BY <1>0, <1>1, HasHead
<1>3. CASE EnableRequestSignalCb \/ ProcessDebugMessagesCb
  <2>1. /\ Head(signals) \notin {"Disable", "Detach"} /\ signals' = Tail(signals)
        /\ UNCHANGED disableSig
    BY <1>3 DEF EnableRequestSignalCb, ProcessDebugMessagesCb, NextSignal
  <2> QED BY <1>1, <1>2, <2>1, DisableHandshakeParts
<1>4. CASE DisableRequestSignalCb
  <2>1. signals' = <<"Detach">> \o Tail(signals)
    BY <1>4 DEF DisableRequestSignalCb
  <2>2. <<"Detach">> \in Seq(SignalKinds) /\ Tail(signals) \in Seq(SignalKinds)
    BY <1>0, <1>1, HeadTailProperties DEF SignalKinds
  <2>3. Has(<<"Detach">>, {"Disable", "Detach"})
    BY DEF Has
  <2> QED BY <2>1, <2>2, <2>3, HasConcat, DisableHandshakeParts
<1>5. CASE Detach
  BY <1>5, DisableHandshakeParts DEF Detach
<1> QED BY <1>3, <1>4, <1>5 DEF Signal

\* DisableHandshake is inductive relative to TypeOK.
LEMMA NextDisableHandshake ==
  TypeOK /\ DisableHandshake /\ [Next]_vars => DisableHandshake'
<1> SUFFICES ASSUME TypeOK, DisableHandshake, [Next]_vars PROVE DisableHandshake'
  OBVIOUS
<1>1. CASE UNCHANGED vars
  BY <1>1 DEF vars, jsVars, sentVars, DisableHandshake, Signalled
<1>2. CASE OnDebuggerDisabled
  BY <1>2, DisableHandshakeParts DEF OnDebuggerDisabled
<1>3. CASE Next /\ ~OnDebuggerDisabled
  BY <1>3, DisablingPushes, PushKeepsDisable, LineDisableHandshake,
     SignalDisableHandshake DEF Next, ClientLine
<1> QED BY <1>1, <1>2, <1>3

\* Whoever waits in _disableCallbacks has a signal or a response coming
\* (context.disableDebugger, Controller::DisableRequestSignalCb,
\* bindings.onDebuggerDisabled).
THEOREM DisableHandshakeKept == Spec => []DisableHandshake
<1>1. Init => DisableHandshake
  BY DEF Init, DisableHandshake
<1> QED
  BY <1>1, TypeCorrect, NextDisableHandshake, PTL DEF Spec

------------------------------------------------------------------------------

\* When nothing throws, the response of an enable handshake runs every
\* deferred function.
LEMMA AllRun ==
  ASSUME "throwing" \notin Kinds, TypeOK, NEW m \in 0..Len(afterEnableCbs), Runs(m)
  PROVE  m = Len(afterEnableCbs)
<1>1. ASSUME NEW i \in 1..Len(afterEnableCbs) PROVE ~Throws(i)
  <2>1. PICK n \in Nat : n = Len(requests) /\ afterEnableCbs \in Seq(1..n)
    BY DEF TypeOK
  <2>2. afterEnableCbs[i] \in 1..n
    BY <2>1
  <2>3. requests \in Seq(RequestType)
    BY TypeParts
  <2>4. requests[afterEnableCbs[i]] \in RequestType
    BY <2>1, <2>2, <2>3
  <2> QED BY <2>4 DEF Throws, RequestType
<1>2. Len(afterEnableCbs) \in Nat
  BY DEF TypeOK
<1>3. m < Len(afterEnableCbs) => m + 1 \in 1..Len(afterEnableCbs)
  BY <1>2
<1> QED BY <1>1, <1>2, <1>3 DEF Runs

\* When no deferred function throws, the response of an enable handshake runs
\* all of them; by OneHandshake it always finds somebody waiting, so it
\* does not return before it gets there.
LEMMA NextDeferred ==
  ASSUME "throwing" \notin Kinds
  PROVE  /\ TypeOK /\ OneHandshake /\ DeferredOnlyUntilEnabled /\ [Next]_vars
         => DeferredOnlyUntilEnabled'
<1> SUFFICES ASSUME TypeOK, OneHandshake, DeferredOnlyUntilEnabled, [Next]_vars
             PROVE  DeferredOnlyUntilEnabled'
  OBVIOUS
<1>1. CASE UNCHANGED <<enabled, afterEnableCbs>>
  BY <1>1 DEF DeferredOnlyUntilEnabled
<1>2. CASE LineDeferred
  BY <1>2 DEF LineDeferred, DeferredOnlyUntilEnabled
<1>3. CASE OnDebuggerEnabled
  <2>1. enableCbs # <<>>
    BY <1>3 DEF OneHandshake, OnDebuggerEnabled
  <2>2. PICK m \in 0..Len(afterEnableCbs) :
           /\ Runs(m)
           /\ afterEnableCbs' = IF m = Len(afterEnableCbs) THEN <<>> ELSE afterEnableCbs
    BY <1>3, <2>1 DEF OnDebuggerEnabled
  <2>3. m = Len(afterEnableCbs)
    BY <2>2, AllRun
  <2> QED BY <2>2, <2>3 DEF DeferredOnlyUntilEnabled
<1> QED
  BY <1>1, <1>2, <1>3 DEF Next, ClientLine, Signal, vars, jsVars, Accept, AcceptFails,
     Hangup, Receive, ClientClosedCb, LineEnable, LineDisable, LineDirect, LineClose,
     OnDebuggerDisabled, OnDebuggerMessage, EnableRequestSignalCb,
     ProcessDebugMessagesCb, DisableRequestSignalCb, Detach, NextSignal, ServePaused,
     Break, Interrupt

\* Unless a deferred function throws, none is left in _afterEnableCallbacks
\* once the debugger is enabled (context.waitForDebuggerEnabled,
\* bindings.onDebuggerEnabled).
THEOREM DeferredOnlyUntilEnabledKept ==
  ASSUME "throwing" \notin Kinds
  PROVE  Spec => []DeferredOnlyUntilEnabled
<1>1. Init => DeferredOnlyUntilEnabled
  BY DEF Init, DeferredOnlyUntilEnabled
<1> QED
  BY <1>1, TypeCorrect, OneHandshakeAlways, NextDeferred, PTL DEF Spec

------------------------------------------------------------------------------

\* The current connection asked to be closed.
Closed == \E r \in DOMAIN requests : requests[r].kind = "close" /\ requests[r].from = gen

\* A chunk of a connection that is not open any more is one in which it asked
\* to be closed.
CloseRecorded == chunk # <<>> /\ conn # "open" => Closed

\* There is no client, and none has said anything after its close.
Unended == conn # "open" /\ ~LateLines

\* Answers to requests change neither LateLines nor Closed.
LEMMA AnswersOnly ==
  ASSUME TypeOK, UNCHANGED gen, UNCHANGED requests \/ \E R : requests' = Answered(R)
  PROVE  (LateLines <=> LateLines') /\ (Closed <=> Closed')
<1>1. requests \in Seq(RequestType)
  BY TypeParts
<1>2. CASE UNCHANGED requests
  BY <1>2 DEF LateLines, Closed
<1>3. CASE \E R : requests' = Answered(R)
  <2>1. /\ requests' \in Seq(RequestType) /\ Len(requests') = Len(requests)
        /\ \A r \in 1..Len(requests) : /\ requests'[r].kind = requests[r].kind
                                       /\ requests'[r].from = requests[r].from
    BY <1>3, AnsweredType
  <2>2. DOMAIN requests' = 1..Len(requests) /\ DOMAIN requests = 1..Len(requests)
    BY <1>1, <2>1
  <2> QED BY <2>1, <2>2 DEF LateLines, Closed
<1> QED BY <1>2, <1>3

\* A line after a close is a late line.
LEMMA LineRecorded ==
  ASSUME TypeOK, UNCHANGED gen, NEW k \in Kinds, NEW a \in Seq(Nat), Recv(k, a)
  PROVE  /\ LateLines => LateLines'
         /\ Closed => Closed' /\ LateLines'
         /\ k = "close" => Closed'
<1>1. PICK n \in Nat : requests \in Seq(RequestType) /\ n = Len(requests) /\ DOMAIN requests = 1..n
  BY TypeParts
<1>2. /\ DOMAIN requests' = 1..(n + 1)
      /\ \A r \in 1..n : requests'[r] = requests[r]
      /\ requests'[n + 1] = [from |-> gen, kind |-> k, answers |-> a]
  BY <1>1 DEF Recv, RequestType
<1>3. \A r \in 1..n : r \in 1..(n + 1) /\ r < n + 1
  BY <1>1
<1>4. n + 1 \in 1..(n + 1)
  BY <1>1
<1>5. requests'[n + 1].kind = k /\ requests'[n + 1].from = gen'
  BY <1>2
<1>6. ASSUME LateLines PROVE LateLines'
  <2>1. PICK r \in 1..n, s \in 1..n :
          r < s /\ requests[r].kind = "close" /\ requests[r].from = gen
                /\ requests[s].from = gen
    BY <1>1, <1>6 DEF LateLines
  <2> QED BY <1>2, <1>3, <2>1 DEF LateLines
<1>7. ASSUME Closed PROVE Closed' /\ LateLines'
  <2>1. PICK r \in 1..n : requests[r].kind = "close" /\ requests[r].from = gen
    BY <1>1, <1>7 DEF Closed
  <2> QED BY <1>2, <1>3, <1>4, <1>5, <2>1 DEF LateLines, Closed
<1>8. ASSUME k = "close" PROVE Closed'
  BY <1>2, <1>4, <1>5, <1>8 DEF Closed
<1> QED BY <1>6, <1>7, <1>8

\* Handling a line keeps CloseRecorded; without an open connection it is a
\* late line.
LEMMA LineLate ==
  ASSUME TypeOK, CloseRecorded, ClientLine
  PROVE  /\ CloseRecorded'
         /\ conn # "open" => LateLines'
<1>1. PICK k \in Kinds, a \in Seq(Nat) :
        /\ Recv(k, a) /\ UNCHANGED gen /\ chunk # <<>>
        /\ UNCHANGED conn \/ k = "close"
  <2>1. Recipient \in Nat
    BY DEF TypeOK, Recipient
  <2>2. <<>> \in Seq(Nat) /\ <<Recipient>> \in Seq(Nat)
    BY <2>1
  <2>3. ASSUME NEW k, Line(k) PROVE k \in Kinds /\ UNCHANGED gen /\ chunk # <<>>
    BY <2>3 DEF Line, InChunk, TypeOK
  <2> QED BY <2>2, <2>3 DEF ClientLine, LineEnable, LineDisable, LineDirect, LineDeferred, LineClose
<1>2. /\ Closed => Closed' /\ LateLines'
      /\ k = "close" => Closed'
  BY <1>1, LineRecorded
<1> QED BY <1>1, <1>2 DEF CloseRecorded

\* CloseRecorded is inductive relative to TypeOK.
LEMMA NextCloseRecorded ==
  TypeOK /\ CloseRecorded /\ [Next]_vars => CloseRecorded'
<1> SUFFICES ASSUME TypeOK, CloseRecorded, [Next]_vars PROVE CloseRecorded'
  OBVIOUS
<1>1. CASE ClientLine
  BY <1>1, LineLate
<1>2. CASE chunk' = <<>> \/ conn' = "open"
  BY <1>2 DEF CloseRecorded
<1>3. CASE /\ UNCHANGED <<conn, gen, chunk>>
           /\ UNCHANGED requests \/ \E R : requests' = Answered(R)
  BY <1>3, AnswersOnly DEF CloseRecorded
<1> QED
  BY <1>1, <1>2, <1>3 DEF Next, Signal, vars, connVars, Accept, AcceptFails,
     Hangup, Receive, ClientClosedCb, AtLoop, OnDebuggerEnabled,
     OnDebuggerDisabled, OnDebuggerMessage, EnableRequestSignalCb,
     ProcessDebugMessagesCb, DisableRequestSignalCb, Detach, NextSignal, ServePaused,
     Break, Interrupt

\* CloseRecorded is an invariant.
LEMMA CloseRecordedAlways == Spec => []CloseRecorded
<1>1. Init => CloseRecorded
  BY DEF Init, CloseRecorded
<1> QED
  BY <1>1, TypeCorrect, NextCloseRecorded, PTL DEF Spec

\* There are two ways to be without a client: this step closed the
\* connection, or there was none before, and the step is not a line.
LEMMA StaysUnended ==
  ASSUME TypeOK, CloseRecorded, [Next]_vars, Unended'
  PROVE  AcceptFails \/ Hangup \/ LineClose \/ (Unended /\ ~ClientLine)
<1>1. CASE Accept \/ Receive
  BY <1>1 DEF Accept, Receive, connVars, Unended
<1>2. CASE ClientLine
  <2>1. CASE LineClose
    BY <2>1
  <2>2. CASE ~LineClose
    <3>1. UNCHANGED conn
      BY <1>2, <2>2 DEF ClientLine, LineEnable, LineDisable, LineDirect, LineDeferred
    <3> QED BY <1>2, <3>1, LineLate DEF Unended
  <2> QED BY <2>1, <2>2
<1>3. CASE /\ ~ClientLine
           /\ UNCHANGED <<conn, gen>> \/ (ClientClosedCb /\ UNCHANGED gen)
           /\ UNCHANGED requests \/ \E R : requests' = Answered(R)
  <2>1. conn' # "open" => conn # "open"
    BY <1>3 DEF ClientClosedCb
  <2> QED BY <1>3, <2>1, AnswersOnly DEF Unended
<1> QED
  BY <1>1, <1>2, <1>3 DEF Next, Signal, vars, connVars, ClientClosedCb,
     OnDebuggerEnabled, OnDebuggerDisabled, OnDebuggerMessage, EnableRequestSignalCb,
     ProcessDebugMessagesCb, DisableRequestSignalCb, Detach, NextSignal, ServePaused,
     Break, Interrupt

\* The inductive strengthening of DetachedOnceGone: it also speaks of the
\* middle of a chunk.
WillDetach == Unended => ~EndsAttached

\* The main thread acting on a signal does not change what the signals lead
\* to.
LEMMA SignalEndsAttached ==
  ASSUME TypeOK, Signal
  PROVE  EndsAttached' <=> EndsAttached
<1>0. signals \in Seq(SignalKinds) /\ signals # <<>>
  BY SignalsAreSignals DEF Signal, EnableRequestSignalCb, ProcessDebugMessagesCb,
     DisableRequestSignalCb, Detach, NextSignal
<1> DEFINE L(s, w) == LeavesOn(s, {"Enable"}, {"Disable", "Detach"}, w)
<1>1. /\ Head(signals) = "Enable" => (EndsAttached <=> L(Tail(signals), TRUE))
      /\ Head(signals) \in {"Disable", "Detach"} => (EndsAttached <=> L(Tail(signals), FALSE))
      /\ Head(signals) = "Process" => (EndsAttached <=> L(Tail(signals), handler))
  BY <1>0, LeavesHead DEF EndsAttached
<1>2. EndsAttached' <=> L(signals', handler')
  BY DEF EndsAttached
<1> HIDE DEF L
<1>3. CASE EnableRequestSignalCb
  BY <1>1, <1>2, <1>3 DEF EnableRequestSignalCb, NextSignal
<1>4. CASE ProcessDebugMessagesCb
  BY <1>1, <1>2, <1>4 DEF ProcessDebugMessagesCb, NextSignal
<1>5. CASE Detach
  BY <1>1, <1>2, <1>5 DEF Detach, NextSignal
<1>6. CASE DisableRequestSignalCb
  <2>1. /\ Head(signals) = "Disable" /\ signals' = <<"Detach">> \o Tail(signals)
        /\ handler' = handler
    BY <1>6 DEF DisableRequestSignalCb, NextSignal
  <2>2. Tail(signals) \in Seq(SignalKinds) /\ <<"Detach">> \in Seq(SignalKinds)
    BY <1>0, HeadTailProperties DEF SignalKinds
  <2>3. /\ signals' \in Seq(SignalKinds) /\ signals' # <<>>
        /\ Head(signals') = "Detach" /\ Tail(signals') = Tail(signals)
    <3> DEFINE T == Tail(signals)
    <3>1. T \in Seq(SignalKinds)
      BY <2>2
    <3> HIDE DEF T
    <3>2. LET u == <<"Detach">> \o T
          IN  u \in Seq(SignalKinds) /\ u # <<>> /\ Head(u) = "Detach" /\ Tail(u) = T
      BY <3>1 DEF SignalKinds
    <3> QED BY <2>1, <3>2 DEF T
  <2>4. L(signals', handler) <=> L(Tail(signals), FALSE)
    BY <2>3, LeavesHead DEF L
  <2> QED BY <1>1, <1>2, <2>1, <2>4
<1> QED BY <1>3, <1>4, <1>5, <1>6 DEF Signal

\* WillDetach is inductive relative to TypeOK and CloseRecorded.
LEMMA NextWillDetach ==
  TypeOK /\ CloseRecorded /\ WillDetach /\ [Next]_vars => WillDetach'
<1> SUFFICES ASSUME TypeOK, CloseRecorded, WillDetach, [Next]_vars, Unended'
             PROVE  ~EndsAttached'
  BY DEF WillDetach
<1>0. signals \in Seq(SignalKinds)
  BY SignalsAreSignals
<1>1. CASE AcceptFails \/ Hangup \/ LineClose
  <2>1. /\ signals' = signals \o <<"Process", "Disable">>
        /\ handler' = handler
    BY <1>1, DisablePushes DEF AcceptFails, Hangup, LineClose, Line, mainVars
  <2>2. /\ <<"Process", "Disable">> \in Seq(SignalKinds)
        /\ ~Has(<<"Process", "Disable">>, {"Enable"})
    BY DEF SignalKinds, Has
  <2>3. Has(<<"Process", "Disable">>, {"Disable", "Detach"})
    <3>1. <<"Process", "Disable">>[2] = "Disable" /\ 2 \in DOMAIN <<"Process", "Disable">>
      OBVIOUS
    <3> QED BY <3>1 DEF Has
  <2> QED BY <1>0, <2>1, <2>2, <2>3, LeavesOffAtEnd DEF EndsAttached
<1>2. CASE Unended /\ ~ClientLine
  <2>1. ~EndsAttached
    BY <1>2 DEF WillDetach
  <2>2. CASE Signal
    BY <2>1, <2>2, SignalEndsAttached
  <2>3. CASE Pushes({"Process"}) /\ UNCHANGED handler
    <3>1. PICK t \in Seq({"Process"}) : signals' = signals \o t
      BY <2>3 DEF Pushes
    <3>2. ~Has(t, {"Enable"}) /\ ~Has(t, {"Disable", "Detach"})
      BY DEF Has
    <3>3. t \in Seq(SignalKinds)
      BY <3>1, SeqMonotonic DEF SignalKinds
    <3> QED BY <1>0, <2>1, <2>3, <3>1, <3>2, <3>3, LeavesNeutral DEF EndsAttached
  <2>4. CASE OnDebuggerEnabled \/ OnDebuggerMessage
    BY <2>3, <2>4, RequestsPush DEF OnDebuggerEnabled, OnDebuggerMessage, mainVars
  <2>5. CASE UNCHANGED <<signals, handler>>
    BY <2>1, <2>5 DEF EndsAttached
  <2>6. CASE Accept \/ Receive
    BY <2>5, <2>6 DEF Accept, Receive, sentVars, mainVars
  <2>7. CASE AcceptFails \/ Hangup
    BY <1>1, <2>7
  <2>8. CASE \/ ClientClosedCb \/ OnDebuggerDisabled \/ ServePaused \/ Break \/ Interrupt
             \/ UNCHANGED vars
    BY <2>5, <2>8 DEF ClientClosedCb, OnDebuggerDisabled, ServePaused, Break, Interrupt,
       sentVars, mainVars, vars
  <2> QED BY <1>2, <2>2, <2>4, <2>6, <2>7, <2>8 DEF Next
<1> QED BY <1>1, <1>2, StaysUnended

\* Once the client is gone the signals under way end with the debugger
\* detached, in whatever order enables, disables and closes were signalled
\* (Worker::CloseClientConnection, Controller::SignalsAvailableCb).
THEOREM DetachedOnceGoneAlways == Spec => []DetachedOnceGone
<1>1. Init => WillDetach
  BY DEF Init, WillDetach, EndsAttached, LeavesOn
<1>2. WillDetach => DetachedOnceGone
  BY DEF WillDetach, DetachedOnceGone, Gone, Unended, EndsAttached
<1> QED
  BY <1>1, <1>2, TypeCorrect, CloseRecordedAlways, NextWillDetach, PTL DEF Spec

------------------------------------------------------------------------------

\* What pushes neither "Enable" nor "Disable" does not change where the
\* signals lead.
LEMMA ProcessEndsAttached ==
  ASSUME TypeOK, Pushes({"Process"}), UNCHANGED handler
  PROVE  EndsAttached' <=> EndsAttached
<1>1. PICK t \in Seq({"Process"}) : signals' = signals \o t
  BY DEF Pushes
<1>2. ~Has(t, {"Enable"}) /\ ~Has(t, {"Disable", "Detach"})
  BY DEF Has
<1>3. t \in Seq(SignalKinds) /\ signals \in Seq(SignalKinds)
  BY <1>1, SeqMonotonic, SignalsAreSignals DEF SignalKinds
<1> QED BY <1>1, <1>2, <1>3, LeavesNeutral DEF EndsAttached

\* An "Enable" at the end leads to a message handler.
LEMMA EnableEndsAttached ==
  ASSUME TypeOK, signals' = Append(signals, "Enable")
  PROVE  EndsAttached'
<1>1. PICK n \in Nat : n = Len(signals) /\ signals \in Seq(SignalKinds)
  BY SignalsAreSignals
<1>2. DOMAIN signals' = 1..(n + 1) /\ signals'[n + 1] = "Enable" /\ n + 1 \in 1..(n + 1)
  BY <1>1
<1>3. \A j \in 1..(n + 1) : ~(j > n + 1)
  BY <1>1
<1> QED BY <1>2, <1>3 DEF EndsAttached, LeavesOn

\* No line comes from a connection that is still to be accepted.
FromPast == \A r \in DOMAIN requests : requests[r].from <= gen

\* Answers leave who asked what alone; a line that is recorded comes last.
LEMMA RequestsStay ==
  ASSUME TypeOK,
         \/ UNCHANGED requests
         \/ \E R : requests' = Answered(R)
         \/ \E k, a : Recv(k, a)
  PROVE  \A r \in DOMAIN requests :
           /\ r \in DOMAIN requests'
           /\ requests'[r].kind = requests[r].kind
           /\ requests'[r].from = requests[r].from
<1>1. requests \in Seq(RequestType) /\ DOMAIN requests = 1..Len(requests)
      /\ Len(requests) \in Nat
  BY TypeParts
<1>2. CASE UNCHANGED requests
  BY <1>2
<1>3. CASE \E R : requests' = Answered(R)
  <2>1. /\ requests' \in Seq(RequestType) /\ Len(requests') = Len(requests)
        /\ \A r \in 1..Len(requests) : /\ requests'[r].kind = requests[r].kind
                                       /\ requests'[r].from = requests[r].from
    BY <1>3, AnsweredType
  <2> QED BY <1>1, <2>1
<1>4. CASE \E k, a : Recv(k, a)
  <2>1. PICK q : requests' = Append(requests, q)
    BY <1>4 DEF Recv
  <2>2. DOMAIN requests' = 1..(Len(requests) + 1)
        /\ \A r \in 1..Len(requests) : requests'[r] = requests[r]
    <3> DEFINE S == RequestType \cup {q}
    <3>1. requests \in Seq(S) /\ q \in S
      BY <1>1
    <3> HIDE DEF S
    <3>2. /\ requests' \in Seq(S) /\ Len(requests') = Len(requests) + 1
          /\ \A r \in 1..Len(requests) : requests'[r] = requests[r]
      BY <2>1, <3>1, AppendProperties
    <3> QED BY <3>2
  <2> QED BY <1>1, <2>2
<1> QED BY <1>2, <1>3, <1>4

\* Every line of a client is recorded.
LEMMA LineIsRecorded ==
  ASSUME ClientLine
  PROVE  /\ \E k, a : Recv(k, a) /\ UNCHANGED <<gen, handler>>
         /\ ~LineClose => UNCHANGED conn
BY DEF ClientLine, LineEnable, LineDisable, LineDirect, LineDeferred, LineClose,
   Line, mainVars

\* FromPast is inductive relative to TypeOK.
LEMMA NextFromPast == TypeOK /\ FromPast /\ [Next]_vars => FromPast'
<1> SUFFICES ASSUME TypeOK, FromPast, [Next]_vars PROVE FromPast'
  OBVIOUS
<1>0. requests \in Seq(RequestType) /\ DOMAIN requests = 1..Len(requests)
      /\ Len(requests) \in Nat /\ gen \in Nat
  BY TypeParts DEF FlagsType
<1>1. CASE ClientLine
  <2>1. PICK k, a : requests' = Append(requests, [from |-> gen, kind |-> k, answers |-> a])
                    /\ gen' = gen
    BY <1>1, LineIsRecorded DEF Recv
  <2>2. \A r \in DOMAIN requests' :
          \/ r \in DOMAIN requests /\ requests'[r] = requests[r]
          \/ requests'[r] = [from |-> gen, kind |-> k, answers |-> a]
    BY <1>0, <2>1
  <2>3. gen <= gen
    BY <1>0
  <2> QED BY <2>1, <2>2, <2>3 DEF FromPast
<1>2. CASE UNCHANGED requests /\ (gen' = gen \/ gen' = gen + 1)
  <2>1. \A r \in DOMAIN requests : requests[r].from \in Nat
    <3> TAKE r \in DOMAIN requests
    <3>1. requests[r] \in RequestType
      BY <1>0
    <3> QED BY <3>1 DEF RequestType
  <2> QED BY <1>0, <1>2, <2>1 DEF FromPast
<1>3. CASE UNCHANGED gen /\ \E R : requests' = Answered(R)
  <2>1. DOMAIN requests' = DOMAIN requests
    BY <1>0, <1>3, AnsweredType
  <2> QED BY <1>3, <2>1, RequestsStay DEF FromPast
<1> QED
  BY <1>1, <1>2, <1>3 DEF Next, Signal, vars, connVars, Accept, AcceptFails,
     Hangup, Receive, ClientClosedCb, OnDebuggerEnabled,
     OnDebuggerDisabled, OnDebuggerMessage, EnableRequestSignalCb,
     ProcessDebugMessagesCb, DisableRequestSignalCb, Detach, NextSignal, ServePaused,
     Break, Interrupt

\* FromPast is an invariant.
LEMMA FromPastAlways == Spec => []FromPast
<1>1. Init => FromPast
  BY DEF Init, FromPast
<1> QED BY <1>1, TypeCorrect, NextFromPast, PTL DEF Spec

\* The other half of EnableHandshake: the enable of the client that is there
\* is not undone by what was signalled before it.
TakesHold == OwnEnable => EndsAttached

\* A client that is still the first to wait, and has not asked to disable
\* since, was so before.
LEMMA OwnStays ==
  ASSUME TypeOK, OwnEnable', UNCHANGED <<conn, gen>>, enableCbs # <<>>,
         enableCbs' = enableCbs \/ enableCbs' = Append(enableCbs, NewReq),
         \/ UNCHANGED requests
         \/ \E R : requests' = Answered(R)
         \/ \E k, a : Recv(k, a)
  PROVE  OwnEnable
<1>1. PICK n \in Nat : n = Len(requests) /\ DOMAIN requests = 1..n /\ enableCbs \in Seq(1..n)
  BY TypeParts DEF ListsType
<1>2. Head(enableCbs') = Head(enableCbs) /\ Head(enableCbs) \in 1..n
  <2>1. Len(enableCbs) \in Nat \ {0} /\ Head(enableCbs) = enableCbs[1] /\ enableCbs[1] \in 1..n
    BY <1>1
  <2>2. Head(Append(enableCbs, NewReq)) = enableCbs[1]
    BY <1>1, <2>1
  <2> QED BY <2>1, <2>2
<1>3. /\ conn' = "open" /\ requests'[Head(enableCbs)].from = gen
      /\ \A r \in DOMAIN requests' : r > Head(enableCbs) => requests'[r].kind # "disable"
  BY <1>2 DEF OwnEnable
<1>4. \A r \in DOMAIN requests :
        /\ r \in DOMAIN requests'
        /\ requests'[r].kind = requests[r].kind
        /\ requests'[r].from = requests[r].from
  BY RequestsStay
<1> QED BY <1>1, <1>2, <1>3, <1>4 DEF OwnEnable

\* A client that asks to disable does not count any more.
LEMMA DisableNotOwn ==
  ASSUME TypeOK, LineDisable
  PROVE  ~OwnEnable'
<1> SUFFICES ASSUME OwnEnable' PROVE FALSE
  OBVIOUS
<1>1. PICK n \in Nat : /\ n = Len(requests) /\ DOMAIN requests = 1..n
                       /\ requests \in Seq(RequestType) /\ enableCbs \in Seq(1..n)
  BY TypeParts DEF ListsType
<1>2. enableCbs' = enableCbs /\ requests' = Append(requests, [from |-> gen, kind |-> "disable", answers |-> <<>>])
  BY DEF LineDisable, Recv
<1>3. Head(enableCbs) \in 1..n
  BY <1>1, <1>2 DEF OwnEnable
<1>4. n + 1 \in DOMAIN requests' /\ requests'[n + 1].kind = "disable" /\ n + 1 > Head(enableCbs)
  BY <1>1, <1>2, <1>3
<1> QED BY <1>2, <1>4 DEF OwnEnable

\* TakesHold is inductive relative to TypeOK and FromPast.
LEMMA NextTakesHold ==
  TypeOK /\ FromPast /\ TakesHold /\ [Next]_vars => TakesHold'
<1> SUFFICES ASSUME TypeOK, FromPast, TakesHold, [Next]_vars, OwnEnable'
             PROVE  EndsAttached'
  BY DEF TakesHold
<1>1. CASE Accept \/ AcceptFails \/ Hangup \/ ClientClosedCb \/ LineClose \/ OnDebuggerEnabled
  <2>1. CASE Accept
    <3>1. PICK n \in Nat : DOMAIN requests = 1..n /\ enableCbs \in Seq(1..n)
      BY TypeParts DEF ListsType
    <3>2. enableCbs' = enableCbs /\ requests' = requests /\ gen' = gen + 1 /\ gen \in Nat
      BY <2>1, TypeParts DEF Accept, jsVars, FlagsType
    <3>3. enableCbs # <<>> /\ Head(enableCbs) \in 1..n /\ requests[Head(enableCbs)].from = gen + 1
      BY <3>1, <3>2 DEF OwnEnable
    <3>4. requests[Head(enableCbs)].from <= gen
      BY <3>1, <3>3 DEF FromPast
    <3> QED BY <3>2, <3>3, <3>4
  <2>2. CASE AcceptFails \/ Hangup \/ ClientClosedCb \/ LineClose
    BY <2>2 DEF AcceptFails, Hangup, ClientClosedCb, LineClose, OwnEnable
  <2>3. CASE OnDebuggerEnabled
    BY <2>3 DEF OnDebuggerEnabled, OwnEnable
  <2> QED BY <1>1, <2>1, <2>2, <2>3
<1>2. CASE LineEnable
  <2>1. CASE enableCbs = <<>>
    BY <1>2, <2>1, EnableEndsAttached DEF LineEnable
  <2>2. CASE enableCbs # <<>>
    <3>1. /\ UNCHANGED <<conn, gen, signals, handler>> /\ enableCbs' = Append(enableCbs, NewReq)
          /\ \E k, a : Recv(k, a)
      BY <1>2, <2>2 DEF LineEnable, Line, mainVars
    <3>2. OwnEnable
      BY <2>2, <3>1, OwnStays
    <3> QED BY <3>1, <3>2 DEF TakesHold, EndsAttached
  <2> QED BY <2>1, <2>2
<1>3. CASE LineDisable
  BY <1>3, DisableNotOwn
<1> DEFINE Kept == /\ UNCHANGED <<conn, gen, enableCbs>>
                   /\ \/ UNCHANGED requests
                      \/ \E R : requests' = Answered(R)
                      \/ \E k, a : Recv(k, a)
<1>4. ASSUME Kept, EndsAttached' <=> EndsAttached PROVE EndsAttached'
  <2>1. enableCbs # <<>>
    BY <1>4 DEF OwnEnable
  <2>2. OwnEnable
    BY <1>4, <2>1, OwnStays
  <2> QED BY <1>4, <2>2 DEF TakesHold
<1>5. CASE LineDirect \/ LineDeferred
  <2>1. Kept /\ UNCHANGED handler
    BY <1>5, LineIsRecorded DEF ClientLine, LineDirect, LineDeferred, jsVars, LineClose,
       Recv, Line, mainVars
  <2> HIDE DEF Kept
  <2>2. Pushes({"Process"})
    BY <1>5, RequestsPush
  <2> QED BY <1>4, <2>1, <2>2, ProcessEndsAttached
<1>6. CASE OnDebuggerMessage
  <2>1. Kept /\ UNCHANGED handler
    BY <1>6 DEF OnDebuggerMessage, connVars, jsVars, mainVars
  <2> HIDE DEF Kept
  <2>2. Pushes({"Process"})
    BY <1>6, RequestsPush
  <2> QED BY <1>4, <2>1, <2>2, ProcessEndsAttached
<1>7. CASE Signal
  <2>1. Kept
    BY <1>7 DEF Signal, EnableRequestSignalCb, ProcessDebugMessagesCb,
       DisableRequestSignalCb, Detach, NextSignal, connVars, jsVars
  <2> HIDE DEF Kept
  <2> QED BY <1>4, <1>7, <2>1, SignalEndsAttached
<1>8. CASE \/ Receive \/ OnDebuggerDisabled \/ ServePaused \/ Break \/ Interrupt
           \/ UNCHANGED vars
  <2>1. Kept /\ UNCHANGED <<signals, handler>>
    BY <1>8 DEF Receive, OnDebuggerDisabled, ServePaused, Break, Interrupt, connVars,
       jsVars, sentVars, mainVars, vars
  <2> HIDE DEF Kept
  <2> QED BY <1>4, <2>1 DEF EndsAttached
<1> QED BY <1>1, <1>2, <1>3, <1>5, <1>6, <1>7, <1>8 DEF Next, ClientLine

\* There is never more than one enable handshake under way, and there is one
\* whenever somebody waits for it; and the enable of a client that stays ends
\* with the debugger attached, whatever an earlier client left in the queue
\* (context.enableDebugger, Controller::EnableRequestSignalCb,
\* bindings.onDebuggerEnabled).
THEOREM EnableHandshakeKept == Spec => []EnableHandshake
<1>1. Init => TakesHold
  BY DEF Init, TakesHold, OwnEnable
<1>2. OneHandshake /\ TakesHold => EnableHandshake
  BY DEF OneHandshake, TakesHold, EnableHandshake, Signalled, Has, OneEnable
<1> QED
  BY <1>1, <1>2, TypeCorrect, FromPastAlways, OneHandshakeAlways, NextTakesHold,
     PTL DEF Spec

------------------------------------------------------------------------------

\* What a command for V8 can be.
StepKinds == AllSteps \cup {"disconnect"}

\* The commands queued for V8 end with the program stopped, with a breakpoint
\* armed.
Stops == LeavesOn(Steps, {"suspend"}, GoOn, paused)
Arms == LeavesOn(Steps, {"setbreakpoint"}, {"disconnect"}, armed)

\* There is no client, and no line of one is left to handle.
Left == Unended /\ chunk = <<>>

\* The queued commands let the program go, held aside.
Released == (Stops => held) /\ ~Arms

\* The inductive strengthening of ReleasedOnceGone.
WillRelease == Left => Released

\* A program is held only while it is paused.
HeldPaused == held => paused

\* The commands the engine sends on its own account, or for a deferred
\* function: they only look.
LookSteps == {"scripts", "evaluate", "backtrace"}

\* The step only queues commands, of the kinds K.
StepsPush(K) == \E t \in Seq(K) : Steps' = Steps \o t

\* The type of Steps.
LEMMA StepsType ==
  TypeOK => Steps \in Seq(StepKinds) /\ Len(Steps) = Len(cmds) /\ DOMAIN Steps = 1..Len(cmds)
<1> SUFFICES ASSUME TypeOK
             PROVE  Steps \in Seq(StepKinds) /\ Len(Steps) = Len(cmds)
                    /\ DOMAIN Steps = 1..Len(cmds)
  OBVIOUS
<1>1. PICK n \in Nat : SentType(n)
  BY TypeParts
<1>2. PICK k \in Nat : k = Len(reqCallbacks) /\ cmds \in Seq(0..k) /\ reqCallbacks \in Seq(Entry(n))
  BY <1>1 DEF SentType
<1>3. \A id \in 0..k : StepOf(id) \in StepKinds
  <2>1. \A id \in 1..k : reqCallbacks[id] \in Entry(n)
    BY <1>2
  <2> QED BY <2>1 DEF StepOf, StepKinds, Entry, Disconnect
<1>4. DOMAIN cmds = 1..Len(cmds) /\ Len(cmds) \in Nat /\ \A i \in 1..Len(cmds) : cmds[i] \in 0..k
  BY <1>2
<1> QED BY <1>3, <1>4 DEF Steps

\* StepOf for a given list of callbacks.
StepIn(q, id) == IF id = Disconnect THEN "disconnect" ELSE q[id].step

\* Sending requests appends their steps to those queued: the ids that are
\* queued keep their meaning when callbacks are added.
LEMMA SendRequestsSteps ==
  ASSUME TypeOK, NEW n \in Nat, NEW e \in Seq(Entry(n)), SendRequests(e),
         NEW K, \A i \in DOMAIN e : e[i].step \in K
  PROVE  StepsPush(K)
<1>1. PICK k \in Nat : /\ k = Len(reqCallbacks) /\ cmds \in Seq(0..k)
                       /\ \E m \in Nat : reqCallbacks \in Seq(Entry(m))
  BY TypeParts DEF SentType
<1>2. PICK c \in Nat, d \in Nat : /\ c = Len(cmds) /\ DOMAIN cmds = 1..c
                                  /\ d = Len(e) /\ DOMAIN e = 1..d
  BY <1>1
<1>3. \A id \in 0..k : StepIn(reqCallbacks', id) = StepOf(id)
  <2>1. \A id \in 1..k : reqCallbacks'[id] = reqCallbacks[id]
    BY <1>1 DEF SendRequests
  <2> QED BY <2>1 DEF StepOf, StepIn, Disconnect
<1>4. \A i \in 1..d : StepIn(reqCallbacks', k + i) = e[i].step
  <2>1. \A i \in 1..d : reqCallbacks'[k + i] = e[i] /\ k + i # 0
    BY <1>1, <1>2 DEF SendRequests
  <2> QED BY <2>1 DEF StepIn, Disconnect
<1>5. cmds' = cmds \o [i \in 1..d |-> k + i]
  BY <1>1, <1>2 DEF SendRequests
<1>6. /\ DOMAIN cmds' = 1..(c + d)
      /\ \A i \in 1..c : cmds'[i] = cmds[i] /\ cmds[i] \in 0..k
      /\ \A i \in (c + 1)..(c + d) : cmds'[i] = k + (i - c) /\ i - c \in 1..d
  BY <1>1, <1>2, <1>5
<1> DEFINE t == [i \in 1..d |-> e[i].step]
<1>7. t \in Seq(K)
  BY <1>2
<1>8. Steps' = [i \in 1..(c + d) |-> StepIn(reqCallbacks', cmds'[i])]
  BY <1>6 DEF Steps, StepOf, StepIn
<1>9. Steps \o t = [i \in 1..(c + d) |-> IF i <= c THEN StepOf(cmds[i]) ELSE e[i - c].step]
  <2>1. Steps \in Seq(StepKinds) /\ Len(Steps) = c /\ Steps = [i \in 1..c |-> StepOf(cmds[i])]
    BY <1>2, StepsType DEF Steps
  <2>2. Len(t) = d /\ t \in Seq(K)
    BY <1>2, <1>7
  <2>3. DOMAIN (Steps \o t) = 1..(c + d)
    BY <1>2, <2>1, <2>2
  <2>4. \A i \in 1..(c + d) : (Steps \o t)[i] = IF i <= c THEN Steps[i] ELSE t[i - c]
    BY <1>2, <2>1, <2>2
  <2>5. \A i \in 1..(c + d) : IF i <= c THEN i \in 1..c ELSE i - c \in 1..d
    BY <1>2
  <2> HIDE DEF t
  <2>6. \A i \in 1..(c + d) :
          (Steps \o t)[i] = IF i <= c THEN StepOf(cmds[i]) ELSE e[i - c].step
    BY <2>1, <2>4, <2>5 DEF t
  <2>7. Steps \o t = [i \in 1..(c + d) |-> (Steps \o t)[i]]
    BY <2>1, <2>2, <2>3
  <2> QED BY <2>6, <2>7
<1>10. \A i \in 1..(c + d) :
         StepIn(reqCallbacks', cmds'[i]) = IF i <= c THEN StepOf(cmds[i]) ELSE e[i - c].step
  <2> SUFFICES ASSUME NEW i \in 1..(c + d)
               PROVE  StepIn(reqCallbacks', cmds'[i]) = IF i <= c THEN StepOf(cmds[i]) ELSE e[i - c].step
    OBVIOUS
  <2>1. CASE i <= c
    BY <1>2, <1>3, <1>6, <2>1
  <2>2. CASE ~(i <= c)
    <3>1. i - c \in 1..d /\ cmds'[i] = k + (i - c)
      BY <1>2, <1>6, <2>2
    <3>2. StepIn(reqCallbacks', k + (i - c)) = e[i - c].step
      BY <1>4, <3>1
    <3> QED BY <2>2, <3>1, <3>2
  <2> QED BY <2>1, <2>2
<1>11. Steps' = Steps \o t
  BY <1>8, <1>9, <1>10
<1> QED BY <1>7, <1>11 DEF StepsPush

\* Worker::Disable queues "disconnect".
LEMMA DisableSteps ==
  ASSUME TypeOK, Disable
  PROVE  Steps' = Steps \o <<"disconnect">>
<1>1. PICK k \in Nat : cmds \in Seq(0..k)
  BY DEF TypeOK
<1>2. PICK c \in Nat : c = Len(cmds) /\ DOMAIN cmds = 1..c
  BY <1>1
<1>3. reqCallbacks' = reqCallbacks /\ cmds' = Append(cmds, 0)
  BY DEF Disable, Disconnect
<1>4. /\ DOMAIN cmds' = 1..(c + 1) /\ cmds'[c + 1] = 0
      /\ \A i \in 1..c : cmds'[i] = cmds[i]
  BY <1>1, <1>2, <1>3
<1>5. Steps' = [i \in 1..(c + 1) |-> StepOf(cmds'[i])]
  BY <1>3, <1>4 DEF Steps, StepOf
<1>6. StepOf(0) = "disconnect"
  BY DEF StepOf, Disconnect
<1>7. Steps \in Seq(StepKinds) /\ Len(Steps) = c /\ Steps = [i \in 1..c |-> StepOf(cmds[i])]
  BY <1>2, StepsType DEF Steps
<1>8. Steps \o <<"disconnect">> =
        [i \in 1..(c + 1) |-> IF i <= c THEN StepOf(cmds[i]) ELSE "disconnect"]
  BY <1>2, <1>7
<1>9. \A i \in 1..(c + 1) :
        StepOf(cmds'[i]) = IF i <= c THEN StepOf(cmds[i]) ELSE "disconnect"
  <2>1. \A i \in 1..(c + 1) : IF i <= c THEN i \in 1..c ELSE i = c + 1
    BY <1>2
  <2> QED BY <1>4, <1>6, <2>1
<1> QED BY <1>5, <1>8, <1>9

\* HeldPaused is inductive relative to TypeOK.
LEMMA NextHeldPaused == TypeOK /\ HeldPaused /\ [Next]_vars => HeldPaused'
<1> SUFFICES ASSUME TypeOK, HeldPaused, [Next]_vars PROVE HeldPaused'
  OBVIOUS
<1>1. CASE RunCommands
  BY <1>1 DEF RunCommands, HeldPaused
<1>2. CASE paused' = TRUE
  BY <1>2 DEF HeldPaused
<1>3. CASE UNCHANGED <<held, paused>>
  BY <1>3 DEF HeldPaused
<1>4. CASE ClientLine
  BY <1>3, <1>4 DEF ClientLine, LineEnable, LineDisable, LineDirect, LineDeferred,
     LineClose, Line, mainVars
<1>5. CASE Signal \/ ServePaused \/ Break \/ Interrupt
  BY <1>1, <1>2, <1>3, <1>5 DEF Signal, EnableRequestSignalCb, ProcessDebugMessagesCb,
     DisableRequestSignalCb, Detach, ServePaused, Break, Interrupt
<1>6. CASE \/ Accept \/ AcceptFails \/ Hangup \/ Receive \/ ClientClosedCb
           \/ OnDebuggerEnabled \/ OnDebuggerDisabled \/ OnDebuggerMessage
           \/ UNCHANGED vars
  BY <1>3, <1>6 DEF Accept, AcceptFails, Hangup, Receive, ClientClosedCb,
     OnDebuggerEnabled, OnDebuggerDisabled, OnDebuggerMessage, mainVars, vars
<1> QED BY <1>4, <1>5, <1>6 DEF Next

\* HeldPaused is an invariant.
LEMMA HeldPausedAlways == Spec => []HeldPaused
<1>1. Init => HeldPaused
  BY DEF Init, HeldPaused
<1> QED
  BY <1>1, TypeCorrect, NextHeldPaused, PTL DEF Spec

\* V8 running its commands ends in the state they lead to, and a program
\* that they do not let go was held before.
LEMMA RunCommandsReleases ==
  ASSUME TypeOK, RunCommands, UNCHANGED reqCallbacks, Released
  PROVE  Released'
<1>1. CASE handler
  <2>1. (paused' => held) /\ held' = (held /\ paused') /\ armed' = FALSE /\ cmds' = <<>>
    BY <1>1 DEF RunCommands, Released, Stops, Arms, LeavesOn
  <2>2. DOMAIN Steps' = {}
    BY <2>1 DEF Steps
  <2>3. ~Arms' /\ (Stops' => paused')
    BY <2>1, <2>2 DEF Stops, Arms, LeavesOn
  <2> QED BY <2>1, <2>3 DEF Released
<1>2. CASE ~handler
  BY <1>2 DEF RunCommands, Released, Stops, Arms, Steps, StepOf
<1> QED BY <1>1, <1>2

\* The program stops.  If a "disconnect" is queued, as it is while a
\* breakpoint is armed, that lets it run again; if none is, the program
\* stopped by itself and is held.
LEMMA BreakReleases ==
  ASSUME TypeOK, HeldPaused, Left, Break, Released
  PROVE  Released'
<1>1. armed' = armed /\ Steps' = Steps /\ held' = StopsByItself /\ ~paused /\ ~crashed
  BY DEF Break, InProgram, sentVars, Steps, StepOf
<1>2. ~Stops /\ ~Arms /\ ~Arms'
  BY <1>1 DEF Released, HeldPaused, Arms
<1>3. CASE \E i \in DOMAIN Steps : Steps[i] = "disconnect"
  <2>1. ~Stops'
    BY <1>1, <1>2, <1>3 DEF Stops, GoOn, LeavesOn
  <2> QED BY <1>2, <2>1 DEF Released
<1>4. CASE ~\E i \in DOMAIN Steps : Steps[i] = "disconnect"
  <2>1. ~armed
    BY <1>2, <1>4 DEF Arms, LeavesOn
  <2>2. Disconnect \notin ToSet(cmds)
    BY <1>4 DEF Steps, StepOf, ToSet
  <2>3. Gone
    BY <1>1 DEF Gone, AtLoop, Left, Unended
  <2> QED BY <1>1, <1>2, <2>1, <2>2, <2>3 DEF StopsByItself, Released
<1> QED BY <1>3, <1>4

\* Commands that only look change nothing in that.
LEMMA LooksOnly ==
  ASSUME TypeOK, Released, StepsPush(LookSteps),
         UNCHANGED <<paused, held, armed>>
  PROVE  Released'
<1>1. PICK t \in Seq(LookSteps) : Steps' = Steps \o t
  BY DEF StepsPush
<1>2. Steps \in Seq(StepKinds) /\ t \in Seq(StepKinds)
  BY <1>1, StepsType, SeqMonotonic DEF StepKinds, AllSteps, LookSteps
<1>3. /\ ~Has(t, {"suspend"}) /\ ~Has(t, GoOn)
      /\ ~Has(t, {"setbreakpoint"}) /\ ~Has(t, {"disconnect"})
  BY DEF Has, LookSteps, GoOn
<1>4. (Stops' <=> Stops) /\ (Arms' <=> Arms)
  BY <1>1, <1>2, <1>3, LeavesNeutral DEF Stops, Arms
<1> QED BY <1>4 DEF Released

\* What onDebuggerEnabled and onDebuggerMessage send only looks.
LEMMA CallbacksLookOnly ==
  ASSUME TypeOK, OnDebuggerEnabled \/ OnDebuggerMessage
  PROVE  /\ StepsPush(LookSteps)
         /\ UNCHANGED <<paused, held, armed>>
<1>0. UNCHANGED <<paused, held, armed>>
  BY DEF OnDebuggerEnabled, OnDebuggerMessage, mainVars
<1> SUFFICES StepsPush(LookSteps)
  BY <1>0
<1>1. ASSUME UNCHANGED sentVars PROVE StepsPush(LookSteps)
  <2>1. Steps' = Steps
    BY <1>1 DEF sentVars, Steps, StepOf
  <2>2. Steps \o <<>> = Steps /\ <<>> \in Seq(LookSteps)
    BY StepsType
  <2> QED BY <2>1, <2>2 DEF StepsPush
<1>2. CASE OnDebuggerMessage
  <2>1. CASE UNCHANGED sentVars
    BY <1>1, <2>1
  <2>2. CASE SendRequest("backtrace", 0)
    <3>1. /\ <<[step |-> "backtrace", req |-> 0]>> \in Seq(Entry(0))
          /\ \A i \in DOMAIN <<[step |-> "backtrace", req |-> 0]>> :
               <<[step |-> "backtrace", req |-> 0]>>[i].step \in LookSteps
      BY DEF Entry, AllSteps, LookSteps
    <3> QED BY <2>2, <3>1, SendRequestsSteps DEF SendRequest
  <2> QED BY <1>2, <2>1, <2>2 DEF OnDebuggerMessage, NotifyPaused
<1>3. CASE OnDebuggerEnabled
  <2>1. CASE enableCbs = <<>>
    BY <1>1, <1>3, <2>1 DEF OnDebuggerEnabled
  <2>2. CASE enableCbs # <<>>
    <3>1. PICK m \in 0..Len(afterEnableCbs) :
             SendRequests(
                  [i \in DOMAIN enableCbs |->
                     [step |-> "scripts", req |-> enableCbs[i]]]
                  \o [i \in 1..m |->
                     [step |-> "evaluate", req |-> afterEnableCbs[i]]])
      BY <1>3, <2>2 DEF OnDebuggerEnabled
    <3>2. PICK n \in Nat : n = Len(requests) /\ enableCbs \in Seq(1..n)
      BY DEF TypeOK
    <3>3. PICK e \in Seq(Entry(n)) :
             e = [i \in DOMAIN enableCbs |-> [step |-> "scripts", req |-> enableCbs[i]]]
                 \o [i \in 1..m |-> [step |-> "evaluate", req |-> afterEnableCbs[i]]]
      BY <3>2, EnabledEntries
    <3>4. PICK p \in Nat : p = Len(enableCbs) /\ DOMAIN enableCbs = 1..p /\ m \in Nat
      BY <3>2 DEF TypeOK
    <3>5. \A i \in DOMAIN e : e[i].step \in LookSteps
      BY <3>3, <3>4 DEF LookSteps
    <3> QED BY <3>1, <3>3, <3>5, SendRequestsSteps
  <2> QED BY <2>1, <2>2
<1> QED BY <1>2, <1>3

\* WillRelease is inductive relative to TypeOK, CloseRecorded and HeldPaused.
LEMMA NextWillRelease ==
  TypeOK /\ CloseRecorded /\ HeldPaused /\ WillRelease /\ [Next]_vars => WillRelease'
<1> SUFFICES ASSUME TypeOK, CloseRecorded, HeldPaused, WillRelease, [Next]_vars, Left'
             PROVE  Released'
  BY DEF WillRelease
<1>1. CASE AcceptFails \/ Hangup \/ LineClose
  <2>1. Steps' = Steps \o <<"disconnect">>
    BY <1>1, DisableSteps DEF AcceptFails, Hangup, LineClose
  <2>2. Steps \in Seq(StepKinds) /\ <<"disconnect">> \in Seq(StepKinds)
    BY StepsType DEF StepKinds
  <2>3. /\ ~Has(<<"disconnect">>, {"suspend"}) /\ Has(<<"disconnect">>, GoOn)
        /\ ~Has(<<"disconnect">>, {"setbreakpoint"}) /\ Has(<<"disconnect">>, {"disconnect"})
    BY DEF Has, GoOn
  <2> QED BY <2>1, <2>2, <2>3, LeavesOffAtEnd DEF Released, Stops, Arms
<1>2. CASE Unended /\ ~ClientLine
  <2>0. Left
    <3>1. chunk' = chunk \/ Receive
      BY <1>2 DEF Next, Signal, vars, Accept, AcceptFails, Hangup, ClientClosedCb,
         OnDebuggerEnabled, OnDebuggerDisabled, OnDebuggerMessage, EnableRequestSignalCb,
         ProcessDebugMessagesCb, DisableRequestSignalCb, Detach, NextSignal, ServePaused,
         Break, Interrupt
    <3> QED BY <1>2, <3>1 DEF Left, Unended, Receive
  <2>1. Released
    BY <2>0 DEF WillRelease
  <2>2. CASE ProcessDebugMessagesCb \/ DisableRequestSignalCb \/ ServePaused \/ Interrupt
    BY <2>1, <2>2, RunCommandsReleases DEF ProcessDebugMessagesCb, DisableRequestSignalCb,
       ServePaused, Interrupt, NextSignal
  <2>3. CASE Break
    BY <2>0, <2>1, <2>3, BreakReleases
  <2>4. CASE OnDebuggerEnabled \/ OnDebuggerMessage
    BY <2>1, <2>4, CallbacksLookOnly, LooksOnly
  <2>5. CASE Detach
    BY <2>1, <2>5 DEF Detach, NextSignal, Released, Stops, Arms, LeavesOn, Steps, StepOf
  <2>6. CASE UNCHANGED <<cmds, reqCallbacks, paused, held, armed>>
    BY <2>1, <2>6 DEF Released, Stops, Arms, Steps, StepOf
  <2>7. CASE AcceptFails \/ Hangup
    BY <1>1, <2>7
  <2>8. CASE \/ Accept \/ Receive \/ ClientClosedCb \/ OnDebuggerDisabled
             \/ EnableRequestSignalCb \/ UNCHANGED vars
    BY <2>6, <2>8 DEF Accept, Receive, ClientClosedCb, OnDebuggerDisabled,
       EnableRequestSignalCb, NextSignal, sentVars, mainVars, vars
  <2> QED BY <1>2, <2>2, <2>3, <2>4, <2>5, <2>7, <2>8 DEF Next, Signal
<1> QED BY <1>1, <1>2, StaysUnended DEF Left

\* Once the client is gone the commands queued for V8 disarm its breakpoints
\* and let the program run, whatever the client did last, a step among it:
\* only a program that stops by itself after that, at the end of a step or at
\* a `debugger;` statement, waits on (Worker::Disable and the NOTE in it).
THEOREM ReleasedOnceGoneAlways == Spec => []ReleasedOnceGone
<1>1. Init => WillRelease
  BY DEF Init, WillRelease, Released, Stops, Arms, LeavesOn, Steps
<1>2. WillRelease => ReleasedOnceGone
  BY DEF WillRelease, Released, ReleasedOnceGone, Gone, Left, Unended, AtLoop, Stops, Arms
<1> QED
  BY <1>1, <1>2, TypeCorrect, CloseRecordedAlways, HeldPausedAlways, NextWillRelease,
     PTL DEF Spec

------------------------------------------------------------------------------
(* No line is answered twice.  An answer that is still to come is under way  *)
(* in one place only: behind an id on its way through V8, or in one of the   *)
(* three lists of context.js.                                                *)

\* The numbers in s that are not 0 are all different.
Once(s) == \A i, j \in DOMAIN s : s[i] = s[j] /\ s[i] # 0 => i = j

\* The requests that entries [step, req] are answers to, 0 for the
\* "backtrace" whose answer is nobody's.
AskedBy(entries) ==
  [i \in DOMAIN entries |->
     IF entries[i].step = "backtrace" THEN 0 ELSE entries[i].req]

\* One of the ids in s is that of an entry that asks for request r, where
\* asked says which entry asks for which.
Carries(s, asked, r) == \E i \in DOMAIN s : s[i] # 0 /\ asked[s[i]] = r

\* The ids on their way through V8, in the order in which they come back.
IdsOf(ms) == [i \in DOMAIN ms |-> ms[i].id]
MsgIds == IdsOf(msgs)
Flight == MsgIds \o cmds

\* The request that each id sent so far was sent for.
Asked == AskedBy(reqCallbacks)

\* An answer to r is still to come.
Due(r) ==
  \/ Has(enableCbs, {r}) \/ Has(afterEnableCbs, {r}) \/ Has(disableCbs, {r})
  \/ Carries(Flight, Asked, r)

\* No number but 0 is in both.
Apart(s, t) == \A x \in Nat \ {0} : ~(Has(s, {x}) /\ Has(t, {x}))

\* No number but 0 is twice in these four sequences.
EachOnce(a, b, c, d) ==
  /\ Once(a) /\ Once(b) /\ Once(c) /\ Once(d)
  /\ Apart(a, b) /\ Apart(a, c) /\ Apart(a, d)
  /\ Apart(b, c) /\ Apart(b, d) /\ Apart(c, d)

\* No id comes back twice, no request is asked of V8 twice or waits twice,
OwedOnce ==
  /\ Once(Flight)
  /\ EachOnce(Asked, enableCbs, afterEnableCbs, disableCbs)

\* and what is still to be answered has not been.
DueUnanswered ==
  \A r \in DOMAIN requests : Due(r) => requests[r].answers = <<>>

\* Two sequences have no number twice if neither has and none is in both.
LEMMA OnceConcat ==
  ASSUME NEW s \in Seq(Nat), NEW t \in Seq(Nat)
  PROVE  Once(s \o t) <=>
           /\ Once(s) /\ Once(t)
           /\ \A i \in DOMAIN s, j \in DOMAIN t : s[i] = t[j] => s[i] = 0
<1>1. /\ DOMAIN s = 1..Len(s) /\ DOMAIN t = 1..Len(t)
      /\ DOMAIN (s \o t) = 1..(Len(s) + Len(t))
      /\ Len(s) \in Nat /\ Len(t) \in Nat
  OBVIOUS
<1>2. \A i \in 1..Len(s) : (s \o t)[i] = s[i]
  OBVIOUS
<1>3. \A i \in 1..Len(t) : (s \o t)[Len(s) + i] = t[i]
  OBVIOUS
<1> DEFINE u == s \o t
<1>4. ASSUME Once(u)
      PROVE  /\ Once(s) /\ Once(t)
             /\ \A i \in DOMAIN s, j \in DOMAIN t : s[i] = t[j] => s[i] = 0
  <2>1. ASSUME NEW i \in DOMAIN s, NEW j \in DOMAIN s, s[i] = s[j], s[i] # 0
        PROVE  i = j
    <3>1. i \in DOMAIN u /\ j \in DOMAIN u /\ u[i] = s[i] /\ u[j] = s[j]
      BY <1>1, <1>2
    <3> QED BY <1>4, <2>1, <3>1 DEF Once
  <2>2. ASSUME NEW i \in DOMAIN t, NEW j \in DOMAIN t, t[i] = t[j], t[i] # 0
        PROVE  i = j
    <3>1. Len(s) + i \in DOMAIN u /\ Len(s) + j \in DOMAIN u
      BY <1>1
    <3>2. Len(s) + i = Len(s) + j
      BY <1>1, <1>3, <1>4, <2>2, <3>1 DEF Once
    <3> QED BY <1>1, <3>2
  <2>3. ASSUME NEW i \in DOMAIN s, NEW j \in DOMAIN t, s[i] = t[j], s[i] # 0
        PROVE  FALSE
    <3>1. i \in DOMAIN u /\ Len(s) + j \in DOMAIN u /\ i # Len(s) + j
      BY <1>1
    <3> QED BY <1>1, <1>2, <1>3, <1>4, <2>3, <3>1 DEF Once
  <2> QED BY <2>1, <2>2, <2>3 DEF Once
<1>5. ASSUME Once(s), Once(t),
             \A i \in DOMAIN s, j \in DOMAIN t : s[i] = t[j] => s[i] = 0,
             NEW i \in DOMAIN u, NEW j \in DOMAIN u, u[i] = u[j], u[i] # 0
      PROVE  i = j
  <2>1. i \in 1..(Len(s) + Len(t)) /\ j \in 1..(Len(s) + Len(t))
    BY <1>1
  <2>2. ASSUME NEW p \in 1..(Len(s) + Len(t)), p > Len(s)
        PROVE  p - Len(s) \in DOMAIN t /\ u[p] = t[p - Len(s)]
    <3>1. p - Len(s) \in 1..Len(t) /\ Len(s) + (p - Len(s)) = p
      BY <1>1, <2>2
    <3> QED BY <1>1, <1>3, <3>1
  <2>3. ASSUME NEW p \in 1..(Len(s) + Len(t)), p <= Len(s)
        PROVE  p \in DOMAIN s /\ u[p] = s[p]
    BY <1>1, <1>2, <2>3
  <2> HIDE DEF u
  <2>4. CASE i <= Len(s) /\ j <= Len(s)
    BY <1>5, <2>1, <2>3, <2>4 DEF Once
  <2>5. CASE i > Len(s) /\ j > Len(s)
    <3>1. i - Len(s) = j - Len(s)
      BY <1>5, <2>1, <2>2, <2>5 DEF Once
    <3> QED BY <1>1, <2>1, <3>1
  <2>6. CASE i <= Len(s) /\ j > Len(s)
    BY <1>5, <2>1, <2>2, <2>3, <2>6
  <2>7. CASE i > Len(s) /\ j <= Len(s)
    BY <1>5, <2>1, <2>2, <2>3, <2>7
  <2> QED BY <1>1, <2>1, <2>4, <2>5, <2>6, <2>7
<1> QED BY <1>4, <1>5 DEF Once

\* A number that is new, or is 0, can be put anywhere.
LEMMA OnceInsert ==
  ASSUME NEW s \in Seq(Nat), NEW t \in Seq(Nat), NEW x \in Nat, Once(s \o t),
         x = 0 \/ (~Has(s, {x}) /\ ~Has(t, {x}))
  PROVE  Once(Append(s, x) \o t)
<1> DEFINE one == <<x>>
<1>0. one \in Seq(Nat) /\ DOMAIN one = {1} /\ one[1] = x /\ Append(s, x) = s \o one
  OBVIOUS
<1>1. /\ Once(s) /\ Once(t)
      /\ \A i \in DOMAIN s, j \in DOMAIN t : s[i] = t[j] => s[i] = 0
  BY OnceConcat
<1> HIDE DEF one
<1>2. Once(one)
  BY <1>0 DEF Once
<1>3. \A i \in DOMAIN s, j \in DOMAIN one : s[i] = one[j] => s[i] = 0
  BY <1>0 DEF Has
<1>4. Once(s \o one)
  BY <1>0, <1>1, <1>2, <1>3, OnceConcat
<1>5. Once(one \o t)
  <2>1. \A i \in DOMAIN one, j \in DOMAIN t : one[i] = t[j] => one[i] = 0
    BY <1>0 DEF Has
  <2> QED BY <1>0, <1>1, <1>2, <2>1, OnceConcat
<1>6. s \o one \in Seq(Nat)
  BY <1>0
<1>7. \A i \in DOMAIN (s \o one), j \in DOMAIN t :
        (s \o one)[i] = t[j] => (s \o one)[i] = 0
  <2> SUFFICES ASSUME NEW i \in DOMAIN (s \o one), NEW j \in DOMAIN t,
                      (s \o one)[i] = t[j]
               PROVE  t[j] = 0
    OBVIOUS
  <2>1. Has(s \o one, {t[j]})
    BY DEF Has
  <2>2. Has(s, {t[j]}) \/ Has(one, {t[j]})
    BY <1>0, <2>1, HasConcat
  <2>3. CASE Has(s, {t[j]})
    BY <1>1, <2>3 DEF Has
  <2>4. CASE Has(one, {t[j]})
    BY <1>0, <2>4 DEF Has
  <2> QED BY <2>2, <2>3, <2>4
<1> QED BY <1>0, <1>1, <1>4, <1>6, <1>7, OnceConcat

\* An id is carried by a concatenation if it is by one of its parts.
LEMMA CarriesConcat ==
  ASSUME NEW s \in Seq(Nat), NEW t \in Seq(Nat), NEW a, NEW r
  PROVE  Carries(s \o t, a, r) <=> Carries(s, a, r) \/ Carries(t, a, r)
<1> DEFINE S == {i \in Nat : i # 0 /\ a[i] = r}
<1>1. ASSUME NEW u \in Seq(Nat) PROVE Carries(u, a, r) <=> Has(u, S)
  <2>1. \A i \in DOMAIN u : u[i] \in Nat
    OBVIOUS
  <2> QED BY <2>1 DEF Carries, Has
<1>2. s \o t \in Seq(Nat)
  OBVIOUS
<1> HIDE DEF S
<1> QED BY <1>1, <1>2, HasConcat

\* The elements of a sequence.
LEMMA ElementsIn ==
  ASSUME NEW S, NEW s \in Seq(S)
  PROVE  \A i \in DOMAIN s : s[i] \in S
  OBVIOUS

\* A sequence is a concatenation if it is element by element.
LEMMA ConcatIs ==
  ASSUME NEW S, NEW s \in Seq(S), NEW t \in Seq(S), NEW w \in Seq(S),
         Len(w) = Len(s) + Len(t),
         \A i \in 1..Len(s) : s[i] = w[i],
         \A i \in 1..Len(t) : t[i] = w[Len(s) + i]
  PROVE  w = s \o t
<1>1. /\ s \o t \in Seq(S) /\ Len(s \o t) = Len(s) + Len(t)
      /\ Len(s) \in Nat /\ Len(t) \in Nat
  BY ConcatProperties
<1>2. ASSUME NEW i \in 1..Len(w) PROVE w[i] = (s \o t)[i]
  <2>1. CASE i <= Len(s)
    <3>1. i \in 1..Len(s) /\ (s \o t)[i] = s[i]
      BY <1>1, <2>1
    <3> QED BY <3>1
  <2>2. CASE i > Len(s)
    <3>1. /\ i - Len(s) \in 1..Len(t) /\ i = Len(s) + (i - Len(s))
          /\ (s \o t)[i] = t[i - Len(s)]
      BY <1>1, <2>2
    <3> QED BY <3>1
  <2> QED BY <1>1, <2>1, <2>2
<1> QED BY <1>1, <1>2, SeqEqual

\* What is asked of entries: concatenation by concatenation.
LEMMA AskedByConcat ==
  ASSUME NEW n \in Nat, NEW s \in Seq(Entry(n)), NEW t \in Seq(Entry(n))
  PROVE  /\ AskedBy(s \o t) = AskedBy(s) \o AskedBy(t)
         /\ AskedBy(s) \in Seq(0..n) /\ Len(AskedBy(s)) = Len(s)
<1>1. ASSUME NEW u \in Seq(Entry(n))
      PROVE  /\ AskedBy(u) \in Seq(0..n) /\ Len(AskedBy(u)) = Len(u)
             /\ \A i \in 1..Len(u) :
                  AskedBy(u)[i] = IF u[i].step = "backtrace" THEN 0 ELSE u[i].req
  <2>1. DOMAIN u = 1..Len(u) /\ Len(u) \in Nat
    OBVIOUS
  <2>2. \A i \in 1..Len(u) : u[i].req \in 0..n
    <3>1. \A i \in 1..Len(u) : u[i] \in Entry(n)
      OBVIOUS
    <3> QED BY <3>1 DEF Entry
  <2> QED BY <2>1, <2>2 DEF AskedBy
<1>2. s \o t \in Seq(Entry(n)) /\ Len(s) \in Nat /\ Len(t) \in Nat
      /\ Len(s \o t) = Len(s) + Len(t)
  OBVIOUS
<1> DEFINE p == AskedBy(s)
           q == AskedBy(t)
           w == AskedBy(s \o t)
<1>3. /\ p \in Seq(0..n) /\ q \in Seq(0..n) /\ w \in Seq(0..n)
      /\ Len(p) = Len(s) /\ Len(q) = Len(t) /\ Len(w) = Len(s) + Len(t)
  BY <1>1, <1>2
<1>4. /\ \A i \in 1..Len(s) : p[i] = w[i]
      /\ \A i \in 1..Len(t) : q[i] = w[Len(s) + i]
  <2>1. ASSUME NEW i \in 1..Len(s) PROVE p[i] = w[i]
    <3>1. (s \o t)[i] = s[i] /\ i \in 1..(Len(s) + Len(t))
      BY <1>2
    <3> QED BY <1>1, <1>2, <3>1
  <2>2. ASSUME NEW i \in 1..Len(t) PROVE q[i] = w[Len(s) + i]
    <3>1. (s \o t)[Len(s) + i] = t[i] /\ Len(s) + i \in 1..(Len(s) + Len(t))
      BY <1>2
    <3> QED BY <1>1, <1>2, <3>1
  <2> QED BY <2>1, <2>2
<1> HIDE DEF p, q, w
<1>5. w = p \o q
  <2>1. /\ Len(w) = Len(p) + Len(q)
        /\ \A i \in 1..Len(p) : p[i] = w[i]
        /\ \A i \in 1..Len(q) : q[i] = w[Len(p) + i]
    BY <1>3, <1>4
  <2> QED BY ONLY <1>3, <2>1, ConcatIs
<1> QED BY <1>3, <1>5 DEF p, q, w

------------------------------------------------------------------------------

\* A sequence that got one more element has that one and what it had.
LEMMA HasAppend ==
  ASSUME NEW T, NEW s \in Seq(T), NEW x \in T, NEW S
  PROVE  Has(Append(s, x), S) <=> Has(s, S) \/ x \in S
<1> DEFINE one == <<x>>
<1>1. one \in Seq(T) /\ DOMAIN one = {1} /\ one[1] = x
  OBVIOUS
<1>2. Append(s, x) = s \o one
  BY AppendIsConcat
<1>3. Has(one, S) <=> x \in S
  BY <1>1 DEF Has
<1> HIDE DEF one
<1>4. Has(s \o one, S) <=> Has(s, S) \/ Has(one, S)
  BY <1>1, HasConcat
<1> QED BY <1>2, <1>3, <1>4

\* The ids that sendDebuggerRequest hands out are new,
LEMMA NewIdsOnce ==
  ASSUME NEW k \in Nat, NEW s \in Seq(0..k), Once(s), NEW m \in Nat
  PROVE  LET ids == [i \in 1..m |-> k + i]
         IN  ids \in Seq(Nat) /\ Once(s \o ids)
<1> DEFINE ids == [i \in 1..m |-> k + i]
<1>1. ids \in Seq(Nat) /\ DOMAIN ids = 1..m /\ \A i \in 1..m : ids[i] = k + i
  OBVIOUS
<1>2. \A i \in DOMAIN s : s[i] \in 0..k
  OBVIOUS
<1>3. s \in Seq(Nat)
  BY SeqMonotonic
<1> HIDE DEF ids
<1>4. Once(ids)
  BY <1>1 DEF Once
<1>5. \A i \in DOMAIN s, j \in DOMAIN ids : s[i] = ids[j] => s[i] = 0
  BY <1>1, <1>2
<1>6. Once(s \o ids)
  BY <1>1, <1>3, <1>4, <1>5, OnceConcat
<1> QED BY <1>1, <1>6 DEF ids

\* and carry what was asked with them; the earlier ids carry what they did.
LEMMA NewIdsCarry ==
  ASSUME NEW n \in Nat, NEW a \in Seq(0..n), NEW b \in Seq(0..n),
         NEW s \in Seq(0..Len(a)), NEW r,
         Carries(s \o [i \in 1..Len(b) |-> Len(a) + i], a \o b, r)
  PROVE  Carries(s, a, r) \/ Has(b, {r})
<1> DEFINE ids == [i \in 1..Len(b) |-> Len(a) + i]
           ab == a \o b
<1>1. /\ Len(a) \in Nat /\ Len(b) \in Nat /\ DOMAIN b = 1..Len(b)
      /\ ids \in Seq(Nat) /\ DOMAIN ids = 1..Len(b)
      /\ \A i \in 1..Len(b) : ids[i] = Len(a) + i
  OBVIOUS
<1>2. /\ \A i \in 1..Len(a) : ab[i] = a[i]
      /\ \A i \in 1..Len(b) : ab[Len(a) + i] = b[i]
  OBVIOUS
<1>3. s \in Seq(Nat) /\ \A i \in DOMAIN s : s[i] \in 0..Len(a)
  BY <1>1, SeqMonotonic
<1> HIDE DEF ids, ab
<1>4. Carries(s, ab, r) \/ Carries(ids, ab, r)
  BY <1>1, <1>3, CarriesConcat DEF ids, ab
<1>5. CASE Carries(s, ab, r)
  <2>1. PICK i \in DOMAIN s : s[i] # 0 /\ ab[s[i]] = r
    BY <1>5 DEF Carries
  <2>2. s[i] \in 1..Len(a)
    BY <1>1, <1>3, <2>1
  <2> QED BY <1>2, <2>1, <2>2 DEF Carries
<1>6. CASE Carries(ids, ab, r)
  <2>1. PICK i \in 1..Len(b) : ab[ids[i]] = r
    BY <1>1, <1>6 DEF Carries
  <2> QED BY <1>1, <1>2, <2>1 DEF Has
<1> QED BY <1>4, <1>5, <1>6

\* The ids of messages,
LEMMA IdsOfType ==
  ASSUME NEW k \in Nat, NEW s \in Seq(Message(k))
  PROVE  /\ IdsOf(s) \in Seq(0..k) /\ Len(IdsOf(s)) = Len(s) /\ Len(s) \in Nat
         /\ \A i \in 1..Len(s) : IdsOf(s)[i] = s[i].id
<1>1. DOMAIN s = 1..Len(s) /\ Len(s) \in Nat /\ \A i \in 1..Len(s) : s[i] \in Message(k)
  OBVIOUS
<1>2. \A i \in 1..Len(s) : s[i].id \in 0..k
  BY <1>1 DEF Message
<1> QED BY <1>1, <1>2 DEF IdsOf

\* concatenation by concatenation.
LEMMA IdsOfConcat ==
  ASSUME NEW k \in Nat, NEW s \in Seq(Message(k)), NEW t \in Seq(Message(k))
  PROVE  IdsOf(s \o t) = IdsOf(s) \o IdsOf(t)
<1> DEFINE u == s \o t
           p == IdsOf(s)
           q == IdsOf(t)
           w == IdsOf(u)
<1>1. /\ u \in Seq(Message(k)) /\ Len(u) = Len(s) + Len(t)
      /\ Len(s) \in Nat /\ Len(t) \in Nat
  BY ConcatProperties
<1>2. /\ \A i \in 1..Len(s) : u[i] = s[i]
      /\ \A i \in 1..Len(t) : u[Len(s) + i] = t[i]
  OBVIOUS
<1> HIDE DEF u
<1>3. /\ p \in Seq(0..k) /\ q \in Seq(0..k) /\ w \in Seq(0..k)
      /\ Len(p) = Len(s) /\ Len(q) = Len(t) /\ Len(w) = Len(u)
      /\ \A i \in 1..Len(s) : p[i] = s[i].id
      /\ \A i \in 1..Len(t) : q[i] = t[i].id
      /\ \A i \in 1..Len(u) : w[i] = u[i].id
  BY <1>1, IdsOfType
<1> HIDE DEF p, q, w
<1>4. ASSUME NEW i \in 1..Len(p) PROVE p[i] = w[i]
  <2>1. i \in 1..Len(s) /\ i \in 1..Len(u)
    BY <1>1, <1>3
  <2> QED BY <1>2, <1>3, <2>1
<1>5. ASSUME NEW i \in 1..Len(q) PROVE q[i] = w[Len(p) + i]
  <2>1. i \in 1..Len(t) /\ Len(s) + i \in 1..Len(u) /\ Len(p) = Len(s)
    BY <1>1, <1>3
  <2> QED BY <1>2, <1>3, <2>1
<1>6. Len(w) = Len(p) + Len(q)
  BY <1>1, <1>3
<1>7. w = p \o q
  BY ONLY <1>3, <1>4, <1>5, <1>6, ConcatIs
<1> QED BY <1>7 DEF p, q, w, u

\* The types of it all, n lines having been handled.
LEMMA OwedTypes ==
  ASSUME NEW n \in Nat, SentType(n)
  PROVE  /\ Asked \in Seq(0..n) /\ Asked \in Seq(Nat)
         /\ Len(Asked) = Len(reqCallbacks) /\ Len(reqCallbacks) \in Nat
         /\ cmds \in Seq(0..Len(reqCallbacks))
<1>1. reqCallbacks \in Seq(Entry(n)) /\ Len(reqCallbacks) \in Nat
  BY DEF SentType
<1>2. Asked \in Seq(0..n) /\ Len(Asked) = Len(reqCallbacks)
  BY <1>1, AskedByConcat DEF Asked
<1> QED BY <1>1, <1>2, SeqMonotonic DEF SentType

\* The same of the lists and of the ids.
LEMMA FlightTypes ==
  ASSUME TypeOK, NEW n, n = Len(requests)
  PROVE  /\ n \in Nat /\ SentType(n) /\ DOMAIN requests = 1..n
         /\ {enableCbs, afterEnableCbs, disableCbs} \subseteq Seq(1..n)
         /\ {enableCbs, afterEnableCbs, disableCbs} \subseteq Seq(Nat)
         /\ MsgIds \in Seq(0..Len(reqCallbacks))
         /\ Flight \in Seq(0..Len(reqCallbacks))
<1>1. n \in Nat /\ SentType(n) /\ ListsType(n) /\ MsgsType(Len(reqCallbacks))
      /\ DOMAIN requests = 1..n
  <2>1. requests \in Seq(RequestType)
    BY TypeParts
  <2> QED BY <2>1, TypeParts
<1>2. MsgIds \in Seq(0..Len(reqCallbacks))
  <2>1. Len(reqCallbacks) \in Nat
    BY <1>1 DEF SentType
  <2> QED BY <1>1, <2>1, IdsOfType DEF MsgsType, MsgIds
<1>3. Flight \in Seq(0..Len(reqCallbacks))
  BY <1>1, <1>2, ConcatProperties DEF Flight, SentType
<1>4. Seq(1..n) \subseteq Seq(Nat)
  BY <1>1, SeqMonotonic
<1> QED BY <1>1, <1>2, <1>3, <1>4 DEF ListsType

\* sendDebuggerRequest: the ids are new, each carries what its entry asks.
\* Here s is what is in front of V8's queue.
LEMMA SendKeeps ==
  ASSUME NEW n \in Nat, SentType(n), NEW e \in Seq(Entry(n)), SendRequests(e),
         NEW s \in Seq(0..Len(reqCallbacks)), Once(s \o cmds)
  PROVE  /\ Once(s \o cmds') /\ Asked' = Asked \o AskedBy(e)
         /\ \A r : Carries(s \o cmds', Asked', r) =>
                     Carries(s \o cmds, Asked, r) \/ Has(AskedBy(e), {r})
<1> DEFINE k == Len(reqCallbacks)
           b == AskedBy(e)
           ids == [i \in 1..Len(b) |-> Len(Asked) + i]
<1>1. /\ Asked \in Seq(0..n) /\ Len(Asked) = k /\ k \in Nat
      /\ cmds \in Seq(0..k)
  BY OwedTypes
<1>2. Asked' = Asked \o b /\ b \in Seq(0..n) /\ Len(b) = Len(e) /\ Len(b) \in Nat
  <2>1. reqCallbacks \in Seq(Entry(n)) /\ Len(e) \in Nat
    BY DEF SentType
  <2>2. b \in Seq(0..n) /\ Len(b) = Len(e)
        /\ AskedBy(reqCallbacks \o e) = AskedBy(reqCallbacks) \o b
    BY <2>1, AskedByConcat
  <2> HIDE DEF b
  <2> QED BY <2>1, <2>2 DEF Asked, SendRequests
<1>3. cmds' = cmds \o ids
  <2>1. DOMAIN e = 1..Len(e)
    OBVIOUS
  <2> HIDE DEF b
  <2> QED BY <1>1, <1>2, <2>1 DEF SendRequests
<1>4. s \o cmds \in Seq(0..k)
  BY <1>1, ConcatProperties
<1> HIDE DEF b, k
<1>5. ids \in Seq(Nat) /\ Once((s \o cmds) \o ids)
  BY <1>1, <1>2, <1>4, NewIdsOnce
<1>6. ASSUME NEW r, Carries((s \o cmds) \o ids, Asked \o b, r)
      PROVE  Carries(s \o cmds, Asked, r) \/ Has(b, {r})
  BY <1>1, <1>2, <1>4, <1>6, NewIdsCarry
<1> HIDE DEF ids
<1>7. s \o cmds' = (s \o cmds) \o ids
  <2>1. s \in Seq(Nat) /\ cmds \in Seq(Nat)
    BY <1>1, SeqMonotonic DEF k
  <2>2. (s \o cmds) \o ids = s \o (cmds \o ids)
    BY ONLY <1>5, <2>1, ConcatAssociative
  <2> QED BY ONLY <1>3, <2>2
<1> QED BY <1>2, <1>5, <1>6, <1>7 DEF b

\* Worker::Disable, context.notifyDebuggerPaused and sending nothing ask for
\* nobody's answer.
LEMMA NobodyKeeps ==
  ASSUME NEW n \in Nat, SentType(n), Disable \/ NotifyPaused \/ UNCHANGED sentVars,
         NEW s \in Seq(0..Len(reqCallbacks)), Once(s \o cmds)
  PROVE  /\ Once(s \o cmds')
         /\ Asked' = Asked \/ Asked' = Append(Asked, 0)
         /\ \A r \in Nat \ {0} :
              Carries(s \o cmds', Asked', r) => Carries(s \o cmds, Asked, r)
<1>1. CASE UNCHANGED sentVars
  BY <1>1 DEF sentVars, Asked
<1>2. CASE Disable
  <2>1. /\ cmds \in Seq(Nat) /\ s \in Seq(Nat) /\ <<>> \in Seq(Nat)
        /\ s \o cmds \in Seq(Nat)
    BY OwedTypes, SeqMonotonic, ConcatProperties
  <2> DEFINE one == <<0>>
  <2>2. one \in Seq(Nat) /\ DOMAIN one = {1} /\ one[1] = 0
    OBVIOUS
  <2>3. cmds' = cmds \o one /\ Asked' = Asked
    BY <1>2, <2>1, AppendIsConcat DEF Disable, Asked, Disconnect
  <2> HIDE DEF one
  <2>4. s \o cmds' = (s \o cmds) \o one
    <3>1. (s \o cmds) \o one = s \o (cmds \o one)
      BY ONLY <2>1, <2>2, ConcatAssociative
    <3> QED BY ONLY <2>3, <3>1
  <2>5. Once(one) /\ \A r : ~Carries(one, Asked, r)
    BY <2>2 DEF Once, Carries
  <2>6. \A i \in DOMAIN (s \o cmds), j \in DOMAIN one :
          (s \o cmds)[i] = one[j] => (s \o cmds)[i] = 0
    BY <2>2
  <2>7. Once((s \o cmds) \o one)
    BY <2>1, <2>2, <2>5, <2>6, OnceConcat
  <2>8. \A r : Carries((s \o cmds) \o one, Asked, r) => Carries(s \o cmds, Asked, r)
    BY <2>1, <2>2, <2>5, CarriesConcat
  <2> QED BY <2>3, <2>4, <2>7, <2>8
<1>3. CASE NotifyPaused /\ ~UNCHANGED sentVars
  <2> DEFINE e == <<[step |-> "backtrace", req |-> 0]>>
  <2>1. SendRequests(e)
    BY <1>3 DEF NotifyPaused, SendRequest
  <2>2. e \in Seq(Entry(n))
    BY DEF Entry, AllSteps
  <2>3. AskedBy(e) = <<0>>
    BY DEF AskedBy
  <2> HIDE DEF e
  <2>4. /\ Once(s \o cmds') /\ Asked' = Asked \o <<0>>
        /\ \A r : Carries(s \o cmds', Asked', r) =>
                    Carries(s \o cmds, Asked, r) \/ Has(<<0>>, {r})
    BY <2>1, <2>2, <2>3, SendKeeps
  <2>5. \A r \in Nat \ {0} : ~Has(<<0>>, {r})
    BY DEF Has
  <2>6. Asked \o <<0>> = Append(Asked, 0)
    BY OwedTypes, AppendIsConcat
  <2> QED BY <2>4, <2>5, <2>6
<1> QED BY <1>1, <1>2, <1>3

------------------------------------------------------------------------------

\* Two sequences have no number twice if neither has and none is in both.
LEMMA OnceBoth ==
  ASSUME NEW s \in Seq(Nat), NEW t \in Seq(Nat), Once(s), Once(t), Apart(s, t)
  PROVE  Once(s \o t)
<1>1. ASSUME NEW i \in DOMAIN s, NEW j \in DOMAIN t, s[i] = t[j], s[i] # 0
      PROVE  FALSE
  <2>1. s[i] \in Nat
    OBVIOUS
  <2>2. Has(s, {s[i]}) /\ Has(t, {s[i]})
    BY <1>1 DEF Has
  <2> QED BY <1>1, <2>1, <2>2 DEF Apart
<1> QED BY <1>1, OnceConcat

\* One more number, new or 0.
LEMMA OnceAppend ==
  ASSUME NEW s \in Seq(Nat), NEW x \in Nat, Once(s), x = 0 \/ ~Has(s, {x})
  PROVE  Once(Append(s, x))
<1> DEFINE one == <<x>>
<1>1. one \in Seq(Nat) /\ DOMAIN one = {1} /\ one[1] = x
  OBVIOUS
<1>2. Append(s, x) = s \o one
  BY AppendIsConcat
<1> HIDE DEF one
<1>3. Once(one)
  BY <1>1 DEF Once
<1>4. Apart(s, one)
  BY <1>1 DEF Apart, Has
<1> QED BY <1>1, <1>2, <1>3, <1>4, OnceBoth

\* What is apart stays so.
LEMMA ApartAppend ==
  ASSUME NEW s \in Seq(Nat), NEW t \in Seq(Nat), NEW x \in Nat, Apart(s, t),
         x = 0 \/ ~Has(t, {x})
  PROVE  Apart(Append(s, x), t) /\ Apart(t, Append(s, x))
<1>1. ASSUME NEW y \in Nat \ {0}, Has(Append(s, x), {y}) PROVE ~Has(t, {y})
  <2>1. Has(s, {y}) \/ x = y
    BY <1>1, HasAppend
  <2> QED BY <1>1, <2>1 DEF Apart
<1> QED BY <1>1 DEF Apart

\* A number that is new, or is 0, can be added to any of the four.
LEMMA EachOnceAppend ==
  ASSUME NEW a \in Seq(Nat), NEW b \in Seq(Nat), NEW c \in Seq(Nat), NEW d \in Seq(Nat),
         EachOnce(a, b, c, d), NEW x \in Nat,
         x = 0 \/ ~(Has(a, {x}) \/ Has(b, {x}) \/ Has(c, {x}) \/ Has(d, {x}))
  PROVE  /\ EachOnce(Append(a, x), b, c, d) /\ EachOnce(a, Append(b, x), c, d)
         /\ EachOnce(a, b, Append(c, x), d) /\ EachOnce(a, b, c, Append(d, x))
<1>1. \A s, t \in Seq(Nat) : Apart(s, t) => Apart(t, s)
  BY DEF Apart
<1>2. ASSUME NEW s \in Seq(Nat), Once(s), x = 0 \/ ~Has(s, {x})
      PROVE  Once(Append(s, x))
  BY <1>2, OnceAppend
<1>3. ASSUME NEW s \in Seq(Nat), NEW t \in Seq(Nat), Apart(s, t) \/ Apart(t, s),
             x = 0 \/ ~Has(t, {x})
      PROVE  Apart(Append(s, x), t) /\ Apart(t, Append(s, x))
  BY <1>1, <1>3, ApartAppend
<1>4. EachOnce(Append(a, x), b, c, d)
  BY <1>2, <1>3 DEF EachOnce
<1>5. EachOnce(a, Append(b, x), c, d)
  BY <1>2, <1>3 DEF EachOnce
<1>6. EachOnce(a, b, Append(c, x), d)
  BY <1>2, <1>3 DEF EachOnce
<1>7. EachOnce(a, b, c, Append(d, x))
  BY <1>2, <1>3 DEF EachOnce
<1> QED BY <1>4, <1>5, <1>6, <1>7

\* The second and the third can be moved behind the first, and the last can
\* be dropped.
LEMMA EachOnceMove ==
  ASSUME NEW a \in Seq(Nat), NEW b \in Seq(Nat), NEW c \in Seq(Nat), NEW d \in Seq(Nat),
         EachOnce(a, b, c, d)
  PROVE  EachOnce(a \o (b \o c), <<>>, <<>>, d) /\ EachOnce(a, b, c, <<>>)
<1>1. Once(<<>>) /\ \A S : ~Has(<<>>, S)
  BY DEF Once, Has
<1>2. \A s : Apart(s, <<>>) /\ Apart(<<>>, s)
  BY <1>1 DEF Apart
<1>3. b \o c \in Seq(Nat) /\ Once(b \o c)
  BY OnceBoth, ConcatProperties DEF EachOnce
<1>4. Apart(a, b \o c)
  <2> SUFFICES ASSUME NEW x \in Nat \ {0}, Has(a, {x}), Has(b \o c, {x}) PROVE FALSE
    BY DEF Apart
  <2>1. Has(b, {x}) \/ Has(c, {x})
    BY HasConcat
  <2> QED BY <2>1 DEF EachOnce, Apart
<1>5. Once(a \o (b \o c))
  BY <1>3, <1>4, OnceBoth DEF EachOnce
<1>6. Apart(a \o (b \o c), d)
  <2> SUFFICES ASSUME NEW x \in Nat \ {0}, Has(a \o (b \o c), {x}), Has(d, {x}) PROVE FALSE
    BY DEF Apart
  <2>1. Has(a, {x}) \/ Has(b \o c, {x})
    BY <1>3, HasConcat
  <2>2. Has(b \o c, {x}) => Has(b, {x}) \/ Has(c, {x})
    BY HasConcat
  <2> QED BY <2>1, <2>2 DEF EachOnce, Apart
<1> QED BY <1>1, <1>2, <1>5, <1>6 DEF EachOnce

------------------------------------------------------------------------------

\* A step that hands out no id twice, asks V8 for nobody's answer and has
\* none come back that was not under way.
FlightKept ==
  /\ Once(Flight')
  /\ Asked' = Asked \/ Asked' = Append(Asked, 0)
  /\ \A r \in Nat \ {0} : Carries(Flight', Asked', r) => Carries(Flight, Asked, r)

\* When it leaves the lists alone as well, nobody is owed more.
LEMMA KeepsOwed ==
  ASSUME TypeOK, OwedOnce, FlightKept,
         UNCHANGED <<enableCbs, afterEnableCbs, disableCbs>>
  PROVE  OwedOnce' /\ \A r \in Nat \ {0} : Due(r)' => Due(r)
<1>1. /\ Asked \in Seq(Nat)
      /\ {enableCbs, afterEnableCbs, disableCbs} \subseteq Seq(Nat)
  BY FlightTypes, OwedTypes
<1>2. EachOnce(Asked, enableCbs, afterEnableCbs, disableCbs)
  BY DEF OwedOnce
<1>3. EachOnce(Asked', enableCbs, afterEnableCbs, disableCbs)
  <2>1. EachOnce(Append(Asked, 0), enableCbs, afterEnableCbs, disableCbs)
    BY <1>1, <1>2, EachOnceAppend
  <2> QED BY <1>2, <2>1 DEF FlightKept
<1> QED BY <1>3 DEF OwedOnce, FlightKept, Due

\* What the worker pushes behind the messages:
LEMMA PushedFlight ==
  ASSUME TypeOK, OwedOnce, UNCHANGED msgs, Disable \/ NotifyPaused \/ UNCHANGED sentVars
  PROVE  FlightKept
<1>1. PICK n \in Nat : SentType(n) /\ MsgIds \in Seq(0..Len(reqCallbacks))
  BY FlightTypes
<1>2. Once(MsgIds \o cmds)
  BY DEF OwedOnce, Flight
<1>3. MsgIds' = MsgIds
  BY DEF MsgIds
<1>4. /\ Once(MsgIds \o cmds')
      /\ Asked' = Asked \/ Asked' = Append(Asked, 0)
      /\ \A r \in Nat \ {0} :
           Carries(MsgIds \o cmds', Asked', r) => Carries(MsgIds \o cmds, Asked, r)
  BY <1>1, <1>2, NobodyKeeps
<1> QED BY <1>3, <1>4 DEF FlightKept, Flight

\* and what comes back while nothing else changes.
LEMMA SameFlight ==
  ASSUME OwedOnce, UNCHANGED <<msgs, reqCallbacks, cmds>>
  PROVE  FlightKept
  BY DEF FlightKept, Flight, MsgIds, Asked, OwedOnce

\* V8 answers the commands in their order: every id stays where it is.
LEMMA ServedFlight ==
  ASSUME TypeOK, OwedOnce, RunCommands, UNCHANGED reqCallbacks
  PROVE  FlightKept
<1>1. CASE ~handler
  BY <1>1, SameFlight DEF RunCommands
<1>2. CASE handler
  <2>1. msgs' = msgs \o Responses /\ cmds' = <<>> /\ Asked' = Asked
    BY <1>2 DEF RunCommands, Asked
  <2> DEFINE k == Len(reqCallbacks)
             rs == Responses
  <2>2. cmds \in Seq(0..k) /\ k \in Nat /\ msgs \in Seq(Message(k))
        /\ Len(cmds) \in Nat /\ DOMAIN cmds = 1..Len(cmds)
    BY TypeParts DEF SentType, MsgsType
  <2>3. /\ Len(rs) = Len(cmds) /\ rs \in Seq(Message(k))
        /\ \A i \in 1..Len(cmds) : rs[i].id = cmds[i]
    <3>1. \A i \in 1..Len(cmds) : cmds[i] \in 0..k
      BY <2>2
    <3> HIDE DEF k
    <3>2. \A i \in 1..Len(cmds) : [event |-> FALSE, id |-> cmds[i]] \in Message(k)
      BY <3>1 DEF Message
    <3>3. rs = [i \in 1..Len(cmds) |-> [event |-> FALSE, id |-> cmds[i]]]
      BY <2>2 DEF Responses
    <3>4. /\ rs \in [1..Len(cmds) -> Message(k)]
          /\ \A i \in 1..Len(cmds) : rs[i].id = cmds[i]
      BY <3>2, <3>3
    <3> DEFINE l == Len(cmds)
    <3>5. l \in Nat /\ rs \in [1..l -> Message(k)]
      BY <2>2, <3>4
    <3> HIDE DEF rs, l
    <3>6. rs \in Seq(Message(k)) /\ Len(rs) = l
      BY ONLY <3>5
    <3> QED BY <3>4, <3>6 DEF l
  <2> HIDE DEF k, rs
  <2>4. IdsOf(rs) = cmds
    <3>1. IdsOf(rs) \in Seq(0..k) /\ Len(IdsOf(rs)) = Len(rs)
          /\ \A i \in 1..Len(rs) : IdsOf(rs)[i] = rs[i].id
      BY <2>2, <2>3, IdsOfType
    <3>2. Len(IdsOf(rs)) = Len(cmds) /\ \A i \in 1..Len(IdsOf(rs)) : IdsOf(rs)[i] = cmds[i]
      BY <2>3, <3>1
    <3> QED BY ONLY <2>2, <3>1, <3>2, SeqEqual
  <2>5. MsgIds' = MsgIds \o cmds /\ MsgIds \in Seq(0..k)
    BY <2>1, <2>2, <2>3, <2>4, IdsOfConcat, IdsOfType DEF MsgIds, rs
  <2>6. MsgIds \o cmds \in Seq(0..k)
    BY <2>2, <2>5, ConcatProperties
  <2>7. (MsgIds \o cmds) \o <<>> = MsgIds \o cmds
    BY <2>6
  <2>8. Flight' = Flight
    BY <2>1, <2>5, <2>7 DEF Flight
  <2> QED BY <2>1, <2>8 DEF FlightKept, OwedOnce
<1> QED BY <1>1, <1>2

\* A breakpoint's message has no id.
LEMMA BreakFlight ==
  ASSUME TypeOK, OwedOnce, Break
  PROVE  FlightKept
<1> DEFINE k == Len(reqCallbacks)
           m == [event |-> TRUE, id |-> 0]
           one == <<0>>
<1>1. msgs' = Append(msgs, m) /\ UNCHANGED <<cmds, reqCallbacks>>
  BY DEF Break, sentVars
<1>2. cmds \in Seq(0..k) /\ k \in Nat /\ msgs \in Seq(Message(k))
  BY TypeParts DEF SentType, MsgsType
<1>3. <<m>> \in Seq(Message(k)) /\ IdsOf(<<m>>) = one /\ m \in Message(k)
  BY <1>2 DEF Message, IdsOf
<1>4. one \in Seq(Nat) /\ one[1] = 0 /\ DOMAIN one = {1}
  OBVIOUS
<1> HIDE DEF k, m, one
<1>5. MsgIds' = MsgIds \o one /\ MsgIds \in Seq(0..k)
  <2>1. msgs' = msgs \o <<m>>
    BY <1>1, <1>2, <1>3, AppendIsConcat
  <2> QED BY <1>2, <1>3, <2>1, IdsOfConcat, IdsOfType DEF MsgIds
<1>7. MsgIds \in Seq(Nat) /\ cmds \in Seq(Nat)
  BY <1>2, <1>5, SeqMonotonic DEF k
<1>8. Once(Flight')
  <2>1. Append(MsgIds, 0) = MsgIds'
    BY <1>5, <1>7, AppendIsConcat DEF one
  <2>2. Once(Append(MsgIds, 0) \o cmds)
    BY <1>7, OnceInsert DEF OwedOnce, Flight
  <2> QED BY <1>1, <2>1, <2>2 DEF Flight
<1>9. ASSUME NEW r, Carries(Flight', Asked', r) PROVE Carries(Flight, Asked, r)
  <2>1. Asked' = Asked
    BY <1>1 DEF Asked
  <2>2. Carries((MsgIds \o one) \o cmds, Asked, r)
    BY <1>1, <1>5, <1>9, <2>1 DEF Flight
  <2>3. MsgIds \o one \in Seq(Nat)
    BY <1>4, <1>7, ConcatProperties
  <2>4. Carries(MsgIds \o one, Asked, r) \/ Carries(cmds, Asked, r)
    BY <1>7, <2>2, <2>3, CarriesConcat
  <2>5. Carries(MsgIds \o one, Asked, r) => Carries(MsgIds, Asked, r) \/ Carries(one, Asked, r)
    BY <1>4, <1>7, CarriesConcat
  <2>6. ~Carries(one, Asked, r)
    BY <1>4 DEF Carries
  <2> QED BY <1>7, <2>4, <2>5, <2>6, CarriesConcat DEF Flight
<1> QED BY <1>1, <1>8, <1>9 DEF FlightKept, Asked

\* onDebuggerMessage takes the first id, and what it carried nothing else
\* does.
LEMMA TakenFlight ==
  ASSUME TypeOK, OwedOnce, msgs # <<>>, msgs' = Tail(msgs),
         NotifyPaused \/ UNCHANGED sentVars
  PROVE  LET id == Head(msgs).id
         IN  /\ FlightKept
             /\ id # 0 => /\ id \in DOMAIN reqCallbacks
                          /\ Carries(Flight, Asked, Asked[id])
                          /\ Asked[id] # 0 => ~Carries(Flight', Asked', Asked[id])
<1> DEFINE k == Len(reqCallbacks)
           m == Head(msgs)
           one == <<m.id>>
           s == IdsOf(Tail(msgs))
<1>1. PICK n \in Nat : SentType(n)
  BY FlightTypes
<1>2. cmds \in Seq(0..k) /\ k \in Nat /\ msgs \in Seq(Message(k))
      /\ DOMAIN reqCallbacks = 1..k
  BY TypeParts DEF SentType, MsgsType
<1>3. /\ m \in Message(k) /\ Tail(msgs) \in Seq(Message(k)) /\ msgs = <<m>> \o Tail(msgs)
      /\ <<m>> \in Seq(Message(k))
  <2>1. m \in Message(k) /\ Tail(msgs) \in Seq(Message(k))
    BY <1>2, HeadTailProperties
  <2>2. msgs = <<m>> \o Tail(msgs)
    BY <1>2
  <2> QED BY <2>1, <2>2
<1>4. IdsOf(<<m>>) = one /\ m.id \in 0..k
  BY <1>3 DEF IdsOf, Message
<1> HIDE DEF k, m
<1>5. /\ one \in Seq(Nat) /\ one[1] = m.id /\ DOMAIN one = {1}
  BY <1>2, <1>4
<1> HIDE DEF one
<1>6. MsgIds = one \o s /\ s \in Seq(0..k) /\ MsgIds' = s
  BY <1>2, <1>3, <1>4, IdsOfConcat, IdsOfType DEF MsgIds
<1> HIDE DEF s
<1>7. s \in Seq(Nat) /\ cmds \in Seq(Nat) /\ s \o cmds \in Seq(Nat)
      /\ Seq(0..k) \subseteq Seq(Nat)
  BY <1>2, <1>6, SeqMonotonic, ConcatProperties
<1>8. Flight = one \o (s \o cmds)
  <2>0. one \in Seq(Nat) /\ s \in Seq(Nat) /\ cmds \in Seq(Nat)
    BY <1>5, <1>7
  <2>1. (one \o s) \o cmds = one \o (s \o cmds)
    BY ONLY <2>0, ConcatAssociative
  <2> QED BY <1>6, <2>1 DEF Flight
<1>9. /\ Once(s \o cmds)
      /\ \A i \in DOMAIN (s \o cmds) : m.id = (s \o cmds)[i] => m.id = 0
  <2> DEFINE u == s \o cmds
  <2>1. Once(one \o u) /\ u \in Seq(Nat)
    BY <1>7, <1>8 DEF OwedOnce
  <2> HIDE DEF u
  <2>2. Once(u) /\ \A i \in DOMAIN one, j \in DOMAIN u : one[i] = u[j] => one[i] = 0
    BY <1>5, <2>1, OnceConcat
  <2>3. \A j \in DOMAIN u : m.id = u[j] => m.id = 0
    BY <1>5, <2>2
  <2> QED BY <2>2, <2>3 DEF u
<1>10. \A r : Carries(Flight, Asked, r) <=> Carries(one, Asked, r) \/ Carries(s \o cmds, Asked, r)
  BY <1>5, <1>7, <1>8, CarriesConcat
<1>11. /\ Flight' = s \o cmds'
       /\ Once(s \o cmds')
       /\ Asked' = Asked \/ Asked' = Append(Asked, 0)
       /\ \A r \in Nat \ {0} :
            Carries(s \o cmds', Asked', r) => Carries(s \o cmds, Asked, r)
  <2>1. s \in Seq(0..Len(reqCallbacks))
    BY <1>6 DEF k
  <2>2. Flight' = s \o cmds'
    BY <1>6 DEF Flight
  <2>3. /\ Once(s \o cmds')
        /\ Asked' = Asked \/ Asked' = Append(Asked, 0)
        /\ \A r \in Nat \ {0} :
             Carries(s \o cmds', Asked', r) => Carries(s \o cmds, Asked, r)
    BY <1>1, <1>9, <2>1, NobodyKeeps
  <2> QED BY <2>2, <2>3
<1>12. FlightKept
  BY <1>10, <1>11 DEF FlightKept
<1>13. ASSUME m.id # 0
       PROVE  /\ m.id \in DOMAIN reqCallbacks
              /\ Carries(Flight, Asked, Asked[m.id])
              /\ Asked[m.id] # 0 => ~Carries(Flight', Asked', Asked[m.id])
  <2>1. m.id \in 1..k
    BY <1>2, <1>4, <1>13
  <2>2. Carries(one, Asked, Asked[m.id])
    BY <1>5, <1>13 DEF Carries
  <2>3. Asked \in Seq(Nat) /\ Len(Asked) = k /\ DOMAIN Asked = 1..k
    BY <1>1, <1>2, OwedTypes DEF k
  <2>4. ASSUME Asked[m.id] # 0, Carries(s \o cmds, Asked, Asked[m.id]) PROVE FALSE
    <3>1. PICK i \in DOMAIN (s \o cmds) :
            (s \o cmds)[i] # 0 /\ Asked[(s \o cmds)[i]] = Asked[m.id]
      BY <2>4 DEF Carries
    <3>2. (s \o cmds)[i] \in 1..k
      <4>1. s \o cmds \in Seq(0..k)
        BY <1>2, <1>6, ConcatProperties
      <4>2. (s \o cmds)[i] \in 0..k
        BY <4>1, ElementsIn
      <4> QED BY <1>2, <3>1, <4>2
    <3>3. Once(Asked)
      BY DEF OwedOnce, EachOnce
    <3>4. (s \o cmds)[i] = m.id
      BY <2>1, <2>3, <2>4, <3>1, <3>2, <3>3 DEF Once
    <3> QED BY <1>9, <1>13, <3>4
  <2>5. Asked[m.id] \in Nat
    BY <2>1, <2>3
  <2> QED BY <1>2, <1>10, <1>11, <2>1, <2>2, <2>4, <2>5
<1> QED BY <1>12, <1>13 DEF m

------------------------------------------------------------------------------

\* The request of the line being handled is owed nothing yet.
LEMMA NewIsFresh ==
  ASSUME TypeOK
  PROVE  /\ NewReq \in Nat \ {0} /\ NewReq \notin DOMAIN requests
         /\ ~Has(enableCbs, {NewReq}) /\ ~Has(afterEnableCbs, {NewReq})
         /\ ~Has(disableCbs, {NewReq}) /\ ~Has(Asked, {NewReq})
         /\ ~Carries(Flight, Asked, NewReq)
<1>1. PICK n : /\ n \in Nat /\ n = Len(requests) /\ SentType(n) /\ DOMAIN requests = 1..n
               /\ {enableCbs, afterEnableCbs, disableCbs} \subseteq Seq(1..n)
               /\ Flight \in Seq(0..Len(reqCallbacks))
  BY FlightTypes
<1>2. /\ Asked \in Seq(0..n) /\ Len(Asked) = Len(reqCallbacks) /\ Len(reqCallbacks) \in Nat
  BY <1>1, OwedTypes
<1>3. NewReq = n + 1
  BY <1>1 DEF NewReq
<1>4. ASSUME NEW s \in Seq(0..n) PROVE ~Has(s, {NewReq})
  <2>1. \A i \in DOMAIN s : s[i] \in 0..n
    BY ElementsIn
  <2> QED BY <1>1, <1>3, <2>1 DEF Has
<1>5. Seq(1..n) \subseteq Seq(0..n)
  BY <1>1, SeqMonotonic
<1>6. ~Carries(Flight, Asked, NewReq)
  <2> SUFFICES ASSUME NEW i \in DOMAIN Flight, Flight[i] # 0, Asked[Flight[i]] = NewReq
               PROVE  FALSE
    BY DEF Carries
  <2>1. Flight[i] \in 0..Len(reqCallbacks)
    BY <1>1, ElementsIn
  <2>2. Flight[i] \in DOMAIN Asked
    <3>1. DOMAIN Asked = 1..Len(Asked)
      BY <1>2
    <3> QED BY <1>2, <2>1, <3>1
  <2>3. Asked[Flight[i]] \in 0..n
    BY <1>2, <2>2, ElementsIn
  <2> QED BY <1>1, <1>3, <2>3
<1>7. NewReq \in Nat \ {0} /\ NewReq \notin DOMAIN requests
  BY <1>1, <1>3
<1> QED BY <1>1, <1>2, <1>4, <1>5, <1>6, <1>7

\* A line that is sent to V8 is owed one answer.
LEMMA SentLine ==
  ASSUME TypeOK, OwedOnce, UNCHANGED msgs,
         UNCHANGED <<enableCbs, afterEnableCbs, disableCbs>>,
         NEW st \in AllSteps \ {"backtrace"}, SendRequest(st, NewReq)
  PROVE  OwedOnce' /\ \A r \in Nat \ {0} : Due(r)' => Due(r) \/ r = NewReq
<1>1. PICK n \in Nat : n = Len(requests) /\ n + 1 \in Nat /\ SentType(n + 1)
                       /\ MsgIds \in Seq(0..Len(reqCallbacks))
                       /\ {enableCbs, afterEnableCbs, disableCbs} \subseteq Seq(Nat)
  <2>1. PICK n \in Nat : n = Len(requests) /\ SentType(n)
                       /\ MsgIds \in Seq(0..Len(reqCallbacks))
                       /\ {enableCbs, afterEnableCbs, disableCbs} \subseteq Seq(Nat)
    BY FlightTypes
  <2>2. SentType(n + 1)
    BY <2>1, SentGrows
  <2> QED BY <2>1, <2>2
<1> DEFINE e == <<[step |-> st, req |-> NewReq]>>
<1>2. e \in Seq(Entry(n + 1)) /\ SendRequests(e) /\ AskedBy(e) = <<NewReq>>
  <2>1. NewReq = n + 1
    BY <1>1 DEF NewReq
  <2> QED BY <1>1, <2>1 DEF Entry, SendRequest, AskedBy
<1> HIDE DEF e
<1>3. MsgIds' = MsgIds /\ Once(MsgIds \o cmds)
  BY DEF MsgIds, OwedOnce, Flight
<1>4. /\ Once(MsgIds \o cmds') /\ Asked' = Asked \o <<NewReq>>
      /\ \A r : Carries(MsgIds \o cmds', Asked', r) =>
                  Carries(MsgIds \o cmds, Asked, r) \/ Has(<<NewReq>>, {r})
  BY <1>1, <1>2, <1>3, SendKeeps
<1>5. Asked \in Seq(Nat) /\ NewReq \in Nat
  BY <1>1, OwedTypes, NewIsFresh
<1>6. Asked' = Append(Asked, NewReq)
  BY <1>4, <1>5, AppendIsConcat
<1>7. \A r : Has(<<NewReq>>, {r}) => r = NewReq
  BY DEF Has
<1>8. EachOnce(Asked', enableCbs, afterEnableCbs, disableCbs)
  BY <1>1, <1>5, <1>6, NewIsFresh, EachOnceAppend DEF OwedOnce
<1> QED BY <1>3, <1>4, <1>7, <1>8 DEF OwedOnce, Due, Flight

\* A line that joins a list is owed one answer; the others that push
\* nothing but "disconnect" are owed none.
LEMMA ListedLine ==
  ASSUME TypeOK, OwedOnce, FlightKept,
         \/ /\ enableCbs' = Append(enableCbs, NewReq)
            /\ UNCHANGED <<afterEnableCbs, disableCbs>>
         \/ /\ afterEnableCbs' = Append(afterEnableCbs, NewReq)
            /\ UNCHANGED <<enableCbs, disableCbs>>
         \/ /\ disableCbs' = Append(disableCbs, NewReq)
            /\ UNCHANGED <<enableCbs, afterEnableCbs>>,
         Asked' = Asked
  PROVE  OwedOnce' /\ \A r \in Nat \ {0} : Due(r)' => Due(r) \/ r = NewReq
<1>1. /\ Asked \in Seq(Nat)
      /\ {enableCbs, afterEnableCbs, disableCbs} \subseteq Seq(Nat)
      /\ NewReq \in Nat
  BY FlightTypes, OwedTypes, NewIsFresh
<1>2. EachOnce(Asked', enableCbs', afterEnableCbs', disableCbs')
  BY <1>1, NewIsFresh, EachOnceAppend DEF OwedOnce
<1>3. \A s \in Seq(Nat), r \in Nat : Has(Append(s, NewReq), {r}) => Has(s, {r}) \/ r = NewReq
  BY <1>1, HasAppend
<1> QED BY <1>1, <1>2, <1>3 DEF OwedOnce, FlightKept, Due

\* A line is recorded with its only answer, or with none while it is owed
\* one.
LEMMA RecvKeeps ==
  ASSUME TypeOK, DueUnanswered, AnsweredAtMostOnce,
         NEW k \in Kinds, NEW a \in Seq(Nat), Recv(k, a), Len(a) <= 1,
         \A r \in Nat \ {0} : Due(r)' => Due(r) \/ (r = NewReq /\ a = <<>>)
  PROVE  DueUnanswered' /\ AnsweredAtMostOnce'
<1>1. PICK n \in Nat : n = Len(requests) /\ DOMAIN requests = 1..n
                       /\ requests \in Seq(RequestType) /\ NewReq = n + 1
  BY TypeParts, FlightTypes DEF NewReq
<1> DEFINE q == [from |-> gen, kind |-> k, answers |-> a]
<1>2. requests' = Append(requests, q) /\ q \in RequestType /\ q.answers = a
  BY DEF Recv, RequestType, TypeOK
<1> HIDE DEF q
<1>3. /\ DOMAIN requests' = 1..(n + 1)
      /\ \A r \in 1..n : requests'[r] = requests[r]
      /\ requests'[n + 1] = q
  BY <1>1, <1>2
<1>4. ~Due(NewReq)
  BY NewIsFresh DEF Due
<1>5. ASSUME NEW r \in 1..(n + 1)
      PROVE  /\ Len(requests'[r].answers) <= 1
             /\ Due(r)' => requests'[r].answers = <<>>
  <2>1. CASE r = n + 1
    BY <1>1, <1>2, <1>3, <1>4, <2>1
  <2>2. CASE r \in 1..n
    <3>1. requests'[r] = requests[r] /\ r \in DOMAIN requests /\ r # NewReq
          /\ r \in Nat \ {0}
      BY <1>1, <1>3, <2>2
    <3> QED BY <3>1 DEF DueUnanswered, AnsweredAtMostOnce
  <2> QED BY <2>1, <2>2
<1> QED BY <1>3, <1>5 DEF DueUnanswered, AnsweredAtMostOnce

\* Those who were owed an answer get it, once, and are owed none any more.
LEMMA AnsweredKeeps ==
  ASSUME TypeOK, DueUnanswered, AnsweredAtMostOnce, NEW R, requests' = Answered(R),
         \A r \in DOMAIN requests : /\ Due(r)' => Due(r) /\ r \notin R
                                    /\ r \in R => Due(r)
  PROVE  DueUnanswered' /\ AnsweredAtMostOnce'
<1>1. requests \in Seq(RequestType) /\ Recipient \in Nat
  BY TypeParts DEF Recipient, TypeOK
<1>2. DOMAIN requests' = DOMAIN requests
  BY DEF Answered
<1>3. ASSUME NEW r \in DOMAIN requests
      PROVE  /\ Len(requests'[r].answers) <= 1
             /\ Due(r)' => requests'[r].answers = <<>>
  <2>1. requests[r] \in RequestType
    BY <1>1
  <2>2. CASE r \notin R
    <3>1. requests'[r] = requests[r]
      BY <2>2 DEF Answered
    <3> QED BY <3>1 DEF DueUnanswered, AnsweredAtMostOnce
  <2>3. CASE r \in R
    <3>1. requests[r].answers = <<>> /\ ~Due(r)'
      BY <2>3 DEF DueUnanswered
    <3>2. requests'[r].answers = Append(<<>>, Recipient)
      BY <2>1, <2>3, <3>1 DEF Answered, RequestType
    <3>3. Len(Append(<<>>, Recipient)) = 1
      BY <1>1
    <3> QED BY <3>1, <3>2, <3>3
  <2> QED BY <2>2, <2>3
<1> QED BY <1>2, <1>3 DEF DueUnanswered, AnsweredAtMostOnce

------------------------------------------------------------------------------

\* The invariant.
AnswersInv == OwedOnce /\ DueUnanswered /\ AnsweredAtMostOnce

\* A step that answers nobody, moves no one between the lists and keeps the
\* flight in order.
LEMMA QuietKeeps ==
  ASSUME TypeOK, AnswersInv, FlightKept,
         UNCHANGED <<requests, enableCbs, afterEnableCbs, disableCbs>>
  PROVE  AnswersInv'
<1>1. OwedOnce' /\ \A r \in Nat \ {0} : Due(r)' => Due(r)
  BY KeepsOwed DEF AnswersInv
<1>2. \A r \in DOMAIN requests : r \in Nat \ {0}
  BY FlightTypes
<1> QED BY <1>1, <1>2 DEF AnswersInv, DueUnanswered, AnsweredAtMostOnce

\* Every line is recorded as RecvKeeps wants it.
LEMMA LineKeeps ==
  ASSUME TypeOK, AnswersInv, ClientLine
  PROVE  AnswersInv'
<1>1. OwedOnce /\ DueUnanswered /\ AnsweredAtMostOnce
  BY DEF AnswersInv
<1>2. ASSUME NEW k, Line(k) PROVE k \in Kinds /\ UNCHANGED msgs
  <2>1. chunk \in Seq(Kinds) /\ chunk # <<>> /\ Head(chunk) = k
    BY <1>2 DEF Line, InChunk, TypeOK
  <2>2. k \in Kinds
    BY <2>1, HeadTailProperties
  <2> QED BY <1>2, <2>2 DEF Line
<1>3. /\ <<>> \in Seq(Nat) /\ Len(<<>>) <= 1
      /\ <<Recipient>> \in Seq(Nat) /\ Len(<<Recipient>>) <= 1
  <2>1. Recipient \in Nat
    BY DEF TypeOK, Recipient
  <2> QED BY <2>1
<1>4. ASSUME NEW k \in Kinds, Recv(k, <<>>),
             OwedOnce' /\ \A r \in Nat \ {0} : Due(r)' => Due(r) \/ r = NewReq
      PROVE  AnswersInv'
  BY <1>1, <1>3, <1>4, RecvKeeps DEF AnswersInv
<1>5. ASSUME NEW k \in Kinds, NEW a \in {<<>>, <<Recipient>>}, Recv(k, a), FlightKept,
             UNCHANGED <<enableCbs, afterEnableCbs, disableCbs>>
      PROVE  AnswersInv'
  <2>1. OwedOnce' /\ \A r \in Nat \ {0} : Due(r)' => Due(r)
    BY <1>1, <1>5, KeepsOwed
  <2>2. a \in Seq(Nat) /\ Len(a) <= 1
    BY <1>3
  <2> QED BY <1>1, <1>5, <2>1, <2>2, RecvKeeps DEF AnswersInv
<1>6. CASE LineEnable
  <2>1. Recv("enable", <<>>) /\ "enable" \in Kinds /\ UNCHANGED <<msgs, cmds, reqCallbacks>>
        /\ enableCbs' = Append(enableCbs, NewReq)
        /\ UNCHANGED <<afterEnableCbs, disableCbs>>
    BY <1>2, <1>6 DEF LineEnable
  <2>2. FlightKept /\ Asked' = Asked
    BY <1>1, <2>1, SameFlight DEF Asked
  <2> QED BY <1>1, <1>4, <2>1, <2>2, ListedLine
<1>7. CASE LineDisable
  <2>1. /\ Recv("disable", <<>>) /\ "disable" \in Kinds /\ UNCHANGED msgs
        /\ Disable \/ UNCHANGED sentVars
        /\ disableCbs' = Append(disableCbs, NewReq)
        /\ UNCHANGED <<enableCbs, afterEnableCbs>>
    BY <1>2, <1>7 DEF LineDisable
  <2>2. FlightKept
    BY <1>1, <2>1, PushedFlight
  <2>3. Asked' = Asked
    BY <2>1 DEF Asked, Disable, sentVars
  <2> QED BY <1>1, <1>4, <2>1, <2>2, <2>3, ListedLine
<1>8. CASE LineDirect
  <2>1. PICK k \in DirectKinds :
          /\ Line(k)
          /\ IF enabled
             THEN SendRequest(StepFor(k), NewReq) /\ Recv(k, <<>>)
             ELSE UNCHANGED sentVars /\ Recv(k, <<Recipient>>)
    BY <1>8 DEF LineDirect
  <2>2. UNCHANGED <<enableCbs, afterEnableCbs, disableCbs>>
    BY <1>8 DEF LineDirect, jsVars
  <2>3. k \in Kinds /\ UNCHANGED msgs
    BY <1>2, <2>1
  <2>4. CASE enabled
    <3>1. StepFor(k) \in AllSteps \ {"backtrace"}
      BY DEF StepFor, AllSteps, DirectKinds
    <3> QED BY <1>1, <1>4, <2>1, <2>2, <2>3, <2>4, <3>1, SentLine
  <2>5. CASE ~enabled
    BY <1>1, <1>5, <2>1, <2>2, <2>3, <2>5, PushedFlight
  <2> QED BY <2>4, <2>5
<1>9. CASE LineDeferred
  <2>1. PICK k \in {"deferred", "throwing"} :
         /\ Line(k)
         /\ \/ /\ ~enabled
               /\ afterEnableCbs' = Append(afterEnableCbs, NewReq)
               /\ UNCHANGED sentVars
               /\ Recv(k, <<>>)
            \/ /\ enabled
               /\ k = "deferred"
               /\ SendRequest(StepFor(k), NewReq)
               /\ UNCHANGED afterEnableCbs
               /\ Recv(k, <<>>)
            \/ /\ enabled
               /\ k = "throwing"
               /\ UNCHANGED <<afterEnableCbs, sentVars>>
               /\ Recv(k, <<Recipient>>)
    BY <1>9 DEF LineDeferred
  <2>2. UNCHANGED <<enableCbs, disableCbs>>
    BY <1>9 DEF LineDeferred
  <2>3. k \in Kinds /\ UNCHANGED msgs
    BY <1>2, <2>1
  <2>4. ASSUME UNCHANGED sentVars PROVE FlightKept /\ Asked' = Asked
    BY <1>1, <2>3, <2>4, PushedFlight DEF Asked, sentVars
  <2>5. CASE afterEnableCbs' = Append(afterEnableCbs, NewReq) /\ UNCHANGED sentVars
               /\ Recv(k, <<>>)
    BY <1>1, <1>4, <2>2, <2>3, <2>4, <2>5, ListedLine
  <2>6. CASE k = "deferred" /\ SendRequest(StepFor(k), NewReq)
               /\ UNCHANGED afterEnableCbs /\ Recv(k, <<>>)
    <3>1. StepFor(k) \in AllSteps \ {"backtrace"}
      BY <2>6 DEF StepFor, AllSteps
    <3> QED BY <1>1, <1>4, <2>2, <2>3, <2>6, <3>1, SentLine
  <2>7. CASE UNCHANGED <<afterEnableCbs, sentVars>> /\ Recv(k, <<Recipient>>)
    BY <1>5, <2>2, <2>3, <2>4, <2>7
  <2> QED BY <2>1, <2>5, <2>6, <2>7
<1>10. CASE LineClose
  <2>1. Recv("close", <<>>) /\ "close" \in Kinds /\ UNCHANGED msgs /\ Disable
        /\ UNCHANGED <<enableCbs, afterEnableCbs, disableCbs>>
    BY <1>2, <1>10 DEF LineClose, jsVars
  <2>2. FlightKept
    BY <1>1, <2>1, PushedFlight
  <2> QED BY <1>5, <2>1, <2>2
<1> QED BY <1>6, <1>7, <1>8, <1>9, <1>10 DEF ClientLine

\* The response of an enable handshake asks V8 for what was waiting, which
\* does not wait any more.
LEMMA EnabledKeeps ==
  ASSUME "throwing" \notin Kinds, TypeOK, AnswersInv, OnDebuggerEnabled
  PROVE  AnswersInv'
<1>1. OwedOnce /\ UNCHANGED <<requests, msgs, disableCbs>>
  BY DEF AnswersInv, OnDebuggerEnabled
<1>2. CASE enableCbs = <<>>
  <2>1. UNCHANGED <<enableCbs, afterEnableCbs, sentVars>>
    BY <1>2 DEF OnDebuggerEnabled
  <2>2. FlightKept
    BY <1>1, <2>1, PushedFlight
  <2> QED BY <1>1, <2>1, <2>2, QuietKeeps
<1>3. CASE enableCbs # <<>>
  <2>1. PICK m \in 0..Len(afterEnableCbs) :
           /\ Runs(m)
           /\ SendRequests(
                [i \in DOMAIN enableCbs |-> [step |-> "scripts", req |-> enableCbs[i]]]
                \o [i \in 1..m |-> [step |-> "evaluate", req |-> afterEnableCbs[i]]])
           /\ afterEnableCbs' = IF m = Len(afterEnableCbs) THEN <<>> ELSE afterEnableCbs
           /\ enableCbs' = <<>>
    BY <1>3 DEF OnDebuggerEnabled
  <2>2. m = Len(afterEnableCbs)
    BY <2>1, AllRun
  <2> DEFINE p == [i \in DOMAIN enableCbs |-> [step |-> "scripts", req |-> enableCbs[i]]]
             q == [i \in 1..m |-> [step |-> "evaluate", req |-> afterEnableCbs[i]]]
  <2>3. PICK n \in Nat :
          /\ n = Len(requests) /\ SentType(n) /\ MsgIds \in Seq(0..Len(reqCallbacks))
          /\ {enableCbs, afterEnableCbs, disableCbs} \subseteq Seq(1..n)
          /\ {enableCbs, afterEnableCbs, disableCbs} \subseteq Seq(Nat)
          /\ DOMAIN requests = 1..n
    BY FlightTypes
  <2>4. p \in Seq(Entry(n)) /\ AskedBy(p) = enableCbs
    <3>1. /\ DOMAIN enableCbs = 1..Len(enableCbs) /\ Len(enableCbs) \in Nat
          /\ \A i \in 1..Len(enableCbs) : enableCbs[i] \in 1..n
      BY <2>3
    <3>2. p \in Seq(Entry(n))
      BY <3>1 DEF Entry, AllSteps
    <3>3. AskedBy(p) = [i \in DOMAIN enableCbs |-> enableCbs[i]]
      BY DEF AskedBy
    <3> QED BY <2>3, <3>2, <3>3
  <2>5. q \in Seq(Entry(n)) /\ AskedBy(q) = afterEnableCbs
    <3>1. /\ DOMAIN afterEnableCbs = 1..m /\ m \in Nat
          /\ \A i \in 1..m : afterEnableCbs[i] \in 1..n
      BY <2>2, <2>3
    <3>2. q \in Seq(Entry(n))
      BY <3>1 DEF Entry, AllSteps
    <3>3. AskedBy(q) = [i \in 1..m |-> afterEnableCbs[i]]
      BY DEF AskedBy
    <3>4. afterEnableCbs = [i \in 1..m |-> afterEnableCbs[i]]
      BY <2>3, <3>1
    <3> QED BY <3>2, <3>3, <3>4
  <2>6. SendRequests(p \o q)
    BY <2>1
  <2> HIDE DEF p, q
  <2>7. p \o q \in Seq(Entry(n)) /\ AskedBy(p \o q) = enableCbs \o afterEnableCbs
    BY <2>4, <2>5, AskedByConcat, ConcatProperties
  <2>8. MsgIds' = MsgIds /\ Once(MsgIds \o cmds)
    BY <1>1 DEF MsgIds, OwedOnce, Flight
  <2>9. /\ Once(MsgIds \o cmds') /\ Asked' = Asked \o (enableCbs \o afterEnableCbs)
        /\ \A r : Carries(MsgIds \o cmds', Asked', r) =>
             Carries(MsgIds \o cmds, Asked, r) \/ Has(enableCbs \o afterEnableCbs, {r})
    BY <2>3, <2>6, <2>7, <2>8, SendKeeps
  <2>10. enableCbs' = <<>> /\ afterEnableCbs' = <<>> /\ disableCbs' = disableCbs
    BY <1>1, <2>1, <2>2
  <2>11. OwedOnce'
    <3>1. Asked \in Seq(Nat)
      BY <2>3, OwedTypes
    <3>2. EachOnce(Asked \o (enableCbs \o afterEnableCbs), <<>>, <<>>, disableCbs)
      BY <1>1, <2>3, <3>1, EachOnceMove DEF OwedOnce
    <3> QED BY <2>8, <2>9, <2>10, <3>2 DEF OwedOnce, Flight
  <2>12. ASSUME NEW r, Due(r)' PROVE Due(r)
    <3>1. \A S : ~Has(<<>>, S)
      BY DEF Has
    <3>2. Has(disableCbs, {r}) \/ Carries(MsgIds \o cmds, Asked, r)
           \/ Has(enableCbs \o afterEnableCbs, {r})
      BY <2>8, <2>9, <2>10, <2>12, <3>1 DEF Due, Flight
    <3>3. Has(enableCbs \o afterEnableCbs, {r}) => Has(enableCbs, {r}) \/ Has(afterEnableCbs, {r})
      BY <2>3, HasConcat
    <3> QED BY <3>2, <3>3 DEF Due, Flight
  <2> QED BY <1>1, <2>11, <2>12 DEF AnswersInv, DueUnanswered, AnsweredAtMostOnce
<1> QED BY <1>2, <1>3

\* A request that an id carries was asked of V8.
LEMMA CarriedAsked ==
  ASSUME TypeOK, NEW r, Carries(Flight, Asked, r)
  PROVE  Has(Asked, {r})
<1>1. PICK n \in Nat : SentType(n) /\ Flight \in Seq(0..Len(reqCallbacks))
  BY FlightTypes
<1>2. Len(Asked) = Len(reqCallbacks) /\ Len(reqCallbacks) \in Nat /\ DOMAIN Asked = 1..Len(Asked)
  BY <1>1, OwedTypes
<1>3. PICK i \in DOMAIN Flight : Flight[i] # 0 /\ Asked[Flight[i]] = r
  BY DEF Carries
<1>4. Flight[i] \in 0..Len(reqCallbacks)
  BY <1>1, ElementsIn
<1>5. Flight[i] \in DOMAIN Asked
  BY <1>2, <1>3, <1>4
<1> QED BY <1>3, <1>5 DEF Has

\* The response of a disable answers those that wait for it.
LEMMA DisabledKeeps ==
  ASSUME TypeOK, AnswersInv, OnDebuggerDisabled
  PROVE  AnswersInv'
<1> DEFINE R == ToSet(disableCbs)
<1>1. /\ requests' = Answered(R) /\ disableCbs' = <<>>
      /\ UNCHANGED <<enableCbs, afterEnableCbs, msgs, cmds, reqCallbacks>>
  BY DEF OnDebuggerDisabled, sentVars
<1>2. \A r : r \in R <=> Has(disableCbs, {r})
  BY DEF ToSet, Has
<1> HIDE DEF R
<1>3. /\ Asked \in Seq(Nat)
      /\ {enableCbs, afterEnableCbs, disableCbs} \subseteq Seq(Nat)
      /\ \A r \in DOMAIN requests : r \in Nat \ {0}
  <2>1. PICK n \in Nat :
          /\ SentType(n) /\ DOMAIN requests = 1..n
          /\ {enableCbs, afterEnableCbs, disableCbs} \subseteq Seq(Nat)
    BY FlightTypes
  <2> QED BY <2>1, OwedTypes
<1>4. EachOnce(Asked, enableCbs, afterEnableCbs, disableCbs) /\ FlightKept
  BY <1>1, SameFlight DEF AnswersInv, OwedOnce
<1>5. Asked' = Asked /\ Flight' = Flight
  BY <1>1 DEF Asked, Flight, MsgIds
<1>6. OwedOnce'
  <2>1. EachOnce(Asked, enableCbs, afterEnableCbs, <<>>)
    BY <1>3, <1>4, EachOnceMove
  <2> QED BY <1>1, <1>4, <1>5, <2>1 DEF OwedOnce, FlightKept
<1>7. ASSUME NEW r \in DOMAIN requests, Due(r)' PROVE Due(r) /\ r \notin R
  <2>1. ~Has(<<>>, {r})
    BY DEF Has
  <2>2. Has(enableCbs, {r}) \/ Has(afterEnableCbs, {r}) \/ Carries(Flight, Asked, r)
    BY <1>1, <1>5, <1>7, <2>1 DEF Due
  <2>3. Has(enableCbs, {r}) \/ Has(afterEnableCbs, {r}) \/ Has(Asked, {r})
    BY <2>2, CarriedAsked
  <2>4. ~Has(disableCbs, {r})
    BY <1>3, <1>4, <2>3 DEF EachOnce, Apart
  <2> QED BY <1>2, <2>2, <2>4 DEF Due
<1>8. \A r \in DOMAIN requests : r \in R => Due(r)
  BY <1>2 DEF Due
<1> QED BY <1>1, <1>6, <1>7, <1>8, AnsweredKeeps DEF AnswersInv

\* A message answers at most the request that its id carries.
LEMMA MessageKeeps ==
  ASSUME TypeOK, AnswersInv, OnDebuggerMessage
  PROVE  AnswersInv'
<1> DEFINE m == Head(msgs)
           cb == reqCallbacks[m.id]
<1>0. OwedOnce
  BY DEF AnswersInv
<1>1. /\ msgs # <<>> /\ msgs' = Tail(msgs)
      /\ NotifyPaused \/ UNCHANGED sentVars
      /\ UNCHANGED <<enableCbs, afterEnableCbs, disableCbs>>
      /\ \/ UNCHANGED requests
         \/ m.id # 0 /\ cb.step # "backtrace" /\ requests' = Answered({cb.req})
  BY DEF OnDebuggerMessage, jsVars, Disconnect
<1>2. /\ FlightKept
      /\ m.id # 0 => /\ m.id \in DOMAIN reqCallbacks
                     /\ Carries(Flight, Asked, Asked[m.id])
                     /\ Asked[m.id] # 0 => ~Carries(Flight', Asked', Asked[m.id])
  BY <1>0, <1>1, TakenFlight
<1>3. CASE UNCHANGED requests
  BY <1>1, <1>2, <1>3, QuietKeeps
<1>4. CASE m.id # 0 /\ cb.step # "backtrace" /\ requests' = Answered({cb.req})
  <2>0. PICK c : c = cb.req
    OBVIOUS
  <2>1. Asked[m.id] = c
    BY <1>2, <1>4, <2>0 DEF Asked, AskedBy
  <2> HIDE DEF m, cb
  <2>2. OwedOnce' /\ \A r \in Nat \ {0} : Due(r)' => Due(r)
    BY <1>0, <1>1, <1>2, KeepsOwed
  <2>3. \A r \in DOMAIN requests : r \in Nat \ {0}
    BY FlightTypes
  <2>4. Carries(Flight, Asked, c) /\ Has(Asked, {c})
    BY <1>2, <1>4, <2>1, CarriedAsked
  <2>5. ASSUME c \in DOMAIN requests, Due(c)' PROVE FALSE
    <3>1. c \in Nat \ {0}
      BY <2>3, <2>5
    <3>2. ~Carries(Flight', Asked', c)
      BY <1>2, <1>4, <2>1, <3>1
    <3>3. Has(enableCbs, {c}) \/ Has(afterEnableCbs, {c}) \/ Has(disableCbs, {c})
      BY <1>1, <2>5, <3>2 DEF Due
    <3> QED BY <1>0, <2>4, <3>1, <3>3 DEF OwedOnce, EachOnce, Apart
  <2>6. Due(c)
    BY <2>4 DEF Due
  <2>7. \A r \in DOMAIN requests : /\ Due(r)' => Due(r) /\ r \notin {c}
                                   /\ r \in {c} => Due(r)
    BY <2>2, <2>3, <2>5, <2>6
  <2>8. requests' = Answered({c})
    BY <1>4, <2>0
  <2> QED BY <2>2, <2>7, <2>8, AnsweredKeeps DEF AnswersInv
<1> QED BY <1>1, <1>3, <1>4

\* Every other step answers nobody.
LEMMA NextAnswers ==
  ASSUME "throwing" \notin Kinds
  PROVE  TypeOK /\ AnswersInv /\ [Next]_vars => AnswersInv'
<1> SUFFICES ASSUME TypeOK, AnswersInv, [Next]_vars PROVE AnswersInv'
  OBVIOUS
<1>0. OwedOnce
  BY DEF AnswersInv
<1>1. ASSUME UNCHANGED <<requests, enableCbs, afterEnableCbs, disableCbs>>,
             UNCHANGED <<msgs, reqCallbacks, cmds>>
      PROVE  AnswersInv'
  BY <1>0, <1>1, SameFlight, QuietKeeps
<1>2. ASSUME UNCHANGED <<requests, jsVars, reqCallbacks>>, RunCommands
      PROVE  AnswersInv'
  BY <1>0, <1>2, ServedFlight, QuietKeeps DEF jsVars
<1>3. CASE UNCHANGED vars
  BY <1>1, <1>3 DEF vars, jsVars, sentVars
<1>4. CASE Accept \/ Receive \/ ClientClosedCb
  BY <1>1, <1>4 DEF Accept, Receive, ClientClosedCb, jsVars, sentVars
<1>5. CASE AcceptFails \/ Hangup
  <2>1. /\ UNCHANGED <<requests, enableCbs, afterEnableCbs, disableCbs, msgs>>
        /\ Disable
    BY <1>5 DEF AcceptFails, Hangup, jsVars
  <2> QED BY <1>0, <2>1, PushedFlight, QuietKeeps
<1>6. CASE EnableRequestSignalCb \/ Detach
  BY <1>1, <1>6 DEF EnableRequestSignalCb, Detach, NextSignal, jsVars
<1>7. CASE ProcessDebugMessagesCb \/ DisableRequestSignalCb \/ ServePaused \/ Interrupt
  BY <1>2, <1>7 DEF ProcessDebugMessagesCb, DisableRequestSignalCb, NextSignal, ServePaused,
     Interrupt
<1>8. CASE Break
  <2>1. UNCHANGED <<requests, enableCbs, afterEnableCbs, disableCbs>>
    BY <1>8 DEF Break, jsVars
  <2> QED BY <1>0, <1>8, <2>1, BreakFlight, QuietKeeps
<1> QED
  BY <1>3, <1>4, <1>5, <1>6, <1>7, <1>8, LineKeeps, EnabledKeeps, DisabledKeeps, MessageKeeps
     DEF Next, Signal

\* Unless a deferred function throws, no line is ever answered twice: each is
\* owed its answer in one place only, an id on its way through V8 or one of
\* the lists of context.js, and that place is given up as it is answered
\* (bindings.onDebuggerMessage, onDebuggerEnabled and onDebuggerDisabled).
THEOREM AnsweredAtMostOnceAlways ==
  ASSUME "throwing" \notin Kinds
  PROVE  Spec => []AnsweredAtMostOnce
<1>1. Init => AnswersInv
  <2> SUFFICES ASSUME Init PROVE AnswersInv
    OBVIOUS
  <2>1. Asked = <<>> /\ Flight = <<>>
    <3>1. AskedBy(<<>>) = <<>> /\ IdsOf(<<>>) = <<>> /\ <<>> \o <<>> = <<>>
      BY DEF AskedBy, IdsOf
    <3> QED BY <3>1 DEF Init, Asked, Flight, MsgIds
  <2>2. Once(<<>>) /\ \A S : ~Has(<<>>, S)
    BY DEF Once, Has
  <2>3. OwedOnce
    BY <2>1, <2>2 DEF Init, OwedOnce, EachOnce, Apart
  <2>4. DueUnanswered /\ AnsweredAtMostOnce
    BY DEF Init, DueUnanswered, AnsweredAtMostOnce
  <2> QED BY <2>3, <2>4 DEF AnswersInv
<1>2. AnswersInv => AnsweredAtMostOnce
  BY DEF AnswersInv
<1> QED BY <1>1, <1>2, TypeCorrect, NextAnswers, PTL DEF Spec

------------------------------------------------------------------------------
(*****************************************************************************)
(* Session implements the safety of Attachment.  Steps of the worker and of  *)
(* the clients change at most whether there is a client; steps of the main   *)
(* thread change at most the debugger, one flag at a time.                   *)
(*****************************************************************************)

\* The program is paused only with a message handler installed.
PausedAttached == paused => handler

\* The worker's and the clients' steps leave the main thread alone.
LEMMA WorkerLeavesMain ==
  ASSUME Accept \/ AcceptFails \/ Hangup \/ Receive \/ ClientLine \/ ClientClosedCb
           \/ OnDebuggerEnabled \/ OnDebuggerDisabled \/ OnDebuggerMessage
  PROVE  UNCHANGED <<handler, paused, held>>
<1>1. CASE Accept \/ AcceptFails \/ Hangup \/ Receive \/ ClientClosedCb
  BY <1>1 DEF Accept, AcceptFails, Hangup, Receive, ClientClosedCb, mainVars
<1>2. CASE ClientLine
  BY <1>2 DEF ClientLine, LineEnable, LineDisable, LineDirect, LineDeferred,
              LineClose, Line, mainVars
<1>3. CASE OnDebuggerEnabled \/ OnDebuggerDisabled \/ OnDebuggerMessage
  BY <1>3 DEF OnDebuggerEnabled, OnDebuggerDisabled, OnDebuggerMessage, mainVars
<1> QED BY <1>1, <1>2, <1>3

\* The main thread's steps leave the clients alone.
LEMMA MainLeavesClients ==
  ASSUME Signal \/ ServePaused \/ Break \/ Interrupt
  PROVE  UNCHANGED <<conn, gen, chunk, requests, crashed>>
<1>1. CASE Signal
  BY <1>1 DEF Signal, EnableRequestSignalCb, ProcessDebugMessagesCb,
              DisableRequestSignalCb, Detach, NextSignal, connVars
<1>2. CASE ServePaused \/ Break \/ Interrupt
  BY <1>2 DEF ServePaused, Break, Interrupt, connVars
<1> QED BY <1>1, <1>2

\* Whether there is a client depends on these variables only.
LEMMA GoneUnchanged ==
  ASSUME UNCHANGED <<conn, gen, chunk, requests, crashed>>
  PROVE  Gone' <=> Gone
  BY DEF Gone, AtLoop, LateLines

\* V8 runs commands under the debugger, or the program stops: what may
\* become of paused and held.
Serves ==
  \/ UNCHANGED <<paused, held>>
  \/ ~paused /\ paused' = TRUE /\ held' \in {FALSE, Gone}
  \/ paused /\ paused' = FALSE /\ held' = FALSE

\* RunCommands under a handler is one of these; without one it does nothing.
LEMMA RunCommandsServes ==
  ASSUME TypeOK, TypeOK', HeldPaused, RunCommands
  PROVE  (handler /\ Serves) \/ UNCHANGED <<paused, held>>
<1>1. {paused, held, paused', held'} \subseteq BOOLEAN
  BY DEF TypeOK
<1>2. CASE handler
  <2>1. held' = (held /\ paused')
    BY <1>2 DEF RunCommands
  <2> QED BY <1>1, <1>2, <2>1 DEF Serves, HeldPaused
<1> QED BY <1>2 DEF RunCommands

\* A step of the main thread attaches or detaches a program that is not
\* paused, or runs commands or stops with the handler installed.
LEMMA MainSteps ==
  ASSUME TypeOK, TypeOK', HeldPaused, PausedAttached,
         Signal \/ ServePaused \/ Break \/ Interrupt
  PROVE  \/ ~paused /\ handler' = TRUE /\ UNCHANGED <<paused, held>>
         \/ ~paused /\ handler' = FALSE /\ UNCHANGED <<paused, held>>
         \/ handler /\ handler' = handler /\ Serves
         \/ UNCHANGED <<handler, paused, held>>
<1>1. CASE EnableRequestSignalCb \/ Detach
  BY <1>1 DEF EnableRequestSignalCb, Detach, NextSignal
<1>2. CASE ProcessDebugMessagesCb \/ DisableRequestSignalCb
  <2>1. RunCommands /\ handler' = handler
    BY <1>2 DEF ProcessDebugMessagesCb, DisableRequestSignalCb
  <2> QED BY <2>1, RunCommandsServes
<1>3. CASE ServePaused \/ Interrupt
  <2>1. RunCommands /\ handler' = handler
    BY <1>3 DEF ServePaused, Interrupt
  <2> QED BY <2>1, RunCommandsServes
<1>4. CASE Break
  <2>1. /\ handler /\ handler' = handler /\ ~paused /\ paused' = TRUE
        /\ held' = StopsByItself
    BY <1>4 DEF Break, InProgram
  <2>2. StopsByItself \in {FALSE, Gone}
    BY DEF StopsByItself, Gone
  <2> QED BY <2>1, <2>2 DEF Serves
<1> QED BY <1>1, <1>2, <1>3, <1>4 DEF Signal

\* PausedAttached is inductive: breakpoints and commands need the handler,
\* and it is removed by a main thread that is not paused.
LEMMA PausedAttachedAlways == Spec => []PausedAttached
<1>1. Init => PausedAttached
  BY DEF Init, PausedAttached
<1>2. ASSUME TypeOK, TypeOK', HeldPaused, PausedAttached, [Next]_vars
      PROVE  PausedAttached'
  <2>1. CASE UNCHANGED vars
    BY <1>2, <2>1 DEF vars, mainVars, PausedAttached
  <2>2. CASE Signal \/ ServePaused \/ Break \/ Interrupt
    BY <1>2, <2>2, MainSteps DEF PausedAttached
  <2>3. CASE Next /\ ~(Signal \/ ServePaused \/ Break \/ Interrupt)
    BY <1>2, <2>3, WorkerLeavesMain DEF PausedAttached, Next
  <2> QED BY <1>2, <2>1, <2>2, <2>3
<1> QED BY <1>1, <1>2, TypeCorrect, HeldPausedAlways, PTL DEF Spec

\* Every step is one of Attachment's or changes nothing of it.
LEMMA StepRefines ==
  ASSUME TypeOK, TypeOK', HeldPaused, PausedAttached, [Next]_vars
  PROVE  [Abstract!Next]_(Abstract!attachVars)
<1>0. {handler, paused, held} \subseteq BOOLEAN /\ {handler', paused', held'} \subseteq BOOLEAN
  BY DEF TypeOK
<1>1. CASE UNCHANGED <<conn, gen, chunk, requests, crashed>>
           /\ UNCHANGED <<handler, paused, held>>
  BY <1>1, GoneUnchanged DEF Abstract!attachVars
<1>2. CASE UNCHANGED <<handler, paused, held>>
  BY <1>2 DEF Abstract!attachVars, Abstract!Next, Abstract!ClientChanges, Gone
<1>3. CASE Signal \/ ServePaused \/ Break \/ Interrupt
  <2>1. Gone' <=> Gone
    BY <1>3, MainLeavesClients, GoneUnchanged
  <2>2. \/ ~paused /\ handler' = TRUE /\ UNCHANGED <<paused, held>>
        \/ ~paused /\ handler' = FALSE /\ UNCHANGED <<paused, held>>
        \/ handler /\ handler' = handler /\ Serves
        \/ UNCHANGED <<handler, paused, held>>
    BY <1>3, MainSteps
  <2>3. (~Gone)' = ~Gone /\ Gone = ~~Gone
    BY <2>1 DEF Gone
  <2>4. CASE handler /\ handler' = handler /\ Serves
    BY <1>0, <2>3, <2>4 DEF Abstract!attachVars, Abstract!Next, Abstract!Stop,
                            Abstract!GoOn, Serves
  <2>5. CASE UNCHANGED <<paused, held>> /\ ~paused
    BY <1>0, <2>3, <2>5 DEF Abstract!attachVars, Abstract!Next, Abstract!Attach,
                            Abstract!Detach
  <2> QED BY <1>2, <2>2, <2>4, <2>5
<1>4. CASE UNCHANGED vars
  BY <1>1, <1>4 DEF vars, connVars, mainVars
<1> QED BY <1>2, <1>3, <1>4, WorkerLeavesMain DEF Next

\* The session implements Attachment, for any number of clients, lines and
\* breakpoints, with or without steps and `debugger` statements: the program
\* is stopped only under an attached debugger, the handler is never removed
\* from a program that is stopped (controller.cc:206-211), and a program is
\* held only by a stop that it makes without a client.
THEOREM RefinesAttachment == Spec => Abstract!Spec
<1>1. Init => Abstract!Init
  BY DEF Init, Abstract!Init, Gone, AtLoop, LateLines
<1>2. TypeOK /\ TypeOK' /\ HeldPaused /\ PausedAttached /\ [Next]_vars
        => [Abstract!Next]_(Abstract!attachVars)
  BY StepRefines
<1> QED
  BY <1>1, <1>2, TypeCorrect, HeldPausedAlways, PausedAttachedAlways, PTL
     DEF Spec, Abstract!Spec

==============================================================================
