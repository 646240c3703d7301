-------------------------- MODULE SessionTypeProofs --------------------------
(*****************************************************************************)
(* Session is type-correct.  First come facts about its FIFO queues: what is *)
(* in them (Has), and the flag they leave behind when they are worked off    *)
(* (LeavesOn).  Then TypeOK is taken apart into types that depend on         *)
(* nothing, on the number of lines handled or on the number of requests      *)
(* sent; each helper of Session has a lemma about the types it keeps, and    *)
(* each group of actions one that puts them together again.                  *)
(*****************************************************************************)
EXTENDS Session, SequenceTheorems, TLAPS

\* Some element of s is in S.
Has(s, S) == \E i \in DOMAIN s : s[i] \in S

\* A concatenation has what one of its parts has.
LEMMA HasConcat ==
  ASSUME NEW T, NEW S, NEW s \in Seq(T), NEW t \in Seq(T)
  PROVE  Has(s \o t, S) <=> Has(s, S) \/ Has(t, S)
<1>1. /\ DOMAIN s = 1..Len(s) /\ DOMAIN t = 1..Len(t)
      /\ DOMAIN (s \o t) = 1..(Len(s) + Len(t))
      /\ Len(s) \in Nat /\ Len(t) \in Nat
  OBVIOUS
<1>2. \A i \in 1..Len(s) : (s \o t)[i] = s[i]
  OBVIOUS
<1>3. \A i \in 1..Len(t) : (s \o t)[Len(s) + i] = t[i]
  OBVIOUS
<1>4. ASSUME Has(s \o t, S) PROVE Has(s, S) \/ Has(t, S)
  <2>1. PICK i \in 1..(Len(s) + Len(t)) : (s \o t)[i] \in S
    BY <1>1, <1>4 DEF Has
  <2>2. CASE i <= Len(s)
    BY <1>1, <1>2, <2>1, <2>2 DEF Has
  <2>3. CASE i > Len(s)
    <3>1. i - Len(s) \in 1..Len(t) /\ i = Len(s) + (i - Len(s))
      BY <1>1, <2>3
    <3> QED
      BY <1>1, <1>3, <2>1, <3>1 DEF Has
  <2> QED BY <2>2, <2>3, <1>1
<1>5. ASSUME Has(s, S) \/ Has(t, S) PROVE Has(s \o t, S)
  <2>1. \A i \in 1..Len(t) : Len(s) + i \in 1..(Len(s) + Len(t))
    BY <1>1
  <2>2. \A i \in 1..Len(s) : i \in 1..(Len(s) + Len(t))
    BY <1>1
  <2> QED BY <1>1, <1>2, <1>3, <1>5, <2>1, <2>2 DEF Has
<1> QED BY <1>4, <1>5

\* A sequence has what its head is or its tail has.
LEMMA HasHead ==
  ASSUME NEW T, NEW S, NEW s \in Seq(T), s # <<>>
  PROVE  Has(s, S) <=> Head(s) \in S \/ Has(Tail(s), S)
<1>1. /\ DOMAIN s = 1..Len(s) /\ DOMAIN Tail(s) = 1..(Len(s) - 1)
      /\ Len(s) \in Nat \ {0} /\ Head(s) = s[1]
  OBVIOUS
<1>2. \A i \in 1..(Len(s) - 1) : Tail(s)[i] = s[i + 1]
  OBVIOUS
<1>3. \A i \in 1..Len(s) : i # 1 => i - 1 \in 1..(Len(s) - 1) /\ i = (i - 1) + 1
  BY <1>1
<1>4. \A i \in 1..(Len(s) - 1) : i + 1 \in 1..Len(s)
  BY <1>1
<1>5. ASSUME Has(s, S) PROVE Head(s) \in S \/ Has(Tail(s), S)
  <2>1. PICK i \in 1..Len(s) : s[i] \in S
    BY <1>1, <1>5 DEF Has
  <2>2. CASE i = 1
    BY <1>1, <2>1, <2>2
  <2>3. CASE i # 1
    <3>1. Tail(s)[i - 1] \in S
      BY <1>2, <1>3, <2>1, <2>3
    <3> QED BY <1>1, <1>3, <2>3, <3>1 DEF Has
  <2> QED BY <2>2, <2>3
<1>6. ASSUME Head(s) \in S \/ Has(Tail(s), S) PROVE Has(s, S)
  <2>1. 1 \in 1..Len(s)
    BY <1>1
  <2> QED BY <1>1, <1>2, <1>4, <1>6, <2>1 DEF Has
<1> QED BY <1>5, <1>6

\* LeavesOn: what switches nothing can be appended without effect.
LEMMA LeavesNeutral ==
  ASSUME NEW T, NEW s \in Seq(T), NEW t \in Seq(T), NEW on, NEW off, NEW w,
         ~Has(t, on), ~Has(t, off)
  PROVE  LeavesOn(s \o t, on, off, w) <=> LeavesOn(s, on, off, w)
<1>1. /\ DOMAIN s = 1..Len(s) /\ DOMAIN t = 1..Len(t)
      /\ DOMAIN (s \o t) = 1..(Len(s) + Len(t))
      /\ Len(s) \in Nat /\ Len(t) \in Nat
  OBVIOUS
<1>2. \A i \in 1..Len(s) : (s \o t)[i] = s[i] /\ i \in 1..(Len(s) + Len(t))
  OBVIOUS
<1>3. \A i \in 1..(Len(s) + Len(t)) :
        i \notin 1..Len(s) => (s \o t)[i] \notin on /\ (s \o t)[i] \notin off
  <2> SUFFICES ASSUME NEW i \in 1..(Len(s) + Len(t)), i \notin 1..Len(s)
               PROVE  (s \o t)[i] \notin on /\ (s \o t)[i] \notin off
    OBVIOUS
  <2>1. i - Len(s) \in 1..Len(t)
    BY <1>1
  <2>2. (s \o t)[i] = t[i - Len(s)]
    BY <1>1
  <2> QED BY <1>1, <2>1, <2>2 DEF Has
<1> QED BY <1>1, <1>2, <1>3 DEF LeavesOn

\* LeavesOn: appending something that switches the flag off, and nothing that
\* switches it on, leaves the flag off.
LEMMA LeavesOffAtEnd ==
  ASSUME NEW T, NEW s \in Seq(T), NEW t \in Seq(T), NEW on, NEW off, NEW w,
         ~Has(t, on), Has(t, off)
  PROVE  ~LeavesOn(s \o t, on, off, w)
<1>1. /\ DOMAIN s = 1..Len(s) /\ DOMAIN t = 1..Len(t)
      /\ DOMAIN (s \o t) = 1..(Len(s) + Len(t))
      /\ Len(s) \in Nat /\ Len(t) \in Nat
  OBVIOUS
<1>2. PICK k \in 1..Len(t) : t[k] \in off
  BY <1>1 DEF Has
<1>3. Len(s) + k \in 1..(Len(s) + Len(t)) /\ (s \o t)[Len(s) + k] \in off
  BY <1>1, <1>2
<1>4. \A i \in 1..(Len(s) + Len(t)) : (s \o t)[i] \in on => Len(s) + k > i
  <2> SUFFICES ASSUME NEW i \in 1..(Len(s) + Len(t)), (s \o t)[i] \in on
               PROVE  i <= Len(s)
    BY <1>1, <1>2
  <2>1. CASE i > Len(s)
    <3>1. i - Len(s) \in 1..Len(t) /\ (s \o t)[i] = t[i - Len(s)]
      BY <1>1, <2>1
    <3> QED BY <1>1, <3>1 DEF Has
  <2> QED BY <1>1, <2>1
<1> QED BY <1>1, <1>3, <1>4 DEF LeavesOn

\* LeavesOn: acting on the head of the FIFO, and setting the flag
\* accordingly, does not change what the FIFO leaves the flag at.
LEMMA LeavesHead ==
  ASSUME NEW T, NEW s \in Seq(T), s # <<>>, NEW on, NEW off, NEW w
  PROVE  /\ Head(s) \in on /\ Head(s) \notin off =>
              (LeavesOn(s, on, off, w) <=> LeavesOn(Tail(s), on, off, TRUE))
         /\ Head(s) \notin on /\ Head(s) \in off =>
              (LeavesOn(s, on, off, w) <=> LeavesOn(Tail(s), on, off, FALSE))
         /\ Head(s) \notin on /\ Head(s) \notin off =>
              (LeavesOn(s, on, off, w) <=> LeavesOn(Tail(s), on, off, w))
<1>1. /\ DOMAIN s = 1..Len(s) /\ DOMAIN Tail(s) = 1..(Len(s) - 1)
      /\ Len(s) \in Nat \ {0} /\ Head(s) = s[1]
  OBVIOUS
<1>2. \A i \in 1..(Len(s) - 1) : Tail(s)[i] = s[i + 1]
  OBVIOUS
<1>3. \A i \in 1..Len(s) : i # 1 => i - 1 \in 1..(Len(s) - 1) /\ i = (i - 1) + 1
  BY <1>1
<1>4. \A i \in 1..(Len(s) - 1) : i + 1 \in 1..Len(s) /\ i + 1 > 1
  BY <1>1
<1>5. \A i, j \in 1..(Len(s) - 1) : j > i <=> j + 1 > i + 1
  BY <1>1
<1> DEFINE P == \E i \in 1..(Len(s)-1) : s[i+1] \in on /\ \A j \in 1..(Len(s)-1) : j > i => s[j+1] \notin off
<1> DEFINE Q == \A i \in 1..(Len(s)-1) : s[i+1] \notin off
<1>6. \A v : LeavesOn(Tail(s), on, off, v) <=> P \/ (v /\ Q)
  BY <1>1, <1>2 DEF LeavesOn
<1>7. (\A j \in DOMAIN s : j > 1 => s[j] \notin off) <=> Q
  BY <1>1, <1>3, <1>4
<1>8. ASSUME NEW i \in 1..(Len(s)-1)
      PROVE (\A j \in 1..Len(s) : j > i + 1 => s[j] \notin off) <=>
                \A j \in 1..(Len(s)-1) : j > i => s[j+1] \notin off
  <2>1. ASSUME \A j \in 1..Len(s) : j > i + 1 => s[j] \notin off,
               NEW j \in 1..(Len(s)-1), j > i
        PROVE  s[j+1] \notin off
    BY <1>1, <1>4, <2>1
  <2>2. ASSUME \A j \in 1..(Len(s)-1) : j > i => s[j+1] \notin off,
               NEW j \in 1..Len(s), j > i + 1
        PROVE  s[j] \notin off
    <3>1. j - 1 \in 1..(Len(s)-1) /\ j - 1 > i /\ (j - 1) + 1 = j
      BY <1>1, <2>2
    <3> QED BY <2>2, <3>1
  <2> QED BY <2>1, <2>2
<1>9. (\E i \in DOMAIN s : i # 1 /\ s[i] \in on /\ \A j \in DOMAIN s : j > i => s[j] \notin off) <=> P
  <2>1. ASSUME NEW i \in 1..Len(s), i # 1, s[i] \in on, \A j \in 1..Len(s) : j > i => s[j] \notin off
        PROVE  P
    <3>1. i - 1 \in 1..(Len(s) - 1) /\ s[(i-1)+1] \in on /\ \A j \in 1..Len(s) : j > (i-1)+1 => s[j] \notin off
      BY <1>3, <2>1
    <3> QED BY <3>1, <1>8
  <2>2. ASSUME NEW i \in 1..(Len(s)-1), s[i+1] \in on, \A j \in 1..(Len(s)-1) : j > i => s[j+1] \notin off
        PROVE  \E k \in 1..Len(s) : k # 1 /\ s[k] \in on /\ \A j \in 1..Len(s) : j > k => s[j] \notin off
    <3>1. i + 1 \in 1..Len(s) /\ i + 1 # 1
      BY <1>1
    <3>2. \A j \in 1..Len(s) : j > i + 1 => s[j] \notin off
      BY <1>8, <2>2
    <3> QED BY <2>2, <3>1, <3>2
  <2> QED BY <1>1, <2>1, <2>2
<1>10. LeavesOn(s, on, off, w) <=> (Head(s) \in on /\ Q) \/ P \/ (w /\ Head(s) \notin off /\ Q)
  BY <1>1, <1>7, <1>9, <1>3 DEF LeavesOn
<1>11. LeavesOn(Tail(s), on, off, TRUE) <=> P \/ Q
  BY <1>6
<1>12. LeavesOn(Tail(s), on, off, FALSE) <=> P
  BY <1>6
<1>13. LeavesOn(Tail(s), on, off, w) <=> P \/ (w /\ Q)
  BY <1>6
<1> HIDE DEF P, Q
<1> QED BY <1>10, <1>11, <1>12, <1>13, Zenon

\* "Enable" occurs at most once in s.
OneEnable(s) ==
  \A i, j \in DOMAIN s : s[i] = "Enable" /\ s[j] = "Enable" => i = j

\* A concatenation of which only one part has an "Enable" has one only.
LEMMA OneEnableConcat ==
  ASSUME NEW T, NEW s \in Seq(T), NEW t \in Seq(T), OneEnable(s), OneEnable(t),
         ~Has(s, {"Enable"}) \/ ~Has(t, {"Enable"})
  PROVE  OneEnable(s \o t)
<1>1. /\ DOMAIN s = 1..Len(s) /\ DOMAIN t = 1..Len(t)
      /\ DOMAIN (s \o t) = 1..(Len(s) + Len(t))
      /\ Len(s) \in Nat /\ Len(t) \in Nat
  OBVIOUS
<1>2. ASSUME NEW i \in 1..(Len(s) + Len(t))
      PROVE  \/ i \in 1..Len(s) /\ (s \o t)[i] = s[i]
             \/ /\ i \notin 1..Len(s) /\ i - Len(s) \in 1..Len(t)
                /\ (s \o t)[i] = t[i - Len(s)]
  BY <1>1
<1> SUFFICES ASSUME NEW i \in 1..(Len(s) + Len(t)), NEW j \in 1..(Len(s) + Len(t)),
                    (s \o t)[i] = "Enable", (s \o t)[j] = "Enable"
             PROVE  i = j
  BY <1>1 DEF OneEnable
<1>3. CASE i \in 1..Len(s) /\ j \in 1..Len(s)
  BY <1>1, <1>2, <1>3 DEF OneEnable
<1>4. CASE i \notin 1..Len(s) /\ j \notin 1..Len(s)
  <2>1. i - Len(s) = j - Len(s)
    BY <1>1, <1>2, <1>4 DEF OneEnable
  <2> QED BY <1>1, <2>1
<1>5. CASE ~(i \in 1..Len(s) <=> j \in 1..Len(s))
  BY <1>1, <1>2, <1>5 DEF Has
<1> QED BY <1>3, <1>4, <1>5

\* Once its only "Enable" is taken from a queue, none is left.
LEMMA OneEnableTail ==
  ASSUME NEW T, NEW s \in Seq(T), s # <<>>, OneEnable(s)
  PROVE  /\ OneEnable(Tail(s))
         /\ Head(s) = "Enable" => ~Has(Tail(s), {"Enable"})
<1>1. /\ DOMAIN s = 1..Len(s) /\ DOMAIN Tail(s) = 1..(Len(s) - 1)
      /\ Len(s) \in Nat \ {0} /\ Head(s) = s[1] /\ 1 \in DOMAIN s
  OBVIOUS
<1>2. \A i \in 1..(Len(s) - 1) : Tail(s)[i] = s[i + 1] /\ i + 1 \in 1..Len(s) /\ i + 1 # 1
  BY <1>1
<1>3. \A i, j \in 1..(Len(s) - 1) : i + 1 = j + 1 => i = j
  BY <1>1
<1> QED BY <1>1, <1>2, <1>3 DEF OneEnable, Has

\* A sequence of other signals has no "Enable".
LEMMA NoEnable ==
  ASSUME NEW S, NEW t \in Seq(S), "Enable" \notin S
  PROVE  ~Has(t, {"Enable"}) /\ OneEnable(t)
  BY DEF Has, OneEnable

------------------------------------------------------------------------------

\* The types of a signal, of a message when k requests were sent, and of a
\* registered callback when n lines were handled.
SignalKinds == {"Enable", "Disable", "Detach", "Process"}
Message(n) == [event : BOOLEAN, id : 0..n]
Entry(n) == [step : AllSteps, req : 0..n]

\* What the sending of requests changes, n lines having been handled.
SentType(n) ==
  /\ reqCallbacks \in Seq(Entry(n))
  /\ signals \in Seq(SignalKinds)
  /\ cmds \in Seq(0..Len(reqCallbacks))

\* debugger_messages_, k requests having been sent.
MsgsType(k) == msgs \in Seq(Message(k))

\* The callback lists of context.js, n lines having been handled.
ListsType(n) == {enableCbs, afterEnableCbs, disableCbs} \subseteq Seq(1..n)

\* The record of one line.
RequestType == [from : Nat, kind : Kinds, answers : Seq(Nat)]

\* All that does not depend on how many lines or requests there were.
FlagsType ==
  /\ conn \in {"none", "open", "closing"}
  /\ gen \in Nat
  /\ {enabled, enableSig, disableSig, handler, armed, stepping, paused, held,
      crashed} \subseteq BOOLEAN
  /\ breaks \in Nat

\* TypeOK is the conjunction of these types.
LEMMA TypeParts ==
  TypeOK <=> /\ FlagsType
             /\ chunk \in Seq(Kinds)
             /\ requests \in Seq(RequestType)
             /\ ListsType(Len(requests))
             /\ SentType(Len(requests))
             /\ MsgsType(Len(reqCallbacks))
  BY DEF TypeOK, FlagsType, RequestType, ListsType, SentType, MsgsType, Entry, Message, SignalKinds

\* The same of the next state, in the direction that the proofs need.
LEMMA TypePartsNext ==
  ASSUME FlagsType', (chunk \in Seq(Kinds))', (requests \in Seq(RequestType))',
         ListsType(Len(requests))', SentType(Len(requests))',
         MsgsType(Len(reqCallbacks))'
  PROVE  TypeOK'
  BY DEF TypeOK, FlagsType, RequestType, ListsType, SentType, MsgsType, Entry, Message, SignalKinds

\* sendDebuggerRequest keeps the types of what it changes.
LEMMA SendRequestsType ==
  ASSUME NEW n \in Nat, SentType(n), NEW e \in Seq(Entry(n)), SendRequests(e)
  PROVE  SentType(n)' /\ Len(reqCallbacks) <= Len(reqCallbacks)'
<1> USE DEF SentType, SendRequests, SignalKinds
<1>1. DOMAIN e = 1..Len(e) /\ Len(e) \in Nat
  OBVIOUS
<1>2. reqCallbacks' \in Seq(Entry(n))
  OBVIOUS
<1>3. Len(reqCallbacks') = Len(reqCallbacks) + Len(e)
  OBVIOUS
<1>4. signals' \in Seq(SignalKinds)
  <2>1. [i \in DOMAIN e |-> "Process"] \in Seq(SignalKinds)
    BY <1>1
  <2> QED BY <2>1
<1>5. cmds' \in Seq(0..Len(reqCallbacks'))
  <2>1. [i \in DOMAIN e |-> Len(reqCallbacks) + i] \in Seq(0..Len(reqCallbacks'))
    BY <1>1, <1>3
  <2>2. cmds \in Seq(0..Len(reqCallbacks'))
    BY <1>3, SeqMonotonic
  <2> QED BY <2>1, <2>2
<1> QED BY <1>1, <1>2, <1>3, <1>4, <1>5

\* Worker::Disable keeps the types of what it changes.
LEMMA DisableType ==
  ASSUME NEW n \in Nat, SentType(n), Disable
  PROVE  SentType(n)' /\ Len(reqCallbacks) <= Len(reqCallbacks)'
<1> USE DEF SentType, Disable, SignalKinds, Disconnect
<1>1. Len(reqCallbacks) \in Nat
  OBVIOUS
<1>2. cmds' \in Seq(0..Len(reqCallbacks))
  BY <1>1
<1>3. signals' \in Seq(SignalKinds)
  OBVIOUS
<1> QED BY <1>1, <1>2, <1>3

\* Sending nothing keeps them too.
LEMMA UnsentType ==
  ASSUME NEW n \in Nat, SentType(n), UNCHANGED sentVars
  PROVE  SentType(n)' /\ Len(reqCallbacks) <= Len(reqCallbacks)'
  BY DEF SentType, sentVars

\* Another line handled only widens the types: of what was sent,
LEMMA SentGrows ==
  ASSUME NEW m \in Nat, NEW n \in Nat, m <= n, SentType(m)
  PROVE  SentType(n)
<1>1. Entry(m) \subseteq Entry(n)
  BY DEF Entry
<1> QED BY <1>1, SeqMonotonic DEF SentType

\* and of the callback lists.
LEMMA ListsGrow ==
  ASSUME NEW m \in Nat, NEW n \in Nat, m <= n, ListsType(m)
  PROVE  ListsType(n)
  BY SeqMonotonic DEF ListsType

\* Messages stay well-typed while more requests are sent, and when one of
\* them is taken.
LEMMA MsgsGrow ==
  ASSUME NEW m \in Nat, NEW n, SentType(m), SentType(n)',
         Len(reqCallbacks) <= Len(reqCallbacks)',
         MsgsType(Len(reqCallbacks)),
         msgs' = msgs \/ (msgs # <<>> /\ msgs' = Tail(msgs))
  PROVE  MsgsType(Len(reqCallbacks))'
<1>1. Len(reqCallbacks) \in Nat /\ Len(reqCallbacks)' \in Nat
  BY DEF SentType
<1>2. Message(Len(reqCallbacks)) \subseteq Message(Len(reqCallbacks)')
  BY <1>1 DEF Message
<1>3. msgs' \in Seq(Message(Len(reqCallbacks)))
  BY HeadTailProperties DEF MsgsType
<1> QED BY <1>2, <1>3, SeqMonotonic DEF MsgsType

\* context.notifyDebuggerPaused keeps the types.
LEMMA NotifyPausedType ==
  ASSUME NEW n \in Nat, SentType(n), NotifyPaused
  PROVE  SentType(n)' /\ Len(reqCallbacks) <= Len(reqCallbacks)'
<1>1. <<[step |-> "backtrace", req |-> 0]>> \in Seq(Entry(n))
  BY DEF Entry, AllSteps
<1> QED BY <1>1, SendRequestsType, UnsentType DEF NotifyPaused, SendRequest

\* V8 running its commands keeps the types: every answer bears the id of a
\* request that was sent.
LEMMA RunCommandsType ==
  ASSUME NEW n \in Nat, SentType(n), MsgsType(Len(reqCallbacks)), RunCommands,
         UNCHANGED reqCallbacks, signals' \in Seq(SignalKinds),
         {armed, stepping, paused, held} \subseteq BOOLEAN
  PROVE  /\ SentType(n)' /\ MsgsType(Len(reqCallbacks))'
         /\ {armed', stepping', paused', held'} \subseteq BOOLEAN
<1>1. Responses \in Seq(Message(Len(reqCallbacks)))
  <2>1. DOMAIN cmds = 1..Len(cmds) /\ Len(cmds) \in Nat
    BY DEF SentType
  <2> QED BY <2>1 DEF Responses, Message, SentType
<1>2. msgs \o Responses \in Seq(Message(Len(reqCallbacks)))
  BY <1>1 DEF MsgsType
<1>3. <<>> \in Seq(0..Len(reqCallbacks))
  OBVIOUS
<1>4. SentType(n)' /\ MsgsType(Len(reqCallbacks))'
  BY <1>2, <1>3 DEF RunCommands, SentType, MsgsType
<1>5. {armed', stepping', paused', held'} \subseteq BOOLEAN
  BY DEF RunCommands, LeavesOn
<1> QED BY <1>4, <1>5

\* Recording a line adds one well-typed request.
LEMMA RecvType ==
  ASSUME TypeOK, NEW k \in Kinds, NEW a \in Seq(Nat), Recv(k, a)
  PROVE  /\ requests' \in Seq(RequestType)
         /\ Len(requests') = Len(requests) + 1
         /\ Len(requests) \in Nat
         /\ NewReq = Len(requests')
         /\ NewReq \in 1..Len(requests')
  BY DEF TypeOK, Recv, RequestType, NewReq

\* Answering requests changes their answers only.
LEMMA AnsweredType ==
  ASSUME TypeOK, NEW R, requests' = Answered(R)
  PROVE  /\ requests' \in Seq(RequestType)
         /\ Len(requests') = Len(requests)
         /\ \A r \in 1..Len(requests) : /\ requests'[r].kind = requests[r].kind
                                        /\ requests'[r].from = requests[r].from
<1>1. requests \in Seq(RequestType) /\ DOMAIN requests = 1..Len(requests) /\ Len(requests) \in Nat
  BY DEF TypeOK, RequestType
<1>2. Recipient \in Nat
  BY DEF TypeOK, Recipient
<1>3. ASSUME NEW q \in RequestType
      PROVE  /\ [q EXCEPT !.answers = Append(@, Recipient)] \in RequestType
             /\ [q EXCEPT !.answers = Append(@, Recipient)].kind = q.kind
             /\ [q EXCEPT !.answers = Append(@, Recipient)].from = q.from
  BY <1>2 DEF RequestType
<1>4. \A r \in 1..Len(requests) : requests[r] \in RequestType
  BY <1>1
<1>5. requests' = [r \in 1..Len(requests) |->
                     IF r \in R THEN [requests[r] EXCEPT !.answers = Append(@, Recipient)]
                                ELSE requests[r]]
  BY <1>1 DEF Answered
<1>6. \A r \in 1..Len(requests) : /\ requests'[r] \in RequestType
                                  /\ requests'[r].kind = requests[r].kind
                                  /\ requests'[r].from = requests[r].from
  BY <1>3, <1>4, <1>5
<1>7. requests' \in [1..Len(requests) -> RequestType]
  BY <1>5, <1>6
<1>8. requests' \in Seq(RequestType) /\ Len(requests') = Len(requests)
  BY <1>1, <1>7
<1> QED BY <1>6, <1>8

\* The callbacks of the connection keep TypeOK.
LEMMA ConnectionType ==
  ASSUME TypeOK, Accept \/ AcceptFails \/ Hangup \/ ClientClosedCb \/ Receive
  PROVE  TypeOK'
<1>0. PICK n \in Nat :
        /\ FlagsType /\ chunk \in Seq(Kinds) /\ requests \in Seq(RequestType)
        /\ ListsType(n) /\ SentType(n) /\ MsgsType(Len(reqCallbacks))
        /\ n = Len(requests)
  BY TypeParts
<1>1. CASE Accept
  BY <1>0, <1>1, TypePartsNext DEF Accept, FlagsType, ListsType, SentType, MsgsType,
     jsVars, sentVars, mainVars
<1>2. CASE AcceptFails \/ Hangup
  <2>1. SentType(n)' /\ MsgsType(Len(reqCallbacks))'
    BY <1>0, <1>2, DisableType, MsgsGrow DEF AcceptFails, Hangup
  <2>2. FlagsType' /\ ListsType(n)' /\ UNCHANGED <<chunk, requests>>
    BY <1>0, <1>2 DEF AcceptFails, Hangup, FlagsType, ListsType, jsVars, mainVars
  <2> QED
    BY <1>0, <2>1, <2>2, TypePartsNext
<1>3. CASE ClientClosedCb
  BY <1>0, <1>3, TypePartsNext DEF ClientClosedCb, FlagsType, ListsType, SentType, MsgsType,
     jsVars, sentVars, mainVars
<1>4. CASE Receive
  <2>1. chunk' \in Seq(Kinds)
    BY <1>4, BoundsAssumption DEF Receive
  <2> QED
    BY <1>0, <1>4, <2>1, TypePartsNext DEF Receive, FlagsType, ListsType, SentType, MsgsType,
       connVars, jsVars, sentVars, mainVars
<1> QED
  BY <1>1, <1>2, <1>3, <1>4

\* Handling a line keeps TypeOK: the new request is registered under a number
\* that exists from then on.
LEMMA LineType ==
  ASSUME TypeOK, ClientLine
  PROVE  TypeOK'
<1>0. PICK n \in Nat :
        /\ FlagsType /\ chunk \in Seq(Kinds) /\ requests \in Seq(RequestType)
        /\ ListsType(n) /\ SentType(n) /\ MsgsType(Len(reqCallbacks))
        /\ n = Len(requests) /\ n + 1 \in Nat /\ n <= n + 1
  BY TypeParts
<1>1. ListsType(n + 1) /\ SentType(n + 1)
  BY <1>0, ListsGrow, SentGrows
<1>2. ASSUME NEW k, Line(k)
      PROVE  k \in Kinds /\ (chunk \in Seq(Kinds))' /\ UNCHANGED msgs
  BY <1>0, <1>2, HeadTailProperties DEF Line, InChunk
<1>3. <<>> \in Seq(Nat) /\ <<Recipient>> \in Seq(Nat)
  BY <1>0 DEF FlagsType, Recipient
<1>4. ASSUME NEW k \in Kinds, NEW a \in Seq(Nat), Recv(k, a)
      PROVE  /\ requests' \in Seq(RequestType)
             /\ Len(requests)' = n + 1
             /\ NewReq \in 1..(n + 1)
  BY <1>0, <1>4, RecvType
<1>5. ASSUME NEW s \in Seq(1..(n + 1)), NewReq \in 1..(n + 1)
      PROVE  Append(s, NewReq) \in Seq(1..(n + 1))
  BY <1>5
<1>6. ASSUME NEW k \in DirectKinds \cup {"deferred"}, NewReq \in 1..(n + 1),
             SendRequest(StepFor(k), NewReq)
      PROVE  SentType(n + 1)' /\ Len(reqCallbacks) <= Len(reqCallbacks)'
  <2>1. StepFor(k) \in AllSteps
    BY <1>6 DEF StepFor, AllSteps, DirectKinds
  <2>2. <<[step |-> StepFor(k), req |-> NewReq]>> \in Seq(Entry(n + 1))
    BY <1>6, <2>1 DEF Entry
  <2> QED BY <1>0, <1>1, <1>6, <2>2, SendRequestsType DEF SendRequest
<1>7. ASSUME SentType(n + 1)', Len(reqCallbacks) <= Len(reqCallbacks)', UNCHANGED msgs
      PROVE  MsgsType(Len(reqCallbacks))'
  BY <1>0, <1>7, MsgsGrow
<1>8. CASE LineEnable
  <2>1. /\ requests' \in Seq(RequestType) /\ Len(requests)' = n + 1
        /\ NewReq \in 1..(n + 1) /\ (chunk \in Seq(Kinds))' /\ UNCHANGED msgs
    BY <1>2, <1>3, <1>4, <1>8 DEF LineEnable
  <2>2. ListsType(n + 1)'
    BY <1>1, <1>5, <1>8, <2>1 DEF LineEnable, ListsType
  <2>3. SentType(n + 1)' /\ Len(reqCallbacks) <= Len(reqCallbacks)'
    BY <1>1, <1>8 DEF LineEnable, SentType, SignalKinds
  <2>4. FlagsType'
    BY <1>0, <1>8 DEF LineEnable, Line, FlagsType, mainVars
  <2> QED BY <1>7, <2>1, <2>2, <2>3, <2>4, TypePartsNext
<1>9. CASE LineDisable
  <2>1. /\ requests' \in Seq(RequestType) /\ Len(requests)' = n + 1
        /\ NewReq \in 1..(n + 1) /\ (chunk \in Seq(Kinds))' /\ UNCHANGED msgs
    BY <1>2, <1>3, <1>4, <1>9 DEF LineDisable
  <2>2. ListsType(n + 1)'
    BY <1>1, <1>5, <1>9, <2>1 DEF LineDisable, ListsType
  <2>3. SentType(n + 1)' /\ Len(reqCallbacks) <= Len(reqCallbacks)'
    BY <1>0, <1>1, <1>9, DisableType, UnsentType DEF LineDisable
  <2>4. FlagsType'
    BY <1>0, <1>9 DEF LineDisable, Line, FlagsType, mainVars
  <2> QED BY <1>7, <2>1, <2>2, <2>3, <2>4, TypePartsNext
<1>10. CASE LineDirect
  <2>0. PICK k \in DirectKinds :
          /\ Line(k)
          /\ IF enabled
             THEN SendRequest(StepFor(k), NewReq) /\ Recv(k, <<>>)
             ELSE UNCHANGED sentVars /\ Recv(k, <<Recipient>>)
    BY <1>10 DEF LineDirect
  <2>1. /\ requests' \in Seq(RequestType) /\ Len(requests)' = n + 1
        /\ NewReq \in 1..(n + 1) /\ (chunk \in Seq(Kinds))' /\ UNCHANGED msgs
    BY <1>2, <1>3, <1>4, <2>0
  <2>2. ListsType(n + 1)'
    BY <1>1, <1>10 DEF LineDirect, ListsType, jsVars
  <2>3. SentType(n + 1)' /\ Len(reqCallbacks) <= Len(reqCallbacks)'
    BY <1>0, <1>1, <1>6, <2>0, <2>1, UnsentType
  <2>4. FlagsType'
    BY <1>0, <1>10, <2>0 DEF LineDirect, Line, FlagsType, mainVars, jsVars
  <2> QED BY <1>7, <2>1, <2>2, <2>3, <2>4, TypePartsNext
<1>11. CASE LineDeferred
  <2>0. PICK k \in {"deferred", "throwing"} :
         /\ Line(k)
         /\ \/ /\ ~enabled
               /\ afterEnableCbs' = Append(afterEnableCbs, NewReq)
               /\ UNCHANGED sentVars
               /\ Recv(k, <<>>)
            \/ /\ enabled
               /\ k = "deferred"
               /\ SendRequest(StepFor(k), NewReq)
               /\ UNCHANGED afterEnableCbs
               /\ Recv(k, <<>>)
            \/ /\ enabled
               /\ k = "throwing"
               /\ UNCHANGED <<afterEnableCbs, sentVars>>
               /\ Recv(k, <<Recipient>>)
    BY <1>11 DEF LineDeferred
  <2>1. /\ requests' \in Seq(RequestType) /\ Len(requests)' = n + 1
        /\ NewReq \in 1..(n + 1) /\ (chunk \in Seq(Kinds))' /\ UNCHANGED msgs
    BY <1>2, <1>3, <1>4, <2>0
  <2>2. ListsType(n + 1)'
    BY <1>1, <1>5, <1>11, <2>0, <2>1 DEF LineDeferred, ListsType
  <2>3. SentType(n + 1)' /\ Len(reqCallbacks) <= Len(reqCallbacks)'
    BY <1>0, <1>1, <1>6, <2>0, <2>1, UnsentType
  <2>4. FlagsType'
    BY <1>0, <1>11, <2>0 DEF LineDeferred, Line, FlagsType, mainVars
  <2> QED BY <1>7, <2>1, <2>2, <2>3, <2>4, TypePartsNext
<1>12. CASE LineClose
  <2>1. /\ requests' \in Seq(RequestType) /\ Len(requests)' = n + 1
        /\ (chunk \in Seq(Kinds))' /\ UNCHANGED msgs
    BY <1>2, <1>3, <1>4, <1>12 DEF LineClose
  <2>2. ListsType(n + 1)'
    BY <1>1, <1>12 DEF LineClose, ListsType, jsVars
  <2>3. SentType(n + 1)' /\ Len(reqCallbacks) <= Len(reqCallbacks)'
    BY <1>0, <1>1, <1>12, DisableType DEF LineClose
  <2>4. FlagsType'
    BY <1>0, <1>12 DEF LineClose, Line, FlagsType, mainVars, jsVars
  <2> QED BY <1>7, <2>1, <2>2, <2>3, <2>4, TypePartsNext
<1> QED
  BY <1>8, <1>9, <1>10, <1>11, <1>12 DEF ClientLine

\* What onDebuggerEnabled sends is well-typed.
LEMMA EnabledEntries ==
  ASSUME TypeOK, NEW n \in Nat, n = Len(requests), NEW m \in 0..Len(afterEnableCbs)
  PROVE  [i \in DOMAIN enableCbs |-> [step |-> "scripts", req |-> enableCbs[i]]]
         \o [i \in 1..m |-> [step |-> "evaluate", req |-> afterEnableCbs[i]]]
         \in Seq(Entry(n))
<1>1. enableCbs \in Seq(1..n) /\ afterEnableCbs \in Seq(1..n)
  BY DEF TypeOK
<1>2. /\ DOMAIN enableCbs = 1..Len(enableCbs) /\ Len(enableCbs) \in Nat
      /\ \A i \in 1..Len(enableCbs) : enableCbs[i] \in 1..n
      /\ m \in Nat /\ \A i \in 1..m : afterEnableCbs[i] \in 1..n
  BY <1>1
<1>3. [i \in DOMAIN enableCbs |-> [step |-> "scripts", req |-> enableCbs[i]]]
        \in Seq(Entry(n))
  BY <1>2 DEF Entry, AllSteps
<1>4. [i \in 1..m |-> [step |-> "evaluate", req |-> afterEnableCbs[i]]]
        \in Seq(Entry(n))
  BY <1>2 DEF Entry, AllSteps
<1> QED BY <1>3, <1>4, ConcatProperties

\* The response callbacks keep TypeOK.
LEMMA CallbackType ==
  ASSUME TypeOK, OnDebuggerEnabled \/ OnDebuggerDisabled \/ OnDebuggerMessage
  PROVE  TypeOK'
<1>0. PICK n \in Nat :
        /\ FlagsType /\ chunk \in Seq(Kinds) /\ requests \in Seq(RequestType)
        /\ ListsType(n) /\ SentType(n) /\ MsgsType(Len(reqCallbacks))
        /\ n = Len(requests)
  BY TypeParts
<1>1. CASE OnDebuggerEnabled
  <2>1. UNCHANGED <<chunk, requests, msgs>> /\ FlagsType'
    BY <1>0, <1>1 DEF OnDebuggerEnabled, FlagsType, connVars, mainVars
  <2>2. CASE enableCbs = <<>>
    <3>1. ListsType(n)'
      BY <1>0, <1>1, <2>2 DEF OnDebuggerEnabled, ListsType
    <3>2. SentType(n)' /\ Len(reqCallbacks) <= Len(reqCallbacks)'
      BY <1>0, <1>1, <2>2, UnsentType DEF OnDebuggerEnabled
    <3> QED BY <1>0, <2>1, <3>1, <3>2, MsgsGrow, TypePartsNext
  <2>3. CASE enableCbs # <<>>
    <3>0. PICK m \in 0..Len(afterEnableCbs) :
             /\ SendRequests(
                  [i \in DOMAIN enableCbs |->
                     [step |-> "scripts", req |-> enableCbs[i]]]
                  \o [i \in 1..m |->
                     [step |-> "evaluate", req |-> afterEnableCbs[i]]])
             /\ afterEnableCbs' =
                  IF m = Len(afterEnableCbs) THEN <<>> ELSE afterEnableCbs
             /\ enableCbs' = <<>>
      BY <1>1, <2>3 DEF OnDebuggerEnabled
    <3>1. ListsType(n)'
      <4>1. <<>> \in Seq(1..n)
        OBVIOUS
      <4>2. enableCbs' \in Seq(1..n) /\ afterEnableCbs' \in Seq(1..n)
        BY <1>0, <3>0, <4>1 DEF ListsType
      <4>3. disableCbs' \in Seq(1..n)
        BY <1>0, <1>1 DEF OnDebuggerEnabled, ListsType
      <4> QED BY <4>2, <4>3 DEF ListsType
    <3>2. SentType(n)' /\ Len(reqCallbacks) <= Len(reqCallbacks)'
      BY <1>0, <3>0, EnabledEntries, SendRequestsType
    <3> QED BY <1>0, <2>1, <3>1, <3>2, MsgsGrow, TypePartsNext
  <2> QED BY <2>2, <2>3
<1>2. CASE OnDebuggerDisabled
  <2>1. requests' \in Seq(RequestType) /\ Len(requests)' = n
    BY <1>0, <1>2, AnsweredType DEF OnDebuggerDisabled
  <2>2. FlagsType' /\ UNCHANGED chunk
    BY <1>0, <1>2 DEF OnDebuggerDisabled, FlagsType, connVars, mainVars
  <2>3. SentType(n)' /\ MsgsType(Len(reqCallbacks))'
    BY <1>0, <1>2 DEF OnDebuggerDisabled, SentType, MsgsType, sentVars
  <2>4. ListsType(n)'
    <3>1. <<>> \in Seq(1..n)
      OBVIOUS
    <3> QED BY <1>0, <1>2, <3>1 DEF OnDebuggerDisabled, ListsType
  <2> QED BY <1>0, <2>1, <2>2, <2>3, <2>4, TypePartsNext
<1>3. CASE OnDebuggerMessage
  <2>1. requests' \in Seq(RequestType) /\ Len(requests)' = n
    <3>1. UNCHANGED requests \/ \E R : requests' = Answered(R)
      BY <1>3 DEF OnDebuggerMessage
    <3> QED BY <1>0, <3>1, AnsweredType
  <2>2. FlagsType' /\ ListsType(n)' /\ UNCHANGED chunk
    BY <1>0, <1>3 DEF OnDebuggerMessage, FlagsType, ListsType, connVars, jsVars, mainVars
  <2>3. SentType(n)' /\ Len(reqCallbacks) <= Len(reqCallbacks)'
    <3>1. UNCHANGED sentVars \/ NotifyPaused
      BY <1>3 DEF OnDebuggerMessage
    <3> QED BY <1>0, <3>1, UnsentType, NotifyPausedType
  <2>4. msgs # <<>> /\ msgs' = Tail(msgs)
    BY <1>3 DEF OnDebuggerMessage
  <2> QED BY <1>0, <2>1, <2>2, <2>3, <2>4, MsgsGrow, TypePartsNext
<1> QED
  BY <1>1, <1>2, <1>3

\* The steps of the main thread and of V8 keep TypeOK.
LEMMA MainType ==
  ASSUME TypeOK, Signal \/ ServePaused \/ Break \/ Interrupt
  PROVE  TypeOK'
<1>0. PICK n \in Nat :
        /\ FlagsType /\ chunk \in Seq(Kinds) /\ requests \in Seq(RequestType)
        /\ ListsType(n) /\ SentType(n) /\ MsgsType(Len(reqCallbacks))
        /\ n = Len(requests)
  BY TypeParts
<1>1. ASSUME NEW s, NextSignal(s)
      PROVE  /\ Tail(signals) \in Seq(SignalKinds)
             /\ <<"Detach">> \o Tail(signals) \in Seq(SignalKinds)
             /\ UNCHANGED <<connVars, chunk, jsVars, reqCallbacks, breaks, requests, crashed>>
  <2>1. <<"Detach">> \in Seq(SignalKinds)
    BY DEF SignalKinds
  <2>2. Tail(signals) \in Seq(SignalKinds)
    BY <1>0, <1>1, HeadTailProperties DEF NextSignal, SentType
  <2> QED BY <1>1, <2>1, <2>2, ConcatProperties DEF NextSignal
<1>2. ASSUME UNCHANGED jsVars PROVE ListsType(n)'
  BY <1>0, <1>2 DEF ListsType, jsVars
<1>3. ASSUME RunCommands, UNCHANGED reqCallbacks, signals' \in Seq(SignalKinds)
      PROVE  /\ SentType(n)' /\ MsgsType(Len(reqCallbacks))'
             /\ {armed', stepping', paused', held'} \subseteq BOOLEAN
  BY <1>0, <1>3, RunCommandsType DEF FlagsType
<1>4. CASE EnableRequestSignalCb \/ Detach
  <2>1. /\ UNCHANGED <<connVars, chunk, jsVars, reqCallbacks, breaks, requests, crashed, cmds, msgs>>
        /\ signals' \in Seq(SignalKinds)
    BY <1>1, <1>4 DEF EnableRequestSignalCb, Detach
  <2>2. SentType(n)' /\ MsgsType(Len(reqCallbacks))'
    BY <1>0, <2>1 DEF SentType, MsgsType
  <2>3. FlagsType'
    BY <1>0, <1>4, <2>1 DEF EnableRequestSignalCb, Detach, FlagsType, connVars, jsVars
  <2> QED BY <1>0, <1>2, <2>1, <2>2, <2>3, TypePartsNext
<1>5. CASE ProcessDebugMessagesCb \/ DisableRequestSignalCb
  <2>1. /\ UNCHANGED <<connVars, chunk, jsVars, reqCallbacks, breaks, requests, crashed,
                       handler, enableSig, disableSig>>
        /\ signals' \in Seq(SignalKinds)
        /\ RunCommands
    BY <1>1, <1>5 DEF ProcessDebugMessagesCb, DisableRequestSignalCb
  <2>2. FlagsType'
    BY <1>0, <1>3, <2>1 DEF FlagsType, connVars, jsVars
  <2> QED BY <1>0, <1>2, <1>3, <2>1, <2>2, TypePartsNext
<1>6. CASE ServePaused \/ Interrupt
  <2>1. /\ UNCHANGED <<connVars, chunk, jsVars, reqCallbacks, breaks, requests, crashed,
                       handler, enableSig, disableSig>>
        /\ signals' \in Seq(SignalKinds)
        /\ RunCommands
    BY <1>0, <1>6 DEF ServePaused, Interrupt, SentType
  <2>2. FlagsType'
    BY <1>0, <1>3, <2>1 DEF FlagsType, connVars, jsVars
  <2> QED BY <1>0, <1>2, <1>3, <2>1, <2>2, TypePartsNext
<1>7. CASE Break
  <2>1. /\ UNCHANGED <<connVars, chunk, jsVars, sentVars, enableSig, disableSig, handler,
                       armed, requests, crashed>>
        /\ breaks' = breaks + 1 /\ paused' = TRUE
        /\ stepping' = FALSE /\ held' \in BOOLEAN
        /\ msgs' = Append(msgs, [event |-> TRUE, id |-> 0])
    BY <1>7 DEF Break, StopsByItself, Gone
  <2>2. SentType(n)'
    BY <1>0, <2>1, UnsentType
  <2>3. MsgsType(Len(reqCallbacks))'
    <3>1. [event |-> TRUE, id |-> 0] \in Message(Len(reqCallbacks))
      BY <1>0 DEF Message, SentType
    <3> QED BY <1>0, <2>1, <3>1 DEF MsgsType, sentVars
  <2>4. FlagsType'
    <3>0. breaks' \in Nat
      BY <1>0, <2>1 DEF FlagsType
    <3>1. {stepping', paused', held'} \subseteq BOOLEAN
      BY <2>1
    <3>2. /\ conn' = conn /\ gen' = gen /\ enabled' = enabled /\ enableSig' = enableSig
          /\ disableSig' = disableSig /\ handler' = handler /\ armed' = armed
          /\ crashed' = crashed
      BY <2>1 DEF connVars, jsVars
    <3> QED BY <1>0, <3>0, <3>1, <3>2 DEF FlagsType
  <2> QED BY <1>0, <1>2, <2>1, <2>2, <2>3, <2>4, TypePartsNext
<1> QED
  BY <1>4, <1>5, <1>6, <1>7 DEF Signal

\* TypeOK holds initially.
LEMMA InitType == Init => TypeOK
<1> SUFFICES ASSUME Init PROVE TypeOK
  OBVIOUS
<1>1. <<>> \in Seq(1..0) /\ <<>> \in Seq(Kinds) /\ <<>> \in Seq(RequestType)
  OBVIOUS
<1>2. <<>> \in Seq(Entry(0)) /\ <<>> \in Seq(SignalKinds) /\ <<>> \in Seq(0..0)
      /\ <<>> \in Seq(Message(0)) /\ Len(<<>>) = 0
  OBVIOUS
<1> QED
  BY <1>1, <1>2, TypeParts DEF Init, FlagsType, ListsType, SentType, MsgsType

\* Every step keeps TypeOK.
LEMMA NextType == TypeOK /\ [Next]_vars => TypeOK'
<1> SUFFICES ASSUME TypeOK, [Next]_vars PROVE TypeOK'
  OBVIOUS
<1>1. CASE UNCHANGED vars
  BY <1>1 DEF vars, connVars, jsVars, sentVars, mainVars, TypeOK
<1>2. CASE Next
  BY <1>2, ConnectionType, LineType, CallbackType, MainType DEF Next
<1> QED BY <1>1, <1>2

\* Every state is well-typed, for any number of connections, lines and
\* breakpoints: in particular every id in V8's queue or in debugger_messages_
\* is 0 or indexes a callback that context.sendDebuggerRequest registered, so
\* onDebuggerMessage always finds one.
THEOREM TypeCorrect == Spec => []TypeOK
  BY InitType, NextType, PTL DEF Spec

==============================================================================
