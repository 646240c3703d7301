-------------------------- MODULE LockedQueueProofs --------------------------
(***************************************************************************)
(* Proofs about LockedQueue for every set of items, every set of producer  *)
(* threads and every bound: types, exclusion inside the mutex, no lost     *)
(* wake-up, and that the queue implements the mailbox (its safety part:    *)
(* the mailbox's fairness is model-checked).                               *)
(*                                                                         *)
(* The inductive invariant adds to the properties of LockedQueue where an  *)
(* item may be in the owner's hand.                                        *)
(***************************************************************************)
EXTENDS LockedQueue, SequenceTheorems, TLAPS

\* The owner holds one item exactly while its callback handles it.
HeldWhileHandling ==
  IF consumer = "handling" THEN \E i \in Items : held = <<i>> ELSE held = <<>>

IInv == TypeOK /\ LockHeldInside /\ HeldWhileHandling /\ NoLostWakeup

------------------------------------------------------------------------------

\* The hand of the owner is a short sequence.
LEMMA HandIsSeq ==
  ASSUME NEW S
  PROVE  <<>> \in Seq(S) /\ \A x \in S : <<x>> \in Seq(S)
  OBVIOUS

\* Pushing at the end of the list pushes at the end of the mailbox.
LEMMA AppendConcat ==
  ASSUME NEW S, NEW s \in Seq(S), NEW t \in Seq(S), NEW x \in S
  PROVE  s \o Append(t, x) = Append(s \o t, x)
  OBVIOUS

\* Moving the front of the list into the owner's hand leaves the mailbox as
\* it is.
LEMMA HeadTailConcat ==
  ASSUME NEW S, NEW s \in Seq(S), s # <<>>
  PROVE  /\ Head(s) \in S
         /\ Tail(s) \in Seq(S)
         /\ <<Head(s)>> \o Tail(s) = s
  BY HeadTailProperties

------------------------------------------------------------------------------

\* The empty queue.
LEMMA InitIInv == Init => IInv
<1> SUFFICES ASSUME Init PROVE IInv
  OBVIOUS
<1>1. TypeOK
  BY HandIsSeq DEF Init, TypeOK
<1>2. LockHeldInside /\ HeldWhileHandling /\ NoLostWakeup
  BY DEF Init, LockHeldInside, HeldWhileHandling, NoLostWakeup
<1> QED
  BY <1>1, <1>2 DEF IInv

\* A producer's steps keep the invariant: the mutex makes the list it read
\* the list it extends, and the pushed item is covered by its coming Send.
LEMMA PushIInv ==
  ASSUME IInv, NEW p \in Producers,
         Push(p) \/ \E i \in Items : CallPushBack(p, i)
  PROVE  IInv'
<1> USE ThreadsAssumption DEF IInv
<1>1. CASE \E i \in Items : CallPushBack(p, i)
  BY <1>1 DEF CallPushBack, TypeOK, LockHeldInside, HeldWhileHandling, NoLostWakeup
<1>2. CASE LockForPush(p)
  BY <1>2 DEF LockForPush, TypeOK, LockHeldInside, HeldWhileHandling, NoLostWakeup
<1>3. CASE PushAndUnlock(p)
  <2>1. TypeOK'
    BY <1>3 DEF PushAndUnlock, TypeOK
  <2>2. LockHeldInside'
    BY <1>3 DEF PushAndUnlock, TypeOK, LockHeldInside
  <2>3. HeldWhileHandling' /\ NoLostWakeup'
    BY <1>3 DEF PushAndUnlock, TypeOK, HeldWhileHandling, NoLostWakeup
  <2> QED
    BY <2>1, <2>2, <2>3
<1>4. CASE Send(p)
  BY <1>4 DEF Send, TypeOK, LockHeldInside, HeldWhileHandling, NoLostWakeup
<1> QED
  BY <1>1, <1>2, <1>3, <1>4 DEF Push

\* The owner's steps keep it: it goes to sleep only on an empty list.
LEMMA ConsumeIInv ==
  ASSUME IInv, Consume
  PROVE  IInv'
<1> USE ThreadsAssumption DEF IInv
<1>1. CASE Wake
  BY <1>1 DEF Wake, TypeOK, LockHeldInside, HeldWhileHandling, NoLostWakeup
<1>2. CASE LockForPop
  BY <1>2 DEF LockForPop, TypeOK, LockHeldInside, HeldWhileHandling, NoLostWakeup
<1>3. CASE PopNothing
  BY <1>3 DEF PopNothing, TypeOK, LockHeldInside, HeldWhileHandling, NoLostWakeup
<1>4. CASE PopSomething
  <2>1. Head(list) \in Items /\ Tail(list) \in Seq(Items)
    BY <1>4, HeadTailConcat DEF PopSomething, TypeOK
  <2>2. TypeOK' /\ HeldWhileHandling' /\ NoLostWakeup'
    BY <1>4, <2>1 DEF PopSomething, TypeOK, HeldWhileHandling, NoLostWakeup
  <2>3. LockHeldInside'
    BY <1>4 DEF PopSomething, LockHeldInside
  <2> QED
    BY <2>2, <2>3
<1>5. CASE Handle
  <2>1. held \in Seq(Items)
    BY <1>5, HandIsSeq DEF Handle, HeldWhileHandling
  <2>2. delivered' \in Seq(Items)
    BY <1>5, <2>1 DEF Handle, TypeOK
  <2> QED
    BY <1>5, <2>2 DEF Handle, TypeOK, LockHeldInside, HeldWhileHandling, NoLostWakeup
<1> QED
  BY <1>1, <1>2, <1>3, <1>4, <1>5 DEF Consume

\* One step of a producer or of the owner.
LEMMA NextIInv == IInv /\ [Next]_vars => IInv'
<1> SUFFICES ASSUME IInv, [Next]_vars PROVE IInv'
  OBVIOUS
<1>1. CASE UNCHANGED vars
  BY <1>1 DEF vars, IInv, TypeOK, LockHeldInside, HeldWhileHandling, NoLostWakeup
<1>2. CASE Next
  BY <1>2, PushIInv, ConsumeIInv DEF Next
<1> QED
  BY <1>1, <1>2

\* The inductive invariant holds always.
LEMMA InvariantIInv == Spec => []IInv
  BY InitIInv, NextIInv, PTL DEF Spec

------------------------------------------------------------------------------

\* Type correctness of LockedQueue; in particular PopFront hands out at most
\* one item at a time.
THEOREM TypeCorrect == Spec => []TypeOK
  BY InvariantIInv, PTL DEF IInv

\* Whoever is inside the mutex is there alone and works on the current list.
THEOREM Exclusion == Spec => []LockHeldInside
  BY InvariantIInv, PTL DEF IInv

\* No item ever sits in the list with its owner asleep and nobody to wake it.
THEOREM WakeupNotLost == Spec => []NoLostWakeup
  BY InvariantIInv, PTL DEF IInv

------------------------------------------------------------------------------

\* The empty queue is the empty mailbox.
LEMMA InitRefines == Init => Abstract!Init
  BY DEF Init, Abstract!Init

\* Each step of the queue is a Put, a Take or a stutter of the mailbox.
LEMMA NextRefines == IInv /\ [Next]_vars => [Abstract!Next]_(Abstract!mailVars)
<1> SUFFICES ASSUME IInv, [Next]_vars
             PROVE  [Abstract!Next]_(Abstract!mailVars)
  OBVIOUS
<1> USE DEF IInv, TypeOK, Abstract!mailVars
<1>1. ASSUME NEW p \in Producers, PushAndUnlock(p)
      PROVE  Abstract!Put(item[p])
  <2>1. list' = Append(list, item[p])
    BY <1>1 DEF PushAndUnlock, LockHeldInside
  <2>2. held' = held /\ delivered' = delivered
    BY <1>1 DEF PushAndUnlock
  <2>3. held \in Seq(Items) /\ item[p] \in Items
    BY HandIsSeq
  <2> QED
    BY <2>1, <2>2, <2>3, AppendConcat DEF Abstract!Put
<1>2. CASE PopSomething
  <2>1. held = <<>>
    BY <1>2 DEF PopSomething, HeldWhileHandling
  <2>2. held' = <<Head(list)>> /\ list' = Tail(list) /\ delivered' = delivered
    BY <1>2 DEF PopSomething
  <2>3. held \o list = list
    BY <2>1
  <2>4. held' \o list' = list
    BY <1>2, <2>2, HeadTailConcat DEF PopSomething
  <2> QED
    BY <2>2, <2>3, <2>4
<1>3. CASE Handle
  <2>1. PICK i \in Items : held = <<i>>
    BY <1>3 DEF Handle, HeldWhileHandling
  <2>2. /\ held \o list # <<>>
        /\ Head(held \o list) = i
        /\ Tail(held \o list) = list
    BY <2>1
  <2>3. held' \o list' = list
    BY <1>3 DEF Handle
  <2>4. delivered' = Append(delivered, i)
    BY <1>3, <2>1 DEF Handle
  <2> QED
    BY <2>2, <2>3, <2>4 DEF Abstract!Next, Abstract!Take
<1>4. ASSUME NEW p \in Producers, \E i \in Items : CallPushBack(p, i)
      PROVE  UNCHANGED Abstract!mailVars
  BY <1>4 DEF CallPushBack
<1>5. ASSUME NEW p \in Producers, LockForPush(p) \/ Send(p)
      PROVE  UNCHANGED Abstract!mailVars
  BY <1>5 DEF LockForPush, Send
<1>6. CASE Wake \/ LockForPop \/ PopNothing
  BY <1>6 DEF Wake, LockForPop, PopNothing
<1>7. CASE UNCHANGED vars
  BY <1>7 DEF vars
<1> QED
  BY <1>1, <1>2, <1>3, <1>4, <1>5, <1>6, <1>7 DEF Next, Push, Consume, Abstract!Next

\* The queue implements the mailbox: items reach the owner in the order in
\* which they were pushed, none lost, none doubled.
THEOREM RefinesMailbox == Spec => Abstract!Spec
  BY InitRefines, InvariantIInv, NextRefines, PTL DEF Spec, Abstract!Spec

=============================================================================
