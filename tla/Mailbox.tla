------------------------------- MODULE Mailbox -------------------------------
(***************************************************************************)
(* What the owner of a LockedQueue relies on: items put by any thread      *)
(* reach the owner's callback in the order in which they were put, each    *)
(* exactly once, and none is left behind.  LockedQueue.tla is the detailed *)
(* description of src/src/locked-queue-inl.h that implements this one.     *)
(***************************************************************************)
EXTENDS Sequences

CONSTANT Items      \* the values the queue carries (signals, V8 messages)

VARIABLES
  queue,            \* items put and not yet handled
  delivered         \* history: items handled by the owner, in order

mailVars == <<queue, delivered>>

Init ==
  /\ queue = <<>>
  /\ delivered = <<>>

\* A thread's PushBack.
Put(i) ==
  /\ queue' = Append(queue, i)
  /\ UNCHANGED delivered

\* The owner's callback handles the oldest item.
Take ==
  /\ queue # <<>>
  /\ delivered' = Append(delivered, Head(queue))
  /\ queue' = Tail(queue)

Next == (\E i \in Items : Put(i)) \/ Take

Spec == Init /\ [][Next]_mailVars

\* Nothing stays in the queue for ever.
FairSpec == Spec /\ WF_mailVars(Take)

=============================================================================
