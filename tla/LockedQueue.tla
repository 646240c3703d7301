----------------------------- MODULE LockedQueue -----------------------------
(***************************************************************************)
(* LockedQueue<T, R> (src/src/locked-queue-inl.h): a std::deque guarded by *)
(* a mutex, and an AsyncWrap that wakes the event loop of the owner R.     *)
(* The code has two of them: Controller::signals_ (pushed by the worker    *)
(* thread, drained by the main thread) and Worker::debugger_messages_      *)
(* (pushed by the main thread, drained by the worker thread).              *)
(*                                                                         *)
(* PushBack takes the lock, appends, releases the lock, and only then      *)
(* calls AsyncWrap::Send.  Send is uv_async_send: any number of calls made *)
(* before the loop gets round to them become ONE callback.  The owner's    *)
(* callback therefore pops until PopFront returns Nothing                  *)
(* (controller.cc:138-170, worker.cc:341-347).  Initialisation and closing *)
(* of the queue belong to Lifecycle.tla.                                   *)
(***************************************************************************)
EXTENDS Naturals, Sequences

CONSTANTS
  Items,            \* values that are pushed
  Producers,        \* threads that call PushBack
  Consumer,         \* the thread whose event loop owns the queue
  NoThread,         \* the value of lock when nobody holds the mutex
  MaxItems          \* bound for TLC: no push starts once so many are in

ASSUME ThreadsAssumption ==
  /\ Consumer \notin Producers
  /\ NoThread \notin Producers \cup {Consumer}

ASSUME MaxItemsAssumption == MaxItems \in Nat

VARIABLES
  list,             \* list_
  lock,             \* lock_: the thread inside the mutex, or NoThread
  pending,          \* signal_: uv_async_send was called and not yet served
  pc,               \* where each producer is in PushBack
  item,             \* the argument of each producer's PushBack
  seen,             \* list_ as each producer's push_back read it
  consumer,         \* where the owner is in its callback
  held,             \* <<>>, or the one item PopFront has copied out
  delivered         \* history: items handled by the owner, in order

vars == <<list, lock, pending, pc, item, seen, consumer, held, delivered>>

Init ==
  /\ list = <<>>
  /\ lock = NoThread
  /\ pending = FALSE
  /\ pc = [p \in Producers |-> "idle"]
  /\ item \in [Producers -> Items]
  /\ seen = [p \in Producers |-> <<>>]
  /\ consumer = "waiting"
  /\ held = <<>>
  /\ delivered = <<>>

------------------------------------------------------------------------------
(* PushBack(item), one step per access to what the threads share.          *)

\* The call: a producer enters with some item.
CallPushBack(p, i) ==
  /\ pc[p] = "idle"
  /\ Len(delivered) + Len(held) + Len(list) < MaxItems
  /\ pc' = [pc EXCEPT ![p] = "locking"]
  /\ item' = [item EXCEPT ![p] = i]
  /\ UNCHANGED <<list, lock, pending, seen, consumer, held, delivered>>

\* Mutant: the guard of PushBack is gone.
LockForPushUnguarded(p) ==
  /\ pc[p] = "locking"
  /\ lock' = p
  /\ seen' = [seen EXCEPT ![p] = list]
  /\ pc' = [pc EXCEPT ![p] = "pushing"]
  /\ UNCHANGED <<list, pending, item, consumer, held, delivered>>

\* MutexWrap::Scope guard(&lock_), and push_back reads the end of the list.
LockForPush(p) ==
  /\ pc[p] = "locking"
  /\ lock = NoThread
  /\ lock' = p
  /\ seen' = [seen EXCEPT ![p] = list]
  /\ pc' = [pc EXCEPT ![p] = "pushing"]
  /\ UNCHANGED <<list, pending, item, consumer, held, delivered>>

\* Mutant: the item is linked at the wrong end.
PushFrontAndUnlock(p) ==
  /\ pc[p] = "pushing"
  /\ list' = <<item[p]>> \o seen[p]
  /\ lock' = NoThread
  /\ pc' = [pc EXCEPT ![p] = "sending"]
  /\ UNCHANGED <<pending, item, seen, consumer, held, delivered>>

\* push_back links the item behind the end it read; the guard goes away.
PushAndUnlock(p) ==
  /\ pc[p] = "pushing"
  /\ list' = Append(seen[p], item[p])
  /\ lock' = NoThread
  /\ pc' = [pc EXCEPT ![p] = "sending"]
  /\ UNCHANGED <<pending, item, seen, consumer, held, delivered>>

\* signal_.Send(), outside the lock.
Send(p) ==
  /\ pc[p] = "sending"
  /\ pending' = TRUE
  /\ pc' = [pc EXCEPT ![p] = "idle"]
  /\ UNCHANGED <<list, lock, item, seen, consumer, held, delivered>>

------------------------------------------------------------------------------
(* The owner's callback.                                                   *)

\* The event loop serves the async handle: the mark is cleared first.
Wake ==
  /\ consumer = "waiting"
  /\ pending
  /\ pending' = FALSE
  /\ consumer' = "popping"
  /\ UNCHANGED <<list, lock, pc, item, seen, held, delivered>>

\* PopFront takes the lock.
LockForPop ==
  /\ consumer = "popping"
  /\ lock = NoThread
  /\ lock' = Consumer
  /\ consumer' = "looking"
  /\ UNCHANGED <<list, pending, pc, item, seen, held, delivered>>

\* PopFront finds the list empty and returns Nothing: the callback ends.
PopNothing ==
  /\ consumer = "looking"
  /\ list = <<>>
  /\ lock' = NoThread
  /\ consumer' = "waiting"
  /\ UNCHANGED <<list, pending, pc, item, seen, held, delivered>>

\* Mutant: the callback takes everything that is there in one go.
PopAll ==
  /\ consumer = "looking"
  /\ list # <<>>
  /\ held' = list
  /\ list' = <<>>
  /\ lock' = NoThread
  /\ consumer' = "handling"
  /\ UNCHANGED <<pending, pc, item, seen, delivered>>

\* PopFront copies the front out and removes it.
PopSomething ==
  /\ consumer = "looking"
  /\ list # <<>>
  /\ held' = <<Head(list)>>
  /\ list' = Tail(list)
  /\ lock' = NoThread
  /\ consumer' = "handling"
  /\ UNCHANGED <<pending, pc, item, seen, delivered>>

\* Mutant: one item per wake-up, the drain loop is gone.
HandleOne ==
  /\ consumer = "handling"
  /\ delivered' = delivered \o held
  /\ held' = <<>>
  /\ consumer' = "waiting"
  /\ UNCHANGED <<list, lock, pending, pc, item, seen>>

\* The callback acts on the item and goes round its loop.
Handle ==
  /\ consumer = "handling"
  /\ delivered' = delivered \o held
  /\ held' = <<>>
  /\ consumer' = "popping"
  /\ UNCHANGED <<list, lock, pending, pc, item, seen>>

------------------------------------------------------------------------------
Push(p) == LockForPush(p) \/ PushAndUnlock(p) \/ Send(p)

Consume == Wake \/ LockForPop \/ PopNothing \/ PopSomething \/ Handle

Next ==
  \/ \E p \in Producers : \/ \E i \in Items : CallPushBack(p, i)
                          \/ Push(p)
  \/ Consume

Spec == Init /\ [][Next]_vars

\* Both threads keep running: a PushBack that was called returns, and the
\* owner's event loop serves its handles.  Nobody has to call PushBack.
FairSpec ==
  /\ Spec
  /\ \A p \in Producers : WF_vars(Push(p))
  /\ WF_vars(Consume)

------------------------------------------------------------------------------
(* Properties.                                                             *)

TypeOK ==
  /\ list \in Seq(Items)
  /\ lock \in Producers \cup {Consumer, NoThread}
  /\ pending \in BOOLEAN
  /\ pc \in [Producers -> {"idle", "locking", "pushing", "sending"}]
  /\ item \in [Producers -> Items]
  /\ seen \in [Producers -> Seq(Items)]
  /\ consumer \in {"waiting", "popping", "looking", "handling"}
  /\ held \in {<<>>} \cup {<<i>> : i \in Items}
  /\ delivered \in Seq(Items)

\* Whoever is inside the mutex is there alone, and what its push_back read
\* is still the list when it links the new item (MutexWrap::Scope in both
\* PushBack and PopFront).
LockHeldInside ==
  /\ \A p \in Producers : pc[p] = "pushing" => lock = p /\ seen[p] = list
  /\ consumer = "looking" => lock = Consumer

\* No lost wake-up: whenever an item is in the list while the owner sleeps,
\* the owner is going to be woken, or the thread that pushed is about to do
\* it.  It relates the unlocked Send, its coalescing, and the owner's
\* loop-until-empty.
NoLostWakeup ==
  list # <<>> /\ consumer = "waiting" =>
    pending \/ \E p \in Producers : pc[p] = "sending"

\* The queue does what a mailbox promises: what was pushed and not handled
\* is the item in the owner's hand followed by the list.
Abstract == INSTANCE Mailbox WITH queue <- held \o list

\* The detailed queue implements the mailbox, its fairness included: order
\* kept, no item lost, doubled or forgotten.
ImplementsMailbox == Abstract!FairSpec

=============================================================================
