------------------------------ MODULE Lifecycle ------------------------------
(***************************************************************************)
(* Starting and stopping the debugger: the module's JavaScript API         *)
(* (src/index.js), the binding (src/src/debugger.cc), the Controller on    *)
(* the main thread and the Worker with its background thread.              *)
(*                                                                         *)
(* What Session.tla leaves out is here: two threads that create, use and   *)
(* close each other's async handles.  So the main thread's test of         *)
(* running_ and its Send are two steps, and so are a worker's push onto    *)
(* signals_ and its Send (LockedQueue::PushBack).  What a client does is   *)
(* kept to the signals it causes: Enable while connected, Disable when it  *)
(* goes, and the Enable of a line that comes after `{ "close": true }` in  *)
(* the same chunk of data.                                                 *)
(*                                                                         *)
(* Every successful start makes a new Controller with its own Worker; the  *)
(* old ones are never deleted.  Instances are numbered in that order.      *)
(***************************************************************************)
EXTENDS Naturals, Sequences, SequencesExt

CONSTANTS
  MaxInstances,     \* bound: Controllers created
  MaxCalls,         \* bound: calls of start and stop
  MaxConnects       \* bound: clients that connect

ASSUME BoundsAssumption == {MaxInstances, MaxCalls, MaxConnects} \subseteq Nat

Instances == 1..MaxInstances
None == 0

VARIABLES
  \* index.js
  listening,        \* listeningOnPort > 0
  startCbs,         \* startCallbacks, as the calls they came with
  stopCbs,          \* stopCallbacks
  calls,            \* every call made: what was called, how it was answered
  \* Controller, on the main thread
  singleton,        \* the instance GetInstance returns, or None
  created,          \* how many instances there are
  sigHandle,        \* signals_'s async handle: "none", "open" or "closed"
  sigRef,           \* ... keeps the main event loop alive
  sigPending,       \* ... was sent and not yet served
  sigs,             \* signals_'s items
  main,             \* where the main thread is: see Idle
  handler,          \* V8 has MessageHandler installed
  \* Worker, one thread per instance
  startResult,      \* start_result_: "ok" or "error"
  worker,           \* where the thread is
  sending,          \* the thread has pushed a signal and not called Send yet
  running,          \* running_
  asyncs,           \* its async handles: "none", "open" or "closed"
  stopSig,          \* stop_signal_ is pending
  client,           \* its connection: "none", "open", "enabled", "closing", or
                    \* "lines": closing, and ClientDataCb has an enable left
  connects,         \* clients that came so far (for the bound)
  rejected,         \* a RejectedClient: "none", "writing" or "closing"
  \* observation
  lateEnable,       \* the last that any thread pushed on behalf of a client
                    \* is an Enable from after its close
  crashed           \* Send was called on a handle that is closed

jsVars   == <<listening, startCbs, stopCbs, calls>>
sigVars  == <<sigHandle, sigRef, sigPending, sigs>>
ctlVars  == <<singleton, created, handler>>
thrVars  == <<worker, running, client>>
connVars == <<connects, rejected, lateEnable>>
vars == <<jsVars, sigVars, ctlVars, main, startResult, thrVars, sending,
          asyncs, stopSig, connVars, crashed>>

Idle == [at |-> "idle", inst |-> None, shutdown |-> FALSE]

Init ==
  /\ listening = FALSE
  /\ startCbs = <<>>
  /\ stopCbs = <<>>
  /\ calls = <<>>
  /\ singleton = None
  /\ created = 0
  /\ sigHandle = [i \in Instances |-> "none"]
  /\ sigRef = [i \in Instances |-> FALSE]
  /\ sigPending = [i \in Instances |-> FALSE]
  /\ sigs = [i \in Instances |-> <<>>]
  /\ main = Idle
  /\ handler = FALSE
  /\ startResult = [i \in Instances |-> "ok"]
  /\ worker = [i \in Instances |-> "none"]
  /\ sending = [i \in Instances |-> FALSE]
  /\ running = [i \in Instances |-> FALSE]
  /\ asyncs = [i \in Instances |-> "none"]
  /\ stopSig = [i \in Instances |-> FALSE]
  /\ client = [i \in Instances |-> "none"]
  /\ connects = 0
  /\ rejected = [i \in Instances |-> "none"]
  /\ lateEnable = FALSE
  /\ crashed = FALSE

------------------------------------------------------------------------------
(* The API.  A callback that calls the API again does so in a step of its  *)
(* own: index.js swaps its lists before it calls anybody.                  *)

MainIdle == main = Idle /\ ~crashed

\* cs, after each call in C has been answered with result.
Answer(cs, C, result) ==
  [c \in DOMAIN cs |->
     IF c \in C THEN [cs[c] EXCEPT !.answers = Append(@, result)] ELSE cs[c]]

Called(op, answers) == Append(calls, [op |-> op, answers |-> answers])

NewCall == Len(calls) + 1

CallApi == MainIdle /\ Len(calls) < MaxCalls

\* start() while the thread is there: answered at the next tick.
StartAgain ==
  /\ CallApi
  /\ listening
  /\ calls' = Called("start", <<"ok">>)
  /\ UNCHANGED <<listening, startCbs, stopCbs, sigVars, ctlVars, main,
                 startResult, thrVars, sending, asyncs, stopSig, connVars, crashed>>

\* start() while another start is under way: wait with it.
StartJoin ==
  /\ CallApi
  /\ ~listening
  /\ startCbs # <<>>
  /\ startCbs' = Append(startCbs, NewCall)
  /\ calls' = Called("start", <<>>)
  /\ UNCHANGED <<listening, stopCbs, sigVars, ctlVars, main, startResult,
                 thrVars, sending, asyncs, stopSig, connVars, crashed>>

\* start() that ends before anything is under way: the binding throws on a
\* bad option, or calls back with an error at once because there is a
\* Controller already, or because its signals_ cannot be initialised.
StartRefused ==
  /\ CallApi
  /\ ~listening
  /\ startCbs = <<>>
  /\ \E how \in {"thrown", "error"} : calls' = Called("start", <<how>>)
  /\ UNCHANGED <<listening, startCbs, stopCbs, sigVars, ctlVars, main,
                 startResult, thrVars, sending, asyncs, stopSig, connVars, crashed>>

\* start() that makes a Controller and gets as far as Worker::Start.
StartBegins(i) ==
  /\ CallApi
  /\ ~listening
  /\ startCbs = <<>>
  /\ singleton = None
  /\ i = created + 1
  /\ created' = i
  /\ singleton' = i
  /\ startCbs' = <<NewCall>>
  /\ calls' = Called("start", <<>>)
  /\ sigHandle' = [sigHandle EXCEPT ![i] = "open"]
  /\ sigRef' = [sigRef EXCEPT ![i] = TRUE]
  /\ UNCHANGED <<listening, stopCbs, handler, main, running, client, sending,
                 stopSig, connVars, crashed>>

\* Worker::Start fails (scripts, isolate, port taken, thread): its handles
\* are closed and the main thread itself signals WorkerStarted.
StartFails(i) ==
  /\ StartBegins(i)
  /\ startResult' = [startResult EXCEPT ![i] = "error"]
  /\ sigs' = [sigs EXCEPT ![i] = Append(@, "WorkerStarted")]
  /\ sigPending' = [sigPending EXCEPT ![i] = TRUE]
  /\ asyncs' = [asyncs EXCEPT ![i] = "closed"]
  /\ UNCHANGED worker

\* Worker::Start succeeds: handles open, the thread created.
StartThread(i) ==
  /\ StartBegins(i)
  /\ asyncs' = [asyncs EXCEPT ![i] = "open"]
  /\ worker' = [worker EXCEPT ![i] = "announce"]
  /\ UNCHANGED <<startResult, sigs, sigPending>>

\* stop() when no thread is known: answered at the next tick.
StopNothing ==
  /\ CallApi
  /\ ~listening
  /\ calls' = Called("stop", <<"ok">>)
  /\ UNCHANGED <<listening, startCbs, stopCbs, sigVars, ctlVars, main,
                 startResult, thrVars, sending, asyncs, stopSig, connVars, crashed>>

\* Mutant: signals_ is not referenced again.
StopUnref ==
  /\ CallApi
  /\ listening
  /\ stopCbs' = Append(stopCbs, NewCall)
  /\ calls' = Called("stop", <<>>)
  /\ stopSig' = [stopSig EXCEPT ![singleton] = TRUE]
  /\ crashed' = (asyncs[singleton] # "open")
  /\ UNCHANGED <<listening, startCbs, sigVars, ctlVars, main, startResult,
                 thrVars, sending, asyncs, connVars>>

\* Mutant: the port is forgotten when stopping begins, not when it is done.
StopForgets ==
  /\ CallApi
  /\ listening
  /\ listening' = FALSE
  /\ stopCbs' = Append(stopCbs, NewCall)
  /\ calls' = Called("stop", <<>>)
  /\ sigRef' = [sigRef EXCEPT ![singleton] = TRUE]
  /\ stopSig' = [stopSig EXCEPT ![singleton] = TRUE]
  /\ crashed' = (asyncs[singleton] # "open")
  /\ UNCHANGED <<startCbs, sigHandle, sigPending, sigs, ctlVars,
                 main, startResult, thrVars, sending, asyncs, connVars>>

\* stop(): the first one refs signals_ and sends the stop signal, the others
\* wait with it.
Stop ==
  /\ CallApi
  /\ listening
  /\ stopCbs' = Append(stopCbs, NewCall)
  /\ calls' = Called("stop", <<>>)
  /\ \/ /\ stopCbs # <<>>
        /\ UNCHANGED <<sigRef, stopSig, crashed>>
     \/ /\ stopCbs = <<>>
        /\ sigRef' = [sigRef EXCEPT ![singleton] = TRUE]
        /\ stopSig' = [stopSig EXCEPT ![singleton] = TRUE]
        /\ crashed' = (asyncs[singleton] # "open")
  /\ UNCHANGED <<listening, startCbs, sigHandle, sigPending, sigs, ctlVars,
                 main, startResult, thrVars, sending, asyncs, connVars>>

------------------------------------------------------------------------------
(* The main thread: Controller::SignalsAvailableCb.                        *)

\* The event loop serves signals_ of instance i.
Wake(i) ==
  /\ MainIdle
  /\ sigHandle[i] = "open"
  /\ sigPending[i]
  /\ sigPending' = [sigPending EXCEPT ![i] = FALSE]
  /\ main' = [at |-> "popping", inst |-> i, shutdown |-> FALSE]
  /\ UNCHANGED <<jsVars, sigHandle, sigRef, sigs, ctlVars, startResult,
                 thrVars, sending, asyncs, stopSig, connVars, crashed>>

Pop(i, s) ==
  /\ ~crashed
  /\ main.at = "popping"
  /\ main.inst = i
  /\ sigs[i] # <<>>
  /\ Head(sigs[i]) = s
  /\ sigs' = [sigs EXCEPT ![i] = Tail(@)]
  /\ UNCHANGED <<sigHandle, sigPending, singleton, created, startResult,
                 thrVars, sending, asyncs, stopSig, connVars, crashed, stopCbs>>

\* Mutant: onStarted notes the port before it looks at the error.
PopStartedRegardless(i) ==
  /\ Pop(i, "WorkerStarted")
  /\ sigRef' = [sigRef EXCEPT ![i] = FALSE]
  /\ listening' = TRUE
  /\ calls' = Answer(calls, ToSet(startCbs), startResult[i])
  /\ startCbs' = <<>>
  /\ UNCHANGED <<handler, main>>

\* Mutant: the start callbacks are not called when the start failed.
PopStartedSilent(i) ==
  /\ Pop(i, "WorkerStarted")
  /\ sigRef' = [sigRef EXCEPT ![i] = FALSE]
  /\ listening' = (startResult[i] = "ok")
  /\ IF startResult[i] = "ok"
     THEN calls' = Answer(calls, ToSet(startCbs), "ok") /\ startCbs' = <<>>
     ELSE UNCHANGED <<calls, startCbs>>
  /\ UNCHANGED <<handler, main>>

\* WorkerStartedSignalCb, StartCallback and onStarted.
PopStarted(i) ==
  /\ Pop(i, "WorkerStarted")
  /\ sigRef' = [sigRef EXCEPT ![i] = FALSE]
  /\ listening' = (listening \/ startResult[i] = "ok")
  /\ calls' = Answer(calls, ToSet(startCbs), startResult[i])
  /\ startCbs' = <<>>
  /\ UNCHANGED <<handler, main>>

\* Enable- and DisableRequestSignalCb: the handler is switched; the response
\* is due if the worker is running at this moment.
PopRequest(i) ==
  /\ \E s \in {"Enable", "Disable"} :
       /\ Pop(i, s)
       /\ handler' = (s = "Enable")
  /\ main' = IF running[i] THEN [main EXCEPT !.at = "responding"] ELSE main
  /\ UNCHANGED <<sigRef, listening, startCbs, calls>>

\* ... and Send comes after the test of running_.
SendResponse(i) ==
  /\ ~crashed
  /\ main.at = "responding"
  /\ main.inst = i
  /\ main' = [main EXCEPT !.at = "popping"]
  /\ crashed' = (asyncs[i] # "open")
  /\ UNCHANGED <<jsVars, sigVars, ctlVars, startResult, thrVars, sending,
                 asyncs, stopSig, connVars>>

\* WorkerStopped: wait until all signals are processed.
PopStopped(i) ==
  /\ Pop(i, "WorkerStopped")
  /\ main' = [main EXCEPT !.shutdown = TRUE]
  /\ UNCHANGED <<sigRef, listening, startCbs, calls, handler>>

\* Mutant: the local variables of the drain loop survive it.
DrainEndsStale(i) ==
  /\ ~crashed
  /\ main = [at |-> "popping", inst |-> i, shutdown |-> FALSE]
  /\ sigs[i] = <<>>
  /\ main' = [main EXCEPT !.at = "idle"]
  /\ UNCHANGED <<jsVars, sigVars, ctlVars, startResult, thrVars, sending,
                 asyncs, stopSig, connVars, crashed>>

\* signals_ is empty: back to the event loop, ...
DrainEnds(i) ==
  /\ ~crashed
  /\ main = [at |-> "popping", inst |-> i, shutdown |-> FALSE]
  /\ sigs[i] = <<>>
  /\ main' = Idle
  /\ UNCHANGED <<jsVars, sigVars, ctlVars, startResult, thrVars, sending,
                 asyncs, stopSig, connVars, crashed>>

\* Mutant: Cleanup leaves the singleton.
ShutDownKeepsController(i) ==
  /\ ~crashed
  /\ main = [at |-> "popping", inst |-> i, shutdown |-> TRUE]
  /\ sigs[i] = <<>>
  /\ main' = Idle
  /\ sigRef' = [sigRef EXCEPT ![i] = FALSE]
  /\ sigHandle' = [sigHandle EXCEPT ![i] = "closed"]
  /\ listening' = FALSE
  /\ calls' = Answer(calls, ToSet(stopCbs), "ok")
  /\ stopCbs' = <<>>
  /\ UNCHANGED <<startCbs, sigPending, sigs, ctlVars,
                 startResult, thrVars, sending, asyncs, stopSig, connVars, crashed>>

\* Mutant: onStopped calls its callbacks but keeps the list.
ShutDownKeepsList(i) ==
  /\ ~crashed
  /\ main = [at |-> "popping", inst |-> i, shutdown |-> TRUE]
  /\ sigs[i] = <<>>
  /\ main' = Idle
  /\ sigRef' = [sigRef EXCEPT ![i] = FALSE]
  /\ sigHandle' = [sigHandle EXCEPT ![i] = "closed"]
  /\ singleton' = None
  /\ listening' = FALSE
  /\ calls' = Answer(calls, ToSet(stopCbs), "ok")
  /\ UNCHANGED <<startCbs, stopCbs, sigPending, sigs, created, handler,
                 startResult, thrVars, sending, asyncs, stopSig, connVars, crashed>>

\* ... after WorkerStoppedSignalCb, Cleanup, StopCallback and onStopped if
\* the worker is through.
ShutDown(i) ==
  /\ ~crashed
  /\ main = [at |-> "popping", inst |-> i, shutdown |-> TRUE]
  /\ sigs[i] = <<>>
  /\ main' = Idle
  /\ sigRef' = [sigRef EXCEPT ![i] = FALSE]
  /\ sigHandle' = [sigHandle EXCEPT ![i] = "closed"]
  /\ singleton' = None
  /\ listening' = FALSE
  /\ calls' = Answer(calls, ToSet(stopCbs), "ok")
  /\ stopCbs' = <<>>
  /\ UNCHANGED <<startCbs, sigPending, sigs, created, handler, startResult,
                 thrVars, sending, asyncs, stopSig, connVars, crashed>>

------------------------------------------------------------------------------
(* The worker's thread of instance i: Worker::ThreadCb and Run.            *)

\* The thread is between two callbacks, at a place in S.
At(i, S) ==
  worker[i] \in S /\ ~sending[i] /\ client[i] # "lines" /\ ~crashed

\* Controller::Signal*: push, the Send is the next step of the thread.
Push(i, s) ==
  /\ sigs' = [sigs EXCEPT ![i] = Append(@, s)]
  /\ sending' = [sending EXCEPT ![i] = TRUE]

Goto(i, at) == worker' = [worker EXCEPT ![i] = at]

FromThread ==
  UNCHANGED <<jsVars, ctlVars, main, startResult, sigHandle, sigRef>>

SendSignal(i) ==
  /\ ~crashed
  /\ sending[i]
  /\ sending' = [sending EXCEPT ![i] = FALSE]
  /\ sigPending' = [sigPending EXCEPT ![i] = TRUE]
  /\ crashed' = (sigHandle[i] # "open")
  /\ FromThread
  /\ UNCHANGED <<sigs, thrVars, asyncs, stopSig, connVars>>

Announce(i) ==
  /\ At(i, {"announce"})
  /\ Push(i, "WorkerStarted")
  /\ Goto(i, "begin")
  /\ FromThread
  /\ UNCHANGED <<sigPending, running, client, asyncs, stopSig, connVars, crashed>>

Begin(i) ==
  /\ At(i, {"begin"})
  /\ running' = [running EXCEPT ![i] = TRUE]
  /\ Goto(i, "loop")
  /\ FromThread
  /\ UNCHANGED <<sigPending, sigs, sending, client, asyncs, stopSig, connVars, crashed>>

\* The event loop turns in both uv_run calls of Run: while serving, and
\* while waiting for client handles to close.
Serving == {"loop", "drain"}

\* ServerConnectionCb.
Connect(i) ==
  /\ At(i, Serving)
  /\ client[i] = "none"
  /\ connects < MaxConnects
  /\ connects' = connects + 1
  /\ client' = [client EXCEPT ![i] = "open"]
  /\ FromThread
  /\ UNCHANGED <<sigPending, sigs, sending, worker, running, asyncs, stopSig, rejected,
                 lateEnable, crashed>>

\* ServerConnectionCb while there is a client: RejectedClient tells it off, or
\* cannot accept it and closes the handle at once.
Reject(i) ==
  /\ At(i, Serving)
  /\ client[i] # "none"
  /\ rejected[i] = "none"
  /\ connects < MaxConnects
  /\ connects' = connects + 1
  /\ \E how \in {"writing", "closing"} : rejected' = [rejected EXCEPT ![i] = how]
  /\ FromThread
  /\ UNCHANGED <<sigPending, sigs, sending, thrVars, asyncs, stopSig, lateEnable,
                 crashed>>

\* Mutant: the handle stays open.
WriteCbKeepsHandle(i) ==
  /\ At(i, Serving)
  /\ rejected[i] = "writing"
  /\ rejected' = [rejected EXCEPT ![i] = "written"]
  /\ FromThread
  /\ UNCHANGED <<sigPending, sigs, sending, thrVars, asyncs, stopSig, connects, lateEnable,
                 crashed>>

\* RejectedClient::WriteCb: written or not, the handle is closed.
WriteCb(i) ==
  /\ At(i, Serving)
  /\ rejected[i] = "writing"
  /\ rejected' = [rejected EXCEPT ![i] = "closing"]
  /\ FromThread
  /\ UNCHANGED <<sigPending, sigs, sending, thrVars, asyncs, stopSig, connects, lateEnable,
                 crashed>>

\* RejectedClient::CloseCb.
CloseCb(i) ==
  /\ At(i, Serving)
  /\ rejected[i] = "closing"
  /\ rejected' = [rejected EXCEPT ![i] = "none"]
  /\ FromThread
  /\ UNCHANGED <<sigPending, sigs, sending, thrVars, asyncs, stopSig, connects, lateEnable,
                 crashed>>

\* A connected client enables the debugger.
ClientEnables(i) ==
  /\ At(i, Serving)
  /\ client[i] = "open"
  /\ client' = [client EXCEPT ![i] = "enabled"]
  /\ Push(i, "Enable")
  /\ FromThread
  /\ UNCHANGED <<sigPending, worker, running, asyncs, stopSig, connVars, crashed>>

\* It goes: CloseClientConnection, from ClientErrorCb, or for the line
\* `{ "close": true }`, which an enable may follow in the same chunk.
ClientLeaves(i) ==
  /\ At(i, Serving)
  /\ client[i] \in {"open", "enabled"}
  /\ \E next \in {"closing", "lines"} : client' = [client EXCEPT ![i] = next]
  /\ Push(i, "Disable")
  /\ lateEnable' = FALSE
  /\ FromThread
  /\ UNCHANGED <<sigPending, worker, running, asyncs, stopSig, connects, rejected,
                 crashed>>

\* ClientDataCb goes on: the enable after the close.
LateEnable(i) ==
  /\ worker[i] \in Serving
  /\ ~sending[i]
  /\ ~crashed
  /\ client[i] = "lines"
  /\ client' = [client EXCEPT ![i] = "closing"]
  /\ Push(i, "Enable")
  /\ lateEnable' = TRUE
  /\ FromThread
  /\ UNCHANGED <<sigPending, worker, running, asyncs, stopSig, connects, rejected,
                 crashed>>

ClientClosed(i) ==
  /\ At(i, Serving)
  /\ client[i] = "closing"
  /\ client' = [client EXCEPT ![i] = "none"]
  /\ FromThread
  /\ UNCHANGED <<sigPending, sigs, sending, worker, running, asyncs, stopSig,
                 connVars, crashed>>

\* StopSignalCb, uv_stop, and the first uv_run returns.  It has run the
\* close callbacks of its last turn: no connection is closing.
StopSignalCb(i) ==
  /\ At(i, {"loop"})
  /\ stopSig[i]
  /\ "closing" \notin {client[i], rejected[i]}
  /\ stopSig' = [stopSig EXCEPT ![i] = FALSE]
  /\ Goto(i, "closeClient")
  /\ FromThread
  /\ UNCHANGED <<sigPending, sigs, sending, running, client, asyncs, connVars, crashed>>

\* Mutant: Run does not close the connection.
KeepClient(i) ==
  /\ At(i, {"closeClient"})
  /\ Goto(i, "cleanup")
  /\ UNCHANGED <<client, sigs, sending>>
  /\ FromThread
  /\ UNCHANGED <<sigPending, running, asyncs, stopSig, connVars, crashed>>

\* CloseClientConnection in Run, server_.Unref.
CloseClient(i) ==
  /\ At(i, {"closeClient"})
  /\ Goto(i, "drain")
  /\ \/ /\ client[i] = "none"
        /\ UNCHANGED <<client, sigs, sending, lateEnable>>
     \/ /\ client[i] # "none"
        /\ client' = [client EXCEPT ![i] = "closing"]
        /\ Push(i, "Disable")
        /\ lateEnable' = FALSE
  /\ FromThread
  /\ UNCHANGED <<sigPending, running, asyncs, stopSig, connects, rejected, crashed>>

\* Nothing keeps the second uv_run alive: running_ = false.
LeaveRun(i) ==
  /\ At(i, {"drain"})
  /\ {client[i], rejected[i]} = {"none"}
  /\ running' = [running EXCEPT ![i] = FALSE]
  /\ Goto(i, "cleanup")
  /\ FromThread
  /\ UNCHANGED <<sigPending, sigs, sending, client, asyncs, stopSig, connVars, crashed>>

\* Worker::Cleanup.
Cleanup(i) ==
  /\ At(i, {"cleanup"})
  /\ asyncs' = [asyncs EXCEPT ![i] = "closed"]
  /\ Goto(i, "farewell")
  /\ FromThread
  /\ UNCHANGED <<sigPending, sigs, sending, running, client, stopSig, connVars, crashed>>

\* Mutant: the last signal is pushed, nobody is woken.
FarewellUnsent(i) ==
  /\ At(i, {"farewell"})
  /\ sigs' = [sigs EXCEPT ![i] = Append(@, "WorkerStopped")]
  /\ Goto(i, "done")
  /\ FromThread
  /\ UNCHANGED <<sigPending, sending, running, client, asyncs, stopSig,
                 connVars, crashed>>

\* SignalWorkerStopped; its Send is the last thing the thread does.
Farewell(i) ==
  /\ At(i, {"farewell"})
  /\ Push(i, "WorkerStopped")
  /\ Goto(i, "done")
  /\ FromThread
  /\ UNCHANGED <<sigPending, running, client, asyncs, stopSig, connVars, crashed>>

------------------------------------------------------------------------------
MainStep(i) ==
  \/ Wake(i) \/ PopStarted(i) \/ PopRequest(i) \/ SendResponse(i)
  \/ PopStopped(i) \/ DrainEnds(i) \/ ShutDown(i)

ThreadStep(i) ==
  \/ SendSignal(i) \/ Announce(i) \/ Begin(i) \/ ClientClosed(i) \/ LateEnable(i)
  \/ WriteCb(i) \/ CloseCb(i)
  \/ StopSignalCb(i) \/ CloseClient(i) \/ LeaveRun(i) \/ Cleanup(i) \/ Farewell(i)

Next ==
  \/ StartAgain \/ StartJoin \/ StartRefused \/ StopNothing \/ Stop
  \/ \E i \in Instances :
       \/ StartFails(i) \/ StartThread(i)
       \/ MainStep(i) \/ ThreadStep(i)
       \/ Connect(i) \/ Reject(i) \/ ClientEnables(i) \/ ClientLeaves(i)

Spec == Init /\ [][Next]_vars

\* Both event loops turn.  Nobody has to call the API, connect or leave.
FairSpec ==
  /\ Spec
  /\ \A i \in Instances : WF_vars(MainStep(i)) /\ WF_vars(ThreadStep(i))

------------------------------------------------------------------------------
(* Properties.                                                             *)

HandleStates == {"none", "open", "closed"}

TypeOK ==
  /\ {listening, handler, lateEnable, crashed} \subseteq BOOLEAN
  /\ {startCbs, stopCbs} \subseteq Seq(DOMAIN calls)
  /\ calls \in Seq([op : {"start", "stop"},
                     answers : Seq({"ok", "error", "thrown"})])
  /\ {singleton, created} \subseteq {None} \cup Instances
  /\ sigHandle \in [Instances -> HandleStates]
  /\ {sigRef, sigPending, sending, running, stopSig} \subseteq [Instances -> BOOLEAN]
  /\ sigs \in [Instances -> Seq({"WorkerStarted", "WorkerStopped", "Enable", "Disable"})]
  /\ \/ main = Idle
     \/ main \in [at : {"popping", "responding"}, inst : Instances,
                  shutdown : BOOLEAN]
  /\ startResult \in [Instances -> {"ok", "error"}]
  /\ worker \in [Instances -> {"none", "announce", "begin", "loop", "closeClient",
                               "drain", "cleanup", "farewell", "done"}]
  /\ asyncs \in [Instances -> HandleStates]
  /\ client \in [Instances -> {"none", "open", "enabled", "closing", "lines"}]
  /\ connects \in Nat
  /\ rejected \in [Instances -> {"none", "writing", "closing"}]

\* No call of start or of stop is lost or answered twice, however calls of
\* both overlap with each other and with the threads: a call either has had
\* its one answer and is in neither list, or waits in the list of its kind.
AnsweredOrWaiting ==
  \A c \in DOMAIN calls :
    LET waitsIn == IF calls[c].op = "start" THEN startCbs ELSE stopCbs
    IN IF calls[c].answers = <<>>
       THEN c \in ToSet(waitsIn)
       ELSE /\ Len(calls[c].answers) = 1
            /\ c \notin ToSet(startCbs) \cup ToSet(stopCbs)

\* stop() never reaches for something that is not there: while index.js
\* believes in a thread nobody has asked to stop, GetInstance has its
\* Controller (debugger.cc:117-118 does not check), and the stop signal's
\* handle is open.
StopFindsWorker ==
  listening /\ stopCbs = <<>> =>
    singleton # None /\ asyncs[singleton] = "open"

\* The process stays up while an answer is due: a referenced handle keeps
\* the main event loop alive (the NOTE in Controller::Start, Ref in Stop).
PendingKeepsProcessUp ==
  startCbs # <<>> \/ stopCbs # <<>> =>
    \E i \in Instances : sigHandle[i] = "open" /\ sigRef[i]

\* When index.js says that nothing runs and nothing is being started, no
\* thread is left but one that has pushed its last signal, and no Controller
\* is in the way of the next start (controller.cc:37-41), except the one
\* whose Worker::Start failed: however starts and stops overlapped.
NothingLeftBehind ==
  ~listening /\ startCbs = <<>> =>
    /\ \A i \in Instances : worker[i] \in {"none", "done"}
    /\ singleton = None \/ startResult[singleton] = "error"

\* V8 never calls MessageHandler without a Controller, which it does not
\* check for (controller.cc:225-226): whatever was enabled is disabled, and
\* that is handled, before WorkerStopped is.  An enable that follows its
\* client's close is not: CloseClientConnection has pushed its Disable, and
\* neither stop() nor anybody else pushes another, until a next client goes.
HandlerHasController == handler => singleton # None \/ lateEnable

\* A start is answered.
StartAnswered == startCbs # <<>> ~> startCbs = <<>> \/ crashed

\* A client that came after the stop signal keeps the thread in Run.
LateClient ==
  \E i \in Instances : worker[i] = "drain" /\ client[i] \in {"open", "enabled"}

\* A stop is answered, late clients aside.
StopAnswered == stopCbs # <<>> ~> stopCbs = <<>> \/ crashed \/ LateClient

\* Nobody calls Send on a handle that another thread has closed
\* (async-wrap.h:21-23).
SendsFindHandlesOpen == ~crashed

=============================================================================
