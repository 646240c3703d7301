# A specification of strong-debugger in TLA+

strong-debugger lets a DevTools front-end debug the Node.js process it is
loaded into. The debugged program runs on the main thread; a TCP server with a
V8 isolate of its own runs on a background thread, so that it can answer while
the main thread is stopped at a breakpoint. What makes the program hard to test
is that conversation: two threads, four queues, a V8 debugger that may block
one of them at any moment, clients that leave when they like, and a start/stop
API that creates and closes the handles both threads use.

## 1. Inventory

| Part | Source | State it keeps | Operations | Talks to |
|---|---|---|---|---|
| JavaScript API | `index.js` | `startCallbacks`, `stopCallbacks`, `listeningOnPort` | `start`, `stop`, `status`, `onStarted`, `onStopped` | binding (calls, callbacks) |
| Binding | `src/debugger.cc` | none | `Start`, `Stop` | Controller singleton |
| Controller | `src/controller.cc` | `singleton`, `signals_`, `start_cb_`, `stop_cb_` | `Start`, `Stop`, `Signal*`, `SendDebuggerCommand`, one callback per signal, `MessageHandler` | V8's debugger, Worker (async handles), binding |
| Worker thread | `src/worker.cc` | `running_`, `start_result_`, four async handles, the server socket | `Start`, `ThreadCb`, `Run`, `Stop`, `Cleanup`, `Signal*Response`, `HandleDebuggerMessage` | Controller (`signals_`), script context |
| Client connection | `src/worker.cc`, `incoming-connection*`, `tcp-wrap*` | `client_connected_`, the socket's handle, `client_data_received_` | `ServerConnectionCb`, `ClientDataCb`, `ClientErrorCb`, `CloseClientConnection`, `ClientClosedCb`, `SendClientMessage` | script context, front-end |
| Rejected client | `src/worker.cc` | its own socket | answer one line and close | front-end |
| Script context | `backend/context.js` | `_enabled`, `_enableCallbacks`, `_afterEnableCallbacks`, `_disableCallbacks`, `_reqId`, `_reqCallbacks` | `enableDebugger`, `waitForDebuggerEnabled`, `disableDebugger`, `sendDebuggerRequest`, `onDebuggerEnabled`, `onDebuggerDisabled`, `onDebuggerMessage`, `onFrontEndCommand` | agents, bindings |
| Agents | `backend/{debugger,runtime,page}-agent.js` | `_continueToLocationBreakpointId`; the ids they hand out are V8's | one method per DevTools request, handlers of V8 events | script context, front-end |
| Conversions | `backend/convert.js` | none | pure functions | agents |
| Queues | `src/locked-queue*`, `async-wrap*`, `mutex-wrap*` | a deque, a mutex, an async handle | `PushBack`, `PopFront`, `Send`, `Ref`, `Unref`, `CloseIfInitialized` | Controller, Worker |
| Isolate and bindings | `src/worker-bindings.cc` | the worker's isolate and context | `InitIsolate`, `EmitScriptEvent`, the JS bindings, the coverage report | script context |

**How they interact.** A line of the front-end reaches `onFrontEndCommand` on
the worker thread; an agent method answers at once, sends a request to V8
(`sendDebuggerRequest` puts it into V8's command queue and pushes a
`ProcessDebugMessages` signal), or waits for the debugger to be enabled. Enable
and disable are handshakes: a signal to the main thread, which installs or
removes V8's message handler, and an async handle back to the worker. V8's
answers and events come on the main thread and go to the worker through
`debugger_messages_`. Starting and stopping is a third conversation on the same
queue (`WorkerStarted`, `WorkerStopped`) and one async handle (`stop_signal_`).

**What is hard.** Wake-ups that coalesce; a client that goes while its enable,
pause or breakpoint is still queued; the next client that comes before the main
thread has cleaned up after the last; a main thread that serves no signals
while it is paused; callbacks that run while a list of callbacks is being
walked; lines that follow a close in the same chunk; lines torn anywhere; ids
that V8 gives anew at each stop; scripts compiled while the list of scripts is
on its way; handles closed by one thread while the other is about to use them; a stop that overlaps with all of
that. `PROJECT.json` lists each hazard at its line.

**What makes each part correct.**

- Queues: every item arrives once and in order, none stays behind with the
  owner asleep.
- Script context: both handshakes stay whole over any number of overlapping
  enables and disables; no line is answered twice; nothing deferred is
  stranded.
- Connection and session: a client that goes leaves the program running,
  unarmed and detached; a client that stays is served, and what its predecessor
  left in the queues does not undo its enable.
- Controller and Worker: each start and stop is answered once, no thread is
  forgotten, nothing is used after it is gone, the process stays up while an
  answer is due.
- Agents: the front-end ends up knowing whether the program runs, settings sent
  part by part do not mix, the temporary breakpoint is not lost, what is said of
  an object or a script is about that very object or script, every request is
  answered.
- Conversions: a URL leads back to the script it was made for.

## 2. Modules

| Module | Models | Kind |
|---|---|---|
| `Mailbox` | what the owner of a queue relies on | abstract specification |
| `LockedQueue` | `LockedQueue`, `AsyncWrap::Send`, `MutexWrap::Scope`, the owner's drain loop | detailed, implements `Mailbox` |
| `LockedQueueProofs` | | proofs |
| `Attachment` | what the debugged program and its user rely on in a session | abstract specification |
| `Session` | one run of the server: connection, script context, signals, V8 | composition of three actors, implements `Attachment` |
| `SessionTypeProofs`, `SessionProofs` | facts about its FIFO queues and its types; its safety and the refinement | proofs |
| `FrontEndCommands` | from the bytes of a client to lines and replies | connection and command handler |
| `FrontEndCommandsProofs` | | proofs |
| `DebuggerAgent` | the agent's methods that send requests to V8, the front-end that calls them, V8 | composition of three actors |
| `DebuggerAgentProofs` | | proofs |
| `RuntimeAgent` | objects, properties and scopes as the front-end sees them | composition of three actors |
| `RuntimeAgentProofs` | | proofs |
| `Scripts` | scripts, sources, breakpoints by URL, names and URLs | composition of four actors |
| `ScriptsProofs` | | proofs |
| `Lifecycle` | API, binding, Controller and worker threads from start to stop | composition of API, main thread and worker threads |
| `LifecycleProofs` | | proofs |

There are no separate MC modules: each specification is parameterised by its
CONSTANTS and the `.cfg` files give them values. What code does, in one line
each, stands above the definition that models it; definitions carry the
source's names.

### LockedQueue

`list`, `lock` and `pending` are `list_`, `lock_` and the mark of
`uv_async_send`. One step per access to what the threads share: a producer
enters, takes the mutex (and reads the end of the deque), links its item and
releases, and sends, outside the lock; the owner is woken, and goes round
`PopFront` until it finds the list empty. `item` and `seen` hold what each
producer has in its local variables, `held` what `PopFront` has copied out.
`push_back` is split into its read and its write so that the mutex has
something to do: without it two pushes could lose an item.

The refinement maps the mailbox's queue to `held \o list` and its history to
`delivered`.

### Session

Three actors: the client, the worker thread and the main thread.

- *Worker.* A libuv callback is one step: it runs to its end on the worker
  thread, and all it does that others see is append to FIFO queues. Two
  callbacks that appended would have the same effect had the other actors'
  steps been in between, except `ClientDataCb`: it handles several lines, and
  each line is a step (`chunk` holds the lines still to be handled, and no
  other callback of the worker runs meanwhile). One message of
  `DebuggerMessageSignalCb` is likewise one step.
- *Main thread.* One signal per step. `DisableRequestSignalCb` is two
  (`DisableRequestSignalCb`, `Detach`): its `ProcessDebugMessages` can leave
  the main thread paused in the debugger before `SetMessageHandler(0)`. The
  remainder is shown as a `"Detach"` entry at the front of `signals`.
- *The script context.* `enableCbs`, `afterEnableCbs` and `disableCbs` hold the
  requests that wait, by their place in `requests`; `reqCallbacks[id]` says what
  was asked of V8 and for which request. `requests` is the history of lines with
  the answers each has had, an answer being the connection it was written to
  (0: nowhere).
- *Lines.* `Kinds` has one representative of each way in which an agent method
  uses the engine; the table is in the module. The others (`removeBreakpoint`,
  `getFunctionDetails`, ...) do what one of these does as far as this state
  goes; stubbed and malformed requests are answered at once and change nothing.

V8 is external and modelled by how the code relies on it: commands queue up
until V8 gets to them (`ProcessDebugMessages`, an interrupt of running
JavaScript, or the wait loop of a break), and without a message handler they
stay queued; the last of `suspend`, `continue` and `disconnect` decides whether
the program is paused; `disconnect` drops the breakpoints, the removal of the
handler these and a pending step. A breakpoint stops the program while V8 is armed
(`armed`). A `continue` with a stepaction, which is what `stepOver`, `stepInto` and
`stepOut` send, makes it stop once more at its next statement (`stepping`), as
`test/debugger-stepOver.test.js` expects, whether or not the client is still there
by then; a plain `continue` takes that back. A `debugger` statement stops it as long as a
handler is there (`StatementBreaks`). Every command gets one response.

`held` is an observation, not state of the program: it is waiting in a stop it made
after its client was gone, the `disconnect` served and no breakpoint left
(`StopsByItself`), so at the end of a step or at a `debugger` statement. Nothing that
is queued releases it, and section 5 has the run that shows it.

`Attachment` says it in four variables: a client may come and go; the debugger
attaches to and detaches from a running program only; the program stops and goes
on only while it is attached; and without a client it is let go unless another
client comes first or it is `held`, in a stop that it makes while no client is
there. The refinement maps `client` to `~Gone` (the connection is there, or lines of
it are still handled), `attached` to `handler`, `stopped` to `paused` and `held` to
`held`.

### FrontEndCommands

`Session` starts with whole lines. This module has the bytes: a client sends any
piece, `ClientDataCb` appends it to `data` (`client_data_received_`) and cuts
lines out of it, one round of its loop per step (`TakeLine`, `KeepRest`), and
`OnFrontEndCommand` does with the text what `onFrontEndCommand` does. A JSON
text is one byte, named for what becomes of it (`AllCommands`); the bytes that
matter to the cutting, line feed, carriage return and NUL, are themselves. A
text of two JSON bytes, an empty one or one with a NUL in front is no JSON.
`sent` records the stream of the current client, against which the lines are
checked.

### DebuggerAgent

`Session` has one representative of each kind of agent method and follows it
through connections and handshakes. `DebuggerAgent` keeps the debugger enabled
and the connection open, and follows the methods themselves: one action per
method up to its first request to V8 (`Pause`, `ContinueToLocation`, ...), one
per callback (`OnLocated`, `OnChanged`, `OnCleared`, ...), each a step of the
worker's loop. A callback travels with its request and its response as a record
that names the function, the front-end's request and what is left of the array
it shifts; `Session` shows that the ids lead back to it. `slot` is
`_continueToLocationBreakpointId`; it may hold the number of a breakpoint of an
earlier front-end from the start, since nothing resets it.

The front-end is a patient one: it offers pause when it was told that the
program runs, resume, the steps, continueToLocation and inspections when it was
told that it is paused, and after a run-control request waits for the answer
and the event that belongs to it. Everything else it sends at any time, and any
number of requests may overlap. (One that does not wait can read
`Debugger.paused` of an earlier stop after `Debugger.resumed`; that is the price
of `notifyDebuggerPaused` asking for the call frames first, and no text of the
repository promises otherwise.)

V8 takes commands in order, one per step. `v8` says whether the program runs,
is in V8's loop over commands, or waits in the debugger. `setbreakpoint` and the
inspections may fail; requests about a breakpoint that is gone may be refused or
ignored.

### RuntimeAgent

What `DebuggerAgent` leaves out: whom an answer is about. An id is a handle of
V8, its position in `handles`, which V8 empties whenever it enters or leaves its
debugger. The front-end keeps what it was shown in this pause (`shown`: the
handle and, as an observation, the object it stood for) and asks about it:
`GetPropertiesOfObjectId`, `CallFunctionOn`, `SetVariableValue`. Scopes are
named by number, and `GetPropertiesOfScopeId` takes a second request to V8 with
the handle from the first answer (`OnScoped`). `Resume` stands for all ways of
going on. A front-end forgets the ids when it asks the program to go on, but
need not wait for its answers before (`hurried`).

`PropertiesOf` is `v8ObjectToDevToolsProperties` on the names of properties;
`Looks` has objects with and without a prototype, and one with an own property
called `__proto__`.

### Scripts

The program compiles scripts and V8 drops some; the front-end turns the debugger
on and off, is told of scripts by the answer to `Debugger.enable` and by
`afterCompile`, and asks for sources and breakpoints by id and URL. The two
handshakes are those of `Session`, for one front-end and a program that is not
paused. Names and URLs are sequences of parts and separators, so that
`V8NameToDevToolsUrl`, `DevToolsUrlToV8Name` and the substring filter of V8's
`scripts` request (`HasPart`) do what the code's regular expressions do: names
are Unix paths (one of them looks like a Windows disk), a disk path, a UNC path,
a module of node's own, `repl` and none. A source is a text between the two
parts of node's wrapper.

### Lifecycle

Every successful `Start` makes a new `Controller` with a `Worker`; old ones are
never deleted, and the model numbers them. Per instance it has the state of the
handles (`sigHandle` with its reference `sigRef`, `asyncs`), the items of
`signals_`, where the thread is in `ThreadCb`/`Run` and the connection as far as
it causes signals. A client that comes while there is one is a `RejectedClient`,
of which the thread's end knows only that its handle is still there
(`rejected`). `calls` is the history of API calls with their answers.

A client that closes by `{ "close": true }` may have an enable behind it in the same
chunk: its state is `"lines"` until `ClientDataCb` has handled that (`LateEnable`),
which is the thread's next step, as the callback runs to its end. `lateEnable`
remembers that such an Enable was pushed and no Disable since, by a later client
that leaves or by Run.

Here two threads create, use and close each other's handles, so the steps are
finer where Session's are coarse: a push and its `Send` are two steps of the
worker, the test of `running_` and the `Send` of a response two steps of the
main thread, and the drain loop of `SignalsAvailableCb` one step per signal with
its local `shutdown`. `start` may fail in the binding (it throws), in
`Controller::Start` (answered at once) or in `Worker::Start` (answered through
the queue, the thread never starts). A callback of the user that calls `start`
or `stop` again does it in a step of its own; `index.js` swaps its list before
it calls anybody, so the order makes no difference.

Processing of debug messages is left out of this module; both threads are
taken to keep running (a paused program is Session's subject).

## 3. What is checked

| Run | Configuration | Shows |
|---|---|---|
| `locked_queue` | 2 producers, 2 items, 3 pushes, fairness | types, exclusion, no lost wake-up, implements `Mailbox` with its fairness |
| `session` | enable, disable, setBreakpoint, pause, resume, step, deferred; 2 connections, 3 lines, chunks of 2, 1 stop | the two handshakes, nothing stranded, nothing answered twice, a gone client has let go |
| `session_liveness` | adds evaluate, throwing and close; 1 connection, 3 lines, fairness | implements `Attachment` with its promise that a gone client releases the program, unless that is held; requests to V8 and disables are answered |
| `front_end_commands` | 2 clients, 5 bytes each | lines independent of the pieces they came in, each text accounted for |
| `debugger_agent` | all kinds of method; 3 requests, 2 stops, fairness | what the front-end is told, overlapping settings, the temporary breakpoint, every request answered |
| `runtime_agent` | 2 objects, 2 requests, 2 stops, fairness | answers about the object that was shown, nothing shown is lost, properties once each, every request answered |
| `scripts` | 2 scripts, 3 requests, both platforms | every script reported, sources and breakpoints by URL reach their script |
| `lifecycle` | 2 instances, 4 calls, 3 clients, fairness | the properties of start and stop below |
| `session_enabled_flag`, `session_close_twice`, `session_step_break`, `lifecycle_send` | small instances | disagreements between the code and what it says, section 5 |

Safety, and what each property relates:

- `LockHeldInside`, `NoLostWakeup` (LockedQueue): the mutex against what each
  thread has read; the list against the sleeping owner, the async mark and the
  threads between unlock and `Send`.
- `EnableHandshake`: `_enableCallbacks` is non-empty exactly while one Enable
  signal or its response is under way, and there is never a second one. And what
  it started takes hold: when the first who waits is the client that is there now
  (`OwnEnable`), the signals end with the debugger attached, whatever Disable of an
  earlier client is among them. That is the half that concerns a client accepted
  while the last one's Disable is queued; one that joins its predecessor's enable
  is not covered (section 5).
- `DisableHandshake`: whoever waits in `_disableCallbacks` has a Disable on the
  way. (It is an implication only: a client that leaves pushes a Disable for
  which nobody waits.)
- `DeferredOnlyUntilEnabled`: what `waitForDebuggerEnabled` keeps back is run
  no later than the debugger becomes enabled, in spite of the early return in
  `onDebuggerEnabled`. It depends on `EnableHandshake`, and holds as long as no
  deferred function throws (section 5).
- `AnsweredAtMostOnce` (Session): over all ways an answer can come.
- `DetachedOnceGone`, `ReleasedOnceGone`: at every moment without a client, what
  is already queued ends with the handler removed, the program running and no
  breakpoint armed, however enable, pause, breakpoints, steps and the departure
  interleaved. The program is excepted while it is `held`, which steps and `debugger`
  statements bring about and breakpoints and pauses do not: what the client left
  behind releases it from any stop but one that it makes by itself afterwards. Lines
  that follow a close in the same chunk are set aside (`LateLines`): an `enable`
  among them does attach the debugger for nobody.
- `LinesOfTheStream` (FrontEndCommands): whatever the pieces, the texts handled
  are the non-empty lines of this client's stream, and what is kept is what
  follows its last line end; nothing of an earlier client is in it.
- `EveryTextAccounted`: each text has one reply, or waits for its method, never
  both; two kinds have none (`{ "close": true }`, and the JSON value `null`).
- `ViewIsRight` (DebuggerAgent): once everything under way has arrived, what the
  front-end was told last is the case, however a pause, a breakpoint and the
  clearing of a temporary breakpoint crossed.
- `TemporaryTracked`: V8 never keeps a temporary breakpoint the agent does not
  know of, so the next stop clears it. It is stated for programs that are
  stopped by breakpoints and exceptions only. `pause` does not clear the
  temporary breakpoint, and a continueToLocation after it overwrites the slot:
  the first breakpoint then stays in V8 until the debugger is disabled.
- `LaterSettingWins`: two overlapping `setPauseOnExceptions`, or two
  `setBreakpointsActive` while breakpoints are set, leave V8 with the later one's
  setting as a whole. For breakpoints this presumes that none is removed
  (`BreakpointsStay`), section 5.
- `AboutWhatWasShown` (RuntimeAgent): an answer is about the object that the id
  stood for when the front-end was shown it, though V8 reuses the id at the next
  stop. That commands to V8 are served in order, those before a `continue`
  before the program goes on, is what carries it; for a scope, whose second
  request may come after the `continue`, it holds for a front-end that waits.
  And there is an answer: V8 does not lose what was shown in this pause.
- `EachPropertyOnce`: the two requests for the properties of an object fit
  together.
- `EveryScriptReported` (Scripts): no script is missed between list and events,
  over any number of enables and disables.
- `BreakpointWhereShown`, `SourceIsTheScripts`, `UrlsKeepApart`: the URL that
  was reported leads back to its script, through both conversions and V8's
  filters. Set aside: a Unix file below `/c:/`, whose URL is taken for that of a
  Windows disk, and for `getResourceContent` a script whose name is part of
  another's (V8 filters by substring and the agent takes the first).
- `AnsweredOrWaiting`, `StopFindsWorker`, `PendingKeepsProcessUp`,
  `NothingLeftBehind`, `HandlerHasController` (Lifecycle): API lists against the
  Controller, its handles, V8's handler and the threads. `NothingLeftBehind` sets
  the Controller of a start that failed aside, and `HandlerHasController` excepts
  the handler of an enable that came after its client's close (`lateEnable`), until
  a next client leaves: without that exception it is false (section 5).

Liveness:

- `ImplementsAttachment`, `ServedWhileAttached`, `DisableAnswered` (Session).
  The first is the safety of `Attachment` and its `Releases`, which excepts a program
  that is `held`; `GoneClientReleases` is the same without that exception, and fails
  (`session_step_break`). `DisableAnswered` gives up when the program stops: the
  main thread then serves no signals until the client resumes it.
- `StopsReported`, `RequestsAnswered` (DebuggerAgent): a stop is reported even
  when clearing the temporary breakpoint fails, and each request is answered
  whichever of its requests to V8 fails.
- `RequestsAnswered` (RuntimeAgent): whichever request of a chain fails, and
  whatever becomes of the program.
- `StartAnswered`, `StopAnswered` (Lifecycle). `StopAnswered` gives up when a
  client was accepted after the stop signal (section 5).

**Fairness.** Weak fairness of what the two event loops and V8 do by
themselves: a PushBack that was called returns; a due callback of the worker, a
queued signal on the main thread, and a command V8 finds while paused are
served. The main thread is not assumed to serve signals while it is paused. No
fairness for what clients send, for breakpoints, interrupts, calls of the API and
new connections. `DebuggerAgent` assumes more of its surroundings: V8 gets to
every command (`ProcessDebugMessages` is signalled for each), and the front-end
reads what it is sent. `RuntimeAgent` assumes the same of V8, and nothing of the
front-end. This is what libuv does for a loop that turns, and it assumes that
the debugged program returns to its event loop now and then.

**Bounds.** `MaxItems`, `MaxConns`, `MaxRequests`, `MaxChunk`, `MaxBreaks`,
`MaxStops`, `MaxBytes`, `MaxScripts`, `MaxInstances`, `MaxCalls` and
`MaxConnects` bound what the environment may do,
never what the code does about it. Three pushes are enough for two producers to
collide and for a push to meet every place of the owner's loop. Three lines are
enough for enable, something that needs it, and disable or another enable, two
connections for one to follow on the other's leftovers, chunks of two for a line
after a close. Three requests to the agent are a breakpoint and two settings
that overlap, or a breakpoint, the stop it causes and a continueToLocation or
pause; two stops are one for the breakpoint and one for what came of it; four
requests were tried once for safety and hold as well. Five bytes are two lines
with a carriage return, or a line end on either side of every tear; the second
client shows what the first leaves behind. Two objects and two stops are what it
takes for one handle to mean two things, two requests for a scope's second
request to meet another request or the next stop. Two scripts and three requests
let a script come in any phase of an enable, and let one be asked for by a URL
that another script has, too. Four calls and two instances let a start, a stop, a second start
and any fourth call overlap; three clients are one that leaves, one that is there
when the stop comes and one that is rejected meanwhile. Each property has a mutant of a mapped definition that
breaks it within the same bounds (`PROJECT.json`), and all actions fire in the
passing runs.

Deadlock is not checked: with the bounds used up and no clients there is
nothing left to do, as in the program, which may idle for ever.

## 4. What is proved

`LockedQueueProofs`, for every set of items, every set of producers and every
bound, from `ThreadsAssumption` (the consumer is no producer, `NoThread` is
neither) and `MaxItemsAssumption`:

- `TypeCorrect`, `Exclusion`, `WakeupNotLost`: `TypeOK`, `LockHeldInside` and
  `NoLostWakeup` are invariants.
- `RefinesMailbox`: the queue implements the mailbox's safety.

The inductive invariant is the three properties and `HeldWhileHandling`: the
owner holds exactly one item while it handles one and none otherwise. It is
needed for types (`held` grows only from empty), for the refinement (the item
in hand is the mailbox's front) and for nothing to be lost between `PopFront`
and the callback. Preservation is proved once for a producer's steps and once
for the owner's, with the list facts in three lemmas.

`SessionTypeProofs` and `SessionProofs`, for any number of connections, lines
per chunk, lines and breakpoints and any set of kinds of line
(`KindsAssumption`, `BoundsAssumption`; a theorem that needs more assumes it in
its statement):

- `TypeCorrect`: `TypeOK`. It says that a request id on its way to V8 or back
  always has its callback in `_reqCallbacks`, which `onDebuggerMessage` relies on.
- `EnableHandshakeKept`, `DisableHandshakeKept`: `EnableHandshake` and
  `DisableHandshake`. `OneHandshake`, all of the first but its last part, and the
  second are inductive relative to `TypeOK`. The last part (`TakesHold`) also needs
  that no line comes from a later connection (`FromPast`): a client whose enable is
  the first to wait has signalled itself, so its Enable is behind all that
  earlier clients left, and only its own `disable` or departure pushes one after it.
- `DeferredOnlyUntilEnabledKept`: `DeferredOnlyUntilEnabled`, provided no
  deferred function throws (`"throwing" \notin Kinds`; with one it is false,
  section 5). It needs `EnableHandshake`: only because somebody waits whenever
  an enable response arrives does `onDebuggerEnabled` reach the deferred
  functions.
- `DetachedOnceGoneAlways`: `DetachedOnceGone`.
- `ReleasedOnceGoneAlways`: `ReleasedOnceGone`, with steps and with and without
  `debugger` statements. `HeldPaused` (who is held is paused) goes first; `Break` is
  the step that matters: either the `disconnect` is still queued and lets the program
  go, or the stop is one of the program's own.
- `AnsweredAtMostOnceAlways`: `AnsweredAtMostOnce`, provided no deferred function
  throws. With one that does it is false: the list of deferred functions is not
  cleared, and those before it answer again (section 5).
- `RefinesAttachment`: the session implements `Attachment!Spec`, with and without
  `debugger` statements. Steps of the worker leave the main thread's variables
  alone and change at most whether there is a client; a step of the main thread
  that pauses, resumes or detaches needs that a paused program has the handler
  installed (`PausedAttached`, invariant by itself given the types), and one that
  leaves the program held that the client is gone (`StopsByItself`).

The proofs argue about what a step does to a FIFO queue. `Pushes(S)` and
`StepsPush(K)` say which kinds of signal or command a step appends, the lemmas
on `LeavesOn` what the queue then leads to: neutral entries change nothing, an
"off" at the end turns the flag off, and acting on the head changes nothing in
what the rest leads to. Neither `DetachedOnceGone` nor `ReleasedOnceGone` is
inductive. They speak of moments between two chunks only, but the steps in between matter, so
`WillDetach` and `WillRelease` say the same of every state in which the
connection is not open and no line has followed a close; that a line which comes
in such a state does follow a close is `CloseRecorded`, proved first.

That no line is answered twice rests on where an answer still to come can be.
`Flight` is the ids on their way to V8 and back, in the order in which they come
back, and `Asked` the line that each id was sent for. `OwedOnce` says that no id is
in `Flight` twice and that no line is twice in `Asked` and the three callback lists
of `context.js`, taken together; `DueUnanswered`, that a line that is there still
has no answer. A step moves a line from one of these places to the next or answers
it: `onDebuggerEnabled` is the delicate one, as it goes through the deferred
functions while these register callbacks of their own.

`LifecycleProofs`, for any number of instances, calls and clients, from the
assumptions of `Lifecycle`:

- `TypeCorrect`: `TypeOK`.
- `AnsweredOrWaitingAlways`: `AnsweredOrWaiting`, inductive with the types and
  `ListsByKind` (each list of `index.js` holds calls of its own kind
  only).
- `LivesAlways`: the inductive invariant `Lives`, from which follow
  `StopFindsWorkerAlways`, `PendingKeepsProcessUpAlways`,
  `NothingLeftBehindAlways` and `HandlerHasControllerAlways`.

`Lives` has a part for every instance (`OnlyNewest`: any but the newest is over
or never began; `SignalsInOrder`: its signals are in the order in which its
thread pushed them, the started before the stopped one; `Rest`) and four
for the newest, each about one question: what a start that is not answered
yet waits for (`Started`), whether a stop can be sent (`Stoppable`), which handle
keeps the process up (`Held`), and what `handler` and the thread's farewell say
(`Watched`: only a client that enabled the debugger and is still there leaves the
handler installed, or an enable from after its client's close). None of the four
properties is inductive by itself: that a stop finds its thread depends on what the queue of signals still holds and on how far
the main thread is in its drain loop.

`RuntimeAgentProofs`, for any objects, stops and requests:

- `TypeCorrect`: `TypeOK`.
- `IInvAlways`: the inductive invariant; `AboutWhatWasShownAlways` and
  `EachPropertyOnceAlways` follow.

Its parts: one stop is under way at a time, from the stop itself over the
request for its frames to the event and the `continue` (`OneStop`); a request is on
its way once, in a form that fits its kind (`Underway`, `Fits`); as long as the
stop lasts that a handle was given in, V8 still has the object there
(`Current` for what the front-end was shown, `About` for commands and messages on
their way); and the lists of names that are given (`NamesGiven`). It is `OneStop`
that makes "one stop" definite: V8 numbers its objects anew only while none of
these marks is anywhere.

`DebuggerAgentProofs`, for any set of methods, any number of requests and of stops:

- `TypeCorrect`: `TypeOK`, with `Fits`: each command and message has the callback
  and the kind of request that it was sent for, and a continueToLocation that
  V8 accepted comes with one number.
- `ControlAlways`: the invariant of run control, `Control`, with `Fits` and
  `Underway` (a request is on its way to V8 or back once, and not answered).
- `ViewIsRightAlways`: `ViewIsRight` follows from `Control` when nothing is under way.
- `TemporaryTrackedAlways`: `TemporaryTracked`, from `OneTemporary` on top of
  `Control`.
- `LaterSettingWinsAlways`: `LaterSettingWins`, from `ExceptionsAsSet` and
  `SwitchInv`.

`Control` says where the news of a pause can be. `Going` is: V8 has let the program
go since the front-end was last told that it paused. While that is so, `Told`
says that V8 waits if and only if there is news (`Heard`): the message of a stop,
the command to clear the temporary breakpoint or its answer, the request for the
frames, its answer, or an event, each behind the last `continued`. Reordering is
what makes this delicate: a stop without temporary breakpoint reaches the
front-end in two steps and one with it in three, and a `pause` may cross it.
`InOrder` says that they do not overtake each other, and that all frames are asked
for before the command to go on; `Awaited`, that what leads to or from a pause
belongs to the one request that the front-end waits for. `OneTemporary` says that
at most one temporary breakpoint is there, that its number is in the slot or in the
answer that brings it, and that it is gone once the news has passed the point
where the agent clears it (`Gone`), so that the next continueToLocation finds the
slot free to overwrite.

`LaterSettingWins` speaks of the end, when nothing is under way; the invariants say
who will write what until then. An entry of a queue stands for all the writes that
it will still cause (`TodoC` of a command, `TodoM` of a message), each with its
turn: a command writes now, at turn 2, and goes on with the rest of its list at
every second turn, and messages have the odd turns in between. `LastToWrite` says
that whatever another request will write, the latest will write too, at a later
turn or behind it in the same queue. An entry that is served comes back with its turns
lowered by one at the end of the other queue, which keeps that (`Move`), so that
no writer overtakes another. For exceptions the order holds from the moment the
method sends its first command, as every request goes through the same two types.
For breakpoints it begins only when V8 makes the list: until then the list must
be asked for behind all earlier lists and breakpoints (`Early`, `Lists`), and what is
written by others must come no later than the new list would make it come
(`InRank`). That is where breakpoints must not go away: one that goes moves those
after it one place forward in lists that are made later (`Rank`), and an earlier
setting, with its longer list, comes to them last (section 5).

`FrontEndCommandsProofs`, for any bytes of any length, any number of connections and
pieces:

- `TypeCorrect`: `TypeOK`. The position of the next line in `ClientDataCb` never
  passes the end of the data that are kept.
- `LinesOfTheStreamAlways`: `LinesOfTheStream`. The property speaks of moments between
  two chunks. `Cut` says it at every round of the loop: what is kept is the end
  of what was sent (`Base`), and the texts handled are those of the lines up to
  `Reached`, which is a line end. That more bytes change nothing in this is
  `MoreSent`; an empty line adds no text and any other its own (`EmptyLine`,
  `FullLine`).
- `EveryTextAccountedAlways`: `EveryTextAccounted`. `Accounted` adds that nothing is
  owed to a text that was not handled yet, so that the first reply is the first.

`ScriptsProofs`, for any number of scripts and requests, with the names and texts of
`Scripts`:

- `TypeCorrect`: `TypeOK`. It rests on the tables of names and URLs, on both
  platforms: what `convert.js` makes of each name is proved name by name.
- `BreakpointWhereShownAlways`, `SourceIsTheScriptsAlways`, `UrlsKeepApartAlways`: from
  `Consistent`. What travels for a request keeps to what the request is about: a
  command asks V8 for the very name or id that the front-end means (`Asking`), an
  answer holds only scripts that match it, and the script meant while it lives
  (`Carrying`), and so does what was made of it (`Requested`). Scripts may come and
  go meanwhile, but keep their names (`Later`). `KnownAsTheyAre` says that what the
  front-end was told stays true.
- `EveryScriptReportedAlways`: `EveryScriptReported`. `ReportedOrUnderWay` says that,
  while the debugger is on, a script that the front-end does not know is in a list
  or an event on its way, or the list is still to be asked for; it needs that
  whoever waits for the debugger has exactly one "Enable" or the answer to it
  (`OneEnable`).

Only model-checked: everything about liveness (weak fairness and `ENABLED` are
beyond the prover), including the fairness part of `ImplementsMailbox` and
`Releases` of `Attachment`. Every invariant that a run checks and finds to hold is
proved, those of `Session` with the provisos named above.

## 5. Where the code does something else than it says

Each is a run that TLC must find violated.

- `session_enabled_flag`: `onDebuggerDisabled` clears `_disabled`, not
  `_enabled` (`backend/context.js:106`); requests after a disable are accepted
  and never answered instead of being refused (`context.js:121-122`).
- `session_close_twice`: two `{ "close": true }` in one chunk close the handle
  twice (`tcp-wrap-inl.h:78`).
- `session_step_break`: the `disconnect` of `Worker::Disable` releases a
  paused program once. If the client stepped before it left, V8 serves the step's
  `continue` and the `disconnect` together, and the program stops at its next
  statement before the main thread gets to the Disable signal: it is paused again,
  for good (`worker.cc:197-203`, `debugger-agent.js:77-101`). A `debugger` statement
  in that place does the same: with `Kinds = {"enable", "pause"}` and
  `StatementBreaks = TRUE` the same configuration shows it.
- `lifecycle_send`: a response sent after the test of `running_` meets a handle
  the stopping worker has closed (`worker.cc:142-150`, `async-wrap.h:21-23`).

Also met, and part of the models, but not runs of their own:

- A deferred function that throws (`setPauseOnExceptions` without params) leaves
  the list in place: the functions before it run again at the next enable and
  answer twice (`context.js:86-87`). `session` checks `AnsweredAtMostOnce`
  without throwing lines.
- An enable that follows `{ "close": true }` in the same chunk is signalled behind the
  Disable of the close (`worker.cc:362-371`). Nobody detaches the debugger again until
  another client leaves, and a `stop()` in between finds no client
  (`worker.cc:324`) and removes the Controller with the handler still set. The
  models have it and name it in their properties (`LateLines` in `Session`,
  `lateEnable` in `Lifecycle`); `HandlerHasController` without `lateEnable` is
  violated within the bounds of `lifecycle`.
- An enable of a second client that joins the enable of the first
  (`context.js:62-66`) is bound to a signal that stands before the first one's
  Disable: the debugger ends up detached, `_enabled` stays true, and the request may
  stay unanswered. `EnableHandshake` speaks of clients that started their own
  (`OwnEnable`).
- A start that fails in `Worker::Start` leaves the singleton behind; every later
  start is refused (`controller.cc:37-41`).
- A client accepted after the stop signal holds up `stop()` until it leaves
  (`worker.cc:177-181`).
- A scope's properties asked for just before the program goes on: the second
  request uses a handle of the first in a debugger that has numbered its objects
  anew, and may be answered with another object's (`runtime-agent.js:72-76`).
- `pause` does not clear the temporary breakpoint of continueToLocation.
- Two `setBreakpointsActive` may mix when a breakpoint is removed between them:
  the later call's list is one shorter, it comes to the last breakpoint one
  request sooner, and the earlier call's "on" reaches that breakpoint after the
  later call's "off" (`debugger-agent.js:169-187`). It takes five requests: two
  breakpoints, on, a removal, off.
- In the REPL `Page.getResourceTree` answers an error (`context.js:333-337`),
  where `page-agent.js:59` speaks of an empty string.
- The table at `convert.js:253` turns `c:` into `C:`; the code keeps the case.
- A Unix path below `/c:/` has a URL that is turned into a Windows path
  (`convert.js:281`); `getResourceContent` may answer with the source of another
  script whose name contains the name asked for (`page-agent.js:75,82`).
- A line with the JSON value `null` gets no reply; a line of a carriage return
  alone gets an error report where an empty one is ignored (`worker.cc:363-366`).

## 6. What is not modelled

- Agent methods that only answer a constant (`setAsyncCallStackDepth`,
  `setOverlayMessage`, `skipStackFrames`, four of the Page agent).
- Of `convert.js`: descriptions of objects, names of scope types, attributes of
  properties, `v8FunctionLookupToFunctionDetails`: data that nothing depends on.
- The life of a write request: `uv_write` on a handle that is closing fails at
  once, and its buffer is lost (`worker.cc:307-315`); `_reqCallbacks` is never
  emptied (`context.js:193`). Memory is not counted.
- A `RejectedClient` whose `uv_write` fails at once (`worker.cc:266`, the result is
  not looked at): its callback would not come and the handle stay open.
- `InitIsolate`, the JS bindings' argument checks, `WriteCodeCoverageReport`,
  logging, the compatibility macros: embedding and I/O.
- Which connection an answer goes to is recorded (`answers`), but no property
  is stated: an answer that comes late goes to whoever is connected then.
- `uv_tcp_init` failing in `ServerConnectionCb`: it does not fail in the versions
  of libuv the package is built with.
- Several isolates: the Controller supports one.

## 7. Plan

1. Done: `Mailbox`, `LockedQueue` with proofs, `Attachment`, `Session` with
   proofs, `FrontEndCommands`, `DebuggerAgent`, `RuntimeAgent`, `Scripts`,
   `Lifecycle`.
2. Done: a proof of every invariant that the runs check, and of the safety of both
   refinements.
3. Left to TLC: the liveness properties and the fairness of the refinements.
4. The temporary breakpoint after `pause`, as a run of its own: the code against
   what `test/debugger-continueToLocation.test.js` expects of it.
