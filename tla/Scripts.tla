------------------------------- MODULE Scripts -------------------------------
(***************************************************************************)
(* The scripts of the program, as a front-end gets to see them: the list   *)
(* that Debugger.enable reports and the events that add to it, the source  *)
(* of a script by its id (Debugger.getScriptSource) and by its URL (Page   *)
(* agent, src/backend/page-agent.js), breakpoints by URL, and the          *)
(* conversions between names and URLs (src/backend/convert.js).            *)
(*                                                                         *)
(* The program compiles scripts, and V8 drops some, while the front-end    *)
(* turns the debugger on and off and asks.  Does it hear of every script,  *)
(* and does what it asks for by URL reach the script with that URL?        *)
(*                                                                         *)
(* One front-end, a program that never pauses (Session, DebuggerAgent).    *)
(***************************************************************************)
EXTENDS Naturals, Sequences, SequencesExt

CONSTANTS
  MaxScripts,   \* bound: scripts compiled, with the main script
  MaxRequests   \* bound: requests of the front-end

ASSUME BoundsAssumption == {MaxScripts, MaxRequests} \subseteq Nat

------------------------------------------------------------------------------
(* Names and URLs, cut at their separators; <<>> is also the name of a     *)
(* script without one.                                                     *)

FileUrl == <<"file:", "/", "/">>

Replaced(s, old, new) == [i \in DOMAIN s |-> IF s[i] = old THEN new ELSE s[i]]
Slashed(s) == Replaced(s, "\\", "/")
Backslashed(s) == Replaced(s, "/", "\\")
Without(s, n) == SubSeq(s, n + 1, Len(s))

\* convert.v8NameToDevToolsUrl.
V8NameToDevToolsUrl(n) ==
  CASE n \in {<<>>, <<"repl">>}           -> <<>>
    [] IsPrefix(<<"/">>, n)               -> FileUrl \o n
    [] IsPrefix(<<"c:", "\\">>, n)        -> FileUrl \o <<"/">> \o Slashed(n)
    [] IsPrefix(<<"\\", "\\">>, n)        -> FileUrl \o Slashed(Without(n, 2))
    [] OTHER                              -> n

\* Mutant: no Windows disks.
UrlToNameOnUnix(url) ==
  IF ~IsPrefix(FileUrl, url) THEN url
  ELSE IF IsPrefix(FileUrl \o <<"/">>, url) THEN Without(url, 3)
  ELSE <<"\\", "\\">> \o Backslashed(Without(url, 3))

\* convert.devToolsUrlToV8Name.
DevToolsUrlToV8Name(url) ==
  LET path == IF IsPrefix(FileUrl, url) THEN Without(url, 3) ELSE url
  IN CASE IsPrefix(<<"/", "c:", "/">>, path) -> Backslashed(Tail(path))
       [] IsPrefix(<<"/">>, path) /\ ~IsPrefix(<<"/", "c:", "/">>, path) -> path
       [] ~IsPrefix(<<"/">>, path) /\ IsPrefix(FileUrl, url)
            -> <<"\\", "\\">> \o Backslashed(path)
       [] OTHER -> url

\* Mutant: whatever comes after the first separator is kept.
UnwrapPrefix(source) ==
  IF IsPrefix(<<"(">>, source) THEN Tail(source) ELSE source

\* convert.unwrapScript: node's module wrapper is <<"(", ")">>.
UnwrapScript(source) ==
  IF IsPrefix(<<"(">>, source) /\ IsSuffix(<<")">>, source)
  THEN Without(Front(source), 1)
  ELSE source

\* What programs use as names: files of the platform, a module of node's
\* own (the one named like a file's last part), the REPL, eval.
FileNames ==
  [unix    |-> {<<"/", "a">>, <<"/", "c:", "/", "a">>},
   windows |-> {<<"c:", "\\", "a">>, <<"\\", "\\", "b", "\\", "a">>}]
OtherNames == {<<"a">>, <<"repl">>, <<>>}

\* What is in them: a text, or one that looks like a wrapped one.
Text(n) == IF n \in {<<"/", "a">>, <<"c:", "\\", "a">>, <<>>} THEN <<"(", "x", ")">> ELSE <<"x">>

\* A file of Unix that looks like one of a Windows disk.
DiskLike(n) == IsPrefix(<<"/", "c:", "/">>, n)
HasPart(n, part) == \E i \in 0..Len(n) : IsPrefix(part, Without(n, i))

------------------------------------------------------------------------------
VARIABLES
  \* the program and V8 (main thread)
  platform,     \* "unix" or "windows"
  main,         \* the file that node was started with, <<>> in the REPL
  scripts,      \* every script compiled, by id: its name, and whether V8
                \* still has it
  handler,      \* V8 has MessageHandler installed
  \* the script context (worker thread)
  enabled,      \* context._enabled
  enableCbs,    \* context._enableCallbacks
  afterEnableCbs, \* context._afterEnableCallbacks
  disableCbs,   \* context._disableCallbacks
  \* between the threads
  signals,      \* "Enable" and "Disable" for the main thread
  cmds,         \* V8's command queue
  msgs,         \* Worker::debugger_messages_
  enableSig,    \* the answer to "Enable" is pending
  disableSig,   \* the answer to "Disable" is pending
  \* the front-end
  known,        \* <<id, url>> of the scripts it was told of
  requests      \* its requests, each with what it is about and its answer

mainVars == <<platform, main, scripts>>
jsVars == <<enabled, enableCbs, afterEnableCbs, disableCbs>>
sigVars == <<signals, enableSig, disableSig>>
vars == <<mainVars, handler, jsVars, sigVars, cmds, msgs, known, requests>>

Script(n) == [name |-> n, live |-> TRUE]

Init ==
  /\ platform \in {"unix", "windows"}
  /\ main \in FileNames[platform] \cup {<<>>}
  /\ scripts = IF main = <<>> THEN <<>> ELSE <<Script(main)>>
  /\ handler = FALSE
  /\ enabled = FALSE
  /\ enableCbs = <<>>
  /\ afterEnableCbs = <<>>
  /\ disableCbs = <<>>
  /\ signals = <<>>
  /\ cmds = <<>>
  /\ msgs = <<>>
  /\ enableSig = FALSE
  /\ disableSig = FALSE
  /\ known = {}
  /\ requests = <<>>

------------------------------------------------------------------------------
(* V8 (external).                                                          *)

Live == {i \in DOMAIN scripts : scripts[i].live}

\* node wraps the text of a module.
IsModule(n) == n \notin {<<>>, <<"repl">>}
Source(i) ==
  LET n == scripts[i].name
  IN IF IsModule(n) THEN <<"(">> \o Text(n) \o <<")">> ELSE Text(n)

\* The scripts that a command is about: 'scripts' with its filters, in an
\* order that V8 leaves open, and 'setbreakpoint'.
Found(c) ==
  CASE c.step = "list"   -> Live
    [] c.step = "byId"   -> Live \cap {c.id}
    [] c.step = "byName" -> {i \in Live : HasPart(scripts[i].name, c.name)}
    [] c.step = "bound"  -> {i \in Live : scripts[i].name = c.name}
    [] OTHER             -> {}

\* V8 answers every command that is queued.
RunCommands ==
  /\ msgs' = msgs \o [i \in DOMAIN cmds |->
                        [step |-> cmds[i].step, req |-> cmds[i].req, ids |-> Found(cmds[i])]]
  /\ cmds' = <<>>

Process ==
  /\ handler
  /\ cmds # <<>>
  /\ RunCommands
  /\ UNCHANGED <<mainVars, handler, jsVars, sigVars, known, requests>>

\* A script is compiled: "afterCompile" for whoever listens.
Compile ==
  /\ Len(scripts) < MaxScripts
  /\ \E n \in FileNames[platform] \cup OtherNames : scripts' = Append(scripts, Script(n))
  /\ msgs' = IF handler
             THEN Append(msgs, [step |-> "afterCompile", req |-> 0, ids |-> {Len(scripts) + 1}])
             ELSE msgs
  /\ UNCHANGED <<platform, main, handler, jsVars, sigVars, cmds, known, requests>>

\* "Some modules gets unloaded (?) after they are parsed".
Unload ==
  /\ \E i \in Live : scripts' = [scripts EXCEPT ![i].live = FALSE]
  /\ UNCHANGED <<platform, main, handler, jsVars, sigVars, cmds, msgs, known, requests>>

------------------------------------------------------------------------------
(* The main thread (controller.cc).                                        *)

EnableRequestSignalCb ==
  /\ IsPrefix(<<"Enable">>, signals)
  /\ signals' = Tail(signals)
  /\ handler' = TRUE
  /\ enableSig' = TRUE
  /\ UNCHANGED <<mainVars, jsVars, disableSig, cmds, msgs, known, requests>>

DisableRequestSignalCb ==
  /\ IsPrefix(<<"Disable">>, signals)
  /\ signals' = Tail(signals)
  /\ IF handler THEN RunCommands ELSE UNCHANGED <<cmds, msgs>>
  /\ handler' = FALSE
  /\ disableSig' = TRUE
  /\ UNCHANGED <<mainVars, jsVars, enableSig, known, requests>>

------------------------------------------------------------------------------
(* The methods.  means is the script whose id or URL the front-end gives,  *)
(* 0 when it gives none.                                                   *)

NewReq == Len(requests) + 1

Request(kind, i, answer) ==
  /\ Len(requests) < MaxRequests
  /\ requests' = Append(requests, [kind |-> kind, means |-> i, answer |-> answer,
                                   ids |-> {}, text |-> <<>>, url |-> <<>>])
  /\ UNCHANGED <<mainVars, handler, enableSig, disableSig, msgs, known>>

Command(step, r, i, n) == [step |-> step, req |-> r, id |-> i, name |-> n]
Send(c) == cmds' = Append(cmds, c)

\* Debugger.enable.
Enable ==
  /\ Request("enable", 0, "none")
  /\ signals' = IF enableCbs = <<>> THEN Append(signals, "Enable") ELSE signals
  /\ enableCbs' = Append(enableCbs, NewReq)
  /\ UNCHANGED <<enabled, afterEnableCbs, disableCbs, cmds>>

\* Debugger.disable.
DisableMethod ==
  /\ Request("disable", 0, "none")
  /\ IF disableCbs = <<>>
     THEN /\ signals' = Append(signals, "Disable")
          /\ Send(Command("disconnect", 0, 0, <<>>))
     ELSE UNCHANGED <<signals, cmds>>
  /\ disableCbs' = Append(disableCbs, NewReq)
  /\ UNCHANGED <<enabled, enableCbs, afterEnableCbs>>

\* Debugger.getScriptSource.
GetScriptSource ==
  /\ \E k \in known :
       /\ Request("source", k[1], "none")
       /\ Send(Command("byId", NewReq, k[1], <<>>))
  /\ UNCHANGED <<jsVars, signals>>

\* Page.getResourceContent: a descriptive comment for the main file of the
\* REPL, which has no name; otherwise V8 filters the scripts by name.
GetResourceContent ==
  /\ \E k \in known :
       LET name == DevToolsUrlToV8Name(k[2])
       IN \/ /\ name = <<>>
             /\ Request("content", k[1], "comment")
             /\ UNCHANGED cmds
          \/ /\ name # <<>>
             /\ Request("content", k[1], "none")
             /\ Send(Command("byName", NewReq, 0, name))
  /\ UNCHANGED <<jsVars, signals>>

\* Mutant: asks V8 for the URL.
BreakByUrlItself ==
  /\ \E k \in known :
       /\ Request("breakpoint", k[1], "none")
       /\ Send(Command("bound", NewReq, 0, k[2]))
  /\ UNCHANGED <<jsVars, signals>>

\* Debugger.setBreakpointByUrl.
SetBreakpointByUrl ==
  /\ \E k \in known :
       /\ Request("breakpoint", k[1], "none")
       /\ Send(Command("bound", NewReq, 0, DevToolsUrlToV8Name(k[2])))
  /\ UNCHANGED <<jsVars, signals>>

\* Page.getResourceTree: waitForDebuggerEnabled, then evaluateGlobal.
GetResourceTree ==
  /\ Request("tree", 0, "none")
  /\ \/ /\ enabled
        /\ Send(Command("main", NewReq, 0, <<>>))
        /\ UNCHANGED afterEnableCbs
     \/ /\ ~enabled
        /\ afterEnableCbs' = Append(afterEnableCbs, NewReq)
        /\ UNCHANGED cmds
  /\ UNCHANGED <<enabled, enableCbs, disableCbs, signals>>

------------------------------------------------------------------------------
(* The callbacks.                                                          *)

\* Mutant: the scripts are asked for the first time only.
OnDebuggerEnabledListsOnce ==
  /\ enableSig
  /\ enableSig' = FALSE
  /\ enabled' = TRUE
  /\ enableCbs' = <<>>
  /\ afterEnableCbs' = <<>>
  /\ cmds' = cmds \o (IF enabled THEN <<>>
                      ELSE [i \in DOMAIN enableCbs |-> Command("list", enableCbs[i], 0, <<>>)])
                  \o [i \in DOMAIN afterEnableCbs |->
                        Command("main", afterEnableCbs[i], 0, <<>>)]
  /\ UNCHANGED <<mainVars, handler, disableCbs, signals, disableSig, msgs, known, requests>>

\* bindings.onDebuggerEnabled: Debugger.enable asks for the scripts
\* (fetchLoadedScripts), then those that waited go on.
OnDebuggerEnabled ==
  /\ enableSig
  /\ enableSig' = FALSE
  /\ enabled' = TRUE
  /\ enableCbs' = <<>>
  /\ afterEnableCbs' = <<>>
  /\ cmds' = cmds \o [i \in DOMAIN enableCbs |-> Command("list", enableCbs[i], 0, <<>>)]
                  \o [i \in DOMAIN afterEnableCbs |->
                        Command("main", afterEnableCbs[i], 0, <<>>)]
  /\ UNCHANGED <<mainVars, handler, disableCbs, signals, disableSig, msgs, known, requests>>

OnDebuggerDisabled ==
  /\ disableSig
  /\ disableSig' = FALSE
  /\ disableCbs' = <<>>
  /\ requests' = [r \in DOMAIN requests |->
                    IF r \in ToSet(disableCbs) THEN [requests[r] EXCEPT !.answer = "ok"]
                                               ELSE requests[r]]
  /\ UNCHANGED <<mainVars, handler, enabled, enableCbs, afterEnableCbs, signals,
                 enableSig, cmds, msgs, known>>

\* convert.v8ScriptDataToDevToolsData, sent as Debugger.scriptParsed.
ScriptData(i) == <<i, V8NameToDevToolsUrl(scripts[i].name)>>
ScriptsParsed(ids) == known' = known \cup {ScriptData(i) : i \in ids}

Answer(r, ids, text, url) ==
  requests' = [requests EXCEPT ![r] = [@ EXCEPT !.answer = "ok", !.ids = ids,
                                                !.text = text, !.url = url]]

\* Debugger.enable answers, then reports the scripts.
OnList(m) ==
  /\ m.step = "list"
  /\ Answer(m.req, m.ids, <<>>, <<>>)
  /\ ScriptsParsed(m.ids)

\* eventHandlers.afterCompile.
OnAfterCompile(m) ==
  /\ m.step = "afterCompile"
  /\ ScriptsParsed(m.ids)
  /\ UNCHANGED requests

\* getScriptSource and getResourceContent answer with the first script in
\* the result, or with no source.
OnSource(m) ==
  /\ m.step \in {"byId", "byName"}
  /\ \/ /\ m.ids = {}
        /\ Answer(m.req, {}, <<>>, <<>>)
     \/ \E i \in m.ids : Answer(m.req, {i}, UnwrapScript(Source(i)), <<>>)
  /\ UNCHANGED known

\* setBreakpointByUrl answers with the locations.
OnBound(m) ==
  /\ m.step = "bound"
  /\ Answer(m.req, m.ids, <<>>, <<>>)
  /\ UNCHANGED known

\* Mutant: the path of the main file is taken for its URL.
OnMainAsItIs(m) ==
  /\ m.step = "main"
  /\ IF main = <<>>
     THEN requests' = [requests EXCEPT ![m.req].answer = "error"]
     ELSE Answer(m.req, {}, <<>>, main)
  /\ UNCHANGED known

\* getResourceTree: evaluateGlobal takes a string only, and the REPL has
\* undefined for its file.
OnMain(m) ==
  /\ m.step = "main"
  /\ IF main = <<>>
     THEN requests' = [requests EXCEPT ![m.req].answer = "error"]
     ELSE Answer(m.req, {}, <<>>, V8NameToDevToolsUrl(main))
  /\ UNCHANGED known

\* bindings.onDebuggerMessage.
OnDebuggerMessage ==
  /\ msgs # <<>>
  /\ msgs' = Tail(msgs)
  /\ LET m == Head(msgs)
     IN \/ OnList(m) \/ OnAfterCompile(m) \/ OnSource(m) \/ OnBound(m) \/ OnMain(m)
        \/ m.step = "disconnect" /\ UNCHANGED <<known, requests>>
  /\ UNCHANGED <<mainVars, handler, jsVars, sigVars, cmds>>

------------------------------------------------------------------------------
Next ==
  \/ Compile \/ Unload \/ Process \/ EnableRequestSignalCb \/ DisableRequestSignalCb
  \/ Enable \/ DisableMethod \/ GetScriptSource \/ GetResourceContent
  \/ SetBreakpointByUrl \/ GetResourceTree
  \/ OnDebuggerEnabled \/ OnDebuggerDisabled \/ OnDebuggerMessage

Spec == Init /\ [][Next]_vars

------------------------------------------------------------------------------
(* Properties.                                                             *)

Ids == DOMAIN scripts
Urls == {V8NameToDevToolsUrl(n) : n \in (UNION {FileNames[p] : p \in DOMAIN FileNames})
                                        \cup OtherNames}
AllSteps == {"list", "byId", "byName", "bound", "main", "disconnect", "afterCompile"}

TypeOK ==
  /\ platform \in DOMAIN FileNames
  /\ main \in FileNames[platform] \cup {<<>>}
  /\ scripts \in Seq([name : FileNames[platform] \cup OtherNames, live : BOOLEAN])
  /\ {handler, enabled, enableSig, disableSig} \subseteq BOOLEAN
  /\ {enableCbs, afterEnableCbs, disableCbs} \subseteq Seq(DOMAIN requests)
  /\ signals \in Seq({"Enable", "Disable"})
  /\ \A i \in DOMAIN cmds : /\ cmds[i].step \in AllSteps \ {"afterCompile"}
                            /\ cmds[i].req \in 0..Len(requests)
                            /\ cmds[i].id \in 0..Len(scripts)
  /\ msgs \in Seq([step : AllSteps, req : 0..Len(requests), ids : SUBSET Ids])
  /\ known \subseteq Ids \X Urls
  /\ requests \in Seq([kind : {"enable", "disable", "source", "content", "breakpoint", "tree"},
                       means : 0..Len(scripts), answer : {"none", "ok", "error", "comment"},
                       ids : SUBSET Ids, text : {<<>>, <<"x">>, <<"(", "x", ")">>}, url : Urls])

\* Nothing is under way between the front-end, the worker and V8.
Settled ==
  signals = <<>> /\ ~enableSig /\ cmds = <<>> /\ msgs = <<>>

\* While the debugger is on, the front-end knows every script that V8 has:
\* those from before it turned it on, those compiled while it was being
\* turned on or while the list was on its way, and those compiled while it
\* was off in between.
EveryScriptReported ==
  Settled /\ handler => \A i \in Live : ScriptData(i) \in known

NameOf(q) == scripts[q.means].name

\* A breakpoint by URL is in the script with that URL, and in all that have
\* it, unless they are gone or their path looks like that of the other platform.
BreakpointWhereShown ==
  \A r \in DOMAIN requests :
    LET q == requests[r]
    IN q.kind = "breakpoint" /\ q.answer = "ok" /\ ~DiskLike(NameOf(q))
       => /\ \A i \in q.ids : ScriptData(i)[2] = ScriptData(q.means)[2]
          /\ scripts[q.means].live /\ ScriptData(q.means)[2] # <<>> => q.means \in q.ids

\* Another script's name contains the name of script i.
Shadowed(i) ==
  \E j \in Ids \ {i} : HasPart(scripts[j].name, scripts[i].name)

\* The source by id is that of the script, and so is the content by URL
\* unless another script's name contains its name; either is gone only when
\* the script is.  A module's text comes without node's wrapper, another's
\* as it is unless it looks wrapped.
SourceIsTheScripts ==
  \A r \in DOMAIN requests :
    LET q == requests[r]
        s == scripts[q.means]
    IN /\ q.answer = "ok"
          /\ \/ q.kind = "source"
             \/ q.kind = "content" /\ ~DiskLike(s.name) /\ ~Shadowed(q.means)
          => /\ q.ids \subseteq {q.means}
             /\ s.live => q.means \in q.ids
             /\ q.ids # {} /\ (IsModule(s.name) \/ Text(s.name)[1] # "(")
                => q.text = Text(s.name)
       /\ q.answer = "comment" <=> q.kind = "content" /\ ScriptData(q.means)[2] = <<>>

\* What has a URL is told apart by it, and by one URL only: the file of the
\* resource tree has the URL under which it was reported.
UrlsKeepApart ==
  /\ \A k, l \in known :
       k[2] # <<>> => (k[2] = l[2] <=> scripts[k[1]].name = scripts[l[1]].name)
  /\ \A r \in DOMAIN requests, k \in known :
       requests[r].kind = "tree" /\ requests[r].answer = "ok"
         => (requests[r].url = k[2] <=> scripts[k[1]].name = main)

=============================================================================
