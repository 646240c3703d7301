------------------------------ MODULE Attachment ------------------------------
(***************************************************************************)
(* What the debugged program and the person at the front-end rely on in    *)
(* a session: the program is stopped only while the debugger is attached,  *)
(* the debugger is never taken away from a stopped program, and a client   *)
(* that is gone leaves a running program without a debugger behind, unless *)
(* the program stops by itself before the debugger is off.                 *)
(* Session.tla is the detailed description that implements this one.       *)
(***************************************************************************)

VARIABLES
  client,     \* there is a client, or lines of one that are still handled
  attached,   \* the program runs under the debugger
  stopped,    \* the program waits in the debugger
  held        \* ... in a stop that it made with no client there

attachVars == <<client, attached, stopped, held>>

Init ==
  /\ client = FALSE
  /\ attached = FALSE
  /\ stopped = FALSE
  /\ held = FALSE

\* A client comes, or goes.
ClientChanges ==
  /\ client' = ~client
  /\ UNCHANGED <<attached, stopped, held>>

\* The debugger is enabled.
Attach ==
  /\ ~attached
  /\ ~stopped
  /\ attached' = TRUE
  /\ UNCHANGED <<client, stopped, held>>

\* A breakpoint, a step, a `debugger` statement or a pause.
Stop ==
  /\ attached
  /\ ~stopped
  /\ stopped' = TRUE
  /\ held' \in {FALSE, ~client}
  /\ UNCHANGED <<client, attached>>

\* Resumed, stepped or disconnected.
GoOn ==
  /\ attached
  /\ stopped
  /\ stopped' = FALSE
  /\ held' = FALSE
  /\ UNCHANGED <<client, attached>>

\* The debugger is disabled.
Detach ==
  /\ attached
  /\ ~stopped
  /\ attached' = FALSE
  /\ UNCHANGED <<client, stopped, held>>

Next == ClientChanges \/ Attach \/ Stop \/ GoOn \/ Detach

Spec == Init /\ [][Next]_attachVars

\* Without a client, the program is let go, unless another client comes first
\* or the program is held in a stop of its own.
Releases == ~client ~> (client \/ held \/ (~attached /\ ~stopped))

LiveSpec == Spec /\ Releases

=============================================================================
