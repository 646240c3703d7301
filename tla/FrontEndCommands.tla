--------------------------- MODULE FrontEndCommands ---------------------------
(***************************************************************************)
(* From bytes to replies.  What a client sends arrives in pieces cut       *)
(* anywhere.  Worker::ClientDataCb (src/src/worker.cc) collects them in    *)
(* client_data_received_, cuts complete lines out of them and hands each   *)
(* to onFrontEndCommand (src/backend/context.js), which replies at once,   *)
(* leaves the reply to an agent's method, closes the connection, or fails. *)
(*                                                                         *)
(* Session starts where this module ends: its chunks are the lines that    *)
(* are cut out of one piece here.                                          *)
(***************************************************************************)
EXTENDS Naturals, Sequences, FiniteSets, SequencesExt

CONSTANTS
  Commands,   \* what a JSON text may say, see AllCommands
  MaxBytes,   \* bound: bytes sent by one client
  MaxConns    \* bound: clients, one after the other

\* A JSON text is one byte here:
\*   method   a method of an agent, which replies when it likes
\*   stubbed  replied to at once, as are methods and agents that do not exist
\*   close    { "close": true }
\*   null     the JSON value null
AllCommands == {"method", "stubbed", "close", "null"}

ASSUME CommandsAssumption == Commands \subseteq AllCommands
ASSUME BoundsAssumption == {MaxBytes, MaxConns} \subseteq Nat

LF == "LF"
CR == "CR"
NUL == "NUL"
Bytes == Commands \cup {LF, CR, NUL}

VARIABLES
  conn,      \* "none", "open" or "closing"
  gen,       \* number of the current (last accepted) connection
  data,      \* client_data_received_
  start,     \* in ClientDataCb: where the next line starts; 0 outside
  handled,   \* texts given to onFrontEndCommand for this connection
  waiting,   \* <<gen, n>>: the nth text of a connection waits for its method
  replies,   \* <<gen, n>>: given to sendFrontEndMessage, in this order
             \* (who gets it is Session's subject)
  \* observation
  sent       \* the bytes the current client has sent

vars == <<conn, gen, data, start, handled, waiting, replies, sent>>

Init ==
  /\ conn = "none"
  /\ gen = 0
  /\ data = <<>>
  /\ start = 0
  /\ handled = <<>>
  /\ waiting = {}
  /\ replies = <<>>
  /\ sent = <<>>

AtLoop == start = 0

------------------------------------------------------------------------------
(* The connection.                                                         *)

\* Mutant: what the client before left unfinished stays.
AcceptKeepsData ==
  /\ AtLoop /\ conn = "none" /\ gen < MaxConns
  /\ conn' = "open"
  /\ gen' = gen + 1
  /\ sent' = <<>>
  /\ handled' = <<>>
  /\ UNCHANGED <<data, start, waiting, replies>>

\* ServerConnectionCb.
Accept ==
  /\ AtLoop /\ conn = "none" /\ gen < MaxConns
  /\ conn' = "open"
  /\ gen' = gen + 1
  /\ data' = <<>>
  /\ sent' = <<>>
  /\ handled' = <<>>
  /\ UNCHANGED <<start, waiting, replies>>

\* ClientErrorCb.
Hangup ==
  /\ AtLoop /\ conn = "open"
  /\ conn' = "closing"
  /\ UNCHANGED <<gen, data, start, handled, waiting, replies, sent>>

ClientClosedCb ==
  /\ AtLoop /\ conn = "closing"
  /\ conn' = "none"
  /\ UNCHANGED <<gen, data, start, handled, waiting, replies, sent>>

------------------------------------------------------------------------------
(* ClientDataCb, one step per round of its loop.                           *)

\* A piece arrives.
ClientDataCb ==
  /\ AtLoop /\ conn = "open"
  /\ \E n \in 1..(MaxBytes - Len(sent)) : \E piece \in [1..n -> Bytes] :
       /\ data' = data \o piece
       /\ sent' = sent \o piece
  /\ start' = 1
  /\ UNCHANGED <<conn, gen, handled, waiting, replies>>

\* data.find('\n', start): the first line end from here, if there is one.
IsEol(i) ==
  /\ i \in start..Len(data)
  /\ data[i] = LF
  /\ \A j \in start..(i - 1) : data[j] # LF

\* The payload of EmitScriptEvent is a C string.
CString(s) ==
  IF NUL \in ToSet(s) THEN SubSeq(s, 1, SelectInSeq(s, LAMBDA b : b = NUL) - 1)
                      ELSE s

\* A carriage return before the line end does not belong to the line.
Stripped(line) == IF Last(line) = CR THEN Front(line) ELSE line

\* JSON.parse does not mind carriage returns around a value.
Says(text, c) ==
  \E i \in DOMAIN text : text[i] = c /\ \A j \in DOMAIN text : j # i => text[j] = CR

Reply(n) == replies' = Append(replies, <<gen, n>>)

\* Mutant: what is not JSON is reported twice.
OnFrontEndCommandGoesOn(text) ==
  LET n == Len(handled) + 1
  IN /\ handled' = Append(handled, text)
     /\ \/ Says(text, "close") /\ conn' = "closing" /\ UNCHANGED <<waiting, replies>>
        \/ Says(text, "null") /\ UNCHANGED <<conn, waiting, replies>>
        \/ Says(text, "method") /\ waiting' = waiting \cup {<<gen, n>>}
                                /\ UNCHANGED <<conn, replies>>
        \/ Says(text, "stubbed") /\ Reply(n) /\ UNCHANGED <<conn, waiting>>
        \/ /\ \A c \in Commands : ~Says(text, c)
           /\ replies' = replies \o << <<gen, n>>, <<gen, n>> >>
           /\ UNCHANGED <<conn, waiting>>

\* bindings.onFrontEndCommand: what is not JSON is reported; `null` has no
\* method to ask for, which ends the handler; a method waits for its agent.
OnFrontEndCommand(text) ==
  LET n == Len(handled) + 1
  IN /\ handled' = Append(handled, text)
     /\ \/ Says(text, "close") /\ conn' = "closing" /\ UNCHANGED <<waiting, replies>>
        \/ Says(text, "null") /\ UNCHANGED <<conn, waiting, replies>>
        \/ Says(text, "method") /\ waiting' = waiting \cup {<<gen, n>>}
                                /\ UNCHANGED <<conn, replies>>
        \/ Says(text, "stubbed") /\ Reply(n) /\ UNCHANGED <<conn, waiting>>
        \/ /\ \A c \in Commands : ~Says(text, c)
           /\ Reply(n)
           /\ UNCHANGED <<conn, waiting>>

\* Mutant: the end of a piece is taken for the end of a line.
TakeLineAtOnce ==
  /\ ~AtLoop
  /\ start <= Len(data)
  /\ \E eol \in start..(Len(data) + 1) :
       /\ IsEol(eol) \/ (eol = Len(data) + 1 /\ \A i \in DOMAIN data : ~IsEol(i))
       /\ start' = eol + 1
       /\ IF eol > start
          THEN OnFrontEndCommand(CString(Stripped(SubSeq(data, start, eol - 1))))
          ELSE UNCHANGED <<conn, handled, waiting, replies>>
  /\ UNCHANGED <<gen, data, sent>>

\* One round: a line, or nothing between two line ends.
TakeLine ==
  /\ ~AtLoop
  /\ \E eol \in DOMAIN data :
       /\ IsEol(eol)
       /\ start' = eol + 1
       /\ IF eol > start
          THEN OnFrontEndCommand(CString(Stripped(SubSeq(data, start, eol - 1))))
          ELSE UNCHANGED <<conn, handled, waiting, replies>>
  /\ UNCHANGED <<gen, data, sent>>

\* No line end is left: data.erase(0, start).
KeepRest ==
  /\ ~AtLoop
  /\ \A i \in DOMAIN data : ~IsEol(i)
  /\ data' = SubSeq(data, start, Len(data))
  /\ start' = 0
  /\ UNCHANGED <<conn, gen, handled, waiting, replies, sent>>

\* A method calls back.
MethodReplies ==
  /\ AtLoop
  /\ \E w \in waiting :
       /\ waiting' = waiting \ {w}
       /\ replies' = Append(replies, w)
  /\ UNCHANGED <<conn, gen, data, start, handled, sent>>

Next ==
  \/ Accept \/ Hangup \/ ClientClosedCb
  \/ ClientDataCb \/ TakeLine \/ KeepRest \/ MethodReplies

Spec == Init /\ [][Next]_vars

------------------------------------------------------------------------------
(* Properties.                                                             *)

TypeOK ==
  /\ conn \in {"none", "open", "closing"}
  /\ gen \in 0..MaxConns
  /\ data \in Seq(Bytes)
  /\ start \in 0..(Len(data) + 1)
  /\ handled \in Seq(Seq(Bytes))
  /\ waiting \subseteq (1..gen) \X Nat
  /\ replies \in Seq((1..gen) \X Nat)
  /\ sent \in Seq(Bytes)

\* The line ends in what was sent, with one before the first byte.
Ends == {i \in DOMAIN sent : sent[i] = LF}
LineStarts == {0} \cup Ends

\* The lines of the whole stream that are not empty, by where they end, and
\* what is between two neighbouring line ends.
Lines == {i \in Ends : i - 1 \notin LineStarts}
Neighbours(a, b) == a < b /\ \A i \in Ends : ~(a < i /\ i < b)
LineBetween(a, b) == SubSeq(sent, a + 1, b - 1)

\* The texts handled are those of the lines in L, each once and in order.
TextsOf(L) ==
  \E ends \in [DOMAIN handled -> L] :
    /\ ToSet(ends) = L
    /\ \A j, k \in DOMAIN handled : j < k => ends[j] < ends[k]
    /\ \A k \in DOMAIN handled : \E a \in LineStarts :
         /\ Neighbours(a, ends[k])
         /\ handled[k] = CString(Stripped(LineBetween(a, ends[k])))

\* However the stream was cut into pieces, wherever a carriage return or a
\* command was torn, and whatever an earlier client left unfinished: the
\* texts handled are those of the lines of this client's stream that are not
\* empty, and what is kept is what follows the last line end.
LinesOfTheStream ==
  AtLoop =>
    /\ TextsOf(Lines)
    /\ \E last \in LineStarts :
         /\ \A i \in LineStarts : i <= last
         /\ data = SubSeq(sent, last + 1, Len(sent))

Times(r) == Cardinality({i \in DOMAIN replies : replies[i] = r})

\* Every text is accounted for: replied to once or waiting for its method,
\* and never both; only closing the connection, and `null`, have no reply.
EveryTextAccounted ==
  \A n \in DOMAIN handled :
    LET silent == Says(handled[n], "close") \/ Says(handled[n], "null")
    IN Times(<<gen, n>>) + Cardinality({<<gen, n>>} \cap waiting) = IF silent THEN 0 ELSE 1

=============================================================================
