------------------------ MODULE FrontEndCommandsProofs ------------------------
(*****************************************************************************)
(* The lines of a client's stream, and what becomes of them.  What is kept   *)
(* of the stream is its tail from Base on; of that, ClientDataCb has cut     *)
(* lines out up to Reached, which is a line end.  The texts handled are      *)
(* those of the lines up to there, wherever the stream was torn.             *)
(*****************************************************************************)
EXTENDS FrontEndCommands, SequenceTheorems, FiniteSetTheorems, TLAPS

\* The bytes that are not kept any more, and those that are worked off.
Base == Len(sent) - Len(data)
Reached == IF AtLoop THEN Base ELSE Base + start - 1

\* A client is there, or has been, when there is something to handle.
Connected == conn = "open" \/ ~AtLoop => gen \in 1..MaxConns

\* What is kept is the end of what was sent.
KeepsTheEnd ==
  /\ Base \in Nat
  /\ \A i \in DOMAIN data : data[i] = sent[Base + i]

\* Between two pieces no line end is kept.
NoEndKept == AtLoop => \A i \in DOMAIN data : data[i] # LF

------------------------------------------------------------------------------
(* Types.                                                                    *)

\* A set of numbers has a least one.
LEMMA LeastOne ==
  ASSUME NEW S \in SUBSET Nat, S # {}
  PROVE  \E x \in S : \A y \in S : x <= y
<1> DEFINE R == {p \in Nat \X Nat : p[1] < p[2]}
<1>1. IsWellFoundedOn(R, Nat)
  BY NatLessThanWellFounded DEF OpToRel
<1> HIDE DEF R
<1>2. PICK x \in S : \A y \in S : <<y, x>> \notin R
  BY <1>1, WFMin
<1>3. \A y \in S : y \in Nat /\ x \in Nat /\ <<y, x>> \in Nat \X Nat
  OBVIOUS
<1>4. \A y \in S : ~(y < x)
  BY <1>2, <1>3 DEF R
<1> QED BY <1>3, <1>4

\* A C string has the bytes of what it is cut from,
LEMMA CStringType ==
  ASSUME NEW s \in Seq(Bytes)
  PROVE  CString(s) \in Seq(Bytes)
<1>1. CASE NUL \in ToSet(s)
  <2> DEFINE I == {i \in 1..Len(s) : s[i] = NUL}
  <2>1. I # {} /\ I \in SUBSET Nat
    BY <1>1 DEF ToSet
  <2>2. Min(I) \in I
    BY <2>1, LeastOne DEF Min
  <2>3. SelectInSeq(s, LAMBDA b : b = NUL) = Min(I)
    BY <2>1 DEF SelectInSeq
  <2>4. CString(s) = SubSeq(s, 1, Min(I) - 1)
    BY <1>1, <2>3 DEF CString
  <2> HIDE DEF I
  <2>5. Min(I) \in 1..Len(s)
    BY <2>2 DEF I
  <2> QED BY <2>4, <2>5
<1>2. CASE NUL \notin ToSet(s)
  BY <1>2 DEF CString
<1> QED BY <1>1, <1>2

\* and so has a line without its carriage return.
LEMMA StrippedType ==
  ASSUME NEW s \in Seq(Bytes), s # <<>>
  PROVE  Stripped(s) \in Seq(Bytes)
BY DEF Stripped, Front

\* The text that a round of ClientDataCb hands on.
LEMMA TextType ==
  ASSUME TypeOK, NEW eol \in DOMAIN data, start \in 1..(eol - 1)
  PROVE  CString(Stripped(SubSeq(data, start, eol - 1))) \in Seq(Bytes)
<1>0. data \in Seq(Bytes) /\ eol \in 1..Len(data) /\ start \in Nat
  BY DEF TypeOK
<1>1. /\ SubSeq(data, start, eol - 1) \in Seq(Bytes)
      /\ SubSeq(data, start, eol - 1) # <<>>
  <2>1. \A i \in start..(eol - 1) : data[i] \in Bytes
    BY <1>0
  <2>2. /\ SubSeq(data, start, eol - 1) \in Seq(Bytes)
        /\ Len(SubSeq(data, start, eol - 1)) = eol - start
    BY <1>0, <2>1, SubSeqProperties
  <2> DEFINE line == SubSeq(data, start, eol - 1)
  <2>3. line \in Seq(Bytes) /\ Len(line) > 0
    BY <1>0, <2>2
  <2> HIDE DEF line
  <2>4. line # <<>>
    BY <2>3
  <2> QED BY <2>3, <2>4 DEF line
<1> QED BY <1>1, StrippedType, CStringType

\* What onFrontEndCommand leaves behind is of the types.
LEMMA OnFrontEndCommandType ==
  ASSUME TypeOK, gen \in 1..MaxConns, UNCHANGED <<gen, sent>>,
         NEW text \in Seq(Bytes), OnFrontEndCommand(text)
  PROVE  /\ conn' \in {"none", "open", "closing"}
         /\ handled' \in Seq(Seq(Bytes))
         /\ waiting' \subseteq (1..gen) \X Nat
         /\ replies' \in Seq((1..gen) \X Nat)
<1>1. Len(handled) + 1 \in Nat /\ <<gen, Len(handled) + 1>> \in (1..gen) \X Nat
  BY DEF TypeOK
<1>2. handled' \in Seq(Seq(Bytes))
  BY DEF TypeOK, OnFrontEndCommand
<1>3. replies' \in Seq((1..gen) \X Nat)
  <2>1. Append(replies, <<gen, Len(handled) + 1>>) \in Seq((1..gen) \X Nat)
    BY <1>1, AppendProperties DEF TypeOK
  <2> QED BY <2>1 DEF TypeOK, OnFrontEndCommand, Reply
<1>4. waiting' \subseteq (1..gen) \X Nat
  BY <1>1 DEF TypeOK, OnFrontEndCommand
<1>5. conn' \in {"none", "open", "closing"}
  BY DEF TypeOK, OnFrontEndCommand
<1> QED BY <1>2, <1>3, <1>4, <1>5

\* A piece is a sequence of bytes.
LEMMA PieceType ==
  ASSUME NEW n \in Nat, NEW piece \in [1..n -> Bytes]
  PROVE  piece \in Seq(Bytes) /\ Len(piece) = n
OBVIOUS

LEMMA NextType ==
  ASSUME TypeOK, Connected, [Next]_vars
  PROVE  (TypeOK /\ Connected)'
<1>0. MaxConns \in Nat /\ MaxBytes \in Nat
  BY BoundsAssumption
<1>1. CASE Accept
  BY <1>0, <1>1 DEF Accept, TypeOK, Connected, AtLoop
<1>2. CASE Hangup \/ ClientClosedCb
  BY <1>2 DEF Hangup, ClientClosedCb, TypeOK, Connected, AtLoop
<1>3. CASE ClientDataCb
  <2>1. PICK n \in 1..(MaxBytes - Len(sent)) : \E piece \in [1..n -> Bytes] :
               data' = data \o piece /\ sent' = sent \o piece
    BY <1>3 DEF ClientDataCb
  <2>2. PICK piece \in [1..n -> Bytes] : data' = data \o piece /\ sent' = sent \o piece
    BY <2>1
  <2>3. n \in Nat
    BY <1>0 DEF TypeOK
  <2>4. piece \in Seq(Bytes) /\ Len(piece) = n
    BY <2>3, PieceType
  <2>5. data' \in Seq(Bytes) /\ sent' \in Seq(Bytes) /\ Len(data') \in Nat
    BY <2>2, <2>4 DEF TypeOK
  <2> QED BY <1>3, <2>5 DEF ClientDataCb, TypeOK, Connected, AtLoop
<1>4. CASE TakeLine
  <2>1. PICK eol \in DOMAIN data :
          /\ IsEol(eol)
          /\ start' = eol + 1
          /\ IF eol > start
             THEN OnFrontEndCommand(CString(Stripped(SubSeq(data, start, eol - 1))))
             ELSE UNCHANGED <<conn, handled, waiting, replies>>
    BY <1>4 DEF TakeLine
  <2>2. UNCHANGED <<gen, data, sent>> /\ ~AtLoop
    BY <1>4 DEF TakeLine
  <2>3. gen \in 1..MaxConns /\ start \in Nat \ {0} /\ eol \in 1..Len(data)
    BY <2>2 DEF Connected, TypeOK, AtLoop
  <2>4. start' \in 1..(Len(data') + 1)
    BY <2>1, <2>2, <2>3 DEF TypeOK
  <2>5. CASE eol > start
    <3>1. start \in 1..(eol - 1)
      BY <2>3, <2>5
    <3>2. CString(Stripped(SubSeq(data, start, eol - 1))) \in Seq(Bytes)
      BY <3>1, TextType
    <3>3. /\ conn' \in {"none", "open", "closing"}
          /\ handled' \in Seq(Seq(Bytes))
          /\ waiting' \subseteq (1..gen) \X Nat
          /\ replies' \in Seq((1..gen) \X Nat)
      BY <2>1, <2>2, <2>3, <2>5, <3>2, OnFrontEndCommandType
    <3> QED BY <2>2, <2>3, <2>4, <3>3 DEF TypeOK, Connected, AtLoop
  <2>6. CASE ~(eol > start)
    BY <2>1, <2>2, <2>3, <2>4, <2>6 DEF TypeOK, Connected, AtLoop
  <2> QED BY <2>5, <2>6
<1>5. CASE KeepRest
  BY <1>5 DEF KeepRest, TypeOK, Connected, AtLoop
<1>6. CASE MethodReplies
  BY <1>6 DEF MethodReplies, TypeOK, Connected, AtLoop
<1>7. CASE UNCHANGED vars
  BY <1>7 DEF vars, TypeOK, Connected, AtLoop
<1> QED BY <1>1, <1>2, <1>3, <1>4, <1>5, <1>6, <1>7 DEF Next

LEMMA InitType == Init => TypeOK /\ Connected
BY BoundsAssumption DEF Init, TypeOK, Connected, AtLoop

LEMMA TypesAlways == Spec => [](TypeOK /\ Connected)
<1>1. TypeOK /\ Connected /\ [Next]_vars => (TypeOK /\ Connected)'
  BY NextType
<1> QED BY <1>1, InitType, PTL DEF Spec

\* TypeOK is an invariant: whatever is torn, the next line never starts
\* behind the data that are kept.
THEOREM TypeCorrect == Spec => []TypeOK
BY TypesAlways, PTL

------------------------------------------------------------------------------
(* The lines of a stream s, and the texts h of those up to p.                *)

EndsIn(s) == {i \in DOMAIN s : s[i] = LF}
StartsIn(s) == {0} \cup EndsIn(s)
LinesIn(s, p) == {i \in {j \in EndsIn(s) : j - 1 \notin StartsIn(s)} : i <= p}

\* Text x is that of the line of s that ends at e.
IsLine(s, e, x) ==
  \E a \in StartsIn(s) : /\ a < e /\ \A i \in EndsIn(s) : ~(a < i /\ i < e)
                         /\ x = CString(Stripped(SubSeq(s, a + 1, e - 1)))

\* ends are those of the lines of s up to p, and h their texts.
EndsAre(ends, h, s, p) ==
  /\ ends \in [DOMAIN h -> LinesIn(s, p)]
  /\ ToSet(ends) = LinesIn(s, p)
  /\ \A j, k \in DOMAIN h : j < k => ends[j] < ends[k]
  /\ \A k \in DOMAIN h : IsLine(s, ends[k], h[k])

Texts(h, s, p) == \E ends : EndsAre(ends, h, s, p)

\* What the property says of the texts, in these terms.
LEMMA TextsAreTexts ==
  ASSUME NEW p, \A i \in Ends : i <= p, Texts(handled, sent, p)
  PROVE  TextsOf(Lines)
<1>1. /\ Lines = LinesIn(sent, p)
      /\ LineStarts = StartsIn(sent) /\ Ends = EndsIn(sent)
  BY DEF Lines, LineStarts, Ends, LinesIn, StartsIn, EndsIn
<1> QED
  BY <1>1 DEF TextsOf, Neighbours, LineBetween, Texts, EndsAre, IsLine

\* What the stream has up to p does not change when more is sent.
LEMMA MoreSent ==
  ASSUME NEW s \in Seq(Bytes), NEW t \in Seq(Bytes), NEW h,
         NEW p \in StartsIn(s), Texts(h, s, p)
  PROVE  p \in StartsIn(s \o t) /\ Texts(h, s \o t, p)
<1> DEFINE u == s \o t
<1>1. /\ Len(s) \in Nat /\ DOMAIN s = 1..Len(s)
      /\ Len(t) \in Nat /\ DOMAIN u = 1..(Len(s) + Len(t))
      /\ \A i \in 1..Len(s) : u[i] = s[i]
  OBVIOUS
<1>2. \A i \in 0..Len(s) : i \in EndsIn(u) <=> i \in EndsIn(s)
  BY <1>1 DEF EndsIn
<1>3. \A i \in 0..Len(s) : i \in StartsIn(u) <=> i \in StartsIn(s)
  BY <1>2 DEF StartsIn
<1>4. p \in 0..Len(s) /\ EndsIn(s) \subseteq 1..Len(s) /\ EndsIn(u) \subseteq 1..(Len(s) + Len(t))
  BY <1>1 DEF StartsIn, EndsIn
<1>5. LinesIn(u, p) = LinesIn(s, p) /\ LinesIn(s, p) \subseteq 1..Len(s)
  <2>1. ASSUME NEW i \in 1..Len(s)
        PROVE  i \in LinesIn(u, p) <=> i \in LinesIn(s, p)
    <3>1. i - 1 \in 0..Len(s)
      BY <1>1
    <3> QED BY <1>1, <1>2, <1>3, <3>1 DEF LinesIn
  <2>2. \A i \in LinesIn(u, p) : i \in 1..Len(s)
    BY <1>1, <1>4 DEF LinesIn
  <2>3. \A i \in LinesIn(s, p) : i \in 1..Len(s)
    BY <1>4 DEF LinesIn
  <2> QED BY <2>1, <2>2, <2>3
<1>6. PICK ends : EndsAre(ends, h, s, p)
  BY DEF Texts
<1>7. ASSUME NEW k \in DOMAIN h
      PROVE  IsLine(u, ends[k], h[k])
  <2>1. PICK a \in StartsIn(s) :
          /\ a < ends[k] /\ \A i \in EndsIn(s) : ~(a < i /\ i < ends[k])
          /\ h[k] = CString(Stripped(SubSeq(s, a + 1, ends[k] - 1)))
    BY <1>6 DEF EndsAre, IsLine
  <2>2. a \in 0..Len(s) /\ ends[k] \in 1..Len(s)
    BY <1>1, <1>4, <1>5, <1>6 DEF EndsAre, StartsIn
  <2>3. \A i \in EndsIn(u) : ~(a < i /\ i < ends[k])
    BY <1>1, <1>2, <1>4, <2>1, <2>2
  <2>4. SubSeq(u, a + 1, ends[k] - 1) = SubSeq(s, a + 1, ends[k] - 1)
    <3>1. CASE a + 1 <= ends[k] - 1
      BY <1>1, <2>2, <3>1, SubSeqOfConcat1
    <3>2. CASE ends[k] - 1 < a + 1
      BY <2>2, <3>2, SubSeqEmpty
    <3> QED BY <2>2, <3>1, <3>2
  <2>5. a \in StartsIn(u)
    BY <1>3, <2>2
  <2>6. h[k] = CString(Stripped(SubSeq(u, a + 1, ends[k] - 1)))
    BY <2>1, <2>4
  <2> HIDE DEF u
  <2> QED BY <2>1, <2>3, <2>5, <2>6 DEF IsLine
<1> HIDE DEF u
<1>8. EndsAre(ends, h, u, p)
  BY <1>5, <1>6, <1>7 DEF EndsAre
<1>9. Texts(h, u, p) /\ p \in StartsIn(u)
  BY <1>3, <1>4, <1>8 DEF Texts
<1> QED BY <1>9 DEF u

\* The next line end after p is e.
NextEnd(s, p, e) ==
  /\ e \in EndsIn(s) /\ p < e
  /\ \A i \in EndsIn(s) : ~(p < i /\ i < e)

\* An empty line adds no text,
LEMMA EmptyLine ==
  ASSUME NEW s \in Seq(Bytes), NEW h, NEW p \in StartsIn(s), Texts(h, s, p),
         NextEnd(s, p, p + 1)
  PROVE  Texts(h, s, p + 1)
<1>1. EndsIn(s) \subseteq Nat /\ p \in Nat
  BY DEF StartsIn, EndsIn
<1>2. LinesIn(s, p + 1) = LinesIn(s, p)
  BY <1>1 DEF LinesIn
<1> QED BY <1>2 DEF Texts, EndsAre

\* and any other its own, as the last one.
LEMMA FullLine ==
  ASSUME NEW T, NEW s \in Seq(Bytes), NEW h \in Seq(T), NEW p \in StartsIn(s), Texts(h, s, p),
         NEW e, NextEnd(s, p, e), e # p + 1,
         NEW x \in T, x = CString(Stripped(SubSeq(s, p + 1, e - 1)))
  PROVE  Texts(Append(h, x), s, e)
<1>1. EndsIn(s) \subseteq Nat \ {0} /\ p \in Nat /\ e \in Nat /\ p + 1 < e
  BY DEF StartsIn, EndsIn, NextEnd
<1>2. LinesIn(s, e) = LinesIn(s, p) \cup {e}
  <2>1. e - 1 \notin StartsIn(s)
    BY <1>1 DEF StartsIn, NextEnd
  <2>2. \A i \in EndsIn(s) : i <= e <=> i <= p \/ i = e
    BY <1>1 DEF NextEnd
  <2> QED BY <2>1, <2>2 DEF LinesIn, NextEnd
<1>3. PICK ends : EndsAre(ends, h, s, p)
  BY DEF Texts
<1>4. LinesIn(s, p) \subseteq Nat /\ \A i \in LinesIn(s, p) : i < e
  BY <1>1 DEF LinesIn
<1> DEFINE n == Len(h)
           g == Append(h, x)
           es == [k \in 1..(n + 1) |-> IF k = n + 1 THEN e ELSE ends[k]]
<1>5. /\ n \in Nat /\ DOMAIN h = 1..n /\ DOMAIN g = 1..(n + 1)
      /\ \A k \in 1..n : g[k] = h[k]
      /\ g[n + 1] = x
  OBVIOUS
<1> HIDE DEF g
<1>6. \A k \in 1..n : ends[k] \in LinesIn(s, p)
  BY <1>3, <1>5 DEF EndsAre
<1>7. es \in [DOMAIN g -> LinesIn(s, e)]
  BY <1>2, <1>5, <1>6
<1>8. ToSet(es) = LinesIn(s, e)
  <2>1. ToSet(es) \subseteq LinesIn(s, e)
    BY <1>5, <1>7 DEF ToSet
  <2>2. ASSUME NEW i \in LinesIn(s, e) PROVE i \in ToSet(es)
    <3>1. CASE i = e
      <4>1. n + 1 \in DOMAIN es /\ es[n + 1] = i
        BY <1>5, <3>1
      <4> QED BY <4>1 DEF ToSet
    <3>2. CASE i \in LinesIn(s, p)
      <4>1. PICK k \in 1..n : ends[k] = i
        BY <1>3, <1>5, <3>2 DEF EndsAre, ToSet
      <4>2. k \in DOMAIN es /\ es[k] = i
        BY <1>5, <4>1
      <4> QED BY <4>2 DEF ToSet
    <3> QED BY <1>2, <3>1, <3>2
  <2> QED BY <2>1, <2>2
<1>9. \A j, k \in DOMAIN g : j < k => es[j] < es[k]
  BY <1>3, <1>4, <1>5, <1>6 DEF EndsAre
<1>10. ASSUME NEW k \in DOMAIN g PROVE IsLine(s, es[k], g[k])
  <2>1. CASE k = n + 1
    BY <1>1, <1>5, <2>1 DEF IsLine, NextEnd
  <2>2. CASE k \in 1..n
    BY <1>3, <1>5, <2>2 DEF EndsAre
  <2> QED BY <1>5, <2>1, <2>2
<1> HIDE DEF es
<1>11. EndsAre(es, g, s, e)
  BY <1>7, <1>8, <1>9, <1>10 DEF EndsAre
<1> QED BY <1>11 DEF Texts, g

------------------------------------------------------------------------------
(* ClientDataCb cuts the stream into its lines.                              *)

Cut ==
  /\ KeepsTheEnd
  /\ NoEndKept
  /\ Reached \in StartsIn(sent)
  /\ Texts(handled, sent, Reached)

\* Nothing of it depends on who is connected.
LEMMA CutUnchanged ==
  ASSUME Cut, UNCHANGED <<data, sent, start, handled>>
  PROVE  Cut'
BY DEF Cut, KeepsTheEnd, NoEndKept, Reached, Base, AtLoop

LEMMA InitCut ==
  ASSUME NEW s, s = <<>>, NEW h, h = <<>>
  PROVE  0 \in StartsIn(s) /\ Texts(h, s, 0)
<1>1. LinesIn(s, 0) = {} /\ DOMAIN h = {}
  BY DEF LinesIn, EndsIn
<1>2. ToSet(<<>>) = {} /\ <<>> \in [{} -> {}]
  BY DEF ToSet
<1>3. EndsAre(<<>>, h, s, 0)
  BY <1>1, <1>2 DEF EndsAre
<1> QED BY <1>3 DEF Texts, StartsIn

\* A piece goes behind what is kept.
LEMMA ClientDataCbCut ==
  ASSUME TypeOK, Cut, ClientDataCb
  PROVE  Cut'
<1>1. PICK n \in 1..(MaxBytes - Len(sent)) : \E piece \in [1..n -> Bytes] :
             data' = data \o piece /\ sent' = sent \o piece
  BY DEF ClientDataCb
<1>2. PICK piece \in [1..n -> Bytes] : data' = data \o piece /\ sent' = sent \o piece
  BY <1>1
<1>3. n \in Nat /\ data \in Seq(Bytes) /\ sent \in Seq(Bytes)
  BY <1>1, BoundsAssumption DEF TypeOK
<1>4. piece \in Seq(Bytes) /\ Len(piece) = n
  BY <1>3, PieceType
<1>5. /\ Len(data) \in Nat /\ Len(sent) \in Nat
      /\ Len(data') = Len(data) + n /\ Len(sent') = Len(sent) + n
      /\ DOMAIN data = 1..Len(data) /\ DOMAIN data' = 1..Len(data')
      /\ \A i \in 1..(Len(data) + n) :
           data'[i] = IF i <= Len(data) THEN data[i] ELSE piece[i - Len(data)]
      /\ \A i \in 1..(Len(sent) + n) :
           sent'[i] = IF i <= Len(sent) THEN sent[i] ELSE piece[i - Len(sent)]
  <2>1. /\ data' \in Seq(Bytes) /\ Len(data') = Len(data) + n
        /\ \A i \in 1..(Len(data) + n) :
             data'[i] = IF i <= Len(data) THEN data[i] ELSE piece[i - Len(data)]
    BY <1>2, <1>3, <1>4, ConcatProperties
  <2>2. /\ sent' \in Seq(Bytes) /\ Len(sent') = Len(sent) + n
        /\ \A i \in 1..(Len(sent) + n) :
             sent'[i] = IF i <= Len(sent) THEN sent[i] ELSE piece[i - Len(sent)]
    BY <1>2, <1>3, <1>4, ConcatProperties
  <2> QED BY <1>3, <2>1, <2>2
<1>6. start = 0 /\ start' = 1 /\ handled' = handled
  BY DEF ClientDataCb, AtLoop
<1>7. Base' = Base /\ Reached' = Reached /\ Base \in Nat /\ Base = Len(sent) - Len(data)
  BY <1>5, <1>6 DEF Base, Reached, AtLoop, Cut, KeepsTheEnd
<1>8. \A i \in DOMAIN data' : data'[i] = sent'[Base + i]
  <2> TAKE i \in DOMAIN data'
  <2>1. CASE i <= Len(data)
    <3>1. data'[i] = data[i] /\ sent'[Base + i] = sent[Base + i]
      BY <1>5, <1>7, <2>1
    <3> QED BY <1>5, <2>1, <3>1 DEF Cut, KeepsTheEnd
  <2>2. CASE i > Len(data)
    <3>1. data'[i] = piece[i - Len(data)] /\ sent'[Base + i] = piece[Base + i - Len(sent)]
      BY <1>3, <1>5, <1>7, <2>2
    <3> QED BY <1>5, <1>7, <3>1
  <2> QED BY <1>5, <2>1, <2>2
<1>9. Reached' \in StartsIn(sent') /\ Texts(handled', sent', Reached')
  BY <1>2, <1>3, <1>4, <1>6, <1>7, MoreSent DEF Cut
<1> QED BY <1>6, <1>7, <1>8, <1>9 DEF Cut, KeepsTheEnd, NoEndKept, AtLoop

\* A round of the loop cuts the next line out.
LEMMA TakeLineCut ==
  ASSUME TypeOK, Cut, TakeLine
  PROVE  Cut'
<1>1. PICK eol \in DOMAIN data :
        /\ IsEol(eol)
        /\ start' = eol + 1
        /\ IF eol > start
           THEN OnFrontEndCommand(CString(Stripped(SubSeq(data, start, eol - 1))))
           ELSE UNCHANGED <<conn, handled, waiting, replies>>
  BY DEF TakeLine
<1>2. UNCHANGED <<data, sent>> /\ start # 0
  BY DEF TakeLine, AtLoop
<1>3. /\ data \in Seq(Bytes) /\ sent \in Seq(Bytes) /\ handled \in Seq(Seq(Bytes))
      /\ Len(data) \in Nat /\ Len(sent) \in Nat /\ DOMAIN data = 1..Len(data)
      /\ DOMAIN sent = 1..Len(sent) /\ start \in 1..(Len(data) + 1) /\ eol \in 1..Len(data)
  BY <1>2 DEF TypeOK
<1> DEFINE e == Base + eol
<1>4. /\ Base \in Nat /\ Base = Len(sent) - Len(data)
      /\ Reached = Base + start - 1
      /\ Base' = Base /\ Reached' = e
  <2>1. Base \in Nat /\ Base = Len(sent) - Len(data) /\ Base' = Base
    BY <1>2 DEF Base, Cut, KeepsTheEnd
  <2>2. Reached = Base + start - 1 /\ Reached' = Base' + start' - 1 /\ start' = eol + 1
    BY <1>1, <1>2, <1>3 DEF Reached, AtLoop
  <2> QED BY <1>3, <2>1, <2>2
<1>5. \A i \in 1..Len(data) : Base + i \in 1..Len(sent) /\ data[i] = sent[Base + i]
  <2>1. \A i \in 1..Len(data) : Base + i \in 1..Len(sent)
    BY <1>3, <1>4
  <2>2. \A i \in 1..Len(data) : data[i] = sent[Base + i]
    BY <1>3 DEF Cut, KeepsTheEnd
  <2> QED BY <2>1, <2>2
<1>6. eol >= start /\ data[eol] = LF /\ \A j \in start..(eol - 1) : data[j] # LF
  BY <1>1, <1>3 DEF IsEol
<1>7. NextEnd(sent, Reached, e)
  <2>1. e \in EndsIn(sent) /\ Reached < e
    BY <1>3, <1>4, <1>5, <1>6 DEF EndsIn
  <2>2. ASSUME NEW i \in EndsIn(sent), Reached < i, i < e PROVE FALSE
    <3>1. i \in 1..Len(sent) /\ sent[i] = LF
      BY <1>3 DEF EndsIn
    <3>2. i - Base \in start..(eol - 1) /\ i - Base \in 1..Len(data) /\ Base + (i - Base) = i
      BY <1>3, <1>4, <2>2, <3>1
    <3> QED BY <1>5, <1>6, <3>1, <3>2
  <2> QED BY <2>1, <2>2 DEF NextEnd
<1>8. Texts(handled', sent, e)
  <2>1. CASE eol > start
    <3> DEFINE line == SubSeq(data, start, eol - 1)
               text == CString(Stripped(line))
    <3>1. line = SubSeq(sent, Reached + 1, e - 1)
      <4>1. \A i \in start..(eol - 1) : data[i] \in Bytes
        BY <1>3
      <4>2. \A i \in (Reached + 1)..(e - 1) : sent[i] \in Bytes
        BY <1>3, <1>4
      <4>3. /\ line \in Seq(Bytes) /\ Len(line) = eol - start
            /\ \A i \in 1..(eol - start) : line[i] = data[start + i - 1]
        BY <1>3, <2>1, <4>1, SubSeqProperties
      <4>4. /\ SubSeq(sent, Reached + 1, e - 1) \in Seq(Bytes)
            /\ Len(SubSeq(sent, Reached + 1, e - 1)) = eol - start
            /\ \A i \in 1..(eol - start) :
                 SubSeq(sent, Reached + 1, e - 1)[i] = sent[Base + (start + i - 1)]
        <5>1. /\ Reached + 1 \in Int /\ e - 1 \in Int /\ Reached + 1 <= e - 1
              /\ e - 1 - (Reached + 1) + 1 = eol - start
              /\ \A i \in 1..(eol - start) : Reached + 1 + i - 1 = Base + (start + i - 1)
          BY <1>3, <1>4, <2>1
        <5> QED BY <4>2, <5>1, SubSeqProperties
      <4>5. \A i \in 1..(eol - start) : data[start + i - 1] = sent[Base + (start + i - 1)]
        BY <1>3, <1>5
      <4> HIDE DEF line
      <4> QED BY <4>3, <4>4, <4>5, SeqEqual
    <3>2. text \in Seq(Bytes)
      BY <1>3, <2>1, TextType
    <3>3. handled' = Append(handled, text)
      BY <1>1, <2>1 DEF OnFrontEndCommand
    <3>4. e # Reached + 1
      BY <1>3, <1>4, <2>1
    <3> HIDE DEF line, e
    <3>5. text = CString(Stripped(SubSeq(sent, Reached + 1, e - 1)))
      BY <3>1
    <3> HIDE DEF text
    <3> QED BY <1>3, <1>7, <3>2, <3>3, <3>4, <3>5, FullLine DEF Cut
  <2>2. CASE ~(eol > start)
    <3>1. e = Reached + 1 /\ handled' = handled
      <4>1. eol = start
        BY <1>3, <1>6, <2>2
      <4>2. handled' = handled
        BY <1>1, <2>2
      <4> QED BY <1>3, <1>4, <4>1, <4>2
    <3> QED BY <1>3, <1>7, <3>1, EmptyLine DEF Cut
  <2> QED BY <2>1, <2>2
<1>9. e \in StartsIn(sent)
  BY <1>7 DEF NextEnd, StartsIn
<1>10. KeepsTheEnd' /\ NoEndKept'
  <2>1. KeepsTheEnd'
    <3>1. KeepsTheEnd
      BY DEF Cut
    <3>2. Base' = Base /\ data' = data /\ sent' = sent
      BY <1>2, <1>4
    <3> QED BY <3>1, <3>2 DEF KeepsTheEnd
  <2>2. start' # 0
    BY <1>1, <1>3
  <2> QED BY <2>1, <2>2 DEF NoEndKept, AtLoop
<1> QED BY <1>2, <1>4, <1>8, <1>9, <1>10 DEF Cut

\* What is left behind the last line end is kept.
LEMMA KeepRestCut ==
  ASSUME TypeOK, Cut, KeepRest
  PROVE  Cut'
<1>1. /\ start # 0 /\ start' = 0 /\ UNCHANGED <<sent, handled>>
      /\ data' = SubSeq(data, start, Len(data))
      /\ \A i \in DOMAIN data : ~IsEol(i)
  BY DEF KeepRest, AtLoop
<1>2. /\ data \in Seq(Bytes) /\ Len(data) \in Nat /\ DOMAIN data = 1..Len(data)
      /\ Len(sent) \in Nat /\ start \in 1..(Len(data) + 1)
  BY <1>1 DEF TypeOK
<1>3. \A i \in start..Len(data) : data[i] \in Bytes
  BY <1>2
<1>4. /\ data' \in Seq(Bytes) /\ Len(data') = Len(data) - start + 1
      /\ \A i \in 1..(Len(data) - start + 1) : data'[i] = data[start + i - 1]
  BY <1>1, <1>2, <1>3, SubSeqProperties
<1>5. \A i \in start..Len(data) : data[i] # LF
  <2> DEFINE S == {i \in start..Len(data) : data[i] = LF}
  <2>1. ASSUME S # {} PROVE FALSE
    <3>1. S \in SUBSET Nat
      BY <1>2
    <3>2. PICK i \in S : \A j \in S : i <= j
      BY <2>1, <3>1, LeastOne
    <3>3. IsEol(i)
      BY <1>2, <3>2 DEF IsEol
    <3> QED BY <1>1, <1>2, <3>2, <3>3
  <2> QED BY <2>1
<1>6. /\ Base \in Nat /\ Base = Len(sent) - Len(data)
      /\ Reached = Base + start - 1
      /\ \A i \in 1..Len(data) : data[i] = sent[Base + i]
  BY <1>1, <1>2 DEF Base, Reached, AtLoop, Cut, KeepsTheEnd
<1>7. Base' = Reached /\ Reached' = Reached /\ Reached \in Nat
  BY <1>1, <1>2, <1>4, <1>6 DEF Base, Reached, AtLoop
<1>8. DOMAIN data' = 1..(Len(data) - start + 1)
  BY <1>4
<1>9. ASSUME NEW i \in DOMAIN data'
      PROVE  data'[i] = sent'[Base' + i] /\ data'[i] # LF
  <2>1. start + i - 1 \in start..Len(data) /\ start + i - 1 \in 1..Len(data)
        /\ i \in 1..(Len(data) - start + 1)
    BY <1>2, <1>8
  <2>2. data'[i] = data[start + i - 1]
    BY <1>4, <2>1
  <2>3. data[start + i - 1] = sent[Base + (start + i - 1)] /\ data[start + i - 1] # LF
    BY <1>5, <1>6, <2>1
  <2>4. Base' + i = Base + (start + i - 1)
    BY <1>2, <1>6, <1>7, <2>1
  <2> QED BY <1>1, <2>2, <2>3, <2>4
<1> QED BY <1>1, <1>7, <1>9 DEF Cut, KeepsTheEnd, NoEndKept

LEMMA NextCut ==
  ASSUME TypeOK, Cut, [Next]_vars
  PROVE  Cut'
<1>1. CASE Accept
  <2>1. start' = 0 /\ data' = <<>> /\ sent' = <<>> /\ handled' = <<>>
    BY <1>1 DEF Accept, AtLoop
  <2>2. Base' = 0 /\ Reached' = 0
    BY <2>1 DEF Base, Reached, AtLoop
  <2> QED BY <2>1, <2>2, InitCut DEF Cut, KeepsTheEnd, NoEndKept
<1>2. CASE Hangup \/ ClientClosedCb \/ MethodReplies \/ UNCHANGED vars
  BY <1>2, CutUnchanged DEF Hangup, ClientClosedCb, MethodReplies, vars
<1> QED BY <1>1, <1>2, ClientDataCbCut, TakeLineCut, KeepRestCut DEF Next

LEMMA CutAlways == Spec => []Cut
<1>1. Init => Cut
  <2>1. Init => Base = 0 /\ Reached = 0
    BY DEF Init, Base, Reached, AtLoop
  <2> QED BY <2>1, InitCut DEF Init, Cut, KeepsTheEnd, NoEndKept
<1>2. TypeOK /\ Cut /\ [Next]_vars => Cut'
  BY NextCut
<1> QED BY <1>1, <1>2, TypeCorrect, PTL DEF Spec

\* What the invariant says between two pieces.
LEMMA CutGivesLines == TypeOK /\ Cut => LinesOfTheStream
<1> SUFFICES ASSUME TypeOK, Cut, AtLoop PROVE
      /\ TextsOf(Lines)
      /\ \E last \in LineStarts :
           /\ \A i \in LineStarts : i <= last
           /\ data = SubSeq(sent, last + 1, Len(sent))
  BY DEF LinesOfTheStream
<1>1. /\ data \in Seq(Bytes) /\ Len(data) \in Nat /\ DOMAIN data = 1..Len(data)
      /\ sent \in Seq(Bytes) /\ Len(sent) \in Nat /\ DOMAIN sent = 1..Len(sent)
      /\ Base \in Nat /\ Base = Len(sent) - Len(data) /\ Reached = Base
      /\ \A i \in 1..Len(data) : data[i] = sent[Base + i] /\ data[i] # LF
  BY DEF TypeOK, Cut, KeepsTheEnd, NoEndKept, Reached, Base
<1>2. \A i \in Ends : i <= Base
  <2> SUFFICES ASSUME NEW i \in Ends, i > Base PROVE FALSE
    BY <1>1 DEF Ends
  <2>1. i - Base \in 1..Len(data) /\ Base + (i - Base) = i /\ sent[i] = LF
    BY <1>1 DEF Ends
  <2> QED BY <1>1, <2>1
<1>3. TextsOf(Lines)
  BY <1>1, <1>2, TextsAreTexts DEF Cut
<1>4. Base \in LineStarts /\ \A i \in LineStarts : i <= Base
  <2>1. Base \in LineStarts
    BY <1>1 DEF Cut, LineStarts, Ends, StartsIn, EndsIn
  <2>2. 0 <= Base
    BY <1>1
  <2>3. \A i \in LineStarts : i = 0 \/ i \in Ends
    BY DEF LineStarts
  <2> QED BY <1>2, <2>1, <2>2, <2>3
<1>5. data = SubSeq(sent, Base + 1, Len(sent))
  <2>1. \A i \in (Base + 1)..Len(sent) : sent[i] \in Bytes
    BY <1>1
  <2>2. /\ SubSeq(sent, Base + 1, Len(sent)) \in Seq(Bytes)
        /\ Len(SubSeq(sent, Base + 1, Len(sent))) = Len(data)
        /\ \A i \in 1..Len(data) : SubSeq(sent, Base + 1, Len(sent))[i] = sent[Base + i]
    <3>1. /\ Base + 1 \in Int /\ Len(sent) \in Int
          /\ Len(sent) - (Base + 1) + 1 = Len(data)
          /\ (Base + 1 > Len(sent) <=> Len(data) = 0)
          /\ \A i \in 1..Len(data) : Base + 1 + i - 1 = Base + i
      BY <1>1
    <3> QED BY <2>1, <3>1, SubSeqProperties
  <2> QED BY <1>1, <2>2, SeqEqual
<1> QED BY <1>3, <1>4, <1>5

\* However the stream is cut into pieces, the texts handled are those of its
\* lines that are not empty, and what is kept is what follows the last line
\* end: LinesOfTheStream.
THEOREM LinesOfTheStreamAlways == Spec => []LinesOfTheStream
BY CutAlways, TypeCorrect, CutGivesLines, PTL

------------------------------------------------------------------------------
(* What becomes of a text.                                                   *)

Count(s, r) == Cardinality({i \in DOMAIN s : s[i] = r})

\* What is counted is finite, and counts for one more when it is appended.
LEMMA CountAppend ==
  ASSUME NEW T, NEW s \in Seq(T), NEW x \in T, NEW r
  PROVE  /\ Count(s, r) \in Nat
         /\ Count(Append(s, x), r) = IF x = r THEN Count(s, r) + 1 ELSE Count(s, r)
<1> DEFINE n == Len(s)
           at == {i \in DOMAIN s : s[i] = r}
           then == {i \in DOMAIN Append(s, x) : Append(s, x)[i] = r}
<1>1. /\ n \in Nat /\ DOMAIN s = 1..n /\ DOMAIN Append(s, x) = 1..(n + 1)
      /\ \A i \in 1..n : Append(s, x)[i] = s[i]
      /\ Append(s, x)[n + 1] = x
  OBVIOUS
<1>2. IsFiniteSet(at)
  <2>1. IsFiniteSet(1..n)
    BY <1>1, FS_Interval
  <2>2. at \in SUBSET (1..n)
    BY <1>1
  <2> QED BY <2>1, <2>2, FS_Subset
<1>3. n + 1 \notin at /\ then = IF x = r THEN at \cup {n + 1} ELSE at
  BY <1>1
<1> HIDE DEF at, then
<1>4. Cardinality(at) \in Nat
  BY <1>2, FS_CardinalityType
<1>5. Cardinality(at \cup {n + 1}) = Cardinality(at) + 1
  BY <1>2, <1>3, FS_AddElement
<1> QED BY <1>3, <1>4, <1>5 DEF at, then, Count

\* What is nowhere counts for nothing.
LEMMA CountNone ==
  ASSUME NEW s, NEW r, \A i \in DOMAIN s : s[i] # r
  PROVE  Count(s, r) = 0
<1>1. {i \in DOMAIN s : s[i] = r} = {}
  OBVIOUS
<1> QED BY <1>1, FS_EmptySet DEF Count

LEMMA AppendNone ==
  ASSUME NEW T, NEW s \in Seq(T), NEW x \in T, NEW r, x # r, \A i \in DOMAIN s : s[i] # r
  PROVE  \A i \in DOMAIN Append(s, x) : Append(s, x)[i] # r
<1>1. /\ Len(s) \in Nat /\ DOMAIN s = 1..Len(s) /\ DOMAIN Append(s, x) = 1..(Len(s) + 1)
      /\ \A i \in 1..Len(s) : Append(s, x)[i] = s[i]
      /\ Append(s, x)[Len(s) + 1] = x
  OBVIOUS
<1> TAKE i \in DOMAIN Append(s, x)
<1>2. i \in 1..Len(s) \/ i = Len(s) + 1
  BY <1>1
<1> QED BY <1>1, <1>2

\* 1 if x is in S, and 0 otherwise.
LEMMA OneIfIn ==
  ASSUME NEW S, NEW x
  PROVE  Cardinality({x} \cap S) = IF x \in S THEN 1 ELSE 0
<1>1. CASE x \in S
  <2>1. {x} \cap S = {x}
    BY <1>1
  <2> QED BY <1>1, <2>1, FS_Singleton
<1>2. CASE x \notin S
  <2>1. {x} \cap S = {}
    BY <1>2
  <2> QED BY <1>2, <2>1, FS_EmptySet
<1> QED BY <1>1, <1>2

\* How often text n of connection g, in the replies s and the waiting w.
Owed(s, w, g, n) == Count(s, <<g, n>>) + (IF <<g, n>> \in w THEN 1 ELSE 0)

Silent(text) == Says(text, "close") \/ Says(text, "null")

\* Each text handled has its reply or waits for it, and no other has.
Accounted ==
  /\ \A n \in DOMAIN handled :
       Owed(replies, waiting, gen, n) = IF Silent(handled[n]) THEN 0 ELSE 1
  /\ \A n \in Nat : n > Len(handled) =>
       <<gen, n>> \notin waiting /\ \A i \in DOMAIN replies : replies[i] # <<gen, n>>

\* The invariant is the property, with what comes next.
LEMMA AccountedGives == Accounted => EveryTextAccounted
BY OneIfIn DEF Accounted, EveryTextAccounted, Owed, Count, Times, Silent

\* A text says one thing at most.
LEMMA SaysOne ==
  ASSUME NEW text, NEW c \in AllCommands, NEW d \in AllCommands, Says(text, c), Says(text, d)
  PROVE  c = d
BY DEF Says, AllCommands, CR

\* Nobody else's reply or waiting changes what is owed to a text.
LEMMA OwedToOthers ==
  ASSUME NEW T, NEW s \in Seq(T), NEW x \in T, NEW w, NEW g, NEW n, <<g, n>> # x
  PROVE  /\ Owed(Append(s, x), w, g, n) = Owed(s, w, g, n)
         /\ Owed(s, w \cup {x}, g, n) = Owed(s, w, g, n)
         /\ Owed(Append(s, x), w \ {x}, g, n) = Owed(s, w, g, n)
<1>1. Count(Append(s, x), <<g, n>>) = Count(s, <<g, n>>)
  BY CountAppend
<1> QED BY <1>1 DEF Owed

LEMMA OnFrontEndCommandAccounted ==
  ASSUME TypeOK, gen \in 1..MaxConns, Accounted, UNCHANGED gen,
         NEW text \in Seq(Bytes), OnFrontEndCommand(text)
  PROVE  Accounted'
<1> DEFINE k == Len(handled) + 1
           me == <<gen, k>>
           T == (1..gen) \X Nat
<1>1. /\ handled \in Seq(Seq(Bytes)) /\ replies \in Seq(T)
      /\ k \in Nat /\ DOMAIN handled = 1..(k - 1) /\ me \in T
  BY DEF TypeOK
<1>2. /\ handled' = Append(handled, text)
      /\ DOMAIN handled' = 1..k /\ Len(handled') = k
      /\ \A n \in 1..(k - 1) : handled'[n] = handled[n]
      /\ handled'[k] = text
  <2>1. handled' = Append(handled, text)
    BY DEF OnFrontEndCommand
  <2> QED BY <1>1, <2>1
<1>3. me \notin waiting /\ \A i \in DOMAIN replies : replies[i] # me
  BY <1>1 DEF Accounted
<1>4. Count(replies, me) = 0 /\ Count(Append(replies, me), me) = 1
  <2> HIDE DEF me, T, k
  <2>1. Count(replies, me) = 0
    BY <1>3, CountNone
  <2>2. Count(Append(replies, me), me) = Count(replies, me) + 1
    BY <1>1, CountAppend
  <2> QED BY <2>1, <2>2
<1>5. \/ Silent(text) /\ UNCHANGED <<waiting, replies>>
      \/ ~Silent(text) /\ waiting' = waiting \cup {me} /\ replies' = replies
      \/ ~Silent(text) /\ replies' = Append(replies, me) /\ waiting' = waiting
  <2>1. CASE Says(text, "close") \/ Says(text, "null")
    <3>1. ~Says(text, "method") /\ ~Says(text, "stubbed")
      BY <2>1, SaysOne DEF AllCommands
    <3>2. \E c \in Commands : Says(text, c)
      <4>1. ASSUME NEW c \in {"close", "null"}, Says(text, c) PROVE c \in Commands
        <5>1. c \in Bytes
          BY <4>1 DEF Says
        <5> QED BY <5>1 DEF Bytes, LF, CR, NUL
      <4> QED BY <2>1, <4>1
    <3> QED BY <2>1, <3>1, <3>2 DEF OnFrontEndCommand, Silent
  <2>2. CASE ~Silent(text)
    BY <2>2 DEF OnFrontEndCommand, Silent, Reply
  <2> QED BY <2>1, <2>2 DEF Silent
<1> HIDE DEF me, k, T
<1>6. ASSUME NEW n \in 1..k
      PROVE  Owed(replies', waiting', gen, n) = IF Silent(handled'[n]) THEN 0 ELSE 1
  <2>1. CASE n = k
    <3>1. <<gen, n>> = me
      BY <2>1 DEF me
    <3>2. handled'[n] = text
      BY <1>2, <2>1
    <3>3. CASE waiting' = waiting \cup {me} /\ replies' = replies /\ ~Silent(text)
      BY <1>4, <3>1, <3>2, <3>3 DEF Owed
    <3>4. CASE waiting' = waiting /\ replies' = Append(replies, me) /\ ~Silent(text)
      BY <1>3, <1>4, <3>1, <3>2, <3>4 DEF Owed
    <3>5. CASE waiting' = waiting /\ replies' = replies /\ Silent(text)
      BY <1>3, <1>4, <3>1, <3>2, <3>5 DEF Owed
    <3> QED BY <1>5, <3>3, <3>4, <3>5
  <2>2. CASE n # k
    <3>1. <<gen, n>> # me /\ n \in DOMAIN handled /\ handled'[n] = handled[n]
      BY <1>1, <1>2, <2>2 DEF me
    <3>2. Owed(replies', waiting', gen, n) = Owed(replies, waiting, gen, n)
      <4>1. Owed(Append(replies, me), waiting, gen, n) = Owed(replies, waiting, gen, n)
        <5>1. <<gen, n>> # me
          BY <3>1
        <5>2. replies \in Seq(T) /\ me \in T
          BY <1>1
        <5>3. Count(Append(replies, me), <<gen, n>>) = Count(replies, <<gen, n>>)
          BY <5>1, <5>2, CountAppend
        <5> QED BY <5>3 DEF Owed
      <4>2. Owed(replies, waiting \cup {me}, gen, n) = Owed(replies, waiting, gen, n)
        BY <3>1 DEF Owed
      <4> QED BY <1>5, <4>1, <4>2
    <3> QED BY <3>1, <3>2 DEF Accounted
  <2> QED BY <2>1, <2>2
<1>7. ASSUME NEW n \in Nat, n > k
      PROVE  <<gen, n>> \notin waiting' /\ \A i \in DOMAIN replies' : replies'[i] # <<gen, n>>
  <2>1. <<gen, n>> # me /\ n > Len(handled)
    BY <1>1, <1>7 DEF me, k
  <2>2. <<gen, n>> \notin waiting /\ \A i \in DOMAIN replies : replies[i] # <<gen, n>>
    BY <2>1 DEF Accounted
  <2>3. \A i \in DOMAIN Append(replies, me) : Append(replies, me)[i] # <<gen, n>>
    BY <1>1, <2>1, <2>2, AppendNone
  <2> QED BY <1>5, <2>1, <2>2, <2>3
<1> QED BY <1>2, <1>6, <1>7 DEF Accounted

LEMMA NextAccounted ==
  ASSUME TypeOK, Connected, Accounted, [Next]_vars
  PROVE  Accounted'
<1>1. CASE Accept
  <2>1. gen \in Nat /\ gen' = gen + 1 /\ handled' = <<>> /\ UNCHANGED <<waiting, replies>>
    BY <1>1 DEF Accept, TypeOK
  <2>2. ASSUME NEW n \in Nat
        PROVE  <<gen', n>> \notin waiting /\ \A i \in DOMAIN replies : replies[i] # <<gen', n>>
    <3>1. <<gen', n>> \notin (1..gen) \X Nat
      BY <2>1
    <3>2. \A i \in DOMAIN replies : replies[i] \in (1..gen) \X Nat
      BY DEF TypeOK
    <3> QED BY <3>1, <3>2 DEF TypeOK
  <2> QED BY <2>1, <2>2 DEF Accounted
<1>2. CASE TakeLine
  <2>1. PICK eol \in DOMAIN data :
          IF eol > start
          THEN OnFrontEndCommand(CString(Stripped(SubSeq(data, start, eol - 1))))
          ELSE UNCHANGED <<conn, handled, waiting, replies>>
    BY <1>2 DEF TakeLine
  <2>2. gen' = gen /\ gen \in 1..MaxConns /\ start \in Nat \ {0} /\ eol \in Nat
    BY <1>2 DEF TakeLine, Connected, AtLoop, TypeOK
  <2>3. CASE eol > start
    <3>1. CString(Stripped(SubSeq(data, start, eol - 1))) \in Seq(Bytes)
      BY <2>2, <2>3, TextType
    <3> QED BY <2>1, <2>2, <2>3, <3>1, OnFrontEndCommandAccounted
  <2>4. CASE ~(eol > start)
    BY <2>1, <2>2, <2>4 DEF Accounted
  <2> QED BY <2>3, <2>4
<1>3. CASE MethodReplies
  <2>1. PICK w \in waiting : waiting' = waiting \ {w} /\ replies' = Append(replies, w)
    BY <1>3 DEF MethodReplies
  <2>2. UNCHANGED <<gen, handled>>
    BY <1>3 DEF MethodReplies
  <2> DEFINE T == (1..gen) \X Nat
  <2>3. replies \in Seq(T) /\ w \in T /\ DOMAIN handled = 1..Len(handled) /\ Len(handled) \in Nat
    BY DEF TypeOK
  <2> HIDE DEF T
  <2>4. ASSUME NEW n \in DOMAIN handled
        PROVE  Owed(replies', waiting', gen, n) = Owed(replies, waiting, gen, n)
    <3>1. CASE <<gen, n>> = w
      <4>1. Count(replies', w) = Count(replies, w) + 1 /\ Count(replies, w) \in Nat
        BY <2>1, <2>3, CountAppend
      <4>2. w \in waiting /\ w \notin waiting'
        BY <2>1
      <4> QED BY <3>1, <4>1, <4>2 DEF Owed
    <3>2. CASE <<gen, n>> # w
      BY <2>1, <2>3, <3>2, OwedToOthers
    <3> QED BY <3>1, <3>2
  <2>5. ASSUME NEW n \in Nat, n > Len(handled)
        PROVE  \A i \in DOMAIN replies' : replies'[i] # <<gen, n>>
    <3>1. w # <<gen, n>> /\ \A i \in DOMAIN replies : replies[i] # <<gen, n>>
      BY <2>5 DEF Accounted
    <3> QED BY <2>1, <2>3, <3>1, AppendNone
  <2> QED BY <2>1, <2>2, <2>4, <2>5 DEF Accounted
<1>4. CASE Hangup \/ ClientClosedCb \/ ClientDataCb \/ KeepRest \/ UNCHANGED vars
  BY <1>4 DEF Hangup, ClientClosedCb, ClientDataCb, KeepRest, vars, Accounted
<1> QED BY <1>1, <1>2, <1>3, <1>4 DEF Next

\* Every text is replied to once or waits for its method, and only closing
\* and `null` have no reply, whatever other texts, connections and late
\* methods come in between: EveryTextAccounted.
THEOREM EveryTextAccountedAlways == Spec => []EveryTextAccounted
<1>1. Init => Accounted
  BY DEF Init, Accounted
<1>2. TypeOK /\ Connected /\ Accounted /\ [Next]_vars => Accounted'
  BY NextAccounted
<1> QED BY <1>1, <1>2, TypesAlways, AccountedGives, PTL DEF Spec

=============================================================================
