----------------------------- MODULE ScriptsProofs -----------------------------
(*****************************************************************************)
(* What the front-end gets to see of the scripts.  Names and URLs convert as *)
(* the tables say; what travels for a request (a command, a message) keeps   *)
(* to what the request is about (Consistent); and a script that the front-end *)
(* does not know yet has its news under way (ReportedOrUnderWay).            *)
(*****************************************************************************)
EXTENDS Scripts, SequenceTheorems, TLAPS

------------------------------------------------------------------------------
(* The conversions, name by name.                                            *)

\* What names and texts are made of.
Parts == {"file:", "/", "\\", "c:", "a", "b", "repl", "(", ")", "x"}

\* What a sequence put after another gives, by its elements.
LEMMA Joined ==
  ASSUME NEW u \in Seq(Parts), NEW v \in Seq(Parts), NEW w \in Seq(Parts),
         Len(w) = Len(u) + Len(v),
         \A i \in 1..Len(u) : w[i] = u[i],
         \A i \in 1..Len(v) : w[Len(u) + i] = v[i]
  PROVE  u \o v = w
<1>1. /\ u \o v \in Seq(Parts) /\ Len(u \o v) = Len(u) + Len(v)
      /\ \A i \in 1..(Len(u) + Len(v)) : (u \o v)[i] = IF i <= Len(u) THEN u[i] ELSE v[i - Len(u)]
  BY ConcatProperties
<1>2. ASSUME NEW i \in 1..Len(w) PROVE w[i] = (u \o v)[i]
  <2>1. CASE i <= Len(u)
    BY <1>1, <2>1
  <2>2. CASE ~(i <= Len(u))
    <3>1. i - Len(u) \in 1..Len(v) /\ Len(u) + (i - Len(u)) = i
      BY <2>2
    <3> QED BY <1>1, <2>2, <3>1
  <2> QED BY <2>1, <2>2
<1> QED BY <1>1, <1>2, SeqEqual

\* What is left without the first n, by its elements.
LEMMA Cut ==
  ASSUME NEW s \in Seq(Parts), NEW w \in Seq(Parts), NEW n \in Nat,
         Len(s) = n + Len(w),
         \A i \in 1..Len(w) : w[i] = s[n + i]
  PROVE  Without(s, n) = w
<1>1. /\ SubSeq(s, n + 1, Len(s)) \in Seq(Parts)
      /\ Len(SubSeq(s, n + 1, Len(s))) = Len(w)
      /\ \A i \in 1..Len(w) : SubSeq(s, n + 1, Len(s))[i] = s[n + i]
  BY SubSeqProperties
<1> QED BY <1>1, SeqEqual DEF Without

\* A path in its URL, by its elements.
LEMMA InFileUrl ==
  ASSUME NEW v \in Seq(Parts), NEW w \in Seq(Parts),
         Len(w) = 3 + Len(v),
         w[1] = "file:", w[2] = "/", w[3] = "/",
         \A i \in 1..Len(v) : w[3 + i] = v[i]
  PROVE  FileUrl \o v = w /\ Without(w, 3) = v /\ IsPrefix(FileUrl, w)
<1>1. FileUrl \in Seq(Parts) /\ Len(FileUrl) = 3
      /\ FileUrl[1] = "file:" /\ FileUrl[2] = "/" /\ FileUrl[3] = "/"
  BY DEF FileUrl, Parts
<1>2. \A i \in 1..3 : w[i] = FileUrl[i]
  BY <1>1
<1>3. FileUrl \o v = w
  <2>1. Len(w) = Len(FileUrl) + Len(v)
    BY <1>1
  <2>2. \A i \in 1..Len(FileUrl) : w[i] = FileUrl[i]
    BY <1>1, <1>2
  <2>3. \A i \in 1..Len(v) : w[Len(FileUrl) + i] = v[i]
    BY <1>1
  <2> QED BY <1>1, <2>1, <2>2, <2>3, Joined
<1>4. Without(w, 3) = v
  BY Cut
<1>5. IsPrefix(FileUrl, w)
  BY <1>1, <1>2 DEF IsPrefix
<1> QED BY <1>3, <1>4, <1>5


\* The paths of files in their URLs.
LEMMA PathInUrl ==
  /\ LET url == <<"file:", "/", "/", "/", "a">>
     IN /\ FileUrl \o <<"/", "a">> = url
        /\ Without(url, 3) = <<"/", "a">> /\ IsPrefix(FileUrl, url)
  /\ LET url == <<"file:", "/", "/", "/", "c:", "/", "a">>
     IN /\ FileUrl \o <<"/", "c:", "/", "a">> = url
        /\ Without(url, 3) = <<"/", "c:", "/", "a">> /\ IsPrefix(FileUrl, url)
  /\ LET url == <<"file:", "/", "/", "b", "/", "a">>
     IN /\ FileUrl \o <<"b", "/", "a">> = url
        /\ Without(url, 3) = <<"b", "/", "a">> /\ IsPrefix(FileUrl, url)
  /\ FileUrl \o <<"/">> = <<"file:", "/", "/", "/">>
<1> DEFINE In(v, w) ==
      /\ v \in Seq(Parts) /\ w \in Seq(Parts) /\ Len(w) = 3 + Len(v)
      /\ w[1] = "file:" /\ w[2] = "/" /\ w[3] = "/"
      /\ \A i \in 1..Len(v) : w[3 + i] = v[i]
<1>1. ASSUME NEW v, NEW w, In(v, w)
      PROVE  FileUrl \o v = w /\ Without(w, 3) = v /\ IsPrefix(FileUrl, w)
  BY <1>1, InFileUrl
<1>2. In(<<"/", "a">>, <<"file:", "/", "/", "/", "a">>)
  BY DEF Parts
<1>3. In(<<"/", "c:", "/", "a">>, <<"file:", "/", "/", "/", "c:", "/", "a">>)
  BY DEF Parts
<1>4. In(<<"b", "/", "a">>, <<"file:", "/", "/", "b", "/", "a">>)
  BY DEF Parts
<1>5. In(<<"/">>, <<"file:", "/", "/", "/">>)
  BY DEF Parts
<1> HIDE DEF In
<1> QED BY <1>1, <1>2, <1>3, <1>4, <1>5

\* Everything else that the conversions cut, join and replace.
LEMMA OtherPieces ==
  /\ Slashed(<<"c:", "\\", "a">>) = <<"c:", "/", "a">>
  /\ Slashed(<<"b", "\\", "a">>) = <<"b", "/", "a">>
  /\ Backslashed(<<"c:", "/", "a">>) = <<"c:", "\\", "a">>
  /\ Backslashed(<<"b", "/", "a">>) = <<"b", "\\", "a">>
  /\ Without(<<"\\", "\\", "b", "\\", "a">>, 2) = <<"b", "\\", "a">>
  /\ Tail(<<"/", "c:", "/", "a">>) = <<"c:", "/", "a">>
  /\ <<"\\", "\\">> \o <<"b", "\\", "a">> = <<"\\", "\\", "b", "\\", "a">>
  /\ <<"file:", "/", "/", "/">> \o <<"c:", "/", "a">> = <<"file:", "/", "/", "/", "c:", "/", "a">>
<1>1. /\ Slashed(<<"c:", "\\", "a">>) = <<"c:", "/", "a">>
      /\ Slashed(<<"b", "\\", "a">>) = <<"b", "/", "a">>
  BY DEF Slashed, Replaced
<1>2. /\ Backslashed(<<"c:", "/", "a">>) = <<"c:", "\\", "a">>
      /\ Backslashed(<<"b", "/", "a">>) = <<"b", "\\", "a">>
  BY DEF Backslashed, Replaced
<1>3. Without(<<"\\", "\\", "b", "\\", "a">>, 2) = <<"b", "\\", "a">>
  <2> DEFINE s == <<"\\", "\\", "b", "\\", "a">>
             w == <<"b", "\\", "a">>
  <2>1. /\ s \in Seq(Parts) /\ w \in Seq(Parts) /\ Len(s) = 2 + Len(w)
        /\ \A i \in 1..Len(w) : w[i] = s[2 + i]
    BY DEF Parts
  <2>2. 2 \in Nat
    OBVIOUS
  <2> HIDE DEF s, w
  <2>3. Without(s, 2) = w
    BY <2>1, <2>2, Cut
  <2> QED BY <2>3 DEF s, w
<1>4. Tail(<<"/", "c:", "/", "a">>) = <<"c:", "/", "a">>
  <2> DEFINE s == <<"/", "c:", "/", "a">>
             w == <<"c:", "/", "a">>
  <2>1. /\ s \in Seq(Parts) /\ w \in Seq(Parts) /\ Len(s) = 1 + Len(w) /\ s # <<>>
        /\ \A i \in 1..Len(w) : w[i] = s[i + 1]
    BY DEF Parts
  <2> HIDE DEF s, w
  <2>2. /\ Tail(s) \in Seq(Parts) /\ Len(Tail(s)) = Len(s) - 1
        /\ \A i \in 1..Len(Tail(s)) : Tail(s)[i] = s[i + 1]
    BY <2>1, HeadTailProperties
  <2>3. Tail(s) = w
    BY <2>1, <2>2, SeqEqual
  <2> QED BY <2>3 DEF s, w
<1> DEFINE Joins(u, v, w) ==
      /\ u \in Seq(Parts) /\ v \in Seq(Parts) /\ w \in Seq(Parts)
      /\ Len(w) = Len(u) + Len(v)
      /\ \A i \in 1..Len(u) : w[i] = u[i]
      /\ \A i \in 1..Len(v) : w[Len(u) + i] = v[i]
<1>5. ASSUME NEW u, NEW v, NEW w, Joins(u, v, w) PROVE u \o v = w
  BY <1>5, Joined
<1>6. Joins(<<"\\", "\\">>, <<"b", "\\", "a">>, <<"\\", "\\", "b", "\\", "a">>)
  BY DEF Parts
<1>7. Joins(<<"file:", "/", "/", "/">>, <<"c:", "/", "a">>,
            <<"file:", "/", "/", "/", "c:", "/", "a">>)
  BY DEF Parts
<1> HIDE DEF Joins
<1>8. <<"\\", "\\">> \o <<"b", "\\", "a">> = <<"\\", "\\", "b", "\\", "a">>
  BY <1>5, <1>6
<1>9. <<"file:", "/", "/", "/">> \o <<"c:", "/", "a">> = <<"file:", "/", "/", "/", "c:", "/", "a">>
  BY <1>5, <1>7
<1> QED BY <1>1, <1>2, <1>3, <1>4, <1>8, <1>9

\* The URL of each name,
LEMMA UrlTable ==
  /\ V8NameToDevToolsUrl(<<>>) = <<>>
  /\ V8NameToDevToolsUrl(<<"repl">>) = <<>>
  /\ V8NameToDevToolsUrl(<<"a">>) = <<"a">>
  /\ V8NameToDevToolsUrl(<<"/", "a">>) = <<"file:", "/", "/", "/", "a">>
  /\ V8NameToDevToolsUrl(<<"/", "c:", "/", "a">>) = <<"file:", "/", "/", "/", "c:", "/", "a">>
  /\ V8NameToDevToolsUrl(<<"c:", "\\", "a">>) = <<"file:", "/", "/", "/", "c:", "/", "a">>
  /\ V8NameToDevToolsUrl(<<"\\", "\\", "b", "\\", "a">>) = <<"file:", "/", "/", "b", "/", "a">>
<1>1. V8NameToDevToolsUrl(<<>>) = <<>> /\ V8NameToDevToolsUrl(<<"repl">>) = <<>>
  BY DEF V8NameToDevToolsUrl, IsPrefix
<1>2. V8NameToDevToolsUrl(<<"a">>) = <<"a">>
  BY DEF V8NameToDevToolsUrl, IsPrefix
<1>3. V8NameToDevToolsUrl(<<"/", "a">>) = <<"file:", "/", "/", "/", "a">>
  BY PathInUrl DEF V8NameToDevToolsUrl, IsPrefix
<1>4. V8NameToDevToolsUrl(<<"/", "c:", "/", "a">>) = <<"file:", "/", "/", "/", "c:", "/", "a">>
  BY PathInUrl DEF V8NameToDevToolsUrl, IsPrefix
<1>5. V8NameToDevToolsUrl(<<"c:", "\\", "a">>) = <<"file:", "/", "/", "/", "c:", "/", "a">>
  <2>1. V8NameToDevToolsUrl(<<"c:", "\\", "a">>) = FileUrl \o <<"/">> \o Slashed(<<"c:", "\\", "a">>)
    BY DEF V8NameToDevToolsUrl, IsPrefix
  <2> QED BY <2>1, PathInUrl, OtherPieces
<1>6. V8NameToDevToolsUrl(<<"\\", "\\", "b", "\\", "a">>) = <<"file:", "/", "/", "b", "/", "a">>
  <2>1. V8NameToDevToolsUrl(<<"\\", "\\", "b", "\\", "a">>)
          = FileUrl \o Slashed(Without(<<"\\", "\\", "b", "\\", "a">>, 2))
    BY DEF V8NameToDevToolsUrl, IsPrefix
  <2> QED BY <2>1, PathInUrl, OtherPieces
<1> QED BY <1>1, <1>2, <1>3, <1>4, <1>5, <1>6

\* and the name that is asked for with each URL.
LEMMA NameTable ==
  /\ DevToolsUrlToV8Name(<<>>) = <<>>
  /\ DevToolsUrlToV8Name(<<"a">>) = <<"a">>
  /\ DevToolsUrlToV8Name(<<"file:", "/", "/", "/", "a">>) = <<"/", "a">>
  /\ DevToolsUrlToV8Name(<<"file:", "/", "/", "/", "c:", "/", "a">>) = <<"c:", "\\", "a">>
  /\ DevToolsUrlToV8Name(<<"file:", "/", "/", "b", "/", "a">>) = <<"\\", "\\", "b", "\\", "a">>
<1>1. DevToolsUrlToV8Name(<<>>) = <<>> /\ DevToolsUrlToV8Name(<<"a">>) = <<"a">>
  BY DEF DevToolsUrlToV8Name, IsPrefix, FileUrl
<1>2. DevToolsUrlToV8Name(<<"file:", "/", "/", "/", "a">>) = <<"/", "a">>
  BY PathInUrl DEF DevToolsUrlToV8Name, IsPrefix
<1>3. DevToolsUrlToV8Name(<<"file:", "/", "/", "/", "c:", "/", "a">>) = <<"c:", "\\", "a">>
  <2>1. IsPrefix(<<"/", "c:", "/">>, <<"/", "c:", "/", "a">>) /\ IsPrefix(<<"/">>, <<"/", "c:", "/", "a">>)
    BY DEF IsPrefix
  <2>2. DevToolsUrlToV8Name(<<"file:", "/", "/", "/", "c:", "/", "a">>)
          = Backslashed(Tail(<<"/", "c:", "/", "a">>))
    BY <2>1, PathInUrl DEF DevToolsUrlToV8Name
  <2> QED BY <2>2, OtherPieces
<1>4. DevToolsUrlToV8Name(<<"file:", "/", "/", "b", "/", "a">>) = <<"\\", "\\", "b", "\\", "a">>
  <2>1. ~IsPrefix(<<"/">>, <<"b", "/", "a">>) /\ ~IsPrefix(<<"/", "c:", "/">>, <<"b", "/", "a">>)
    BY DEF IsPrefix
  <2>2. DevToolsUrlToV8Name(<<"file:", "/", "/", "b", "/", "a">>)
          = <<"\\", "\\">> \o Backslashed(<<"b", "/", "a">>)
    BY <2>1, PathInUrl DEF DevToolsUrlToV8Name
  <2> QED BY <2>2, OtherPieces
<1> QED BY <1>1, <1>2, <1>3, <1>4

Names(p) == FileNames[p] \cup OtherNames

\* All names, by platform.
LEMMA NamesAre ==
  /\ DOMAIN FileNames = {"unix", "windows"}
  /\ Names("unix") = {<<"/", "a">>, <<"/", "c:", "/", "a">>, <<"a">>, <<"repl">>, <<>>}
  /\ Names("windows") = {<<"c:", "\\", "a">>, <<"\\", "\\", "b", "\\", "a">>,
                         <<"a">>, <<"repl">>, <<>>}
BY DEF Names, FileNames, OtherNames

\* Which names have no URL; the others have each its own.
LEMMA UrlsOfNames ==
  ASSUME NEW p \in DOMAIN FileNames
  PROVE  /\ \A n \in Names(p) : /\ V8NameToDevToolsUrl(n) \in Urls
                                /\ V8NameToDevToolsUrl(n) = <<>> <=> n \in {<<>>, <<"repl">>}
         /\ \A n, m \in Names(p) :
              V8NameToDevToolsUrl(n) = V8NameToDevToolsUrl(m) /\ V8NameToDevToolsUrl(n) # <<>>
                => n = m
<1>1. \A n \in Names(p) : V8NameToDevToolsUrl(n) \in Urls
  <2>1. ASSUME NEW n \in Names(p)
        PROVE  n \in (UNION {FileNames[q] : q \in DOMAIN FileNames}) \cup OtherNames
    BY DEF Names
  <2> QED BY <2>1 DEF Urls
<1> DEFINE Apart(S) ==
      /\ \A n \in S : V8NameToDevToolsUrl(n) = <<>> <=> n \in {<<>>, <<"repl">>}
      /\ \A n, m \in S :
           V8NameToDevToolsUrl(n) = V8NameToDevToolsUrl(m) /\ V8NameToDevToolsUrl(n) # <<>>
             => n = m
<1>2. Apart({<<"/", "a">>, <<"/", "c:", "/", "a">>, <<"a">>, <<"repl">>, <<>>})
  BY UrlTable
<1>3. Apart({<<"c:", "\\", "a">>, <<"\\", "\\", "b", "\\", "a">>, <<"a">>, <<"repl">>, <<>>})
  BY UrlTable
<1>4. p = "unix" \/ p = "windows"
  BY NamesAre
<1>5. Apart(Names(p))
  BY <1>2, <1>3, <1>4, NamesAre
<1> QED BY <1>1, <1>5

\* The name asked for with the URL of a name is that name, unless it looks
\* like a path of the other platform; what has no URL has no name to ask for.
LEMMA NamesOfUrls ==
  ASSUME NEW p \in DOMAIN FileNames, NEW n \in Names(p)
  PROVE  LET url == V8NameToDevToolsUrl(n)
         IN /\ DevToolsUrlToV8Name(url) = <<>> <=> url = <<>>
            /\ url # <<>> /\ ~DiskLike(n) => DevToolsUrlToV8Name(url) = n
<1> DEFINE Back(m) ==
      LET url == V8NameToDevToolsUrl(m)
      IN /\ DevToolsUrlToV8Name(url) = <<>> <=> url = <<>>
         /\ url # <<>> /\ ~DiskLike(m) => DevToolsUrlToV8Name(url) = m
<1>1. Back(<<>>) /\ Back(<<"repl">>) /\ Back(<<"a">>) /\ Back(<<"/", "a">>)
  BY UrlTable, NameTable
<1>2. Back(<<"c:", "\\", "a">>) /\ Back(<<"\\", "\\", "b", "\\", "a">>)
  BY UrlTable, NameTable
<1>3. Back(<<"/", "c:", "/", "a">>)
  <2>1. DiskLike(<<"/", "c:", "/", "a">>)
    BY DEF DiskLike, IsPrefix
  <2> QED BY <2>1, UrlTable, NameTable
<1>4. n \in Names("unix") \cup Names("windows")
  BY NamesAre
<1> HIDE DEF Back
<1>5. Back(n)
  BY <1>1, <1>2, <1>3, <1>4, NamesAre
<1> QED BY <1>5 DEF Back

\* A name is part of itself.
LEMMA HasItself ==
  ASSUME NEW p \in DOMAIN FileNames, NEW n \in Names(p)
  PROVE  HasPart(n, n)
<1>1. n \in Seq(Parts)
  <2>1. \A m \in Names("unix") \cup Names("windows") : m \in Seq(Parts)
    <3>1. /\ {<<>>, <<"a">>, <<"repl">>} \subseteq Seq(Parts)
          /\ {<<"/", "a">>, <<"/", "c:", "/", "a">>} \subseteq Seq(Parts)
          /\ {<<"c:", "\\", "a">>, <<"\\", "\\", "b", "\\", "a">>} \subseteq Seq(Parts)
      BY DEF Parts
    <3> HIDE DEF Parts
    <3> QED BY <3>1, NamesAre
  <2> QED BY <2>1, NamesAre
<1>2. Without(n, 0) = n
  BY <1>1, Cut
<1>3. IsPrefix(n, n) /\ 0 \in 0..Len(n)
  BY <1>1 DEF IsPrefix
<1> QED BY <1>2, <1>3 DEF HasPart

\* The text of a script as the front-end gets it: a module's comes without
\* its wrapper, another's as it is, unless it looks like a wrapped one.
LEMMA TextOfSource ==
  ASSUME NEW p \in DOMAIN FileNames, NEW n \in Names(p)
  PROVE  LET source == IF IsModule(n) THEN <<"(">> \o Text(n) \o <<")">> ELSE Text(n)
         IN /\ UnwrapScript(source) \in {<<"x">>, <<"(", "x", ")">>}
            /\ IsModule(n) \/ Text(n)[1] # "(" => UnwrapScript(source) = Text(n)
<1>1. UnwrapScript(<<"x">>) = <<"x">>
  BY DEF UnwrapScript, IsPrefix
<1> DEFINE Unwraps(s, w) ==
      /\ s \in Seq(Parts) /\ w \in Seq(Parts) /\ Len(s) = Len(w) + 2
      /\ s[1] = "(" /\ s[Len(s)] = ")"
      /\ \A i \in 1..Len(w) : w[i] = s[i + 1]
<1>2. ASSUME NEW s, NEW w, Unwraps(s, w) PROVE UnwrapScript(s) = w
  <2>1. IsPrefix(<<"(">>, s)
    BY <1>2 DEF IsPrefix
  <2>2. IsSuffix(<<")">>, s)
    <3>1. Reverse(s) = [i \in 1..Len(s) |-> s[(Len(s) - i) + 1]] /\ Reverse(<<")">>) = <<")">>
      BY DEF Reverse
    <3>2. Len(Reverse(s)) = Len(s) /\ Reverse(s)[1] = ")" /\ Reverse(s) \in Seq(Parts)
      BY <1>2, <3>1
    <3> QED BY <1>2, <3>1, <3>2 DEF IsSuffix, IsPrefix
  <2>3. /\ Front(s) \in Seq(Parts) /\ Len(Front(s)) = Len(w) + 1
        /\ \A i \in 1..(Len(w) + 1) : Front(s)[i] = s[i]
    BY <1>2, SubSeqProperties DEF Front
  <2>4. \A i \in 1..Len(w) : w[i] = Front(s)[1 + i]
    BY <1>2, <2>3
  <2>5. Without(Front(s), 1) = w
    BY <1>2, <2>3, <2>4, Cut
  <2> QED BY <2>1, <2>2, <2>5 DEF UnwrapScript
<1>3. UnwrapScript(<<"(", "x", ")">>) = <<"x">>
  <2>1. Unwraps(<<"(", "x", ")">>, <<"x">>)
    BY DEF Parts
  <2> HIDE DEF Unwraps
  <2> QED BY <1>2, <2>1
<1>4. UnwrapScript(<<"(", "(", "x", ")", ")">>) = <<"(", "x", ")">>
  <2>1. Unwraps(<<"(", "(", "x", ")", ")">>, <<"(", "x", ")">>)
    BY DEF Parts
  <2> HIDE DEF Unwraps
  <2> QED BY <1>2, <2>1
<1> DEFINE Wraps(v, w) ==
      /\ v \in Seq(Parts) /\ w \in Seq(Parts) /\ Len(w) = Len(v) + 2
      /\ w[1] = "(" /\ w[Len(w)] = ")"
      /\ \A i \in 1..Len(v) : w[1 + i] = v[i]
<1>5. ASSUME NEW v, NEW w, Wraps(v, w) PROVE <<"(">> \o v \o <<")">> = w
  <2>1. <<"(">> \in Seq(Parts) /\ <<")">> \in Seq(Parts)
    BY DEF Parts
  <2>2. /\ <<"(">> \o v \in Seq(Parts) /\ Len(<<"(">> \o v) = 1 + Len(v)
        /\ \A i \in 1..(1 + Len(v)) : (<<"(">> \o v)[i] = IF i <= 1 THEN "(" ELSE v[i - 1]
    BY <1>5, <2>1, ConcatProperties
  <2>3. ASSUME NEW i \in 1..(1 + Len(v)) PROVE w[i] = (<<"(">> \o v)[i]
    <3>1. CASE i = 1
      BY <1>5, <2>2, <3>1
    <3>2. CASE i # 1
      <4>1. i - 1 \in 1..Len(v) /\ 1 + (i - 1) = i
        BY <1>5, <3>2
      <4> QED BY <1>5, <2>2, <3>2, <4>1
    <3> QED BY <3>1, <3>2
  <2> DEFINE u == <<"(">> \o v
  <2>4. /\ u \in Seq(Parts) /\ Len(w) = Len(u) + Len(<<")">>)
        /\ \A i \in 1..Len(u) : w[i] = u[i]
        /\ \A i \in 1..Len(<<")">>) : w[Len(u) + i] = <<")">>[i]
    BY <1>5, <2>2, <2>3
  <2> HIDE DEF u
  <2>5. u \o <<")">> = w
    BY <1>5, <2>1, <2>4, Joined
  <2> QED BY <2>5 DEF u
<1>6. /\ Wraps(<<"x">>, <<"(", "x", ")">>)
      /\ Wraps(<<"(", "x", ")">>, <<"(", "(", "x", ")", ")">>)
  BY DEF Parts
<1> HIDE DEF Wraps
<1>10. /\ <<"(">> \o <<"x">> \o <<")">> = <<"(", "x", ")">>
       /\ <<"(">> \o <<"(", "x", ")">> \o <<")">> = <<"(", "(", "x", ")", ")">>
  BY <1>5, <1>6
<1>7. Text(n) = <<"x">> \/ Text(n) = <<"(", "x", ")">>
  BY DEF Text
<1>8. ~IsModule(n) => n = <<>> \/ n = <<"repl">>
  BY DEF IsModule
<1>9. Text(<<"repl">>)[1] # "(" /\ Text(<<"repl">>) = <<"x">> /\ Text(<<>>)[1] = "("
  BY DEF Text
<1> QED BY <1>1, <1>3, <1>4, <1>7, <1>8, <1>9, <1>10
------------------------------------------------------------------------------
(* Types.                                                                    *)

CmdOf(r, s) ==
  [step : AllSteps \ {"afterCompile"}, req : 0..r, id : 0..s,
   name : {DevToolsUrlToV8Name(url) : url \in Urls}]
MsgOf(r, s) == [step : AllSteps, req : 0..r, ids : SUBSET (1..s)]
Kinds == {"enable", "disable", "source", "content", "breakpoint", "tree"}
RequestOf(s) ==
  [kind : Kinds, means : 0..s, answer : {"none", "ok", "error", "comment"},
   ids : SUBSET (1..s), text : {<<>>, <<"x">>, <<"(", "x", ")">>}, url : Urls]

ScriptOf(p) == [name : Names(p), live : BOOLEAN]

Typed ==
  /\ platform \in DOMAIN FileNames
  /\ main \in FileNames[platform] \cup {<<>>}
  /\ scripts \in Seq(ScriptOf(platform))
  /\ handler \in BOOLEAN /\ enabled \in BOOLEAN
  /\ enableSig \in BOOLEAN /\ disableSig \in BOOLEAN
  /\ enableCbs \in Seq(1..Len(requests))
  /\ afterEnableCbs \in Seq(1..Len(requests))
  /\ disableCbs \in Seq(1..Len(requests))
  /\ signals \in Seq({"Enable", "Disable"})
  /\ cmds \in Seq(CmdOf(Len(requests), Len(scripts)))
  /\ msgs \in Seq(MsgOf(Len(requests), Len(scripts)))
  /\ known \subseteq (1..Len(scripts)) \X Urls
  /\ requests \in Seq(RequestOf(Len(scripts)))

\* The types that are proved give those that are stated.
LEMMA TypedGives == Typed => TypeOK
<1> SUFFICES ASSUME Typed PROVE TypeOK
  OBVIOUS
<1>1. DOMAIN requests = 1..Len(requests) /\ Ids = 1..Len(scripts)
  BY DEF Typed, Ids
<1>2. \A i \in DOMAIN cmds : cmds[i] \in CmdOf(Len(requests), Len(scripts))
  BY DEF Typed
<1>3. \A i \in DOMAIN cmds : /\ cmds[i].step \in AllSteps \ {"afterCompile"}
                             /\ cmds[i].req \in 0..Len(requests)
                             /\ cmds[i].id \in 0..Len(scripts)
  BY <1>2 DEF CmdOf
<1>4. /\ msgs \in Seq([step : AllSteps, req : 0..Len(requests), ids : SUBSET Ids])
      /\ requests \in Seq(RequestOf(Len(scripts)))
  BY <1>1 DEF Typed, MsgOf
<1>5. /\ platform \in DOMAIN FileNames
      /\ main \in FileNames[platform] \cup {<<>>}
      /\ scripts \in Seq([name : FileNames[platform] \cup OtherNames, live : BOOLEAN])
      /\ {handler, enabled, enableSig, disableSig} \subseteq BOOLEAN
      /\ {enableCbs, afterEnableCbs, disableCbs} \subseteq Seq(DOMAIN requests)
      /\ signals \in Seq({"Enable", "Disable"})
      /\ known \subseteq Ids \X Urls
  BY <1>1 DEF Typed, Names, ScriptOf
<1> QED BY <1>1, <1>3, <1>4, <1>5 DEF TypeOK, RequestOf, Kinds

\* A sequence over a set is one over a larger set.
LEMMA Wider ==
  ASSUME NEW S, NEW T, S \subseteq T, NEW s \in Seq(S)
  PROVE  s \in Seq(T)
<1>1. s \in [1..Len(s) -> T] /\ Len(s) \in Nat
  OBVIOUS
<1> QED BY <1>1

\* What is under way stays typed when requests and scripts come to it.
LEMMA Grown ==
  ASSUME Typed, NEW r \in Nat, NEW s \in Nat, Len(requests) <= r, Len(scripts) <= s
  PROVE  /\ enableCbs \in Seq(1..r) /\ afterEnableCbs \in Seq(1..r)
         /\ disableCbs \in Seq(1..r)
         /\ cmds \in Seq(CmdOf(r, s)) /\ msgs \in Seq(MsgOf(r, s))
         /\ known \subseteq (1..s) \X Urls /\ requests \in Seq(RequestOf(s))
<1>1. /\ Len(requests) \in Nat /\ Len(scripts) \in Nat
      /\ 1..Len(requests) \subseteq 1..r /\ 0..Len(requests) \subseteq 0..r
      /\ 1..Len(scripts) \subseteq 1..s /\ 0..Len(scripts) \subseteq 0..s
  BY DEF Typed
<1>2. CmdOf(Len(requests), Len(scripts)) \subseteq CmdOf(r, s)
  BY <1>1 DEF CmdOf
<1>3. MsgOf(Len(requests), Len(scripts)) \subseteq MsgOf(r, s)
  BY <1>1 DEF MsgOf
<1>4. RequestOf(Len(scripts)) \subseteq RequestOf(s)
  BY <1>1 DEF RequestOf
<1>5. /\ enableCbs \in Seq(1..r) /\ afterEnableCbs \in Seq(1..r)
      /\ disableCbs \in Seq(1..r)
  BY <1>1, Wider DEF Typed
<1>6. cmds \in Seq(CmdOf(r, s))
  BY <1>2, Wider DEF Typed
<1>7. msgs \in Seq(MsgOf(r, s))
  BY <1>3, Wider DEF Typed
<1>8. requests \in Seq(RequestOf(s))
  BY <1>4, Wider DEF Typed
<1> QED BY <1>1, <1>5, <1>6, <1>7, <1>8 DEF Typed

\* A script has a name of its platform.
LEMMA ScriptTyped ==
  ASSUME Typed
  PROVE  \A i \in 1..Len(scripts) : scripts[i].name \in Names(platform)
<1>1. scripts \in Seq(ScriptOf(platform))
  BY DEF Typed
<1>2. \A i \in 1..Len(scripts) : scripts[i] \in ScriptOf(platform)
  BY <1>1
<1> QED BY <1>2 DEF ScriptOf

\* A script's URL is one of the URLs, and the lists of URLs and names hold <<>>.
LEMMA UrlsTyped ==
  ASSUME Typed
  PROVE  /\ \A i \in 1..Len(scripts) : ScriptData(i) \in (1..Len(scripts)) \X Urls
         /\ V8NameToDevToolsUrl(main) \in Urls
         /\ <<>> \in Urls /\ <<>> \in {DevToolsUrlToV8Name(url) : url \in Urls}
         /\ \A k \in known : DevToolsUrlToV8Name(k[2]) \in {DevToolsUrlToV8Name(url) : url \in Urls}
<1>1. platform \in DOMAIN FileNames
  BY DEF Typed
<1>2. \A n \in Names(platform) : V8NameToDevToolsUrl(n) \in Urls
  BY <1>1, UrlsOfNames
<1>3. \A i \in 1..Len(scripts) : scripts[i].name \in Names(platform)
  BY ScriptTyped
<1>4. main \in Names(platform) /\ <<>> \in Names(platform)
  BY DEF Typed, Names, OtherNames
<1>5. V8NameToDevToolsUrl(main) \in Urls /\ V8NameToDevToolsUrl(<<>>) \in Urls
  BY <1>2, <1>4
<1>6. <<>> \in Urls
  BY <1>5, UrlTable
<1>7. DevToolsUrlToV8Name(<<>>) = <<>>
  BY NameTable
<1>8. \A k \in known : k[2] \in Urls
  BY DEF Typed
<1>9. \A i \in 1..Len(scripts) : V8NameToDevToolsUrl(scripts[i].name) \in Urls
  BY <1>2, <1>3
<1> QED BY <1>5, <1>6, <1>7, <1>8, <1>9 DEF ScriptData

\* What V8 still has is among the scripts.
LEMMA LiveIds == Typed => Live \subseteq 1..Len(scripts)
BY DEF Typed, Live

\* What V8 finds is among the scripts.
LEMMA FoundType ==
  ASSUME Typed, NEW c
  PROVE  Found(c) \subseteq Live
BY DEF Found

\* V8's answers.
LEMMA RunCommandsTyped ==
  ASSUME Typed, RunCommands
  PROVE  /\ cmds' \in Seq(CmdOf(Len(requests), Len(scripts)))
         /\ msgs' \in Seq(MsgOf(Len(requests), Len(scripts)))
<1> DEFINE answers == [i \in DOMAIN cmds |->
                         [step |-> cmds[i].step, req |-> cmds[i].req, ids |-> Found(cmds[i])]]
<1>1. ASSUME NEW i \in DOMAIN cmds
      PROVE  answers[i] \in MsgOf(Len(requests), Len(scripts))
  <2>1. cmds[i] \in CmdOf(Len(requests), Len(scripts))
    BY DEF Typed
  <2>2. Found(cmds[i]) \subseteq 1..Len(scripts)
    BY FoundType, LiveIds
  <2> QED BY <2>1, <2>2 DEF CmdOf, MsgOf
<1>2. DOMAIN cmds = 1..Len(cmds) /\ Len(cmds) \in Nat
  BY DEF Typed
<1>3. answers \in Seq(MsgOf(Len(requests), Len(scripts)))
  BY <1>1, <1>2
<1>4. msgs' = msgs \o answers /\ cmds' = <<>>
  BY DEF RunCommands
<1> HIDE DEF answers
<1> QED BY <1>3, <1>4 DEF Typed

\* A request of the front-end.
LEMMA RequestTyped ==
  ASSUME Typed, NEW kind \in Kinds, NEW i \in 0..Len(scripts),
         NEW answer \in {"none", "ok", "error", "comment"}, Request(kind, i, answer)
  PROVE  /\ requests' \in Seq(RequestOf(Len(scripts)))
         /\ Len(requests') = Len(requests) + 1 /\ NewReq = Len(requests')
         /\ \A r \in 1..Len(requests) : requests'[r] = requests[r]
         /\ requests'[NewReq] = [kind |-> kind, means |-> i, answer |-> answer,
                                 ids |-> {}, text |-> <<>>, url |-> <<>>]
<1> DEFINE q == [kind |-> kind, means |-> i, answer |-> answer,
                 ids |-> {}, text |-> <<>>, url |-> <<>>]
<1>1. requests' = Append(requests, q) /\ requests \in Seq(RequestOf(Len(scripts)))
  BY DEF Request, Typed
<1>2. q \in RequestOf(Len(scripts))
  BY UrlsTyped DEF RequestOf
<1> HIDE DEF q
<1>3. /\ requests' \in Seq(RequestOf(Len(scripts)))
      /\ Len(requests') = Len(requests) + 1 /\ NewReq = Len(requests')
      /\ \A r \in 1..Len(requests) : requests'[r] = requests[r]
      /\ requests'[NewReq] = q
  BY <1>1, <1>2 DEF NewReq
<1> QED BY <1>3 DEF q

\* An answer to the front-end.
LEMMA AnswerTyped ==
  ASSUME Typed, NEW r, NEW ids \in SUBSET (1..Len(scripts)),
         NEW text \in {<<>>, <<"x">>, <<"(", "x", ")">>}, NEW url \in Urls,
         Answer(r, ids, text, url)
  PROVE  requests' \in Seq(RequestOf(Len(scripts))) /\ Len(requests') = Len(requests)
<1>1. requests' = [q \in DOMAIN requests |->
                     IF q = r
                     THEN [requests[q] EXCEPT !.answer = "ok", !.ids = ids,
                                              !.text = text, !.url = url]
                     ELSE requests[q]]
  BY DEF Answer
<1>2. requests \in Seq(RequestOf(Len(scripts))) /\ DOMAIN requests = 1..Len(requests)
      /\ Len(requests) \in Nat
  BY DEF Typed
<1>3. ASSUME NEW q \in DOMAIN requests
      PROVE  requests'[q] \in RequestOf(Len(scripts))
  <2>1. requests[q] \in RequestOf(Len(scripts))
    BY <1>2
  <2>2. [requests[q] EXCEPT !.answer = "ok", !.ids = ids, !.text = text, !.url = url]
          \in RequestOf(Len(scripts))
    BY <2>1 DEF RequestOf
  <2> QED BY <1>1, <2>1, <2>2
<1>4. requests' \in [1..Len(requests) -> RequestOf(Len(scripts))]
  BY <1>1, <1>2, <1>3
<1> QED BY <1>2, <1>4

\* Every step keeps the types.
LEMMA NextTyped ==
  ASSUME Typed, [Next]_vars
  PROVE  Typed'
<1> DEFINE R == Len(requests)
           S == Len(scripts)
<1>0. /\ R \in Nat /\ S \in Nat /\ DOMAIN requests = 1..R /\ DOMAIN scripts = 1..S
      /\ Live \subseteq 1..S
  BY LiveIds DEF Typed
<1>1. CASE Compile
  <2>1. PICK n \in FileNames[platform] \cup OtherNames : scripts' = Append(scripts, Script(n))
    BY <1>1 DEF Compile
  <2>2. scripts \in Seq(ScriptOf(platform))
    BY DEF Typed
  <2>3. Script(n) \in ScriptOf(platform)
    BY DEF Script, Names, ScriptOf
  <2>4. scripts' \in Seq(ScriptOf(platform)) /\ Len(scripts') = S + 1
    BY <2>1, <2>2, <2>3
  <2>5. /\ enableCbs \in Seq(1..R) /\ afterEnableCbs \in Seq(1..R) /\ disableCbs \in Seq(1..R)
        /\ cmds \in Seq(CmdOf(R, S + 1)) /\ msgs \in Seq(MsgOf(R, S + 1))
        /\ known \subseteq (1..(S + 1)) \X Urls /\ requests \in Seq(RequestOf(S + 1))
    BY <1>0, Grown
  <2>6. [step |-> "afterCompile", req |-> 0, ids |-> {S + 1}] \in MsgOf(R, S + 1)
    BY <1>0 DEF MsgOf, AllSteps
  <2>7. msgs' \in Seq(MsgOf(R, S + 1))
    <3> DEFINE m == [step |-> "afterCompile", req |-> 0, ids |-> {S + 1}]
    <3>1. msgs' = Append(msgs, m) \/ msgs' = msgs
      BY <1>1 DEF Compile
    <3> HIDE DEF m
    <3>2. m \in MsgOf(R, S + 1)
      BY <2>6 DEF m
    <3> HIDE DEF S
    <3>3. msgs \in Seq(MsgOf(R, S + 1))
      BY <2>5
    <3>4. Append(msgs, m) \in Seq(MsgOf(R, S + 1))
      BY <3>2, <3>3
    <3> QED BY <3>1, <3>3, <3>4
  <2>8. UNCHANGED <<platform, main, handler, jsVars, sigVars, cmds, known, requests>>
    BY <1>1 DEF Compile
  <2> QED BY <2>4, <2>5, <2>7, <2>8 DEF Typed, jsVars, sigVars
<1>2. CASE Unload
  <2>1. PICK i \in Live : scripts' = [scripts EXCEPT ![i].live = FALSE]
    BY <1>2 DEF Unload
  <2>2. scripts \in Seq(ScriptOf(platform))
    BY DEF Typed
  <2>3. [scripts[i] EXCEPT !.live = FALSE] \in ScriptOf(platform)
    <3>1. scripts[i] \in ScriptOf(platform)
      BY <1>0, <2>2
    <3> QED BY <3>1 DEF ScriptOf
  <2>5. scripts' = [j \in 1..S |-> IF j = i THEN [scripts[i] EXCEPT !.live = FALSE] ELSE scripts[j]]
    BY <1>0, <2>1
  <2>6. scripts' \in [1..S -> ScriptOf(platform)]
    BY <2>2, <2>3, <2>5
  <2>7. scripts' \in Seq(ScriptOf(platform)) /\ Len(scripts') = S
    BY <1>0, <2>6
  <2>4. UNCHANGED <<platform, main, handler, jsVars, sigVars, cmds, msgs, known, requests>>
    BY <1>2 DEF Unload
  <2> QED BY <2>4, <2>7 DEF Typed, jsVars, sigVars
<1>3. CASE Process
  <2>1. cmds' \in Seq(CmdOf(R, S)) /\ msgs' \in Seq(MsgOf(R, S))
    BY <1>3, RunCommandsTyped DEF Process
  <2>2. UNCHANGED <<mainVars, handler, jsVars, sigVars, known, requests>>
    BY <1>3 DEF Process
  <2> QED BY <2>1, <2>2 DEF Typed, mainVars, jsVars, sigVars
<1>4. CASE EnableRequestSignalCb
  <2>1. signals # <<>>
    BY <1>4 DEF EnableRequestSignalCb, IsPrefix, Typed
  <2>2. signals' \in Seq({"Enable", "Disable"}) /\ handler' \in BOOLEAN /\ enableSig' \in BOOLEAN
    BY <1>4, <2>1 DEF EnableRequestSignalCb, Typed
  <2> QED BY <1>4, <2>2 DEF EnableRequestSignalCb, Typed, mainVars, jsVars
<1>5. CASE DisableRequestSignalCb
  <2>1. signals # <<>>
    BY <1>5 DEF DisableRequestSignalCb, IsPrefix, Typed
  <2>5. signals \in Seq({"Enable", "Disable"}) /\ signals' = Tail(signals)
    BY <1>5 DEF DisableRequestSignalCb, Typed
  <2>6. signals' \in Seq({"Enable", "Disable"})
    BY <2>1, <2>5
  <2>2. handler' \in BOOLEAN /\ disableSig' \in BOOLEAN
    BY <1>5 DEF DisableRequestSignalCb
  <2>3. cmds' \in Seq(CmdOf(R, S)) /\ msgs' \in Seq(MsgOf(R, S))
    BY <1>5, RunCommandsTyped DEF DisableRequestSignalCb, Typed
  <2>4. UNCHANGED <<mainVars, jsVars, enableSig, known, requests>>
    BY <1>5 DEF DisableRequestSignalCb
  <2> QED BY <2>2, <2>3, <2>4, <2>6 DEF Typed, mainVars, jsVars
<1>6. ASSUME NEW kind \in Kinds, NEW i \in 0..S,
             NEW answer \in {"none", "ok", "error", "comment"}, Request(kind, i, answer),
             signals' \in Seq({"Enable", "Disable"}), enabled' = enabled,
             cmds' = cmds
               \/ \E c \in CmdOf(R + 1, S) : cmds' = Append(cmds, c),
             enableCbs' = enableCbs \/ enableCbs' = Append(enableCbs, NewReq),
             afterEnableCbs' = afterEnableCbs \/ afterEnableCbs' = Append(afterEnableCbs, NewReq),
             disableCbs' = disableCbs \/ disableCbs' = Append(disableCbs, NewReq)
      PROVE  Typed'
  <2>1. requests' \in Seq(RequestOf(S)) /\ Len(requests') = R + 1 /\ NewReq = R + 1
    BY <1>6, RequestTyped
  <2>2. /\ enableCbs \in Seq(1..(R + 1)) /\ afterEnableCbs \in Seq(1..(R + 1))
        /\ disableCbs \in Seq(1..(R + 1))
        /\ cmds \in Seq(CmdOf(R + 1, S)) /\ msgs \in Seq(MsgOf(R + 1, S))
    BY <1>0, Grown
  <2>3. NewReq \in 1..(R + 1)
    BY <1>0, <2>1
  <2>4. /\ enableCbs' \in Seq(1..(R + 1)) /\ afterEnableCbs' \in Seq(1..(R + 1))
        /\ disableCbs' \in Seq(1..(R + 1))
    <3>1. /\ Append(enableCbs, NewReq) \in Seq(1..(R + 1))
          /\ Append(afterEnableCbs, NewReq) \in Seq(1..(R + 1))
          /\ Append(disableCbs, NewReq) \in Seq(1..(R + 1))
      BY <2>2, <2>3
    <3> QED BY <1>6, <2>2, <3>1
  <2>5. cmds' \in Seq(CmdOf(R + 1, S))
    <3>1. CASE cmds' = cmds
      BY <2>2, <3>1
    <3>2. CASE \E c \in CmdOf(R + 1, S) : cmds' = Append(cmds, c)
      BY <2>2, <3>2
    <3> QED BY <1>6, <3>1, <3>2
  <2>6. UNCHANGED <<mainVars, handler, enableSig, disableSig, msgs, known>>
    BY <1>6 DEF Request
  <2> QED BY <1>6, <2>1, <2>2, <2>4, <2>5, <2>6 DEF Typed, mainVars
<1>7. \A step \in AllSteps \ {"afterCompile"}, r \in 0..(R + 1), i \in 0..S,
         n \in {DevToolsUrlToV8Name(url) : url \in Urls} :
        Command(step, r, i, n) \in CmdOf(R + 1, S)
  BY DEF Command, CmdOf
<1>8. /\ <<>> \in {DevToolsUrlToV8Name(url) : url \in Urls}
      /\ \A k \in known : DevToolsUrlToV8Name(k[2]) \in {DevToolsUrlToV8Name(url) : url \in Urls}
      /\ \A k \in known : k[1] \in 0..S
      /\ NewReq \in 0..(R + 1) /\ 0 \in 0..(R + 1) /\ 0 \in 0..S
  <2>1. \A k \in known : k[1] \in 0..S
    BY <1>0 DEF Typed
  <2>2. NewReq \in 0..(R + 1) /\ 0 \in 0..(R + 1) /\ 0 \in 0..S
    BY <1>0 DEF NewReq
  <2> QED BY <2>1, <2>2, UrlsTyped
<1>9. /\ {"list", "byId", "byName", "bound", "main", "disconnect"} = AllSteps \ {"afterCompile"}
      /\ Append(signals, "Enable") \in Seq({"Enable", "Disable"})
      /\ Append(signals, "Disable") \in Seq({"Enable", "Disable"})
      /\ signals \in Seq({"Enable", "Disable"})
  BY DEF AllSteps, Typed
<1>10. CASE Enable
  BY <1>6, <1>8, <1>9, <1>10 DEF Enable, Kinds
<1>11. CASE DisableMethod
  <2>1. cmds' = cmds \/ cmds' = Append(cmds, Command("disconnect", 0, 0, <<>>))
    BY <1>11 DEF DisableMethod, Send
  <2>2. Command("disconnect", 0, 0, <<>>) \in CmdOf(R + 1, S)
    BY <1>7, <1>8, <1>9
  <2>3. signals' \in Seq({"Enable", "Disable"})
    BY <1>9, <1>11 DEF DisableMethod
  <2> QED BY <1>6, <1>8, <1>11, <2>1, <2>2, <2>3 DEF DisableMethod, Kinds
<1>12. CASE GetScriptSource
  <2>1. PICK k \in known : /\ Request("source", k[1], "none")
                           /\ Send(Command("byId", NewReq, k[1], <<>>))
    BY <1>12 DEF GetScriptSource
  <2>2. Command("byId", NewReq, k[1], <<>>) \in CmdOf(R + 1, S)
    BY <1>7, <1>8, <1>9
  <2> QED BY <1>6, <1>8, <1>9, <1>12, <2>1, <2>2 DEF GetScriptSource, Send, Kinds, jsVars
<1>13. CASE GetResourceContent
  <2>1. PICK k \in known :
          LET name == DevToolsUrlToV8Name(k[2])
          IN \/ Request("content", k[1], "comment") /\ UNCHANGED cmds
             \/ Request("content", k[1], "none") /\ Send(Command("byName", NewReq, 0, name))
    BY <1>13 DEF GetResourceContent
  <2>2. Command("byName", NewReq, 0, DevToolsUrlToV8Name(k[2])) \in CmdOf(R + 1, S)
    BY <1>7, <1>8, <1>9
  <2>3. UNCHANGED <<jsVars, signals>>
    BY <1>13 DEF GetResourceContent
  <2>4. CASE Request("content", k[1], "comment") /\ UNCHANGED cmds
    BY <1>6, <1>8, <1>9, <2>3, <2>4 DEF Kinds, jsVars
  <2>5. CASE /\ Request("content", k[1], "none")
             /\ Send(Command("byName", NewReq, 0, DevToolsUrlToV8Name(k[2])))
    BY <1>6, <1>8, <1>9, <2>2, <2>3, <2>5 DEF Kinds, jsVars, Send
  <2> QED BY <2>1, <2>4, <2>5
<1>14. CASE SetBreakpointByUrl
  <2>1. PICK k \in known : /\ Request("breakpoint", k[1], "none")
                           /\ Send(Command("bound", NewReq, 0, DevToolsUrlToV8Name(k[2])))
    BY <1>14 DEF SetBreakpointByUrl
  <2>2. Command("bound", NewReq, 0, DevToolsUrlToV8Name(k[2])) \in CmdOf(R + 1, S)
    BY <1>7, <1>8, <1>9
  <2> QED BY <1>6, <1>8, <1>9, <1>14, <2>1, <2>2 DEF SetBreakpointByUrl, Send, Kinds, jsVars
<1>15. CASE GetResourceTree
  <2>1. cmds' = cmds \/ cmds' = Append(cmds, Command("main", NewReq, 0, <<>>))
    BY <1>15 DEF GetResourceTree, Send
  <2>2. Command("main", NewReq, 0, <<>>) \in CmdOf(R + 1, S)
    BY <1>7, <1>8, <1>9
  <2> QED BY <1>6, <1>8, <1>9, <1>15, <2>1, <2>2 DEF GetResourceTree, Kinds
<1>16. CASE OnDebuggerEnabled
  <2> DEFINE lists == [i \in DOMAIN enableCbs |-> Command("list", enableCbs[i], 0, <<>>)]
             mains == [i \in DOMAIN afterEnableCbs |-> Command("main", afterEnableCbs[i], 0, <<>>)]
  <2>1. \A step \in AllSteps \ {"afterCompile"}, r \in 1..R : Command(step, r, 0, <<>>) \in CmdOf(R, S)
    BY <1>0, <1>8 DEF Command, CmdOf
  <2>2. /\ enableCbs \in Seq(1..R) /\ afterEnableCbs \in Seq(1..R)
        /\ DOMAIN enableCbs = 1..Len(enableCbs) /\ Len(enableCbs) \in Nat
        /\ DOMAIN afterEnableCbs = 1..Len(afterEnableCbs) /\ Len(afterEnableCbs) \in Nat
    BY DEF Typed
  <2>3. lists \in [1..Len(enableCbs) -> CmdOf(R, S)]
    <3>1. \A i \in 1..Len(enableCbs) : enableCbs[i] \in 1..R
      BY <2>2
    <3> QED BY <1>9, <2>1, <2>2, <3>1
  <2>4. mains \in [1..Len(afterEnableCbs) -> CmdOf(R, S)]
    <3>1. \A i \in 1..Len(afterEnableCbs) : afterEnableCbs[i] \in 1..R
      BY <2>2
    <3> QED BY <1>9, <2>1, <2>2, <3>1
  <2>5. lists \in Seq(CmdOf(R, S)) /\ mains \in Seq(CmdOf(R, S)) /\ cmds \in Seq(CmdOf(R, S))
    BY <2>2, <2>3, <2>4 DEF Typed
  <2>6. cmds' = cmds \o lists \o mains
    BY <1>16 DEF OnDebuggerEnabled
  <2> HIDE DEF lists, mains
  <2>7. cmds' \in Seq(CmdOf(R, S))
    BY <2>5, <2>6
  <2>8. /\ enabled' = TRUE /\ enableSig' = FALSE /\ enableCbs' = <<>> /\ afterEnableCbs' = <<>>
        /\ UNCHANGED <<mainVars, handler, disableCbs, signals, disableSig, msgs, known, requests>>
    BY <1>16 DEF OnDebuggerEnabled
  <2>9. /\ Len(requests') = R /\ Len(scripts') = S
        /\ enableCbs' \in Seq(1..R) /\ afterEnableCbs' \in Seq(1..R)
    BY <2>8 DEF mainVars
  <2> QED BY <2>7, <2>8, <2>9 DEF Typed, mainVars
<1>17. CASE OnDebuggerDisabled
  <2>1. requests \in Seq(RequestOf(S))
    BY DEF Typed
  <2>2. ASSUME NEW r \in 1..R PROVE [requests[r] EXCEPT !.answer = "ok"] \in RequestOf(S)
    <3>1. requests[r] \in RequestOf(S)
      BY <2>1
    <3> QED BY <3>1 DEF RequestOf
  <2>3. requests' = [r \in 1..R |-> IF r \in ToSet(disableCbs)
                                    THEN [requests[r] EXCEPT !.answer = "ok"] ELSE requests[r]]
    BY <1>0, <1>17 DEF OnDebuggerDisabled
  <2>4. requests' \in [1..R -> RequestOf(S)]
    BY <2>1, <2>2, <2>3
  <2>5. requests' \in Seq(RequestOf(S)) /\ Len(requests') = R
    BY <1>0, <2>4
  <2>6. /\ disableSig' = FALSE /\ disableCbs' = <<>>
        /\ UNCHANGED <<mainVars, handler, enabled, enableCbs, afterEnableCbs, signals,
                       enableSig, cmds, msgs, known>>
    BY <1>17 DEF OnDebuggerDisabled
  <2>7. disableCbs' \in Seq(1..R) /\ Len(scripts') = S
    BY <2>6 DEF mainVars
  <2> QED BY <2>5, <2>6, <2>7 DEF Typed, mainVars
<1>18. CASE OnDebuggerMessage
  <2> DEFINE m == Head(msgs)
  <2>1. /\ m \in MsgOf(R, S) /\ msgs' \in Seq(MsgOf(R, S))
        /\ UNCHANGED <<mainVars, handler, jsVars, sigVars, cmds>>
    BY <1>18 DEF OnDebuggerMessage, Typed
  <2>2. m.ids \subseteq 1..S
    BY <2>1 DEF MsgOf
  <2>3. \A ids \in SUBSET (1..S) : ScriptsParsed(ids) => known' \subseteq (1..S) \X Urls
    BY UrlsTyped DEF ScriptsParsed, Typed
  <2>4. <<>> \in Urls /\ V8NameToDevToolsUrl(main) \in Urls
    BY UrlsTyped
  <2>5. known' \subseteq (1..S) \X Urls /\ requests' \in Seq(RequestOf(S)) /\ Len(requests') = R
    <3>1. CASE OnList(m)
      BY <2>2, <2>3, <2>4, <3>1, AnswerTyped DEF OnList
    <3>2. CASE OnAfterCompile(m)
      BY <2>2, <2>3, <3>2 DEF OnAfterCompile, Typed
    <3>3. CASE OnSource(m)
      <4>1. CASE Answer(m.req, {}, <<>>, <<>>)
        BY <2>4, <3>3, <4>1, AnswerTyped DEF OnSource, Typed
      <4>2. CASE \E i \in m.ids : Answer(m.req, {i}, UnwrapScript(Source(i)), <<>>)
        <5>1. PICK i \in m.ids : Answer(m.req, {i}, UnwrapScript(Source(i)), <<>>)
          BY <4>2
        <5>2. UnwrapScript(Source(i)) \in {<<"x">>, <<"(", "x", ")">>}
          <6>1. scripts[i].name \in Names(platform) /\ platform \in DOMAIN FileNames
            BY <2>2, ScriptTyped DEF Typed
          <6> QED BY <6>1, TextOfSource DEF Source
        <5>3. {i} \in SUBSET (1..S)
          BY <2>2
        <5>4. requests' \in Seq(RequestOf(S)) /\ Len(requests') = R
          BY <2>4, <5>1, <5>2, <5>3, AnswerTyped
        <5>5. known' = known
          BY <3>3 DEF OnSource
        <5> QED BY <5>4, <5>5 DEF Typed
      <4> QED BY <3>3, <4>1, <4>2 DEF OnSource
    <3>4. CASE OnBound(m)
      BY <2>2, <2>4, <3>4, AnswerTyped DEF OnBound, Typed
    <3>5. CASE OnMain(m)
      <4>1. CASE requests' = [requests EXCEPT ![m.req].answer = "error"]
        <5>1. requests \in Seq(RequestOf(S))
          BY DEF Typed
        <5>2. ASSUME NEW r \in 1..R PROVE requests'[r] \in RequestOf(S)
          <6>1. requests[r] \in RequestOf(S)
            BY <5>1
          <6>2. [requests[r] EXCEPT !.answer = "error"] \in RequestOf(S)
            BY <6>1 DEF RequestOf
          <6> QED BY <1>0, <4>1, <6>1, <6>2
        <5>3. requests' \in [1..R -> RequestOf(S)]
          BY <1>0, <4>1, <5>2
        <5>4. requests' \in Seq(RequestOf(S)) /\ Len(requests') = R
          BY <1>0, <5>3
        <5>5. known' = known
          BY <3>5 DEF OnMain
        <5> QED BY <5>4, <5>5 DEF Typed
      <4>2. CASE Answer(m.req, {}, <<>>, V8NameToDevToolsUrl(main))
        BY <2>4, <3>5, <4>2, AnswerTyped DEF OnMain, Typed
      <4> QED BY <3>5, <4>1, <4>2 DEF OnMain
    <3>6. CASE UNCHANGED <<known, requests>>
      BY <3>6 DEF Typed
    <3> QED BY <1>18, <3>1, <3>2, <3>3, <3>4, <3>5, <3>6 DEF OnDebuggerMessage
  <2> QED BY <2>1, <2>5 DEF Typed, mainVars, jsVars, sigVars
<1>19. CASE UNCHANGED vars
  BY <1>19 DEF Typed, vars, mainVars, jsVars, sigVars
<1> QED BY <1>1, <1>2, <1>3, <1>4, <1>5, <1>10, <1>11, <1>12, <1>13, <1>14, <1>15, <1>16,
           <1>17, <1>18, <1>19 DEF Next

\* They hold to begin with,
LEMMA InitTyped == Init => Typed
<1> SUFFICES ASSUME Init PROVE Typed
  OBVIOUS
<1>1. platform \in DOMAIN FileNames /\ main \in FileNames[platform] \cup {<<>>}
  BY NamesAre DEF Init
<1>2. scripts \in Seq(ScriptOf(platform))
  <2>1. CASE main = <<>>
    BY <2>1 DEF Init
  <2>2. CASE main # <<>>
    <3>1. Script(main) \in ScriptOf(platform)
      BY <1>1, <2>2 DEF Script, Names, ScriptOf
    <3> QED BY <2>2, <3>1 DEF Init
  <2> QED BY <2>1, <2>2
<1>3. /\ enableCbs = <<>> /\ afterEnableCbs = <<>> /\ disableCbs = <<>> /\ signals = <<>>
      /\ cmds = <<>> /\ msgs = <<>> /\ requests = <<>> /\ known = {}
      /\ handler = FALSE /\ enabled = FALSE /\ enableSig = FALSE /\ disableSig = FALSE
  BY DEF Init
<1>4. \A T : <<>> \in Seq(T)
  OBVIOUS
<1> QED BY <1>1, <1>2, <1>3, <1>4 DEF Typed

\* and ever after.
LEMMA TypedAlways == Spec => []Typed
BY InitTyped, NextTyped, PTL DEF Spec

\* Every variable has its type: TypeOK.
THEOREM TypeCorrect == Spec => []TypeOK
BY TypedAlways, TypedGives, PTL

------------------------------------------------------------------------------
(* Requests, and what travels for them.  qs are requests and ss scripts, of  *)
(* one state or of the next.                                                 *)

Concerns == {"source", "content", "breakpoint"}

\* The URL under which the script is known that a request is about, and the
\* name that V8 is asked for.
UrlOf(q, ss) == V8NameToDevToolsUrl(ss[q.means].name)
Asked(q, ss) == DevToolsUrlToV8Name(UrlOf(q, ss))

\* The front-end gives the id or URL of a script that there is.
About(q, ss) ==
  /\ q.kind \in Concerns => q.means \in DOMAIN ss
  /\ q.answer = "comment" <=> q.kind = "content" /\ UrlOf(q, ss) = <<>>

\* Script i is one that the request asks for.
Matches(q, i, ss) ==
  /\ q.kind = "source" => i = q.means
  /\ q.kind = "content" => HasPart(ss[i].name, Asked(q, ss))
  /\ q.kind = "breakpoint" => ss[i].name = Asked(q, ss)

\* The script that the front-end means can be found.
Expected(q, ss) ==
  /\ ss[q.means].live
  /\ q.kind = "source" \/ (~DiskLike(ss[q.means].name) /\ UrlOf(q, ss) # <<>>)

\* Which command asks for which request.
StepKinds == {<<"list", "enable">>, <<"byId", "source">>, <<"byName", "content">>,
              <<"bound", "breakpoint">>, <<"main", "tree">>}
ForItsRequest(c, qs) ==
  \/ c.step \in {"disconnect", "afterCompile"}
  \/ c.req \in DOMAIN qs /\ <<c.step, qs[c.req].kind>> \in StepKinds

AsksFor(c, qs, ss) ==
  /\ ForItsRequest(c, qs)
  /\ c.step = "byId" => c.id = qs[c.req].means
  /\ c.step \in {"byName", "bound"} => c.name = Asked(qs[c.req], ss)
  /\ c.step = "byName" => UrlOf(qs[c.req], ss) # <<>>

\* What V8 found for a command.
Carries(m, qs, ss) ==
  /\ ForItsRequest(m, qs)
  /\ m.step = "byName" => UrlOf(qs[m.req], ss) # <<>>
  /\ m.step \in {"byId", "byName", "bound"} =>
       /\ \A i \in m.ids : Matches(qs[m.req], i, ss)
       /\ Expected(qs[m.req], ss) => qs[m.req].means \in m.ids

Unwrapped(i, ss) ==
  LET n == ss[i].name
  IN UnwrapScript(IF IsModule(n) THEN <<"(">> \o Text(n) \o <<")">> ELSE Text(n))

\* What came of it.
Answered(q, ss, file) ==
  q.answer = "ok" =>
    /\ q.kind \in Concerns =>
         /\ \A i \in q.ids : Matches(q, i, ss)
         /\ Expected(q, ss) => q.ids # {} /\ (q.kind = "breakpoint" => q.means \in q.ids)
         /\ q.kind # "breakpoint" => \A i \in q.ids : q.text = Unwrapped(i, ss)
    /\ q.kind = "tree" => file # <<>> /\ q.url = V8NameToDevToolsUrl(file)

Settling(cbs, kind, qs) == \A i \in DOMAIN cbs : cbs[i] \in DOMAIN qs /\ qs[cbs[i]].kind = kind

Requested ==
  \A r \in DOMAIN requests : About(requests[r], scripts) /\ Answered(requests[r], scripts, main)
Awaited ==
  /\ Settling(enableCbs, "enable", requests)
  /\ Settling(afterEnableCbs, "tree", requests)
  /\ Settling(disableCbs, "disable", requests)
Asking == \A i \in DOMAIN cmds : AsksFor(cmds[i], requests, scripts)
Carrying == \A i \in DOMAIN msgs : Carries(msgs[i], requests, scripts)

Consistent == Requested /\ Awaited /\ Asking /\ Carrying

\* Scripts keep their names, and do not come back.
Later(ss, ts) ==
  /\ DOMAIN ss \subseteq DOMAIN ts
  /\ \A i \in DOMAIN ss : ts[i].name = ss[i].name /\ (ts[i].live => ss[i].live)

\* Requests stay what they are.
Same(qs, rs) ==
  /\ DOMAIN qs \subseteq DOMAIN rs
  /\ \A r \in DOMAIN qs : rs[r].kind = qs[r].kind /\ rs[r].means = qs[r].means

\* Neither takes from a request what it is about and what it got,
LEMMA RequestKept ==
  ASSUME NEW q, NEW ss, NEW ts, NEW file, Later(ss, ts), q.ids \subseteq DOMAIN ss,
         About(q, ss), Answered(q, ss, file)
  PROVE  About(q, ts) /\ Answered(q, ts, file)
<1>1. CASE q.kind \in Concerns
  <2>1. q.means \in DOMAIN ss
    BY <1>1 DEF About
  <2>2. UrlOf(q, ts) = UrlOf(q, ss) /\ Asked(q, ts) = Asked(q, ss)
    BY <2>1 DEF UrlOf, Asked, Later
  <2>3. Expected(q, ts) => Expected(q, ss)
    BY <2>1, <2>2 DEF Expected, Later
  <2>4. \A i \in q.ids : /\ Matches(q, i, ss) => Matches(q, i, ts)
                         /\ Unwrapped(i, ts) = Unwrapped(i, ss)
    BY <2>2 DEF Matches, Unwrapped, Later
  <2>5. About(q, ts)
    BY <2>1, <2>2 DEF About, Later
  <2>6. Answered(q, ts, file)
    BY <1>1, <2>3, <2>4 DEF Answered
  <2> QED BY <2>5, <2>6
<1>2. CASE q.kind \notin Concerns
  BY <1>2 DEF About, Answered, Concerns
<1> QED BY <1>1, <1>2

\* from a command what it asks for,
LEMMA CommandKept ==
  ASSUME NEW c, NEW qs, NEW rs, NEW ss, NEW ts, Later(ss, ts), Same(qs, rs),
         \A r \in DOMAIN qs : About(qs[r], ss), AsksFor(c, qs, ss)
  PROVE  AsksFor(c, rs, ts)
<1>1. CASE c.step \in {"disconnect", "afterCompile"}
  BY <1>1 DEF AsksFor, ForItsRequest
<1>2. CASE c.step \notin {"disconnect", "afterCompile"}
  <2>1. /\ c.req \in DOMAIN qs /\ c.req \in DOMAIN rs
        /\ rs[c.req].kind = qs[c.req].kind /\ rs[c.req].means = qs[c.req].means
    BY <1>2 DEF AsksFor, ForItsRequest, Same
  <2>2. ForItsRequest(c, rs)
    BY <1>2, <2>1 DEF AsksFor, ForItsRequest
  <2>3. ASSUME c.step \in {"byName", "bound"}
        PROVE  UrlOf(rs[c.req], ts) = UrlOf(qs[c.req], ss)
    <3>1. qs[c.req].kind \in Concerns
      BY <1>2, <2>3 DEF AsksFor, ForItsRequest, StepKinds, Concerns
    <3>2. qs[c.req].means \in DOMAIN ss
      BY <2>1, <3>1 DEF About
    <3> QED BY <2>1, <3>2 DEF UrlOf, Later
  <2> QED BY <2>1, <2>2, <2>3 DEF AsksFor, Asked
<1> QED BY <1>1, <1>2

\* and from a message what was found.
LEMMA MessageKept ==
  ASSUME NEW m, NEW qs, NEW rs, NEW ss, NEW ts, Later(ss, ts), Same(qs, rs),
         m.ids \subseteq DOMAIN ss,
         \A r \in DOMAIN qs : About(qs[r], ss), Carries(m, qs, ss)
  PROVE  Carries(m, rs, ts)
<1>1. CASE m.step \in {"disconnect", "afterCompile"}
  BY <1>1 DEF Carries, ForItsRequest
<1>2. CASE m.step \notin {"disconnect", "afterCompile"}
  <2>1. /\ m.req \in DOMAIN qs /\ m.req \in DOMAIN rs
        /\ rs[m.req].kind = qs[m.req].kind /\ rs[m.req].means = qs[m.req].means
    BY <1>2 DEF Carries, ForItsRequest, Same
  <2>2. ForItsRequest(m, rs)
    BY <1>2, <2>1 DEF Carries, ForItsRequest
  <2>3. CASE m.step \in {"byId", "byName", "bound"}
    <3>1. qs[m.req].kind \in Concerns
      BY <1>2, <2>3 DEF Carries, ForItsRequest, StepKinds, Concerns
    <3>2. qs[m.req].means \in DOMAIN ss
      BY <2>1, <3>1 DEF About
    <3>3. UrlOf(rs[m.req], ts) = UrlOf(qs[m.req], ss) /\ Asked(rs[m.req], ts) = Asked(qs[m.req], ss)
      BY <2>1, <3>2 DEF UrlOf, Asked, Later
    <3>4. Expected(rs[m.req], ts) => Expected(qs[m.req], ss)
      BY <2>1, <3>2, <3>3 DEF Expected, Later
    <3>5. \A i \in m.ids : Matches(qs[m.req], i, ss) => Matches(rs[m.req], i, ts)
      BY <2>1, <3>3 DEF Matches, Later
    <3> QED BY <2>1, <2>2, <2>3, <3>3, <3>4, <3>5 DEF Carries
  <2>4. CASE m.step \notin {"byId", "byName", "bound"}
    BY <2>2, <2>4 DEF Carries
  <2> QED BY <2>3, <2>4
<1> QED BY <1>1, <1>2

\* V8 finds what a command asks for.
LEMMA FoundIsAsked ==
  ASSUME Typed, Consistent, NEW i \in DOMAIN cmds
  PROVE  Carries([step |-> cmds[i].step, req |-> cmds[i].req, ids |-> Found(cmds[i])],
                 requests, scripts)
<1> DEFINE c == cmds[i]
           q == requests[c.req]
           m == [step |-> c.step, req |-> c.req, ids |-> Found(c)]
<1>1. AsksFor(c, requests, scripts)
  BY DEF Consistent, Asking
<1> HIDE DEF c
<1>2. m.step = c.step /\ m.req = c.req /\ m.ids = Found(c)
  OBVIOUS
<1>3. ForItsRequest(m, requests) /\ (m.step = "byName" => UrlOf(q, scripts) # <<>>)
  BY <1>1 DEF AsksFor, ForItsRequest
<1>4. ASSUME c.step \in {"byId", "byName", "bound"}
      PROVE  /\ c.req \in DOMAIN requests /\ <<c.step, q.kind>> \in StepKinds
             /\ q.means \in DOMAIN scripts /\ scripts[q.means].name \in Names(platform)
             /\ platform \in DOMAIN FileNames
  <2>1. c.req \in DOMAIN requests /\ <<c.step, q.kind>> \in StepKinds
    BY <1>1, <1>4 DEF AsksFor, ForItsRequest
  <2>2. q.kind \in Concerns
    BY <1>4, <2>1 DEF StepKinds, Concerns
  <2>3. q.means \in DOMAIN scripts
    BY <2>1, <2>2 DEF Consistent, Requested, About
  <2>4. DOMAIN scripts = 1..Len(scripts) /\ platform \in DOMAIN FileNames
    BY DEF Typed
  <2> QED BY <2>1, <2>3, <2>4, ScriptTyped
<1>5. CASE c.step = "byId"
  <2>1. q.kind = "source" /\ c.id = q.means /\ Found(c) = Live \cap {q.means}
    BY <1>1, <1>4, <1>5 DEF StepKinds, AsksFor, Found
  <2>2. \A j \in Found(c) : Matches(q, j, scripts)
    BY <2>1 DEF Matches
  <2>3. Expected(q, scripts) => q.means \in Found(c)
    BY <1>4, <1>5, <2>1 DEF Expected, Live
  <2> QED BY <1>2, <1>3, <2>2, <2>3 DEF Carries, c
<1>6. CASE c.step = "byName"
  <2>1. /\ q.kind = "content" /\ c.name = Asked(q, scripts)
        /\ Found(c) = {j \in Live : HasPart(scripts[j].name, c.name)}
    BY <1>1, <1>4, <1>6 DEF StepKinds, AsksFor, Found
  <2>2. \A j \in Found(c) : Matches(q, j, scripts)
    BY <2>1 DEF Matches
  <2>3. ASSUME Expected(q, scripts) PROVE q.means \in Found(c)
    <3>1. c.name = scripts[q.means].name
      BY <1>4, <1>6, <2>1, <2>3, NamesOfUrls DEF Expected, Asked, UrlOf
    <3>2. HasPart(scripts[q.means].name, c.name)
      BY <1>4, <1>6, <3>1, HasItself
    <3> QED BY <1>4, <1>6, <2>1, <2>3, <3>2 DEF Expected, Live
  <2> QED BY <1>2, <1>3, <2>2, <2>3 DEF Carries, c
<1>7. CASE c.step = "bound"
  <2>1. /\ q.kind = "breakpoint" /\ c.name = Asked(q, scripts)
        /\ Found(c) = {j \in Live : scripts[j].name = c.name}
    BY <1>1, <1>4, <1>7 DEF StepKinds, AsksFor, Found
  <2>2. \A j \in Found(c) : Matches(q, j, scripts)
    BY <2>1 DEF Matches
  <2>3. ASSUME Expected(q, scripts) PROVE q.means \in Found(c)
    <3>1. c.name = scripts[q.means].name
      BY <1>4, <1>7, <2>1, <2>3, NamesOfUrls DEF Expected, Asked, UrlOf
    <3> QED BY <1>4, <1>7, <2>1, <2>3, <3>1 DEF Expected, Live
  <2> QED BY <1>2, <1>3, <2>2, <2>3 DEF Carries, c
<1>8. CASE c.step \notin {"byId", "byName", "bound"}
  BY <1>2, <1>3, <1>8 DEF Carries, c
<1> QED BY <1>5, <1>6, <1>7, <1>8

------------------------------------------------------------------------------
(* What the front-end was told.                                              *)

\* It knows scripts as they are.
KnownAsTheyAre == \A k \in known : k[1] \in 1..Len(scripts) /\ k = ScriptData(k[1])

\* Every step leaves scripts their names, and none comes back.
LEMMA ScriptsLater ==
  ASSUME Typed, [Next]_vars
  PROVE  Later(scripts, scripts')
<1>0. DOMAIN scripts = 1..Len(scripts) /\ Len(scripts) \in Nat /\ scripts \in Seq(ScriptOf(platform))
  BY DEF Typed
<1>1. CASE Compile
  <2>1. PICK n \in FileNames[platform] \cup OtherNames : scripts' = Append(scripts, Script(n))
    BY <1>1 DEF Compile
  <2>2. Script(n) \in ScriptOf(platform)
    BY DEF Script, ScriptOf, Names
  <2>3. /\ DOMAIN scripts' = 1..(Len(scripts) + 1)
        /\ \A i \in 1..Len(scripts) : scripts'[i] = scripts[i]
    BY <1>0, <2>1, <2>2
  <2> QED BY <1>0, <2>3 DEF Later
<1>2. CASE Unload
  <2>1. PICK i \in Live : scripts' = [scripts EXCEPT ![i].live = FALSE]
    BY <1>2 DEF Unload
  <2>2. \A j \in DOMAIN scripts : scripts[j] \in ScriptOf(platform)
    BY <1>0
  <2>3. /\ DOMAIN scripts' = DOMAIN scripts
        /\ \A j \in DOMAIN scripts \ {i} : scripts'[j] = scripts[j]
        /\ i \in DOMAIN scripts
        /\ scripts'[i] = [scripts[i] EXCEPT !.live = FALSE]
    BY <2>1 DEF Live
  <2>4. scripts'[i].name = scripts[i].name /\ ~scripts'[i].live
    BY <2>2, <2>3 DEF ScriptOf
  <2> QED BY <2>3, <2>4 DEF Later
<1>3. ASSUME UNCHANGED scripts PROVE Later(scripts, scripts')
  BY <1>3 DEF Later
<1>4. CASE Process \/ EnableRequestSignalCb \/ DisableRequestSignalCb
  BY <1>3, <1>4 DEF Process, EnableRequestSignalCb, DisableRequestSignalCb, mainVars
<1>5. ASSUME NEW kind, NEW i, NEW answer, Request(kind, i, answer) PROVE UNCHANGED scripts
  BY <1>5 DEF Request, mainVars
<1>6. CASE \/ Enable \/ DisableMethod \/ GetScriptSource \/ GetResourceContent
           \/ SetBreakpointByUrl \/ GetResourceTree
  BY <1>3, <1>5, <1>6 DEF Enable, DisableMethod, GetScriptSource, GetResourceContent,
                          SetBreakpointByUrl, GetResourceTree
<1>7. CASE OnDebuggerEnabled \/ OnDebuggerDisabled \/ OnDebuggerMessage \/ UNCHANGED vars
  BY <1>3, <1>7 DEF OnDebuggerEnabled, OnDebuggerDisabled, OnDebuggerMessage, mainVars, vars
<1> QED BY <1>1, <1>2, <1>4, <1>6, <1>7 DEF Next

\* Every step keeps the front-end right about the scripts it knows.
LEMMA NextKnown ==
  ASSUME Typed, KnownAsTheyAre, [Next]_vars
  PROVE  KnownAsTheyAre'
<1>1. Later(scripts, scripts') /\ DOMAIN scripts = 1..Len(scripts)
  BY ScriptsLater DEF Typed
<1>2. DOMAIN scripts' = 1..Len(scripts')
  BY NextTyped DEF Typed
<1>3. \A i \in 1..Len(scripts) : i \in 1..Len(scripts') /\ ScriptData(i)' = ScriptData(i)
  BY <1>1, <1>2 DEF Later, ScriptData
<1>4. \/ known' = known
      \/ \E ids \in SUBSET (1..Len(scripts)) : ScriptsParsed(ids)
  <2>1. CASE OnDebuggerMessage
    <3>1. Head(msgs) \in MsgOf(Len(requests), Len(scripts))
      BY <2>1 DEF OnDebuggerMessage, Typed
    <3>2. Head(msgs).ids \in SUBSET (1..Len(scripts))
      BY <3>1 DEF MsgOf
    <3> QED BY <2>1, <3>2 DEF OnDebuggerMessage, OnList, OnAfterCompile, OnSource, OnBound, OnMain
  <2>2. ASSUME NEW kind, NEW i, NEW answer, Request(kind, i, answer) PROVE UNCHANGED known
    BY <2>2 DEF Request
  <2>3. CASE \/ Enable \/ DisableMethod \/ GetScriptSource \/ GetResourceContent
             \/ SetBreakpointByUrl \/ GetResourceTree
    BY <2>2, <2>3 DEF Enable, DisableMethod, GetScriptSource, GetResourceContent,
                      SetBreakpointByUrl, GetResourceTree
  <2>4. CASE \/ Compile \/ Unload \/ Process \/ EnableRequestSignalCb \/ DisableRequestSignalCb
             \/ OnDebuggerEnabled \/ OnDebuggerDisabled \/ UNCHANGED vars
    BY <2>4 DEF Compile, Unload, Process, EnableRequestSignalCb, DisableRequestSignalCb,
                OnDebuggerEnabled, OnDebuggerDisabled, vars
  <2> QED BY <2>1, <2>3, <2>4 DEF Next
<1>5. ASSUME NEW k \in known' PROVE k[1] \in 1..Len(scripts) /\ k = ScriptData(k[1])
  <2>1. CASE k \in known
    BY <2>1 DEF KnownAsTheyAre
  <2>2. CASE k \notin known
    <3>1. PICK ids \in SUBSET (1..Len(scripts)) : known' = known \cup {ScriptData(i) : i \in ids}
      BY <1>4, <1>5, <2>2 DEF ScriptsParsed
    <3>2. PICK i \in ids : k = ScriptData(i)
      BY <1>5, <2>2, <3>1
    <3>3. k[1] = i
      BY <3>2 DEF ScriptData
    <3> QED BY <3>2, <3>3
  <2> QED BY <2>1, <2>2
<1>6. ASSUME NEW k \in known' PROVE k[1] \in 1..Len(scripts') /\ k = ScriptData(k[1])'
  <2>1. k[1] \in 1..Len(scripts) /\ k = ScriptData(k[1])
    BY <1>5, <1>6
  <2> DEFINE i == k[1]
  <2>2. i \in 1..Len(scripts') /\ ScriptData(i)' = ScriptData(i)
    BY <1>1, <1>2, <2>1 DEF Later, ScriptData
  <2> QED BY <2>1, <2>2
<1> QED BY <1>6 DEF KnownAsTheyAre, ScriptData

\* It is right about them all along.
LEMMA KnownAlways == Spec => [](Typed /\ KnownAsTheyAre)
<1>1. Init => KnownAsTheyAre
  BY DEF Init, KnownAsTheyAre
<1> QED BY <1>1, InitTyped, NextTyped, NextKnown, PTL DEF Spec

------------------------------------------------------------------------------
(* Requests are consistent with what travels for them.                       *)

\* What V8 answers is what was asked for.
LEMMA RunCommandsCarry ==
  ASSUME Typed, Consistent, RunCommands
  PROVE  cmds' = <<>> /\ \A i \in DOMAIN msgs' : Carries(msgs'[i], requests, scripts)
<1> DEFINE answers == [i \in DOMAIN cmds |->
                         [step |-> cmds[i].step, req |-> cmds[i].req, ids |-> Found(cmds[i])]]
<1>1. DOMAIN cmds = 1..Len(cmds) /\ Len(cmds) \in Nat /\ Len(msgs) \in Nat
      /\ DOMAIN msgs = 1..Len(msgs) /\ msgs \in Seq(MsgOf(Len(requests), Len(scripts)))
  BY DEF Typed
<1>2. \A i \in DOMAIN cmds : Carries(answers[i], requests, scripts)
  BY FoundIsAsked
<1>3. /\ answers \in Seq(MsgOf(Len(requests), Len(scripts)))
      /\ Len(answers) = Len(cmds) /\ DOMAIN answers = DOMAIN cmds
  <2>1. ASSUME NEW i \in DOMAIN cmds
        PROVE  answers[i] \in MsgOf(Len(requests), Len(scripts))
    <3>1. cmds[i] \in CmdOf(Len(requests), Len(scripts))
      BY DEF Typed
    <3>2. Found(cmds[i]) \subseteq 1..Len(scripts)
      BY FoundType, LiveIds
    <3> QED BY <3>1, <3>2 DEF CmdOf, MsgOf
  <2> QED BY <1>1, <2>1
<1>4. msgs' = msgs \o answers /\ cmds' = <<>>
  BY DEF RunCommands
<1> HIDE DEF answers
<1>5. ASSUME NEW i \in DOMAIN msgs' PROVE Carries(msgs'[i], requests, scripts)
  <2>1. /\ i \in 1..(Len(msgs) + Len(answers))
        /\ msgs'[i] = IF i <= Len(msgs) THEN msgs[i] ELSE answers[i - Len(msgs)]
    BY <1>1, <1>3, <1>4, <1>5, ConcatProperties
  <2>2. CASE i <= Len(msgs)
    BY <1>1, <2>1, <2>2 DEF Consistent, Carrying
  <2>3. CASE ~(i <= Len(msgs))
    <3>1. i - Len(msgs) \in DOMAIN cmds
      BY <1>1, <1>3, <2>1, <2>3
    <3> QED BY <1>2, <2>1, <2>3, <3>1
  <2> QED BY <2>2, <2>3
<1> QED BY <1>4, <1>5

\* A step that adds what is consistent.
LEMMA ConsistentKept ==
  ASSUME Typed, Consistent, Later(scripts, scripts'), Same(requests, requests'), main' = main,
         \A r \in DOMAIN requests' :
           \/ r \in DOMAIN requests /\ requests'[r] = requests[r]
           \/ About(requests'[r], scripts') /\ Answered(requests'[r], scripts', main),
         Awaited',
         \A i \in DOMAIN cmds' :
           \/ \E j \in DOMAIN cmds : cmds'[i] = cmds[j]
           \/ AsksFor(cmds'[i], requests', scripts'),
         \A i \in DOMAIN msgs' :
           \/ \E j \in DOMAIN msgs : msgs'[i] = msgs[j]
           \/ Carries(msgs'[i], requests', scripts')
  PROVE  Consistent'
<1>1. \A r \in DOMAIN requests : About(requests[r], scripts)
  BY DEF Consistent, Requested
<1>2. DOMAIN scripts = 1..Len(scripts) /\ DOMAIN requests = 1..Len(requests)
  BY DEF Typed
<1>3. Requested'
  <2>1. ASSUME NEW r \in DOMAIN requests
        PROVE  About(requests[r], scripts') /\ Answered(requests[r], scripts', main)
    <3>1. requests \in Seq(RequestOf(Len(scripts)))
      BY DEF Typed
    <3>2. requests[r] \in RequestOf(Len(scripts))
      BY <3>1
    <3>3. requests[r].ids \subseteq DOMAIN scripts
      BY <1>2, <3>2 DEF RequestOf
    <3> QED BY <3>3, RequestKept DEF Consistent, Requested
  <2> QED BY <2>1 DEF Requested
<1>4. Asking'
  <2>1. \A j \in DOMAIN cmds : AsksFor(cmds[j], requests', scripts')
    BY <1>1, CommandKept DEF Consistent, Asking
  <2> QED BY <2>1 DEF Asking
<1>5. Carrying'
  <2>1. ASSUME NEW j \in DOMAIN msgs PROVE Carries(msgs[j], requests', scripts')
    <3>1. msgs[j] \in MsgOf(Len(requests), Len(scripts))
      BY DEF Typed
    <3>2. msgs[j].ids \subseteq DOMAIN scripts
      BY <1>2, <3>1 DEF MsgOf
    <3> QED BY <1>1, <3>2, MessageKept DEF Consistent, Carrying
  <2> QED BY <2>1 DEF Carrying
<1> QED BY <1>3, <1>4, <1>5 DEF Consistent

\* Requests that wait in a list go on waiting,
LEMMA SettlingKept ==
  ASSUME NEW cbs, NEW kind, NEW qs, NEW rs, Same(qs, rs), Settling(cbs, kind, qs)
  PROVE  Settling(cbs, kind, rs)
BY DEF Settling, Same

\* all that do.
LEMMA AwaitedKept ==
  ASSUME Awaited, Same(requests, requests'), UNCHANGED <<enableCbs, afterEnableCbs, disableCbs>>
  PROVE  Awaited'
BY SettlingKept DEF Awaited

\* A request of the front-end, and the command for it.
LEMMA RequestConsistent ==
  ASSUME Typed, Consistent, NEW kind \in Kinds, NEW i \in 0..Len(scripts),
         NEW answer \in {"none", "comment"}, Request(kind, i, answer),
         kind \in Concerns => i \in 1..Len(scripts),
         answer = "comment" <=>
           kind = "content" /\ V8NameToDevToolsUrl(scripts[i].name) = <<>>,
         \/ cmds' = cmds
         \/ \E c \in CmdOf(Len(requests) + 1, Len(scripts)) :
              cmds' = Append(cmds, c) /\ AsksFor(c, requests', scripts),
         enableCbs' = enableCbs \/ (kind = "enable" /\ enableCbs' = Append(enableCbs, NewReq)),
         \/ afterEnableCbs' = afterEnableCbs
         \/ kind = "tree" /\ afterEnableCbs' = Append(afterEnableCbs, NewReq),
         disableCbs' = disableCbs \/ (kind = "disable" /\ disableCbs' = Append(disableCbs, NewReq))
  PROVE  Consistent'
<1> DEFINE R == Len(requests)
           q == [kind |-> kind, means |-> i, answer |-> answer,
                 ids |-> {}, text |-> <<>>, url |-> <<>>]
<1>1. /\ Len(requests') = R + 1 /\ NewReq = R + 1 /\ R \in Nat
      /\ \A r \in 1..R : requests'[r] = requests[r]
      /\ requests'[NewReq] = q
      /\ DOMAIN requests' = 1..(R + 1) /\ DOMAIN requests = 1..R
  <2>1. /\ requests' \in Seq(RequestOf(Len(scripts)))
        /\ Len(requests') = R + 1 /\ NewReq = Len(requests')
        /\ \A r \in 1..R : requests'[r] = requests[r]
        /\ requests'[NewReq] = q
    BY RequestTyped
  <2>2. requests \in Seq(RequestOf(Len(scripts)))
    BY DEF Typed
  <2> HIDE DEF q
  <2> QED BY <2>1, <2>2
<1>2. q.kind = kind /\ q.means = i /\ q.answer = answer
  OBVIOUS
<1> HIDE DEF q
<1>3. UNCHANGED <<scripts, main, msgs>>
  BY DEF Request, mainVars
<1>4. Later(scripts, scripts') /\ Same(requests, requests')
  BY <1>1, <1>3 DEF Later, Same
<1>5. DOMAIN scripts = 1..Len(scripts)
  BY DEF Typed
<1>6. About(q, scripts')
  BY <1>2, <1>3, <1>5 DEF About, UrlOf, Concerns
<1>7. Answered(q, scripts', main)
  BY <1>2 DEF Answered
<1>8. \A r \in DOMAIN requests' :
        \/ r \in DOMAIN requests /\ requests'[r] = requests[r]
        \/ About(requests'[r], scripts') /\ Answered(requests'[r], scripts', main)
  <2>1. ASSUME NEW r \in DOMAIN requests' PROVE r \in 1..R \/ r = NewReq
    BY <1>1
  <2> QED BY <1>1, <1>6, <1>7, <2>1
<1>9. Awaited'
  <2>1. ASSUME NEW cbs \in Seq(1..R), NEW k, Settling(cbs, k, requests)
        PROVE  /\ Settling(cbs, k, requests')
               /\ kind = k => Settling(Append(cbs, NewReq), k, requests')
    <3>1. Settling(cbs, k, requests')
      BY <1>4, <2>1, SettlingKept
    <3>2. ASSUME kind = k PROVE Settling(Append(cbs, NewReq), k, requests')
      <4>1. /\ DOMAIN Append(cbs, NewReq) = 1..(Len(cbs) + 1) /\ DOMAIN cbs = 1..Len(cbs)
            /\ \A j \in 1..Len(cbs) : Append(cbs, NewReq)[j] = cbs[j]
            /\ Append(cbs, NewReq)[Len(cbs) + 1] = NewReq
        BY <1>1
      <4>2. ASSUME NEW j \in DOMAIN Append(cbs, NewReq)
            PROVE  j \in DOMAIN cbs \/ j = Len(cbs) + 1
        BY <4>1
      <4>3. NewReq \in DOMAIN requests' /\ requests'[NewReq].kind = k
        BY <1>1, <1>2, <3>2
      <4> QED BY <3>1, <4>1, <4>2, <4>3 DEF Settling
    <3> QED BY <3>1, <3>2
  <2>2. /\ enableCbs \in Seq(1..R) /\ Settling(enableCbs, "enable", requests)
        /\ afterEnableCbs \in Seq(1..R) /\ Settling(afterEnableCbs, "tree", requests)
        /\ disableCbs \in Seq(1..R) /\ Settling(disableCbs, "disable", requests)
    BY DEF Typed, Consistent, Awaited
  <2>3. Settling(enableCbs', "enable", requests')
    BY <2>1, <2>2
  <2>4. Settling(afterEnableCbs', "tree", requests')
    BY <2>1, <2>2
  <2>5. Settling(disableCbs', "disable", requests')
    BY <2>1, <2>2
  <2> QED BY <2>3, <2>4, <2>5 DEF Awaited
<1>10. \A j \in DOMAIN cmds' :
         \/ \E l \in DOMAIN cmds : cmds'[j] = cmds[l]
         \/ AsksFor(cmds'[j], requests', scripts')
  <2>1. CASE cmds' = cmds
    BY <2>1
  <2>2. CASE cmds' # cmds
    <3>1. PICK c \in CmdOf(R + 1, Len(scripts)) :
            cmds' = Append(cmds, c) /\ AsksFor(c, requests', scripts)
      BY <2>2
    <3>2. cmds \in Seq(CmdOf(R + 1, Len(scripts)))
      BY <1>1, Grown DEF Typed
    <3>3. /\ DOMAIN cmds' = 1..(Len(cmds) + 1) /\ DOMAIN cmds = 1..Len(cmds)
          /\ \A j \in 1..Len(cmds) : cmds'[j] = cmds[j]
          /\ cmds'[Len(cmds) + 1] = c /\ Len(cmds) \in Nat
      BY <3>1, <3>2
    <3>4. ASSUME NEW j \in DOMAIN cmds' PROVE j \in DOMAIN cmds \/ j = Len(cmds) + 1
      BY <3>3
    <3> QED BY <1>3, <3>1, <3>3, <3>4
  <2> QED BY <2>1, <2>2
<1>11. \A j \in DOMAIN msgs' : \E l \in DOMAIN msgs : msgs'[j] = msgs[l]
  BY <1>3
<1> QED BY <1>3, <1>4, <1>8, <1>9, <1>10, <1>11, ConsistentKept

\* An answer: what the message carries.
LEMMA MessageConsistent ==
  ASSUME Typed, Consistent, OnDebuggerMessage
  PROVE  Consistent'
<1> DEFINE m == Head(msgs)
           q == requests[m.req]
<1>1. /\ msgs # <<>> /\ msgs' = Tail(msgs)
      /\ UNCHANGED <<platform, main, scripts, enableCbs, afterEnableCbs, disableCbs, cmds>>
  BY DEF OnDebuggerMessage, mainVars, jsVars
<1>2. /\ msgs \in Seq(MsgOf(Len(requests), Len(scripts)))
      /\ DOMAIN requests = 1..Len(requests) /\ DOMAIN scripts = 1..Len(scripts)
      /\ requests \in Seq(RequestOf(Len(scripts)))
  BY DEF Typed
<1>3. Carries(m, requests, scripts) /\ m \in MsgOf(Len(requests), Len(scripts))
  BY <1>1, <1>2 DEF Consistent, Carrying
<1>4. \A i \in DOMAIN msgs' : \E j \in DOMAIN msgs : msgs'[i] = msgs[j]
  <2>1. ASSUME NEW i \in DOMAIN msgs' PROVE i + 1 \in DOMAIN msgs /\ msgs'[i] = msgs[i + 1]
    BY <1>1, <1>2, <2>1
  <2> QED BY <2>1
<1> HIDE DEF m
<1>5. Later(scripts, scripts')
  BY <1>1 DEF Later
<1>6. ASSUME Same(requests, requests'),
             \A r \in DOMAIN requests' :
               \/ r \in DOMAIN requests /\ requests'[r] = requests[r]
               \/ About(requests'[r], scripts) /\ Answered(requests'[r], scripts, main)
      PROVE  Consistent'
  <2>1. Awaited'
    BY <1>1, <1>6, AwaitedKept DEF Consistent
  <2>2. \A i \in DOMAIN cmds' : \E j \in DOMAIN cmds : cmds'[i] = cmds[j]
    BY <1>1
  <2>3. scripts' = scripts /\ main' = main
    BY <1>1
  <2> QED BY <1>4, <1>5, <1>6, <2>1, <2>2, <2>3, ConsistentKept
<1>7. CASE m.step \in {"disconnect", "afterCompile"}
  <2>1. requests' = requests
    BY <1>7 DEF OnDebuggerMessage, OnList, OnAfterCompile, OnSource, OnBound, OnMain, m
  <2> QED BY <1>6, <2>1 DEF Same
<1>8. CASE m.step \notin {"disconnect", "afterCompile"}
  <2>1. m.req \in DOMAIN requests /\ <<m.step, q.kind>> \in StepKinds
    BY <1>3, <1>8 DEF Carries, ForItsRequest
  <2>2. About(q, scripts) /\ q \in RequestOf(Len(scripts))
    BY <1>2, <2>1 DEF Consistent, Requested
  <2>3. q.kind \in Concerns => q.means \in DOMAIN scripts
    BY <2>2 DEF About
  <2>4. ~(q.kind = "content" /\ UrlOf(q, scripts) = <<>>)
    BY <1>3, <2>1 DEF Carries, StepKinds
  <2>5. ASSUME NEW p, p.kind = q.kind, p.means = q.means, p.answer # "comment",
               requests' = [requests EXCEPT ![m.req] = p], Answered(p, scripts, main)
        PROVE  Consistent'
    <3>1. About(p, scripts)
      BY <2>3, <2>4, <2>5 DEF About, UrlOf
    <3>2. /\ DOMAIN requests' = DOMAIN requests /\ requests'[m.req] = p
          /\ \A r \in DOMAIN requests \ {m.req} : requests'[r] = requests[r]
      BY <2>1, <2>5
    <3>3. Same(requests, requests')
      BY <2>5, <3>2 DEF Same
    <3> QED BY <1>6, <2>5, <3>1, <3>2, <3>3
  <2>6. ASSUME NEW ids, NEW text, NEW url, Answer(m.req, ids, text, url),
               q.kind \in Concerns =>
                 /\ \A i \in ids : Matches(q, i, scripts)
                 /\ Expected(q, scripts) => ids # {} /\ (q.kind = "breakpoint" => q.means \in ids)
                 /\ q.kind # "breakpoint" => \A i \in ids : text = Unwrapped(i, scripts),
               q.kind = "tree" => main # <<>> /\ url = V8NameToDevToolsUrl(main)
        PROVE  Consistent'
    <3> DEFINE p == [q EXCEPT !.answer = "ok", !.ids = ids, !.text = text, !.url = url]
    <3>1. /\ p.kind = q.kind /\ p.means = q.means /\ p.answer = "ok"
          /\ p.ids = ids /\ p.text = text /\ p.url = url
      BY <2>2 DEF RequestOf
    <3>2. requests' = [requests EXCEPT ![m.req] = p]
      BY <2>6 DEF Answer
    <3> HIDE DEF p, q
    <3>3. \A i : Matches(p, i, scripts) <=> Matches(q, i, scripts)
      BY <3>1 DEF Matches, Asked, UrlOf
    <3>4. Expected(p, scripts) <=> Expected(q, scripts)
      BY <3>1 DEF Expected, UrlOf
    <3>5. Answered(p, scripts, main)
      BY <2>6, <3>1, <3>3, <3>4 DEF Answered
    <3> QED BY <2>5, <3>1, <3>2, <3>5
  <2>7. CASE OnList(m)
    <3>1. q.kind = "enable" /\ Answer(m.req, m.ids, <<>>, <<>>)
      BY <2>1, <2>7 DEF StepKinds, OnList
    <3> QED BY <2>6, <3>1 DEF Concerns
  <2>8. CASE OnBound(m)
    <3>1. q.kind = "breakpoint" /\ Answer(m.req, m.ids, <<>>, <<>>) /\ m.step = "bound"
      BY <2>1, <2>8 DEF StepKinds, OnBound
    <3>2. \A i \in m.ids : Matches(q, i, scripts)
      BY <1>3, <3>1 DEF Carries
    <3>3. Expected(q, scripts) => q.means \in m.ids
      BY <1>3, <3>1 DEF Carries
    <3> HIDE DEF q
    <3> QED BY <2>6, <3>1, <3>2, <3>3
  <2>9. CASE OnSource(m)
    <3>1. q.kind \in {"source", "content"} /\ m.step \in {"byId", "byName"}
      BY <2>1, <2>9 DEF StepKinds, OnSource
    <3>2. \A i \in m.ids : Matches(q, i, scripts)
      BY <1>3, <3>1 DEF Carries
    <3>3. Expected(q, scripts) => q.means \in m.ids
      BY <1>3, <3>1 DEF Carries
    <3> HIDE DEF q
    <3>4. CASE m.ids = {} /\ Answer(m.req, {}, <<>>, <<>>)
      BY <2>6, <3>1, <3>3, <3>4
    <3>5. CASE \E i \in m.ids : Answer(m.req, {i}, UnwrapScript(Source(i)), <<>>)
      <4>1. PICK i \in m.ids : Answer(m.req, {i}, UnwrapScript(Source(i)), <<>>)
        BY <3>5
      <4>2. UnwrapScript(Source(i)) = Unwrapped(i, scripts)
        BY DEF Source, Unwrapped
      <4> QED BY <2>6, <3>1, <3>2, <4>1, <4>2
    <3> QED BY <2>9, <3>4, <3>5 DEF OnSource
  <2>10. CASE OnMain(m)
    <3>1. q.kind = "tree"
      BY <2>1, <2>10 DEF StepKinds, OnMain
    <3>2. CASE main = <<>>
      <4> DEFINE p == [q EXCEPT !.answer = "error"]
      <4>1. p.kind = q.kind /\ p.means = q.means /\ p.answer = "error"
        BY <2>2 DEF RequestOf
      <4>2. requests' = [requests EXCEPT ![m.req] = p]
        BY <2>10, <3>2 DEF OnMain
      <4> HIDE DEF p, q
      <4>3. Answered(p, scripts, main)
        BY <4>1 DEF Answered
      <4> QED BY <2>5, <4>1, <4>2, <4>3
    <3>3. CASE main # <<>>
      <4>1. Answer(m.req, {}, <<>>, V8NameToDevToolsUrl(main))
        BY <2>10, <3>3 DEF OnMain
      <4> HIDE DEF q
      <4> QED BY <2>6, <3>1, <3>3, <4>1 DEF Concerns
    <3> QED BY <3>2, <3>3
  <2> QED BY <1>8, <2>7, <2>8, <2>9, <2>10 DEF OnDebuggerMessage, OnAfterCompile, m
<1> QED BY <1>7, <1>8

\* Every step keeps requests and what travels for them consistent.
LEMMA NextConsistent ==
  ASSUME Typed, KnownAsTheyAre, Consistent, [Next]_vars
  PROVE  Consistent'
<1> DEFINE R == Len(requests)
           S == Len(scripts)
<1>1. /\ DOMAIN requests = 1..R /\ DOMAIN scripts = 1..S /\ R \in Nat /\ S \in Nat
      /\ Later(scripts, scripts')
  BY ScriptsLater DEF Typed
<1>2. ASSUME UNCHANGED <<main, requests, enableCbs, afterEnableCbs, disableCbs>>,
             \A i \in DOMAIN cmds' :
               \/ \E j \in DOMAIN cmds : cmds'[i] = cmds[j]
               \/ AsksFor(cmds'[i], requests', scripts'),
             \A i \in DOMAIN msgs' :
               \/ \E j \in DOMAIN msgs : msgs'[i] = msgs[j]
               \/ Carries(msgs'[i], requests', scripts')
      PROVE  Consistent'
  <2>1. Same(requests, requests')
    BY <1>2 DEF Same
  <2>2. Awaited'
    BY <1>2, <2>1, AwaitedKept DEF Consistent
  <2> QED BY <1>1, <1>2, <2>1, <2>2, ConsistentKept
<1>3. CASE Compile
  <2> DEFINE m == [step |-> "afterCompile", req |-> 0, ids |-> {S + 1}]
  <2>1. /\ msgs' = Append(msgs, m) \/ msgs' = msgs
        /\ UNCHANGED <<main, requests, enableCbs, afterEnableCbs, disableCbs, cmds>>
    BY <1>3 DEF Compile, jsVars
  <2>2. Carries(m, requests', scripts')
    BY DEF Carries, ForItsRequest
  <2>3. msgs \in Seq(MsgOf(R, S + 1)) /\ m \in MsgOf(R, S + 1)
    <3>1. m \in MsgOf(R, S + 1)
      BY <1>1 DEF MsgOf, AllSteps
    <3> QED BY <1>1, <3>1, Grown
  <2> HIDE DEF m, S
  <2>4. /\ \A i \in DOMAIN msgs : Append(msgs, m)[i] = msgs[i]
        /\ \A i \in DOMAIN Append(msgs, m) : i \in DOMAIN msgs \/ Append(msgs, m)[i] = m
    BY <2>3
  <2>5. \A i \in DOMAIN msgs' : (\E j \in DOMAIN msgs : msgs'[i] = msgs[j]) \/ msgs'[i] = m
    BY <2>1, <2>4
  <2> QED BY <1>2, <2>1, <2>2, <2>5
<1>4. CASE Unload
  BY <1>2, <1>4 DEF Unload, jsVars
<1>5. ASSUME RunCommands, UNCHANGED <<mainVars, jsVars, requests>> PROVE Consistent'
  <2>1. cmds' = <<>> /\ \A i \in DOMAIN msgs' : Carries(msgs'[i], requests', scripts')
    BY <1>5, RunCommandsCarry DEF mainVars
  <2> QED BY <1>2, <1>5, <2>1 DEF mainVars, jsVars
<1>6. CASE Process
  BY <1>5, <1>6 DEF Process
<1>7. CASE EnableRequestSignalCb
  BY <1>2, <1>7 DEF EnableRequestSignalCb, mainVars, jsVars
<1>8. CASE DisableRequestSignalCb
  <2>1. UNCHANGED <<mainVars, jsVars, requests>>
    BY <1>8 DEF DisableRequestSignalCb
  <2>2. CASE handler
    BY <1>5, <1>8, <2>1, <2>2 DEF DisableRequestSignalCb
  <2>3. CASE ~handler
    BY <1>2, <1>8, <2>1, <2>3 DEF DisableRequestSignalCb, mainVars, jsVars
  <2> QED BY <2>2, <2>3
<1>9. \A kind, i, answer : Request(kind, i, answer) => NewReq = R + 1 /\ R + 1 \in DOMAIN requests'
        /\ requests'[R + 1].kind = kind /\ requests'[R + 1].means = i
  <2>1. ASSUME NEW kind, NEW i, NEW answer, Request(kind, i, answer)
        PROVE  NewReq = R + 1 /\ R + 1 \in DOMAIN requests'
               /\ requests'[R + 1].kind = kind /\ requests'[R + 1].means = i
    <3> DEFINE q == [kind |-> kind, means |-> i, answer |-> answer,
                     ids |-> {}, text |-> <<>>, url |-> <<>>]
    <3>1. q.kind = kind /\ q.means = i
      OBVIOUS
    <3>2. requests' = Append(requests, q) /\ NewReq = R + 1
      BY <2>1 DEF Request, NewReq
    <3> HIDE DEF q
    <3> QED BY <1>1, <3>1, <3>2 DEF Typed
  <2> QED BY <2>1
<1>10. \A k \in known : /\ k[1] \in 1..S /\ k[1] \in 0..S
                        /\ k[2] = V8NameToDevToolsUrl(scripts[k[1]].name)
                        /\ (DevToolsUrlToV8Name(k[2]) = <<>> <=> k[2] = <<>>)
  <2>1. ASSUME NEW k \in known
        PROVE  k[1] \in 1..S /\ k[2] = V8NameToDevToolsUrl(scripts[k[1]].name)
    BY DEF KnownAsTheyAre, ScriptData
  <2>2. platform \in DOMAIN FileNames
    BY DEF Typed
  <2> QED BY <2>1, <2>2, ScriptTyped, NamesOfUrls
<1>11. \A step, r, i, n : LET c == Command(step, r, i, n)
                          IN c.step = step /\ c.req = r /\ c.id = i /\ c.name = n
  BY DEF Command
<1>12. \A step \in AllSteps \ {"afterCompile"}, i \in 0..S,
          n \in {DevToolsUrlToV8Name(url) : url \in Urls} :
         /\ Command(step, R + 1, i, n) \in CmdOf(R + 1, S)
         /\ Command(step, 0, i, n) \in CmdOf(R + 1, S)
  BY <1>1 DEF Command, CmdOf
<1>13. /\ {"list", "byId", "byName", "bound", "main", "disconnect"} = AllSteps \ {"afterCompile"}
       /\ <<>> \in {DevToolsUrlToV8Name(url) : url \in Urls} /\ 0 \in 0..S
       /\ \A k \in known : DevToolsUrlToV8Name(k[2]) \in {DevToolsUrlToV8Name(url) : url \in Urls}
  BY <1>1, UrlsTyped DEF AllSteps
<1>14. CASE Enable
  BY <1>13, <1>14, RequestConsistent DEF Enable, Kinds, Concerns
<1>15. CASE DisableMethod
  <2> DEFINE c == Command("disconnect", 0, 0, <<>>)
  <2>1. cmds' = cmds \/ cmds' = Append(cmds, c)
    BY <1>15 DEF DisableMethod, Send
  <2>2. AsksFor(c, requests', scripts)
    BY <1>11 DEF AsksFor, ForItsRequest
  <2>3. c \in CmdOf(R + 1, S)
    BY <1>12, <1>13
  <2> HIDE DEF c
  <2> QED BY <1>13, <1>15, <2>1, <2>2, <2>3, RequestConsistent DEF DisableMethod, Kinds, Concerns
<1>16. CASE GetScriptSource
  <2>1. PICK k \in known : /\ Request("source", k[1], "none")
                           /\ Send(Command("byId", NewReq, k[1], <<>>))
    BY <1>16 DEF GetScriptSource
  <2> DEFINE c == Command("byId", R + 1, k[1], <<>>)
  <2>2. cmds' = Append(cmds, c)
    BY <1>9, <2>1 DEF Send
  <2>3. AsksFor(c, requests', scripts)
    BY <1>9, <1>11, <2>1 DEF AsksFor, ForItsRequest, StepKinds
  <2>4. c \in CmdOf(R + 1, S)
    BY <1>10, <1>12, <1>13
  <2>5. UNCHANGED <<enableCbs, afterEnableCbs, disableCbs>>
    BY <1>16 DEF GetScriptSource, jsVars
  <2> HIDE DEF c
  <2> QED BY <1>10, <2>1, <2>2, <2>3, <2>4, <2>5, RequestConsistent DEF Kinds, Concerns
<1>17. CASE GetResourceContent
  <2>1. PICK k \in known :
          LET name == DevToolsUrlToV8Name(k[2])
          IN \/ name = <<>> /\ Request("content", k[1], "comment") /\ UNCHANGED cmds
             \/ /\ name # <<>> /\ Request("content", k[1], "none")
                /\ Send(Command("byName", NewReq, 0, name))
    BY <1>17 DEF GetResourceContent
  <2> DEFINE name == DevToolsUrlToV8Name(k[2])
             c == Command("byName", R + 1, 0, name)
  <2>2. UNCHANGED <<enableCbs, afterEnableCbs, disableCbs>>
    BY <1>17 DEF GetResourceContent, jsVars
  <2>3. CASE name = <<>> /\ Request("content", k[1], "comment") /\ UNCHANGED cmds
    BY <1>10, <2>2, <2>3, RequestConsistent DEF Kinds, Concerns
  <2>4. CASE /\ name # <<>> /\ Request("content", k[1], "none")
             /\ Send(Command("byName", NewReq, 0, name))
    <3>1. cmds' = Append(cmds, c)
      BY <1>9, <2>4 DEF Send
    <3>2. UrlOf(requests'[R + 1], scripts) = k[2] /\ Asked(requests'[R + 1], scripts) = name
      BY <1>9, <1>10, <2>4 DEF UrlOf, Asked
    <3>3. AsksFor(c, requests', scripts)
      BY <1>9, <1>10, <1>11, <2>4, <3>2 DEF AsksFor, ForItsRequest, StepKinds
    <3>4. c \in CmdOf(R + 1, S)
      BY <1>12, <1>13
    <3> HIDE DEF c
    <3> QED BY <1>10, <2>2, <2>4, <3>1, <3>3, <3>4, RequestConsistent DEF Kinds, Concerns
  <2> QED BY <2>1, <2>3, <2>4
<1>18. CASE SetBreakpointByUrl
  <2>1. PICK k \in known : /\ Request("breakpoint", k[1], "none")
                           /\ Send(Command("bound", NewReq, 0, DevToolsUrlToV8Name(k[2])))
    BY <1>18 DEF SetBreakpointByUrl
  <2> DEFINE name == DevToolsUrlToV8Name(k[2])
             c == Command("bound", R + 1, 0, name)
  <2>2. cmds' = Append(cmds, c)
    BY <1>9, <2>1 DEF Send
  <2>3. Asked(requests'[R + 1], scripts) = name
    BY <1>9, <1>10, <2>1 DEF UrlOf, Asked
  <2>4. AsksFor(c, requests', scripts)
    BY <1>9, <1>11, <2>1, <2>3 DEF AsksFor, ForItsRequest, StepKinds
  <2>5. c \in CmdOf(R + 1, S)
    BY <1>12, <1>13
  <2>6. UNCHANGED <<enableCbs, afterEnableCbs, disableCbs>>
    BY <1>18 DEF SetBreakpointByUrl, jsVars
  <2> HIDE DEF c
  <2> QED BY <1>10, <2>1, <2>2, <2>4, <2>5, <2>6, RequestConsistent DEF Kinds, Concerns
<1>19. CASE GetResourceTree
  <2> DEFINE c == Command("main", R + 1, 0, <<>>)
  <2>1. Request("tree", 0, "none") /\ (cmds' = cmds \/ cmds' = Append(cmds, c))
    BY <1>9, <1>19 DEF GetResourceTree, Send
  <2>2. AsksFor(c, requests', scripts)
    BY <1>9, <1>11, <2>1 DEF AsksFor, ForItsRequest, StepKinds
  <2>3. c \in CmdOf(R + 1, S)
    BY <1>12, <1>13
  <2> HIDE DEF c
  <2> QED BY <1>13, <1>19, <2>1, <2>2, <2>3, RequestConsistent DEF GetResourceTree, Kinds, Concerns
<1>20. CASE OnDebuggerEnabled
  <2> DEFINE lists == [i \in DOMAIN enableCbs |-> Command("list", enableCbs[i], 0, <<>>)]
             mains == [i \in DOMAIN afterEnableCbs |-> Command("main", afterEnableCbs[i], 0, <<>>)]
  <2>1. /\ cmds' = cmds \o lists \o mains /\ enableCbs' = <<>> /\ afterEnableCbs' = <<>>
        /\ UNCHANGED <<scripts, main, disableCbs, msgs, requests>>
    BY <1>20 DEF OnDebuggerEnabled, mainVars
  <2>2. /\ DOMAIN enableCbs = 1..Len(enableCbs) /\ Len(enableCbs) \in Nat
        /\ DOMAIN afterEnableCbs = 1..Len(afterEnableCbs) /\ Len(afterEnableCbs) \in Nat
        /\ DOMAIN cmds = 1..Len(cmds) /\ Len(cmds) \in Nat
    BY DEF Typed
  <2>3. \A i \in DOMAIN enableCbs : AsksFor(lists[i], requests, scripts)
    BY <1>11 DEF Consistent, Awaited, Settling, AsksFor, ForItsRequest, StepKinds
  <2>4. \A i \in DOMAIN afterEnableCbs : AsksFor(mains[i], requests, scripts)
    BY <1>11 DEF Consistent, Awaited, Settling, AsksFor, ForItsRequest, StepKinds
  <2> DEFINE T == {cmds[i] : i \in DOMAIN cmds} \cup {lists[i] : i \in DOMAIN enableCbs}
                  \cup {mains[i] : i \in DOMAIN afterEnableCbs}
  <2>5. /\ lists \in [1..Len(enableCbs) -> T] /\ mains \in [1..Len(afterEnableCbs) -> T]
        /\ cmds \in [1..Len(cmds) -> T]
    <3>1. cmds \in Seq(CmdOf(R, S))
      BY DEF Typed
    <3>2. cmds = [i \in 1..Len(cmds) |-> cmds[i]]
      BY <3>1
    <3> QED BY <2>2, <3>2
  <2>6. \A c \in T : (\E j \in DOMAIN cmds : c = cmds[j]) \/ AsksFor(c, requests, scripts)
    BY <2>3, <2>4
  <2> HIDE DEF lists, mains, T
  <2>7. lists \in Seq(T) /\ mains \in Seq(T) /\ cmds \in Seq(T)
    BY <2>2, <2>5
  <2>8. cmds' \in Seq(T)
    BY <2>1, <2>7
  <2>9. \A i \in DOMAIN cmds' : cmds'[i] \in T
    BY <2>8
  <2>10. Awaited'
    BY <2>1 DEF Awaited, Settling, Consistent
  <2>11. Same(requests, requests')
    BY <2>1 DEF Same
  <2> QED BY <1>1, <2>1, <2>6, <2>9, <2>10, <2>11, ConsistentKept
<1>21. CASE OnDebuggerDisabled
  <2>1. /\ requests' = [r \in DOMAIN requests |->
                          IF r \in ToSet(disableCbs) THEN [requests[r] EXCEPT !.answer = "ok"]
                                                     ELSE requests[r]]
        /\ disableCbs' = <<>>
        /\ UNCHANGED <<scripts, main, enableCbs, afterEnableCbs, cmds, msgs>>
    BY <1>21 DEF OnDebuggerDisabled, mainVars
  <2>2. \A r \in DOMAIN requests : requests[r] \in RequestOf(S)
    BY DEF Typed
  <2>3. ASSUME NEW r \in DOMAIN requests
        PROVE  /\ requests'[r].kind = requests[r].kind /\ requests'[r].means = requests[r].means
               /\ \/ requests'[r] = requests[r]
                  \/ requests[r].kind = "disable" /\ requests'[r].answer = "ok"
    <3>1. CASE r \in ToSet(disableCbs)
      <4>1. requests[r].kind = "disable"
        BY <3>1 DEF ToSet, Consistent, Awaited, Settling
      <4> QED BY <2>1, <2>2, <3>1, <4>1 DEF RequestOf
    <3>2. CASE r \notin ToSet(disableCbs)
      BY <2>1, <3>2
    <3> QED BY <3>1, <3>2
  <2>4. Same(requests, requests')
    BY <2>1, <2>3 DEF Same
  <2>5. ASSUME NEW r \in DOMAIN requests'
        PROVE  \/ r \in DOMAIN requests /\ requests'[r] = requests[r]
               \/ About(requests'[r], scripts') /\ Answered(requests'[r], scripts', main)
    <3>1. r \in DOMAIN requests
      BY <2>1
    <3>2. CASE requests'[r] # requests[r]
      <4>1. requests'[r].kind = "disable" /\ requests'[r].answer = "ok"
        BY <2>3, <3>1, <3>2
      <4> QED BY <4>1 DEF About, Answered, Concerns
    <3> QED BY <3>1, <3>2
  <2>6. Awaited'
    <3>1. Settling(enableCbs, "enable", requests') /\ Settling(afterEnableCbs, "tree", requests')
      BY <2>4, SettlingKept DEF Consistent, Awaited
    <3> QED BY <2>1, <3>1 DEF Awaited, Settling
  <2> QED BY <1>1, <2>1, <2>4, <2>5, <2>6, ConsistentKept
<1>22. CASE OnDebuggerMessage
  BY <1>22, MessageConsistent
<1>23. CASE UNCHANGED vars
  BY <1>2, <1>23 DEF vars, mainVars, jsVars
<1> QED BY <1>3, <1>4, <1>6, <1>7, <1>8, <1>14, <1>15, <1>16, <1>17, <1>18, <1>19, <1>20,
           <1>21, <1>22, <1>23 DEF Next

\* They are so all along.
LEMMA ConsistentAlways == Spec => [](Typed /\ KnownAsTheyAre /\ Consistent)
<1>1. Init => Consistent
  BY DEF Init, Consistent, Requested, Awaited, Settling, Asking, Carrying
<1> QED BY <1>1, KnownAlways, NextConsistent, PTL DEF Spec

------------------------------------------------------------------------------
(* The properties.                                                           *)

\* A breakpoint by URL is in every script with that URL and in no other:
\* BreakpointWhereShown.
THEOREM BreakpointWhereShownAlways == Spec => []BreakpointWhereShown
<1>1. ASSUME Typed, Consistent PROVE BreakpointWhereShown
  <2> SUFFICES ASSUME NEW r \in DOMAIN requests, requests[r].kind = "breakpoint",
                      requests[r].answer = "ok", ~DiskLike(NameOf(requests[r]))
               PROVE  LET q == requests[r]
                      IN /\ \A i \in q.ids : ScriptData(i)[2] = ScriptData(q.means)[2]
                         /\ scripts[q.means].live /\ ScriptData(q.means)[2] # <<>>
                              => q.means \in q.ids
    BY DEF BreakpointWhereShown
  <2> DEFINE q == requests[r]
             n == scripts[q.means].name
  <2>1. About(q, scripts) /\ Answered(q, scripts, main)
    BY <1>1 DEF Consistent, Requested
  <2>2. q.means \in DOMAIN scripts
    BY <2>1 DEF About, Concerns
  <2>3. n \in Names(platform) /\ platform \in DOMAIN FileNames
    BY <1>1, <2>2, ScriptTyped DEF Typed
  <2>4. ScriptData(q.means)[2] = UrlOf(q, scripts) /\ UrlOf(q, scripts) = V8NameToDevToolsUrl(n)
    BY DEF ScriptData, UrlOf
  <2>5. \A i \in q.ids : scripts[i].name = Asked(q, scripts)
    BY <2>1 DEF Answered, Concerns, Matches
  <2>6. Expected(q, scripts) => q.means \in q.ids
    BY <2>1 DEF Answered, Concerns
  <2>7. V8NameToDevToolsUrl(Asked(q, scripts)) = UrlOf(q, scripts)
    <3>1. CASE UrlOf(q, scripts) = <<>>
      BY <3>1, UrlTable, NameTable DEF Asked
    <3>2. CASE UrlOf(q, scripts) # <<>>
      <4>1. Asked(q, scripts) = n
        BY <2>3, <2>4, <3>2, NamesOfUrls DEF Asked, NameOf
      <4> QED BY <2>4, <4>1
    <3> QED BY <3>1, <3>2
  <2>8. \A i \in q.ids : ScriptData(i)[2] = ScriptData(q.means)[2]
    BY <2>4, <2>5, <2>7 DEF ScriptData
  <2>9. ~DiskLike(n)
    BY DEF NameOf
  <2>10. scripts[q.means].live /\ ScriptData(q.means)[2] # <<>> => q.means \in q.ids
    BY <2>4, <2>6, <2>9 DEF Expected
  <2> QED BY <2>8, <2>10
<1> QED BY <1>1, ConsistentAlways, PTL

\* The source of a script is that script's, by id and by URL: SourceIsTheScripts.
THEOREM SourceIsTheScriptsAlways == Spec => []SourceIsTheScripts
<1>1. ASSUME Typed, Consistent PROVE SourceIsTheScripts
  <2> SUFFICES ASSUME NEW r \in DOMAIN requests
               PROVE  LET q == requests[r]
                          s == scripts[q.means]
                      IN /\ q.answer = "ok"
                            /\ \/ q.kind = "source"
                               \/ q.kind = "content" /\ ~DiskLike(s.name) /\ ~Shadowed(q.means)
                            => /\ q.ids \subseteq {q.means}
                               /\ s.live => q.means \in q.ids
                               /\ q.ids # {} /\ (IsModule(s.name) \/ Text(s.name)[1] # "(")
                                  => q.text = Text(s.name)
                         /\ q.answer = "comment"
                              <=> q.kind = "content" /\ ScriptData(q.means)[2] = <<>>
    BY DEF SourceIsTheScripts
  <2> DEFINE q == requests[r]
             s == scripts[q.means]
  <2>1. About(q, scripts) /\ Answered(q, scripts, main)
    BY <1>1 DEF Consistent, Requested
  <2>2. ScriptData(q.means)[2] = UrlOf(q, scripts)
    BY DEF ScriptData, UrlOf
  <2>3. q.answer = "comment" <=> q.kind = "content" /\ ScriptData(q.means)[2] = <<>>
    BY <2>1, <2>2 DEF About
  <2>4. ASSUME q.answer = "ok",
               \/ q.kind = "source"
               \/ q.kind = "content" /\ ~DiskLike(s.name) /\ ~Shadowed(q.means)
        PROVE  /\ q.ids \subseteq {q.means}
               /\ s.live => q.means \in q.ids
               /\ q.ids # {} /\ (IsModule(s.name) \/ Text(s.name)[1] # "(")
                    => q.text = Text(s.name)
    <3>1. q.means \in DOMAIN scripts
      BY <2>1, <2>4 DEF About, Concerns
    <3>2. s.name \in Names(platform) /\ platform \in DOMAIN FileNames
      BY <1>1, <3>1, ScriptTyped DEF Typed
    <3>3. q.kind = "content" => UrlOf(q, scripts) # <<>>
      BY <2>1, <2>4 DEF About
    <3>4. q.ids \subseteq Ids
      <4>1. requests \in Seq(RequestOf(Len(scripts)))
        BY <1>1 DEF Typed
      <4>2. q \in RequestOf(Len(scripts))
        BY <4>1
      <4> QED BY <1>1, <4>2 DEF Typed, RequestOf, Ids
    <3>5. ASSUME NEW i \in q.ids PROVE i = q.means
      <4>1. Matches(q, i, scripts)
        BY <2>1, <2>4, <3>5 DEF Answered, Concerns
      <4>2. CASE q.kind = "source"
        BY <4>1, <4>2 DEF Matches
      <4>3. CASE q.kind = "content" /\ ~DiskLike(s.name) /\ ~Shadowed(q.means)
        <5>1. Asked(q, scripts) = s.name
          BY <3>2, <3>3, <4>3, NamesOfUrls DEF Asked, UrlOf
        <5>2. HasPart(scripts[i].name, s.name)
          BY <4>1, <4>3, <5>1 DEF Matches
        <5> QED BY <3>4, <4>3, <5>2 DEF Shadowed
      <4> QED BY <2>4, <4>2, <4>3
    <3>6. ASSUME s.live PROVE q.ids # {}
      <4>1. Expected(q, scripts)
        BY <2>4, <3>3, <3>6 DEF Expected
      <4> QED BY <2>1, <2>4, <4>1 DEF Answered, Concerns
    <3>7. ASSUME q.ids # {}, IsModule(s.name) \/ Text(s.name)[1] # "(" PROVE q.text = Text(s.name)
      <4>1. q.means \in q.ids
        BY <3>5, <3>7
      <4>2. q.text = Unwrapped(q.means, scripts)
        BY <2>1, <2>4, <4>1 DEF Answered, Concerns
      <4>3. Unwrapped(q.means, scripts) = Text(s.name)
        BY <3>2, <3>7, TextOfSource DEF Unwrapped
      <4> QED BY <4>2, <4>3
    <3> HIDE DEF q, s
    <3> QED BY <3>5, <3>6, <3>7
  <2> HIDE DEF q, s
  <2>5. q = requests[r] /\ s = scripts[q.means]
    BY DEF q, s
  <2> QED BY <2>3, <2>4, <2>5
<1> QED BY <1>1, ConsistentAlways, PTL

\* Scripts with different names have different URLs, and the file of the
\* resource tree has the URL of the main script: UrlsKeepApart.
THEOREM UrlsKeepApartAlways == Spec => []UrlsKeepApart
<1>1. ASSUME Typed, KnownAsTheyAre, Consistent PROVE UrlsKeepApart
  <2>1. ASSUME NEW k \in known
        PROVE  /\ k[2] = V8NameToDevToolsUrl(scripts[k[1]].name)
               /\ scripts[k[1]].name \in Names(platform)
    <3>1. k[1] \in 1..Len(scripts) /\ k[2] = V8NameToDevToolsUrl(scripts[k[1]].name)
      BY <1>1 DEF KnownAsTheyAre, ScriptData
    <3> QED BY <1>1, <3>1, ScriptTyped
  <2>2. platform \in DOMAIN FileNames
    BY <1>1 DEF Typed
  <2>3. ASSUME NEW k \in known, NEW l \in known, k[2] # <<>>
        PROVE  k[2] = l[2] <=> scripts[k[1]].name = scripts[l[1]].name
    BY <2>1, <2>2, <2>3, UrlsOfNames
  <2>4. ASSUME NEW r \in DOMAIN requests, NEW k \in known,
               requests[r].kind = "tree", requests[r].answer = "ok"
        PROVE  requests[r].url = k[2] <=> scripts[k[1]].name = main
    <3>1. main # <<>> /\ requests[r].url = V8NameToDevToolsUrl(main)
      BY <1>1, <2>4 DEF Consistent, Requested, Answered
    <3>2. main \in FileNames[platform]
      BY <1>1, <3>1 DEF Typed
    <3>3. main \in Names(platform) /\ main # <<"repl">>
      BY <2>2, <3>2 DEF Names, FileNames
    <3>4. V8NameToDevToolsUrl(main) # <<>>
      BY <2>2, <3>1, <3>3, UrlsOfNames
    <3> QED BY <2>1, <2>2, <3>1, <3>3, <3>4, UrlsOfNames
  <2> QED BY <2>3, <2>4 DEF UrlsKeepApart
<1> QED BY <1>1, ConsistentAlways, PTL

------------------------------------------------------------------------------
(* Every script is reported.                                                 *)

\* While someone waits for the debugger to be on, there is one "Enable" or
\* the answer to it, and otherwise neither.
OneEnable ==
  /\ enableCbs = <<>> => ~enableSig /\ \A i \in DOMAIN signals : signals[i] # "Enable"
  /\ enableSig => \A i \in DOMAIN signals : signals[i] # "Enable"
  /\ \A i, j \in DOMAIN signals : signals[i] = "Enable" /\ signals[j] = "Enable" => i = j

\* The news of script i is still to come.
UnderWay(i) ==
  \/ enableSig
  \/ \E c \in DOMAIN cmds : cmds[c].step = "list"
  \/ \E m \in DOMAIN msgs : msgs[m].step \in {"list", "afterCompile"} /\ i \in msgs[m].ids

ReportedOrUnderWay ==
  handler => \A i \in Live : ScriptData(i) \in known \/ UnderWay(i)

\* Every step keeps the handshake.
LEMMA NextOneEnable ==
  ASSUME Typed, OneEnable, [Next]_vars
  PROVE  OneEnable'
<1>1. /\ signals \in Seq({"Enable", "Disable"}) /\ DOMAIN signals = 1..Len(signals)
      /\ Len(signals) \in Nat /\ enableCbs \in Seq(1..Len(requests))
  BY DEF Typed
<1>2. ASSUME UNCHANGED <<enableCbs, enableSig, signals>> PROVE OneEnable'
  BY <1>2 DEF OneEnable
<1>3. ASSUME NEW x \in {"Enable", "Disable"}
      PROVE  /\ DOMAIN Append(signals, x) = 1..(Len(signals) + 1)
             /\ \A i \in DOMAIN signals : Append(signals, x)[i] = signals[i]
             /\ Append(signals, x)[Len(signals) + 1] = x
  BY <1>1
<1>4. CASE Enable
  <2>1. enableCbs' # <<>> /\ enableSig' = enableSig
    <3>1. enableCbs' = Append(enableCbs, NewReq) /\ enableSig' = enableSig
      BY <1>4 DEF Enable, Request
    <3> QED BY <1>1, <3>1
  <2>2. CASE enableCbs = <<>>
    <3>1. signals' = Append(signals, "Enable")
      BY <1>4, <2>2 DEF Enable
    <3>2. ~enableSig /\ \A i \in DOMAIN signals : signals[i] # "Enable"
      BY <2>2 DEF OneEnable
    <3>3. \A i \in DOMAIN signals' : signals'[i] = "Enable" => i = Len(signals) + 1
      BY <1>1, <1>3, <3>1, <3>2
    <3> QED BY <2>1, <3>2, <3>3 DEF OneEnable
  <2>3. CASE enableCbs # <<>>
    <3>1. signals' = signals
      BY <1>4, <2>3 DEF Enable
    <3> QED BY <2>1, <3>1 DEF OneEnable
  <2> QED BY <2>2, <2>3
<1>5. CASE DisableMethod
  <2>1. enableCbs' = enableCbs /\ enableSig' = enableSig
    BY <1>5 DEF DisableMethod, Request
  <2>2. signals' = signals \/ signals' = Append(signals, "Disable")
    BY <1>5 DEF DisableMethod
  <2>3. \A i \in DOMAIN signals' : signals'[i] = "Enable" => i \in DOMAIN signals /\ signals[i] = "Enable"
    BY <1>1, <1>3, <2>2
  <2> QED BY <2>1, <2>3 DEF OneEnable
<1>6. CASE EnableRequestSignalCb \/ DisableRequestSignalCb
  <2>1. signals # <<>> /\ signals' = Tail(signals) /\ enableCbs' = enableCbs
    BY <1>1, <1>6 DEF EnableRequestSignalCb, DisableRequestSignalCb, IsPrefix, jsVars
  <2>2. \A i \in DOMAIN signals' : i + 1 \in DOMAIN signals /\ signals'[i] = signals[i + 1]
                                   /\ i \in Nat /\ i # 0
    BY <1>1, <2>1
  <2>3. CASE EnableRequestSignalCb
    <3>1. 1 \in DOMAIN signals /\ signals[1] = "Enable"
      BY <1>1, <2>1, <2>3 DEF EnableRequestSignalCb, IsPrefix
    <3>2. enableCbs # <<>>
      BY <3>1 DEF OneEnable
    <3>3. ASSUME NEW i \in DOMAIN signals' PROVE signals'[i] # "Enable"
      <4>1. i + 1 \in DOMAIN signals /\ i + 1 # 1 /\ signals'[i] = signals[i + 1]
        BY <2>2
      <4> QED BY <3>1, <4>1 DEF OneEnable
    <3> QED BY <2>1, <3>2, <3>3 DEF OneEnable
  <2>4. CASE DisableRequestSignalCb
    <3>1. enableSig' = enableSig
      BY <2>4 DEF DisableRequestSignalCb
    <3>2. ASSUME NEW i \in DOMAIN signals', NEW j \in DOMAIN signals',
                 signals'[i] = "Enable", signals'[j] = "Enable"
          PROVE  i = j
      <4>1. i + 1 = j + 1
        BY <2>2, <3>2 DEF OneEnable
      <4> QED BY <2>2, <4>1
    <3> QED BY <2>1, <2>2, <3>1, <3>2 DEF OneEnable
  <2> QED BY <1>6, <2>3, <2>4
<1>7. CASE OnDebuggerEnabled
  <2>1. enableSig /\ ~enableSig' /\ signals' = signals
    BY <1>7 DEF OnDebuggerEnabled
  <2> QED BY <2>1 DEF OneEnable
<1>8. CASE GetScriptSource \/ GetResourceContent \/ SetBreakpointByUrl \/ GetResourceTree
  <2>1. ASSUME NEW kind, NEW i, NEW answer, Request(kind, i, answer) PROVE UNCHANGED enableSig
    BY <2>1 DEF Request
  <2> QED BY <1>2, <1>8, <2>1 DEF GetScriptSource, GetResourceContent, SetBreakpointByUrl,
                                  GetResourceTree, jsVars
<1>9. CASE Compile \/ Unload \/ Process \/ OnDebuggerDisabled \/ OnDebuggerMessage \/ UNCHANGED vars
  BY <1>2, <1>9 DEF Compile, Unload, Process, OnDebuggerDisabled, OnDebuggerMessage, vars,
                    jsVars, sigVars
<1> QED BY <1>4, <1>5, <1>6, <1>7, <1>8, <1>9 DEF Next

\* Every step leaves unknown scripts their news.
LEMMA NextReported ==
  ASSUME Typed, OneEnable, ReportedOrUnderWay, [Next]_vars
  PROVE  ReportedOrUnderWay'
<1>1. /\ DOMAIN cmds = 1..Len(cmds) /\ Len(cmds) \in Nat /\ DOMAIN msgs = 1..Len(msgs)
      /\ Len(msgs) \in Nat /\ cmds \in Seq(CmdOf(Len(requests), Len(scripts)))
      /\ msgs \in Seq(MsgOf(Len(requests), Len(scripts)))
      /\ DOMAIN scripts = 1..Len(scripts) /\ Len(scripts) \in Nat
      /\ scripts \in Seq(ScriptOf(platform))
  BY DEF Typed
<1>3. Later(scripts, scripts')
  BY ScriptsLater
<1>4. \A i \in DOMAIN scripts : i \in Live' => i \in Live /\ ScriptData(i)' = ScriptData(i)
  BY <1>3 DEF Later, Live, ScriptData
\* Nothing gets lost.
<1>5. ASSUME handler' => handler, Live' \subseteq DOMAIN scripts, known \subseteq known',
             enableSig => enableSig',
             \A i \in DOMAIN cmds : \E j \in DOMAIN cmds' : cmds'[j] = cmds[i],
             \A i \in DOMAIN msgs : \E j \in DOMAIN msgs' : msgs'[j] = msgs[i]
      PROVE  ReportedOrUnderWay'
  <2> SUFFICES ASSUME handler', NEW i \in Live' PROVE (ScriptData(i) \in known \/ UnderWay(i))'
    BY DEF ReportedOrUnderWay
  <2>1. i \in Live /\ ScriptData(i)' = ScriptData(i) /\ handler
    BY <1>4, <1>5
  <2>2. ScriptData(i) \in known \/ UnderWay(i)
    BY <2>1 DEF ReportedOrUnderWay
  <2>3. UnderWay(i) => UnderWay(i)'
    BY <1>5 DEF UnderWay
  <2> QED BY <1>5, <2>1, <2>2, <2>3
<1>6. UNCHANGED scripts => Live' = Live /\ Live' \subseteq DOMAIN scripts
  BY DEF Live
<1>7. CASE Compile
  <2>1. PICK n \in FileNames[platform] \cup OtherNames : scripts' = Append(scripts, Script(n))
    BY <1>7 DEF Compile
  <2>2. Script(n) \in ScriptOf(platform)
    BY DEF Script, ScriptOf, Names
  <2>3. DOMAIN scripts' = 1..(Len(scripts) + 1)
    BY <1>1, <2>1, <2>2
  <2> DEFINE m == [step |-> "afterCompile", req |-> 0, ids |-> {Len(scripts) + 1}]
  <2>4. /\ UNCHANGED <<handler, known, cmds, enableSig>>
        /\ msgs' = IF handler THEN Append(msgs, m) ELSE msgs
    BY <1>7 DEF Compile, sigVars
  <2>5. m.step = "afterCompile" /\ m.ids = {Len(scripts) + 1}
    OBVIOUS
  <2>6. m \in MsgOf(Len(requests), Len(scripts) + 1)
    BY <1>1 DEF MsgOf, AllSteps
  <2> HIDE DEF m
  <2>7. msgs \in Seq(MsgOf(Len(requests), Len(scripts) + 1))
    <3> DEFINE s == Len(scripts) + 1
    <3>1. s \in Nat /\ Len(scripts) <= s /\ Len(requests) \in Nat /\ Len(requests) <= Len(requests)
      BY <1>1 DEF Typed
    <3> HIDE DEF s
    <3>2. msgs \in Seq(MsgOf(Len(requests), s))
      BY <3>1, Grown
    <3> QED BY <3>2 DEF s
  <2>8. /\ \A i \in DOMAIN msgs : i \in DOMAIN Append(msgs, m) /\ Append(msgs, m)[i] = msgs[i]
        /\ Len(msgs) + 1 \in DOMAIN Append(msgs, m) /\ Append(msgs, m)[Len(msgs) + 1] = m
    BY <1>1, <2>6, <2>7
  <2> SUFFICES ASSUME handler', NEW i \in Live' PROVE (ScriptData(i) \in known \/ UnderWay(i))'
    BY DEF ReportedOrUnderWay
  <2>9. CASE i \in DOMAIN scripts
    <3>1. i \in Live /\ ScriptData(i)' = ScriptData(i) /\ handler
      BY <1>4, <2>4, <2>9
    <3>2. ScriptData(i) \in known \/ UnderWay(i)
      BY <3>1 DEF ReportedOrUnderWay
    <3>3. UnderWay(i) => UnderWay(i)'
      BY <2>4, <2>8, <3>1 DEF UnderWay
    <3> QED BY <2>4, <3>1, <3>2, <3>3
  <2>10. CASE i \notin DOMAIN scripts
    <3>1. i = Len(scripts) + 1
      BY <1>1, <2>3, <2>10 DEF Live
    <3>2. msgs' = Append(msgs, m)
      BY <2>4
    <3> QED BY <2>5, <2>8, <3>1, <3>2 DEF UnderWay
  <2> QED BY <2>9, <2>10
<1>8. CASE Unload
  <2>1. PICK i \in Live : scripts' = [scripts EXCEPT ![i].live = FALSE]
    BY <1>8 DEF Unload
  <2>2. Live' \subseteq DOMAIN scripts
    BY <2>1 DEF Live
  <2> QED BY <1>5, <1>8, <2>2 DEF Unload, sigVars
<1>9. ASSUME RunCommands, UNCHANGED <<scripts, handler, known, enableSig>>
      PROVE  ReportedOrUnderWay'
  <2> DEFINE answers == [i \in DOMAIN cmds |->
                           [step |-> cmds[i].step, req |-> cmds[i].req, ids |-> Found(cmds[i])]]
  <2>1. \A i \in DOMAIN cmds : answers[i] \in MsgOf(Len(requests), Len(scripts))
    <3>1. ASSUME NEW i \in DOMAIN cmds
          PROVE  answers[i] \in MsgOf(Len(requests), Len(scripts))
      <4>1. cmds[i] \in CmdOf(Len(requests), Len(scripts))
        BY <1>1
      <4>2. Found(cmds[i]) \subseteq 1..Len(scripts)
        BY FoundType, LiveIds
      <4> QED BY <4>1, <4>2 DEF CmdOf, MsgOf
    <3> QED BY <3>1
  <2>2. \A i \in DOMAIN cmds : answers[i].step = cmds[i].step /\ answers[i].ids = Found(cmds[i])
    OBVIOUS
  <2>3. answers \in Seq(MsgOf(Len(requests), Len(scripts))) /\ Len(answers) = Len(cmds)
    BY <1>1, <2>1
  <2>4. msgs' = msgs \o answers
    BY <1>9 DEF RunCommands
  <2> HIDE DEF answers
  <2>5. /\ Len(msgs \o answers) = Len(msgs) + Len(answers)
        /\ DOMAIN (msgs \o answers) = 1..(Len(msgs) + Len(answers))
        /\ \A i \in 1..(Len(msgs) + Len(answers)) :
             (msgs \o answers)[i] = IF i <= Len(msgs) THEN msgs[i] ELSE answers[i - Len(msgs)]
    <3> DEFINE M == MsgOf(Len(requests), Len(scripts))
    <3>1. msgs \in Seq(M) /\ answers \in Seq(M)
      BY <1>1, <2>3
    <3> HIDE DEF M
    <3>2. /\ msgs \o answers \in Seq(M) /\ Len(msgs \o answers) = Len(msgs) + Len(answers)
          /\ \A i \in 1..(Len(msgs) + Len(answers)) :
               (msgs \o answers)[i] = IF i <= Len(msgs) THEN msgs[i] ELSE answers[i - Len(msgs)]
      BY <3>1, ConcatProperties
    <3> QED BY <3>2
  <2>6. \A i \in DOMAIN msgs : i \in DOMAIN msgs' /\ msgs'[i] = msgs[i]
    BY <1>1, <2>3, <2>4, <2>5
  <2>7. ASSUME NEW i \in DOMAIN cmds
        PROVE  Len(msgs) + i \in DOMAIN msgs' /\ msgs'[Len(msgs) + i] = answers[i]
    <3>1. i \in 1..Len(cmds) /\ Len(msgs) + i \in 1..(Len(msgs) + Len(answers))
          /\ ~(Len(msgs) + i <= Len(msgs)) /\ (Len(msgs) + i) - Len(msgs) = i
      BY <1>1, <2>3
    <3> QED BY <2>4, <2>5, <3>1
  <2> SUFFICES ASSUME handler', NEW i \in Live' PROVE (ScriptData(i) \in known \/ UnderWay(i))'
    BY DEF ReportedOrUnderWay
  <2>8. i \in Live /\ ScriptData(i)' = ScriptData(i) /\ handler
    BY <1>9 DEF Live, ScriptData
  <2>9. ScriptData(i) \in known \/ UnderWay(i)
    BY <2>8 DEF ReportedOrUnderWay
  <2>10. ASSUME NEW c \in DOMAIN cmds, cmds[c].step = "list" PROVE UnderWay(i)'
    <3>1. answers[c].step = "list" /\ i \in answers[c].ids
      BY <2>2, <2>8, <2>10 DEF Found
    <3> QED BY <2>7, <3>1 DEF UnderWay
  <2> QED BY <1>9, <2>6, <2>8, <2>9, <2>10 DEF UnderWay
<1>10. CASE Process
  BY <1>9, <1>10 DEF Process, mainVars, sigVars
<1>11. CASE EnableRequestSignalCb
  <2>1. enableSig'
    BY <1>11 DEF EnableRequestSignalCb
  <2> QED BY <2>1 DEF ReportedOrUnderWay, UnderWay
<1>12. CASE DisableRequestSignalCb
  BY <1>12 DEF DisableRequestSignalCb, ReportedOrUnderWay
<1>13. ASSUME NEW kind, NEW i, NEW answer, Request(kind, i, answer),
              \/ cmds' = cmds
              \/ \E step, r, id, n : Send(Command(step, r, id, n))
       PROVE  ReportedOrUnderWay'
  <2>1. UNCHANGED <<scripts, handler, known, enableSig, msgs>>
    BY <1>13 DEF Request, mainVars
  <2>2. \A j \in DOMAIN cmds : \E l \in DOMAIN cmds' : cmds'[l] = cmds[j]
    <3>1. CASE cmds' = cmds
      BY <3>1
    <3>2. CASE \E c : cmds' = Append(cmds, c)
      <4>1. PICK c : cmds' = Append(cmds, c)
        BY <3>2
      <4>2. \A j \in DOMAIN cmds : j \in DOMAIN cmds' /\ cmds'[j] = cmds[j]
        BY <1>1, <4>1, AppendProperties
      <4> QED BY <4>2
    <3> QED BY <1>13, <3>1, <3>2 DEF Send
  <2> QED BY <1>5, <1>6, <2>1, <2>2
<1>14. CASE Enable
  BY <1>13, <1>14 DEF Enable
<1>15. CASE DisableMethod
  BY <1>13, <1>15 DEF DisableMethod
<1>16. CASE GetScriptSource \/ GetResourceContent \/ SetBreakpointByUrl \/ GetResourceTree
  BY <1>13, <1>16 DEF GetScriptSource, GetResourceContent, SetBreakpointByUrl, GetResourceTree
<1>17. CASE OnDebuggerEnabled
  <2>1. enableCbs # <<>>
    BY <1>17 DEF OneEnable, OnDebuggerEnabled
  <2> DEFINE lists == [i \in DOMAIN enableCbs |-> Command("list", enableCbs[i], 0, <<>>)]
             mains == [i \in DOMAIN afterEnableCbs |-> Command("main", afterEnableCbs[i], 0, <<>>)]
  <2>2. cmds' = cmds \o lists \o mains
    BY <1>17 DEF OnDebuggerEnabled
  <2>3. /\ enableCbs \in Seq(1..Len(requests)) /\ afterEnableCbs \in Seq(1..Len(requests))
        /\ DOMAIN enableCbs = 1..Len(enableCbs) /\ Len(enableCbs) \in Nat
        /\ DOMAIN afterEnableCbs = 1..Len(afterEnableCbs) /\ Len(afterEnableCbs) \in Nat
    BY DEF Typed
  <2> DEFINE T == {cmds[i] : i \in DOMAIN cmds} \cup {lists[i] : i \in DOMAIN enableCbs}
                  \cup {mains[i] : i \in DOMAIN afterEnableCbs}
  <2>4. /\ lists \in [1..Len(enableCbs) -> T] /\ mains \in [1..Len(afterEnableCbs) -> T]
        /\ cmds \in [1..Len(cmds) -> T]
    <3>1. cmds = [i \in 1..Len(cmds) |-> cmds[i]]
      BY <1>1
    <3> QED BY <1>1, <2>3, <3>1
  <2>5. 1 \in DOMAIN enableCbs /\ lists[1].step = "list"
    <3>1. 1 \in DOMAIN enableCbs
      BY <2>1, <2>3
    <3> QED BY <3>1 DEF Command
  <2> HIDE DEF lists, mains, T
  <2>6. /\ lists \in Seq(T) /\ mains \in Seq(T) /\ cmds \in Seq(T)
        /\ Len(lists) = Len(enableCbs)
    <3> DEFINE e == Len(enableCbs)
               a == Len(afterEnableCbs)
    <3>1. e \in Nat /\ a \in Nat /\ lists \in [1..e -> T] /\ mains \in [1..a -> T]
      BY <2>3, <2>4
    <3> HIDE DEF e, a
    <3>2. Len(lists) = e /\ lists \in Seq(T) /\ mains \in Seq(T)
      BY <3>1
    <3>3. cmds \in Seq(T)
      BY <1>1, <2>4
    <3> QED BY <3>2, <3>3 DEF e
  <2>7. /\ cmds \o lists \in Seq(T) /\ Len(cmds \o lists) = Len(cmds) + Len(lists)
        /\ (cmds \o lists)[Len(cmds) + 1] = lists[1]
    <3>1. /\ cmds \o lists \in Seq(T) /\ Len(cmds \o lists) = Len(cmds) + Len(lists)
          /\ \A i \in 1..(Len(cmds) + Len(lists)) :
               (cmds \o lists)[i] = IF i <= Len(cmds) THEN cmds[i] ELSE lists[i - Len(cmds)]
      BY <2>6, ConcatProperties
    <3>2. Len(cmds) + 1 \in 1..(Len(cmds) + Len(lists)) /\ ~(Len(cmds) + 1 <= Len(cmds))
          /\ (Len(cmds) + 1) - Len(cmds) = 1
      BY <1>1, <2>3, <2>5, <2>6
    <3> QED BY <3>1, <3>2
  <2>8. Len(cmds) + 1 \in DOMAIN cmds' /\ cmds'[Len(cmds) + 1] = lists[1]
    <3> DEFINE u == cmds \o lists
    <3>1. u \in Seq(T) /\ Len(cmds) + 1 \in 1..Len(u) /\ u[Len(cmds) + 1] = lists[1]
      BY <1>1, <2>3, <2>5, <2>6, <2>7
    <3>2. cmds' = u \o mains
      BY <2>2
    <3> HIDE DEF u
    <3>3. /\ DOMAIN (u \o mains) = 1..(Len(u) + Len(mains))
          /\ \A i \in 1..Len(u) : (u \o mains)[i] = u[i]
      BY <2>6, <3>1, ConcatProperties
    <3> QED BY <2>6, <3>1, <3>2, <3>3
  <2> QED BY <2>5, <2>8 DEF ReportedOrUnderWay, UnderWay
<1>18. CASE OnDebuggerDisabled \/ UNCHANGED vars
  BY <1>5, <1>6, <1>18 DEF OnDebuggerDisabled, vars, mainVars, sigVars
<1>19. CASE OnDebuggerMessage
  <2> DEFINE m == Head(msgs)
  <2>1. /\ msgs # <<>> /\ msgs' = Tail(msgs)
        /\ UNCHANGED <<scripts, handler, enableSig, cmds>>
    BY <1>19 DEF OnDebuggerMessage, mainVars, sigVars
  <2>2. m.step \in {"list", "afterCompile"} => ScriptsParsed(m.ids)
    BY <1>19 DEF OnDebuggerMessage, OnList, OnAfterCompile, OnSource, OnBound, OnMain
  <2>3. known \subseteq known'
    BY <1>19 DEF OnDebuggerMessage, OnList, OnAfterCompile, OnSource, OnBound, OnMain, ScriptsParsed
  <2>4. \A j \in DOMAIN msgs : j = 1 \/ (j - 1 \in DOMAIN msgs' /\ msgs'[j - 1] = msgs[j])
    BY <1>1, <2>1
  <2>5. msgs[1] = m
    BY <1>1, <2>1
  <2> HIDE DEF m
  <2> SUFFICES ASSUME handler', NEW i \in Live' PROVE (ScriptData(i) \in known \/ UnderWay(i))'
    BY DEF ReportedOrUnderWay
  <2>6. i \in Live /\ ScriptData(i)' = ScriptData(i) /\ handler
    BY <2>1 DEF Live, ScriptData
  <2>7. ScriptData(i) \in known \/ UnderWay(i)
    BY <2>6 DEF ReportedOrUnderWay
  <2>8. ASSUME NEW j \in DOMAIN msgs, msgs[j].step \in {"list", "afterCompile"}, i \in msgs[j].ids
        PROVE  (ScriptData(i) \in known \/ UnderWay(i))'
    <3>1. CASE j = 1
      <4>1. ScriptData(i) \in known'
        BY <2>2, <2>5, <2>8, <3>1 DEF ScriptsParsed
      <4> QED BY <2>6, <4>1
    <3>2. CASE j # 1
      BY <2>4, <2>8, <3>2 DEF UnderWay
    <3> QED BY <3>1, <3>2
  <2> QED BY <2>1, <2>3, <2>6, <2>7, <2>8 DEF UnderWay
<1> QED BY <1>7, <1>8, <1>10, <1>11, <1>12, <1>14, <1>15, <1>16, <1>17, <1>18, <1>19 DEF Next

\* When nothing is under way, the front-end knows every script: EveryScriptReported.
THEOREM EveryScriptReportedAlways == Spec => []EveryScriptReported
<1>1. Init => OneEnable /\ ReportedOrUnderWay
  BY DEF Init, OneEnable, ReportedOrUnderWay
<1>2. Typed /\ OneEnable /\ [Next]_vars => OneEnable'
  BY NextOneEnable
<1>3. Typed /\ OneEnable /\ ReportedOrUnderWay /\ [Next]_vars => ReportedOrUnderWay'
  BY NextReported
<1>4. Typed /\ ReportedOrUnderWay => EveryScriptReported
  BY DEF ReportedOrUnderWay, UnderWay, EveryScriptReported, Settled
<1> QED BY <1>1, <1>2, <1>3, <1>4, TypedAlways, PTL DEF Spec

=============================================================================
