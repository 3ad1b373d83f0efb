---------------------------- MODULE ScriptProofs ----------------------------
(***************************************************************************)
(* A script is read back as it was written, and only a script whose        *)
(* statements say what they may is read at all: for every document over    *)
(* the statements that the writer can write, of any length, with any       *)
(* blanks, comments, strings, regular expressions and heredocs in it.      *)
(*                                                                         *)
(* The first part follows the lexer through one statement: symbol by       *)
(* symbol, argument by argument, until the line, the line without a verb,  *)
(* the line that is broken off, or the heredoc is over.  The second reads  *)
(* options and actions from the arguments.  The third puts statements      *)
(* together: what has been lexed and parsed up to a place is what the      *)
(* statements before it say.                                               *)
(***************************************************************************)
EXTENDS Script, Integers, SharedLemmas

\* The first and the last of some places.
LEMMA FirstIsFirst ==
  ASSUME NEW S \in SUBSET Nat, S # {}
  PROVE  FirstOf(S) \in S /\ \A i \in S : FirstOf(S) <= i
<1>1. Min(S) \in S /\ \A i \in S : Min(S) <= i
  BY MinIsLeast
<1> QED BY <1>1 DEF FirstOf

LEMMA LastIsLast ==
  ASSUME NEW n \in Nat, NEW S \in SUBSET (0..n), S # {}
  PROVE  LastOf(S) \in S /\ \A i \in S : i <= LastOf(S)
<1>1. Max(S) \in S /\ \A i \in S : i <= Max(S)
  BY MaxIsGreatest
<1>2. \E x \in S : \A i \in S : x >= i
  BY <1>1
<1>3. LastOf(S) \in S /\ \A i \in S : LastOf(S) >= i
  BY <1>2, Zenon DEF LastOf
<1> QED BY <1>3

-----------------------------------------------------------------------------
(* The lexer, symbol by symbol. *)

\* The function that Scanned recurs with.
Scanning(lexer, text, n, g) ==
  g = [i \in 0..n |-> IF i = 0 THEN lexer ELSE Scan(g[i - 1], text[i])]

LEMMA ScanningExists ==
  ASSUME NEW lexer, NEW text
  PROVE  \A n \in Nat : \E g : Scanning(lexer, text, n, g)
<1> DEFINE G == {n \in Nat : \E g : Scanning(lexer, text, n, g)}
<1>1. 0 \in G
  <2>1. Scanning(lexer, text, 0, [i \in 0..0 |-> lexer])
    BY DEF Scanning
  <2> QED BY <2>1
<1>2. ASSUME NEW n \in Nat, n \in G
      PROVE  n + 1 \in G
  <2>1. PICK g : Scanning(lexer, text, n, g)
    BY <1>2
  <2> DEFINE last == Scan(g[n], text[n + 1])
             h    == [i \in 0..(n + 1) |-> IF i = n + 1 THEN last ELSE g[i]]
  <2>2. ASSUME NEW i \in 0..(n + 1)
        PROVE  h[i] = IF i = 0 THEN lexer ELSE Scan(h[i - 1], text[i])
    <3>1. CASE i = n + 1
      <4>1. h[i] = Scan(g[n], text[n + 1]) /\ h[i - 1] = g[n] /\ i # 0
        BY <3>1
      <4> HIDE DEF h
      <4> QED BY <3>1, <4>1
    <3>2. CASE i = 0
      BY <2>1, <3>2 DEF Scanning
    <3>3. CASE i \in 1..n
      <4>1. h[i] = g[i] /\ h[i - 1] = g[i - 1] /\ i \in 0..n /\ i # 0
        BY <3>3
      <4>2. g[i] = Scan(g[i - 1], text[i])
        BY <2>1, <4>1 DEF Scanning
      <4> HIDE DEF h
      <4> QED BY <4>1, <4>2
    <3> QED BY <3>1, <3>2, <3>3
  <2>3. Scanning(lexer, text, n + 1, h)
    <3>1. h = [i \in 0..(n + 1) |-> h[i]]
      OBVIOUS
    <3> HIDE DEF h
    <3> QED BY <2>2, <3>1 DEF Scanning
  <2> QED BY <2>3
<1> HIDE DEF G
<1>3. \A n \in Nat : n \in G
  BY <1>1, <1>2, SetInduction
<1> QED BY <1>3 DEF G

LEMMA ScannedScans ==
  ASSUME NEW lexer, NEW text, Len(text) \in Nat
  PROVE  \E g : Scanning(lexer, text, Len(text), g) /\ Scanned(lexer, text) = g[Len(text)]
<1> DEFINE f == CHOOSE g : Scanning(lexer, text, Len(text), g)
<1>1. Scanning(lexer, text, Len(text), f)
  BY ScanningExists
<1>2. Scanned(lexer, text) = f[Len(text)]
  BY Zenon DEF Scanned, Scanning
<1> QED BY <1>1, <1>2

LEMMA ScannedNothing ==
  ASSUME NEW lexer
  PROVE  Scanned(lexer, <<>>) = lexer
<1>1. Len(<<>>) = 0
  BY EmptySeq
<1>2. PICK g : Scanning(lexer, <<>>, 0, g) /\ Scanned(lexer, <<>>) = g[0]
  BY <1>1, ScannedScans
<1> QED BY <1>2 DEF Scanning

LEMMA ScannedMore ==
  ASSUME NEW M, NEW lexer, NEW s \in Seq(M), NEW x \in M
  PROVE  Scanned(lexer, Append(s, x)) = Scan(Scanned(lexer, s), x)
<1> DEFINE t == Append(s, x)
<1>1. /\ Len(s) \in Nat /\ Len(t) \in Nat /\ Len(t) = Len(s) + 1 /\ t[Len(s) + 1] = x
      /\ \A i \in 1..Len(s) : s[i] = t[i]
  BY AppendProperties, LenProperties
<1> HIDE DEF t
<1>2. PICK g : Scanning(lexer, s, Len(s), g) /\ Scanned(lexer, s) = g[Len(s)]
  BY <1>1, ScannedScans
<1>3. PICK h : Scanning(lexer, t, Len(t), h) /\ Scanned(lexer, t) = h[Len(t)]
  BY <1>1, ScannedScans
<1>4. g[0] = h[0]
  BY <1>1, <1>2, <1>3 DEF Scanning
<1>5. ASSUME NEW i \in 1..Len(s), g[i - 1] = h[i - 1] PROVE g[i] = h[i]
  <2>1. i \in 0..Len(s) /\ i \in 0..Len(t) /\ i # 0 /\ s[i] = t[i]
    BY <1>1
  <2>2. g[i] = Scan(g[i - 1], s[i]) /\ h[i] = Scan(h[i - 1], t[i])
    BY <1>2, <1>3, <2>1 DEF Scanning
  <2> QED BY <1>5, <2>1, <2>2
<1>6. g[Len(s)] = h[Len(s)]
  BY <1>1, <1>4, <1>5, SameSteps
<1>7. h[Len(s) + 1] = Scan(h[Len(s)], x)
  <2>1. Len(s) + 1 \in 0..Len(t) /\ Len(s) + 1 # 0 /\ (Len(s) + 1) - 1 = Len(s)
    BY <1>1
  <2> QED BY <1>1, <1>3, <2>1 DEF Scanning
<1> QED BY <1>1, <1>2, <1>3, <1>6, <1>7 DEF t

LEMMA ScannedBoth ==
  ASSUME NEW M, NEW lexer, NEW s \in Seq(M), NEW t \in Seq(M)
  PROVE  Scanned(lexer, s \o t) = Scanned(Scanned(lexer, s), t)
<1> DEFINE G == {n \in Nat : n <= Len(t) =>
                   Scanned(lexer, s \o SubSeq(t, 1, n)) = Scanned(Scanned(lexer, s), SubSeq(t, 1, n))}
<1>1. 0 \in G
  <2>1. SubSeq(t, 1, 0) = <<>> /\ s \o <<>> = s
    BY WholePrefix, ConcatEmptySeq
  <2> QED BY <2>1, ScannedNothing
<1>2. ASSUME NEW n \in Nat, n \in G
      PROVE  n + 1 \in G
  <2>1. SUFFICES ASSUME n + 1 <= Len(t)
                 PROVE  Scanned(lexer, s \o SubSeq(t, 1, n + 1)) = Scanned(Scanned(lexer, s), SubSeq(t, 1, n + 1))
    OBVIOUS
  <2> DEFINE p == SubSeq(t, 1, n)
             x == t[n + 1]
  <2>2. Scanned(lexer, s \o p) = Scanned(Scanned(lexer, s), p)
    BY <1>2, <2>1, WholePrefix
  <2>3. p \in Seq(M) /\ x \in M /\ SubSeq(t, 1, n + 1) = Append(p, x)
    BY <2>1, PrefixByOne
  <2> HIDE DEF p, x
  <2>4. s \o p \in Seq(M) /\ s \o Append(p, x) = Append(s \o p, x)
    BY <2>3, ConcatByOne
  <2>5. Scanned(lexer, Append(s \o p, x)) = Scan(Scanned(lexer, s \o p), x)
    <3>1. ASSUME NEW q \in Seq(M) PROVE Scanned(lexer, Append(q, x)) = Scan(Scanned(lexer, q), x)
      BY <2>3, ScannedMore
    <3> QED BY <2>4, <3>1, Zenon
  <2>6. Scanned(Scanned(lexer, s), Append(p, x)) = Scan(Scanned(Scanned(lexer, s), p), x)
    <3>1. ASSUME NEW l PROVE Scanned(l, Append(p, x)) = Scan(Scanned(l, p), x)
      BY <2>3, ScannedMore
    <3> QED BY <3>1, Zenon
  <2>7. ASSUME NEW q, q = Append(p, x)
        PROVE  Scanned(lexer, s \o q) = Scanned(Scanned(lexer, s), q)
    BY <2>2, <2>4, <2>5, <2>6, <2>7
  <2> QED BY <2>3, <2>7
<1> HIDE DEF G
<1>3. \A n \in Nat : n \in G
  BY <1>1, <1>2, SetInduction
<1>4. Len(t) \in G /\ SubSeq(t, 1, Len(t)) = t /\ Len(t) <= Len(t)
  BY <1>3, WholePrefix
<1> QED BY <1>4 DEF G

-----------------------------------------------------------------------------
(* What each symbol does. *)

BetweenSteps(l, args, s) ==
  /\ s = "blank" => Scan(l, s) = l
  /\ s = "#" => Scan(l, s) = Lexer("comment", <<>>, args)
  /\ s = "quote" => Scan(l, s) = Lexer("string", <<>>, args)
  /\ s = "/" => Scan(l, s) = Lexer("regex", <<>>, args)
  /\ s = "<<" => Scan(l, s) = Lexer("marker", <<>>, args)
  /\ s \in Numbers => Scan(l, s) = Lexer("between", <<>>, Append(args, Token("integer", <<s>>)))
  /\ s \in Durations => Scan(l, s) = Lexer("between", <<>>, Append(args, Token("duration", <<s>>)))
  /\ s \in Words => Scan(l, s) = Lexer("between", <<>>, Append(args, Token("ident", <<s>>)))
  /\ s \notin ({"blank", "#", "quote", "/", "<<"} \cup Words \cup Numbers \cup Durations) =>
       Scan(l, s) = Lexer("error", <<>>, args)

LEMMA ScanBetween ==
  ASSUME NEW t, NEW args, NEW s, NEW l, l = Lexer("between", t, args)
  PROVE  BetweenSteps(l, args, s)
<1>1. l.mode = "between" /\ l.text = t /\ l.args = args
  BY DEF Lexer
<1> DEFINE token(kind) == Lexer("between", <<>>, Append(args, Token(kind, <<s>>)))
<1>2. Scan(l, s) = CASE s = "blank"          -> l
                     [] s = "#"          -> Lexer("comment", <<>>, args)
                     [] s = "quote"      -> Lexer("string", <<>>, args)
                     [] s = "/"          -> Lexer("regex", <<>>, args)
                     [] s = "<<"         -> Lexer("marker", <<>>, args)
                     [] s \in Numbers    -> token("integer")
                     [] s \in Durations  -> token("duration")
                     [] s \in Words      -> token("ident")
                     [] OTHER            -> Lexer("error", <<>>, args)
  BY ONLY <1>1 DEF Scan
<1> HIDE DEF token
<1>3. s = "blank" => Scan(l, s) = l
  BY ONLY <1>2, SymbolsAssumption DEF Signs
<1>4. s = "#" => Scan(l, s) = Lexer("comment", <<>>, args)
  BY ONLY <1>2, SymbolsAssumption DEF Signs
<1>5. s = "quote" => Scan(l, s) = Lexer("string", <<>>, args)
  BY ONLY <1>2, SymbolsAssumption DEF Signs
<1>6. s = "/" => Scan(l, s) = Lexer("regex", <<>>, args)
  BY ONLY <1>2, SymbolsAssumption DEF Signs
<1>7. s = "<<" => Scan(l, s) = Lexer("marker", <<>>, args)
  BY ONLY <1>2, SymbolsAssumption DEF Signs
<1>8. s \in Numbers => Scan(l, s) = token("integer")
  BY ONLY <1>2, SymbolsAssumption DEF Signs
<1>9. s \in Durations => Scan(l, s) = token("duration")
  BY ONLY <1>2, SymbolsAssumption DEF Signs
<1>10. s \in Words => Scan(l, s) = token("ident")
  BY ONLY <1>2, SymbolsAssumption DEF Signs
<1>11. s \notin ({"blank", "#", "quote", "/", "<<"} \cup Words \cup Numbers \cup Durations) =>
         Scan(l, s) = Lexer("error", <<>>, args)
  BY ONLY <1>2
<1> QED BY <1>3, <1>4, <1>5, <1>6, <1>7, <1>8, <1>9, <1>10, <1>11 DEF token, BetweenSteps

StringSteps(l, t, args, s) ==
  /\ s = "quote" => Scan(l, s) = Lexer("between", <<>>, Append(args, Token("string", t)))
  /\ s = "backslash" => Scan(l, s) = Lexer("escape", t \o <<>>, args)
  /\ s \notin {"quote", "backslash"} => Scan(l, s) = Lexer("string", t \o <<s>>, args)

LEMMA ScanString ==
  ASSUME NEW t, NEW args, NEW s, NEW l, l = Lexer("string", t, args)
  PROVE  StringSteps(l, t, args, s)
<1>1. l.mode = "string" /\ l.text = t /\ l.args = args
  BY DEF Lexer
<1> QED BY ONLY <1>1 DEF Scan, StringSteps

EscapeSteps(l, t, args, s) ==
  /\ s = "n" => Scan(l, s) = Lexer("string", t \o <<"newline">>, args)
  /\ s \in {"quote", "backslash"} => Scan(l, s) = Lexer("string", t \o <<s>>, args)
  /\ s \notin {"quote", "backslash", "n"} => Scan(l, s) = Lexer("error", <<>>, args)

LEMMA ScanEscape ==
  ASSUME NEW t, NEW args, NEW s, NEW l, l = Lexer("escape", t, args)
  PROVE  EscapeSteps(l, t, args, s)
<1>1. l.mode = "escape" /\ l.text = t /\ l.args = args
  BY DEF Lexer
<1>2. DOMAIN Escapes = {"quote", "backslash", "n"}
  BY DEF Escapes
<1>3. Scan(l, s) = IF s \in DOMAIN Escapes THEN Lexer("string", t \o <<Escapes[s]>>, args)
                   ELSE Lexer("error", <<>>, args)
  BY ONLY <1>1 DEF Scan
<1>4. s \in {"quote", "backslash"} => Escapes[s] = s
  BY DEF Escapes
<1>5. s = "n" => Escapes[s] = "newline"
  BY DEF Escapes
<1> QED BY <1>2, <1>3, <1>4, <1>5 DEF EscapeSteps

RegexSteps(l, t, args, s) ==
  /\ s = "/" => Scan(l, s) = Lexer("between", <<>>, Append(args, Token("regex", t)))
  /\ s = "backslash" => Scan(l, s) = Lexer("regexEscape", t \o <<s>>, args)
  /\ s \notin {"/", "backslash"} => Scan(l, s) = Lexer("regex", t \o <<s>>, args)

LEMMA ScanRegex ==
  ASSUME NEW t, NEW args, NEW s, NEW l, l = Lexer("regex", t, args)
  PROVE  RegexSteps(l, t, args, s)
<1>1. l.mode = "regex" /\ l.text = t /\ l.args = args
  BY DEF Lexer
<1> QED BY ONLY <1>1 DEF Scan, RegexSteps

OtherSteps(l, m, t, args, s) ==
  /\ m = "regexEscape" => Scan(l, s) = Lexer("regex", t \o <<s>>, args)
  /\ m = "marker" /\ s \in Words =>
       Scan(l, s) = Lexer("between", <<>>, Append(args, Token("heredoc", <<s>>)))
  /\ m = "marker" /\ s \notin Words => Scan(l, s) = Lexer("error", <<>>, args)
  /\ m \in {"comment", "error"} => Scan(l, s) = l

LEMMA ScanOther ==
  ASSUME NEW t, NEW args, NEW s, NEW m, NEW l, l = Lexer(m, t, args)
  PROVE  OtherSteps(l, m, t, args, s)
<1>1. l.mode = m /\ l.text = t /\ l.args = args
  BY DEF Lexer
<1>2. m = "regexEscape" => Scan(l, s) = Lexer("regex", t \o <<s>>, args)
  BY ONLY <1>1 DEF Scan
<1>3. m = "marker" /\ s \in Words =>
        Scan(l, s) = Lexer("between", <<>>, Append(args, Token("heredoc", <<s>>)))
  BY ONLY <1>1 DEF Scan
<1>4. m = "marker" /\ s \notin Words => Scan(l, s) = Lexer("error", <<>>, args)
  BY ONLY <1>1 DEF Scan
<1>5. m \in {"comment", "error"} => Scan(l, s) = l
  BY ONLY <1>1 DEF Scan
<1> QED BY <1>2, <1>3, <1>4, <1>5 DEF OtherSteps

-----------------------------------------------------------------------------
(* An argument that has begun is over when it is there, and not before. *)

Kinds      == {"ident", "integer", "duration", "string", "regex", "heredoc"}
Tokens     == {Token(kind, text) : kind \in Kinds, text \in Contents}
Unfinished == {"string", "escape", "regex", "regexEscape", "marker", "error"}
Modes      == Unfinished \cup {"between", "comment"}

IsLexer(l) == \E m \in Modes, t \in Contents, args \in Seq(Tokens) : l = Lexer(m, t, args)

Follows(l, r) ==
  /\ IsLexer(r)
  /\ Len(l.args) <= Len(r.args)
  /\ l.mode \in Unfinished =>
       (r.mode \in Unfinished /\ r.args = l.args) \/ Len(l.args) < Len(r.args)

LEMMA LexerParts ==
  ASSUME NEW m \in Modes, NEW t \in Contents, NEW args \in Seq(Tokens)
  PROVE  /\ IsLexer(Lexer(m, t, args))
         /\ Lexer(m, t, args).mode = m /\ Lexer(m, t, args).text = t /\ Lexer(m, t, args).args = args
         /\ Len(args) \in Nat
<1>1. Len(args) \in Nat
  BY LenProperties
<1>2. IsLexer(Lexer(m, t, args))
  BY Zenon DEF IsLexer
<1> QED BY <1>1, <1>2 DEF Lexer

LEMMA FollowsItself ==
  ASSUME NEW l, IsLexer(l)
  PROVE  Follows(l, l)
<1>1. PICK m \in Modes, t \in Contents, args \in Seq(Tokens) : l = Lexer(m, t, args)
  BY DEF IsLexer
<1>2. l.args = args /\ Len(args) \in Nat
  BY <1>1, LexerParts
<1> QED BY <1>2 DEF Follows

LEMMA FollowsOn ==
  ASSUME NEW k, NEW l, NEW r, IsLexer(k), Follows(k, l), Follows(l, r)
  PROVE  Follows(k, r)
<1>1. PICK m \in Modes, t \in Contents, args \in Seq(Tokens) : k = Lexer(m, t, args)
  BY DEF IsLexer
<1>2. PICK n \in Modes, u \in Contents, args2 \in Seq(Tokens) : l = Lexer(n, u, args2)
  BY DEF IsLexer, Follows
<1>3. PICK o \in Modes, v \in Contents, args3 \in Seq(Tokens) : r = Lexer(o, v, args3)
  BY DEF IsLexer, Follows
<1>4. Len(k.args) \in Nat /\ Len(l.args) \in Nat /\ Len(r.args) \in Nat
  BY <1>1, <1>2, <1>3, LexerParts
<1> QED BY <1>4 DEF Follows

LEMMA FollowsInside ==
  ASSUME NEW m \in Modes, NEW t \in Contents, NEW args \in Seq(Tokens), NEW n \in Modes, NEW u \in Contents,
         m \in Unfinished => n \in Unfinished
  PROVE  Follows(Lexer(m, t, args), Lexer(n, u, args))
<1>1. /\ IsLexer(Lexer(n, u, args)) /\ Lexer(n, u, args).mode = n /\ Lexer(n, u, args).args = args
      /\ Lexer(m, t, args).mode = m /\ Lexer(m, t, args).args = args /\ Len(args) \in Nat
  BY LexerParts
<1> QED BY <1>1 DEF Follows

LEMMA FollowsToken ==
  ASSUME NEW m \in Modes, NEW t \in Contents, NEW args \in Seq(Tokens), NEW kind \in Kinds, NEW u \in Contents
  PROVE  Follows(Lexer(m, t, args), Lexer("between", <<>>, Append(args, Token(kind, u))))
<1> DEFINE more == Append(args, Token(kind, u))
<1>1. Token(kind, u) \in Tokens /\ <<>> \in Contents /\ "between" \in Modes
  BY EmptySeq DEF Tokens, Contents, Modes
<1>2. more \in Seq(Tokens) /\ Len(more) = Len(args) + 1
  BY <1>1, AppendProperties
<1> HIDE DEF more
<1>3. /\ IsLexer(Lexer("between", <<>>, more)) /\ Lexer("between", <<>>, more).args = more
      /\ Lexer(m, t, args).args = args /\ Len(args) \in Nat
  BY <1>1, <1>2, LexerParts
<1>4. Follows(Lexer(m, t, args), Lexer("between", <<>>, more))
  BY <1>2, <1>3 DEF Follows
<1> QED BY <1>4 DEF more

LEMMA TextsGrow ==
  ASSUME NEW t \in Contents
  PROVE  /\ t \o <<>> = t /\ <<>> \in Contents
         /\ \A s \in Symbols \cup {"newline"} : t \o <<s>> = Append(t, s) /\ t \o <<s>> \in Contents /\ <<s>> \in Contents
<1>1. t \o <<>> = t /\ <<>> \in Contents
  BY ConcatEmptySeq, EmptySeq DEF Contents
<1>2. ASSUME NEW s \in Symbols \cup {"newline"}
      PROVE  t \o <<s>> = Append(t, s) /\ t \o <<s>> \in Contents /\ <<s>> \in Contents
  <2>1. t \o <<s>> = Append(t, s)
    BY AppendIsConcat DEF Contents
  <2>2. Append(t, s) \in Contents
    BY AppendProperties DEF Contents
  <2>3. <<s>> \in Contents
    BY DEF Contents
  <2> QED BY <2>1, <2>2, <2>3
<1> QED BY <1>1, <1>2

LEMMA ScanFollows ==
  ASSUME NEW l, IsLexer(l), NEW s \in Symbols
  PROVE  Follows(l, Scan(l, s))
<1>1. PICK m \in Modes, t \in Contents, args \in Seq(Tokens) : l = Lexer(m, t, args)
  BY DEF IsLexer
<1>2. /\ t \o <<>> = t /\ <<>> \in Contents /\ t \o <<s>> \in Contents /\ <<s>> \in Contents
      /\ t \o <<"newline">> \in Contents
  BY TextsGrow
<1>3. ASSUME NEW n \in Modes, NEW u \in Contents, m \in Unfinished => n \in Unfinished, Scan(l, s) = Lexer(n, u, args)
      PROVE  Follows(l, Scan(l, s))
  BY <1>1, <1>3, FollowsInside
<1>4. ASSUME NEW kind \in Kinds, NEW u \in Contents,
             Scan(l, s) = Lexer("between", <<>>, Append(args, Token(kind, u)))
      PROVE  Follows(l, Scan(l, s))
  BY <1>1, <1>4, FollowsToken
<1>0. OtherSteps(l, m, t, args, s)
  BY <1>1, ScanOther, Zenon
<1>5. Scan(l, s) = l => Follows(l, Scan(l, s))
  BY FollowsItself
<1>6. CASE m = "between"
  <2>0. BetweenSteps(l, args, s)
    BY <1>1, <1>6, ScanBetween, Zenon
  <2>1. CASE s \in {"#", "quote", "/", "<<"}
    <3>1. \/ Scan(l, s) = Lexer("comment", <<>>, args) \/ Scan(l, s) = Lexer("string", <<>>, args)
          \/ Scan(l, s) = Lexer("regex", <<>>, args) \/ Scan(l, s) = Lexer("marker", <<>>, args)
      BY <2>0, <2>1 DEF BetweenSteps
    <3>2. PICK n \in {"comment", "string", "regex", "marker"} : Scan(l, s) = Lexer(n, <<>>, args)
      BY <3>1
    <3>3. n \in Modes /\ m \notin Unfinished
      BY <1>6 DEF Modes, Unfinished
    <3> QED BY <1>2, <1>3, <3>2, <3>3
  <2>2. CASE s \in Numbers \cup Durations \cup Words
    <3>1. \/ Scan(l, s) = Lexer("between", <<>>, Append(args, Token("integer", <<s>>)))
          \/ Scan(l, s) = Lexer("between", <<>>, Append(args, Token("duration", <<s>>)))
          \/ Scan(l, s) = Lexer("between", <<>>, Append(args, Token("ident", <<s>>)))
      BY <2>0, <2>2 DEF BetweenSteps
    <3>2. PICK kind \in Kinds : Scan(l, s) = Lexer("between", <<>>, Append(args, Token(kind, <<s>>)))
      BY <3>1 DEF Kinds
    <3> QED BY <1>2, <1>4, <3>2
  <2>3. CASE s = "blank"
    <3>1. Scan(l, s) = l
      BY <2>0, <2>3 DEF BetweenSteps
    <3> QED BY <1>5, <3>1
  <2>4. CASE s \notin ({"blank", "#", "quote", "/", "<<"} \cup Words \cup Numbers \cup Durations)
    <3>1. Scan(l, s) = Lexer("error", <<>>, args)
      BY <2>0, <2>4 DEF BetweenSteps
    <3> QED BY <1>2, <1>3, <3>1 DEF Modes, Unfinished
  <2> QED BY <2>1, <2>2, <2>3, <2>4
<1>7. CASE m = "string"
  <2>0. StringSteps(l, t, args, s)
    BY <1>1, <1>7, ScanString, Zenon
  <2>1. CASE s = "quote"
    <3>1. Scan(l, s) = Lexer("between", <<>>, Append(args, Token("string", t)))
      BY <2>0, <2>1 DEF StringSteps
    <3> QED BY <1>4, <3>1 DEF Kinds
  <2>2. CASE s = "backslash"
    <3>1. Scan(l, s) = Lexer("escape", t \o <<>>, args)
      BY <2>0, <2>2 DEF StringSteps
    <3> QED BY <1>2, <1>3, <3>1 DEF Modes, Unfinished
  <2>3. CASE s \notin {"quote", "backslash"}
    <3>1. Scan(l, s) = Lexer("string", t \o <<s>>, args)
      BY <2>0, <2>3 DEF StringSteps
    <3> QED BY <1>2, <1>3, <3>1 DEF Modes, Unfinished
  <2> QED BY <2>1, <2>2, <2>3
<1>8. CASE m = "escape"
  <2>0. EscapeSteps(l, t, args, s)
    BY <1>1, <1>8, ScanEscape, Zenon
  <2>1. \/ Scan(l, s) = Lexer("string", t \o <<"newline">>, args)
        \/ Scan(l, s) = Lexer("string", t \o <<s>>, args)
        \/ Scan(l, s) = Lexer("error", <<>>, args)
    BY <2>0 DEF EscapeSteps
  <2> QED BY <1>2, <1>3, <2>1 DEF Modes, Unfinished
<1>9. CASE m = "regex"
  <2>0. RegexSteps(l, t, args, s)
    BY <1>1, <1>9, ScanRegex, Zenon
  <2>1. CASE s = "/"
    <3>1. Scan(l, s) = Lexer("between", <<>>, Append(args, Token("regex", t)))
      BY <2>0, <2>1 DEF RegexSteps
    <3> QED BY <1>4, <3>1 DEF Kinds
  <2>2. CASE s # "/"
    <3>1. Scan(l, s) = Lexer("regexEscape", t \o <<s>>, args) \/ Scan(l, s) = Lexer("regex", t \o <<s>>, args)
      BY <2>0, <2>2 DEF RegexSteps
    <3> QED BY <1>2, <1>3, <3>1 DEF Modes, Unfinished
  <2> QED BY <2>1, <2>2
<1>10. CASE m = "regexEscape"
  <2>1. Scan(l, s) = Lexer("regex", t \o <<s>>, args)
    BY <1>0, <1>10 DEF OtherSteps
  <2> QED BY <1>2, <1>3, <2>1 DEF Modes, Unfinished
<1>11. CASE m = "marker"
  <2>1. CASE s \in Words
    <3>1. Scan(l, s) = Lexer("between", <<>>, Append(args, Token("heredoc", <<s>>)))
      BY <1>0, <1>11, <2>1 DEF OtherSteps
    <3> QED BY <1>2, <1>4, <3>1 DEF Kinds
  <2>2. CASE s \notin Words
    <3>1. Scan(l, s) = Lexer("error", <<>>, args)
      BY <1>0, <1>11, <2>2 DEF OtherSteps
    <3> QED BY <1>2, <1>3, <3>1 DEF Modes, Unfinished
  <2> QED BY <2>1, <2>2
<1>12. CASE m \in {"comment", "error"}
  BY <1>0, <1>5, <1>12 DEF OtherSteps
<1> QED BY <1>6, <1>7, <1>8, <1>9, <1>10, <1>11, <1>12 DEF Modes, Unfinished

LEMMA ScannedFollows ==
  ASSUME NEW l, IsLexer(l), NEW text \in Lines
  PROVE  Follows(l, Scanned(l, text))
<1> DEFINE G == {n \in Nat : n <= Len(text) => Follows(l, Scanned(l, SubSeq(text, 1, n)))}
<1>0. text \in Seq(Symbols) /\ SubSeq(text, 1, 0) = <<>> /\ SubSeq(text, 1, Len(text)) = text /\ Len(text) \in Nat
  BY WholePrefix DEF Lines
<1>1. 0 \in G
  BY <1>0, ScannedNothing, FollowsItself
<1>2. ASSUME NEW n \in Nat, n \in G
      PROVE  n + 1 \in G
  <2>1. SUFFICES ASSUME n + 1 <= Len(text)
                 PROVE  Follows(l, Scanned(l, SubSeq(text, 1, n + 1)))
    OBVIOUS
  <2> DEFINE p == SubSeq(text, 1, n)
             x == text[n + 1]
             k == Scanned(l, p)
  <2>2. Follows(l, k)
    BY <1>0, <1>2, <2>1
  <2>3. p \in Seq(Symbols) /\ x \in Symbols /\ SubSeq(text, 1, n + 1) = Append(p, x)
    BY <1>0, <2>1, PrefixByOne
  <2>4. Scanned(l, Append(p, x)) = Scan(k, x)
    <3> HIDE DEF p, x
    <3> QED BY <2>3, ScannedMore
  <2> HIDE DEF k, p, x
  <2>5. Follows(k, Scan(k, x))
    BY <2>2, <2>3, ScanFollows DEF Follows
  <2> QED BY <2>2, <2>3, <2>4, <2>5, FollowsOn
<1> HIDE DEF G
<1>3. \A n \in Nat : n \in G
  BY <1>1, <1>2, SetInduction
<1>4. Len(text) \in G /\ Len(text) <= Len(text)
  BY <1>0, <1>3
<1> QED BY <1>0, <1>4 DEF G

\* With as many arguments at the end as at the beginning, none is over between them.
LEMMA StillOpen ==
  ASSUME NEW l, IsLexer(l), l.mode \in Unfinished, NEW p \in Lines, NEW q \in Lines,
         Scanned(l, p \o q).args = l.args
  PROVE  Scanned(l, p).mode \in Unfinished
<1> DEFINE k == Scanned(l, p)
           r == Scanned(k, q)
<1>1. Follows(l, k)
  BY ScannedFollows
<1>2. Follows(k, r)
  BY <1>1, ScannedFollows DEF Follows
<1>3. Scanned(l, p \o q) = r
  BY ScannedBoth DEF Lines
<1> HIDE DEF k, r
<1>4. Len(l.args) \in Nat /\ Len(k.args) \in Nat
  <2>1. ASSUME NEW j, IsLexer(j) PROVE Len(j.args) \in Nat
    <3>1. PICK m \in Modes, t \in Contents, args \in Seq(Tokens) : j = Lexer(m, t, args)
      BY <2>1 DEF IsLexer
    <3> QED BY <3>1, LexerParts
  <2> QED BY <1>1, <2>1 DEF Follows
<1>5. ~ Len(l.args) < Len(k.args)
  BY <1>2, <1>3, <1>4 DEF Follows
<1> QED BY <1>1, <1>5 DEF Follows, k

-----------------------------------------------------------------------------
(* What is written is lexed: blanks, strings, regular expressions, and then *)
(* arguments. *)

LEMMA Singles ==
  ASSUME NEW M, NEW a \in M, NEW b \in M
  PROVE  /\ <<a>> \in Seq(M) /\ Len(<<a>>) = 1 /\ <<a>>[1] = a /\ <<a>> = Append(<<>>, a)
         /\ <<a, b>> \in Seq(M) /\ Len(<<a, b>>) = 2 /\ <<a, b>> = Append(<<a>>, b)
  OBVIOUS

FewSteps(l, a, b) == Scanned(l, <<a>>) = Scan(l, a) /\ Scanned(l, <<a, b>>) = Scan(Scan(l, a), b)

LEMMA ScannedFew ==
  ASSUME NEW l, NEW a, NEW b
  PROVE  FewSteps(l, a, b)
<1> DEFINE M == {a, b}
<1>1. a \in M /\ b \in M /\ <<>> \in Seq(M)
  BY EmptySeq
<1>2. ASSUME NEW s \in Seq(M), NEW x \in M PROVE Scanned(l, Append(s, x)) = Scan(Scanned(l, s), x)
  BY ScannedMore
<1> HIDE DEF M
<1>3. /\ <<a>> \in Seq(M) /\ <<a>> = Append(<<>>, a) /\ <<a, b>> = Append(<<a>>, b)
  BY <1>1, Singles
<1>4. Scanned(l, Append(<<>>, a)) = Scan(l, a)
  BY <1>1, <1>2, ScannedNothing
<1>5. Scanned(l, <<a>>) = Scan(l, a)
  BY <1>3, <1>4
<1>6. Scanned(l, Append(<<a>>, b)) = Scan(Scanned(l, <<a>>), b)
  BY <1>1, <1>2, <1>3
<1>7. Scanned(l, <<a, b>>) = Scan(Scan(l, a), b)
  BY <1>3, <1>5, <1>6
<1> QED BY <1>5, <1>7 DEF FewSteps

LEMMA SignsAreSymbols ==
  /\ \A s \in {"blank", "quote", "/", "backslash", "#", "<<", "n"} : s \in Symbols
  /\ \A s \in Words \cup Numbers \cup Durations : s \in Symbols /\ s \notin Signs
  /\ "newline" \notin Symbols
  BY SymbolsAssumption DEF Signs

LEMMA BlanksAreBlank ==
  ASSUME NEW n \in Nat
  PROVE  Blanks(n) \in Lines /\ Len(Blanks(n)) = n /\ \A i \in 1..n : Blanks(n)[i] = "blank"
<1>1. "blank" \in Symbols
  BY SignsAreSymbols
<1>2. Blanks(n) \in [1..n -> Symbols] /\ \A i \in 1..n : Blanks(n)[i] = "blank"
  BY <1>1 DEF Blanks
<1>3. Blanks(n) \in Seq(Symbols)
  BY <1>2, SeqDef
<1>4. Blanks(n) = [i \in 1..n |-> Blanks(n)[i]]
  BY <1>2
<1>5. Len(Blanks(n)) = n
  BY <1>4, LengthOfList
<1> QED BY <1>2, <1>3, <1>5 DEF Lines

LEMMA BlanksAreSkipped ==
  ASSUME NEW text \in Lines, \A i \in 1..Len(text) : text[i] = "blank", NEW t, NEW args,
         NEW l, l = Lexer("between", t, args)
  PROVE  Scanned(l, text) = l
<1> DEFINE G == {n \in Nat : n <= Len(text) => Scanned(l, SubSeq(text, 1, n)) = l}
<1>0. text \in Seq(Symbols) /\ SubSeq(text, 1, 0) = <<>> /\ SubSeq(text, 1, Len(text)) = text /\ Len(text) \in Nat
  BY WholePrefix DEF Lines
<1>1. 0 \in G
  BY <1>0, ScannedNothing
<1>2. ASSUME NEW n \in Nat, n \in G
      PROVE  n + 1 \in G
  <2>1. SUFFICES ASSUME n + 1 <= Len(text)
                 PROVE  Scanned(l, SubSeq(text, 1, n + 1)) = l
    OBVIOUS
  <2> DEFINE p == SubSeq(text, 1, n)
             x == text[n + 1]
  <2>2. p \in Seq(Symbols) /\ x \in Symbols /\ x = "blank" /\ SubSeq(text, 1, n + 1) = Append(p, x)
    BY <1>0, <2>1, PrefixByOne
  <2>3. Scanned(l, p) = l
    BY <1>2, <2>1
  <2> HIDE DEF p, x
  <2>4. Scanned(l, Append(p, x)) = Scan(l, x)
    BY <2>2, <2>3, ScannedMore
  <2>5. BetweenSteps(l, args, x)
    BY ScanBetween
  <2> QED BY <2>2, <2>4, <2>5 DEF BetweenSteps
<1> HIDE DEF G
<1>3. \A n \in Nat : n \in G
  BY <1>1, <1>2, SetInduction
<1>4. Len(text) \in G /\ Len(text) <= Len(text)
  BY <1>0, <1>3
<1> QED BY <1>0, <1>4 DEF G

LEMMA OneSpelled ==
  ASSUME NEW t \in Contents, NEW args, NEW s \in Symbols \cup {"newline"}
  PROVE  /\ Spelled(s) \in Lines
         /\ Scanned(Lexer("string", t, args), Spelled(s)) = Lexer("string", Append(t, s), args)
<1> DEFINE l == Lexer("string", t, args)
           k == Lexer("escape", t, args)
<1>0. DOMAIN Escape = {"quote", "backslash", "newline"}
  BY DEF Escape
<1>1. t \o <<>> = t /\ t \o <<s>> = Append(t, s)
  BY TextsGrow
<1>2. /\ \A x : StringSteps(l, t, args, x)
      /\ \A x : EscapeSteps(k, t, args, x)
  BY ScanString, ScanEscape
<1>3. CASE s \in {"quote", "backslash", "newline"}
  <2> DEFINE e == Escape[s]
  <2>1. e = (IF s = "newline" THEN "n" ELSE s) /\ Spelled(s) = <<"backslash", e>>
    BY <1>0, <1>3 DEF Escape, Spelled
  <2>2. e \in Symbols /\ "backslash" \in Symbols
    BY <1>3, <2>1, SignsAreSymbols
  <2>3. <<"backslash", e>> \in Lines
    <3> HIDE DEF e
    <3> QED BY <2>2, Singles DEF Lines
  <2>4. Scan(l, "backslash") = k
    BY <1>1, <1>2 DEF StringSteps
  <2>5. Scan(k, e) = Lexer("string", t \o <<s>>, args)
    BY <1>2, <1>3, <2>1 DEF EscapeSteps
  <2>6. Scanned(l, <<"backslash", e>>) = Scan(Scan(l, "backslash"), e)
    <3>1. FewSteps(l, "backslash", e)
      BY ScannedFew, Zenon
    <3> QED BY <3>1 DEF FewSteps
  <2> HIDE DEF l, k, e
  <2>7. Scanned(l, <<"backslash", e>>) = Lexer("string", Append(t, s), args)
    BY <1>1, <2>4, <2>5, <2>6
  <2> QED BY <2>1, <2>3, <2>7 DEF l
<1>4. CASE s \notin {"quote", "backslash", "newline"}
  <2>1. Spelled(s) = <<s>> /\ s \in Symbols
    BY <1>0, <1>4 DEF Spelled
  <2>2. Scan(l, s) = Lexer("string", t \o <<s>>, args)
    BY <1>2, <1>4 DEF StringSteps
  <2>3. Scanned(l, <<s>>) = Scan(l, s) /\ <<s>> \in Lines
    BY <2>1, ScannedFew, Singles DEF Lines, FewSteps
  <2> QED BY <1>1, <2>1, <2>2, <2>3
<1> QED BY <1>3, <1>4

\* The parts of a literal are as many steps.
LEMMA PartsScanned ==
  ASSUME NEW n \in Nat, NEW parts, \A i \in 1..n : parts[i] \in Lines, NEW g,
         \A i \in 1..n : Scanned(g[i - 1], parts[i]) = g[i]
  PROVE  Concat(parts, n) \in Lines /\ Scanned(g[0], Concat(parts, n)) = g[n]
<1> DEFINE G == {i \in Nat : i <= n => Scanned(g[0], Concat(parts, i)) = g[i]}
<1>0. /\ \A i \in 0..n : Concat(parts, i) \in Seq(Symbols)
      /\ Concat(parts, 0) = <<>>
      /\ \A i \in 1..n : Concat(parts, i) = Concat(parts, i - 1) \o parts[i]
  BY JoinedByOne DEF Lines
<1>1. 0 \in G
  BY <1>0, ScannedNothing
<1>2. ASSUME NEW i \in Nat, i \in G PROVE i + 1 \in G
  <2>1. SUFFICES ASSUME i + 1 <= n PROVE Scanned(g[0], Concat(parts, i + 1)) = g[i + 1]
    OBVIOUS
  <2>2. i + 1 \in 1..n /\ (i + 1) - 1 = i /\ i \in 0..n
    BY <2>1
  <2> DEFINE p == Concat(parts, i)
             q == parts[i + 1]
  <2>3. p \in Seq(Symbols) /\ q \in Seq(Symbols) /\ Concat(parts, i + 1) = p \o q
    BY <1>0, <2>2 DEF Lines
  <2>4. Scanned(g[0], p) = g[i] /\ Scanned(g[i], q) = g[i + 1]
    BY <1>2, <2>2
  <2> HIDE DEF p, q
  <2>5. Scanned(g[0], p \o q) = Scanned(Scanned(g[0], p), q)
    <3>1. ASSUME NEW l PROVE Scanned(l, p \o q) = Scanned(Scanned(l, p), q)
      BY <2>3, ScannedBoth
    <3> QED BY <3>1, Zenon
  <2> QED BY <2>3, <2>4, <2>5
<1> HIDE DEF G
<1>3. \A i \in Nat : i \in G
  BY <1>1, <1>2, SetInduction
<1> QED BY <1>0, <1>3 DEF G, Lines

LEMMA StringScanned ==
  ASSUME NEW text \in Contents, NEW args
  PROVE  /\ Spelling(text) \in Lines
         /\ Scanned(Lexer("string", <<>>, args), Spelling(text)) = Lexer("string", text, args)
<1> DEFINE n     == Len(text)
           parts == [i \in DOMAIN text |-> Spelled(text[i])]
           g     == [i \in 0..n |-> Lexer("string", SubSeq(text, 1, i), args)]
<1>1. n \in Nat /\ DOMAIN text = 1..n /\ SubSeq(text, 1, 0) = <<>> /\ SubSeq(text, 1, n) = text
  BY WholePrefix, LenProperties DEF Contents
<1>2. ASSUME NEW i \in 1..n
      PROVE  parts[i] \in Lines /\ Scanned(g[i - 1], parts[i]) = g[i]
  <2> DEFINE p == SubSeq(text, 1, i - 1)
             s == text[i]
  <2>1. i - 1 \in Nat /\ (i - 1) + 1 = i /\ i - 1 \in 0..n /\ i \in 0..n /\ (i - 1) + 1 <= n
    BY <1>1
  <2>2. p \in Contents /\ s \in Symbols \cup {"newline"} /\ SubSeq(text, 1, i) = Append(p, s)
    BY <2>1, PrefixByOne DEF Contents
  <2>3. parts[i] = Spelled(s) /\ g[i - 1] = Lexer("string", p, args) /\ g[i] = Lexer("string", SubSeq(text, 1, i), args)
    BY <1>1, <2>1
  <2> HIDE DEF p, s
  <2>4. Spelled(s) \in Lines /\ Scanned(Lexer("string", p, args), Spelled(s)) = Lexer("string", Append(p, s), args)
    BY <2>2, OneSpelled
  <2> HIDE DEF parts, g
  <2> QED BY <2>2, <2>3, <2>4
<1>3. g[0] = Lexer("string", <<>>, args) /\ g[n] = Lexer("string", text, args)
  <2>1. 0 \in 0..n /\ n \in 0..n
    BY <1>1
  <2> HIDE DEF n
  <2> QED BY <1>1, <2>1
<1>4. Spelling(text) = Concat(parts, n)
  BY DEF Spelling
<1> HIDE DEF parts, g, n
<1>5. Concat(parts, n) \in Lines /\ Scanned(g[0], Concat(parts, n)) = g[n]
  BY <1>1, <1>2, PartsScanned
<1> QED BY <1>3, <1>4, <1>5

LEMMA OneUnit ==
  ASSUME NEW t \in Contents, NEW args, NEW u \in RegexUnits
  PROVE  u \in Lines /\ t \o u \in Contents
         /\ Scanned(Lexer("regex", t, args), u) = Lexer("regex", t \o u, args)
<1> DEFINE l == Lexer("regex", t, args)
<1>1. CASE \E s \in Symbols \ {"/", "backslash"} : u = <<s>>
  <2>1. PICK s \in Symbols \ {"/", "backslash"} : u = <<s>>
    BY <1>1
  <2>2. t \o <<s>> \in Contents /\ <<s>> \in Lines
    BY TextsGrow, Singles DEF Lines
  <2>3. RegexSteps(l, t, args, s)
    BY ScanRegex
  <2>4. Scanned(l, <<s>>) = Scan(l, s)
    BY ScannedFew DEF FewSteps
  <2> QED BY <2>1, <2>2, <2>3, <2>4 DEF RegexSteps
<1>2. CASE \E s \in Symbols : u = <<"backslash", s>>
  <2>1. PICK s \in Symbols : u = <<"backslash", s>>
    BY <1>2
  <2> DEFINE b == t \o <<"backslash">>
             k == Lexer("regexEscape", b, args)
  <2>2. "backslash" \in Symbols
    BY SignsAreSymbols
  <2>3. b \in Contents /\ b \o <<s>> \in Contents /\ b \o <<s>> = Append(b, s) /\ b = Append(t, "backslash")
    <3>1. b \in Contents /\ b = Append(t, "backslash")
      BY <2>2, TextsGrow
    <3> HIDE DEF b
    <3> QED BY <3>1, TextsGrow
  <2>4. <<"backslash", s>> \in Lines /\ <<"backslash", s>> = Append(<<"backslash">>, s) /\ <<"backslash">> \in Contents
    BY <2>2, Singles, TextsGrow DEF Lines
  <2>5. t \o Append(<<"backslash">>, s) = Append(t \o <<"backslash">>, s)
    BY <2>4, ConcatByOne DEF Contents
  <2>6. RegexSteps(l, t, args, "backslash")
    BY ScanRegex
  <2>7. OtherSteps(k, "regexEscape", b, args, s)
    BY ScanOther
  <2>8. Scanned(l, <<"backslash", s>>) = Scan(Scan(l, "backslash"), s)
    <3>1. FewSteps(l, "backslash", s)
      BY ScannedFew, Zenon
    <3> QED BY <3>1 DEF FewSteps
  <2>9. Scan(l, "backslash") = k
    BY <2>6 DEF RegexSteps
  <2>10. Scan(k, s) = Lexer("regex", b \o <<s>>, args)
    BY <2>7 DEF OtherSteps
  <2>11. t \o u = b \o <<s>>
    BY <2>1, <2>3, <2>4, <2>5
  <2> HIDE DEF l, k, b
  <2>12. Scanned(l, u) = Lexer("regex", t \o u, args)
    BY <2>1, <2>8, <2>9, <2>10, <2>11
  <2> QED BY <2>1, <2>3, <2>4, <2>11, <2>12 DEF l
<1> QED BY <1>1, <1>2 DEF RegexUnits

LEMMA RegexScanned ==
  ASSUME NEW units \in Seq(RegexUnits), NEW args
  PROVE  /\ Concat(units, Len(units)) \in Lines /\ Concat(units, Len(units)) \in Contents
         /\ Scanned(Lexer("regex", <<>>, args), Concat(units, Len(units)))
              = Lexer("regex", Concat(units, Len(units)), args)
<1> DEFINE n == Len(units)
           g == [i \in 0..n |-> Lexer("regex", Concat(units, i), args)]
<1>1. n \in Nat /\ \A i \in 1..n : units[i] \in RegexUnits
  BY LenProperties, ElementOfSeq
<1>2. \A u \in RegexUnits : u \in Lines /\ u \in Contents
  <2>1. ASSUME NEW u \in RegexUnits PROVE u \in Lines /\ u \in Contents
    <3>1. u \in Lines
      BY TextsGrow, EmptySeq, OneUnit DEF Contents
    <3> QED BY <3>1, SeqMonotonic DEF Lines, Contents
  <2> QED BY <2>1
<1>3. /\ \A i \in 0..n : Concat(units, i) \in Contents
      /\ Concat(units, 0) = <<>>
      /\ \A i \in 1..n : Concat(units, i) = Concat(units, i - 1) \o units[i]
  <2>1. \A i \in 1..n : units[i] \in Seq(Symbols \cup {"newline"})
    BY <1>1, <1>2 DEF Contents
  <2> HIDE DEF n, g
  <2> QED BY <1>1, <2>1, JoinedByOne, ZenonT(60) DEF Contents
<1>4. ASSUME NEW i \in 1..n
      PROVE  units[i] \in Lines /\ Scanned(g[i - 1], units[i]) = g[i]
  <2> DEFINE p == Concat(units, i - 1)
             u == units[i]
  <2>1. i - 1 \in 0..n /\ i \in 0..n
    BY <1>1
  <2>2. p \in Contents /\ u \in RegexUnits /\ Concat(units, i) = p \o u
    BY <1>1, <1>3, <2>1
  <2>3. g[i - 1] = Lexer("regex", p, args) /\ g[i] = Lexer("regex", Concat(units, i), args)
    BY <2>1
  <2> HIDE DEF p, u, g
  <2>4. u \in Lines /\ Scanned(Lexer("regex", p, args), u) = Lexer("regex", p \o u, args)
    BY <2>2, OneUnit
  <2> QED BY <2>2, <2>3, <2>4 DEF u
<1>5. g[0] = Lexer("regex", <<>>, args) /\ g[n] = Lexer("regex", Concat(units, n), args)
  <2>1. 0 \in 0..n /\ n \in 0..n
    BY <1>1
  <2> HIDE DEF n
  <2> QED BY <1>3, <2>1
<1>6. Concat(units, n) \in Contents
  BY <1>1, <1>3
<1> HIDE DEF g, n
<1>7. Concat(units, n) \in Lines /\ Scanned(g[0], Concat(units, n)) = g[n]
  BY <1>1, <1>4, PartsScanned
<1> QED BY <1>5, <1>6, <1>7 DEF n

-----------------------------------------------------------------------------
(* Arguments. *)

\* An argument as the lexer gives it: a heredoc has its name only.
Lexed(a) ==
  Token(a.kind, CASE a.kind = "regex"   -> Concat(a.units, Len(a.units))
                  [] a.kind = "heredoc" -> <<a.name>>
                  [] OTHER              -> a.text)

Ended(l, text, r) ==
  /\ text \in Lines /\ text # <<>> /\ text[Len(text)] # "blank"
  /\ Scanned(l, text) = r

LEMMA Between ==
  ASSUME NEW q \in Symbols, NEW inner \in Lines, NEW l
  PROVE  /\ <<q>> \o inner \in Lines /\ Len(<<q>> \o inner) = Len(inner) + 1
         /\ (<<q>> \o inner) \o <<q>> \in Lines /\ (<<q>> \o inner) \o <<q>> # <<>>
         /\ ((<<q>> \o inner) \o <<q>>)[Len((<<q>> \o inner) \o <<q>>)] = q
         /\ Scanned(l, (<<q>> \o inner) \o <<q>>) = Scan(Scanned(Scan(l, q), inner), q)
<1> DEFINE one == <<q>>
           s   == one \o inner
<1>1. one \in Seq(Symbols) /\ Len(one) = 1
  BY Singles
<1>2. s \in Seq(Symbols) /\ Len(s) = 1 + Len(inner) /\ inner \in Seq(Symbols) /\ Len(inner) \in Nat
  <2> HIDE DEF one
  <2> QED BY <1>1, ConcatProperties, LenProperties DEF Lines
<1>3. FewSteps(l, q, q)
  BY ScannedFew, Zenon
<1>4. Scanned(l, one) = Scan(l, q)
  BY <1>3 DEF FewSteps
<1>5. Scanned(l, s) = Scanned(Scan(l, q), inner)
  <2> HIDE DEF one
  <2> QED BY <1>1, <1>2, <1>4, ScannedBoth
<1>6. s \o <<q>> = Append(s, q)
  <2> HIDE DEF s
  <2> QED BY <1>2, AppendIsConcat
<1> HIDE DEF s
<1>7. /\ Append(s, q) \in Seq(Symbols) /\ Append(s, q) # <<>>
      /\ Append(s, q)[Len(Append(s, q))] = q
  BY <1>2, AppendProperties
<1>8. Scanned(l, Append(s, q)) = Scan(Scanned(l, s), q)
  BY <1>2, ScannedMore
<1>9. s \o <<q>> \in Seq(Symbols) /\ s \o <<q>> # <<>> /\ (s \o <<q>>)[Len(s \o <<q>>)] = q
  BY <1>6, <1>7
<1>10. Scanned(l, s \o <<q>>) = Scan(Scanned(Scan(l, q), inner), q)
  BY <1>5, <1>6, <1>8
<1> QED BY <1>2, <1>9, <1>10 DEF s, Lines

IsPlain(a, s) ==
  /\ \/ a.kind = "ident" /\ s \in Words
     \/ a.kind = "integer" /\ s \in Numbers
     \/ a.kind = "duration" /\ s \in Durations
  /\ a.text = <<s>>

LEMMA PlainScanned ==
  ASSUME NEW a, NEW args, NEW l, l = Lexer("between", <<>>, args), NEW s, IsPlain(a, s)
  PROVE  /\ Lexed(a) \in Tokens
         /\ Ended(l, Written(a), Lexer("between", <<>>, Append(args, Lexed(a))))
<1>1. s \in Symbols /\ s # "blank"
  BY SignsAreSymbols DEF Signs, IsPlain
<1>2. <<s>> \in Contents /\ <<s>> \in Lines /\ <<s>> # <<>> /\ <<s>>[Len(<<s>>)] = s
  <2>1. <<>> \in Contents
    BY EmptySeq DEF Contents
  <2>2. <<s>> \in Contents
    BY <1>1, <2>1, TextsGrow
  <2> QED BY <1>1, <2>2, Singles DEF Lines
<1>3. a.kind \in Kinds /\ a.kind \notin {"regex", "heredoc", "string"}
  BY DEF Kinds, IsPlain
<1>4. Lexed(a) = Token(a.kind, <<s>>) /\ Written(a) = <<s>>
  BY <1>3 DEF Lexed, Written, IsPlain
<1>5. Lexed(a) \in Tokens
  BY <1>2, <1>3, <1>4 DEF Tokens
<1>6. BetweenSteps(l, args, s) /\ FewSteps(l, s, s)
  BY ScanBetween, ScannedFew, Zenon
<1>7. Scan(l, s) = Lexer("between", <<>>, Append(args, Token(a.kind, <<s>>)))
  BY <1>6 DEF BetweenSteps, IsPlain
<1>8. Scanned(l, <<s>>) = Scan(l, s)
  BY <1>6 DEF FewSteps
<1>9. Scanned(l, Written(a)) = Lexer("between", <<>>, Append(args, Lexed(a)))
  BY <1>4, <1>7, <1>8
<1> QED BY <1>1, <1>2, <1>4, <1>5, <1>9 DEF Ended

LEMMA ArgumentScanned ==
  ASSUME NEW a, IsArgument(a), NEW args, NEW l, l = Lexer("between", <<>>, args)
  PROVE  /\ Lexed(a) \in Tokens
         /\ Ended(l, Written(a), Lexer("between", <<>>, Append(args, Lexed(a))))
<1>1. CASE a.kind \in {"ident", "integer", "duration"}
  <2>1. CASE a.kind = "ident"
    <3>1. PICK s \in Words : a.text = <<s>>
      BY <2>1 DEF IsArgument
    <3>2. IsPlain(a, s)
      BY <2>1, <3>1 DEF IsPlain
    <3> QED BY <3>2, PlainScanned, Zenon
  <2>2. CASE a.kind = "integer"
    <3>1. PICK s \in Numbers : a.text = <<s>>
      BY <2>2 DEF IsArgument
    <3>2. IsPlain(a, s)
      BY <2>2, <3>1 DEF IsPlain
    <3> QED BY <3>2, PlainScanned, Zenon
  <2>3. CASE a.kind = "duration"
    <3>1. PICK s \in Durations : a.text = <<s>>
      BY <2>3 DEF IsArgument
    <3>2. IsPlain(a, s)
      BY <2>3, <3>1 DEF IsPlain
    <3> QED BY <3>2, PlainScanned, Zenon
  <2> QED BY <1>1, <2>1, <2>2, <2>3
<1>2. CASE a.kind = "string"
  <2> DEFINE inner == Spelling(a.text)
             k     == Lexer("string", <<>>, args)
  <2>1. a.text \in Contents
    BY <1>2 DEF IsArgument
  <2>2. inner \in Lines /\ Scanned(k, inner) = Lexer("string", a.text, args)
    BY <2>1, StringScanned
  <2>3. Lexed(a) = Token("string", a.text) /\ Written(a) = (<<"quote">> \o inner) \o <<"quote">>
    BY <1>2 DEF Lexed, Written
  <2>4. Token("string", a.text) \in Tokens
    BY <2>1 DEF Tokens, Kinds
  <2>5. BetweenSteps(l, args, "quote") /\ StringSteps(Lexer("string", a.text, args), a.text, args, "quote")
    BY ScanBetween, ScanString, Zenon
  <2>6. Scan(l, "quote") = k
    BY <2>5 DEF BetweenSteps
  <2>7. Scan(Lexer("string", a.text, args), "quote") = Lexer("between", <<>>, Append(args, Token("string", a.text)))
    BY <2>5 DEF StringSteps
  <2>8. "quote" \in Symbols
    BY SignsAreSymbols
  <2> HIDE DEF inner, k
  <2>9. /\ Written(a) \in Lines /\ Written(a) # <<>> /\ Written(a)[Len(Written(a))] = "quote"
        /\ Scanned(l, Written(a)) = Scan(Scanned(Scan(l, "quote"), inner), "quote")
    BY <2>2, <2>3, <2>8, Between
  <2>10. Scanned(l, Written(a)) = Lexer("between", <<>>, Append(args, Lexed(a)))
    BY <2>2, <2>3, <2>6, <2>7, <2>9
  <2> QED BY <2>3, <2>4, <2>9, <2>10 DEF Ended
<1>3. CASE a.kind = "regex"
  <2> DEFINE inner == Concat(a.units, Len(a.units))
             k     == Lexer("regex", <<>>, args)
  <2>1. a.units \in Seq(RegexUnits)
    BY <1>3 DEF IsArgument
  <2>2. inner \in Lines /\ inner \in Contents /\ Scanned(k, inner) = Lexer("regex", inner, args)
    BY <2>1, RegexScanned
  <2>3. Lexed(a) = Token("regex", inner) /\ Written(a) = (<<"/">> \o inner) \o <<"/">>
    BY <1>3 DEF Lexed, Written
  <2>4. Token("regex", inner) \in Tokens
    BY <2>2 DEF Tokens, Kinds
  <2>5. BetweenSteps(l, args, "/") /\ RegexSteps(Lexer("regex", inner, args), inner, args, "/")
    BY ScanBetween, ScanRegex, Zenon
  <2>6. Scan(l, "/") = k
    BY <2>5 DEF BetweenSteps
  <2>7. Scan(Lexer("regex", inner, args), "/") = Lexer("between", <<>>, Append(args, Token("regex", inner)))
    BY <2>5 DEF RegexSteps
  <2>8. "/" \in Symbols
    BY SignsAreSymbols
  <2> HIDE DEF inner, k
  <2>9. /\ Written(a) \in Lines /\ Written(a) # <<>> /\ Written(a)[Len(Written(a))] = "/"
        /\ Scanned(l, Written(a)) = Scan(Scanned(Scan(l, "/"), inner), "/")
    BY <2>2, <2>3, <2>8, Between
  <2>10. Scanned(l, Written(a)) = Lexer("between", <<>>, Append(args, Lexed(a)))
    BY <2>2, <2>3, <2>6, <2>7, <2>9
  <2> QED BY <2>3, <2>4, <2>9, <2>10 DEF Ended
<1>4. CASE a.kind = "heredoc"
  <2> DEFINE k == Lexer("marker", <<>>, args)
             w == <<"<<", a.name>>
  <2>1. a.name \in Words /\ a.name \in Symbols /\ a.name # "blank" /\ "<<" \in Symbols
    BY <1>4, SignsAreSymbols DEF IsArgument, Signs
  <2>2. Lexed(a) = Token("heredoc", <<a.name>>) /\ Written(a) = w
    BY <1>4 DEF Lexed, Written
  <2>3. Token("heredoc", <<a.name>>) \in Tokens
    <3>1. <<>> \in Contents
      BY EmptySeq DEF Contents
    <3>2. <<a.name>> \in Contents
      BY <2>1, <3>1, TextsGrow
    <3> QED BY <3>2 DEF Tokens, Kinds
  <2>4. w \in Lines /\ w # <<>> /\ w[Len(w)] = a.name
    <3> DEFINE x == a.name
    <3>1. x \in Symbols
      BY <2>1
    <3> HIDE DEF x
    <3>2. <<"<<", x>> \in Seq(Symbols) /\ Len(<<"<<", x>>) = 2
      BY <2>1, <3>1, Singles
    <3>3. <<"<<", x>>[2] = x /\ <<"<<", x>> # <<>>
      OBVIOUS
    <3> QED BY <3>2, <3>3 DEF x, Lines
  <2>5. BetweenSteps(l, args, "<<") /\ OtherSteps(k, "marker", <<>>, args, a.name) /\ FewSteps(l, "<<", a.name)
    BY ScanBetween, ScanOther, ScannedFew, Zenon
  <2>6. Scan(l, "<<") = k
    BY <2>5 DEF BetweenSteps
  <2>7. Scan(k, a.name) = Lexer("between", <<>>, Append(args, Token("heredoc", <<a.name>>)))
    BY <2>1, <2>5 DEF OtherSteps
  <2>8. Scanned(l, w) = Scan(Scan(l, "<<"), a.name)
    BY <2>5 DEF FewSteps
  <2> HIDE DEF k, w
  <2>9. Scanned(l, Written(a)) = Lexer("between", <<>>, Append(args, Lexed(a)))
    BY <2>2, <2>6, <2>7, <2>8
  <2> QED BY <2>1, <2>2, <2>3, <2>4, <2>9 DEF Ended
<1> QED BY <1>1, <1>2, <1>3, <1>4 DEF IsArgument

\* With its blanks.
Spaced(a) == Blanks(a.gap) \o Written(a)

LEMMA SpacedScanned ==
  ASSUME NEW a, IsArgument(a), NEW args, NEW l, l = Lexer("between", <<>>, args)
  PROVE  /\ Lexed(a) \in Tokens
         /\ Ended(l, Spaced(a), Lexer("between", <<>>, Append(args, Lexed(a))))
         /\ a.gap # 0 => Spaced(a)[1] = "blank"
<1> DEFINE b == Blanks(a.gap)
           w == Written(a)
           more == Lexer("between", <<>>, Append(args, Lexed(a)))
<1>1. Lexed(a) \in Tokens /\ Ended(l, w, more)
  BY ArgumentScanned
<1>2. a.gap \in Nat
  BY DEF IsArgument
<1>3. b \in Seq(Symbols) /\ Len(b) = a.gap /\ \A i \in 1..a.gap : b[i] = "blank"
  BY <1>2, BlanksAreBlank DEF Lines
<1>4. w \in Seq(Symbols) /\ w # <<>> /\ w[Len(w)] # "blank" /\ Scanned(l, w) = more
  BY <1>1 DEF Ended, Lines
<1>5. Scanned(l, b) = l
  BY <1>3, BlanksAreSkipped DEF Lines
<1> HIDE DEF b, w, more
<1>6. Scanned(l, b \o w) = more
  BY <1>3, <1>4, <1>5, ScannedBoth
<1>7. Len(w) \in Nat \ {0}
  BY <1>4, EmptySeq
<1>8. /\ b \o w \in Seq(Symbols) /\ Len(b \o w) = a.gap + Len(w)
      /\ (b \o w)[a.gap + Len(w)] = w[Len(w)] /\ (a.gap # 0 => (b \o w)[1] = b[1])
  <2> DEFINE x == b \o w
             n == a.gap
  <2>1. /\ x \in Seq(Symbols) /\ Len(x) = Len(b) + Len(w)
        /\ \A i \in 1..(Len(b) + Len(w)) : x[i] = IF i <= Len(b) THEN b[i] ELSE w[i - Len(b)]
    BY <1>3, <1>4, ConcatProperties
  <2>2. n \in Nat /\ Len(b) = n
    BY <1>2, <1>3
  <2> HIDE DEF x, n
  <2>3. /\ n + Len(w) \in 1..(Len(b) + Len(w)) /\ ~ n + Len(w) <= Len(b) /\ (n + Len(w)) - Len(b) = Len(w)
        /\ n # 0 => 1 \in 1..(Len(b) + Len(w)) /\ 1 <= Len(b)
    BY <1>7, <2>2
  <2>4. x[n + Len(w)] = w[Len(w)] /\ (n # 0 => x[1] = b[1])
    BY <2>1, <2>3
  <2> QED BY <2>1, <2>2, <2>4 DEF x, n
<1>9. b \o w # <<>> /\ (a.gap # 0 => b[1] = "blank")
  BY <1>2, <1>3, <1>7, <1>8, EmptySeq
<1>10. Spaced(a) = b \o w
  BY DEF Spaced, b, w
<1> QED BY <1>1, <1>4, <1>6, <1>8, <1>9, <1>10 DEF Ended, Lines, more

\* The first of them does not touch what is before it.
IsArguments(args) ==
  /\ IsList(args) /\ \A i \in DOMAIN args : IsArgument(args[i])
  /\ 1 \in DOMAIN args => args[1].gap # 0

LexedAll(args) == [i \in DOMAIN args |-> Lexed(args[i])]

LEMMA ListLength ==
  ASSUME NEW s, IsList(s)
  PROVE  Len(s) \in Nat /\ DOMAIN s = 1..Len(s)
  BY DEF IsList

LEMMA MappedList ==
  ASSUME NEW n \in Nat, NEW S, NEW f, f = [i \in 1..n |-> f[i]], \A i \in 1..n : f[i] \in S
  PROVE  f \in Seq(S) /\ Len(f) = n /\ DOMAIN f = 1..n
<1>1. f \in [1..n -> S]
  BY Zenon
<1>2. f \in Seq(S)
  BY <1>1, SeqDef
<1>3. Len(f) = n /\ DOMAIN f = 1..n
  BY <1>1, LengthOfList
<1> QED BY <1>2, <1>3

LEMMA ArgumentsScanned ==
  ASSUME NEW form, IsArguments(form.args)
  PROVE  /\ LexedAll(form.args) \in Seq(Tokens) /\ Len(LexedAll(form.args)) = Len(form.args)
         /\ ArgumentsOf(form) \in Lines
         /\ Scanned(Lexer("between", <<>>, <<>>), ArgumentsOf(form)) = Lexer("between", <<>>, LexedAll(form.args))
         /\ form.args = <<>> => ArgumentsOf(form) = <<>>
         /\ form.args # <<>> => /\ ArgumentsOf(form) # <<>> /\ ArgumentsOf(form)[1] = "blank"
                                /\ ArgumentsOf(form)[Len(ArgumentsOf(form))] # "blank"
<1> DEFINE args  == form.args
           n     == Len(args)
           lexed == LexedAll(args)
           parts == [i \in DOMAIN args |-> Spaced(args[i])]
           g     == [i \in 0..n |-> Lexer("between", <<>>, SubSeq(lexed, 1, i))]
<1>1. n \in Nat /\ DOMAIN args = 1..n /\ \A i \in 1..n : IsArgument(args[i])
  BY ListLength DEF IsArguments
<1>2. lexed = [i \in 1..n |-> lexed[i]] /\ \A i \in 1..n : lexed[i] = Lexed(args[i])
  BY <1>1 DEF LexedAll
<1>3. \A i \in 1..n : lexed[i] \in Tokens
  <2>1. ASSUME NEW i \in 1..n PROVE Lexed(args[i]) \in Tokens
    BY <1>1, SpacedScanned
  <2> QED BY <1>2, <2>1
<1>4. lexed \in Seq(Tokens) /\ Len(lexed) = n
  <2> HIDE DEF lexed, n
  <2> QED BY <1>1, <1>2, <1>3, MappedList
<1>5. ArgumentsOf(form) = Concat(parts, n)
  BY DEF ArgumentsOf, Spaced
<1>6. SubSeq(lexed, 1, 0) = <<>> /\ SubSeq(lexed, 1, n) = lexed
  BY <1>4, WholePrefix
<1>7. /\ 0 \in 0..n /\ n \in 0..n
      /\ \A i \in 0..n : g[i] = Lexer("between", <<>>, SubSeq(lexed, 1, i))
      /\ \A i \in 1..n : parts[i] = Spaced(args[i])
  BY <1>1
<1> HIDE DEF parts, g, lexed, n
<1>8. ASSUME NEW i \in 1..n
      PROVE  /\ parts[i] \in Lines /\ parts[i] # <<>> /\ parts[i][Len(parts[i])] # "blank"
             /\ args[i].gap # 0 => parts[i][1] = "blank"
             /\ Scanned(g[i - 1], parts[i]) = g[i]
  <2> DEFINE p == SubSeq(lexed, 1, i - 1)
             a == args[i]
             l == Lexer("between", <<>>, p)
             more == Lexer("between", <<>>, Append(p, Lexed(a)))
  <2>1. i - 1 \in Nat /\ (i - 1) + 1 = i /\ i - 1 \in 0..n /\ i \in 0..n /\ (i - 1) + 1 <= n
    BY <1>1
  <2>2. SubSeq(lexed, 1, i) = Append(p, lexed[i])
    BY <1>4, <2>1, PrefixByOne
  <2>3. g[i - 1] = l /\ g[i] = more
    BY <1>2, <1>7, <2>1, <2>2
  <2>4. IsArgument(a) /\ parts[i] = Spaced(a)
    BY <1>1, <1>7
  <2> HIDE DEF a, p
  <2>5. Ended(l, Spaced(a), more) /\ (a.gap # 0 => Spaced(a)[1] = "blank")
    BY <2>4, SpacedScanned
  <2> HIDE DEF l, more
  <2> QED BY <2>3, <2>4, <2>5 DEF Ended, a
<1>9. g[0] = Lexer("between", <<>>, <<>>) /\ g[n] = Lexer("between", <<>>, lexed)
  BY <1>6, <1>7
<1>10. Concat(parts, n) \in Lines /\ Scanned(g[0], Concat(parts, n)) = g[n]
  BY <1>1, <1>8, PartsScanned
<1>11. n = 0 => Concat(parts, n) = <<>>
  BY <1>1, <1>8, JoinedByOne DEF Lines
<1>12. n = 0 <=> args = <<>>
  <2>1. args = <<>> => n = 0
    BY EmptySeq DEF n
  <2>2. n = 0 => args = <<>>
    <3>1. args = [i \in 1..n |-> args[i]]
      BY DEF IsArguments, IsList, n
    <3> QED BY <1>1, <3>1, LengthOfList, EmptySeq
  <2> QED BY <2>1, <2>2
<1>13. ASSUME n # 0
       PROVE  /\ Concat(parts, n) # <<>> /\ Concat(parts, n)[1] = "blank"
              /\ Concat(parts, n)[Len(Concat(parts, n))] # "blank"
  <2>1. n \in 1..n /\ 1 \in 1..n /\ 1 - 1 = 0
    BY <1>1, <1>13
  <2>2. \A i \in 1..n : parts[i] \in Seq(Symbols) /\ Len(parts[i]) \in Nat \ {0}
    BY <1>8, EmptySeq DEF Lines
  <2>3. LaidOut(parts, n)
    BY <1>1, <2>2, JoinedLaidOut
  <2> DEFINE m == Len(parts[n])
             d == Len(Concat(parts, n - 1))
  <2>4. Concat(parts, n)[Len(Concat(parts, 0)) + 1] = parts[1][1] /\ Len(Concat(parts, 0)) = 0
    <3>1. 1 \in 1..Len(parts[1])
      BY <2>1, <2>2
    <3> QED BY <2>1, <2>3, <3>1 DEF LaidOut
  <2>5. Concat(parts, n)[d + m] = parts[n][m] /\ Len(Concat(parts, n)) = d + m /\ d \in Nat /\ m \in Nat \ {0}
    <3>1. m \in 1..m /\ m \in Nat \ {0} /\ n - 1 \in 0..n
      BY <1>1, <2>1, <2>2
    <3> QED BY <2>1, <2>3, <3>1 DEF LaidOut
  <2>6. Concat(parts, n)[1] = "blank"
    <3>1. args[1].gap # 0
      BY <1>1, <2>1 DEF IsArguments
    <3> QED BY <1>8, <2>1, <2>4, <3>1
  <2>7. parts[n][m] # "blank"
    BY <1>8, <2>1
  <2> HIDE DEF m, d
  <2>8. Concat(parts, n) # <<>>
    BY <2>5, EmptySeq
  <2> QED BY <2>5, <2>6, <2>7, <2>8
<1> QED BY <1>4, <1>5, <1>9, <1>10, <1>11, <1>12, <1>13 DEF n, lexed

-----------------------------------------------------------------------------
(* What is left of a line: nothing before the verb, nothing behind the last *)
(* symbol that is no blank before a comment. *)

\* The hash at i is taken for a comment; none is up to n.
TakenForComment(line, i) ==
  /\ line[i] = "#" /\ line[i - 1] = "blank"
  /\ Len(Only(SubSeq(line, 1, i - 1), {"quote"})) % 2 = 0

CommentFree(line, n) == \A i \in 2..n : ~ TakenForComment(line, i)

\* The comment seems to begin at c, and the last symbol before it is at m.
CutAt(raw, n, c, m) ==
  /\ c <= Len(raw) => TakenForComment(raw, c)
  /\ \A i \in (n + 1)..(c - 1) : ~ TakenForComment(raw, i)
  /\ raw[m] # "blank" /\ \A j \in (m + 1)..(c - 1) : raw[j] = "blank"

LEMMA TrimCuts ==
  ASSUME NEW s \in Lines, NEW f \in 1..Len(s), s[f] # "blank", \A j \in 1..(f - 1) : s[j] = "blank"
  PROVE  \E m \in f..Len(s) : /\ s[m] # "blank" /\ \A j \in (m + 1)..Len(s) : s[j] = "blank"
                              /\ Trim(s) = SubSeq(s, f, m)
<1> DEFINE I == Inked(s)
           m == LastOf(I)
<1>1. Len(s) \in Nat /\ DOMAIN s = 1..Len(s)
  BY LenProperties DEF Lines
<1>2. I = {i \in 1..Len(s) : s[i] # "blank"}
  BY <1>1 DEF Inked
<1>3. f \in I /\ I \in SUBSET Nat /\ I \in SUBSET (0..Len(s)) /\ I # {}
  BY <1>1, <1>2
<1> HIDE DEF I
<1>4. FirstOf(I) \in I /\ FirstOf(I) <= f
  BY <1>3, FirstIsFirst
<1>5. FirstOf(I) = f
  BY <1>2, <1>4
<1>6. m \in I /\ \A i \in I : i <= m
  BY <1>1, <1>3, LastIsLast
<1> HIDE DEF m
<1>7. m \in f..Len(s) /\ s[m] # "blank"
  BY <1>1, <1>2, <1>3, <1>6
<1>8. \A j \in (m + 1)..Len(s) : s[j] = "blank"
  BY <1>1, <1>2, <1>3, <1>6
<1>9. Trim(s) = SubSeq(s, f, m)
  BY <1>3, <1>5 DEF Trim, I, m
<1> QED BY <1>7, <1>8, <1>9

LEMMA Stripped ==
  ASSUME NEW raw \in Lines, NEW f \in Nat \ {0}, NEW n \in Nat, f <= n, n <= Len(raw),
         \A j \in 1..(f - 1) : raw[j] = "blank", raw[f] \notin {"blank", "#"}, CommentFree(raw, n)
  PROVE  \E c \in (n + 1)..(Len(raw) + 1) : \E m \in f..(c - 1) :
           CutAt(raw, n, c, m) /\ StripCommentAndTrim(raw) = SubSeq(raw, f, m)
<1> DEFINE H   == {i \in DOMAIN raw : StartsComment(raw, i)}
           c   == IF H = {} THEN Len(raw) + 1 ELSE FirstOf(H)
           cut == IF H = {} THEN raw ELSE SubSeq(raw, 1, FirstOf(H) - 1)
<1>1. Len(raw) \in Nat /\ DOMAIN raw = 1..Len(raw) /\ raw \in Seq(Symbols)
  BY LenProperties DEF Lines
<1>2. ASSUME NEW i \in 1..Len(raw), i # 1 PROVE StartsComment(raw, i) <=> TakenForComment(raw, i)
  BY <1>2 DEF StartsComment, TakenForComment
<1>3. raw[1] # "#"
  <2>1. CASE f = 1
    BY <2>1
  <2>2. CASE f # 1
    <3>1. 1 \in 1..(f - 1)
      BY <2>2
    <3> QED BY <3>1
  <2> QED BY <2>1, <2>2
<1>4. \A i \in 1..n : ~ StartsComment(raw, i)
  <2>1. ASSUME NEW i \in 1..n PROVE ~ StartsComment(raw, i)
    <3>1. CASE i = 1
      BY <1>3, <3>1 DEF StartsComment
    <3>2. CASE i # 1
      BY <1>1, <1>2, <3>2 DEF CommentFree
    <3> QED BY <3>1, <3>2
  <2> QED BY <2>1
<1>5. H \in SUBSET Nat /\ \A i \in H : i \in (n + 1)..Len(raw) /\ i # 1 /\ TakenForComment(raw, i)
  BY <1>1, <1>2, <1>4
<1>6. \A i \in (n + 1)..Len(raw) : TakenForComment(raw, i) => i \in H
  BY <1>1, <1>2
<1>7. H # {} => FirstOf(H) \in H /\ \A i \in H : FirstOf(H) <= i
  BY <1>5, FirstIsFirst
<1>8. StripCommentAndTrim(raw) = Trim(cut)
  BY DEF StripCommentAndTrim
<1> HIDE DEF H
<1>9. /\ c \in (n + 1)..(Len(raw) + 1)
      /\ c <= Len(raw) => TakenForComment(raw, c)
      /\ \A i \in (n + 1)..(c - 1) : ~ TakenForComment(raw, i)
  <2>1. CASE H = {}
    BY <1>1, <1>6, <2>1
  <2>2. CASE H # {}
    <3>1. c \in H /\ \A i \in H : c <= i
      BY <1>7, <2>2
    <3> HIDE DEF c
    <3>2. c \in (n + 1)..Len(raw) /\ TakenForComment(raw, c)
      BY <1>5, <3>1
    <3>3. ASSUME NEW i \in (n + 1)..(c - 1) PROVE ~ TakenForComment(raw, i)
      BY <1>1, <1>6, <3>1, <3>2
    <3> QED BY <1>1, <3>2, <3>3
  <2> QED BY <2>1, <2>2
<1>10. cut \in Lines /\ Len(cut) = c - 1 /\ \A i \in 1..(c - 1) : cut[i] = raw[i]
  <2>1. CASE H = {}
    BY <1>1, <2>1 DEF Lines
  <2>2. CASE H # {}
    <3>0. c = FirstOf(H) /\ cut = SubSeq(raw, 1, FirstOf(H) - 1)
      BY <2>2
    <3> HIDE DEF c, cut
    <3>1. c = FirstOf(H) /\ cut = SubSeq(raw, 1, c - 1)
      BY <3>0
    <3>2. c - 1 \in Nat /\ c - 1 \in 0..Len(raw)
      <4>1. c \in (n + 1)..Len(raw)
        BY <1>5, <1>7, <2>2, <3>1
      <4> QED BY <1>1, <4>1
    <3>3. /\ SubSeq(raw, 0 + 1, c - 1) \in Seq(Symbols) /\ Len(SubSeq(raw, 0 + 1, c - 1)) = (c - 1) - 0
          /\ \A k \in 1..((c - 1) - 0) : SubSeq(raw, 0 + 1, c - 1)[k] = raw[0 + k]
      BY <1>1, <3>2, Window
    <3> QED BY <3>1, <3>2, <3>3 DEF Lines
  <2> QED BY <2>1, <2>2
<1> HIDE DEF c, cut
<1>11. f \in 1..Len(cut) /\ cut[f] # "blank" /\ \A j \in 1..(f - 1) : cut[j] = "blank"
  BY <1>1, <1>9, <1>10
<1>12. PICK m \in f..Len(cut) : /\ cut[m] # "blank" /\ \A j \in (m + 1)..Len(cut) : cut[j] = "blank"
                                /\ Trim(cut) = SubSeq(cut, f, m)
  BY <1>10, <1>11, TrimCuts
<1>13. m \in f..(c - 1) /\ c - 1 \in Nat /\ c - 1 <= Len(raw)
  BY <1>1, <1>9, <1>10, <1>12
<1>14. raw[m] # "blank" /\ \A j \in (m + 1)..(c - 1) : raw[j] = "blank"
  BY <1>1, <1>9, <1>10, <1>12, <1>13, SMTT(60)
<1>15. SubSeq(cut, f, m) = SubSeq(raw, f, m)
  <2>1. /\ SubSeq(cut, (f - 1) + 1, m) \in Seq(Symbols) /\ Len(SubSeq(cut, (f - 1) + 1, m)) = m - (f - 1)
        /\ \A k \in 1..(m - (f - 1)) : SubSeq(cut, (f - 1) + 1, m)[k] = cut[(f - 1) + k]
    <3>1. f - 1 \in Nat /\ m \in (f - 1)..Len(cut)
      BY <1>12
    <3> QED BY <1>10, <3>1, Window DEF Lines
  <2>2. /\ SubSeq(raw, (f - 1) + 1, m) \in Seq(Symbols) /\ Len(SubSeq(raw, (f - 1) + 1, m)) = m - (f - 1)
        /\ \A k \in 1..(m - (f - 1)) : SubSeq(raw, (f - 1) + 1, m)[k] = raw[(f - 1) + k]
    <3>1. f - 1 \in Nat /\ m \in (f - 1)..Len(raw)
      BY <1>13
    <3> QED BY <1>1, <3>1, Window
  <2>3. \A k \in 1..(m - (f - 1)) : cut[(f - 1) + k] = raw[(f - 1) + k]
    <3>1. ASSUME NEW k \in 1..(m - (f - 1)) PROVE (f - 1) + k \in 1..(c - 1)
      BY <1>13
    <3> QED BY <1>10, <3>1
  <2>4. (f - 1) + 1 = f
    OBVIOUS
  <2> DEFINE a == SubSeq(cut, (f - 1) + 1, m)
             b == SubSeq(raw, (f - 1) + 1, m)
             k == m - (f - 1)
  <2>5. /\ a \in Seq(Symbols) /\ b \in Seq(Symbols) /\ Len(a) = k /\ Len(b) = k
        /\ \A i \in 1..k : a[i] = b[i]
    BY <2>1, <2>2, <2>3
  <2> HIDE DEF a, b, k
  <2>6. a = b
    BY <2>5, SeqEqual
  <2> QED BY <2>4, <2>6 DEF a, b
<1>16. CutAt(raw, n, c, m)
  BY <1>9, <1>14 DEF CutAt
<1>17. StripCommentAndTrim(raw) = SubSeq(raw, f, m)
  BY <1>8, <1>12, <1>15
<1> QED BY <1>9, <1>13, <1>16, <1>17

LEMMA VerbSplit ==
  ASSUME NEW verb \in Lines, verb # <<>>, \A i \in 1..Len(verb) : verb[i] # "blank",
         NEW rest \in Lines, rest # <<>> => rest[1] = "blank", NEW line, line = verb \o rest
  PROVE  /\ line # <<>> /\ line[1] = verb[1]
         /\ SubSeq(line, 1, VerbEnd(line)) = verb
         /\ SubSeq(line, VerbEnd(line) + 1, Len(line)) = rest
<1> DEFINE B == {i \in DOMAIN line : line[i] = "blank"}
           v == Len(verb)
<1>1. /\ verb \in Seq(Symbols) /\ rest \in Seq(Symbols) /\ v \in Nat \ {0} /\ Len(rest) \in Nat
      /\ rest # <<>> => Len(rest) > 0
  BY LenProperties, EmptySeq DEF Lines
<1>2. /\ line \in Seq(Symbols) /\ Len(line) = v + Len(rest) /\ DOMAIN line = 1..Len(line)
      /\ \A i \in 1..v : line[i] = verb[i]
      /\ \A i \in 1..Len(rest) : line[v + i] = rest[i]
  BY <1>1, ConcatProperties, LenProperties
<1>3. VerbEnd(line) = v
  <2>1. CASE rest = <<>>
    <3>1. Len(line) = v
      BY <1>1, <1>2, <2>1, EmptySeq
    <3>2. B = {}
      BY <1>1, <1>2, <3>1
    <3> QED BY <3>1, <3>2 DEF VerbEnd
  <2>2. CASE rest # <<>>
    <3>1. v + 1 \in B
      BY <1>1, <1>2, <2>2
    <3>2. B \in SUBSET Nat /\ \A i \in B : i >= v + 1
      BY <1>1, <1>2
    <3>3. VerbEnd(line) = FirstOf(B) - 1
      <4>1. B # {}
        BY <3>1
      <4> QED BY <4>1 DEF VerbEnd
    <3> HIDE DEF B
    <3>4. FirstOf(B) \in B /\ FirstOf(B) <= v + 1
      BY <3>1, <3>2, FirstIsFirst
    <3>5. FirstOf(B) = v + 1
      <4> DEFINE x == FirstOf(B)
      <4>1. x \in Nat /\ x >= v + 1 /\ x <= v + 1
        BY <3>2, <3>4
      <4> HIDE DEF x, v
      <4>2. x = v + 1
        BY <1>1, <4>1
      <4> QED BY <4>2 DEF x
    <3> QED BY <1>1, <3>3, <3>5
  <2> QED BY <2>1, <2>2
<1> HIDE DEF B, v
<1>4. /\ SubSeq(line, 0 + 1, v) \in Seq(Symbols) /\ Len(SubSeq(line, 0 + 1, v)) = v - 0
      /\ \A k \in 1..(v - 0) : SubSeq(line, 0 + 1, v)[k] = line[0 + k]
  <2>1. v \in 0..Len(line) /\ 0 \in Nat
    BY <1>1, <1>2
  <2> QED BY <1>2, <2>1, Window
<1>5. /\ SubSeq(line, v + 1, Len(line)) \in Seq(Symbols) /\ Len(SubSeq(line, v + 1, Len(line))) = Len(line) - v
      /\ \A k \in 1..(Len(line) - v) : SubSeq(line, v + 1, Len(line))[k] = line[v + k]
  <2>1. Len(line) \in v..Len(line) /\ v \in Nat
    BY <1>1, <1>2
  <2> QED BY <1>2, <2>1, Window
<1>6. SubSeq(line, 1, v) = verb
  BY <1>1, <1>2, <1>4, SeqEqual DEF v
<1>7. SubSeq(line, v + 1, Len(line)) = rest
  BY <1>1, <1>2, <1>5, SeqEqual
<1>8. line # <<>> /\ line[1] = verb[1]
  BY <1>1, <1>2, EmptySeq
<1> QED BY <1>3, <1>6, <1>7, <1>8

\* The line is read as the verb and the first k symbols of the rest, with a
\* comment at c; the verb ends at off.
ReadAs(raw, verb, rest, off, n, c, k) ==
  LET line == StripCommentAndTrim(raw)
  IN  /\ line # <<>> /\ line[1] = verb[1]
      /\ SubSeq(line, 1, VerbEnd(line)) = verb
      /\ SubSeq(line, VerbEnd(line) + 1, Len(line)) = SubSeq(rest, 1, k)
      /\ c \in (n + 1)..(Len(raw) + 1) /\ k \in 0..Len(rest) /\ off + k < c
      /\ c <= Len(raw) => TakenForComment(raw, c)
      /\ \A i \in (n + 1)..(c - 1) : ~ TakenForComment(raw, i)
      /\ k # 0 => rest[k] # "blank"
      /\ \A j \in (k + 1)..Len(rest) : off + j < c => rest[j] = "blank"

\* The line begins with the verb, the rest with a blank.
BeginsWith(raw, indent, verb, rest, off) ==
  /\ indent \in Nat
  /\ verb \in Seq(Symbols \ {"blank"}) /\ verb # <<>> /\ verb[1] \in Words
  /\ rest \in Lines /\ (rest # <<>> => rest[1] = "blank")
  /\ raw = Blanks(indent) \o (verb \o rest) /\ off = indent + Len(verb)

LEMMA LineRead ==
  ASSUME NEW raw, NEW indent, NEW verb, NEW rest, NEW off, BeginsWith(raw, indent, verb, rest, off),
         NEW n \in off..Len(raw), CommentFree(raw, n)
  PROVE  \E c, k : ReadAs(raw, verb, rest, off, n, c, k)
<1> DEFINE v == Len(verb)
           f == indent + 1
           b == Blanks(indent)
           vr == verb \o rest
<1>1. /\ verb \in Seq(Symbols) /\ rest \in Seq(Symbols) /\ v \in Nat \ {0} /\ Len(rest) \in Nat
      /\ \A i \in 1..v : verb[i] # "blank"
      /\ indent \in Nat /\ verb[1] \in Words
  <2>0. verb \in Seq(Symbols \ {"blank"}) /\ verb # <<>> /\ rest \in Seq(Symbols)
    BY DEF BeginsWith, Lines
  <2>1. verb \in Seq(Symbols)
    BY <2>0, SeqMonotonic
  <2>2. \A i \in 1..v : verb[i] # "blank"
    BY <2>0, ElementOfSeq
  <2>3. indent \in Nat /\ verb[1] \in Words
    BY DEF BeginsWith
  <2> QED BY <2>0, <2>1, <2>2, <2>3, LenProperties, EmptySeq
<1>2. b \in Seq(Symbols) /\ Len(b) = indent /\ \A i \in 1..indent : b[i] = "blank"
  BY <1>1, BlanksAreBlank DEF Lines
<1>3. /\ vr \in Seq(Symbols) /\ Len(vr) = v + Len(rest)
      /\ \A i \in 1..v : vr[i] = verb[i]
      /\ \A i \in 1..Len(rest) : vr[v + i] = rest[i]
  BY <1>1, ConcatProperties
<1> HIDE DEF v, b, vr
<1>4. /\ raw \in Seq(Symbols) /\ Len(raw) = indent + Len(vr)
      /\ \A i \in 1..indent : raw[i] = "blank"
      /\ \A i \in 1..Len(vr) : raw[indent + i] = vr[i]
  <2>1. raw = b \o vr
    BY DEF b, vr, BeginsWith
  <2>2. /\ b \o vr \in Seq(Symbols) /\ Len(b \o vr) = Len(b) + Len(vr)
        /\ \A i \in 1..(Len(b) + Len(vr)) : (b \o vr)[i] = IF i <= Len(b) THEN b[i] ELSE vr[i - Len(b)]
    <3>1. b \in Seq(Symbols) /\ vr \in Seq(Symbols)
      BY <1>2, <1>3
    <3> QED BY ONLY <3>1, ConcatProperties
  <2>3. indent \in Nat /\ Len(vr) \in Nat /\ Len(b) = indent
    BY <1>1, <1>2, <1>3
  <2>4. ASSUME NEW i \in 1..indent PROVE raw[i] = "blank"
    BY <1>2, <2>1, <2>2, <2>3
  <2>5. ASSUME NEW i \in 1..Len(vr) PROVE raw[indent + i] = vr[i]
    <3>1. indent + i \in 1..(Len(b) + Len(vr)) /\ ~ (indent + i <= Len(b)) /\ (indent + i) - Len(b) = i
      BY <2>3
    <3> QED BY <2>1, <2>2, <3>1
  <2> QED BY <2>1, <2>2, <2>3, <2>4, <2>5
<1>5. off = indent + v /\ off \in Nat /\ n \in Nat /\ off <= n /\ n <= Len(raw) /\ Len(raw) = off + Len(rest)
  <2>1. off = indent + v
    BY DEF v, BeginsWith
  <2>2. off \in Nat
    BY <1>1, <2>1
  <2> QED BY <1>1, <1>3, <1>4, <2>1, <2>2
<1>6. /\ \A i \in 1..v : raw[indent + i] = verb[i]
      /\ \A i \in 1..Len(rest) : raw[off + i] = rest[i]
  <2>1. ASSUME NEW i \in 1..v PROVE raw[indent + i] = verb[i]
    BY <1>1, <1>3, <1>4
  <2>2. ASSUME NEW i \in 1..Len(rest) PROVE raw[off + i] = rest[i]
    <3>1. v + i \in 1..Len(vr) /\ indent + (v + i) = off + i
      BY <1>1, <1>3, <1>5
    <3>2. raw[indent + (v + i)] = vr[v + i] /\ vr[v + i] = rest[i]
      BY <1>3, <1>4, <3>1
    <3> QED BY <3>1, <3>2
  <2> QED BY <2>1, <2>2
<1>7. f \in Nat \ {0} /\ f <= n /\ \A j \in 1..(f - 1) : raw[j] = "blank"
  BY <1>1, <1>4, <1>5
<1>8. raw[f] \notin {"blank", "#"} /\ raw[f] = verb[1] /\ verb[1] \in Words
  <2>1. raw[f] = verb[1]
    <3>1. 1 \in 1..v
      BY <1>1
    <3> DEFINE j == indent + 1
    <3>2. \A i \in 1..v : raw[indent + i] = verb[i]
      BY <1>6
    <3>3. raw[j] = verb[1]
      BY ONLY <3>1, <3>2
    <3> QED BY <3>3
  <2>2. verb[1] \in Words
    BY <1>1
  <2>3. verb[1] \notin Signs
    BY <2>2, SignsAreSymbols
  <2>4. verb[1] \notin {"blank", "#"}
    BY <2>3 DEF Signs
  <2> HIDE DEF f
  <2> QED BY <2>1, <2>2, <2>4
<1> HIDE DEF f
<1>9. PICK c \in (n + 1)..(Len(raw) + 1) : \E m \in f..(c - 1) :
        CutAt(raw, n, c, m) /\ StripCommentAndTrim(raw) = SubSeq(raw, f, m)
  BY <1>4, <1>5, <1>7, <1>8, Stripped DEF Lines
<1>10. PICK m \in f..(c - 1) : CutAt(raw, n, c, m) /\ StripCommentAndTrim(raw) = SubSeq(raw, f, m)
  BY <1>9
<1>11. m \in off..Len(raw)
  <2>1. m \in Nat /\ m <= Len(raw) /\ c \in Nat /\ off < c
    BY <1>5, <1>7, <1>9, <1>10
  <2>2. raw[off] # "blank"
    <3>1. v \in 1..v /\ indent + v = off
      BY <1>1, <1>5
    <3> QED BY <1>1, <1>6, <3>1
  <2>3. ~ m < off
    <3>1. SUFFICES ASSUME m < off PROVE FALSE
      OBVIOUS
    <3>2. off \in (m + 1)..(c - 1)
      BY <1>5, <2>1, <3>1
    <3> QED BY <1>10, <2>2, <3>2 DEF CutAt
  <2> QED BY <1>5, <2>1, <2>3
<1> DEFINE k    == m - off
           line == SubSeq(raw, f, m)
           some == SubSeq(rest, 1, k)
<1>12. k \in 0..Len(rest) /\ off + k = m /\ off + k < c
  BY <1>5, <1>9, <1>10, <1>11
<1>13. some \in Seq(Symbols) /\ Len(some) = k /\ \A i \in 1..k : some[i] = rest[i]
  <2>1. 0 \in Nat /\ k \in 0..Len(rest)
    BY <1>12
  <2> HIDE DEF k
  <2>2. /\ SubSeq(rest, 0 + 1, k) \in Seq(Symbols) /\ Len(SubSeq(rest, 0 + 1, k)) = k - 0
        /\ \A i \in 1..(k - 0) : SubSeq(rest, 0 + 1, k)[i] = rest[0 + i]
    BY <1>1, <2>1, Window
  <2> QED BY <2>1, <2>2
<1>14. line = verb \o some
  <2>1. /\ SubSeq(raw, indent + 1, m) \in Seq(Symbols) /\ Len(SubSeq(raw, indent + 1, m)) = m - indent
        /\ \A i \in 1..(m - indent) : SubSeq(raw, indent + 1, m)[i] = raw[indent + i]
    <3>1. m \in indent..Len(raw)
      BY <1>1, <1>5, <1>11
    <3> QED BY <1>1, <1>4, <3>1, Window
  <2>2. m - indent = v + k /\ v + k \in Nat
    BY <1>1, <1>5, <1>12
  <2>3. line \in Seq(Symbols) /\ Len(line) = v + k /\ \A i \in 1..(v + k) : line[i] = raw[indent + i]
    BY <2>1, <2>2 DEF f
  <2> HIDE DEF line, some, k
  <2>4. /\ verb \o some \in Seq(Symbols) /\ Len(verb \o some) = v + k
        /\ \A i \in 1..(v + k) : (verb \o some)[i] = IF i <= v THEN verb[i] ELSE some[i - v]
    BY <1>1, <1>13, ConcatProperties DEF v
  <2>5. ASSUME NEW i \in 1..(v + k) PROVE line[i] = (verb \o some)[i]
    <3>1. CASE i <= v
      <4>1. i \in 1..v
        BY <1>1, <3>1
      <4> QED BY <1>6, <2>3, <2>4, <3>1, <4>1
    <3>2. CASE ~ i <= v
      <4>1. i - v \in 1..k /\ i - v \in 1..Len(rest) /\ indent + i = off + (i - v)
        BY <1>1, <1>5, <1>12, <3>2
      <4>2. raw[off + (i - v)] = rest[i - v] /\ some[i - v] = rest[i - v]
        BY <1>6, <1>13, <4>1
      <4>3. line[i] = raw[indent + i] /\ (verb \o some)[i] = some[i - v]
        BY <2>3, <2>4, <3>2
      <4> QED BY <4>1, <4>2, <4>3
    <3> QED BY <3>1, <3>2
  <2> DEFINE w == verb \o some
  <2>6. w \in Seq(Symbols) /\ Len(w) = v + k /\ \A i \in 1..(v + k) : line[i] = w[i]
    BY <2>4, <2>5
  <2> HIDE DEF w
  <2>7. line = w
    BY <2>3, <2>6, SeqEqual
  <2> QED BY <2>7 DEF w
<1>15. some # <<>> => some[1] = "blank"
  <2>1. SUFFICES ASSUME some # <<>> PROVE some[1] = "blank"
    OBVIOUS
  <2>0. rest # <<>> => rest[1] = "blank"
    BY DEF BeginsWith
  <2> HIDE DEF some, k
  <2>2. k # 0 /\ k \in Nat
    BY <1>12, <1>13, <2>1, EmptySeq
  <2>3. 1 \in 1..k /\ Len(rest) # 0
    BY <1>1, <1>12, <2>2
  <2>4. rest # <<>>
    BY <2>3, EmptySeq
  <2> QED BY <1>13, <2>0, <2>3, <2>4
<1> HIDE DEF line, some, k
<1>16. StripCommentAndTrim(raw) = line
  BY <1>10 DEF line
<1>17. /\ line # <<>> /\ line[1] = verb[1]
       /\ SubSeq(line, 1, VerbEnd(line)) = verb
       /\ SubSeq(line, VerbEnd(line) + 1, Len(line)) = some
  <2>1. verb \in Lines /\ verb # <<>> /\ (\A i \in 1..Len(verb) : verb[i] # "blank") /\ some \in Lines
    BY <1>1, <1>13, EmptySeq DEF Lines, v
  <2> QED BY <1>14, <1>15, <2>1, VerbSplit
<1>18. k # 0 => rest[k] # "blank"
  <2>1. SUFFICES ASSUME k # 0 PROVE rest[k] # "blank"
    OBVIOUS
  <2>2. k \in 1..Len(rest)
    BY <1>12, <2>1
  <2> QED BY <1>6, <1>10, <1>12, <2>2 DEF CutAt
<1>19. ASSUME NEW j \in (k + 1)..Len(rest), off + j < c PROVE rest[j] = "blank"
  <2>1. j \in 1..Len(rest) /\ off + j \in (m + 1)..(c - 1)
    BY <1>1, <1>5, <1>9, <1>12, <1>19
  <2> QED BY <1>6, <1>10, <2>1 DEF CutAt
<1>20. some = SubSeq(rest, 1, k)
  BY DEF some
<1>21. ReadAs(raw, verb, rest, off, n, c, k)
  BY <1>9, <1>10, <1>12, <1>16, <1>17, <1>18, <1>19, <1>20 DEF ReadAs, CutAt
<1> QED BY <1>21

-----------------------------------------------------------------------------
(* Lines that can be read. *)

\* What the lexer makes of a line.
LineLexer(raw) ==
  Scanned(Lexer("between", <<>>, <<>>),
          SubSeq(StripCommentAndTrim(raw), VerbEnd(StripCommentAndTrim(raw)) + 1,
                 Len(StripCommentAndTrim(raw))))

LineVerb(raw) == SubSeq(StripCommentAndTrim(raw), 1, VerbEnd(StripCommentAndTrim(raw)))

Regrouped(b, v, a, t) == ((b \o v) \o a) \o t = b \o (v \o (a \o t))

LEMMA ConcatRegrouped ==
  ASSUME NEW S, NEW b \in Seq(S), NEW v \in Seq(S), NEW a \in Seq(S), NEW t \in Seq(S)
  PROVE  Regrouped(b, v, a, t)
<1>1. b \o v \in Seq(S) /\ a \o t \in Seq(S)
  BY ConcatProperties
<1>2. ((b \o v) \o a) \o t = (b \o v) \o (a \o t)
  BY <1>1, ConcatAssociative, SMTT(30)
<1>3. (b \o v) \o (a \o t) = b \o (v \o (a \o t))
  BY <1>1, ConcatAssociative, SMTT(30)
<1> QED BY <1>2, <1>3 DEF Regrouped

LEMMA PrefixOfBoth ==
  ASSUME NEW S, NEW a \in Seq(S), NEW t \in Seq(S), NEW k \in 0..Len(a \o t), k >= Len(a)
  PROVE  /\ k - Len(a) \in 0..Len(t) /\ SubSeq(t, 1, k - Len(a)) \in Seq(S)
         /\ SubSeq(a \o t, 1, k) = a \o SubSeq(t, 1, k - Len(a))
<1> DEFINE n == Len(a)
           m == k - n
           w == a \o t
           p == SubSeq(t, 1, m)
           q == SubSeq(w, 1, k)
<1>1. /\ n \in Nat /\ Len(t) \in Nat /\ w \in Seq(S) /\ Len(w) = n + Len(t)
      /\ \A i \in 1..(n + Len(t)) : w[i] = IF i <= n THEN a[i] ELSE t[i - n]
  BY ConcatProperties, LenProperties
<1>2. m \in 0..Len(t) /\ k \in 0..Len(w) /\ n + m = k
  BY <1>1
<1>3. p \in Seq(S) /\ Len(p) = m /\ \A i \in 1..m : p[i] = t[i]
  <2>1. /\ SubSeq(t, 0 + 1, m) \in Seq(S) /\ Len(SubSeq(t, 0 + 1, m)) = m - 0
        /\ \A i \in 1..(m - 0) : SubSeq(t, 0 + 1, m)[i] = t[0 + i]
    BY <1>2, Window
  <2> QED BY <1>2, <2>1
<1>4. q \in Seq(S) /\ Len(q) = k /\ \A i \in 1..k : q[i] = w[i]
  <2>1. /\ SubSeq(w, 0 + 1, k) \in Seq(S) /\ Len(SubSeq(w, 0 + 1, k)) = k - 0
        /\ \A i \in 1..(k - 0) : SubSeq(w, 0 + 1, k)[i] = w[0 + i]
    <3>1. w \in Seq(S) /\ k \in 0..Len(w) /\ 0 \in Nat
      BY <1>1, <1>2
    <3> HIDE DEF w
    <3> QED BY <3>1, Window
  <2> QED BY <1>2, <2>1
<1> HIDE DEF p, q, w
<1>5. /\ a \o p \in Seq(S) /\ Len(a \o p) = n + m
      /\ \A i \in 1..(n + m) : (a \o p)[i] = IF i <= n THEN a[i] ELSE p[i - n]
  BY <1>3, ConcatProperties
<1>6. ASSUME NEW i \in 1..k PROVE q[i] = (a \o p)[i]
  <2>1. CASE i <= n
    BY <1>1, <1>2, <1>4, <1>5, <2>1
  <2>2. CASE ~ i <= n
    <3>1. i - n \in 1..m
      BY <1>1, <1>2, <2>2
    <3> QED BY <1>1, <1>2, <1>3, <1>4, <1>5, <2>2, <3>1, SMTT(30)
  <2> QED BY <2>1, <2>2
<1> DEFINE x == a \o p
<1>7. x \in Seq(S) /\ Len(x) = k /\ \A i \in 1..k : q[i] = x[i]
  BY <1>2, <1>5, <1>6
<1> HIDE DEF x
<1>8. q = x
  BY <1>4, <1>7, SeqEqual
<1> QED BY <1>2, <1>3, <1>8 DEF p, q, w, x

\* Behind the arguments nothing more is read.
LEMMA TailScanned ==
  ASSUME NEW tail \in Lines, IsTail(tail), NEW m \in 0..Len(tail), NEW args, NEW l,
         l = Lexer("between", <<>>, args)
  PROVE  Scanned(l, SubSeq(tail, 1, m)) \in {l, Lexer("comment", <<>>, args)}
<1> DEFINE o(i) == Scanned(l, SubSeq(tail, 1, i))
           G == {i \in 0..Len(tail) : \/ o(i) = l /\ \A j \in 1..i : tail[j] = "blank"
                                      \/ o(i) = Lexer("comment", <<>>, args)}
<1>0. tail \in Seq(Symbols) /\ Len(tail) \in Nat /\ DOMAIN tail = 1..Len(tail)
  BY LenProperties DEF Lines
<1>1. 0 \in G
  <2>1. SubSeq(tail, 1, 0) = <<>>
    BY <1>0, WholePrefix
  <2>2. o(0) = l
    BY <2>1, ScannedNothing
  <2> HIDE DEF o
  <2> QED BY <1>0, <2>2
<1>2. ASSUME NEW i \in 1..Len(tail), i - 1 \in G PROVE i \in G
  <2>1. /\ SubSeq(tail, 1, i - 1) \in Seq(Symbols) /\ tail[i] \in Symbols
        /\ SubSeq(tail, 1, i) = Append(SubSeq(tail, 1, i - 1), tail[i])
    <3>1. i - 1 \in Nat /\ (i - 1) + 1 = i /\ i <= Len(tail)
      BY <1>0
    <3> QED BY <1>0, <3>1, PrefixByOne
  <2>2. o(i) = Scan(o(i - 1), tail[i])
    <3> DEFINE p == SubSeq(tail, 1, i - 1)
               x == tail[i]
    <3>1. p \in Seq(Symbols) /\ x \in Symbols /\ SubSeq(tail, 1, i) = Append(p, x)
      BY <2>1
    <3> HIDE DEF p, x
    <3>2. Scanned(l, Append(p, x)) = Scan(Scanned(l, p), x)
      BY <3>1, ScannedMore
    <3> QED BY <3>1, <3>2 DEF p, x
  <2>3. CASE o(i - 1) = Lexer("comment", <<>>, args)
    <3> DEFINE d == o(i - 1)
    <3>1. d = Lexer("comment", <<>>, args)
      BY <2>3
    <3> HIDE DEF d
    <3>2. OtherSteps(d, "comment", <<>>, args, tail[i])
      BY <3>1, ScanOther, Zenon
    <3>3. Scan(d, tail[i]) = d
      BY <3>2 DEF OtherSteps
    <3> QED BY <2>2, <3>1, <3>3 DEF d
  <2>4. CASE o(i - 1) = l /\ \A j \in 1..(i - 1) : tail[j] = "blank"
    <3>0. BetweenSteps(l, args, tail[i])
      BY ScanBetween, Zenon
    <3>1. CASE tail[i] = "blank"
      <4>1. o(i) = l
        BY <2>2, <2>4, <3>0, <3>1 DEF BetweenSteps
      <4>2. \A j \in 1..i : tail[j] = "blank"
        BY <1>0, <2>4, <3>1
      <4> QED BY <1>0, <4>1, <4>2
    <3>2. CASE tail[i] # "blank"
      <4>1. PICK j \in 1..i : tail[j] = "#"
        BY <1>0, <3>2 DEF IsTail
      <4>2. j = i
        BY <1>0, <2>4, <4>1
      <4>3. o(i) = Lexer("comment", <<>>, args)
        BY <2>2, <2>4, <3>0, <4>1, <4>2 DEF BetweenSteps
      <4> QED BY <1>0, <4>3
    <3> QED BY <3>1, <3>2
  <2> HIDE DEF o
  <2> QED BY <1>2, <2>3, <2>4
<1>3. \A i \in 0..Len(tail) : i \in G
  <2> HIDE DEF G
  <2> QED BY <1>0, <1>1, <1>2, BoundedInduction
<1>4. m \in G
  BY <1>3
<1> QED BY <1>4, Zenon

IsOpening(form) ==
  /\ form.indent \in Nat
  /\ form.verb \in Seq(Symbols \ {"blank"}) /\ form.verb # <<>> /\ form.verb[1] \in Words
  /\ IsArguments(form.args)

\* A line that opens like a form and goes on with something.
LEMMA OpeningLaidOut ==
  ASSUME NEW form, IsOpening(form), NEW more \in Lines, NEW off, off = form.indent + Len(form.verb)
  PROVE  /\ Opening(form) \in Lines /\ Opening(form) \o more \in Lines
         /\ ArgumentsOf(form) \in Lines /\ ArgumentsOf(form) \o more \in Lines
         /\ Opening(form) \o more = Blanks(form.indent) \o (form.verb \o (ArgumentsOf(form) \o more))
         /\ off \in Nat /\ Len(Opening(form)) = off + Len(ArgumentsOf(form))
         /\ Len(Opening(form) \o more) = Len(Opening(form)) + Len(more)
<1> DEFINE b == Blanks(form.indent)
           v == form.verb
           a == ArgumentsOf(form)
<1>1. b \in Seq(Symbols) /\ Len(b) = form.indent /\ form.indent \in Nat
  BY BlanksAreBlank DEF IsOpening, Lines
<1>2. v \in Seq(Symbols)
  <2>1. v \in Seq(Symbols \ {"blank"})
    BY DEF IsOpening
  <2> QED BY <2>1, SeqMonotonic
<1>3. a \in Seq(Symbols)
  <2>1. IsArguments(form.args)
    BY DEF IsOpening
  <2> QED BY <2>1, ArgumentsScanned DEF Lines
<1>4. more \in Seq(Symbols)
  BY DEF Lines
<1>5. Opening(form) = (b \o v) \o a
  BY DEF Opening
<1>6. off = form.indent + Len(v)
  BY DEF v
<1> HIDE DEF b, v, a
<1>7. Regrouped(b, v, a, more)
  BY <1>1, <1>2, <1>3, <1>4, ConcatRegrouped
<1>8. /\ b \o v \in Seq(Symbols) /\ Len(b \o v) = Len(b) + Len(v)
      /\ Len(b) \in Nat /\ Len(v) \in Nat /\ Len(a) \in Nat
  BY <1>1, <1>2, <1>3, ConcatProperties, LenProperties
<1> DEFINE bv == b \o v
<1>9. bv \in Seq(Symbols)
  BY <1>8
<1>10. /\ bv \o a \in Seq(Symbols) /\ Len(bv \o a) = Len(bv) + Len(a)
       /\ a \o more \in Seq(Symbols)
  <2> HIDE DEF bv
  <2> QED BY <1>3, <1>4, <1>9, ConcatProperties
<1> DEFINE o == bv \o a
<1>11. o \in Seq(Symbols)
  BY <1>10
<1>12. o \o more \in Seq(Symbols) /\ Len(o \o more) = Len(o) + Len(more)
  <2> HIDE DEF o
  <2> QED BY <1>4, <1>11, ConcatProperties
<1>13. Opening(form) = o
  BY <1>5
<1>14. o \o more = b \o (v \o (a \o more))
  BY <1>7 DEF Regrouped
<1>15. Len(bv) = Len(b) + Len(v) /\ Len(o) = Len(bv) + Len(a)
  BY <1>8, <1>10
<1> HIDE DEF o, bv
<1>16. off \in Nat /\ Len(o) = off + Len(a)
  BY <1>1, <1>6, <1>8, <1>15
<1> QED BY <1>3, <1>10, <1>11, <1>12, <1>13, <1>14, <1>16 DEF Lines, a, b, v

\* A statement that can be read.
ReadsAs(raw, form) ==
  /\ raw \in Lines
  /\ StripCommentAndTrim(raw) # <<>> /\ StripCommentAndTrim(raw)[1] \in Words
  /\ LineVerb(raw) = form.verb
  /\ LineLexer(raw).mode \in {"between", "comment"}
  /\ LineLexer(raw).args = LexedAll(form.args)

LEMMA FormOpens ==
  ASSUME NEW form, IsForm(form)
  PROVE  /\ IsOpening(form) /\ form.tail \in Lines /\ IsTail(form.tail)
         /\ form.args = <<>> /\ form.tail # <<>> => form.tail[1] = "blank"
  BY DEF IsForm, IsOpening, IsArguments, Adjoin

\* What follows the verb begins with a blank.
LEMMA RestIsApart ==
  ASSUME NEW form, IsOpening(form), NEW more \in Lines,
         form.args = <<>> /\ more # <<>> => more[1] = "blank"
  PROVE  ArgumentsOf(form) \o more # <<>> => (ArgumentsOf(form) \o more)[1] = "blank"
<1> DEFINE a == ArgumentsOf(form)
<1>1. /\ a \in Seq(Symbols)
      /\ form.args = <<>> => a = <<>>
      /\ form.args # <<>> => a # <<>> /\ a[1] = "blank"
  <2>1. IsArguments(form.args)
    BY DEF IsOpening
  <2> QED BY <2>1, ArgumentsScanned DEF Lines
<1>2. more \in Seq(Symbols)
  BY DEF Lines
<1> HIDE DEF a
<1>3. CASE form.args = <<>>
  <2>1. a = <<>>
    BY <1>1, <1>3
  <2>2. a \o more = more
    BY <1>2, <2>1, ConcatEmptySeq
  <2> QED BY <1>3, <2>2 DEF a
<1>4. CASE form.args # <<>>
  <2>1. Len(a) \in Nat \ {0} /\ Len(more) \in Nat
    BY <1>1, <1>2, <1>4, EmptySeq, LenProperties
  <2>2. (a \o more)[1] = a[1]
    BY <1>1, <1>2, <2>1, ConcatProperties
  <2> QED BY <1>1, <1>4, <2>2 DEF a
<1> QED BY <1>3, <1>4

LEMMA OpeningRead ==
  ASSUME NEW form, IsOpening(form), NEW more \in Lines,
         form.args = <<>> /\ more # <<>> => more[1] = "blank",
         NEW raw, raw = Opening(form) \o more, CommentFree(raw, Len(Opening(form))),
         NEW off, off = form.indent + Len(form.verb), NEW rest, rest = ArgumentsOf(form) \o more
  PROVE  \E c, k : /\ ReadAs(raw, form.verb, rest, off, Len(Opening(form)), c, k)
                   /\ Len(ArgumentsOf(form)) <= k
<1> DEFINE a == ArgumentsOf(form)
           n == Len(Opening(form))
<1>1. /\ raw \in Lines /\ a \in Lines /\ rest \in Lines
      /\ raw = Blanks(form.indent) \o (form.verb \o rest)
      /\ off \in Nat /\ n = off + Len(a) /\ Len(raw) = n + Len(more)
  BY OpeningLaidOut
<1>2. Len(a) \in Nat /\ Len(more) \in Nat
  BY <1>1, LenProperties DEF Lines
<1>3. n \in off..Len(raw)
  BY <1>1, <1>2
<1>4. rest # <<>> => rest[1] = "blank"
  BY RestIsApart
<1>5. BeginsWith(raw, form.indent, form.verb, rest, off)
  BY <1>1, <1>4 DEF BeginsWith, IsOpening
<1>6. CommentFree(raw, n)
  OBVIOUS
<1>7. PICK c, k : ReadAs(raw, form.verb, rest, off, n, c, k)
  <2> HIDE DEF n
  <2> QED BY <1>3, <1>5, <1>6, LineRead
<1>8. Len(a) <= k
  <2>1. SUFFICES ASSUME ~ Len(a) <= k PROVE FALSE
    OBVIOUS
  <2>2. k \in 0..Len(rest) /\ c \in (n + 1)..(Len(raw) + 1)
        /\ \A j \in (k + 1)..Len(rest) : off + j < c => rest[j] = "blank"
    BY <1>7 DEF ReadAs
  <2>3. Len(rest) = Len(a) + Len(more) /\ \A i \in 1..Len(a) : rest[i] = a[i]
    <3>1. a \in Seq(Symbols) /\ more \in Seq(Symbols) /\ rest = a \o more
      BY <1>1 DEF Lines
    <3> HIDE DEF a
    <3> QED BY <1>2, <3>1, ConcatProperties
  <2>4. Len(a) \in (k + 1)..Len(rest) /\ Len(a) \in 1..Len(a) /\ off + Len(a) < c
    <3> HIDE DEF a, n
    <3>1. /\ off \in Nat /\ n = off + Len(a) /\ Len(raw) = n + Len(more) /\ Len(a) \in Nat /\ Len(more) \in Nat
          /\ Len(rest) = Len(a) + Len(more) /\ ~ Len(a) <= k
      BY <1>1, <1>2, <2>1, <2>3
    <3>2. k \in 0..Len(rest) /\ c \in (n + 1)..(Len(raw) + 1)
      BY <2>2
    <3> QED BY ONLY <3>1, <3>2
  <2>5. a[Len(a)] = "blank"
    <3> HIDE DEF a
    <3> QED BY <2>2, <2>3, <2>4
  <2>6. form.args # <<>> => a[Len(a)] # "blank"
    BY ArgumentsScanned DEF IsOpening
  <2>7. form.args = <<>> => a = <<>>
    BY ArgumentsScanned DEF IsOpening
  <2>8. a # <<>>
    <3> HIDE DEF a
    <3> QED BY <2>4, EmptySeq
  <2> QED BY <2>5, <2>6, <2>7, <2>8
<1> QED BY <1>7, <1>8

\* One behind the other, by their places.
Glued(S, s, t, w) ==
  /\ w \in Seq(S) /\ Len(w) = Len(s) + Len(t)
  /\ \A i \in 1..Len(s) : w[i] = s[i]
  /\ \A i \in 1..Len(t) : w[Len(s) + i] = t[i]

LEMMA ConcatGlues ==
  ASSUME NEW S, NEW s \in Seq(S), NEW t \in Seq(S)
  PROVE  Glued(S, s, t, s \o t)
<1> DEFINE w == s \o t
<1>1. Len(s) \in Nat /\ Len(t) \in Nat
  BY LenProperties
<1>2. /\ w \in Seq(S) /\ Len(w) = Len(s) + Len(t)
      /\ \A i \in 1..(Len(s) + Len(t)) : w[i] = IF i <= Len(s) THEN s[i] ELSE t[i - Len(s)]
  BY ConcatProperties
<1> HIDE DEF w
<1>3. ASSUME NEW i \in 1..Len(s) PROVE w[i] = s[i]
  BY <1>1, <1>2
<1>4. ASSUME NEW i \in 1..Len(t) PROVE w[Len(s) + i] = t[i]
  <2>1. Len(s) + i \in 1..(Len(s) + Len(t)) /\ ~ Len(s) + i <= Len(s) /\ (Len(s) + i) - Len(s) = i
    BY <1>1
  <2> QED BY <1>2, <2>1
<1> QED BY <1>2, <1>3, <1>4 DEF Glued, w

\* Where the verb ends nothing has been taken for a comment.
LEMMA VerbIsFree ==
  ASSUME NEW raw, NEW indent, NEW verb, NEW rest, NEW off, BeginsWith(raw, indent, verb, rest, off)
  PROVE  CommentFree(raw, off) /\ off \in Nat /\ off <= Len(raw)
<1> DEFINE b  == Blanks(indent)
           vr == verb \o rest
<1>1. verb \in Seq(Symbols \ {"blank"}) /\ verb # <<>> /\ verb[1] \in Words /\ rest \in Seq(Symbols)
  BY DEF BeginsWith, Lines
<1>2. /\ verb \in Seq(Symbols) /\ Len(verb) \in Nat \ {0}
      /\ \A i \in 1..Len(verb) : verb[i] # "blank"
      /\ verb[1] # "#"
  <2>1. verb \in Seq(Symbols)
    BY <1>1, SeqMonotonic
  <2>2. \A i \in 1..Len(verb) : verb[i] # "blank"
    BY <1>1, ElementOfSeq
  <2>3. verb[1] # "#"
    BY <1>1, SignsAreSymbols DEF Signs
  <2> QED BY <1>1, <2>1, <2>2, <2>3, EmptySeq
<1>3. b \in Seq(Symbols) /\ Len(b) = indent /\ indent \in Nat /\ \A i \in 1..indent : b[i] = "blank"
  BY BlanksAreBlank DEF Lines, BeginsWith
<1>4. raw = b \o vr /\ off = indent + Len(verb)
  BY DEF BeginsWith
<1> HIDE DEF b
<1>5. Glued(Symbols, verb, rest, vr)
  BY <1>1, <1>2, ConcatGlues
<1> HIDE DEF vr
<1>6. Glued(Symbols, b, vr, raw)
  <2>1. vr \in Seq(Symbols)
    BY <1>5 DEF Glued
  <2> QED BY <1>3, <1>4, <2>1, ConcatGlues
<1>7. Len(rest) \in Nat
  BY <1>1, LenProperties
<1>8. /\ Len(vr) = Len(verb) + Len(rest) /\ \A i \in 1..Len(verb) : vr[i] = verb[i]
      /\ Len(raw) = indent + Len(vr)
      /\ \A i \in 1..indent : raw[i] = b[i]
      /\ \A i \in 1..Len(vr) : raw[indent + i] = vr[i]
  BY <1>3, <1>5, <1>6 DEF Glued
<1>9. ASSUME NEW i \in 2..off, raw[i] = "#", raw[i - 1] = "blank" PROVE FALSE
  <2>1. CASE i <= indent
    <3>1. i \in 1..indent
      BY <1>3, <2>1
    <3> QED BY <1>3, <1>8, <1>9, <3>1
  <2>2. CASE i = indent + 1
    <3>1. 1 \in 1..Len(verb) /\ 1 \in 1..Len(vr)
      BY <1>2, <1>7, <1>8
    <3>2. raw[indent + 1] = verb[1]
      BY <1>8, <3>1
    <3> QED BY <1>2, <1>9, <2>2, <3>2
  <2>3. CASE i > indent + 1
    <3>1. /\ (i - 1) - indent \in 1..Len(verb) /\ (i - 1) - indent \in 1..Len(vr)
          /\ indent + ((i - 1) - indent) = i - 1
      BY <1>2, <1>3, <1>4, <1>7, <1>8, <2>3
    <3>2. raw[indent + ((i - 1) - indent)] = verb[(i - 1) - indent]
      BY <1>8, <3>1
    <3> QED BY <1>2, <1>9, <3>1, <3>2
  <2> QED BY <1>2, <1>3, <1>4, <2>1, <2>2, <2>3
<1>10. CommentFree(raw, off)
  BY <1>9 DEF CommentFree, TakenForComment
<1> QED BY <1>2, <1>3, <1>4, <1>7, <1>8, <1>10

\* Between the arguments blanks change nothing, in a comment nothing does.
LEMMA ScanQuiet ==
  ASSUME NEW j, IsLexer(j), NEW y
  PROVE  /\ j.mode = "comment" => Scan(j, y) = j
         /\ j.mode = "between" /\ y = "blank" => Scan(j, y) = j
         /\ j.mode = "between" /\ y = "#" => Scan(j, y).mode = "comment"
<1>1. PICK m \in Modes, t \in Contents, args \in Seq(Tokens) : j = Lexer(m, t, args)
  BY DEF IsLexer
<1>0. j.mode = m
  BY <1>1 DEF Lexer
<1>2. OtherSteps(j, m, t, args, y)
  BY <1>1, ScanOther, Zenon
<1>3. ASSUME m = "between" PROVE BetweenSteps(j, args, y)
  BY <1>1, <1>3, ScanBetween, Zenon
<1>4. Lexer("comment", <<>>, args).mode = "comment"
  BY DEF Lexer
<1> QED BY <1>0, <1>2, <1>3, <1>4 DEF OtherSteps, BetweenSteps

\* A hash among the arguments that is taken for a comment is inside one that is
\* not over there: what is left of the line ends in the middle of it.
LEMMA CutInside ==
  ASSUME NEW form, IsOpening(form), NEW more \in Lines,
         form.args = <<>> /\ more # <<>> => more[1] = "blank",
         NEW raw, raw = Opening(form) \o more, ~ CommentFree(raw, Len(Opening(form)))
  PROVE  StripCommentAndTrim(raw) # <<>> /\ LineLexer(raw).mode \notin {"between", "comment"}
<1> DEFINE a    == ArgumentsOf(form)
           n    == Len(Opening(form))
           rest == a \o more
           off  == form.indent + Len(form.verb)
           L0   == Lexer("between", <<>>, <<>>)
           o(i) == Scanned(L0, SubSeq(a, 1, i))
<1>1. /\ raw \in Lines /\ a \in Lines /\ rest \in Lines
      /\ raw = Blanks(form.indent) \o (form.verb \o rest)
      /\ off \in Nat /\ n = off + Len(a) /\ Len(raw) = n + Len(more)
  BY OpeningLaidOut
<1>2. Len(a) \in Nat /\ Len(more) \in Nat /\ a \in Seq(Symbols) /\ more \in Seq(Symbols)
  BY <1>1, LenProperties DEF Lines
<1>3. BeginsWith(raw, form.indent, form.verb, rest, off)
  <2>1. rest # <<>> => rest[1] = "blank"
    BY RestIsApart
  <2> QED BY <1>1, <2>1 DEF BeginsWith, IsOpening
<1> HIDE DEF n, off, rest, a
<1>4. CommentFree(raw, off) /\ off \in Nat /\ off \in off..Len(raw)
  BY <1>1, <1>2, <1>3, VerbIsFree
<1>5. PICK c, k : ReadAs(raw, form.verb, rest, off, off, c, k)
  BY <1>3, <1>4, LineRead
<1>6. /\ StripCommentAndTrim(raw) # <<>> /\ LineLexer(raw) = Scanned(L0, SubSeq(rest, 1, k))
      /\ c \in (off + 1)..(Len(raw) + 1) /\ k \in 0..Len(rest) /\ off + k < c
      /\ c <= Len(raw) => raw[c] = "#"
      /\ \A i \in (off + 1)..(c - 1) : ~ TakenForComment(raw, i)
      /\ \A j \in (k + 1)..Len(rest) : off + j < c => rest[j] = "blank"
  BY <1>5 DEF ReadAs, LineLexer, TakenForComment
<1> DEFINE d == c - off
<1>7. c <= n
  <2>1. PICK i \in 2..n : TakenForComment(raw, i)
    BY DEF CommentFree, n
  <2>2. ~ i \in 2..off
    BY <1>4, <2>1 DEF CommentFree
  <2>3. ~ i \in (off + 1)..(c - 1)
    BY <1>6, <2>1
  <2>4. n \in Nat /\ off \in Nat /\ c \in Nat
    BY <1>1, <1>2, <1>4, <1>6
  <2> QED BY <2>2, <2>3, <2>4
<1>8. Glued(Symbols, a, more, rest) /\ Len(rest) \in Nat
  <2>1. Glued(Symbols, a, more, rest)
    BY <1>2, ConcatGlues DEF rest
  <2> QED BY <1>2, <2>1 DEF Glued
<1>9. /\ d \in 1..Len(a) /\ off + d = c /\ k \in Nat /\ k < d /\ k \in 0..Len(a)
      /\ c <= Len(raw)
  BY <1>1, <1>2, <1>4, <1>6, <1>7
<1> HIDE DEF d
<1>10. /\ \A i \in 1..Len(a) : rest[i] = a[i]
       /\ Len(rest) = Len(a) + Len(more)
  BY <1>8 DEF Glued
<1>11. a[d] = "#"
  <2>1. raw[c] = rest[d]
    <3> DEFINE b == Blanks(form.indent)
               vr == form.verb \o rest
    <3>1. form.verb \in Seq(Symbols) /\ rest \in Seq(Symbols)
      <4>1. form.verb \in Seq(Symbols \ {"blank"})
        BY DEF IsOpening
      <4> QED BY <1>1, <4>1, SeqMonotonic DEF Lines
    <3>2. b \in Seq(Symbols) /\ Len(b) = form.indent /\ form.indent \in Nat
      BY BlanksAreBlank DEF IsOpening, Lines
    <3> HIDE DEF b
    <3>3. Glued(Symbols, form.verb, rest, vr)
      BY <3>1, ConcatGlues
    <3> HIDE DEF vr
    <3>4. Glued(Symbols, b, vr, raw)
      <4>1. raw = b \o vr
        BY <1>1 DEF b, vr
      <4>2. vr \in Seq(Symbols)
        BY <3>3 DEF Glued
      <4> QED BY <3>2, <4>1, <4>2, ConcatGlues
    <3>5. Len(form.verb) \in Nat /\ off = form.indent + Len(form.verb) /\ Len(rest) \in Nat
      BY <3>1, LenProperties DEF off
    <3>6. /\ d \in 1..Len(rest) /\ Len(form.verb) + d \in 1..Len(vr)
          /\ form.indent + (Len(form.verb) + d) = c
      <4> DEFINE v == Len(form.verb)
                 t == form.indent
      <4>1. Len(vr) = v + Len(rest)
        BY <3>3 DEF Glued
      <4>2. v \in Nat /\ t \in Nat /\ off = t + v /\ Len(rest) \in Nat
        BY <3>2, <3>5
      <4> HIDE DEF v, t
      <4>3. d \in 1..Len(a) /\ off + d = c /\ Len(a) \in Nat /\ Len(more) \in Nat /\ Len(rest) = Len(a) + Len(more)
        BY <1>2, <1>9, <1>10
      <4>4. d \in 1..Len(rest) /\ v + d \in 1..Len(vr) /\ t + (v + d) = c
        BY ONLY <4>1, <4>2, <4>3
      <4> QED BY <4>4 DEF v, t
    <3>7. vr[Len(form.verb) + d] = rest[d]
      BY <3>3, <3>6 DEF Glued
    <3>8. raw[form.indent + (Len(form.verb) + d)] = vr[Len(form.verb) + d]
      BY <3>2, <3>4, <3>6 DEF Glued
    <3> QED BY <3>6, <3>7, <3>8
  <2> QED BY <1>6, <1>9, <1>10, <2>1
<1>12. ASSUME NEW j \in (k + 1)..(d - 1) PROVE a[j] = "blank"
  <2>1. j \in 1..Len(a) /\ j \in (k + 1)..Len(rest) /\ off + j < c
    BY <1>2, <1>4, <1>9, <1>10
  <2> QED BY <1>6, <1>10, <2>1
<1>13. /\ Scanned(L0, a) = Lexer("between", <<>>, LexedAll(form.args))
       /\ o(Len(a)) = Scanned(L0, a)
  BY <1>2, ArgumentsScanned, WholePrefix DEF IsOpening, a
<1>14. LineLexer(raw) = o(k)
  <2>1. SubSeq(rest, 1, k) = SubSeq(a, 1, k)
    <3>1. CASE k = 0
      BY <1>2, <1>8, <3>1, WholePrefix DEF Glued
    <3>2. CASE k # 0
      <4>1. k \in 1..Len(a) /\ 1 \in 1..Len(a)
        BY <1>2, <1>9, <3>2
      <4> QED BY <1>2, <4>1, SubSeqOfConcat1 DEF rest
    <3> QED BY <3>1, <3>2
  <2> QED BY <1>6, <2>1
<1>15. SUFFICES ASSUME LineLexer(raw).mode \in {"between", "comment"} PROVE FALSE
  BY <1>6
<1> DEFINE Read(i) == /\ i >= k => o(i).mode \in {"between", "comment"}
                      /\ i >= d => o(i).mode = "comment"
           G == {i \in 0..Len(a) : Read(i)}
<1>16. 0 \in G
  <2>1. 0 >= k => k = 0
    BY <1>9
  <2>2. 0 >= k => o(0).mode \in {"between", "comment"}
    <3> HIDE DEF o
    <3> QED BY <1>14, <1>15, <2>1
  <2>3. ~ 0 >= d
    BY <1>9
  <2> HIDE DEF o
  <2> QED BY <1>2, <2>2, <2>3
<1>17. ASSUME NEW i \in 1..Len(a), i - 1 \in G PROVE i \in G
  <2>1. o(i) = Scan(o(i - 1), a[i])
    <3> DEFINE p == SubSeq(a, 1, i - 1)
               x == a[i]
    <3>1. i - 1 \in Nat /\ (i - 1) + 1 = i /\ i <= Len(a)
      BY <1>2
    <3>2. p \in Seq(Symbols) /\ x \in Symbols /\ SubSeq(a, 1, i) = Append(p, x)
      BY <1>2, <3>1, PrefixByOne
    <3> HIDE DEF p, x
    <3>3. Scanned(L0, Append(p, x)) = Scan(Scanned(L0, p), x)
      BY <3>2, ScannedMore
    <3> QED BY <3>2, <3>3 DEF p, x
  <2> DEFINE l == o(i - 1)
             x == a[i]
  <2>2. Read(i - 1)
    BY <1>17
  <2>3. /\ l.mode = "comment" => Scan(l, x) = l
        /\ l.mode = "between" /\ x = "blank" => Scan(l, x) = l
        /\ l.mode = "between" /\ x = "#" => Scan(l, x).mode = "comment"
    <3> DEFINE p == SubSeq(a, 1, i - 1)
    <3>1. p \in Lines
      <4>1. i - 1 \in Nat /\ (i - 1) + 1 = i /\ i <= Len(a)
        BY <1>2
      <4> QED BY <1>2, <4>1, PrefixByOne DEF Lines
    <3>2. IsLexer(L0)
      <4>1. "between" \in Modes /\ <<>> \in Contents /\ <<>> \in Seq(Tokens)
        BY EmptySeq DEF Modes, Contents
      <4> QED BY <4>1, LexerParts
    <3>3. IsLexer(l)
      <4>1. l = Scanned(L0, p)
        OBVIOUS
      <4> HIDE DEF p, L0, l
      <4>2. Follows(L0, Scanned(L0, p))
        BY <3>1, <3>2, ScannedFollows
      <4> QED BY <4>1, <4>2 DEF Follows
    <3> HIDE DEF l, x
    <3> QED BY <3>3, ScanQuiet
  <2>6. i < k \/ i = k \/ (i > k /\ i < d) \/ i = d \/ i > d
    BY <1>9
  <2>7. i = k => o(i).mode \in {"between", "comment"}
    <3> HIDE DEF o
    <3> QED BY <1>14, <1>15
  <2> HIDE DEF l, o
  <2>8. o(i) = Scan(l, x)
    BY <2>1 DEF l
  <2>9. i > k => l.mode \in {"between", "comment"}
    BY <1>9, <2>2 DEF l
  <2>10. i > d => l.mode = "comment"
    BY <1>9, <2>2 DEF l
  <2>11. i > k /\ i < d => x = "blank"
    BY <1>9, <1>12
  <2>12. Read(i)
    <3>1. CASE i < k
      BY <1>9, <3>1
    <3>2. CASE i = k
      BY <1>9, <2>7, <3>2
    <3>3. CASE i > k /\ i < d
      <4>1. Scan(l, x) = l
        BY <2>3, <2>9, <2>11, <3>3
      <4> QED BY <1>9, <2>8, <2>9, <3>3, <4>1
    <3>4. CASE i = d
      <4>1. x = "#" /\ i > k
        BY <1>9, <1>11, <3>4
      <4>2. Scan(l, x).mode = "comment"
        BY <2>3, <2>9, <4>1
      <4> QED BY <2>8, <4>2
    <3>5. CASE i > d
      <4>1. Scan(l, x).mode = "comment"
        BY <2>3, <2>10, <3>5
      <4> QED BY <2>8, <4>1
    <3> QED BY <2>6, <3>1, <3>2, <3>3, <3>4, <3>5
  <2> HIDE DEF Read
  <2> QED BY <2>12
<1>18. Len(a) \in G
  <2> HIDE DEF G
  <2>1. \A i \in 0..Len(a) : i \in G
    BY <1>2, <1>16, <1>17, BoundedInduction
  <2> QED BY <1>2, <2>1
<1>19. o(Len(a)).mode = "comment"
  <2> HIDE DEF o
  <2>1. Read(Len(a)) /\ Len(a) >= d
    BY <1>2, <1>9, <1>18
  <2> QED BY <2>1
<1>20. Lexer("between", <<>>, LexedAll(form.args)).mode = "between"
  BY DEF Lexer
<1> HIDE DEF o
<1> QED BY <1>13, <1>19, <1>20

LEMMA FormRead ==
  ASSUME NEW form, IsForm(form), CommentFree(LineOf(form), Len(Opening(form)))
  PROVE  ReadsAs(LineOf(form), form)
<1> DEFINE raw  == LineOf(form)
           off  == form.indent + Len(form.verb)
           a    == ArgumentsOf(form)
           rest == a \o form.tail
<1>1. /\ IsOpening(form) /\ form.tail \in Lines /\ IsTail(form.tail)
      /\ form.args = <<>> /\ form.tail # <<>> => form.tail[1] = "blank"
      /\ CommentFree(raw, Len(Opening(form)))
  BY FormOpens
<1>2. raw = Opening(form) \o form.tail
  BY DEF LineOf
<1>3. PICK c, k : ReadAs(raw, form.verb, rest, off, Len(Opening(form)), c, k) /\ Len(a) <= k
  <2> HIDE DEF raw, off
  <2> QED BY <1>1, <1>2, OpeningRead DEF off
<1>4. raw \in Lines
  BY <1>1, <1>2, OpeningLaidOut
<1>5. /\ IsArguments(form.args) /\ a \in Seq(Symbols) /\ form.tail \in Seq(Symbols)
      /\ Scanned(Lexer("between", <<>>, <<>>), a) = Lexer("between", <<>>, LexedAll(form.args))
  <2>1. IsArguments(form.args)
    BY <1>1 DEF IsOpening
  <2> QED BY <1>1, <2>1, ArgumentsScanned DEF Lines
<1> DEFINE l == Lexer("between", <<>>, LexedAll(form.args))
           m == k - Len(a)
           t == SubSeq(form.tail, 1, m)
<1>6. /\ StripCommentAndTrim(raw) # <<>> /\ StripCommentAndTrim(raw)[1] = form.verb[1]
      /\ LineVerb(raw) = form.verb
      /\ LineLexer(raw) = Scanned(Lexer("between", <<>>, <<>>), SubSeq(rest, 1, k))
      /\ k \in 0..Len(rest)
  BY <1>3 DEF ReadAs, LineVerb, LineLexer
<1>7. m \in 0..Len(form.tail) /\ t \in Seq(Symbols) /\ SubSeq(rest, 1, k) = a \o t
  <2> HIDE DEF a
  <2> QED BY <1>3, <1>5, <1>6, PrefixOfBoth
<1>8. Scanned(Lexer("between", <<>>, <<>>), a \o t) = Scanned(l, t)
  <2> HIDE DEF a, t
  <2> QED BY <1>5, <1>7, ScannedBoth
<1>9. Scanned(l, t) \in {l, Lexer("comment", <<>>, LexedAll(form.args))}
  <2> HIDE DEF m, l
  <2> QED BY <1>1, <1>7, TailScanned DEF l
<1>10. /\ LineLexer(raw).mode \in {"between", "comment"}
       /\ LineLexer(raw).args = LexedAll(form.args)
  <2> DEFINE all == LexedAll(form.args)
  <2>1. LineLexer(raw) \in {Lexer("between", <<>>, all), Lexer("comment", <<>>, all)}
    BY <1>6, <1>7, <1>8, <1>9
  <2> HIDE DEF all
  <2>2. /\ Lexer("between", <<>>, all).mode = "between" /\ Lexer("between", <<>>, all).args = all
        /\ Lexer("comment", <<>>, all).mode = "comment" /\ Lexer("comment", <<>>, all).args = all
    BY DEF Lexer
  <2>3. LineLexer(raw).mode \in {"between", "comment"} /\ LineLexer(raw).args = all
    BY <2>1, <2>2
  <2> QED BY <2>3 DEF all
<1>11. form.verb[1] \in Words
  BY <1>1 DEF IsOpening
<1> HIDE DEF raw
<1>12. ReadsAs(raw, form)
  BY <1>4, <1>6, <1>10, <1>11 DEF ReadsAs
<1> QED BY <1>12 DEF raw

-----------------------------------------------------------------------------
(* Lines that say nothing, or begin with no verb. *)

LEMMA OnlyOfNone ==
  ASSUME NEW M, NEW s \in Seq(M), NEW S, \A i \in 1..Len(s) : s[i] \notin S
  PROVE  Only(s, S) = <<>>
<1> DEFINE G == {n \in Nat : n <= Len(s) => Only(SubSeq(s, 1, n), S) = <<>>}
<1>1. 0 \in G
  BY WholePrefix, OnlyOfNothing
<1>2. ASSUME NEW n \in Nat, n \in G
      PROVE  n + 1 \in G
  <2>1. SUFFICES ASSUME n + 1 <= Len(s)
                 PROVE  Only(SubSeq(s, 1, n + 1), S) = <<>>
    OBVIOUS
  <2> DEFINE p == SubSeq(s, 1, n)
             x == s[n + 1]
  <2>2. Only(p, S) = <<>> /\ x \notin S
    BY <1>2, <2>1, WholePrefix
  <2>3. p \in Seq(M) /\ x \in M /\ SubSeq(s, 1, n + 1) = Append(p, x)
    BY <2>1, PrefixByOne
  <2> HIDE DEF p, x
  <2>4. Only(Append(p, x), S) = Only(p, S)
    BY <2>2, <2>3, OnlyOfMore
  <2> QED BY <2>2, <2>3, <2>4
<1>3. \A n \in Nat : n \in G
  <2> HIDE DEF G
  <2> QED BY <1>1, <1>2, SetInduction
<1>4. Len(s) \in Nat /\ Len(s) <= Len(s)
  BY WholePrefix
<1>5. Len(s) \in G
  <2> HIDE DEF G
  <2> QED BY <1>3, <1>4
<1>6. Only(SubSeq(s, 1, Len(s)), S) = <<>>
  BY <1>4, <1>5
<1> QED BY <1>6, WholePrefix

LEMMA FirstInk ==
  ASSUME NEW raw \in Lines, NEW i \in 1..Len(raw), raw[i] # "blank"
  PROVE  \E f \in 1..i : raw[f] # "blank" /\ \A j \in 1..(f - 1) : raw[j] = "blank"
<1> DEFINE S == {j \in 1..i : raw[j] # "blank"}
           f == FirstOf(S)
<1>0. i \in Nat
  BY LenProperties DEF Lines
<1>1. S \in SUBSET Nat /\ S # {}
  BY <1>0
<1> HIDE DEF S
<1>2. f \in S /\ \A j \in S : f <= j
  BY <1>1, FirstIsFirst
<1> HIDE DEF f
<1>3. f \in 1..i /\ raw[f] # "blank"
  BY <1>2 DEF S
<1>4. ASSUME NEW j \in 1..(f - 1) PROVE raw[j] = "blank"
  <2>1. j \in 1..i /\ ~ f <= j
    BY <1>0, <1>3
  <2> QED BY <1>2, <2>1 DEF S
<1> QED BY <1>3, <1>4

LEMMA CommentAfterBlanks ==
  ASSUME NEW raw \in Lines, NEW i \in 1..Len(raw), raw[i] = "#", \A j \in 1..(i - 1) : raw[j] = "blank"
  PROVE  StartsComment(raw, i)
<1> DEFINE p == SubSeq(raw, 1, i - 1)
<1>0. raw \in Seq(Symbols) /\ Len(raw) \in Nat /\ i \in Nat
  BY LenProperties DEF Lines
<1>1. p \in Seq(Symbols) /\ Len(p) = i - 1 /\ \A j \in 1..(i - 1) : p[j] = raw[j]
  <2>1. 0 \in Nat /\ i - 1 \in 0..Len(raw)
    BY <1>0
  <2>2. /\ SubSeq(raw, 0 + 1, i - 1) \in Seq(Symbols) /\ Len(SubSeq(raw, 0 + 1, i - 1)) = (i - 1) - 0
        /\ \A j \in 1..((i - 1) - 0) : SubSeq(raw, 0 + 1, i - 1)[j] = raw[0 + j]
    BY <1>0, <2>1, Window
  <2> QED BY <1>0, <2>2
<1> HIDE DEF p
<1>2. \A j \in 1..Len(p) : p[j] \notin {"quote"}
  BY <1>1
<1>3. Only(p, {"quote"}) = <<>>
  BY <1>1, <1>2, OnlyOfNone
<1>4. Len(Only(p, {"quote"})) % 2 = 0
  BY <1>3, EmptySeq
<1>5. i = 1 \/ raw[i - 1] = "blank"
  BY <1>0
<1> QED BY <1>4, <1>5 DEF StartsComment, p

\* A line of blanks and a comment is skipped.
LEMMA NothingRead ==
  ASSUME NEW raw \in Lines, IsTail(raw)
  PROVE  StripCommentAndTrim(raw) = <<>>
<1> DEFINE hashes == {i \in DOMAIN raw : StartsComment(raw, i)}
           s      == IF hashes = {} THEN raw ELSE SubSeq(raw, 1, FirstOf(hashes) - 1)
<1>0. raw \in Seq(Symbols) /\ Len(raw) \in Nat /\ DOMAIN raw = 1..Len(raw)
  BY LenProperties DEF Lines
<1>1. hashes \in SUBSET Nat
  BY <1>0
<1>2. StripCommentAndTrim(raw) = Trim(s)
  BY DEF StripCommentAndTrim
<1>3. ASSUME NEW i \in 1..Len(raw), raw[i] # "blank"
      PROVE  \E h \in hashes : h <= i
  <2>1. PICK f \in 1..i : raw[f] # "blank" /\ \A j \in 1..(f - 1) : raw[j] = "blank"
    BY <1>3, FirstInk
  <2>2. f \in 1..Len(raw) /\ f <= i
    BY <1>0, <2>1
  <2>3. PICK j \in 1..f : raw[j] = "#"
    BY <1>0, <2>1, <2>2 DEF IsTail
  <2>4. j = f
    BY <1>0, <2>1, <2>3
  <2>5. StartsComment(raw, f)
    BY <2>1, <2>2, <2>3, <2>4, CommentAfterBlanks
  <2> QED BY <1>0, <2>2, <2>5
<1>4. Inked(s) = {}
  <2>1. CASE hashes = {}
    <3>1. s = raw
      BY <2>1
    <3> HIDE DEF s, hashes
    <3> QED BY <1>0, <1>3, <2>1, <3>1 DEF Inked
  <2>2. CASE hashes # {}
    <3> DEFINE h == FirstOf(hashes)
    <3>1. h \in hashes /\ \A j \in hashes : h <= j
      <4> HIDE DEF hashes
      <4> QED BY <1>1, <2>2, FirstIsFirst
    <3>2. s = SubSeq(raw, 1, h - 1)
      BY <2>2
    <3>3. h \in 1..Len(raw)
      BY <1>0, <3>1
    <3> HIDE DEF s, h, hashes
    <3>4. 0 \in Nat /\ h - 1 \in 0..Len(raw) /\ h - 1 \in Nat
      BY <1>0, <3>3
    <3> DEFINE g == h - 1
    <3>5. /\ SubSeq(raw, 0 + 1, g) \in Seq(Symbols) /\ Len(SubSeq(raw, 0 + 1, g)) = g - 0
          /\ \A j \in 1..(g - 0) : SubSeq(raw, 0 + 1, g)[j] = raw[0 + j]
      <4> HIDE DEF g
      <4> QED BY <1>0, <3>4, Window DEF g
    <3>6. s \in Seq(Symbols) /\ Len(s) = g /\ \A j \in 1..g : s[j] = raw[j]
      BY <3>2, <3>4, <3>5
    <3>7. DOMAIN s = 1..g
      BY <3>6, LenProperties
    <3>8. ASSUME NEW i \in 1..g PROVE s[i] = "blank"
      <4>1. i \in 1..Len(raw) /\ ~ h <= i
        BY <1>0, <3>3
      <4>2. raw[i] = "blank"
        <5>1. SUFFICES ASSUME raw[i] # "blank" PROVE FALSE
          OBVIOUS
        <5>2. PICK e \in hashes : e <= i
          BY <1>3, <4>1, <5>1
        <5>3. h <= e /\ e \in Nat
          BY <1>1, <3>1
        <5> QED BY <3>3, <4>1, <5>2, <5>3
      <4> QED BY <3>6, <4>2
    <3> HIDE DEF g
    <3> QED BY <3>7, <3>8 DEF Inked
  <2> QED BY <2>1, <2>2
<1> HIDE DEF s
<1> QED BY <1>2, <1>4 DEF Trim

LEMMA NoVerbRead ==
  ASSUME NEW raw \in Lines, NoVerb(raw)
  PROVE  StripCommentAndTrim(raw) # <<>> /\ StripCommentAndTrim(raw)[1] \notin Words
<1>0. raw \in Seq(Symbols) /\ Len(raw) \in Nat /\ DOMAIN raw = 1..Len(raw)
  BY LenProperties DEF Lines
<1>1. PICK f \in 1..Len(raw) : /\ raw[f] \notin Words \cup {"blank", "#"}
                               /\ \A j \in 1..(f - 1) : raw[j] = "blank"
  BY <1>0 DEF NoVerb
<1>2. CommentFree(raw, f)
  <2>1. ASSUME NEW i \in 2..f PROVE raw[i] # "#"
    <3>1. i = f \/ i \in 1..(f - 1)
      BY <1>0, <1>1
    <3> QED BY <1>1, <3>1
  <2> QED BY <2>1 DEF CommentFree, TakenForComment
<1>3. f \in Nat \ {0} /\ f \in Nat /\ f <= f /\ f <= Len(raw) /\ raw[f] \notin {"blank", "#"}
  BY <1>0, <1>1
<1>4. PICK c \in (f + 1)..(Len(raw) + 1) : \E m \in f..(c - 1) :
        CutAt(raw, f, c, m) /\ StripCommentAndTrim(raw) = SubSeq(raw, f, m)
  BY <1>1, <1>2, <1>3, Stripped
<1>5. PICK m \in f..(c - 1) : StripCommentAndTrim(raw) = SubSeq(raw, f, m)
  BY <1>4
<1>6. f \in 1..Len(raw) /\ m \in f..Len(raw)
  BY <1>0, <1>4, <1>5
<1> DEFINE t == SubSeq(raw, f, m)
<1>7. t \in Seq(Symbols) /\ Len(t) = m - f + 1 /\ \A i \in 1..(m - f + 1) : t[i] = raw[f + i - 1]
  <2>1. f \in Int /\ m \in Int /\ f <= m /\ \A i \in f..m : raw[i] \in Symbols
    BY <1>0, <1>6, ElementOfSeq
  <2> QED BY <2>1, SubSeqProperties
<1>8. t # <<>> /\ t[1] = raw[f]
  <2> HIDE DEF t
  <2>1. m - f + 1 \in Nat \ {0} /\ 1 \in 1..(m - f + 1) /\ f + 1 - 1 = f
    BY <1>0, <1>6
  <2> QED BY <1>7, <2>1, EmptySeq
<1> QED BY <1>1, <1>5, <1>8

-----------------------------------------------------------------------------
(* Lines whose arguments are broken off, or begin as none does. *)

LEMMA Starting ==
  ASSUME NEW q \in Symbols, NEW inner \in Lines, NEW behind \in Lines, NEW l
  PROVE  /\ (<<q>> \o inner) \o behind \in Lines /\ (<<q>> \o inner) \o behind # <<>>
         /\ ((<<q>> \o inner) \o behind)[1] = q
         /\ Scanned(l, (<<q>> \o inner) \o behind) = Scanned(Scanned(Scan(l, q), inner), behind)
<1> DEFINE h == <<q>>
           t == h \o inner
           w == t \o behind
<1>1. h \in Seq(Symbols) /\ Len(h) = 1 /\ h[1] = q
  BY Singles
<1>2. inner \in Seq(Symbols) /\ behind \in Seq(Symbols) /\ Len(inner) \in Nat /\ Len(behind) \in Nat
  BY LenProperties DEF Lines
<1>3. Scanned(l, h) = Scan(l, q)
  BY ScannedFew DEF FewSteps
<1> HIDE DEF h
<1>4. t \in Seq(Symbols) /\ Len(t) = 1 + Len(inner) /\ t[1] = q
  <2>1. /\ t \in Seq(Symbols) /\ Len(t) = Len(h) + Len(inner)
        /\ \A i \in 1..(Len(h) + Len(inner)) : t[i] = IF i <= Len(h) THEN h[i] ELSE inner[i - Len(h)]
    BY <1>1, <1>2, ConcatProperties
  <2>2. 1 \in 1..(Len(h) + Len(inner)) /\ 1 <= Len(h)
    BY <1>1, <1>2
  <2> HIDE DEF t
  <2> QED BY <1>1, <2>1, <2>2
<1>5. Scanned(l, t) = Scanned(Scan(l, q), inner)
  BY <1>1, <1>2, <1>3, ScannedBoth
<1> HIDE DEF t
<1>6. w \in Seq(Symbols) /\ Len(w) = Len(t) + Len(behind) /\ w[1] = q
  <2>1. /\ w \in Seq(Symbols) /\ Len(w) = Len(t) + Len(behind)
        /\ \A i \in 1..(Len(t) + Len(behind)) : w[i] = IF i <= Len(t) THEN t[i] ELSE behind[i - Len(t)]
    BY <1>2, <1>4, ConcatProperties, ZenonT(60)
  <2>2. 1 \in 1..(Len(t) + Len(behind)) /\ 1 <= Len(t)
    BY <1>2, <1>4
  <2> HIDE DEF w
  <2> QED BY <1>4, <2>1, <2>2
<1>7. Scanned(l, w) = Scanned(Scanned(Scan(l, q), inner), behind)
  BY <1>2, <1>4, <1>5, ScannedBoth
<1> HIDE DEF w
<1>8. w # <<>>
  BY <1>2, <1>4, <1>6, EmptySeq
<1> QED BY <1>6, <1>7, <1>8 DEF w, t, h, Lines

\* The lexer is inside of an argument from its first symbol on.
Opened(l, b, args) ==
  /\ b \in Lines /\ b # <<>> /\ b[1] \notin {"blank", "#"}
  /\ IsLexer(Scan(l, b[1])) /\ Scan(l, b[1]).mode \in Unfinished /\ Scan(l, b[1]).args = args
  /\ Scanned(l, b).args = args

Stuck(open, l, args) ==
  \A s : Impossible(open, s) => Scan(l, s) = Lexer("error", <<>>, args)

LEMMA BegunHeredoc ==
  ASSUME NEW open, open.kind = "heredoc", NEW args \in Seq(Tokens), NEW l, l = Lexer("between", <<>>, args)
  PROVE  Opened(l, Begun(open), args) /\ Stuck(open, Scanned(l, Begun(open)), args)
<1> DEFINE m == Lexer("marker", <<>>, args)
           b == <<"<<">>
<1>1. b = Begun(open)
  BY DEF Begun
<1>2. b \in Lines /\ b # <<>> /\ b[1] = "<<"
  <2>1. "<<" \in Symbols
    BY SignsAreSymbols
  <2> QED BY <2>1, Singles, EmptySeq DEF Lines
<1>3. BetweenSteps(l, args, "<<")
  BY ScanBetween, Zenon
<1>4. Scan(l, "<<") = m
  BY <1>3 DEF BetweenSteps
<1>5. IsLexer(m) /\ m.mode = "marker" /\ m.args = args
  <2>1. <<>> \in Contents
    BY EmptySeq DEF Contents
  <2>2. "marker" \in Modes
    BY DEF Modes, Unfinished
  <2> QED BY <2>1, <2>2, LexerParts
<1>6. Scanned(l, b) = m
  BY <1>4, ScannedFew DEF FewSteps
<1> HIDE DEF b, m
<1>7. Opened(l, b, args)
  BY <1>2, <1>4, <1>5, <1>6 DEF Opened, Unfinished
<1>8. ASSUME NEW s, Impossible(open, s) PROVE Scan(m, s) = Lexer("error", <<>>, args)
  <2>1. s \notin Words
    BY <1>8 DEF Impossible
  <2>2. OtherSteps(m, "marker", <<>>, args, s)
    BY ScanOther, Zenon DEF m
  <2> QED BY <2>1, <2>2 DEF OtherSteps
<1> QED BY <1>1, <1>6, <1>7, <1>8 DEF Stuck

LEMMA BegunString ==
  ASSUME NEW open, open.kind = "string", open.text \in Contents, open.escaping \in BOOLEAN,
         NEW args \in Seq(Tokens), NEW l, l = Lexer("between", <<>>, args)
  PROVE  Opened(l, Begun(open), args) /\ Stuck(open, Scanned(l, Begun(open)), args)
<1> DEFINE text   == open.text
           inner  == Spelling(text)
           behind == IF open.escaping THEN <<"backslash">> ELSE <<>>
           b      == (<<"quote">> \o inner) \o behind
           first  == Lexer("string", <<>>, args)
           s1     == Lexer("string", text, args)
           s2     == Lexer("escape", text \o <<>>, args)
<1>1. b = Begun(open)
  BY DEF Begun
<1>2. inner \in Lines /\ Scanned(first, inner) = s1
  BY StringScanned
<1>3. behind \in Lines
  <2>1. "backslash" \in Symbols
    BY SignsAreSymbols
  <2> QED BY <2>1, Singles, EmptySeq DEF Lines
<1>4. BetweenSteps(l, args, "quote")
  BY ScanBetween, Zenon
<1>5. Scan(l, "quote") = first
  BY <1>4 DEF BetweenSteps
<1>6. /\ IsLexer(first) /\ first.mode = "string" /\ first.args = args
      /\ IsLexer(s1) /\ s1.mode = "string" /\ s1.args = args
      /\ IsLexer(s2) /\ s2.mode = "escape" /\ s2.args = args
  <2>1. <<>> \in Contents /\ text \in Contents /\ text \o <<>> \in Contents
    BY TextsGrow
  <2>2. "string" \in Modes /\ "escape" \in Modes
    BY DEF Modes, Unfinished
  <2> QED BY <2>1, <2>2, LexerParts
<1>7. Scan(s1, "backslash") = s2
  <2>1. StringSteps(s1, text, args, "backslash")
    BY ScanString, Zenon
  <2> QED BY <2>1 DEF StringSteps
<1>8. Scanned(s1, behind) = IF open.escaping THEN s2 ELSE s1
  <2>1. Scanned(s1, <<"backslash">>) = Scan(s1, "backslash")
    BY ScannedFew DEF FewSteps
  <2>2. Scanned(s1, <<>>) = s1
    BY ScannedNothing
  <2> QED BY <1>7, <2>1, <2>2
<1>9. "quote" \in Symbols
  BY SignsAreSymbols
<1> HIDE DEF inner, behind, first, s1, s2, text
<1>10. /\ b \in Lines /\ b # <<>> /\ b[1] = "quote"
       /\ Scanned(l, b) = Scanned(Scanned(Scan(l, "quote"), inner), behind)
  BY <1>2, <1>3, <1>9, Starting
<1> HIDE DEF b
<1>11. Scanned(l, b) = IF open.escaping THEN s2 ELSE s1
  BY <1>2, <1>5, <1>8, <1>10
<1>12. Opened(l, b, args)
  BY <1>5, <1>6, <1>10, <1>11 DEF Opened, Unfinished
<1>13. ASSUME NEW s, Impossible(open, s) PROVE Scan(Scanned(l, b), s) = Lexer("error", <<>>, args)
  <2>1. open.escaping /\ s \notin {Escape[e] : e \in DOMAIN Escape}
    BY <1>13 DEF Impossible
  <2>2. {"quote", "backslash", "n"} \subseteq {Escape[e] : e \in DOMAIN Escape}
    BY DEF Escape
  <2>3. s \notin {"quote", "backslash", "n"}
    BY <2>1, <2>2
  <2>4. EscapeSteps(s2, text \o <<>>, args, s)
    BY ScanEscape, Zenon DEF s2
  <2> QED BY <1>11, <2>1, <2>3, <2>4 DEF EscapeSteps
<1> QED BY <1>1, <1>12, <1>13 DEF Stuck

LEMMA BegunRegex ==
  ASSUME NEW open, open.kind = "regex", open.units \in Seq(RegexUnits), open.escaping \in BOOLEAN,
         NEW args \in Seq(Tokens), NEW l, l = Lexer("between", <<>>, args)
  PROVE  Opened(l, Begun(open), args) /\ Stuck(open, Scanned(l, Begun(open)), args)
<1> DEFINE text   == Concat(open.units, Len(open.units))
           behind == IF open.escaping THEN <<"backslash">> ELSE <<>>
           b      == (<<"/">> \o text) \o behind
           first  == Lexer("regex", <<>>, args)
           s1     == Lexer("regex", text, args)
           s2     == Lexer("regexEscape", text \o <<"backslash">>, args)
<1>1. b = Begun(open)
  BY DEF Begun
<1>2. text \in Lines /\ text \in Contents /\ Scanned(first, text) = s1
  BY RegexScanned
<1>0. "backslash" \in Symbols /\ "/" \in Symbols
  BY SignsAreSymbols
<1>3. behind \in Lines
  BY <1>0, Singles, EmptySeq DEF Lines
<1>4. BetweenSteps(l, args, "/")
  BY ScanBetween, Zenon
<1>5. Scan(l, "/") = first
  BY <1>4 DEF BetweenSteps
<1> HIDE DEF text
<1>6. /\ IsLexer(first) /\ first.mode = "regex" /\ first.args = args
      /\ IsLexer(s1) /\ s1.mode = "regex" /\ s1.args = args
      /\ IsLexer(s2) /\ s2.mode = "regexEscape" /\ s2.args = args
  <2>1. <<>> \in Contents /\ text \in Contents /\ text \o <<"backslash">> \in Contents
    BY <1>0, <1>2, TextsGrow
  <2>2. "regex" \in Modes /\ "regexEscape" \in Modes
    BY DEF Modes, Unfinished
  <2> QED BY <2>1, <2>2, LexerParts
<1>7. Scan(s1, "backslash") = s2
  <2>1. RegexSteps(s1, text, args, "backslash")
    BY ScanRegex, Zenon
  <2> QED BY <2>1 DEF RegexSteps
<1>8. Scanned(s1, behind) = IF open.escaping THEN s2 ELSE s1
  <2>1. Scanned(s1, <<"backslash">>) = Scan(s1, "backslash")
    BY ScannedFew DEF FewSteps
  <2>2. Scanned(s1, <<>>) = s1
    BY ScannedNothing
  <2> QED BY <1>7, <2>1, <2>2
<1> HIDE DEF behind, first, s1, s2
<1>10. /\ b \in Lines /\ b # <<>> /\ b[1] = "/"
       /\ Scanned(l, b) = Scanned(Scanned(Scan(l, "/"), text), behind)
  BY <1>0, <1>2, <1>3, Starting
<1> HIDE DEF b
<1>11. Scanned(l, b) = IF open.escaping THEN s2 ELSE s1
  BY <1>2, <1>5, <1>8, <1>10
<1>12. Opened(l, b, args)
  BY <1>5, <1>6, <1>10, <1>11 DEF Opened, Unfinished
<1>13. \A s : ~ Impossible(open, s)
  BY DEF Impossible
<1> QED BY <1>1, <1>12, <1>13 DEF Stuck

LEMMA BegunScanned ==
  ASSUME NEW open, IsBegun(open), open.kind # "none", NEW args \in Seq(Tokens),
         NEW l, l = Lexer("between", <<>>, args)
  PROVE  Opened(l, Begun(open), args) /\ Stuck(open, Scanned(l, Begun(open)), args)
<1>1. \/ open.kind = "heredoc"
      \/ open.kind = "string" /\ open.text \in Contents /\ open.escaping \in BOOLEAN
      \/ open.kind = "regex" /\ open.units \in Seq(RegexUnits) /\ open.escaping \in BOOLEAN
  BY DEF IsBegun
<1> QED BY <1>1, BegunHeredoc, BegunString, BegunRegex, Zenon

LEMMA OpenedPrefix ==
  ASSUME NEW l, NEW b, NEW args, Opened(l, b, args), NEW m \in 1..Len(b)
  PROVE  Scanned(l, SubSeq(b, 1, m)).mode \in Unfinished
<1> DEFINE q == b[1]
           u == Scan(l, q)
           p == SubSeq(b, 2, m)
           r == SubSeq(b, m + 1, Len(b))
           h == <<q>>
<1>1. b \in Seq(Symbols) /\ Len(b) \in Nat /\ m \in Nat /\ 1 \in 1..Len(b) /\ m \in 1..Len(b)
  <2>1. b \in Seq(Symbols)
    BY DEF Opened, Lines
  <2> QED BY <2>1, LenProperties
<1>2. q \in Symbols
  BY <1>1, ElementOfSeq
<1>3. p \in Seq(Symbols) /\ r \in Seq(Symbols)
  <2>1. \A i \in 1..Len(b) : b[i] \in Symbols
    BY <1>1, ElementOfSeq
  <2>2. (\A i \in 2..m : b[i] \in Symbols) /\ (\A i \in (m + 1)..Len(b) : b[i] \in Symbols)
    BY <1>1, <2>1
  <2>3. 2 \in Int /\ m \in Int /\ m + 1 \in Int /\ Len(b) \in Int
    BY <1>1
  <2> QED BY <2>2, <2>3, SubSeqProperties
<1>4. SubSeq(b, 1, m) = h \o p
  <2>1. m \in 1..Len(b) /\ 1 \in 1..Len(b)
    BY <1>1
  <2>2. SubSeq(b, 1, m) = <<b[1]>> \o SubSeq(b, 1 + 1, m)
    BY <1>1, <2>1, SubSeqRecursiveFirst
  <2> QED BY <2>2
<1>5. b = h \o SubSeq(b, 2, Len(b))
  <2>1. Len(b) \in 1..Len(b) /\ 1 \in 1..Len(b)
    BY <1>1
  <2>2. SubSeq(b, 1, Len(b)) = <<b[1]>> \o SubSeq(b, 1 + 1, Len(b))
    BY <1>1, <2>1, SubSeqRecursiveFirst
  <2>3. SubSeq(b, 1, Len(b)) = b
    BY <1>1, SubSeqFull
  <2> QED BY <2>2, <2>3
<1>6. SubSeq(b, 2, Len(b)) = p \o r
  <2>1. 2 \in 1..(Len(b) + 1) /\ m \in (2 - 1)..Len(b) /\ Len(b) \in m..Len(b)
    BY <1>1
  <2> QED BY <1>1, <2>1, ConcatAdjacentSubSeq
<1>7. h \in Seq(Symbols) /\ p \o r \in Seq(Symbols)
  <2>1. h \in Seq(Symbols)
    BY <1>2, Singles
  <2> HIDE DEF p, r, h
  <2> QED BY <1>3, <2>1, ConcatProperties
<1>8. Scanned(l, h) = u
  BY ScannedFew DEF FewSteps
<1>9. b = h \o (p \o r)
  <2> HIDE DEF p, r, h
  <2> QED BY <1>5, <1>6
<1>10. IsLexer(u) /\ u.mode \in Unfinished /\ u.args = args /\ Scanned(l, b).args = args
  BY DEF Opened
<1> HIDE DEF p, r, h, u, q
<1> DEFINE pr == p \o r
<1>11. Scanned(l, h \o pr) = Scanned(u, pr)
  <2>1. pr \in Seq(Symbols)
    BY <1>7
  <2> HIDE DEF pr
  <2> QED BY <1>7, <1>8, <2>1, ScannedBoth
<1>12. Scanned(u, p \o r).args = u.args
  BY <1>9, <1>10, <1>11
<1>13. Scanned(u, p).mode \in Unfinished
  <2>1. p \in Lines /\ r \in Lines
    BY <1>3 DEF Lines
  <2> QED BY <1>10, <1>12, <2>1, StillOpen
<1>14. Scanned(l, h \o p) = Scanned(u, p)
  BY <1>3, <1>7, <1>8, ScannedBoth
<1> QED BY <1>4, <1>13, <1>14

LEMMA ErrorStays ==
  ASSUME NEW args, NEW l, l = Lexer("error", <<>>, args), NEW text \in Lines
  PROVE  Scanned(l, text) = l
<1>1. Len(text) \in Nat
  BY LenProperties DEF Lines
<1>2. PICK g : Scanning(l, text, Len(text), g) /\ Scanned(l, text) = g[Len(text)]
  BY <1>1, ScannedScans
<1> DEFINE S == {l}
<1>3. g[0] \in S
  BY <1>1, <1>2 DEF Scanning
<1>4. ASSUME NEW i \in 1..Len(text), g[i - 1] \in S PROVE g[i] \in S
  <2>1. g[i] = Scan(g[i - 1], text[i])
    BY <1>1, <1>2 DEF Scanning
  <2>2. OtherSteps(l, "error", <<>>, args, text[i])
    BY ScanOther, Zenon
  <2> QED BY <1>4, <2>1, <2>2 DEF OtherSteps
<1>5. \A i \in 0..Len(text) : g[i] \in S
  <2> HIDE DEF S
  <2> QED BY <1>1, <1>3, <1>4, StepsStay
<1> QED BY <1>1, <1>2, <1>5

LEMMA FirstSymbol ==
  ASSUME NEW l, NEW s \in Lines, NEW m \in 1..Len(s)
  PROVE  /\ SubSeq(s, 2, m) \in Lines
         /\ Scanned(l, SubSeq(s, 1, m)) = Scanned(Scan(l, s[1]), SubSeq(s, 2, m))
<1> DEFINE q == s[1]
           h == <<q>>
           p == SubSeq(s, 2, m)
<1>1. s \in Seq(Symbols) /\ Len(s) \in Nat /\ m \in Nat /\ 1 \in 1..Len(s) /\ m \in 1..Len(s)
  BY LenProperties DEF Lines
<1>2. q \in Symbols
  BY <1>1, ElementOfSeq
<1>3. p \in Seq(Symbols)
  <2>1. \A i \in 2..m : s[i] \in Symbols
    BY <1>1, ElementOfSeq
  <2> QED BY <1>1, <2>1, SubSeqProperties
<1>4. SubSeq(s, 1, m) = h \o p
  <2>1. SubSeq(s, 1, m) = <<s[1]>> \o SubSeq(s, 1 + 1, m)
    BY <1>1, SubSeqRecursiveFirst
  <2> QED BY <2>1
<1>5. h \in Seq(Symbols)
  BY <1>2, Singles
<1>6. Scanned(l, h) = Scan(l, q)
  BY ScannedFew DEF FewSteps
<1> HIDE DEF h, p, q
<1>7. Scanned(l, h \o p) = Scanned(Scan(l, q), p)
  BY <1>3, <1>5, <1>6, ScannedBoth
<1> QED BY <1>3, <1>4, <1>7 DEF p, q, Lines

\* The symbols of a broken argument and what follows it.
LEMMA BrokenBegins ==
  ASSUME NEW open, IsBegun(open), NEW more \in Lines,
         open.kind # "none" \/ (more # <<>> /\ Impossible(open, more[1]))
  PROVE  /\ Begun(open) \in Lines /\ Begun(open) \o more \in Lines
         /\ Begun(open) \o more # <<>> /\ (Begun(open) \o more)[1] \notin {"blank", "#"}
         /\ open.kind = "none" => Begun(open) = <<>>
         /\ open.kind # "none" => Len(Begun(open)) \in Nat \ {0}
<1> DEFINE b == Begun(open)
<1>0. more \in Seq(Symbols) /\ Len(more) \in Nat
  BY LenProperties DEF Lines
<1>1. CASE open.kind = "none"
  <2>1. b = <<>>
    BY <1>1 DEF Begun
  <2>2. b \in Seq(Symbols)
    BY <2>1, EmptySeq
  <2>3. <<>> \o more = more
    BY <1>0, ConcatEmptySeq
  <2>4. b \o more = more
    BY <2>1, <2>3
  <2>5. more # <<>> /\ more[1] \notin {"blank", "#"}
    BY <1>1 DEF Impossible
  <2> HIDE DEF b
  <2> QED BY <1>0, <1>1, <2>1, <2>2, <2>4, <2>5 DEF Lines, b
<1>2. CASE open.kind # "none"
  <2> DEFINE l == Lexer("between", <<>>, <<>>)
  <2>1. <<>> \in Seq(Tokens)
    BY EmptySeq
  <2>2. Opened(l, b, <<>>)
    BY <1>2, <2>1, BegunScanned
  <2>3. b \in Seq(Symbols) /\ b # <<>> /\ b[1] \notin {"blank", "#"}
    BY <2>2 DEF Opened, Lines
  <2> HIDE DEF b
  <2>4. Len(b) \in Nat \ {0}
    BY <2>3, EmptySeq
  <2>5. /\ b \o more \in Seq(Symbols) /\ Len(b \o more) = Len(b) + Len(more)
        /\ \A i \in 1..(Len(b) + Len(more)) : (b \o more)[i] = IF i <= Len(b) THEN b[i] ELSE more[i - Len(b)]
    BY <1>0, <2>3, ConcatProperties
  <2>6. 1 \in 1..(Len(b) + Len(more)) /\ 1 <= Len(b)
    BY <1>0, <2>4
  <2>7. (b \o more)[1] = b[1]
    BY <2>5, <2>6
  <2>8. Len(b \o more) # 0
    BY <1>0, <2>4, <2>5
  <2>9. b \o more # <<>>
    BY <2>8, EmptySeq
  <2> QED BY <1>2, <2>3, <2>4, <2>5, <2>7, <2>9 DEF Lines, b
<1> QED BY <1>1, <1>2

LEMMA BrokenInside ==
  ASSUME NEW open, IsBegun(open), NEW more \in Lines, NEW args \in Seq(Tokens),
         NEW l, l = Lexer("between", <<>>, args),
         open.kind # "none" \/ (more # <<>> /\ Impossible(open, more[1])),
         NEW m \in 1..Len(Begun(open) \o more),
         m > Len(Begun(open)) => more # <<>> /\ Impossible(open, more[1])
  PROVE  Scanned(l, SubSeq(Begun(open) \o more, 1, m)).mode \in Unfinished
<1> DEFINE b == Begun(open)
<1>1. /\ b \in Seq(Symbols) /\ b \o more \in Seq(Symbols)
      /\ open.kind = "none" => b = <<>>
      /\ open.kind # "none" => Opened(l, b, args) /\ Stuck(open, Scanned(l, b), args)
  BY BrokenBegins, BegunScanned DEF Lines
<1>2. more \in Seq(Symbols) /\ Len(more) \in Nat
  BY LenProperties DEF Lines
<1>3. Len(b) \in Nat
  <2> HIDE DEF b
  <2> QED BY <1>1, LenProperties
<1>4. m \in Nat /\ m # 0 /\ m \in 0..Len(b \o more) /\ Len(b \o more) = Len(b) + Len(more)
  <2>1. Len(b \o more) = Len(b) + Len(more)
    <3> HIDE DEF b
    <3> QED BY <1>1, <1>2, ConcatProperties
  <2> QED BY <1>2, <1>3, <2>1
<1>5. CASE m <= Len(b)
  <2>1. m \in 1..Len(b) /\ 1 \in 1..Len(b)
    BY <1>3, <1>4, <1>5
  <2>2. open.kind # "none"
    <3> HIDE DEF b
    <3> QED BY <1>1, <2>1, EmptySeq
  <2>3. SubSeq(b \o more, 1, m) = SubSeq(b, 1, m)
    <3> HIDE DEF b
    <3> QED BY <1>1, <1>2, <2>1, SubSeqOfConcat1
  <2>4. Scanned(l, SubSeq(b, 1, m)).mode \in Unfinished
    <3> HIDE DEF b
    <3> QED BY <1>1, <2>1, <2>2, OpenedPrefix
  <2> QED BY <2>3, <2>4
<1>6. CASE m > Len(b)
  <2> DEFINE w == b \o more
             j == m - Len(b)
             p == SubSeq(more, 1, j)
             u == Scanned(l, b)
             e == Lexer("error", <<>>, args)
  <2>0. more # <<>> /\ Impossible(open, more[1])
    BY <1>6
  <2>1. w \in Seq(Symbols) /\ m \in 0..Len(w) /\ m >= Len(b)
    <3> HIDE DEF b
    <3> QED BY <1>1, <1>2, <1>3, <1>4, <1>6
  <2>2. j \in 0..Len(more) /\ p \in Seq(Symbols) /\ SubSeq(w, 1, m) = b \o p
    <3> HIDE DEF b
    <3> QED BY <1>1, <1>2, <2>1, PrefixOfBoth
  <2>3. j \in 1..Len(more)
    <3> HIDE DEF b
    <3> QED BY <1>2, <1>3, <1>4, <1>6, <2>2
  <2>4. Scanned(l, b \o p) = Scanned(u, p)
    <3> HIDE DEF b, p
    <3> QED BY <1>1, <2>2, ScannedBoth
  <2>5. Scanned(u, p) = Scanned(Scan(u, more[1]), SubSeq(more, 2, j)) /\ SubSeq(more, 2, j) \in Lines
    <3> HIDE DEF u, j
    <3> QED BY <2>3, FirstSymbol DEF Lines
  <2>6. Scan(u, more[1]) = e
    <3>1. CASE open.kind = "none"
      <4>1. u = l
        BY <1>1, <3>1, ScannedNothing
      <4>2. BetweenSteps(l, args, more[1])
        BY ScanBetween, Zenon
      <4>3. more[1] \notin ({"blank", "#", "quote", "/", "<<"} \cup Words \cup Numbers \cup Durations)
        BY <2>0, <3>1 DEF Impossible
      <4> HIDE DEF u
      <4> QED BY <4>1, <4>2, <4>3 DEF BetweenSteps
    <3>2. CASE open.kind # "none"
      <4>1. Stuck(open, u, args)
        BY <1>1, <3>2
      <4> HIDE DEF u
      <4> QED BY <2>0, <4>1 DEF Stuck
    <3> QED BY <3>1, <3>2
  <2>7. Scanned(e, SubSeq(more, 2, j)) = e
    <3> HIDE DEF j
    <3> QED BY <2>5, ErrorStays
  <2>8. e.mode \in Unfinished
    BY DEF Lexer, Unfinished
  <2>9. Scanned(l, b \o p).mode \in Unfinished
    <3> HIDE DEF b, u, e, p, j
    <3> QED BY <2>4, <2>5, <2>6, <2>7, <2>8
  <2>10. SubSeq(b \o more, 1, m) = b \o p
    BY <2>2
  <2> QED BY <2>9, <2>10
<1>7. m <= Len(b) \/ m > Len(b)
  BY <1>3, <1>4
<1> QED BY <1>5, <1>6, <1>7

\* How a broken line is laid out.
BrokenParts(broken, raw, more, n) ==
  /\ raw \in Lines /\ more \in Lines
  /\ raw = Opening(broken.form) \o (Blanks(broken.gap) \o more)
  /\ n = Len(Opening(broken.form)) /\ n \in Nat
  /\ Len(raw) = n + broken.gap + Len(more)
  /\ \A i \in 1..broken.gap : raw[n + i] = "blank"
  /\ \A i \in 1..Len(more) : raw[n + broken.gap + i] = more[i]

\* The line ends, or it cannot go on.
BreaksOff(broken) ==
  \/ broken.open.kind # "none" /\ broken.rest = <<>>
  \/ broken.rest # <<>> /\ Impossible(broken.open, broken.rest[1])

LEMMA BrokenLaidOut ==
  ASSUME NEW broken, IsBroken(broken), NEW b, b = Begun(broken.open),
         NEW raw, raw = BrokenLine(broken), NEW more, more = b \o broken.rest,
         NEW n, n = Len(Opening(broken.form))
  PROVE  /\ BrokenParts(broken, raw, more, n) /\ BreaksOff(broken)
         /\ IsOpening(broken.form) /\ IsBegun(broken.open) /\ broken.rest \in Lines
         /\ broken.gap \in Nat /\ b \in Lines
         /\ broken.gap = 0 => broken.form.args # <<>>
<1> DEFINE o    == Opening(broken.form)
           g    == Blanks(broken.gap)
           rest == broken.rest
           og   == o \o g
           gm   == g \o more
           begun == og \o b
<1>1. /\ IsForm(broken.form) /\ broken.gap \in Nat /\ IsBegun(broken.open) /\ rest \in Lines
      /\ broken.gap = 0 => broken.form.args # <<>>
  BY DEF IsBroken
<1>2. IsOpening(broken.form)
  BY <1>1, FormOpens
<1>3. o \in Seq(Symbols)
  <2>1. <<>> \in Lines
    BY EmptySeq DEF Lines
  <2> QED BY <1>2, <2>1, OpeningLaidOut DEF Lines
<1>4. g \in Seq(Symbols) /\ Len(g) = broken.gap /\ \A i \in 1..broken.gap : g[i] = "blank"
  BY <1>1, BlanksAreBlank DEF Lines
<1>5. BreaksOff(broken)
  BY DEF IsBroken, BreaksOff
<1>6. b \in Seq(Symbols) /\ more \in Seq(Symbols)
  <2>1. broken.open.kind # "none" \/ (rest # <<>> /\ Impossible(broken.open, rest[1]))
    BY <1>5 DEF BreaksOff
  <2> QED BY <1>1, <2>1, BrokenBegins DEF Lines
<1>7. rest \in Seq(Symbols)
  BY <1>1 DEF Lines
<1>8. raw = (og \o b) \o rest
  BY DEF BrokenLine
<1>9. more = b \o rest
  OBVIOUS
<1>10. n = Len(o)
  OBVIOUS
<1> HIDE DEF o, g, rest
<1>11. Regrouped(o, g, b, rest)
  BY <1>3, <1>4, <1>6, <1>7, ConcatRegrouped
<1>12. raw = o \o gm
  BY <1>8, <1>9, <1>11 DEF Regrouped
<1>13. Glued(Symbols, g, more, gm)
  BY <1>4, <1>6, ConcatGlues
<1>14. Len(more) \in Nat /\ Len(g) \in Nat /\ n \in Nat /\ Len(b) \in Nat
  BY <1>3, <1>4, <1>6, <1>10, LenProperties
<1> HIDE DEF gm
<1>15. Glued(Symbols, o, gm, raw)
  <2>1. gm \in Seq(Symbols)
    BY <1>13 DEF Glued
  <2> QED BY <1>3, <1>12, <2>1, ConcatGlues
<1>0. broken.gap \in Nat
  BY <1>1
<1> DEFINE k == broken.gap
<1>16. /\ raw \in Seq(Symbols) /\ Len(raw) = n + k + Len(more)
       /\ \A i \in 1..k : raw[n + i] = "blank"
       /\ \A i \in 1..Len(more) : raw[n + k + i] = more[i]
  <2>1. Len(g) = k /\ k \in Nat /\ n = Len(o) /\ n \in Nat /\ Len(more) \in Nat /\ \A i \in 1..k : g[i] = "blank"
    BY <1>0, <1>4, <1>10, <1>14
  <2> HIDE DEF k
  <2> QED BY ONLY <1>13, <1>15, <2>1, SMTT(30) DEF Glued
<1>21. BrokenParts(broken, raw, more, n)
  <2>1. raw = o \o (g \o more)
    BY <1>12 DEF gm
  <2> QED BY <1>6, <1>10, <1>14, <1>16, <2>1 DEF BrokenParts, Lines, o, g
<1> QED BY <1>1, <1>2, <1>5, <1>6, <1>21 DEF Lines, rest

LEMMA BrokenRead ==
  ASSUME NEW broken, IsBroken(broken), CommentFree(BrokenLine(broken), Len(Opening(broken.form)))
  PROVE  /\ BrokenLine(broken) \in Lines
         /\ StripCommentAndTrim(BrokenLine(broken)) # <<>>
         /\ LineLexer(BrokenLine(broken)).mode \in Unfinished
<1> DEFINE form == broken.form
           open == broken.open
           gap  == broken.gap
<1>1. PICK b, raw, more, n : /\ b = Begun(open) /\ raw = BrokenLine(broken)
                             /\ more = b \o broken.rest /\ n = Len(Opening(form))
  OBVIOUS
<1>2. /\ BrokenParts(broken, raw, more, n) /\ BreaksOff(broken)
      /\ IsOpening(form) /\ IsBegun(open) /\ broken.rest \in Lines
      /\ gap \in Nat /\ b \in Lines
      /\ gap = 0 => form.args # <<>>
  BY <1>1, BrokenLaidOut
<1> DEFINE gm   == Blanks(gap) \o more
           a    == ArgumentsOf(form)
           rest == a \o gm
           off  == form.indent + Len(form.verb)
           all  == LexedAll(form.args)
           l    == Lexer("between", <<>>, all)
<1>3. /\ raw \in Seq(Symbols) /\ more \in Seq(Symbols) /\ broken.rest \in Seq(Symbols) /\ b \in Seq(Symbols)
      /\ raw = Opening(form) \o gm /\ n \in Nat /\ Len(raw) = n + gap + Len(more)
      /\ \A i \in 1..gap : raw[n + i] = "blank"
      /\ \A i \in 1..Len(more) : raw[n + gap + i] = more[i]
      /\ CommentFree(raw, n)
  BY <1>1, <1>2 DEF BrokenParts, Lines
<1>4. Len(more) \in Nat /\ Len(b) \in Nat
  BY <1>3, LenProperties
<1>5. /\ Blanks(gap) \in Seq(Symbols) /\ Len(Blanks(gap)) = gap
      /\ \A i \in 1..gap : Blanks(gap)[i] = "blank"
  BY <1>2, BlanksAreBlank DEF Lines
<1>6. /\ gm \in Seq(Symbols) /\ Len(gm) = gap + Len(more) /\ (gap # 0 => gm[1] = "blank")
      /\ \A i \in 1..Len(more) : gm[gap + i] = more[i]
  <2> DEFINE g == Blanks(gap)
  <2>1. g \in Seq(Symbols) /\ Len(g) = gap /\ (gap # 0 => g[1] = "blank") /\ gap \in Nat
    BY <1>2, <1>5
  <2> HIDE DEF g, gap
  <2>2. /\ g \o more \in Seq(Symbols) /\ Len(g \o more) = Len(g) + Len(more)
        /\ \A i \in 1..(Len(g) + Len(more)) : (g \o more)[i] = IF i <= Len(g) THEN g[i] ELSE more[i - Len(g)]
    BY <1>3, <2>1, ConcatProperties, ZenonT(60)
  <2>3. ASSUME gap # 0 PROVE (g \o more)[1] = "blank"
    <3>1. 1 \in 1..(Len(g) + Len(more)) /\ 1 <= Len(g)
      BY <1>4, <2>1, <2>3
    <3> QED BY <2>1, <2>2, <2>3, <3>1
  <2>4. ASSUME NEW i \in 1..Len(more) PROVE (g \o more)[gap + i] = more[i]
    <3>1. gap + i \in 1..(Len(g) + Len(more)) /\ ~ gap + i <= Len(g) /\ (gap + i) - Len(g) = i
      BY <1>4, <2>1
    <3> QED BY <2>2, <3>1
  <2> QED BY <2>1, <2>2, <2>3, <2>4 DEF g
<1>7. /\ more # <<>> /\ more[1] \notin {"blank", "#"} /\ Len(more) \in Nat \ {0}
      /\ open.kind = "none" => b = <<>>
      /\ open.kind # "none" => Len(b) \in Nat \ {0}
      /\ open.kind # "none" \/ (broken.rest # <<>> /\ Impossible(open, broken.rest[1]))
  <2>1. open.kind # "none" \/ (broken.rest # <<>> /\ Impossible(open, broken.rest[1]))
    BY <1>2 DEF BreaksOff
  <2>2. /\ more # <<>> /\ more[1] \notin {"blank", "#"}
        /\ open.kind = "none" => b = <<>>
        /\ open.kind # "none" => Len(b) \in Nat \ {0}
    BY <1>1, <1>2, <2>1, BrokenBegins
  <2>3. Len(more) \in Nat \ {0}
    BY <1>3, <2>2, EmptySeq
  <2> QED BY <2>1, <2>2, <2>3
<1>8. /\ a \in Seq(Symbols) /\ Len(a) \in Nat /\ all \in Seq(Tokens)
      /\ Scanned(Lexer("between", <<>>, <<>>), a) = l
      /\ off \in Nat /\ n = off + Len(a)
  <2>1. IsArguments(form.args)
    BY <1>2 DEF IsOpening
  <2>2. a \in Seq(Symbols) /\ all \in Seq(Tokens) /\ Scanned(Lexer("between", <<>>, <<>>), a) = l
    BY <2>1, ArgumentsScanned DEF Lines
  <2>3. gm \in Lines
    BY <1>6 DEF Lines
  <2>4. off \in Nat /\ Len(Opening(form)) = off + Len(a)
    <3> HIDE DEF gm, form
    <3> QED BY <1>2, <2>3, OpeningLaidOut DEF off, a
  <2>5. Len(a) \in Nat
    <3> HIDE DEF a
    <3> QED BY <2>2, LenProperties
  <2> QED BY <1>1, <2>2, <2>4, <2>5
<1>9. PICK c, k : ReadAs(raw, form.verb, rest, off, n, c, k) /\ Len(a) <= k
  <2>1. gm \in Lines /\ (form.args = <<>> => gm[1] = "blank")
    BY <1>2, <1>6 DEF Lines
  <2>2. raw = Opening(form) \o gm /\ CommentFree(raw, Len(Opening(form))) /\ n = Len(Opening(form))
    BY <1>1, <1>3
  <2> HIDE DEF gm, form, off
  <2> QED BY <1>2, <2>1, <2>2, OpeningRead DEF off
<1>10. /\ StripCommentAndTrim(raw) # <<>>
       /\ LineLexer(raw) = Scanned(Lexer("between", <<>>, <<>>), SubSeq(rest, 1, k))
       /\ c \in (n + 1)..(Len(raw) + 1) /\ k \in 0..Len(rest) /\ off + k < c
       /\ c <= Len(raw) => raw[c] = "#"
       /\ \A i \in (n + 1)..(c - 1) : ~ TakenForComment(raw, i)
       /\ \A j \in (k + 1)..Len(rest) : off + j < c => rest[j] = "blank"
  BY <1>9 DEF ReadAs, LineLexer, TakenForComment
<1>11. /\ Len(rest) = Len(a) + gap + Len(more)
       /\ rest[Len(a) + gap + 1] = more[1]
  <2> HIDE DEF a, gm, gap
  <2>0. Glued(Symbols, a, gm, rest)
    BY <1>6, <1>8, ConcatGlues
  <2> HIDE DEF rest
  <2>1. Len(rest) = Len(a) + Len(gm) /\ \A i \in 1..Len(gm) : rest[Len(a) + i] = gm[i]
    BY <2>0 DEF Glued
  <2>2. gap + 1 \in 1..Len(gm) /\ Len(a) + (gap + 1) = Len(a) + gap + 1 /\ 1 \in 1..Len(more)
    BY <1>2, <1>6, <1>7, <1>8, SMTT(30)
  <2>3. gm[gap + 1] = more[1]
    BY <1>6, <2>2
  <2>4. rest[Len(a) + (gap + 1)] = gm[gap + 1]
    BY <2>1, <2>2
  <2>5. Len(rest) = Len(a) + gap + Len(more)
    BY <1>2, <1>4, <1>6, <1>8, <2>1
  <2> QED BY <2>2, <2>3, <2>4, <2>5
<1>12. c > n + gap + 1
  <2>1. SUFFICES ASSUME ~ c > n + gap + 1 PROVE FALSE
    OBVIOUS
  <2> HIDE DEF gap, rest, off
  <2>2. c <= Len(raw) /\ (c = n + gap + 1 \/ c - n \in 1..gap) /\ n + (c - n) = c /\ 1 \in 1..Len(more)
    BY <1>2, <1>3, <1>7, <1>10, <2>1, SMTT(30)
  <2>3. raw[c] = "#"
    BY <1>10, <2>2
  <2>4. CASE c = n + gap + 1
    <3>1. raw[n + gap + 1] = more[1]
      BY <1>3, <2>2
    <3> QED BY <1>7, <2>3, <2>4, <3>1
  <2>5. CASE c - n \in 1..gap
    <3>1. raw[n + (c - n)] = "blank"
      BY <1>3, <2>5
    <3> QED BY <2>2, <2>3, <3>1
  <2> QED BY <2>2, <2>4, <2>5
<1>13. k >= Len(a) + gap + 1
  <2>1. SUFFICES ASSUME ~ k >= Len(a) + gap + 1 PROVE FALSE
    OBVIOUS
  <2> HIDE DEF gap, rest, off, a
  <2> DEFINE j == Len(a) + gap + 1
  <2>4. /\ gap \in Nat /\ n \in Nat /\ off \in Nat /\ Len(a) \in Nat /\ Len(more) \in Nat \ {0}
        /\ n = off + Len(a) /\ k \in 0..Len(rest) /\ Len(rest) = Len(a) + gap + Len(more)
        /\ ~ k >= Len(a) + gap + 1
    BY <1>2, <1>3, <1>7, <1>8, <1>10, <1>11, <2>1
  <2>5. c \in Nat /\ c > n + gap + 1
    BY <1>3, <1>10, <1>12
  <2>2. j \in (k + 1)..Len(rest) /\ off + j < c
    BY ONLY <2>4, <2>5
  <2>3. rest[j] = "blank"
    <3> HIDE DEF j
    <3> QED BY <1>10, <2>2
  <2> QED BY <1>7, <1>11, <2>3
<1> DEFINE m == k - Len(a)
           h == m - gap
           p == SubSeq(more, 1, h)
<1>14. m \in 0..Len(gm) /\ SubSeq(rest, 1, k) = a \o SubSeq(gm, 1, m) /\ SubSeq(gm, 1, m) \in Seq(Symbols)
  <2> HIDE DEF a, gm
  <2> QED BY <1>6, <1>8, <1>9, <1>10, PrefixOfBoth
<1>15. h \in 1..Len(more) /\ SubSeq(gm, 1, m) = Blanks(gap) \o p /\ p \in Seq(Symbols)
  <2> DEFINE g == Blanks(gap)
  <2>1. g \in Seq(Symbols) /\ Len(g) = gap /\ m \in 0..Len(g \o more) /\ m >= Len(g)
    <3> HIDE DEF rest, off, a
    <3>1. m >= gap /\ m \in 0..Len(g \o more)
      <4>1. m \in 0..Len(g \o more)
        BY <1>14
      <4>2. m >= gap
        <5> HIDE DEF gap
        <5> QED BY <1>2, <1>8, <1>10, <1>11, <1>13, <1>4
      <4> QED BY <4>1, <4>2
    <3> HIDE DEF m, gap
    <3> QED BY <1>5, <3>1
  <2>2. /\ m - Len(g) \in 0..Len(more) /\ SubSeq(more, 1, m - Len(g)) \in Seq(Symbols)
        /\ SubSeq(g \o more, 1, m) = g \o SubSeq(more, 1, m - Len(g))
    <3> HIDE DEF g, m
    <3> QED BY <1>3, <2>1, PrefixOfBoth, ZenonT(30)
  <2>3. m - Len(g) = h
    <3> HIDE DEF g
    <3> QED BY <2>1
  <2>4. h >= 1 /\ h \in 0..Len(more)
    <3>1. h \in 0..Len(more)
      BY <2>2, <2>3
    <3>2. m \in Nat /\ k \in Nat
      <4> HIDE DEF rest
      <4> QED BY <1>10, <1>14
    <3> HIDE DEF gap, rest, a, g
    <3>3. h >= 1
      BY <1>2, <1>8, <1>13, <3>2
    <3> QED BY <3>1, <3>3
  <2>5. h \in 1..Len(more)
    <3> HIDE DEF h
    <3> QED BY <1>4, <2>4
  <2> QED BY <2>2, <2>3, <2>5
<1>16. LineLexer(raw) = Scanned(l, p)
  <2> DEFINE g == Blanks(gap)
             s == g \o p
  <2>1. Scanned(l, g) = l
    <3>1. g \in Lines /\ \A i \in 1..Len(g) : g[i] = "blank"
      BY <1>5 DEF Lines
    <3> HIDE DEF g
    <3> QED BY <3>1, BlanksAreSkipped
  <2>2. s \in Seq(Symbols) /\ SubSeq(rest, 1, k) = a \o s
    BY <1>14, <1>15
  <2>3. Scanned(l, s) = Scanned(l, p)
    <3>1. g \in Seq(Symbols) /\ p \in Seq(Symbols)
      BY <1>5, <1>15
    <3> HIDE DEF g, p, l
    <3> QED BY <2>1, <3>1, ScannedBoth
  <2>4. Scanned(Lexer("between", <<>>, <<>>), a \o s) = Scanned(l, s)
    <3> HIDE DEF s, a, l
    <3> QED BY <1>8, <2>2, ScannedBoth
  <2> QED BY <1>10, <2>2, <2>3, <2>4
<1>17. h > Len(b) => broken.rest # <<>> /\ Impossible(open, broken.rest[1])
  <2>1. SUFFICES ASSUME h > Len(b), ~ (broken.rest # <<>> /\ Impossible(open, broken.rest[1]))
                 PROVE  FALSE
    OBVIOUS
  <2>2. CASE broken.rest = <<>>
    <3>1. more = b
      BY <1>1, <1>3, <2>2, ConcatEmptySeq
    <3> HIDE DEF h
    <3> QED BY <1>4, <1>15, <2>1, <3>1
  <2> QED BY <1>2, <2>1, <2>2 DEF BreaksOff
<1>18. Scanned(l, p).mode \in Unfinished
  <2>1. h \in 1..Len(Begun(open) \o broken.rest) /\ b = Begun(open)
    BY <1>1, <1>15
  <2>2. p = SubSeq(Begun(open) \o broken.rest, 1, h)
    BY <1>1
  <2> HIDE DEF h, p, l, open
  <2> QED BY <1>2, <1>7, <1>8, <1>17, <2>1, <2>2, BrokenInside DEF l
<1> QED BY <1>1, <1>3, <1>10, <1>16, <1>18 DEF Lines

\* Whatever hashes it has.
LEMMA BrokenFails ==
  ASSUME NEW broken, IsBroken(broken)
  PROVE  /\ StripCommentAndTrim(BrokenLine(broken)) # <<>>
         /\ LineLexer(BrokenLine(broken)).mode \notin {"between", "comment"}
<1>1. CASE CommentFree(BrokenLine(broken), Len(Opening(broken.form)))
  BY <1>1, BrokenRead DEF Unfinished
<1>2. CASE ~ CommentFree(BrokenLine(broken), Len(Opening(broken.form)))
  <2>1. PICK b, raw, more, n : /\ b = Begun(broken.open) /\ raw = BrokenLine(broken)
                               /\ more = b \o broken.rest /\ n = Len(Opening(broken.form))
    OBVIOUS
  <2>2. /\ BrokenParts(broken, raw, more, n) /\ IsOpening(broken.form)
        /\ broken.gap \in Nat /\ (broken.gap = 0 => broken.form.args # <<>>)
    BY <2>1, BrokenLaidOut
  <2> DEFINE g  == Blanks(broken.gap)
             gm == g \o more
  <2>3. raw = Opening(broken.form) \o gm /\ more \in Seq(Symbols)
    BY <2>2 DEF BrokenParts, Lines
  <2>4. g \in Seq(Symbols) /\ Len(g) = broken.gap /\ \A i \in 1..broken.gap : g[i] = "blank"
    BY <2>2, BlanksAreBlank DEF Lines
  <2> HIDE DEF g
  <2>5. Glued(Symbols, g, more, gm)
    BY <2>3, <2>4, ConcatGlues
  <2>6. gm \in Lines
    BY <2>5 DEF Glued, Lines
  <2>7. broken.form.args = <<>> => gm[1] = "blank"
    <3>1. broken.gap # 0 => 1 \in 1..Len(g) /\ g[1] = "blank"
      BY <2>2, <2>4
    <3> QED BY <2>2, <2>5, <3>1 DEF Glued
  <2> HIDE DEF gm
  <2> QED BY <1>2, <2>1, <2>2, <2>3, <2>6, <2>7, CutInside
<1> QED BY <1>1, <1>2

-----------------------------------------------------------------------------
(* Heredocs. *)

LEMMA ClosesTrims ==
  ASSUME NEW line \in Lines, NEW name \in Words
  PROVE  TrimEnd(line) = <<name>> <=> Closes(line, name)
<1> DEFINE S == Inked(line)
           m == LastOf(S)
<1>0. line \in Seq(Symbols) /\ Len(line) \in Nat /\ DOMAIN line = 1..Len(line) /\ name # "blank"
  <2>1. name \notin Signs
    BY SignsAreSymbols
  <2> QED BY <2>1, LenProperties DEF Lines, Signs
<1>1. S = {i \in 1..Len(line) : line[i] # "blank"}
  BY <1>0 DEF Inked
<1> HIDE DEF S
<1>2. CASE S = {}
  <2>1. TrimEnd(line) = <<>>
    BY <1>2 DEF TrimEnd, S
  <2>2. TrimEnd(line) # <<name>>
    BY <2>1
  <2>3. ~ Closes(line, name)
    <3>1. SUFFICES ASSUME Closes(line, name) PROVE FALSE
      OBVIOUS
    <3>2. line # <<>> /\ line[1] = name
      BY <3>1 DEF Closes
    <3>3. 1 \in 1..Len(line)
      BY <1>0, <3>2, EmptySeq
    <3> QED BY <1>0, <1>1, <1>2, <3>2, <3>3
  <2> QED BY <2>2, <2>3
<1>3. CASE S # {}
  <2>1. TrimEnd(line) = SubSeq(line, 1, m)
    BY <1>3 DEF TrimEnd, S
  <2>2. m \in S /\ \A i \in S : i <= m
    <3>1. S \in SUBSET (0..Len(line))
      BY <1>0, <1>1
    <3> QED BY <1>0, <1>3, <3>1, LastIsLast
  <2> HIDE DEF m
  <2>3. m \in 1..Len(line) /\ m \in Nat /\ line[m] # "blank"
    BY <1>0, <1>1, <2>2
  <2> DEFINE t == SubSeq(line, 1, m)
  <2>4. t \in Seq(Symbols) /\ Len(t) = m /\ \A i \in 1..m : t[i] = line[i]
    <3>1. 0 \in Nat /\ m \in 0..Len(line)
      BY <1>0, <2>3
    <3>2. /\ SubSeq(line, 0 + 1, m) \in Seq(Symbols) /\ Len(SubSeq(line, 0 + 1, m)) = m - 0
          /\ \A i \in 1..(m - 0) : SubSeq(line, 0 + 1, m)[i] = line[0 + i]
      BY <1>0, <3>1, Window
    <3> QED BY <2>3, <3>2
  <2> HIDE DEF t
  <2>5. ASSUME TrimEnd(line) = <<name>> PROVE Closes(line, name)
    <3>1. t = <<name>>
      BY <2>1, <2>5 DEF t
    <3>2. m = 1 /\ line[1] = name
      <4>1. Len(<<name>>) = 1 /\ <<name>>[1] = name
        BY Singles
      <4>2. m = 1 /\ t[1] = name
        BY <2>4, <3>1, <4>1
      <4> QED BY <2>4, <4>2
    <3>3. ASSUME NEW i \in 2..Len(line) PROVE line[i] = "blank"
      <4>1. i \in 1..Len(line) /\ ~ i <= m
        BY <1>0, <3>2
      <4> QED BY <1>1, <2>2, <4>1
    <3>4. line # <<>>
      BY <1>0, <2>3, EmptySeq
    <3> QED BY <3>2, <3>3, <3>4 DEF Closes
  <2>6. ASSUME Closes(line, name) PROVE TrimEnd(line) = <<name>>
    <3>1. line[1] = name /\ \A i \in 2..Len(line) : line[i] = "blank"
      BY <2>6 DEF Closes
    <3>2. m = 1
      <4>1. m \notin 2..Len(line)
        BY <2>3, <3>1
      <4> QED BY <1>0, <2>3, <4>1
    <3> DEFINE u == <<name>>
    <3>3. u \in Seq(Symbols) /\ Len(u) = 1 /\ u[1] = name
      BY SignsAreSymbols, Singles
    <3> HIDE DEF u
    <3>4. Len(t) = Len(u) /\ \A i \in 1..Len(t) : t[i] = u[i]
      BY <1>0, <2>3, <2>4, <3>1, <3>2, <3>3
    <3>5. t = u
      BY <2>4, <3>3, <3>4, SeqEqual
    <3> QED BY <2>1, <3>5 DEF t, u
  <2> QED BY <2>5, <2>6
<1> QED BY <1>2, <1>3

IsSource == source \in Seq(Lines)

LEMMA SourceLines ==
  ASSUME IsSource
  PROVE  Len(source) \in Nat /\ \A i \in 1..Len(source) : source[i] \in Lines
  BY LenProperties, ElementOfSeq DEF IsSource

LEMMA HeredocEnds ==
  ASSUME IsSource, NEW from \in Nat \ {0}, NEW name \in Words
  PROVE  /\ HeredocEnd(from, <<name>>) \in Nat
         /\ HeredocEnd(from, <<name>>) # 0 => HeredocEnd(from, <<name>>) >= from
         /\ (\A i \in from..Len(source) : ~ Closes(source[i], name)) => HeredocEnd(from, <<name>>) = 0
         /\ \A n \in Nat :
              /\ from + n <= Len(source) /\ Closes(source[from + n], name)
              /\ \A i \in 1..n : ~ Closes(source[from + (i - 1)], name)
              => HeredocEnd(from, <<name>>) = from + n
<1> DEFINE ends == {i \in from..Len(source) : TrimEnd(source[i]) = <<name>>}
           e    == HeredocEnd(from, <<name>>)
<1>1. Len(source) \in Nat /\ \A i \in 1..Len(source) : source[i] \in Lines
  BY SourceLines
<1>2. \A i \in from..Len(source) : i \in ends <=> Closes(source[i], name)
  <2>1. SUFFICES ASSUME NEW i \in from..Len(source) PROVE TrimEnd(source[i]) = <<name>> <=> Closes(source[i], name)
    OBVIOUS
  <2>2. source[i] \in Lines
    BY <1>1
  <2> QED BY <2>2, ClosesTrims
<1>3. ends \subseteq from..Len(source) /\ ends \in SUBSET Nat
  BY <1>1
<1>4. e = IF ends = {} THEN 0 ELSE FirstOf(ends)
  BY DEF HeredocEnd
<1>5. ends # {} => e \in ends /\ \A i \in ends : e <= i
  <2> HIDE DEF ends, e
  <2> QED BY <1>3, <1>4, FirstIsFirst
<1> HIDE DEF ends, e
<1>6. e \in Nat /\ (e # 0 => e >= from)
  BY <1>1, <1>3, <1>4, <1>5
<1>7. (\A i \in from..Len(source) : ~ Closes(source[i], name)) => e = 0
  BY <1>2, <1>3, <1>4
<1>8. ASSUME NEW n \in Nat, from + n <= Len(source), Closes(source[from + n], name),
             \A i \in 1..n : ~ Closes(source[from + (i - 1)], name)
      PROVE  e = from + n
  <2>1. from + n \in ends
    BY <1>1, <1>2, <1>8
  <2>2. e \in ends /\ e <= from + n /\ e \in from..Len(source)
    BY <1>3, <1>5, <2>1
  <2>3. SUFFICES ASSUME e # from + n PROVE FALSE
    OBVIOUS
  <2> DEFINE i == (e - from) + 1
  <2>4. i \in 1..n /\ from + (i - 1) = e
    BY <1>1, <2>2, <2>3
  <2>5. Closes(source[e], name)
    BY <1>2, <2>2
  <2> HIDE DEF i
  <2> QED BY <1>8, <2>4, <2>5
<1> QED BY <1>6, <1>7, <1>8 DEF e

\* The line after the heredoc of an argument, if it is one.
NextLine(x, arg) ==
  IF arg.kind # "heredoc" \/ x = 0 THEN x
  ELSE LET end == HeredocEnd(x, arg.text) IN IF end = 0 THEN 0 ELSE end + 1

\* The function that ReadHeredocs recurs with.
Nexting(args, after, n, g) ==
  g = [i \in 0..n |-> IF i = 0 THEN after ELSE NextLine(g[i - 1], args[i])]

LEMMA NextingExists ==
  ASSUME NEW args, NEW after
  PROVE  \A n \in Nat : \E g : Nexting(args, after, n, g)
<1> DEFINE G == {n \in Nat : \E g : Nexting(args, after, n, g)}
<1>1. 0 \in G
  <2>1. Nexting(args, after, 0, [i \in 0..0 |-> after])
    BY DEF Nexting
  <2> QED BY <2>1
<1>2. ASSUME NEW n \in Nat, n \in G
      PROVE  n + 1 \in G
  <2>1. PICK g : Nexting(args, after, n, g)
    BY <1>2
  <2> DEFINE last == NextLine(g[n], args[n + 1])
             h    == [i \in 0..(n + 1) |-> IF i = n + 1 THEN last ELSE g[i]]
  <2>2. ASSUME NEW i \in 0..(n + 1)
        PROVE  h[i] = IF i = 0 THEN after ELSE NextLine(h[i - 1], args[i])
    <3>1. CASE i = n + 1
      <4>1. h[i] = NextLine(g[n], args[n + 1]) /\ h[i - 1] = g[n] /\ i # 0
        BY <3>1
      <4> HIDE DEF h
      <4> QED BY <3>1, <4>1
    <3>2. CASE i = 0
      BY <2>1, <3>2 DEF Nexting
    <3>3. CASE i \in 1..n
      <4>1. h[i] = g[i] /\ h[i - 1] = g[i - 1] /\ i \in 0..n /\ i # 0
        BY <3>3
      <4>2. g[i] = NextLine(g[i - 1], args[i])
        BY <2>1, <4>1 DEF Nexting
      <4> HIDE DEF h
      <4> QED BY <4>1, <4>2
    <3> QED BY <3>1, <3>2, <3>3
  <2>3. Nexting(args, after, n + 1, h)
    <3>1. h = [i \in 0..(n + 1) |-> h[i]]
      OBVIOUS
    <3> HIDE DEF h
    <3> QED BY <2>2, <3>1 DEF Nexting
  <2> QED BY <2>3
<1> HIDE DEF G
<1>3. \A n \in Nat : n \in G
  BY <1>1, <1>2, SetInduction
<1> QED BY <1>3 DEF G

HeredocText(g, i) ==
  Concat([k \in 1..(g[i] - 1 - g[i - 1]) |-> Append(source[g[i - 1] + k - 1], "newline")],
         g[i] - 1 - g[i - 1])

HeredocsRead(args, g) ==
  [next |-> g[Len(args)],
   args |-> IF g[Len(args)] = 0 THEN <<>>
            ELSE [i \in DOMAIN args |->
                    IF args[i].kind = "heredoc" THEN Token("heredoc", HeredocText(g, i)) ELSE args[i]]]

LEMMA ReadHeredocsReads ==
  ASSUME NEW args, NEW after, Len(args) \in Nat
  PROVE  \E g : Nexting(args, after, Len(args), g) /\ ReadHeredocs(args, after) = HeredocsRead(args, g)
<1> DEFINE f == CHOOSE g : Nexting(args, after, Len(args), g)
<1>1. Nexting(args, after, Len(args), f)
  BY NextingExists
<1>2. ReadHeredocs(args, after) = HeredocsRead(args, f)
  BY Zenon DEF ReadHeredocs, HeredocsRead, HeredocText, Nexting, NextLine
<1> QED BY <1>1, <1>2

\* Its steps.
NextLines(args, after, n, g) ==
  g[0] = after /\ \A i \in 1..n : g[i] = NextLine(g[i - 1], args[i])

LEMMA NextingSteps ==
  ASSUME NEW args, NEW after, NEW n \in Nat, NEW g, Nexting(args, after, n, g)
  PROVE  NextLines(args, after, n, g)
  BY DEF Nexting, NextLines

LEMMA ClosingCloses ==
  ASSUME NEW name \in Words, NEW trail \in Nat
  PROVE  <<name>> \o Blanks(trail) \in Lines /\ Closes(<<name>> \o Blanks(trail), name)
<1> DEFINE h == <<name>>
           b == Blanks(trail)
           w == h \o b
<1>1. h \in Seq(Symbols) /\ Len(h) = 1 /\ h[1] = name
  BY SignsAreSymbols, Singles
<1>2. b \in Seq(Symbols) /\ Len(b) = trail /\ \A i \in 1..trail : b[i] = "blank"
  BY BlanksAreBlank DEF Lines
<1> HIDE DEF h, b
<1>3. Glued(Symbols, h, b, w)
  BY <1>1, <1>2, ConcatGlues
<1> HIDE DEF w
<1>4. w \in Seq(Symbols) /\ Len(w) = 1 + trail /\ w[1] = name
  BY <1>1, <1>2, <1>3 DEF Glued
<1>5. ASSUME NEW i \in 2..Len(w) PROVE w[i] = "blank"
  <2>1. i - 1 \in 1..trail /\ 1 + (i - 1) = i
    BY <1>4
  <2>2. w[1 + (i - 1)] = b[i - 1]
    BY <1>1, <1>2, <1>3, <2>1 DEF Glued
  <2> QED BY <1>2, <2>1, <2>2
<1>6. w # <<>>
  BY <1>4, EmptySeq
<1> QED BY <1>4, <1>5, <1>6 DEF Closes, Lines, w, h, b

IsHeredoc(a) ==
  /\ a.kind = "heredoc" /\ a.name \in Words /\ a.trail \in Nat
  /\ a.lines \in Seq(Lines) /\ \A i \in DOMAIN a.lines : ~ Closes(a.lines[i], a.name)

LEMMA BelowIsLines ==
  ASSUME NEW a, IsArgument(a)
  PROVE  /\ Below(a) \in Seq(Lines)
         /\ a.kind # "heredoc" => Below(a) = <<>> /\ Len(Below(a)) = 0 /\ Lexed(a) = Meaning(a)
         /\ Lexed(a).kind = a.kind
         /\ a.kind = "heredoc" =>
              /\ IsHeredoc(a) /\ Lexed(a).text = <<a.name>> /\ Len(a.lines) \in Nat
              /\ Meaning(a) = Token("heredoc", Content(a.lines))
              /\ Len(Below(a)) = Len(a.lines) + 1
              /\ Closes(Below(a)[Len(a.lines) + 1], a.name)
              /\ \A k \in 1..Len(a.lines) : Below(a)[k] = a.lines[k] /\ ~ Closes(a.lines[k], a.name)
<1>1. Lexed(a).kind = a.kind
  BY DEF Lexed, Token
<1>2. CASE a.kind # "heredoc"
  <2>1. Below(a) = <<>>
    BY <1>2 DEF Below
  <2>2. Lexed(a) = Meaning(a)
    BY <1>2 DEF Lexed, Meaning
  <2> QED BY <1>1, <1>2, <2>1, <2>2, EmptySeq
<1>3. CASE a.kind = "heredoc"
  <2> DEFINE end == <<a.name>> \o Blanks(a.trail)
             below == Append(a.lines, end)
  <2>1. IsHeredoc(a)
    BY <1>3 DEF IsArgument, IsHeredoc
  <2>2. end \in Lines /\ Closes(end, a.name)
    BY <2>1, ClosingCloses DEF IsHeredoc
  <2>3. a.lines \in Seq(Lines) /\ Len(a.lines) \in Nat /\ DOMAIN a.lines = 1..Len(a.lines)
    BY <2>1, LenProperties DEF IsHeredoc
  <2>4. Below(a) = below
    BY <1>3 DEF Below
  <2> HIDE DEF end
  <2>5. /\ below \in Seq(Lines) /\ Len(below) = Len(a.lines) + 1 /\ below[Len(a.lines) + 1] = end
        /\ \A k \in 1..Len(a.lines) : below[k] = a.lines[k]
    BY <2>2, <2>3, AppendProperties
  <2> HIDE DEF below
  <2>6. Lexed(a).text = <<a.name>> /\ Meaning(a) = Token("heredoc", Content(a.lines))
    BY <1>3 DEF Lexed, Meaning, Token
  <2>7. \A k \in 1..Len(a.lines) : ~ Closes(a.lines[k], a.name)
    BY <2>1, <2>3 DEF IsHeredoc
  <2> QED BY <1>1, <1>3, <2>1, <2>2, <2>3, <2>4, <2>5, <2>6, <2>7
<1> QED BY <1>2, <1>3

\* The lines below follow in the source.
Following(form, after, belows, n) ==
  /\ belows = [i \in DOMAIN form.args |-> Below(form.args[i])] /\ n = Len(form.args)
  /\ (after - 1) + Len(Concat(belows, n)) <= Len(source)
  /\ \A j \in 1..Len(Concat(belows, n)) : source[(after - 1) + j] = Concat(belows, n)[j]

\* The argument at i, whose lines begin at x and take all up to e.
ArgumentAt(form, after, belows, i, a, x, e) ==
  a = form.args[i] /\ e = Len(Concat(belows, i)) /\ x = after + Len(Concat(belows, i - 1))

LEMMA HeredocFound ==
  ASSUME IsSource, NEW form, IsArguments(form.args), NEW after \in Nat \ {0}, NEW belows, NEW n,
         Following(form, after, belows, n), NEW i \in 1..n, NEW a, NEW x, NEW e,
         ArgumentAt(form, after, belows, i, a, x, e)
  PROVE  /\ NextLine(x, Lexed(a)) = after + e
         /\ a.kind = "heredoc" =>
              /\ (after + e) - 1 - x = Len(a.lines)
              /\ \A k \in 1..Len(a.lines) : source[x + k - 1] = a.lines[k]
<1> DEFINE d == Len(Concat(belows, i - 1))
           all == Concat(belows, n)
<1>1. n \in Nat /\ DOMAIN form.args = 1..n /\ \A j \in 1..n : IsArgument(form.args[j])
  BY ListLength DEF IsArguments, Following
<1>2. \A j \in 1..n : belows[j] = Below(form.args[j])
  BY <1>1 DEF Following
<1>3. \A j \in 1..n : belows[j] \in Seq(Lines)
  BY <1>1, <1>2, BelowIsLines
<1>4. LaidOut(belows, n)
  BY <1>1, <1>3, JoinedLaidOut
<1>5. IsArgument(a) /\ belows[i] = Below(a)
  BY <1>1, <1>2 DEF ArgumentAt
<1>6. /\ d \in Nat /\ e \in Nat /\ e = d + Len(Below(a)) /\ e <= Len(all) /\ Len(all) \in Nat
      /\ \A k \in 1..Len(Below(a)) : all[d + k] = Below(a)[k]
  <2>1. i - 1 \in 0..n /\ i \in 0..n /\ n \in 0..n
    BY <1>1
  <2>2. d \in Nat /\ e \in Nat /\ Len(all) \in Nat
    BY <1>4, <2>1 DEF LaidOut, ArgumentAt
  <2>3. e = d + Len(Below(a)) /\ \A k \in 1..Len(Below(a)) : all[d + k] = Below(a)[k]
    BY <1>4, <1>5 DEF LaidOut, ArgumentAt
  <2>4. e <= Len(all)
    <3>1. i \in 0..n
      BY <2>1
    <3> QED BY <1>4, <2>1, <3>1 DEF LaidOut, ArgumentAt
  <2> QED BY <2>2, <2>3, <2>4
<1>7. /\ (after - 1) + Len(all) <= Len(source) /\ Len(source) \in Nat
      /\ \A j \in 1..Len(all) : source[(after - 1) + j] = all[j]
  BY SourceLines DEF Following
<1>8. x = after + d
  BY DEF ArgumentAt
<1> HIDE DEF d, all
<1>9. CASE a.kind # "heredoc"
  <2>1. Len(Below(a)) = 0 /\ Lexed(a).kind # "heredoc"
    BY <1>5, <1>9, BelowIsLines
  <2>2. NextLine(x, Lexed(a)) = x
    BY <2>1 DEF NextLine
  <2>3. e = d /\ after + e = x
    BY <1>6, <1>8, <2>1
  <2> QED BY <1>9, <2>2, <2>3
<1>10. CASE a.kind = "heredoc"
  <2> DEFINE m == Len(a.lines)
             b == Below(a)
  <2>1. /\ Lexed(a).kind = "heredoc" /\ Lexed(a).text = <<a.name>> /\ IsHeredoc(a) /\ m \in Nat
        /\ Len(b) = m + 1 /\ Closes(b[m + 1], a.name)
        /\ \A k \in 1..m : b[k] = a.lines[k] /\ ~ Closes(a.lines[k], a.name)
    BY <1>5, <1>10, BelowIsLines
  <2>0. Len(Below(a)) = m + 1 /\ \A k \in 1..(m + 1) : all[d + k] = b[k]
    BY <1>6, <2>1
  <2> HIDE DEF m, b
  <2>2. ASSUME NEW k \in 1..(m + 1) PROVE source[x + (k - 1)] = b[k]
    <3>1. d + k \in 1..Len(all) /\ (after - 1) + (d + k) = x + (k - 1)
      BY <1>6, <1>8, <2>0, <2>1, SMTT(30)
    <3>2. source[(after - 1) + (d + k)] = all[d + k] /\ all[d + k] = b[k]
      BY <1>7, <2>0, <3>1
    <3> QED BY <3>1, <3>2
  <2>3. x + m <= Len(source) /\ x \in Nat \ {0} /\ x + ((m + 1) - 1) = x + m /\ m + 1 \in 1..(m + 1)
    BY <1>6, <1>7, <1>8, <2>0, <2>1
  <2>4. Closes(source[x + m], a.name)
    <3>1. source[x + ((m + 1) - 1)] = b[m + 1]
      BY <2>2, <2>3
    <3> QED BY <2>1, <2>3, <3>1
  <2>5. ASSUME NEW k \in 1..m
        PROVE source[x + k - 1] = a.lines[k] /\ ~ Closes(source[x + (k - 1)], a.name)
    <3>1. k \in 1..(m + 1) /\ x + k - 1 = x + (k - 1)
      BY <2>1, <2>3
    <3> QED BY <2>1, <2>2, <3>1
  <2>6. a.name \in Words
    BY <2>1 DEF IsHeredoc
  <2>7. HeredocEnd(x, <<a.name>>) = x + m
    BY <2>1, <2>3, <2>4, <2>5, <2>6, HeredocEnds
  <2>8. x # 0 /\ x + m # 0
    BY <2>1, <2>3
  <2>9. NextLine(x, Lexed(a)) = (x + m) + 1
    BY <2>1, <2>7, <2>8 DEF NextLine
  <2>13. d \in Nat /\ m \in Nat /\ after \in Nat /\ e = d + (m + 1) /\ x = after + d
    BY <1>6, <1>8, <2>0, <2>1
  <2>10. (x + m) + 1 = after + e /\ (after + e) - 1 - x = m
    BY ONLY <2>13
  <2>11. NextLine(x, Lexed(a)) = after + e
    BY <2>9, <2>10
  <2>12. (after + e) - 1 - x = m /\ \A k \in 1..m : source[x + k - 1] = a.lines[k]
    BY <2>5, <2>10
  <2> QED BY <2>11, <2>12 DEF m
<1> QED BY <1>9, <1>10

LEMMA HeredocsFollow ==
  ASSUME IsSource, NEW form, IsArguments(form.args), NEW after \in Nat \ {0}, NEW belows, NEW n,
         Following(form, after, belows, n)
  PROVE  ReadHeredocs(LexedAll(form.args), after)
           = [next |-> after + Len(Concat(belows, n)), args |-> Args(form)]
<1> DEFINE args  == form.args
           lexed == LexedAll(args)
           e(i)  == Len(Concat(belows, i))
<1>1. n \in Nat /\ DOMAIN args = 1..n /\ \A j \in 1..n : IsArgument(args[j])
  BY ListLength DEF IsArguments, Following
<1>2. lexed = [i \in 1..n |-> Lexed(args[i])] /\ Len(lexed) = n /\ DOMAIN lexed = 1..n
  <2>1. lexed = [i \in 1..n |-> Lexed(args[i])]
    BY <1>1 DEF LexedAll
  <2>2. n = Len(args)
    BY DEF Following
  <2> QED BY <2>1, <2>2, ArgumentsScanned
<1>3. PICK g : Nexting(lexed, after, n, g) /\ ReadHeredocs(lexed, after) = HeredocsRead(lexed, g)
  <2> HIDE DEF lexed
  <2> QED BY <1>1, <1>2, ReadHeredocsReads
<1>4. g[0] = after /\ \A i \in 1..n : g[i] = NextLine(g[i - 1], lexed[i])
  <2> HIDE DEF lexed
  <2>1. NextLines(lexed, after, n, g)
    BY <1>1, <1>3, NextingSteps
  <2> QED BY <2>1 DEF NextLines
<1>5. \A i \in 0..n : e(i) \in Nat
  <2>1. ASSUME NEW i \in 1..n PROVE belows[i] \in Seq(Lines)
    <3>1. belows[i] = Below(args[i])
      BY <1>1 DEF Following
    <3> QED BY <1>1, <3>1, BelowIsLines
  <2>2. LaidOut(belows, n)
    BY <1>1, <2>1, JoinedLaidOut
  <2> QED BY <2>2 DEF LaidOut
<1>6. e(0) = 0
  <2>1. Concat(belows, 0) = <<>>
    <3>1. \A i \in 1..0 : belows[i] \in Seq(Lines)
      OBVIOUS
    <3> QED BY <3>1, JoinedByOne
  <2> QED BY <2>1, EmptySeq
<1>7. ASSUME NEW i \in 1..n
      PROVE  /\ NextLine(after + e(i - 1), lexed[i]) = after + e(i)
             /\ args[i].kind = "heredoc" =>
                  /\ (after + e(i)) - 1 - (after + e(i - 1)) = Len(args[i].lines)
                  /\ \A k \in 1..Len(args[i].lines) : source[(after + e(i - 1)) + k - 1] = args[i].lines[k]
  <2>1. PICK a, x, d : a = args[i] /\ d = e(i) /\ x = after + e(i - 1)
    OBVIOUS
  <2>4. ArgumentAt(form, after, belows, i, a, x, d)
    BY <2>1 DEF ArgumentAt
  <2>2. /\ NextLine(x, Lexed(a)) = after + d
        /\ a.kind = "heredoc" =>
              /\ (after + d) - 1 - x = Len(a.lines)
              /\ \A k \in 1..Len(a.lines) : source[x + k - 1] = a.lines[k]
    <3> HIDE DEF e
    <3> QED BY <2>4, HeredocFound
  <2>3. lexed[i] = Lexed(a)
    BY <1>2, <2>1
  <2> QED BY <2>1, <2>2, <2>3
<1> HIDE DEF lexed, e
<1>8. \A i \in 0..n : g[i] = after + e(i)
  <2> DEFINE h == [i \in 0..n |-> after + e(i)]
  <2>1. g[0] = h[0]
    BY <1>1, <1>4, <1>6
  <2>2. ASSUME NEW i \in 1..n, g[i - 1] = h[i - 1] PROVE g[i] = h[i]
    <3>1. h[i - 1] = after + e(i - 1) /\ h[i] = after + e(i)
      BY <1>1
    <3> HIDE DEF h
    <3> QED BY <1>4, <1>7, <2>2, <3>1
  <2>3. \A i \in 0..n : g[i] = h[i]
    <3> HIDE DEF h
    <3>1. \A i \in 1..n : g[i - 1] = h[i - 1] => g[i] = h[i]
      BY <2>2
    <3>2. n \in Nat
      BY <1>1
    <3> QED BY <2>1, <3>1, <3>2, SameSteps
  <2> QED BY <2>3
<1>9. g[n] = after + e(n) /\ g[n] # 0
  <2>1. n \in 0..n /\ e(n) \in Nat
    BY <1>1, <1>5
  <2> QED BY <1>8, <2>1
<1>10. ASSUME NEW i \in 1..n
       PROVE  (IF lexed[i].kind = "heredoc" THEN Token("heredoc", HeredocText(g, i)) ELSE lexed[i]) = Meaning(args[i])
  <2> DEFINE a == args[i]
             x == after + e(i - 1)
             m == Len(a.lines)
  <2>1. IsArgument(a) /\ lexed[i] = Lexed(a) /\ Lexed(a).kind = a.kind
    BY <1>1, <1>2, BelowIsLines
  <2>2. CASE a.kind # "heredoc"
    <3>1. Lexed(a) = Meaning(a)
      BY <2>1, <2>2, BelowIsLines
    <3> QED BY <2>1, <2>2, <3>1
  <2>3. CASE a.kind = "heredoc"
    <3>1. g[i] = after + e(i) /\ g[i - 1] = x
      <4>1. i \in 0..n /\ i - 1 \in 0..n
        BY <1>1
      <4> QED BY <1>8, <4>1
    <3>2. g[i] - 1 - x = m /\ \A k \in 1..m : source[x + k - 1] = a.lines[k]
      BY <1>7, <2>3, <3>1
    <3>3. Meaning(a) = Token("heredoc", Content(a.lines)) /\ DOMAIN a.lines = 1..m
      <4>1. IsHeredoc(a) /\ Meaning(a) = Token("heredoc", Content(a.lines))
        BY <2>1, <2>3, BelowIsLines
      <4>2. a.lines \in Seq(Lines)
        BY <4>1 DEF IsHeredoc
      <4> QED BY <4>1, <4>2, LenProperties
    <3>4. HeredocText(g, i) = Concat([k \in 1..m |-> Append(source[x + k - 1], "newline")], m)
      BY <3>1, <3>2 DEF HeredocText
    <3>5. Content(a.lines) = Concat([k \in 1..m |-> Append(a.lines[k], "newline")], m)
      BY <3>3 DEF Content
    <3>6. [k \in 1..m |-> Append(source[x + k - 1], "newline")] = [k \in 1..m |-> Append(a.lines[k], "newline")]
      BY <3>2
    <3>7. HeredocText(g, i) = Content(a.lines)
      BY <3>4, <3>5, <3>6
    <3> QED BY <2>1, <2>3, <3>3, <3>7
  <2> QED BY <2>2, <2>3
<1>11. [i \in DOMAIN lexed |->
          IF lexed[i].kind = "heredoc" THEN Token("heredoc", HeredocText(g, i)) ELSE lexed[i]] = Args(form)
  <2>1. Args(form) = [i \in 1..n |-> Meaning(args[i])]
    BY <1>1 DEF Args
  <2>2. DOMAIN lexed = 1..n
    BY <1>2
  <2> QED BY <1>10, <2>1, <2>2
<1>12. HeredocsRead(lexed, g) = [next |-> after + e(n), args |-> Args(form)]
  BY <1>2, <1>9, <1>11 DEF HeredocsRead
<1> QED BY <1>3, <1>12 DEF lexed, e

LEMMA HeredocsEndless ==
  ASSUME IsSource, NEW form, IsArguments(form.args), NEW after \in Nat \ {0}, NEW w \in 1..Len(form.args),
         form.args[w].kind = "heredoc",
         \A j \in after..Len(source) : ~ Closes(source[j], form.args[w].name)
  PROVE  ReadHeredocs(LexedAll(form.args), after).next = 0
<1> DEFINE args  == form.args
           n     == Len(args)
           lexed == LexedAll(args)
<1>1. n \in Nat /\ DOMAIN args = 1..n /\ \A j \in 1..n : IsArgument(args[j])
  BY ListLength DEF IsArguments
<1>2. Len(lexed) = n /\ \A i \in 1..n : lexed[i] = Lexed(args[i])
  BY <1>1, ArgumentsScanned DEF LexedAll
<1>3. PICK g : Nexting(lexed, after, n, g) /\ ReadHeredocs(lexed, after) = HeredocsRead(lexed, g)
  <2> HIDE DEF lexed, n
  <2> QED BY <1>1, <1>2, ReadHeredocsReads
<1>4. g[0] = after /\ \A i \in 1..n : g[i] = NextLine(g[i - 1], lexed[i])
  <2> HIDE DEF lexed, n
  <2>1. NextLines(lexed, after, n, g)
    BY <1>1, <1>3, NextingSteps
  <2> QED BY <2>1 DEF NextLines
<1> DEFINE S == {x \in Nat : x = 0 \/ x >= after}
<1>5. ASSUME NEW i \in 1..n, NEW x \in S
      PROVE  /\ NextLine(x, lexed[i]) \in S
             /\ x = 0 => NextLine(x, lexed[i]) = 0
             /\ i = w => NextLine(x, lexed[i]) = 0
  <2> DEFINE a == args[i]
  <2>0. x \in Nat /\ (x = 0 \/ x >= after)
    OBVIOUS
  <2>1. IsArgument(a) /\ lexed[i] = Lexed(a) /\ Lexed(a).kind = a.kind
    BY <1>1, <1>2, BelowIsLines
  <2>2. CASE x = 0 \/ a.kind # "heredoc"
    <3>1. NextLine(x, lexed[i]) = x
      BY <2>1, <2>2 DEF NextLine
    <3> QED BY <2>2, <3>1
  <2>3. CASE x # 0 /\ a.kind = "heredoc"
    <3> DEFINE e == HeredocEnd(x, <<a.name>>)
    <3>1. Lexed(a).text = <<a.name>> /\ a.name \in Words
      BY <2>1, <2>3, BelowIsLines DEF IsHeredoc
    <3>2. NextLine(x, lexed[i]) = IF e = 0 THEN 0 ELSE e + 1
      BY <2>1, <2>3, <3>1 DEF NextLine
    <3>3. e \in Nat /\ (e # 0 => e >= x)
      BY <2>3, <3>1, HeredocEnds
    <3>4. i = w => e = 0
      <4>1. SUFFICES ASSUME i = w PROVE e = 0
        OBVIOUS
      <4>2. \A j \in x..Len(source) : ~ Closes(source[j], a.name)
        BY <2>0, <2>3, <4>1
      <4> QED BY <2>3, <3>1, <4>2, HeredocEnds
    <3> HIDE DEF e, a
    <3>5. (IF e = 0 THEN 0 ELSE e + 1) \in Nat /\ ((IF e = 0 THEN 0 ELSE e + 1) = 0 \/ (IF e = 0 THEN 0 ELSE e + 1) >= after)
      BY <2>0, <2>3, <3>3
    <3> QED BY <2>3, <3>2, <3>4, <3>5
  <2> QED BY <2>2, <2>3
<1>6. \A i \in 0..n : g[i] \in S
  <2>1. g[0] \in S
    BY <1>4
  <2>2. ASSUME NEW i \in 1..n, g[i - 1] \in S PROVE g[i] \in S
    <3> HIDE DEF S
    <3> QED BY <1>4, <1>5, <2>2
  <2> HIDE DEF S
  <2> QED BY <1>1, <2>1, <2>2, StepsStay
<1> DEFINE G == {i \in 0..n : i >= w => g[i] = 0}
<1> HIDE DEF S
<1>7. \A i \in 0..n : i \in G
  <2>1. 0 \in G
    BY <1>1
  <2>2. ASSUME NEW i \in 1..n, i - 1 \in G PROVE i \in G
    <3>1. i - 1 \in 0..n /\ i \in 0..n
      BY <1>1
    <3>2. g[i - 1] \in S /\ g[i] = NextLine(g[i - 1], lexed[i])
      BY <1>4, <1>6, <3>1
    <3>3. (g[i - 1] = 0 => g[i] = 0) /\ (i = w => g[i] = 0)
      BY <1>5, <3>2
    <3>4. i >= w => i = w \/ i - 1 >= w
      BY <1>1
    <3> QED BY <2>2, <3>1, <3>3, <3>4
  <2> HIDE DEF G
  <2> QED BY <1>1, <2>1, <2>2, BoundedInduction
<1>8. g[n] = 0
  <2>1. n \in G /\ n >= w
    BY <1>1, <1>7
  <2> QED BY <2>1
<1>9. HeredocsRead(lexed, g).next = g[n]
  BY <1>2 DEF HeredocsRead
<1> QED BY <1>3, <1>8, <1>9

-----------------------------------------------------------------------------
(* Options. *)

OptionVerbs == {"Press", "Type", "PresentTyped", "WaitFor", "WaitForPrompt", "Sleep"}

\* One argument of the loops.
OptionStep(verb, read, arg) ==
  IF ~ read.ok THEN read
  ELSE IF read.name # "none"
  THEN [ok |-> arg.kind = Options(verb)[read.name], name |-> "none",
        set |-> With(read.set, read.name, arg.text)]
  ELSE IF verb = "Press" /\ arg.kind = "integer"
  THEN [read EXCEPT !.ok = arg.text[1] \notin Huge, !.set = With(@, "repeat", arg.text)]
  ELSE IF arg.kind = "ident" THEN [ok |-> arg.text[1] \in DOMAIN Options(verb),
                                   name |-> arg.text[1], set |-> read.set]
  ELSE [read EXCEPT !.ok = FALSE]

NoOptions == [ok |-> TRUE, name |-> "none", set |-> None]

\* The function that ReadOptions recurs with.
OptionsReading(verb, args, n, g) ==
  g = [i \in 0..n |-> IF i = 0 THEN NoOptions ELSE OptionStep(verb, g[i - 1], args[i])]

LEMMA OptionsReadingExists ==
  ASSUME NEW verb, NEW args
  PROVE  \A n \in Nat : \E g : OptionsReading(verb, args, n, g)
<1> DEFINE G == {n \in Nat : \E g : OptionsReading(verb, args, n, g)}
<1>1. 0 \in G
  <2>1. OptionsReading(verb, args, 0, [i \in 0..0 |-> NoOptions])
    BY DEF OptionsReading
  <2> QED BY <2>1
<1>2. ASSUME NEW n \in Nat, n \in G
      PROVE  n + 1 \in G
  <2>1. PICK g : OptionsReading(verb, args, n, g)
    BY <1>2
  <2> DEFINE last == OptionStep(verb, g[n], args[n + 1])
             h    == [i \in 0..(n + 1) |-> IF i = n + 1 THEN last ELSE g[i]]
  <2>2. ASSUME NEW i \in 0..(n + 1)
        PROVE  h[i] = IF i = 0 THEN NoOptions ELSE OptionStep(verb, h[i - 1], args[i])
    <3>1. CASE i = n + 1
      <4>1. h[i] = OptionStep(verb, g[n], args[n + 1]) /\ h[i - 1] = g[n] /\ i # 0
        BY <3>1
      <4> HIDE DEF h
      <4> QED BY <3>1, <4>1
    <3>2. CASE i = 0
      BY <2>1, <3>2 DEF OptionsReading
    <3>3. CASE i \in 1..n
      <4>1. h[i] = g[i] /\ h[i - 1] = g[i - 1] /\ i \in 0..n /\ i # 0
        BY <3>3
      <4>2. g[i] = OptionStep(verb, g[i - 1], args[i])
        BY <2>1, <4>1 DEF OptionsReading
      <4> HIDE DEF h
      <4> QED BY <4>1, <4>2
    <3> QED BY <3>1, <3>2, <3>3
  <2>3. OptionsReading(verb, args, n + 1, h)
    <3>1. h = [i \in 0..(n + 1) |-> h[i]]
      OBVIOUS
    <3> HIDE DEF h
    <3> QED BY <2>2, <3>1 DEF OptionsReading
  <2> QED BY <2>3
<1> HIDE DEF G
<1>3. \A n \in Nat : n \in G
  BY <1>1, <1>2, SetInduction
<1> QED BY <1>3 DEF G

\* Its steps.
OptionSteps(verb, args, n, g) ==
  g[0] = NoOptions /\ \A i \in 1..n : g[i] = OptionStep(verb, g[i - 1], args[i])

LEMMA ReadOptionsReads ==
  ASSUME NEW verb, NEW args, Len(args) \in Nat
  PROVE  \E g : OptionSteps(verb, args, Len(args), g) /\ ReadOptions(verb, args) = g[Len(args)]
<1> DEFINE f == CHOOSE g : OptionsReading(verb, args, Len(args), g)
<1>1. OptionsReading(verb, args, Len(args), f)
  BY OptionsReadingExists
<1>2. ReadOptions(verb, args) = f[Len(args)]
  BY Zenon DEF ReadOptions, OptionsReading, OptionStep, NoOptions
<1>3. OptionSteps(verb, args, Len(args), f)
  <2> HIDE DEF f
  <2> QED BY <1>1 DEF OptionsReading, OptionSteps
<1> QED BY <1>2, <1>3

LEMMA NoneIsNoOption ==
  ASSUME NEW verb \in OptionVerbs
  PROVE  "none" \notin DOMAIN Options(verb)
  BY DEF Options, OptionVerbs

\* What has been read so far.
OptionsState(r, ok, name, set) == r.ok = ok /\ r.name = name /\ r.set = set

IsRead(r) == \E ok \in BOOLEAN : \E name, set : r = [ok |-> ok, name |-> name, set |-> set]

\* A step, by the cases of the loop.
StepCases(verb, r, arg, q) ==
  /\ IsRead(q)
  /\ ~ r.ok => q = r
  /\ r.ok /\ r.name # "none" =>
       OptionsState(q, arg.kind = Options(verb)[r.name], "none", With(r.set, r.name, arg.text))
  /\ r.ok /\ r.name = "none" /\ verb = "Press" /\ arg.kind = "integer" =>
       OptionsState(q, arg.text[1] \notin Huge, "none", With(r.set, "repeat", arg.text))
  /\ r.ok /\ r.name = "none" /\ ~ (verb = "Press" /\ arg.kind = "integer") /\ arg.kind = "ident" =>
       OptionsState(q, arg.text[1] \in DOMAIN Options(verb), arg.text[1], r.set)
  /\ r.ok /\ r.name = "none" /\ ~ (verb = "Press" /\ arg.kind = "integer") /\ arg.kind # "ident" =>
       ~ q.ok

LEMMA ReadsAreRead ==
  ASSUME NEW ok \in BOOLEAN, NEW name, NEW set, NEW q, q = [ok |-> ok, name |-> name, set |-> set]
  PROVE  IsRead(q) /\ OptionsState(q, ok, name, set)
<1>1. IsRead(q)
  BY Zenon DEF IsRead
<1>2. OptionsState(q, ok, name, set)
  BY DEF OptionsState
<1> QED BY <1>1, <1>2

LEMMA StepsByCases ==
  ASSUME NEW verb, NEW r, IsRead(r), NEW arg, NEW q, q = OptionStep(verb, r, arg)
  PROVE  StepCases(verb, r, arg, q)
<1>0. PICK ok \in BOOLEAN : \E name, set : r = [ok |-> ok, name |-> name, set |-> set]
  BY DEF IsRead
<1>1. PICK name, set : r = [ok |-> ok, name |-> name, set |-> set]
  BY <1>0
<1>2. r.ok = ok /\ r.name = name /\ r.set = set
  BY <1>1
<1>3. CASE ~ ok
  <2>1. q = r
    BY <1>2, <1>3 DEF OptionStep
  <2> QED BY <1>2, <1>3, <2>1 DEF StepCases
<1>4. CASE ok /\ name # "none"
  <2> DEFINE k == (arg.kind = Options(verb)[name])
             w == With(set, name, arg.text)
  <2>1. q = [ok |-> k, name |-> "none", set |-> w]
    BY <1>2, <1>4 DEF OptionStep
  <2>2. k \in BOOLEAN
    OBVIOUS
  <2> HIDE DEF k, w
  <2>3. IsRead(q) /\ OptionsState(q, k, "none", w)
    BY <2>1, <2>2, ReadsAreRead
  <2> QED BY <1>2, <1>4, <2>3 DEF StepCases, k, w
<1>5. CASE ok /\ name = "none" /\ verb = "Press" /\ arg.kind = "integer"
  <2> DEFINE k == arg.text[1] \notin Huge
             w == With(set, "repeat", arg.text)
  <2>1. q = [ok |-> k, name |-> name, set |-> w]
    BY <1>1, <1>2, <1>5 DEF OptionStep
  <2>2. k \in BOOLEAN
    OBVIOUS
  <2> HIDE DEF k, w
  <2>3. IsRead(q) /\ OptionsState(q, k, "none", w)
    BY <1>5, <2>1, <2>2, ReadsAreRead
  <2> QED BY <1>2, <1>5, <2>3 DEF StepCases, k, w
<1>6. CASE ok /\ name = "none" /\ ~ (verb = "Press" /\ arg.kind = "integer") /\ arg.kind = "ident"
  <2> DEFINE k == arg.text[1] \in DOMAIN Options(verb)
             w == arg.text[1]
  <2>1. q = [ok |-> k, name |-> w, set |-> set]
    BY <1>2, <1>6 DEF OptionStep
  <2>2. k \in BOOLEAN
    OBVIOUS
  <2> HIDE DEF k, w
  <2>3. IsRead(q) /\ OptionsState(q, k, w, set)
    BY <2>1, <2>2, ReadsAreRead
  <2> QED BY <1>2, <1>6, <2>3 DEF StepCases, k, w
<1>7. CASE ok /\ name = "none" /\ ~ (verb = "Press" /\ arg.kind = "integer") /\ arg.kind # "ident"
  <2>1. q = [ok |-> FALSE, name |-> name, set |-> set]
    BY <1>1, <1>2, <1>7 DEF OptionStep
  <2>2. ~ q.ok
    BY <2>1
  <2>3. IsRead(q) /\ ~ q.ok
    BY <2>1, <2>2, ReadsAreRead
  <2> QED BY <1>2, <1>7, <2>3 DEF StepCases
<1> QED BY <1>3, <1>4, <1>5, <1>6, <1>7

LEMMA OptionShapes ==
  ASSUME NEW verb, NEW args, NEW n \in Nat, NEW g, OptionSteps(verb, args, n, g)
  PROVE  /\ OptionsState(g[0], TRUE, "none", None)
         /\ \A i \in 0..n : IsRead(g[i])
         /\ \A i \in 1..n : StepCases(verb, g[i - 1], args[i], g[i])
<1> DEFINE S == {r \in {g[i] : i \in 0..n} : IsRead(r)}
<1>1. g[0] = NoOptions /\ \A i \in 1..n : g[i] = OptionStep(verb, g[i - 1], args[i])
  BY DEF OptionSteps
<1>2. IsRead(g[0]) /\ OptionsState(g[0], TRUE, "none", None)
  BY <1>1, ReadsAreRead DEF NoOptions
<1>3. ASSUME NEW i \in 1..n, IsRead(g[i - 1]) PROVE StepCases(verb, g[i - 1], args[i], g[i]) /\ IsRead(g[i])
  <2>1. StepCases(verb, g[i - 1], args[i], g[i])
    BY <1>1, <1>3, StepsByCases
  <2> QED BY <2>1 DEF StepCases
<1> DEFINE G == {i \in 0..n : IsRead(g[i])}
<1>4. \A i \in 0..n : i \in G
  <2>1. 0 \in G
    BY <1>2
  <2>2. \A i \in 1..n : i - 1 \in G => i \in G
    BY <1>3
  <2> HIDE DEF G
  <2> QED BY <2>1, <2>2, BoundedInduction
<1>5. \A i \in 0..n : IsRead(g[i])
  BY <1>4
<1>6. \A i \in 1..n : StepCases(verb, g[i - 1], args[i], g[i])
  <2>1. SUFFICES ASSUME NEW i \in 1..n PROVE StepCases(verb, g[i - 1], args[i], g[i])
    OBVIOUS
  <2>2. i - 1 \in 0..n
    OBVIOUS
  <2> QED BY <1>3, <1>5, <2>2
<1> QED BY <1>2, <1>5, <1>6

\* Once it is wrong, it stays wrong.
LEMMA OptionsStayWrong ==
  ASSUME NEW verb, NEW args, NEW n \in Nat, NEW g, OptionSteps(verb, args, n, g), g[n].ok
  PROVE  \A i \in 0..n : g[i].ok
<1>1. \A i \in 1..n : ~ g[i - 1].ok => ~ g[i].ok
  BY OptionShapes DEF StepCases
<1> SUFFICES ASSUME NEW m \in 0..n, ~ g[m].ok PROVE FALSE
  OBVIOUS
<1> DEFINE G == {i \in 0..n : i >= m => ~ g[i].ok}
<1>2. 0 \in G
  OBVIOUS
<1>3. ASSUME NEW i \in 1..n, i - 1 \in G PROVE i \in G
  <2>1. i \in 0..n /\ (i >= m => i = m \/ i - 1 >= m)
    OBVIOUS
  <2> QED BY <1>1, <1>3, <2>1
<1>4. n \in G
  <2>1. \A i \in 0..n : i \in G
    <3> HIDE DEF G
    <3> QED BY <1>2, <1>3, BoundedInduction
  <2>2. n \in 0..n
    OBVIOUS
  <2> QED BY <2>1, <2>2
<1> QED BY <1>4

LEMMA OptionsSound ==
  ASSUME NEW verb \in OptionVerbs, NEW args, NEW n \in Nat, DOMAIN args = 1..n, NEW g,
         OptionSteps(verb, args, n, g), g[n].ok, g[n].name = "none"
  PROVE  Named(verb, args, {i \in 1..n : g[i].name # "none"})
<1> DEFINE N == {i \in 1..n : g[i].name # "none"}
<1>1. \A i \in 0..n : g[i].ok
  BY OptionsStayWrong
<1>2. /\ g[0].name = "none"
      /\ \A i \in 1..n : StepCases(verb, g[i - 1], args[i], g[i])
  BY OptionShapes DEF OptionsState
<1>3. "none" \notin DOMAIN Options(verb)
  BY NoneIsNoOption
<1>4. ASSUME NEW i \in 1..n, g[i - 1].name # "none"
      PROVE  g[i].name = "none" /\ args[i].kind = Options(verb)[g[i - 1].name]
  <2>1. i - 1 \in 0..n /\ i \in 0..n
    OBVIOUS
  <2>2. g[i - 1].ok /\ g[i].ok /\ StepCases(verb, g[i - 1], args[i], g[i])
    BY <1>1, <1>2, <2>1
  <2> QED BY <1>4, <2>2 DEF StepCases, OptionsState
<1>5. ASSUME NEW i \in 1..n, g[i - 1].name = "none"
      PROVE  \/ /\ g[i].name = "none" /\ verb = "Press" /\ args[i].kind = "integer"
                /\ args[i].text[1] \notin Huge
             \/ /\ args[i].kind = "ident" /\ args[i].text[1] \in DOMAIN Options(verb)
                /\ g[i].name = args[i].text[1] /\ g[i].name # "none"
  <2>1. i - 1 \in 0..n /\ i \in 0..n
    OBVIOUS
  <2>2. g[i - 1].ok /\ g[i].ok /\ StepCases(verb, g[i - 1], args[i], g[i])
    BY <1>1, <1>2, <2>1
  <2> QED BY <1>3, <1>5, <2>2 DEF StepCases, OptionsState
<1>6. ASSUME NEW i \in N
      PROVE  /\ args[i].kind = "ident" /\ args[i].text[1] \in DOMAIN Options(verb)
             /\ i + 1 \in 1..n /\ i + 1 \notin N
             /\ args[i + 1].kind = Options(verb)[args[i].text[1]]
  <2>1. i \in 1..n /\ g[i].name # "none"
    OBVIOUS
  <2>2. i # n /\ i + 1 \in 1..n /\ (i + 1) - 1 = i
    BY <2>1
  <2>3. g[i - 1].name = "none"
    BY <1>4, <2>1
  <2>4. /\ args[i].kind = "ident" /\ args[i].text[1] \in DOMAIN Options(verb)
        /\ g[i].name = args[i].text[1]
    BY <1>5, <2>1, <2>3
  <2>5. g[i + 1].name = "none" /\ args[i + 1].kind = Options(verb)[g[i].name]
    BY <1>4, <2>1, <2>2
  <2> QED BY <2>2, <2>4, <2>5
<1>7. ASSUME NEW i \in 1..n, i \notin N, i - 1 \notin N
      PROVE  verb = "Press" /\ args[i].kind = "integer" /\ args[i].text[1] \notin Huge
  <2>1. g[i].name = "none"
    BY <1>7
  <2>2. g[i - 1].name = "none"
    <3>1. i - 1 = 0 \/ i - 1 \in 1..n
      OBVIOUS
    <3> QED BY <1>2, <1>7, <3>1
  <2> QED BY <1>5, <2>1, <2>2
<1> HIDE DEF N
<1>8. Named(verb, args, N)
  BY <1>6, <1>7 DEF Named
<1> QED BY <1>8 DEF N

\* What a name, a value and everything else do to what has been read.
LEMMA OptionsComplete ==
  ASSUME NEW verb \in OptionVerbs, NEW args, NEW n \in Nat, DOMAIN args = 1..n, NEW g,
         OptionSteps(verb, args, n, g), NEW N \in SUBSET (1..n), Named(verb, args, N)
  PROVE  /\ g[0].set = None
         /\ \A i \in 0..n : g[i].ok /\ g[i].name = IF i \in N THEN args[i].text[1] ELSE "none"
         /\ \A i \in 1..n : g[i].set = IF i \in N THEN g[i - 1].set
                                       ELSE With(g[i - 1].set, Sets(args, N, i), args[i].text)
<1> DEFINE P(i) == g[i].ok /\ g[i].name = IF i \in N THEN args[i].text[1] ELSE "none"
           Q(i) == g[i].set = IF i \in N THEN g[i - 1].set
                              ELSE With(g[i - 1].set, Sets(args, N, i), args[i].text)
<1>1. /\ OptionsState(g[0], TRUE, "none", None)
      /\ \A i \in 1..n : StepCases(verb, g[i - 1], args[i], g[i])
  BY OptionShapes
<1>2. "none" \notin DOMAIN Options(verb)
  BY NoneIsNoOption
<1>3. /\ \A i \in N : /\ args[i].kind = "ident" /\ args[i].text[1] \in DOMAIN Options(verb)
                      /\ i + 1 \notin N
                      /\ args[i + 1].kind = Options(verb)[args[i].text[1]]
      /\ \A i \in (1..n) \ N :
           i - 1 \in N \/ (verb = "Press" /\ args[i].kind = "integer" /\ args[i].text[1] \notin Huge)
  BY DEF Named
<1>4. P(0)
  <2>1. 0 \notin N
    OBVIOUS
  <2> QED BY <1>1, <2>1 DEF OptionsState
<1>5. ASSUME NEW i \in 1..n, P(i - 1) PROVE P(i) /\ Q(i)
  <2> DEFINE r == g[i - 1]
             q == g[i]
             a == args[i]
  <2>1. StepCases(verb, r, a, q) /\ r.ok
    BY <1>1, <1>5
  <2>2. CASE i - 1 \in N
    <3> DEFINE name == args[i - 1].text[1]
    <3>1. r.name = name /\ name # "none"
      BY <1>2, <1>3, <1>5, <2>2
    <3>2. i \notin N /\ a.kind = Options(verb)[name]
      <4>1. (i - 1) + 1 = i
        OBVIOUS
      <4> QED BY <1>3, <2>2, <4>1
    <3>3. Sets(args, N, i) = name
      BY <2>2 DEF Sets
    <3> HIDE DEF r, q, a, name
    <3>4. q.ok /\ q.name = "none" /\ q.set = With(r.set, name, a.text)
      BY <2>1, <3>1, <3>2 DEF StepCases, OptionsState
    <3> QED BY <3>2, <3>3, <3>4 DEF r, q, a
  <2>3. CASE i - 1 \notin N /\ i \in N
    <3>1. r.name = "none"
      BY <1>5, <2>3
    <3>2. a.kind = "ident" /\ a.text[1] \in DOMAIN Options(verb)
      BY <1>3, <2>3
    <3> HIDE DEF r, q, a
    <3>3. q.ok /\ q.name = a.text[1] /\ q.set = r.set
      BY <2>1, <3>1, <3>2 DEF StepCases, OptionsState
    <3> QED BY <2>3, <3>3 DEF r, q, a
  <2>4. CASE i - 1 \notin N /\ i \notin N
    <3>1. r.name = "none"
      BY <1>5, <2>4
    <3>2. verb = "Press" /\ a.kind = "integer" /\ a.text[1] \notin Huge
      BY <1>3, <2>4
    <3>3. Sets(args, N, i) = "repeat"
      BY <2>4 DEF Sets
    <3> HIDE DEF r, q, a
    <3>4. q.ok /\ q.name = "none" /\ q.set = With(r.set, "repeat", a.text)
      BY <2>1, <3>1, <3>2 DEF StepCases, OptionsState
    <3> QED BY <2>4, <3>3, <3>4 DEF r, q, a
  <2> QED BY <2>2, <2>3, <2>4
<1> DEFINE G == {i \in 0..n : P(i)}
<1>6. \A i \in 0..n : i \in G
  <2>1. 0 \in G
    BY <1>4
  <2>2. \A i \in 1..n : i - 1 \in G => i \in G
    <3>1. SUFFICES ASSUME NEW i \in 1..n, i - 1 \in G PROVE i \in G
      OBVIOUS
    <3>2. P(i - 1)
      BY <3>1
    <3>3. P(i)
      BY <1>5, <3>2
    <3>4. i \in 0..n
      OBVIOUS
    <3> HIDE DEF P
    <3> QED BY <3>3, <3>4
  <2> HIDE DEF G
  <2> QED BY <2>1, <2>2, BoundedInduction
<1>7. \A i \in 0..n : P(i)
  <2> HIDE DEF P
  <2> QED BY <1>6
<1>8. ASSUME NEW i \in 1..n PROVE Q(i)
  <2>1. i - 1 \in 0..n
    OBVIOUS
  <2>2. P(i - 1)
    <3> HIDE DEF P
    <3> QED BY <1>7, <2>1
  <2> HIDE DEF P, Q
  <2> QED BY <1>5, <2>2
<1> QED BY <1>1, <1>7, <1>8 DEF OptionsState

\* The values up to i, the last of each option.
SetUpTo(args, N, i, set) ==
  /\ set = [x \in DOMAIN set |-> set[x]]
  /\ DOMAIN set = {Sets(args, N, j) : j \in (1..i) \ N}
  /\ \A j \in (1..i) \ N :
       (\A k \in (1..i) \ N : Sets(args, N, k) = Sets(args, N, j) => k <= j)
       => set[Sets(args, N, j)] = args[j].text

LEMMA SetByOne ==
  ASSUME NEW args, NEW N, NEW i \in Nat \ {0}, NEW set, SetUpTo(args, N, i - 1, set)
  PROVE  SetUpTo(args, N, i, IF i \in N THEN set ELSE With(set, Sets(args, N, i), args[i].text))
<1> DEFINE name == Sets(args, N, i)
           value == args[i].text
           more  == With(set, name, value)
<1>0. \A j \in 1..i : j \in 1..(i - 1) \/ j = i
  OBVIOUS
<1>1. CASE i \in N
  <2>1. (1..i) \ N = (1..(i - 1)) \ N
    BY <1>0, <1>1
  <2> QED BY <1>1, <2>1 DEF SetUpTo
<1>2. CASE i \notin N
  <2> DEFINE V == (1..(i - 1)) \ N
             W == (1..i) \ N
             S(j) == Sets(args, N, j)
  <2>1. W = V \cup {i}
    BY <1>2
  <2>2. /\ set = [x \in DOMAIN set |-> set[x]]
        /\ DOMAIN set = {S(j) : j \in V}
        /\ \A j \in V : (\A k \in V : S(k) = S(j) => k <= j) => set[S(j)] = args[j].text
    BY DEF SetUpTo
  <2>3. more = [x \in DOMAIN set \cup {name} |-> IF x = name THEN value ELSE set[x]]
    BY DEF With
  <2>4. S(i) = name
    OBVIOUS
  <2>5. \A j \in V : j < i /\ j \in Nat
    OBVIOUS
  <2> HIDE DEF V, W, S, name, value, more
  <2>6. DOMAIN more = {S(j) : j \in W} /\ more = [x \in DOMAIN more |-> more[x]]
    BY <2>1, <2>2, <2>3, <2>4
  <2>7. ASSUME NEW j \in W, \A k \in W : S(k) = S(j) => k <= j PROVE more[S(j)] = args[j].text
    <3>1. CASE j = i
      <4>1. more[name] = value
        BY <2>3
      <4> QED BY <2>4, <3>1, <4>1 DEF value
    <3>2. CASE j # i
      <4>1. j \in V /\ i \in W
        BY <2>1, <3>2
      <4>2. S(j) # name
        <5>1. ~ i <= j
          BY <2>5, <4>1
        <5> QED BY <2>4, <2>7, <4>1, <5>1
      <4>3. set[S(j)] = args[j].text
        BY <2>1, <2>2, <2>7, <4>1
      <4>4. S(j) \in DOMAIN set
        BY <2>2, <4>1
      <4>5. more[S(j)] = set[S(j)]
        BY <2>3, <4>2, <4>4
      <4> QED BY <4>3, <4>5
    <3> QED BY <3>1, <3>2
  <2>8. SetUpTo(args, N, i, more)
    BY <2>6, <2>7 DEF SetUpTo, W, S
  <2> QED BY <1>2, <2>8 DEF more, name, value
<1> QED BY <1>1, <1>2

\* The last value of each option.
LastValues(args, N, values) ==
  [name \in {Sets(args, N, i) : i \in values} |->
     args[CHOOSE i \in values : /\ Sets(args, N, i) = name
                                /\ \A j \in values : Sets(args, N, j) = name => j <= i].text]

LEMMA LastIsSet ==
  ASSUME NEW args, NEW n \in Nat, NEW N, NEW set, SetUpTo(args, N, n, set),
         NEW values, values = (1..n) \ N
  PROVE  set = LastValues(args, N, values)
<1> DEFINE S(j) == Sets(args, N, j)
           last(name) == CHOOSE i \in values : S(i) = name /\ \A j \in values : S(j) = name => j <= i
           D == {S(i) : i \in values}
<1>1. /\ set = [x \in DOMAIN set |-> set[x]]
      /\ DOMAIN set = D
      /\ \A j \in values : (\A k \in values : S(k) = S(j) => k <= j) => set[S(j)] = args[j].text
  BY DEF SetUpTo
<1>2. ASSUME NEW name \in D PROVE set[name] = args[last(name)].text
  <2> DEFINE T == {i \in values : S(i) = name}
             m == LastOf(T)
             c == last(name)
  <2>1. T # {} /\ T \in SUBSET (0..n)
    OBVIOUS
  <2> HIDE DEF T
  <2>2. m \in T /\ \A j \in T : j <= m
    BY <2>1, LastIsLast
  <2>3. \E i \in values : S(i) = name /\ \A j \in values : S(j) = name => j <= i
    BY <2>2 DEF T
  <2>4. c \in values /\ S(c) = name /\ \A j \in values : S(j) = name => j <= c
    <3> HIDE DEF S
    <3> QED BY <2>3
  <2> HIDE DEF c, S
  <2>5. set[S(c)] = args[c].text
    BY <1>1, <2>4
  <2> QED BY <2>4, <2>5 DEF c
<1>3. set = [x \in D |-> set[x]]
  BY <1>1
<1> HIDE DEF D, last
<1>4. [x \in D |-> set[x]] = [name \in D |-> args[last(name)].text]
  BY <1>2
<1>5. set = [name \in D |-> args[last(name)].text]
  BY <1>3, <1>4
<1> QED BY <1>5, Zenon DEF D, last, LastValues

\* The loops find the options that are there.
OptionsFound(verb, args) ==
  LET r == ReadOptions(verb, args)
  IN  /\ (r.ok /\ r.name = "none") <=> OptionsFit(verb, args)
      /\ OptionsFit(verb, args) => r.set = OptionsSaid(verb, args)

LEMMA OptionsRead ==
  ASSUME NEW verb \in OptionVerbs, NEW S, NEW args \in Seq(S)
  PROVE  OptionsFound(verb, args)
<1> DEFINE n == Len(args)
<1>1. n \in Nat /\ DOMAIN args = 1..n
  BY LenProperties
<1>2. PICK g : OptionSteps(verb, args, n, g) /\ ReadOptions(verb, args) = g[n]
  BY <1>1, ReadOptionsReads
<1> HIDE DEF n
<1>3. ASSUME g[n].ok, g[n].name = "none" PROVE OptionsFit(verb, args)
  <2> DEFINE N == {i \in 1..n : g[i].name # "none"}
  <2>1. Named(verb, args, N)
    BY <1>1, <1>2, <1>3, OptionsSound, ZenonT(30)
  <2>2. N \in SUBSET DOMAIN args
    BY <1>1
  <2> HIDE DEF N
  <2> QED BY <2>1, <2>2 DEF OptionsFit
<1>4. ASSUME OptionsFit(verb, args)
      PROVE  g[n].ok /\ g[n].name = "none" /\ g[n].set = OptionsSaid(verb, args)
  <2> DEFINE M == CHOOSE N \in SUBSET DOMAIN args : Named(verb, args, N)
             values == DOMAIN args \ M
  <2>1. M \in SUBSET (1..n) /\ Named(verb, args, M)
    <3>1. \E N \in SUBSET DOMAIN args : Named(verb, args, N)
      BY <1>4 DEF OptionsFit
    <3>2. M \in SUBSET DOMAIN args /\ Named(verb, args, M)
      BY <3>1
    <3> HIDE DEF M
    <3> QED BY <1>1, <3>2
  <2>2. values = (1..n) \ M
    BY <1>1
  <2>3. OptionsSaid(verb, args) = LastValues(args, M, values)
    BY Zenon DEF OptionsSaid, LastValues
  <2> HIDE DEF M, values
  <2>4. /\ g[0].set = None
        /\ \A i \in 0..n : g[i].ok /\ g[i].name = IF i \in M THEN args[i].text[1] ELSE "none"
        /\ \A i \in 1..n : g[i].set = IF i \in M THEN g[i - 1].set
                                      ELSE With(g[i - 1].set, Sets(args, M, i), args[i].text)
    BY <1>1, <1>2, <2>1, OptionsComplete
  <2>5. n \notin M
    <3>1. SUFFICES ASSUME n \in M PROVE FALSE
      OBVIOUS
    <3>2. n + 1 \in DOMAIN args
      BY <2>1, <3>1 DEF Named
    <3> QED BY <1>1, <3>2
  <2>6. g[n].ok /\ g[n].name = "none"
    <3>1. n \in 0..n
      BY <1>1
    <3> QED BY <2>4, <2>5, <3>1
  <2> DEFINE G == {i \in 0..n : SetUpTo(args, M, i, g[i].set)}
  <2>7. \A i \in 0..n : i \in G
    <3>1. 0 \in G
      <4>1. SetUpTo(args, M, 0, None)
        BY DEF SetUpTo, None
      <4> QED BY <1>1, <2>4, <4>1
    <3>2. \A i \in 1..n : i - 1 \in G => i \in G
      <4>1. SUFFICES ASSUME NEW i \in 1..n, i - 1 \in G PROVE i \in G
        OBVIOUS
      <4> DEFINE s == g[i - 1].set
      <4>2. i \in Nat \ {0} /\ i \in 0..n
        BY <1>1
      <4>3. SetUpTo(args, M, i - 1, s)
        BY <4>1
      <4>4. g[i].set = IF i \in M THEN s ELSE With(s, Sets(args, M, i), args[i].text)
        BY <2>4
      <4> HIDE DEF s
      <4>5. SetUpTo(args, M, i, g[i].set)
        BY <4>2, <4>3, <4>4, SetByOne
      <4> QED BY <4>2, <4>5
    <3> HIDE DEF G
    <3> QED BY <1>1, <3>1, <3>2, BoundedInduction
  <2>8. SetUpTo(args, M, n, g[n].set)
    <3>1. n \in 0..n
      BY <1>1
    <3> QED BY <2>7, <3>1
  <2> DEFINE set == g[n].set
  <2>9. SetUpTo(args, M, n, set)
    BY <2>8
  <2> HIDE DEF set
  <2>10. set = OptionsSaid(verb, args)
    BY <1>1, <2>2, <2>3, <2>9, LastIsSet
  <2> QED BY <2>6, <2>10 DEF set
<1> QED BY <1>2, <1>3, <1>4 DEF OptionsFound

-----------------------------------------------------------------------------
(* Actions. *)

\* The actions of a line are those it says, and there are none if it is wrong.
ActionsFound(verb, args, prompt) ==
  /\ BodyLineFits(verb, args) => /\ Actions(verb, args, prompt) = ActionsSaid(verb, args, prompt)
                                 /\ Actions(verb, args, prompt) # <<>>
  /\ ~ BodyLineFits(verb, args) => Actions(verb, args, prompt) = <<>>

\* Verbs with a first argument, of some kinds, and options.
WithOptions(verb, kinds) ==
  \/ verb \in {"Type", "PresentTyped"} /\ kinds = Bytes
  \/ verb = "WaitFor" /\ kinds = {"regex"}
  \/ verb = "Sleep" /\ kinds = {"duration"}
  \/ verb = "Press" /\ kinds = {"ident"}

LEMMA ActionsRead ==
  ASSUME NEW verb, NEW S, NEW args \in Seq(S), NEW prompt
  PROVE  ActionsFound(verb, args, prompt)
<1> DEFINE simple == <<Action(verb, args[1].text, None)>>
<1>1. CASE verb \in {"Send", "Present", "Mark"}
  <2>1. BodyLineFits(verb, args) <=> OneOf(args, Bytes)
    BY <1>1, Zenon DEF BodyLineFits
  <2>2. ActionsSaid(verb, args, prompt) = simple
    BY <1>1 DEF ActionsSaid
  <2>3. Actions(verb, args, prompt) = IF OneOf(args, Bytes) THEN simple ELSE <<>>
    BY <1>1, Zenon DEF Actions
  <2>4. simple # <<>>
    OBVIOUS
  <2> HIDE DEF simple
  <2> QED BY <2>1, <2>2, <2>3, <2>4 DEF ActionsFound
<1>2. CASE verb = "Run"
  <2> DEFINE spelled == <<Action("Type", args[1].text, None), Action("Press", <<"Enter">>, None),
                          WaitForThePrompt(prompt, None, RunLabel)>>
  <2>1. BodyLineFits(verb, args) <=> OneOf(args, Bytes)
    BY <1>2 DEF BodyLineFits
  <2>2. ActionsSaid(verb, args, prompt) = spelled
    BY <1>2 DEF ActionsSaid
  <2>3. Actions(verb, args, prompt) = IF OneOf(args, Bytes) THEN spelled ELSE <<>>
    BY <1>2 DEF Actions
  <2>4. spelled # <<>>
    OBVIOUS
  <2> HIDE DEF spelled
  <2> QED BY <2>1, <2>2, <2>3, <2>4 DEF ActionsFound
<1>3. CASE verb = "WaitForPrompt"
  <2> DEFINE r       == ReadOptions(verb, args)
             waiting(set) == <<WaitForThePrompt(prompt, set, PromptLabel)>>
  <2>1. OptionsFound(verb, args)
    BY <1>3, OptionsRead DEF OptionVerbs
  <2>2. /\ (r.ok /\ r.name = "none") <=> OptionsFit(verb, args)
        /\ OptionsFit(verb, args) => r.set = OptionsSaid(verb, args)
    BY <2>1 DEF OptionsFound
  <2>3. BodyLineFits(verb, args) <=> OptionsFit(verb, args)
    BY <1>3 DEF BodyLineFits
  <2>4. ActionsSaid(verb, args, prompt) = waiting(OptionsSaid(verb, args))
    BY <1>3 DEF ActionsSaid
  <2>5. Actions(verb, args, prompt) = IF r.ok /\ r.name = "none" THEN waiting(r.set) ELSE <<>>
    BY <1>3 DEF Actions
  <2>6. \A set : waiting(set) # <<>>
    OBVIOUS
  <2> HIDE DEF waiting, r
  <2> QED BY <2>2, <2>3, <2>4, <2>5, <2>6 DEF ActionsFound
<1>4. ASSUME NEW kinds, WithOptions(verb, kinds)
      PROVE  ActionsFound(verb, args, prompt)
  <2> DEFINE r            == ReadOptions(verb, Tail(args))
             acting(set)  == <<Action(verb, args[1].text, set)>>
             first        == args # <<>> /\ args[1].kind \in kinds
             key          == verb = "Press" => args[1].text[1] \in KeyNames
             fine         == r.ok /\ r.name = "none"
  <2>1. args # <<>> => /\ fine <=> OptionsFit(verb, Tail(args))
                       /\ OptionsFit(verb, Tail(args)) => r.set = OptionsSaid(verb, Tail(args))
    <3>1. SUFFICES ASSUME args # <<>> PROVE OptionsFound(verb, Tail(args))
      BY DEF OptionsFound
    <3>2. Tail(args) \in Seq(S)
      BY <3>1
    <3>3. verb \in OptionVerbs
      BY <1>4 DEF WithOptions, OptionVerbs
    <3> QED BY <3>2, <3>3, OptionsRead
  <2>3. BodyLineFits(verb, args) <=> (first /\ key /\ OptionsFit(verb, Tail(args)))
    BY <1>4 DEF BodyLineFits, WithOptions
  <2>4. ActionsSaid(verb, args, prompt) = acting(OptionsSaid(verb, Tail(args)))
    BY <1>4 DEF ActionsSaid, WithOptions
  <2>5. Actions(verb, args, prompt) = IF first /\ key /\ fine THEN acting(r.set) ELSE <<>>
    BY <1>4 DEF Actions, WithOptions
  <2>6. \A set : acting(set) # <<>>
    OBVIOUS
  <2>7. first => args # <<>>
    OBVIOUS
  <2> HIDE DEF acting, r, first, key, fine
  <2> QED BY <2>1, <2>3, <2>4, <2>5, <2>6, <2>7 DEF ActionsFound
<1>5. CASE verb \notin OptionVerbs \cup {"Send", "Present", "Mark", "Run"}
  <2>1. ~ BodyLineFits(verb, args)
    BY <1>5 DEF BodyLineFits, OptionVerbs
  <2>2. Actions(verb, args, prompt) = <<>>
    BY <1>5 DEF Actions, OptionVerbs
  <2> QED BY <2>1, <2>2 DEF ActionsFound
<1>6. verb \in OptionVerbs => verb = "WaitForPrompt" \/ \E kinds : WithOptions(verb, kinds)
  BY DEF OptionVerbs, WithOptions
<1> QED BY <1>1, <1>2, <1>3, <1>4, <1>5, <1>6

-----------------------------------------------------------------------------
(***************************************************************************)
(* The inductive invariant: what has been read, in each phase, is what the *)
(* statements up to there say.                                             *)
(***************************************************************************)
Texts    == [k \in DOMAIN document |-> document[k].text]
Saying   == {document[k] : k \in {j \in DOMAIN document : document[j].says # "nothing"}}
Sayings  == {"version", "setting", "actions", "wrong"}

\* The statements that say something, among the first k.
UpTo(k) == Only(SubSeq(document, 1, k), Saying)

\* A statement that can be read, and the logical line that is read.
IsFormed(s) == s.says \in Sayings /\ IsForm(s.form) /\ s.says = Says(s.form.verb, Args(s.form))

LogicalLine(s)  == [verb |-> s.form.verb, args |-> Args(s.form)]
LogicalLines(S) == [i \in DOMAIN S |-> LogicalLine(S[i])]

\* The lines of the first k statements are lexed.
LexedUpTo(k) ==
  /\ at = 1 + Len(Concat(Texts, k))
  /\ lines = LogicalLines(UpTo(k))
  /\ \A j \in 1..k : document[j].says # "nothing" => IsFormed(document[j])

AllLexed ==
  /\ lines = LogicalLines(Statements)
  /\ \A i \in DOMAIN Statements : IsFormed(Statements[i])

\* What the first m of some statements set.
GivenUpTo(S, field, m) == {i \in 1..m : SettingOf(S[i], field)}
Setting(s) == Given(s.form.verb[1], Args(s.form))
LastUpTo(S, field, m) ==
  IF GivenUpTo(S, field, m) = {} THEN {} ELSE {Setting(S[LastOf(GivenUpTo(S, field, m))])}

EnvParts(S) ==
  [i \in DOMAIN S |-> IF SettingOf(S[i], "env") THEN <<Args(S[i].form)>> ELSE <<>>]

HeaderUpTo(S, h, m) ==
  /\ h = [field \in DOMAIN NoHeader |-> h[field]]
  /\ h.env = Concat(EnvParts(S), m)
  /\ \A field \in DOMAIN NoHeader \ {"env"} : h[field] = LastUpTo(S, field, m)
  /\ \A i, j \in GivenUpTo(S, "spawn", m) : i = j

\* A version and settings, before the one at a.
InHeader(S, a, h) ==
  /\ a \in 2..(Len(S) + 1)
  /\ S[1].says = "version"
  /\ \A i \in 2..(a - 1) : S[i].says = "setting"
  /\ HeaderUpTo(S, h, a - 1)

ActionParts(S, prompt) ==
  [i \in DOMAIN S |->
     IF S[i].says = "actions" THEN ActionsSaid(S[i].form.verb[1], Args(S[i].form), prompt) ELSE <<>>]

\* Settings up to one place, actions from there on.
InBody(S, a, h, b) ==
  /\ a \in 2..(Len(S) + 1)
  /\ S[1].says = "version"
  /\ \E c \in 2..a : /\ \A i \in 2..(c - 1) : S[i].says = "setting"
                     /\ \A i \in c..(a - 1) : S[i].says = "actions"
                     /\ c <= Len(S) => S[c].says # "setting"
  /\ h.spawn # {} /\ HeaderUpTo(S, h, a - 1)
  /\ b = Concat(ActionParts(S, PromptOf(h.prompt)), a - 1)

\* What was read is what is written.
AllRead ==
  /\ body = AllActions
  /\ header.env = EnvGiven
  /\ \A field \in DOMAIN NoHeader \ {"env"} : header[field] = LastGiven(field)

\* A literal is cut off at a hash.
SomeCutOff == \E i \in DOMAIN Statements : CutOff(Statements[i].form)

ScriptInv ==
  /\ document \in Documents /\ source = Concat(Texts, Len(document))
  /\ phase \in {"lex", "version", "header", "body", "accepted", "rejected"}
  /\ phase = "lex" => (\E k \in 0..Len(document) : LexedUpTo(k))
  /\ phase \in {"version", "header", "body"} => AllLexed
  /\ phase \in {"lex", "version"} => header = NoHeader
  /\ phase = "version" => at = 1
  /\ phase = "header" => InHeader(Statements, at, header)
  /\ phase \in {"lex", "version", "header"} => body = <<>>
  /\ phase = "body" => InBody(Statements, at, header, body)
  /\ phase = "accepted" => WellFormed /\ AllRead
  /\ phase = "rejected" => (WellFormed => SomeCutOff)

-----------------------------------------------------------------------------
(* What Only keeps. *)

LEMMA OnlyKeeps ==
  ASSUME NEW M, NEW s \in Seq(M), NEW S, NEW j \in 1..Len(s), s[j] \in S
  PROVE  \E i \in 1..Len(Only(s, S)) : Only(s, S)[i] = s[j]
<1> DEFINE n       == Len(s)
           to(k)   == Only(SubSeq(s, 1, k), S)
           Has(t)  == \E i \in 1..Len(t) : t[i] = s[j]
           G       == {k \in 0..n : k >= j => Has(to(k))}
<1>0. n \in Nat
  BY LenProperties
<1>1. ASSUME NEW k \in 1..n, k - 1 \in G PROVE k \in G
  <2> DEFINE t == to(k - 1)
             x == s[k]
  <2>1. /\ SubSeq(s, 1, k - 1) \in Seq(M) /\ x \in M
        /\ SubSeq(s, 1, k) = Append(SubSeq(s, 1, k - 1), x)
    <3>1. k - 1 \in Nat /\ (k - 1) + 1 = k /\ k <= Len(s)
      BY <1>0
    <3> QED BY <3>1, PrefixByOne
  <2>2. (x \in S => to(k) = Append(t, x)) /\ (x \notin S => to(k) = t) /\ t \in Seq(M)
    <3> DEFINE p == SubSeq(s, 1, k - 1)
    <3>1. p \in Seq(M) /\ x \in M /\ SubSeq(s, 1, k) = Append(p, x)
      BY <2>1
    <3> HIDE DEF p, x
    <3>2. /\ x \in S => Only(Append(p, x), S) = Append(Only(p, S), x)
          /\ x \notin S => Only(Append(p, x), S) = Only(p, S)
          /\ Only(p, S) \in Seq(M)
      BY <3>1, OnlyOfMore, OnlyIsSeq
    <3> QED BY <3>1, <3>2 DEF p
  <2> HIDE DEF t, to
  <2>3. /\ Len(t) \in Nat /\ Len(Append(t, x)) = Len(t) + 1
        /\ Append(t, x)[Len(t) + 1] = x
        /\ \A i \in 1..Len(t) : Append(t, x)[i] = t[i]
    BY <2>1, <2>2, AppendProperties, LenProperties
  <2>4. Has(t) => Has(Append(t, x))
    BY <2>3
  <2>5. k = j => Has(to(k))
    BY <2>2, <2>3
  <2>6. k >= j => k = j \/ k - 1 >= j
    BY <1>0
  <2>7. k - 1 >= j => Has(t)
    BY <1>1 DEF t
  <2> HIDE DEF Has
  <2>8. k >= j => Has(to(k))
    BY <2>2, <2>4, <2>5, <2>6, <2>7
  <2> QED BY <2>8
<1>2. 0 \in G
  BY <1>0
<1>3. n \in G
  <2>1. \A k \in 0..n : k \in G
    <3> HIDE DEF G
    <3> QED BY <1>0, <1>1, <1>2, BoundedInduction
  <2>2. n \in 0..n
    BY <1>0
  <2> HIDE DEF G
  <2> QED BY <2>1, <2>2
<1>4. n >= j
  BY <1>0
<1>5. to(n) = Only(s, S)
  <2>1. SubSeq(s, 1, n) = s
    BY WholePrefix
  <2> QED BY <2>1
<1>6. Has(to(n))
  BY <1>3, <1>4
<1> QED BY <1>5, <1>6

-----------------------------------------------------------------------------
(* The document. *)

Documented == document \in Documents /\ source = Concat(Texts, Len(document))

\* The statements as a sequence of what is in D, and the lines they are written as.
IsLaidOut(n, D) ==
  /\ n = Len(document) /\ n \in Nat /\ DOMAIN document = 1..n /\ document \in Seq(D)
  /\ \A k \in 1..n : /\ IsStatement(document, k) /\ Texts[k] = document[k].text
                     /\ Texts[k] \in Seq(Lines) /\ Len(Texts[k]) \in Nat \ {0}
  /\ LaidOut(Texts, n) /\ IsSource /\ Len(source) = Len(Concat(Texts, n))
  /\ \A i \in 1..n : \A k \in 1..Len(Texts[i]) :
       source[Len(Concat(Texts, i - 1)) + k] = Texts[i][k]

LEMMA FormHasLines ==
  ASSUME NEW form, IsForm(form)
  PROVE  LET belows == [i \in DOMAIN form.args |-> Below(form.args[i])]
             n      == Len(form.args)
         IN  /\ LinesOf(form) = <<LineOf(form)>> \o Concat(belows, n)
             /\ Len(LinesOf(form)) = 1 + Len(Concat(belows, n)) /\ Len(Concat(belows, n)) \in Nat
             /\ LinesOf(form)[1] = LineOf(form)
             /\ \A j \in 1..Len(Concat(belows, n)) : LinesOf(form)[1 + j] = Concat(belows, n)[j]
<1> DEFINE belows == [i \in DOMAIN form.args |-> Below(form.args[i])]
           n      == Len(form.args)
           c      == Concat(belows, n)
           line   == LineOf(form)
<1>1. IsArguments(form.args) /\ line \in Lines
  <2>1. IsOpening(form) /\ form.tail \in Lines
    BY FormOpens
  <2> QED BY <2>1, OpeningLaidOut DEF IsOpening, LineOf
<1>2. n \in Nat /\ DOMAIN form.args = 1..n /\ \A i \in 1..n : IsArgument(form.args[i])
  BY <1>1, ListLength DEF IsArguments
<1>3. \A i \in 1..n : belows[i] \in Seq(Lines)
  BY <1>2, BelowIsLines
<1>4. LinesOf(form) = <<line>> \o c
  BY DEF LinesOf
<1> HIDE DEF belows, n, line
<1>5. c \in Seq(Lines)
  <2>1. n \in 0..n
    BY <1>2
  <2> QED BY <1>2, <1>3, <2>1, JoinedByOne
<1>6. <<line>> \in Seq(Lines) /\ Len(<<line>>) = 1 /\ <<line>>[1] = line
  BY <1>1
<1> HIDE DEF c
<1> DEFINE h == <<line>>
           w == h \o c
<1>7. h \in Seq(Lines) /\ Len(h) = 1 /\ h[1] = line
  BY <1>6
<1> HIDE DEF h
<1>8. Glued(Lines, h, c, w)
  BY <1>5, <1>7, ConcatGlues
<1> HIDE DEF w
<1>9. LinesOf(form) = w
  BY <1>4 DEF w, h
<1>10. Len(c) \in Nat
  BY <1>5, LenProperties
<1>11. Len(w) = 1 + Len(c) /\ w[1] = line /\ \A j \in 1..Len(c) : w[1 + j] = c[j]
  BY <1>7, <1>8, <1>10 DEF Glued
<1> QED BY <1>4, <1>9, <1>10, <1>11 DEF c, n, belows, line

LEMMA DocumentLaidOut ==
  ASSUME Documented
  PROVE  \E n, D : IsLaidOut(n, D)
<1> DEFINE n == Len(document)
<1>1. IsList(document) /\ \A k \in DOMAIN document : IsStatement(document, k)
  BY DocumentsAssumption DEF Documented, IsDocument
<1>2. n \in Nat /\ DOMAIN document = 1..n /\ document = [i \in 1..n |-> document[i]]
  BY <1>1 DEF IsList
<1>3. PICK D : document \in Seq(D)
  BY <1>2, LengthOfList
<1>4. ASSUME NEW k \in 1..n
      PROVE  /\ IsStatement(document, k) /\ Texts[k] = document[k].text
             /\ Texts[k] \in Seq(Lines) /\ Len(Texts[k]) \in Nat \ {0}
  <2> DEFINE s == document[k]
             t == s.text
  <2>1. IsStatement(document, k) /\ Texts[k] = t /\ t \in Seq(Lines)
    BY <1>1, <1>2 DEF IsStatement, Texts
  <2>2. Len(t) \in Nat
    BY <2>1, LenProperties
  <2>3. Len(t) # 0
    <3>1. CASE Len(t) = 1
      BY <3>1
    <3>2. CASE IsForm(s.form) /\ t = LinesOf(s.form)
      <4> HIDE DEF t
      <4>1. Len(LinesOf(s.form)) = 1 + Len(Concat([i \in DOMAIN s.form.args |-> Below(s.form.args[i])], Len(s.form.args)))
             /\ Len(Concat([i \in DOMAIN s.form.args |-> Below(s.form.args[i])], Len(s.form.args))) \in Nat
        BY <3>2, FormHasLines
      <4> QED BY <3>2, <4>1
    <3>3. CASE t # <<>>
      BY <2>1, <3>3, EmptySeq
    <3> QED BY <2>1, <3>1, <3>2, <3>3 DEF IsStatement
  <2> QED BY <2>1, <2>2, <2>3
<1> HIDE DEF n
<1>5. LaidOut(Texts, n) /\ Concat(Texts, n) \in Seq(Lines)
  <2>1. n \in 0..n
    BY <1>2
  <2> QED BY <1>2, <1>4, <2>1, JoinedLaidOut, JoinedByOne
<1>6. source = Concat(Texts, n)
  BY DEF Documented, n
<1>7. /\ IsSource /\ Len(source) = Len(Concat(Texts, n))
      /\ \A i \in 1..n : \A k \in 1..Len(Texts[i]) :
            source[Len(Concat(Texts, i - 1)) + k] = Texts[i][k]
  BY <1>5, <1>6 DEF IsSource, LaidOut
<1>8. IsLaidOut(n, D)
  BY <1>2, <1>3, <1>4, <1>5, <1>7 DEF IsLaidOut, n
<1> QED BY <1>8

\* The statements that say something, one more.
LEMMA SayingByOne ==
  ASSUME NEW n, NEW D, IsLaidOut(n, D)
  PROVE  /\ UpTo(0) = <<>> /\ UpTo(n) = Statements
         /\ \A k \in 0..n : UpTo(k) \in Seq(D)
         /\ \A k \in 1..n : UpTo(k) = IF document[k].says = "nothing" THEN UpTo(k - 1)
                                      ELSE Append(UpTo(k - 1), document[k])
         /\ \A k \in 1..n : document[k] \in D
<1>0. n = Len(document) /\ n \in Nat /\ DOMAIN document = 1..n /\ document \in Seq(D)
  BY DEF IsLaidOut
<1>1. \A k \in 1..n : document[k] \in D /\ (document[k] \in Saying <=> document[k].says # "nothing")
  BY <1>0, ElementOfSeq DEF Saying
<1>2. UpTo(0) = <<>> /\ UpTo(n) = Statements
  <2>1. SubSeq(document, 1, n) = document /\ SubSeq(document, 1, 0) = <<>>
    BY <1>0, WholePrefix
  <2> QED BY <2>1, OnlyOfNothing DEF UpTo, Statements, Saying
<1>3. ASSUME NEW k \in 0..n PROVE UpTo(k) \in Seq(D)
  <2>1. SubSeq(document, 1, k) \in Seq(D)
    BY <1>0, <1>1, SubSeqProperties
  <2> QED BY <2>1, OnlyIsSeq DEF UpTo
<1>4. ASSUME NEW k \in 1..n
      PROVE  UpTo(k) = IF document[k].says = "nothing" THEN UpTo(k - 1)
                       ELSE Append(UpTo(k - 1), document[k])
  <2> DEFINE p == SubSeq(document, 1, k - 1)
             x == document[k]
  <2>1. p \in Seq(D) /\ x \in D /\ SubSeq(document, 1, k) = Append(p, x)
    <3>1. k - 1 \in Nat /\ (k - 1) + 1 = k /\ k <= Len(document)
      BY <1>0
    <3> QED BY <1>0, <3>1, PrefixByOne
  <2> HIDE DEF p, x
  <2>2. /\ x \in Saying => Only(Append(p, x), Saying) = Append(Only(p, Saying), x)
        /\ x \notin Saying => Only(Append(p, x), Saying) = Only(p, Saying)
    BY <2>1, OnlyOfMore
  <2>3. x \in Saying <=> x.says # "nothing"
    BY <1>1 DEF x
  <2> QED BY <2>1, <2>2, <2>3 DEF UpTo, p, x
<1> QED BY <1>1, <1>2, <1>3, <1>4

\* Each statement that says something is there, and no other.
LEMMA StatementsAre ==
  ASSUME NEW n, NEW D, IsLaidOut(n, D)
  PROVE  /\ Statements \in Seq(D) /\ Len(Statements) \in Nat /\ DOMAIN Statements = 1..Len(Statements)
         /\ \A i \in DOMAIN Statements :
              \E k \in 1..n : Statements[i] = document[k] /\ document[k].says # "nothing"
         /\ \A k \in 1..n : document[k].says # "nothing" =>
              \E i \in DOMAIN Statements : Statements[i] = document[k]
<1> DEFINE S == {document[k] : k \in {j \in DOMAIN document : document[j].says # "nothing"}}
<1>0. n = Len(document) /\ n \in Nat /\ DOMAIN document = 1..n /\ document \in Seq(D)
  BY DEF IsLaidOut
<1>1. Statements = Only(document, S)
  BY DEF Statements
<1>2. \A k \in 1..n : document[k].says # "nothing" => document[k] \in S
  BY <1>0
<1>3. \A x \in S : \E k \in 1..n : x = document[k] /\ document[k].says # "nothing"
  BY <1>0
<1> HIDE DEF S
<1>4. Statements \in Seq(D) /\ Statements \in Seq(S)
  BY <1>0, <1>1, OnlyIsSeq
<1>5. Len(Statements) \in Nat /\ DOMAIN Statements = 1..Len(Statements)
  BY <1>4, LenProperties
<1>6. \A i \in DOMAIN Statements : Statements[i] \in S
  BY <1>4, <1>5, ElementOfSeq
<1>7. ASSUME NEW k \in 1..n, document[k].says # "nothing"
      PROVE  \E i \in DOMAIN Statements : Statements[i] = document[k]
  <2>1. k \in 1..Len(document) /\ document[k] \in S
    BY <1>0, <1>2, <1>7
  <2>2. \E i \in 1..Len(Only(document, S)) : Only(document, S)[i] = document[k]
    BY <1>0, <2>1, OnlyKeeps
  <2> QED BY <1>1, <1>5, <2>2
<1> QED BY <1>3, <1>4, <1>5, <1>6, <1>7

\* A file with a statement that says something wrong is none.
LEMMA WrongIsIllFormed ==
  ASSUME NEW n, NEW D, IsLaidOut(n, D), NEW k \in 1..n, document[k].says = "wrong"
  PROVE  ~ WellFormed
<1>1. PICK i \in DOMAIN Statements : Statements[i] = document[k]
  BY StatementsAre
<1>2. Len(Statements) \in Nat /\ DOMAIN Statements = 1..Len(Statements)
  BY StatementsAre
<1>3. i = 1 \/ i \in 2..Len(Statements)
  BY <1>2
<1> QED BY <1>1, <1>3 DEF WellFormed

LEMMA LogicalLinesByOne ==
  ASSUME NEW D, NEW S \in Seq(D), NEW s \in D
  PROVE  LogicalLines(Append(S, s)) = Append(LogicalLines(S), LogicalLine(s))
<1> DEFINE n == Len(S)
           T == Append(S, s)
           E == {LogicalLine(x) : x \in D}
           a == LogicalLines(S)
           x == LogicalLine(s)
<1>1. n \in Nat /\ DOMAIN S = 1..n /\ \A i \in 1..n : S[i] \in D
  BY LenProperties, ElementOfSeq
<1>2. T \in Seq(D) /\ Len(T) = n + 1 /\ T[n + 1] = s /\ \A i \in 1..n : T[i] = S[i]
  BY AppendProperties
<1>3. DOMAIN T = 1..(n + 1)
  BY <1>2, LenProperties
<1>4. LogicalLines(T) = [i \in 1..(n + 1) |-> LogicalLine(T[i])]
  BY <1>3 DEF LogicalLines
<1>5. a = [i \in 1..n |-> LogicalLine(S[i])]
  BY <1>1 DEF LogicalLines
<1>6. a \in Seq(E) /\ Len(a) = n /\ x \in E
  <2>1. \A i \in 1..n : a[i] \in E
    BY <1>1, <1>5
  <2>2. a = [i \in 1..n |-> a[i]]
    BY <1>5
  <2>3. x \in E
    OBVIOUS
  <2> HIDE DEF E, a, n
  <2> QED BY <1>1, <2>1, <2>2, <2>3, MappedList
<1> HIDE DEF T, E, x
<1>7. LogicalLines(T) \in Seq(E) /\ Len(LogicalLines(T)) = n + 1
  <2> DEFINE f == LogicalLines(T)
  <2>1. f = [i \in 1..(n + 1) |-> f[i]]
    BY <1>4
  <2>2. \A i \in 1..(n + 1) : f[i] \in E
    BY <1>1, <1>2, <1>4 DEF E
  <2>3. n + 1 \in Nat
    BY <1>1
  <2> HIDE DEF f, n
  <2>4. f \in Seq(E) /\ Len(f) = n + 1
    BY <2>1, <2>2, <2>3, MappedList
  <2> QED BY <2>4 DEF f
<1>8. /\ Append(a, x) \in Seq(E) /\ Len(Append(a, x)) = n + 1
      /\ Append(a, x)[n + 1] = x /\ \A i \in 1..n : Append(a, x)[i] = a[i]
  <2> HIDE DEF a
  <2> QED BY <1>6, AppendProperties
<1>9. \A i \in 1..(n + 1) : LogicalLines(T)[i] = Append(a, x)[i]
  <2>1. SUFFICES ASSUME NEW i \in 1..(n + 1) PROVE LogicalLines(T)[i] = Append(a, x)[i]
    OBVIOUS
  <2>2. LogicalLines(T)[i] = LogicalLine(T[i])
    BY <1>4
  <2>5. i = n + 1 \/ i \in 1..n
    BY <1>1
  <2>3. CASE i = n + 1
    BY <1>2, <1>8, <2>2, <2>3 DEF x
  <2>4. CASE i \in 1..n
    <3>1. a[i] = LogicalLine(S[i])
      BY <1>5, <2>4
    <3> QED BY <1>2, <1>8, <2>2, <2>4, <3>1
  <2> QED BY <2>3, <2>4, <2>5
<1>10. LogicalLines(T) = Append(a, x)
  BY <1>7, <1>8, <1>9, SeqEqual
<1> QED BY <1>10 DEF T, x

-----------------------------------------------------------------------------
(* The lexer, statement by statement. *)

\* Each line of the source belongs to a statement.
LEMMA LinesBelong ==
  ASSUME NEW n, NEW D, IsLaidOut(n, D), NEW j \in 1..Len(source)
  PROVE  \E m \in 1..n : \E i \in 1..Len(Texts[m]) : j = Len(Concat(Texts, m - 1)) + i
<1> DEFINE e(m)  == Len(Concat(Texts, m))
           At(m) == \E i \in 1..Len(Texts[m]) : j = e(m - 1) + i
           G == {m \in 0..n : j <= e(m) => \E h \in 1..n : At(h)}
<1>0. n \in Nat /\ j \in Nat \ {0} /\ j <= e(n)
  BY DEF IsLaidOut
<1>1. /\ e(0) = 0 /\ \A m \in 0..n : e(m) \in Nat
      /\ \A m \in 1..n : e(m) = e(m - 1) + Len(Texts[m]) /\ Len(Texts[m]) \in Nat
  BY DEF IsLaidOut, LaidOut
<1>2. ASSUME NEW m \in 1..n, m - 1 \in G PROVE m \in G
  <2>1. m - 1 \in 0..n
    BY <1>0
  <2>5. /\ e(m) = e(m - 1) + Len(Texts[m]) /\ e(m - 1) \in Nat /\ Len(Texts[m]) \in Nat
        /\ j \in Nat
    BY <1>0, <1>1, <2>1
  <2>2. CASE j <= e(m - 1)
    BY <1>2, <2>2
  <2>3. CASE ~ j <= e(m - 1) /\ j <= e(m)
    <3> DEFINE i == j - e(m - 1)
    <3>1. i \in 1..Len(Texts[m]) /\ j = e(m - 1) + i
      <4> DEFINE a == e(m - 1)
                 b == Len(Texts[m])
      <4>1. a \in Nat /\ b \in Nat /\ j \in Nat /\ ~ j <= a /\ j <= a + b
        BY <2>5, <2>3
      <4> HIDE DEF a, b
      <4>2. j - a \in 1..b /\ j = a + (j - a)
        BY ONLY <4>1
      <4> QED BY <4>2 DEF a, b
    <3>2. At(m)
      BY <3>1
    <3> HIDE DEF At
    <3> QED BY <1>0, <3>2
  <2>4. CASE ~ j <= e(m)
    BY <2>4
  <2> QED BY <2>2, <2>3, <2>4
<1>3. 0 \in G
  BY <1>0, <1>1
<1>4. n \in G
  <2>1. \A m \in 0..n : m \in G
    <3> HIDE DEF G
    <3> QED BY <1>0, <1>2, <1>3, BoundedInduction
  <2>2. n \in 0..n
    BY <1>0
  <2> HIDE DEF G
  <2> QED BY <2>1, <2>2
<1> QED BY <1>0, <1>4

\* Statement k, at its first line.
AtStatement(n, k) == k \in 1..n /\ at = 1 + Len(Concat(Texts, k - 1))

LEMMA FirstLine ==
  ASSUME NEW n, NEW D, IsLaidOut(n, D), NEW k, AtStatement(n, k)
  PROVE  /\ at \in Nat \ {0} /\ source[at] = document[k].text[1] /\ source[at] \in Lines
         /\ at + Len(document[k].text) = 1 + Len(Concat(Texts, k))
         /\ (at - 1) + Len(document[k].text) <= Len(source)
         /\ \A j \in 1..Len(document[k].text) : source[(at - 1) + j] = document[k].text[j]
         /\ IsStatement(document, k) /\ document[k].text \in Seq(Lines)
<1> DEFINE e(m) == Len(Concat(Texts, m))
           t    == document[k].text
<1>1. /\ k \in 1..n /\ at = 1 + e(k - 1) /\ n \in Nat /\ k \in 0..n /\ k - 1 \in 0..n
      /\ n \in 0..n /\ k \in 0..n
  BY DEF AtStatement, IsLaidOut
<1>2. IsStatement(document, k) /\ Texts[k] = t /\ t \in Seq(Lines) /\ Len(t) \in Nat \ {0}
  BY <1>1 DEF IsLaidOut
<1>3. /\ e(k) = e(k - 1) + Len(t) /\ e(k - 1) \in Nat /\ e(k) <= e(n) /\ Len(source) = e(n)
      /\ e(k) \in Nat /\ e(n) \in Nat
  <2>1. LaidOut(Texts, n) /\ Len(source) = e(n)
    BY DEF IsLaidOut
  <2>2. k \in 0..n /\ n \in 0..n
    BY <1>1
  <2> QED BY <1>1, <1>2, <2>1, <2>2 DEF LaidOut
<1>4. \A j \in 1..Len(t) : source[e(k - 1) + j] = t[j]
  BY <1>1, <1>2 DEF IsLaidOut
<1> HIDE DEF e, t
<1>5. at \in Nat \ {0} /\ at - 1 = e(k - 1) /\ at + Len(t) = 1 + e(k) /\ (at - 1) + Len(t) <= Len(source)
  BY <1>1, <1>2, <1>3, SMTT(30)
<1>6. source[at] = t[1]
  <2>1. 1 \in 1..Len(t) /\ e(k - 1) + 1 = at
    BY <1>1, <1>2, <1>3
  <2> QED BY <1>4, <2>1
<1>7. t[1] \in Lines
  BY <1>2, ElementOfSeq
<1> QED BY <1>2, <1>4, <1>5, <1>6, <1>7 DEF t, e

\* A statement that can be read, below its first line.
LEMMA FormLexed ==
  ASSUME NEW n, NEW D, IsLaidOut(n, D), NEW k, AtStatement(n, k), NEW form, IsForm(form),
         document[k].text = LinesOf(form), CommentFree(LineOf(form), Len(Opening(form)))
  PROVE  /\ ReadsAs(source[at], form)
         /\ ReadHeredocs(LexedAll(form.args), at + 1)
              = [next |-> 1 + Len(Concat(Texts, k)), args |-> Args(form)]
<1> DEFINE belows == [i \in DOMAIN form.args |-> Below(form.args[i])]
           m      == Len(form.args)
           c      == Concat(belows, m)
           t      == LinesOf(form)
           after  == at + 1
<1>1. /\ at \in Nat \ {0} /\ source[at] = t[1] /\ at + Len(t) = 1 + Len(Concat(Texts, k))
      /\ (at - 1) + Len(t) <= Len(source) /\ \A j \in 1..Len(t) : source[(at - 1) + j] = t[j]
  BY FirstLine, SMTT(30)
<1>2. /\ Len(t) = 1 + Len(c) /\ Len(c) \in Nat /\ t[1] = LineOf(form)
      /\ \A j \in 1..Len(c) : t[1 + j] = c[j]
  BY FormHasLines
<1>3. ReadsAs(source[at], form)
  BY <1>1, <1>2, FormRead
<1>4. IsArguments(form.args) /\ IsSource /\ Len(source) \in Nat
  <2>1. IsSource /\ IsOpening(form)
    BY FormOpens DEF IsLaidOut
  <2> QED BY <2>1, SourceLines DEF IsOpening
<1>5. belows = [i \in DOMAIN form.args |-> Below(form.args[i])] /\ m = Len(form.args)
  OBVIOUS
<1> HIDE DEF belows, m, c, t
<1>6. (after - 1) + Len(c) <= Len(source) /\ \A j \in 1..Len(c) : source[(after - 1) + j] = c[j]
  <2>1. (after - 1) + Len(c) <= Len(source)
    BY <1>1, <1>2, <1>4
  <2>2. ASSUME NEW j \in 1..Len(c) PROVE source[(after - 1) + j] = c[j]
    <3>1. 1 + j \in 1..Len(t) /\ (at - 1) + (1 + j) = (after - 1) + j
      BY <1>1, <1>2
    <3> QED BY <1>1, <1>2, <3>1
  <2> QED BY <2>1, <2>2
<1>7. Following(form, after, belows, m)
  BY <1>5, <1>6 DEF Following, c
<1>8. after \in Nat \ {0} /\ after + Len(c) = 1 + Len(Concat(Texts, k))
  BY <1>1, <1>2
<1> HIDE DEF after
<1>9. ReadHeredocs(LexedAll(form.args), after) = [next |-> after + Len(Concat(belows, m)), args |-> Args(form)]
  BY <1>4, <1>7, <1>8, HeredocsFollow
<1> QED BY <1>3, <1>8, <1>9 DEF c, after

\* A line whose literal is cut off.
LEMMA FormCutOff ==
  ASSUME NEW form, IsForm(form), ~ CommentFree(LineOf(form), Len(Opening(form)))
  PROVE  /\ StripCommentAndTrim(LineOf(form)) # <<>>
         /\ LineLexer(LineOf(form)).mode \notin {"between", "comment"}
         /\ CutOff(form)
<1>1. /\ IsOpening(form) /\ form.tail \in Lines
      /\ form.args = <<>> /\ form.tail # <<>> => form.tail[1] = "blank"
  BY FormOpens
<1>2. LineOf(form) = Opening(form) \o form.tail
  BY DEF LineOf
<1>3. CutOff(form)
  BY DEF CutOff, CommentFree, TakenForComment
<1> QED BY <1>1, <1>2, <1>3, CutInside

\* A line that cannot be read.
CannotBeRead(raw) ==
  /\ StripCommentAndTrim(raw) # <<>>
  /\ \/ StripCommentAndTrim(raw)[1] \notin Words
     \/ LineLexer(raw).mode \notin {"between", "comment"}
     \/ ReadHeredocs(LineLexer(raw).args, at + 1).next = 0

LEMMA UnreadableFails ==
  ASSUME NEW n, NEW D, IsLaidOut(n, D), NEW k, AtStatement(n, k), Unreadable(document, k)
  PROVE  CannotBeRead(source[at])
<1> DEFINE s   == document[k]
           raw == source[at]
           e(m) == Len(Concat(Texts, m))
<1>1. at \in Nat \ {0} /\ raw = s.text[1] /\ raw \in Lines
  BY FirstLine
<1>2. CASE NoVerb(s.text[1])
  <2> HIDE DEF raw
  <2> QED BY <1>1, <1>2, NoVerbRead DEF CannotBeRead, raw
<1>3. CASE IsBroken(s.broken) /\ s.text[1] = BrokenLine(s.broken)
  <2>1. StripCommentAndTrim(raw) # <<>> /\ LineLexer(raw).mode \notin {"between", "comment"}
    BY <1>1, <1>3, BrokenFails
  <2> QED BY <2>1 DEF CannotBeRead
<1>4. ASSUME IsForm(s.form), s.text[1] = LineOf(s.form), NEW w \in DOMAIN s.form.args,
             s.form.args[w].kind = "heredoc", NeverCloses(document, k, s.form.args[w].name)
      PROVE  CannotBeRead(raw)
  <2> DEFINE name == s.form.args[w].name
             form == s.form
             after == at + 1
  <2>0. CASE ~ CommentFree(LineOf(form), Len(Opening(form)))
    <3>1. StripCommentAndTrim(raw) # <<>> /\ LineLexer(raw).mode \notin {"between", "comment"}
      BY <1>1, <1>4, <2>0, FormCutOff
    <3> QED BY <3>1 DEF CannotBeRead
  <2> SUFFICES ASSUME CommentFree(LineOf(form), Len(Opening(form))) PROVE CannotBeRead(raw)
    BY <2>0
  <2>1. ReadsAs(raw, form)
    BY <1>1, <1>4, FormRead
  <2>2. ASSUME NEW j \in after..Len(source) PROVE ~ Closes(source[j], name)
    <3>0. /\ k \in 1..n /\ at = 1 + e(k - 1) /\ n \in Nat /\ n = Len(document) /\ DOMAIN document = 1..n
          /\ LaidOut(Texts, n) /\ IsSource
      BY DEF AtStatement, IsLaidOut
    <3>1. j \in 1..Len(source) /\ j > at /\ j \in Nat
      BY <1>1, <3>0, SourceLines
    <3>9. PICK m \in 1..n : \E i \in 1..Len(Texts[m]) : j = e(m - 1) + i
      BY <3>1, LinesBelong
    <3>2. PICK i \in 1..Len(Texts[m]) : j = e(m - 1) + i
      BY <3>9
    <3>3. Texts[m] = document[m].text /\ source[j] = document[m].text[i]
      BY <3>2 DEF IsLaidOut
    <3>4. Len(Texts[m]) \in Nat /\ DOMAIN document[m].text = 1..Len(Texts[m])
      <4>1. Texts[m] \in Seq(Lines)
        BY DEF IsLaidOut
      <4> QED BY <3>3, <4>1, LenProperties
    <3>5. /\ e(m) = e(m - 1) + Len(Texts[m]) /\ e(m - 1) \in Nat /\ e(k - 1) \in Nat
          /\ m <= k - 1 => e(m) <= e(k - 1)
      <4>1. m - 1 \in 0..n /\ k - 1 \in 0..n /\ (m <= k - 1 => m \in 0..(k - 1))
        BY <3>0
      <4> QED BY <3>0, <4>1 DEF LaidOut
    <3> HIDE DEF e
    <3>6. m >= k /\ (m = k => i >= 2)
      <4>1. ~ m <= k - 1
        BY <3>0, <3>1, <3>2, <3>4, <3>5, SMTT(30)
      <4>2. m = k => i >= 2
        BY <3>0, <3>1, <3>2, <3>5
      <4> QED BY <3>0, <4>1, <4>2
    <3>7. CASE m = k
      <4>1. i \in 2..Len(document[k].text)
        BY <3>3, <3>4, <3>6, <3>7
      <4> QED BY <1>4, <3>3, <3>7, <4>1 DEF NeverCloses
    <3>8. CASE m # k
      <4>1. m \in (k + 1)..Len(document) /\ i \in DOMAIN document[m].text
        BY <3>0, <3>4, <3>6, <3>8
      <4> QED BY <1>4, <3>3, <4>1 DEF NeverCloses
    <3> QED BY <3>7, <3>8
  <2>3. IsArguments(form.args) /\ IsSource /\ w \in 1..Len(form.args)
    <3>1. IsArguments(form.args)
      BY <1>4, FormOpens DEF IsOpening
    <3> QED BY <1>4, <3>1, ListLength DEF IsLaidOut, IsArguments
  <2>4. ReadHeredocs(LexedAll(form.args), after).next = 0
    <3>1. after \in Nat \ {0}
      BY <1>1
    <3> HIDE DEF after
    <3> QED BY <1>4, <2>2, <2>3, <3>1, HeredocsEndless
  <2>5. LineLexer(raw).args = LexedAll(form.args) /\ StripCommentAndTrim(raw) # <<>>
    BY <2>1 DEF ReadsAs
  <2> HIDE DEF raw, form
  <2> QED BY <2>4, <2>5 DEF CannotBeRead
<1> QED BY <1>2, <1>3, <1>4 DEF Unreadable

\* LexLine, by what the line is.
LexCases(raw, stripped, read) ==
  /\ stripped = <<>> => /\ at' = at + 1
                        /\ UNCHANGED <<document, source, lines, phase, header, body>>
  /\ stripped # <<>> =>
       IF stripped[1] \in Words /\ LineLexer(raw).mode \in {"between", "comment"} /\ read.next # 0
       THEN /\ lines' = Append(lines, [verb |-> LineVerb(raw), args |-> read.args])
            /\ at' = read.next
            /\ UNCHANGED <<document, source, phase, header, body>>
       ELSE Reject

LEMMA LexLineDoes ==
  ASSUME LexLine
  PROVE  /\ phase = "lex" /\ at <= Len(source)
         /\ LexCases(source[at], StripCommentAndTrim(source[at]),
                     ReadHeredocs(LineLexer(source[at]).args, at + 1))
  BY Zenon DEF LexLine, LexCases, LineLexer, LineVerb

\* The next statement is read, or the file is rejected, being none or having a
\* literal that is cut off.
LEMMA LexedByOne ==
  ASSUME NEW n, NEW D, IsLaidOut(n, D), NEW k \in 0..n, LexedUpTo(k), LexLine
  PROVE  \/ /\ phase' = "lex" /\ UNCHANGED <<document, source, header, body>>
            /\ k + 1 \in 0..n /\ LexedUpTo(k + 1)'
         \/ phase' = "rejected" /\ (WellFormed => SomeCutOff) /\ UNCHANGED <<document, source, header, body>>
<1> DEFINE m    == k + 1
           s    == document[m]
           raw  == source[at]
           read == ReadHeredocs(LineLexer(raw).args, at + 1)
           e(i) == Len(Concat(Texts, i))
<1>1. phase = "lex" /\ at <= Len(source) /\ LexCases(raw, StripCommentAndTrim(raw), read)
  BY LexLineDoes
<1>2. /\ at = 1 + e(k) /\ lines = LogicalLines(UpTo(k))
      /\ \A j \in 1..k : document[j].says # "nothing" => IsFormed(document[j])
  BY DEF LexedUpTo
<1>3. /\ n \in Nat /\ Len(source) = e(n) /\ LaidOut(Texts, n) /\ n = Len(document)
      /\ \A i \in 0..n : e(i) \in Nat
  BY DEF IsLaidOut, LaidOut
<1>4. m \in 1..n /\ k = m - 1 /\ k \in 0..n /\ m \in 0..n
  <2>1. k # n
    <3> HIDE DEF e
    <3> QED BY <1>1, <1>2, <1>3
  <2> QED BY <1>3, <2>1
<1>5. AtStatement(n, m)
  BY <1>2, <1>4 DEF AtStatement
<1>6. /\ IsStatement(document, m) /\ raw = s.text[1] /\ raw \in Lines
      /\ at + Len(s.text) = 1 + e(m)
  <2> HIDE DEF m
  <2> QED BY <1>5, FirstLine
<1>7. /\ UpTo(k) \in Seq(D) /\ s \in D
      /\ UpTo(m) = IF s.says = "nothing" THEN UpTo(k) ELSE Append(UpTo(k), s)
  <2> HIDE DEF m
  <2> QED BY <1>4, SayingByOne
<1> HIDE DEF e
<1>8. ASSUME UNCHANGED <<document, source, header, body, phase>>, at' = 1 + e(m),
             lines' = LogicalLines(UpTo(m)), s.says # "nothing" => IsFormed(s)
      PROVE  /\ phase' = "lex" /\ UNCHANGED <<document, source, header, body>>
             /\ k + 1 \in 0..n /\ LexedUpTo(k + 1)'
  <2>1. e(m)' = e(m) /\ UpTo(m)' = UpTo(m)
    BY <1>8 DEF e, Texts, UpTo, Saying
  <2>2. ASSUME NEW j \in 1..m, document[j].says # "nothing" PROVE IsFormed(document[j])
    <3>1. j \in 1..k \/ j = m
      BY <1>4
    <3> QED BY <1>2, <1>8, <2>2, <3>1
  <2>3. ((\A j \in 1..m : document[j].says # "nothing" => IsFormed(document[j])))'
    BY <1>8, <2>2 DEF IsFormed
  <2>4. LexedUpTo(m)'
    BY <1>8, <2>1, <2>3 DEF LexedUpTo, e
  <2> QED BY <1>1, <1>4, <1>8, <2>4
<1>9. CASE s.says = "nothing" /\ Len(s.text) = 1 /\ IsTail(s.text[1])
  <2>1. StripCommentAndTrim(raw) = <<>>
    <3> HIDE DEF raw
    <3> QED BY <1>6, <1>9, NothingRead
  <2>2. at' = at + 1 /\ UNCHANGED <<document, source, lines, phase, header, body>>
    BY <1>1, <2>1 DEF LexCases
  <2>3. at' = 1 + e(m) /\ lines' = LogicalLines(UpTo(m))
    BY <1>2, <1>6, <1>7, <1>9, <2>2
  <2> QED BY <1>8, <1>9, <2>2, <2>3
<1>10. CASE /\ s.says \in Sayings /\ IsForm(s.form) /\ s.text = LinesOf(s.form)
            /\ s.says = Says(s.form.verb, Args(s.form))
            /\ ~ CommentFree(LineOf(s.form), Len(Opening(s.form)))
  <2>1. raw = LineOf(s.form)
    <3> DEFINE form == s.form
    <3>1. IsForm(form) /\ s.text = LinesOf(form)
      BY <1>10
    <3> HIDE DEF form
    <3>2. LinesOf(form)[1] = LineOf(form)
      BY <3>1, FormHasLines
    <3> QED BY <1>6, <3>1, <3>2 DEF form
  <2>2. CannotBeRead(raw) /\ CutOff(s.form)
    <3> DEFINE form == s.form
    <3>1. IsForm(form) /\ ~ CommentFree(LineOf(form), Len(Opening(form))) /\ raw = LineOf(form)
      BY <1>10, <2>1
    <3> HIDE DEF form, raw
    <3>2. CannotBeRead(raw) /\ CutOff(form)
      BY <3>1, FormCutOff DEF CannotBeRead
    <3> QED BY <3>2 DEF form
  <2>3. Reject
    BY <1>1, <2>2 DEF LexCases, CannotBeRead
  <2>4. SomeCutOff
    <3>1. s.says # "nothing"
      BY <1>10 DEF Sayings
    <3> HIDE DEF m
    <3>2. \E i \in DOMAIN Statements : Statements[i] = document[m]
      BY <1>4, <3>1, StatementsAre
    <3> QED BY <2>2, <3>2 DEF SomeCutOff
  <2> QED BY <2>3, <2>4 DEF Reject
<1>12. CASE /\ s.says \in Sayings /\ IsForm(s.form) /\ s.text = LinesOf(s.form)
            /\ s.says = Says(s.form.verb, Args(s.form))
            /\ CommentFree(LineOf(s.form), Len(Opening(s.form)))
  <2> DEFINE form == s.form
  <2>1. /\ ReadsAs(raw, form)
        /\ ReadHeredocs(LexedAll(form.args), at + 1) = [next |-> 1 + e(m), args |-> Args(form)]
    <3> HIDE DEF m, raw
    <3> QED BY <1>5, <1>12, FormLexed DEF e, raw
  <2>2. /\ StripCommentAndTrim(raw) # <<>> /\ StripCommentAndTrim(raw)[1] \in Words
        /\ LineLexer(raw).mode \in {"between", "comment"} /\ LineVerb(raw) = form.verb
        /\ read = [next |-> 1 + e(m), args |-> Args(form)]
    BY <2>1 DEF ReadsAs
  <2>3. read.next = 1 + e(m) /\ read.args = Args(form) /\ 1 + e(m) # 0
    BY <1>3, <1>4, <2>2
  <2>4. /\ lines' = Append(lines, [verb |-> form.verb, args |-> Args(form)])
        /\ at' = 1 + e(m) /\ UNCHANGED <<document, source, phase, header, body>>
    BY <1>1, <2>2, <2>3 DEF LexCases
  <2>5. s.says # "nothing" /\ IsFormed(s)
    BY <1>12 DEF IsFormed, Sayings
  <2>6. lines' = LogicalLines(UpTo(m))
    <3>1. LogicalLines(Append(UpTo(k), s)) = Append(LogicalLines(UpTo(k)), LogicalLine(s))
      <4> HIDE DEF s
      <4> QED BY <1>7, LogicalLinesByOne
    <3> QED BY <1>2, <1>7, <2>4, <2>5, <3>1 DEF LogicalLine
  <2> QED BY <1>8, <2>4, <2>5, <2>6
<1>11. CASE s.says = "wrong" /\ Unreadable(document, m)
  <2>1. CannotBeRead(raw)
    <3> HIDE DEF m
    <3> QED BY <1>5, <1>11, UnreadableFails
  <2>2. Reject
    BY <1>1, <2>1 DEF LexCases, CannotBeRead
  <2>3. ~ WellFormed
    <3> HIDE DEF m
    <3> QED BY <1>4, <1>11, WrongIsIllFormed
  <2> QED BY <2>2, <2>3 DEF Reject
<1> QED BY <1>6, <1>9, <1>10, <1>11, <1>12 DEF IsStatement, Sayings

\* Behind the last statement, all lines are lexed.
LEMMA LexedToTheEnd ==
  ASSUME NEW n, NEW D, IsLaidOut(n, D), NEW k \in 0..n, LexedUpTo(k), at > Len(source)
  PROVE  AllLexed
<1> DEFINE e(i) == Len(Concat(Texts, i))
<1>1. /\ at = 1 + e(k) /\ lines = LogicalLines(UpTo(k))
      /\ \A j \in 1..k : document[j].says # "nothing" => IsFormed(document[j])
  BY DEF LexedUpTo
<1>2. /\ n \in Nat /\ Len(source) = e(n) /\ LaidOut(Texts, n) /\ n = Len(document)
      /\ \A i \in 0..n : e(i) \in Nat
      /\ \A i \in 1..n : e(i) = e(i - 1) + Len(Texts[i]) /\ Len(Texts[i]) \in Nat \ {0}
      /\ \A j \in 0..n : \A i \in 0..j : e(i) <= e(j)
  BY DEF IsLaidOut, LaidOut
<1> HIDE DEF e
<1>3. k = n
  <2>1. SUFFICES ASSUME k # n PROVE FALSE
    OBVIOUS
  <2>2. k + 1 \in 1..n /\ (k + 1) - 1 = k /\ n \in 0..n /\ k + 1 \in 0..n /\ k \in 0..n
    BY <1>2, <2>1
  <2>3. e(k + 1) = e(k) + Len(Texts[k + 1]) /\ Len(Texts[k + 1]) \in Nat \ {0} /\ e(k + 1) <= e(n)
    BY <1>2, <2>2
  <2>4. e(k) \in Nat /\ e(n) \in Nat
    BY <1>2, <2>2
  <2> QED BY <1>1, <1>2, <2>3, <2>4
<1>4. UpTo(n) = Statements
  BY SayingByOne
<1>5. ASSUME NEW i \in DOMAIN Statements PROVE IsFormed(Statements[i])
  <2>1. PICK j \in 1..n : Statements[i] = document[j] /\ document[j].says # "nothing"
    BY StatementsAre
  <2> QED BY <1>1, <1>3, <2>1
<1> QED BY <1>1, <1>3, <1>4, <1>5 DEF AllLexed

-----------------------------------------------------------------------------
(* What a logical line says. *)

BodyVerbs == OptionVerbs \cup {"Send", "Present", "Mark", "Run"}

\* A verb and its arguments, by what they say.
SaysWhat(says, verb, args) ==
  /\ says = "version" <=> verb = <<"Version">> /\ args = <<Token("integer", <<"1">>)>>
  /\ says = "setting" <=> IsHeaderVerb(verb) /\ HeaderLineFits(verb[1], args)
  /\ says = "actions" <=> Len(verb) = 1 /\ BodyLineFits(verb[1], args)
  /\ says = "actions" => verb[1] \in BodyVerbs /\ ~ IsHeaderVerb(verb)
  /\ \E S : args \in Seq(S)

LEMMA LineSays ==
  ASSUME NEW s, IsFormed(s)
  PROVE  SaysWhat(s.says, s.form.verb, Args(s.form))
<1> DEFINE verb == s.form.verb
           args == Args(s.form)
<1>1. /\ s.says = Says(verb, args)
      /\ verb \in Seq(Symbols \ {"blank"}) /\ Len(verb) \in Nat
  BY LenProperties DEF IsFormed, IsForm
<1>2. \E S : args \in Seq(S)
  <2> DEFINE n == Len(s.form.args)
  <2>1. n \in Nat /\ DOMAIN s.form.args = 1..n
    BY ListLength DEF IsFormed, IsForm
  <2>2. args = [i \in 1..n |-> args[i]]
    BY <2>1 DEF Args
  <2> HIDE DEF args, n
  <2> QED BY <2>1, <2>2, LengthOfList
<1>3. verb = <<"Version">> <=> Len(verb) = 1 /\ verb[1] = "Version"
  <2>1. ASSUME Len(verb) = 1, verb[1] = "Version" PROVE verb = <<"Version">>
    <3>1. verb = [i \in 1..1 |-> verb[i]]
      BY <1>1, <2>1, SeqDef
    <3>2. <<"Version">> = [i \in 1..1 |-> "Version"]
      OBVIOUS
    <3>3. \A i \in 1..1 : verb[i] = "Version"
      BY <2>1
    <3> HIDE DEF verb
    <3> QED BY <3>1, <3>2, <3>3
  <2>2. Len(<<"Version">>) = 1 /\ <<"Version">>[1] = "Version"
    OBVIOUS
  <2> QED BY <2>1, <2>2
<1> HIDE DEF verb, args
<1>4. BodyLineFits(verb[1], args) => verb[1] \in BodyVerbs
  BY DEF BodyLineFits, BodyVerbs, OptionVerbs
<1>5. "Version" \notin DOMAIN Fields /\ "Version" \notin BodyVerbs /\ DOMAIN Fields \cap BodyVerbs = {}
  BY DEF Fields, BodyVerbs, OptionVerbs
<1>6. SaysWhat(s.says, verb, args)
  BY <1>1, <1>2, <1>3, <1>4, <1>5 DEF SaysWhat, Says, IsHeaderVerb
<1> QED BY <1>6 DEF verb, args

-----------------------------------------------------------------------------
(* The parser, line by line. *)

\* The statements as a sequence, each with its logical line.
IsListed(n, D) ==
  /\ n = Len(Statements) /\ n \in Nat /\ DOMAIN Statements = 1..n /\ Statements \in Seq(D)
  /\ Len(lines) = n /\ lines \in Seq({LogicalLine(Statements[i]) : i \in 1..n})
  /\ \A i \in 1..n : /\ IsFormed(Statements[i])
                     /\ lines[i].verb = Statements[i].form.verb
                     /\ lines[i].args = Args(Statements[i].form)
                     /\ SaysWhat(Statements[i].says, lines[i].verb, lines[i].args)

LEMMA LinesListed ==
  ASSUME Documented, AllLexed
  PROVE  \E n, D : IsListed(n, D)
<1>1. PICK m, D : IsLaidOut(m, D)
  BY DocumentLaidOut
<1> DEFINE n == Len(Statements)
           E == {LogicalLine(Statements[i]) : i \in 1..n}
<1>2. Statements \in Seq(D) /\ n \in Nat /\ DOMAIN Statements = 1..n
  BY <1>1, StatementsAre
<1>3. lines = [i \in 1..n |-> LogicalLine(Statements[i])]
  BY <1>2 DEF AllLexed, LogicalLines
<1>4. Len(lines) = n /\ lines \in Seq(E)
  <2>1. lines = [i \in 1..n |-> lines[i]] /\ \A i \in 1..n : lines[i] \in E
    BY <1>3
  <2> HIDE DEF n, E
  <2> QED BY <1>2, <2>1, MappedList
<1>5. ASSUME NEW i \in 1..n
      PROVE  /\ IsFormed(Statements[i])
             /\ lines[i].verb = Statements[i].form.verb
             /\ lines[i].args = Args(Statements[i].form)
             /\ SaysWhat(Statements[i].says, lines[i].verb, lines[i].args)
  <2>1. IsFormed(Statements[i])
    BY <1>2 DEF AllLexed
  <2>2. lines[i] = LogicalLine(Statements[i])
    BY <1>3
  <2>3. lines[i].verb = Statements[i].form.verb /\ lines[i].args = Args(Statements[i].form)
    BY <2>2 DEF LogicalLine
  <2>4. SaysWhat(Statements[i].says, Statements[i].form.verb, Args(Statements[i].form))
    <3> DEFINE s == Statements[i]
    <3> HIDE DEF s
    <3>1. IsFormed(s)
      BY <2>1 DEF s
    <3>2. SaysWhat(s.says, s.form.verb, Args(s.form))
      BY <3>1, LineSays
    <3> QED BY <3>2 DEF s
  <2> QED BY <2>1, <2>3, <2>4
<1>6. IsListed(n, D)
  BY <1>2, <1>4, <1>5 DEF IsListed
<1> QED BY <1>6

\* What one more statement sets.
LEMMA LastByOne ==
  ASSUME NEW S, NEW field, NEW m \in Nat
  PROVE  /\ GivenUpTo(S, field, m + 1)
              = GivenUpTo(S, field, m) \cup (IF SettingOf(S[m + 1], field) THEN {m + 1} ELSE {})
         /\ LastUpTo(S, field, m + 1)
              = IF SettingOf(S[m + 1], field) THEN {Setting(S[m + 1])}
                ELSE LastUpTo(S, field, m)
         /\ LastUpTo(S, field, m) = {} <=> GivenUpTo(S, field, m) = {}
<1> DEFINE G == GivenUpTo(S, field, m)
           H == GivenUpTo(S, field, m + 1)
           is == SettingOf(S[m + 1], field)
<1>1. H = G \cup (IF is THEN {m + 1} ELSE {})
  <2>1. \A i : i \in 1..(m + 1) <=> i \in 1..m \/ i = m + 1
    OBVIOUS
  <2>2. \A i : i \in H <=> i \in 1..(m + 1) /\ SettingOf(S[i], field)
    BY DEF GivenUpTo
  <2>3. \A i : i \in G <=> i \in 1..m /\ SettingOf(S[i], field)
    BY DEF GivenUpTo
  <2> HIDE DEF H, G
  <2> QED BY <2>1, <2>2, <2>3
<1>2. is => LastOf(H) = m + 1
  <2>1. SUFFICES ASSUME is PROVE LastOf(H) = m + 1
    OBVIOUS
  <2>2. m + 1 \in H /\ H # {} /\ H \in SUBSET (0..(m + 1)) /\ m + 1 \in Nat
    BY <1>1, <2>1 DEF GivenUpTo
  <2> HIDE DEF H
  <2>3. LastOf(H) \in H /\ \A j \in H : j <= LastOf(H)
    BY <2>2, LastIsLast
  <2>4. LastOf(H) \in 0..(m + 1) /\ m + 1 <= LastOf(H)
    BY <2>2, <2>3
  <2> QED BY <2>4
<1>3. LastUpTo(S, field, m + 1) = IF H = {} THEN {} ELSE {Setting(S[LastOf(H)])}
  BY DEF LastUpTo
<1>4. LastUpTo(S, field, m) = IF G = {} THEN {} ELSE {Setting(S[LastOf(G)])}
  BY DEF LastUpTo
<1> HIDE DEF G, H
<1>5. CASE is
  <2>1. H # {} /\ LastOf(H) = m + 1
    BY <1>1, <1>2, <1>5
  <2> QED BY <1>1, <1>3, <1>4, <1>5, <2>1 DEF G, H
<1>6. CASE ~ is
  <2>1. H = G
    BY <1>1, <1>6
  <2> QED BY <1>1, <1>3, <1>4, <1>6, <2>1 DEF G, H
<1> QED BY <1>5, <1>6

LEMMA EnvByOne ==
  ASSUME NEW n, NEW D, IsListed(n, D)
  PROVE  /\ Concat(EnvParts(Statements), 0) = <<>>
         /\ \E T : \A i \in 0..n : Concat(EnvParts(Statements), i) \in Seq(T)
         /\ \A i \in 1..n : Concat(EnvParts(Statements), i)
              = IF SettingOf(Statements[i], "env")
                THEN Append(Concat(EnvParts(Statements), i - 1), Args(Statements[i].form))
                ELSE Concat(EnvParts(Statements), i - 1)
<1> DEFINE T    == {Args(Statements[i].form) : i \in 1..n}
           x(i) == Args(Statements[i].form)
           c(i) == Concat(EnvParts(Statements), i)
<1>1. n \in Nat /\ DOMAIN Statements = 1..n
  BY DEF IsListed
<1>2. \A i \in 1..n : /\ EnvParts(Statements)[i] = IF SettingOf(Statements[i], "env") THEN <<x(i)>> ELSE <<>>
                      /\ x(i) \in T
  BY <1>1 DEF EnvParts
<1> HIDE DEF T, x
<1>3. ASSUME NEW i \in 1..n PROVE EnvParts(Statements)[i] \in Seq(T)
  <2> DEFINE y == x(i)
  <2>2. y \in T
    BY <1>2
  <2> HIDE DEF y
  <2>3. <<y>> \in Seq(T) /\ <<>> \in Seq(T)
    BY <2>2
  <2>1. <<x(i)>> \in Seq(T) /\ <<>> \in Seq(T)
    BY <2>3 DEF y
  <2> QED BY <1>2, <2>1
<1>4. /\ \A i \in 0..n : c(i) \in Seq(T)
      /\ c(0) = <<>>
      /\ \A i \in 1..n : c(i) = c(i - 1) \o EnvParts(Statements)[i]
  BY <1>1, <1>3, JoinedByOne
<1> HIDE DEF c
<1>5. ASSUME NEW i \in 1..n
      PROVE  c(i) = IF SettingOf(Statements[i], "env") THEN Append(c(i - 1), x(i)) ELSE c(i - 1)
  <2>0. i - 1 \in 0..n
    BY <1>1
  <2>1. c(i - 1) \in Seq(T) /\ x(i) \in T
    BY <1>2, <1>4, <2>0
  <2>2. Append(c(i - 1), x(i)) = c(i - 1) \o <<x(i)>> /\ c(i - 1) \o <<>> = c(i - 1)
    BY <2>1, AppendIsConcat, ConcatEmptySeq
  <2> QED BY <1>2, <1>4, <2>2
<1> QED BY <1>4, <1>5 DEF c, x

\* A statement that sets nothing leaves the header, one that sets a field sets it.
LEMMA HeaderStays ==
  ASSUME NEW n, NEW D, IsListed(n, D), NEW m \in Nat, m + 1 \in 1..n,
         Statements[m + 1].says # "setting", NEW h, HeaderUpTo(Statements, h, m)
  PROVE  HeaderUpTo(Statements, h, m + 1)
<1>1. \A field : ~ SettingOf(Statements[m + 1], field)
  BY DEF SettingOf
<1>2. \A field : LastUpTo(Statements, field, m + 1) = LastUpTo(Statements, field, m) /\ GivenUpTo(Statements, field, m + 1) = GivenUpTo(Statements, field, m)
  BY <1>1, LastByOne, ZenonT(30)
<1>3. Concat(EnvParts(Statements), m + 1) = Concat(EnvParts(Statements), m)
  <2>1. (m + 1) - 1 = m
    OBVIOUS
  <2> QED BY <1>1, <2>1, EnvByOne
<1> QED BY <1>2, <1>3 DEF HeaderUpTo

\* What each header verb sets; only SetEnv adds to what is there.
LEMMA FieldsGiven ==
  /\ \A verb \in DOMAIN Fields :
       Fields[verb] \in {"cols", "rows", "spawn", "env", "shell_rcfile", "max_runtime", "prompt",
                        "per_char_dwell", "per_key_dwell", "warm_command"}
  /\ \A verb \in DOMAIN Fields : Fields[verb] = "env" <=> verb = "SetEnv"
<1>1. DOMAIN Fields = {"SetCols", "SetRows", "SetSpawn", "SetWarm", "SetCold",
                      "SetWarmCommand", "SetEnv", "SetShellRcfile", "SetMaxRuntime",
                      "SetPrompt", "SetPerCharDwell", "SetPerKeyDwell"}
  BY Zenon DEF Fields
<1>2. Fields["SetCols"] = "cols" /\ Fields["SetRows"] = "rows" /\ Fields["SetSpawn"] = "spawn"
  BY Zenon DEF Fields
<1>3. Fields["SetWarm"] = "spawn" /\ Fields["SetCold"] = "spawn" /\ Fields["SetWarmCommand"] = "warm_command"
  BY Zenon DEF Fields
<1>4. Fields["SetEnv"] = "env" /\ Fields["SetShellRcfile"] = "shell_rcfile" /\ Fields["SetMaxRuntime"] = "max_runtime"
  BY Zenon DEF Fields
<1>5. Fields["SetPrompt"] = "prompt" /\ Fields["SetPerCharDwell"] = "per_char_dwell" /\ Fields["SetPerKeyDwell"] = "per_key_dwell"
  BY Zenon DEF Fields
<1> QED BY <1>1, <1>2, <1>3, <1>4, <1>5

LEMMA HeaderSets ==
  ASSUME NEW n, NEW D, IsListed(n, D), NEW m \in Nat, m + 1 \in 1..n, NEW s, s = Statements[m + 1],
         s.says = "setting", NEW h, HeaderUpTo(Statements, h, m), NEW verb, verb = s.form.verb[1],
         NEW args, args = Args(s.form), Fields[verb] = "spawn" => h.spawn = {}, NEW more,
         more = IF verb = "SetEnv" THEN [h EXCEPT !.env = Append(@, args)]
                ELSE [h EXCEPT ![Fields[verb]] = {Given(verb, args)}]
  PROVE  HeaderUpTo(Statements, more, m + 1)
<1>1. verb \in DOMAIN Fields
  <2>1. SaysWhat(s.says, lines[m + 1].verb, lines[m + 1].args) /\ lines[m + 1].verb = s.form.verb
    BY DEF IsListed
  <2> QED BY <2>1 DEF SaysWhat, IsHeaderVerb
<1>2. \A field : SettingOf(s, field) <=> Fields[verb] = field
  BY DEF SettingOf
<1>3. /\ Fields[verb] \in DOMAIN NoHeader /\ (verb = "SetEnv" <=> Fields[verb] = "env")
      /\ "env" \in DOMAIN NoHeader /\ "spawn" \in DOMAIN NoHeader \ {"env"}
  <2>1. DOMAIN NoHeader = {"cols", "rows", "spawn", "env", "shell_rcfile", "max_runtime", "prompt",
                           "per_char_dwell", "per_key_dwell", "warm_command"}
    BY DEF NoHeader
  <2>2. /\ Fields[verb] \in {"cols", "rows", "spawn", "env", "shell_rcfile", "max_runtime", "prompt",
                             "per_char_dwell", "per_key_dwell", "warm_command"}
        /\ verb = "SetEnv" <=> Fields[verb] = "env"
    BY <1>1, FieldsGiven
  <2> QED BY <2>1, <2>2
<1>4. /\ h = [field \in DOMAIN NoHeader |-> h[field]]
      /\ h.env = Concat(EnvParts(Statements), m)
      /\ \A field \in DOMAIN NoHeader \ {"env"} : h[field] = LastUpTo(Statements, field, m)
      /\ \A i, j \in GivenUpTo(Statements, "spawn", m) : i = j
  BY DEF HeaderUpTo
<1>5. ASSUME NEW field
      PROVE  /\ GivenUpTo(Statements, field, m + 1)
                  = GivenUpTo(Statements, field, m) \cup (IF Fields[verb] = field THEN {m + 1} ELSE {})
             /\ LastUpTo(Statements, field, m + 1)
                  = IF Fields[verb] = field THEN {Given(verb, args)} ELSE LastUpTo(Statements, field, m)
             /\ LastUpTo(Statements, field, m) = {} <=> GivenUpTo(Statements, field, m) = {}
  <2>1. /\ GivenUpTo(Statements, field, m + 1)
             = GivenUpTo(Statements, field, m)
                 \cup (IF SettingOf(Statements[m + 1], field) THEN {m + 1} ELSE {})
        /\ LastUpTo(Statements, field, m + 1)
             = IF SettingOf(Statements[m + 1], field) THEN {Setting(Statements[m + 1])}
               ELSE LastUpTo(Statements, field, m)
        /\ LastUpTo(Statements, field, m) = {} <=> GivenUpTo(Statements, field, m) = {}
    BY LastByOne
  <2>2. SettingOf(Statements[m + 1], field) <=> Fields[verb] = field
    BY <1>2
  <2>3. Setting(Statements[m + 1]) = Given(verb, args)
    BY DEF Setting
  <2> QED BY <2>1, <2>2, <2>3
<1>6. Concat(EnvParts(Statements), m + 1) = IF Fields[verb] = "env" THEN Append(Concat(EnvParts(Statements), m), args)
                                ELSE Concat(EnvParts(Statements), m)
  <2>1. (m + 1) - 1 = m
    OBVIOUS
  <2> QED BY <1>2, <2>1, EnvByOne
<1>7. \A i, j \in GivenUpTo(Statements, "spawn", m + 1) : i = j
  <2>1. Fields[verb] = "spawn" => GivenUpTo(Statements, "spawn", m) = {}
    BY <1>3, <1>4, <1>5
  <2>2. GivenUpTo(Statements, "spawn", m + 1)
          = GivenUpTo(Statements, "spawn", m) \cup (IF Fields[verb] = "spawn" THEN {m + 1} ELSE {})
    BY <1>5
  <2>3. \A i, j \in GivenUpTo(Statements, "spawn", m) : i = j
    BY DEF HeaderUpTo
  <2> QED BY <2>1, <2>2, <2>3
<1> DEFINE NH == DOMAIN NoHeader
<1> HIDE DEF NH
<1>8. /\ more = [field \in NH |-> more[field]]
      /\ more.env = IF verb = "SetEnv" THEN Append(h.env, args) ELSE h.env
      /\ \A field \in NH \ {"env"} : more[field] = IF Fields[verb] = field THEN {Given(verb, args)} ELSE h[field]
  <2>1. h = [field \in NH |-> h[field]] /\ Fields[verb] \in NH /\ "env" \in NH
    BY <1>3, <1>4 DEF NH
  <2>2. CASE verb = "SetEnv"
    <3>1. Fields[verb] = "env" /\ more = [h EXCEPT !.env = Append(@, args)]
      BY <1>3, <2>2
    <3> QED BY <2>1, <2>2, <3>1
  <2>3. CASE verb # "SetEnv"
    <3>1. Fields[verb] # "env" /\ more = [h EXCEPT ![Fields[verb]] = {Given(verb, args)}]
      BY <1>3, <2>3
    <3> QED BY <2>1, <2>3, <3>1
  <2> QED BY <2>2, <2>3
<1>9. more.env = Concat(EnvParts(Statements), m + 1)
  BY <1>3, <1>4, <1>6, <1>8
<1>10. ASSUME NEW field \in NH \ {"env"} PROVE more[field] = LastUpTo(Statements, field, m + 1)
  <2>1. more[field] = IF Fields[verb] = field THEN {Given(verb, args)} ELSE h[field]
    BY <1>8
  <2>2. h[field] = LastUpTo(Statements, field, m)
    BY <1>4 DEF NH
  <2> QED BY <1>5, <2>1, <2>2
<1> QED BY <1>7, <1>8, <1>9, <1>10 DEF HeaderUpTo, NH

\* The actions of one more statement.
LEMMA ActionsAreSeq ==
  ASSUME NEW verb, NEW args, NEW prompt, NEW T,
         \A k \in 1..3 : ActionsSaid(verb, args, prompt)[k] \in T
  PROVE  ActionsSaid(verb, args, prompt) \in Seq(T)
<1> DEFINE s == ActionsSaid(verb, args, prompt)
           Few(t) == (\E a : t = <<a>>) \/ (\E a, b, c : t = <<a, b, c>>)
<1>1. Few(s)
  <2>1. CASE verb = "Run"
    BY <2>1 DEF ActionsSaid
  <2>2. CASE verb = "WaitForPrompt"
    BY <2>2 DEF ActionsSaid
  <2>3. CASE verb \in {"Send", "Present", "Mark"}
    BY <2>3 DEF ActionsSaid
  <2>4. CASE verb \notin {"Run", "WaitForPrompt", "Send", "Present", "Mark"}
    BY <2>4 DEF ActionsSaid
  <2> QED BY <2>1, <2>2, <2>3, <2>4
<1>2. \A k \in 1..3 : s[k] \in T
  OBVIOUS
<1> HIDE DEF s
<1>3. ASSUME NEW a, s = <<a>> PROVE s \in Seq(T)
  <2>1. a \in T
    BY <1>2, <1>3
  <2> QED BY <1>3, <2>1
<1>4. ASSUME NEW a, NEW b, NEW c, s = <<a, b, c>> PROVE s \in Seq(T)
  <2>1. a \in T /\ b \in T /\ c \in T
    BY <1>2, <1>4
  <2> QED BY <1>4, <2>1
<1>5. s \in Seq(T)
  BY <1>1, <1>3, <1>4
<1> QED BY <1>5 DEF s

\* The actions of statement i.
SaidAt(i, prompt) ==
  ActionsSaid(Statements[i].form.verb[1], Args(Statements[i].form), prompt)

LEMMA ActionsByOne ==
  ASSUME NEW n, NEW D, IsListed(n, D), NEW prompt
  PROVE  /\ Concat(ActionParts(Statements, prompt), 0) = <<>>
         /\ \A i \in 1..n : Concat(ActionParts(Statements, prompt), i)
              = IF Statements[i].says = "actions"
                THEN Concat(ActionParts(Statements, prompt), i - 1) \o SaidAt(i, prompt)
                ELSE Concat(ActionParts(Statements, prompt), i - 1)
<1> DEFINE said(i) == SaidAt(i, prompt)
           T    == {said(i)[k] : i \in 1..n, k \in 1..3}
           p(i) == ActionParts(Statements, prompt)[i]
           c(i) == Concat(ActionParts(Statements, prompt), i)
<1>1. n \in Nat /\ DOMAIN Statements = 1..n
  BY DEF IsListed
<1>2. \A i \in 1..n : p(i) = IF Statements[i].says = "actions" THEN said(i) ELSE <<>>
  BY <1>1 DEF ActionParts, SaidAt
<1>3. ASSUME NEW i \in 1..n PROVE said(i) \in Seq(T)
  <2>1. \A k \in 1..3 : said(i)[k] \in T
    OBVIOUS
  <2> HIDE DEF T
  <2> QED BY <2>1, ActionsAreSeq DEF SaidAt
<1> HIDE DEF T, said
<1>4. ASSUME NEW i \in 1..n PROVE p(i) \in Seq(T)
  <2>1. <<>> \in Seq(T)
    OBVIOUS
  <2> HIDE DEF p
  <2> QED BY <1>2, <1>3, <2>1
<1>5. /\ \A i \in 0..n : c(i) \in Seq(T)
      /\ c(0) = <<>>
      /\ \A i \in 1..n : c(i) = c(i - 1) \o p(i)
  BY <1>1, <1>4, JoinedByOne
<1> HIDE DEF c, p
<1>6. ASSUME NEW i \in 1..n
      PROVE  c(i) = IF Statements[i].says = "actions" THEN c(i - 1) \o said(i) ELSE c(i - 1)
  <2>1. i - 1 \in 0..n
    BY <1>1
  <2>2. c(i - 1) \in Seq(T)
    BY <1>5, <2>1
  <2>3. c(i - 1) \o <<>> = c(i - 1)
    BY <2>2, ConcatEmptySeq
  <2> QED BY <1>2, <1>5, <2>3
<1> QED BY <1>5, <1>6 DEF c, said

LEMMA NoActionsYet ==
  ASSUME NEW n, NEW D, IsListed(n, D), NEW prompt, NEW m \in 0..n,
         \A i \in 1..m : Statements[i].says # "actions"
  PROVE  Concat(ActionParts(Statements, prompt), m) = <<>>
<1> DEFINE c(i) == Concat(ActionParts(Statements, prompt), i)
           G == {i \in 0..m : c(i) = <<>>}
<1>0. n \in Nat /\ m \in Nat
  BY DEF IsListed
<1>1. 0 \in G
  BY <1>0, ActionsByOne
<1>2. ASSUME NEW i \in 1..m, i - 1 \in G PROVE i \in G
  <2>1. i \in 1..n /\ i \in 0..m
    BY <1>0
  <2>2. c(i) = c(i - 1)
    BY <2>1, ActionsByOne
  <2> HIDE DEF c
  <2> QED BY <1>2, <2>1, <2>2
<1>3. m \in G
  <2>1. \A i \in 0..m : i \in G
    <3> HIDE DEF G
    <3> QED BY <1>0, <1>1, <1>2, BoundedInduction
  <2>2. m \in 0..m
    BY <1>0
  <2> HIDE DEF G
  <2> QED BY <2>1, <2>2
<1> QED BY <1>3

\* What a file is, statement by statement.
IsScript(n) ==
  /\ n >= 1 /\ Statements[1].says = "version"
  /\ \A i \in 2..n : Statements[i].says \in {"setting", "actions"}
  /\ \A i, j \in 1..n : Statements[i].says = "actions" /\ Statements[j].says = "setting" => j < i
  /\ \E i \in 1..n : SettingOf(Statements[i], "spawn")
  /\ \A i, j \in 1..n : SettingOf(Statements[i], "spawn") /\ SettingOf(Statements[j], "spawn") => i = j

LEMMA WellFormedIs ==
  ASSUME NEW n, NEW D, IsListed(n, D)
  PROVE  WellFormed <=> IsScript(n)
<1>1. n = Len(Statements) /\ n \in Nat /\ DOMAIN Statements = 1..n /\ Statements \in Seq(D)
  BY DEF IsListed
<1>2. Statements # <<>> <=> n >= 1
  BY <1>1, EmptySeq
<1>3. (\E i \in 1..n : /\ SettingOf(Statements[i], "spawn")
                       /\ \A j \in 1..n : SettingOf(Statements[j], "spawn") => i = j)
      <=> /\ \E i \in 1..n : SettingOf(Statements[i], "spawn")
          /\ \A i, j \in 1..n : SettingOf(Statements[i], "spawn") /\ SettingOf(Statements[j], "spawn") => i = j
  OBVIOUS
<1> QED BY <1>1, <1>2, <1>3 DEF WellFormed, IsScript

\* The parser goes on, or the file is rejected, being none.
Goes(next) ==
  /\ UNCHANGED <<document, source, lines>>
  /\ \/ phase' = next
     \/ phase' = "rejected" /\ ~ WellFormed

LEMMA VersionParsed ==
  ASSUME NEW n, NEW D, IsListed(n, D), at = 1, header = NoHeader, ParseVersion
  PROVE  /\ Goes("header") /\ UNCHANGED <<header, body>>
         /\ phase' = "header" => InHeader(Statements, at', header')
<1>1. /\ n = Len(Statements) /\ n \in Nat /\ Len(lines) = n
      /\ lines \in Seq({LogicalLine(Statements[i]) : i \in 1..n})
  BY DEF IsListed
<1> DEFINE fits == /\ lines # <<>>
                   /\ lines[1].verb = <<"Version">>
                   /\ lines[1].args = <<Token("integer", <<"1">>)>>
<1>2. fits <=> n >= 1 /\ Statements[1].says = "version"
  <2>1. lines # <<>> <=> n >= 1
    BY <1>1, EmptySeq
  <2>2. n >= 1 => SaysWhat(Statements[1].says, lines[1].verb, lines[1].args)
    BY <1>1 DEF IsListed
  <2> QED BY <2>1, <2>2 DEF SaysWhat
<1>3. IF fits THEN phase' = "header" /\ at' = 2 /\ UNCHANGED <<document, source, lines, header, body>>
      ELSE Reject
  BY DEF ParseVersion
<1> HIDE DEF fits
<1>4. CASE fits
  <2>1. HeaderUpTo(Statements, NoHeader, 0)
    <3>1. \A field : GivenUpTo(Statements, field, 0) = {}
      BY DEF GivenUpTo
    <3>2. Concat(EnvParts(Statements), 0) = <<>>
      BY EnvByOne
    <3>3. \A field : LastUpTo(Statements, field, 0) = {}
      BY <3>1 DEF LastUpTo
    <3>4. /\ NoHeader = [field \in DOMAIN NoHeader |-> NoHeader[field]] /\ NoHeader.env = <<>>
          /\ \A field \in DOMAIN NoHeader \ {"env"} : NoHeader[field] = {}
      BY DEF NoHeader
    <3> QED BY <3>1, <3>2, <3>3, <3>4 DEF HeaderUpTo
  <2>2. HeaderUpTo(Statements, NoHeader, 1)
    <3>1. 0 + 1 = 1 /\ 1 \in 1..n /\ Statements[1].says # "setting"
      BY <1>1, <1>2, <1>4
    <3>2. HeaderUpTo(Statements, NoHeader, 0 + 1)
      BY <2>1, <3>1, HeaderStays
    <3> QED BY <3>1, <3>2
  <2>3. InHeader(Statements, 2, NoHeader)
    BY <1>1, <1>2, <1>4, <2>2 DEF InHeader
  <2> QED BY <1>3, <1>4, <2>3 DEF Goes
<1>5. CASE ~ fits
  <2>1. ~ WellFormed
    BY <1>2, <1>5, WellFormedIs DEF IsScript
  <2>2. Reject
    BY <1>3, <1>5
  <2> QED BY <2>1, <2>2 DEF Reject, Goes
<1> QED BY <1>4, <1>5

LEMMA HeaderApplied ==
  ASSUME NEW n, NEW D, IsListed(n, D), InHeader(Statements, at, header), ApplyHeader
  PROVE  /\ Goes("header") /\ UNCHANGED body
         /\ phase' = "header" => InHeader(Statements, at', header')
<1> DEFINE s    == Statements[at]
           verb == lines[at].verb[1]
           args == lines[at].args
           fits == HeaderLineFits(verb, args) /\ SpawnUnique(verb)
           more == IF verb = "SetEnv" THEN [header EXCEPT !.env = Append(@, args)]
                   ELSE [header EXCEPT ![Fields[verb]] = {Given(verb, args)}]
           m    == at - 1
<1>1. /\ phase = "header" /\ at <= Len(lines) /\ IsHeaderVerb(lines[at].verb)
      /\ IF fits THEN header' = more /\ at' = at + 1 /\ UNCHANGED <<document, source, lines, phase, body>>
         ELSE Reject
  BY Zenon DEF ApplyHeader
<1>2. /\ n = Len(Statements) /\ n \in Nat /\ Len(lines) = n
  BY DEF IsListed
<1>3. /\ at \in 2..(n + 1) /\ Statements[1].says = "version"
      /\ \A i \in 2..(at - 1) : Statements[i].says = "setting"
      /\ HeaderUpTo(Statements, header, m)
  BY <1>2 DEF InHeader
<1>4. at \in 1..n /\ m \in Nat /\ m + 1 = at /\ at \in 2..n
  BY <1>1, <1>2, <1>3
<1>5. /\ lines[at].verb = s.form.verb /\ args = Args(s.form)
      /\ SaysWhat(s.says, lines[at].verb, args)
  BY <1>4 DEF IsListed
<1>6. s.says = "setting" <=> HeaderLineFits(verb, args)
  BY <1>1, <1>5 DEF SaysWhat
<1>7. s.says # "actions"
  BY <1>1, <1>5 DEF SaysWhat
<1>8. \A field : SettingOf(s, field) <=> s.says = "setting" /\ Fields[verb] = field
  BY <1>5 DEF SettingOf
<1>9. header.spawn = {} <=> GivenUpTo(Statements, "spawn", m) = {}
  <2>1. header.spawn = LastUpTo(Statements, "spawn", m)
    BY <1>3 DEF HeaderUpTo, NoHeader
  <2> QED BY <1>4, <2>1, LastByOne
<1>10. CASE fits
  <2>1. header' = more /\ at' = at + 1 /\ UNCHANGED <<document, source, lines, phase, body>>
    BY <1>1, <1>10
  <2>2. s.says = "setting" /\ (Fields[verb] = "spawn" => header.spawn = {})
    BY <1>6, <1>10 DEF SpawnUnique
  <2>3. verb = s.form.verb[1] /\ s = Statements[m + 1] /\ m + 1 \in 1..n
    BY <1>4, <1>5
  <2>7. more = IF verb = "SetEnv" THEN [header EXCEPT !.env = Append(@, args)]
               ELSE [header EXCEPT ![Fields[verb]] = {Given(verb, args)}]
    OBVIOUS
  <2> HIDE DEF s, verb, args, more, m
  <2>4. HeaderUpTo(Statements, more, m + 1)
    BY <1>3, <1>4, <1>5, <2>2, <2>3, <2>7, HeaderSets
  <2>5. /\ at' \in 2..(n + 1) /\ at' - 1 = m + 1
        /\ \A i \in 2..(at' - 1) : Statements[i].says = "setting"
    <3>1. at' \in 2..(n + 1) /\ at' - 1 = m + 1 /\ at' - 1 = at
      BY <1>2, <1>4, <2>1
    <3>2. ASSUME NEW i \in 2..at PROVE Statements[i].says = "setting"
      <4>1. i = at \/ i \in 2..(at - 1)
        BY <1>4
      <4> QED BY <1>3, <2>2, <4>1 DEF s
    <3> QED BY <3>1, <3>2
  <2>6. InHeader(Statements, at', header')
    BY <1>2, <1>3, <2>1, <2>4, <2>5 DEF InHeader
  <2> QED BY <1>1, <2>1, <2>6 DEF Goes
<1>11. CASE ~ fits
  <2>1. Reject
    BY <1>1, <1>11
  <2>2. ~ WellFormed
    <3>1. CASE ~ HeaderLineFits(verb, args)
      <4>1. s.says \notin {"setting", "actions"}
        BY <1>6, <1>7, <3>1
      <4> QED BY <1>4, <4>1, WellFormedIs DEF IsScript
    <3>2. CASE HeaderLineFits(verb, args) /\ Fields[verb] = "spawn" /\ header.spawn # {}
      <4>1. PICK i \in 1..m : SettingOf(Statements[i], "spawn")
        BY <1>9, <3>2 DEF GivenUpTo
      <4>2. SettingOf(Statements[at], "spawn")
        BY <1>6, <1>8, <3>2
      <4>3. i \in 1..n /\ i # at
        BY <1>2, <1>4
      <4>4. ~ IsScript(n)
        BY <1>4, <4>1, <4>2, <4>3 DEF IsScript
      <4> QED BY <4>4, WellFormedIs
    <3> QED BY <1>11, <3>1, <3>2 DEF SpawnUnique
  <2> QED BY <2>1, <2>2 DEF Reject, Goes
<1> QED BY <1>10, <1>11

LEMMA HeaderFinished ==
  ASSUME NEW n, NEW D, IsListed(n, D), InHeader(Statements, at, header), body = <<>>, FinishHeader
  PROVE  /\ Goes("body")
         /\ phase' = "body" => InBody(Statements, at', header', body')
<1> DEFINE m == at - 1
           prompt == PromptOf(header.prompt)
<1>1. /\ at <= Len(lines) => ~ IsHeaderVerb(lines[at].verb)
      /\ IF header.spawn # {} THEN phase' = "body" /\ UNCHANGED <<document, source, at, lines, header, body>>
         ELSE Reject
  BY DEF FinishHeader
<1>2. /\ n = Len(Statements) /\ n \in Nat /\ Len(lines) = n
  BY DEF IsListed
<1>3. /\ at \in 2..(n + 1) /\ Statements[1].says = "version"
      /\ \A i \in 2..(at - 1) : Statements[i].says = "setting"
      /\ HeaderUpTo(Statements, header, m)
  BY <1>2 DEF InHeader
<1>4. at \in Nat /\ m \in 0..n /\ m \in Nat /\ n >= 1
  BY <1>2, <1>3
<1>5. at <= n => at \in 1..n /\ Statements[at].says # "setting"
  <2>1. SUFFICES ASSUME at <= n PROVE at \in 1..n /\ Statements[at].says # "setting"
    OBVIOUS
  <2>2. at \in 1..n
    BY <1>2, <1>3, <2>1
  <2>3. SaysWhat(Statements[at].says, lines[at].verb, lines[at].args)
    BY <2>2 DEF IsListed
  <2> QED BY <1>1, <1>2, <2>1, <2>2, <2>3 DEF SaysWhat
<1>6. CASE header.spawn # {}
  <2>1. phase' = "body" /\ UNCHANGED <<document, source, at, lines, header, body>>
    BY <1>1, <1>6
  <2>2. \A i \in 1..m : Statements[i].says # "actions"
    <3>1. \A i \in 1..m : i = 1 \/ i \in 2..(at - 1)
      BY <1>4
    <3> QED BY <1>3, <3>1
  <2>3. Concat(ActionParts(Statements, prompt), m) = <<>>
    <3> HIDE DEF m, prompt
    <3> QED BY <1>4, <2>2, NoActionsYet
  <2>4. \E c \in 2..at : /\ \A i \in 2..(c - 1) : Statements[i].says = "setting"
                         /\ \A i \in c..(at - 1) : Statements[i].says = "actions"
                         /\ c <= Len(Statements) => Statements[c].says # "setting"
    <3>1. /\ at \in 2..at /\ \A i \in 2..(at - 1) : Statements[i].says = "setting"
          /\ \A i \in at..(at - 1) : Statements[i].says = "actions"
          /\ at <= Len(Statements) => Statements[at].says # "setting"
      BY <1>2, <1>3, <1>4, <1>5
    <3> QED BY <3>1
  <2>5. InBody(Statements, at, header, body)
    BY <1>2, <1>3, <1>6, <2>3, <2>4 DEF InBody
  <2> QED BY <2>1, <2>5 DEF Goes
<1>7. CASE header.spawn = {}
  <2>1. Reject
    BY <1>1, <1>7
  <2>2. GivenUpTo(Statements, "spawn", m) = {}
    <3>1. header.spawn = LastUpTo(Statements, "spawn", m)
      BY <1>3 DEF HeaderUpTo, NoHeader
    <3> QED BY <1>4, <1>7, <3>1, LastByOne
  <2>3. ~ IsScript(n)
    <3>1. SUFFICES ASSUME IsScript(n) PROVE FALSE
      OBVIOUS
    <3>2. PICK i \in 1..n : SettingOf(Statements[i], "spawn")
      BY <3>1 DEF IsScript
    <3>3. i \notin 1..m /\ Statements[i].says = "setting"
      BY <2>2, <3>2 DEF GivenUpTo, SettingOf
    <3>4. at <= i /\ at \in 2..n
      BY <1>2, <1>3, <3>3
    <3>5. at # i /\ Statements[at].says = "actions"
      BY <1>5, <3>1, <3>3, <3>4 DEF IsScript
    <3>6. i < at
      BY <1>5, <3>1, <3>3, <3>4, <3>5 DEF IsScript
    <3> QED BY <1>4, <3>4, <3>6
  <2>4. ~ WellFormed
    BY <2>3, WellFormedIs
  <2> QED BY <2>1, <2>4 DEF Reject, Goes
<1> QED BY <1>6, <1>7

LEMMA BodyParsed ==
  ASSUME NEW n, NEW D, IsListed(n, D), InBody(Statements, at, header, body), ParseBodyLine
  PROVE  /\ Goes("body")
         /\ phase' = "body" => InBody(Statements, at', header', body')
<1> DEFINE s       == Statements[at]
           verb    == lines[at].verb
           args    == lines[at].args
           prompt  == PromptOf(header.prompt)
           actions == IF Len(verb) = 1 THEN Actions(verb[1], args, prompt) ELSE <<>>
           m       == at - 1
           said(i) == Concat(ActionParts(Statements, prompt), i)
<1>1. /\ phase = "body" /\ at <= Len(lines)
      /\ IF actions = <<>> THEN Reject
         ELSE body' = body \o actions /\ at' = at + 1 /\ UNCHANGED <<document, source, lines, phase, header>>
  BY DEF ParseBodyLine, Prompt
<1>2. /\ n = Len(Statements) /\ n \in Nat /\ Len(lines) = n
  BY DEF IsListed
<1>3. /\ at \in 2..(n + 1) /\ Statements[1].says = "version"
      /\ header.spawn # {} /\ HeaderUpTo(Statements, header, m) /\ body = said(m)
  BY <1>2 DEF InBody
<1>4. PICK c \in 2..at : /\ \A i \in 2..(c - 1) : Statements[i].says = "setting"
                         /\ \A i \in c..(at - 1) : Statements[i].says = "actions"
                         /\ c <= n => Statements[c].says # "setting"
  BY <1>2 DEF InBody
<1>5. at \in 1..n /\ m \in Nat /\ m + 1 = at /\ at \in 2..n /\ c \in 2..n
  BY <1>1, <1>2, <1>3
<1>6. verb = s.form.verb /\ args = Args(s.form) /\ SaysWhat(s.says, verb, args)
  BY <1>5 DEF IsListed
<1>7. /\ s.says = "actions" => /\ Len(verb) = 1 /\ actions # <<>>
                               /\ actions = ActionsSaid(verb[1], args, prompt)
      /\ s.says # "actions" => actions = <<>>
  <2>1. PICK S : args \in Seq(S)
    BY <1>6 DEF SaysWhat
  <2>2. ActionsFound(verb[1], args, prompt)
    <3> HIDE DEF args, verb, prompt
    <3> QED BY <2>1, ActionsRead
  <2>3. s.says = "actions" <=> Len(verb) = 1 /\ BodyLineFits(verb[1], args)
    BY <1>6 DEF SaysWhat
  <2> HIDE DEF s, args, verb, prompt
  <2> QED BY <2>2, <2>3 DEF ActionsFound
<1>8. CASE s.says = "actions"
  <2>1. body' = body \o actions /\ at' = at + 1 /\ UNCHANGED <<document, source, lines, phase, header>>
    BY <1>1, <1>7, <1>8
  <2>2. body' = said(at)
    <3>1. actions = SaidAt(at, prompt)
      BY <1>6, <1>7, <1>8 DEF SaidAt
    <3>2. said(at) = said(at - 1) \o SaidAt(at, prompt)
      <4> HIDE DEF prompt
      <4> QED BY <1>5, <1>8, ActionsByOne
    <3> HIDE DEF said, actions
    <3> QED BY <1>3, <2>1, <3>1, <3>2
  <2>3. HeaderUpTo(Statements, header, at)
    <3>1. Statements[m + 1].says # "setting"
      BY <1>5, <1>8
    <3> HIDE DEF m
    <3>2. HeaderUpTo(Statements, header, m + 1)
      BY <1>3, <1>5, <3>1, HeaderStays
    <3> QED BY <1>5, <3>2
  <2>4. at' \in 2..(n + 1) /\ at' - 1 = at
    BY <1>2, <1>5, <2>1
  <2>5. \E d \in 2..at' : /\ \A i \in 2..(d - 1) : Statements[i].says = "setting"
                          /\ \A i \in d..(at' - 1) : Statements[i].says = "actions"
                          /\ d <= Len(Statements) => Statements[d].says # "setting"
    <3>1. c \in 2..at'
      BY <1>5, <2>1
    <3>2. ASSUME NEW i \in c..at PROVE Statements[i].says = "actions"
      <4>1. i = at \/ i \in c..(at - 1)
        BY <1>5
      <4> QED BY <1>4, <1>8, <4>1
    <3> QED BY <1>2, <1>4, <2>4, <3>1, <3>2
  <2>6. InBody(Statements, at', header', body')
    BY <1>2, <1>3, <2>1, <2>2, <2>3, <2>4, <2>5 DEF InBody
  <2> QED BY <1>1, <2>1, <2>6 DEF Goes
<1>9. CASE s.says # "actions"
  <2>1. Reject
    BY <1>1, <1>7, <1>9
  <2>2. ~ IsScript(n)
    <3>1. SUFFICES ASSUME IsScript(n) PROVE FALSE
      OBVIOUS
    <3>2. Statements[at].says = "setting"
      BY <1>5, <1>9, <3>1 DEF IsScript
    <3>3. c # at
      BY <1>4, <1>5, <3>2
    <3>4. Statements[c].says = "actions" /\ c \in 1..n /\ c < at
      BY <1>4, <1>5, <3>3
    <3>5. at < c
      BY <1>5, <3>1, <3>2, <3>4 DEF IsScript
    <3> QED BY <1>5, <3>4, <3>5
  <2>3. ~ WellFormed
    BY <2>2, WellFormedIs
  <2> QED BY <2>1, <2>3 DEF Reject, Goes
<1> QED BY <1>8, <1>9

\* At the end, what has been read is all there is.
LEMMA ReadToTheEnd ==
  ASSUME NEW n, NEW D, IsListed(n, D), InBody(Statements, at, header, body), at > Len(lines)
  PROVE  WellFormed /\ AllRead
<1>1. /\ n = Len(Statements) /\ n \in Nat /\ Len(lines) = n /\ DOMAIN Statements = 1..n
  BY DEF IsListed
<1>2. /\ at \in 2..(n + 1) /\ Statements[1].says = "version"
      /\ header.spawn # {} /\ HeaderUpTo(Statements, header, at - 1)
      /\ body = Concat(ActionParts(Statements, PromptOf(header.prompt)), at - 1)
  BY <1>1 DEF InBody
<1>3. at = n + 1 /\ at - 1 = n /\ n >= 1 /\ n \in Nat
  BY <1>1, <1>2
<1>4. PICK c \in 2..(n + 1) : /\ \A i \in 2..(c - 1) : Statements[i].says = "setting"
                              /\ \A i \in c..n : Statements[i].says = "actions"
  BY <1>3 DEF InBody
<1>5. \A i \in 1..n : i = 1 \/ i \in 2..(c - 1) \/ i \in c..n
  BY <1>3
<1>6. /\ header.env = Concat(EnvParts(Statements), n)
      /\ \A field \in DOMAIN NoHeader \ {"env"} : header[field] = LastUpTo(Statements, field, n)
      /\ \A i, j \in GivenUpTo(Statements, "spawn", n) : i = j
  BY <1>2, <1>3 DEF HeaderUpTo
<1>7. GivenUpTo(Statements, "spawn", n) # {}
  <2>1. header.spawn = LastUpTo(Statements, "spawn", n)
    BY <1>6 DEF NoHeader
  <2> QED BY <1>2, <1>3, <2>1, LastByOne
<1>8. IsScript(n)
  <2>1. \A i \in 2..n : Statements[i].says \in {"setting", "actions"}
    BY <1>4, <1>5
  <2>2. ASSUME NEW i \in 1..n, NEW j \in 1..n, Statements[i].says = "actions", Statements[j].says = "setting"
        PROVE  j < i
    <3>1. i \in c..n /\ j \in 2..(c - 1)
      BY <1>2, <1>4, <1>5, <2>2
    <3> QED BY <1>3, <3>1
  <2> QED BY <1>2, <1>3, <1>6, <1>7, <2>1, <2>2 DEF IsScript, GivenUpTo
<1>9. \A field : LastGiven(field) = LastUpTo(Statements, field, n)
  BY <1>1 DEF LastGiven, LastUpTo, GivenUpTo, Setting
<1>10. EnvGiven = Concat(EnvParts(Statements), n)
  BY <1>1 DEF EnvGiven, EnvParts
<1>11. AllActions = Concat(ActionParts(Statements, PromptOf(LastGiven("prompt"))), n)
  BY <1>1 DEF AllActions, ActionParts
<1>12. header.prompt = LastGiven("prompt")
  BY <1>6, <1>9 DEF NoHeader
<1>13. AllRead
  BY <1>2, <1>3, <1>6, <1>9, <1>10, <1>11, <1>12 DEF AllRead
<1> QED BY <1>8, <1>13, WellFormedIs

-----------------------------------------------------------------------------
(***************************************************************************)
(* The theorems.                                                           *)
(***************************************************************************)
LEMMA ScriptInvInit ==
  ASSUME ScriptInit
  PROVE  ScriptInv
<1>1. /\ document \in Documents /\ at = 1 /\ lines = <<>> /\ phase = "lex"
      /\ header = NoHeader /\ body = <<>>
      /\ source = Concat([k \in DOMAIN document |-> document[k].text], Len(document))
  BY DEF ScriptInit
<1>2. Documented
  BY <1>1 DEF Documented, Texts
<1>3. PICK n, D : IsLaidOut(n, D)
  BY <1>2, DocumentLaidOut
<1>4. Len(Concat(Texts, 0)) = 0 /\ n = Len(document) /\ n \in Nat
  BY <1>3 DEF IsLaidOut, LaidOut
<1>5. UpTo(0) = <<>>
  BY <1>3, SayingByOne
<1>6. LexedUpTo(0)
  <2>1. LogicalLines(<<>>) = <<>>
    BY DEF LogicalLines
  <2> QED BY <1>1, <1>4, <1>5, <2>1 DEF LexedUpTo
<1>7. 0 \in 0..Len(document)
  BY <1>4
<1> QED BY <1>1, <1>2, <1>6, <1>7 DEF ScriptInv, Documented

\* What the invariant says of a state in one phase.
LEMMA ScriptInvStep ==
  ASSUME ScriptInv, [ScriptNext]_scriptVars
  PROVE  ScriptInv'
<1>0. Documented
  BY DEF ScriptInv, Documented
<1>1. PICK n0, D0 : IsLaidOut(n0, D0)
  BY <1>0, DocumentLaidOut
<1>2. n0 = Len(document)
  BY <1>1 DEF IsLaidOut
<1>3. document' = document /\ source' = source => Documented'
  BY <1>0 DEF Documented, Texts
<1>4. document' = document => Statements' = Statements
  BY DEF Statements
<1>5. document' = document => (WellFormed' <=> WellFormed) /\ (SomeCutOff' <=> SomeCutOff)
  BY <1>4 DEF WellFormed, SomeCutOff
<1>6. document' = document /\ lines' = lines => (AllLexed' <=> AllLexed)
  BY <1>4 DEF AllLexed
<1>7. CASE LexLine
  <2>1. PICK k \in 0..n0 : LexedUpTo(k)
    BY <1>2, <1>7 DEF ScriptInv, LexLine
  <2>2. header = NoHeader /\ body = <<>>
    BY <1>7 DEF ScriptInv, LexLine
  <2>3. \/ /\ phase' = "lex" /\ UNCHANGED <<document, source, header, body>>
           /\ k + 1 \in 0..n0 /\ LexedUpTo(k + 1)'
        \/ phase' = "rejected" /\ (WellFormed => SomeCutOff) /\ UNCHANGED <<document, source, header, body>>
    BY <1>1, <1>7, <2>1, LexedByOne
  <2> QED BY <1>2, <1>3, <1>5, <2>2, <2>3 DEF ScriptInv, Documented
<1>8. CASE LexEnd
  <2>1. PICK k \in 0..n0 : LexedUpTo(k)
    BY <1>2, <1>8 DEF ScriptInv, LexEnd
  <2>2. AllLexed
    BY <1>1, <1>8, <2>1, LexedToTheEnd DEF LexEnd
  <2> QED BY <1>3, <1>6, <1>8, <2>2 DEF ScriptInv, Documented, LexEnd
<1>9. ASSUME phase \in {"version", "header", "body"}
      PROVE  AllLexed /\ \E n, D : IsListed(n, D)
  <2>1. AllLexed
    BY <1>9 DEF ScriptInv
  <2> QED BY <1>0, <2>1, LinesListed
<1>10. ASSUME NEW next \in {"header", "body"}, Goes(next), AllLexed,
              next = "header" => body' = <<>>,
              phase' = "header" => InHeader(Statements, at', header'),
              phase' = "body" => InBody(Statements, at', header', body')
       PROVE  ScriptInv'
  <2>0. Goes(next)
    BY <1>10
  <2>1. /\ UNCHANGED <<document, source, lines>>
        /\ phase' = next \/ (phase' = "rejected" /\ ~ WellFormed)
    BY <2>0 DEF Goes
  <2>2. Documented' /\ Statements' = Statements /\ (WellFormed' <=> WellFormed) /\ AllLexed'
    BY <1>3, <1>4, <1>5, <1>6, <1>10, <2>1
  <2>3. CASE phase' = "rejected" /\ ~ WellFormed
    BY <2>2, <2>3 DEF ScriptInv, Documented
  <2>4. CASE phase' = "header" /\ next = "header"
    BY <1>10, <2>2, <2>4 DEF ScriptInv, Documented
  <2>5. CASE phase' = "body" /\ next = "body"
    BY <1>10, <2>2, <2>5 DEF ScriptInv, Documented
  <2> QED BY <2>1, <2>3, <2>4, <2>5
<1>11. CASE ParseVersion
  <2>1. phase = "version" /\ at = 1 /\ header = NoHeader /\ body = <<>>
    BY <1>11 DEF ScriptInv, ParseVersion
  <2>2. AllLexed
    BY <1>9, <2>1
  <2>3. PICK n, D : IsListed(n, D)
    BY <1>9, <2>1
  <2>4. /\ Goes("header") /\ UNCHANGED <<header, body>>
        /\ phase' = "header" => InHeader(Statements, at', header')
    BY <1>11, <2>1, <2>3, VersionParsed
  <2>5. phase' # "body"
    BY <2>4 DEF Goes
  <2> QED BY <1>10, <2>1, <2>2, <2>4, <2>5
<1>12. CASE ApplyHeader
  <2>1. phase = "header" /\ InHeader(Statements, at, header) /\ body = <<>>
    BY <1>12 DEF ScriptInv, ApplyHeader
  <2>2. AllLexed
    BY <1>9, <2>1
  <2>3. PICK n, D : IsListed(n, D)
    BY <1>9, <2>1
  <2>4. /\ Goes("header") /\ UNCHANGED body
        /\ phase' = "header" => InHeader(Statements, at', header')
    BY <1>12, <2>1, <2>3, HeaderApplied
  <2>5. phase' # "body"
    BY <2>4 DEF Goes
  <2> QED BY <1>10, <2>1, <2>2, <2>4, <2>5
<1>13. CASE FinishHeader
  <2>1. phase = "header" /\ InHeader(Statements, at, header) /\ body = <<>>
    BY <1>13 DEF ScriptInv, FinishHeader
  <2>2. AllLexed
    BY <1>9, <2>1
  <2>3. PICK n, D : IsListed(n, D)
    BY <1>9, <2>1
  <2>4. Goes("body") /\ (phase' = "body" => InBody(Statements, at', header', body'))
    BY <1>13, <2>1, <2>3, HeaderFinished
  <2>5. phase' # "header"
    BY <2>4 DEF Goes
  <2> QED BY <1>10, <2>2, <2>4, <2>5
<1>14. CASE ParseBodyLine
  <2>1. phase = "body" /\ InBody(Statements, at, header, body)
    BY <1>14 DEF ScriptInv, ParseBodyLine
  <2>2. AllLexed
    BY <1>9, <2>1
  <2>3. PICK n, D : IsListed(n, D)
    BY <1>9, <2>1
  <2>4. Goes("body") /\ (phase' = "body" => InBody(Statements, at', header', body'))
    BY <1>14, <2>1, <2>3, BodyParsed
  <2>5. phase' # "header"
    BY <2>4 DEF Goes
  <2> QED BY <1>10, <2>2, <2>4, <2>5
<1>15. CASE Accept
  <2>1. phase = "body" /\ InBody(Statements, at, header, body) /\ at > Len(lines)
    BY <1>15 DEF ScriptInv, Accept
  <2>2. PICK n, D : IsListed(n, D)
    BY <1>9, <2>1
  <2>3. WellFormed /\ AllRead
    BY <2>1, <2>2, ReadToTheEnd
  <2>4. phase' = "accepted" /\ UNCHANGED <<document, source, at, lines, header, body>>
    BY <1>15 DEF Accept
  <2>7. document' = document /\ header' = header /\ body' = body
    BY <2>4
  <2>8. AllRead' <=> AllRead
    BY <2>7 DEF AllRead, AllActions, EnvGiven, LastGiven, Statements
  <2>5. AllRead'
    BY <2>3, <2>8
  <2>6. Documented' /\ WellFormed'
    BY <1>3, <1>5, <2>3, <2>4
  <2> QED BY <2>4, <2>5, <2>6 DEF ScriptInv, Documented
<1>16. CASE UNCHANGED scriptVars
  <2>1. UNCHANGED <<document, source, at, lines, phase, header, body>>
    BY <1>16 DEF scriptVars
  <2>2. AllRead' <=> AllRead
    BY <2>1 DEF AllRead, AllActions, EnvGiven, LastGiven, Statements
  <2>3. \A k : LexedUpTo(k)' <=> LexedUpTo(k)
    BY <2>1 DEF LexedUpTo, Texts, UpTo, Saying
  <2> QED BY <1>3, <1>4, <1>5, <1>6, <2>1, <2>2, <2>3 DEF ScriptInv, Documented
<1> QED BY <1>7, <1>8, <1>11, <1>12, <1>13, <1>14, <1>15, <1>16 DEF ScriptNext

\* The invariant holds in every state.
THEOREM ScriptsAreRead == ScriptSpec => []ScriptInv
<1>1. ScriptInit => ScriptInv
  BY ScriptInvInit
<1>2. ScriptInv /\ [ScriptNext]_scriptVars => ScriptInv'
  BY ScriptInvStep
<1> QED BY <1>1, <1>2, PTL DEF ScriptSpec

\* A file that is accepted is one the grammar has, whatever its strings, regular
\* expressions and heredocs look like.
THEOREM AcceptedIsWellFormed == ScriptSpec => []OnlyWellFormed
<1>1. ScriptInv => OnlyWellFormed
  BY DEF ScriptInv, OnlyWellFormed
<1> QED BY <1>1, ScriptsAreRead, PTL

\* What is written is what is read: an accepted file gives the actions and settings it
\* says, and the process target it names; a well-formed file that is rejected has a
\* literal which strip_comment_and_trim cuts off.
THEOREM WrittenIsRead == ScriptSpec => []ReadsBack
<1>1. ScriptInv => ReadsBack
  BY DEF ScriptInv, ReadsBack, AllRead, SomeCutOff
<1> QED BY <1>1, ScriptsAreRead, PTL
=============================================================================
