------------------------------ MODULE MCScript ------------------------------
(* Instances of Script: files of a few statements, some of them malformed. *)
EXTENDS Script

WordsUsed ==
  {"Version", "SetSpawn", "SetCold", "SetPrompt", "SetEnv", "SetCols", "Send", "Type", "Press",
   "WaitFor", "WaitForPrompt", "Run", "Sleep", "PerChar", "Settle", "Timeout", "Label", "Dwell",
   "Enter", "END", "a", "b", "n"}
NumbersUsed   == {"1", "99999", "4294967296"}
WideNumbers   == {"99999", "4294967296"}
HugeNumbers   == {"4294967296"}
DurationsUsed == {"2s", "3s"}
SymbolsUsed   == WordsUsed \cup NumbersUsed \cup DurationsUsed \cup Signs \cup {"="}

\* Arguments, one blank before each, or none; an option is a word and its value.
Word(s) == [gap |-> 1, kind |-> "ident", text |-> <<s>>]
Int(s)  == [gap |-> 1, kind |-> "integer", text |-> <<s>>]
Time(s) == [gap |-> 1, kind |-> "duration", text |-> <<s>>]
Str(t)  == [gap |-> 1, kind |-> "string", text |-> t]
Rex(u)  == [gap |-> 1, kind |-> "regex", units |-> u]
Doc(ls) == [gap |-> 1, kind |-> "heredoc", name |-> "END", lines |-> ls, trail |-> 1]

Close(arg) == [arg EXCEPT !.gap = 0]

Form(verb, args, tail) == [indent |-> 0, verb |-> <<verb>>, args |-> args, tail |-> tail]
Readable(says, form) == [says |-> says, why |-> "readable", form |-> form, text |-> LinesOf(form)]
Line(says, verb, args) == Readable(says, Form(verb, args, <<>>))

Nothing(line) == [says |-> "nothing", text |-> <<line>>]
Verbless(line) == [says |-> "wrong", why |-> "verbless", text |-> <<line>>]
Endless(form) == [says |-> "wrong", why |-> "endless", form |-> form, text |-> <<LineOf(form)>>]
Breaks(verb, args, open, rest) ==
  LET broken == [form |-> Form(verb, args, <<>>), gap |-> IF args = <<>> THEN 1 ELSE 0,
                 open |-> open, rest |-> rest]
  IN  [says |-> "wrong", why |-> "broken", broken |-> broken, text |-> <<BrokenLine(broken)>>]

Version == Line("version", "Version", <<Int("1")>>)

\* Settings and actions, each with something that is hard to read: quotes, hashes,
\* backslashes and line ends in literals, a heredoc that looks like other lines,
\* options twice, arguments without a blank between them, comments with and
\* without one.  Two, Send "a\" # b" and WaitFor /a #/, are cut off.
Good ==
  {Version,
   Nothing(<<"blank", "#", "blank", "quote">>), Nothing(<<"blank">>),
   Line("setting", "SetSpawn", <<Str(<<"a">>)>>),
   Readable("setting", Form("SetCold", <<Str(<<"b">>)>>, <<"blank">>)),
   Readable("setting", Form("SetEnv", <<Str(<<"a">>), Str(<<"b">>)>>, <<"blank", "#", "quote">>)),
   Line("setting", "SetPrompt", <<Rex(<<<<"a">>, <<"backslash", "/">>>>)>>),
   Line("actions", "Send", <<Str(<<"a", "blank", "#", "b">>)>>),
   Readable("actions", Form("Send", <<Str(<<"quote", "#", "backslash", "newline">>)>>, <<"#">>)),
   Line("actions", "Send", <<Str(<<"a", "quote", "blank", "#", "blank", "b">>)>>),
   Line("actions", "Type",
        <<Str(<<"a">>), Close(Word("PerChar")), Time("2s"), Word("PerChar"), Time("3s")>>),
   Line("actions", "Press", <<Word("Enter"), Int("99999"), Word("Settle"), Time("2s"), Close(Int("1"))>>),
   Line("actions", "WaitForPrompt", <<Word("Dwell"), Time("2s")>>),
   Line("actions", "WaitFor", <<Rex(<<<<"#">>>>), Word("Timeout"), Time("2s"), Word("Label"), Str(<<"a">>)>>),
   Line("actions", "WaitFor", <<Rex(<<<<"a">>, <<"blank">>, <<"#">>>>)>>),
   Line("actions", "Sleep", <<Time("2s"), Word("Settle"), Time("3s")>>),
   Line("actions", "Run", <<Doc(<<<<"#", "blank", "quote">>, <<"blank", "END">>>>)>>)}

Bad ==
  {Line("wrong", "Press", <<Word("a")>>),
   Line("wrong", "Press", <<Word("Enter"), Int("4294967296")>>),
   Line("wrong", "Sleep", <<Time("2s"), Word("Settle")>>),
   Line("wrong", "SetCols", <<Int("99999")>>),
   Readable("wrong", [Form("Send", <<>>, <<>>) EXCEPT !.verb = <<"Send", "quote", "a", "quote">>]),
   Endless(Form("Send", <<Doc(<<>>)>>, <<>>)),
   Verbless(<<"=", "blank", "a">>),
   Breaks("Send", <<>>, [kind |-> "string", text |-> <<"a">>, escaping |-> FALSE], <<>>),
   Breaks("Send", <<>>, [kind |-> "string", text |-> <<>>, escaping |-> TRUE], <<"b", "quote">>),
   Breaks("WaitFor", <<>>, [kind |-> "regex", units |-> <<<<"a">>, <<"blank">>>>, escaping |-> FALSE],
          <<>>),
   Breaks("Type", <<Str(<<"a">>)>>, [kind |-> "none"], <<"=">>)}

Pool == Good \cup Bad

SmallDocuments ==
  {d \in {<<>>} \cup {<<s>> : s \in Pool} \cup {<<s, t>> : s, t \in Pool}
         \cup {<<Version, s, t, u>> : s, t, u \in Pool} : \A k \in DOMAIN d : IsStatement(d, k)}
=============================================================================
