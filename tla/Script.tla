------------------------------- MODULE Script -------------------------------
(***************************************************************************)
(* Script: reading a .script file, first line by line into tokens, then    *)
(* verb by verb into a header and a body of actions.                       *)
(***************************************************************************)
EXTENDS ScriptGrammar

CONSTANT Documents   \* the files to read, as the statements they are made of

ASSUME DocumentsAssumption == \A d \in Documents : IsDocument(d)

VARIABLES document, \* the statements of the file
          source,   \* its raw lines
          at,       \* the line, or the logical line, that is next
          lines,    \* the logical lines so far: verb and arguments
          phase,    \* "lex", "version", "header", "body", "accepted", "rejected"
          header,   \* HeaderBuilder
          body      \* the actions so far

scriptVars == <<document, source, at, lines, phase, header, body>>

NoHeader == [cols |-> {}, rows |-> {}, spawn |-> {}, env |-> <<>>, shell_rcfile |-> {},
             max_runtime |-> {}, prompt |-> {}, per_char_dwell |-> {}, per_key_dwell |-> {},
             warm_command |-> {}]

ScriptInit ==
  /\ document \in Documents
  /\ source = Concat([k \in DOMAIN document |-> document[k].text], Len(document))
  /\ at = 1
  /\ lines = <<>>
  /\ phase = "lex"
  /\ header = NoHeader
  /\ body = <<>>

-----------------------------------------------------------------------------
(* lex.rs *)

FirstOf(S) == CHOOSE i \in S : \A j \in S : i <= j
LastOf(S)  == CHOOSE i \in S : \A j \in S : i >= j

StringBlindMutant(raw, i) ==   \* forgets that it may be inside a string
  raw[i] = "#" /\ (i = 1 \/ raw[i - 1] = "blank")

\* A hash with a blank before it, after an even number of quotes.
StartsComment(raw, i) ==
  /\ raw[i] = "#"
  /\ i = 1 \/ raw[i - 1] = "blank"
  /\ Len(Only(SubSeq(raw, 1, i - 1), {"quote"})) % 2 = 0

Inked(raw) == {i \in DOMAIN raw : raw[i] # "blank"}

Trim(raw) == IF Inked(raw) = {} THEN <<>> ELSE SubSeq(raw, FirstOf(Inked(raw)), LastOf(Inked(raw)))

TrimEnd(raw) == IF Inked(raw) = {} THEN <<>> ELSE SubSeq(raw, 1, LastOf(Inked(raw)))

StripCommentAndTrim(raw) ==
  LET hashes == {i \in DOMAIN raw : StartsComment(raw, i)}
  IN  Trim(IF hashes = {} THEN raw ELSE SubSeq(raw, 1, FirstOf(hashes) - 1))

\* split_verb: the verb goes up to a blank.
VerbEnd(line) ==
  LET blanks == {i \in DOMAIN line : line[i] = "blank"}
  IN  IF blanks = {} THEN Len(line) ELSE FirstOf(blanks) - 1

\* What a backslash and the symbol after it stand for in a string.
Escapes == [s \in {"quote", "backslash", "n"} |-> IF s = "n" THEN "newline" ELSE s]

Lexer(mode, text, args) == [mode |-> mode, text |-> text, args |-> args]

\* One symbol of the arguments of a line.  "between" tokens a hash ends the
\* line; a slash ends a regex, an unescaped quote a string.
Scan(lexer, s) ==
  LET enter(mode)    == Lexer(mode, <<>>, lexer.args)
      take(mode, t)  == Lexer(mode, lexer.text \o t, lexer.args)
      token(kind, t) == Lexer("between", <<>>, Append(lexer.args, Token(kind, t)))
      error          == enter("error")
  IN  CASE lexer.mode \in {"comment", "error"} -> lexer
        [] lexer.mode = "string" ->
             IF s = "quote" THEN token("string", lexer.text)
             ELSE IF s = "backslash" THEN take("escape", <<>>) ELSE take("string", <<s>>)
        [] lexer.mode = "escape" ->
             IF s \in DOMAIN Escapes THEN take("string", <<Escapes[s]>>) ELSE error
        [] lexer.mode = "regex" ->
             IF s = "/" THEN token("regex", lexer.text)
             ELSE IF s = "backslash" THEN take("regexEscape", <<s>>) ELSE take("regex", <<s>>)
        [] lexer.mode = "regexEscape" -> take("regex", <<s>>)
        [] lexer.mode = "marker" -> IF s \in Words THEN token("heredoc", <<s>>) ELSE error
        [] lexer.mode = "between" ->
             CASE s = "blank"     -> lexer
               [] s = "#"         -> enter("comment")
               [] s = "quote"     -> enter("string")
               [] s = "/"         -> enter("regex")
               [] s = "<<"        -> enter("marker")
               [] s \in Numbers   -> token("integer", <<s>>)
               [] s \in Durations -> token("duration", <<s>>)
               [] s \in Words     -> token("ident", <<s>>)
               [] OTHER           -> error

\* All symbols of some text, one after the other.
Scanned(lexer, text) ==
  LET scanned[i \in 0..Len(text)] == IF i = 0 THEN lexer ELSE Scan(scanned[i - 1], text[i])
  IN  scanned[Len(text)]

\* read_heredoc: the lines up to one that is the name, but for blanks after
\* it; 0 when there is none.
HeredocEnd(from, name) ==
  LET ends == {i \in from..Len(source) : TrimEnd(source[i]) = name}
  IN  IF ends = {} THEN 0 ELSE FirstOf(ends)

\* The heredocs of a line, read one after the other from the lines below it:
\* the next line after those of the first i arguments, 0 when one has no end.
ReadHeredocs(args, after) ==
  LET next[i \in 0..Len(args)] ==
        IF i = 0 THEN after
        ELSE IF args[i].kind # "heredoc" \/ next[i - 1] = 0 THEN next[i - 1]
        ELSE LET end == HeredocEnd(next[i - 1], args[i].text) IN IF end = 0 THEN 0 ELSE end + 1
      content(i) == Concat([k \in 1..(next[i] - 1 - next[i - 1]) |->
                              Append(source[next[i - 1] + k - 1], "newline")],
                           next[i] - 1 - next[i - 1])
  IN  [next |-> next[Len(args)],
       args |-> IF next[Len(args)] = 0 THEN <<>>
                ELSE [i \in DOMAIN args |->
                        IF args[i].kind = "heredoc" THEN Token("heredoc", content(i)) ELSE args[i]]]

Reject == phase' = "rejected" /\ UNCHANGED <<document, source, at, lines, header, body>>

\* lex: one logical line.
LexLine ==
  /\ phase = "lex" /\ at <= Len(source)
  /\ LET line  == StripCommentAndTrim(source[at])
         lexer == Scanned(Lexer("between", <<>>, <<>>),
                          SubSeq(line, VerbEnd(line) + 1, Len(line)))
         read  == ReadHeredocs(lexer.args, at + 1)
     IN  IF line = <<>> THEN at' = at + 1 /\ UNCHANGED <<document, source, lines, phase, header, body>>
         ELSE IF line[1] \in Words /\ lexer.mode \in {"between", "comment"} /\ read.next # 0
         THEN /\ lines' = Append(lines, [verb |-> SubSeq(line, 1, VerbEnd(line)), args |-> read.args])
              /\ at' = read.next
              /\ UNCHANGED <<document, source, phase, header, body>>
         ELSE Reject

LexEnd ==
  /\ phase = "lex" /\ at > Len(source)
  /\ phase' = "version" /\ at' = 1
  /\ UNCHANGED <<document, source, lines, header, body>>

-----------------------------------------------------------------------------
(* parse.rs *)

ParseVersion ==
  /\ phase = "version"
  /\ IF /\ lines # <<>>
        /\ lines[1].verb = <<"Version">>
        /\ lines[1].args = <<Token("integer", <<"1">>)>>
     THEN phase' = "header" /\ at' = 2 /\ UNCHANGED <<document, source, lines, header, body>>
     ELSE Reject

IsHeaderVerb(verb) == Len(verb) = 1 /\ verb[1] \in DOMAIN Fields

TwoTargetsMutant(verb) == TRUE   \* the last process target wins

\* check_spawn_unique.
SpawnUnique(verb) == Fields[verb] = "spawn" => header.spawn = {}

\* What a field is set to; of a process target the verb says what it is.
Given(verb, args) == [verb |-> verb, args |-> args]

ApplyHeader ==
  /\ phase = "header" /\ at <= Len(lines)
  /\ IsHeaderVerb(lines[at].verb)
  /\ LET verb == lines[at].verb[1]
         args == lines[at].args
     IN  IF HeaderLineFits(verb, args) /\ SpawnUnique(verb)
         THEN /\ header' = IF verb = "SetEnv" THEN [header EXCEPT !.env = Append(@, args)]
                           ELSE [header EXCEPT ![Fields[verb]] = {Given(verb, args)}]
              /\ at' = at + 1
              /\ UNCHANGED <<document, source, lines, phase, body>>
         ELSE Reject

\* HeaderBuilder::finish: a process target has no default.
FinishHeader ==
  /\ phase = "header"
  /\ at <= Len(lines) => ~ IsHeaderVerb(lines[at].verb)
  /\ IF header.spawn # {} THEN phase' = "body" /\ UNCHANGED <<document, source, at, lines, header, body>>
     ELSE Reject

DefaultPrompt == <<"default">>

PromptOf(given) == IF given = {} THEN DefaultPrompt ELSE (CHOOSE g \in given : TRUE).args[1].text
Prompt == PromptOf(header.prompt)

\* The loops over the arguments: "name" is the option whose value is next.
\* The last value of an option counts.
ReadOptions(verb, args) ==
  LET options == Options(verb)
      step(read, arg) ==
        IF ~ read.ok THEN read
        ELSE IF read.name # "none"
        THEN [ok |-> arg.kind = options[read.name], name |-> "none",
              set |-> With(read.set, read.name, arg.text)]
        ELSE IF verb = "Press" /\ arg.kind = "integer"
        THEN [read EXCEPT !.ok = arg.text[1] \notin Huge, !.set = With(@, "repeat", arg.text)]
        ELSE IF arg.kind = "ident" THEN [ok |-> arg.text[1] \in DOMAIN options,
                                         name |-> arg.text[1], set |-> read.set]
        ELSE [read EXCEPT !.ok = FALSE]
      reading[i \in 0..Len(args)] ==
        IF i = 0 THEN [ok |-> TRUE, name |-> "none", set |-> None] ELSE step(reading[i - 1], args[i])
  IN  reading[Len(args)]

\* parse_body_line: the actions of a line, or none if it is not well made;
\* Run and WaitForPrompt are spelled out with the prompt of the header.
Actions(verb, args, prompt) ==
  LET first(kinds) == args # <<>> /\ args[1].kind \in kinds
      rest         == ReadOptions(verb, Tail(args))
      whole        == ReadOptions(verb, args)
      fine(read)   == read.ok /\ read.name = "none"
  IN  CASE verb \in {"Send", "Present", "Mark"} ->
             IF OneOf(args, Bytes) THEN <<Action(verb, args[1].text, None)>> ELSE <<>>
        [] verb = "Run" ->
             IF OneOf(args, Bytes)
             THEN <<Action("Type", args[1].text, None), Action("Press", <<"Enter">>, None),
                    WaitForThePrompt(prompt, None, RunLabel)>>
             ELSE <<>>
        [] verb \in {"Type", "PresentTyped"} ->
             IF first(Bytes) /\ fine(rest) THEN <<Action(verb, args[1].text, rest.set)>> ELSE <<>>
        [] verb = "WaitFor" ->
             IF first({"regex"}) /\ fine(rest) THEN <<Action(verb, args[1].text, rest.set)>> ELSE <<>>
        [] verb = "Sleep" ->
             IF first({"duration"}) /\ fine(rest) THEN <<Action(verb, args[1].text, rest.set)>> ELSE <<>>
        [] verb = "Press" ->
             IF first({"ident"}) /\ args[1].text[1] \in KeyNames /\ fine(rest)
             THEN <<Action(verb, args[1].text, rest.set)>> ELSE <<>>
        [] verb = "WaitForPrompt" ->
             IF fine(whole) THEN <<WaitForThePrompt(prompt, whole.set, PromptLabel)>> ELSE <<>>
        [] OTHER -> <<>>

\* Header verbs are no actions.
ParseBodyLine ==
  /\ phase = "body" /\ at <= Len(lines)
  /\ LET verb    == lines[at].verb
         actions == IF Len(verb) = 1 THEN Actions(verb[1], lines[at].args, Prompt) ELSE <<>>
     IN  IF actions = <<>> THEN Reject
         ELSE /\ body' = body \o actions
              /\ at' = at + 1
              /\ UNCHANGED <<document, source, lines, phase, header>>

Accept ==
  /\ phase = "body" /\ at > Len(lines)
  /\ phase' = "accepted"
  /\ UNCHANGED <<document, source, at, lines, header, body>>

ScriptNext ==
  \/ LexLine \/ LexEnd \/ ParseVersion \/ ApplyHeader \/ FinishHeader \/ ParseBodyLine \/ Accept

ScriptSpec == ScriptInit /\ [][ScriptNext]_scriptVars

-----------------------------------------------------------------------------
(* What a document says, without reading it. *)

\* The statements that say something, and of those, the settings of a field.
Statements == Only(document, {document[k] : k \in {j \in DOMAIN document : document[j].says # "nothing"}})

SettingOf(s, field) == s.says = "setting" /\ Fields[s.form.verb[1]] = field

\* A version, then settings with one process target among them, then actions.
WellFormed ==
  /\ Statements # <<>> /\ Statements[1].says = "version"
  /\ \A i \in 2..Len(Statements) : Statements[i].says \in {"setting", "actions"}
  /\ \A i, j \in DOMAIN Statements :
       Statements[i].says = "actions" /\ Statements[j].says = "setting" => j < i
  /\ \E i \in DOMAIN Statements :
       /\ SettingOf(Statements[i], "spawn")
       /\ \A j \in DOMAIN Statements : SettingOf(Statements[j], "spawn") => i = j

\* The last value a field is given, and everything the environment is given.
LastGiven(field) ==
  LET given == {i \in DOMAIN Statements : SettingOf(Statements[i], field)}
      last  == Statements[LastOf(given)].form
  IN  IF given = {} THEN {} ELSE {Given(last.verb[1], Args(last))}

EnvGiven ==
  Concat([i \in DOMAIN Statements |->
            IF SettingOf(Statements[i], "env") THEN <<Args(Statements[i].form)>> ELSE <<>>],
         Len(Statements))

\* The actions of all statements, with the prompt the header ends up with.
AllActions ==
  Concat([i \in DOMAIN Statements |->
            IF Statements[i].says = "actions"
            THEN ActionsSaid(Statements[i].form.verb[1], Args(Statements[i].form),
                             PromptOf(LastGiven("prompt")))
            ELSE <<>>],
         Len(Statements))

\* A hash in a literal that is cut off with all that follows it: it has a blank
\* before it, and an even number of quotes, those in a literal counted.
CutOff(form) ==
  LET line == LineOf(form)
  IN  \E i \in 2..Len(Opening(form)) : /\ line[i] = "#" /\ line[i - 1] = "blank"
                                       /\ Len(Only(SubSeq(line, 1, i - 1), {"quote"})) % 2 = 0

\* A file that is accepted is one the grammar has: the version first, one
\* process target, no setting after an action -- however its literals look.
OnlyWellFormed == phase = "accepted" => WellFormed

\* docs/script-grammar.md:50-53, lex.rs:97-99: a string is anything with its
\* escapes, a regular expression what is between slashes, and a hash in them is
\* no comment.  The code does not keep this: Send "a\" # b" and WaitFor /a #/
\* are rejected.
GrammarIsRead == phase = "rejected" => ~ WellFormed

\* What is written is what is read.  A file that is accepted is read as what it
\* says, whatever hashes its literals have: its body is the actions in their
\* order, every literal byte for byte and every option with its last value, and
\* a setting, the process target among them, is the one that was given last.
\* A well-formed file that is rejected has a literal that is cut off.
ReadsBack ==
  /\ phase = "rejected" /\ WellFormed =>
       \E i \in DOMAIN Statements : CutOff(Statements[i].form)
  /\ phase = "accepted" =>
       /\ body = AllActions
       /\ header.env = EnvGiven
       /\ \A field \in DOMAIN NoHeader \ {"env"} : header[field] = LastGiven(field)
=============================================================================
