--------------------------- MODULE ScriptGrammar ---------------------------
(***************************************************************************)
(* What a .script file may say, and how that is written, without reading   *)
(* it: a line is a verb, its arguments and a comment, and an argument is   *)
(* given by what it means.  Script reads; here is what it must find.       *)
(*                                                                         *)
(* A raw line is a sequence of symbols: a word or a number is one symbol,  *)
(* quotes, slashes, blanks, backslashes and hashes are symbols of their    *)
(* own.  Of the escapes there is \n; no other word or number begins with   *)
(* the letter of one.                                                      *)
(***************************************************************************)
EXTENDS Naturals, Sequences, Sieve

CONSTANTS Symbols,     \* what a raw line is made of
          Words,       \* symbols that start an identifier
          Numbers,     \* symbols that are integers
          Wide,        \* those that fit no u16
          Huge,        \* those that fit no u32
          Durations    \* symbols that are durations

Signs == {"blank", "quote", "/", "backslash", "#", "<<"}

\* A line does not contain the end of a line; what begins a word, a number or
\* a duration begins nothing else.
ASSUME SymbolsAssumption ==
  /\ Words \cup Numbers \cup Durations \cup Signs \subseteq Symbols /\ "n" \in Words
  /\ "newline" \notin Symbols
  /\ Words \cap (Signs \cup Numbers \cup Durations) = {}
  /\ Numbers \cap (Signs \cup Durations) = {} /\ Durations \cap Signs = {}

Lines    == Seq(Symbols)
Contents == Seq(Symbols \cup {"newline"})

\* Functions on 1..n, whatever their values.
IsList(s) == Len(s) \in Nat /\ s = [i \in 1..Len(s) |-> s[i]]

Token(kind, text) == [kind |-> kind, text |-> text]

-----------------------------------------------------------------------------
(***************************************************************************)
(* What one line may say: a setting, or actions with their options.        *)
(***************************************************************************)
Bytes              == {"string", "heredoc"}
OneOf(args, kinds) == Len(args) = 1 /\ args[1].kind \in kinds
AllStrings(args)   == \A i \in DOMAIN args : args[i].kind = "string"

Fields == [SetCols |-> "cols", SetRows |-> "rows", SetSpawn |-> "spawn", SetWarm |-> "spawn",
           SetCold |-> "spawn", SetWarmCommand |-> "warm_command", SetEnv |-> "env",
           SetShellRcfile |-> "shell_rcfile", SetMaxRuntime |-> "max_runtime",
           SetPrompt |-> "prompt", SetPerCharDwell |-> "per_char_dwell",
           SetPerKeyDwell |-> "per_key_dwell"]

\* apply_header, but for check_spawn_unique: is the line well made?
HeaderLineFits(verb, args) ==
  CASE verb \in {"SetCols", "SetRows"}      -> OneOf(args, {"integer"}) /\ args[1].text[1] \notin Wide
    [] verb \in {"SetSpawn", "SetWarmCommand"} -> args # <<>> /\ AllStrings(args)
    [] verb \in {"SetWarm", "SetCold", "SetShellRcfile"} -> OneOf(args, Bytes)
    [] verb = "SetEnv"    -> /\ Len(args) = 2 /\ AllStrings(args)
                             /\ args[1].text # <<>> /\ ~ \E i \in DOMAIN args[1].text :
                                                           args[1].text[i] = "="
    [] verb = "SetPrompt" -> OneOf(args, {"regex"})
    [] OTHER              -> OneOf(args, {"duration"})

KeyNames == {"Down", "Up", "PickerDown", "PickerUp", "Right", "Left", "Enter", "Escape", "Esc",
             "Tab", "Space"}

\* What may follow the first argument of a verb: a name and its value, of
\* this kind; the repeat count of Press is a value without a name.
Options(verb) ==
  CASE verb = "Press"                      -> [Dwell |-> "duration", Settle |-> "duration"]
    [] verb \in {"Type", "PresentTyped"}   -> [PerChar |-> "duration"]
    [] verb = "WaitFor"                    -> [Timeout |-> "duration", Label |-> "string",
                                               Dwell |-> "duration"]
    [] verb = "WaitForPrompt"              -> [Timeout |-> "duration", Dwell |-> "duration"]
    [] verb = "Sleep"                      -> [Settle |-> "duration"]

\* The arguments at N are names of options, each with its value behind it;
\* what is neither is a repeat count, a u32.
Named(verb, args, N) ==
  /\ \A i \in N : /\ args[i].kind = "ident" /\ args[i].text[1] \in DOMAIN Options(verb)
                  /\ i + 1 \in DOMAIN args \ N
                  /\ args[i + 1].kind = Options(verb)[args[i].text[1]]
  /\ \A i \in DOMAIN args \ N :
       i - 1 \in N \/ (verb = "Press" /\ args[i].kind = "integer" /\ args[i].text[1] \notin Huge)

OptionsFit(verb, args) == \E N \in SUBSET DOMAIN args : Named(verb, args, N)

\* What the argument at i sets, when i is not a name.
Sets(args, N, i) == IF i - 1 \in N THEN args[i - 1].text[1] ELSE "repeat"

\* Every option that is given has its last value.
OptionsSaid(verb, args) ==
  LET N == CHOOSE M \in SUBSET DOMAIN args : Named(verb, args, M)
      values == DOMAIN args \ N
      last(name) == CHOOSE i \in values : /\ Sets(args, N, i) = name
                                          /\ \A j \in values : Sets(args, N, j) = name => j <= i
  IN  [name \in {Sets(args, N, i) : i \in values} |-> args[last(name)].text]

BodyLineFits(verb, args) ==
  LET first(kinds) == args # <<>> /\ args[1].kind \in kinds /\ OptionsFit(verb, Tail(args))
  IN  \/ verb \in {"Send", "Present", "Mark", "Run"} /\ OneOf(args, Bytes)
      \/ verb \in {"Type", "PresentTyped"} /\ first(Bytes)
      \/ verb = "WaitFor" /\ first({"regex"})
      \/ verb = "Sleep" /\ first({"duration"})
      \/ verb = "Press" /\ first({"ident"}) /\ args[1].text[1] \in KeyNames
      \/ verb = "WaitForPrompt" /\ OptionsFit(verb, args)

Action(verb, text, set) == [verb |-> verb, text |-> text, set |-> set]

\* A function with one more, or one other, value.
With(set, name, value) == [n \in DOMAIN set \cup {name} |-> IF n = name THEN value ELSE set[n]]
None == [n \in {} |-> <<>>]

RunLabel    == <<"Run prompt">>
PromptLabel == <<"prompt">>

WaitForThePrompt(prompt, set, label) == Action("WaitFor", prompt, With(set, "Label", label))

\* Run and WaitForPrompt are spelled out with the prompt.
ActionsSaid(verb, args, prompt) ==
  CASE verb = "Run" ->
         <<Action("Type", args[1].text, None), Action("Press", <<"Enter">>, None),
           WaitForThePrompt(prompt, None, RunLabel)>>
    [] verb = "WaitForPrompt" -> <<WaitForThePrompt(prompt, OptionsSaid(verb, args), PromptLabel)>>
    [] verb \in {"Send", "Present", "Mark"} -> <<Action(verb, args[1].text, None)>>
    [] OTHER -> <<Action(verb, args[1].text, OptionsSaid(verb, Tail(args)))>>

-----------------------------------------------------------------------------
(***************************************************************************)
(* How an argument is written.  It is given with the blanks before it, and *)
(* by what it means: a string by its text, a regular expression by its     *)
(* symbols, a heredoc by its lines.                                        *)
(***************************************************************************)
Blanks(n) == [i \in 1..n |-> "blank"]

\* In a string, what must have a backslash before it has one.
Escape     == [s \in {"quote", "backslash", "newline"} |-> IF s = "newline" THEN "n" ELSE s]
Spelled(s) == IF s \in DOMAIN Escape THEN <<"backslash", Escape[s]>> ELSE <<s>>
Spelling(text) == Concat([i \in DOMAIN text |-> Spelled(text[i])], Len(text))

\* A regular expression keeps its backslashes, and what follows them.
RegexUnits == {<<s>> : s \in Symbols \ {"/", "backslash"}} \cup {<<"backslash", s>> : s \in Symbols}

\* A line that ends a heredoc: its name, and blanks behind it.
Closes(line, name) == line # <<>> /\ line[1] = name /\ \A i \in 2..Len(line) : line[i] = "blank"

IsArgument(a) ==
  /\ a.gap \in Nat
  /\ \/ a.kind = "ident"    /\ \E s \in Words : a.text = <<s>>
     \/ a.kind = "integer"  /\ \E s \in Numbers : a.text = <<s>>
     \/ a.kind = "duration" /\ \E s \in Durations : a.text = <<s>>
     \/ a.kind = "string"   /\ a.text \in Contents
     \/ a.kind = "regex"    /\ a.units \in Seq(RegexUnits)
     \/ /\ a.kind = "heredoc" /\ a.name \in Words /\ a.trail \in Nat
        /\ a.lines \in Seq(Lines) /\ \A i \in DOMAIN a.lines : ~ Closes(a.lines[i], a.name)

Written(a) ==
  CASE a.kind = "string"  -> <<"quote">> \o Spelling(a.text) \o <<"quote">>
    [] a.kind = "regex"   -> <<"/">> \o Concat(a.units, Len(a.units)) \o <<"/">>
    [] a.kind = "heredoc" -> <<"<<", a.name>>
    [] OTHER              -> a.text

\* The lines that an argument takes below its own.
Below(a) == IF a.kind = "heredoc" THEN Append(a.lines, <<a.name>> \o Blanks(a.trail)) ELSE <<>>

Content(lines) == Concat([i \in DOMAIN lines |-> Append(lines[i], "newline")], Len(lines))

Meaning(a) ==
  Token(a.kind, CASE a.kind = "regex"   -> Concat(a.units, Len(a.units))
                  [] a.kind = "heredoc" -> Content(a.lines)
                  [] OTHER              -> a.text)

-----------------------------------------------------------------------------
(***************************************************************************)
(* How a line is written: a verb, arguments, and a tail of blanks and      *)
(* comment.                                                                *)
(***************************************************************************)
ArgumentsOf(form) ==
  Concat([i \in DOMAIN form.args |-> Blanks(form.args[i].gap) \o Written(form.args[i])],
         Len(form.args))

Opening(form) == Blanks(form.indent) \o form.verb \o ArgumentsOf(form)
LineOf(form)  == Opening(form) \o form.tail
LinesOf(form) == <<LineOf(form)>> \o Concat([i \in DOMAIN form.args |-> Below(form.args[i])],
                                            Len(form.args))

\* Nothing but blanks before a hash.
IsTail(tail) == \A i \in DOMAIN tail : tail[i] # "blank" => \E j \in 1..i : tail[j] = "#"

\* Where one argument ends and the next begins is plain without a blank; there
\* is always one behind the verb.
Adjoin(args, i) ==
  /\ i > 1
  /\ \/ args[i - 1].kind \in {"string", "regex"}
     \/ args[i].kind \in {"string", "regex", "heredoc"}
     \/ args[i - 1].kind = "duration" /\ args[i].kind \in {"integer", "duration"}

IsForm(form) ==
  /\ form.indent \in Nat
  /\ form.verb \in Seq(Symbols \ {"blank"}) /\ form.verb # <<>> /\ form.verb[1] \in Words
  /\ IsList(form.args)
  /\ \A i \in DOMAIN form.args :
       IsArgument(form.args[i]) /\ (form.args[i].gap = 0 => Adjoin(form.args, i))
  /\ form.tail \in Lines /\ IsTail(form.tail)
  /\ form.args = <<>> /\ form.tail # <<>> => form.tail[1] = "blank"

Args(form) == [i \in DOMAIN form.args |-> Meaning(form.args[i])]

\* What a line says that can be read.
Says(verb, args) ==
  IF Len(verb) # 1 THEN "wrong"
  ELSE IF verb[1] = "Version" /\ args = <<Token("integer", <<"1">>)>> THEN "version"
  ELSE IF verb[1] \in DOMAIN Fields /\ HeaderLineFits(verb[1], args) THEN "setting"
  ELSE IF BodyLineFits(verb[1], args) THEN "actions" ELSE "wrong"

-----------------------------------------------------------------------------
(***************************************************************************)
(* What cannot be read: no verb, an argument that is broken off or begins  *)
(* as none does, a heredoc without an end.                                 *)
(***************************************************************************)
NoVerb(line) ==
  \E i \in DOMAIN line : /\ line[i] \notin Words \cup {"blank", "#"}
                         /\ \A j \in 1..(i - 1) : line[j] = "blank"

\* The beginning of an argument that is not over.
IsBegun(open) ==
  \/ open.kind \in {"none", "heredoc"}
  \/ open.kind = "string" /\ open.text \in Contents /\ open.escaping \in BOOLEAN
  \/ open.kind = "regex" /\ open.units \in Seq(RegexUnits) /\ open.escaping \in BOOLEAN

Begun(open) ==
  LET backslash == IF open.escaping THEN <<"backslash">> ELSE <<>>
  IN  CASE open.kind = "none"    -> <<>>
        [] open.kind = "heredoc" -> <<"<<">>
        [] open.kind = "string"  -> <<"quote">> \o Spelling(open.text) \o backslash
        [] open.kind = "regex"   -> <<"/">> \o Concat(open.units, Len(open.units)) \o backslash

\* No argument that has begun like this goes on with this symbol.
Impossible(open, s) ==
  \/ /\ open.kind = "none"
     /\ s \notin ({"blank", "#", "quote", "/", "<<"} \cup Words \cup Numbers \cup Durations)
  \/ open.kind = "heredoc" /\ s \notin Words
  \/ open.kind = "string"  /\ open.escaping /\ s \notin {Escape[e] : e \in DOMAIN Escape}

\* After some arguments, one that is not finished when the line ends, or one
\* that cannot go on.
IsBroken(broken) ==
  /\ IsForm(broken.form) /\ broken.form.tail = <<>>
  /\ broken.gap \in Nat /\ (broken.gap = 0 => broken.form.args # <<>>)
  /\ IsBegun(broken.open) /\ broken.rest \in Lines
  /\ \/ broken.open.kind # "none" /\ broken.rest = <<>>
     \/ broken.rest # <<>> /\ Impossible(broken.open, broken.rest[1])

BrokenLine(broken) ==
  Opening(broken.form) \o Blanks(broken.gap) \o Begun(broken.open) \o broken.rest

-----------------------------------------------------------------------------
(***************************************************************************)
(* A document is a list of statements, each with the lines it is written   *)
(* as.                                                                     *)
(***************************************************************************)
\* No line of the document below the first one of statement k ends the heredoc.
NeverCloses(document, k, name) ==
  /\ \A i \in 2..Len(document[k].text) : ~ Closes(document[k].text[i], name)
  /\ \A j \in (k + 1)..Len(document) : \A i \in DOMAIN document[j].text :
       ~ Closes(document[j].text[i], name)

\* What is wrong with statement k, if it cannot even be read.
Unreadable(document, k) ==
  LET s == document[k]
  IN  \/ s.why = "verbless" /\ NoVerb(s.text[1])
      \/ s.why = "broken" /\ IsBroken(s.broken) /\ s.text[1] = BrokenLine(s.broken)
      \/ /\ s.why = "endless" /\ IsForm(s.form) /\ s.text[1] = LineOf(s.form)
         /\ \E i \in DOMAIN s.form.args : /\ s.form.args[i].kind = "heredoc"
                                          /\ NeverCloses(document, k, s.form.args[i].name)

IsStatement(document, k) ==
  LET s == document[k]
  IN  /\ s.text \in Seq(Lines)
      /\ \/ s.says = "nothing" /\ Len(s.text) = 1 /\ IsTail(s.text[1])
         \/ /\ s.says \in {"version", "setting", "actions", "wrong"} /\ s.why = "readable"
            /\ IsForm(s.form) /\ s.text = LinesOf(s.form)
            /\ s.says = Says(s.form.verb, Args(s.form))
         \/ s.says = "wrong" /\ s.text # <<>> /\ Unreadable(document, k)

IsDocument(document) ==
  IsList(document) /\ \A k \in DOMAIN document : IsStatement(document, k)
=============================================================================
