------------------------------- MODULE MCJoin -------------------------------
(***************************************************************************)
(* Small instances of a joining terminal.                                  *)
(***************************************************************************)
EXTENDS Join

Terminal(readOnly, stdin, stdout) ==
  [readOnly |-> readOnly, stdinTerminal |-> stdin, stdoutTerminal |-> stdout]

\* Join and watch at a terminal, and join with a pipe on either side.
AnyMode ==
  {Terminal(FALSE, TRUE, TRUE), Terminal(TRUE, TRUE, TRUE),
   Terminal(FALSE, FALSE, TRUE), Terminal(FALSE, TRUE, FALSE)}

\* How the lengths up to MaxData are written.
Numerals == [n \in 0..7 |-> ToString(n)]

AHello == [kind |-> "hello", value |-> "1"]
NewerHello == [kind |-> "hello", value |-> "2"]
ASize == [kind |-> "size", value |-> "2"]
Piece(kind, value) == [kind |-> kind, value |-> value]
Text == Piece("data", <<"k">>)
Empty == Piece("data", <<>>)
\* Output that looks like a control, or like the halves of one.
Lookalike == Piece("data", PREFIX \o <<"size", "1">> \o SUFFIX)
HalfPrefix == Piece("data", <<"ESC", "P">>)
RestOfPrefix == Piece("data", <<"room;", "size", "1">> \o SUFFIX)
Stray == Piece("raw", <<"k", "ESC">>)
Unterminated == Piece("raw", PREFIX \o <<"k", "k", "k", "k", "k">>)
TooLong == Piece("raw", PREFIX \o <<"data", "9">> \o SUFFIX)

Scenario(mode_, pieces, keys, resizes_) ==
  [mode |-> mode_, said |-> pieces, keys |-> keys, resizes |-> resizes_, size |-> "1"]

\* One way to run the program, and everything a host may say to it.
Listening ==
  {Scenario(Terminal(FALSE, FALSE, TRUE), pieces, 0, 0) : pieces \in
     {<<AHello, ASize, Lookalike, Text>>, <<AHello, HalfPrefix, RestOfPrefix>>,
      <<AHello, Empty, Empty, ASize, Text>>, <<AHello, Stray, ASize, Stray>>,
      <<AHello, Text, Unterminated>>, <<AHello, TooLong, Text>>,
      <<NewerHello, Text>>, <<ASize, AHello>>, <<Stray>>}}

\* Every way to run it, with little to show and something to send.
Typing ==
  UNION {{Scenario(m, <<AHello, Text>>, 1, 0), Scenario(m, <<>>, 1, 1), Scenario(m, <<>>, 2, 0)} :
           m \in AnyMode}

\* Three keys at a terminal with local commands.
Commanding == {Scenario(Terminal(FALSE, TRUE, TRUE), <<>>, 3, 0)}

AnyScenario == Listening \cup Typing \cup Commanding
=============================================================================
