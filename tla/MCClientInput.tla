---------------------------- MODULE MCClientInput ----------------------------
(***************************************************************************)
(* Small instances of the reading of one client.                           *)
(***************************************************************************)
EXTENDS ClientInput

AnyByte == {"ESC", "P", "room;", "\\", "hello", "resize", "k"} \cup Number

Key == <<"k">>
Escape == <<"ESC">>
HelloControl == PREFIX \o <<"hello", "1">> \o SUFFIX
NewerHello == PREFIX \o <<"hello", "2">> \o SUFFIX
Resize == PREFIX \o <<"resize", "2">> \o SUFFIX
NoRows == PREFIX \o <<"resize", "0">> \o SUFFIX
Unknown == PREFIX \o Key \o SUFFIX
Large == PREFIX \o <<"k", "k", "k", "k">> \o SUFFIX
Half == <<"ESC", "P">>

Piece == {Key, Escape, HelloControl, Resize, Unknown, Large, Half, PREFIX, SUFFIX}

\* Two pieces after a hello, one of them a key or the beginning of a control
\* or a second hello.
Introduced == {HelloControl \o p \o q : p, q \in Piece}
\* The same with a key between or after them.
Typing == {HelloControl \o p \o q \o Key : p, q \in {Escape, Half, Resize, Large, PREFIX}}
\* A client that says something else first.
Rude == {p \o q : p \in {Key, Escape, Resize, Unknown, NewerHello, NoRows, Large, PREFIX},
                  q \in {HelloControl, Escape, Half, Key}}
AnyInput == Introduced \cup Typing \cup Rude \cup {HelloControl \o NoRows}

\* One client that sends a control nobody knows.
Newer == {HelloControl \o Unknown}
\* One client that presses the Escape key.
EscapeKey == {HelloControl \o Escape}
=============================================================================
