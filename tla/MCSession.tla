----------------------------- MODULE MCSession -----------------------------
(***************************************************************************)
(* Small scripts and small children.                                       *)
(***************************************************************************)
EXTENDS Session

Do(kind, text, pattern, dwell) ==
  [kind |-> kind, text |-> text, pattern |-> pattern, dwell |-> dwell]

Plan(ops, output, echoes) == [script |-> ops, output |-> output, echoes |-> echoes]

AB == <<"a", "b">>
AAB == <<"a", "a", "b">>
K == <<"k">>

Waiting == {Do("sendWait", K, AB, 1), Do("waitFor", <<>>, AB, 2)}
Other ==
  {Do("press", K, <<>>, 1), Do("capture", K, AAB, 0), Do("type", <<"a", "k">>, <<>>, 1),
   Do("send", K, <<>>, 0), Do("present", <<>>, <<>>, 1), Do("presentTyped", <<"p", "q">>, <<>>, 1),
   Do("type", <<>>, <<>>, 1), Do("sendWait", <<>>, AAB, 1)}

\* Two waits, whose patterns come back to back or overlap; then each other
\* operation before or after a wait, and one where the terminal echoes.
SmallPlans ==
  {Plan(<<Do("present", <<>>, <<>>, 1), one, two>>, AAB \o AB, FALSE) : one, two \in Waiting}
  \cup {Plan(<<Do("waitFor", <<>>, AB, 2), two>>, AB \o <<"a">>, TRUE) : two \in Other}
  \cup {Plan(<<one, Do("sendWait", K, AB, 1)>>, AAB, TRUE) : one \in Other}

AskingPlans == {Plan(<<Do("waitFor", <<>>, AB, 1)>>, QUERY \o AB, FALSE)}
AccentPlans == {Plan(<<Do("press", <<>>, <<>>, 1), Do("press", <<>>, <<>>, 1)>>, <<"hi", "lo">>, FALSE)}
=============================================================================
