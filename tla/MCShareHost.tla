----------------------------- MODULE MCShareHost -----------------------------
(***************************************************************************)
(* Small instances of the host loop.                                       *)
(***************************************************************************)
EXTENDS ShareHostRoom, TLC

CONSTANTS c1, c2

Large == <<4, 2>>
Narrow == <<2, 4>>
Small == <<2, 2>>

\* Nobody needs to be told from anybody else.
Symmetry == Permutations({c1, c2})

Axis == {2, 4}
Either == {Large, Narrow}
NoTerminal == {NoSize}
Silence == {<<>>}
NoLengths == <<>>
Short == <<1>>
Uneven == <<2, 1>>

HelloOp == [op |-> "hello"]
KeyOp == [op |-> "key"]
BadOp == [op |-> "bad"]
ResizeOp(s) == [op |-> "resize", size |-> s]

\* Clients that resize, type, and break the protocol early or late.
Typists == {<<HelloOp, ResizeOp(Narrow), BadOp, KeyOp>>, <<HelloOp, ResizeOp(Large)>>,
            <<KeyOp, HelloOp, KeyOp>>, <<HelloOp, KeyOp>>}
\* One client that makes the PTY smaller, and types.
Mover == {<<HelloOp, ResizeOp(Small), KeyOp>>}

\* One client that types before its hello.
Blurt == {<<KeyOp>>}
\* The local user types, then detaches.
Detaching == {<<"key", "detach">>}
\* Texts queued, injected, cleared, and asked for when there are none.
Queueing == {<<"add", "add", "next", "clear">>, <<"next", "other">>}

\* Bound: two clients at a desk where nothing happens and nothing fails, or a
\* client who types a key, with the local user, the control socket and faults.
TwoClients ==
  /\ keyed = <<>> /\ asked = <<>> /\ ~stdinEof /\ pc # "failed"
  /\ \A c \in Client : peer[c] = "up"
OneClient ==
  \E c \in Client : /\ \A d \in Client \ {c} : conn[d] = "idle"
                    /\ said[c] \in {<<>>, <<HelloOp>>, <<HelloOp, KeyOp>>}
ClientsOrDesk == TwoClients \/ OneClient
=============================================================================
