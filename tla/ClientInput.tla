----------------------------- MODULE ClientInput -----------------------------
(***************************************************************************)
(* How the host reads one client (Client::drain_input_to_pty): bytes come  *)
(* in pieces that nobody chooses, are collected in input_pending, and are  *)
(* taken from it as controls or as keys.  What is left waits for more.     *)
(*                                                                         *)
(* ShareHost has the client's part in the loop, where what is read is a    *)
(* sequence of tokens; this module is how bytes become those tokens.  A    *)
(* write to the PTY does not fail here.                                    *)
(***************************************************************************)
EXTENDS RoomControls

CONSTANTS
  Byte,         \* the bytes a client can send
  Input,        \* bound: what the client may send, a set of sequences of bytes
  MaxControl,   \* MAX_CONTROL_BYTES
  MaxRead       \* the bytes one read(2) may return

ASSUME ControlAssumption == MaxControl \in Nat /\ MaxControl >= Len(PREFIX)
ASSUME ReadAssumption == MaxRead \in Nat \ {0}
ASSUME ByteAssumption ==
  {"ESC", "P", "room;", "\\"} \subseteq Byte /\ Input \subseteq Seq(Byte)

VARIABLES
  input,            \* all that the client sends
  arrived,          \* how much of it has reached the host's socket
  peer,             \* the client's end: "up", "closed" or "reset"
  got,              \* how much of it the host has read
  input_pending, protocol_ready, size, input_open,   \* Client
  pc,               \* "poll", "read" or "parse"
  written           \* the bytes of this client that went to the PTY

peerVars == <<input, arrived, peer>>
clientVars == <<input_pending, protocol_ready, size, input_open>>
vars == <<peerVars, got, clientVars, pc, written>>

Init ==
  /\ input \in Input /\ arrived = 0 /\ peer = "up" /\ got = 0
  /\ input_pending = <<>> /\ protocol_ready = FALSE /\ size = NoSize /\ input_open = TRUE
  /\ pc = "poll" /\ written = <<>>

-----------------------------------------------------------------------------
\* The client's side.
Arrive ==
  /\ peer = "up"
  /\ \E n \in (arrived + 1)..Len(input) : arrived' = n
  /\ UNCHANGED <<input, peer, got, clientVars, pc, written>>

CloseWrite ==
  /\ peer = "up" /\ arrived = Len(input) /\ peer' = "closed"
  /\ UNCHANGED <<input, arrived, got, clientVars, pc, written>>

Reset ==
  /\ peer # "reset" /\ peer' = "reset"
  /\ UNCHANGED <<input, arrived, got, clientVars, pc, written>>

-----------------------------------------------------------------------------
\* The host's side.
Readable == arrived > got \/ peer # "up"

\* poll(2) watches for POLLIN while input_open.
Poll ==
  /\ pc = "poll" /\ input_open /\ Readable /\ pc' = "read"
  /\ UNCHANGED <<peerVars, got, clientVars, written>>

\* Mutant: the new bytes are put before those that wait.
ReadBytesMutant ==
  /\ pc = "read" /\ peer # "reset" /\ arrived > got
  /\ got' = Min({arrived, got + MaxRead})
  /\ input_pending' = SubSeq(input, got + 1, got') \o input_pending
  /\ pc' = "parse"
  /\ UNCHANGED <<peerVars, protocol_ready, size, input_open, written>>

ReadBytes ==
  /\ pc = "read" /\ peer # "reset" /\ arrived > got
  /\ got' = Min({arrived, got + MaxRead})
  /\ input_pending' = input_pending \o SubSeq(input, got + 1, got')
  /\ pc' = "parse"
  /\ UNCHANGED <<peerVars, protocol_ready, size, input_open, written>>

WouldBlock ==
  /\ pc = "read" /\ peer = "up" /\ arrived = got /\ pc' = "poll"
  /\ UNCHANGED <<peerVars, got, clientVars, written>>

\* The loop never reads this client again.
StopReading == input_open' = FALSE /\ pc' = "poll"

ReadEnd ==
  /\ pc = "read" /\ peer = "closed" /\ arrived = got
  /\ written' = IF protocol_ready THEN written \o input_pending ELSE written
  /\ input_pending' = <<>>
  /\ StopReading
  /\ UNCHANGED <<peerVars, got, protocol_ready, size>>

ReadFails ==
  /\ pc = "read" /\ peer = "reset" /\ StopReading
  /\ UNCHANGED <<peerVars, got, input_pending, protocol_ready, size, written>>

-----------------------------------------------------------------------------
\* flush_pending_input, one round of its loop an action.
Start == FindSubslice(input_pending, PREFIX)
\* The first suffix after the prefix, when the buffer starts with one.
Suffix == FindFrom(input_pending, SUFFIX, Len(PREFIX) + 1)

\* The first n bytes leave the buffer for the PTY.
WriteOut(n) ==
  /\ written' = written \o SubSeq(input_pending, 1, n)
  /\ input_pending' = SubSeq(input_pending, n + 1, Len(input_pending))

Untouched == UNCHANGED <<peerVars, got, input_pending, protocol_ready, size, written>>

Refused == pc = "parse" /\ StopReading /\ Untouched
AwaitMore == pc = "parse" /\ pc' = "read" /\ input_open' = input_open /\ Untouched

\* Mutant: keys wait together with the beginning of a control.
NoControlMutant ==
  /\ pc = "parse" /\ protocol_ready /\ Start = 0
  /\ WriteOut(IF PrefixOverlap(input_pending, PREFIX) > 0 THEN 0 ELSE Len(input_pending))
  /\ pc' = "read"
  /\ UNCHANGED <<peerVars, got, protocol_ready, size, input_open>>

\* Nothing that starts a control: all but a possible beginning is typed.
NoControl ==
  /\ pc = "parse" /\ protocol_ready /\ Start = 0
  /\ WriteOut(Len(input_pending) - PrefixOverlap(input_pending, PREFIX))
  /\ pc' = "read"
  /\ UNCHANGED <<peerVars, got, protocol_ready, size, input_open>>

\* The same before the hello: only a beginning is waited for.
NoHelloYet ==
  /\ ~protocol_ready /\ Start = 0
  /\ IF \/ input_pending = <<>>
        \/ PrefixOverlap(input_pending, PREFIX) > 0 /\ Len(input_pending) <= MaxControl
     THEN AwaitMore ELSE Refused

KeysBeforeControl ==
  /\ pc = "parse" /\ protocol_ready /\ Start > 1
  /\ WriteOut(Start - 1)
  /\ UNCHANGED <<peerVars, got, protocol_ready, size, input_open, pc>>

KeysBeforeHello == ~protocol_ready /\ Start > 1 /\ Refused

\* An unfinished control.
Unfinished ==
  /\ Start = 1 /\ Suffix = 0 /\ Len(input_pending) <= MaxControl /\ AwaitMore

OversizedIsTyped ==
  /\ pc = "parse" /\ protocol_ready
  /\ Start = 1 /\ Suffix = 0 /\ Len(input_pending) > MaxControl
  /\ WriteOut(1)
  /\ UNCHANGED <<peerVars, got, protocol_ready, size, input_open, pc>>

OversizedBeforeHello ==
  /\ ~protocol_ready /\ Start = 1 /\ Suffix = 0 /\ Len(input_pending) > MaxControl
  /\ Refused

\* A finished control: apply_control, then it leaves the buffer.
ControlIn == ParseClientControl(SubSeq(input_pending, Len(PREFIX) + 1, Suffix - 1))

Accepts(control) ==
  \/ control.kind = "hello" /\ control.value = VERSION
  \/ control.kind = "resize" /\ protocol_ready

\* Mutant: the control stays in the buffer.
ApplyControlMutant ==
  /\ pc = "parse" /\ Start = 1 /\ Suffix > 0 /\ Accepts(ControlIn)
  /\ protocol_ready' = TRUE
  /\ size' = IF ControlIn.kind = "resize" THEN ControlIn.value ELSE size
  /\ UNCHANGED <<peerVars, got, input_pending, input_open, pc, written>>

ApplyControl ==
  /\ pc = "parse" /\ Start = 1 /\ Suffix > 0 /\ Accepts(ControlIn)
  /\ protocol_ready' = TRUE
  /\ size' = IF ControlIn.kind = "resize" THEN ControlIn.value ELSE size
  /\ input_pending' = SubSeq(input_pending, Suffix + Len(SUFFIX), Len(input_pending))
  /\ UNCHANGED <<peerVars, got, input_open, pc, written>>

BadControl == Start = 1 /\ Suffix > 0 /\ ~Accepts(ControlIn) /\ Refused

Parse ==
  \/ NoControl \/ NoHelloYet \/ KeysBeforeControl \/ KeysBeforeHello
  \/ Unfinished \/ OversizedIsTyped \/ OversizedBeforeHello \/ ApplyControl \/ BadControl

HostStep == Poll \/ ReadBytes \/ WouldBlock \/ ReadEnd \/ ReadFails \/ Parse
PeerStep == Arrive \/ CloseWrite \/ Reset
Next == HostStep \/ PeerStep

Spec == Init /\ [][Next]_vars
\* The loop comes back to every client that poll reports.
FairSpec == Spec /\ WF_vars(HostStep)

-----------------------------------------------------------------------------
settled == got - Len(input_pending)

\* The buffer is the stretch of the input between what is settled and what was read.
Contiguous ==
  /\ Len(input_pending) <= got
  /\ input_pending = SubSeq(input, settled + 1, got)

\* The variables have their types, and the buffer is contiguous; only a client that is listened to
\* is read from.
TypeOK ==
  /\ input \in Input
  /\ arrived \in 0..Len(input) /\ got \in 0..arrived
  /\ peer \in {"up", "closed", "reset"} /\ pc \in {"poll", "read", "parse"}
  /\ input_pending \in Seq(Byte) /\ written \in Seq(Byte)
  /\ protocol_ready \in BOOLEAN /\ input_open \in BOOLEAN
  /\ size \in Number \cup {NoSize}
  /\ peer = "closed" => arrived = Len(input)
  /\ pc # "poll" => input_open
  /\ Contiguous

\* Between two rounds of the loop the host keeps of a client's input only what
\* may still become a control, and never more than MAX_CONTROL_BYTES: bytes are
\* not held from the PTY for longer than their meaning is open
\* (flush_pending_input returning true).
OnlyBeginningsWait ==
  pc \in {"poll", "read"} /\ input_open =>
    /\ Len(input_pending) <= MaxControl
    /\ protocol_ready =>
         \/ \E n \in 0..(Len(PREFIX) - 1) : input_pending = SubSeq(PREFIX, 1, n)
         \/ Start = 1 /\ Suffix = 0

\* What the host makes of a client's bytes is what TypedInput reads in them, in
\* whatever pieces they arrive (drain_input_to_pty, apply_control): no byte is
\* lost, doubled, or typed behind a later one, a control never reaches the PTY,
\* and nothing counts before the hello.
T == INSTANCE TypedInput WITH
       at <- settled, ready <- protocol_ready, open <- input_open
ImplementsTypedInput == T!Spec

\* The host always comes to the end of what a client has sent: no input makes
\* the parser go round for ever, and a client that closes is let go
\* (the loops of drain_input_to_pty and flush_pending_input).
HostCatchesUp == []<>(input_open => pc = "poll" /\ ~Readable)

\* docs/ptyroom-protocol.md says of a client after its hello that "unknown
\* controls are ignored": the host goes on listening after one (apply_control).
UnknownControlIgnored ==
  [][ pc = "parse" /\ protocol_ready /\ Start = 1 /\ Suffix > 0
        /\ ControlIn.kind = "none" => input_open' ]_vars

\* docs/ptyroom-protocol.md says of a client after its hello that "raw bytes are
\* written to the child PTY": input without a control is typed to its last byte
\* (flush_pending_input keeps what prefix_overlap finds).
RawBytesWritten ==
  /\ protocol_ready /\ got = Len(input)
  /\ \A i \in (settled + 1)..Len(input) : ~OccursAt(input, PREFIX, i)
  ~> settled = Len(input) \/ ~input_open
=============================================================================
