-------------------------------- MODULE Join --------------------------------
(***************************************************************************)
(* ptyroom join and ptyroom watch: the loop of relay_fds_with_output.      *)
(*                                                                         *)
(* The host's bytes arrive in pieces nobody chooses; ServerStream carves   *)
(* frames out of them and the local terminal shows what they hold.  Keys   *)
(* go the other way, past the router of the local commands, together with  *)
(* the sizes this terminal takes.  One action is one call of the loop, or  *)
(* one round of the decoder: handling a frame when it is found and not     *)
(* after the last one of the read gives the same output, because the first *)
(* error ends both.                                                        *)
(***************************************************************************)
EXTENDS RoomControls, InputRouter, Sieve, SequencesExt

CONSTANTS
  Scenarios,    \* bound: what runs, what the host says, how much the user does
  Keys,         \* the keys of this terminal
  Sizes,        \* the sizes of this terminal
  MaxRead,      \* the bytes one read(2) may return
  MaxControl,   \* MAX_CONTROL_BYTES
  MaxData,      \* MAX_DATA_FRAME_BYTES
  Decimal       \* the field each length up to MaxData is written as

\* What a host may say: a frame, or bytes of no frame.
Sayable(piece) ==
  /\ piece = [kind |-> piece.kind, value |-> piece.value]
  /\ \/ piece.kind = "hello" /\ piece.value \in Number
     \/ piece.kind = "size" /\ piece.value \in Number \ {"0"}
     \/ piece.kind = "data" /\ piece.value \in Seq(STRING) /\ Len(piece.value) <= MaxData
     \/ piece.kind = "raw" /\ piece.value \in Seq(STRING) \ {<<>>}

ASSUME JoinAssumption ==
  /\ \A s \in Scenarios :
       /\ s.mode \in [{"readOnly", "stdinTerminal", "stdoutTerminal"} -> BOOLEAN]
       /\ s.keys \in Nat /\ s.resizes \in Nat /\ s.size \in Sizes
       /\ Len(s.said) \in Nat /\ DOMAIN s.said = 1..Len(s.said)
       /\ \A i \in DOMAIN s.said : Sayable(s.said[i])
  /\ {MaxRead, MaxData} \subseteq Nat \ {0}
  /\ MaxControl \in Nat /\ MaxControl >= Len(PREFIX) + 2 + Len(SUFFIX)

\* Two lengths are not written alike, nor as the byte a suffix begins with.
ASSUME DecimalAssumption ==
  /\ DOMAIN Decimal = 0..MaxData
  /\ \A n \in 0..MaxData :
       /\ Decimal[n] \in STRING \ {"ESC"}
       /\ \A m \in 0..MaxData : Decimal[m] = Decimal[n] => m = n

VARIABLES
  scenario,                        \* chosen at the start
  wire, conn,                      \* its bytes that are unread; "open", "closed" or "reset"
  typed, readTo, ended, winsize, resizes,   \* the local terminal
  stdinOpen, router, lastSize, protocolReady, pending, pendingLen,   \* the loop's
  status, shown,                   \* OutputSink: the status bar, the output and its sizes
  upstream, halfClosed,            \* what was sent to the host
  commands, prefixes,              \* of typed: keys taken as commands, and prefixes
  pc, revents, result

hostVars == <<scenario, wire, conn>>
ttyVars == <<typed, ended, winsize, resizes>>
keyVars == <<readTo, stdinOpen, commands, prefixes, halfClosed>>
streamVars == <<protocolReady, pending, pendingLen, shown>>
vars == <<hostVars, ttyVars, keyVars, streamVars, router, lastSize, status, upstream,
          pc, revents, result>>

\* What poll(2) reports of stdin and of the socket, and of the latter POLLERR.
Quiet == [stdin |-> FALSE, stream |-> FALSE, error |-> FALSE]

-----------------------------------------------------------------------------
\* What the host says: frames, and bytes of no frame.
Encoded(piece) ==
  CASE piece.kind = "hello" -> PREFIX \o <<"hello", piece.value>> \o SUFFIX
    [] piece.kind = "size"  -> PREFIX \o <<"size", piece.value>> \o SUFFIX
    [] piece.kind = "data"  ->
         PREFIX \o <<"data", Decimal[Len(piece.value)]>> \o SUFFIX \o piece.value
    [] piece.kind = "raw"   -> piece.value

\* What stands among the bytes for a size.
Resized(size) == "size " \o size

\* What of it is seen: the bytes, and a mark for a size.
Meaning(piece) ==
  CASE piece.kind = "hello" -> <<>>
    [] piece.kind = "size"  -> <<Resized(piece.value)>>
    [] OTHER                -> piece.value

\* Of the first n pieces, the bytes and what is seen.
EncodedTo(pieces, n) == Concat([i \in DOMAIN pieces |-> Encoded(pieces[i])], n)
MeaningTo(pieces, n) == Concat([i \in DOMAIN pieces |-> Meaning(pieces[i])], n)
EncodedAll(pieces) == EncodedTo(pieces, Len(pieces))
MeaningAll(pieces) == MeaningTo(pieces, Len(pieces))

\* The length that a field says, when it is at most MAX_DATA_FRAME_BYTES.
LengthOf(field) ==
  LET fits == {n \in 0..MaxData : Decimal[n] = field}
  IN  IF fits = {} THEN -1 ELSE Min(fits)

ParseServerControl(payload) ==
  IF /\ Len(payload) = 2
     /\ \/ payload[1] = "hello" /\ payload[2] \in Number
        \/ payload[1] = "size" /\ payload[2] \in Number \ {"0"}
        \/ payload[1] = "data" /\ LengthOf(payload[2]) >= 0
  THEN [kind |-> payload[1], value |-> payload[2]]
  ELSE [kind |-> "none", value |-> "0"]

\* A prefix among bytes of no frame is followed by no suffix, or by one among
\* those bytes and nothing that would be obeyed.
Harmless(pieces) ==
  \A i \in DOMAIN pieces : pieces[i].kind = "raw" =>
    \A p \in (Len(EncodedTo(pieces, i - 1)) + 1)..Len(EncodedTo(pieces, i)) :
      OccursAt(EncodedAll(pieces), PREFIX, p) =>
        LET payload == p + Len(PREFIX)
            suffix  == FindFrom(EncodedAll(pieces), SUFFIX, payload)
        IN  \/ suffix = 0
            \/ /\ suffix + Len(SUFFIX) - 1 <= Len(EncodedTo(pieces, i))
               /\ ParseServerControl(SubSeq(EncodedAll(pieces), payload, suffix - 1)).kind = "none"

ASSUME HarmlessAssumption == \A s \in Scenarios : Harmless(s.said)

-----------------------------------------------------------------------------
mode == scenario.mode
said == scenario.said

\* relay: local commands need a terminal on both sides, the bar one to draw on.
LocalControls == mode.stdinTerminal /\ mode.stdoutTerminal
ForwardInput == ~mode.readOnly
ReportsSize == ~mode.readOnly /\ mode.stdoutTerminal

KeysSent == Only(upstream, {"key"} \X Nat)

Init ==
  /\ scenario \in Scenarios /\ wire = EncodedAll(said) /\ conn = "open"
  /\ typed = <<>> /\ readTo = 0 /\ ended = FALSE /\ winsize = scenario.size /\ resizes = 0
  /\ stdinOpen = (ForwardInput \/ LocalControls) /\ router = NewRouter
  /\ protocolReady = FALSE /\ pending = <<>> /\ pendingLen = -1
  /\ status = Connected /\ shown = <<>>
  /\ upstream = <<<<"hello", VERSION>>>>
     \o IF ReportsSize THEN <<<<"resize", winsize>>>> ELSE <<>>
  /\ lastSize = IF ReportsSize THEN winsize ELSE NoSize
  /\ halfClosed = FALSE /\ commands = {} /\ prefixes = {}
  /\ pc = "top" /\ revents = Quiet /\ result = "running"

-----------------------------------------------------------------------------
\* The user, the clock and the host.
Press ==
  /\ ~ended /\ Len(typed) < scenario.keys
  /\ \E key \in Keys : typed' = Append(typed, [key |-> key, late |-> router.expired /\ readTo = Len(typed)])
  /\ UNCHANGED <<hostVars, ended, winsize, resizes, keyVars, streamVars, router, lastSize,
                 status, upstream, pc, revents, result>>

HangUp ==
  /\ ~ended /\ ended' = TRUE
  /\ UNCHANGED <<hostVars, typed, winsize, resizes, keyVars, streamVars, router, lastSize,
                 status, upstream, pc, revents, result>>

ChangeSize ==
  /\ resizes < scenario.resizes /\ resizes' = resizes + 1
  /\ \E size \in Sizes \ {winsize} : winsize' = size
  /\ UNCHANGED <<hostVars, typed, ended, keyVars, streamVars, router, lastSize,
                 status, upstream, pc, revents, result>>

\* Half a second passes after a prefix.
Expire ==
  /\ router.mode = "command" /\ ~router.expired /\ router' = [router EXCEPT !.expired = TRUE]
  /\ UNCHANGED <<hostVars, ttyVars, keyVars, streamVars, lastSize, status, upstream,
                 pc, revents, result>>

\* The host ends, and what it said stays readable; it leaves a reset behind when it has
\* not read all it was sent.
HostCloses ==
  /\ conn = "open" /\ conn' \in {"closed", "reset"}
  /\ UNCHANGED <<scenario, wire, ttyVars, keyVars, streamVars, router, lastSize, status,
                 upstream, pc, revents, result>>

-----------------------------------------------------------------------------
Done(how) == pc' = "done" /\ result' = how

\* write_all to the host: a closed host resets the connection, a reset one fails.
Sent(items) ==
  /\ upstream' = upstream \o items
  /\ conn' \in IF conn = "closed" /\ items # <<>> THEN {"closed", "reset"} ELSE {conn}
Unsendable(items) == items # <<>> /\ (conn = "reset" \/ halfClosed)

ResizeIfChanged ==
  IF ReportsSize /\ winsize # lastSize
  THEN <<<<"resize", winsize>>>> ELSE <<>>

Terminated ==
  /\ pc = "top" /\ Done("ok")
  /\ UNCHANGED <<hostVars, ttyVars, keyVars, streamVars, router, lastSize, status, upstream, revents>>

SendResize ==
  /\ pc = "top"
  /\ IF Unsendable(ResizeIfChanged)
     THEN Done("write failed") /\ UNCHANGED <<upstream, conn, lastSize>>
     ELSE /\ Sent(ResizeIfChanged)
          /\ lastSize' = IF ResizeIfChanged # <<>> THEN winsize ELSE lastSize
          /\ pc' = "poll" /\ UNCHANGED result
  /\ UNCHANGED <<scenario, wire, ttyVars, keyVars, streamVars, router, status, revents>>

StdinReady == stdinOpen /\ (readTo < Len(typed) \/ ended)
\* Mutant: a hang-up without bytes wakes nobody.
NoHangupMutant == wire # <<>>

StreamReady == wire # <<>> \/ conn # "open"

\* Mutant: the clock is looked at only when no key is there.
LazyTickMutant ==
  IF LocalControls /\ TimedOut(router) /\ ~revents'.stdin
  THEN router' = NewRouter /\ status' = Connected
  ELSE UNCHANGED <<router, status>>

\* The router's clock is looked at before any key is read.
Tick ==
  IF LocalControls /\ TimedOut(router)
  THEN router' = NewRouter /\ status' = Connected
  ELSE UNCHANGED <<router, status>>

Poll ==
  /\ pc = "poll"
  /\ revents' = [stdin |-> StdinReady, stream |-> StreamReady, error |-> conn = "reset"]
  /\ Tick /\ pc' = "stdin"
  /\ UNCHANGED <<hostVars, ttyVars, keyVars, streamVars, lastSize, upstream, result>>

\* poll(2) is interrupted, or times out before anything arrives.
PollEarly ==
  /\ pc = "poll" /\ revents' = Quiet
  /\ Tick /\ pc' = "stdin"
  /\ UNCHANGED <<hostVars, ttyVars, keyVars, streamVars, lastSize, upstream, result>>

-----------------------------------------------------------------------------
\* drain_join_stdin.
NothingToRead ==
  /\ pc = "stdin" /\ ~(stdinOpen /\ revents.stdin) /\ pc' = "stream"
  /\ UNCHANGED <<hostVars, ttyVars, keyVars, streamVars, router, lastSize, status, upstream,
                 revents, result>>

HalfCloses == ForwardInput /\ ~ReportsSize

StdinEnds ==
  /\ pc = "stdin" /\ stdinOpen /\ revents.stdin /\ readTo = Len(typed) /\ ended
  /\ stdinOpen' = FALSE /\ halfClosed' = (halfClosed \/ HalfCloses)
  /\ pc' = "stream"
  /\ UNCHANGED <<hostVars, ttyVars, readTo, commands, prefixes, streamVars, router, lastSize,
                 status, upstream, revents, result>>

\* One key through the router: acc is the state of the loop over a read's keys.
Route(acc, i) ==
  LET key == typed[i].key
      action == Push(acc.router, key)
  IN  IF acc.gone THEN acc
      ELSE [router   |-> Pushed(acc.router, key),
            status   |-> CASE action \in {Remote, Disconnect} -> acc.status
                           [] action \in {ForceRedraw, UnknownCommand} -> Connected
                           [] OTHER -> action,
            sent     |-> IF action = Remote THEN Append(acc.sent, <<"key", i>>) ELSE acc.sent,
            gone     |-> action = Disconnect,
            commands |-> IF acc.router.mode = "command" /\ key # LOCAL_ESCAPE
                         THEN acc.commands \cup {i} ELSE acc.commands,
            prefixes |-> IF acc.router.mode = "forward" /\ key = LOCAL_ESCAPE
                         THEN acc.prefixes \cup {i} ELSE acc.prefixes]

Routed(last) ==
  LET acc[k \in 0..(last - readTo)] ==
        IF k = 0 THEN [router |-> router, status |-> status, sent |-> <<>>, gone |-> FALSE,
                       commands |-> commands, prefixes |-> prefixes]
        ELSE Route(acc[k - 1], readTo + k)
  IN  acc[last - readTo]

\* maybe_flush_remote_input: a watcher's keys go nowhere.
Flushed(keys) == IF ForwardInput THEN keys ELSE <<>>

\* handle_local_input over one read; Disconnect closes the socket both ways.
RouteInput(last) ==
  LET end == Routed(last)
  IN  /\ router' = end.router /\ status' = end.status
      /\ commands' = end.commands /\ prefixes' = end.prefixes
      /\ IF Unsendable(Flushed(end.sent))
         THEN Done("write failed") /\ UNCHANGED <<upstream, conn>>
         ELSE /\ Sent(Flushed(end.sent))
              /\ IF end.gone THEN Done("ok") ELSE pc' = "stream" /\ UNCHANGED result

\* Input that no local command is looked for in.
PassInput(last) ==
  LET keys == Flushed([k \in 1..(last - readTo) |-> <<"key", readTo + k>>])
  IN  /\ IF Unsendable(keys)
         THEN Done("write failed") /\ UNCHANGED <<upstream, conn>>
         ELSE Sent(keys) /\ pc' = "stream" /\ UNCHANGED result
      /\ UNCHANGED <<router, status, commands, prefixes>>

ReadStdin ==
  /\ pc = "stdin" /\ stdinOpen /\ revents.stdin /\ readTo < Len(typed)
  /\ \E last \in (readTo + 1)..Min({Len(typed), readTo + MaxRead}) :
       /\ readTo' = last
       /\ IF LocalControls THEN RouteInput(last) ELSE PassInput(last)
  /\ UNCHANGED <<scenario, wire, ttyVars, stdinOpen, halfClosed, streamVars, lastSize, revents>>

-----------------------------------------------------------------------------
\* drain_join_stream.
StreamIdle ==
  /\ pc = "stream" /\ ~revents.stream /\ pc' = "top"
  /\ UNCHANGED <<hostVars, ttyVars, keyVars, streamVars, router, lastSize, status, upstream,
                 revents, result>>

ReadStream ==
  /\ pc = "stream" /\ revents.stream /\ wire # <<>>
  /\ \E n \in 1..Min({MaxRead, Len(wire)}) :
       /\ pending' = pending \o SubSeq(wire, 1, n)
       /\ wire' = SubSeq(wire, n + 1, Len(wire))
  /\ pc' = "decode"
  /\ UNCHANGED <<scenario, conn, ttyVars, keyVars, protocolReady, pendingLen, shown, router,
                 lastSize, status, upstream, revents, result>>

StreamEnds ==
  /\ pc = "stream" /\ revents.stream /\ wire = <<>>
  /\ CASE conn = "reset"   -> Done("read failed")
       [] protocolReady    -> Done("ok")
       [] OTHER            -> Done("no hello")
  /\ UNCHANGED <<hostVars, ttyVars, keyVars, streamVars, router, lastSize, status, upstream, revents>>

-----------------------------------------------------------------------------
\* ServerStream::drain, a round an action, and handle_server_events for what it finds.
Start == FindSubslice(pending, PREFIX)
Suffix == FindFrom(pending, SUFFIX, Len(PREFIX) + 1)
Drop(n) == pending' = SubSeq(pending, n + 1, Len(pending))
FirstBytes(n) == SubSeq(pending, 1, n)

DecodeStep == pc = "decode"
Decoded == UNCHANGED <<hostVars, ttyVars, keyVars, router, lastSize, status, upstream, revents>>
Continues == UNCHANGED <<pc, result>>

\* ensure_protocol_ready: output before the hello ends the join.
Show(output) ==
  IF protocolReady
  THEN shown' = shown \o output /\ Continues
  ELSE Done("no hello") /\ UNCHANGED shown

\* Mutant: an empty frame waits for the next read.
EmptyStallsMutant ==
  /\ DecodeStep /\ pendingLen = 0 /\ pendingLen' = -1 /\ pc' = "top"
  /\ UNCHANGED <<pending, protocolReady, shown, result>> /\ Decoded

EmptyFrame ==
  /\ DecodeStep /\ pendingLen = 0 /\ pendingLen' = -1
  /\ UNCHANGED <<pending, protocolReady, shown>> /\ Continues /\ Decoded

DataFrame ==
  /\ DecodeStep /\ pendingLen > 0 /\ Len(pending) >= pendingLen
  /\ Drop(pendingLen) /\ pendingLen' = -1 /\ Show(FirstBytes(pendingLen))
  /\ UNCHANGED protocolReady /\ Decoded

\* Bytes of no frame, up to the next control or to what may be half a prefix.
Unframed ==
  LET n == IF Start = 0 THEN Len(pending) - PrefixOverlap(pending, PREFIX) ELSE Start - 1
  IN  /\ DecodeStep /\ pendingLen = -1 /\ Start # 1 /\ n > 0
      /\ Drop(n) /\ Show(FirstBytes(n)) /\ UNCHANGED <<pendingLen, protocolReady>> /\ Decoded

\* A prefix whose suffix does not come within a control's length.
OverlongControl ==
  /\ DecodeStep /\ pendingLen = -1 /\ Start = 1 /\ Suffix = 0 /\ Len(pending) > MaxControl
  /\ Drop(1) /\ Show(FirstBytes(1)) /\ UNCHANGED <<pendingLen, protocolReady>> /\ Decoded

Control ==
  LET control == ParseServerControl(SubSeq(pending, Len(PREFIX) + 1, Suffix - 1))
      frame == Suffix + Len(SUFFIX) - 1
  IN  /\ DecodeStep /\ pendingLen = -1 /\ Start = 1 /\ Suffix # 0
      /\ Drop(frame)
      /\ CASE control.kind = "hello" ->
                /\ IF control.value = VERSION
                   THEN protocolReady' = TRUE /\ Continues
                   ELSE Done("version") /\ UNCHANGED protocolReady
                /\ UNCHANGED <<pendingLen, shown>>
           [] control.kind = "data" ->
                /\ pendingLen' = LengthOf(control.value)
                /\ UNCHANGED <<protocolReady, shown>> /\ Continues
           [] control.kind = "size" ->
                Show(<<Resized(control.value)>>) /\ UNCHANGED <<pendingLen, protocolReady>>
           [] OTHER -> Show(FirstBytes(frame)) /\ UNCHANGED <<pendingLen, protocolReady>>
      /\ Decoded

\* What is left waits for the next read; if poll reported POLLERR there is none.
WaitForMore ==
  /\ DecodeStep
  /\ \/ pendingLen > 0 /\ Len(pending) < pendingLen
     \/ /\ pendingLen = -1
        /\ \/ Start = 0 /\ Len(pending) = PrefixOverlap(pending, PREFIX)
           \/ Start = 1 /\ Suffix = 0 /\ Len(pending) <= MaxControl
  /\ IF revents.error THEN Done("ok") ELSE pc' = "top" /\ UNCHANGED result
  /\ UNCHANGED streamVars /\ Decoded

-----------------------------------------------------------------------------
Ended == pc = "done" /\ UNCHANGED vars

User == Press \/ HangUp \/ ChangeSize \/ Expire
Loop ==
  \/ SendResize \/ Poll \/ PollEarly \/ NothingToRead \/ StdinEnds \/ ReadStdin
  \/ StreamIdle \/ ReadStream \/ StreamEnds
  \/ EmptyFrame \/ DataFrame \/ Unframed \/ OverlongControl \/ Control \/ WaitForMore

Next == User \/ HostCloses \/ Terminated \/ Loop \/ Ended

\* The loop runs on, and poll(2) does not forever come back early.
Spec ==
  /\ Init /\ [][Next]_vars
  /\ WF_vars(Loop) /\ SF_vars(Poll)

-----------------------------------------------------------------------------
TypeOK ==
  /\ scenario \in Scenarios /\ conn \in {"open", "closed", "reset"}
  /\ readTo \in 0..Len(typed) /\ Len(typed) <= scenario.keys /\ winsize \in Sizes
  /\ lastSize \in Sizes \cup {NoSize} /\ pendingLen \in -1..MaxData
  /\ router.mode \in {"forward", "command"} /\ status \in {Connected, Command, Help}
  /\ pc \in {"top", "poll", "stdin", "stream", "decode", "done"}
  /\ result \in {"running", "ok", "no hello", "version", "write failed", "read failed"}

\* The pieces whose last byte has been read.
Whole ==
  LET read == Len(EncodedAll(said)) - Len(wire)
  IN  {i \in DOMAIN said : Len(EncodedTo(said, i)) <= read}

\* However the host's bytes are cut by the reads, what is shown is what the
\* host said, in its order and no control taken from inside a frame; and
\* between reads nothing that has come whole is held back, but for the bytes
\* of no frame at its end, which may be the beginning of a control.
ShowsWhatWasSaid ==
  /\ IsPrefix(shown, MeaningAll(said))
  /\ pc \in {"top", "poll"} =>
       \A i \in Whole : said[i].kind # "raw" =>
         Len(MeaningTo(said, i)) <= Len(shown)

\* Every key that was read is a prefix, a command after one, or was sent, in
\* the order it was pressed; a Ctrl-] is sent only after another, and nothing
\* is sent from a terminal that only watches.  A key pressed when the prefix
\* before it has timed out is no command.
KeysAccounted ==
  LET sent == [k \in DOMAIN KeysSent |-> KeysSent[k][2]]
      key(i) == typed[i].key
  IN  pc \in {"top", "poll"} =>
       /\ \A k \in 1..(Len(sent) - 1) : sent[k] < sent[k + 1]
       /\ ForwardInput => Range(sent) \cup commands \cup prefixes = 1..readTo
       /\ ~ForwardInput => sent = <<>>
       /\ Range(sent) \cap (commands \cup prefixes) = {} /\ commands \cap prefixes = {}
       /\ \A i \in commands : i - 1 \in prefixes /\ key(i) # LOCAL_ESCAPE /\ ~typed[i].late
       /\ \A i \in prefixes : key(i) = LOCAL_ESCAPE
       /\ LocalControls => \A i \in Range(sent) : key(i) = LOCAL_ESCAPE => i - 1 \in prefixes

\* When the host has ended, so does the join, whatever the user does.
EndsWithHost == conn # "open" ~> pc = "done"
=============================================================================
