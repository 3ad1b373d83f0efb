# A verification development for ptyroom

`ptyroom host` shares one PTY between a local terminal and any number of TCP
clients, and records what happens as a trace; other programs of the workspace
record scripts, bridge a room to browsers, and turn traces into pictures and
evidence. This directory holds TLA+ modules that model these programs, TLC
configurations that check them on small instances, and theorems that TLAPS checks
for all instances.

    tlc -config host_streams.cfg MCShareHost.tla      # check a run
    tlc -config session.cfg MCSession.tla
    tlapm ShareHostProofs.tla                         # check the proofs of a module

`PROJECT.json` lists the components, runs, mutants, findings, hazards and
theorems, and maps every definition that models code to its lines.

## 1. The system

The workspace has four crates: `ptytrace` (PTY sessions, traces, and under
`pty/share` the room's host), `ptyrender` and `ptyrecord` (pictures and bundles
of finished traces), `ptyroom` (the command line) and `ptyweb` (a browser bridge).

| component | state it keeps | operations | what makes it correct |
|---|---|---|---|
| host loop (`pty/share/mod.rs`, `poll_loop.rs`, `pty_output.rs`, `sizing.rs`, `pending.rs`) | the client list, the PTY's size, the join replay, the trace builder with one held-back event, the injection queue, counters | `start`, `tick` (control requests, one `poll(2)`, clients, accept, size, local input, PTY), `finish` | every client and the recording get the same unbroken history; the size fits everybody and everybody knows it; input is admitted, ordered and not lost; the loop ends when it should and nobody can stall it |
| client (`pty/share/client.rs`) | backlog of frames and its byte count, unparsed input, `protocol_ready`, size, `input_open` | `enqueue`, `enqueue_replay`, `flush_pending`, `drain_input_to_pty`, `disconnect` | the backlog stays in its budget; frames go out whole and in order; controls are told from keys whatever the segmentation |
| room protocol (`pty/room_protocol.rs`) | none (a codec) | encode and parse hello, size, resize, output frames | what one side encodes the other decodes, from any split of the stream |
| control socket (`pty/share/ctl.rs`, `ptyroom ctl`) | the socket file, the queue | bind, parse one request per connection, answer | a queued text is injected once or reported; the socket belongs to one host |
| local input router (`pty/input_router.rs`) | a pending Ctrl-] | forward, command, timeout | every key is either input or a command, once |
| viewport, status bar (`host_viewport.rs`, `viewport.rs`, `status_bar.rs`) | the room's screen, the screen and the local size of the last redraw | output, resize, status, redraw | the user sees the room's screen and a true status bar, whatever the window did |
| join (`pty/connect/*`) | decoder buffer, local viewport, half-close flag | decode frames, forward keys, resize, detach | frames are decoded from any split; the last output is shown after the local input ended |
| terminal guards (`terminal_state.rs`) | saved modes, one atomic descriptor and sequence for the signal handler | enter, restore, signal | the terminal is restored once, by whoever comes first |
| drainer and PTY session (`drainer.rs`, `mod.rs`, `script/exec.rs`) | a reader thread, a shared buffer, armed patterns | append, consume, put back, arm, wait with a timeout | bytes are neither lost nor reordered; a wait sees exactly the bytes after it was armed |
| live capture (`live.rs`) | one terminal, one PTY | the host's tick without clients | the same as the host's recording |
| OSC responder (`osc.rs`) | an unfinished escape sequence | scan, answer | a query is answered once, from any split |
| trace builder (`recording.rs`, `trace.rs`) | steps, dwells | push, validate, save | steps are in order, times do not decrease |
| recorder pipeline (`ptyrecord`, `frame_replay`) | extracted frames, a transcript, files | replay, stitch, encode, witness, pack | the parts of a bundle belong together, whoever replaces a file meanwhile |
| verification (`ptyrender/witness.rs`, attestation, contract) | none but the files | hash, render again, compare | a match proves that the trace gives the media; a difference is news |
| script language (`ptytrace/script`) | none that outlives a call | lex, parse | a script is read as it was written, or refused |
| web bridge (`ptyweb`) | four tasks, bounded channels | browser to room, room to browser, resize, shutdown | order within a direction, nothing lost at the end |
| painting, fonts, encoders, colours, argument parsing | none that outlives a call | pure functions | (data) |

How they interact: everything of the host runs in one thread. Clients, `join` and
`ptyweb` meet it over TCP, `ptyroom ctl` over a Unix socket, the local user over
stdin, the child over the PTY, signals over an atomic flag. So the hard behaviour of
the host is not data races but a single loop that reads the readiness of all
descriptors once per tick and then acts on it while the list of clients, the size
and the peers change under it; partial writes and budgets; clients that leave in the
middle of a broadcast; errors in the middle of a tick; and blocking calls. A scripted
session has two threads and a mutex; the web bridge has four tasks, bounded channels
and an abort; the programs that take over a terminal have a signal handler; the
programs that make and check evidence share files with everybody.

`PROJECT.json` lists each hazard at its line, with the properties that would
catch it, or why none does.

## 2. The modules

| module | what it is |
|---|---|
| `RoomFrames` | the host-to-client frames: hello, size, numbered output |
| `Room` | the abstract room: one history, members, everybody's view of it |
| `ShareHost` | the host loop with its clients, control socket, local terminal and trace, and the world around it; its properties |
| `ShareHostRoom` | the mapping under which `ShareHost` implements `Room` |
| `RoomControls` | control frames in a byte stream: prefix, suffix, the searches, the client's payloads |
| `TypedInput` | abstract: what a client's input means, read from the left without a buffer |
| `ClientInput` | how the host reads one client: pieces, the buffer, the parser; implements `TypedInput` |
| `InputRouter` | operators for the Ctrl-] state machine of local terminals |
| `Join` | `ptyroom join` and `watch`: the frame decoder, local input, sizes, half-close, the end; composes `RoomControls`, `InputRouter` and `Sieve` |
| `Viewport` | what `host` and `join` paint on a terminal whose window changes |
| `TraceBuilder` | operators for the list of steps and the trace it becomes |
| `Session` | a scripted session: the reader thread, the shared buffer and its watches, the script's operations; composes `TraceBuilder` |
| `Live` | taking over the user's terminal and giving it back, with signals at any time; the loop of a live capture |
| `Sieve` | operators on sequences: what of one lies in a set; several, one behind the other |
| `Web` | `ptyweb`: one WebSocket bridged to one room by four tasks |
| `Replay` | operators from a recording to frames, along both roads: stitched live, replayed from a trace; composes `TraceBuilder` |
| `Evidence` | the programs that make and verify bundles, media, witnesses and attestations, a file at a time |
| `ScriptGrammar` | what a `.script` file may say, and how that is written, given by what it means and without reading it |
| `Script` | reading a `.script` file: lexer, header, body; extends `ScriptGrammar` |
| `MCShareHost`, `MCClientInput`, `MCJoin`, `MCSession`, `MCWeb`, `MCEvidence`, `MCScript` | the small instances TLC checks; `Viewport` and `Live` are instantiated by their configurations alone |
| `ShareHostProofs` | proofs for `ShareHost`: types, then the output (budgets, counters, replay, streams, sizes, recording), then every step is one of `Room` or none; then sizes that fit, admission, the order of input, what becomes of queued texts |
| `SharedLemmas` | lemmas: first occurrences, overlaps, windows of a sequence; what of a sequence lies in a set; induction and recursion over numbers |
| `ClientInputProofs` | proofs for `ClientInput`: types, only beginnings wait, every step is one of `TypedInput` or none |
| `SessionProofs` | proofs for `Session`: no byte is lost, no watch misses its pattern, the trace is determined |
| `JoinProofs` | proofs for `Join`: what becomes of each key, and that what is shown is what was said |
| `RecordingProofs` | proofs for `Live`: the terminal is given back; what a capture records. For `Evidence`: bundles validate, a match is proof, an alarm is news; for `Replay`: stitching is replaying |
| `ViewerProofs` | proofs for `Web`: both directions of the bridge. For `Viewport`: the terminal shows the room's screen |
| `ScriptProofs` | proofs for `Script`: what is written is read, and only well-formed scripts are accepted |

### How `ShareHost` corresponds to the code

A tick (`Session::tick`) is cut where the world can intervene, which is at system
calls. `pc` is the place:

| `pc` | code | actions |
|---|---|---|
| head | `while !should_stop()`, `refresh_host_size` | `StartTick`, `LeaveLoop` |
| ctl, inject | `drain_ctl_socket`, `execute_queue_op` | `ServeAdd`, `ServeNext`, `ServeClear`, `ServeOther`, `Inject`, `Injected`, `InjectFails`, `CtlDrained` |
| poll | `poll_share_fds` | `Poll` (readiness goes into `rev`) |
| clients, input, flush | `process_client_revents`, `drain_input_to_pty`, `flush_pending` | `VisitErr`, `VisitOther`, `Hear...`, `Flush`, `FlushFails`, `ClientsVisited` |
| accept | `accept_ready_clients` | `Accept`, `NoneWaiting` |
| sync | `sync_canonical_size` | `SyncSize`, `KeepSize` |
| stdin, local | `maybe_drain_host_input`, `process_host_input` | `ReadStdin`, `LocalKey`, `LocalDetach`, `LocalDone`, `SkipStdin` |
| pty, evict | `handle_pty_revents`, `handle_pty_output`, `JoinReplay::remember` | `ReadPty`, `Evict`, `PublishOutput`, `SkipPty` |
| finish | `Session::finish` | `Finish` |
| any | `?` | `SessionError` |

`rev` is what poll returned and goes stale, as in the code. Actions of the world
(`Connect`, `Say`, `HangUp`, `ChildWrites`, `ChildReads`, `ChildExits`,
`ResizeTerminal`, `Press`, `Ask`, `Stop`) may happen between any two steps.

Abstractions:

- One `read(2)` of the PTY is one numbered chunk. A gap, a repetition or an
  inversion shows in the numbers; `ChunkLen` gives each chunk its bytes for the
  budgets.
- Client input is a sequence of tokens: the hello control, a resize, a key, or
  "bad" for everything on which `flush_pending_input` returns false. How bytes
  become tokens is `ClientInput`.
- The client list is a set and a tick visits it in any order; the code's order,
  that of the `Vec`, is one of them.
- A flush writes any part of the backlog, because the socket takes what it likes.
  Only the byte count of the backlog is kept, and `stream`, a history variable,
  has all frames ever queued.
- When a peer resets its connection, poll reports it until somebody reads the
  error. If `read` reported it, the host learns of it only by a failed write
  (`peer = "dead"`).
- When the child has gone, what is written to the PTY is lost without an error
  (Linux), and poll reports POLLHUP together with unread output.
- `EINTR` makes `poll_share_fds` return no readiness at all (`Quiet`). Only the
  termination signals have handlers, so this needs `stop`.
- Time is left out: `hostSize` may or may not be refreshed in a tick, `stop` stands
  for a signal as well as for `--max-secs`.
- The status line, painting and logging are left out.

### How `ClientInput` corresponds to the code

One round of `flush_pending_input`'s loop is one action, named for what it finds:
nothing that starts a control (`NoControl`, `NoHelloYet`), keys before a control
(`KeysBeforeControl`, `KeysBeforeHello`), a control without its end (`Unfinished`,
`OversizedIsTyped`, `OversizedBeforeHello`), or a whole one (`ApplyControl`,
`BadControl`). `Poll`, `ReadBytes`, `WouldBlock`, `ReadEnd` and `ReadFails` are the
loop around it in `drain_input_to_pty`. `Arrive` delivers any number of bytes, so
that every way of cutting the input happens. A byte is a string, and the ten bytes
of the prefix are three; like the real one it has ESC at its start only, and the
suffix starts with ESC as well. A payload has one byte a field. Writing to the PTY
is taken to succeed; `ShareHost` has what happens when it blocks.

`TypedInput` has no buffer and looks at the whole input, so implementing it means
that the pieces make no difference. It leaves one choice open, because the code
does: a control of more than `MAX_CONTROL_BYTES` is obeyed or refused if its end
was read together with what exceeds the limit, and typed as keys if it was not.

### How `Join` corresponds to the code

`relay_fds_with_output` goes through `pc` = top, poll, stdin, stream, decode:
`SendResize` is the resize at the top, `Poll` the call and the readiness it returns
(`PollEarly` when a signal cuts it short), `ReadStdin` and `StdinEnds` are
`relay_stdin`, `ReadStream`, `StreamIdle` and `StreamEnds` the host's side. Each
round of `ServerStream`'s loop is an action named for what it finds: `EmptyFrame`,
`DataFrame`, `Unframed`, `OverlongControl`, `Control`, `WaitForMore`. The user
presses keys (marked late when the prefix before them has timed out), hangs up and
changes the window; the host closes, or resets when it has not read all it was sent;
a signal may come. `revents` is what poll reported, POLLERR among it, and may be stale
when the socket is read. Bytes are those of `RoomControls`. The keys that are ready when the loop comes to read them are one
read. A frame is handled when it is found, not after the last one of the read; the
first error ends both, so the output is the same.

What the code does and the model keeps: after a reset, which a key written to a host
that has just closed can cause as well, output that is on its way is cut after one read;
`Ctrl-] Ctrl-]` leaves the status at "command"; `Ctrl-] ?` only ever turns the help
on (`docs/shared-terminals.md:145` says that it toggles); a control of more than
`MAX_CONTROL_BYTES` is taken or shown as bytes according to how it was cut.

### How `Viewport` corresponds to the code

An action computes what `LocalViewport` and its renderer compute in one call
(`Enter`, `ProcessOutput`, `Resize`, `SetStatus`, `SetClientCount`, `ForceRedraw`)
and leaves the bytes in `frame`; `Write` or `WriteFails` brings them to the terminal.
Between the two, as between any others, `EmulatorResizes`. The room's screen is the
`vt100` parser's and both it and the emulator cut or add rows at the bottom. `moved`
says that the window has changed since the last redraw. `torn` says that a frame was
cut short, or that a difference was painted over a picture that a resize there and
back had spoilt unseen (or one between two rows and one, whose local sizes are the
same); a full redraw ends it.

What the code does and the model keeps: a failed write of output is ignored by the
host, although the frame already counts as displayed (`viewport.rs:129`); a join
whose window grows is not repainted until the host's next output or size; the help
hint is missing until the first redraw after `set_controls_enabled`.

### How `Session` corresponds to the code

Two threads, `Reader` (`drainer.rs`) and `Script` (`pty/mod.rs`, `script/exec.rs`). An
action is what a thread does between two releases of the mutex, so a wait is `Send`
or `Arm`, `WriteArmed`, then `WatchFired` or `TimesOut`, then `PutBack`; and
`wait_for_regex` is `PollRegex` and `PollAgain`. `DrainTop`, `SelectTimesOut`,
`ReadChunk`, `ReadFails`, `AppendChunk` are the reader, which answers queries before
it appends the chunk. `Stop`, `Shutdown` and `Join` are the order of the drop. A
watch keeps its pattern, its carry and, as history, where it was armed.

What the code does and the model keeps: a query that a read cuts is not answered; a
character that a read cuts is replaced in the trace; arming scans what is buffered but
does not seed the carry with it; a timed-out regex wait loses what it accumulated.

### How `Live` corresponds to the code

`todo` is the list of setup steps of the front end (the order differs between
capture, host and join), each an action: `SetUpSink`, `Spawn`, `Alternate`,
`EnterRaw`, `DrawStatus`, `NewGuard` and, within the guard, `Install` one signal after
another, `ClearRequest`, `Arm`. Each but the guard may fail: of the viewport, three
writes before its guard (`viewport.rs:39-41`), with the screen switched or not, and the
status line after it; and of all of them raw mode, which host and join also do without
when there is no terminal. Capture switches the screen under its guard and does not look
whether it worked (`live.rs:184`). `Poll`, `ReadPty`, `Tee`, `LeaveLoop`, `Ending` are
the loop of `live.rs`, with the chunk whose dwell is not known yet in `pending`;
`DropRaw`, `DropGuard`, `Uninstall`, `Disarm` unwind. `Signal` may come between any two of them:
a signal with a handler sets the flag and restores the screen if the guard is armed,
one without kills. Of the host and of `join` only the terminal is modelled here. When a
guard is dropped, the terminal is taken to accept the sequence: nothing could be done
if it did not.

What the code does and the model keeps: a viewport that cannot be entered leaves the
screen as it is; a signal between the first handler and
`clear_termination_request` is forgotten; host and join drop their two guards in the
opposite order to capture; an error by `?` in the loop skips the flush and leaves the
child to its drop.

### How `Web` corresponds to the code

`Request`, `Connect`, `ReadHello`, `NoHello`, `Bridge` are `bridge_socket` up to the
`JoinSet`; then the tasks `TcpToWs`, `WsWriter`, `WsReader`, `TcpWriter`, each of
which is cut at its awaits: taking from a channel, sending to a socket, giving to a
bounded channel; a value in hand between two awaits is lost when the task is
aborted. `FirstExit` and `Abort` are `join_next` and `abort_all`. Host events are
whole, since `Join` has their decoding (`ptyweb` uses the same decoder).

What the code does and the model keeps: a second hello is accepted if it comes with
the first and is an error later; the handshake has no timeout and does not look at the
browser, so a room that never greets holds it for ever; a resize may overtake keys; what is in a channel at the abort is dropped.

### How `Evidence` corresponds to the code

`maker` runs one of `ptyrecord COMMAND`, `ptyrecord --trace-in` and `ptyrender render`,
`verifier` runs `ptyrender verify`; a step reads or writes one file of `disk`.
`SomebodyElse` replaces a file, or the tools, between any two steps. A hash is the
identity (no collisions), an encoder a function of frames and durations, with noise
for a hardware encoder; `Replay` has the frames. `Identities` is what
`ToolIdentity::current` gives in one of the programs: the version of the tools, and the
hash of the executable that runs (`witness.rs:112-130`), or none if it cannot be read;
`EnvDiffers` compares two of them, and a hash that one side does not have fits any. The
other fields, versions, font and ffmpeg, are one value, the version of the tools: they
are the same in all programs and change with an upgrade. `verify_contract_bytes` reads the
trace once more after its hash was compared, and `render_cli` hashes the trace and
then reads it again, and so does the model.

### How `Script` corresponds to the code

A raw line is a sequence of symbols: a word, a number or a duration is one symbol,
quotes, slashes, backslashes, blanks and hashes one each, so that every state of the
lexer about comments, escapes and heredocs is there. `LexLine` is one round of the
line loop (a heredoc takes the lines to its end): `StripCommentAndTrim`, `VerbEnd` for
`split_verb`, then `Scan` symbol by symbol, whose modes are the places in
`parse_string`, `parse_regex` and `parse_heredoc_marker`. `ParseVersion`,
`ApplyHeader`, `FinishHeader` and `ParseBodyLine` are one logical line each, and
`ReadOptions` is the loop over name and value that each of the `parse_..._args` has.

A document is the file as its writer means it: a list of statements, each a verb with
arguments that are given by their meaning (`ScriptGrammar`: a string by its text, a
regular expression by its symbols, a heredoc by its lines), with any blanks and
comment, and the lines it is written as; or a line that cannot be read, of one of the
ways `Unreadable` lists. `Script` gets the lines and must find the meaning. Arguments
may follow each other without a blank where their ends are plain (`Adjoin`), as after a
string. A setting keeps its verb, so that `SetSpawn`, `SetWarm` and `SetCold` are three
targets.

Which arguments a verb takes is said once, for both sides: `HeaderLineFits`, `KeyNames`
and `OneOf` are the code's own lists, used by the reader and by the grammar, so what
they say holds by construction. What the properties test is the way to them: that the
lexer finds the arguments that were written, that the loops over options find the values,
and that versions, settings and actions come in the order they must. The document of the
grammar has one key more than the code: `Backspace` (`docs/script-grammar.md:57`), which
`key_from_name` refuses (`parse.rs:616-630`).

Not told apart: the escapes of single bytes (`\r`, `\t`, `\e`, `\0`, `\xNN`) beside those
of the quote, the backslash and the line end; regular expressions that do not compile;
literals that are not UTF-8; numbers and durations beyond the u16 of a size and the u32
of a repeat count. Left out of what may be written: an identifier with an underscore
right behind a number, which the code reads as two (`5_a`).

## 3. What is checked

Every property has a mutant in `PROJECT.json`: a plausible bug in one definition
with which TLC finds the property violated.

| run | distinct states | invariants and action properties | temporal and refinement |
|---|---|---|---|
| `host_streams` | 765 079 | `TypeOK`, `StreamsUnbroken`, `EverybodyKnowsTheSize`, `HistoryComplete`, `ReplayRecent`, `WithinBudget`, `CountersAddUp` | `ImplementsRoom` |
| `host_input` | 1 044 668 | `InputAdmitted`, `FitsEverybody`, `InputInOrder`, `TextThenReturn`, `QueueConserved` | |
| `host_progress` | 100 383 | | `SessionEnds`, `OutputPublished`, `ClientsServed`, `SizeFollows` |
| `client_input` | 147 075 | `TypeOK`, `OnlyBeginningsWait` | `ImplementsTypedInput`, `HostCatchesUp` |
| `join` | 149 001 | `ShowsWhatWasSaid`, `KeysAccounted` | `EndsWithHost` |
| `viewport` | 896 590 | `ShowsTheScreen` | |
| `session` | 96 625 | `NothingLost`, `NoMissedWatch`, `SameTraceAlways` | `ScriptEnds` |
| `web` | 315 314 | `OutputUnbroken`, `InputUnbroken` | `EndsTogether` |
| `live` | 203 745 | `TerminalRestored`, `CaptureFaithful` | `SignalObeyed` |
| `evidence` | 460 440 | `BundleValidates`, `MatchReproduces`, `NoFalseAlarm` | |
| `script` | 123 020 | `OnlyWellFormed`, `ReadsBack` | |
| `final_output` | (violated) | `FinalOutputRecorded` | |

### Bounds and fairness

**host_streams**: two clients, two chunks of lengths 2 and 1, a replay budget of 2 and
a backlog budget of 4, so that the second chunk evicts the first from the replay, a
greeting plus a replay just fits, and the next frame overflows a client that has not
read. The local terminal changes between a large and a narrow size. Connections break
at any time.

**host_input**: two clients whose scripts introduce themselves, resize, type and break
the protocol early or late; or one client with the local user, who types and detaches,
the control socket with add, next and clear, and failures of any system call. The
constraint `ClientsOrDesk` keeps the two apart: the properties about clients need two
of them, those about the desk only somebody else who types. The input buffer of the
PTY takes one write, so that the loop blocks in the middle of a drain.

**host_progress**: one client that resizes, types, stops reading, resets. Fairness:
`WF_vars(HostStep)`, because the loop is one thread that runs whenever no system call
blocks it, and `WF_vars(ChildReads)`, because a write to the PTY blocks until the child
takes its input. Nothing is assumed of clients, users or the child's output. That the
child always takes its input is an assumption about the child; without it `write_all`
blocks the loop for ever, which is listed as a hazard.

**client_input**: 139 inputs of up to three pieces and a key. The pieces are a key,
Escape, halves of the prefix, the prefix alone, the suffix alone, hello, resize, an
unknown control and an oversized one, before and after a hello; `MaxControl` is
exactly the length of a hello, the read buffer is a little larger, as in the code, and
the client closes or resets. Fairness: `WF_vars(HostStep)`, because poll reports every
readable client in every tick. Nothing is assumed of the client.

**join**: nine things a host may say (frames that look like controls or like halves of
one, empty frames, bytes of no frame, an unterminated and an oversized control, a newer
version, a size before the hello), cut anywhere by reads of up to nine bytes; up to
three keys out of Ctrl-], a command and a letter; every combination of terminals and
pipes; the host closes or resets at any time. Fairness: `WF_vars(Loop)`, one thread, and `SF_vars(Poll)`, because the early
returns of poll(2) are signals and timeouts, and descriptors that stay ready are
reported by one of the calls after them.

**viewport**: windows and rooms of one to three rows, which has every order of the
local, the remote and the last size, and the degenerate terminal of one row.

**session**: scripts of two or three operations, chosen so that patterns overlap,
follow each other at once or are cut by a read of three bytes, with a child that
writes in pieces, echoes and exits at any time. Fairness: both threads run
(`WF_vars(Reader)`, `WF_vars(Script)`), and a wait's clock runs out
(`SF_vars(TimesOut)`: the deadline is looked at on every round).

**web**: channels and sockets of one element, so that each fills up; conversations of
up to five messages, with malformed ones and a room that never says hello; either side may leave at any time. Fairness:
tokio runs every task that can run, an aborted task ends at its await, the host reads
its clients on every tick (`host_progress` checks it) and a browser that stays reads.

**live**: two signals, three chunks, three units of time, each of the three front
ends, with a terminal and without one, and every step of the setup failing. Fairness: `WF_vars(Main)`: poll(2) has a timeout, and the terminal takes what it
is given.

**evidence**: four live captures (one with a character cut by a read, one with frames
closer than a millisecond), five traces to replace one with (a resized, a resize to
nothing, an unfinished character, an empty and an unreadable one), two contracts, every
combination of witness, contract and attestation, executables that can be read and that
cannot, two interventions at any time: one to change a file, one to change it back.

**script**: all files of up to two statements and all of four that begin with a
version, out of seventeen well-made and eleven malformed ones: quotes, hashes,
backslashes and line ends in literals, two literals whose hash is cut off, a heredoc of
lines that look like a comment and like its end, options given twice, arguments without
a blank between them, a second process target of another kind, a number too wide,
strings and heredocs without an end, an impossible escape. `DocumentsAssumption`, which TLC evaluates, says
that each of them is what it claims to be.

Two actors are enough for "somebody else" in every property: none relates three. Two
chunks are enough for a gap, a repetition or an inversion, and for one eviction; the
theorems below remove these bounds for every safety property of every passing run.
Deadlock is checked in the runs of the host's loop, `join` and
`session`, which stutter explicitly at their end; the other configurations say
`CHECK_DEADLOCK FALSE` because the programs they model end, and a stopped system is
no error there; that they do not stop early is what their liveness properties say.

### Disagreements between documents and code

**final_output**: with POLLHUP the host's loop ends after one read of at most 4096
bytes; what the child wrote beyond that is neither broadcast nor recorded
(`pty_output.rs:62`). TLC finds it.

The modules define more claims of documents and comments that the code does not meet.
They are no runs of their own; the configuration of the module's run, with one of them
as its only INVARIANT (the two of `ClientInput` as its only PROPERTY), makes TLC show
how. Where a property of a passing run makes an exception for one of them, it says so:
`TerminalRestored` for the screen of a viewport that could not be entered, `NoFalseAlarm`
for the executable in a recording's witness, `ReadsBack` for a literal that is cut off.
`EveryQueryAnswered` takes `Plans <- AskingPlans`, `EveryByteInTrace`
`Plans <- AccentPlans`, those of `ShareHost` `host_input.cfg`.

| definition | who says so | what the code does |
|---|---|---|
| `ShareHost.ViolatorRemoved` | `docs/ptyroom-protocol.md:153`: input before the hello disconnects | stops reading the client and keeps it: it goes on receiving output, and its size goes on counting (`poll_loop.rs:133`) |
| `ShareHost.EveryEndWritesTrace` | `docs/ptyroom-protocol.md:221-223`: at a PTY error too the trace is written | leaves `run` by `?`, and nothing is written (`mod.rs:186`) |
| `ClientInput.UnknownControlIgnored` | `docs/ptyroom-protocol.md:54-55`, `:154-155` | stops reading the client (`client.rs:293`), as the comment above that line means to |
| `ClientInput.RawBytesWritten` | `docs/ptyroom-protocol.md:153-154` | a trailing ESC waits for the client's next byte, without a timeout (`client.rs:219`) |
| `Session.EveryQueryAnswered` | `osc.rs:3-6` | a query that two reads share is not answered |
| `Session.EveryByteInTrace` | `pty/mod.rs:3-6` | a character that two reads share is replaced |
| `Live.OutputOnAlternate` | `ptyrecord/INVARIANTS.md`, INVARIANT_CAPTURED_SESSION_IN_ALT_SCREEN | after the handler has restored the screen, the loop may still show a chunk |
| `Live.EnteredUnderGuard` | `terminal_state.rs:81-84`: the enter sequence is written after installing a `RestoreGuard` | `ViewportRenderer::enter` writes it, and twice more, before it has its guard (`viewport.rs:39-44`): when one of these writes fails, host and join return and may leave the alternate screen behind |
| `Web.BrowserSeesTheEnd` | the comment at `ptyweb/src/lib.rs:383-387` | `abort_all` may drop the last output and the close frame |
| `Evidence.WitnessIsRenderers` | `docs/ptyrecord-format.md:110-111`: the witness in a bundle is the one `ptyrender --receipt` produces; `docs/determinism-audit.md:132`: its `renderer_sha256` is of the ptyrender binary | it is the hash of the executable that runs, so a witness that `ptyrecord COMMAND` made has the hash of `ptyrecord` (`ptyrecord/src/main.rs:257`), and `ptyrender verify` says of every untouched live recording that the environment differs (`witness.rs:648-669`), unless one of the two could not read itself |
| `Script.GrammarIsRead` | `docs/script-grammar.md:50-53` allows any string with escapes and any regular expression; the comment at `lex.rs:97-99` leaves a `#` inside one to the lexer, and the test at `lex.rs:436` has one in a string | `strip_comment_and_trim` counts every quote, escaped or not, and knows no regular expressions: `Send "a\" # b"` and `WaitFor /a #/` lose their ends and are refused |
| `Evidence.StitchedAsReplayed` (with `Orders <- RecordOnly`) | the comment at `ptyrecord/src/lib.rs:102-104` | a character cut by a read is whole in the stitched frames and lost in the trace; dwells are truncated in one and rounded, with a minimum, in the other |

The bundle that `ptyroom` makes of a session with events has its witness in the same way
(`ptyroom/src/main.rs:286`), with the hash of `ptyroom`.

## 4. What is proved

Each theorem is proved in the same way: an inductive invariant that says why the
property holds, checked by TLC on the property's run before it was proved; that the
initial states have it; that each action keeps it; that it implies the property.

### The host's output (`ShareHostProofs`)

For any clients, sizes, lengths, budgets, scripts and faults that the assumptions of
`ShareHost` allow (`SizesAssumption`, `LengthsAssumption`, `BudgetAssumption`,
`InputAssumption`, `BoundsAssumption`; the only one with content is that hello, size
and replay fit the backlog budget, which the constants of `client.rs` satisfy):

- `TypeCorrect == Spec => []TypeOK`. `TypeOK` is inductive because of `PlaceOK`:
  a visited client is a member that is no longer on the list of those to visit,
  those to visit are members, only queued texts are injected, output that poll
  reported is still there. One step per action; a `...Kept` lemma disposes of the
  groups of variables an action does not touch.
- `BudgetKept`, `CountersKept`, `ReplayKept`, `StreamsKept`, `SizesKept`,
  `HistoryKept`. Two lemmas cut the number of cases:
  `OtherSteps` (all but ten actions leave the output alone) and `RoomSteps` (each
  step lets somebody join, lets somebody leave, gives out an event, or is silent).
  `StreamsKept` and `SizesKept` need `ReplayRecent`: what a newcomer is given is
  right only because the replay is the newest stretch of output and has no sizes.
  The lemmas `Unbroken...`, `LastSize...` and `DataAfter...` say what appending
  and concatenating do to runs of output.
- `RoomImplemented == Spec => ImplementsRoom`: with `NoViewOutside` added, each of
  the four kinds of step is `Join`, `Leave`, `Output` or `Resize` of `Room`, or a
  stutter.

### The host's input (`ShareHostProofs`)

From `TypeOK` and the same assumptions:

- `SizeFits == Spec => []FitsEverybody`. It is inductive with the types alone, but
  only as it is stated, for the places between `sync_canonical_size` and the end of
  the tick; there `Least` is below every member's size (`LeastInSet`).
- `AdmissionKept == Spec => []InputAdmitted`. A typed key says little of the state
  that admitted it, so `Admission` adds `Listening` (of a client the host listens to,
  nothing refused was heard, and `protocol_ready` says whether the hello was) and
  `TypedWasHeard` (nothing is typed that was not heard, hence nothing twice).
- `OrderInPty == Spec => []InputInOrder`, `TextStaysWhole == Spec => []TextThenReturn`,
  `QueueAccounted == Spec => []QueueConserved`, together in `Order`. `LocalOrder` and
  `QueueOrder` order what waits behind what was typed; `Injecting` says where in that
  order the text in hand is, and that what is left of it is all of it or its return;
  `ReturnOwed` is `TextThenReturn` with the return that has not been written yet,
  because the property itself is silent while the return is in hand. A `clear` that
  comes between two texts is why `QueueConserved` speaks of later requests.

### One client's input (`ClientInputProofs`)

For any set of inputs, any read size and any `MaxControl` of at
least the prefix's length (`ByteAssumption`, `ReadAssumption`, `ControlAssumption`):

- `TypeCorrect == Spec => []TypeOK`, whose main part is `Contiguous`: the buffer is
  the stretch of the input between what is settled and what was read. `TakeOff` and
  `ReadOn` say that taking bytes off its front and reading more keep that;
  `SearchesStay`, that what the searches find lies in the buffer. They rest on the
  lemmas of `SharedLemmas` about windows of a sequence and first occurrences.
- `BeginningsOnly == Spec => []OnlyBeginningsWait`, from `TypeOK`: each way out of a
  round leaves an unfinished control or the overlap that `PrefixOverlap` found.
- `InputImplemented == Spec => ImplementsTypedInput`, for any set of inputs and any
  way of cutting them. `FindInWindow` says that what is found first in the buffer is
  found first in the input, so a control at the head of the one is that at the head
  of the other (`AtControl`). `MayStartFound` says that where a control may start,
  the host either finds it or waits, and `KeyIfNot` that everything else is a key
  whatever follows. `OnlyBeginningsLeft` needs `OnlyBeginningsWait`: what waits when
  the client closes can become nothing else, so typing it then is right.

### A scripted session (`SessionProofs`)

For any plans whose operations have what `register_watch` asserts, a pattern that is
not empty (`drainer.rs:193`; `SessionAssumption`), and any read size:

- `AllBytesArrive == Spec => []NothingLost` and `WatchesSeeAll == Spec => []NoMissedWatch`,
  from `SessionInv`. `Stream` says that what was taken, what is in hand, the buffer,
  the chunk and the PTY are together what the child wrote; `Place`, which thread has
  something in hand where. That a watch misses nothing rests on `KeepUp`: the carry
  is the end of what was read since the watch was armed, as long as a pattern can
  begin, so a pattern that chunks cut is found when its last byte comes and no earlier
  one was passed over. `Armed` carries it to the script: a watch that fired has its
  pattern in the buffer the script is about to take, because nothing is taken between
  arming and waiting. `Marks` keeps the names of watches apart, without which an old
  watch could wake a later wait.
- `TraceIsDetermined == Spec => []SameTraceAlways`, from the same invariant and
  `Exact`: there is a function of the operations so far, built as `Expected` builds
  its own, that ends at what the script has taken and recorded. The function speaks of
  what the child has written in the end, the run only of what had come by then; they
  agree because every wait so far found its pattern (`Finds`), and more output does not
  change what is found first (`FoundStays`, `RecordsLonger`). That the part a wait puts
  back is right for its follower (`PutBackTakes`) is where `NoMissedWatch` is needed.
  `Kinds` ties the script's place to the kind of its operation; `RecordsSame`, that two
  such functions are one, is by a least counterexample.

### The terminal and a live capture (`RecordingProofs`)

For any front ends among the three (`FrontendsAssumption`) and any number of signals,
chunks and ticks of the clock (`BoundsAssumption`):

- `TerminalGivenBack == LiveSpec => []TerminalRestored`, from `TerminalInv`. What has to
  be known before the program returns is in `ScreenOrder` (no list of setup steps
  switches the screen without a guard at once behind it or before it), `ScreenGuarded`
  (an alternate screen has a guard, or gets it in the next step, or is that of a
  viewport which could not be entered) and `OnlyGuarded`
  (handlers, the handler's descriptor and the request exist only under a guard). That
  viewport is the one exception, `ViewportRefused`, and only for the screen: modes,
  handlers and the request are restored on that way out too.
  `KilledIsOver` takes the one way out on which nothing is given back, a signal before
  its handler is installed, out of the promise, as the code does.
- `CaptureRecordsAll == LiveSpec => []CaptureFaithful`, from `CaptureInv`: the pending
  chunk is the last that came and is not in the trace (`PendingIsLast`,
  `NothingPending`), all others lasted until the next one came (`EventsTimed`), and a
  capture that ends well has flushed it (`AllFlushed`).

### What the user sees (`ViewerProofs`)

For any `MaxRows` that is a number (`RowsAssumption`), hence terminals and rooms of
any height:

- `ScreenIsShown == ViewSpec => []ShowsTheScreen`, from `ViewInv`, which says of the frame
  that is on its way what makes it right when it arrives: a full frame needs nothing
  of the terminal (`FullRight`), a difference needs the rows it leaves out to be right
  already (`DiffRight`), the bar alone needs all of them (`BarRight`), and all need
  that the window has not moved since they were composed (`Composed`).

### Bundles and verdicts (`RecordingProofs`)

For any captures, traces, contracts, encoders and number of edits, and orders for one
of the three tools (`OrdersAssumption`). The first two leave open what a replay or an
encoder gives: their proofs do not expand `ReplayTrace`, `Encodings` or `Transcript`,
so they hold for every painter.

- `BundleCanBeRead == Spec => []BundleValidates`, from `BundleInv`: between the check
  and the writing, `Agreed` speaks of the copies the program holds and not of the
  files, which others may have replaced.
- `MatchIsProof == Spec => []MatchReproduces`, from `MatchInv`. `Claims` says what the
  verifier was given of what its witness claims, `Attested`, `Compared` and
  `Reproduced` what each step has established and the later ones rely on.
  `OneAttestation` is about the files: an attestation may be replaced by another one
  but is not taken away, so the second read finds what the first one has seen exist.
- `AlarmsAreNews == Spec => []NoFalseAlarm`. `QuietInv` says that while nobody else
  touches anything, what the maker and the verifier hold is what lies on the disk, and
  a witness is of those files (`WitnessHonest`) and of this version of the tools, and
  that its executable, if it has one, is `ptyrender` or, after a recording,
  `ptyrecord`; so the environment can differ only there. It needs two facts of the programs: a
  chunk of a capture is not empty (`CapturesAssumption`; a read of nothing is the end,
  `live.rs:276`), and only `render` writes attestations (`OrdersAssumption`). For
  media that `ptyrecord` encoded from stitched frames and the verifier encodes from the
  replayed trace, it needs `StitchIsReplay`: for a clean capture both give the same
  frames with the same durations. The stitcher feeds the terminal the bytes of the
  chunks, the replay the text of the events, in which a byte that is no character has
  become a replacement character; `SameOutput` says that this makes no difference to
  the terminal when no character is cut by a read, in two parts, the screen
  (`SameScreen`) and the background colour the tracker sees (`SameBackground`), byte by
  byte. `SameDwell` is the arithmetic of the durations, `FinishTimes` what the trace's
  times are, `BuiltInTheEnd` that flushing chunk by chunk builds the trace at once.

### The web bridge (`ViewerProofs`)

For any conversations made of the messages host and browser can send
(`ScenariosAssumption`), any depths of the channels and sockets, any sizes of reads
and any `MAX_RESIZE_DIM`:

- `OutputFlows == Spec => []OutputUnbroken` and `InputFlows == Spec => []InputUnbroken`,
  from `WebInv`. `Downstream` says that what the browser has seen, what lies between
  the tasks and what the host has still to send are together, in this order, the
  status and all that the host wrote; `Upstream` says the same of keys and of
  resizes, each with its own lane, up to a rest that a browser which left took with
  it. Each step moves something from one piece to the next (`...Down`, `...Up`).
  `Stage` says which pieces are empty when, among them that no close frame is in the
  browser's socket while the reader of the room runs, so that nothing can follow it.
- What of a sequence lies in a set is `Only`, a function that recurs over the
  sequence's length, so that its laws (`OnlyOfMore`, `OnlyOfBoth`, `OnlyOfHead`) can
  be proved by `SetInduction` of `SharedLemmas`: a set of numbers that has zero and
  with each number the next has all, because a least counterexample would have a
  predecessor. The induction theorems of the library take an operator and cannot be
  used here; `RecursionExists` and `SameSteps` say of a function that recurs over a
  length that there is one and that two of the same steps are equal. The recursive
  definitions of `TraceBuilder` and `Replay` are written as such functions.

### Joining (`JoinProofs`)

For any scenarios whose hosts say what a host can put in a frame, and any way of
writing numbers in which two lengths are not written alike nor as the suffix of a
frame (`JoinAssumption`, `DecimalAssumption`):

- `KeysAccountedFor == Spec => []KeysAccounted`, from `KeyInv`. A read hands the
  router several keys at once, and `KeysAccounted` is about each of them, so the step
  is proved one key at a time (`RouteOne`) and carried over the keys of a read by
  induction (`RouteAll`). `Accounts` counts what was sent as `Ordered` counts it, key
  by key in the order typed; `LateKeys` says that at most the next key is late, and
  only while no prefix waits for it, which is what makes a prefix and the key after it
  one command even when they come in two reads.
- `WhatWasSaidIsShown == Spec => []ShowsWhatWasSaid`, from `ShowInv`. `Layout` lays
  the pieces out: where each begins and ends in the stream (`E`) and on the screen
  (`F`). `At` says where the decoder is: before a piece, among bytes of no frame, or
  behind the control of a frame with the rest of it to come. `Holds` says that what is
  pending is a window of the stream which begins there and ends where the reads have
  come to, and each action of the decoder moves the beginning to another such place
  and shows what lies between (`DataShown`, `LooseShown`, `OverlongShown`,
  `ControlObeyed`, `NothingObeyed`). A search of the window says what the same search
  of the whole stream says, or that the window is too short (`SearchesWindow`), and a
  word that the window cuts off overlaps with its end (`CutWordOverlaps`): this is why
  the cut does not matter. `NothingHeld` is why waiting is right: when the decoder
  waits, no frame ahead of it is whole.

The second theorem assumes more (`HarmlessAssumption`, and that `MaxControl` is at least
the length of a hello): after a prefix among bytes of no frame there comes no suffix at
all, or one among the same bytes, and what is between them is no control. The host of
this repository sends frames only, and bytes that spell a control are a frame. What is
left out is real all the same: were a lone prefix followed by frames, how much of
them it swallows would depend on whether a suffix or `MaxControl` bytes come first,
that is, on the cut.

### Scripts (`ScriptProofs`)

For any documents, of any length, over any words, numbers and durations that differ
from each other and from the signs of the grammar (`SymbolsAssumption`,
`DocumentsAssumption`):

- `AcceptedIsWellFormed == ScriptSpec => []OnlyWellFormed` and
  `WrittenIsRead == ScriptSpec => []ReadsBack`, both from
  `ScriptsAreRead == ScriptSpec => []ScriptInv`. Neither property says anything before
  the end of the file, so `ScriptInv` says in each phase what has been read: while
  lexing, that the lines up to here are those of the first `k` statements and the
  logical lines are what these say (`LexedUpTo`); while parsing, that the header has
  the last value of each field among the statements so far (`HeaderUpTo`), with the verb
  that gave it, and the body their actions (`InBody`). `rejected` needs `~ WellFormed` or
  a literal that is cut off (`SomeCutOff`) at once, and each way to be refused has its
  own reason for it.
- The lexer is followed symbol by symbol: `Scanned` of two texts is `Scanned` of one
  after the other, so the text of an argument takes the lexer from "between" to
  "between" with one argument more, its meaning (strings with their escapes, regular
  expressions unit by unit, markers), and an argument that is broken off leaves it
  where no line may end. In front of that, `strip_comment_and_trim` searches the raw
  line. If it takes no hash before the end of the last argument for a comment
  (`CommentFree`), then whatever it cuts or leaves of the tail says nothing. If it does
  take one (`TakenForComment`), that hash is inside an argument, and the argument is not over
  where the line is cut (`CutInside`): an argument that is cut before its end cannot
  be whole, so such a line is always refused and never read as another one
  (`FormCutOff`, and `BrokenFails` for one that was broken off anyway). This is why
  an accepted file means what it says although the cut is made before anything is lexed.
- `read_heredoc` ends at the first line that `Closes` it: none of the argument's own
  lines does (`IsArgument`), and its last line does. A heredoc without an end is
  refused, though statements follow in which its lines might be looked for
  (`NeverCloses`).
- `OptionsRead`: the loop over name and value accepts exactly the arguments that can be
  divided into names, values and repeat counts (`OptionsFit`), and the division is
  unique, because what stands behind a name is a value even when it looks like a name;
  each option has its last value. `ActionsRead` carries it to the verbs.

### Only model-checked

Liveness (`SessionEnds`, `OutputPublished`, `ClientsServed`, `SizeFollows`,
`HostCatchesUp`, `EndsWithHost`, `ScriptEnds`, `EndsTogether`, `SignalObeyed`):
fairness needs ENABLED, which TLAPS does not support. Every invariant of a passing run
and both refinements are proved.

## 5. What is not modelled, and the plan

Left in the models:

- Two hosts and one socket file (`ctl.rs:54`): `bind` removes the file of a running
  host, and the drop of either removes that of the other.
- The text of a control request, OSC setters, key encodings, columns and colours.
- The session of `ptyroom` without events, whose trace is kept in a temporary
  directory that is removed on return (`ptyroom/src/main.rs:261`).
- `write_attestation` writes through a fixed `<path>.tmp`; two writers of one
  attestation are not modelled.
- Slow clients of the control socket, which hold the loop for 500 ms a read, and
  clients that send as fast as the host reads: both need time. The hazards list them.

Left out for good: painting pixels, font and image handling, the encoders, the HTML
player, argument parsing, digests, the JSON of traces and the details of colour
formats. They are functions of their input or output formats, and hold no state that
a step could spoil.
