------------------------------ MODULE ShareHost ------------------------------
(***************************************************************************)
(* The single-threaded loop of `ptyroom host` (pty/share): one PTY, a      *)
(* growing and shrinking list of TCP clients, a control socket, a local    *)
(* terminal and a trace.                                                   *)
(*                                                                         *)
(* A tick of the loop is split where the outside world can intervene: pc   *)
(* names the place, rev is the result of the tick's one poll(2) call and   *)
(* is not refreshed before the next tick.  What happens between two system *)
(* calls is one action.                                                    *)
(*                                                                         *)
(* Data are abstracted as follows.  One read of the PTY is one numbered    *)
(* chunk.  A client sends tokens: the hello control, a resize control, a   *)
(* key, or "bad" for whatever makes flush_pending_input return false; how  *)
(* bytes make tokens is not the subject of this module.  The client list   *)
(* is a set: a tick visits the clients in any order.  The status line and  *)
(* its counters are left out.                                              *)
(***************************************************************************)
EXTENDS RoomFrames, Integers, FiniteSets

CONSTANTS
  Client,         \* the TCP connections that may ever be made
  NoClient,       \* no client is being visited
  Cols, Rows,     \* the widths and the heights a terminal can have
  NoSize,         \* the size of a terminal that has not reported one
  Initial,        \* the size the PTY is spawned with
  HostSize,       \* the sizes of the local terminal, NoSize if it has none
  LocalInput,     \* whether the host reads its own stdin
  HelloLen, SizeLen, ChunkLen,  \* bytes of a frame; ChunkLen[n] for chunk n
  MaxBacklog,     \* MAX_CLIENT_BACKLOG_BYTES
  MaxReplay,      \* MAX_JOIN_REPLAY_BYTES
  Script,         \* bound: what clients may send, a set of sequences of tokens
  LocalScript,    \* bound: what the local user may type, likewise
  Agenda,         \* bound: what control connections may ask for, likewise
  MaxOut,         \* bound: chunks the child ever produces
  MaxUnread,      \* capacity of the PTY's output buffer, in chunks
  MaxWaiting,     \* capacity of the PTY's input buffer, in writes
  MaxHistory,     \* bound: the local terminal is not resized after so many events
  World,          \* what may happen outside: "eof", "rst", "exit", "stop"
  Faults          \* the places where a system call may fail

Size == Cols \X Rows
Chunk == 1..MaxOut
Event == {SizeFrame(s) : s \in Size} \cup {Data(n) : n \in Chunk}
Frame == {Hello} \cup Event
Token == {[op |-> o] : o \in {"hello", "bad", "key"}}
           \cup {[op |-> "resize", size |-> s] : s \in Size}
LocalToken == {"key", "detach"}
Request == {"add", "next", "clear", "other"}

ASSUME SizesAssumption ==
  /\ Cols \subseteq Nat \ {0} /\ Rows \subseteq Nat \ {0}
  /\ Initial \in Size /\ NoSize \notin Size
  /\ HostSize \subseteq Size \cup {NoSize}
ASSUME LengthsAssumption ==
  /\ HelloLen \in Nat \ {0} /\ SizeLen \in Nat \ {0}
  /\ ChunkLen \in [Chunk -> Nat \ {0}]
ASSUME BudgetAssumption ==
  /\ MaxBacklog \in Nat /\ MaxReplay \in Nat
  /\ HelloLen + SizeLen + MaxReplay <= MaxBacklog
ASSUME InputAssumption ==
  /\ Script \subseteq Seq(Token) /\ LocalScript \subseteq Seq(LocalToken)
  /\ Agenda \subseteq Seq(Request) /\ LocalInput \in BOOLEAN
  /\ Client \cap {"host", "queue", "cr"} = {} /\ NoClient \notin Client
  /\ IsFiniteSet(Client)
ASSUME BoundsAssumption ==
  /\ MaxOut \in Nat /\ MaxUnread \in Nat /\ MaxWaiting \in Nat
  /\ MaxHistory \in Nat
  /\ World \subseteq {"eof", "rst", "exit", "stop"}
  /\ Faults \subseteq {"head", "ctl", "inject", "poll", "input", "accept", "sync",
                       "stdin", "local", "pty", "finish"}

VARIABLES
  pc,           \* the place in the loop; "done" once the trace is written
  cur,          \* the client being visited
  todo,         \* the clients this tick has still to visit
  rev,          \* what poll(2) returned in this tick
  batch,        \* local tokens, or a queued text, on their way to the PTY
  conn,         \* per connection: "idle", "waiting", "member" or "gone"
  stream,       \* per client, every frame ever queued for it
  backlog,      \* Client.pending_bytes: how much of it is not written yet
  inputOpen, ready, size,   \* Client.input_open, protocol_ready, size
  replay, replayBytes,      \* JoinReplay
  current, hostSize,        \* Session.current_size, host_size
  nread,        \* how many chunks have been read from the PTY
  steps, slot,  \* the TraceBuilder's steps and PendingState's one event
  queue, stdinOpen, shouldEnd,      \* the Session fields of these names
  lost,         \* the queued texts whose injection was answered with an error
  accepted, disconnected, dropped,  \* ShareStats
  typed,        \* everything written to the PTY
  said, heard,  \* per client, the tokens it sent and how many were read
  peer,         \* the other end: "up", "eof", "rst", or "dead" (rst, reported)
  child, unread, taken,   \* the child, its pending output, the input it took
  termSize,     \* the size of the local terminal
  keyed, keysRead, stdinEof,  \* the local input and how much of it was read
  asked, served,              \* the control requests and how many were served
  stop          \* a termination signal arrived, or --max-secs elapsed

loopVars == <<pc, cur, todo, rev, batch>>
clientVars == <<conn, stream, backlog, inputOpen, ready, size>>
replayVars == <<replay, replayBytes>>
ptyVars == <<current, hostSize, nread>>
traceVars == <<steps, slot>>
localVars == <<queue, lost, stdinOpen, shouldEnd>>
statVars == <<accepted, disconnected, dropped>>
socketVars == <<said, heard, peer>>
childVars == <<child, unread, taken>>
deskVars == <<termSize, keyed, keysRead, stdinEof, asked, served, stop>>
hostVars == <<loopVars, clientVars, replayVars, ptyVars, traceVars, localVars,
              statVars, typed>>
envVars == <<socketVars, childVars, deskVars>>
vars == <<hostVars, envVars>>

Running == pc \notin {"done", "failed"}
Members == {c \in Client : conn[c] = "member"}
Broken(c) == peer[c] \in {"rst", "dead"}
\* The recorded events, the one PendingState still holds back included.
History == steps \o slot

FrameLen(f) == CASE f.kind = "hello" -> HelloLen
                 [] f.kind = "size" -> SizeLen
                 [] f.kind = "data" -> ChunkLen[f.chunk]

\* saturating_sub
Monus(m, n) == IF n > m THEN 0 ELSE m - n

-----------------------------------------------------------------------------
(***************************************************************************)
(* The session's size: per axis, the least of the known sizes.             *)
(***************************************************************************)
\* Mutant: the greatest instead of the least.
GreatestMutant(S) == CHOOSE x \in S : \A y \in S : y <= x

Least(S) == CHOOSE x \in S : \A y \in S : x <= y

KnownSizes == ({hostSize} \cup {size[c] : c \in Members}) \ {NoSize}

Desired ==
  IF KnownSizes = {} THEN Initial
  ELSE <<Least({s[1] : s \in KnownSizes}), Least({s[2] : s \in KnownSizes})>>

\* Mutant: the session only ever shrinks.
ShrinkOnlyMutant == Desired[1] < current[1] \/ Desired[2] < current[2]

SizeStale == Desired # current

-----------------------------------------------------------------------------
Quiet == [listener |-> FALSE, output |-> FALSE, hangup |-> FALSE,
          stdin |-> FALSE, input |-> {}, err |-> {}]

Init ==
  /\ pc = "head" /\ cur = NoClient /\ todo = {} /\ rev = Quiet /\ batch = <<>>
  /\ conn = [c \in Client |-> "idle"]
  /\ stream = [c \in Client |-> <<>>]
  /\ backlog = [c \in Client |-> 0]
  /\ inputOpen = [c \in Client |-> FALSE]
  /\ ready = [c \in Client |-> FALSE]
  /\ size = [c \in Client |-> NoSize]
  /\ replay = <<>> /\ replayBytes = 0
  /\ current = Initial /\ hostSize \in HostSize /\ nread = 0
  /\ steps = <<>> /\ slot = <<>>
  /\ queue = <<>> /\ lost = {} /\ stdinOpen = LocalInput /\ shouldEnd = FALSE
  /\ accepted = 0 /\ disconnected = 0 /\ dropped = 0
  /\ typed = <<>>
  /\ said = [c \in Client |-> <<>>] /\ heard = [c \in Client |-> 0]
  /\ peer = [c \in Client |-> "up"]
  /\ child = "running" /\ unread = 0 /\ taken = 0
  /\ termSize = hostSize /\ keyed = <<>> /\ keysRead = 0 /\ stdinEof = FALSE
  /\ asked = <<>> /\ served = 0 /\ stop = FALSE

-----------------------------------------------------------------------------
(***************************************************************************)
(* The top of the loop.                                                    *)
(***************************************************************************)
\* `while !should_stop()`, then refresh_host_size, which looks at the local
\* terminal only every 250 ms.
StartTick ==
  /\ pc = "head" /\ ~shouldEnd /\ ~stop
  /\ hostSize' \in {hostSize, termSize}
  /\ pc' = "ctl"
  /\ UNCHANGED <<cur, todo, rev, batch, clientVars, replayVars, current, nread,
                 traceVars, localVars, statVars, typed, envVars>>

LeaveLoop ==
  /\ pc = "head" /\ (shouldEnd \/ stop)
  /\ pc' = "finish"
  /\ UNCHANGED <<cur, todo, rev, batch, clientVars, replayVars, ptyVars,
                 traceVars, localVars, statVars, typed, envVars>>

\* Session::finish: the held-back event is recorded, the child terminated and
\* the trace written.  The sockets close with the Session, whatever is still
\* queued on them; the client variables keep their last values.
Finish ==
  /\ pc = "finish"
  /\ steps' = History /\ slot' = <<>>
  /\ child' = "exited"
  /\ pc' = "done"
  /\ UNCHANGED <<cur, todo, rev, batch, clientVars, replayVars, ptyVars,
                 localVars, statVars, typed, socketVars, unread, taken, deskVars>>

-----------------------------------------------------------------------------
(***************************************************************************)
(* Writing to the PTY.  write_all blocks while the PTY's input buffer is   *)
(* full; once no process has the other side open, what is written is lost. *)
(***************************************************************************)
Writable == child = "exited" \/ Len(typed) - taken < MaxWaiting

\* Mutant: a short write is started over.
RewriteMutant(from, nth) ==
  /\ Writable
  /\ typed' = typed \o <<[from |-> from, nth |-> nth], [from |-> from, nth |-> nth]>>

Type(from, nth) ==
  /\ Writable
  /\ typed' = Append(typed, [from |-> from, nth |-> nth])

-----------------------------------------------------------------------------
(***************************************************************************)
(* The control socket: one request per connection, served in full before   *)
(* the next.                                                               *)
(***************************************************************************)
Requested == asked[served + 1]

Serve(kind) ==
  /\ pc = "ctl" /\ served < Len(asked) /\ Requested = kind
  /\ served' = served + 1
  /\ UNCHANGED <<cur, todo, rev, clientVars, replayVars, ptyVars, traceVars,
                 lost, stdinOpen, shouldEnd, statVars, typed, socketVars, childVars,
                 termSize, keyed, keysRead, stdinEof, asked, stop>>

\* Mutant: one slot instead of a queue.
ServeAddMutant ==
  /\ Serve("add")
  /\ queue' = <<served + 1>>
  /\ UNCHANGED <<pc, batch>>

\* A queued text is known by the number of the request that added it.
ServeAdd ==
  /\ Serve("add")
  /\ queue' = Append(queue, served + 1)
  /\ UNCHANGED <<pc, batch>>

ServeClear ==
  /\ Serve("clear")
  /\ queue' = <<>>
  /\ UNCHANGED <<pc, batch>>

\* The list request, and everything parse_ctl_command refuses or times out on.
ServeOther ==
  /\ Serve("other")
  /\ UNCHANGED <<pc, batch, queue>>

\* The text leaves the queue before it is written to the PTY.
ServeNext ==
  /\ Serve("next")
  /\ IF queue = <<>> THEN UNCHANGED <<pc, batch, queue>>
     ELSE /\ queue' = Tail(queue)
          /\ batch' = <<[from |-> "queue", nth |-> Head(queue)],
                        [from |-> "cr", nth |-> Head(queue)]>>
          /\ pc' = "inject"

Inject ==
  /\ pc = "inject" /\ batch # <<>>
  /\ Type(Head(batch).from, Head(batch).nth)
  /\ batch' = Tail(batch)
  /\ UNCHANGED <<pc, cur, todo, rev, clientVars, replayVars, ptyVars,
                 traceVars, localVars, statVars, envVars>>

\* Mutant: the carriage return is left for later.
InjectedMutant ==
  /\ pc = "inject" /\ Len(batch) <= 1
  /\ pc' = "ctl"
  /\ UNCHANGED <<cur, todo, rev, batch, clientVars, replayVars, ptyVars,
                 traceVars, localVars, statVars, typed, envVars>>

Injected ==
  /\ pc = "inject" /\ batch = <<>>
  /\ pc' = "ctl"
  /\ UNCHANGED <<cur, todo, rev, batch, clientVars, replayVars, ptyVars,
                 traceVars, localVars, statVars, typed, envVars>>

\* A failed write is answered with an error; the session goes on.
InjectFails ==
  /\ "inject" \in Faults /\ pc = "inject" /\ batch # <<>>
  /\ lost' = lost \cup {Head(batch).nth}
  /\ batch' = <<>> /\ pc' = "ctl"
  /\ UNCHANGED <<cur, todo, rev, clientVars, replayVars, ptyVars, traceVars,
                 queue, stdinOpen, shouldEnd, statVars, typed, envVars>>

CtlDrained ==
  /\ pc = "ctl" /\ served = Len(asked)
  /\ pc' = "poll"
  /\ UNCHANGED <<cur, todo, rev, batch, clientVars, replayVars, ptyVars,
                 traceVars, localVars, statVars, typed, envVars>>

-----------------------------------------------------------------------------
(***************************************************************************)
(* poll(2): which descriptors are ready now.                               *)
(***************************************************************************)
Unheard(c) == heard[c] < Len(said[c])

\* Mutant: waits for more output than there may be.
FullBufferMutant == unread > 1

PtyReadable == unread > 0

Readiness ==
  [listener |-> \E c \in Client : conn[c] = "waiting",
   output |-> PtyReadable,
   hangup |-> child = "exited",
   stdin |-> stdinOpen /\ (keysRead < Len(keyed) \/ stdinEof),
   input |-> {c \in Members : inputOpen[c] /\ (Unheard(c) \/ peer[c] # "up")},
   err |-> {c \in Members : peer[c] = "rst"}]

\* Only a signal with a handler, a termination signal, interrupts poll.
Poll ==
  /\ pc = "poll"
  /\ rev' \in {Readiness} \cup (IF stop THEN {Quiet} ELSE {})
  /\ todo' = Members
  /\ pc' = "clients"
  /\ UNCHANGED <<cur, batch, clientVars, replayVars, ptyVars, traceVars,
                 localVars, statVars, typed, envVars>>

-----------------------------------------------------------------------------
(***************************************************************************)
(* Letting clients go, and giving a frame to all of them.                  *)
(***************************************************************************)
\* Client.disconnect, and the Client is dropped.
Without(gone) ==
  /\ conn' = [c \in Client |-> IF c \in gone THEN "gone" ELSE conn[c]]
  /\ inputOpen' = [c \in Client |-> inputOpen[c] /\ c \notin gone]
  /\ ready' = [c \in Client |-> ready[c] /\ c \notin gone]
  /\ size' = [c \in Client |-> IF c \in gone THEN NoSize ELSE size[c]]

\* Mutant: the budget is not looked at.
UnboundedMutant(f) == {}

\* Client.enqueue refuses a frame that exceeds what is left of the budget.
Overfull(f) == {c \in Members : FrameLen(f) > MaxBacklog - backlog[c]}

\* broadcast: every client queues the frame, if its budget allows, and then
\* writes as much as its socket takes, which may be nothing.
Broadcast(f) ==
  LET gone == Overfull(f) \cup {c \in Members : Broken(c)}
      kept == Members \ gone
  IN /\ Without(gone)
     /\ stream' = [c \in Client |-> IF c \in kept THEN Append(stream[c], f)
                                    ELSE IF c \in gone THEN <<>> ELSE stream[c]]
     /\ \E left \in [kept -> 0..(MaxBacklog + FrameLen(f))] :
          /\ \A c \in kept : left[c] <= backlog[c] + FrameLen(f)
          /\ backlog' = [c \in Client |-> IF c \in kept THEN left[c]
                                          ELSE IF c \in gone THEN 0 ELSE backlog[c]]
     /\ disconnected' = disconnected + Cardinality(gone)
     /\ dropped' = dropped + Cardinality(Overfull(f))
     /\ UNCHANGED accepted

\* Mutant: the held-back event is overwritten.
OverwriteMutant(e) ==
  /\ steps' = steps
  /\ slot' = <<e>>

\* PendingState.replace: the event before e gets its dwell and is recorded.
Record(e) ==
  /\ steps' = steps \o slot
  /\ slot' = <<e>>

-----------------------------------------------------------------------------
(***************************************************************************)
(* process_client_revents, client by client.                               *)
(***************************************************************************)
\* Mutant: a disconnect that is not counted.
UncountedMutant(c) ==
  /\ Without({c})
  /\ stream' = [stream EXCEPT ![c] = <<>>]
  /\ backlog' = [backlog EXCEPT ![c] = 0]
  /\ UNCHANGED statVars

Disconnect(c) ==
  /\ Without({c})
  /\ stream' = [stream EXCEPT ![c] = <<>>]
  /\ backlog' = [backlog EXCEPT ![c] = 0]
  /\ disconnected' = disconnected + 1
  /\ UNCHANGED <<accepted, dropped>>

\* Mutant: the list is walked by index while clients are removed from it.
RevisitMutant(c) ==
  /\ pc = "clients" /\ c \in todo
  /\ todo' = todo
  /\ UNCHANGED <<rev, batch, replayVars, ptyVars, traceVars, localVars, typed, envVars>>

Visit(c) ==
  /\ pc = "clients" /\ c \in todo
  /\ todo' = todo \ {c}
  /\ UNCHANGED <<rev, batch, replayVars, ptyVars, traceVars, localVars, typed, envVars>>

\* POLLERR: the client goes without being read.
VisitErr(c) ==
  /\ Visit(c) /\ c \in rev.err
  /\ Disconnect(c)
  /\ UNCHANGED <<pc, cur>>

\* Mutant: only clients that introduced themselves are read.
DeafMutant(c) == ready[c] /\ c \in rev.input

ToRead(c) == inputOpen[c] /\ c \in rev.input

VisitOther(c) ==
  /\ Visit(c) /\ c \notin rev.err
  /\ cur' = c
  /\ pc' = IF ToRead(c) THEN "input" ELSE "flush"
  /\ UNCHANGED <<clientVars, statVars>>

ClientsVisited ==
  /\ pc = "clients" /\ todo = {}
  /\ rev' = [rev EXCEPT !.input = {}, !.err = {}]
  /\ pc' = "accept"
  /\ UNCHANGED <<cur, todo, batch, clientVars, replayVars, ptyVars,
                 traceVars, localVars, statVars, typed, envVars>>

\* drain_input_to_pty reads until the socket has nothing left.
Hear(op) ==
  /\ pc = "input" /\ Unheard(cur) /\ said[cur][heard[cur] + 1].op = op
  /\ heard' = [heard EXCEPT ![cur] = @ + 1]
  /\ UNCHANGED <<cur, todo, rev, batch, conn, stream, backlog, replayVars, ptyVars,
                 traceVars, localVars, statVars, said, peer, childVars, deskVars>>

\* Mutant: a violation ends the read, but not the input.
ForgivingMutant ==
  /\ pc' = "flush"
  /\ UNCHANGED inputOpen

\* flush_pending_input returned false: no more input from this client.
StopListening ==
  /\ inputOpen' = [inputOpen EXCEPT ![cur] = FALSE]
  /\ pc' = "flush"

HearHello ==
  /\ Hear("hello")
  /\ ready' = [ready EXCEPT ![cur] = TRUE]
  /\ UNCHANGED <<pc, inputOpen, size, typed>>

HearResize ==
  /\ Hear("resize")
  /\ IF ready[cur]
     THEN /\ size' = [size EXCEPT ![cur] = said[cur][heard[cur] + 1].size]
          /\ UNCHANGED <<pc, inputOpen>>
     ELSE StopListening /\ UNCHANGED size
  /\ UNCHANGED <<ready, typed>>

HearKey ==
  /\ Hear("key")
  /\ IF ready[cur]
     THEN Type(cur, heard[cur] + 1) /\ UNCHANGED <<pc, inputOpen>>
     ELSE StopListening /\ UNCHANGED typed
  /\ UNCHANGED <<ready, size>>

HearBad ==
  /\ Hear("bad")
  /\ StopListening
  /\ UNCHANGED <<ready, size, typed>>

\* WouldBlock: all has been read for now.
HearNothing ==
  /\ pc = "input" /\ ~Unheard(cur) /\ peer[cur] = "up"
  /\ pc' = "flush"
  /\ UNCHANGED <<cur, todo, rev, batch, clientVars, replayVars, ptyVars,
                 traceVars, localVars, statVars, typed, envVars>>

\* End of input or a reset.  Reading reports a reset once; poll will not
\* report it again.
HearEnd ==
  /\ pc = "input" /\ ~Unheard(cur) /\ peer[cur] # "up"
  /\ StopListening
  /\ peer' = [peer EXCEPT ![cur] = IF @ = "rst" THEN "dead" ELSE @]
  /\ UNCHANGED <<cur, todo, rev, batch, conn, stream, backlog, ready, size,
                 replayVars, ptyVars, traceVars, localVars, statVars, typed,
                 said, heard, childVars, deskVars>>

\* flush_pending, when there is anything to write.
Flush ==
  /\ pc = "flush" /\ (backlog[cur] = 0 \/ ~Broken(cur))
  /\ \E left \in 0..backlog[cur] : backlog' = [backlog EXCEPT ![cur] = left]
  /\ pc' = "clients" /\ cur' = NoClient
  /\ UNCHANGED <<todo, rev, batch, conn, stream, inputOpen, ready, size,
                 replayVars, ptyVars, traceVars, localVars, statVars, typed, envVars>>

FlushFails ==
  /\ pc = "flush" /\ backlog[cur] > 0 /\ Broken(cur)
  /\ Disconnect(cur)
  /\ pc' = "clients" /\ cur' = NoClient
  /\ UNCHANGED <<todo, rev, batch, replayVars, ptyVars, traceVars, localVars,
                 typed, envVars>>

-----------------------------------------------------------------------------
(***************************************************************************)
(* accept_ready_clients: every waiting connection is accepted, and gets    *)
(* hello, the current size and the replay, if its budget allows.           *)
(***************************************************************************)
\* Mutant: who joins is told the size the PTY was spawned with.
InitialSizeMutant == <<Hello, SizeFrame(Initial)>>
\* Mutant: the size before the hello.
SizeFirstMutant == <<SizeFrame(current), Hello>>

Greeting == <<Hello, SizeFrame(current)>>

Accept(c) ==
  /\ pc = "accept" /\ rev.listener /\ conn[c] = "waiting"
  /\ conn' = [conn EXCEPT ![c] = "member"]
  /\ inputOpen' = [inputOpen EXCEPT ![c] = TRUE]
  /\ LET fits == replayBytes <= MaxBacklog - (HelloLen + SizeLen)
     IN /\ stream' = [stream EXCEPT ![c] = IF fits THEN Greeting \o replay ELSE Greeting]
        /\ backlog' = [backlog EXCEPT ![c] =
                         HelloLen + SizeLen + (IF fits THEN replayBytes ELSE 0)]
  /\ accepted' = accepted + 1
  /\ UNCHANGED <<loopVars, ready, size, replayVars, ptyVars, traceVars, localVars,
                 disconnected, dropped, typed, envVars>>

NoneWaiting ==
  /\ pc = "accept" /\ (rev.listener => \A c \in Client : conn[c] # "waiting")
  /\ rev' = [rev EXCEPT !.listener = FALSE]
  /\ pc' = "sync"
  /\ UNCHANGED <<cur, todo, batch, clientVars, replayVars, ptyVars,
                 traceVars, localVars, statVars, typed, envVars>>

-----------------------------------------------------------------------------
(***************************************************************************)
(* sync_canonical_size: resize the PTY, record it, tell everybody.         *)
(***************************************************************************)
SyncSize ==
  /\ pc = "sync" /\ SizeStale
  /\ current' = Desired
  /\ Record(SizeFrame(Desired))
  /\ Broadcast(SizeFrame(Desired))
  /\ pc' = "stdin"
  /\ UNCHANGED <<cur, todo, rev, batch, replayVars, hostSize, nread, localVars,
                 typed, envVars>>

KeepSize ==
  /\ pc = "sync" /\ ~SizeStale
  /\ pc' = "stdin"
  /\ UNCHANGED <<cur, todo, rev, batch, clientVars, replayVars, ptyVars,
                 traceVars, localVars, statVars, typed, envVars>>

-----------------------------------------------------------------------------
(***************************************************************************)
(* Local input: one read, then its tokens one by one.  Ctrl-] d ends the   *)
(* session and the rest of what was read is lost.                          *)
(***************************************************************************)
ReadStdin ==
  /\ pc = "stdin" /\ stdinOpen /\ rev.stdin
  /\ IF keysRead < Len(keyed)
     THEN /\ batch' = [i \in 1..(Len(keyed) - keysRead) |->
                         [from |-> keyed[keysRead + i], nth |-> keysRead + i]]
          /\ keysRead' = Len(keyed)
          /\ pc' = "local"
          /\ UNCHANGED stdinOpen
     ELSE /\ stdinOpen' = FALSE
          /\ pc' = "pty"
          /\ UNCHANGED <<batch, keysRead>>
  /\ UNCHANGED <<cur, todo, rev, clientVars, replayVars, ptyVars, traceVars,
                 queue, lost, shouldEnd, statVars, typed, socketVars, childVars,
                 termSize, keyed, stdinEof, asked, served, stop>>

SkipStdin ==
  /\ pc = "stdin" /\ ~(stdinOpen /\ rev.stdin)
  /\ pc' = "pty"
  /\ UNCHANGED <<cur, todo, rev, batch, clientVars, replayVars, ptyVars,
                 traceVars, localVars, statVars, typed, envVars>>

LocalKey ==
  /\ pc = "local" /\ batch # <<>> /\ Head(batch).from = "key"
  /\ Type("host", Head(batch).nth)
  /\ batch' = Tail(batch)
  /\ UNCHANGED <<pc, cur, todo, rev, clientVars, replayVars, ptyVars,
                 traceVars, localVars, statVars, envVars>>

LocalDetach ==
  /\ pc = "local" /\ batch # <<>> /\ Head(batch).from = "detach"
  /\ shouldEnd' = TRUE
  /\ batch' = <<>>
  /\ UNCHANGED <<pc, cur, todo, rev, clientVars, replayVars, ptyVars,
                 traceVars, queue, lost, stdinOpen, statVars, typed, envVars>>

LocalDone ==
  /\ pc = "local" /\ batch = <<>>
  /\ pc' = "pty"
  /\ UNCHANGED <<cur, todo, rev, batch, clientVars, replayVars, ptyVars,
                 traceVars, localVars, statVars, typed, envVars>>

-----------------------------------------------------------------------------
(***************************************************************************)
(* handle_pty_revents: at most one read, and the end if the PTY hung up.   *)
(***************************************************************************)
\* Mutant: a hang-up is left to the next tick.
IgnoreHangupMutant ==
  /\ pc' = "head"
  /\ rev' = Quiet

\* What poll returned is forgotten with the tick.
EndTick ==
  /\ pc' = IF rev.hangup THEN "finish" ELSE "head"
  /\ rev' = Quiet

\* Mutant: the new frame goes where the old ones are taken from.
PushFrontMutant ==
  /\ pc = "pty" /\ rev.output
  /\ nread' = nread + 1 /\ unread' = unread - 1
  /\ replay' = <<Data(nread + 1)>> \o replay
  /\ replayBytes' = replayBytes + FrameLen(Data(nread + 1))
  /\ pc' = "evict"
  /\ UNCHANGED <<cur, todo, rev, batch, clientVars, current, hostSize, traceVars,
                 localVars, statVars, typed, socketVars, child, taken, deskVars>>

\* JoinReplay.remember starts by appending the frame.
ReadPty ==
  /\ pc = "pty" /\ rev.output
  /\ nread' = nread + 1 /\ unread' = unread - 1
  /\ replay' = Append(replay, Data(nread + 1))
  /\ replayBytes' = replayBytes + FrameLen(Data(nread + 1))
  /\ pc' = "evict"
  /\ UNCHANGED <<cur, todo, rev, batch, clientVars, current, hostSize, traceVars,
                 localVars, statVars, typed, socketVars, child, taken, deskVars>>

SkipPty ==
  /\ pc = "pty" /\ ~rev.output
  /\ EndTick
  /\ UNCHANGED <<cur, todo, batch, clientVars, replayVars, ptyVars,
                 traceVars, localVars, statVars, typed, envVars>>

\* Mutant: the newest frame makes room instead of the oldest.
EvictNewestMutant ==
  /\ pc = "evict" /\ replayBytes > MaxReplay
  /\ replay' = SubSeq(replay, 1, Len(replay) - 1)
  /\ replayBytes' = Monus(replayBytes, FrameLen(replay[Len(replay)]))
  /\ UNCHANGED <<loopVars, clientVars, ptyVars, traceVars, localVars, statVars,
                 typed, envVars>>

\* ... and goes on by dropping the oldest frames until the rest fits.
Evict ==
  /\ pc = "evict" /\ replayBytes > MaxReplay
  /\ IF replay = <<>> THEN replayBytes' = 0 /\ UNCHANGED replay
     ELSE /\ replay' = Tail(replay)
          /\ replayBytes' = Monus(replayBytes, FrameLen(Head(replay)))
  /\ UNCHANGED <<loopVars, clientVars, ptyVars, traceVars, localVars, statVars,
                 typed, envVars>>

PublishOutput ==
  /\ pc = "evict" /\ replayBytes <= MaxReplay
  /\ Broadcast(Data(nread))
  /\ Record(Data(nread))
  /\ EndTick
  /\ UNCHANGED <<cur, todo, batch, replayVars, ptyVars, localVars, typed, envVars>>

-----------------------------------------------------------------------------
\* Every error a tick or finish propagates: the Session is dropped and there
\* is no trace.
SessionError ==
  /\ pc \in Faults \ {"inject"}
  /\ pc = "accept" => rev.listener
  /\ pc = "stdin" => stdinOpen /\ rev.stdin
  /\ pc = "pty" => rev.output
  /\ pc' = "failed"
  /\ child' = "exited"
  /\ UNCHANGED <<cur, todo, rev, batch, clientVars, replayVars, ptyVars, traceVars,
                 localVars, statVars, typed, socketVars, unread, taken, deskVars>>

HostStep ==
  \/ StartTick \/ LeaveLoop \/ Finish
  \/ ServeAdd \/ ServeClear \/ ServeOther \/ ServeNext
  \/ Inject \/ Injected \/ InjectFails \/ CtlDrained
  \/ Poll
  \/ \E c \in Client : VisitErr(c) \/ VisitOther(c)
  \/ ClientsVisited
  \/ HearHello \/ HearResize \/ HearKey \/ HearBad \/ HearNothing \/ HearEnd
  \/ Flush \/ FlushFails
  \/ \E c \in Client : Accept(c)
  \/ NoneWaiting
  \/ SyncSize \/ KeepSize
  \/ ReadStdin \/ SkipStdin \/ LocalKey \/ LocalDetach \/ LocalDone
  \/ ReadPty \/ SkipPty \/ Evict \/ PublishOutput
  \/ SessionError

-----------------------------------------------------------------------------
(***************************************************************************)
(* The world around the host.                                              *)
(***************************************************************************)
Connect(c) ==
  /\ Running /\ conn[c] = "idle"
  /\ conn' = [conn EXCEPT ![c] = "waiting"]
  /\ UNCHANGED <<loopVars, stream, backlog, inputOpen, ready, size, replayVars,
                 ptyVars, traceVars, localVars, statVars, typed, envVars>>

Connected(c) == conn[c] \in {"waiting", "member"}

\* What may follow s according to one of the scripts.
Following(s, scripts) ==
  {t[Len(s) + 1] : t \in {u \in scripts : Len(s) < Len(u) /\ s = SubSeq(u, 1, Len(s))}}

Say(c) ==
  /\ Running /\ Connected(c) /\ peer[c] = "up"
  /\ \E t \in Following(said[c], Script) : said' = [said EXCEPT ![c] = Append(@, t)]
  /\ UNCHANGED <<hostVars, heard, peer, childVars, deskVars>>

\* The client closes its sending half, or all of it, or the connection breaks.
HangUp(c) ==
  /\ Running /\ Connected(c)
  /\ \/ peer[c] = "up" /\ "eof" \in World /\ peer' = [peer EXCEPT ![c] = "eof"]
     \/ peer[c] \in {"up", "eof"} /\ "rst" \in World /\ peer' = [peer EXCEPT ![c] = "rst"]
  /\ UNCHANGED <<hostVars, said, heard, childVars, deskVars>>

ChildWrites ==
  /\ Running /\ child = "running" /\ unread < MaxUnread /\ nread + unread < MaxOut
  /\ unread' = unread + 1
  /\ UNCHANGED <<hostVars, socketVars, child, taken, deskVars>>

ChildReads ==
  /\ Running /\ child = "running" /\ taken < Len(typed)
  /\ taken' = taken + 1
  /\ UNCHANGED <<hostVars, socketVars, child, unread, deskVars>>

ChildExits ==
  /\ Running /\ "exit" \in World /\ child = "running"
  /\ child' = "exited"
  /\ UNCHANGED <<hostVars, socketVars, unread, taken, deskVars>>

ResizeTerminal ==
  /\ Running /\ termSize # NoSize /\ Len(History) < MaxHistory
  /\ termSize' \in HostSize \ {NoSize}
  /\ UNCHANGED <<hostVars, socketVars, childVars, keyed, keysRead, stdinEof,
                 asked, served, stop>>

Press ==
  /\ Running /\ ~stdinEof
  /\ \/ \E t \in Following(keyed, LocalScript) : keyed' = Append(keyed, t) /\ UNCHANGED stdinEof
     \/ "eof" \in World /\ stdinEof' = TRUE /\ UNCHANGED keyed
  /\ UNCHANGED <<hostVars, socketVars, childVars, termSize, keysRead, asked, served, stop>>

Ask ==
  /\ Running
  /\ \E r \in Following(asked, Agenda) : asked' = Append(asked, r)
  /\ UNCHANGED <<hostVars, socketVars, childVars, termSize, keyed, keysRead,
                 stdinEof, served, stop>>

Stop ==
  /\ Running /\ "stop" \in World /\ ~stop
  /\ stop' = TRUE
  /\ UNCHANGED <<hostVars, socketVars, childVars, termSize, keyed, keysRead,
                 stdinEof, asked, served>>

EnvStep ==
  \/ \E c \in Client : Connect(c) \/ Say(c) \/ HangUp(c)
  \/ ChildWrites \/ ChildReads \/ ChildExits
  \/ ResizeTerminal \/ Press \/ Ask \/ Stop

\* The session is over.
Over == ~Running /\ UNCHANGED vars

Next == HostStep \/ EnvStep \/ Over

Spec == Init /\ [][Next]_vars

-----------------------------------------------------------------------------
(***************************************************************************)
(* Type correctness.                                                       *)
(***************************************************************************)
Place == {"head", "ctl", "inject", "poll", "clients", "input", "flush", "accept",
          "sync", "stdin", "local", "pty", "evict", "finish", "done", "failed"}
Revents == [listener : BOOLEAN, output : BOOLEAN, hangup : BOOLEAN,
            stdin : BOOLEAN, input : SUBSET Client, err : SUBSET Client]
Source == Client \cup {"host", "queue", "cr"}
Typing == [from : Source, nth : Nat]
Batched == [from : {"queue", "cr", "key", "detach"}, nth : Nat]

\* The types of the variables, in groups.
LoopTypes ==
  /\ pc \in Place /\ cur \in Client \cup {NoClient}
  /\ todo \in SUBSET Client /\ rev \in Revents

ClientTypes ==
  /\ conn \in [Client -> {"idle", "waiting", "member", "gone"}]
  /\ stream \in [Client -> Seq(Frame)]
  /\ backlog \in [Client -> Nat]
  /\ inputOpen \in [Client -> BOOLEAN] /\ ready \in [Client -> BOOLEAN]
  /\ size \in [Client -> Size \cup {NoSize}]
  /\ accepted \in Nat /\ disconnected \in Nat /\ dropped \in Nat

OutputTypes ==
  /\ replay \in Seq(Frame) /\ replayBytes \in Nat
  /\ current \in Size /\ hostSize \in Size \cup {NoSize} /\ nread \in Nat
  /\ steps \in Seq(Event) /\ slot \in Seq(Event)
  /\ child \in {"running", "exited"} /\ unread \in Nat /\ nread + unread <= MaxOut
  /\ termSize \in Size \cup {NoSize}

InputTypes ==
  /\ queue \in Seq(Nat) /\ lost \in SUBSET Nat
  /\ typed \in Seq(Typing) /\ taken \in Nat
  /\ said \in [Client -> Seq(Token)] /\ heard \in [Client -> Nat]
  /\ peer \in [Client -> {"up", "eof", "rst", "dead"}]

LocalTypes ==
  /\ batch \in Seq(Batched)
  /\ stdinOpen \in BOOLEAN /\ shouldEnd \in BOOLEAN
  /\ keyed \in Seq(LocalToken) /\ keysRead \in Nat /\ stdinEof \in BOOLEAN
  /\ asked \in Seq(Request) /\ served \in Nat /\ stop \in BOOLEAN

\* What the place in the loop says of the rest: a client is being visited
\* where the code has one in hand, those still to visit are in the list, only
\* queued texts are injected, and output that was reported is there.
PlaceOK ==
  /\ pc \in {"input", "flush"} => cur \in Members \ todo
  /\ pc \in {"clients", "input", "flush"} => todo \subseteq Members
  /\ pc = "inject" => batch \in Seq([from : {"queue", "cr"}, nth : Nat])
  /\ rev.output /\ pc \notin {"evict", "failed"} => unread > 0
  /\ pc = "evict" => nread > 0

\* Every variable has its type.
TypeOK ==
  LoopTypes /\ ClientTypes /\ OutputTypes /\ InputTypes /\ LocalTypes /\ PlaceOK

-----------------------------------------------------------------------------
(***************************************************************************)
(* Output.                                                                 *)
(***************************************************************************)
\* The chunks that have reached the history: all that were read, but for the
\* one in hand while the replay makes room for it.
Published == IF pc = "evict" THEN nread - 1 ELSE nread

\* The chunks in s have no gap, no repetition and no inversion, and end with n.
UnbrokenTo(s, n) ==
  \A i \in DOMAIN s : IsData(s[i]) =>
    /\ s[i].chunk <= n
    /\ s[i].chunk = n \/ \E j \in DOMAIN s : j > i /\ s[j] = Data(s[i].chunk + 1)
    /\ \A j \in DOMAIN s : j > i /\ IsData(s[j]) => s[j].chunk > s[i].chunk

\* Whatever was queued for a client, replay first and broadcasts after it, is
\* an unbroken run of output up to the newest: no chunk is missing between the
\* replay and the first broadcast, none comes twice, however slow the client.
StreamsUnbroken == \A c \in Members : UnbrokenTo(stream[c], Published)

\* The size a client was told last is the size of the PTY, also for a client
\* accepted just before the size changes.
EverybodyKnowsTheSize == \A c \in Members : LastSizeIs(stream[c], current)

\* The recording (with the event PendingState holds back) has every chunk that
\* was read, in order, from the first on, and its last resize is the PTY's size.
HistoryComplete ==
  /\ UnbrokenTo(History, Published)
  /\ Published > 0 => \E i \in DOMAIN History : History[i] = Data(1)
  /\ \/ LastSizeIs(History, current)
     \/ current = Initial /\ \A i \in DOMAIN History : ~IsSize(History[i])

\* The replay is the most recent output and nothing else.
ReplayRecent == replay = DataAfter(nread - Len(replay), nread)

\* No client is owed more than its budget, and whoever joins can be sent the
\* whole replay.
WithinBudget ==
  /\ \A c \in Client : backlog[c] <= MaxBacklog
  /\ pc # "evict" => replayBytes <= MaxReplay

\* The summary adds up: everybody accepted is still here or was disconnected,
\* and a backlog drop is a disconnect.
CountersAddUp ==
  /\ accepted = Cardinality(Members) + disconnected
  /\ dropped <= disconnected

-----------------------------------------------------------------------------
(***************************************************************************)
(* Size.                                                                   *)
(***************************************************************************)
Fits(s, t) == t # NoSize => s[1] <= t[1] /\ s[2] <= t[2]

\* From the synchronisation to the end of the tick, while output is read and
\* given out, no terminal is smaller than the PTY: neither a client's nor the
\* host's own, whatever was resized, accepted or dropped earlier in the tick.
FitsEverybody ==
  pc \in {"stdin", "local", "pty", "evict"} =>
    /\ Fits(current, hostSize)
    /\ \A c \in Members : Fits(current, size[c])

-----------------------------------------------------------------------------
(***************************************************************************)
(* Input.                                                                  *)
(***************************************************************************)
\* Token n is what ended client c's input: the first that the protocol does
\* not allow where it stands.
Refused(c, n) ==
  \/ said[c][n].op = "bad"
  \/ said[c][n].op # "hello" /\ \A m \in 1..(n - 1) : said[c][m].op # "hello"

Admitted(c, n) ==
  /\ n <= heard[c] /\ said[c][n].op = "key"
  /\ \A m \in 1..n : ~Refused(c, m)

\* What a client gets typed is exactly its keys after its hello and before its
\* first violation, as far as they were read: nothing typed by a client that
\* did not introduce itself, nothing after a violation, nothing lost before.
InputAdmitted ==
  \A c \in Client : \A n \in DOMAIN said[c] :
    Admitted(c, n) <=> \E i \in DOMAIN typed : typed[i] = [from |-> c, nth |-> n]

\* Everybody's keys reach the PTY in the order they were sent, and once.
InputInOrder ==
  \A i, j \in DOMAIN typed :
    i < j /\ typed[i].from = typed[j].from => typed[i].nth < typed[j].nth

\* A queued text is followed by its carriage return with nothing in between,
\* neither a client's keys nor the local user's, unless writing it failed.
TextThenReturn ==
  \A i \in DOMAIN typed : typed[i].from = "queue" /\ typed[i].nth \notin lost =>
    IF i < Len(typed) THEN typed[i + 1] = [from |-> "cr", nth |-> typed[i].nth]
    ELSE batch # <<>>

\* No text vanishes: an added one waits in the queue or is being injected; or it
\* was injected, was reported as failed, or there was a clear after it.  (That
\* none is injected twice is in InputInOrder.)
QueueConserved ==
  \A n \in 1..served : asked[n] = "add" =>
    \/ \E i \in DOMAIN queue : queue[i] = n
    \/ \E i \in DOMAIN batch : batch[i] = [from |-> "cr", nth |-> n]
    \/ \E i \in DOMAIN typed : typed[i] = [from |-> "cr", nth |-> n]
    \/ n \in lost
    \/ \E m \in (n + 1)..served : asked[m] = "clear"

-----------------------------------------------------------------------------
(***************************************************************************)
(* What the documents say and the code does not do.                        *)
(***************************************************************************)
\* docs/ptyroom-protocol.md: "Raw input, resize controls, unsupported versions,
\* and oversized unfinished controls disconnect the client."  No client that
\* typed before its hello is still there when the tick is over.
ViolatorRemoved ==
  pc = "head" => \A c \in Members : \A n \in 1..heard[c] : ~Refused(c, n)

\* docs/ptyroom-protocol.md: "PTY EOF, PTY error, or `--max-secs` ends the
\* session.  At session end, `ptyroom host` terminates the child process and
\* writes the trace."  A session that is over has written its trace.
EveryEndWritesTrace == ~Running => pc = "done"

\* docs/shared-terminals.md: "PTY output is length-framed, broadcast to all
\* clients, and recorded".  When the child has ended the session, nothing it
\* wrote before is left unread.
FinalOutputRecorded == pc = "done" /\ ~stop /\ ~shouldEnd => unread = 0

-----------------------------------------------------------------------------
(***************************************************************************)
(* Progress.  The loop runs whenever no system call blocks it, and the     *)
(* child takes its input.  Nobody else owes anything: clients may stop     *)
(* reading for ever (backlog), never introduce themselves, never leave.    *)
(***************************************************************************)
FairSpec == Spec /\ WF_vars(HostStep) /\ WF_vars(ChildReads)

\* A termination signal, --max-secs or the child's exit ends the session,
\* whatever the loop is doing and whoever does not read.
SessionEnds == stop \/ child = "exited" ~> ~Running

\* Clients that do not read cannot hold up the PTY: all that the child writes
\* is published, unless the session ends.
OutputPublished ==
  \A n \in Chunk : (nread + unread >= n) ~> (Published >= n \/ ~Running)

\* A connection is accepted, and what a listened-to client sends is heard.
ClientsServed ==
  \A c \in Client :
    /\ conn[c] = "waiting" ~> (conn[c] # "waiting" \/ ~Running)
    /\ (inputOpen[c] /\ Unheard(c)) ~> (~inputOpen[c] \/ ~Unheard(c) \/ ~Running)

\* The PTY follows the participants: when the smallest one leaves or grows, it
\* grows, even if giving out the new size costs the room another client.
SizeFollows == (Desired # current) ~> (Desired = current \/ ~Running)
=============================================================================
