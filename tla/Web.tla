--------------------------------- MODULE Web ---------------------------------
(***************************************************************************)
(* ptyweb: one WebSocket bridged to one room.  A request is authorized,    *)
(* the room is connected and its hello awaited, and then four tasks pass   *)
(* messages through bounded channels until the first of them ends; the     *)
(* others are aborted wherever they are.                                   *)
(*                                                                         *)
(* Host events are whole (Join has their decoding): hello, size, output.   *)
(* A message of the browser is one frame: keys, a resize, text that is not *)
(* a resize, or a close.                                                   *)
(***************************************************************************)
EXTENDS Naturals, Sequences, SequencesExt, FiniteSets, Sieve

CONSTANTS Scenarios,     \* what host and browser will send, and the configuration
          CHANNEL_DEPTH, \* of the channels to the browser and to the host
          RESIZE_DEPTH,  \* of the channel of sizes
          MAX_RESIZE_DIM,
          Buffered,      \* messages a socket takes before its reader reads
          MaxRead        \* events one read can complete

OutputEvent   == [kind : {"output"}, n : Nat]
HostEvent     == OutputEvent \cup [kind : {"hello"}, version : Nat] \cup [kind : {"size"}]
KeyMessage    == [kind : {"keys"}, n : Nat]
ResizeMessage == [kind : {"resize"}, cols : Nat, rows : Nat]
BrowserMessage == KeyMessage \cup ResizeMessage \cup [kind : {"text", "close"}]

ASSUME ScenariosAssumption ==
  \A s \in Scenarios : /\ s.host \in Seq(HostEvent) /\ s.browser \in Seq(BrowserMessage)
                       /\ s.readOnly \in BOOLEAN

VARIABLES scenario,
          phase,      \* request, connecting, shaking, bridged, ending, closed or refused
          running,    \* the tasks of the JoinSet that have not ended
          fromHost, hostOpen,        \* what the host has still to send; has it closed?
          pending,    \* pending_output
          events,     \* of the last push, not yet handled
          gotHello,
          toBrowser, keys, resizes,  \* ws_tx, pty_tx, resize_tx
          toWs, toTcp, fromWs,       \* what a task holds across an await
          sink, seen,                \* given to the browser's socket; read by the browser
          fromBrowser, browserOpen,  \* what the browser has still to send; is it there?
          tcpOut, heard              \* given to the host's socket; read by the host

host    == <<fromHost, hostOpen, tcpOut, heard>>
browser == <<fromBrowser, browserOpen, sink, seen>>
inside  == <<pending, events, gotHello, toBrowser, keys, resizes, toWs, toTcp, fromWs>>
vars    == <<scenario, phase, running, host, browser, inside>>

Tasks == {"tcp_to_ws", "tcp_writer", "ws_writer", "ws_reader"}

Output(e) == e.kind = "output"
Typed(m)  == m.kind = "keys"
Sized(m)  == m.kind = "resize"
Hello     == [kind |-> "hello"]
Status    == [kind |-> "status"]
Closing   == [kind |-> "close"]

\* Loopback peers need no secret when none is configured; otherwise the header decides.
Authorize(s) ==
  IF s.secret = "none"
  THEN IF s.loopback THEN 200 ELSE 403
  ELSE CASE s.header = "none"   -> 401
         [] s.header = s.secret -> 200
         [] OTHER               -> 403

\* The sizes of the browser that are passed on.
Acceptable(m) == /\ m.cols \in 1..MAX_RESIZE_DIM
                 /\ m.rows \in 1..MAX_RESIZE_DIM

Init ==
  /\ scenario \in Scenarios
  /\ phase = "request" /\ running = {}
  /\ fromHost = scenario.host /\ hostOpen = TRUE
  /\ fromBrowser = scenario.browser /\ browserOpen = TRUE
  /\ pending = <<>> /\ events = <<>> /\ gotHello = FALSE
  /\ toBrowser = <<>> /\ keys = <<>> /\ resizes = <<>>
  /\ toWs = <<>> /\ toTcp = <<>> /\ fromWs = <<>>
  /\ sink = <<>> /\ seen = <<>> /\ tcpOut = <<>> /\ heard = <<>>

(***************************************************************************)
(* The handshake                                                           *)
(***************************************************************************)
Request ==
  /\ phase = "request"
  /\ phase' = IF Authorize(scenario) = 200 THEN "connecting" ELSE "refused"
  /\ UNCHANGED <<scenario, running, host, browser, inside>>

Connect ==
  /\ phase = "connecting"
  /\ \/ phase' = "shaking" /\ tcpOut' = <<Hello>> /\ UNCHANGED sink
     \/ phase' = "closed" /\ sink' = <<Closing>> /\ UNCHANGED tcpOut   \* 1011
  /\ UNCHANGED <<scenario, running, fromHost, hostOpen, heard, fromBrowser, browserOpen, seen, inside>>

\* Mutant: the handshake is over at the hello.
UpToHelloMutant(batch) ==
  Only(SubSeq(batch, 1, SelectInSeq(batch, LAMBDA e : e.kind = "hello")), OutputEvent)

\* Everything in one push is looked at, also what follows the hello.
Leftover(batch) == Only(batch, OutputEvent)

ReadHello ==
  /\ phase = "shaking" /\ ~gotHello /\ fromHost # <<>>
  /\ \E n \in 1..MaxRead :
       /\ n <= Len(fromHost)
       /\ LET batch == SubSeq(fromHost, 1, n)
              hellos == {i \in 1..n : batch[i].kind = "hello"}
          IN /\ fromHost' = SubSeq(fromHost, n + 1, Len(fromHost))
             /\ pending' = pending \o Leftover(batch)
             /\ IF \E i \in hellos : batch[i].version # 1
                THEN phase' = "closed" /\ sink' = <<Closing>> /\ UNCHANGED gotHello
                ELSE gotHello' = (hellos # {}) /\ UNCHANGED <<phase, sink>>
  /\ UNCHANGED <<scenario, running, hostOpen, tcpOut, heard, fromBrowser, browserOpen, seen,
                 events, toBrowser, keys, resizes, toWs, toTcp, fromWs>>

NoHello ==
  /\ phase = "shaking" /\ ~gotHello /\ fromHost = <<>> /\ ~hostOpen
  /\ phase' = "closed" /\ sink' = <<Closing>>
  /\ UNCHANGED <<scenario, running, host, fromBrowser, browserOpen, seen, inside>>

\* The status frame goes first; then the four tasks are spawned.
Bridge ==
  /\ phase = "shaking" /\ gotHello
  /\ phase' = "bridged" /\ running' = Tasks
  /\ toBrowser' = <<Status>>
  /\ UNCHANGED <<scenario, host, browser, pending, events, gotHello, keys, resizes, toWs, toTcp, fromWs>>

(***************************************************************************)
(* tcp_to_ws_loop                                                          *)
(***************************************************************************)
On(t)   == phase \in {"bridged", "ending"} /\ t \in running
Ends(t) == running' = running \ {t}

\* The next message for the browser: what the handshake left over comes first.
Owed == pending \o events

Handled == IF pending # <<>>
           THEN pending' = Tail(pending) /\ UNCHANGED events
           ELSE events' = Tail(events) /\ UNCHANGED pending

Forward ==
  /\ On("tcp_to_ws") /\ Owed # <<>>
  /\ LET e == Head(Owed)
     IN CASE e.kind = "hello" ->
               Ends("tcp_to_ws") /\ UNCHANGED <<pending, events, toBrowser>>
          [] e.kind = "size" ->
               Handled /\ UNCHANGED <<running, toBrowser>>
          [] Output(e) /\ "ws_writer" \notin running ->
               Ends("tcp_to_ws") /\ UNCHANGED <<pending, events, toBrowser>>
          [] OTHER ->
               /\ Len(toBrowser) < CHANNEL_DEPTH
               /\ toBrowser' = Append(toBrowser, e)
               /\ Handled /\ UNCHANGED running
  /\ UNCHANGED <<scenario, phase, host, browser, gotHello, keys, resizes, toWs, toTcp, fromWs>>

ReadHost ==
  /\ On("tcp_to_ws") /\ Owed = <<>> /\ fromHost # <<>>
  /\ \E n \in 1..MaxRead :
       /\ n <= Len(fromHost)
       /\ events' = SubSeq(fromHost, 1, n)
       /\ fromHost' = SubSeq(fromHost, n + 1, Len(fromHost))
  /\ UNCHANGED <<scenario, phase, running, hostOpen, tcpOut, heard, browser,
                 pending, gotHello, toBrowser, keys, resizes, toWs, toTcp, fromWs>>

HostEnds ==
  /\ On("tcp_to_ws") /\ Owed = <<>> /\ fromHost = <<>> /\ ~hostOpen
  /\ Ends("tcp_to_ws")
  /\ UNCHANGED <<scenario, phase, host, browser, inside>>

(***************************************************************************)
(* ws_writer_loop                                                          *)
(***************************************************************************)
TakeForBrowser ==
  /\ On("ws_writer") /\ toWs = <<>> /\ toBrowser # <<>>
  /\ toWs' = <<Head(toBrowser)>> /\ toBrowser' = Tail(toBrowser)
  /\ UNCHANGED <<scenario, phase, running, host, browser, pending, events, gotHello, keys,
                 resizes, toTcp, fromWs>>

SendToBrowser ==
  /\ On("ws_writer") /\ toWs # <<>>
  /\ IF browserOpen
     THEN /\ Len(sink) < Buffered
          /\ sink' = sink \o toWs /\ toWs' = <<>> /\ UNCHANGED running
     ELSE Ends("ws_writer") /\ UNCHANGED <<sink, toWs>>
  /\ UNCHANGED <<scenario, phase, host, fromBrowser, browserOpen, seen, pending, events,
                 gotHello, toBrowser, keys, resizes, toTcp, fromWs>>

\* The sender is gone and the channel is drained: say goodbye.
SayClose ==
  /\ On("ws_writer") /\ toWs = <<>> /\ toBrowser = <<>> /\ "tcp_to_ws" \notin running
  /\ Ends("ws_writer")
  /\ IF browserOpen
     THEN Len(sink) < Buffered /\ sink' = Append(sink, Closing)
     ELSE UNCHANGED sink
  /\ UNCHANGED <<scenario, phase, host, fromBrowser, browserOpen, seen, inside>>

(***************************************************************************)
(* ws_reader_loop                                                          *)
(***************************************************************************)
ReadBrowser ==
  /\ On("ws_reader") /\ fromWs = <<>> /\ fromBrowser # <<>>
  /\ LET m == Head(fromBrowser)
     IN /\ fromBrowser' = Tail(fromBrowser)
        /\ IF m.kind = "close"
           THEN Ends("ws_reader") /\ UNCHANGED fromWs
           ELSE /\ UNCHANGED running
                /\ fromWs' = IF ~scenario.readOnly /\ (Typed(m) \/ (Sized(m) /\ Acceptable(m)))
                             THEN <<m>> ELSE <<>>
  /\ UNCHANGED <<scenario, phase, host, browserOpen, sink, seen, pending, events, gotHello,
                 toBrowser, keys, resizes, toWs, toTcp>>

BrowserEnds ==
  /\ On("ws_reader") /\ fromWs = <<>> /\ fromBrowser = <<>> /\ ~browserOpen
  /\ Ends("ws_reader")
  /\ UNCHANGED <<scenario, phase, host, browser, inside>>

\* Mutant: try_send, which drops what does not fit.
DropWhenFullMutant ==
  /\ On("ws_reader") /\ fromWs # <<>> /\ fromWs' = <<>>
  /\ keys' = IF Typed(fromWs[1]) /\ Len(keys) < CHANNEL_DEPTH THEN keys \o fromWs ELSE keys
  /\ resizes' = IF Sized(fromWs[1]) /\ Len(resizes) < RESIZE_DEPTH THEN resizes \o fromWs ELSE resizes
  /\ UNCHANGED <<scenario, phase, running, host, browser, pending, events, gotHello, toBrowser, toWs, toTcp>>

PassOn ==
  /\ On("ws_reader") /\ fromWs # <<>>
  /\ CASE "tcp_writer" \notin running ->
            Ends("ws_reader") /\ UNCHANGED <<fromWs, keys, resizes>>
       [] "tcp_writer" \in running /\ Typed(fromWs[1]) ->
            /\ Len(keys) < CHANNEL_DEPTH
            /\ keys' = keys \o fromWs /\ fromWs' = <<>> /\ UNCHANGED <<running, resizes>>
       [] "tcp_writer" \in running /\ Sized(fromWs[1]) ->
            /\ Len(resizes) < RESIZE_DEPTH
            /\ resizes' = resizes \o fromWs /\ fromWs' = <<>> /\ UNCHANGED <<running, keys>>
  /\ UNCHANGED <<scenario, phase, host, browser, pending, events, gotHello, toBrowser, toWs, toTcp>>

(***************************************************************************)
(* tcp_writer_loop: select! takes either channel that has something        *)
(***************************************************************************)
TakeKeys ==
  /\ On("tcp_writer") /\ toTcp = <<>> /\ keys # <<>>
  /\ toTcp' = <<Head(keys)>> /\ keys' = Tail(keys)
  /\ UNCHANGED <<scenario, phase, running, host, browser, pending, events, gotHello, toBrowser,
                 resizes, toWs, fromWs>>

TakeResize ==
  /\ On("tcp_writer") /\ toTcp = <<>> /\ resizes # <<>>
  /\ toTcp' = <<Head(resizes)>> /\ resizes' = Tail(resizes)
  /\ UNCHANGED <<scenario, phase, running, host, browser, pending, events, gotHello, toBrowser,
                 keys, toWs, fromWs>>

SendToHost ==
  /\ On("tcp_writer") /\ toTcp # <<>>
  /\ IF hostOpen
     THEN /\ Len(tcpOut) < Buffered
          /\ tcpOut' = tcpOut \o toTcp /\ toTcp' = <<>> /\ UNCHANGED running
     ELSE Ends("tcp_writer") /\ UNCHANGED <<tcpOut, toTcp>>
  /\ UNCHANGED <<scenario, phase, fromHost, hostOpen, heard, browser, pending, events, gotHello,
                 toBrowser, keys, resizes, toWs, fromWs>>

\* recv() returns None on whichever channel is drained first.
ReaderGone ==
  /\ On("tcp_writer") /\ toTcp = <<>> /\ "ws_reader" \notin running
  /\ keys = <<>> \/ resizes = <<>>
  /\ Ends("tcp_writer")
  /\ UNCHANGED <<scenario, phase, host, browser, inside>>

(***************************************************************************)
(* bridge_socket after the spawns                                          *)
(***************************************************************************)
\* Mutant: all four tasks are waited for before any is aborted.
JoinAllMutant ==
  /\ phase = "bridged" /\ running = {}
  /\ phase' = "ending"
  /\ UNCHANGED <<scenario, running, host, browser, inside>>

FirstExit ==
  /\ phase = "bridged" /\ running # Tasks
  /\ phase' = "ending"
  /\ UNCHANGED <<scenario, running, host, browser, inside>>

\* abort_all: a task that is running goes on to its next await.
Abort(t) ==
  /\ phase = "ending" /\ t \in running
  /\ Ends(t)
  /\ UNCHANGED <<scenario, phase, host, browser, inside>>

Joined ==
  /\ phase = "ending" /\ running = {}
  /\ phase' = "closed"
  /\ UNCHANGED <<scenario, running, host, browser, inside>>

(***************************************************************************)
(* The room and the browser                                                *)
(***************************************************************************)
HostReads ==
  /\ hostOpen /\ tcpOut # <<>>
  /\ heard' = Append(heard, Head(tcpOut)) /\ tcpOut' = Tail(tcpOut)
  /\ UNCHANGED <<scenario, phase, running, fromHost, hostOpen, browser, inside>>

HostCloses ==
  /\ hostOpen /\ phase \in {"shaking", "bridged", "ending"}
  /\ scenario.hostCloses
  /\ hostOpen' = FALSE
  /\ UNCHANGED <<scenario, phase, running, fromHost, tcpOut, heard, browser, inside>>

BrowserReads ==
  /\ browserOpen /\ sink # <<>>
  /\ seen' = Append(seen, Head(sink)) /\ sink' = Tail(sink)
  /\ UNCHANGED <<scenario, phase, running, host, fromBrowser, browserOpen, inside>>

\* A tab that is closed takes with it what it has not sent.
BrowserLeaves ==
  /\ browserOpen /\ scenario.browserLeaves
  /\ browserOpen' = FALSE /\ fromBrowser' = <<>>
  /\ UNCHANGED <<scenario, phase, running, host, sink, seen, inside>>

TcpToWs  == Forward \/ ReadHost \/ HostEnds
WsWriter == TakeForBrowser \/ SendToBrowser \/ SayClose
WsReader == ReadBrowser \/ BrowserEnds \/ PassOn
TcpWriter == TakeKeys \/ TakeResize \/ SendToHost \/ ReaderGone
BridgeSocket == Request \/ Connect \/ ReadHello \/ NoHello \/ Bridge \/ FirstExit \/ Joined

Next == \/ BridgeSocket \/ TcpToWs \/ WsWriter \/ WsReader \/ TcpWriter
        \/ \E t \in Tasks : Abort(t)
        \/ HostReads \/ HostCloses \/ BrowserReads \/ BrowserLeaves

\* Tokio runs every task that can run.  A host reads its clients on every tick, and
\* a browser that stays reads its socket.
Fairness ==
  /\ WF_vars(BridgeSocket) /\ WF_vars(TcpToWs) /\ WF_vars(WsWriter)
  /\ WF_vars(WsReader) /\ WF_vars(TcpWriter)
  /\ \A t \in Tasks : WF_vars(Abort(t))
  /\ WF_vars(HostReads) /\ WF_vars(BrowserReads)

Spec == Init /\ [][Next]_vars /\ Fairness

-----------------------------------------------------------------------------
Written == Only(scenario.host, OutputEvent)

\* What the browser has is the status followed by the host's output without a gap,
\* a repetition or an inversion, across the handshake and four hand-overs; and while
\* no task has ended, what it lacks is all still on its way.
OutputUnbroken ==
  LET arrived == Only(seen, {Status} \cup OutputEvent)
      onTheWay == sink \o toWs \o toBrowser \o Only(Owed \o fromHost, OutputEvent)
  IN /\ arrived # <<>> => arrived[1] = Status
     /\ arrived # <<>> => IsPrefix(Tail(arrived), Written)
     /\ running = Tasks /\ browserOpen => arrived \o onTheWay = <<Status>> \o Written

\* Of the messages of one kind, those that may pass have arrived in their order and
\* nothing else has; the rest are on their way while no task has ended.
Reach(kind, passing) ==
  LET arrived  == Only(heard, kind)
      onTheWay == Only(tcpOut \o toTcp \o keys \o resizes \o fromWs, kind)
      all      == Only(scenario.browser, passing)
  IN IF scenario.readOnly THEN arrived = <<>>
     ELSE /\ IsPrefix(arrived, all)
          /\ running = Tasks /\ browserOpen
               => arrived \o onTheWay \o Only(fromBrowser, passing) = all

\* Keys reach the room in the order they were typed, and so do sizes (a size may
\* overtake keys); nothing gets there from a read-only browser, no size beyond the
\* limits does, and while no task has ended nothing is lost.
InputUnbroken ==
  /\ Reach(KeyMessage, KeyMessage)
  /\ Reach(ResizeMessage, {m \in ResizeMessage : Acceptable(m)})

\* When one side is gone the bridge ends, and with it the other side's connection,
\* whatever the tasks are waiting for.  Only a room that never says hello is waited
\* for without a look at the browser, and for ever.
EndsTogether ==
  (\/ phase \in {"shaking", "bridged"} /\ ~hostOpen
   \/ phase = "bridged" /\ ~browserOpen) ~> phase = "closed"

\* When the room has closed and the browser has not, the browser has all output and
\* a goodbye before its connection ends ("finishing cleanly").
BrowserSeesTheEnd ==
  (phase = "closed" /\ gotHello /\ browserOpen /\ scenario.hostCloses /\ scenario.browser = <<>>)
     => IsSuffix(<<Closing>>, seen \o sink)

=============================================================================
