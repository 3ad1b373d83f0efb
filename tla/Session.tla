------------------------------ MODULE Session ------------------------------
(***************************************************************************)
(* A scripted recording: PtyTracer, the Drainer thread that reads the PTY  *)
(* for it, and the script that runs over both.                             *)
(*                                                                         *)
(* The two threads share the bytes that were read and the watches under    *)
(* one mutex; an action is what a thread does between two releases of it.  *)
(* The child writes when it likes, in pieces, and the terminal may echo    *)
(* what it is sent.                                                        *)
(***************************************************************************)
EXTENDS TraceBuilder, FiniteSetsExt, RoomControls

CONSTANTS
  Plans,      \* bound: the scripts, and what the child writes of its own accord
  MaxRead     \* the bytes one read(2) may return

Operation == [kind : STRING, text : Seq(STRING), pattern : Seq(STRING), dwell : Nat]

\* register_watch asserts that there is a pattern.
ASSUME SessionAssumption ==
  /\ MaxRead \in Nat \ {0}
  /\ \A p \in Plans :
       /\ p.script \in Seq(Operation) /\ p.output \in Seq(STRING) /\ p.echoes \in BOOLEAN
       /\ \A k \in DOMAIN p.script :
            p.script[k].kind \in {"sendWait", "capture"} => p.script[k].pattern # <<>>

VARIABLES
  plan, childAt, childUp,            \* the child: how much it wrote, whether it lives
  pty, wrote,                        \* what nobody read, and all that came through
  bytes, watches, fired,             \* Drainer: State, and the signals
  drainer, chunk, stopFlag, replies, \* the reader thread
  step, pc, captured, armed,         \* the script: PtyTracer and its locals
  builder, taken,                    \* the recording, and the child's bytes in it
  fdOpen, result

childVars == <<plan, childAt, childUp>>
sharedVars == <<bytes, watches, fired>>
drainVars == <<drainer, chunk, replies>>
mainVars == <<step, pc, captured, armed, builder, taken, result>>
vars == <<childVars, pty, wrote, sharedVars, drainVars, stopFlag, mainVars, fdOpen>>

QUERY == <<"OSC", "?">>

Init ==
  /\ plan \in Plans /\ childAt = 0 /\ childUp = TRUE /\ pty = <<>> /\ wrote = <<>>
  /\ bytes = <<>> /\ watches = {} /\ fired = {}
  /\ drainer = "top" /\ chunk = <<>> /\ stopFlag = FALSE /\ replies = 0
  /\ step = 1 /\ pc = "ready" /\ captured = <<>> /\ armed = 0
  /\ builder = NewBuilder /\ taken = <<>> /\ fdOpen = TRUE /\ result = "running"

-----------------------------------------------------------------------------
Emit(out) == pty' = pty \o out /\ wrote' = wrote \o out

ChildWrites ==
  /\ childUp
  /\ \E n \in (childAt + 1)..Len(plan.output) :
       childAt' = n /\ Emit(SubSeq(plan.output, childAt + 1, n))
  /\ UNCHANGED <<plan, childUp, sharedVars, drainVars, stopFlag, mainVars, fdOpen>>

ChildExits ==
  /\ childUp /\ childUp' = FALSE
  /\ UNCHANGED <<plan, childAt, pty, wrote, sharedVars, drainVars, stopFlag, mainVars, fdOpen>>

\* How much of it went through the reader thread.
Buffered == Len(taken) + Len(captured) + Len(bytes)

-----------------------------------------------------------------------------
\* drain_loop.
DrainOther == UNCHANGED <<childVars, wrote, stopFlag, mainVars, fdOpen>>

\* Mutant: the flag is not looked at.
DeafMutant ==
  /\ drainer = "top" /\ drainer' = "select"
  /\ UNCHANGED <<pty, sharedVars, chunk, replies>> /\ DrainOther

DrainTop ==
  /\ drainer = "top" /\ drainer' = IF stopFlag THEN "done" ELSE "select"
  /\ UNCHANGED <<pty, sharedVars, chunk, replies>> /\ DrainOther

\* select(2) waits 50 ms and the flag is looked at again.
SelectTimesOut ==
  /\ drainer = "select" /\ pty = <<>> /\ childUp /\ drainer' = "top"
  /\ UNCHANGED <<pty, sharedVars, chunk, replies>> /\ DrainOther

\* The child is gone and all it wrote was read.
ReadFails ==
  /\ drainer = "select" /\ pty = <<>> /\ ~childUp /\ drainer' = "done"
  /\ UNCHANGED <<pty, sharedVars, chunk, replies>> /\ DrainOther

Queries(s) == Cardinality({i \in DOMAIN s : OccursAt(s, QUERY, i)})

\* One chunk is read, and the queries in it are answered.
ReadChunk ==
  /\ drainer = "select" /\ pty # <<>>
  /\ \E n \in 1..Min({MaxRead, Len(pty)}) :
       /\ chunk' = SubSeq(pty, 1, n) /\ pty' = SubSeq(pty, n + 1, Len(pty))
  /\ replies' = replies + Queries(chunk')
  /\ drainer' = "append" /\ UNCHANGED sharedVars /\ DrainOther

Holds(s, pattern) == FindSubslice(s, pattern) # 0
LastBytes(s, n) == SubSeq(s, Len(s) - Min({n, Len(s)}) + 1, Len(s))

\* Mutant: the carry is a byte too short.
ShortCarryMutant(w) == [w EXCEPT !.carry = LastBytes(@ \o chunk, Len(w.pattern) - 2)]

\* Watch::observe, when there is no match.
Carried(w) == [w EXCEPT !.carry = LastBytes(@ \o chunk, Len(w.pattern) - 1)]

\* Watch::observe: the seam first, then the chunk.
Observe(w) ==
  \/ /\ w.carry # <<>>
     /\ Holds(w.carry \o SubSeq(chunk, 1, Min({Len(w.pattern) - 1, Len(chunk)})), w.pattern)
  \/ Holds(chunk, w.pattern)

\* update_watches, then the bytes, under one lock.
AppendChunk ==
  LET matched == {w \in watches : Observe(w)}
  IN  /\ drainer = "append"
      /\ watches' = {Carried(w) : w \in watches \ matched}
      /\ fired' = fired \cup {w.id : w \in matched}
      /\ bytes' = bytes \o chunk /\ chunk' = <<>> /\ drainer' = "top"
      /\ UNCHANGED <<pty, replies>> /\ DrainOther

-----------------------------------------------------------------------------
\* The script.  An operation starts, and ends by going to the next one.
Op == plan.script[step]
Start(kinds) == pc = "ready" /\ step <= Len(plan.script) /\ Op.kind \in kinds

MainOther == UNCHANGED <<childVars, stopFlag, drainVars, fdOpen>>
Quiet == UNCHANGED <<pty, wrote>>
NextOp == step' = step + 1 /\ pc' = "ready"
Goto(where) == pc' = where /\ UNCHANGED step
Goes == UNCHANGED result
Record(output, dwell) == builder' = RecordOutput(builder, output, dwell)
Nothing == UNCHANGED <<builder, taken>>

\* Any error ends the script, and the tracer is dropped with the recording.
Fails == Goto("drop") /\ result' = "failed"

\* write_all to the PTY; its line discipline may echo, a dead child has none.
Write(out) ==
  IF out # <<>> /\ plan.echoes THEN Emit(out) ELSE UNCHANGED <<pty, wrote>>

WriteFails ==
  /\ pc \in {"ready", "write"} /\ step <= Len(plan.script) /\ ~childUp
  /\ pc = "ready" => Op.kind \in {"send", "press", "capture"}
  /\ Op.text # <<>> /\ Fails
  /\ Quiet /\ UNCHANGED <<sharedVars, captured, armed>> /\ Nothing /\ MainOther

\* check_runtime.
Overruns ==
  /\ pc \in {"ready", "poll"} /\ step <= Len(plan.script) /\ Fails
  /\ Quiet /\ UNCHANGED <<sharedVars, captured, armed>> /\ Nothing /\ MainOther

\* write_bytes.
Send ==
  /\ Start({"send"}) /\ Write(Op.text) /\ NextOp /\ Goes
  /\ UNCHANGED <<sharedVars, captured, armed>> /\ Nothing /\ MainOther

\* send_and_capture (key, dwell).
Press ==
  /\ Start({"press"}) /\ Write(Op.text) /\ Goto("settle") /\ Goes
  /\ UNCHANGED <<sharedVars, captured, armed>> /\ Nothing /\ MainOther

\* A text whose characters are recorded singly.
RecordTyped(old, text, dwell) ==
  FoldLeft(LAMBDA b, c : RecordOutput(b, <<c>>, dwell), old, text)

\* push_presentation_output, type_presentation_text.
Present ==
  /\ Start({"present"}) /\ Record(Op.text, Op.dwell) /\ NextOp /\ Goes
  /\ Quiet /\ UNCHANGED <<sharedVars, captured, armed, taken>> /\ MainOther

PresentTyped ==
  /\ Start({"presentTyped"})
  /\ builder' = RecordTyped(builder, Op.text, Op.dwell)
  /\ NextOp /\ Goes /\ Quiet /\ UNCHANGED <<sharedVars, captured, armed, taken>> /\ MainOther

\* type_text begins with what was there before it.
Type ==
  /\ Start({"type"})
  /\ IF Op.text = <<>> THEN NextOp ELSE Goto("arm")
  /\ IF Op.text = <<>> THEN Nothing /\ UNCHANGED bytes
     ELSE /\ builder' = IF bytes = <<>> THEN builder ELSE RecordOutput(builder, bytes, 0)
          /\ taken' = taken \o bytes /\ bytes' = <<>>
  /\ Goes /\ Quiet /\ UNCHANGED <<watches, fired, captured, armed>> /\ MainOther

\* send_raw_wait_for, and PtyOp::expect.
SendWait ==
  /\ Start({"sendWait"}) /\ Goto("arm") /\ Goes
  /\ Quiet /\ UNCHANGED <<sharedVars, captured, armed>> /\ Nothing /\ MainOther

\* register_watch: what is buffered is looked at once.
Register(pattern) ==
  /\ armed' = step
  /\ IF Holds(bytes, pattern)
     THEN fired' = fired \cup {step} /\ UNCHANGED watches
     ELSE /\ watches' = watches \cup
               {[id |-> step, pattern |-> pattern, carry |-> <<>>, from |-> Buffered]}
          /\ UNCHANGED fired

\* PtyOp::capture: its watch is left to itself.
Capture ==
  /\ Start({"capture"}) /\ Write(Op.text) /\ Goto("settle") /\ Goes
  /\ Register(Op.pattern)
  /\ UNCHANGED <<bytes, captured>> /\ Nothing /\ MainOther

WaitFor ==
  /\ Start({"waitFor"}) /\ Goto("poll") /\ captured' = <<>> /\ Goes
  /\ Quiet /\ UNCHANGED <<sharedVars, armed>> /\ Nothing /\ MainOther

Pattern == IF Op.kind = "type" THEN Op.text ELSE Op.pattern

Arm ==
  /\ pc = "arm" /\ Register(Pattern) /\ Goto("write") /\ Goes
  /\ Quiet /\ UNCHANGED <<bytes, captured>> /\ Nothing /\ MainOther

WriteArmed ==
  /\ pc = "write" /\ (childUp \/ Op.text = <<>>) /\ Write(Op.text) /\ Goto("wait") /\ Goes
  /\ UNCHANGED <<sharedVars, captured, armed>> /\ Nothing /\ MainOther

\* consume, when the watch fired.
WatchFired ==
  /\ pc = "wait" /\ armed \in fired /\ captured' = bytes /\ bytes' = <<>>
  /\ Goto(IF Op.kind = "type" THEN "echo" ELSE "putBack") /\ Goes
  /\ Quiet /\ UNCHANGED <<watches, fired, armed>> /\ Nothing /\ MainOther

TimesOut ==
  /\ \/ pc = "wait" /\ armed \notin fired
     \/ pc = "missed"
  /\ Fails /\ Quiet /\ UNCHANGED <<sharedVars, captured, armed>> /\ Nothing /\ MainOther

\* One round of wait_for_regex.
PollRegex ==
  /\ pc = "poll" /\ captured' = captured \o bytes /\ bytes' = <<>>
  /\ Goto(IF Holds(captured', Op.pattern) THEN "putBack" ELSE "missed") /\ Goes
  /\ Quiet /\ UNCHANGED <<watches, fired, armed>> /\ Nothing /\ MainOther

PollAgain ==
  /\ pc = "missed" /\ Goto("poll") /\ Goes
  /\ Quiet /\ UNCHANGED <<sharedVars, captured, armed>> /\ Nothing /\ MainOther

\* Mutant: the event takes everything that was captured.
TakeAllMutant == Len(captured)

\* Where the operation's event ends: behind the pattern.
End ==
  LET at == FindSubslice(captured, Pattern)
  IN  IF at = 0 THEN Len(captured) ELSE at + Len(Pattern) - 1

\* Mutant: what is put back goes behind what came since.
PutBehindMutant(rest) == bytes \o rest

\* unconsume.
Unconsumed(rest) == rest \o bytes

PutBack ==
  /\ pc = "putBack"
  /\ Record(SubSeq(captured, 1, End), Op.dwell) /\ taken' = taken \o SubSeq(captured, 1, End)
  /\ bytes' = Unconsumed(SubSeq(captured, End + 1, Len(captured))) /\ captured' = <<>>
  /\ NextOp /\ Goes /\ Quiet /\ UNCHANGED <<watches, fired, armed>> /\ MainOther

\* The rest of type_text: what is before the echo, the echo a character at a
\* time, what is behind it.
RecordEcho ==
  LET at == FindSubslice(captured, Op.text)
      before == SubSeq(captured, 1, at - 1)
      behind == SubSeq(captured, at + Len(Op.text), Len(captured))
      typed == RecordTyped(RecordOutput(builder, before, 0), Op.text, Op.dwell)
  IN  /\ pc = "echo"
      /\ IF at = 0
         THEN Goto("drop") /\ result' = "no echo" /\ Nothing /\ UNCHANGED captured
         ELSE /\ builder' = RecordOutput(typed, behind, 0) /\ taken' = taken \o captured
              /\ captured' = <<>> /\ NextOp /\ Goes
      /\ Quiet /\ UNCHANGED <<sharedVars, armed>> /\ MainOther

\* After the settle time: a beat when nothing came.
Settle ==
  /\ pc = "settle"
  /\ builder' = IF Op.kind = "capture" /\ bytes = <<>> THEN builder
                ELSE RecordOutput(builder, bytes, Op.dwell)
  /\ taken' = taken \o bytes /\ bytes' = <<>> /\ NextOp /\ Goes
  /\ Quiet /\ UNCHANGED <<watches, fired, captured, armed>> /\ MainOther

\* stop: the trace is made, then the child ends.
Stop ==
  /\ pc = "ready" /\ step > Len(plan.script)
  /\ childUp' = FALSE /\ Goto("drop") /\ result' = "trace"
  /\ Quiet /\ UNCHANGED <<plan, childAt, sharedVars, drainVars, stopFlag, captured, armed, fdOpen>>
  /\ Nothing

\* Drop: the thread is told to stop and joined before the PTY is closed.
Shutdown ==
  /\ pc = "drop" /\ stopFlag' = TRUE /\ Goto("join") /\ Goes
  /\ Quiet /\ UNCHANGED <<childVars, sharedVars, drainVars, captured, armed, fdOpen>> /\ Nothing

Join ==
  /\ pc = "join" /\ drainer = "done" /\ fdOpen' = FALSE /\ Goto("done") /\ Goes
  /\ Quiet /\ UNCHANGED <<childVars, sharedVars, drainVars, stopFlag, captured, armed>> /\ Nothing

-----------------------------------------------------------------------------
Ended == pc = "done" /\ drainer = "done" /\ UNCHANGED vars

Reader == DrainTop \/ SelectTimesOut \/ ReadFails \/ ReadChunk \/ AppendChunk
Script ==
  \/ Overruns \/ WriteFails \/ Send \/ Press \/ Capture \/ Present \/ PresentTyped \/ Type \/ SendWait
  \/ WaitFor \/ Arm \/ WriteArmed \/ WatchFired \/ TimesOut \/ PollRegex \/ PollAgain \/ PutBack
  \/ RecordEcho \/ Settle \/ Stop \/ Shutdown \/ Join

Next == ChildWrites \/ ChildExits \/ Reader \/ Script \/ Ended

\* Both threads run on; a wait's clock runs out.
Spec ==
  /\ Init /\ [][Next]_vars
  /\ WF_vars(Reader) /\ WF_vars(Script) /\ SF_vars(TimesOut)

-----------------------------------------------------------------------------
\* Whatever the threads do in between, no byte of the child is lost, doubled
\* or moved on its way into the recording.
NothingLost ==
  result = "running" => taken \o captured \o bytes \o chunk \o pty = wrote

\* A watch that waits has missed nothing: its pattern is not in what came
\* since it was armed, however the chunks cut it.  And one that fired is in
\* what the operation then takes.
NoMissedWatch ==
  /\ result = "running" =>
       \A w \in watches : ~Holds(SubSeq(wrote, w.from + 1, Buffered), w.pattern)
  /\ pc = "putBack" => Holds(captured, Pattern)
  /\ result # "no echo"

\* The operations whose events do not depend on when the threads ran.
Timeless(op) == op.kind \in {"send", "sendWait", "waitFor", "present", "presentTyped"}

\* What such a script records of the bytes that came, operation by operation.
Expected ==
  LET after[k \in 0..(step - 1)] ==
        IF k = 0 THEN [at |-> 0, builder |-> NewBuilder]
        ELSE LET op == plan.script[k]
                 old == after[k - 1]
                 end == FindFrom(wrote, op.pattern, old.at + 1) + Len(op.pattern) - 1
             IN  CASE op.kind \in {"sendWait", "waitFor"} ->
                        [at |-> end,
                         builder |-> RecordOutput(old.builder, SubSeq(wrote, old.at + 1, end), op.dwell)]
                   [] op.kind = "present" ->
                        [old EXCEPT !.builder = RecordOutput(@, op.text, op.dwell)]
                   [] op.kind = "presentTyped" ->
                        [old EXCEPT !.builder = RecordTyped(@, op.text, op.dwell)]
                   [] OTHER -> old
  IN  after[step - 1].builder

\* The events of a script that waits for patterns, and their times, are a
\* function of what the child wrote, not of how fast it was read.
SameTraceAlways ==
  (\A k \in 1..Min({step, Len(plan.script)}) : Timeless(plan.script[k])) => Finish(builder) = Finish(Expected)

\* However the child behaves, the script ends and the tracer is torn down.
ScriptEnds == <>(pc = "done")

\* What osc.rs:3-6 says: the recorder watches every byte the child writes and
\* recognizes the queries, so that the real child runs unmodified.
EveryQueryAnswered ==
  pty = <<>> /\ chunk = <<>> /\ drainer # "done" => replies = Queries(wrote)

\* What mod.rs:3-6 says: every byte written is captured.
EveryByteInTrace == result = "trace" => Text(builder) = Lossy(taken)
=============================================================================
