------------------------------- MODULE Replay -------------------------------
(***************************************************************************)
(* Replay: from a recording to pictures of the screen, along both roads    *)
(* the code has: the stitcher paints while the session runs, the renderer  *)
(* replays a trace file.  Output is a sequence of bytes: the two halves    *)
(* "hi" and "lo" of a character, the start of a control string that sets   *)
(* or resets the background ("setbg", "resetbg"), its end "bel", and text. *)
(* Times are in ticks, TICKS_PER_MS of them in a millisecond.              *)
(***************************************************************************)
EXTENDS TraceBuilder, Sieve

CONSTANT TICKS_PER_MS     \* ticks in a millisecond

ASSUME TicksAssumption == TICKS_PER_MS \in Nat \ {0}

\* ReplayState::new: a terminal (the vt100 crate) and the colour tracker.
NewScreen == [text |-> <<>>, half |-> FALSE, string |-> FALSE, bg |-> "default", size |-> "start"]

\* What the terminal does with one byte; it remembers half a character.
TerminalByte(screen, byte) ==
  LET mended == IF screen.half /\ byte # "lo"
                THEN [screen EXCEPT !.text = Append(@, "U+FFFD"), !.half = FALSE]
                ELSE screen
      char   == IF screen.half THEN "e'" ELSE "U+FFFD"
  IN  IF screen.string
      THEN [screen EXCEPT !.string = byte # "bel"]
      ELSE CASE byte \in {"setbg", "resetbg"} -> [mended EXCEPT !.string = TRUE]
             [] byte = "hi"  -> [mended EXCEPT !.half = TRUE]
             [] byte = "lo"  -> [screen EXCEPT !.text = Append(@, char), !.half = FALSE]
             [] byte = "bel" -> mended
             [] OTHER        -> [mended EXCEPT !.text = Append(@, byte)]

\* OscTracker::observe: the strings that start and end in this chunk.
Observe(bg, chunk) ==
  LET ends(i, op) == chunk[i] = "bel" /\ i > 1 /\ chunk[i - 1] = op
      seen[i \in 0..Len(chunk)] == IF i = 0 THEN bg
                                  ELSE IF ends(i, "setbg") THEN "set"
                                  ELSE IF ends(i, "resetbg") THEN "default" ELSE seen[i - 1]
  IN  seen[Len(chunk)]

\* vt100's process: one byte after the other.
Process(screen, chunk) ==
  LET fed[i \in 0..Len(chunk)] ==
        IF i = 0 THEN screen ELSE TerminalByte(fed[i - 1], chunk[i])
  IN  fed[Len(chunk)]

\* process_output.
ProcessOutput(screen, chunk) ==
  [Process(screen, chunk) EXCEPT !.bg = Observe(screen.bg, chunk)]

\* capture: what a frame shows.
Snapshot(screen) == [text |-> screen.text, bg |-> screen.bg, size |-> screen.size]

Visible(events) == {event \in Range(events) : event.kind \in {"o", "r"}}

ApplyEvent(screen, event) ==
  IF event.kind = "o" THEN ProcessOutput(screen, event.data)
  ELSE [screen EXCEPT !.size = event.data[1]]

\* A resize to nothing stops the replay.
Replayable(trace) ==
  trace.ok /\ \A i \in DOMAIN trace.events :
                trace.events[i].kind = "r" => trace.events[i].data # <<"zero">>

\* Rounded, and never less than a millisecond.
DwellUntilNext(now, next) ==
  LET ms == (2 * (next - now) + TICKS_PER_MS) \div (2 * TICKS_PER_MS)
  IN  IF ms < 1 THEN 1 ELSE ms

\* replay: a frame for each visible event, with the time until the next;
\* the last has none.
ReplayTrace(trace) ==
  LET visible == Only(trace.events, Visible(trace.events))
      after[i \in 0..Len(visible)] ==
        IF i = 0 THEN NewScreen ELSE ApplyEvent(after[i - 1], visible[i])
      dwell(i) == IF i = Len(visible) THEN 0
                  ELSE DwellUntilNext(visible[i].time, visible[i + 1].time)
  IN  [i \in DOMAIN visible |-> [frame |-> Snapshot(after[i]), dwell |-> dwell(i)]]

StitchLateMutant(capture) ==   \* with the time since the frame before
  [i \in DOMAIN capture |->
     [frame |-> Snapshot(FoldLeft(LAMBDA screen, chunk : ProcessOutput(screen, chunk.bytes),
                                  NewScreen, SubSeq(capture, 1, i))),
      dwell |-> IF i = 1 THEN 0 ELSE capture[i - 1].dwell \div TICKS_PER_MS]]

\* LiveFrameStitcher: the bytes as they were read, their dwell cut to whole
\* milliseconds; finish takes the last one's away.
Stitch(capture) ==
  LET after[i \in 0..Len(capture)] ==
        IF i = 0 THEN NewScreen ELSE ProcessOutput(after[i - 1], capture[i].bytes)
      dwell(i) == IF i = Len(capture) THEN 0 ELSE capture[i].dwell \div TICKS_PER_MS
  IN  [i \in DOMAIN capture |-> [frame |-> Snapshot(after[i]), dwell |-> dwell(i)]]

\* The trace of the same capture.
TraceOf(capture) ==
  LET built[i \in 0..Len(capture)] ==
        IF i = 0 THEN NewBuilder
        ELSE RecordOutput(built[i - 1], capture[i].bytes, capture[i].dwell)
  IN  [ok |-> TRUE, events |-> Finish(built[Len(capture)])]

Outputs(trace) == SelectSeq(trace.events, LAMBDA event : event.kind = "o")

\* push_ansi_stripped: every event starts outside a control string.
Stripped(data) ==
  LET step(acc, byte) ==
        IF acc.string THEN [acc EXCEPT !.string = byte # "bel"]
        ELSE CASE byte \in {"setbg", "resetbg"} -> [acc EXCEPT !.string = TRUE]
               [] byte = "bel"                  -> acc
               [] OTHER                         -> [acc EXCEPT !.text = Append(@, byte)]
  IN  FoldLeft(step, [text |-> <<>>, string |-> FALSE], data).text

\* Transcript::from_trace: the frames of all visible events, paired in
\* order with the times of the outputs.
Transcript(trace) ==
  LET outputs == Outputs(trace)
      shown   == ReplayTrace(trace)
  IN  [plain_text |-> FlattenSeq([i \in DOMAIN outputs |-> Stripped(outputs[i].data)]),
       frames     |-> [i \in DOMAIN outputs |->
                         [time |-> outputs[i].time, rows |-> shown[i].frame.text]]]

\* No character of the capture is cut by the end of a read, and frames
\* follow each other at whole milliseconds.
CleanCapture(capture) ==
  \A i \in DOMAIN capture :
    /\ capture[i].bytes[Len(capture[i].bytes)] # "hi"
    /\ i < Len(capture) => /\ capture[i].dwell >= TICKS_PER_MS
                           /\ capture[i].dwell % TICKS_PER_MS = 0
=============================================================================
