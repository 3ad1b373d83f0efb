---------------------------- MODULE TraceBuilder ----------------------------
(***************************************************************************)
(* TraceBuilder: the list of steps a recording is made of, and the trace   *)
(* it becomes.  A dwell is the time a step stays on the screen; the trace  *)
(* has the sums.  A character of two bytes is "hi" and then "lo"; a byte   *)
(* of it alone is text nobody wrote.                                       *)
(***************************************************************************)
EXTENDS Naturals, SequencesExt

NewBuilder == [steps |-> <<>>, leading |-> 0]

\* String::from_utf8_lossy of one chunk: what becomes of its i-th byte.
LossyChar(bytes, i) ==
  LET follows == i < Len(bytes) /\ bytes[i + 1] = "lo"
      led     == i > 1 /\ bytes[i - 1] = "hi"
  IN  CASE bytes[i] = "hi" -> IF follows THEN <<"e'">> ELSE <<"U+FFFD">>
        [] bytes[i] = "lo" -> IF led THEN <<>> ELSE <<"U+FFFD">>
        [] OTHER           -> <<bytes[i]>>

Lossy(bytes) ==
  LET text[i \in 0..Len(bytes)] ==
        IF i = 0 THEN <<>> ELSE text[i - 1] \o LossyChar(bytes, i)
  IN  text[Len(bytes)]

\* Before the first step it counts for the first.
RecordBeat(builder, dwell) ==
  IF builder.steps = <<>>
  THEN [builder EXCEPT !.leading = @ + dwell]
  ELSE [builder EXCEPT !.steps[Len(builder.steps)].dwell = @ + dwell]

\* record_inner: nothing is a beat.
RecordOutput(builder, output, dwell) ==
  IF output = <<>>
  THEN RecordBeat(builder, dwell)
  ELSE [builder EXCEPT !.steps = Append(@, [kind |-> "o", data |-> Lossy(output), dwell |-> dwell])]

RecordResize(builder, size, dwell) ==
  [builder EXCEPT !.steps = Append(@, [kind |-> "r", data |-> size, dwell |-> dwell])]

\* accumulated_text: the text of the output so far.
Text(builder) ==
  FlattenSeq([i \in DOMAIN builder.steps |->
                IF builder.steps[i].kind = "o" THEN builder.steps[i].data ELSE <<>>])
\* finish: a step is an event at the sum of the dwells before it.
Finish(builder) ==
  LET end[i \in 0..Len(builder.steps)] ==
        IF i = 0 THEN builder.leading ELSE end[i - 1] + builder.steps[i].dwell
  IN  [i \in DOMAIN builder.steps |->
         [time |-> end[i - 1], kind |-> builder.steps[i].kind, data |-> builder.steps[i].data]]
=============================================================================
