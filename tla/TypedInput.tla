----------------------------- MODULE TypedInput -----------------------------
(***************************************************************************)
(* What the input of one client means to the host.  The input is read from *)
(* the left, key by key and control by control, without a buffer: at is    *)
(* how much of it has been given its meaning, and only the input decides   *)
(* what comes next, however it was cut on its way.                         *)
(***************************************************************************)
EXTENDS RoomControls

CONSTANTS MaxControl   \* MAX_CONTROL_BYTES

VARIABLES
  input,    \* all that the client sends
  at,       \* how much of it is settled
  ready,    \* the client has introduced itself
  size,     \* the size it reported last
  open,     \* the host listens to it
  written   \* the keys that went to the PTY

typedVars == <<input, at, ready, size, open, written>>

StartsControl(i) == OccursAt(input, PREFIX, i)

\* The last byte of the control that starts at i; 0 if it is never finished.
EndOfControl(i) ==
  LET end == FindFrom(input, SUFFIX, i + Len(PREFIX))
  IN  IF end = 0 THEN 0 ELSE end + Len(SUFFIX) - 1

Payload(i) == SubSeq(input, i + Len(PREFIX), EndOfControl(i) - Len(SUFFIX))
Control(i) == ParseClientControl(Payload(i))

\* More than MaxControl bytes from i on do not finish the control.
Oversized(i) ==
  IF EndOfControl(i) = 0 THEN Len(input) - i + 1 > MaxControl
  ELSE EndOfControl(i) - i > MaxControl

\* The byte at i may be a key: only in an oversized control is there a choice.
IsKey(i) == IF StartsControl(i) THEN Oversized(i)
            ELSE ~\E n \in 1..(Len(PREFIX) - 1) :
                    /\ i + n - 1 = Len(input)
                    /\ SubSeq(input, i, Len(input)) = SubSeq(PREFIX, 1, n)

Init ==
  /\ at = 0 /\ ready = FALSE /\ open = TRUE /\ size = NoSize /\ written = <<>>

\* Some keys reach the PTY.
Keys ==
  /\ open /\ ready
  /\ \E to \in (at + 1)..Len(input) :
       /\ \A i \in (at + 1)..to : IsKey(i)
       /\ at' = to
       /\ written' = written \o SubSeq(input, at + 1, to)
  /\ UNCHANGED <<input, ready, size, open>>

\* A finished control takes effect and does not reach the PTY.
Obey ==
  /\ open /\ StartsControl(at + 1) /\ EndOfControl(at + 1) > 0
  /\ LET c == Control(at + 1)
     IN  \/ /\ c.kind = "hello" /\ c.value = VERSION
            /\ ready' = TRUE /\ UNCHANGED size
         \/ /\ c.kind = "resize" /\ ready
            /\ size' = c.value /\ UNCHANGED ready
  /\ at' = EndOfControl(at + 1)
  /\ UNCHANGED <<input, open, written>>

\* The host stops listening at something that is neither.
Refuse ==
  /\ open
  /\ IF StartsControl(at + 1)
     THEN \/ ~ready /\ Oversized(at + 1)
          \/ /\ EndOfControl(at + 1) > 0
             /\ LET c == Control(at + 1)
                IN  /\ c.kind = "hello" => c.value # VERSION
                    /\ c.kind = "resize" => ~ready
     ELSE ~ready /\ at < Len(input) /\ IsKey(at + 1)
  /\ open' = FALSE
  /\ UNCHANGED <<input, at, ready, size, written>>

\* The client closes: what could have become a control is typed after all.
Close ==
  /\ open
  /\ ready => at = Len(input) \/ (~IsKey(at + 1) /\ EndOfControl(at + 1) = 0)
  /\ open' = FALSE
  /\ at' = Len(input)
  /\ written' = IF ready THEN written \o SubSeq(input, at + 1, Len(input)) ELSE written
  /\ UNCHANGED <<input, ready, size>>

\* The connection breaks, with or without input that was never read.
Break ==
  /\ open /\ open' = FALSE
  /\ UNCHANGED <<input, at, ready, size, written>>

Next == Keys \/ Obey \/ Refuse \/ Close \/ Break
Spec == Init /\ [][Next]_typedVars
=============================================================================
