------------------------------ MODULE Viewport ------------------------------
(***************************************************************************)
(* What `ptyroom host` and `ptyroom join` paint on the local terminal: the *)
(* room's screen, clipped, and the status bar on the bottom row.           *)
(*                                                                         *)
(* The renderer paints the difference to the screen of the last redraw     *)
(* where it believes that screen is still displayed.  The terminal belongs *)
(* to its emulator, which may change its size between any two steps, also  *)
(* between the ioctl that asks for the size and the write of the frame.    *)
(* Columns behave as rows do and are left out, as are colours, and the     *)
(* words of the bar but for the status and the number of clients.          *)
(***************************************************************************)
EXTENDS Naturals, Sequences

CONSTANTS Frontends,   \* a subset of host, join
          MaxRows,     \* bound: rows of the terminal and of the room
          Marks,       \* bound: what a row of output may say
          MaxClients   \* bound: clients the host counts

ASSUME RowsAssumption == MaxRows \in Nat

VARIABLES frontend, status, clients,  \* what the bar says
          screen, cursor,             \* vt100::Parser: its rows and where its cursor is
          previousScreen, previousLocalSize,
          pc, frame,                  \* the place; the bytes being written
          terminal, at,               \* the rows the user sees, the terminal's cursor
          moved, torn                 \* history: see Redraw

parser == <<screen, cursor>>
previous == <<previousScreen, previousLocalSize>>
display == <<terminal, at>>
viewVars == <<frontend, status, clients, parser, previous, pc, frame, display, moved, torn>>

Rows == 1..MaxRows
Connected == "connected"  Command == "command"  Help == "help"
Blank == <<"text", "">>
Text(mark) == <<"text", mark>>
NoScreen == <<>>
NoFrame == [kind |-> "none"]
Least(m, n) == IF m < n THEN m ELSE n

\* Rows cut off at the bottom or added there, by the parser and by the emulator.
Fit(rows, n) == [r \in 1..n |-> IF r <= Len(rows) THEN rows[r] ELSE Blank]

RemoteViewSize(n) == IF n > 1 THEN n - 1 ELSE 1

BuildHostBar == <<"bar", status, clients>>
BuildBar     == <<"bar", status>>
Bar == IF frontend = "host" THEN BuildHostBar ELSE BuildBar

ViewInit ==
  /\ frontend \in Frontends /\ status = Connected /\ clients = 0
  /\ \E n \in Rows :
       /\ terminal = Fit(<<>>, n)
       /\ screen = Fit(<<>>, RemoteViewSize(n))
  /\ cursor = 1 /\ at = 1
  /\ previousScreen = NoScreen /\ previousLocalSize = 0
  /\ pc = "enter" /\ frame = NoFrame
  /\ moved = FALSE /\ torn = FALSE

-----------------------------------------------------------------------------
(***************************************************************************)
(* Composing a frame, from the parser as it is after the call (primed).    *)
(***************************************************************************)
LocalSize == RemoteViewSize(Len(terminal))

\* Mutant: only the room's size decides, not whether the local one has changed.
RoomSizeOnlyMutant(force) ==
  \/ force \/ previousScreen = NoScreen \/ Len(previousScreen) # Len(screen')
  \/ LocalSize < Len(screen')

ShouldRenderFull(force) ==
  \/ force \/ previousScreen = NoScreen \/ Len(previousScreen) # Len(screen')
  \/ previousLocalSize # LocalSize
  \/ LocalSize < Len(screen')

FullFrame ==
  LET rows == Least(Len(screen'), LocalSize)
  IN  [kind |-> "full", rows |-> SubSeq(screen', 1, rows), cursor |-> Least(cursor', rows),
       bar |-> Bar', barRow |-> Len(terminal)]

DiffFrame ==
  [kind |-> "diff", cursor |-> cursor', bar |-> Bar', barRow |-> Len(terminal),
   rows |-> [r \in {q \in DOMAIN screen' : screen'[q] # previousScreen[q]} |-> screen'[r]]]

BarFrame ==
  [kind |-> "bar", rows |-> NoScreen, cursor |-> at, bar |-> Bar', barRow |-> Len(terminal)]

\* moved: the terminal has changed its size since the last redraw.  torn: it had
\* when a difference was painted, but by then had the local size of before (it
\* went there and back, or from two rows to one), or a write has failed.
Redraw(force) ==
  /\ frame' = IF ShouldRenderFull(force) THEN FullFrame ELSE DiffFrame
  /\ previousScreen' = screen' /\ previousLocalSize' = LocalSize
  /\ torn' = (frame'.kind = "diff" /\ (torn \/ (moved /\ previousLocalSize = LocalSize)))
  /\ moved' = FALSE

RedrawStatus ==
  /\ frame' = BarFrame
  /\ UNCHANGED <<previous, moved, torn>>

-----------------------------------------------------------------------------
(***************************************************************************)
(* What the front ends ask for.                                            *)
(***************************************************************************)
Enter ==
  /\ pc = "enter" /\ pc' = "write"
  /\ UNCHANGED <<frontend, status, clients, parser, display>> /\ RedrawStatus

\* Output writes a row of the room's screen and leaves its cursor there.
ProcessOutput ==
  /\ pc = "idle" /\ pc' = "writeOutput"
  /\ \E r \in DOMAIN screen, mark \in Marks :
       screen' = [screen EXCEPT ![r] = Text(mark)] /\ cursor' = r
  /\ UNCHANGED <<frontend, status, clients, display>> /\ Redraw(FALSE)

\* The host calls it when the size has changed, join for every size it is told.
Resize ==
  /\ pc = "idle" /\ pc' = "write"
  /\ \E n \in Rows :
       /\ frontend = "host" => n # Len(screen)
       /\ screen' = Fit(screen, n) /\ cursor' = Least(cursor, n)
  /\ UNCHANGED <<frontend, status, clients, display>> /\ Redraw(Len(screen') # Len(screen))

SetStatus ==
  /\ pc = "idle" /\ pc' = "write"
  /\ status' \in {Connected, Command, Help}
  /\ UNCHANGED <<frontend, clients, parser, display>> /\ RedrawStatus

SetClientCount ==
  /\ pc = "idle" /\ pc' = "write" /\ frontend = "host"
  /\ clients' \in (0..MaxClients) \ {clients}
  /\ UNCHANGED <<frontend, status, parser, display>> /\ RedrawStatus

\* Ctrl-] r: the status is set and painted first.
ConnectedAgain ==
  /\ pc = "idle" /\ pc' = "writeBar" /\ status' = Connected
  /\ UNCHANGED <<frontend, clients, parser, display>> /\ RedrawStatus

ForceRedraw ==
  /\ pc = "redraw" /\ pc' = "write"
  /\ UNCHANGED <<frontend, status, clients, parser, display>> /\ Redraw(TRUE)

-----------------------------------------------------------------------------
(***************************************************************************)
(* The terminal.  A row below the bottom is the bottom row.                *)
(***************************************************************************)
\* The rows after a frame's rows up to row k were written over base.
Painted(f, k, base) ==
  LET n == Len(terminal)
      landing(r) == {q \in DOMAIN f.rows : q <= k /\ Least(q, n) = r}
  IN  [r \in 1..n |-> IF landing(r) = {} THEN base[r]
                      ELSE f.rows[CHOOSE q \in landing(r) : \A p \in landing(r) : p <= q]]

Base == IF frame.kind = "full" THEN Fit(<<>>, Len(terminal)) ELSE terminal

Write ==
  /\ pc \in {"write", "writeOutput", "writeBar"}
  /\ pc' = IF pc = "writeBar" THEN "redraw" ELSE "idle"
  /\ terminal' = [Painted(frame, MaxRows, Base)
                    EXCEPT ![Least(frame.barRow, Len(terminal))] = frame.bar]
  /\ at' = Least(IF frame.kind = "bar" THEN at ELSE frame.cursor, Len(terminal))
  /\ frame' = NoFrame
  /\ UNCHANGED <<frontend, status, clients, parser, previous, moved, torn>>

\* A write fails after some of the rows: the host ignores that for output, and
\* every other failure ends the program.
WriteFails ==
  /\ pc \in {"write", "writeOutput", "writeBar"}
  /\ pc' = IF pc = "writeOutput" /\ frontend = "host" THEN "idle" ELSE "over"
  /\ \E k \in 0..MaxRows : terminal' = Painted(frame, k, Base)
  /\ torn' = TRUE /\ frame' = NoFrame
  /\ UNCHANGED <<frontend, status, clients, parser, previous, at, moved>>

\* The emulator's window changes.
EmulatorResizes ==
  /\ pc # "over"
  /\ \E n \in Rows \ {Len(terminal)} : terminal' = Fit(terminal, n) /\ at' = Least(at, n)
  /\ moved' = TRUE
  /\ UNCHANGED <<frontend, status, clients, parser, previous, pc, frame, torn>>

ViewNext ==
  \/ Enter \/ ProcessOutput \/ Resize \/ SetStatus \/ SetClientCount
  \/ ConnectedAgain \/ ForceRedraw \/ Write \/ WriteFails \/ EmulatorResizes

ViewSpec == ViewInit /\ [][ViewNext]_viewVars

-----------------------------------------------------------------------------
\* Whenever the terminal has kept its size since the last redraw, the user
\* sees the room's screen, clipped to the rows above the bar, with nothing else
\* beside it; the bar, alone on the bottom row, says what is the case; and the
\* cursor is not on the bar.  That is so whatever changed before, unless a
\* difference was painted over a picture that a resize there and back, or a
\* failed write, had spoilt; and after every full redraw it is so again.
ShowsTheScreen ==
  pc = "idle" /\ ~moved /\ ~torn =>
    LET bottom == Len(terminal)
    IN  /\ terminal[bottom] = Bar
        /\ \A r \in 1..(bottom - 1) :
             terminal[r] = IF r <= Len(screen) THEN screen[r] ELSE Blank
        /\ at <= RemoteViewSize(bottom)
=============================================================================
