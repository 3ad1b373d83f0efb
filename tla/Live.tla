-------------------------------- MODULE Live --------------------------------
(***************************************************************************)
(* A program that takes over the user's terminal and gives it back: live   *)
(* capture with its whole loop, and the host and join front ends as far as *)
(* the terminal goes (their loops are ShareHost's and Join's).             *)
(*                                                                         *)
(* A guard restores the screen, another the mode of the terminal, and a    *)
(* termination signal may come between any two steps of the main thread.   *)
(* Its handler restores the screen itself and only asks the loop to end.   *)
(***************************************************************************)
EXTENDS Naturals, Sequences, SequencesExt

CONSTANTS Frontends,  \* a subset of capture, host, join
          MaxSignals, MaxChunks, MaxTime

ASSUME FrontendsAssumption == Frontends \subseteq {"capture", "host", "join"}
ASSUME BoundsAssumption == MaxSignals \in Nat /\ MaxChunks \in Nat /\ MaxTime \in Nat

VARIABLES frontend,
          tty,        \* stdout is a terminal, and the host is to show the output there
          pc, todo,   \* the place; the steps of the setup still to be done
          outcome,    \* running, ok, error or killed
          guarded,    \* a RestoreGuard is alive
          handlers,   \* how many of the termination signals it handles so far
          armed,      \* SIGNAL_RESTORE_FD, SIGNAL_RESTORE_SEQUENCE
          requested,  \* TERMINATION_REQUESTED
          screen, mode, spilt,  \* of the terminal; was the child's output shown on the primary screen?
          signals,    \* still to be sent
          now, child, written, hangup,  \* time; the child, the chunks it has written, its end
          arrived,    \* when each chunk was read
          pending,    \* the chunk whose dwell is not known yet
          traceTime, sink, trace        \* CaptureEvents given out; events recorded

terminal == <<screen, mode, spilt>>
guards   == <<guarded, handlers, armed, requested>>
data     == <<arrived, pending, traceTime, sink, trace>>
world    == <<signals, now, written, hangup>>
liveVars == <<frontend, tty, pc, todo, outcome, terminal, guards, child, data, world>>

TERMINATION_SIGNALS == 4
Disarmed == [fd |-> FALSE, sequence |-> FALSE]

\* What each front end does before its loop.  Without a terminal on stdout there is
\* neither a guard nor an alternate screen.  Host and join have a viewport: it draws its
\* status line as soon as it has its guard.
Setup(f, onTty) ==
  CASE f = "capture" -> IF onTty THEN <<"sink", "spawn", "guard", "alternate", "raw">>
                        ELSE <<"sink", "spawn", "raw">>
    [] f = "host"    -> IF onTty THEN <<"alternate", "guard", "status", "raw", "spawn">>
                        ELSE <<"raw", "spawn">>
    [] f = "join"    -> IF onTty THEN <<"raw", "alternate", "guard", "status">> ELSE <<>>

LiveInit ==
  /\ frontend \in Frontends /\ tty \in BOOLEAN
  /\ pc = "setup" /\ todo = Setup(frontend, tty) /\ outcome = "running"
  /\ guarded = FALSE /\ handlers = 0 /\ armed = Disarmed /\ requested = FALSE
  /\ screen = "primary" /\ mode = "cooked" /\ spilt = FALSE
  /\ signals = MaxSignals /\ now = 0 /\ child = "none" /\ written = 0 /\ hangup = FALSE
  /\ arrived = <<>> /\ pending = <<>> /\ traceTime = 0 /\ sink = <<>> /\ trace = <<>>

-----------------------------------------------------------------------------
At(step) == pc = "setup" /\ todo # <<>> /\ Head(todo) = step
Done     == todo' = Tail(todo)

\* Mutant: the process exits without unwinding.
ExitMutant == pc' = "over" /\ outcome' = "error"

Fail == pc' = "drop" /\ outcome' = "error"

SetUpSink ==
  /\ At("sink")
  /\ \/ Done /\ UNCHANGED <<pc, outcome>>
     \/ Fail /\ UNCHANGED todo
  /\ UNCHANGED <<frontend, tty, terminal, guards, child, data, world>>

Spawn ==
  /\ At("spawn")
  /\ \/ Done /\ child' = "alive" /\ UNCHANGED <<pc, outcome>>
     \/ Fail /\ UNCHANGED <<todo, child>>
  /\ UNCHANGED <<frontend, tty, terminal, guards, data, world>>

\* Capture does not look whether the terminal took the sequence.  The viewport writes
\* twice more before it has its guard, and any of the writes may end the program, with
\* the sequence on its way or not.
Alternate ==
  /\ At("alternate")
  /\ \/ Done /\ screen' = "alternate" /\ UNCHANGED <<pc, outcome>>
     \/ frontend = "capture" /\ Done /\ UNCHANGED <<screen, pc, outcome>>
     \/ frontend # "capture" /\ Fail /\ screen' \in {screen, "alternate"} /\ UNCHANGED todo
  /\ UNCHANGED <<frontend, tty, mode, spilt, guards, child, data, world>>

DrawStatus ==
  /\ At("status")
  /\ \/ Done /\ UNCHANGED <<pc, outcome>>
     \/ Fail /\ UNCHANGED todo
  /\ UNCHANGED <<frontend, tty, terminal, guards, child, data, world>>

\* Capture needs a terminal on stdin.  The host without one, or without local input, goes
\* on as it is, and so does a join whose stdin is no terminal.
EnterRaw ==
  /\ At("raw")
  /\ \/ Done /\ mode' = "raw" /\ UNCHANGED <<pc, outcome>>
     \/ frontend # "capture" /\ Done /\ UNCHANGED <<mode, pc, outcome>>
     \/ Fail /\ UNCHANGED <<mode, todo>>
  /\ UNCHANGED <<frontend, tty, screen, spilt, guards, child, data, world>>

\* RestoreGuard::new: one sigaction after the other, then the atomics.
NewGuard ==
  /\ At("guard") /\ pc' = "install"
  /\ UNCHANGED <<frontend, tty, todo, outcome, terminal, guards, child, data, world>>

Install ==
  /\ pc = "install" /\ handlers < TERMINATION_SIGNALS
  /\ handlers' = handlers + 1
  /\ UNCHANGED <<frontend, tty, pc, todo, outcome, terminal, guarded, armed, requested, child, data, world>>

\* The previous actions are put back, and the guard does without handlers.
InstallFails ==
  /\ pc = "install" /\ handlers < TERMINATION_SIGNALS
  /\ handlers' = 0 /\ guarded' = TRUE
  /\ pc' = "setup" /\ Done
  /\ UNCHANGED <<frontend, tty, outcome, terminal, armed, requested, child, data, world>>

\* A signal that came since the first sigaction is forgotten here.
ClearRequest ==
  /\ pc = "install" /\ handlers = TERMINATION_SIGNALS
  /\ requested' = FALSE /\ pc' = "arm"
  /\ UNCHANGED <<frontend, tty, todo, outcome, terminal, guarded, handlers, armed, child, data, world>>

\* Mutant: the request is cleared last.
ClearLateMutant ==
  /\ pc = "arm"
  /\ IF ~armed.fd
     THEN armed' = [armed EXCEPT !.fd = TRUE] /\ UNCHANGED <<pc, todo, guarded, requested>>
     ELSE /\ armed' = [armed EXCEPT !.sequence = TRUE] /\ guarded' = TRUE /\ pc' = "setup" /\ Done
          /\ requested' = FALSE
  /\ UNCHANGED <<frontend, tty, outcome, terminal, handlers, child, data, world>>

Arm ==
  /\ pc = "arm"
  /\ IF ~armed.fd
     THEN armed' = [armed EXCEPT !.fd = TRUE] /\ UNCHANGED <<pc, todo, guarded>>
     ELSE armed' = [armed EXCEPT !.sequence = TRUE] /\ guarded' = TRUE /\ pc' = "setup" /\ Done
  /\ UNCHANGED <<frontend, tty, outcome, terminal, handlers, requested, child, data, world>>

SetUp ==
  /\ pc = "setup" /\ todo = <<>>
  /\ pc' = "loop"
  /\ UNCHANGED <<frontend, tty, todo, outcome, terminal, guards, child, data, world>>

-----------------------------------------------------------------------------
\* The head of the loop: a signal, or max_runtime.
LeaveLoop ==
  /\ pc = "loop" /\ (requested \/ now = MaxTime)
  /\ pc' = "ending"
  /\ UNCHANGED <<frontend, tty, todo, outcome, terminal, guards, child, data, world>>

\* poll finds something of the child's.  (A timeout, EINTR and a key that is passed on
\* change nothing here.)
Poll ==
  /\ pc = "loop" /\ ~requested /\ now < MaxTime
  /\ (written > Len(arrived) \/ hangup) /\ pc' = "pty"
  /\ UNCHANGED <<frontend, tty, todo, outcome, terminal, guards, child, data, world>>

StdinEnds ==
  /\ pc = "loop" /\ ~requested /\ now < MaxTime
  /\ pc' = "ending"
  /\ UNCHANGED <<frontend, tty, todo, outcome, terminal, guards, child, data, world>>

\* A key cannot be written to the child, or poll or read fails: `?` past the flush
\* and past terminate_child.
LoopFails ==
  /\ pc = "loop" /\ ~requested /\ now < MaxTime
  /\ Fail
  /\ UNCHANGED <<frontend, tty, todo, terminal, guards, child, data, world>>

ReadPty ==
  /\ pc = "pty"
  /\ pc' = IF written > Len(arrived) THEN "tee" ELSE "ending"
  /\ UNCHANGED <<frontend, tty, todo, outcome, terminal, guards, child, data, world>>

\* Mutant: the clock of the trace runs before the event.
ClockFirstMutant(p, dwell) == [n |-> p.n, time |-> traceTime + dwell, dwell |-> dwell]

Event(p, dwell) == [n |-> p.n, time |-> traceTime, dwell |-> dwell]

\* flush_pending: the sink first, then the builder, then the clock of the trace.
Flushed(dwell) ==
  LET e == Event(pending[1], dwell)
  IN /\ sink' = Append(sink, e) /\ trace' = Append(trace, e)
     /\ traceTime' = traceTime + dwell

\* The chunk is shown; the one before it was on the screen until now.
Tee ==
  /\ pc = "tee"
  /\ spilt' = (spilt \/ (tty /\ screen = "primary"))
  /\ arrived' = Append(arrived, now)
  /\ \/ /\ IF pending # <<>> /\ frontend = "capture"
           THEN Flushed(now - pending[1].at) ELSE UNCHANGED <<sink, trace, traceTime>>
        /\ pending' = <<[n |-> Len(arrived'), at |-> now]>>
        /\ pc' = IF hangup THEN "ending" ELSE "loop"
        /\ UNCHANGED outcome
     \/ /\ pending # <<>> /\ frontend = "capture"      \* the sink fails
        /\ Fail /\ pending' = <<>> /\ UNCHANGED <<sink, trace, traceTime>>
  /\ UNCHANGED <<frontend, tty, todo, screen, mode, guards, child, world>>

\* The last chunk has no successor: its dwell is 0.  The child is reaped whether or
\* not the sink takes it.
Ending ==
  /\ pc = "ending" /\ pc' = "drop" /\ pending' = <<>>
  /\ child' = IF frontend = "join" THEN child ELSE "reaped"
  /\ \/ /\ IF pending # <<>> /\ frontend = "capture"
           THEN Flushed(0) ELSE UNCHANGED <<sink, trace, traceTime>>
        /\ outcome' = "ok"
     \/ /\ pending # <<>> /\ frontend = "capture"
        /\ outcome' = "error" /\ UNCHANGED <<sink, trace, traceTime>>
  /\ UNCHANGED <<frontend, tty, todo, terminal, guards, arrived, world>>

-----------------------------------------------------------------------------
\* Locals go in the reverse order of their declaration, fields of the host's Session
\* in the order of theirs.
RawFirst == frontend = "capture" \/ (frontend = "host" /\ todo # <<>>)

DropRaw ==
  /\ pc = "drop" /\ mode = "raw" /\ (RawFirst \/ ~guarded)
  /\ mode' = "cooked"
  /\ UNCHANGED <<frontend, tty, pc, todo, outcome, screen, spilt, guards, child, data, world>>

\* Nobody looks whether the terminal takes the sequence: assumed here, as of the signal's.
DropGuard ==
  /\ pc = "drop" /\ guarded /\ (~RawFirst \/ mode = "cooked")
  /\ screen' = "primary" /\ pc' = "uninstall"
  /\ UNCHANGED <<frontend, tty, todo, outcome, mode, spilt, guards, child, data, world>>

Uninstall ==
  /\ pc = "uninstall" /\ handlers > 0
  /\ handlers' = handlers - 1
  /\ UNCHANGED <<frontend, tty, pc, todo, outcome, terminal, guarded, armed, requested, child, data, world>>

Disarm ==
  /\ pc = "uninstall" /\ handlers = 0
  /\ armed' = Disarmed /\ requested' = FALSE /\ guarded' = FALSE /\ pc' = "drop"
  /\ UNCHANGED <<frontend, tty, todo, outcome, terminal, handlers, child, data, world>>

Dropped ==
  /\ pc = "drop" /\ ~guarded /\ mode = "cooked"
  /\ pc' = "over"
  /\ UNCHANGED <<frontend, tty, todo, outcome, terminal, guards, child, data, world>>

-----------------------------------------------------------------------------
\* handle_termination_signal, or the default action of a signal that has no handler.
Signal ==
  /\ pc # "over" /\ signals > 0 /\ signals' = signals - 1
  /\ \E s \in 1..TERMINATION_SIGNALS :
       IF s <= handlers
       THEN /\ requested' = TRUE
            /\ screen' = IF armed.fd /\ armed.sequence THEN "primary" ELSE screen
            /\ UNCHANGED <<pc, outcome>>
       ELSE pc' = "over" /\ outcome' = "killed" /\ UNCHANGED <<requested, screen>>
  /\ UNCHANGED <<frontend, tty, todo, mode, spilt, guarded, handlers, armed, child, data,
                 now, written, hangup>>

ChildWrites ==
  /\ child = "alive" \/ (frontend = "join" /\ pc = "loop")
  /\ pc # "over" /\ ~hangup /\ written < MaxChunks /\ written' = written + 1
  /\ UNCHANGED <<frontend, tty, pc, todo, outcome, terminal, guards, child, data, signals, now, hangup>>

ChildExits ==
  /\ pc = "loop" /\ ~hangup /\ hangup' = TRUE
  /\ UNCHANGED <<frontend, tty, pc, todo, outcome, terminal, guards, child, data, signals, now, written>>

TimePasses ==
  /\ pc \in {"loop", "tee"} /\ now < MaxTime /\ now' = now + 1
  /\ UNCHANGED <<frontend, tty, pc, todo, outcome, terminal, guards, child, data, signals, written, hangup>>

Main == \/ SetUpSink \/ Spawn \/ Alternate \/ DrawStatus \/ EnterRaw
        \/ NewGuard \/ Install \/ InstallFails \/ ClearRequest \/ Arm \/ SetUp
        \/ LeaveLoop \/ Poll \/ ReadPty \/ Tee \/ Ending
        \/ DropRaw \/ DropGuard \/ Uninstall \/ Disarm \/ Dropped

LiveNext == Main \/ StdinEnds \/ LoopFails \/ Signal \/ ChildWrites \/ ChildExits \/ TimePasses

\* poll returns at the latest after its timeout, and the terminal takes what it is given.
LiveSpec == LiveInit /\ [][LiveNext]_liveVars /\ WF_liveVars(Main)

-----------------------------------------------------------------------------
\* A viewport could not be entered: one of the writes before its guard has failed.
ViewportRefused ==
  frontend # "capture" /\ outcome = "error" /\ todo # <<>> /\ Head(todo) = "alternate"

\* However the program returns, the user's terminal is as it was: the mode of before, the
\* signals of before, no request left for the next guard, and the primary screen, the
\* last but for a viewport that could not be entered.
TerminalRestored ==
  pc = "over" /\ outcome # "killed" =>
    /\ mode = "cooked" /\ handlers = 0 /\ armed = Disarmed /\ ~requested
    /\ ViewportRefused \/ screen = "primary"

\* Every chunk read is given to the sink and recorded once, in order, at the time it
\* came and for as long as it stayed, although that is known one chunk later.
CaptureFaithful ==
  LET first == arrived[1]
      last  == pending = <<>> /\ Len(trace) = Len(arrived)
  IN /\ sink = trace
     /\ \A i \in 1..Len(trace) :
          /\ trace[i].n = i
          /\ trace[i].time = arrived[i] - first
          /\ trace[i].dwell = IF last /\ i = Len(trace) THEN 0 ELSE arrived[i + 1] - arrived[i]
     /\ (outcome = "ok" /\ frontend = "capture") => Len(trace) = Len(arrived) /\ child = "reaped"

\* A signal that the guard is armed for ends the program.
SignalObeyed == (requested /\ armed.fd) ~> (pc = "over")

\* The child's output is shown on the alternate screen only: INVARIANTS.md,
\* INVARIANT_CAPTURED_SESSION_IN_ALT_SCREEN.
OutputOnAlternate == ~spilt

\* The alternate screen is entered after the guard is installed: terminal_state.rs,
\* child_output_enter_sequence.
EnteredUnderGuard == screen = "alternate" /\ outcome # "killed" => guarded
=============================================================================
