-------------------------- MODULE RecordingProofs --------------------------
(***************************************************************************)
(* A recording, from the terminal to the proof of it.                      *)
(*                                                                         *)
(* Live: what ptyroom does to the user's terminal.  It is taken over and   *)
(* given back, for any number of signals at any time, and a live capture   *)
(* records any number of chunks that come at any times.                    *)
(*                                                                         *)
(* Evidence: what a written bundle, a matching verdict and an alarm are    *)
(* worth, for any traces, captures, contracts and orders and any number of *)
(* changes by others between any two steps.  For the first two, what a     *)
(* replay or an encoder gives is left open; the third follows the stitcher *)
(* and the renderer through a recording, byte by byte.                     *)
(***************************************************************************)
EXTENDS Live, Evidence, Integers, SharedLemmas

(* The terminal and the live capture. *)

Settling == {"setup", "install", "arm"}
Leaving  == {"drop", "uninstall", "over"}

Steps == {"sink", "spawn", "guard", "alternate", "status", "raw"}

LiveType ==
  /\ frontend \in {"capture", "host", "join"} /\ tty \in BOOLEAN
  /\ pc \in Settling \cup {"loop", "pty", "tee", "ending"} \cup Leaving
  /\ todo \in Seq(Steps)
  /\ outcome \in {"running", "ok", "error", "killed"}
  /\ guarded \in BOOLEAN /\ requested \in BOOLEAN
  /\ handlers \in 0..TERMINATION_SIGNALS
  /\ armed \in [fd : BOOLEAN, sequence : BOOLEAN]
  /\ screen \in {"primary", "alternate"} /\ mode \in {"cooked", "raw"}

\* The guard that is being installed is the next thing to do.
GuardNext == pc \in {"install", "arm"} => todo # <<>> /\ Head(todo) = "guard"

\* Nobody switches to the alternate screen but with a guard, or right before it.
Guardable(steps) ==
  \A i \in 1..Len(steps) :
    steps[i] = "alternate" =>
      \/ i < Len(steps) /\ steps[i + 1] = "guard"
      \/ \E j \in 1..(i - 1) : steps[j] = "guard"

ScreenOrder == pc \in Settling /\ ~guarded => Guardable(todo)

\* A signal without a handler ends the process there.
KilledIsOver == outcome = "killed" => pc = "over"

\* What the handler needs is there only while a guard is, or is being made.
OnlyGuarded ==
  ~guarded /\ pc \notin {"install", "arm"} /\ outcome # "killed" =>
    handlers = 0 /\ armed = Disarmed /\ ~requested

\* The alternate screen has a guard, or gets it next, or there was no getting to it.
ScreenGuarded ==
  /\ screen = "alternate" /\ ~guarded /\ outcome # "killed" =>
       \/ pc = "setup" /\ todo # <<>> /\ Head(todo) = "guard"
       \/ pc \in {"install", "arm"}
       \/ pc \in {"drop", "over"} /\ ViewportRefused
  /\ pc = "uninstall" => screen = "primary" /\ guarded

\* The terminal is left in the user's mode.
ModeLeft == pc = "over" /\ outcome # "killed" => mode = "cooked" /\ ~guarded

TerminalInv ==
  LiveType /\ GuardNext /\ ScreenOrder /\ KilledIsOver /\ OnlyGuarded /\ ScreenGuarded /\ ModeLeft

USE DEF Settling, Leaving, Disarmed, TERMINATION_SIGNALS

LEMMA RestOfSteps ==
  ASSUME NEW s \in Seq(Steps), s # <<>>
  PROVE  /\ Tail(s) \in Seq(Steps) /\ Len(s) \in Nat /\ Len(s) > 0 /\ Len(Tail(s)) = Len(s) - 1
         /\ Head(s) = s[1] /\ \A i \in 1..Len(Tail(s)) : Tail(s)[i] = s[i + 1]
         /\ Tail(s) # <<>> <=> Len(s) > 1
<1>1. /\ Tail(s) \in Seq(Steps) /\ Len(Tail(s)) = Len(s) - 1
      /\ \A i \in 1..Len(Tail(s)) : Tail(s)[i] = s[i + 1]
  BY HeadTailProperties
<1>2. Len(s) \in Nat /\ Len(s) > 0 /\ Head(s) = s[1]
  BY EmptySeq
<1>3. Tail(s) # <<>> <=> Len(Tail(s)) # 0
  BY <1>1, EmptySeq
<1> QED BY <1>1, <1>2, <1>3, SMTT(30)

\* A step that is not the guard's leaves the rest in an order that is as good.
LEMMA RestGuardable ==
  ASSUME NEW s \in Seq(Steps), s # <<>>, Guardable(s), Head(s) # "guard"
  PROVE  /\ Guardable(Tail(s))
         /\ Head(s) = "alternate" => Tail(s) # <<>> /\ Head(Tail(s)) = "guard"
<1> DEFINE t == Tail(s)
<1>1. /\ t \in Seq(Steps) /\ Len(s) \in Nat /\ Len(s) > 0 /\ Len(t) = Len(s) - 1
      /\ Head(s) = s[1] /\ \A i \in 1..Len(t) : t[i] = s[i + 1]
      /\ t # <<>> <=> Len(s) > 1
  BY RestOfSteps
<1>2. t # <<>> => Head(t) = t[1]
  BY <1>1, RestOfSteps
<1> HIDE DEF t
<1>3. ASSUME NEW i \in 1..Len(t), t[i] = "alternate"
      PROVE  \/ i < Len(t) /\ t[i + 1] = "guard"
             \/ \E j \in 1..(i - 1) : t[j] = "guard"
  <2>1. i + 1 \in 1..Len(s) /\ s[i + 1] = "alternate"
    BY <1>1, <1>3
  <2>2. CASE i + 1 < Len(s) /\ s[i + 1 + 1] = "guard"
    BY <1>1, <2>2
  <2>3. CASE \E j \in 1..(i + 1 - 1) : s[j] = "guard"
    <3>1. PICK j \in 1..i : s[j] = "guard"
      BY <2>3
    <3>2. j # 1
      BY <1>1, <3>1
    <3>3. j - 1 \in 1..(i - 1) /\ t[j - 1] = s[j]
      BY <1>1, <3>2, SMTT(30)
    <3> QED BY <3>1, <3>3
  <2> QED BY <2>1, <2>2, <2>3 DEF Guardable
<1>4. Guardable(t)
  BY <1>3 DEF Guardable
<1>5. Head(s) = "alternate" => t # <<>> /\ Head(t) = "guard"
  BY <1>1, <1>2 DEF Guardable
<1> QED BY <1>4, <1>5 DEF t

LEMMA SetupGuardable ==
  ASSUME NEW f \in {"capture", "host", "join"}, NEW onTty \in BOOLEAN
  PROVE  Setup(f, onTty) \in Seq(Steps) /\ Guardable(Setup(f, onTty))
<1>1. /\ <<"sink", "spawn", "guard", "alternate", "raw">> \in Seq(Steps)
      /\ <<"sink", "spawn", "raw">> \in Seq(Steps)
      /\ <<"alternate", "guard", "status", "raw", "spawn">> \in Seq(Steps)
      /\ <<"raw", "spawn">> \in Seq(Steps)
      /\ <<"raw", "alternate", "guard", "status">> \in Seq(Steps)
      /\ <<>> \in Seq(Steps)
  <2>1. <<"sink", "spawn", "guard", "alternate", "raw">> \in Seq(Steps)
    BY DEF Steps
  <2>2. <<"sink", "spawn", "raw">> \in Seq(Steps)
    BY DEF Steps
  <2>3. <<"alternate", "guard", "status", "raw", "spawn">> \in Seq(Steps)
    BY DEF Steps
  <2>4. <<"raw", "spawn">> \in Seq(Steps)
    BY DEF Steps
  <2>5. <<"raw", "alternate", "guard", "status">> \in Seq(Steps)
    BY DEF Steps
  <2>6. <<>> \in Seq(Steps)
    BY DEF Steps
  <2> QED BY <2>1, <2>2, <2>3, <2>4, <2>5, <2>6
<1>2. Guardable(<<"sink", "spawn", "guard", "alternate", "raw">>)
  BY DEF Guardable
<1>3. Guardable(<<"sink", "spawn", "raw">>)
  BY DEF Guardable
<1>4. Guardable(<<"alternate", "guard", "status", "raw", "spawn">>)
  BY DEF Guardable
<1>5. Guardable(<<"raw", "spawn">>)
  BY DEF Guardable
<1>6. Guardable(<<"raw", "alternate", "guard", "status">>)
  BY DEF Guardable
<1>7. Guardable(<<>>)
  BY DEF Guardable
<1>8. CASE f = "capture"
  BY <1>1, <1>2, <1>3, <1>8 DEF Setup
<1>9. CASE f = "host"
  BY <1>1, <1>4, <1>5, <1>9 DEF Setup
<1>10. CASE f = "join"
  BY <1>1, <1>6, <1>7, <1>10 DEF Setup
<1> QED BY <1>8, <1>9, <1>10

LEMMA TerminalInit == LiveInit => TerminalInv
<1> SUFFICES ASSUME LiveInit PROVE TerminalInv
  OBVIOUS
<1>1. frontend \in {"capture", "host", "join"} /\ tty \in BOOLEAN
  BY FrontendsAssumption DEF LiveInit
<1>2. todo \in Seq(Steps) /\ Guardable(todo)
  <2> DEFINE s == Setup(frontend, tty)
  <2>1. s \in Seq(Steps) /\ Guardable(s)
    BY <1>1, SetupGuardable
  <2>2. todo = s
    BY DEF LiveInit
  <2> HIDE DEF s
  <2> QED BY <2>1, <2>2
<1>3. handlers \in 0..TERMINATION_SIGNALS /\ armed \in [fd : BOOLEAN, sequence : BOOLEAN]
  BY DEF LiveInit
<1>4. LiveType
  BY <1>1, <1>2, <1>3 DEF LiveInit, LiveType
<1> QED
  BY <1>2, <1>4
  DEF LiveInit, TerminalInv, GuardNext, ScreenOrder, KilledIsOver, OnlyGuarded, ScreenGuarded, ModeLeft

LEMMA TerminalStep == TerminalInv /\ [LiveNext]_liveVars => TerminalInv'
<1> SUFFICES ASSUME TerminalInv, [LiveNext]_liveVars PROVE TerminalInv'
  OBVIOUS
<1> USE DEF terminal, guards, data, world, ViewportRefused
<1>t. LiveType
  BY DEF TerminalInv
<1>r. todo # <<>> =>
        /\ Tail(todo) \in Seq(Steps) /\ Len(Tail(todo)) \in Nat
        /\ Guardable(todo) /\ Head(todo) # "guard" =>
             /\ Guardable(Tail(todo))
             /\ Head(todo) = "alternate" => Tail(todo) # <<>> /\ Head(Tail(todo)) = "guard"
  <2> SUFFICES ASSUME todo # <<>>
               PROVE  /\ Tail(todo) \in Seq(Steps) /\ Len(Tail(todo)) \in Nat
                      /\ Guardable(todo) /\ Head(todo) # "guard" =>
                           /\ Guardable(Tail(todo))
                           /\ Head(todo) = "alternate" =>
                                Tail(todo) # <<>> /\ Head(Tail(todo)) = "guard"
    OBVIOUS
  <2>1. todo \in Seq(Steps)
    BY <1>t DEF LiveType
  <2>2. Tail(todo) \in Seq(Steps) /\ Len(Tail(todo)) \in Nat
    BY <2>1, RestOfSteps
  <2>3. ASSUME Guardable(todo), Head(todo) # "guard"
        PROVE  /\ Guardable(Tail(todo))
               /\ Head(todo) = "alternate" => Tail(todo) # <<>> /\ Head(Tail(todo)) = "guard"
    BY <2>1, <2>3, RestGuardable
  <2> QED BY <2>2, <2>3
<1>1. CASE SetUpSink \/ Spawn \/ DrawStatus \/ EnterRaw
  <2>1. /\ pc = "setup" /\ todo # <<>> /\ Head(todo) # "guard"
        /\ UNCHANGED <<frontend, tty, screen, guarded, handlers, armed, requested>>
        /\ mode' = mode \/ mode' = "raw"
        /\ \/ todo' = Tail(todo) /\ pc' = pc /\ outcome' = outcome
           \/ pc' = "drop" /\ outcome' = "error" /\ todo' = todo /\ mode' = mode
    BY <1>1 DEF SetUpSink, Spawn, DrawStatus, EnterRaw, At, Done, Fail
  <2>2. CASE pc' = "drop" /\ outcome' = "error" /\ todo' = todo /\ mode' = mode
    BY <2>1, <2>2
    DEF TerminalInv, LiveType, GuardNext, ScreenOrder, KilledIsOver, OnlyGuarded, ScreenGuarded, ModeLeft
  <2>3. CASE todo' = Tail(todo) /\ pc' = pc /\ outcome' = outcome
    BY <2>1, <2>3, <1>r
    DEF TerminalInv, LiveType, GuardNext, ScreenOrder, KilledIsOver, OnlyGuarded, ScreenGuarded, ModeLeft
  <2> QED BY <2>1, <2>2, <2>3
<1>4. CASE Alternate
  <2>1. /\ pc = "setup" /\ todo # <<>> /\ Head(todo) = "alternate"
        /\ UNCHANGED <<frontend, tty, mode, guarded, handlers, armed, requested>>
        /\ screen' \in {screen, "alternate"}
        /\ \/ todo' = Tail(todo) /\ pc' = pc /\ outcome' = outcome
           \/ frontend # "capture" /\ pc' = "drop" /\ outcome' = "error" /\ todo' = todo
    BY <1>4 DEF Alternate, At, Done, Fail
  <2>2. CASE todo' = Tail(todo) /\ pc' = pc /\ outcome' = outcome
    BY <2>1, <2>2, <1>r
    DEF TerminalInv, LiveType, GuardNext, ScreenOrder, KilledIsOver, OnlyGuarded, ScreenGuarded, ModeLeft
  <2>3. CASE frontend # "capture" /\ pc' = "drop" /\ outcome' = "error" /\ todo' = todo
    BY <2>1, <2>3
    DEF TerminalInv, LiveType, GuardNext, ScreenOrder, KilledIsOver, OnlyGuarded, ScreenGuarded, ModeLeft
  <2> QED BY <2>1, <2>2, <2>3
<1>5. CASE NewGuard \/ Install \/ InstallFails
  <2>1. CASE NewGuard
    BY <2>1, <1>r
    DEF NewGuard, At, Done,
        TerminalInv, LiveType, GuardNext, ScreenOrder, KilledIsOver, OnlyGuarded, ScreenGuarded, ModeLeft
  <2>2. CASE Install
    BY <2>2, <1>r
    DEF Install, At, Done,
        TerminalInv, LiveType, GuardNext, ScreenOrder, KilledIsOver, OnlyGuarded, ScreenGuarded, ModeLeft
  <2>3. CASE InstallFails
    BY <2>3, <1>r
    DEF InstallFails, At, Done,
        TerminalInv, LiveType, GuardNext, ScreenOrder, KilledIsOver, OnlyGuarded, ScreenGuarded, ModeLeft
  <2> QED BY <1>5, <2>1, <2>2, <2>3
<1>6. CASE ClearRequest \/ SetUp
  <2>1. CASE ClearRequest
    BY <2>1, ZenonT(30)
    DEF ClearRequest,
        TerminalInv, LiveType, GuardNext, ScreenOrder, KilledIsOver, OnlyGuarded, ScreenGuarded, ModeLeft
  <2>2. CASE SetUp
    BY <2>2
    DEF SetUp,
        TerminalInv, LiveType, GuardNext, ScreenOrder, KilledIsOver, OnlyGuarded, ScreenGuarded, ModeLeft
  <2> QED BY <1>6, <2>1, <2>2
<1>7. CASE Arm
  BY <1>7, <1>r, ZenonT(30)
  DEF Arm, Done,
      TerminalInv, LiveType, GuardNext, ScreenOrder, KilledIsOver, OnlyGuarded, ScreenGuarded, ModeLeft
<1>8. CASE LeaveLoop \/ Poll \/ ReadPty \/ StdinEnds \/ LoopFails
  BY <1>8
  DEF LeaveLoop, Poll, ReadPty, StdinEnds, LoopFails, Fail,
      TerminalInv, LiveType, GuardNext, ScreenOrder, KilledIsOver, OnlyGuarded, ScreenGuarded, ModeLeft
<1>9. CASE Tee \/ Ending
  <2>1. /\ UNCHANGED <<frontend, tty, todo, guards, screen, mode>>
        /\ pc' \in {"loop", "ending", "drop"} /\ pc \in {"tee", "ending"}
        /\ outcome' \in {outcome, "ok", "error"}
    BY <1>9, Zenon DEF Tee, Ending, Fail
  <2> QED
    BY <2>1
    DEF TerminalInv, LiveType, GuardNext, ScreenOrder, KilledIsOver, OnlyGuarded, ScreenGuarded, ModeLeft
<1>10. CASE DropRaw \/ DropGuard \/ Dropped
  <2>1. CASE DropRaw
    BY <2>1
    DEF DropRaw, RawFirst,
        TerminalInv, LiveType, GuardNext, ScreenOrder, KilledIsOver, OnlyGuarded, ScreenGuarded, ModeLeft
  <2>2. CASE DropGuard
    BY <2>2
    DEF DropGuard, RawFirst,
        TerminalInv, LiveType, GuardNext, ScreenOrder, KilledIsOver, OnlyGuarded, ScreenGuarded, ModeLeft
  <2>3. CASE Dropped
    BY <2>3
    DEF Dropped, RawFirst,
        TerminalInv, LiveType, GuardNext, ScreenOrder, KilledIsOver, OnlyGuarded, ScreenGuarded, ModeLeft
  <2> QED BY <1>10, <2>1, <2>2, <2>3
<1>11. CASE Uninstall \/ Disarm
  <2>1. CASE Uninstall
    BY <2>1
    DEF Uninstall,
        TerminalInv, LiveType, GuardNext, ScreenOrder, KilledIsOver, OnlyGuarded, ScreenGuarded, ModeLeft
  <2>2. CASE Disarm
    BY <2>2
    DEF Disarm,
        TerminalInv, LiveType, GuardNext, ScreenOrder, KilledIsOver, OnlyGuarded, ScreenGuarded, ModeLeft
  <2> QED BY <1>11, <2>1, <2>2
<1>12. CASE Signal
  <2>1. /\ UNCHANGED <<frontend, tty, todo, mode, guarded, handlers, armed>>
        /\ pc # "over"
        /\ \/ /\ handlers > 0 /\ requested' = TRUE
              /\ screen' = screen \/ screen' = "primary"
              /\ UNCHANGED <<pc, outcome>>
           \/ pc' = "over" /\ outcome' = "killed" /\ requested' = requested /\ screen' = screen
    BY <1>12, <1>t DEF Signal, LiveType
  <2>2. CASE /\ handlers > 0 /\ requested' = TRUE
             /\ screen' = screen \/ screen' = "primary"
             /\ UNCHANGED <<pc, outcome>>
    BY <2>1, <2>2
    DEF TerminalInv, LiveType, GuardNext, ScreenOrder, KilledIsOver, OnlyGuarded, ScreenGuarded, ModeLeft
  <2>3. CASE pc' = "over" /\ outcome' = "killed" /\ requested' = requested /\ screen' = screen
    BY <2>1, <2>3
    DEF TerminalInv, LiveType, GuardNext, ScreenOrder, KilledIsOver, OnlyGuarded, ScreenGuarded, ModeLeft
  <2> QED BY <2>1, <2>2, <2>3
<1>13. CASE ChildWrites \/ ChildExits \/ TimePasses \/ UNCHANGED liveVars
  <2>1. UNCHANGED <<frontend, tty, pc, todo, outcome, terminal, guards>>
    BY <1>13, Zenon DEF ChildWrites, ChildExits, TimePasses, liveVars
  <2> QED
    BY <2>1
    DEF TerminalInv, LiveType, GuardNext, ScreenOrder, KilledIsOver, OnlyGuarded, ScreenGuarded, ModeLeft
<1> QED
  BY <1>1, <1>4, <1>5, <1>6, <1>7, <1>8, <1>9, <1>10, <1>11, <1>12, <1>13 DEF LiveNext, Main

\* However the program returns, and whenever its signals come, the user has the terminal
\* as it was: the mode, the signals' actions, no request left behind, and the screen.  Only
\* where a viewport could not be entered may the screen be left as it is, and there the
\* rest is restored nevertheless.
THEOREM TerminalGivenBack == LiveSpec => []TerminalRestored
<1>1. TerminalInv => TerminalRestored
  BY DEF TerminalInv, LiveType, OnlyGuarded, ScreenGuarded, ModeLeft, TerminalRestored
<1> QED BY TerminalInit, TerminalStep, <1>1, PTL DEF LiveSpec

-----------------------------------------------------------------------------
Chunk == [n : Nat, at : Int]
Recorded == [n : Nat, time : Int, dwell : Int]

DataType ==
  /\ frontend \in {"capture", "host", "join"}
  /\ pc \in Settling \cup {"loop", "pty", "tee", "ending"} \cup Leaving
  /\ outcome \in {"running", "ok", "error", "killed"}
  /\ now \in Int /\ arrived \in Seq(Int) /\ traceTime \in Int
  /\ trace \in Seq(Recorded) /\ sink = trace
  /\ pending = <<>> \/ \E p \in Chunk : pending = <<p>>
  /\ outcome = "ok" => pc \in Leaving /\ pending = <<>>

\* The chunk that waits is the last that was read, and the recording has all before it.
PendingIsLast ==
  frontend = "capture" /\ pending # <<>> =>
    /\ arrived # <<>>
    /\ pending[1] = [n |-> Len(arrived), at |-> arrived[Len(arrived)]]
    /\ Len(trace) = Len(arrived) - 1
    /\ traceTime = arrived[Len(arrived)] - arrived[1]

NothingPending ==
  /\ frontend = "capture" /\ pending = <<>> /\ pc \notin Leaving =>
       arrived = <<>> /\ trace = <<>> /\ traceTime = 0
  /\ frontend # "capture" => trace = <<>>
  /\ Len(trace) <= Len(arrived)

\* Every event but the last one lasted until the next chunk came.
EventsTimed ==
  \A i \in 1..Len(trace) :
    /\ trace[i].n = i
    /\ trace[i].time = arrived[i] - arrived[1]
    /\ IF pending = <<>> /\ Len(trace) = Len(arrived) /\ i = Len(trace)
       THEN trace[i].dwell = 0
       ELSE i < Len(arrived) /\ trace[i].dwell = arrived[i + 1] - arrived[i]

AllFlushed ==
  outcome = "ok" /\ frontend = "capture" => Len(trace) = Len(arrived) /\ child = "reaped"

CaptureInv == DataType /\ PendingIsLast /\ NothingPending /\ EventsTimed /\ AllFlushed

LEMMA OneMore ==
  ASSUME NEW S, NEW s \in Seq(S), NEW e \in S
  PROVE  /\ Append(s, e) \in Seq(S) /\ Append(s, e) # <<>>
         /\ Len(s) \in Nat /\ Len(Append(s, e)) = Len(s) + 1
         /\ \A i \in 1..Len(s) : Append(s, e)[i] = s[i]
         /\ Append(s, e)[Len(s) + 1] = e
  BY AppendProperties

LEMMA CaptureInit == LiveInit => CaptureInv
<1> SUFFICES ASSUME LiveInit PROVE CaptureInv
  OBVIOUS
<1>1. frontend \in {"capture", "host", "join"}
  BY FrontendsAssumption DEF LiveInit
<1>2. arrived = <<>> /\ pending = <<>> /\ trace = <<>> /\ sink = <<>> /\ traceTime = 0 /\ now = 0
  BY DEF LiveInit
<1>3. Len(trace) = 0 /\ Len(arrived) = 0
  BY <1>2
<1>4. DataType
  BY <1>1, <1>2 DEF LiveInit, DataType
<1>5. PendingIsLast /\ NothingPending /\ EventsTimed
  BY <1>2, <1>3 DEF PendingIsLast, NothingPending, EventsTimed
<1> QED BY <1>4, <1>5 DEF LiveInit, AllFlushed, CaptureInv

\* flush_pending takes the chunk that waits: it has been on the screen for `dwell`.
LEMMA FlushRecords ==
  ASSUME CaptureInv, frontend = "capture", pending # <<>>, NEW dwell \in Int, Flushed(dwell)
  PROVE  /\ trace' \in Seq(Recorded) /\ sink' = trace'
         /\ Len(arrived) \in Nat /\ Len(arrived) > 0
         /\ Len(trace) = Len(arrived) - 1 /\ Len(trace') = Len(arrived)
         /\ traceTime' = arrived[Len(arrived)] - arrived[1] + dwell
         /\ \A i \in 1..(Len(arrived) - 1) : trace'[i] = trace[i]
         /\ trace'[Len(arrived)] =
              [n |-> Len(arrived), time |-> arrived[Len(arrived)] - arrived[1], dwell |-> dwell]
<1>1. /\ arrived \in Seq(Int) /\ arrived # <<>>
      /\ trace \in Seq(Recorded) /\ sink = trace
      /\ pending[1] = [n |-> Len(arrived), at |-> arrived[Len(arrived)]]
      /\ Len(trace) = Len(arrived) - 1
      /\ traceTime = arrived[Len(arrived)] - arrived[1]
  BY DEF CaptureInv, DataType, PendingIsLast
<1>2. /\ Len(arrived) \in Nat /\ Len(arrived) > 0
      /\ arrived[1] \in Int /\ arrived[Len(arrived)] \in Int
  BY <1>1, EmptySeq
<1> DEFINE e == [n |-> Len(arrived), time |-> arrived[Len(arrived)] - arrived[1], dwell |-> dwell]
<1>3. Event(pending[1], dwell) = e
  BY <1>1 DEF Event
<1>4. e \in Recorded
  BY <1>2 DEF Recorded
<1> HIDE DEF e
<1>5. /\ sink' = Append(sink, e) /\ trace' = Append(trace, e)
      /\ traceTime' = traceTime + dwell
  BY <1>3 DEF Flushed
<1>6. /\ trace' \in Seq(Recorded) /\ sink' = trace' /\ Len(trace') = Len(trace) + 1
      /\ \A i \in 1..Len(trace) : trace'[i] = trace[i]
      /\ trace'[Len(trace) + 1] = e
  BY <1>1, <1>4, <1>5, OneMore
<1>7. Len(trace') = Len(arrived) /\ Len(trace) + 1 = Len(arrived)
  BY <1>1, <1>2, <1>6
<1>8. trace'[Len(arrived)] = e
  BY <1>6, <1>7
<1>9. \A i \in 1..(Len(arrived) - 1) : trace'[i] = trace[i]
  BY <1>1, <1>6
<1> QED BY <1>1, <1>2, <1>5, <1>6, <1>7, <1>8, <1>9 DEF e

\* A chunk is read and shown.
LEMMA TeeStep == CaptureInv /\ Tee => CaptureInv'
<1> SUFFICES ASSUME CaptureInv, Tee PROVE CaptureInv'
  OBVIOUS
<1> USE DEF terminal, guards, world
<1> DEFINE L == Len(arrived)
<1>t. /\ frontend \in {"capture", "host", "join"} /\ now \in Int
      /\ arrived \in Seq(Int) /\ traceTime \in Int /\ trace \in Seq(Recorded) /\ sink = trace
      /\ outcome # "ok" /\ outcome \in {"running", "error", "killed"} /\ Len(trace) <= Len(arrived)
      /\ pc = "tee" /\ (pending = <<>> \/ \E p \in Chunk : pending = <<p>>)
  BY DEF CaptureInv, DataType, NothingPending, Tee
<1>e. /\ UNCHANGED <<frontend, now, child>> /\ arrived' = Append(arrived, now)
  BY DEF Tee
<1>a. /\ arrived' \in Seq(Int) /\ arrived' # <<>> /\ L \in Nat /\ Len(arrived') = L + 1
      /\ \A i \in 1..L : arrived'[i] = arrived[i]
      /\ arrived'[L + 1] = now
      /\ Len(trace) \in Nat
  BY <1>t, <1>e, OneMore, SMTT(30)
<1>n. [n |-> Len(arrived'), at |-> now] \in Chunk
  BY <1>t, <1>a DEF Chunk
<1>1. CASE frontend # "capture"
  <2>1. trace = <<>>
    BY <1>1 DEF CaptureInv, NothingPending
  <2>2. /\ UNCHANGED <<sink, trace, traceTime, outcome>>
        /\ pending' = <<[n |-> Len(arrived'), at |-> now]>> /\ pc' \in {"ending", "loop"}
    BY <1>1 DEF Tee
  <2>3. Len(trace') = 0
    BY <2>1, <2>2
  <2>4. DataType'
    BY <1>t, <1>e, <1>a, <1>n, <2>2 DEF DataType
  <2>5. (PendingIsLast /\ NothingPending)'
    BY <1>1, <1>a, <1>e, <2>1, <2>2, <2>3 DEF PendingIsLast, NothingPending
  <2>6. (EventsTimed /\ AllFlushed)'
    BY <1>1, <1>e, <2>3 DEF EventsTimed, AllFlushed
  <2> QED BY <2>4, <2>5, <2>6 DEF CaptureInv
<1>2. CASE frontend = "capture" /\ pending = <<>>
  <2>1. arrived = <<>> /\ trace = <<>> /\ traceTime = 0
    BY <1>2, <1>t DEF CaptureInv, NothingPending
  <2>2. /\ UNCHANGED <<sink, trace, traceTime, outcome>>
        /\ pending' = <<[n |-> Len(arrived'), at |-> now]>> /\ pc' \in {"ending", "loop"}
    BY <1>2 DEF Tee
  <2>3. Len(trace') = 0 /\ L = 0
    BY <2>1, <2>2
  <2>4. DataType'
    BY <1>t, <1>e, <1>a, <1>n, <2>2 DEF DataType
  <2>5. pending' # <<>> /\ pending'[1] = [n |-> Len(arrived'), at |-> now]
    BY <2>2
  <2>6. PendingIsLast'
    BY <1>a, <1>t, <2>1, <2>2, <2>3, <2>5 DEF PendingIsLast
  <2>7. NothingPending'
    BY <1>2, <1>e, <1>a, <2>3, <2>5 DEF NothingPending
  <2>8. (EventsTimed /\ AllFlushed)'
    BY <1>t, <2>2, <2>3 DEF EventsTimed, AllFlushed
  <2> QED BY <2>4, <2>6, <2>7, <2>8 DEF CaptureInv
<1>3. CASE frontend = "capture" /\ pending # <<>>
  <2>p. /\ L > 0 /\ pending[1] = [n |-> L, at |-> arrived[L]] /\ Len(trace) = L - 1
        /\ arrived[L] \in Int /\ arrived[1] \in Int
    BY <1>3, <1>t, <1>a, EmptySeq DEF CaptureInv, PendingIsLast
  <2>o. \A i \in 1..(L - 1) :
          /\ trace[i].n = i /\ trace[i].time = arrived[i] - arrived[1]
          /\ trace[i].dwell = arrived[i + 1] - arrived[i]
    BY <1>3, <2>p DEF CaptureInv, EventsTimed
  <2>1. CASE /\ Flushed(now - pending[1].at)
             /\ pending' = <<[n |-> Len(arrived'), at |-> now]>>
             /\ pc' = IF hangup THEN "ending" ELSE "loop"
             /\ outcome' = outcome
    <3>1. pending[1].at = arrived[L]
      BY <2>p
    <3>2. /\ trace' \in Seq(Recorded) /\ sink' = trace' /\ Len(trace') = L
          /\ traceTime' = arrived[L] - arrived[1] + (now - arrived[L])
          /\ \A i \in 1..(L - 1) : trace'[i] = trace[i]
          /\ trace'[L] = [n |-> L, time |-> arrived[L] - arrived[1], dwell |-> now - arrived[L]]
      <4>1. now - arrived[L] \in Int /\ Flushed(now - arrived[L])
        BY <1>t, <2>p, <2>1, <3>1
      <4> QED BY <1>3, <4>1, FlushRecords
    <3>3. traceTime' = now - arrived[1]
      BY <1>t, <2>p, <3>2
    <3>4. pending' # <<>> /\ pending'[1] = [n |-> L + 1, at |-> now] /\ pc' \in {"ending", "loop"}
      BY <1>a, <2>1
    <3>5. DataType'
      BY <1>t, <1>e, <1>a, <1>n, <2>p, <2>1, <3>2, <3>3, SMTT(30) DEF DataType
    <3>6. (PendingIsLast /\ NothingPending)'
      BY <1>3, <1>e, <1>a, <2>p, <3>2, <3>3, <3>4 DEF PendingIsLast, NothingPending
    <3>7. ASSUME NEW i \in 1..L
          PROVE  /\ trace'[i].n = i /\ trace'[i].time = arrived'[i] - arrived'[1]
                 /\ i < Len(arrived') /\ trace'[i].dwell = arrived'[i + 1] - arrived'[i]
      <4>0. arrived'[i] = arrived[i] /\ arrived'[1] = arrived[1] /\ i < Len(arrived')
        BY <1>a, <2>p, <3>7
      <4>1. CASE i = L
        BY <1>a, <3>2, <4>0, <4>1
      <4>2. CASE i # L
        <5>1. i \in 1..(L - 1) /\ i + 1 \in 1..L
          BY <1>a, <3>7, <4>2
        <5> QED BY <5>1, <1>a, <2>o, <3>2, <4>0
      <4> QED BY <4>1, <4>2
    <3>8. EventsTimed'
      BY <3>2, <3>4, <3>7 DEF EventsTimed
    <3>9. AllFlushed'
      BY <1>t, <2>1 DEF AllFlushed
    <3> QED BY <3>5, <3>6, <3>8, <3>9 DEF CaptureInv
  <2>2. CASE /\ pc' = "drop" /\ outcome' = "error"
             /\ pending' = <<>> /\ UNCHANGED <<sink, trace, traceTime>>
    <3>1. DataType'
      BY <1>t, <1>e, <1>a, <2>2 DEF DataType
    <3>2. (PendingIsLast /\ NothingPending /\ AllFlushed)'
      BY <1>3, <1>e, <1>a, <2>p, <2>2 DEF PendingIsLast, NothingPending, AllFlushed
    <3>3. ASSUME NEW i \in 1..Len(trace')
          PROVE  /\ trace'[i].n = i /\ trace'[i].time = arrived'[i] - arrived'[1]
                 /\ i < Len(arrived') /\ trace'[i].dwell = arrived'[i + 1] - arrived'[i]
      <4>1. i \in 1..(L - 1) /\ i + 1 \in 1..L /\ i \in 1..L /\ 1 \in 1..L
        BY <1>a, <2>p, <2>2, <3>3
      <4> QED BY <4>1, <1>a, <2>o, <2>2
    <3>4. Len(trace') # Len(arrived')
      BY <1>a, <2>p, <2>2
    <3>5. EventsTimed'
      BY <3>3, <3>4 DEF EventsTimed
    <3> QED BY <3>1, <3>2, <3>5 DEF CaptureInv
  <2> QED BY <1>3, <2>1, <2>2 DEF Tee, Fail
<1> QED BY <1>1, <1>2, <1>3

\* The loop has ended: the last chunk has no successor.
LEMMA EndingStep == CaptureInv /\ Ending => CaptureInv'
<1> SUFFICES ASSUME CaptureInv, Ending PROVE CaptureInv'
  OBVIOUS
<1> USE DEF terminal, guards, world
<1> DEFINE L == Len(arrived)
<1>t. /\ frontend \in {"capture", "host", "join"} /\ now \in Int
      /\ arrived \in Seq(Int) /\ traceTime \in Int /\ trace \in Seq(Recorded) /\ sink = trace
      /\ Len(trace) <= Len(arrived) /\ pc = "ending" /\ L \in Nat /\ Len(trace) \in Nat
  BY DEF CaptureInv, DataType, NothingPending, Ending
<1>e. /\ UNCHANGED <<frontend, now, arrived>> /\ pc' = "drop" /\ pending' = <<>>
      /\ outcome' \in {"ok", "error"}
      /\ frontend = "capture" => child' = "reaped"
  BY <1>t DEF Ending
<1>1. CASE frontend # "capture"
  <2>1. trace = <<>>
    BY <1>1 DEF CaptureInv, NothingPending
  <2>2. UNCHANGED <<sink, trace, traceTime>>
    BY <1>1 DEF Ending
  <2>3. Len(trace') = 0
    BY <2>1, <2>2
  <2>4. DataType'
    BY <1>t, <1>e, <2>2 DEF DataType
  <2>5. (PendingIsLast /\ NothingPending)'
    BY <1>1, <1>t, <1>e, <2>1, <2>2, <2>3 DEF PendingIsLast, NothingPending
  <2>6. (EventsTimed /\ AllFlushed)'
    BY <1>1, <1>e, <2>3 DEF EventsTimed, AllFlushed
  <2> QED BY <2>4, <2>5, <2>6 DEF CaptureInv
<1>2. CASE frontend = "capture" /\ pending = <<>>
  <2>1. arrived = <<>> /\ trace = <<>>
    BY <1>2, <1>t DEF CaptureInv, NothingPending
  <2>2. UNCHANGED <<sink, trace, traceTime>>
    BY <1>2 DEF Ending
  <2>3. Len(trace') = 0 /\ Len(arrived') = 0
    BY <1>e, <2>1, <2>2
  <2>4. DataType'
    BY <1>t, <1>e, <2>2 DEF DataType
  <2>5. (PendingIsLast /\ NothingPending)'
    BY <1>2, <1>t, <1>e, <2>1, <2>2, <2>3 DEF PendingIsLast, NothingPending
  <2>6. (EventsTimed /\ AllFlushed)'
    BY <1>2, <1>e, <2>3 DEF EventsTimed, AllFlushed
  <2> QED BY <2>4, <2>5, <2>6 DEF CaptureInv
<1>3. CASE frontend = "capture" /\ pending # <<>>
  <2>p. L > 0 /\ Len(trace) = L - 1 /\ arrived[L] \in Int /\ arrived[1] \in Int
    BY <1>3, <1>t, EmptySeq DEF CaptureInv, PendingIsLast
  <2>o. \A i \in 1..(L - 1) :
          /\ trace[i].n = i /\ trace[i].time = arrived[i] - arrived[1]
          /\ trace[i].dwell = arrived[i + 1] - arrived[i]
    BY <1>3, <2>p DEF CaptureInv, EventsTimed
  <2>1. CASE Flushed(0) /\ outcome' = "ok"
    <3>1. /\ trace' \in Seq(Recorded) /\ sink' = trace' /\ Len(trace') = L
          /\ traceTime' = arrived[L] - arrived[1] + 0
          /\ \A i \in 1..(L - 1) : trace'[i] = trace[i]
          /\ trace'[L] = [n |-> L, time |-> arrived[L] - arrived[1], dwell |-> 0]
      BY <1>3, <2>1, FlushRecords
    <3>2. DataType'
      BY <1>t, <1>e, <2>p, <3>1 DEF DataType
    <3>3. (PendingIsLast /\ NothingPending /\ AllFlushed)'
      BY <1>3, <1>t, <1>e, <3>1 DEF PendingIsLast, NothingPending, AllFlushed
    <3>4. ASSUME NEW i \in 1..L
          PROVE  /\ trace'[i].n = i /\ trace'[i].time = arrived[i] - arrived[1]
                 /\ IF i = L THEN trace'[i].dwell = 0
                    ELSE i < L /\ trace'[i].dwell = arrived[i + 1] - arrived[i]
      <4>1. CASE i = L
        BY <3>1, <4>1
      <4>2. CASE i # L
        <5>1. i \in 1..(L - 1) /\ i < L
          BY <1>t, <3>4, <4>2
        <5> QED BY <5>1, <2>o, <3>1
      <4> QED BY <4>1, <4>2
    <3>5. EventsTimed'
      BY <1>e, <3>1, <3>4 DEF EventsTimed
    <3> QED BY <3>2, <3>3, <3>5 DEF CaptureInv
  <2>2. CASE outcome' = "error" /\ UNCHANGED <<sink, trace, traceTime>>
    <3>1. DataType'
      BY <1>t, <1>e, <2>2 DEF DataType
    <3>2. (PendingIsLast /\ NothingPending /\ AllFlushed)'
      BY <1>3, <1>t, <1>e, <2>2 DEF PendingIsLast, NothingPending, AllFlushed
    <3>3. ASSUME NEW i \in 1..Len(trace')
          PROVE  /\ trace'[i].n = i /\ trace'[i].time = arrived[i] - arrived[1]
                 /\ i < L /\ trace'[i].dwell = arrived[i + 1] - arrived[i]
      <4>1. i \in 1..(L - 1) /\ i < L
        BY <1>t, <2>p, <2>2, <3>3
      <4> QED BY <4>1, <2>o, <2>2
    <3>4. Len(trace') # Len(arrived')
      BY <1>t, <1>e, <2>p, <2>2
    <3>5. EventsTimed'
      BY <1>e, <3>3, <3>4 DEF EventsTimed
    <3> QED BY <3>1, <3>2, <3>5 DEF CaptureInv
  <2> QED BY <1>3, <2>1, <2>2 DEF Ending
<1> QED BY <1>1, <1>2, <1>3

\* No other step reads or records anything, or comes back from the end of the loop.
LEMMA CaptureStep == CaptureInv /\ [LiveNext]_liveVars => CaptureInv'
<1> SUFFICES ASSUME CaptureInv, [LiveNext]_liveVars PROVE CaptureInv'
  OBVIOUS
<1> USE DEF terminal, guards, data, world
<1>t. /\ frontend \in {"capture", "host", "join"}
      /\ pc \in Settling \cup {"loop", "pty", "tee", "ending"} \cup Leaving
      /\ outcome \in {"running", "ok", "error", "killed"}
      /\ now \in Int
      /\ outcome = "ok" => pc \in Leaving
  BY DEF CaptureInv, DataType
<1> DEFINE Places == Settling \cup {"loop", "pty", "tee", "ending"} \cup Leaving
           Quiet ==
             /\ UNCHANGED <<frontend, arrived, pending, traceTime, sink, trace>>
             /\ now' \in Int /\ pc' \in Places
             /\ outcome' \in {outcome, "error", "killed"}
             /\ pc \in Leaving => pc' \in Leaving
             /\ outcome' = "ok" => child' = child
<1>q. ASSUME Quiet PROVE CaptureInv'
  <2>1. DataType'
    BY <1>t, <1>q DEF CaptureInv, DataType
  <2>2. (PendingIsLast /\ NothingPending)'
    BY <1>q DEF CaptureInv, PendingIsLast, NothingPending
  <2>3. EventsTimed'
    BY <1>q DEF CaptureInv, EventsTimed
  <2>4. AllFlushed'
    BY <1>q DEF CaptureInv, AllFlushed
  <2> QED BY <2>1, <2>2, <2>3, <2>4 DEF CaptureInv
<1>1. CASE Tee
  BY <1>1, TeeStep
<1>2. CASE Ending
  BY <1>2, EndingStep
<1>3. CASE SetUpSink \/ Spawn
  <2>1. Quiet
    BY <1>t, <1>3 DEF SetUpSink, Spawn, At, Done, Fail
  <2> QED BY <1>q, <2>1
<1>4. CASE Alternate \/ DrawStatus \/ EnterRaw
  <2>1. Quiet
    BY <1>t, <1>4 DEF Alternate, DrawStatus, EnterRaw, At, Done, Fail
  <2> QED BY <1>q, <2>1
<1>5. CASE NewGuard \/ Install \/ InstallFails
  <2>1. Quiet
    BY <1>t, <1>5 DEF NewGuard, Install, InstallFails, At, Done
  <2> QED BY <1>q, <2>1
<1>6. CASE ClearRequest \/ Arm \/ SetUp
  <2>1. Quiet
    BY <1>t, <1>6 DEF ClearRequest, Arm, SetUp, Done
  <2> QED BY <1>q, <2>1
<1>7. CASE LeaveLoop \/ Poll \/ StdinEnds \/ LoopFails \/ ReadPty
  <2>1. Quiet
    BY <1>t, <1>7 DEF LeaveLoop, Poll, StdinEnds, LoopFails, ReadPty, Fail
  <2> QED BY <1>q, <2>1
<1>8. CASE DropRaw \/ DropGuard \/ Uninstall \/ Disarm \/ Dropped
  <2>1. Quiet
    BY <1>t, <1>8 DEF DropRaw, DropGuard, Uninstall, Disarm, Dropped
  <2> QED BY <1>q, <2>1
<1>9. CASE Signal
  <2>1. Quiet
    BY <1>t, <1>9 DEF Signal
  <2> QED BY <1>q, <2>1
<1>10. CASE ChildWrites \/ ChildExits \/ TimePasses
  <2>1. Quiet
    BY <1>t, <1>10 DEF ChildWrites, ChildExits, TimePasses
  <2> QED BY <1>q, <2>1
<1>11. CASE UNCHANGED liveVars
  <2>1. Quiet
    BY <1>t, <1>11 DEF liveVars
  <2> QED BY <1>q, <2>1
<1> QED
  BY <1>1, <1>2, <1>3, <1>4, <1>5, <1>6, <1>7, <1>8, <1>9, <1>10, <1>11 DEF LiveNext, Main

\* Every chunk that is read is recorded once, in order, at the time it came and for as
\* long as it stayed, however many chunks there are and however the capture ends.
THEOREM CaptureRecordsAll == LiveSpec => []CaptureFaithful
<1>1. CaptureInv => CaptureFaithful
  <2> SUFFICES ASSUME CaptureInv PROVE CaptureFaithful
    OBVIOUS
  <2>1. sink = trace
    BY DEF CaptureInv, DataType
  <2>2. ASSUME NEW i \in 1..Len(trace)
        PROVE  /\ trace[i].n = i
               /\ trace[i].time = arrived[i] - arrived[1]
               /\ trace[i].dwell = IF (pending = <<>> /\ Len(trace) = Len(arrived)) /\ i = Len(trace)
                                   THEN 0 ELSE arrived[i + 1] - arrived[i]
    BY <2>2 DEF CaptureInv, EventsTimed
  <2>3. (outcome = "ok" /\ frontend = "capture") => Len(trace) = Len(arrived) /\ child = "reaped"
    BY DEF CaptureInv, AllFlushed
  <2> QED BY <2>1, <2>2, <2>3 DEF CaptureFaithful
<1> QED BY CaptureInit, CaptureStep, <1>1, PTL DEF LiveSpec

-----------------------------------------------------------------------------
(* The bundle, the verdict and the alarm. *)

Files      == {"trace", "media", "witness", "contract", "attestation", "bundle"}
MakerState == {"order", "pc", "capture", "hash", "trace", "media", "witness",
               "contract", "attestation", "tool"}
VerifierState == {"pc", "given", "witness", "contract", "attestation", "trace", "verdict"}

Shapes ==
  /\ disk = [f \in Files |-> disk[f]]
  /\ maker = [f \in MakerState |-> maker[f]]
  /\ verifier = [f \in VerifierState |-> verifier[f]]

\* A bundle is only written of what was found to agree, as it was then read.
Agreed ==
  maker.pc = "writeBundle" =>
    /\ Replayable(The(maker.trace))
    /\ \A w \in maker.witness : Agrees(w, The(maker.trace), The(maker.media))

BundleInv == Shapes /\ Agreed /\ BundleValidates

-----------------------------------------------------------------------------
\* There is one attestation at most, and none is taken away.
OneAttestation ==
  /\ disk.attestation # {} => disk.attestation = {The(disk.attestation)}
  /\ "attestation" \in verifier.given => disk.attestation # {}

\* What the verifier was given of the claims of its witness.
Claims ==
  LET w == The(verifier.witness)
  IN  /\ verifier.pc \in {"idle", "contract", "attestation", "trace", "render", "predicates", "done"}
      /\ verifier.pc # "done" => verifier.verdict = "none"
      /\ verifier.pc = "idle" => verifier.given = {}
      /\ verifier.pc \in {"idle", "contract", "attestation"} => verifier.attestation = {}
      /\ verifier.pc \in {"contract", "attestation"} /\ w.attestation_sha256 # {} =>
           "attestation" \in verifier.given

\* Where it has got to, and what it has established on the way.
Established(pcs) == verifier.pc \in pcs \/ verifier.verdict = "match"

Attested ==
  LET w == The(verifier.witness)
  IN  Established({"trace", "render", "predicates"}) =>
        /\ \A a \in verifier.attestation : a.target_sha256 = w.trace_sha256
        /\ w.attestation_sha256 # {} => w.attestation_sha256 = verifier.attestation

Compared ==
  LET w == The(verifier.witness)
  IN  verifier.pc = "render" => The(verifier.trace) = w.trace_sha256 /\ w.encoder = "libx264"

Reproduced ==
  LET w == The(verifier.witness)
  IN  Established({"predicates"}) =>
        /\ Renders(w.trace_sha256)
        /\ w.output_sha256 \in Encodings(ReplayTrace(w.trace_sha256), w.encoder)

MatchInv == Shapes /\ OneAttestation /\ Claims /\ Attested /\ Compared /\ Reproduced

-----------------------------------------------------------------------------
\* Nobody has touched anything, and what was captured is clean.
Untouched ==
  /\ edits = 0
  /\ maker.order.tool = "record" => CleanCapture(maker.capture)

\* A witness that agrees with the files as they lie.
Honest(w) ==
  /\ w.tool.version = 0 /\ w.tool.binary \in {{}, {"ptyrecord"}, {"ptyrender"}}
  /\ disk.trace = {w.trace_sha256} /\ Renders(w.trace_sha256)
  /\ w.encoder = "libx264" =>
       w.output_sha256 \in Encodings(ReplayTrace(w.trace_sha256), "libx264")
  /\ w.contract_sha256 \in {{}, disk.contract}
  /\ w.attestation_sha256 \in {{}, disk.attestation}

\* Whoever has made a witness touches nothing it speaks of.
WitnessHonest ==
  disk.witness # {} =>
    /\ maker.pc \in {"bundle", "bundleTrace", "bundleMedia", "writeBundle", "done", "failed"}
    /\ disk.witness = {The(disk.witness)}
    /\ Honest(The(disk.witness))

AttestationFits == \A a \in disk.attestation : disk.trace = {a.target_sha256}

\* What a recorder has written, and has read back for its witness.
Recording ==
  /\ maker.pc \in {"record", "stitch", "witnessTrace", "witnessMedia"} =>
       maker.order.tool = "record" /\ maker.capture \in Captures /\ disk.attestation = {}
  /\ maker.pc \in {"stitch", "witnessTrace", "witnessMedia"} =>
       disk.trace = {TraceOf(maker.capture)}
  /\ maker.pc \in {"witnessTrace", "witnessMedia"} =>
       maker.capture # <<>> /\ disk.media = Encodings(Stitch(maker.capture), "libx264")
  /\ maker.pc = "witnessMedia" => maker.trace = disk.trace

\* What a renderer has read and made.
Rendering ==
  /\ maker.pc \in {"render", "load", "hashContract", "attest", "paint", "receipt"} =>
       disk.trace = {The(disk.trace)}
  /\ maker.pc \in {"load", "hashContract", "attest"} => maker.hash = disk.trace
  /\ maker.pc \in {"hashContract", "attest", "paint", "receipt"} =>
       maker.trace = disk.trace /\ The(disk.trace).ok
  /\ maker.pc \in {"attest", "paint", "receipt"} => maker.contract \in {{}, disk.contract}
  /\ maker.pc \in {"render", "load", "hashContract", "attest"} => maker.attestation = {}
  /\ maker.pc \in {"paint", "receipt"} => maker.attestation \in {{}, disk.attestation}
  /\ maker.pc = "receipt" =>
       /\ Renders(The(disk.trace))
       /\ The(maker.tool).version = 0 /\ The(maker.tool).binary \in {{}, {"ptyrender"}}
       /\ \E media \in Encodings(ReplayTrace(The(disk.trace)), maker.order.encoder) :
            disk.media = {media}

Alarms == {"traceDiffers", "outputDiffers", "contractDiffers",
           "attestationDiffers", "attestationTargetDiffers", "error"}

OtherExecutable ==
  verifier.verdict = "environmentDiffers" =>
    The(verifier.witness).tool.binary = {"ptyrecord"}

\* What a verifier has read is still what is there.
Verifying ==
  /\ verifier.pc # "idle" => disk.witness # {} /\ verifier.witness = disk.witness
  /\ verifier.pc = "render" => verifier.trace = disk.trace
  /\ verifier.verdict \notin Alarms /\ OtherExecutable

Quiet == tools = 0 /\ WitnessHonest /\ AttestationFits /\ Recording /\ Rendering /\ Verifying

QuietInv == MatchInv /\ edits \in Nat /\ (Untouched => Quiet)

-----------------------------------------------------------------------------
USE DEF Files, MakerState, VerifierState

LEMMA TheOne == ASSUME NEW x PROVE The({x}) = x
  BY DEF The

-----------------------------------------------------------------------------
(* The records keep their fields, whatever is written into them. *)

LEMMA InitShapes == Init => Shapes
  BY DEF Init, Shapes

LEMMA MakerShapes == Shapes /\ Make => Shapes'
<1> SUFFICES ASSUME Shapes, Make PROVE Shapes'
  OBVIOUS
<1> USE DEF Shapes, Make, Go, Fails
<1>1. CASE WriteTrace      BY <1>1 DEF WriteTrace
<1>2. CASE EncodeStitched  BY <1>2 DEF EncodeStitched
<1>3. CASE WitnessTrace    BY <1>3 DEF WitnessTrace
<1>4. CASE WitnessMedia    BY <1>4 DEF WitnessMedia
<1>5. CASE LoadWitness     BY <1>5 DEF LoadWitness
<1>6. CASE BundleTrace     BY <1>6 DEF BundleTrace
<1>7. CASE BundleMedia     BY <1>7 DEF BundleMedia
<1>8. CASE WriteBundle     BY <1>8 DEF WriteBundle
<1>9. CASE HashTrace       BY <1>9 DEF HashTrace
<1>10. CASE LoadTrace      BY <1>10 DEF LoadTrace
<1>11. CASE HashContract   BY <1>11 DEF HashContract
<1>12. CASE Attest         BY <1>12 DEF Attest
<1>13. CASE RenderMedia    BY <1>13 DEF RenderMedia
<1>14. CASE WriteReceipt   BY <1>14 DEF WriteReceipt
<1> QED BY <1>1, <1>2, <1>3, <1>4, <1>5, <1>6, <1>7, <1>8, <1>9, <1>10, <1>11,
           <1>12, <1>13, <1>14

LEMMA VerifierShapes == Shapes /\ Verify => Shapes'
<1> SUFFICES ASSUME Shapes, Verify PROVE Shapes'
  OBVIOUS
<1> USE DEF Shapes, Verify, Verdict, Proceed
<1>1. CASE ReadWitness     BY <1>1 DEF ReadWitness
<1>2. CASE ReadContract    BY <1>2 DEF ReadContract
<1>3. CASE ReadAttestation BY <1>3 DEF ReadAttestation
<1>4. CASE CompareTrace    BY <1>4 DEF CompareTrace
<1>5. CASE Rerender        BY <1>5 DEF Rerender
<1>6. CASE CheckContract   BY <1>6 DEF CheckContract
<1> QED BY <1>1, <1>2, <1>3, <1>4, <1>5, <1>6

LEMMA OtherShapes == Shapes /\ SomebodyElse => Shapes'
  BY DEF Shapes, SomebodyElse, EditsFile

LEMMA ShapesKept == Shapes /\ [Next]_vars => Shapes'
<1>1. Shapes /\ UNCHANGED vars => Shapes'
  BY DEF Shapes, vars
<1> QED BY <1>1, MakerShapes, VerifierShapes, OtherShapes DEF Next

-----------------------------------------------------------------------------
(* A bundle that is written can be read. *)

LEMMA InitAgreed == Init => Agreed /\ BundleValidates
<1> SUFFICES ASSUME Init PROVE Agreed /\ BundleValidates
  OBVIOUS
<1>1. maker.pc \in {o.tool : o \in Orders}
  BY DEF Init
<1> QED BY OrdersAssumption, <1>1 DEF Init, Agreed, BundleValidates

\* A bundle is left alone by every step that does not write one.
LEMMA BundleAlone ==
  ASSUME BundleValidates, disk'.bundle = disk.bundle
  PROVE  BundleValidates'
  BY DEF BundleValidates

\* Before the last check nothing has been promised.
LEMMA NothingAgreed == ASSUME maker'.pc # "writeBundle" PROVE Agreed'
  BY DEF Agreed

LEMMA MakeAgreed == BundleInv /\ Make => Agreed' /\ BundleValidates'
<1> SUFFICES ASSUME BundleInv, Make PROVE Agreed' /\ BundleValidates'
  OBVIOUS
<1> USE DEF BundleInv, Shapes, Make, Go, Fails
<1>1. CASE BundleMedia
  <2>1. /\ maker'.trace = maker.trace
        /\ maker'.witness = maker.witness
        /\ maker'.media = disk.media
        /\ disk'.bundle = disk.bundle
    BY <1>1 DEF BundleMedia
  <2>2. maker'.pc = "writeBundle" =>
          /\ Replayable(The(maker.trace))
          /\ \A w \in maker.witness : Agrees(w, The(maker.trace), The(disk.media))
    BY <1>1 DEF BundleMedia
  <2>3. Agreed'
    BY <2>1, <2>2 DEF Agreed
  <2> QED BY <2>1, <2>3, BundleAlone
<1>2. CASE WriteBundle
  <2> DEFINE bundle == [trace |-> The(maker.trace), media |-> The(maker.media),
                        witness |-> maker.witness,
                        transcript |-> Transcript(The(maker.trace))]
  <2>1. disk'.bundle = {bundle} /\ maker'.pc = "done"
    BY <1>2 DEF WriteBundle
  <2>2. Validates(bundle)
    BY <1>2 DEF WriteBundle, Agreed, Agrees, Validates
  <2>3. BundleValidates'
    BY <2>1, <2>2 DEF BundleValidates
  <2> QED BY <2>1, <2>3, NothingAgreed
<1>3. CASE WriteTrace \/ EncodeStitched \/ WitnessTrace \/ WitnessMedia \/ LoadWitness \/ BundleTrace
  <2>1. disk'.bundle = disk.bundle /\ maker'.pc # "writeBundle"
    BY <1>3 DEF WriteTrace, EncodeStitched, WitnessTrace, WitnessMedia, LoadWitness, BundleTrace
  <2> QED BY <2>1, BundleAlone, NothingAgreed
<1>4. CASE HashTrace \/ LoadTrace \/ HashContract \/ Attest
  <2>1. disk'.bundle = disk.bundle
    BY <1>4 DEF HashTrace, LoadTrace, HashContract, Attest
  <2>2. maker'.pc # "writeBundle"
    BY <1>4 DEF HashTrace, LoadTrace, HashContract, Attest
  <2> QED BY <2>1, <2>2, BundleAlone, NothingAgreed
<1>5. CASE RenderMedia \/ WriteReceipt
  <2>1. disk'.bundle = disk.bundle /\ maker'.pc # "writeBundle"
    <3>1. CASE RenderMedia
      BY <3>1 DEF RenderMedia
    <3>2. CASE WriteReceipt
      BY <3>2 DEF WriteReceipt
    <3> QED BY <1>5, <3>1, <3>2
  <2> QED BY <2>1, BundleAlone, NothingAgreed
<1> QED BY <1>1, <1>2, <1>3, <1>4, <1>5

LEMMA BundleStep == BundleInv /\ [Next]_vars => BundleInv'
<1> SUFFICES ASSUME BundleInv, [Next]_vars PROVE BundleInv'
  OBVIOUS
<1>1. Shapes'
  BY ShapesKept DEF BundleInv
<1>2. CASE Make
  BY <1>1, <1>2, MakeAgreed DEF BundleInv
<1>3. CASE Verify \/ SomebodyElse \/ UNCHANGED vars
  <2>1. maker' = maker /\ disk'.bundle = disk.bundle
    BY <1>3 DEF BundleInv, Shapes, Verify, SomebodyElse, EditsFile, vars
  <2>2. Agreed'
    BY <2>1 DEF BundleInv, Agreed
  <2> QED BY <1>1, <2>1, <2>2, BundleAlone DEF BundleInv
<1> QED BY <1>2, <1>3 DEF Next

\* BundleValidates for any captures, trace files, orders and number of edits:
\* PtyRecord::from_paths reads the files one after the other, checks what it has
\* read, and writes that.
THEOREM BundleCanBeRead == Spec => []BundleValidates
<1>1. Init => BundleInv
  BY InitShapes, InitAgreed DEF BundleInv
<1>2. BundleInv => BundleValidates
  BY DEF BundleInv
<1> QED BY <1>1, <1>2, BundleStep, PTL DEF Spec

-----------------------------------------------------------------------------
(* A match is proof. *)

LEMMA InitMatch == Init => MatchInv
<1> SUFFICES ASSUME Init PROVE MatchInv
  OBVIOUS
<1>1. verifier.pc = "idle" /\ verifier.given = {} /\ verifier.attestation = {}
        /\ verifier.verdict = "none"
  BY DEF Init
<1>2. disk.attestation # {} => disk.attestation = {The(disk.attestation)}
  <2>1. disk.attestation = {} \/ \E tape \in Traces : disk.attestation = {[target_sha256 |-> tape]}
    BY DEF Init
  <2>2. ASSUME NEW it, disk.attestation = {it} PROVE disk.attestation = {The(disk.attestation)}
    BY <2>2, TheOne
  <2> QED BY <2>1, <2>2
<1>3. OneAttestation
  BY <1>1, <1>2 DEF OneAttestation
<1> QED BY <1>1, <1>3, InitShapes
           DEF MatchInv, Claims, Attested, Compared, Reproduced, Established

\* What the verifier has established speaks of what it holds itself.
LEMMA MatchAlone ==
  ASSUME MatchInv, UNCHANGED verifier
  PROVE  (Claims /\ Attested /\ Compared /\ Reproduced)'
  BY DEF MatchInv, Claims, Attested, Compared, Reproduced, Established

LEMMA MakeAttestation == MatchInv /\ Make => OneAttestation'
<1> SUFFICES ASSUME MatchInv, Make PROVE OneAttestation'
  OBVIOUS
<1> USE DEF MatchInv, Shapes, Make, Go, Fails, OneAttestation
<1>1. CASE Attest
  <2> DEFINE mine == [target_sha256 |-> The(maker.hash)]
  <2>1. disk'.attestation \in {{mine}, disk.attestation}
    BY <1>1 DEF Attest
  <2> HIDE DEF mine
  <2>2. The({mine}) = mine
    BY TheOne
  <2> QED BY <1>1, <2>1, <2>2
<1>2. CASE WriteTrace \/ EncodeStitched \/ WitnessTrace \/ WitnessMedia \/ LoadWitness \/ BundleTrace
  BY <1>2 DEF WriteTrace, EncodeStitched, WitnessTrace, WitnessMedia, LoadWitness, BundleTrace
<1>3. CASE BundleMedia \/ WriteBundle \/ HashTrace \/ LoadTrace \/ HashContract
  BY <1>3 DEF BundleMedia, WriteBundle, HashTrace, LoadTrace, HashContract
<1>4. CASE RenderMedia \/ WriteReceipt
  BY <1>4 DEF RenderMedia, WriteReceipt
<1> QED BY <1>1, <1>2, <1>3, <1>4

LEMMA OtherAttestation == MatchInv /\ SomebodyElse => OneAttestation'
  BY TheOne DEF MatchInv, Shapes, SomebodyElse, EditsFile, OneAttestation

LEMMA VerifyKeeps ==
  MatchInv /\ Verify => (OneAttestation /\ Claims /\ Attested /\ Compared /\ Reproduced)'
<1> SUFFICES ASSUME MatchInv, Verify
             PROVE  (OneAttestation /\ Claims /\ Attested /\ Compared /\ Reproduced)'
  OBVIOUS
<1> USE DEF MatchInv, Shapes, Verify, Verdict, Proceed, Established
<1>1. CASE ReadWitness
  <2>1. OneAttestation'
    BY <1>1 DEF ReadWitness, OneAttestation
  <2>2. Claims'
    <3> DEFINE w == The(disk.witness)
    <3>1. The({w}) = w
      BY TheOne
    <3>2. verifier'.witness = {w}
      BY <1>1 DEF ReadWitness
    <3>3. /\ verifier'.pc \in {"contract", "done"}
          /\ verifier'.pc # "done" => verifier'.verdict = "none"
          /\ verifier'.attestation = {}
          /\ verifier'.pc # "done" /\ w.attestation_sha256 # {} =>
               "attestation" \in verifier'.given
      BY <1>1 DEF ReadWitness, Claims
    <3> HIDE DEF w
    <3> QED BY <3>1, <3>2, <3>3 DEF Claims
  <2>3. (Attested /\ Compared /\ Reproduced)'
    BY <1>1 DEF ReadWitness, Attested, Compared, Reproduced
  <2> QED BY <2>1, <2>2, <2>3
<1>2. CASE ReadContract
  BY <1>2 DEF ReadContract, OneAttestation, Claims, Attested, Compared, Reproduced
<1>3. CASE ReadAttestation
  <2>1. OneAttestation'
    BY <1>3 DEF ReadAttestation, OneAttestation
  <2>2. (Claims /\ Compared /\ Reproduced)'
    BY <1>3 DEF ReadAttestation, Claims, Compared, Reproduced
  <2>3. Attested'
    <3>1. CASE "attestation" \notin verifier.given
      BY <1>3, <3>1 DEF ReadAttestation, Claims, Attested
    <3>2. CASE "attestation" \in verifier.given
      BY <1>3, <3>2 DEF ReadAttestation, Claims, Attested, OneAttestation
    <3> QED BY <3>1, <3>2
  <2> QED BY <2>1, <2>2, <2>3
<1>4. CASE CompareTrace
  <2>1. /\ verifier.pc = "trace" /\ UNCHANGED disk
        /\ \/ \E verdict : verdict # "match" /\ verifier' = Verdict(verdict)
           \/ verifier' = [Proceed("render") EXCEPT !.trace = disk.trace]
    BY <1>4 DEF CompareTrace
  <2>2. OneAttestation' /\ Claims'
    BY <2>1 DEF OneAttestation, Claims
  <2>3. Attested' /\ Reproduced'
    BY <2>1 DEF Claims, Attested, Reproduced
  <2>4. Compared'
    BY <1>4 DEF CompareTrace, Compared
  <2> QED BY <2>2, <2>3, <2>4
<1>5. CASE Rerender
  <2>1. (OneAttestation /\ Claims /\ Attested /\ Compared)'
    BY <1>5 DEF Rerender, OneAttestation, Claims, Attested, Compared
  <2>2. Reproduced'
    BY <1>5 DEF Rerender, RenderedAgain, Compared, Claims, Reproduced
  <2> QED BY <2>1, <2>2
<1>6. CASE CheckContract
  BY <1>6 DEF CheckContract, OneAttestation, Claims, Attested, Compared, Reproduced
<1> QED BY <1>1, <1>2, <1>3, <1>4, <1>5, <1>6

LEMMA MatchStep == MatchInv /\ [Next]_vars => MatchInv'
<1> SUFFICES ASSUME MatchInv, [Next]_vars PROVE MatchInv'
  OBVIOUS
<1>1. Shapes'
  BY ShapesKept DEF MatchInv
<1>2. CASE Make
  <2>1. UNCHANGED verifier
    BY <1>2 DEF Make
  <2> QED BY <1>1, <1>2, <2>1, MakeAttestation, MatchAlone DEF MatchInv
<1>3. CASE SomebodyElse
  <2>1. UNCHANGED verifier
    BY <1>3 DEF SomebodyElse
  <2> QED BY <1>1, <1>3, <2>1, OtherAttestation, MatchAlone DEF MatchInv
<1>4. CASE Verify
  BY <1>1, <1>4, VerifyKeeps DEF MatchInv
<1>5. CASE UNCHANGED vars
  <2>1. UNCHANGED verifier /\ UNCHANGED disk
    BY <1>5 DEF vars
  <2>2. OneAttestation'
    BY <2>1 DEF MatchInv, OneAttestation
  <2> QED BY <1>1, <2>1, <2>2, MatchAlone DEF MatchInv
<1> QED BY <1>2, <1>3, <1>4, <1>5 DEF Next

\* MatchReproduces for any trace files, contracts, orders and number of edits:
\* verify_b compares the bytes it has read with the witness and renders those, so
\* its verdict does not depend on what becomes of the files meanwhile.
THEOREM MatchIsProof == Spec => []MatchReproduces
<1>1. MatchInv => MatchReproduces
  BY DEF MatchInv, Attested, Reproduced, Established, MatchReproduces
<1> QED BY <1>1, InitMatch, MatchStep, PTL DEF Spec

-----------------------------------------------------------------------------
(* The bytes of a chunk and the characters they become.                    *)

\* All strings: the two are named because the provers do not know that a
\* literal is one.
Letters == STRING \cup {"e'", "U+FFFD"}
Words   == Seq(Letters)
Screens == [text : Words, half : BOOLEAN, string : BOOLEAN, bg : {"default", "set"},
            size : {"start"}]

\* The functions that Lossy, Process and Observe recur with.
Spelling(bytes, n, g) ==
  g = [i \in 0..n |-> IF i = 0 THEN <<>> ELSE g[i - 1] \o LossyChar(bytes, i)]

Feeding(shown, chunk, n, g) ==
  g = [i \in 0..n |-> IF i = 0 THEN shown ELSE TerminalByte(g[i - 1], chunk[i])]

Ends(chunk, i, op) == chunk[i] = "bel" /\ i > 1 /\ chunk[i - 1] = op

Seeing(bg, chunk, n, g) ==
  g = [i \in 0..n |-> IF i = 0 THEN bg
                      ELSE IF Ends(chunk, i, "setbg") THEN "set"
                      ELSE IF Ends(chunk, i, "resetbg") THEN "default" ELSE g[i - 1]]

LEMMA OneOfSeq == ASSUME NEW M, NEW x \in M PROVE <<x>> \in Seq(M)
  OBVIOUS

\* What is known of sequences, for words.
LEMMA WordFacts ==
  /\ <<>> \in Words
  /\ \A x \in Letters : <<x>> \in Words
  /\ \A s \in Words : Len(s) \in Nat /\ \A i \in 1..Len(s) : s[i] \in Letters
  /\ \A s, t \in Words : s \o t \in Words
<1>1. \A x \in Letters : <<x>> \in Seq(Letters)
  BY OneOfSeq, Zenon
<1>2. \A s \in Seq(Letters) : Len(s) \in Nat
  BY LenProperties, Zenon
<1>3. \A s \in Seq(Letters) : \A i \in 1..Len(s) : s[i] \in Letters
  BY ElementOfSeq, Zenon
<1>4. <<>> \in Seq(Letters)
  BY EmptySeq, Zenon
<1>5. \A s, t \in Seq(Letters) : s \o t \in Seq(Letters)
  BY ConcatProperties, Zenon
<1> QED BY <1>1, <1>2, <1>3, <1>4, <1>5, Zenon DEF Words

LEMMA LossyCharIsWord ==
  ASSUME NEW b \in Words, NEW i \in 1..Len(b)
  PROVE  LossyChar(b, i) \in Words
<1>1. b[i] \in Letters
  BY WordFacts, Zenon
<1>2. "e'" \in Letters /\ "U+FFFD" \in Letters
  BY DEF Letters
<1>3. <<>> \in Words /\ <<"e'">> \in Words /\ <<"U+FFFD">> \in Words /\ <<b[i]>> \in Words
  BY <1>1, <1>2, WordFacts
<1> QED BY <1>3 DEF LossyChar

LEMMA LossySpells ==
  ASSUME NEW b \in Words
  PROVE  \E g \in [0..Len(b) -> Words] : Spelling(b, Len(b), g) /\ Lossy(b) = g[Len(b)]
<1> DEFINE n    == Len(b)
           step == [i \in 1..n |-> [t \in Words |-> t \o LossyChar(b, i)]]
           f    == CHOOSE g : Spelling(b, n, g)
<1>1. n \in Nat
  BY WordFacts
<1>2. step \in [1..n -> [Words -> Words]]
  BY LossyCharIsWord, WordFacts
<1>3. <<>> \in Words
  BY WordFacts
<1>4. PICK g \in [0..n -> Words] : Recurs(n, <<>>, step, g)
  <2> HIDE DEF n, step
  <2> QED BY <1>1, <1>2, <1>3, RecursionExists
<1>5. Spelling(b, n, g)
  <2>1. ASSUME NEW i \in 0..n
        PROVE  g[i] = IF i = 0 THEN <<>> ELSE g[i - 1] \o LossyChar(b, i)
    <3>1. g[i] = IF i = 0 THEN <<>> ELSE step[i][g[i - 1]]
      <4> HIDE DEF n, step
      <4> QED BY <1>4 DEF Recurs
    <3>2. i # 0 => i \in 1..n /\ i - 1 \in 0..n
      BY <1>1
    <3>3. i # 0 => g[i - 1] \in Words
      BY <1>4, <3>2
    <3> QED BY <3>1, <3>2, <3>3
  <2>2. g = [i \in 0..n |-> g[i]]
    BY <1>4
  <2> HIDE DEF n, step
  <2> QED BY <2>1, <2>2 DEF Spelling
<1>6. Spelling(b, n, f)
  BY <1>5
<1>7. Lossy(b) = f[n]
  BY Zenon DEF Lossy, Spelling
<1> HIDE DEF f, step
<1>8. ASSUME NEW i \in 1..n, f[i - 1] \in Words
      PROVE  f[i] \in Words
  <2>1. i \in 0..n /\ i # 0
    BY <1>1
  <2>2. f[i] = f[i - 1] \o LossyChar(b, i)
    BY <1>6, <2>1 DEF Spelling
  <2> QED BY <1>8, <2>2, LossyCharIsWord, WordFacts
<1>9. f[0] \in Words
  <2>1. f[0] = <<>>
    BY <1>1, <1>6 DEF Spelling
  <2> QED BY <1>3, <2>1
<1>10. \A i \in 0..n : f[i] \in Words
  <2> HIDE DEF n
  <2> QED BY <1>1, <1>8, <1>9, StepsStay
<1>11. f \in [0..n -> Words]
  <2>1. f = [i \in 0..n |-> f[i]]
    BY <1>6 DEF Spelling
  <2> QED BY <1>10, <2>1
<1> QED BY <1>6, <1>7, <1>11

-----------------------------------------------------------------------------
(* The screen after one byte more. *)

LEMMA AppendWord ==
  ASSUME NEW s \in Words, NEW c \in Letters
  PROVE  /\ Append(s, c) \in Words /\ s \o <<c>> = Append(s, c)
         /\ Len(Append(s, c)) = Len(s) + 1 /\ Append(s, c)[Len(s) + 1] = c
         /\ \A i \in 1..Len(s) : Append(s, c)[i] = s[i]
  BY AppendProperties, LenProperties DEF Words

LEMMA TerminalByteScreen ==
  ASSUME NEW shown \in Screens, NEW byte \in Letters
  PROVE  TerminalByte(shown, byte) \in Screens
<1>1. Append(shown.text, byte) \in Words
  BY AppendWord DEF Screens
<1>2. "e'" \in Letters /\ "U+FFFD" \in Letters
  BY DEF Letters
<1>3. Append(shown.text, "e'") \in Words /\ Append(shown.text, "U+FFFD") \in Words
  BY <1>2, AppendWord DEF Screens
<1>4. Append(Append(shown.text, "U+FFFD"), byte) \in Words
  BY <1>3, AppendWord
<1> QED BY <1>1, <1>3, <1>4 DEF Screens, TerminalByte

LEMMA ProcessFeeds ==
  ASSUME NEW shown \in Screens, NEW b \in Words
  PROVE  \E g \in [0..Len(b) -> Screens] :
           Feeding(shown, b, Len(b), g) /\ Process(shown, b) = g[Len(b)]
<1> DEFINE n    == Len(b)
           step == [i \in 1..n |-> [x \in Screens |-> TerminalByte(x, b[i])]]
           f    == CHOOSE g : Feeding(shown, b, n, g)
<1>1. n \in Nat /\ \A i \in 1..n : b[i] \in Letters
  BY WordFacts
<1>2. step \in [1..n -> [Screens -> Screens]]
  BY <1>1, TerminalByteScreen
<1>3. PICK g \in [0..n -> Screens] : Recurs(n, shown, step, g)
  <2> HIDE DEF n, step
  <2> QED BY <1>1, <1>2, RecursionExists
<1>4. Feeding(shown, b, n, g)
  <2>1. ASSUME NEW i \in 0..n
        PROVE  g[i] = IF i = 0 THEN shown ELSE TerminalByte(g[i - 1], b[i])
    <3>1. g[i] = IF i = 0 THEN shown ELSE step[i][g[i - 1]]
      <4> HIDE DEF n, step
      <4> QED BY <1>3 DEF Recurs
    <3>2. i # 0 => i \in 1..n /\ i - 1 \in 0..n
      BY <1>1
    <3>3. i # 0 => g[i - 1] \in Screens
      BY <1>3, <3>2
    <3> QED BY <3>1, <3>2, <3>3
  <2>2. g = [i \in 0..n |-> g[i]]
    BY <1>3
  <2> HIDE DEF n, step
  <2> QED BY <2>1, <2>2 DEF Feeding
<1>5. Feeding(shown, b, n, f)
  BY <1>4
<1>6. Process(shown, b) = f[n]
  BY Zenon DEF Process, Feeding
<1> HIDE DEF f, step
<1>7. ASSUME NEW i \in 1..n, f[i - 1] \in Screens
      PROVE  f[i] \in Screens
  <2>1. i \in 0..n /\ i # 0
    BY <1>1
  <2>2. f[i] = TerminalByte(f[i - 1], b[i])
    BY <1>5, <2>1 DEF Feeding
  <2> QED BY <1>1, <1>7, <2>2, TerminalByteScreen
<1>8. f[0] \in Screens
  <2>1. f[0] = shown
    BY <1>1, <1>5 DEF Feeding
  <2> QED BY <2>1
<1>9. \A i \in 0..n : f[i] \in Screens
  <2> HIDE DEF n
  <2> QED BY <1>1, <1>7, <1>8, StepsStay
<1>10. f \in [0..n -> Screens]
  <2>1. f = [i \in 0..n |-> f[i]]
    BY <1>5 DEF Feeding
  <2> QED BY <1>9, <2>1
<1> QED BY <1>5, <1>6, <1>10

LEMMA ProcessNothing ==
  ASSUME NEW shown \in Screens
  PROVE  Process(shown, <<>>) = shown
<1>1. Len(<<>>) = 0 /\ <<>> \in Words
  BY EmptySeq, WordFacts
<1>2. PICK g \in [0..0 -> Screens] : Feeding(shown, <<>>, 0, g) /\ Process(shown, <<>>) = g[0]
  BY <1>1, ProcessFeeds
<1> QED BY <1>2 DEF Feeding

LEMMA FeedingSame ==
  ASSUME NEW shown, NEW b, NEW t, NEW n \in Nat, \A i \in 1..n : t[i] = b[i],
         NEW g, NEW h, Feeding(shown, b, n, g), Feeding(shown, t, n + 1, h)
  PROVE  g[n] = h[n]
<1>1. g[0] = h[0]
  BY DEF Feeding
<1>2. ASSUME NEW i \in 1..n, g[i - 1] = h[i - 1]
      PROVE  g[i] = h[i]
  <2>1. i \in 0..n /\ i \in 0..(n + 1) /\ i # 0 /\ t[i] = b[i]
    OBVIOUS
  <2>2. g[i] = TerminalByte(g[i - 1], b[i])
    BY <2>1 DEF Feeding
  <2>3. h[i] = TerminalByte(h[i - 1], t[i])
    BY <2>1 DEF Feeding
  <2> QED BY <1>2, <2>1, <2>2, <2>3
<1>3. \A i \in 0..n : g[i] = h[i]
  BY <1>1, <1>2, SameSteps
<1> QED BY <1>3

LEMMA ProcessMore ==
  ASSUME NEW shown \in Screens, NEW b \in Words, NEW c \in Letters
  PROVE  Process(shown, Append(b, c)) = TerminalByte(Process(shown, b), c)
<1> DEFINE t == Append(b, c)
           n == Len(b)
<1>1. t \in Words /\ n \in Nat /\ Len(t) = n + 1 /\ t[n + 1] = c /\ \A i \in 1..n : t[i] = b[i]
  BY AppendWord, WordFacts
<1>2. PICK g \in [0..n -> Screens] : Feeding(shown, b, n, g) /\ Process(shown, b) = g[n]
  BY ProcessFeeds
<1> HIDE DEF t
<1>3. PICK h \in [0..(n + 1) -> Screens] :
        Feeding(shown, t, n + 1, h) /\ Process(shown, t) = h[n + 1]
  BY <1>1, ProcessFeeds
<1> HIDE DEF n
<1>6. g[n] = h[n]
  BY <1>1, <1>2, <1>3, FeedingSame
<1>7. h[n + 1] = TerminalByte(h[n], c)
  <2>1. n + 1 \in 0..(n + 1) /\ n + 1 # 0 /\ (n + 1) - 1 = n
    BY <1>1
  <2> QED BY <1>1, <1>3, <2>1 DEF Feeding
<1>8. Process(shown, t) = TerminalByte(Process(shown, b), c)
  BY <1>2, <1>3, <1>6, <1>7
<1> QED BY <1>8 DEF t

-----------------------------------------------------------------------------
(* The background after one byte more. *)

Backgrounds == {"default", "set"}

Shade(bg, chunk, i) ==
  IF Ends(chunk, i, "setbg") THEN "set" ELSE IF Ends(chunk, i, "resetbg") THEN "default" ELSE bg

LEMMA ObserveSees ==
  ASSUME NEW bg \in Backgrounds, NEW b \in Words
  PROVE  \E g : Seeing(bg, b, Len(b), g) /\ Observe(bg, b) = g[Len(b)]
<1> DEFINE n    == Len(b)
           step == [i \in 1..n |-> [x \in Backgrounds |-> Shade(x, b, i)]]
           f    == CHOOSE g : Seeing(bg, b, n, g)
<1>1. n \in Nat
  BY WordFacts
<1>2. step \in [1..n -> [Backgrounds -> Backgrounds]]
  BY DEF Shade, Backgrounds
<1>3. PICK g \in [0..n -> Backgrounds] : Recurs(n, bg, step, g)
  <2> HIDE DEF n, step
  <2> QED BY <1>1, <1>2, RecursionExists
<1>4. Seeing(bg, b, n, g)
  <2>1. ASSUME NEW i \in 0..n
        PROVE  g[i] = IF i = 0 THEN bg ELSE Shade(g[i - 1], b, i)
    <3>1. g[i] = IF i = 0 THEN bg ELSE step[i][g[i - 1]]
      <4> HIDE DEF n, step
      <4> QED BY <1>3 DEF Recurs
    <3>2. i # 0 => i \in 1..n /\ i - 1 \in 0..n
      BY <1>1
    <3>3. i # 0 => g[i - 1] \in Backgrounds
      BY <1>3, <3>2
    <3> QED BY <3>1, <3>2, <3>3
  <2>2. g = [i \in 0..n |-> g[i]]
    BY <1>3
  <2> HIDE DEF n, step
  <2> QED BY <2>1, <2>2 DEF Seeing, Shade
<1>5. Seeing(bg, b, n, f)
  BY <1>4
<1>6. Observe(bg, b) = f[n]
  BY Zenon DEF Observe, Seeing, Ends
<1> QED BY <1>5, <1>6

LEMMA SeeingStep ==
  ASSUME NEW bg, NEW b, NEW n \in Nat, NEW g, Seeing(bg, b, n, g), NEW i \in 1..n
  PROVE  g[i] = Shade(g[i - 1], b, i)
<1>1. i \in 0..n /\ i # 0
  OBVIOUS
<1> QED BY <1>1 DEF Seeing, Shade

LEMMA ObserveNothing ==
  ASSUME NEW bg \in Backgrounds
  PROVE  Observe(bg, <<>>) = bg
<1>1. Len(<<>>) = 0 /\ <<>> \in Words
  BY EmptySeq, WordFacts
<1>2. PICK g : Seeing(bg, <<>>, 0, g) /\ Observe(bg, <<>>) = g[0]
  BY <1>1, ObserveSees
<1> QED BY <1>2 DEF Seeing

LEMMA SeeingSame ==
  ASSUME NEW bg, NEW b, NEW t, NEW n \in Nat, \A i \in 1..n : t[i] = b[i],
         NEW g, NEW h, Seeing(bg, b, n, g), Seeing(bg, t, n + 1, h)
  PROVE  g[n] = h[n]
<1>1. g[0] = h[0]
  BY DEF Seeing
<1>2. ASSUME NEW i \in 1..n, g[i - 1] = h[i - 1]
      PROVE  g[i] = h[i]
  <2>1. i \in 0..n /\ i \in 0..(n + 1) /\ i # 0
    OBVIOUS
  <2>2. g[i] = Shade(g[i - 1], b, i)
    BY <2>1 DEF Seeing, Shade
  <2>3. h[i] = Shade(h[i - 1], t, i)
    BY <2>1 DEF Seeing, Shade
  <2>4. t[i] = b[i] /\ (i > 1 => t[i - 1] = b[i - 1])
    OBVIOUS
  <2> QED BY <1>2, <2>2, <2>3, <2>4 DEF Shade, Ends
<1>3. \A i \in 0..n : g[i] = h[i]
  BY <1>1, <1>2, SameSteps
<1> QED BY <1>3

LEMMA ObserveMore ==
  ASSUME NEW bg \in Backgrounds, NEW b \in Words, NEW c \in Letters
  PROVE  Observe(bg, Append(b, c)) = Shade(Observe(bg, b), Append(b, c), Len(b) + 1)
<1> DEFINE t == Append(b, c)
           n == Len(b)
<1>1. t \in Words /\ n \in Nat /\ Len(t) = n + 1 /\ t[n + 1] = c /\ \A i \in 1..n : t[i] = b[i]
  BY AppendWord, WordFacts
<1>2. PICK g : Seeing(bg, b, n, g) /\ Observe(bg, b) = g[n]
  BY ObserveSees
<1> HIDE DEF t
<1>3. PICK h : Seeing(bg, t, n + 1, h) /\ Observe(bg, t) = h[n + 1]
  BY <1>1, ObserveSees
<1> HIDE DEF n
<1>6. g[n] = h[n]
  BY <1>1, <1>2, <1>3, SeeingSame
<1>7. h[n + 1] = Shade(h[n], t, n + 1)
  <2>1. n + 1 \in 0..(n + 1) /\ n + 1 # 0 /\ (n + 1) - 1 = n
    BY <1>1
  <2> QED BY <1>1, <1>3, <2>1 DEF Seeing, Shade
<1>8. Observe(bg, t) = Shade(Observe(bg, b), t, n + 1)
  BY <1>2, <1>3, <1>6, <1>7
<1> QED BY <1>8 DEF t, n

LEMMA ObserveBackground ==
  ASSUME NEW bg \in Backgrounds, NEW b \in Words
  PROVE  Observe(bg, b) \in Backgrounds
<1> DEFINE n == Len(b)
<1>1. PICK g : Seeing(bg, b, n, g) /\ Observe(bg, b) = g[n]
  BY ObserveSees
<1>2. n \in Nat
  BY WordFacts
<1> HIDE DEF n
<1>3. g[0] \in Backgrounds
  BY <1>1, <1>2 DEF Seeing
<1>4. ASSUME NEW i \in 1..n, g[i - 1] \in Backgrounds
      PROVE  g[i] \in Backgrounds
  BY <1>1, <1>2, <1>4, SeeingStep DEF Shade, Backgrounds
<1>5. g[n] \in Backgrounds
  BY <1>2, <1>3, <1>4, StepsStay
<1> QED BY <1>1, <1>5

-----------------------------------------------------------------------------
(* A chunk and its text, which a trace has instead, do the same to a       *)
(* screen, if the chunk does not end inside a character.                   *)

\* A screen that half a character waits for, after that has become char.
Settled(shown, char) ==
  IF shown.half
  THEN [shown EXCEPT !.half = FALSE, !.text = Append(shown.text, char)] ELSE shown

LEMMA OtherByte ==
  ASSUME NEW x \in Screens, x.half => ~x.string, NEW byte \in Letters \ {"hi", "lo"}
  PROVE  /\ TerminalByte(Settled(x, "U+FFFD"), byte) = TerminalByte(x, byte)
         /\ ~TerminalByte(x, byte).half
  BY DEF Screens, Settled, TerminalByte

LEMMA FirstByte ==
  ASSUME NEW x \in Screens, x.half => ~x.string, NEW char \in {"e'", "U+FFFD"}
  PROVE  /\ TerminalByte(Settled(x, "U+FFFD"), char) = Settled(TerminalByte(x, "hi"), char)
         /\ TerminalByte(x, "hi").half <=> ~x.string
         /\ TerminalByte(x, "hi").string <=> x.string
  BY DEF Screens, Settled, TerminalByte

LEMMA SecondByte ==
  ASSUME NEW x \in Screens, x.half => ~x.string
  PROVE  /\ x.half \/ x.string => TerminalByte(x, "lo") = Settled(x, "e'")
         /\ ~x.half => TerminalByte(x, "U+FFFD") = TerminalByte(x, "lo")
         /\ ~TerminalByte(x, "lo").half
         /\ TerminalByte(x, "lo").string <=> x.string
  BY DEF Screens, Settled, TerminalByte

\* What half a character at place i becomes.
Becomes(b, i) == IF i > 0 /\ i < Len(b) /\ b[i + 1] = "lo" THEN "e'" ELSE "U+FFFD"

\* The text of a chunk, one byte more.
LEMMA SpellingStep ==
  ASSUME NEW b \in Words, NEW g \in [0..Len(b) -> Words], Spelling(b, Len(b), g),
         NEW i \in 1..Len(b)
  PROVE  /\ g[i - 1] \in Words /\ b[i] \in Letters
         /\ b[i] \notin {"hi", "lo"} => g[i] = Append(g[i - 1], b[i])
         /\ b[i] = "hi" => g[i] = Append(g[i - 1], Becomes(b, i))
         /\ b[i] = "lo" /\ i > 1 /\ b[i - 1] = "hi" => g[i] = g[i - 1]
         /\ b[i] = "lo" /\ ~(i > 1 /\ b[i - 1] = "hi") => g[i] = Append(g[i - 1], "U+FFFD")
<1> DEFINE n == Len(b)
<1>1. n \in Nat /\ b[i] \in Letters
  BY WordFacts
<1>2. i \in 0..n /\ i - 1 \in 0..n /\ i # 0 /\ i > 0
  BY <1>1
<1>3. g[i - 1] \in Words /\ g[i] = g[i - 1] \o LossyChar(b, i)
  BY <1>2 DEF Spelling
<1>4. "e'" \in Letters /\ "U+FFFD" \in Letters /\ Becomes(b, i) \in Letters
  BY DEF Letters, Becomes
<1>5. \A c \in Letters : g[i - 1] \o <<c>> = Append(g[i - 1], c)
  BY <1>3, AppendWord
<1>6. g[i - 1] \o <<>> = g[i - 1]
  BY <1>3, ConcatEmptySeq, Zenon DEF Words
<1>7. CASE b[i] \notin {"hi", "lo"}
  <2>1. LossyChar(b, i) = <<b[i]>>
    BY <1>7 DEF LossyChar
  <2> QED BY <1>1, <1>3, <1>5, <1>7, <2>1
<1>8. CASE b[i] = "hi"
  <2>1. LossyChar(b, i) = <<Becomes(b, i)>>
    BY <1>2, <1>8 DEF LossyChar, Becomes
  <2> QED BY <1>1, <1>3, <1>4, <1>5, <1>8, <2>1
<1>9. CASE b[i] = "lo" /\ i > 1 /\ b[i - 1] = "hi"
  <2>1. LossyChar(b, i) = <<>>
    BY <1>9 DEF LossyChar
  <2> QED BY <1>1, <1>3, <1>6, <1>9, <2>1
<1>10. CASE b[i] = "lo" /\ ~(i > 1 /\ b[i - 1] = "hi")
  <2>1. LossyChar(b, i) = <<"U+FFFD">>
    BY <1>10 DEF LossyChar
  <2> QED BY <1>1, <1>3, <1>4, <1>5, <1>10, <2>1
<1> QED BY <1>7, <1>8, <1>9, <1>10

Whole(b) == b # <<>> => b[Len(b)] # "hi"

LEMMA SameScreen ==
  ASSUME NEW s \in Screens, ~s.half, NEW b \in Words, Whole(b)
  PROVE  /\ Process(s, Lossy(b)) = Process(s, b)
         /\ Process(s, b) \in Screens /\ ~Process(s, b).half
<1> DEFINE n == Len(b)
<1>1. n \in Nat /\ (n > 0 => b # <<>>)
  BY WordFacts, EmptySeq
<1>2. PICK t \in [0..n -> Words] : Spelling(b, n, t) /\ Lossy(b) = t[n]
  BY LossySpells
<1>3. PICK f \in [0..n -> Screens] : Feeding(s, b, n, f) /\ Process(s, b) = f[n]
  BY ProcessFeeds
<1> DEFINE G == {i \in 0..n :
                   /\ f[i].half => ~f[i].string /\ i > 0 /\ b[i] = "hi"
                   /\ i > 0 /\ b[i] = "hi" /\ ~f[i].half => f[i].string
                   /\ Process(s, t[i]) = Settled(f[i], Becomes(b, i))}
<1>4. 0 \in G
  <2>1. t[0] = <<>> /\ f[0] = s
    BY <1>1, <1>2, <1>3 DEF Spelling, Feeding
  <2> QED BY <1>1, <2>1, ProcessNothing DEF Settled
<1>5. ASSUME NEW i \in 1..n, i - 1 \in G
      PROVE  i \in G
  <2> DEFINE x == f[i - 1]
             y == f[i]
             p == t[i - 1]
  <2>1. i \in 0..n /\ i # 0 /\ i > 0 /\ i - 1 \in 0..n /\ (i - 1) + 1 = i /\ i - 1 < n
    BY <1>1
  <2>2. x \in Screens /\ y \in Screens /\ y = TerminalByte(x, b[i])
    BY <1>3, <2>1 DEF Feeding
  <2>3. /\ p \in Words /\ b[i] \in Letters
        /\ b[i] \notin {"hi", "lo"} => t[i] = Append(p, b[i])
        /\ b[i] = "hi" => t[i] = Append(p, Becomes(b, i))
        /\ b[i] = "lo" /\ i > 1 /\ b[i - 1] = "hi" => t[i] = p
        /\ b[i] = "lo" /\ ~(i > 1 /\ b[i - 1] = "hi") => t[i] = Append(p, "U+FFFD")
    BY <1>2, SpellingStep
  <2>4. /\ x.half => ~x.string /\ i > 1 /\ b[i - 1] = "hi"
        /\ i > 1 /\ b[i - 1] = "hi" /\ ~x.half => x.string
        /\ Process(s, p) = Settled(x, Becomes(b, i - 1))
    BY <1>5, <2>1
  <2>5. /\ b[i] # "lo" => Becomes(b, i - 1) = "U+FFFD"
        /\ b[i] = "lo" /\ i > 1 => Becomes(b, i - 1) = "e'"
    BY <2>1 DEF Becomes
  <2>6. Becomes(b, i) \in {"e'", "U+FFFD"} /\ Becomes(b, i) \in Letters /\ "U+FFFD" \in Letters
    BY DEF Becomes, Letters
  <2>7. \A c \in Letters : Process(s, Append(p, c)) = TerminalByte(Process(s, p), c)
    BY <2>3, ProcessMore
  <2> SUFFICES /\ y.half => ~y.string /\ b[i] = "hi"
               /\ b[i] = "hi" /\ ~y.half => y.string
               /\ Process(s, t[i]) = Settled(y, Becomes(b, i))
    BY <2>1
  <2> HIDE DEF x, y, p, G
  <2>8. CASE b[i] \notin {"hi", "lo"}
    <3>1. /\ TerminalByte(Settled(x, "U+FFFD"), b[i]) = y
          /\ ~y.half
      BY <2>2, <2>3, <2>4, <2>8, OtherByte
    <3>2. Process(s, t[i]) = y
      BY <2>3, <2>4, <2>5, <2>7, <2>8, <3>1
    <3> QED BY <2>8, <3>1, <3>2 DEF Settled
  <2>9. CASE b[i] = "hi"
    <3>1. /\ TerminalByte(Settled(x, "U+FFFD"), Becomes(b, i)) = Settled(y, Becomes(b, i))
          /\ y.half <=> ~x.string
          /\ y.string <=> x.string
      BY <2>2, <2>4, <2>6, <2>9, FirstByte
    <3>2. Process(s, t[i]) = Settled(y, Becomes(b, i))
      BY <2>3, <2>4, <2>5, <2>6, <2>7, <2>9, <3>1
    <3> QED BY <2>2, <2>9, <3>1, <3>2 DEF Screens
  <2>10. CASE b[i] = "lo" /\ i > 1 /\ b[i - 1] = "hi"
    <3>1. y = Settled(x, "e'") /\ ~y.half
      BY <2>2, <2>4, <2>10, SecondByte
    <3>2. Process(s, t[i]) = y
      BY <2>3, <2>4, <2>5, <2>10, <3>1
    <3> QED BY <2>10, <3>1, <3>2 DEF Settled
  <2>11. CASE b[i] = "lo" /\ ~(i > 1 /\ b[i - 1] = "hi")
    <3>1. ~x.half
      BY <2>4, <2>11
    <3>2. TerminalByte(x, "U+FFFD") = y /\ ~y.half
      BY <2>2, <2>4, <2>11, <3>1, SecondByte
    <3>3. Process(s, p) = x
      BY <2>4, <3>1 DEF Settled
    <3>4. Process(s, t[i]) = y
      BY <2>3, <2>6, <2>7, <2>11, <3>2, <3>3
    <3> QED BY <2>11, <3>2, <3>4 DEF Settled
  <2> QED BY <2>8, <2>9, <2>10, <2>11
<1> HIDE DEF G
<1>6. \A i \in 0..n : i \in G
  BY <1>1, <1>4, <1>5, BoundedInduction
<1>7. n \in G /\ n \in 0..n
  BY <1>1, <1>6
<1>8. ~f[n].half
  BY <1>1, <1>7 DEF G, Whole
<1>9. Process(s, t[n]) = f[n]
  BY <1>7, <1>8 DEF G, Settled
<1> QED BY <1>2, <1>3, <1>7, <1>8, <1>9

Controls == {"setbg", "resetbg"}

\* How a text of this chunk ends, as far as the background is concerned.
SameEnd(p, b, i) ==
  /\ i = 0 => p = <<>>
  /\ i > 0 => Len(p) > 0 /\ \A op \in Controls : p[Len(p)] = op <=> b[i] = op

LEMMA ShadeOfMore ==
  ASSUME NEW p \in Words, NEW c \in Letters, NEW b \in Words, NEW i \in 1..Len(b),
         SameEnd(p, b, i - 1), c = b[i] \/ (c \notin Controls \cup {"bel"} /\ b[i] \in {"hi", "lo"})
  PROVE  /\ \A x : Shade(x, Append(p, c), Len(p) + 1) = Shade(x, b, i)
         /\ SameEnd(Append(p, c), b, i)
<1>1. /\ Len(p) \in Nat /\ Len(b) \in Nat
      /\ Len(Append(p, c)) = Len(p) + 1 /\ Append(p, c)[Len(p) + 1] = c
      /\ \A k \in 1..Len(p) : Append(p, c)[k] = p[k]
  BY AppendWord, WordFacts
<1>2. Len(<<>>) = 0
  BY EmptySeq
<1>3. c = "bel" <=> b[i] = "bel"
  OBVIOUS
<1>4. (Len(p) + 1 > 1 <=> Len(p) > 0) /\ (Len(p) + 1) - 1 = Len(p) /\ (Len(p) > 0 => Len(p) \in 1..Len(p))
  BY <1>1
<1>5. Len(p) > 0 <=> i > 1
  BY <1>1, <1>2 DEF SameEnd
<1>6. ASSUME NEW op \in Controls
      PROVE  Ends(Append(p, c), Len(p) + 1, op) <=> Ends(b, i, op)
  <2>1. i > 1 => (p[Len(p)] = op <=> b[i - 1] = op)
    BY <1>1 DEF SameEnd
  <2>2. Ends(Append(p, c), Len(p) + 1, op) <=> c = "bel" /\ Len(p) > 0 /\ p[Len(p)] = op
    BY <1>1, <1>4 DEF Ends
  <2> QED BY <1>3, <1>5, <2>1, <2>2 DEF Ends
<1>7. \A x : Shade(x, Append(p, c), Len(p) + 1) = Shade(x, b, i)
  <2>1. "setbg" \in Controls /\ "resetbg" \in Controls
    BY DEF Controls
  <2> QED BY <1>6, <2>1 DEF Shade
<1>8. SameEnd(Append(p, c), b, i)
  <2>1. \A op \in Controls : c = op <=> b[i] = op
    BY DEF Controls
  <2>2. i > 0 /\ Len(p) + 1 > 0
    BY <1>1
  <2> QED BY <1>1, <2>1, <2>2 DEF SameEnd
<1> QED BY <1>7, <1>8

LEMMA SameBackground ==
  ASSUME NEW bg \in Backgrounds, NEW b \in Words
  PROVE  Observe(bg, Lossy(b)) = Observe(bg, b)
<1> DEFINE n == Len(b)
<1>1. n \in Nat
  BY WordFacts
<1>2. PICK t \in [0..n -> Words] : Spelling(b, n, t) /\ Lossy(b) = t[n]
  BY LossySpells
<1>3. PICK g : Seeing(bg, b, n, g) /\ Observe(bg, b) = g[n]
  BY ObserveSees
<1> DEFINE G == {i \in 0..n : Observe(bg, t[i]) = g[i] /\ SameEnd(t[i], b, i)}
<1>4. 0 \in G
  <2>1. t[0] = <<>> /\ g[0] = bg
    BY <1>1, <1>2, <1>3 DEF Spelling, Seeing
  <2> QED BY <1>1, <2>1, ObserveNothing DEF SameEnd
<1>5. ASSUME NEW i \in 1..n, i - 1 \in G
      PROVE  i \in G
  <2> DEFINE p == t[i - 1]
  <2>1. i \in 0..n
    BY <1>1
  <2>2. g[i] = Shade(g[i - 1], b, i)
    BY <1>1, <1>3, SeeingStep
  <2>3. /\ p \in Words /\ b[i] \in Letters
        /\ b[i] \notin {"hi", "lo"} => t[i] = Append(p, b[i])
        /\ b[i] = "hi" => t[i] = Append(p, Becomes(b, i))
        /\ b[i] = "lo" /\ i > 1 /\ b[i - 1] = "hi" => t[i] = p
        /\ b[i] = "lo" /\ ~(i > 1 /\ b[i - 1] = "hi") => t[i] = Append(p, "U+FFFD")
    BY <1>2, SpellingStep
  <2>4. Observe(bg, p) = g[i - 1] /\ SameEnd(p, b, i - 1)
    BY <1>5
  <2>5. SUFFICES Observe(bg, t[i]) = g[i] /\ SameEnd(t[i], b, i)
    BY <2>1
  <2> HIDE DEF p, G
  <2>6. ASSUME NEW c \in Letters, t[i] = Append(p, c),
               c = b[i] \/ (c \notin Controls \cup {"bel"} /\ b[i] \in {"hi", "lo"})
        PROVE  Observe(bg, t[i]) = g[i] /\ SameEnd(t[i], b, i)
    <3>1. /\ \A x : Shade(x, Append(p, c), Len(p) + 1) = Shade(x, b, i)
          /\ SameEnd(Append(p, c), b, i)
      BY <2>3, <2>4, <2>6, ShadeOfMore
    <3>2. Observe(bg, Append(p, c)) = Shade(Observe(bg, p), Append(p, c), Len(p) + 1)
      BY <2>3, ObserveMore
    <3> QED BY <2>2, <2>4, <2>6, <3>1, <3>2
  <2>7. CASE b[i] \notin {"hi", "lo"}
    BY <2>3, <2>6, <2>7
  <2>8. CASE b[i] = "hi"
    <3>1. Becomes(b, i) \in Letters /\ Becomes(b, i) \notin Controls \cup {"bel"}
      BY DEF Becomes, Letters, Controls
    <3> QED BY <2>3, <2>6, <2>8, <3>1
  <2>9. CASE b[i] = "lo" /\ i > 1 /\ b[i - 1] = "hi"
    <3>1. t[i] = p
      BY <2>3, <2>9
    <3>2. g[i] = g[i - 1]
      BY <2>2, <2>9 DEF Shade, Ends
    <3>3. SameEnd(p, b, i)
      BY <2>4, <2>9 DEF SameEnd, Controls
    <3> QED BY <2>4, <3>1, <3>2, <3>3
  <2>10. CASE b[i] = "lo" /\ ~(i > 1 /\ b[i - 1] = "hi")
    <3>1. "U+FFFD" \in Letters /\ "U+FFFD" \notin Controls \cup {"bel"}
      BY DEF Letters, Controls
    <3> QED BY <2>3, <2>6, <2>10, <3>1
  <2> QED BY <2>7, <2>8, <2>9, <2>10
<1> HIDE DEF G
<1>6. \A i \in 0..n : i \in G
  BY <1>1, <1>4, <1>5, BoundedInduction
<1>7. n \in G
  BY <1>1, <1>6
<1> QED BY <1>2, <1>3, <1>7 DEF G

\* What one chunk does, as it was read or as the trace has it.
LEMMA SameOutput ==
  ASSUME NEW s \in Screens, ~s.half, NEW b \in Words, Whole(b)
  PROVE  /\ ProcessOutput(s, Lossy(b)) = ProcessOutput(s, b)
         /\ ProcessOutput(s, b) \in Screens /\ ~ProcessOutput(s, b).half
<1>1. s.bg \in Backgrounds
  BY DEF Screens, Backgrounds
<1>2. Observe(s.bg, Lossy(b)) = Observe(s.bg, b) /\ Observe(s.bg, b) \in Backgrounds
  BY <1>1, SameBackground, ObserveBackground
<1>3. /\ Process(s, Lossy(b)) = Process(s, b)
      /\ Process(s, b) \in Screens /\ ~Process(s, b).half
  BY SameScreen
<1> QED BY <1>2, <1>3 DEF ProcessOutput, Screens, Backgrounds

-----------------------------------------------------------------------------
(* The trace of a capture, its replay, and the frames painted meanwhile.    *)

Chunks(capture) ==
  /\ Len(capture) \in Nat /\ DOMAIN capture = 1..Len(capture)
  /\ \A i \in 1..Len(capture) :
       capture[i].bytes \in Words /\ capture[i].bytes # <<>> /\ capture[i].dwell \in Nat

StepOf(chunk) == [kind |-> "o", data |-> Lossy(chunk.bytes), dwell |-> chunk.dwell]

Built(capture, n) == [steps |-> [i \in 1..n |-> StepOf(capture[i])], leading |-> 0]

Building(capture, n, g) ==
  g = [i \in 0..n |-> IF i = 0 THEN NewBuilder
                      ELSE RecordOutput(g[i - 1], capture[i].bytes, capture[i].dwell)]

Finishing(builder, n, g) ==
  g = [i \in 0..n |-> IF i = 0 THEN builder.leading ELSE g[i - 1] + builder.steps[i].dwell]

Showing(events, n, g) ==
  g = [i \in 0..n |-> IF i = 0 THEN NewScreen ELSE ApplyEvent(g[i - 1], events[i])]

Stitching(capture, n, g) ==
  g = [i \in 0..n |-> IF i = 0 THEN NewScreen ELSE ProcessOutput(g[i - 1], capture[i].bytes)]

LEMMA AppendNext ==
  ASSUME NEW M, NEW n \in Nat, NEW F \in [1..(n + 1) -> M]
  PROVE  Append([i \in 1..n |-> F[i]], F[n + 1]) = F
<1> DEFINE s == [i \in 1..n |-> F[i]]
<1>1. s \in [1..n -> M] /\ F[n + 1] \in M
  OBVIOUS
<1>2. s \in Seq(M) /\ Len(s) = n
  BY <1>1, SeqDef, LenProperties
<1> HIDE DEF s
<1>3. /\ Append(s, F[n + 1]) \in Seq(M) /\ Len(Append(s, F[n + 1])) = n + 1
      /\ Append(s, F[n + 1])[n + 1] = F[n + 1]
      /\ \A i \in 1..n : Append(s, F[n + 1])[i] = s[i]
  BY <1>1, <1>2, AppendProperties
<1>4. Append(s, F[n + 1]) \in [1..(n + 1) -> M]
  BY <1>3, LenProperties
<1>5. \A i \in 1..(n + 1) : Append(s, F[n + 1])[i] = F[i]
  BY <1>3 DEF s
<1>6. Append(s, F[n + 1]) = F
  BY <1>4, <1>5
<1> QED BY <1>6 DEF s

LEMMA OneStepMore ==
  ASSUME NEW s, NEW x
  PROVE  [[steps |-> s, leading |-> 0] EXCEPT !.steps = Append(@, x)]
           = [steps |-> Append(s, x), leading |-> 0]
<1> DEFINE t == Append(s, x)
           r == [steps |-> s, leading |-> 0]
<1>1. r.steps = s
  OBVIOUS
<1> HIDE DEF t
<1>2. [r EXCEPT !.steps = t] = [steps |-> t, leading |-> 0]
  OBVIOUS
<1>3. [r EXCEPT !.steps = Append(@, x)] = [r EXCEPT !.steps = t]
  BY <1>1 DEF t
<1> QED BY <1>2, <1>3 DEF t

LEMMA BuiltMore ==
  ASSUME NEW capture, Chunks(capture), NEW i \in 1..Len(capture)
  PROVE  RecordOutput(Built(capture, i - 1), capture[i].bytes, capture[i].dwell) = Built(capture, i)
<1> DEFINE F == [j \in 1..i |-> StepOf(capture[j])]
           M == {StepOf(capture[j]) : j \in 1..i}
           m == i - 1
<1>1. m \in Nat /\ m + 1 = i
  BY DEF Chunks
<1>2. F \in [1..(m + 1) -> M]
  BY <1>1
<1>3. [j \in 1..m |-> F[j]] = [j \in 1..m |-> StepOf(capture[j])] /\ F[m + 1] = StepOf(capture[i])
  BY <1>1
<1>4. Append([j \in 1..m |-> F[j]], F[m + 1]) = F
  <2> HIDE DEF F, M, m
  <2> QED BY <1>1, <1>2, AppendNext
<1>5. Append([j \in 1..m |-> StepOf(capture[j])], StepOf(capture[i])) = F
  <2> HIDE DEF F, M, m
  <2> QED BY <1>3, <1>4
<1>6. capture[i].bytes # <<>>
  BY DEF Chunks
<1>7. RecordOutput(Built(capture, m), capture[i].bytes, capture[i].dwell)
        = [Built(capture, m) EXCEPT !.steps = Append(@, StepOf(capture[i]))]
  <2> HIDE DEF m
  <2> QED BY <1>6 DEF RecordOutput, StepOf
<1>8. [Built(capture, m) EXCEPT !.steps = Append(@, StepOf(capture[i]))]
        = [steps |-> Append([j \in 1..m |-> StepOf(capture[j])], StepOf(capture[i])), leading |-> 0]
  BY OneStepMore DEF Built
<1>9. Built(capture, i) = [steps |-> F, leading |-> 0]
  BY DEF Built
<1> HIDE DEF F
<1> QED BY <1>5, <1>7, <1>8, <1>9

LEMMA BuiltInTheEnd ==
  ASSUME NEW capture, Chunks(capture)
  PROVE  TraceOf(capture) = [ok |-> TRUE, events |-> Finish(Built(capture, Len(capture)))]
<1> DEFINE n == Len(capture)
           h == [i \in 0..n |-> Built(capture, i)]
           f == CHOOSE g : Building(capture, n, g)
<1>1. n \in Nat
  BY DEF Chunks
<1>2. Built(capture, 0) = NewBuilder
  BY DEF Built, NewBuilder
<1>3. Building(capture, n, h)
  <2>1. ASSUME NEW i \in 0..n
        PROVE  h[i] = IF i = 0 THEN NewBuilder
                      ELSE RecordOutput(h[i - 1], capture[i].bytes, capture[i].dwell)
    <3>1. CASE i = 0
      BY <1>2, <3>1
    <3>2. CASE i # 0
      <4>1. i \in 1..Len(capture) /\ i - 1 \in 0..n
        BY <1>1, <3>2
      <4>2. h[i] = Built(capture, i) /\ h[i - 1] = Built(capture, i - 1)
        BY <4>1
      <4> HIDE DEF h
      <4> QED BY <3>2, <4>1, <4>2, BuiltMore
    <3> QED BY <3>1, <3>2
  <2>2. h = [i \in 0..n |-> h[i]]
    OBVIOUS
  <2> HIDE DEF h, n
  <2> QED BY <2>1, <2>2 DEF Building
<1>4. Building(capture, n, f)
  <2> HIDE DEF h
  <2> QED BY <1>3
<1>5. TraceOf(capture) = [ok |-> TRUE, events |-> Finish(f[n])]
  BY Zenon DEF TraceOf, Building
<1> HIDE DEF f
<1>6. f[0] = h[0]
  BY <1>1, <1>2, <1>4 DEF Building
<1>7. \A i \in 0..n : h[i] = Built(capture, i)
  OBVIOUS
<1> HIDE DEF h
<1>8. ASSUME NEW i \in 1..n, f[i - 1] = h[i - 1]
      PROVE  f[i] = h[i]
  <2>1. i \in 0..n /\ i # 0
    BY <1>1
  <2>2. f[i] = RecordOutput(f[i - 1], capture[i].bytes, capture[i].dwell)
    BY <1>4, <2>1 DEF Building
  <2>3. h[i] = RecordOutput(h[i - 1], capture[i].bytes, capture[i].dwell)
    BY <1>3, <2>1 DEF Building
  <2> QED BY <1>8, <2>2, <2>3
<1> HIDE DEF n
<1>9. \A i \in 0..n : f[i] = h[i]
  <2>1. \A i \in 1..n : f[i - 1] = h[i - 1] => f[i] = h[i]
    BY <1>8
  <2> HIDE DEF Building
  <2> QED BY ONLY <1>1, <1>6, <2>1, SameSteps, SMTT(30)
<1>10. f[n] = Built(capture, n)
  BY <1>1, <1>7, <1>9
<1> QED BY <1>5, <1>10 DEF n

LEMMA StepFields ==
  ASSUME NEW chunk
  PROVE  /\ StepOf(chunk).dwell = chunk.dwell /\ StepOf(chunk).kind = "o"
         /\ StepOf(chunk).data = Lossy(chunk.bytes)
  BY DEF StepOf

LEMMA FinishTimes ==
  ASSUME NEW capture, Chunks(capture)
  PROVE  \E e \in [0..Len(capture) -> Nat] :
           /\ \A i \in 1..Len(capture) : e[i] = e[i - 1] + capture[i].dwell
           /\ Finish(Built(capture, Len(capture)))
                = [i \in 1..Len(capture) |->
                     [time |-> e[i - 1], kind |-> "o", data |-> Lossy(capture[i].bytes)]]
<1> DEFINE n    == Len(capture)
           B    == Built(capture, n)
           step == [i \in 1..n |-> [x \in Nat |-> x + capture[i].dwell]]
           f    == CHOOSE g : Finishing(B, n, g)
<1>1. n \in Nat /\ \A i \in 1..n : capture[i].dwell \in Nat
  BY DEF Chunks
<1>2. /\ B.leading = 0 /\ Len(B.steps) = n /\ DOMAIN B.steps = 1..n
      /\ \A i \in 1..n : /\ B.steps[i].dwell = capture[i].dwell /\ B.steps[i].kind = "o"
                          /\ B.steps[i].data = Lossy(capture[i].bytes)
  <2>1. B.leading = 0 /\ B.steps = [i \in 1..n |-> StepOf(capture[i])]
    BY DEF Built
  <2>2. [i \in 1..n |-> StepOf(capture[i])] \in Seq({StepOf(capture[i]) : i \in 1..n})
    <3>1. [i \in 1..n |-> StepOf(capture[i])] \in [1..n -> {StepOf(capture[i]) : i \in 1..n}]
      OBVIOUS
    <3> QED BY <1>1, <3>1, SeqDef
  <2>3. Len([i \in 1..n |-> StepOf(capture[i])]) = n
    BY <1>1, <2>2, LenProperties
  <2>4. ASSUME NEW i \in 1..n PROVE B.steps[i] = StepOf(capture[i])
    <3> HIDE DEF B, n
    <3> QED BY <2>1
  <2>5. Len(B.steps) = n /\ DOMAIN B.steps = 1..n
    <3> HIDE DEF B, n
    <3> QED BY <2>1, <2>3
  <2>6. ASSUME NEW i \in 1..n
        PROVE  /\ B.steps[i].dwell = capture[i].dwell /\ B.steps[i].kind = "o"
               /\ B.steps[i].data = Lossy(capture[i].bytes)
    <3> HIDE DEF B, n
    <3>1. B.steps[i] = StepOf(capture[i])
      BY <2>4
    <3> QED BY <3>1, StepFields
  <2> QED BY <2>1, <2>5, <2>6
<1>3. step \in [1..n -> [Nat -> Nat]]
  BY <1>1
<1>4. PICK g \in [0..n -> Nat] : Recurs(n, 0, step, g)
  <2> HIDE DEF n, step
  <2> QED BY <1>1, <1>3, RecursionExists
<1> HIDE DEF B
<1>5. Finishing(B, n, g)
  <2>1. ASSUME NEW i \in 0..n
        PROVE  g[i] = IF i = 0 THEN B.leading ELSE g[i - 1] + B.steps[i].dwell
    <3>1. g[i] = IF i = 0 THEN 0 ELSE step[i][g[i - 1]]
      <4> HIDE DEF n, step
      <4> QED BY <1>4 DEF Recurs
    <3>2. i # 0 => i \in 1..n /\ i - 1 \in 0..n
      BY <1>1
    <3>3. i # 0 => g[i - 1] \in Nat
      BY <1>4, <3>2
    <3> QED BY <1>2, <3>1, <3>2, <3>3
  <2>2. g = [i \in 0..n |-> g[i]]
    BY <1>4
  <2> HIDE DEF n, step
  <2> QED BY <2>1, <2>2 DEF Finishing
<1>6. Finishing(B, n, f)
  BY <1>5
<1>7. Finish(B) = [i \in DOMAIN B.steps |->
                     [time |-> f[i - 1], kind |-> B.steps[i].kind, data |-> B.steps[i].data]]
  <2> HIDE DEF n
  <2>1. Finish(B) = LET e == CHOOSE k : Finishing(B, Len(B.steps), k)
                    IN  [i \in DOMAIN B.steps |->
                           [time |-> e[i - 1], kind |-> B.steps[i].kind, data |-> B.steps[i].data]]
    BY Zenon DEF Finish, Finishing
  <2> QED BY <1>2, <2>1
<1> HIDE DEF f, step
<1>8. ASSUME NEW i \in 1..n
      PROVE  f[i] = f[i - 1] + capture[i].dwell
  <2>1. i \in 0..n /\ i # 0
    BY <1>1
  <2> QED BY <1>2, <1>6, <2>1 DEF Finishing
<1>9. f[0] \in Nat
  <2>1. f[0] = 0
    BY <1>1, <1>2, <1>6 DEF Finishing
  <2> QED BY <2>1
<1>10. \A i \in 0..n : f[i] \in Nat
  <2>1. \A i \in 1..n : f[i - 1] \in Nat => f[i] \in Nat
    BY <1>1, <1>8
  <2> HIDE DEF n
  <2> QED BY <1>1, <1>9, <2>1, StepsStay
<1>11. f \in [0..n -> Nat]
  <2>1. f = [i \in 0..n |-> f[i]]
    BY <1>6 DEF Finishing
  <2> QED BY <1>10, <2>1
<1>12. Finish(B) = [i \in 1..n |-> [time |-> f[i - 1], kind |-> "o", data |-> Lossy(capture[i].bytes)]]
  BY <1>2, <1>7
<1> QED BY <1>8, <1>11, <1>12 DEF B

\* How long a frame of a clean capture stays, by the one road or the other.
LEMMA DividesWhole ==
  ASSUME NEW a \in Nat, NEW b \in Nat \ {0}
  PROVE  a = b * (a \div b) + (a % b) /\ a \div b \in Nat /\ a % b \in Nat
  BY SMTT(20)

LEMMA Quotient ==
  ASSUME NEW a \in Nat, NEW b \in Nat \ {0}, NEW q \in Nat, NEW r \in Nat, r < b, a = b * q + r
  PROVE  a \div b = q
  BY SMTT(20)

LEMMA SameDwell ==
  ASSUME NEW start \in Nat, NEW d \in Nat, d >= TICKS_PER_MS, d % TICKS_PER_MS = 0
  PROVE  DwellUntilNext(start, start + d) = d \div TICKS_PER_MS
<1> DEFINE T == TICKS_PER_MS
           q == d \div T
<1>1. T \in Nat \ {0}
  BY TicksAssumption
<1>2. d = T * q + (d % T) /\ q \in Nat
  <2> HIDE DEF T
  <2> QED BY <1>1, DividesWhole
<1>3. d = T * q
  BY <1>1, <1>2
<1>4. (start + d) - start = d
  OBVIOUS
<1> HIDE DEF T, q
<1>5. 2 * d + T = (2 * T) * q + T
  BY <1>1, <1>2, <1>3
<1>6. 2 * T \in Nat \ {0} /\ T < 2 * T /\ 2 * d + T \in Nat /\ T \in Nat
  BY <1>1
<1>7. (2 * d + T) \div (2 * T) = q
  BY <1>2, <1>5, <1>6, Quotient
<1>8. ~(q < 1)
  <2>1. q # 0
    <3>1. q = 0 => d = 0
      BY <1>1, <1>3
    <3> QED BY <1>1, <3>1 DEF T
  <2> QED BY <1>2, <2>1
<1> QED BY <1>4, <1>7, <1>8 DEF DwellUntilNext, T, q

Painting == {x \in Screens : ~x.half}

\* Both roads pass through the same screens.
LEMMA SameScreens ==
  ASSUME NEW capture, Chunks(capture), NEW events, Len(events) = Len(capture),
         \A i \in 1..Len(capture) : /\ Whole(capture[i].bytes)
                                    /\ events[i].kind = "o"
                                    /\ events[i].data = Lossy(capture[i].bytes)
  PROVE  \A i \in 0..Len(capture) :
           (CHOOSE g : Showing(events, Len(events), g))[i]
             = (CHOOSE g : Stitching(capture, Len(capture), g))[i]
<1> DEFINE n    == Len(capture)
           step == [i \in 1..n |-> [x \in Painting |-> ProcessOutput(x, capture[i].bytes)]]
           f    == CHOOSE g : Showing(events, n, g)
           h    == CHOOSE g : Stitching(capture, n, g)
<1>1. n \in Nat /\ \A i \in 1..n : capture[i].bytes \in Words /\ Whole(capture[i].bytes)
  BY DEF Chunks
<1>2. ASSUME NEW x \in Painting, NEW i \in 1..n
      PROVE  /\ ProcessOutput(x, capture[i].bytes) \in Painting
             /\ ApplyEvent(x, events[i]) = ProcessOutput(x, capture[i].bytes)
  <2>1. /\ ProcessOutput(x, Lossy(capture[i].bytes)) = ProcessOutput(x, capture[i].bytes)
        /\ ProcessOutput(x, capture[i].bytes) \in Screens
        /\ ~ProcessOutput(x, capture[i].bytes).half
    BY <1>1, SameOutput DEF Painting
  <2>2. ApplyEvent(x, events[i]) = ProcessOutput(x, Lossy(capture[i].bytes))
    BY DEF ApplyEvent
  <2> QED BY <2>1, <2>2 DEF Painting
<1>3. NewScreen \in Painting
  <2>1. <<>> \in Words
    BY WordFacts
  <2> QED BY <2>1 DEF NewScreen, Painting, Screens
<1>4. step \in [1..n -> [Painting -> Painting]]
  BY <1>2
<1>5. PICK g \in [0..n -> Painting] : Recurs(n, NewScreen, step, g)
  <2> HIDE DEF n, step
  <2> QED BY <1>1, <1>3, <1>4, RecursionExists
<1>6. ASSUME NEW i \in 0..n
      PROVE  /\ i = 0 => g[i] = NewScreen
             /\ i # 0 => /\ g[i] = ProcessOutput(g[i - 1], capture[i].bytes)
                         /\ g[i] = ApplyEvent(g[i - 1], events[i])
  <2>1. g[i] = IF i = 0 THEN NewScreen ELSE step[i][g[i - 1]]
    <3> HIDE DEF n, step
    <3> QED BY <1>5 DEF Recurs
  <2>2. i # 0 => i \in 1..n /\ i - 1 \in 0..n
    BY <1>1
  <2>3. i # 0 => g[i - 1] \in Painting
    BY <1>5, <2>2
  <2>4. i # 0 => step[i][g[i - 1]] = ProcessOutput(g[i - 1], capture[i].bytes)
    BY <2>2, <2>3
  <2> HIDE DEF step
  <2> QED BY <1>2, <2>1, <2>2, <2>3, <2>4
<1> HIDE DEF step
<1>7. g = [i \in 0..n |-> g[i]]
  BY <1>5
<1>8. Showing(events, n, g) /\ Stitching(capture, n, g)
  <2> HIDE DEF n
  <2> QED BY <1>6, <1>7 DEF Showing, Stitching
<1>9. Showing(events, n, f) /\ Stitching(capture, n, h)
  BY <1>8
<1> HIDE DEF f, h
<1>10. ASSUME NEW k, Showing(events, n, k) \/ Stitching(capture, n, k)
       PROVE  \A i \in 0..n : k[i] = g[i]
  <2>1. k[0] = g[0]
    BY <1>1, <1>6, <1>10 DEF Showing, Stitching
  <2>2. ASSUME NEW i \in 1..n, k[i - 1] = g[i - 1]
        PROVE  k[i] = g[i]
    <3>1. i \in 0..n /\ i # 0
      BY <1>1
    <3>2. /\ g[i] = ProcessOutput(g[i - 1], capture[i].bytes)
          /\ g[i] = ApplyEvent(g[i - 1], events[i])
      BY <1>6, <3>1
    <3>3. \/ k[i] = ProcessOutput(k[i - 1], capture[i].bytes)
          \/ k[i] = ApplyEvent(k[i - 1], events[i])
      BY <1>10, <3>1 DEF Showing, Stitching
    <3> QED BY <2>2, <3>2, <3>3
  <2> DEFINE G == {i \in 0..n : k[i] = g[i]}
  <2>3. 0 \in G /\ \A i \in 1..n : i - 1 \in G => i \in G
    BY <1>1, <2>1, <2>2
  <2> HIDE DEF G, n
  <2>4. \A i \in 0..n : i \in G
    BY <1>1, <2>3, BoundedInduction
  <2> QED BY <2>4 DEF G
<1>11. \A i \in 0..n : f[i] = h[i]
  BY <1>9, <1>10
<1> QED BY <1>11 DEF f, h

Frames(events) ==
  [i \in DOMAIN events |->
     [frame |-> Snapshot((CHOOSE g : Showing(events, Len(events), g))[i]),
      dwell |-> IF i = Len(events) THEN 0
                ELSE DwellUntilNext(events[i].time, events[i + 1].time)]]

LEMMA ReplayUnfolds ==
  ASSUME NEW tape
  PROVE  ReplayTrace(tape) = Frames(Only(tape.events, Visible(tape.events)))
  BY Zenon DEF ReplayTrace, Showing, Frames

LEMMA StitchUnfolds ==
  ASSUME NEW capture
  PROVE  Stitch(capture) =
           [i \in DOMAIN capture |->
              [frame |-> Snapshot((CHOOSE g : Stitching(capture, Len(capture), g))[i]),
               dwell |-> IF i = Len(capture) THEN 0 ELSE capture[i].dwell \div TICKS_PER_MS]]
  BY Zenon DEF Stitch, Stitching

\* The frames painted during a clean capture are those of its trace.
LEMMA StitchIsReplay ==
  ASSUME NEW capture, Chunks(capture), CleanCapture(capture)
  PROVE  Replayable(TraceOf(capture)) /\ ReplayTrace(TraceOf(capture)) = Stitch(capture)
<1> DEFINE n     == Len(capture)
           tape == TraceOf(capture)
<1>1. n \in Nat /\ DOMAIN capture = 1..n
  BY DEF Chunks
<1>2. PICK e \in [0..n -> Nat] :
        /\ \A i \in 1..n : e[i] = e[i - 1] + capture[i].dwell
        /\ Finish(Built(capture, n))
             = [i \in 1..n |-> [time |-> e[i - 1], kind |-> "o", data |-> Lossy(capture[i].bytes)]]
  BY FinishTimes
<1> DEFINE E == [i \in 1..n |-> [time |-> e[i - 1], kind |-> "o", data |-> Lossy(capture[i].bytes)]]
           M == {E[i] : i \in 1..n}
<1>3. tape = [ok |-> TRUE, events |-> E]
  BY <1>2, BuiltInTheEnd
<1>4. DOMAIN E = 1..n /\ \A i \in 1..n : /\ E[i].time = e[i - 1] /\ E[i].kind = "o"
                                        /\ E[i].data = Lossy(capture[i].bytes)
  OBVIOUS
<1>5. E \in [1..n -> M]
  OBVIOUS
<1> HIDE DEF E
<1>6. E \in Seq(M) /\ Len(E) = n
  BY <1>1, <1>5, SeqDef, LenProperties
<1>7. Only(E, Visible(E)) = E
  <2>1. \A i \in 1..Len(E) : E[i] \in Visible(E)
    BY <1>4, <1>6 DEF Visible, Range
  <2> QED BY <1>6, <2>1, OnlyOfAll
<1>8. \A i \in 1..n : Whole(capture[i].bytes)
  BY <1>1 DEF CleanCapture, Whole
<1>9. \A i \in 0..n : (CHOOSE g : Showing(E, Len(E), g))[i]
                       = (CHOOSE g : Stitching(capture, n, g))[i]
  BY <1>4, <1>6, <1>8, SameScreens
<1>10. ASSUME NEW i \in 1..n
       PROVE  (IF i = n THEN 0 ELSE DwellUntilNext(E[i].time, E[i + 1].time))
                = (IF i = n THEN 0 ELSE capture[i].dwell \div TICKS_PER_MS)
  <2>1. SUFFICES ASSUME i # n
                 PROVE  DwellUntilNext(E[i].time, E[i + 1].time) = capture[i].dwell \div TICKS_PER_MS
    OBVIOUS
  <2>2. i < n /\ i + 1 \in 1..n /\ (i + 1) - 1 = i /\ i - 1 \in 0..n
    <3> HIDE DEF n
    <3> QED BY <1>1, <2>1
  <2>3. E[i].time = e[i - 1] /\ E[i + 1].time = e[i] /\ e[i] = e[i - 1] + capture[i].dwell
    <3>1. E[i + 1].time = e[(i + 1) - 1]
      BY <1>4, <2>2
    <3> QED BY <1>2, <1>4, <2>2, <3>1
  <2>4. e[i - 1] \in Nat
    BY <1>2, <2>2
  <2>5. /\ capture[i].dwell \in Nat /\ capture[i].dwell >= TICKS_PER_MS
        /\ capture[i].dwell % TICKS_PER_MS = 0
    BY <1>1, <2>2 DEF Chunks, CleanCapture
  <2> QED BY <2>3, <2>4, <2>5, SameDwell
<1> DEFINE f == CHOOSE g : Showing(E, Len(E), g)
           h == CHOOSE g : Stitching(capture, n, g)
<1>11. ReplayTrace(tape) =
         [i \in 1..n |-> [frame |-> Snapshot(f[i]),
                          dwell |-> IF i = n THEN 0 ELSE DwellUntilNext(E[i].time, E[i + 1].time)]]
  <2>1. tape.events = E
    BY <1>3
  <2> HIDE DEF tape
  <2>2. ReplayTrace(tape) = Frames(E)
    BY <1>7, <2>1, ReplayUnfolds
  <2>3. Frames(E) =
          [i \in DOMAIN E |-> [frame |-> Snapshot(f[i]),
                               dwell |-> IF i = Len(E) THEN 0
                                         ELSE DwellUntilNext(E[i].time, E[i + 1].time)]]
    BY DEF Frames
  <2> HIDE DEF f, n
  <2> QED BY <1>4, <1>6, <2>2, <2>3
<1>12. Stitch(capture) =
         [i \in 1..n |-> [frame |-> Snapshot(h[i]),
                          dwell |-> IF i = n THEN 0 ELSE capture[i].dwell \div TICKS_PER_MS]]
  BY <1>1, StitchUnfolds
<1>13. \A i \in 1..n : f[i] = h[i]
  BY <1>9
<1> HIDE DEF f, h
<1>14. ReplayTrace(tape) = Stitch(capture)
  <2> HIDE DEF tape, n
  <2> QED BY <1>10, <1>11, <1>12, <1>13
<1>15. Replayable(tape)
  <2>1. tape.ok /\ tape.events = E
    BY <1>3
  <2>2. \A i \in DOMAIN E : E[i].kind # "r"
    BY <1>4
  <2> HIDE DEF tape
  <2> QED BY <2>1, <2>2 DEF Replayable
<1> QED BY <1>14, <1>15

\* Whoever has captured something has painted something.
LEMMA StitchShows ==
  ASSUME NEW capture \in Captures, capture # <<>>
  PROVE  Stitch(capture) # <<>>
<1>1. capture \in Seq([bytes : Seq(STRING) \ {<<>>}, dwell : Nat])
  BY CapturesAssumption
<1>2. DOMAIN capture = 1..Len(capture) /\ Len(capture) \in Nat /\ Len(capture) # 0
  <2> DEFINE Piece == [bytes : Seq(STRING) \ {<<>>}, dwell : Nat]
  <2>1. capture \in Seq(Piece)
    BY <1>1
  <2> HIDE DEF Piece
  <2> QED BY <2>1, LenProperties, EmptySeq
<1>3. DOMAIN Stitch(capture) = DOMAIN capture
  BY StitchUnfolds
<1>4. 1 \in DOMAIN Stitch(capture)
  BY <1>2, <1>3
<1> HIDE DEF Stitch
<1> QED BY <1>4

LEMMA CaptureChunks ==
  ASSUME NEW capture \in Captures
  PROVE  Chunks(capture)
<1> DEFINE Piece == [bytes : Seq(STRING) \ {<<>>}, dwell : Nat]
<1>1. capture \in Seq(Piece)
  BY CapturesAssumption
<1>2. Seq(STRING) \subseteq Words
  <2>1. STRING \subseteq Letters
    BY DEF Letters
  <2> QED BY <2>1, SeqOfMore, Zenon DEF Words
<1>3. \A chunk \in Piece : chunk.bytes \in Words /\ chunk.bytes # <<>> /\ chunk.dwell \in Nat
  BY <1>2
<1> HIDE DEF Piece
<1>4. /\ Len(capture) \in Nat /\ DOMAIN capture = 1..Len(capture)
      /\ \A i \in 1..Len(capture) : capture[i] \in Piece
  BY <1>1, LenProperties, ElementOfSeq
<1> QED BY <1>3, <1>4 DEF Chunks

-----------------------------------------------------------------------------
(* When nobody touches anything, a witness agrees with the files.          *)

LEMMA OneEncoding ==
  ASSUME NEW frames
  PROVE  /\ Encodings(frames, "libx264") = {[frames |-> frames, noise |-> 0]}
         /\ The(Encodings(frames, "libx264")) \in Encodings(frames, "libx264")
<1>1. Encodings(frames, "libx264") = {[frames |-> frames, noise |-> 0]}
  BY DEF Encodings
<1> QED BY <1>1, TheOne

LEMMA InitQuiet == Init => QuietInv
<1> SUFFICES ASSUME Init PROVE QuietInv
  OBVIOUS
<1>1. MatchInv
  BY InitMatch
<1>2. PICK order \in Orders, tape \in Traces, capture \in Captures, contract \in Contracts :
        /\ order.tool = "bundle" /\ order.witness => Renders(tape)
        /\ disk = [trace       |-> IF order.tool = "record" THEN {} ELSE {tape},
                   media       |-> IF order.tool = "bundle"
                                   THEN Encodings(ReplayTrace(tape), "libx264") ELSE {},
                   witness     |-> IF order.tool = "bundle" /\ order.witness
                                   THEN {Rendered(tape)} ELSE {},
                   contract    |-> {contract},
                   attestation |-> IF order.attestation = "use" THEN {[target_sha256 |-> tape]} ELSE {},
                   bundle      |-> {}]
        /\ maker = [order |-> order, pc |-> order.tool,
                    capture |-> IF order.tool = "record" THEN capture ELSE <<>>,
                    hash |-> {}, trace |-> {}, media |-> {}, witness |-> {},
                    contract |-> {}, attestation |-> {}, tool |-> {}]
  BY ZenonT(30) DEF Init
<1>3. /\ order.tool \in {"record", "bundle", "render"}
      /\ order.tool # "render" => order.attestation = "none"
  BY OrdersAssumption
<1>4. /\ disk.trace = IF order.tool = "record" THEN {} ELSE {tape}
      /\ disk.witness = IF order.tool = "bundle" /\ order.witness
                        THEN {Rendered(tape)} ELSE {}
      /\ disk.attestation = IF order.attestation = "use" THEN {[target_sha256 |-> tape]} ELSE {}
      /\ maker.order = order /\ maker.pc = order.tool /\ maker.attestation = {}
      /\ order.tool = "record" => maker.capture = capture
  BY <1>2
<1>5. /\ verifier.pc = "idle" /\ verifier.verdict = "none" /\ edits = 0 /\ tools = 0
  BY DEF Init
<1>6. WitnessHonest
  <2>1. SUFFICES ASSUME order.tool = "bundle", order.witness
                 PROVE  WitnessHonest
    BY <1>4 DEF WitnessHonest
  <2> DEFINE w == Rendered(tape)
  <2>2. disk.witness = {w} /\ The({w}) = w /\ disk.trace = {tape}
    BY <1>4, <2>1, TheOne
  <2>3. Renders(tape)
    BY <1>2, <2>1
  <2>4. /\ w.tool = [version |-> 0, binary |-> {"ptyrender"}]
        /\ w.trace_sha256 = tape /\ w.encoder = "libx264"
        /\ w.output_sha256 = The(Encodings(ReplayTrace(tape), "libx264"))
        /\ w.contract_sha256 = {} /\ w.attestation_sha256 = {}
    BY DEF Witness, Rendered
  <2> HIDE DEF w
  <2>5. Honest(w)
    BY <2>2, <2>3, <2>4, OneEncoding DEF Honest
  <2> QED BY <1>4, <2>1, <2>2, <2>5 DEF WitnessHonest
<1>7. AttestationFits
  BY <1>3, <1>4 DEF AttestationFits
<1>8. Recording
  BY <1>3, <1>4 DEF Recording
<1>9. Rendering
  BY <1>3, <1>4, TheOne DEF Rendering
<1>10. Verifying
  BY <1>5 DEF Verifying, Alarms, OtherExecutable
<1> QED BY <1>1, <1>5, <1>6, <1>7, <1>8, <1>9, <1>10 DEF QuietInv, Quiet

LEMMA RecorderQuiet ==
  ASSUME Shapes, Untouched, Quiet, WriteTrace \/ EncodeStitched \/ WitnessTrace
  PROVE  (WitnessHonest /\ AttestationFits /\ Recording /\ Rendering)'
<1> USE DEF Shapes, Quiet, Go, Fails
<1>1. CASE WriteTrace
  <2>1. /\ maker.pc = "record" /\ maker'.pc = "stitch"
        /\ maker'.order = maker.order /\ maker'.capture = maker.capture
        /\ disk'.trace = {TraceOf(maker.capture)}
        /\ disk'.witness = disk.witness /\ disk'.attestation = disk.attestation
    BY <1>1 DEF WriteTrace
  <2>2. disk.witness = {} /\ disk.attestation = {}
    BY <2>1 DEF WitnessHonest, Recording
  <2> QED BY <2>1, <2>2 DEF WitnessHonest, AttestationFits, Recording, Rendering
<1>2. CASE EncodeStitched
  <2>1. /\ maker.pc = "stitch" /\ maker'.pc \in {"failed", "witnessTrace", "bundleTrace"}
        /\ maker'.order = maker.order /\ maker'.capture = maker.capture
        /\ disk'.trace = disk.trace
        /\ disk'.witness = disk.witness /\ disk'.attestation = disk.attestation
        /\ maker'.pc = "witnessTrace" =>
             maker.capture # <<>> /\ disk'.media = Encodings(Stitch(maker.capture), "libx264")
    BY <1>2 DEF EncodeStitched
  <2>2. disk.witness = {} /\ disk.attestation = {}
    BY <2>1 DEF WitnessHonest, Recording
  <2> QED BY <2>1, <2>2 DEF WitnessHonest, AttestationFits, Recording, Rendering
<1>3. CASE WitnessTrace
  <2>1. /\ maker.pc = "witnessTrace" /\ maker'.pc = "witnessMedia"
        /\ maker'.order = maker.order /\ maker'.capture = maker.capture
        /\ disk' = disk /\ maker'.trace = disk.trace
    BY <1>3 DEF WitnessTrace
  <2>2. disk.witness = {} /\ disk.attestation = {}
    BY <2>1 DEF WitnessHonest, Recording
  <2> QED BY <2>1, <2>2 DEF WitnessHonest, AttestationFits, Recording, Rendering
<1> QED BY <1>1, <1>2, <1>3

\* A witness has been written.
LEMMA HonestNow ==
  ASSUME NEW w, disk'.witness = {w},
         w.tool.version = 0, w.tool.binary \in {{}, {"ptyrecord"}, {"ptyrender"}},
         disk'.trace = {w.trace_sha256}, Renders(w.trace_sha256),
         w.encoder = "libx264" => w.output_sha256 \in Encodings(ReplayTrace(w.trace_sha256), "libx264"),
         w.contract_sha256 \in {{}, disk'.contract},
         w.attestation_sha256 \in {{}, disk'.attestation},
         maker'.pc \in {"bundleTrace", "done"}
  PROVE  WitnessHonest'
<1>1. Honest(w)'
  BY DEF Honest
<1>2. The(disk'.witness) = w
  BY TheOne
<1>3. Honest(The(disk.witness))'
  BY <1>1, <1>2 DEF Honest
<1> QED BY <1>2, <1>3 DEF WitnessHonest

\* The witness of a recording speaks of the frames that were painted; the
\* verifier will replay the trace.
LEMMA RecorderWitness ==
  ASSUME Shapes, Untouched, Quiet, WitnessMedia
  PROVE  (WitnessHonest /\ AttestationFits /\ Recording /\ Rendering)'
<1> USE DEF Shapes, Quiet
<1>1. PICK tool, w :
        /\ tool \in Identities("ptyrecord")
        /\ w = Witness(tool, The(maker.trace), "libx264", The(disk.media), {}, {})
        /\ maker' = [maker EXCEPT !.pc = "bundleTrace", !.witness = {w}]
        /\ disk' = [disk EXCEPT !.witness = {w}]
  BY DEF WitnessMedia
<1>2. PICK capture : capture = maker.capture
  OBVIOUS
<1>3. /\ maker.pc = "witnessMedia" /\ maker'.pc = "bundleTrace"
      /\ maker'.order = maker.order /\ maker'.capture = maker.capture
      /\ disk'.trace = disk.trace /\ disk'.attestation = disk.attestation
      /\ disk'.witness = {w}
  BY <1>1 DEF WitnessMedia
<1>4. /\ capture # <<>> /\ disk.attestation = {} /\ maker.order.tool = "record" /\ capture \in Captures
      /\ disk.trace = {TraceOf(capture)} /\ maker.trace = {TraceOf(capture)}
      /\ disk.media = Encodings(Stitch(capture), "libx264") /\ tools = 0
  BY <1>2, <1>3 DEF Recording
<1>5. Chunks(capture) /\ CleanCapture(capture)
  BY <1>2, <1>4, CaptureChunks DEF Untouched
<1>6. Renders(TraceOf(capture)) /\ ReplayTrace(TraceOf(capture)) = Stitch(capture)
  BY <1>4, <1>5, StitchIsReplay, StitchShows DEF Renders
<1>7. /\ w.tool = tool /\ tool.version = 0 /\ tool.binary \in {{}, {"ptyrecord"}}
      /\ w.trace_sha256 = TraceOf(capture) /\ w.encoder = "libx264"
      /\ w.output_sha256 = The(Encodings(Stitch(capture), "libx264"))
      /\ w.contract_sha256 = {} /\ w.attestation_sha256 = {}
  BY <1>1, <1>4, TheOne DEF Witness, Identities
<1>8. w.output_sha256 \in Encodings(ReplayTrace(TraceOf(capture)), "libx264")
  BY <1>6, <1>7, OneEncoding
<1>9. WitnessHonest'
  BY <1>3, <1>4, <1>6, <1>7, <1>8, HonestNow
<1> QED BY <1>3, <1>4, <1>9 DEF AttestationFits, Recording, Rendering

\* A program that makes a bundle, or has ended, leaves the files alone.
LEMMA BundlerQuiet ==
  ASSUME Shapes, Quiet,
         LoadWitness \/ BundleTrace \/ BundleMedia \/ WriteBundle
  PROVE  (WitnessHonest /\ AttestationFits /\ Recording /\ Rendering)'
<1> USE DEF Shapes, Quiet, Go
<1>1. /\ disk'.trace = disk.trace /\ disk'.witness = disk.witness
      /\ disk'.contract = disk.contract /\ disk'.attestation = disk.attestation
      /\ maker'.pc \in {"bundleTrace", "bundleMedia", "writeBundle", "done", "failed"}
  BY DEF LoadWitness, BundleTrace, BundleMedia, WriteBundle
<1>2. WitnessHonest'
  BY <1>1 DEF WitnessHonest, Honest
<1>3. AttestationFits'
  BY <1>1 DEF AttestationFits
<1> QED BY <1>1, <1>2, <1>3 DEF Recording, Rendering

\* A renderer reads a trace that stays as it is until the receipt.
LEMMA RendererQuiet ==
  ASSUME Shapes, Quiet, HashTrace \/ LoadTrace \/ HashContract \/ Attest \/ RenderMedia
  PROVE  (WitnessHonest /\ AttestationFits /\ Recording /\ Rendering)'
<1> USE DEF Shapes, Quiet, Go, Fails
<1>1. CASE HashTrace \/ LoadTrace \/ HashContract
  <2>1. /\ disk' = disk /\ disk.witness = {}
        /\ maker.pc \in {"render", "load", "hashContract"}
        /\ maker'.pc \in {"load", "hashContract", "attest", "failed"}
    BY <1>1 DEF HashTrace, LoadTrace, HashContract, WitnessHonest
  <2>2. WitnessHonest' /\ AttestationFits' /\ Recording'
    BY <2>1 DEF WitnessHonest, AttestationFits, Recording
  <2>3. CASE HashTrace
    <3>1. /\ maker.pc = "render" /\ maker'.pc = "load" /\ maker'.hash = disk.trace
          /\ maker'.attestation = maker.attestation
      BY <2>3 DEF HashTrace
    <3>2. disk.trace = {The(disk.trace)} /\ maker.attestation = {}
      BY <3>1 DEF Rendering
    <3>3. Rendering'
      BY <2>1, <3>1, <3>2 DEF Rendering
    <3> QED BY <2>2, <3>3
  <2>4. CASE LoadTrace
    <3>1. /\ maker.pc = "load" /\ maker'.pc \in {"hashContract", "failed"}
          /\ maker'.pc = "hashContract" => maker'.trace = disk.trace /\ The(disk.trace).ok
          /\ maker'.attestation = maker.attestation /\ maker'.hash = maker.hash
      BY <2>4 DEF LoadTrace
    <3>2. disk.trace = {The(disk.trace)} /\ maker.attestation = {} /\ maker.hash = disk.trace
      BY <3>1 DEF Rendering
    <3>3. Rendering'
      BY <2>1, <3>1, <3>2 DEF Rendering
    <3> QED BY <2>2, <3>3
  <2>5. CASE HashContract
    <3>1. /\ maker.pc = "hashContract" /\ maker'.pc = "attest"
          /\ maker'.contract \in {{}, disk.contract} /\ maker'.trace = maker.trace
          /\ maker'.attestation = maker.attestation /\ maker'.hash = maker.hash
      BY <2>5 DEF HashContract
    <3>2. /\ disk.trace = {The(disk.trace)} /\ maker.attestation = {} /\ maker.hash = disk.trace
          /\ maker.trace = disk.trace /\ The(disk.trace).ok
      BY <3>1 DEF Rendering
    <3>3. Rendering'
      BY <2>1, <3>1, <3>2 DEF Rendering
    <3> QED BY <2>2, <3>3
  <2> QED BY <1>1, <2>2, <2>3, <2>4, <2>5
<1>2. CASE Attest
  <2>0. maker.pc = "attest" /\ \E a : \/ disk' = [disk EXCEPT !.attestation = a]
                                      \/ disk' = disk
    BY <1>2 DEF Attest
  <2>1. /\ maker.pc = "attest" /\ maker'.pc \in {"paint", "failed"}
        /\ disk'.trace = disk.trace /\ disk'.witness = disk.witness
        /\ disk'.contract = disk.contract
        /\ maker'.trace = maker.trace /\ maker'.contract = maker.contract
    <3>1. disk'.trace = disk.trace /\ disk'.witness = disk.witness /\ disk'.contract = disk.contract
      BY <2>0
    <3>2. maker'.pc \in {"paint", "failed"} /\ maker'.trace = maker.trace /\ maker'.contract = maker.contract
      BY <1>2 DEF Attest
    <3> QED BY <2>0, <3>1, <3>2
  <2>2. /\ disk.witness = {} /\ maker.hash = disk.trace /\ maker.attestation = {}
        /\ disk.trace = {The(disk.trace)} /\ maker.trace = disk.trace /\ The(disk.trace).ok
        /\ maker.contract \in {{}, disk.contract}
    BY <2>1 DEF WitnessHonest, Rendering
  <2>3. /\ maker'.pc = "paint" => maker'.attestation \in {{}, disk'.attestation}
        /\ disk'.attestation \in {disk.attestation, {[target_sha256 |-> The(disk.trace)]}}
    BY <1>2, <2>2, ZenonT(30) DEF Attest
  <2>4. AttestationFits'
    BY <2>1, <2>2, <2>3 DEF AttestationFits
  <2>5. WitnessHonest' /\ Recording'
    BY <2>1, <2>2 DEF WitnessHonest, Recording
  <2>6. Rendering'
    BY <2>1, <2>2, <2>3 DEF Rendering
  <2> QED BY <2>4, <2>5, <2>6
<1>3. CASE RenderMedia
  <2>1. /\ maker.pc = "paint" /\ maker'.pc \in {"receipt", "failed"}
        /\ disk'.trace = disk.trace /\ disk'.witness = disk.witness
        /\ disk'.contract = disk.contract /\ disk'.attestation = disk.attestation
        /\ maker'.trace = maker.trace /\ maker'.contract = maker.contract
        /\ maker'.attestation = maker.attestation /\ maker'.order = maker.order
    BY <1>3 DEF RenderMedia
  <2>2. /\ disk.witness = {} /\ disk.trace = {The(disk.trace)}
        /\ maker.trace = disk.trace /\ The(disk.trace).ok
        /\ maker.contract \in {{}, disk.contract} /\ maker.attestation \in {{}, disk.attestation}
    BY <2>1 DEF WitnessHonest, Rendering
  <2>3. maker'.pc = "receipt" =>
          /\ Renders(The(disk.trace))
          /\ \E media \in Encodings(ReplayTrace(The(disk.trace)), maker.order.encoder) :
               disk'.media = {media}
    BY <1>3, <2>2, ZenonT(30) DEF RenderMedia
  <2>6. maker'.pc = "receipt" =>
          The(maker'.tool).version = 0 /\ The(maker'.tool).binary \in {{}, {"ptyrender"}}
    <3>1. maker'.pc = "receipt" =>
            \E tool \in Identities("ptyrender") :
              maker' = [maker EXCEPT !.pc = "receipt", !.tool = {tool}]
      BY <1>3 DEF RenderMedia
    <3>2. ASSUME NEW tool \in Identities("ptyrender"),
                 maker' = [maker EXCEPT !.pc = "receipt", !.tool = {tool}]
          PROVE  The(maker'.tool).version = 0 /\ The(maker'.tool).binary \in {{}, {"ptyrender"}}
      <4>1. maker'.tool = {tool} /\ The({tool}) = tool
        BY <3>2, TheOne
      <4>2. tool.version = 0 /\ tool.binary \in {{}, {"ptyrender"}}
        BY DEF Identities
      <4> QED BY <4>1, <4>2
    <3> QED BY <3>1, <3>2
  <2>4. WitnessHonest' /\ AttestationFits' /\ Recording'
    BY <2>1, <2>2 DEF WitnessHonest, AttestationFits, Recording
  <2>5. Rendering'
    BY <2>1, <2>2, <2>3, <2>6 DEF Rendering
  <2> QED BY <2>4, <2>5
<1> QED BY <1>1, <1>2, <1>3

LEMMA RendererWitness ==
  ASSUME Shapes, Quiet, WriteReceipt
  PROVE  (WitnessHonest /\ AttestationFits /\ Recording /\ Rendering)'
<1> USE DEF Shapes, Quiet, Go
<1>1. PICK w : w = Witness(The(maker.tool), The(maker.trace), maker.order.encoder,
                           The(disk.media), maker.contract, maker.attestation)
  OBVIOUS
<1>2. /\ maker.pc = "receipt" /\ maker'.pc = "done"
      /\ disk'.trace = disk.trace /\ disk'.contract = disk.contract
      /\ disk'.attestation = disk.attestation /\ disk'.witness = {w}
  BY <1>1 DEF WriteReceipt
<1>3. /\ disk.trace = {The(disk.trace)} /\ maker.trace = disk.trace /\ The(disk.trace).ok
      /\ maker.contract \in {{}, disk.contract} /\ maker.attestation \in {{}, disk.attestation}
      /\ Renders(The(disk.trace))
      /\ The(maker.tool).version = 0 /\ The(maker.tool).binary \in {{}, {"ptyrender"}}
  BY <1>2 DEF Rendering
<1>4. PICK media \in Encodings(ReplayTrace(The(disk.trace)), maker.order.encoder) :
        disk.media = {media}
  BY <1>2 DEF Rendering
<1>5. The(disk.media) = media
  BY <1>4, TheOne
<1>6. /\ w.tool = The(maker.tool)
      /\ w.trace_sha256 = The(disk.trace) /\ w.encoder = maker.order.encoder
      /\ w.output_sha256 = media
      /\ w.contract_sha256 = maker.contract /\ w.attestation_sha256 = maker.attestation
  BY <1>1, <1>3, <1>5 DEF Witness
<1>7. WitnessHonest'
  BY <1>2, <1>3, <1>4, <1>6, HonestNow
<1> QED BY <1>2, <1>7 DEF AttestationFits, Recording, Rendering

LEMMA MakeQuiet ==
  ASSUME Shapes, Untouched, Quiet, Make
  PROVE  Quiet'
<1>1. (WitnessHonest /\ AttestationFits /\ Recording /\ Rendering)'
  BY RecorderQuiet, RecorderWitness, BundlerQuiet, RendererQuiet, RendererWitness DEF Make
<1>2. tools' = tools /\ verifier' = verifier
  BY DEF Make
<1>3. Verifying'
  <2>1. CASE disk.witness = {}
    BY <1>2, <2>1 DEF Quiet, Verifying, Claims, OtherExecutable
  <2>2. CASE disk.witness # {}
    <3>1. maker.pc \in {"bundle", "bundleTrace", "bundleMedia", "writeBundle", "done", "failed"}
      BY <2>2 DEF Quiet, WitnessHonest
    <3>2. disk'.witness = disk.witness /\ disk'.trace = disk.trace
      BY <3>1 DEF Shapes, Make, WriteTrace, EncodeStitched, WitnessTrace, WitnessMedia,
                  LoadWitness, BundleTrace, BundleMedia, WriteBundle, HashTrace, LoadTrace,
                  HashContract, Attest, RenderMedia, WriteReceipt
    <3> QED BY <1>2, <3>2 DEF Quiet, Verifying, OtherExecutable
  <2> QED BY <2>1, <2>2
<1> QED BY <1>1, <1>2, <1>3 DEF Quiet

LEMMA VerifyQuiet ==
  ASSUME MatchInv, Quiet, Verify
  PROVE  Quiet'
<1>1. disk' = disk /\ tools' = tools /\ maker' = maker
  BY DEF Verify
<1>2. (tools = 0 /\ WitnessHonest /\ AttestationFits /\ Recording /\ Rendering)'
  BY <1>1 DEF Quiet, WitnessHonest, Honest, AttestationFits, Recording, Rendering
<1>3. PICK w : w = The(disk.witness)
  OBVIOUS
<1>4. disk.witness # {} =>
        /\ disk.witness = {w}
        /\ w.tool.version = 0 /\ w.tool.binary \in {{}, {"ptyrecord"}, {"ptyrender"}}
        /\ disk.trace = {w.trace_sha256} /\ Renders(w.trace_sha256) /\ w.trace_sha256.ok
        /\ The(disk.trace) = w.trace_sha256
        /\ w.encoder = "libx264" =>
             w.output_sha256 \in Encodings(ReplayTrace(w.trace_sha256), "libx264")
        /\ w.contract_sha256 \in {{}, disk.contract}
        /\ w.attestation_sha256 \in {{}, disk.attestation}
  BY <1>3, TheOne DEF Quiet, WitnessHonest, Honest, Renders, Replayable
<1>5. verifier.pc # "idle" =>
        /\ disk.witness # {} /\ verifier.witness = disk.witness /\ The(verifier.witness) = w
  BY <1>3 DEF Quiet, Verifying
<1>6. /\ verifier = [f \in VerifierState |-> verifier[f]] /\ tools = 0
      /\ verifier.verdict \notin Alarms /\ OtherExecutable
      /\ verifier.pc # "done" => verifier.verdict = "none"
  BY DEF MatchInv, Shapes, Quiet, Verifying, Claims
<1>7. Verifying'
  <2>1. CASE ReadWitness
    <3>1. /\ disk.witness # {} /\ verifier'.witness = {w}
          /\ verifier'.pc \in {"done", "contract"}
          /\ verifier'.verdict \in {"contractRequired", "attestationRequired", "none"}
      BY <1>3, <1>6, <2>1 DEF ReadWitness
    <3> QED BY <1>1, <1>4, <3>1 DEF Verifying, Alarms, OtherExecutable
  <2>2. CASE ReadContract
    <3>1. verifier.pc = "contract"
      BY <2>2 DEF ReadContract
    <3>2. /\ verifier'.pc = "attestation" /\ verifier'.witness = verifier.witness
          /\ verifier'.verdict = verifier.verdict
      BY <1>4, <1>5, <1>6, <2>2, <3>1 DEF ReadContract, Proceed
    <3> QED BY <1>1, <1>5, <1>6, <3>1, <3>2 DEF Verifying, OtherExecutable
  <2>3. CASE ReadAttestation
    <3>1. verifier.pc = "attestation"
      BY <2>3 DEF ReadAttestation
    <3>2. "attestation" \in verifier.given => The(disk.attestation).target_sha256 = w.trace_sha256
      <4>1. SUFFICES ASSUME "attestation" \in verifier.given
                     PROVE  The(disk.attestation).target_sha256 = w.trace_sha256
        OBVIOUS
      <4>2. disk.attestation = {The(disk.attestation)}
        BY <4>1 DEF MatchInv, OneAttestation
      <4>3. disk.trace = {The(disk.attestation).target_sha256}
        BY <4>2 DEF Quiet, AttestationFits
      <4> QED BY <1>4, <1>5, <3>1, <4>3
    <3>3. /\ verifier'.pc = "trace" /\ verifier'.witness = verifier.witness
          /\ verifier'.verdict = verifier.verdict
      BY <1>4, <1>5, <1>6, <2>3, <3>1, <3>2 DEF ReadAttestation, Proceed
    <3> QED BY <1>1, <1>5, <1>6, <3>1, <3>3 DEF Verifying, OtherExecutable
  <2>4. CASE CompareTrace
    <3>1. verifier.pc = "trace"
      BY <2>4 DEF CompareTrace
    <3>2. PICK current \in Identities("ptyrender") :
            verifier' = IF w.trace_sha256 # The(disk.trace) THEN Verdict("traceDiffers")
                        ELSE IF EnvDiffers(w.tool, current) THEN Verdict("environmentDiffers")
                        ELSE IF w.encoder # "libx264" THEN Verdict("encoderNotVerifiable")
                        ELSE [Proceed("render") EXCEPT !.trace = disk.trace]
      BY <1>5, <2>4, <3>1 DEF CompareTrace
    <3>3. EnvDiffers(w.tool, current) => w.tool.binary = {"ptyrecord"}
      <4>1. current.version = 0 /\ current.binary \in {{}, {"ptyrender"}}
        BY <1>6 DEF Identities
      <4> QED BY <1>4, <1>5, <3>1, <4>1 DEF EnvDiffers
    <3>4. /\ verifier'.pc \in {"done", "render"} /\ verifier'.witness = verifier.witness
          /\ verifier'.pc = "render" => verifier'.trace = disk.trace
          /\ verifier'.verdict \in {"none", "environmentDiffers", "encoderNotVerifiable"}
          /\ verifier'.verdict = "environmentDiffers" => w.tool.binary = {"ptyrecord"}
      BY <1>4, <1>5, <1>6, <3>1, <3>2, <3>3 DEF Proceed, Verdict
    <3> QED BY <1>1, <1>5, <1>6, <3>1, <3>4 DEF Verifying, Alarms, OtherExecutable
  <2>5. CASE Rerender
    <3>1. verifier.pc = "render"
      BY <2>5 DEF Rerender
    <3>2. /\ verifier.trace = disk.trace /\ w.encoder = "libx264"
          /\ The(verifier.trace) = w.trace_sha256
      BY <1>4, <1>5, <3>1 DEF Quiet, Verifying, MatchInv, Compared
    <3>3. w.output_sha256 \in Encodings(ReplayTrace(RenderedAgain), "libx264")
      BY <1>4, <1>5, <3>1, <3>2 DEF RenderedAgain
    <3>5. Renders(RenderedAgain)
      BY <1>4, <1>5, <3>1, <3>2 DEF RenderedAgain
    <3>4. /\ verifier'.pc \in {"done", "predicates"} /\ verifier'.witness = verifier.witness
          /\ verifier'.verdict \in {"none", "match"}
      BY <1>5, <1>6, <2>5, <3>1, <3>3, <3>5 DEF Rerender, Proceed, Verdict
    <3> QED BY <1>1, <1>5, <1>6, <3>1, <3>4 DEF Verifying, Alarms, OtherExecutable
  <2>6. CASE CheckContract
    <3>1. verifier.pc = "predicates"
      BY <2>6 DEF CheckContract
    <3>2. /\ verifier'.pc = "done" /\ verifier'.witness = verifier.witness
          /\ verifier'.verdict \in {"match", "contractFailed"}
      BY <1>4, <1>5, <1>6, <2>6, <3>1 DEF CheckContract, Verdict
    <3> QED BY <1>1, <1>5, <3>1, <3>2 DEF Verifying, Alarms, OtherExecutable
  <2> QED BY <2>1, <2>2, <2>3, <2>4, <2>5, <2>6 DEF Verify
<1> QED BY <1>2, <1>7 DEF Quiet

LEMMA QuietStep == QuietInv /\ [Next]_vars => QuietInv'
<1> SUFFICES ASSUME QuietInv, [Next]_vars PROVE QuietInv'
  OBVIOUS
<1>1. MatchInv'
  BY MatchStep DEF QuietInv
<1>2. MatchInv /\ Shapes /\ edits \in Nat /\ (Untouched => Quiet)
  BY DEF QuietInv, MatchInv
<1>3. CASE Make
  <2>1. edits' = edits
    BY <1>3 DEF Make
  <2>2. maker'.order = maker.order /\ maker'.capture = maker.capture
    BY <1>2, <1>3, ZenonT(30) DEF Shapes, Make, Go, Fails, WriteTrace, EncodeStitched, WitnessTrace,
         WitnessMedia, LoadWitness, BundleTrace, BundleMedia, WriteBundle, HashTrace, LoadTrace,
         HashContract, Attest, RenderMedia, WriteReceipt
  <2>3. Untouched' => Untouched
    BY <2>1, <2>2 DEF Untouched
  <2> QED BY <1>1, <1>2, <1>3, <2>1, <2>3, MakeQuiet DEF QuietInv
<1>4. CASE Verify
  <2>1. edits' = edits /\ maker' = maker
    BY <1>4 DEF Verify
  <2>2. Untouched' => Untouched
    BY <2>1 DEF Untouched
  <2> QED BY <1>1, <1>2, <1>4, <2>1, <2>2, VerifyQuiet DEF QuietInv
<1>5. CASE SomebodyElse
  <2>1. edits' = edits + 1
    BY <1>5 DEF SomebodyElse
  <2> QED BY <1>1, <1>2, <2>1 DEF QuietInv, Untouched
<1>6. CASE UNCHANGED vars
  <2>1. UNCHANGED <<disk, tools, edits, maker, verifier>>
    BY <1>6 DEF vars
  <2> QED BY <1>1, <1>2, <2>1 DEF QuietInv, Untouched, Quiet, WitnessHonest, Honest,
             AttestationFits, Recording, Rendering, Verifying, OtherExecutable
<1> QED BY <1>3, <1>4, <1>5, <1>6 DEF Next

\* NoFalseAlarm for any captures, trace files, contracts and orders: the stitcher
\* and the renderer give the same frames for a clean capture, and no step reads
\* something else than what the witness speaks of.  Only of the executables it
\* may: the one that made the witness of a recording is not the one that checks.
THEOREM AlarmsAreNews == Spec => []NoFalseAlarm
<1>1. QuietInv => NoFalseAlarm
  BY DEF QuietInv, Untouched, Quiet, Verifying, Alarms, OtherExecutable, NoFalseAlarm
<1> QED BY <1>1, InitQuiet, QuietStep, PTL DEF Spec
=============================================================================
