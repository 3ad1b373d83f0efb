-------------------------- MODULE ShareHostProofs --------------------------
(***************************************************************************)
(* Theorems about the host loop, for any clients, sizes, budgets, scripts  *)
(* and faults the assumptions of ShareHost allow: its types; the safety of *)
(* its output (budgets, counters, sizes, streams and the recording); that  *)
(* the loop implements the room; and, in the last part, the safety of its  *)
(* input: who is admitted, in which order keys reach the PTY, what becomes *)
(* of a queued text, and that the PTY fits every terminal.                 *)
(***************************************************************************)
EXTENDS ShareHostRoom, SequenceTheorems, FiniteSetTheorems, WellFoundedInduction, TLAPS

\* A non-empty set of numbers has a least element.
LEMMA LeastInSet ==
  ASSUME NEW S \in SUBSET Nat, S # {}
  PROVE  Least(S) \in S /\ \A y \in S : Least(S) <= y
<1> DEFINE Below == OpToRel(<, Nat)
<1>1. \A x, y \in Nat : <<y, x>> \in Below <=> y < x
  BY DEF OpToRel
<1>2. IsWellFoundedOn(Below, Nat)
  BY NatLessThanWellFounded
<1> HIDE DEF Below
<1>3. PICK x \in S : \A y \in S : ~(<<y, x>> \in Below)
  BY <1>2, WFMin
<1>4. ASSUME NEW y \in S
      PROVE  x <= y
  <2>1. x \in Nat /\ y \in Nat
    OBVIOUS
  <2>2. ~(y < x)
    BY <1>1, <1>3, <2>1, Zenon
  <2> QED BY <2>1, <2>2, SMT
<1> QED BY <1>4 DEF Least

\* The desired size is a size.
LEMMA DesiredIsSize ==
  ASSUME TypeOK
  PROVE  Desired \in Size
<1>1. KnownSizes \subseteq Size
  BY DEF TypeOK, ClientTypes, OutputTypes, KnownSizes, Members
<1>2. CASE KnownSizes = {}
  BY <1>2, SizesAssumption DEF Desired
<1>3. CASE KnownSizes # {}
  <2> DEFINE A == {s[1] : s \in KnownSizes}
             B == {s[2] : s \in KnownSizes}
  <2>1. A \subseteq Cols /\ B \subseteq Rows /\ A # {} /\ B # {}
    BY <1>1, <1>3 DEF Size
  <2>2. Least(A) \in Cols /\ Least(B) \in Rows
    BY <2>1, SizesAssumption, LeastInSet
  <2> QED BY <1>3, <2>2 DEF Desired, Size
<1> QED BY <1>2, <1>3

\* Every frame has a length, and none is empty.
LEMMA FrameLenType ==
  ASSUME NEW f \in Frame
  PROVE  FrameLen(f) \in Nat \ {0}
BY LengthsAssumption DEF Frame, Event, FrameLen, Hello, SizeFrame, Data

USE DEF loopVars, clientVars, replayVars, ptyVars, traceVars, localVars, statVars,
        socketVars, childVars, deskVars, hostVars, envVars, vars,
        TypeOK

-----------------------------------------------------------------------------
(***************************************************************************)
(* Type correctness.                                                       *)
(***************************************************************************)
\* A part of the type invariant holds on when its variables do not change.
LEMMA LoopKept ==
  ASSUME LoopTypes, UNCHANGED <<pc, cur, todo, rev>>
  PROVE  LoopTypes'
BY DEF LoopTypes

\* The same for the clients and their counters ...
LEMMA ClientKept ==
  ASSUME ClientTypes, UNCHANGED <<clientVars, statVars>>
  PROVE  ClientTypes'
BY DEF ClientTypes

\* ... for the output and the sizes ...
LEMMA OutputKept ==
  ASSUME OutputTypes, UNCHANGED <<replayVars, ptyVars, traceVars, child, unread, termSize>>
  PROVE  OutputTypes'
BY DEF OutputTypes

\* ... for the input and the sockets ...
LEMMA InputKept ==
  ASSUME InputTypes, UNCHANGED <<queue, lost, typed, taken, socketVars>>
  PROVE  InputTypes'
BY DEF InputTypes

\* ... for the local side ...
LEMMA LocalKept ==
  ASSUME LocalTypes,
         UNCHANGED <<batch, stdinOpen, shouldEnd, keyed, keysRead, stdinEof,
                     asked, served, stop>>
  PROVE  LocalTypes'
BY DEF LocalTypes

\* ... and for what the place in the loop says.
LEMMA PlaceKept ==
  ASSUME PlaceOK, UNCHANGED <<pc, cur, todo, rev, batch, conn, unread, nread>>
  PROVE  PlaceOK'
BY DEF PlaceOK, Members

\* Letting clients go leaves a typed list without them.
LEMMA WithoutTypes ==
  ASSUME TypeOK, NEW gone \in SUBSET Client, Without(gone)
  PROVE  /\ conn' \in [Client -> {"idle", "waiting", "member", "gone"}]
         /\ inputOpen' \in [Client -> BOOLEAN] /\ ready' \in [Client -> BOOLEAN]
         /\ size' \in [Client -> Size \cup {NoSize}]
         /\ Members' = Members \ gone
BY DEF ClientTypes, Without, Members

\* A disconnect takes one member out of the list.
LEMMA DisconnectTypes ==
  ASSUME TypeOK, NEW c \in Client, Disconnect(c)
  PROVE  ClientTypes' /\ Members' = Members \ {c}
<1>1. {c} \in SUBSET Client /\ Without({c})
  BY DEF Disconnect
<1>2. /\ stream' \in [Client -> Seq(Frame)]
      /\ backlog' \in [Client -> Nat]
      /\ disconnected' \in Nat /\ UNCHANGED <<accepted, dropped>>
  BY DEF ClientTypes, Disconnect
<1> QED BY <1>1, <1>2, WithoutTypes DEF ClientTypes

\* A broadcast keeps the types of the list and of its counters.
LEMMA BroadcastTypes ==
  ASSUME TypeOK, NEW f \in Frame, Broadcast(f)
  PROVE  ClientTypes'
<1> DEFINE gone == Overfull(f) \cup {c \in Members : Broken(c)}
           kept == Members \ gone
<1>1. gone \in SUBSET Client /\ Without(gone)
  BY DEF Broadcast, Overfull, Members
<1>2. Cardinality(gone) \in Nat /\ Cardinality(Overfull(f)) \in Nat
  <2>1. IsFiniteSet(gone) /\ IsFiniteSet(Overfull(f))
    BY InputAssumption, FS_Subset DEF Overfull, Members
  <2> QED BY <2>1, FS_CardinalityType
<1>3. disconnected' \in Nat /\ dropped' \in Nat /\ accepted' \in Nat
  <2>1. /\ disconnected' = disconnected + Cardinality(gone)
        /\ dropped' = dropped + Cardinality(Overfull(f))
        /\ accepted' = accepted
    BY DEF Broadcast
  <2> QED BY <1>2, <2>1 DEF ClientTypes
<1>4. stream' \in [Client -> Seq(Frame)]
  BY DEF ClientTypes, Broadcast
<1>5. backlog' \in [Client -> Nat]
  <2>1. PICK left \in [kept -> 0..(MaxBacklog + FrameLen(f))] :
          backlog' = [c \in Client |-> IF c \in kept THEN left[c]
                                       ELSE IF c \in gone THEN 0 ELSE backlog[c]]
    BY DEF Broadcast
  <2>2. \A c \in kept : left[c] \in Nat
    BY FrameLenType, BudgetAssumption
  <2> QED BY <2>1, <2>2 DEF ClientTypes
<1> QED BY <1>1, <1>3, <1>4, <1>5, WithoutTypes DEF ClientTypes

\* Typing extends what has been typed.
LEMMA TypingTypes ==
  ASSUME InputTypes, NEW from \in Source, NEW nth \in Nat, Type(from, nth)
  PROVE  typed' \in Seq(Typing)
<1>1. [from |-> from, nth |-> nth] \in Typing
  BY DEF Typing
<1> QED BY <1>1, AppendProperties DEF Type, InputTypes

\* Recording keeps the recorded steps and the held-back event typed.
LEMMA RecordTypes ==
  ASSUME OutputTypes, NEW e \in Event, Record(e)
  PROVE  steps' \in Seq(Event) /\ slot' \in Seq(Event)
BY ConcatProperties DEF Record, OutputTypes

\* A script of tokens is followed token by token.
LEMMA FollowingTypes ==
  ASSUME NEW T, NEW S \in SUBSET Seq(T), NEW s \in Seq(T), NEW t \in Following(s, S)
  PROVE  Append(s, t) \in Seq(T)
<1>1. t \in T
  BY DEF Following
<1> QED BY <1>1, AppendProperties

\* The token a client is heard saying is one.
LEMMA HeardToken ==
  ASSUME TypeOK, NEW op, Hear(op)
  PROVE  /\ cur \in Client
         /\ heard[cur] + 1 \in Nat
         /\ said[cur][heard[cur] + 1] \in Token
         /\ said[cur][heard[cur] + 1].op = op
BY DEF PlaceOK, Members, InputTypes, Hear, Unheard

\* A resize control carries a size.
LEMMA ResizeHasSize ==
  ASSUME NEW t \in Token, t.op = "resize"
  PROVE  t.size \in Size
<1>1. t \notin {[op |-> o] : o \in {"hello", "bad", "key"}}
  OBVIOUS
<1>2. t \in {[op |-> "resize", size |-> s] : s \in Size}
  BY <1>1 DEF Token
<1> QED BY <1>2

\* poll only reports output that is there.
LEMMA PollReports ==
  ASSUME TypeOK, Poll
  PROVE  rev' \in Revents /\ (rev'.output => unread > 0)
<1>1. Readiness \in Revents /\ Quiet \in Revents
  BY DEF Readiness, Quiet, Revents, PtyReadable, Members, LocalTypes
<1>2. Readiness.output = (unread > 0) /\ Quiet.output = FALSE
  BY DEF Readiness, PtyReadable, Quiet
<1>3. rev' = Readiness \/ rev' = Quiet
  BY DEF Poll
<1> QED BY <1>1, <1>2, <1>3

\* What is on its way to the PTY comes from the queue or from the local user.
LEMMA BatchHead ==
  ASSUME TypeOK, batch # <<>>
  PROVE  /\ Head(batch).nth \in Nat
         /\ pc = "inject" => Head(batch).from \in Source
<1>1. Head(batch) \in Batched
  BY HeadTailProperties DEF LocalTypes
<1>2. pc = "inject" => Head(batch) \in [from : {"queue", "cr"}, nth : Nat]
  BY HeadTailProperties DEF PlaceOK
<1> QED BY <1>1, <1>2 DEF Batched, Source

\* Whatever clients, terminals and the child do, in whatever order, the loop's
\* variables keep their types and its place agrees with the rest of its state.
THEOREM TypeCorrect == Spec => []TypeOK
<1>1. Init => TypeOK
  <2> SUFFICES ASSUME Init
               PROVE  TypeOK
    OBVIOUS
  <2> USE DEF Init
  <2>1. LoopTypes BY DEF LoopTypes, Place, Revents, Quiet
  <2>2. ClientTypes BY DEF ClientTypes
  <2>3. OutputTypes BY SizesAssumption, BoundsAssumption DEF OutputTypes
  <2>4. InputTypes BY DEF InputTypes
  <2>5. LocalTypes
    <3>1. /\ stdinOpen \in BOOLEAN /\ shouldEnd \in BOOLEAN
          /\ stdinEof \in BOOLEAN /\ stop \in BOOLEAN
      BY InputAssumption, Zenon
    <3>2. /\ batch \in Seq(Batched) /\ keyed \in Seq(LocalToken) /\ keysRead \in Nat
          /\ asked \in Seq(Request) /\ served \in Nat
      OBVIOUS
    <3> QED BY <3>1, <3>2 DEF LocalTypes
  <2>6. PlaceOK BY DEF PlaceOK, Quiet
  <2> QED BY <2>1, <2>2, <2>3, <2>4, <2>5, <2>6
<1>2. TypeOK /\ [Next]_vars => TypeOK'
  <2> SUFFICES ASSUME TypeOK, [Next]_vars
               PROVE  TypeOK'
    OBVIOUS
  <2>1. CASE StartTick
    <3> USE <2>1 DEF StartTick
    <3>1. LoopTypes' BY DEF LoopTypes, Place
    <3>2. OutputTypes' BY DEF OutputTypes
    <3>3. PlaceOK' BY DEF PlaceOK, Members
    <3>4. ClientTypes' /\ InputTypes' /\ LocalTypes'
      BY ClientKept, InputKept, LocalKept
    <3> QED BY <3>1, <3>2, <3>3, <3>4
  <2>2. CASE LeaveLoop
    <3> USE <2>2 DEF LeaveLoop
    <3>1. LoopTypes' BY DEF LoopTypes, Place
    <3>2. PlaceOK' BY DEF PlaceOK, Members
    <3>3. ClientTypes' /\ OutputTypes' /\ InputTypes' /\ LocalTypes'
      BY ClientKept, OutputKept, InputKept, LocalKept
    <3> QED BY <3>1, <3>2, <3>3
  <2>3. CASE Injected
    <3> USE <2>3 DEF Injected
    <3>1. LoopTypes' BY DEF LoopTypes, Place
    <3>2. PlaceOK' BY DEF PlaceOK, Members
    <3>3. ClientTypes' /\ OutputTypes' /\ InputTypes' /\ LocalTypes'
      BY ClientKept, OutputKept, InputKept, LocalKept
    <3> QED BY <3>1, <3>2, <3>3
  <2>4. CASE CtlDrained
    <3> USE <2>4 DEF CtlDrained
    <3>1. LoopTypes' BY DEF LoopTypes, Place
    <3>2. PlaceOK' BY DEF PlaceOK, Members
    <3>3. ClientTypes' /\ OutputTypes' /\ InputTypes' /\ LocalTypes'
      BY ClientKept, OutputKept, InputKept, LocalKept
    <3> QED BY <3>1, <3>2, <3>3
  <2>5. CASE Finish
    <3> USE <2>5 DEF Finish
    <3>1. LoopTypes' BY DEF LoopTypes, Place
    <3>2. OutputTypes' BY DEF OutputTypes, History
    <3>3. PlaceOK' BY DEF PlaceOK, Members
    <3>4. ClientTypes' /\ InputTypes' /\ LocalTypes'
      BY ClientKept, InputKept, LocalKept
    <3> QED BY <3>1, <3>2, <3>3, <3>4
  <2>6. CASE ServeAdd
    <3> USE <2>6 DEF ServeAdd, Serve
    <3>1. InputTypes' BY DEF InputTypes, LocalTypes
    <3>2. LocalTypes' BY DEF LocalTypes
    <3>3. LoopTypes' /\ ClientTypes' /\ OutputTypes' /\ PlaceOK'
      BY LoopKept, ClientKept, OutputKept, PlaceKept
    <3> QED BY <3>1, <3>2, <3>3
  <2>7. CASE ServeClear
    <3> USE <2>7 DEF ServeClear, Serve
    <3>1. InputTypes' BY DEF InputTypes, LocalTypes
    <3>2. LocalTypes' BY DEF LocalTypes
    <3>3. LoopTypes' /\ ClientTypes' /\ OutputTypes' /\ PlaceOK'
      BY LoopKept, ClientKept, OutputKept, PlaceKept
    <3> QED BY <3>1, <3>2, <3>3
  <2>8. CASE ServeOther
    <3> USE <2>8 DEF ServeOther, Serve
    <3>1. InputTypes' BY DEF InputTypes, LocalTypes
    <3>2. LocalTypes' BY DEF LocalTypes
    <3>3. LoopTypes' /\ ClientTypes' /\ OutputTypes' /\ PlaceOK'
      BY LoopKept, ClientKept, OutputKept, PlaceKept
    <3> QED BY <3>1, <3>2, <3>3
  <2>9. CASE ServeNext
    <3> USE <2>9 DEF ServeNext, Serve
    <3>1. CASE queue = <<>>
      <4> USE <3>1
      <4>1. LoopTypes' BY DEF LoopTypes
      <4>2. InputTypes' BY DEF InputTypes
      <4>3. LocalTypes' BY DEF LocalTypes
      <4>4. PlaceOK' BY DEF PlaceOK, Members
      <4>5. ClientTypes' /\ OutputTypes'
        BY ClientKept, OutputKept
      <4> QED BY <4>1, <4>2, <4>3, <4>4, <4>5
    <3>2. CASE queue # <<>>
      <4> DEFINE text == [from |-> "queue", nth |-> Head(queue)]
                 return == [from |-> "cr", nth |-> Head(queue)]
                 TakesInjection == [from : {"queue", "cr"}, nth : Nat]
      <4>1. Head(queue) \in Nat /\ Tail(queue) \in Seq(Nat)
        BY <3>2, HeadTailProperties DEF InputTypes
      <4>2. text \in TakesInjection /\ return \in TakesInjection /\ TakesInjection \subseteq Batched
        BY <4>1 DEF Batched
      <4>3. batch' = <<text, return>>
        BY <3>2
      <4>4. batch' \in Seq(TakesInjection) /\ batch' \in Seq(Batched)
        <5> HIDE DEF text, return, TakesInjection
        <5> QED BY <4>2, <4>3
      <4>5. LoopTypes' BY <3>2 DEF LoopTypes, Place
      <4>6. InputTypes' BY <3>2, <4>1 DEF InputTypes
      <4>7. LocalTypes' BY <4>4 DEF LocalTypes
      <4>8. PlaceOK' BY <3>2, <4>4 DEF PlaceOK, Members
      <4>9. ClientTypes' /\ OutputTypes'
        BY ClientKept, OutputKept
      <4> QED BY <4>5, <4>6, <4>7, <4>8, <4>9
    <3> QED BY <3>1, <3>2
  <2>10. CASE Inject
    <3> USE <2>10 DEF Inject, Type
    <3>1. InputTypes'
      <4>1. Head(batch).nth \in Nat /\ Head(batch).from \in Source
        BY BatchHead
      <4>2. typed' \in Seq(Typing)
        BY <4>1, TypingTypes
      <4> QED BY <4>2 DEF InputTypes
    <3>2. LocalTypes' BY DEF LocalTypes, Batched
    <3>3. PlaceOK' BY DEF PlaceOK, Members
    <3>4. LoopTypes' /\ ClientTypes' /\ OutputTypes'
      BY LoopKept, ClientKept, OutputKept
    <3> QED BY <3>1, <3>2, <3>3, <3>4
  <2>11. CASE InjectFails
    <3> USE <2>11 DEF InjectFails
    <3>1. LoopTypes' BY DEF LoopTypes, Place
    <3>2. InputTypes'
      <4>1. Head(batch).nth \in Nat
        BY BatchHead
      <4> QED BY <4>1 DEF InputTypes
    <3>3. LocalTypes' BY DEF LocalTypes
    <3>4. PlaceOK' BY DEF PlaceOK, Members
    <3>5. ClientTypes' /\ OutputTypes'
      BY ClientKept, OutputKept
    <3> QED BY <3>1, <3>2, <3>3, <3>4, <3>5
  <2>12. CASE Poll
    <3> USE <2>12 DEF Poll
    <3>1. LoopTypes' BY PollReports DEF LoopTypes, Place, Members
    <3>2. PlaceOK' BY PollReports DEF PlaceOK, Members
    <3>3. ClientTypes' /\ OutputTypes' /\ InputTypes' /\ LocalTypes'
      BY ClientKept, OutputKept, InputKept, LocalKept
    <3> QED BY <3>1, <3>2, <3>3
  <2>13. ASSUME NEW c \in Client, VisitErr(c)
         PROVE  TypeOK'
    <3> USE <2>13 DEF VisitErr, Visit
    <3>1. LoopTypes' BY DEF LoopTypes
    <3>2. ClientTypes' BY DisconnectTypes DEF ClientTypes
    <3>3. PlaceOK' BY DisconnectTypes DEF PlaceOK, LoopTypes
    <3>4. OutputTypes' /\ InputTypes' /\ LocalTypes'
      BY OutputKept, InputKept, LocalKept
    <3> QED BY <3>1, <3>2, <3>3, <3>4
  <2>14. ASSUME NEW c \in Client, VisitOther(c)
         PROVE  TypeOK'
    <3> USE <2>14 DEF VisitOther, Visit
    <3>1. LoopTypes' BY DEF LoopTypes, Place
    <3>2. PlaceOK' BY DEF PlaceOK, Members
    <3>3. ClientTypes' /\ OutputTypes' /\ InputTypes' /\ LocalTypes'
      BY ClientKept, OutputKept, InputKept, LocalKept
    <3> QED BY <3>1, <3>2, <3>3
  <2>15. CASE ClientsVisited
    <3> USE <2>15 DEF ClientsVisited
    <3>1. LoopTypes' BY DEF LoopTypes, Place, Revents
    <3>2. PlaceOK' BY DEF PlaceOK, Members, LoopTypes, Revents
    <3>3. ClientTypes' /\ OutputTypes' /\ InputTypes' /\ LocalTypes'
      BY ClientKept, OutputKept, InputKept, LocalKept
    <3> QED BY <3>1, <3>2, <3>3
  <2>16. CASE HearHello
    <3> USE <2>16 DEF HearHello, Hear
    <3>1. ClientTypes' BY DEF ClientTypes
    <3>2. InputTypes' BY HeardToken DEF InputTypes
    <3>3. PlaceOK' BY DEF PlaceOK, Members
    <3>4. LoopTypes' /\ OutputTypes' /\ LocalTypes'
      BY LoopKept, OutputKept, LocalKept
    <3> QED BY <3>1, <3>2, <3>3, <3>4
  <2>17. CASE HearResize
    <3> USE <2>17 DEF HearResize, Hear, StopListening, Unheard
    <3>1. LoopTypes' BY DEF LoopTypes, Place
    <3>2. ClientTypes'
      <4> DEFINE t == said[cur][heard[cur] + 1]
      <4>1. cur \in Client /\ t.size \in Size
        BY HeardToken, ResizeHasSize
      <4>2. size' = [size EXCEPT ![cur] = t.size] \/ size' = size
        OBVIOUS
      <4>3. size' \in [Client -> Size \cup {NoSize}]
        <5> HIDE DEF t
        <5> QED BY <4>1, <4>2 DEF ClientTypes
      <4> QED BY <4>3 DEF ClientTypes
    <3>3. InputTypes' BY HeardToken DEF InputTypes
    <3>4. PlaceOK' BY DEF PlaceOK, Members
    <3>5. OutputTypes' /\ LocalTypes'
      BY OutputKept, LocalKept
    <3> QED BY <3>1, <3>2, <3>3, <3>4, <3>5
  <2>18. CASE HearKey
    <3> USE <2>18 DEF HearKey, Hear, StopListening, Type
    <3>1. LoopTypes' BY DEF LoopTypes, Place
    <3>2. ClientTypes' BY DEF ClientTypes
    <3>3. InputTypes'
      <4>1. cur \in Client /\ cur \in Source /\ heard[cur] + 1 \in Nat
        BY HeardToken DEF Source
      <4>2. typed' \in Seq(Typing)
        BY <4>1, TypingTypes DEF InputTypes
      <4> QED BY <4>1, <4>2 DEF InputTypes
    <3>4. PlaceOK' BY DEF PlaceOK, Members
    <3>5. OutputTypes' /\ LocalTypes'
      BY OutputKept, LocalKept
    <3> QED BY <3>1, <3>2, <3>3, <3>4, <3>5
  <2>19. CASE HearBad
    <3> USE <2>19 DEF HearBad, Hear, StopListening
    <3>1. LoopTypes' BY DEF LoopTypes, Place
    <3>2. ClientTypes' BY DEF ClientTypes
    <3>3. InputTypes' BY HeardToken DEF InputTypes
    <3>4. PlaceOK' BY DEF PlaceOK, Members
    <3>5. OutputTypes' /\ LocalTypes'
      BY OutputKept, LocalKept
    <3> QED BY <3>1, <3>2, <3>3, <3>4, <3>5
  <2>20. CASE HearNothing
    <3> USE <2>20 DEF HearNothing
    <3>1. LoopTypes' BY DEF LoopTypes, Place
    <3>2. PlaceOK' BY DEF PlaceOK, Members
    <3>3. ClientTypes' /\ OutputTypes' /\ InputTypes' /\ LocalTypes'
      BY ClientKept, OutputKept, InputKept, LocalKept
    <3> QED BY <3>1, <3>2, <3>3
  <2>21. CASE HearEnd
    <3> USE <2>21 DEF HearEnd, StopListening
    <3>1. LoopTypes' BY DEF LoopTypes, Place
    <3>2. ClientTypes' BY DEF ClientTypes
    <3>3. InputTypes' BY DEF InputTypes
    <3>4. PlaceOK' BY DEF PlaceOK, Members
    <3>5. OutputTypes' /\ LocalTypes'
      BY OutputKept, LocalKept
    <3> QED BY <3>1, <3>2, <3>3, <3>4, <3>5
  <2>22. CASE Flush
    <3> USE <2>22 DEF Flush
    <3>1. LoopTypes' BY DEF LoopTypes, Place
    <3>2. ClientTypes'
      <4>1. cur \in Client /\ backlog[cur] \in Nat
        BY DEF PlaceOK, Members, ClientTypes
      <4>2. PICK left \in 0..backlog[cur] : backlog' = [backlog EXCEPT ![cur] = left]
        OBVIOUS
      <4>3. backlog' \in [Client -> Nat]
        BY <4>1, <4>2 DEF ClientTypes
      <4> QED BY <4>3 DEF ClientTypes
    <3>3. PlaceOK' BY DEF PlaceOK, Members
    <3>4. OutputTypes' /\ InputTypes' /\ LocalTypes'
      BY OutputKept, InputKept, LocalKept
    <3> QED BY <3>1, <3>2, <3>3, <3>4
  <2>23. CASE FlushFails
    <3> USE <2>23 DEF FlushFails
    <3>1. LoopTypes' BY DEF LoopTypes, Place
    <3>2. ClientTypes' BY DisconnectTypes DEF ClientTypes, PlaceOK, Members
    <3>3. PlaceOK' BY DisconnectTypes DEF PlaceOK, Members
    <3>4. OutputTypes' /\ InputTypes' /\ LocalTypes'
      BY OutputKept, InputKept, LocalKept
    <3> QED BY <3>1, <3>2, <3>3, <3>4
  <2>24. ASSUME NEW c \in Client, Accept(c)
         PROVE  TypeOK'
    <3> USE <2>24 DEF Accept, Greeting
    <3>1. ClientTypes'
      <4>1. Greeting \in Seq(Frame)
        BY DEF OutputTypes, Frame, Event, Hello, SizeFrame
      <4>2. Greeting \o replay \in Seq(Frame)
        BY <4>1, ConcatProperties DEF OutputTypes
      <4>3. stream' \in [Client -> Seq(Frame)]
        BY <4>1, <4>2 DEF ClientTypes
      <4>4. backlog' \in [Client -> Nat]
        BY LengthsAssumption DEF ClientTypes, OutputTypes
      <4> QED BY <4>3, <4>4 DEF ClientTypes
    <3>2. PlaceOK' BY DEF PlaceOK, Members
    <3>3. LoopTypes' /\ OutputTypes' /\ InputTypes' /\ LocalTypes'
      BY LoopKept, OutputKept, InputKept, LocalKept
    <3> QED BY <3>1, <3>2, <3>3
  <2>25. CASE NoneWaiting
    <3> USE <2>25 DEF NoneWaiting
    <3>1. LoopTypes' BY DEF LoopTypes, Place, Revents
    <3>2. PlaceOK' BY DEF PlaceOK, Members, LoopTypes, Revents
    <3>3. ClientTypes' /\ OutputTypes' /\ InputTypes' /\ LocalTypes'
      BY ClientKept, OutputKept, InputKept, LocalKept
    <3> QED BY <3>1, <3>2, <3>3
  <2>26. CASE SyncSize
    <3> USE <2>26 DEF SyncSize
    <3>0. SizeFrame(Desired) \in Event /\ SizeFrame(Desired) \in Frame
      BY DesiredIsSize DEF Event, Frame
    <3>1. LoopTypes' BY DEF LoopTypes, Place
    <3>2. ClientTypes' BY <3>0, BroadcastTypes
    <3>3. OutputTypes' BY <3>0, DesiredIsSize, RecordTypes DEF OutputTypes
    <3>4. PlaceOK' BY DEF PlaceOK
    <3>5. InputTypes' /\ LocalTypes'
      BY InputKept, LocalKept
    <3> QED BY <3>1, <3>2, <3>3, <3>4, <3>5
  <2>27. CASE KeepSize
    <3> USE <2>27 DEF KeepSize
    <3>1. LoopTypes' BY DEF LoopTypes, Place
    <3>2. PlaceOK' BY DEF PlaceOK, Members
    <3>3. ClientTypes' /\ OutputTypes' /\ InputTypes' /\ LocalTypes'
      BY ClientKept, OutputKept, InputKept, LocalKept
    <3> QED BY <3>1, <3>2, <3>3
  <2>28. CASE SkipStdin
    <3> USE <2>28 DEF SkipStdin
    <3>1. LoopTypes' BY DEF LoopTypes, Place
    <3>2. PlaceOK' BY DEF PlaceOK, Members
    <3>3. ClientTypes' /\ OutputTypes' /\ InputTypes' /\ LocalTypes'
      BY ClientKept, OutputKept, InputKept, LocalKept
    <3> QED BY <3>1, <3>2, <3>3
  <2>29. CASE LocalDone
    <3> USE <2>29 DEF LocalDone
    <3>1. LoopTypes' BY DEF LoopTypes, Place
    <3>2. PlaceOK' BY DEF PlaceOK, Members
    <3>3. ClientTypes' /\ OutputTypes' /\ InputTypes' /\ LocalTypes'
      BY ClientKept, OutputKept, InputKept, LocalKept
    <3> QED BY <3>1, <3>2, <3>3
  <2>30. CASE ReadStdin
    <3> USE <2>30 DEF ReadStdin
    <3>1. LoopTypes' BY DEF LoopTypes, Place
    <3>2. LocalTypes'
      <4>1. CASE keysRead < Len(keyed)
        <5> DEFINE n == Len(keyed) - keysRead
                   tokens == [i \in 1..n |-> [from |-> keyed[keysRead + i],
                                              nth |-> keysRead + i]]
        <5>1. n \in Nat
          BY <4>1 DEF LocalTypes
        <5>2. \A i \in 1..n : keyed[keysRead + i] \in {"key", "detach"} /\ keysRead + i \in Nat
          BY <4>1 DEF LocalTypes, LocalToken
        <5>3. \A i \in 1..n : [from |-> keyed[keysRead + i], nth |-> keysRead + i] \in Batched
          BY <5>2 DEF Batched
        <5>4. tokens \in Seq(Batched)
          BY <5>1, <5>3, IsASeq
        <5>5. batch' = tokens /\ keysRead' = Len(keyed) /\ stdinOpen' = stdinOpen
          BY <4>1
        <5> HIDE DEF tokens
        <5> QED BY <5>4, <5>5 DEF LocalTypes
      <4>2. CASE ~(keysRead < Len(keyed))
        BY <4>2 DEF LocalTypes
      <4> QED BY <4>1, <4>2
    <3>3. PlaceOK' BY DEF PlaceOK, Members
    <3>4. ClientTypes' /\ OutputTypes' /\ InputTypes'
      BY ClientKept, OutputKept, InputKept
    <3> QED BY <3>1, <3>2, <3>3, <3>4
  <2>31. CASE LocalKey
    <3> USE <2>31 DEF LocalKey, Type
    <3>1. InputTypes'
      <4>1. Head(batch).nth \in Nat /\ "host" \in Source
        BY BatchHead DEF Source
      <4>2. typed' \in Seq(Typing)
        BY <4>1, TypingTypes
      <4> QED BY <4>2 DEF InputTypes
    <3>2. LocalTypes' BY DEF LocalTypes
    <3>3. PlaceOK' BY DEF PlaceOK, Members
    <3>4. LoopTypes' /\ ClientTypes' /\ OutputTypes'
      BY LoopKept, ClientKept, OutputKept
    <3> QED BY <3>1, <3>2, <3>3, <3>4
  <2>32. CASE LocalDetach
    <3> USE <2>32 DEF LocalDetach
    <3>1. LocalTypes' BY DEF LocalTypes
    <3>2. PlaceOK' BY DEF PlaceOK, Members
    <3>3. LoopTypes' /\ ClientTypes' /\ OutputTypes' /\ InputTypes'
      BY LoopKept, ClientKept, OutputKept, InputKept
    <3> QED BY <3>1, <3>2, <3>3
  <2>33. CASE ReadPty
    <3> USE <2>33 DEF ReadPty
    <3>1. LoopTypes' BY DEF LoopTypes, Place
    <3>2. OutputTypes'
      <4>1. unread > 0
        BY DEF PlaceOK
      <4>2. nread + 1 \in Chunk
        BY <4>1, BoundsAssumption DEF OutputTypes, Chunk
      <4>3. Data(nread + 1) \in Frame
        BY <4>2 DEF Frame, Event
      <4>4. replay' \in Seq(Frame)
        BY <4>3, AppendProperties DEF OutputTypes
      <4>5. replayBytes' \in Nat
        BY <4>3, FrameLenType DEF OutputTypes
      <4> QED BY <4>1, <4>4, <4>5 DEF OutputTypes
    <3>3. PlaceOK' BY DEF PlaceOK, Members, OutputTypes
    <3>4. ClientTypes' /\ InputTypes' /\ LocalTypes'
      BY ClientKept, InputKept, LocalKept
    <3> QED BY <3>1, <3>2, <3>3, <3>4
  <2>34. CASE SkipPty
    <3> USE <2>34 DEF SkipPty, EndTick
    <3>1. LoopTypes' BY DEF LoopTypes, Place, Quiet, Revents
    <3>2. PlaceOK' BY DEF PlaceOK, Quiet
    <3>3. ClientTypes' /\ OutputTypes' /\ InputTypes' /\ LocalTypes'
      BY ClientKept, OutputKept, InputKept, LocalKept
    <3> QED BY <3>1, <3>2, <3>3
  <2>35. CASE Evict
    <3> USE <2>35 DEF Evict
    <3>1. OutputTypes'
      <4>1. CASE replay = <<>>
        BY <4>1 DEF OutputTypes
      <4>2. CASE replay # <<>>
        <5>1. Head(replay) \in Frame /\ Tail(replay) \in Seq(Frame)
          BY <4>2, HeadTailProperties DEF OutputTypes
        <5>2. replayBytes' \in Nat
          BY <4>2, <5>1, FrameLenType DEF OutputTypes, Monus
        <5> QED BY <4>2, <5>1, <5>2 DEF OutputTypes
      <4> QED BY <4>1, <4>2
    <3>2. LoopTypes' /\ ClientTypes' /\ InputTypes' /\ LocalTypes' /\ PlaceOK'
      BY LoopKept, ClientKept, InputKept, LocalKept, PlaceKept
    <3> QED BY <3>1, <3>2
  <2>36. CASE PublishOutput
    <3> USE <2>36 DEF PublishOutput, EndTick
    <3>0. Data(nread) \in Event /\ Data(nread) \in Frame
      BY BoundsAssumption, SMTT(30) DEF OutputTypes, PlaceOK, Event, Frame, Chunk
    <3>1. LoopTypes' BY DEF LoopTypes, Place, Quiet, Revents
    <3>2. ClientTypes' BY <3>0, BroadcastTypes
    <3>3. OutputTypes' BY <3>0, RecordTypes DEF OutputTypes
    <3>4. PlaceOK' BY DEF PlaceOK, Quiet
    <3>5. InputTypes' /\ LocalTypes'
      BY InputKept, LocalKept
    <3> QED BY <3>1, <3>2, <3>3, <3>4, <3>5
  <2>37. CASE SessionError
    <3> USE <2>37 DEF SessionError
    <3>1. LoopTypes' BY DEF LoopTypes, Place
    <3>2. OutputTypes' BY DEF OutputTypes
    <3>3. PlaceOK' BY DEF PlaceOK, Members
    <3>4. ClientTypes' /\ InputTypes' /\ LocalTypes'
      BY ClientKept, InputKept, LocalKept
    <3> QED BY <3>1, <3>2, <3>3, <3>4
  <2>38. ASSUME NEW c \in Client, Connect(c)
         PROVE  TypeOK'
    <3> USE <2>38 DEF Connect
    <3>1. ClientTypes' BY DEF ClientTypes
    <3>2. PlaceOK' BY DEF PlaceOK, Members
    <3>3. LoopTypes' /\ OutputTypes' /\ InputTypes' /\ LocalTypes'
      BY LoopKept, OutputKept, InputKept, LocalKept
    <3> QED BY <3>1, <3>2, <3>3
  <2>39. ASSUME NEW c \in Client, Say(c)
         PROVE  TypeOK'
    <3> USE <2>39 DEF Say
    <3>1. InputTypes' BY InputAssumption, FollowingTypes DEF InputTypes
    <3>2. LoopTypes' /\ ClientTypes' /\ OutputTypes' /\ LocalTypes' /\ PlaceOK'
      BY LoopKept, ClientKept, OutputKept, LocalKept, PlaceKept
    <3> QED BY <3>1, <3>2
  <2>40. ASSUME NEW c \in Client, HangUp(c)
         PROVE  TypeOK'
    <3> USE <2>40 DEF HangUp
    <3>1. InputTypes' BY DEF InputTypes
    <3>2. LoopTypes' /\ ClientTypes' /\ OutputTypes' /\ LocalTypes' /\ PlaceOK'
      BY LoopKept, ClientKept, OutputKept, LocalKept, PlaceKept
    <3> QED BY <3>1, <3>2
  <2>41. CASE ChildWrites
    <3> USE <2>41 DEF ChildWrites
    <3>1. OutputTypes' BY BoundsAssumption DEF OutputTypes
    <3>2. PlaceOK' BY DEF PlaceOK, OutputTypes, Members
    <3>3. LoopTypes' /\ ClientTypes' /\ InputTypes' /\ LocalTypes'
      BY LoopKept, ClientKept, InputKept, LocalKept
    <3> QED BY <3>1, <3>2, <3>3
  <2>42. CASE ChildReads
    <3> USE <2>42 DEF ChildReads
    <3>1. InputTypes' BY DEF InputTypes
    <3>2. LoopTypes' /\ ClientTypes' /\ OutputTypes' /\ LocalTypes' /\ PlaceOK'
      BY LoopKept, ClientKept, OutputKept, LocalKept, PlaceKept
    <3> QED BY <3>1, <3>2
  <2>43. CASE ChildExits
    <3> USE <2>43 DEF ChildExits
    <3>1. OutputTypes' BY DEF OutputTypes
    <3>2. LoopTypes' /\ ClientTypes' /\ InputTypes' /\ LocalTypes' /\ PlaceOK'
      BY LoopKept, ClientKept, InputKept, LocalKept, PlaceKept
    <3> QED BY <3>1, <3>2
  <2>44. CASE ResizeTerminal
    <3> USE <2>44 DEF ResizeTerminal
    <3>1. OutputTypes'
      <4>1. termSize' \in Size \cup {NoSize}
        BY SizesAssumption
      <4> QED BY <4>1 DEF OutputTypes
    <3>2. LoopTypes' /\ ClientTypes' /\ InputTypes' /\ LocalTypes' /\ PlaceOK'
      BY LoopKept, ClientKept, InputKept, LocalKept, PlaceKept
    <3> QED BY <3>1, <3>2
  <2>45. CASE Press
    <3> USE <2>45 DEF Press
    <3>1. LocalTypes'
      <4>1. keyed' \in Seq(LocalToken)
        BY InputAssumption, FollowingTypes DEF LocalTypes
      <4>2. stdinEof' \in BOOLEAN
        BY DEF LocalTypes
      <4> QED BY <4>1, <4>2 DEF LocalTypes
    <3>2. LoopTypes' /\ ClientTypes' /\ OutputTypes' /\ InputTypes' /\ PlaceOK'
      BY LoopKept, ClientKept, OutputKept, InputKept, PlaceKept
    <3> QED BY <3>1, <3>2
  <2>46. CASE Ask
    <3> USE <2>46 DEF Ask
    <3>1. LocalTypes' BY InputAssumption, FollowingTypes DEF LocalTypes
    <3>2. LoopTypes' /\ ClientTypes' /\ OutputTypes' /\ InputTypes' /\ PlaceOK'
      BY LoopKept, ClientKept, OutputKept, InputKept, PlaceKept
    <3> QED BY <3>1, <3>2
  <2>47. CASE Stop
    <3> USE <2>47 DEF Stop
    <3>1. LocalTypes' BY DEF LocalTypes
    <3>2. LoopTypes' /\ ClientTypes' /\ OutputTypes' /\ InputTypes' /\ PlaceOK'
      BY LoopKept, ClientKept, OutputKept, InputKept, PlaceKept
    <3> QED BY <3>1, <3>2
  <2>48. CASE UNCHANGED vars
    BY <2>48, LoopKept, ClientKept, OutputKept, InputKept, LocalKept, PlaceKept
  <2> QED BY <2>1, <2>2, <2>3, <2>4, <2>5, <2>6, <2>7, <2>8, <2>9, <2>10,
         <2>11, <2>12, <2>13, <2>14, <2>15, <2>16, <2>17, <2>18, <2>19, <2>20,
         <2>21, <2>22, <2>23, <2>24, <2>25, <2>26, <2>27, <2>28, <2>29, <2>30,
         <2>31, <2>32, <2>33, <2>34, <2>35, <2>36, <2>37, <2>38, <2>39, <2>40,
         <2>41, <2>42, <2>43, <2>44, <2>45, <2>46, <2>47, <2>48 DEF Next,
         HostStep, EnvStep, Over
<1> QED BY <1>1, <1>2, PTL DEF Spec

-----------------------------------------------------------------------------
(* The output. *)

outputVars == <<conn, stream, backlog, replayVars, current, nread, traceVars, statVars>>

\* The steps that have to do with output.
OutputStep ==
  \/ Finish \/ Flush \/ FlushFails \/ SyncSize \/ ReadPty \/ Evict \/ PublishOutput
  \/ \E c \in Client : VisitErr(c) \/ Accept(c) \/ Connect(c)

USE DEF outputVars

\* All the others leave it alone, and neither start nor end a publication.
LEMMA OtherSteps ==
  ASSUME [Next]_vars
  PROVE  \/ OutputStep
         \/ UNCHANGED outputVars /\ (pc' = "evict" <=> pc = "evict")
<1> DEFINE Other == UNCHANGED outputVars /\ (pc' = "evict" <=> pc = "evict")
<1> SUFFICES OutputStep \/ Other
  OBVIOUS
<1>1. StartTick => Other
  BY DEF StartTick
<1>2. LeaveLoop => Other
  BY DEF LeaveLoop
<1>3. ServeAdd => Other
  BY DEF ServeAdd, Serve
<1>4. ServeClear => Other
  BY DEF ServeClear, Serve
<1>5. ServeOther => Other
  BY DEF ServeOther, Serve
<1>6. ServeNext => Other
  BY DEF ServeNext, Serve
<1>7. Inject => Other
  BY DEF Inject, Type
<1>8. Injected => Other
  BY DEF Injected
<1>9. InjectFails => Other
  BY DEF InjectFails
<1>10. CtlDrained => Other
  BY DEF CtlDrained
<1>11. Poll => Other
  BY DEF Poll
<1>12. ASSUME NEW c \in Client, VisitOther(c) PROVE Other
  BY <1>12 DEF VisitOther, Visit
<1>13. ClientsVisited => Other
  BY DEF ClientsVisited
<1>14. HearHello => Other
  BY DEF HearHello, Hear
<1>15. HearResize => Other
  BY DEF HearResize, Hear, StopListening
<1>16. HearKey => Other
  BY DEF HearKey, Hear, StopListening, Type
<1>17. HearBad => Other
  BY DEF HearBad, Hear, StopListening
<1>18. HearNothing => Other
  BY DEF HearNothing
<1>19. HearEnd => Other
  BY DEF HearEnd, StopListening
<1>20. NoneWaiting => Other
  BY DEF NoneWaiting
<1>21. KeepSize => Other
  BY DEF KeepSize
<1>22. ReadStdin => Other
  BY DEF ReadStdin
<1>23. SkipStdin => Other
  BY DEF SkipStdin
<1>24. LocalKey => Other
  BY DEF LocalKey, Type
<1>25. LocalDetach => Other
  BY DEF LocalDetach
<1>26. LocalDone => Other
  BY DEF LocalDone
<1>27. SkipPty => Other
  BY DEF SkipPty, EndTick
<1>28. SessionError => Other
  BY BoundsAssumption DEF SessionError
<1>29. ASSUME NEW c \in Client, Say(c) PROVE Other
  BY <1>29 DEF Say
<1>30. ASSUME NEW c \in Client, HangUp(c) PROVE Other
  BY <1>30 DEF HangUp
<1>31. ChildWrites => Other
  BY DEF ChildWrites
<1>32. ChildReads => Other
  BY DEF ChildReads
<1>33. ChildExits => Other
  BY DEF ChildExits
<1>34. ResizeTerminal => Other
  BY DEF ResizeTerminal
<1>35. Press => Other
  BY DEF Press
<1>36. Ask => Other
  BY DEF Ask
<1>37. Stop => Other
  BY DEF Stop
<1>38. UNCHANGED vars => Other
  OBVIOUS
<1> HIDE DEF Other
<1> QED BY <1>1, <1>2, <1>3, <1>4, <1>5, <1>6, <1>7, <1>8, <1>9, <1>10, <1>11,
       <1>12, <1>13, <1>14, <1>15, <1>16, <1>17, <1>18, <1>19, <1>20, <1>21,
       <1>22, <1>23, <1>24, <1>25, <1>26, <1>27, <1>28, <1>29, <1>30, <1>31,
       <1>32, <1>33, <1>34, <1>35, <1>36, <1>37, <1>38 DEF Next, HostStep,
       EnvStep, Over, OutputStep

-----------------------------------------------------------------------------
(***************************************************************************)
(* What a broadcast and a disconnect do to the list of clients.            *)
(***************************************************************************)
\* A broadcast lets some members go, the overfull ones among them, and the
\* frame reaches all the others.
LEMMA BroadcastEffect ==
  ASSUME TypeOK, NEW f \in Frame, Broadcast(f)
  PROVE  \E gone \in SUBSET Members :
           /\ Overfull(f) \subseteq gone
           /\ Members' = Members \ gone
           /\ \A c \in Members \ gone : stream'[c] = Append(stream[c], f)
           /\ \A c \in gone : stream'[c] = <<>>
           /\ \A c \in Client \ Members : stream'[c] = stream[c]
           /\ \A c \in Client : \/ backlog'[c] = backlog[c] \/ backlog'[c] = 0
                                \/ /\ c \in Members \ Overfull(f)
                                   /\ backlog'[c] <= backlog[c] + FrameLen(f)
           /\ disconnected' = disconnected + Cardinality(gone)
           /\ dropped' = dropped + Cardinality(Overfull(f))
           /\ accepted' = accepted
<1> DEFINE gone == Overfull(f) \cup {c \in Members : Broken(c)}
           kept == Members \ gone
<1>1. gone \in SUBSET Members /\ gone \in SUBSET Client /\ Members \in SUBSET Client
  BY DEF Overfull, Members
<1>2. Without(gone)
  BY DEF Broadcast
<1>3. Members' = Members \ gone
  BY <1>1, <1>2, WithoutTypes
<1>4. stream' = [c \in Client |-> IF c \in kept THEN Append(stream[c], f)
                                  ELSE IF c \in gone THEN <<>> ELSE stream[c]]
  BY DEF Broadcast
<1>5. PICK left \in [kept -> 0..(MaxBacklog + FrameLen(f))] :
        /\ \A c \in kept : left[c] <= backlog[c] + FrameLen(f)
        /\ backlog' = [c \in Client |-> IF c \in kept THEN left[c]
                                        ELSE IF c \in gone THEN 0 ELSE backlog[c]]
  BY DEF Broadcast
<1>6. \A c \in Client : \/ backlog'[c] = backlog[c] \/ backlog'[c] = 0
                        \/ /\ c \in Members \ Overfull(f)
                           /\ backlog'[c] <= backlog[c] + FrameLen(f)
  BY <1>5
<1>7. /\ disconnected' = disconnected + Cardinality(gone)
      /\ dropped' = dropped + Cardinality(Overfull(f))
      /\ accepted' = accepted
  BY DEF Broadcast
<1>8. /\ \A c \in Members \ gone : stream'[c] = Append(stream[c], f)
      /\ \A c \in gone : stream'[c] = <<>>
      /\ \A c \in Client \ Members : stream'[c] = stream[c]
  BY <1>1, <1>4
<1> HIDE DEF gone, kept
<1>9. Overfull(f) \subseteq gone
  BY DEF gone
<1> QED BY <1>1, <1>3, <1>6, <1>7, <1>8, <1>9

-----------------------------------------------------------------------------
(***************************************************************************)
(* Budgets.                                                                *)
(***************************************************************************)
\* The chunk that is published is one the child has written.
LEMMA ChunkInHand ==
  ASSUME TypeOK, PublishOutput
  PROVE  Data(nread) \in Event
<1>1. pc = "evict"
  BY DEF PublishOutput
<1>2. nread \in Nat /\ unread \in Nat /\ nread + unread <= MaxOut /\ nread > 0
  BY <1>1 DEF TypeOK, OutputTypes, PlaceOK
<1>3. nread \in Chunk
  BY <1>2, BoundsAssumption DEF Chunk
<1> QED BY <1>3 DEF Event

\* A broadcast gives nobody more than the budget.
LEMMA BroadcastWithinBudget ==
  ASSUME TypeOK, NEW f \in Frame, Broadcast(f),
         \A c \in Client : backlog[c] <= MaxBacklog
  PROVE  \A c \in Client : backlog'[c] <= MaxBacklog
<1> SUFFICES ASSUME NEW c \in Client
             PROVE  backlog'[c] <= MaxBacklog
  OBVIOUS
<1>1. backlog[c] \in Nat /\ backlog'[c] \in Nat /\ FrameLen(f) \in Nat /\ MaxBacklog \in Nat
  BY BroadcastTypes, FrameLenType, BudgetAssumption DEF TypeOK, ClientTypes
<1>2. \/ backlog'[c] = backlog[c] \/ backlog'[c] = 0
      \/ c \in Members \ Overfull(f) /\ backlog'[c] <= backlog[c] + FrameLen(f)
  BY BroadcastEffect
<1>3. c \in Members \ Overfull(f) => FrameLen(f) <= MaxBacklog - backlog[c]
  BY <1>1 DEF Overfull
<1> QED BY <1>1, <1>2, <1>3

\* No client, however slow, is ever owed more than MaxBacklog bytes, and the
\* replay a newcomer is sent fits it: enqueue's test, accept's greeting and
\* remember's loop together keep the budget.
THEOREM BudgetKept == Spec => []WithinBudget
<1>1. Init => WithinBudget
  BY BudgetAssumption DEF Init, WithinBudget
<1>2. TypeOK /\ TypeOK' /\ WithinBudget /\ [Next]_vars => WithinBudget'
  <2> SUFFICES ASSUME TypeOK, TypeOK', WithinBudget, [Next]_vars
               PROVE  WithinBudget'
    OBVIOUS
  <2>0. /\ \A c \in Client : backlog[c] \in Nat /\ backlog[c] <= MaxBacklog
        /\ replayBytes \in Nat /\ (pc # "evict" => replayBytes <= MaxReplay)
    BY DEF TypeOK, ClientTypes, OutputTypes, WithinBudget
  <2>1. CASE Finish
    BY <2>0, <2>1 DEF Finish, WithinBudget
  <2>2. CASE Flush
    <3>1. cur \in Client
      BY <2>2 DEF TypeOK, PlaceOK, Flush, Members
    <3>2. PICK left \in 0..backlog[cur] : backlog' = [backlog EXCEPT ![cur] = left]
      BY <2>2 DEF Flush
    <3>3. \A c \in Client : backlog'[c] <= MaxBacklog
      BY <2>0, <3>1, <3>2, BudgetAssumption DEF TypeOK, ClientTypes
    <3> QED BY <2>0, <2>2, <3>3 DEF Flush, WithinBudget
  <2>3. CASE FlushFails
    <3>1. \A c \in Client : backlog'[c] <= MaxBacklog
      BY <2>0, <2>3, BudgetAssumption DEF TypeOK, ClientTypes, FlushFails, Disconnect
    <3> QED BY <2>0, <2>3, <3>1 DEF FlushFails, WithinBudget
  <2>4. CASE SyncSize
    <3>1. SizeFrame(Desired) \in Frame /\ Broadcast(SizeFrame(Desired))
      BY <2>4, DesiredIsSize DEF SyncSize, Frame, Event
    <3>2. \A c \in Client : backlog'[c] <= MaxBacklog
      BY <2>0, <3>1, BroadcastWithinBudget
    <3> QED BY <2>0, <2>4, <3>2 DEF SyncSize, WithinBudget
  <2>5. CASE ReadPty
    BY <2>0, <2>5 DEF ReadPty, WithinBudget
  <2>6. CASE Evict
    BY <2>0, <2>6 DEF Evict, WithinBudget
  <2>7. CASE PublishOutput
    <3>1. Data(nread) \in Frame /\ Broadcast(Data(nread))
      BY <2>7, ChunkInHand DEF PublishOutput, Frame
    <3>2. \A c \in Client : backlog'[c] <= MaxBacklog
      BY <2>0, <3>1, BroadcastWithinBudget
    <3>3. replayBytes' <= MaxReplay
      BY <2>7 DEF PublishOutput
    <3> QED BY <3>2, <3>3 DEF WithinBudget
  <2>8. ASSUME NEW c \in Client, VisitErr(c)
        PROVE  WithinBudget'
    <3>1. \A d \in Client : backlog'[d] <= MaxBacklog
      BY <2>0, <2>8, BudgetAssumption DEF TypeOK, ClientTypes, VisitErr, Disconnect
    <3> QED BY <2>0, <2>8, <3>1 DEF VisitErr, Visit, WithinBudget
  <2>9. ASSUME NEW c \in Client, Accept(c)
        PROVE  WithinBudget'
    <3>1. \A d \in Client : backlog'[d] <= MaxBacklog
      BY <2>0, <2>9, BudgetAssumption, LengthsAssumption DEF TypeOK, ClientTypes, Accept
    <3> QED BY <2>0, <2>9, <3>1 DEF Accept, WithinBudget
  <2>10. ASSUME NEW c \in Client, Connect(c)
         PROVE  WithinBudget'
    BY <2>0, <2>10 DEF Connect, WithinBudget
  <2>11. CASE UNCHANGED outputVars /\ (pc' = "evict" <=> pc = "evict")
    BY <2>0, <2>11 DEF WithinBudget
  <2> QED BY <2>1, <2>2, <2>3, <2>4, <2>5, <2>6, <2>7, <2>8, <2>9, <2>10, <2>11,
             OtherSteps DEF OutputStep
<1> QED BY <1>1, <1>2, TypeCorrect, PTL DEF Spec

-----------------------------------------------------------------------------
(***************************************************************************)
(* The room's view of a step: somebody joined or left, an event was given  *)
(* out, or nothing that the room knows of has happened.                    *)
(***************************************************************************)
Joined(c) ==
  /\ c \in Client \ Members /\ Members' = Members \cup {c}
  /\ pc # "evict" /\ pc' # "evict"
  /\ \/ stream' = [stream EXCEPT ![c] = Greeting \o replay]
     \/ stream' = [stream EXCEPT ![c] = Greeting]
  /\ accepted' = accepted + 1
  /\ UNCHANGED <<current, nread, replay, steps, slot, disconnected, dropped>>

Left(c) ==
  /\ c \in Members /\ Members' = Members \ {c}
  /\ pc # "evict" /\ pc' # "evict"
  /\ stream' = [stream EXCEPT ![c] = <<>>]
  /\ disconnected' = disconnected + 1
  /\ UNCHANGED <<current, nread, replay, steps, slot, accepted, dropped>>

Given(f) ==
  /\ f \in Event /\ Broadcast(f) /\ Record(f)
  /\ pc' # "evict"
  /\ UNCHANGED <<nread, replay>>

Silent ==
  /\ UNCHANGED <<stream, current, statVars>>
  /\ Members' = Members /\ History' = History /\ Published' = Published

\* Every step of the loop is one of these.
LEMMA RoomSteps ==
  ASSUME TypeOK, TypeOK', [Next]_vars
  PROVE  \/ \E c \in Client : Joined(c) \/ Left(c)
         \/ SyncSize /\ Given(SizeFrame(Desired)) /\ pc # "evict" /\ current' = Desired
         \/ PublishOutput /\ Given(Data(nread)) /\ pc = "evict" /\ current' = current
         \/ Silent
<1> DEFINE Goal == \/ \E c \in Client : Joined(c) \/ Left(c)
                   \/ SyncSize /\ Given(SizeFrame(Desired)) /\ pc # "evict" /\ current' = Desired
                   \/ PublishOutput /\ Given(Data(nread)) /\ pc = "evict" /\ current' = current
                   \/ Silent
<1> SUFFICES Goal
  OBVIOUS
<1>1. CASE Finish
  <2>1. History \in Seq(Event) /\ History' = History \o <<>>
    BY <1>1, ConcatProperties DEF TypeOK, OutputTypes, Finish, History
  <2>2. History' = History
    BY <2>1, ConcatEmptySeq
  <2> QED BY <1>1, <2>2 DEF Finish, Silent, Members, Published
<1>2. CASE Flush
  BY <1>2 DEF Flush, Silent, Members, Published, History
<1>3. CASE FlushFails
  <2>1. cur \in Members
    BY <1>3 DEF TypeOK, PlaceOK, FlushFails
  <2>2. Members' = Members \ {cur}
    BY <1>3, <2>1, DisconnectTypes DEF FlushFails, Members
  <2>3. cur \in Client /\ Left(cur)
    BY <1>3, <2>1, <2>2 DEF FlushFails, Disconnect, Left, Members
  <2> QED BY <2>3
<1>4. CASE SyncSize
  BY <1>4, DesiredIsSize DEF SyncSize, Given, Event
<1>5. CASE ReadPty
  BY <1>5 DEF ReadPty, Silent, Members, Published, History, TypeOK, OutputTypes
<1>6. CASE Evict
  BY <1>6 DEF Evict, Silent, Members, Published, History
<1>7. CASE PublishOutput
  <2>1. Data(nread) \in Event
    BY <1>7, ChunkInHand
  <2> QED BY <1>7, <2>1 DEF PublishOutput, EndTick, Given
<1>8. ASSUME NEW c \in Client, VisitErr(c)
      PROVE  Goal
  <2>1. c \in Members
    BY <1>8 DEF TypeOK, PlaceOK, VisitErr, Visit
  <2>2. Members' = Members \ {c}
    BY <1>8, DisconnectTypes DEF VisitErr
  <2>3. Left(c)
    BY <1>8, <2>1, <2>2 DEF VisitErr, Visit, Disconnect, Left
  <2> QED BY <2>3
<1>9. ASSUME NEW c \in Client, Accept(c)
      PROVE  Goal
  <2>1. c \in Client \ Members /\ Members' = Members \cup {c}
    BY <1>9 DEF TypeOK, ClientTypes, Accept, Members
  <2>2. Joined(c)
    BY <1>9, <2>1 DEF Accept, Joined
  <2> QED BY <2>2
<1>10. ASSUME NEW c \in Client, Connect(c)
       PROVE  Goal
  <2>1. Members' = Members
    BY <1>10 DEF TypeOK, ClientTypes, Connect, Members
  <2> QED BY <1>10, <2>1 DEF Connect, Silent, Published, History
<1>11. CASE UNCHANGED outputVars /\ (pc' = "evict" <=> pc = "evict")
  BY <1>11 DEF Silent, Members, Published, History
<1> HIDE DEF Goal
<1> QED BY <1>1, <1>2, <1>3, <1>4, <1>5, <1>6, <1>7, <1>8, <1>9, <1>10, <1>11,
           OtherSteps DEF OutputStep

-----------------------------------------------------------------------------
(***************************************************************************)
(* Counters.                                                               *)
(***************************************************************************)
LEMMA BroadcastCounts ==
  ASSUME TypeOK, NEW f \in Frame, Broadcast(f), CountersAddUp
  PROVE  CountersAddUp'
<1>1. PICK gone \in SUBSET Members :
        /\ Overfull(f) \subseteq gone
        /\ Members' = Members \ gone
        /\ disconnected' = disconnected + Cardinality(gone)
        /\ dropped' = dropped + Cardinality(Overfull(f))
        /\ accepted' = accepted
  BY BroadcastEffect
<1>2. IsFiniteSet(Members)
  BY InputAssumption, FS_Subset DEF Members
<1>3. IsFiniteSet(gone) /\ IsFiniteSet(Members \ gone)
  BY <1>2, FS_Subset
<1>4. Cardinality(Overfull(f)) <= Cardinality(gone) /\ IsFiniteSet(Overfull(f))
  BY <1>1, <1>3, FS_Subset
<1>5. Cardinality(Members) = Cardinality(Members \ gone) + Cardinality(gone)
  <2> DEFINE kept == Members \ gone
  <2>1. Members = kept \cup gone /\ kept \cap gone = {}
    OBVIOUS
  <2> HIDE DEF kept
  <2>2. IsFiniteSet(kept) /\ Cardinality(kept) \in Nat /\ Cardinality(gone) \in Nat
    BY <1>3, FS_CardinalityType DEF kept
  <2>3. Cardinality(kept \cup gone)
          = Cardinality(kept) + Cardinality(gone) - Cardinality(kept \cap gone)
    BY <1>3, <2>2, FS_Union
  <2>4. Cardinality(kept \cap gone) = 0
    BY <2>1, FS_EmptySet
  <2>5. Cardinality(Members) = Cardinality(kept) + Cardinality(gone)
    BY <2>1, <2>2, <2>3, <2>4
  <2> QED BY <2>5 DEF kept
<1>6. /\ Cardinality(Members \ gone) \in Nat /\ Cardinality(gone) \in Nat
      /\ Cardinality(Overfull(f)) \in Nat
  BY <1>3, <1>4, FS_CardinalityType
<1> QED BY <1>1, <1>4, <1>5, <1>6 DEF CountersAddUp, TypeOK, ClientTypes

\* Nobody is counted twice and nobody is forgotten, whichever of the four ways
\* out of the list a client takes.
THEOREM CountersKept == Spec => []CountersAddUp
<1>1. Init => CountersAddUp
  <2> SUFFICES ASSUME Init
               PROVE  CountersAddUp
    OBVIOUS
  <2>1. Members = {}
    BY DEF Init, Members
  <2> QED BY <2>1, FS_EmptySet DEF Init, CountersAddUp
<1>2. TypeOK /\ TypeOK' /\ CountersAddUp /\ [Next]_vars => CountersAddUp'
  <2> SUFFICES ASSUME TypeOK, TypeOK', CountersAddUp, [Next]_vars
               PROVE  CountersAddUp'
    OBVIOUS
  <2>1. IsFiniteSet(Members) /\ Cardinality(Members) \in Nat
    BY InputAssumption, FS_Subset, FS_CardinalityType DEF Members
  <2>2. ASSUME NEW c \in Client, Joined(c)
        PROVE  CountersAddUp'
    <3>1. Cardinality(Members') = Cardinality(Members) + 1
      BY <2>1, <2>2, FS_AddElement DEF Joined
    <3> QED BY <2>1, <2>2, <3>1 DEF Joined, CountersAddUp, TypeOK, ClientTypes
  <2>3. ASSUME NEW c \in Client, Left(c)
        PROVE  CountersAddUp'
    <3>1. Cardinality(Members') = Cardinality(Members) - 1
      BY <2>1, <2>3, FS_RemoveElement DEF Left
    <3> QED BY <2>1, <2>3, <3>1 DEF Left, CountersAddUp, TypeOK, ClientTypes
  <2>4. ASSUME NEW f \in Frame, Given(f)
        PROVE  CountersAddUp'
    BY <2>4, BroadcastCounts DEF Given
  <2>5. CASE Silent
    BY <2>5 DEF Silent, CountersAddUp
  <2>6. \A f : Given(f) => f \in Frame
    BY DEF Given, Frame
  <2> QED BY <2>2, <2>3, <2>4, <2>5, <2>6, RoomSteps
<1> QED BY <1>1, <1>2, TypeCorrect, PTL DEF Spec

-----------------------------------------------------------------------------
(***************************************************************************)
(* Runs of output.                                                         *)
(***************************************************************************)
LEMMA FrameForms ==
  ASSUME NEW f \in Frame
  PROVE  \/ f = Hello \/ \E z \in Size : f = SizeFrame(z)
         \/ IsData(f) /\ f.chunk \in Nat /\ f = Data(f.chunk)
BY DEF Frame, Event, Chunk, Data, IsData

\* No frame is of two kinds, and a frame carries what it was made from.
LEMMA FrameKinds ==
  /\ ~IsData(Hello) /\ ~IsSize(Hello)
  /\ \A z : IsSize(SizeFrame(z)) /\ ~IsData(SizeFrame(z)) /\ SizeFrame(z).size = z
  /\ \A n : IsData(Data(n)) /\ ~IsSize(Data(n)) /\ Data(n).chunk = n
BY DEF IsData, IsSize, Hello, SizeFrame, Data

\* Nothing is unbroken.
LEMMA UnbrokenEmpty ==
  ASSUME NEW n
  PROVE  UnbrokenTo(<<>>, n)
BY DEF UnbrokenTo

\* A run goes on with its next chunk ...
LEMMA UnbrokenWithNext ==
  ASSUME NEW s \in Seq(Frame), NEW n \in Nat, UnbrokenTo(s, n)
  PROVE  UnbrokenTo(Append(s, Data(n + 1)), n + 1)
<1> DEFINE t == Append(s, Data(n + 1))
<1>1. /\ DOMAIN t = 1..(Len(s) + 1) /\ DOMAIN s = 1..Len(s) /\ Len(s) \in Nat
      /\ \A i \in DOMAIN s : t[i] = s[i] /\ s[i] \in Frame
      /\ t[Len(s) + 1] = Data(n + 1)
  OBVIOUS
<1> HIDE DEF t
<1> SUFFICES ASSUME NEW i \in DOMAIN t, IsData(t[i])
             PROVE  /\ t[i].chunk <= n + 1
                    /\ \/ t[i].chunk = n + 1
                       \/ \E j \in DOMAIN t : j > i /\ t[j] = Data(t[i].chunk + 1)
                    /\ \A j \in DOMAIN t : j > i /\ IsData(t[j]) => t[j].chunk > t[i].chunk
  BY DEF UnbrokenTo, t
<1>2. CASE i = Len(s) + 1
  BY <1>1, <1>2, FrameKinds
<1>3. CASE i \in DOMAIN s
  <2>1. /\ t[i] = s[i] /\ s[i].chunk \in Nat /\ s[i].chunk <= n
        /\ s[i].chunk = n \/ \E j \in DOMAIN s : j > i /\ s[j] = Data(s[i].chunk + 1)
        /\ \A j \in DOMAIN s : j > i /\ IsData(s[j]) => s[j].chunk > s[i].chunk
    BY <1>1, <1>3, FrameForms, FrameKinds DEF UnbrokenTo
  <2>2. \/ t[i].chunk = n + 1
        \/ \E j \in DOMAIN t : j > i /\ t[j] = Data(t[i].chunk + 1)
    BY <1>1, <1>3, <2>1
  <2>3. ASSUME NEW j \in DOMAIN t, j > i, IsData(t[j])
        PROVE  t[j].chunk > t[i].chunk
    BY <1>1, <2>1, <2>3, FrameKinds
  <2> QED BY <2>1, <2>2, <2>3
<1> QED BY <1>1, <1>2, <1>3

\* ... and is not disturbed by a frame that is no output.
LEMMA UnbrokenWithOther ==
  ASSUME NEW s \in Seq(Frame), NEW n, UnbrokenTo(s, n), NEW f, ~IsData(f)
  PROVE  UnbrokenTo(Append(s, f), n)
<1> DEFINE t == Append(s, f)
<1>1. /\ DOMAIN t = 1..(Len(s) + 1) /\ DOMAIN s = 1..Len(s) /\ Len(s) \in Nat
      /\ \A i \in DOMAIN s : t[i] = s[i]
      /\ t[Len(s) + 1] = f
  OBVIOUS
<1> HIDE DEF t
<1>2. \A i \in DOMAIN t : IsData(t[i]) => i \in DOMAIN s
  BY <1>1
<1> QED BY <1>1, <1>2 DEF UnbrokenTo, t

Output == {Data(k) : k \in Int}

\* The output after the m-th chunk, chunk by chunk.
LEMMA DataAfterIsSeq ==
  ASSUME NEW m \in Int, NEW n \in Int, n >= m
  PROVE  /\ DataAfter(m, n) \in Seq(Output) /\ Len(DataAfter(m, n)) = n - m
         /\ \A i \in 1..(n - m) : DataAfter(m, n)[i] = Data(m + i)
<1>1. n - m \in Nat
  OBVIOUS
<1>2. \A i \in 1..(n - m) : Data(m + i) \in Output
  BY DEF Output
<1> HIDE DEF Output
<1>3. DataAfter(m, n) \in [1..(n - m) -> Output]
  BY <1>2 DEF DataAfter
<1>4. DataAfter(m, n) \in Seq(Output)
  BY <1>1, <1>3
<1> QED BY <1>1, <1>3, <1>4 DEF DataAfter

\* A greeting followed by the output after the m-th chunk.
LEMMA UnbrokenGreeting ==
  ASSUME NEW g \in Seq(Frame), \A i \in DOMAIN g : ~IsData(g[i]),
         NEW m \in Int, NEW n \in Int, n >= m
  PROVE  UnbrokenTo(g \o DataAfter(m, n), n)
<1> DEFINE d == DataAfter(m, n)
           t == g \o d
<1>1. /\ d \in Seq(Output) /\ Len(d) = n - m
      /\ \A i \in 1..(n - m) : d[i] = Data(m + i)
  BY DataAfterIsSeq
<1>2. /\ DOMAIN t = 1..(Len(g) + (n - m)) /\ Len(g) \in Nat
      /\ \A i \in 1..Len(g) : ~IsData(t[i])
      /\ \A i \in 1..(n - m) : t[Len(g) + i] = Data(m + i)
  <2>1. g \in Seq(Frame \cup Output) /\ d \in Seq(Frame \cup Output)
    BY <1>1
  <2> HIDE DEF d
  <2>2. /\ Len(t) = Len(g) + Len(d) /\ t \in Seq(Frame \cup Output)
        /\ \A i \in 1..Len(t) : t[i] = IF i <= Len(g) THEN g[i] ELSE d[i - Len(g)]
    BY <2>1, ConcatProperties
  <2> HIDE DEF t
  <2>3. DOMAIN t = 1..(Len(g) + (n - m)) /\ Len(g) \in Nat /\ DOMAIN g = 1..Len(g)
    BY <1>1, <2>2
  <2>4. \A i \in 1..(n - m) : Len(g) + i \in 1..Len(t) /\ ~(Len(g) + i <= Len(g))
                              /\ (Len(g) + i) - Len(g) = i
    BY <1>1, <2>2, <2>3
  <2>5. \A i \in 1..(n - m) : t[Len(g) + i] = d[i]
    BY <2>2, <2>4
  <2>6. \A i \in 1..Len(g) : i \in 1..Len(t) /\ i <= Len(g)
    BY <1>1, <2>2, <2>3
  <2>7. \A i \in 1..Len(g) : ~IsData(t[i])
    BY <2>2, <2>3, <2>6
  <2> QED BY <1>1, <2>3, <2>5, <2>7
<1> HIDE DEF t, d
<1> SUFFICES ASSUME NEW i \in DOMAIN t, IsData(t[i])
             PROVE  /\ t[i].chunk <= n
                    /\ \/ t[i].chunk = n
                       \/ \E j \in DOMAIN t : j > i /\ t[j] = Data(t[i].chunk + 1)
                    /\ \A j \in DOMAIN t : j > i /\ IsData(t[j]) => t[j].chunk > t[i].chunk
  BY DEF UnbrokenTo, t, d
<1>3. \A j \in DOMAIN t : IsData(t[j]) =>
        j - Len(g) \in 1..(n - m) /\ t[j] = Data(m + (j - Len(g)))
  <2> SUFFICES ASSUME NEW j \in DOMAIN t, IsData(t[j])
               PROVE  j - Len(g) \in 1..(n - m) /\ t[j] = Data(m + (j - Len(g)))
    OBVIOUS
  <2>1. j \in Nat /\ ~(j \in 1..Len(g))
    BY <1>2
  <2>2. j - Len(g) \in 1..(n - m) /\ Len(g) + (j - Len(g)) = j
    BY <1>2, <2>1
  <2> QED BY <1>2, <2>2
<1> DEFINE k == i - Len(g)
<1>4. k \in 1..(n - m) /\ t[i] = Data(m + k) /\ t[i].chunk = m + k
  BY <1>3, FrameKinds
<1>5. \/ t[i].chunk = n
      \/ \E j \in DOMAIN t : j > i /\ t[j] = Data(t[i].chunk + 1)
  <2>1. CASE k = n - m
    BY <1>4, <2>1
  <2>2. CASE k # n - m
    <3>1. i \in Int /\ Len(g) \in Int
      BY <1>2
    <3>2. k + 1 \in 1..(n - m) /\ Len(g) + (k + 1) = i + 1 /\ m + (k + 1) = (m + k) + 1
      BY <1>4, <2>2, <3>1
    <3>3. t[Len(g) + (k + 1)] = Data(m + (k + 1))
      BY <1>2, <3>2
    <3>4. t[i + 1] = Data((m + k) + 1)
      BY <3>2, <3>3
    <3>5. i + 1 \in DOMAIN t /\ i + 1 > i
      BY <1>2, <3>1, <3>2
    <3> QED BY <1>4, <3>4, <3>5
  <2> QED BY <2>1, <2>2
<1>6. ASSUME NEW j \in DOMAIN t, j > i, IsData(t[j])
      PROVE  t[j].chunk > t[i].chunk
  BY <1>2, <1>3, <1>4, <1>6, FrameKinds
<1> QED BY <1>4, <1>5, <1>6

-----------------------------------------------------------------------------
(***************************************************************************)
(* The replay.                                                             *)
(***************************************************************************)
\* Adding the next chunk moves the end by one.
LEMMA DataAfterAppend ==
  ASSUME NEW m \in Int, NEW n \in Int, n >= m
  PROVE  Append(DataAfter(m, n), Data(n + 1)) = DataAfter(m, n + 1)
<1> DEFINE s == Append(DataAfter(m, n), Data(n + 1))
           t == DataAfter(m, n + 1)
<1>1. /\ DataAfter(m, n) \in Seq(Output) /\ Len(DataAfter(m, n)) = n - m
      /\ \A i \in 1..(n - m) : DataAfter(m, n)[i] = Data(m + i)
  BY DataAfterIsSeq
<1>2. /\ t \in Seq(Output) /\ Len(t) = (n + 1) - m
      /\ \A i \in 1..((n + 1) - m) : t[i] = Data(m + i)
  BY DataAfterIsSeq
<1>3. Data(n + 1) \in Output
  BY DEF Output
<1>4. /\ s \in Seq(Output) /\ Len(s) = (n - m) + 1 /\ s[(n - m) + 1] = Data(n + 1)
      /\ \A i \in 1..(n - m) : s[i] = DataAfter(m, n)[i]
  BY <1>1, <1>3, AppendProperties
<1> HIDE DEF s, t
<1>5. \A i \in 1..Len(s) : s[i] = t[i]
  <2> SUFFICES ASSUME NEW i \in 1..Len(s)
               PROVE  s[i] = t[i]
    OBVIOUS
  <2>1. CASE i = (n - m) + 1
    <3>1. i \in 1..((n + 1) - m) /\ m + i = n + 1
      BY <2>1
    <3> QED BY <1>2, <1>4, <2>1, <3>1
  <2>2. CASE i # (n - m) + 1
    <3>1. i \in 1..(n - m) /\ i \in 1..((n + 1) - m)
      BY <1>4, <2>2
    <3> QED BY <1>1, <1>2, <1>4, <3>1
  <2> QED BY <2>1, <2>2
<1>6. Len(s) = Len(t)
  BY <1>2, <1>4
<1>7. s = t
  BY <1>2, <1>4, <1>5, <1>6, SeqEqual
<1> QED BY <1>7 DEF s, t

\* Dropping the first chunk moves the start by one.
LEMMA DataAfterTail ==
  ASSUME NEW m \in Int, NEW n \in Int, n > m
  PROVE  Tail(DataAfter(m, n)) = DataAfter(m + 1, n)
<1> DEFINE d == DataAfter(m, n)
           t == DataAfter(m + 1, n)
<1>1. /\ d \in Seq(Output) /\ Len(d) = n - m
      /\ \A i \in 1..(n - m) : d[i] = Data(m + i)
  BY DataAfterIsSeq
<1>2. /\ t \in Seq(Output) /\ Len(t) = n - (m + 1)
      /\ \A i \in 1..(n - (m + 1)) : t[i] = Data((m + 1) + i)
  BY DataAfterIsSeq
<1> HIDE DEF d, t
<1>3. /\ Tail(d) \in Seq(Output) /\ Len(Tail(d)) = Len(d) - 1
      /\ \A i \in 1..Len(Tail(d)) : Tail(d)[i] = d[i + 1]
  <2>1. d # <<>>
    BY <1>1
  <2> QED BY <1>1, <2>1, HeadTailProperties
<1>4. \A i \in 1..Len(Tail(d)) : Tail(d)[i] = t[i]
  <2> SUFFICES ASSUME NEW i \in 1..Len(Tail(d))
               PROVE  Tail(d)[i] = t[i]
    OBVIOUS
  <2>1. i + 1 \in 1..(n - m) /\ i \in 1..(n - (m + 1)) /\ m + (i + 1) = (m + 1) + i
    BY <1>1, <1>3
  <2> QED BY <1>1, <1>2, <1>3, <2>1
<1>5. Len(Tail(d)) = Len(t)
  BY <1>1, <1>2, <1>3
<1>6. Tail(d) = t
  BY <1>2, <1>3, <1>4, <1>5, SeqEqual
<1> QED BY <1>6 DEF d, t

\* However the sizes of the chunks and the budget fall out, remember's loop
\* keeps the newest output, all of it from some chunk on, and nothing else.
THEOREM ReplayKept == Spec => []ReplayRecent
<1>1. Init => ReplayRecent
  <2> SUFFICES ASSUME Init
               PROVE  ReplayRecent
    OBVIOUS
  <2>1. replay = <<>> /\ nread = 0
    BY DEF Init
  <2>2. DataAfter(0, 0) = <<>>
    BY DataAfterIsSeq
  <2> QED BY <2>1, <2>2 DEF ReplayRecent
<1>2. TypeOK /\ TypeOK' /\ ReplayRecent /\ [Next]_vars => ReplayRecent'
  <2> SUFFICES ASSUME TypeOK, TypeOK', ReplayRecent, [Next]_vars
               PROVE  ReplayRecent'
    OBVIOUS
  <2> DEFINE n == nread
             m == nread - Len(replay)
  <2>0. n \in Int /\ m \in Int /\ n >= m /\ replay \in Seq(Frame) /\ replay = DataAfter(m, n)
    BY DEF TypeOK, OutputTypes, ReplayRecent
  <2>1. CASE ReadPty
    <3>1. nread' = n + 1 /\ replay' = Append(replay, Data(n + 1))
      BY <2>1 DEF ReadPty
    <3>2. replay' = DataAfter(m, n + 1)
      BY <2>0, <3>1, DataAfterAppend
    <3>3. nread' - Len(replay') = m
      <4>1. Len(replay') = Len(replay) + 1
        BY <2>0, <3>1
      <4> QED BY <2>0, <3>1, <4>1
    <3> QED BY <3>1, <3>2, <3>3 DEF ReplayRecent
  <2>2. CASE Evict /\ replay # <<>>
    <3>1. nread' = n /\ replay' = Tail(replay)
      BY <2>2 DEF Evict
    <3>2. Len(replay') = Len(replay) - 1 /\ Len(replay) > 0
      BY <2>0, <2>2, <3>1
    <3>3. replay' = DataAfter(m + 1, n)
      BY <2>0, <3>1, <3>2, DataAfterTail
    <3>4. nread' - Len(replay') = m + 1
      <4>1. Len(replay) \in Int /\ nread \in Int /\ nread' = nread
        BY <2>0, <3>1
      <4> QED BY <3>2, <4>1
    <3> QED BY <3>1, <3>3, <3>4 DEF ReplayRecent
  <2>3. CASE UNCHANGED <<nread, replay>>
    BY <2>3 DEF ReplayRecent
  <2>4. ReadPty \/ (Evict /\ replay # <<>>) \/ UNCHANGED <<nread, replay>>
    <3>1. OutputStep => ReadPty \/ Evict \/ UNCHANGED <<nread, replay>>
      BY DEF OutputStep, Finish, Flush, FlushFails, SyncSize, PublishOutput, VisitErr,
             Visit, Accept, Connect
    <3>2. Evict /\ replay = <<>> => UNCHANGED <<nread, replay>>
      BY DEF Evict
    <3> QED BY <3>1, <3>2, OtherSteps
  <2> QED BY <2>1, <2>2, <2>3, <2>4
<1> QED BY <1>1, <1>2, TypeCorrect, PTL DEF Spec

-----------------------------------------------------------------------------
(***************************************************************************)
(* Streams.                                                                *)
(***************************************************************************)
LEMMA GreetingFrames ==
  ASSUME TypeOK
  PROVE  /\ Greeting \in Seq(Frame) /\ Len(Greeting) = 2
         /\ Greeting[1] = Hello /\ Greeting[2] = SizeFrame(current)
         /\ \A i \in DOMAIN Greeting : ~IsData(Greeting[i])
<1>1. Hello \in Frame /\ SizeFrame(current) \in Frame
  BY DEF TypeOK, OutputTypes, Frame, Event
<1> QED BY <1>1, FrameKinds DEF Greeting

\* Between the replay and the first broadcast nothing is lost or repeated, and
\* every broadcast goes on where the one before ended, for every client that is
\* kept, in every order of reads, joins, resizes and drops.
THEOREM StreamsKept == Spec => []StreamsUnbroken
<1>1. Init => StreamsUnbroken
  BY DEF Init, StreamsUnbroken, Members
<1>2. /\ TypeOK /\ TypeOK' /\ ReplayRecent
      /\ StreamsUnbroken /\ [Next]_vars
      => StreamsUnbroken'
  <2> SUFFICES ASSUME TypeOK, TypeOK', ReplayRecent, StreamsUnbroken, [Next]_vars,
                      NEW d \in Members'
               PROVE  UnbrokenTo(stream'[d], Published')
    BY DEF StreamsUnbroken
  <2>0. /\ \A c \in Members : c \in Client /\ stream[c] \in Seq(Frame)
                              /\ UnbrokenTo(stream[c], Published)
        /\ DOMAIN stream = Client
        /\ nread \in Nat /\ (pc = "evict" => nread > 0)
        /\ replay \in Seq(Frame) /\ Len(replay) \in Nat
    <3>1. /\ \A c \in Members : c \in Client
          /\ \A c \in Members : UnbrokenTo(stream[c], Published)
      BY DEF StreamsUnbroken, Members
    <3>2. stream \in [Client -> Seq(Frame)] /\ replay \in Seq(Frame) /\ nread \in Nat
      BY DEF TypeOK, ClientTypes, OutputTypes
    <3>3. pc = "evict" => nread > 0
      BY DEF TypeOK, PlaceOK
    <3> QED BY <3>1, <3>2, <3>3
  <2>1. ASSUME NEW c \in Client, Joined(c)
        PROVE  UnbrokenTo(stream'[d], Published')
    <3>1. Published = nread /\ Published' = nread
      BY <2>1 DEF Joined, Published
    <3>2. CASE d = c
      <4>1. stream'[d] = Greeting \o replay \/ stream'[d] = Greeting
        BY <2>0, <2>1, <3>2 DEF Joined
      <4>2. UnbrokenTo(Greeting \o replay, nread)
        BY <2>0, GreetingFrames, UnbrokenGreeting DEF ReplayRecent
      <4>3. UnbrokenTo(Greeting, nread)
        BY GreetingFrames DEF UnbrokenTo
      <4> QED BY <3>1, <4>1, <4>2, <4>3
    <3>3. CASE d # c
      <4>1. d \in Members /\ stream'[d] = stream[d]
        BY <2>0, <2>1, <3>3 DEF Joined
      <4> QED BY <2>0, <3>1, <4>1
    <3> QED BY <3>2, <3>3
  <2>2. ASSUME NEW c \in Client, Left(c)
        PROVE  UnbrokenTo(stream'[d], Published')
    <3>1. Published' = Published
      BY <2>2 DEF Left, Published
    <3>2. d \in Members /\ stream'[d] = stream[d]
      BY <2>0, <2>2 DEF Left
    <3> QED BY <2>0, <3>1, <3>2
  <2>3. ASSUME Given(SizeFrame(Desired)), pc # "evict"
        PROVE  UnbrokenTo(stream'[d], Published')
    <3>1. Published' = Published
      BY <2>3 DEF Given, Published
    <3>2. d \in Members /\ stream'[d] = Append(stream[d], SizeFrame(Desired))
      BY <2>3, BroadcastEffect DEF Given, Frame
    <3> QED BY <2>0, <3>1, <3>2, UnbrokenWithOther, FrameKinds
  <2>4. ASSUME Given(Data(nread)), pc = "evict"
        PROVE  UnbrokenTo(stream'[d], Published')
    <3>1. Published = nread - 1 /\ Published' = Published + 1 /\ Published \in Nat
          /\ nread = Published + 1
      BY <2>0, <2>4 DEF Given, Published
    <3>2. d \in Members /\ stream'[d] = Append(stream[d], Data(nread))
      BY <2>4, BroadcastEffect DEF Given, Frame
    <3> QED BY <2>0, <3>1, <3>2, UnbrokenWithNext
  <2>5. CASE Silent
    <3>1. d \in Members /\ stream'[d] = stream[d] /\ Published' = Published
      BY <2>5 DEF Silent
    <3> QED BY <2>0, <3>1
  <2> QED BY <2>1, <2>2, <2>3, <2>4, <2>5, RoomSteps
<1> QED BY <1>1, <1>2, TypeCorrect, ReplayKept, PTL DEF Spec

-----------------------------------------------------------------------------
(***************************************************************************)
(* Sizes.                                                                  *)
(***************************************************************************)
\* An appended size is the last one.
LEMMA LastSizeAppended ==
  ASSUME NEW s \in Seq(Frame), NEW z
  PROVE  LastSizeIs(Append(s, SizeFrame(z)), z)
<1> DEFINE t == Append(s, SizeFrame(z))
<1>1. DOMAIN t = 1..(Len(s) + 1) /\ Len(s) \in Nat /\ t[Len(s) + 1] = SizeFrame(z)
  OBVIOUS
<1> HIDE DEF t
<1>2. LastSizeIs(t, z)
  BY <1>1 DEF LastSizeIs
<1> QED BY <1>2 DEF t

\* A frame that is no size does not change the last one.
LEMMA LastSizeWithOther ==
  ASSUME NEW s \in Seq(Frame), NEW z, LastSizeIs(s, z), NEW f, ~IsSize(f)
  PROVE  LastSizeIs(Append(s, f), z)
<1> DEFINE t == Append(s, f)
<1>1. /\ DOMAIN t = 1..(Len(s) + 1) /\ DOMAIN s = 1..Len(s) /\ Len(s) \in Nat
      /\ \A i \in DOMAIN s : t[i] = s[i]
      /\ t[Len(s) + 1] = f
  OBVIOUS
<1> HIDE DEF t
<1>2. LastSizeIs(t, z)
  BY <1>1 DEF LastSizeIs
<1> QED BY <1>2 DEF t

\* Nor does a replay, which has no sizes.
LEMMA LastSizeOfGreeting ==
  ASSUME NEW g \in Seq(Frame), NEW z, LastSizeIs(g, z),
         NEW r \in Seq(Frame), \A i \in DOMAIN r : ~IsSize(r[i])
  PROVE  LastSizeIs(g \o r, z)
<1> DEFINE t == g \o r
<1>1. /\ DOMAIN t = 1..(Len(g) + Len(r)) /\ DOMAIN g = 1..Len(g) /\ DOMAIN r = 1..Len(r)
      /\ Len(g) \in Nat /\ Len(r) \in Nat
      /\ \A i \in 1..(Len(g) + Len(r)) : t[i] = IF i <= Len(g) THEN g[i] ELSE r[i - Len(g)]
  BY ConcatProperties
<1> HIDE DEF t
<1>2. PICK i \in DOMAIN g : g[i] = SizeFrame(z) /\ \A j \in DOMAIN g : j > i => ~IsSize(g[j])
  BY DEF LastSizeIs
<1>3. i \in DOMAIN t /\ t[i] = SizeFrame(z)
  BY <1>1, <1>2
<1>4. ASSUME NEW j \in DOMAIN t, j > i
      PROVE  ~IsSize(t[j])
  <2>1. CASE j <= Len(g)
    BY <1>1, <1>2, <1>4, <2>1
  <2>2. CASE ~(j <= Len(g))
    <3>1. j - Len(g) \in DOMAIN r /\ t[j] = r[j - Len(g)]
      BY <1>1, <1>4, <2>2
    <3> QED BY <3>1
  <2> QED BY <2>1, <2>2
<1>5. LastSizeIs(t, z)
  BY <1>3, <1>4 DEF LastSizeIs
<1> QED BY <1>5 DEF t

\* Whoever is in the list was told the PTY's size last: by the greeting if the
\* size has not changed since, or by the broadcast that changed it.
THEOREM SizesKept == Spec => []EverybodyKnowsTheSize
<1>1. Init => EverybodyKnowsTheSize
  BY DEF Init, EverybodyKnowsTheSize, Members
<1>2. /\ TypeOK /\ TypeOK' /\ ReplayRecent
      /\ EverybodyKnowsTheSize /\ [Next]_vars
      => EverybodyKnowsTheSize'
  <2> SUFFICES ASSUME TypeOK, TypeOK', ReplayRecent, EverybodyKnowsTheSize, [Next]_vars,
                      NEW d \in Members'
               PROVE  LastSizeIs(stream'[d], current')
    BY DEF EverybodyKnowsTheSize
  <2>0. /\ \A c \in Members : c \in Client /\ stream[c] \in Seq(Frame)
                              /\ LastSizeIs(stream[c], current)
        /\ DOMAIN stream = Client
        /\ nread \in Nat
        /\ replay \in Seq(Frame) /\ Len(replay) \in Nat
    <3>1. /\ \A c \in Members : c \in Client
          /\ \A c \in Members : LastSizeIs(stream[c], current)
      BY DEF EverybodyKnowsTheSize, Members
    <3>2. stream \in [Client -> Seq(Frame)] /\ replay \in Seq(Frame) /\ nread \in Nat
      BY DEF TypeOK, ClientTypes, OutputTypes
    <3> QED BY <3>1, <3>2
  <2>1. ASSUME NEW c \in Client, Joined(c)
        PROVE  LastSizeIs(stream'[d], current')
    <3>1. current' = current
      BY <2>1 DEF Joined
    <3>2. CASE d = c
      <4>1. stream'[d] = Greeting \o replay \/ stream'[d] = Greeting
        BY <2>0, <2>1, <3>2 DEF Joined
      <4>2. LastSizeIs(Greeting, current)
        BY GreetingFrames DEF LastSizeIs
      <4>3. \A i \in DOMAIN replay : ~IsSize(replay[i])
        BY FrameKinds DEF ReplayRecent, DataAfter
      <4>4. LastSizeIs(Greeting \o replay, current)
        BY <2>0, <4>2, <4>3, GreetingFrames, LastSizeOfGreeting
      <4> QED BY <3>1, <4>1, <4>2, <4>4
    <3>3. CASE d # c
      <4>1. d \in Members /\ stream'[d] = stream[d]
        BY <2>0, <2>1, <3>3 DEF Joined
      <4> QED BY <2>0, <3>1, <4>1
    <3> QED BY <3>2, <3>3
  <2>2. ASSUME NEW c \in Client, Left(c)
        PROVE  LastSizeIs(stream'[d], current')
    <3>1. current' = current
      BY <2>2 DEF Left
    <3>2. d \in Members /\ stream'[d] = stream[d]
      BY <2>0, <2>2 DEF Left
    <3> QED BY <2>0, <3>1, <3>2
  <2>3. ASSUME Given(SizeFrame(Desired)), current' = Desired
        PROVE  LastSizeIs(stream'[d], current')
    <3>1. d \in Members /\ stream'[d] = Append(stream[d], SizeFrame(Desired))
      BY <2>3, BroadcastEffect DEF Given, Frame
    <3> QED BY <2>0, <2>3, <3>1, LastSizeAppended
  <2>4. ASSUME Given(Data(nread)), current' = current
        PROVE  LastSizeIs(stream'[d], current')
    <3>1. d \in Members /\ stream'[d] = Append(stream[d], Data(nread))
      BY <2>4, BroadcastEffect DEF Given, Frame
    <3> QED BY <2>0, <2>4, <3>1, LastSizeWithOther, FrameKinds
  <2>5. CASE Silent
    <3>1. d \in Members /\ stream'[d] = stream[d] /\ current' = current
      BY <2>5 DEF Silent
    <3> QED BY <2>0, <3>1
  <2> QED BY <2>1, <2>2, <2>3, <2>4, <2>5, RoomSteps
<1> QED BY <1>1, <1>2, TypeCorrect, ReplayKept, PTL DEF Spec

-----------------------------------------------------------------------------
(***************************************************************************)
(* The recording.                                                          *)
(***************************************************************************)
LEMMA HistoryGrows ==
  ASSUME TypeOK, NEW e \in Event, Record(e)
  PROVE  History \in Seq(Frame) /\ History' = Append(History, e)
<1>1. steps \in Seq(Event) /\ slot \in Seq(Event)
  BY DEF TypeOK, OutputTypes
<1>2. History \in Seq(Event)
  BY <1>1, ConcatProperties DEF History
<1>3. History' = (steps \o slot) \o <<e>>
  BY DEF Record, History
<1>4. Append(History, e) = History \o <<e>>
  BY <1>2, AppendIsConcat
<1> QED BY <1>2, <1>3, <1>4 DEF History, Frame

\* The recording is the room's history: nothing that was given out is missing
\* from it, out of order or in it twice, and a replay of it has the right size.
THEOREM HistoryKept == Spec => []HistoryComplete
<1>1. Init => HistoryComplete
  <2> SUFFICES ASSUME Init
               PROVE  HistoryComplete
    OBVIOUS
  <2>1. History = <<>> /\ Published = 0 /\ current = Initial
    BY DEF Init, History, Published
  <2> QED BY <2>1, UnbrokenEmpty DEF HistoryComplete
<1>2. TypeOK /\ TypeOK' /\ HistoryComplete /\ [Next]_vars => HistoryComplete'
  <2> SUFFICES ASSUME TypeOK, TypeOK', HistoryComplete, [Next]_vars
               PROVE  HistoryComplete'
    OBVIOUS
  <2>0. nread \in Nat /\ (pc = "evict" => nread > 0)
    BY DEF TypeOK, OutputTypes, PlaceOK
  <2>1. ASSUME UNCHANGED <<History, Published, current>>
        PROVE  HistoryComplete'
    BY <2>1 DEF HistoryComplete
  <2>2. ASSUME NEW c \in Client, Joined(c) \/ Left(c)
        PROVE  UNCHANGED <<History, Published, current>>
    BY <2>2 DEF Joined, Left, History, Published
  <2>3. ASSUME Given(SizeFrame(Desired)), pc # "evict", current' = Desired
        PROVE  HistoryComplete'
    <3>1. History \in Seq(Frame) /\ History' = Append(History, SizeFrame(Desired))
      BY <2>3, HistoryGrows DEF Given
    <3>2. Published' = Published
      BY <2>3 DEF Given, Published
    <3>3. UnbrokenTo(History', Published')
      BY <3>1, <3>2, UnbrokenWithOther, FrameKinds DEF HistoryComplete
    <3>4. LastSizeIs(History', current')
      BY <2>3, <3>1, LastSizeAppended
    <3>5. \A i \in DOMAIN History : i \in DOMAIN History' /\ History'[i] = History[i]
      BY <3>1
    <3> QED BY <3>2, <3>3, <3>4, <3>5 DEF HistoryComplete
  <2>4. ASSUME Given(Data(nread)), pc = "evict", current' = current
        PROVE  HistoryComplete'
    <3>1. History \in Seq(Frame) /\ History' = Append(History, Data(nread))
      BY <2>4, HistoryGrows DEF Given
    <3>2. Published \in Nat /\ nread = Published + 1 /\ Published' = Published + 1
      BY <2>0, <2>4 DEF Given, Published
    <3>3. UnbrokenTo(History', Published')
      BY <3>1, <3>2, UnbrokenWithNext DEF HistoryComplete
    <3>4. /\ DOMAIN History' = 1..(Len(History) + 1) /\ DOMAIN History = 1..Len(History)
          /\ Len(History) \in Nat
          /\ \A i \in DOMAIN History : History'[i] = History[i]
          /\ History'[Len(History) + 1] = Data(nread)
      BY <3>1
    <3>5. \E i \in DOMAIN History' : History'[i] = Data(1)
      <4>1. CASE Published = 0
        BY <3>2, <3>4, <4>1
      <4>2. CASE Published # 0
        BY <3>2, <3>4, <4>2 DEF HistoryComplete
      <4> QED BY <4>1, <4>2
    <3>6. \/ LastSizeIs(History', current')
          \/ current' = Initial /\ \A i \in DOMAIN History' : ~IsSize(History'[i])
      <4>1. CASE LastSizeIs(History, current)
        BY <2>4, <3>1, <4>1, LastSizeWithOther, FrameKinds
      <4>2. CASE ~LastSizeIs(History, current)
        BY <2>4, <3>4, <4>2, FrameKinds DEF HistoryComplete
      <4> QED BY <4>1, <4>2
    <3> QED BY <3>3, <3>5, <3>6 DEF HistoryComplete
  <2>5. CASE Silent
    BY <2>1, <2>5 DEF Silent
  <2> QED BY <2>1, <2>2, <2>3, <2>4, <2>5, RoomSteps
<1> QED BY <1>1, <1>2, TypeCorrect, PTL DEF Spec

-----------------------------------------------------------------------------
\* Nobody outside the room has a view of it.
NoViewOutside == \A c \in Client \ Members : stream[c] = <<>>

\* The replay has no more chunks than were ever read.
LEMMA ReplayIsPublished ==
  ASSUME TypeOK, ReplayRecent
  PROVE  nread - Len(replay) \in 0..nread
<1>1. /\ nread \in Nat /\ Len(replay) \in Nat
      /\ \A i \in 1..Len(replay) : replay[i] \in Frame
      /\ replay = DataAfter(nread - Len(replay), nread)
  BY DEF TypeOK, OutputTypes, ReplayRecent
<1>2. ASSUME Len(replay) > nread
      PROVE  FALSE
  <2> DEFINE m == nread - Len(replay)
  <2>1. /\ 1 \in 1..Len(replay) /\ nread - m = Len(replay)
        /\ m \in Int /\ nread \in Int /\ nread >= m
    BY <1>1, <1>2
  <2> HIDE DEF m
  <2>2. \A i \in 1..(nread - m) : DataAfter(m, nread)[i] = Data(m + i)
    BY <2>1, DataAfterIsSeq
  <2>3. replay[1] = Data(m + 1) /\ replay[1] \in Frame
    BY <1>1, <2>1, <2>2 DEF m
  <2>4. IsData(replay[1]) /\ replay[1].chunk = m + 1
    BY <2>3, FrameKinds
  <2>5. m + 1 \in Chunk
    <3>1. replay[1] \in {Data(n) : n \in Chunk}
      BY <2>3, <2>4, FrameKinds DEF Frame, Event
    <3> QED BY <2>4, <3>1, FrameKinds
  <2> QED BY <1>1, <1>2, <2>5 DEF Chunk, m
<1> QED BY <1>1, <1>2

\* The room's frames are the loop's.
LEMMA SameFrames ==
  /\ R!Hello = Hello
  /\ \A z : R!SizeFrame(z) = SizeFrame(z)
  /\ \A n : R!Data(n) = Data(n)
  /\ \A m, n : R!DataAfter(m, n) = DataAfter(m, n)
BY DEF R!Hello, R!SizeFrame, R!Data, R!DataAfter, Hello, SizeFrame, Data, DataAfter

\* A broadcast publishes its frame.
LEMMA BroadcastPublishes ==
  ASSUME TypeOK, TypeOK', NoViewOutside, NEW f, Given(f)
  PROVE  R!Publish(f) /\ NoViewOutside'
<1>1. f \in Event /\ f \in Frame /\ Broadcast(f) /\ Record(f)
  BY DEF Given, Frame
<1>2. History' = Append(History, f)
  BY <1>1, HistoryGrows
<1>3. PICK gone \in SUBSET Members :
        /\ Members' = Members \ gone
        /\ \A c \in Members \ gone : stream'[c] = Append(stream[c], f)
        /\ \A c \in gone : stream'[c] = <<>>
        /\ \A c \in Client \ Members : stream'[c] = stream[c]
  BY <1>1, BroadcastEffect
<1>4. stream' \in [Client -> Seq(Frame)] /\ Members \subseteq Client
  BY DEF TypeOK, ClientTypes, Members
<1>5. \A c \in Client : stream'[c] = IF c \in Members' THEN Append(stream[c], f) ELSE <<>>
  BY <1>3 DEF NoViewOutside
<1>6. stream' = [p \in Client |-> IF p \in Members' THEN Append(stream[p], f) ELSE <<>>]
  BY <1>4, <1>5
<1> QED BY <1>2, <1>3, <1>4, <1>5, <1>6 DEF R!Publish, NoViewOutside

\* Every step of the host loop is a step of the room or none.
THEOREM RoomImplemented == Spec => ImplementsRoom
<1>1. Init => R!Init /\ NoViewOutside
  BY SizesAssumption DEF Init, R!Init, NoViewOutside, Published, History, Members
<1>2. /\ TypeOK /\ TypeOK' /\ ReplayRecent /\ NoViewOutside /\ [Next]_vars
      => [R!Next]_(R!vars) /\ NoViewOutside'
  <2> SUFFICES ASSUME TypeOK, TypeOK', ReplayRecent, NoViewOutside, [Next]_vars
               PROVE  [R!Next]_(R!vars) /\ NoViewOutside'
    OBVIOUS
  <2>0. stream \in [Client -> Seq(Frame)] /\ nread \in Nat /\ current \in Size
    BY DEF TypeOK, ClientTypes, OutputTypes
  <2>1. ASSUME NEW c \in Client, Joined(c)
        PROVE  R!Join(c) /\ NoViewOutside'
    <3>1. /\ Published = nread /\ Published' = Published /\ History' = History
          /\ current' = current
      BY <2>1 DEF Joined, Published, History
    <3>2. Greeting = <<Hello, SizeFrame(current)>> /\ Greeting \in Seq(Frame)
      BY GreetingFrames DEF Greeting
    <3>3. \E m \in 0..Published :
            stream' = [stream EXCEPT ![c] =
                         <<Hello, SizeFrame(current)>> \o DataAfter(m, Published)]
      <4>1. CASE stream' = [stream EXCEPT ![c] = Greeting \o replay]
        BY <3>1, <3>2, <4>1, ReplayIsPublished DEF ReplayRecent
      <4>2. CASE stream' = [stream EXCEPT ![c] = Greeting]
        <5>1. DataAfter(nread, nread) = <<>>
          BY <2>0, DataAfterIsSeq
        <5>2. Greeting \o <<>> = Greeting
          BY <3>2, ConcatEmptySeq
        <5>3. Published \in 0..Published
          BY <2>0, <3>1
        <5>4. <<Hello, SizeFrame(current)>> \o DataAfter(Published, Published) = Greeting
          BY <3>1, <3>2, <5>1, <5>2
        <5> QED BY <4>2, <5>3, <5>4
      <4> QED BY <2>1, <4>1, <4>2 DEF Joined
    <3>4. NoViewOutside'
      BY <2>0, <2>1 DEF Joined, NoViewOutside
    <3>5. c \notin Members /\ Members' = Members \cup {c}
      BY <2>1 DEF Joined
    <3> QED BY <3>1, <3>3, <3>4, <3>5, SameFrames DEF R!Join
  <2>2. ASSUME NEW c \in Client, Left(c)
        PROVE  R!Leave(c) /\ NoViewOutside'
    <3>1. R!Leave(c)
      BY <2>2 DEF Left, R!Leave, Published, History
    <3>2. NoViewOutside'
      BY <2>0, <2>2 DEF Left, NoViewOutside
    <3> QED BY <3>1, <3>2
  <2>3. ASSUME SyncSize, Given(SizeFrame(Desired)), pc # "evict", current' = Desired
        PROVE  R!Resize /\ NoViewOutside'
    <3>1. Desired \in Size \ {current}
      BY <2>3, DesiredIsSize DEF SyncSize, SizeStale
    <3>2. Published' = Published
      BY <2>3 DEF Given, Published
    <3>3. R!Publish(SizeFrame(Desired)) /\ NoViewOutside'
      BY <2>3, BroadcastPublishes
    <3> QED BY <2>3, <3>1, <3>2, <3>3, SameFrames DEF R!Resize
  <2>4. ASSUME Given(Data(nread)), pc = "evict", current' = current
        PROVE  R!Output /\ NoViewOutside'
    <3>1. nread = Published + 1 /\ Published' = Published + 1
      BY <2>0, <2>4 DEF Given, Published
    <3>2. R!Publish(Data(nread)) /\ NoViewOutside'
      BY <2>4, BroadcastPublishes
    <3> QED BY <2>4, <3>1, <3>2, SameFrames DEF R!Output
  <2>5. CASE Silent
    BY <2>5 DEF Silent, R!vars, NoViewOutside
  <2> QED BY <2>1, <2>2, <2>3, <2>4, <2>5, RoomSteps DEF R!Next
<1> QED BY <1>1, <1>2, TypeCorrect, ReplayKept, PTL DEF Spec, ImplementsRoom, R!Spec

-----------------------------------------------------------------------------
(* The input of the host loop *)

\* What the host knows of the clients it listens to: nothing refused was heard
\* from them, and ready says whether their hello was.
Listening ==
  /\ \A c \in Client :
       /\ heard[c] <= Len(said[c])
       /\ conn[c] \in {"idle", "waiting"} => heard[c] = 0 /\ ~ready[c]
       /\ inputOpen[c] =>
            /\ conn[c] = "member"
            /\ \A n \in 1..heard[c] : ~Refused(c, n)
            /\ ready[c] <=> \E n \in 1..heard[c] : said[c][n].op = "hello"
  /\ pc = "input" => inputOpen[cur]

\* What was typed for a client was heard from it.
TypedWasHeard ==
  \A i \in DOMAIN typed :
    typed[i].from \in Client => typed[i].nth \in 1..heard[typed[i].from]

Admission == Listening /\ TypedWasHeard /\ InputAdmitted

\* Local keys that were read are typed, or wait in the batch behind those typed.
LocalOrder ==
  /\ keysRead <= Len(keyed)
  /\ \A i \in DOMAIN typed : typed[i].from = "host" => typed[i].nth <= keysRead
  /\ pc = "local" =>
       /\ \A i \in DOMAIN batch : batch[i].nth <= keysRead
       /\ \A i, j \in DOMAIN batch : i < j => batch[i].nth < batch[j].nth
       /\ \A i \in DOMAIN typed, j \in DOMAIN batch :
            typed[i].from = "host" => typed[i].nth < batch[j].nth

Return(n) == [from |-> "cr", nth |-> n]
QueuedText(n) == [from |-> "queue", nth |-> n]

\* The queue holds requests that were served, in their order, behind those that
\* have left it.
QueueOrder ==
  /\ served <= Len(asked)
  /\ \A i \in DOMAIN queue : queue[i] <= served
  /\ \A i, j \in DOMAIN queue : i < j => queue[i] < queue[j]
  /\ \A i \in DOMAIN typed : typed[i].from \in {"queue", "cr"} =>
       /\ typed[i].nth <= served
       /\ \A j \in DOMAIN queue : typed[i].nth < queue[j]

\* A text is injected as a whole: what is left of it is behind what was typed of
\* it, and newer than the texts before and older than those in the queue.
Injecting ==
  /\ pc # "inject" => \A i \in DOMAIN batch : batch[i].from # "cr"
  /\ pc = "inject" /\ batch # <<>> =>
       \E n \in 0..served :
         /\ \A j \in DOMAIN queue : n < queue[j]
         /\ \A i \in DOMAIN typed : typed[i].from = "cr" => typed[i].nth < n
         /\ \/ /\ batch = <<QueuedText(n), Return(n)>>
               /\ \A i \in DOMAIN typed : typed[i].from = "queue" => typed[i].nth < n
            \/ /\ batch = <<Return(n)>>
               /\ \A i \in DOMAIN typed : typed[i].from = "queue" => typed[i].nth <= n

\* TextThenReturn, with the return that is owed.
ReturnOwed ==
  \A i \in DOMAIN typed : typed[i].from = "queue" /\ typed[i].nth \notin lost =>
    IF i < Len(typed) THEN typed[i + 1] = Return(typed[i].nth)
    ELSE pc = "inject" /\ batch = <<Return(typed[i].nth)>>

USE DEF loopVars, clientVars, replayVars, ptyVars, traceVars, localVars, statVars,
        socketVars, childVars, deskVars, hostVars, envVars, vars

-----------------------------------------------------------------------------
(***************************************************************************)
(* Which steps have to do with input.                                      *)
(***************************************************************************)
\* The steps in which a connection, or what was heard from it, changes.
ClientStep ==
  \/ HearHello \/ HearResize \/ HearKey \/ HearBad \/ HearEnd
  \/ FlushFails \/ SyncSize \/ PublishOutput
  \/ \E c \in Client : VisitErr(c) \/ VisitOther(c) \/ Accept(c) \/ Connect(c) \/ Say(c)

LEMMA ClientSteps ==
  ASSUME [Next]_vars
  PROVE  \/ ClientStep
         \/ /\ UNCHANGED <<conn, inputOpen, ready, said, heard>>
            /\ pc' = "input" => pc = "input" /\ cur' = cur
<1> DEFINE Other == /\ UNCHANGED <<conn, inputOpen, ready, said, heard>>
                    /\ pc' = "input" => pc = "input" /\ cur' = cur
<1> SUFFICES ClientStep \/ Other
  OBVIOUS
<1>1. StartTick \/ LeaveLoop \/ Finish => Other
  BY DEF StartTick, LeaveLoop, Finish
<1>2. ServeAdd \/ ServeClear \/ ServeOther \/ ServeNext => Other
  BY DEF ServeAdd, ServeClear, ServeOther, ServeNext, Serve
<1>3. Inject \/ Injected \/ InjectFails \/ CtlDrained \/ Poll \/ ClientsVisited => Other
  BY DEF Inject, Type, Injected, InjectFails, CtlDrained, Poll, ClientsVisited
<1>4. HearNothing \/ Flush \/ NoneWaiting \/ KeepSize => Other
  BY DEF HearNothing, Flush, NoneWaiting, KeepSize
<1>5. ReadStdin \/ SkipStdin \/ LocalKey \/ LocalDetach \/ LocalDone => Other
  BY DEF ReadStdin, SkipStdin, LocalKey, Type, LocalDetach, LocalDone
<1>6. ReadPty \/ SkipPty \/ Evict \/ SessionError => Other
  BY DEF ReadPty, SkipPty, EndTick, Evict, SessionError
<1>7. ASSUME NEW c \in Client, HangUp(c) PROVE Other
  BY <1>7 DEF HangUp
<1>8. ChildWrites \/ ChildReads \/ ChildExits \/ ResizeTerminal => Other
  BY DEF ChildWrites, ChildReads, ChildExits, ResizeTerminal
<1>9. Press \/ Ask \/ Stop \/ UNCHANGED vars => Other
  BY DEF Press, Ask, Stop
<1> HIDE DEF Other
<1> QED BY <1>1, <1>2, <1>3, <1>4, <1>5, <1>6, <1>7, <1>8, <1>9
       DEF Next, HostStep, EnvStep, Over, ClientStep

\* The steps in which something is typed, queued or taken in hand.
DeskStep ==
  \/ ServeAdd \/ ServeClear \/ ServeOther \/ ServeNext \/ Inject \/ Injected \/ InjectFails
  \/ HearKey \/ ReadStdin \/ LocalKey \/ LocalDetach \/ Press \/ Ask

deskState == <<typed, batch, queue, lost, served, asked, keyed, keysRead>>

LEMMA DeskSteps ==
  ASSUME [Next]_vars
  PROVE  \/ DeskStep
         \/ /\ UNCHANGED deskState
            /\ pc' = "local" => pc = "local"
            /\ pc' = "inject" <=> pc = "inject"
<1> DEFINE Other == /\ UNCHANGED deskState
                    /\ pc' = "local" => pc = "local"
                    /\ pc' = "inject" <=> pc = "inject"
<1> SUFFICES DeskStep \/ Other
  OBVIOUS
<1> USE DEF deskState
<1>1. StartTick \/ LeaveLoop \/ Finish => Other
  BY DEF StartTick, LeaveLoop, Finish
<1>2. CtlDrained \/ Poll \/ ClientsVisited => Other
  BY DEF CtlDrained, Poll, ClientsVisited
<1>3. ASSUME NEW c \in Client PROVE VisitErr(c) \/ VisitOther(c) \/ Accept(c) => Other
  BY DEF VisitErr, VisitOther, Visit, Accept
<1>4. HearHello \/ HearResize \/ HearBad \/ HearEnd => Other
  BY DEF HearHello, HearResize, HearBad, HearEnd, Hear, StopListening
<1>5. HearNothing \/ Flush \/ FlushFails \/ NoneWaiting \/ KeepSize => Other
  BY DEF HearNothing, Flush, FlushFails, NoneWaiting, KeepSize
<1>6. SyncSize \/ SkipStdin \/ LocalDone => Other
  BY DEF SyncSize, SkipStdin, LocalDone
<1>7. ReadPty \/ SkipPty \/ Evict \/ PublishOutput => Other
  BY DEF ReadPty, SkipPty, EndTick, Evict, PublishOutput
<1>8. SessionError => Other
  BY DEF SessionError
<1>9. ASSUME NEW c \in Client PROVE Connect(c) \/ Say(c) \/ HangUp(c) => Other
  BY DEF Connect, Say, HangUp
<1>10. ChildWrites \/ ChildReads \/ ChildExits \/ ResizeTerminal \/ Stop => Other
  BY DEF ChildWrites, ChildReads, ChildExits, ResizeTerminal, Stop
<1>11. UNCHANGED vars => Other
  OBVIOUS
<1> HIDE DEF Other
<1> QED BY <1>1, <1>2, <1>3, <1>4, <1>5, <1>6, <1>7, <1>8, <1>9, <1>10, <1>11
       DEF Next, HostStep, EnvStep, Over, DeskStep

-----------------------------------------------------------------------------
(***************************************************************************)
(* Who is listened to.                                                     *)
(***************************************************************************)
\* What was said stays said.
LEMMA SaidStays ==
  ASSUME TypeOK, NEW c \in Client, Say(c), NEW d \in Client
  PROVE  /\ Len(said'[d]) \in Nat /\ Len(said'[d]) >= Len(said[d])
         /\ DOMAIN said[d] = 1..Len(said[d])
         /\ \A n \in DOMAIN said[d] : said'[d][n] = said[d][n]
         /\ \A n \in DOMAIN said[d] : Refused(d, n)' <=> Refused(d, n)
<1>1. PICK t \in Following(said[c], Script) : said' = [said EXCEPT ![c] = Append(@, t)]
  BY DEF Say
<1>2. said[c] \in Seq(Token) /\ said[d] \in Seq(Token) /\ t \in Token
  <2>1. said[c] \in Seq(Token) /\ said[d] \in Seq(Token)
    BY DEF TypeOK, InputTypes
  <2> QED BY <2>1, InputAssumption DEF Following
<1>3. said'[d] = said[d] \/ said'[d] = Append(said[d], t)
  BY <1>1 DEF TypeOK, InputTypes
<1>4. /\ Len(said'[d]) \in Nat /\ Len(said'[d]) >= Len(said[d])
      /\ DOMAIN said[d] = 1..Len(said[d])
      /\ \A n \in DOMAIN said[d] : said'[d][n] = said[d][n]
  BY <1>2, <1>3, AppendProperties
<1>5. \A n \in DOMAIN said[d] : n \in Nat /\ \A m \in 1..(n - 1) : m \in DOMAIN said[d]
  BY <1>4, <1>2, LenProperties
<1> QED BY <1>4, <1>5 DEF Refused

\* Whoever is let go is not listened to any more, and the others are as before.
LEMMA WithoutListening ==
  ASSUME TypeOK, Listening, NEW gone \in SUBSET Client, Without(gone),
         UNCHANGED <<said, heard>>, pc' # "input"
  PROVE  Listening'
<1>1. ASSUME NEW c \in Client
      PROVE  /\ heard'[c] <= Len(said'[c])
             /\ conn'[c] \in {"idle", "waiting"} => heard'[c] = 0 /\ ~ready'[c]
             /\ inputOpen'[c] =>
                  /\ conn'[c] = "member"
                  /\ \A n \in 1..heard'[c] : ~Refused(c, n)'
                  /\ ready'[c] <=> \E n \in 1..heard'[c] : said'[c][n].op = "hello"
  <2>1. /\ said' = said /\ heard' = heard
        /\ conn'[c] = IF c \in gone THEN "gone" ELSE conn[c]
        /\ inputOpen'[c] <=> inputOpen[c] /\ c \notin gone
        /\ ready'[c] <=> ready[c] /\ c \notin gone
    BY DEF Without
  <2>2. \A n : Refused(c, n)' <=> Refused(c, n)
    BY <2>1 DEF Refused
  <2> QED BY <2>1, <2>2 DEF Listening
<1> QED BY <1>1 DEF Listening

\* One more token was heard from cur, and it was allowed where it stands.
LEMMA AllowedListening ==
  ASSUME TypeOK, Listening, NEW op, Hear(op), inputOpen[cur],
         UNCHANGED <<pc, conn, inputOpen>>,
         op \in {"hello", "resize", "key"},
         IF op = "hello" THEN ready' = [ready EXCEPT ![cur] = TRUE]
         ELSE ready[cur] /\ UNCHANGED ready
  PROVE  Listening'
<1> DEFINE k == heard[cur] + 1
<1>1. cur \in Client /\ heard[cur] \in Nat /\ k \in Nat /\ k <= Len(said[cur])
  BY DEF TypeOK, PlaceOK, Members, InputTypes, Hear, Unheard
<1>2. said[cur][k].op = op /\ said' = said /\ cur' = cur
      /\ heard' = [heard EXCEPT ![cur] = k]
  BY DEF Hear
<1>3. heard \in [Client -> Nat] /\ ready \in [Client -> BOOLEAN]
  BY DEF TypeOK, ClientTypes, InputTypes
<1>4. heard'[cur] = k /\ \A c \in Client \ {cur} : heard'[c] = heard[c] /\ ready'[c] = ready[c]
  BY <1>1, <1>2, <1>3
<1>5. conn[cur] = "member"
  BY <1>1 DEF Listening
<1>6. \A n \in 1..k : ~Refused(cur, n)
  <2>1. \A n \in 1..heard[cur] : ~Refused(cur, n)
    BY <1>1 DEF Listening
  <2>2. ~Refused(cur, k)
    <3>1. op # "hello" => \E m \in 1..heard[cur] : said[cur][m].op = "hello"
      BY <1>1 DEF Listening
    <3> QED BY <1>1, <1>2, <3>1 DEF Refused
  <2> QED BY <1>1, <2>1, <2>2
<1>7. ready'[cur] /\ \E n \in 1..k : said[cur][n].op = "hello"
  <2>1. CASE op = "hello"
    BY <1>1, <1>2, <1>3, <2>1
  <2>2. CASE op # "hello"
    <3>1. \E m \in 1..heard[cur] : said[cur][m].op = "hello"
      BY <1>1, <2>2 DEF Listening
    <3> QED BY <1>1, <2>2, <3>1
  <2> QED BY <2>1, <2>2
<1> HIDE DEF k
<1>8. ASSUME NEW c \in Client
      PROVE  /\ heard'[c] <= Len(said'[c])
             /\ conn'[c] \in {"idle", "waiting"} => heard'[c] = 0 /\ ~ready'[c]
             /\ inputOpen'[c] =>
                  /\ conn'[c] = "member"
                  /\ \A n \in 1..heard'[c] : ~Refused(c, n)'
                  /\ ready'[c] <=> \E n \in 1..heard'[c] : said'[c][n].op = "hello"
  <2>1. \A n : Refused(c, n)' <=> Refused(c, n)
    BY <1>2 DEF Refused
  <2>2. CASE c = cur
    BY <1>1, <1>2, <1>4, <1>5, <1>6, <1>7, <2>1, <2>2
  <2>3. CASE c # cur
    BY <1>2, <1>4, <2>1, <2>3 DEF Listening
  <2> QED BY <2>2, <2>3
<1> QED BY <1>2, <1>8 DEF Listening

\* One more token was heard from cur, and it was the last.
LEMMA RefusedListening ==
  ASSUME TypeOK, Listening, NEW op, Hear(op), StopListening, UNCHANGED <<conn, ready>>
  PROVE  Listening'
<1>1. cur \in Client /\ heard[cur] \in Nat /\ heard[cur] + 1 <= Len(said[cur])
  BY DEF TypeOK, PlaceOK, Members, InputTypes, Hear, Unheard
<1>2. /\ said' = said /\ heard' = [heard EXCEPT ![cur] = heard[cur] + 1]
      /\ inputOpen' = [inputOpen EXCEPT ![cur] = FALSE] /\ pc' = "flush"
  BY DEF Hear, StopListening
<1>3. heard \in [Client -> Nat] /\ inputOpen \in [Client -> BOOLEAN]
  BY DEF TypeOK, ClientTypes, InputTypes
<1>4. conn[cur] = "member"
  BY DEF TypeOK, PlaceOK, Members, Hear
<1> QED BY <1>1, <1>2, <1>3, <1>4 DEF Listening, Refused

\* Every step leaves it so.
LEMMA ListeningKept ==
  ASSUME TypeOK, Listening, [Next]_vars
  PROVE  Listening'
<1>0. pc = "input" => cur \in Client /\ inputOpen[cur] /\ conn[cur] = "member"
  BY DEF TypeOK, PlaceOK, Members, Listening
<1>1. CASE HearHello
  <2>1. /\ Hear("hello") /\ ready' = [ready EXCEPT ![cur] = TRUE]
        /\ UNCHANGED <<pc, conn, inputOpen>>
    BY <1>1 DEF HearHello, Hear
  <2> QED BY <1>0, <2>1, AllowedListening DEF Hear
<1>2. CASE HearResize
  <2>1. Hear("resize") /\ UNCHANGED <<conn, ready>>
    BY <1>2 DEF HearResize, Hear
  <2>2. (ready[cur] /\ UNCHANGED <<pc, inputOpen>>) \/ StopListening
    BY <1>2 DEF HearResize
  <2> QED BY <1>0, <2>1, <2>2, AllowedListening, RefusedListening DEF Hear
<1>3. CASE HearKey
  <2>1. Hear("key") /\ UNCHANGED <<conn, ready>>
    BY <1>3 DEF HearKey, Hear
  <2>2. (ready[cur] /\ UNCHANGED <<pc, inputOpen>>) \/ StopListening
    BY <1>3 DEF HearKey
  <2> QED BY <1>0, <2>1, <2>2, AllowedListening, RefusedListening DEF Hear
<1>4. CASE HearBad
  <2>1. Hear("bad") /\ StopListening /\ UNCHANGED <<conn, ready>>
    BY <1>4 DEF HearBad, Hear
  <2> QED BY <2>1, RefusedListening
<1>5. CASE HearEnd
  <2>1. /\ UNCHANGED <<conn, ready, said, heard>> /\ pc' = "flush"
        /\ inputOpen' = [inputOpen EXCEPT ![cur] = FALSE]
    BY <1>5 DEF HearEnd, StopListening
  <2>2. \A c \in Client : \A n \in 1..heard[c] : Refused(c, n)' <=> Refused(c, n)
    BY <2>1 DEF Refused
  <2>3. \A c \in Client : inputOpen'[c] => inputOpen[c]
    BY <2>1 DEF TypeOK, ClientTypes
  <2> QED BY <2>1, <2>2, <2>3 DEF Listening
<1>6. CASE FlushFails
  <2>1. Without({cur}) /\ {cur} \in SUBSET Client /\ UNCHANGED <<said, heard>> /\ pc' # "input"
    BY <1>6 DEF FlushFails, Disconnect, TypeOK, PlaceOK, Members
  <2> QED BY <2>1, WithoutListening
<1>7. CASE SyncSize \/ PublishOutput
  <2>1. /\ \E f : Broadcast(f)
        /\ UNCHANGED <<said, heard>> /\ pc' # "input"
    BY <1>7 DEF SyncSize, PublishOutput, EndTick
  <2>2. \E gone \in SUBSET Client : Without(gone)
    BY <2>1 DEF Broadcast, Overfull, Members
  <2> QED BY <2>1, <2>2, WithoutListening
<1>8. ASSUME NEW c \in Client, VisitErr(c)
      PROVE  Listening'
  <2>1. Without({c}) /\ {c} \in SUBSET Client /\ UNCHANGED <<said, heard>> /\ pc' # "input"
    BY <1>8 DEF VisitErr, Visit, Disconnect
  <2> QED BY <2>1, WithoutListening
<1>9. ASSUME NEW c \in Client, VisitOther(c)
      PROVE  Listening'
  <2>1. /\ UNCHANGED <<conn, inputOpen, ready, said, heard>>
        /\ pc' = "input" => inputOpen'[cur']
    BY <1>9 DEF VisitOther, Visit, ToRead
  <2> QED BY <2>1 DEF Listening, Refused
<1>10. ASSUME NEW c \in Client, Accept(c)
       PROVE  Listening'
  <2>1. /\ conn' = [conn EXCEPT ![c] = "member"] /\ conn[c] = "waiting"
        /\ inputOpen' = [inputOpen EXCEPT ![c] = TRUE]
        /\ UNCHANGED <<ready, said, heard>> /\ pc' # "input"
    BY <1>10 DEF Accept
  <2>2. heard[c] = 0 /\ ~ready[c]
    BY <2>1 DEF Listening
  <2> QED BY <2>1, <2>2 DEF Listening, Refused, TypeOK, ClientTypes
<1>11. ASSUME NEW c \in Client, Connect(c)
       PROVE  Listening'
  <2>1. /\ conn' = [conn EXCEPT ![c] = "waiting"] /\ conn[c] = "idle"
        /\ UNCHANGED <<inputOpen, ready, said, heard, pc, cur>>
    BY <1>11 DEF Connect
  <2>2. \A d \in Client : \A n \in 1..heard[d] : Refused(d, n)' <=> Refused(d, n)
    BY <2>1 DEF Refused
  <2>3. \A d \in Client : inputOpen'[d] => inputOpen[d]
    BY <2>1 DEF TypeOK, ClientTypes
  <2> QED BY <2>1, <2>2, <2>3 DEF Listening
<1>12. ASSUME NEW c \in Client, Say(c)
       PROVE  Listening'
  <2>1. UNCHANGED <<conn, inputOpen, ready, heard, pc, cur>>
    BY <1>12 DEF Say
  <2>2. ASSUME NEW d \in Client
        PROVE  /\ heard'[d] <= Len(said'[d])
               /\ conn'[d] \in {"idle", "waiting"} => heard'[d] = 0 /\ ~ready'[d]
               /\ inputOpen'[d] =>
                    /\ conn'[d] = "member"
                    /\ \A n \in 1..heard'[d] : ~Refused(d, n)'
                    /\ ready'[d] <=> \E n \in 1..heard'[d] : said'[d][n].op = "hello"
    <3>1. heard[d] \in Nat /\ Len(said[d]) \in Nat /\ Len(said'[d]) \in Nat
      BY LenProperties, <1>12, SaidStays DEF TypeOK, InputTypes
    <3>2. heard[d] <= Len(said[d])
      BY DEF Listening
    <3>3. \A n \in 1..heard[d] : n \in DOMAIN said[d]
      BY <3>1, <3>2, <1>12, SaidStays
    <3>4. /\ Len(said'[d]) >= Len(said[d])
          /\ \A n \in 1..heard[d] : said'[d][n] = said[d][n] /\ (Refused(d, n)' <=> Refused(d, n))
      BY <3>3, <1>12, SaidStays
    <3> QED BY <2>1, <3>1, <3>2, <3>4 DEF Listening
  <2> QED BY <2>1, <2>2 DEF Listening
<1>13. CASE /\ UNCHANGED <<conn, inputOpen, ready, said, heard>>
            /\ pc' = "input" => pc = "input" /\ cur' = cur
  BY <1>13 DEF Listening, Refused
<1> QED BY <1>1, <1>2, <1>3, <1>4, <1>5, <1>6, <1>7, <1>8, <1>9, <1>10, <1>11, <1>12, <1>13,
           ClientSteps DEF ClientStep

-----------------------------------------------------------------------------
(***************************************************************************)
(* Who is admitted.                                                        *)
(***************************************************************************)
\* What is typed is behind everything typed before.
LEMMA TypedGrows ==
  ASSUME TypeOK, NEW from \in Source, NEW nth \in Nat, Type(from, nth)
  PROVE  /\ Len(typed) \in Nat /\ DOMAIN typed = 1..Len(typed)
         /\ Len(typed') = Len(typed) + 1 /\ DOMAIN typed' = 1..(Len(typed) + 1)
         /\ \A i \in DOMAIN typed : typed'[i] = typed[i]
         /\ typed'[Len(typed) + 1] = [from |-> from, nth |-> nth]
<1>1. [from |-> from, nth |-> nth] \in Typing /\ typed \in Seq(Typing)
  BY DEF TypeOK, InputTypes, Typing
<1> QED BY <1>1, AppendProperties, LenProperties DEF Type

\* What was typed has a source and a number.
LEMMA TypedIs ==
  ASSUME TypeOK, NEW i \in DOMAIN typed
  PROVE  typed[i].from \in Source /\ typed[i].nth \in Nat /\ i \in 1..Len(typed)
<1>1. typed \in Seq(Typing)
  BY DEF TypeOK, InputTypes
<1>2. typed[i] \in Typing
  BY <1>1, ElementOfSeq, LenProperties
<1> QED BY <1>1, <1>2, LenProperties DEF Typing

\* The steps in which something is said, heard or typed.
LEMMA AdmissionSteps ==
  ASSUME [Next]_vars
  PROVE  \/ HearHello \/ HearResize \/ HearKey \/ HearBad \/ Inject \/ LocalKey
         \/ \E c \in Client : Say(c)
         \/ UNCHANGED <<typed, said, heard>>
<1>1. HearEnd \/ FlushFails \/ SyncSize \/ PublishOutput => UNCHANGED <<typed, said, heard>>
  BY DEF HearEnd, FlushFails, SyncSize, PublishOutput
<1>2. \A c \in Client :
        VisitErr(c) \/ VisitOther(c) \/ Accept(c) \/ Connect(c) => UNCHANGED <<typed, said, heard>>
  BY DEF VisitErr, VisitOther, Visit, Accept, Connect
<1>3. ServeAdd \/ ServeClear \/ ServeOther \/ ServeNext => UNCHANGED typed
  BY DEF ServeAdd, ServeClear, ServeOther, ServeNext, Serve
<1>4. Injected \/ InjectFails \/ ReadStdin \/ LocalDetach \/ Press \/ Ask => UNCHANGED typed
  BY DEF Injected, InjectFails, ReadStdin, LocalDetach, Press, Ask
<1> QED BY <1>1, <1>2, <1>3, <1>4, ClientSteps, DeskSteps DEF ClientStep, DeskStep, deskState

\* What is injected comes from the queue.
LEMMA InjectedIs ==
  ASSUME TypeOK, pc = "inject", batch # <<>>
  PROVE  Head(batch).from \in {"queue", "cr"} /\ Head(batch).nth \in Nat
<1>1. batch \in Seq([from : {"queue", "cr"}, nth : Nat])
  BY DEF TypeOK, PlaceOK
<1>2. Head(batch) \in [from : {"queue", "cr"}, nth : Nat]
  BY <1>1, HeadTailProperties
<1> QED BY <1>2

\* It was typed for client c that its token n was a key.
TypedFor(c, n) == \E i \in DOMAIN typed : typed[i] = [from |-> c, nth |-> n]

\* What is typed by somebody else says nothing of the clients.
LEMMA OthersType ==
  ASSUME TypeOK, Admission, NEW from \in {"host", "queue", "cr"}, NEW nth \in Nat,
         Type(from, nth), UNCHANGED <<said, heard>>
  PROVE  TypedWasHeard' /\ InputAdmitted'
<1>1. from \in Source /\ from \notin Client
  BY InputAssumption DEF Source
<1>2. /\ Len(typed) \in Nat /\ DOMAIN typed = 1..Len(typed)
      /\ DOMAIN typed' = 1..(Len(typed) + 1)
      /\ \A i \in DOMAIN typed : typed'[i] = typed[i]
      /\ typed'[Len(typed) + 1] = [from |-> from, nth |-> nth]
  BY <1>1, TypedGrows
<1>3. TypedWasHeard'
  BY <1>1, <1>2 DEF Admission, TypedWasHeard
<1>4. \A c \in Client : \A n : TypedFor(c, n)' <=> TypedFor(c, n)
  <2> SUFFICES ASSUME NEW c \in Client, NEW n
               PROVE  TypedFor(c, n)' <=> TypedFor(c, n)
    OBVIOUS
  <2>1. [from |-> from, nth |-> nth] # [from |-> c, nth |-> n]
    BY <1>1
  <2> QED BY <1>2, <2>1 DEF TypedFor
<1>5. \A c \in Client : \A n : Admitted(c, n)' <=> Admitted(c, n)
  BY DEF Admitted, Refused
<1> QED BY <1>3, <1>4, <1>5 DEF Admission, InputAdmitted, TypedFor

\* One more token was heard, and it was typed if it was an admitted key.
LEMMA HeardAdmission ==
  ASSUME TypeOK, Admission, NEW op, Hear(op),
         NEW by \in Client, NEW k \in Nat, by = cur, k = heard[cur] + 1,
         IF op = "key" /\ ready[by] THEN Type(by, k) ELSE UNCHANGED typed
  PROVE  TypedWasHeard' /\ InputAdmitted'
<1>1. /\ heard[by] \in Nat /\ k - 1 = heard[by]
      /\ inputOpen[by] /\ ready[by] \in BOOLEAN
      /\ said' = said /\ said[by][k].op = op
      /\ heard \in [Client -> Nat] /\ heard' = [heard EXCEPT ![by] = k]
  BY HeardToken DEF Hear, TypeOK, ClientTypes, InputTypes, Admission, Listening
<1>2. \A c \in Client : \A n : Refused(c, n)' <=> Refused(c, n)
  BY <1>1 DEF Refused
<1>3. IF op = "key" /\ ready[by] THEN Type(by, k) ELSE typed' = typed
  OBVIOUS
<1>4. heard'[by] = k /\ \A c \in Client : heard[c] \in Nat /\ 1..heard[c] \subseteq 1..heard'[c]
  BY <1>1
<1>5. \A n : TypedFor(by, n) => n \in 1..heard[by]
  BY <1>1 DEF TypedFor, Admission, TypedWasHeard
<1>6. Admitted(by, k)' <=> op = "key" /\ ready[by]
  <2>1. \A n \in 1..(k - 1) : ~Refused(by, n)
    BY <1>1 DEF Admission, Listening
  <2>2. ready[by] <=> \E n \in 1..(k - 1) : said[by][n].op = "hello"
    BY <1>1 DEF Admission, Listening
  <2>3. ASSUME op = "key"
        PROVE  Refused(by, k) <=> ~ready[by]
    <3>1. Refused(by, k) <=> \A n \in 1..(k - 1) : said[by][n].op # "hello"
      BY <1>1, <2>3 DEF Refused
    <3> QED BY <2>2, <3>1
  <2>4. Admitted(by, k)' <=> op = "key" /\ \A m \in 1..k : ~Refused(by, m)
    BY <1>1, <1>2, <1>4 DEF Admitted
  <2>5. (\A m \in 1..k : ~Refused(by, m)) <=> ~Refused(by, k)
    BY <1>1, <2>1
  <2> QED BY <1>1, <2>3, <2>4, <2>5
<1>7. ASSUME NEW c \in Client, NEW n \in Nat, ~(c = by /\ n = k)
      PROVE  Admitted(c, n)' <=> Admitted(c, n)
  <2>1. n <= heard'[c] <=> n <= heard[c]
    BY <1>1, <1>7
  <2> QED BY <1>1, <1>2, <2>1 DEF Admitted
<1>8. CASE op = "key" /\ ready[by]
  <2>1. by \in Source /\ Type(by, k)
    BY <1>1, <1>3, <1>8 DEF Source
  <2>2. /\ Len(typed) \in Nat /\ DOMAIN typed = 1..Len(typed)
        /\ DOMAIN typed' = 1..(Len(typed) + 1)
        /\ \A i \in DOMAIN typed : typed'[i] = typed[i]
        /\ typed'[Len(typed) + 1] = [from |-> by, nth |-> k]
    BY <1>1, <2>1, TypedGrows
  <2>3. TypedWasHeard'
    <3>1. ASSUME NEW i \in DOMAIN typed', typed'[i].from \in Client
          PROVE  typed'[i].nth \in 1..heard'[typed'[i].from]
      <4>1. CASE i \in DOMAIN typed
        BY <1>4, <2>2, <3>1, <4>1 DEF Admission, TypedWasHeard
      <4>2. CASE i = Len(typed) + 1
        BY <1>1, <1>4, <2>2, <4>2
      <4> QED BY <2>2, <4>1, <4>2
    <3> QED BY <3>1 DEF TypedWasHeard
  <2>4. TypedFor(by, k)'
    BY <2>2 DEF TypedFor
  <2>5. ASSUME NEW c \in Client, NEW n \in Nat, ~(c = by /\ n = k)
        PROVE  TypedFor(c, n)' <=> TypedFor(c, n)
    <3>1. [from |-> by, nth |-> k] # [from |-> c, nth |-> n]
      BY <2>5
    <3> QED BY <2>2, <3>1 DEF TypedFor
  <2>6. ASSUME NEW c \in Client, NEW n \in DOMAIN said'[c]
        PROVE  Admitted(c, n)' <=> TypedFor(c, n)'
    <3>1. n \in Nat /\ n \in DOMAIN said[c]
      BY <1>1, <2>6, LenProperties DEF TypeOK, InputTypes
    <3>2. Admitted(c, n) <=> TypedFor(c, n)
      BY <3>1 DEF Admission, InputAdmitted, TypedFor
    <3>3. CASE c = by /\ n = k
      BY <1>6, <1>8, <2>4, <3>3
    <3>4. CASE ~(c = by /\ n = k)
      BY <1>7, <2>5, <3>1, <3>2, <3>4
    <3> QED BY <3>3, <3>4
  <2> QED BY <2>3, <2>6 DEF InputAdmitted, TypedFor
<1>9. CASE ~(op = "key" /\ ready[by])
  <2>1. typed' = typed
    BY <1>3, <1>9
  <2>2. TypedWasHeard'
    BY <1>4, <2>1 DEF Admission, TypedWasHeard
  <2>3. ASSUME NEW c \in Client, NEW n \in DOMAIN said'[c]
        PROVE  Admitted(c, n)' <=> TypedFor(c, n)'
    <3>1. n \in Nat /\ n \in DOMAIN said[c]
      BY <1>1, <2>3, LenProperties DEF TypeOK, InputTypes
    <3>2. Admitted(c, n) <=> TypedFor(c, n)
      BY <3>1 DEF Admission, InputAdmitted, TypedFor
    <3>3. TypedFor(c, n)' <=> TypedFor(c, n)
      BY <2>1 DEF TypedFor
    <3>4. CASE c = by /\ n = k
      <4>1. ~TypedFor(by, k)
        BY <1>1, <1>5
      <4> QED BY <1>6, <1>9, <3>3, <3>4, <4>1
    <3>5. CASE ~(c = by /\ n = k)
      BY <1>7, <3>1, <3>2, <3>3, <3>5
    <3> QED BY <3>4, <3>5
  <2> QED BY <2>2, <2>3 DEF InputAdmitted, TypedFor
<1> QED BY <1>8, <1>9

\* What was only said is neither admitted nor typed.
LEMMA SaidAdmission ==
  ASSUME TypeOK, Admission, NEW by \in Client, Say(by)
  PROVE  TypedWasHeard' /\ InputAdmitted'
<1>1. UNCHANGED <<heard, typed>>
  BY DEF Say
<1>2. TypedWasHeard'
  BY <1>1 DEF Admission, TypedWasHeard
<1>3. ASSUME NEW c \in Client, NEW n \in DOMAIN said'[c]
      PROVE  Admitted(c, n)' <=> TypedFor(c, n)'
  <2>1. heard[c] \in Nat /\ DOMAIN said[c] = 1..Len(said[c]) /\ Len(said[c]) \in Nat
    BY LenProperties DEF TypeOK, InputTypes
  <2>2. heard[c] <= Len(said[c])
    BY DEF Admission, Listening
  <2>3. TypedFor(c, n)' <=> TypedFor(c, n)
    BY <1>1 DEF TypedFor
  <2>4. CASE n \in DOMAIN said[c]
    <3>1. Admitted(c, n) <=> TypedFor(c, n)
      BY <2>4 DEF Admission, InputAdmitted, TypedFor
    <3>2. \A m \in 1..n : m \in DOMAIN said[c]
      BY <2>1, <2>4
    <3>3. said'[c][n] = said[c][n] /\ \A m \in 1..n : Refused(c, m)' <=> Refused(c, m)
      BY <2>4, <3>2, SaidStays
    <3>4. Admitted(c, n)' <=> Admitted(c, n)
      BY <1>1, <3>3 DEF Admitted
    <3> QED BY <2>3, <3>1, <3>4
  <2>5. CASE n \notin DOMAIN said[c]
    <3>1. n \in Nat \ {0}
      BY <1>3, SaidStays, LenProperties
    <3>2. ~(n <= heard[c])
      BY <2>1, <2>2, <2>5, <3>1
    <3>3. ~Admitted(c, n)'
      BY <1>1, <3>2 DEF Admitted
    <3>4. ~TypedFor(c, n)
      BY <2>1, <3>1, <3>2 DEF TypedFor, Admission, TypedWasHeard
    <3> QED BY <2>3, <3>3, <3>4
  <2> QED BY <2>4, <2>5
<1> QED BY <1>2, <1>3 DEF InputAdmitted, TypedFor
\* Nothing is said or typed at the start ...
LEMMA AdmissionAtFirst == Init => Admission
BY DEF Init, Admission, Listening, TypedWasHeard, InputAdmitted, Admitted

\* ... and every step keeps what is typed admitted.
LEMMA AdmissionStays ==
  ASSUME TypeOK, Admission, [Next]_vars
  PROVE  Admission'
<1>1. Listening'
  BY ListeningKept DEF Admission
<1>2. CASE HearHello \/ HearResize \/ HearBad
  <2>1. cur \in Client /\ heard[cur] + 1 \in Nat
    BY <1>2, HeardToken DEF HearHello, HearResize, HearBad
  <2>2. UNCHANGED typed /\ (Hear("hello") \/ Hear("resize") \/ Hear("bad"))
    BY <1>2 DEF HearHello, HearResize, HearBad
  <2> QED BY <1>1, <2>1, <2>2, HeardAdmission DEF Admission
<1>3. CASE HearKey
  <2>1. cur \in Client /\ heard[cur] + 1 \in Nat
    BY <1>3, HeardToken DEF HearKey
  <2>2. Hear("key") /\ IF ready[cur] THEN Type(cur, heard[cur] + 1) ELSE UNCHANGED typed
    BY <1>3 DEF HearKey
  <2> QED BY <1>1, <2>1, <2>2, HeardAdmission DEF Admission
<1>4. CASE Inject
  <2>1. /\ batch # <<>> /\ pc = "inject" /\ Type(Head(batch).from, Head(batch).nth)
        /\ UNCHANGED <<said, heard>>
    BY <1>4 DEF Inject
  <2>2. Head(batch).from \in {"queue", "cr"} /\ Head(batch).nth \in Nat
    BY <2>1, InjectedIs
  <2> QED BY <1>1, <2>1, <2>2, OthersType DEF Admission
<1>5. CASE LocalKey
  <2>1. /\ batch # <<>> /\ Type("host", Head(batch).nth) /\ UNCHANGED <<said, heard>>
    BY <1>5 DEF LocalKey
  <2>2. Head(batch).nth \in Nat
    BY <2>1, BatchHead
  <2> QED BY <1>1, <2>1, <2>2, OthersType DEF Admission
<1>6. ASSUME NEW c \in Client, Say(c)
      PROVE  Admission'
  BY <1>1, <1>6, SaidAdmission DEF Admission
<1>7. CASE UNCHANGED <<typed, said, heard>>
  BY <1>1, <1>7 DEF Admission, TypedWasHeard, InputAdmitted, Admitted, Refused
<1> QED BY <1>2, <1>3, <1>4, <1>5, <1>6, <1>7, AdmissionSteps

\* drain_input_to_pty admits exactly a client's keys between its hello and its
\* first violation: whatever the interleaving, however many clients, all of
\* those that were read were typed, and nothing else of theirs.
THEOREM AdmissionKept == Spec => []InputAdmitted
<1>1. TypeOK /\ Admission /\ [Next]_vars => Admission'
  BY AdmissionStays
<1>2. Admission => InputAdmitted
  BY DEF Admission
<1> QED BY <1>1, <1>2, AdmissionAtFirst, TypeCorrect, PTL DEF Spec

-----------------------------------------------------------------------------
(***************************************************************************)
(* In which order things are typed, and what becomes of a queued text.     *)
(***************************************************************************)
Order ==
  LocalOrder /\ QueueOrder /\ Injecting /\ ReturnOwed /\ InputInOrder /\ QueueConserved

\* Taking the first of one or of two.
LEMMA OneOrTwo ==
  ASSUME NEW a, NEW b
  PROVE  /\ Head(<<a, b>>) = a /\ Tail(<<a, b>>) = <<b>>
         /\ Head(<<a>>) = a /\ Tail(<<a>>) = <<>>
OBVIOUS

\* What is being injected is a text with its return, or the return alone.
LEMMA InjectedBatch ==
  ASSUME Injecting, pc = "inject", batch # <<>>, served \in Nat
  PROVE  \E n \in 0..served :
           /\ \A j \in DOMAIN queue : n < queue[j]
           /\ \A i \in DOMAIN typed : typed[i].from = "cr" => typed[i].nth < n
           /\ Head(batch).nth = n
           /\ \/ /\ batch = <<QueuedText(n), Return(n)>> /\ Head(batch) = QueuedText(n)
                 /\ Tail(batch) = <<Return(n)>>
                 /\ \A i \in DOMAIN typed : typed[i].from = "queue" => typed[i].nth < n
              \/ /\ batch = <<Return(n)>> /\ Head(batch) = Return(n) /\ Tail(batch) = <<>>
                 /\ \A i \in DOMAIN typed : typed[i].from = "queue" => typed[i].nth <= n
<1>1. PICK n \in 0..served :
        /\ \A j \in DOMAIN queue : n < queue[j]
        /\ \A i \in DOMAIN typed : typed[i].from = "cr" => typed[i].nth < n
        /\ \/ /\ batch = <<QueuedText(n), Return(n)>>
              /\ \A i \in DOMAIN typed : typed[i].from = "queue" => typed[i].nth < n
           \/ /\ batch = <<Return(n)>>
              /\ \A i \in DOMAIN typed : typed[i].from = "queue" => typed[i].nth <= n
  BY DEF Injecting
<1>2. QueuedText(n).nth = n /\ Return(n).nth = n
  BY DEF QueuedText, Return
<1>3. /\ Head(<<QueuedText(n), Return(n)>>) = QueuedText(n)
      /\ Tail(<<QueuedText(n), Return(n)>>) = <<Return(n)>>
      /\ Head(<<Return(n)>>) = Return(n) /\ Tail(<<Return(n)>>) = <<>>
  BY OneOrTwo
<1>4. CASE batch = <<QueuedText(n), Return(n)>>
           /\ \A i \in DOMAIN typed : typed[i].from = "queue" => typed[i].nth < n
  <2>1. /\ Head(batch) = QueuedText(n) /\ Tail(batch) = <<Return(n)>>
        /\ Head(batch).nth = n
    BY <1>2, <1>3, <1>4
  <2> QED BY <1>1, <1>4, <2>1
<1>5. CASE batch = <<Return(n)>>
           /\ \A i \in DOMAIN typed : typed[i].from = "queue" => typed[i].nth <= n
  <2>1. Head(batch) = Return(n) /\ Tail(batch) = <<>> /\ Head(batch).nth = n
    BY <1>2, <1>3, <1>5
  <2> QED BY <1>1, <1>5, <2>1
<1> QED BY <1>1, <1>4, <1>5

\* Where nothing of all this happens it stays as it is.
LEMMA OrderStays ==
  ASSUME Order, UNCHANGED deskState,
         pc' = "local" => pc = "local", pc' = "inject" <=> pc = "inject"
  PROVE  Order'
<1> USE DEF deskState
<1>1. LocalOrder'
  BY DEF Order, LocalOrder
<1>2. QueueOrder'
  BY DEF Order, QueueOrder
<1>3. Injecting'
  BY DEF Order, Injecting
<1>4. ReturnOwed'
  BY DEF Order, ReturnOwed
<1>5. InputInOrder' /\ QueueConserved'
  BY DEF Order, InputInOrder, QueueConserved
<1> QED BY <1>1, <1>2, <1>3, <1>4, <1>5 DEF Order

\* A key is typed: a client's or the local user's, behind those typed before,
\* and never into a text that is being injected.
LEMMA KeyTyped ==
  ASSUME TypeOK, Order, NEW by \in Client \cup {"host"}, NEW nth \in Nat, Type(by, nth),
         \A i \in DOMAIN typed : typed[i].from = by => typed[i].nth < nth,
         pc # "inject", pc' # "inject", UNCHANGED <<queue, lost, served, asked>>,
         \A i \in DOMAIN batch' : batch'[i].from # "cr"
  PROVE  QueueOrder' /\ Injecting' /\ ReturnOwed' /\ InputInOrder' /\ QueueConserved'
<1> DEFINE key == [from |-> by, nth |-> nth]
<1>1. by \in Source /\ by \notin {"queue", "cr"}
  BY InputAssumption DEF Source
<1>2. /\ Len(typed) \in Nat /\ DOMAIN typed = 1..Len(typed)
      /\ Len(typed') = Len(typed) + 1 /\ DOMAIN typed' = 1..(Len(typed) + 1)
      /\ \A i \in DOMAIN typed : typed'[i] = typed[i]
      /\ typed'[Len(typed) + 1] = key /\ key.from = by /\ key.nth = nth
  BY <1>1, TypedGrows
<1> HIDE DEF key
<1>3. QueueOrder'
  BY <1>1, <1>2 DEF Order, QueueOrder
<1>4. Injecting'
  BY DEF Injecting
<1>5. ReturnOwed'
  BY <1>1, <1>2 DEF Order, ReturnOwed
<1>6. InputInOrder'
  BY <1>2 DEF Order, InputInOrder
<1>7. QueueConserved'
  <2>1. \A i \in DOMAIN batch : \A n : batch[i] # [from |-> "cr", nth |-> n]
    BY DEF Order, Injecting
  <2>2. ASSUME NEW n \in 1..served, asked[n] = "add"
        PROVE  \/ \E i \in DOMAIN queue : queue[i] = n
               \/ \E i \in DOMAIN typed' : typed'[i] = [from |-> "cr", nth |-> n]
               \/ n \in lost
               \/ \E m \in (n + 1)..served : asked[m] = "clear"
    <3>1. (\E i \in DOMAIN typed : typed[i] = [from |-> "cr", nth |-> n])
            => \E i \in DOMAIN typed' : typed'[i] = [from |-> "cr", nth |-> n]
      BY <1>2
    <3> QED BY <2>1, <2>2, <3>1 DEF Order, QueueConserved
  <2> QED BY <2>2 DEF QueueConserved
<1> QED BY <1>3, <1>4, <1>5, <1>6, <1>7

\* A client's key.
LEMMA HearKeyOrder ==
  ASSUME TypeOK, Admission, Order, HearKey
  PROVE  Order'
<1>1. /\ cur \in Client /\ heard[cur] + 1 \in Nat /\ heard[cur] \in Nat
      /\ pc = "input" /\ pc' # "inject" /\ pc' # "local"
      /\ UNCHANGED <<batch, queue, lost, served, asked, keyed, keysRead>>
  BY HeardToken DEF HearKey, Hear, StopListening, TypeOK, InputTypes
<1>2. CASE UNCHANGED typed
  BY <1>1, <1>2, OrderStays DEF deskState
<1>3. CASE Type(cur, heard[cur] + 1)
  <2>1. \A i \in DOMAIN typed : typed[i].from = cur => typed[i].nth < heard[cur] + 1
    BY <1>1 DEF Admission, TypedWasHeard
  <2>2. \A i \in DOMAIN batch' : batch'[i].from # "cr"
    BY <1>1 DEF Order, Injecting
  <2>3. QueueOrder' /\ Injecting' /\ ReturnOwed' /\ InputInOrder' /\ QueueConserved'
    BY <1>1, <1>3, <2>1, <2>2, KeyTyped
  <2>4. LocalOrder'
    <3>1. cur # "host" /\ cur \in Source
      BY <1>1, InputAssumption DEF Source
    <3>2. /\ DOMAIN typed = 1..Len(typed) /\ DOMAIN typed' = 1..(Len(typed) + 1)
          /\ \A i \in DOMAIN typed : typed'[i] = typed[i]
          /\ typed'[Len(typed) + 1] = [from |-> cur, nth |-> heard[cur] + 1]
          /\ Len(typed) \in Nat
      BY <1>1, <1>3, <3>1, TypedGrows
    <3> QED BY <1>1, <3>1, <3>2 DEF Order, LocalOrder
  <2> QED BY <2>3, <2>4 DEF Order
<1> QED BY <1>2, <1>3 DEF HearKey

\* A local key, and the batch behind it.
LEMMA LocalKeyOrder ==
  ASSUME TypeOK, Order, LocalKey
  PROVE  Order'
<1>1. /\ pc = "local" /\ pc' = "local" /\ batch # <<>> /\ batch' = Tail(batch)
      /\ Type("host", Head(batch).nth)
      /\ UNCHANGED <<queue, lost, served, asked, keyed, keysRead>>
  BY DEF LocalKey
<1>2. /\ batch \in Seq(Batched) /\ Len(batch) \in Nat \ {0} /\ DOMAIN batch = 1..Len(batch)
      /\ Head(batch) = batch[1] /\ batch[1].nth \in Nat
      /\ DOMAIN batch' = 1..(Len(batch) - 1)
      /\ \A i \in DOMAIN batch' : batch'[i] = batch[i + 1]
  BY <1>1, HeadTailProperties, LenProperties, EmptySeq, BatchHead DEF TypeOK, LocalTypes
<1>3. \A i \in DOMAIN typed : typed[i].from = "host" => typed[i].nth < batch[1].nth
  BY <1>1, <1>2 DEF Order, LocalOrder
<1>4. \A i \in DOMAIN batch' : batch'[i].from # "cr"
  BY <1>1, <1>2 DEF Order, Injecting
<1>5. QueueOrder' /\ Injecting' /\ ReturnOwed' /\ InputInOrder' /\ QueueConserved'
  BY <1>1, <1>2, <1>3, <1>4, KeyTyped
<1>6. /\ DOMAIN typed = 1..Len(typed) /\ DOMAIN typed' = 1..(Len(typed) + 1)
      /\ \A i \in DOMAIN typed : typed'[i] = typed[i]
      /\ typed'[Len(typed) + 1] = [from |-> "host", nth |-> batch[1].nth]
      /\ Len(typed) \in Nat
  BY <1>1, <1>2, TypedGrows DEF Source
<1>7. LocalOrder'
  <2>1. /\ \A i \in DOMAIN batch : batch[i].nth <= keysRead
        /\ \A i, j \in DOMAIN batch : i < j => batch[i].nth < batch[j].nth
        /\ \A i \in DOMAIN typed, j \in DOMAIN batch :
             typed[i].from = "host" => typed[i].nth < batch[j].nth
    BY <1>1 DEF Order, LocalOrder
  <2>2. \A j \in DOMAIN batch' : j + 1 \in DOMAIN batch /\ batch[1].nth < batch[j + 1].nth
    BY <1>2, <2>1
  <2>3. /\ \A i \in DOMAIN batch' : batch'[i].nth <= keysRead
        /\ \A i, j \in DOMAIN batch' : i < j => batch'[i].nth < batch'[j].nth
    BY <1>2, <2>1, SMTT(30)
  <2>4. \A i \in DOMAIN typed', j \in DOMAIN batch' :
          typed'[i].from = "host" => typed'[i].nth < batch'[j].nth
    BY <1>2, <1>6, <2>1, <2>2
  <2>5. \A i \in DOMAIN typed' : typed'[i].from = "host" => typed'[i].nth <= keysRead
    BY <1>2, <1>6, <2>1 DEF Order, LocalOrder
  <2> QED BY <1>1, <2>3, <2>4, <2>5 DEF Order, LocalOrder
<1> QED BY <1>5, <1>7 DEF Order

\* A queued text, or the carriage return behind it.
LEMMA InjectOrder ==
  ASSUME TypeOK, Order, Inject
  PROVE  Order'
<1>1. /\ pc = "inject" /\ pc' = "inject" /\ batch # <<>> /\ batch' = Tail(batch)
      /\ Type(Head(batch).from, Head(batch).nth)
      /\ UNCHANGED <<queue, lost, served, asked, keyed, keysRead>>
      /\ served \in Nat
  BY DEF Inject, TypeOK, LocalTypes
<1>2. PICK n \in 0..served :
        /\ \A j \in DOMAIN queue : n < queue[j]
        /\ \A i \in DOMAIN typed : typed[i].from = "cr" => typed[i].nth < n
        /\ Head(batch).nth = n
        /\ \/ /\ batch = <<QueuedText(n), Return(n)>> /\ Head(batch) = QueuedText(n)
              /\ Tail(batch) = <<Return(n)>>
              /\ \A i \in DOMAIN typed : typed[i].from = "queue" => typed[i].nth < n
           \/ /\ batch = <<Return(n)>> /\ Head(batch) = Return(n) /\ Tail(batch) = <<>>
              /\ \A i \in DOMAIN typed : typed[i].from = "queue" => typed[i].nth <= n
  BY <1>1, InjectedBatch DEF Order
<1>3. Head(batch).from \in Source /\ n \in Nat
  BY <1>1, BatchHead
<1>4. /\ Len(typed) \in Nat /\ DOMAIN typed = 1..Len(typed)
      /\ Len(typed') = Len(typed) + 1 /\ DOMAIN typed' = 1..(Len(typed) + 1)
      /\ \A i \in DOMAIN typed : typed'[i] = typed[i]
      /\ typed'[Len(typed) + 1] = [from |-> Head(batch).from, nth |-> n]
  BY <1>1, <1>2, <1>3, TypedGrows
<1>5. Head(batch).from \in {"queue", "cr"}
  BY <1>1, InjectedIs
<1>6. LocalOrder'
  BY <1>1, <1>4, <1>5 DEF Order, LocalOrder
<1>7. QueueOrder'
  BY <1>1, <1>2, <1>4 DEF Order, QueueOrder
<1>8. CASE batch = <<QueuedText(n), Return(n)>> /\ Head(batch) = QueuedText(n)
           /\ Tail(batch) = <<Return(n)>>
           /\ \A i \in DOMAIN typed : typed[i].from = "queue" => typed[i].nth < n
  <2>1. typed'[Len(typed) + 1].from = "queue" /\ typed'[Len(typed) + 1].nth = n
        /\ batch' = <<Return(n)>>
    BY <1>1, <1>4, <1>8 DEF QueuedText
  <2>2. Injecting'
    <3>1. \A i \in DOMAIN typed' : typed'[i].from = "cr" => typed'[i].nth < n
      BY <1>2, <1>4, <2>1
    <3>2. \A i \in DOMAIN typed' : typed'[i].from = "queue" => typed'[i].nth <= n
      BY <1>3, <1>4, <1>8, <2>1, TypedIs
    <3> QED BY <1>1, <1>2, <2>1, <3>1, <3>2 DEF Injecting, Return
  <2>3. \A i \in DOMAIN typed : typed[i].from = "queue" /\ typed[i].nth \notin lost =>
          i < Len(typed) /\ typed[i + 1] = Return(typed[i].nth)
    <3>1. batch # <<Return(typed[Len(typed)].nth)>>
      BY <1>8
    <3>2. ASSUME NEW i \in DOMAIN typed, typed[i].from = "queue", typed[i].nth \notin lost
          PROVE  i < Len(typed) /\ typed[i + 1] = Return(typed[i].nth)
      <4>1. i < Len(typed) => typed[i + 1] = Return(typed[i].nth)
        BY <3>2 DEF Order, ReturnOwed
      <4>2. ~(i < Len(typed)) => batch = <<Return(typed[i].nth)>>
        BY <3>2 DEF Order, ReturnOwed
      <4>3. i \in 1..Len(typed)
        BY <1>4
      <4>4. i < Len(typed) \/ i = Len(typed)
        BY <1>4, <4>3
      <4> QED BY <3>1, <4>1, <4>2, <4>4
    <3> QED BY <3>2
  <2>4. ReturnOwed'
    <3>1. ASSUME NEW i \in DOMAIN typed, typed'[i].from = "queue", typed'[i].nth \notin lost
          PROVE  i < Len(typed') /\ typed'[i + 1] = Return(typed'[i].nth)
      <4>1. typed'[i] = typed[i] /\ i < Len(typed) /\ typed[i + 1] = Return(typed[i].nth)
        BY <1>4, <2>3, <3>1
      <4>2. i \in Nat /\ i + 1 \in DOMAIN typed
        BY <1>4, <4>1
      <4> QED BY <1>4, <4>1, <4>2
    <3>2. \A i \in DOMAIN typed' : i \in DOMAIN typed \/ i = Len(typed')
      BY <1>4
    <3>3. ~(Len(typed') < Len(typed')) /\ batch' = <<Return(typed'[Len(typed')].nth)>>
      BY <1>4, <2>1
    <3> QED BY <1>1, <3>1, <3>2, <3>3 DEF ReturnOwed
  <2>5. InputInOrder'
    BY <1>4, <1>8, <2>1 DEF Order, InputInOrder
  <2>6. QueueConserved'
    <3>1. ASSUME NEW m \in 1..served, asked[m] = "add"
          PROVE  \/ \E i \in DOMAIN queue : queue[i] = m
                 \/ \E i \in DOMAIN batch' : batch'[i] = [from |-> "cr", nth |-> m]
                 \/ \E i \in DOMAIN typed' : typed'[i] = [from |-> "cr", nth |-> m]
                 \/ m \in lost
                 \/ \E k \in (m + 1)..served : asked[k] = "clear"
      <4>1. (\E i \in DOMAIN typed : typed[i] = [from |-> "cr", nth |-> m])
              => \E i \in DOMAIN typed' : typed'[i] = [from |-> "cr", nth |-> m]
        BY <1>4
      <4>2. (\E i \in DOMAIN batch : batch[i] = [from |-> "cr", nth |-> m])
              => \E i \in DOMAIN batch' : batch'[i] = [from |-> "cr", nth |-> m]
        <5> SUFFICES ASSUME NEW i \in DOMAIN batch, batch[i] = [from |-> "cr", nth |-> m]
                     PROVE  batch'[1] = [from |-> "cr", nth |-> m] /\ 1 \in DOMAIN batch'
          OBVIOUS
        <5>1. i \in {1, 2} /\ batch[1] = QueuedText(n) /\ batch[2] = Return(n)
          BY <1>8
        <5>2. QueuedText(n) # [from |-> "cr", nth |-> m]
          BY DEF QueuedText
        <5> QED BY <2>1, <5>1, <5>2
      <4> QED BY <3>1, <4>1, <4>2 DEF Order, QueueConserved
    <3> QED BY <1>1, <3>1 DEF QueueConserved
  <2> QED BY <1>6, <1>7, <2>2, <2>4, <2>5, <2>6 DEF Order
<1>9. CASE batch = <<Return(n)>> /\ Head(batch) = Return(n) /\ Tail(batch) = <<>>
           /\ \A i \in DOMAIN typed : typed[i].from = "queue" => typed[i].nth <= n
  <2>1. typed'[Len(typed) + 1].from = "cr" /\ typed'[Len(typed) + 1].nth = n
        /\ typed'[Len(typed) + 1] = Return(n) /\ batch' = <<>>
    BY <1>1, <1>4, <1>9 DEF Return
  <2>2. Injecting'
    BY <1>1, <2>1 DEF Injecting
  <2>3. ReturnOwed'
    <3>1. ASSUME NEW i \in DOMAIN typed, typed[i].from = "queue", typed[i].nth \notin lost
          PROVE  i < Len(typed') /\ typed'[i + 1] = Return(typed[i].nth)
      <4>1. CASE i < Len(typed)
        BY <1>4, <3>1, <4>1 DEF Order, ReturnOwed
      <4>2. CASE i = Len(typed)
        <5>1. batch = <<Return(typed[i].nth)>>
          BY <3>1, <4>2 DEF Order, ReturnOwed
        <5>2. Return(typed[i].nth) = Return(n)
          BY <1>9, <5>1
        <5> QED BY <1>4, <2>1, <4>2, <5>2
      <4> QED BY <1>4, <4>1, <4>2
    <3> QED BY <1>1, <1>4, <2>1, <3>1 DEF ReturnOwed
  <2>4. InputInOrder'
    BY <1>2, <1>4, <2>1 DEF Order, InputInOrder
  <2>5. QueueConserved'
    <3>1. ASSUME NEW m \in 1..served, asked[m] = "add"
          PROVE  \/ \E i \in DOMAIN queue : queue[i] = m
                 \/ \E i \in DOMAIN typed' : typed'[i] = [from |-> "cr", nth |-> m]
                 \/ m \in lost
                 \/ \E k \in (m + 1)..served : asked[k] = "clear"
      <4>1. (\E i \in DOMAIN typed : typed[i] = [from |-> "cr", nth |-> m])
              => \E i \in DOMAIN typed' : typed'[i] = [from |-> "cr", nth |-> m]
        BY <1>4
      <4>2. (\E i \in DOMAIN batch : batch[i] = [from |-> "cr", nth |-> m])
              => \E i \in DOMAIN typed' : typed'[i] = [from |-> "cr", nth |-> m]
        <5> SUFFICES ASSUME NEW i \in DOMAIN batch, batch[i] = [from |-> "cr", nth |-> m]
                     PROVE  typed'[Len(typed) + 1] = [from |-> "cr", nth |-> m]
          BY <1>4
        <5>1. batch[i] = Return(n)
          BY <1>9
        <5> QED BY <2>1, <5>1
      <4> QED BY <3>1, <4>1, <4>2 DEF Order, QueueConserved
    <3> QED BY <1>1, <3>1 DEF QueueConserved
  <2> QED BY <1>6, <1>7, <2>2, <2>3, <2>4, <2>5 DEF Order
<1> QED BY <1>2, <1>8, <1>9

\* An injection that ends, with or without success.
LEMMA InjectedOrder ==
  ASSUME TypeOK, Order, Injected \/ InjectFails
  PROVE  Order'
<1>1. /\ pc = "inject" /\ pc' = "ctl"
      /\ UNCHANGED <<typed, queue, served, asked, keyed, keysRead>> /\ served \in Nat
      /\ batch' = <<>>
  BY DEF Injected, InjectFails, TypeOK, LocalTypes
<1>2. LocalOrder' /\ QueueOrder' /\ Injecting' /\ InputInOrder'
  BY <1>1 DEF Order, LocalOrder, QueueOrder, Injecting, InputInOrder
<1>3. CASE Injected
  <2>1. batch = <<>> /\ lost' = lost
    BY <1>3 DEF Injected
  <2>2. ReturnOwed'
    BY <1>1, <2>1 DEF Order, ReturnOwed
  <2>3. QueueConserved'
    BY <1>1, <2>1 DEF Order, QueueConserved
  <2> QED BY <1>2, <2>2, <2>3 DEF Order
<1>4. CASE InjectFails
  <2>1. batch # <<>> /\ lost' = lost \cup {Head(batch).nth}
    BY <1>4 DEF InjectFails
  <2>2. PICK n \in 0..served :
          /\ Head(batch).nth = n
          /\ batch = <<QueuedText(n), Return(n)>> \/ batch = <<Return(n)>>
    BY <1>1, <2>1, InjectedBatch DEF Order
  <2>3. ReturnOwed'
    <3>1. ASSUME NEW i \in DOMAIN typed, typed[i].from = "queue", typed[i].nth \notin lost'
          PROVE  i < Len(typed) /\ typed[i + 1] = Return(typed[i].nth)
      <4>1. ~(i < Len(typed)) => batch = <<Return(typed[i].nth)>>
        BY <2>1, <3>1 DEF Order, ReturnOwed
      <4>2. i < Len(typed) => typed[i + 1] = Return(typed[i].nth)
        BY <2>1, <3>1 DEF Order, ReturnOwed
      <4>3. batch = <<Return(typed[i].nth)>> => Head(batch).nth = typed[i].nth
        BY OneOrTwo DEF Return
      <4> QED BY <2>1, <3>1, <4>1, <4>2, <4>3
    <3> QED BY <1>1, <3>1 DEF ReturnOwed
  <2>4. \A i \in DOMAIN batch : \A m : batch[i] = [from |-> "cr", nth |-> m] => m = n
    BY <2>2 DEF QueuedText, Return
  <2>5. QueueConserved'
    BY <1>1, <2>1, <2>2, <2>4 DEF Order, QueueConserved
  <2> QED BY <1>2, <2>3, <2>5 DEF Order
<1> QED BY <1>3, <1>4

\* A text is added, with the number of the request.
LEMMA ServeAddOrder ==
  ASSUME TypeOK, Order, ServeAdd
  PROVE  Order'
<1>1. /\ pc = "ctl" /\ pc' = "ctl" /\ served' = served + 1 /\ served < Len(asked)
      /\ queue' = Append(queue, served + 1)
      /\ UNCHANGED <<typed, batch, lost, asked, keyed, keysRead>> /\ served \in Nat
  BY DEF ServeAdd, Serve, TypeOK, LocalTypes
<1>2. /\ queue \in Seq(Nat) /\ asked \in Seq(Request) /\ Len(asked) \in Nat
  BY LenProperties DEF TypeOK, InputTypes, LocalTypes
<1>3. /\ Len(queue) \in Nat /\ DOMAIN queue = 1..Len(queue)
      /\ DOMAIN queue' = 1..(Len(queue) + 1)
      /\ \A i \in DOMAIN queue : queue'[i] = queue[i] /\ queue[i] \in Nat
      /\ queue'[Len(queue) + 1] = served + 1
  BY <1>1, <1>2, AppendProperties, LenProperties, ElementOfSeq
<1>4. LocalOrder'
  BY <1>1 DEF Order, LocalOrder
<1>5. QueueOrder'
  <2>1. /\ \A i \in DOMAIN queue' : queue'[i] <= served'
        /\ \A i, j \in DOMAIN queue' : i < j => queue'[i] < queue'[j]
    BY <1>1, <1>3 DEF Order, QueueOrder
  <2>2. \A i \in DOMAIN typed' : typed'[i].from \in {"queue", "cr"} =>
          /\ typed'[i].nth <= served'
          /\ \A j \in DOMAIN queue' : typed'[i].nth < queue'[j]
    BY <1>1, <1>3, TypedIs DEF Order, QueueOrder
  <2> QED BY <1>1, <1>2, <2>1, <2>2 DEF QueueOrder
<1>6. Injecting' /\ ReturnOwed' /\ InputInOrder'
  BY <1>1 DEF Order, Injecting, ReturnOwed, InputInOrder
<1>7. QueueConserved'
  <2>1. \E i \in DOMAIN queue' : queue'[i] = served + 1
    BY <1>3
  <2>2. ASSUME NEW n \in 1..served, asked[n] = "add"
        PROVE  \/ \E i \in DOMAIN queue' : queue'[i] = n
               \/ \E i \in DOMAIN batch : batch[i] = [from |-> "cr", nth |-> n]
               \/ \E i \in DOMAIN typed : typed[i] = [from |-> "cr", nth |-> n]
               \/ n \in lost
               \/ \E m \in (n + 1)..(served + 1) : asked[m] = "clear"
    <3>1. (\E i \in DOMAIN queue : queue[i] = n) => \E i \in DOMAIN queue' : queue'[i] = n
      BY <1>3
    <3>2. (n + 1)..served \subseteq (n + 1)..(served + 1)
      BY <1>1
    <3> QED BY <2>2, <3>1, <3>2 DEF Order, QueueConserved
  <2> QED BY <1>1, <2>1, <2>2 DEF QueueConserved
<1> QED BY <1>4, <1>5, <1>6, <1>7 DEF Order

\* The queue is emptied, or only looked at.
LEMMA ServeOthersOrder ==
  ASSUME TypeOK, Order, ServeClear \/ ServeOther
  PROVE  Order'
<1>1. /\ pc = "ctl" /\ pc' = "ctl" /\ served' = served + 1 /\ served < Len(asked)
      /\ UNCHANGED <<typed, batch, lost, asked, keyed, keysRead>> /\ served \in Nat
      /\ asked[served + 1] # "add"
      /\ queue' = queue \/ (queue' = <<>> /\ asked[served + 1] = "clear")
  BY DEF ServeClear, ServeOther, Serve, Requested, TypeOK, LocalTypes
<1>2. Len(asked) \in Nat
  BY LenProperties DEF TypeOK, LocalTypes
<1>3. LocalOrder' /\ Injecting' /\ ReturnOwed' /\ InputInOrder'
  BY <1>1 DEF Order, LocalOrder, Injecting, ReturnOwed, InputInOrder
<1>4. QueueOrder'
  <2>1. \A i \in DOMAIN queue' : i \in DOMAIN queue /\ queue'[i] = queue[i]
    BY <1>1
  <2>2. \A i \in DOMAIN queue : queue[i] \in Nat
    BY LenProperties, ElementOfSeq DEF TypeOK, InputTypes
  <2> QED BY <1>1, <1>2, <2>1, <2>2, TypedIs DEF Order, QueueOrder
<1>5. QueueConserved'
  <2>1. ASSUME NEW n \in 1..served, asked[n] = "add"
        PROVE  \/ \E i \in DOMAIN queue' : queue'[i] = n
               \/ \E i \in DOMAIN batch : batch[i] = [from |-> "cr", nth |-> n]
               \/ \E i \in DOMAIN typed : typed[i] = [from |-> "cr", nth |-> n]
               \/ n \in lost
               \/ \E m \in (n + 1)..(served + 1) : asked[m] = "clear"
    <3>1. (n + 1)..served \subseteq (n + 1)..(served + 1) /\ served + 1 \in (n + 1)..(served + 1)
      BY <1>1
    <3> QED BY <1>1, <2>1, <3>1 DEF Order, QueueConserved
  <2>2. \A n \in 1..(served + 1) : n \in 1..served \/ n = served + 1
    BY <1>1
  <2> QED BY <1>1, <2>1, <2>2 DEF QueueConserved
<1> QED BY <1>3, <1>4, <1>5 DEF Order

\* The text at the head leaves the queue and is taken in hand.
LEMMA ServeNextOrder ==
  ASSUME TypeOK, Order, ServeNext
  PROVE  Order'
<1>1. /\ pc = "ctl" /\ served' = served + 1 /\ served < Len(asked) /\ served \in Nat
      /\ UNCHANGED <<typed, lost, asked, keyed, keysRead>>
      /\ asked[served + 1] # "add" /\ Len(asked) \in Nat
      /\ \A n \in 1..(served + 1) : n \in 1..served \/ n = served + 1
      /\ \A n \in 1..served : (n + 1)..served \subseteq (n + 1)..(served + 1)
  BY LenProperties DEF ServeNext, Serve, Requested, TypeOK, LocalTypes
<1>2. CASE queue = <<>>
  <2>1. UNCHANGED <<pc, batch, queue>>
    BY <1>2 DEF ServeNext
  <2>2. LocalOrder' /\ Injecting' /\ ReturnOwed' /\ InputInOrder'
    BY <1>1, <2>1 DEF Order, LocalOrder, Injecting, ReturnOwed, InputInOrder
  <2>3. QueueOrder'
    <3>1. \A i \in DOMAIN typed' : typed'[i].from \in {"queue", "cr"} => typed'[i].nth <= served'
      BY <1>1, TypedIs DEF Order, QueueOrder
    <3> QED BY <1>1, <1>2, <2>1, <3>1 DEF QueueOrder
  <2>4. QueueConserved'
    BY <1>1, <2>1 DEF Order, QueueConserved
  <2> QED BY <2>2, <2>3, <2>4 DEF Order
<1>3. CASE queue # <<>>
  <2> DEFINE n == queue[1]
  <2>1. /\ Head(queue) = n /\ n \in Nat /\ DOMAIN queue = 1..Len(queue)
        /\ Len(queue) \in Nat /\ 1 \in DOMAIN queue
        /\ \A i \in DOMAIN queue : queue[i] \in Nat
        /\ DOMAIN Tail(queue) = 1..(Len(queue) - 1)
        /\ \A i \in 1..(Len(queue) - 1) : Tail(queue)[i] = queue[i + 1]
    BY <1>3, HeadTailProperties, LenProperties, EmptySeq, ElementOfSeq DEF TypeOK, InputTypes
  <2> HIDE DEF n
  <2>2. /\ queue' = Tail(queue) /\ batch' = <<QueuedText(n), Return(n)>> /\ pc' = "inject"
    BY <1>3, <2>1 DEF ServeNext, QueuedText, Return
  <2>3. /\ n \in 0..served
        /\ \A i \in DOMAIN queue' : queue'[i] = queue[i + 1] /\ i + 1 \in DOMAIN queue
                                    /\ queue'[i] <= served /\ queue'[i] \in Nat
                                    /\ n < queue'[i]
        /\ \A i \in DOMAIN typed : typed[i].from \in {"queue", "cr"} =>
             typed[i].nth < n /\ typed[i].nth <= served
    <3>1. n <= served
      BY <2>1 DEF Order, QueueOrder, n
    <3>2. \A i \in DOMAIN queue' : queue'[i] = queue[i + 1] /\ i + 1 \in DOMAIN queue /\ 1 < i + 1
      BY <2>1, <2>2
    <3>3. \A i \in DOMAIN queue' : queue'[i] <= served /\ queue'[i] \in Nat /\ n < queue'[i]
      BY <2>1, <3>2 DEF Order, QueueOrder, n
    <3>4. \A i \in DOMAIN typed : typed[i].from \in {"queue", "cr"} =>
            typed[i].nth < n /\ typed[i].nth <= served
      BY <2>1 DEF Order, QueueOrder, n
    <3> QED BY <1>1, <2>1, <3>1, <3>2, <3>3, <3>4
  <2>4. LocalOrder' /\ InputInOrder'
    BY <1>1, <2>2 DEF Order, LocalOrder, InputInOrder
  <2>5. ReturnOwed'
    BY <1>1, <2>2 DEF Order, ReturnOwed
  <2>6. Injecting'
    <3>1. n \in 0..served'
      BY <1>1, <2>3
    <3> QED BY <1>1, <2>2, <2>3, <3>1 DEF Injecting
  <2>7. QueueOrder'
    <3>1. \A i \in DOMAIN queue' : queue'[i] <= served'
      BY <1>1, <2>3
    <3>2. \A i, j \in DOMAIN queue' : i < j => queue'[i] < queue'[j]
      <4>1. \A i \in DOMAIN queue' : i \in Int /\ i + 1 \in DOMAIN queue
                                     /\ queue'[i] = queue[i + 1]
        BY <2>1, <2>2, <2>3
      <4>2. \A i, j \in DOMAIN queue : i < j => queue[i] < queue[j]
        BY DEF Order, QueueOrder
      <4> QED BY <4>1, <4>2
    <3>3. \A i \in DOMAIN typed' : typed'[i].from \in {"queue", "cr"} =>
            /\ typed'[i].nth <= served'
            /\ \A j \in DOMAIN queue' : typed'[i].nth < queue'[j]
      BY <1>1, <2>1, <2>3, TypedIs
    <3> QED BY <1>1, <3>1, <3>2, <3>3 DEF QueueOrder
  <2>8. QueueConserved'
    <3>1. ASSUME NEW m \in 1..served, asked[m] = "add"
          PROVE  \/ \E i \in DOMAIN queue' : queue'[i] = m
                 \/ \E i \in DOMAIN batch' : batch'[i] = [from |-> "cr", nth |-> m]
                 \/ \E i \in DOMAIN typed : typed[i] = [from |-> "cr", nth |-> m]
                 \/ m \in lost
                 \/ \E k \in (m + 1)..(served + 1) : asked[k] = "clear"
      <4>1. ASSUME NEW i \in DOMAIN queue, queue[i] = m
            PROVE  \/ \E j \in DOMAIN queue' : queue'[j] = m
                   \/ \E j \in DOMAIN batch' : batch'[j] = [from |-> "cr", nth |-> m]
        <5>1. CASE i = 1
          <6>1. 2 \in DOMAIN batch' /\ batch'[2] = Return(n) /\ n = m
            BY <2>2, <4>1, <5>1 DEF n
          <6> QED BY <6>1 DEF Return
        <5>2. CASE i # 1
          <6>1. i - 1 \in DOMAIN queue' /\ queue'[i - 1] = queue[i]
            BY <2>1, <2>2, <5>2
          <6> QED BY <4>1, <6>1
        <5> QED BY <5>1, <5>2
      <4>2. ~\E i \in DOMAIN batch : batch[i] = [from |-> "cr", nth |-> m]
        BY <1>1 DEF Order, Injecting
      <4> QED BY <1>1, <3>1, <4>1, <4>2 DEF Order, QueueConserved
    <3> QED BY <1>1, <3>1 DEF QueueConserved
  <2> QED BY <2>4, <2>5, <2>6, <2>7, <2>8 DEF Order
<1> QED BY <1>2, <1>3

\* Local input is read, or the rest of it is thrown away.
LEMMA LocalOrders ==
  ASSUME TypeOK, Order, ReadStdin \/ LocalDetach
  PROVE  Order'
<1>1. /\ pc \in {"stdin", "local"} /\ pc' # "inject"
      /\ UNCHANGED <<typed, queue, lost, served, asked, keyed>>
  BY DEF ReadStdin, LocalDetach
<1>2. /\ keyed \in Seq(LocalToken) /\ Len(keyed) \in Nat /\ keysRead \in Nat
      /\ \A i \in 1..Len(keyed) : keyed[i] \in LocalToken
  BY LenProperties, ElementOfSeq DEF TypeOK, LocalTypes
<1>3. \/ /\ keysRead < Len(keyed) /\ keysRead' = Len(keyed)
         /\ batch' = [i \in 1..(Len(keyed) - keysRead) |->
                        [from |-> keyed[keysRead + i], nth |-> keysRead + i]]
      \/ UNCHANGED <<batch, keysRead>> /\ pc' # "local"
      \/ batch' = <<>> /\ keysRead' = keysRead
  BY DEF ReadStdin, LocalDetach
<1>4. \A i \in DOMAIN batch' : batch'[i].from # "cr"
  <2>1. \A i \in DOMAIN batch : batch[i].from # "cr"
    BY <1>1 DEF Order, Injecting
  <2>2. ASSUME keysRead < Len(keyed), NEW i \in 1..(Len(keyed) - keysRead)
        PROVE  keysRead + i \in 1..Len(keyed) /\ keyed[keysRead + i] # "cr"
    <3>1. keysRead + i \in 1..Len(keyed)
      BY <1>2, <2>2
    <3>2. keyed[keysRead + i] \in LocalToken
      BY <1>2, <3>1
    <3> QED BY <3>1, <3>2 DEF LocalToken
  <2>3. CASE /\ keysRead < Len(keyed)
             /\ batch' = [i \in 1..(Len(keyed) - keysRead) |->
                            [from |-> keyed[keysRead + i], nth |-> keysRead + i]]
    BY <2>2, <2>3
  <2>4. CASE batch' = batch
    BY <2>1, <2>4
  <2>5. CASE batch' = <<>>
    BY <2>5
  <2> QED BY <1>3, <2>3, <2>4, <2>5
<1>5. QueueOrder' /\ Injecting' /\ ReturnOwed' /\ InputInOrder'
  BY <1>1, <1>4 DEF Order, QueueOrder, Injecting, ReturnOwed, InputInOrder
<1>6. QueueConserved'
  <2>1. \A i \in DOMAIN batch : \A n : batch[i] # [from |-> "cr", nth |-> n]
    BY <1>1 DEF Order, Injecting
  <2> QED BY <1>1, <2>1 DEF Order, QueueConserved
<1>7. LocalOrder'
  <2>1. /\ keysRead <= Len(keyed) /\ keysRead' <= Len(keyed) /\ keysRead <= keysRead'
        /\ \A i \in DOMAIN typed : typed[i].nth \in Nat
        /\ \A i \in DOMAIN typed : typed[i].from = "host" => typed[i].nth <= keysRead
    BY <1>2, <1>3, TypedIs DEF Order, LocalOrder
  <2>2. keysRead' \in Nat
    BY <1>2, <1>3
  <2>3. \A i \in DOMAIN typed : typed[i].from = "host" => typed[i].nth <= keysRead'
    BY <1>2, <2>1, <2>2
  <2>4. CASE /\ keysRead < Len(keyed) /\ keysRead' = Len(keyed)
             /\ batch' = [i \in 1..(Len(keyed) - keysRead) |->
                            [from |-> keyed[keysRead + i], nth |-> keysRead + i]]
    <3>1. \A i \in DOMAIN batch' : /\ i \in 1..(Len(keyed) - keysRead)
                                   /\ batch'[i].nth = keysRead + i
      BY <2>4
    <3>2. /\ \A i \in DOMAIN batch' : batch'[i].nth <= keysRead' /\ keysRead < batch'[i].nth
          /\ \A i, j \in DOMAIN batch' : i < j => batch'[i].nth < batch'[j].nth
      BY <1>2, <2>4, <3>1
    <3>3. \A i \in DOMAIN typed, j \in DOMAIN batch' :
            typed[i].from = "host" => typed[i].nth < batch'[j].nth
      <4> SUFFICES ASSUME NEW i \in DOMAIN typed, NEW j \in DOMAIN batch', typed[i].from = "host"
                   PROVE  typed[i].nth < batch'[j].nth
        OBVIOUS
      <4>1. typed[i].nth <= keysRead /\ keysRead < batch'[j].nth /\ batch'[j].nth = keysRead + j
            /\ j \in 1..(Len(keyed) - keysRead)
        BY <2>1, <3>1, <3>2
      <4> QED BY <1>2, <2>1, <4>1
    <3> QED BY <1>1, <2>1, <2>3, <3>2, <3>3 DEF LocalOrder
  <2>5. CASE UNCHANGED <<batch, keysRead>> /\ pc' # "local"
    BY <1>1, <2>1, <2>3, <2>5 DEF LocalOrder
  <2>6. CASE batch' = <<>> /\ keysRead' = keysRead
    BY <1>1, <2>1, <2>3, <2>6 DEF LocalOrder
  <2> QED BY <1>3, <2>4, <2>5, <2>6
<1> QED BY <1>5, <1>6, <1>7 DEF Order

\* What is asked or pressed is served or read later.
LEMMA OutsideOrder ==
  ASSUME TypeOK, Order, Press \/ Ask
  PROVE  Order'
<1>1. UNCHANGED <<pc, typed, batch, queue, lost, served, keysRead>>
  BY DEF Press, Ask
<1>2. /\ Len(keyed) \in Nat /\ Len(asked) \in Nat /\ keysRead \in Nat /\ served \in Nat
      /\ keyed \in Seq(LocalToken) /\ asked \in Seq(Request)
  BY LenProperties DEF TypeOK, LocalTypes
<1>3. Len(keyed') \in Nat /\ Len(keyed') >= Len(keyed)
  <2>1. keyed' = keyed \/ \E t \in LocalToken : keyed' = Append(keyed, t)
    BY InputAssumption DEF Press, Ask, Following
  <2> QED BY <1>2, <2>1, AppendProperties
<1>4. Len(asked') \in Nat /\ Len(asked') >= Len(asked)
      /\ \A i \in 1..Len(asked) : asked'[i] = asked[i]
  <2>1. asked' = asked \/ \E t \in Request : asked' = Append(asked, t)
    BY InputAssumption DEF Press, Ask, Following
  <2> QED BY <1>2, <2>1, AppendProperties
<1>5. LocalOrder' /\ QueueOrder' /\ Injecting' /\ ReturnOwed' /\ InputInOrder'
  BY <1>1, <1>2, <1>3, <1>4
     DEF Order, LocalOrder, QueueOrder, Injecting, ReturnOwed, InputInOrder
<1>6. QueueConserved'
  <2>1. served <= Len(asked)
    BY DEF Order, QueueOrder
  <2>2. \A n \in 1..served : asked'[n] = asked[n] /\ \A m \in (n + 1)..served : asked'[m] = asked[m]
    BY <1>2, <1>4, <2>1
  <2> QED BY <1>1, <2>2 DEF Order, QueueConserved
<1> QED BY <1>5, <1>6 DEF Order

\* Every step keeps the order.
LEMMA OrderKept ==
  ASSUME TypeOK, Admission, Order, [Next]_vars
  PROVE  Order'
BY DeskSteps, OrderStays, HearKeyOrder, LocalKeyOrder, InjectOrder, InjectedOrder,
   ServeAddOrder, ServeOthersOrder, ServeNextOrder, LocalOrders, OutsideOrder DEF DeskStep


\* Nothing is typed, read or queued at the start.
LEMMA OrderAtFirst == Init => Order
<1> SUFFICES ASSUME Init
             PROVE  Order
  OBVIOUS
<1> USE DEF Init
<1>1. LocalOrder /\ QueueOrder /\ Injecting
  BY DEF LocalOrder, QueueOrder, Injecting
<1>2. ReturnOwed /\ InputInOrder /\ QueueConserved
  BY DEF ReturnOwed, InputInOrder, QueueConserved
<1> QED BY <1>1, <1>2 DEF Order

\* Admission and order hold at all times.
LEMMA InputKeptInOrder == Spec => [](Admission /\ Order)
<1>1. Init => Admission /\ Order
  BY OrderAtFirst, AdmissionAtFirst
<1>2. TypeOK /\ (Admission /\ Order) /\ [Next]_vars => (Admission /\ Order)'
  BY AdmissionStays, OrderKept
<1> QED BY <1>1, <1>2, TypeCorrect, PTL DEF Spec

\* Keys, texts and returns reach the PTY in the order their sender sent them,
\* and once: clients in process_client_revents, the local user in
\* handle_stdin_revents and the queue in ctl all write through one loop, and
\* none of them repeats, skips or reverses what was read.
THEOREM OrderInPty == Spec => []InputInOrder
<1>1. Admission /\ Order => InputInOrder
  BY DEF Order
<1> QED BY <1>1, InputKeptInOrder, PTL

\* A queued text and its carriage return reach the PTY together: no client's
\* and no local key comes between them, whoever types while `ptyroom next` is
\* served, unless writing failed and the request was answered with an error.
THEOREM TextStaysWhole == Spec => []TextThenReturn
<1>1. Admission /\ Order => TextThenReturn
  <2> SUFFICES ASSUME Order, NEW i \in DOMAIN typed, typed[i].from = "queue",
                      typed[i].nth \notin lost
               PROVE  IF i < Len(typed) THEN typed[i + 1] = [from |-> "cr", nth |-> typed[i].nth]
                      ELSE batch # <<>>
    BY DEF TextThenReturn
  <2> QED BY DEF Order, ReturnOwed, Return
<1> QED BY <1>1, InputKeptInOrder, PTL

\* No queued text gets lost: between add, next, clear and a failed write, every
\* request to add is still accounted for.
THEOREM QueueAccounted == Spec => []QueueConserved
<1>1. Admission /\ Order => QueueConserved
  BY DEF Order
<1> QED BY <1>1, InputKeptInOrder, PTL

-----------------------------------------------------------------------------
(***************************************************************************)
(* The PTY fits every terminal while output is given out.                  *)
(***************************************************************************)
\* The session's size fits every size that is known.
LEMMA DesiredFits ==
  ASSUME TypeOK, NEW t \in KnownSizes
  PROVE  Fits(Desired, t)
<1> DEFINE A == {s[1] : s \in KnownSizes}
           B == {s[2] : s \in KnownSizes}
<1>1. KnownSizes \subseteq Size
  BY DEF TypeOK, ClientTypes, OutputTypes, KnownSizes, Members
<1>2. A \subseteq Nat /\ B \subseteq Nat /\ t[1] \in A /\ t[2] \in B
  BY <1>1, SizesAssumption DEF Size
<1>3. Desired = <<Least(A), Least(B)>>
  BY DEF Desired
<1> HIDE DEF A, B
<1>4. Least(A) <= t[1] /\ Least(B) <= t[2]
  BY <1>2, LeastInSet
<1> QED BY <1>3, <1>4 DEF Fits

Sized == {"stdin", "local", "pty", "evict"}

\* From the synchronisation to the end of the tick no size changes.
LEMMA SizedSteps ==
  ASSUME [Next]_vars, pc' \in Sized
  PROVE  \/ SyncSize \/ KeepSize
         \/ pc \in Sized /\ UNCHANGED <<current, hostSize, size>> /\ Members' = Members
<1> DEFINE Other == pc \in Sized /\ UNCHANGED <<current, hostSize, size>> /\ Members' = Members
<1> SUFFICES SyncSize \/ KeepSize \/ Other
  OBVIOUS
<1> USE DEF Sized, Members
<1>1. StartTick \/ LeaveLoop \/ Finish => Other
  BY DEF StartTick, LeaveLoop, Finish
<1>2. ServeAdd \/ ServeClear \/ ServeOther \/ ServeNext => Other
  BY DEF ServeAdd, ServeClear, ServeOther, ServeNext, Serve
<1>3. Inject \/ Injected \/ InjectFails \/ CtlDrained \/ Poll \/ ClientsVisited => Other
  BY DEF Inject, Injected, InjectFails, CtlDrained, Poll, ClientsVisited
<1>4. \A c \in Client : VisitErr(c) \/ VisitOther(c) \/ Accept(c) => Other
  BY DEF VisitErr, VisitOther, Visit, Accept
<1>5. HearHello \/ HearResize \/ HearKey => Other
  BY DEF HearHello, HearResize, HearKey, Hear, StopListening
<1>6. HearBad \/ HearNothing \/ HearEnd => Other
  BY DEF HearBad, HearNothing, HearEnd, Hear, StopListening
<1>7. Flush \/ FlushFails \/ NoneWaiting => Other
  BY DEF Flush, FlushFails, NoneWaiting
<1>8. ReadStdin \/ SkipStdin \/ LocalKey \/ LocalDetach \/ LocalDone => Other
  BY DEF ReadStdin, SkipStdin, LocalKey, LocalDetach, LocalDone
<1>9. ReadPty \/ SkipPty \/ Evict \/ PublishOutput \/ SessionError => Other
  BY DEF ReadPty, SkipPty, EndTick, Evict, PublishOutput, SessionError
<1>10. \A c \in Client : Say(c) \/ HangUp(c) => Other
  BY DEF Say, HangUp
<1>11. ASSUME NEW c \in Client, Connect(c) PROVE Other
  <2>1. /\ conn' = [conn EXCEPT ![c] = "waiting"] /\ conn[c] = "idle"
        /\ UNCHANGED <<pc, current, hostSize, size>>
    BY <1>11 DEF Connect
  <2> QED BY <2>1
<1>12. ChildWrites \/ ChildReads \/ ChildExits \/ ResizeTerminal => Other
  BY DEF ChildWrites, ChildReads, ChildExits, ResizeTerminal
<1>13. Press \/ Ask \/ Stop \/ UNCHANGED vars => Other
  BY DEF Press, Ask, Stop
<1> HIDE DEF Other
<1> QED BY <1>1, <1>2, <1>3, <1>4, <1>5, <1>6, <1>7, <1>8, <1>9, <1>10, <1>11, <1>12, <1>13
       DEF Next, HostStep, EnvStep, Over

\* After sync_canonical_size, and until the tick is over, the PTY is no larger
\* than any member's terminal nor than the host's own: a resize, a newcomer or
\* somebody who leaves in between waits for the next tick, and a client that
\* the broadcast of the size itself disconnects does not count any more.
THEOREM SizeFits == Spec => []FitsEverybody
<1>1. Init => FitsEverybody
  BY DEF Init, FitsEverybody
<1>2. TypeOK /\ FitsEverybody /\ [Next]_vars => FitsEverybody'
  <2> SUFFICES ASSUME TypeOK, FitsEverybody, [Next]_vars, pc' \in Sized
               PROVE  /\ Fits(current', hostSize')
                      /\ \A c \in Members' : Fits(current', size'[c])
    BY DEF FitsEverybody, Sized, Fits
  <2>1. Fits(Desired, hostSize) /\ \A c \in Members : Fits(Desired, size[c])
    <3>1. \A t \in KnownSizes : Fits(Desired, t)
      BY DesiredFits
    <3> QED BY <3>1 DEF KnownSizes, Fits
  <2>2. CASE SyncSize
    <3>1. current' = Desired /\ hostSize' = hostSize /\ Broadcast(SizeFrame(Desired))
      BY <2>2 DEF SyncSize
    <3>2. PICK gone \in SUBSET Client : Without(gone)
      BY <3>1 DEF Broadcast, Overfull, Members
    <3>3. \A c \in Members' : c \in Members /\ size'[c] = size[c]
      BY <3>2, WithoutTypes DEF Without, Members
    <3> QED BY <2>1, <3>1, <3>3
  <2>3. CASE KeepSize
    BY <2>1, <2>3 DEF KeepSize, SizeStale, Members
  <2>4. CASE pc \in Sized /\ UNCHANGED <<current, hostSize, size>> /\ Members' = Members
    BY <2>4 DEF FitsEverybody, Sized
  <2> QED BY <2>2, <2>3, <2>4, SizedSteps
<1> QED BY <1>1, <1>2, TypeCorrect, PTL DEF Spec
=============================================================================
