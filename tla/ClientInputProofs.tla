-------------------------- MODULE ClientInputProofs --------------------------
(***************************************************************************)
(* Theorems about the reading of one client, for any input and any pieces; *)
(* the last part: the host reads it as TypedInput does.                    *)
(***************************************************************************)
EXTENDS ClientInput, SharedLemmas

USE DEF peerVars, clientVars, vars

\* What the proofs need to know of the two words.
LEMMA Words ==
  /\ PREFIX \in Seq(Byte) /\ Len(PREFIX) = 3 /\ PREFIX # <<>>
  /\ SUFFIX \in Seq(Byte) /\ Len(SUFFIX) = 2 /\ SUFFIX # <<>>
<1>1. ASSUME NEW x \in Byte, NEW y \in Byte
      PROVE  <<x, y>> \in Seq(Byte)
  OBVIOUS
<1>2. ASSUME NEW x \in Byte, NEW y \in Byte, NEW z \in Byte
      PROVE  <<x, y, z>> \in Seq(Byte)
  OBVIOUS
<1>3. PREFIX \in Seq(Byte) /\ SUFFIX \in Seq(Byte)
  BY <1>1, <1>2, ByteAssumption DEF PREFIX, SUFFIX
<1>4. Len(PREFIX) = 3 /\ Len(SUFFIX) = 2
  BY DEF PREFIX, SUFFIX
<1>5. PREFIX # <<>> /\ SUFFIX # <<>>
  BY DEF PREFIX, SUFFIX
<1> QED BY <1>3, <1>4, <1>5

\* The buffer is a window of the input.
LEMMA PendingIsWindow ==
  ASSUME TypeOK
  PROVE  /\ input \in Seq(Byte) /\ settled \in Nat
         /\ got \in settled..Len(input) /\ got <= arrived /\ arrived \in 0..Len(input)
         /\ input_pending = SubSeq(input, settled + 1, got)
         /\ Len(input_pending) = got - settled /\ Len(input_pending) \in Nat
<1>1. input \in Seq(Byte)
  BY ByteAssumption DEF TypeOK
<1>2. Len(input) \in Nat /\ Len(input_pending) \in Nat
  BY <1>1, LenProperties DEF TypeOK
<1> QED BY <1>1, <1>2 DEF TypeOK, Contiguous, settled

\* Taking n bytes off the front of the buffer leaves a window.
LEMMA TakeOff ==
  ASSUME TypeOK, NEW n \in 0..Len(input_pending),
         input_pending' = SubSeq(input_pending, n + 1, Len(input_pending)),
         UNCHANGED <<input, got>>
  PROVE  /\ input_pending' \in Seq(Byte)
         /\ Len(input_pending') = Len(input_pending) - n
         /\ settled' = settled + n
         /\ input_pending' = SubSeq(input, settled' + 1, got)
         /\ SubSeq(input_pending, 1, n) = SubSeq(input, settled + 1, settled')
         /\ SubSeq(input_pending, 1, n) \in Seq(Byte)
<1> DEFINE L == Len(input_pending)
           rest == SubSeq(input_pending, n + 1, L)
           off == SubSeq(input_pending, 1, n)
           a == settled
<1>1. /\ input \in Seq(Byte) /\ a \in Nat /\ got \in a..Len(input)
      /\ input_pending = SubSeq(input, a + 1, got) /\ L = got - a /\ L \in Nat
  BY PendingIsWindow
<1>2. input_pending \in Seq(Byte) /\ Len(input) \in Nat
  BY <1>1, LenProperties DEF TypeOK
<1>3. /\ rest \in Seq(Byte) /\ Len(rest) = L - n
      /\ \A k \in 1..(L - n) : rest[k] = input_pending[n + k]
  <2>1. n \in Nat /\ L \in n..Len(input_pending)
    BY <1>1
  <2> QED BY <1>2, <2>1, Window
<1>4. /\ off \in Seq(Byte) /\ Len(off) = n
      /\ \A k \in 1..n : off[k] = input_pending[k]
  <2>1. \A i \in 1..n : input_pending[i] \in Byte
    BY <1>1, <1>2, ElementOfSeq
  <2>2. /\ off \in Seq(Byte) /\ Len(off) = IF 1 <= n THEN n - 1 + 1 ELSE 0
        /\ \A k \in 1..(n - 1 + 1) : off[k] = input_pending[1 + k - 1]
    BY <2>1, SubSeqProperties
  <2> HIDE DEF off
  <2> QED BY <1>1, <2>2
<1>5. \A k \in 1..L : input_pending[k] = input[a + k]
  BY <1>1, Window
<1>6. settled' = a + n
  <2>1. settled' = got - Len(rest)
    BY DEF settled
  <2> HIDE DEF rest, a
  <2> QED BY <1>1, <1>3, <2>1
<1>7. rest = SubSeq(input, a + n + 1, got)
  <2> DEFINE w == SubSeq(input, (a + n) + 1, got)
  <2>1. /\ w \in Seq(Byte) /\ Len(w) = got - (a + n)
        /\ \A k \in 1..(got - (a + n)) : w[k] = input[(a + n) + k]
    BY <1>1, Window
  <2>2. Len(w) = Len(rest) /\ Len(rest) \in Nat
    BY <1>1, <1>3, <2>1, SMTT(30)
  <2>3. ASSUME NEW k \in 1..Len(rest)
        PROVE  rest[k] = w[k]
    <3>1. n + k \in 1..L /\ k \in 1..(L - n) /\ k \in 1..(got - (a + n))
      BY <1>1, <1>3
    <3>2. rest[k] = input[a + (n + k)]
      BY <1>3, <1>5, <3>1
    <3>3. a + (n + k) = (a + n) + k
      BY <1>1
    <3> HIDE DEF rest, w, a
    <3> QED BY <2>1, <3>1, <3>2, <3>3
  <2> HIDE DEF rest, w, a
  <2> QED BY <1>3, <2>1, <2>2, <2>3, SeqEqual DEF w
<1>8. off = SubSeq(input, a + 1, a + n)
  <2> DEFINE w == SubSeq(input, a + 1, a + n)
  <2>0. a + n \in a..Len(input)
    BY <1>1, <1>2
  <2>1. /\ w \in Seq(Byte) /\ Len(w) = (a + n) - a
        /\ \A k \in 1..((a + n) - a) : w[k] = input[a + k]
    BY <1>1, <2>0, Window
  <2>2. Len(w) = n
    BY <1>1, <2>1
  <2>3. ASSUME NEW k \in 1..n
        PROVE  off[k] = w[k]
    BY <1>1, <1>4, <1>5, <2>1, <2>2
  <2> HIDE DEF off, w, a
  <2> QED BY <1>4, <2>1, <2>2, <2>3, SeqEqual DEF w
<1> HIDE DEF rest, off, L, a
<1> QED BY <1>3, <1>4, <1>6, <1>7, <1>8 DEF rest, off, L, a

\* The searches of a round stay in the buffer.
LEMMA SearchesStay ==
  ASSUME TypeOK
  PROVE  /\ Start \in 0..Len(input_pending)
         /\ Suffix \in Nat
         /\ Suffix > 0 => Suffix > 3 /\ Suffix + 1 <= Len(input_pending)
         /\ PrefixOverlap(input_pending, PREFIX) \in 0..Len(input_pending)
         /\ PrefixOverlap(input_pending, PREFIX) < 3
<1>1. input_pending \in Seq(Byte) /\ Len(input_pending) \in Nat
  BY LenProperties DEF TypeOK
<1>2. Start \in 0..Len(input_pending)
  BY <1>1, FindFound DEF Start, FindSubslice
<1>3. \/ Suffix = 0
      \/ Suffix \in 4..Len(input_pending) /\ OccursAt(input_pending, SUFFIX, Suffix)
  BY <1>1, Words, FindFound DEF Suffix
<1>4. ASSUME Suffix > 0
      PROVE  Suffix > 3 /\ Suffix + 1 <= Len(input_pending)
  BY <1>1, <1>3, <1>4, Words DEF OccursAt
<1>5. /\ PrefixOverlap(input_pending, PREFIX) \in 0..Len(input_pending)
      /\ PrefixOverlap(input_pending, PREFIX) < 3
  BY <1>1, Words, OverlapFound
<1> QED BY <1>1, <1>2, <1>3, <1>4, <1>5

\* Reading more leaves a window.
LEMMA ReadOn ==
  ASSUME TypeOK, ReadBytes
  PROVE  /\ got' \in got..arrived
         /\ input_pending' \in Seq(Byte) /\ settled' = settled
         /\ input_pending' = SubSeq(input, settled' + 1, got')
         /\ Len(input_pending') <= got'
<1>1. /\ input \in Seq(Byte) /\ settled \in Nat /\ got \in settled..Len(input)
      /\ got <= arrived /\ arrived \in 0..Len(input)
      /\ input_pending = SubSeq(input, settled + 1, got)
  BY PendingIsWindow
<1>2. Len(input) \in Nat
  BY <1>1, LenProperties
<1>3. got' \in got..arrived
  <2> DEFINE bound == {arrived, got + MaxRead}
  <2>1. bound \in SUBSET Nat /\ bound # {}
    BY <1>1, <1>2, ReadAssumption
  <2>2. Min(bound) \in bound /\ \A y \in bound : Min(bound) <= y
    BY <2>1, MinIsLeast
  <2>3. got' = Min(bound)
    BY DEF ReadBytes
  <2> QED BY <1>1, <1>2, <2>2, <2>3, ReadAssumption
<1>4. input_pending' = SubSeq(input, settled + 1, got')
  <2>1. input_pending' = SubSeq(input, settled + 1, got) \o SubSeq(input, got + 1, got')
    BY <1>1 DEF ReadBytes
  <2>2. settled + 1 \in 1..(Len(input) + 1) /\ got \in (settled + 1 - 1)..Len(input)
        /\ got' \in got..Len(input)
    BY <1>1, <1>2, <1>3
  <2> DEFINE m == settled + 1
             n == got'
             k == got
  <2>3. input \in Seq(Byte) /\ m \in 1..(Len(input) + 1) /\ k \in (m - 1)..Len(input)
        /\ n \in k..Len(input) /\ input_pending' = SubSeq(input, m, k) \o SubSeq(input, k + 1, n)
    BY <1>1, <2>1, <2>2
  <2> HIDE DEF m, n, k
  <2>4. input_pending' = SubSeq(input, m, n)
    BY <2>3, ConcatAdjacentSubSeq
  <2> QED BY <2>4 DEF m, n
<1>5. got' \in settled..Len(input)
  BY <1>1, <1>2, <1>3
<1>6. input_pending' \in Seq(Byte) /\ Len(input_pending') = got' - settled
  BY <1>1, <1>4, <1>5, Window
<1>7. settled' = settled /\ Len(input_pending') <= got'
  <2>1. settled' = got' - Len(input_pending')
    BY DEF settled
  <2>2. got' \in Nat /\ settled \in Nat /\ Len(input_pending') = got' - settled
    BY <1>1, <1>3, <1>6
  <2>3. ASSUME NEW g \in Nat, NEW a \in Nat, NEW n, n = g - a
        PROVE  g - n = a /\ n <= g
    BY <2>3
  <2>4. got' - Len(input_pending') = settled /\ Len(input_pending') <= got'
    BY <2>2, <2>3
  <2> QED BY <2>1, <2>4
<1> QED BY <1>3, <1>4, <1>6, <1>7

-----------------------------------------------------------------------------
\* TypeOK is kept by every step.
LEMMA TypeKept ==
  ASSUME TypeOK, [Next]_vars
  PROVE  TypeOK'
<1>00. /\ Start \in 0..Len(input_pending)
       /\ Suffix \in Nat /\ (Suffix > 0 => Suffix > 3 /\ Suffix + 1 <= Len(input_pending))
       /\ PrefixOverlap(input_pending, PREFIX) \in 0..Len(input_pending)
  BY SearchesStay
<1> USE DEF TypeOK
<1>0. /\ input \in Seq(Byte) /\ Len(input) \in Nat /\ arrived \in 0..Len(input)
      /\ Len(input_pending) \in Nat /\ Len(input_pending) <= got
  BY PendingIsWindow, LenProperties
<1>1. CASE PeerStep
  <2>1. UNCHANGED <<input, got, clientVars, pc, written>>
    BY <1>1 DEF PeerStep, Arrive, CloseWrite, Reset
  <2>2. Contiguous'
    BY <2>1 DEF Contiguous, settled
  <2>3. arrived' \in 0..Len(input) /\ got \in 0..arrived' /\ peer' \in {"up", "closed", "reset"}
    BY <1>0, <1>1 DEF PeerStep, Arrive, CloseWrite, Reset
  <2>4. peer' = "closed" => arrived' = Len(input)
    BY <1>1 DEF PeerStep, Arrive, CloseWrite, Reset
  <2> QED BY <2>1, <2>2, <2>3, <2>4
<1>2. CASE Poll \/ WouldBlock \/ ReadFails \/ Refused \/ AwaitMore \/ UNCHANGED vars
  <2>1. UNCHANGED <<peerVars, got, input_pending, protocol_ready, size, written>>
    BY <1>2 DEF Poll, WouldBlock, ReadFails, Refused, AwaitMore, Untouched
  <2>2. /\ pc' \in {"poll", "read", "parse"} /\ input_open' \in BOOLEAN
        /\ pc' # "poll" => input_open'
    BY <1>2 DEF Poll, WouldBlock, ReadFails, Refused, AwaitMore, StopReading
  <2>3. Contiguous'
    BY <2>1 DEF Contiguous, settled
  <2> QED BY <2>1, <2>2, <2>3
<1>3. CASE ReadBytes
  <2>1. UNCHANGED <<peerVars, protocol_ready, size, input_open, written>> /\ pc' = "parse"
        /\ pc = "read"
    BY <1>3 DEF ReadBytes
  <2>2. got' \in got..arrived /\ input_pending' \in Seq(Byte) /\ Contiguous'
    BY <1>3, <2>1, ReadOn DEF Contiguous
  <2>3. got' \in 0..arrived
    BY <1>0, <2>2
  <2> QED BY <2>1, <2>2, <2>3
<1>4. CASE ReadEnd
  <2>1. /\ UNCHANGED <<peerVars, got, protocol_ready, size>> /\ pc' = "poll"
        /\ input_open' = FALSE /\ input_pending' = <<>>
        /\ written' = IF protocol_ready THEN written \o input_pending ELSE written
    BY <1>4 DEF ReadEnd, StopReading
  <2>2. written' \in Seq(Byte) /\ input_pending' \in Seq(Byte) /\ Len(input_pending') = 0
    BY <2>1, ConcatProperties
  <2>3. Contiguous'
    <3>1. settled' = got
      BY <2>1, <2>2, <1>0 DEF settled
    <3>2. SubSeq(input, got + 1, got) = <<>>
      BY <1>0, SubSeqEmpty
    <3> QED BY <1>0, <2>1, <2>2, <3>1, <3>2 DEF Contiguous
  <2> QED BY <1>0, <2>1, <2>2, <2>3
<1>5. ASSUME NEW n \in 0..Len(input_pending),
             input_pending' = SubSeq(input_pending, n + 1, Len(input_pending)),
             UNCHANGED <<peerVars, got, input_open>>,
             protocol_ready' \in BOOLEAN, size' \in Number \cup {NoSize},
             pc' \in {"read", "parse"}, pc = "parse",
             written' \in {written, written \o SubSeq(input_pending, 1, n)}
      PROVE  TypeOK'
  <2>1. /\ input_pending' \in Seq(Byte)
        /\ Len(input_pending') = Len(input_pending) - n
        /\ input_pending' = SubSeq(input, settled' + 1, got)
        /\ SubSeq(input_pending, 1, n) \in Seq(Byte)
    BY <1>5, TakeOff
  <2>2. written' \in Seq(Byte)
    <3> DEFINE off == SubSeq(input_pending, 1, n)
    <3>1. off \in Seq(Byte) /\ written \in Seq(Byte) /\ written' \in {written, written \o off}
      BY <1>5, <2>1
    <3> HIDE DEF off
    <3>2. written \o off \in Seq(Byte)
      BY <3>1, ConcatProperties
    <3> QED BY <3>1, <3>2
  <2>3. Contiguous'
    <3>1. ASSUME NEW l \in Nat, NEW g \in Nat, l <= g, NEW k \in 0..l, NEW m, m = l - k
          PROVE  m <= g
      BY <3>1
    <3>2. got \in Nat
      BY <1>0
    <3>3. Len(input_pending') <= got
      BY <1>0, <2>1, <3>1, <3>2
    <3> QED BY <1>5, <2>1, <3>3 DEF Contiguous
  <2>4. /\ input' \in Input /\ arrived' \in 0..Len(input') /\ got' \in 0..arrived'
        /\ peer' \in {"up", "closed", "reset"} /\ (peer' = "closed" => arrived' = Len(input'))
    BY <1>5
  <2>5. input_open' \in BOOLEAN /\ (pc' # "poll" => input_open') /\ pc' \in {"poll", "read", "parse"}
    BY <1>5
  <2> QED BY <1>5, <2>1, <2>2, <2>3, <2>4, <2>5
<1>6. CASE NoControl
  <2> DEFINE n == Len(input_pending) - PrefixOverlap(input_pending, PREFIX)
  <2>1. n \in 0..Len(input_pending)
    BY <1>0, <1>00
  <2> QED BY <1>5, <1>6, <2>1 DEF NoControl, WriteOut
<1>7. CASE KeysBeforeControl
  <2>1. Start - 1 \in 0..Len(input_pending)
    BY <1>0, <1>00, <1>7 DEF KeysBeforeControl
  <2> QED BY <1>5, <1>7, <2>1 DEF KeysBeforeControl, WriteOut
<1>8. CASE OversizedIsTyped
  <2>1. 1 \in 0..Len(input_pending)
    BY <1>0, <1>8, ControlAssumption, Words DEF OversizedIsTyped
  <2> QED BY <1>5, <1>8, <2>1 DEF OversizedIsTyped, WriteOut
<1>9. CASE ApplyControl
  <2>1. Suffix + 1 \in 0..Len(input_pending) /\ Suffix + Len(SUFFIX) = (Suffix + 1) + 1
    BY <1>0, <1>00, <1>9, Words DEF ApplyControl
  <2>2. size' \in Number \cup {NoSize}
    BY <1>9 DEF ApplyControl, ControlIn, ParseClientControl
  <2>3. /\ input_pending' = SubSeq(input_pending, (Suffix + 1) + 1, Len(input_pending))
        /\ UNCHANGED <<peerVars, got, input_open, pc, written>> /\ pc = "parse"
        /\ protocol_ready' = TRUE
    BY <1>9, <2>1 DEF ApplyControl
  <2> QED BY <1>5, <2>1, <2>2, <2>3
<1>10. CASE Parse
  <2>1. NoHelloYet \/ KeysBeforeHello \/ Unfinished \/ OversizedBeforeHello \/ BadControl
          => Refused \/ AwaitMore
    BY DEF NoHelloYet, KeysBeforeHello, Unfinished, OversizedBeforeHello, BadControl
  <2> QED BY <1>2, <1>6, <1>7, <1>8, <1>9, <1>10, <2>1 DEF Parse
<1> QED BY <1>1, <1>2, <1>3, <1>4, <1>10 DEF Next, HostStep

LEMMA InitType == Init => TypeOK
<1> SUFFICES ASSUME Init
             PROVE  TypeOK
  OBVIOUS
<1>1. input \in Seq(Byte) /\ Len(input) \in Nat
  BY ByteAssumption, LenProperties DEF Init
<1>2. <<>> \in Seq(Byte) /\ Len(<<>>) = 0
  BY EmptySeq
<1>3. Contiguous
  <2>1. settled = 0 - 0
    BY <1>2 DEF Init, settled
  <2>2. SubSeq(input, 1, 0) = <<>>
    BY SubSeqEmpty
  <2> QED BY <1>2, <2>1, <2>2 DEF Init, Contiguous
<1>4. arrived \in 0..Len(input) /\ got \in 0..arrived
  BY <1>1 DEF Init
<1>5. input_pending \in Seq(Byte) /\ written \in Seq(Byte)
  BY <1>2 DEF Init
<1>6. protocol_ready \in BOOLEAN /\ input_open \in BOOLEAN
  BY DEF Init
<1>7. /\ peer \in {"up", "closed", "reset"} /\ pc \in {"poll", "read", "parse"}
      /\ (peer = "closed" => arrived = Len(input)) /\ (pc # "poll" => input_open)
  BY DEF Init
<1> QED BY <1>3, <1>4, <1>5, <1>6, <1>7 DEF Init, TypeOK

\* Whatever a client sends and however it arrives, the buffer is the stretch of
\* the input between what is settled and what was read: input_pending is filled
\* and drained (drain_input_to_pty, flush_pending_input) without a gap.
THEOREM TypeCorrect == Spec => []TypeOK
BY InitType, TypeKept, PTL DEF Spec

-----------------------------------------------------------------------------
\* OnlyBeginningsWait is kept by every step.
LEMMA BeginningsKept ==
  ASSUME TypeOK, OnlyBeginningsWait, [Next]_vars
  PROVE  OnlyBeginningsWait'
<1> DEFINE L == Len(input_pending)
           ov == PrefixOverlap(input_pending, PREFIX)
<1>1. L \in Nat /\ ov \in 0..L /\ ov < 3
  BY SearchesStay, PendingIsWindow
<1>2. CASE pc' = "parse" \/ input_open' = FALSE
  BY <1>2 DEF OnlyBeginningsWait
<1>3. CASE PeerStep \/ Poll \/ WouldBlock \/ UNCHANGED vars
  <2>1. UNCHANGED <<input_pending, protocol_ready, input_open>>
    BY <1>3 DEF PeerStep, Arrive, CloseWrite, Reset, Poll, WouldBlock
  <2>2. Start' = Start /\ Suffix' = Suffix
    BY <2>1 DEF Start, Suffix
  <2>3. pc' \in {"poll", "read"} => pc \in {"poll", "read"}
    BY <1>3 DEF PeerStep, Arrive, CloseWrite, Reset, Poll, WouldBlock
  <2> QED BY <2>1, <2>2, <2>3 DEF OnlyBeginningsWait
<1>4. CASE NoControl
  <2>1. /\ input_pending' = SubSeq(input_pending, (L - ov) + 1, L)
        /\ UNCHANGED <<peerVars, got>>
    BY <1>4 DEF NoControl, WriteOut
  <2>2. Len(input_pending') = ov
    <3>1. L - ov \in 0..L
      BY <1>1
    <3>2. Len(input_pending') = L - (L - ov)
      BY <2>1, <3>1, TakeOff
    <3> QED BY <1>1, <3>2
  <2>3. input_pending' = SubSeq(PREFIX, 1, ov)
    <3>1. input_pending \in Seq(Byte)
      BY DEF TypeOK
    <3> QED BY <2>1, <3>1, Words, OverlapFound
  <2>4. ov \in 0..(Len(PREFIX) - 1) /\ ov <= MaxControl
    BY <1>1, Words, ControlAssumption
  <2> HIDE DEF ov, L
  <2> QED BY <2>2, <2>3, <2>4 DEF OnlyBeginningsWait
<1>5. CASE NoHelloYet
  <2>1. CASE Refused
    BY <1>2, <2>1 DEF Refused, StopReading
  <2>2. CASE /\ AwaitMore
             /\ \/ input_pending = <<>>
                \/ PrefixOverlap(input_pending, PREFIX) > 0 /\ Len(input_pending) <= MaxControl
    <3>1. UNCHANGED <<input_pending, protocol_ready>> /\ ~protocol_ready
      BY <1>5, <2>2 DEF AwaitMore, Untouched, NoHelloYet
    <3>2. Len(<<>>) = 0 /\ 0 <= MaxControl
      BY ControlAssumption
    <3>3. Len(input_pending) <= MaxControl
      BY <2>2, <3>2
    <3> QED BY <3>1, <3>3 DEF OnlyBeginningsWait
  <2> QED BY <1>5, <2>1, <2>2 DEF NoHelloYet
<1>6. CASE Unfinished
  <2>1. UNCHANGED input_pending /\ Start = 1 /\ Suffix = 0 /\ Len(input_pending) <= MaxControl
    BY <1>6 DEF Unfinished, AwaitMore, Untouched
  <2>2. Start' = 1 /\ Suffix' = 0
    BY <2>1 DEF Start, Suffix
  <2> QED BY <2>1, <2>2 DEF OnlyBeginningsWait
<1>7. CASE ReadBytes \/ ReadEnd \/ ReadFails
  BY <1>2, <1>7 DEF ReadBytes, ReadEnd, ReadFails, StopReading
<1>8. CASE KeysBeforeControl \/ OversizedIsTyped \/ ApplyControl
  BY <1>2, <1>8 DEF KeysBeforeControl, OversizedIsTyped, ApplyControl
<1>9. CASE KeysBeforeHello \/ OversizedBeforeHello \/ BadControl
  BY <1>2, <1>9 DEF KeysBeforeHello, OversizedBeforeHello, BadControl, Refused, StopReading
<1> QED BY <1>3, <1>4, <1>5, <1>6, <1>7, <1>8, <1>9 DEF Next, HostStep, Parse

LEMMA InvKept == TypeOK /\ OnlyBeginningsWait /\ [Next]_vars => (TypeOK /\ OnlyBeginningsWait)'
BY TypeKept, BeginningsKept

\* Of what a client has sent, the host never withholds from the child more than
\* the unfinished beginning of a control, nor more than MAX_CONTROL_BYTES
\* (flush_pending_input returning true).
THEOREM BeginningsOnly == Spec => []OnlyBeginningsWait
<1>1. Init => TypeOK /\ OnlyBeginningsWait
  <2>1. Init => TypeOK
    BY InitType
  <2>2. Len(<<>>) = 0 /\ 0 <= MaxControl
    BY ControlAssumption
  <2>3. Init => OnlyBeginningsWait
    BY <2>2 DEF Init, OnlyBeginningsWait
  <2> QED BY <2>1, <2>3
<1> QED BY <1>1, InvKept, PTL DEF Spec

-----------------------------------------------------------------------------
\* Words and searches are the same on both sides.
LEMMA SameWords ==
  /\ T!PREFIX = PREFIX /\ T!SUFFIX = SUFFIX /\ T!VERSION = VERSION /\ T!NoSize = NoSize
  /\ \A s, w, i : T!OccursAt(s, w, i) <=> OccursAt(s, w, i)
  /\ \A s, w, i : T!FindFrom(s, w, i) = FindFrom(s, w, i)
  /\ \A p : T!ParseClientControl(p) = ParseClientControl(p)
<1>1. /\ T!PREFIX = PREFIX /\ T!SUFFIX = SUFFIX /\ T!VERSION = VERSION /\ T!NoSize = NoSize
      /\ T!Number = Number
  BY DEF T!PREFIX, PREFIX, T!SUFFIX, SUFFIX, T!VERSION, VERSION, T!NoSize, NoSize,
         T!Number, Number
<1>2. \A s, w, i : T!OccursAt(s, w, i) <=> OccursAt(s, w, i)
  BY DEF T!OccursAt, OccursAt
<1>3. ASSUME NEW s, NEW w, NEW i
      PROVE  T!FindFrom(s, w, i) = FindFrom(s, w, i)
  <2> DEFINE A == {k \in i..Len(s) : T!OccursAt(s, w, k)}
             B == {k \in i..Len(s) : OccursAt(s, w, k)}
  <2>1. A = B
    BY <1>2
  <2>2. T!FindFrom(s, w, i) = IF A = {} THEN 0 ELSE T!Min(A)
    BY DEF T!FindFrom
  <2>3. FindFrom(s, w, i) = IF B = {} THEN 0 ELSE Min(B)
    BY DEF FindFrom
  <2>4. ASSUME NEW S
        PROVE  T!Min(S) = Min(S)
    BY DEF T!Min, Min
  <2> HIDE DEF A, B
  <2> QED BY <2>1, <2>2, <2>3, <2>4
<1>4. ASSUME NEW p
      PROVE  T!ParseClientControl(p) = ParseClientControl(p)
  BY <1>1 DEF T!ParseClientControl, ParseClientControl
<1> QED BY <1>1, <1>2, <1>3, <1>4

\* What TypedInput says of the input, in the words of ClientInput.
LEMMA Meaning ==
  ASSUME NEW i
  PROVE  /\ T!StartsControl(i) <=> OccursAt(input, PREFIX, i)
         /\ T!EndOfControl(i) = LET end == FindFrom(input, SUFFIX, i + Len(PREFIX))
                                IN  IF end = 0 THEN 0 ELSE end + Len(SUFFIX) - 1
         /\ T!Control(i) = ParseClientControl(
                             SubSeq(input, i + Len(PREFIX), T!EndOfControl(i) - Len(SUFFIX)))
BY SameWords DEF T!StartsControl, T!EndOfControl, T!Control, T!Payload

\* So far as the input was read, a control may start at i.
MayStart(i) ==
  \A k \in 1..Len(PREFIX) : i + k - 1 <= got => input[i + k - 1] = PREFIX[k]

\* What cannot start a control is a key.
LEMMA KeyIfNot ==
  ASSUME TypeOK, NEW i \in (settled + 1)..got, ~MayStart(i)
  PROVE  T!IsKey(i) /\ ~T!StartsControl(i)
<1>1. /\ input \in Seq(Byte) /\ settled \in Nat /\ got \in settled..Len(input)
      /\ Len(input) \in Nat
  BY PendingIsWindow, LenProperties
<1>2. PICK k \in 1..3 : i + k - 1 <= got /\ input[i + k - 1] # PREFIX[k]
  BY Words DEF MayStart
<1>3. ~T!StartsControl(i)
  BY <1>2, Meaning, Words DEF OccursAt
<1>4. ASSUME NEW n \in 1..2, i + n - 1 = Len(input),
             SubSeq(input, i, Len(input)) = SubSeq(PREFIX, 1, n)
      PROVE  FALSE
  <2> DEFINE end == SubSeq(input, i, Len(input))
             beginning == SubSeq(PREFIX, 1, n)
  <2>1. k \in 1..n
    BY <1>1, <1>2, <1>4
  <2>2. i - 1 \in Nat /\ Len(input) \in (i - 1)..Len(input) /\ (i - 1) + 1 = i
    BY <1>1
  <2>3. \A j \in 1..(Len(input) - (i - 1)) : SubSeq(input, (i - 1) + 1, Len(input))[j] = input[(i - 1) + j]
    BY <1>1, <2>2, Window
  <2>4. k \in 1..(Len(input) - (i - 1)) /\ (i - 1) + k = i + k - 1
    BY <1>1, <1>2, <1>4, <2>1
  <2>5. end[k] = input[i + k - 1]
    BY <2>2, <2>3, <2>4
  <2>6. \A j \in 1..n : SubSeq(PREFIX, 0 + 1, n)[j] = PREFIX[0 + j]
    <3>1. PREFIX \in Seq(Byte) /\ 0 \in Nat /\ n \in 0..Len(PREFIX) /\ n - 0 = n
      BY Words
    <3> HIDE DEF beginning
    <3> QED BY <3>1, Window
  <2>7. beginning[k] = PREFIX[k]
    BY <2>1, <2>6
  <2>8. end = beginning
    BY <1>4
  <2> QED BY <1>2, <2>5, <2>7, <2>8
<1> QED BY <1>3, <1>4, SameWords, Words DEF T!IsKey

\* Start is the first prefix in the buffer.
LEMMA StartFound ==
  ASSUME TypeOK
  PROVE  \/ Start = 0 /\ \A k \in 1..Len(input_pending) : ~OccursAt(input_pending, PREFIX, k)
         \/ /\ Start \in 1..Len(input_pending)
            /\ OccursAt(input_pending, PREFIX, Start)
            /\ \A k \in 1..Len(input_pending) : k < Start => ~OccursAt(input_pending, PREFIX, k)
<1>1. Start = FindFrom(input_pending, PREFIX, 1)
  BY DEF Start, FindSubslice
<1>2. input_pending \in Seq(Byte) /\ 1 \in Nat \ {0}
  BY DEF TypeOK
<1>3. \/ /\ FindFrom(input_pending, PREFIX, 1) = 0
         /\ \A k \in 1..Len(input_pending) : ~OccursAt(input_pending, PREFIX, k)
      \/ /\ FindFrom(input_pending, PREFIX, 1) \in 1..Len(input_pending)
         /\ OccursAt(input_pending, PREFIX, FindFrom(input_pending, PREFIX, 1))
         /\ \A k \in 1..Len(input_pending) : k < FindFrom(input_pending, PREFIX, 1)
              => ~OccursAt(input_pending, PREFIX, k)
  BY <1>2, FindFound
<1> QED BY <1>1, <1>3

\* Where a control may start, the search finds its prefix, or the buffer ends with it.
LEMMA MayStartFound ==
  ASSUME TypeOK, NEW i \in (settled + 1)..got, MayStart(i)
  PROVE  \/ Start # 0 /\ settled + Start <= i
         \/ got - i + 1 <= PrefixOverlap(input_pending, PREFIX)
<1>1. /\ input \in Seq(Byte) /\ settled \in Nat /\ got \in settled..Len(input)
      /\ Len(input) \in Nat /\ input_pending \in Seq(Byte)
      /\ Len(input_pending) = got - settled
      /\ input_pending = SubSeq(input, settled + 1, got)
  BY PendingIsWindow, LenProperties DEF TypeOK
<1>2. CASE i + 2 <= got
  <2>1. OccursAt(input, PREFIX, i)
    BY <1>1, <1>2, Words DEF MayStart, OccursAt
  <2>2. i - settled \in Nat \ {0} /\ settled + (i - settled) = i
    BY <1>1
  <2>3. OccursAt(SubSeq(input, settled + 1, got), PREFIX, i - settled)
    <3>1. settled + (i - settled) + Len(PREFIX) - 1 <= got
      BY <1>1, <1>2, Words
    <3> QED BY <1>1, <2>1, <2>2, <3>1, Words, OccursInWindow
  <2>4. OccursAt(input_pending, PREFIX, i - settled) /\ i - settled \in 1..Len(input_pending)
    BY <1>1, <2>2, <2>3
  <2>5. \/ Start = 0 /\ \A k \in 1..Len(input_pending) : ~OccursAt(input_pending, PREFIX, k)
        \/ /\ Start \in 1..Len(input_pending)
           /\ \A k \in 1..Len(input_pending) : k < Start => ~OccursAt(input_pending, PREFIX, k)
    BY <1>1, StartFound
  <2>6. Start # 0 /\ Start <= i - settled
    BY <1>1, <2>2, <2>4, <2>5
  <2>7. Start \in Nat
    BY <2>5
  <2> QED BY <1>1, <2>6, <2>7
<1>3. CASE i + 2 > got
  <2> DEFINE n == got - i + 1
             end == SubSeq(input_pending, Len(input_pending) - n + 1, Len(input_pending))
             beginning == SubSeq(PREFIX, 1, n)
  <2>1. n \in 0..Len(input_pending) /\ n < 3 /\ n \in Nat
    BY <1>1, <1>3
  <2>2. \A k \in 1..(got - settled) : input_pending[k] = input[settled + k]
    BY <1>1, Window
  <2>3. Len(end) = n /\ end \in Seq(Byte) /\ \A k \in 1..n : end[k] = input[i + k - 1]
    <3> DEFINE m == Len(input_pending) - n
    <3>1. m \in Nat /\ Len(input_pending) \in m..Len(input_pending) /\ Len(input_pending) - m = n
          /\ settled + m = i - 1
      BY <1>1, <2>1
    <3> DEFINE w == SubSeq(input_pending, m + 1, Len(input_pending))
    <3>2. /\ w \in Seq(Byte) /\ Len(w) = Len(input_pending) - m
          /\ \A k \in 1..(Len(input_pending) - m) : w[k] = input_pending[m + k]
      BY <1>1, <3>1, Window
    <3>3. ASSUME NEW k \in 1..n
          PROVE  w[k] = input[i + k - 1]
      <4>1. m + k \in 1..(got - settled)
        BY <1>1, <2>1, <3>1
      <4>2. settled + (m + k) = i + k - 1
        BY <1>1, <2>1, <3>1
      <4>3. w[k] = input_pending[m + k]
        BY <3>1, <3>2
      <4> HIDE DEF w, m
      <4> QED BY <2>2, <4>1, <4>2, <4>3
    <3>4. w = end
      BY <3>1
    <3> HIDE DEF w, m, end
    <3> QED BY <3>1, <3>2, <3>3, <3>4
  <2>4. Len(beginning) = n /\ beginning \in Seq(Byte) /\ \A k \in 1..n : beginning[k] = PREFIX[k]
    <3>1. PREFIX \in Seq(Byte) /\ 0 \in Nat /\ n \in 0..Len(PREFIX) /\ n - 0 = n
      BY <2>1, Words
    <3> DEFINE w == SubSeq(PREFIX, 0 + 1, n)
    <3>2. /\ w \in Seq(Byte) /\ Len(w) = n - 0
          /\ \A k \in 1..(n - 0) : w[k] = PREFIX[0 + k]
      <4> HIDE DEF n
      <4> QED BY <3>1, Window
    <3>3. w = beginning
      OBVIOUS
    <3> HIDE DEF w, n, beginning
    <3> QED BY <2>1, <3>1, <3>2, <3>3
  <2>5. ASSUME NEW k \in 1..n
        PROVE  end[k] = beginning[k]
    <3>1. k \in 1..Len(PREFIX) /\ i + k - 1 <= got
      BY <1>1, <2>1, Words
    <3>2. end[k] = input[i + k - 1] /\ beginning[k] = PREFIX[k]
      BY <2>3, <2>4
    <3> HIDE DEF end, beginning, n
    <3> QED BY <3>1, <3>2 DEF MayStart
  <2>6. end = beginning
    <3> HIDE DEF end, beginning, n
    <3> QED BY <2>1, <2>3, <2>4, <2>5, SeqEqual
  <2>7. /\ PREFIX \in Seq(Byte) /\ Len(PREFIX) = 3 /\ PREFIX # <<>>
        /\ SubSeq(input_pending, Len(input_pending) - n + 1, Len(input_pending)) = SubSeq(PREFIX, 1, n)
    BY <2>6, Words
  <2> HIDE DEF n
  <2>8. n <= PrefixOverlap(input_pending, PREFIX)
    BY <1>1, <2>1, <2>7, OverlapFound
  <2> QED BY <2>8 DEF n
<1> QED BY <1>1, <1>2, <1>3

\* A control at the head of the buffer is the one at the head of the input.
LEMMA AtControl ==
  ASSUME TypeOK, Start = 1
  PROVE  /\ T!StartsControl(settled + 1) /\ settled + 3 <= got
         /\ \/ T!EndOfControl(settled + 1) = 0
            \/ T!EndOfControl(settled + 1) \in (settled + 1)..Len(input)
         /\ Suffix > 0 => /\ T!EndOfControl(settled + 1) = settled + Suffix + 1
                          /\ T!Control(settled + 1) = ControlIn
         /\ Suffix = 0 => \/ T!EndOfControl(settled + 1) = 0
                          \/ T!EndOfControl(settled + 1) > got
<1> DEFINE a == settled
           E == FindFrom(input, SUFFIX, a + 4)
<1>1. /\ input \in Seq(Byte) /\ a \in Nat /\ got \in a..Len(input)
      /\ Len(input) \in Nat /\ input_pending \in Seq(Byte)
      /\ Len(input_pending) = got - a /\ input_pending = SubSeq(input, a + 1, got)
  BY PendingIsWindow, LenProperties DEF TypeOK
<1>2. OccursAt(input, PREFIX, a + 1) /\ a + 3 <= got
  <2>1. OccursAt(SubSeq(input, a + 1, got), PREFIX, 1)
    BY <1>1, StartFound
  <2>2. a + 1 + Len(PREFIX) - 1 <= got /\ OccursAt(input, PREFIX, a + 1)
    <3>1. 1 \in Nat \ {0} /\ PREFIX \in Seq(Byte)
      BY Words
    <3> HIDE DEF a
    <3>2. OccursAt(SubSeq(input, a + 1, got), PREFIX, 1)
            <=> a + 1 + Len(PREFIX) - 1 <= got /\ OccursAt(input, PREFIX, a + 1)
      BY <1>1, <3>1, OccursInWindow
    <3> QED BY <2>1, <3>2
  <2> QED BY <1>1, <2>2, Words
<1>3. T!EndOfControl(a + 1) = IF E = 0 THEN 0 ELSE E + 1
  <2>1. a + 1 + Len(PREFIX) = a + 4 /\ \A e \in Nat : e + Len(SUFFIX) - 1 = e + 1
    BY <1>1, Words
  <2>2. a + 4 \in Nat \ {0}
    BY <1>1
  <2>3. E \in Nat
    <3> HIDE DEF a
    <3> QED BY <1>1, <2>2, FindFound
  <2> HIDE DEF a
  <2>4. T!EndOfControl(a + 1)
          = IF FindFrom(input, SUFFIX, a + 1 + Len(PREFIX)) = 0 THEN 0
            ELSE FindFrom(input, SUFFIX, a + 1 + Len(PREFIX)) + Len(SUFFIX) - 1
    BY Meaning
  <2> QED BY <2>1, <2>3, <2>4
<1>4. E = 0 \/ E \in (a + 4)..(Len(input) - 1)
  <2>1. E = 0 \/ (E \in (a + 4)..Len(input) /\ OccursAt(input, SUFFIX, E))
    <3> DEFINE i == a + 4
    <3>1. i \in Nat \ {0}
      BY <1>1
    <3> HIDE DEF a, i
    <3>2. \/ FindFrom(input, SUFFIX, i) = 0
          \/ /\ FindFrom(input, SUFFIX, i) \in i..Len(input)
             /\ OccursAt(input, SUFFIX, FindFrom(input, SUFFIX, i))
      BY <1>1, <3>1, FindFound
    <3> QED BY <3>2 DEF i
  <2>2. ASSUME E \in (a + 4)..Len(input), OccursAt(input, SUFFIX, E)
        PROVE  E + 1 <= Len(input)
    <3> HIDE DEF E
    <3>1. E + Len(SUFFIX) - 1 <= Len(input)
      BY <2>2 DEF OccursAt
    <3> QED BY <1>1, <2>2, <3>1, Words
  <2> HIDE DEF E, a
  <2> QED BY <1>1, <2>1, <2>2
<1>5. /\ Suffix # 0 => E = a + Suffix /\ a + Suffix + 1 <= got
      /\ Suffix = 0 => E = 0 \/ E + 1 > got
  <2>1. Suffix = FindFrom(SubSeq(input, a + 1, got), SUFFIX, 4)
    BY <1>1, Words DEF Suffix
  <2>2. Suffix \in Nat /\ Len(SUFFIX) = 2 /\ E \in Nat
    BY <1>1, <1>4, SearchesStay, Words
  <2>3. /\ Suffix # 0 => E = a + Suffix /\ a + Suffix + Len(SUFFIX) - 1 <= got
        /\ Suffix = 0 => E = 0 \/ E + Len(SUFFIX) - 1 > got
    <3> DEFINE f == FindFrom(SubSeq(input, a + 1, got), SUFFIX, 4)
    <3>1. SUFFIX \in Seq(Byte) /\ SUFFIX # <<>> /\ 4 \in Nat \ {0}
      BY Words
    <3> HIDE DEF a
    <3>2. /\ f # 0 => FindFrom(input, SUFFIX, a + 4) = a + f /\ a + f + Len(SUFFIX) - 1 <= got
          /\ f = 0 => \/ FindFrom(input, SUFFIX, a + 4) = 0
                      \/ FindFrom(input, SUFFIX, a + 4) + Len(SUFFIX) - 1 > got
      BY <1>1, <3>1, FindInWindow
    <3> HIDE DEF f
    <3> QED BY <2>1, <3>2 DEF f
  <2> HIDE DEF E, a
  <2> QED BY <1>1, <2>2, <2>3
<1>6. ASSUME Suffix > 0
      PROVE  T!Control(a + 1) = ControlIn
  <2>1. Suffix \in Nat /\ Suffix > 3 /\ Suffix + 1 <= Len(input_pending)
    BY <1>6, SearchesStay
  <2>2. T!EndOfControl(a + 1) = a + Suffix + 1
    <3> HIDE DEF E, a
    <3> QED BY <1>1, <1>3, <1>4, <1>5, <2>1
  <2> DEFINE there == SubSeq(input, (a + 3) + 1, a + Suffix - 1)
             here == SubSeq(input_pending, 3 + 1, Suffix - 1)
  <2>3. /\ there \in Seq(Byte) /\ Len(there) = Suffix - 4
        /\ \A k \in 1..(Suffix - 4) : there[k] = input[(a + 3) + k]
    <3> DEFINE b == a + Suffix - 1
    <3>1. a + 3 \in Nat /\ b \in (a + 3)..Len(input) /\ b - (a + 3) = Suffix - 4
      BY <1>1, <2>1
    <3> HIDE DEF b, a
    <3>2. /\ SubSeq(input, (a + 3) + 1, b) \in Seq(Byte)
          /\ Len(SubSeq(input, (a + 3) + 1, b)) = b - (a + 3)
          /\ \A k \in 1..(b - (a + 3)) : SubSeq(input, (a + 3) + 1, b)[k] = input[(a + 3) + k]
      BY <1>1, <3>1, Window
    <3> QED BY <3>1, <3>2 DEF b
  <2>4. /\ here \in Seq(Byte) /\ Len(here) = Suffix - 4
        /\ \A k \in 1..(Suffix - 4) : here[k] = input_pending[3 + k]
    <3> DEFINE b == Suffix - 1
    <3>1. 3 \in Nat /\ b \in 3..Len(input_pending) /\ b - 3 = Suffix - 4
      BY <1>1, <2>1
    <3> HIDE DEF b
    <3>2. /\ SubSeq(input_pending, 3 + 1, b) \in Seq(Byte)
          /\ Len(SubSeq(input_pending, 3 + 1, b)) = b - 3
          /\ \A k \in 1..(b - 3) : SubSeq(input_pending, 3 + 1, b)[k] = input_pending[3 + k]
      BY <1>1, <3>1, Window
    <3> QED BY <3>1, <3>2 DEF b
  <2>5. \A k \in 1..(got - a) : input_pending[k] = input[a + k]
    <3> HIDE DEF a
    <3> QED BY <1>1, Window
  <2>6. ASSUME NEW k \in 1..(Suffix - 4)
        PROVE  here[k] = there[k]
    <3>1. 3 + k \in 1..(got - a) /\ a + (3 + k) = (a + 3) + k
      BY <1>1, <2>1
    <3> HIDE DEF here, there, a
    <3> QED BY <2>3, <2>4, <2>5, <3>1
  <2>7. here = there
    <3>1. Suffix - 4 \in Nat
      BY <2>1
    <3> HIDE DEF here, there, a
    <3> QED BY <2>3, <2>4, <2>6, <3>1, SeqEqual
  <2>8. ControlIn = ParseClientControl(here)
    BY Words DEF ControlIn
  <2>9. T!Control(a + 1) = ParseClientControl(there)
    <3>1. a + 1 + Len(PREFIX) = (a + 3) + 1 /\ a + Suffix + 1 - Len(SUFFIX) = a + Suffix - 1
      BY <1>1, <2>1, Words
    <3>2. T!Control(a + 1) = ParseClientControl(
             SubSeq(input, a + 1 + Len(PREFIX), T!EndOfControl(a + 1) - Len(SUFFIX)))
      BY Meaning
    <3> DEFINE lo == a + 1 + Len(PREFIX)
               hi == T!EndOfControl(a + 1) - Len(SUFFIX)
    <3>3. lo = (a + 3) + 1
      BY <3>1
    <3>4. hi = a + Suffix - 1
      <4>1. hi = (a + Suffix + 1) - Len(SUFFIX)
        BY <2>2, Zenon
      <4> HIDE DEF hi, a
      <4> QED BY <1>1, <2>1, <4>1, Words
    <3>5. T!Control(a + 1) = ParseClientControl(SubSeq(input, lo, hi))
      BY <3>2
    <3> HIDE DEF a, lo, hi
    <3>6. SubSeq(input, lo, hi) = SubSeq(input, (a + 3) + 1, a + Suffix - 1)
      BY <3>3, <3>4, Zenon
    <3> QED BY <3>5, <3>6
  <2> HIDE DEF here, there
  <2> QED BY <2>7, <2>8, <2>9
<1>7. T!StartsControl(a + 1)
  BY <1>2, Meaning
<1>8. Suffix \in Nat
  BY SearchesStay
<1> HIDE DEF E, a
<1>9. T!EndOfControl(a + 1) = 0 \/ T!EndOfControl(a + 1) \in (a + 1)..Len(input)
  BY <1>1, <1>3, <1>4
<1>10. Suffix > 0 => T!EndOfControl(a + 1) = a + Suffix + 1
  BY <1>1, <1>3, <1>4, <1>5, <1>8
<1>11. Suffix = 0 => T!EndOfControl(a + 1) = 0 \/ T!EndOfControl(a + 1) > got
  BY <1>1, <1>3, <1>4, <1>5
<1> QED BY <1>2, <1>6, <1>7, <1>9, <1>10, <1>11 DEF a

\* The first n bytes of the buffer are typed.
LEMMA KeysTyped ==
  ASSUME TypeOK, input_open, protocol_ready,
         NEW n \in 0..Len(input_pending), WriteOut(n),
         UNCHANGED <<input, got, protocol_ready, size, input_open>>,
         \A i \in (settled + 1)..(settled + n) : T!IsKey(i)
  PROVE  T!Keys \/ UNCHANGED T!typedVars
<1>1. /\ settled \in Nat /\ got \in settled..Len(input) /\ Len(input) \in Nat
      /\ Len(input_pending) = got - settled
  BY PendingIsWindow, LenProperties
<1>2. /\ settled' = settled + n
      /\ written' = written \o SubSeq(input, settled + 1, settled + n)
  BY TakeOff DEF WriteOut
<1>3. CASE n = 0
  <2>1. settled' = settled /\ SubSeq(input, settled + 1, settled + n) = <<>>
    BY <1>1, <1>2, <1>3, SubSeqEmpty
  <2>2. written \o <<>> = written
    BY ConcatEmptySeq DEF TypeOK
  <2> QED BY <1>2, <2>1, <2>2 DEF T!typedVars
<1>4. CASE n # 0
  <2>1. settled + n \in (settled + 1)..Len(input)
    BY <1>1, <1>4
  <2> QED BY <1>2, <2>1 DEF T!Keys
<1> QED BY <1>3, <1>4

\* An unfinished control of more than MaxControl bytes is oversized.
LEMMA TooLong ==
  ASSUME TypeOK, Start = 1, Suffix = 0, Len(input_pending) > MaxControl
  PROVE  T!Oversized(settled + 1)
<1> DEFINE a == settled
           E == T!EndOfControl(a + 1)
<1>1. /\ a \in Nat /\ got \in a..Len(input) /\ Len(input) \in Nat
      /\ Len(input_pending) = got - a
  BY PendingIsWindow, LenProperties
<1>2. E = 0 \/ (E \in (a + 1)..Len(input) /\ E > got)
  BY AtControl
<1>3. IF E = 0 THEN Len(input) - (a + 1) + 1 > MaxControl ELSE E - (a + 1) > MaxControl
  <2> HIDE DEF E, a
  <2> QED BY <1>1, <1>2, ControlAssumption
<1> QED BY <1>3 DEF T!Oversized

-----------------------------------------------------------------------------
\* The host types keys.
LEMMA TypesKeys ==
  ASSUME TypeOK, NoControl \/ KeysBeforeControl \/ OversizedIsTyped
  PROVE  T!Keys \/ UNCHANGED T!typedVars
<1>1. /\ settled \in Nat /\ got \in settled..Len(input) /\ Len(input) \in Nat
      /\ Len(input_pending) = got - settled /\ Len(input_pending) \in Nat
  BY PendingIsWindow, LenProperties
<1>2. Start \in 0..Len(input_pending)
  BY SearchesStay
<1>3. /\ pc = "parse" /\ input_open /\ protocol_ready
      /\ UNCHANGED <<input, got, protocol_ready, size, input_open>>
  BY DEF TypeOK, NoControl, KeysBeforeControl, OversizedIsTyped
<1>4. CASE NoControl
  <2> DEFINE ov == PrefixOverlap(input_pending, PREFIX)
             n == Len(input_pending) - ov
  <2>1. ov \in 0..Len(input_pending) /\ Start = 0 /\ WriteOut(n)
    BY <1>4, SearchesStay DEF NoControl
  <2> HIDE DEF ov
  <2>2. n \in 0..Len(input_pending)
    BY <1>1, <2>1
  <2>3. ASSUME NEW i \in (settled + 1)..(settled + n)
        PROVE  T!IsKey(i)
    <3>1. i \in (settled + 1)..got /\ ~(got - i + 1 <= ov)
      BY <1>1, <2>1, <2>2
    <3>2. ~MayStart(i)
      BY <2>1, <3>1, MayStartFound DEF ov
    <3> QED BY <3>1, <3>2, KeyIfNot
  <2> HIDE DEF n
  <2> QED BY <1>3, <2>1, <2>2, <2>3, KeysTyped
<1>5. CASE KeysBeforeControl
  <2> DEFINE n == Start - 1
  <2>1. Start > 1 /\ WriteOut(n)
    BY <1>5 DEF KeysBeforeControl
  <2>2. n \in 0..Len(input_pending)
    BY <1>1, <1>2, <2>1
  <2>3. settled + Start + 2 <= got
    <3>1. OccursAt(input_pending, PREFIX, Start)
      BY <2>1, StartFound
    <3>2. Start + Len(PREFIX) - 1 <= Len(input_pending)
      BY <3>1 DEF OccursAt
    <3> QED BY <1>1, <1>2, <3>2, Words
  <2>4. ASSUME NEW i \in (settled + 1)..(settled + n)
        PROVE  T!IsKey(i)
    <3>1. i \in (settled + 1)..got /\ ~(settled + Start <= i) /\ i + 2 < got
      BY <1>1, <1>2, <2>1, <2>3
    <3>2. /\ PrefixOverlap(input_pending, PREFIX) \in Nat
          /\ PrefixOverlap(input_pending, PREFIX) < 3
      BY SearchesStay
    <3>3. ~(got - i + 1 <= PrefixOverlap(input_pending, PREFIX))
      BY <1>1, <3>1, <3>2
    <3>4. ~MayStart(i)
      BY <3>1, <3>3, MayStartFound
    <3> QED BY <3>1, <3>4, KeyIfNot
  <2> HIDE DEF n
  <2> QED BY <1>3, <2>1, <2>2, <2>4, KeysTyped
<1>6. CASE OversizedIsTyped
  <2>1. Start = 1 /\ Suffix = 0 /\ Len(input_pending) > MaxControl /\ WriteOut(1)
    BY <1>6 DEF OversizedIsTyped
  <2>2. 1 \in 0..Len(input_pending)
    BY <1>1, <1>2, <2>1
  <2>3. T!IsKey(settled + 1)
    BY <2>1, AtControl, TooLong DEF T!IsKey
  <2>4. \A i \in (settled + 1)..(settled + 1) : i = settled + 1
    BY <1>1
  <2> QED BY <1>3, <2>1, <2>2, <2>3, <2>4, KeysTyped
<1> QED BY <1>4, <1>5, <1>6

\* The host obeys a control.
LEMMA Obeys ==
  ASSUME TypeOK, ApplyControl
  PROVE  T!Obey
<1>1. /\ settled \in Nat /\ Len(input_pending) \in Nat
      /\ Suffix \in Nat /\ Suffix > 3 /\ Suffix + 1 <= Len(input_pending)
  BY PendingIsWindow, SearchesStay DEF ApplyControl
<1>2. Start = 1 /\ Suffix > 0
  BY DEF ApplyControl
<1>3. /\ T!StartsControl(settled + 1)
      /\ T!EndOfControl(settled + 1) = settled + Suffix + 1
      /\ T!Control(settled + 1) = ControlIn
  BY <1>2, AtControl
<1>4. settled' = T!EndOfControl(settled + 1)
  <2>1. Suffix + Len(SUFFIX) = (Suffix + 1) + 1 /\ Suffix + 1 \in 0..Len(input_pending)
    BY <1>1, Words
  <2>2. /\ input_pending' = SubSeq(input_pending, (Suffix + 1) + 1, Len(input_pending))
        /\ UNCHANGED <<input, got>>
    BY <2>1 DEF ApplyControl
  <2>3. settled' = settled + (Suffix + 1)
    BY <2>1, <2>2, TakeOff
  <2> QED BY <1>1, <1>3, <2>3
<1>5. T!EndOfControl(settled + 1) > 0
  BY <1>1, <1>3
<1>6. input_open /\ UNCHANGED <<input, input_open, written>>
  BY DEF ApplyControl, TypeOK
<1>7. \/ /\ ControlIn.kind = "hello" /\ ControlIn.value = T!VERSION
         /\ protocol_ready' = TRUE /\ UNCHANGED size
      \/ /\ ControlIn.kind = "resize" /\ protocol_ready
         /\ size' = ControlIn.value /\ UNCHANGED protocol_ready
  <2>1. protocol_ready \in BOOLEAN /\ protocol_ready' = TRUE /\ Accepts(ControlIn)
        /\ size' = IF ControlIn.kind = "resize" THEN ControlIn.value ELSE size
    BY DEF ApplyControl, TypeOK
  <2>2. T!VERSION = VERSION
    BY SameWords
  <2>3. CASE ControlIn.kind = "hello" /\ ControlIn.value = VERSION
    BY <2>1, <2>2, <2>3
  <2>4. CASE ControlIn.kind = "resize" /\ protocol_ready
    BY <2>1, <2>4
  <2> QED BY <2>1, <2>3, <2>4 DEF Accepts
<1> QED BY <1>3, <1>4, <1>5, <1>6, <1>7 DEF T!Obey

\* The host refuses a client.
LEMMA Refuses ==
  ASSUME TypeOK, Refused,
         NoHelloYet \/ KeysBeforeHello \/ OversizedBeforeHello \/ BadControl
  PROVE  T!Refuse
<1>1. /\ settled \in Nat /\ got \in settled..Len(input) /\ Len(input) \in Nat
      /\ Len(input_pending) = got - settled /\ Len(input_pending) \in Nat
      /\ Start \in 0..Len(input_pending)
      /\ PrefixOverlap(input_pending, PREFIX) \in Nat /\ PrefixOverlap(input_pending, PREFIX) < 3
  BY PendingIsWindow, LenProperties, SearchesStay
<1>2. /\ input_open /\ input_open' = FALSE
      /\ UNCHANGED <<input, got, input_pending, protocol_ready, size, written>>
  BY DEF Refused, Untouched, StopReading, TypeOK
<1>3. UNCHANGED settled
  BY <1>2 DEF settled
<1>4. ASSUME Start # 1, ~protocol_ready, NoHelloYet \/ KeysBeforeHello
      PROVE  ~T!StartsControl(settled + 1) /\ settled < Len(input) /\ T!IsKey(settled + 1)
  <2>1. CASE Start = 0
    <3>1. /\ input_pending # <<>>
          /\ ~(PrefixOverlap(input_pending, PREFIX) > 0 /\ Len(input_pending) <= MaxControl)
      <4>1. NoHelloYet
        BY <2>1, <1>4 DEF KeysBeforeHello
      <4>2. ~AwaitMore
        BY <1>2, Zenon DEF AwaitMore
      <4> QED BY <4>1, <4>2, Zenon DEF NoHelloYet
    <3>2. Len(input_pending) # 0
      BY <3>1, EmptySeq DEF TypeOK
    <3>3. ~(got - (settled + 1) + 1 <= PrefixOverlap(input_pending, PREFIX))
      BY <1>1, <3>1, <3>2, ControlAssumption, Words
    <3>4. settled + 1 \in (settled + 1)..got
      BY <1>1, <3>2
    <3>5. ~MayStart(settled + 1)
      BY <2>1, <3>3, <3>4, MayStartFound
    <3>6. settled < Len(input)
      BY <1>1, <3>4
    <3> QED BY <3>4, <3>5, <3>6, KeyIfNot
  <2>2. CASE Start > 1
    <3>1. Start + 2 <= Len(input_pending)
      <4>1. OccursAt(input_pending, PREFIX, Start)
        BY <2>2, StartFound
      <4>2. Start + Len(PREFIX) - 1 <= Len(input_pending)
        BY <4>1 DEF OccursAt
      <4> QED BY <1>1, <4>2, Words
    <3>2. /\ ~(got - (settled + 1) + 1 <= PrefixOverlap(input_pending, PREFIX))
          /\ ~(settled + Start <= settled + 1) /\ settled + 1 \in (settled + 1)..got
          /\ settled < Len(input)
      BY <1>1, <2>2, <3>1
    <3>3. ~MayStart(settled + 1)
      BY <3>2, MayStartFound
    <3> QED BY <3>2, <3>3, KeyIfNot
  <2> QED BY <1>1, <1>4, <2>1, <2>2
<1>5. CASE NoHelloYet \/ KeysBeforeHello
  <2>1. Start # 1 /\ ~protocol_ready
    BY <1>1, <1>5 DEF NoHelloYet, KeysBeforeHello
  <2> QED BY <1>2, <1>3, <1>4, <1>5, <2>1 DEF T!Refuse
<1>6. CASE OversizedBeforeHello
  <2>1. T!StartsControl(settled + 1) /\ T!Oversized(settled + 1) /\ ~protocol_ready
    BY <1>6, AtControl, TooLong DEF OversizedBeforeHello
  <2> QED BY <1>2, <1>3, <2>1 DEF T!Refuse
<1>7. CASE BadControl
  <2>1. /\ T!StartsControl(settled + 1) /\ T!Control(settled + 1) = ControlIn
        /\ T!EndOfControl(settled + 1) = settled + Suffix + 1 /\ Suffix > 0 /\ Suffix \in Nat
    BY <1>7, AtControl, SearchesStay DEF BadControl
  <2>2. T!EndOfControl(settled + 1) > 0
    BY <1>1, <2>1
  <2>3. /\ ControlIn.kind = "hello" => ControlIn.value # T!VERSION
        /\ ControlIn.kind = "resize" => ~protocol_ready
    BY <1>7, SameWords DEF BadControl, Accepts
  <2> QED BY <1>2, <1>3, <2>1, <2>2, <2>3 DEF T!Refuse
<1> QED BY <1>5, <1>6, <1>7

\* What waits when a client closes can become nothing else.
LEMMA OnlyBeginningsLeft ==
  ASSUME TypeOK, OnlyBeginningsWait, pc = "read", got = Len(input), protocol_ready
  PROVE  \/ settled = Len(input)
         \/ ~T!IsKey(settled + 1) /\ T!EndOfControl(settled + 1) = 0
<1> DEFINE a == settled
<1>1. /\ input \in Seq(Byte) /\ a \in Nat /\ got \in a..Len(input) /\ Len(input) \in Nat
      /\ Len(input_pending) = got - a /\ input_pending = SubSeq(input, a + 1, got)
  BY PendingIsWindow, LenProperties
<1>2. /\ Len(input_pending) <= MaxControl
      /\ \/ \E n \in 0..2 : input_pending = SubSeq(PREFIX, 1, n)
         \/ Start = 1 /\ Suffix = 0
  BY Words DEF OnlyBeginningsWait, TypeOK
<1>3. CASE \E n \in 0..2 : input_pending = SubSeq(PREFIX, 1, n)
  <2>1. PICK n \in 0..2 : input_pending = SubSeq(PREFIX, 1, n)
    BY <1>3
  <2>2. Len(SubSeq(PREFIX, 0 + 1, n)) = n - 0
    <3>1. n \in 0..Len(PREFIX) /\ 0 \in Nat
      BY Words
    <3> QED BY <3>1, Words, Window
  <2>3. Len(input_pending) = n
    BY <2>1, <2>2
  <2>4. CASE n = 0
    BY <1>1, <2>3, <2>4
  <2>5. CASE n \in 1..2
    <3>1. a + 1 + n - 1 = Len(input) /\ SubSeq(input, a + 1, Len(input)) = SubSeq(PREFIX, 1, n)
      <4>1. a + 1 + n - 1 = Len(input)
        <5> HIDE DEF a
        <5> QED BY <1>1, <2>3
      <4>2. SubSeq(input, a + 1, Len(input)) = SubSeq(input, a + 1, got)
        OBVIOUS
      <4> QED BY <1>1, <2>1, <4>1, <4>2, Zenon
    <3>2. ~T!StartsControl(a + 1)
      <4>1. ~OccursAt(input, PREFIX, a + 1)
        <5> HIDE DEF a
        <5> QED BY <1>1, <2>5, <3>1, Words DEF OccursAt
      <4> QED BY <4>1, Meaning
    <3>3. ~T!IsKey(a + 1)
      <4>1. n \in 1..(Len(T!PREFIX) - 1) /\ T!PREFIX = PREFIX
        BY <2>5, SameWords, Words
      <4> HIDE DEF a
      <4> QED BY <3>1, <3>2, <4>1 DEF T!IsKey
    <3>4. T!EndOfControl(a + 1) = 0
      <4> DEFINE i == a + 1 + Len(PREFIX)
      <4>1. i \in Nat \ {0} /\ i > Len(input)
        <5> HIDE DEF a
        <5> QED BY <1>1, <2>5, <3>1, Words
      <4>2. FindFrom(input, SUFFIX, i) = 0
        <5> HIDE DEF i
        <5>1. FindFrom(input, SUFFIX, i) = 0 \/ FindFrom(input, SUFFIX, i) \in i..Len(input)
          BY <1>1, <4>1, FindFound
        <5> QED BY <1>1, <4>1, <5>1
      <4> HIDE DEF a
      <4> QED BY <4>2, Meaning
    <3> QED BY <3>3, <3>4
  <2> QED BY <2>4, <2>5
<1>4. CASE Start = 1 /\ Suffix = 0
  <2>1. /\ T!StartsControl(a + 1)
        /\ T!EndOfControl(a + 1) = 0 \/ T!EndOfControl(a + 1) \in (a + 1)..Len(input)
        /\ T!EndOfControl(a + 1) = 0 \/ T!EndOfControl(a + 1) > got
    BY <1>4, AtControl
  <2> DEFINE E == T!EndOfControl(a + 1)
  <2>2. E = 0
    <3>1. (E = 0 \/ E \in (a + 1)..Len(input)) /\ (E = 0 \/ E > got)
      BY <2>1
    <3> HIDE DEF E, a
    <3> QED BY <1>1, <3>1
  <2>3. ~(Len(input) - (a + 1) + 1 > MaxControl)
    <3> HIDE DEF a
    <3> QED BY <1>1, <1>2, ControlAssumption
  <2>4. ~T!Oversized(a + 1)
    BY <2>2, <2>3 DEF T!Oversized
  <2> QED BY <2>1, <2>2, <2>4 DEF T!IsKey
<1> QED BY <1>2, <1>3, <1>4

-----------------------------------------------------------------------------
\* Every step of the host is a step of TypedInput, or none.
LEMMA StepTyped ==
  ASSUME TypeOK, OnlyBeginningsWait, [Next]_vars
  PROVE  T!Next \/ UNCHANGED T!typedVars
<1>1. CASE PeerStep \/ Poll \/ WouldBlock \/ AwaitMore \/ UNCHANGED vars
  <2>1. UNCHANGED <<input, got, clientVars, written>>
    BY <1>1 DEF PeerStep, Arrive, CloseWrite, Reset, Poll, WouldBlock, AwaitMore, Untouched
  <2>2. UNCHANGED settled
    BY <2>1 DEF settled
  <2> QED BY <2>1, <2>2 DEF T!typedVars
<1>2. CASE ReadBytes
  <2>1. settled' = settled /\ UNCHANGED <<input, protocol_ready, size, input_open, written>>
    BY <1>2, ReadOn DEF ReadBytes
  <2> QED BY <2>1 DEF T!typedVars
<1>3. CASE ReadEnd
  <2>1. /\ pc = "read" /\ peer = "closed" /\ arrived = got /\ input_pending' = <<>>
        /\ written' = IF protocol_ready THEN written \o input_pending ELSE written
        /\ input_open' = FALSE /\ UNCHANGED <<input, got, protocol_ready, size>>
    BY <1>3 DEF ReadEnd, StopReading
  <2>2. got = Len(input) /\ input_open
    BY <2>1 DEF TypeOK
  <2>3. settled' = Len(input)
    <3>1. settled' = got - Len(<<>>) /\ Len(<<>>) = 0 /\ got \in Nat
      BY <2>1, PendingIsWindow, EmptySeq DEF settled
    <3> QED BY <2>2, <3>1
  <2>4. input_pending = SubSeq(input, settled + 1, Len(input))
    BY <2>2, PendingIsWindow
  <2>5. protocol_ready => \/ settled = Len(input)
                          \/ ~T!IsKey(settled + 1) /\ T!EndOfControl(settled + 1) = 0
    BY <2>1, <2>2, OnlyBeginningsLeft
  <2>6. written' = IF protocol_ready THEN written \o SubSeq(input, settled + 1, Len(input))
                   ELSE written
    BY <2>1, <2>4, Zenon
  <2> QED BY <2>1, <2>2, <2>3, <2>5, <2>6 DEF T!Close, T!Next
<1>4. CASE ReadFails
  <2>1. /\ input_open /\ input_open' = FALSE
        /\ UNCHANGED <<input, got, input_pending, protocol_ready, size, written>>
    BY <1>4 DEF ReadFails, StopReading, TypeOK
  <2>2. UNCHANGED settled
    BY <2>1 DEF settled
  <2> QED BY <2>1, <2>2 DEF T!Break, T!Next
<1>5. CASE NoControl \/ KeysBeforeControl \/ OversizedIsTyped
  BY <1>5, TypesKeys DEF T!Next
<1>6. CASE ApplyControl
  BY <1>6, Obeys DEF T!Next
<1>7. CASE NoHelloYet \/ KeysBeforeHello \/ OversizedBeforeHello \/ BadControl \/ Unfinished
  <2>1. AwaitMore \/ (Refused /\ ~Unfinished)
    BY <1>7 DEF NoHelloYet, KeysBeforeHello, OversizedBeforeHello, BadControl, Unfinished
  <2> QED BY <1>1, <1>7, <2>1, Refuses DEF T!Next
<1> QED BY <1>1, <1>2, <1>3, <1>4, <1>5, <1>6, <1>7 DEF Next, HostStep, Parse

\* However a client's bytes are cut on their way, the host types, obeys and
\* refuses what the whole input says (drain_input_to_pty, flush_pending_input,
\* apply_control).
THEOREM InputImplemented == Spec => ImplementsTypedInput
<1>1. Init => T!Init
  <2> SUFFICES ASSUME Init
               PROVE  T!Init
    OBVIOUS
  <2>1. settled = 0
    <3>1. Len(<<>>) = 0 /\ 0 - 0 = 0
      BY EmptySeq
    <3> QED BY <3>1 DEF Init, settled
  <2> QED BY <2>1, SameWords DEF Init, T!Init
<1>2. TypeOK /\ OnlyBeginningsWait /\ [Next]_vars => [T!Next]_(T!typedVars)
  BY StepTyped
<1> QED BY <1>1, <1>2, TypeCorrect, BeginningsOnly, PTL DEF Spec, ImplementsTypedInput, T!Spec
=============================================================================
