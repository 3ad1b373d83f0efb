--------------------------- MODULE SessionProofs ---------------------------
(***************************************************************************)
(* What a scripted session does with the child's bytes, for any scripts,   *)
(* any child and any size of reads: none is lost, no watch misses its      *)
(* pattern, however the reads cut it, and the events recorded and their    *)
(* times depend on what the child wrote alone.                             *)
(***************************************************************************)
EXTENDS Session, SharedLemmas

Words == Seq(STRING)

\* The places where an operation is under way.
Busy == {"settle", "arm", "write", "wait", "poll", "missed", "putBack", "echo"}

SessionType ==
  /\ plan \in Plans /\ step \in Nat \ {0} /\ armed \in Nat /\ childAt \in Nat
  /\ pty \in Words /\ wrote \in Words
  /\ taken \in Words /\ captured \in Words /\ bytes \in Words /\ chunk \in Words
  /\ watches \subseteq [id : Nat, pattern : Words \ {<<>>}, carry : Words, from : Nat]
  /\ fired \subseteq Nat
  /\ drainer \in {"top", "select", "append", "done"}
  /\ pc \in Busy \cup {"ready", "drop", "join", "done"}

\* What a thread has in hand, and where.
Place ==
  /\ pc \in Busy => step <= Len(plan.script)
  /\ pc \in {"ready", "settle", "arm", "write", "wait"} => captured = <<>>
  /\ drainer # "append" => chunk = <<>>

\* Every byte of the child is in one place.
Stream == taken \o captured \o bytes \o chunk \o pty = wrote

\* A watch is named after the operation that armed it, and after no later one.
Marks ==
  \A n \in fired \cup {w.id : w \in watches} :
    n <= step /\ (pc \in {"ready", "arm"} => n < step)

\* What was read since a watch was armed.
Since(w) == SubSeq(wrote, w.from + 1, Buffered)

\* A watch's carry is the end of that, as much as a pattern may begin with.
KeepUp ==
  \A w \in watches :
    /\ w.from <= Buffered
    /\ ~Holds(Since(w), w.pattern)
    /\ w.carry = LastBytes(Since(w), Len(w.pattern) - 1)

\* The operation's own watch looks at bytes that the operation will take.
Armed ==
  /\ pc \in {"arm", "write", "wait"} => Pattern # <<>>
  /\ pc \in {"write", "wait"} =>
       /\ armed = step
       /\ armed \in fired => Holds(bytes, Pattern)
       /\ \A w \in watches : w.id = armed => w.pattern = Pattern /\ w.from >= Len(taken)
  /\ pc \in {"putBack", "echo"} => Holds(captured, Pattern)
  /\ pc = "echo" => Op.kind = "type"
  /\ pc \in {"poll", "missed"} => Op.kind # "type"
  /\ result # "no echo"

SessionInv == SessionType /\ Place /\ Stream /\ Marks /\ KeepUp /\ Armed

-----------------------------------------------------------------------------
\* Min of two numbers.
LEMMA Lesser ==
  ASSUME NEW a \in Nat, NEW b \in Nat
  PROVE  Min({a, b}) \in {a, b} /\ Min({a, b}) <= a /\ Min({a, b}) <= b
<1> DEFINE two == {a, b}
<1>1. two \in SUBSET Nat /\ two # {} /\ a \in two /\ b \in two
  OBVIOUS
<1> HIDE DEF two
<1>2. Min(two) \in two /\ \A y \in two : Min(two) <= y
  BY <1>1, MinIsLeast
<1> QED BY <1>1, <1>2 DEF two

\* A sequence is what comes up to a place, and what comes behind it.
LEMMA CutInTwo ==
  ASSUME NEW s \in Words, NEW n \in 0..Len(s)
  PROVE  /\ SubSeq(s, 1, n) \in Words /\ SubSeq(s, n + 1, Len(s)) \in Words
         /\ SubSeq(s, 1, n) \o SubSeq(s, n + 1, Len(s)) = s
         /\ Len(SubSeq(s, 1, n)) = n
<1>1. Len(s) \in Nat
  BY LenProperties DEF Words
<1>2. n \in 0..Len(s) /\ Len(s) \in n..Len(s)
  BY <1>1
<1>3. SubSeq(s, 1, n) \in Words /\ Len(SubSeq(s, 1, n)) = n
  <2>1. SubSeq(s, 0 + 1, n) \in Words /\ Len(SubSeq(s, 0 + 1, n)) = n - 0
    BY <1>2, Window DEF Words
  <2> QED BY <1>1, <2>1
<1>6. SubSeq(s, n + 1, Len(s)) \in Words
  BY <1>1, <1>2, Window DEF Words
<1>4. SubSeq(s, 1, n) \o SubSeq(s, n + 1, Len(s)) = SubSeq(s, 1, Len(s))
  <2>1. 1 \in 1..(Len(s) + 1) /\ n \in (1 - 1)..Len(s) /\ Len(s) \in n..Len(s)
    BY <1>1
  <2>2. s \in Seq(STRING)
    BY DEF Words
  <2> HIDE DEF Words
  <2> QED BY <2>1, <2>2, ConcatAdjacentSubSeq
<1>5. SubSeq(s, 1, Len(s)) = s
  BY SubSeqFull DEF Words
<1> QED BY <1>3, <1>6, <1>4, <1>5

LEMMA Joined ==
  ASSUME NEW s \in Words, NEW t \in Words
  PROVE  s \o t \in Words /\ Len(s \o t) = Len(s) + Len(t)
BY ConcatProperties DEF Words

LEMMA Regroup ==
  ASSUME NEW s \in Words, NEW t \in Words, NEW u \in Words
  PROVE  (s \o t) \o u = s \o (t \o u)
BY ConcatAssociative DEF Words

LEMMA PutTogether ==
  ASSUME NEW s \in Words, NEW t \in Words, NEW u \in Words, NEW v \in Words
  PROVE  (s \o t) \o (u \o v) = (s \o (t \o u)) \o v
<1>1. s \o t \in Words
  BY Joined
<1>2. (s \o t) \o (u \o v) = ((s \o t) \o u) \o v
  BY <1>1, Regroup, Zenon
<1>3. (s \o t) \o u = s \o (t \o u)
  BY Regroup, Zenon
<1> QED BY <1>2, <1>3, Zenon

LEMMA TakeFront ==
  ASSUME NEW s \in Words, NEW t \in Words, NEW v \in Words, NEW n \in 0..Len(t)
  PROVE  (s \o SubSeq(t, 1, n)) \o (SubSeq(t, n + 1, Len(t)) \o v) = (s \o t) \o v
<1> DEFINE front == SubSeq(t, 1, n)
           rest == SubSeq(t, n + 1, Len(t))
<1>1. front \in Words /\ rest \in Words
  BY CutInTwo
<1>2. front \o rest = t
  BY CutInTwo
<1> HIDE DEF front, rest
<1>3. (s \o front) \o (rest \o v) = (s \o (front \o rest)) \o v
  BY <1>1, PutTogether, SMTT(60)
<1>4. (s \o front) \o (rest \o v) = (s \o t) \o v
  BY <1>2, <1>3
<1> QED BY <1>4 DEF front, rest

LEMMA WithNothing ==
  ASSUME NEW s \in Words
  PROVE  <<>> \o s = s /\ s \o <<>> = s /\ <<>> \in Words
BY ConcatEmptySeq, EmptySeq DEF Words

LEMMA WordLength ==
  ASSUME NEW s \in Words
  PROVE  Len(s) \in Nat /\ (s # <<>> <=> Len(s) > 0)
BY LenProperties, EmptySeq DEF Words

\* What the operation that runs looks like.
LEMMA OpTyped ==
  ASSUME SessionType, step <= Len(plan.script)
  PROVE  /\ Op \in Operation /\ Op.text \in Words /\ Op.pattern \in Words
         /\ Op.kind \in {"sendWait", "capture"} => Op.pattern # <<>>
         /\ Pattern \in Words
<1>1. plan.script \in Seq(Operation)
  BY SessionAssumption DEF SessionType
<1>2. step \in 1..Len(plan.script) /\ step \in DOMAIN plan.script
  BY <1>1, LenProperties DEF SessionType
<1>3. Op \in Operation
  BY <1>1, <1>2, ElementOfSeq DEF Op
<1>4. Op.kind \in {"sendWait", "capture"} => Op.pattern # <<>>
  BY <1>2, SessionAssumption DEF Op, SessionType
<1> QED BY <1>3, <1>4 DEF Pattern, Operation, Words

\* An event that ends behind a pattern ends in what was captured.
LEMMA EndInside ==
  ASSUME SessionType, step <= Len(plan.script)
  PROVE  End \in 0..Len(captured)
<1> DEFINE at == FindSubslice(captured, Pattern)
<1>1. captured \in Words /\ Pattern \in Words /\ Len(captured) \in Nat /\ Len(Pattern) \in Nat
  BY OpTyped, WordLength DEF SessionType
<1>2. \/ at = 0
      \/ at \in 1..Len(captured) /\ OccursAt(captured, Pattern, at)
  BY <1>1, FindFound DEF FindSubslice, Words
<1> HIDE DEF at
<1>3. CASE at = 0
  BY <1>1, <1>3 DEF End, at
<1>4. CASE at # 0
  <2>1. at \in 1..Len(captured) /\ at + Len(Pattern) - 1 <= Len(captured)
    BY <1>2, <1>4 DEF OccursAt
  <2>2. End = at + Len(Pattern) - 1
    BY <1>4 DEF End, at
  <2> QED BY <1>1, <2>1, <2>2
<1> QED BY <1>3, <1>4

-----------------------------------------------------------------------------
\* Every step either moves bytes between the tracer's own hands, while the child
\* and the terminal may write more, or is one of the reader's two.
Grows == \E out \in Words : pty' = pty \o out /\ wrote' = wrote \o out

Moves ==
  /\ Grows /\ chunk' = chunk
  /\ taken' \in Words /\ captured' \in Words /\ bytes' \in Words
  /\ taken' \o captured' \o bytes' = taken \o captured \o bytes
  /\ pc' \in {"ready", "settle", "arm", "write", "wait"} => captured' = <<>>

Reads == ReadChunk \/ AppendChunk

LEMMA QuietGrows ==
  ASSUME SessionType, UNCHANGED <<pty, wrote>>
  PROVE  Grows
BY WithNothing DEF SessionType, Grows

LEMMA WriteGrows ==
  ASSUME SessionType, step <= Len(plan.script), Write(Op.text)
  PROVE  Grows
BY OpTyped, QuietGrows DEF Write, Emit, Grows

LEMMA ChildGrows ==
  ASSUME SessionType, ChildWrites
  PROVE  Grows
<1>1. PICK n \in (childAt + 1)..Len(plan.output) : Emit(SubSeq(plan.output, childAt + 1, n))
  BY DEF ChildWrites
<1>2. plan.output \in Seq(STRING) /\ Len(plan.output) \in Nat
  BY SessionAssumption, LenProperties DEF SessionType
<1>3. childAt \in Nat /\ n \in childAt..Len(plan.output)
  BY <1>1, <1>2 DEF SessionType
<1>4. SubSeq(plan.output, childAt + 1, n) \in Words
  BY <1>2, <1>3, Window DEF Words
<1> QED BY <1>1, <1>4 DEF Emit, Grows

LEMMA StepsMove ==
  ASSUME SessionType, Place, [Next]_vars
  PROVE  Moves \/ Reads
<1> USE DEF vars, childVars, sharedVars, drainVars, mainVars, MainOther, DrainOther, Quiet, NextOp,
            Goto, Goes, Nothing, Record, Start, Fails
<1>0. SessionType /\ Place
  OBVIOUS
<1>1. taken \in Words /\ captured \in Words /\ bytes \in Words /\ chunk \in Words
  BY DEF SessionType
<1>2. <<>> \in Words /\ taken \o captured \in Words
  BY <1>1, Joined, WithNothing
<1> DEFINE Same == UNCHANGED <<taken, captured, bytes, chunk>>
<1>3. ASSUME Same, Grows,
             pc' \in {"ready", "settle", "arm", "write", "wait"} => captured = <<>>
      PROVE  Moves
  BY <1>1, <1>3 DEF Moves
<1>4. pc \in {"ready", "settle", "arm", "write", "wait"} => captured = <<>>
  BY DEF Place
<1>5. UNCHANGED <<pty, wrote>> => Grows
  BY QuietGrows
<1>6. pc \in Busy => step <= Len(plan.script)
  BY DEF Place
<1>7. step <= Len(plan.script) /\ Write(Op.text) => Grows
  BY WriteGrows
<1>8. CASE ChildWrites \/ ChildExits
  <2>1. Grows
    BY <1>5, <1>8, ChildGrows DEF ChildExits
  <2> QED BY <1>3, <1>4, <1>8, <2>1 DEF ChildWrites, ChildExits
<1>9. CASE DrainTop \/ SelectTimesOut \/ ReadFails
  BY <1>3, <1>4, <1>5, <1>9 DEF DrainTop, SelectTimesOut, ReadFails
<1>10. CASE Overruns \/ WriteFails \/ Present \/ PresentTyped \/ SendWait \/ WaitFor
  <2>1. Same /\ Grows
    BY <1>4, <1>5, <1>10 DEF Overruns, WriteFails, Present, PresentTyped, SendWait, WaitFor
  <2>2. pc' \in {"ready", "settle", "arm", "write", "wait"} => captured = <<>>
    BY <1>4, <1>10 DEF Overruns, WriteFails, Present, PresentTyped, SendWait, WaitFor
  <2> QED BY <1>3, <2>1, <2>2
<1>11. CASE Send \/ Press \/ Capture \/ WriteArmed
  <2>1. step <= Len(plan.script) /\ Write(Op.text)
    BY <1>6, <1>11 DEF Send, Press, Capture, WriteArmed, Busy
  <2>2. Same
    BY <1>11 DEF Send, Press, Capture, WriteArmed, Register
  <2>3. captured = <<>>
    BY <1>4, <1>11 DEF Send, Press, Capture, WriteArmed
  <2> QED BY <1>3, <1>7, <2>1, <2>2, <2>3
<1>12. CASE Arm \/ TimesOut \/ PollAgain \/ Stop \/ Shutdown \/ Join \/ Ended \/ UNCHANGED vars
  <2>1. Same /\ UNCHANGED <<pty, wrote>>
    BY <1>12 DEF Arm, Register, TimesOut, PollAgain, Stop, Shutdown, Join, Ended
  <2>2. pc' \in {"ready", "settle", "arm", "write", "wait"} => captured = <<>>
    BY <1>4, <1>12 DEF Arm, TimesOut, PollAgain, Stop, Shutdown, Join, Ended
  <2> QED BY <1>3, <1>5, <2>1, <2>2
<1> SUFFICES ASSUME Type \/ WatchFired \/ PollRegex \/ PutBack \/ RecordEcho \/ Settle
             PROVE  Moves
  BY <1>8, <1>9, <1>10, <1>11, <1>12 DEF Next, Reader, Script, Reads
<1>13. Grows /\ chunk' = chunk
  BY <1>5 DEF Type, WatchFired, PollRegex, PutBack, RecordEcho, Settle
<1>14. CASE Type \/ Settle
  <2>1. captured = <<>> /\ captured' = <<>>
    BY <1>4, <1>14 DEF Type, Settle
  <2>2. \/ taken' = taken /\ bytes' = bytes
        \/ taken' = taken \o bytes /\ bytes' = <<>>
    BY <1>14 DEF Type, Settle
  <2> QED BY <1>1, <1>2, <1>13, <2>1, <2>2, WithNothing, Joined DEF Moves
<1>15. CASE WatchFired
  <2>1. captured = <<>> /\ captured' = bytes /\ bytes' = <<>> /\ taken' = taken
    BY <1>4, <1>15 DEF WatchFired
  <2>2. pc' \in {"echo", "putBack"}
    BY <1>15 DEF WatchFired
  <2>3. taken' \o captured' \o bytes' = taken \o captured \o bytes
    BY <1>1, <1>2, <2>1, WithNothing, Joined
  <2> QED BY <1>1, <1>2, <1>13, <2>1, <2>2, <2>3 DEF Moves
<1>16. CASE PollRegex
  <2>1. captured' = captured \o bytes /\ bytes' = <<>> /\ taken' = taken
    BY <1>16 DEF PollRegex
  <2>2. pc' \in {"missed", "putBack"}
    BY <1>16 DEF PollRegex
  <2>3. taken \o (captured \o bytes) = taken \o captured \o bytes /\ captured \o bytes \in Words
    <3>1. captured \o bytes \in Words
      BY <1>1, Joined
    <3>2. (taken \o captured) \o bytes = taken \o (captured \o bytes)
      BY <1>1, Regroup
    <3> QED BY <3>1, <3>2
  <2>4. (taken \o (captured \o bytes)) \o <<>> = taken \o (captured \o bytes)
    BY <1>1, <2>3, WithNothing, Joined
  <2> QED BY <1>1, <1>2, <1>13, <2>1, <2>2, <2>3, <2>4 DEF Moves
<1>17. CASE PutBack
  <2> DEFINE front == SubSeq(captured, 1, End)
             rest == SubSeq(captured, End + 1, Len(captured))
  <2>1. step <= Len(plan.script)
    BY <1>6, <1>17 DEF PutBack, Busy
  <2>2. front \in Words /\ rest \in Words /\ front \o rest = captured
    BY <1>1, <2>1, EndInside, CutInTwo
  <2>3. taken' = taken \o front /\ bytes' = rest \o bytes /\ captured' = <<>>
    BY <1>17 DEF PutBack, Unconsumed
  <2> HIDE DEF front, rest
  <2>4. taken' \in Words /\ bytes' \in Words /\ captured' \in Words
    BY <1>1, <2>2, <2>3, Joined, WithNothing
  <2>7. taken' \o captured' = taken'
    BY <2>3, <2>4, WithNothing
  <2>5. taken' \o bytes' = (taken \o captured) \o bytes
    <3>1. taken' = taken \o SubSeq(captured, 1, End)
          /\ bytes' = SubSeq(captured, End + 1, Len(captured)) \o bytes
      BY <1>17 DEF PutBack, Unconsumed
    <3> QED BY <1>1, <2>1, <3>1, EndInside, TakeFront
  <2>6. taken' \o captured' \o bytes' = taken \o captured \o bytes
    BY <2>5, <2>7, Zenon
  <2> QED BY <1>13, <2>3, <2>4, <2>6, Zenon DEF Moves
<1>18. CASE RecordEcho
  <2>1. CASE taken' = taken /\ captured' = captured /\ pc' = "drop"
    <3>1. bytes' = bytes
      BY <1>18 DEF RecordEcho
    <3> QED BY <1>1, <1>13, <2>1, <3>1 DEF Moves
  <2>2. CASE taken' = taken \o captured /\ captured' = <<>>
    <3>1. bytes' = bytes
      BY <1>18 DEF RecordEcho
    <3> QED BY <1>1, <1>2, <1>13, <2>2, <3>1, WithNothing DEF Moves
  <2> QED BY <1>18, <2>1, <2>2 DEF RecordEcho
<1> QED BY <1>14, <1>15, <1>16, <1>17, <1>18

LEMMA ReadMoves ==
  ASSUME SessionType, Place, ReadChunk
  PROVE  /\ chunk' \in Words /\ pty' \in Words /\ chunk' \o pty' = pty /\ chunk = <<>>
         /\ drainer' = "append"
         /\ UNCHANGED <<taken, captured, bytes, wrote, watches, fired, plan, childAt, step, pc, armed, result>>
<1>1. PICK n \in 1..Min({MaxRead, Len(pty)}) :
         chunk' = SubSeq(pty, 1, n) /\ pty' = SubSeq(pty, n + 1, Len(pty))
  BY DEF ReadChunk
<1>2. pty \in Words /\ Len(pty) \in Nat /\ MaxRead \in Nat
  BY WordLength, SessionAssumption DEF SessionType
<1>3. Min({MaxRead, Len(pty)}) \in Nat /\ Min({MaxRead, Len(pty)}) <= Len(pty)
  BY <1>2, Lesser
<1>4. n \in 0..Len(pty)
  BY <1>1, <1>2, <1>3
<1>5. /\ chunk' \in Words /\ pty' \in Words /\ chunk' \o pty' = pty
  BY <1>1, <1>2, <1>4, CutInTwo
<1>6. chunk = <<>>
  BY DEF ReadChunk, Place
<1> QED BY <1>5, <1>6 DEF ReadChunk, DrainOther, sharedVars, childVars, mainVars

LEMMA AppendMoves ==
  ASSUME SessionType, AppendChunk
  PROVE  /\ bytes' = bytes \o chunk /\ bytes' \in Words /\ chunk' = <<>> /\ chunk' \in Words
         /\ drainer' = "top"
         /\ UNCHANGED <<taken, captured, pty, wrote, plan, childAt, step, pc, armed, result>>
BY Joined, WithNothing DEF SessionType, AppendChunk, DrainOther, childVars, mainVars

\* No byte is lost, doubled or moved.
LEMMA StreamKept ==
  ASSUME SessionType, Place, Stream, [Next]_vars
  PROVE  Stream'
<1> DEFINE own == taken \o captured \o bytes
<1>1. /\ taken \in Words /\ captured \in Words /\ bytes \in Words /\ chunk \in Words
      /\ pty \in Words /\ wrote \in Words
  BY DEF SessionType
<1>2. taken \o captured \in Words /\ own \in Words
  BY <1>1, Joined
<1>3. own \o chunk \in Words /\ (own \o chunk) \o pty = wrote
  <2>1. (own \o chunk) \o pty = wrote
    BY DEF Stream
  <2> HIDE DEF own
  <2> QED BY <1>1, <1>2, <2>1, Joined
<1>4. CASE Moves
  <2>1. PICK out \in Words : pty' = pty \o out /\ wrote' = wrote \o out
    BY <1>4 DEF Moves, Grows
  <2>2. own' = own /\ chunk' = chunk
    BY <1>4 DEF Moves
  <2> HIDE DEF own
  <2>3. ((own \o chunk) \o pty) \o out = (own \o chunk) \o (pty \o out)
    <3> DEFINE ahead == own \o chunk
    <3>1. ahead \in Words /\ pty \in Words /\ out \in Words
      BY <1>1, <1>3
    <3> HIDE DEF ahead
    <3>2. (ahead \o pty) \o out = ahead \o (pty \o out)
      BY <3>1, Regroup, Zenon
    <3> QED BY <3>2 DEF ahead
  <2>4. (own' \o chunk') \o pty' = wrote'
    BY <1>3, <2>1, <2>2, <2>3, Zenon
  <2> QED BY <2>4, Zenon DEF own, Stream
<1>5. CASE ReadChunk
  <2>1. own' = own /\ wrote' = wrote /\ chunk = <<>> /\ chunk' \o pty' = pty
        /\ chunk' \in Words /\ pty' \in Words
    BY <1>5, ReadMoves
  <2> HIDE DEF own
  <2>2. own \o chunk = own
    BY <1>2, <2>1, WithNothing
  <2>3. (own \o chunk') \o pty' = own \o (chunk' \o pty')
    BY <1>2, <2>1, Regroup, Zenon
  <2>4. (own' \o chunk') \o pty' = wrote'
    BY <1>3, <2>1, <2>2, <2>3, Zenon
  <2> QED BY <2>4, Zenon DEF own, Stream
<1>6. CASE AppendChunk
  <2>1. bytes' = bytes \o chunk /\ chunk' = <<>> /\ UNCHANGED <<taken, captured, pty, wrote>>
    BY <1>6, AppendMoves
  <2>2. (taken \o captured) \o (bytes \o chunk) = own \o chunk
    BY <1>1, <1>2, Regroup, SMTT(60)
  <2>3. (own \o chunk) \o <<>> = own \o chunk
    BY <1>3, WithNothing, Zenon
  <2>4. own' = own \o chunk
    BY <2>1, <2>2, Zenon
  <2> HIDE DEF own
  <2>5. (own' \o chunk') \o pty' = wrote'
    BY <1>3, <2>1, <2>3, <2>4, Zenon
  <2> QED BY <2>5, Zenon DEF own, Stream
<1> QED BY <1>4, <1>5, <1>6, StepsMove DEF Reads

\* Registering looks at the operation's own pattern.
LEMMA RegisterTyped ==
  ASSUME SessionType, NEW pattern \in Words \ {<<>>}, Register(pattern)
  PROVE  /\ armed' \in Nat /\ fired' \subseteq Nat
         /\ watches' \subseteq [id : Nat, pattern : Words \ {<<>>}, carry : Words, from : Nat]
<1>1. Buffered \in Nat
  <2>1. Len(taken) \in Nat /\ Len(captured) \in Nat /\ Len(bytes) \in Nat
    BY WordLength DEF SessionType
  <2> QED BY <2>1 DEF Buffered
<1>2. <<>> \in Words /\ step \in Nat
  BY WithNothing DEF SessionType
<1> DEFINE Watch == [id : Nat, pattern : Words \ {<<>>}, carry : Words, from : Nat]
           new == [id |-> step, pattern |-> pattern, carry |-> <<>>, from |-> Buffered]
<1> HIDE DEF Buffered
<1>3. new \in Watch
  BY <1>1, <1>2
<1>4. watches \subseteq Watch /\ fired \subseteq Nat /\ armed' = step
      /\ fired' \subseteq fired \cup {step} /\ watches' \subseteq watches \cup {new}
  BY DEF SessionType, Register
<1> HIDE DEF Watch, new
<1>5. watches' \subseteq Watch /\ armed' \in Nat /\ fired' \subseteq Nat
  BY <1>2, <1>3, <1>4
<1> QED BY <1>5 DEF Watch

LEMMA CarriedTyped ==
  ASSUME SessionType, NEW w \in watches
  PROVE  Carried(w) \in [id : Nat, pattern : Words \ {<<>>}, carry : Words, from : Nat]
<1> DEFINE long == w.carry \o chunk
           n == Min({Len(w.pattern) - 1, Len(long)})
<1>1. /\ w \in [id : Nat, pattern : Words \ {<<>>}, carry : Words, from : Nat]
      /\ chunk \in Words /\ w.carry \in Words /\ w.pattern \in Words \ {<<>>}
  BY DEF SessionType
<1>2. long \in Words /\ Len(long) \in Nat /\ Len(w.pattern) - 1 \in Nat
  BY <1>1, Joined, WordLength
<1> HIDE DEF long
<1>3. n \in Nat /\ n <= Len(long)
  BY <1>2, Lesser
<1> HIDE DEF n
<1>4. SubSeq(long, (Len(long) - n) + 1, Len(long)) \in Words
  <2>1. Len(long) - n \in 0..Len(long)
    BY <1>2, <1>3
  <2> QED BY <1>2, <2>1, CutInTwo
<1>5. Carried(w) = [w EXCEPT !.carry = SubSeq(long, Len(long) - n + 1, Len(long))]
  BY <1>1 DEF Carried, LastBytes, long, n
<1> QED BY <1>1, <1>4, <1>5

LEMMA ArmsWell ==
  ASSUME SessionType, Place, Armed, Arm
  PROVE  Pattern \in Words \ {<<>>}
BY OpTyped DEF Place, Busy, Arm, Armed

LEMMA CapturesWell ==
  ASSUME SessionType, Capture
  PROVE  Op.pattern \in Words \ {<<>>}
BY OpTyped DEF Capture, Start

LEMMA TypesKept ==
  ASSUME SessionType, Place, Armed, [Next]_vars
  PROVE  SessionType' /\ Place'
<1> USE DEF vars, childVars, sharedVars, drainVars, mainVars, MainOther, DrainOther, Quiet, NextOp,
            Goto, Goes, Nothing, Record, Start, Fails
<1> DEFINE Bytes ==
             /\ pty' \in Words /\ wrote' \in Words /\ taken' \in Words /\ captured' \in Words
             /\ bytes' \in Words /\ chunk' \in Words
             /\ pc' \in {"ready", "settle", "arm", "write", "wait"} => captured' = <<>>
<1>1. Bytes
  <2>1. CASE Moves
    BY <2>1, Joined DEF Moves, Grows, SessionType
  <2>2. CASE ReadChunk
    BY <2>2, ReadMoves DEF SessionType, Place
  <2>3. CASE AppendChunk
    BY <2>3, AppendMoves DEF SessionType, Place
  <2> QED BY <2>1, <2>2, <2>3, StepsMove DEF Reads
<1> HIDE DEF Bytes
<1> DEFINE Marked == UNCHANGED <<watches, fired, armed>>
           Kept == UNCHANGED <<plan, childAt>> /\ UNCHANGED <<drainer, chunk>>
<1>2. step \in Nat \ {0} /\ step + 1 \in Nat \ {0} /\ armed \in Nat /\ childAt \in Nat
  BY DEF SessionType
\* A step of the script that leaves the watches alone.
<1>3. ASSUME Marked, Kept, step' \in {step, step + 1},
             pc' \in Busy \cup {"ready", "drop", "join", "done"},
             pc' \in Busy => step' <= Len(plan.script)
      PROVE  SessionType' /\ Place'
  BY <1>1, <1>2, <1>3 DEF SessionType, Place, Bytes
<1>4. pc \in Busy => step <= Len(plan.script)
  BY DEF Place
<1>5. pc \in Busy \cup {"ready", "drop", "join", "done"}
  BY DEF SessionType
<1>6. CASE ChildWrites
  <2>1. childAt' \in Nat
    <3>1. Len(plan.output) \in Nat
      BY SessionAssumption, LenProperties DEF SessionType
    <3> QED BY <1>2, <1>6, <3>1 DEF ChildWrites
  <2> QED BY <1>1, <1>6, <2>1 DEF ChildWrites, SessionType, Place, Bytes
<1>7. CASE ChildExits \/ Ended \/ UNCHANGED vars
  BY <1>1, <1>7 DEF ChildExits, Ended, SessionType, Place, Bytes
<1>8. CASE DrainTop \/ SelectTimesOut \/ ReadFails
  BY <1>1, <1>8 DEF DrainTop, SelectTimesOut, ReadFails, SessionType, Place, Bytes
<1>9. CASE ReadChunk
  BY <1>1, <1>9 DEF ReadChunk, SessionType, Place, Bytes
<1>10. CASE AppendChunk
  <2>1. watches' \subseteq [id : Nat, pattern : Words \ {<<>>}, carry : Words, from : Nat]
    BY <1>10, CarriedTyped DEF AppendChunk
  <2>2. fired' \subseteq Nat
    <3>1. \A w \in watches : w.id \in Nat
      BY DEF SessionType
    <3>2. fired \subseteq Nat
      BY DEF SessionType
    <3> QED BY <1>10, <3>1, <3>2 DEF AppendChunk
  <2>3. chunk' = <<>> /\ drainer' = "top" /\ UNCHANGED <<plan, childAt, step, pc, armed>>
    BY <1>10 DEF AppendChunk
  <2> QED BY <1>1, <2>1, <2>2, <2>3 DEF SessionType, Place, Bytes
<1>11. CASE Capture
  <2>1. /\ armed' \in Nat /\ fired' \subseteq Nat
        /\ watches' \subseteq [id : Nat, pattern : Words \ {<<>>}, carry : Words, from : Nat]
    BY <1>11, CapturesWell, RegisterTyped DEF Capture
  <2>2. Kept /\ step' = step /\ pc' = "settle" /\ step <= Len(plan.script)
    BY <1>11 DEF Capture
  <2> QED BY <1>1, <1>2, <2>1, <2>2 DEF SessionType, Place, Bytes, Busy
<1>12. CASE Arm
  <2>1. /\ armed' \in Nat /\ fired' \subseteq Nat
        /\ watches' \subseteq [id : Nat, pattern : Words \ {<<>>}, carry : Words, from : Nat]
    BY <1>12, ArmsWell, RegisterTyped DEF Arm
  <2>2. Kept /\ step' = step /\ pc' = "write" /\ step <= Len(plan.script)
    BY <1>4, <1>12 DEF Arm, Busy
  <2> QED BY <1>1, <1>2, <2>1, <2>2 DEF SessionType, Place, Bytes, Busy
<1>13. CASE Overruns \/ WriteFails \/ Send \/ Press \/ Present \/ PresentTyped
  <2>1. Marked /\ Kept /\ step' \in {step, step + 1}
    BY <1>13 DEF Overruns, WriteFails, Send, Press, Present, PresentTyped
  <2>2. pc' \in {"ready", "drop", "settle"} /\ (pc' = "settle" => step' = step /\ step <= Len(plan.script))
    BY <1>13 DEF Overruns, WriteFails, Send, Press, Present, PresentTyped
  <2> QED BY <1>3, <2>1, <2>2 DEF Busy
<1>14. CASE Type \/ SendWait \/ WaitFor
  <2>1. Marked /\ Kept /\ step' \in {step, step + 1}
    BY <1>14 DEF Type, SendWait, WaitFor
  <2>2. pc' \in {"ready", "arm", "poll"} /\ (pc' # "ready" => step' = step) /\ step <= Len(plan.script)
    BY <1>14 DEF Type, SendWait, WaitFor
  <2> QED BY <1>3, <2>1, <2>2 DEF Busy
<1>15. CASE WriteArmed \/ WatchFired \/ PollRegex \/ PollAgain
  <2>1. Marked /\ Kept /\ step' = step
    BY <1>15 DEF WriteArmed, WatchFired, PollRegex, PollAgain
  <2>2. pc \in {"write", "wait", "poll", "missed"} /\ pc' \in {"wait", "echo", "putBack", "missed", "poll"}
    BY <1>15 DEF WriteArmed, WatchFired, PollRegex, PollAgain
  <2> QED BY <1>3, <1>4, <2>1, <2>2 DEF Busy
<1>16. CASE TimesOut \/ RecordEcho \/ PutBack \/ Settle \/ Stop \/ Shutdown \/ Join
  <2>1. Marked /\ Kept /\ step' \in {step, step + 1}
    BY <1>16 DEF TimesOut, RecordEcho, PutBack, Settle, Stop, Shutdown, Join
  <2>2. pc' \in {"ready", "drop", "join", "done"}
    BY <1>16 DEF TimesOut, RecordEcho, PutBack, Settle, Stop, Shutdown, Join
  <2> QED BY <1>3, <2>1, <2>2 DEF Busy
<1> QED BY <1>6, <1>7, <1>8, <1>9, <1>10, <1>11, <1>12, <1>13, <1>14, <1>15, <1>16
     DEF Next, Reader, Script

-----------------------------------------------------------------------------
\* Windows: the stretch of s from a + 1 to b.
LEMMA WindowWord ==
  ASSUME NEW s \in Words, NEW a \in Nat, NEW b \in a..Len(s)
  PROVE  /\ SubSeq(s, a + 1, b) \in Words /\ Len(SubSeq(s, a + 1, b)) = b - a
         /\ b \in Nat /\ Len(s) \in Nat
<1>1. b \in Nat /\ Len(s) \in Nat
  BY WordLength
<1> QED BY <1>1, Window DEF Words

LEMMA WindowInWindow ==
  ASSUME NEW s \in Words, NEW a \in Nat, NEW b \in a..Len(s), NEW x \in Nat, NEW y \in x..(b - a)
  PROVE  SubSeq(SubSeq(s, a + 1, b), x + 1, y) = SubSeq(s, (a + x) + 1, a + y)
<1> DEFINE t == SubSeq(s, a + 1, b)
           u == SubSeq(t, x + 1, y)
           v == SubSeq(s, (a + x) + 1, a + y)
<1>1. b \in Nat /\ Len(s) \in Nat /\ y \in Nat /\ s \in Seq(STRING)
  BY WordLength DEF Words
<1>2. t \in Seq(STRING) /\ Len(t) = b - a /\ \A k \in 1..(b - a) : t[k] = s[a + k]
  BY <1>1, Window
<1> HIDE DEF t
<1>3. y \in x..Len(t)
  BY <1>2
<1>4. u \in Seq(STRING) /\ Len(u) = y - x /\ \A k \in 1..(y - x) : u[k] = t[x + k]
  BY <1>2, <1>3, Window, SMTT(30)
<1>5. a + x \in Nat /\ a + y \in (a + x)..Len(s) /\ (a + y) - (a + x) = y - x
  BY <1>1
<1>6. v \in Seq(STRING) /\ Len(v) = y - x /\ \A k \in 1..(y - x) : v[k] = s[(a + x) + k]
  <2>1. v \in Seq(STRING) /\ Len(v) = (a + y) - (a + x)
        /\ \A k \in 1..((a + y) - (a + x)) : v[k] = s[(a + x) + k]
    BY <1>1, <1>5, Window
  <2> QED BY <1>5, <2>1
<1> HIDE DEF u, v
<1>7. ASSUME NEW k \in 1..(y - x)
      PROVE  u[k] = v[k]
  <2>1. x + k \in 1..(b - a) /\ a + (x + k) = (a + x) + k
    BY <1>1, <1>7
  <2> QED BY <1>2, <1>4, <1>6, <2>1
<1>8. u = v
  BY <1>4, <1>6, <1>7, SeqEqual
<1> QED BY <1>8 DEF t, u, v

LEMMA WindowsMeet ==
  ASSUME NEW s \in Words, NEW a \in Nat, NEW b \in a..Len(s), NEW c \in b..Len(s)
  PROVE  SubSeq(s, a + 1, b) \o SubSeq(s, b + 1, c) = SubSeq(s, a + 1, c)
<1>1. s \in Seq(STRING) /\ Len(s) \in Nat /\ b \in Nat
  BY WordLength DEF Words
<1>2. a + 1 \in 1..(Len(s) + 1) /\ b \in ((a + 1) - 1)..Len(s)
  BY <1>1
<1> QED BY <1>1, <1>2, ConcatAdjacentSubSeq

\* What is written later leaves a window as it is.
LEMMA WindowStays ==
  ASSUME NEW s \in Words, NEW out \in Words, NEW a \in Nat, NEW b \in a..Len(s)
  PROVE  SubSeq(s \o out, a + 1, b) = SubSeq(s, a + 1, b)
<1>1. /\ Len(s) \in Nat /\ Len(out) \in Nat /\ b \in Nat
      /\ s \o out \in Words /\ Len(s \o out) = Len(s) + Len(out)
      /\ \A k \in 1..Len(s) : (s \o out)[k] = s[k]
  BY WordLength, ConcatProperties DEF Words
<1> DEFINE t == s \o out
           u == SubSeq(t, a + 1, b)
           v == SubSeq(s, a + 1, b)
<1> HIDE DEF t
<1>2. b \in a..Len(t) /\ t \in Words
  BY <1>1 DEF t
<1>3. u \in Seq(STRING) /\ Len(u) = b - a /\ \A k \in 1..(b - a) : u[k] = t[a + k]
  BY <1>2, Window DEF Words
<1>4. v \in Seq(STRING) /\ Len(v) = b - a /\ \A k \in 1..(b - a) : v[k] = s[a + k]
  BY Window DEF Words
<1>5. \A k \in 1..(b - a) : a + k \in 1..Len(s) /\ t[a + k] = s[a + k]
  BY <1>1 DEF t
<1> HIDE DEF u, v
<1>6. u = v
  BY <1>3, <1>4, <1>5, SeqEqual
<1> QED BY <1>6 DEF t, u, v

\* The middle of three sequences is a window of them all.
LEMMA MiddleIsWindow ==
  ASSUME NEW s \in Words, NEW t \in Words, NEW u \in Words
  PROVE  SubSeq((s \o t) \o u, Len(s) + 1, Len(s) + Len(t)) = t
<1>1. /\ Len(s) \in Nat /\ Len(t) \in Nat
      /\ s \o t \in Words /\ Len(s \o t) = Len(s) + Len(t)
      /\ \A k \in 1..(Len(s) + Len(t)) : (s \o t)[k] = IF k <= Len(s) THEN s[k] ELSE t[k - Len(s)]
  BY WordLength, ConcatProperties DEF Words
<1> DEFINE both == s \o t
<1>2. Len(s) + Len(t) \in Len(s)..Len(both)
  BY <1>1
<1>3. SubSeq(both \o u, Len(s) + 1, Len(s) + Len(t)) = SubSeq(both, Len(s) + 1, Len(s) + Len(t))
  <2>1. both \in Words
    BY <1>1
  <2> HIDE DEF both
  <2> QED BY <1>1, <1>2, <2>1, WindowStays
<1> DEFINE v == SubSeq(both, Len(s) + 1, Len(s) + Len(t))
<1>4. v \in Seq(STRING) /\ Len(v) = Len(t) /\ \A k \in 1..Len(t) : v[k] = both[Len(s) + k]
  <2>1. both \in Seq(STRING)
    BY <1>1 DEF Words
  <2> HIDE DEF both
  <2>2. (Len(s) + Len(t)) - Len(s) = Len(t)
    BY <1>1
  <2>3. v \in Seq(STRING) /\ Len(v) = (Len(s) + Len(t)) - Len(s)
        /\ \A k \in 1..((Len(s) + Len(t)) - Len(s)) : v[k] = both[Len(s) + k]
    BY <1>1, <1>2, <2>1, Window
  <2> QED BY <2>2, <2>3
<1>5. \A k \in 1..Len(t) : both[Len(s) + k] = t[k]
  BY <1>1
<1> HIDE DEF v, both
<1>6. v = t
  BY <1>4, <1>5, SeqEqual DEF Words
<1> QED BY <1>3, <1>6 DEF v, both

\* A window holds a pattern where the whole has it, as far as it fits.
LEMMA HoldsInWindow ==
  ASSUME NEW s \in Words, NEW a \in Nat, NEW b \in a..Len(s), NEW word \in Words \ {<<>>}
  PROVE  Holds(SubSeq(s, a + 1, b), word)
           <=> \E i \in Nat : a < i /\ i + Len(word) - 1 <= b /\ OccursAt(s, word, i)
<1> DEFINE t == SubSeq(s, a + 1, b)
           f == FindFrom(t, word, 1)
<1>1. t \in Seq(STRING) /\ Len(t) = b - a /\ b \in Nat /\ Len(s) \in Nat
  BY WindowWord DEF Words
<1>2. Len(word) \in Nat /\ Len(word) > 0
  BY WordLength
<1>3. \A k \in Nat \ {0} : OccursAt(t, word, k) <=> /\ a + k + Len(word) - 1 <= b
                                                   /\ OccursAt(s, word, a + k)
  BY OccursInWindow DEF Words
<1> HIDE DEF t
<1>4. \/ f = 0 /\ \A k \in 1..Len(t) : ~OccursAt(t, word, k)
      \/ f \in 1..Len(t) /\ OccursAt(t, word, f)
  BY <1>1, FindFound
<1>5. Holds(t, word) <=> f # 0
  BY DEF Holds, FindSubslice
<1> HIDE DEF f
<1>6. CASE f # 0
  <2>1. f \in Nat \ {0} /\ a + f + Len(word) - 1 <= b /\ OccursAt(s, word, a + f)
    BY <1>1, <1>3, <1>4, <1>6
  <2>2. a + f \in Nat /\ a < a + f
    BY <2>1
  <2> QED BY <1>5, <1>6, <2>1, <2>2 DEF t
<1>7. CASE f = 0
  <2>1. ASSUME NEW i \in Nat, a < i, i + Len(word) - 1 <= b, OccursAt(s, word, i)
        PROVE  FALSE
    <3>1. i - a \in 1..Len(t) /\ i - a \in Nat \ {0} /\ a + (i - a) = i
      BY <1>1, <1>2, <2>1
    <3>2. OccursAt(t, word, i - a)
      BY <1>2, <1>3, <2>1, <3>1
    <3> QED BY <1>4, <1>7, <3>1, <3>2
  <2> QED BY <1>5, <1>7, <2>1 DEF t
<1> QED BY <1>6, <1>7

\* The last bytes of a window are a window.
LEMMA LastOfWindow ==
  ASSUME NEW s \in Words, NEW a \in Nat, NEW b \in a..Len(s), NEW n \in Nat
  PROVE  LastBytes(SubSeq(s, a + 1, b), n) = SubSeq(s, (b - Min({n, b - a})) + 1, b)
<1> DEFINE t == SubSeq(s, a + 1, b)
           k == Min({n, b - a})
<1>1. t \in Words /\ Len(t) = b - a /\ b \in Nat
  BY WindowWord
<1>2. k \in Nat /\ k <= b - a
  BY <1>1, Lesser
<1>3. LastBytes(t, n) = SubSeq(t, (Len(t) - Min({n, Len(t)})) + 1, Len(t))
  BY DEF LastBytes
<1>4. SubSeq(SubSeq(s, a + 1, b), ((b - a) - k) + 1, b - a) = SubSeq(s, (a + ((b - a) - k)) + 1, a + (b - a))
  <2>1. (b - a) - k \in Nat /\ b - a \in ((b - a) - k)..(b - a)
    BY <1>1, <1>2
  <2> HIDE DEF k
  <2> QED BY <2>1, WindowInWindow
<1>5. a + ((b - a) - k) = b - k /\ a + (b - a) = b
  BY <1>1, <1>2
<1> HIDE DEF k
<1>6. SubSeq(t, ((b - a) - k) + 1, b - a) = SubSeq(s, (b - k) + 1, b)
  BY <1>4, <1>5
<1> HIDE DEF t
<1>7. LastBytes(t, n) = SubSeq(t, ((b - a) - k) + 1, b - a)
  BY <1>1, <1>3 DEF k
<1> QED BY <1>6, <1>7 DEF t, k

\* What a watch carries after a chunk is the end of all it has seen: bytes that it
\* let go before are no beginning of a match any more.
LEMMA CarryIsEnd ==
  ASSUME NEW s \in Words, NEW a \in Nat, NEW b \in a..Len(s), NEW c \in b..Len(s), NEW n \in Nat
  PROVE  LastBytes(LastBytes(SubSeq(s, a + 1, b), n) \o SubSeq(s, b + 1, c), n)
           = LastBytes(SubSeq(s, a + 1, c), n)
<1> DEFINE k == Min({n, b - a})
<1>1. a \in Nat /\ b \in Nat /\ c \in Nat /\ a <= b /\ b <= c /\ c <= Len(s) /\ Len(s) \in Nat
  BY WordLength
<1>2. k \in {n, b - a} /\ k <= n /\ k <= b - a /\ k \in Nat
  BY <1>1, Lesser
<1>3. LastBytes(SubSeq(s, a + 1, b), n) = SubSeq(s, (b - k) + 1, b)
  BY LastOfWindow
<1> HIDE DEF k
<1>4. b - k \in Nat /\ b \in (b - k)..Len(s) /\ c \in (b - k)..Len(s)
  BY <1>1, <1>2
<1>5. SubSeq(s, (b - k) + 1, b) \o SubSeq(s, b + 1, c) = SubSeq(s, (b - k) + 1, c)
  BY <1>4, WindowsMeet
<1>6. LastBytes(SubSeq(s, (b - k) + 1, c), n) = SubSeq(s, (c - Min({n, c - (b - k)})) + 1, c)
  BY <1>4, LastOfWindow
<1>7. LastBytes(SubSeq(s, a + 1, c), n) = SubSeq(s, (c - Min({n, c - a})) + 1, c)
  <2>1. c \in a..Len(s)
    BY <1>1
  <2> QED BY <2>1, LastOfWindow
<1>8. Min({n, c - (b - k)}) = Min({n, c - a})
  <2>1. CASE k = b - a
    BY <1>1, <2>1
  <2>2. CASE k = n
    <3>1. c - (b - k) \in Nat /\ c - a \in Nat /\ n <= c - (b - k) /\ n <= c - a
      BY <1>1, <1>2, <2>2
    <3>2. /\ Min({n, c - (b - k)}) \in {n, c - (b - k)} /\ Min({n, c - (b - k)}) <= n
      BY <3>1, Lesser
    <3>3. /\ Min({n, c - a}) \in {n, c - a} /\ Min({n, c - a}) <= n
      BY <3>1, Lesser
    <3> QED BY <3>1, <3>2, <3>3
  <2> QED BY <1>2, <2>1, <2>2
<1> QED BY <1>3, <1>5, <1>6, <1>7, <1>8

\* A match that ends in the new chunk is in the chunk, or it begins among the last
\* bytes before it: then the seam has all of it.
LEMMA SeamSeesAll ==
  ASSUME NEW s \in Words, NEW a \in Nat, NEW b \in a..Len(s), NEW c \in b..Len(s),
         NEW word \in Words \ {<<>>}, NEW k, k = Min({Len(word) - 1, b - a}),
         NEW m, m = Min({Len(word) - 1, c - b})
  PROVE  Holds(SubSeq(s, a + 1, c), word)
           <=> \/ Holds(SubSeq(s, a + 1, b), word)
               \/ k # 0 /\ Holds(SubSeq(s, (b - k) + 1, b + m), word)
               \/ Holds(SubSeq(s, b + 1, c), word)
<1> DEFINE L == Len(word)
           In(x, y) == \E i \in Nat : x < i /\ i + L - 1 <= y /\ OccursAt(s, word, i)
<1>1. /\ a \in Nat /\ b \in Nat /\ c \in Nat /\ a <= b /\ b <= c /\ c <= Len(s) /\ Len(s) \in Nat
      /\ L \in Nat /\ L > 0 /\ L - 1 \in Nat
  BY WordLength
<1>2. k \in {L - 1, b - a} /\ k <= L - 1 /\ k <= b - a /\ k \in Nat
  BY <1>1, Lesser
<1>3. m \in {L - 1, c - b} /\ m <= L - 1 /\ m <= c - b /\ m \in Nat
  BY <1>1, Lesser
<1>4. /\ Holds(SubSeq(s, a + 1, c), word) <=> In(a, c)
      /\ Holds(SubSeq(s, a + 1, b), word) <=> In(a, b)
      /\ Holds(SubSeq(s, b + 1, c), word) <=> In(b, c)
      /\ Holds(SubSeq(s, (b - k) + 1, b + m), word) <=> In(b - k, b + m)
  <2>1. c \in a..Len(s) /\ b - k \in Nat /\ b + m \in (b - k)..Len(s)
    BY <1>1, <1>2, <1>3, SMTT(30)
  <2>2. Holds(SubSeq(s, a + 1, c), word) <=> In(a, c)
    BY <2>1, HoldsInWindow
  <2>3. Holds(SubSeq(s, a + 1, b), word) <=> In(a, b)
    BY HoldsInWindow
  <2>4. Holds(SubSeq(s, b + 1, c), word) <=> In(b, c)
    BY <1>1, HoldsInWindow
  <2>5. Holds(SubSeq(s, (b - k) + 1, b + m), word) <=> In(b - k, b + m)
    <3> DEFINE x == b - k
               y == b + m
    <3>1. x \in Nat /\ y \in x..Len(s)
      BY <2>1
    <3> HIDE DEF x, y
    <3>2. Holds(SubSeq(s, x + 1, y), word) <=> In(x, y)
      BY <3>1, HoldsInWindow
    <3> QED BY <3>2 DEF x, y
  <2> QED BY <2>2, <2>3, <2>4, <2>5
<1>5. In(a, b) \/ In(b, c) \/ In(b - k, b + m) => In(a, c)
  <2>1. ASSUME NEW x \in Nat, NEW y \in Nat, a <= x, y <= c, In(x, y)
        PROVE  In(a, c)
    <3>1. PICK i \in Nat : x < i /\ i + L - 1 <= y /\ OccursAt(s, word, i)
      BY <2>1
    <3>2. a < i /\ i + L - 1 <= c
      BY <1>1, <2>1, <3>1
    <3> QED BY <3>1, <3>2
  <2>2. b - k \in Nat /\ b + m \in Nat /\ a <= b - k /\ b + m <= c
    BY <1>1, <1>2, <1>3, SMTT(30)
  <2> HIDE DEF In
  <2> QED BY <1>1, <2>1, <2>2
<1>6. ASSUME NEW i \in Nat, a < i, i + L - 1 <= c, OccursAt(s, word, i)
      PROVE  In(a, b) \/ (k # 0 /\ In(b - k, b + m)) \/ In(b, c)
  <2>1. CASE i + L - 1 <= b
    BY <1>6, <2>1
  <2>2. CASE i > b
    BY <1>6, <2>2
  <2>3. CASE i <= b /\ i + L - 1 > b
    <3>1. k # 0 /\ b - k < i
      BY <1>1, <1>2, <1>6, <2>3
    <3>2. i + L - 1 <= b + m
      BY <1>1, <1>3, <1>6, <2>3
    <3>3. In(b - k, b + m)
      BY <1>6, <3>1, <3>2
    <3> QED BY <3>1, <3>3
  <2> HIDE DEF In
  <2> QED BY <1>1, <2>1, <2>2, <2>3
<1>7. In(a, c) => In(a, b) \/ (k # 0 /\ In(b - k, b + m)) \/ In(b, c)
  BY <1>6
<1> HIDE DEF In
<1> QED BY <1>4, <1>5, <1>7

-----------------------------------------------------------------------------
\* Where the bytes are in all that the child wrote.
LEMMA Placed ==
  ASSUME SessionType, Stream
  PROVE  /\ Buffered \in Nat /\ Len(taken) + Len(captured) \in Nat
         /\ Len(taken) + Len(captured) <= Buffered
         /\ Buffered + Len(chunk) \in Buffered..Len(wrote)
         /\ bytes = SubSeq(wrote, (Len(taken) + Len(captured)) + 1, Buffered)
         /\ chunk = SubSeq(wrote, Buffered + 1, Buffered + Len(chunk))
<1> DEFINE front == taken \o captured
           own == front \o bytes
           rest == chunk \o pty
<1>1. /\ taken \in Words /\ captured \in Words /\ bytes \in Words /\ chunk \in Words
      /\ pty \in Words /\ wrote \in Words
  BY DEF SessionType
<1>2. /\ Len(taken) \in Nat /\ Len(captured) \in Nat /\ Len(bytes) \in Nat /\ Len(chunk) \in Nat
      /\ Len(pty) \in Nat
  BY <1>1, WordLength
<1>3. front \in Words /\ Len(front) = Len(taken) + Len(captured)
  BY <1>1, Joined
<1>4. rest \in Words /\ Len(rest) = Len(chunk) + Len(pty)
  BY <1>1, Joined
<1>5. (own \o chunk) \o pty = wrote
  BY DEF Stream
<1> HIDE DEF front
<1>6. own \in Words /\ Len(own) = Len(front) + Len(bytes)
  BY <1>1, <1>3, Joined
<1>7. Buffered = Len(own)
  BY <1>2, <1>3, <1>6 DEF Buffered
<1> HIDE DEF own
<1>8. own \o chunk \in Words /\ Len(own \o chunk) = Len(own) + Len(chunk)
  BY <1>1, <1>6, Joined
<1>9. Len(wrote) = (Len(own) + Len(chunk)) + Len(pty)
  <2>1. Len((own \o chunk) \o pty) = Len(own \o chunk) + Len(pty)
    BY <1>1, <1>8, Joined
  <2> QED BY <1>5, <1>8, <2>1
<1>10. chunk = SubSeq(wrote, Len(own) + 1, Len(own) + Len(chunk))
  BY <1>1, <1>5, <1>6, MiddleIsWindow
<1>11. bytes = SubSeq(wrote, Len(front) + 1, Len(front) + Len(bytes))
  <2>1. (own \o chunk) \o pty = own \o (chunk \o pty)
    BY <1>1, <1>6, Regroup, SMTT(60)
  <2>2. wrote = (front \o bytes) \o rest
    BY <1>5, <2>1 DEF own
  <2> HIDE DEF rest
  <2> QED BY <1>1, <1>3, <1>4, <2>2, MiddleIsWindow
<1> QED BY <1>2, <1>3, <1>6, <1>7, <1>9, <1>10, <1>11

\* The tracer's own moves read nothing.
LEMMA MovesRead ==
  ASSUME SessionType, Moves
  PROVE  Buffered' = Buffered
<1>1. /\ taken \in Words /\ captured \in Words /\ bytes \in Words
      /\ taken' \in Words /\ captured' \in Words /\ bytes' \in Words
      /\ taken' \o captured' \o bytes' = taken \o captured \o bytes
  BY DEF SessionType, Moves
<1>2. ASSUME NEW s \in Words, NEW t \in Words, NEW u \in Words
      PROVE  Len(s \o t \o u) = Len(s) + Len(t) + Len(u)
  <2>1. s \o t \in Words /\ Len(s \o t) = Len(s) + Len(t)
    BY <1>2, Joined
  <2> QED BY <1>2, <2>1, Joined
<1>3. /\ Len(taken \o captured \o bytes) = Buffered
      /\ Len(taken' \o captured' \o bytes') = Buffered'
  BY <1>1, <1>2 DEF Buffered
<1> QED BY <1>1, <1>3

\* What is read into the buffer, and what a watch has seen of it.
LEMMA AppendReads ==
  ASSUME SessionType, AppendChunk
  PROVE  Buffered' = Buffered + Len(chunk)
<1>1. bytes \in Words /\ chunk \in Words
  BY DEF SessionType
<1>2. bytes' = bytes \o chunk /\ UNCHANGED <<taken, captured>>
  BY AppendMoves
<1>3. Len(bytes \o chunk) = Len(bytes) + Len(chunk)
  BY <1>1, Joined
<1>4. /\ Len(bytes) \in Nat /\ Len(chunk) \in Nat /\ Len(taken) \in Nat /\ Len(captured) \in Nat
  BY WordLength DEF SessionType
<1> QED BY <1>2, <1>3, <1>4 DEF Buffered

\* A watch sees the same as long as nothing is read.
LEMMA SinceStays ==
  ASSUME SessionType, Stream, Moves \/ ReadChunk, Place, NEW w, w.from \in Nat, w.from <= Buffered
  PROVE  /\ Buffered' = Buffered
         /\ SubSeq(wrote', w.from + 1, Buffered) = SubSeq(wrote, w.from + 1, Buffered)
<1>1. Buffered \in Nat /\ Buffered <= Len(wrote) /\ wrote \in Words /\ Len(wrote) \in Nat
  <2>1. Len(chunk) \in Nat /\ Len(wrote) \in Nat
    BY WordLength DEF SessionType
  <2> QED BY <2>1, Placed DEF SessionType
<1>2. CASE ReadChunk
  BY <1>2, ReadMoves DEF Buffered
<1>3. CASE Moves
  <2>1. PICK out \in Words : wrote' = wrote \o out
    BY <1>3 DEF Moves, Grows
  <2>2. Buffered \in w.from..Len(wrote)
    BY <1>1
  <2> QED BY <1>1, <1>3, <2>1, <2>2, MovesRead, WindowStays
<1> QED BY <1>2, <1>3

\* A pattern is not in nothing.
LEMMA NothingHolds ==
  ASSUME NEW s \in Words, NEW a \in 0..Len(s), NEW word \in Words \ {<<>>}
  PROVE  ~Holds(SubSeq(s, a + 1, a), word)
<1>1. a \in Nat /\ a \in a..Len(s) /\ Len(word) \in Nat /\ Len(word) > 0
  BY WordLength
<1>2. ~\E i \in Nat : a < i /\ i + Len(word) - 1 <= a /\ OccursAt(s, word, i)
  BY <1>1
<1> QED BY <1>1, <1>2, HoldsInWindow

\* A larger window holds what a smaller one does.
LEMMA HoldsWider ==
  ASSUME NEW s \in Words, NEW a \in Nat, NEW b \in a..Len(s), NEW word \in Words \ {<<>>},
         NEW x \in 0..a, NEW y \in b..Len(s), Holds(SubSeq(s, a + 1, b), word)
  PROVE  Holds(SubSeq(s, x + 1, y), word)
<1>1. x \in Nat /\ y \in x..Len(s) /\ b \in Nat /\ y \in Nat /\ Len(word) \in Nat
  BY WordLength
<1>2. PICK i \in Nat : a < i /\ i + Len(word) - 1 <= b /\ OccursAt(s, word, i)
  BY HoldsInWindow
<1>3. x < i /\ i + Len(word) - 1 <= y
  BY <1>1, <1>2
<1> QED BY <1>1, <1>2, <1>3, HoldsInWindow

\* A watch that has missed nothing sees the pattern exactly when it is there.
LEMMA ObserveSees ==
  ASSUME SessionType, Stream, KeepUp, NEW w \in watches
  PROVE  /\ Observe(w) <=> Holds(SubSeq(wrote, w.from + 1, Buffered + Len(chunk)), w.pattern)
         /\ Carried(w).carry
              = LastBytes(SubSeq(wrote, w.from + 1, Buffered + Len(chunk)), Len(w.pattern) - 1)
<1> DEFINE a == w.from
           b == Buffered
           c == Buffered + Len(chunk)
           word == w.pattern
           n == Len(word) - 1
           k == Min({n, b - a})
           m == Min({n, Len(chunk)})
<1>1. /\ wrote \in Words /\ chunk \in Words /\ a \in Nat /\ word \in Words \ {<<>>} /\ n \in Nat
      /\ w \in [id : Nat, pattern : Words \ {<<>>}, carry : Words, from : Nat]
  BY WordLength DEF SessionType
<1>2. /\ a <= b /\ ~Holds(SubSeq(wrote, a + 1, b), word)
      /\ w.carry = LastBytes(SubSeq(wrote, a + 1, b), n)
  BY DEF KeepUp, Since
<1>3. /\ b \in Nat /\ c \in b..Len(wrote) /\ chunk = SubSeq(wrote, b + 1, c)
      /\ Len(chunk) \in Nat /\ Len(chunk) = c - b
  BY <1>1, WordLength, Placed, SMTT(30)
<1>4. Carried(w).carry = LastBytes(w.carry \o chunk, n)
  BY <1>1 DEF Carried
<1> HIDE DEF b, c, n, word, a
<1>5. b \in a..Len(wrote) /\ c \in Nat /\ Len(wrote) \in Nat /\ c <= Len(wrote)
  BY <1>1, <1>2, <1>3, WordLength
<1>6. Carried(w).carry = LastBytes(SubSeq(wrote, a + 1, c), n)
  BY <1>1, <1>2, <1>3, <1>4, <1>5, CarryIsEnd
<1>7. k \in Nat /\ k <= b - a /\ m \in Nat /\ m <= Len(chunk)
  BY <1>1, <1>3, <1>5, Lesser, SMTT(30)
<1>8. w.carry = SubSeq(wrote, (b - k) + 1, b)
  <2>1. LastBytes(SubSeq(wrote, a + 1, b), n) = SubSeq(wrote, (b - Min({n, b - a})) + 1, b)
    <3>1. wrote \in Words /\ a \in Nat /\ b \in a..Len(wrote) /\ n \in Nat
      BY <1>1, <1>5
    <3> HIDE DEF k, m
    <3> QED BY <3>1, LastOfWindow, Zenon
  <2> QED BY <1>2, <2>1
<1>9. SubSeq(chunk, 1, m) = SubSeq(wrote, b + 1, b + m)
  <2>1. SubSeq(SubSeq(wrote, b + 1, c), 0 + 1, m) = SubSeq(wrote, (b + 0) + 1, b + m)
    <3>1. 0 \in Nat /\ m \in 0..(c - b)
      BY <1>3, <1>7
    <3> HIDE DEF m
    <3> QED BY <1>1, <1>3, <3>1, WindowInWindow
  <2>2. b + 0 = b /\ 0 + 1 = 1
    BY <1>3
  <2> QED BY <1>3, <2>1, <2>2
<1> HIDE DEF k, m
<1>10. w.carry \o SubSeq(chunk, 1, m) = SubSeq(wrote, (b - k) + 1, b + m)
  <2>1. b - k \in Nat /\ b \in (b - k)..Len(wrote) /\ b + m \in b..Len(wrote)
    BY <1>1, <1>3, <1>5, <1>7
  <2> DEFINE x == b - k
             y == b + m
  <2> HIDE DEF x, y
  <2>2. x \in Nat /\ b \in x..Len(wrote) /\ y \in b..Len(wrote)
    BY <2>1 DEF x, y
  <2>3. SubSeq(wrote, x + 1, b) \o SubSeq(wrote, b + 1, y) = SubSeq(wrote, x + 1, y)
    BY <1>1, <2>2, WindowsMeet
  <2> QED BY <1>8, <1>9, <2>3 DEF x, y
<1>11. w.carry # <<>> <=> k # 0
  <2>1. b - k \in Nat /\ b \in (b - k)..Len(wrote) /\ b - (b - k) = k
    BY <1>1, <1>3, <1>5, <1>7
  <2>2. w.carry \in Words /\ Len(w.carry) = k
    BY <1>1, <1>8, <2>1, WindowWord
  <2> QED BY <2>2, WordLength, <1>7
<1>12. Holds(SubSeq(wrote, a + 1, c), word)
         <=> \/ Holds(SubSeq(wrote, a + 1, b), word)
             \/ k # 0 /\ Holds(SubSeq(wrote, (b - k) + 1, b + m), word)
             \/ Holds(SubSeq(wrote, b + 1, c), word)
  BY <1>1, <1>3, <1>5, SeamSeesAll, SMTT(30) DEF k, m, n
<1>13. Observe(w) <=> \/ w.carry # <<>> /\ Holds(w.carry \o SubSeq(chunk, 1, m), word)
                      \/ Holds(chunk, word)
  BY DEF Observe, m, n, word
<1>14. Observe(w) <=> Holds(SubSeq(wrote, a + 1, c), word)
  BY <1>2, <1>3, <1>10, <1>11, <1>12, <1>13
<1> QED BY <1>6, <1>14 DEF a, b, c, n, word

\* A new watch has seen nothing.
LEMMA NewWatch ==
  ASSUME NEW s \in Words, NEW a \in 0..Len(s), NEW word \in Words \ {<<>>}
  PROVE  /\ ~Holds(SubSeq(s, a + 1, a), word)
         /\ <<>> = LastBytes(SubSeq(s, a + 1, a), Len(word) - 1)
<1>1. a \in Nat /\ Len(word) - 1 \in Nat
  BY WordLength
<1>2. SubSeq(s, a + 1, a) = <<>>
  BY <1>1, SubSeqEmpty
<1>3. Min({Len(word) - 1, 0}) = 0
  BY <1>1, Lesser
<1>4. LastBytes(<<>>, Len(word) - 1) = <<>>
  <2>1. Len(<<>>) = 0 /\ SubSeq(<<>>, 1, 0) = <<>>
    BY EmptySeq, SubSeqEmpty
  <2>2. LastBytes(<<>>, Len(word) - 1) = SubSeq(<<>>, 0 - 0 + 1, 0)
    BY <1>3, <2>1, Zenon DEF LastBytes
  <2> QED BY <2>1, <2>2
<1> QED BY <1>2, <1>4, NothingHolds

\* Nothing that a watch saw is different afterwards.
LEMMA WatchStays ==
  ASSUME SessionType, Place, Stream, KeepUp, Moves \/ ReadChunk, NEW w \in watches
  PROVE  /\ w.from <= Buffered' /\ Buffered' = Buffered
         /\ SubSeq(wrote', w.from + 1, Buffered') = Since(w)
         /\ ~Holds(Since(w), w.pattern)
         /\ w.carry = LastBytes(Since(w), Len(w.pattern) - 1)
<1>1. w.from \in Nat /\ w.from <= Buffered
  BY DEF KeepUp, SessionType
<1> QED BY <1>1, SinceStays DEF KeepUp, Since

LEMMA RegisterKeepsUp ==
  ASSUME SessionType, Place, Stream, KeepUp, Moves, SessionType',
         NEW pattern \in Words \ {<<>>}, Register(pattern)
  PROVE  KeepUp'
<1>1. Buffered' = Buffered /\ Buffered \in 0..Len(wrote') /\ wrote' \in Words
  <2>1. PICK out \in Words : wrote' = wrote \o out
    BY DEF Moves, Grows
  <2>2. Len(wrote') = Len(wrote) + Len(out) /\ wrote' \in Words
    BY <2>1, Joined DEF SessionType
  <2>3. Len(wrote) \in Nat /\ Len(out) \in Nat /\ Len(chunk) \in Nat
    BY WordLength DEF SessionType
  <2> QED BY <2>2, <2>3, Placed, MovesRead
<1>2. SUFFICES ASSUME NEW w \in watches'
               PROVE  /\ w.from <= Buffered'
                      /\ ~Holds(SubSeq(wrote', w.from + 1, Buffered'), w.pattern)
                      /\ w.carry = LastBytes(SubSeq(wrote', w.from + 1, Buffered'), Len(w.pattern) - 1)
  BY DEF KeepUp, Since
<1>3. CASE w \in watches
  BY <1>3, WatchStays
<1>4. CASE w = [id |-> step, pattern |-> pattern, carry |-> <<>>, from |-> Buffered]
  BY <1>1, <1>4, NewWatch
<1> QED BY <1>2, <1>3, <1>4 DEF Register

LEMMA AppendKeepsUp ==
  ASSUME SessionType, Stream, KeepUp, AppendChunk
  PROVE  KeepUp'
<1>1. Buffered' = Buffered + Len(chunk) /\ wrote' = wrote
  BY AppendReads, AppendMoves
<1>2. SUFFICES ASSUME NEW v \in watches'
               PROVE  /\ v.from <= Buffered'
                      /\ ~Holds(SubSeq(wrote', v.from + 1, Buffered'), v.pattern)
                      /\ v.carry = LastBytes(SubSeq(wrote', v.from + 1, Buffered'), Len(v.pattern) - 1)
  BY DEF KeepUp, Since
<1>3. PICK w \in watches : ~Observe(w) /\ v = Carried(w)
  BY DEF AppendChunk
<1>4. w \in [id : Nat, pattern : Words \ {<<>>}, carry : Words, from : Nat] /\ w.from <= Buffered
  BY DEF SessionType, KeepUp
<1>5. v.from = w.from /\ v.pattern = w.pattern
  BY <1>3, <1>4 DEF Carried
<1>6. Buffered \in Nat /\ Len(chunk) \in Nat
  BY Placed, WordLength DEF SessionType
<1>7. w.from <= Buffered + Len(chunk)
  BY <1>4, <1>6
<1> QED BY <1>1, <1>3, <1>5, <1>7, ObserveSees

\* No watch misses its pattern.
LEMMA KeepUpKept ==
  ASSUME SessionInv, [Next]_vars, SessionType', Stream'
  PROVE  KeepUp'
<1> USE DEF SessionInv
<1>1. CASE AppendChunk
  BY <1>1, AppendKeepsUp
<1>2. CASE Capture
  <2>1. Moves
    BY <1>2, StepsMove DEF Capture, ReadChunk, AppendChunk, Reads, Start, MainOther, drainVars, Next, Script
  <2> QED BY <1>2, <2>1, CapturesWell, RegisterKeepsUp DEF Capture
<1>3. CASE Arm
  <2>1. Moves
    BY <1>3, StepsMove DEF Arm, ReadChunk, AppendChunk, Reads, MainOther, drainVars
  <2> QED BY <1>3, <2>1, ArmsWell, RegisterKeepsUp DEF Arm
<1>4. CASE ~AppendChunk /\ ~Capture /\ ~Arm
  <2>1. watches' = watches
    BY <1>4 DEF Next, Reader, Script, ChildWrites, ChildExits, DrainTop, SelectTimesOut, ReadFails, ReadChunk,
      Overruns, WriteFails, Send, Press, Present, PresentTyped, Type, SendWait, WaitFor, WriteArmed,
      WatchFired, TimesOut, PollRegex, PollAgain, PutBack, RecordEcho, Settle, Stop, Shutdown, Join, Ended,
      vars, sharedVars
  <2>2. Moves \/ ReadChunk
    BY <1>4, StepsMove DEF Reads
  <2> QED BY <2>1, <2>2, WatchStays DEF KeepUp, Since
<1> QED BY <1>1, <1>2, <1>3, <1>4

-----------------------------------------------------------------------------
LEMMA MarksKept ==
  ASSUME SessionInv, [Next]_vars
  PROVE  Marks'
<1> USE DEF vars, childVars, sharedVars, drainVars, mainVars, MainOther, DrainOther, Quiet, NextOp,
            Goto, Goes, Nothing, Record, Start, Fails
<1> DEFINE Ids == fired \cup {w.id : w \in watches}
<1>1. /\ Ids \subseteq Nat /\ step \in Nat
      /\ \A n \in Ids : n <= step /\ (pc \in {"ready", "arm"} => n < step)
  <2>1. \A w \in watches : w.id \in Nat
    BY DEF SessionInv, SessionType
  <2> QED BY <2>1 DEF SessionInv, SessionType, Marks
<1>2. ASSUME Ids' \subseteq Ids,
             \/ step' = step + 1
             \/ step' = step /\ (pc' \in {"ready", "arm"} => pc \in {"ready", "arm"})
      PROVE  Marks'
  <2> SUFFICES ASSUME NEW n \in Ids'
               PROVE  n <= step' /\ (pc' \in {"ready", "arm"} => n < step')
    BY DEF Marks
  <2>1. n \in Ids /\ n \in Nat
    BY <1>1, <1>2
  <2> HIDE DEF Ids
  <2> QED BY <1>1, <1>2, <2>1
<1>3. CASE AppendChunk
  <2>1. \A w \in watches : Carried(w).id = w.id
    BY DEF Carried, SessionInv, SessionType
  <2>2. Ids' \subseteq Ids
    BY <1>3, <2>1 DEF AppendChunk
  <2>3. step' = step /\ pc' = pc
    BY <1>3 DEF AppendChunk
  <2> QED BY <1>2, <2>2, <2>3
<1>4. ASSUME NEW pattern, Register(pattern), step' = step, pc' \notin {"ready", "arm"}
      PROVE  Marks'
  <2>1. Ids' \subseteq Ids \cup {step}
    BY <1>4 DEF Register
  <2> SUFFICES ASSUME NEW n \in Ids'
               PROVE  n <= step'
    BY <1>4 DEF Marks
  <2> HIDE DEF Ids
  <2> QED BY <1>1, <1>4, <2>1
<1>5. CASE Capture \/ Arm
  BY <1>4, <1>5 DEF Capture, Arm
<1>6. CASE ~AppendChunk /\ ~Capture /\ ~Arm
  <2>1. watches' = watches /\ fired' = fired
    BY <1>6 DEF Next, Reader, Script, ChildWrites, ChildExits, DrainTop, SelectTimesOut, ReadFails, ReadChunk,
      Overruns, WriteFails, Send, Press, Present, PresentTyped, Type, SendWait, WaitFor, WriteArmed,
      WatchFired, TimesOut, PollRegex, PollAgain, PutBack, RecordEcho, Settle, Stop, Shutdown, Join, Ended
  <2>2. \/ step' = step + 1
        \/ step' = step /\ (pc' \in {"ready", "arm"} => pc \in {"ready", "arm"})
    <3>1. CASE UNCHANGED <<step, pc>>
      BY <3>1
    <3>2. CASE Overruns \/ WriteFails \/ Send \/ Press \/ Present \/ PresentTyped \/ Type \/ SendWait
               \/ WaitFor \/ WriteArmed \/ WatchFired \/ TimesOut \/ PollRegex \/ PollAgain
      BY <3>2 DEF Overruns, WriteFails, Send, Press, Present, PresentTyped, Type, SendWait, WaitFor,
        WriteArmed, WatchFired, TimesOut, PollRegex, PollAgain
    <3>3. CASE PutBack \/ RecordEcho \/ Settle \/ Stop \/ Shutdown \/ Join
      BY <3>3 DEF PutBack, RecordEcho, Settle, Stop, Shutdown, Join
    <3> QED BY <1>6, <3>1, <3>2, <3>3 DEF Next, Reader, Script, ChildWrites, ChildExits, DrainTop,
      SelectTimesOut, ReadFails, ReadChunk, Ended
  <2> QED BY <1>2, <2>1, <2>2
<1> QED BY <1>3, <1>5, <1>6

\* A watch that fired, fired for what the operation will take.
LEMMA ArmedKept ==
  ASSUME SessionInv, [Next]_vars, SessionType', Stream'
  PROVE  Armed'
<1> USE DEF vars, childVars, sharedVars, drainVars, mainVars, MainOther, DrainOther, Quiet, NextOp,
            Goto, Goes, Nothing, Record, Start, Fails
<1>1. SessionType /\ Place /\ Stream /\ Marks /\ KeepUp /\ Armed
  BY DEF SessionInv
\* What the script does not touch.
<1>2. ASSUME UNCHANGED <<plan, step, pc, armed, watches, fired, taken, captured, bytes, result>>
      PROVE  Armed'
  BY <1>1, <1>2 DEF Armed, Pattern, Op
<1>3. plan' = plan /\ step' = step => Op' = Op /\ Pattern' = Pattern
  BY DEF Op, Pattern
<1>4. CASE ChildWrites \/ ChildExits \/ DrainTop \/ SelectTimesOut \/ ReadFails \/ Ended \/ UNCHANGED vars
  BY <1>2, <1>4 DEF ChildWrites, ChildExits, DrainTop, SelectTimesOut, ReadFails, Ended
<1>5. CASE ReadChunk
  BY <1>1, <1>2, <1>5, ReadMoves
<1>6. CASE AppendChunk
  <2>1. UNCHANGED <<plan, step, pc, armed, taken, captured, result, wrote>>
    BY <1>6 DEF AppendChunk
  <2>2. Op' = Op /\ Pattern' = Pattern
    BY <1>3, <2>1
  <2>3. \A v \in watches' : \E w \in watches : v.id = w.id /\ v.pattern = w.pattern /\ v.from = w.from
    BY <1>1, <1>6 DEF AppendChunk, Carried, SessionType
  <2>4. ASSUME pc \in {"write", "wait"}, armed \in fired'
        PROVE  Holds(bytes', Pattern)
    <3> DEFINE a == Len(taken)
               b == Buffered
               c == Buffered + Len(chunk)
    <3>1. captured = <<>> /\ Len(captured) = 0
      BY <1>1, <2>4, EmptySeq DEF Place
    <3>2. a \in Nat /\ Len(chunk) \in Nat /\ Len(wrote) \in Nat /\ wrote \in Words
      BY <1>1, WordLength DEF SessionType
    <3>3. a <= b /\ b \in Nat /\ c \in b..Len(wrote) /\ bytes = SubSeq(wrote, a + 1, b)
      BY <1>1, <3>1, <3>2, Placed
    <3>4. bytes' = SubSeq(wrote, a + 1, c)
      <4>1. bytes' = bytes \o chunk /\ chunk = SubSeq(wrote, b + 1, c)
        BY <1>1, <1>6, AppendMoves, Placed
      <4>2. b \in a..Len(wrote)
        BY <3>2, <3>3
      <4> HIDE DEF a, b, c
      <4> QED BY <3>2, <3>3, <4>1, <4>2, WindowsMeet
    <3>5. CASE armed \in fired
      <4>1. Holds(SubSeq(wrote, a + 1, b), Pattern)
        BY <1>1, <2>4, <3>3, <3>5 DEF Armed
      <4>2. Pattern \in Words \ {<<>>}
        BY <1>1, <2>4, OpTyped DEF Armed, Place, Busy
      <4>3. b \in a..Len(wrote) /\ a \in 0..a /\ c \in b..Len(wrote)
        BY <3>2, <3>3
      <4> HIDE DEF a, b, c
      <4> QED BY <3>2, <3>4, <4>1, <4>2, <4>3, HoldsWider
    <3>6. CASE armed \notin fired
      <4>1. PICK w \in watches : Observe(w) /\ w.id = armed
        BY <1>6, <2>4, <3>6 DEF AppendChunk
      <4>2. /\ w.pattern = Pattern /\ w.from >= a /\ w.from \in Nat /\ w.from <= b
            /\ Pattern \in Words \ {<<>>}
        BY <1>1, <2>4, <4>1 DEF Armed, KeepUp, SessionType
      <4>3. Holds(SubSeq(wrote, w.from + 1, c), Pattern)
        BY <1>1, <4>1, <4>2, ObserveSees
      <4>4. a \in 0..w.from /\ c \in w.from..Len(wrote) /\ c \in c..Len(wrote)
        BY <3>2, <3>3, <4>2
      <4> HIDE DEF a, b, c
      <4> QED BY <3>2, <3>4, <4>2, <4>3, <4>4, HoldsWider
    <3> QED BY <3>5, <3>6
  <2> QED BY <1>1, <2>1, <2>2, <2>3, <2>4 DEF Armed
<1>7. CASE Arm
  <2>1. /\ pc' = "write" /\ armed' = step /\ UNCHANGED <<plan, step, bytes, taken, captured, result>>
        /\ Register(Pattern) /\ pc = "arm"
    BY <1>7 DEF Arm, Register
  <2>2. Op' = Op /\ Pattern' = Pattern
    BY <1>3, <2>1
  <2>3. \A n \in fired \cup {w.id : w \in watches} : n < step
    BY <1>1, <2>1 DEF Marks
  <2>4. step \in Nat /\ fired \subseteq Nat /\ \A w \in watches : w.id \in Nat
    BY <1>1 DEF SessionType
  <2>5. step \notin fired /\ \A w \in watches : w.id # step
    BY <2>3, <2>4
  <2>6. Buffered >= Len(taken)
    <3>1. Len(taken) \in Nat /\ Len(captured) \in Nat
      BY <1>1, WordLength DEF SessionType
    <3> QED BY <1>1, <3>1, Placed
  <2>7. step \in fired' => Holds(bytes, Pattern)
    BY <2>1, <2>5 DEF Register
  <2>8. \A w \in watches' : w.id = step => w.pattern = Pattern /\ w.from >= Len(taken)
    BY <2>1, <2>5, <2>6 DEF Register
  <2> QED BY <1>1, <2>1, <2>2, <2>7, <2>8 DEF Armed
<1>8. CASE WriteArmed
  BY <1>1, <1>3, <1>8 DEF WriteArmed, Armed
<1>9. CASE WatchFired
  BY <1>1, <1>3, <1>9 DEF WatchFired, Armed
<1>10. CASE PollRegex
  <2>1. /\ pc' \in {"putBack", "missed"} /\ UNCHANGED <<plan, step, result>>
        /\ pc' = "putBack" => Holds(captured', Op.pattern)
        /\ pc = "poll"
    BY <1>10 DEF PollRegex
  <2>2. Op.kind # "type" /\ Pattern = Op.pattern
    BY <1>1, <2>1 DEF Armed, Pattern
  <2> QED BY <1>1, <1>3, <2>1, <2>2 DEF Armed
<1>11. CASE PollAgain \/ WaitFor
  BY <1>1, <1>3, <1>11 DEF PollAgain, WaitFor, Armed
<1>12. CASE Type \/ SendWait
  <2>1. /\ pc' \in {"ready", "arm"} /\ UNCHANGED <<plan, result>>
        /\ pc' = "arm" => step' = step
    BY <1>12 DEF Type, SendWait
  <2>2. pc' = "arm" => Pattern # <<>>
    BY <1>1, <1>12, OpTyped DEF Type, SendWait, Pattern
  <2> QED BY <1>1, <1>3, <2>1, <2>2 DEF Armed
<1>13. CASE RecordEcho
  <2>1. Op.kind = "type" /\ Holds(captured, Pattern)
    BY <1>1, <1>13 DEF RecordEcho, Armed
  <2>2. FindSubslice(captured, Op.text) # 0
    BY <2>1 DEF Holds, Pattern
  <2>3. pc' = "ready" /\ UNCHANGED result
    BY <1>13, <2>2 DEF RecordEcho
  <2> QED BY <1>1, <2>3 DEF Armed
<1>14. CASE Overruns \/ WriteFails \/ Send \/ Press \/ Present \/ PresentTyped \/ Capture
  <2>1. pc' \in {"ready", "settle", "drop"} /\ result' \in {result, "failed"}
    BY <1>14 DEF Overruns, WriteFails, Send, Press, Present, PresentTyped, Capture
  <2> QED BY <1>1, <2>1 DEF Armed
<1>15. CASE TimesOut \/ PutBack \/ Settle \/ Stop \/ Shutdown \/ Join
  <2>1. pc' \in {"ready", "drop", "join", "done"} /\ result' \in {result, "failed", "trace"}
    BY <1>15 DEF TimesOut, PutBack, Settle, Stop, Shutdown, Join
  <2> QED BY <1>1, <2>1 DEF Armed
<1> QED BY <1>4, <1>5, <1>6, <1>7, <1>8, <1>9, <1>10, <1>11, <1>12, <1>13, <1>14, <1>15
     DEF Next, Reader, Script

-----------------------------------------------------------------------------
\* The operations that take what comes up to a pattern.
Waits == {"sendWait", "waitFor"}

\* What an operation records of the bytes s behind those the earlier ones took, and
\* how far it takes them: one round of the function in Expected.
Recorded(op, s, old) ==
  LET end == FindFrom(s, op.pattern, old.at + 1) + Len(op.pattern) - 1
  IN  CASE op.kind \in Waits ->
             [at |-> end,
              builder |-> RecordOutput(old.builder, SubSeq(s, old.at + 1, end), op.dwell)]
        [] op.kind = "present" ->
             [old EXCEPT !.builder = RecordOutput(@, op.text, op.dwell)]
        [] op.kind = "presentTyped" ->
             [old EXCEPT !.builder = RecordTyped(@, op.text, op.dwell)]
        [] OTHER -> old

Records(script, s, n, g) ==
  g = [k \in 0..n |-> IF k = 0 THEN [at |-> 0, builder |-> NewBuilder]
                      ELSE Recorded(script[k], s, g[k - 1])]

\* Each of the first n operations that waits finds its pattern.
Finds(script, s, n, g) ==
  /\ \A k \in 0..n : g[k].at \in Nat
  /\ \A k \in 1..n : script[k].kind \in Waits
                       => FindFrom(s, script[k].pattern, g[k - 1].at + 1) # 0

\* Where the script is, the kind of its operation is known.
Kinds ==
  /\ step <= Len(plan.script) + 1
  /\ pc = "settle" => Op.kind \in {"press", "capture"}
  /\ pc \in {"arm", "write", "wait"} => Op.kind \in {"type", "sendWait"}
  /\ pc \in {"poll", "missed"} => Op.kind = "waitFor"
  /\ pc = "putBack" => Op.kind \in Waits

AllTimeless == \A k \in 1..Min({step, Len(plan.script)}) : Timeless(plan.script[k])

\* The operations that are over took and recorded what they had to.
Exact ==
  AllTimeless =>
    \E g : /\ Records(plan.script, wrote, step - 1, g) /\ Finds(plan.script, wrote, step - 1, g)
           /\ g[step - 1] = [at |-> Len(taken), builder |-> builder]

\* There is one such function.
LEMMA RecordsSame ==
  ASSUME NEW script, NEW s, NEW n \in Nat, NEW g, NEW h,
         Records(script, s, n, g), Records(script, s, n, h)
  PROVE  g = h
<1> DEFINE bad == {k \in 0..n : g[k] # h[k]}
<1>1. ASSUME bad # {} PROVE FALSE
  <2>1. bad \in SUBSET Nat
    OBVIOUS
  <2>2. PICK k \in bad : \A j \in bad : k <= j
    <3> HIDE DEF bad
    <3> QED BY <1>1, <2>1, MinIsLeast
  <2>3. k \in 0..n /\ k # 0 /\ k - 1 \in 0..n
    BY <2>2 DEF Records
  <2>4. g[k - 1] = h[k - 1]
    BY <2>2, <2>3
  <2>5. g[k] = Recorded(script[k], s, g[k - 1]) /\ h[k] = Recorded(script[k], s, h[k - 1])
    BY <2>3 DEF Records
  <2> QED BY <2>2, <2>4, <2>5
<1>2. /\ g = [k \in 0..n |-> g[k]]
      /\ h = [k \in 0..n |-> h[k]]
  BY DEF Records
<1> QED BY <1>1, <1>2

\* What is found in a part is found in the whole, an empty word included.
LEMMA FoundInPart ==
  ASSUME NEW s \in Words, NEW a \in Nat, NEW b \in a..Len(s), NEW word \in Words,
         FindSubslice(SubSeq(s, a + 1, b), word) # 0
  PROVE  /\ FindFrom(s, word, a + 1) = a + FindSubslice(SubSeq(s, a + 1, b), word)
         /\ FindSubslice(SubSeq(s, a + 1, b), word) \in 1..(b - a)
         /\ FindSubslice(SubSeq(s, a + 1, b), word) + Len(word) - 1 <= b - a
<1> DEFINE t == SubSeq(s, a + 1, b)
           f == FindFrom(t, word, 1)
           g == FindFrom(s, word, a + 1)
<1>1. t \in Words /\ Len(t) = b - a /\ b \in Nat /\ Len(s) \in Nat /\ Len(word) \in Nat
  BY WindowWord, WordLength
<1>2. /\ f \in 1..Len(t) /\ OccursAt(t, word, f)
      /\ \A k \in 1..Len(t) : k < f => ~OccursAt(t, word, k)
  <2>1. f # 0
    BY DEF FindSubslice
  <2> HIDE DEF t
  <2> QED BY <1>1, <2>1, FindFound DEF Words
<1>3. \/ g = 0 /\ \A k \in (a + 1)..Len(s) : ~OccursAt(s, word, k)
      \/ /\ g \in (a + 1)..Len(s) /\ OccursAt(s, word, g)
         /\ \A k \in (a + 1)..Len(s) : k < g => ~OccursAt(s, word, k)
  BY FindFound DEF Words
<1>4. \A k \in Nat \ {0} : OccursAt(t, word, k) <=> /\ a + k + Len(word) - 1 <= b
                                                   /\ OccursAt(s, word, a + k)
  BY OccursInWindow DEF Words
<1> HIDE DEF t, f, g
<1>5. a + f + Len(word) - 1 <= b /\ OccursAt(s, word, a + f) /\ f \in 1..(b - a)
  BY <1>1, <1>2, <1>4
<1>6. g \in (a + 1)..Len(s) /\ g <= a + f /\ OccursAt(s, word, g)
  BY <1>1, <1>3, <1>5
<1>7. g - a \in 1..Len(t) /\ OccursAt(t, word, g - a)
  BY <1>1, <1>4, <1>5, <1>6
<1>8. g = a + f
  BY <1>1, <1>2, <1>5, <1>6, <1>7
<1> QED BY <1>1, <1>5, <1>8 DEF t, f, g, FindSubslice

\* What is written later does not come before what was found.
LEMMA FoundStays ==
  ASSUME NEW s \in Words, NEW out \in Words, NEW word \in Words, NEW i \in Nat \ {0},
         FindFrom(s, word, i) # 0
  PROVE  /\ FindFrom(s \o out, word, i) = FindFrom(s, word, i)
         /\ FindFrom(s, word, i) \in i..Len(s)
         /\ FindFrom(s, word, i) + Len(word) - 1 \in (i - 1)..Len(s)
<1> DEFINE t == s \o out
           f == FindFrom(s, word, i)
           g == FindFrom(t, word, i)
<1>1. t \in Words /\ Len(t) = Len(s) + Len(out) /\ Len(s) \in Nat /\ Len(out) \in Nat
      /\ Len(word) \in Nat
  BY Joined, WordLength
<1>2. /\ f \in i..Len(s) /\ OccursAt(s, word, f)
      /\ \A k \in i..Len(s) : k < f => ~OccursAt(s, word, k)
  BY FindFound DEF Words
<1>3. \/ g = 0 /\ \A k \in i..Len(t) : ~OccursAt(t, word, k)
      \/ /\ g \in i..Len(t) /\ OccursAt(t, word, g)
         /\ \A k \in i..Len(t) : k < g => ~OccursAt(t, word, k)
  <2> HIDE DEF t
  <2> QED BY <1>1, FindFound DEF Words
<1>4. \A k \in Nat \ {0} : OccursAt(s, word, k) <=> /\ k + Len(word) - 1 <= Len(s)
                                                   /\ OccursAt(t, word, k)
  <2>1. \A k \in 1..Len(s) : t[k] = s[k]
    BY ConcatProperties DEF Words
  <2>2. ASSUME NEW k \in Nat \ {0}, k + Len(word) - 1 <= Len(s), NEW j \in 1..Len(word)
        PROVE  t[k + j - 1] = s[k + j - 1]
    BY <1>1, <2>1, <2>2
  <2> HIDE DEF t
  <2> QED BY <1>1, <2>2 DEF OccursAt
<1> HIDE DEF t, f, g
<1>5. OccursAt(t, word, f) /\ f \in i..Len(t) /\ f + Len(word) - 1 <= Len(s)
  BY <1>1, <1>2, <1>4
<1>6. g \in i..Len(t) /\ g <= f /\ OccursAt(t, word, g)
  BY <1>1, <1>3, <1>5
<1>7. OccursAt(s, word, g) /\ g \in i..Len(s)
  BY <1>1, <1>2, <1>4, <1>5, <1>6
<1>8. g = f
  BY <1>1, <1>2, <1>6, <1>7
<1> QED BY <1>1, <1>2, <1>5, <1>8 DEF t, f, g

LEMMA RecordedStays ==
  ASSUME NEW s \in Words, NEW out \in Words, NEW op \in Operation, NEW old, old.at \in Nat,
         op.kind \in Waits => FindFrom(s, op.pattern, old.at + 1) # 0
  PROVE  /\ Recorded(op, s \o out, old) = Recorded(op, s, old)
         /\ op.kind \in Waits => FindFrom(s \o out, op.pattern, old.at + 1) # 0
<1>1. CASE op.kind \in Waits
  <2> DEFINE end == FindFrom(s, op.pattern, old.at + 1) + Len(op.pattern) - 1
  <2>1. op.pattern \in Words /\ old.at + 1 \in Nat \ {0} /\ (old.at + 1) - 1 = old.at
    <3>1. op.pattern \in Words
      BY DEF Operation, Words
    <3> QED BY <3>1
  <2>2. /\ FindFrom(s \o out, op.pattern, old.at + 1) = FindFrom(s, op.pattern, old.at + 1)
        /\ end \in old.at..Len(s)
    <3>1. FindFrom(s, op.pattern, old.at + 1) # 0
      BY <1>1
    <3> QED BY <2>1, <3>1, FoundStays
  <2>3. SubSeq(s \o out, old.at + 1, end) = SubSeq(s, old.at + 1, end)
    <3> HIDE DEF end
    <3> QED BY <2>2, WindowStays
  <2> QED BY <1>1, <2>2, <2>3 DEF Recorded
<1>2. CASE op.kind \notin Waits
  BY <1>2 DEF Recorded
<1> QED BY <1>1, <1>2

LEMMA RecordsLonger ==
  ASSUME NEW script \in Seq(Operation), NEW s \in Words, NEW out \in Words,
         NEW n \in 0..Len(script), NEW g, Records(script, s, n, g), Finds(script, s, n, g)
  PROVE  Records(script, s \o out, n, g) /\ Finds(script, s \o out, n, g)
<1>1. ASSUME NEW k \in 1..n
      PROVE  /\ Recorded(script[k], s \o out, g[k - 1]) = Recorded(script[k], s, g[k - 1])
             /\ script[k].kind \in Waits
                  => FindFrom(s \o out, script[k].pattern, g[k - 1].at + 1) # 0
  <2>1. script[k] \in Operation /\ k - 1 \in 0..n
    BY ElementOfSeq, LenProperties
  <2>2. g[k - 1].at \in Nat
    BY <2>1 DEF Finds
  <2>3. script[k].kind \in Waits => FindFrom(s, script[k].pattern, g[k - 1].at + 1) # 0
    BY DEF Finds
  <2> QED BY <2>1, <2>2, <2>3, RecordedStays
<1>2. Finds(script, s \o out, n, g)
  BY <1>1 DEF Finds
<1>3. g = [k \in 0..n |-> IF k = 0 THEN [at |-> 0, builder |-> NewBuilder]
                          ELSE Recorded(script[k], s \o out, g[k - 1])]
  <2>1. g = [k \in 0..n |-> IF k = 0 THEN [at |-> 0, builder |-> NewBuilder]
                            ELSE Recorded(script[k], s, g[k - 1])]
    BY DEF Records
  <2>2. \A k \in 0..n : k # 0 => k \in 1..n
    OBVIOUS
  <2>3. \A k \in 0..n : (IF k = 0 THEN [at |-> 0, builder |-> NewBuilder]
                         ELSE Recorded(script[k], s, g[k - 1]))
                        = (IF k = 0 THEN [at |-> 0, builder |-> NewBuilder]
                           ELSE Recorded(script[k], s \o out, g[k - 1]))
    BY <1>1, <2>2
  <2> QED BY <2>1, <2>3, Zenon
<1> QED BY <1>2, <1>3 DEF Records

\* One operation more, of which k is the last before it.
OneMore(script, s, k, g) ==
  \E h : /\ Records(script, s, k + 1, h) /\ Finds(script, s, k + 1, h)
         /\ h[k + 1] = Recorded(script[k + 1], s, g[k])

LEMMA RecordsOneMore ==
  ASSUME NEW script, NEW s, NEW n \in Nat, NEW g, Records(script, s, n, g), Finds(script, s, n, g),
         Recorded(script[n + 1], s, g[n]).at \in Nat,
         script[n + 1].kind \in Waits
           => FindFrom(s, script[n + 1].pattern, g[n].at + 1) # 0
  PROVE  OneMore(script, s, n, g)
<1> DEFINE new == Recorded(script[n + 1], s, g[n])
           h == [k \in 0..(n + 1) |-> IF k = n + 1 THEN new ELSE g[k]]
<1>1. h[n + 1] = new /\ \A k \in 0..n : h[k] = g[k]
  OBVIOUS
<1>2. h = [k \in 0..(n + 1) |-> h[k]]
  OBVIOUS
<1> HIDE DEF h
<1>3. ASSUME NEW k \in 0..(n + 1)
      PROVE  h[k] = IF k = 0 THEN [at |-> 0, builder |-> NewBuilder]
                    ELSE Recorded(script[k], s, h[k - 1])
  <2>1. CASE k = n + 1
    <3>1. k - 1 = n /\ k # 0 /\ n \in 0..n
      BY <2>1
    <3> QED BY <1>1, <2>1, <3>1
  <2>2. CASE k = 0
    BY <1>1, <2>2 DEF Records
  <2>3. CASE k \in 1..n
    <3>1. k - 1 \in 0..n /\ k \in 0..n /\ k # 0
      BY <2>3
    <3>2. g[k] = Recorded(script[k], s, g[k - 1])
      BY <3>1 DEF Records
    <3> QED BY <1>1, <3>1, <3>2
  <2> QED BY <2>1, <2>2, <2>3
<1>4. Records(script, s, n + 1, h)
  BY <1>2, <1>3 DEF Records
<1>5. Finds(script, s, n + 1, h)
  <2>1. \A k \in 0..(n + 1) : k \in 0..n \/ k = n + 1
    OBVIOUS
  <2>2. \A k \in 0..(n + 1) : h[k].at \in Nat
    BY <1>1, <2>1 DEF Finds
  <2>3. ASSUME NEW k \in 1..(n + 1), script[k].kind \in Waits
        PROVE  FindFrom(s, script[k].pattern, h[k - 1].at + 1) # 0
    <3>1. k - 1 \in 0..n /\ h[k - 1] = g[k - 1]
      BY <1>1
    <3>2. CASE k \in 1..n
      BY <2>3, <3>1, <3>2 DEF Finds
    <3>3. CASE k = n + 1
      <4>1. k - 1 = n
        BY <3>3
      <4> QED BY <2>3, <3>1, <3>3, <4>1
    <3> QED BY <3>2, <3>3
  <2> QED BY <2>2, <2>3 DEF Finds
<1> QED BY <1>1, <1>4, <1>5 DEF OneMore

-----------------------------------------------------------------------------
LEMMA KindsKept ==
  ASSUME SessionInv, Kinds, [Next]_vars
  PROVE  Kinds'
<1> USE DEF vars, childVars, sharedVars, drainVars, mainVars, MainOther, DrainOther, Quiet, NextOp,
            Goto, Goes, Nothing, Record, Start, Fails
<1>1. plan' = plan
  BY DEF Next, Reader, Script, ChildWrites, ChildExits, DrainTop, SelectTimesOut, ReadFails, ReadChunk,
    AppendChunk, Overruns, WriteFails, Send, Press, Present, PresentTyped, Type, SendWait, WaitFor, Arm,
    Capture, WriteArmed, WatchFired, TimesOut, PollRegex, PollAgain, PutBack, RecordEcho, Settle, Stop,
    Shutdown, Join, Ended
<1>2. step' = step => Op' = Op
  BY <1>1 DEF Op
<1>3. step \in Nat /\ Len(plan.script) \in Nat
  BY SessionAssumption, LenProperties DEF SessionInv, SessionType
<1>4. pc \in Busy => step <= Len(plan.script)
  BY DEF SessionInv, Place
<1>5. CASE UNCHANGED <<step, pc>>
  BY <1>1, <1>2, <1>5 DEF Kinds
<1>6. ASSUME step' = step + 1, pc' = "ready", step <= Len(plan.script)
      PROVE  Kinds'
  BY <1>1, <1>3, <1>6 DEF Kinds
<1>7. ASSUME step' = step, pc' \in {"drop", "join", "done", "ready"}
      PROVE  Kinds'
  BY <1>1, <1>7 DEF Kinds
<1>8. CASE Overruns \/ WriteFails \/ TimesOut \/ Stop \/ Shutdown \/ Join
  BY <1>7, <1>8 DEF Overruns, WriteFails, TimesOut, Stop, Shutdown, Join
<1>9. CASE Send \/ Present \/ PresentTyped \/ PutBack \/ Settle
  BY <1>4, <1>6, <1>9 DEF Send, Present, PresentTyped, PutBack, Settle, Busy
<1>10. CASE RecordEcho
  BY <1>4, <1>6, <1>7, <1>10 DEF RecordEcho, Busy
<1>11. CASE Press \/ Capture \/ SendWait \/ WaitFor
  BY <1>1, <1>2, <1>11 DEF Press, Capture, SendWait, WaitFor, Kinds
<1>12. CASE Type
  <2>1. CASE Op.text = <<>>
    BY <1>6, <1>12, <2>1 DEF Type
  <2>2. CASE Op.text # <<>>
    BY <1>1, <1>2, <1>12, <2>2 DEF Type, Kinds
  <2> QED BY <2>1, <2>2
<1>13. CASE Arm \/ WriteArmed \/ WatchFired \/ PollRegex \/ PollAgain
  BY <1>1, <1>2, <1>13 DEF Arm, WriteArmed, WatchFired, PollRegex, PollAgain, Kinds, Waits
<1> QED BY <1>5, <1>8, <1>9, <1>10, <1>11, <1>12, <1>13
     DEF Next, Reader, Script, ChildWrites, ChildExits, DrainTop, SelectTimesOut, ReadFails, ReadChunk,
         AppendChunk, Ended

\* What a wait takes ends where its pattern first occurs behind what was taken.
LEMMA PutBackTakes ==
  ASSUME SessionInv, Kinds, PutBack
  PROVE  /\ FindFrom(wrote, Op.pattern, Len(taken) + 1) # 0
         /\ [at |-> Len(taken'), builder |-> builder']
              = Recorded(Op, wrote, [at |-> Len(taken), builder |-> builder])
<1> DEFINE a == Len(taken)
           b == Len(taken) + Len(captured)
           at == FindSubslice(captured, Op.pattern)
<1>1. SessionType /\ Stream /\ step <= Len(plan.script) /\ Op.kind \in Waits
      /\ Holds(captured, Pattern)
  BY DEF SessionInv, Place, Busy, PutBack, Kinds, Armed
<1>2. Pattern = Op.pattern /\ Op.pattern \in Words /\ at # 0
  BY <1>1, OpTyped DEF Pattern, Holds, Waits
<1>3. /\ taken \in Words /\ captured \in Words /\ wrote \in Words
      /\ a \in Nat /\ Len(captured) \in Nat /\ Len(wrote) \in Nat /\ Len(Op.pattern) \in Nat
  BY <1>1, <1>2, WordLength DEF SessionType
<1>4. captured = SubSeq(wrote, a + 1, b) /\ b \in a..Len(wrote)
  <2>1. bytes \in Words /\ chunk \in Words /\ pty \in Words
    BY <1>1 DEF SessionType
  <2>2. wrote = (taken \o captured) \o (bytes \o (chunk \o pty))
    <3> DEFINE own == taken \o captured
    <3>1. own \in Words /\ chunk \o pty \in Words /\ own \o bytes \in Words
      BY <1>3, <2>1, Joined
    <3>2. ((own \o bytes) \o chunk) \o pty = wrote
      BY <1>1 DEF Stream
    <3> HIDE DEF own
    <3>3. ((own \o bytes) \o chunk) \o pty = (own \o bytes) \o (chunk \o pty)
      <4> DEFINE more == own \o bytes
      <4>1. more \in Words
        BY <3>1
      <4> HIDE DEF more
      <4>2. (more \o chunk) \o pty = more \o (chunk \o pty)
        BY <2>1, <4>1, Regroup, SMTT(60)
      <4> QED BY <4>2 DEF more
    <3>4. (own \o bytes) \o (chunk \o pty) = own \o (bytes \o (chunk \o pty))
      <4> DEFINE more == chunk \o pty
      <4>1. more \in Words
        BY <3>1
      <4> HIDE DEF more
      <4>2. (own \o bytes) \o more = own \o (bytes \o more)
        BY <2>1, <3>1, <4>1, Regroup, SMTT(60)
      <4> QED BY <4>2 DEF more
    <3> QED BY <3>2, <3>3, <3>4 DEF own
  <2> DEFINE rest == bytes \o (chunk \o pty)
  <2>3. rest \in Words
    <3>1. chunk \o pty \in Words
      BY <2>1, Joined
    <3> QED BY <2>1, <3>1, Joined
  <2> HIDE DEF rest
  <2>4. wrote = (taken \o captured) \o rest
    BY <2>2 DEF rest
  <2>5. captured = SubSeq(wrote, a + 1, b)
    BY <1>3, <2>3, <2>4, MiddleIsWindow
  <2>6. Len(wrote) = (a + Len(captured)) + Len(rest) /\ Len(rest) \in Nat
    <3>1. taken \o captured \in Words /\ Len(taken \o captured) = a + Len(captured)
      BY <1>3, Joined
    <3> QED BY <2>3, <2>4, <3>1, Joined, WordLength
  <2> QED BY <1>3, <2>5, <2>6
<1>5. /\ FindFrom(wrote, Op.pattern, a + 1) = a + at
      /\ at \in 1..(b - a) /\ at + Len(Op.pattern) - 1 <= b - a
  <2>1. FindSubslice(SubSeq(wrote, a + 1, b), Op.pattern) # 0
    BY <1>2, <1>4
  <2> HIDE DEF b
  <2> QED BY <1>2, <1>3, <1>4, <2>1, FoundInPart
<1>6. End = at + Len(Op.pattern) - 1
  BY <1>2 DEF End
<1> HIDE DEF at
<1>7. b \in Nat /\ End \in 0..Len(captured) /\ b - a = Len(captured)
      /\ FindFrom(wrote, Op.pattern, a + 1) + Len(Op.pattern) - 1 = a + End
  BY <1>3, <1>5, <1>6
<1>8. taken' = taken \o SubSeq(captured, 1, End)
      /\ builder' = RecordOutput(builder, SubSeq(captured, 1, End), Op.dwell)
  BY DEF PutBack, Record
<1> HIDE DEF a, b
<1>9. Len(taken') = a + End
  <2>1. SubSeq(captured, 1, End) \in Words /\ Len(SubSeq(captured, 1, End)) = End
    BY <1>3, <1>7, CutInTwo
  <2> QED BY <1>3, <1>8, <2>1, Joined DEF a
<1>10. SubSeq(captured, 1, End) = SubSeq(wrote, a + 1, a + End)
  <2>1. End \in 0..(b - a) /\ a + 0 = a
    BY <1>3, <1>7
  <2>2. SubSeq(SubSeq(wrote, a + 1, b), 0 + 1, End) = SubSeq(wrote, (a + 0) + 1, a + End)
    BY <1>3, <1>4, <2>1, WindowInWindow
  <2>3. 0 + 1 = 1
    OBVIOUS
  <2>4. SubSeq(captured, 0 + 1, End) = SubSeq(wrote, (a + 0) + 1, a + End)
    BY <1>4, <2>2, Zenon
  <2> QED BY <2>1, <2>3, <2>4, Zenon
<1>11. a + at # 0
  BY <1>3, <1>5
<1> QED BY <1>1, <1>5, <1>7, <1>8, <1>9, <1>10, <1>11 DEF Recorded, Waits, a

LEMMA ExactKept ==
  ASSUME SessionInv, Kinds, Exact, [Next]_vars
  PROVE  Exact'
<1> USE DEF vars, childVars, sharedVars, drainVars, mainVars, MainOther, DrainOther, Quiet, NextOp,
            Goto, Goes, Nothing, Record, Start, Fails
<1>1. /\ SessionType /\ Place /\ plan.script \in Seq(Operation) /\ Len(plan.script) \in Nat
      /\ step \in Nat \ {0} /\ step - 1 \in 0..Len(plan.script) /\ wrote \in Words
      /\ taken \in Words
  BY SessionAssumption, LenProperties DEF SessionInv, SessionType, Kinds
<1>2. plan' = plan
  BY DEF Next, Reader, Script, ChildWrites, ChildExits, DrainTop, SelectTimesOut, ReadFails, ReadChunk,
    AppendChunk, Overruns, WriteFails, Send, Press, Present, PresentTyped, Type, SendWait, WaitFor, Arm,
    Capture, WriteArmed, WatchFired, TimesOut, PollRegex, PollAgain, PutBack, RecordEcho, Settle, Stop,
    Shutdown, Join, Ended
<1>3. PICK out \in Words : wrote' = wrote \o out
  <2>1. CASE Moves
    BY <2>1 DEF Moves, Grows
  <2>2. CASE Reads
    <3>1. wrote' = wrote
      BY <1>1, <2>2, ReadMoves, AppendMoves DEF Reads
    <3> QED BY <1>1, <3>1, WithNothing
  <2> QED BY <1>1, <2>1, <2>2, StepsMove
<1>4. \A k \in 1..Min({step, Len(plan.script)}) : k \in 1..step /\ k <= Len(plan.script)
  <2>1. Min({step, Len(plan.script)}) \in {step, Len(plan.script)}
        /\ Min({step, Len(plan.script)}) <= step /\ Min({step, Len(plan.script)}) <= Len(plan.script)
    BY <1>1, Lesser
  <2> DEFINE least == Min({step, Len(plan.script)})
  <2>2. least \in Nat /\ least <= step /\ least <= Len(plan.script)
    BY <1>1, <2>1
  <2> HIDE DEF least
  <2>3. \A k \in 1..least : k \in 1..step /\ k <= Len(plan.script)
    BY <1>1, <2>2
  <2> QED BY <2>3 DEF least
<1>5. ASSUME NEW n \in Nat \ {0}, AllTimeless', step' = n, NEW k \in 1..n, k <= Len(plan.script)
      PROVE  Timeless(plan.script[k])
  <2> DEFINE least == Min({n, Len(plan.script)})
  <2>1. least \in {n, Len(plan.script)}
    BY <1>1, Lesser
  <2> HIDE DEF least
  <2>2. k \in 1..least
    BY <1>1, <1>5, <2>1
  <2>3. \A j \in 1..least : Timeless(plan.script[j])
    BY <1>2, <1>5 DEF AllTimeless, least
  <2> QED BY <2>2, <2>3
\* Nothing is recorded.
<1>6. ASSUME UNCHANGED <<step, taken, builder>>
      PROVE  Exact'
  <2> SUFFICES ASSUME AllTimeless'
               PROVE  \E g : /\ Records(plan.script, wrote', step - 1, g)
                             /\ Finds(plan.script, wrote', step - 1, g)
                             /\ g[step - 1] = [at |-> Len(taken), builder |-> builder]
    BY <1>2, <1>6 DEF Exact
  <2>1. AllTimeless
    BY <1>1, <1>4, <1>5, <1>6 DEF AllTimeless
  <2>2. PICK g : /\ Records(plan.script, wrote, step - 1, g) /\ Finds(plan.script, wrote, step - 1, g)
                 /\ g[step - 1] = [at |-> Len(taken), builder |-> builder]
    BY <2>1 DEF Exact
  <2>3. Records(plan.script, wrote', step - 1, g) /\ Finds(plan.script, wrote', step - 1, g)
    BY <1>1, <1>3, <2>2, RecordsLonger
  <2> QED BY <2>2, <2>3
\* The operation ends, with what it had to record.
<1>7. ASSUME step' = step + 1, step <= Len(plan.script), taken' \in Words,
             Op.kind \in Waits => FindFrom(wrote', Op.pattern, Len(taken) + 1) # 0,
             Timeless(Op) => [at |-> Len(taken'), builder |-> builder']
                               = Recorded(Op, wrote', [at |-> Len(taken), builder |-> builder])
      PROVE  Exact'
  <2> DEFINE new == [at |-> Len(taken'), builder |-> builder']
             n == step - 1
  <2>1. n \in Nat /\ n + 1 = step /\ step' - 1 = step /\ n \in 0..Len(plan.script)
        /\ step + 1 \in Nat \ {0} /\ plan.script[n + 1] = Op
    BY <1>1, <1>7 DEF Op
  <2> SUFFICES ASSUME AllTimeless'
               PROVE  \E h : /\ Records(plan.script, wrote', step, h)
                             /\ Finds(plan.script, wrote', step, h)
                             /\ h[step] = new
    BY <1>2, <2>1 DEF Exact
  <2>2. AllTimeless /\ Timeless(Op)
    <3>1. \A k \in 1..step : k \in 1..(step + 1)
      BY <1>1
    <3>2. AllTimeless
      BY <1>1, <1>4, <1>5, <1>7, <2>1, <3>1 DEF AllTimeless
    <3>3. step \in 1..(step + 1)
      BY <1>1
    <3> QED BY <1>5, <1>7, <2>1, <3>2, <3>3 DEF Op
  <2>3. PICK g : /\ Records(plan.script, wrote, n, g) /\ Finds(plan.script, wrote, n, g)
                 /\ g[n] = [at |-> Len(taken), builder |-> builder]
    BY <2>2 DEF Exact
  <2> HIDE DEF n
  <2>4. Records(plan.script, wrote', n, g) /\ Finds(plan.script, wrote', n, g)
    BY <1>1, <1>3, <2>1, <2>3, RecordsLonger
  <2>5. g[n].at = Len(taken) /\ new.at \in Nat
    BY <1>7, <2>3, WordLength
  <2>6. new = Recorded(plan.script[n + 1], wrote', g[n])
    BY <1>7, <2>1, <2>2, <2>3
  <2> HIDE DEF new
  <2>7. plan.script[n + 1].kind \in Waits
          => FindFrom(wrote', plan.script[n + 1].pattern, g[n].at + 1) # 0
    BY <1>7, <2>1, <2>5
  <2>8. n \in Nat
    BY <2>1
  <2>9. Recorded(plan.script[n + 1], wrote', g[n]).at \in Nat
    BY <2>5, <2>6
  <2>10. OneMore(plan.script, wrote', n, g)
    BY <2>4, <2>7, <2>8, <2>9, RecordsOneMore
  <2> QED BY <2>1, <2>6, <2>10 DEF OneMore
\* The operation is not of a kind that the property speaks of.
<1>8. ASSUME ~Timeless(Op), step <= Len(plan.script), step' \in {step, step + 1}
      PROVE  Exact'
  <2>1. step' \in Nat \ {0} /\ step \in 1..step'
    BY <1>1, <1>8
  <2>2. ~AllTimeless'
    BY <1>5, <1>8, <2>1 DEF Op
  <2> QED BY <2>2 DEF Exact
<1>9. pc \in Busy => step <= Len(plan.script)
  BY <1>1 DEF Place
<1>10. CASE Send
  <2>1. Op.kind = "send" /\ UNCHANGED <<taken, builder>> /\ step' = step + 1 /\ step <= Len(plan.script)
    BY <1>10 DEF Send
  <2>2. Recorded(Op, wrote', [at |-> Len(taken), builder |-> builder]) = [at |-> Len(taken), builder |-> builder]
    BY <2>1 DEF Recorded, Waits
  <2>3. Op.kind \notin Waits
    BY <2>1 DEF Waits
  <2> QED BY <1>1, <1>7, <2>1, <2>2, <2>3
<1>11. CASE Present
  <2>1. /\ Op.kind = "present" /\ taken' = taken /\ step' = step + 1 /\ step <= Len(plan.script)
        /\ builder' = RecordOutput(builder, Op.text, Op.dwell)
    BY <1>11 DEF Present
  <2>2. Recorded(Op, wrote', [at |-> Len(taken), builder |-> builder]) = [at |-> Len(taken), builder |-> builder']
    BY <2>1 DEF Recorded, Waits
  <2>3. Op.kind \notin Waits
    BY <2>1 DEF Waits
  <2> QED BY <1>1, <1>7, <2>1, <2>2, <2>3
<1>12. CASE PresentTyped
  <2>1. /\ Op.kind = "presentTyped" /\ taken' = taken /\ step' = step + 1 /\ step <= Len(plan.script)
        /\ builder' = RecordTyped(builder, Op.text, Op.dwell)
    BY <1>12 DEF PresentTyped
  <2>2. Recorded(Op, wrote', [at |-> Len(taken), builder |-> builder]) = [at |-> Len(taken), builder |-> builder']
    BY <2>1 DEF Recorded, Waits
  <2>3. Op.kind \notin Waits
    BY <2>1 DEF Waits
  <2> QED BY <1>1, <1>7, <2>1, <2>2, <2>3
<1>13. CASE PutBack
  <2>1. step' = step + 1 /\ step <= Len(plan.script) /\ wrote' = wrote
    BY <1>9, <1>13 DEF PutBack, Busy
  <2>2. taken' \in Words
    BY TypesKept DEF SessionInv, SessionType
  <2> QED BY <1>7, <1>13, <2>1, <2>2, PutBackTakes
<1>14. CASE Type \/ RecordEcho \/ Settle
  <2>1. Op.kind \in {"type", "press", "capture"} /\ step <= Len(plan.script) /\ step' \in {step, step + 1}
    BY <1>9, <1>14 DEF Type, RecordEcho, Settle, Kinds, SessionInv, Armed, Busy
  <2> QED BY <1>8, <2>1 DEF Timeless
<1>15. CASE ~(Send \/ Present \/ PresentTyped \/ PutBack \/ Type \/ RecordEcho \/ Settle)
  <2>1. UNCHANGED <<step, taken, builder>>
    BY <1>15 DEF Next, Reader, Script, ChildWrites, ChildExits, DrainTop, SelectTimesOut, ReadFails, ReadChunk,
      AppendChunk, Overruns, WriteFails, Press, SendWait, WaitFor, Arm, Capture, WriteArmed, WatchFired,
      TimesOut, PollRegex, PollAgain, Stop, Shutdown, Join, Ended
  <2> QED BY <1>6, <2>1
<1> QED BY <1>10, <1>11, <1>12, <1>13, <1>14, <1>15

LEMMA ExactStarts == Init => Kinds /\ Exact
<1> SUFFICES ASSUME Init
             PROVE  Kinds /\ Exact
  OBVIOUS
<1> DEFINE start == [at |-> 0, builder |-> NewBuilder]
           g == [k \in 0..0 |-> start]
<1>1. step - 1 = 0 /\ Len(taken) = 0 /\ builder = NewBuilder
  BY EmptySeq DEF Init
<1>2. Records(plan.script, wrote, 0, g) /\ Finds(plan.script, wrote, 0, g) /\ g[0] = start
  BY DEF Records, Finds
<1>3. Exact
  BY <1>1, <1>2 DEF Exact
<1>4. Len(plan.script) \in Nat
  BY SessionAssumption, LenProperties DEF Init
<1> QED BY <1>3, <1>4 DEF Init, Kinds

LEMMA ExpectedIsExact ==
  ASSUME SessionInv, Exact, AllTimeless
  PROVE  Expected = builder
<1> DEFINE n == step - 1
           After == CHOOSE h : Records(plan.script, wrote, n, h)
<1>1. n \in Nat
  BY DEF SessionInv, SessionType
<1>2. PICK g : Records(plan.script, wrote, n, g) /\ g[n] = [at |-> Len(taken), builder |-> builder]
  BY DEF Exact
<1>3. Records(plan.script, wrote, n, After)
  BY <1>2
<1>4. Expected = After[n].builder
  BY DEF Expected, Records, Recorded, Waits
<1> HIDE DEF n, After
<1>5. After = g
  BY <1>1, <1>2, <1>3, RecordsSame
<1> QED BY <1>2, <1>4, <1>5

-----------------------------------------------------------------------------
LEMMA SessionStarts == Init => SessionInv
<1> SUFFICES ASSUME Init
             PROVE  SessionInv
  OBVIOUS
<1>1. <<>> \in Words /\ <<>> \o <<>> = <<>> /\ Len(<<>>) = 0
  <2>1. <<>> \in Words /\ Len(<<>>) = 0
    BY EmptySeq DEF Words
  <2> QED BY <2>1, WithNothing
<1>2. SessionType /\ Place /\ Stream
  BY <1>1 DEF Init, SessionType, Place, Stream, Busy
<1>3. Marks /\ KeepUp /\ Armed
  BY DEF Init, Marks, KeepUp, Armed
<1> QED BY <1>2, <1>3 DEF SessionInv

LEMMA SessionSteps == SessionInv /\ [Next]_vars => SessionInv'
<1> SUFFICES ASSUME SessionInv, [Next]_vars
             PROVE  SessionInv'
  OBVIOUS
<1>1. SessionType /\ Place /\ Stream /\ Armed
  BY DEF SessionInv
<1>2. SessionType' /\ Place' /\ Stream'
  BY <1>1, TypesKept, StreamKept
<1> QED BY <1>2, KeepUpKept, MarksKept, ArmedKept DEF SessionInv

LEMMA SessionAlways == Spec => []SessionInv
BY SessionStarts, SessionSteps, PTL DEF Spec

\* Whatever the two threads do in between, for any script and any child: no byte is
\* lost, doubled or moved on its way from the PTY into the recording (drainer.rs,
\* consume and unconsume; pty/mod.rs).
THEOREM AllBytesArrive == Spec => []NothingLost
<1>1. SessionInv => NothingLost
  BY DEF SessionInv, Stream, NothingLost
<1> QED BY <1>1, SessionAlways, PTL

\* However the reads cut the output, for any patterns: a watch that waits has not
\* missed its pattern, and one that fired finds it in what the operation takes
\* (drainer.rs, Watch::observe and register_watch).
THEOREM WatchesSeeAll == Spec => []NoMissedWatch
<1>1. SessionInv => NoMissedWatch
  BY DEF SessionInv, KeepUp, Since, Armed, NoMissedWatch
<1> QED BY <1>1, SessionAlways, PTL

\* For any script whose operations wait for patterns, any child and any sizes of
\* reads: the events and their times are a function of what the child wrote
\* (pty/mod.rs, send_raw_wait_for and wait_for; drainer.rs).
THEOREM TraceIsDetermined == Spec => []SameTraceAlways
<1>1. Init => SessionInv /\ Kinds /\ Exact
  BY SessionStarts, ExactStarts
<1>2. SessionInv /\ Kinds /\ Exact /\ [Next]_vars => (SessionInv /\ Kinds /\ Exact)'
  BY SessionSteps, KindsKept, ExactKept
<1>3. SessionInv /\ Kinds /\ Exact => SameTraceAlways
  BY ExpectedIsExact DEF SameTraceAlways, AllTimeless
<1> QED BY <1>1, <1>2, <1>3, PTL DEF Spec
=============================================================================
