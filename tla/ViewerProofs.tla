---------------------------- MODULE ViewerProofs ----------------------------
(***************************************************************************)
(* What reaches whoever looks at a room.  In a browser, through the bridge *)
(* (Web), for any conversations, any depths of its channels and any sizes  *)
(* of reads: in both directions nothing is lost, doubled or overtaken,     *)
(* whichever task ends first.  On a terminal (Viewport): what is painted   *)
(* is what the room shows, for any number of rows of the room and of the   *)
(* terminal, whatever is resized or fails in between.                      *)
(***************************************************************************)
EXTENDS Web, Viewport, SharedLemmas

Shown     == {Status} \cup OutputEvent
ToBrowser == Shown \cup {Closing}
ToHost    == {Hello} \cup BrowserMessage
Accepted  == {m \in ResizeMessage : Acceptable(m)}
Passing   == KeyMessage \cup Accepted

AtMostOne(S) == {<<>>} \cup {<<x>> : x \in S}

ControlType ==
  /\ scenario \in Scenarios /\ running \subseteq Tasks
  /\ phase \in {"request", "connecting", "shaking", "bridged", "ending", "closed", "refused"}
  /\ gotHello \in BOOLEAN /\ hostOpen \in BOOLEAN /\ browserOpen \in BOOLEAN

DownType ==
  /\ fromHost \in Seq(HostEvent) /\ pending \in Seq(OutputEvent) /\ events \in Seq(HostEvent)
  /\ toBrowser \in Seq(Shown) /\ toWs \in AtMostOne(Shown)
  /\ sink \in Seq(ToBrowser) /\ seen \in Seq(ToBrowser)

UpType ==
  /\ fromBrowser \in Seq(BrowserMessage) /\ fromWs \in AtMostOne(Passing)
  /\ keys \in Seq(KeyMessage) /\ resizes \in Seq(Accepted) /\ toTcp \in AtMostOne(Passing)
  /\ tcpOut \in Seq(ToHost) /\ heard \in Seq(ToHost)

\* The four tasks have been spawned, and may be gone again.
Begun == phase \in {"bridged", "ending"} \/ (phase = "closed" /\ gotHello)

Stage ==
  /\ running # {} => phase \in {"bridged", "ending"}
  /\ phase \in {"bridged", "ending"} => gotHello
  /\ phase \in {"request", "connecting"} => ~gotHello /\ tcpOut = <<>>
  /\ phase \in {"request", "connecting", "shaking"} => sink = <<>> /\ seen = <<>>
  /\ ~Begun => /\ toWs = <<>> /\ toBrowser = <<>> /\ events = <<>>
               /\ Only(seen, Shown) = <<>> /\ Only(sink, Shown) = <<>>
  /\ "tcp_to_ws" \in running => sink \in Seq(Shown)
  /\ ~browserOpen => fromBrowser = <<>>

\* What the host wrote, from where it has come farthest.
Given == Only(seen, Shown) \o Only(sink, Shown) \o toWs \o toBrowser
Ahead == pending \o Only(events, OutputEvent) \o Only(fromHost, OutputEvent)

Downstream ==
  /\ Begun => Given \o Ahead = <<Status>> \o Written
  /\ phase \in {"request", "connecting", "shaking"} => Ahead = Written

\* The messages of one kind between the browser's end and the host's.
Inside(kind) ==
  Only(heard, kind) \o Only(tcpOut, kind) \o Only(toTcp, kind) \o Only(keys, kind)
    \o Only(resizes, kind) \o Only(fromWs, kind)

Message == HostEvent \cup ToBrowser \cup BrowserMessage \cup {Hello}
Stream  == Seq(Message)

\* A browser that has left took the rest with it.
Upstream(kind, passing) ==
  IF scenario.readOnly
  THEN /\ Only(heard, kind) = <<>> /\ Only(tcpOut, kind) = <<>>
       /\ toTcp = <<>> /\ keys = <<>> /\ resizes = <<>> /\ fromWs = <<>>
  ELSE \E rest \in Stream : /\ Inside(kind) \o rest = Only(scenario.browser, passing)
                            /\ browserOpen => rest = Only(fromBrowser, passing)

WebInv == /\ ControlType /\ DownType /\ UpType /\ Stage /\ Downstream
          /\ Upstream(KeyMessage, KeyMessage) /\ Upstream(ResizeMessage, Accepted)

-----------------------------------------------------------------------------
(* Sequences that lose an element or gain one. *)

LEMMA Pop ==
  ASSUME NEW M, NEW s \in Seq(M), s # <<>>
  PROVE  /\ Head(s) \in M /\ Tail(s) \in Seq(M) /\ Len(s) \in Nat \ {0}
         /\ Head(s) = s[1] /\ s = <<Head(s)>> \o Tail(s)
<1>1. Len(s) \in Nat \ {0} /\ s[1] \in M /\ Head(s) = s[1] /\ Tail(s) \in Seq(M)
  BY EmptySeq, ElementOfSeq, HeadTailProperties
<1>2. s = <<Head(s)>> \o Tail(s)
  BY HeadTailProperties, <1>1
<1> QED BY <1>1, <1>2

LEMMA Single ==
  ASSUME NEW M, NEW x \in M, NEW S
  PROVE  /\ <<x>> \in Seq(M) /\ <<x>> # <<>> /\ Len(<<x>>) = 1 /\ <<x>>[1] = x
         /\ x \in S => Only(<<x>>, S) = <<x>>
         /\ x \notin S => Only(<<x>>, S) = <<>>
<1>1. <<>> \in Seq(M) /\ Append(<<>>, x) = <<x>>
  BY EmptySeq
<1>2. <<x>> \in Seq(M) /\ <<x>> # <<>> /\ Len(<<x>>) = 1 /\ <<x>>[1] = x
  OBVIOUS
<1>3. /\ x \in S => Only(Append(<<>>, x), S) = Append(Only(<<>>, S), x)
      /\ x \notin S => Only(Append(<<>>, x), S) = Only(<<>>, S)
  BY <1>1, OnlyOfMore
<1> QED BY <1>1, <1>2, <1>3, OnlyOfNothing

LEMMA Push ==
  ASSUME NEW M, NEW s \in Seq(M), NEW x \in M
  PROVE  Append(s, x) \in Seq(M) /\ Append(s, x) = s \o <<x>>
  BY AppendProperties, LenProperties, ConcatProperties

LEMMA Regroup ==
  ASSUME NEW M, NEW p \in Seq(M), NEW q \in Seq(M), NEW r \in Seq(M)
  PROVE  (p \o q) \o r = p \o (q \o r)
  BY ConcatAssociative

LEMMA OnlyOfHead ==
  ASSUME NEW M, NEW s \in Seq(M), s # <<>>, NEW S
  PROVE  /\ Head(s) \in S => Only(s, S) = <<Head(s)>> \o Only(Tail(s), S)
         /\ Head(s) \notin S => Only(s, S) = Only(Tail(s), S)
<1> DEFINE h == Head(s)
           r == Tail(s)
           one == <<h>>
<1>1. h \in M /\ r \in Seq(M) /\ s = one \o r /\ one \in Seq(M)
  BY Pop, Single
<1>2. /\ h \in S => Only(one, S) = one
      /\ h \notin S => Only(one, S) = <<>>
  BY <1>1, Single
<1> HIDE DEF h, r, one
<1>3. Only(one \o r, S) = Only(one, S) \o Only(r, S)
  BY <1>1, OnlyOfBoth
<1>4. Only(r, S) \in Seq(M)
  BY <1>1, OnlyIsSeq
<1>5. <<>> \o Only(r, S) = Only(r, S)
  BY <1>4, ConcatEmptySeq
<1>6. /\ h \in S => Only(s, S) = one \o Only(r, S)
      /\ h \notin S => Only(s, S) = Only(r, S)
  BY <1>1, <1>2, <1>3, <1>5
<1> QED BY <1>6 DEF h, r, one

LEMMA SubSeqIsSeq ==
  ASSUME NEW M, NEW s \in Seq(M), NEW i \in 1..(Len(s) + 1), NEW j \in 0..Len(s)
  PROVE  SubSeq(s, i, j) \in Seq(M)
  OBVIOUS

\* A sequence is read in two parts.
LEMMA CutInTwo ==
  ASSUME NEW M, NEW s \in Seq(M), NEW n \in Nat, n <= Len(s)
  PROVE  /\ SubSeq(s, 1, n) \in Seq(M) /\ SubSeq(s, n + 1, Len(s)) \in Seq(M)
         /\ s = SubSeq(s, 1, n) \o SubSeq(s, n + 1, Len(s))
<1>1. Len(s) \in Nat
  BY LenProperties
<1>2. SubSeq(s, 1, n) \o SubSeq(s, n + 1, Len(s)) = SubSeq(s, 1, Len(s))
  <2>1. 1 \in 1..(Len(s) + 1) /\ n \in (1 - 1)..Len(s) /\ Len(s) \in n..Len(s)
    BY <1>1
  <2> QED BY <2>1, ConcatAdjacentSubSeq
<1>3. 1 \in 1..(Len(s) + 1) /\ n \in 0..Len(s) /\ n + 1 \in 1..(Len(s) + 1) /\ Len(s) \in 0..Len(s)
  BY <1>1
<1>4. SubSeq(s, 1, n) \in Seq(M)
  BY <1>3, SubSeqIsSeq
<1>5. SubSeq(s, n + 1, Len(s)) \in Seq(M)
  BY <1>3, SubSeqIsSeq
<1> QED BY <1>2, <1>4, <1>5, SubSeqFull

-----------------------------------------------------------------------------
(* Types *)

LEMMA Kinds ==
  /\ Status \notin OutputEvent /\ Closing \notin Shown
  /\ \A e \in HostEvent : e \in OutputEvent <=> Output(e)
  /\ \A e \in HostEvent : e \in Shown <=> Output(e)
  /\ \A m \in BrowserMessage : m \in KeyMessage <=> Typed(m)
  /\ \A m \in BrowserMessage : m \in Accepted <=> Sized(m) /\ Acceptable(m)
  /\ \A m \in Passing : /\ m \in BrowserMessage /\ (Typed(m) \/ Sized(m))
                        /\ m \in ResizeMessage <=> m \in Accepted
                        /\ m \in Accepted <=> Sized(m)
                        /\ m \in KeyMessage <=> Typed(m)
                        /\ ~(m \in KeyMessage /\ m \in ResizeMessage)
  /\ Hello \notin KeyMessage /\ Hello \notin ResizeMessage
<1> USE DEF OutputEvent, HostEvent, KeyMessage, ResizeMessage, BrowserMessage, Shown, Accepted,
            Passing, Status, Closing, Hello, Output, Typed, Sized
<1>1. Status \notin OutputEvent /\ Closing \notin Shown
  OBVIOUS
<1>2. \A e \in HostEvent : (e \in OutputEvent <=> Output(e)) /\ (e \in Shown <=> Output(e))
  OBVIOUS
<1>3. \A m \in BrowserMessage : /\ m \in KeyMessage <=> Typed(m)
                                /\ m \in Accepted <=> Sized(m) /\ Acceptable(m)
  OBVIOUS
<1>4. \A m \in Passing : /\ m \in BrowserMessage /\ (Typed(m) \/ Sized(m))
                         /\ m \in ResizeMessage <=> m \in Accepted
                         /\ m \in Accepted <=> Sized(m)
                         /\ m \in KeyMessage <=> Typed(m)
                         /\ ~(m \in KeyMessage /\ m \in ResizeMessage)
  OBVIOUS
<1>5. Hello \notin KeyMessage /\ Hello \notin ResizeMessage
  OBVIOUS
<1> QED BY <1>1, <1>2, <1>3, <1>4, <1>5

LEMMA InitTypes == Init => ControlType /\ DownType /\ UpType
  BY ScenariosAssumption, EmptySeq DEF Init, ControlType, DownType, UpType, AtMostOne

LEMMA InMore ==
  ASSUME NEW M, NEW N, NEW s \in Seq(M), M \subseteq N
  PROVE  s \in Seq(N)
  BY SeqMonotonic

LEMMA HeldIsSeq ==
  ASSUME NEW M, NEW s \in AtMostOne(M)
  PROVE  /\ s \in Seq(M)
         /\ s # <<>> => s[1] \in M /\ s = <<s[1]>>
<1>1. CASE s = <<>>
  BY <1>1, EmptySeq
<1>2. CASE \E x \in M : s = <<x>>
  <2>1. PICK x \in M : s = <<x>>
    BY <1>2
  <2>2. <<x>> \in Seq(M) /\ <<x>>[1] = x
    OBVIOUS
  <2> QED BY <2>1, <2>2
<1> QED BY <1>1, <1>2 DEF AtMostOne

LEMMA NoneHeld == ASSUME NEW M PROVE <<>> \in AtMostOne(M)
  BY DEF AtMostOne

LEMMA OneHeld == ASSUME NEW M, NEW x \in M PROVE <<x>> \in AtMostOne(M)
  BY DEF AtMostOne

\* What PassOn can do.
LEMMA PassOnKinds ==
  ASSUME UpType, PassOn
  PROVE  /\ fromWs[1] \in Passing /\ fromWs = <<fromWs[1]>>
         /\ \/ Ends("ws_reader") /\ UNCHANGED <<fromWs, keys, resizes>>
            \/ /\ fromWs[1] \in KeyMessage
               /\ keys' = keys \o fromWs /\ fromWs' = <<>> /\ UNCHANGED <<running, resizes>>
            \/ /\ fromWs[1] \in Accepted
               /\ resizes' = resizes \o fromWs /\ fromWs' = <<>> /\ UNCHANGED <<running, keys>>
<1> DEFINE m == fromWs[1]
<1>1. fromWs # <<>>
  BY DEF PassOn
<1>2. m \in Passing /\ fromWs = <<m>>
  BY <1>1, HeldIsSeq DEF UpType
<1>3. /\ m \in Accepted <=> Sized(m)
      /\ m \in KeyMessage <=> Typed(m)
      /\ Typed(m) \/ Sized(m)
      /\ ~(Typed(m) /\ Sized(m))
  BY <1>2, Kinds DEF Typed, Sized
<1> HIDE DEF m
<1>4. CASE "tcp_writer" \notin running
  BY <1>2, <1>4 DEF PassOn, m
<1>5. CASE "tcp_writer" \in running /\ Typed(m)
  BY <1>2, <1>3, <1>5 DEF PassOn, m
<1>6. CASE "tcp_writer" \in running /\ Sized(m)
  BY <1>2, <1>3, <1>6 DEF PassOn, m
<1> QED BY <1>3, <1>4, <1>5, <1>6

LEMMA ControlTypeStep ==
  ASSUME ControlType, UpType, [Next]_vars
  PROVE  ControlType'
<1> USE DEF ControlType, host, browser, inside, Ends
<1>1. CASE BridgeSocket
  BY <1>1 DEF BridgeSocket, Request, Connect, ReadHello, NoHello, Bridge, FirstExit, Joined
<1>2. CASE TcpToWs
  <2>1. CASE Forward
    BY <2>1 DEF Forward
  <2>2. CASE ReadHost \/ HostEnds
    BY <2>2 DEF ReadHost, HostEnds
  <2> QED BY <1>2, <2>1, <2>2 DEF TcpToWs
<1>3. CASE WsWriter
  <2>1. CASE TakeForBrowser
    BY <2>1 DEF TakeForBrowser
  <2>2. CASE SendToBrowser
    BY <2>2 DEF SendToBrowser
  <2>3. CASE SayClose
    BY <2>3 DEF SayClose
  <2> QED BY <1>3, <2>1, <2>2, <2>3 DEF WsWriter
<1>4. CASE WsReader
  <2>1. CASE ReadBrowser
    BY <2>1 DEF ReadBrowser
  <2>2. CASE BrowserEnds
    BY <2>2 DEF BrowserEnds
  <2>3. CASE PassOn
    BY <2>3, PassOnKinds DEF PassOn
  <2> QED BY <1>4, <2>1, <2>2, <2>3 DEF WsReader
<1>5. CASE TcpWriter
  BY <1>5 DEF TcpWriter, TakeKeys, TakeResize, SendToHost, ReaderGone
<1>6. CASE \E t \in Tasks : Abort(t)
  BY <1>6 DEF Abort
<1>7. CASE HostReads \/ HostCloses \/ BrowserReads \/ BrowserLeaves
  BY <1>7 DEF HostReads, HostCloses, BrowserReads, BrowserLeaves
<1>8. CASE UNCHANGED vars
  BY <1>8 DEF vars
<1> QED BY <1>1, <1>2, <1>3, <1>4, <1>5, <1>6, <1>7, <1>8 DEF Next

LEMMA JoinedSeq ==
  ASSUME NEW M, NEW s \in Seq(M), NEW t \in Seq(M)
  PROVE  s \o t \in Seq(M)
  BY ConcatProperties

LEMMA HeadOfBoth ==
  ASSUME NEW M, NEW s \in Seq(M), NEW t \in Seq(M), s # <<>>
  PROVE  Head(s \o t) = Head(s)
<1>1. s \o t \in Seq(M) /\ Len(s) \in Nat \ {0} /\ Len(t) \in Nat
  BY JoinedSeq, EmptySeq, LenProperties
<1>2. (s \o t)[1] = s[1] /\ s \o t # <<>>
  BY <1>1, ConcatProperties, ConcatEqualIffEmpty
<1> QED BY <1>1, <1>2, Pop

\* The next message for the browser.
LEMMA OwedFirst ==
  ASSUME DownType
  PROVE  /\ pending # <<>> => Head(Owed) = Head(pending) /\ Head(Owed) \in OutputEvent
         /\ pending = <<>> => Owed = events
         /\ pending = <<>> /\ Owed # <<>> => Head(Owed) = Head(events) /\ Head(Owed) \in HostEvent
<1>1. pending \in Seq(HostEvent) /\ events \in Seq(HostEvent)
  BY InMore DEF DownType, HostEvent
<1>2. pending = <<>> => Owed = events
  BY <1>1, ConcatEmptySeq DEF Owed
<1>3. pending # <<>> => Head(Owed) = Head(pending)
  BY <1>1, HeadOfBoth DEF Owed
<1>4. pending # <<>> => Head(pending) \in OutputEvent
  BY Pop DEF DownType
<1>5. events # <<>> => Head(events) \in HostEvent
  BY <1>1, Pop
<1> QED BY <1>2, <1>3, <1>4, <1>5

LEMMA HandledSteps ==
  ASSUME DownType, Owed # <<>>, Handled
  PROVE  /\ pending' \in Seq(OutputEvent) /\ events' \in Seq(HostEvent)
         /\ \/ /\ pending # <<>> /\ pending = <<Head(Owed)>> \o pending' /\ events' = events
               /\ Head(Owed) \in OutputEvent
            \/ /\ pending = <<>> /\ events # <<>> /\ pending' = pending /\ events' = Tail(events)
               /\ Head(Owed) = Head(events) /\ Head(events) \in HostEvent
<1>1. CASE pending # <<>>
  <2>1. pending' = Tail(pending) /\ events' = events
    BY <1>1 DEF Handled
  <2>2. pending \in Seq(OutputEvent)
    BY DEF DownType
  <2>3. Tail(pending) \in Seq(OutputEvent) /\ pending = <<Head(pending)>> \o Tail(pending)
    BY <1>1, <2>2, Pop
  <2> QED BY <1>1, <2>1, <2>3, OwedFirst DEF DownType
<1>2. CASE pending = <<>>
  <2>1. events' = Tail(events) /\ pending' = pending /\ events # <<>>
    BY <1>2, OwedFirst DEF Handled
  <2>2. events \in Seq(HostEvent)
    BY DEF DownType
  <2>3. Tail(events) \in Seq(HostEvent)
    BY <2>1, <2>2, Pop
  <2> QED BY <1>2, <2>1, <2>3, OwedFirst DEF DownType
<1> QED BY <1>1, <1>2

\* What Forward can do with it.
LEMMA ForwardKinds ==
  ASSUME DownType, Forward
  PROVE  /\ Owed # <<>>
         /\ \/ Ends("tcp_to_ws") /\ UNCHANGED <<pending, events, toBrowser>>
            \/ ~Output(Head(Owed)) /\ Handled /\ UNCHANGED <<running, toBrowser>>
            \/ /\ Output(Head(Owed)) /\ toBrowser' = Append(toBrowser, Head(Owed))
               /\ Handled /\ UNCHANGED running
<1> DEFINE e == Head(Owed)
<1>1. Owed # <<>>
  BY DEF Forward
<1>2. e \in HostEvent
  BY <1>1, OwedFirst DEF HostEvent
<1>3. e.kind = "hello" \/ e.kind = "size" \/ e.kind = "output"
  BY <1>2 DEF HostEvent, OutputEvent
<1>4. CASE e.kind = "hello"
  BY <1>1, <1>4 DEF Forward, Output
<1>5. CASE e.kind = "size"
  BY <1>1, <1>5 DEF Forward, Output
<1>6. CASE e.kind = "output" /\ "ws_writer" \notin running
  BY <1>1, <1>6 DEF Forward, Output
<1>7. CASE e.kind = "output" /\ "ws_writer" \in running
  BY <1>1, <1>7 DEF Forward, Output
<1> QED BY <1>3, <1>4, <1>5, <1>6, <1>7

LEMMA DownTypeStep ==
  ASSUME ControlType, DownType, [Next]_vars
  PROVE  DownType'
<1> USE DEF host, browser, inside, DownType
<1>1. ASSUME UNCHANGED <<fromHost, pending, events, toBrowser, toWs, sink, seen>>
      PROVE  DownType'
  BY <1>1
<1>2. CASE Connect
  <2>1. <<Closing>> \in Seq(ToBrowser)
    BY Single DEF ToBrowser
  <2> QED BY <1>2, <2>1 DEF Connect
<1>3. CASE ReadHello
  <2>1. PICK n \in 1..MaxRead :
          /\ n <= Len(fromHost)
          /\ fromHost' = SubSeq(fromHost, n + 1, Len(fromHost))
          /\ pending' = pending \o Leftover(SubSeq(fromHost, 1, n))
          /\ sink' = sink \/ sink' = <<Closing>>
    BY <1>3 DEF ReadHello
  <2>2. n \in Nat
    OBVIOUS
  <2>3. SubSeq(fromHost, 1, n) \in Seq(HostEvent) /\ fromHost' \in Seq(HostEvent)
    BY <2>1, <2>2, CutInTwo
  <2>4. Leftover(SubSeq(fromHost, 1, n)) \in Seq(OutputEvent)
    BY <2>3, OnlyIsSeq DEF Leftover
  <2>5. pending' \in Seq(OutputEvent)
    BY <2>1, <2>4, JoinedSeq
  <2>6. <<Closing>> \in Seq(ToBrowser)
    BY Single DEF ToBrowser
  <2> QED BY <1>3, <2>1, <2>3, <2>5, <2>6 DEF ReadHello
<1>4. CASE NoHello
  <2>1. <<Closing>> \in Seq(ToBrowser)
    BY Single DEF ToBrowser
  <2> QED BY <1>4, <2>1 DEF NoHello
<1>5. CASE Bridge
  <2>1. <<Status>> \in Seq(Shown)
    BY Single DEF Shown
  <2> QED BY <1>5, <2>1 DEF Bridge
<1>6. CASE Forward
  <2>1. UNCHANGED <<fromHost, toWs, sink, seen>>
    BY <1>6 DEF Forward
  <2>2. CASE UNCHANGED <<pending, events, toBrowser>>
    BY <2>1, <2>2
  <2>3. CASE Handled /\ UNCHANGED toBrowser
    BY <1>6, <2>1, <2>3, ForwardKinds, HandledSteps
  <2>4. CASE Handled /\ Output(Head(Owed)) /\ toBrowser' = Append(toBrowser, Head(Owed))
    <3>1. Owed # <<>>
      BY <1>6 DEF Forward
    <3>2. Head(Owed) \in Shown
      BY <2>4, <3>1, OwedFirst, Kinds DEF HostEvent
    <3>3. toBrowser' \in Seq(Shown)
      BY <2>4, <3>2, Push
    <3>4. pending' \in Seq(OutputEvent) /\ events' \in Seq(HostEvent)
      BY <2>4, <3>1, HandledSteps
    <3> QED BY <2>1, <3>3, <3>4
  <2> QED BY <1>6, <2>2, <2>3, <2>4, ForwardKinds
<1>7. CASE ReadHost
  <2>1. PICK n \in 1..MaxRead :
          /\ n <= Len(fromHost)
          /\ events' = SubSeq(fromHost, 1, n)
          /\ fromHost' = SubSeq(fromHost, n + 1, Len(fromHost))
    BY <1>7 DEF ReadHost
  <2>2. n \in Nat
    OBVIOUS
  <2>3. events' \in Seq(HostEvent) /\ fromHost' \in Seq(HostEvent)
    BY <2>1, <2>2, CutInTwo
  <2> QED BY <1>7, <2>3 DEF ReadHost
<1>8. CASE TakeForBrowser
  <2>1. Head(toBrowser) \in Shown /\ toBrowser' \in Seq(Shown)
    BY <1>8, Pop DEF TakeForBrowser
  <2>2. toWs' \in AtMostOne(Shown)
    BY <1>8, <2>1, OneHeld DEF TakeForBrowser
  <2> QED BY <1>8, <2>1, <2>2 DEF TakeForBrowser
<1>9. CASE SendToBrowser
  <2>1. sink \o toWs \in Seq(ToBrowser) /\ <<>> \in AtMostOne(Shown)
    BY HeldIsSeq, InMore, JoinedSeq, NoneHeld DEF ToBrowser
  <2> QED BY <1>9, <2>1 DEF SendToBrowser
<1>10. CASE SayClose
  <2>1. Append(sink, Closing) \in Seq(ToBrowser)
    BY Push DEF ToBrowser
  <2> QED BY <1>10, <2>1 DEF SayClose
<1>11. CASE BrowserReads
  <2>1. Head(sink) \in ToBrowser /\ sink' \in Seq(ToBrowser)
    BY <1>11, Pop DEF BrowserReads
  <2>2. seen' \in Seq(ToBrowser)
    BY <1>11, <2>1, Push DEF BrowserReads
  <2> QED BY <1>11, <2>1, <2>2 DEF BrowserReads
<1>12. CASE Request \/ FirstExit \/ Joined \/ HostEnds \/ WsReader \/ TcpWriter
  BY <1>1, <1>12 DEF Request, FirstExit, Joined, HostEnds, WsReader, ReadBrowser, BrowserEnds, PassOn,
     TcpWriter, TakeKeys, TakeResize, SendToHost, ReaderGone
<1>13. CASE (\E t \in Tasks : Abort(t)) \/ HostReads \/ HostCloses \/ BrowserLeaves \/ UNCHANGED vars
  BY <1>1, <1>13 DEF Abort, HostReads, HostCloses, BrowserLeaves, vars
<1> QED BY <1>2, <1>3, <1>4, <1>5, <1>6, <1>7, <1>8, <1>9, <1>10, <1>11, <1>12, <1>13
     DEF Next, BridgeSocket, TcpToWs, WsWriter

LEMMA UpTypeStep ==
  ASSUME ControlType, UpType, [Next]_vars
  PROVE  UpType'
<1> USE DEF host, browser, inside, UpType
<1>1. ASSUME UNCHANGED <<fromBrowser, fromWs, keys, resizes, toTcp, tcpOut, heard>>
      PROVE  UpType'
  BY <1>1
<1>2. CASE Connect
  <2>1. <<Hello>> \in Seq(ToHost)
    BY Single DEF ToHost
  <2> QED BY <1>2, <2>1 DEF Connect
<1>3. CASE ReadBrowser
  <2> DEFINE m == Head(fromBrowser)
  <2>1. m \in BrowserMessage /\ fromBrowser' \in Seq(BrowserMessage)
    BY <1>3, Pop DEF ReadBrowser
  <2>2. Typed(m) \/ (Sized(m) /\ Acceptable(m)) => m \in Passing
    BY <2>1, Kinds DEF Passing
  <2>3. fromWs' = fromWs \/ fromWs' = <<>> \/ (fromWs' = <<m>> /\ m \in Passing)
    BY <1>3, <2>2 DEF ReadBrowser
  <2>4. fromWs' \in AtMostOne(Passing)
    BY <2>3, NoneHeld, OneHeld
  <2> QED BY <1>3, <2>1, <2>4 DEF ReadBrowser
<1>4. CASE PassOn
  <2>1. UNCHANGED <<fromBrowser, toTcp, tcpOut, heard>>
    BY <1>4 DEF PassOn
  <2>2. CASE UNCHANGED <<fromWs, keys, resizes>>
    BY <2>1, <2>2
  <2>3. CASE /\ fromWs[1] \in KeyMessage
             /\ keys' = keys \o fromWs /\ fromWs' = <<>> /\ UNCHANGED resizes
    <3>1. <<fromWs[1]>> \in Seq(KeyMessage)
      BY <2>3, Single
    <3>2. keys' \in Seq(KeyMessage)
      BY <1>4, <2>3, <3>1, PassOnKinds, JoinedSeq
    <3> QED BY <2>1, <2>3, <3>2, NoneHeld
  <2>4. CASE /\ fromWs[1] \in Accepted
             /\ resizes' = resizes \o fromWs /\ fromWs' = <<>> /\ UNCHANGED keys
    <3>1. <<fromWs[1]>> \in Seq(Accepted)
      BY <2>4, Single
    <3>2. resizes' \in Seq(Accepted)
      BY <1>4, <2>4, <3>1, PassOnKinds, JoinedSeq
    <3> QED BY <2>1, <2>4, <3>2, NoneHeld
  <2> QED BY <1>4, <2>2, <2>3, <2>4, PassOnKinds
<1>5. CASE TakeKeys
  <2>1. Head(keys) \in KeyMessage /\ keys' \in Seq(KeyMessage)
    BY <1>5, Pop DEF TakeKeys
  <2>2. toTcp' \in AtMostOne(Passing)
    BY <1>5, <2>1, OneHeld DEF TakeKeys, Passing
  <2> QED BY <1>5, <2>1, <2>2 DEF TakeKeys
<1>6. CASE TakeResize
  <2>1. Head(resizes) \in Accepted /\ resizes' \in Seq(Accepted)
    BY <1>6, Pop DEF TakeResize
  <2>2. toTcp' \in AtMostOne(Passing)
    BY <1>6, <2>1, OneHeld DEF TakeResize, Passing
  <2> QED BY <1>6, <2>1, <2>2 DEF TakeResize
<1>7. CASE SendToHost
  <2>1. Passing \subseteq ToHost
    BY Kinds DEF ToHost
  <2>2. toTcp \in Seq(ToHost)
    BY <2>1, HeldIsSeq, InMore
  <2>3. tcpOut \o toTcp \in Seq(ToHost) /\ <<>> \in AtMostOne(Passing)
    BY <2>2, JoinedSeq, NoneHeld
  <2> QED BY <1>7, <2>3 DEF SendToHost
<1>8. CASE HostReads
  <2>1. Head(tcpOut) \in ToHost /\ tcpOut' \in Seq(ToHost)
    BY <1>8, Pop DEF HostReads
  <2>2. heard' \in Seq(ToHost)
    BY <1>8, <2>1, Push DEF HostReads
  <2> QED BY <1>8, <2>1, <2>2 DEF HostReads
<1>9. CASE BrowserLeaves
  <2>1. <<>> \in Seq(BrowserMessage)
    BY EmptySeq
  <2> QED BY <1>9, <2>1 DEF BrowserLeaves
<1>10. CASE Request \/ ReadHello \/ NoHello \/ Bridge \/ FirstExit \/ Joined
  BY <1>1, <1>10 DEF Request, ReadHello, NoHello, Bridge, FirstExit, Joined
<1>11. CASE TcpToWs \/ WsWriter
  BY <1>1, <1>11 DEF TcpToWs, Forward, ReadHost, HostEnds, WsWriter, TakeForBrowser, SendToBrowser, SayClose
<1>12. CASE BrowserEnds \/ ReaderGone \/ (\E t \in Tasks : Abort(t))
  BY <1>1, <1>12 DEF BrowserEnds, ReaderGone, Abort
<1>13. CASE HostCloses \/ BrowserReads \/ UNCHANGED vars
  BY <1>1, <1>13 DEF HostCloses, BrowserReads, vars
<1> QED BY <1>2, <1>3, <1>4, <1>5, <1>6, <1>7, <1>8, <1>9, <1>10, <1>11, <1>12, <1>13
     DEF Next, BridgeSocket, WsReader, TcpWriter

-----------------------------------------------------------------------------
(* What there is at which stage *)

LEMMA InitStage == Init => Stage
<1>1. Only(<<>>, Shown) = <<>>
  BY OnlyOfNothing
<1> QED BY <1>1 DEF Init, Stage, Begun

\* A goodbye is not part of the output.
LEMMA NoGoodbye ==
  ASSUME NEW s \in Seq(ToBrowser)
  PROVE  /\ Only(Append(s, Closing), Shown) = Only(s, Shown)
         /\ Only(<<Closing>>, Shown) = <<>>
<1>1. Closing \in ToBrowser /\ Closing \notin Shown
  BY Kinds DEF ToBrowser
<1> QED BY <1>1, OnlyOfMore, Single

\* What is read has been given.
LEMMA ReadInOrder ==
  ASSUME NEW M, NEW s \in Seq(M), NEW t \in Seq(M), s # <<>>, NEW S
  PROVE  Only(Append(t, Head(s)), S) \o Only(Tail(s), S) = Only(t, S) \o Only(s, S)
<1> DEFINE h == Head(s)
           r == Tail(s)
<1>1. h \in M /\ r \in Seq(M) /\ Append(t, h) \in Seq(M) /\ s = <<h>> \o r /\ <<h>> \in Seq(M)
  BY Pop, Push, Single
<1>2. Append(t, h) \o r = t \o s
  <2>1. Append(t, h) = t \o <<h>>
    BY <1>1, Push
  <2> HIDE DEF h, r
  <2>2. (t \o <<h>>) \o r = t \o (<<h>> \o r)
    BY <1>1, Regroup
  <2> QED BY <1>1, <2>1, <2>2
<1> HIDE DEF h, r
<1>3. ASSUME NEW a \in Seq(M)
      PROVE  Only(a \o r, S) = Only(a, S) \o Only(r, S)
  BY <1>1, OnlyOfBoth, Z3
<1>4. Only(t \o s, S) = Only(t, S) \o Only(s, S)
  BY OnlyOfBoth, Z3
<1>5. Only(Append(t, h) \o r, S) = Only(Append(t, h), S) \o Only(r, S)
  BY <1>1, <1>3
<1> QED BY <1>2, <1>4, <1>5 DEF h, r

LEMMA StageStep ==
  ASSUME ControlType, DownType, UpType, Stage, [Next]_vars
  PROVE  Stage'
<1> USE DEF host, browser, inside
<1>1. CASE Request
  BY <1>1 DEF Request, Stage, Begun
<1>2. CASE Connect
  <2>1. Only(<<Closing>>, Shown) = <<>> /\ Only(<<>>, Shown) = <<>>
    BY NoGoodbye, EmptySeq, OnlyOfNothing
  <2> QED BY <1>2, <2>1 DEF Connect, Stage, Begun
<1>3. CASE ReadHello
  <2>1. Only(<<Closing>>, Shown) = <<>> /\ Only(<<>>, Shown) = <<>>
    BY NoGoodbye, EmptySeq, OnlyOfNothing
  <2>2. \/ phase' = "closed" /\ sink' = <<Closing>> /\ UNCHANGED gotHello
        \/ UNCHANGED <<phase, sink>>
    BY <1>3 DEF ReadHello
  <2> QED BY <1>3, <2>1, <2>2 DEF ReadHello, Stage, Begun
<1>4. CASE NoHello
  <2>1. Only(<<Closing>>, Shown) = <<>>
    BY NoGoodbye, EmptySeq
  <2> QED BY <1>4, <2>1 DEF NoHello, Stage, Begun
<1>5. CASE Bridge
  <2>1. <<>> \in Seq(Shown)
    BY EmptySeq
  <2> QED BY <1>5, <2>1 DEF Bridge, Stage, Begun
<1>6. CASE FirstExit \/ Joined \/ (\E t \in Tasks : Abort(t))
  BY <1>6 DEF FirstExit, Joined, Abort, Ends, Stage, Begun, Tasks
<1>7. CASE TcpToWs
  <2>1. UNCHANGED <<phase, gotHello, tcpOut, sink, seen, toWs, browserOpen, fromBrowser>>
    BY <1>7 DEF TcpToWs, Forward, ReadHost, HostEnds
  <2>2. Begun /\ running' \subseteq running
    <3>1. CASE Forward
      BY <3>1, ForwardKinds DEF Forward, On, Begun, Ends
    <3>2. CASE ReadHost \/ HostEnds
      BY <3>2 DEF ReadHost, HostEnds, On, Begun, Ends
    <3> QED BY <1>7, <3>1, <3>2 DEF TcpToWs
  <2> QED BY <2>1, <2>2 DEF Stage, Begun
<1>8. CASE WsReader
  <2>1. UNCHANGED <<phase, gotHello, tcpOut, sink, seen, toWs, toBrowser, events, browserOpen>>
    BY <1>8 DEF WsReader, ReadBrowser, BrowserEnds, PassOn
  <2>2. Begun /\ running' \subseteq running
    <3>1. CASE ReadBrowser \/ BrowserEnds
      BY <3>1 DEF ReadBrowser, BrowserEnds, On, Begun, Ends
    <3>2. CASE PassOn
      BY <3>2, PassOnKinds DEF PassOn, On, Begun, Ends
    <3> QED BY <1>8, <3>1, <3>2 DEF WsReader
  <2>3. fromBrowser' = fromBrowser \/ fromBrowser # <<>>
    BY <1>8 DEF WsReader, ReadBrowser, BrowserEnds, PassOn
  <2> QED BY <2>1, <2>2, <2>3 DEF Stage, Begun
<1>9. CASE TcpWriter
  <2>1. UNCHANGED <<phase, gotHello, sink, seen, toWs, toBrowser, events, browserOpen, fromBrowser>>
    BY <1>9 DEF TcpWriter, TakeKeys, TakeResize, SendToHost, ReaderGone
  <2>2. phase \in {"bridged", "ending"} /\ running' \subseteq running
    BY <1>9 DEF TcpWriter, TakeKeys, TakeResize, SendToHost, ReaderGone, On, Ends
  <2> QED BY <2>1, <2>2 DEF Stage, Begun
<1>10. CASE TakeForBrowser
  BY <1>10 DEF TakeForBrowser, On, Stage, Begun
<1>11. CASE SendToBrowser
  <2>1. sink \in Seq(Shown) => sink \o toWs \in Seq(Shown)
    BY HeldIsSeq, JoinedSeq DEF DownType
  <2> QED BY <1>11, <2>1 DEF SendToBrowser, On, Ends, Stage, Begun
<1>12. CASE SayClose
  BY <1>12 DEF SayClose, On, Ends, Stage, Begun
<1>13. CASE HostReads \/ HostCloses
  BY <1>13 DEF HostReads, HostCloses, Stage, Begun
<1>14. CASE BrowserReads
  <2>1. UNCHANGED <<phase, running, gotHello, tcpOut, toWs, toBrowser, events, browserOpen, fromBrowser>>
    BY <1>14 DEF BrowserReads
  <2>2. sink # <<>> /\ seen' = Append(seen, Head(sink)) /\ sink' = Tail(sink)
    BY <1>14 DEF BrowserReads
  <2>3. sink \in Seq(Shown) => Tail(sink) \in Seq(Shown)
    BY <2>2, Pop DEF DownType
  <2>4. ASSUME ~Begun
        PROVE  Only(seen', Shown) = <<>> /\ Only(sink', Shown) = <<>>
    <3>1. Only(seen, Shown) \o Only(sink, Shown) = Only(seen', Shown) \o Only(sink', Shown)
      BY <2>2, ReadInOrder DEF DownType
    <3>2. Only(seen', Shown) \in Seq(Shown) /\ Only(sink', Shown) \in Seq(Shown)
      BY DownTypeStep, OnlyIsSeq DEF DownType
    <3>3. Only(seen, Shown) = <<>> /\ Only(sink, Shown) = <<>>
      BY <2>4 DEF Stage
    <3>4. <<>> \o <<>> = <<>>
      BY EmptySeq, ConcatEmptySeq
    <3>5. Only(seen', Shown) \o Only(sink', Shown) = <<>>
      BY <3>1, <3>3, <3>4
    <3> QED BY <3>2, <3>5, ConcatEqualIffEmpty
  <2> QED BY <2>1, <2>2, <2>3, <2>4 DEF Stage, Begun
<1>15. CASE BrowserLeaves
  BY <1>15 DEF BrowserLeaves, Stage, Begun
<1>16. CASE UNCHANGED vars
  BY <1>16 DEF vars, Stage, Begun
<1> QED BY <1>1, <1>2, <1>3, <1>4, <1>5, <1>6, <1>7, <1>8, <1>9, <1>10, <1>11, <1>12, <1>13,
           <1>14, <1>15, <1>16
     DEF Next, BridgeSocket, WsWriter

-----------------------------------------------------------------------------
(* The output on its way to the browser *)

LEMMA InitDownstream == Init => Downstream
<1> SUFFICES ASSUME Init PROVE Downstream
  OBVIOUS
<1>1. scenario.host \in Seq(HostEvent)
  BY ScenariosAssumption DEF Init
<1>2. Written \in Seq(HostEvent) /\ Only(<<>>, OutputEvent) = <<>>
  BY <1>1, OnlyIsSeq, OnlyOfNothing DEF Written
<1>3. <<>> \o <<>> = <<>> /\ <<>> \o Written = Written
  BY <1>2, EmptySeq, ConcatEmptySeq
<1>4. Ahead = Written
  BY <1>2, <1>3 DEF Init, Ahead, Written
<1> QED BY <1>4 DEF Init, Downstream, Begun

\* What there is to know of streams once they are put together of pieces.
LEMMA Streams ==
  /\ <<>> \in Stream
  /\ \A p \in Stream : <<>> \o p = p /\ p \o <<>> = p
  /\ \A p, q \in Stream : p \o q \in Stream
  /\ \A p, q, r \in Stream : (p \o q) \o r = p \o (q \o r)
<1>1. <<>> \in Stream /\ \A p \in Stream : <<>> \o p = p /\ p \o <<>> = p
  BY EmptySeq, ConcatEmptySeq DEF Stream
<1>2. \A p, q \in Stream : p \o q \in Stream
  BY JoinedSeq DEF Stream
<1>3. \A p, q, r \in Stream : (p \o q) \o r = p \o (q \o r)
  BY Regroup, SMTT(30) DEF Stream
<1> QED BY <1>1, <1>2, <1>3

LEMMA Shift ==
  ASSUME NEW p \in Stream, NEW q \in Stream, NEW r \in Stream
  PROVE  (p \o q) \o r = p \o (q \o r)
  BY Streams

LEMMA Longer ==
  ASSUME NEW p \in Stream, NEW q \in Stream, NEW r \in Stream
  PROVE  (p \o q) \o r = p \o (q \o r) /\ q \o r \in Stream
  BY Streams

LEMMA DownPieces ==
  ASSUME DownType
  PROVE  /\ Only(seen, Shown) \in Stream /\ Only(sink, Shown) \in Stream
         /\ toWs \in Stream /\ toBrowser \in Stream /\ pending \in Stream
         /\ Only(events, OutputEvent) \in Stream /\ Only(fromHost, OutputEvent) \in Stream
         /\ Given \in Stream /\ Ahead \in Stream
<1>1. /\ Shown \subseteq Message /\ ToBrowser \subseteq Message
      /\ OutputEvent \subseteq Message /\ HostEvent \subseteq Message
  BY DEF Message, ToBrowser, HostEvent
<1>2. /\ seen \in Stream /\ sink \in Stream /\ toWs \in Stream /\ toBrowser \in Stream
      /\ pending \in Stream /\ events \in Stream /\ fromHost \in Stream
  BY <1>1, InMore, HeldIsSeq DEF DownType, Stream
<1>3. /\ Only(seen, Shown) \in Stream /\ Only(sink, Shown) \in Stream
      /\ Only(events, OutputEvent) \in Stream /\ Only(fromHost, OutputEvent) \in Stream
  BY <1>2, OnlyIsSeq DEF Stream
<1>4. Given \in Stream /\ Ahead \in Stream
  BY <1>2, <1>3, Streams DEF Given, Ahead
<1> QED BY <1>2, <1>3, <1>4

LEMMA OnlyOfShown ==
  ASSUME NEW s \in Seq(Shown)
  PROVE  Only(s, Shown) = s
<1>1. \A i \in 1..Len(s) : s[i] \in Shown
  BY ElementOfSeq
<1> QED BY <1>1, OnlyOfAll

\* While the tasks run nothing is added and nothing is lost.
LEMMA DownstreamKept ==
  ASSUME Downstream, Begun, Begun', phase' \notin {"request", "connecting", "shaking"},
         UNCHANGED scenario, Given' \o Ahead' = Given \o Ahead
  PROVE  Downstream'
  BY DEF Downstream, Written

\* What the handshake's reads complete is taken over.
LEMMA TakenOver ==
  ASSUME NEW M, NEW p \in Seq(M), NEW b \in Seq(M), NEW r \in Seq(M)
  PROVE  ((p \o b) \o <<>>) \o r = (p \o <<>>) \o (b \o r)
<1>1. p \o b \in Seq(M)
  BY JoinedSeq
<1>2. (p \o b) \o <<>> = p \o b /\ p \o <<>> = p
  BY <1>1, ConcatEmptySeq
<1>3. (p \o b) \o r = p \o (b \o r)
  BY Regroup, Z3
<1> QED BY <1>2, <1>3

\* A read splits what is still to come.
LEMMA ReadSplits ==
  ASSUME NEW M, NEW s \in Seq(M), NEW n \in Nat, n <= Len(s), NEW S
  PROVE  Only(s, S) = Only(SubSeq(s, 1, n), S) \o Only(SubSeq(s, n + 1, Len(s)), S)
<1> DEFINE a == SubSeq(s, 1, n)
           b == SubSeq(s, n + 1, Len(s))
<1>1. a \in Seq(M) /\ b \in Seq(M) /\ s = a \o b
  BY CutInTwo
<1> HIDE DEF a, b
<1>2. Only(a \o b, S) = Only(a, S) \o Only(b, S)
  BY <1>1, OnlyOfBoth, Z3
<1> QED BY <1>1, <1>2 DEF a, b

LEMMA ReadHelloDown ==
  ASSUME DownType, Stage, Downstream, ReadHello
  PROVE  Ahead' = Ahead
<1>1. PICK n \in 1..MaxRead :
        /\ n <= Len(fromHost)
        /\ fromHost' = SubSeq(fromHost, n + 1, Len(fromHost))
        /\ pending' = pending \o Only(SubSeq(fromHost, 1, n), OutputEvent)
  BY DEF ReadHello, Leftover
<1>2. n \in Nat
  OBVIOUS
<1> DEFINE b == Only(SubSeq(fromHost, 1, n), OutputEvent)
           r == Only(fromHost', OutputEvent)
<1>3. Only(fromHost, OutputEvent) = b \o r
  BY <1>1, <1>2, ReadSplits DEF DownType
<1>4. SubSeq(fromHost, 1, n) \in Seq(HostEvent) /\ fromHost' \in Seq(HostEvent)
  BY <1>1, <1>2, CutInTwo DEF DownType
<1>5. b \in Seq(OutputEvent) /\ r \in Seq(OutputEvent) /\ pending \in Seq(OutputEvent)
  BY <1>4, OnlyIsSeq DEF DownType
<1>6. Only(events, OutputEvent) = <<>> /\ Only(events', OutputEvent) = <<>>
  BY OnlyOfNothing DEF ReadHello, Stage, Begun, inside
<1> HIDE DEF b, r
<1>7. ((pending \o b) \o <<>>) \o r = (pending \o <<>>) \o (b \o r)
  BY <1>5, TakenOver
<1>8. Ahead' = ((pending \o b) \o <<>>) \o r
  BY <1>1, <1>6 DEF Ahead, b, r
<1>9. Ahead = (pending \o <<>>) \o (b \o r)
  BY <1>3, <1>6 DEF Ahead
<1> QED BY <1>7, <1>8, <1>9

LEMMA BridgeDown ==
  ASSUME DownType, Stage, Downstream, Bridge
  PROVE  Given' \o Ahead' = <<Status>> \o Written
<1>1. /\ Only(seen, Shown) = <<>> /\ Only(sink, Shown) = <<>> /\ toWs = <<>>
      /\ UNCHANGED <<seen, sink, toWs, pending, events, fromHost>> /\ toBrowser' = <<Status>>
      /\ Ahead = Written
  BY DEF Bridge, Stage, Downstream, Begun, browser, host
<1>2. <<Status>> \in Seq(Shown)
  BY Single DEF Shown
<1>3. <<>> \o <<>> = <<>> /\ <<>> \o <<Status>> = <<Status>>
  BY <1>2, EmptySeq, ConcatEmptySeq
<1>4. Given' = <<Status>>
  BY <1>1, <1>3 DEF Given
<1>5. Ahead' = Ahead
  BY <1>1 DEF Ahead
<1> QED BY <1>1, <1>4, <1>5

LEMMA BrowserReadsDown ==
  ASSUME DownType, BrowserReads
  PROVE  Given' \o Ahead' = Given \o Ahead
<1>1. /\ UNCHANGED <<toWs, toBrowser, pending, events, fromHost>>
      /\ sink # <<>> /\ seen' = Append(seen, Head(sink)) /\ sink' = Tail(sink)
  BY DEF BrowserReads, host, inside
<1>2. Only(seen', Shown) \o Only(sink', Shown) = Only(seen, Shown) \o Only(sink, Shown)
  BY <1>1, ReadInOrder DEF DownType
<1> QED BY <1>1, <1>2 DEF Given, Ahead

LEMMA SendToBrowserDown ==
  ASSUME DownType, SendToBrowser
  PROVE  Given' \o Ahead' = Given \o Ahead
<1>1. UNCHANGED <<seen, toBrowser, pending, events, fromHost>>
  BY DEF SendToBrowser, host
<1>2. CASE UNCHANGED <<sink, toWs>>
  BY <1>1, <1>2 DEF Given, Ahead
<1>3. CASE sink' = sink \o toWs /\ toWs' = <<>>
  <2>1. toWs \in Seq(Shown) /\ toWs \in Seq(ToBrowser) /\ sink \in Seq(ToBrowser)
    BY HeldIsSeq, InMore DEF DownType, ToBrowser
  <2>2. Only(toWs, Shown) = toWs
    BY <2>1, OnlyOfShown
  <2>3. Only(sink', Shown) = Only(sink, Shown) \o toWs
    <3>1. Only(sink \o toWs, Shown) = Only(sink, Shown) \o Only(toWs, Shown)
      BY <2>1, OnlyOfBoth, Z3
    <3> QED BY <1>3, <2>2, <3>1
  <2> DEFINE a == Only(seen, Shown)
             b == Only(sink, Shown)
             c == toWs
  <2>4. a \in Stream /\ b \in Stream /\ c \in Stream
    BY DownPieces
  <2> HIDE DEF a, b, c
  <2>5. (a \o (b \o c)) \o <<>> = (a \o b) \o c
    BY <2>4, Streams
  <2>6. Given' = ((a \o (b \o c)) \o <<>>) \o toBrowser
    BY <1>1, <1>3, <2>3 DEF Given, a, b, c
  <2>7. Given = ((a \o b) \o c) \o toBrowser
    BY DEF Given, a, b, c
  <2> QED BY <1>1, <2>5, <2>6, <2>7 DEF Ahead
<1> QED BY <1>2, <1>3 DEF SendToBrowser

LEMMA TakeForBrowserDown ==
  ASSUME DownType, TakeForBrowser
  PROVE  Given' \o Ahead' = Given \o Ahead
<1> DEFINE l == Only(seen, Shown) \o Only(sink, Shown)
<1>1. /\ UNCHANGED <<seen, sink, pending, events, fromHost>>
      /\ toWs = <<>> /\ toBrowser # <<>> /\ toWs' = <<Head(toBrowser)>> /\ toBrowser' = Tail(toBrowser)
  BY DEF TakeForBrowser, host, browser
<1> HIDE DEF l
<1>2. l \in Stream
  BY DownPieces, Streams DEF l
<1>3. toBrowser \in Seq(Shown) /\ toBrowser \in Stream
  BY DownPieces DEF DownType
<1>4. <<Head(toBrowser)>> \o Tail(toBrowser) = toBrowser
  BY <1>1, <1>3, Pop
<1>5. <<Head(toBrowser)>> \in Stream /\ Tail(toBrowser) \in Stream
  BY <1>1, <1>3, Pop, Single DEF Stream
<1>6. (l \o toWs') \o toBrowser' = (l \o toWs) \o toBrowser
  <2>1. (l \o <<Head(toBrowser)>>) \o Tail(toBrowser) = l \o (<<Head(toBrowser)>> \o Tail(toBrowser))
    BY <1>2, <1>5, Shift
  <2>2. l \o <<>> = l
    BY <1>2, Streams
  <2> QED BY <1>1, <1>4, <2>1, <2>2
<1>7. l' = l
  BY <1>1 DEF l
<1> QED BY <1>1, <1>6, <1>7 DEF Given, Ahead, l

LEMMA SayCloseDown ==
  ASSUME DownType, SayClose
  PROVE  Given' \o Ahead' = Given \o Ahead
<1>1. UNCHANGED <<seen, toWs, toBrowser, pending, events, fromHost>>
  BY DEF SayClose, host, inside
<1>2. sink' = sink \/ sink' = Append(sink, Closing)
  BY DEF SayClose
<1>3. Only(sink', Shown) = Only(sink, Shown)
  BY <1>2, NoGoodbye DEF DownType
<1> QED BY <1>1, <1>3 DEF Given, Ahead

LEMMA ReadHostDown ==
  ASSUME DownType, ReadHost
  PROVE  Given' \o Ahead' = Given \o Ahead
<1>1. PICK n \in 1..MaxRead :
        /\ n <= Len(fromHost)
        /\ events' = SubSeq(fromHost, 1, n)
        /\ fromHost' = SubSeq(fromHost, n + 1, Len(fromHost))
  BY DEF ReadHost
<1>2. n \in Nat
  OBVIOUS
<1>3. UNCHANGED <<seen, sink, toWs, toBrowser, pending>> /\ Owed = <<>>
  BY DEF ReadHost, browser
<1>4. pending = <<>> /\ events = <<>>
  <2>1. pending \in Seq(HostEvent) /\ events \in Seq(HostEvent)
    BY InMore DEF DownType, HostEvent
  <2> QED BY <1>3, <2>1, ConcatEqualIffEmpty DEF Owed
<1>5. Only(fromHost, OutputEvent) = Only(events', OutputEvent) \o Only(fromHost', OutputEvent)
  BY <1>1, <1>2, ReadSplits DEF DownType
<1>6. /\ Only(events', OutputEvent) \in Seq(HostEvent)
      /\ Only(fromHost, OutputEvent) \in Seq(HostEvent)
  BY DownTypeStep, OnlyIsSeq, <1>1, <1>2, CutInTwo DEF DownType
<1>7. /\ <<>> \o Only(events', OutputEvent) = Only(events', OutputEvent)
      /\ <<>> \o Only(fromHost, OutputEvent) = Only(fromHost, OutputEvent)
      /\ <<>> \o <<>> = <<>>
  BY <1>6, ConcatEmptySeq, EmptySeq
<1>8. Ahead = Only(fromHost, OutputEvent)
  BY <1>4, <1>7, OnlyOfNothing DEF Ahead
<1>9. Ahead' = Only(events', OutputEvent) \o Only(fromHost', OutputEvent)
  BY <1>3, <1>4, <1>7 DEF Ahead
<1> QED BY <1>3, <1>5, <1>8, <1>9 DEF Given

LEMMA ForwardGives ==
  ASSUME DownType, Forward, Handled, Output(Head(Owed)), toBrowser' = Append(toBrowser, Head(Owed))
  PROVE  Given' \o Ahead' = Given \o Ahead
<1> DEFINE e == Head(Owed)
           one == <<e>>
           l == Only(seen, Shown) \o Only(sink, Shown) \o toWs
           F == Only(events, OutputEvent)
           G == Only(fromHost, OutputEvent)
<1>1. UNCHANGED <<seen, sink, toWs, fromHost>>
  BY DEF Forward, host, browser
<1>2. e \in OutputEvent /\ e \in Shown
  <2>1. e \in HostEvent
    BY ForwardKinds, OwedFirst DEF HostEvent
  <2> QED BY <2>1, Kinds
<1>3. /\ pending' \in Seq(OutputEvent) /\ events' \in Seq(HostEvent)
      /\ \/ pending = one \o pending' /\ events' = events
         \/ /\ pending = <<>> /\ events # <<>> /\ pending' = <<>> /\ events' = Tail(events)
            /\ e = Head(events)
  BY ForwardKinds, HandledSteps
<1>4. toBrowser' = toBrowser \o one
  BY <1>2, Push DEF DownType
<1>5. Given = l \o toBrowser /\ Given' = l \o (toBrowser \o one)
  BY <1>1, <1>4 DEF Given
<1> HIDE DEF e, one, l
<1>6. one \in Stream
  <2>1. OutputEvent \subseteq Message
    BY DEF Message, HostEvent
  <2> QED BY <1>2, <2>1, Single DEF one, Stream
<1>7. l \in Stream
  BY DownPieces, Streams DEF l
<1>8. Given' = Given \o one /\ Given \in Stream
  <2>1. toBrowser \in Stream
    BY DownPieces
  <2>2. l \o (toBrowser \o one) = (l \o toBrowser) \o one
    BY <1>6, <1>7, <2>1, Shift
  <2> QED BY <1>5, <2>2, DownPieces
<1>9. Ahead' \in Stream /\ Ahead = one \o Ahead'
  <2>1. CASE pending = one \o pending' /\ events' = events
    <3> DEFINE p == pending'
    <3>1. p \in Stream /\ F \in Stream /\ G \in Stream
      <4>1. OutputEvent \subseteq Message
        BY DEF Message, HostEvent
      <4>2. p \in Stream
        BY <1>3, <4>1, InMore DEF Stream
      <4> QED BY <4>2, DownPieces
    <3>2. Ahead' = (p \o F) \o G /\ Ahead = ((one \o p) \o F) \o G
      BY <1>1, <2>1 DEF Ahead
    <3> HIDE DEF p, F, G
    <3>3. (one \o p) \o F = one \o (p \o F) /\ p \o F \in Stream
      <4>1. p \in Stream /\ F \in Stream
        BY <3>1
      <4> QED BY <1>6, <4>1, Longer
    <3> DEFINE pF == p \o F
    <3>4. pF \in Stream /\ G \in Stream
      BY <3>1, <3>3
    <3> HIDE DEF pF
    <3>5. (one \o pF) \o G = one \o (pF \o G) /\ pF \o G \in Stream
      BY <1>6, <3>4, Longer
    <3> QED BY <3>2, <3>3, <3>5 DEF pF
  <2>2. CASE /\ pending = <<>> /\ events # <<>> /\ pending' = <<>> /\ events' = Tail(events)
             /\ e = Head(events)
    <3> DEFINE f == Only(events', OutputEvent)
    <3>1. f \in Stream /\ G \in Stream
      <4>1. HostEvent \subseteq Message
        BY DEF Message
      <4> QED BY <1>3, <4>1, InMore, OnlyIsSeq, DownPieces DEF Stream
    <3>2. F = one \o f
      BY <1>2, <2>2, OnlyOfHead DEF DownType, one
    <3>3. Ahead' = (<<>> \o f) \o G /\ Ahead = (<<>> \o (one \o f)) \o G
      BY <1>1, <2>2, <3>2 DEF Ahead
    <3> HIDE DEF f, F, G
    <3>4. <<>> \o f = f /\ <<>> \o (one \o f) = one \o f
      BY <1>6, <3>1, Streams
    <3>5. (one \o f) \o G = one \o (f \o G) /\ f \o G \in Stream
      BY <1>6, <3>1, Streams
    <3> QED BY <3>3, <3>4, <3>5
  <2> QED BY <1>3, <2>1, <2>2
<1>10. (Given \o one) \o Ahead' = Given \o (one \o Ahead')
  BY <1>6, <1>8, <1>9, Shift
<1> QED BY <1>8, <1>9, <1>10

LEMMA ForwardDown ==
  ASSUME DownType, Forward
  PROVE  Given' \o Ahead' = Given \o Ahead
<1>1. UNCHANGED <<seen, sink, toWs, fromHost>>
  BY DEF Forward, host, browser
<1>2. CASE UNCHANGED <<pending, events, toBrowser>>
  BY <1>1, <1>2 DEF Given, Ahead
<1>3. CASE ~Output(Head(Owed)) /\ Handled /\ UNCHANGED toBrowser
  <2>1. Head(Owed) \notin OutputEvent
    BY <1>3 DEF Output, OutputEvent
  <2>2. /\ events # <<>> /\ pending' = pending /\ events' = Tail(events)
        /\ Head(events) \notin OutputEvent
    BY <1>3, <2>1, ForwardKinds, HandledSteps
  <2>3. Only(events', OutputEvent) = Only(events, OutputEvent)
    BY <2>2, OnlyOfHead DEF DownType
  <2> QED BY <1>1, <1>3, <2>2, <2>3 DEF Given, Ahead
<1>4. CASE Output(Head(Owed)) /\ toBrowser' = Append(toBrowser, Head(Owed)) /\ Handled
  BY <1>4, ForwardGives
<1> QED BY <1>2, <1>3, <1>4, ForwardKinds

LEMMA DownstreamStep ==
  ASSUME ControlType, DownType, UpType, Stage, Downstream, [Next]_vars
  PROVE  Downstream'
<1> USE DEF host, browser, inside
<1>1. ASSUME UNCHANGED <<scenario, seen, sink, toWs, toBrowser, pending, events, fromHost>>
      PROVE  UNCHANGED <<Given, Ahead, Written>>
  BY <1>1 DEF Given, Ahead, Written
<1>2. CASE Request
  BY <1>1, <1>2 DEF Request, Downstream, Begun
<1>3. CASE Connect
  <2>1. UNCHANGED <<Ahead, Written>>
    BY <1>3 DEF Connect, Ahead, Written
  <2> QED BY <1>3, <2>1 DEF Connect, Downstream, Begun, Stage
<1>4. CASE ReadHello
  <2>1. UNCHANGED <<Ahead, Written>>
    BY <1>4, ReadHelloDown DEF ReadHello, Written
  <2>2. phase = "shaking" /\ (UNCHANGED phase \/ (phase' = "closed" /\ UNCHANGED gotHello)) /\ ~gotHello
    BY <1>4 DEF ReadHello
  <2> QED BY <2>1, <2>2 DEF Downstream, Begun
<1>5. CASE NoHello
  BY <1>5 DEF NoHello, Downstream, Begun
<1>6. CASE Bridge
  <2>1. Given' \o Ahead' = <<Status>> \o Written /\ UNCHANGED Written
    BY <1>6, BridgeDown DEF Bridge, Written
  <2> QED BY <1>6, <2>1 DEF Bridge, Downstream
<1>7. CASE FirstExit \/ Joined \/ (\E t \in Tasks : Abort(t))
  <2>1. Begun /\ Begun' /\ phase' \notin {"request", "connecting", "shaking"}
    BY <1>7 DEF FirstExit, Joined, Abort, Begun, Stage
  <2>2. UNCHANGED <<scenario, Given, Ahead>>
    BY <1>1, <1>7 DEF FirstExit, Joined, Abort
  <2> QED BY <2>1, <2>2, DownstreamKept
<1>8. CASE TcpToWs \/ WsWriter
  <2>1. Given' \o Ahead' = Given \o Ahead
    <3>1. CASE HostEnds
      BY <1>1, <3>1 DEF HostEnds
    <3> QED BY <1>8, <3>1, ForwardDown, ReadHostDown, TakeForBrowserDown, SendToBrowserDown, SayCloseDown
            DEF TcpToWs, WsWriter
  <2>2. phase \in {"bridged", "ending"} /\ UNCHANGED <<scenario, phase>>
    BY <1>8 DEF TcpToWs, WsWriter, Forward, ReadHost, HostEnds, TakeForBrowser, SendToBrowser, SayClose, On
  <2> QED BY <2>1, <2>2, DownstreamKept DEF Begun
<1>9. CASE WsReader \/ TcpWriter
  <2>1. phase \in {"bridged", "ending"} /\ UNCHANGED <<scenario, phase, Given, Ahead>>
    <3>1. CASE WsReader
      BY <1>1, <3>1 DEF WsReader, ReadBrowser, BrowserEnds, PassOn, On
    <3>2. CASE TcpWriter
      BY <1>1, <3>2 DEF TcpWriter, TakeKeys, TakeResize, SendToHost, ReaderGone, On
    <3> QED BY <1>9, <3>1, <3>2
  <2> QED BY <2>1, DownstreamKept DEF Begun
<1>10. CASE HostReads \/ HostCloses \/ BrowserLeaves
  <2>1. UNCHANGED <<phase, gotHello, Given, Ahead, Written>>
    BY <1>1, <1>10 DEF HostReads, HostCloses, BrowserLeaves
  <2> QED BY <2>1 DEF Downstream, Begun
<1>11. CASE BrowserReads
  <2>1. Given' \o Ahead' = Given \o Ahead
    BY <1>11, BrowserReadsDown
  <2>2. UNCHANGED <<scenario, phase, gotHello, Ahead, Written>>
    BY <1>11 DEF BrowserReads, Ahead, Written
  <2> QED BY <2>1, <2>2 DEF Downstream, Begun
<1>12. CASE UNCHANGED vars
  BY <1>1, <1>12 DEF vars, Downstream, Begun
<1> QED BY <1>2, <1>3, <1>4, <1>5, <1>6, <1>7, <1>8, <1>9, <1>10, <1>11, <1>12
     DEF Next, BridgeSocket

\* What is in front of something is a prefix of both together.
LEMMA FrontIsPrefix ==
  ASSUME NEW M, NEW p \in Seq(M), NEW q \in Seq(M)
  PROVE  IsPrefix(p, p \o q)
<1>1. /\ p \o q \in Seq(M) /\ Len(p) \in Nat /\ Len(q) \in Nat /\ Len(p \o q) = Len(p) + Len(q)
      /\ \A i \in 1..Len(p) + Len(q) : (p \o q)[i] = IF i <= Len(p) THEN p[i] ELSE q[i - Len(p)]
  BY LenProperties, ConcatProperties
<1>2. Len(p) <= Len(p \o q)
  BY <1>1
<1>3. SubSeq(p, 1, Len(p)) = SubSeq(p \o q, 1, Len(p))
  BY <1>1
<1> QED BY <1>2, <1>3 DEF IsPrefix

LEMMA WrittenIsStream == ASSUME ControlType PROVE Written \in Stream
<1>1. scenario.host \in Seq(HostEvent) /\ HostEvent \subseteq Message
  BY ScenariosAssumption DEF ControlType, Message
<1> QED BY <1>1, InMore, OnlyIsSeq DEF Written, Stream

\* What is read of two parts that make up the status and the host's output.
LEMMA FirstThings ==
  ASSUME NEW a \in Stream, NEW r \in Stream, NEW w \in Stream, a # <<>>, a \o r = <<Status>> \o w
  PROVE  a[1] = Status /\ IsPrefix(Tail(a), w)
<1>1. Status \in Message
  BY DEF Message, ToBrowser, Shown
<1> DEFINE h == Head(a)
           t == Tail(a)
<1>2. h \in Message /\ t \in Stream /\ a = <<h>> \o t /\ h = a[1]
  BY Pop DEF Stream
<1>3. <<h>> \in Stream /\ <<Status>> \in Stream
  BY <1>1, <1>2, Single DEF Stream
<1>4. h = Status
  <2>1. (a \o r)[1] = a[1]
    <3>1. Len(a) \in Nat \ {0} /\ Len(r) \in Nat
      BY EmptySeq, LenProperties DEF Stream
    <3> QED BY <3>1, ConcatProperties DEF Stream
  <2>2. (<<Status>> \o w)[1] = Status
    <3>1. Len(<<Status>>) = 1 /\ Len(w) \in Nat /\ <<Status>>[1] = Status
      BY LenProperties DEF Stream
    <3> QED BY <1>3, <3>1, ConcatProperties DEF Stream
  <2> QED BY <1>2, <2>1, <2>2
<1> HIDE DEF h, t
<1>5. (<<h>> \o t) \o r = <<h>> \o (t \o r)
  BY <1>2, <1>3, Shift
<1>6. t \o r \in Stream
  BY <1>2, Streams
<1>7. <<Status>> \o (t \o r) = <<Status>> \o w
  BY <1>2, <1>4, <1>5
<1>8. t \o r = w
  BY <1>3, <1>6, <1>7, ConcatSimplifications DEF Stream
<1>9. IsPrefix(t, t \o r)
  BY <1>2, FrontIsPrefix DEF Stream
<1> QED BY <1>2, <1>4, <1>8, <1>9 DEF t

LEMMA OutputFromInv ==
  ASSUME ControlType, DownType, Stage, Downstream
  PROVE  OutputUnbroken
<1> DEFINE arrived == Only(seen, Shown)
           waiting == Only(sink, Shown)
           rest    == Only(Owed \o fromHost, OutputEvent)
<1>1. arrived \in Stream /\ waiting \in Stream /\ toWs \in Stream /\ toBrowser \in Stream /\ Ahead \in Stream
  BY DownPieces
<1>2. Written \in Stream
  BY WrittenIsStream
<1>3. arrived # <<>> \/ running = Tasks
        => arrived \o ((waiting \o toWs \o toBrowser) \o Ahead) = <<Status>> \o Written
  <2>1. arrived # <<>> \/ running = Tasks => Begun
    BY DEF Stage, Begun, Tasks
  <2>2. Begun => (arrived \o waiting \o toWs \o toBrowser) \o Ahead = <<Status>> \o Written
    BY DEF Downstream, Given
  <2> HIDE DEF arrived, waiting
  <2> DEFINE half  == waiting \o toWs
             whole == half \o toBrowser
  <2>3. arrived \in Stream /\ waiting \in Stream /\ toWs \in Stream
    BY <1>1
  <2>4. (arrived \o waiting) \o toWs = arrived \o half
    BY <2>3, Shift
  <2>5. half \in Stream
    BY <2>3, Streams
  <2>6. arrived \in Stream /\ toBrowser \in Stream
    BY <1>1
  <2> HIDE DEF half
  <2>7. (arrived \o half) \o toBrowser = arrived \o whole
    BY <2>5, <2>6, Shift
  <2>8. whole \in Stream
    BY <2>5, <2>6, Streams
  <2>9. arrived \in Stream /\ Ahead \in Stream
    BY <1>1
  <2> HIDE DEF whole
  <2>10. (arrived \o whole) \o Ahead = arrived \o (whole \o Ahead)
    BY <2>8, <2>9, Shift
  <2>11. Begun => arrived \o (whole \o Ahead) = <<Status>> \o Written
    BY <2>2, <2>4, <2>7, <2>10
  <2> QED BY <2>1, <2>11 DEF whole, half
<1>4. (waiting \o toWs \o toBrowser) \o Ahead \in Stream
  BY <1>1, Streams
<1>5. arrived # <<>> => arrived[1] = Status /\ IsPrefix(Tail(arrived), Written)
  BY <1>1, <1>2, <1>3, <1>4, FirstThings
<1>6. running = Tasks => waiting = sink
  BY OnlyOfShown DEF Stage, Tasks
<1>7. rest = Ahead
  <2>1. pending \in Seq(HostEvent) /\ events \in Seq(HostEvent)
    BY InMore DEF DownType, HostEvent
  <2>2. Owed \in Seq(HostEvent) /\ fromHost \in Seq(HostEvent)
    BY <2>1, JoinedSeq DEF DownType, Owed
  <2>3. ASSUME NEW s \in Seq(HostEvent), NEW t \in Seq(HostEvent)
        PROVE  Only(s \o t, OutputEvent) = Only(s, OutputEvent) \o Only(t, OutputEvent)
    BY OnlyOfBoth
  <2>4. rest = Only(Owed, OutputEvent) \o Only(fromHost, OutputEvent)
    BY <2>2, <2>3
  <2>5. Only(Owed, OutputEvent) = Only(pending, OutputEvent) \o Only(events, OutputEvent)
    BY <2>1, <2>3 DEF Owed
  <2>6. Only(pending, OutputEvent) = pending
    BY OnlyOfAll, ElementOfSeq DEF DownType
  <2> QED BY <2>4, <2>5, <2>6 DEF Ahead
<1>8. running = Tasks => arrived \o (sink \o toWs \o toBrowser \o rest) = <<Status>> \o Written
  BY <1>3, <1>6, <1>7
<1> QED BY <1>5, <1>8 DEF OutputUnbroken, Shown

-----------------------------------------------------------------------------
(* Keys and sizes on their way to the host *)

\* The two kinds of messages that pass, each by what it is when it arrives and by
\* what may pass of it.
Lane(kind, passing) == \/ kind = KeyMessage /\ passing = KeyMessage
                       \/ kind = ResizeMessage /\ passing = Accepted

LEMMA LaneKinds ==
  ASSUME NEW kind, NEW passing, Lane(kind, passing)
  PROVE  /\ \A m \in Passing : m \in kind <=> m \in passing
         /\ Hello \notin kind
         /\ passing \subseteq Passing
         /\ \/ KeyMessage \subseteq kind /\ \A m \in Accepted : m \notin kind
            \/ Accepted \subseteq kind /\ \A m \in KeyMessage : m \notin kind
<1>1. CASE kind = KeyMessage /\ passing = KeyMessage
  BY <1>1, Kinds DEF Passing
<1>2. CASE kind = ResizeMessage /\ passing = Accepted
  BY <1>2, Kinds DEF Passing, Accepted
<1> QED BY <1>1, <1>2 DEF Lane

LEMMA HelloIsNoInput ==
  ASSUME NEW kind, NEW passing, Lane(kind, passing)
  PROVE  Only(<<Hello>>, kind) = <<>>
<1>1. Hello \in {Hello} /\ Hello \notin kind
  BY LaneKinds
<1> QED BY <1>1, Single

LEMMA OnlyOfNone ==
  ASSUME NEW M, NEW s \in Seq(M), NEW S, \A m \in M : m \notin S
  PROVE  Only(s, S) = <<>>
<1>1. Only(s, S) \in Seq(M) /\ Only(s, S) \in Seq(S)
  BY OnlyIsSeq
<1>2. ASSUME Only(s, S) # <<>> PROVE FALSE
  <2>1. Head(Only(s, S)) \in M /\ Head(Only(s, S)) \in S
    BY <1>1, <1>2, Pop
  <2> QED BY <2>1
<1> QED BY <1>2

\* The channel of the other kind holds nothing of this one.
LEMMA OtherChannel ==
  ASSUME NEW kind, NEW passing, Lane(kind, passing)
  PROVE  \/ \A s \in Seq(Accepted) : Only(s, kind) = <<>>
         \/ \A s \in Seq(KeyMessage) : Only(s, kind) = <<>>
<1>1. CASE \A m \in Accepted : m \notin kind
  BY <1>1, OnlyOfNone
<1>2. CASE \A m \in KeyMessage : m \notin kind
  BY <1>2, OnlyOfNone
<1> QED BY <1>1, <1>2, LaneKinds

LEMMA UpPieces ==
  ASSUME UpType, NEW kind
  PROVE  /\ Only(heard, kind) \in Stream /\ Only(tcpOut, kind) \in Stream /\ Only(toTcp, kind) \in Stream
         /\ Only(keys, kind) \in Stream /\ Only(resizes, kind) \in Stream /\ Only(fromWs, kind) \in Stream
         /\ Only(fromBrowser, kind) \in Stream /\ Inside(kind) \in Stream
<1>1. ToHost \subseteq Message /\ BrowserMessage \subseteq Message
  BY DEF Message, ToHost
<1>2. Passing \subseteq Message /\ KeyMessage \subseteq Message /\ Accepted \subseteq Message
  BY DEF Message, Passing, BrowserMessage, Accepted
<1>3. /\ heard \in Stream /\ tcpOut \in Stream /\ toTcp \in Stream /\ keys \in Stream
      /\ resizes \in Stream /\ fromWs \in Stream /\ fromBrowser \in Stream
  BY <1>1, <1>2, InMore, HeldIsSeq DEF UpType, Stream
<1>4. /\ Only(heard, kind) \in Stream /\ Only(tcpOut, kind) \in Stream /\ Only(toTcp, kind) \in Stream
      /\ Only(keys, kind) \in Stream /\ Only(resizes, kind) \in Stream /\ Only(fromWs, kind) \in Stream
      /\ Only(fromBrowser, kind) \in Stream
  BY <1>3, OnlyIsSeq DEF Stream
<1>5. Inside(kind) \in Stream
  BY <1>4, Streams DEF Inside
<1> QED BY <1>4, <1>5

LEMMA InitUpstream ==
  ASSUME Init, NEW kind, NEW passing
  PROVE  Upstream(kind, passing)
<1>1. Only(<<>>, kind) = <<>>
  BY OnlyOfNothing
<1>2. scenario.browser \in Seq(BrowserMessage) /\ BrowserMessage \subseteq Message
  BY ScenariosAssumption DEF Init, Message
<1>3. Only(scenario.browser, passing) \in Stream
  BY <1>2, InMore, OnlyIsSeq DEF Stream
<1>4. <<>> \o <<>> = <<>> /\ <<>> \o Only(scenario.browser, passing) = Only(scenario.browser, passing)
  BY <1>3, Streams
<1>5. Inside(kind) = <<>>
  BY <1>1, <1>4 DEF Init, Inside
<1> QED BY <1>1, <1>3, <1>4, <1>5 DEF Init, Upstream

\* Messages that only move change neither case.
LEMMA UpstreamKept ==
  ASSUME NEW kind, NEW passing, Upstream(kind, passing), ~scenario.readOnly, UNCHANGED scenario,
         Inside(kind)' = Inside(kind), UNCHANGED fromBrowser, UNCHANGED browserOpen
  PROVE  Upstream(kind, passing)'
  BY DEF Upstream

LEMMA HostReadsUp ==
  ASSUME UpType, HostReads, NEW kind
  PROVE  /\ Only(heard', kind) \o Only(tcpOut', kind) = Only(heard, kind) \o Only(tcpOut, kind)
         /\ Inside(kind)' = Inside(kind)
<1>1. /\ UNCHANGED <<toTcp, keys, resizes, fromWs>>
      /\ tcpOut # <<>> /\ heard' = Append(heard, Head(tcpOut)) /\ tcpOut' = Tail(tcpOut)
  BY DEF HostReads, inside
<1>2. Only(heard', kind) \o Only(tcpOut', kind) = Only(heard, kind) \o Only(tcpOut, kind)
  BY <1>1, ReadInOrder DEF UpType
<1> QED BY <1>1, <1>2 DEF Inside

LEMMA SendToHostUp ==
  ASSUME UpType, SendToHost, NEW kind
  PROVE  Inside(kind)' = Inside(kind)
<1>1. UNCHANGED <<heard, keys, resizes, fromWs>>
  BY DEF SendToHost
<1>2. CASE UNCHANGED <<tcpOut, toTcp>>
  BY <1>1, <1>2 DEF Inside
<1>3. CASE tcpOut' = tcpOut \o toTcp /\ toTcp' = <<>>
  <2>1. Passing \subseteq ToHost
    BY Kinds DEF ToHost
  <2>2. toTcp \in Seq(ToHost)
    BY <2>1, HeldIsSeq, InMore DEF UpType
  <2> DEFINE h == Only(heard, kind)
             t == Only(tcpOut, kind)
             c == Only(toTcp, kind)
  <2>3. Only(tcpOut', kind) = t \o c
    <3>1. ASSUME NEW p \in Seq(ToHost), NEW q \in Seq(ToHost)
          PROVE  Only(p \o q, kind) = Only(p, kind) \o Only(q, kind)
      BY OnlyOfBoth
    <3> QED BY <1>3, <2>2, <3>1 DEF UpType
  <2>4. Only(toTcp', kind) = <<>>
    BY <1>3, OnlyOfNothing
  <2>5. h \in Stream /\ t \in Stream /\ c \in Stream
    BY UpPieces
  <2>6. Inside(kind)' = (h \o (t \o c)) \o <<>> \o Only(keys, kind) \o Only(resizes, kind)
                          \o Only(fromWs, kind)
    BY <1>1, <2>3, <2>4 DEF Inside
  <2> HIDE DEF h, t, c
  <2>7. (h \o (t \o c)) \o <<>> = (h \o t) \o c
    BY <2>5, Streams
  <2> QED BY <2>6, <2>7 DEF Inside, h, t, c
<1> QED BY <1>2, <1>3 DEF SendToHost

\* A task takes the first message of a channel.
LEMMA TakeFirst ==
  ASSUME NEW M, NEW s \in Seq(M), s # <<>>, NEW S
  PROVE  Only(<<>>, S) = <<>> /\ Only(<<Head(s)>>, S) \o Only(Tail(s), S) = Only(s, S)
<1>1. Head(s) \in M /\ Tail(s) \in Seq(M)
  BY Pop
<1> SUFFICES Only(<<Head(s)>>, S) \o Only(Tail(s), S) = Only(s, S)
  BY OnlyOfNothing
<1>2. CASE Head(s) \in S
  <2>1. Only(<<Head(s)>>, S) = <<Head(s)>>
    BY <1>1, <1>2, Single
  <2>2. Only(s, S) = <<Head(s)>> \o Only(Tail(s), S)
    BY <1>2, OnlyOfHead
  <2> QED BY <2>1, <2>2
<1>3. CASE Head(s) \notin S
  <2>1. Only(<<Head(s)>>, S) = <<>> /\ Only(s, S) = Only(Tail(s), S)
    BY <1>1, <1>3, Single, OnlyOfHead
  <2>2. Only(Tail(s), S) \in Seq(M)
    BY <1>1, OnlyIsSeq
  <2>3. <<>> \o Only(Tail(s), S) = Only(Tail(s), S)
    BY <2>2, ConcatEmptySeq
  <2> QED BY <2>1, <2>3
<1> QED BY <1>2, <1>3

LEMMA TakeKeysUp ==
  ASSUME UpType, TakeKeys, NEW kind
  PROVE  Inside(kind)' = Inside(kind)
<1>1. /\ UNCHANGED <<heard, tcpOut, resizes, fromWs>>
      /\ toTcp = <<>> /\ keys # <<>> /\ toTcp' = <<Head(keys)>> /\ keys' = Tail(keys)
  BY DEF TakeKeys, host
<1> DEFINE l == Only(heard, kind) \o Only(tcpOut, kind)
           c == Only(toTcp', kind)
           k == Only(keys', kind)
<1>2. Only(toTcp, kind) = <<>> /\ c \o k = Only(keys, kind)
  BY <1>1, TakeFirst DEF UpType
<1>3. l \in Stream
  BY UpPieces, Streams
<1>4. c \in Stream /\ k \in Stream
  <2>1. KeyMessage \subseteq Message
    BY DEF Message, BrowserMessage
  <2>2. keys \in Stream
    BY <2>1, InMore DEF UpType, Stream
  <2>3. <<Head(keys)>> \in Stream /\ Tail(keys) \in Stream
    BY <1>1, <2>2, Pop, Single DEF Stream
  <2> QED BY <1>1, <2>3, OnlyIsSeq DEF Stream
<1>5. Inside(kind)' = ((l \o c) \o k) \o Only(resizes, kind) \o Only(fromWs, kind)
  BY <1>1 DEF Inside
<1>6. Inside(kind) = ((l \o <<>>) \o (c \o k)) \o Only(resizes, kind) \o Only(fromWs, kind)
  BY <1>2 DEF Inside
<1> HIDE DEF l, c, k
<1>7. (l \o c) \o k = (l \o <<>>) \o (c \o k)
  BY <1>3, <1>4, Streams
<1> QED BY <1>5, <1>6, <1>7

\* A size may overtake keys, which are messages of the other kind.
LEMMA TakeResizeUp ==
  ASSUME UpType, TakeResize, NEW kind, NEW passing, Lane(kind, passing)
  PROVE  Inside(kind)' = Inside(kind)
<1>1. /\ UNCHANGED <<heard, tcpOut, keys, fromWs>>
      /\ toTcp = <<>> /\ resizes # <<>> /\ toTcp' = <<Head(resizes)>> /\ resizes' = Tail(resizes)
  BY DEF TakeResize, host
<1> DEFINE l == Only(heard, kind) \o Only(tcpOut, kind)
           c == Only(toTcp', kind)
           z == Only(resizes', kind)
<1>2. Only(toTcp, kind) = <<>> /\ c \o z = Only(resizes, kind)
  BY <1>1, TakeFirst DEF UpType
<1>3. l \in Stream
  BY UpPieces, Streams
<1>4. <<Head(resizes)>> \in Seq(Accepted) /\ Tail(resizes) \in Seq(Accepted)
  BY <1>1, Pop, Single DEF UpType
<1>5. c \in Stream /\ z \in Stream
  <2>1. Accepted \subseteq Message
    BY DEF Message, BrowserMessage, Accepted
  <2> QED BY <1>1, <1>4, <2>1, InMore, OnlyIsSeq DEF Stream
<1>6. Inside(kind)' = (l \o c) \o Only(keys, kind) \o z \o Only(fromWs, kind)
  BY <1>1 DEF Inside
<1>7. Inside(kind) = (l \o <<>>) \o Only(keys, kind) \o (c \o z) \o Only(fromWs, kind)
  BY <1>2 DEF Inside
<1>8. CASE \A s \in Seq(Accepted) : Only(s, kind) = <<>>
  <2>1. c = <<>> /\ z = <<>>
    BY <1>1, <1>4, <1>8
  <2> HIDE DEF l, c, z
  <2>2. <<>> \o <<>> = <<>>
    BY Streams
  <2> QED BY <1>6, <1>7, <2>1, <2>2
<1>9. CASE \A s \in Seq(KeyMessage) : Only(s, kind) = <<>>
  <2>1. Only(keys, kind) = <<>>
    BY <1>9 DEF UpType
  <2> HIDE DEF l, c, z
  <2>2. (l \o c) \o <<>> = l \o c /\ l \o <<>> = l /\ l \o c \in Stream
    BY <1>3, <1>5, Streams
  <2>3. (l \o c) \o z = l \o (c \o z)
    BY <1>3, <1>5, Shift
  <2> QED BY <1>6, <1>7, <2>1, <2>2, <2>3
<1> QED BY <1>8, <1>9, OtherChannel

LEMMA PassOnUp ==
  ASSUME UpType, PassOn, NEW kind, NEW passing, Lane(kind, passing)
  PROVE  Inside(kind)' = Inside(kind)
<1>1. UNCHANGED <<heard, tcpOut, toTcp>> /\ fromWs = <<fromWs[1]>>
  BY PassOnKinds DEF PassOn, host
<1> DEFINE l == Only(heard, kind) \o Only(tcpOut, kind) \o Only(toTcp, kind)
           k == Only(keys, kind)
           z == Only(resizes, kind)
           w == Only(fromWs, kind)
<1>2. l \in Stream /\ k \in Stream /\ z \in Stream /\ w \in Stream
  BY UpPieces, Streams
<1>3. Only(<<>>, kind) = <<>>
  BY OnlyOfNothing
<1>4. CASE UNCHANGED <<fromWs, keys, resizes>>
  BY <1>1, <1>4 DEF Inside
<1>5. CASE fromWs[1] \in KeyMessage /\ keys' = keys \o fromWs /\ fromWs' = <<>> /\ UNCHANGED resizes
  <2>1. fromWs \in Seq(KeyMessage)
    <3>1. ASSUME NEW m \in KeyMessage PROVE <<m>> \in Seq(KeyMessage)
      BY Single
    <3> QED BY <1>1, <1>5, <3>1
  <2>2. Only(keys', kind) = k \o w
    BY <1>5, <2>1, OnlyOfBoth DEF UpType
  <2>3. Inside(kind)' = (l \o (k \o w)) \o z \o <<>>
    BY <1>1, <1>3, <1>5, <2>2 DEF Inside
  <2>4. Inside(kind) = (l \o k) \o z \o w
    BY DEF Inside
  <2>5. z = <<>> \/ w = <<>>
    BY <2>1, OtherChannel DEF UpType
  <2> HIDE DEF l, k, z, w
  <2>6. CASE z = <<>>
    <3>1. l \o (k \o w) = (l \o k) \o w /\ l \o k \in Stream /\ l \o (k \o w) \in Stream
      BY <1>2, Streams
    <3>2. (l \o (k \o w)) \o <<>> = l \o (k \o w) /\ (l \o k) \o <<>> = l \o k
      BY <3>1, Streams
    <3> QED BY <2>3, <2>4, <2>6, <3>1, <3>2
  <2>7. CASE w = <<>>
    <3>1. k \o <<>> = k
      BY <1>2, Streams
    <3> QED BY <2>3, <2>4, <2>7, <3>1
  <2> QED BY <2>5, <2>6, <2>7
<1>6. CASE fromWs[1] \in Accepted /\ resizes' = resizes \o fromWs /\ fromWs' = <<>> /\ UNCHANGED keys
  <2>1. fromWs \in Seq(Accepted)
    <3>1. ASSUME NEW m \in Accepted PROVE <<m>> \in Seq(Accepted)
      BY Single
    <3> QED BY <1>1, <1>6, <3>1
  <2>2. Only(resizes', kind) = z \o w
    BY <1>6, <2>1, OnlyOfBoth DEF UpType
  <2>3. Inside(kind)' = (l \o k) \o (z \o w) \o <<>>
    BY <1>1, <1>3, <1>6, <2>2 DEF Inside
  <2>4. Inside(kind) = (l \o k) \o z \o w
    BY DEF Inside
  <2> DEFINE lk == l \o k
  <2>5. lk \in Stream
    BY <1>2, Streams
  <2> HIDE DEF l, k, z, w, lk
  <2>6. (lk \o z) \o w = lk \o (z \o w) /\ z \o w \in Stream
    <3>1. z \in Stream /\ w \in Stream
      BY <1>2
    <3> QED BY <2>5, <3>1, Longer
  <2>7. lk \o (z \o w) \in Stream
    BY <2>5, <2>6, Streams
  <2>8. (lk \o (z \o w)) \o <<>> = lk \o (z \o w)
    BY <2>7, Streams
  <2> QED BY <2>3, <2>4, <2>6, <2>8 DEF lk
<1> QED BY <1>4, <1>5, <1>6, PassOnKinds

\* What the browser sent is passed on if it may pass, and forgotten otherwise.
LEMMA ReadBrowserUp ==
  ASSUME ControlType, UpType, Stage, ReadBrowser, NEW kind, NEW passing, Lane(kind, passing),
         Upstream(kind, passing), ~scenario.readOnly
  PROVE  Upstream(kind, passing)'
<1> DEFINE m == Head(fromBrowser)
           l == Only(heard, kind) \o Only(tcpOut, kind) \o Only(toTcp, kind) \o Only(keys, kind)
                  \o Only(resizes, kind)
           b == Only(fromBrowser', passing)
           w == Only(fromWs', kind)
<1>1. /\ UNCHANGED <<scenario, heard, tcpOut, toTcp, keys, resizes, browserOpen>>
      /\ fromWs = <<>> /\ fromBrowser # <<>> /\ fromBrowser' = Tail(fromBrowser)
      /\ fromWs' = fromWs \/ fromWs' = <<m>> \/ fromWs' = <<>>
  BY DEF ReadBrowser, host
<1>2. browserOpen
  BY <1>1 DEF Stage, ControlType
<1>3. m \in BrowserMessage /\ fromBrowser' \in Seq(BrowserMessage) /\ fromWs' \in AtMostOne(Passing)
  BY <1>1, Pop, UpTypeStep DEF UpType, Next, WsReader
<1>4. fromWs' = IF m \in Passing THEN <<m>> ELSE <<>>
  <2>1. m \in Passing <=> Typed(m) \/ (Sized(m) /\ Acceptable(m))
    BY <1>3, Kinds DEF Passing
  <2>2. CASE m.kind = "close"
    <3>1. m \notin Passing
      BY <2>1, <2>2 DEF Typed, Sized
    <3> QED BY <1>1, <2>2, <3>1 DEF ReadBrowser
  <2>3. CASE m.kind # "close"
    BY <2>1, <2>3 DEF ReadBrowser
  <2> QED BY <2>2, <2>3
<1>5. Only(fromBrowser, passing) = w \o b
  <2>1. b \in Seq(BrowserMessage)
    BY <1>3, OnlyIsSeq
  <2>2. CASE m \in passing
    <3>1. m \in Passing /\ m \in kind
      BY <2>2, LaneKinds
    <3>2. w = <<m>>
      BY <1>4, <3>1, Single
    <3> QED BY <1>1, <2>2, <3>2, OnlyOfHead DEF UpType
  <2>3. CASE m \notin passing
    <3>1. w = <<>>
      <4>1. m \in Passing => m \notin kind
        BY <2>3, LaneKinds
      <4>2. m \in Passing => Only(<<m>>, kind) = <<>>
        BY <4>1, Single
      <4> QED BY <1>4, <4>2, OnlyOfNothing
    <3>2. Only(fromBrowser, passing) = b
      BY <1>1, <2>3, OnlyOfHead DEF UpType
    <3>3. <<>> \o b = b
      BY <2>1, ConcatEmptySeq
    <3> QED BY <3>1, <3>2, <3>3
  <2> QED BY <2>2, <2>3
<1>6. Inside(kind) = l \o <<>> /\ Inside(kind)' = l \o w
  BY <1>1, OnlyOfNothing DEF Inside
<1>7. l \in Stream
  BY UpPieces, Streams
<1>8. w \in Stream /\ b \in Stream
  <2>1. Passing \subseteq Message /\ BrowserMessage \subseteq Message
    BY DEF Message, Passing, BrowserMessage, Accepted
  <2>2. fromWs' \in Stream /\ fromBrowser' \in Stream
    BY <1>3, <2>1, HeldIsSeq, InMore DEF Stream
  <2> QED BY <2>2, OnlyIsSeq DEF Stream
<1>9. Inside(kind) \o (w \o b) = Only(scenario.browser, passing)
  BY <1>2, <1>5 DEF Upstream
<1> HIDE DEF l, b, w
<1>10. (l \o w) \o b = (l \o <<>>) \o (w \o b)
  BY <1>7, <1>8, Streams
<1>11. Inside(kind)' \o b = Only(scenario.browser, passing)
  BY <1>6, <1>9, <1>10
<1> QED BY <1>1, <1>8, <1>11 DEF Upstream, b

\* Nothing ever gets in from a read-only browser.
LEMMA ReadOnlyStep ==
  ASSUME ControlType, UpType, Stage, [Next]_vars, NEW kind, NEW passing, Lane(kind, passing),
         Upstream(kind, passing), scenario.readOnly
  PROVE  Upstream(kind, passing)'
<1> USE DEF host, browser, inside
<1>1. /\ Only(heard, kind) = <<>> /\ Only(tcpOut, kind) = <<>>
      /\ toTcp = <<>> /\ keys = <<>> /\ resizes = <<>> /\ fromWs = <<>>
  BY DEF Upstream
<1>2. ASSUME UNCHANGED <<scenario, heard, tcpOut, toTcp, keys, resizes, fromWs>>
      PROVE  Upstream(kind, passing)'
  BY <1>1, <1>2 DEF Upstream
<1>3. CASE Connect
  <2>1. Only(<<Hello>>, kind) = <<>>
    BY HelloIsNoInput
  <2> QED BY <1>1, <1>3, <2>1 DEF Connect, Upstream
<1>4. CASE HostReads
  <2>1. Only(heard', kind) \o Only(tcpOut', kind) = <<>>
    <3>1. <<>> \o <<>> = <<>>
      BY Streams
    <3> QED BY <1>1, <1>4, <3>1, HostReadsUp
  <2>2. Only(heard', kind) \in Seq(ToHost) /\ Only(tcpOut', kind) \in Seq(ToHost)
    BY UpTypeStep, OnlyIsSeq DEF UpType
  <2>3. Only(heard', kind) = <<>> /\ Only(tcpOut', kind) = <<>>
    BY <2>1, <2>2, ConcatEqualIffEmpty
  <2> QED BY <1>1, <1>4, <2>3 DEF HostReads, Upstream
<1>5. CASE ReadBrowser
  <2>1. fromWs' = <<>>
    BY <1>1, <1>5 DEF ReadBrowser
  <2> QED BY <1>1, <1>2, <1>5, <2>1 DEF ReadBrowser
<1>6. CASE PassOn \/ TakeKeys \/ TakeResize \/ SendToHost
  BY <1>1, <1>6 DEF PassOn, TakeKeys, TakeResize, SendToHost
<1>7. CASE Request \/ ReadHello \/ NoHello \/ Bridge \/ FirstExit \/ Joined
  BY <1>2, <1>7 DEF Request, ReadHello, NoHello, Bridge, FirstExit, Joined
<1>8. CASE TcpToWs \/ WsWriter
  BY <1>2, <1>8 DEF TcpToWs, Forward, ReadHost, HostEnds, WsWriter, TakeForBrowser, SendToBrowser, SayClose
<1>9. CASE BrowserEnds \/ ReaderGone \/ (\E t \in Tasks : Abort(t))
  BY <1>2, <1>9 DEF BrowserEnds, ReaderGone, Abort
<1>10. CASE HostCloses \/ BrowserReads \/ BrowserLeaves \/ UNCHANGED vars
  BY <1>2, <1>10 DEF HostCloses, BrowserReads, BrowserLeaves, vars
<1> QED BY <1>3, <1>4, <1>5, <1>6, <1>7, <1>8, <1>9, <1>10
     DEF Next, BridgeSocket, WsReader, TcpWriter

LEMMA UpstreamStep ==
  ASSUME ControlType, UpType, Stage, [Next]_vars, NEW kind, NEW passing, Lane(kind, passing),
         Upstream(kind, passing)
  PROVE  Upstream(kind, passing)'
<1> USE DEF host, browser, inside
<1>1. SUFFICES ASSUME ~scenario.readOnly PROVE Upstream(kind, passing)'
  BY ReadOnlyStep
<1>2. ASSUME UNCHANGED <<scenario, heard, tcpOut, toTcp, keys, resizes, fromWs, fromBrowser, browserOpen>>
      PROVE  Upstream(kind, passing)'
  <2>1. Inside(kind)' = Inside(kind)
    BY <1>2 DEF Inside
  <2> QED BY <1>1, <1>2, <2>1, UpstreamKept
<1>3. CASE Connect
  <2>1. Only(tcpOut', kind) = Only(tcpOut, kind)
    <3>1. Only(<<Hello>>, kind) = <<>> /\ Only(<<>>, kind) = <<>>
      BY HelloIsNoInput, OnlyOfNothing
    <3> QED BY <1>3, <3>1 DEF Connect, Stage
  <2>2. UNCHANGED <<scenario, heard, toTcp, keys, resizes, fromWs, fromBrowser, browserOpen>>
    BY <1>3 DEF Connect
  <2>3. Inside(kind)' = Inside(kind)
    BY <2>1, <2>2 DEF Inside
  <2> QED BY <1>1, <2>2, <2>3, UpstreamKept
<1>4. CASE HostReads \/ SendToHost \/ TakeKeys \/ TakeResize \/ PassOn
  <2>1. Inside(kind)' = Inside(kind)
    BY <1>4, HostReadsUp, SendToHostUp, TakeKeysUp, TakeResizeUp, PassOnUp
  <2>2. UNCHANGED <<scenario, fromBrowser, browserOpen>>
    BY <1>4 DEF HostReads, SendToHost, TakeKeys, TakeResize, PassOn
  <2> QED BY <1>1, <2>1, <2>2, UpstreamKept
<1>5. CASE ReadBrowser
  BY <1>1, <1>5, ReadBrowserUp
<1>6. CASE BrowserLeaves
  <2>1. UNCHANGED <<scenario, heard, tcpOut, toTcp, keys, resizes, fromWs>> /\ browserOpen' = FALSE
    BY <1>6 DEF BrowserLeaves
  <2>2. Inside(kind)' = Inside(kind)
    BY <2>1 DEF Inside
  <2> QED BY <2>1, <2>2 DEF Upstream
<1>7. CASE Request \/ ReadHello \/ NoHello \/ Bridge \/ FirstExit \/ Joined
  BY <1>2, <1>7 DEF Request, ReadHello, NoHello, Bridge, FirstExit, Joined
<1>8. CASE TcpToWs \/ WsWriter
  BY <1>2, <1>8 DEF TcpToWs, Forward, ReadHost, HostEnds, WsWriter, TakeForBrowser, SendToBrowser, SayClose
<1>9. CASE BrowserEnds \/ ReaderGone \/ (\E t \in Tasks : Abort(t))
  BY <1>2, <1>9 DEF BrowserEnds, ReaderGone, Abort
<1>10. CASE HostCloses \/ BrowserReads \/ UNCHANGED vars
  BY <1>2, <1>10 DEF HostCloses, BrowserReads, vars
<1> QED BY <1>3, <1>4, <1>5, <1>6, <1>7, <1>8, <1>9, <1>10
     DEF Next, BridgeSocket, WsReader, TcpWriter

\* The pieces are what the five places between browser and host hold.
LEMMA FivePlaces ==
  ASSUME UpType, NEW kind
  PROVE  /\ Only(tcpOut \o toTcp \o keys \o resizes \o fromWs, kind) \in Stream
         /\ Inside(kind) = Only(heard, kind) \o Only(tcpOut \o toTcp \o keys \o resizes \o fromWs, kind)
<1> DEFINE S1 == tcpOut
           S2 == S1 \o toTcp
           S3 == S2 \o keys
           S4 == S3 \o resizes
           S5 == S4 \o fromWs
           a  == Only(heard, kind)
           c1 == Only(S1, kind)
           c2 == c1 \o Only(toTcp, kind)
           c3 == c2 \o Only(keys, kind)
           c4 == c3 \o Only(resizes, kind)
           c5 == c4 \o Only(fromWs, kind)
<1>1. S1 \in Stream /\ toTcp \in Stream /\ keys \in Stream /\ resizes \in Stream /\ fromWs \in Stream
  <2>1. ToHost \subseteq Message /\ BrowserMessage \subseteq Message
    BY DEF Message, ToHost
  <2>2. Passing \subseteq Message /\ KeyMessage \subseteq Message /\ Accepted \subseteq Message
    BY DEF Message, Passing, BrowserMessage, Accepted
  <2> QED BY <2>1, <2>2, InMore, HeldIsSeq DEF UpType, Stream
<1>2. S2 \in Stream
  BY <1>1, Streams
<1> HIDE DEF S2
<1>3. S3 \in Stream
  BY <1>1, <1>2, Streams
<1> HIDE DEF S3
<1>4. S4 \in Stream
  BY <1>1, <1>3, Streams
<1> HIDE DEF S4
<1>5. S5 \in Stream
  BY <1>1, <1>4, Streams
<1>6. ASSUME NEW s \in Stream, NEW t \in Stream
      PROVE  Only(s \o t, kind) = Only(s, kind) \o Only(t, kind)
  BY OnlyOfBoth DEF Stream
<1>7. Only(S2, kind) = c2
  BY <1>1, <1>6 DEF S2
<1>8. Only(S3, kind) = c3
  BY <1>1, <1>2, <1>6, <1>7 DEF S3
<1>9. Only(S4, kind) = c4
  BY <1>1, <1>3, <1>6, <1>8 DEF S4
<1>10. Only(S5, kind) = c5
  BY <1>1, <1>4, <1>6, <1>9
<1>11. a \in Stream
  BY UpPieces
<1>12. c1 \in Stream /\ Only(toTcp, kind) \in Stream
  BY UpPieces
<1> HIDE DEF a, c1
<1>13. (a \o c1) \o Only(toTcp, kind) = a \o c2 /\ c2 \in Stream
  BY <1>11, <1>12, Longer
<1> HIDE DEF c2
<1>14. (a \o c2) \o Only(keys, kind) = a \o c3 /\ c3 \in Stream
  <2>1. Only(keys, kind) \in Stream
    BY UpPieces
  <2> QED BY <1>11, <1>13, <2>1, Longer
<1> HIDE DEF c3
<1>15. (a \o c3) \o Only(resizes, kind) = a \o c4 /\ c4 \in Stream
  <2>1. Only(resizes, kind) \in Stream
    BY UpPieces
  <2> QED BY <1>11, <1>14, <2>1, Longer
<1> HIDE DEF c4
<1>16. (a \o c4) \o Only(fromWs, kind) = a \o c5 /\ c5 \in Stream
  <2>1. Only(fromWs, kind) \in Stream
    BY UpPieces
  <2> QED BY <1>11, <1>15, <2>1, Longer
<1>17. Inside(kind) = a \o c1 \o Only(toTcp, kind) \o Only(keys, kind) \o Only(resizes, kind)
                        \o Only(fromWs, kind)
  BY DEF Inside, a, c1
<1>18. Inside(kind) = a \o c5
  BY <1>13, <1>14, <1>15, <1>16, <1>17
<1> QED BY <1>10, <1>16, <1>18 DEF a, S4, S3, S2

LEMMA ReachFromInv ==
  ASSUME ControlType, UpType, NEW kind, NEW passing, Upstream(kind, passing)
  PROVE  Reach(kind, passing)
<1> DEFINE arrived == Only(heard, kind)
           way     == Only(tcpOut \o toTcp \o keys \o resizes \o fromWs, kind)
           all     == Only(scenario.browser, passing)
<1>1. CASE scenario.readOnly
  BY <1>1 DEF Upstream, Reach
<1>2. CASE ~scenario.readOnly
  <2>1. PICK rest \in Stream : /\ Inside(kind) \o rest = all
                               /\ browserOpen => rest = Only(fromBrowser, passing)
    BY <1>2 DEF Upstream
  <2>2. arrived \in Stream /\ way \in Stream /\ Inside(kind) = arrived \o way
    BY UpPieces, FivePlaces
  <2> HIDE DEF arrived, way
  <2>3. arrived \o (way \o rest) = all /\ way \o rest \in Stream
    <3>1. (arrived \o way) \o rest = arrived \o (way \o rest)
      BY <2>2, Shift
    <3>2. way \o rest \in Stream
      BY <2>2, Streams
    <3> QED BY <2>1, <2>2, <3>1, <3>2
  <2>4. IsPrefix(arrived, arrived \o (way \o rest))
    <3>1. ASSUME NEW p \in Stream, NEW q \in Stream PROVE IsPrefix(p, p \o q)
      BY FrontIsPrefix DEF Stream
    <3> QED BY <2>2, <2>3, <3>1
  <2>5. browserOpen => arrived \o way \o Only(fromBrowser, passing) = all
    BY <2>1, <2>2
  <2> QED BY <1>2, <2>3, <2>4, <2>5 DEF Reach, arrived, way
<1> QED BY <1>1, <1>2

-----------------------------------------------------------------------------
(* Every behaviour of the bridge *)

LEMMA WebInvHolds == Spec => []WebInv
<1>1. Lane(KeyMessage, KeyMessage) /\ Lane(ResizeMessage, Accepted)
  BY DEF Lane
<1>2. Init => WebInv
  BY InitTypes, InitStage, InitDownstream, InitUpstream DEF WebInv
<1>3. WebInv /\ [Next]_vars => WebInv'
  <2>1. SUFFICES ASSUME WebInv, [Next]_vars PROVE WebInv'
    OBVIOUS
  <2>2. ControlType' /\ DownType' /\ UpType'
    BY <2>1, ControlTypeStep, DownTypeStep, UpTypeStep DEF WebInv
  <2>3. Stage' /\ Downstream'
    BY <2>1, StageStep, DownstreamStep DEF WebInv
  <2>4. Upstream(KeyMessage, KeyMessage)'
    BY <1>1, <2>1, UpstreamStep DEF WebInv
  <2>5. Upstream(ResizeMessage, Accepted)'
    BY <1>1, <2>1, UpstreamStep DEF WebInv
  <2> QED BY <2>2, <2>3, <2>4, <2>5 DEF WebInv
<1> QED BY <1>2, <1>3, PTL DEF Spec

\* The browser has the status and then the host's output, without a gap, a repetition
\* or an inversion, whichever task ended first; and while none has ended, what it lacks
\* is still on its way through pending_output, the channel and the two tasks.
THEOREM OutputFlows == Spec => []OutputUnbroken
<1>1. WebInv => OutputUnbroken
  BY OutputFromInv DEF WebInv
<1> QED BY <1>1, WebInvHolds, PTL

\* The room gets the keys in the order they were typed and the acceptable sizes in the
\* order they were sent; nothing of a read-only browser; and nothing is lost while no
\* task has ended.
THEOREM InputFlows == Spec => []InputUnbroken
<1>1. WebInv => InputUnbroken
  BY ReachFromInv DEF WebInv, InputUnbroken, Accepted
<1> QED BY <1>1, WebInvHolds, PTL
-----------------------------------------------------------------------------
(***************************************************************************)
(* What is painted on a terminal.                                          *)
(***************************************************************************)

\* Rows one below the other.
Rowed(f) == Len(f) \in Rows /\ f = [r \in 1..Len(f) |-> f[r]]

Writing == pc \in {"write", "writeOutput", "writeBar"}
Clean   == ~moved /\ ~torn
Bottom  == Len(terminal)

ViewType ==
  /\ MaxRows \in Nat
  /\ pc \in {"enter", "idle", "redraw", "over", "write", "writeOutput", "writeBar"}
  /\ Rowed(terminal) /\ Rowed(screen) /\ cursor \in 1..Len(screen) /\ at \in Nat
  /\ moved \in BOOLEAN /\ torn \in BOOLEAN
  /\ previousScreen = NoScreen \/ previousScreen = screen

\* What a row above the bar ought to say.
RowShown(r) == IF r <= Len(screen) THEN screen[r] ELSE Blank

Picture == /\ \A r \in 1..(Bottom - 1) : terminal[r] = RowShown(r)
           /\ at <= RemoteViewSize(Bottom)

\* The frame on its way has the bar of now, and its row if the terminal stayed.
Composed ==
  Writing =>
    /\ frame.kind \in {"full", "diff", "bar"}
    /\ frame.bar = Bar /\ frame.cursor \in Nat
    /\ ~moved => frame.barRow = Bottom

\* A full frame needs nothing of what is on the terminal.
FullRight ==
  Writing /\ frame.kind = "full" /\ ~moved =>
    LET rows == Least(Len(screen), RemoteViewSize(Bottom))
    IN  /\ DOMAIN frame.rows = 1..rows
        /\ \A r \in 1..rows : frame.rows[r] = screen[r]
        /\ frame.cursor <= rows

\* A difference needs the rows that it leaves out.
DiffRight ==
  Writing /\ frame.kind = "diff" /\ Clean =>
    /\ Len(screen) <= RemoteViewSize(Bottom) /\ frame.cursor <= Len(screen)
    /\ DOMAIN frame.rows \subseteq 1..Len(screen)
    /\ \A r \in DOMAIN frame.rows : frame.rows[r] = screen[r]
    /\ \A r \in 1..(Bottom - 1) : r \in DOMAIN frame.rows \/ terminal[r] = RowShown(r)

\* The bar alone needs all of them, and so does the entrance.
BarRight ==
  /\ Writing /\ frame.kind = "bar" => frame.rows = <<>>
  /\ (pc = "enter" \/ (Writing /\ frame.kind = "bar")) /\ Clean => Picture

ViewInv == ViewType /\ Composed /\ FullRight /\ DiffRight /\ BarRight /\ ShowsTheScreen

-----------------------------------------------------------------------------
USE DEF parser, previous, display, Rows

LEMMA RowedIsSeq ==
  ASSUME NEW f, Rowed(f)
  PROVE  Len(f) \in Rows /\ DOMAIN f = 1..Len(f) /\ \E S : f \in Seq(S)
<1>1. Len(f) \in Rows /\ f = [r \in 1..Len(f) |-> f[r]]
  BY DEF Rowed
<1>2. Len(f) \in Nat
  BY <1>1
<1>3. \E S : f \in Seq(S)
  BY <1>1, <1>2, LengthOfList
<1>4. DOMAIN f = 1..Len(f)
  BY <1>1
<1> QED BY <1>1, <1>3, <1>4

LEMMA LeastIs ==
  ASSUME NEW a \in Nat, NEW b \in Nat
  PROVE  Least(a, b) \in Nat /\ Least(a, b) \in {a, b} /\ Least(a, b) <= a /\ Least(a, b) <= b
  BY DEF Least

LEMMA FitIsRowed ==
  ASSUME NEW rows, NEW n \in Rows
  PROVE  /\ Rowed(Fit(rows, n)) /\ Len(Fit(rows, n)) = n
         /\ \A r \in 1..n : Fit(rows, n)[r] = IF r <= Len(rows) THEN rows[r] ELSE Blank
<1> DEFINE f == Fit(rows, n)
<1>1. /\ f = [r \in 1..n |-> f[r]]
      /\ \A r \in 1..n : f[r] = IF r <= Len(rows) THEN rows[r] ELSE Blank
  BY DEF Fit
<1> HIDE DEF f
<1>2. Len(f) = n
  BY <1>1, LengthOfList
<1> QED BY <1>1, <1>2 DEF Rowed, f

LEMMA RemoteViewFits ==
  ASSUME MaxRows \in Nat, NEW n \in Rows
  PROVE  RemoteViewSize(n) \in Rows /\ RemoteViewSize(n) <= n /\ n - 1 <= RemoteViewSize(n)
  BY DEF RemoteViewSize

\* Above the bottom row, a row is painted where it belongs.
LEMMA PaintedRows ==
  ASSUME NEW f, NEW k, NEW base, Rowed(terminal)
  PROVE  /\ Painted(f, k, base) = [r \in 1..Bottom |-> Painted(f, k, base)[r]]
         /\ k = MaxRows /\ DOMAIN f.rows \subseteq Rows =>
              \A r \in 1..(Bottom - 1) :
                Painted(f, k, base)[r] = IF r \in DOMAIN f.rows THEN f.rows[r] ELSE base[r]
<1> DEFINE n == Bottom
           landing(r) == {q \in DOMAIN f.rows : q <= k /\ Least(q, n) = r}
           top(r) == CHOOSE q \in landing(r) : \A p \in landing(r) : p <= q
           P == Painted(f, k, base)
<1>1. P = [r \in 1..n |-> IF landing(r) = {} THEN base[r] ELSE f.rows[top(r)]]
  BY DEF Painted, Bottom
<1>2. P = [r \in 1..n |-> P[r]]
  BY <1>1
<1>3. n \in Rows
  BY DEF Rowed, Bottom
<1>4. ASSUME k = MaxRows, DOMAIN f.rows \subseteq Rows, NEW r \in 1..(n - 1)
      PROVE  P[r] = IF r \in DOMAIN f.rows THEN f.rows[r] ELSE base[r]
  <2>1. \A q \in landing(r) : q = r
    BY <1>3, <1>4 DEF Least
  <2>2. r \in DOMAIN f.rows => r \in landing(r)
    BY <1>3, <1>4 DEF Least
  <2>3. r \in 1..n
    BY <1>3, <1>4
  <2>4. P[r] = IF landing(r) = {} THEN base[r] ELSE f.rows[top(r)]
    BY <1>1, <2>3
  <2>5. CASE r \in DOMAIN f.rows
    <3>1. landing(r) = {r}
      BY <2>1, <2>2, <2>5
    <3> HIDE DEF landing
    <3>2. top(r) = r
      BY <2>3, <3>1
    <3> HIDE DEF top
    <3> QED BY <2>4, <2>5, <3>1, <3>2
  <2>6. CASE r \notin DOMAIN f.rows
    <3>1. landing(r) = {}
      BY <2>1, <2>6
    <3> HIDE DEF landing, top
    <3> QED BY <2>4, <2>6, <3>1
  <2> QED BY <2>5, <2>6
<1> QED BY <1>2, <1>4

LEMMA ViewBegins == MaxRows \in Nat /\ ViewInit => ViewInv
<1> SUFFICES ASSUME MaxRows \in Nat, ViewInit PROVE ViewInv
  OBVIOUS
<1>1. PICK n \in Rows : terminal = Fit(<<>>, n) /\ screen = Fit(<<>>, RemoteViewSize(n))
  BY DEF ViewInit
<1>2. RemoteViewSize(n) \in Rows
  BY RemoteViewFits
<1>3. /\ Rowed(terminal) /\ Bottom = n /\ \A r \in 1..n : terminal[r] = Blank
      /\ Rowed(screen) /\ Len(screen) = RemoteViewSize(n)
      /\ \A r \in 1..RemoteViewSize(n) : screen[r] = Blank
  <2>1. ASSUME NEW k \in Rows
        PROVE  Rowed(Fit(<<>>, k)) /\ Len(Fit(<<>>, k)) = k /\ \A r \in 1..k : Fit(<<>>, k)[r] = Blank
    <3>1. Len(<<>>) = 0
      OBVIOUS
    <3> QED BY <3>1, FitIsRowed
  <2>2. Rowed(terminal) /\ Len(terminal) = n /\ \A r \in 1..n : terminal[r] = Blank
    BY <1>1, <2>1
  <2>3. /\ Rowed(screen) /\ Len(screen) = RemoteViewSize(n)
        /\ \A r \in 1..RemoteViewSize(n) : screen[r] = Blank
    <3> DEFINE k == RemoteViewSize(n)
    <3> HIDE DEF k
    <3>1. k \in Rows /\ screen = Fit(<<>>, k)
      BY <1>1, <1>2 DEF k
    <3>2. Rowed(screen) /\ Len(screen) = k /\ \A r \in 1..k : screen[r] = Blank
      BY <2>1, <3>1
    <3> QED BY <3>2 DEF k
  <2> QED BY <2>2, <2>3 DEF Bottom
<1>4. ViewType
  <2>1. Len(screen) \in Rows
    BY <1>3 DEF Rowed
  <2>2. 1 \in 1..Len(screen)
    BY <2>1
  <2> QED BY <1>3, <2>2 DEF ViewInit, ViewType, NoScreen
<1>5. Picture
  BY <1>2, <1>3 DEF ViewInit, Picture, RowShown
<1> QED
  BY <1>4, <1>5
  DEF ViewInit, ViewInv, Composed, FullRight, DiffRight, BarRight, Writing, ShowsTheScreen

\* A frame with the bar alone is composed.
LEMMA BarComposed ==
  ASSUME ViewInv, pc \in {"enter", "idle"}, pc' \in {"write", "writeBar"},
         UNCHANGED <<parser, display>>, RedrawStatus
  PROVE  ViewInv'
<1>1. /\ frame' = BarFrame /\ UNCHANGED <<previousScreen, moved, torn, screen, cursor, terminal, at>>
  BY DEF RedrawStatus
<1>2. /\ frame'.kind = "bar" /\ frame'.rows = <<>> /\ frame'.bar = Bar'
      /\ frame'.cursor = at /\ frame'.barRow = Len(terminal)
  BY <1>1 DEF BarFrame, NoScreen
<1>3. ViewType'
  BY <1>1 DEF ViewInv, ViewType, Rowed
<1>4. Clean => Picture
  BY DEF ViewInv, BarRight, ShowsTheScreen, Clean, Picture, RowShown, Bottom
<1>5. Picture' <=> Picture
  BY <1>1 DEF Picture, RowShown, Bottom
<1>6. Composed'
  BY <1>1, <1>2 DEF ViewInv, ViewType, Composed, Bottom
<1> QED
  BY <1>1, <1>2, <1>3, <1>4, <1>5, <1>6
  DEF ViewInv, FullRight, DiffRight, BarRight, Writing, Clean, ShowsTheScreen

\* What ShouldRenderFull leaves to a difference.
Compared ==
  /\ previousScreen # NoScreen /\ Len(previousScreen) = Len(screen')
  /\ previousLocalSize = LocalSize /\ ~(LocalSize < Len(screen'))

Redrawn ==
  /\ frame' = FullFrame \/ (frame' = DiffFrame /\ pc = "idle" /\ Compared)
  /\ previousScreen' = screen' /\ moved' = FALSE
  /\ torn' = (frame'.kind = "diff" /\ (torn \/ (moved /\ previousLocalSize = LocalSize)))

LEMMA RedrawIs ==
  /\ pc = "idle" /\ Redraw(FALSE) => Redrawn
  /\ Redraw(TRUE) => Redrawn
  /\ pc = "idle" /\ Redraw(Len(screen') # Len(screen)) => Redrawn
<1>1. pc = "idle" /\ Redraw(FALSE) => Redrawn
  BY DEF Redraw, ShouldRenderFull, Redrawn, Compared
<1>2. Redraw(TRUE) => Redrawn
  BY DEF Redraw, ShouldRenderFull, Redrawn, Compared
<1>3. pc = "idle" /\ Redraw(Len(screen') # Len(screen)) => Redrawn
  BY DEF Redraw, ShouldRenderFull, Redrawn, Compared
<1> QED BY <1>1, <1>2, <1>3

\* A frame with rows is composed: all of them, or the difference to the last ones.
LEMMA RedrawComposed ==
  ASSUME ViewInv, pc' \in {"write", "writeOutput"},
         UNCHANGED <<frontend, status, clients, display>>,
         Rowed(screen'), cursor' \in 1..Len(screen'), Redrawn
  PROVE  ViewInv'
<1> DEFINE n == Len(terminal)
           m == Least(Len(screen'), LocalSize)
<1>1. /\ MaxRows \in Nat
      /\ n \in Rows /\ Len(screen') \in Rows /\ Rowed(terminal) /\ at \in Nat
      /\ moved \in BOOLEAN /\ torn \in BOOLEAN
      /\ previousScreen = NoScreen \/ previousScreen = screen
  BY DEF ViewInv, ViewType, Rowed
<1>2. /\ LocalSize \in Rows /\ LocalSize = RemoteViewSize(n) /\ n - 1 <= LocalSize /\ LocalSize <= n
  <2>1. LocalSize = RemoteViewSize(n)
    BY DEF LocalSize
  <2>2. RemoteViewSize(n) \in Rows /\ n - 1 <= RemoteViewSize(n) /\ RemoteViewSize(n) <= n
    BY <1>1, RemoteViewFits
  <2> QED BY <2>1, <2>2
<1>i. n \in Nat /\ Len(screen') \in Nat /\ Len(screen') >= 1 /\ LocalSize \in Nat /\ LocalSize >= 1
  <2>1. n \in Nat
    BY <1>1
  <2>2. Len(screen') \in Nat /\ Len(screen') >= 1
    BY <1>1
  <2>3. LocalSize \in Nat
    BY <1>2
  <2>4. LocalSize >= 1
    BY <1>2
  <2> QED BY <2>1, <2>2, <2>3, <2>4
<1>3. m \in 1..Len(screen') /\ m <= LocalSize
  <2>1. m \in Nat /\ m \in {Len(screen'), LocalSize} /\ m <= Len(screen') /\ m <= LocalSize
    BY <1>i, LeastIs
  <2> HIDE DEF m
  <2> QED BY <1>i, <2>1
<1>4. /\ previousScreen' = screen' /\ moved' = FALSE
      /\ torn' = (frame'.kind = "diff" /\ (torn \/ (moved /\ previousLocalSize = LocalSize)))
      /\ terminal' = terminal /\ at' = at
  BY DEF Redrawn
<1>5. torn' \in BOOLEAN
  BY <1>4
<1>6. ViewType'
  BY <1>1, <1>4, <1>5 DEF ViewType
<1>7. CASE frame' = FullFrame
  <2>2. /\ frame'.kind = "full" /\ frame'.bar = Bar' /\ frame'.barRow = n
        /\ frame'.rows = SubSeq(screen', 1, m) /\ frame'.cursor = Least(cursor', m)
    <3>1. FullFrame = [kind |-> "full", rows |-> SubSeq(screen', 1, m), cursor |-> Least(cursor', m),
                       bar |-> Bar', barRow |-> n]
      BY DEF FullFrame
    <3> HIDE DEF m
    <3> QED BY <1>7, <3>1
  <2>3. SubSeq(screen', 1, m) = [r \in 1..m |-> screen'[r]]
    <3>1. PICK S : screen' \in Seq(S)
      BY RowedIsSeq
    <3> HIDE DEF m
    <3>2. /\ SubSeq(screen', 1, m) \in Seq(S) /\ Len(SubSeq(screen', 1, m)) = m
          /\ \A r \in 1..m : SubSeq(screen', 1, m)[r] = screen'[r]
      BY <1>i, <1>3, <3>1, SubSeqProperties
    <3>3. DOMAIN SubSeq(screen', 1, m) = 1..m
      BY <3>2
    <3> QED BY <3>2, <3>3
  <2>4. frame'.cursor \in Nat /\ frame'.cursor <= m
    BY <1>3, <2>2 DEF Least
  <2>5. Composed'
    BY <1>4, <2>2, <2>4 DEF Composed, Bottom
  <2>6. FullRight'
    BY <1>2, <1>4, <2>2, <2>3, <2>4 DEF FullRight, Bottom
  <2>7. DiffRight' /\ BarRight' /\ ShowsTheScreen'
    BY <2>2 DEF DiffRight, BarRight, ShowsTheScreen, Writing
  <2> QED BY <1>6, <2>5, <2>6, <2>7 DEF ViewInv
<1>8. CASE frame' = DiffFrame /\ pc = "idle" /\ Compared
  <2>1. /\ pc = "idle" /\ previousScreen = screen /\ Len(screen) = Len(screen')
        /\ previousLocalSize = LocalSize /\ Len(screen') <= LocalSize
    <3>1. Len(screen') <= LocalSize
      BY <1>i, <1>8 DEF Compared
    <3> QED BY <1>1, <1>8, <3>1 DEF Compared
  <2> DEFINE D == {q \in DOMAIN screen' : screen'[q] # previousScreen[q]}
  <2>3. /\ frame'.kind = "diff" /\ frame'.bar = Bar' /\ frame'.barRow = n
        /\ frame'.cursor = cursor' /\ frame'.rows = [r \in D |-> screen'[r]]
    BY <1>8 DEF DiffFrame
  <2>4. DOMAIN screen' = 1..Len(screen') /\ DOMAIN screen = 1..Len(screen)
    BY RowedIsSeq DEF ViewInv, ViewType
  <2>5. Composed'
    <3>1. cursor' \in Nat
      BY <1>i
    <3> QED BY <1>4, <2>3, <3>1 DEF Composed, Bottom
  <2>6. ASSUME ~torn'
        PROVE  \A r \in 1..(n - 1) : terminal[r] = RowShown(r)
    BY <1>4, <2>1, <2>3, <2>6 DEF ViewInv, ShowsTheScreen, RowShown
  <2>7. ASSUME ~torn', NEW r \in 1..(n - 1), r \notin D
        PROVE  terminal'[r] = IF r <= Len(screen') THEN screen'[r] ELSE Blank
    <3>1. terminal'[r] = RowShown(r)
      BY <1>4, <2>6, <2>7
    <3>2. ASSUME r <= Len(screen') PROVE screen'[r] = screen[r]
      <4>1. r \in DOMAIN screen'
        BY <1>i, <2>4, <2>7, <3>2
      <4> QED BY <2>1, <2>7, <4>1
    <3> QED BY <2>1, <3>1, <3>2 DEF RowShown
  <2>8. DOMAIN frame'.rows = D /\ D \subseteq 1..Len(screen') /\ \A r \in D : frame'.rows[r] = screen'[r]
    BY <2>3, <2>4
  <2> HIDE DEF D
  <2>9. DiffRight'
    BY <1>2, <1>4, <2>1, <2>3, <2>7, <2>8, SMTT(60) DEF DiffRight, Clean, Bottom, RowShown
  <2>10. FullRight' /\ BarRight' /\ ShowsTheScreen'
    BY <2>3 DEF FullRight, BarRight, ShowsTheScreen, Writing
  <2> QED BY <1>6, <2>5, <2>9, <2>10 DEF ViewInv
<1> QED BY <1>7, <1>8 DEF Redrawn

\* The frame reaches the terminal.
LEMMA WriteShows == ViewInv /\ Write => ViewInv'
<1> SUFFICES ASSUME ViewInv, Write PROVE ViewInv'
  OBVIOUS
<1> DEFINE n == Len(terminal)
           P == Painted(frame, MaxRows, Base)
<1>1. /\ Writing /\ pc' \in {"idle", "redraw"}
      /\ terminal' = [P EXCEPT ![Least(frame.barRow, n)] = frame.bar]
      /\ at' = Least(IF frame.kind = "bar" THEN at ELSE frame.cursor, n)
      /\ UNCHANGED <<frontend, status, clients, screen, cursor, previousScreen, moved, torn>>
  BY DEF Write, Writing
<1>2. /\ MaxRows \in Nat
      /\ n \in Rows /\ Rowed(terminal) /\ Rowed(screen) /\ Len(screen) \in Rows /\ at \in Nat
      /\ frame.kind \in {"full", "diff", "bar"} /\ frame.bar = Bar /\ frame.cursor \in Nat
      /\ ~moved => frame.barRow = n
  BY <1>1 DEF ViewInv, ViewType, Composed, Rowed, Bottom
<1>3. P = [r \in 1..n |-> P[r]]
  BY <1>2, PaintedRows DEF Bottom
<1>4. terminal' = [r \in 1..n |-> terminal'[r]] /\ Len(terminal') = n
  <2>1. terminal' = [r \in 1..n |-> terminal'[r]]
    BY <1>1, <1>3
  <2> QED BY <1>2, <2>1, LengthOfList
<1>5. Rowed(terminal')
  BY <1>2, <1>4 DEF Rowed
<1>6. at' \in Nat
  BY <1>1, <1>2 DEF Least
<1>7. ViewType'
  BY <1>1, <1>5, <1>6 DEF ViewInv, ViewType, Rowed
<1>8. ~Writing' /\ pc' # "enter"
  BY <1>1 DEF Writing
<1>9. ASSUME Clean
      PROVE  /\ terminal'[n] = Bar /\ at' <= RemoteViewSize(n)
             /\ \A r \in 1..(n - 1) : terminal'[r] = RowShown(r)
  <2>1. Least(frame.barRow, n) = n /\ RemoteViewSize(n) \in Rows /\ RemoteViewSize(n) <= n
    BY <1>2, <1>9, RemoteViewFits DEF Least, Clean
  <2>2. terminal'[n] = Bar /\ \A r \in 1..(n - 1) : terminal'[r] = P[r]
    BY <1>1, <1>2, <1>3, <2>1
  <2>3. CASE frame.kind = "full"
    <3> DEFINE m == Least(Len(screen), RemoteViewSize(n))
    <3>1. /\ DOMAIN frame.rows = 1..m /\ \A r \in 1..m : frame.rows[r] = screen[r]
          /\ frame.cursor <= m
      BY <1>1, <1>9, <2>3 DEF ViewInv, FullRight, Clean, Bottom
    <3>2. m \in Rows /\ m <= Len(screen) /\ m <= RemoteViewSize(n) /\ (m = Len(screen) \/ m = RemoteViewSize(n))
      BY <1>2, <2>1 DEF Least
    <3> HIDE DEF m
    <3>3. \A r \in 1..(n - 1) : P[r] = IF r \in DOMAIN frame.rows THEN frame.rows[r] ELSE Base[r]
      BY <1>2, <3>1, <3>2, PaintedRows DEF Bottom
    <3>4. \A r \in 1..n : Base[r] = Blank
      <4>1. Base = Fit(<<>>, n) /\ Len(<<>>) = 0
        BY <2>3 DEF Base
      <4> QED BY <1>2, <4>1, FitIsRowed
    <3>5. ASSUME NEW r \in 1..(n - 1)
          PROVE  P[r] = RowShown(r)
      <4>1. r <= RemoteViewSize(n)
        BY <1>2, <3>5, RemoteViewFits
      <4>2. r \in 1..n
        BY <1>2, <3>5
      <4> QED BY <1>2, <2>1, <3>1, <3>2, <3>3, <3>4, <4>1, <4>2 DEF RowShown
    <3>6. at' <= RemoteViewSize(n)
      BY <1>1, <1>2, <2>1, <2>3, <3>1, <3>2 DEF Least
    <3> QED BY <2>2, <3>5, <3>6
  <2>4. CASE frame.kind = "diff"
    <3>1. /\ Len(screen) <= RemoteViewSize(n) /\ frame.cursor <= Len(screen)
          /\ DOMAIN frame.rows \subseteq 1..Len(screen)
          /\ \A r \in DOMAIN frame.rows : frame.rows[r] = screen[r]
          /\ \A r \in 1..(n - 1) : r \in DOMAIN frame.rows \/ terminal[r] = RowShown(r)
      BY <1>1, <1>9, <2>4 DEF ViewInv, DiffRight, Bottom
    <3>2. DOMAIN frame.rows \subseteq Rows /\ Base = terminal
      BY <1>2, <2>4, <3>1 DEF Base
    <3>3. \A r \in 1..(n - 1) : P[r] = IF r \in DOMAIN frame.rows THEN frame.rows[r] ELSE terminal[r]
      BY <1>2, <3>2, PaintedRows DEF Bottom
    <3>4. \A r \in 1..(n - 1) : P[r] = RowShown(r)
      BY <3>1, <3>3 DEF RowShown
    <3>5. at' <= RemoteViewSize(n)
      BY <1>1, <1>2, <2>1, <2>4, <3>1 DEF Least
    <3> QED BY <2>2, <3>4, <3>5
  <2>5. CASE frame.kind = "bar"
    <3>1. frame.rows = <<>> /\ Picture /\ Base = terminal
      BY <1>1, <1>9, <2>5 DEF ViewInv, BarRight, Base
    <3>2. DOMAIN frame.rows = {}
      BY <3>1
    <3>3. \A r \in 1..(n - 1) : P[r] = terminal[r]
      BY <1>2, <3>1, <3>2, PaintedRows DEF Bottom
    <3>4. \A r \in 1..(n - 1) : P[r] = RowShown(r)
      BY <3>1, <3>3 DEF Picture, Bottom
    <3>5. at' <= RemoteViewSize(n)
      BY <1>1, <1>2, <2>1, <2>5, <3>1 DEF Least, Picture, Bottom
    <3> QED BY <2>2, <3>4, <3>5
  <2> QED BY <1>2, <2>3, <2>4, <2>5
<1>10. Bar' = Bar
  BY <1>1 DEF Bar, BuildBar, BuildHostBar
<1>11. ShowsTheScreen'
  BY <1>1, <1>4, <1>9, <1>10 DEF ShowsTheScreen, Clean, RowShown
<1> QED
  BY <1>7, <1>8, <1>11 DEF ViewInv, Composed, FullRight, DiffRight, BarRight

\* What fails or is resized is excused.
LEMMA Excused ==
  ASSUME ViewInv, WriteFails \/ EmulatorResizes
  PROVE  ViewInv'
<1> DEFINE n == Len(terminal)
<1>1. CASE WriteFails
  <2>1. /\ pc' \in {"idle", "over"} /\ torn' = TRUE
        /\ UNCHANGED <<screen, cursor, previousScreen, at, moved>>
    BY <1>1 DEF WriteFails
  <2>2. PICK k \in 0..MaxRows : terminal' = Painted(frame, k, Base)
    BY <1>1 DEF WriteFails
  <2>3. n \in Rows /\ Rowed(terminal)
    BY DEF ViewInv, ViewType, Rowed
  <2>4. terminal' = [r \in 1..n |-> terminal'[r]]
    BY <2>2, <2>3, PaintedRows DEF Bottom
  <2>5. Rowed(terminal')
    BY <2>3, <2>4, LengthOfList DEF Rowed
  <2>6. ViewType'
    BY <2>1, <2>5 DEF ViewInv, ViewType, Rowed
  <2> QED
    BY <2>1, <2>6
    DEF ViewInv, Composed, FullRight, DiffRight, BarRight, Writing, Clean, ShowsTheScreen
<1>2. CASE EmulatorResizes
  <2>1. PICK k \in Rows : terminal' = Fit(terminal, k) /\ at' = Least(at, k)
    BY <1>2 DEF EmulatorResizes
  <2>2. /\ moved' = TRUE /\ pc' = pc /\ frame' = frame /\ torn' = torn
        /\ UNCHANGED <<frontend, status, clients, screen, cursor, previousScreen>>
    BY <1>2 DEF EmulatorResizes
  <2>3. Rowed(terminal')
    BY <2>1, FitIsRowed
  <2>4. at' \in Nat
    <3>1. at \in Nat
      BY DEF ViewInv, ViewType
    <3> QED BY <2>1, <3>1 DEF Least
  <2>5. ViewType'
    BY <2>2, <2>3, <2>4 DEF ViewInv, ViewType, Rowed
  <2>6. Bar' = Bar
    BY <2>2 DEF Bar, BuildBar, BuildHostBar
  <2> QED
    BY <2>2, <2>5, <2>6
    DEF ViewInv, Composed, FullRight, DiffRight, BarRight, Writing, Clean, ShowsTheScreen
<1> QED BY <1>1, <1>2

LEMMA ViewStep == ViewInv /\ [ViewNext]_viewVars => ViewInv'
<1> SUFFICES ASSUME ViewInv, [ViewNext]_viewVars PROVE ViewInv'
  OBVIOUS
<1>t. Rowed(screen) /\ Len(screen) \in Rows /\ cursor \in 1..Len(screen)
  BY DEF ViewInv, ViewType, Rowed
<1>1. CASE Enter \/ SetStatus \/ SetClientCount \/ ConnectedAgain
  <2>1. /\ pc \in {"enter", "idle"} /\ pc' \in {"write", "writeBar"}
        /\ UNCHANGED <<parser, display>> /\ RedrawStatus
    BY <1>1 DEF Enter, SetStatus, SetClientCount, ConnectedAgain
  <2> QED BY <2>1, BarComposed
<1>2. CASE ProcessOutput
  <2>1. PICK q \in DOMAIN screen, mark \in Marks :
          screen' = [screen EXCEPT ![q] = Text(mark)] /\ cursor' = q
    BY <1>2 DEF ProcessOutput
  <2>2. screen' = [r \in 1..Len(screen) |-> screen'[r]] /\ q \in 1..Len(screen)
    BY <1>t, <2>1 DEF Rowed
  <2>3. Len(screen') = Len(screen)
    BY <1>t, <2>2, LengthOfList
  <2>4. Rowed(screen') /\ cursor' \in 1..Len(screen')
    BY <1>t, <2>1, <2>2, <2>3 DEF Rowed
  <2> QED BY <1>2, <2>4, RedrawIs, RedrawComposed DEF ProcessOutput
<1>3. CASE Resize
  <2>1. PICK k \in Rows : screen' = Fit(screen, k) /\ cursor' = Least(cursor, k)
    BY <1>3 DEF Resize
  <2>2. Rowed(screen') /\ Len(screen') = k
    BY <2>1, FitIsRowed
  <2>3. cursor' \in 1..Len(screen')
    BY <1>t, <2>1, <2>2 DEF Least
  <2> QED BY <1>3, <2>2, <2>3, RedrawIs, RedrawComposed DEF Resize
<1>4. CASE ForceRedraw
  <2>1. Rowed(screen') /\ cursor' \in 1..Len(screen')
    BY <1>4, <1>t DEF ForceRedraw
  <2> QED BY <1>4, <2>1, RedrawIs, RedrawComposed DEF ForceRedraw
<1>5. CASE Write
  BY <1>5, WriteShows
<1>6. CASE WriteFails \/ EmulatorResizes
  BY <1>6, Excused
<1>7. CASE UNCHANGED viewVars
  BY <1>7
  DEF viewVars, ViewInv, ViewType, Rowed, Composed, FullRight, DiffRight, BarRight, Writing, Clean,
      Picture, RowShown, Bottom, Bar, BuildBar, BuildHostBar, ShowsTheScreen
<1> QED BY <1>1, <1>2, <1>3, <1>4, <1>5, <1>6, <1>7 DEF ViewNext

\* Whenever the terminal has kept its size since the last redraw, the user sees the
\* room's screen, clipped to the rows above the bar, and the bar below it, for any
\* sizes of both and whatever changed before.
THEOREM ScreenIsShown == ViewSpec => []ShowsTheScreen
<1>1. ViewInv => ShowsTheScreen
  BY DEF ViewInv
<1> QED BY RowsAssumption, ViewBegins, ViewStep, <1>1, PTL DEF ViewSpec
=============================================================================
