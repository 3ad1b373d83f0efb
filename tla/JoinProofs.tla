----------------------------- MODULE JoinProofs -----------------------------
(***************************************************************************)
(* A joining terminal, for any keys, sizes, reads and scenarios: what      *)
(* becomes of each key; and that what is shown is what the host said.      *)
(***************************************************************************)
EXTENDS Join, SharedLemmas

AKey == {"key"} \X Nat
Items == AKey \cup {<<"hello", VERSION>>} \cup ({"resize"} \X Sizes)
Routers == [mode : {"forward", "command"}, expired : BOOLEAN]
Statuses == {Connected, Command, Help}

Readiness == [stdin : BOOLEAN, stream : BOOLEAN, error : BOOLEAN]

KeyType ==
  /\ scenario \in Scenarios /\ winsize \in Sizes
  /\ typed \in Seq([key : Keys, late : BOOLEAN]) /\ readTo \in 0..Len(typed)
  /\ router \in Routers /\ status \in Statuses /\ upstream \in Seq(Items)
  /\ commands \in SUBSET Nat /\ prefixes \in SUBSET Nat
  /\ revents \in Readiness

\* Of the first so many keys, which were taken as commands and which as prefixes.
Dealt(cmds, pres, upto) ==
  /\ cmds \subseteq 1..upto /\ pres \subseteq 1..upto /\ cmds \cap pres = {}
  /\ \A i \in cmds : i - 1 \in pres /\ typed[i].key # LOCAL_ESCAPE /\ ~typed[i].late
  /\ \A i \in pres : typed[i].key = LOCAL_ESCAPE
  /\ LocalControls =>
       \A i \in (1..upto) \ (cmds \cup pres) : typed[i].key = LOCAL_ESCAPE => i - 1 \in pres
  /\ ~LocalControls => cmds = {} /\ pres = {}

Numbers(s) == {s[k][2] : k \in DOMAIN s}
Ordered(s) == \A k \in 1..(Len(s) - 1) : s[k][2] < s[k + 1][2]

\* What was read is dealt with, and what was not taken was sent.
Accounts ==
  /\ Dealt(commands, prefixes, readTo)
  /\ router.mode = "command" => readTo \in prefixes
  /\ Ordered(KeysSent)
  /\ ForwardInput => Numbers(KeysSent) = (1..readTo) \ (commands \cup prefixes)
  /\ ~ForwardInput => KeysSent = <<>>

\* A late key is the next to be read, and finds no prefix that still waits for it.
NextIsLate == readTo < Len(typed) /\ typed[readTo + 1].late
LateKeys ==
  /\ \A j \in (readTo + 2)..Len(typed) : ~typed[j].late
  /\ NextIsLate => router.mode = "forward" \/ router.expired
  /\ pc = "stdin" /\ revents.stdin =>
       /\ readTo < Len(typed) \/ ended
       /\ NextIsLate => router.mode = "forward"

KeyInv == KeyType /\ (pc # "done" => Accounts /\ LateKeys)
Accs == [router : Routers, status : Statuses, sent : Seq(AKey), gone : BOOLEAN,
         commands : SUBSET Nat, prefixes : SUBSET Nat]

\* The loop over a read's keys after key i, unless a command has ended the join.
Good(acc, i) ==
  /\ acc \in Accs
  /\ acc.gone \/
       /\ Dealt(acc.commands, acc.prefixes, i)
       /\ acc.router.mode = "command" => i \in acc.prefixes
       /\ Ordered(acc.sent)
       /\ Numbers(acc.sent) = ((readTo + 1)..i) \ (acc.commands \cup acc.prefixes)
       /\ acc.commands \cap (1..readTo) = commands
       /\ acc.prefixes \cap (1..readTo) = prefixes

AtFirst == [router |-> router, status |-> status, sent |-> <<>>, gone |-> FALSE,
            commands |-> commands, prefixes |-> prefixes]

Routing(last, g) ==
  g = [k \in 0..(last - readTo) |-> IF k = 0 THEN AtFirst ELSE Route(g[k - 1], readTo + k)]

-----------------------------------------------------------------------------
LEMMA OneMoreSent ==
  ASSUME NEW s \in Seq(AKey), Ordered(s), NEW i \in Nat, Numbers(s) \subseteq 1..i
  PROVE  /\ Append(s, <<"key", i + 1>>) \in Seq(AKey)
         /\ Ordered(Append(s, <<"key", i + 1>>))
         /\ Numbers(Append(s, <<"key", i + 1>>)) = Numbers(s) \cup {i + 1}
<1> DEFINE x == <<"key", i + 1>>
           t == Append(s, x)
           n == Len(s)
<1>1. x \in AKey /\ x[2] = i + 1
  BY DEF AKey
<1> HIDE DEF x
<1>2. /\ t \in Seq(AKey) /\ n \in Nat /\ Len(t) = n + 1 /\ t[n + 1] = x
      /\ \A k \in 1..n : t[k] = s[k]
      /\ DOMAIN s = 1..n /\ DOMAIN t = 1..(n + 1)
  BY <1>1, AppendProperties, LenProperties
<1> HIDE DEF t, n
<1>3. Numbers(t) = Numbers(s) \cup {i + 1}
  <2>1. \A k \in 1..(n + 1) : k = n + 1 \/ k \in 1..n
    BY <1>2
  <2>2. n + 1 \in 1..(n + 1) /\ \A k \in 1..n : k \in 1..(n + 1)
    BY <1>2
  <2> QED BY <1>1, <1>2, <2>1, <2>2 DEF Numbers
<1>4. ASSUME NEW k \in 1..(Len(t) - 1)
      PROVE  t[k][2] < t[k + 1][2]
  <2>1. CASE k = n
    <3>1. k \in 1..n /\ t[k] = s[k] /\ t[k + 1] = x
      BY <1>2, <1>4, <2>1
    <3>2. s[k][2] \in 1..i
      BY <1>2, <3>1 DEF Numbers
    <3> QED BY <1>1, <3>1, <3>2
  <2>2. CASE k # n
    <3>1. k \in 1..(n - 1) /\ k \in 1..n /\ k + 1 \in 1..n
      BY <1>2, <1>4, <2>2
    <3>2. s[k][2] < s[k + 1][2]
      BY <3>1 DEF Ordered, n
    <3> QED BY <1>2, <3>1, <3>2
  <2> QED BY <2>1, <2>2
<1> QED BY <1>2, <1>3, <1>4 DEF Ordered, t, x

LEMMA BothSent ==
  ASSUME NEW s \in Seq(AKey), NEW t \in Seq(AKey), Ordered(s), Ordered(t), NEW m \in Nat,
         Numbers(s) \subseteq 1..m, \A i \in Numbers(t) : i > m
  PROVE  Ordered(s \o t) /\ Numbers(s \o t) = Numbers(s) \cup Numbers(t)
<1> DEFINE n == Len(s)
           p == Len(t)
           u == s \o t
<1>1. /\ n \in Nat /\ p \in Nat /\ u \in Seq(AKey) /\ Len(u) = n + p
      /\ DOMAIN s = 1..n /\ DOMAIN t = 1..p /\ DOMAIN u = 1..(n + p)
      /\ \A k \in 1..n : u[k] = s[k]
      /\ \A k \in 1..p : u[n + k] = t[k]
  <2>1. /\ u \in Seq(AKey) /\ Len(u) = n + p
        /\ \A k \in 1..(n + p) : u[k] = IF k <= n THEN s[k] ELSE t[k - n]
    BY ConcatProperties
  <2>2. n \in Nat /\ p \in Nat /\ DOMAIN s = 1..n /\ DOMAIN t = 1..p /\ DOMAIN u = 1..(n + p)
    BY <2>1, LenProperties
  <2> HIDE DEF n, p, u
  <2>3. \A k \in 1..n : u[k] = s[k]
    BY <2>1, <2>2
  <2>4. ASSUME NEW k \in 1..p PROVE u[n + k] = t[k]
    <3>1. n + k \in 1..(n + p) /\ ~(n + k <= n) /\ (n + k) - n = k
      BY <2>2
    <3> QED BY <2>1, <3>1
  <2> QED BY <2>1, <2>2, <2>3, <2>4
<1>2. /\ \A k \in 1..n : s[k][2] \in 1..m
      /\ \A k \in 1..p : t[k][2] > m /\ t[k][2] \in Nat
  <2>1. \A k \in 1..p : t[k] \in AKey
    BY <1>1, ElementOfSeq
  <2>2. \A k \in 1..p : t[k][2] \in Nat
    BY <2>1 DEF AKey
  <2> HIDE DEF n, p, u
  <2> QED BY <1>1, <2>2 DEF Numbers
<1> HIDE DEF u, n, p
<1>3. \A k \in 1..(n + p) : k \in 1..n \/ (k - n \in 1..p /\ k = n + (k - n))
  BY <1>1
<1>4. Numbers(u) = Numbers(s) \cup Numbers(t)
  <2>1. \A k \in 1..n : k \in 1..(n + p)
    BY <1>1
  <2>2. \A k \in 1..p : n + k \in 1..(n + p)
    BY <1>1
  <2>3. ASSUME NEW k \in 1..(n + p) PROVE u[k][2] \in Numbers(s) \cup Numbers(t)
    <3>1. CASE k \in 1..n
      BY <1>1, <3>1 DEF Numbers
    <3>2. CASE k - n \in 1..p /\ k = n + (k - n)
      <4>1. PICK j \in 1..p : k = n + j
        BY <3>2
      <4>2. u[k] = t[j]
        BY <1>1, <4>1
      <4> QED BY <1>1, <4>2 DEF Numbers
    <3> QED BY <1>3, <3>1, <3>2
  <2>4. \A k \in 1..n : s[k][2] \in Numbers(u)
    BY <1>1, <2>1 DEF Numbers
  <2>5. ASSUME NEW k \in 1..p PROVE t[k][2] \in Numbers(u)
    <3>1. n + k \in DOMAIN u /\ u[n + k] = t[k]
      BY <1>1, <2>2
    <3>2. PICK j \in DOMAIN u : t[k] = u[j]
      BY <3>1
    <3> QED BY <3>2 DEF Numbers
  <2>6. ASSUME NEW S, \A k \in 1..(n + p) : u[k][2] \in S PROVE Numbers(u) \subseteq S
    BY <1>1, <2>6 DEF Numbers
  <2>7. Numbers(u) \subseteq Numbers(s) \cup Numbers(t)
    BY <2>3, <2>6
  <2>8. Numbers(s) \subseteq Numbers(u)
    <3>1. ASSUME NEW S, \A k \in 1..n : s[k][2] \in S PROVE Numbers(s) \subseteq S
      BY <1>1, <3>1 DEF Numbers
    <3> QED BY <2>4, <3>1
  <2>9. Numbers(t) \subseteq Numbers(u)
    <3>1. ASSUME NEW S, \A k \in 1..p : t[k][2] \in S PROVE Numbers(t) \subseteq S
      BY <1>1, <3>1 DEF Numbers
    <3> QED BY <2>5, <3>1
  <2> QED BY <2>7, <2>8, <2>9
<1>5. ASSUME NEW k \in 1..(Len(u) - 1)
      PROVE  u[k][2] < u[k + 1][2]
  <2>1. CASE k < n
    <3>1. k \in 1..(n - 1) /\ k \in 1..n /\ k + 1 \in 1..n
      BY <1>1, <1>5, <2>1
    <3>2. s[k][2] < s[k + 1][2]
      BY <3>1 DEF Ordered, n
    <3> QED BY <1>1, <3>1, <3>2
  <2>2. CASE k = n
    <3>1. k \in 1..n /\ 1 \in 1..p /\ k + 1 = n + 1
      BY <1>1, <1>5, <2>2
    <3>2. u[k] = s[k] /\ u[k + 1] = t[1]
      BY <1>1, <3>1
    <3>3. s[k][2] \in 1..m /\ t[1][2] > m /\ t[1][2] \in Nat
      BY <1>2, <3>1
    <3> QED BY <3>2, <3>3
  <2>3. CASE k > n
    <3> DEFINE j == k - n
    <3>1. j \in 1..(p - 1) /\ j \in 1..p /\ j + 1 \in 1..p /\ k = n + j /\ k + 1 = n + (j + 1)
      BY <1>1, <1>5, <2>3
    <3> HIDE DEF j
    <3>2. t[j][2] < t[j + 1][2]
      BY <3>1 DEF Ordered, p
    <3>3. u[k] = t[j] /\ u[k + 1] = t[j + 1]
      BY <1>1, <3>1
    <3> QED BY <3>2, <3>3
  <2>4. k < n \/ k = n \/ k > n
    BY <1>1, <1>5
  <2> QED BY <2>1, <2>2, <2>3, <2>4
<1> QED BY <1>4, <1>5 DEF Ordered, u

\* What is sent of keys is what is sent, but for the sizes.
LEMMA SendingKeys ==
  ASSUME NEW u \in Seq(Items), NEW s \in Seq(AKey)
  PROVE  u \o s \in Seq(Items) /\ Only(u \o s, AKey) = Only(u, AKey) \o s
<1>1. s \in Seq(Items)
  BY SeqOfMore DEF Items
<1>2. Only(s, AKey) = s
  <2>1. \A i \in 1..Len(s) : s[i] \in AKey
    BY ElementOfSeq
  <2> QED BY <2>1, OnlyOfAll
<1>3. Only(u \o s, AKey) = Only(u, AKey) \o Only(s, AKey)
  BY <1>1, OnlyOfBoth
<1>4. u \o s \in Seq(Items)
  BY <1>1, ConcatProperties
<1> QED BY <1>2, <1>3, <1>4

LEMMA SendingSize ==
  ASSUME NEW u \in Seq(Items), NEW s, s = <<>> \/ \E x \in Items \ AKey : s = <<x>>
  PROVE  u \o s \in Seq(Items) /\ Only(u \o s, AKey) = Only(u, AKey)
<1>1. CASE s = <<>>
  <2>1. u \o s = u
    BY <1>1, ConcatEmptySeq
  <2> QED BY <2>1
<1>2. ASSUME NEW x \in Items \ AKey, s = <<x>>
      PROVE  u \o s \in Seq(Items) /\ Only(u \o s, AKey) = Only(u, AKey)
  <2>1. s = Append(<<>>, x) /\ <<>> \in Seq(Items)
    BY <1>2
  <2>i. s \in Seq(Items)
    BY <1>2
  <2>2. Only(Append(<<>>, x), AKey) = Only(<<>>, AKey)
    BY <1>2, <2>1, OnlyOfMore
  <2>3. Only(s, AKey) = <<>>
    BY <2>1, <2>2, OnlyOfNothing
  <2>4. Only(u, AKey) \o <<>> = Only(u, AKey)
    <3>1. Only(u, AKey) \in Seq(Items)
      BY OnlyIsSeq
    <3> QED BY <3>1, ConcatEmptySeq
  <2>5. Only(u \o s, AKey) = Only(u, AKey) \o Only(s, AKey)
    BY <2>i, OnlyOfBoth
  <2>6. u \o s \in Seq(Items)
    BY <2>i, ConcatProperties
  <2> QED BY <2>3, <2>4, <2>5, <2>6
<1> QED BY <1>1, <1>2

-----------------------------------------------------------------------------
LEMMA RouterIs ==
  ASSUME NEW r \in Routers, NEW key
  PROVE  /\ Pushed(r, key) \in Routers
         /\ Pushed(r, key).mode = "command" <=> r.mode = "forward" /\ key = LOCAL_ESCAPE
         /\ Push(r, key) = Remote <=> (r.mode = "command" <=> key = LOCAL_ESCAPE)
         /\ Push(r, key) \in {Remote, Disconnect, ForceRedraw, UnknownCommand} \cup Statuses
  BY DEF Routers, Pushed, Push, PushCommand, PushForward, NewRouter, SetStatus, Remote,
         Disconnect, ForceRedraw, UnknownCommand, Connected, Command, Help, LOCAL_ESCAPE, Statuses

\* The state of the loop over a read's keys.
RouteAcc(r, t, s, g, c, p) ==
  [router |-> r, status |-> t, sent |-> s, gone |-> g, commands |-> c, prefixes |-> p]

\* One key more, which is late only if no prefix waits for it.
LEMMA RouteOne ==
  ASSUME KeyType, LocalControls, NEW acc, NEW i \in Nat, i >= readTo, i + 1 <= Len(typed),
         Good(acc, i), acc.router.mode = "command" => ~typed[i + 1].late
  PROVE  Good(Route(acc, i + 1), i + 1)
<1> DEFINE j     == i + 1
           key   == typed[j].key
           r     == acc.router
           cmds  == IF r.mode = "command" /\ key # LOCAL_ESCAPE THEN acc.commands \cup {j} ELSE acc.commands
           pres  == IF r.mode = "forward" /\ key = LOCAL_ESCAPE THEN acc.prefixes \cup {j} ELSE acc.prefixes
           sends == r.mode = "command" <=> key = LOCAL_ESCAPE
           a     == Route(acc, j)
<1>1. CASE acc.gone
  <2>1. Route(acc, j) = acc
    BY <1>1 DEF Route
  <2> QED BY <1>1, <2>1 DEF Good
<1>2. CASE ~acc.gone
  <2>1. /\ acc \in Accs /\ r \in Routers /\ acc.status \in Statuses /\ acc.sent \in Seq(AKey)
        /\ acc.commands \in SUBSET Nat /\ acc.prefixes \in SUBSET Nat
        /\ acc = RouteAcc(r, acc.status, acc.sent, FALSE, acc.commands, acc.prefixes)
    BY <1>2 DEF Good, Accs, RouteAcc
  <2>2. /\ Pushed(r, key) \in Routers
        /\ Pushed(r, key).mode = "command" <=> r.mode = "forward" /\ key = LOCAL_ESCAPE
        /\ Push(r, key) = Remote <=> sends
        /\ Push(r, key) \in {Remote, Disconnect, ForceRedraw, UnknownCommand} \cup Statuses
    <3> HIDE DEF key, r
    <3> QED BY <2>1, RouterIs DEF r
  <2>3. cmds \in SUBSET Nat /\ pres \in SUBSET Nat /\ j \in Nat
    BY <2>1
  <2>4. PICK t : t = CASE Push(r, key) \in {Remote, Disconnect} -> acc.status
                       [] Push(r, key) \in {ForceRedraw, UnknownCommand} -> Connected
                       [] OTHER -> Push(r, key)
    OBVIOUS
  <2>5. a = RouteAcc(Pushed(r, key), t,
                     IF Push(r, key) = Remote THEN Append(acc.sent, <<"key", j>>) ELSE acc.sent,
                     Push(r, key) = Disconnect, cmds, pres)
    BY <1>2, <2>4 DEF Route, RouteAcc
  <2>s. t \in Statuses
    <3> HIDE DEF r, key
    <3>1. CASE Push(r, key) \in {Remote, Disconnect}
      BY <2>1, <2>4, <3>1 DEF Remote, Disconnect, ForceRedraw, UnknownCommand
    <3>2. CASE Push(r, key) \in {ForceRedraw, UnknownCommand}
      BY <2>4, <3>2 DEF Remote, Disconnect, ForceRedraw, UnknownCommand, Statuses
    <3>3. CASE Push(r, key) \notin {Remote, Disconnect, ForceRedraw, UnknownCommand}
      BY <2>2, <2>4, <3>3
    <3> QED BY <3>1, <3>2, <3>3
  <2>6. /\ Dealt(acc.commands, acc.prefixes, i)
        /\ r.mode = "command" => i \in acc.prefixes
        /\ Ordered(acc.sent)
        /\ Numbers(acc.sent) = ((readTo + 1)..i) \ (acc.commands \cup acc.prefixes)
        /\ acc.commands \cap (1..readTo) = commands
        /\ acc.prefixes \cap (1..readTo) = prefixes
    BY <1>2 DEF Good
  <2>7. r.mode \in {"command", "forward"} /\ readTo \in Nat
    BY <2>1 DEF Routers, KeyType
  <2>8. /\ acc.commands \subseteq 1..i /\ acc.prefixes \subseteq 1..i
        /\ acc.commands \cap acc.prefixes = {}
    BY <2>6 DEF Dealt
  <2>9. /\ j \in cmds <=> r.mode = "command" /\ key # LOCAL_ESCAPE
        /\ j \in pres <=> r.mode = "forward" /\ key = LOCAL_ESCAPE
        /\ \A k \in 1..i : (k \in cmds <=> k \in acc.commands) /\ (k \in pres <=> k \in acc.prefixes)
        /\ cmds \subseteq 1..j /\ pres \subseteq 1..j
        /\ \A k \in 1..j : k = j \/ k \in 1..i
    <3>1. j \notin acc.commands /\ j \notin acc.prefixes
      BY <2>8
    <3>2. \A k \in 1..i : k # j /\ k \in 1..j
      OBVIOUS
    <3>3. \A k \in 1..j : k = j \/ k \in 1..i
      OBVIOUS
    <3>4. j \in 1..j
      BY <2>3
    <3> HIDE DEF j, key, r
    <3> QED BY <2>3, <2>7, <2>8, <3>1, <3>2, <3>3, <3>4
  <2> HIDE DEF cmds, pres, a
  <2>10. Dealt(cmds, pres, j)
    <3>1. cmds \cap pres = {}
      BY <2>7, <2>8, <2>9
    <3>2. ASSUME NEW k \in cmds PROVE k - 1 \in pres /\ typed[k].key # LOCAL_ESCAPE /\ ~typed[k].late
      <4>1. CASE k = j
        <5>1. i \in acc.prefixes /\ i \in 1..i /\ k - 1 = i /\ r.mode = "command" /\ key # LOCAL_ESCAPE
          BY <2>6, <2>8, <2>9, <3>2, <4>1
        <5> QED BY <2>9, <4>1, <5>1
      <4>2. CASE k \in 1..i
        <5>1. k - 1 \in acc.prefixes /\ typed[k].key # LOCAL_ESCAPE /\ ~typed[k].late
          BY <2>6, <2>9, <3>2, <4>2 DEF Dealt
        <5> QED BY <2>8, <2>9, <5>1
      <4> QED BY <2>9, <3>2, <4>1, <4>2
    <3>3. ASSUME NEW k \in pres PROVE typed[k].key = LOCAL_ESCAPE
      <4>1. CASE k = j
        BY <2>9, <3>3, <4>1
      <4>2. CASE k \in 1..i
        BY <2>6, <2>9, <3>3, <4>2 DEF Dealt
      <4> QED BY <2>9, <3>3, <4>1, <4>2
    <3>4. ASSUME NEW k \in (1..j) \ (cmds \cup pres), typed[k].key = LOCAL_ESCAPE
          PROVE  k - 1 \in pres
      <4>1. CASE k = j
        <5>1. i \in acc.prefixes /\ k - 1 = i
          BY <2>6, <2>7, <2>9, <3>4, <4>1
        <5> QED BY <2>8, <2>9, <5>1
      <4>2. CASE k \in 1..i
        <5>1. k \in (1..i) \ (acc.commands \cup acc.prefixes)
          BY <2>9, <3>4, <4>2
        <5>2. k - 1 \in acc.prefixes
          BY <2>6, <3>4, <5>1 DEF Dealt
        <5> QED BY <2>8, <2>9, <5>2
      <4> QED BY <2>9, <3>4, <4>1, <4>2
    <3> QED BY <2>9, <3>1, <3>2, <3>3, <3>4 DEF Dealt
  <2>11. Pushed(r, key).mode = "command" => j \in pres
    BY <2>2, <2>9
  <2>12. cmds \cap (1..readTo) = commands /\ pres \cap (1..readTo) = prefixes
    <3>1. \A k \in 1..readTo : k \in 1..i
      BY <2>7
    <3> QED BY <2>6, <2>9, <3>1
  <2>13. ASSUME ~sends
         PROVE  Numbers(acc.sent) = ((readTo + 1)..j) \ (cmds \cup pres)
    <3>1. j \in cmds \cup pres
      BY <2>7, <2>9, <2>13
    <3>2. \A k \in (readTo + 1)..i : k \in 1..i /\ k \in (readTo + 1)..j
      BY <2>7
    <3>3. \A k \in (readTo + 1)..j : k = j \/ k \in (readTo + 1)..i
      BY <2>7
    <3> HIDE DEF j
    <3> QED BY <2>6, <2>9, <3>1, <3>2, <3>3
  <2>14. ASSUME sends
         PROVE  /\ Append(acc.sent, <<"key", j>>) \in Seq(AKey)
                /\ Ordered(Append(acc.sent, <<"key", j>>))
                /\ Numbers(Append(acc.sent, <<"key", j>>)) = ((readTo + 1)..j) \ (cmds \cup pres)
    <3>1. j \notin cmds /\ j \notin pres /\ j \in (readTo + 1)..j
      BY <2>7, <2>9, <2>14
    <3>2. \A k \in (readTo + 1)..i : k \in 1..i /\ k \in (readTo + 1)..j
      BY <2>7
    <3>3. \A k \in (readTo + 1)..j : k = j \/ k \in (readTo + 1)..i
      BY <2>7
    <3>4. Numbers(acc.sent) \subseteq 1..i
      BY <2>6, <3>2
    <3>5. /\ Append(acc.sent, <<"key", j>>) \in Seq(AKey)
          /\ Ordered(Append(acc.sent, <<"key", j>>))
          /\ Numbers(Append(acc.sent, <<"key", j>>)) = Numbers(acc.sent) \cup {j}
      BY <2>1, <2>6, <3>4, OneMoreSent
    <3>6. Numbers(acc.sent) \cup {j} = ((readTo + 1)..j) \ (cmds \cup pres)
      <4> HIDE DEF j
      <4> QED BY <2>6, <2>9, <3>1, <3>2, <3>3
    <3> QED BY <3>5, <3>6
  <2> HIDE DEF j, key, r, sends
  <2>15. CASE Push(r, key) = Remote
    <3> DEFINE sent == Append(acc.sent, <<"key", j>>)
    <3>1. sent \in Seq(AKey) /\ Ordered(sent) /\ Numbers(sent) = ((readTo + 1)..j) \ (cmds \cup pres)
      BY <2>2, <2>14, <2>15
    <3>2. a = RouteAcc(Pushed(r, key), t, sent, FALSE, cmds, pres)
      BY <2>5, <2>15 DEF Remote, Disconnect
    <3> HIDE DEF sent
    <3>3. a \in Accs
      BY <2>s, <2>2, <2>3, <3>1, <3>2 DEF Accs, RouteAcc
    <3> QED BY <2>10, <2>11, <2>12, <3>1, <3>2, <3>3 DEF Good, a, j, RouteAcc
  <2>16. CASE Push(r, key) # Remote
    <3>1. PICK gone \in BOOLEAN : gone = (Push(r, key) = Disconnect)
      OBVIOUS
    <3>2. a = RouteAcc(Pushed(r, key), t, acc.sent, gone, cmds, pres)
      BY <2>5, <2>16, <3>1
    <3>3. a \in Accs
      BY <2>1, <2>s, <2>2, <2>3, <3>2 DEF Accs, RouteAcc
    <3>4. Numbers(acc.sent) = ((readTo + 1)..j) \ (cmds \cup pres)
      BY <2>2, <2>13, <2>16
    <3> QED BY <2>6, <2>10, <2>11, <2>12, <3>2, <3>3, <3>4 DEF Good, a, j, RouteAcc
  <2> QED BY <2>15, <2>16
<1> QED BY <1>1, <1>2

LEMMA RouteStays ==
  ASSUME NEW acc \in Accs, NEW i \in Nat
  PROVE  Route(acc, i) \in Accs
<1> DEFINE key == typed[i].key
           r   == acc.router
           act == Push(r, key)
<1>1. r \in Routers /\ acc.status \in Statuses
  BY DEF Accs
<1>2. PICK q \in Routers : q = Pushed(r, key)
  <2> HIDE DEF key, r
  <2> QED BY <1>1, RouterIs
<1>3. act \in {Remote, Disconnect, ForceRedraw, UnknownCommand} \cup Statuses
  <2> HIDE DEF key, r
  <2> QED BY <1>1, RouterIs DEF act
<1>4. PICK t : t = CASE act \in {Remote, Disconnect} -> acc.status
                     [] act \in {ForceRedraw, UnknownCommand} -> Connected
                     [] OTHER -> act
  OBVIOUS
<1>5. t \in Statuses
  <2> HIDE DEF act, r
  <2>1. CASE act \in {Remote, Disconnect}
    BY <1>1, <1>4, <2>1 DEF Remote, Disconnect, ForceRedraw, UnknownCommand
  <2>2. CASE act \in {ForceRedraw, UnknownCommand}
    BY <1>4, <2>2 DEF Remote, Disconnect, ForceRedraw, UnknownCommand, Statuses
  <2>3. CASE act \notin {Remote, Disconnect, ForceRedraw, UnknownCommand}
    BY <1>3, <1>4, <2>3
  <2> QED BY <2>1, <2>2, <2>3
<1>6. PICK s \in Seq(AKey) : s = IF act = Remote THEN Append(acc.sent, <<"key", i>>) ELSE acc.sent
  <2>1. acc.sent \in Seq(AKey) /\ <<"key", i>> \in AKey
    BY DEF Accs, AKey
  <2>2. Append(acc.sent, <<"key", i>>) \in Seq(AKey)
    BY <2>1, AppendProperties
  <2> QED BY <2>1, <2>2
<1>7. PICK g \in BOOLEAN : g = (act = Disconnect)
  OBVIOUS
<1>8. PICK c \in SUBSET Nat : c = IF r.mode = "command" /\ key # LOCAL_ESCAPE
                                  THEN acc.commands \cup {i} ELSE acc.commands
  BY DEF Accs
<1>9. PICK p \in SUBSET Nat : p = IF r.mode = "forward" /\ key = LOCAL_ESCAPE
                                  THEN acc.prefixes \cup {i} ELSE acc.prefixes
  BY DEF Accs
<1>10. Route(acc, i) = acc \/ Route(acc, i) = RouteAcc(q, t, s, g, c, p)
  BY <1>2, <1>4, <1>6, <1>7, <1>8, <1>9 DEF Route, RouteAcc
<1>11. RouteAcc(q, t, s, g, c, p) \in Accs
  BY <1>5 DEF RouteAcc, Accs
<1> QED BY <1>10, <1>11

LEMMA RoutedIs ==
  ASSUME KeyType, NEW last \in readTo..Len(typed)
  PROVE  \E g : Routing(last, g) /\ Routed(last) = g[last - readTo]
<1> DEFINE n    == last - readTo
           step == [k \in 1..n |-> [x \in Accs |-> Route(x, readTo + k)]]
           f    == CHOOSE g : Routing(last, g)
<1>1. readTo \in Nat /\ n \in Nat
  BY LenProperties DEF KeyType
<1>2. AtFirst \in Accs
  BY DEF KeyType, AtFirst, Accs
<1>3. step \in [1..n -> [Accs -> Accs]]
  BY <1>1, RouteStays
<1>4. PICK g \in [0..n -> Accs] : Recurs(n, AtFirst, step, g)
  <2> HIDE DEF n, step
  <2> QED BY <1>1, <1>2, <1>3, RecursionExists
<1>5. Routing(last, g)
  <2>1. ASSUME NEW i \in 0..n
        PROVE  g[i] = IF i = 0 THEN AtFirst ELSE Route(g[i - 1], readTo + i)
    <3>1. g[i] = IF i = 0 THEN AtFirst ELSE step[i][g[i - 1]]
      <4> HIDE DEF n, step
      <4> QED BY <1>4 DEF Recurs
    <3>2. i # 0 => i \in 1..n /\ i - 1 \in 0..n
      BY <1>1
    <3>3. i # 0 => g[i - 1] \in Accs
      BY <1>4, <3>2
    <3> QED BY <3>1, <3>2, <3>3
  <2>2. g = [i \in 0..n |-> g[i]]
    BY <1>4
  <2> HIDE DEF step
  <2> QED BY <2>1, <2>2 DEF Routing
<1>6. Routing(last, f)
  BY <1>5
<1>7. Routed(last) = f[n]
  BY Zenon DEF Routed, Routing, AtFirst
<1> QED BY <1>6, <1>7

\* A read's keys; only the first of them may be late, and no prefix waits for that one.
LEMMA RouteAll ==
  ASSUME KeyType, Accounts, LateKeys, LocalControls, pc = "stdin", revents.stdin,
         NEW last \in (readTo + 1)..Len(typed)
  PROVE  Good(Routed(last), last)
<1> DEFINE n == last - readTo
<1>1. readTo \in Nat /\ n \in Nat /\ Len(typed) \in Nat /\ last \in readTo..Len(typed) /\ readTo + n = last
  BY LenProperties DEF KeyType
<1>2. PICK g : Routing(last, g) /\ Routed(last) = g[n]
  BY <1>1, RoutedIs
<1>3. g[0] = AtFirst /\ \A k \in 1..n : g[k] = Route(g[k - 1], readTo + k)
  <2>1. 0 \in 0..n /\ \A k \in 1..n : k \in 0..n /\ k # 0
    BY <1>1
  <2> QED BY <1>2, <2>1 DEF Routing
<1> DEFINE G == {k \in 0..n : Good(g[k], readTo + k)}
<1>4. Good(AtFirst, readTo)
  <2>1. AtFirst \in Accs
    BY DEF KeyType, AtFirst, Accs
  <2>2. Len(<<>>) = 0 /\ DOMAIN <<>> = {}
    BY EmptySeq
  <2>3. Ordered(<<>>) /\ Numbers(<<>>) = {}
    BY <2>2 DEF Ordered, Numbers
  <2>4. (readTo + 1)..readTo = {}
    BY <1>1
  <2>5. commands \subseteq 1..readTo /\ prefixes \subseteq 1..readTo
    BY DEF Accounts, Dealt
  <2> QED BY <2>1, <2>3, <2>4, <2>5 DEF Good, AtFirst, Accounts
<1>5. 0 \in G
  <2>1. readTo + 0 = readTo /\ 0 \in 0..n
    BY <1>1
  <2> QED BY <1>3, <1>4, <2>1
<1>6. ASSUME NEW k \in 1..n, k - 1 \in G
      PROVE  k \in G
  <2> DEFINE i == readTo + (k - 1)
  <2>1. i \in Nat /\ i >= readTo /\ i + 1 = readTo + k /\ i + 1 <= Len(typed) /\ k \in 0..n
    BY <1>1
  <2>2. Good(g[k - 1], i)
    BY <1>6
  <2>3. g[k - 1].router.mode = "command" => ~typed[i + 1].late
    <3>1. CASE k = 1
      <4>1. g[k - 1] = AtFirst /\ i + 1 = readTo + 1 /\ readTo < Len(typed)
        BY <1>1, <1>3, <3>1
      <4>2. AtFirst.router.mode = router.mode
        BY DEF AtFirst
      <4>3. NextIsLate => router.mode = "forward"
        BY DEF LateKeys
      <4>4. typed[i + 1].late = typed[readTo + 1].late
        BY <4>1
      <4> HIDE DEF i
      <4> QED BY <4>1, <4>2, <4>3, <4>4 DEF NextIsLate
    <3>2. CASE k # 1
      <4>1. i + 1 \in (readTo + 2)..Len(typed)
        BY <1>1, <2>1, <3>2
      <4> HIDE DEF i
      <4> QED BY <4>1 DEF LateKeys
    <3> QED BY <3>1, <3>2
  <2>4. Good(Route(g[k - 1], i + 1), i + 1)
    <3> HIDE DEF i
    <3> QED BY <2>1, <2>2, <2>3, RouteOne
  <2>5. Route(g[k - 1], i + 1) = g[k]
    BY <1>3, <2>1
  <2> HIDE DEF i
  <2> QED BY <2>1, <2>4, <2>5
<1> HIDE DEF G
<1>7. \A k \in 0..n : k \in G
  <2> HIDE DEF n
  <2> QED BY <1>1, <1>5, <1>6, BoundedInduction
<1>8. n \in G
  BY <1>1, <1>7
<1> QED BY <1>1, <1>2, <1>8 DEF G

-----------------------------------------------------------------------------
(* The invariant, an action at a time. *)

\* Nothing happens to a key, and no read begins.
LEMMA KeysLeftAlone ==
  ASSUME KeyInv, UNCHANGED <<scenario, typed, ended, readTo, router, upstream, commands, prefixes>>,
         winsize' \in Sizes, status' \in Statuses, revents' \in Readiness,
         pc # "done" \/ pc' = "done", pc' # "stdin" \/ UNCHANGED <<pc, revents>>
  PROVE  KeyInv'
<1>1. KeyType'
  BY DEF KeyInv, KeyType
<1>2. (Accounts /\ LateKeys) => (Accounts /\ LateKeys)'
  BY DEF Accounts, LateKeys, Dealt, NextIsLate, LocalControls, ForwardInput, mode, KeysSent
<1> QED BY <1>1, <1>2 DEF KeyInv

\* Something other than a key is sent, or nothing.
LEMMA KeysStillSent ==
  ASSUME KeyInv, NEW s, s = <<>> \/ \E x \in Items \ AKey : s = <<x>>, upstream' = upstream \o s,
         UNCHANGED <<scenario, typed, ended, readTo, router, winsize, status, commands, prefixes, revents>>,
         pc # "done", pc' # "stdin"
  PROVE  KeyInv'
<1>1. upstream' \in Seq(Items) /\ KeysSent' = KeysSent
  BY SendingSize DEF KeyInv, KeyType, KeysSent, AKey
<1>2. KeyType'
  BY <1>1 DEF KeyInv, KeyType
<1>3. (Accounts /\ LateKeys)'
  BY <1>1 DEF KeyInv, Accounts, LateKeys, Dealt, NextIsLate, LocalControls, ForwardInput, mode
<1> QED BY <1>2, <1>3 DEF KeyInv

LEMMA InitKeys ==
  ASSUME Init
  PROVE  KeyInv
<1>1. scenario \in Scenarios /\ winsize \in Sizes
  BY JoinAssumption DEF Init
<1>2. typed = <<>> /\ Len(typed) = 0 /\ typed \in Seq([key : Keys, late : BOOLEAN]) /\ readTo = 0
  BY EmptySeq DEF Init
<1>3. router \in Routers /\ router.mode = "forward" /\ status \in Statuses
  BY DEF Init, NewRouter, Routers, Statuses
<1>4. upstream \in Seq(Items) /\ KeysSent = <<>>
  <2> DEFINE hello == <<"hello", VERSION>>
             size  == IF ReportsSize THEN <<<<"resize", winsize>>>> ELSE <<>>
  <2>1. hello \in Items \ AKey
    BY DEF Items, AKey
  <2>2. <<"resize", winsize>> \in Items \ AKey
    BY <1>1 DEF Items, AKey
  <2>3. upstream = <<hello>> \o size
    BY DEF Init
  <2> HIDE DEF hello
  <2>4. <<>> \in Seq(Items) /\ <<hello>> \in Seq(Items)
    BY <2>1, EmptySeq
  <2>5. <<>> \o <<hello>> = <<hello>>
    BY <2>4, ConcatEmptySeq
  <2>6. Only(<<hello>>, AKey) = <<>>
    <3>1. Only(<<>> \o <<hello>>, AKey) = Only(<<>>, AKey)
      BY <2>1, <2>4, SendingSize
    <3> QED BY <2>5, <3>1, OnlyOfNothing
  <2>7. size = <<>> \/ \E x \in Items \ AKey : size = <<x>>
    BY <2>2
  <2> HIDE DEF size
  <2>8. <<hello>> \o size \in Seq(Items) /\ Only(<<hello>> \o size, AKey) = Only(<<hello>>, AKey)
    BY <2>4, <2>7, SendingSize
  <2> QED BY <2>3, <2>6, <2>8 DEF KeysSent, AKey
<1>5. commands = {} /\ prefixes = {} /\ pc = "top" /\ revents \in Readiness
  BY DEF Init, Quiet, Readiness
<1>6. KeyType
  BY <1>1, <1>2, <1>3, <1>4, <1>5 DEF KeyType
<1>7. Ordered(<<>>) /\ Numbers(<<>>) = {}
  <2>1. Len(<<>>) = 0 /\ DOMAIN <<>> = {}
    BY EmptySeq
  <2> QED BY <2>1 DEF Ordered, Numbers
<1>8. Accounts
  <2>1. Dealt(commands, prefixes, readTo)
    BY <1>2, <1>5 DEF Dealt
  <2>2. 1..readTo = {}
    BY <1>2
  <2> QED BY <1>3, <1>4, <1>5, <1>7, <2>1, <2>2 DEF Accounts
<1>9. LateKeys
  BY <1>2, <1>5 DEF LateKeys, NextIsLate
<1> QED BY <1>6, <1>8, <1>9 DEF KeyInv

LEMMA PressKeys ==
  ASSUME KeyInv, Press
  PROVE  KeyInv'
<1>1. /\ UNCHANGED <<scenario, ended, readTo, router, winsize, status, upstream, commands, prefixes, pc, revents>>
      /\ ~ended
  BY DEF Press, hostVars, keyVars
<1>2. PICK key \in Keys : typed' = Append(typed, [key |-> key, late |-> router.expired /\ readTo = Len(typed)])
  BY DEF Press
<1>3. PICK late \in BOOLEAN : late = (router.expired /\ readTo = Len(typed))
  OBVIOUS
<1>4. [key |-> key, late |-> late] \in [key : Keys, late : BOOLEAN]
  OBVIOUS
<1>5. KeyType /\ readTo \in Nat /\ Len(typed) \in Nat /\ readTo <= Len(typed)
  BY LenProperties DEF KeyInv, KeyType
<1>6. /\ typed' \in Seq([key : Keys, late : BOOLEAN]) /\ Len(typed') = Len(typed) + 1
      /\ typed'[Len(typed) + 1].late = late
      /\ \A i \in 1..Len(typed) : typed'[i] = typed[i]
  BY <1>2, <1>3, <1>4, <1>5, AppendProperties DEF KeyType
<1>7. KeyType'
  BY <1>1, <1>5, <1>6 DEF KeyType
<1>8. ASSUME pc # "done"
      PROVE  Accounts' /\ LateKeys'
  <2>1. Accounts /\ LateKeys
    BY <1>8 DEF KeyInv
  <2>2. Dealt(commands, prefixes, readTo)'
    <3>1. \A i \in 1..readTo : typed'[i] = typed[i]
      BY <1>5, <1>6
    <3>2. Dealt(commands, prefixes, readTo)
      BY <2>1 DEF Accounts
    <3> QED BY <1>1, <3>1, <3>2 DEF Dealt, LocalControls, mode
  <2>3. Accounts'
    BY <1>1, <2>1, <2>2 DEF Accounts, ForwardInput, mode, KeysSent
  <2>4. ASSUME NEW j \in (readTo + 2)..(Len(typed) + 1) PROVE ~typed'[j].late
    <3>1. CASE j = Len(typed) + 1
      <4>1. readTo # Len(typed)
        BY <1>5, <3>1
      <4>2. ~late
        BY <1>3, <4>1
      <4>3. typed'[j].late = late
        BY <1>6, <3>1
      <4> QED BY <4>2, <4>3
    <3>2. CASE j # Len(typed) + 1
      <4>1. j \in (readTo + 2)..Len(typed) /\ j \in 1..Len(typed)
        BY <1>5, <3>2
      <4> QED BY <1>6, <2>1, <4>1 DEF LateKeys
    <3> QED BY <3>1, <3>2
  <2>5. CASE readTo = Len(typed)
    <3>1. NextIsLate' => router'.expired
      BY <1>1, <1>3, <1>6, <2>5 DEF NextIsLate
    <3>2. ~(pc = "stdin" /\ revents.stdin)
      BY <1>1, <1>5, <2>1, <2>5 DEF LateKeys
    <3> QED BY <1>1, <1>6, <2>3, <2>4, <3>1, <3>2 DEF LateKeys
  <2>6. CASE readTo # Len(typed)
    <3>1. readTo + 1 \in 1..Len(typed) /\ readTo < Len(typed) /\ readTo < Len(typed) + 1
      BY <1>5, <2>6
    <3>2. NextIsLate' <=> NextIsLate
      BY <1>1, <1>6, <3>1 DEF NextIsLate
    <3> QED BY <1>1, <1>6, <2>1, <2>3, <2>4, <3>1, <3>2 DEF LateKeys
  <2> QED BY <2>5, <2>6
<1> QED BY <1>1, <1>7, <1>8 DEF KeyInv

\* The clock is looked at before a key is read.
LEMMA TickKeys ==
  ASSUME KeyInv, Poll \/ PollEarly
  PROVE  KeyInv'
<1>1. /\ UNCHANGED <<scenario, typed, ended, readTo, winsize, upstream, commands, prefixes>>
      /\ pc = "poll" /\ pc' = "stdin"
  BY DEF Poll, PollEarly, hostVars, ttyVars, keyVars
<1>2. KeyType /\ Accounts /\ LateKeys
  BY <1>1 DEF KeyInv
<1>3. \/ LocalControls /\ TimedOut(router) /\ router' = NewRouter /\ status' = Connected
      \/ ~(LocalControls /\ TimedOut(router)) /\ UNCHANGED <<router, status>>
  BY DEF Poll, PollEarly, Tick
<1>4. NewRouter \in Routers /\ NewRouter.mode = "forward" /\ Connected \in Statuses
  BY DEF NewRouter, Routers, Statuses
<1>5. revents' \in Readiness /\ (revents'.stdin => readTo < Len(typed) \/ ended)
  <2>1. CASE Poll
    <3>1. PICK a \in BOOLEAN : a = StdinReady
      BY DEF StdinReady
    <3>2. PICK b \in BOOLEAN : b = StreamReady
      BY DEF StreamReady
    <3>3. PICK c \in BOOLEAN : c = (conn = "reset")
      OBVIOUS
    <3>4. revents' = [stdin |-> a, stream |-> b, error |-> c]
      BY <2>1, <3>1, <3>2, <3>3 DEF Poll
    <3> QED BY <3>1, <3>4 DEF StdinReady, Readiness
  <2>2. CASE PollEarly
    BY <2>2 DEF PollEarly, Quiet, Readiness
  <2> QED BY <2>1, <2>2
<1>6. router' \in Routers /\ status' \in Statuses
  BY <1>2, <1>3, <1>4 DEF KeyType
<1>7. KeyType'
  BY <1>1, <1>2, <1>5, <1>6 DEF KeyType
<1>8. router'.mode = "command" => router.mode = "command" /\ router' = router
  BY <1>3, <1>4
<1>9. Accounts'
  BY <1>1, <1>2, <1>8 DEF Accounts, Dealt, LocalControls, ForwardInput, mode, KeysSent
<1>10. router.mode = "command" => LocalControls
  BY <1>2 DEF Accounts, Dealt
<1>11. router.mode \in {"forward", "command"}
  BY <1>2 DEF KeyType, Routers
<1>12. NextIsLate => router'.mode = "forward"
  BY <1>2, <1>3, <1>4, <1>10, <1>11 DEF LateKeys, TimedOut
<1>13. LateKeys'
  BY <1>1, <1>2, <1>5, <1>12 DEF LateKeys, NextIsLate
<1> QED BY <1>7, <1>9, <1>13 DEF KeyInv

\* A read: every key of it is taken or sent, and what was dealt with stays so.
LEMMA ReadKeys ==
  ASSUME KeyInv, ReadStdin
  PROVE  KeyInv'
<1>1. /\ UNCHANGED <<scenario, typed, ended, winsize, revents>>
      /\ pc = "stdin" /\ revents.stdin /\ readTo < Len(typed)
  BY DEF ReadStdin, ttyVars
<1>2. KeyType /\ Accounts /\ LateKeys
  BY <1>1 DEF KeyInv
<1>3. readTo \in Nat /\ Len(typed) \in Nat
  BY <1>2, LenProperties DEF KeyType
<1>4. PICK last \in (readTo + 1)..Min({Len(typed), readTo + MaxRead}) :
         /\ readTo' = last
         /\ IF LocalControls THEN RouteInput(last) ELSE PassInput(last)
  BY DEF ReadStdin
<1>5. last \in (readTo + 1)..Len(typed)
  <2>1. MaxRead \in Nat /\ {Len(typed), readTo + MaxRead} \in SUBSET Nat /\ {Len(typed), readTo + MaxRead} # {}
    BY <1>3, JoinAssumption
  <2>2. Min({Len(typed), readTo + MaxRead}) <= Len(typed) /\ Min({Len(typed), readTo + MaxRead}) \in Nat
    BY <2>1, MinIsLeast
  <2> QED BY <1>3, <1>4, <2>2
<1>6. readTo' \in 0..Len(typed) /\ readTo' = last /\ last \in Nat /\ last > readTo
  BY <1>3, <1>4, <1>5
<1>7. pc' # "stdin" => LateKeys'
  <2>1. \A j \in (last + 1)..Len(typed) : j \in (readTo + 2)..Len(typed)
    BY <1>3, <1>6
  <2>2. \A j \in (last + 1)..Len(typed) : ~typed[j].late
    BY <1>2, <2>1 DEF LateKeys
  <2>3. last < Len(typed) => last + 1 \in (last + 1)..Len(typed)
    BY <1>3, <1>6
  <2>4. \A j \in (last + 2)..Len(typed) : j \in (last + 1)..Len(typed)
    BY <1>3, <1>6
  <2> QED BY <1>1, <1>6, <2>2, <2>3, <2>4 DEF LateKeys, NextIsLate
<1>8. Dealt(commands, prefixes, readTo)' <=> Dealt(commands', prefixes', last)
  BY <1>1, <1>6 DEF Dealt, LocalControls, mode
<1>9. Dealt(commands, prefixes, readTo) /\ KeysSent \in Seq(AKey) /\ upstream \in Seq(Items)
  BY <1>2, OnlyIsSeq DEF Accounts, KeyType, KeysSent, AKey
<1>10. CASE LocalControls
  <2> DEFINE end  == Routed(last)
             keys == Flushed(end.sent)
  <2>1. Good(end, last)
    BY <1>1, <1>2, <1>5, <1>10, RouteAll
  <2>2. /\ router' = end.router /\ status' = end.status
        /\ commands' = end.commands /\ prefixes' = end.prefixes
        /\ \/ Unsendable(keys) /\ Done("write failed") /\ UNCHANGED <<upstream, conn>>
           \/ Sent(keys) /\ end.gone /\ Done("ok")
           \/ Sent(keys) /\ ~end.gone /\ pc' = "stream"
    BY <1>4, <1>10 DEF RouteInput
  <2>3. end \in Accs
    BY <2>1 DEF Good
  <2> HIDE DEF end
  <2>4. end.sent \in Seq(AKey) /\ keys \in Seq(AKey) /\ router' \in Routers /\ status' \in Statuses
        /\ commands' \in SUBSET Nat /\ prefixes' \in SUBSET Nat
    <3>1. <<>> \in Seq(AKey)
      BY EmptySeq
    <3> QED BY <2>2, <2>3, <3>1 DEF Accs, Flushed
  <2>5. upstream \o keys \in Seq(Items) /\ Only(upstream \o keys, AKey) = Only(upstream, AKey) \o keys
    BY <1>9, <2>4, SendingKeys
  <2> HIDE DEF keys
  <2>6. upstream' \in Seq(Items)
    BY <1>9, <2>2, <2>5 DEF Sent
  <2>7. KeyType'
    BY <1>1, <1>2, <1>6, <2>4, <2>6 DEF KeyType
  <2>8. pc' # "stdin"
    BY <2>2 DEF Done
  <2>9. ASSUME pc' # "done"
        PROVE  Accounts'
    <3>1. ~end.gone /\ upstream' = upstream \o keys
      BY <2>2, <2>9 DEF Done, Sent
    <3>2. /\ Dealt(commands', prefixes', last)
          /\ router'.mode = "command" => last \in prefixes'
          /\ Ordered(end.sent)
          /\ Numbers(end.sent) = ((readTo + 1)..last) \ (commands' \cup prefixes')
          /\ commands' \cap (1..readTo) = commands
          /\ prefixes' \cap (1..readTo) = prefixes
      BY <2>1, <2>2, <3>1 DEF Good
    <3>3. KeysSent' = KeysSent \o keys
      BY <2>5, <3>1 DEF KeysSent, AKey
    <3>4. CASE ForwardInput
      <4>1. /\ keys = end.sent /\ Ordered(KeysSent)
            /\ Numbers(KeysSent) = (1..readTo) \ (commands \cup prefixes)
        BY <1>2, <3>4 DEF keys, Flushed, Accounts
      <4>2. Numbers(KeysSent) \subseteq 1..readTo /\ \A i \in Numbers(end.sent) : i > readTo
        BY <1>3, <3>2, <4>1
      <4>3. Ordered(KeysSent \o end.sent) /\ Numbers(KeysSent \o end.sent) = Numbers(KeysSent) \cup Numbers(end.sent)
        BY <1>3, <1>9, <2>4, <3>2, <4>1, <4>2, BothSent
      <4>4. Numbers(KeysSent) \cup Numbers(end.sent) = (1..last) \ (commands' \cup prefixes')
        <5>1. \A k \in 1..last : k \in 1..readTo \/ k \in (readTo + 1)..last
          BY <1>3, <1>6
        <5>2. \A k \in 1..readTo : k \in 1..last
          BY <1>3, <1>6
        <5>3. \A k \in (readTo + 1)..last : k \in 1..last
          BY <1>3, <1>6
        <5> QED BY <3>2, <4>1, <5>1, <5>2, <5>3
      <4>5. Ordered(KeysSent') /\ Numbers(KeysSent') = (1..last) \ (commands' \cup prefixes')
        BY <3>3, <4>1, <4>3, <4>4
      <4>6. ForwardInput'
        BY <1>1, <3>4 DEF ForwardInput, mode
      <4> QED BY <1>6, <1>8, <3>2, <4>5, <4>6 DEF Accounts, Ordered, Numbers
    <3>5. CASE ~ForwardInput
      <4>1. keys = <<>> /\ KeysSent = <<>>
        BY <1>2, <3>5 DEF keys, Flushed, Accounts
      <4>2. KeysSent' = <<>>
        BY <1>9, <3>3, <4>1, ConcatEmptySeq
      <4>3. Ordered(<<>>)
        <5>1. Len(<<>>) = 0
          BY EmptySeq
        <5> QED BY <5>1 DEF Ordered
      <4>4. ~ForwardInput'
        BY <1>1, <3>5 DEF ForwardInput, mode
      <4>5. Ordered(KeysSent')
        BY <4>2, <4>3
      <4> QED BY <1>6, <1>8, <3>2, <4>2, <4>4, <4>5 DEF Accounts, Ordered
    <3> QED BY <3>4, <3>5
  <2> QED BY <1>7, <2>7, <2>8, <2>9 DEF KeyInv
<1>11. CASE ~LocalControls
  <2> DEFINE n    == last - readTo
             all  == [k \in 1..n |-> <<"key", readTo + k>>]
             keys == Flushed(all)
  <2>1. /\ UNCHANGED <<router, status, commands, prefixes>>
        /\ \/ Unsendable(keys) /\ Done("write failed") /\ UNCHANGED <<upstream, conn>>
           \/ Sent(keys) /\ pc' = "stream"
    BY <1>4, <1>11 DEF PassInput
  <2>2. commands = {} /\ prefixes = {} /\ router.mode # "command"
    BY <1>2, <1>9, <1>11 DEF Dealt, Accounts
  <2>3. n \in Nat /\ readTo + n = last
    BY <1>3, <1>6
  <2>4. /\ all \in Seq(AKey) /\ Len(all) = n
        /\ \A k \in 1..n : all[k] = <<"key", readTo + k>> /\ all[k][2] = readTo + k
    <3>1. \A k \in 1..n : <<"key", readTo + k>> \in AKey
      BY <1>3, <2>3 DEF AKey
    <3> HIDE DEF n
    <3>2. all \in [1..n -> AKey]
      BY <3>1
    <3>3. all \in Seq(AKey)
      BY <2>3, <3>2, SeqDef
    <3>4. DOMAIN all = 1..n
      OBVIOUS
    <3> HIDE DEF all
    <3>5. Len(all) = n
      BY <2>3, <3>3, <3>4, LenProperties
    <3> QED BY <3>3, <3>5 DEF all
  <2> HIDE DEF n, all
  <2>5. Ordered(all)
    <3>1. ASSUME NEW k \in 1..(Len(all) - 1) PROVE all[k][2] < all[k + 1][2]
      <4>1. k \in 1..n /\ k + 1 \in 1..n
        BY <2>3, <2>4, <3>1
      <4> QED BY <1>3, <2>4, <4>1
    <3> QED BY <3>1 DEF Ordered
  <2>6. Numbers(all) = (readTo + 1)..last
    <3>1. DOMAIN all = 1..n
      BY <2>4, LenProperties
    <3>2. \A k \in 1..n : all[k][2] \in (readTo + 1)..last
      BY <1>3, <2>3, <2>4, SMTT(30)
    <3>3. ASSUME NEW i \in (readTo + 1)..last PROVE \E k \in 1..n : i = all[k][2]
      <4>1. i - readTo \in 1..n /\ readTo + (i - readTo) = i
        BY <1>3, <1>6, <2>3
      <4> QED BY <2>4, <4>1
    <3> QED BY <3>1, <3>2, <3>3 DEF Numbers
  <2>7. keys \in Seq(AKey)
    <3>1. <<>> \in Seq(AKey)
      BY EmptySeq
    <3> QED BY <2>4, <3>1 DEF Flushed
  <2>8. upstream \o keys \in Seq(Items) /\ Only(upstream \o keys, AKey) = Only(upstream, AKey) \o keys
    BY <1>9, <2>7, SendingKeys
  <2> HIDE DEF keys
  <2>9. KeyType'
    <3>1. upstream' \in Seq(Items)
      BY <1>9, <2>1, <2>8 DEF Sent
    <3> QED BY <1>1, <1>2, <1>6, <2>1, <3>1 DEF KeyType
  <2>10. pc' # "stdin"
    BY <2>1 DEF Done
  <2>11. Dealt(commands', prefixes', last)
    BY <1>11, <2>1, <2>2 DEF Dealt
  <2>12. ASSUME pc' # "done"
         PROVE  Accounts'
    <3>1. KeysSent' = KeysSent \o keys
      BY <2>1, <2>8, <2>12 DEF Done, Sent, KeysSent, AKey
    <3>2. CASE ForwardInput
      <4>1. keys = all /\ Ordered(KeysSent) /\ Numbers(KeysSent) = 1..readTo
        BY <1>2, <2>2, <3>2 DEF keys, Flushed, Accounts
      <4>2. \A i \in Numbers(all) : i > readTo
        BY <1>3, <2>6
      <4>3. Ordered(KeysSent \o all) /\ Numbers(KeysSent \o all) = Numbers(KeysSent) \cup Numbers(all)
        BY <1>3, <1>9, <2>4, <2>5, <4>1, <4>2, BothSent
      <4>4. (1..readTo) \cup ((readTo + 1)..last) = (1..last) \ (commands' \cup prefixes')
        <5>1. commands' \cup prefixes' = {}
          BY <2>1, <2>2
        <5>2. (1..readTo) \cup ((readTo + 1)..last) = 1..last
          BY <1>3, <1>6
        <5> QED BY <5>1, <5>2
      <4>5. Ordered(KeysSent') /\ Numbers(KeysSent') = (1..last) \ (commands' \cup prefixes')
        BY <2>6, <3>1, <4>1, <4>3, <4>4
      <4>6. ForwardInput'
        BY <1>1, <3>2 DEF ForwardInput, mode
      <4> QED BY <1>6, <1>8, <2>1, <2>2, <2>11, <4>5, <4>6 DEF Accounts, Ordered, Numbers
    <3>3. CASE ~ForwardInput
      <4>1. keys = <<>> /\ KeysSent = <<>> /\ Ordered(KeysSent)
        BY <1>2, <3>3 DEF keys, Flushed, Accounts
      <4>2. KeysSent' = <<>>
        BY <1>9, <3>1, <4>1, ConcatEmptySeq
      <4>3. ~ForwardInput'
        BY <1>1, <3>3 DEF ForwardInput, mode
      <4>4. Ordered(KeysSent')
        BY <4>1, <4>2
      <4> QED BY <1>6, <1>8, <2>1, <2>2, <2>11, <4>2, <4>3, <4>4 DEF Accounts, Ordered
    <3> QED BY <3>2, <3>3
  <2> QED BY <1>7, <2>9, <2>10, <2>12 DEF KeyInv
<1> QED BY <1>10, <1>11

LEMMA NextKeys ==
  ASSUME KeyInv, [Next]_vars
  PROVE  KeyInv'
<1> USE DEF hostVars, ttyVars, keyVars, streamVars
<1>0. pc # "done" => Accounts /\ LateKeys
  BY DEF KeyInv
<1>1. KeyType /\ status \in Statuses /\ revents \in Readiness /\ winsize \in Sizes
  BY DEF KeyInv, KeyType
<1>2. CASE UNCHANGED vars
  BY <1>1, <1>2, KeysLeftAlone DEF vars
<1>3. CASE Press
  BY <1>3, PressKeys
<1>4. CASE HangUp
  <2>1. /\ UNCHANGED <<scenario, typed, readTo, router, winsize, status, upstream, commands, prefixes, pc, revents>>
        /\ ended' = TRUE
    BY <1>4 DEF HangUp
  <2>2. KeyType'
    BY <1>1, <2>1 DEF KeyType
  <2>3. ASSUME pc # "done" PROVE Accounts' /\ LateKeys'
    BY <1>0, <2>1, <2>3 DEF Accounts, LateKeys, Dealt, NextIsLate, LocalControls, ForwardInput, mode, KeysSent
  <2> QED BY <2>1, <2>2, <2>3 DEF KeyInv
<1>5. CASE ChangeSize
  BY <1>1, <1>5, KeysLeftAlone DEF ChangeSize
<1>6. CASE Expire
  <2>1. /\ UNCHANGED <<scenario, typed, ended, readTo, winsize, status, upstream, commands, prefixes, pc, revents>>
        /\ router.mode = "command" /\ router' = [router EXCEPT !.expired = TRUE]
    BY <1>6 DEF Expire
  <2>2. router' \in Routers /\ router'.mode = "command" /\ router'.expired
    BY <1>1, <2>1 DEF KeyType, Routers
  <2>3. KeyType'
    BY <1>1, <2>1, <2>2 DEF KeyType
  <2>4. ASSUME pc # "done" PROVE Accounts' /\ LateKeys'
    BY <1>0, <2>1, <2>2, <2>4
       DEF Accounts, LateKeys, Dealt, NextIsLate, LocalControls, ForwardInput, mode, KeysSent
  <2> QED BY <2>1, <2>3, <2>4 DEF KeyInv
<1>7. CASE HostCloses
  BY <1>1, <1>7, KeysLeftAlone DEF HostCloses
<1>8. CASE Terminated
  BY <1>1, <1>8, KeysLeftAlone DEF Terminated, Done
<1>9. CASE SendResize
  <2>1. /\ UNCHANGED <<scenario, typed, ended, readTo, router, winsize, status, commands, prefixes, revents>>
        /\ pc = "top"
    BY <1>9 DEF SendResize
  <2>2. CASE Unsendable(ResizeIfChanged)
    BY <1>1, <1>9, <2>1, <2>2, KeysLeftAlone DEF SendResize, Done
  <2>3. CASE ~Unsendable(ResizeIfChanged)
    <3>1. upstream' = upstream \o ResizeIfChanged /\ pc' = "poll"
      BY <1>9, <2>3 DEF SendResize, Sent
    <3>2. <<"resize", winsize>> \in Items \ AKey
      BY <1>1 DEF Items, AKey
    <3>3. ResizeIfChanged = <<>> \/ \E x \in Items \ AKey : ResizeIfChanged = <<x>>
      BY <3>2 DEF ResizeIfChanged
    <3> HIDE DEF hostVars, ttyVars, keyVars, streamVars
    <3> QED BY <2>1, <3>1, <3>3, KeysStillSent
  <2> QED BY <2>2, <2>3
<1>10. CASE Poll \/ PollEarly
  BY <1>10, TickKeys
<1>11. CASE NothingToRead
  BY <1>1, <1>11, KeysLeftAlone DEF NothingToRead
<1>12. CASE StdinEnds
  BY <1>1, <1>12, KeysLeftAlone DEF StdinEnds
<1>13. CASE ReadStdin
  BY <1>13, ReadKeys
<1>14. CASE StreamIdle \/ ReadStream \/ StreamEnds
  BY <1>1, <1>14, KeysLeftAlone DEF StreamIdle, ReadStream, StreamEnds, Done
<1>15. CASE EmptyFrame \/ DataFrame \/ Unframed \/ OverlongControl \/ Control \/ WaitForMore
  <2>1. /\ UNCHANGED <<scenario, typed, ended, readTo, router, winsize, status, upstream, commands, prefixes, revents>>
        /\ pc = "decode"
    BY <1>15 DEF EmptyFrame, DataFrame, Unframed, OverlongControl, Control, WaitForMore, DecodeStep, Decoded
  <2>2. pc' \in {"decode", "done", "top"}
    <3>1. EmptyFrame \/ DataFrame \/ Unframed \/ OverlongControl => pc' \in {"decode", "done"}
      BY <2>1 DEF EmptyFrame, DataFrame, Unframed, OverlongControl, Show, Continues, Done
    <3>2. Control => pc' \in {"decode", "done"}
      BY <2>1 DEF Control, Show, Continues, Done
    <3>3. WaitForMore => pc' \in {"done", "top"}
      BY DEF WaitForMore, Done
    <3> QED BY <1>15, <3>1, <3>2, <3>3
  <2> QED BY <1>1, <2>1, <2>2, KeysLeftAlone
<1>16. CASE Ended
  BY <1>1, <1>16, KeysLeftAlone DEF Ended, vars
<1> QED
  BY <1>2, <1>3, <1>4, <1>5, <1>6, <1>7, <1>8, <1>9, <1>10, <1>11, <1>12, <1>13, <1>14, <1>15, <1>16
     DEF Next, User, Loop

LEMMA KeysFollow ==
  ASSUME KeyInv
  PROVE  KeysAccounted
<1> DEFINE sent == [k \in DOMAIN KeysSent |-> KeysSent[k][2]]
<1>1. SUFFICES ASSUME pc # "done"
               PROVE  /\ \A k \in 1..(Len(sent) - 1) : sent[k] < sent[k + 1]
                      /\ ForwardInput => Range(sent) \cup commands \cup prefixes = 1..readTo
                      /\ ~ForwardInput => sent = <<>>
                      /\ Range(sent) \cap (commands \cup prefixes) = {} /\ commands \cap prefixes = {}
                      /\ \A i \in commands : i - 1 \in prefixes /\ typed[i].key # LOCAL_ESCAPE /\ ~typed[i].late
                      /\ \A i \in prefixes : typed[i].key = LOCAL_ESCAPE
                      /\ LocalControls => \A i \in Range(sent) : typed[i].key = LOCAL_ESCAPE => i - 1 \in prefixes
  BY DEF KeysAccounted
<1>2. Accounts /\ KeyType /\ Dealt(commands, prefixes, readTo)
  BY <1>1 DEF KeyInv, Accounts
<1>3. KeysSent \in Seq(AKey)
  BY <1>2, OnlyIsSeq DEF KeyType, KeysSent, AKey
<1>4. Len(KeysSent) \in Nat /\ DOMAIN KeysSent = 1..Len(KeysSent)
  BY <1>3, LenProperties
<1> DEFINE n == Len(KeysSent)
<1>5. \A k \in 1..n : KeysSent[k][2] \in Nat
  <2>1. \A k \in 1..n : KeysSent[k] \in AKey
    BY <1>3, ElementOfSeq
  <2> QED BY <2>1 DEF AKey
<1>6. sent \in Seq(Nat) /\ Len(sent) = n /\ \A k \in 1..n : sent[k] = KeysSent[k][2]
  <2>1. sent \in [1..n -> Nat]
    BY <1>4, <1>5
  <2>2. DOMAIN sent = 1..n /\ \A k \in 1..n : sent[k] = KeysSent[k][2]
    BY <1>4
  <2> HIDE DEF sent
  <2>3. sent \in Seq(Nat)
    BY <1>4, <2>1, SeqDef
  <2>4. Len(sent) = n
    BY <1>4, <2>2, <2>3, LenProperties
  <2> QED BY <2>2, <2>3, <2>4
<1>7. Range(sent) = Numbers(KeysSent)
  BY <1>4 DEF Range, Numbers
<1> HIDE DEF sent
<1>8. \A k \in 1..(Len(sent) - 1) : sent[k] < sent[k + 1]
  <2>1. \A k \in 1..(n - 1) : k \in 1..n /\ k + 1 \in 1..n
    BY <1>4
  <2> QED BY <1>2, <1>6, <2>1 DEF Accounts, Ordered
<1>9. commands \subseteq 1..readTo /\ prefixes \subseteq 1..readTo
  BY <1>2 DEF Dealt
<1>10. ForwardInput => Range(sent) = (1..readTo) \ (commands \cup prefixes)
  BY <1>2, <1>7 DEF Accounts
<1>11. ~ForwardInput => sent = <<>> /\ Range(sent) = {}
  <2>1. ~ForwardInput => n = 0
    BY <1>2, EmptySeq DEF Accounts
  <2>2. ~ForwardInput => sent = <<>>
    BY <1>6, <2>1, EmptySeq
  <2>3. n = 0 => Numbers(KeysSent) = {}
    BY <1>4 DEF Numbers
  <2> QED BY <1>7, <2>1, <2>2, <2>3
<1>12. Range(sent) \subseteq (1..readTo) \ (commands \cup prefixes)
  BY <1>10, <1>11
<1> QED BY <1>2, <1>8, <1>9, <1>10, <1>11, <1>12 DEF Dealt

\* Of every terminal that joins, for any keys and sizes, any number of keys in a
\* read and any moment at which a prefix times out: what becomes of each key.
THEOREM KeysAccountedFor == Spec => []KeysAccounted
<1>1. Init => KeyInv
  BY InitKeys
<1>2. KeyInv /\ [Next]_vars => KeyInv'
  BY NextKeys
<1>3. KeyInv => KeysAccounted
  BY KeysFollow
<1> QED BY <1>1, <1>2, <1>3, PTL DEF Spec

-----------------------------------------------------------------------------
(* What is shown.  The host's bytes and what is seen of them, piece by piece. *)

Bytes == STRING \cup {"ESC", "P", "room;", "\\", "hello", "size", "data"} \cup Number
Marks == Bytes \cup {Resized(v) : v \in Number}

LEMMA Words ==
  /\ PREFIX \in Seq(Bytes) /\ Len(PREFIX) = 3
  /\ PREFIX[1] = "ESC" /\ PREFIX[2] = "P" /\ PREFIX[3] = "room;"
  /\ SUFFIX \in Seq(Bytes) /\ Len(SUFFIX) = 2 /\ SUFFIX[1] = "ESC" /\ SUFFIX[2] = "\\"
  /\ PREFIX # <<>> /\ SUFFIX # <<>>
<1>1. ASSUME NEW x \in Bytes, NEW y \in Bytes
      PROVE  <<x, y>> \in Seq(Bytes)
  OBVIOUS
<1>2. ASSUME NEW x \in Bytes, NEW y \in Bytes, NEW z \in Bytes
      PROVE  <<x, y, z>> \in Seq(Bytes)
  OBVIOUS
<1>3. {"ESC", "P", "room;", "\\"} \subseteq Bytes
  BY DEF Bytes
<1>4. PREFIX \in Seq(Bytes) /\ SUFFIX \in Seq(Bytes)
  BY <1>1, <1>2, <1>3 DEF PREFIX, SUFFIX
<1>5. Len(PREFIX) = 3 /\ Len(SUFFIX) = 2 /\ PREFIX # <<>> /\ SUFFIX # <<>>
  BY DEF PREFIX, SUFFIX
<1>6. PREFIX[1] = "ESC" /\ PREFIX[2] = "P" /\ PREFIX[3] = "room;"
  BY DEF PREFIX
<1>7. SUFFIX[1] = "ESC" /\ SUFFIX[2] = "\\"
  BY DEF SUFFIX
<1> QED BY <1>4, <1>5, <1>6, <1>7

\* A control, and the bytes it announces.
Framed(s, kind, field, data) ==
  /\ s[1] = "ESC" /\ s[2] = "P" /\ s[3] = "room;" /\ s[4] = kind /\ s[5] = field
  /\ s[6] = "ESC" /\ s[7] = "\\" /\ Len(s) = 7 + Len(data)
  /\ \A k \in 1..Len(data) : s[7 + k] = data[k]

BothAs(T, s, t, u) ==
  /\ u \in Seq(T) /\ Len(u) = Len(s) + Len(t)
  /\ \A k \in 1..Len(s) : u[k] = s[k]
  /\ \A k \in 1..Len(t) : u[Len(s) + k] = t[k]

LEMMA BothParts ==
  ASSUME NEW T, NEW s \in Seq(T), NEW t \in Seq(T)
  PROVE  BothAs(T, s, t, s \o t)
<1>1. /\ s \o t \in Seq(T) /\ Len(s \o t) = Len(s) + Len(t) /\ Len(s) \in Nat /\ Len(t) \in Nat
      /\ \A k \in 1..(Len(s) + Len(t)) : (s \o t)[k] = IF k <= Len(s) THEN s[k] ELSE t[k - Len(s)]
  BY ConcatProperties, LenProperties
<1>2. \A k \in 1..Len(s) : (s \o t)[k] = s[k]
  BY <1>1
<1>3. ASSUME NEW k \in 1..Len(t) PROVE (s \o t)[Len(s) + k] = t[k]
  <2>1. Len(s) + k \in 1..(Len(s) + Len(t)) /\ ~(Len(s) + k <= Len(s)) /\ (Len(s) + k) - Len(s) = k
    BY <1>1
  <2> QED BY <1>1, <2>1
<1> QED BY <1>1, <1>2, <1>3 DEF BothAs

\* A frame's bytes, and what it announces.
FourAs(p, f, x, d, c, s) ==
  /\ Len(c) = 7 /\ Len(s) = 7 + Len(d)
  /\ c[1] = p[1] /\ c[2] = p[2] /\ c[3] = p[3] /\ c[4] = f[1] /\ c[5] = f[2]
  /\ c[6] = x[1] /\ c[7] = x[2]
  /\ \A k \in 1..7 : s[k] = c[k]
  /\ \A k \in 1..Len(d) : s[7 + k] = d[k]

LEMMA FourParts ==
  ASSUME NEW T, NEW p, NEW f, NEW x, NEW d, NEW q, NEW c, NEW s,
         Len(p) = 3, Len(f) = 2, Len(x) = 2,
         BothAs(T, p, f, q), BothAs(T, q, x, c), BothAs(T, c, d, s)
  PROVE  FourAs(p, f, x, d, c, s)
<1>1. /\ Len(q) = 5 /\ q[1] = p[1] /\ q[2] = p[2] /\ q[3] = p[3]
      /\ q[4] = f[1] /\ q[5] = f[2]
  <2>1. 1 \in 1..3 /\ 2 \in 1..3 /\ 3 \in 1..3 /\ 1 \in 1..2 /\ 2 \in 1..2 /\ 3 + 2 = 5 /\ 3 + 1 = 4
    OBVIOUS
  <2> QED BY <2>1 DEF BothAs
<1>2. /\ Len(c) = 7 /\ \A k \in 1..5 : c[k] = q[k]
      /\ c[6] = x[1] /\ c[7] = x[2]
  <2>1. /\ 1 \in 1..2 /\ 2 \in 1..2 /\ 5 + 2 = 7 /\ 5 + 1 = 6
    OBVIOUS
  <2> QED BY <1>1, <2>1 DEF BothAs
<1>3. c[1] = p[1] /\ c[2] = p[2] /\ c[3] = p[3] /\ c[4] = f[1] /\ c[5] = f[2]
  <2>1. 1 \in 1..5 /\ 2 \in 1..5 /\ 3 \in 1..5 /\ 4 \in 1..5 /\ 5 \in 1..5
    OBVIOUS
  <2> QED BY <1>1, <1>2, <2>1
<1>4. /\ Len(s) = 7 + Len(d)
      /\ \A k \in 1..7 : s[k] = c[k]
      /\ \A k \in 1..Len(d) : s[7 + k] = d[k]
  BY <1>2 DEF BothAs
<1> QED BY <1>2, <1>3, <1>4 DEF FourAs

LEMMA FrameIs ==
  ASSUME NEW f \in Seq(Bytes), Len(f) = 2, NEW data \in Seq(Bytes)
  PROVE  /\ PREFIX \o f \o SUFFIX \in Seq(Bytes)
         /\ Framed(PREFIX \o f \o SUFFIX, f[1], f[2], <<>>)
         /\ PREFIX \o f \o SUFFIX \o data \in Seq(Bytes)
         /\ Framed(PREFIX \o f \o SUFFIX \o data, f[1], f[2], data)
<1>1. PICK q : q = PREFIX \o f
  OBVIOUS
<1>2. BothAs(Bytes, PREFIX, f, q)
  BY <1>1, Words, BothParts
<1>3. PICK c : c = q \o SUFFIX
  OBVIOUS
<1>4. BothAs(Bytes, q, SUFFIX, c)
  <2>1. q \in Seq(Bytes)
    BY <1>2 DEF BothAs
  <2> QED BY <1>3, <2>1, Words, BothParts
<1>5. c \in Seq(Bytes) /\ PREFIX \o f \o SUFFIX = c
  BY <1>1, <1>3, <1>4 DEF BothAs
<1>6. PICK s : s = c \o data
  OBVIOUS
<1>7. BothAs(Bytes, c, data, s)
  BY <1>5, <1>6, BothParts
<1>8. s \in Seq(Bytes) /\ PREFIX \o f \o SUFFIX \o data = s
  BY <1>5, <1>6, <1>7 DEF BothAs
<1>9. FourAs(PREFIX, f, SUFFIX, data, c, s)
  <2>1. Len(PREFIX) = 3 /\ Len(SUFFIX) = 2
    BY Words
  <2> QED BY <1>2, <1>4, <1>7, <2>1, FourParts
<1>10. Framed(s, f[1], f[2], data)
  <2>1. 1 \in 1..7 /\ 2 \in 1..7 /\ 3 \in 1..7 /\ 4 \in 1..7 /\ 5 \in 1..7 /\ 6 \in 1..7 /\ 7 \in 1..7
    OBVIOUS
  <2> QED BY <1>9, <2>1, Words DEF Framed, FourAs
<1>11. Framed(c, f[1], f[2], <<>>)
  <2>1. PICK e : e = <<>>
    OBVIOUS
  <2>2. Len(e) = 0 /\ 7 + 0 = 7 /\ \A k \in 1..0 : FALSE
    BY <2>1, EmptySeq
  <2>3. Framed(c, f[1], f[2], e)
    BY <1>9, <2>2, Words DEF Framed, FourAs
  <2> QED BY <2>1, <2>3
<1> QED BY <1>5, <1>8, <1>10, <1>11

\* What a piece is in the stream, and on the screen.
PieceShape(piece) ==
  /\ Encoded(piece) \in Seq(Bytes) /\ Meaning(piece) \in Seq(Marks)
  /\ piece.kind \in {"hello", "size", "data", "raw"}
  /\ piece.kind = "raw" => Encoded(piece) = piece.value /\ Meaning(piece) = piece.value /\ Len(piece.value) > 0
  /\ piece.kind = "hello" =>
       Framed(Encoded(piece), "hello", piece.value, <<>>) /\ Meaning(piece) = <<>> /\ piece.value \in Number
  /\ piece.kind = "size" =>
       /\ Framed(Encoded(piece), "size", piece.value, <<>>) /\ piece.value \in Number \ {"0"}
       /\ Meaning(piece) = <<Resized(piece.value)>>
  /\ piece.kind = "data" =>
       /\ Framed(Encoded(piece), "data", Decimal[Len(piece.value)], piece.value)
       /\ Meaning(piece) = piece.value /\ Len(piece.value) \in 0..MaxData
       /\ piece.value \in Seq(Bytes)

LEMMA PieceIs ==
  ASSUME NEW piece, Sayable(piece)
  PROVE  PieceShape(piece)
<1>1. Bytes \subseteq Marks /\ STRING \subseteq Bytes /\ STRING \subseteq Marks /\ Number \subseteq Bytes
      /\ {"hello", "size", "data"} \subseteq Bytes
  BY DEF Bytes, Marks
<1>2. <<>> \in Seq(Bytes) /\ <<>> \in Seq(Marks) /\ Len(<<>>) = 0
  BY EmptySeq
<1>3. CASE piece.kind = "hello" /\ piece.value \in Number
  <2> DEFINE f == <<"hello", piece.value>>
  <2>1. f \in Seq(Bytes) /\ Len(f) = 2 /\ f[1] = "hello" /\ f[2] = piece.value
    BY <1>1, <1>3
  <2>2. Encoded(piece) = PREFIX \o f \o SUFFIX
    BY <1>3 DEF Encoded
  <2> HIDE DEF f
  <2>3. Encoded(piece) \in Seq(Bytes) /\ Framed(Encoded(piece), "hello", piece.value, <<>>)
    BY <1>2, <2>1, <2>2, FrameIs
  <2>4. Meaning(piece) = <<>>
    BY <1>3 DEF Meaning
  <2> QED BY <1>2, <1>3, <2>3, <2>4 DEF PieceShape
<1>4. CASE piece.kind = "size" /\ piece.value \in Number \ {"0"}
  <2> DEFINE f == <<"size", piece.value>>
  <2>1. f \in Seq(Bytes) /\ Len(f) = 2 /\ f[1] = "size" /\ f[2] = piece.value
    BY <1>1, <1>4
  <2>2. Encoded(piece) = PREFIX \o f \o SUFFIX
    BY <1>4 DEF Encoded
  <2> HIDE DEF f
  <2>3. Encoded(piece) \in Seq(Bytes) /\ Framed(Encoded(piece), "size", piece.value, <<>>)
    BY <1>2, <2>1, <2>2, FrameIs
  <2>4. PICK m : m = Resized(piece.value)
    OBVIOUS
  <2>5. Meaning(piece) = <<m>> /\ m \in Marks
    BY <1>4, <2>4 DEF Meaning, Marks
  <2>6. Meaning(piece) \in Seq(Marks)
    BY <2>5
  <2> QED BY <1>4, <2>3, <2>4, <2>5, <2>6 DEF PieceShape
<1>5. CASE piece.kind = "data" /\ piece.value \in Seq(STRING) /\ Len(piece.value) <= MaxData
  <2>3. piece.value \in Seq(Bytes) /\ piece.value \in Seq(Marks)
    BY <1>1, <1>5, SeqOfMore
  <2>4. Len(piece.value) \in 0..MaxData
    BY <1>5, LenProperties, JoinAssumption
  <2>5. Decimal[Len(piece.value)] \in Bytes
    BY <1>1, <2>4, DecimalAssumption
  <2> DEFINE f == <<"data", Decimal[Len(piece.value)]>>
  <2>1. f \in Seq(Bytes) /\ Len(f) = 2 /\ f[1] = "data" /\ f[2] = Decimal[Len(piece.value)]
    BY <1>1, <2>5
  <2>2. Encoded(piece) = PREFIX \o f \o SUFFIX \o piece.value
    BY <1>5 DEF Encoded
  <2> HIDE DEF f
  <2>6. /\ Encoded(piece) \in Seq(Bytes)
        /\ Framed(Encoded(piece), "data", Decimal[Len(piece.value)], piece.value)
    BY <2>1, <2>2, <2>3, FrameIs
  <2>7. Meaning(piece) = piece.value
    BY <1>5 DEF Meaning
  <2> QED BY <1>5, <2>3, <2>4, <2>6, <2>7 DEF PieceShape
<1>6. CASE piece.kind = "raw" /\ piece.value \in Seq(STRING) \ {<<>>}
  <2>1. Encoded(piece) = piece.value /\ Meaning(piece) = piece.value
    BY <1>6 DEF Encoded, Meaning
  <2>2. piece.value \in Seq(Bytes) /\ piece.value \in Seq(Marks)
    BY <1>1, <1>6, SeqOfMore
  <2>3. Len(piece.value) \in Nat /\ Len(piece.value) # 0
    BY <1>6, LenProperties, EmptySeq
  <2> QED BY <1>6, <2>1, <2>2, <2>3 DEF PieceShape
<1> QED BY <1>3, <1>4, <1>5, <1>6 DEF Sayable

-----------------------------------------------------------------------------
(* The stream and what is seen of it, as the pieces lay them out. *)

Stream(s) == EncodedAll(s)
Seen(s) == MeaningAll(s)
E(s, i) == Len(EncodedTo(s, i))
F(s, i) == Len(MeaningTo(s, i))

\* A control behind the first e bytes.
FrameAt(w, e, kind, field) ==
  /\ w[e + 1] = "ESC" /\ w[e + 2] = "P" /\ w[e + 3] = "room;" /\ w[e + 4] = kind /\ w[e + 5] = field
  /\ w[e + 6] = "ESC" /\ w[e + 7] = "\\"

FieldOf(piece) == IF piece.kind = "data" THEN Decimal[Len(piece.value)] ELSE piece.value

\* A piece in a stream w, from e to m, and what is seen of it in v, from f to n.
Lies(piece, w, v, e, f, m, n) ==
  /\ m \in Nat /\ n \in Nat
  /\ piece.kind \in {"hello", "size", "data", "raw"}
  /\ piece.kind = "raw" =>
       m > e /\ n - f = m - e /\ \A k \in 1..(m - e) : w[e + k] = v[f + k]
  /\ piece.kind # "raw" =>
       FrameAt(w, e, piece.kind, FieldOf(piece)) /\ FieldOf(piece) # "ESC" /\ m >= e + 7
  /\ piece.kind = "hello" => piece.value \in Number /\ m = e + 7 /\ n = f
  /\ piece.kind = "size" =>
       /\ piece.value \in Number \ {"0"} /\ m = e + 7 /\ n = f + 1
       /\ v[f + 1] = Resized(piece.value)
  /\ piece.kind = "data" =>
       /\ Len(piece.value) \in 0..MaxData
       /\ m = e + 7 + Len(piece.value) /\ n = f + Len(piece.value)
       /\ \A k \in 1..Len(piece.value) : w[e + 7 + k] = v[f + k]

PieceAt(s, i) ==
  /\ i - 1 \in 0..Len(s) /\ i \in 0..Len(s)
  /\ E(s, i - 1) \in Nat /\ F(s, i - 1) \in Nat
  /\ Lies(s[i], Stream(s), Seen(s), E(s, i - 1), F(s, i - 1), E(s, i), F(s, i))

Laid(s) ==
  /\ Len(s) \in Nat /\ DOMAIN s = 1..Len(s) /\ Stream(s) \in Seq(Bytes) /\ Seen(s) \in Seq(Marks)
  /\ Len(Stream(s)) = E(s, Len(s)) /\ Len(Seen(s)) = F(s, Len(s))
  /\ E(s, 0) = 0 /\ F(s, 0) = 0
  /\ \A i \in 0..Len(s) : E(s, i) \in Nat /\ F(s, i) \in Nat
  /\ \A j \in 0..Len(s) : \A i \in 0..j : E(s, i) <= E(s, j) /\ F(s, i) <= F(s, j)
  /\ \A i \in 1..Len(s) : PieceAt(s, i)

LEMMA FieldIsNoEscape ==
  ASSUME NEW piece, PieceShape(piece), piece.kind # "raw"
  PROVE  FieldOf(piece) # "ESC"
<1>1. CASE piece.kind = "data"
  BY <1>1, DecimalAssumption DEF PieceShape, FieldOf
<1>2. CASE piece.kind # "data"
  <2>1. piece.value \in Number
    BY <1>2 DEF PieceShape
  <2>2. "ESC" \notin Number
    BY DEF Number
  <2> QED BY <1>2, <2>1, <2>2 DEF FieldOf
<1> QED BY <1>1, <1>2

\* Behind the first e of w comes x.
Follows(w, e, x) == \A k \in 1..Len(x) : w[e + k] = x[k]

LEMMA PieceLies ==
  ASSUME NEW piece, PieceShape(piece), NEW w, NEW v, NEW e \in Nat, NEW f \in Nat, NEW m, NEW n,
         NEW x, NEW y, x = Encoded(piece), y = Meaning(piece), m = e + Len(x), n = f + Len(y),
         Follows(w, e, x), Follows(v, f, y)
  PROVE  Lies(piece, w, v, e, f, m, n)
<1> USE DEF Follows
<1>1. x \in Seq(Bytes) /\ y \in Seq(Marks) /\ Len(x) \in Nat /\ Len(y) \in Nat
  BY LenProperties DEF PieceShape
<1>2. m \in Nat /\ n \in Nat /\ piece.kind \in {"hello", "size", "data", "raw"}
  <2>1. m \in Nat /\ n \in Nat
    BY <1>1
  <2> QED BY <2>1 DEF PieceShape
<1>3. piece.kind = "raw" => m > e /\ n - f = m - e /\ \A k \in 1..(m - e) : w[e + k] = v[f + k]
  <2>1. piece.kind = "raw" => x = y /\ Len(x) > 0
    BY DEF PieceShape
  <2> QED BY <1>1, <2>1
<1>4. ASSUME NEW z, Framed(x, piece.kind, FieldOf(piece), z), Len(z) \in Nat
      PROVE  /\ FrameAt(w, e, piece.kind, FieldOf(piece)) /\ m = e + 7 + Len(z)
             /\ \A k \in 1..Len(z) : w[e + 7 + k] = z[k]
  <2>1. Len(x) = 7 + Len(z)
    BY <1>4 DEF Framed
  <2>2. \A k \in 1..7 : w[e + k] = x[k]
    BY <1>1, <1>4, <2>1
  <2>3. 1 \in 1..7 /\ 2 \in 1..7 /\ 3 \in 1..7 /\ 4 \in 1..7 /\ 5 \in 1..7 /\ 6 \in 1..7 /\ 7 \in 1..7
    OBVIOUS
  <2>4. FrameAt(w, e, piece.kind, FieldOf(piece))
    BY <1>4, <2>2, <2>3 DEF Framed, FrameAt
  <2>5. m = e + 7 + Len(z)
    BY <1>1, <1>4, <2>1
  <2>6. ASSUME NEW k \in 1..Len(z) PROVE w[e + 7 + k] = z[k]
    <3>1. 7 + k \in 1..Len(x) /\ e + (7 + k) = e + 7 + k
      BY <1>4, <2>1
    <3>2. w[e + (7 + k)] = x[7 + k]
      BY <3>1
    <3>3. x[7 + k] = z[k]
      BY <1>4 DEF Framed
    <3> QED BY <3>1, <3>2, <3>3
  <2> QED BY <2>4, <2>5, <2>6
<1>5. PICK none : none = <<>>
  OBVIOUS
<1>6. Len(none) = 0
  BY <1>5, EmptySeq
<1>7. CASE piece.kind = "hello"
  <2>1. FieldOf(piece) = piece.value /\ piece.value \in Number
    BY <1>7 DEF FieldOf, PieceShape
  <2>2. Framed(x, piece.kind, FieldOf(piece), none) /\ y = none
    BY <1>5, <1>7, <2>1 DEF PieceShape
  <2>3. FrameAt(w, e, piece.kind, FieldOf(piece)) /\ m = e + 7 /\ n = f
    BY <1>4, <1>6, <2>2
  <2> QED BY <1>2, <1>7, <2>1, <2>3, FieldIsNoEscape DEF Lies
<1>8. CASE piece.kind = "size"
  <2>1. FieldOf(piece) = piece.value /\ piece.value \in Number \ {"0"}
    BY <1>8 DEF FieldOf, PieceShape
  <2>2. Framed(x, piece.kind, FieldOf(piece), none)
    BY <1>5, <1>8, <2>1 DEF PieceShape
  <2>3. FrameAt(w, e, piece.kind, FieldOf(piece)) /\ m = e + 7
    BY <1>4, <1>6, <2>2
  <2>4. PICK b : b = Resized(piece.value)
    OBVIOUS
  <2>5. y = <<b>>
    BY <1>8, <2>4 DEF PieceShape
  <2>6. Len(y) = 1 /\ y[1] = b
    BY <2>5
  <2>7. n = f + 1 /\ v[f + 1] = b
    BY <2>6
  <2>8. v[f + 1] = Resized(piece.value)
    BY <2>4, <2>7
  <2> QED BY <1>2, <1>8, <2>1, <2>3, <2>7, <2>8, FieldIsNoEscape DEF Lies
<1>9. CASE piece.kind = "data"
  <2>1. PICK z : z = piece.value
    OBVIOUS
  <2>2. y = z /\ Len(z) \in 0..MaxData /\ Framed(x, piece.kind, FieldOf(piece), z)
    BY <1>9, <2>1 DEF PieceShape, FieldOf
  <2>3. MaxData \in Nat
    BY JoinAssumption
  <2>4. Len(z) \in Nat
    BY <2>2, <2>3
  <2>5. /\ FrameAt(w, e, piece.kind, FieldOf(piece)) /\ m = e + 7 + Len(z)
        /\ \A k \in 1..Len(z) : w[e + 7 + k] = z[k]
    BY <1>4, <2>2, <2>4
  <2>6. ASSUME NEW k \in 1..Len(z) PROVE w[e + 7 + k] = v[f + k]
    <3>1. v[f + k] = z[k]
      BY <2>2
    <3> QED BY <2>5, <3>1
  <2>7. m >= e + 7
    BY <2>4, <2>5
  <2> QED BY <1>2, <1>9, <2>1, <2>2, <2>5, <2>6, <2>7, FieldIsNoEscape DEF Lies
<1>10. CASE piece.kind = "raw"
  BY <1>2, <1>3, <1>10 DEF Lies
<1> QED BY <1>2, <1>7, <1>8, <1>9, <1>10

LEMMA Layout ==
  ASSUME NEW c \in Scenarios
  PROVE  Laid(c.said)
<1>1. PICK s : s = c.said
  OBVIOUS
<1>2. PICK n : n = Len(s)
  OBVIOUS
<1>3. n \in Nat /\ DOMAIN s = 1..n /\ \A i \in 1..n : PieceShape(s[i])
  <2>1. n \in Nat /\ DOMAIN s = 1..n /\ \A i \in 1..n : Sayable(s[i])
    BY <1>1, <1>2, JoinAssumption
  <2> QED BY <2>1, PieceIs
<1>4. PICK e : e = [i \in DOMAIN s |-> Encoded(s[i])]
  OBVIOUS
<1>5. PICK f : f = [i \in DOMAIN s |-> Meaning(s[i])]
  OBVIOUS
<1>6. \A i \in 1..n : e[i] = Encoded(s[i]) /\ f[i] = Meaning(s[i])
  BY <1>3, <1>4, <1>5
<1>7. (\A i \in 1..n : e[i] \in Seq(Bytes)) /\ (\A i \in 1..n : f[i] \in Seq(Marks))
  BY <1>3, <1>6 DEF PieceShape
<1>8. \A i : EncodedTo(s, i) = Concat(e, i) /\ MeaningTo(s, i) = Concat(f, i)
  BY <1>4, <1>5 DEF EncodedTo, MeaningTo
<1>9. Stream(s) = Concat(e, n) /\ Seen(s) = Concat(f, n)
  BY <1>2, <1>8 DEF Stream, Seen, EncodedAll, MeaningAll
<1>10. \A i : E(s, i) = Len(Concat(e, i)) /\ F(s, i) = Len(Concat(f, i))
  BY <1>8 DEF E, F
<1>11. /\ \A i \in 0..n : E(s, i) \in Nat
       /\ E(s, 0) = 0
       /\ \A i \in 1..n : E(s, i) = E(s, i - 1) + Len(e[i])
       /\ \A j \in 0..n : \A i \in 0..j : E(s, i) <= E(s, j)
       /\ \A i \in 1..n : \A k \in 1..Len(e[i]) : Stream(s)[E(s, i - 1) + k] = e[i][k]
  <2>1. LaidOut(e, n)
    BY <1>3, <1>7, JoinedLaidOut
  <2>2. (\A i \in 0..n : E(s, i) \in Nat) /\ E(s, 0) = 0
    BY <1>10, <2>1 DEF LaidOut
  <2>3. ASSUME NEW i \in 1..n PROVE E(s, i) = E(s, i - 1) + Len(e[i])
    BY <1>10, <2>1 DEF LaidOut
  <2>4. ASSUME NEW j \in 0..n, NEW i \in 0..j PROVE E(s, i) <= E(s, j)
    BY <1>10, <2>1 DEF LaidOut
  <2>5. ASSUME NEW i \in 1..n, NEW k \in 1..Len(e[i]) PROVE Stream(s)[E(s, i - 1) + k] = e[i][k]
    <3>1. Concat(e, n)[Len(Concat(e, i - 1)) + k] = e[i][k]
      BY <2>1 DEF LaidOut
    <3>2. E(s, i - 1) = Len(Concat(e, i - 1))
      BY <1>10
    <3> QED BY <1>9, <3>1, <3>2
  <2> QED BY <2>2, <2>3, <2>4, <2>5
<1>12. /\ \A i \in 0..n : F(s, i) \in Nat
       /\ F(s, 0) = 0
       /\ \A i \in 1..n : F(s, i) = F(s, i - 1) + Len(f[i])
       /\ \A j \in 0..n : \A i \in 0..j : F(s, i) <= F(s, j)
       /\ \A i \in 1..n : \A k \in 1..Len(f[i]) : Seen(s)[F(s, i - 1) + k] = f[i][k]
  <2>1. LaidOut(f, n)
    BY <1>3, <1>7, JoinedLaidOut
  <2>2. (\A i \in 0..n : F(s, i) \in Nat) /\ F(s, 0) = 0
    BY <1>10, <2>1 DEF LaidOut
  <2>3. ASSUME NEW i \in 1..n PROVE F(s, i) = F(s, i - 1) + Len(f[i])
    BY <1>10, <2>1 DEF LaidOut
  <2>4. ASSUME NEW j \in 0..n, NEW i \in 0..j PROVE F(s, i) <= F(s, j)
    BY <1>10, <2>1 DEF LaidOut
  <2>5. ASSUME NEW i \in 1..n, NEW k \in 1..Len(f[i]) PROVE Seen(s)[F(s, i - 1) + k] = f[i][k]
    <3>1. Concat(f, n)[Len(Concat(f, i - 1)) + k] = f[i][k]
      BY <2>1 DEF LaidOut
    <3>2. F(s, i - 1) = Len(Concat(f, i - 1))
      BY <1>10
    <3> QED BY <1>9, <3>1, <3>2
  <2> QED BY <2>2, <2>3, <2>4, <2>5
<1>13. Stream(s) \in Seq(Bytes) /\ Seen(s) \in Seq(Marks) /\ Len(Stream(s)) = E(s, n) /\ Len(Seen(s)) = F(s, n)
  <2>1. n \in 0..n
    BY <1>3
  <2>2. (\A i \in 0..n : Concat(e, i) \in Seq(Bytes)) /\ (\A i \in 0..n : Concat(f, i) \in Seq(Marks))
    BY <1>3, <1>7, JoinedByOne
  <2>3. Concat(e, n) \in Seq(Bytes) /\ Concat(f, n) \in Seq(Marks)
    BY <2>1, <2>2
  <2>4. E(s, n) = Len(Concat(e, n)) /\ F(s, n) = Len(Concat(f, n))
    BY <1>10
  <2> QED BY <1>9, <2>3, <2>4
<1>14. ASSUME NEW i \in 1..n PROVE PieceAt(s, i)
  <2>1. i - 1 \in 0..n /\ i \in 0..n
    BY <1>3
  <2>2. PICK piece : piece = s[i]
    OBVIOUS
  <2>3. PICK x, y : x = e[i] /\ y = f[i]
    OBVIOUS
  <2>4. PieceShape(piece) /\ x = Encoded(piece) /\ y = Meaning(piece)
    BY <1>3, <1>6, <2>2, <2>3
  <2>5. PICK a, b, m, l : a = E(s, i - 1) /\ b = F(s, i - 1) /\ m = E(s, i) /\ l = F(s, i)
    OBVIOUS
  <2>6. PICK w, v : w = Stream(s) /\ v = Seen(s)
    OBVIOUS
  <2>7. a \in Nat /\ b \in Nat
    BY <1>11, <1>12, <2>1, <2>5
  <2>8. /\ m = a + Len(x) /\ l = b + Len(y)
        /\ Follows(w, a, x) /\ Follows(v, b, y)
    BY <1>11, <1>12, <2>3, <2>5, <2>6 DEF Follows
  <2>9. Lies(piece, w, v, a, b, m, l)
    BY <2>4, <2>7, <2>8, PieceLies, Zenon
  <2>10. Lies(s[i], Stream(s), Seen(s), E(s, i - 1), F(s, i - 1), E(s, i), F(s, i))
    BY <2>2, <2>5, <2>6, <2>9, Zenon
  <2> QED BY <1>2, <2>1, <2>5, <2>7, <2>10 DEF PieceAt
<1>15. Laid(s)
  BY <1>2, <1>3, <1>11, <1>12, <1>13, <1>14 DEF Laid
<1> QED BY <1>1, <1>15

-----------------------------------------------------------------------------
(* What is found in the window that has been read and not handled. *)

\* A word cut by the end of the window shows in the overlap.
LEMMA CutWordOverlaps ==
  ASSUME NEW T, NEW s \in Seq(T), NEW a \in Nat, NEW b \in a..Len(s),
         NEW word \in Seq(T), word # <<>>, NEW q \in (a + 1)..b,
         OccursAt(s, word, q), q + Len(word) - 1 > b
  PROVE  b - q + 1 <= PrefixOverlap(SubSeq(s, a + 1, b), word)
<1> DEFINE v == SubSeq(s, a + 1, b)
<1>1. v \in Seq(T) /\ Len(v) = b - a /\ \A k \in 1..(b - a) : v[k] = s[a + k]
  BY Window
<1>2. Len(s) \in Nat /\ b \in Nat /\ Len(word) \in Nat /\ \A k \in 1..Len(word) : s[q + k - 1] = word[k]
  BY LenProperties DEF OccursAt
<1> HIDE DEF v
<1>3. PICK n : n = b - q + 1
  OBVIOUS
<1>4. PICK m : m = q - a - 1
  OBVIOUS
<1>5. /\ n \in 0..Len(v) /\ n \in 0..Len(word) /\ n < Len(word) /\ n \in Nat /\ Len(v) \in Nat
      /\ m \in Nat /\ Len(v) - n + 1 = m + 1 /\ Len(v) \in m..Len(v) /\ Len(v) - m = n
      /\ \A k \in 1..n : m + k \in 1..(b - a) /\ a + (m + k) = q + k - 1
  BY <1>1, <1>2, <1>3, <1>4
<1>6. PICK x : x = SubSeq(v, m + 1, Len(v))
  OBVIOUS
<1>7. x \in Seq(T) /\ Len(x) = n /\ \A k \in 1..n : x[k] = v[m + k]
  BY <1>1, <1>5, <1>6, Window
<1>8. PICK y : y = SubSeq(word, 0 + 1, n)
  OBVIOUS
<1>9. y \in Seq(T) /\ Len(y) = n /\ \A k \in 1..n : y[k] = word[k]
  <2>1. 0 \in Nat /\ n \in 0..Len(word) /\ n - 0 = n /\ \A k \in 1..n : 0 + k = k
    BY <1>5
  <2>2. y \in Seq(T) /\ Len(y) = n - 0 /\ \A k \in 1..(n - 0) : y[k] = word[0 + k]
    BY <1>8, <2>1, Window
  <2> QED BY <2>1, <2>2
<1>10. ASSUME NEW k \in 1..n PROVE x[k] = y[k]
  <2>1. x[k] = v[m + k] /\ y[k] = word[k]
    BY <1>7, <1>9
  <2>2. v[m + k] = s[a + (m + k)]
    BY <1>1, <1>5
  <2>3. s[q + k - 1] = word[k]
    BY <1>2, <1>5
  <2> QED BY <1>5, <2>1, <2>2, <2>3
<1>11. x = y
  BY <1>7, <1>9, <1>10, SeqEqual
<1>12. SubSeq(v, Len(v) - n + 1, Len(v)) = SubSeq(word, 1, n)
  <2>1. SubSeq(v, Len(v) - n + 1, Len(v)) = x
    BY <1>5, <1>6
  <2>2. SubSeq(word, 1, n) = y
    BY <1>8
  <2> QED BY <1>11, <2>1, <2>2
<1>13. n <= PrefixOverlap(v, word)
  BY <1>1, <1>5, <1>12, OverlapFound
<1> QED BY <1>3, <1>13 DEF v

\* What f, found in the window from p to r, says of the first place g in w.
FoundIn(w, p, r, word, i, f, g) ==
  /\ f # 0 => f \in i..(r - p) /\ g = p + f /\ g + Len(word) - 1 <= r
  /\ f = 0 => g = 0 \/ g + Len(word) - 1 > r
  /\ g = 0 => \A k \in (p + i)..Len(w) : ~OccursAt(w, word, k)
  /\ g # 0 => /\ g \in (p + i)..Len(w) /\ OccursAt(w, word, g)
              /\ \A k \in (p + i)..Len(w) : k < g => ~OccursAt(w, word, k)

LEMMA SearchesWindow ==
  ASSUME NEW T, NEW w \in Seq(T), NEW p \in Nat, NEW r \in p..Len(w),
         NEW word \in Seq(T), word # <<>>, NEW i \in Nat \ {0},
         NEW f, f = FindFrom(SubSeq(w, p + 1, r), word, i), NEW g, g = FindFrom(w, word, p + i)
  PROVE  FoundIn(w, p, r, word, i, f, g)
<1>1. /\ f # 0 => g = p + f /\ p + f + Len(word) - 1 <= r
      /\ f = 0 => g = 0 \/ g + Len(word) - 1 > r
  <2> DEFINE v == SubSeq(w, p + 1, r)
  <2>1. /\ FindFrom(v, word, i) # 0 =>
             /\ FindFrom(w, word, p + i) = p + FindFrom(v, word, i)
             /\ p + FindFrom(v, word, i) + Len(word) - 1 <= r
        /\ FindFrom(v, word, i) = 0 =>
             \/ FindFrom(w, word, p + i) = 0
             \/ FindFrom(w, word, p + i) + Len(word) - 1 > r
    BY FindInWindow, Zenon
  <2>2. f = FindFrom(v, word, i)
    OBVIOUS
  <2> HIDE DEF v
  <2> QED BY <2>1, <2>2
<1>2. f # 0 => f \in i..(r - p)
  <2>1. SubSeq(w, p + 1, r) \in Seq(T) /\ Len(SubSeq(w, p + 1, r)) = r - p
    BY Window
  <2> QED BY <2>1, FindFound
<1>3. \/ /\ g = 0
         /\ \A k \in (p + i)..Len(w) : ~OccursAt(w, word, k)
      \/ /\ g \in (p + i)..Len(w) /\ OccursAt(w, word, g)
         /\ \A k \in (p + i)..Len(w) : k < g => ~OccursAt(w, word, k)
  <2>1. p + i \in Nat \ {0}
    OBVIOUS
  <2> QED BY <2>1, FindFound
<1>4. g \in (p + i)..Len(w) => g # 0
  OBVIOUS
<1>5. f # 0 => p + f + Len(word) - 1 = g + Len(word) - 1
  BY <1>1
<1> QED BY <1>1, <1>2, <1>3, <1>4, <1>5 DEF FoundIn

\* The bytes that no control begins with, as Unframed counts them.
Loose(v) ==
  IF FindSubslice(v, PREFIX) = 0 THEN Len(v) - PrefixOverlap(v, PREFIX) ELSE FindSubslice(v, PREFIX) - 1

LEMMA NoneBegins ==
  ASSUME NEW w \in Seq(Bytes), NEW p \in Nat, NEW r \in p..Len(w), NEW v, v = SubSeq(w, p + 1, r)
  PROVE  /\ Loose(v) \in 0..(r - p)
         /\ \A q \in (p + 1)..(p + Loose(v)) : ~OccursAt(w, PREFIX, q)
<1>1. PREFIX \in Seq(Bytes) /\ Len(PREFIX) = 3
  BY Words
<1>2. v \in Seq(Bytes) /\ Len(v) = r - p /\ Len(w) \in Nat /\ r \in Nat /\ r <= Len(w)
  BY Window, LenProperties
<1>3. PICK f : f = FindFrom(v, PREFIX, 1)
  OBVIOUS
<1>4. PICK g : g = FindFrom(w, PREFIX, p + 1)
  OBVIOUS
<1>5. FoundIn(w, p, r, PREFIX, 1, f, g)
  <2>1. PREFIX # <<>> /\ 1 \in Nat \ {0}
    BY Words
  <2> QED BY <1>1, <1>3, <1>4, <2>1, SearchesWindow
<1>6. /\ f # 0 => f \in 1..(r - p) /\ g = p + f /\ g + 2 <= r
      /\ f = 0 => g = 0 \/ g + 2 > r
  BY <1>1, <1>2, <1>5 DEF FoundIn
<1>7. /\ g = 0 => \A k \in (p + 1)..Len(w) : ~OccursAt(w, PREFIX, k)
      /\ g # 0 => g \in (p + 1)..Len(w) /\ \A k \in (p + 1)..Len(w) : k < g => ~OccursAt(w, PREFIX, k)
  BY <1>5 DEF FoundIn
<1>8. FindSubslice(v, PREFIX) = f
  BY <1>3 DEF FindSubslice
<1>9. CASE f # 0
  <2>1. Loose(v) = f - 1
    BY <1>8, <1>9 DEF Loose
  <2>2. f \in 1..(r - p) /\ g = p + f /\ g # 0 /\ f - 1 \in 0..(r - p)
    BY <1>2, <1>6, <1>9
  <2>3. \A q \in (p + 1)..(p + (f - 1)) : q \in (p + 1)..Len(w) /\ q < g
    BY <1>2, <2>2
  <2> QED BY <1>7, <2>1, <2>2, <2>3
<1>10. CASE f = 0
  <2>1. PICK o : o = PrefixOverlap(v, PREFIX)
    OBVIOUS
  <2>2. o \in 0..Len(v) /\ Loose(v) = Len(v) - o
    <3>1. PREFIX # <<>>
      BY Words
    <3>2. o \in 0..Len(v)
      BY <1>1, <1>2, <2>1, <3>1, OverlapFound
    <3> QED BY <1>8, <1>10, <2>1, <3>2 DEF Loose
  <2>3. ASSUME NEW q \in (p + 1)..(p + Loose(v)), OccursAt(w, PREFIX, q) PROVE FALSE
    <3>1. q \in (p + 1)..r /\ q \in (p + 1)..Len(w) /\ o \in Nat
      BY <1>2, <2>2
    <3>2. g # 0 /\ g <= q
      BY <1>7, <2>3, <3>1
    <3>3. q + 2 > r
      BY <1>2, <1>6, <1>7, <1>10, <3>1, <3>2
    <3>4. r - q + 1 <= o
      <4>1. q + Len(PREFIX) - 1 > r
        BY <1>1, <1>2, <3>1, <3>3
      <4>2. PREFIX # <<>>
        BY Words
      <4> QED BY <1>1, <2>1, <2>3, <3>1, <4>1, <4>2, CutWordOverlaps
    <3> QED BY <1>2, <2>2, <3>1, <3>4
  <2> QED BY <1>2, <2>2, <2>3
<1> QED BY <1>9, <1>10

-----------------------------------------------------------------------------
(* Where the decoder is. *)

\* In piece i, when p bytes are handled, n marks shown, and l more bytes of a frame
\* are to come: before it, among bytes of no frame, or behind the control of a frame.
InPiece(s, i, p, n, l) ==
  \/ /\ l = -1 /\ E(s, i - 1) <= p /\ p < E(s, i) /\ n - F(s, i - 1) = p - E(s, i - 1)
     /\ p = E(s, i - 1) \/ s[i].kind = "raw"
  \/ s[i].kind = "data" /\ l = Len(s[i].value) /\ p = E(s, i - 1) + 7 /\ n = F(s, i - 1)

At(s, p, n, l) ==
  /\ p \in Nat /\ n \in Nat
  /\ \/ l = -1 /\ p = E(s, Len(s)) /\ n = F(s, Len(s))
     \/ \E i \in 1..Len(s) : InPiece(s, i, p, n, l)

\* The next m marks are the next m bytes.
SameBytes(s, p, n, m) == \A k \in 1..m : Stream(s)[p + k] = Seen(s)[n + k]

LEMMA Borders ==
  ASSUME NEW s, Laid(s), NEW i \in 0..Len(s)
  PROVE  At(s, E(s, i), F(s, i), -1)
<1>1. E(s, i) \in Nat /\ F(s, i) \in Nat /\ Len(s) \in Nat
  BY DEF Laid
<1>2. CASE i = Len(s)
  BY <1>1, <1>2 DEF At
<1>3. CASE i # Len(s)
  <2>1. PICK j : j = i + 1
    OBVIOUS
  <2>2. j \in 1..Len(s) /\ j - 1 = i
    BY <1>1, <1>3, <2>1
  <2>3. PieceAt(s, j)
    BY <2>2 DEF Laid
  <2>4. E(s, j) > E(s, j - 1) /\ E(s, j) \in Nat
    <3>1. s[j].kind = "raw" => E(s, j) > E(s, j - 1)
      BY <2>3 DEF PieceAt, Lies
    <3>2. s[j].kind # "raw" => E(s, j) >= E(s, j - 1) + 7
      BY <2>3 DEF PieceAt, Lies
    <3>3. E(s, j - 1) \in Nat /\ E(s, j) \in Nat
      BY <2>3 DEF PieceAt, Lies
    <3> QED BY <3>1, <3>2, <3>3
  <2>5. InPiece(s, j, E(s, i), F(s, i), -1)
    BY <1>1, <2>2, <2>4 DEF InPiece
  <2> QED BY <1>1, <2>2, <2>5 DEF At
<1> QED BY <1>2, <1>3

LEMMA InBounds ==
  ASSUME NEW s, Laid(s), NEW p, NEW n, NEW l, At(s, p, n, l)
  PROVE  /\ p \in 0..Len(Stream(s)) /\ n \in 0..Len(Seen(s))
         /\ Len(Stream(s)) \in Nat /\ Len(Seen(s)) \in Nat
<1>1. /\ Len(s) \in Nat /\ Len(Stream(s)) = E(s, Len(s)) /\ Len(Seen(s)) = F(s, Len(s))
      /\ E(s, Len(s)) \in Nat /\ F(s, Len(s)) \in Nat
  BY DEF Laid
<1>2. ASSUME NEW i \in 1..Len(s), InPiece(s, i, p, n, l)
      PROVE  p <= E(s, Len(s)) /\ n <= F(s, Len(s))
  <2>1. PieceAt(s, i)
    BY DEF Laid
  <2>2. E(s, i) <= E(s, Len(s)) /\ F(s, i) <= F(s, Len(s))
    BY <1>1 DEF Laid
  <2>3. /\ E(s, i - 1) \in Nat /\ F(s, i - 1) \in Nat /\ E(s, i) \in Nat /\ F(s, i) \in Nat
        /\ i - 1 \in 0..Len(s) /\ i \in 0..Len(s) /\ i - 1 \in 0..i
    BY <1>1, <2>1 DEF PieceAt, Lies
  <2>4. F(s, i - 1) <= F(s, i)
    BY <2>3 DEF Laid
  <2>5. p \in Nat /\ n \in Nat
    BY DEF At
  <2>6. CASE s[i].kind = "data" /\ l = Len(s[i].value) /\ p = E(s, i - 1) + 7 /\ n = F(s, i - 1)
    <3>1. E(s, i) >= E(s, i - 1) + 7
      BY <2>1, <2>6 DEF PieceAt, Lies
    <3>2. p <= E(s, i)
      BY <2>3, <2>6, <3>1
    <3>3. n <= F(s, i)
      BY <2>4, <2>6
    <3> QED BY <1>1, <2>2, <2>3, <2>5, <3>2, <3>3
  <2>7. CASE /\ E(s, i - 1) <= p /\ p < E(s, i) /\ n - F(s, i - 1) = p - E(s, i - 1)
             /\ p = E(s, i - 1) \/ s[i].kind = "raw"
    <3>1. s[i].kind = "raw" => F(s, i) - F(s, i - 1) = E(s, i) - E(s, i - 1)
      BY <2>1 DEF PieceAt, Lies
    <3> QED BY <1>1, <2>2, <2>3, <2>4, <2>5, <2>7, <3>1
  <2> QED BY <1>2, <2>6, <2>7 DEF InPiece
<1>3. p <= E(s, Len(s)) /\ n <= F(s, Len(s)) /\ p \in Nat /\ n \in Nat
  BY <1>1, <1>2 DEF At
<1> QED BY <1>1, <1>3

\* Bytes of no frame are shown as they are.
LEMMA RawShown ==
  ASSUME NEW s, Laid(s), NEW i \in 1..Len(s), s[i].kind = "raw",
         NEW p \in Nat, NEW n \in Nat, InPiece(s, i, p, n, -1), NEW m \in Nat, p + m <= E(s, i)
  PROVE  At(s, p + m, n + m, -1) /\ SameBytes(s, p, n, m)
<1>1. PICK a, b, e, f : a = E(s, i - 1) /\ b = F(s, i - 1) /\ e = E(s, i) /\ f = F(s, i)
  OBVIOUS
<1>2. /\ a \in Nat /\ b \in Nat /\ e \in Nat /\ f \in Nat /\ i \in 0..Len(s)
      /\ f - b = e - a /\ \A k \in 1..(e - a) : Stream(s)[a + k] = Seen(s)[b + k]
  <2>1. PieceAt(s, i)
    BY DEF Laid
  <2> QED BY <1>1, <2>1 DEF PieceAt, Lies
<1>3. a <= p /\ p < e /\ n - b = p - a
  <2>1. s[i].kind # "data"
    OBVIOUS
  <2> QED BY <1>1, <2>1 DEF InPiece
<1>4. p + m <= e
  BY <1>1
<1>5. PICK d \in Nat : p = a + d /\ n = b + d
  <2>1. p - a \in Nat /\ p = a + (p - a) /\ n = b + (p - a)
    BY <1>2, <1>3
  <2> QED BY <2>1
<1>6. ASSUME NEW k \in 1..m PROVE Stream(s)[p + k] = Seen(s)[n + k]
  <2>1. d + k \in 1..(e - a) /\ a + (d + k) = p + k /\ b + (d + k) = n + k
    BY <1>2, <1>4, <1>5
  <2>2. Stream(s)[a + (d + k)] = Seen(s)[b + (d + k)]
    BY <1>2, <2>1
  <2> QED BY <2>1, <2>2
<1>7. CASE p + m = e
  <2>1. n + m = f
    BY <1>2, <1>7, <1>4, <1>5
  <2>2. At(s, e, f, -1)
    BY <1>1, <1>2, Borders
  <2> QED BY <1>6, <1>7, <2>1, <2>2 DEF SameBytes
<1>8. CASE p + m # e
  <2>1. a <= p + m /\ p + m < e /\ p + m \in Nat /\ n + m \in Nat
    <3>1. p + m \in Nat /\ n + m \in Nat
      OBVIOUS
    <3>2. a \in Nat /\ e \in Nat
      BY <1>2
    <3>3. p + m < e
      BY <1>4, <1>8, <3>1, <3>2
    <3>4. a <= p + m
      BY <1>5, <3>2
    <3> QED BY <3>1, <3>3, <3>4
  <2>3. (n + m) - b = (p + m) - a
    BY <1>2, <1>5
  <2>2. InPiece(s, i, p + m, n + m, -1)
    BY <1>1, <2>1, <2>3 DEF InPiece
  <2> QED BY <1>6, <2>1, <2>2 DEF At, SameBytes
<1> QED BY <1>7, <1>8

\* Where a frame is.
LEMMA FrameFound ==
  ASSUME NEW s, Laid(s), NEW i \in 1..Len(s), s[i].kind # "raw", NEW e, e = E(s, i - 1)
  PROVE  /\ OccursAt(Stream(s), PREFIX, e + 1) /\ OccursAt(Stream(s), SUFFIX, e + 6)
         /\ ~OccursAt(Stream(s), SUFFIX, e + 4) /\ ~OccursAt(Stream(s), SUFFIX, e + 5)
         /\ Stream(s)[e + 4] = s[i].kind /\ Stream(s)[e + 5] = FieldOf(s[i])
         /\ e \in Nat /\ e + 7 <= E(s, i) /\ E(s, i) <= Len(Stream(s)) /\ E(s, i) \in Nat
<1>1. PieceAt(s, i)
  BY DEF Laid
<1>2. /\ FrameAt(Stream(s), e, s[i].kind, FieldOf(s[i])) /\ FieldOf(s[i]) # "ESC"
      /\ E(s, i) >= e + 7 /\ E(s, i) \in Nat /\ e \in Nat
      /\ s[i].kind \in {"hello", "size", "data", "raw"}
  BY <1>1 DEF PieceAt, Lies
<1>3. E(s, i) <= Len(Stream(s)) /\ Len(Stream(s)) \in Nat
  <2>1. Len(s) \in 0..Len(s) /\ i \in 0..Len(s)
    BY DEF Laid
  <2> QED BY <2>1 DEF Laid
<1>4. PICK w : w = Stream(s)
  OBVIOUS
<1>5. PICK x : x = s[i].kind
  OBVIOUS
<1>6. x # "ESC"
  BY <1>2, <1>5
<1>7. /\ w[e + 1] = "ESC" /\ w[e + 2] = "P" /\ w[e + 3] = "room;" /\ w[e + 4] = x /\ w[e + 5] # "ESC"
      /\ w[e + 6] = "ESC" /\ w[e + 7] = "\\" /\ w[e + 5] = FieldOf(s[i])
  BY <1>2, <1>4, <1>5 DEF FrameAt
<1>8. e + 7 <= Len(w)
  BY <1>2, <1>3, <1>4
<1>9. /\ Len(PREFIX) = 3 /\ PREFIX[1] = "ESC" /\ PREFIX[2] = "P" /\ PREFIX[3] = "room;"
      /\ Len(SUFFIX) = 2 /\ SUFFIX[1] = "ESC" /\ SUFFIX[2] = "\\"
  BY Words
<1>10. OccursAt(w, PREFIX, e + 1)
  <2>1. \A k \in 1..3 : k = 1 \/ k = 2 \/ k = 3
    OBVIOUS
  <2>2. (e + 1) + 1 - 1 = e + 1 /\ (e + 1) + 2 - 1 = e + 2 /\ (e + 1) + 3 - 1 = e + 3
    BY <1>2
  <2>3. \A k \in 1..3 : w[(e + 1) + k - 1] = PREFIX[k]
    BY <1>7, <1>9, <2>1, <2>2
  <2>4. (e + 1) + 3 - 1 <= Len(w)
    BY <1>2, <1>3, <1>4, <1>8
  <2> QED BY <1>9, <2>3, <2>4 DEF OccursAt
<1>11. OccursAt(w, SUFFIX, e + 6)
  <2>1. \A k \in 1..2 : k = 1 \/ k = 2
    OBVIOUS
  <2>2. (e + 6) + 1 - 1 = e + 6 /\ (e + 6) + 2 - 1 = e + 7
    BY <1>2
  <2>3. \A k \in 1..2 : w[(e + 6) + k - 1] = SUFFIX[k]
    BY <1>7, <1>9, <2>1, <2>2
  <2>4. (e + 6) + 2 - 1 <= Len(w)
    BY <1>2, <1>3, <1>4, <1>8
  <2> QED BY <1>9, <2>3, <2>4 DEF OccursAt
<1>12. ASSUME NEW q \in Nat, OccursAt(w, SUFFIX, q) PROVE w[q] = "ESC"
  <2>1. 1 \in 1..Len(SUFFIX) /\ q + 1 - 1 = q
    <3>1. Len(SUFFIX) = 2
      BY <1>9
    <3> QED BY <3>1
  <2>2. \A k \in 1..Len(SUFFIX) : w[q + k - 1] = SUFFIX[k]
    BY <1>12 DEF OccursAt
  <2>3. w[q + 1 - 1] = SUFFIX[1]
    BY <2>1, <2>2
  <2> QED BY <1>9, <2>1, <2>3
<1>13. ~OccursAt(w, SUFFIX, e + 4) /\ ~OccursAt(w, SUFFIX, e + 5)
  <2>1. e + 4 \in Nat /\ e + 5 \in Nat
    BY <1>2
  <2> QED BY <1>6, <1>7, <1>12, <2>1
<1> QED BY <1>2, <1>3, <1>4, <1>5, <1>7, <1>10, <1>11, <1>13

-----------------------------------------------------------------------------
(* What a round of the decoder does, wherever it is. *)

LEMMA Between ==
  ASSUME NEW s, Laid(s), NEW i \in 1..Len(s), NEW p \in Nat, NEW n \in Nat,
         InPiece(s, i, p, n, -1)
  PROVE  /\ E(s, i - 1) <= p /\ p < E(s, i) /\ n - F(s, i - 1) = p - E(s, i - 1)
         /\ s[i].kind # "raw" => p = E(s, i - 1) /\ n = F(s, i - 1)
         /\ E(s, i - 1) \in Nat /\ E(s, i) \in Nat /\ F(s, i - 1) \in Nat
<1>1. PieceAt(s, i)
  BY DEF Laid
<1>2. E(s, i - 1) \in Nat /\ E(s, i) \in Nat /\ F(s, i - 1) \in Nat /\ F(s, i) \in Nat
  BY <1>1 DEF PieceAt, Lies
<1>3. ~(s[i].kind = "data" /\ -1 = Len(s[i].value))
  <2>1. s[i].kind = "data" => Len(s[i].value) \in 0..MaxData
    BY <1>1 DEF PieceAt, Lies
  <2>2. MaxData \in Nat
    BY JoinAssumption
  <2> QED BY <2>1, <2>2
<1>4. /\ E(s, i - 1) <= p /\ p < E(s, i) /\ n - F(s, i - 1) = p - E(s, i - 1)
      /\ p = E(s, i - 1) \/ s[i].kind = "raw"
  BY <1>3 DEF InPiece
<1>5. n - F(s, i - 1) = 0 => n = F(s, i - 1)
  BY <1>2
<1>6. p = E(s, i - 1) => p - E(s, i - 1) = 0
  BY <1>2
<1> QED BY <1>2, <1>4, <1>5, <1>6

LEMMA OneByte ==
  ASSUME NEW s, Laid(s), NEW p, NEW n, At(s, p, n, -1), p < Len(Stream(s)),
         ~OccursAt(Stream(s), PREFIX, p + 1)
  PROVE  At(s, p + 1, n + 1, -1) /\ SameBytes(s, p, n, 1)
<1>1. p \in Nat /\ n \in Nat
  BY DEF At
<1>2. PICK i \in 1..Len(s) : InPiece(s, i, p, n, -1)
  <2>1. Len(Stream(s)) = E(s, Len(s)) /\ E(s, Len(s)) \in Nat
    BY DEF Laid
  <2> QED BY <1>1, <2>1 DEF At
<1>3. p < E(s, i) /\ E(s, i) \in Nat /\ (s[i].kind # "raw" => p = E(s, i - 1))
  BY <1>1, <1>2, Between
<1>4. s[i].kind = "raw"
  BY <1>3, FrameFound
<1>5. p + 1 <= E(s, i)
  BY <1>1, <1>3
<1> QED BY <1>1, <1>2, <1>4, <1>5, RawShown

LEMMA ManyBytes ==
  ASSUME NEW s, Laid(s), NEW p, NEW n, At(s, p, n, -1), NEW m \in Nat, p + m <= Len(Stream(s)),
         \A q \in (p + 1)..(p + m) : ~OccursAt(Stream(s), PREFIX, q)
  PROVE  At(s, p + m, n + m, -1) /\ SameBytes(s, p, n, m)
<1>1. p \in Nat /\ n \in Nat /\ Len(Stream(s)) \in Nat
  BY InBounds DEF At
<1> DEFINE G == {k \in 0..m : At(s, p + k, n + k, -1) /\ SameBytes(s, p, n, k)}
<1>2. 0 \in G
  <2>1. p + 0 = p /\ n + 0 = n
    BY <1>1
  <2>2. SameBytes(s, p, n, 0)
    BY DEF SameBytes
  <2> QED BY <2>1, <2>2
<1>3. ASSUME NEW k \in 1..m, k - 1 \in G PROVE k \in G
  <2>1. PICK x, y : x = p + (k - 1) /\ y = n + (k - 1)
    OBVIOUS
  <2>2. /\ x + 1 = p + k /\ y + 1 = n + k /\ x < Len(Stream(s)) /\ x + 1 \in (p + 1)..(p + m)
        /\ k \in 0..m
    BY <1>1, <2>1
  <2>3. At(s, x, y, -1) /\ SameBytes(s, p, n, k - 1)
    BY <1>3, <2>1
  <2>4. At(s, x + 1, y + 1, -1) /\ SameBytes(s, x, y, 1)
    BY <2>2, <2>3, OneByte
  <2>5. ASSUME NEW j \in 1..k PROVE Stream(s)[p + j] = Seen(s)[n + j]
    <3>1. CASE j = k
      <4>1. Stream(s)[x + 1] = Seen(s)[y + 1]
        <5>1. 1 \in 1..1
          OBVIOUS
        <5> QED BY <2>4, <5>1 DEF SameBytes
      <4> QED BY <2>2, <3>1, <4>1
    <3>2. CASE j # k
      <4>1. j \in 1..(k - 1)
        BY <3>2
      <4> QED BY <2>3, <4>1 DEF SameBytes
    <3> QED BY <3>1, <3>2
  <2>6. SameBytes(s, p, n, k)
    BY <2>5 DEF SameBytes
  <2> QED BY <2>2, <2>4, <2>6
<1> HIDE DEF G
<1>4. \A k \in 0..m : k \in G
  BY <1>2, <1>3, BoundedInduction
<1>5. m \in G
  BY <1>4
<1> QED BY <1>5 DEF G

\* DataFrame and EmptyFrame.
LEMMA DataShown ==
  ASSUME NEW s, Laid(s), NEW p, NEW n, NEW l \in Nat, At(s, p, n, l)
  PROVE  At(s, p + l, n + l, -1) /\ SameBytes(s, p, n, l)
<1>1. p \in Nat /\ n \in Nat
  BY DEF At
<1>2. PICK i \in 1..Len(s) : InPiece(s, i, p, n, l)
  <2>1. l # -1
    OBVIOUS
  <2> QED BY <2>1 DEF At
<1>3. s[i].kind = "data" /\ l = Len(s[i].value) /\ p = E(s, i - 1) + 7 /\ n = F(s, i - 1)
  <2>1. l # -1
    OBVIOUS
  <2> QED BY <1>2, <2>1 DEF InPiece
<1>4. PieceAt(s, i) /\ i \in 0..Len(s)
  BY DEF Laid
<1>5. /\ E(s, i) = p + l /\ F(s, i) = n + l
      /\ \A k \in 1..l : Stream(s)[p + k] = Seen(s)[n + k]
  BY <1>3, <1>4 DEF PieceAt, Lies
<1> QED BY <1>4, <1>5, Borders DEF SameBytes

\* Unframed.
LEMMA LooseShown ==
  ASSUME NEW s, Laid(s), NEW p, NEW n, At(s, p, n, -1), NEW r \in p..Len(Stream(s)),
         NEW v, v = SubSeq(Stream(s), p + 1, r), NEW m, m = Loose(v)
  PROVE  m \in 0..(r - p) /\ At(s, p + m, n + m, -1) /\ SameBytes(s, p, n, m)
<1>1. Stream(s) \in Seq(Bytes)
  BY DEF Laid
<1>2. p \in Nat /\ Len(Stream(s)) \in Nat
  BY InBounds DEF At
<1>3. /\ m \in 0..(r - p)
      /\ \A q \in (p + 1)..(p + m) : ~OccursAt(Stream(s), PREFIX, q)
  BY <1>1, <1>2, NoneBegins
<1>4. m \in Nat /\ p + m <= Len(Stream(s))
  BY <1>2, <1>3
<1> QED BY <1>3, <1>4, ManyBytes

\* What the searches say when a prefix is at the head of the window, and f is the suffix.
AtHead(s, p, r, v, f) ==
  /\ v = SubSeq(Stream(s), p + 1, r) /\ FindSubslice(v, PREFIX) = 1
  /\ f = FindFrom(v, SUFFIX, Len(PREFIX) + 1)

LEMMA HeadSearched ==
  ASSUME NEW s, Laid(s), NEW p \in Nat, NEW r \in p..Len(Stream(s)), NEW v, NEW f,
         AtHead(s, p, r, v, f), NEW g, g = FindFrom(Stream(s), SUFFIX, p + 4)
  PROVE  /\ OccursAt(Stream(s), PREFIX, p + 1) /\ p + 3 <= r
         /\ f # 0 => f \in 4..(r - p) /\ g = p + f /\ g + 1 <= r
         /\ f = 0 => g = 0 \/ g + 1 > r
         /\ g = 0 => \A k \in (p + 4)..Len(Stream(s)) : ~OccursAt(Stream(s), SUFFIX, k)
         /\ g # 0 => /\ g \in (p + 4)..Len(Stream(s)) /\ OccursAt(Stream(s), SUFFIX, g)
                     /\ \A k \in (p + 4)..Len(Stream(s)) : k < g => ~OccursAt(Stream(s), SUFFIX, k)
<1>1. PICK w : w = Stream(s)
  OBVIOUS
<1>2. w \in Seq(Bytes) /\ r \in p..Len(w)
  BY <1>1 DEF Laid
<1>3. Len(w) \in Nat
  BY <1>2, LenProperties
<1>4. PREFIX \in Seq(Bytes) /\ SUFFIX \in Seq(Bytes) /\ Len(PREFIX) = 3 /\ Len(SUFFIX) = 2
  BY Words
<1>5. PREFIX # <<>> /\ SUFFIX # <<>>
  BY Words
<1>6. PICK h : h = FindFrom(w, PREFIX, p + 1)
  OBVIOUS
<1>7. FoundIn(w, p, r, PREFIX, 1, 1, h)
  <2>1. 1 = FindFrom(SubSeq(w, p + 1, r), PREFIX, 1) /\ 1 \in Nat \ {0}
    BY <1>1 DEF AtHead, FindSubslice
  <2> QED BY <1>2, <1>4, <1>5, <1>6, <2>1, SearchesWindow
<1>8. OccursAt(w, PREFIX, p + 1) /\ p + 3 <= r
  <2>1. h = p + 1 /\ h + Len(PREFIX) - 1 <= r
    BY <1>7 DEF FoundIn
  <2>2. h # 0 /\ h + 2 <= r
    BY <1>3, <1>4, <2>1
  <2>3. OccursAt(w, PREFIX, h)
    BY <1>7, <2>2 DEF FoundIn
  <2> QED BY <2>1, <2>2, <2>3
<1>9. FoundIn(w, p, r, SUFFIX, 4, f, g)
  <2>1. f = FindFrom(SubSeq(w, p + 1, r), SUFFIX, 4) /\ 4 \in Nat \ {0}
    BY <1>1, <1>4 DEF AtHead
  <2>2. g = FindFrom(w, SUFFIX, p + 4)
    BY <1>1
  <2> QED BY <1>2, <1>4, <1>5, <2>1, <2>2, SearchesWindow
<1>10. /\ f # 0 => f \in 4..(r - p) /\ g = p + f /\ g + Len(SUFFIX) - 1 <= r
       /\ f = 0 => g = 0 \/ g + Len(SUFFIX) - 1 > r
       /\ g = 0 => \A k \in (p + 4)..Len(w) : ~OccursAt(w, SUFFIX, k)
       /\ g # 0 => /\ g \in (p + 4)..Len(w) /\ OccursAt(w, SUFFIX, g)
                   /\ \A k \in (p + 4)..Len(w) : k < g => ~OccursAt(w, SUFFIX, k)
  BY <1>9 DEF FoundIn
<1>11. g \in Nat /\ g + Len(SUFFIX) - 1 = g + 1
  <2>1. g \in Nat
    BY <1>3, <1>10
  <2> QED BY <1>4, <2>1
<1> QED BY <1>1, <1>8, <1>10, <1>11

\* At a frame, the suffix is its own.
LEMMA FrameHeaded ==
  ASSUME NEW s, Laid(s), NEW p \in Nat, NEW r \in p..Len(Stream(s)), NEW v, NEW f,
         AtHead(s, p, r, v, f), NEW i \in 1..Len(s), s[i].kind # "raw", p = E(s, i - 1)
  PROVE  (f # 0 => f = 6 /\ p + 7 <= r) /\ (f = 0 => p + 7 > r)
<1>1. PICK g : g = FindFrom(Stream(s), SUFFIX, p + 4)
  OBVIOUS
<1>2. /\ OccursAt(Stream(s), SUFFIX, p + 6)
      /\ ~OccursAt(Stream(s), SUFFIX, p + 4) /\ ~OccursAt(Stream(s), SUFFIX, p + 5)
      /\ p + 7 <= E(s, i) /\ E(s, i) <= Len(Stream(s)) /\ E(s, i) \in Nat
  BY FrameFound
<1>3. Len(Stream(s)) \in Nat
  BY LenProperties DEF Laid
<1>4. /\ f # 0 => f \in 4..(r - p) /\ g = p + f /\ g + 1 <= r
      /\ f = 0 => g = 0 \/ g + 1 > r
      /\ g = 0 => \A k \in (p + 4)..Len(Stream(s)) : ~OccursAt(Stream(s), SUFFIX, k)
      /\ g # 0 => /\ g \in (p + 4)..Len(Stream(s)) /\ OccursAt(Stream(s), SUFFIX, g)
                  /\ \A k \in (p + 4)..Len(Stream(s)) : k < g => ~OccursAt(Stream(s), SUFFIX, k)
  BY <1>1, HeadSearched, SMTT(30)
<1>5. p + 6 \in (p + 4)..Len(Stream(s))
  BY <1>2, <1>3, SMTT(30)
<1>6. g # 0 /\ ~(p + 6 < g)
  BY <1>2, <1>4, <1>5
<1>7. g \in (p + 4)..Len(Stream(s)) /\ OccursAt(Stream(s), SUFFIX, g)
  BY <1>4, <1>6
<1>8. g # p + 4 /\ g # p + 5
  BY <1>2, <1>7
<1>9. g = p + 6
  BY <1>3, <1>6, <1>7, <1>8, SMTT(30)
<1>10. f # 0 => f = 6 /\ p + 7 <= r
  <2>1. f # 0 => f \in 4..(r - p) /\ p + 6 = p + f /\ (p + 6) + 1 <= r
    BY <1>4, <1>9
  <2>2. r \in Nat
    BY <1>3
  <2>3. f # 0 => f \in Nat
    BY <2>1, <2>2
  <2> QED BY <2>1, <2>2, <2>3
<1>11. f = 0 => p + 7 > r
  BY <1>3, <1>4, <1>9
<1> QED BY <1>10, <1>11

\* OverlongControl: a prefix that no control follows is among bytes of no frame.
LEMMA OverlongShown ==
  ASSUME NEW s, Laid(s), NEW p, NEW n, At(s, p, n, -1), NEW r \in p..Len(Stream(s)),
         NEW v, NEW f, AtHead(s, p, r, v, f), f = 0, r - p > MaxControl
  PROVE  At(s, p + 1, n + 1, -1) /\ SameBytes(s, p, n, 1)
<1>1. p \in Nat /\ n \in Nat /\ Len(Stream(s)) \in Nat /\ r \in Nat
  <2>1. p \in Nat /\ n \in Nat
    BY DEF At
  <2>2. Len(Stream(s)) \in Nat
    BY LenProperties DEF Laid
  <2> QED BY <2>1, <2>2
<1>2. p + 3 <= r
  BY <1>1, HeadSearched
<1>3. PICK i \in 1..Len(s) : InPiece(s, i, p, n, -1)
  <2>1. Len(Stream(s)) = E(s, Len(s))
    BY DEF Laid
  <2>2. p # E(s, Len(s))
    BY <1>1, <1>2, <2>1
  <2> QED BY <2>2 DEF At
<1>4. p < E(s, i) /\ E(s, i) \in Nat /\ (s[i].kind # "raw" => p = E(s, i - 1))
  BY <1>1, <1>3, Between
<1>5. MaxControl \in Nat /\ MaxControl >= 7
  <2>1. Len(PREFIX) = 3 /\ Len(SUFFIX) = 2
    BY Words
  <2> QED BY <2>1, JoinAssumption
<1>6. s[i].kind = "raw"
  <2>1. s[i].kind # "raw" => p + 7 > r
    BY <1>1, <1>4, FrameHeaded
  <2> QED BY <1>1, <1>5, <2>1
<1>7. p + 1 <= E(s, i)
  BY <1>1, <1>4
<1> QED BY <1>1, <1>3, <1>6, <1>7, RawShown

-----------------------------------------------------------------------------
(* What a control says. *)

LEMMA LengthIs ==
  ASSUME NEW n \in 0..MaxData
  PROVE  LengthOf(Decimal[n]) = n
<1> DEFINE fits == {m \in 0..MaxData : Decimal[m] = Decimal[n]}
<1>1. MaxData \in Nat
  BY JoinAssumption
<1>2. n \in fits /\ \A m \in fits : m = n
  BY DecimalAssumption
<1>3. fits \in SUBSET Nat /\ fits # {}
  BY <1>1, <1>2
<1>4. LengthOf(Decimal[n]) = Min(fits)
  <2>1. fits # {}
    BY <1>3
  <2> QED BY <2>1 DEF LengthOf
<1> HIDE DEF fits
<1>5. Min(fits) \in fits
  BY <1>3, MinIsLeast
<1> QED BY <1>2, <1>4, <1>5

LEMMA ControlParsed ==
  ASSUME NEW x, Len(x) = 2,
         \/ x[1] = "hello" /\ x[2] \in Number
         \/ x[1] = "size" /\ x[2] \in Number \ {"0"}
         \/ x[1] = "data" /\ LengthOf(x[2]) >= 0
  PROVE  ParseServerControl(x).kind = x[1] /\ ParseServerControl(x).value = x[2]
<1>1. ParseServerControl(x) = [kind |-> x[1], value |-> x[2]]
  BY DEF ParseServerControl
<1> QED BY <1>1

\* A stretch of the window is one of the whole.
Within(w, p, a, b, x) ==
  /\ x = SubSeq(w, (p + a) + 1, p + b) /\ Len(x) = b - a
  /\ \A k \in 1..(b - a) : x[k] = w[(p + a) + k]

LEMMA WindowOfWindow ==
  ASSUME NEW T, NEW w \in Seq(T), NEW p \in Nat, NEW r \in p..Len(w), NEW v, v = SubSeq(w, p + 1, r),
         NEW a \in Nat, NEW b \in a..(r - p), NEW x, x = SubSeq(v, a + 1, b)
  PROVE  Within(w, p, a, b, x)
<1>1. v \in Seq(T) /\ Len(v) = r - p /\ \A k \in 1..(r - p) : v[k] = w[p + k]
  BY Window
<1>2. x \in Seq(T) /\ Len(x) = b - a /\ \A k \in 1..(b - a) : x[k] = v[a + k]
  <2>1. b \in a..Len(v)
    BY <1>1
  <2> QED BY <1>1, <2>1, Window
<1>3. PICK y : y = SubSeq(w, (p + a) + 1, p + b)
  OBVIOUS
<1>4. y \in Seq(T) /\ Len(y) = b - a /\ \A k \in 1..(b - a) : y[k] = w[(p + a) + k]
  <2>1. Len(w) \in Nat
    BY LenProperties
  <2>2. p + a \in Nat /\ p + b \in (p + a)..Len(w) /\ (p + b) - (p + a) = b - a
    BY <2>1
  <2>3. /\ y \in Seq(T) /\ Len(y) = (p + b) - (p + a)
        /\ \A k \in 1..((p + b) - (p + a)) : y[k] = w[(p + a) + k]
    BY <1>3, <2>2, Window
  <2> QED BY <2>2, <2>3
<1>5. ASSUME NEW k \in 1..(b - a) PROVE x[k] = w[(p + a) + k]
  <2>1. a + k \in 1..(r - p) /\ p + (a + k) = (p + a) + k
    OBVIOUS
  <2>2. v[a + k] = w[p + (a + k)]
    BY <1>1, <2>1
  <2> QED BY <1>2, <2>1, <2>2
<1>6. x = y
  BY <1>2, <1>4, <1>5, SeqEqual
<1> QED BY <1>2, <1>3, <1>5, <1>6 DEF Within

\* A control that is found whole, and what it is read as.
ReadAs(v, f, c) == c = ParseServerControl(SubSeq(v, Len(PREFIX) + 1, f - 1))

\* Control, at a frame: what it announces is what the host said.
LEMMA ControlObeyed ==
  ASSUME NEW s, Laid(s), NEW p \in Nat, NEW r \in p..Len(Stream(s)), NEW v, NEW f,
         AtHead(s, p, r, v, f), f # 0, NEW i \in 1..Len(s), s[i].kind # "raw", p = E(s, i - 1),
         NEW c, ReadAs(v, f, c)
  PROVE  f = 6 /\ c.kind = s[i].kind /\ c.value = FieldOf(s[i])
<1>1. f = 6 /\ p + 7 <= r
  BY FrameHeaded
<1>2. /\ Stream(s)[p + 4] = s[i].kind /\ Stream(s)[p + 5] = FieldOf(s[i])
  BY FrameFound
<1>3. Stream(s) \in Seq(Bytes) /\ v = SubSeq(Stream(s), p + 1, r) /\ Len(PREFIX) = 3
  BY Words DEF Laid, AtHead
<1>4. PICK x : x = SubSeq(v, 3 + 1, 5)
  OBVIOUS
<1>5. c = ParseServerControl(x)
  <2>1. f - 1 = 5
    BY <1>1
  <2> QED BY <1>3, <1>4, <2>1 DEF ReadAs
<1>6. Len(x) = 2 /\ x[1] = s[i].kind /\ x[2] = FieldOf(s[i])
  <2>1. Len(Stream(s)) \in Nat
    BY <1>3, LenProperties
  <2>2. 3 \in Nat /\ 5 \in 3..(r - p) /\ 5 - 3 = 2 /\ (p + 3) + 1 = p + 4 /\ (p + 3) + 2 = p + 5
    BY <1>1, <2>1, SMTT(30)
  <2>3. Len(x) = 5 - 3 /\ \A k \in 1..(5 - 3) : x[k] = Stream(s)[(p + 3) + k]
    <3>1. Within(Stream(s), p, 3, 5, x)
      BY <1>3, <1>4, <2>2, WindowOfWindow, Zenon
    <3> QED BY <3>1 DEF Within
  <2>4. 1 \in 1..(5 - 3) /\ 2 \in 1..(5 - 3)
    OBVIOUS
  <2>5. x[1] = Stream(s)[(p + 3) + 1] /\ x[2] = Stream(s)[(p + 3) + 2]
    BY <2>3, <2>4
  <2> QED BY <1>2, <2>2, <2>3, <2>5
<1>7. PieceAt(s, i)
  BY DEF Laid
<1>8. \/ x[1] = "hello" /\ x[2] \in Number
      \/ x[1] = "size" /\ x[2] \in Number \ {"0"}
      \/ x[1] = "data" /\ LengthOf(x[2]) >= 0
  <2>1. s[i].kind \in {"hello", "size", "data", "raw"}
    BY <1>7 DEF PieceAt, Lies
  <2>2. CASE s[i].kind = "hello"
    BY <1>6, <1>7, <2>2 DEF PieceAt, Lies, FieldOf
  <2>3. CASE s[i].kind = "size"
    BY <1>6, <1>7, <2>3 DEF PieceAt, Lies, FieldOf
  <2>4. CASE s[i].kind = "data"
    <3>1. PICK m : m = Len(s[i].value)
      OBVIOUS
    <3>2. m \in 0..MaxData
      BY <1>7, <2>4, <3>1 DEF PieceAt, Lies
    <3>3. LengthOf(Decimal[m]) = m /\ MaxData \in Nat
      BY <3>2, LengthIs, JoinAssumption
    <3>4. x[2] = Decimal[m]
      BY <1>6, <2>4, <3>1 DEF FieldOf
    <3>5. m >= 0
      BY <3>2, <3>3
    <3> QED BY <1>6, <2>4, <3>3, <3>4, <3>5
  <2> QED BY <2>1, <2>2, <2>3, <2>4
<1>9. ParseServerControl(x).kind = x[1] /\ ParseServerControl(x).value = x[2]
  BY <1>6, <1>8, ControlParsed
<1> QED BY <1>1, <1>5, <1>6, <1>9

\* Control, among bytes of no frame: there is nothing to obey.
LEMMA NothingObeyed ==
  ASSUME NEW s, Laid(s), Harmless(s), NEW p \in Nat, NEW r \in p..Len(Stream(s)), NEW v, NEW f,
         AtHead(s, p, r, v, f), f # 0, NEW i \in 1..Len(s), s[i].kind = "raw",
         E(s, i - 1) <= p, p < E(s, i), E(s, i - 1) \in Nat, E(s, i) \in Nat
  PROVE  /\ ParseServerControl(SubSeq(v, Len(PREFIX) + 1, f - 1)).kind = "none"
         /\ f \in Nat /\ p + (f + 1) <= E(s, i)
<1>1. PICK g : g = FindFrom(Stream(s), SUFFIX, p + 4)
  OBVIOUS
<1>2. OccursAt(Stream(s), PREFIX, p + 1) /\ f \in 4..(r - p) /\ g = p + f /\ g + 1 <= r
  BY <1>1, HeadSearched
<1>3. Stream(s) \in Seq(Bytes) /\ v = SubSeq(Stream(s), p + 1, r) /\ Len(PREFIX) = 3 /\ Len(SUFFIX) = 2
  BY Words DEF Laid, AtHead
<1>4. Len(Stream(s)) \in Nat /\ r \in Nat
  <2>1. Len(Stream(s)) \in Nat
    BY <1>3, LenProperties
  <2> QED BY <2>1
<1>5. f \in Nat /\ g \in Nat /\ g # 0
  BY <1>2, <1>4
<1>6. p + 1 \in (Len(EncodedTo(s, i - 1)) + 1)..Len(EncodedTo(s, i)) /\ i \in DOMAIN s
  <2>1. p + 1 \in (E(s, i - 1) + 1)..E(s, i)
    OBVIOUS
  <2>2. i \in DOMAIN s
    BY DEF Laid
  <2> QED BY <2>1, <2>2 DEF E
<1>7. LET payload == (p + 1) + Len(PREFIX)
          suffix  == FindFrom(EncodedAll(s), SUFFIX, payload)
      IN  \/ suffix = 0
          \/ /\ suffix + Len(SUFFIX) - 1 <= Len(EncodedTo(s, i))
             /\ ParseServerControl(SubSeq(EncodedAll(s), payload, suffix - 1)).kind = "none"
  BY <1>2, <1>6 DEF Harmless, Stream
<1>8. (p + 1) + Len(PREFIX) = p + 4
  BY <1>3
<1>9. FindFrom(EncodedAll(s), SUFFIX, (p + 1) + Len(PREFIX)) = g
  BY <1>1, <1>8 DEF Stream
<1>10. /\ g + Len(SUFFIX) - 1 <= E(s, i)
       /\ ParseServerControl(SubSeq(Stream(s), p + 4, g - 1)).kind = "none"
  BY <1>5, <1>7, <1>8, <1>9, Zenon DEF Stream, E
<1>11. SubSeq(v, Len(PREFIX) + 1, f - 1) = SubSeq(Stream(s), p + 4, g - 1)
  <2>1. 3 \in Nat /\ f - 1 \in 3..(r - p) /\ (p + 3) + 1 = p + 4 /\ p + (f - 1) = g - 1
    BY <1>2, <1>4, <1>5
  <2>2. PICK x : x = SubSeq(v, 3 + 1, f - 1)
    OBVIOUS
  <2>3. x = SubSeq(Stream(s), (p + 3) + 1, p + (f - 1))
    <3>1. Within(Stream(s), p, 3, f - 1, x)
      BY <1>3, <2>1, <2>2, WindowOfWindow, Zenon
    <3> QED BY <3>1 DEF Within
  <2> QED BY <1>3, <2>1, <2>2, <2>3
<1>12. p + (f + 1) <= E(s, i)
  <2>1. g + 2 - 1 = p + (f + 1)
    BY <1>2, <1>5
  <2> QED BY <1>3, <1>10, <2>1
<1> QED BY <1>5, <1>10, <1>11, <1>12

-----------------------------------------------------------------------------
(* What waits for the next read. *)

\* No frame that has come whole is held back.
AtRest(s, r, n) == \A j \in 1..Len(s) : E(s, j) <= r /\ s[j].kind # "raw" => F(s, j) <= n

LEMMA EarlierShown ==
  ASSUME NEW s, Laid(s), NEW i \in 1..Len(s), NEW n \in Nat, F(s, i - 1) <= n,
         NEW j \in 1..Len(s), j < i
  PROVE  F(s, j) <= n
<1>1. Len(s) \in Nat
  BY DEF Laid
<1>2. i - 1 \in 0..Len(s) /\ j \in 0..(i - 1) /\ j \in 0..Len(s)
  BY <1>1
<1>3. F(s, j) <= F(s, i - 1) /\ F(s, j) \in Nat /\ F(s, i - 1) \in Nat
  BY <1>2 DEF Laid
<1> QED BY <1>3

LEMMA BeforeItsEnd ==
  ASSUME NEW s, Laid(s), NEW i \in 1..Len(s), NEW n \in Nat, F(s, i - 1) <= n,
         NEW r \in Nat, r < E(s, i)
  PROVE  AtRest(s, r, n)
<1>1. Len(s) \in Nat
  BY DEF Laid
<1>2. ASSUME NEW j \in 1..Len(s), E(s, j) <= r PROVE j < i
  <2>1. ASSUME ~(j < i) PROVE FALSE
    <3>1. i \in 0..j /\ j \in 0..Len(s) /\ i \in 0..Len(s)
      BY <1>1, <2>1
    <3>2. E(s, i) <= E(s, j) /\ E(s, i) \in Nat /\ E(s, j) \in Nat
      BY <3>1 DEF Laid
    <3> QED BY <1>2, <3>2
  <2> QED BY <2>1
<1>3. ASSUME NEW j \in 1..Len(s), E(s, j) <= r PROVE F(s, j) <= n
  <2>1. j < i
    BY <1>2, <1>3
  <2> QED BY <2>1, EarlierShown
<1> QED BY <1>3 DEF AtRest

\* A frame that lies whole behind p shows, by its prefix or by its suffix.
LEMMA FrameShows ==
  ASSUME NEW s, Laid(s), NEW i \in 1..Len(s), NEW p \in Nat, p < E(s, i), E(s, i) \in Nat,
         NEW j \in 1..Len(s), i < j, s[j].kind # "raw", NEW r \in Nat, E(s, j) <= r
  PROVE  /\ p + 8 <= r
         /\ \E e \in (p + 7)..Len(Stream(s)) : OccursAt(Stream(s), SUFFIX, e) /\ e + 1 <= r
<1>1. Len(s) \in Nat
  BY DEF Laid
<1>2. PICK e : e = E(s, j - 1)
  OBVIOUS
<1>3. /\ OccursAt(Stream(s), SUFFIX, e + 6) /\ e \in Nat /\ e + 7 <= E(s, j)
      /\ E(s, j) <= Len(Stream(s)) /\ E(s, j) \in Nat
  BY <1>2, FrameFound
<1>4. E(s, i) <= e
  <2>1. i \in 0..(j - 1) /\ j - 1 \in 0..Len(s)
    BY <1>1
  <2> QED BY <1>2, <2>1 DEF Laid
<1>5. p + 1 <= e
  BY <1>3, <1>4
<1>6. Len(Stream(s)) \in Nat
  BY LenProperties DEF Laid
<1>7. e + 6 \in (p + 7)..Len(Stream(s)) /\ (e + 6) + 1 <= r /\ p + 8 <= r
  BY <1>3, <1>5, <1>6, SMTT(30)
<1> QED BY <1>3, <1>7

LEMMA NothingHeld ==
  ASSUME NEW s, Laid(s), NEW p, NEW n, NEW l, At(s, p, n, l), NEW r \in p..Len(Stream(s)),
         NEW v, v = SubSeq(Stream(s), p + 1, r), NEW f,
         \/ l \in Nat /\ r - p < l
         \/ l = -1 /\ r - p = PrefixOverlap(v, PREFIX)
         \/ l = -1 /\ AtHead(s, p, r, v, f) /\ f = 0
  PROVE  AtRest(s, r, n)
<1>1. p \in Nat /\ n \in Nat
  BY DEF At
<1>2. Stream(s) \in Seq(Bytes) /\ Len(Stream(s)) \in Nat
  BY LenProperties DEF Laid
<1>3. r \in Nat
  BY <1>1, <1>2
<1>4. CASE l \in Nat /\ r - p < l
  <2>1. PICK i \in 1..Len(s) : InPiece(s, i, p, n, l)
    BY <1>4 DEF At
  <2>2. s[i].kind = "data" /\ l = Len(s[i].value) /\ p = E(s, i - 1) + 7 /\ n = F(s, i - 1)
    BY <1>4, <2>1 DEF InPiece
  <2>3. PieceAt(s, i)
    BY DEF Laid
  <2>4. E(s, i) = p + l
    BY <2>2, <2>3 DEF PieceAt, Lies
  <2>5. r < E(s, i) /\ F(s, i - 1) <= n
    BY <1>1, <1>3, <1>4, <2>2, <2>4, SMTT(30)
  <2> QED BY <1>1, <1>3, <2>5, BeforeItsEnd
<1>5. l = -1 /\ r - p = PrefixOverlap(v, PREFIX) => p + 3 > r
  <2>1. PREFIX \in Seq(Bytes) /\ Len(PREFIX) = 3
    BY Words
  <2>2. PREFIX # <<>>
    BY Words
  <2>3. v \in Seq(Bytes)
    BY <1>1, <1>2, Window
  <2>4. PrefixOverlap(v, PREFIX) < Len(PREFIX) /\ PrefixOverlap(v, PREFIX) \in 0..Len(v) /\ Len(v) \in Nat
    BY <2>1, <2>2, <2>3, OverlapFound, LenProperties
  <2> QED BY <1>1, <1>3, <2>1, <2>4
<1>6. CASE l = -1 /\ p = E(s, Len(s)) /\ n = F(s, Len(s))
  <2>1. ASSUME NEW j \in 1..Len(s) PROVE F(s, j) <= n
    <3>1. Len(s) \in 0..Len(s) /\ j \in 0..Len(s)
      BY DEF Laid
    <3> QED BY <1>6, <3>1 DEF Laid
  <2> QED BY <2>1 DEF AtRest
<1>7. ASSUME NEW i \in 1..Len(s), InPiece(s, i, p, n, l), l = -1,
             p + 3 > r \/ (AtHead(s, p, r, v, f) /\ f = 0)
      PROVE  AtRest(s, r, n)
  <2>1. /\ E(s, i - 1) <= p /\ p < E(s, i) /\ n - F(s, i - 1) = p - E(s, i - 1)
        /\ s[i].kind # "raw" => p = E(s, i - 1) /\ n = F(s, i - 1)
        /\ E(s, i - 1) \in Nat /\ E(s, i) \in Nat /\ F(s, i - 1) \in Nat
    BY <1>1, <1>7, Between
  <2>2. F(s, i - 1) <= n
    BY <1>1, <2>1
  <2>3. CASE s[i].kind # "raw"
    <3>1. p + 7 > r
      <4>1. p \in Nat /\ r \in p..Len(Stream(s)) /\ p = E(s, i - 1)
        BY <1>1, <2>1, <2>3
      <4>2. CASE p + 3 > r
        BY <1>1, <1>3, <4>2
      <4>3. CASE AtHead(s, p, r, v, f) /\ f = 0
        BY <2>3, <4>1, <4>3, FrameHeaded
      <4> QED BY <1>7, <4>2, <4>3
    <3>2. p + 7 <= E(s, i)
      BY <2>1, <2>3, FrameFound
    <3>3. r < E(s, i)
      BY <1>1, <1>3, <2>1, <3>1, <3>2, SMTT(30)
    <3> QED BY <1>1, <1>3, <2>2, <3>3, BeforeItsEnd
  <2>4. CASE s[i].kind = "raw"
    <3>1. ASSUME NEW j \in 1..Len(s), E(s, j) <= r, s[j].kind # "raw" PROVE F(s, j) <= n
      <4>1. CASE j < i
        BY <1>1, <2>2, <4>1, EarlierShown
      <4>2. CASE i < j
        <5>1. /\ p + 8 <= r
              /\ \E e \in (p + 7)..Len(Stream(s)) : OccursAt(Stream(s), SUFFIX, e) /\ e + 1 <= r
          BY <1>1, <1>3, <2>1, <3>1, <4>2, FrameShows
        <5>2. AtHead(s, p, r, v, f) /\ f = 0
          BY <1>1, <1>3, <1>7, <5>1
        <5>3. PICK g : g = FindFrom(Stream(s), SUFFIX, p + 4)
          OBVIOUS
        <5>4. /\ f = 0 => g = 0 \/ g + 1 > r
              /\ g = 0 => \A k \in (p + 4)..Len(Stream(s)) : ~OccursAt(Stream(s), SUFFIX, k)
              /\ g # 0 => /\ g \in (p + 4)..Len(Stream(s))
                          /\ \A k \in (p + 4)..Len(Stream(s)) : k < g => ~OccursAt(Stream(s), SUFFIX, k)
          BY <1>1, <5>2, <5>3, HeadSearched
        <5>5. PICK e \in (p + 7)..Len(Stream(s)) : OccursAt(Stream(s), SUFFIX, e) /\ e + 1 <= r
          BY <5>1
        <5>6. e \in (p + 4)..Len(Stream(s)) /\ e \in Nat
          BY <1>1, <1>2
        <5>7. g # 0 /\ ~(e < g)
          BY <5>4, <5>5, <5>6
        <5>8. g \in Nat /\ g + 1 > r
          BY <1>1, <1>2, <5>2, <5>4, <5>7
        <5> QED BY <1>3, <5>5, <5>6, <5>7, <5>8
      <4>3. CASE j = i
        BY <2>4, <3>1, <4>3
      <4> QED BY <4>1, <4>2, <4>3
    <3> QED BY <3>1 DEF AtRest
  <2> QED BY <2>3, <2>4
<1>8. CASE l = -1
  <2>1. p + 3 > r \/ (AtHead(s, p, r, v, f) /\ f = 0)
    BY <1>5, <1>8
  <2> QED BY <1>6, <1>7, <1>8, <2>1 DEF At
<1> QED BY <1>4, <1>8

-----------------------------------------------------------------------------
(* The invariant, and what keeps it. *)

ShownAs(s, x) ==
  /\ x \in Seq(Marks) /\ Len(x) <= Len(Seen(s))
  /\ \A k \in 1..Len(x) : x[k] = Seen(s)[k]

\* Of the stream r bytes have come, and p of them are handled.
Holds(p, r) ==
  /\ p \in Nat /\ r \in p..Len(Stream(said))
  /\ wire = SubSeq(Stream(said), r + 1, Len(Stream(said)))
  /\ pending = SubSeq(Stream(said), p + 1, r)
  /\ At(said, p, Len(shown), pendingLen)
  /\ pc # "decode" => AtRest(said, r, Len(shown))

ShowInv ==
  /\ scenario \in Scenarios /\ ShownAs(said, shown)
  /\ pc # "done" => \E p, r \in Nat : Holds(p, r)

LEMMA SaidIsLaid ==
  ASSUME scenario \in Scenarios
  PROVE  /\ Laid(said) /\ Harmless(said)
         /\ Stream(said) \in Seq(Bytes) /\ Len(Stream(said)) \in Nat
         /\ Seen(said) \in Seq(Marks) /\ Len(Seen(said)) \in Nat
<1>1. Laid(said) /\ Harmless(said)
  BY Layout, HarmlessAssumption DEF said
<1> QED BY <1>1, LenProperties DEF Laid

\* The marks that are next.
NextMarks(s, n, t, m) ==
  /\ t \in Seq(Marks) /\ m = Len(t) /\ n + m <= Len(Seen(s))
  /\ \A k \in 1..m : t[k] = Seen(s)[n + k]

ShownMore(s, x, m, y) == ShownAs(s, y) /\ Len(y) = Len(x) + m

LEMMA ShowsMore ==
  ASSUME NEW s, NEW x, ShownAs(s, x), NEW t, NEW m, NextMarks(s, Len(x), t, m),
         NEW y, y = x \o t
  PROVE  ShownMore(s, x, m, y)
<1> USE DEF NextMarks
<1>1. x \in Seq(Marks) /\ Len(x) \in Nat /\ m \in Nat
  BY LenProperties DEF ShownAs
<1>2. BothAs(Marks, x, t, y)
  BY <1>1, BothParts
<1>3. /\ y \in Seq(Marks) /\ Len(y) = Len(x) + m
      /\ \A k \in 1..Len(x) : y[k] = x[k]
      /\ \A k \in 1..m : y[Len(x) + k] = t[k]
  BY <1>2 DEF BothAs
<1>4. ASSUME NEW k \in 1..Len(y) PROVE y[k] = Seen(s)[k]
  <2>1. CASE k <= Len(x)
    BY <1>1, <1>3, <2>1 DEF ShownAs
  <2>2. CASE ~(k <= Len(x))
    <3>1. PICK j : j = k - Len(x)
      OBVIOUS
    <3>2. j \in 1..m /\ Len(x) + j = k
      BY <1>1, <1>3, <2>2, <3>1
    <3>3. y[Len(x) + j] = t[j] /\ t[j] = Seen(s)[Len(x) + j]
      BY <1>3, <3>2
    <3> QED BY <3>2, <3>3
  <2> QED BY <2>1, <2>2
<1> QED BY <1>3, <1>4 DEF ShownAs, ShownMore

\* The first m bytes of the window, and what is left of it.
CutAs(w, p, r, m, off, rest) ==
  /\ off \in Seq(Bytes) /\ Len(off) = m /\ \A k \in 1..m : off[k] = w[p + k]
  /\ rest = SubSeq(w, (p + m) + 1, r)

LEMMA WindowCut ==
  ASSUME NEW w \in Seq(Bytes), NEW p \in Nat, NEW r \in p..Len(w), NEW v, v = SubSeq(w, p + 1, r),
         NEW m \in 0..(r - p), NEW off, off = SubSeq(v, 1, m), NEW rest, rest = SubSeq(v, m + 1, Len(v))
  PROVE  CutAs(w, p, r, m, off, rest)
<1>1. v \in Seq(Bytes) /\ Len(v) = r - p /\ Len(w) \in Nat /\ r \in Nat
  BY Window, LenProperties
<1>2. PICK x : x = SubSeq(v, 0 + 1, m)
  OBVIOUS
<1>3. Within(w, p, 0, m, x)
  <2>1. 0 \in Nat /\ m \in 0..(r - p)
    OBVIOUS
  <2> QED BY <1>2, <2>1, WindowOfWindow, Zenon
<1>4. Len(x) = m /\ \A k \in 1..m : x[k] = w[p + k]
  <2>1. m - 0 = m /\ p + 0 = p
    BY <1>1
  <2> QED BY <1>3, <2>1 DEF Within
<1>5. x \in Seq(Bytes)
  <2>1. 0 \in Nat /\ m \in 0..Len(v)
    BY <1>1
  <2> QED BY <1>1, <1>2, <2>1, Window
<1>6. PICK y : y = SubSeq(v, m + 1, r - p)
  OBVIOUS
<1>7. Within(w, p, m, r - p, y)
  <2>1. m \in Nat /\ r - p \in m..(r - p)
    BY <1>1
  <2> QED BY <1>6, <2>1, WindowOfWindow, Zenon
<1>8. y = SubSeq(w, (p + m) + 1, r)
  <2>1. p + (r - p) = r
    BY <1>1
  <2> QED BY <1>7, <2>1 DEF Within
<1>9. off = x
  BY <1>2
<1>10. rest = y
  BY <1>1, <1>6
<1> QED BY <1>4, <1>5, <1>8, <1>9, <1>10 DEF CutAs

\* Every round of the decoder ends as this says.
LEMMA MovesOn ==
  ASSUME ShowInv, UNCHANGED <<scenario, wire>>, NEW p \in Nat, NEW r \in Nat, Holds(p, r),
         NEW q \in Nat, r \in q..Len(Stream(said)), pending' = SubSeq(Stream(said), q + 1, r),
         ShownAs(said, shown'), pc' = "decode" \/ pc' = "done",
         pc' = "decode" => At(said, q, Len(shown'), pendingLen')
  PROVE  ShowInv'
<1>1. said' = said /\ scenario' \in Scenarios
  BY DEF said, ShowInv
<1>2. Stream(said)' = Stream(said) /\ Seen(said)' = Seen(said)
  BY <1>1
<1>3. ShownAs(said, shown)'
  BY <1>1, <1>2 DEF ShownAs
<1>4. CASE pc' = "done"
  BY <1>1, <1>3, <1>4 DEF ShowInv
<1>5. CASE pc' = "decode"
  <2>1. At(said, q, Len(shown), pendingLen)'
    BY <1>1, <1>5
  <2>2. Holds(q, r)'
    BY <1>1, <1>2, <1>5, <2>1 DEF Holds
  <2> QED BY <1>1, <1>3, <2>2 DEF ShowInv
<1> QED BY <1>4, <1>5

\* A round that shows the next m bytes as they are.
LEMMA PassesOn ==
  ASSUME ShowInv, UNCHANGED <<scenario, wire>>, NEW p \in Nat, NEW r \in Nat, Holds(p, r), pc = "decode",
         NEW m \in 0..(r - p), Drop(m), Show(FirstBytes(m)), pendingLen' = -1,
         At(said, p + m, Len(shown) + m, -1), SameBytes(said, p, Len(shown), m)
  PROVE  ShowInv'
<1>1. /\ Laid(said) /\ Stream(said) \in Seq(Bytes) /\ Len(Stream(said)) \in Nat
      /\ Len(Seen(said)) \in Nat /\ ShownAs(said, shown)
  BY SaidIsLaid DEF ShowInv
<1>2. r \in p..Len(Stream(said)) /\ pending = SubSeq(Stream(said), p + 1, r)
  BY DEF Holds
<1>3. PICK t : t = FirstBytes(m)
  OBVIOUS
<1>4. /\ t \in Seq(Bytes) /\ Len(t) = m /\ \A k \in 1..m : t[k] = Stream(said)[p + k]
      /\ pending' = SubSeq(Stream(said), (p + m) + 1, r)
  <2>1. CutAs(Stream(said), p, r, m, t, pending')
    <3>1. t = SubSeq(pending, 1, m) /\ pending' = SubSeq(pending, m + 1, Len(pending))
      BY <1>3 DEF FirstBytes, Drop
    <3> QED BY <1>1, <1>2, <3>1, WindowCut, Zenon
  <2> QED BY <2>1 DEF CutAs
<1>5. t \in Seq(Marks)
  <2>1. Bytes \subseteq Marks
    BY DEF Marks
  <2> QED BY <1>4, <2>1, SeqOfMore
<1>6. p + m \in Nat /\ r \in (p + m)..Len(Stream(said))
  BY <1>1, <1>2
<1>7. CASE protocolReady
  <2>1. shown' = shown \o t /\ pc' = "decode"
    BY <1>3, <1>7 DEF Show, Continues
  <2>2. \A k \in 1..m : t[k] = Seen(said)[Len(shown) + k]
    BY <1>4 DEF SameBytes
  <2>3. Len(shown) + m <= Len(Seen(said))
    BY <1>1, InBounds
  <2>4. ShownAs(said, shown') /\ Len(shown') = Len(shown) + m
    <3>1. NextMarks(said, Len(shown), t, m)
      BY <1>4, <1>5, <2>2, <2>3 DEF NextMarks
    <3>2. ShownAs(said, shown) /\ shown' = shown \o t
      BY <1>1, <2>1
    <3>3. ShownMore(said, shown, m, shown')
      BY <3>1, <3>2, ShowsMore, Zenon
    <3> QED BY <3>3 DEF ShownMore
  <2> QED BY <1>4, <1>6, <2>1, <2>4, MovesOn
<1>8. CASE ~protocolReady
  <2>1. shown' = shown /\ pc' = "done"
    BY <1>8 DEF Show, Done
  <2> QED BY <1>1, <1>4, <1>6, <2>1, MovesOn
<1> QED BY <1>7, <1>8

\* Whatever else happens leaves the decoder alone, or ends the join.
LEMMA Elsewhere ==
  ASSUME ShowInv, UNCHANGED <<scenario, wire, pending, pendingLen, shown>>,
         pc' = "done" \/ pc' = pc \/ (pc' # "decode" /\ pc # "decode" /\ pc # "done")
  PROVE  ShowInv'
<1>1. said' = said /\ scenario' \in Scenarios
  BY DEF said, ShowInv
<1>2. Stream(said)' = Stream(said) /\ Seen(said)' = Seen(said)
  BY <1>1
<1>3. ShownAs(said, shown)'
  BY <1>1, <1>2 DEF ShownAs, ShowInv
<1>4. CASE pc' = "done"
  BY <1>1, <1>3, <1>4 DEF ShowInv
<1>5. CASE pc' # "done"
  <2>1. PICK p \in Nat, r \in Nat : Holds(p, r)
    BY <1>5 DEF ShowInv
  <2>2. At(said, p, Len(shown), pendingLen)'
    BY <1>1, <2>1 DEF Holds
  <2>3. (pc # "decode" => AtRest(said, r, Len(shown)))'
    <3>1. pc' # "decode" => pc # "decode"
      BY <1>5
    <3> QED BY <1>1, <2>1, <3>1 DEF Holds
  <2>4. Holds(p, r)'
    BY <1>1, <1>2, <2>1, <2>2, <2>3 DEF Holds
  <2> QED BY <1>1, <1>3, <2>4 DEF ShowInv
<1> QED BY <1>4, <1>5

LEMMA ReadHolds ==
  ASSUME ShowInv, ReadStream
  PROVE  ShowInv'
<1> USE DEF hostVars, streamVars
<1>1. PICK p \in Nat, r \in Nat : Holds(p, r)
  BY DEF ShowInv, ReadStream
<1>2. PICK w : w = Stream(said)
  OBVIOUS
<1>3. /\ w \in Seq(Bytes) /\ Len(w) \in Nat /\ r \in p..Len(w)
      /\ wire = SubSeq(w, r + 1, Len(w)) /\ pending = SubSeq(w, p + 1, r)
  BY <1>1, <1>2, SaidIsLaid DEF ShowInv, Holds
<1>4. wire \in Seq(Bytes) /\ Len(wire) = Len(w) - r /\ \A k \in 1..(Len(w) - r) : wire[k] = w[r + k]
  <2>1. Len(w) \in r..Len(w)
    BY <1>3
  <2> QED BY <1>3, <2>1, Window
<1>5. PICK n \in 1..Min({MaxRead, Len(wire)}) :
        pending' = pending \o SubSeq(wire, 1, n) /\ wire' = SubSeq(wire, n + 1, Len(wire))
  BY DEF ReadStream
<1>6. n \in 0..Len(wire) /\ n \in Nat
  <2>1. MaxRead \in Nat /\ Len(wire) \in Nat
    BY <1>4, JoinAssumption, LenProperties
  <2> DEFINE two == {MaxRead, Len(wire)}
  <2>2. two \in SUBSET Nat /\ two # {} /\ Len(wire) \in two
    BY <2>1
  <2>3. n \in 1..Min(two)
    OBVIOUS
  <2> HIDE DEF two
  <2>4. Min(two) \in Nat /\ Min(two) <= Len(wire)
    BY <2>2, MinIsLeast
  <2> QED BY <2>1, <2>3, <2>4
<1>7. PICK t : t = SubSeq(wire, 1, n)
  OBVIOUS
<1>8. /\ t \in Seq(Bytes) /\ Len(t) = n /\ \A k \in 1..n : t[k] = w[r + k]
      /\ wire' = SubSeq(w, (r + n) + 1, Len(w))
  <2>1. Len(w) \in r..Len(w) /\ n \in 0..(Len(w) - r)
    BY <1>3, <1>4, <1>6
  <2>2. r \in Nat
    OBVIOUS
  <2>3. CutAs(w, r, Len(w), n, t, wire')
    <3>1. Len(w) \in r..Len(w) /\ wire' = SubSeq(wire, n + 1, Len(wire))
      BY <1>5, <2>1
    <3> QED BY <1>3, <1>7, <2>1, <2>2, <3>1, WindowCut, Zenon
  <2> QED BY <2>3 DEF CutAs
<1>9. PICK q : q = r + n
  OBVIOUS
<1>10. q \in Nat /\ q \in r..Len(w) /\ q \in p..Len(w)
  BY <1>3, <1>4, <1>6, <1>9
<1>11. pending' = SubSeq(w, p + 1, q)
  <2>1. PICK v : v = pending
    OBVIOUS
  <2>2. v \in Seq(Bytes) /\ Len(v) = r - p /\ \A k \in 1..(r - p) : v[k] = w[p + k]
    BY <1>3, <2>1, Window
  <2>3. PICK x : x = v \o t
    OBVIOUS
  <2>4. BothAs(Bytes, v, t, x)
    BY <1>8, <2>2, <2>3, BothParts
  <2>5. PICK y : y = SubSeq(w, p + 1, q)
    OBVIOUS
  <2>6. y \in Seq(Bytes) /\ Len(y) = q - p /\ \A k \in 1..(q - p) : y[k] = w[p + k]
    BY <1>3, <1>10, <2>5, Window
  <2>7. /\ x \in Seq(Bytes) /\ Len(x) = (r - p) + n
        /\ \A k \in 1..(r - p) : x[k] = v[k]
        /\ \A k \in 1..n : x[(r - p) + k] = t[k]
    BY <1>8, <2>2, <2>4 DEF BothAs
  <2>8. Len(x) = q - p /\ q - p \in Nat /\ r - p \in Nat
    BY <1>3, <1>6, <1>9, <1>10, <2>7
  <2>9. ASSUME NEW k \in 1..(q - p) PROVE x[k] = y[k]
    <3>1. CASE k <= r - p
      <4>1. k \in 1..(r - p)
        BY <3>1
      <4> QED BY <2>2, <2>6, <2>7, <4>1
    <3>2. CASE ~(k <= r - p)
      <4>1. PICK j : j = k - (r - p)
        OBVIOUS
      <4>2. j \in 1..n /\ (r - p) + j = k /\ r + j = p + k
        BY <1>3, <1>6, <1>9, <2>8, <3>2, <4>1
      <4>3. x[k] = w[p + k]
        BY <1>8, <2>7, <4>2
      <4> QED BY <2>6, <4>3
    <3> QED BY <3>1, <3>2
  <2>10. x = y
    BY <2>6, <2>7, <2>8, <2>9, SeqEqual
  <2> QED BY <1>5, <1>7, <2>1, <2>3, <2>5, <2>10
<1>12. said' = said /\ scenario' \in Scenarios /\ pc' = "decode" /\ shown' = shown /\ pendingLen' = pendingLen
  BY DEF said, ShowInv, ReadStream
<1>13. Stream(said)' = Stream(said) /\ Seen(said)' = Seen(said)
  BY <1>12
<1>14. Holds(p, q)'
  <2>1. At(said, p, Len(shown), pendingLen)'
    BY <1>1, <1>12 DEF Holds
  <2>2. wire' = SubSeq(w, q + 1, Len(w))
    BY <1>8, <1>9
  <2> QED BY <1>2, <1>10, <1>11, <1>12, <1>13, <2>1, <2>2 DEF Holds
<1>15. ShownAs(said, shown)'
  BY <1>12, <1>13 DEF ShownAs, ShowInv
<1> QED BY <1>10, <1>12, <1>14, <1>15 DEF ShowInv

LEMMA InitShown ==
  ASSUME Init
  PROVE  ShowInv
<1>1. scenario \in Scenarios /\ wire = EncodedAll(said) /\ pending = <<>> /\ pendingLen = -1 /\ shown = <<>>
  BY DEF Init
<1>2. /\ Laid(said) /\ Stream(said) \in Seq(Bytes) /\ Len(Stream(said)) \in Nat
      /\ Len(Seen(said)) \in Nat
  BY <1>1, SaidIsLaid
<1>3. PICK w : w = Stream(said)
  OBVIOUS
<1>4. SubSeq(w, 1, Len(w)) = w /\ SubSeq(w, 1, 0) = <<>> /\ Len(w) \in Nat
  BY <1>2, <1>3, WholePrefix
<1>5. Len(shown) = 0 /\ shown \in Seq(Marks)
  <2>1. <<>> \in Seq(Marks)
    BY EmptySeq
  <2> QED BY <1>1, <2>1, EmptySeq
<1>6. ShownAs(said, shown)
  BY <1>2, <1>5 DEF ShownAs
<1>7. At(said, 0, Len(shown), pendingLen)
  <2>1. E(said, 0) = 0 /\ F(said, 0) = 0 /\ 0 \in 0..Len(said)
    BY <1>2 DEF Laid
  <2>2. At(said, E(said, 0), F(said, 0), -1)
    BY <1>2, <2>1, Borders
  <2> QED BY <1>1, <1>5, <2>1, <2>2
<1>8. AtRest(said, 0, Len(shown))
  <2>1. ASSUME NEW j \in 1..Len(said), E(said, j) <= 0, said[j].kind # "raw" PROVE FALSE
    <3>1. PICK e : e = E(said, j - 1)
      OBVIOUS
    <3>2. e \in Nat /\ e + 7 <= E(said, j) /\ E(said, j) \in Nat
      BY <1>2, <2>1, <3>1, FrameFound
    <3> QED BY <2>1, <3>2
  <2> QED BY <2>1 DEF AtRest
<1>9. Holds(0, 0)
  <2>1. wire = SubSeq(w, 0 + 1, Len(w)) /\ pending = SubSeq(w, 0 + 1, 0)
    BY <1>1, <1>3, <1>4 DEF Stream
  <2>2. 0 \in 0..Len(w)
    BY <1>4
  <2> QED BY <1>3, <1>7, <1>8, <2>1, <2>2 DEF Holds
<1> QED BY <1>1, <1>6, <1>9 DEF ShowInv

\* In the middle of a round: the window, and where it begins.
Rounds(p, r) ==
  /\ ShowInv /\ UNCHANGED <<scenario, wire>> /\ pc = "decode"
  /\ p \in Nat /\ r \in Nat /\ Holds(p, r)
  /\ Laid(said) /\ Harmless(said) /\ ShownAs(said, shown)
  /\ Stream(said) \in Seq(Bytes) /\ Len(Stream(said)) \in Nat
  /\ r \in p..Len(Stream(said)) /\ pending = SubSeq(Stream(said), p + 1, r)
  /\ Len(pending) = r - p /\ Len(shown) \in Nat
  /\ At(said, p, Len(shown), pendingLen)

LEMMA RoundBegins ==
  ASSUME ShowInv, DecodeStep, Decoded
  PROVE  \E p, r : Rounds(p, r)
<1>1. pc = "decode" /\ UNCHANGED <<scenario, wire>>
  BY DEF DecodeStep, Decoded, hostVars
<1>2. PICK p \in Nat, r \in Nat : Holds(p, r)
  BY <1>1 DEF ShowInv
<1>3. /\ Laid(said) /\ Harmless(said) /\ ShownAs(said, shown)
      /\ Stream(said) \in Seq(Bytes) /\ Len(Stream(said)) \in Nat
  BY SaidIsLaid DEF ShowInv
<1>4. /\ r \in p..Len(Stream(said)) /\ pending = SubSeq(Stream(said), p + 1, r)
      /\ At(said, p, Len(shown), pendingLen)
  BY <1>2 DEF Holds
<1>5. Len(pending) = r - p
  BY <1>3, <1>4, Window
<1>6. Len(shown) \in Nat
  BY <1>3, LenProperties DEF ShownAs
<1>7. Rounds(p, r)
  BY <1>1, <1>2, <1>3, <1>4, <1>5, <1>6 DEF Rounds
<1> QED BY <1>7

LEMMA AtLength ==
  ASSUME NEW s, Laid(s), NEW p, NEW n, NEW l, At(s, p, n, l)
  PROVE  l = -1 \/ l \in Nat
<1>1. ASSUME NEW i \in 1..Len(s), s[i].kind = "data", l = Len(s[i].value) PROVE l \in Nat
  <2>1. PieceAt(s, i)
    BY DEF Laid
  <2>2. Len(s[i].value) \in 0..MaxData
    BY <1>1, <2>1 DEF PieceAt, Lies
  <2> QED BY <1>1, <2>2, JoinAssumption
<1> QED BY <1>1 DEF At, InPiece

LEMMA DataHolds ==
  ASSUME ShowInv, EmptyFrame \/ DataFrame
  PROVE  ShowInv'
<1>1. PICK p, r : Rounds(p, r)
  BY RoundBegins DEF EmptyFrame, DataFrame
<1>2. pendingLen \in Nat /\ p \in Nat /\ r \in Nat /\ r - p \in Nat
  <2>1. pendingLen = -1 \/ pendingLen \in Nat
    BY <1>1, AtLength DEF Rounds
  <2>2. ~(pendingLen = -1)
    BY DEF EmptyFrame, DataFrame
  <2> QED BY <1>1, <2>1, <2>2 DEF Rounds
<1>3. /\ At(said, p + pendingLen, Len(shown) + pendingLen, -1)
      /\ SameBytes(said, p, Len(shown), pendingLen)
  BY <1>1, <1>2, DataShown DEF Rounds
<1>4. CASE DataFrame
  <2>1. /\ Drop(pendingLen) /\ Show(FirstBytes(pendingLen)) /\ pendingLen' = -1
        /\ Len(pending) >= pendingLen
    BY <1>4 DEF DataFrame
  <2>2. pendingLen \in 0..(r - p)
    BY <1>1, <1>2, <2>1 DEF Rounds
  <2> QED BY <1>1, <1>3, <2>1, <2>2, PassesOn DEF Rounds
<1>5. CASE EmptyFrame
  <2>1. UNCHANGED <<pending, shown, pc>> /\ pendingLen = 0 /\ pendingLen' = -1
    BY <1>5 DEF EmptyFrame, Continues
  <2>2. At(said, p, Len(shown'), pendingLen')
    <3>1. p + 0 = p /\ Len(shown) + 0 = Len(shown)
      BY <1>1 DEF Rounds
    <3> QED BY <1>3, <2>1, <3>1
  <2>3. pending' = SubSeq(Stream(said), p + 1, r) /\ ShownAs(said, shown') /\ pc' = "decode"
    BY <1>1, <2>1 DEF Rounds
  <2> QED BY <1>1, <2>2, <2>3, MovesOn DEF Rounds
<1> QED BY <1>4, <1>5

LEMMA UnframedHolds ==
  ASSUME ShowInv, Unframed
  PROVE  ShowInv'
<1>1. PICK p, r : Rounds(p, r)
  BY RoundBegins DEF Unframed
<1>2. PICK m : m = Loose(pending)
  OBVIOUS
<1>3. Drop(m) /\ Show(FirstBytes(m)) /\ pendingLen = -1 /\ pendingLen' = -1
  BY <1>2 DEF Unframed, Start, Loose
<1>4. /\ m \in 0..(r - p)
      /\ At(said, p + m, Len(shown) + m, -1) /\ SameBytes(said, p, Len(shown), m)
  BY <1>1, <1>2, <1>3, LooseShown DEF Rounds
<1> QED BY <1>1, <1>3, <1>4, PassesOn DEF Rounds

\* The searches of a round that begins at a prefix.
LEMMA PrefixAtHead ==
  ASSUME NEW p, NEW r, Rounds(p, r), Start = 1
  PROVE  AtHead(said, p, r, pending, Suffix)
  BY DEF Rounds, AtHead, Start, Suffix

LEMMA OverlongHolds ==
  ASSUME ShowInv, OverlongControl
  PROVE  ShowInv'
<1>1. PICK p, r : Rounds(p, r)
  BY RoundBegins DEF OverlongControl
<1>2. /\ Drop(1) /\ Show(FirstBytes(1)) /\ pendingLen = -1 /\ pendingLen' = -1
      /\ Start = 1 /\ Suffix = 0 /\ Len(pending) > MaxControl
  BY DEF OverlongControl
<1>3. PICK f : f = Suffix
  OBVIOUS
<1>4. AtHead(said, p, r, pending, f) /\ f = 0
  BY <1>1, <1>2, <1>3, PrefixAtHead
<1>5. r - p > MaxControl /\ MaxControl \in Nat
  BY <1>1, <1>2, JoinAssumption DEF Rounds
<1>6. At(said, p + 1, Len(shown) + 1, -1) /\ SameBytes(said, p, Len(shown), 1)
  BY <1>1, <1>2, <1>4, <1>5, OverlongShown DEF Rounds
<1>7. 1 \in 0..(r - p)
  BY <1>1, <1>5 DEF Rounds
<1> QED BY <1>1, <1>2, <1>6, <1>7, PassesOn DEF Rounds

\* A control among bytes of no frame: it passes as they do.
LEMMA NoControlHolds ==
  ASSUME ShowInv, Control, NEW p, NEW r, Rounds(p, r),
         NEW i \in 1..Len(said), InPiece(said, i, p, Len(shown), -1), said[i].kind = "raw"
  PROVE  ShowInv'
<1>1. PICK f : f = Suffix
  OBVIOUS
<1>2. PICK c : c = ParseServerControl(SubSeq(pending, Len(PREFIX) + 1, f - 1))
  OBVIOUS
<1>3. f # 0 /\ pendingLen = -1 /\ AtHead(said, p, r, pending, f)
  BY <1>1, PrefixAtHead DEF Control
<1>4. /\ E(said, i - 1) <= p /\ p < E(said, i)
      /\ E(said, i - 1) \in Nat /\ E(said, i) \in Nat
  BY Between DEF Rounds
<1>5. c.kind = "none" /\ f \in Nat /\ p + (f + 1) <= E(said, i)
  <2>1. Laid(said) /\ Harmless(said) /\ p \in Nat /\ r \in p..Len(Stream(said))
    BY DEF Rounds
  <2>2. /\ ParseServerControl(SubSeq(pending, Len(PREFIX) + 1, f - 1)).kind = "none"
        /\ f \in Nat /\ p + (f + 1) <= E(said, i)
    BY <1>3, <1>4, <2>1, NothingObeyed, Zenon
  <2> QED BY <1>2, <2>2
<1>6. PICK m : m = f + 1
  OBVIOUS
<1>7. f + Len(SUFFIX) - 1 = m /\ m \in Nat
  <2>1. Len(SUFFIX) = 2
    BY Words
  <2> QED BY <1>5, <1>6, <2>1
<1>8. Drop(m) /\ Show(FirstBytes(m)) /\ pendingLen' = -1
  BY <1>1, <1>2, <1>3, <1>5, <1>7 DEF Control
<1>9. At(said, p + m, Len(shown) + m, -1) /\ SameBytes(said, p, Len(shown), m)
  BY <1>5, <1>6, <1>7, RawShown DEF Rounds
<1>10. m \in 0..(r - p)
  <2>1. f \in 4..(r - p) /\ p + f + 1 <= r
    <3>1. PICK g : g = FindFrom(Stream(said), SUFFIX, p + 4)
      OBVIOUS
    <3>2. f \in 4..(r - p) /\ g = p + f /\ g + 1 <= r
      BY <1>3, <3>1, HeadSearched DEF Rounds
    <3> QED BY <3>2
  <2> QED BY <1>6, <1>7, <2>1 DEF Rounds
<1> QED BY <1>8, <1>9, <1>10, PassesOn DEF Rounds

\* The control of a frame: it is obeyed, and what it says is what was said.
LEMMA FrameHolds ==
  ASSUME ShowInv, Control, NEW p, NEW r, Rounds(p, r),
         NEW i \in 1..Len(said), InPiece(said, i, p, Len(shown), -1), said[i].kind # "raw"
  PROVE  ShowInv'
<1>1. PICK f : f = Suffix
  OBVIOUS
<1>2. PICK c : c = ParseServerControl(SubSeq(pending, Len(PREFIX) + 1, f - 1))
  OBVIOUS
<1>3. f # 0 /\ pendingLen = -1 /\ AtHead(said, p, r, pending, f)
  BY <1>1, PrefixAtHead DEF Control
<1>4. p = E(said, i - 1) /\ Len(shown) = F(said, i - 1)
  BY Between DEF Rounds
<1>5. f = 6 /\ c.kind = said[i].kind /\ c.value = FieldOf(said[i])
  <2>1. Laid(said) /\ p \in Nat /\ r \in p..Len(Stream(said))
    BY DEF Rounds
  <2>2. ReadAs(pending, f, c)
    BY <1>2 DEF ReadAs
  <2> QED BY <1>3, <1>4, <2>1, <2>2, ControlObeyed, SMTT(30)
<1>6. p + 7 <= r
  <2>1. Laid(said) /\ p \in Nat /\ r \in p..Len(Stream(said))
    BY DEF Rounds
  <2> QED BY <1>3, <1>4, <2>1, FrameHeaded, SMTT(30)
<1>7. PICK q : q = p + 7
  OBVIOUS
<1>8. q \in Nat /\ r \in q..Len(Stream(said))
  BY <1>6, <1>7 DEF Rounds
<1>9. Drop(7)
  <2>1. Len(SUFFIX) = 2
    BY Words
  <2>2. f + Len(SUFFIX) - 1 = 7
    BY <1>5, <2>1
  <2> QED BY <1>1, <2>2 DEF Control
<1>10. pending' = SubSeq(Stream(said), q + 1, r)
  <2>1. PICK t : t = SubSeq(pending, 1, 7)
    OBVIOUS
  <2>2. CutAs(Stream(said), p, r, 7, t, pending')
    <3>1. pending' = SubSeq(pending, 7 + 1, Len(pending)) /\ 7 \in 0..(r - p)
      <4>1. p \in Nat /\ r \in Nat
        BY DEF Rounds
      <4>2. 7 \in 0..(r - p)
        BY <1>6, <4>1
      <4> QED BY <1>9, <4>2 DEF Drop
    <3>2. /\ Stream(said) \in Seq(Bytes) /\ p \in Nat /\ r \in p..Len(Stream(said))
          /\ pending = SubSeq(Stream(said), p + 1, r)
      BY DEF Rounds
    <3> QED BY <2>1, <3>1, <3>2, WindowCut, Zenon
  <2> QED BY <1>7, <2>2 DEF CutAs
<1>11. PieceAt(said, i) /\ i \in 0..Len(said)
  BY DEF Rounds, Laid
<1>12. Lies(said[i], Stream(said), Seen(said), p, Len(shown), E(said, i), F(said, i))
  BY <1>4, <1>11 DEF PieceAt
<1>13. At(said, E(said, i), F(said, i), -1)
  BY <1>11, Borders DEF Rounds
<1>14. pc = "decode" /\ pc' \in {"decode", "done"}
  BY DEF Control, Show, Continues, Done, Rounds
<1>15. ShownAs(said, shown)
  BY DEF Rounds
<1>16. CASE said[i].kind = "hello"
  <2>1. pendingLen' = -1 /\ shown' = shown
    BY <1>1, <1>2, <1>3, <1>5, <1>16 DEF Control
  <2>2. E(said, i) = q /\ F(said, i) = Len(shown)
    BY <1>7, <1>12, <1>16 DEF Lies
  <2>3. At(said, q, Len(shown'), pendingLen') /\ ShownAs(said, shown')
    BY <1>13, <1>15, <2>1, <2>2
  <2> QED BY <1>8, <1>10, <1>14, <2>3, MovesOn DEF Rounds
<1>17. CASE said[i].kind = "data"
  <2>1. PICK n : n = Len(said[i].value)
    OBVIOUS
  <2>2. n \in 0..MaxData /\ c.value = Decimal[n]
    BY <1>5, <1>12, <1>17, <2>1 DEF Lies, FieldOf
  <2>3. pendingLen' = n /\ shown' = shown
    <3>1. pendingLen' = LengthOf(c.value) /\ shown' = shown
      BY <1>1, <1>2, <1>5, <1>17 DEF Control
    <3> QED BY <2>2, <3>1, LengthIs
  <2>4. InPiece(said, i, q, Len(shown), n)
    BY <1>4, <1>7, <1>17, <2>1 DEF InPiece
  <2>5. At(said, q, Len(shown'), pendingLen') /\ ShownAs(said, shown')
    BY <1>8, <1>15, <2>3, <2>4 DEF At, Rounds
  <2> QED BY <1>8, <1>10, <1>14, <2>5, MovesOn DEF Rounds
<1>18. CASE said[i].kind = "size"
  <2>1. PICK v : v = said[i].value
    OBVIOUS
  <2>2. c.kind = "size" /\ c.value = v
    BY <1>5, <1>18, <2>1 DEF FieldOf
  <2>3. PICK b : b = Resized(v)
    OBVIOUS
  <2>4. Show(<<b>>) /\ pendingLen' = -1
    BY <1>1, <1>2, <1>3, <2>2, <2>3 DEF Control
  <2>5. /\ v \in Number /\ E(said, i) = q /\ F(said, i) = Len(shown) + 1
        /\ Seen(said)[Len(shown) + 1] = b
    BY <1>7, <1>12, <1>18, <2>1, <2>3 DEF Lies
  <2>6. b \in Marks
    BY <2>3, <2>5 DEF Marks
  <2>7. CASE protocolReady
    <3>1. PICK t : t = <<b>>
      OBVIOUS
    <3>2. t \in Seq(Marks) /\ Len(t) = 1 /\ t[1] = b
      BY <2>6, <3>1
    <3>3. shown' = shown \o t
      BY <2>4, <2>7, <3>1 DEF Show
    <3>4. Len(shown) + 1 <= Len(Seen(said))
      BY <1>13, <2>5, InBounds DEF Rounds
    <3>5. ASSUME NEW k \in 1..1 PROVE t[k] = Seen(said)[Len(shown) + k]
      <4>1. k = 1
        OBVIOUS
      <4> QED BY <2>5, <3>2, <4>1
    <3>6. NextMarks(said, Len(shown), t, 1)
      BY <3>2, <3>4, <3>5 DEF NextMarks
    <3>7. ShownMore(said, shown, 1, shown')
      BY <1>15, <3>3, <3>6, ShowsMore, Zenon
    <3>8. ShownAs(said, shown') /\ Len(shown') = Len(shown) + 1
      BY <3>7 DEF ShownMore
    <3>9. At(said, q, Len(shown'), pendingLen')
      BY <1>13, <2>4, <2>5, <3>8
    <3> QED BY <1>8, <1>10, <1>14, <3>8, <3>9, MovesOn DEF Rounds
  <2>8. CASE ~protocolReady
    <3>1. shown' = shown /\ pc' = "done"
      BY <2>4, <2>8 DEF Show, Done
    <3>2. ShownAs(said, shown')
      BY <1>15, <3>1
    <3> QED BY <1>8, <1>10, <3>1, <3>2, MovesOn DEF Rounds
  <2> QED BY <2>7, <2>8
<1> QED BY <1>12, <1>16, <1>17, <1>18 DEF Lies

LEMMA ControlHolds ==
  ASSUME ShowInv, Control
  PROVE  ShowInv'
<1>1. DecodeStep /\ Decoded /\ pendingLen = -1 /\ Start = 1
  BY DEF Control
<1>2. PICK p, r : Rounds(p, r)
  BY <1>1, RoundBegins
<1>3. p + 3 <= r
  <2>1. PICK f : f = Suffix
    OBVIOUS
  <2>2. PICK g : g = FindFrom(Stream(said), SUFFIX, p + 4)
    OBVIOUS
  <2>3. AtHead(said, p, r, pending, f)
    BY <1>1, <1>2, <2>1, PrefixAtHead
  <2> QED BY <1>2, <2>2, <2>3, HeadSearched DEF Rounds
<1>4. ~(p = E(said, Len(said)))
  <2>1. Len(Stream(said)) = E(said, Len(said)) /\ r <= Len(Stream(said)) /\ p \in Nat /\ r \in Nat
    BY <1>2 DEF Rounds, Laid
  <2>2. Len(Stream(said)) \in Nat
    BY <1>2 DEF Rounds
  <2> QED BY <1>3, <2>1, <2>2
<1>5. PICK i \in 1..Len(said) : InPiece(said, i, p, Len(shown), -1)
  BY <1>1, <1>2, <1>4 DEF Rounds, At
<1> QED BY <1>2, <1>5, NoControlHolds, FrameHolds

LEMMA WaitHolds ==
  ASSUME ShowInv, WaitForMore
  PROVE  ShowInv'
<1>1. DecodeStep /\ Decoded /\ UNCHANGED streamVars
  BY DEF WaitForMore
<1>2. PICK p, r : Rounds(p, r)
  BY <1>1, RoundBegins
<1>3. UNCHANGED <<pending, pendingLen, shown, scenario, wire>>
  BY <1>1 DEF streamVars, Decoded, hostVars
<1>4. AtRest(said, r, Len(shown))
  <2>1. PICK f : f = Suffix
    OBVIOUS
  <2>2. pendingLen = -1 \/ pendingLen \in Nat
    BY <1>2, AtLength DEF Rounds
  <2>3. \/ pendingLen \in Nat /\ r - p < pendingLen
        \/ pendingLen = -1 /\ r - p = PrefixOverlap(pending, PREFIX)
        \/ pendingLen = -1 /\ AtHead(said, p, r, pending, f) /\ f = 0
    <3>1. CASE pendingLen > 0 /\ Len(pending) < pendingLen
      <4>1. pendingLen \in Nat
        BY <2>2, <3>1
      <4> QED BY <1>2, <3>1, <4>1 DEF Rounds
    <3>2. CASE pendingLen = -1 /\ Start = 0 /\ Len(pending) = PrefixOverlap(pending, PREFIX)
      BY <1>2, <3>2 DEF Rounds
    <3>3. CASE pendingLen = -1 /\ Start = 1 /\ Suffix = 0
      BY <1>2, <2>1, <3>3, PrefixAtHead
    <3> QED BY <3>1, <3>2, <3>3 DEF WaitForMore
  <2> QED BY <1>2, <2>3, NothingHeld DEF Rounds
<1>5. said' = said /\ scenario' \in Scenarios
  BY <1>3 DEF said, ShowInv
<1>6. Stream(said)' = Stream(said) /\ Seen(said)' = Seen(said)
  BY <1>5
<1>7. ShownAs(said, shown)'
  BY <1>2, <1>3, <1>5, <1>6 DEF ShownAs, Rounds
<1>8. Holds(p, r)'
  <2>1. At(said, p, Len(shown), pendingLen)' /\ AtRest(said, r, Len(shown))'
    BY <1>2, <1>3, <1>4, <1>5 DEF Rounds
  <2> QED BY <1>2, <1>3, <1>5, <1>6, <2>1 DEF Rounds, Holds
<1> QED BY <1>2, <1>5, <1>7, <1>8 DEF ShowInv, Rounds

LEMMA NextShown ==
  ASSUME ShowInv, [Next]_vars
  PROVE  ShowInv'
<1> USE DEF hostVars, ttyVars, keyVars, streamVars
<1>1. CASE UNCHANGED vars
  BY <1>1, Elsewhere DEF vars
<1>2. CASE Press \/ HangUp \/ ChangeSize \/ Expire \/ HostCloses
  BY <1>2, Elsewhere DEF Press, HangUp, ChangeSize, Expire, HostCloses
<1>3. CASE Terminated \/ Poll \/ PollEarly \/ NothingToRead \/ StdinEnds
  BY <1>3, Elsewhere DEF Terminated, Done, Poll, PollEarly, NothingToRead, StdinEnds
<1>4. CASE SendResize
  <2>1. UNCHANGED <<scenario, wire, pending, pendingLen, shown>> /\ pc = "top"
    BY <1>4 DEF SendResize
  <2>2. pc' = "done" \/ pc' = "poll"
    BY <1>4 DEF SendResize, Done
  <2> QED BY <2>1, <2>2, Elsewhere
<1>5. CASE ReadStdin
  <2>1. UNCHANGED <<scenario, wire, pending, pendingLen, shown>> /\ pc = "stdin"
    BY <1>5 DEF ReadStdin
  <2>2. PICK last : IF LocalControls THEN RouteInput(last) ELSE PassInput(last)
    BY <1>5 DEF ReadStdin
  <2>3. pc' = "done" \/ pc' = "stream"
    BY <2>2 DEF RouteInput, PassInput, Done
  <2> QED BY <2>1, <2>3, Elsewhere
<1>6. CASE StreamIdle \/ StreamEnds
  BY <1>6, Elsewhere DEF StreamIdle, StreamEnds, Done
<1>7. CASE ReadStream
  BY <1>7, ReadHolds
<1>8. CASE EmptyFrame \/ DataFrame
  BY <1>8, DataHolds
<1>9. CASE Unframed
  BY <1>9, UnframedHolds
<1>10. CASE OverlongControl
  BY <1>10, OverlongHolds
<1>11. CASE Control
  BY <1>11, ControlHolds
<1>12. CASE WaitForMore
  BY <1>12, WaitHolds
<1>13. CASE Ended
  BY <1>1, <1>13 DEF Ended
<1> QED
  BY <1>1, <1>2, <1>3, <1>4, <1>5, <1>6, <1>7, <1>8, <1>9, <1>10, <1>11, <1>12, <1>13
     DEF Next, User, Loop

LEMMA ShowFollows ==
  ASSUME ShowInv
  PROVE  ShowsWhatWasSaid
<1>1. /\ Laid(said) /\ Stream(said) \in Seq(Bytes) /\ Len(Stream(said)) \in Nat
      /\ Seen(said) \in Seq(Marks) /\ Len(Seen(said)) \in Nat /\ ShownAs(said, shown)
  BY SaidIsLaid DEF ShowInv
<1>2. IsPrefix(shown, MeaningAll(said))
  <2>1. PICK t : t = Seen(said)
    OBVIOUS
  <2>2. PICK n : n = Len(shown)
    OBVIOUS
  <2>3. /\ shown \in Seq(Marks) /\ t \in Seq(Marks) /\ n <= Len(t) /\ Len(t) \in Nat
        /\ \A k \in 1..n : shown[k] = t[k]
    BY <1>1, <2>1, <2>2 DEF ShownAs
  <2>4. SubSeq(shown, 1, n) = shown /\ n \in Nat
    BY <2>2, <2>3, WholePrefix
  <2>5. PICK u : u = SubSeq(t, 1, n)
    OBVIOUS
  <2>6. u \in Seq(Marks) /\ Len(u) = n /\ \A k \in 1..n : u[k] = t[k]
    <3>1. 0 \in Nat /\ n \in 0..Len(t)
      BY <2>3, <2>4
    <3>2. PICK x : x = SubSeq(t, 0 + 1, n)
      OBVIOUS
    <3>3. x \in Seq(Marks) /\ Len(x) = n - 0 /\ \A k \in 1..(n - 0) : x[k] = t[0 + k]
      BY <2>3, <3>1, <3>2, Window
    <3>4. u = x /\ n - 0 = n
      BY <2>4, <2>5, <3>2
    <3>5. \A k \in 1..n : 0 + k = k
      BY <2>4
    <3> QED BY <3>3, <3>4, <3>5
  <2>7. ASSUME NEW k \in 1..n PROVE shown[k] = u[k]
    BY <2>3, <2>6
  <2>8. shown = u
    BY <2>2, <2>3, <2>6, <2>7, SeqEqual
  <2> QED BY <2>1, <2>2, <2>3, <2>4, <2>5, <2>8 DEF IsPrefix, Seen
<1>3. ASSUME pc \in {"top", "poll"}, NEW i \in Whole, said[i].kind # "raw"
      PROVE  Len(MeaningTo(said, i)) <= Len(shown)
  <2>1. PICK p \in Nat, r \in Nat : Holds(p, r)
    BY <1>3 DEF ShowInv
  <2>2. /\ r \in Nat /\ r <= Len(Stream(said)) /\ AtRest(said, r, Len(shown))
        /\ wire = SubSeq(Stream(said), r + 1, Len(Stream(said)))
    BY <1>1, <1>3, <2>1 DEF Holds
  <2>3. Len(wire) = Len(Stream(said)) - r
    <3>1. Len(Stream(said)) \in r..Len(Stream(said))
      BY <1>1, <2>2
    <3> QED BY <1>1, <2>2, <3>1, Window
  <2>4. Len(Stream(said)) - Len(wire) = r
    BY <1>1, <2>2, <2>3
  <2>5. i \in 1..Len(said) /\ E(said, i) <= r
    BY <1>1, <2>4 DEF Whole, E, Stream, Laid
  <2>6. F(said, i) <= Len(shown)
    BY <1>3, <2>2, <2>5 DEF AtRest
  <2> QED BY <2>6 DEF F
<1> QED BY <1>2, <1>3 DEF ShowsWhatWasSaid

\* Of every terminal that joins, whatever the host says within what a host may
\* say and however the reads cut it: what is shown is what was said, in order,
\* and no frame that has come whole waits for another read.
THEOREM WhatWasSaidIsShown == Spec => []ShowsWhatWasSaid
<1>1. Init => ShowInv
  BY InitShown
<1>2. ShowInv /\ [Next]_vars => ShowInv'
  BY NextShown
<1>3. ShowInv => ShowsWhatWasSaid
  BY ShowFollows
<1> QED BY <1>1, <1>2, <1>3, PTL DEF Spec
=============================================================================
