---------------------------- MODULE SharedLemmas ----------------------------
(***************************************************************************)
(* What the proofs of several components rest on, for any sequences: the   *)
(* searches of RoomControls and what a search in a window says of the      *)
(* whole, what of a sequence lies in a set, induction and recursion over   *)
(* numbers, and sequences one behind the other.                            *)
(***************************************************************************)
EXTENDS RoomControls, Sieve, SequenceTheorems, WellFoundedInduction, TLAPS

\* Min of a non-empty set of numbers is its least element.
LEMMA MinIsLeast ==
  ASSUME NEW S \in SUBSET Nat, S # {}
  PROVE  Min(S) \in S /\ \A y \in S : Min(S) <= y
<1> DEFINE Below == OpToRel(<, Nat)
<1>1. \A x, y \in Nat : <<y, x>> \in Below <=> y < x
  BY DEF OpToRel
<1>2. IsWellFoundedOn(Below, Nat)
  BY NatLessThanWellFounded
<1> HIDE DEF Below
<1>3. PICK x \in S : \A y \in S : ~(<<y, x>> \in Below)
  BY <1>2, WFMin
<1>4. ASSUME NEW y \in S
      PROVE  x <= y
  <2>1. x \in Nat /\ y \in Nat
    OBVIOUS
  <2>2. ~(y < x)
    BY <1>1, <1>3, <2>1, Zenon
  <2> QED BY <2>1, <2>2, SMT
<1> QED BY <1>4 DEF Min

\* Max of a non-empty bounded set of numbers is its greatest element.
LEMMA MaxIsGreatest ==
  ASSUME NEW m \in Nat, NEW S \in SUBSET (0..m), S # {}
  PROVE  Max(S) \in S /\ \A y \in S : y <= Max(S)
<1> DEFINE D == {m - y : y \in S}
<1>1. D \in SUBSET Nat /\ D # {}
  <2>1. \A y \in S : m - y \in Nat
    OBVIOUS
  <2>2. D \subseteq Nat
    BY <2>1
  <2> QED BY <2>2
<1>2. PICK d \in D : \A e \in D : d <= e
  BY <1>1, MinIsLeast
<1>3. PICK x \in S : d = m - x
  BY <1>2
<1>4. \A y \in S : y <= x
  BY <1>2, <1>3
<1> QED BY <1>4 DEF Max

\* FindFrom finds the first place, or there is none.
LEMMA FindFound ==
  ASSUME NEW T, NEW s \in Seq(T), NEW word, NEW i \in Nat \ {0}
  PROVE  \/ /\ FindFrom(s, word, i) = 0
            /\ \A k \in i..Len(s) : ~OccursAt(s, word, k)
         \/ /\ FindFrom(s, word, i) \in i..Len(s)
            /\ OccursAt(s, word, FindFrom(s, word, i))
            /\ \A k \in i..Len(s) : k < FindFrom(s, word, i) => ~OccursAt(s, word, k)
<1> DEFINE found == {k \in i..Len(s) : OccursAt(s, word, k)}
<1>1. found \in SUBSET Nat
  BY LenProperties
<1>2. CASE found = {}
  BY <1>2 DEF FindFrom
<1>3. CASE found # {}
  <2>1. Min(found) \in found /\ \A y \in found : Min(found) <= y
    BY <1>1, <1>3, MinIsLeast
  <2>2. FindFrom(s, word, i) = Min(found)
    BY <1>3 DEF FindFrom
  <2>3. ASSUME NEW k \in i..Len(s), k < Min(found)
        PROVE  ~OccursAt(s, word, k)
    BY <2>1, <2>3, <1>1, LenProperties
  <2> QED BY <2>1, <2>2, <2>3
<1> QED BY <1>2, <1>3

\* PrefixOverlap is the longest proper prefix of word that s ends with.
LEMMA OverlapFound ==
  ASSUME NEW T, NEW s \in Seq(T), NEW word \in Seq(T), word # <<>>
  PROVE  /\ PrefixOverlap(s, word) \in 0..Len(s)
         /\ PrefixOverlap(s, word) < Len(word)
         /\ SubSeq(s, Len(s) - PrefixOverlap(s, word) + 1, Len(s))
              = SubSeq(word, 1, PrefixOverlap(s, word))
         /\ \A n \in 0..Len(s) :
              n < Len(word) /\ SubSeq(s, Len(s) - n + 1, Len(s)) = SubSeq(word, 1, n)
                => n <= PrefixOverlap(s, word)
<1> DEFINE most == Min({Len(s), Len(word) - 1})
           ends == {n \in 0..most : SubSeq(s, Len(s) - n + 1, Len(s)) = SubSeq(word, 1, n)}
<1>1. Len(s) \in Nat /\ Len(word) \in Nat \ {0}
  BY LenProperties, EmptySeq
<1>2. most \in {Len(s), Len(word) - 1} /\ most <= Len(s) /\ most <= Len(word) - 1
  <2> DEFINE two == {Len(s), Len(word) - 1}
  <2>1. two \in SUBSET Nat /\ two # {}
    BY <1>1
  <2>2. Min(two) \in two /\ \A y \in two : Min(two) <= y
    <3> HIDE DEF two
    <3> QED BY <2>1, MinIsLeast
  <2>3. most = Min(two) /\ Len(s) \in two /\ Len(word) - 1 \in two
    OBVIOUS
  <2> HIDE DEF most
  <2> QED BY <2>2, <2>3
<1>3. most \in Nat
  BY <1>1, <1>2
<1>4. 0 \in ends
  <2>1. SubSeq(s, Len(s) - 0 + 1, Len(s)) = <<>> /\ SubSeq(word, 1, 0) = <<>>
    BY <1>1, SubSeqEmpty
  <2> QED BY <1>3, <2>1
<1>5. PICK best \in ends : best = Max(ends) /\ \A y \in ends : y <= best
  BY <1>3, <1>4, MaxIsGreatest
<1>6. PrefixOverlap(s, word) = best
  BY <1>5 DEF PrefixOverlap
<1>7. \A n \in 0..Len(s) : n < Len(word) => n \in 0..most
  BY <1>1, <1>2
<1> HIDE DEF most
<1>8. /\ best \in 0..most
      /\ SubSeq(s, Len(s) - best + 1, Len(s)) = SubSeq(word, 1, best)
  BY <1>5
<1>9. best \in 0..Len(s) /\ best < Len(word)
  BY <1>1, <1>2, <1>3, <1>8
<1>10. ASSUME NEW n \in 0..Len(s), n < Len(word),
              SubSeq(s, Len(s) - n + 1, Len(s)) = SubSeq(word, 1, n)
       PROVE  n <= best
  BY <1>5, <1>7, <1>10
<1> HIDE DEF ends
<1> QED BY <1>6, <1>8, <1>9, <1>10

\* The window of s from a + 1 to b.
LEMMA Window ==
  ASSUME NEW T, NEW s \in Seq(T), NEW a \in Nat, NEW b \in a..Len(s)
  PROVE  /\ SubSeq(s, a + 1, b) \in Seq(T)
         /\ Len(SubSeq(s, a + 1, b)) = b - a
         /\ \A k \in 1..(b - a) : SubSeq(s, a + 1, b)[k] = s[a + k]
<1>1. Len(s) \in Nat /\ b \in Nat
  BY LenProperties
<1>2. \A i \in (a + 1)..b : s[i] \in T
  BY <1>1, ElementOfSeq
<1> QED BY <1>1, <1>2, SubSeqProperties

\* A word occurs in a window where it occurs in the whole, as far as it fits.
LEMMA OccursInWindow ==
  ASSUME NEW T, NEW s \in Seq(T), NEW a \in Nat, NEW b \in a..Len(s),
         NEW word \in Seq(T), NEW k \in Nat \ {0}
  PROVE  OccursAt(SubSeq(s, a + 1, b), word, k)
           <=> /\ a + k + Len(word) - 1 <= b
               /\ OccursAt(s, word, a + k)
<1> DEFINE t == SubSeq(s, a + 1, b)
<1>1. /\ Len(t) = b - a
      /\ \A j \in 1..(b - a) : t[j] = s[a + j]
  BY Window
<1>2. Len(s) \in Nat /\ Len(word) \in Nat /\ b \in Nat
  BY LenProperties
<1>3. k + Len(word) - 1 <= Len(t) <=> a + k + Len(word) - 1 <= b
  BY <1>1, <1>2
<1>4. ASSUME a + k + Len(word) - 1 <= b, NEW j \in 1..Len(word)
      PROVE  t[k + j - 1] = s[a + k + j - 1]
  <2>1. k + j - 1 \in 1..(b - a)
    BY <1>2, <1>4
  <2>2. t[k + j - 1] = s[a + (k + j - 1)]
    BY <1>1, <2>1
  <2>3. a + (k + j - 1) = a + k + j - 1
    BY <1>2
  <2> HIDE DEF t
  <2> QED BY <2>2, <2>3
<1> HIDE DEF t
<1>5. OccursAt(t, word, k) <=> /\ a + k + Len(word) - 1 <= b
                               /\ OccursAt(s, word, a + k)
  BY <1>2, <1>3, <1>4 DEF OccursAt
<1> QED BY <1>5 DEF t

\* What is found in a window is found in the whole; what is not found in it ends
\* behind it, if it is anywhere.
LEMMA FindInWindow ==
  ASSUME NEW T, NEW s \in Seq(T), NEW a \in Nat, NEW b \in a..Len(s),
         NEW word \in Seq(T), word # <<>>, NEW i \in Nat \ {0}
  PROVE  /\ FindFrom(SubSeq(s, a + 1, b), word, i) # 0 =>
              /\ FindFrom(s, word, a + i) = a + FindFrom(SubSeq(s, a + 1, b), word, i)
              /\ a + FindFrom(SubSeq(s, a + 1, b), word, i) + Len(word) - 1 <= b
         /\ FindFrom(SubSeq(s, a + 1, b), word, i) = 0 =>
              \/ FindFrom(s, word, a + i) = 0
              \/ FindFrom(s, word, a + i) + Len(word) - 1 > b
<1> DEFINE t == SubSeq(s, a + 1, b)
           f == FindFrom(t, word, i)
           g == FindFrom(s, word, a + i)
<1>1. t \in Seq(T) /\ Len(t) = b - a
  BY Window
<1>2. Len(s) \in Nat /\ Len(word) \in Nat \ {0} /\ b \in Nat /\ a + i \in Nat \ {0}
  BY LenProperties, EmptySeq
<1>3. \/ f = 0 /\ \A k \in i..Len(t) : ~OccursAt(t, word, k)
      \/ /\ f \in i..Len(t) /\ OccursAt(t, word, f)
         /\ \A k \in i..Len(t) : k < f => ~OccursAt(t, word, k)
  BY <1>1, FindFound
<1>4. \/ g = 0 /\ \A k \in (a + i)..Len(s) : ~OccursAt(s, word, k)
      \/ /\ g \in (a + i)..Len(s) /\ OccursAt(s, word, g)
         /\ \A k \in (a + i)..Len(s) : k < g => ~OccursAt(s, word, k)
  BY <1>2, FindFound
<1>5. \A k \in Nat \ {0} : OccursAt(t, word, k) <=> /\ a + k + Len(word) - 1 <= b
                                                   /\ OccursAt(s, word, a + k)
  BY OccursInWindow
<1> HIDE DEF t, f, g
<1>6. ASSUME g # 0, g + Len(word) - 1 <= b
      PROVE  f # 0 /\ g >= a + f
  <2>1. g \in (a + i)..Len(s) /\ OccursAt(s, word, g)
    BY <1>4, <1>6
  <2>2. g - a \in i..Len(t) /\ g - a \in Nat \ {0} /\ a + (g - a) = g
    BY <1>1, <1>2, <1>6, <2>1
  <2>3. OccursAt(t, word, g - a)
    BY <1>2, <1>5, <1>6, <2>1, <2>2
  <2> QED BY <1>1, <1>2, <1>3, <2>1, <2>2, <2>3
<1>7. ASSUME f # 0
      PROVE  a + f + Len(word) - 1 <= b /\ g = a + f
  <2>1. f \in i..Len(t) /\ OccursAt(t, word, f)
    BY <1>3, <1>7
  <2>2. a + f + Len(word) - 1 <= b /\ OccursAt(s, word, a + f)
    BY <1>1, <1>2, <1>5, <2>1
  <2>3. a + f \in (a + i)..Len(s)
    BY <1>1, <1>2, <2>1
  <2>4. g # 0 /\ g <= a + f
    BY <1>2, <1>4, <2>2, <2>3
  <2>5. g \in (a + i)..Len(s)
    BY <1>4, <2>4
  <2>6. g + Len(word) - 1 <= b
    BY <1>1, <1>2, <2>1, <2>2, <2>4, <2>5
  <2> QED BY <1>1, <1>2, <1>6, <2>1, <2>2, <2>4, <2>5, <2>6
<1>8. ASSUME f = 0
      PROVE  g = 0 \/ g + Len(word) - 1 > b
  BY <1>2, <1>4, <1>6, <1>8
<1> QED BY <1>7, <1>8 DEF t, f, g

-----------------------------------------------------------------------------
\* Induction, about a set.
LEMMA SetInduction ==
  ASSUME NEW G, 0 \in G, \A n \in Nat : n \in G => n + 1 \in G
  PROVE  \A n \in Nat : n \in G
<1> DEFINE Below == OpToRel(<, Nat)
           Bad   == Nat \ G
<1>1. \A x, y \in Nat : <<y, x>> \in Below <=> y < x
  BY DEF OpToRel
<1>2. IsWellFoundedOn(Below, Nat)
  BY NatLessThanWellFounded
<1> HIDE DEF Below
<1>3. ASSUME Bad # {} PROVE FALSE
  <2>1. PICK x \in Bad : \A y \in Bad : ~(<<y, x>> \in Below)
    BY <1>2, <1>3, WFMin
  <2>2. x \in Nat /\ x # 0 /\ x - 1 \in Nat /\ x = (x - 1) + 1
    BY <2>1
  <2>3. x - 1 \notin Bad
    <3>1. <<x - 1, x>> \in Below
      BY <1>1, <2>2
    <3> QED BY <2>1, <3>1
  <2> QED BY <2>1, <2>2, <2>3
<1> QED BY <1>3

\* The function that Only recurs with.
Sieving(s, S, n, g) ==
  g = [i \in 0..n |-> IF i = 0 THEN <<>>
                      ELSE IF s[i] \in S THEN Append(g[i - 1], s[i]) ELSE g[i - 1]]

LEMMA SievingExists ==
  ASSUME NEW s, NEW S
  PROVE  \A n \in Nat : \E g : Sieving(s, S, n, g)
<1> DEFINE G == {n \in Nat : \E g : Sieving(s, S, n, g)}
<1>1. 0 \in G
  <2>1. Sieving(s, S, 0, [i \in 0..0 |-> <<>>])
    BY DEF Sieving
  <2> QED BY <2>1
<1>2. ASSUME NEW n \in Nat, n \in G
      PROVE  n + 1 \in G
  <2>1. PICK g : Sieving(s, S, n, g)
    BY <1>2
  <2> DEFINE last == IF s[n + 1] \in S THEN Append(g[n], s[n + 1]) ELSE g[n]
             h    == [i \in 0..(n + 1) |-> IF i = n + 1 THEN last ELSE g[i]]
  <2>2. ASSUME NEW i \in 0..(n + 1)
        PROVE  h[i] = IF i = 0 THEN <<>>
                      ELSE IF s[i] \in S THEN Append(h[i - 1], s[i]) ELSE h[i - 1]
    <3>1. CASE i = n + 1
      BY <3>1
    <3>2. CASE i = 0
      BY <2>1, <3>2 DEF Sieving
    <3>3. CASE i \in 1..n
      <4>1. h[i] = g[i] /\ h[i - 1] = g[i - 1] /\ i \in 0..n /\ i # 0
        BY <3>3
      <4>2. g[i] = IF s[i] \in S THEN Append(g[i - 1], s[i]) ELSE g[i - 1]
        BY <2>1, <4>1 DEF Sieving
      <4> HIDE DEF h
      <4> QED BY <4>1, <4>2
    <3> QED BY <3>1, <3>2, <3>3
  <2>3. Sieving(s, S, n + 1, h)
    <3>1. h = [i \in 0..(n + 1) |-> h[i]]
      OBVIOUS
    <3> HIDE DEF h
    <3> QED BY <2>2, <3>1 DEF Sieving
  <2> QED BY <2>3
<1> HIDE DEF G
<1>3. \A n \in Nat : n \in G
  BY <1>1, <1>2, SetInduction
<1> QED BY <1>3 DEF G

LEMMA OnlySieves ==
  ASSUME NEW s, NEW S, Len(s) \in Nat
  PROVE  \E g : Sieving(s, S, Len(s), g) /\ Only(s, S) = g[Len(s)]
<1> DEFINE f == CHOOSE g : Sieving(s, S, Len(s), g)
<1>1. Sieving(s, S, Len(s), f)
  BY SievingExists
<1>2. Only(s, S) = f[Len(s)]
  BY Zenon DEF Only, Sieving
<1> QED BY <1>1, <1>2

\* It does not depend on what comes behind.
LEMMA SievingSame ==
  ASSUME NEW s, NEW t, NEW S, NEW T, NEW m \in Nat, NEW n \in Nat, m <= n, NEW g, NEW h,
         Sieving(s, S, m, g), Sieving(t, T, n, h),
         \A i \in 1..m : s[i] = t[i] /\ (s[i] \in S <=> s[i] \in T)
  PROVE  g[m] = h[m]
<1> DEFINE G == {i \in Nat : i <= m => g[i] = h[i]}
<1>1. 0 \in G
  BY DEF Sieving
<1>2. ASSUME NEW i \in Nat, i \in G
      PROVE  i + 1 \in G
  <2>1. SUFFICES ASSUME i + 1 <= m PROVE g[i + 1] = h[i + 1]
    OBVIOUS
  <2>2. g[i] = h[i] /\ i + 1 \in 0..m /\ i + 1 \in 0..n /\ i + 1 \in 1..m /\ (i + 1) - 1 = i /\ i + 1 # 0
    BY <1>2, <2>1
  <2>3. g[i + 1] = IF s[i + 1] \in S THEN Append(g[i], s[i + 1]) ELSE g[i]
    BY <2>2 DEF Sieving
  <2>4. h[i + 1] = IF t[i + 1] \in T THEN Append(h[i], t[i + 1]) ELSE h[i]
    BY <2>2 DEF Sieving
  <2> QED BY <2>2, <2>3, <2>4
<1> HIDE DEF G
<1>3. \A i \in Nat : i \in G
  BY <1>1, <1>2, SetInduction
<1> QED BY <1>3 DEF G

-----------------------------------------------------------------------------
(* What Only gives. *)

LEMMA OnlyOfNothing ==
  ASSUME NEW S
  PROVE  Only(<<>>, S) = <<>>
<1>1. Len(<<>>) = 0
  BY EmptySeq
<1>2. PICK g : Sieving(<<>>, S, 0, g) /\ Only(<<>>, S) = g[0]
  BY <1>1, OnlySieves
<1> QED BY <1>2 DEF Sieving

LEMMA OnlyOfMore ==
  ASSUME NEW M, NEW s \in Seq(M), NEW x \in M, NEW S
  PROVE  /\ x \in S => Only(Append(s, x), S) = Append(Only(s, S), x)
         /\ x \notin S => Only(Append(s, x), S) = Only(s, S)
<1> DEFINE t == Append(s, x)
<1>1. /\ Len(s) \in Nat /\ Len(t) \in Nat /\ Len(t) = Len(s) + 1 /\ t[Len(s) + 1] = x
      /\ \A i \in 1..Len(s) : s[i] = t[i]
  BY AppendProperties, LenProperties
<1> HIDE DEF t
<1>2. PICK g : Sieving(s, S, Len(s), g) /\ Only(s, S) = g[Len(s)]
  BY <1>1, OnlySieves
<1>3. PICK h : Sieving(t, S, Len(t), h) /\ Only(t, S) = h[Len(t)]
  BY <1>1, OnlySieves
<1>4. g[Len(s)] = h[Len(s)]
  BY <1>1, <1>2, <1>3, SievingSame
<1>5. h[Len(s) + 1] = IF x \in S THEN Append(h[Len(s)], x) ELSE h[Len(s)]
  <2>1. Len(s) + 1 \in 0..Len(t) /\ Len(s) + 1 # 0 /\ (Len(s) + 1) - 1 = Len(s)
    BY <1>1
  <2> QED BY <1>1, <1>3, <2>1 DEF Sieving
<1> QED BY <1>1, <1>2, <1>3, <1>4, <1>5 DEF t

\* A sequence is what its prefixes are, one by one.
LEMMA PrefixByOne ==
  ASSUME NEW M, NEW s \in Seq(M), NEW n \in Nat, n + 1 <= Len(s)
  PROVE  /\ SubSeq(s, 1, n) \in Seq(M) /\ s[n + 1] \in M
         /\ SubSeq(s, 1, n + 1) = Append(SubSeq(s, 1, n), s[n + 1])
  BY SubSeqProperties, AppendProperties, LenProperties, ElementOfSeq

LEMMA WholePrefix ==
  ASSUME NEW M, NEW s \in Seq(M)
  PROVE  SubSeq(s, 1, Len(s)) = s /\ SubSeq(s, 1, 0) = <<>> /\ Len(s) \in Nat
  BY SubSeqProperties, EmptySeq, LenProperties

LEMMA OnlyIsSeq ==
  ASSUME NEW M, NEW s \in Seq(M), NEW S
  PROVE  Only(s, S) \in Seq(M) /\ Only(s, S) \in Seq(S)
<1> DEFINE G == {n \in Nat : n <= Len(s) =>
                   Only(SubSeq(s, 1, n), S) \in Seq(M) /\ Only(SubSeq(s, 1, n), S) \in Seq(S)}
<1>1. 0 \in G
  <2>1. SubSeq(s, 1, 0) = <<>> /\ Only(<<>>, S) = <<>> /\ <<>> \in Seq(M) /\ <<>> \in Seq(S)
    BY WholePrefix, OnlyOfNothing, EmptySeq
  <2> QED BY <2>1
<1>2. ASSUME NEW n \in Nat, n \in G
      PROVE  n + 1 \in G
  <2>1. SUFFICES ASSUME n + 1 <= Len(s)
                 PROVE  /\ Only(SubSeq(s, 1, n + 1), S) \in Seq(M)
                        /\ Only(SubSeq(s, 1, n + 1), S) \in Seq(S)
    OBVIOUS
  <2> DEFINE p == SubSeq(s, 1, n)
             x == s[n + 1]
  <2>2. Only(p, S) \in Seq(M) /\ Only(p, S) \in Seq(S)
    BY <1>2, <2>1, WholePrefix
  <2>3. p \in Seq(M) /\ x \in M /\ SubSeq(s, 1, n + 1) = Append(p, x)
    BY <2>1, PrefixByOne
  <2> HIDE DEF p, x
  <2>4. /\ x \in S => Only(Append(p, x), S) = Append(Only(p, S), x)
        /\ x \notin S => Only(Append(p, x), S) = Only(p, S)
    BY <2>3, OnlyOfMore
  <2>5. /\ x \in S => Append(Only(p, S), x) \in Seq(S)
        /\ Append(Only(p, S), x) \in Seq(M)
    BY <2>2, <2>3, AppendProperties
  <2>6. Only(Append(p, x), S) \in Seq(M) /\ Only(Append(p, x), S) \in Seq(S)
    <3>1. CASE x \in S
      BY <2>4, <2>5, <3>1
    <3>2. CASE x \notin S
      BY <2>2, <2>4, <3>2
    <3> QED BY <3>1, <3>2
  <2> QED BY <2>3, <2>6
<1> HIDE DEF G
<1>3. \A n \in Nat : n \in G
  BY <1>1, <1>2, SetInduction
<1>4. Len(s) \in G /\ SubSeq(s, 1, Len(s)) = s /\ Len(s) <= Len(s)
  BY <1>3, WholePrefix
<1> QED BY <1>4 DEF G

LEMMA ConcatByOne ==
  ASSUME NEW M, NEW s \in Seq(M), NEW t \in Seq(M), NEW x \in M
  PROVE  s \o Append(t, x) = Append(s \o t, x) /\ s \o t \in Seq(M)
  BY AppendProperties, ConcatProperties, LenProperties

LEMMA OnlyOfBoth ==
  ASSUME NEW M, NEW s \in Seq(M), NEW t \in Seq(M), NEW S
  PROVE  Only(s \o t, S) = Only(s, S) \o Only(t, S)
<1> DEFINE G == {n \in Nat : n <= Len(t) =>
                   Only(s \o SubSeq(t, 1, n), S) = Only(s, S) \o Only(SubSeq(t, 1, n), S)}
<1>1. 0 \in G
  <2>1. SubSeq(t, 1, 0) = <<>> /\ Only(<<>>, S) = <<>> /\ Only(s, S) \in Seq(M)
    BY WholePrefix, OnlyOfNothing, OnlyIsSeq
  <2>2. s \o <<>> = s /\ Only(s, S) \o <<>> = Only(s, S)
    BY <2>1, ConcatEmptySeq
  <2> QED BY <2>1, <2>2
<1>2. ASSUME NEW n \in Nat, n \in G
      PROVE  n + 1 \in G
  <2>1. SUFFICES ASSUME n + 1 <= Len(t)
                 PROVE  Only(s \o SubSeq(t, 1, n + 1), S) = Only(s, S) \o Only(SubSeq(t, 1, n + 1), S)
    OBVIOUS
  <2> DEFINE p == SubSeq(t, 1, n)
             x == t[n + 1]
  <2>2. Only(s \o p, S) = Only(s, S) \o Only(p, S)
    BY <1>2, <2>1, WholePrefix
  <2>3. p \in Seq(M) /\ x \in M /\ SubSeq(t, 1, n + 1) = Append(p, x)
    BY <2>1, PrefixByOne
  <2> HIDE DEF p, x
  <2>4. s \o p \in Seq(M) /\ s \o Append(p, x) = Append(s \o p, x)
    BY <2>3, ConcatByOne
  <2>5. /\ x \in S => Only(Append(s \o p, x), S) = Append(Only(s \o p, S), x)
        /\ x \notin S => Only(Append(s \o p, x), S) = Only(s \o p, S)
    BY <2>3, <2>4, OnlyOfMore
  <2>6. /\ x \in S => Only(Append(p, x), S) = Append(Only(p, S), x)
        /\ x \notin S => Only(Append(p, x), S) = Only(p, S)
    BY <2>3, OnlyOfMore
  <2>7. x \in S => Only(s, S) \o Append(Only(p, S), x) = Append(Only(s, S) \o Only(p, S), x)
    <3>1. Only(s, S) \in Seq(M) /\ Only(p, S) \in Seq(M)
      BY <2>3, OnlyIsSeq
    <3> QED BY <2>3, <3>1, ConcatByOne
  <2>8. Only(s \o Append(p, x), S) = Only(s, S) \o Only(Append(p, x), S)
    <3>1. CASE x \in S
      BY <2>2, <2>4, <2>5, <2>6, <2>7, <3>1
    <3>2. CASE x \notin S
      BY <2>2, <2>4, <2>5, <2>6, <3>2
    <3> QED BY <3>1, <3>2
  <2>9. ASSUME NEW q, q = Append(p, x) PROVE Only(s \o q, S) = Only(s, S) \o Only(q, S)
    BY <2>8, <2>9
  <2> QED BY <2>3, <2>9
<1> HIDE DEF G
<1>3. \A n \in Nat : n \in G
  BY <1>1, <1>2, SetInduction
<1>4. Len(t) \in G /\ SubSeq(t, 1, Len(t)) = t /\ Len(t) <= Len(t)
  BY <1>3, WholePrefix
<1> QED BY <1>4 DEF G

LEMMA OnlyOfAll ==
  ASSUME NEW M, NEW s \in Seq(M), NEW S, \A i \in 1..Len(s) : s[i] \in S
  PROVE  Only(s, S) = s
<1> DEFINE G == {n \in Nat : n <= Len(s) => Only(SubSeq(s, 1, n), S) = SubSeq(s, 1, n)}
<1>1. 0 \in G
  BY WholePrefix, OnlyOfNothing
<1>2. ASSUME NEW n \in Nat, n \in G
      PROVE  n + 1 \in G
  <2>1. SUFFICES ASSUME n + 1 <= Len(s)
                 PROVE  Only(SubSeq(s, 1, n + 1), S) = SubSeq(s, 1, n + 1)
    OBVIOUS
  <2> DEFINE p == SubSeq(s, 1, n)
             x == s[n + 1]
  <2>2. x \in S /\ Only(p, S) = p
    BY <1>2, <2>1, WholePrefix
  <2>3. p \in Seq(M) /\ x \in M /\ SubSeq(s, 1, n + 1) = Append(p, x)
    BY <2>1, PrefixByOne
  <2> HIDE DEF p, x
  <2>4. Only(Append(p, x), S) = Append(p, x)
    BY <2>2, <2>3, OnlyOfMore
  <2> QED BY <2>3, <2>4
<1> HIDE DEF G
<1>3. \A n \in Nat : n \in G
  BY <1>1, <1>2, SetInduction
<1>4. Len(s) \in G /\ SubSeq(s, 1, Len(s)) = s /\ Len(s) <= Len(s)
  BY <1>3, WholePrefix
<1> QED BY <1>4 DEF G

LEMMA SeqOfMore == ASSUME NEW A, NEW B, A \subseteq B PROVE Seq(A) \subseteq Seq(B)
<1> SUFFICES ASSUME NEW s \in Seq(A) PROVE s \in Seq(B)
  OBVIOUS
<1>1. Len(s) \in Nat /\ s \in [1..Len(s) -> A]
  BY LenProperties
<1>2. s \in [1..Len(s) -> B]
  BY <1>1
<1> QED BY <1>1, <1>2, SeqDef

-----------------------------------------------------------------------------
(* Recursion over a length, for steps that are functions of a set of values. *)

Recurs(n, base, step, g) ==
  g = [i \in 0..n |-> IF i = 0 THEN base ELSE step[i][g[i - 1]]]

LEMMA RecursionExists ==
  ASSUME NEW S, NEW n \in Nat, NEW base \in S, NEW step \in [1..n -> [S -> S]]
  PROVE  \E g \in [0..n -> S] : Recurs(n, base, step, g)
<1> DEFINE G == {m \in Nat : m <= n => \E g \in [0..m -> S] : Recurs(m, base, step, g)}
<1>1. 0 \in G
  <2>1. Recurs(0, base, step, [i \in 0..0 |-> base])
    BY DEF Recurs
  <2>2. [i \in 0..0 |-> base] \in [0..0 -> S]
    OBVIOUS
  <2> QED BY <2>1, <2>2
<1>2. ASSUME NEW m \in Nat, m \in G
      PROVE  m + 1 \in G
  <2>1. SUFFICES ASSUME m + 1 <= n
                 PROVE  \E g \in [0..(m + 1) -> S] : Recurs(m + 1, base, step, g)
    OBVIOUS
  <2>2. PICK g \in [0..m -> S] : Recurs(m, base, step, g)
    BY <1>2, <2>1
  <2> DEFINE h == [i \in 0..(m + 1) |-> IF i = m + 1 THEN step[m + 1][g[m]] ELSE g[i]]
  <2>3. step[m + 1][g[m]] \in S
    BY <2>1
  <2>4. h \in [0..(m + 1) -> S]
    BY <2>3
  <2>5. ASSUME NEW i \in 0..(m + 1)
        PROVE  h[i] = IF i = 0 THEN base ELSE step[i][h[i - 1]]
    <3>1. CASE i = m + 1
      BY <3>1
    <3>2. CASE i = 0
      BY <2>2, <3>2 DEF Recurs
    <3>3. CASE i \in 1..m
      <4>1. h[i] = g[i] /\ h[i - 1] = g[i - 1] /\ i \in 0..m /\ i # 0
        BY <3>3
      <4>2. g[i] = step[i][g[i - 1]]
        BY <2>2, <4>1 DEF Recurs
      <4> HIDE DEF h
      <4> QED BY <4>1, <4>2
    <3> QED BY <3>1, <3>2, <3>3
  <2>6. Recurs(m + 1, base, step, h)
    <3>1. h = [i \in 0..(m + 1) |-> h[i]]
      OBVIOUS
    <3> HIDE DEF h
    <3> QED BY <2>5, <3>1 DEF Recurs
  <2> HIDE DEF h
  <2> QED BY <2>4, <2>6
<1> HIDE DEF G
<1>3. \A m \in Nat : m \in G
  BY <1>1, <1>2, SetInduction
<1> QED BY <1>3 DEF G

\* Induction up to a bound, about a set.
LEMMA BoundedInduction ==
  ASSUME NEW m \in Nat, NEW G, 0 \in G, \A i \in 1..m : i - 1 \in G => i \in G
  PROVE  \A i \in 0..m : i \in G
<1> DEFINE H == {i \in Nat : i <= m => i \in G}
<1>1. 0 \in H
  OBVIOUS
<1>2. ASSUME NEW i \in Nat, i \in H
      PROVE  i + 1 \in H
  <2>1. i + 1 <= m => i + 1 \in 1..m /\ (i + 1) - 1 = i /\ i \in G
    BY <1>2
  <2>2. i + 1 <= m => i + 1 \in G
    BY <2>1
  <2> QED BY <2>2
<1> HIDE DEF H
<1>3. \A i \in Nat : i \in H
  BY <1>1, <1>2, SetInduction
<1> QED BY <1>3 DEF H

LEMMA StepsStay ==
  ASSUME NEW m \in Nat, NEW S, NEW g, g[0] \in S, \A i \in 1..m : g[i - 1] \in S => g[i] \in S
  PROVE  \A i \in 0..m : g[i] \in S
<1> DEFINE G == {i \in 0..m : g[i] \in S}
<1>1. 0 \in G
  OBVIOUS
<1>2. \A i \in 1..m : i - 1 \in G => i \in G
  OBVIOUS
<1> HIDE DEF G
<1>3. \A i \in 0..m : i \in G
  BY <1>1, <1>2, BoundedInduction
<1> QED BY <1>3 DEF G

LEMMA SameSteps ==
  ASSUME NEW m \in Nat, NEW g, NEW h, g[0] = h[0], \A i \in 1..m : g[i - 1] = h[i - 1] => g[i] = h[i]
  PROVE  \A i \in 0..m : g[i] = h[i]
<1> DEFINE G == {i \in 0..m : g[i] = h[i]}
<1>1. 0 \in G
  OBVIOUS
<1>2. \A i \in 1..m : i - 1 \in G => i \in G
  OBVIOUS
<1> HIDE DEF G
<1>3. \A i \in 0..m : i \in G
  BY <1>1, <1>2, BoundedInduction
<1> QED BY <1>3 DEF G

-----------------------------------------------------------------------------
(* Sequences one behind the other. *)

Joining(parts, n, g) == g = [i \in 0..n |-> IF i = 0 THEN <<>> ELSE g[i - 1] \o parts[i]]

JoinedAs(T, parts, m, g) ==
  Joining(parts, m, g) /\ Concat(parts, m) = g[m] /\ \A i \in 0..m : g[i] \in Seq(T)

LEMMA JoinedJoins ==
  ASSUME NEW T, NEW n \in Nat, NEW parts, \A i \in 1..n : parts[i] \in Seq(T), NEW m \in 0..n
  PROVE  \E g : JoinedAs(T, parts, m, g)
<1> DEFINE step == [i \in 1..m |-> [s \in Seq(T) |-> s \o parts[i]]]
           f    == CHOOSE g : Joining(parts, m, g)
<1>0. \A i \in 1..m : i \in 1..n /\ parts[i] \in Seq(T)
  OBVIOUS
<1>1. step \in [1..m -> [Seq(T) -> Seq(T)]]
  <2>2. ASSUME NEW i \in 1..m, NEW s \in Seq(T) PROVE s \o parts[i] \in Seq(T)
    BY <1>0, ConcatProperties
  <2> QED BY <2>2
<1>2. <<>> \in Seq(T) /\ m \in Nat
  BY EmptySeq
<1>3. PICK g \in [0..m -> Seq(T)] : Recurs(m, <<>>, step, g)
  <2> HIDE DEF step
  <2> QED BY <1>1, <1>2, RecursionExists
<1>4. Joining(parts, m, g)
  <2>1. ASSUME NEW i \in 0..m
        PROVE  g[i] = IF i = 0 THEN <<>> ELSE g[i - 1] \o parts[i]
    <3>1. g[i] = IF i = 0 THEN <<>> ELSE step[i][g[i - 1]]
      <4> HIDE DEF step
      <4> QED BY <1>3 DEF Recurs
    <3>2. i # 0 => i \in 1..m /\ g[i - 1] \in Seq(T)
      <4>1. i # 0 => i \in 1..m /\ i - 1 \in 0..m
        OBVIOUS
      <4> QED BY <1>3, <4>1
    <3> QED BY <3>1, <3>2
  <2>2. g = [i \in 0..m |-> g[i]]
    BY <1>3
  <2> HIDE DEF step
  <2> QED BY <2>1, <2>2 DEF Joining
<1>5. Joining(parts, m, f)
  BY <1>4
<1>6. Concat(parts, m) = f[m]
  BY Zenon DEF Concat, Joining
<1> HIDE DEF f
<1>7. f[0] \in Seq(T)
  BY <1>2, <1>5 DEF Joining
<1>8. ASSUME NEW i \in 1..m, f[i - 1] \in Seq(T) PROVE f[i] \in Seq(T)
  <2>1. i \in 0..m /\ i # 0 /\ parts[i] \in Seq(T)
    OBVIOUS
  <2>2. f[i] = f[i - 1] \o parts[i]
    BY <1>5, <2>1 DEF Joining
  <2> QED BY <1>8, <2>1, <2>2, ConcatProperties
<1>9. \A i \in 0..m : f[i] \in Seq(T)
  BY <1>2, <1>7, <1>8, StepsStay
<1> QED BY <1>5, <1>6, <1>9 DEF JoinedAs

LEMMA JoinedByOne ==
  ASSUME NEW T, NEW n \in Nat, NEW parts, \A i \in 1..n : parts[i] \in Seq(T)
  PROVE  /\ \A i \in 0..n : Concat(parts, i) \in Seq(T)
         /\ Concat(parts, 0) = <<>>
         /\ \A i \in 1..n : Concat(parts, i) = Concat(parts, i - 1) \o parts[i]
<1>0. \A i \in 0..n : \E g : JoinedAs(T, parts, i, g)
  BY JoinedJoins
<1>1. ASSUME NEW i \in 0..n PROVE Concat(parts, i) \in Seq(T)
  <2>1. PICK g : JoinedAs(T, parts, i, g)
    BY <1>0
  <2> QED BY <2>1 DEF JoinedAs
<1>2. Concat(parts, 0) = <<>>
  <2>1. 0 \in 0..n
    OBVIOUS
  <2>2. PICK g : JoinedAs(T, parts, 0, g)
    BY <1>0, <2>1
  <2> QED BY <2>2 DEF JoinedAs, Joining
<1>3. ASSUME NEW i \in 1..n PROVE Concat(parts, i) = Concat(parts, i - 1) \o parts[i]
  <2> DEFINE j == i - 1
  <2>1. j \in 0..n /\ i \in 0..n /\ j \in Nat
    OBVIOUS
  <2>2. PICK g : JoinedAs(T, parts, j, g)
    BY <1>0, <2>1
  <2>3. PICK h : JoinedAs(T, parts, i, h)
    BY <1>0, <2>1
  <2> USE DEF JoinedAs
  <2>4. g[0] = h[0]
    BY <2>2, <2>3 DEF Joining
  <2>5. ASSUME NEW k \in 1..j, g[k - 1] = h[k - 1] PROVE g[k] = h[k]
    <3>1. k \in 0..j /\ k \in 0..i /\ k # 0
      OBVIOUS
    <3>2. g[k] = g[k - 1] \o parts[k]
      BY <2>2, <3>1 DEF Joining
    <3>3. h[k] = h[k - 1] \o parts[k]
      BY <2>3, <3>1 DEF Joining
    <3> QED BY <2>5, <3>2, <3>3
  <2>6. g[j] = h[j]
    <3> DEFINE Same == {k \in 0..j : g[k] = h[k]}
    <3>1. 0 \in Same
      BY <2>1, <2>4
    <3>2. ASSUME NEW k \in 1..j, k - 1 \in Same PROVE k \in Same
      BY <2>1, <2>5, <3>2
    <3>3. \A k \in 0..j : k \in Same
      <4> HIDE DEF Same, j, JoinedAs
      <4> QED BY <2>1, <3>1, <3>2, BoundedInduction
    <3> QED BY <2>1, <3>3
  <2>7. h[i] = h[j] \o parts[i]
    <3>1. i \in 0..i /\ i # 0
      OBVIOUS
    <3> QED BY <2>3, <3>1 DEF Joining
  <2> QED BY <2>2, <2>3, <2>6, <2>7
<1> QED BY <1>1, <1>2, <1>3

\* Where each part begins, and that it is there.
LaidOut(parts, n) ==
  /\ \A i \in 0..n : Len(Concat(parts, i)) \in Nat
  /\ Len(Concat(parts, 0)) = 0
  /\ \A i \in 1..n : Len(Concat(parts, i)) = Len(Concat(parts, i - 1)) + Len(parts[i])
  /\ \A j \in 0..n : \A i \in 0..j : Len(Concat(parts, i)) <= Len(Concat(parts, j))
  /\ \A i \in 1..n : \A k \in 1..Len(parts[i]) :
       Concat(parts, n)[Len(Concat(parts, i - 1)) + k] = parts[i][k]

LEMMA JoinedLaidOut ==
  ASSUME NEW T, NEW n \in Nat, NEW parts, \A i \in 1..n : parts[i] \in Seq(T)
  PROVE  LaidOut(parts, n)
<1> DEFINE to(i) == Concat(parts, i)
           e(i)  == Len(to(i))
<1>1. \A i \in 0..n : to(i) \in Seq(T) /\ e(i) \in Nat
  BY JoinedByOne, LenProperties
<1>2. e(0) = 0
  BY JoinedByOne, EmptySeq
<1>3. ASSUME NEW i \in 1..n
      PROVE  /\ e(i) = e(i - 1) + Len(parts[i])
             /\ \A k \in 1..e(i - 1) : to(i)[k] = to(i - 1)[k]
             /\ \A k \in 1..Len(parts[i]) : to(i)[e(i - 1) + k] = parts[i][k]
             /\ Len(parts[i]) \in Nat /\ i - 1 \in 0..n /\ i \in 0..n
  <2>1. i - 1 \in 0..n /\ i \in 0..n /\ parts[i] \in Seq(T) /\ to(i - 1) \in Seq(T)
    BY <1>1
  <2> DEFINE s == to(i - 1)
             t == parts[i]
  <2>2. to(i) = s \o t
    BY JoinedByOne
  <2>3. /\ Len(s \o t) = Len(s) + Len(t) /\ Len(s) \in Nat /\ Len(t) \in Nat
        /\ \A k \in 1..(Len(s) + Len(t)) : (s \o t)[k] = IF k <= Len(s) THEN s[k] ELSE t[k - Len(s)]
    <3> HIDE DEF s, t
    <3> QED BY <2>1, ConcatProperties, LenProperties DEF s, t
  <2> HIDE DEF s, t
  <2>4. \A k \in 1..Len(s) : (s \o t)[k] = s[k]
    BY <2>3
  <2>5. ASSUME NEW k \in 1..Len(t) PROVE (s \o t)[Len(s) + k] = t[k]
    <3>1. Len(s) + k \in 1..(Len(s) + Len(t)) /\ ~(Len(s) + k <= Len(s)) /\ (Len(s) + k) - Len(s) = k
      BY <2>3
    <3> QED BY <2>3, <3>1
  <2> QED BY <2>1, <2>2, <2>3, <2>4, <2>5 DEF s, t
<1> HIDE DEF to, e
<1> DEFINE G == {j \in 0..n : \A i \in 0..j : e(i) <= e(j) /\ \A k \in 1..e(i) : to(j)[k] = to(i)[k]}
<1>4. 0 \in G
  BY <1>2
<1>5. ASSUME NEW j \in 1..n, j - 1 \in G PROVE j \in G
  <2>1. e(j - 1) <= e(j) /\ e(j - 1) \in Nat /\ e(j) \in Nat
    <3>1. e(j) = e(j - 1) + Len(parts[j]) /\ Len(parts[j]) \in Nat /\ j - 1 \in 0..n /\ j \in 0..n
      BY <1>3
    <3>2. e(j - 1) \in Nat /\ e(j) \in Nat
      BY <1>1, <3>1
    <3> QED BY <3>1, <3>2
  <2>2. ASSUME NEW i \in 0..j PROVE e(i) <= e(j) /\ \A k \in 1..e(i) : to(j)[k] = to(i)[k]
    <3>1. CASE i = j
      BY <2>1, <3>1
    <3>2. CASE i # j
      <4>1. i \in 0..(j - 1) /\ i \in 0..n
        BY <3>2
      <4>2. e(i) \in Nat /\ e(i) <= e(j - 1) /\ \A k \in 1..e(i) : to(j - 1)[k] = to(i)[k]
        BY <1>1, <1>5, <4>1
      <4>3. \A k \in 1..e(i) : k \in 1..e(j - 1)
        BY <2>1, <4>2
      <4> QED BY <1>3, <2>1, <4>2, <4>3
    <3> QED BY <3>1, <3>2
  <2> QED BY <2>2
<1> HIDE DEF G
<1>6. \A j \in 0..n : j \in G
  BY <1>4, <1>5, BoundedInduction
<1>7. ASSUME NEW i \in 1..n, NEW k \in 1..Len(parts[i])
      PROVE  to(n)[e(i - 1) + k] = parts[i][k]
  <2>1. n \in G /\ i \in 0..n
    BY <1>6
  <2>2. e(i - 1) + k \in 1..e(i)
    <3>1. e(i - 1) \in Nat
      BY <1>1, <1>3
    <3> QED BY <1>3, <3>1
  <2>3. to(n)[e(i - 1) + k] = to(i)[e(i - 1) + k]
    BY <2>1, <2>2 DEF G
  <2> QED BY <1>3, <2>3
<1>8. \A j \in 0..n : \A i \in 0..j : e(i) <= e(j)
  BY <1>6 DEF G
<1> QED BY <1>1, <1>2, <1>3, <1>7, <1>8 DEF to, e, LaidOut

\* A function on 1..n is a sequence.
LEMMA LengthOfList ==
  ASSUME NEW n \in Nat, NEW f, f = [r \in 1..n |-> f[r]]
  PROVE  Len(f) = n /\ \E S : f \in Seq(S)
<1> DEFINE S == {f[r] : r \in 1..n}
<1>1. f \in [1..n -> S]
  OBVIOUS
<1> HIDE DEF S
<1>2. f \in Seq(S)
  BY <1>1, SeqDef
<1>3. Len(f) \in Nat /\ DOMAIN f = 1..Len(f)
  BY <1>2, LenProperties
<1>4. 1..n = 1..Len(f)
  BY <1>1, <1>3
<1>5. \E T : f \in Seq(T)
  BY <1>2
<1> QED BY <1>3, <1>4, <1>5
=============================================================================
