---------------------------- MODULE RoomControls ----------------------------
(***************************************************************************)
(* The control frames that a byte stream of the room protocol carries, and *)
(* the searches both sides recognise them with.                            *)
(*                                                                         *)
(* A byte is a string; the ten bytes of the real prefix are three here:    *)
(* what matters is that only its first byte is ESC, and that the suffix    *)
(* starts with the same byte.  A payload is its fields, a byte each, the   *)
(* version or the size as one field.                                       *)
(***************************************************************************)
EXTENDS Naturals, Sequences, FiniteSetsExt

PREFIX == <<"ESC", "P", "room;">>
SUFFIX == <<"ESC", "\\">>

\* The fields that are numbers; as a size, "0" stands for a zero dimension.
Number == {"0", "1", "2"}
VERSION == "1"
NoSize == "none"

OccursAt(s, word, i) ==
  /\ i + Len(word) - 1 <= Len(s)
  /\ \A k \in 1..Len(word) : s[i + k - 1] = word[k]

\* Where word starts in s for the first time at i or later; 0 if nowhere.
FindFrom(s, word, i) ==
  LET found == {k \in i..Len(s) : OccursAt(s, word, k)}
  IN  IF found = {} THEN 0 ELSE Min(found)

FindSubslice(s, word) == FindFrom(s, word, 1)

\* Mutant: a word cut after its first byte is not recognised.
NoOverlapMutant(s, word) ==
  Max({n \in 0..Min({1, Len(s), Len(word) - 1}) :
         SubSeq(s, Len(s) - n + 1, Len(s)) = SubSeq(word, 1, n)})

\* The longest proper prefix of word that s ends with.
PrefixOverlap(s, word) ==
  Max({n \in 0..Min({Len(s), Len(word) - 1}) :
         SubSeq(s, Len(s) - n + 1, Len(s)) = SubSeq(word, 1, n)})

\* What a payload says to the host: its kind, and the version or the size.
ParseClientControl(payload) ==
  IF /\ Len(payload) = 2 /\ payload[2] \in Number
     /\ payload[1] \in {"hello", "resize"}
     /\ payload[1] = "resize" => payload[2] # "0"
  THEN [kind |-> payload[1], value |-> payload[2]]
  ELSE [kind |-> "none", value |-> "0"]
=============================================================================
