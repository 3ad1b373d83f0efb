----------------------------- MODULE RoomFrames -----------------------------
(***************************************************************************)
(* The host-to-client frames of the room protocol.  Output chunks are      *)
(* numbered in the order the host reads them from the PTY, so that a gap,  *)
(* a repetition or a reordering shows in the numbers.                      *)
(***************************************************************************)
EXTENDS Naturals, Sequences

Hello == [kind |-> "hello"]
SizeFrame(s) == [kind |-> "size", size |-> s]
Data(n) == [kind |-> "data", chunk |-> n]

IsSize(f) == f.kind = "size"
IsData(f) == f.kind = "data"

\* The output chunks after the first m, up to the n-th, in order.
DataAfter(m, n) == [i \in 1..(n - m) |-> Data(m + i)]

\* A size frame of s announces z, and none after it announces another.
LastSizeIs(s, z) ==
  \E i \in DOMAIN s :
    /\ s[i] = SizeFrame(z)
    /\ \A j \in DOMAIN s : j > i => ~IsSize(s[j])
=============================================================================
