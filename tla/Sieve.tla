------------------------------- MODULE Sieve -------------------------------
(***************************************************************************)
(* What of a sequence lies in a set, and sequences one behind the other,   *)
(* as functions that recur over a length.                                  *)
(***************************************************************************)
EXTENDS Naturals, Sequences

Only(s, S) ==
  LET only[i \in 0..Len(s)] ==
        IF i = 0 THEN <<>>
        ELSE IF s[i] \in S THEN Append(only[i - 1], s[i]) ELSE only[i - 1]
  IN  only[Len(s)]

\* The first n of some sequences, one behind the other.
Concat(parts, n) ==
  LET upTo[i \in 0..n] == IF i = 0 THEN <<>> ELSE upTo[i - 1] \o parts[i]
  IN  upTo[n]
=============================================================================
