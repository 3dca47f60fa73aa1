--------------------------------- MODULE Sums ---------------------------------
(***************************************************************************)
(* Sums of sequences of numbers, as a recursive function of the length:    *)
(* what it computes can be proved by induction over the naturals.          *)
(***************************************************************************)
EXTENDS Naturals, Sequences

\* The sums of the beginnings of s, from none of it to all.
PartialSums(s) ==
  LET Sum[n \in 0..Len(s)] == IF n = 0 THEN 0 ELSE Sum[n - 1] + s[n]
  IN Sum

SumOf(s) == PartialSums(s)[Len(s)]
=============================================================================
