----------------------------- MODULE SequenceSum -----------------------------
(* The sum of a sequence of numbers, as the recursive function of its       *)
(* beginnings: what a weighted vote counts and what a tally conserves.      *)
EXTENDS Integers, Sequences

SumSeq(s) ==
  LET sum[n \in 0..Len(s)] == IF n = 0 THEN 0 ELSE sum[n - 1] + s[n]
  IN sum[Len(s)]
=============================================================================
