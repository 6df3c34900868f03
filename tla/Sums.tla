-------------------------------- MODULE Sums --------------------------------
(***************************************************************************)
(* Sums over counters with the indices 0 .. n - 1, as a function that      *)
(* proofs can look into.                                                   *)
(***************************************************************************)
EXTENDS Integers

\* f[0] + ... + f[n - 1].
Total(f, n) ==
  LET below[i \in 0 .. n] == IF i = 0 THEN 0 ELSE below[i - 1] + f[i - 1]
  IN  below[n]

\* Of these, from one index up to another.
Within(f, n, from, to) ==
  Total([i \in 0 .. n - 1 |-> IF from <= i /\ i < to THEN f[i] ELSE 0], n)
=============================================================================
