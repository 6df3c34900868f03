------------------------------ MODULE Selection -------------------------------
(***************************************************************************)
(* What SelectSeq of Sequences does, for membership in a set, written as   *)
(* a function that proofs can look into.                                   *)
(***************************************************************************)
EXTENDS Naturals, Sequences

\* The elements of s that are in A, in their order.
Among(s, A) ==
  LET upTo[i \in 0 .. Len(s)] ==
        IF i = 0 THEN <<>>
        ELSE IF s[i] \in A THEN Append(upTo[i - 1], s[i]) ELSE upTo[i - 1]
  IN  upTo[Len(s)]
=============================================================================
