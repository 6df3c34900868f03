------------------------------ MODULE MCLinks ------------------------------
(***************************************************************************)
(* Links on small instances; each .cfg chooses the requests that matter to *)
(* its question.  Requests and URLs are interchangeable.                   *)
(***************************************************************************)
EXTENDS Links, TLC

Symmetry == Permutations(Requests) \cup Permutations(URLs)
=============================================================================
