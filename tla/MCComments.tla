----------------------------- MODULE MCComments -----------------------------
(***************************************************************************)
(* Comments on small instances.                                            *)
(***************************************************************************)
EXTENDS Comments, TLC

\* Requests are interchangeable, and so are the ids of comments.
Symmetry == Permutations(Workers) \union Permutations(Comments)
=============================================================================
