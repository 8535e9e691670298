----------------------------- MODULE MCRelease -----------------------------
(***************************************************************************)
(* Release on small instances.                                             *)
(***************************************************************************)
EXTENDS Release, TLC

\* Requests are interchangeable: no action or property tells them apart.
RequestSymmetry == Permutations(Requests)
=============================================================================
