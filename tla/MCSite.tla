------------------------------- MODULE MCSite -------------------------------
EXTENDS Site, TLC

\* Two names with one alias, as "C" and "C++" have.
MCSlugOf == [t \in Titles |-> "c"]

\* Two of each: swapping the members of one of these sets changes no step.
MCSymmetry == Permutations(Cats) \union Permutations(Keepers)
=============================================================================
