---------------------------- MODULE Subsequence ----------------------------
(***************************************************************************)
(* Part of a list, in the order of the list: what a Python comprehension   *)
(* with a condition, or a loop that appends, makes of it.  It is           *)
(* SelectSeq, given by positions, so that it can be reasoned about.        *)
(***************************************************************************)
EXTENDS Naturals, Sequences, FiniteSets

\* The positions that come before i, and how many they are.
Below(at, i) == {j \in at : j < i}
Before(at, i) == Cardinality(Below(at, i))

Picked(s, at) ==
    [k \in 1 .. Cardinality(at) |-> s[CHOOSE i \in at : Before(at, i) = k - 1]]
=============================================================================
