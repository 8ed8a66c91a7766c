------------------------------ MODULE Sublists ------------------------------
(***************************************************************************)
(* The part of a list that a loop keeps when it copies some of the         *)
(* elements and skips the others.                                          *)
(***************************************************************************)
EXTENDS Integers, FiniteSets

\* The elements of s at the positions in "kept", in their order: the k-th of them
\* is at the position that has k kept ones up to it.
Sublist(s, kept) ==
    [k \in 1..Cardinality(kept) |->
        s[CHOOSE i \in kept : Cardinality({j \in kept : j <= i}) = k]]
=============================================================================
