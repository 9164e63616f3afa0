------------------------------- MODULE Ordering -------------------------------
(***************************************************************************)
(* Lists made of sets: sorted() and ORDER BY with a key that tells all     *)
(* elements apart.                                                         *)
(***************************************************************************)
EXTENDS Naturals, FiniteSets

\* The elements of S, each after all those that come before it.
Ordered(S, Before(_, _)) ==
    [k \in 1 .. Cardinality(S) |->
        CHOOSE x \in S : Cardinality({y \in S : Before(y, x)}) = k - 1]
================================================================================
