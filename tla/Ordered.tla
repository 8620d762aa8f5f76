------------------------------ MODULE Ordered ------------------------------
(***************************************************************************)
(* Sets of numbers taken in order: the keys of a snapshot, which is sorted,*)
(* and the positions of a batch that a node accepts.                       *)
(***************************************************************************)
EXTENDS Naturals, FiniteSets

(* The members of a finite set of numbers, smallest first.                 *)
InOrder(S) ==
    CHOOSE f \in [1..Cardinality(S) -> S] :
        \A i, j \in 1..Cardinality(S) : i < j => f[i] < f[j]
=============================================================================
