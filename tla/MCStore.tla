------------------------------ MODULE MCStore ------------------------------
(* Small instances of Store for TLC.                                       *)
EXTENDS Store

Symmetry == Permutations(Keys) \cup Permutations(Values)
=============================================================================
