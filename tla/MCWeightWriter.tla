--------------------------- MODULE MCWeightWriter ---------------------------
(* WeightWriter for TLC: writers, and tensor names, are interchangeable.   *)
EXTENDS WeightWriter, TLC

Symmetry == Permutations(Writers) \cup Permutations(Names)
=============================================================================
