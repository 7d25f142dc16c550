------------------------- MODULE MCAppendOnlyResults -------------------------
(* Threads and values are interchangeable: no action or property orders them. *)
EXTENDS AppendOnlyResults, TLC

Symmetry == Permutations(Threads) \cup Permutations(Values)
==============================================================================
