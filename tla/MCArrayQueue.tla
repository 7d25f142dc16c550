---------------------------- MODULE MCArrayQueue ----------------------------
(* Model-checking instance of ArrayQueue: threads and values are            *)
(* interchangeable.                                                         *)
EXTENDS ArrayQueue, TLC

Symmetry == Permutations(Threads) \cup Permutations(Values)
==============================================================================
