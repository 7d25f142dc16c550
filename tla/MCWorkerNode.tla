---------------------------- MODULE MCWorkerNode ----------------------------
(* Model-checking instance of WorkerNode: one caller submits, steals and     *)
(* asks for batches, and its receives time out or fail; the other submits,   *)
(* steals, loads fragments and executes graphs.                              *)
EXTENDS WorkerNode, TLC

CONSTANTS p, q

MCUsed == (p :> {"enqueue", "steal", "batch"}) @@ (q :> {"enqueue", "steal", "load", "graph"})
MCBoth == (p :> {"enqueue", "steal"}) @@ (q :> {"enqueue", "steal"})
==============================================================================
