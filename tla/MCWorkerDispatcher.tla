------------------------- MODULE MCWorkerDispatcher -------------------------
(* Small instances of WorkerDispatcher for TLC. *)
EXTENDS WorkerDispatcher, TLC

Symmetry == Permutations(Items) \cup Permutations(Workers) \cup Permutations(Processes \ Sweepers)
=============================================================================
