-------------------------- MODULE MCWorkerManager --------------------------
(***************************************************************************)
(* TLC instances of WorkerManager: symmetry for the safety runs.           *)
(***************************************************************************)
EXTENDS WorkerManager, TLC

Symmetry == Permutations(Threads) \cup Permutations(Procs) \cup Permutations(Names)
=============================================================================
