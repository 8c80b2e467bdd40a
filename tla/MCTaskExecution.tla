-------------------------- MODULE MCTaskExecution --------------------------
(* Instances of TaskExecution for TLC. *)
EXTENDS TaskExecution, TLC

\* Threads and state objects are only compared.
Symmetry == Permutations(Threads) \cup Permutations(States)
=============================================================================
