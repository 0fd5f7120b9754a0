--------------------------- MODULE MCWriteBehind ---------------------------
EXTENDS WriteBehind
(* Processes, and flush callers, are interchangeable in the safety runs. *)
Interchangeable == Permutations(Procs) \cup Permutations(Flushers)
=============================================================================
