---------------------------- MODULE MCStoredFiles ----------------------------
(* Instances of StoredFiles for TLC. *)
EXTENDS StoredFiles, TLC

WorkerSymmetry == Permutations(Calls) \cup Permutations(Resources)
=============================================================================
