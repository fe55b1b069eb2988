--------------------------- MODULE MCProcessLease ---------------------------
(* The ownership of the managed OBS on a small instance.                     *)
EXTENDS ProcessLease, TLC

Symmetric == Permutations(Apps) \union Permutations(Pids)
=============================================================================
