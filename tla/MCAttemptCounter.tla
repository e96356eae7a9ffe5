-------------------------- MODULE MCAttemptCounter --------------------------
(* AttemptCounter for TLC.                                                 *)
EXTENDS AttemptCounter, TLC

Interchangeable == Permutations(Requests)
=============================================================================
