--------------------------- MODULE MCValueTrails ---------------------------
(* ValueTrails for TLC: interchangeable surfaces and requests.              *)
EXTENDS ValueTrails, TLC

Interchangeable == Permutations(Requests) \union Permutations(Surfaces)
=============================================================================
