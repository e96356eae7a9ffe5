------------------------ MODULE MCEmailVerification ------------------------
(* EmailVerification for TLC.                                              *)
EXTENDS EmailVerification, TLC

Interchangeable ==
  Permutations(Requests) \union Permutations(Passes) \union
  Permutations(Tokens) \union Permutations(Ids)
=============================================================================
