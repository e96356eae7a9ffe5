------------------------ MODULE MCIdentityLifecycle ------------------------
(* IdentityLifecycle for TLC: an identity passes the gate, is collapsed and
   restored.  There are two collapse decisions; of the other records a second
   one is posted under the identifier of the first.                         *)
EXTENDS IdentityLifecycle, TLC

CONSTANTS ann, t1, d1, d2, v1, e1

TwoDecisions ==
  [k \in Kinds |-> CASE k = "turnstile" -> {t1}
                     [] k = "collapse-decision" -> {d1, d2}
                     [] k = "reactivation" -> {v1}
                     [] k = "reactivation-decision" -> {e1}
                     [] OTHER -> {ann}]

Interchangeable == Permutations(Requests)
=============================================================================
