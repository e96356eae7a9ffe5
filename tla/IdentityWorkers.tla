-------------------------- MODULE IdentityWorkers --------------------------
(***************************************************************************)
(* The workers that share env.IDENTITY together: fields and pings, objects *)
(* and evidence, accounts and their entry.  Requests to all of them may    *)
(* overlap.  What proximity-enter and relevance-check store is what the    *)
(* ping workers go on with; the rest meets only in the requests.           *)
(***************************************************************************)
EXTENDS FieldProximity, ObjectEvidence, AccountEntry

(* What earlier requests may have left: findings, and objects claimed but
   not yet handed over.                                                    *)
GivenFits(given) ==
  /\ IsFiniteSet(DOMAIN given)
  /\ \A key \in DOMAIN given :
       /\ key[1] \in {"relevance", "object", "object-claim", "claims-by"}
       /\ key[1] = "relevance" => given[key] \in RelevanceRecord
       /\ key[1] = "object" =>
            LET object == given[key]
            IN  /\ object \in ObjectRecord
                /\ object.handoff = None /\ object.status # "handed_off"
                /\ object.claim # None =>
                     /\ Claim(object.claim) \in DOMAIN given
                     /\ LET claim == given[Claim(object.claim)]
                        IN  /\ claim.object = key[2]
                            /\ claim.owner = object.owner
                            /\ claim.status \notin {"rejected", "cancelled"}
       /\ key[1] = "object-claim" =>
            given[key] \in ClaimRecord /\ given[key].handoff = None

ASSUME WorkersAssumption == \A n \in DOMAIN Bounds : GivenFits(Bounds[n].given)

Next ==
  \/ \E t \in Chosen("setup") : ExpireToken(t)
  \/ \E r \in Requests :
       \/ PingStep(r) \/ FieldStep(r) \/ ObjectStep(r) \/ EntryStep(r)
       \/ Put(r) \/ Crash(r)

Spec == Init /\ [][Next]_vars
-----------------------------------------------------------------------------
(* Every record is what its readers take it for, whoever stored it.        *)
TypeOK ==
  /\ PingsTyped
  /\ FieldsTyped
  /\ ObjectsTyped
  /\ EntryTyped
  /\ crashes \in 0..bounds.crashes
=============================================================================
