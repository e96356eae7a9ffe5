--------------------------- MODULE ObjectEvidence ---------------------------
(***************************************************************************)
(* What becomes of a handoff of ObjectClaims:                              *)
(*                                                                         *)
(*   handoff-proof           a party attaches a proof to the handoff       *)
(*   handoff-proof-decision  a party decides the proof                     *)
(*   proof-to-ican           a party makes it evidence of what it can do   *)
(*                                                                         *)
(* A client may force a proof that was not accepted, so the status of a    *)
(* proof decides nothing and is left out; what a decision on a proof does  *)
(* is to put the proof and the handoff back.  A client may send the        *)
(* identifier of the proof or evidence it makes.  Left out too are the     *)
(* capability and the records of these decisions.                          *)
(***************************************************************************)
EXTENDS ObjectClaims

ASSUME EvidenceAssumption == {"handoff-proof", "ican-evidence"} \subseteq DOMAIN Pool

Proof(p)    == <<"handoff-proof", p>>
Evidence(e) == <<"ican-evidence", e>>

(* ican-evidence:index:proof:<proof>:<identity>.                           *)
EvidenceOf(p, i) == <<"evidence-of", p, i>>

(* handoff-proof.js: the handoff is put back from the copy read before the
   proof was stored.                                                       *)
ProofPuts(p, h, handoff) ==
  <<Writes(Proof(p), [handoff |-> h, claim |-> handoff.claim,
                      owner |-> handoff.owner, claimant |-> handoff.claimant]),
    Writes(Handoff(h), [handoff EXCEPT !.proof = p])>>

AttachProof(r) ==
  \E by \in Identities, h \in Chosen("object-handoff"), p \in Given("handoff-proof") :
    /\ Stored(Handoff(h))
    /\ Party(by, kv[Handoff(h)])
    /\ Goes(r, ProofPuts(p, h, kv[Handoff(h)]))

(* handoff-proof-decision.js: the proof is put back; then the handoff is read
   and put back with the status of a proof that may be no longer its own.  *)
DecisionPuts(p, proof) ==
  <<Writes(Proof(p), proof), PutsBack(Handoff(proof.handoff))>>

DecideProof(r) ==
  \E by \in Identities, p \in Chosen("handoff-proof") :
    /\ Stored(Proof(p))
    /\ Party(by, kv[Proof(p)])
    /\ Goes(r, DecisionPuts(p, kv[Proof(p)]))

(* proof-to-ican.js: evidence of one proof for one identity, unless some is
   listed.  A slip: it is listed under the owner.                          *)
EvidencePuts_ListedUnderOwner(e, p, by) ==
  <<Writes(Evidence(e), [proof |-> p, identity |-> by]),
    Appends(EvidenceOf(p, kv[Proof(p)].owner), e)>>

EvidencePuts(e, p, by) ==
  <<Writes(Evidence(e), [proof |-> p, identity |-> by]),
    Appends(EvidenceOf(p, by), e)>>

ReadToAttach(r) ==
  \E by \in Identities, p \in Chosen("handoff-proof") :
    /\ Stored(Proof(p))
    /\ Party(by, kv[Proof(p)])
    /\ StartReading(r, [op |-> "attach", id |-> p, by |-> by])

AttachEvidence(r) ==
  /\ HasRead(r, "attach")
  /\ LET p == reading[r].id
         by == reading[r].by
     IN  IF Listed(EvidenceOf(p, by)) = {}
         THEN \E e \in Given("ican-evidence") : WillPut(r, EvidencePuts(e, p, by))
         ELSE WillPut(r, <<>>)

ObjectStep(r) ==
  \/ ClaimStep(r) \/ AttachProof(r) \/ DecideProof(r)
  \/ ReadToAttach(r) \/ AttachEvidence(r)

-----------------------------------------------------------------------------
ObjectRecord ==
  [owner : Identities, status : ObjectStatus, claim : OrNone(Pool["object-claim"]),
   handoff : OrNone(Pool["object-handoff"]), holder : OrNone(Identities)]

ClaimRecord ==
  [object : Pool["object"], owner : Identities, claimant : Identities,
   status : ClaimStatus, handoff : OrNone(Pool["object-handoff"])]

HandoffRecord ==
  [claim : Pool["object-claim"], object : Pool["object"], owner : Identities,
   claimant : Identities, proof : OrNone(Pool["handoff-proof"])]

ProofRecord ==
  [handoff : Pool["object-handoff"], claim : Pool["object-claim"],
   owner : Identities, claimant : Identities]

ObjectsTyped ==
  /\ \A o \in Chosen("object") : Stored(Object(o)) => kv[Object(o)] \in ObjectRecord
  /\ \A c \in Chosen("object-claim") : Stored(Claim(c)) => kv[Claim(c)] \in ClaimRecord
  /\ \A h \in Chosen("object-handoff") : Stored(Handoff(h)) => kv[Handoff(h)] \in HandoffRecord
  /\ \A p \in Chosen("handoff-proof") : Stored(Proof(p)) => kv[Proof(p)] \in ProofRecord

(* Every record of the chain names one that is on record and, unless a client
   posted another over that, is of the same claim between the same parties: a
   claim its handoff, a handoff its proof, a proof its handoff; and evidence
   belongs to a party of its proof.                                        *)
ChainBacked ==
  /\ \A c \in Chosen("object-claim") : Stored(Claim(c)) =>
       LET claim == kv[Claim(c)]
           h == Handoff(claim.handoff)
       IN  claim.handoff # None =>
             /\ Stored(h)
             /\ Kept(h) => /\ kv[h].claim = c
                           /\ kv[h].object = claim.object
                           /\ kv[h].owner = claim.owner
                           /\ kv[h].claimant = claim.claimant
  /\ \A h \in Chosen("object-handoff") : Stored(Handoff(h)) =>
       LET handoff == kv[Handoff(h)]
           p == Proof(handoff.proof)
       IN  /\ Stored(Claim(handoff.claim))
           /\ handoff.proof # None =>
                /\ Stored(p)
                /\ Kept(p) => kv[p].handoff = h /\ kv[p].claim = handoff.claim
  /\ \A p \in Chosen("handoff-proof") : Stored(Proof(p)) =>
       LET proof == kv[Proof(p)]
           h == Handoff(proof.handoff)
       IN  /\ Stored(h)
           /\ Kept(h) => /\ kv[h].claim = proof.claim
                         /\ kv[h].owner = proof.owner
                         /\ kv[h].claimant = proof.claimant
  /\ \A e \in Chosen("ican-evidence") : Stored(Evidence(e)) =>
       LET evidence == kv[Evidence(e)]
           p == Proof(evidence.proof)
       IN  Stored(p) /\ (Kept(p) => Party(evidence.identity, kv[p]))

(* Along the whole chain, from the object to the evidence, every record named
   is stored and, unless a client posted another over it, is of the claim and
   of the parties that the one naming it says, whatever overlaps and whatever
   is cut off.                                                             *)
RecordsBacked == ObjectBacked /\ ChainBacked

(* When requests come one at a time, a proof is evidence for an identity
   once, and once more for each request cut off.                           *)
EvidenceOnce ==
  bounds.oneByOne => \A p \in Chosen("handoff-proof"), i \in Identities :
    Cardinality({e \in Chosen("ican-evidence") :
                   /\ Stored(Evidence(e))
                   /\ kv[Evidence(e)].proof = p
                   /\ kv[Evidence(e)].identity = i}) <= 1 + crashes
=============================================================================
