---------------------------- MODULE ObjectClaims ----------------------------
(***************************************************************************)
(* How an object is claimed, reserved and handed over:                     *)
(*                                                                         *)
(*   object-handle          its owner posts the object                     *)
(*   object-claim           another identity claims it                     *)
(*   object-claim-decision  the owner, or the claimant, decides the claim  *)
(*   object-handoff         either records that it changed hands           *)
(*                                                                         *)
(* Each worker puts claim and object back whole, from the copies it read.  *)
(* A client may send the identifier of the claim or handoff it makes, also *)
(* one under which another is stored, which is then replaced.  Left out:   *)
(* handles, the records and indexes nothing decides by, trails, and what   *)
(* follows from what is kept: an object is reserved by the claimant of its *)
(* claim.                                                                  *)
(***************************************************************************)
EXTENDS IdentityStore

CONSTANTS
  Shown,        \* bound: the statuses objects are posted with
  PostedClaims, \* bound: the statuses claims are posted with
  Forced        \* bound: whether a client may force what is not ready

ObjectKinds == {"object", "object-claim", "object-handoff"}

(* "available" stands for waiting too, and "closed" for fulfilled, archived,
   sold and paused: no worker tells these apart.                           *)
ObjectStatus == {"available", "reserved", "handed_off", "closed"}

(* "accepted" stands for fulfilled too: a handoff takes either.            *)
StatusByDecision ==
  [d \in {"accept", "reject", "cancel", "fulfill", "archive", "reopen"} |->
     CASE d = "accept"  -> "accepted"
       [] d = "reject"  -> "rejected"
       [] d = "cancel"  -> "cancelled"
       [] d = "fulfill" -> "accepted"
       [] d = "archive" -> "archived"
       [] d = "reopen"  -> "open"]

ClaimDecisions == DOMAIN StatusByDecision
ClaimStatus == {StatusByDecision[d] : d \in ClaimDecisions}
OwnersDecisions == {"accept", "reject", "fulfill"}

(* "pending" stands for disputed and archived too.                         *)
HandoffStatus == {"pending", "completed", "cancelled"}

ASSUME ClaimsAssumption ==
  /\ ObjectKinds \subseteq DOMAIN Pool
  /\ Shown \subseteq ObjectStatus \ {"handed_off"}
  /\ PostedClaims \subseteq ClaimStatus
  /\ Forced \subseteq BOOLEAN
  /\ \A n \in DOMAIN Bounds : Bounds[n].decisions \subseteq ClaimDecisions

Object(o)  == <<"object", o>>
Claim(c)   == <<"object-claim", c>>
Handoff(h) == <<"object-handoff", h>>

(* object-claim:index:object-claimant:<object>:<identity>, of which only the
   newest entry is read: an append makes its own claim the newest.         *)
ClaimsBy(o, i) == <<"claims-by", o, i>>
Latest(o, i, c) == Writes(ClaimsBy(o, i), {c})

(* object-handle.js: whoever posts an object under an identifier, new or
   not, becomes its owner, and nothing of the record before remains.       *)
PostObject(r) ==
  \E o \in Chosen("object"), by \in Identities, status \in Shown :
    Goes(r, <<Writes(Object(o), [owner |-> by, status |-> status, claim |-> None,
                                 handoff |-> None, holder |-> None])>>)

(* object-claim.js, maybeUpdateObjectStatus.                               *)
ReservedBy(c, object, reserves) ==
  IF reserves /\ object.status = "available"
  THEN [object EXCEPT !.status = "reserved", !.claim = c]
  ELSE object

ClaimPuts(c, o, claim, object) ==
  <<Writes(Claim(c), claim), Latest(o, claim.claimant, c), Writes(Object(o), object)>>

ReadToClaim(r) ==
  \E by \in Identities, o \in Chosen("object") :
    /\ Stored(Object(o))
    /\ kv[Object(o)].owner # by
    /\ StartReading(r, [op |-> "claim", by |-> by, id |-> o, object |-> kv[Object(o)]])

ReadLatest(r) ==
  /\ HasRead(r, "claim")
  /\ Reads(r, [op |-> "claim-latest", by |-> reading[r].by, id |-> reading[r].id,
               object |-> reading[r].object,
               latest |-> Listed(ClaimsBy(reading[r].id, reading[r].by))])

(* A second claim is made only when the one before is over.  The kinds of
   claim that reserve are told apart from those that do not.               *)
ClaimObject(r) ==
  /\ HasRead(r, "claim-latest")
  /\ LET asks == reading[r]
     IN  IF \A c \in asks.latest : kv[Claim(c)].status \in {"cancelled", "archived"}
         THEN \E c \in Given("object-claim"), status \in PostedClaims, reserves \in BOOLEAN :
                WillPut(r, ClaimPuts(c, asks.id,
                  [object |-> asks.id, owner |-> asks.object.owner,
                   claimant |-> asks.by, status |-> status, handoff |-> None],
                  ReservedBy(c, asks.object, reserves)))
         ELSE WillPut(r, <<>>)

(* object-claim-decision.js.  A slip: the owner is not compared.           *)
SameOwner_Any(claim) == Stored(Object(claim.object))

SameOwner(claim) ==
  /\ Stored(Object(claim.object))
  /\ kv[Object(claim.object)].owner = claim.owner

(* Claims, handoffs and proofs name the two.                               *)
Party(by, record) == by \in {record.owner, record.claimant}

(* updateObjectForDecision.  A slip: only a rejection releases the object. *)
Decided_RejectOnly(object, c, decision) ==
  CASE decision = "accept" -> [object EXCEPT !.status = "reserved", !.claim = c]
    [] decision = "reject" ->
         [object EXCEPT !.claim = IF @ = c THEN None ELSE @,
                        !.status = IF @ = "reserved" THEN "available" ELSE @]
    [] decision \in {"fulfill", "archive"} -> [object EXCEPT !.status = "closed"]
    [] OTHER -> object

Decided(object, c, decision) ==
  CASE decision = "accept" -> [object EXCEPT !.status = "reserved", !.claim = c]
    [] decision \in {"reject", "cancel", "reopen"} ->
         [object EXCEPT !.claim = IF @ = c THEN None ELSE @,
                        !.status = IF @ = "reserved" THEN "available" ELSE @]
    [] decision \in {"fulfill", "archive"} -> [object EXCEPT !.status = "closed"]

ReadToDecide(r) ==
  \E by \in Identities, c \in Chosen("object-claim"), decision \in bounds.decisions :
    /\ Stored(Claim(c))
    /\ Party(by, kv[Claim(c)])
    /\ decision \in OwnersDecisions => by = kv[Claim(c)].owner
    /\ StartReading(r, [op |-> "decide", id |-> c, decision |-> decision,
                        claim |-> kv[Claim(c)]])

(* The claim's status before is not asked for.                             *)
DecideClaim(r) ==
  /\ HasRead(r, "decide")
  /\ LET c == reading[r].id
         claim == reading[r].claim
         decision == reading[r].decision
         o == claim.object
     IN  IF SameOwner(claim)
         THEN WillPut(r,
                <<Writes(Claim(c), [claim EXCEPT !.status = StatusByDecision[decision]]),
                  Writes(Object(o), Decided(kv[Object(o)], c, decision))>>)
         ELSE WillPut(r, <<>>)

(* object-handoff.js, updateObjectForHandoff.                              *)
HandedOff(object, h, status, to) ==
  CASE status = "completed" ->
         [object EXCEPT !.status = "handed_off", !.handoff = h, !.holder = to]
    [] status = "cancelled" ->
         LET mine == object.handoff = h
         IN  [object EXCEPT !.handoff = IF mine THEN None ELSE @,
                            !.holder = IF mine THEN None ELSE @,
                            !.status = IF @ = "handed_off" THEN "reserved" ELSE @]
    [] OTHER -> object

ReadToHandOff(r) ==
  \E by \in Identities, c \in Chosen("object-claim"), force \in Forced :
    /\ Stored(Claim(c))
    /\ Party(by, kv[Claim(c)])
    /\ kv[Claim(c)].status = "accepted" \/ force
    /\ StartReading(r, [op |-> "hand-off", id |-> c, claim |-> kv[Claim(c)]])

NewHandoff(c, claim) ==
  [claim |-> c, object |-> claim.object, owner |-> claim.owner,
   claimant |-> claim.claimant, proof |-> None]

HandoffPuts(h, c, claim, object, status, to) ==
  <<Writes(Handoff(h), NewHandoff(c, claim)),
    Writes(Claim(c), [claim EXCEPT !.handoff = h,
                        !.status = IF status = "completed" THEN "accepted" ELSE @]),
    Writes(Object(claim.object), HandedOff(object, h, status, to))>>

(* A claim already handed over may get another handoff under the same id.  *)
HandOff(r) ==
  /\ HasRead(r, "hand-off")
  /\ LET c == reading[r].id
         claim == reading[r].claim
         named == {claim.handoff} \ {None}
     IN  IF SameOwner(claim)
         THEN \E h \in Given("object-handoff") \union named,
                 status \in HandoffStatus, to \in {claim.owner, claim.claimant} :
                WillPut(r, HandoffPuts(h, c, claim, kv[Object(claim.object)], status, to))
         ELSE WillPut(r, <<>>)

ClaimStep(r) ==
  \/ PostObject(r) \/ ReadToClaim(r) \/ ReadLatest(r) \/ ClaimObject(r)
  \/ ReadToDecide(r) \/ DecideClaim(r) \/ ReadToHandOff(r) \/ HandOff(r)

-----------------------------------------------------------------------------
Holds(kind, id) == id \in Pool[kind] /\ Stored(<<kind, id>>)

(* The claim and the handoff an object names are on record and, unless a
   client posted others over them, are of this object and of its owner; who
   holds an object is then a party of its handoff, and a handed-off object
   has one.                                                                *)
ObjectBacked ==
  \A o \in Chosen("object") : Stored(Object(o)) =>
    LET object == kv[Object(o)]
        OfObject(key) ==
          Kept(key) => kv[key].object = o /\ kv[key].owner = object.owner
    IN  /\ object.claim # None =>
             Holds("object-claim", object.claim) /\ OfObject(Claim(object.claim))
        /\ object.handoff # None =>
             LET h == Handoff(object.handoff)
             IN  /\ Holds("object-handoff", object.handoff)
                 /\ OfObject(h)
                 /\ Kept(h) => Party(object.holder, kv[h])
        /\ object.status = "handed_off" => object.handoff # None

(* When requests come one at a time and none is cut off, no object stays
   reserved for a claim on it that was rejected or cancelled.  It may for one
   whose identifier a client sent for a claim on another object.           *)
ReservationReleased ==
  bounds.oneByOne /\ crashes = 0 /\ Quiet =>
    \A o \in Chosen("object") :
      Stored(Object(o)) /\ kv[Object(o)].claim # None =>
        LET claim == kv[Claim(kv[Object(o)].claim)]
        IN  claim.object = o => claim.status \notin {"rejected", "cancelled"}
=============================================================================
