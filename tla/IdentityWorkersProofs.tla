----------------------- MODULE IdentityWorkersProofs -----------------------
(***************************************************************************)
(* What IdentityWorkers keeps true however many requests overlap and       *)
(* wherever they are cut off, for any identities, pools and scenes:        *)
(* EntryBacked and ConsumedWhole, RecordsBacked, EventsBacked and, where   *)
(* clients post no status that only a throttle gives, TypeOK and           *)
(* PingsBacked.                                                            *)
(*                                                                         *)
(* All of these say that a record rests on others that are stored.  IInv   *)
(* says it of every record that is stored or will be put: each rests on    *)
(* facts, which are what is stored and what the same request puts before.  *)
(* Facts last, because the fields others rest on (Same) never change: who  *)
(* puts a record again got it from the store, or made it under a new       *)
(* identifier, or under one of those that clients post other records over; *)
(* nothing is said of what the claims, handoffs and proofs under these say. *)
(***************************************************************************)
EXTENDS IdentityWorkers, SequenceTheorems, FiniteSetTheorems, TLAPS

(* No client posts a ping with a status only ping-throttle gives.          *)
Untold == PostedPings \intersect Allowed = {}

IndexKinds == {"throttled-to", "of-relevance", "intents-of", "claims-by", "evidence-of"}

(* The kinds of record that are never deleted and that others rest on.     *)
LastingKinds ==
  PingKinds \union ObjectKinds \union
  {"intent", "proximity", "proximity-exit", "handoff-proof", "user", "user-email"}

(* What a record put again under its key has in common with the last: of a
   claim, a handoff or a proof only where no client posts another over it. *)
Same(b, key, u, v) ==
  /\ key[1] = "ping-throttle" => u = v
  /\ key[1] = "proximity" => u.at = v.at /\ u.owner = v.owner /\ u.intent = v.intent
  /\ key[1] = "proximity-exit" => u.event = v.event
  /\ key[1] = "user" => u.email = v.email
  /\ key \notin b.again =>
       /\ key[1] \in {"object-claim", "object-handoff"} =>
            u.object = v.object /\ u.owner = v.owner /\ u.claimant = v.claimant
       /\ key[1] = "object-handoff" => u.claim = v.claim
       /\ key[1] = "handoff-proof" => u = v

IsWrite(p) == DOMAIN p = {"key", "value"}

(* The facts in a store, and those a list of puts adds before its n-th.    *)
Facts(st) == {Writes(k, st[k]) : k \in DOMAIN st}
Ahead(puts, n) == {puts[m] : m \in {k \in 1..(n - 1) : IsWrite(puts[k])}}
By(st, puts, n) == Facts(st) \union Ahead(puts, n)

Has(F, key) == \E f \in F : f.key = key

(* The facts G have what the facts F have, but for what may be deleted.    *)
Grows(b, F, G) ==
  \A f \in F : f.key[1] \in LastingKinds =>
    \E g \in G : g.key = f.key /\ Same(b, f.key, f.value, g.value)

-----------------------------------------------------------------------------
(* What a record rests on.                                                 *)

ThrottledAs(F, t, p, v) ==
  \E f \in F : /\ f.key = Throttle(t)
               /\ f.value.ping_id = p
               /\ f.value.from = v.from /\ f.value.to = v.to
               /\ f.value.decision = v.decision

LetMove(F, b, p, v) ==
  \E t \in b.pool["ping-throttle"] : \E f \in F :
    /\ f.key = Throttle(t)
    /\ f.value.ping_id = p
    /\ f.value.from = v.from /\ f.value.to = v.to
    /\ f.value.decision \in Allowed

MadeByEvent(F, v) ==
  /\ v.from # v.to
  /\ \E f \in F : /\ f.key = Proximity(v.event)
                  /\ f.value.at = v.from /\ f.value.owner = v.to
                  /\ f.value.intent # None

PingRests(F, p, v) ==
  /\ v.throttle # None => ThrottledAs(F, v.throttle, p, v)
  /\ v.decision # None => v.throttle # None
  /\ Untold /\ v.status \in Allowed => v.decision = v.status
  /\ v.route # None => Has(F, Route(v.route))
  /\ v.delivery # None => Has(F, Delivery(v.delivery))
  /\ v.event # None => MadeByEvent(F, v)

RouteRests(F, v) ==
  Untold => \E f \in F : /\ f.key = Throttle(v.throttle)
                         /\ f.value.ping_id = v.ping_id
                         /\ f.value.from = v.from /\ f.value.to = v.to
                         /\ f.value.decision \in Allowed

EventRests(F, x, v) ==
  /\ v.intent # None => Has(F, Intent(v.intent))
  /\ v.exit # None => \E f \in F : f.key = Exit(v.exit) /\ f.value.event = x

(* F has the key and, unless clients post other records over its record, that
   one is of the object o and of its owner.                                *)
OfObject(b, F, key, o, owner) ==
  \E f \in F : /\ f.key = key
               /\ key \notin b.again => f.value.object = o /\ f.value.owner = owner

PartyOf(b, F, i, key) ==
  \E f \in F : /\ f.key = key
               /\ key \notin b.again => i \in {f.value.owner, f.value.claimant}

ObjectRests(b, F, o, v) ==
  /\ v.claim # None => OfObject(b, F, Claim(v.claim), o, v.owner)
  /\ v.handoff # None => /\ OfObject(b, F, Handoff(v.handoff), o, v.owner)
                         /\ PartyOf(b, F, v.holder, Handoff(v.handoff))
  /\ v.status = "handed_off" => v.handoff # None

ClaimRests(b, F, c, v) ==
  v.handoff # None =>
    \E f \in F : /\ f.key = Handoff(v.handoff)
                 /\ f.key \notin b.again =>
                      /\ f.value.claim = c /\ f.value.object = v.object
                      /\ f.value.owner = v.owner /\ f.value.claimant = v.claimant

HandoffRests(b, F, h, v) ==
  /\ Has(F, Claim(v.claim))
  /\ v.proof # None =>
       \E f \in F : /\ f.key = Proof(v.proof)
                    /\ f.key \notin b.again =>
                         f.value.handoff = h /\ f.value.claim = v.claim

ProofRests(b, F, v) ==
  \E f \in F : /\ f.key = Handoff(v.handoff)
               /\ f.key \notin b.again =>
                    /\ f.value.claim = v.claim
                    /\ f.value.owner = v.owner /\ f.value.claimant = v.claimant

EvidenceRests(b, F, v) == PartyOf(b, F, v.identity, Proof(v.proof))

(* The user i is on record with the email e.                               *)
UserHas(F, i, e) == \E f \in F : f.key = User(i) /\ f.value.email = e

SetupRests(F, t, v) ==
  v = Consumed =>
    \E f \in F : f.key = User(t) /\ Has(F, UserEmail(f.value.email))

Rests(b, F, key, v) ==
  /\ key[1] = "ping" => PingRests(F, key[2], v)
  /\ key[1] = "carrier-route" => RouteRests(F, v)
  /\ key[1] = "ping-delivery" => (Untold => LetMove(F, b, v.ping_id, v))
  /\ key[1] = "proximity" => EventRests(F, key[2], v)
  /\ key[1] = "object" => ObjectRests(b, F, key[2], v)
  /\ key[1] = "object-claim" => ClaimRests(b, F, key[2], v)
  /\ key[1] = "object-handoff" => HandoffRests(b, F, key[2], v)
  /\ key[1] = "handoff-proof" => ProofRests(b, F, v)
  /\ key[1] = "ican-evidence" => EvidenceRests(b, F, v)
  /\ key[1] = "setup" => SetupRests(F, key[2], v)
  /\ key[1] = "user-email" => UserHas(F, v, key[2])
  /\ key[1] = "session" => UserHas(F, v.identity, v.email)

(* The shape of a record, in a scene with the bounds b.                    *)
IsUser(v) == v.email \in Emails /\ v.hash \in Emails \X Passwords \X {SetRounds}

Routed ==
  [ping_id : Pool["ping"], from : Identities, to : Identities,
   throttle : OrNone(Pool["ping-throttle"]), decision : Allowed]

Delivered ==
  [ping_id : Pool["ping"], carrier_route : Pool["carrier-route"],
   from : Identities, to : Identities,
   throttle : OrNone(Pool["ping-throttle"]), decision : OrNone(ThrottleDecisions)]

Shaped(b, key, v) ==
  /\ key[1] = "relevance" => v \in RelevanceRecord
  /\ key[1] = "ping" =>
       v \in PingRecord /\ v.throttle \in OrNone(b.pool["ping-throttle"])
  /\ key[1] = "ping-throttle" => v \in ThrottleRecord
  /\ key[1] = "carrier-route" =>
       /\ v \in Routed
       /\ Untold => v.throttle \in b.pool["ping-throttle"]
  /\ key[1] = "ping-delivery" =>
       v \in Delivered /\ (Untold => v.throttle # None /\ v.decision # None)
  /\ key[1] = "field" => IsField(v)
  /\ key[1] = "current-field" => IsField(v) /\ v.identity = key[2]
  /\ key[1] = "proximity" => v \in EventRecord
  /\ key[1] = "object" => v \in ObjectRecord
  /\ key[1] = "object-claim" => v \in ClaimRecord
  /\ key[1] = "object-handoff" => v \in HandoffRecord
  /\ key[1] = "handoff-proof" => v \in ProofRecord
  /\ key[1] = "setup" => v \in {Consumed, Expired} \union [email : Emails]
  /\ key[1] = "user" => IsUser(v)
  /\ key[1] = "user-email" => v \in b.pool["user"]
  /\ key[1] = "session" => v \in SessionRecord
  /\ key[1] = "throttled-to" => IsFiniteSet(v)
  /\ key[1] = "intents-of" => v \subseteq Pool["intent"]

Good(b, F, key, v) == Shaped(b, key, v) /\ Rests(b, F, key, v)

(* A copy of a record, as good as the one that is stored by now.           *)
Copied(b, F, key, v) ==
  /\ Good(b, F, key, v)
  /\ \E f \in F : f.key = key /\ Same(b, key, v, f.value)

-----------------------------------------------------------------------------
(* The requests.                                                           *)

(* What a request that is reading has asked and read.                      *)
ReadFits(b, F, x) ==
  /\ x.op = "relevance" => x.id \in Pool["relevance"] /\ x.to \in Identities
  /\ x.op = "throttle" =>
       /\ x.id \in Pool["ping"] /\ x.ask \in OrNone(ThrottleDecisions)
       /\ Copied(b, F, Ping(x.id), x.copy)
  /\ x.op = "deliver" =>
       /\ x.id \in Pool["ping"] /\ x.ask \in Pool["carrier-route"]
       /\ Copied(b, F, Ping(x.id), x.copy)
  /\ x.op = "close" => IsField(x.field)
  /\ x.op = "enter" =>
       /\ {"op", "at", "owner", "left", "found"} \subseteq DOMAIN x
       /\ x.at \in Identities /\ x.owner \in Identities /\ x.owner # x.at
       /\ x.left \subseteq Pool["intent"] /\ x.found \subseteq Pool["intent"]
       /\ \A n \in x.found : Has(F, Intent(n))
  /\ x.op \in {"check", "checked"} =>
       {"op", "by"} \subseteq DOMAIN x /\ x.by \in Identities
  /\ x.op \in {"claim", "claim-latest"} =>
       /\ x.by \in Identities /\ x.id \in Pool["object"]
       /\ Copied(b, F, Object(x.id), x.object)
  /\ x.op \in {"decide", "hand-off"} =>
       /\ x.id \in Pool["object-claim"]
       /\ Copied(b, F, Claim(x.id), x.claim)
  /\ x.op = "decide" => x.decision \in ClaimDecisions
  /\ x.op = "attach" =>
       /\ x.id \in Pool["handoff-proof"] /\ x.by \in Identities
       /\ EvidenceRests(b, F, [proof |-> x.id, identity |-> x.by])
  /\ x.op = "set" =>
       /\ x.id \in b.pool["setup"] /\ x.email \in Emails /\ x.password \in Passwords
  /\ x.op = "login" =>
       /\ x.id \in Pool["user"] /\ x.email \in Emails
       /\ UserHas(F, x.id, x.email)

(* What it will still put, on the facts before.                            *)
PutFits(b, F, p) ==
  \/ IsWrite(p) /\ Good(b, F, p.key, p.value)
  \/ /\ DOMAIN p = {"key", "adds"}
     /\ p.key[1] \in IndexKinds
     /\ p.key[1] = "intents-of" => p.adds \in Pool["intent"]
  \/ /\ DOMAIN p = {"key", "refresh"}
     /\ p.key[1] = "current-field"
     /\ Good(b, F, p.key, p.refresh)
  \/ /\ DOMAIN p = {"key", "back"}
     /\ p.key[1] = "object-handoff"
  \/ /\ DOMAIN p = {"key"}
     /\ p.key[1] = "session"

IsSeq(s) == \E S : s \in Seq(S)

StoreFits(b, st) == \A key \in DOMAIN st : Good(b, Facts(st), key, st[key])

ListFits(b, st, puts) ==
  IsSeq(puts) /\ \A n \in DOMAIN puts : PutFits(b, By(st, puts, n), puts[n])

RequestFits(r) ==
  /\ ListFits(bounds, kv, todo[r])
  /\ reading[r] # None =>
       todo[r] = <<>> /\ ReadFits(bounds, Facts(kv), reading[r])

(* Whoever will put a record puts what agrees with the stored one, and with
   what others will put.                                                   *)
Agreeing ==
  \A r \in Requests : \A n \in DOMAIN todo[r] : IsWrite(todo[r][n]) =>
    LET p == todo[r][n]
    IN  /\ Stored(p.key) => Same(bounds, p.key, p.value, kv[p.key])
        /\ \A q \in Requests : \A m \in DOMAIN todo[q] :
             IsWrite(todo[q][m]) /\ todo[q][m].key = p.key =>
               Same(bounds, p.key, p.value, todo[q][m].value)

(* A setup token is of one email: the one it was stored with, and that of
   all that follows from it.                                               *)
Says(t, e) ==
  \/ Live(t) /\ kv[Setup(t)].email = e
  \/ Stored(User(t)) /\ kv[User(t)].email = e
  \/ \E r \in Requests :
       \/ /\ reading[r] # None /\ reading[r].op = "set"
          /\ reading[r].id = t /\ reading[r].email = e
       \/ \E n \in DOMAIN todo[r] : /\ IsWrite(todo[r][n])
                                    /\ todo[r][n].key = User(t)
                                    /\ todo[r][n].value.email = e

Mails(r, n, t) ==
  todo[r][n].key = Setup(t) /\ IsWrite(todo[r][n]) /\ todo[r][n].value # Consumed

TokensApart ==
  /\ \A t \in Pool["setup"], e, f \in Emails : Says(t, e) /\ Says(t, f) => e = f
  /\ \A t \in Pool["setup"], e \in Emails : Says(t, e) => Stored(Setup(t))
  /\ \A r \in Requests, t \in Pool["setup"] : \A n \in DOMAIN todo[r] :
       Mails(r, n, t) =>
         /\ ~Stored(Setup(t))
         /\ \A q \in Requests : \A m \in DOMAIN todo[q] :
              todo[q][m].key = Setup(t) => q = r /\ m = n
  /\ \A r \in Requests, t \in Pool["setup"] : \A n \in DOMAIN todo[r] :
       todo[r][n].key = Setup(t) /\ ~Mails(r, n, t) => Stored(Setup(t))

(* An event makes one ping, whose copies all say so.                       *)
Names(p, x) ==
  \/ Stored(Ping(p)) /\ kv[Ping(p)].event = x
  \/ \E r \in Requests :
       \/ /\ reading[r] # None /\ reading[r].op \in {"throttle", "deliver"}
          /\ reading[r].id = p /\ reading[r].copy.event = x
       \/ \E n \in DOMAIN todo[r] : /\ IsWrite(todo[r][n])
                                    /\ todo[r][n].key = Ping(p)
                                    /\ todo[r][n].value.event = x

EventsApart ==
  \A p, q \in Pool["ping"], x \in Pool["proximity"] :
    Names(p, x) /\ Names(q, x) => p = q

IInv ==
  /\ scene \in DOMAIN Bounds
  /\ crashes \in 0..bounds.crashes
  /\ DOMAIN reading = Requests /\ DOMAIN todo = Requests
  /\ StoreFits(bounds, kv)
  /\ \A r \in Requests : RequestFits(r)
  /\ Agreeing
  /\ TokensApart
  /\ EventsApart
-----------------------------------------------------------------------------
(* Keys, bounds and facts.                                                 *)

(* The kind and the identifier of each key.                                *)
LEMMA KeysAre ==
  /\ \A i : Relevance(i)[1] = "relevance" /\ Relevance(i)[2] = i
  /\ \A i : Ping(i)[1] = "ping" /\ Ping(i)[2] = i
  /\ \A i : Throttle(i)[1] = "ping-throttle" /\ Throttle(i)[2] = i
  /\ \A i : Route(i)[1] = "carrier-route" /\ Route(i)[2] = i
  /\ \A i : Delivery(i)[1] = "ping-delivery" /\ Delivery(i)[2] = i
  /\ \A i : Field(i)[1] = "field" /\ Field(i)[2] = i
  /\ \A i : CurrentField(i)[1] = "current-field" /\ CurrentField(i)[2] = i
  /\ \A i : Intent(i)[1] = "intent" /\ Intent(i)[2] = i
  /\ \A i : Proximity(i)[1] = "proximity" /\ Proximity(i)[2] = i
  /\ \A i : Exit(i)[1] = "proximity-exit" /\ Exit(i)[2] = i
BY DEF Relevance, Ping, Throttle, Route, Delivery, Field, CurrentField, Intent,
       Proximity, Exit

(* The same of the keys of objects and accounts.                           *)
LEMMA MoreKeysAre ==
  /\ \A i : Object(i)[1] = "object" /\ Object(i)[2] = i
  /\ \A i : Claim(i)[1] = "object-claim" /\ Claim(i)[2] = i
  /\ \A i : Handoff(i)[1] = "object-handoff" /\ Handoff(i)[2] = i
  /\ \A i : Proof(i)[1] = "handoff-proof" /\ Proof(i)[2] = i
  /\ \A i : Evidence(i)[1] = "ican-evidence" /\ Evidence(i)[2] = i
  /\ \A i : Setup(i)[1] = "setup" /\ Setup(i)[2] = i
  /\ \A i : User(i)[1] = "user" /\ User(i)[2] = i
  /\ \A i : UserEmail(i)[1] = "user-email" /\ UserEmail(i)[2] = i
  /\ \A i : Session(i)[1] = "session" /\ Session(i)[2] = i
BY DEF Object, Claim, Handoff, Proof, Evidence, Setup, User, UserEmail, Session

(* And of those of the indexes.                                            *)
LEMMA IndexKeysAre ==
  /\ \A i : ThrottledTo(i)[1] = "throttled-to"
  /\ \A i : OfRelevance(i)[1] = "of-relevance"
  /\ \A i : IntentsOf(i)[1] = "intents-of"
  /\ \A o, i : ClaimsBy(o, i)[1] = "claims-by"
  /\ \A p, i : EvidenceOf(p, i)[1] = "evidence-of"
BY DEF ThrottledTo, OfRelevance, IntentsOf, ClaimsBy, EvidenceOf

(* A scene takes its identifiers from the pools.                           *)
LEMMA ScenesFit ==
  ASSUME IInv
  PROVE  /\ bounds = Bounds[scene] /\ scene \in DOMAIN Bounds
         /\ bounds.crashes \in Nat
         /\ bounds.oneByOne \in BOOLEAN
         /\ \A k \in DOMAIN Pool : bounds.pool[k] \subseteq Pool[k]
         /\ GivenFits(bounds.given)
         /\ bounds.pool["user"] = bounds.pool["setup"]
         /\ bounds.decisions \subseteq ClaimDecisions
<1>1. scene \in DOMAIN Bounds
  BY DEF IInv
<1>2. bounds = Bounds[scene]
  BY DEF bounds
<1>3. QED
  BY <1>1, <1>2, StoreAssumption, WorkersAssumption, EntryAssumption, ClaimsAssumption

(* Kinds have identifiers, and none of these is None.                      *)
LEMMA KindsArePooled ==
  /\ PingKinds \union FieldKinds \union ObjectKinds \union EntryKinds
       \union {"handoff-proof", "ican-evidence"} \subseteq DOMAIN Pool
  /\ \A k \in DOMAIN Pool : None \notin Pool[k]
  /\ None \notin Identities
BY PipelineAssumption, FieldAssumption, ClaimsAssumption, EntryAssumption,
   EvidenceAssumption, StoreAssumption

(* To have the fixed fields of a kind in common is an equivalence.         *)
LEMMA SameIsEquivalence ==
  /\ \A b, key, u : Same(b, key, u, u)
  /\ \A b, key, u, v : Same(b, key, u, v) => Same(b, key, v, u)
  /\ \A b, key, u, v, w : Same(b, key, u, v) /\ Same(b, key, v, w) => Same(b, key, u, w)
BY DEF Same

(* What is stored, and no more, is a fact.                                 *)
LEMMA FactsAre ==
  ASSUME NEW st
  PROVE  /\ \A k \in DOMAIN st : \E f \in Facts(st) : f.key = k /\ f.value = st[k]
         /\ \A f \in Facts(st) : f.key \in DOMAIN st /\ f.value = st[f.key]
<1>1. \A k : Writes(k, st[k]).key = k /\ Writes(k, st[k]).value = st[k]
  BY DEF Writes
<1>2. \A k \in DOMAIN st : Writes(k, st[k]) \in Facts(st)
  BY DEF Facts
<1>3. \A f \in Facts(st) : \E k \in DOMAIN st : f = Writes(k, st[k])
  BY DEF Facts
<1>4. QED
  BY <1>1, <1>2, <1>3

(* Adding facts takes none away.                                           *)
LEMMA MoreFactsGrow ==
  ASSUME NEW b, NEW F, NEW G, F \subseteq G
  PROVE  Grows(b, F, G)
BY SameIsEquivalence DEF Grows

(* Facts that grew twice have grown.                                       *)
LEMMA GrowsOn ==
  ASSUME NEW b, NEW F, NEW G, NEW H, Grows(b, F, G), Grows(b, G, H)
  PROVE  Grows(b, F, H)
<1>1. SUFFICES ASSUME NEW f \in F, f.key[1] \in LastingKinds
               PROVE  \E h \in H : h.key = f.key /\ Same(b, f.key, f.value, h.value)
  BY DEF Grows
<1>2. PICK g \in G : g.key = f.key /\ Same(b, f.key, f.value, g.value)
  BY <1>1 DEF Grows
<1>3. PICK h \in H : h.key = g.key /\ Same(b, g.key, g.value, h.value)
  BY <1>1, <1>2 DEF Grows
<1>4. QED
  BY <1>2, <1>3, SameIsEquivalence

(* A fact of a lasting kind is still a fact when the facts have grown.     *)
LEMMA FactLasts ==
  ASSUME NEW b, NEW F, NEW G, Grows(b, F, G), NEW f \in F, f.key[1] \in LastingKinds
  PROVE  \E g \in G : g.key = f.key /\ Same(b, f.key, f.value, g.value)
BY DEF Grows

(* The lemmas that follow: what rests on facts of lasting kinds rests on
   them still when the facts have grown.                                   *)
LEMMA HasLonger ==
  ASSUME NEW b, NEW F, NEW G, Grows(b, F, G), NEW key, key[1] \in LastingKinds, Has(F, key)
  PROVE  Has(G, key)
BY DEF Has, Grows

(* Who is a party of a claim, handoff or proof stays one.                  *)
LEMMA PartyLonger ==
  ASSUME NEW b, NEW F, NEW G, Grows(b, F, G), NEW i, NEW key,
         key[1] \in {"object-handoff", "handoff-proof"}, PartyOf(b, F, i, key)
  PROVE  PartyOf(b, G, i, key)
<1>1. PICK f \in F : /\ f.key = key
                     /\ key \notin b.again => i \in {f.value.owner, f.value.claimant}
  BY DEF PartyOf
<1>2. f.key[1] \in LastingKinds
  BY <1>1 DEF LastingKinds, ObjectKinds
<1>3. PICK g \in G : g.key = f.key /\ Same(b, f.key, f.value, g.value)
  BY <1>2, FactLasts
<1>4. QED
  BY <1>1, <1>3 DEF PartyOf, Same

(* A claim, or a handoff, stays one of its object and owner.               *)
LEMMA OfObjectLonger ==
  ASSUME NEW b, NEW F, NEW G, Grows(b, F, G), NEW key, NEW o, NEW owner,
         key[1] \in {"object-claim", "object-handoff"}, OfObject(b, F, key, o, owner)
  PROVE  OfObject(b, G, key, o, owner)
<1>1. PICK f \in F : /\ f.key = key
                     /\ key \notin b.again => f.value.object = o /\ f.value.owner = owner
  BY DEF OfObject
<1>2. f.key[1] \in LastingKinds
  BY <1>1 DEF LastingKinds, ObjectKinds
<1>3. PICK g \in G : g.key = f.key /\ Same(b, f.key, f.value, g.value)
  BY <1>2, FactLasts
<1>4. QED
  BY <1>1, <1>3 DEF OfObject, Same

(* A user keeps the email.                                                 *)
LEMMA UserHasLonger ==
  ASSUME NEW b, NEW F, NEW G, Grows(b, F, G), NEW i, NEW e, UserHas(F, i, e)
  PROVE  UserHas(G, i, e)
<1>1. PICK f \in F : f.key = User(i) /\ f.value.email = e
  BY DEF UserHas
<1>2. f.key[1] = "user" /\ f.key[1] \in LastingKinds
  BY <1>1, MoreKeysAre DEF LastingKinds
<1>3. PICK g \in G : g.key = f.key /\ Same(b, f.key, f.value, g.value)
  BY <1>2, FactLasts
<1>4. QED
  BY <1>1, <1>2, <1>3 DEF UserHas, Same

(* A ping rests on throttles, routes, deliveries and events.               *)
LEMMA PingRestsLonger ==
  ASSUME NEW b, NEW F, NEW G, Grows(b, F, G), NEW p, NEW v, PingRests(F, p, v)
  PROVE  PingRests(G, p, v)
<1>1. ASSUME v.throttle # None PROVE ThrottledAs(G, v.throttle, p, v)
  <2>1. PICK f \in F : /\ f.key = Throttle(v.throttle)
                       /\ f.value.ping_id = p
                       /\ f.value.from = v.from /\ f.value.to = v.to
                       /\ f.value.decision = v.decision
    BY <1>1 DEF PingRests, ThrottledAs
  <2>2. f.key[1] = "ping-throttle" /\ f.key[1] \in LastingKinds
    BY <2>1, KeysAre DEF LastingKinds, PingKinds
  <2>3. PICK g \in G : g.key = f.key /\ Same(b, f.key, f.value, g.value)
    BY <2>2, FactLasts
  <2>4. QED
    BY <2>1, <2>2, <2>3 DEF ThrottledAs, Same
<1>2. ASSUME v.event # None PROVE MadeByEvent(G, v)
  <2>1. PICK f \in F : /\ f.key = Proximity(v.event)
                       /\ f.value.at = v.from /\ f.value.owner = v.to
                       /\ f.value.intent # None
    BY <1>2 DEF PingRests, MadeByEvent
  <2>2. f.key[1] = "proximity" /\ f.key[1] \in LastingKinds
    BY <2>1, KeysAre DEF LastingKinds
  <2>3. PICK g \in G : g.key = f.key /\ Same(b, f.key, f.value, g.value)
    BY <2>2, FactLasts
  <2>4. v.from # v.to
    BY <1>2 DEF PingRests, MadeByEvent
  <2>5. QED
    BY <2>1, <2>2, <2>3, <2>4 DEF MadeByEvent, Same
<1>3. \A i : Route(i)[1] \in LastingKinds /\ Delivery(i)[1] \in LastingKinds
  BY KeysAre DEF LastingKinds, PingKinds
<1>4. v.route # None => Has(G, Route(v.route))
  BY <1>3, HasLonger DEF PingRests
<1>5. v.delivery # None => Has(G, Delivery(v.delivery))
  BY <1>3, HasLonger DEF PingRests
<1>6. QED
  BY <1>1, <1>2, <1>4, <1>5 DEF PingRests

(* An object rests on its claim and its handoff.                           *)
LEMMA ObjectRestsLonger ==
  ASSUME NEW b, NEW F, NEW G, Grows(b, F, G), NEW o, NEW v, ObjectRests(b, F, o, v)
  PROVE  ObjectRests(b, G, o, v)
<1>1. Claim(v.claim)[1] = "object-claim" /\ Handoff(v.handoff)[1] = "object-handoff"
  BY MoreKeysAre
<1>2. v.claim # None => OfObject(b, G, Claim(v.claim), o, v.owner)
  BY <1>1, OfObjectLonger DEF ObjectRests
<1>3. v.handoff # None => OfObject(b, G, Handoff(v.handoff), o, v.owner)
  BY <1>1, OfObjectLonger DEF ObjectRests
<1>4. v.handoff # None => PartyOf(b, G, v.holder, Handoff(v.handoff))
  BY <1>1, PartyLonger DEF ObjectRests
<1>5. QED
  BY <1>2, <1>3, <1>4 DEF ObjectRests

(* What a record rests on, it still rests on when the facts have grown.    *)
LEMMA RestsLonger ==
  ASSUME NEW b, NEW F, NEW G, Grows(b, F, G), NEW key, NEW v, Rests(b, F, key, v)
  PROVE  Rests(b, G, key, v)
<1>1. key[1] = "ping" => PingRests(G, key[2], v)
  BY PingRestsLonger DEF Rests
<1>2. ASSUME key[1] = "carrier-route", Untold
      PROVE  \E g \in G : /\ g.key = Throttle(v.throttle)
                          /\ g.value.ping_id = v.ping_id
                          /\ g.value.from = v.from /\ g.value.to = v.to
                          /\ g.value.decision \in Allowed
  <2>1. PICK f \in F : /\ f.key = Throttle(v.throttle)
                       /\ f.value.ping_id = v.ping_id
                       /\ f.value.from = v.from /\ f.value.to = v.to
                       /\ f.value.decision \in Allowed
    BY <1>2 DEF Rests, RouteRests
  <2>2. f.key[1] = "ping-throttle" /\ f.key[1] \in LastingKinds
    BY <2>1, KeysAre DEF LastingKinds, PingKinds
  <2>3. PICK g \in G : g.key = f.key /\ Same(b, f.key, f.value, g.value)
    BY <2>2, FactLasts
  <2>4. QED
    BY <2>1, <2>2, <2>3 DEF Same
<1>3. ASSUME key[1] = "ping-delivery", Untold
      PROVE  LetMove(G, b, v.ping_id, v)
  <2>1. PICK t \in b.pool["ping-throttle"], f \in F :
          /\ f.key = Throttle(t)
          /\ f.value.ping_id = v.ping_id
          /\ f.value.from = v.from /\ f.value.to = v.to
          /\ f.value.decision \in Allowed
    BY <1>3 DEF Rests, LetMove
  <2>2. f.key[1] = "ping-throttle" /\ f.key[1] \in LastingKinds
    BY <2>1, KeysAre DEF LastingKinds, PingKinds
  <2>3. PICK g \in G : g.key = f.key /\ Same(b, f.key, f.value, g.value)
    BY <2>2, FactLasts
  <2>4. QED
    BY <2>1, <2>2, <2>3 DEF Same, LetMove
<1>4. ASSUME key[1] = "proximity" PROVE EventRests(G, key[2], v)
  <2>1. v.intent # None => Has(G, Intent(v.intent))
    <3>1. Intent(v.intent)[1] \in LastingKinds
      BY KeysAre DEF LastingKinds
    <3>2. QED
      BY <1>4, <3>1, HasLonger DEF Rests, EventRests
  <2>2. ASSUME v.exit # None
        PROVE  \E g \in G : g.key = Exit(v.exit) /\ g.value.event = key[2]
    <3>1. PICK f \in F : f.key = Exit(v.exit) /\ f.value.event = key[2]
      BY <1>4, <2>2 DEF Rests, EventRests
    <3>2. f.key[1] = "proximity-exit" /\ f.key[1] \in LastingKinds
      BY <3>1, KeysAre DEF LastingKinds
    <3>3. PICK g \in G : g.key = f.key /\ Same(b, f.key, f.value, g.value)
      BY <3>2, FactLasts
    <3>4. QED
      BY <3>1, <3>2, <3>3 DEF Same
  <2>3. QED
    BY <2>1, <2>2 DEF EventRests
<1>5. key[1] = "object" => ObjectRests(b, G, key[2], v)
  BY ObjectRestsLonger DEF Rests
<1>6. ASSUME key[1] = "object-claim", v.handoff # None
      PROVE  \E g \in G : /\ g.key = Handoff(v.handoff)
                          /\ g.key \notin b.again =>
                               /\ g.value.claim = key[2] /\ g.value.object = v.object
                               /\ g.value.owner = v.owner /\ g.value.claimant = v.claimant
  <2>1. PICK f \in F : /\ f.key = Handoff(v.handoff)
                       /\ f.key \notin b.again =>
                            /\ f.value.claim = key[2] /\ f.value.object = v.object
                            /\ f.value.owner = v.owner /\ f.value.claimant = v.claimant
    BY <1>6 DEF Rests, ClaimRests
  <2>2. f.key[1] = "object-handoff" /\ f.key[1] \in LastingKinds
    BY <2>1, MoreKeysAre DEF LastingKinds, ObjectKinds
  <2>3. PICK g \in G : g.key = f.key /\ Same(b, f.key, f.value, g.value)
    BY <2>2, FactLasts
  <2>4. QED
    BY <2>1, <2>2, <2>3 DEF Same
<1>7. ASSUME key[1] = "object-handoff" PROVE HandoffRests(b, G, key[2], v)
  <2>1. Has(G, Claim(v.claim))
    <3>1. Claim(v.claim)[1] \in LastingKinds
      BY MoreKeysAre DEF LastingKinds, ObjectKinds
    <3>2. QED
      BY <1>7, <3>1, HasLonger DEF Rests, HandoffRests
  <2>2. ASSUME v.proof # None
        PROVE  \E g \in G : /\ g.key = Proof(v.proof)
                            /\ g.key \notin b.again =>
                                 g.value.handoff = key[2] /\ g.value.claim = v.claim
    <3>1. PICK f \in F : /\ f.key = Proof(v.proof)
                         /\ f.key \notin b.again =>
                              f.value.handoff = key[2] /\ f.value.claim = v.claim
      BY <1>7, <2>2 DEF Rests, HandoffRests
    <3>2. f.key[1] = "handoff-proof" /\ f.key[1] \in LastingKinds
      BY <3>1, MoreKeysAre DEF LastingKinds
    <3>3. PICK g \in G : g.key = f.key /\ Same(b, f.key, f.value, g.value)
      BY <3>2, FactLasts
    <3>4. QED
      BY <3>1, <3>2, <3>3 DEF Same
  <2>3. QED
    BY <2>1, <2>2 DEF HandoffRests
<1>8. ASSUME key[1] = "handoff-proof" PROVE ProofRests(b, G, v)
  <2>1. PICK f \in F : /\ f.key = Handoff(v.handoff)
                       /\ f.key \notin b.again =>
                            /\ f.value.claim = v.claim
                            /\ f.value.owner = v.owner /\ f.value.claimant = v.claimant
    BY <1>8 DEF Rests, ProofRests
  <2>2. f.key[1] = "object-handoff" /\ f.key[1] \in LastingKinds
    BY <2>1, MoreKeysAre DEF LastingKinds, ObjectKinds
  <2>3. PICK g \in G : g.key = f.key /\ Same(b, f.key, f.value, g.value)
    BY <2>2, FactLasts
  <2>4. QED
    BY <2>1, <2>2, <2>3 DEF Same, ProofRests
<1>9. key[1] = "ican-evidence" => EvidenceRests(b, G, v)
  <2>1. Proof(v.proof)[1] = "handoff-proof"
    BY MoreKeysAre
  <2>2. QED
    BY <2>1, PartyLonger DEF Rests, EvidenceRests
<1>10. ASSUME key[1] = "setup" PROVE SetupRests(G, key[2], v)
  <2>1. SUFFICES ASSUME v = Consumed
                 PROVE  \E g \in G : g.key = User(key[2]) /\ Has(G, UserEmail(g.value.email))
    BY DEF SetupRests
  <2>2. PICK f \in F : f.key = User(key[2]) /\ Has(F, UserEmail(f.value.email))
    BY <1>10, <2>1 DEF Rests, SetupRests
  <2>3. f.key[1] = "user" /\ f.key[1] \in LastingKinds
    BY <2>2, MoreKeysAre DEF LastingKinds
  <2>4. PICK g \in G : g.key = f.key /\ Same(b, f.key, f.value, g.value)
    BY <2>3, FactLasts
  <2>5. g.value.email = f.value.email
    BY <2>3, <2>4 DEF Same
  <2>6. UserEmail(f.value.email)[1] \in LastingKinds
    BY MoreKeysAre DEF LastingKinds
  <2>7. Has(G, UserEmail(f.value.email))
    BY <2>2, <2>6, HasLonger
  <2>8. QED
    BY <2>2, <2>4, <2>5, <2>7
<1>11. key[1] = "user-email" => UserHas(G, v, key[2])
  BY UserHasLonger DEF Rests
<1>12. key[1] = "session" => UserHas(G, v.identity, v.email)
  BY UserHasLonger DEF Rests
<1>13. QED
  BY <1>1, <1>2, <1>3, <1>4, <1>5, <1>6, <1>7, <1>8, <1>9, <1>10, <1>11, <1>12
  DEF Rests, RouteRests, ClaimRests

(* A good record stays good when the facts have grown.                     *)
LEMMA GoodLonger ==
  ASSUME NEW b, NEW F, NEW G, Grows(b, F, G), NEW key, NEW v, Good(b, F, key, v)
  PROVE  Good(b, G, key, v)
BY RestsLonger DEF Good

(* A good copy stays good.                                                 *)
LEMMA CopiedLonger ==
  ASSUME NEW b, NEW F, NEW G, Grows(b, F, G), NEW key, key[1] \in LastingKinds, NEW v,
         Copied(b, F, key, v)
  PROVE  Copied(b, G, key, v)
<1>1. PICK f \in F : f.key = key /\ Same(b, key, v, f.value)
  BY DEF Copied
<1>2. PICK g \in G : g.key = key /\ Same(b, key, f.value, g.value)
  BY <1>1, FactLasts
<1>3. QED
  BY <1>1, <1>2, GoodLonger, SameIsEquivalence DEF Copied

(* What a request has read stays right while the facts grow.               *)
LEMMA ReadFitsLonger ==
  ASSUME NEW b, NEW F, NEW G, Grows(b, F, G), NEW x, ReadFits(b, F, x)
  PROVE  ReadFits(b, G, x)
<1>1. \A i : /\ Ping(i)[1] \in LastingKinds /\ Object(i)[1] \in LastingKinds
             /\ Claim(i)[1] \in LastingKinds /\ Intent(i)[1] \in LastingKinds
             /\ Proof(i)[1] = "handoff-proof"
  BY KeysAre, MoreKeysAre DEF LastingKinds, PingKinds, ObjectKinds
<1>2. x.op \in {"throttle", "deliver"} => Copied(b, G, Ping(x.id), x.copy)
  BY <1>1, CopiedLonger DEF ReadFits
<1>3. x.op = "enter" => \A n \in x.found : Has(G, Intent(n))
  BY <1>1, HasLonger DEF ReadFits
<1>4. x.op \in {"claim", "claim-latest"} => Copied(b, G, Object(x.id), x.object)
  BY <1>1, CopiedLonger DEF ReadFits
<1>5. x.op \in {"decide", "hand-off"} => Copied(b, G, Claim(x.id), x.claim)
  BY <1>1, CopiedLonger DEF ReadFits
<1>6. x.op = "attach" => EvidenceRests(b, G, [proof |-> x.id, identity |-> x.by])
  BY <1>1, PartyLonger DEF ReadFits, EvidenceRests
<1>7. x.op = "login" => UserHas(G, x.id, x.email)
  BY UserHasLonger DEF ReadFits
<1>8. QED
  BY <1>2, <1>3, <1>4, <1>5, <1>6, <1>7 DEF ReadFits

(* A put that fits still fits.                                             *)
LEMMA PutFitsLonger ==
  ASSUME NEW b, NEW F, NEW G, Grows(b, F, G), NEW p, PutFits(b, F, p)
  PROVE  PutFits(b, G, p)
BY GoodLonger DEF PutFits

(* What is read from a store that fits is a good copy.                     *)
LEMMA ReadIsCopied ==
  ASSUME NEW b, NEW st, StoreFits(b, st), NEW key \in DOMAIN st
  PROVE  Copied(b, Facts(st), key, st[key])
BY FactsAre, SameIsEquivalence DEF Copied, StoreFits

(* The puts of a list that fits on a store fit on one that has more.       *)
LEMMA ListFitsLonger ==
  ASSUME NEW b, NEW st, NEW st2, Grows(b, Facts(st), Facts(st2)), NEW puts,
         ListFits(b, st, puts)
  PROVE  ListFits(b, st2, puts)
<1>1. SUFFICES ASSUME NEW n \in DOMAIN puts PROVE PutFits(b, By(st2, puts, n), puts[n])
  BY DEF ListFits
<1>2. Grows(b, By(st, puts, n), By(st2, puts, n))
  BY SameIsEquivalence DEF Grows, By
<1>3. QED
  BY <1>2, PutFitsLonger DEF ListFits

-----------------------------------------------------------------------------
(* Lists of puts.                                                          *)

(* The list t is what is left of s after its first put, or s with another
   put in place of its first.                                              *)
Shifts(s, t) ==
  /\ IsSeq(t)
  /\ \A n \in DOMAIN t : n \in Nat \ {0} /\ n + 1 \in DOMAIN s /\ t[n] = s[n + 1]

Pushes(s, w, t) ==
  /\ IsSeq(t)
  /\ DOMAIN t = DOMAIN s
  /\ t[1] = w
  /\ \A n \in DOMAIN s : n \in Nat \ {0} /\ (n # 1 => t[n] = s[n])

(* What Head and Tail do to a list of puts.                                *)
LEMMA TailShifts ==
  ASSUME NEW s, IsSeq(s), s # <<>>
  PROVE  /\ 1 \in DOMAIN s /\ Head(s) = s[1]
         /\ Shifts(s, Tail(s))
         /\ Shifts(s, <<>> \o Tail(s))
         /\ \A w : Pushes(s, w, <<w>> \o Tail(s))
<1>1. PICK S : s \in Seq(S)
  BY DEF IsSeq
<1>2. Len(s) \in Nat \ {0} /\ DOMAIN s = 1..Len(s)
  BY <1>1, EmptySeq, LenProperties
<1>3. /\ Tail(s) \in Seq(S)
      /\ Len(Tail(s)) = Len(s) - 1
      /\ \A n \in 1..Len(Tail(s)) : Tail(s)[n] = s[n + 1]
      /\ Head(s) = s[1]
  BY <1>1, HeadTailProperties
<1>4. DOMAIN Tail(s) = 1..(Len(s) - 1)
  BY <1>3, LenProperties
<1>5. Shifts(s, Tail(s))
  BY <1>2, <1>3, <1>4 DEF Shifts, IsSeq
<1>6. <<>> \o Tail(s) = Tail(s)
  BY <1>3, ConcatEmptySeq
<1>7. ASSUME NEW w PROVE Pushes(s, w, <<w>> \o Tail(s))
  <2>1. PICK T : T = S \union {w}
    OBVIOUS
  <2>2. Tail(s) \in Seq(T)
    BY <1>3, <2>1, SeqMonotonic
  <2>3. <<w>> \in Seq(T) /\ Len(<<w>>) = 1
    BY <2>1
  <2>4. PICK t : t = <<w>> \o Tail(s)
    OBVIOUS
  <2>5. /\ t \in Seq(T)
        /\ Len(t) = 1 + (Len(s) - 1)
        /\ \A i \in 1..(1 + (Len(s) - 1)) :
             t[i] = IF i <= 1 THEN <<w>>[i] ELSE Tail(s)[i - 1]
    BY <1>3, <2>2, <2>3, <2>4, ConcatProperties
  <2>6. Len(t) = Len(s) /\ DOMAIN t = DOMAIN s
    BY <1>2, <2>5, LenProperties
  <2>7. t[1] = w
    BY <1>2, <2>5
  <2>8. ASSUME NEW n \in DOMAIN s, n # 1 PROVE t[n] = s[n]
    <3>1. n \in 1..(1 + (Len(s) - 1)) /\ ~(n <= 1) /\ n - 1 \in 1..Len(Tail(s))
      BY <1>2, <1>3, <2>8
    <3>2. t[n] = Tail(s)[n - 1]
      BY <2>5, <3>1
    <3>3. Tail(s)[n - 1] = s[(n - 1) + 1]
      BY <1>3, <3>1
    <3>4. (n - 1) + 1 = n
      BY <1>2, <2>8
    <3>5. QED
      BY <3>2, <3>3, <3>4
  <2>9. QED
    BY <1>2, <2>4, <2>5, <2>6, <2>7, <2>8 DEF Pushes, IsSeq
<1>8. QED
  BY <1>2, <1>3, <1>5, <1>6, <1>7

(* Before the first put nothing is added to what is stored.                *)
LEMMA FirstIsStored ==
  ASSUME NEW st, NEW puts
  PROVE  By(st, puts, 1) = Facts(st)
BY DEF By, Ahead

(* Lists that workers make: all but the last are plain puts.               *)
LEMMA NoPuts ==
  ASSUME NEW b, NEW st
  PROVE  ListFits(b, st, <<>>)
<1>1. <<>> \in Seq({})
  OBVIOUS
<1>2. DOMAIN <<>> = {}
  OBVIOUS
<1>3. QED
  BY <1>1, <1>2 DEF ListFits, IsSeq

(* The lists of one, two, three and four puts.                             *)
LEMMA OnePut ==
  ASSUME NEW b, NEW st, NEW p, PutFits(b, Facts(st), p)
  PROVE  ListFits(b, st, <<p>>)
<1>1. <<p>> \in Seq({p}) /\ DOMAIN <<p>> = {1} /\ <<p>>[1] = p
  OBVIOUS
<1>2. QED
  BY <1>1, FirstIsStored DEF ListFits, IsSeq

LEMMA TwoPuts ==
  ASSUME NEW b, NEW st, NEW p, NEW q, IsWrite(p),
         PutFits(b, Facts(st), p),
         PutFits(b, Facts(st) \union {p}, q)
  PROVE  ListFits(b, st, <<p, q>>)
<1>1. PICK s : s = <<p, q>>
  OBVIOUS
<1>2. s \in Seq({p, q}) /\ DOMAIN s = {1, 2} /\ s[1] = p /\ s[2] = q
  BY <1>1
<1>3. By(st, s, 2) = Facts(st) \union {p}
  <2>1. {k \in 1..(2 - 1) : IsWrite(s[k])} = {1}
    BY <1>2
  <2>2. QED
    BY <1>2, <2>1 DEF By, Ahead
<1>4. QED
  BY <1>1, <1>2, <1>3, FirstIsStored DEF ListFits, IsSeq

LEMMA ThreePuts ==
  ASSUME NEW b, NEW st, NEW p, NEW q, NEW w, IsWrite(p), IsWrite(q),
         PutFits(b, Facts(st), p),
         PutFits(b, Facts(st) \union {p}, q),
         PutFits(b, Facts(st) \union {p, q}, w)
  PROVE  ListFits(b, st, <<p, q, w>>)
<1>1. PICK s : s = <<p, q, w>>
  OBVIOUS
<1>2. s \in Seq({p, q, w}) /\ DOMAIN s = {1, 2, 3} /\ s[1] = p /\ s[2] = q /\ s[3] = w
  BY <1>1
<1>3. By(st, s, 2) = Facts(st) \union {p}
  <2>1. {k \in 1..(2 - 1) : IsWrite(s[k])} = {1}
    BY <1>2
  <2>2. QED
    BY <1>2, <2>1 DEF By, Ahead
<1>4. By(st, s, 3) = Facts(st) \union {p, q}
  <2>1. {k \in 1..(3 - 1) : IsWrite(s[k])} = {1, 2}
    BY <1>2
  <2>2. QED
    BY <1>2, <2>1 DEF By, Ahead
<1>5. QED
  BY <1>1, <1>2, <1>3, <1>4, FirstIsStored DEF ListFits, IsSeq

LEMMA FourPuts ==
  ASSUME NEW b, NEW st, NEW p, NEW q, NEW w, NEW z, IsWrite(p), IsWrite(q), IsWrite(w),
         PutFits(b, Facts(st), p),
         PutFits(b, Facts(st) \union {p}, q),
         PutFits(b, Facts(st) \union {p, q}, w),
         PutFits(b, Facts(st) \union {p, q, w}, z)
  PROVE  ListFits(b, st, <<p, q, w, z>>)
<1>1. PICK s : s = <<p, q, w, z>>
  OBVIOUS
<1>2. /\ s \in Seq({p, q, w, z}) /\ DOMAIN s = {1, 2, 3, 4}
      /\ s[1] = p /\ s[2] = q /\ s[3] = w /\ s[4] = z
  BY <1>1
<1>3. By(st, s, 2) = Facts(st) \union {p}
  <2>1. {k \in 1..(2 - 1) : IsWrite(s[k])} = {1}
    BY <1>2
  <2>2. QED
    BY <1>2, <2>1 DEF By, Ahead
<1>4. By(st, s, 3) = Facts(st) \union {p, q}
  <2>1. {k \in 1..(3 - 1) : IsWrite(s[k])} = {1, 2}
    BY <1>2
  <2>2. QED
    BY <1>2, <2>1 DEF By, Ahead
<1>5. By(st, s, 4) = Facts(st) \union {p, q, w}
  <2>1. {k \in 1..(4 - 1) : IsWrite(s[k])} = {1, 2, 3}
    BY <1>2
  <2>2. QED
    BY <1>2, <2>1 DEF By, Ahead
<1>6. QED
  BY <1>1, <1>2, <1>3, <1>4, <1>5, FirstIsStored DEF ListFits, IsSeq

-----------------------------------------------------------------------------
(* A put.                                                                  *)

(* The kinds whose records have nothing to agree on.                       *)
DullKinds == IndexKinds \union {"current-field"}

(* A put that takes the place of one that was read first: of such a kind, or
   of a handoff as it is stored.                                           *)
Repeats(st, w) ==
  \/ w.key[1] \in DullKinds
  \/ w.key[1] = "object-handoff" /\ w.key \in DOMAIN st /\ w.value = st[w.key]

(* None is a token, a user, a session or a ping.                           *)
LEMMA RepeatsAre ==
  ASSUME NEW st, NEW w, Repeats(st, w)
  PROVE  w.key[1] \notin {"ping", "setup", "user", "session"}
BY DEF Repeats, DullKinds, IndexKinds

LEMMA DullAreSame ==
  ASSUME NEW key, key[1] \in DullKinds
  PROVE  \A b, u, v : Same(b, key, u, v)
BY DEF DullKinds, IndexKinds, Same

(* What an append puts back is an index.                                   *)
LEMMA AppendFits ==
  ASSUME IInv, NEW p, DOMAIN p = {"key", "adds"}, PutFits(bounds, Facts(kv), p)
  PROVE  /\ p.key[1] \in DullKinds
         /\ Good(bounds, Facts(kv), p.key, Listed(p.key) \union {p.adds})
<1>1. p.key[1] \in IndexKinds /\ (p.key[1] = "intents-of" => p.adds \in Pool["intent"])
  <2>1. /\ DOMAIN p # {"key", "value"} /\ DOMAIN p # {"key", "refresh"}
        /\ DOMAIN p # {"key", "back"} /\ DOMAIN p # {"key"}
    OBVIOUS
  <2>2. QED
    BY <2>1 DEF PutFits, IsWrite
<1>2. Stored(p.key) => Shaped(bounds, p.key, kv[p.key])
  BY DEF IInv, StoreFits, Good, Stored
<1>3. p.key[1] = "intents-of" => Listed(p.key) \union {p.adds} \subseteq Pool["intent"]
  BY <1>1, <1>2 DEF Listed, Shaped
<1>4. p.key[1] = "throttled-to" => IsFiniteSet(Listed(p.key) \union {p.adds})
  <2>1. SUFFICES ASSUME p.key[1] = "throttled-to"
                 PROVE  IsFiniteSet(Listed(p.key) \union {p.adds})
    OBVIOUS
  <2>2. IsFiniteSet(Listed(p.key))
    BY <1>2, <2>1, FS_EmptySet DEF Listed, Shaped
  <2>3. QED
    BY <2>2, FS_AddElement
<1>5. Shaped(bounds, p.key, Listed(p.key) \union {p.adds})
  BY <1>1, <1>3, <1>4 DEF Shaped, IndexKinds
<1>6. Rests(bounds, Facts(kv), p.key, Listed(p.key) \union {p.adds})
  BY <1>1 DEF Rests, IndexKinds
<1>7. QED
  BY <1>1, <1>5, <1>6 DEF Good, DullKinds

(* What each kind of put does to the store and to the list.                *)
Pushed(s, t, st, st2, b) ==
  /\ st2 = st
  /\ ~IsWrite(s[1])
  /\ \E w : /\ Pushes(s, w, t) /\ IsWrite(w)
            /\ Repeats(st, w) /\ Good(b, Facts(st), w.key, w.value)
            /\ w.key = s[1].key

Shifted(s, t, st, st2) ==
  /\ Shifts(s, t)
  /\ IsWrite(s[1]) =>
       s[1].key \in DOMAIN st2 /\ st2[s[1].key] = s[1].value
  /\ \A key \in DOMAIN st2 :
       \/ key \in DOMAIN st /\ st2[key] = st[key]
       \/ IsWrite(s[1]) /\ key = s[1].key /\ st2[key] = s[1].value
  /\ \A key \in DOMAIN st : key \in DOMAIN st2 \/ key[1] = "session"

(* A put either does the first of the list or leaves a plain put for it.   *)
LEMMA PutDoes ==
  ASSUME IInv, NEW r \in Requests, Put(r)
  PROVE  /\ 1 \in DOMAIN todo[r]
         /\ reading[r] = None
         /\ reading' = reading /\ crashes' = crashes /\ scene' = scene
         /\ DOMAIN todo' = Requests
         /\ \A q \in Requests : q # r => todo'[q] = todo[q]
         /\ PutFits(bounds, Facts(kv), todo[r][1])
         /\ \/ Pushed(todo[r], todo'[r], kv, kv', bounds)
            \/ Shifted(todo[r], todo'[r], kv, kv')
<1> DEFINE s == todo[r]
           p == Head(s)
<1>1. RequestFits(r) /\ DOMAIN todo = Requests
  BY DEF IInv
<1>2. s # <<>> /\ IsSeq(s)
  BY <1>1 DEF Put, RequestFits, ListFits
<1>3. /\ 1 \in DOMAIN s /\ p = s[1]
      /\ Shifts(s, Tail(s))
      /\ Shifts(s, <<>> \o Tail(s))
      /\ \A w : Pushes(s, w, <<w>> \o Tail(s))
  BY <1>2, TailShifts
<1>4. PutFits(bounds, Facts(kv), s[1])
  BY <1>1, <1>3, FirstIsStored DEF RequestFits, ListFits
<1>5. reading[r] = None
  BY <1>1, <1>2 DEF RequestFits
<1>6. reading' = reading /\ crashes' = crashes /\ scene' = scene
  BY DEF Put
<1>7. ASSUME NEW t, todo' = [todo EXCEPT ![r] = t]
      PROVE  /\ DOMAIN todo' = Requests /\ todo'[r] = t
             /\ \A q \in Requests : q # r => todo'[q] = todo[q]
  BY <1>1, <1>7
<1>8. CASE /\ "adds" \in DOMAIN p
           /\ Leaves(r, <<Writes(p.key, Listed(p.key) \union {p.adds})>>)
           /\ UNCHANGED kv
  <2>1. DOMAIN p = {"key", "adds"}
    BY <1>3, <1>4, <1>8 DEF PutFits, IsWrite
  <2>2. PICK w : w = Writes(p.key, Listed(p.key) \union {p.adds})
    OBVIOUS
  <2>3. todo' = [todo EXCEPT ![r] = <<w>> \o Tail(s)] /\ kv' = kv
    BY <1>8, <2>2 DEF Leaves
  <2>4. /\ w.key = p.key /\ w.value = Listed(p.key) \union {p.adds}
        /\ DOMAIN w = {"key", "value"}
    BY <2>2 DEF Writes
  <2>5. p.key[1] \in DullKinds /\ Good(bounds, Facts(kv), w.key, w.value)
    BY <1>3, <1>4, <2>1, <2>4, AppendFits
  <2>6. ~IsWrite(s[1])
    BY <1>3, <2>1 DEF IsWrite
  <2>7. Pushed(s, <<w>> \o Tail(s), kv, kv', bounds)
    BY <1>3, <2>3, <2>4, <2>5, <2>6 DEF Pushed, Repeats, IsWrite
  <2>8. QED
    BY <1>3, <1>4, <1>5, <1>6, <1>7, <2>3, <2>7
<1>9. CASE /\ "refresh" \in DOMAIN p
           /\ Leaves(r, IF Stored(p.key) /\ kv[p.key].id = p.refresh.id
                        THEN <<Writes(p.key, p.refresh)>> ELSE <<>>)
           /\ UNCHANGED kv
  <2>1. DOMAIN p = {"key", "refresh"} /\ p.key[1] = "current-field"
        /\ Good(bounds, Facts(kv), p.key, p.refresh)
    BY <1>3, <1>4, <1>9 DEF PutFits, IsWrite
  <2>2. ~IsWrite(s[1])
    BY <1>3, <2>1 DEF IsWrite
  <2>3. PICK w : w = Writes(p.key, p.refresh)
    OBVIOUS
  <2>4. /\ w.key = p.key /\ w.value = p.refresh
        /\ DOMAIN w = {"key", "value"}
    BY <2>3 DEF Writes
  <2>5. CASE Stored(p.key) /\ kv[p.key].id = p.refresh.id
    <3>1. todo' = [todo EXCEPT ![r] = <<w>> \o Tail(s)] /\ kv' = kv
      BY <1>9, <2>3, <2>5 DEF Leaves
    <3>2. Pushed(s, <<w>> \o Tail(s), kv, kv', bounds)
      BY <1>3, <2>1, <2>2, <2>4, <3>1 DEF Pushed, Repeats, IsWrite, DullKinds
    <3>3. QED
      BY <1>3, <1>4, <1>5, <1>6, <1>7, <3>1, <3>2
  <2>6. CASE ~(Stored(p.key) /\ kv[p.key].id = p.refresh.id)
    <3>1. todo' = [todo EXCEPT ![r] = <<>> \o Tail(s)] /\ kv' = kv
      BY <1>9, <2>6 DEF Leaves
    <3>2. Shifted(s, <<>> \o Tail(s), kv, kv')
      BY <1>3, <2>2, <3>1 DEF Shifted
    <3>3. QED
      BY <1>3, <1>4, <1>5, <1>6, <1>7, <3>1, <3>2
  <2>7. QED
    BY <2>5, <2>6
<1>10. CASE /\ "value" \in DOMAIN p
            /\ Leaves(r, <<>>)
            /\ kv' = [k \in DOMAIN kv \union {p.key} |-> IF k = p.key THEN p.value ELSE kv[k]]
  <2>1. todo' = [todo EXCEPT ![r] = <<>> \o Tail(s)]
    BY <1>10 DEF Leaves
  <2>2. IsWrite(s[1])
    BY <1>3, <1>4, <1>10 DEF PutFits
  <2>3. PICK w : w = p
    OBVIOUS
  <2>4. PICK st : st = kv
    OBVIOUS
  <2>5. PICK st2 : st2 = [k \in DOMAIN st \union {w.key} |-> IF k = w.key THEN w.value ELSE st[k]]
    OBVIOUS
  <2>6. /\ DOMAIN st2 = DOMAIN st \union {w.key}
        /\ st2[w.key] = w.value
        /\ \A key \in DOMAIN st : key # w.key => st2[key] = st[key]
    BY <2>5
  <2>7. kv' = st2
    BY <1>10, <2>3, <2>4, <2>5
  <2>8. s[1] = w
    BY <1>3, <2>3
  <2>9. Shifted(s, <<>> \o Tail(s), st, st2)
    BY <1>3, <2>2, <2>6, <2>8 DEF Shifted
  <2>10. Shifted(s, <<>> \o Tail(s), kv, kv')
    BY <2>4, <2>7, <2>9
  <2>11. QED
    BY <1>3, <1>4, <1>5, <1>6, <1>7, <2>1, <2>10
<1>11. CASE /\ DOMAIN p = {"key"}
            /\ Leaves(r, <<>>)
            /\ kv' = [k \in DOMAIN kv \ {p.key} |-> kv[k]]
  <2>1. todo' = [todo EXCEPT ![r] = <<>> \o Tail(s)]
    BY <1>11 DEF Leaves
  <2>2. p.key[1] = "session" /\ ~IsWrite(s[1])
    <3>1. {"value", "adds", "refresh", "back"} \intersect DOMAIN p = {}
      BY <1>11
    <3>2. PutFits(bounds, Facts(kv), p)
      BY <1>3, <1>4
    <3>3. ~IsWrite(s[1])
      BY <1>3, <3>1 DEF IsWrite
    <3>4. QED
      BY <1>3, <3>1, <3>2, <3>3 DEF PutFits
  <2>3. Shifted(s, <<>> \o Tail(s), kv, kv')
    BY <1>3, <1>11, <2>2 DEF Shifted
  <2>4. QED
    BY <1>3, <1>4, <1>5, <1>6, <1>7, <2>1, <2>3
<1>12. CASE /\ "back" \in DOMAIN p
            /\ Leaves(r, IF Stored(p.key) THEN <<Writes(p.key, kv[p.key])>> ELSE <<>>)
            /\ UNCHANGED kv
  <2>1. DOMAIN p = {"key", "back"} /\ p.key[1] = "object-handoff"
    BY <1>3, <1>4, <1>12 DEF PutFits, IsWrite
  <2>2. ~IsWrite(s[1])
    BY <1>3, <2>1 DEF IsWrite
  <2>3. PICK w : w = Writes(p.key, kv[p.key])
    OBVIOUS
  <2>4. /\ w.key = p.key /\ w.value = kv[p.key]
        /\ DOMAIN w = {"key", "value"}
    BY <2>3 DEF Writes
  <2>5. CASE Stored(p.key)
    <3>1. todo' = [todo EXCEPT ![r] = <<w>> \o Tail(s)] /\ kv' = kv
      BY <1>12, <2>3, <2>5 DEF Leaves
    <3>2. Repeats(kv, w)
      BY <2>1, <2>4, <2>5 DEF Repeats, Stored
    <3>3. Good(bounds, Facts(kv), w.key, w.value)
      BY <2>4, <2>5 DEF IInv, StoreFits, Stored
    <3>4. Pushed(s, <<w>> \o Tail(s), kv, kv', bounds)
      BY <1>3, <2>2, <2>4, <3>1, <3>2, <3>3 DEF Pushed, IsWrite
    <3>5. QED
      BY <1>3, <1>4, <1>5, <1>6, <1>7, <3>1, <3>4
  <2>6. CASE ~Stored(p.key)
    <3>1. todo' = [todo EXCEPT ![r] = <<>> \o Tail(s)] /\ kv' = kv
      BY <1>12, <2>6 DEF Leaves
    <3>2. Shifted(s, <<>> \o Tail(s), kv, kv')
      BY <1>3, <2>2, <3>1 DEF Shifted
    <3>3. QED
      BY <1>3, <1>4, <1>5, <1>6, <1>7, <3>1, <3>2
  <2>7. QED
    BY <2>5, <2>6
<1>13. QED
  BY <1>8, <1>9, <1>10, <1>11, <1>12 DEF Put

(* The first put of a list replaces what is stored by what agrees with it. *)
LEMMA ShiftGrows ==
  ASSUME IInv, NEW r \in Requests, 1 \in DOMAIN todo[r], NEW t, NEW st2,
         Shifted(todo[r], t, kv, st2)
  PROVE  Grows(bounds, Facts(kv), Facts(st2))
<1>1. SUFFICES ASSUME NEW f \in Facts(kv), f.key[1] \in LastingKinds
               PROVE  \E g \in Facts(st2) : g.key = f.key /\ Same(bounds, f.key, f.value, g.value)
  BY DEF Grows
<1>2. f.key \in DOMAIN kv /\ f.value = kv[f.key]
  BY FactsAre
<1>3. f.key[1] # "session"
  BY <1>1 DEF LastingKinds, PingKinds, ObjectKinds
<1>4. f.key \in DOMAIN st2
  BY <1>2, <1>3 DEF Shifted
<1>5. PICK g \in Facts(st2) : g.key = f.key /\ g.value = st2[f.key]
  BY <1>4, FactsAre
<1>6. Same(bounds, f.key, kv[f.key], st2[f.key])
  <2>1. CASE st2[f.key] = kv[f.key]
    BY <2>1, SameIsEquivalence
  <2>2. CASE IsWrite(todo[r][1]) /\ f.key = todo[r][1].key /\ st2[f.key] = todo[r][1].value
    <3>1. Same(bounds, f.key, todo[r][1].value, kv[f.key])
      BY <1>2, <2>2 DEF IInv, Agreeing, Stored
    <3>2. QED
      BY <2>2, <3>1, SameIsEquivalence
  <2>3. QED
    BY <1>4, <2>1, <2>2 DEF Shifted
<1>7. QED
  BY <1>2, <1>5, <1>6

(* What is left of the list fits on the new store.                         *)
LEMMA ShiftFits ==
  ASSUME NEW b, NEW s, NEW st, NEW t, NEW st2, Shifted(s, t, st, st2), IsSeq(s),
         Grows(b, Facts(st), Facts(st2)), ListFits(b, st, s)
  PROVE  ListFits(b, st2, t)
<1>1. SUFFICES ASSUME NEW n \in DOMAIN t PROVE PutFits(b, By(st2, t, n), t[n])
  BY DEF ListFits, Shifted, Shifts
<1>2. n \in Nat \ {0} /\ n + 1 \in DOMAIN s /\ t[n] = s[n + 1]
  BY DEF Shifted, Shifts
<1>3. DOMAIN t = 1..Len(t) /\ Len(t) \in Nat
  <2>1. PICK S : t \in Seq(S)
    BY DEF Shifted, Shifts, IsSeq
  <2>2. QED
    BY <2>1, LenProperties
<1>4. ASSUME NEW f \in Ahead(s, n + 1)
      PROVE  \/ \E g \in Facts(st2) : g.key = f.key /\ g.value = f.value
             \/ f \in Ahead(t, n)
  <2>1. PICK m \in 1..((n + 1) - 1) : IsWrite(s[m]) /\ f = s[m]
    BY DEF Ahead
  <2>2. CASE m = 1
    <3>1. s[1].key \in DOMAIN st2 /\ st2[s[1].key] = s[1].value
      BY <2>1, <2>2 DEF Shifted
    <3>2. QED
      BY <2>1, <2>2, <3>1, FactsAre
  <2>3. CASE m # 1
    <3>1. m - 1 \in 1..(n - 1) /\ m - 1 \in DOMAIN t
      BY <1>2, <1>3, <2>1, <2>3
    <3>2. t[m - 1] = s[(m - 1) + 1]
      BY <3>1 DEF Shifted, Shifts
    <3>3. (m - 1) + 1 = m
      BY <1>2, <2>1
    <3>4. t[m - 1] = f /\ IsWrite(t[m - 1])
      BY <2>1, <3>2, <3>3
    <3>5. QED
      BY <3>1, <3>4 DEF Ahead
  <2>4. QED
    BY <2>2, <2>3
<1>5. Grows(b, By(st, s, n + 1), By(st2, t, n))
  <2>1. SUFFICES ASSUME NEW f \in By(st, s, n + 1), f.key[1] \in LastingKinds
                 PROVE  \E g \in By(st2, t, n) : g.key = f.key /\ Same(b, f.key, f.value, g.value)
    BY DEF Grows
  <2>2. CASE f \in Facts(st)
    BY <2>1, <2>2 DEF Grows, By
  <2>3. CASE f \in Ahead(s, n + 1)
    BY <1>4, <2>3, SameIsEquivalence DEF By
  <2>4. QED
    BY <2>2, <2>3 DEF By
<1>6. PutFits(b, By(st, s, n + 1), s[n + 1])
  BY <1>2 DEF ListFits
<1>7. QED
  BY <1>2, <1>5, <1>6, PutFitsLonger

(* And what is stored fits with the new record.                            *)
LEMMA ShiftStoreFits ==
  ASSUME NEW b, NEW s, NEW st, NEW t, NEW st2, Shifted(s, t, st, st2),
         Grows(b, Facts(st), Facts(st2)), StoreFits(b, st), PutFits(b, Facts(st), s[1])
  PROVE  StoreFits(b, st2)
<1>1. SUFFICES ASSUME NEW key \in DOMAIN st2 PROVE Good(b, Facts(st2), key, st2[key])
  BY DEF StoreFits
<1>2. CASE key \in DOMAIN st /\ st2[key] = st[key]
  BY <1>2, GoodLonger DEF StoreFits
<1>3. CASE IsWrite(s[1]) /\ key = s[1].key /\ st2[key] = s[1].value
  <2>1. Good(b, Facts(st), s[1].key, s[1].value)
    BY <1>3 DEF PutFits, IsWrite
  <2>2. QED
    BY <1>3, <2>1, GoodLonger
<1>4. QED
  BY <1>2, <1>3 DEF Shifted

(* A list whose first put was replaced by a plain one still fits.          *)
LEMMA PushFits ==
  ASSUME NEW b, NEW s, NEW st, NEW t, NEW w, Pushes(s, w, t), IsWrite(w), ~IsWrite(s[1]),
         Good(b, Facts(st), w.key, w.value), ListFits(b, st, s)
  PROVE  ListFits(b, st, t)
<1>1. SUFFICES ASSUME NEW n \in DOMAIN t PROVE PutFits(b, By(st, t, n), t[n])
  BY DEF ListFits, Pushes
<1>2. DOMAIN t = 1..Len(t) /\ Len(t) \in Nat /\ DOMAIN t = DOMAIN s
  <2>1. PICK S : t \in Seq(S)
    BY DEF Pushes, IsSeq
  <2>2. QED
    BY <2>1, LenProperties DEF Pushes
<1>3. CASE n = 1
  <2>1. t[n] = w /\ By(st, t, n) = Facts(st)
    BY <1>3, FirstIsStored DEF Pushes
  <2>2. QED
    BY <2>1 DEF PutFits
<1>4. CASE n # 1
  <2>1. t[n] = s[n] /\ n \in DOMAIN s
    BY <1>2, <1>4 DEF Pushes
  <2>2. Ahead(s, n) \subseteq Ahead(t, n)
    <3>1. SUFFICES ASSUME NEW m \in 1..(n - 1), IsWrite(s[m])
                   PROVE  IsWrite(t[m]) /\ t[m] = s[m]
      BY DEF Ahead
    <3>2. m # 1
      BY <3>1
    <3>3. m \in DOMAIN s
      BY <1>2
    <3>4. QED
      BY <3>1, <3>2, <3>3 DEF Pushes
  <2>3. Grows(b, By(st, s, n), By(st, t, n))
    BY <2>2, MoreFactsGrow DEF By
  <2>4. PutFits(b, By(st, s, n), s[n])
    BY <2>1 DEF ListFits
  <2>5. QED
    BY <2>1, <2>3, <2>4, PutFitsLonger
<1>5. QED
  BY <1>3, <1>4


(* What a put leaves of the store, of the list and of the other lists.     *)
LEMMA PutMoves ==
  ASSUME IInv, NEW r \in Requests, Put(r)
  PROVE  /\ bounds' = bounds
         /\ Grows(bounds, Facts(kv), Facts(kv'))
         /\ StoreFits(bounds, kv')
         /\ ListFits(bounds, kv', todo'[r])
         /\ \A key \in DOMAIN kv' :
              \/ key \in DOMAIN kv /\ kv'[key] = kv[key]
              \/ IsWrite(todo[r][1]) /\ key = todo[r][1].key /\ kv'[key] = todo[r][1].value
         /\ IsWrite(todo[r][1]) =>
              todo[r][1].key \in DOMAIN kv' /\ kv'[todo[r][1].key] = todo[r][1].value
         /\ \A key \in DOMAIN kv : key \in DOMAIN kv' \/ key[1] = "session"
         /\ \/ \A n \in DOMAIN todo'[r] :
                 /\ n \in Nat \ {0} /\ n \in DOMAIN todo[r]
                 /\ n = 1 => ~IsWrite(todo[r][n]) /\ Repeats(kv, todo'[r][n])
                 /\ n # 1 => todo'[r][n] = todo[r][n]
            \/ \A n \in DOMAIN todo'[r] :
                 /\ n \in Nat \ {0} /\ n + 1 \in DOMAIN todo[r]
                 /\ todo'[r][n] = todo[r][n + 1]
<1>1. /\ 1 \in DOMAIN todo[r]
      /\ scene' = scene
      /\ PutFits(bounds, Facts(kv), todo[r][1])
      /\ \/ Pushed(todo[r], todo'[r], kv, kv', bounds)
         \/ Shifted(todo[r], todo'[r], kv, kv')
  BY PutDoes
<1>2. bounds' = bounds
  BY <1>1 DEF bounds
<1>3. StoreFits(bounds, kv) /\ ListFits(bounds, kv, todo[r]) /\ IsSeq(todo[r])
  BY DEF IInv, RequestFits, ListFits
<1>4. CASE Pushed(todo[r], todo'[r], kv, kv', bounds)
  <2>1. kv' = kv /\ ~IsWrite(todo[r][1])
    BY <1>4 DEF Pushed
  <2>2. PICK w : /\ Pushes(todo[r], w, todo'[r]) /\ IsWrite(w)
                 /\ Repeats(kv, w) /\ Good(bounds, Facts(kv), w.key, w.value)
    BY <1>4 DEF Pushed
  <2>3. ListFits(bounds, kv, todo'[r])
    BY <1>3, <2>1, <2>2, PushFits
  <2>4. Grows(bounds, Facts(kv), Facts(kv))
    BY MoreFactsGrow
  <2>5. ASSUME NEW n \in DOMAIN todo'[r]
        PROVE  /\ n \in Nat \ {0} /\ n \in DOMAIN todo[r]
               /\ n = 1 => ~IsWrite(todo[r][n]) /\ Repeats(kv, todo'[r][n])
               /\ n # 1 => todo'[r][n] = todo[r][n]
    BY <2>1, <2>2 DEF Pushes
  <2>6. QED
    BY <1>2, <1>3, <2>1, <2>3, <2>4, <2>5
<1>5. CASE Shifted(todo[r], todo'[r], kv, kv')
  <2>1. Grows(bounds, Facts(kv), Facts(kv'))
    BY <1>1, <1>5, ShiftGrows
  <2>2. StoreFits(bounds, kv')
    BY <1>1, <1>3, <1>5, <2>1, ShiftStoreFits
  <2>3. ListFits(bounds, kv', todo'[r])
    BY <1>3, <1>5, <2>1, ShiftFits
  <2>4. QED
    BY <1>2, <1>5, <2>1, <2>2, <2>3 DEF Shifted, Shifts
<1>6. QED
  BY <1>1, <1>4, <1>5

(* What a request will put after a put it would have put before, or it is
   what it has just read.                                                  *)
LEMMA PutsBefore ==
  ASSUME IInv, NEW r \in Requests, Put(r), NEW q \in Requests, NEW n \in DOMAIN todo'[q]
  PROVE  \/ Repeats(kv, todo'[q][n])
         \/ \E m \in DOMAIN todo[q] : todo'[q][n] = todo[q][m]
<1>1. CASE q = r
  BY <1>1, PutMoves
<1>2. CASE q # r
  BY <1>2, PutDoes
<1>3. QED
  BY <1>1, <1>2

(* A put keeps agreed what is stored and what will be put.                 *)
LEMMA PutAgreeing ==
  ASSUME IInv, NEW r \in Requests, Put(r)
  PROVE  Agreeing'
<1> DEFINE PutBy(q, p) == \E m \in DOMAIN todo[q] : IsWrite(p) /\ p = todo[q][m]
<1>1. ASSUME NEW q \in Requests, NEW p, PutBy(q, p)
      PROVE  /\ p.key \in DOMAIN kv => Same(bounds, p.key, p.value, kv[p.key])
             /\ \A q2 \in Requests : \A p2 : PutBy(q2, p2) /\ p2.key = p.key =>
                  Same(bounds, p.key, p.value, p2.value)
  BY <1>1 DEF IInv, Agreeing, Stored
<1>2. \A q \in Requests : \A n \in DOMAIN todo'[q] : IsWrite(todo'[q][n]) =>
        Repeats(kv, todo'[q][n]) \/ PutBy(q, todo'[q][n])
  BY PutsBefore
<1>3. \A key \in DOMAIN kv' :
        \/ key \in DOMAIN kv /\ kv'[key] = kv[key]
        \/ /\ PutBy(r, todo[r][1]) /\ key = todo[r][1].key
           /\ kv'[key] = todo[r][1].value
  <2>1. 1 \in DOMAIN todo[r]
    BY PutDoes
  <2>2. QED
    BY <2>1, PutMoves
<1>4. SUFFICES ASSUME NEW q \in Requests, NEW n \in DOMAIN todo'[q], IsWrite(todo'[q][n])
               PROVE  /\ todo'[q][n].key \in DOMAIN kv' =>
                           Same(bounds, todo'[q][n].key, todo'[q][n].value, kv'[todo'[q][n].key])
                      /\ \A q2 \in Requests : \A m \in DOMAIN todo'[q2] :
                           IsWrite(todo'[q2][m]) /\ todo'[q2][m].key = todo'[q][n].key =>
                             Same(bounds, todo'[q][n].key, todo'[q][n].value, todo'[q2][m].value)
  BY PutMoves DEF Agreeing, Stored
<1>5. PICK p : p = todo'[q][n]
  OBVIOUS
<1> HIDE DEF PutBy
<1>6. CASE p.key[1] \in DullKinds
  BY <1>5, <1>6, DullAreSame
<1>7. CASE p.key[1] \notin DullKinds
  <2>1. \A q2 \in Requests : \A m \in DOMAIN todo'[q2] :
          IsWrite(todo'[q2][m]) /\ todo'[q2][m].key = p.key =>
            \/ PutBy(q2, todo'[q2][m])
            \/ p.key \in DOMAIN kv /\ todo'[q2][m].value = kv[p.key]
    BY <1>2, <1>7 DEF Repeats
  <2>2. \/ PutBy(q, p)
        \/ p.key \in DOMAIN kv /\ p.value = kv[p.key]
    BY <1>4, <1>5, <2>1
  <2>3. p.key \in DOMAIN kv => Same(bounds, p.key, p.value, kv[p.key])
    BY <1>1, <2>2, SameIsEquivalence
  <2>4. ASSUME NEW q2, NEW p2, q2 \in Requests, PutBy(q2, p2), p2.key = p.key
        PROVE  Same(bounds, p.key, p.value, p2.value)
    <3>1. CASE PutBy(q, p)
      BY <1>1, <2>4, <3>1
    <3>2. CASE p.key \in DOMAIN kv /\ p.value = kv[p.key]
      <4>1. Same(bounds, p.key, p2.value, kv[p.key])
        BY <1>1, <2>4, <3>2
      <4>2. QED
        BY <3>2, <4>1, SameIsEquivalence
    <3>3. QED
      BY <2>2, <3>1, <3>2
  <2>5. p.key \in DOMAIN kv' => Same(bounds, p.key, p.value, kv'[p.key])
    BY <1>3, <2>3, <2>4
  <2>6. ASSUME NEW q2 \in Requests, NEW m \in DOMAIN todo'[q2],
               IsWrite(todo'[q2][m]), todo'[q2][m].key = p.key
        PROVE  Same(bounds, p.key, p.value, todo'[q2][m].value)
    BY <2>1, <2>3, <2>4, <2>6
  <2>7. QED
    BY <1>5, <2>5, <2>6
<1>8. QED
  BY <1>6, <1>7

(* A put of the mail of a token says of it what no one said; any other put
   adds nothing to what is said.                                           *)
LEMMA SaysAfterPut ==
  ASSUME IInv, NEW r \in Requests, Put(r), NEW t, NEW e, Says(t, e)'
  PROVE  Says(t, e) \/ (Mails(r, 1, t) /\ todo[r][1].value.email = e)
<1>1. 1 \in DOMAIN todo[r] /\ reading' = reading
  BY PutDoes
<1>2. CASE (Live(t) /\ kv[Setup(t)].email = e)'
  <2>1. Setup(t) \in DOMAIN kv' /\ kv'[Setup(t)] \notin {Consumed, Expired}
        /\ kv'[Setup(t)].email = e
    BY <1>2 DEF Live, Stored
  <2>2. CASE Setup(t) \in DOMAIN kv /\ kv'[Setup(t)] = kv[Setup(t)]
    BY <2>1, <2>2 DEF Says, Live, Stored
  <2>3. CASE IsWrite(todo[r][1]) /\ Setup(t) = todo[r][1].key
             /\ kv'[Setup(t)] = todo[r][1].value
    BY <2>1, <2>3 DEF Mails
  <2>4. QED
    BY <2>1, <2>2, <2>3, PutMoves
<1>3. CASE (Stored(User(t)) /\ kv[User(t)].email = e)'
  <2>1. User(t) \in DOMAIN kv' /\ kv'[User(t)].email = e
    BY <1>3 DEF Stored
  <2>2. CASE User(t) \in DOMAIN kv /\ kv'[User(t)] = kv[User(t)]
    BY <2>1, <2>2 DEF Says, Stored
  <2>3. CASE IsWrite(todo[r][1]) /\ User(t) = todo[r][1].key
             /\ kv'[User(t)] = todo[r][1].value
    BY <1>1, <2>1, <2>3 DEF Says
  <2>4. QED
    BY <2>1, <2>2, <2>3, PutMoves
<1>4. ASSUME NEW q \in Requests,
             (reading[q] # None /\ reading[q].op = "set" /\ reading[q].id = t
              /\ reading[q].email = e)'
      PROVE  Says(t, e)
  BY <1>1, <1>4 DEF Says
<1>5. ASSUME NEW q \in Requests, NEW n \in DOMAIN todo'[q], IsWrite(todo'[q][n]),
             todo'[q][n].key = User(t), todo'[q][n].value.email = e
      PROVE  Says(t, e)
  <2>1. User(t)[1] = "user"
    BY MoreKeysAre
  <2>2. PICK m \in DOMAIN todo[q] : todo'[q][n] = todo[q][m]
    BY <1>5, <2>1, PutsBefore, RepeatsAre
  <2>3. QED
    BY <1>5, <2>2 DEF Says
<1>6. QED
  BY <1>2, <1>3, <1>4, <1>5 DEF Says

(* A put keeps the emails of tokens apart.                                 *)
LEMMA PutTokens ==
  ASSUME IInv, NEW r \in Requests, Put(r)
  PROVE  TokensApart'
<1>1. 1 \in DOMAIN todo[r] /\ TokensApart
  BY PutDoes DEF IInv
<1>2. ASSUME NEW t \in Pool["setup"], Stored(Setup(t)) PROVE Stored(Setup(t))'
  <2>1. Setup(t)[1] # "session"
    BY MoreKeysAre
  <2>2. QED
    BY <1>2, <2>1, PutMoves DEF Stored
<1>3. ASSUME NEW t \in Pool["setup"], Mails(r, 1, t)
      PROVE  /\ Stored(Setup(t))'
             /\ \A f \in Emails : ~Says(t, f)
  <2>1. Stored(Setup(t))'
    BY <1>3, PutMoves DEF Stored, Mails
  <2>2. ~Stored(Setup(t))
    BY <1>1, <1>3 DEF TokensApart
  <2>3. QED
    BY <1>1, <2>1, <2>2 DEF TokensApart
<1>4. ASSUME NEW t \in Pool["setup"], NEW e \in Emails, NEW f \in Emails,
             Says(t, e)', Says(t, f)'
      PROVE  e = f
  <2>1. Says(t, e) \/ (Mails(r, 1, t) /\ todo[r][1].value.email = e)
    BY <1>4, SaysAfterPut
  <2>2. Says(t, f) \/ (Mails(r, 1, t) /\ todo[r][1].value.email = f)
    BY <1>4, SaysAfterPut
  <2>3. Says(t, e) /\ Says(t, f) => e = f
    BY <1>1 DEF TokensApart
  <2>4. QED
    BY <1>3, <2>1, <2>2, <2>3
<1>5. ASSUME NEW t \in Pool["setup"], NEW e \in Emails, Says(t, e)'
      PROVE  Stored(Setup(t))'
  <2>1. Says(t, e) \/ Mails(r, 1, t)
    BY <1>5, SaysAfterPut
  <2>2. Says(t, e) => Stored(Setup(t))
    BY <1>1 DEF TokensApart
  <2>3. QED
    BY <1>2, <1>3, <2>1, <2>2
<1>6. ASSUME NEW q \in Requests, NEW t \in Pool["setup"], NEW n \in DOMAIN todo'[q],
             todo'[q][n].key = Setup(t)
      PROVE  \E m \in DOMAIN todo[q] :
               /\ todo[q][m] = todo'[q][n]
               /\ Mails(q, n, t)' <=> Mails(q, m, t)
  <2>1. Setup(t)[1] = "setup"
    BY MoreKeysAre
  <2>2. PICK m \in DOMAIN todo[q] : todo'[q][n] = todo[q][m]
    BY <1>6, <2>1, PutsBefore, RepeatsAre
  <2>3. QED
    BY <2>2 DEF Mails
<1>7. ASSUME NEW q \in Requests, NEW t \in Pool["setup"], NEW n \in DOMAIN todo'[q],
             todo'[q][n].key = Setup(t), ~Mails(q, n, t)'
      PROVE  Stored(Setup(t))'
  <2>1. PICK m \in DOMAIN todo[q] : todo[q][m].key = Setup(t) /\ ~Mails(q, m, t)
    BY <1>6, <1>7
  <2>2. Stored(Setup(t))
    BY <1>1, <2>1 DEF TokensApart
  <2>3. QED
    BY <1>2, <2>2
(* Where the puts with the key of the mail were.                           *)
<1>8. ASSUME NEW q \in Requests, NEW t \in Pool["setup"], NEW n \in DOMAIN todo'[q],
             Mails(q, n, t)'
      PROVE  /\ ~Stored(Setup(t))'
             /\ \A q2 \in Requests : \A n2 \in DOMAIN todo'[q2] :
                  todo'[q2][n2].key = Setup(t) => q2 = q /\ n2 = n
  <2>1. todo'[q][n].key = Setup(t)
    BY <1>8 DEF Mails
  <2>2. PICK m \in DOMAIN todo[q] : todo[q][m] = todo'[q][n] /\ Mails(q, m, t)
    BY <1>6, <1>8, <2>1
  <2>3. /\ ~Stored(Setup(t))
        /\ \A q2 \in Requests : \A m2 \in DOMAIN todo[q2] :
             todo[q2][m2].key = Setup(t) => q2 = q /\ m2 = m
    BY <1>1, <2>2 DEF TokensApart
  <2>4. ASSUME NEW q2 \in Requests, NEW n2 \in DOMAIN todo'[q2], todo'[q2][n2].key = Setup(t)
        PROVE  q2 = q
    BY <1>6, <2>3, <2>4
  <2>5. \A w : w.key = Setup(t) => ~Repeats(kv, w)
    BY RepeatsAre, MoreKeysAre
  <2>6. CASE q # r
    <3>1. todo'[q] = todo[q]
      BY <2>6, PutDoes
    <3>2. ~(IsWrite(todo[r][1]) /\ todo[r][1].key = Setup(t))
      BY <1>1, <2>3, <2>6
    <3>3. ~Stored(Setup(t))'
      BY <2>3, <3>2, PutMoves DEF Stored
    <3>4. n = m
      BY <2>1, <2>3, <3>1
    <3>5. QED
      BY <2>3, <2>4, <3>1, <3>3, <3>4
  <2>7. CASE q = r
    <3>1. IsWrite(todo[r][m])
      BY <2>2, <2>7 DEF Mails
    <3>2. \E d \in {0, 1} :
            /\ d = 0 => ~IsWrite(todo[r][1])
            /\ \A k \in DOMAIN todo'[r] : todo'[r][k].key = Setup(t) =>
                 k \in Nat \ {0} /\ k + d = m
      <4>1. CASE \A k \in DOMAIN todo'[r] :
                   /\ k \in Nat \ {0} /\ k \in DOMAIN todo[r]
                   /\ k = 1 => ~IsWrite(todo[r][k]) /\ Repeats(kv, todo'[r][k])
                   /\ k # 1 => todo'[r][k] = todo[r][k]
        <5>1. n # 1
          BY <2>1, <2>5, <2>7, <4>1
        <5>2. \A k \in DOMAIN todo'[r] : todo'[r][k].key = Setup(t) =>
                k \in Nat \ {0} /\ k = m
          BY <2>3, <2>5, <2>7, <4>1
        <5>3. ASSUME IsWrite(todo[r][1]) PROVE 1 \notin DOMAIN todo'[r]
          BY <4>1, <5>3
        <5>4. PICK S : todo'[r] \in Seq(S)
          BY PutMoves DEF ListFits, IsSeq
        <5>5. DOMAIN todo'[r] = 1..Len(todo'[r]) /\ Len(todo'[r]) \in Nat
          BY <5>4, LenProperties
        <5>6. 1 \in DOMAIN todo'[r]
          BY <2>7, <5>5
        <5>7. \A k \in DOMAIN todo'[r] : todo'[r][k].key = Setup(t) =>
                k \in Nat \ {0} /\ k + 0 = m
          BY <5>2
        <5>8. QED
          BY <5>3, <5>6, <5>7
      <4>2. CASE \A k \in DOMAIN todo'[r] :
                   /\ k \in Nat \ {0} /\ k + 1 \in DOMAIN todo[r]
                   /\ todo'[r][k] = todo[r][k + 1]
        <5>1. \A k \in DOMAIN todo'[r] : todo'[r][k].key = Setup(t) =>
                k \in Nat \ {0} /\ k + 1 = m
          BY <2>3, <2>7, <4>2
        <5>2. QED
          BY <5>1
      <4>3. QED
        BY <4>1, <4>2, PutMoves
    <3>3. PICK d \in {0, 1} :
            /\ d = 0 => ~IsWrite(todo[r][1])
            /\ \A k \in DOMAIN todo'[r] : todo'[r][k].key = Setup(t) =>
                 k \in Nat \ {0} /\ k + d = m
      BY <3>2
    <3>4. n \in Nat \ {0} /\ n + d = m
      BY <2>1, <2>7, <3>3
    <3>5. \A k \in DOMAIN todo'[r] : todo'[r][k].key = Setup(t) => k = n
      BY <3>3, <3>4
    <3>6. m = 1 => ~IsWrite(todo[r][1])
      BY <3>3, <3>4
    <3>7. ~(IsWrite(todo[r][1]) /\ todo[r][1].key = Setup(t))
      BY <1>1, <2>3, <2>7, <3>6
    <3>8. ~Stored(Setup(t))'
      BY <2>3, <3>7, PutMoves DEF Stored
    <3>9. QED
      BY <2>4, <2>7, <3>5, <3>8
  <2>8. QED
    BY <2>6, <2>7
<1>9. QED
  BY <1>4, <1>5, <1>7, <1>8 DEF TokensApart

(* No put makes a ping say of an event what no one said before.            *)
LEMMA NamesAfterPut ==
  ASSUME IInv, NEW r \in Requests, Put(r), NEW p, NEW x, Names(p, x)'
  PROVE  Names(p, x)
<1>1. 1 \in DOMAIN todo[r] /\ reading' = reading
  BY PutDoes
<1>2. CASE (Stored(Ping(p)) /\ kv[Ping(p)].event = x)'
  <2>1. Ping(p) \in DOMAIN kv' /\ kv'[Ping(p)].event = x
    BY <1>2 DEF Stored
  <2>2. CASE Ping(p) \in DOMAIN kv /\ kv'[Ping(p)] = kv[Ping(p)]
    BY <2>1, <2>2 DEF Names, Stored
  <2>3. CASE IsWrite(todo[r][1]) /\ Ping(p) = todo[r][1].key
             /\ kv'[Ping(p)] = todo[r][1].value
    BY <1>1, <2>1, <2>3 DEF Names
  <2>4. QED
    BY <2>1, <2>2, <2>3, PutMoves
<1>3. ASSUME NEW q \in Requests,
             (reading[q] # None /\ reading[q].op \in {"throttle", "deliver"}
              /\ reading[q].id = p /\ reading[q].copy.event = x)'
      PROVE  Names(p, x)
  BY <1>1, <1>3 DEF Names
<1>4. ASSUME NEW q \in Requests, NEW n \in DOMAIN todo'[q], IsWrite(todo'[q][n]),
             todo'[q][n].key = Ping(p), todo'[q][n].value.event = x
      PROVE  Names(p, x)
  <2>1. Ping(p)[1] = "ping"
    BY KeysAre
  <2>2. PICK m \in DOMAIN todo[q] : todo'[q][n] = todo[q][m]
    BY <1>4, <2>1, PutsBefore, RepeatsAre
  <2>3. QED
    BY <1>4, <2>2 DEF Names
<1>5. QED
  BY <1>2, <1>3, <1>4 DEF Names

(* A put keeps what is stored, and what everyone will put, right.          *)
LEMMA PutKeeps ==
  ASSUME IInv, NEW r \in Requests, Put(r)
  PROVE  IInv'
<1>1. /\ reading[r] = None
      /\ reading' = reading /\ crashes' = crashes /\ scene' = scene
      /\ DOMAIN todo' = Requests
      /\ \A q \in Requests : q # r => todo'[q] = todo[q]
  BY PutDoes
<1>2. /\ bounds' = bounds
      /\ Grows(bounds, Facts(kv), Facts(kv'))
      /\ StoreFits(bounds, kv')
      /\ ListFits(bounds, kv', todo'[r])
  BY PutMoves
<1>3. /\ scene \in DOMAIN Bounds /\ crashes \in 0..bounds.crashes
      /\ DOMAIN reading = Requests
      /\ \A q \in Requests : RequestFits(q)
  BY DEF IInv
<1>4. ASSUME NEW q \in Requests PROVE RequestFits(q)'
  <2>1. CASE q = r
    BY <1>1, <1>2, <2>1 DEF RequestFits
  <2>2. CASE q # r
    <3>1. todo'[q] = todo[q] /\ ListFits(bounds, kv, todo[q])
      BY <1>1, <1>3, <2>2 DEF RequestFits
    <3>2. ListFits(bounds, kv', todo[q])
      BY <1>2, <3>1, ListFitsLonger
    <3>3. reading[q] # None => ReadFits(bounds, Facts(kv'), reading[q])
      BY <1>2, <1>3, ReadFitsLonger DEF RequestFits
    <3>4. QED
      BY <1>1, <1>2, <1>3, <3>1, <3>2, <3>3 DEF RequestFits
  <2>3. QED
    BY <2>1, <2>2
<1>5. Agreeing' /\ TokensApart'
  BY PutAgreeing, PutTokens
<1>6. EventsApart'
  BY NamesAfterPut DEF IInv, EventsApart
<1>7. QED
  BY <1>1, <1>2, <1>3, <1>4, <1>5, <1>6 DEF IInv

-----------------------------------------------------------------------------
(* A worker that dies leaves fewer requests.                               *)
LEMMA CrashKeeps ==
  ASSUME IInv, NEW r \in Requests, Crash(r)
  PROVE  IInv'
<1>1. /\ crashes < bounds.crashes /\ crashes' = crashes + 1
      /\ kv' = kv /\ scene' = scene /\ bounds' = bounds
      /\ reading' = [reading EXCEPT ![r] = None]
      /\ todo' = [todo EXCEPT ![r] = <<>>]
  BY DEF Crash, bounds
<1>2. /\ scene \in DOMAIN Bounds /\ crashes \in 0..bounds.crashes
      /\ DOMAIN reading = Requests /\ DOMAIN todo = Requests
      /\ \A q \in Requests : RequestFits(q)
      /\ StoreFits(bounds, kv)
      /\ Agreeing /\ TokensApart /\ EventsApart
  BY DEF IInv
<1>3. /\ DOMAIN reading' = Requests /\ DOMAIN todo' = Requests
      /\ reading'[r] = None /\ todo'[r] = <<>>
      /\ \A q \in Requests : q # r => reading'[q] = reading[q] /\ todo'[q] = todo[q]
  BY <1>1, <1>2
<1>4. DOMAIN <<>> = {}
  OBVIOUS
<1>5. \A q \in Requests : RequestFits(q)'
  <2>1. RequestFits(r)'
    BY <1>1, <1>3, NoPuts DEF RequestFits
  <2>2. \A q \in Requests : q # r => RequestFits(q)'
    BY <1>1, <1>2, <1>3 DEF RequestFits
  <2>3. QED
    BY <2>1, <2>2
<1>6. \A q \in Requests : \A n \in DOMAIN todo'[q] :
        q # r /\ n \in DOMAIN todo[q] /\ todo'[q] = todo[q]
  BY <1>3, <1>4
<1>7. Agreeing'
  BY <1>1, <1>2, <1>6 DEF Agreeing, Stored
<1>8. \A t, e : Says(t, e)' => Says(t, e)
  BY <1>1, <1>3, <1>6 DEF Says, Live, Stored
<1>9. \A q \in Requests : \A n \in DOMAIN todo'[q] : \A t : Mails(q, n, t)' <=> Mails(q, n, t)
  BY <1>6 DEF Mails
<1>10. TokensApart'
  <2>1. \A t \in Pool["setup"], e, f \in Emails : Says(t, e)' /\ Says(t, f)' => e = f
    BY <1>2, <1>8 DEF TokensApart
  <2>2. \A t \in Pool["setup"], e \in Emails : Says(t, e)' => Stored(Setup(t))'
    BY <1>1, <1>2, <1>8 DEF TokensApart, Stored
  <2>3. \A q \in Requests, t \in Pool["setup"] : \A n \in DOMAIN todo'[q] :
          Mails(q, n, t)' =>
            /\ ~Stored(Setup(t))'
            /\ \A q2 \in Requests : \A m \in DOMAIN todo'[q2] :
                 todo'[q2][m].key = Setup(t) => q2 = q /\ m = n
    BY <1>1, <1>2, <1>6, <1>9 DEF TokensApart, Stored
  <2>4. \A q \in Requests, t \in Pool["setup"] : \A n \in DOMAIN todo'[q] :
          todo'[q][n].key = Setup(t) /\ ~Mails(q, n, t)' => Stored(Setup(t))'
    BY <1>1, <1>2, <1>6, <1>9 DEF TokensApart, Stored
  <2>5. QED
    BY <2>1, <2>2, <2>3, <2>4 DEF TokensApart
<1>11. \A p, x : Names(p, x)' => Names(p, x)
  BY <1>1, <1>3, <1>6 DEF Names, Stored
<1>12. EventsApart'
  BY <1>2, <1>11 DEF EventsApart
<1>13. crashes' \in 0..bounds.crashes
  <2>1. bounds.crashes \in Nat
    BY ScenesFit
  <2>2. QED
    BY <1>1, <1>2, <2>1
<1>14. QED
  BY <1>1, <1>2, <1>3, <1>5, <1>7, <1>10, <1>12, <1>13 DEF IInv

(* A token that has expired says no more.                                  *)
LEMMA ExpireKeeps ==
  ASSUME IInv, NEW t \in Chosen("setup"), ExpireToken(t)
  PROVE  IInv'
<1>1. /\ Setup(t) \in DOMAIN kv
      /\ kv' = [kv EXCEPT ![Setup(t)] = Expired]
      /\ reading' = reading /\ todo' = todo /\ crashes' = crashes /\ scene' = scene
      /\ bounds' = bounds
  BY DEF ExpireToken, Live, Stored, bounds
<1>2. /\ scene \in DOMAIN Bounds /\ crashes \in 0..bounds.crashes
      /\ DOMAIN reading = Requests /\ DOMAIN todo = Requests
      /\ \A q \in Requests : RequestFits(q)
      /\ StoreFits(bounds, kv)
      /\ Agreeing /\ TokensApart /\ EventsApart
  BY DEF IInv
<1>3. PICK st2 : st2 = [kv EXCEPT ![Setup(t)] = Expired]
  OBVIOUS
<1>4. /\ DOMAIN st2 = DOMAIN kv /\ st2[Setup(t)] = Expired
      /\ \A key \in DOMAIN kv : key # Setup(t) => st2[key] = kv[key]
  BY <1>1, <1>3
<1>5. kv' = st2
  BY <1>1, <1>3
<1>6. Setup(t)[1] = "setup" /\ Setup(t)[1] \notin LastingKinds
  BY MoreKeysAre DEF LastingKinds, PingKinds, ObjectKinds
<1>7. Grows(bounds, Facts(kv), Facts(st2))
  <2>1. SUFFICES ASSUME NEW f \in Facts(kv), f.key[1] \in LastingKinds
                 PROVE  \E g \in Facts(st2) : g.key = f.key /\ Same(bounds, f.key, f.value, g.value)
    BY DEF Grows
  <2>2. f.key \in DOMAIN st2 /\ f.value = st2[f.key]
    BY <1>4, <1>6, <2>1, FactsAre
  <2>3. QED
    BY <2>2, FactsAre, SameIsEquivalence
<1>8. StoreFits(bounds, st2)
  <2>1. SUFFICES ASSUME NEW key \in DOMAIN st2 PROVE Good(bounds, Facts(st2), key, st2[key])
    BY DEF StoreFits
  <2>2. CASE key # Setup(t)
    BY <1>2, <1>4, <1>7, <2>2, GoodLonger DEF StoreFits
  <2>3. CASE key = Setup(t)
    <3>1. Shaped(bounds, key, Expired)
      BY <1>6, <2>3 DEF Shaped
    <3>2. Rests(bounds, Facts(st2), key, Expired)
      BY <1>6, <2>3, EntryAssumption DEF Rests, SetupRests
    <3>3. QED
      BY <1>4, <2>3, <3>1, <3>2 DEF Good
  <2>4. QED
    BY <2>2, <2>3
<1>9. ASSUME NEW q \in Requests PROVE RequestFits(q)'
  <2>1. ListFits(bounds, st2, todo[q])
    BY <1>2, <1>7, ListFitsLonger DEF RequestFits
  <2>2. reading[q] # None => ReadFits(bounds, Facts(st2), reading[q])
    BY <1>2, <1>7, ReadFitsLonger DEF RequestFits
  <2>3. QED
    BY <1>1, <1>2, <1>5, <2>1, <2>2 DEF RequestFits
<1>10. Agreeing'
  <2>1. \A u, v : Same(bounds, Setup(t), u, v)
    BY <1>6 DEF Same
  <2>2. SUFFICES ASSUME NEW q \in Requests, NEW n \in DOMAIN todo[q], IsWrite(todo[q][n]),
                        todo[q][n].key \in DOMAIN st2
                 PROVE  Same(bounds, todo[q][n].key, todo[q][n].value, st2[todo[q][n].key])
    BY <1>1, <1>2, <1>5 DEF Agreeing, Stored
  <2>3. CASE todo[q][n].key = Setup(t)
    BY <2>1, <2>3
  <2>4. CASE todo[q][n].key # Setup(t)
    BY <1>2, <1>4, <2>2, <2>4 DEF Agreeing, Stored
  <2>5. QED
    BY <2>3, <2>4
<1>11. \A u, e : Says(u, e)' => Says(u, e)
  <2>1. \A u : User(u) # Setup(t)
    BY <1>6, MoreKeysAre
  <2>2. ASSUME NEW u, NEW e, (Live(u) /\ kv[Setup(u)].email = e)' PROVE Says(u, e)
    <3>1. Setup(u) \in DOMAIN st2 /\ st2[Setup(u)] \notin {Consumed, Expired}
          /\ st2[Setup(u)].email = e
      BY <1>5, <2>2 DEF Live, Stored
    <3>2. Setup(u) # Setup(t)
      BY <1>4, <3>1
    <3>3. st2[Setup(u)] = kv[Setup(u)] /\ Setup(u) \in DOMAIN kv
      BY <1>4, <3>1, <3>2
    <3>4. QED
      BY <3>1, <3>3 DEF Says, Live, Stored
  <2>3. ASSUME NEW u, NEW e, (Stored(User(u)) /\ kv[User(u)].email = e)' PROVE Says(u, e)
    <3>1. User(u) \in DOMAIN st2 /\ st2[User(u)].email = e
      BY <1>5, <2>3 DEF Stored
    <3>2. User(u) \in DOMAIN kv /\ st2[User(u)] = kv[User(u)]
      BY <1>4, <2>1, <3>1
    <3>3. QED
      BY <3>1, <3>2 DEF Says, Stored
  <2>4. ASSUME NEW u, NEW e, Says(u, e)' PROVE Says(u, e)
    <3>1. \/ (Live(u) /\ kv[Setup(u)].email = e)'
          \/ (Stored(User(u)) /\ kv[User(u)].email = e)'
          \/ \E q \in Requests :
               \/ /\ reading[q] # None /\ reading[q].op = "set"
                  /\ reading[q].id = u /\ reading[q].email = e
               \/ \E n \in DOMAIN todo[q] : /\ IsWrite(todo[q][n])
                                            /\ todo[q][n].key = User(u)
                                            /\ todo[q][n].value.email = e
      BY <1>1, <2>4 DEF Says
    <3>2. QED
      BY <2>2, <2>3, <3>1 DEF Says
  <2>5. QED
    BY <2>4
<1>12. TokensApart'
  <2>1. \A key : Stored(key)' <=> Stored(key)
    BY <1>4, <1>5 DEF Stored
  <2>2. \A u \in Pool["setup"], e, f \in Emails : Says(u, e)' /\ Says(u, f)' => e = f
    BY <1>2, <1>11 DEF TokensApart
  <2>3. \A u \in Pool["setup"], e \in Emails : Says(u, e)' => Stored(Setup(u))'
    BY <1>2, <1>11, <2>1 DEF TokensApart
  <2>4. \A q \in Requests, u \in Pool["setup"] : \A n \in DOMAIN todo'[q] :
          Mails(q, n, u)' =>
            /\ ~Stored(Setup(u))'
            /\ \A q2 \in Requests : \A m \in DOMAIN todo'[q2] :
                 todo'[q2][m].key = Setup(u) => q2 = q /\ m = n
    BY <1>1, <1>2, <2>1 DEF TokensApart, Mails
  <2>5. \A q \in Requests, u \in Pool["setup"] : \A n \in DOMAIN todo'[q] :
          todo'[q][n].key = Setup(u) /\ ~Mails(q, n, u)' => Stored(Setup(u))'
    BY <1>1, <1>2, <2>1 DEF TokensApart, Mails
  <2>6. QED
    BY <2>2, <2>3, <2>4, <2>5 DEF TokensApart
<1>13. EventsApart'
  <2>1. \A p : Ping(p) # Setup(t)
    BY <1>6, KeysAre
  <2>2. \A p : /\ Ping(p) \in DOMAIN st2 <=> Ping(p) \in DOMAIN kv
               /\ Ping(p) \in DOMAIN kv => st2[Ping(p)] = kv[Ping(p)]
    BY <1>4, <2>1
  <2>3. \A p, x : Names(p, x)' => Names(p, x)
    BY <1>1, <1>5, <2>2 DEF Names, Stored
  <2>4. QED
    BY <1>2, <2>3 DEF EventsApart
<1>14. QED
  BY <1>1, <1>2, <1>5, <1>8, <1>9, <1>10, <1>12, <1>13 DEF IInv

-----------------------------------------------------------------------------
(* A get, and a decision.                                                  *)

(* A request that goes on reading keeps IInv if what it asks and read fits,
   and it says nothing new.                                                *)
LEMMA AskKeeps ==
  ASSUME IInv, NEW r \in Requests, NEW asks, Reads(r, asks), todo[r] = <<>>,
         ReadFits(bounds, Facts(kv), asks),
         asks.op = "set" => Says(asks.id, asks.email),
         asks.op \in {"throttle", "deliver"} => Names(asks.id, asks.copy.event)
  PROVE  IInv'
<1>1. /\ kv' = kv /\ todo' = todo /\ crashes' = crashes /\ scene' = scene
      /\ bounds' = bounds
      /\ reading' = [reading EXCEPT ![r] = asks]
  BY DEF Reads, bounds
<1>2. /\ scene \in DOMAIN Bounds /\ crashes \in 0..bounds.crashes
      /\ DOMAIN reading = Requests /\ DOMAIN todo = Requests
      /\ \A q \in Requests : RequestFits(q)
      /\ StoreFits(bounds, kv)
      /\ Agreeing /\ TokensApart /\ EventsApart
  BY DEF IInv
<1>3. /\ DOMAIN reading' = Requests
      /\ reading'[r] = asks
      /\ \A q \in Requests : q # r => reading'[q] = reading[q]
  BY <1>1, <1>2
<1>4. ASSUME NEW q \in Requests PROVE RequestFits(q)'
  <2>1. CASE q = r
    BY <1>1, <1>2, <1>3, <2>1 DEF RequestFits
  <2>2. CASE q # r
    BY <1>1, <1>2, <1>3, <2>2 DEF RequestFits
  <2>3. QED
    BY <2>1, <2>2
<1>5. Agreeing'
  BY <1>1, <1>2 DEF Agreeing, Stored
<1>6. \A t, e : Says(t, e)' => Says(t, e)
  BY <1>1, <1>3 DEF Says, Live, Stored
<1>7. \A q, n, t : Mails(q, n, t)' <=> Mails(q, n, t)
  BY <1>1 DEF Mails
<1>8. \A key : Stored(key)' <=> Stored(key)
  BY <1>1 DEF Stored
<1>9. TokensApart'
  BY <1>1, <1>2, <1>6, <1>7, <1>8 DEF TokensApart
<1>10. \A p, x : Names(p, x)' => Names(p, x)
  BY <1>1, <1>3 DEF Names, Stored
<1>11. EventsApart'
  BY <1>2, <1>10 DEF EventsApart
<1>12. QED
  BY <1>1, <1>2, <1>3, <1>4, <1>5, <1>9, <1>11 DEF IInv

(* Nothing is stored under the key, and no one is about to store it.       *)
Untaken(key) ==
  ~Stored(key) /\ \A q \in Requests : \A m \in DOMAIN todo[q] : todo[q][m].key # key

(* A key whose records have nothing to agree on.                           *)
Free(key) == \A u, v : Same(bounds, key, u, v)

(* A put that agrees with what is stored and with what others will put.    *)
Joins(p) ==
  /\ \/ Free(p.key) \/ p.key[1] = "user" \/ Untaken(p.key)
     \/ Stored(p.key) /\ Same(bounds, p.key, p.value, kv[p.key])
  /\ p.key[1] = "user" =>
       \E t \in Pool["setup"] : p.key = User(t) /\ Says(t, p.value.email)
  /\ p.key[1] = "setup" =>
       \/ p.value = Consumed /\ Stored(p.key)
       \/ p.value # Consumed /\ Untaken(p.key)
  /\ \A i \in Pool["ping"], x \in Pool["proximity"] :
       p.key = Ping(i) /\ p.value.event = x =>
         Names(i, x) \/ \A q \in Pool["ping"] : ~Names(q, x)

(* Puts that join what is stored and planned leave all agreed.             *)
LEMMA PlanAgreeing ==
  ASSUME IInv, NEW r \in Requests, NEW puts, WillPut(r, puts), todo[r] = <<>>,
         ListFits(bounds, kv, puts),
         \A n \in DOMAIN puts : IsWrite(puts[n]) => Joins(puts[n]),
         \A n, m \in DOMAIN puts : puts[n].key[1] = puts[m].key[1] => n = m
  PROVE  Agreeing'
<1>1. /\ kv' = kv /\ bounds' = bounds
      /\ todo' = [todo EXCEPT ![r] = puts]
  BY DEF WillPut, bounds
<1>2. /\ DOMAIN todo = Requests
      /\ \A q \in Requests : RequestFits(q)
      /\ StoreFits(bounds, kv)
      /\ Agreeing /\ TokensApart
  BY DEF IInv
<1>3. /\ todo'[r] = puts
      /\ \A q \in Requests : q # r => todo'[q] = todo[q]
  BY <1>1, <1>2
<1>4. ASSUME NEW n \in DOMAIN puts, IsWrite(puts[n])
      PROVE  /\ puts[n].key \in DOMAIN kv => Same(bounds, puts[n].key, puts[n].value, kv[puts[n].key])
             /\ \A q \in Requests : \A m \in DOMAIN todo[q] :
                  IsWrite(todo[q][m]) /\ todo[q][m].key = puts[n].key =>
                    Same(bounds, puts[n].key, puts[n].value, todo[q][m].value)
  <2>1. PICK p : p = puts[n]
    OBVIOUS
  <2>2. Joins(p) /\ IsWrite(p)
    BY <1>4, <2>1
  <2>3. CASE Free(p.key)
    BY <2>1, <2>3 DEF Free
  <2>4. CASE Untaken(p.key)
    BY <2>1, <2>4 DEF Untaken, Stored
  <2>5. CASE Stored(p.key) /\ Same(bounds, p.key, p.value, kv[p.key])
    <3>1. ASSUME NEW q \in Requests, NEW m \in DOMAIN todo[q], IsWrite(todo[q][m]),
                 todo[q][m].key = p.key
          PROVE  Same(bounds, p.key, p.value, todo[q][m].value)
      <4>1. Same(bounds, p.key, todo[q][m].value, kv[p.key])
        BY <1>2, <2>5, <3>1 DEF Agreeing
      <4>2. QED
        BY <2>5, <4>1, SameIsEquivalence
    <3>2. QED
      BY <2>1, <2>5, <3>1
  <2>6. CASE p.key[1] = "user"
    <3>1. PICK t \in Pool["setup"] : p.key = User(t) /\ Says(t, p.value.email)
      BY <2>2, <2>6 DEF Joins
    <3>2. p.value.email \in Emails
      <4>1. PutFits(bounds, By(kv, puts, n), p)
        BY <2>1 DEF ListFits
      <4>2. QED
        BY <2>2, <2>6, <4>1 DEF PutFits, IsWrite, Good, Shaped, IsUser
    <3>3. ASSUME p.key \in DOMAIN kv PROVE kv[p.key].email = p.value.email
      <4>1. Says(t, kv[p.key].email)
        BY <3>1, <3>3 DEF Says, Stored
      <4>2. kv[p.key].email \in Emails
        BY <1>2, <2>6, <3>3 DEF StoreFits, Good, Shaped, IsUser
      <4>3. QED
        BY <1>2, <3>1, <3>2, <4>1, <4>2 DEF TokensApart
    <3>4. ASSUME NEW q \in Requests, NEW m \in DOMAIN todo[q], IsWrite(todo[q][m]),
                 todo[q][m].key = p.key
          PROVE  todo[q][m].value.email = p.value.email
      <4>1. Says(t, todo[q][m].value.email)
        BY <3>1, <3>4 DEF Says
      <4>2. PutFits(bounds, By(kv, todo[q], m), todo[q][m])
        BY <1>2 DEF RequestFits, ListFits
      <4>3. todo[q][m].value.email \in Emails
        BY <2>6, <3>4, <4>2 DEF PutFits, IsWrite, Good, Shaped, IsUser
      <4>4. QED
        BY <1>2, <3>1, <3>2, <4>1, <4>3 DEF TokensApart
    <3>5. \A u, v : u.email = v.email => Same(bounds, p.key, u, v)
      BY <2>6 DEF Same
    <3>6. QED
      BY <2>1, <2>6, <3>3, <3>4, <3>5
  <2>7. QED
    BY <2>2, <2>3, <2>4, <2>5, <2>6 DEF Joins
<1>5. ASSUME NEW q \in Requests, NEW n \in DOMAIN todo'[q], IsWrite(todo'[q][n])
      PROVE  /\ todo'[q][n].key \in DOMAIN kv =>
                  Same(bounds, todo'[q][n].key, todo'[q][n].value, kv[todo'[q][n].key])
             /\ \A q2 \in Requests : \A m \in DOMAIN todo'[q2] :
                  IsWrite(todo'[q2][m]) /\ todo'[q2][m].key = todo'[q][n].key =>
                    Same(bounds, todo'[q][n].key, todo'[q][n].value, todo'[q2][m].value)
  <2>1. todo'[q][n].key \in DOMAIN kv =>
          Same(bounds, todo'[q][n].key, todo'[q][n].value, kv[todo'[q][n].key])
    BY <1>2, <1>3, <1>4, <1>5 DEF Agreeing, Stored
  <2>2. ASSUME NEW q2 \in Requests, NEW m \in DOMAIN todo'[q2],
               IsWrite(todo'[q2][m]), todo'[q2][m].key = todo'[q][n].key
        PROVE  Same(bounds, todo'[q][n].key, todo'[q][n].value, todo'[q2][m].value)
    <3>1. CASE q = r /\ q2 = r
      <4>1. n = m
        BY <1>3, <2>2, <3>1
      <4>2. QED
        BY <3>1, <4>1, SameIsEquivalence
    <3>2. CASE q = r /\ q2 # r
      BY <1>3, <1>4, <1>5, <2>2, <3>2
    <3>3. CASE q # r /\ q2 = r
      <4>1. Same(bounds, todo'[q][n].key, todo'[q2][m].value, todo'[q][n].value)
        BY <1>3, <1>4, <1>5, <2>2, <3>3
      <4>2. QED
        BY <4>1, SameIsEquivalence
    <3>4. CASE q # r /\ q2 # r
      BY <1>2, <1>3, <1>5, <2>2, <3>4 DEF Agreeing
    <3>5. QED
      BY <3>1, <3>2, <3>3, <3>4
  <2>3. QED
    BY <2>1, <2>2
<1>6. QED
  BY <1>1, <1>5 DEF Agreeing, Stored

(* And leave the emails of tokens apart.                                   *)
LEMMA PlanTokens ==
  ASSUME IInv, NEW r \in Requests, NEW puts, WillPut(r, puts), todo[r] = <<>>,
         ListFits(bounds, kv, puts),
         \A n \in DOMAIN puts : IsWrite(puts[n]) => Joins(puts[n]),
         \A n, m \in DOMAIN puts : puts[n].key[1] = puts[m].key[1] => n = m
  PROVE  TokensApart'
<1>1. /\ kv' = kv
      /\ todo' = [todo EXCEPT ![r] = puts]
      /\ reading' = [reading EXCEPT ![r] = None]
  BY DEF WillPut
<1>2. /\ DOMAIN todo = Requests /\ DOMAIN reading = Requests
      /\ TokensApart
  BY DEF IInv
<1>3. /\ todo'[r] = puts /\ reading'[r] = None
      /\ \A q \in Requests : q # r => todo'[q] = todo[q] /\ reading'[q] = reading[q]
  BY <1>1, <1>2
<1>4. \A key : Stored(key)' <=> Stored(key)
  BY <1>1 DEF Stored
<1>5. \A t : User(t)[1] = "user" /\ Setup(t)[1] = "setup" /\ User(t)[2] = t
  BY MoreKeysAre
<1>6. ASSUME NEW t, NEW e, Says(t, e)' PROVE Says(t, e)
  <2>1. CASE (Live(t) /\ kv[Setup(t)].email = e)'
    BY <1>1, <2>1 DEF Says, Live, Stored
  <2>2. CASE (Stored(User(t)) /\ kv[User(t)].email = e)'
    BY <1>1, <2>2 DEF Says, Stored
  <2>3. ASSUME NEW q \in Requests,
               reading'[q] # None /\ reading'[q].op = "set" /\ reading'[q].id = t
               /\ reading'[q].email = e
        PROVE  Says(t, e)
    BY <1>3, <2>3 DEF Says
  <2>4. ASSUME NEW q \in Requests, NEW n \in DOMAIN todo'[q], IsWrite(todo'[q][n]),
               todo'[q][n].key = User(t), todo'[q][n].value.email = e
        PROVE  Says(t, e)
    <3>1. CASE q = r
      <4>1. Joins(puts[n]) /\ puts[n].key = User(t) /\ puts[n].value.email = e
        BY <1>3, <2>4, <3>1
      <4>2. PICK u \in Pool["setup"] : puts[n].key = User(u) /\ Says(u, puts[n].value.email)
        BY <1>5, <4>1 DEF Joins
      <4>3. User(u) = User(t) /\ User(u)[2] = u /\ User(t)[2] = t
        BY <1>5, <4>1, <4>2
      <4>4. u = t
        BY <4>3
      <4>5. QED
        BY <4>1, <4>2, <4>4
    <3>2. CASE q # r
      BY <1>3, <2>4, <3>2 DEF Says
    <3>3. QED
      BY <3>1, <3>2
  <2>5. QED
    BY <1>6, <2>1, <2>2, <2>3, <2>4 DEF Says
<1>7. ASSUME NEW n \in DOMAIN puts, NEW t, puts[n].key = Setup(t)
      PROVE  /\ IsWrite(puts[n])
             /\ \/ puts[n].value = Consumed /\ Stored(Setup(t))
                \/ puts[n].value # Consumed /\ Untaken(Setup(t))
  <2>1. PutFits(bounds, By(kv, puts, n), puts[n])
    BY DEF ListFits
  <2>2. IsWrite(puts[n])
    BY <1>5, <1>7, <2>1 DEF PutFits, IndexKinds
  <2>3. Joins(puts[n])
    BY <2>2
  <2>4. QED
    BY <1>5, <1>7, <2>2, <2>3 DEF Joins
<1>8. ASSUME NEW q \in Requests, NEW t \in Pool["setup"], NEW n \in DOMAIN todo'[q],
             Mails(q, n, t)'
      PROVE  /\ ~Stored(Setup(t))
             /\ \A q2 \in Requests : \A m \in DOMAIN todo'[q2] :
                  todo'[q2][m].key = Setup(t) => q2 = q /\ m = n
  <2>1. todo'[q][n].key = Setup(t) /\ IsWrite(todo'[q][n]) /\ todo'[q][n].value # Consumed
    BY <1>8 DEF Mails
  <2>2. CASE q = r
    <3>1. Untaken(Setup(t))
      BY <1>3, <1>7, <2>1, <2>2
    <3>2. \A m \in DOMAIN puts : puts[m].key = Setup(t) => m = n
      BY <1>3, <2>1, <2>2
    <3>3. QED
      BY <1>3, <2>2, <3>1, <3>2 DEF Untaken
  <2>3. CASE q # r
    <3>1. Mails(q, n, t) /\ n \in DOMAIN todo[q]
      BY <1>3, <2>1, <2>3 DEF Mails
    <3>2. /\ ~Stored(Setup(t))
          /\ \A q2 \in Requests : \A m \in DOMAIN todo[q2] :
               todo[q2][m].key = Setup(t) => q2 = q /\ m = n
      BY <1>2, <3>1 DEF TokensApart
    <3>3. \A m \in DOMAIN puts : puts[m].key # Setup(t)
      <4>1. ~Untaken(Setup(t))
        BY <1>3, <2>1, <2>3 DEF Untaken
      <4>2. QED
        BY <1>7, <3>2, <4>1
    <3>4. QED
      BY <1>3, <3>2, <3>3
  <2>4. QED
    BY <2>2, <2>3
<1>9. ASSUME NEW q \in Requests, NEW t \in Pool["setup"], NEW n \in DOMAIN todo'[q],
             todo'[q][n].key = Setup(t), ~Mails(q, n, t)'
      PROVE  Stored(Setup(t))
  <2>1. CASE q = r
    <3>1. ~(IsWrite(puts[n]) /\ puts[n].value # Consumed) /\ puts[n].key = Setup(t)
      BY <1>3, <1>9, <2>1 DEF Mails
    <3>2. QED
      BY <1>3, <1>7, <2>1, <3>1
  <2>2. CASE q # r
    <3>1. ~Mails(q, n, t) /\ n \in DOMAIN todo[q] /\ todo[q][n].key = Setup(t)
      BY <1>3, <1>9, <2>2 DEF Mails
    <3>2. QED
      BY <1>2, <3>1 DEF TokensApart
  <2>3. QED
    BY <2>1, <2>2
<1>10. QED
  BY <1>2, <1>4, <1>6, <1>8, <1>9 DEF TokensApart

(* And leave the pings of events apart.                                    *)
LEMMA PlanEvents ==
  ASSUME IInv, NEW r \in Requests, NEW puts, WillPut(r, puts),
         \A n \in DOMAIN puts : IsWrite(puts[n]) => Joins(puts[n]),
         \A n, m \in DOMAIN puts : puts[n].key[1] = puts[m].key[1] => n = m
  PROVE  EventsApart'
<1>1. /\ kv' = kv
      /\ todo' = [todo EXCEPT ![r] = puts]
      /\ reading' = [reading EXCEPT ![r] = None]
  BY DEF WillPut
<1>2. /\ DOMAIN todo = Requests /\ DOMAIN reading = Requests
      /\ EventsApart
  BY DEF IInv
<1>3. /\ todo'[r] = puts /\ reading'[r] = None
      /\ \A q \in Requests : q # r => todo'[q] = todo[q] /\ reading'[q] = reading[q]
  BY <1>1, <1>2
<1> DEFINE Newly(n, p, x) ==
      IsWrite(puts[n]) /\ puts[n].key = Ping(p) /\ puts[n].value.event = x
<1>4. ASSUME NEW p, NEW x, Names(p, x)'
      PROVE  Names(p, x) \/ \E n \in DOMAIN puts : Newly(n, p, x)
  <2>1. CASE (Stored(Ping(p)) /\ kv[Ping(p)].event = x)'
    BY <1>1, <2>1 DEF Names, Stored
  <2>2. ASSUME NEW q \in Requests,
               reading'[q] # None /\ reading'[q].op \in {"throttle", "deliver"}
               /\ reading'[q].id = p /\ reading'[q].copy.event = x
        PROVE  Names(p, x)
    BY <1>3, <2>2 DEF Names
  <2>3. ASSUME NEW q \in Requests, NEW n \in DOMAIN todo'[q], IsWrite(todo'[q][n]),
               todo'[q][n].key = Ping(p), todo'[q][n].value.event = x
        PROVE  Names(p, x) \/ \E m \in DOMAIN puts : Newly(m, p, x)
    <3>1. CASE q = r
      BY <1>3, <2>3, <3>1
    <3>2. CASE q # r
      BY <1>3, <2>3, <3>2 DEF Names
    <3>3. QED
      BY <3>1, <3>2
  <2>4. QED
    BY <1>4, <2>1, <2>2, <2>3 DEF Names
<1>5. \A p : Ping(p)[1] = "ping" /\ Ping(p)[2] = p
  BY KeysAre
<1>6. ASSUME NEW n \in DOMAIN puts, NEW p \in Pool["ping"], NEW x \in Pool["proximity"],
             Newly(n, p, x)
      PROVE  Names(p, x) \/ \A q \in Pool["ping"] : ~Names(q, x)
  BY <1>6 DEF Joins
<1>7. ASSUME NEW n \in DOMAIN puts, NEW m \in DOMAIN puts, NEW p, NEW q, NEW x,
             Newly(n, p, x), Newly(m, q, x)
      PROVE  p = q
  <2>1. n = m
    BY <1>5, <1>7
  <2>2. QED
    BY <1>5, <1>7, <2>1
<1> HIDE DEF Newly
<1>8. ASSUME NEW p \in Pool["ping"], NEW q \in Pool["ping"], NEW x \in Pool["proximity"],
             Names(p, x)', Names(q, x)'
      PROVE  p = q
  <2>1. Names(p, x) \/ \E n \in DOMAIN puts : Newly(n, p, x)
    BY <1>4, <1>8
  <2>2. Names(q, x) \/ \E n \in DOMAIN puts : Newly(n, q, x)
    BY <1>4, <1>8
  <2>3. Names(p, x) /\ Names(q, x) => p = q
    BY <1>2 DEF EventsApart
  <2>4. QED
    BY <1>6, <1>7, <2>1, <2>2, <2>3
<1>9. QED
  BY <1>8 DEF EventsApart

(* A request that goes on to put keeps IInv if its puts fit, of different
   kinds, and agree with what is stored and with what others will put.     *)
LEMMA PlanKeeps ==
  ASSUME IInv, NEW r \in Requests, NEW puts, WillPut(r, puts), todo[r] = <<>>,
         ListFits(bounds, kv, puts),
         \A n \in DOMAIN puts : IsWrite(puts[n]) => Joins(puts[n]),
         \A n, m \in DOMAIN puts : puts[n].key[1] = puts[m].key[1] => n = m
  PROVE  IInv'
<1>1. /\ kv' = kv /\ crashes' = crashes /\ scene' = scene
      /\ bounds' = bounds
      /\ reading' = [reading EXCEPT ![r] = None]
      /\ todo' = [todo EXCEPT ![r] = puts]
  BY DEF WillPut, bounds
<1>2. /\ scene \in DOMAIN Bounds /\ crashes \in 0..bounds.crashes
      /\ DOMAIN reading = Requests /\ DOMAIN todo = Requests
      /\ \A q \in Requests : RequestFits(q)
      /\ StoreFits(bounds, kv)
  BY DEF IInv
<1>3. /\ DOMAIN reading' = Requests /\ DOMAIN todo' = Requests
      /\ todo'[r] = puts /\ reading'[r] = None
      /\ \A q \in Requests : q # r => todo'[q] = todo[q] /\ reading'[q] = reading[q]
  BY <1>1, <1>2
<1>4. ASSUME NEW q \in Requests PROVE RequestFits(q)'
  <2>1. CASE q = r
    BY <1>1, <1>3, <2>1 DEF RequestFits
  <2>2. CASE q # r
    BY <1>1, <1>2, <1>3, <2>2 DEF RequestFits
  <2>3. QED
    BY <2>1, <2>2
<1>5. Agreeing'
  BY PlanAgreeing
<1>6. TokensApart'
  BY PlanTokens
<1>7. EventsApart'
  BY PlanEvents
<1>8. QED
  BY <1>1, <1>2, <1>3, <1>4, <1>5, <1>6, <1>7 DEF IInv

-----------------------------------------------------------------------------
(* What the requests have in common.                                       *)

(* A request that arrives has nothing left to put.                         *)
LEMMA Arriving ==
  ASSUME IInv, NEW r \in Requests, Arrives(r)
  PROVE  todo[r] = <<>>
BY DEF Arrives, Idle

(* A request that has read has nothing to put yet, and what it read fits.  *)
LEMMA Reading ==
  ASSUME IInv, NEW r \in Requests, NEW op, HasRead(r, op)
  PROVE  /\ todo[r] = <<>>
         /\ reading[r] # None /\ reading[r].op = op
         /\ ReadFits(bounds, Facts(kv), reading[r])
BY DEF HasRead, IInv, RequestFits

(* What is stored is good, and a good copy of itself.                      *)
LEMMA StoredFits ==
  ASSUME IInv, NEW key, Stored(key)
  PROVE  /\ Good(bounds, Facts(kv), key, kv[key])
         /\ Copied(bounds, Facts(kv), key, kv[key])
         /\ Has(Facts(kv), key)
BY ReadIsCopied, FactsAre DEF IInv, StoreFits, Stored, Has

(* No one has, or is about to store, an identifier that is minted.         *)
LEMMA MintedIsNew ==
  ASSUME IInv, NEW kind \in DOMAIN Pool, NEW id \in Minted(kind)
  PROVE  /\ id \in bounds.pool[kind] /\ id \in Pool[kind] /\ id # None
         /\ Untaken(<<kind, id>>)
<1>1. PICK fresh : fresh = {i \in bounds.pool[kind] : ~Taken(kind, i)}
  OBVIOUS
<1>2. fresh # {} /\ id = CHOOSE i \in fresh : TRUE
  BY <1>1 DEF Minted
<1>3. id \in fresh
  BY <1>2
<1>4. id \in bounds.pool[kind] /\ ~Taken(kind, id)
  BY <1>1, <1>3
<1>5. id \in Pool[kind] /\ id # None
  BY <1>4, ScenesFit, KindsArePooled
<1>6. QED
  BY <1>4, <1>5 DEF Taken, Untaken

(* An identifier clients may send is new, or clients post others over it.  *)
LEMMA GivenIsNew ==
  ASSUME IInv, NEW kind \in DOMAIN Pool, NEW id \in Given(kind)
  PROVE  /\ id \in bounds.pool[kind] /\ id \in Pool[kind] /\ id # None
         /\ Untaken(<<kind, id>>) \/ <<kind, id>> \in bounds.again
<1>1. CASE id \in Minted(kind)
  BY <1>1, MintedIsNew
<1>2. CASE id \in bounds.pool[kind] /\ <<kind, id>> \in bounds.again
  BY <1>2, ScenesFit, KindsArePooled
<1>3. QED
  BY <1>1, <1>2 DEF Given

(* The records of the chain under such a key have nothing to agree on.     *)
LEMMA AgainIsFree ==
  ASSUME NEW key \in bounds.again,
         key[1] \in {"object-claim", "object-handoff", "handoff-proof"}
  PROVE  Free(key)
BY DEF Free, Same

(* An identifier that is chosen is in its pool.                            *)
LEMMA ChosenIsPooled ==
  ASSUME IInv, NEW kind \in DOMAIN Pool, NEW id \in Chosen(kind)
  PROVE  id \in bounds.pool[kind] /\ id \in Pool[kind] /\ id # None
BY ScenesFit, KindsArePooled DEF Chosen

(* The five kinds of put are told apart by their fields.                   *)
LEMMA PutsAre ==
  /\ \A k, v : /\ IsWrite(Writes(k, v))
               /\ Writes(k, v).key = k /\ Writes(k, v).value = v
  /\ \A k, e : /\ DOMAIN Appends(k, e) = {"key", "adds"} /\ ~IsWrite(Appends(k, e))
               /\ Appends(k, e).key = k /\ Appends(k, e).adds = e
  /\ \A k, v : /\ DOMAIN Refreshes(k, v) = {"key", "refresh"} /\ ~IsWrite(Refreshes(k, v))
               /\ Refreshes(k, v).key = k /\ Refreshes(k, v).refresh = v
  /\ \A k : /\ DOMAIN PutsBack(k) = {"key", "back"} /\ ~IsWrite(PutsBack(k))
            /\ PutsBack(k).key = k
  /\ \A k : /\ DOMAIN Deletes(k) = {"key"} /\ ~IsWrite(Deletes(k))
            /\ Deletes(k).key = k
<1>1. "adds" # "value" /\ "refresh" # "value" /\ "back" # "value"
  OBVIOUS
<1>2. QED
  BY <1>1 DEF Writes, Appends, Refreshes, PutsBack, Deletes, IsWrite

(* A plain put fits if its record is good.                                 *)
LEMMA WriteFits ==
  ASSUME NEW b, NEW F, NEW k, NEW v, Good(b, F, k, v)
  PROVE  PutFits(b, F, Writes(k, v))
BY PutsAre DEF PutFits

(* An append fits if it is to an index.                                    *)
LEMMA AppendsFit ==
  ASSUME NEW b, NEW F, NEW k, NEW e, k[1] \in IndexKinds,
         k[1] = "intents-of" => e \in Pool["intent"]
  PROVE  PutFits(b, F, Appends(k, e))
BY PutsAre DEF PutFits

(* The kinds with nothing to agree on.                                     *)
FreeKinds ==
  IndexKinds \union
  {"relevance", "ping", "carrier-route", "ping-delivery", "field", "current-field",
   "intent", "object", "ican-evidence", "setup", "user-email", "session"}

(* A put of a free kind joins.                                             *)
LEMMA PlainJoins ==
  ASSUME NEW p, p.key[1] \in FreeKinds \ {"ping", "setup"}
  PROVE  Joins(p)
<1>1. Free(p.key)
  BY DEF Free, Same, FreeKinds, IndexKinds
<1>2. p.key[1] \notin {"ping", "setup", "user"}
  BY DEF FreeKinds, IndexKinds
<1>3. \A i : p.key # Ping(i)
  BY <1>2, KeysAre
<1>4. QED
  BY <1>1, <1>2, <1>3 DEF Joins

(* A put of a ping joins if it speaks of no event, or of its own.          *)
LEMMA PingJoins ==
  ASSUME NEW p, NEW i \in Pool["ping"], p.key = Ping(i),
         p.value.event = None \/ Names(i, p.value.event)
  PROVE  Joins(p)
<1>1. p.key[1] = "ping" /\ p.key[2] = i
  BY KeysAre
<1>2. Free(p.key)
  BY <1>1 DEF Free, Same
<1>3. \A j : p.key = Ping(j) => j = i
  BY <1>1, KeysAre
<1>4. None \notin Pool["proximity"]
  BY KindsArePooled DEF FieldKinds
<1>5. QED
  BY <1>1, <1>2, <1>3, <1>4 DEF Joins

(* A put joins if nothing has its key, if what is stored agrees with it, or
   if it is one of those that clients post over others.                    *)
LEMMA NewJoins ==
  ASSUME NEW p, p.key[1] \notin {"ping", "setup", "user"},
         \/ Untaken(p.key) \/ Free(p.key)
         \/ Stored(p.key) /\ Same(bounds, p.key, p.value, kv[p.key])
  PROVE  Joins(p)
<1>1. \A i : p.key # Ping(i)
  BY KeysAre
<1>2. QED
  BY <1>1 DEF Joins

(* The plans of none to four puts, each of a kind of its own.              *)
LEMMA PlanNone ==
  ASSUME IInv, NEW r \in Requests, WillPut(r, <<>>), todo[r] = <<>>
  PROVE  IInv'
<1>1. PICK s : s = <<>>
  OBVIOUS
<1>2. DOMAIN s = {}
  BY <1>1
<1>3. ListFits(bounds, kv, s) /\ WillPut(r, s)
  BY <1>1, NoPuts
<1>4. QED
  BY <1>2, <1>3, PlanKeeps

LEMMA PlanOne ==
  ASSUME IInv, NEW r \in Requests, NEW p, WillPut(r, <<p>>), todo[r] = <<>>,
         PutFits(bounds, Facts(kv), p), IsWrite(p) => Joins(p)
  PROVE  IInv'
<1>1. PICK s : s = <<p>>
  OBVIOUS
<1>2. DOMAIN s = {1} /\ s[1] = p
  BY <1>1
<1>3. ListFits(bounds, kv, s) /\ WillPut(r, s)
  BY <1>1, OnePut
<1>4. QED
  BY <1>2, <1>3, PlanKeeps

LEMMA PlanTwo ==
  ASSUME IInv, NEW r \in Requests, NEW p, NEW q, WillPut(r, <<p, q>>), todo[r] = <<>>,
         IsWrite(p), Joins(p), PutFits(bounds, Facts(kv), p),
         PutFits(bounds, Facts(kv) \union {p}, q), IsWrite(q) => Joins(q),
         p.key[1] # q.key[1]
  PROVE  IInv'
<1>1. PICK s : s = <<p, q>>
  OBVIOUS
<1>2. DOMAIN s = {1, 2} /\ s[1] = p /\ s[2] = q
  BY <1>1
<1>3. ListFits(bounds, kv, s) /\ WillPut(r, s)
  BY <1>1, TwoPuts
<1>4. QED
  BY <1>2, <1>3, PlanKeeps

LEMMA PlanThree ==
  ASSUME IInv, NEW r \in Requests, NEW p, NEW q, NEW w,
         WillPut(r, <<p, q, w>>), todo[r] = <<>>,
         IsWrite(p), Joins(p), PutFits(bounds, Facts(kv), p),
         IsWrite(q), Joins(q), PutFits(bounds, Facts(kv) \union {p}, q),
         PutFits(bounds, Facts(kv) \union {p, q}, w), IsWrite(w) => Joins(w),
         p.key[1] # q.key[1], p.key[1] # w.key[1], q.key[1] # w.key[1]
  PROVE  IInv'
<1>1. PICK s : s = <<p, q, w>>
  OBVIOUS
<1>2. DOMAIN s = {1, 2, 3} /\ s[1] = p /\ s[2] = q /\ s[3] = w
  BY <1>1
<1>3. ListFits(bounds, kv, s) /\ WillPut(r, s)
  BY <1>1, ThreePuts
<1>4. QED
  BY <1>2, <1>3, PlanKeeps

LEMMA PlanFour ==
  ASSUME IInv, NEW r \in Requests, NEW p, NEW q, NEW w, NEW z,
         WillPut(r, <<p, q, w, z>>), todo[r] = <<>>,
         IsWrite(p), Joins(p), PutFits(bounds, Facts(kv), p),
         IsWrite(q), Joins(q), PutFits(bounds, Facts(kv) \union {p}, q),
         IsWrite(w), Joins(w), PutFits(bounds, Facts(kv) \union {p, q}, w),
         PutFits(bounds, Facts(kv) \union {p, q, w}, z), IsWrite(z) => Joins(z),
         p.key[1] # q.key[1], p.key[1] # w.key[1], q.key[1] # w.key[1],
         p.key[1] # z.key[1], q.key[1] # z.key[1], w.key[1] # z.key[1]
  PROVE  IInv'
<1>1. PICK s : s = <<p, q, w, z>>
  OBVIOUS
<1>2. DOMAIN s = {1, 2, 3, 4} /\ s[1] = p /\ s[2] = q /\ s[3] = w /\ s[4] = z
  BY <1>1
<1>3. ListFits(bounds, kv, s) /\ WillPut(r, s)
  BY <1>1, FourPuts
<1>4. QED
  BY <1>2, <1>3, PlanKeeps

-----------------------------------------------------------------------------
(* Pings.                                                                  *)

(* A ping that is stored, as its readers take it.                          *)
LEMMA PingIs ==
  ASSUME IInv, NEW p, Stored(Ping(p))
  PROVE  /\ kv[Ping(p)] \in PingRecord
         /\ kv[Ping(p)].throttle \in OrNone(bounds.pool["ping-throttle"])
         /\ PingRests(Facts(kv), p, kv[Ping(p)])
         /\ Copied(bounds, Facts(kv), Ping(p), kv[Ping(p)])
         /\ Names(p, kv[Ping(p)].event)
BY StoredFits, KeysAre DEF Good, Shaped, Rests, Names

(* What a ping under its key has to be.                                    *)
LEMMA GoodPing ==
  ASSUME NEW b, NEW F, NEW p, NEW v, v \in PingRecord,
         v.throttle \in OrNone(b.pool["ping-throttle"]), PingRests(F, p, v)
  PROVE  Good(b, F, Ping(p), v)
BY KeysAre DEF Good, Shaped, Rests

(* A ping no throttle, route or event is named by.                         *)
LEMMA NewPingFits ==
  ASSUME NEW b, NEW F, NEW p, NEW v, v.throttle = None, v.decision = None,
         v.route = None, v.carrier_route = None, v.delivery = None, v.event = None,
         v \in PingRecord, Untold => v.status \notin Allowed
  PROVE  Good(b, F, Ping(p), v)
<1>1. PingRests(F, p, v)
  BY DEF PingRests
<1>2. v.throttle \in OrNone(b.pool["ping-throttle"])
  BY DEF OrNone
<1>3. QED
  BY <1>1, <1>2, GoodPing

(* A ping as it is first put.                                              *)
LEMMA NewPingIs ==
  ASSUME NEW from \in Identities, NEW to \in Identities,
         NEW status \in PostedPings \union {"queued"}, NEW v, v = NewPing(from, to, status)
  PROVE  /\ v.from = from /\ v.to = to /\ v.status = status
         /\ v.throttle = None /\ v.decision = None /\ v.route = None
         /\ v.carrier_route = None /\ v.delivery = None /\ v.event = None
         /\ v \in PingRecord
         /\ Untold => v.status \notin Allowed
<1>1. /\ v.from = from /\ v.to = to /\ v.status = status
      /\ v.throttle = None /\ v.decision = None /\ v.route = None
      /\ v.carrier_route = None /\ v.delivery = None /\ v.event = None
  BY DEF NewPing
<1>2. v \in PingRecord
  BY DEF NewPing, PingRecord, OrNone
<1>3. Untold => v.status \notin Allowed
  BY <1>1 DEF Untold, Allowed
<1>4. QED
  BY <1>1, <1>2, <1>3

(* The one made of what is relevant, and the one made by an event.         *)
OfRelevanceOnly(ping, i) == [ping EXCEPT !.relevance = i]
OfEventOnly(ping, x) == [ping EXCEPT !.event = x]

(* A ping says what it came of and is otherwise the same.                  *)
LEMMA NewPingWith ==
  ASSUME NEW v \in PingRecord
  PROVE  /\ \A i \in Pool["relevance"] : LET w == OfRelevanceOnly(v, i)
            IN  /\ w \in PingRecord
                /\ w.from = v.from /\ w.to = v.to /\ w.status = v.status
                /\ w.throttle = v.throttle /\ w.decision = v.decision
                /\ w.route = v.route /\ w.carrier_route = v.carrier_route
                /\ w.delivery = v.delivery /\ w.event = v.event
         /\ \A x \in Pool["proximity"] : LET w == OfEventOnly(v, x)
            IN  /\ w \in PingRecord
                /\ w.from = v.from /\ w.to = v.to /\ w.status = v.status
                /\ w.throttle = v.throttle /\ w.decision = v.decision
                /\ w.route = v.route /\ w.carrier_route = v.carrier_route
                /\ w.delivery = v.delivery /\ w.event = x
<1>1. \A i \in Pool["relevance"] : OfRelevanceOnly(v, i) \in PingRecord
  BY DEF OfRelevanceOnly, PingRecord, OrNone
<1>2. \A x \in Pool["proximity"] : OfEventOnly(v, x) \in PingRecord
  BY DEF OfEventOnly, PingRecord, OrNone
<1>3. QED
  BY <1>1, <1>2 DEF OfRelevanceOnly, OfEventOnly, PingRecord

(* A ping of a client, between two ends.                                   *)
LEMMA CreatePingKeeps ==
  ASSUME IInv, NEW r \in Requests, CreatePing(r)
  PROVE  IInv'
<1>1. PICK ends \in Ends, p \in Minted("ping") :
        Goes(r, <<Writes(Ping(p), NewPing(ends[1], ends[2], "queued"))>>)
  BY DEF CreatePing
<1>2. PICK v : v = NewPing(ends[1], ends[2], "queued")
  OBVIOUS
<1>3. ends[1] \in Identities /\ ends[2] \in Identities
  BY PipelineAssumption
<1>4. p \in Pool["ping"]
  BY KindsArePooled, MintedIsNew DEF PingKinds
<1>5. v.event = None /\ Good(bounds, Facts(kv), Ping(p), v)
  BY <1>2, <1>3, NewPingIs, NewPingFits
<1>6. todo[r] = <<>> /\ WillPut(r, <<Writes(Ping(p), v)>>)
  BY <1>1, <1>2, Arriving DEF Goes
<1>7. Joins(Writes(Ping(p), v))
  BY <1>4, <1>5, PingJoins, PutsAre
<1>8. PutFits(bounds, Facts(kv), Writes(Ping(p), v))
  BY <1>5, WriteFits
<1>9. QED
  BY <1>6, <1>7, <1>8, PlanOne

(* The finding that is read is a record of two identities.                 *)
LEMMA ReadRelevanceKeeps ==
  ASSUME IInv, NEW r \in Requests, ReadRelevance(r)
  PROVE  IInv'
<1>1. PICK v \in Chosen("relevance") :
        /\ Stored(Relevance(v))
        /\ StartReading(r, [op |-> "relevance", id |-> v, to |-> kv[Relevance(v)].identity])
  BY DEF ReadRelevance
<1>2. PICK x : x = [op |-> "relevance", id |-> v, to |-> kv[Relevance(v)].identity]
  OBVIOUS
<1>3. kv[Relevance(v)].identity \in Identities
  BY <1>1, StoredFits, KeysAre DEF Good, Shaped, RelevanceRecord
<1>4. v \in Pool["relevance"]
  BY ChosenIsPooled, KindsArePooled DEF PingKinds
<1>5. x.op = "relevance" /\ ReadFits(bounds, Facts(kv), x)
  BY <1>2, <1>3, <1>4 DEF ReadFits
<1>6. todo[r] = <<>> /\ Reads(r, x)
  BY <1>1, <1>2, Arriving DEF StartReading
<1>7. QED
  BY <1>5, <1>6, AskKeeps

(* A ping of what was found relevant.                                      *)
LEMMA PingFromRelevanceKeeps ==
  ASSUME IInv, NEW r \in Requests, PingFromRelevance(r)
  PROVE  IInv'
<1>1. /\ HasRead(r, "relevance")
      /\ todo[r] = <<>>
      /\ reading[r].id \in Pool["relevance"] /\ reading[r].to \in Identities
  BY Reading DEF PingFromRelevance, ReadFits
<1>2. PICK v : v = reading[r].id
  OBVIOUS
<1>3. PICK to : to = reading[r].to
  OBVIOUS
<1>4. CASE WillPut(r, <<>>)
  BY <1>1, <1>4, PlanNone
<1>5. ASSUME NEW from \in Identities, NEW p \in Chosen("ping"), NEW status \in PostedPings,
             WillPut(r, RelevancePuts(p, v, NewPing(from, to, status)))
      PROVE  IInv'
  <2>1. PICK u : u = NewPing(from, to, status)
    OBVIOUS
  <2>2. PICK w : w = OfRelevanceOnly(u, v)
    OBVIOUS
  <2>3. p \in Pool["ping"]
    BY ChosenIsPooled, KindsArePooled DEF PingKinds
  <2>4. w.event = None /\ Good(bounds, Facts(kv), Ping(p), w)
    <3>1. v \in Pool["relevance"] /\ to \in Identities
      BY <1>1, <1>2, <1>3
    <3>2. /\ u.throttle = None /\ u.decision = None
          /\ u.route = None /\ u.carrier_route = None /\ u.delivery = None /\ u.event = None
          /\ u \in PingRecord /\ (Untold => u.status \notin Allowed)
      BY <2>1, <3>1, NewPingIs
    <3>3. /\ w.throttle = None /\ w.decision = None
          /\ w.route = None /\ w.carrier_route = None /\ w.delivery = None /\ w.event = None
          /\ w.status = u.status /\ w \in PingRecord
      BY <2>2, <3>1, <3>2, NewPingWith
    <3>4. QED
      BY <3>2, <3>3, NewPingFits
  <2>5. WillPut(r, <<Writes(Ping(p), w), Appends(OfRelevance(v), p)>>)
    BY <1>5, <2>1, <2>2 DEF RelevancePuts, OfRelevanceOnly
  <2>6. Joins(Writes(Ping(p), w))
    BY <2>3, <2>4, PingJoins, PutsAre
  <2>7. PutFits(bounds, Facts(kv), Writes(Ping(p), w))
    BY <2>4, WriteFits
  <2>8. PutFits(bounds, Facts(kv) \union {Writes(Ping(p), w)}, Appends(OfRelevance(v), p))
    BY AppendsFit, IndexKeysAre DEF IndexKinds
  <2>9. Writes(Ping(p), w).key[1] # Appends(OfRelevance(v), p).key[1]
    BY PutsAre, KeysAre, IndexKeysAre
  <2>10. QED
    BY <1>1, <2>5, <2>6, <2>7, <2>8, <2>9, PutsAre, PlanTwo
<1>6. QED
  BY <1>2, <1>3, <1>4, <1>5 DEF PingFromRelevance

(* The copy of the ping is as good as the ping.                            *)
LEMMA ReadToThrottleKeeps ==
  ASSUME IInv, NEW r \in Requests, ReadToThrottle(r)
  PROVE  IInv'
<1>1. PICK p \in Chosen("ping"), ask \in Requested \union {None} :
        /\ Stored(Ping(p))
        /\ StartReading(r, [op |-> "throttle", id |-> p, ask |-> ask, copy |-> kv[Ping(p)]])
  BY DEF ReadToThrottle
<1>2. PICK x : x = [op |-> "throttle", id |-> p, ask |-> ask, copy |-> kv[Ping(p)]]
  OBVIOUS
<1>3. p \in Pool["ping"] /\ ask \in OrNone(ThrottleDecisions)
  BY ChosenIsPooled, KindsArePooled, PipelineAssumption DEF PingKinds, OrNone
<1>4. /\ Copied(bounds, Facts(kv), Ping(p), kv[Ping(p)])
      /\ Names(p, kv[Ping(p)].event)
  BY <1>1, PingIs
<1>5. x.op = "throttle" /\ x.id = p /\ x.copy = kv[Ping(p)] /\ x.ask = ask
  BY <1>2
<1>6. ReadFits(bounds, Facts(kv), x)
  BY <1>3, <1>4, <1>5 DEF ReadFits
<1>7. todo[r] = <<>> /\ Reads(r, x)
  BY <1>1, <1>2, Arriving DEF StartReading
<1>8. QED
  BY <1>4, <1>5, <1>6, <1>7, AskKeeps

(* What each worker puts back in place of a ping.                          *)
ThrottledBy(ping, t, decision) ==
  [ping EXCEPT !.throttle = t, !.decision = decision, !.status = StatusOf(decision)]

RoutedOver(ping, c) == [ping EXCEPT !.route = c, !.status = "routed"]

DeliveredOver(ping, c, d, status) ==
  [ping EXCEPT !.route = c, !.carrier_route = c, !.delivery = d, !.status = status]

(* A ping put back with a throttle and its decision.                       *)
LEMMA ThrottledPing ==
  ASSUME NEW ping \in PingRecord, NEW t \in Pool["ping-throttle"],
         NEW decision \in ThrottleDecisions, NEW v,
         v = ThrottledBy(ping, t, decision)
  PROVE  /\ v \in PingRecord
         /\ v.throttle = t /\ v.decision = decision /\ v.status = StatusOf(decision)
         /\ v.from = ping.from /\ v.to = ping.to /\ v.route = ping.route
         /\ v.delivery = ping.delivery /\ v.event = ping.event
<1>1. StatusOf(decision) \in Allowed \union BlockedStatus
  BY DEF StatusOf, ThrottleDecisions, Allowed, BlockedStatus, Stopping
<1>2. v \in PingRecord
  BY <1>1 DEF ThrottledBy, PingRecord, OrNone
<1>3. QED
  BY <1>2 DEF ThrottledBy, PingRecord

(* A ping put back with its route.                                         *)
LEMMA RoutedPing ==
  ASSUME NEW ping \in PingRecord, NEW c \in Pool["carrier-route"], NEW v,
         v = RoutedOver(ping, c)
  PROVE  /\ v \in PingRecord
         /\ v.route = c /\ v.status = "routed"
         /\ v.from = ping.from /\ v.to = ping.to /\ v.throttle = ping.throttle
         /\ v.decision = ping.decision
         /\ v.delivery = ping.delivery /\ v.event = ping.event
<1>1. v \in PingRecord
  BY DEF RoutedOver, PingRecord, OrNone
<1>2. QED
  BY <1>1 DEF RoutedOver, PingRecord

(* A ping put back with its delivery.                                      *)
LEMMA DeliveredPing ==
  ASSUME NEW ping \in PingRecord, NEW c \in Pool["carrier-route"],
         NEW d \in Pool["ping-delivery"], NEW status \in {"delivered", "delivery_failed"},
         NEW v, v = DeliveredOver(ping, c, d, status)
  PROVE  /\ v \in PingRecord
         /\ v.route = c /\ v.status = status /\ v.delivery = d
         /\ v.from = ping.from /\ v.to = ping.to /\ v.throttle = ping.throttle
         /\ v.decision = ping.decision /\ v.event = ping.event
<1>1. v \in PingRecord
  BY DEF DeliveredOver, PingRecord, OrNone, BlockedStatus
<1>2. QED
  BY <1>1 DEF DeliveredOver, PingRecord

(* A ping put back with an action of who got it.                           *)
LEMMA ActedPing ==
  ASSUME NEW ping \in PingRecord, NEW action \in AckActions, NEW v,
         v = [ping EXCEPT !.status = action]
  PROVE  /\ v \in PingRecord
         /\ v.status = action /\ v.status \notin Allowed
         /\ v.from = ping.from /\ v.to = ping.to /\ v.throttle = ping.throttle
         /\ v.decision = ping.decision /\ v.route = ping.route
         /\ v.delivery = ping.delivery /\ v.event = ping.event
<1>1. v \in PingRecord
  BY DEF PingRecord, OrNone
<1>2. action \notin Allowed
  BY DEF AckActions, Allowed
<1>3. QED
  BY <1>1, <1>2 DEF PingRecord

(* What ping-throttle infers is one of its decisions.                      *)
LEMMA InfersDecision ==
  ASSUME NEW ping, NEW recent
  PROVE  Infers(ping, recent) \in ThrottleDecisions
BY DEF Infers, ThrottleDecisions, Allowed

(* The throttle is put first, and the ping that names it after.            *)
LEMMA ThrottlePingKeeps ==
  ASSUME IInv, NEW r \in Requests, ThrottlePing(r)
  PROVE  IInv'
<1>1. /\ HasRead(r, "throttle")
      /\ todo[r] = <<>>
      /\ reading[r] # None /\ reading[r].op = "throttle"
      /\ ReadFits(bounds, Facts(kv), reading[r])
  BY Reading DEF ThrottlePing
<1>2. PICK ping : ping = reading[r].copy
  OBVIOUS
<1>3. PICK p : p = reading[r].id
  OBVIOUS
<1>4. /\ p \in Pool["ping"] /\ reading[r].ask \in OrNone(ThrottleDecisions)
      /\ Copied(bounds, Facts(kv), Ping(p), ping)
  BY <1>1, <1>2, <1>3 DEF ReadFits
<1>5. ping \in PingRecord /\ PingRests(Facts(kv), p, ping)
  BY <1>4, KeysAre DEF Copied, Good, Shaped, Rests
<1>6. ping.from \in Identities /\ ping.to \in Identities
  BY <1>5 DEF PingRecord
<1>7. PICK t, decision, inferred :
        /\ t \in Minted("ping-throttle")
        /\ inferred = (reading[r].ask = None)
        /\ decision = IF inferred
                      THEN Infers(ping, Cardinality(Listed(ThrottledTo(ping.to))))
                      ELSE reading[r].ask
        /\ WillPut(r, ThrottlePuts(t, p, ping, decision, inferred))
  BY <1>2, <1>3 DEF ThrottlePing
<1>8. decision \in ThrottleDecisions /\ inferred \in BOOLEAN
  BY <1>4, <1>7, InfersDecision DEF OrNone
<1>9. /\ t \in bounds.pool["ping-throttle"] /\ t \in Pool["ping-throttle"] /\ t # None
      /\ Untaken(Throttle(t))
  BY <1>7, KindsArePooled, MintedIsNew DEF PingKinds, Throttle
<1>10. PICK u : u = [ping_id |-> p, from |-> ping.from, to |-> ping.to,
                     decision |-> decision, inferred |-> inferred]
  OBVIOUS
<1>11. PICK v : v = ThrottledBy(ping, t, decision)
  OBVIOUS
<1>12. PICK a : a = Writes(Throttle(t), u)
  OBVIOUS
<1>13. PICK b : b = Writes(Ping(p), v)
  OBVIOUS
<1>14. WillPut(r, <<a, b, Appends(ThrottledTo(ping.to), t)>>)
  BY <1>7, <1>10, <1>11, <1>12, <1>13 DEF ThrottlePuts, ThrottledBy
<1>15. /\ IsWrite(a) /\ a.key = Throttle(t) /\ a.value = u
       /\ IsWrite(b) /\ b.key = Ping(p) /\ b.value = v
  BY <1>12, <1>13, PutsAre
<1>16. u \in ThrottleRecord
  BY <1>4, <1>6, <1>8, <1>10 DEF ThrottleRecord
<1>17. PutFits(bounds, Facts(kv), a)
  <2>1. Good(bounds, Facts(kv), Throttle(t), u)
    BY <1>16, KeysAre DEF Good, Shaped, Rests
  <2>2. QED
    BY <1>12, <2>1, WriteFits
<1>18. /\ v \in PingRecord
       /\ v.throttle = t /\ v.decision = decision /\ v.status = StatusOf(decision)
       /\ v.from = ping.from /\ v.to = ping.to /\ v.route = ping.route
       /\ v.delivery = ping.delivery /\ v.event = ping.event
  BY <1>5, <1>8, <1>9, <1>11, ThrottledPing
<1>19. PingRests(Facts(kv) \union {a}, p, v)
  <2>1. PingRests(Facts(kv) \union {a}, p, ping)
    BY <1>5, MoreFactsGrow, PingRestsLonger
  <2>2. ThrottledAs(Facts(kv) \union {a}, t, p, v)
    BY <1>10, <1>15, <1>18 DEF ThrottledAs
  <2>3. v.status \in Allowed => v.decision = v.status
    BY <1>18 DEF StatusOf, Allowed
  <2>4. QED
    BY <1>9, <1>18, <2>1, <2>2, <2>3 DEF PingRests, MadeByEvent
<1>20. PutFits(bounds, Facts(kv) \union {a}, b)
  <2>1. v.throttle \in OrNone(bounds.pool["ping-throttle"])
    BY <1>9, <1>18 DEF OrNone
  <2>2. Good(bounds, Facts(kv) \union {a}, Ping(p), v)
    BY <1>18, <1>19, <2>1, GoodPing
  <2>3. QED
    BY <1>13, <2>2, WriteFits
<1>21. PutFits(bounds, Facts(kv) \union {a, b}, Appends(ThrottledTo(ping.to), t))
  BY AppendsFit, IndexKeysAre DEF IndexKinds
<1>22. Joins(a)
  BY <1>9, <1>15, KeysAre, NewJoins
<1>23. Joins(b)
  <2>1. Names(p, ping.event)
    BY <1>1, <1>2, <1>3 DEF Names
  <2>2. QED
    BY <1>4, <1>15, <1>18, <2>1, PingJoins
<1>24. a.key[1] = "ping-throttle" /\ b.key[1] = "ping"
       /\ Appends(ThrottledTo(ping.to), t).key[1] = "throttled-to"
       /\ ~IsWrite(Appends(ThrottledTo(ping.to), t))
  BY <1>15, KeysAre, IndexKeysAre, PutsAre
<1>25. QED
  BY <1>1, <1>14, <1>15, <1>17, <1>20, <1>21, <1>22, <1>23, <1>24, PlanThree

(* A ping that may move was let move by the throttle it names.             *)
LEMMA MovableIsLet ==
  ASSUME IInv, NEW p, Stored(Ping(p)), Movable(kv[Ping(p)]), NEW ping, ping = kv[Ping(p)]
  PROVE  /\ GateDecision(ping) \in Allowed
         /\ Untold =>
              /\ ping.throttle \in bounds.pool["ping-throttle"]
              /\ \E f \in Facts(kv) : /\ f.key = Throttle(ping.throttle)
                                      /\ f.value.ping_id = p
                                      /\ f.value.from = ping.from /\ f.value.to = ping.to
                                      /\ f.value.decision \in Allowed
<1>1. /\ ping.throttle \in OrNone(bounds.pool["ping-throttle"])
      /\ PingRests(Facts(kv), p, ping)
  BY PingIs
<1>2. \/ ping.decision \in Allowed \/ ping.status \in Allowed
      \/ /\ ping.throttle # None /\ Stored(Throttle(ping.throttle))
         /\ kv[Throttle(ping.throttle)].decision \in Allowed
  BY DEF Movable
<1>3. GateDecision(ping) \in Allowed
  BY <1>2 DEF GateDecision
<1>4. ASSUME Untold
      PROVE  /\ ping.throttle \in bounds.pool["ping-throttle"]
             /\ \E f \in Facts(kv) : /\ f.key = Throttle(ping.throttle)
                                     /\ f.value.ping_id = p
                                     /\ f.value.from = ping.from /\ f.value.to = ping.to
                                     /\ f.value.decision \in Allowed
  <2>1. None \notin Allowed
    BY PipelineAssumption DEF ThrottleDecisions
  <2>2. ping.throttle # None
    BY <1>1, <1>2, <1>4, <2>1 DEF PingRests
  <2>3. ping.throttle \in bounds.pool["ping-throttle"]
    BY <1>1, <2>2 DEF OrNone
  <2>4. PICK f \in Facts(kv) : /\ f.key = Throttle(ping.throttle)
                               /\ f.value.ping_id = p
                               /\ f.value.from = ping.from /\ f.value.to = ping.to
                               /\ f.value.decision = ping.decision
    BY <1>1, <2>2 DEF PingRests, ThrottledAs
  <2>5. f.value = kv[Throttle(ping.throttle)]
    BY <2>4, FactsAre
  <2>6. f.value.decision \in Allowed
    BY <1>1, <1>2, <1>4, <2>4, <2>5 DEF PingRests
  <2>7. QED
    BY <2>3, <2>4, <2>6
<1>5. QED
  BY <1>3, <1>4

(* The route is put first; it rests on the throttle of the copy.           *)
LEMMA RoutePingKeeps ==
  ASSUME IInv, NEW r \in Requests, RoutePing(r)
  PROVE  IInv'
<1>1. PICK p \in Chosen("ping"), c \in Chosen("carrier-route") :
        /\ Stored(Ping(p))
        /\ Movable(kv[Ping(p)])
        /\ Goes(r, RoutePuts(c, p, kv[Ping(p)]))
  BY DEF RoutePing
<1>2. PICK ping : ping = kv[Ping(p)]
  OBVIOUS
<1>3. /\ ping \in PingRecord
      /\ ping.throttle \in OrNone(bounds.pool["ping-throttle"])
      /\ PingRests(Facts(kv), p, ping)
      /\ Names(p, ping.event)
  BY <1>1, <1>2, PingIs
<1>4. p \in Pool["ping"] /\ c \in Pool["carrier-route"] /\ c # None
  BY ChosenIsPooled, KindsArePooled DEF PingKinds
<1>5. /\ GateDecision(ping) \in Allowed
      /\ Untold =>
           /\ ping.throttle \in bounds.pool["ping-throttle"]
           /\ \E f \in Facts(kv) : /\ f.key = Throttle(ping.throttle)
                                   /\ f.value.ping_id = p
                                   /\ f.value.from = ping.from /\ f.value.to = ping.to
                                   /\ f.value.decision \in Allowed
  BY <1>1, <1>2, MovableIsLet
<1>6. PICK u : u = [ping_id |-> p, from |-> ping.from, to |-> ping.to,
                    throttle |-> ping.throttle, decision |-> GateDecision(ping)]
  OBVIOUS
<1>7. PICK v : v = RoutedOver(ping, c)
  OBVIOUS
<1>8. PICK a : a = Writes(Route(c), u)
  OBVIOUS
<1>9. PICK b : b = Writes(Ping(p), v)
  OBVIOUS
<1>10. todo[r] = <<>> /\ WillPut(r, <<a, b>>)
  BY <1>1, <1>2, <1>6, <1>7, <1>8, <1>9, Arriving DEF Goes, RoutePuts, RoutedOver
<1>11. /\ IsWrite(a) /\ a.key = Route(c) /\ a.value = u
       /\ IsWrite(b) /\ b.key = Ping(p) /\ b.value = v
  BY <1>8, <1>9, PutsAre
<1>12. u \in Routed
  <2>1. ping.from \in Identities /\ ping.to \in Identities
        /\ ping.throttle \in OrNone(Pool["ping-throttle"])
    BY <1>3 DEF PingRecord
  <2>2. QED
    BY <1>4, <1>5, <1>6, <2>1 DEF Routed
<1>13. PutFits(bounds, Facts(kv), a)
  <2>1. RouteRests(Facts(kv), u) /\ (Untold => u.throttle \in bounds.pool["ping-throttle"])
    BY <1>5, <1>6 DEF RouteRests
  <2>2. Good(bounds, Facts(kv), Route(c), u)
    BY <1>12, <2>1, KeysAre DEF Good, Shaped, Rests
  <2>3. QED
    BY <1>8, <2>2, WriteFits
<1>14. /\ v \in PingRecord
       /\ v.route = c /\ v.status = "routed"
       /\ v.from = ping.from /\ v.to = ping.to /\ v.throttle = ping.throttle
       /\ v.decision = ping.decision
       /\ v.delivery = ping.delivery /\ v.event = ping.event
  BY <1>3, <1>4, <1>7, RoutedPing
<1>15. PutFits(bounds, Facts(kv) \union {a}, b)
  <2>1. PingRests(Facts(kv) \union {a}, p, ping)
    BY <1>3, MoreFactsGrow, PingRestsLonger
  <2>2. Has(Facts(kv) \union {a}, Route(c))
    BY <1>11 DEF Has
  <2>3. v.status \notin Allowed
    BY <1>14 DEF Allowed
  <2>4. PingRests(Facts(kv) \union {a}, p, v)
    BY <1>14, <2>1, <2>2, <2>3 DEF PingRests, MadeByEvent, ThrottledAs
  <2>5. Good(bounds, Facts(kv) \union {a}, Ping(p), v)
    BY <1>3, <1>14, <2>4, GoodPing
  <2>6. QED
    BY <1>9, <2>5, WriteFits
<1>16. a.key[1] = "carrier-route" /\ b.key[1] = "ping"
  BY <1>11, KeysAre
<1>17. Joins(a)
  BY <1>16, PlainJoins DEF FreeKinds
<1>18. Joins(b)
  BY <1>3, <1>4, <1>11, <1>14, PingJoins
<1>19. QED
  BY <1>10, <1>11, <1>13, <1>15, <1>16, <1>17, <1>18, PlanTwo

(* A ping to deliver names the route that is asked for.                    *)
LEMMA ReadToDeliverKeeps ==
  ASSUME IInv, NEW r \in Requests, ReadToDeliver(r)
  PROVE  IInv'
<1>1. PICK p \in Chosen("ping"), c \in Chosen("carrier-route") \union {None} :
        /\ Stored(Ping(p))
        /\ c # None \/ Named(kv[Ping(p)]) # None
        /\ StartReading(r, [op |-> "deliver", id |-> p, copy |-> kv[Ping(p)],
                            ask |-> IF c # None THEN c ELSE Named(kv[Ping(p)])])
  BY DEF ReadToDeliver
<1>2. PICK ping : ping = kv[Ping(p)]
  OBVIOUS
<1>3. /\ ping \in PingRecord
      /\ Copied(bounds, Facts(kv), Ping(p), ping)
      /\ Names(p, ping.event)
  BY <1>1, <1>2, PingIs
<1>4. PICK ask : ask = IF c # None THEN c ELSE Named(ping)
  OBVIOUS
<1>5. p \in Pool["ping"] /\ ask \in Pool["carrier-route"]
  <2>1. p \in Pool["ping"] /\ (c # None => c \in Pool["carrier-route"])
    BY ChosenIsPooled, KindsArePooled DEF PingKinds
  <2>2. Named(ping) # None => Named(ping) \in Pool["carrier-route"]
    BY <1>3 DEF Named, PingRecord, OrNone
  <2>3. QED
    BY <1>1, <1>2, <1>4, <2>1, <2>2
<1>6. PICK x : x = [op |-> "deliver", id |-> p, copy |-> ping, ask |-> ask]
  OBVIOUS
<1>7. x.op = "deliver" /\ x.id = p /\ x.copy = ping /\ x.ask = ask
  BY <1>6
<1>8. ReadFits(bounds, Facts(kv), x)
  BY <1>3, <1>5, <1>7 DEF ReadFits
<1>9. todo[r] = <<>> /\ Reads(r, x)
  BY <1>1, <1>2, <1>4, <1>6, Arriving DEF StartReading
<1>10. QED
  BY <1>3, <1>7, <1>8, <1>9, AskKeeps

(* The delivery is put first; a throttle let its ping move.                *)
LEMMA DeliverPingKeeps ==
  ASSUME IInv, NEW r \in Requests, DeliverPing(r)
  PROVE  IInv'
<1>1. /\ HasRead(r, "deliver")
      /\ todo[r] = <<>>
      /\ reading[r] # None /\ reading[r].op = "deliver"
      /\ ReadFits(bounds, Facts(kv), reading[r])
  BY Reading DEF DeliverPing
<1>2. PICK ping : ping = reading[r].copy
  OBVIOUS
<1>3. PICK p : p = reading[r].id
  OBVIOUS
<1>4. PICK c : c = reading[r].ask
  OBVIOUS
<1>5. /\ p \in Pool["ping"] /\ c \in Pool["carrier-route"]
      /\ Copied(bounds, Facts(kv), Ping(p), ping)
      /\ Names(p, ping.event)
  BY <1>1, <1>2, <1>3, <1>4 DEF ReadFits, Names
<1>6. /\ ping \in PingRecord /\ PingRests(Facts(kv), p, ping)
      /\ ping.throttle \in OrNone(bounds.pool["ping-throttle"])
  BY <1>5, KeysAre DEF Copied, Good, Shaped, Rests
<1>7. CASE WillPut(r, <<>>)
  BY <1>1, <1>7, PlanNone
<1>8. ASSUME Stored(Route(c)), NEW route, route = kv[Route(c)],
             Deliverable(p, ping, c, route),
             NEW d \in Chosen("ping-delivery"), NEW ok \in BOOLEAN,
             WillPut(r, DeliveryPuts(d, p, ping, c, route, ok))
      PROVE  IInv'
  <2>1. /\ route \in Routed /\ RouteRests(Facts(kv), route)
        /\ Untold => route.throttle \in bounds.pool["ping-throttle"]
        /\ Has(Facts(kv), Route(c))
    BY <1>8, StoredFits, KeysAre DEF Good, Shaped, Rests
  <2>2. route.ping_id = p /\ route.from = ping.from /\ route.to = ping.to
    BY <1>8 DEF Deliverable
  <2>3. /\ route.throttle \in OrNone(Pool["ping-throttle"])
        /\ route.decision \in Allowed
        /\ route.decision \in ThrottleDecisions /\ route.decision # None
    BY <2>1, PipelineAssumption DEF Routed, ThrottleDecisions
  <2>4. /\ ping.from \in Identities /\ ping.to \in Identities
        /\ ping.throttle \in OrNone(Pool["ping-throttle"])
        /\ ping.decision \in OrNone(ThrottleDecisions)
    BY <1>6 DEF PingRecord
  <2>5. PICK t : t = IF ping.throttle # None THEN ping.throttle ELSE route.throttle
    OBVIOUS
  <2>6. PICK e : e = IF ping.decision # None THEN ping.decision ELSE route.decision
    OBVIOUS
  <2>7. PICK u : u = [ping_id |-> p, carrier_route |-> c, from |-> ping.from,
                      to |-> ping.to, throttle |-> t, decision |-> e]
    OBVIOUS
  <2>8. PICK status : status = IF ok THEN "delivered" ELSE "delivery_failed"
    OBVIOUS
  <2>9. PICK v : v = DeliveredOver(ping, c, d, status)
    OBVIOUS
  <2>10. PICK a : a = Writes(Delivery(d), u)
    OBVIOUS
  <2>11. PICK b : b = Writes(Ping(p), v)
    OBVIOUS
  <2>12. WillPut(r, <<a, b>>)
    BY <1>8, <2>5, <2>6, <2>7, <2>8, <2>9, <2>10, <2>11 DEF DeliveryPuts, DeliveredOver
  <2>13. /\ IsWrite(a) /\ a.key = Delivery(d) /\ a.value = u
         /\ IsWrite(b) /\ b.key = Ping(p) /\ b.value = v
    BY <2>10, <2>11, PutsAre
  <2>14. u \in Delivered
    BY <1>5, <2>3, <2>4, <2>5, <2>6, <2>7 DEF Delivered, OrNone
  <2>15. ASSUME Untold
         PROVE  /\ u.throttle # None /\ u.decision # None
                /\ LetMove(Facts(kv), bounds, u.ping_id, u)
    <3>1. route.throttle \in bounds.pool["ping-throttle"] /\ route.throttle # None
      BY <2>1, <2>15, ScenesFit, KindsArePooled DEF PingKinds
    <3>2. PICK f \in Facts(kv) : /\ f.key = Throttle(route.throttle)
                                 /\ f.value.ping_id = route.ping_id
                                 /\ f.value.from = route.from /\ f.value.to = route.to
                                 /\ f.value.decision \in Allowed
      BY <2>1, <2>15 DEF RouteRests
    <3>3. u.ping_id = p /\ u.from = ping.from /\ u.to = ping.to
          /\ u.throttle = t /\ u.decision = e
      BY <2>7
    <3>4. LetMove(Facts(kv), bounds, u.ping_id, u)
      BY <2>2, <3>1, <3>2, <3>3 DEF LetMove
    <3>5. QED
      BY <2>3, <2>5, <2>6, <3>1, <3>3, <3>4
  <2>16. PutFits(bounds, Facts(kv), a)
    <3>1. Good(bounds, Facts(kv), Delivery(d), u)
      BY <2>14, <2>15, KeysAre DEF Good, Shaped, Rests
    <3>2. QED
      BY <2>10, <3>1, WriteFits
  <2>17. d \in Pool["ping-delivery"] /\ d # None /\ c # None
    BY <1>5, ChosenIsPooled, KindsArePooled DEF PingKinds
  <2>18. /\ v \in PingRecord
         /\ v.route = c /\ v.status = status /\ v.delivery = d
         /\ v.from = ping.from /\ v.to = ping.to /\ v.throttle = ping.throttle
         /\ v.decision = ping.decision /\ v.event = ping.event
    BY <1>5, <1>6, <2>8, <2>9, <2>17, DeliveredPing
  <2>19. PutFits(bounds, Facts(kv) \union {a}, b)
    <3>1. PingRests(Facts(kv) \union {a}, p, ping)
      BY <1>6, MoreFactsGrow, PingRestsLonger
    <3>2. Has(Facts(kv) \union {a}, Route(c)) /\ Has(Facts(kv) \union {a}, Delivery(d))
      BY <2>1, <2>13 DEF Has
    <3>3. v.status \notin Allowed
      BY <2>8, <2>18 DEF Allowed
    <3>4. PingRests(Facts(kv) \union {a}, p, v)
      BY <2>18, <3>1, <3>2, <3>3 DEF PingRests, MadeByEvent, ThrottledAs
    <3>5. Good(bounds, Facts(kv) \union {a}, Ping(p), v)
      BY <1>6, <2>18, <3>4, GoodPing
    <3>6. QED
      BY <2>11, <3>5, WriteFits
  <2>20. a.key[1] = "ping-delivery" /\ b.key[1] = "ping"
    BY <2>13, KeysAre
  <2>21. Joins(a)
    BY <2>20, PlainJoins DEF FreeKinds
  <2>22. Joins(b)
    BY <1>5, <2>13, <2>18, PingJoins
  <2>23. QED
    BY <1>1, <2>12, <2>13, <2>16, <2>19, <2>20, <2>21, <2>22, PlanTwo
<1>9. QED
  BY <1>2, <1>3, <1>4, <1>7, <1>8 DEF DeliverPing

(* Who got a ping acts on it, and no more.                                 *)
LEMMA AckPingKeeps ==
  ASSUME IInv, NEW r \in Requests, AckPing(r)
  PROVE  IInv'
<1>1. PICK p \in Chosen("ping"), action \in Acted :
        /\ Stored(Ping(p))
        /\ Goes(r, <<Writes(Ping(p), [kv[Ping(p)] EXCEPT !.status = action])>>)
  BY DEF AckPing
<1>2. PICK ping : ping = kv[Ping(p)]
  OBVIOUS
<1>3. /\ ping \in PingRecord
      /\ ping.throttle \in OrNone(bounds.pool["ping-throttle"])
      /\ PingRests(Facts(kv), p, ping)
      /\ Names(p, ping.event)
  BY <1>1, <1>2, PingIs
<1>4. PICK v : v = [ping EXCEPT !.status = action]
  OBVIOUS
<1>5. p \in Pool["ping"] /\ action \in AckActions
  BY ChosenIsPooled, KindsArePooled, PipelineAssumption DEF PingKinds
<1>6. todo[r] = <<>> /\ WillPut(r, <<Writes(Ping(p), v)>>)
  BY <1>1, <1>2, <1>4, Arriving DEF Goes
<1>7. /\ v \in PingRecord
      /\ v.status = action /\ v.status \notin Allowed
      /\ v.from = ping.from /\ v.to = ping.to /\ v.throttle = ping.throttle
      /\ v.decision = ping.decision /\ v.route = ping.route
      /\ v.delivery = ping.delivery /\ v.event = ping.event
  BY <1>3, <1>4, <1>5, ActedPing
<1>8. PingRests(Facts(kv), p, v)
  BY <1>3, <1>7 DEF PingRests, MadeByEvent, ThrottledAs
<1>9. PutFits(bounds, Facts(kv), Writes(Ping(p), v))
  BY <1>3, <1>7, <1>8, GoodPing, WriteFits
<1>10. Joins(Writes(Ping(p), v))
  BY <1>3, <1>5, <1>7, PutsAre, PingJoins
<1>11. QED
  BY <1>6, <1>9, <1>10, PlanOne

(* Each of the ping workers keeps IInv.                                    *)
LEMMA PingStepKeeps ==
  ASSUME IInv, NEW r \in Requests, PingStep(r)
  PROVE  IInv'
BY CreatePingKeeps, ReadRelevanceKeeps, PingFromRelevanceKeeps, ReadToThrottleKeeps,
   ThrottlePingKeeps, RoutePingKeeps, ReadToDeliverKeeps, DeliverPingKeeps, AckPingKeeps
DEF PingStep

-----------------------------------------------------------------------------
(* Fields.                                                                 *)

(* What a field under its keys has to be.                                  *)
LEMMA FieldFits ==
  ASSUME NEW b, NEW F, NEW v, IsField(v)
  PROVE  /\ \A f : Good(b, F, Field(f), v)
         /\ Good(b, F, CurrentField(v.identity), v)
BY KeysAre DEF Good, Shaped, Rests

(* A field is put under both its keys.                                     *)
LEMMA PostFieldKeeps ==
  ASSUME IInv, NEW r \in Requests, PostField(r)
  PROVE  IInv'
<1>1. PICK by \in Chosen("current-field"), f \in Chosen("field"), active \in BOOLEAN :
        Goes(r, FieldPuts(f, by, active))
  BY DEF PostField
<1>2. PICK v : v = [id |-> f, identity |-> by, active |-> active]
  OBVIOUS
<1>3. IsField(v) /\ v.identity = by
  BY <1>2, ChosenIsPooled, KindsArePooled DEF FieldKinds, IsField
<1>4. PICK a : a = Writes(CurrentField(by), v)
  OBVIOUS
<1>5. PICK b : b = Writes(Field(f), v)
  OBVIOUS
<1>6. todo[r] = <<>> /\ WillPut(r, <<a, b>>)
  BY <1>1, <1>2, <1>4, <1>5, Arriving DEF Goes, FieldPuts
<1>7. PutFits(bounds, Facts(kv), a) /\ PutFits(bounds, Facts(kv) \union {a}, b)
  BY <1>3, <1>4, <1>5, FieldFits, WriteFits
<1>8. /\ IsWrite(a) /\ a.key[1] = "current-field"
      /\ IsWrite(b) /\ b.key[1] = "field"
  BY <1>4, <1>5, PutsAre, KeysAre
<1>9. Joins(a) /\ Joins(b)
  BY <1>8, PlainJoins DEF FreeKinds
<1>10. QED
  BY <1>6, <1>7, <1>8, <1>9, PlanTwo

(* The field that is read is one.                                          *)
LEMMA ReadToCloseKeeps ==
  ASSUME IInv, NEW r \in Requests, ReadToClose(r)
  PROVE  IInv'
<1>1. PICK by \in Chosen("current-field") : \E k \in OpenFields(by) :
        StartReading(r, [op |-> "close", field |-> kv[k]])
  BY DEF ReadToClose
<1>2. PICK k \in OpenFields(by) : StartReading(r, [op |-> "close", field |-> kv[k]])
  BY <1>1
<1>3. Stored(k) /\ k[1] \in {"field", "current-field"}
  BY KeysAre DEF OpenFields
<1>4. IsField(kv[k])
  BY <1>3, StoredFits DEF Good, Shaped
<1>5. PICK x : x = [op |-> "close", field |-> kv[k]]
  OBVIOUS
<1>6. x.op = "close" /\ x.field = kv[k]
  BY <1>5
<1>7. ReadFits(bounds, Facts(kv), x)
  BY <1>4, <1>6 DEF ReadFits
<1>8. todo[r] = <<>> /\ Reads(r, x)
  BY <1>2, <1>5, Arriving DEF StartReading
<1>9. QED
  BY <1>6, <1>7, <1>8, AskKeeps

(* A field that is closed is put, and its other copy refreshed.            *)
LEMMA CloseFieldKeeps ==
  ASSUME IInv, NEW r \in Requests, CloseField(r)
  PROVE  IInv'
<1>1. /\ todo[r] = <<>>
      /\ reading[r].op = "close"
      /\ ReadFits(bounds, Facts(kv), reading[r])
  BY Reading DEF CloseField
<1>2. PICK field : field = reading[r].field
  OBVIOUS
<1>3. IsField(field)
  BY <1>1, <1>2 DEF ReadFits
<1>4. PICK v : v = [field EXCEPT !.active = FALSE]
  OBVIOUS
<1>5. IsField(v) /\ v.identity = field.identity
  BY <1>3, <1>4 DEF IsField
<1>6. PICK a : a = Writes(Field(field.id), v)
  OBVIOUS
<1>7. PICK b : b = Refreshes(CurrentField(field.identity), v)
  OBVIOUS
<1>8. WillPut(r, <<a, b>>)
  BY <1>2, <1>4, <1>6, <1>7 DEF CloseField, ClosePuts
<1>9. /\ IsWrite(a) /\ a.key[1] = "field"
      /\ ~IsWrite(b) /\ DOMAIN b = {"key", "refresh"} /\ b.key[1] = "current-field"
      /\ b.key = CurrentField(v.identity) /\ b.refresh = v
  BY <1>5, <1>6, <1>7, PutsAre, KeysAre
<1>10. PutFits(bounds, Facts(kv), a)
  BY <1>5, <1>6, FieldFits, WriteFits
<1>11. PutFits(bounds, Facts(kv) \union {a}, b)
  <2>1. Good(bounds, Facts(kv) \union {a}, b.key, b.refresh)
    BY <1>5, <1>9, FieldFits
  <2>2. QED
    BY <1>9, <2>1 DEF PutFits
<1>12. Joins(a)
  BY <1>9, PlainJoins DEF FreeKinds
<1>13. QED
  BY <1>1, <1>8, <1>9, <1>10, <1>11, <1>12, PlanTwo

(* An intent is put, and listed for who has it.                            *)
LEMMA RememberIntentKeeps ==
  ASSUME IInv, NEW r \in Requests, RememberIntent(r)
  PROVE  IInv'
<1>1. PICK by, n, v :
        /\ by \in Chosen("current-field") /\ n \in Chosen("intent")
        /\ Goes(r, <<Writes(Intent(n), v), Appends(IntentsOf(by), n)>>)
  BY DEF RememberIntent
<1>2. PICK a : a = Writes(Intent(n), v)
  OBVIOUS
<1>3. PICK b : b = Appends(IntentsOf(by), n)
  OBVIOUS
<1>4. todo[r] = <<>> /\ WillPut(r, <<a, b>>)
  BY <1>1, <1>2, <1>3, Arriving DEF Goes
<1>5. n \in Pool["intent"]
  BY <1>1, ChosenIsPooled, KindsArePooled DEF FieldKinds
<1>6. /\ IsWrite(a) /\ a.key[1] = "intent"
      /\ ~IsWrite(b) /\ b.key[1] = "intents-of"
  BY <1>2, <1>3, PutsAre, KeysAre, IndexKeysAre
<1>7. PutFits(bounds, Facts(kv), a)
  <2>1. Good(bounds, Facts(kv), Intent(n), v)
    BY KeysAre DEF Good, Shaped, Rests
  <2>2. QED
    BY <1>2, <2>1, WriteFits
<1>8. PutFits(bounds, Facts(kv) \union {a}, b)
  BY <1>3, <1>5, AppendsFit, IndexKeysAre DEF IndexKinds
<1>9. Joins(a)
  BY <1>6, PlainJoins DEF FreeKinds
<1>10. QED
  BY <1>4, <1>6, <1>7, <1>8, <1>9, PlanTwo

(* What the list of intents names is in the pool.                          *)
LEMMA IntentsListed ==
  ASSUME IInv, NEW i
  PROVE  Listed(IntentsOf(i)) \subseteq Pool["intent"]
BY StoredFits, IndexKeysAre DEF Listed, Good, Shaped

(* Who enters a field is not who owns it.                                  *)
LEMMA ReadIntentIndexKeeps ==
  ASSUME IInv, NEW r \in Requests, ReadIntentIndex(r)
  PROVE  IInv'
<1>1. PICK at \in Chosen("current-field"), owner \in Identities, title \in Phrases :
        /\ owner # at
        /\ StartReading(r, [op |-> "enter", at |-> at, owner |-> owner, title |-> title,
                            left |-> Listed(IntentsOf(at)), found |-> {}])
  BY DEF ReadIntentIndex
<1>2. PICK x : x = [op |-> "enter", at |-> at, owner |-> owner, title |-> title,
                    left |-> Listed(IntentsOf(at)), found |-> {}]
  OBVIOUS
<1>3. at \in Identities
  BY ChosenIsPooled, KindsArePooled, FieldAssumption DEF FieldKinds
<1>4. /\ x.op = "enter" /\ x.at = at /\ x.owner = owner
      /\ x.left = Listed(IntentsOf(at)) /\ x.found = {}
      /\ {"op", "at", "owner", "left", "found"} \subseteq DOMAIN x
  BY <1>2
<1>5. x.left \subseteq Pool["intent"]
  BY <1>4, IntentsListed
<1>6. ReadFits(bounds, Facts(kv), x)
  BY <1>1, <1>3, <1>4, <1>5 DEF ReadFits
<1>7. todo[r] = <<>> /\ Reads(r, x)
  BY <1>1, <1>2, Arriving DEF StartReading
<1>8. QED
  BY <1>4, <1>6, <1>7, AskKeeps

(* An intent that was read is on record.                                   *)
LEMMA ReadIntentToEnterKeeps ==
  ASSUME IInv, NEW r \in Requests, ReadIntentToEnter(r)
  PROVE  IInv'
<1>1. /\ todo[r] = <<>>
      /\ reading[r].op = "enter"
      /\ ReadFits(bounds, Facts(kv), reading[r])
  BY Reading DEF ReadIntentToEnter, ReadIntents
<1>2. PICK y : y = reading[r]
  OBVIOUS
<1>3. PICK n \in y.left :
        Reads(r, [y EXCEPT !.left = y.left \ {n},
                           !.found = IF Suits(n, y.title) THEN y.found \union {n} ELSE y.found])
  BY <1>2 DEF ReadIntentToEnter, ReadIntents
<1>4. PICK found : found = IF Suits(n, y.title) THEN y.found \union {n} ELSE y.found
  OBVIOUS
<1>5. PICK x : x = [y EXCEPT !.left = y.left \ {n}, !.found = found]
  OBVIOUS
<1>6. Reads(r, x)
  BY <1>3, <1>4, <1>5
<1>7. /\ y.op = "enter"
      /\ {"op", "at", "owner", "left", "found"} \subseteq DOMAIN y
      /\ y.at \in Identities /\ y.owner \in Identities /\ y.owner # y.at
      /\ y.left \subseteq Pool["intent"] /\ y.found \subseteq Pool["intent"]
      /\ \A m \in y.found : Has(Facts(kv), Intent(m))
  BY <1>1, <1>2 DEF ReadFits
<1>8. /\ DOMAIN x = DOMAIN y
      /\ x.op = "enter" /\ x.at = y.at /\ x.owner = y.owner
      /\ x.left = y.left \ {n} /\ x.found = found
  BY <1>5, <1>7
<1>9. found \subseteq Pool["intent"] /\ \A m \in found : Has(Facts(kv), Intent(m))
  BY <1>4, <1>7, StoredFits DEF Suits
<1>10. ReadFits(bounds, Facts(kv), x)
  BY <1>7, <1>8, <1>9 DEF ReadFits
<1>11. QED
  BY <1>1, <1>6, <1>8, <1>10, AskKeeps

(* Whatever names an event, the event is stored or about to be.            *)
LEMMA NamedIsTaken ==
  ASSUME IInv, NEW q \in Pool["ping"], NEW x \in Pool["proximity"], Names(q, x)
  PROVE  ~Untaken(Proximity(x))
<1>1. x # None
  BY KindsArePooled DEF FieldKinds
<1>2. ASSUME NEW F, NEW v, v.event = x, PingRests(F, q, v)
      PROVE  \E f \in F : f.key = Proximity(x)
  BY <1>1, <1>2 DEF PingRests, MadeByEvent
<1>3. CASE Stored(Ping(q)) /\ kv[Ping(q)].event = x
  <2>1. PICK f \in Facts(kv) : f.key = Proximity(x)
    BY <1>2, <1>3, PingIs
  <2>2. QED
    BY <2>1, FactsAre DEF Untaken, Stored
<1>4. ASSUME NEW r \in Requests, reading[r] # None,
             reading[r].op \in {"throttle", "deliver"},
             reading[r].id = q, reading[r].copy.event = x
      PROVE  ~Untaken(Proximity(x))
  <2>1. Copied(bounds, Facts(kv), Ping(q), reading[r].copy)
    BY <1>4 DEF IInv, RequestFits, ReadFits
  <2>2. PingRests(Facts(kv), q, reading[r].copy)
    BY <2>1, KeysAre DEF Copied, Good, Rests
  <2>3. PICK f \in Facts(kv) : f.key = Proximity(x)
    BY <1>2, <1>4, <2>2
  <2>4. QED
    BY <2>3, FactsAre DEF Untaken, Stored
<1>5. ASSUME NEW r \in Requests, NEW n \in DOMAIN todo[r], IsWrite(todo[r][n]),
             todo[r][n].key = Ping(q), todo[r][n].value.event = x
      PROVE  ~Untaken(Proximity(x))
  <2>1. PutFits(bounds, By(kv, todo[r], n), todo[r][n]) /\ IsSeq(todo[r])
    BY DEF IInv, RequestFits, ListFits
  <2>2. PingRests(By(kv, todo[r], n), q, todo[r][n].value)
    BY <1>5, <2>1, KeysAre DEF PutFits, IsWrite, Good, Rests
  <2>3. PICK f \in By(kv, todo[r], n) : f.key = Proximity(x)
    BY <1>2, <1>5, <2>2
  <2>4. CASE f \in Facts(kv)
    BY <2>3, <2>4, FactsAre DEF Untaken, Stored
  <2>5. CASE f \in Ahead(todo[r], n)
    <3>1. PICK m \in 1..(n - 1) : f = todo[r][m]
      BY <2>5 DEF Ahead
    <3>2. PICK S : todo[r] \in Seq(S)
      BY <2>1 DEF IsSeq
    <3>3. DOMAIN todo[r] = 1..Len(todo[r]) /\ Len(todo[r]) \in Nat
      BY <3>2, LenProperties
    <3>4. m \in DOMAIN todo[r]
      BY <3>3
    <3>5. QED
      BY <2>3, <3>1, <3>4 DEF Untaken
  <2>6. QED
    BY <2>4, <2>5 DEF By
<1>6. QED
  BY <1>3, <1>4, <1>5 DEF Names

(* An event rests on an intent that was found; its ping, which no other
   comes of, on the event.                                                 *)
LEMMA EnterFieldKeeps ==
  ASSUME IInv, NEW r \in Requests, EnterField(r)
  PROVE  IInv'
<1>1. /\ todo[r] = <<>>
      /\ reading[r].op = "enter"
      /\ ReadFits(bounds, Facts(kv), reading[r])
  BY Reading DEF EnterField
<1>2. PICK y : y = reading[r]
  OBVIOUS
<1>3. /\ y.at \in Identities /\ y.owner \in Identities /\ y.owner # y.at
      /\ y.found \subseteq Pool["intent"]
      /\ \A m \in y.found : Has(Facts(kv), Intent(m))
  BY <1>1, <1>2 DEF ReadFits
<1>4. PICK x \in Minted("proximity") :
        \/ WillPut(r, <<Writes(Proximity(x), NewEvent(y.at, y.owner, None))>>)
        \/ \E n \in y.found, p \in Minted("ping") :
             WillPut(r, EnterPuts(x, p, y.at, y.owner, n))
  BY <1>2 DEF EnterField
<1>5. x \in Pool["proximity"] /\ x # None /\ Untaken(Proximity(x))
  BY KindsArePooled, MintedIsNew DEF FieldKinds, Proximity
<1>6. ASSUME NEW n \in y.found \union {None}, NEW v, v = NewEvent(y.at, y.owner, n),
             NEW a, a = Writes(Proximity(x), v)
      PROVE  /\ IsWrite(a) /\ a.key = Proximity(x) /\ a.key[1] = "proximity" /\ a.value = v
             /\ v.at = y.at /\ v.owner = y.owner /\ v.intent = n
             /\ PutFits(bounds, Facts(kv), a)
             /\ Joins(a)
  <2>1. v.at = y.at /\ v.owner = y.owner /\ v.intent = n /\ v.exit = None
    BY <1>6 DEF NewEvent
  <2>2. v \in EventRecord
    BY <1>3, <1>6 DEF NewEvent, EventRecord, OrNone
  <2>3. EventRests(Facts(kv), x, v)
    BY <1>3, <2>1 DEF EventRests
  <2>4. Good(bounds, Facts(kv), Proximity(x), v)
    BY <2>2, <2>3, KeysAre DEF Good, Shaped, Rests
  <2>5. IsWrite(a) /\ a.key = Proximity(x) /\ a.key[1] = "proximity" /\ a.value = v
    BY <1>6, PutsAre, KeysAre
  <2>6. Joins(a)
    BY <1>5, <2>5, NewJoins
  <2>7. QED
    BY <1>6, <2>1, <2>4, <2>5, <2>6, WriteFits
<1>7. CASE WillPut(r, <<Writes(Proximity(x), NewEvent(y.at, y.owner, None))>>)
  <2>1. PICK v : v = NewEvent(y.at, y.owner, None)
    OBVIOUS
  <2>2. PICK a : a = Writes(Proximity(x), v)
    OBVIOUS
  <2>3. PutFits(bounds, Facts(kv), a) /\ Joins(a)
    BY <1>6, <2>1, <2>2
  <2>4. WillPut(r, <<a>>)
    BY <1>7, <2>1, <2>2
  <2>5. QED
    BY <1>1, <2>3, <2>4, PlanOne
<1>8. ASSUME NEW n \in y.found, NEW p \in Minted("ping"),
             WillPut(r, EnterPuts(x, p, y.at, y.owner, n))
      PROVE  IInv'
  <2>1. PICK v : v = NewEvent(y.at, y.owner, n)
    OBVIOUS
  <2>2. PICK a : a = Writes(Proximity(x), v)
    OBVIOUS
  <2>3. /\ IsWrite(a) /\ a.key = Proximity(x) /\ a.key[1] = "proximity" /\ a.value = v
        /\ v.at = y.at /\ v.owner = y.owner /\ v.intent = n
        /\ PutFits(bounds, Facts(kv), a)
        /\ Joins(a)
    BY <1>6, <2>1, <2>2
  <2>4. PICK u : u = NewPing(y.at, y.owner, "queued")
    OBVIOUS
  <2>5. PICK w : w = OfEventOnly(u, x)
    OBVIOUS
  <2>6. /\ u.from = y.at /\ u.to = y.owner /\ u.status = "queued"
        /\ u.throttle = None /\ u.decision = None
        /\ u.route = None /\ u.delivery = None
        /\ u \in PingRecord /\ (Untold => u.status \notin Allowed)
    BY <1>3, <2>4, NewPingIs
  <2>7. /\ w.from = y.at /\ w.to = y.owner /\ w.status = u.status
        /\ w.throttle = None /\ w.decision = None
        /\ w.route = None /\ w.delivery = None /\ w.event = x
        /\ w \in PingRecord
    BY <1>5, <2>5, <2>6, NewPingWith
  <2>8. PICK b : b = Writes(Ping(p), w)
    OBVIOUS
  <2>9. WillPut(r, <<a, b>>)
    BY <1>8, <2>1, <2>2, <2>4, <2>5, <2>8 DEF EnterPuts, OfEventOnly
  <2>10. IsWrite(b) /\ b.key = Ping(p) /\ b.key[1] = "ping" /\ b.value = w
    BY <2>8, PutsAre, KeysAre
  <2>11. PutFits(bounds, Facts(kv) \union {a}, b)
    <3>1. n # None
      BY <1>3, KindsArePooled DEF FieldKinds
    <3>2. MadeByEvent(Facts(kv) \union {a}, w)
      BY <1>3, <2>3, <2>7, <3>1 DEF MadeByEvent
    <3>3. PingRests(Facts(kv) \union {a}, p, w)
      BY <2>6, <2>7, <3>2 DEF PingRests
    <3>4. w.throttle \in OrNone(bounds.pool["ping-throttle"])
      BY <2>7 DEF OrNone
    <3>5. Good(bounds, Facts(kv) \union {a}, Ping(p), w)
      BY <2>7, <3>3, <3>4, GoodPing
    <3>6. QED
      BY <2>8, <3>5, WriteFits
  <2>12. p \in Pool["ping"]
    BY KindsArePooled, MintedIsNew DEF PingKinds
  <2>13. Joins(b)
    <3>1. \A q \in Pool["ping"] : ~Names(q, x)
      BY <1>5, NamedIsTaken
    <3>2. Free(b.key)
      BY <2>10, KeysAre DEF Free, Same
    <3>3. QED
      BY <2>7, <2>10, <3>1, <3>2 DEF Joins
  <2>14. QED
    BY <1>1, <2>3, <2>9, <2>10, <2>11, <2>13, PlanTwo
<1>9. QED
  BY <1>4, <1>7, <1>8

(* The exit is put first, and the event that names it after.               *)
LEMMA ExitFieldKeeps ==
  ASSUME IInv, NEW r \in Requests, ExitField(r)
  PROVE  IInv'
<1>1. PICK x \in Chosen("proximity"), z \in Minted("proximity-exit") :
        Stored(Proximity(x)) /\ Goes(r, ExitPuts(z, x, kv[Proximity(x)]))
  BY DEF ExitField
<1>2. PICK event : event = kv[Proximity(x)]
  OBVIOUS
<1>3. event \in EventRecord /\ EventRests(Facts(kv), x, event)
  BY <1>1, <1>2, StoredFits, KeysAre DEF Good, Shaped, Rests
<1>4. z \in Pool["proximity-exit"] /\ Untaken(Exit(z))
  BY KindsArePooled, MintedIsNew DEF FieldKinds, Exit
<1>5. PICK u : u = [event |-> x, at |-> event.at]
  OBVIOUS
<1>6. PICK v : v = [event EXCEPT !.exit = z]
  OBVIOUS
<1>7. /\ v \in EventRecord /\ v.exit = z
      /\ v.at = event.at /\ v.owner = event.owner /\ v.intent = event.intent
  BY <1>3, <1>4, <1>6 DEF EventRecord, OrNone
<1>8. PICK a : a = Writes(Exit(z), u)
  OBVIOUS
<1>9. PICK b : b = Writes(Proximity(x), v)
  OBVIOUS
<1>10. todo[r] = <<>> /\ WillPut(r, <<a, b>>)
  BY <1>1, <1>2, <1>5, <1>6, <1>8, <1>9, Arriving DEF Goes, ExitPuts
<1>11. /\ IsWrite(a) /\ a.key = Exit(z) /\ a.key[1] = "proximity-exit" /\ a.value = u
       /\ IsWrite(b) /\ b.key = Proximity(x) /\ b.key[1] = "proximity" /\ b.value = v
  BY <1>8, <1>9, PutsAre, KeysAre
<1>12. PutFits(bounds, Facts(kv), a)
  <2>1. Good(bounds, Facts(kv), Exit(z), u)
    BY KeysAre DEF Good, Shaped, Rests
  <2>2. QED
    BY <1>8, <2>1, WriteFits
<1>13. PutFits(bounds, Facts(kv) \union {a}, b)
  <2>1. v.intent # None => Has(Facts(kv) \union {a}, Intent(v.intent))
    BY <1>3, <1>7 DEF EventRests, Has
  <2>2. a.key = Exit(v.exit) /\ a.value.event = x
    BY <1>5, <1>7, <1>11
  <2>3. EventRests(Facts(kv) \union {a}, x, v)
    BY <2>1, <2>2 DEF EventRests
  <2>4. Good(bounds, Facts(kv) \union {a}, Proximity(x), v)
    BY <1>7, <2>3, KeysAre DEF Good, Shaped, Rests
  <2>5. QED
    BY <1>9, <2>4, WriteFits
<1>14. Joins(a)
  BY <1>4, <1>11, NewJoins
<1>15. Joins(b)
  <2>1. Same(bounds, b.key, v, event)
    BY <1>7, <1>11 DEF Same
  <2>2. QED
    BY <1>1, <1>2, <1>11, <2>1, NewJoins
<1>16. QED
  BY <1>10, <1>11, <1>12, <1>13, <1>14, <1>15, PlanTwo

(* What a check of relevance has read fits, whatever the intents.          *)
LEMMA CheckFits ==
  ASSUME NEW b, NEW F, NEW x, x.op \in {"check", "checked"}, {"op", "by"} \subseteq DOMAIN x,
         x.by \in Identities
  PROVE  ReadFits(b, F, x)
BY DEF ReadFits

(* A check reads the field.                                                *)
LEMMA ReadFieldKeeps ==
  ASSUME IInv, NEW r \in Requests, ReadField(r)
  PROVE  IInv'
<1>1. PICK by, title, n :
        /\ by \in Chosen("current-field")
        /\ StartReading(r, [op |-> "check", by |-> by, title |-> title, named |-> n])
  BY DEF ReadField
<1>2. PICK x : x = [op |-> "check", by |-> by, title |-> title, named |-> n]
  OBVIOUS
<1>3. by \in Identities
  BY <1>1, ChosenIsPooled, KindsArePooled, FieldAssumption DEF FieldKinds
<1>4. x.op = "check" /\ x.by = by /\ {"op", "by"} \subseteq DOMAIN x
  BY <1>2
<1>5. ReadFits(bounds, Facts(kv), x)
  BY <1>3, <1>4, CheckFits
<1>6. todo[r] = <<>> /\ Reads(r, x)
  BY <1>1, <1>2, Arriving DEF StartReading
<1>7. QED
  BY <1>4, <1>5, <1>6, AskKeeps

(* A check that goes on says who asked.                                    *)
LEMMA CheckedKeeps ==
  ASSUME IInv, NEW r \in Requests, todo[r] = <<>>, NEW x, Reads(r, x), x.op = "checked",
         {"op", "by"} \subseteq DOMAIN x, x.by \in Identities
  PROVE  IInv'
<1>1. ReadFits(bounds, Facts(kv), x)
  BY CheckFits
<1>2. QED
  BY <1>1, AskKeeps

(* A check reads the intent that is named.                                 *)
LEMMA ReadNamedIntentKeeps ==
  ASSUME IInv, NEW r \in Requests, ReadNamedIntent(r)
  PROVE  IInv'
<1>1. /\ todo[r] = <<>>
      /\ reading[r].op = "check"
      /\ ReadFits(bounds, Facts(kv), reading[r])
  BY Reading DEF ReadNamedIntent
<1>2. PICK title, found :
        Reads(r, [op |-> "checked", by |-> reading[r].by, title |-> title,
                  left |-> {}, found |-> found])
  BY DEF ReadNamedIntent
<1>3. PICK by : by = reading[r].by
  OBVIOUS
<1>4. PICK x : x = [op |-> "checked", by |-> by, title |-> title, left |-> {}, found |-> found]
  OBVIOUS
<1>5. x.op = "checked" /\ x.by = by /\ {"op", "by"} \subseteq DOMAIN x
  BY <1>4
<1>6. by \in Identities
  BY <1>1, <1>3 DEF ReadFits
<1>7. Reads(r, x)
  BY <1>2, <1>3, <1>4
<1>8. QED
  BY <1>1, <1>5, <1>6, <1>7, CheckedKeeps

(* A check reads the list of intents.                                      *)
LEMMA ListIntentsKeeps ==
  ASSUME IInv, NEW r \in Requests, ListIntents(r)
  PROVE  IInv'
<1>1. /\ todo[r] = <<>>
      /\ reading[r].op = "check"
      /\ ReadFits(bounds, Facts(kv), reading[r])
  BY Reading DEF ListIntents
<1>2. PICK title, left :
        Reads(r, [op |-> "checked", by |-> reading[r].by, title |-> title,
                  left |-> left, found |-> {}])
  BY DEF ListIntents
<1>3. PICK by : by = reading[r].by
  OBVIOUS
<1>4. PICK x : x = [op |-> "checked", by |-> by, title |-> title, left |-> left, found |-> {}]
  OBVIOUS
<1>5. x.op = "checked" /\ x.by = by /\ {"op", "by"} \subseteq DOMAIN x
  BY <1>4
<1>6. by \in Identities
  BY <1>1, <1>3 DEF ReadFits
<1>7. Reads(r, x)
  BY <1>2, <1>3, <1>4
<1>8. QED
  BY <1>1, <1>5, <1>6, <1>7, CheckedKeeps

(* A check reads the intents of the list.                                  *)
LEMMA ReadIntentToCheckKeeps ==
  ASSUME IInv, NEW r \in Requests, ReadIntentToCheck(r)
  PROVE  IInv'
<1>1. /\ todo[r] = <<>>
      /\ reading[r].op = "checked"
      /\ ReadFits(bounds, Facts(kv), reading[r])
  BY Reading DEF ReadIntentToCheck, ReadIntents
<1>2. PICK y : y = reading[r]
  OBVIOUS
<1>3. PICK left, found : Reads(r, [y EXCEPT !.left = left, !.found = found])
  BY <1>2 DEF ReadIntentToCheck, ReadIntents
<1>4. PICK x : x = [y EXCEPT !.left = left, !.found = found]
  OBVIOUS
<1>5. y.op = "checked" /\ {"op", "by"} \subseteq DOMAIN y /\ y.by \in Identities
  BY <1>1, <1>2 DEF ReadFits
<1>6. x.op = "checked" /\ {"op", "by"} \subseteq DOMAIN x /\ x.by = y.by
  BY <1>4, <1>5
<1>7. Reads(r, x)
  BY <1>3, <1>4
<1>8. QED
  BY <1>1, <1>5, <1>6, <1>7, CheckedKeeps

(* A finding rests on nothing.                                             *)
LEMMA CheckRelevanceKeeps ==
  ASSUME IInv, NEW r \in Requests, CheckRelevance(r)
  PROVE  IInv'
<1>1. /\ todo[r] = <<>>
      /\ reading[r].op = "checked"
      /\ ReadFits(bounds, Facts(kv), reading[r])
  BY Reading DEF CheckRelevance
<1>2. PICK v \in Chosen("relevance") :
        WillPut(r, <<Writes(Relevance(v), [identity |-> reading[r].by,
                                           relevant |-> reading[r].found # {}])>>)
  BY DEF CheckRelevance
<1>3. PICK u : u = [identity |-> reading[r].by, relevant |-> reading[r].found # {}]
  OBVIOUS
<1>4. reading[r].by \in Identities
  BY <1>1 DEF ReadFits
<1>5. u \in RelevanceRecord
  BY <1>3, <1>4 DEF RelevanceRecord
<1>6. PICK a : a = Writes(Relevance(v), u)
  OBVIOUS
<1>7. WillPut(r, <<a>>)
  BY <1>2, <1>3, <1>6
<1>8. a.key[1] = "relevance"
  BY <1>6, PutsAre, KeysAre
<1>9. PutFits(bounds, Facts(kv), a)
  <2>1. Good(bounds, Facts(kv), Relevance(v), u)
    BY <1>5, KeysAre DEF Good, Shaped, Rests
  <2>2. QED
    BY <1>6, <2>1, WriteFits
<1>10. Joins(a)
  BY <1>8, PlainJoins DEF FreeKinds
<1>11. QED
  BY <1>1, <1>7, <1>9, <1>10, PlanOne

(* Each of the field workers keeps IInv.                                   *)
LEMMA FieldStepKeeps ==
  ASSUME IInv, NEW r \in Requests, FieldStep(r)
  PROVE  IInv'
BY PostFieldKeeps, ReadToCloseKeeps, CloseFieldKeeps, RememberIntentKeeps,
   ReadIntentIndexKeeps, ReadIntentToEnterKeeps, EnterFieldKeeps, ExitFieldKeeps,
   ReadFieldKeeps, ReadNamedIntentKeeps, ListIntentsKeeps, ReadIntentToCheckKeeps,
   CheckRelevanceKeeps
DEF FieldStep

-----------------------------------------------------------------------------
(* Objects and what comes of them.                                         *)

(* What is stored along the chain, as its readers take it.                 *)
LEMMA ObjectsAre ==
  ASSUME IInv, NEW i
  PROVE  /\ Stored(Object(i)) => /\ kv[Object(i)] \in ObjectRecord
                                 /\ ObjectRests(bounds, Facts(kv), i, kv[Object(i)])
                                 /\ Copied(bounds, Facts(kv), Object(i), kv[Object(i)])
         /\ Stored(Claim(i)) => /\ kv[Claim(i)] \in ClaimRecord
                                /\ ClaimRests(bounds, Facts(kv), i, kv[Claim(i)])
                                /\ Copied(bounds, Facts(kv), Claim(i), kv[Claim(i)])
         /\ Stored(Handoff(i)) => /\ kv[Handoff(i)] \in HandoffRecord
                                  /\ HandoffRests(bounds, Facts(kv), i, kv[Handoff(i)])
         /\ Stored(Proof(i)) => /\ kv[Proof(i)] \in ProofRecord
                                /\ ProofRests(bounds, Facts(kv), kv[Proof(i)])
BY StoredFits, MoreKeysAre DEF Good, Shaped, Rests

(* What a record of the chain, under its key, has to be.                   *)
LEMMA GoodObject ==
  ASSUME NEW b, NEW F, NEW o, NEW v
  PROVE  /\ v \in ObjectRecord /\ ObjectRests(b, F, o, v) => Good(b, F, Object(o), v)
         /\ v \in ClaimRecord /\ ClaimRests(b, F, o, v) => Good(b, F, Claim(o), v)
         /\ v \in HandoffRecord /\ HandoffRests(b, F, o, v) => Good(b, F, Handoff(o), v)
         /\ v \in ProofRecord /\ ProofRests(b, F, v) => Good(b, F, Proof(o), v)
         /\ EvidenceRests(b, F, v) => Good(b, F, Evidence(o), v)
BY MoreKeysAre DEF Good, Shaped, Rests

(* A copy of a claim is of the claim that is stored.                       *)
LEMMA CopiedClaim ==
  ASSUME IInv, NEW c, NEW claim, Copied(bounds, Facts(kv), Claim(c), claim)
  PROVE  /\ claim \in ClaimRecord /\ ClaimRests(bounds, Facts(kv), c, claim)
         /\ Stored(Claim(c)) /\ Same(bounds, Claim(c), claim, kv[Claim(c)])
<1>1. claim \in ClaimRecord /\ ClaimRests(bounds, Facts(kv), c, claim)
  BY MoreKeysAre DEF Copied, Good, Shaped, Rests
<1>2. PICK f \in Facts(kv) : f.key = Claim(c) /\ Same(bounds, Claim(c), claim, f.value)
  BY DEF Copied
<1>3. QED
  BY <1>1, <1>2, FactsAre DEF Stored

(* An object as it is posted names no claim and no handoff.                *)
LEMMA PostObjectKeeps ==
  ASSUME IInv, NEW r \in Requests, PostObject(r)
  PROVE  IInv'
<1>1. PICK o \in Chosen("object"), by \in Identities, status \in Shown :
        Goes(r, <<Writes(Object(o), [owner |-> by, status |-> status, claim |-> None,
                                     handoff |-> None, holder |-> None])>>)
  BY DEF PostObject
<1>2. PICK v : v = [owner |-> by, status |-> status, claim |-> None,
                    handoff |-> None, holder |-> None]
  OBVIOUS
<1>3. status \in ObjectStatus /\ status # "handed_off"
  BY ClaimsAssumption
<1>4. v \in ObjectRecord
  BY <1>2, <1>3 DEF ObjectRecord, OrNone
<1>5. ObjectRests(bounds, Facts(kv), o, v)
  BY <1>2, <1>3 DEF ObjectRests
<1>6. PICK a : a = Writes(Object(o), v)
  OBVIOUS
<1>7. todo[r] = <<>> /\ WillPut(r, <<a>>)
  BY <1>1, <1>2, <1>6, Arriving DEF Goes
<1>8. PutFits(bounds, Facts(kv), a)
  BY <1>4, <1>5, <1>6, GoodObject, WriteFits
<1>9. a.key[1] = "object"
  BY <1>6, PutsAre, MoreKeysAre
<1>10. Joins(a)
  BY <1>9, PlainJoins DEF FreeKinds
<1>11. QED
  BY <1>7, <1>8, <1>10, PlanOne

(* The copy of the object is as good as the object.                        *)
LEMMA ReadToClaimKeeps ==
  ASSUME IInv, NEW r \in Requests, ReadToClaim(r)
  PROVE  IInv'
<1>1. PICK by \in Identities, o \in Chosen("object") :
        /\ Stored(Object(o))
        /\ StartReading(r, [op |-> "claim", by |-> by, id |-> o, object |-> kv[Object(o)]])
  BY DEF ReadToClaim
<1>2. PICK x : x = [op |-> "claim", by |-> by, id |-> o, object |-> kv[Object(o)]]
  OBVIOUS
<1>3. x.op = "claim" /\ x.by = by /\ x.id = o /\ x.object = kv[Object(o)]
  BY <1>2
<1>4. o \in Pool["object"]
  BY ChosenIsPooled, KindsArePooled DEF ObjectKinds
<1>5. ReadFits(bounds, Facts(kv), x)
  BY <1>1, <1>3, <1>4, ObjectsAre DEF ReadFits
<1>6. todo[r] = <<>> /\ Reads(r, x)
  BY <1>1, <1>2, Arriving DEF StartReading
<1>7. QED
  BY <1>3, <1>5, <1>6, AskKeeps

(* And still is when the latest claim has been read.                       *)
LEMMA ReadLatestKeeps ==
  ASSUME IInv, NEW r \in Requests, ReadLatest(r)
  PROVE  IInv'
<1>1. /\ todo[r] = <<>>
      /\ reading[r].op = "claim"
      /\ ReadFits(bounds, Facts(kv), reading[r])
  BY Reading DEF ReadLatest
<1>2. PICK y : y = reading[r]
  OBVIOUS
<1>3. PICK latest : Reads(r, [op |-> "claim-latest", by |-> y.by, id |-> y.id,
                              object |-> y.object, latest |-> latest])
  BY <1>2 DEF ReadLatest
<1>4. PICK x : x = [op |-> "claim-latest", by |-> y.by, id |-> y.id,
                    object |-> y.object, latest |-> latest]
  OBVIOUS
<1>5. x.op = "claim-latest" /\ x.by = y.by /\ x.id = y.id /\ x.object = y.object
  BY <1>4
<1>6. ReadFits(bounds, Facts(kv), x)
  BY <1>1, <1>2, <1>5 DEF ReadFits
<1>7. Reads(r, x)
  BY <1>3, <1>4
<1>8. QED
  BY <1>1, <1>5, <1>6, <1>7, AskKeeps

ReservedFor(object, c) == [object EXCEPT !.status = "reserved", !.claim = c]

(* An object put back as reserved for a claim.                             *)
LEMMA ReservedObject ==
  ASSUME NEW object \in ObjectRecord, NEW c \in Pool["object-claim"], NEW v,
         v = ReservedFor(object, c)
  PROVE  /\ v \in ObjectRecord /\ v.claim = c /\ v.status = "reserved"
         /\ v.owner = object.owner /\ v.handoff = object.handoff /\ v.holder = object.holder
<1>1. v \in ObjectRecord
  BY DEF ReservedFor, ObjectRecord, ObjectStatus, OrNone
<1>2. QED
  BY <1>1 DEF ReservedFor, ObjectRecord

(* An object reserved for a claim of it rests on the claim.                *)
LEMMA ReservedRests ==
  ASSUME NEW b, NEW F, NEW o, NEW object \in ObjectRecord, NEW c \in Pool["object-claim"],
         ObjectRests(b, F, o, object), OfObject(b, F, Claim(c), o, object.owner), NEW v,
         v = ReservedFor(object, c)
  PROVE  v \in ObjectRecord /\ ObjectRests(b, F, o, v)
<1>1. /\ v \in ObjectRecord /\ v.claim = c /\ v.status = "reserved"
      /\ v.owner = object.owner /\ v.handoff = object.handoff /\ v.holder = object.holder
  BY ReservedObject
<1>2. QED
  BY <1>1 DEF ObjectRests

(* The claim is put first, and the object that may name it last.           *)
LEMMA ClaimObjectKeeps ==
  ASSUME IInv, NEW r \in Requests, ClaimObject(r)
  PROVE  IInv'
<1>1. /\ todo[r] = <<>>
      /\ reading[r].op = "claim-latest"
      /\ ReadFits(bounds, Facts(kv), reading[r])
  BY Reading DEF ClaimObject
<1>2. PICK y : y = reading[r]
  OBVIOUS
<1>3. /\ y.by \in Identities /\ y.id \in Pool["object"]
      /\ Copied(bounds, Facts(kv), Object(y.id), y.object)
  BY <1>1, <1>2 DEF ReadFits
<1>4. y.object \in ObjectRecord /\ ObjectRests(bounds, Facts(kv), y.id, y.object)
  BY <1>3, MoreKeysAre DEF Copied, Good, Shaped, Rests
<1>5. CASE WillPut(r, <<>>)
  BY <1>1, <1>5, PlanNone
<1>6. ASSUME NEW c \in Given("object-claim"), NEW status \in PostedClaims,
             NEW reserves \in BOOLEAN,
             WillPut(r, ClaimPuts(c, y.id,
               [object |-> y.id, owner |-> y.object.owner, claimant |-> y.by,
                status |-> status, handoff |-> None],
               ReservedBy(c, y.object, reserves)))
      PROVE  IInv'
  <2>1. PICK u : u = [object |-> y.id, owner |-> y.object.owner, claimant |-> y.by,
                      status |-> status, handoff |-> None]
    OBVIOUS
  <2>2. PICK v : v = ReservedBy(c, y.object, reserves)
    OBVIOUS
  <2>3. /\ c \in Pool["object-claim"]
        /\ Untaken(Claim(c)) \/ Claim(c) \in bounds.again
    BY KindsArePooled, GivenIsNew DEF ObjectKinds, Claim
  <2>4. u \in ClaimRecord /\ u.object = y.id /\ u.owner = y.object.owner
        /\ u.claimant = y.by /\ u.handoff = None
    <3>1. y.object.owner \in Identities /\ status \in ClaimStatus
      BY <1>4, ClaimsAssumption DEF ObjectRecord
    <3>2. QED
      BY <1>3, <2>1, <3>1 DEF ClaimRecord, OrNone
  <2>5. PICK a : a = Writes(Claim(c), u)
    OBVIOUS
  <2>6. PICK b : b = Writes(ClaimsBy(y.id, y.by), {c})
    OBVIOUS
  <2>7. PICK w : w = Writes(Object(y.id), v)
    OBVIOUS
  <2>8. WillPut(r, <<a, b, w>>)
    BY <1>6, <2>1, <2>2, <2>4, <2>5, <2>6, <2>7 DEF ClaimPuts, Latest
  <2>9. /\ IsWrite(a) /\ a.key = Claim(c) /\ a.key[1] = "object-claim" /\ a.value = u
        /\ IsWrite(b) /\ b.key[1] = "claims-by"
        /\ IsWrite(w) /\ w.key[1] = "object"
    BY <2>5, <2>6, <2>7, PutsAre, MoreKeysAre, IndexKeysAre
  <2>10. PutFits(bounds, Facts(kv), a)
    BY <2>4, <2>5, GoodObject, WriteFits DEF ClaimRests
  <2>11. PutFits(bounds, Facts(kv) \union {a}, b)
    <3>1. Good(bounds, Facts(kv) \union {a}, ClaimsBy(y.id, y.by), {c})
      BY IndexKeysAre DEF Good, Shaped, Rests
    <3>2. QED
      BY <2>6, <3>1, WriteFits
  <2>12. PutFits(bounds, Facts(kv) \union {a, b}, w)
    <3>1. ObjectRests(bounds, Facts(kv) \union {a, b}, y.id, y.object)
      BY <1>4, MoreFactsGrow, ObjectRestsLonger
    <3>2. OfObject(bounds, Facts(kv) \union {a, b}, Claim(c), y.id, y.object.owner)
      BY <2>4, <2>9 DEF OfObject
    <3>3. v \in ObjectRecord /\ ObjectRests(bounds, Facts(kv) \union {a, b}, y.id, v)
      <4>1. v = y.object \/ v = ReservedFor(y.object, c)
        BY <2>2 DEF ReservedBy, ReservedFor
      <4>2. QED
        BY <1>4, <2>3, <3>1, <3>2, <4>1, ReservedRests
    <3>4. QED
      BY <2>7, <3>3, GoodObject, WriteFits
  <2>13. Joins(a)
    BY <2>3, <2>9, AgainIsFree, NewJoins
  <2>14. Joins(b) /\ Joins(w)
    BY <2>9, PlainJoins DEF FreeKinds, IndexKinds
  <2>15. QED
    BY <1>1, <2>8, <2>9, <2>10, <2>11, <2>12, <2>13, <2>14, PlanThree
<1>7. QED
  BY <1>2, <1>5, <1>6 DEF ClaimObject

(* The copy of the claim is as good as the claim.                          *)
LEMMA ReadToDecideKeeps ==
  ASSUME IInv, NEW r \in Requests, ReadToDecide(r)
  PROVE  IInv'
<1>1. PICK c \in Chosen("object-claim"), decision \in bounds.decisions :
        /\ Stored(Claim(c))
        /\ StartReading(r, [op |-> "decide", id |-> c, decision |-> decision,
                            claim |-> kv[Claim(c)]])
  BY DEF ReadToDecide
<1>2. PICK x : x = [op |-> "decide", id |-> c, decision |-> decision, claim |-> kv[Claim(c)]]
  OBVIOUS
<1>3. x.op = "decide" /\ x.id = c /\ x.decision = decision /\ x.claim = kv[Claim(c)]
  BY <1>2
<1>4. c \in Pool["object-claim"] /\ decision \in ClaimDecisions
  BY ChosenIsPooled, KindsArePooled, ScenesFit DEF ObjectKinds
<1>5. ReadFits(bounds, Facts(kv), x)
  BY <1>1, <1>3, <1>4, ObjectsAre DEF ReadFits
<1>6. todo[r] = <<>> /\ Reads(r, x)
  BY <1>1, <1>2, Arriving DEF StartReading
<1>7. QED
  BY <1>3, <1>5, <1>6, AskKeeps

ClaimWith(claim, status) == [claim EXCEPT !.status = status]

(* A claim put back with another status.                                   *)
LEMMA DecidedClaim ==
  ASSUME NEW claim \in ClaimRecord, NEW status \in ClaimStatus, NEW v,
         v = ClaimWith(claim, status)
  PROVE  /\ v \in ClaimRecord /\ v.object = claim.object /\ v.owner = claim.owner
         /\ v.claimant = claim.claimant /\ v.handoff = claim.handoff
<1>1. v \in ClaimRecord
  BY DEF ClaimWith, ClaimRecord, OrNone
<1>2. QED
  BY <1>1 DEF ClaimWith, ClaimRecord

(* An object put back with a decision rests on the claim that is decided,
   or on what it rested on before.                                         *)
LEMMA DecidedObject ==
  ASSUME NEW b, NEW F, NEW o, NEW object \in ObjectRecord, NEW c \in Pool["object-claim"],
         NEW decision \in ClaimDecisions,
         ObjectRests(b, F, o, object), OfObject(b, F, Claim(c), o, object.owner), NEW v,
         v = Decided(object, c, decision)
  PROVE  v \in ObjectRecord /\ ObjectRests(b, F, o, v)
<1>1. decision \in {"accept", "reject", "cancel", "fulfill", "archive", "reopen"}
  BY DEF ClaimDecisions, StatusByDecision
<1>2. CASE decision = "accept"
  <2>1. v = ReservedFor(object, c)
    BY <1>2 DEF Decided, ReservedFor
  <2>2. QED
    BY <2>1, ReservedRests
<1>3. CASE decision \in {"reject", "cancel", "reopen"}
  <2>1. PICK k : k = IF object.claim = c THEN None ELSE object.claim
    OBVIOUS
  <2>2. PICK status : status = IF object.status = "reserved" THEN "available" ELSE object.status
    OBVIOUS
  <2>3. v = [object EXCEPT !.claim = k, !.status = status]
    BY <1>3, <2>1, <2>2 DEF Decided
  <2>4. k \in {None, object.claim} /\ status \in {"available", object.status}
    BY <2>1, <2>2
  <2>5. v \in ObjectRecord
    BY <2>3, <2>4 DEF ObjectRecord, ObjectStatus, OrNone
  <2>6. /\ v.claim = k /\ v.status = status
        /\ v.owner = object.owner /\ v.handoff = object.handoff /\ v.holder = object.holder
    BY <2>3, <2>5 DEF ObjectRecord
  <2>7. QED
    BY <2>4, <2>5, <2>6 DEF ObjectRests
<1>4. CASE decision \in {"fulfill", "archive"}
  <2>1. v = [object EXCEPT !.status = "closed"]
    BY <1>4 DEF Decided
  <2>2. v \in ObjectRecord
    BY <2>1 DEF ObjectRecord, ObjectStatus, OrNone
  <2>3. /\ v.claim = object.claim /\ v.status = "closed"
        /\ v.owner = object.owner /\ v.handoff = object.handoff /\ v.holder = object.holder
    BY <2>1, <2>2 DEF ObjectRecord
  <2>4. QED
    BY <2>2, <2>3 DEF ObjectRests
<1>5. QED
  BY <1>1, <1>2, <1>3, <1>4

(* The claim and the object, which has the owner of the claim, are put back. *)
LEMMA DecideClaimKeeps ==
  ASSUME IInv, NEW r \in Requests, DecideClaim(r)
  PROVE  IInv'
<1>1. /\ todo[r] = <<>>
      /\ reading[r].op = "decide"
      /\ ReadFits(bounds, Facts(kv), reading[r])
  BY Reading DEF DecideClaim
<1>2. PICK c : c = reading[r].id
  OBVIOUS
<1>3. PICK claim : claim = reading[r].claim
  OBVIOUS
<1>4. PICK decision : decision = reading[r].decision
  OBVIOUS
<1>5. PICK o : o = claim.object
  OBVIOUS
<1>6. /\ c \in Pool["object-claim"] /\ decision \in ClaimDecisions
      /\ Copied(bounds, Facts(kv), Claim(c), claim)
  BY <1>1, <1>2, <1>3, <1>4 DEF ReadFits
<1>7. /\ claim \in ClaimRecord /\ ClaimRests(bounds, Facts(kv), c, claim)
      /\ Stored(Claim(c)) /\ Same(bounds, Claim(c), claim, kv[Claim(c)])
  BY <1>6, CopiedClaim
<1>8. CASE WillPut(r, <<>>)
  BY <1>1, <1>8, PlanNone
<1>9. CASE /\ SameOwner(claim)
           /\ WillPut(r, <<Writes(Claim(c), [claim EXCEPT !.status = StatusByDecision[decision]]),
                           Writes(Object(o), Decided(kv[Object(o)], c, decision))>>)
  <2>1. PICK object : object = kv[Object(o)]
    OBVIOUS
  <2>2. Stored(Object(o)) /\ object.owner = claim.owner
    BY <1>5, <1>9, <2>1 DEF SameOwner
  <2>3. object \in ObjectRecord /\ ObjectRests(bounds, Facts(kv), o, object)
    BY <2>1, <2>2, ObjectsAre
  <2>4. PICK u : u = ClaimWith(claim, StatusByDecision[decision])
    OBVIOUS
  <2>5. PICK v : v = Decided(object, c, decision)
    OBVIOUS
  <2>6. StatusByDecision[decision] \in ClaimStatus
    BY <1>6 DEF ClaimStatus
  <2>7. /\ u \in ClaimRecord /\ u.object = claim.object /\ u.owner = claim.owner
        /\ u.claimant = claim.claimant /\ u.handoff = claim.handoff
    BY <1>7, <2>4, <2>6, DecidedClaim
  <2>8. PICK a : a = Writes(Claim(c), u)
    OBVIOUS
  <2>9. PICK b : b = Writes(Object(o), v)
    OBVIOUS
  <2>10. WillPut(r, <<a, b>>)
    BY <1>9, <2>1, <2>4, <2>5, <2>8, <2>9 DEF ClaimWith
  <2>11. /\ IsWrite(a) /\ a.key = Claim(c) /\ a.key[1] = "object-claim" /\ a.value = u
         /\ IsWrite(b) /\ b.key[1] = "object"
    BY <2>8, <2>9, PutsAre, MoreKeysAre
  <2>12. PutFits(bounds, Facts(kv), a)
    <3>1. ClaimRests(bounds, Facts(kv), c, u)
      BY <1>7, <2>7 DEF ClaimRests
    <3>2. QED
      BY <2>7, <2>8, <3>1, GoodObject, WriteFits
  <2>13. PutFits(bounds, Facts(kv) \union {a}, b)
    <3>1. ObjectRests(bounds, Facts(kv) \union {a}, o, object)
      BY <2>3, MoreFactsGrow, ObjectRestsLonger
    <3>2. OfObject(bounds, Facts(kv) \union {a}, Claim(c), o, object.owner)
      BY <1>5, <2>2, <2>7, <2>11 DEF OfObject
    <3>3. v \in ObjectRecord /\ ObjectRests(bounds, Facts(kv) \union {a}, o, v)
      BY <1>6, <2>3, <2>5, <3>1, <3>2, DecidedObject
    <3>4. QED
      BY <2>9, <3>3, GoodObject, WriteFits
  <2>14. Joins(a)
    <3>1. Same(bounds, Claim(c), u, kv[Claim(c)])
      BY <1>7, <2>7, MoreKeysAre DEF Same
    <3>2. QED
      BY <1>7, <2>11, <3>1, NewJoins
  <2>15. Joins(b)
    BY <2>11, PlainJoins DEF FreeKinds
  <2>16. QED
    BY <1>1, <2>10, <2>11, <2>12, <2>13, <2>14, <2>15, PlanTwo
<1>10. QED
  BY <1>2, <1>3, <1>4, <1>5, <1>8, <1>9 DEF DecideClaim

(* The copy of the claim is as good as the claim.                          *)
LEMMA ReadToHandOffKeeps ==
  ASSUME IInv, NEW r \in Requests, ReadToHandOff(r)
  PROVE  IInv'
<1>1. PICK c \in Chosen("object-claim") :
        /\ Stored(Claim(c))
        /\ StartReading(r, [op |-> "hand-off", id |-> c, claim |-> kv[Claim(c)]])
  BY DEF ReadToHandOff
<1>2. PICK x : x = [op |-> "hand-off", id |-> c, claim |-> kv[Claim(c)]]
  OBVIOUS
<1>3. x.op = "hand-off" /\ x.id = c /\ x.claim = kv[Claim(c)]
  BY <1>2
<1>4. c \in Pool["object-claim"]
  BY ChosenIsPooled, KindsArePooled DEF ObjectKinds
<1>5. ReadFits(bounds, Facts(kv), x)
  BY <1>1, <1>3, <1>4, ObjectsAre DEF ReadFits
<1>6. todo[r] = <<>> /\ Reads(r, x)
  BY <1>1, <1>2, Arriving DEF StartReading
<1>7. QED
  BY <1>3, <1>5, <1>6, AskKeeps

(* A claim that names a handoff, and is accepted or as it was.             *)
ClaimNaming(claim, h, status) == [claim EXCEPT !.handoff = h, !.status = status]

(* A claim put back with its handoff.                                      *)
LEMMA NamingClaim ==
  ASSUME NEW claim \in ClaimRecord, NEW h \in Pool["object-handoff"],
         NEW status \in ClaimStatus, NEW v, v = ClaimNaming(claim, h, status)
  PROVE  /\ v \in ClaimRecord /\ v.object = claim.object /\ v.owner = claim.owner
         /\ v.claimant = claim.claimant /\ v.handoff = h
<1>1. v \in ClaimRecord
  BY DEF ClaimNaming, ClaimRecord, OrNone
<1>2. QED
  BY <1>1 DEF ClaimNaming, ClaimRecord

(* An object handed over by a handoff of it rests on the handoff.          *)
LEMMA HandedObject ==
  ASSUME NEW b, NEW F, NEW o, NEW object \in ObjectRecord, ObjectRests(b, F, o, object),
         NEW h \in Pool["object-handoff"], NEW to \in Identities,
         NEW status \in HandoffStatus,
         OfObject(b, F, Handoff(h), o, object.owner), PartyOf(b, F, to, Handoff(h)), NEW v,
         v = HandedOff(object, h, status, to)
  PROVE  v \in ObjectRecord /\ ObjectRests(b, F, o, v)
<1>1. h # None
  BY KindsArePooled DEF ObjectKinds
<1>2. CASE status = "completed"
  <2>1. v = [object EXCEPT !.status = "handed_off", !.handoff = h, !.holder = to]
    BY <1>2 DEF HandedOff
  <2>2. v \in ObjectRecord
    BY <2>1 DEF ObjectRecord, ObjectStatus, OrNone
  <2>3. /\ v.claim = object.claim /\ v.owner = object.owner
        /\ v.handoff = h /\ v.holder = to /\ v.status = "handed_off"
    BY <2>1, <2>2 DEF ObjectRecord
  <2>4. QED
    BY <1>1, <2>2, <2>3 DEF ObjectRests
<1>3. CASE status = "cancelled"
  <2>1. PICK k : k = IF object.handoff = h THEN None ELSE object.handoff
    OBVIOUS
  <2>2. PICK holder : holder = IF object.handoff = h THEN None ELSE object.holder
    OBVIOUS
  <2>3. PICK s : s = IF object.status = "handed_off" THEN "reserved" ELSE object.status
    OBVIOUS
  <2>4. v = [object EXCEPT !.handoff = k, !.holder = holder, !.status = s]
    BY <1>3, <2>1, <2>2, <2>3 DEF HandedOff
  <2>5. /\ k = None \/ (k = object.handoff /\ holder = object.holder)
        /\ k \in {None, object.handoff} /\ holder \in {None, object.holder}
        /\ s \in {"reserved", object.status} /\ s # "handed_off"
    BY <2>1, <2>2, <2>3
  <2>6. v \in ObjectRecord
    BY <2>4, <2>5 DEF ObjectRecord, ObjectStatus, OrNone
  <2>7. /\ v.claim = object.claim /\ v.owner = object.owner
        /\ v.handoff = k /\ v.holder = holder /\ v.status = s
    BY <2>4, <2>6 DEF ObjectRecord
  <2>8. QED
    BY <2>5, <2>6, <2>7 DEF ObjectRests
<1>4. CASE status \notin {"completed", "cancelled"}
  BY <1>4 DEF HandedOff
<1>5. QED
  BY <1>2, <1>3, <1>4

(* A handoff takes an identifier clients may send or that of its claim, whose
   handoff is then of this claim already, unless clients post others over it;
   what the object rests on is put before it.                              *)
LEMMA HandOffKeeps ==
  ASSUME IInv, NEW r \in Requests, HandOff(r)
  PROVE  IInv'
<1>1. /\ todo[r] = <<>>
      /\ reading[r].op = "hand-off"
      /\ ReadFits(bounds, Facts(kv), reading[r])
  BY Reading DEF HandOff
<1>2. PICK c : c = reading[r].id
  OBVIOUS
<1>3. PICK claim : claim = reading[r].claim
  OBVIOUS
<1>4. PICK o : o = claim.object
  OBVIOUS
<1>5. c \in Pool["object-claim"] /\ Copied(bounds, Facts(kv), Claim(c), claim)
  BY <1>1, <1>2, <1>3 DEF ReadFits
<1>6. /\ claim \in ClaimRecord /\ ClaimRests(bounds, Facts(kv), c, claim)
      /\ Stored(Claim(c)) /\ Same(bounds, Claim(c), claim, kv[Claim(c)])
  BY <1>5, CopiedClaim
<1>7. CASE WillPut(r, <<>>)
  BY <1>1, <1>7, PlanNone
<1>8. ASSUME SameOwner(claim),
             NEW h \in Given("object-handoff") \union ({claim.handoff} \ {None}),
             NEW status \in HandoffStatus, NEW to \in {claim.owner, claim.claimant},
             WillPut(r, HandoffPuts(h, c, claim, kv[Object(o)], status, to))
      PROVE  IInv'
  <2>1. PICK object : object = kv[Object(o)]
    OBVIOUS
  <2>2. Stored(Object(o)) /\ object.owner = claim.owner
    BY <1>4, <1>8, <2>1 DEF SameOwner
  <2>3. object \in ObjectRecord /\ ObjectRests(bounds, Facts(kv), o, object)
    BY <2>1, <2>2, ObjectsAre
  <2>4. PICK t : t = IF status = "completed" THEN "accepted" ELSE claim.status
    OBVIOUS
  <2>5. t \in ClaimStatus
    <3>1. StatusByDecision["accept"] = "accepted" /\ "accept" \in ClaimDecisions
      BY DEF StatusByDecision, ClaimDecisions
    <3>2. "accepted" \in ClaimStatus
      BY <3>1 DEF ClaimStatus
    <3>3. QED
      BY <1>6, <2>4, <3>2 DEF ClaimRecord
  <2>6. PICK u : u = ClaimNaming(claim, h, t)
    OBVIOUS
  <2>7. PICK v : v = HandedOff(object, h, status, to)
    OBVIOUS
  <2>8. PICK n : n = NewHandoff(c, claim)
    OBVIOUS
  <2>9. /\ n.claim = c /\ n.object = o /\ n.owner = claim.owner
        /\ n.claimant = claim.claimant /\ n.proof = None /\ n \in HandoffRecord
    BY <1>4, <1>5, <1>6, <2>8 DEF NewHandoff, ClaimRecord, HandoffRecord, OrNone
  <2>10. PICK a : a = Writes(Handoff(h), n)
    OBVIOUS
  <2>11. PICK b : b = Writes(Claim(c), u)
    OBVIOUS
  <2>12. PICK w : w = Writes(Object(o), v)
    OBVIOUS
  <2>13. WillPut(r, <<a, b, w>>)
    BY <1>4, <1>8, <2>1, <2>4, <2>6, <2>7, <2>8, <2>10, <2>11, <2>12
    DEF HandoffPuts, ClaimNaming
  <2>14. /\ IsWrite(a) /\ a.key = Handoff(h) /\ a.key[1] = "object-handoff" /\ a.value = n
         /\ IsWrite(b) /\ b.key = Claim(c) /\ b.key[1] = "object-claim" /\ b.value = u
         /\ IsWrite(w) /\ w.key[1] = "object"
    BY <2>10, <2>11, <2>12, PutsAre, MoreKeysAre
  <2>15. /\ h \in Pool["object-handoff"]
         /\ \/ Untaken(Handoff(h)) \/ Handoff(h) \in bounds.again
            \/ Stored(Handoff(h)) /\ Same(bounds, Handoff(h), n, kv[Handoff(h)])
    <3>1. CASE h \in Given("object-handoff")
      BY <3>1, KindsArePooled, GivenIsNew DEF ObjectKinds, Handoff
    <3>2. CASE h = claim.handoff /\ h # None
      <4>1. PICK f \in Facts(kv) :
              /\ f.key = Handoff(h)
              /\ f.key \notin bounds.again =>
                   /\ f.value.claim = c /\ f.value.object = claim.object
                   /\ f.value.owner = claim.owner /\ f.value.claimant = claim.claimant
        BY <1>6, <3>2 DEF ClaimRests
      <4>2. Stored(Handoff(h)) /\ f.value = kv[Handoff(h)]
        BY <4>1, FactsAre DEF Stored
      <4>3. Same(bounds, Handoff(h), n, kv[Handoff(h)])
        BY <1>4, <2>9, <4>1, <4>2, MoreKeysAre DEF Same
      <4>4. QED
        BY <1>6, <3>2, <4>2, <4>3 DEF ClaimRecord, OrNone
    <3>3. QED
      BY <1>8, <3>1, <3>2
  <2>16. /\ u \in ClaimRecord /\ u.object = o /\ u.owner = claim.owner
         /\ u.claimant = claim.claimant /\ u.handoff = h
    BY <1>4, <1>6, <2>5, <2>6, <2>15, NamingClaim
  <2>17. PutFits(bounds, Facts(kv), a)
    <3>1. Has(Facts(kv), Claim(c))
      BY <1>6, StoredFits
    <3>2. HandoffRests(bounds, Facts(kv), h, n)
      BY <2>9, <3>1 DEF HandoffRests
    <3>3. QED
      BY <2>9, <2>10, <3>2, GoodObject, WriteFits
  <2>18. PutFits(bounds, Facts(kv) \union {a}, b)
    <3>1. ClaimRests(bounds, Facts(kv) \union {a}, c, u)
      BY <2>9, <2>14, <2>16 DEF ClaimRests
    <3>2. QED
      BY <2>11, <2>16, <3>1, GoodObject, WriteFits
  <2>19. PutFits(bounds, Facts(kv) \union {a, b}, w)
    <3>1. PICK F : F = Facts(kv) \union {a, b}
      OBVIOUS
    <3>2. ObjectRests(bounds, F, o, object)
      BY <2>3, <3>1, MoreFactsGrow, ObjectRestsLonger
    <3>3. OfObject(bounds, F, Handoff(h), o, object.owner)
      BY <2>2, <2>9, <2>14, <3>1 DEF OfObject
    <3>4. PartyOf(bounds, F, to, Handoff(h)) /\ to \in Identities
      BY <1>6, <1>8, <2>9, <2>14, <3>1 DEF PartyOf, ClaimRecord
    <3>5. v \in ObjectRecord /\ ObjectRests(bounds, F, o, v)
      BY <1>8, <2>3, <2>7, <2>15, <3>2, <3>3, <3>4, HandedObject
    <3>6. QED
      BY <2>12, <3>1, <3>5, GoodObject, WriteFits
  <2>20. Joins(a)
    BY <2>14, <2>15, AgainIsFree, NewJoins
  <2>21. Joins(b)
    <3>1. Same(bounds, Claim(c), u, kv[Claim(c)])
      BY <1>4, <1>6, <2>16, MoreKeysAre DEF Same
    <3>2. QED
      BY <1>6, <2>14, <3>1, NewJoins
  <2>22. Joins(w)
    BY <2>14, PlainJoins DEF FreeKinds
  <2>23. QED
    BY <1>1, <2>13, <2>14, <2>17, <2>18, <2>19, <2>20, <2>21, <2>22, PlanThree
<1>9. QED
  BY <1>2, <1>3, <1>4, <1>7, <1>8 DEF HandOff

HandoffWith(handoff, p) == [handoff EXCEPT !.proof = p]

(* A proof is of the handoff, and of its claim; the handoff then names it. *)
LEMMA AttachProofKeeps ==
  ASSUME IInv, NEW r \in Requests, AttachProof(r)
  PROVE  IInv'
<1>1. PICK h \in Chosen("object-handoff"), p \in Given("handoff-proof") :
        Stored(Handoff(h)) /\ Goes(r, ProofPuts(p, h, kv[Handoff(h)]))
  BY DEF AttachProof
<1>2. PICK handoff : handoff = kv[Handoff(h)]
  OBVIOUS
<1>3. handoff \in HandoffRecord /\ HandoffRests(bounds, Facts(kv), h, handoff)
  BY <1>1, <1>2, ObjectsAre
<1>4. h \in Pool["object-handoff"]
  BY ChosenIsPooled, KindsArePooled DEF ObjectKinds
<1>5. /\ p \in Pool["handoff-proof"]
      /\ Untaken(Proof(p)) \/ Proof(p) \in bounds.again
  BY KindsArePooled, GivenIsNew DEF Proof
<1>6. PICK u : u = [handoff |-> h, claim |-> handoff.claim,
                    owner |-> handoff.owner, claimant |-> handoff.claimant]
  OBVIOUS
<1>7. PICK v : v = HandoffWith(handoff, p)
  OBVIOUS
<1>8. /\ u \in ProofRecord /\ u.handoff = h /\ u.claim = handoff.claim
      /\ u.owner = handoff.owner /\ u.claimant = handoff.claimant
  BY <1>3, <1>4, <1>6 DEF ProofRecord, HandoffRecord
<1>9. /\ v \in HandoffRecord /\ v.claim = handoff.claim /\ v.object = handoff.object
      /\ v.owner = handoff.owner /\ v.claimant = handoff.claimant /\ v.proof = p
  <2>1. v \in HandoffRecord
    BY <1>3, <1>5, <1>7 DEF HandoffWith, HandoffRecord, OrNone
  <2>2. QED
    BY <1>3, <1>7, <2>1 DEF HandoffWith, HandoffRecord
<1>10. PICK a : a = Writes(Proof(p), u)
  OBVIOUS
<1>11. PICK b : b = Writes(Handoff(h), v)
  OBVIOUS
<1>12. todo[r] = <<>> /\ WillPut(r, <<a, b>>)
  BY <1>1, <1>2, <1>6, <1>7, <1>10, <1>11, Arriving DEF Goes, ProofPuts, HandoffWith
<1>13. /\ IsWrite(a) /\ a.key = Proof(p) /\ a.key[1] = "handoff-proof" /\ a.value = u
       /\ IsWrite(b) /\ b.key = Handoff(h) /\ b.key[1] = "object-handoff" /\ b.value = v
  BY <1>10, <1>11, PutsAre, MoreKeysAre
<1>14. PutFits(bounds, Facts(kv), a)
  <2>1. PICK f \in Facts(kv) : f.key = Handoff(h) /\ f.value = handoff
    BY <1>1, <1>2, FactsAre DEF Stored
  <2>2. ProofRests(bounds, Facts(kv), u)
    BY <1>8, <2>1 DEF ProofRests
  <2>3. QED
    BY <1>8, <1>10, <2>2, GoodObject, WriteFits
<1>15. PutFits(bounds, Facts(kv) \union {a}, b)
  <2>1. Has(Facts(kv) \union {a}, Claim(v.claim))
    BY <1>3, <1>9 DEF HandoffRests, Has
  <2>2. \E f \in Facts(kv) \union {a} :
          f.key = Proof(p) /\ f.value.handoff = h /\ f.value.claim = v.claim
    BY <1>8, <1>9, <1>13
  <2>3. HandoffRests(bounds, Facts(kv) \union {a}, h, v)
    BY <1>9, <2>1, <2>2 DEF HandoffRests
  <2>4. QED
    BY <1>9, <1>11, <2>3, GoodObject, WriteFits
<1>16. Joins(a)
  BY <1>5, <1>13, AgainIsFree, NewJoins
<1>17. Joins(b)
  <2>1. Same(bounds, Handoff(h), v, kv[Handoff(h)])
    BY <1>2, <1>9, MoreKeysAre DEF Same
  <2>2. QED
    BY <1>1, <1>13, <2>1, NewJoins
<1>18. QED
  BY <1>12, <1>13, <1>14, <1>15, <1>16, <1>17, PlanTwo

(* The proof is put back as it is stored, and the handoff as it will be.   *)
LEMMA DecideProofKeeps ==
  ASSUME IInv, NEW r \in Requests, DecideProof(r)
  PROVE  IInv'
<1>1. PICK p \in Chosen("handoff-proof") :
        Stored(Proof(p)) /\ Goes(r, DecisionPuts(p, kv[Proof(p)]))
  BY DEF DecideProof
<1>2. PICK v : v = kv[Proof(p)]
  OBVIOUS
<1>3. v \in ProofRecord /\ ProofRests(bounds, Facts(kv), v)
  BY <1>1, <1>2, ObjectsAre
<1>4. PICK a : a = Writes(Proof(p), v)
  OBVIOUS
<1>5. PICK b : b = PutsBack(Handoff(v.handoff))
  OBVIOUS
<1>6. todo[r] = <<>> /\ WillPut(r, <<a, b>>)
  BY <1>1, <1>2, <1>4, <1>5, Arriving DEF Goes, DecisionPuts
<1>7. /\ IsWrite(a) /\ a.key = Proof(p) /\ a.key[1] = "handoff-proof" /\ a.value = v
      /\ ~IsWrite(b) /\ DOMAIN b = {"key", "back"} /\ b.key[1] = "object-handoff"
  BY <1>4, <1>5, PutsAre, MoreKeysAre
<1>8. PutFits(bounds, Facts(kv), a)
  BY <1>3, <1>4, GoodObject, WriteFits
<1>9. PutFits(bounds, Facts(kv) \union {a}, b)
  BY <1>7 DEF PutFits
<1>10. Joins(a)
  BY <1>1, <1>2, <1>7, NewJoins, SameIsEquivalence
<1>11. QED
  BY <1>6, <1>7, <1>8, <1>9, <1>10, PlanTwo

(* Who attaches a proof is a party of it, and stays one.                   *)
LEMMA ReadToAttachKeeps ==
  ASSUME IInv, NEW r \in Requests, ReadToAttach(r)
  PROVE  IInv'
<1>1. PICK by \in Identities, p \in Chosen("handoff-proof") :
        /\ Stored(Proof(p))
        /\ Party(by, kv[Proof(p)])
        /\ StartReading(r, [op |-> "attach", id |-> p, by |-> by])
  BY DEF ReadToAttach
<1>2. PICK g \in Facts(kv) : g.key = Proof(p) /\ g.value = kv[Proof(p)]
  BY <1>1, FactsAre DEF Stored
<1>3. PICK v : v = [proof |-> p, identity |-> by]
  OBVIOUS
<1>4. v.proof = p /\ v.identity = by
  BY <1>3
<1>5. EvidenceRests(bounds, Facts(kv), v)
  BY <1>1, <1>2, <1>4 DEF EvidenceRests, PartyOf, Party
<1>6. PICK x : x = [op |-> "attach", id |-> p, by |-> by]
  OBVIOUS
<1>7. x.op = "attach" /\ x.id = p /\ x.by = by
  BY <1>6
<1>8. p \in Pool["handoff-proof"]
  BY ChosenIsPooled, KindsArePooled
<1>9. ReadFits(bounds, Facts(kv), x)
  BY <1>3, <1>5, <1>7, <1>8 DEF ReadFits
<1>10. todo[r] = <<>> /\ Reads(r, x)
  BY <1>1, <1>6, Arriving DEF StartReading
<1>11. QED
  BY <1>7, <1>9, <1>10, AskKeeps

(* Evidence rests on the proof that was read.                              *)
LEMMA AttachEvidenceKeeps ==
  ASSUME IInv, NEW r \in Requests, AttachEvidence(r)
  PROVE  IInv'
<1>1. /\ todo[r] = <<>>
      /\ reading[r].op = "attach"
      /\ ReadFits(bounds, Facts(kv), reading[r])
  BY Reading DEF AttachEvidence
<1>2. PICK p : p = reading[r].id
  OBVIOUS
<1>3. PICK by : by = reading[r].by
  OBVIOUS
<1>4. CASE WillPut(r, <<>>)
  BY <1>1, <1>4, PlanNone
<1>5. ASSUME NEW e \in Given("ican-evidence"), WillPut(r, EvidencePuts(e, p, by))
      PROVE  IInv'
  <2>1. PICK v : v = [proof |-> p, identity |-> by]
    OBVIOUS
  <2>2. EvidenceRests(bounds, Facts(kv), v)
    BY <1>1, <1>2, <1>3, <2>1 DEF ReadFits
  <2>3. PICK a : a = Writes(Evidence(e), v)
    OBVIOUS
  <2>4. PICK b : b = Appends(EvidenceOf(p, by), e)
    OBVIOUS
  <2>5. WillPut(r, <<a, b>>)
    BY <1>5, <2>1, <2>3, <2>4 DEF EvidencePuts
  <2>6. /\ IsWrite(a) /\ a.key[1] = "ican-evidence"
        /\ ~IsWrite(b) /\ b.key[1] = "evidence-of"
    BY <2>3, <2>4, PutsAre, MoreKeysAre, IndexKeysAre
  <2>7. PutFits(bounds, Facts(kv), a)
    BY <2>2, <2>3, GoodObject, WriteFits
  <2>8. PutFits(bounds, Facts(kv) \union {a}, b)
    BY <2>4, IndexKeysAre, AppendsFit DEF IndexKinds
  <2>9. Joins(a)
    BY <2>6, PlainJoins DEF FreeKinds
  <2>10. QED
    BY <1>1, <2>5, <2>6, <2>7, <2>8, <2>9, PlanTwo
<1>6. QED
  BY <1>2, <1>3, <1>4, <1>5 DEF AttachEvidence

(* Each of the object workers keeps IInv.                                  *)
LEMMA ObjectStepKeeps ==
  ASSUME IInv, NEW r \in Requests, ObjectStep(r)
  PROVE  IInv'
<1>1. ClaimStep(r) => IInv'
  BY PostObjectKeeps, ReadToClaimKeeps, ReadLatestKeeps, ClaimObjectKeeps,
     ReadToDecideKeeps, DecideClaimKeeps, ReadToHandOffKeeps, HandOffKeeps
  DEF ClaimStep
<1>2. QED
  BY <1>1, AttachProofKeeps, DecideProofKeeps, ReadToAttachKeeps,
     AttachEvidenceKeeps
  DEF ObjectStep

-----------------------------------------------------------------------------
(* Accounts and their entry.                                               *)

(* What a record of an account, under its key, has to be.                  *)
LEMMA GoodEntry ==
  ASSUME NEW b, NEW F, NEW i, NEW v
  PROVE  /\ v \in [email : Emails] /\ v # Consumed => Good(b, F, Setup(i), v)
         /\ v = Consumed /\ SetupRests(F, i, v) => Good(b, F, Setup(i), v)
         /\ IsUser(v) => Good(b, F, User(i), v)
         /\ v \in b.pool["user"] /\ UserHas(F, v, i) => Good(b, F, UserEmail(i), v)
         /\ v \in SessionRecord /\ UserHas(F, v.identity, v.email) => Good(b, F, Session(i), v)
<1>1. v # Consumed => SetupRests(F, i, v)
  BY DEF SetupRests
<1>2. QED
  BY <1>1, MoreKeysAre DEF Good, Shaped, Rests

(* The mail of a token is the first that is put under it.                  *)
LEMMA SendVerificationKeeps ==
  ASSUME IInv, NEW r \in Requests, SendVerification(r)
  PROVE  IInv'
<1>1. PICK e \in Chosen("user-email"), t \in Minted("setup") :
        Goes(r, <<Writes(Setup(t), [email |-> e])>>)
  BY DEF SendVerification
<1>2. e \in Emails
  BY ChosenIsPooled, KindsArePooled DEF EntryKinds, Emails
<1>3. t \in Pool["setup"] /\ Untaken(Setup(t))
  BY KindsArePooled, MintedIsNew DEF EntryKinds, Setup
<1>4. PICK v : v = [email |-> e]
  OBVIOUS
<1>5. v \in [email : Emails] /\ v \notin {Consumed, Expired}
  <2>1. v \in [email : Emails]
    BY <1>2, <1>4
  <2>2. QED
    BY <2>1, EntryAssumption DEF Emails
<1>6. PICK a : a = Writes(Setup(t), v)
  OBVIOUS
<1>7. todo[r] = <<>> /\ WillPut(r, <<a>>)
  BY <1>1, <1>4, <1>6, Arriving DEF Goes
<1>8. a.key = Setup(t) /\ a.key[1] = "setup" /\ a.value = v
  BY <1>6, PutsAre, MoreKeysAre
<1>9. PutFits(bounds, Facts(kv), a)
  <2>1. Good(bounds, Facts(kv), Setup(t), v)
    BY <1>5, GoodEntry
  <2>2. QED
    BY <1>6, <2>1, WriteFits
<1>10. Joins(a)
  <2>1. \A i : a.key # Ping(i)
    BY <1>8, KeysAre
  <2>2. QED
    BY <1>3, <1>5, <1>8, <2>1 DEF Joins
<1>11. QED
  BY <1>7, <1>9, <1>10, PlanOne

(* Who reads a token says of it what it says.                              *)
LEMMA ReadSetupKeeps ==
  ASSUME IInv, NEW r \in Requests, ReadSetup(r)
  PROVE  IInv'
<1>1. PICK t \in Chosen("setup"), w \in Passwords :
        /\ Live(t)
        /\ StartReading(r, [op |-> "set", id |-> t, password |-> w,
                            email |-> kv[Setup(t)].email])
  BY DEF ReadSetup
<1>2. PICK x : x = [op |-> "set", id |-> t, password |-> w, email |-> kv[Setup(t)].email]
  OBVIOUS
<1>3. x.op = "set" /\ x.id = t /\ x.password = w /\ x.email = kv[Setup(t)].email
  BY <1>2
<1>4. t \in bounds.pool["setup"]
  BY DEF Chosen
<1>5. kv[Setup(t)] \in [email : Emails]
  <2>1. Stored(Setup(t)) /\ kv[Setup(t)] \notin {Consumed, Expired}
    BY <1>1 DEF Live
  <2>2. Good(bounds, Facts(kv), Setup(t), kv[Setup(t)])
    BY <2>1, StoredFits
  <2>3. QED
    BY <2>1, <2>2, MoreKeysAre DEF Good, Shaped
<1>6. ReadFits(bounds, Facts(kv), x)
  BY <1>3, <1>4, <1>5 DEF ReadFits
<1>7. Says(x.id, x.email)
  BY <1>1, <1>3 DEF Says
<1>8. todo[r] = <<>> /\ Reads(r, x)
  BY <1>1, <1>2, Arriving DEF StartReading
<1>9. QED
  BY <1>3, <1>6, <1>7, <1>8, AskKeeps

(* The user comes first, and what rests on the user after; the token goes
   last, when both are put.                                                *)
LEMMA SetPasswordKeeps ==
  ASSUME IInv, NEW r \in Requests, SetPassword(r)
  PROVE  IInv'
<1>1. /\ todo[r] = <<>>
      /\ reading[r] # None /\ reading[r].op = "set"
      /\ ReadFits(bounds, Facts(kv), reading[r])
  BY Reading DEF SetPassword
<1>2. PICK y : y = reading[r]
  OBVIOUS
<1>3. PICK t : t = y.id
  OBVIOUS
<1>4. PICK e : e = y.email
  OBVIOUS
<1>5. PICK s \in Minted("session") : WillPut(r, EntryPuts(t, s, e, y.password))
  BY <1>2, <1>3, <1>4 DEF SetPassword
<1>6. t \in bounds.pool["setup"] /\ e \in Emails /\ y.password \in Passwords
  BY <1>1, <1>2, <1>3, <1>4 DEF ReadFits
<1>7. /\ t \in bounds.pool["user"] /\ t \in Pool["user"] /\ t \in Pool["setup"]
  BY <1>6, ScenesFit, KindsArePooled DEF EntryKinds
<1>8. Says(t, e)
  BY <1>1, <1>2, <1>3, <1>4 DEF Says
<1>9. Stored(Setup(t))
  BY <1>6, <1>7, <1>8 DEF IInv, TokensApart
<1>10. PICK u : u = [email |-> e, hash |-> Hash(e, y.password, SetRounds)]
  OBVIOUS
<1>11. IsUser(u) /\ u.email = e
  BY <1>6, <1>10 DEF IsUser, Hash
<1>12. PICK v : v = [identity |-> t, email |-> e, by |-> "setup"]
  OBVIOUS
<1>13. v \in SessionRecord /\ v.identity = t /\ v.email = e
  BY <1>6, <1>7, <1>12 DEF SessionRecord
<1>14. PICK a : a = Writes(User(t), u)
  OBVIOUS
<1>15. PICK b : b = Writes(UserEmail(e), t)
  OBVIOUS
<1>16. PICK w : w = Writes(Session(s), v)
  OBVIOUS
<1>17. PICK z : z = Writes(Setup(t), Consumed)
  OBVIOUS
<1>18. WillPut(r, <<a, b, w, z>>)
  BY <1>5, <1>10, <1>12, <1>14, <1>15, <1>16, <1>17 DEF EntryPuts
<1>19. /\ IsWrite(a) /\ a.key = User(t) /\ a.key[1] = "user" /\ a.value = u
       /\ IsWrite(b) /\ b.key = UserEmail(e) /\ b.key[1] = "user-email"
       /\ IsWrite(w) /\ w.key[1] = "session"
       /\ IsWrite(z) /\ z.key = Setup(t) /\ z.key[1] = "setup" /\ z.value = Consumed
  BY <1>14, <1>15, <1>16, <1>17, PutsAre, MoreKeysAre
<1>20. PutFits(bounds, Facts(kv), a)
  <2>1. Good(bounds, Facts(kv), User(t), u)
    BY <1>11, GoodEntry
  <2>2. QED
    BY <1>14, <2>1, WriteFits
<1>21. PutFits(bounds, Facts(kv) \union {a}, b)
  <2>1. UserHas(Facts(kv) \union {a}, t, e)
    BY <1>11, <1>19 DEF UserHas
  <2>2. Good(bounds, Facts(kv) \union {a}, UserEmail(e), t)
    BY <1>7, <2>1, GoodEntry
  <2>3. QED
    BY <1>15, <2>2, WriteFits
<1>22. PutFits(bounds, Facts(kv) \union {a, b}, w)
  <2>1. UserHas(Facts(kv) \union {a, b}, t, e)
    BY <1>11, <1>19 DEF UserHas
  <2>2. Good(bounds, Facts(kv) \union {a, b}, Session(s), v)
    BY <1>13, <2>1, GoodEntry
  <2>3. QED
    BY <1>16, <2>2, WriteFits
<1>23. PutFits(bounds, Facts(kv) \union {a, b, w}, z)
  <2>1. Has(Facts(kv) \union {a, b, w}, UserEmail(e))
    BY <1>19 DEF Has
  <2>2. SetupRests(Facts(kv) \union {a, b, w}, t, Consumed)
    BY <1>11, <1>19, <2>1 DEF SetupRests
  <2>3. Good(bounds, Facts(kv) \union {a, b, w}, Setup(t), Consumed)
    BY <2>2, GoodEntry
  <2>4. QED
    BY <1>17, <2>3, WriteFits
<1>24. Joins(a)
  <2>1. \A i : a.key # Ping(i)
    BY <1>19, KeysAre
  <2>2. QED
    BY <1>7, <1>8, <1>11, <1>19, <2>1 DEF Joins
<1>25. Joins(b) /\ Joins(w)
  BY <1>19, PlainJoins DEF FreeKinds
<1>26. Joins(z)
  <2>1. \A i : z.key # Ping(i)
    BY <1>19, KeysAre
  <2>2. Free(z.key)
    BY <1>19 DEF Free, Same
  <2>3. QED
    BY <1>9, <1>19, <2>1, <2>2 DEF Joins
<1>27. QED
  BY <1>1, <1>18, <1>19, <1>20, <1>21, <1>22, <1>23, <1>24, <1>25, <1>26, PlanFour

(* The identity an email is looked up under is of a user who has it.       *)
LEMMA ReadLoginKeeps ==
  ASSUME IInv, NEW r \in Requests, ReadLogin(r)
  PROVE  IInv'
<1>1. PICK e \in Chosen("user-email"), w \in Passwords :
        /\ Stored(UserEmail(e))
        /\ StartReading(r, [op |-> "login", id |-> kv[UserEmail(e)], email |-> e,
                            password |-> w])
  BY DEF ReadLogin
<1>2. PICK x : x = [op |-> "login", id |-> kv[UserEmail(e)], email |-> e, password |-> w]
  OBVIOUS
<1>3. x.op = "login" /\ x.id = kv[UserEmail(e)] /\ x.email = e
  BY <1>2
<1>4. e \in Emails
  BY ChosenIsPooled, KindsArePooled DEF EntryKinds, Emails
<1>5. /\ kv[UserEmail(e)] \in bounds.pool["user"]
      /\ UserHas(Facts(kv), kv[UserEmail(e)], e)
  <2>1. Good(bounds, Facts(kv), UserEmail(e), kv[UserEmail(e)])
    BY <1>1, StoredFits
  <2>2. QED
    BY <2>1, MoreKeysAre DEF Good, Shaped, Rests
<1>6. kv[UserEmail(e)] \in Pool["user"]
  BY <1>5, ScenesFit, KindsArePooled DEF EntryKinds
<1>7. ReadFits(bounds, Facts(kv), x)
  BY <1>3, <1>4, <1>5, <1>6 DEF ReadFits
<1>8. todo[r] = <<>> /\ Reads(r, x)
  BY <1>1, <1>2, Arriving DEF StartReading
<1>9. QED
  BY <1>3, <1>7, <1>8, AskKeeps

(* The session is of that user.                                            *)
LEMMA LoginKeeps ==
  ASSUME IInv, NEW r \in Requests, Login(r)
  PROVE  IInv'
<1>1. /\ todo[r] = <<>>
      /\ reading[r].op = "login"
      /\ ReadFits(bounds, Facts(kv), reading[r])
  BY Reading DEF Login
<1>2. PICK y : y = reading[r]
  OBVIOUS
<1>3. /\ y.id \in Pool["user"] /\ y.email \in Emails
      /\ UserHas(Facts(kv), y.id, y.email)
  BY <1>1, <1>2 DEF ReadFits
<1>4. CASE WillPut(r, <<>>)
  BY <1>1, <1>4, PlanNone
<1>5. ASSUME NEW s \in Minted("session"),
             WillPut(r, <<Writes(Session(s), [identity |-> y.id, email |-> y.email,
                                              by |-> "login"])>>)
      PROVE  IInv'
  <2>1. PICK v : v = [identity |-> y.id, email |-> y.email, by |-> "login"]
    OBVIOUS
  <2>2. v \in SessionRecord /\ v.identity = y.id /\ v.email = y.email
    BY <1>3, <2>1 DEF SessionRecord
  <2>3. PICK a : a = Writes(Session(s), v)
    OBVIOUS
  <2>4. WillPut(r, <<a>>)
    BY <1>5, <2>1, <2>3
  <2>5. a.key[1] = "session"
    BY <2>3, PutsAre, MoreKeysAre
  <2>6. Good(bounds, Facts(kv), Session(s), v)
    BY <1>3, <2>2, GoodEntry
  <2>7. PutFits(bounds, Facts(kv), a)
    BY <2>3, <2>6, WriteFits
  <2>8. Joins(a)
    BY <2>5, PlainJoins DEF FreeKinds
  <2>9. QED
    BY <1>1, <2>4, <2>7, <2>8, PlanOne
<1>6. QED
  BY <1>2, <1>4, <1>5 DEF Login

(* Nothing rests on a session.                                             *)
LEMMA LogoutKeeps ==
  ASSUME IInv, NEW r \in Requests, Logout(r)
  PROVE  IInv'
<1>1. PICK s \in Chosen("session") : Goes(r, <<Deletes(Session(s))>>)
  BY DEF Logout
<1>2. PICK a : a = Deletes(Session(s))
  OBVIOUS
<1>3. todo[r] = <<>> /\ WillPut(r, <<a>>)
  BY <1>1, <1>2, Arriving DEF Goes
<1>4. DOMAIN a = {"key"} /\ ~IsWrite(a) /\ a.key[1] = "session"
  BY <1>2, PutsAre, MoreKeysAre
<1>5. PutFits(bounds, Facts(kv), a)
  BY <1>4 DEF PutFits
<1>6. QED
  BY <1>3, <1>4, <1>5, PlanOne

(* Each of the entry workers keeps IInv.                                   *)
LEMMA EntryStepKeeps ==
  ASSUME IInv, NEW r \in Requests, EntryStep(r)
  PROVE  IInv'
BY SendVerificationKeeps, ReadSetupKeeps, SetPasswordKeeps, ReadLoginKeeps, LoginKeeps,
   LogoutKeeps
DEF EntryStep

-----------------------------------------------------------------------------
(* The invariant, and what follows from it.                                *)

(* What earlier requests may have left fits: no one has asked anything yet,
   and nothing that is stored speaks of a token or of an event.            *)
LEMMA InitIInv ==
  ASSUME Init
  PROVE  IInv
<1>1. /\ scene \in DOMAIN Bounds /\ kv = bounds.given
      /\ reading = [r \in Requests |-> None] /\ todo = [r \in Requests |-> <<>>]
      /\ crashes = 0
  BY DEF Init
<1>2. bounds = Bounds[scene] /\ GivenFits(kv) /\ bounds.crashes \in Nat
  BY <1>1, StoreAssumption, WorkersAssumption DEF bounds
<1>3. \A key \in DOMAIN kv : key[1] \in {"relevance", "object", "object-claim", "claims-by"}
  BY <1>2 DEF GivenFits
<1>4. \A r \in Requests : reading[r] = None /\ todo[r] = <<>>
  BY <1>1
<1>5. \A r \in Requests : DOMAIN todo[r] = {}
  BY <1>4
<1>6. StoreFits(bounds, kv)
  <2>1. SUFFICES ASSUME NEW key \in DOMAIN kv
                 PROVE  Good(bounds, Facts(kv), key, kv[key])
    BY DEF StoreFits
  <2>2. CASE key[1] = "relevance"
    <3>1. kv[key] \in RelevanceRecord
      BY <1>2, <2>2 DEF GivenFits
    <3>2. QED
      BY <2>2, <3>1 DEF Good, Shaped, Rests
  <2>3. CASE key[1] = "object"
    <3>1. PICK v : v = kv[key]
      OBVIOUS
    <3>2. /\ v \in ObjectRecord /\ v.handoff = None /\ v.status # "handed_off"
          /\ v.claim # None =>
               /\ Claim(v.claim) \in DOMAIN kv
               /\ kv[Claim(v.claim)].object = key[2]
               /\ kv[Claim(v.claim)].owner = v.owner
      BY <1>2, <2>3, <3>1 DEF GivenFits
    <3>3. v.claim # None => OfObject(bounds, Facts(kv), Claim(v.claim), key[2], v.owner)
      BY <3>2, FactsAre DEF OfObject
    <3>4. ObjectRests(bounds, Facts(kv), key[2], v)
      BY <3>2, <3>3 DEF ObjectRests
    <3>5. QED
      BY <2>3, <3>1, <3>2, <3>4 DEF Good, Shaped, Rests
  <2>4. CASE key[1] = "object-claim"
    <3>1. kv[key] \in ClaimRecord /\ kv[key].handoff = None
      BY <1>2, <2>4 DEF GivenFits
    <3>2. QED
      BY <2>4, <3>1 DEF Good, Shaped, Rests, ClaimRests
  <2>5. CASE key[1] = "claims-by"
    BY <2>5 DEF Good, Shaped, Rests
  <2>6. QED
    BY <1>3, <2>2, <2>3, <2>4, <2>5
<1>7. \A r \in Requests : RequestFits(r)
  BY <1>4, NoPuts DEF RequestFits
<1>8. Agreeing
  BY <1>5 DEF Agreeing
<1>9. \A t, e : ~Says(t, e)
  BY <1>3, <1>4, <1>5, MoreKeysAre DEF Says, Live, Stored
<1>10. TokensApart
  BY <1>5, <1>9 DEF TokensApart
<1>11. \A p, x : ~Names(p, x)
  BY <1>3, <1>4, <1>5, KeysAre DEF Names, Stored
<1>12. EventsApart
  BY <1>11 DEF EventsApart
<1>13. QED
  BY <1>1, <1>2, <1>6, <1>7, <1>8, <1>10, <1>12 DEF IInv

(* One case per family of actions.                                         *)
LEMMA NextIInv ==
  ASSUME IInv, [Next]_vars
  PROVE  IInv'
<1>1. CASE \E t \in Chosen("setup") : ExpireToken(t)
  BY <1>1, ExpireKeeps
<1>2. CASE \E r \in Requests : PingStep(r)
  BY <1>2, PingStepKeeps
<1>3. CASE \E r \in Requests : FieldStep(r)
  BY <1>3, FieldStepKeeps
<1>4. CASE \E r \in Requests : ObjectStep(r)
  BY <1>4, ObjectStepKeeps
<1>5. CASE \E r \in Requests : EntryStep(r)
  BY <1>5, EntryStepKeeps
<1>6. CASE \E r \in Requests : Put(r)
  BY <1>6, PutKeeps
<1>7. CASE \E r \in Requests : Crash(r)
  BY <1>7, CrashKeeps
<1>8. CASE UNCHANGED vars
  <2>1. /\ kv' = kv /\ reading' = reading /\ todo' = todo
        /\ crashes' = crashes /\ scene' = scene /\ bounds' = bounds
    BY <1>8 DEF vars, bounds
  <2>2. /\ (\A r \in Requests : RequestFits(r)) => \A r \in Requests : RequestFits(r)'
        /\ StoreFits(bounds, kv)' <=> StoreFits(bounds, kv)
    BY <2>1 DEF RequestFits
  <2>3. Agreeing' <=> Agreeing
    BY <2>1 DEF Agreeing, Stored
  <2>4. TokensApart' <=> TokensApart
    BY <2>1 DEF TokensApart, Says, Live, Stored, Mails
  <2>5. EventsApart' <=> EventsApart
    BY <2>1 DEF EventsApart, Names, Stored
  <2>6. QED
    BY <2>1, <2>2, <2>3, <2>4, <2>5 DEF IInv
<1>9. QED
  BY <1>1, <1>2, <1>3, <1>4, <1>5, <1>6, <1>7, <1>8 DEF Next

(* Whatever overlaps and is cut off, every record that is stored or will be
   put rests on what is stored or put before it.                           *)
THEOREM WorkersFit == Spec => []IInv
<1>1. Init => IInv
  BY InitIInv
<1>2. IInv /\ [Next]_vars => IInv'
  BY NextIInv
<1>3. QED
  BY <1>1, <1>2, PTL DEF Spec

(* A session enters the dashboard of the user who has its email, and an
   email is looked up under a user who has it.                             *)
THEOREM WorkersEnter == Spec => []EntryBacked
<1>1. IInv => EntryBacked
  <2>1. SUFFICES ASSUME IInv PROVE EntryBacked
    OBVIOUS
  <2>2. \A i, e : UserHas(Facts(kv), i, e) => Stored(User(i)) /\ kv[User(i)].email = e
    BY FactsAre DEF UserHas, Stored
  <2>3. ASSUME NEW s, Stored(Session(s))
        PROVE  UserHas(Facts(kv), kv[Session(s)].identity, kv[Session(s)].email)
    BY <2>1, <2>3, StoredFits, MoreKeysAre DEF Good, Rests
  <2>4. ASSUME NEW e, Stored(UserEmail(e))
        PROVE  UserHas(Facts(kv), kv[UserEmail(e)], e)
    BY <2>1, <2>4, StoredFits, MoreKeysAre DEF Good, Rests
  <2>5. QED
    BY <2>2, <2>3, <2>4 DEF EntryBacked, FoundFor
<1>2. QED
  BY <1>1, WorkersFit, PTL

(* A setup token is used up only when its user can be found by email.      *)
THEOREM WorkersConsume == Spec => []ConsumedWhole
<1>1. IInv => ConsumedWhole
  <2>1. SUFFICES ASSUME IInv, NEW t, Stored(Setup(t)), kv[Setup(t)] = Consumed
                 PROVE  Stored(User(t)) /\ Stored(UserEmail(kv[User(t)].email))
    BY DEF ConsumedWhole
  <2>2. SetupRests(Facts(kv), t, Consumed)
    BY <2>1, StoredFits, MoreKeysAre DEF Good, Rests
  <2>3. PICK f \in Facts(kv) : f.key = User(t) /\ Has(Facts(kv), UserEmail(f.value.email))
    BY <2>2 DEF SetupRests
  <2>4. QED
    BY <2>3, FactsAre DEF Has, Stored
<1>2. QED
  BY <1>1, WorkersFit, PTL

(* Along the chain from an object to the evidence, no record names one that
   is not stored or, unless a client posted another record over that, one
   that is of another claim or of other parties.                           *)
THEOREM WorkersBack == Spec => []RecordsBacked
<1>1. ASSUME IInv PROVE ObjectBacked
  <2>1. \A key, o, owner : OfObject(bounds, Facts(kv), key, o, owner) =>
          Stored(key) /\ (Kept(key) => kv[key].object = o /\ kv[key].owner = owner)
    BY FactsAre DEF OfObject, Stored, Kept
  <2>2. \A i, key : PartyOf(bounds, Facts(kv), i, key) => (Kept(key) => Party(i, kv[key]))
    BY FactsAre DEF PartyOf, Party, Kept
  <2>3. SUFFICES ASSUME NEW o, Stored(Object(o)), NEW object, object = kv[Object(o)]
        PROVE  /\ object.claim # None =>
                    /\ Holds("object-claim", object.claim)
                    /\ Kept(Claim(object.claim)) =>
                         /\ kv[Claim(object.claim)].object = o
                         /\ kv[Claim(object.claim)].owner = object.owner
               /\ object.handoff # None =>
                    /\ Holds("object-handoff", object.handoff)
                    /\ Kept(Handoff(object.handoff)) =>
                         /\ kv[Handoff(object.handoff)].object = o
                         /\ kv[Handoff(object.handoff)].owner = object.owner
                         /\ Party(object.holder, kv[Handoff(object.handoff)])
               /\ object.status = "handed_off" => object.handoff # None
    BY DEF ObjectBacked
  <2>4. object \in ObjectRecord /\ ObjectRests(bounds, Facts(kv), o, object)
    BY <1>1, <2>3, ObjectsAre
  <2>5. ASSUME object.claim # None
        PROVE  /\ Holds("object-claim", object.claim)
               /\ Kept(Claim(object.claim)) =>
                    /\ kv[Claim(object.claim)].object = o
                    /\ kv[Claim(object.claim)].owner = object.owner
    BY <2>1, <2>4, <2>5 DEF ObjectRests, Holds, Claim, ObjectRecord, OrNone
  <2>6. ASSUME object.handoff # None
        PROVE  /\ Holds("object-handoff", object.handoff)
               /\ Kept(Handoff(object.handoff)) =>
                    /\ kv[Handoff(object.handoff)].object = o
                    /\ kv[Handoff(object.handoff)].owner = object.owner
                    /\ Party(object.holder, kv[Handoff(object.handoff)])
    BY <2>1, <2>2, <2>4, <2>6 DEF ObjectRests, Holds, Handoff, ObjectRecord, OrNone
  <2>7. QED
    BY <2>4, <2>5, <2>6 DEF ObjectRests
<1>2. ASSUME IInv PROVE ChainBacked
  <2>1. ASSUME NEW c, Stored(Claim(c)), NEW claim, claim = kv[Claim(c)],
               NEW h, h = Handoff(claim.handoff), claim.handoff # None
        PROVE  /\ Stored(h)
               /\ Kept(h) => /\ kv[h].claim = c /\ kv[h].object = claim.object
                             /\ kv[h].owner = claim.owner
                             /\ kv[h].claimant = claim.claimant
    <3>1. ClaimRests(bounds, Facts(kv), c, claim)
      BY <1>2, <2>1, ObjectsAre
    <3>2. QED
      BY <2>1, <3>1, FactsAre DEF ClaimRests, Stored, Kept
  <2>2. ASSUME NEW h, Stored(Handoff(h)), NEW handoff, handoff = kv[Handoff(h)],
               NEW p, p = Proof(handoff.proof)
        PROVE  /\ Stored(Claim(handoff.claim))
               /\ handoff.proof # None =>
                    /\ Stored(p)
                    /\ Kept(p) => kv[p].handoff = h /\ kv[p].claim = handoff.claim
    <3>1. HandoffRests(bounds, Facts(kv), h, handoff)
      BY <1>2, <2>2, ObjectsAre
    <3>2. QED
      BY <2>2, <3>1, FactsAre DEF HandoffRests, Has, Stored, Kept
  <2>3. ASSUME NEW p, Stored(Proof(p)), NEW proof, proof = kv[Proof(p)],
               NEW h, h = Handoff(proof.handoff)
        PROVE  /\ Stored(h)
               /\ Kept(h) => /\ kv[h].claim = proof.claim
                             /\ kv[h].owner = proof.owner
                             /\ kv[h].claimant = proof.claimant
    <3>1. ProofRests(bounds, Facts(kv), proof)
      BY <1>2, <2>3, ObjectsAre
    <3>2. QED
      BY <2>3, <3>1, FactsAre DEF ProofRests, Stored, Kept
  <2>4. ASSUME NEW e, Stored(Evidence(e)), NEW v, v = kv[Evidence(e)],
               NEW p, p = Proof(v.proof)
        PROVE  Stored(p) /\ (Kept(p) => Party(v.identity, kv[p]))
    <3>1. EvidenceRests(bounds, Facts(kv), v)
      BY <1>2, <2>4, StoredFits, MoreKeysAre DEF Good, Rests
    <3>2. QED
      BY <2>4, <3>1, FactsAre DEF EvidenceRests, PartyOf, Party, Stored, Kept
  <2>5. QED
    BY <2>1, <2>2, <2>3, <2>4 DEF ChainBacked
<1>3. IInv => RecordsBacked
  BY <1>1, <1>2 DEF RecordsBacked
<1>4. QED
  BY <1>3, WorkersFit, PTL

(* A ping says it came of an event that took place between its two ends and
   for an intent, and of one that no other ping came of.                   *)
THEOREM WorkersMeet == Spec => []EventsBacked
<1>1. ASSUME IInv, NEW p \in Chosen("ping"), Stored(Ping(p)), NEW ping,
             ping = kv[Ping(p)], NEW x, x = ping.event, x # None
      PROVE  /\ Stored(Proximity(x))
             /\ kv[Proximity(x)].at = ping.from /\ kv[Proximity(x)].owner = ping.to
             /\ ping.from # ping.to
             /\ kv[Proximity(x)].intent # None
             /\ Stored(Intent(kv[Proximity(x)].intent))
             /\ \A q \in Chosen("ping") : Stored(Ping(q)) /\ kv[Ping(q)].event = x => q = p
  <2>1. ping \in PingRecord /\ PingRests(Facts(kv), p, ping) /\ Names(p, x)
    BY <1>1, PingIs
  <2>2. ping.from # ping.to
    BY <1>1, <2>1 DEF PingRests, MadeByEvent
  <2>3. PICK f \in Facts(kv) : /\ f.key = Proximity(x)
                               /\ f.value.at = ping.from /\ f.value.owner = ping.to
                               /\ f.value.intent # None
    BY <1>1, <2>1 DEF PingRests, MadeByEvent
  <2>4. /\ Stored(Proximity(x)) /\ kv[Proximity(x)].at = ping.from
        /\ kv[Proximity(x)].owner = ping.to /\ kv[Proximity(x)].intent # None
    BY <2>3, FactsAre DEF Stored
  <2>5. EventRests(Facts(kv), x, kv[Proximity(x)])
    BY <1>1, <2>4, StoredFits, KeysAre DEF Good, Rests
  <2>6. Stored(Intent(kv[Proximity(x)].intent))
    BY <2>4, <2>5, FactsAre DEF EventRests, Has, Stored
  <2>7. x \in Pool["proximity"] /\ p \in Pool["ping"]
    BY <1>1, <2>1, ChosenIsPooled, KindsArePooled DEF PingRecord, OrNone, PingKinds
  <2>8. ASSUME NEW q \in Chosen("ping"), Stored(Ping(q)), kv[Ping(q)].event = x
        PROVE  q = p
    <3>1. q \in Pool["ping"]
      BY <1>1, ChosenIsPooled, KindsArePooled DEF PingKinds
    <3>2. Names(q, x)
      BY <2>8 DEF Names
    <3>3. QED
      BY <1>1, <2>1, <2>7, <3>1, <3>2 DEF IInv, EventsApart
  <2>9. QED
    BY <2>2, <2>4, <2>6, <2>8
<1>2. ASSUME IInv, NEW x, Stored(Proximity(x)), NEW z, z = kv[Proximity(x)].exit, z # None
      PROVE  Stored(Exit(z)) /\ kv[Exit(z)].event = x
  <2>1. EventRests(Facts(kv), x, kv[Proximity(x)])
    BY <1>2, StoredFits, KeysAre DEF Good, Rests
  <2>2. QED
    BY <1>2, <2>1, FactsAre DEF EventRests, Stored
<1>3. IInv => EventsBacked
  BY <1>1, <1>2 DEF EventsBacked
<1>4. QED
  BY <1>3, WorkersFit, PTL

(* A ping and a route name what is on record and say of it what is so; a
   delivery is of a ping a throttle let move, between the same two ends.   *)
THEOREM WorkersThrottle == Untold => (Spec => []PingsBacked)
<1>1. SUFFICES ASSUME Untold PROVE Spec => []PingsBacked
  OBVIOUS
<1>2. ASSUME IInv PROVE DeliveryBacked
  <2>1. SUFFICES ASSUME NEW d, Stored(Delivery(d)), NEW v, v = kv[Delivery(d)]
                 PROVE  LetThrough(v.ping_id, v.from, v.to)
    BY DEF DeliveryBacked
  <2>2. LetMove(Facts(kv), bounds, v.ping_id, v)
    BY <1>1, <1>2, <2>1, StoredFits, KeysAre DEF Good, Rests
  <2>3. PICK t \in bounds.pool["ping-throttle"] : \E f \in Facts(kv) :
          /\ f.key = Throttle(t)
          /\ f.value.ping_id = v.ping_id
          /\ f.value.from = v.from /\ f.value.to = v.to
          /\ f.value.decision \in Allowed
    BY <2>2 DEF LetMove
  <2>4. /\ t \in Chosen("ping-throttle") /\ Stored(Throttle(t))
        /\ kv[Throttle(t)].ping_id = v.ping_id
        /\ kv[Throttle(t)].from = v.from /\ kv[Throttle(t)].to = v.to
        /\ kv[Throttle(t)].decision \in Allowed
    BY <2>3, FactsAre DEF Chosen, Stored
  <2>5. QED
    BY <2>4 DEF LetThrough
<1>3. ASSUME IInv PROVE NamesTrue
  <2>1. ASSUME NEW p, Stored(Ping(p)), NEW ping, ping = kv[Ping(p)]
        PROVE  /\ ping.throttle # None =>
                    /\ Stored(Throttle(ping.throttle))
                    /\ kv[Throttle(ping.throttle)].ping_id = p
                    /\ kv[Throttle(ping.throttle)].decision = ping.decision
               /\ ping.route # None => Stored(Route(ping.route))
               /\ ping.delivery # None => Stored(Delivery(ping.delivery))
    <3>1. PingRests(Facts(kv), p, ping)
      BY <1>3, <2>1, PingIs
    <3>2. QED
      BY <3>1, FactsAre DEF PingRests, ThrottledAs, Has, Stored
  <2>2. ASSUME NEW c, Stored(Route(c)), NEW route, route = kv[Route(c)]
        PROVE  /\ Stored(Throttle(route.throttle))
               /\ kv[Throttle(route.throttle)].ping_id = route.ping_id
               /\ kv[Throttle(route.throttle)].decision \in Allowed
    <3>1. RouteRests(Facts(kv), route)
      BY <1>3, <2>2, StoredFits, KeysAre DEF Good, Rests
    <3>2. QED
      BY <1>1, <3>1, FactsAre DEF RouteRests, Stored
  <2>3. QED
    BY <2>1, <2>2 DEF NamesTrue
<1>4. IInv => PingsBacked
  BY <1>2, <1>3 DEF PingsBacked
<1>5. QED
  BY <1>4, WorkersFit, PTL

(* Every record is what its readers take it for, whoever stored it.        *)
THEOREM WorkersTypes == Untold => (Spec => []TypeOK)
<1>1. SUFFICES ASSUME Untold PROVE Spec => []TypeOK
  OBVIOUS
<1>2. ASSUME IInv
      PROVE  \A key : Stored(key) => Shaped(bounds, key, kv[key])
  BY <1>2, StoredFits DEF Good
<1>3. ASSUME IInv PROVE PingsTyped
  <2>1. ASSUME NEW c, Stored(Route(c)) PROVE kv[Route(c)] \in RouteRecord
    <3>1. kv[Route(c)] \in Routed /\ kv[Route(c)].throttle \in Pool["ping-throttle"]
      BY <1>1, <1>2, <1>3, <2>1, KeysAre, ScenesFit, KindsArePooled DEF Shaped, PingKinds
    <3>2. QED
      BY <3>1 DEF Routed, RouteRecord
  <2>2. ASSUME NEW d, Stored(Delivery(d)) PROVE kv[Delivery(d)] \in DeliveryRecord
    <3>1. /\ kv[Delivery(d)] \in Delivered
          /\ kv[Delivery(d)].throttle # None /\ kv[Delivery(d)].decision # None
      BY <1>1, <1>2, <1>3, <2>2, KeysAre DEF Shaped
    <3>2. QED
      BY <3>1 DEF Delivered, DeliveryRecord, OrNone
  <2>3. ASSUME NEW p
        PROVE  /\ Stored(Ping(p)) => kv[Ping(p)] \in PingRecord
               /\ Stored(Throttle(p)) => kv[Throttle(p)] \in ThrottleRecord
    BY <1>2, <1>3, KeysAre DEF Shaped
  <2>4. QED
    BY <2>1, <2>2, <2>3 DEF PingsTyped
<1>4. ASSUME IInv PROVE FieldsTyped
  BY <1>2, <1>4, KeysAre DEF Shaped, FieldsTyped
<1>5. ASSUME IInv PROVE ObjectsTyped
  BY <1>5, ObjectsAre DEF ObjectsTyped
<1>6. ASSUME IInv PROVE EntryTyped
  BY <1>2, <1>6, MoreKeysAre DEF Shaped, EntryTyped, IsUser, Chosen
<1>7. IInv => crashes \in 0..bounds.crashes
  BY DEF IInv
<1>8. IInv => TypeOK
  BY <1>3, <1>4, <1>5, <1>6, <1>7 DEF TypeOK
<1>9. QED
  BY <1>8, WorkersFit, PTL
=============================================================================
