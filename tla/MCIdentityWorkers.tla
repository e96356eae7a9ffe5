------------------------- MODULE MCIdentityWorkers -------------------------
(***************************************************************************)
(* IdentityWorkers for TLC, in scenes: a scene has identifiers for some    *)
(* kinds of record, and the requests that store others stand aside.        *)
(***************************************************************************)
EXTENDS IdentityWorkers, TLC

CONSTANTS ann, bob,            \* identities
          v1, p1, p2, t1, t2, c1, d1,      \* pings and what moves them
          f1, n1, x1, z1,                  \* fields and what happens there
          o1, o2, k1, k2, h1, q1, e1, e2,  \* objects and what comes of them
          u1, u2, s1, s2                   \* setup tokens and sessions

Kinds == PingKinds \union FieldKinds \union EntryKinds \union ObjectKinds
           \union {"handoff-proof", "ican-evidence"}

NoIds == [k \in Kinds |-> {}]

Scene(oneByOne, cut, given, pool) ==
  [oneByOne |-> oneByOne, crashes |-> cut, given |-> given, pool |-> pool,
   again |-> {}, decisions |-> ClaimDecisions]

OneAtATime(cut, pool) == Scene(TRUE, cut, <<>>, pool)
Overlapping(pool) == Scene(FALSE, 0, <<>>, pool)

(* One ping, through to its delivery; ann found something relevant.        *)
OnePing ==
  [NoIds EXCEPT !["relevance"] = {v1}, !["ping"] = {p1},
                !["ping-throttle"] = {t1, t2}, !["carrier-route"] = {c1},
                !["ping-delivery"] = {d1}]

Found == Relevance(v1) :> [identity |-> ann, relevant |-> TRUE]

Moving ==
  <<Scene(TRUE, 1, Found, OnePing),
    Overlapping([OnePing EXCEPT !["relevance"] = {}])>>

(* A field and its closing; an intent that relevance is checked for, in a
   field; and what comes near an intent, up to two pings.                  *)
FieldPool(walkers) ==
  [NoIds EXCEPT !["current-field"] = walkers, !["field"] = {f1}]

RelevancePool ==
  [FieldPool({ann}) EXCEPT !["intent"] = {n1}, !["relevance"] = {v1}, !["ping"] = {p1, p2}]

EventPool ==
  [NoIds EXCEPT !["current-field"] = {ann}, !["intent"] = {n1},
                !["proximity"] = {x1}, !["proximity-exit"] = {z1}, !["ping"] = {p1, p2}]

Coming ==
  <<OneAtATime(1, FieldPool({ann, bob})), OneAtATime(1, RelevancePool),
    OneAtATime(1, EventPool), Overlapping(EventPool)>>

(* Two claims, or a claim with its handoff, proof and evidence.            *)
ObjectPool(claims, handoffs, proofs, evidence) ==
  [NoIds EXCEPT !["object"] = {o1}, !["object-claim"] = claims,
                !["object-handoff"] = handoffs, !["handoff-proof"] = proofs,
                !["ican-evidence"] = evidence]

Deciding(decisions, one) == [one EXCEPT !.decisions = decisions]

(* bob has claimed what ann posted, and she accepted.                      *)
Accepted ==
  Object(o1) :> [owner |-> ann, status |-> "reserved", claim |-> k1,
                 handoff |-> None, holder |-> None]
  @@ Claim(k1) :> [object |-> o1, owner |-> ann, claimant |-> bob,
                   status |-> "accepted", handoff |-> None]
  @@ ClaimsBy(o1, bob) :> {k1}

(* One request at a time: on two claims, on a claim and its handoff, from an
   accepted claim to evidence.  Then with overlap: a first or second claim,
   an accepted claim and its handoff, on to evidence.                      *)
Changing ==
  <<OneAtATime(0, ObjectPool({k1, k2}, {}, {}, {})),
    OneAtATime(1, ObjectPool({k1}, {h1}, {}, {})),
    Scene(TRUE, 1, Accepted, ObjectPool({k1}, {h1}, {q1}, {e1, e2})),
    Deciding({"accept", "cancel"}, Overlapping(ObjectPool({k1}, {}, {}, {}))),
    Deciding({"accept", "cancel"},
             Scene(FALSE, 0, Accepted, ObjectPool({k1, k2}, {}, {}, {}))),
    Deciding({"accept", "cancel"},
             Scene(FALSE, 0, Accepted, ObjectPool({k1}, {h1}, {}, {}))),
    Deciding({"accept"},
             Scene(FALSE, 0, Accepted, ObjectPool({k1}, {h1}, {q1}, {e1})))>>

(* Clients send identifiers of what is stored: one request at a time, of a
   claim for one on another object, of a handoff for one of another claim, of
   what was made of an accepted claim; then with overlap.                  *)
PostedAgain(keys, one) == [one EXCEPT !.again = keys]

TwoObjects(pool) == [pool EXCEPT !["object"] = {o1, o2}]

RepostingInTurn ==
  <<PostedAgain({Claim(k1)}, OneAtATime(0, TwoObjects(ObjectPool({k1}, {}, {}, {})))),
    PostedAgain({Handoff(h1)}, Deciding({"accept", "cancel"},
      Scene(TRUE, 1, Accepted, ObjectPool({k1, k2}, {h1}, {}, {})))),
    PostedAgain({Handoff(h1), Proof(q1), Evidence(e1)},
      Scene(TRUE, 1, Accepted, ObjectPool({k1}, {h1}, {q1}, {e1, e2})))>>

RepostingTogether ==
  <<PostedAgain({Claim(k1), Handoff(h1)}, Deciding({"accept"},
      Scene(FALSE, 0, Accepted, ObjectPool({k1}, {h1}, {}, {})))),
    PostedAgain({Proof(q1), Evidence(e1)}, Deciding({"accept"},
      Scene(FALSE, 0, Accepted, ObjectPool({k1}, {h1}, {q1}, {e1}))))>>

(* Two emails, or two requests on one.                                     *)
EntryPool(emails) ==
  [NoIds EXCEPT !["setup"] = {u1, u2}, !["user"] = {u1, u2},
                !["user-email"] = emails, !["session"] = {s1, s2}]

Entering == <<OneAtATime(1, EntryPool({ann, bob})), Overlapping(EntryPool({ann}))>>

Scenes ==
  Moving \o Coming \o Changing \o RepostingInTurn \o RepostingTogether \o Entering

Whole ==
  [k \in Kinds |-> UNION {Scenes[n].pool[k] : n \in DOMAIN Scenes}]

TwoEnds == {<<bob, ann>>, <<ann, ann>>}

(* One request at a time, of one email.                                    *)
Returning == <<OneAtATime(0, EntryPool({ann}))>>

Interchangeable == Permutations(Requests)
=============================================================================
