---------------------------- MODULE PingPipeline ----------------------------
(***************************************************************************)
(* How a ping moves from one identity to another, over six workers that    *)
(* share the namespace env.IDENTITY:                                       *)
(*                                                                         *)
(*   ping, ping-from-relevance  create the ping                            *)
(*   ping-throttle              decides whether it may move now            *)
(*   carrier-route              selects a route for one that may           *)
(*   ping-delivery              records the delivery over a route          *)
(*   ping-ack                   the receiver, or the sender, acts on it    *)
(*                                                                         *)
(* Every get and put is awaited on its own, other requests run in between  *)
(* and a worker may be cut off at each.  All the workers put the ping back *)
(* whole, from the copy they read first.  The indexes nothing decides by,  *)
(* the trails, surfaces, presence and the passing of time are left out:    *)
(* all the throttles of a behaviour fall within one hour.                  *)
(***************************************************************************)
EXTENDS IdentityStore

CONSTANTS
  Ends,         \* bound: the <<sender, receiver>> pings are created between
  Acted,        \* bound: the actions taken on pings
  RecentLimit,  \* bound: throttles to one receiver that make the next one hold
  Requested,    \* the decisions a request to throttle may ask for
  PostedPings   \* bound: the statuses a ping from relevance is posted with

PingKinds ==
  {"relevance", "ping", "ping-throttle", "carrier-route", "ping-delivery"}

Allowed == {"ready_to_fire", "fire_now"}
ThrottleDecisions == Allowed \union {"silent", "hold", "blocked"}
AckActions ==
  {"seen", "saved", "ignored", "accepted", "investigate", "resolved"}

(* THROTTLE_BLOCKED, and the statuses no delivery is recorded for.         *)
Stopping      == {"silent", "hold", "held", "blocked", "resolved", "ignored",
                  "deleted"}
BlockedStatus == Stopping \union {"delivery_failed"}

ASSUME PipelineAssumption ==
  /\ RecentLimit \in Nat
  /\ PingKinds \subseteq DOMAIN Pool
  /\ Requested \subseteq ThrottleDecisions
  /\ None \notin ThrottleDecisions
  /\ Ends \subseteq Identities \X Identities
  /\ Acted \subseteq AckActions

Relevance(v) == <<"relevance", v>>
Ping(p)     == <<"ping", p>>
Throttle(t) == <<"ping-throttle", t>>
Route(c)    == <<"carrier-route", c>>
Delivery(d) == <<"ping-delivery", d>>

(* The two indexes a worker decides by: ping-throttle:index:to:<identity>
   and ping:index:relevance:<relevance>.                                   *)
ThrottledTo(i)  == <<"throttled-to", i>>
OfRelevance(v)  == <<"of-relevance", v>>

(* The sender and the receiver may see a ping, no one else.                *)
CanSee(by, ping) == by \in {ping.from, ping.to}

(* relevance and event: what the ping was made for, if not at will.        *)
NewPing(from, to, status) ==
  [from |-> from, to |-> to, status |-> status, throttle |-> None,
   decision |-> None, route |-> None, carrier_route |-> None, delivery |-> None,
   relevance |-> None, event |-> None]

(* ping.js: the sender names the receiver; only two kinds go to oneself.   *)
CreatePing(r) ==
  \E ends \in Ends, p \in Minted("ping") :
    Goes(r, <<Writes(Ping(p), NewPing(ends[1], ends[2], "queued"))>>)

(* ping-from-relevance.js: the identity that something was found relevant
   for gets a ping from an identity of its choice, unless one is listed under
   the relevance.  The client may choose the identifier and the status.  A
   slip: it is not listed.                                                 *)
RelevancePuts_Unlisted(p, v, ping) ==
  <<Writes(Ping(p), [ping EXCEPT !.relevance = v])>>

RelevancePuts(p, v, ping) ==
  <<Writes(Ping(p), [ping EXCEPT !.relevance = v]), Appends(OfRelevance(v), p)>>

ReadRelevance(r) ==
  \E v \in Chosen("relevance") :
    /\ Stored(Relevance(v))
    /\ kv[Relevance(v)].relevant
    /\ StartReading(r, [op |-> "relevance", id |-> v, to |-> kv[Relevance(v)].identity])

PingFromRelevance(r) ==
  /\ HasRead(r, "relevance")
  /\ LET v == reading[r].id
         to == reading[r].to
     IN  IF \A p \in Listed(OfRelevance(v)) : ~Stored(Ping(p))
         THEN \E from \in Identities, p \in Chosen("ping"), status \in PostedPings :
                /\ <<from, to>> \in Ends
                /\ WillPut(r, RelevancePuts(p, v, NewPing(from, to, status)))
         ELSE WillPut(r, <<>>)

(* ping-throttle.js, inferDecision: what is decided when nothing is asked.
   ready_to_fire stands for fire_now too, which no worker treats otherwise.
   A slip: the status the ping gets instead of the decision.               *)
Infers_Held(ping, recent) ==
  CASE ping.status \in {"blocked", "deleted"} -> "blocked"
    [] ping.status \in {"seen", "ignored", "resolved"} -> "silent"
    [] recent >= RecentLimit -> "held"
    [] OTHER -> "ready_to_fire"

Infers(ping, recent) ==
  CASE ping.status \in {"blocked", "deleted"} -> "blocked"
    [] ping.status \in {"seen", "ignored", "resolved"} -> "silent"
    [] recent >= RecentLimit -> "hold"
    [] OTHER -> "ready_to_fire"

StatusOf(decision) == IF decision = "hold" THEN "held" ELSE decision

ReadToThrottle(r) ==
  \E by \in Identities, p \in Chosen("ping"), ask \in Requested \union {None} :
    /\ Stored(Ping(p))
    /\ CanSee(by, kv[Ping(p)])
    /\ StartReading(r, [op |-> "throttle", id |-> p, ask |-> ask,
                        copy |-> kv[Ping(p)]])

(* The throttle is stored before the ping that names it, and listed last.
   A slip: it is listed under the sender.                                  *)
ThrottlePuts_ListedUnderSender(t, p, ping, decision, inferred) ==
  <<Writes(Throttle(t), [ping_id |-> p, from |-> ping.from, to |-> ping.to,
                         decision |-> decision, inferred |-> inferred]),
    Writes(Ping(p), [ping EXCEPT !.throttle = t, !.decision = decision,
                                 !.status = StatusOf(decision)]),
    Appends(ThrottledTo(ping.from), t)>>

ThrottlePuts(t, p, ping, decision, inferred) ==
  <<Writes(Throttle(t), [ping_id |-> p, from |-> ping.from, to |-> ping.to,
                         decision |-> decision, inferred |-> inferred]),
    Writes(Ping(p), [ping EXCEPT !.throttle = t, !.decision = decision,
                                 !.status = StatusOf(decision)]),
    Appends(ThrottledTo(ping.to), t)>>

(* recentThrottleCount is read after the ping.                             *)
ThrottlePing(r) ==
  /\ HasRead(r, "throttle")
  /\ \E t \in Minted("ping-throttle") :
       LET ping == reading[r].copy
           inferred == reading[r].ask = None
           decision == IF inferred
                       THEN Infers(ping, Cardinality(Listed(ThrottledTo(ping.to))))
                       ELSE reading[r].ask
       IN  WillPut(r, ThrottlePuts(t, reading[r].id, ping, decision, inferred))

(* carrier-route.js, checkThrottleAllowed: the decision on the ping counts
   before its status, and the throttle itself only when neither says.      *)
Movable(ping) ==
  \/ {ping.decision, ping.status} \intersect Allowed # {}
  \/ /\ {ping.decision, ping.status} \intersect Stopping = {}
     /\ ping.throttle # None
     /\ Stored(Throttle(ping.throttle))
     /\ kv[Throttle(ping.throttle)].decision \in Allowed

GateDecision(ping) ==
  CASE ping.decision \in Allowed -> ping.decision
    [] ping.status \in Allowed -> ping.status
    [] OTHER -> kv[Throttle(ping.throttle)].decision

(* decideRoute always selects.                                             *)
RoutePuts(c, p, ping) ==
  <<Writes(Route(c), [ping_id |-> p, from |-> ping.from, to |-> ping.to,
                      throttle |-> ping.throttle,
                      decision |-> GateDecision(ping)]),
    Writes(Ping(p), [ping EXCEPT !.route = c, !.status = "routed"])>>

RoutePing(r) ==
  \E by \in Identities, p \in Chosen("ping"), c \in Chosen("carrier-route") :
    /\ Stored(Ping(p))
    /\ CanSee(by, kv[Ping(p)])
    /\ Movable(kv[Ping(p)])
    /\ Goes(r, RoutePuts(c, p, kv[Ping(p)]))

(* ping-delivery.js: the route named by the client, or else the ping's own
   or the one of its last delivery.                                        *)
Named(ping) == IF ping.route # None THEN ping.route ELSE ping.carrier_route

ReadToDeliver(r) ==
  \E by \in Identities, p \in Chosen("ping"), c \in Chosen("carrier-route") \union {None} :
    LET ping == kv[Ping(p)]
    IN  /\ Stored(Ping(p))
        /\ CanSee(by, ping)
        /\ ping.status \notin BlockedStatus
        /\ c # None \/ Named(ping) # None
        /\ StartReading(r, [op |-> "deliver", id |-> p, copy |-> ping,
                            ask |-> IF c # None THEN c ELSE Named(ping)])

(* checkCarrierRouteForDelivery.  A slip: the ends are not compared.       *)
Deliverable_AnyEnds(p, ping, c, route) ==
  /\ route.ping_id = p
  /\ ping.route \in {None, c}
  /\ ping.carrier_route \in {None, c}

Deliverable(p, ping, c, route) ==
  /\ route.ping_id = p
  /\ ping.route \in {None, c}
  /\ ping.carrier_route \in {None, c}
  /\ route.from = ping.from
  /\ route.to = ping.to

DeliveryPuts(d, p, ping, c, route, ok) ==
  <<Writes(Delivery(d),
      [ping_id |-> p, carrier_route |-> c, from |-> ping.from, to |-> ping.to,
       throttle |-> IF ping.throttle # None THEN ping.throttle ELSE route.throttle,
       decision |-> IF ping.decision # None THEN ping.decision ELSE route.decision]),
    Writes(Ping(p), [ping EXCEPT !.route = c, !.carrier_route = c, !.delivery = d,
                       !.status = IF ok THEN "delivered" ELSE "delivery_failed"])>>

DeliverPing(r) ==
  /\ HasRead(r, "deliver")
  /\ LET c == reading[r].ask
         p == reading[r].id
         ping == reading[r].copy
     IN  IF Stored(Route(c)) /\ Deliverable(p, ping, c, kv[Route(c)])
         THEN \E d \in Chosen("ping-delivery"), ok \in BOOLEAN :
                WillPut(r, DeliveryPuts(d, p, ping, c, kv[Route(c)], ok))
         ELSE WillPut(r, <<>>)

(* ping-ack.js: the receiver acts; the sender may only mark it as seen.    *)
AckPing(r) ==
  \E by \in Identities, p \in Chosen("ping"), action \in Acted :
    LET ping == kv[Ping(p)]
    IN  /\ Stored(Ping(p))
        /\ CanSee(by, ping)
        /\ by = ping.to \/ action = "seen"
        /\ Goes(r, <<Writes(Ping(p), [ping EXCEPT !.status = action])>>)

PingStep(r) ==
  \/ CreatePing(r) \/ ReadRelevance(r) \/ PingFromRelevance(r)
  \/ ReadToThrottle(r) \/ ThrottlePing(r) \/ RoutePing(r)
  \/ ReadToDeliver(r) \/ DeliverPing(r) \/ AckPing(r)

-----------------------------------------------------------------------------
PingRecord ==
  [from : Identities, to : Identities,
   status : PostedPings \union AckActions \union BlockedStatus
              \union Allowed \union {"queued", "routed", "delivered"},
   throttle : OrNone(Pool["ping-throttle"]), decision : OrNone(ThrottleDecisions),
   route : OrNone(Pool["carrier-route"]), carrier_route : OrNone(Pool["carrier-route"]),
   delivery : OrNone(Pool["ping-delivery"]), relevance : OrNone(Pool["relevance"]),
   event : OrNone(Pool["proximity"])]

ThrottleRecord ==
  [ping_id : Pool["ping"], from : Identities, to : Identities,
   decision : ThrottleDecisions, inferred : BOOLEAN]

RouteRecord ==
  [ping_id : Pool["ping"], from : Identities, to : Identities,
   throttle : Pool["ping-throttle"], decision : Allowed]

DeliveryRecord ==
  [ping_id : Pool["ping"], carrier_route : Pool["carrier-route"],
   from : Identities, to : Identities,
   throttle : Pool["ping-throttle"], decision : ThrottleDecisions]

PingsTyped ==
  /\ \A p \in Chosen("ping") : Stored(Ping(p)) => kv[Ping(p)] \in PingRecord
  /\ \A t \in Chosen("ping-throttle") : Stored(Throttle(t)) => kv[Throttle(t)] \in ThrottleRecord
  /\ \A c \in Chosen("carrier-route") : Stored(Route(c)) => kv[Route(c)] \in RouteRecord
  /\ \A d \in Chosen("ping-delivery") : Stored(Delivery(d)) => kv[Delivery(d)] \in DeliveryRecord

(* A throttle let this very ping, between these very ends, move.           *)
LetThrough(p, from, to) ==
  \E t \in Chosen("ping-throttle") :
    /\ Stored(Throttle(t))
    /\ LET throttle == kv[Throttle(t)]
       IN  /\ throttle.ping_id = p
           /\ throttle.from = from
           /\ throttle.to = to
           /\ throttle.decision \in Allowed

(* Whatever overlaps, is cut off or is posted again under a known identifier,
   a delivery is of a ping that ping-throttle let move between the ends it
   is delivered between.                                                   *)
DeliveryBacked ==
  \A d \in Chosen("ping-delivery") : Stored(Delivery(d)) =>
    LET delivery == kv[Delivery(d)]
    IN  LetThrough(delivery.ping_id, delivery.from, delivery.to)

(* Whatever overlaps or is cut off, a ping and a route name only records
   that exist: a ping repeats the decision of the throttle it names, and the
   throttle a route names let the ping of the route move.                  *)
NamesTrue ==
  /\ \A p \in Chosen("ping") : Stored(Ping(p)) =>
       LET ping == kv[Ping(p)]
       IN  /\ ping.throttle # None =>
                /\ Stored(Throttle(ping.throttle))
                /\ kv[Throttle(ping.throttle)].ping_id = p
                /\ kv[Throttle(ping.throttle)].decision = ping.decision
           /\ ping.route # None => Stored(Route(ping.route))
           /\ ping.delivery # None => Stored(Delivery(ping.delivery))
  /\ \A c \in Chosen("carrier-route") : Stored(Route(c)) =>
       LET route == kv[Route(c)]
       IN  /\ Stored(Throttle(route.throttle))
           /\ kv[Throttle(route.throttle)].ping_id = route.ping_id
           /\ kv[Throttle(route.throttle)].decision \in Allowed

(* What a ping says of itself is so, and what lets it move did.            *)
PingsBacked == DeliveryBacked /\ NamesTrue

(* Requests that come one at a time make one ping of what was found relevant,
   and one more for each that is cut off before it lists its ping.         *)
PingOnce ==
  bounds.oneByOne => \A v \in Chosen("relevance") :
    Cardinality({p \in Chosen("ping") : Stored(Ping(p)) /\ kv[Ping(p)].relevance = v})
      <= 1 + crashes

(* Requests that come one at a time let no more pings through to one
   receiver, unasked, than the limit, and one more for each cut off.       *)
FloodHeld ==
  bounds.oneByOne => \A i \in Identities :
    Cardinality({t \in Chosen("ping-throttle") :
                   /\ Stored(Throttle(t))
                   /\ kv[Throttle(t)].to = i
                   /\ kv[Throttle(t)].inferred
                   /\ kv[Throttle(t)].decision \in Allowed}) <= RecentLimit + crashes
=============================================================================
