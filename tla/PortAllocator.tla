--------------------------- MODULE PortAllocator ---------------------------
(***************************************************************************)
(* The EphemeralPortAllocatorDurableObject: leases on a range of ports,    *)
(* kept in the storage of one durable object.  Every awaited storage write *)
(* is a step of its own, so the object may be evicted between two writes   *)
(* of one handler; blockConcurrencyWhile keeps the handlers from           *)
(* interleaving.  `told' is the tenants' side: what the answers they       *)
(* received let them believe.                                              *)
(***************************************************************************)
EXTENDS Integers, FiniteSets

CONSTANTS
    Tenants, Requests,
    PORT_MIN, PORT_MAX, LEASE_TTL_MS, HEARTBEAT_GRACE_MS,
    MAX_RETRIES_PER_REQUEST,
    NoLease, NoCursor,
    MaxClock, MaxLeases, MaxCrashes     \* bounds of the checked instance

\* validateConfig
ASSUME ConfigAssumption ==
    /\ PORT_MIN \in Int /\ PORT_MAX \in Int /\ PORT_MIN < PORT_MAX
    /\ LEASE_TTL_MS \in Nat \ {0}
    /\ HEARTBEAT_GRACE_MS \in Nat
    /\ MAX_RETRIES_PER_REQUEST \in Nat \ {0}

ASSUME BoundsAssumption ==
    MaxClock \in Nat /\ MaxLeases \in Nat /\ MaxCrashes \in Nat

Ports == PORT_MIN .. PORT_MAX
totalCapacity == PORT_MAX - PORT_MIN + 1
Term == LEASE_TTL_MS + HEARTBEAT_GRACE_MS

LeaseRecord ==
    [port : Ports, tenant_id : Tenants, lease_id : Nat, created_at_ms : Nat,
     last_heartbeat_ms : Nat, status : {"active", "reclaiming", "expired"}]

\* The absent value of storage.get differs from every record and every port.
ASSUME AbsentAssumption == NoLease \notin LeaseRecord /\ NoCursor \notin Int

VARIABLES
    leases,       \* [Ports -> LeaseRecord or NoLease]: the keys lease:<port>
    cursor_port,  \* the key cursor_port, NoCursor while it was never written
    metrics,      \* the keys metric:<name> of the three counters about leases
    clock,        \* Date.now()
    handler,      \* [Requests -> Handler]: what each request is in the middle of
    minted,       \* number of lease ids made so far: makeLeaseId is fresh
    told,         \* [Tenants -> [Ports -> Nat]]: the promise each tenant was given
    crashes       \* how often a handler was cut off

vars == <<leases, cursor_port, metrics, clock, handler, minted, told, crashes>>

Phases == {"idle", "initCursor", "scan", "exhausted", "mark", "delete",
           "countReclaim", "claim", "setCursor", "countAllocation",
           "putExpired", "putHeartbeat", "deleteReleased", "countRelease",
           "sweep"}

Handler ==
    [pc : Phases, op : {"none", "allocate", "heartbeat", "release", "sweep"},
     tenant : Tenants \cup {"none"}, port : Ports, now : Nat,
     seen : LeaseRecord \cup {NoLease}, todo : SUBSET LeaseRecord]

Idle == [pc |-> "idle", op |-> "none", tenant |-> "none", port |-> PORT_MIN,
         now |-> 0, seen |-> NoLease, todo |-> {}]

\* A handler that has just passed the checks of its request.
Begin(op, t, pc) == [Idle EXCEPT !.pc = pc, !.op = op, !.tenant = t, !.now = clock]

Init ==
    /\ leases = [p \in Ports |-> NoLease]
    /\ cursor_port = NoCursor
    /\ metrics = [allocations |-> 0, reclaims |-> 0, releases |-> 0]
    /\ clock = 1
    /\ handler = [r \in Requests |-> Idle]
    /\ minted = 0
    /\ told = [t \in Tenants |-> [p \in Ports |-> 0]]
    /\ crashes = 0

-----------------------------------------------------------------------------
(* The private helpers of the class.                                       *)

\* Slip: expiry counted from the creation, as if no heartbeat had arrived.
isLeaseExpired_SinceCreation(lease, now) == now > lease.created_at_ms + Term

isLeaseExpired(lease, now) == now > lease.last_heartbeat_ms + Term

\* TLA+'s % is never negative, so the second modulo of the code is not needed.
wrapPort(port) == PORT_MIN + ((port - PORT_MIN) % totalCapacity)

Attempts == 0 .. IF MAX_RETRIES_PER_REQUEST < totalCapacity
                 THEN MAX_RETRIES_PER_REQUEST - 1
                 ELSE totalCapacity - 1

\* Slip: every attempt looks at the port under the cursor.
Takeable_OnlyCursor(i, now) ==
    LET lease == leases[wrapPort(cursor_port)]
    IN  lease # NoLease => isLeaseExpired(lease, now)

\* The candidate of an attempt is free, or its lease can be reclaimed.
Takeable(i, now) ==
    LET lease == leases[wrapPort(cursor_port + i)]
    IN  lease # NoLease => isLeaseExpired(lease, now)

\* Slip: the handlers are not serialised.
blockConcurrencyWhile_Absent == TRUE

\* state.blockConcurrencyWhile: a callback starts when no other one is running.
blockConcurrencyWhile == \A r \in Requests : handler[r].pc = "idle"

At(r, pc) == handler[r].pc = pc
Goto(r, pc) == handler' = [handler EXCEPT ![r].pc = pc]
Finish(r) == handler' = [handler EXCEPT ![r] = Idle]

\* Slip: knowing the lease id is enough.
Owns_AnyTenant(t, id, p) ==
    /\ leases[p] # NoLease
    /\ leases[p].lease_id = id

\* The record a request names, when it passes the checks heartbeat and release share.
Owns(t, id, p) ==
    /\ leases[p] # NoLease
    /\ leases[p].lease_id = id
    /\ leases[p].tenant_id = t

\* The answer of an allocate or a heartbeat reaches the tenant, or is lost.
Answer(r) ==
    \/ told' = [told EXCEPT ![handler[r].tenant][handler[r].port] = handler[r].now + Term]
    \/ UNCHANGED told

-----------------------------------------------------------------------------
(* allocate                                                                *)

AllocateStart(r, t) ==
    /\ blockConcurrencyWhile
    /\ minted < MaxLeases
    /\ handler' = [handler EXCEPT ![r] =
           Begin("allocate", t, IF cursor_port = NoCursor THEN "initCursor" ELSE "scan")]
    /\ UNCHANGED <<leases, cursor_port, metrics, clock, minted, told, crashes>>

\* getCursorPort writes the default when nothing is stored.
InitCursor(r) ==
    /\ At(r, "initCursor")
    /\ cursor_port' = PORT_MIN
    /\ Goto(r, "scan")
    /\ UNCHANGED <<leases, metrics, clock, minted, told, crashes>>

ScanFound(r, i) ==
    /\ At(r, "scan")
    /\ Takeable(i, handler[r].now)
    /\ \A j \in Attempts : j < i => ~Takeable(j, handler[r].now)
    /\ LET port == wrapPort(cursor_port + i) IN
       handler' = [handler EXCEPT
           ![r].port = port, ![r].seen = leases[port],
           ![r].pc = IF leases[port] = NoLease THEN "claim" ELSE "mark"]
    /\ UNCHANGED <<leases, cursor_port, metrics, clock, minted, told, crashes>>

\* No candidate of the window: the cursor stays where it is.
ScanExhausted(r) ==
    /\ At(r, "scan")
    /\ \A i \in Attempts : ~Takeable(i, handler[r].now)
    /\ Goto(r, "exhausted")
    /\ UNCHANGED <<leases, cursor_port, metrics, clock, minted, told, crashes>>

AnswerExhausted(r) ==
    /\ At(r, "exhausted")
    /\ Finish(r)
    /\ UNCHANGED <<leases, cursor_port, metrics, clock, minted, told, crashes>>

\* claimPort reads the record again and refuses ("race-conflict") a live one.
ClaimPort(r) ==
    /\ At(r, "claim")
    /\ LET h == handler[r]
           conflict == leases[h.port] # NoLease /\ ~isLeaseExpired(leases[h.port], h.now)
       IN  IF conflict
           THEN Finish(r) /\ UNCHANGED <<leases, minted>>
           ELSE /\ leases' = [leases EXCEPT ![h.port] =
                      [port |-> h.port, tenant_id |-> h.tenant,
                       lease_id |-> minted + 1, created_at_ms |-> h.now,
                       last_heartbeat_ms |-> h.now, status |-> "active"]]
                /\ minted' = minted + 1
                /\ Goto(r, "setCursor")
    /\ UNCHANGED <<cursor_port, metrics, clock, told, crashes>>

\* Slip: the port after PORT_MAX is stored as it is.
SetCursor_Unwrapped(r) ==
    /\ At(r, "setCursor")
    /\ cursor_port' = handler[r].port + 1
    /\ Goto(r, "countAllocation")
    /\ UNCHANGED <<leases, metrics, clock, minted, told, crashes>>

SetCursor(r) ==
    /\ At(r, "setCursor")
    /\ cursor_port' = wrapPort(handler[r].port + 1)
    /\ Goto(r, "countAllocation")
    /\ UNCHANGED <<leases, metrics, clock, minted, told, crashes>>

CountAllocation(r) ==
    /\ At(r, "countAllocation")
    /\ metrics' = [metrics EXCEPT !.allocations = @ + 1]
    /\ Answer(r)
    /\ Finish(r)
    /\ UNCHANGED <<leases, cursor_port, clock, minted, crashes>>

-----------------------------------------------------------------------------
(* reclaimLeaseIfCurrent, inside allocate and inside the sweep             *)

\* Slip: only a lease whose status is "active" is reclaimed.
IsCurrent_OnlyActive(h) ==
    /\ leases[h.port].status = "active"
    /\ leases[h.port].lease_id = h.seen.lease_id
    /\ isLeaseExpired(leases[h.port], h.now)

\* The record is still the one that was seen, and still expired.
IsCurrent(h) ==
    /\ leases[h.port].lease_id = h.seen.lease_id
    /\ leases[h.port].last_heartbeat_ms = h.seen.last_heartbeat_ms
    /\ isLeaseExpired(leases[h.port], h.now)

\* Where the caller continues after reclaimLeaseIfCurrent returned true or false;
\* a live record is not taken by the scan, which so goes on to the next candidate.
AfterReclaim(h) == IF h.op = "sweep" THEN "sweep" ELSE "claim"
AfterSkip(h) == IF h.op = "sweep" THEN "sweep" ELSE "scan"

MarkReclaiming(r) ==
    /\ At(r, "mark")
    /\ LET h == handler[r] IN
       IF leases[h.port] = NoLease
       THEN Goto(r, AfterReclaim(h)) /\ UNCHANGED leases
       ELSE IF ~IsCurrent(h)
       THEN Goto(r, AfterSkip(h)) /\ UNCHANGED leases
       ELSE /\ leases' = [leases EXCEPT ![h.port].status = "reclaiming"]
            /\ Goto(r, "delete")
    /\ UNCHANGED <<cursor_port, metrics, clock, minted, told, crashes>>

DeleteReclaimed(r) ==
    /\ At(r, "delete")
    /\ leases' = [leases EXCEPT ![handler[r].port] = NoLease]
    /\ Goto(r, "countReclaim")
    /\ UNCHANGED <<cursor_port, metrics, clock, minted, told, crashes>>

CountReclaim(r) ==
    /\ At(r, "countReclaim")
    /\ metrics' = [metrics EXCEPT !.reclaims = @ + 1]
    /\ Goto(r, AfterReclaim(handler[r]))
    /\ UNCHANGED <<leases, cursor_port, clock, minted, told, crashes>>

-----------------------------------------------------------------------------
(* heartbeat and release.  A refused request (unknown lease, another       *)
(* tenant's lease, a port out of range) writes nothing about leases.       *)

\* Slip: the formula of ephemeral-port-allocator.spec.md, 4.2 step 6, which the
\* code does not follow (RenewedWithinCreation).
Verdict_SinceCreation(p) ==
    IF clock > leases[p].created_at_ms + Term THEN "putExpired" ELSE "putHeartbeat"

\* Slip: a lease already marked is not judged again.
Verdict_Once(p) ==
    IF isLeaseExpired(leases[p], clock) /\ leases[p].status # "expired"
    THEN "putExpired" ELSE "putHeartbeat"

\* What a heartbeat writes about the lease it names.
Verdict(p) == IF isLeaseExpired(leases[p], clock) THEN "putExpired" ELSE "putHeartbeat"

Named(h, p) == [h EXCEPT !.port = p, !.seen = leases[p]]

HeartbeatStart(r, t, id, p) ==
    /\ blockConcurrencyWhile
    /\ Owns(t, id, p)
    /\ handler' = [handler EXCEPT ![r] = Named(Begin("heartbeat", t, Verdict(p)), p)]
    /\ UNCHANGED <<leases, cursor_port, metrics, clock, minted, told, crashes>>

\* The put writes back the whole record that was read.
PutExpired(r) ==
    /\ At(r, "putExpired")
    /\ leases' = [leases EXCEPT ![handler[r].port] =
                     [handler[r].seen EXCEPT !.status = "expired"]]
    /\ Finish(r)
    /\ UNCHANGED <<cursor_port, metrics, clock, minted, told, crashes>>

PutHeartbeat(r) ==
    /\ At(r, "putHeartbeat")
    /\ leases' = [leases EXCEPT ![handler[r].port] =
                     [handler[r].seen EXCEPT !.last_heartbeat_ms = handler[r].now,
                                             !.status = "active"]]
    /\ Answer(r)
    /\ Finish(r)
    /\ UNCHANGED <<cursor_port, metrics, clock, minted, crashes>>

\* Expiry is not looked at.  A tenant that asks stops using the port.
ReleaseStart(r, t, id, p) ==
    /\ blockConcurrencyWhile
    /\ Owns(t, id, p)
    /\ handler' = [handler EXCEPT ![r] = Named(Begin("release", t, "deleteReleased"), p)]
    /\ told' = [told EXCEPT ![t][p] = 0]
    /\ UNCHANGED <<leases, cursor_port, metrics, clock, minted, crashes>>

DeleteReleased(r) ==
    /\ At(r, "deleteReleased")
    /\ leases' = [leases EXCEPT ![handler[r].port] = NoLease]
    /\ Goto(r, "countRelease")
    /\ UNCHANGED <<cursor_port, metrics, clock, minted, told, crashes>>

CountRelease(r) ==
    /\ At(r, "countRelease")
    /\ metrics' = [metrics EXCEPT !.releases = @ + 1]
    /\ Finish(r)
    /\ UNCHANGED <<leases, cursor_port, clock, minted, told, crashes>>

-----------------------------------------------------------------------------
(* reclaimExpired: storage.list is read once, then its records are visited *)

SweepStart(r) ==
    /\ blockConcurrencyWhile
    /\ handler' = [handler EXCEPT ![r] = [Begin("sweep", "none", "sweep") EXCEPT
           !.todo = {leases[p] : p \in {q \in Ports : leases[q] # NoLease}}]]
    /\ UNCHANGED <<leases, cursor_port, metrics, clock, minted, told, crashes>>

\* The next record of the list, in the order of its keys.
SweepVisit(r, lease) ==
    /\ At(r, "sweep")
    /\ lease \in handler[r].todo
    /\ \A other \in handler[r].todo : lease.port <= other.port
    /\ handler' = [handler EXCEPT
           ![r].todo = @ \ {lease}, ![r].port = lease.port, ![r].seen = lease,
           ![r].pc = IF isLeaseExpired(lease, handler[r].now) THEN "mark" ELSE "sweep"]
    /\ UNCHANGED <<leases, cursor_port, metrics, clock, minted, told, crashes>>

SweepEnd(r) ==
    /\ At(r, "sweep")
    /\ handler[r].todo = {}
    /\ Finish(r)
    /\ UNCHANGED <<leases, cursor_port, metrics, clock, minted, told, crashes>>

-----------------------------------------------------------------------------
(* The environment.                                                        *)

\* getActiveSummary reads, and writes the default cursor when there is none.
SummaryInitCursor ==
    /\ blockConcurrencyWhile
    /\ cursor_port = NoCursor
    /\ cursor_port' = PORT_MIN
    /\ UNCHANGED <<leases, metrics, clock, handler, minted, told, crashes>>

\* The object is evicted, or a storage call throws: the handler's remaining
\* writes are lost and nothing it wrote is undone.
Crash(r) ==
    /\ ~At(r, "idle")
    /\ crashes < MaxCrashes
    /\ crashes' = crashes + 1
    /\ handler' = [s \in Requests |-> Idle]
    /\ UNCHANGED <<leases, cursor_port, metrics, clock, minted, told>>

Tick ==
    /\ clock < MaxClock
    /\ clock' = clock + 1
    /\ UNCHANGED <<leases, cursor_port, metrics, handler, minted, told, crashes>>

\* The awaits of a handler that has started.
Continue(r) ==
    \/ InitCursor(r)
    \/ \E i \in Attempts : ScanFound(r, i)
    \/ ScanExhausted(r)
    \/ AnswerExhausted(r)
    \/ ClaimPort(r)
    \/ SetCursor(r)
    \/ CountAllocation(r)
    \/ MarkReclaiming(r)
    \/ DeleteReclaimed(r)
    \/ CountReclaim(r)
    \/ PutExpired(r)
    \/ PutHeartbeat(r)
    \/ DeleteReleased(r)
    \/ CountRelease(r)
    \/ \E lease \in handler[r].todo : SweepVisit(r, lease)
    \/ SweepEnd(r)

Start(r) ==
    \/ \E t \in Tenants : AllocateStart(r, t)
    \/ \E t \in Tenants, id \in 1 .. minted, p \in Ports : HeartbeatStart(r, t, id, p)
    \/ \E t \in Tenants, id \in 1 .. minted, p \in Ports : ReleaseStart(r, t, id, p)
    \/ SweepStart(r)

Next ==
    \/ \E r \in Requests : Start(r) \/ Continue(r) \/ Crash(r)
    \/ SummaryInitCursor
    \/ Tick

Spec == Init /\ [][Next]_vars

(***************************************************************************)
(* A handler that has started runs on: the event loop delivers the         *)
(* completion of every storage call.  A sweeper keeps asking for a sweep   *)
(* (ephemeral-port-allocator.spec.md, 4.3), and a request waiting on       *)
(* blockConcurrencyWhile is not passed over for ever.                      *)
(***************************************************************************)
Fairness ==
    /\ \A r \in Requests : WF_vars(Continue(r))
    /\ SF_vars(\E r \in Requests : SweepStart(r))

FairSpec == Spec /\ Fairness

-----------------------------------------------------------------------------
(* Correctness.                                                            *)

\* Every stored value has the type the code gives it; the lease under a key
\* names the port of the key.
TypeOK ==
    /\ leases \in [Ports -> LeaseRecord \cup {NoLease}]
    /\ \A p \in Ports : leases[p] # NoLease => leases[p].port = p
    /\ cursor_port \in Ports \cup {NoCursor}
    /\ metrics \in [allocations : Nat, reclaims : Nat, releases : Nat]
    /\ clock \in Nat \ {0}
    /\ handler \in [Requests -> Handler]
    /\ minted \in Nat
    /\ told \in [Tenants -> [Ports -> Nat]]
    /\ crashes \in Nat

Held == {p \in Ports : leases[p] # NoLease}
MayUse(t, p) == told[t][p] >= clock

\* A tenant that was told it holds a port, by an answer to allocate or to
\* heartbeat, has the stored lease of that port until the time it may count on,
\* whatever was cut off, swept or re-allocated in between; so no two tenants
\* ever use one port.
PromiseKept ==
    \A t \in Tenants, p \in Ports :
        MayUse(t, p) =>
            /\ leases[p] # NoLease
            /\ leases[p].tenant_id = t
            /\ told[t][p] <= leases[p].last_heartbeat_ms + Term

\* The status a lease was left with by a failed heartbeat or by an interrupted
\* reclaim never contradicts its timestamps: getActiveSummary, which also looks
\* at status, and getTenantLeases, which does not, count the same leases.
StatusAgrees ==
    \A p \in Held :
        leases[p].status \in {"expired", "reclaiming"} => isLeaseExpired(leases[p], clock)

\* "exhausted" is answered only when as many different ports as the scan may
\* try were all under an unexpired lease when the request was taken up.
ExhaustedIsReal ==
    \A r \in Requests :
        At(r, "exhausted") =>
            Cardinality({p \in Held : ~isLeaseExpired(leases[p], handler[r].now)})
                >= Cardinality(Attempts)

\* Handlers between their write to a lease and the write of its counter.
Uncounted(phases) == Cardinality({r \in Requests : handler[r].pc \in phases})

\* allocations - reclaims - releases is the number of stored leases, up to the
\* handler in progress, and each cut-off handler makes it wrong by at most one.
MetricDrift ==
    LET drift == Cardinality(Held)
                 - (metrics.allocations - metrics.reclaims - metrics.releases)
                 - Uncounted({"setCursor", "countAllocation"})
                 + Uncounted({"countReclaim", "countRelease"})
    IN  drift \in -crashes .. crashes

\* A lease that has not expired leaves storage, or passes to another lease id,
\* only inside a release asked for by its own tenant under its own id.
LeaseEndsByOwner ==
    [][\A p \in Held :
          \/ leases'[p] # NoLease /\ leases'[p].lease_id = leases[p].lease_id
          \/ isLeaseExpired(leases[p], clock)
          \/ \E r \in Requests : /\ handler[r].op = "release"
                                 /\ handler[r].tenant = leases[p].tenant_id
                                 /\ handler[r].seen.lease_id = leases[p].lease_id
      ]_vars

\* A lease a heartbeat has marked "expired" is never active again under the same
\* id: the verdict given to its tenant is final, whatever the heartbeats after it.
ExpiryIsFinal ==
    [][\A p \in Held :
          ( /\ leases[p].status = "expired"
            /\ leases'[p] # NoLease
            /\ leases'[p].lease_id = leases[p].lease_id )
          => /\ leases'[p].status # "active"
             /\ leases'[p].last_heartbeat_ms = leases[p].last_heartbeat_ms
      ]_vars

\* ephemeral-port-allocator.spec.md, 4.2 steps 6 and 7: a heartbeat renews a lease
\* only within the term counted from the creation of the lease.  The code counts
\* the term from the last heartbeat, as sections 4.3 and 5.1 of the document do.
RenewedWithinCreation ==
    \A r \in Requests :
        At(r, "putHeartbeat") => handler[r].now <= handler[r].seen.created_at_ms + Term

\* With a sweeper running, a lease that has expired is not left in storage: it is
\* deleted sooner or later, also when the object is evicted in the middle of
\* reclaiming it (or the heartbeat that was already being served is stored).
ExpiredIsReclaimed ==
    \A p \in Ports :
        (leases[p] # NoLease /\ isLeaseExpired(leases[p], clock))
            ~> (leases[p] # NoLease => ~isLeaseExpired(leases[p], clock))

\* The tenants' view of the allocator: PortLeasing, with the storage hidden.
Leasing == INSTANCE PortLeasing
LeasingSpec == Leasing!PromiseSpec
=============================================================================
