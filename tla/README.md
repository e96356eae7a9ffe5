# CyberCrowd net: a TLA+ verification of its stateful workers

The repository is a large web foundation: pages, doctrine, and a few hundred
small Cloudflare workers and durable objects. The workers are written under the
rule "one file, one job", so what the system does is spread over many handlers
that meet only in shared storage. This project models the parts where that
meeting decides something: port leases, value, the collapse of identities, fields
and pings, claimed objects and what is made of them, the entry into an account,
verified emails and counted attempts.

- Every module translates the source, which `PROJECT.json` maps line by line.
- TLC checks the `.cfg` files on small instances; `tlapm` checks the theorems.
- Operators named `Something_Slip` stand beside the definition they distort.
  No specification uses them. Put in its place, each makes TLC find one
  property violated, which shows that the property depends on that code.

## 1. Inventory

### Port allocator (modelled, proved)

`src/src/ephemeral-port-allocator-durable-object.ts`, specified by
`ephemeral-port-allocator.spec.md`.

- State: the storage keys `lease:<port>`, `cursor_port`, `metric:<name>`.
- Operations: allocate, heartbeat, release, sweep, and two reads. Each state
  changing one runs inside `blockConcurrencyWhile`.
- Hard: the object may be evicted between two awaited storage writes of one
  handler; a verdict on expiry uses the time read at the start; a heartbeat may
  arrive after expiry; ids from an older lease of the same port come back.
- Correct when no port is promised to two tenants, leases end by expiry or by
  their owner, "exhausted" is true, expired leases go, counters can be trusted.

### Value circulation (modelled and proved, without its reports)

Seventeen workers `src/functions/api/value-*.js`, four of them reports, over the
namespace `env.IDENTITY`.

- State: one JSON record per key: surfaces (with balance and limits), topups,
  spends, refunds, their decisions, balance movements, limit checks, receipts.
- A topup or a spend takes three requests: one records it, one decides it, one
  moves the balances. Receipts, refunds and refund decisions follow a debit.
- Hard: there are no transactions. A put writes the whole record spread from a
  copy read some awaits earlier, so overlapping requests undo each other; a
  movement is five puts and a debit four, and a worker may be cut off between
  any two; clients choose some identifiers and may name older decisions.
- Correct when value is conserved, each movement has an approval, no balance
  goes below zero, and a record names records that exist and agree with it.

### Value indexes and sync trails (modelled, proved)

`appendIndex` and `appendSync`, the same text in each of these workers. State:
capped JSON lists. The reports (snapshot, low water, history, reconcile) reach
records only through them. Hard: get, change, put without a lock; the cap.

### Identity collapse and reactivation (modelled, proved, without its lists)

Six workers `identity-*.js`: the human gate, a collapse decision, the collapse,
a reactivation request, its decision, the restore. Each is fed by the record the
one before left. Hard: a decision has to be carried out once, although marking
it and carrying it out are separate puts, and requests are repeated; and clients
may send the identifier of a record they make, also one already in use.

### Fields, proximity and relevance (modelled, proved, without trails)

Six workers: `field-state.js`, `field-close.js`, `intent-remember.js`,
`proximity-enter.js`, `proximity-exit.js`, `relevance-check.js`. State: a field
under its identifier and once more as the current one of its identity, intents,
events of an object coming near, relevances. Hard: the two copies of a field are
put one after the other; an event and its ping are two puts; intents are got one
by one while others are remembered. Correct when the copies agree, and a ping
names the event it came of and that event a real intent.

### Ping pipeline (modelled, proved, without trails and presence)

Six workers: `ping.js`, `ping-from-relevance.js`, `ping-throttle.js`,
`carrier-route.js`, `ping-delivery.js`, `ping-ack.js`. State: the ping, its
throttles, routes and deliveries, and two lists that decide: the pings of a
relevance and the recent throttles of a receiver. Hard: each worker puts the
whole ping back from a copy; a ping may be posted again with other ends under
the identifier of one that has a route. Correct when what is delivered was let
through between the same ends, records name records that agree, and the limit
on pings to one receiver holds.

### Objects, claims, handoffs and evidence (modelled, proved)

Seven workers: `object-handle.js`, `object-claim.js`, `object-claim-decision.js`,
`object-handoff.js`, `handoff-proof.js`, `handoff-proof-decision.js`,
`proof-to-ican.js`. State: the object, claims, handoffs, proofs, evidence, and
two lists: the latest claim of an identity on an object and the evidence of a
proof. Hard: claim, handoff and object are put one after the other from copies;
anyone may post the object again under its identifier, and anything else made
here under one they send; proofs of one handoff overwrite each other's mark. Correct when the chain never names what is missing
or foreign, a claim that is over reserves nothing, evidence is not doubled.

### Account entry (modelled, proved, without the expiry of sessions)

`functions/api/auth/send-verification.js`, `set-password.js`, `verify.js`,
`logout.js`, and `/api/auth/login` of `auth/src/router.ts`. Both deployments bind
the same namespace as `IDENTITY` (the two `wrangler.toml` name one id). State:
setup tokens, users, the lookup of a user by email, sessions. Hard: a password is
set in four puts, and the token is got before a hash is awaited. Correct when a
session on record enters its owner's account, and a token is good for one entry.

### Email verification (modelled, proved)

`auth/src/router.ts`, `verify.ts`, `email.ts` of the worker cybercrowd-auth.
State: human passes and verification tokens in `VERIFY_KV`, rows in the table
`users`. Hard: a pass is deleted before its token is stored and mailed; a token is
deleted after the rows are updated. Correct when a verified row rests on a mail
and on a person, and a pass buys one mail.

### Counted attempts (modelled, proved)

`attachment-verifier-attempt.js` with `attachment-verifier-failure-state.js`, and
`login-limit.js`. State: one count. Hard: got and put in two steps, in one of
them with a hash awaited in between. Correct when the limit limits.

### Parts described and not modelled

| Component | State and hard behaviour | Why not |
| --- | --- | --- |
| Ping inbox | Reads pings and their indexes | Nothing else decides by it |
| Object links and history, manual evidence | Single records and reads | Nothing else decides by them |
| Value reports: snapshot, low water, history, reconcile | Read records and store reports | Nothing reads the reports back |
| Signed tokens, uIDL records, other sign-in helpers | Hashes and signatures; one put or get of one record | Cryptography is out of reach; no handler combines them yet |
| One-time pass: `cybercrowd-one-time-pass.ts` | A pass is read before it is created (line 108), so two requests may both send; marking it (line 226) puts back a copy | Nothing under `src/` calls it, so who marks it, and when, is not known |
| Turnstile storage | `updateLastSeen` puts back a whole session | A read and a put that limit nothing |
| CSIG provider queue, result ledger | In-memory queues in one page; requeue of a pulled record is unguarded (`c-s-i-and-g-net-provider-queue.js:456`); histories grow | Synchronous: no call interleaves with another, unit tests reach it |
| Hypogeum, CyberQR lanes | Synchronous in-memory state machines | No interleaving below one call |
| Resume, consent, surfaces, presence | Mostly one put per request | No worker decides by several of them |
| Metrics class and HTTP wrapper of the allocator | A second, in-memory rendering | The durable object is the one modelled |
| Net/core/sovereign bindings, capture, defense | Types, constants, pure constructors, scoring | No shared state of several calls |
| Creator, session, dashboard APIs, edge functions | Forwarding and reads | Input and output only |
| Browser scripts, pages, doctrine | Presentation and prose | No protocol |

## 2. Plan

Order, most important behaviour first. All stages are done.

1. `PortLeasing` (abstract), `PortAllocator`, `PortAllocatorInvariant`,
   `PortAllocatorProofs`.
2. `ValueStore`, `ValueSurface`, `ValueTopup`, `ValueSpend`, composed in
   `ValueCirculation`, with the abstract `ValueLedger`.
3. `ValueTrails`.
4. `IdentityLifecycle`.
5. `IdentityStore`, the ground of what shares the namespace: `PingPipeline`,
   extended by `FieldProximity`; `ObjectClaims`, extended by `ObjectEvidence`;
   `AccountEntry`; all of them composed in `IdentityWorkers`.
6. `AttemptCounter`, `AttemptCounterProofs`.
7. `EmailVerification`.
8. The theorems that hold however requests overlap: `EmailVerificationProofs`,
   the rest of `PortAllocatorProofs`, `IdentityLifecycleProofs`,
   `ValueCirculationProofs`, `IdentityWorkersProofs`.
9. `IdentityTurnsProofs` and `ValueTurnsProofs`: the properties that are stated
   for requests in turn, on the ground of stage 8, and with them the refinement
   `LedgerSpec`.
10. `Lists`, the lists of the value workers; in `ValueCirculationProofs`, what
    sums and filters come to, and on that the theorems about `ValueTrails`.

The strengthening behind stage 8 speaks of every put a request has still to
make: it carries only a record that satisfies the invariant, at its turn. So the
modules use no RECURSIVE operator and a request keeps its puts in a sequence.

## 3. Port allocator

`PortAllocator` has a variable per kind of storage key (`leases`, `cursor_port`,
`metrics`), the clock, and for each request a `handler` record: its phase, the
time and the record it has read, and what a sweep has left to do. Each awaited
storage write is a step: `ClaimPort`, `SetCursor`, `CountAllocation` are the
three puts of one allocate. `Crash` evicts the object between any two of them;
`blockConcurrencyWhile` is the guard of every first step. `Tick` may happen
between any two steps, so a handler's time can be older than the clock. `told`
is a history variable: until when the answers a tenant received let it use a
port. An answer may be lost, so `told` may stay behind.

`PortLeasing` is the tenants' view alone: a promise is given when nobody else
holds one, is never shortened by the service, and ends when the tenant gives it
up or its time is over. `LeasingSpec` is that `PortAllocator` implements it.

| Run | Instance | Distinct states | Checks |
| --- | --- | --- | --- |
| allocator | 2 tenants, 2 requests, 2 ports, 2 attempts per request, lease of 1 tick, clock to 3, 3 leases, 1 eviction; `FairSpec` | 0.49 M | `TypeOK` `PromiseKept` `StatusAgrees` `MetricDrift` `ExhaustedIsReal` `LeaseEndsByOwner` `ExpiryIsFinal` `LeasingSpec` `ExpiredIsReclaimed` |
| heartbeat_term | the same with clock to 4 and no eviction | violation | `RenewedWithinCreation` |

The bounds let a lease be renewed, expire and be reclaimed for the other tenant,
who renews it in turn, with an eviction after any write and with ids of the
earlier lease still in use. Three leases let both ports be taken while a third
request scans, so that "exhausted" is answered; a scan that starts at the second
port wraps. A scan window smaller than the range is covered by the theorem.

Fairness (`FairSpec`): a handler that has started goes on, because the runtime
delivers the completion of every storage call; and a sweep that can start again
and again does start, because the allocator's document (4.3) requires periodic
sweeps and the runtime serves the requests waiting on `blockConcurrencyWhile`.
Nothing is assumed about tenants. The clock stops at `MaxClock`, so deadlock is
not checked.

What the run shows: an eviction costs a counter at most one (`MetricDrift`) and
never a promise (`PromiseKept`); a status left behind never disagrees with the
timestamps, so the two summaries count the same leases (`StatusAgrees`); a lease
marked expired is not revived (`ExpiryIsFinal`).

### Disagreement found

`RenewedWithinCreation`. The document's rule for a heartbeat counts the term of a
lease from its creation: "If `now_ms > lease.created_at_ms + LEASE_TTL_MS +
HEARTBEAT_GRACE_MS`" it is expired (`ephemeral-port-allocator.spec.md:161`, 4.2
step 6). The code counts from the last heartbeat (lines 354 and 607 to 614), and a
lease that keeps being renewed never ends. The rules for the sweep (4.3) and for
expiry (5.1) count as the code does, so the document disagrees with itself too.
The properties of run allocator follow the code; `StatusAgrees` is broken by a
verdict that follows 4.2.

One thing the properties do not ask: an exhausted allocate leaves the cursor
where it is, so while the ports of one window are kept alive every request sees
"exhausted" although others are free. The document allows this (4.1, step 4).

### Proved

`PortAllocatorProofs`, for every value of the constants, with the bounds being
any natural numbers:

- `AllocatorTypes`: `Spec => []TypeOK`
- `AllocatorInvariant`: `Spec => []IInv`
- `AllocatorKeepsPromises`: `Spec => []PromiseKept`
- `AllocatorLeaseEndsByOwner`: `Spec => LeaseEndsByOwner`
- `AllocatorStatusAgrees`: `Spec => []StatusAgrees`
- `AllocatorExpiryIsFinal`: `Spec => ExpiryIsFinal`
- `AllocatorMetricDrift`: `Spec => []MetricDrift`
- `AllocatorExhaustedIsReal`: `Spec => []ExhaustedIsReal`
- `AllocatorImplementsLeasing`: `Spec => LeasingSpec`

Assumptions: `ConfigAssumption` (what `validateConfig` enforces: a nonempty
range, positive lease time and retries), `BoundsAssumption`, and
`AbsentAssumption` (the absent value is not a record, nor a port).

`PromiseKept` is not inductive: between the delete of a reclaimed lease and the
next put it says nothing about the handler at work. `IInv`
(`PortAllocatorInvariant`) adds three things. `Alone`: at most one handler has
started. `Timely`: the handler's time is not ahead of the clock, no stored
heartbeat is ahead of the handler's time, and every promise that runs to the
handler's time or later is backed, which is what makes it safe to reclaim at a
time that is already past. `Knows`: at each phase, what the stored lease of its
port is (absent at `claim`, expired at `delete`, equal to the record read at
`putHeartbeat`). Each action has a lemma that preserves `IInv`; `OneHandler` and
`IInvFromParts` hold what they share. The refinement then needs only that a
promise is made when `Alone` and `PromisesFrom` exclude another tenant's.

`StatusAgrees` needs one more part, `RenewsActive`: the lease a heartbeat is
about to be put on is still active. `MetricDrift` needs none: each put of a
counter and of a lease, with `IInv`, moves the difference by the step it stands
for. `ExhaustedIsReal` follows the scan: the ports tried so far are a window
without repetition, because attempts are no more than the range has ports.

## 4. Value circulation

`ValueStore` is the ground: `kv`, a record or `Absent` under each key, and for
each request its input, the copies it has read and the puts it has still to
make. `Serve` is one awaited get, `Put` one awaited put of a whole record, and
what a worker computes between two awaits is one step. `Crash` cuts a request
off at any await. The modules above it say, per worker, which key it reads next
(`...Wants`), when it refuses, and which records it puts in what order:

| Module | Workers |
| --- | --- |
| `ValueSurface` | `value-surface.js` (register, PATCH), `value-surface-status.js`, `value-limit.js` |
| `ValueTopup` | `value-topup.js`, `value-topup-decision.js`, `value-balance.js` |
| `ValueSpend` | `value-spend.js`, `value-limit-check.js`, `value-spend-decision.js`, `value-spend-balance.js`, `value-receipt.js`, `value-refund.js`, `value-refund-decision.js` |
| `ValueCirculation` | all of them, and the properties |
| `ValueLedger` | what they promise together without overlap and cut-offs |

Fields that are always written together (approved, blocked, decided, status)
are one field `decision`. A session is the identity it resolves to. Text,
metadata and times are left out. `declared` is a history variable, the sum of
the balances clients declared by registering or patching a surface.

| Run | Instance | Distinct states | Checks |
| --- | --- | --- | --- |
| value_ledger | one request at a time; a topup decided and moved twice, a spend, 3 receipts with a cap of 2, a refund decided twice, PATCH; no limits | 0.29 M | `TypeOK` `ReceiptsListed` `LedgerSpec` |
| value_crash | one at a time, 1 cut-off, 2 identities, 2 currencies, surfaces registered anew; identities and currencies symmetric | 0.42 M | `CrashesBoundLoss` `MovesPermitted` |
| value_races | 2 overlapping requests in four scenes: a topup with client-chosen topup and movement ids and an old decision cited; a spend posted again, decided and debited twice, refunded; spends of two surfaces with a limit check cited; limits set and checked | 0.96 M | `MovementsBacked` `NeverOverdrawn` `CheckRespected` |
| debited_twice | one at a time | violation | `DebitedOnce` |

`Bounds` is a sequence of records, the scenes; a behaviour is of one of them,
which the variable `scene` keeps: which workers requests are sent to, which
identifiers exist, which of them clients choose, which decisions they cite, how
many requests are cut off, and what was stored before (`given`, with the value it
declared, `opening`). So one run holds several small scenes. In value_races the
surfaces are registered already; registering is in the other runs.

`MovementsBacked` is four facts: an approved topup names an approval of exactly
what it says, and movements, debits and refunds rest on stored records that fit.

Why the bounds suffice: a hazard here is two requests on one record, or one
request cut off and another after it, so two requests, one cut-off and two
records of a kind reach it. The overlapping scenes have no cut-off, because none
of their properties counts them: a request cut off leaves what a request that
never gets its next turn leaves. `Pool` fixes how many records of each kind may
ever exist. `MaxIndexItems` is 2 for the code's 100, so that three receipts go over.
Statuses, amounts and currencies have the one or two values the properties tell
apart. PATCH is only in the sequential run: each PATCH may declare value anew.

`LedgerSpec` is the refinement that says most. Without overlap and cut-offs,
every approval moves its amount once, whole, out of a purse that holds it. The
mapping counts a movement from its first put and takes the remaining puts as
done. It takes a fresh identifier for each movement, and each movement uses the
decision its topup or spend names, because the code lets clients name an older
one and then the promise does not hold.

### Disagreement found

`DebitedOnce`. `value-spend-balance.js` debits "one approved spend request" and
refuses a second debit. A decision made after the debit resets the moved flag
(`value-spend-decision.js:391`), and the spend is debited again. No overlap is
needed.

Two others can be read off the model, without a run. The status worker says
"This does NOT move balances." (`value-surface-status.js:18`), and line 106 puts
the surface back from a copy, undoing a debit stored since. A second approval of
a refund is answered with `VALUE_REFUND_ALREADY_DECIDED` and stored as a block,
which turns the first over (`value-refund-decision.js:465`).

Not properties, because nothing in the repository promises them: that refunds
of one spend stay within it (`value-refund.js:118`), that a limit check is of
the same amount as the decision that cites it (`value-spend-decision.js:182`),
that a movement record keeps its first content (`value-balance.js:215`).

### Proved

`ValueCirculationProofs`, for any identities, currencies, requests, pools and
scenes, however requests overlap and are cut off:

- `CirculationTypes`: `Spec => []TypeOK`, with the cap on a spend's receipts
- `CirculationChecks`: `Spec => []CheckRespected`
- `CirculationApproved`: `Spec => [](ApprovalBacked /\ MoveBacked /\ DebitBacked)`
- `CirculationBacked`: `Unnamed => (Spec => []MovementsBacked)`
- `CirculationSolvent`: `Solvent => (Spec => []NeverOverdrawn)`

Assumptions: `StoreAssumption` (the scenes stay within the pools),
`CirculationAssumption` (`Absent` and `None` are no records and no keys; declared
amounts are integers). `Unnamed`: no client names the record of a debit. Without
it `RefundOfDebit`, the fourth part of `MovementsBacked`, is false: a client may
name a stored debit of another spend for a new one and replace it, under a
refund that was taken from it. `Solvent`: no client declares a negative balance;
`value-surface.js` does not refuse one. The instances of the runs satisfy both.

`IInv` says of each record that is stored, was read or will be put on what it
rests (`Fine`): decisions, limit checks and debits, which are stored, or are the
first put of the same request. They can be relied on because nobody else can
overwrite them (`Lasting`): their identifiers are given out once (`RequestsApart`),
and who puts one again got it from the store and changes only its moved flag
(`Same`). Surfaces, topups and spends are overwritten with old copies all the
time, and the invariant asks nothing of them but that each copy is right by
itself. So an old balance put over a newer one loses money or brings it back but
never goes below zero, since the check was made on the copy that is put.

`ValueTurnsProofs`, for requests that come one after another:

- `CirculationPermitted`: `Alone => (Spec => MovesPermitted)`
- `CirculationListed`: `Alone /\ ReceiptsPrivate => (Spec => []ReceiptsListed)`
- `CirculationBooks`: `Alone /\ BooksKept => (Spec => []CrashesBoundLoss)`
- `CirculationLedger`: `LedgerTerms => (Spec => LedgerSpec)`, the refinement

| Hypothesis | Says | Why it is needed |
| --- | --- | --- |
| `Alone` | one request at a time; `Idle` is no request | two that overlap lose an update |
| `ReceiptsPrivate` | none is cut off; clients name no new spend or receipt | a receipt or spend posted again under its identifier takes a list or an entry with it |
| `BooksKept` | `Unnamed`; finitely many surfaces and debits; what a scene is given is what was declared | a debit that is replaced takes its amount out of the sum |
| `LedgerTerms` | none is cut off; no decision is cited, no new movement or debit is named; the scene starts empty | an older decision that is named moves its amount twice; the ledger starts with empty purses |

The scene of value_ledger satisfies `LedgerTerms` and `ReceiptsPrivate`, those of
value_crash `BooksKept`, and all of them `Alone`.

Between two requests the store is `Sound` (what is proved of it, up to a step of a
request that is alone, stands in `ValueCirculationProofs`): topups go between two surfaces, no
approved topup or spend that is still to move has been moved, receipts are
listed, the sums are what was declared. While the request in progress is at its
puts, the store is not; so `AInv` remembers the store the request found (`Partway`):
it was sound, what the request has read is what was stored in it (`SeenNow`), all
that it puts is the worker's plan over it (`Plan`), and what is stored now is that
store with the first puts made (`PutSoFar`). A property of a quiet store is then
about a whole plan over a sound store, and a cut-off about a part of one. For the
refinement the first put of a plan is the step of the ledger (`PlanMoves`), and
each later put, and each get, leaves the purses, approvals and movements of the
mapping as they are.

The sums over surfaces and debits and the list of receipts are folds. A fold is
`CHOOSE` of a recursive function, and the library's induction cannot be used. For
finite sets of integers the first section of `ValueCirculationProofs` avoids it:
among the subsets for which a sum is wrong, if there are any, one is smallest, and
taking an element out of it contradicts that (`SmallestSubset`). From this come what a change at one surface
does to a sum, what `Without` leaves of a list and what `Capped` keeps.

## 5. Indexes and trails

`ValueTrails` takes registration and status change as the two workers and makes
each append a get and a put of the list. Run value_trails: 3 surfaces, lists of
two, two requests at a time, three posts, one cut-off; 0.21 M states.
`ListsTrue` has three parts. `IndexSound` holds whatever overlaps. `IndexComplete`
and `TrailTellsStatus` are stated for requests that neither overlap nor are cut
off: two appends that overlap lose an entry and the code has nothing against it.
A status index never drops the surface that left the status
(`value-surface-status.js:118`).

`CHECK_DEADLOCK FALSE` here and in the runs of sections 6 to 9: when the
posts or the identifiers of the instance are used up, nothing is left to do.

### Proved

The last section of `ValueCirculationProofs`, where the lemmas on lists are, has an
instance of the module, `Tr`. For any surfaces, statuses and requests, any cap and
any number of cut-offs:

- `TrailTypes`: `TrailTerms => (Tr!Spec => []Tr!TypeOK)`
- `TrailLists`: `TrailTerms => (Tr!Spec => []Tr!ListsTrue)`

`TrailTerms` is `TrailAssumption` of the module, for the instance: a cap above
zero, bounds that are natural numbers, an `Absent` that is no status.

`TrailInv` follows a request by the puts it has left (`WholeRequest`,
`AfterRecord`). What is stored under a key, and what a request holds of it, is
`ListSound`: no longer than the cap, and for an index without repetition and of
stored surfaces only, since the record is put before its surface is appended
anywhere and no record is deleted. For requests in turn (`TrailSingle`) a copy is
what is stored, so an append takes nothing back, and `AppendsDue` says that the
append that would put a stored surface where it is missing is still to be made;
when all is quiet none is.

## 6. Identity lifecycle

`IdentityLifecycle` keeps the five kinds of records the workers read back to
decide. A worker with one deciding get is one step and then its puts; the two
workers that read several records have a step per get (`reading`). Left out: the
records nothing reads back, the indexes and trails.

The four workers that make a record take its identifier from the request body
when there is one (`identity-turnstile.js:147`, `identity-collapse-decision.js:145`,
`identity-reactivation.js:156`, `identity-reactivation-decision.js:147`) and put over
whatever is stored under it. `Given` is that choice: an identifier the worker
makes, or one in use. The history variable `again` counts, for each record, the
posts under its identifier while it was in use; `MaxReplaced` bounds how many
records that happens to, `MaxAgain` how often to each.

Run identity_lifecycle: one identity, two requests at a time, one cut-off, a
passage of the gate, two collapse decisions, a request and a decision on it, and
two records posted over, once each; 3.8 M states. A second collapse and a second
restore need a gate, a request and a decision that are posted again.

- `StateBacked` (`CollapseBacked`, `RestoreBacked`): whatever overlaps or is cut
  off, the state of an identity names a stored decision, and a restore rests on a
  collapse that was carried out. That the decision is the identity's own,
  approved and marked as executed holds unless another was posted under its
  identifier; that a human passed its gate, unless another gate was.
- `LossBounded`: marking comes first, so a cut-off loses an execution and never
  allows a second; when nothing is in progress, decisions marked without effect
  are no more than the requests cut off, whatever is posted again.
- `PassageSpent`, `CarriedOnce` are for requests that do not overlap. Each time
  the gate is posted again under the identifier of a used passage, that passage
  backs one more approval; each time a decision is posted again, it is carried
  out once more. This needs neither overlap nor a cut-off. The properties say
  that it is one more for each such post and never two. With overlap a passage
  can be approved twice, and a late put can collapse a restored identity again:
  the code reads, then marks, with no lock.

Two records posted over reach what a client can do by it: replace a record before,
while or after it is relied upon, and one that this one rests on.

Known and without a run: `identity-collapse.js` is to "Record the approved identity
collapse state without erasing history" (line 7), and "the identity is now marked
collapsed and preserved as history" (lines 26 and 27). A second decision posted
under the identifier of the executed one replaces it, and the identity stays
collapsed while the decision on record says it was never executed.

Known and without a run: an approval left over from an earlier collapse restores
a later one, as the restore compares the state with nothing
(`identity-reactivation-restore.js:127`); and a block after an approval leaves
the approved decision executable (`identity-collapse-decision.js:388`).

### Proved

`IdentityLifecycleProofs`, for any identities, identifiers and requests, any
number of them cut off, and any number of records posted again: `LifecycleTypes`
(`TypeOK`), `LifecycleStateBacked`, `LifecycleLossBounded`, `LifecycleCarriedOnce`,
`LifecyclePassageSpent`: every property of the run. Assumption:
`LifecycleAssumption`, by which identifiers of two kinds differ.

`IInv` speaks of the puts a request carries (`Fits`): a record that is new has an
identifier nobody else has (`FirstAlone`), unless it was posted again; one that is
put again differs from the stored one in nothing a decision was taken on (`Same`),
unless that was replaced; and a put of the state is the last of its request, after
the mark of its decision. That a put of one
request leaves all the others as fit as they were is `Steady`. The counts are over
what may still happen too: `Lost` are the decisions marked that no request in
progress will carry out, and only a cut-off adds one; `Granted` are the approvals
of a passage that are stored or on their way.

## 7. The workers over one store

`IdentityStore` is the ground: `kv`, for each request what it asks and has read
(`reading`) and the puts, deletes and appends it has still to make (`todo`), `Put`
and `Crash`. An append is a get and a put; so are a refresh, which puts only if the
record still has the same identifier, and `PutsBack`, which puts what is there. The
identifier of a new record is `Minted` where the worker makes it, `Chosen` where
the client names the record, and `Given` where the worker makes one unless the
client sends one. The modules above it give each worker a
step per get and say what it puts in which order. `IdentityWorkers` puts them
together: what proximity-enter and relevance-check store is what the ping workers
go on with; objects and accounts meet the rest only in the requests.

Run identity_workers: two identities, two requests, twenty scenes, 1.1 M states.
A scene has identifiers for some kinds of record, may start with records `given`
by earlier requests, and is either `oneByOne`, with at most one request cut off,
or lets requests overlap.

| Scenes | What happens |
| --- | --- |
| 2 | a ping, found relevant or posted, thrown back or let through, routed, delivered, acknowledged; posted again with another sender |
| 4 | a field posted and closed by two identities; relevance checked in a field; an object coming near an intent and leaving, up to two pings, in turn and with overlap |
| 7 | two claims; a claim and its handoff; an accepted claim up to its evidence; in turn and with overlap |
| 2 | two emails up to their sessions in turn; two requests on one email |
| 3 | in turn, with identifiers that clients send: a claim on one of two objects posted over the other's; a handoff posted over one of another claim; a handoff, a proof and evidence posted over what was made of an accepted claim; the last two with a cut-off |
| 2 | with overlap and such identifiers: a claim and its handoff posted again; a proof and its evidence posted again |

### Pings

`PingPipeline` has the tables by which the workers decide (`PingKinds`,
`ThrottleDecisions`, `AckActions`, `Allowed`, `Stopping`).

- `PingsBacked`: whatever overlaps, a stored delivery is of a ping that a stored
  throttle let through between the same two ends, and what a ping or a route
  names is stored and says what they repeat.
- `PingOnce`: requests in turn make one ping of what was found relevant, and one
  more for each cut off before it lists its ping.
- `FloodHeld`: requests in turn let no more pings to one receiver through unasked
  than the limit, and one more for each cut off. With overlap the count is read
  before the throttle is listed, and nothing holds.

Not a property, because the code does not do it: that a hold or a silence placed
after a route stops the delivery. `ping-ack.js:126` replaces the status, and a
ping marked as seen is delivered over it. The hour after which a throttle no
longer counts does not pass in the model, so `FloodHeld` is about one hour.

### Fields, proximity and relevance

`FieldProximity` abstracts terms, radius and score to a phrase that is the same
or not: a worker only ever asks whether some intent fits.

- `CopiesAgree`: when requests come in turn, the copy of a field and the current
  field of its identity disagree on whether it is open only for a request cut off
  between the two puts. The second put of `field-close.js` (line 226) looks at
  the record again and leaves another field alone. With overlap an old copy of
  the field can be put over a newer one.
- `EventsBacked`: whatever overlaps or is cut off, a ping made by an object coming
  near names a stored event of a stored intent between the same two ends, no
  event makes two pings, and an event that is over names its exit. It rests on
  the order of the puts: the event is stored before the ping.

Not properties, because the code does not do them: an object comes near in a
closed field too, since `proximity-enter.js` never reads the field; an intent that
is named to `relevance-check.js` (line 152) is taken whoever remembered it and
even when it is paused, while one found through the index is not.

### Objects and evidence

`ObjectClaims` is how an object is posted, claimed, decided and handed over;
`ObjectEvidence` adds what becomes of a handoff.

Clients may send the identifier of the claim, the handoff, the proof and the
evidence they make (`object-claim.js:230`, `object-handoff.js:193`,
`handoff-proof.js:154`, `proof-to-ican.js:220`), also of one that is stored, which is
replaced, whatever object or claim it was of. The bound `again` of a scene is the
set of records that clients may post over so, as often as they like; `Kept` are
the others. In five scenes some records are not kept; in the others the properties
say what holds as long as clients send no identifier in use.

- `RecordsBacked`: along the chain from object to evidence every record names one
  that is stored, whatever happens; and, if that one is `Kept`, it is of the same
  claim, between the same parties, of the owner the object has, although anyone
  may post the object again at any time. Over a handoff or a claim that is not
  kept a record of another claim may stand, and what named it does not agree.
- `ReservationReleased`: when requests come in turn and none is cut off, no object
  names a claim on it that was rejected or cancelled as the one that reserves it.
  "On it" is needed: bob claims one object and then another under the same
  `claim_id`, the second is rejected, and only the second object is freed. The
  first stays reserved for a claim that is over and says nothing of it. There is
  neither overlap nor a cut-off in that.
- `EvidenceOnce`: when requests come in turn, a proof is evidence for an identity
  once, and once more for each request cut off, because the list that a retry
  looks up is put last (`proof-to-ican.js:279`). Proofs and evidence that are
  posted again do not change that.

The status of a proof decides nothing, because a client may force the next step,
and is left out. Deciding it puts the proof back as it was read, and then the
handoff the proof names as it is by then (`DecideProof`).

Not properties, because the code does not do them: a rejection frees an object
reserved for another claim (`object-claim-decision.js:491`); a cancelled handoff
turns a handed-off object back to reserved though another handoff handed it off
(`object-handoff.js:551`); two overlapping requests of one claimant make two
claims (`object-claim.js:236`); a claim posted as cancelled still reserves.

### Proved

`IdentityWorkersProofs`, for any identities, requests, pools and scenes, with
overlap and cut-offs anywhere, over the composition of all workers:

- `WorkersFit`: `Spec => []IInv`
- `WorkersMeet`: `Spec => []EventsBacked`
- `WorkersBack`: `Spec => []RecordsBacked`
- `WorkersEnter`, `WorkersConsume`: `Spec => []EntryBacked`, `Spec => []ConsumedWhole`
- `WorkersThrottle`: `Untold => (Spec => []PingsBacked)`
- `WorkersTypes`: `Untold => (Spec => []TypeOK)`

`IInv` is one sentence for all families: every record that is stored, and every
record that will be put, rests on facts, which are the records stored and those
the same request puts before it (`Facts`, `RequestFits`). A proof then has three
parts: what a request computes from what it has read rests on facts; facts last
(`Agreeing`, `Same`: who puts a record again got it from the store, or minted its
identifier, and the fields others rest on do not change, but for the records a
client posts others over, of which only the key lasts); and no two requests mint
one identifier (`TokensApart`, `EventsApart`). The order of the puts in
the code is what makes it true: turning two around leaves a record that rests on
nothing when the request is cut off between them.

`Untold`: no client posts a ping with a status that only the throttle gives.
`ping-from-relevance.js` takes the status from its input, and a ping posted as
let through is delivered without a throttle; the instance of the run posts
`queued`. Assumptions: the ones of the modules, of which two say more than that
constants have their types. `ClaimsAssumption`: `object-handle.js` (line 35) takes
every status but `handed_off`. `WorkersAssumption`: the records a scene is given
are records earlier requests can have left.

`IdentityTurnsProofs`, for the scenes in which requests come one by one, of any
size and with any number of cut-offs:

- `TurnsTaken`: `Spec => []Sole`, at most one request is in progress
- `TurnsPing`, `TurnsFlood`: `Spec => []PingOnce`, `Spec => []FloodHeld`
- `TurnsEvidence`, `TurnsToken`: `Spec => []EvidenceOnce`, `Spec => []TokenSpent`
- `TurnsCopies`: `Spec => []CopiesAgree`
- `TurnsReservation`: `Begun => (Spec => []ReservationReleased)`

The properties count records while the number of cut-offs bounds the count, and
none is inductive: between two puts of one request the count is already up and
the mark that stops the next request is not there yet. Four invariants
(`EvidenceTurns`, `TokenTurns`, `PingTurns`, `FloodTurns`) have one form. They
count what is stored together with what is still to be put (`Versions`), and take
a mark, such as an index entry or a used token, for set as soon as it is to be
put (`Awaited`). So a put changes no count; only a worker that read that there is
no mark adds one, and by the invariant there was none too many then; and only a
request cut off leaves a record with no mark, which is one more cut-off. For pings
the copies that throttle and delivery put back count too, and for `FloodHeld` the
throttles that are not listed yet are counted apart.

`FieldTurns` says where the puts of a pair of copies stand (`FieldForm`): a pair
that is half put is left out of the count until its second put, or until the
second get of `field-close.js` finds another field. `ClaimTurns` is about what
will be stored once all puts are made (`Latter`), for which the property always
holds, and says that a copy in the hands of a worker is what is stored, since it
is alone.

`Begun`: no client posts a claim with the status rejected or cancelled. It is
needed: `object-claim.js` takes the status from its input, and a claim posted as
cancelled reserves its object. The runs post open claims. Whether clients post
claims again is not restricted: the theorem holds for every `again`.

## 8. Account entry

`AccountEntry` runs with the workers of section 7. A setup token carries the
identity its user will have, so the two have one name. PBKDF2 is a function of
password, email and rounds that tells any two apart. A deleted token stays in the
model as `Consumed` or `Expired`, so that its name is not taken again and the
properties can ask why it went. Left out: the expiry of sessions, and
`session-create`, which no handler calls.

- `EntryBacked`: whatever overlaps or is cut off, a session on record names a
  stored user with the session's email, and so does the lookup of an email. The
  session is put after both, and it is what the dashboard reads.
- `TokenSpent`: a token is used up only when its user can be found by email, so
  who was cut off before may try again; and requests in turn get one session out
  of it, with one more for each cut off before the token is deleted. With overlap
  two requests with one token both enter.

### Disagreement found

`ReturningEnters`, run returning_refused: "RETURNING MEMBER TRACK: existing
password -> verified identity + session" (`auth/src/router.ts:19`). `set-password`
derives the hash with 150000 rounds and stores no number; `login` derives it with
100000, and a password that was set is refused.

Known without a run: every setup token carries a new identity, also for an email
that has an account, and setting the password moves the lookup of the email to it
(`set-password.js:17`, `:175`); the page `setup.html` posts `token` where
`set-password` reads `setupToken`; `/api/auth/send-verification` is served both by
the site and by cybercrowd-auth, in different ways, and the routes of the
deployment decide which one answers.

## 9. Email verification

`EmailVerification` has its own variables, as the worker keeps its passes and
tokens in a namespace of its own and its rows in a database: `pass`, `token`,
`rows`, and for each request the step it is at (`work`). Every await is a step;
the mail may be refused; the store drops passes and tokens by their age at any
time. Turnstile and Postmark are external: one says that a human is there, the
other takes the mail or does not. Run email_verification: two emails, two passes,
three tokens, two rows, two requests in turn or overlapping, one loss; 0.43 M
states.

- `VerifiedBacked`: a row says verified only if a token of its email was mailed,
  made on a human pass that was spent.
- `PassWorthOne`: a pass makes one token when requests come in turn, never more
  than there were requests; and once all is quiet each pass that was spent has
  its mail on the way, but for the requests cut off and the mails refused. There
  is no way back for those: the pass is gone before the mail is tried
  (`router.ts:813`).
- `OnceEach`: requests in turn have a token succeed once and add one row for an
  email; those that overlap, no more than there are of them.

Known without a run: two clicks on one link that overlap both succeed
(`verify.ts:27`, `:67`); a token whose email has no row reports success and
records nothing (`verify.ts:29`, `:76`).

### Proved

`EmailVerificationProofs`, for any passes, tokens, emails and rows and any finite
set of requests: `VerificationTypes` (`TypeOK`), `VerificationBacked`,
`PassIsWorthOne`, `VerifiedOnceEach`: every property of the run.

The bounds are potentials. What a pass, a link or an email may still bring is
counted twice, as what it has brought and as the requests that have seen it and
have not used it yet; a request joins the second count only while the first is
zero, and a step moves it from one to the other. So the sum stays within the
number of requests at work at one time (`Crowd`), which is one when they come in
turn. `LossesCover` counts a spent pass as lost once no request has it in hand.

## 10. Counted attempts

`AttemptCounter` has the count, the copy each attempt in progress got, and two
history variables: the tries counted since the record was last absent, and how
many attempts were ever in progress at one time. `Get` and `Fail` are the two
halves of an attempt; `Match` is one that succeeds or is cut off, and puts
nothing; `Lapse` is the expiry of `login:ip:<address>`, at any time. The record of
a verifier never expires, so its behaviours are those without `Lapse`.

Run attempt_counter: the verifier's limit of three, up to three attempts at a
time; 509 states, all there are. The limit of ten is the same module with another
constant, and the theorem covers it.

- `TriesBounded`: attempts in turn have three wrong tries. Two at a time have
  nine: one holds a low count while the other uses up the rest and then puts the
  count back, each time one higher.

With three at a time there are nineteen, which TLC finds when asked.

So the escalated state of `attachment-verifier-failure-state.js` ("the ordinary
four-digit verifier path may no longer continue") is final only while attempts
come in turn; that is `StaysClosed`.

### Proved

`AttemptCounterProofs`, for every limit above zero and any finite set of attempts:

- `TypeCorrect`: `Spec => []TypeOK`; the count never passes the limit
- `TriesAreBounded`: `Spec => []TriesBounded`
- `ClosedStaysClosed`: `Spec => StaysClosed`

The bound for two is a potential argument. `Twice(n)` is twice the tries two
attempts have starting from n. `IInv` says that twice the tries so far, and what
is left from the count, and what is left with the help of any one copy (`Left`),
stay within `Twice(0)`. A copy no higher than the count gives the tries from the
copy on, less those already passed. `LastGot` is why two copies do not help each
other: one of them is the count as it is. `AfterPut` and `OtherAfterPut` are the
arithmetic of one put. `IInv` was first checked by TLC with limits three and four.

## 11. What rests on what

- Proved for all constants: every property of the runs `allocator` (but for
  liveness), `value_trails`, `identity_lifecycle`, `email_verification` and
  `attempt_counter`; of `value_races`, under `Unnamed` and `Solvent`; of
  `value_ledger` and `value_crash`, under the hypotheses of section 4, of which
  each instance satisfies its own; of `identity_workers`, where `PingsBacked`
  and `TypeOK` need `Untold` and `ReservationReleased` needs `Begun`. So every
  invariant and every action property of the passing runs has its theorem, and
  both refinements: 46 theorems in eight modules.
- Model-checked only, because the prover cannot do it: liveness
  (`ExpiredIsReclaimed`).
- Not proved, because it is not so: the three properties of the runs that find a
  violation (debited_twice, returning_refused, heartbeat_term).
- Outside every model: the storage returns the last value put. The delay with
  which the real namespace shows a put elsewhere is left out. With a delayed
  read, requests that follow each other can behave like requests that overlap, so
  the properties stated for requests in turn (`LedgerSpec`, `CrashesBoundLoss`,
  `IndexComplete`, `CarriedOnce`, `FloodHeld`, `EvidenceOnce`, `CopiesAgree` and
  their like) assume a namespace that has settled. The expiry of records by their
  age is in `AttemptCounter`, `AccountEntry` (tokens) and `EmailVerification`;
  elsewhere it is left out, and a record that expired would make a handler
  refuse. Failures of a get or a put that the worker survives are left out too:
  no handler catches one (the `catch` clauses are about parsing), so they are
  cut-offs.
