----------------------------- MODULE ValueStore -----------------------------
(***************************************************************************)
(* The ground the value workers (functions/api/value-*.js) stand on: one   *)
(* key-value namespace, env.IDENTITY, and the requests in progress.  A     *)
(* worker awaits each get and each put on its own, and other requests run  *)
(* between any two awaits.  What it computes between two awaits is atomic. *)
(* Every put writes a whole record, spread from the copy the request read  *)
(* earlier, and nothing compares versions: the last put wins.              *)
(*                                                                         *)
(* The lists the workers append to afterwards (indexes, sync trails) are   *)
(* read by none of the handlers that move value and are left out here.     *)
(***************************************************************************)
EXTENDS Integers, Sequences

CONSTANTS
  Requests,     \* the requests that may be in progress at one time
  Identities,   \* the identities sessions resolve to
  Currencies,
  Pool,         \* for each kind of record, the identifiers it may get
  Bounds,       \* for each scene, the bounds of its behaviours
  Idle, Absent, None

Kinds == {"value-surface", "value-topup", "value-topup-decision",
          "value-balance", "value-limit-check", "value-spend",
          "value-spend-decision", "value-spend-balance", "value-receipt",
          "value-refund", "value-refund-decision"}

(* endpoints: the workers requests are sent to; pool: the identifiers
   records get, of those in Pool; clients: those of them a client may choose
   for a new record; cited: the decisions clients name when they move value;
   registrations: the pairs of kind and role they register; given: the
   records that earlier requests, which the behaviour leaves out, stored;
   opening: the balances they declared; crashes: requests cut off.         *)
ASSUME StoreAssumption ==
  /\ \A b \in {Bounds[n] : n \in DOMAIN Bounds} :
       /\ DOMAIN b.pool = DOMAIN Pool
       /\ \A k \in Kinds : b.pool[k] \subseteq Pool[k]
       /\ \A key \in DOMAIN b.given : key[2] \in Pool[key[1]]
       /\ b.crashes \in Nat
       /\ b.opening \in Int
  /\ Kinds \subseteq DOMAIN Pool
  /\ None \notin UNION {Pool[k] : k \in Kinds}

Keys == UNION {{k} \X Pool[k] : k \in Kinds}

VARIABLES
  kv,        \* env.IDENTITY: a record or Absent under every key
  request,   \* Idle, or what the request asks, has read and will still put
  crashes,   \* how many requests were cut off
  declared,  \* history: the sum of the balances clients declared
  scene      \* never changes: which of the scenes this is

storeVars == <<kv, request, crashes, declared, scene>>

bounds == Bounds[scene]

Busy(r) == request[r] # Idle

(* A stored record of the given kind, where the key holds one.             *)
Holds(kind, id) == id \in Pool[kind] /\ kv[<<kind, id>>] # Absent

Records(kind) == {kv[<<kind, i>>] : i \in {j \in Pool[kind] : Holds(kind, j)}}

(* makeId: the time and a random suffix, so an identifier nothing uses;    *)
(* which one does not matter.  A client may also send the identifier of    *)
(* the new record in the body, whether or not it is taken.                 *)
Unused(kind, id) ==
  /\ ~Holds(kind, id)
  /\ \A r \in Requests : Busy(r) => request[r].input.new # id

Minted(kind) ==
  LET unused == {i \in bounds.pool[kind] \ bounds.clients : Unused(kind, i)}
  IN  IF unused = {} THEN {} ELSE {CHOOSE i \in unused : TRUE}

(* The decisions a client may name when it asks for value to be moved.     *)
Cited(kind) == bounds.pool[kind] \intersect bounds.cited

NewIds(kind) == Minted(kind) \union (bounds.pool[kind] \intersect bounds.clients)

(* The body a request was sent with becomes its input.                     *)
Receive(r, input, puts) ==
  /\ ~Busy(r)
  /\ input.op \in bounds.endpoints
  /\ request' = [request EXCEPT ![r] = [input |-> input, seen |-> <<>>,
                                        puts |-> puts]]
  /\ UNCHANGED <<kv, crashes, declared, scene>>

(***************************************************************************)
(* One awaited get of worker op.  Wants is the key it reads next given     *)
(* what it has seen, None when it has read everything; Refuses holds where *)
(* the worker returns an error; Puts is what it will write.                *)
(***************************************************************************)
Serve(r, op, Wants(_, _), Refuses(_, _), Puts(_, _)) ==
  /\ Busy(r)
  /\ request[r].input.op = op
  /\ request[r].puts = <<>>
  /\ LET input == request[r].input
         seen  == Append(request[r].seen, kv[Wants(input, request[r].seen)])
     IN  request' = [request EXCEPT ![r] =
           IF Refuses(input, seen) THEN Idle
           ELSE IF Wants(input, seen) = None
                THEN [@ EXCEPT !.seen = <<>>, !.puts = Puts(input, seen)]
                ELSE [@ EXCEPT !.seen = seen]]
  /\ UNCHANGED <<kv, crashes, declared, scene>>

(* Only registering a surface and patching its balance declare value.      *)
Declares(input) ==
  \/ input.op = "register"
  \/ input.op = "patch" /\ input.balance_cents # None

BalanceAt(key) == IF kv[key] = Absent THEN 0 ELSE kv[key].balance_cents

PutRecord(key, value) == kv' = [kv EXCEPT ![key] = value]

(* One awaited put: the request's next record replaces whatever is there.  *)
Put(r) ==
  /\ Busy(r)
  /\ request[r].puts # <<>>
  /\ LET puts == request[r].puts
         p    == Head(puts)
     IN  /\ PutRecord(p.key, p.value)
         /\ declared' = declared + (IF Declares(request[r].input)
                                    THEN p.value.balance_cents - BalanceAt(p.key)
                                    ELSE 0)
         /\ request' = [request EXCEPT ![r] =
              IF Len(puts) = 1 THEN Idle ELSE [@ EXCEPT !.puts = Tail(puts)]]
  /\ UNCHANGED <<crashes, scene>>

(* The worker dies, or its client goes away, between two awaits.           *)
Crash(r) ==
  /\ Busy(r)
  /\ crashes < bounds.crashes
  /\ crashes' = crashes + 1
  /\ request' = [request EXCEPT ![r] = Idle]
  /\ UNCHANGED <<kv, declared, scene>>

StoreInit ==
  /\ scene \in DOMAIN Bounds
  /\ kv = [k \in Keys |-> IF k \in DOMAIN bounds.given THEN bounds.given[k]
                                                       ELSE Absent]
  /\ request = [r \in Requests |-> Idle]
  /\ crashes = 0
  /\ declared = bounds.opening

(* The record is missing, or of another identity than the session's.       *)
Denied(record, input) ==
  record = Absent \/ record.identity_id # input.identity_id

Writes(key, value) == [key |-> key, value |-> value]
=============================================================================
