---------------------------- MODULE IdentityStore ----------------------------
(***************************************************************************)
(* What the workers of a pipeline share: the namespace env.IDENTITY, which *)
(* has no transactions, and the requests in progress.  A request makes its *)
(* gets one by one, decides, and then makes its puts and appends one by    *)
(* one; other requests run in between, and at each it may be cut off.      *)
(* How far a behaviour goes is bounded once, when it starts, so that one   *)
(* run can hold long ones with no overlap and short ones with.             *)
(***************************************************************************)
EXTENDS Integers, Sequences, FiniteSets

CONSTANTS
  Requests,     \* the requests that may be in progress at one time
  Identities,   \* the identities sessions resolve to
  Pool,         \* for each kind of record, the identifiers it may get
  Bounds,       \* for each scene, the bounds of its behaviours
  None

(* oneByOne: a request waits for the one before it; crashes: requests cut
   off; pool: the identifiers records get, of those in Pool; again: the keys
   of the records clients post other records over, where a worker takes the
   identifier of a new record from its client; given: the records that
   earlier requests, which the behaviour leaves out, stored.               *)
ASSUME StoreAssumption ==
  /\ \A b \in {Bounds[n] : n \in DOMAIN Bounds} :
       /\ b.oneByOne \in BOOLEAN
       /\ b.crashes \in Nat
       /\ DOMAIN b.pool = DOMAIN Pool
       /\ \A k \in DOMAIN Pool : b.pool[k] \subseteq Pool[k]
       /\ \A key \in DOMAIN b.given :
            key[1] \in DOMAIN Pool => key[2] \in Pool[key[1]]
  /\ None \notin Identities \union UNION {Pool[k] : k \in DOMAIN Pool}

VARIABLES
  kv,       \* env.IDENTITY: a record per key, a set of entries per index
  reading,  \* for each request, what it asks and the copies it read, or None
  todo,     \* for each request, the puts and appends it still has to make
  crashes,  \* requests cut off
  scene     \* never changes: which of the scenes this is

vars == <<kv, reading, todo, crashes, scene>>

bounds == Bounds[scene]

Stored(key) == key \in DOMAIN kv
Listed(key) == IF Stored(key) THEN kv[key] ELSE {}
Idle(r) == reading[r] = None /\ todo[r] = <<>>
Quiet == \A r \in Requests : Idle(r)

Writes(key, value) == [key |-> key, value |-> value]
Deletes(key) == [key |-> key]
Appends(key, entry) == [key |-> key, adds |-> entry]
Refreshes(key, value) == [key |-> key, refresh |-> value]
PutsBack(key) == [key |-> key, back |-> TRUE]

OrNone(S) == S \union {None}

(* makeId: an identifier no record has and no request is about to store.   *)
Taken(kind, id) ==
  \/ Stored(<<kind, id>>)
  \/ \E r \in Requests : \E n \in DOMAIN todo[r] : todo[r][n].key = <<kind, id>>

Minted(kind) ==
  LET fresh == {id \in bounds.pool[kind] : ~Taken(kind, id)}
  IN  IF fresh = {} THEN {} ELSE {CHOOSE id \in fresh : TRUE}

(* An identifier the client may choose, taken or not.                      *)
Chosen(kind) == bounds.pool[kind]

(* The identifier of a new record: made by the worker, or one the client
   sends, under which a record may be stored by then.                      *)
Given(kind) ==
  Minted(kind) \union {id \in bounds.pool[kind] : <<kind, id>> \in bounds.again}

(* No client posts another record over this one.                           *)
Kept(key) == key \notin bounds.again

Init ==
  /\ scene \in DOMAIN Bounds
  /\ kv = bounds.given
  /\ reading = [r \in Requests |-> None]
  /\ todo = [r \in Requests |-> <<>>]
  /\ crashes = 0

(* A request may arrive.                                                   *)
Arrives(r) == Idle(r) /\ (bounds.oneByOne => Quiet)

Reads(r, asks) ==
  /\ reading' = [reading EXCEPT ![r] = asks]
  /\ UNCHANGED <<kv, todo, crashes, scene>>

WillPut(r, puts) ==
  /\ reading' = [reading EXCEPT ![r] = None]
  /\ todo' = [todo EXCEPT ![r] = puts]
  /\ UNCHANGED <<kv, crashes, scene>>

(* The first get of a worker, with others to follow or as the only one.    *)
StartReading(r, asks) == Arrives(r) /\ Reads(r, asks)
Goes(r, puts) == Arrives(r) /\ WillPut(r, puts)

(* The request is at the get that follows the one named.                   *)
HasRead(r, op) == reading[r] # None /\ reading[r].op = op

(* The first of the request's puts is done, and others come in its place.  *)
Leaves(r, puts) == todo' = [todo EXCEPT ![r] = puts \o Tail(todo[r])]

(* One await: a put or a delete, or the get of an append, which leaves its
   put, of a refresh, which leaves one if the record has the same id, or of
   a record that is put back as it is if there is one.                     *)
Put(r) ==
  /\ todo[r] # <<>>
  /\ LET p == Head(todo[r])
     IN  \/ /\ "adds" \in DOMAIN p
            /\ Leaves(r, <<Writes(p.key, Listed(p.key) \union {p.adds})>>)
            /\ UNCHANGED kv
         \/ /\ "refresh" \in DOMAIN p
            /\ Leaves(r, IF Stored(p.key) /\ kv[p.key].id = p.refresh.id
                         THEN <<Writes(p.key, p.refresh)>> ELSE <<>>)
            /\ UNCHANGED kv
         \/ /\ "back" \in DOMAIN p
            /\ Leaves(r, IF Stored(p.key) THEN <<Writes(p.key, kv[p.key])>> ELSE <<>>)
            /\ UNCHANGED kv
         \/ /\ "value" \in DOMAIN p
            /\ Leaves(r, <<>>)
            /\ kv' = [k \in DOMAIN kv \union {p.key} |->
                        IF k = p.key THEN p.value ELSE kv[k]]
         \/ /\ DOMAIN p = {"key"}
            /\ Leaves(r, <<>>)
            /\ kv' = [k \in DOMAIN kv \ {p.key} |-> kv[k]]
  /\ UNCHANGED <<reading, crashes, scene>>

(* The worker dies, or its client goes away, between two awaits.           *)
Crash(r) ==
  /\ ~Idle(r)
  /\ crashes < bounds.crashes
  /\ crashes' = crashes + 1
  /\ reading' = [reading EXCEPT ![r] = None]
  /\ todo' = [todo EXCEPT ![r] = <<>>]
  /\ UNCHANGED <<kv, scene>>
=============================================================================
