---------------------------- MODULE ValueTrails -----------------------------
(***************************************************************************)
(* The lists the value workers keep beside their records: an index is a    *)
(* JSON array of identifiers, a sync trail one of events.  After its last  *)
(* record a worker appends to one list after another, and each append is   *)
(* a get, a change of the copy and a put.  value-snapshot.js,              *)
(* value-low-water.js and the GET of value-surface.js find an identity's   *)
(* surfaces only through its index, value-history.js shows its trail.      *)
(*                                                                         *)
(* Registration (value-surface.js) and the status change                   *)
(* (value-surface-status.js) of one identity stand for all the workers:    *)
(* appendIndex and appendSync are the same text in each.  A record is its  *)
(* status; the indexes by kind and by role are not kept.                   *)
(***************************************************************************)
EXTENDS Integers, Sequences, FiniteSets, FiniteSetsExt, Lists

CONSTANTS
  Requests,         \* the requests that may be in progress at one time
  Surfaces,         \* the surfaces of the identity
  Statuses,
  MAX_INDEX_ITEMS,
  MaxPosts,         \* bound: requests received in one behaviour
  MaxCrashes,       \* bound: requests cut off
  Absent, None

ASSUME TrailAssumption ==
  /\ MAX_INDEX_ITEMS \in Nat \ {0}
  /\ MaxPosts \in Nat
  /\ MaxCrashes \in Nat
  /\ Absent \notin Statuses

VARIABLES
  record,   \* the status stored for each surface, or Absent
  list,     \* what is stored under the key of each list, newest first
  todo,     \* for each request, the puts it still has to make
  copy,     \* for each request, the list it has read to append to, or None
  posts,    \* requests received
  crashes,  \* requests cut off
  overlap   \* history: a request was received while another was in progress

trailVars == <<record, list, todo, copy, posts, crashes, overlap>>

(* The keys value-surface:index:identity, :index:status:..., sync:<identity>
   and sync:<surface>.                                                     *)
IdentityIndex == <<"identity">>
StatusIndex(st) == <<"status", st>>
IdentitySync == <<"sync">>
SurfaceSync(s) == <<"sync", s>>

Indexes == {IdentityIndex} \union {StatusIndex(st) : st \in Statuses}
Lists == Indexes \union {IdentitySync} \union {SurfaceSync(s) : s \in Surfaces}

Event(type, s, st) == [type |-> type, surface |-> s, status |-> st]

(* What a put writes: the record of a surface, or the list under a key.    *)
Record == <<"record">>

PutOf(s, st) == [put |-> Record, surface |-> s, status |-> st]
AppendOf(key, item) == [put |-> key, item |-> item]

RegisterPuts(s, st) ==
  <<PutOf(s, st), AppendOf(IdentityIndex, s), AppendOf(StatusIndex(st), s),
    AppendOf(IdentitySync, Event("registered", s, st)),
    AppendOf(SurfaceSync(s), Event("registered", s, st))>>

(* A slip: the status index is left to registration.                       *)
StatusPuts_NotIndexed(s, st) ==
  <<PutOf(s, st),
    AppendOf(IdentitySync, Event("changed", s, st)),
    AppendOf(SurfaceSync(s), Event("changed", s, st))>>

StatusPuts(s, st) ==
  <<PutOf(s, st), AppendOf(StatusIndex(st), s),
    AppendOf(IdentitySync, Event("changed", s, st)),
    AppendOf(SurfaceSync(s), Event("changed", s, st))>>

(* appendIndex moves an identifier it holds to the front and keeps the     *)
(* newest MAX_INDEX_ITEMS; appendSync keeps every event apart.             *)
appendIndex(items, value) ==
  Capped(<<value>> \o Without(items, value), MAX_INDEX_ITEMS)

(* A slip: a trail is never cut.                                           *)
appendSync_Uncapped(trail, event) == <<event>> \o trail

appendSync(trail, event) == Capped(<<event>> \o trail, MAX_INDEX_ITEMS)

Appended(key, items, item) ==
  IF key \in Indexes THEN appendIndex(items, item) ELSE appendSync(items, item)

Init ==
  /\ record = [s \in Surfaces |-> Absent]
  /\ list = [k \in Lists |-> <<>>]
  /\ todo = [r \in Requests |-> <<>>]
  /\ copy = [r \in Requests |-> None]
  /\ posts = 0
  /\ crashes = 0
  /\ overlap = FALSE

Quiet == \A r \in Requests : todo[r] = <<>>

Post(r, puts) ==
  /\ todo[r] = <<>>
  /\ posts < MaxPosts
  /\ posts' = posts + 1
  /\ todo' = [todo EXCEPT ![r] = puts]
  /\ overlap' = (overlap \/ ~Quiet)
  /\ UNCHANGED <<record, list, copy, crashes>>

(* Nothing keeps a client from registering a name again.                   *)
Register(r) == \E s \in Surfaces, st \in Statuses : Post(r, RegisterPuts(s, st))

(* The get of the surface only refuses a missing one: records are never    *)
(* deleted and its other fields are not kept here.                         *)
ChangeStatus(r) ==
  \E s \in Surfaces, st \in Statuses :
    record[s] # Absent /\ Post(r, StatusPuts(s, st))

PutRecord(r) ==
  /\ todo[r] # <<>>
  /\ Head(todo[r]).put = Record
  /\ record' = [record EXCEPT ![Head(todo[r]).surface] = Head(todo[r]).status]
  /\ todo' = [todo EXCEPT ![r] = Tail(@)]
  /\ UNCHANGED <<list, copy, posts, crashes, overlap>>

GetList(r) ==
  /\ todo[r] # <<>>
  /\ Head(todo[r]).put # Record
  /\ copy[r] = None
  /\ copy' = [copy EXCEPT ![r] = list[Head(todo[r]).put]]
  /\ UNCHANGED <<record, list, todo, posts, crashes, overlap>>

PutList(r) ==
  /\ copy[r] # None
  /\ LET a == Head(todo[r])
     IN  list' = [list EXCEPT ![a.put] = Appended(a.put, copy[r], a.item)]
  /\ todo' = [todo EXCEPT ![r] = Tail(@)]
  /\ copy' = [copy EXCEPT ![r] = None]
  /\ UNCHANGED <<record, posts, crashes, overlap>>

Crash(r) ==
  /\ todo[r] # <<>>
  /\ crashes < MaxCrashes
  /\ crashes' = crashes + 1
  /\ todo' = [todo EXCEPT ![r] = <<>>]
  /\ copy' = [copy EXCEPT ![r] = None]
  /\ UNCHANGED <<record, list, posts, overlap>>

Next ==
  \E r \in Requests :
    \/ Register(r) \/ ChangeStatus(r)
    \/ PutRecord(r) \/ GetList(r) \/ PutList(r)
    \/ Crash(r)

Spec == Init /\ [][Next]_trailVars
-----------------------------------------------------------------------------
Items(key) == {list[key][i] : i \in DOMAIN list[key]}

TypeOK ==
  /\ record \in [Surfaces -> Statuses \union {Absent}]
  /\ \A k \in Lists : Len(list[k]) <= MAX_INDEX_ITEMS
  /\ \A k \in Indexes : Items(k) \subseteq Surfaces
  /\ posts \in 0..MaxPosts
  /\ crashes \in 0..MaxCrashes
  /\ overlap \in BOOLEAN

(* Whatever overlaps or is cut off, an index names no surface twice and    *)
(* none that is not stored: a snapshot counts no balance twice and finds   *)
(* what it looks up.                                                       *)
IndexSound ==
  \A k \in Indexes :
    /\ Cardinality(Items(k)) = Len(list[k])
    /\ \A s \in Items(k) : record[s] # Absent

Orderly == ~overlap /\ crashes = 0

(* When requests did not overlap, a stored surface is in the index of its  *)
(* status, and of the identity, unless enough others came after it.        *)
IndexComplete ==
  Quiet /\ Orderly =>
    \A s \in Surfaces : record[s] # Absent =>
      \A k \in {IdentityIndex, StatusIndex(record[s])} :
        s \in Items(k) \/ Len(list[k]) = MAX_INDEX_ITEMS

(* When requests did not overlap, the first event of a surface's trail     *)
(* says the status that is stored.                                         *)
TrailTellsStatus ==
  Quiet /\ Orderly =>
    \A s \in Surfaces : record[s] # Absent =>
      list[SurfaceSync(s)][1].status = record[s]

(* What the views read, who read nothing but the lists and then what the   *)
(* lists name.                                                             *)
ListsTrue == IndexSound /\ IndexComplete /\ TrailTellsStatus
=============================================================================
