------------------------- MODULE IdentityTurnsProofs -------------------------
(***************************************************************************)
(* What IdentityWorkers keeps true while requests come one by one, for any *)
(* identities, pools and scenes, with requests cut off anywhere:           *)
(* EvidenceOnce, TokenSpent, PingOnce, FloodHeld and CopiesAgree; and, for *)
(* those with none cut off and no claim posted as rejected or cancelled,   *)
(* ReservationReleased.                                                    *)
(*                                                                         *)
(* The first four count records of which a worker makes no more once it    *)
(* finds the mark it leaves last: an index, a token that is used up.  The  *)
(* invariants count the records that are stored and those that will be     *)
(* put, and take a mark for set as soon as it will be: then only a worker  *)
(* that finds no mark adds one, when it decides, and only a request cut    *)
(* off before its mark leaves one more.  The last two follow the puts of a *)
(* pair of records: what is stored may disagree, what will be does not.    *)
(***************************************************************************)
EXTENDS IdentityWorkersProofs

(* One request at a time is in progress.                                   *)
Sole == bounds.oneByOne => \A r, q \in Requests : ~Idle(r) /\ ~Idle(q) => r = q

AtMost(S, n) == IsFiniteSet(S) /\ Cardinality(S) <= n

(* What will be put under a key, and what is or will be stored there.      *)
Awaited(key) == \E r \in Requests : \E n \in DOMAIN todo[r] : todo[r][n].key = key

Upcoming(key) ==
  UNION {{todo[r][n].value :
            n \in {m \in DOMAIN todo[r] : IsWrite(todo[r][m]) /\ todo[r][m].key = key}} :
         r \in Requests}

Versions(key) == (IF Stored(key) THEN {kv[key]} ELSE {}) \union Upcoming(key)

-----------------------------------------------------------------------------
(* The invariants.                                                         *)

EvidenceFor(p, i) ==
  {e \in bounds.pool["ican-evidence"] :
     \E v \in Versions(Evidence(e)) : v.proof = p /\ v.identity = i}

HasEvidence(p, i) == Listed(EvidenceOf(p, i)) # {} \/ Awaited(EvidenceOf(p, i))

EvidenceTurns ==
  bounds.oneByOne =>
    /\ \A r \in Requests : \A n \in DOMAIN todo[r] :
         IsWrite(todo[r][n]) /\ todo[r][n].key[1] = "evidence-of" => todo[r][n].value # {}
    /\ \A p \in bounds.pool["handoff-proof"], i \in Identities :
         AtMost(EvidenceFor(p, i), IF HasEvidence(p, i) THEN crashes + 1 ELSE crashes)

SessionsOf(t) ==
  {s \in bounds.pool["session"] :
     \E v \in Versions(Session(s)) : v.by = "setup" /\ v.identity = t}

Used(t) == Consumed \in Versions(Setup(t))

(* No request is at the get of a token that is used up.                    *)
TokenUnread ==
  \A r \in Requests, t \in bounds.pool["setup"] :
    reading[r] # None /\ reading[r].op = "set" /\ reading[r].id = t => ~Used(t)

TokenTurns ==
  bounds.oneByOne =>
    /\ TokenUnread
    /\ \A t \in bounds.pool["setup"] :
         AtMost(SessionsOf(t), IF Used(t) THEN crashes + 1 ELSE crashes)

(* The copies of pings that throttle and delivery put back.                *)
HasCopy(p, v) ==
  \E r \in Requests : /\ reading[r] # None /\ reading[r].op \in {"throttle", "deliver"}
                      /\ reading[r].id = p /\ reading[r].copy.relevance = v

(* The ping p, as it is, will be or may be put back, is for the finding v. *)
OfPing(p, v) == (\E w \in Versions(Ping(p)) : w.relevance = v) \/ HasCopy(p, v)

PingsOf(v) == {p \in bounds.pool["ping"] : OfPing(p, v)}

Pinged(v) ==
  (\E p \in Listed(OfRelevance(v)) : Stored(Ping(p))) \/ Awaited(OfRelevance(v))

(* A ping is listed when it is stored.                                     *)
ListsPing(s, n) ==
  \/ n = 1 /\ IsWrite(s[1]) /\ \E p \in s[1].value : Stored(Ping(p))
  \/ n = 1 /\ ~IsWrite(s[1]) /\ Stored(Ping(s[1].adds))
  \/ n = 2 /\ ~IsWrite(s[2]) /\ IsWrite(s[1]) /\ s[1].key = Ping(s[2].adds)

PingsListed ==
  \A r \in Requests : \A n \in DOMAIN todo[r] :
    todo[r][n].key[1] = "of-relevance" => ListsPing(todo[r], n)

PingTurns ==
  bounds.oneByOne =>
    /\ PingsListed
    /\ \A v \in bounds.pool["relevance"] :
         AtMost(PingsOf(v), IF Pinged(v) THEN crashes + 1 ELSE crashes)

Flood(i) ==
  {t \in bounds.pool["ping-throttle"] :
     \E v \in Versions(Throttle(t)) : v.to = i /\ v.inferred /\ v.decision \in Allowed}

(* What the index of receiver i lists after the put p.                     *)
ListedBy(p, i) ==
  IF IsWrite(p) THEN p.value ELSE Listed(ThrottledTo(i)) \union {p.adds}

FloodBounded(i) ==
  /\ AtMost(Flood(i), RecentLimit + crashes)
  /\ AtMost(Flood(i) \ Listed(ThrottledTo(i)),
            IF Awaited(ThrottledTo(i)) THEN crashes + 1 ELSE crashes)

FloodListed(i) ==
  \A r \in Requests : \A n \in DOMAIN todo[r] : todo[r][n].key = ThrottledTo(i) =>
    /\ \A m \in DOMAIN todo[r] : m <= n
    /\ AtMost(Flood(i) \ ListedBy(todo[r][n], i), crashes)

FloodTurns ==
  bounds.oneByOne => \A i \in Identities : FloodBounded(i) /\ FloodListed(i)

(* The copies of the field of i differ on whether it is open.              *)
PairApart(i) ==
  /\ Stored(CurrentField(i))
  /\ LET f == kv[CurrentField(i)].id
     IN  /\ Stored(Field(f))
         /\ kv[Field(f)].identity = i
         /\ kv[Field(f)].active # kv[CurrentField(i)].active

Apart == {i \in bounds.pool["current-field"] : PairApart(i)}

(* What a request has yet to put of a field: nothing; both copies, or the
   second, when it is posted; both, or the second, when it is closed.      *)
WillWrite(r, n, key, v) ==
  IsWrite(todo[r][n]) /\ todo[r][n].key = key /\ todo[r][n].value = v

WillRefresh(r, n, v) ==
  ~IsWrite(todo[r][n]) /\ todo[r][n].key = CurrentField(v.identity) /\ todo[r][n].refresh = v

Plain(r) == \A n \in DOMAIN todo[r] : todo[r][n].key[1] \notin {"field", "current-field"}

Posting(r, v) ==
  /\ DOMAIN todo[r] = {1, 2}
  /\ WillWrite(r, 1, CurrentField(v.identity), v) /\ WillWrite(r, 2, Field(v.id), v)

Posted(r, v) ==
  /\ DOMAIN todo[r] = {1} /\ WillWrite(r, 1, Field(v.id), v)
  /\ Stored(CurrentField(v.identity)) /\ kv[CurrentField(v.identity)] = v

Closing(r, v) ==
  /\ DOMAIN todo[r] = {1, 2}
  /\ WillWrite(r, 1, Field(v.id), v) /\ WillRefresh(r, 2, v)

Closed(r, v) ==
  /\ DOMAIN todo[r] = {1}
  /\ WillRefresh(r, 1, v) \/ WillWrite(r, 1, CurrentField(v.identity), v)
  /\ Stored(Field(v.id)) /\ kv[Field(v.id)] = v

IsCurrent(v) == Stored(CurrentField(v.identity)) /\ kv[CurrentField(v.identity)].id = v.id

(* Between the two puts of a pair, that pair is not counted.               *)
FieldForm(r) ==
  \/ Plain(r) /\ AtMost(Apart, crashes)
  \/ \E v : (Posting(r, v) \/ Closing(r, v)) /\ AtMost(Apart, crashes)
  \/ \E v : Posted(r, v) /\ AtMost(Apart \ {v.identity}, crashes)
  \/ \E v : /\ Closed(r, v)
            /\ AtMost(Apart \ {v.identity}, crashes)
            /\ IsCurrent(v) \/ AtMost(Apart, crashes)

FieldTurns ==
  bounds.oneByOne =>
    /\ Quiet => AtMost(Apart, crashes)
    /\ \A r \in Requests : ~Idle(r) => FieldForm(r)

(* What a claim is when it binds nobody.                                   *)
Over == {"rejected", "cancelled"}

(* No client posts a claim that is over.                                   *)
Begun == PostedClaims \intersect Over = {}

(* What is stored under a key when the puts are made.                      *)
Latter(key) ==
  IF Awaited(key) THEN Upcoming(key) ELSE IF Stored(key) THEN {kv[key]} ELSE {}

(* The copy of an object or claim that was read is what is stored.         *)
CopyHeld(r) ==
  \A x : reading[r] = x /\ x # None =>
    /\ x.op \in {"claim", "claim-latest"} =>
         Stored(Object(x.id)) /\ x.object = kv[Object(x.id)]
    /\ x.op \in {"decide", "hand-off"} =>
         Stored(Claim(x.id)) /\ x.claim = kv[Claim(x.id)]

NoneOver ==
  \A o \in bounds.pool["object"] : \A v \in Latter(Object(o)) :
    v.claim # None =>
      \A w \in Latter(Claim(v.claim)) : w.object = o => w.status \notin Over

ClaimTurns ==
  bounds.oneByOne /\ crashes = 0 => NoneOver /\ \A r \in Requests : CopyHeld(r)
-----------------------------------------------------------------------------
(* Sets of a bounded size, and the records under a key.                    *)

(* Of a set with fewer members there are no more.                          *)
LEMMA AtMostFewer ==
  ASSUME NEW S, NEW T, NEW m \in Int, NEW n \in Int, AtMost(S, m), T \subseteq S, m <= n
  PROVE  AtMost(T, n)
<1>1. IsFiniteSet(T) /\ Cardinality(T) <= Cardinality(S)
  BY FS_Subset DEF AtMost
<1>2. Cardinality(S) \in Nat /\ Cardinality(T) \in Nat
  BY <1>1, FS_CardinalityType DEF AtMost
<1>3. QED
  BY <1>1, <1>2 DEF AtMost

(* One member more makes one more at most.                                 *)
LEMMA AtMostOneMore ==
  ASSUME NEW S, NEW T, NEW x, NEW m \in Int, AtMost(S, m), T \subseteq S \union {x}
  PROVE  AtMost(T, m + 1)
<1>1. AtMost(S \union {x}, m + 1)
  <2>1. PICK U : U = S \union {x}
    OBVIOUS
  <2>2. IsFiniteSet(S) /\ Cardinality(S) \in Nat /\ Cardinality(S) <= m
    BY FS_CardinalityType DEF AtMost
  <2>3. /\ IsFiniteSet(U)
        /\ Cardinality(U) = IF x \in S THEN Cardinality(S) ELSE Cardinality(S) + 1
    BY <2>1, <2>2, FS_AddElement
  <2>4. Cardinality(U) <= m + 1
    BY <2>2, <2>3
  <2>5. QED
    BY <2>1, <2>3, <2>4 DEF AtMost
<1>2. QED
  BY <1>1, AtMostFewer

(* The size of a set of which there are no more.                           *)
LEMMA AtMostIs ==
  ASSUME NEW S, NEW T, NEW n \in Int, AtMost(S, n), T \subseteq S
  PROVE  Cardinality(T) <= n
BY AtMostFewer DEF AtMost

(* A count that may be one too high while a mark is missing, or for a
   request that is cut off, is kept by all that adds nothing and leaves the
   mark.                                                                   *)
LEMMA CountKept ==
  ASSUME NEW S, NEW T, NEW c \in Nat, NEW d \in {c, c + 1},
         NEW m \in {c, c + 1}, NEW n \in {d, d + 1},
         AtMost(S, m), T \subseteq S, d = c /\ m = c + 1 => n = d + 1
  PROVE  AtMost(T, n)
<1>1. m \in Int /\ n \in Int /\ m <= n
  OBVIOUS
<1>2. QED
  BY <1>1, AtMostFewer

LEMMA NoneAtMost ==
  ASSUME NEW n \in Nat
  PROVE  AtMost({}, n)
BY FS_EmptySet DEF AtMost

(* What is and will be under a key, in terms of puts, before a step and
   after it.                                                               *)
LEMMA VersionsAre ==
  ASSUME NEW key
  PROVE  /\ \A v : v \in Upcoming(key) <=>
               \E r \in Requests : \E n \in DOMAIN todo[r] :
                 IsWrite(todo[r][n]) /\ todo[r][n].key = key /\ todo[r][n].value = v
         /\ \A v : v \in Versions(key) <=>
               (Stored(key) /\ v = kv[key]) \/ v \in Upcoming(key)
         /\ \A v : v \in Upcoming(key)' <=>
               \E r \in Requests : \E n \in DOMAIN todo'[r] :
                 IsWrite(todo'[r][n]) /\ todo'[r][n].key = key /\ todo'[r][n].value = v
         /\ \A v : v \in Versions(key)' <=>
               (key \in DOMAIN kv' /\ v = kv'[key]) \/ v \in Upcoming(key)'
<1>1. \A v : v \in Upcoming(key) <=>
        \E r \in Requests : \E n \in DOMAIN todo[r] :
          IsWrite(todo[r][n]) /\ todo[r][n].key = key /\ todo[r][n].value = v
  BY DEF Upcoming
<1>2. \A v : v \in Upcoming(key)' <=>
        \E r \in Requests : \E n \in DOMAIN todo'[r] :
          IsWrite(todo'[r][n]) /\ todo'[r][n].key = key /\ todo'[r][n].value = v
  BY DEF Upcoming
<1>3. \A v : v \in Versions(key) <=> (Stored(key) /\ v = kv[key]) \/ v \in Upcoming(key)
  BY DEF Versions
<1>4. \A v : v \in Versions(key)' <=>
        (key \in DOMAIN kv' /\ v = kv'[key]) \/ v \in Upcoming(key)'
  BY DEF Versions, Stored
<1>5. QED
  BY <1>1, <1>2, <1>3, <1>4

(* How many were cut off is a number.                                      *)
LEMMA CrashesAre ==
  ASSUME IInv
  PROVE  crashes \in Nat
BY ScenesFit DEF IInv

-----------------------------------------------------------------------------
(* Steps.                                                                  *)

(* No one but r is in progress.                                            *)
Turn(r) == \A q \in Requests : q # r => Idle(q)

(* A worker reads, or will make puts of records of these kinds.            *)
Does(r, kinds, ops) ==
  /\ Arrives(r) \/ ~Idle(r)
  /\ kv' = kv /\ crashes' = crashes /\ scene' = scene
  /\ \A q \in Requests : q # r => todo'[q] = todo[q] /\ reading'[q] = reading[q]
  /\ todo[r] = <<>>
  /\ reading'[r] # None => reading'[r].op \in ops /\ todo'[r] = <<>>
  /\ \A n \in DOMAIN todo'[r] : todo'[r][n].key[1] \in kinds

LEMMA DoesMore ==
  ASSUME NEW r, NEW kinds, NEW ops, Does(r, kinds, ops),
         NEW more, NEW others, kinds \subseteq more, ops \subseteq others
  PROVE  Does(r, more, others)
BY DEF Does

LEMMA PlanDoes ==
  ASSUME IInv, NEW r \in Requests, NEW puts, WillPut(r, puts), todo[r] = <<>>,
         Arrives(r) \/ ~Idle(r),
         NEW kinds, \A n \in DOMAIN puts : puts[n].key[1] \in kinds, NEW ops
  PROVE  Does(r, kinds, ops) /\ todo'[r] = puts /\ reading'[r] = None
<1>1. DOMAIN reading = Requests /\ DOMAIN todo = Requests
  BY DEF IInv
<1>2. /\ todo'[r] = puts /\ reading'[r] = None
      /\ \A q \in Requests : q # r => todo'[q] = todo[q] /\ reading'[q] = reading[q]
      /\ kv' = kv /\ crashes' = crashes /\ scene' = scene
  BY <1>1 DEF WillPut
<1>3. QED
  BY <1>2 DEF Does

LEMMA AskDoes ==
  ASSUME IInv, NEW r \in Requests, NEW asks, Reads(r, asks), todo[r] = <<>>,
         Arrives(r) \/ ~Idle(r), NEW kinds, NEW ops, asks.op \in ops
  PROVE  Does(r, kinds, ops) /\ todo'[r] = <<>> /\ reading'[r] = asks
<1>1. DOMAIN reading = Requests /\ DOMAIN todo = Requests
  BY DEF IInv
<1>2. /\ todo'[r] = <<>> /\ reading'[r] = asks
      /\ \A q \in Requests : q # r => todo'[q] = todo[q] /\ reading'[q] = reading[q]
      /\ kv' = kv /\ crashes' = crashes /\ scene' = scene
  BY <1>1 DEF Reads
<1>3. \A n \in DOMAIN <<>> : FALSE
  OBVIOUS
<1>4. QED
  BY <1>2, <1>3 DEF Does

(* The two ways in, for those who arrive and those who have read.          *)
LEMMA GoesDoes ==
  ASSUME IInv, NEW r \in Requests, NEW puts, Goes(r, puts),
         NEW kinds, \A n \in DOMAIN puts : puts[n].key[1] \in kinds, NEW ops
  PROVE  Does(r, kinds, ops) /\ todo'[r] = puts /\ reading'[r] = None
BY PlanDoes, Arriving DEF Goes

LEMMA StartDoes ==
  ASSUME IInv, NEW r \in Requests, NEW asks, StartReading(r, asks), NEW kinds, NEW ops,
         asks.op \in ops
  PROVE  Does(r, kinds, ops) /\ todo'[r] = <<>> /\ reading'[r] = asks
BY AskDoes, Arriving DEF StartReading

LEMMA GoesOnDoes ==
  ASSUME IInv, NEW r \in Requests, NEW op, HasRead(r, op), NEW puts, WillPut(r, puts),
         NEW kinds, \A n \in DOMAIN puts : puts[n].key[1] \in kinds, NEW ops
  PROVE  Does(r, kinds, ops) /\ todo'[r] = puts /\ reading'[r] = None
BY PlanDoes, Reading DEF Idle

LEMMA ReadsOnDoes ==
  ASSUME IInv, NEW r \in Requests, NEW op, HasRead(r, op), NEW asks, Reads(r, asks),
         NEW kinds, NEW ops, asks.op \in ops
  PROVE  Does(r, kinds, ops) /\ todo'[r] = <<>> /\ reading'[r] = asks
BY AskDoes, Reading DEF Idle

(* Lists of puts, up to four.                                              *)
LEMMA ListsAre ==
  /\ DOMAIN <<>> = {}
  /\ \A a : DOMAIN <<a>> = {1} /\ <<a>>[1] = a
  /\ \A a, b : DOMAIN <<a, b>> = {1, 2} /\ <<a, b>>[1] = a /\ <<a, b>>[2] = b
  /\ \A a, b, c : /\ DOMAIN <<a, b, c>> = {1, 2, 3}
                  /\ <<a, b, c>>[1] = a /\ <<a, b, c>>[2] = b /\ <<a, b, c>>[3] = c
  /\ \A a, b, c, d : /\ DOMAIN <<a, b, c, d>> = {1, 2, 3, 4}
                     /\ <<a, b, c, d>>[1] = a /\ <<a, b, c, d>>[2] = b
                     /\ <<a, b, c, d>>[3] = c /\ <<a, b, c, d>>[4] = d
OBVIOUS


(* Whoever goes on, or arrives, is alone.                                  *)
LEMMA InTurn ==
  ASSUME IInv, Sole, bounds.oneByOne, NEW r \in Requests, Arrives(r) \/ ~Idle(r)
  PROVE  Turn(r)
BY DEF Sole, Turn, Arrives, Quiet

(* Of a request with nothing to do there is nothing to say.                *)
LEMMA IdleHas ==
  ASSUME NEW q, Idle(q)
  PROVE  reading[q] = None /\ todo[q] = <<>> /\ DOMAIN todo[q] = {}
BY ListsAre DEF Idle

(* Whoever works alone is the only one to put anything.                    *)
LEMMA TurnHas ==
  ASSUME NEW r \in Requests, Turn(r)
  PROVE  /\ \A key : Awaited(key) <=> \E n \in DOMAIN todo[r] : todo[r][n].key = key
         /\ \A key, v : v \in Upcoming(key) <=>
              \E n \in DOMAIN todo[r] :
                IsWrite(todo[r][n]) /\ todo[r][n].key = key /\ todo[r][n].value = v
         /\ \A q \in Requests : reading[q] # None => q = r
         /\ \A q \in Requests : \A n \in DOMAIN todo[q] : q = r
<1>1. \A q \in Requests : q # r => reading[q] = None /\ DOMAIN todo[q] = {}
  BY IdleHas DEF Turn
<1>2. \A key : Awaited(key) <=> \E n \in DOMAIN todo[r] : todo[r][n].key = key
  BY <1>1 DEF Awaited
<1>3. QED
  BY <1>1, <1>2, VersionsAre

-----------------------------------------------------------------------------
(* What a worker does that reads, or plans puts, leaves what is stored.    *)
LEMMA DoesVersions ==
  ASSUME IInv, NEW r \in Requests, NEW kinds, NEW ops, Does(r, kinds, ops)
  PROVE  /\ bounds' = bounds /\ kv' = kv /\ crashes' = crashes
         /\ \A key : Stored(key)' <=> Stored(key)
         /\ \A key : Listed(key)' = Listed(key)
         /\ \A key : Awaited(key) => Awaited(key)'
         /\ \A key : Versions(key) \subseteq Versions(key)'
         /\ \A key : key[1] \notin kinds =>
              /\ Awaited(key)' <=> Awaited(key)
              /\ Upcoming(key)' = Upcoming(key)
              /\ Versions(key)' = Versions(key)
<1>1. /\ kv' = kv /\ crashes' = crashes /\ bounds' = bounds
      /\ todo[r] = <<>>
      /\ \A q \in Requests : q # r => todo'[q] = todo[q]
      /\ \A n \in DOMAIN todo'[r] : todo'[r][n].key[1] \in kinds
  BY DEF Does, bounds
<1>2. \A n \in DOMAIN todo[r] : FALSE
  BY <1>1, ListsAre
<1>3. \A key : (Stored(key)' <=> Stored(key)) /\ Listed(key)' = Listed(key)
  BY <1>1 DEF Stored, Listed
<1>4. \A key : Awaited(key) => Awaited(key)'
  BY <1>1, <1>2 DEF Awaited
<1>5. ASSUME NEW key, NEW v \in Upcoming(key) PROVE v \in Upcoming(key)'
  BY <1>1, <1>2, VersionsAre
<1>6. ASSUME NEW key PROVE Versions(key) \subseteq Versions(key)'
  BY <1>1, <1>5, VersionsAre DEF Stored
<1>7. ASSUME NEW key, key[1] \notin kinds
      PROVE  /\ Awaited(key)' <=> Awaited(key)
             /\ Upcoming(key)' = Upcoming(key)
             /\ Versions(key)' = Versions(key)
  <2>1. Awaited(key)' => Awaited(key)
    BY <1>1, <1>7 DEF Awaited
  <2>2. ASSUME NEW v \in Upcoming(key)' PROVE v \in Upcoming(key)
    BY <1>1, <1>7, VersionsAre
  <2>3. Upcoming(key)' = Upcoming(key)
    BY <1>5, <2>2
  <2>4. Versions(key)' = Versions(key)
    BY <1>1, <2>3 DEF Versions, Stored
  <2>5. QED
    BY <1>4, <2>1, <2>3, <2>4
<1>8. QED
  BY <1>1, <1>3, <1>4, <1>6, <1>7

(* What a plan adds under a key.                                           *)
LEMMA PlanVersions ==
  ASSUME IInv, NEW r \in Requests, NEW kinds, NEW ops, Does(r, kinds, ops),
         NEW key, NEW v \in Versions(key)'
  PROVE  \/ v \in Versions(key)
         \/ \E n \in DOMAIN todo'[r] : /\ IsWrite(todo'[r][n]) /\ todo'[r][n].key = key
                                       /\ todo'[r][n].value = v
BY VersionsAre DEF Does, Stored

(* A crash leaves what is stored, and no more to be put.                   *)
LEMMA CrashVersions ==
  ASSUME IInv, NEW r \in Requests, Crash(r)
  PROVE  /\ bounds' = bounds /\ kv' = kv /\ crashes' = crashes + 1
         /\ todo'[r] = <<>> /\ reading'[r] = None
         /\ \A q \in Requests : q # r => todo'[q] = todo[q] /\ reading'[q] = reading[q]
         /\ \A key : Stored(key)' <=> Stored(key)
         /\ \A key : Listed(key)' = Listed(key)
         /\ \A key : Awaited(key)' => Awaited(key)
         /\ \A key : Upcoming(key)' \subseteq Upcoming(key)
         /\ \A key : Versions(key)' \subseteq Versions(key)
<1>1. /\ kv' = kv /\ crashes' = crashes + 1 /\ bounds' = bounds
      /\ todo' = [todo EXCEPT ![r] = <<>>] /\ reading' = [reading EXCEPT ![r] = None]
      /\ DOMAIN todo = Requests /\ DOMAIN reading = Requests
  BY DEF Crash, bounds, IInv
<1>2. /\ todo'[r] = <<>> /\ reading'[r] = None
      /\ \A q \in Requests : q # r => todo'[q] = todo[q] /\ reading'[q] = reading[q]
  BY <1>1
<1>3. \A n \in DOMAIN todo'[r] : FALSE
  BY <1>2, ListsAre
<1>4. \A key : (Stored(key)' <=> Stored(key)) /\ Listed(key)' = Listed(key)
  BY <1>1 DEF Stored, Listed
<1>5. \A key : Awaited(key)' => Awaited(key)
  BY <1>2, <1>3 DEF Awaited
<1>6. ASSUME NEW key, NEW v \in Upcoming(key)' PROVE v \in Upcoming(key)
  BY <1>2, <1>3, VersionsAre
<1>7. ASSUME NEW key, NEW v \in Versions(key)' PROVE v \in Versions(key)
  BY <1>1, <1>6, VersionsAre DEF Stored
<1>8. QED
  BY <1>1, <1>2, <1>4, <1>5, <1>6, <1>7

(* A token that expires changes nothing else.                              *)
LEMMA ExpireVersions ==
  ASSUME IInv, NEW t, ExpireToken(t)
  PROVE  /\ bounds' = bounds /\ crashes' = crashes
         /\ reading' = reading /\ todo' = todo
         /\ kv[Setup(t)] \notin {Consumed, Expired}
         /\ \A key : Stored(key)' <=> Stored(key)
         /\ \A key : Awaited(key)' <=> Awaited(key)
         /\ \A key : Upcoming(key)' = Upcoming(key)
         /\ \A key : key # Setup(t) =>
              /\ Listed(key)' = Listed(key) /\ (Stored(key) => kv'[key] = kv[key])
              /\ Versions(key)' = Versions(key)
         /\ kv'[Setup(t)] = Expired
<1>1. /\ kv' = [kv EXCEPT ![Setup(t)] = Expired] /\ Setup(t) \in DOMAIN kv
      /\ kv[Setup(t)] \notin {Consumed, Expired}
      /\ reading' = reading /\ todo' = todo /\ crashes' = crashes /\ bounds' = bounds
  BY DEF ExpireToken, Live, Stored, bounds
<1>2. PICK st2 : st2 = [kv EXCEPT ![Setup(t)] = Expired]
  OBVIOUS
<1>3. /\ DOMAIN st2 = DOMAIN kv /\ st2[Setup(t)] = Expired
      /\ \A key \in DOMAIN kv : key # Setup(t) => st2[key] = kv[key]
  BY <1>1, <1>2
<1>4. /\ \A key : Stored(key)' <=> Stored(key)
      /\ \A key : key # Setup(t) => Listed(key)' = Listed(key)
  BY <1>1, <1>2, <1>3 DEF Stored, Listed
<1>5. \A key : Awaited(key)' <=> Awaited(key)
  BY <1>1 DEF Awaited
<1>6. \A key : Upcoming(key)' = Upcoming(key)
  BY <1>1 DEF Upcoming
<1>7. ASSUME NEW key, key # Setup(t) PROVE Versions(key)' = Versions(key)
  BY <1>1, <1>2, <1>3, <1>6, <1>7 DEF Versions, Stored
<1>8. QED
  BY <1>1, <1>2, <1>3, <1>4, <1>5, <1>6, <1>7 DEF Stored

-----------------------------------------------------------------------------
(* Puts.                                                                   *)

(* What is left of s after its first put.                                  *)
Leaving(s, t) ==
  /\ Shifts(s, t)
  /\ \A m \in DOMAIN s : m \in Nat \ {0} /\ (m # 1 => m - 1 \in DOMAIN t /\ t[m - 1] = s[m])

LEMMA TailLeaves ==
  ASSUME NEW s, IsSeq(s), s # <<>>
  PROVE  Leaving(s, <<>> \o Tail(s))
<1>1. Shifts(s, <<>> \o Tail(s))
  BY TailShifts
<1>2. PICK S : s \in Seq(S)
  BY DEF IsSeq
<1>3. Len(s) \in Nat \ {0} /\ DOMAIN s = 1..Len(s)
  BY <1>2, EmptySeq, LenProperties
<1>4. /\ Tail(s) \in Seq(S)
      /\ Len(Tail(s)) = Len(s) - 1
      /\ \A n \in 1..Len(Tail(s)) : Tail(s)[n] = s[n + 1]
  BY <1>2, HeadTailProperties
<1>5. DOMAIN Tail(s) = 1..(Len(s) - 1) /\ <<>> \o Tail(s) = Tail(s)
  BY <1>4, LenProperties, ConcatEmptySeq
<1>6. ASSUME NEW m \in DOMAIN s, m # 1
      PROVE  m - 1 \in DOMAIN Tail(s) /\ Tail(s)[m - 1] = s[m]
  <2>1. m \in 1..Len(s) /\ m - 1 \in 1..(Len(s) - 1) /\ (m - 1) + 1 = m
    BY <1>3, <1>6
  <2>2. QED
    BY <1>4, <1>5, <2>1
<1>7. QED
  BY <1>1, <1>3, <1>5, <1>6 DEF Leaving

(* The four ends of an await: a put is made; an append, a refresh or a get of
   what is put back leaves one; one of these leaves none; a session is deleted. *)
Applied(r) ==
  LET p == todo[r][1]
  IN  /\ IsWrite(p)
      /\ Leaving(todo[r], todo'[r])
      /\ DOMAIN kv' = DOMAIN kv \union {p.key}
      /\ kv'[p.key] = p.value
      /\ \A key \in DOMAIN kv : key # p.key => kv'[key] = kv[key]

Resolved(r, w) ==
  LET p == todo[r][1]
  IN  /\ kv' = kv /\ ~IsWrite(p)
      /\ Pushes(todo[r], w, todo'[r]) /\ IsWrite(w) /\ w.key = p.key
      /\ \/ /\ DOMAIN p = {"key", "adds"} /\ p.key[1] \in IndexKinds
            /\ w.value = Listed(p.key) \union {p.adds}
         \/ /\ DOMAIN p = {"key", "refresh"} /\ p.key[1] = "current-field"
            /\ w.value = p.refresh
            /\ Stored(p.key) /\ kv[p.key].id = p.refresh.id
         \/ /\ DOMAIN p = {"key", "back"} /\ p.key[1] = "object-handoff"
            /\ Stored(p.key) /\ w.value = kv[p.key]

Dropped(r) ==
  LET p == todo[r][1]
  IN  /\ kv' = kv /\ ~IsWrite(p)
      /\ Leaving(todo[r], todo'[r])
      /\ \/ /\ DOMAIN p = {"key", "refresh"} /\ p.key[1] = "current-field"
            /\ ~(Stored(p.key) /\ kv[p.key].id = p.refresh.id)
         \/ /\ DOMAIN p = {"key", "back"} /\ p.key[1] = "object-handoff"
            /\ ~Stored(p.key)

Deleted(r) ==
  LET p == todo[r][1]
  IN  /\ ~IsWrite(p) /\ p.key[1] = "session"
      /\ Leaving(todo[r], todo'[r])
      /\ DOMAIN kv' = DOMAIN kv \ {p.key}
      /\ \A key \in DOMAIN kv : key # p.key => kv'[key] = kv[key]

LEMMA PutEnds ==
  ASSUME IInv, NEW r \in Requests, Put(r)
  PROVE  Applied(r) \/ (\E w : Resolved(r, w)) \/ Dropped(r) \/ Deleted(r)
<1> DEFINE s == todo[r]
           p == Head(s)
<1>1. RequestFits(r) /\ DOMAIN todo = Requests
  BY DEF IInv
<1>2. s # <<>> /\ IsSeq(s)
  BY <1>1 DEF Put, RequestFits, ListFits
<1>3. /\ 1 \in DOMAIN s /\ p = s[1]
      /\ Leaving(s, <<>> \o Tail(s))
      /\ \A w : Pushes(s, w, <<w>> \o Tail(s))
  BY <1>2, TailShifts, TailLeaves
<1>4. PutFits(bounds, Facts(kv), s[1])
  BY <1>1, <1>3, FirstIsStored DEF RequestFits, ListFits
<1>5. ASSUME NEW t, todo' = [todo EXCEPT ![r] = t] PROVE todo'[r] = t
  BY <1>1, <1>5
<1>6. CASE /\ "adds" \in DOMAIN p
           /\ Leaves(r, <<Writes(p.key, Listed(p.key) \union {p.adds})>>)
           /\ UNCHANGED kv
  <2>1. DOMAIN p = {"key", "adds"} /\ p.key[1] \in IndexKinds
    BY <1>3, <1>4, <1>6 DEF PutFits, IsWrite
  <2>2. PICK w : w = Writes(p.key, Listed(p.key) \union {p.adds})
    OBVIOUS
  <2>3. todo'[r] = <<w>> \o Tail(s) /\ kv' = kv
    BY <1>5, <1>6, <2>2 DEF Leaves
  <2>4. /\ w.key = p.key /\ w.value = Listed(p.key) \union {p.adds}
        /\ DOMAIN w = {"key", "value"}
    BY <2>2 DEF Writes
  <2>5. ~IsWrite(s[1])
    BY <1>3, <2>1 DEF IsWrite
  <2>6. Resolved(r, w)
    BY <1>3, <2>1, <2>3, <2>4, <2>5 DEF Resolved, IsWrite
  <2>7. QED
    BY <2>6
<1>7. CASE /\ "refresh" \in DOMAIN p
           /\ Leaves(r, IF Stored(p.key) /\ kv[p.key].id = p.refresh.id
                        THEN <<Writes(p.key, p.refresh)>> ELSE <<>>)
           /\ UNCHANGED kv
  <2>1. DOMAIN p = {"key", "refresh"} /\ p.key[1] = "current-field"
    BY <1>3, <1>4, <1>7 DEF PutFits, IsWrite
  <2>2. ~IsWrite(s[1])
    BY <1>3, <2>1 DEF IsWrite
  <2>3. PICK w : w = Writes(p.key, p.refresh)
    OBVIOUS
  <2>4. /\ w.key = p.key /\ w.value = p.refresh
        /\ DOMAIN w = {"key", "value"}
    BY <2>3 DEF Writes
  <2>5. CASE Stored(p.key) /\ kv[p.key].id = p.refresh.id
    <3>1. todo'[r] = <<w>> \o Tail(s) /\ kv' = kv
      BY <1>5, <1>7, <2>3, <2>5 DEF Leaves
    <3>2. Resolved(r, w)
      BY <1>3, <2>1, <2>2, <2>4, <2>5, <3>1 DEF Resolved, IsWrite
    <3>3. QED
      BY <3>2
  <2>6. CASE ~(Stored(p.key) /\ kv[p.key].id = p.refresh.id)
    <3>1. todo'[r] = <<>> \o Tail(s) /\ kv' = kv
      BY <1>5, <1>7, <2>6 DEF Leaves
    <3>2. QED
      BY <1>3, <2>1, <2>2, <2>6, <3>1 DEF Dropped
  <2>7. QED
    BY <2>5, <2>6
<1>8. CASE /\ "value" \in DOMAIN p
           /\ Leaves(r, <<>>)
           /\ kv' = [k \in DOMAIN kv \union {p.key} |-> IF k = p.key THEN p.value ELSE kv[k]]
  <2>1. todo'[r] = <<>> \o Tail(s)
    BY <1>5, <1>8 DEF Leaves
  <2>2. IsWrite(s[1])
    BY <1>3, <1>4, <1>8 DEF PutFits
  <2>3. PICK w : w = p
    OBVIOUS
  <2>4. PICK st : st = kv
    OBVIOUS
  <2>5. PICK st2 : st2 = [k \in DOMAIN st \union {w.key} |-> IF k = w.key THEN w.value ELSE st[k]]
    OBVIOUS
  <2>6. /\ DOMAIN st2 = DOMAIN st \union {w.key}
        /\ st2[w.key] = w.value
        /\ \A key \in DOMAIN st : key # w.key => st2[key] = st[key]
    BY <2>5
  <2>7. kv' = st2
    BY <1>8, <2>3, <2>4, <2>5
  <2>8. s[1] = w
    BY <1>3, <2>3
  <2>9. Applied(r)
    BY <1>3, <2>1, <2>2, <2>4, <2>6, <2>7, <2>8 DEF Applied
  <2>10. QED
    BY <2>9
<1>9. CASE /\ DOMAIN p = {"key"}
           /\ Leaves(r, <<>>)
           /\ kv' = [k \in DOMAIN kv \ {p.key} |-> kv[k]]
  <2>1. todo'[r] = <<>> \o Tail(s)
    BY <1>5, <1>9 DEF Leaves
  <2>2. p.key[1] = "session" /\ ~IsWrite(s[1])
    <3>1. {"value", "adds", "refresh", "back"} \intersect DOMAIN s[1] = {}
      BY <1>3, <1>9
    <3>2. ~IsWrite(s[1])
      BY <3>1 DEF IsWrite
    <3>3. QED
      BY <1>4, <3>1, <3>2 DEF PutFits
  <2>3. PICK w : w = p
    OBVIOUS
  <2>4. PICK st2 : st2 = [k \in DOMAIN kv \ {w.key} |-> kv[k]]
    OBVIOUS
  <2>5. /\ DOMAIN st2 = DOMAIN kv \ {w.key}
        /\ \A key \in DOMAIN kv : key # w.key => st2[key] = kv[key]
    BY <2>4
  <2>6. kv' = st2 /\ s[1] = w
    BY <1>3, <1>9, <2>3, <2>4
  <2>7. Deleted(r)
    BY <1>3, <2>1, <2>2, <2>3, <2>5, <2>6 DEF Deleted
  <2>8. QED
    BY <2>7
<1>10. CASE /\ "back" \in DOMAIN p
            /\ Leaves(r, IF Stored(p.key) THEN <<Writes(p.key, kv[p.key])>> ELSE <<>>)
            /\ UNCHANGED kv
  <2>1. DOMAIN p = {"key", "back"} /\ p.key[1] = "object-handoff"
    BY <1>3, <1>4, <1>10 DEF PutFits, IsWrite
  <2>2. ~IsWrite(s[1])
    BY <1>3, <2>1 DEF IsWrite
  <2>3. PICK w : w = Writes(p.key, kv[p.key])
    OBVIOUS
  <2>4. /\ w.key = p.key /\ w.value = kv[p.key]
        /\ DOMAIN w = {"key", "value"}
    BY <2>3 DEF Writes
  <2>5. CASE Stored(p.key)
    <3>1. todo'[r] = <<w>> \o Tail(s) /\ kv' = kv
      BY <1>5, <1>10, <2>3, <2>5 DEF Leaves
    <3>2. Resolved(r, w)
      BY <1>3, <2>1, <2>2, <2>4, <2>5, <3>1 DEF Resolved, IsWrite
    <3>3. QED
      BY <3>2
  <2>6. CASE ~Stored(p.key)
    <3>1. todo'[r] = <<>> \o Tail(s) /\ kv' = kv
      BY <1>5, <1>10, <2>6 DEF Leaves
    <3>2. QED
      BY <1>3, <2>1, <2>2, <2>6, <3>1 DEF Dropped
  <2>7. QED
    BY <2>5, <2>6
<1>11. QED
  BY <1>6, <1>7, <1>8, <1>9, <1>10 DEF Put

(* Of a record nothing is added by a put: it was going to be put.          *)
LEMMA PutVersions ==
  ASSUME IInv, NEW r \in Requests, Put(r)
  PROVE  /\ 1 \in DOMAIN todo[r] /\ reading[r] = None /\ ~Idle(r)
         /\ bounds' = bounds /\ crashes' = crashes /\ reading' = reading
         /\ \A q \in Requests : q # r => todo'[q] = todo[q]
         /\ \A key : key[1] \notin DullKinds => Versions(key)' \subseteq Versions(key)
<1>1. /\ 1 \in DOMAIN todo[r] /\ reading[r] = None
      /\ bounds' = bounds /\ crashes' = crashes /\ reading' = reading
      /\ \A q \in Requests : q # r => todo'[q] = todo[q]
  BY PutDoes, PutMoves
<1>2. ~Idle(r)
  BY <1>1, IdleHas
<1>3. ASSUME NEW key, key[1] \notin DullKinds, NEW v \in Versions(key)'
      PROVE  v \in Versions(key)
  <2>1. CASE key \in DOMAIN kv' /\ v = kv'[key]
    <3>1. \/ key \in DOMAIN kv /\ v = kv[key]
          \/ IsWrite(todo[r][1]) /\ todo[r][1].key = key /\ todo[r][1].value = v
      BY <2>1, PutMoves
    <3>2. QED
      BY <1>1, <3>1, VersionsAre DEF Stored
  <2>2. CASE v \in Upcoming(key)'
    <3>1. PICK q \in Requests : \E n \in DOMAIN todo'[q] :
            IsWrite(todo'[q][n]) /\ todo'[q][n].key = key /\ todo'[q][n].value = v
      BY <2>2, VersionsAre
    <3>2. PICK n \in DOMAIN todo'[q] :
            IsWrite(todo'[q][n]) /\ todo'[q][n].key = key /\ todo'[q][n].value = v
      BY <3>1
    <3>3. \/ Repeats(kv, todo'[q][n])
          \/ \E m \in DOMAIN todo[q] : todo'[q][n] = todo[q][m]
      BY PutsBefore
    <3>4. CASE Repeats(kv, todo'[q][n])
      <4>1. Stored(key) /\ v = kv[key]
        BY <1>3, <3>2, <3>4 DEF Repeats, Stored
      <4>2. QED
        BY <4>1, VersionsAre
    <3>5. CASE \E m \in DOMAIN todo[q] : todo'[q][n] = todo[q][m]
      BY <3>2, <3>5, VersionsAre
    <3>6. QED
      BY <3>3, <3>4, <3>5
  <2>3. QED
    BY <1>3, <2>1, <2>2, VersionsAre
<1>4. QED
  BY <1>1, <1>2, <1>3

(* What is awaited after a put was awaited before; what no longer is was put,
   or is of a kind that a request may leave as it is.                      *)
Forgone == {"current-field", "object-handoff", "session"}

LEMMA PutAwaits ==
  ASSUME IInv, NEW r \in Requests, Put(r)
  PROVE  /\ \A key : Awaited(key)' => Awaited(key)
         /\ \A key : Awaited(key) =>
              \/ Awaited(key)'
              \/ Applied(r) /\ todo[r][1].key = key
              \/ key[1] \in Forgone
         /\ \A key : Stored(key) => Stored(key)' \/ key[1] = "session"
         /\ \A key : key # todo[r][1].key \/ ~Applied(r) =>
              \/ Stored(key)' = Stored(key) /\ (Stored(key) => kv'[key] = kv[key])
                   /\ Listed(key)' = Listed(key)
              \/ key[1] = "session"
<1>1. /\ 1 \in DOMAIN todo[r]
      /\ \A q \in Requests : q # r => todo'[q] = todo[q]
  BY PutDoes
<1>2. \/ Leaving(todo[r], todo'[r])
      \/ \E w : Pushes(todo[r], w, todo'[r]) /\ w.key = todo[r][1].key
  BY PutEnds DEF Applied, Resolved, Dropped, Deleted
<1>3. ASSUME NEW n \in DOMAIN todo'[r]
      PROVE  \E m \in DOMAIN todo[r] : todo'[r][n].key = todo[r][m].key
  BY <1>1, <1>2 DEF Leaving, Shifts, Pushes
<1>4. ASSUME NEW m \in DOMAIN todo[r]
      PROVE  \/ \E n \in DOMAIN todo'[r] : todo'[r][n].key = todo[r][m].key
             \/ m = 1 /\ Leaving(todo[r], todo'[r])
  BY <1>1, <1>2 DEF Leaving, Pushes
<1>5. \A key : Awaited(key)' => Awaited(key)
  BY <1>1, <1>3 DEF Awaited
<1>6. Leaving(todo[r], todo'[r]) =>
        Applied(r) \/ todo[r][1].key[1] \in Forgone \/ \E w : Resolved(r, w)
  BY PutEnds DEF Dropped, Deleted, Forgone
<1>7. ASSUME NEW w, Resolved(r, w), NEW m \in DOMAIN todo[r]
      PROVE  \E n \in DOMAIN todo'[r] : todo'[r][n].key = todo[r][m].key
  BY <1>7 DEF Resolved, Pushes
<1>8. ASSUME NEW key, Awaited(key)
      PROVE  \/ Awaited(key)'
             \/ Applied(r) /\ todo[r][1].key = key
             \/ key[1] \in Forgone
  BY <1>1, <1>4, <1>6, <1>7, <1>8 DEF Awaited
<1>9. ASSUME NEW key, key # todo[r][1].key \/ ~Applied(r), key[1] # "session"
      PROVE  /\ Stored(key)' = Stored(key) /\ (Stored(key) => kv'[key] = kv[key])
             /\ Listed(key)' = Listed(key)
  <2>1. (key \in DOMAIN kv' <=> key \in DOMAIN kv) /\ (key \in DOMAIN kv => kv'[key] = kv[key])
    BY <1>9, PutEnds DEF Applied, Resolved, Dropped, Deleted
  <2>2. QED
    BY <2>1 DEF Stored, Listed
<1>10. \A key : Stored(key) => Stored(key)' \/ key[1] = "session"
  BY PutMoves DEF Stored
<1>11. QED
  BY <1>5, <1>8, <1>9, <1>10

-----------------------------------------------------------------------------
(* What the workers do, family by family.                                  *)

(* Who plans its puts has none left.                                       *)
Plans(r, puts) ==
  WillPut(r, puts) /\ todo[r] = <<>> /\ (Arrives(r) \/ ~Idle(r))

LEMMA PlansDo ==
  ASSUME IInv, NEW r \in Requests, NEW puts, Plans(r, puts), NEW kinds,
         \A n \in DOMAIN puts : puts[n].key[1] \in kinds, NEW ops
  PROVE  Does(r, kinds, ops) /\ todo'[r] = puts /\ reading'[r] = None
BY PlanDoes DEF Plans

(* Plans of none to four puts.                                             *)
LEMMA PlansNone ==
  ASSUME IInv, NEW r \in Requests, Plans(r, <<>>), NEW kinds, NEW ops
  PROVE  Does(r, kinds, ops) /\ DOMAIN todo'[r] = {} /\ todo'[r] = <<>> /\ reading'[r] = None
BY PlansDo, ListsAre

LEMMA PlansOne ==
  ASSUME IInv, NEW r \in Requests, NEW a, Plans(r, <<a>>), NEW kinds, a.key[1] \in kinds,
         NEW ops
  PROVE  /\ Does(r, kinds, ops) /\ todo'[r] = <<a>> /\ reading'[r] = None
         /\ DOMAIN todo'[r] = {1} /\ todo'[r][1] = a
<1>1. PICK s : s = <<a>>
  OBVIOUS
<1>2. DOMAIN s = {1} /\ s[1] = a /\ Plans(r, s)
  BY <1>1, ListsAre
<1>3. \A n \in DOMAIN s : s[n].key[1] \in kinds
  BY <1>2
<1>4. Does(r, kinds, ops) /\ todo'[r] = s /\ reading'[r] = None
  BY <1>2, <1>3, PlansDo
<1>5. QED
  BY <1>1, <1>2, <1>4

LEMMA PlansTwo ==
  ASSUME IInv, NEW r \in Requests, NEW a, NEW b, Plans(r, <<a, b>>), NEW kinds,
         a.key[1] \in kinds, b.key[1] \in kinds, NEW ops
  PROVE  /\ Does(r, kinds, ops) /\ todo'[r] = <<a, b>> /\ reading'[r] = None
         /\ DOMAIN todo'[r] = {1, 2} /\ todo'[r][1] = a /\ todo'[r][2] = b
<1>1. PICK s : s = <<a, b>>
  OBVIOUS
<1>2. DOMAIN s = {1, 2} /\ s[1] = a /\ s[2] = b /\ Plans(r, s)
  BY <1>1, ListsAre
<1>3. \A n \in DOMAIN s : s[n].key[1] \in kinds
  BY <1>2
<1>4. Does(r, kinds, ops) /\ todo'[r] = s /\ reading'[r] = None
  BY <1>2, <1>3, PlansDo
<1>5. QED
  BY <1>1, <1>2, <1>4

LEMMA PlansThree ==
  ASSUME IInv, NEW r \in Requests, NEW a, NEW b, NEW c, Plans(r, <<a, b, c>>), NEW kinds,
         a.key[1] \in kinds, b.key[1] \in kinds, c.key[1] \in kinds, NEW ops
  PROVE  /\ Does(r, kinds, ops) /\ todo'[r] = <<a, b, c>> /\ reading'[r] = None
         /\ DOMAIN todo'[r] = {1, 2, 3}
         /\ todo'[r][1] = a /\ todo'[r][2] = b /\ todo'[r][3] = c
<1>1. PICK s : s = <<a, b, c>>
  OBVIOUS
<1>2. DOMAIN s = {1, 2, 3} /\ s[1] = a /\ s[2] = b /\ s[3] = c /\ Plans(r, s)
  BY <1>1, ListsAre
<1>3. \A n \in DOMAIN s : s[n].key[1] \in kinds
  BY <1>2
<1>4. Does(r, kinds, ops) /\ todo'[r] = s /\ reading'[r] = None
  BY <1>2, <1>3, PlansDo
<1>5. QED
  BY <1>1, <1>2, <1>4

LEMMA PlansFour ==
  ASSUME IInv, NEW r \in Requests, NEW a, NEW b, NEW c, NEW d, Plans(r, <<a, b, c, d>>),
         NEW kinds, a.key[1] \in kinds, b.key[1] \in kinds, c.key[1] \in kinds,
         d.key[1] \in kinds, NEW ops
  PROVE  /\ Does(r, kinds, ops) /\ todo'[r] = <<a, b, c, d>> /\ reading'[r] = None
         /\ DOMAIN todo'[r] = {1, 2, 3, 4}
         /\ todo'[r][1] = a /\ todo'[r][2] = b /\ todo'[r][3] = c /\ todo'[r][4] = d
<1>1. PICK s : s = <<a, b, c, d>>
  OBVIOUS
<1>2. DOMAIN s = {1, 2, 3, 4} /\ s[1] = a /\ s[2] = b /\ s[3] = c /\ s[4] = d /\ Plans(r, s)
  BY <1>1, ListsAre
<1>3. \A n \in DOMAIN s : s[n].key[1] \in kinds
  BY <1>2
<1>4. Does(r, kinds, ops) /\ todo'[r] = s /\ reading'[r] = None
  BY <1>2, <1>3, PlansDo
<1>5. QED
  BY <1>1, <1>2, <1>4

(* Whoever goes, or goes on, plans; whoever starts, or reads on, reads.    *)
LEMMA Going ==
  ASSUME IInv, NEW r \in Requests, NEW puts, Goes(r, puts)
  PROVE  Plans(r, puts) /\ Arrives(r)
BY Arriving DEF Goes, Plans

LEMMA GoingOn ==
  ASSUME IInv, NEW r \in Requests, NEW op, HasRead(r, op)
  PROVE  ~Idle(r) /\ \A puts : WillPut(r, puts) => Plans(r, puts)
BY Reading DEF Idle, Plans

(* The kind of each put.                                                   *)
LEMMA KindsOfPuts ==
  /\ \A k, v : Writes(k, v).key = k /\ Refreshes(k, v).key = k /\ Appends(k, v).key = k
  /\ \A k : Deletes(k).key = k /\ PutsBack(k).key = k
BY PutsAre

(* A copy is taken of a ping that is stored.                               *)
CopiedAsk(x) ==
  x # None /\ x.op \in {"throttle", "deliver"} => OfPing(x.id, x.copy.relevance)

(* A ping is put for what it was for before, or for none.                  *)
CopiedPuts(s) ==
  \A n \in DOMAIN s : IsWrite(s[n]) /\ s[n].key[1] = "ping" =>
    s[n].value.relevance = None \/ OfPing(s[n].key[2], s[n].value.relevance)

LEMMA NonePut == CopiedAsk(None) /\ CopiedPuts(<<>>)
BY ListsAre DEF CopiedAsk, CopiedPuts

(* What is stored and what was read of a ping is for the same.             *)
LEMMA PingsRead ==
  ASSUME IInv
  PROVE  /\ \A p : Stored(Ping(p)) =>
              kv[Ping(p)] \in PingRecord /\ OfPing(p, kv[Ping(p)].relevance)
         /\ \A r \in Requests, op \in {"throttle", "deliver"} : HasRead(r, op) =>
              reading[r].copy \in PingRecord
                /\ OfPing(reading[r].id, reading[r].copy.relevance)
<1>1. ASSUME NEW p, Stored(Ping(p))
      PROVE  kv[Ping(p)] \in PingRecord /\ OfPing(p, kv[Ping(p)].relevance)
  <2>1. Good(bounds, Facts(kv), Ping(p), kv[Ping(p)])
    BY <1>1, StoredFits
  <2>2. kv[Ping(p)] \in PingRecord
    BY <2>1, KeysAre DEF Good, Shaped
  <2>3. kv[Ping(p)] \in Versions(Ping(p))
    BY <1>1, VersionsAre
  <2>4. QED
    BY <2>2, <2>3 DEF OfPing
<1>2. ASSUME NEW r \in Requests, NEW op \in {"throttle", "deliver"}, HasRead(r, op)
      PROVE  /\ reading[r].copy \in PingRecord
             /\ OfPing(reading[r].id, reading[r].copy.relevance)
  <2>1. /\ reading[r] # None /\ reading[r].op = op
        /\ ReadFits(bounds, Facts(kv), reading[r])
    BY <1>2, Reading
  <2>2. Copied(bounds, Facts(kv), Ping(reading[r].id), reading[r].copy)
    BY <2>1 DEF ReadFits
  <2>3. reading[r].copy \in PingRecord
    BY <2>2, KeysAre DEF Copied, Good, Shaped
  <2>4. OfPing(reading[r].id, reading[r].copy.relevance)
    BY <2>1 DEF OfPing, HasCopy
  <2>5. QED
    BY <2>3, <2>4
<1>3. QED
  BY <1>1, <1>2

(* The worker that decides whether a ping may move.                        *)
ThrottleFamily == {"ping", "ping-throttle", "throttled-to"}

LEMMA ThrottleDoes ==
  ASSUME IInv, NEW r \in Requests, ThrottlePing(r)
  PROVE  /\ HasRead(r, "throttle") /\ ~Idle(r)
         /\ Does(r, ThrottleFamily, {}) /\ reading'[r] = None
         /\ CopiedPuts(todo'[r])
         /\ \E t, v, a, b, c :
              /\ a = Writes(Throttle(t), v) /\ b.key[1] = "ping"
              /\ c = Appends(ThrottledTo(v.to), t)
              /\ v.inferred /\ v.decision \in Allowed =>
                   ~(Cardinality(Listed(ThrottledTo(v.to))) >= RecentLimit)
              /\ DOMAIN todo'[r] = {1, 2, 3}
              /\ todo'[r][1] = a /\ todo'[r][2] = b /\ todo'[r][3] = c
<1>1. /\ HasRead(r, "throttle") /\ ~Idle(r)
      /\ \A puts : WillPut(r, puts) => Plans(r, puts)
  BY GoingOn DEF ThrottlePing
<1>2. PICK p, ping : p = reading[r].id /\ ping = reading[r].copy
  OBVIOUS
<1>3. ping \in PingRecord /\ OfPing(p, ping.relevance)
  BY <1>1, <1>2, PingsRead
<1>4. PICK t, inferred, decision :
        /\ inferred => decision = Infers(ping, Cardinality(Listed(ThrottledTo(ping.to))))
        /\ WillPut(r, ThrottlePuts(t, p, ping, decision, inferred))
  BY <1>2 DEF ThrottlePing
<1>5. inferred /\ decision \in Allowed =>
        ~(Cardinality(Listed(ThrottledTo(ping.to))) >= RecentLimit)
  BY <1>4 DEF Infers, Allowed
<1>6. PICK v : v = [ping_id |-> p, from |-> ping.from, to |-> ping.to,
                    decision |-> decision, inferred |-> inferred]
  OBVIOUS
<1>7. PICK u : u = [ping EXCEPT !.throttle = t, !.decision = decision,
                                !.status = StatusOf(decision)]
  OBVIOUS
<1>8. /\ v.to = ping.to /\ v.decision = decision /\ v.inferred = inferred
      /\ u.relevance = ping.relevance
  BY <1>3, <1>6, <1>7 DEF PingRecord
<1>9. PICK a : a = Writes(Throttle(t), v)
  OBVIOUS
<1>10. PICK b : b = Writes(Ping(p), u)
  OBVIOUS
<1>11. PICK c : c = Appends(ThrottledTo(ping.to), t)
  OBVIOUS
<1>12. Plans(r, <<a, b, c>>)
  BY <1>1, <1>4, <1>6, <1>7, <1>9, <1>10, <1>11 DEF ThrottlePuts
<1>13. /\ a.key[1] = "ping-throttle" /\ b.key[1] = "ping" /\ c.key[1] = "throttled-to"
       /\ b.key[2] = p /\ b.value = u
  BY <1>9, <1>10, <1>11, PutsAre, KeysAre, IndexKeysAre
<1>14. /\ a.key[1] \in ThrottleFamily /\ b.key[1] \in ThrottleFamily
       /\ c.key[1] \in ThrottleFamily
  BY <1>13 DEF ThrottleFamily
<1>15. /\ Does(r, ThrottleFamily, {}) /\ reading'[r] = None
       /\ DOMAIN todo'[r] = {1, 2, 3}
       /\ todo'[r][1] = a /\ todo'[r][2] = b /\ todo'[r][3] = c
  BY <1>12, <1>14, PlansThree
<1>16. CopiedPuts(todo'[r])
  BY <1>3, <1>8, <1>13, <1>15 DEF CopiedPuts
<1>17. QED
  BY <1>1, <1>5, <1>8, <1>9, <1>11, <1>13, <1>15, <1>16

(* The worker that makes a ping of a finding.                              *)
LEMMA FromRelevanceDoes ==
  ASSUME IInv, NEW r \in Requests, PingFromRelevance(r)
  PROVE  /\ HasRead(r, "relevance") /\ ~Idle(r)
         /\ Does(r, {"ping", "of-relevance"}, {}) /\ reading'[r] = None
         /\ \/ DOMAIN todo'[r] = {}
            \/ \E p, v, u, a, b :
                 /\ \A q \in Listed(OfRelevance(v)) : ~Stored(Ping(q))
                 /\ u.relevance = v
                 /\ a = Writes(Ping(p), u) /\ b = Appends(OfRelevance(v), p)
                 /\ DOMAIN todo'[r] = {1, 2} /\ todo'[r][1] = a /\ todo'[r][2] = b
<1>1. /\ HasRead(r, "relevance") /\ ~Idle(r)
      /\ \A puts : WillPut(r, puts) => Plans(r, puts)
  BY GoingOn DEF PingFromRelevance
<1>2. PICK v : v = reading[r].id
  OBVIOUS
<1>3. \/ WillPut(r, <<>>)
      \/ /\ \A q \in Listed(OfRelevance(v)) : ~Stored(Ping(q))
         /\ \E p, from, to, status :
              WillPut(r, RelevancePuts(p, v, NewPing(from, to, status)))
  BY <1>2 DEF PingFromRelevance
<1>4. CASE WillPut(r, <<>>)
  BY <1>1, <1>4, PlansNone
<1>5. ASSUME \A q \in Listed(OfRelevance(v)) : ~Stored(Ping(q)),
             NEW p, NEW from, NEW to, NEW status,
             WillPut(r, RelevancePuts(p, v, NewPing(from, to, status)))
      PROVE  /\ Does(r, {"ping", "of-relevance"}, {}) /\ reading'[r] = None
             /\ \E u, a, b :
                  /\ u.relevance = v
                  /\ a = Writes(Ping(p), u) /\ b = Appends(OfRelevance(v), p)
                  /\ DOMAIN todo'[r] = {1, 2} /\ todo'[r][1] = a /\ todo'[r][2] = b
  <2>1. PICK ping : ping = NewPing(from, to, status)
    OBVIOUS
  <2>2. PICK u : u = [ping EXCEPT !.relevance = v]
    OBVIOUS
  <2>3. u.relevance = v
    BY <2>1, <2>2 DEF NewPing
  <2>4. PICK a : a = Writes(Ping(p), u)
    OBVIOUS
  <2>5. PICK b : b = Appends(OfRelevance(v), p)
    OBVIOUS
  <2>6. Plans(r, <<a, b>>)
    BY <1>1, <1>5, <2>1, <2>2, <2>4, <2>5 DEF RelevancePuts
  <2>7. a.key[1] \in {"ping", "of-relevance"} /\ b.key[1] \in {"ping", "of-relevance"}
    BY <2>4, <2>5, PutsAre, KeysAre, IndexKeysAre
  <2>8. /\ Does(r, {"ping", "of-relevance"}, {}) /\ reading'[r] = None
        /\ DOMAIN todo'[r] = {1, 2} /\ todo'[r][1] = a /\ todo'[r][2] = b
    BY <2>6, <2>7, PlansTwo
  <2>9. QED
    BY <2>3, <2>4, <2>5, <2>8
<1>6. QED
  BY <1>1, <1>3, <1>4, <1>5

(* The other workers of the pipeline put pings back for what they were.    *)
MovingFamily == {"ping", "carrier-route", "ping-delivery"}
PingOps == {"relevance", "throttle", "deliver"}

LEMMA MovingDoes ==
  ASSUME IInv, NEW r \in Requests, PingStep(r), ~ThrottlePing(r), ~PingFromRelevance(r)
  PROVE  /\ Does(r, MovingFamily, PingOps)
         /\ CopiedPuts(todo'[r]) /\ CopiedAsk(reading'[r])
<1>1. ASSUME NEW p, NEW v, v.relevance = None \/ OfPing(p, v.relevance),
             NEW a, a = Writes(Ping(p), v), Plans(r, <<a>>)
      PROVE  /\ Does(r, MovingFamily, PingOps)
             /\ CopiedPuts(todo'[r]) /\ CopiedAsk(reading'[r])
  <2>1. a.key[1] = "ping" /\ a.key[2] = p /\ a.value = v
    BY <1>1, PutsAre, KeysAre
  <2>2. a.key[1] \in MovingFamily
    BY <2>1 DEF MovingFamily
  <2>3. /\ Does(r, MovingFamily, PingOps) /\ reading'[r] = None
        /\ DOMAIN todo'[r] = {1} /\ todo'[r][1] = a
    BY <1>1, <2>2, PlansOne
  <2>4. CopiedPuts(todo'[r]) /\ CopiedAsk(reading'[r])
    BY <1>1, <2>1, <2>3, NonePut DEF CopiedPuts
  <2>5. QED
    BY <2>3, <2>4
<1>2. ASSUME NEW p, NEW v, OfPing(p, v.relevance), NEW b, b = Writes(Ping(p), v),
             NEW a, a.key[1] \in {"carrier-route", "ping-delivery"}, Plans(r, <<a, b>>)
      PROVE  /\ Does(r, MovingFamily, PingOps)
             /\ CopiedPuts(todo'[r]) /\ CopiedAsk(reading'[r])
  <2>1. b.key[1] = "ping" /\ b.key[2] = p /\ b.value = v
    BY <1>2, PutsAre, KeysAre
  <2>2. a.key[1] \in MovingFamily /\ b.key[1] \in MovingFamily /\ a.key[1] # "ping"
    BY <1>2, <2>1 DEF MovingFamily
  <2>3. /\ Does(r, MovingFamily, PingOps) /\ reading'[r] = None
        /\ DOMAIN todo'[r] = {1, 2} /\ todo'[r][1] = a /\ todo'[r][2] = b
    BY <1>2, <2>2, PlansTwo
  <2>4. CopiedPuts(todo'[r]) /\ CopiedAsk(reading'[r])
    BY <1>2, <2>1, <2>2, <2>3, NonePut DEF CopiedPuts
  <2>5. QED
    BY <2>3, <2>4
<1>3. ASSUME NEW x, StartReading(r, x), x.op \in PingOps, CopiedAsk(x)
      PROVE  /\ Does(r, MovingFamily, PingOps)
             /\ CopiedPuts(todo'[r]) /\ CopiedAsk(reading'[r])
  <2>1. Does(r, MovingFamily, PingOps) /\ todo'[r] = <<>> /\ reading'[r] = x
    BY <1>3, StartDoes
  <2>2. QED
    BY <1>3, <2>1, NonePut
<1>4. CASE CreatePing(r)
  <2>1. PICK ends \in Ends, p \in Minted("ping") :
          Goes(r, <<Writes(Ping(p), NewPing(ends[1], ends[2], "queued"))>>)
    BY <1>4 DEF CreatePing
  <2>2. PICK v : v = NewPing(ends[1], ends[2], "queued")
    OBVIOUS
  <2>3. v.relevance = None
    BY <2>2 DEF NewPing
  <2>4. PICK a : a = Writes(Ping(p), v)
    OBVIOUS
  <2>5. Plans(r, <<a>>)
    BY <2>1, <2>2, <2>4, Going
  <2>6. QED
    BY <1>1, <2>3, <2>4, <2>5
<1>5. CASE ReadRelevance(r)
  <2>1. PICK v, to : StartReading(r, [op |-> "relevance", id |-> v, to |-> to])
    BY <1>5 DEF ReadRelevance
  <2>2. PICK x : x = [op |-> "relevance", id |-> v, to |-> to]
    OBVIOUS
  <2>3. x.op = "relevance" /\ StartReading(r, x)
    BY <2>1, <2>2
  <2>4. QED
    BY <1>3, <2>3 DEF CopiedAsk, PingOps
<1>6. CASE ReadToThrottle(r)
  <2>1. PICK p, ask : /\ Stored(Ping(p))
                      /\ StartReading(r, [op |-> "throttle", id |-> p, ask |-> ask,
                                          copy |-> kv[Ping(p)]])
    BY <1>6 DEF ReadToThrottle
  <2>2. PICK x : x = [op |-> "throttle", id |-> p, ask |-> ask, copy |-> kv[Ping(p)]]
    OBVIOUS
  <2>3. x.op = "throttle" /\ x.id = p /\ x.copy = kv[Ping(p)] /\ StartReading(r, x)
    BY <2>1, <2>2
  <2>4. QED
    BY <1>3, <2>1, <2>3, PingsRead DEF CopiedAsk, PingOps
<1>7. CASE RoutePing(r)
  <2>1. PICK c, p : Stored(Ping(p)) /\ Goes(r, RoutePuts(c, p, kv[Ping(p)]))
    BY <1>7 DEF RoutePing
  <2>2. PICK ping : ping = kv[Ping(p)]
    OBVIOUS
  <2>3. ping \in PingRecord /\ OfPing(p, ping.relevance)
    BY <2>1, <2>2, PingsRead
  <2>4. PICK v : v = [ping EXCEPT !.route = c, !.status = "routed"]
    OBVIOUS
  <2>5. v.relevance = ping.relevance
    BY <2>3, <2>4 DEF PingRecord
  <2>6. PICK b : b = Writes(Ping(p), v)
    OBVIOUS
  <2>7. PICK a : RoutePuts(c, p, ping) = <<a, b>> /\ a.key[1] = "carrier-route"
    BY <2>4, <2>6, PutsAre, KeysAre DEF RoutePuts
  <2>8. Plans(r, <<a, b>>)
    BY <2>1, <2>2, <2>7, Going
  <2>9. QED
    BY <1>2, <2>3, <2>5, <2>6, <2>7, <2>8
<1>8. CASE ReadToDeliver(r)
  <2>1. PICK p, ask : /\ Stored(Ping(p))
                      /\ StartReading(r, [op |-> "deliver", id |-> p, copy |-> kv[Ping(p)],
                                          ask |-> ask])
    BY <1>8 DEF ReadToDeliver
  <2>2. PICK x : x = [op |-> "deliver", id |-> p, copy |-> kv[Ping(p)], ask |-> ask]
    OBVIOUS
  <2>3. x.op = "deliver" /\ x.id = p /\ x.copy = kv[Ping(p)] /\ StartReading(r, x)
    BY <2>1, <2>2
  <2>4. QED
    BY <1>3, <2>1, <2>3, PingsRead DEF CopiedAsk, PingOps
<1>9. CASE DeliverPing(r)
  <2>1. /\ HasRead(r, "deliver")
        /\ \A puts : WillPut(r, puts) => Plans(r, puts)
    BY <1>9, GoingOn DEF DeliverPing
  <2>2. PICK p, ping : p = reading[r].id /\ ping = reading[r].copy
    OBVIOUS
  <2>3. ping \in PingRecord /\ OfPing(p, ping.relevance)
    BY <2>1, <2>2, PingsRead
  <2>4. \/ WillPut(r, <<>>)
        \/ \E d, c, route, ok : WillPut(r, DeliveryPuts(d, p, ping, c, route, ok))
    BY <1>9, <2>2 DEF DeliverPing
  <2>5. CASE WillPut(r, <<>>)
    <3>1. Does(r, MovingFamily, PingOps) /\ todo'[r] = <<>> /\ reading'[r] = None
      BY <2>1, <2>5, PlansNone
    <3>2. QED
      BY <3>1, NonePut
  <2>6. ASSUME NEW d, NEW c, NEW route, NEW ok,
               WillPut(r, DeliveryPuts(d, p, ping, c, route, ok))
        PROVE  /\ Does(r, MovingFamily, PingOps)
               /\ CopiedPuts(todo'[r]) /\ CopiedAsk(reading'[r])
    <3>1. PICK v : v = [ping EXCEPT !.route = c, !.carrier_route = c, !.delivery = d,
                          !.status = IF ok THEN "delivered" ELSE "delivery_failed"]
      OBVIOUS
    <3>2. v.relevance = ping.relevance
      BY <2>3, <3>1 DEF PingRecord
    <3>3. PICK b : b = Writes(Ping(p), v)
      OBVIOUS
    <3>4. PICK a : DeliveryPuts(d, p, ping, c, route, ok) = <<a, b>> /\ a.key[1] = "ping-delivery"
      BY <3>1, <3>3, PutsAre, KeysAre DEF DeliveryPuts
    <3>5. Plans(r, <<a, b>>)
      BY <2>1, <2>6, <3>4
    <3>6. QED
      BY <1>2, <2>3, <3>2, <3>3, <3>4, <3>5
  <2>7. QED
    BY <2>4, <2>5, <2>6
<1>10. CASE AckPing(r)
  <2>1. PICK p, action : /\ Stored(Ping(p))
                         /\ Goes(r, <<Writes(Ping(p), [kv[Ping(p)] EXCEPT !.status = action])>>)
    BY <1>10 DEF AckPing
  <2>2. PICK ping : ping = kv[Ping(p)]
    OBVIOUS
  <2>3. ping \in PingRecord /\ OfPing(p, ping.relevance)
    BY <2>1, <2>2, PingsRead
  <2>4. PICK v : v = [ping EXCEPT !.status = action]
    OBVIOUS
  <2>5. v.relevance = ping.relevance
    BY <2>3, <2>4 DEF PingRecord
  <2>6. PICK a : a = Writes(Ping(p), v)
    OBVIOUS
  <2>7. Plans(r, <<a>>)
    BY <2>1, <2>2, <2>4, <2>6, Going
  <2>8. QED
    BY <1>1, <2>3, <2>5, <2>6, <2>7
<1>11. QED
  BY <1>4, <1>5, <1>6, <1>7, <1>8, <1>9, <1>10 DEF PingStep

PingFamily ==
  MovingFamily \union ThrottleFamily \union {"of-relevance"}

LEMMA PingDoes ==
  ASSUME IInv, NEW r \in Requests, PingStep(r)
  PROVE  Does(r, PingFamily, PingOps)
<1>1. CASE ThrottlePing(r)
  <2>1. Does(r, ThrottleFamily, {})
    BY <1>1, ThrottleDoes
  <2>2. QED
    BY <2>1, DoesMore DEF PingFamily
<1>2. CASE PingFromRelevance(r)
  <2>1. Does(r, {"ping", "of-relevance"}, {})
    BY <1>2, FromRelevanceDoes
  <2>2. QED
    BY <2>1, DoesMore DEF PingFamily, MovingFamily
<1>3. CASE ~ThrottlePing(r) /\ ~PingFromRelevance(r)
  <2>1. Does(r, MovingFamily, PingOps)
    BY <1>3, MovingDoes
  <2>2. QED
    BY <2>1, DoesMore DEF PingFamily
<1>4. QED
  BY <1>1, <1>2, <1>3

(* What happens near a field but to the field.                             *)
NearFamily == {"intent", "intents-of", "proximity", "proximity-exit", "ping", "relevance"}
NearOps == {"enter", "check", "checked"}

(* The pings of an event are for no finding.                               *)
NoFinding(puts) ==
  \A n \in DOMAIN puts :
    IsWrite(puts[n]) /\ puts[n].key[1] = "ping" => puts[n].value.relevance = None

LEMMA NearDoes ==
  ASSUME IInv, NEW r \in Requests, FieldStep(r),
         ~PostField(r), ~ReadToClose(r), ~CloseField(r)
  PROVE  Does(r, NearFamily, NearOps) /\ NoFinding(todo'[r])
<1>1. ASSUME NEW asks, StartReading(r, asks), asks.op \in NearOps
      PROVE  Does(r, NearFamily, NearOps) /\ NoFinding(todo'[r])
  <2>1. Does(r, NearFamily, NearOps) /\ todo'[r] = <<>>
    BY <1>1, StartDoes
  <2>2. QED
    BY <2>1, ListsAre DEF NoFinding
<1>2. ASSUME NEW op, HasRead(r, op), NEW asks, Reads(r, asks), asks.op \in NearOps
      PROVE  Does(r, NearFamily, NearOps) /\ NoFinding(todo'[r])
  <2>1. Does(r, NearFamily, NearOps) /\ todo'[r] = <<>>
    BY <1>2, ReadsOnDoes
  <2>2. QED
    BY <2>1, ListsAre DEF NoFinding
<1>3. ASSUME NEW y, y = reading[r], y.op \in {"enter", "checked"}, "op" \in DOMAIN y,
             HasRead(r, y.op), NEW left, NEW found,
             Reads(r, [y EXCEPT !.left = left, !.found = found])
      PROVE  Does(r, NearFamily, NearOps) /\ NoFinding(todo'[r])
  <2>1. PICK x : x = [y EXCEPT !.left = left, !.found = found]
    OBVIOUS
  <2>2. x.op = y.op
    BY <1>3, <2>1
  <2>3. Reads(r, x) /\ x.op \in NearOps
    BY <1>3, <2>1, <2>2 DEF NearOps
  <2>4. QED
    BY <1>2, <1>3, <2>3
<1>4. CASE RememberIntent(r)
  <2>1. PICK by, n, v : Goes(r, <<Writes(Intent(n), v), Appends(IntentsOf(by), n)>>)
    BY <1>4 DEF RememberIntent
  <2>2. PICK a : a = Writes(Intent(n), v)
    OBVIOUS
  <2>3. PICK b : b = Appends(IntentsOf(by), n)
    OBVIOUS
  <2>4. /\ Plans(r, <<a, b>>)
        /\ a.key[1] = "intent" /\ b.key[1] = "intents-of"
        /\ a.key[1] \in NearFamily /\ b.key[1] \in NearFamily
    BY <2>1, <2>2, <2>3, Going, KindsOfPuts, KeysAre, IndexKeysAre DEF NearFamily
  <2>5. /\ Does(r, NearFamily, NearOps) /\ DOMAIN todo'[r] = {1, 2}
        /\ todo'[r][1] = a /\ todo'[r][2] = b
    BY <2>4, PlansTwo
  <2>6. QED
    BY <2>4, <2>5 DEF NoFinding
<1>5. CASE ReadIntentIndex(r)
  BY <1>1, <1>5 DEF ReadIntentIndex, NearOps
<1>6. CASE ReadIntentToEnter(r)
  <2>1. PICK y : y = reading[r]
    OBVIOUS
  <2>2. HasRead(r, "enter") /\ y.op = "enter" /\ "op" \in DOMAIN y
    <3>1. HasRead(r, "enter")
      BY <1>6 DEF ReadIntentToEnter, ReadIntents
    <3>2. ReadFits(bounds, Facts(kv), y) /\ y.op = "enter"
      BY <2>1, <3>1, Reading
    <3>3. QED
      BY <3>1, <3>2 DEF ReadFits
  <2>3. PICK left, found : Reads(r, [y EXCEPT !.left = left, !.found = found])
    BY <1>6, <2>1 DEF ReadIntentToEnter, ReadIntents
  <2>4. QED
    BY <1>3, <2>1, <2>2, <2>3
<1>7. CASE EnterField(r)
  <2>1. \A puts : WillPut(r, puts) => Plans(r, puts)
    BY <1>7, GoingOn DEF EnterField
  <2>2. PICK x, at, owner :
          \/ WillPut(r, <<Writes(Proximity(x), NewEvent(at, owner, None))>>)
          \/ \E n, p : WillPut(r, EnterPuts(x, p, at, owner, n))
    BY <1>7 DEF EnterField
  <2>3. CASE WillPut(r, <<Writes(Proximity(x), NewEvent(at, owner, None))>>)
    <3>1. PICK a : a = Writes(Proximity(x), NewEvent(at, owner, None))
      OBVIOUS
    <3>2. Plans(r, <<a>>) /\ a.key[1] = "proximity" /\ a.key[1] \in NearFamily
      BY <2>1, <2>3, <3>1, KindsOfPuts, KeysAre DEF NearFamily
    <3>3. Does(r, NearFamily, NearOps) /\ DOMAIN todo'[r] = {1} /\ todo'[r][1] = a
      BY <3>2, PlansOne
    <3>4. QED
      BY <3>2, <3>3 DEF NoFinding
  <2>4. ASSUME NEW n, NEW p, WillPut(r, EnterPuts(x, p, at, owner, n))
        PROVE  Does(r, NearFamily, NearOps) /\ NoFinding(todo'[r])
    <3>1. PICK a : a = Writes(Proximity(x), NewEvent(at, owner, n))
      OBVIOUS
    <3>2. PICK v : v = [NewPing(at, owner, "queued") EXCEPT !.event = x]
      OBVIOUS
    <3>3. PICK b : b = Writes(Ping(p), v)
      OBVIOUS
    <3>4. v.relevance = None
      BY <3>2 DEF NewPing
    <3>5. /\ Plans(r, <<a, b>>)
          /\ a.key[1] = "proximity" /\ b.key[1] = "ping" /\ b.value = v
          /\ a.key[1] \in NearFamily /\ b.key[1] \in NearFamily
      BY <2>1, <2>4, <3>1, <3>2, <3>3, PutsAre, KeysAre DEF EnterPuts, NearFamily
    <3>6. /\ Does(r, NearFamily, NearOps) /\ DOMAIN todo'[r] = {1, 2}
          /\ todo'[r][1] = a /\ todo'[r][2] = b
      BY <3>5, PlansTwo
    <3>7. QED
      BY <3>4, <3>5, <3>6 DEF NoFinding
  <2>5. QED
    BY <2>2, <2>3, <2>4
<1>8. CASE ExitField(r)
  <2>1. PICK x, z : Goes(r, ExitPuts(z, x, kv[Proximity(x)]))
    BY <1>8 DEF ExitField
  <2>2. PICK a, b : /\ ExitPuts(z, x, kv[Proximity(x)]) = <<a, b>>
                    /\ a.key[1] = "proximity-exit" /\ b.key[1] = "proximity"
                    /\ a.key[1] \in NearFamily /\ b.key[1] \in NearFamily
    BY KindsOfPuts, KeysAre DEF ExitPuts, NearFamily
  <2>3. Plans(r, <<a, b>>)
    BY <2>1, <2>2, Going
  <2>4. /\ Does(r, NearFamily, NearOps) /\ DOMAIN todo'[r] = {1, 2}
        /\ todo'[r][1] = a /\ todo'[r][2] = b
    BY <2>2, <2>3, PlansTwo
  <2>5. QED
    BY <2>2, <2>4 DEF NoFinding
<1>9. CASE ReadField(r)
  BY <1>1, <1>9 DEF ReadField, NearOps
<1>10. CASE ReadNamedIntent(r)
  BY <1>2, <1>10 DEF ReadNamedIntent, NearOps
<1>11. CASE ListIntents(r)
  BY <1>2, <1>11 DEF ListIntents, NearOps
<1>12. CASE ReadIntentToCheck(r)
  <2>1. PICK y : y = reading[r]
    OBVIOUS
  <2>2. HasRead(r, "checked") /\ y.op = "checked" /\ "op" \in DOMAIN y
    <3>1. HasRead(r, "checked")
      BY <1>12 DEF ReadIntentToCheck, ReadIntents
    <3>2. ReadFits(bounds, Facts(kv), y) /\ y.op = "checked"
      BY <2>1, <3>1, Reading
    <3>3. QED
      BY <3>1, <3>2 DEF ReadFits
  <2>3. PICK left, found : Reads(r, [y EXCEPT !.left = left, !.found = found])
    BY <1>12, <2>1 DEF ReadIntentToCheck, ReadIntents
  <2>4. QED
    BY <1>3, <2>1, <2>2, <2>3
<1>13. CASE CheckRelevance(r)
  <2>1. \A puts : WillPut(r, puts) => Plans(r, puts)
    BY <1>13, GoingOn DEF CheckRelevance
  <2>2. PICK v, u : WillPut(r, <<Writes(Relevance(v), u)>>)
    BY <1>13 DEF CheckRelevance
  <2>3. PICK a : a = Writes(Relevance(v), u)
    OBVIOUS
  <2>4. Plans(r, <<a>>) /\ a.key[1] = "relevance" /\ a.key[1] \in NearFamily
    BY <2>1, <2>2, <2>3, KindsOfPuts, KeysAre DEF NearFamily
  <2>5. Does(r, NearFamily, NearOps) /\ DOMAIN todo'[r] = {1} /\ todo'[r][1] = a
    BY <2>4, PlansOne
  <2>6. QED
    BY <2>4, <2>5 DEF NoFinding
<1>14. QED
  BY <1>4, <1>5, <1>6, <1>7, <1>8, <1>9, <1>10, <1>11, <1>12, <1>13 DEF FieldStep

(* A field is posted in two puts, and closed in two.                       *)
LEMMA PostFieldDoes ==
  ASSUME IInv, NEW r \in Requests, PostField(r)
  PROVE  \E by \in Chosen("current-field"), f \in Chosen("field"), active \in BOOLEAN :
           \E v : /\ v = [id |-> f, identity |-> by, active |-> active]
                  /\ todo'[r] = <<Writes(CurrentField(v.identity), v), Writes(Field(v.id), v)>>
                  /\ reading'[r] = None /\ Arrives(r)
                  /\ Does(r, {"field", "current-field"}, {})
<1>1. PICK by \in Chosen("current-field"), f \in Chosen("field"), active \in BOOLEAN :
        Goes(r, FieldPuts(f, by, active))
  BY DEF PostField
<1>2. PICK v : v = [id |-> f, identity |-> by, active |-> active]
  OBVIOUS
<1>3. v.id = f /\ v.identity = by
  BY <1>2
<1>4. PICK a : a = Writes(CurrentField(v.identity), v)
  OBVIOUS
<1>5. PICK b : b = Writes(Field(v.id), v)
  OBVIOUS
<1>6. FieldPuts(f, by, active) = <<a, b>>
  BY <1>2, <1>3, <1>4, <1>5 DEF FieldPuts
<1>7. Plans(r, <<a, b>>) /\ Arrives(r)
  BY <1>1, <1>6, Going
<1>8. a.key[1] = "current-field" /\ b.key[1] = "field"
  BY <1>4, <1>5, KindsOfPuts, KeysAre
<1>9. Does(r, {"field", "current-field"}, {}) /\ todo'[r] = <<a, b>> /\ reading'[r] = None
  BY <1>7, <1>8, PlansTwo
<1>10. QED
  BY <1>2, <1>4, <1>5, <1>7, <1>9

LEMMA CloseFieldDoes ==
  ASSUME IInv, NEW r \in Requests, CloseField(r)
  PROVE  \E v : /\ v = [reading[r].field EXCEPT !.active = FALSE]
                /\ IsField(reading[r].field) /\ IsField(v)
                /\ todo'[r] = <<Writes(Field(v.id), v), Refreshes(CurrentField(v.identity), v)>>
                /\ reading'[r] = None /\ ~Idle(r)
                /\ Does(r, {"field", "current-field"}, {})
<1>1. /\ ~Idle(r) /\ IsField(reading[r].field)
      /\ \A puts : WillPut(r, puts) => Plans(r, puts)
  BY GoingOn, Reading DEF CloseField, ReadFits
<1>2. PICK u : u = reading[r].field
  OBVIOUS
<1>3. PICK v : v = [u EXCEPT !.active = FALSE]
  OBVIOUS
<1>4. IsField(v) /\ v.id = u.id /\ v.identity = u.identity
  BY <1>1, <1>2, <1>3 DEF IsField
<1>5. PICK a : a = Writes(Field(v.id), v)
  OBVIOUS
<1>6. PICK b : b = Refreshes(CurrentField(v.identity), v)
  OBVIOUS
<1>7. ClosePuts(u) = <<a, b>>
  BY <1>3, <1>4, <1>5, <1>6 DEF ClosePuts
<1>8. Plans(r, <<a, b>>)
  BY <1>1, <1>2, <1>7 DEF CloseField
<1>9. a.key[1] = "field" /\ b.key[1] = "current-field"
  BY <1>5, <1>6, KindsOfPuts, KeysAre
<1>10. Does(r, {"field", "current-field"}, {}) /\ todo'[r] = <<a, b>> /\ reading'[r] = None
  BY <1>8, <1>9, PlansTwo
<1>11. QED
  BY <1>1, <1>2, <1>3, <1>4, <1>5, <1>6, <1>10

FieldFamily == NearFamily \union {"field", "current-field"}
FieldOps == NearOps \union {"close"}

LEMMA FieldDoes ==
  ASSUME IInv, NEW r \in Requests, FieldStep(r)
  PROVE  Does(r, FieldFamily, FieldOps) /\ NoFinding(todo'[r])
<1>1. CASE PostField(r) \/ CloseField(r)
  <2>1. Does(r, {"field", "current-field"}, {})
    BY <1>1, PostFieldDoes, CloseFieldDoes
  <2>2. \A n \in DOMAIN todo'[r] : todo'[r][n].key[1] # "ping"
    BY <2>1 DEF Does
  <2>3. Does(r, FieldFamily, FieldOps)
    BY <2>1, DoesMore DEF FieldFamily
  <2>4. QED
    BY <2>2, <2>3 DEF NoFinding
<1>2. CASE ReadToClose(r)
  <2>1. PICK by, k : StartReading(r, [op |-> "close", field |-> kv[k]])
    BY <1>2 DEF ReadToClose
  <2>2. Does(r, FieldFamily, FieldOps) /\ todo'[r] = <<>>
    BY <2>1, StartDoes DEF FieldOps
  <2>3. QED
    BY <2>2, ListsAre DEF NoFinding
<1>3. CASE ~PostField(r) /\ ~ReadToClose(r) /\ ~CloseField(r)
  <2>1. Does(r, NearFamily, NearOps) /\ NoFinding(todo'[r])
    BY <1>3, NearDoes
  <2>2. Does(r, FieldFamily, FieldOps)
    BY <2>1, DoesMore DEF FieldFamily, FieldOps
  <2>3. QED
    BY <2>1, <2>2
<1>4. QED
  BY <1>1, <1>2, <1>3

(* Objects and claims.                                                     *)
ClaimFamily == {"object", "object-claim", "claims-by", "object-handoff"}
ClaimOps == {"claim", "claim-latest", "decide", "hand-off"}

LEMMA PostObjectDoes ==
  ASSUME IInv, NEW r \in Requests, PostObject(r)
  PROVE  \E o, v, a : /\ a = Writes(Object(o), v) /\ v.claim = None
                      /\ Does(r, ClaimFamily, ClaimOps) /\ reading'[r] = None
                      /\ Arrives(r)
                      /\ DOMAIN todo'[r] = {1} /\ todo'[r][1] = a
<1>1. PICK o, by, status :
        Goes(r, <<Writes(Object(o), [owner |-> by, status |-> status, claim |-> None,
                                     handoff |-> None, holder |-> None])>>)
  BY DEF PostObject
<1>2. PICK v : v = [owner |-> by, status |-> status, claim |-> None,
                    handoff |-> None, holder |-> None]
  OBVIOUS
<1>3. PICK a : a = Writes(Object(o), v)
  OBVIOUS
<1>4. Plans(r, <<a>>) /\ Arrives(r)
  BY <1>1, <1>2, <1>3, Going
<1>5. a.key[1] \in ClaimFamily
  BY <1>3, KindsOfPuts, MoreKeysAre DEF ClaimFamily
<1>6. /\ Does(r, ClaimFamily, ClaimOps) /\ reading'[r] = None
      /\ DOMAIN todo'[r] = {1} /\ todo'[r][1] = a
  BY <1>4, <1>5, PlansOne
<1>7. v.claim = None
  BY <1>2
<1>8. QED
  BY <1>3, <1>4, <1>6, <1>7

(* A claim and its object are put back, in this order.                     *)
LEMMA ClaimObjectDoes ==
  ASSUME IInv, NEW r \in Requests, ClaimObject(r)
  PROVE  /\ HasRead(r, "claim-latest") /\ ~Idle(r)
         /\ Does(r, ClaimFamily, ClaimOps) /\ reading'[r] = None
         /\ \/ DOMAIN todo'[r] = {}
            \/ \E c, v, w, a, b, d :
                 /\ a = Writes(Claim(c), v) /\ b.key[1] = "claims-by"
                 /\ d = Writes(Object(reading[r].id), w)
                 /\ v.status \in PostedClaims
                 /\ w.claim = c \/ w = reading[r].object
                 /\ DOMAIN todo'[r] = {1, 2, 3}
                 /\ todo'[r][1] = a /\ todo'[r][2] = b /\ todo'[r][3] = d
<1>1. /\ HasRead(r, "claim-latest") /\ ~Idle(r)
      /\ \A puts : WillPut(r, puts) => Plans(r, puts)
  BY GoingOn DEF ClaimObject
<1>2. PICK x : x = reading[r]
  OBVIOUS
<1>3. x.object \in ObjectRecord
  <2>1. Copied(bounds, Facts(kv), Object(x.id), x.object)
    <3>1. ReadFits(bounds, Facts(kv), x) /\ x.op = "claim-latest"
      BY <1>1, <1>2, Reading
    <3>2. QED
      BY <3>1 DEF ReadFits
  <2>2. Shaped(bounds, Object(x.id), x.object)
    BY <2>1 DEF Copied, Good
  <2>3. QED
    BY <2>2, MoreKeysAre DEF Shaped
<1>4. \/ WillPut(r, <<>>)
      \/ \E c : \E status \in PostedClaims, reserves \in BOOLEAN :
           WillPut(r, ClaimPuts(c, x.id,
             [object |-> x.id, owner |-> x.object.owner,
              claimant |-> x.by, status |-> status, handoff |-> None],
             ReservedBy(c, x.object, reserves)))
  BY <1>2 DEF ClaimObject
<1>5. CASE WillPut(r, <<>>)
  BY <1>1, <1>5, PlansNone
<1>6. ASSUME NEW c, NEW status \in PostedClaims,
             NEW reserves \in BOOLEAN,
             WillPut(r, ClaimPuts(c, x.id,
               [object |-> x.id, owner |-> x.object.owner,
                claimant |-> x.by, status |-> status, handoff |-> None],
               ReservedBy(c, x.object, reserves)))
      PROVE  /\ Does(r, ClaimFamily, ClaimOps) /\ reading'[r] = None
             /\ \E v, w, a, b, d :
                  /\ a = Writes(Claim(c), v) /\ b.key[1] = "claims-by"
                  /\ d = Writes(Object(reading[r].id), w)
                  /\ v.status \in PostedClaims
                  /\ w.claim = c \/ w = reading[r].object
                  /\ DOMAIN todo'[r] = {1, 2, 3}
                  /\ todo'[r][1] = a /\ todo'[r][2] = b /\ todo'[r][3] = d
  <2>1. PICK v : v = [object |-> x.id, owner |-> x.object.owner,
                      claimant |-> x.by, status |-> status, handoff |-> None]
    OBVIOUS
  <2>2. PICK w : w = ReservedBy(c, x.object, reserves)
    OBVIOUS
  <2>3. v.status = status
    BY <2>1
  <2>4. w.claim = c \/ w = x.object
    BY <1>3, <2>2 DEF ReservedBy, ObjectRecord
  <2>5. PICK a : a = Writes(Claim(c), v)
    OBVIOUS
  <2>6. PICK b : b = Latest(x.id, v.claimant, c)
    OBVIOUS
  <2>7. PICK d : d = Writes(Object(x.id), w)
    OBVIOUS
  <2>8. Plans(r, <<a, b, d>>)
    BY <1>1, <1>6, <2>1, <2>2, <2>5, <2>6, <2>7 DEF ClaimPuts
  <2>9. a.key[1] = "object-claim" /\ b.key[1] = "claims-by" /\ d.key[1] = "object"
    BY <2>5, <2>6, <2>7, KindsOfPuts, MoreKeysAre, IndexKeysAre DEF Latest
  <2>10. a.key[1] \in ClaimFamily /\ b.key[1] \in ClaimFamily /\ d.key[1] \in ClaimFamily
    BY <2>9 DEF ClaimFamily
  <2>11. /\ Does(r, ClaimFamily, ClaimOps) /\ reading'[r] = None
         /\ DOMAIN todo'[r] = {1, 2, 3}
         /\ todo'[r][1] = a /\ todo'[r][2] = b /\ todo'[r][3] = d
    BY <2>8, <2>10, PlansThree
  <2>12. QED
    BY <1>2, <2>3, <2>4, <2>5, <2>7, <2>9, <2>11
<1>7. CASE ~WillPut(r, <<>>)
  <2>1. PICK c : \E status \in PostedClaims, reserves \in BOOLEAN :
          WillPut(r, ClaimPuts(c, x.id,
            [object |-> x.id, owner |-> x.object.owner,
             claimant |-> x.by, status |-> status, handoff |-> None],
            ReservedBy(c, x.object, reserves)))
    BY <1>4, <1>7
  <2>2. /\ Does(r, ClaimFamily, ClaimOps) /\ reading'[r] = None
        /\ \E v, w, a, b, d :
             /\ a = Writes(Claim(c), v) /\ b.key[1] = "claims-by"
             /\ d = Writes(Object(reading[r].id), w)
             /\ v.status \in PostedClaims
             /\ w.claim = c \/ w = reading[r].object
             /\ DOMAIN todo'[r] = {1, 2, 3}
             /\ todo'[r][1] = a /\ todo'[r][2] = b /\ todo'[r][3] = d
    BY <1>6, <2>1
  <2>3. QED
    BY <1>1, <2>2
<1>8. QED
  BY <1>1, <1>5, <1>7

LEMMA DecideClaimDoes ==
  ASSUME IInv, NEW r \in Requests, DecideClaim(r)
  PROVE  /\ HasRead(r, "decide") /\ ~Idle(r)
         /\ Does(r, ClaimFamily, ClaimOps) /\ reading'[r] = None
         /\ \/ DOMAIN todo'[r] = {}
            \/ \E v, w, a, b :
                 LET c == reading[r].id
                     claim == reading[r].claim
                     decision == reading[r].decision
                 IN  /\ SameOwner(claim) /\ decision \in ClaimDecisions
                     /\ v = [claim EXCEPT !.status = StatusByDecision[decision]]
                     /\ w = Decided(kv[Object(claim.object)], c, decision)
                     /\ a = Writes(Claim(c), v) /\ b = Writes(Object(claim.object), w)
                     /\ DOMAIN todo'[r] = {1, 2} /\ todo'[r][1] = a /\ todo'[r][2] = b
<1>1. /\ HasRead(r, "decide") /\ ~Idle(r)
      /\ \A puts : WillPut(r, puts) => Plans(r, puts)
  BY GoingOn DEF DecideClaim
<1>2. PICK x : x = reading[r]
  OBVIOUS
<1>3. x.decision \in ClaimDecisions
  BY <1>1, <1>2, Reading DEF ReadFits
<1>4. PICK v : v = [x.claim EXCEPT !.status = StatusByDecision[x.decision]]
  OBVIOUS
<1>5. PICK w : w = Decided(kv[Object(x.claim.object)], x.id, x.decision)
  OBVIOUS
<1>6. PICK a : a = Writes(Claim(x.id), v)
  OBVIOUS
<1>7. PICK b : b = Writes(Object(x.claim.object), w)
  OBVIOUS
<1>8. \/ WillPut(r, <<>>)
      \/ SameOwner(x.claim) /\ WillPut(r, <<a, b>>)
  BY <1>2, <1>4, <1>5, <1>6, <1>7 DEF DecideClaim
<1>9. CASE WillPut(r, <<>>)
  BY <1>1, <1>9, PlansNone
<1>10. CASE SameOwner(x.claim) /\ WillPut(r, <<a, b>>)
  <2>1. Plans(r, <<a, b>>)
    BY <1>1, <1>10
  <2>2. a.key[1] \in ClaimFamily /\ b.key[1] \in ClaimFamily
    BY <1>6, <1>7, KindsOfPuts, MoreKeysAre DEF ClaimFamily
  <2>3. /\ Does(r, ClaimFamily, ClaimOps) /\ reading'[r] = None
        /\ DOMAIN todo'[r] = {1, 2} /\ todo'[r][1] = a /\ todo'[r][2] = b
    BY <2>1, <2>2, PlansTwo
  <2>4. QED
    BY <1>1, <1>2, <1>3, <1>4, <1>5, <1>6, <1>7, <1>10, <2>3
<1>11. QED
  BY <1>8, <1>9, <1>10

HandsOff(r, c, claim, h, status, to) ==
  \E v, w, a, b, d :
    /\ status \in HandoffStatus
    /\ v = [claim EXCEPT !.handoff = h,
                         !.status = IF status = "completed" THEN "accepted" ELSE @]
    /\ w = HandedOff(kv[Object(claim.object)], h, status, to)
    /\ a.key[1] = "object-handoff"
    /\ b = Writes(Claim(c), v) /\ d = Writes(Object(claim.object), w)
    /\ DOMAIN todo'[r] = {1, 2, 3}
    /\ todo'[r][1] = a /\ todo'[r][2] = b /\ todo'[r][3] = d

LEMMA HandOffDoes ==
  ASSUME IInv, NEW r \in Requests, HandOff(r)
  PROVE  /\ HasRead(r, "hand-off") /\ ~Idle(r)
         /\ Does(r, ClaimFamily, ClaimOps) /\ reading'[r] = None
         /\ \/ DOMAIN todo'[r] = {}
            \/ /\ SameOwner(reading[r].claim)
               /\ \E h, status, to : HandsOff(r, reading[r].id, reading[r].claim, h, status, to)
<1>1. /\ HasRead(r, "hand-off") /\ ~Idle(r)
      /\ \A puts : WillPut(r, puts) => Plans(r, puts)
  BY GoingOn DEF HandOff
<1>2. PICK x : x = reading[r]
  OBVIOUS
<1>3. \/ WillPut(r, <<>>)
      \/ SameOwner(x.claim) /\ \E h, to : \E status \in HandoffStatus :
           WillPut(r, HandoffPuts(h, x.id, x.claim, kv[Object(x.claim.object)], status, to))
  BY <1>2 DEF HandOff
<1>4. CASE WillPut(r, <<>>)
  BY <1>1, <1>4, PlansNone
<1>5. ASSUME NEW h, NEW to, NEW status \in HandoffStatus,
             WillPut(r, HandoffPuts(h, x.id, x.claim, kv[Object(x.claim.object)], status, to))
      PROVE  /\ Does(r, ClaimFamily, ClaimOps) /\ reading'[r] = None
             /\ HandsOff(r, x.id, x.claim, h, status, to)
  <2>1. PICK v : v = [x.claim EXCEPT !.handoff = h,
                        !.status = IF status = "completed" THEN "accepted" ELSE @]
    OBVIOUS
  <2>2. PICK w : w = HandedOff(kv[Object(x.claim.object)], h, status, to)
    OBVIOUS
  <2>3. PICK a : a = Writes(Handoff(h), NewHandoff(x.id, x.claim))
    OBVIOUS
  <2>4. PICK b : b = Writes(Claim(x.id), v)
    OBVIOUS
  <2>5. PICK d : d = Writes(Object(x.claim.object), w)
    OBVIOUS
  <2>6. Plans(r, <<a, b, d>>)
    BY <1>1, <1>5, <2>1, <2>2, <2>3, <2>4, <2>5 DEF HandoffPuts
  <2>7. a.key[1] = "object-handoff" /\ b.key[1] = "object-claim" /\ d.key[1] = "object"
    BY <2>3, <2>4, <2>5, KindsOfPuts, MoreKeysAre
  <2>8. a.key[1] \in ClaimFamily /\ b.key[1] \in ClaimFamily /\ d.key[1] \in ClaimFamily
    BY <2>7 DEF ClaimFamily
  <2>9. /\ Does(r, ClaimFamily, ClaimOps) /\ reading'[r] = None
        /\ DOMAIN todo'[r] = {1, 2, 3}
        /\ todo'[r][1] = a /\ todo'[r][2] = b /\ todo'[r][3] = d
    BY <2>6, <2>8, PlansThree
  <2>10. HandsOff(r, x.id, x.claim, h, status, to)
    BY <2>1, <2>2, <2>4, <2>5, <2>7, <2>9 DEF HandsOff
  <2>11. QED
    BY <2>9, <2>10
<1>6. QED
  BY <1>1, <1>2, <1>3, <1>4, <1>5

LEMMA ClaimDoes ==
  ASSUME IInv, NEW r \in Requests, ClaimStep(r)
  PROVE  Does(r, ClaimFamily, ClaimOps)
<1>1. CASE ReadToClaim(r)
  BY <1>1, StartDoes DEF ReadToClaim, ClaimOps
<1>2. CASE ReadLatest(r)
  <2>1. PICK x : x.op = "claim-latest" /\ Reads(r, x)
    BY <1>2 DEF ReadLatest
  <2>2. QED
    BY <1>2, <2>1, ReadsOnDoes DEF ReadLatest, ClaimOps
<1>3. CASE ReadToDecide(r)
  BY <1>3, StartDoes DEF ReadToDecide, ClaimOps
<1>4. CASE ReadToHandOff(r)
  BY <1>4, StartDoes DEF ReadToHandOff, ClaimOps
<1>5. QED
  BY <1>1, <1>2, <1>3, <1>4, PostObjectDoes, ClaimObjectDoes, DecideClaimDoes, HandOffDoes
  DEF ClaimStep

(* Proofs.                                                                 *)
ProofFamily == {"handoff-proof", "object-handoff"}
ProofOps == {"attach"}

LEMMA ProofDoes ==
  ASSUME IInv, NEW r \in Requests,
         AttachProof(r) \/ DecideProof(r) \/ ReadToAttach(r)
  PROVE  Does(r, ProofFamily, ProofOps)
<1>1. CASE AttachProof(r)
  <2>1. PICK p, h : Goes(r, ProofPuts(p, h, kv[Handoff(h)]))
    BY <1>1 DEF AttachProof
  <2>2. PICK a, b : /\ ProofPuts(p, h, kv[Handoff(h)]) = <<a, b>>
                    /\ a.key[1] \in ProofFamily /\ b.key[1] \in ProofFamily
    BY KindsOfPuts, MoreKeysAre DEF ProofPuts, ProofFamily
  <2>3. Plans(r, <<a, b>>)
    BY <2>1, <2>2, Going
  <2>4. QED
    BY <2>2, <2>3, PlansTwo
<1>2. CASE DecideProof(r)
  <2>1. PICK p : Goes(r, DecisionPuts(p, kv[Proof(p)]))
    BY <1>2 DEF DecideProof
  <2>2. PICK a, b : /\ DecisionPuts(p, kv[Proof(p)]) = <<a, b>>
                    /\ a.key[1] \in ProofFamily /\ b.key[1] \in ProofFamily
    BY KindsOfPuts, MoreKeysAre DEF DecisionPuts, ProofFamily
  <2>3. Plans(r, <<a, b>>)
    BY <2>1, <2>2, Going
  <2>4. QED
    BY <2>2, <2>3, PlansTwo
<1>3. CASE ReadToAttach(r)
  BY <1>3, StartDoes DEF ReadToAttach, ProofOps
<1>4. QED
  BY <1>1, <1>2, <1>3

(* Evidence.                                                               *)
EvidenceFamily == {"ican-evidence", "evidence-of"}

LEMMA AttachEvidenceDoes ==
  ASSUME IInv, NEW r \in Requests, AttachEvidence(r)
  PROVE  /\ HasRead(r, "attach") /\ ~Idle(r)
         /\ Does(r, EvidenceFamily, {})
         /\ \/ DOMAIN todo'[r] = {}
            \/ \E e, p, i, v, a, b :
                 /\ Listed(EvidenceOf(p, i)) = {}
                 /\ v.proof = p /\ v.identity = i
                 /\ a = Writes(Evidence(e), v) /\ b = Appends(EvidenceOf(p, i), e)
                 /\ DOMAIN todo'[r] = {1, 2} /\ todo'[r][1] = a /\ todo'[r][2] = b
<1>1. /\ HasRead(r, "attach") /\ ~Idle(r)
      /\ \A puts : WillPut(r, puts) => Plans(r, puts)
  BY GoingOn DEF AttachEvidence
<1>2. PICK p, i : \/ WillPut(r, <<>>)
                  \/ Listed(EvidenceOf(p, i)) = {} /\ \E e : WillPut(r, EvidencePuts(e, p, i))
  BY DEF AttachEvidence
<1>3. CASE WillPut(r, <<>>)
  BY <1>1, <1>3, PlansNone
<1>4. ASSUME Listed(EvidenceOf(p, i)) = {}, NEW e, WillPut(r, EvidencePuts(e, p, i))
      PROVE  /\ Does(r, EvidenceFamily, {})
             /\ \E v, a, b :
                  /\ v.proof = p /\ v.identity = i
                  /\ a = Writes(Evidence(e), v) /\ b = Appends(EvidenceOf(p, i), e)
                  /\ DOMAIN todo'[r] = {1, 2} /\ todo'[r][1] = a /\ todo'[r][2] = b
  <2>1. PICK v : v = [proof |-> p, identity |-> i]
    OBVIOUS
  <2>2. v.proof = p /\ v.identity = i
    BY <2>1
  <2>3. PICK a : a = Writes(Evidence(e), v)
    OBVIOUS
  <2>4. PICK b : b = Appends(EvidenceOf(p, i), e)
    OBVIOUS
  <2>5. Plans(r, <<a, b>>)
    BY <1>1, <1>4, <2>1, <2>3, <2>4 DEF EvidencePuts
  <2>6. a.key[1] \in EvidenceFamily /\ b.key[1] \in EvidenceFamily
    BY <2>3, <2>4, KindsOfPuts, MoreKeysAre, IndexKeysAre DEF EvidenceFamily
  <2>7. Does(r, EvidenceFamily, {}) /\ DOMAIN todo'[r] = {1, 2} /\ todo'[r][1] = a /\ todo'[r][2] = b
    BY <2>5, <2>6, PlansTwo
  <2>8. QED
    BY <2>2, <2>3, <2>4, <2>7
<1>5. QED
  BY <1>1, <1>2, <1>3, <1>4

ObjectFamily == ClaimFamily \union ProofFamily \union EvidenceFamily
ObjectOps == ClaimOps \union ProofOps

LEMMA ObjectDoes ==
  ASSUME IInv, NEW r \in Requests, ObjectStep(r)
  PROVE  Does(r, ObjectFamily, ObjectOps)
<1>1. CASE ClaimStep(r)
  <2>1. Does(r, ClaimFamily, ClaimOps)
    BY <1>1, ClaimDoes
  <2>2. QED
    BY <2>1, DoesMore DEF ObjectFamily, ObjectOps
<1>2. CASE AttachProof(r) \/ DecideProof(r) \/ ReadToAttach(r)
  <2>1. Does(r, ProofFamily, ProofOps)
    BY <1>2, ProofDoes
  <2>2. QED
    BY <2>1, DoesMore DEF ObjectFamily, ObjectOps
<1>3. CASE AttachEvidence(r)
  <2>1. Does(r, EvidenceFamily, {})
    BY <1>3, AttachEvidenceDoes
  <2>2. QED
    BY <2>1, DoesMore DEF ObjectFamily
<1>4. QED
  BY <1>1, <1>2, <1>3 DEF ObjectStep

(* Entry.                                                                  *)
EntryFamily == {"setup", "user", "user-email", "session"}
EntryOps == {"set", "login"}

LEMMA SendDoes ==
  ASSUME IInv, NEW r \in Requests, SendVerification(r)
  PROVE  \E t, v, a : /\ a = Writes(Setup(t), v) /\ v # Consumed
                      /\ Does(r, EntryFamily, {}) /\ reading'[r] = None
                      /\ DOMAIN todo'[r] = {1} /\ todo'[r][1] = a
<1>1. PICK e \in Chosen("user-email"), t \in Minted("setup") :
        Goes(r, <<Writes(Setup(t), [email |-> e])>>)
  BY DEF SendVerification
<1>2. PICK v : v = [email |-> e]
  OBVIOUS
<1>3. PICK a : a = Writes(Setup(t), v)
  OBVIOUS
<1>4. Plans(r, <<a>>)
  BY <1>1, <1>2, <1>3, Going
<1>5. a.key[1] \in EntryFamily
  BY <1>3, KindsOfPuts, MoreKeysAre DEF EntryFamily
<1>6. Does(r, EntryFamily, {}) /\ reading'[r] = None /\ DOMAIN todo'[r] = {1} /\ todo'[r][1] = a
  BY <1>4, <1>5, PlansOne
<1>7. v # Consumed
  <2>1. e \in Pool["user-email"]
    BY <1>1, ChosenIsPooled, KindsArePooled DEF EntryKinds
  <2>2. v \in [email : Pool["user-email"]]
    BY <1>2, <2>1
  <2>3. QED
    BY <2>2, EntryAssumption
<1>8. QED
  BY <1>3, <1>6, <1>7

LEMMA ReadSetupDoes ==
  ASSUME IInv, NEW r \in Requests, ReadSetup(r)
  PROVE  /\ Does(r, {}, EntryOps) /\ Arrives(r)
         /\ todo'[r] = <<>>
         /\ reading'[r].op = "set" /\ Live(reading'[r].id)
<1>1. PICK t \in Chosen("setup"), w \in Passwords :
        /\ Live(t)
        /\ StartReading(r, [op |-> "set", id |-> t, password |-> w,
                            email |-> kv[Setup(t)].email])
  BY DEF ReadSetup
<1>2. PICK x : x = [op |-> "set", id |-> t, password |-> w, email |-> kv[Setup(t)].email]
  OBVIOUS
<1>3. StartReading(r, x) /\ Live(t) /\ x.op = "set" /\ x.id = t
  BY <1>1, <1>2
<1>4. Does(r, {}, EntryOps) /\ todo'[r] = <<>> /\ reading'[r] = x
  BY <1>3, StartDoes DEF EntryOps
<1>5. QED
  BY <1>3, <1>4 DEF StartReading

LEMMA SetPasswordDoes ==
  ASSUME IInv, NEW r \in Requests, SetPassword(r)
  PROVE  /\ HasRead(r, "set") /\ ~Idle(r)
         /\ Does(r, EntryFamily, {}) /\ reading'[r] = None
         /\ \E s, v, a, b, c, d :
              /\ a.key[1] = "user" /\ b.key[1] = "user-email"
              /\ c = Writes(Session(s), v) /\ v.identity = reading[r].id
              /\ d = Writes(Setup(reading[r].id), Consumed)
              /\ DOMAIN todo'[r] = {1, 2, 3, 4}
              /\ todo'[r][1] = a /\ todo'[r][2] = b /\ todo'[r][3] = c /\ todo'[r][4] = d
<1>1. /\ HasRead(r, "set") /\ ~Idle(r)
      /\ \A puts : WillPut(r, puts) => Plans(r, puts)
  BY GoingOn DEF SetPassword
<1>2. PICK x : x = reading[r]
  OBVIOUS
<1>3. PICK s : WillPut(r, EntryPuts(x.id, s, x.email, x.password))
  BY <1>2 DEF SetPassword
<1>4. PICK v : v = [identity |-> x.id, email |-> x.email, by |-> "setup"]
  OBVIOUS
<1>5. v.identity = x.id
  BY <1>4
<1>6. PICK a : a = Writes(User(x.id), [email |-> x.email,
                                       hash |-> Hash(x.email, x.password, SetRounds)])
  OBVIOUS
<1>7. PICK b : b = Writes(UserEmail(x.email), x.id)
  OBVIOUS
<1>8. PICK c : c = Writes(Session(s), v)
  OBVIOUS
<1>9. PICK d : d = Writes(Setup(x.id), Consumed)
  OBVIOUS
<1>10. Plans(r, <<a, b, c, d>>)
  BY <1>1, <1>3, <1>4, <1>6, <1>7, <1>8, <1>9 DEF EntryPuts
<1>11. /\ a.key[1] = "user" /\ b.key[1] = "user-email"
       /\ c.key[1] = "session" /\ d.key[1] = "setup"
  BY <1>6, <1>7, <1>8, <1>9, KindsOfPuts, MoreKeysAre
<1>12. /\ a.key[1] \in EntryFamily /\ b.key[1] \in EntryFamily
       /\ c.key[1] \in EntryFamily /\ d.key[1] \in EntryFamily
  BY <1>11 DEF EntryFamily
<1>13. /\ Does(r, EntryFamily, {}) /\ reading'[r] = None
       /\ DOMAIN todo'[r] = {1, 2, 3, 4}
       /\ todo'[r][1] = a /\ todo'[r][2] = b /\ todo'[r][3] = c /\ todo'[r][4] = d
  BY <1>10, <1>12, PlansFour
<1>14. QED
  BY <1>1, <1>2, <1>5, <1>8, <1>9, <1>11, <1>13

(* A login makes a session of its own kind, a logout none.                 *)
ByLogin(puts) == \A n \in DOMAIN puts : IsWrite(puts[n]) => puts[n].value.by = "login"

LEMMA LoginDoes ==
  ASSUME IInv, NEW r \in Requests, ReadLogin(r) \/ Login(r) \/ Logout(r)
  PROVE  Does(r, {"session"}, {"login"}) /\ ByLogin(todo'[r])
<1>1. CASE ReadLogin(r)
  <2>1. Does(r, {"session"}, {"login"}) /\ todo'[r] = <<>>
    <3>1. PICK x : StartReading(r, x) /\ x.op = "login"
      BY <1>1 DEF ReadLogin
    <3>2. QED
      BY <3>1, StartDoes
  <2>2. QED
    BY <2>1, ListsAre DEF ByLogin
<1>2. CASE Login(r)
  <2>1. \A puts : WillPut(r, puts) => Plans(r, puts)
    BY <1>2, GoingOn DEF Login
  <2>2. PICK x : x = reading[r]
    OBVIOUS
  <2>3. PICK v : v = [identity |-> x.id, email |-> x.email, by |-> "login"]
    OBVIOUS
  <2>4. \/ WillPut(r, <<>>)
        \/ \E s : WillPut(r, <<Writes(Session(s), v)>>)
    BY <1>2, <2>2, <2>3 DEF Login
  <2>5. CASE WillPut(r, <<>>)
    <3>1. Does(r, {"session"}, {"login"}) /\ DOMAIN todo'[r] = {}
      BY <2>1, <2>5, PlansNone
    <3>2. QED
      BY <3>1 DEF ByLogin
  <2>6. ASSUME NEW s, WillPut(r, <<Writes(Session(s), v)>>)
        PROVE  Does(r, {"session"}, {"login"}) /\ ByLogin(todo'[r])
    <3>1. PICK a : a = Writes(Session(s), v)
      OBVIOUS
    <3>2. Plans(r, <<a>>) /\ a.key[1] \in {"session"} /\ a.value.by = "login"
      BY <2>1, <2>3, <2>6, <3>1, PutsAre, MoreKeysAre
    <3>3. Does(r, {"session"}, {"login"}) /\ DOMAIN todo'[r] = {1} /\ todo'[r][1] = a
      BY <3>2, PlansOne
    <3>4. QED
      BY <3>2, <3>3 DEF ByLogin
  <2>7. QED
    BY <2>4, <2>5, <2>6
<1>3. CASE Logout(r)
  <2>1. PICK s : Goes(r, <<Deletes(Session(s))>>)
    BY <1>3 DEF Logout
  <2>2. PICK a : a = Deletes(Session(s))
    OBVIOUS
  <2>3. Plans(r, <<a>>) /\ a.key[1] \in {"session"} /\ ~IsWrite(a)
    BY <2>1, <2>2, Going, PutsAre, MoreKeysAre
  <2>4. Does(r, {"session"}, {"login"}) /\ DOMAIN todo'[r] = {1} /\ todo'[r][1] = a
    BY <2>3, PlansOne
  <2>5. QED
    BY <2>3, <2>4 DEF ByLogin
<1>4. QED
  BY <1>1, <1>2, <1>3

LEMMA EntryDoes ==
  ASSUME IInv, NEW r \in Requests, EntryStep(r)
  PROVE  Does(r, EntryFamily, EntryOps)
<1>1. CASE SendVerification(r) \/ SetPassword(r)
  <2>1. Does(r, EntryFamily, {})
    BY <1>1, SendDoes, SetPasswordDoes
  <2>2. QED
    BY <2>1, DoesMore
<1>2. CASE ReadSetup(r)
  <2>1. Does(r, {}, EntryOps)
    BY <1>2, ReadSetupDoes
  <2>2. QED
    BY <2>1, DoesMore
<1>3. CASE ReadLogin(r) \/ Login(r) \/ Logout(r)
  <2>1. Does(r, {"session"}, {"login"})
    BY <1>3, LoginDoes
  <2>2. QED
    BY <2>1, DoesMore DEF EntryFamily, EntryOps
<1>4. QED
  BY <1>1, <1>2, <1>3 DEF EntryStep

-----------------------------------------------------------------------------
(* At the start nothing is under way, and little is stored.                *)
LEMMA InitHas ==
  ASSUME Init
  PROVE  /\ \A key : Stored(key) => key[1] \in {"relevance", "object", "object-claim", "claims-by"}
         /\ GivenFits(kv)
         /\ \A r \in Requests : reading[r] = None /\ todo[r] = <<>> /\ DOMAIN todo[r] = {}
         /\ crashes = 0
<1>1. kv = bounds.given /\ scene \in DOMAIN Bounds /\ crashes = 0
  BY DEF Init
<1>2. GivenFits(kv)
  BY <1>1, WorkersAssumption DEF bounds
<1>3. \A r \in Requests : reading[r] = None /\ todo[r] = <<>>
  BY DEF Init
<1>4. \A r \in Requests : DOMAIN todo[r] = {}
  BY <1>3, ListsAre
<1>5. QED
  BY <1>1, <1>2, <1>3, <1>4 DEF GivenFits, Stored

(* What changes nothing that is counted changes nothing.                   *)
LEMMA NothingDone ==
  ASSUME UNCHANGED vars
  PROVE  /\ kv' = kv /\ reading' = reading /\ todo' = todo /\ crashes' = crashes
         /\ scene' = scene /\ bounds' = bounds
         /\ \A key : Stored(key)' <=> Stored(key)
         /\ \A key : Listed(key)' = Listed(key)
         /\ \A key : Awaited(key)' <=> Awaited(key)
         /\ \A key : Upcoming(key)' = Upcoming(key)
         /\ \A key : Versions(key)' = Versions(key)
<1>1. /\ kv' = kv /\ reading' = reading /\ todo' = todo /\ crashes' = crashes
      /\ scene' = scene /\ bounds' = bounds
  BY DEF vars, bounds
<1>2. /\ \A key : Stored(key)' <=> Stored(key)
      /\ \A key : Listed(key)' = Listed(key)
      /\ \A key : Awaited(key)' <=> Awaited(key)
      /\ \A key : Upcoming(key)' = Upcoming(key)
  BY <1>1 DEF Stored, Listed, Awaited, Upcoming
<1>3. \A key : Versions(key)' = Versions(key)
  BY <1>1, <1>2 DEF Versions
<1>4. QED
  BY <1>1, <1>2, <1>3

(* The steps there are.                                                    *)
WorkerStep(r) == PingStep(r) \/ FieldStep(r) \/ ObjectStep(r) \/ EntryStep(r)

AllKinds == PingFamily \union FieldFamily \union ObjectFamily \union EntryFamily
AllOps == PingOps \union FieldOps \union ObjectOps \union EntryOps

LEMMA WorkerDoes ==
  ASSUME IInv, NEW r \in Requests, WorkerStep(r)
  PROVE  Does(r, AllKinds, AllOps)
<1>1. \/ Does(r, PingFamily, PingOps) \/ Does(r, FieldFamily, FieldOps)
      \/ Does(r, ObjectFamily, ObjectOps) \/ Does(r, EntryFamily, EntryOps)
  BY PingDoes, FieldDoes, ObjectDoes, EntryDoes DEF WorkerStep
<1>2. QED
  BY <1>1, DoesMore DEF AllKinds, AllOps

LEMMA StepsAre ==
  ASSUME [Next]_vars
  PROVE  \/ \E r \in Requests : WorkerStep(r) \/ Put(r) \/ Crash(r)
         \/ \E t \in Chosen("setup") : ExpireToken(t)
         \/ UNCHANGED vars
BY DEF Next, WorkerStep

-----------------------------------------------------------------------------
(* One request at a time.                                                  *)
LEMMA AloneIsSole ==
  ASSUME NEW r \in Requests, Turn(r), \A q \in Requests : q # r => Idle(q)' = Idle(q)
  PROVE  Sole'
BY DEF Sole, Turn

LEMMA InitSole ==
  ASSUME Init
  PROVE  Sole
<1>1. \A r \in Requests : Idle(r)
  BY DEF Init, Idle
<1>2. QED
  BY <1>1 DEF Sole

LEMMA NextSole ==
  ASSUME IInv, Sole, [Next]_vars
  PROVE  Sole'
<1>1. bounds' = bounds /\ (~bounds.oneByOne => Sole')
  <2>1. scene' = scene
    <3>1. \A r \in Requests : WorkerStep(r) => scene' = scene
      BY WorkerDoes DEF Does
    <3>2. QED
      BY <3>1, StepsAre DEF Put, Crash, ExpireToken, vars
  <2>2. QED
    BY <2>1 DEF bounds, Sole
<1>2. ASSUME NEW r \in Requests, WorkerStep(r), bounds.oneByOne PROVE Sole'
  <2>1. Does(r, AllKinds, AllOps)
    BY <1>2, WorkerDoes
  <2>2. Turn(r)
    BY <1>2, <2>1, InTurn DEF Does
  <2>3. \A q \in Requests : q # r => Idle(q)' = Idle(q)
    BY <2>1 DEF Does, Idle
  <2>4. QED
    BY <2>2, <2>3, AloneIsSole
<1>3. ASSUME NEW r \in Requests, Put(r), bounds.oneByOne PROVE Sole'
  <2>1. /\ ~Idle(r) /\ reading' = reading
        /\ \A q \in Requests : q # r => todo'[q] = todo[q]
    BY <1>3, PutVersions
  <2>2. Turn(r)
    BY <1>3, <2>1, InTurn
  <2>3. \A q \in Requests : q # r => Idle(q)' = Idle(q)
    BY <2>1 DEF Idle
  <2>4. QED
    BY <2>2, <2>3, AloneIsSole
<1>4. ASSUME NEW r \in Requests, Crash(r), bounds.oneByOne PROVE Sole'
  <2>1. Turn(r)
    BY <1>4, InTurn DEF Crash
  <2>2. \A q \in Requests : q # r => Idle(q)' = Idle(q)
    BY <1>4, CrashVersions DEF Idle
  <2>3. QED
    BY <2>1, <2>2, AloneIsSole
<1>5. ASSUME reading' = reading, todo' = todo PROVE Sole'
  BY <1>1, <1>5 DEF Sole, Idle
<1>6. (\E t \in Chosen("setup") : ExpireToken(t)) \/ UNCHANGED vars => Sole'
  BY <1>5 DEF ExpireToken, vars
<1>7. QED
  BY <1>1, <1>2, <1>3, <1>4, <1>6, StepsAre

(* One request at a time is in progress, and the others are idle.          *)
THEOREM TurnsTaken == Spec => []Sole
<1>1. Init => Sole
  BY InitSole
<1>2. IInv /\ Sole /\ [Next]_vars => Sole'
  BY NextSole
<1>3. QED
  BY <1>1, <1>2, WorkersFit, PTL DEF Spec

-----------------------------------------------------------------------------
(* Evidence of a proof for an identity.                                    *)

LEMMA KindsAreApart ==
  /\ "evidence-of" \notin PingFamily \union FieldFamily \union EntryFamily
       \union ClaimFamily \union ProofFamily
  /\ "ican-evidence" \notin PingFamily \union FieldFamily \union EntryFamily
       \union ClaimFamily \union ProofFamily \union DullKinds
BY DEF PingFamily, MovingFamily, ThrottleFamily, FieldFamily, NearFamily, EntryFamily, ClaimFamily, ProofFamily,
       DullKinds, IndexKinds

(* There is no more evidence, and who has some keeps it.                   *)
EvidenceStays ==
  /\ \A p, i : EvidenceFor(p, i)' \subseteq EvidenceFor(p, i)
  /\ \A p, i : HasEvidence(p, i) => HasEvidence(p, i)'

LEMMA EvidenceKept ==
  ASSUME IInv, EvidenceTurns, bounds.oneByOne, bounds' = bounds,
         EvidenceStays \/ ( /\ \A p, i : EvidenceFor(p, i)' \subseteq EvidenceFor(p, i)
                            /\ crashes' = crashes + 1 ),
         crashes' \in {crashes, crashes + 1},
         \A r \in Requests : \A n \in DOMAIN todo'[r] :
           IsWrite(todo'[r][n]) /\ todo'[r][n].key[1] = "evidence-of" => todo'[r][n].value # {}
  PROVE  EvidenceTurns'
<1>1. crashes \in Nat /\ crashes' \in Nat
  BY CrashesAre
<1>2. ASSUME NEW p \in bounds.pool["handoff-proof"], NEW i \in Identities
      PROVE  AtMost(EvidenceFor(p, i)', IF HasEvidence(p, i)' THEN crashes' + 1 ELSE crashes')
  <2>1. AtMost(EvidenceFor(p, i), IF HasEvidence(p, i) THEN crashes + 1 ELSE crashes)
    BY <1>2 DEF EvidenceTurns
  <2>2. EvidenceFor(p, i)' \subseteq EvidenceFor(p, i)
    BY DEF EvidenceStays
  <2>3. PICK m : m = IF HasEvidence(p, i) THEN crashes + 1 ELSE crashes
    OBVIOUS
  <2>4. PICK n : n = IF HasEvidence(p, i)' THEN crashes' + 1 ELSE crashes'
    OBVIOUS
  <2>5. m \in Int /\ n \in Int /\ m <= n
    <3>1. m \in {crashes, crashes + 1} /\ n \in {crashes', crashes' + 1}
      BY <2>3, <2>4
    <3>2. CASE crashes' = crashes + 1
      BY <1>1, <3>1, <3>2
    <3>3. CASE crashes' = crashes /\ HasEvidence(p, i) /\ HasEvidence(p, i)'
      BY <1>1, <2>3, <2>4, <3>3
    <3>4. CASE crashes' = crashes /\ ~HasEvidence(p, i)
      <4>1. m = crashes
        BY <2>3, <3>4
      <4>2. QED
        BY <1>1, <3>1, <3>4, <4>1
    <3>5. QED
      <4>1. crashes' = crashes => EvidenceStays
        BY <1>1
      <4>2. crashes' = crashes /\ HasEvidence(p, i) => HasEvidence(p, i)'
        BY <4>1 DEF EvidenceStays
      <4>3. QED
        BY <3>2, <3>3, <3>4, <4>2
  <2>6. AtMost(EvidenceFor(p, i)', n)
    BY <2>1, <2>2, <2>3, <2>5, AtMostFewer
  <2>7. QED
    BY <2>4, <2>6
<1>3. QED
  BY <1>2 DEF EvidenceTurns, AtMost

(* Evidence is of the records under its key.                               *)
LEMMA EvidenceIs ==
  ASSUME NEW p, NEW i, bounds' = bounds
  PROVE  /\ (\A e : Versions(Evidence(e))' \subseteq Versions(Evidence(e))) =>
              EvidenceFor(p, i)' \subseteq EvidenceFor(p, i)
         /\ Listed(EvidenceOf(p, i))' # {} => HasEvidence(p, i)'
         /\ Awaited(EvidenceOf(p, i))' => HasEvidence(p, i)'
BY DEF EvidenceFor, HasEvidence

LEMMA EvidenceOthers ==
  ASSUME IInv, EvidenceTurns, bounds.oneByOne, NEW r \in Requests, NEW kinds, NEW ops,
         Does(r, kinds, ops), "evidence-of" \notin kinds, "ican-evidence" \notin kinds
  PROVE  EvidenceTurns'
<1>1. /\ bounds' = bounds /\ crashes' = crashes
      /\ \A key : Listed(key)' = Listed(key)
      /\ \A key : key[1] \notin kinds =>
           (Awaited(key)' <=> Awaited(key)) /\ Versions(key)' = Versions(key)
  BY DoesVersions
<1>2. \A e : Versions(Evidence(e))' = Versions(Evidence(e))
  BY <1>1, MoreKeysAre
<1>3. \A p, i : /\ Listed(EvidenceOf(p, i))' = Listed(EvidenceOf(p, i))
                /\ Awaited(EvidenceOf(p, i))' <=> Awaited(EvidenceOf(p, i))
  BY <1>1, IndexKeysAre
<1>4. EvidenceStays
  <2>1. ASSUME NEW p, NEW i PROVE EvidenceFor(p, i)' \subseteq EvidenceFor(p, i)
    BY <1>1, <1>2, EvidenceIs
  <2>2. \A p, i : HasEvidence(p, i) => HasEvidence(p, i)'
    BY <1>3 DEF HasEvidence
  <2>3. QED
    BY <2>1, <2>2 DEF EvidenceStays
<1>5. \A q \in Requests : \A n \in DOMAIN todo'[q] :
        IsWrite(todo'[q][n]) /\ todo'[q][n].key[1] = "evidence-of" => todo'[q][n].value # {}
  BY DEF Does, EvidenceTurns
<1>6. QED
  BY <1>1, <1>4, <1>5, EvidenceKept

(* Who attaches evidence found none, so that there was none in excess.     *)
LEMMA EvidenceAttached ==
  ASSUME IInv, EvidenceTurns, bounds.oneByOne, NEW r \in Requests, Turn(r), AttachEvidence(r)
  PROVE  EvidenceTurns'
<1>1. /\ Does(r, EvidenceFamily, {}) /\ ~Idle(r)
      /\ \/ DOMAIN todo'[r] = {}
         \/ \E e, p, i, v, a, b :
              /\ Listed(EvidenceOf(p, i)) = {}
              /\ v.proof = p /\ v.identity = i
              /\ a = Writes(Evidence(e), v) /\ b = Appends(EvidenceOf(p, i), e)
              /\ DOMAIN todo'[r] = {1, 2} /\ todo'[r][1] = a /\ todo'[r][2] = b
  BY AttachEvidenceDoes
<1>2. CASE DOMAIN todo'[r] = {}
  <2>1. Does(r, {}, {})
    BY <1>1, <1>2 DEF Does
  <2>2. QED
    BY <2>1, EvidenceOthers
<1>3. CASE DOMAIN todo'[r] # {}
  <2>1. PICK e, p, i, v, a, b :
          /\ Listed(EvidenceOf(p, i)) = {}
          /\ v.proof = p /\ v.identity = i
          /\ a = Writes(Evidence(e), v) /\ b = Appends(EvidenceOf(p, i), e)
          /\ DOMAIN todo'[r] = {1, 2} /\ todo'[r][1] = a /\ todo'[r][2] = b
    BY <1>1, <1>3
  <2>2. /\ bounds' = bounds /\ crashes' = crashes /\ crashes \in Nat
        /\ \A key : Listed(key)' = Listed(key)
        /\ \A key : Awaited(key) => Awaited(key)'
    BY <1>1, DoesVersions, CrashesAre
  <2>3. /\ a.key = Evidence(e) /\ a.value = v /\ IsWrite(a)
        /\ b.key = EvidenceOf(p, i) /\ ~IsWrite(b)
    BY <2>1, PutsAre
  <2>4. ASSUME NEW x, NEW u, u \in Versions(Evidence(x))'
        PROVE  u \in Versions(Evidence(x)) \/ (x = e /\ u = v)
    <3>1. \/ u \in Versions(Evidence(x))
          \/ \E n \in DOMAIN todo'[r] : /\ IsWrite(todo'[r][n]) /\ todo'[r][n].key = Evidence(x)
                                        /\ todo'[r][n].value = u
      BY <1>1, <2>4, PlanVersions
    <3>2. Evidence(e) = Evidence(x) => e = x
      BY DEF Evidence
    <3>3. QED
      BY <2>1, <2>3, <3>1, <3>2
  <2>5. Awaited(EvidenceOf(p, i))' /\ ~Awaited(EvidenceOf(p, i))
    <3>1. DOMAIN todo[r] = {}
      BY <1>1, ListsAre DEF Does
    <3>2. ~Awaited(EvidenceOf(p, i))
      BY <3>1, TurnHas
    <3>3. QED
      BY <2>1, <2>3, <3>2 DEF Awaited
  <2>6. ~HasEvidence(p, i) /\ HasEvidence(p, i)'
    BY <2>1, <2>5 DEF HasEvidence
  <2>7. ASSUME NEW p2 \in bounds.pool["handoff-proof"], NEW i2 \in Identities
        PROVE  AtMost(EvidenceFor(p2, i2)',
                      IF HasEvidence(p2, i2)' THEN crashes' + 1 ELSE crashes')
    <3>1. AtMost(EvidenceFor(p2, i2), IF HasEvidence(p2, i2) THEN crashes + 1 ELSE crashes)
      BY <2>7 DEF EvidenceTurns
    <3>2. CASE p2 = p /\ i2 = i
      <4>1. EvidenceFor(p, i)' \subseteq EvidenceFor(p, i) \union {e}
        BY <2>2, <2>4 DEF EvidenceFor
      <4>2. AtMost(EvidenceFor(p, i), crashes)
        <5>1. p \in bounds.pool["handoff-proof"] /\ i \in Identities
          BY <2>7, <3>2
        <5>2. AtMost(EvidenceFor(p, i), IF HasEvidence(p, i) THEN crashes + 1 ELSE crashes)
          BY <5>1 DEF EvidenceTurns
        <5>3. PICK m : m = IF HasEvidence(p, i) THEN crashes + 1 ELSE crashes
          OBVIOUS
        <5>4. m = crashes /\ AtMost(EvidenceFor(p, i), m)
          BY <2>6, <5>2, <5>3
        <5>5. QED
          BY <5>4
      <4>3. AtMost(EvidenceFor(p, i)', crashes + 1)
        <5>1. PICK S : S = EvidenceFor(p, i)
          OBVIOUS
        <5>2. PICK T : T = EvidenceFor(p, i)'
          OBVIOUS
        <5>3. PICK m \in Int : m = crashes
          BY <2>2
        <5>4. AtMost(S, m) /\ T \subseteq S \union {e}
          BY <4>1, <4>2, <5>1, <5>2, <5>3
        <5>5. AtMost(T, m + 1)
          BY <5>4, AtMostOneMore
        <5>6. QED
          BY <5>2, <5>3, <5>5
      <4>4. EvidenceFor(p2, i2)' = EvidenceFor(p, i)' /\ HasEvidence(p2, i2)'
        BY <2>6, <3>2
      <4>5. QED
        BY <2>2, <4>3, <4>4
    <3>3. CASE ~(p2 = p /\ i2 = i)
      <4>1. EvidenceFor(p2, i2)' \subseteq EvidenceFor(p2, i2)
        BY <2>1, <2>2, <2>4, <3>3 DEF EvidenceFor
      <4>2. HasEvidence(p2, i2) => HasEvidence(p2, i2)'
        BY <2>2 DEF HasEvidence
      <4>3. PICK m : m = IF HasEvidence(p2, i2) THEN crashes + 1 ELSE crashes
        OBVIOUS
      <4>4. PICK n : n = IF HasEvidence(p2, i2)' THEN crashes' + 1 ELSE crashes'
        OBVIOUS
      <4>5. m \in Int /\ n \in Int /\ m <= n
        BY <2>2, <4>2, <4>3, <4>4
      <4>6. AtMost(EvidenceFor(p2, i2)', n)
        BY <3>1, <4>1, <4>3, <4>5, AtMostFewer
      <4>7. QED
        BY <4>4, <4>6
    <3>4. QED
      BY <3>2, <3>3
  <2>8. \A q \in Requests : \A n \in DOMAIN todo'[q] :
          IsWrite(todo'[q][n]) /\ todo'[q][n].key[1] = "evidence-of" => todo'[q][n].value # {}
    <3>1. a.key[1] = "ican-evidence"
      BY <2>3, MoreKeysAre
    <3>2. QED
      BY <1>1, <2>1, <2>3, <3>1 DEF Does, EvidenceTurns
  <2>9. QED
    BY <2>2, <2>7, <2>8 DEF EvidenceTurns, AtMost
<1>4. QED
  BY <1>2, <1>3

(* A put makes the mark it stands for.                                     *)
LEMMA EvidencePut ==
  ASSUME IInv, EvidenceTurns, bounds.oneByOne, NEW r \in Requests, Put(r)
  PROVE  EvidenceTurns'
<1>1. /\ 1 \in DOMAIN todo[r] /\ bounds' = bounds /\ crashes' = crashes
      /\ \A q \in Requests : q # r => todo'[q] = todo[q]
      /\ \A key : key[1] \notin DullKinds => Versions(key)' \subseteq Versions(key)
  BY PutVersions
<1>2. ASSUME NEW p, NEW i PROVE EvidenceFor(p, i)' \subseteq EvidenceFor(p, i)
  <2>1. \A e : Versions(Evidence(e))' \subseteq Versions(Evidence(e))
    BY <1>1, MoreKeysAre, KindsAreApart
  <2>2. QED
    BY <1>1, <2>1, EvidenceIs
<1>3. ASSUME NEW p, NEW i, HasEvidence(p, i) PROVE HasEvidence(p, i)'
  <2>1. PICK key : key = EvidenceOf(p, i)
    OBVIOUS
  <2>2. key[1] = "evidence-of" /\ (Listed(key) # {} \/ Awaited(key))
    BY <1>3, <2>1, IndexKeysAre DEF HasEvidence
  <2>3. CASE Applied(r) /\ todo[r][1].key = key
    <3>1. todo[r][1].value # {}
      BY <1>1, <2>2, <2>3 DEF Applied, EvidenceTurns
    <3>2. Listed(key)' # {}
      BY <2>3, <3>1 DEF Applied, Listed, Stored
    <3>3. QED
      BY <1>1, <2>1, <3>2, EvidenceIs
  <2>4. CASE ~(Applied(r) /\ todo[r][1].key = key)
    <3>1. Listed(key)' = Listed(key) /\ (Awaited(key) => Awaited(key)')
      BY <2>2, <2>4, PutAwaits DEF Forgone
    <3>2. QED
      BY <1>1, <2>1, <2>2, <3>1, EvidenceIs
  <2>5. QED
    BY <2>3, <2>4
<1>4. ASSUME NEW q \in Requests, NEW n \in DOMAIN todo'[q], IsWrite(todo'[q][n]),
             todo'[q][n].key[1] = "evidence-of"
      PROVE  todo'[q][n].value # {}
  <2>1. ASSUME NEW m \in DOMAIN todo[q], todo'[q][n] = todo[q][m]
        PROVE  todo'[q][n].value # {}
    BY <1>4, <2>1 DEF EvidenceTurns
  <2>2. CASE q # r
    BY <1>1, <1>4, <2>1, <2>2
  <2>3. ASSUME q = r, Leaving(todo[r], todo'[r]) PROVE todo'[q][n].value # {}
    BY <1>4, <2>1, <2>3 DEF Leaving, Shifts
  <2>4. ASSUME q = r, NEW w, Resolved(r, w) PROVE todo'[q][n].value # {}
    <3>1. CASE n = 1
      <4>1. todo'[r][1] = w /\ w.key[1] = "evidence-of" /\ w.key = todo[r][1].key
        BY <1>4, <2>4, <3>1 DEF Resolved, Pushes
      <4>2. w.value = Listed(w.key) \union {todo[r][1].adds}
        BY <2>4, <4>1 DEF Resolved
      <4>3. QED
        BY <2>4, <3>1, <4>1, <4>2
    <3>2. CASE n # 1
      BY <1>4, <2>1, <2>4, <3>2 DEF Resolved, Pushes
    <3>3. QED
      BY <3>1, <3>2
  <2>5. QED
    BY <2>2, <2>3, <2>4, PutEnds DEF Applied, Dropped, Deleted
<1>5. EvidenceStays
  BY <1>2, <1>3 DEF EvidenceStays
<1>6. QED
  BY <1>1, <1>4, <1>5, EvidenceKept

LEMMA EvidenceStep ==
  ASSUME IInv, Sole, EvidenceTurns, [Next]_vars
  PROVE  EvidenceTurns'
<1>1. bounds' = bounds
  BY StepsAre, WorkerDoes, DoesVersions, PutVersions, CrashVersions, ExpireVersions, NothingDone
<1>2. CASE ~bounds.oneByOne
  BY <1>1, <1>2 DEF EvidenceTurns
<1>3. ASSUME bounds.oneByOne, NEW r \in Requests, WorkerStep(r) PROVE EvidenceTurns'
  <2>1. CASE AttachEvidence(r)
    <3>1. Turn(r)
      BY <1>3, <2>1, AttachEvidenceDoes, InTurn
    <3>2. QED
      BY <1>3, <2>1, <3>1, EvidenceAttached
  <2>2. CASE ~AttachEvidence(r)
    <3>1. \/ Does(r, PingFamily, PingOps) \/ Does(r, FieldFamily, FieldOps)
          \/ Does(r, ClaimFamily, ClaimOps) \/ Does(r, ProofFamily, ProofOps)
          \/ Does(r, EntryFamily, EntryOps)
      BY <1>3, <2>2, PingDoes, FieldDoes, ClaimDoes, ProofDoes, EntryDoes
      DEF WorkerStep, ObjectStep
    <3>2. QED
      BY <1>3, <3>1, EvidenceOthers, KindsAreApart
  <2>3. QED
    BY <2>1, <2>2
<1>4. ASSUME bounds.oneByOne, NEW r \in Requests, Put(r) PROVE EvidenceTurns'
  BY <1>4, EvidencePut
<1>5. ASSUME bounds.oneByOne, NEW r \in Requests, Crash(r) PROVE EvidenceTurns'
  <2>1. /\ bounds' = bounds /\ crashes' = crashes + 1 /\ todo'[r] = <<>>
        /\ \A q \in Requests : q # r => todo'[q] = todo[q]
        /\ \A key : Versions(key)' \subseteq Versions(key)
    BY <1>5, CrashVersions
  <2>2. ASSUME NEW p, NEW i PROVE EvidenceFor(p, i)' \subseteq EvidenceFor(p, i)
    BY <2>1, EvidenceIs
  <2>3. \A n \in DOMAIN todo'[r] : FALSE
    BY <2>1, ListsAre
  <2>4. \A q \in Requests : \A n \in DOMAIN todo'[q] :
          IsWrite(todo'[q][n]) /\ todo'[q][n].key[1] = "evidence-of" => todo'[q][n].value # {}
    BY <1>5, <2>1, <2>3 DEF EvidenceTurns
  <2>5. QED
    BY <1>5, <2>1, <2>2, <2>4, EvidenceKept
<1>6. ASSUME bounds.oneByOne, bounds' = bounds, crashes' = crashes, todo' = todo,
             \A key : Awaited(key)' <=> Awaited(key),
             \A key : key[1] # "setup" => Listed(key)' = Listed(key) /\ Versions(key)' = Versions(key)
      PROVE  EvidenceTurns'
  <2>1. \A e : Versions(Evidence(e))' = Versions(Evidence(e))
    BY <1>6, MoreKeysAre
  <2>2. ASSUME NEW p, NEW i PROVE EvidenceFor(p, i)' \subseteq EvidenceFor(p, i)
    BY <1>6, <2>1, EvidenceIs
  <2>3. \A p, i : HasEvidence(p, i) => HasEvidence(p, i)'
    BY <1>6, IndexKeysAre DEF HasEvidence
  <2>4. EvidenceStays
    BY <2>2, <2>3 DEF EvidenceStays
  <2>5. \A q \in Requests : \A n \in DOMAIN todo'[q] :
          IsWrite(todo'[q][n]) /\ todo'[q][n].key[1] = "evidence-of" => todo'[q][n].value # {}
    BY <1>6 DEF EvidenceTurns
  <2>6. QED
    BY <1>6, <2>4, <2>5, EvidenceKept
<1>7. ASSUME bounds.oneByOne, NEW t \in Chosen("setup"), ExpireToken(t) PROVE EvidenceTurns'
  BY <1>6, <1>7, ExpireVersions, MoreKeysAre
<1>8. ASSUME bounds.oneByOne, UNCHANGED vars PROVE EvidenceTurns'
  BY <1>6, <1>8, NothingDone
<1>9. QED
  BY <1>2, <1>3, <1>4, <1>5, <1>7, <1>8, StepsAre

LEMMA InitEvidence ==
  ASSUME Init
  PROVE  EvidenceTurns
<1>1. /\ \A key : Stored(key) => key[1] \in {"relevance", "object", "object-claim", "claims-by"}
      /\ \A r \in Requests : DOMAIN todo[r] = {}
      /\ crashes = 0
  BY InitHas
<1>2. ASSUME NEW p, NEW i PROVE EvidenceFor(p, i) = {}
  <2>1. \A e : ~Stored(Evidence(e))
    BY <1>1, MoreKeysAre
  <2>2. \A e : Versions(Evidence(e)) = {}
    BY <1>1, <2>1, VersionsAre
  <2>3. QED
    BY <2>2 DEF EvidenceFor
<1>3. \A p, i : ~HasEvidence(p, i)
  <2>1. ASSUME NEW p, NEW i, HasEvidence(p, i) PROVE FALSE
    <3>1. ~Stored(EvidenceOf(p, i))
      BY <1>1, IndexKeysAre
    <3>2. QED
      BY <1>1, <2>1, <3>1 DEF HasEvidence, Listed, Awaited
  <2>2. QED
    BY <2>1
<1>4. \A p, i : AtMost(EvidenceFor(p, i), IF HasEvidence(p, i) THEN crashes + 1 ELSE crashes)
  BY <1>1, <1>2, <1>3, NoneAtMost
<1>5. QED
  BY <1>1, <1>4 DEF EvidenceTurns

LEMMA EvidenceCounted ==
  ASSUME IInv, EvidenceTurns
  PROVE  EvidenceOnce
<1>1. ASSUME bounds.oneByOne,
             NEW p \in bounds.pool["handoff-proof"], NEW i \in Identities,
             NEW S, S = {e \in bounds.pool["ican-evidence"] :
                           /\ Stored(Evidence(e))
                           /\ kv[Evidence(e)].proof = p
                           /\ kv[Evidence(e)].identity = i}
      PROVE  Cardinality(S) <= 1 + crashes
  <2>1. S \subseteq EvidenceFor(p, i)
    BY <1>1 DEF EvidenceFor, Versions
  <2>2. PICK n : n = IF HasEvidence(p, i) THEN crashes + 1 ELSE crashes
    OBVIOUS
  <2>3. crashes \in Nat /\ n \in Int /\ crashes + 1 \in Int /\ n <= crashes + 1
    BY <2>2, CrashesAre
  <2>4. AtMost(EvidenceFor(p, i), n)
    BY <1>1, <2>2 DEF EvidenceTurns
  <2>5. AtMost(S, crashes + 1)
    BY <2>1, <2>3, <2>4, AtMostFewer
  <2>6. IsFiniteSet(S) /\ Cardinality(S) <= crashes + 1
    BY <2>5 DEF AtMost
  <2>7. QED
    BY <2>3, <2>6, FS_CardinalityType
<1>2. QED
  BY <1>1 DEF EvidenceOnce, Chosen

(* Where requests come one at a time, a proof is evidence for an identity
   once, and once more for each request cut off: attaching finds the index
   that lists what was attached, and writes it last.                       *)
THEOREM TurnsEvidence == Spec => []EvidenceOnce
<1>1. Init => EvidenceTurns
  BY InitEvidence
<1>2. IInv /\ Sole /\ EvidenceTurns /\ [Next]_vars => EvidenceTurns'
  BY EvidenceStep
<1>3. IInv /\ EvidenceTurns => EvidenceOnce
  BY EvidenceCounted
<1>4. QED
  BY <1>1, <1>2, <1>3, WorkersFit, TurnsTaken, PTL DEF Spec

-----------------------------------------------------------------------------
(* Sessions that a setup token got.                                        *)

(* No token got another session, and those that are used up remain so.     *)
TokenStays ==
  /\ \A t : SessionsOf(t)' \subseteq SessionsOf(t)
  /\ \A t \in bounds.pool["setup"] : Used(t) => Used(t)'

LEMMA TokenKept ==
  ASSUME IInv, TokenTurns, bounds.oneByOne, bounds' = bounds,
         \A t : SessionsOf(t)' \subseteq SessionsOf(t),
         crashes' \in {crashes, crashes + 1},
         crashes' = crashes => TokenStays,
         TokenUnread'
  PROVE  TokenTurns'
<1>1. crashes \in Nat
  BY CrashesAre
<1>2. ASSUME NEW t \in bounds.pool["setup"]
      PROVE  AtMost(SessionsOf(t)', IF Used(t)' THEN crashes' + 1 ELSE crashes')
  <2>1. PICK m : m = IF Used(t) THEN crashes + 1 ELSE crashes
    OBVIOUS
  <2>2. PICK n : n = IF Used(t)' THEN crashes' + 1 ELSE crashes'
    OBVIOUS
  <2>3. AtMost(SessionsOf(t), m)
    BY <1>2, <2>1 DEF TokenTurns
  <2>4. crashes' = crashes /\ Used(t) => Used(t)'
    BY <1>2 DEF TokenStays
  <2>5. crashes' = crashes /\ m = crashes + 1 => n = crashes' + 1
    BY <1>1, <2>1, <2>2, <2>4
  <2>6. m \in {crashes, crashes + 1} /\ n \in {crashes', crashes' + 1}
    BY <2>1, <2>2
  <2>7. SessionsOf(t)' \subseteq SessionsOf(t)
    OBVIOUS
  <2>8. AtMost(SessionsOf(t)', n)
    <3>1. PICK S : S = SessionsOf(t)
      OBVIOUS
    <3>2. PICK T : T = SessionsOf(t)'
      OBVIOUS
    <3>3. PICK d \in {crashes, crashes + 1} : d = crashes'
      OBVIOUS
    <3>4. /\ AtMost(S, m) /\ T \subseteq S /\ n \in {d, d + 1}
          /\ d = crashes /\ m = crashes + 1 => n = d + 1
      BY <2>3, <2>5, <2>6, <2>7, <3>1, <3>2, <3>3
    <3>5. AtMost(T, n)
      BY <1>1, <2>6, <3>4, CountKept
    <3>6. QED
      BY <3>2, <3>5
  <2>9. QED
    BY <2>2, <2>8
<1>3. QED
  BY <1>2 DEF TokenTurns

(* Sessions are of the records under their keys.                           *)
LEMMA SessionsAre ==
  ASSUME NEW t, bounds' = bounds,
         \A s : \A v \in Versions(Session(s))' :
           v \in Versions(Session(s)) \/ v.by # "setup"
  PROVE  SessionsOf(t)' \subseteq SessionsOf(t)
BY DEF SessionsOf

(* What makes no such session and uses up no token.                        *)
LEMMA TokenOthers ==
  ASSUME IInv, TokenTurns, bounds.oneByOne, NEW r \in Requests, NEW kinds, NEW ops,
         Does(r, kinds, ops), "setup" \notin kinds, "set" \notin ops,
         "session" \notin kinds \/ ByLogin(todo'[r])
  PROVE  TokenTurns'
<1>1. /\ bounds' = bounds /\ crashes' = crashes
      /\ \A key : key[1] \notin kinds => Versions(key)' = Versions(key)
  BY DoesVersions
<1>2. ASSUME NEW s, NEW v \in Versions(Session(s))'
      PROVE  v \in Versions(Session(s)) \/ v.by # "setup"
  <2>1. CASE "session" \notin kinds
    BY <1>1, <1>2, <2>1, MoreKeysAre
  <2>2. CASE ByLogin(todo'[r])
    BY <1>2, <2>2, PlanVersions DEF ByLogin
  <2>3. QED
    BY <2>1, <2>2
<1>3. \A t : Used(t)' <=> Used(t)
  BY <1>1, MoreKeysAre DEF Used
<1>4. \A t : SessionsOf(t)' \subseteq SessionsOf(t)
  BY <1>1, <1>2, SessionsAre
<1>5. TokenUnread'
  <2>1. ASSUME NEW q \in Requests, NEW t \in bounds.pool["setup"],
               reading'[q] # None, reading'[q].op = "set", reading'[q].id = t
        PROVE  ~Used(t)'
    <3>1. reading'[q] = reading[q]
      BY <2>1 DEF Does
    <3>2. ~Used(t)
      BY <2>1, <3>1 DEF TokenTurns, TokenUnread
    <3>3. QED
      BY <1>3, <3>2
  <2>2. QED
    BY <1>1, <2>1 DEF TokenUnread
<1>6. QED
  BY <1>1, <1>3, <1>4, <1>5, TokenKept DEF TokenStays

(* The steps of other workers are about other records.                     *)
LEMMA EntryIsApart ==
  /\ {"setup", "session"} \intersect (PingFamily \union FieldFamily \union ObjectFamily) = {}
  /\ "set" \notin PingOps \union FieldOps \union ObjectOps
BY DEF PingFamily, MovingFamily, ThrottleFamily, FieldFamily, NearFamily, ObjectFamily, ClaimFamily, ProofFamily,
       EvidenceFamily, PingOps, FieldOps, NearOps, ObjectOps, ClaimOps, ProofOps

(* When no request is reading none is at the get of a token.               *)
LEMMA NoneReads ==
  ASSUME IInv, NEW r \in Requests, Turn(r), reading'[r] = None,
         \A q \in Requests : q # r => reading'[q] = reading[q]
  PROVE  TokenUnread'
<1>1. \A q \in Requests : q # r => reading'[q] = None
  BY IdleHas DEF Turn
<1>2. QED
  BY <1>1 DEF TokenUnread

LEMMA TokenSent ==
  ASSUME IInv, TokenTurns, bounds.oneByOne, NEW r \in Requests, Turn(r), SendVerification(r)
  PROVE  TokenTurns'
<1>1. PICK t0, v0, a :
        /\ a = Writes(Setup(t0), v0) /\ v0 # Consumed
        /\ Does(r, EntryFamily, {}) /\ reading'[r] = None
        /\ DOMAIN todo'[r] = {1} /\ todo'[r][1] = a
  BY SendDoes
<1>2. /\ bounds' = bounds /\ crashes' = crashes
      /\ \A key : Versions(key) \subseteq Versions(key)'
  BY <1>1, DoesVersions
<1>3. a.key[1] = "setup"
  BY <1>1, PutsAre, MoreKeysAre
<1>4. \A s : \A v \in Versions(Session(s))' : v \in Versions(Session(s))
  BY <1>1, <1>3, MoreKeysAre, PlanVersions
<1>5. \A t : SessionsOf(t)' \subseteq SessionsOf(t)
  BY <1>2, <1>4, SessionsAre
<1>6. \A t : Used(t) => Used(t)'
  BY <1>2 DEF Used
<1>7. TokenUnread'
  BY <1>1, NoneReads DEF Does
<1>8. QED
  BY <1>2, <1>5, <1>6, <1>7, TokenKept DEF TokenStays

LEMMA TokenRead ==
  ASSUME IInv, TokenTurns, bounds.oneByOne, NEW r \in Requests, Turn(r), ReadSetup(r)
  PROVE  TokenTurns'
<1>1. /\ Does(r, {}, EntryOps) /\ todo'[r] = <<>>
      /\ Live(reading'[r].id)
  BY ReadSetupDoes
<1>2. /\ bounds' = bounds /\ crashes' = crashes
      /\ \A key : Versions(key)' = Versions(key)
  BY <1>1, DoesVersions
<1>3. \A t : SessionsOf(t)' = SessionsOf(t) /\ (Used(t)' <=> Used(t))
  BY <1>2 DEF SessionsOf, Used
<1>4. PICK t : t = reading'[r].id
  OBVIOUS
<1>5. ~Used(t)
  <2>1. DOMAIN todo[r] = {}
    BY <1>1, ListsAre DEF Does
  <2>2. \A v : v \notin Upcoming(Setup(t))
    BY <2>1, TurnHas
  <2>3. QED
    BY <1>1, <1>4, <2>2, VersionsAre DEF Used, Live
<1>6. TokenUnread'
  <2>1. ~Used(t)'
    BY <1>3, <1>5
  <2>2. \A q \in Requests : q # r => reading'[q] = None
    BY <1>1, IdleHas DEF Does, Turn
  <2>3. QED
    BY <1>2, <1>4, <2>1, <2>2 DEF TokenUnread
<1>7. QED
  BY <1>2, <1>3, <1>6, TokenKept DEF TokenStays

(* Whoever sets a password found the token live, so that no session was in
   excess.                                                                 *)
LEMMA TokenTurned ==
  ASSUME IInv, TokenTurns, bounds.oneByOne, NEW r \in Requests, Turn(r), SetPassword(r)
  PROVE  TokenTurns'
<1>1. PICK t0 : t0 = reading[r].id
  OBVIOUS
<1>2. /\ HasRead(r, "set") /\ Does(r, EntryFamily, {}) /\ reading'[r] = None
  BY SetPasswordDoes
<1>3. PICK s0, v0, a, b, c, d :
        /\ a.key[1] = "user" /\ b.key[1] = "user-email"
        /\ c = Writes(Session(s0), v0) /\ v0.identity = t0
        /\ d = Writes(Setup(t0), Consumed)
        /\ DOMAIN todo'[r] = {1, 2, 3, 4}
        /\ todo'[r][1] = a /\ todo'[r][2] = b /\ todo'[r][3] = c /\ todo'[r][4] = d
  BY <1>1, SetPasswordDoes
<1>4. /\ c.key = Session(s0) /\ c.value = v0 /\ IsWrite(c)
      /\ d.key = Setup(t0) /\ d.value = Consumed /\ IsWrite(d)
      /\ d.key[1] = "setup"
  BY <1>3, PutsAre, MoreKeysAre
<1>5. /\ bounds' = bounds /\ crashes' = crashes /\ crashes \in Nat
      /\ \A key : Versions(key) \subseteq Versions(key)'
  BY <1>2, DoesVersions, CrashesAre
<1>6. ~Used(t0) /\ t0 \in bounds.pool["setup"]
  <2>1. /\ reading[r] # None /\ reading[r].op = "set"
        /\ ReadFits(bounds, Facts(kv), reading[r])
    BY <1>2, Reading
  <2>2. t0 \in bounds.pool["setup"]
    BY <1>1, <2>1 DEF ReadFits
  <2>3. ~Used(t0)
    BY <1>1, <2>1, <2>2 DEF TokenTurns, TokenUnread
  <2>4. QED
    BY <2>2, <2>3
<1>7. Used(t0)'
  <2>1. Consumed \in Upcoming(Setup(t0))'
    BY <1>3, <1>4, VersionsAre
  <2>2. QED
    BY <2>1, VersionsAre DEF Used
<1>8. ASSUME NEW s, NEW v \in Versions(Session(s))'
      PROVE  v \in Versions(Session(s)) \/ (s = s0 /\ v = v0)
  <2>1. PICK key : key = Session(s)
    OBVIOUS
  <2>2. key[1] = "session" /\ key[2] = s
    BY <2>1, MoreKeysAre
  <2>3. c.key[2] = s0
    BY <1>4, MoreKeysAre
  <2>4. \/ v \in Versions(key)
        \/ \E n \in DOMAIN todo'[r] : /\ IsWrite(todo'[r][n]) /\ todo'[r][n].key = key
                                      /\ todo'[r][n].value = v
    BY <1>2, <1>8, <2>1, PlanVersions
  <2>5. QED
    BY <1>3, <1>4, <2>1, <2>2, <2>3, <2>4
<1>9. SessionsOf(t0)' \subseteq SessionsOf(t0) \union {s0}
  BY <1>5, <1>8 DEF SessionsOf
<1>10. \A t : t # t0 => SessionsOf(t)' \subseteq SessionsOf(t)
  BY <1>3, <1>5, <1>8 DEF SessionsOf
<1>11. AtMost(SessionsOf(t0)', crashes' + 1)
  <2>1. PICK S : S = SessionsOf(t0)
    OBVIOUS
  <2>2. PICK T : T = SessionsOf(t0)'
    OBVIOUS
  <2>3. PICK m : m = IF Used(t0) THEN crashes + 1 ELSE crashes
    OBVIOUS
  <2>4. m = crashes /\ m \in Int /\ AtMost(S, m) /\ T \subseteq S \union {s0}
    BY <1>5, <1>6, <1>9, <2>1, <2>2, <2>3 DEF TokenTurns
  <2>5. AtMost(T, m + 1)
    BY <2>4, AtMostOneMore
  <2>6. QED
    BY <1>5, <2>2, <2>4, <2>5
<1>12. ASSUME NEW t \in bounds.pool["setup"]
       PROVE  AtMost(SessionsOf(t)', IF Used(t)' THEN crashes' + 1 ELSE crashes')
  <2>1. PICK m : m = IF Used(t) THEN crashes + 1 ELSE crashes
    OBVIOUS
  <2>2. PICK n : n = IF Used(t)' THEN crashes' + 1 ELSE crashes'
    OBVIOUS
  <2>3. CASE t = t0
    <3>1. n = crashes' + 1 /\ SessionsOf(t)' = SessionsOf(t0)'
      BY <1>7, <2>2, <2>3
    <3>2. QED
      BY <1>11, <2>2, <3>1
  <2>4. CASE t # t0
    <3>1. AtMost(SessionsOf(t), m)
      BY <1>12, <2>1 DEF TokenTurns
    <3>2. Used(t) => Used(t)'
      BY <1>5 DEF Used
    <3>3. m \in {crashes, crashes + 1} /\ n \in {crashes', crashes' + 1}
      BY <2>1, <2>2
    <3>4. m = crashes + 1 => n = crashes' + 1
      BY <1>5, <2>1, <2>2, <3>2
    <3>5. SessionsOf(t)' \subseteq SessionsOf(t)
      BY <1>10, <2>4
    <3>6. AtMost(SessionsOf(t)', n)
      BY <1>5, <3>1, <3>3, <3>4, <3>5, CountKept
    <3>7. QED
      BY <2>2, <3>6
  <2>5. QED
    BY <2>3, <2>4
<1>13. TokenUnread'
  BY <1>2, NoneReads DEF Does
<1>14. QED
  BY <1>5, <1>12, <1>13 DEF TokenTurns

LEMMA TokenPut ==
  ASSUME IInv, TokenTurns, bounds.oneByOne, NEW r \in Requests, Turn(r), Put(r)
  PROVE  TokenTurns'
<1>1. /\ 1 \in DOMAIN todo[r] /\ reading[r] = None
      /\ bounds' = bounds /\ crashes' = crashes /\ reading' = reading
      /\ \A q \in Requests : q # r => todo'[q] = todo[q]
      /\ \A key : key[1] \notin DullKinds => Versions(key)' \subseteq Versions(key)
  BY PutVersions
<1>2. \A t : SessionsOf(t)' \subseteq SessionsOf(t)
  <2>1. "session" \notin DullKinds
    BY DEF DullKinds, IndexKinds
  <2>2. \A s : Versions(Session(s))' \subseteq Versions(Session(s))
    BY <1>1, <2>1, MoreKeysAre
  <2>3. QED
    BY <1>1, <2>2, SessionsAre
<1>3. ASSUME NEW t \in bounds.pool["setup"], Used(t) PROVE Used(t)'
  <2>1. PICK key : key = Setup(t)
    OBVIOUS
  <2>2. key[1] = "setup"
    BY <2>1, MoreKeysAre
  <2>3. t \in Pool["setup"]
    BY <1>3, ScenesFit, EntryAssumption DEF EntryKinds
  <2>4. CASE Applied(r) /\ todo[r][1].key = key
    <3>1. /\ IsWrite(todo[r][1])
          /\ key \in DOMAIN kv' /\ kv'[key] = todo[r][1].value
      BY <2>4 DEF Applied
    <3>2. todo[r][1].value = Consumed
      <4>1. SUFFICES ASSUME todo[r][1].value # Consumed PROVE FALSE
        OBVIOUS
      <4>2. Mails(r, 1, t)
        BY <2>1, <2>4, <3>1, <4>1 DEF Mails
      <4>3. /\ ~Stored(key)
            /\ \A m \in DOMAIN todo[r] : todo[r][m].key = key => m = 1
        BY <1>1, <2>1, <2>3, <4>2 DEF IInv, TokensApart
      <4>4. Consumed \in Upcoming(key)
        BY <1>3, <2>1, <4>3, VersionsAre DEF Used
      <4>5. PICK n \in DOMAIN todo[r] : todo[r][n].key = key /\ todo[r][n].value = Consumed
        BY <4>4, TurnHas
      <4>6. QED
        BY <4>1, <4>3, <4>5
    <3>3. QED
      BY <2>1, <3>1, <3>2, VersionsAre DEF Used
  <2>5. CASE ~(Applied(r) /\ todo[r][1].key = key)
    <3>1. CASE Stored(key) /\ kv[key] = Consumed
      <4>1. Stored(key)' /\ kv'[key] = Consumed
        BY <2>2, <2>5, <3>1, PutAwaits
      <4>2. QED
        BY <2>1, <4>1, VersionsAre DEF Used, Stored
    <3>2. CASE Consumed \in Upcoming(key)
      <4>1. PICK n \in DOMAIN todo[r] : /\ IsWrite(todo[r][n]) /\ todo[r][n].key = key
                                        /\ todo[r][n].value = Consumed
        BY <3>2, TurnHas
      <4>2. \E m \in DOMAIN todo'[r] : todo'[r][m] = todo[r][n]
        <5>1. CASE n # 1
          BY <4>1, <5>1, PutEnds DEF Applied, Resolved, Dropped, Deleted, Leaving, Pushes
        <5>2. CASE n = 1
          BY <2>5, <4>1, <5>2, PutEnds DEF Applied, Resolved, Dropped, Deleted
        <5>3. QED
          BY <5>1, <5>2
      <4>3. Consumed \in Upcoming(key)'
        BY <4>1, <4>2, VersionsAre
      <4>4. QED
        BY <2>1, <4>3, VersionsAre DEF Used
    <3>3. QED
      BY <1>3, <2>1, <3>1, <3>2, VersionsAre DEF Used
  <2>6. QED
    BY <2>4, <2>5
<1>4. TokenUnread'
  BY <1>1, NoneReads
<1>5. QED
  BY <1>1, <1>2, <1>3, <1>4, TokenKept DEF TokenStays

LEMMA TokenStep ==
  ASSUME IInv, Sole, TokenTurns, [Next]_vars
  PROVE  TokenTurns'
<1>1. bounds' = bounds
  BY StepsAre, WorkerDoes, DoesVersions, PutVersions, CrashVersions, ExpireVersions, NothingDone
<1>2. CASE ~bounds.oneByOne
  BY <1>1, <1>2 DEF TokenTurns
<1>3. ASSUME bounds.oneByOne, NEW r \in Requests, WorkerStep(r) PROVE TokenTurns'
  <2>1. Turn(r)
    BY <1>3, WorkerDoes, InTurn DEF Does
  <2>2. CASE SendVerification(r) \/ ReadSetup(r) \/ SetPassword(r)
    BY <1>3, <2>1, <2>2, TokenSent, TokenRead, TokenTurned
  <2>3. CASE ReadLogin(r) \/ Login(r) \/ Logout(r)
    BY <1>3, <2>3, LoginDoes, TokenOthers
  <2>4. CASE PingStep(r) \/ FieldStep(r) \/ ObjectStep(r)
    <3>1. \/ Does(r, PingFamily, PingOps) \/ Does(r, FieldFamily, FieldOps)
          \/ Does(r, ObjectFamily, ObjectOps)
      BY <1>3, <2>4, PingDoes, FieldDoes, ObjectDoes
    <3>2. QED
      BY <1>3, <3>1, TokenOthers, EntryIsApart
  <2>5. QED
    BY <1>3, <2>2, <2>3, <2>4 DEF WorkerStep, EntryStep
<1>4. ASSUME bounds.oneByOne, NEW r \in Requests, Put(r) PROVE TokenTurns'
  <2>1. Turn(r)
    BY <1>4, PutVersions, InTurn
  <2>2. QED
    BY <1>4, <2>1, TokenPut
<1>5. ASSUME bounds.oneByOne, NEW r \in Requests, Crash(r) PROVE TokenTurns'
  <2>1. Turn(r)
    BY <1>5, InTurn DEF Crash
  <2>2. /\ crashes' = crashes + 1 /\ reading'[r] = None
        /\ \A q \in Requests : q # r => reading'[q] = reading[q]
        /\ \A key : Versions(key)' \subseteq Versions(key)
    BY <1>5, CrashVersions
  <2>3. \A t : SessionsOf(t)' \subseteq SessionsOf(t)
    BY <1>1, <2>2, SessionsAre
  <2>4. TokenUnread'
    BY <1>5, <2>1, <2>2, NoneReads
  <2>5. crashes' # crashes
    BY <2>2, CrashesAre
  <2>6. QED
    BY <1>1, <1>5, <2>2, <2>3, <2>4, <2>5, TokenKept
<1>6. ASSUME bounds.oneByOne, crashes' = crashes, reading' = reading,
             \A t : Used(t)' <=> Used(t),
             \A s : Versions(Session(s))' = Versions(Session(s))
      PROVE  TokenTurns'
  <2>1. \A t : SessionsOf(t)' \subseteq SessionsOf(t)
    BY <1>1, <1>6, SessionsAre
  <2>2. TokenUnread'
    BY <1>1, <1>6 DEF TokenUnread, TokenTurns
  <2>3. QED
    BY <1>1, <1>6, <2>1, <2>2, TokenKept DEF TokenStays
<1>7. ASSUME bounds.oneByOne, NEW t \in Chosen("setup"), ExpireToken(t) PROVE TokenTurns'
  <2>1. /\ crashes' = crashes /\ reading' = reading
        /\ kv[Setup(t)] # Consumed /\ kv'[Setup(t)] = Expired
        /\ \A key : Upcoming(key)' = Upcoming(key)
        /\ \A key : key # Setup(t) => Versions(key)' = Versions(key)
    BY <1>7, ExpireVersions
  <2>2. \A s : Versions(Session(s))' = Versions(Session(s))
    BY <2>1, MoreKeysAre
  <2>3. Used(t)' <=> Used(t)
    BY <2>1, VersionsAre, EntryAssumption DEF Used
  <2>4. \A u : Used(u)' <=> Used(u)
    <3>1. ASSUME NEW u, Setup(u) = Setup(t) PROVE Used(u)' <=> Used(u)
      <4>1. u = t
        BY <3>1, MoreKeysAre
      <4>2. QED
        BY <2>3, <4>1
    <3>2. ASSUME NEW u, Setup(u) # Setup(t) PROVE Used(u)' <=> Used(u)
      BY <2>1, <3>2 DEF Used
    <3>3. QED
      BY <3>1, <3>2
  <2>5. QED
    BY <1>6, <1>7, <2>1, <2>2, <2>4
<1>8. ASSUME bounds.oneByOne, UNCHANGED vars PROVE TokenTurns'
  BY <1>6, <1>8, NothingDone DEF Used
<1>9. QED
  BY <1>2, <1>3, <1>4, <1>5, <1>7, <1>8, StepsAre

LEMMA InitToken ==
  ASSUME Init
  PROVE  TokenTurns
<1>1. /\ \A key : Stored(key) => key[1] \in {"relevance", "object", "object-claim", "claims-by"}
      /\ \A r \in Requests : reading[r] = None /\ DOMAIN todo[r] = {}
      /\ crashes = 0
  BY InitHas
<1>2. \A t, s : Versions(Session(s)) = {} /\ Versions(Setup(t)) = {}
  BY <1>1, MoreKeysAre, VersionsAre
<1>3. \A t : SessionsOf(t) = {} /\ ~Used(t)
  BY <1>2 DEF SessionsOf, Used
<1>4. \A t : AtMost(SessionsOf(t), IF Used(t) THEN crashes + 1 ELSE crashes)
  BY <1>1, <1>3, NoneAtMost
<1>5. QED
  BY <1>1, <1>4 DEF TokenTurns, TokenUnread

LEMMA TokensCounted ==
  ASSUME IInv, TokenTurns
  PROVE  TokenOnce
<1>1. ASSUME bounds.oneByOne, NEW t \in bounds.pool["setup"],
             NEW S, S = {s \in bounds.pool["session"] :
                           /\ Stored(Session(s))
                           /\ kv[Session(s)].by = "setup"
                           /\ kv[Session(s)].identity = t}
      PROVE  Cardinality(S) <= 1 + crashes
  <2>1. S \subseteq SessionsOf(t)
    BY <1>1 DEF SessionsOf, Versions
  <2>2. PICK n : n = IF Used(t) THEN crashes + 1 ELSE crashes
    OBVIOUS
  <2>3. crashes \in Nat /\ n \in Int /\ crashes + 1 \in Int /\ n <= crashes + 1
    BY <2>2, CrashesAre
  <2>4. AtMost(SessionsOf(t), n)
    BY <1>1, <2>2 DEF TokenTurns
  <2>5. AtMost(S, crashes + 1)
    BY <2>1, <2>3, <2>4, AtMostFewer
  <2>6. IsFiniteSet(S) /\ Cardinality(S) <= crashes + 1
    BY <2>5 DEF AtMost
  <2>7. QED
    BY <2>3, <2>6, FS_CardinalityType
<1>2. QED
  BY <1>1 DEF TokenOnce, Chosen

(* A setup token is good for one entry, and for no less: it is used up only
   when its user can be found by email; and where requests come one at a
   time it gets one session, and one more for each that is cut off.        *)
THEOREM TurnsToken == Spec => []TokenSpent
<1>1. Init => TokenTurns
  BY InitToken
<1>2. IInv /\ Sole /\ TokenTurns /\ [Next]_vars => TokenTurns'
  BY TokenStep
<1>3. IInv /\ TokenTurns /\ ConsumedWhole => TokenSpent
  BY TokensCounted DEF TokenSpent
<1>4. QED
  BY <1>1, <1>2, <1>3, WorkersFit, WorkersConsume, TurnsTaken, PTL DEF Spec

-----------------------------------------------------------------------------
(* Pings made of a finding.                                                *)

(* No finding has more pings, and those that had one keep it.              *)
PingStays ==
  /\ \A p, v : v # None /\ OfPing(p, v)' => OfPing(p, v)
  /\ \A v : Pinged(v) => Pinged(v)'

LEMMA PingKept ==
  ASSUME IInv, PingTurns, bounds.oneByOne, bounds' = bounds,
         \A p, v : v # None /\ OfPing(p, v)' => OfPing(p, v),
         crashes' \in {crashes, crashes + 1},
         crashes' = crashes => PingStays,
         PingsListed'
  PROVE  PingTurns'
<1>1. crashes \in Nat
  BY CrashesAre
<1>2. ASSUME NEW v \in bounds.pool["relevance"]
      PROVE  AtMost(PingsOf(v)', IF Pinged(v)' THEN crashes' + 1 ELSE crashes')
  <2>1. v # None
    BY <1>2, ScenesFit, KindsArePooled DEF PingKinds
  <2>2. PICK S : S = PingsOf(v)
    OBVIOUS
  <2>3. PICK T : T = PingsOf(v)'
    OBVIOUS
  <2>4. T \subseteq S
    BY <2>1, <2>2, <2>3 DEF PingsOf
  <2>5. PICK m : m = IF Pinged(v) THEN crashes + 1 ELSE crashes
    OBVIOUS
  <2>6. PICK n : n = IF Pinged(v)' THEN crashes' + 1 ELSE crashes'
    OBVIOUS
  <2>7. AtMost(S, m)
    BY <1>2, <2>2, <2>5 DEF PingTurns
  <2>8. crashes' = crashes /\ Pinged(v) => Pinged(v)'
    BY DEF PingStays
  <2>9. PICK d \in {crashes, crashes + 1} : d = crashes'
    OBVIOUS
  <2>10. /\ m \in {crashes, crashes + 1} /\ n \in {d, d + 1}
         /\ d = crashes /\ m = crashes + 1 => n = d + 1
    BY <1>1, <2>5, <2>6, <2>8, <2>9
  <2>11. AtMost(T, n)
    BY <1>1, <2>4, <2>7, <2>10, CountKept
  <2>12. QED
    BY <2>3, <2>6, <2>11
<1>3. QED
  BY <1>2 DEF PingTurns

(* In turn only one request has anything to put.                           *)
LEMMA ListedInTurn ==
  ASSUME NEW r \in Requests, Turn(r),
         \A q \in Requests : q # r => todo'[q] = todo[q],
         \A n \in DOMAIN todo'[r] :
           todo'[r][n].key[1] = "of-relevance" => ListsPing(todo[r], n)'
  PROVE  PingsListed'
<1>1. \A q \in Requests : q # r => DOMAIN todo'[q] = {}
  BY IdleHas DEF Turn
<1>2. QED
  BY <1>1 DEF PingsListed

LEMMA PingOthers ==
  ASSUME IInv, PingTurns, bounds.oneByOne, NEW r \in Requests, Turn(r), NEW kinds, NEW ops,
         Does(r, kinds, ops), "of-relevance" \notin kinds,
         CopiedPuts(todo'[r]), CopiedAsk(reading'[r])
  PROVE  PingTurns'
<1>1. /\ bounds' = bounds /\ crashes' = crashes
      /\ \A key : Stored(key)' <=> Stored(key)
      /\ \A key : Listed(key)' = Listed(key)
      /\ \A key : Awaited(key) => Awaited(key)'
  BY DoesVersions
<1>2. /\ \A q \in Requests : q # r => todo'[q] = todo[q] /\ reading'[q] = reading[q]
      /\ \A n \in DOMAIN todo'[r] : todo'[r][n].key[1] \in kinds
  BY DEF Does
<1>3. ASSUME NEW p, NEW v, v # None, OfPing(p, v)' PROVE OfPing(p, v)
  <2>1. CASE \E w \in Versions(Ping(p))' : w.relevance = v
    <3>1. PICK w \in Versions(Ping(p))' : w.relevance = v
      BY <2>1
    <3>2. PICK key : key = Ping(p)
      OBVIOUS
    <3>3. key[1] = "ping" /\ key[2] = p
      BY <3>2, KeysAre
    <3>4. \/ w \in Versions(key)
          \/ \E n \in DOMAIN todo'[r] : /\ IsWrite(todo'[r][n]) /\ todo'[r][n].key = key
                                        /\ todo'[r][n].value = w
      BY <3>1, <3>2, PlanVersions
    <3>5. QED
      BY <1>3, <3>1, <3>2, <3>3, <3>4 DEF CopiedPuts, OfPing
  <2>2. CASE HasCopy(p, v)'
    <3>1. PICK q \in Requests :
            /\ reading'[q] # None /\ reading'[q].op \in {"throttle", "deliver"}
            /\ reading'[q].id = p /\ reading'[q].copy.relevance = v
      BY <2>2 DEF HasCopy
    <3>2. CASE q = r
      BY <3>1, <3>2 DEF CopiedAsk
    <3>3. CASE q # r
      BY <1>2, <3>1, <3>3 DEF HasCopy, OfPing
    <3>4. QED
      BY <3>2, <3>3
  <2>3. QED
    BY <1>3, <2>1, <2>2 DEF OfPing
<1>4. \A v : Pinged(v) => Pinged(v)'
  BY <1>1 DEF Pinged
<1>5. PingsListed'
  BY <1>2, ListedInTurn
<1>6. QED
  BY <1>1, <1>3, <1>4, <1>5, PingKept DEF PingStays

(* Whoever makes a ping of a finding found none listed, so that none was in
   excess.                                                                 *)
LEMMA PingMade ==
  ASSUME IInv, PingTurns, bounds.oneByOne, NEW r \in Requests, Turn(r), PingFromRelevance(r)
  PROVE  PingTurns'
<1>1. /\ Does(r, {"ping", "of-relevance"}, {}) /\ reading'[r] = None
      /\ \/ DOMAIN todo'[r] = {}
         \/ \E p, v, u, a, b :
              /\ \A q \in Listed(OfRelevance(v)) : ~Stored(Ping(q))
              /\ u.relevance = v
              /\ a = Writes(Ping(p), u) /\ b = Appends(OfRelevance(v), p)
              /\ DOMAIN todo'[r] = {1, 2} /\ todo'[r][1] = a /\ todo'[r][2] = b
  BY FromRelevanceDoes
<1>2. CASE DOMAIN todo'[r] = {}
  <2>1. Does(r, {}, {})
    BY <1>1, <1>2 DEF Does
  <2>2. CopiedPuts(todo'[r]) /\ CopiedAsk(reading'[r])
    BY <1>1, <1>2 DEF CopiedPuts, CopiedAsk
  <2>3. QED
    BY <2>1, <2>2, PingOthers
<1>3. CASE DOMAIN todo'[r] # {}
  <2>1. PICK p0, v0, u, a, b :
          /\ \A q \in Listed(OfRelevance(v0)) : ~Stored(Ping(q))
          /\ u.relevance = v0
          /\ a = Writes(Ping(p0), u) /\ b = Appends(OfRelevance(v0), p0)
          /\ DOMAIN todo'[r] = {1, 2} /\ todo'[r][1] = a /\ todo'[r][2] = b
    BY <1>1, <1>3
  <2>2. /\ bounds' = bounds /\ crashes' = crashes /\ crashes \in Nat
        /\ \A key : Stored(key)' <=> Stored(key)
        /\ \A key : Listed(key)' = Listed(key)
        /\ \A key : Awaited(key) => Awaited(key)'
    BY <1>1, DoesVersions, CrashesAre
  <2>3. /\ a.key = Ping(p0) /\ a.value = u /\ IsWrite(a) /\ a.key[1] = "ping"
        /\ a.key[2] = p0
        /\ b.key = OfRelevance(v0) /\ ~IsWrite(b) /\ b.adds = p0
    BY <2>1, PutsAre, KeysAre
  <2>4. ASSUME NEW p, NEW v, OfPing(p, v)' PROVE OfPing(p, v) \/ (p = p0 /\ v = v0)
    <3>1. CASE \E w \in Versions(Ping(p))' : w.relevance = v
      <4>1. PICK w \in Versions(Ping(p))' : w.relevance = v
        BY <3>1
      <4>2. PICK key : key = Ping(p)
        OBVIOUS
      <4>3. key[2] = p
        BY <4>2, KeysAre
      <4>4. \/ w \in Versions(key)
            \/ \E n \in DOMAIN todo'[r] : /\ IsWrite(todo'[r][n]) /\ todo'[r][n].key = key
                                          /\ todo'[r][n].value = w
        BY <1>1, <4>1, <4>2, PlanVersions
      <4>5. QED
        BY <2>1, <2>3, <4>1, <4>2, <4>3, <4>4 DEF OfPing
    <3>2. CASE HasCopy(p, v)'
      BY <1>1, <3>2 DEF HasCopy, OfPing, Does
    <3>3. QED
      BY <2>4, <3>1, <3>2 DEF OfPing
  <2>5. ~Pinged(v0) /\ Pinged(v0)'
    <3>1. DOMAIN todo[r] = {}
      BY <1>1, ListsAre DEF Does
    <3>2. ~Awaited(OfRelevance(v0))
      BY <3>1, TurnHas
    <3>3. Awaited(OfRelevance(v0))'
      BY <2>1, <2>3 DEF Awaited
    <3>4. QED
      BY <2>1, <3>2, <3>3 DEF Pinged
  <2>6. ASSUME NEW v \in bounds.pool["relevance"]
        PROVE  AtMost(PingsOf(v)', IF Pinged(v)' THEN crashes' + 1 ELSE crashes')
    <3>1. PICK S : S = PingsOf(v)
      OBVIOUS
    <3>2. PICK T : T = PingsOf(v)'
      OBVIOUS
    <3>3. PICK m : m = IF Pinged(v) THEN crashes + 1 ELSE crashes
      OBVIOUS
    <3>4. PICK n : n = IF Pinged(v)' THEN crashes' + 1 ELSE crashes'
      OBVIOUS
    <3>5. AtMost(S, m)
      BY <2>6, <3>1, <3>3 DEF PingTurns
    <3>6. CASE v = v0
      <4>1. m = crashes /\ n = crashes + 1
        BY <2>2, <2>5, <3>3, <3>4, <3>6
      <4>2. T \subseteq S \union {p0}
        BY <2>2, <2>4, <3>1, <3>2 DEF PingsOf
      <4>3. m \in Int /\ n = m + 1
        BY <2>2, <4>1
      <4>4. AtMost(T, m + 1)
        BY <3>5, <4>2, <4>3, AtMostOneMore
      <4>5. QED
        BY <3>2, <3>4, <4>3, <4>4
    <3>7. CASE v # v0
      <4>1. T \subseteq S
        BY <2>2, <2>4, <3>1, <3>2, <3>7 DEF PingsOf
      <4>2. Pinged(v) => Pinged(v)'
        BY <2>2 DEF Pinged
      <4>3. PICK d \in {crashes, crashes + 1} : d = crashes'
        BY <2>2
      <4>4. /\ m \in {crashes, crashes + 1} /\ n \in {d, d + 1}
            /\ d = crashes /\ m = crashes + 1 => n = d + 1
        BY <2>2, <3>3, <3>4, <4>2, <4>3
      <4>5. AtMost(T, n)
        BY <2>2, <3>5, <4>1, <4>4, CountKept
      <4>6. QED
        BY <3>2, <3>4, <4>5
    <3>8. QED
      BY <3>6, <3>7
  <2>7. PingsListed'
    <3>1. ListsPing(todo[r], 2)'
      BY <2>1, <2>3 DEF ListsPing
    <3>2. \A n \in DOMAIN todo'[r] :
            todo'[r][n].key[1] = "of-relevance" => ListsPing(todo[r], n)'
      BY <2>1, <2>3, <3>1
    <3>3. QED
      BY <1>1, <3>2, ListedInTurn DEF Does
  <2>8. QED
    BY <2>2, <2>6, <2>7 DEF PingTurns
<1>4. QED
  BY <1>2, <1>3

LEMMA PingPut ==
  ASSUME IInv, PingTurns, bounds.oneByOne, NEW r \in Requests, Turn(r), Put(r)
  PROVE  PingTurns'
<1>1. /\ 1 \in DOMAIN todo[r]
      /\ bounds' = bounds /\ crashes' = crashes /\ reading' = reading
      /\ \A q \in Requests : q # r => todo'[q] = todo[q]
      /\ \A key : key[1] \notin DullKinds => Versions(key)' \subseteq Versions(key)
  BY PutVersions
<1>2. /\ \A key : Stored(key) => Stored(key)' \/ key[1] = "session"
      /\ \A key : Awaited(key) =>
           \/ Awaited(key)'
           \/ Applied(r) /\ todo[r][1].key = key
           \/ key[1] \in Forgone
      /\ \A key : key # todo[r][1].key \/ ~Applied(r) =>
           Listed(key)' = Listed(key) \/ key[1] = "session"
  BY PutAwaits
<1>3. \A p : Stored(Ping(p)) => Stored(Ping(p))'
  BY <1>2, KeysAre
<1>4. ASSUME NEW p, NEW v, OfPing(p, v)' PROVE OfPing(p, v)
  <2>1. "ping" \notin DullKinds
    BY DEF DullKinds, IndexKinds
  <2>2. Versions(Ping(p))' \subseteq Versions(Ping(p))
    BY <1>1, <2>1, KeysAre
  <2>3. HasCopy(p, v)' => HasCopy(p, v)
    BY <1>1 DEF HasCopy
  <2>4. QED
    BY <1>4, <2>2, <2>3 DEF OfPing
<1>5. ASSUME NEW v, Pinged(v) PROVE Pinged(v)'
  <2>1. PICK key : key = OfRelevance(v)
    OBVIOUS
  <2>2. key[1] = "of-relevance"
    BY <2>1, IndexKeysAre
  <2>3. CASE Applied(r) /\ todo[r][1].key = key
    <3>1. ListsPing(todo[r], 1) /\ IsWrite(todo[r][1])
      BY <1>1, <2>2, <2>3 DEF Applied, PingTurns, PingsListed
    <3>2. PICK p \in todo[r][1].value : Stored(Ping(p))
      BY <3>1 DEF ListsPing
    <3>3. Listed(key)' = todo[r][1].value
      BY <2>3 DEF Applied, Listed, Stored
    <3>4. QED
      BY <1>3, <2>1, <3>2, <3>3 DEF Pinged
  <2>4. CASE ~(Applied(r) /\ todo[r][1].key = key)
    <3>1. Listed(key)' = Listed(key) /\ (Awaited(key) => Awaited(key)')
      BY <1>2, <2>2, <2>4 DEF Forgone
    <3>2. QED
      BY <1>3, <1>5, <2>1, <3>1 DEF Pinged
  <2>5. QED
    BY <2>3, <2>4
<1>6. ASSUME NEW n \in DOMAIN todo'[r], todo'[r][n].key[1] = "of-relevance"
      PROVE  ListsPing(todo[r], n)'
  <2>1. \A m \in DOMAIN todo[r] :
          todo[r][m].key[1] = "of-relevance" => ListsPing(todo[r], m)
    BY DEF PingTurns, PingsListed
  <2>2. CASE Leaving(todo[r], todo'[r])
    <3>1. n \in Nat \ {0} /\ n + 1 \in DOMAIN todo[r] /\ todo'[r][n] = todo[r][n + 1]
      BY <2>2 DEF Leaving, Shifts
    <3>2. ListsPing(todo[r], n + 1) /\ n + 1 # 1
      BY <1>6, <2>1, <3>1
    <3>3. /\ n + 1 = 2 /\ ~IsWrite(todo[r][2]) /\ IsWrite(todo[r][1])
          /\ todo[r][1].key = Ping(todo[r][2].adds)
      BY <3>2 DEF ListsPing
    <3>4. n = 1 /\ ~IsWrite(todo'[r][1]) /\ todo'[r][1].adds = todo[r][2].adds
      BY <3>1, <3>3
    <3>5. Applied(r)
      BY <3>3, PutEnds DEF Resolved, Dropped, Deleted
    <3>6. PICK x : x = todo[r][2].adds
      OBVIOUS
    <3>7. Stored(Ping(x))' /\ todo'[r][1].adds = x
      BY <3>3, <3>4, <3>5, <3>6 DEF Applied, Stored
    <3>8. QED
      BY <3>4, <3>7 DEF ListsPing, Stored
  <2>3. ASSUME NEW w, Resolved(r, w) PROVE ListsPing(todo[r], n)'
    <3>1. /\ ~IsWrite(todo[r][1]) /\ todo'[r][1] = w /\ IsWrite(w)
          /\ w.key = todo[r][1].key
          /\ n \in DOMAIN todo[r] /\ (n # 1 => todo'[r][n] = todo[r][n])
      BY <2>3 DEF Resolved, Pushes
    <3>2. CASE n = 1
      <4>1. w.key[1] = "of-relevance"
        BY <1>6, <3>1, <3>2
      <4>2. w.value = Listed(w.key) \union {todo[r][1].adds}
        BY <2>3, <3>1, <4>1 DEF Resolved
      <4>3. Stored(Ping(todo[r][1].adds))
        BY <1>1, <2>1, <3>1, <4>1 DEF ListsPing
      <4>4. PICK x : x = todo[r][1].adds
        OBVIOUS
      <4>5. Stored(Ping(x))' /\ x \in todo'[r][1].value /\ IsWrite(todo'[r][1])
        BY <1>3, <3>1, <4>2, <4>3, <4>4
      <4>6. QED
        BY <3>2, <4>5 DEF ListsPing
    <3>3. CASE n # 1
      BY <1>6, <2>1, <3>1, <3>3 DEF ListsPing
    <3>4. QED
      BY <3>2, <3>3
  <2>4. QED
    BY <2>2, <2>3, PutEnds DEF Applied, Dropped, Deleted
<1>7. PingsListed'
  BY <1>1, <1>6, ListedInTurn
<1>8. QED
  BY <1>1, <1>4, <1>5, <1>7, PingKept DEF PingStays

(* Other workers put no ping, or one of no finding.                        *)
LEMMA OtherPings ==
  /\ "of-relevance" \notin MovingFamily \union ThrottleFamily \union FieldFamily
       \union ObjectFamily \union EntryFamily
  /\ \A s : (\A n \in DOMAIN s : s[n].key[1] \in ObjectFamily \union EntryFamily) =>
       CopiedPuts(s)
  /\ \A s : NoFinding(s) => CopiedPuts(s)
  /\ \A x : (x # None => x.op \in FieldOps \union ObjectOps \union EntryOps) => CopiedAsk(x)
<1>1. /\ "of-relevance" \notin MovingFamily \union ThrottleFamily \union FieldFamily
           \union ObjectFamily \union EntryFamily
      /\ "ping" \notin ObjectFamily \union EntryFamily
  BY DEF MovingFamily, ThrottleFamily, FieldFamily, NearFamily, ObjectFamily, ClaimFamily,
         ProofFamily, EvidenceFamily, EntryFamily
<1>2. {"throttle", "deliver"} \intersect (FieldOps \union ObjectOps \union EntryOps) = {}
  BY DEF FieldOps, NearOps, ObjectOps, ClaimOps, ProofOps, EntryOps
<1>3. \A s : (\A n \in DOMAIN s : s[n].key[1] \in ObjectFamily \union EntryFamily) =>
        CopiedPuts(s)
  BY <1>1 DEF CopiedPuts
<1>4. \A s : NoFinding(s) => CopiedPuts(s)
  BY DEF NoFinding, CopiedPuts
<1>5. \A x : (x # None => x.op \in FieldOps \union ObjectOps \union EntryOps) => CopiedAsk(x)
  BY <1>2 DEF CopiedAsk
<1>6. QED
  BY <1>1, <1>3, <1>4, <1>5

LEMMA PingTurnsStep ==
  ASSUME IInv, Sole, PingTurns, [Next]_vars
  PROVE  PingTurns'
<1>1. bounds' = bounds
  BY StepsAre, WorkerDoes, DoesVersions, PutVersions, CrashVersions, ExpireVersions, NothingDone
<1>2. CASE ~bounds.oneByOne
  BY <1>1, <1>2 DEF PingTurns
<1>3. ASSUME bounds.oneByOne, NEW r \in Requests, WorkerStep(r) PROVE PingTurns'
  <2>1. Turn(r)
    BY <1>3, WorkerDoes, InTurn DEF Does
  <2>2. CASE PingFromRelevance(r)
    BY <1>3, <2>1, <2>2, PingMade
  <2>3. CASE ThrottlePing(r)
    <3>1. /\ Does(r, ThrottleFamily, {}) /\ CopiedPuts(todo'[r]) /\ reading'[r] = None
      BY <2>3, ThrottleDoes
    <3>2. CopiedAsk(reading'[r])
      BY <3>1, NonePut
    <3>3. QED
      BY <1>3, <2>1, <3>1, <3>2, PingOthers, OtherPings
  <2>4. CASE PingStep(r) /\ ~ThrottlePing(r) /\ ~PingFromRelevance(r)
    BY <1>3, <2>1, <2>4, MovingDoes, PingOthers, OtherPings
  <2>5. CASE FieldStep(r)
    <3>1. Does(r, FieldFamily, FieldOps) /\ NoFinding(todo'[r])
      BY <2>5, FieldDoes
    <3>2. CopiedPuts(todo'[r]) /\ CopiedAsk(reading'[r])
      BY <3>1, OtherPings DEF Does
    <3>3. QED
      BY <1>3, <2>1, <3>1, <3>2, PingOthers, OtherPings
  <2>6. ASSUME NEW kinds, NEW ops, Does(r, kinds, ops),
               kinds \subseteq ObjectFamily \union EntryFamily,
               ops \subseteq ObjectOps \union EntryOps
        PROVE  PingTurns'
    <3>1. CopiedPuts(todo'[r])
      BY <2>6, OtherPings DEF Does
    <3>2. CopiedAsk(reading'[r])
      BY <2>6, OtherPings DEF Does
    <3>3. "of-relevance" \notin kinds
      BY <2>6, OtherPings
    <3>4. QED
      BY <1>3, <2>1, <2>6, <3>1, <3>2, <3>3, PingOthers
  <2>7. CASE ObjectStep(r)
    BY <2>6, <2>7, ObjectDoes
  <2>8. CASE EntryStep(r)
    BY <2>6, <2>8, EntryDoes
  <2>9. QED
    BY <1>3, <2>2, <2>3, <2>4, <2>5, <2>7, <2>8 DEF WorkerStep
<1>4. ASSUME bounds.oneByOne, NEW r \in Requests, Put(r) PROVE PingTurns'
  <2>1. Turn(r)
    BY <1>4, PutVersions, InTurn
  <2>2. QED
    BY <1>4, <2>1, PingPut
<1>5. ASSUME bounds.oneByOne, NEW r \in Requests, Crash(r) PROVE PingTurns'
  <2>1. Turn(r)
    BY <1>5, InTurn DEF Crash
  <2>2. /\ crashes' = crashes + 1 /\ reading'[r] = None /\ todo'[r] = <<>>
        /\ \A q \in Requests : q # r => reading'[q] = reading[q] /\ todo'[q] = todo[q]
        /\ \A key : Versions(key)' \subseteq Versions(key)
    BY <1>5, CrashVersions
  <2>3. ASSUME NEW p, NEW v, OfPing(p, v)' PROVE OfPing(p, v)
    <3>1. HasCopy(p, v)' => HasCopy(p, v)
      BY <2>2 DEF HasCopy
    <3>2. QED
      BY <2>2, <2>3, <3>1 DEF OfPing
  <2>4. \A n \in DOMAIN todo'[r] : FALSE
    BY <2>2, ListsAre
  <2>5. PingsListed'
    BY <1>5, <2>1, <2>2, <2>4, ListedInTurn
  <2>6. crashes' # crashes
    BY <2>2, CrashesAre
  <2>7. QED
    BY <1>1, <1>5, <2>2, <2>3, <2>5, <2>6, PingKept
<1>6. ASSUME bounds.oneByOne, crashes' = crashes, reading' = reading, todo' = todo,
             \A key : Stored(key)' <=> Stored(key),
             \A key : Awaited(key)' <=> Awaited(key),
             \A key : key[1] # "setup" =>
               Listed(key)' = Listed(key) /\ Versions(key)' = Versions(key)
      PROVE  PingTurns'
  <2>1. \A p, v : OfPing(p, v)' => OfPing(p, v)
    <3>1. \A p : Versions(Ping(p))' = Versions(Ping(p))
      BY <1>6, KeysAre
    <3>2. \A p, v : HasCopy(p, v)' => HasCopy(p, v)
      BY <1>6 DEF HasCopy
    <3>3. QED
      BY <3>1, <3>2 DEF OfPing
  <2>2. \A v : Pinged(v) => Pinged(v)'
    BY <1>6, IndexKeysAre DEF Pinged
  <2>3. PingsListed'
    BY <1>6 DEF PingsListed, PingTurns, ListsPing
  <2>4. QED
    BY <1>1, <1>6, <2>1, <2>2, <2>3, PingKept DEF PingStays
<1>7. ASSUME bounds.oneByOne, NEW t \in Chosen("setup"), ExpireToken(t) PROVE PingTurns'
  BY <1>6, <1>7, ExpireVersions, MoreKeysAre
<1>8. ASSUME bounds.oneByOne, UNCHANGED vars PROVE PingTurns'
  BY <1>6, <1>8, NothingDone
<1>9. QED
  BY <1>2, <1>3, <1>4, <1>5, <1>7, <1>8, StepsAre

LEMMA InitPing ==
  ASSUME Init
  PROVE  PingTurns
<1>1. /\ \A key : Stored(key) => key[1] \in {"relevance", "object", "object-claim", "claims-by"}
      /\ \A r \in Requests : reading[r] = None /\ DOMAIN todo[r] = {}
      /\ crashes = 0
  BY InitHas
<1>2. \A p : ~Stored(Ping(p)) /\ Versions(Ping(p)) = {}
  BY <1>1, KeysAre, VersionsAre
<1>3. \A v : PingsOf(v) = {} /\ ~Pinged(v)
  BY <1>1, <1>2 DEF PingsOf, OfPing, HasCopy, Pinged, Awaited
<1>4. \A v : AtMost(PingsOf(v), IF Pinged(v) THEN crashes + 1 ELSE crashes)
  BY <1>1, <1>3, NoneAtMost
<1>5. QED
  BY <1>1, <1>4 DEF PingTurns, PingsListed

LEMMA PingsCounted ==
  ASSUME IInv, PingTurns
  PROVE  PingOnce
<1>1. ASSUME bounds.oneByOne, NEW v \in bounds.pool["relevance"],
             NEW S, S = {p \in bounds.pool["ping"] :
                           Stored(Ping(p)) /\ kv[Ping(p)].relevance = v}
      PROVE  Cardinality(S) <= 1 + crashes
  <2>1. S \subseteq PingsOf(v)
    BY <1>1 DEF PingsOf, OfPing, Versions
  <2>2. PICK n : n = IF Pinged(v) THEN crashes + 1 ELSE crashes
    OBVIOUS
  <2>3. crashes \in Nat /\ n \in Int /\ crashes + 1 \in Int /\ n <= crashes + 1
    BY <2>2, CrashesAre
  <2>4. AtMost(PingsOf(v), n)
    BY <1>1, <2>2 DEF PingTurns
  <2>5. AtMost(S, crashes + 1)
    BY <2>1, <2>3, <2>4, AtMostFewer
  <2>6. IsFiniteSet(S) /\ Cardinality(S) <= crashes + 1
    BY <2>5 DEF AtMost
  <2>7. QED
    BY <2>3, <2>6, FS_CardinalityType
<1>2. QED
  BY <1>1 DEF PingOnce, Chosen

(* Where requests come one at a time, what was found relevant gets one ping,
   and one more for each request cut off before it lists its ping.         *)
THEOREM TurnsPing == Spec => []PingOnce
<1>1. Init => PingTurns
  BY InitPing
<1>2. IInv /\ Sole /\ PingTurns /\ [Next]_vars => PingTurns'
  BY PingTurnsStep
<1>3. IInv /\ PingTurns => PingOnce
  BY PingsCounted
<1>4. QED
  BY <1>1, <1>2, <1>3, WorkersFit, TurnsTaken, PTL DEF Spec

-----------------------------------------------------------------------------
(* Throttles that let pings through to a receiver.                         *)

(* Of two sets together there are no more than of both.                    *)
LEMMA AtMostBoth ==
  ASSUME NEW S, NEW T, NEW m \in Int, NEW n \in Int, AtMost(S, m), AtMost(T, n)
  PROVE  AtMost(S \union T, m + n)
<1>1. /\ IsFiniteSet(S \union T) /\ IsFiniteSet(S \intersect T)
      /\ Cardinality(S \union T)
           = Cardinality(S) + Cardinality(T) - Cardinality(S \intersect T)
  BY FS_Union, FS_Subset DEF AtMost
<1>2. /\ Cardinality(S) \in Nat /\ Cardinality(T) \in Nat
      /\ Cardinality(S \intersect T) \in Nat /\ Cardinality(S \union T) \in Nat
  BY <1>1, FS_CardinalityType DEF AtMost
<1>3. Cardinality(S \union T) <= m + n
  BY <1>1, <1>2 DEF AtMost
<1>4. QED
  BY <1>1, <1>3 DEF AtMost

LEMMA FloodKept ==
  ASSUME IInv, FloodTurns, bounds.oneByOne, bounds' = bounds, crashes' = crashes,
         NEW i \in Identities,
         Flood(i)' \subseteq Flood(i),
         Listed(ThrottledTo(i))' = Listed(ThrottledTo(i)),
         Awaited(ThrottledTo(i)) => Awaited(ThrottledTo(i))'
  PROVE  FloodBounded(i)'
<1>1. crashes \in Nat /\ RecentLimit \in Nat
  BY CrashesAre, PipelineAssumption
<1>2. FloodBounded(i)
  BY DEF FloodTurns
<1>3. AtMost(Flood(i)', RecentLimit + crashes')
  <2>1. PICK m \in Int : m = RecentLimit + crashes
    BY <1>1
  <2>2. AtMost(Flood(i), m)
    BY <1>2, <2>1 DEF FloodBounded
  <2>3. AtMost(Flood(i)', m)
    BY <2>2, AtMostFewer
  <2>4. QED
    BY <2>1, <2>3
<1>4. AtMost(Flood(i)' \ Listed(ThrottledTo(i))',
             IF Awaited(ThrottledTo(i))' THEN crashes' + 1 ELSE crashes')
  <2>1. PICK S : S = Flood(i) \ Listed(ThrottledTo(i))
    OBVIOUS
  <2>2. PICK T : T = Flood(i)' \ Listed(ThrottledTo(i))'
    OBVIOUS
  <2>3. PICK m : m = IF Awaited(ThrottledTo(i)) THEN crashes + 1 ELSE crashes
    OBVIOUS
  <2>4. PICK n : n = IF Awaited(ThrottledTo(i))' THEN crashes' + 1 ELSE crashes'
    OBVIOUS
  <2>5. AtMost(S, m) /\ T \subseteq S
    BY <1>2, <2>1, <2>2, <2>3 DEF FloodBounded
  <2>6. m \in Int /\ n \in Int /\ m <= n
    BY <1>1, <2>3, <2>4
  <2>7. AtMost(T, n)
    BY <2>5, <2>6, AtMostFewer
  <2>8. QED
    BY <2>2, <2>4, <2>7
<1>5. QED
  BY <1>3, <1>4 DEF FloodBounded

(* What will be put in the index, in turn.                                 *)
LEMMA FloodAwaited ==
  ASSUME NEW r \in Requests, Turn(r), NEW i,
         \A q \in Requests : q # r => todo'[q] = todo[q],
         \A n \in DOMAIN todo'[r] : todo'[r][n].key = ThrottledTo(i) =>
           /\ \A m \in DOMAIN todo'[r] : m <= n
           /\ AtMost(Flood(i) \ ListedBy(todo[r][n], i), crashes)'
  PROVE  FloodListed(i)'
<1>1. \A q \in Requests : q # r => DOMAIN todo'[q] = {}
  BY IdleHas DEF Turn
<1>2. QED
  BY <1>1 DEF FloodListed, ListedBy

LEMMA FloodOthers ==
  ASSUME IInv, FloodTurns, bounds.oneByOne, NEW r \in Requests, Turn(r), NEW kinds, NEW ops,
         Does(r, kinds, ops), "ping-throttle" \notin kinds, "throttled-to" \notin kinds
  PROVE  FloodTurns'
<1>1. /\ bounds' = bounds /\ crashes' = crashes
      /\ \A key : Listed(key)' = Listed(key)
      /\ \A key : Awaited(key) => Awaited(key)'
      /\ \A key : key[1] \notin kinds => Versions(key)' = Versions(key)
  BY DoesVersions
<1>2. ASSUME NEW i \in Identities PROVE FloodBounded(i)' /\ FloodListed(i)'
  <2>1. Flood(i)' \subseteq Flood(i)
    <3>1. \A t : Versions(Throttle(t))' = Versions(Throttle(t))
      BY <1>1, KeysAre
    <3>2. QED
      BY <1>1, <3>1 DEF Flood
  <2>2. FloodBounded(i)'
    BY <1>1, <2>1, FloodKept
  <2>3. \A n \in DOMAIN todo'[r] : todo'[r][n].key # ThrottledTo(i)
    BY IndexKeysAre DEF Does
  <2>4. FloodListed(i)'
    BY <2>3, FloodAwaited DEF Does
  <2>5. QED
    BY <2>2, <2>4
<1>3. QED
  BY <1>2 DEF FloodTurns

(* Whoever lets a ping through unasked found fewer listed than the limit,
   and all the others but those of requests cut off are listed.            *)
LEMMA FloodThrottled ==
  ASSUME IInv, FloodTurns, bounds.oneByOne, NEW r \in Requests, Turn(r), ThrottlePing(r)
  PROVE  FloodTurns'
<1>1. Does(r, ThrottleFamily, {})
  BY ThrottleDoes
<1>2. PICK t0, v0, a, b, c :
        /\ a = Writes(Throttle(t0), v0) /\ b.key[1] = "ping"
        /\ c = Appends(ThrottledTo(v0.to), t0)
        /\ v0.inferred /\ v0.decision \in Allowed =>
             ~(Cardinality(Listed(ThrottledTo(v0.to))) >= RecentLimit)
        /\ DOMAIN todo'[r] = {1, 2, 3}
        /\ todo'[r][1] = a /\ todo'[r][2] = b /\ todo'[r][3] = c
  BY ThrottleDoes
<1>3. /\ a.key = Throttle(t0) /\ a.value = v0 /\ a.key[1] = "ping-throttle" /\ a.key[2] = t0
      /\ c.key = ThrottledTo(v0.to) /\ ~IsWrite(c) /\ c.adds = t0
  BY <1>2, PutsAre, KeysAre
<1>4. /\ bounds' = bounds /\ crashes' = crashes
      /\ crashes \in Nat /\ RecentLimit \in Nat
      /\ \A key : Listed(key)' = Listed(key)
      /\ \A key : Awaited(key) => Awaited(key)'
  BY <1>1, DoesVersions, CrashesAre, PipelineAssumption
<1>5. ASSUME NEW i, NEW t \in Flood(i)'
      PROVE  \/ t \in Flood(i)
             \/ t = t0 /\ i = v0.to /\ v0.inferred /\ v0.decision \in Allowed
  <2>1. PICK key : key = Throttle(t)
    OBVIOUS
  <2>2. key[1] = "ping-throttle" /\ key[2] = t
    BY <2>1, KeysAre
  <2>3. t \in bounds.pool["ping-throttle"]
    BY <1>4, <1>5 DEF Flood
  <2>4. PICK v \in Versions(key)' : v.to = i /\ v.inferred /\ v.decision \in Allowed
    BY <1>5, <2>1 DEF Flood
  <2>5. CASE v \in Versions(key)
    BY <2>1, <2>3, <2>4, <2>5 DEF Flood
  <2>6. CASE v \notin Versions(key)
    <3>1. PICK n \in DOMAIN todo'[r] : /\ IsWrite(todo'[r][n]) /\ todo'[r][n].key = key
                                       /\ todo'[r][n].value = v
      BY <1>1, <2>4, <2>6, PlanVersions
    <3>2. n = 1
      BY <1>2, <1>3, <2>2, <3>1, IndexKeysAre
    <3>3. t = t0 /\ v = v0
      BY <1>2, <1>3, <2>2, <3>1, <3>2
    <3>4. QED
      BY <2>4, <3>3
  <2>7. QED
    BY <2>5, <2>6
<1>6. \A i : ~Awaited(ThrottledTo(i))
  <2>1. DOMAIN todo[r] = {}
    BY <1>1, ListsAre DEF Does
  <2>2. QED
    BY <2>1, TurnHas
<1>7. ASSUME NEW i \in Identities
      PROVE  AtMost(Flood(i) \ Listed(ThrottledTo(i)), crashes)
  <2>1. PICK m : m = IF Awaited(ThrottledTo(i)) THEN crashes + 1 ELSE crashes
    OBVIOUS
  <2>2. m = crashes /\ AtMost(Flood(i) \ Listed(ThrottledTo(i)), m)
    BY <1>6, <1>7, <2>1 DEF FloodTurns, FloodBounded
  <2>3. QED
    BY <2>2
<1>8. ASSUME NEW i \in Identities PROVE FloodBounded(i)'
  <2>1. CASE Flood(i)' \subseteq Flood(i)
    BY <1>4, <1>8, <2>1, FloodKept
  <2>2. CASE ~(Flood(i)' \subseteq Flood(i))
    <3>1. PICK S : S = Flood(i) \ Listed(ThrottledTo(i))
      OBVIOUS
    <3>2. PICK T : T = Flood(i)'
      OBVIOUS
    <3>3. PICK L : L = Listed(ThrottledTo(i))
      OBVIOUS
    <3>4. /\ i = v0.to /\ v0.inferred /\ v0.decision \in Allowed
          /\ T \subseteq Flood(i) \union {t0}
      BY <1>5, <2>2, <3>2
    <3>5. AtMost(S, crashes) /\ T \subseteq (S \union L) \union {t0} /\ T \ L \subseteq S \union {t0}
      BY <1>7, <1>8, <3>1, <3>3, <3>4
    <3>6. AtMost(L, RecentLimit - 1)
      <4>1. IsFiniteSet(L)
        <5>1. PICK key : key = ThrottledTo(i)
          OBVIOUS
        <5>2. CASE Stored(key)
          <6>1. Shaped(bounds, key, kv[key])
            BY <5>2, StoredFits DEF Good
          <6>2. IsFiniteSet(kv[key])
            BY <5>1, <6>1, IndexKeysAre DEF Shaped
          <6>3. QED
            BY <3>3, <5>1, <5>2, <6>2 DEF Listed
        <5>3. CASE ~Stored(key)
          BY <3>3, <5>1, <5>3, FS_EmptySet DEF Listed
        <5>4. QED
          BY <5>2, <5>3
      <4>2. Cardinality(L) \in Nat
        BY <4>1, FS_CardinalityType
      <4>3. ~(Cardinality(L) >= RecentLimit)
        BY <1>2, <3>3, <3>4
      <4>4. Cardinality(L) <= RecentLimit - 1
        BY <1>4, <4>2, <4>3
      <4>5. QED
        BY <4>1, <4>4 DEF AtMost
    <3>7. PICK c0 \in Int, l \in Int : c0 = crashes /\ l = RecentLimit - 1
      BY <1>4
    <3>8. AtMost(S \union L, c0 + l)
      BY <3>5, <3>6, <3>7, AtMostBoth
    <3>9. AtMost(T, (c0 + l) + 1) /\ AtMost(T \ L, c0 + 1)
      <4>1. PICK n \in Int : n = c0 + l
        BY <3>7
      <4>2. PICK U : U = T \ L
        OBVIOUS
      <4>3. AtMost(S, c0) /\ U \subseteq S \union {t0}
        BY <3>5, <3>7, <4>2
      <4>4. AtMost(U, c0 + 1)
        BY <4>3, AtMostOneMore
      <4>5. PICK V : V = S \union L
        OBVIOUS
      <4>6. AtMost(V, n) /\ T \subseteq V \union {t0}
        BY <3>5, <3>8, <4>1, <4>5
      <4>7. AtMost(T, n + 1)
        BY <4>6, AtMostOneMore
      <4>8. QED
        BY <4>1, <4>2, <4>4, <4>7
    <3>10. (c0 + l) + 1 = RecentLimit + crashes' /\ c0 + 1 = crashes' + 1
      BY <1>4, <3>7
    <3>11. AtMost(T, RecentLimit + crashes')
      BY <3>9, <3>10
    <3>12. Awaited(ThrottledTo(i))'
      BY <1>2, <1>3, <3>4 DEF Awaited
    <3>13. T \ L = Flood(i)' \ Listed(ThrottledTo(i))'
      BY <1>4, <3>2, <3>3
    <3>14. PICK n : n = IF Awaited(ThrottledTo(i))' THEN crashes' + 1 ELSE crashes'
      OBVIOUS
    <3>15. n = c0 + 1 /\ AtMost(T \ L, n)
      BY <3>9, <3>10, <3>12, <3>14
    <3>16. QED
      BY <3>2, <3>11, <3>13, <3>14, <3>15 DEF FloodBounded
  <2>3. QED
    BY <2>1, <2>2
<1>9. ASSUME NEW i \in Identities PROVE FloodListed(i)'
  <2>1. ASSUME NEW n \in DOMAIN todo'[r], todo'[r][n].key = ThrottledTo(i)
        PROVE  /\ \A m \in DOMAIN todo'[r] : m <= n
               /\ AtMost(Flood(i) \ ListedBy(todo[r][n], i), crashes)'
    <3>1. n = 3
      BY <1>2, <1>3, <2>1, IndexKeysAre
    <3>2. todo'[r][n] = c
      BY <1>2, <3>1
    <3>3. i = v0.to
      BY <1>3, <2>1, <3>2 DEF ThrottledTo
    <3>4. PICK T : T = Flood(i)' \ (Listed(ThrottledTo(i))' \union {t0})
      OBVIOUS
    <3>5. PICK S : S = Flood(i) \ Listed(ThrottledTo(i))
      OBVIOUS
    <3>6. T \subseteq S
      BY <1>4, <1>5, <3>4, <3>5
    <3>7. AtMost(S, crashes)
      BY <1>7, <1>9, <3>5
    <3>8. AtMost(T, crashes)
      BY <1>4, <3>6, <3>7, AtMostFewer
    <3>9. (ListedBy(todo[r][n], i))' = Listed(ThrottledTo(i))' \union {t0}
      BY <1>3, <3>2 DEF ListedBy
    <3>10. AtMost(Flood(i) \ ListedBy(todo[r][n], i), crashes)'
      BY <1>4, <3>4, <3>8, <3>9
    <3>11. QED
      BY <1>2, <3>1, <3>10
  <2>2. QED
    BY <1>1, <2>1, FloodAwaited DEF Does
<1>10. QED
  BY <1>8, <1>9 DEF FloodTurns

LEMMA FloodPut ==
  ASSUME IInv, FloodTurns, bounds.oneByOne, NEW r \in Requests, Turn(r), Put(r)
  PROVE  FloodTurns'
<1>1. /\ 1 \in DOMAIN todo[r]
      /\ bounds' = bounds /\ crashes' = crashes /\ crashes \in Nat /\ RecentLimit \in Nat
      /\ \A q \in Requests : q # r => todo'[q] = todo[q]
      /\ \A key : key[1] \notin DullKinds => Versions(key)' \subseteq Versions(key)
  BY PutVersions, CrashesAre, PipelineAssumption
<1>2. /\ \A key : Awaited(key) =>
           \/ Awaited(key)'
           \/ Applied(r) /\ todo[r][1].key = key
           \/ key[1] \in Forgone
      /\ \A key : key # todo[r][1].key \/ ~Applied(r) =>
           Listed(key)' = Listed(key) \/ key[1] = "session"
  BY PutAwaits
<1>3. ASSUME NEW i PROVE Flood(i)' \subseteq Flood(i)
  <2>1. "ping-throttle" \notin DullKinds
    BY DEF DullKinds, IndexKinds
  <2>2. \A t : Versions(Throttle(t))' \subseteq Versions(Throttle(t))
    BY <1>1, <2>1, KeysAre
  <2>3. QED
    BY <1>1, <2>2 DEF Flood
<1>4. ASSUME NEW i \in Identities PROVE FloodBounded(i)' /\ FloodListed(i)'
  <2>1. PICK key : key = ThrottledTo(i)
    OBVIOUS
  <2>2. key[1] = "throttled-to"
    BY <2>1, IndexKeysAre
  <2>3. FloodBounded(i) /\ FloodListed(i)
    BY <1>4 DEF FloodTurns
  <2>4. CASE Applied(r) /\ todo[r][1].key = key
    <3>1. /\ \A m \in DOMAIN todo[r] : m <= 1
          /\ AtMost(Flood(i) \ ListedBy(todo[r][1], i), crashes)
      BY <1>1, <2>1, <2>3, <2>4 DEF FloodListed
    <3>2. ListedBy(todo[r][1], i) = Listed(key)'
      BY <2>4 DEF Applied, ListedBy, Listed, Stored
    <3>3. DOMAIN todo'[r] = {}
      <4>1. \A n \in DOMAIN todo'[r] : n \in Nat \ {0} /\ n + 1 \in DOMAIN todo[r]
        BY <2>4 DEF Applied, Leaving, Shifts
      <4>2. ASSUME NEW n \in DOMAIN todo'[r] PROVE FALSE
        BY <3>1, <4>1
      <4>3. QED
        BY <4>2
    <3>4. PICK T : T = Flood(i)' \ Listed(key)'
      OBVIOUS
    <3>5. PICK S : S = Flood(i) \ ListedBy(todo[r][1], i)
      OBVIOUS
    <3>6. T \subseteq S /\ AtMost(S, crashes)
      BY <1>3, <3>1, <3>2, <3>4, <3>5
    <3>7. PICK n : n = IF Awaited(key)' THEN crashes' + 1 ELSE crashes'
      OBVIOUS
    <3>8. n \in Int /\ crashes <= n /\ crashes \in Int
      BY <1>1, <3>7
    <3>9. AtMost(T, n)
      BY <3>6, <3>8, AtMostFewer
    <3>10. AtMost(Flood(i)', RecentLimit + crashes')
      <4>1. PICK m \in Int : m = RecentLimit + crashes
        BY <1>1
      <4>2. AtMost(Flood(i), m)
        BY <2>3, <4>1 DEF FloodBounded
      <4>3. Flood(i)' \subseteq Flood(i)
        BY <1>3
      <4>4. AtMost(Flood(i)', m)
        BY <4>2, <4>3, AtMostFewer
      <4>5. QED
        BY <1>1, <4>1, <4>4
    <3>11. FloodBounded(i)'
      BY <2>1, <3>4, <3>7, <3>9, <3>10 DEF FloodBounded
    <3>12. FloodListed(i)'
      BY <1>1, <3>3, FloodAwaited
    <3>13. QED
      BY <3>11, <3>12
  <2>5. CASE ~(Applied(r) /\ todo[r][1].key = key)
    <3>1. Listed(key)' = Listed(key) /\ (Awaited(key) => Awaited(key)')
      BY <1>2, <2>2, <2>5 DEF Forgone
    <3>2. FloodBounded(i)'
      BY <1>1, <1>3, <1>4, <2>1, <3>1, FloodKept
    <3>3. ASSUME NEW n \in DOMAIN todo'[r], todo'[r][n].key = key,
                 NEW k \in DOMAIN todo[r], todo[r][k].key = key,
                 \A m \in DOMAIN todo'[r] : m <= n,
                 ListedBy(todo[r][n], i)' = ListedBy(todo[r][k], i)
          PROVE  /\ \A m \in DOMAIN todo'[r] : m <= n
                 /\ AtMost(Flood(i) \ ListedBy(todo[r][n], i), crashes)'
      <4>1. AtMost(Flood(i) \ ListedBy(todo[r][k], i), crashes)
        BY <2>1, <2>3, <3>3 DEF FloodListed
      <4>2. PICK S : S = Flood(i) \ ListedBy(todo[r][k], i)
        OBVIOUS
      <4>3. PICK T : T = Flood(i)' \ ListedBy(todo[r][n], i)'
        OBVIOUS
      <4>4. T \subseteq S
        BY <1>3, <3>3, <4>2, <4>3
      <4>5. AtMost(T, crashes)
        BY <1>1, <4>1, <4>2, <4>4, AtMostFewer
      <4>6. QED
        BY <1>1, <3>3, <4>3, <4>5
    <3>4. ASSUME NEW n \in DOMAIN todo'[r], todo'[r][n].key = key
          PROVE  /\ \A m \in DOMAIN todo'[r] : m <= n
                 /\ AtMost(Flood(i) \ ListedBy(todo[r][n], i), crashes)'
      <4>1. CASE Leaving(todo[r], todo'[r])
        <5>1. \A m \in DOMAIN todo'[r] :
                m \in Nat \ {0} /\ m + 1 \in DOMAIN todo[r] /\ todo'[r][m] = todo[r][m + 1]
          BY <4>1 DEF Leaving, Shifts
        <5>2. \A m \in DOMAIN todo[r] : m <= n + 1
          BY <2>1, <2>3, <3>4, <5>1 DEF FloodListed
        <5>3. \A m \in DOMAIN todo'[r] : m <= n
          BY <5>1, <5>2
        <5>4. ListedBy(todo[r][n], i)' = ListedBy(todo[r][n + 1], i)
          BY <2>1, <3>1, <5>1 DEF ListedBy
        <5>5. QED
          BY <3>3, <3>4, <5>1, <5>3, <5>4
      <4>2. ASSUME NEW w, Resolved(r, w)
            PROVE  /\ \A m \in DOMAIN todo'[r] : m <= n
                   /\ AtMost(Flood(i) \ ListedBy(todo[r][n], i), crashes)'
        <5>1. /\ ~IsWrite(todo[r][1]) /\ todo'[r][1] = w /\ IsWrite(w)
              /\ w.key = todo[r][1].key /\ DOMAIN todo'[r] = DOMAIN todo[r]
              /\ (n # 1 => todo'[r][n] = todo[r][n])
          BY <4>2 DEF Resolved, Pushes
        <5>2. todo[r][n].key = key
          BY <3>4, <5>1
        <5>3. \A m \in DOMAIN todo'[r] : m <= n
          BY <2>1, <2>3, <5>1, <5>2 DEF FloodListed
        <5>4. ListedBy(todo[r][n], i)' = ListedBy(todo[r][n], i)
          <6>1. CASE n = 1
            <7>1. w.value = Listed(key) \union {todo[r][1].adds}
              BY <2>2, <3>4, <4>2, <5>1, <6>1 DEF Resolved
            <7>2. QED
              BY <2>1, <5>1, <6>1, <7>1 DEF ListedBy
          <6>2. CASE n # 1
            BY <2>1, <3>1, <5>1, <6>2 DEF ListedBy
          <6>3. QED
            BY <6>1, <6>2
        <5>5. QED
          BY <3>3, <3>4, <5>1, <5>2, <5>3, <5>4
      <4>3. QED
        BY <4>1, <4>2, PutEnds DEF Applied, Dropped, Deleted
    <3>5. FloodListed(i)'
      BY <1>1, <2>1, <3>4, FloodAwaited
    <3>6. QED
      BY <3>2, <3>5
  <2>6. QED
    BY <2>4, <2>5
<1>5. QED
  BY <1>4 DEF FloodTurns

LEMMA FloodCrash ==
  ASSUME IInv, FloodTurns, bounds.oneByOne, NEW r \in Requests, Turn(r), Crash(r)
  PROVE  FloodTurns'
<1>1. /\ bounds' = bounds /\ crashes' = crashes + 1 /\ todo'[r] = <<>>
      /\ crashes \in Nat /\ RecentLimit \in Nat
      /\ \A q \in Requests : q # r => todo'[q] = todo[q]
      /\ \A key : Listed(key)' = Listed(key)
      /\ \A key : Versions(key)' \subseteq Versions(key)
  BY CrashVersions, CrashesAre, PipelineAssumption
<1>2. ASSUME NEW i \in Identities PROVE FloodBounded(i)' /\ FloodListed(i)'
  <2>1. Flood(i)' \subseteq Flood(i)
    BY <1>1 DEF Flood
  <2>2. FloodBounded(i)
    BY <1>2 DEF FloodTurns
  <2>3. AtMost(Flood(i)', RecentLimit + crashes')
    <3>1. PICK m \in Int : m = RecentLimit + crashes
      BY <1>1
    <3>2. PICK n \in Int : n = RecentLimit + crashes'
      BY <1>1
    <3>3. AtMost(Flood(i), m) /\ m <= n
      BY <1>1, <2>2, <3>1, <3>2 DEF FloodBounded
    <3>4. AtMost(Flood(i)', n)
      BY <2>1, <3>3, AtMostFewer
    <3>5. QED
      BY <3>2, <3>4
  <2>4. AtMost(Flood(i)' \ Listed(ThrottledTo(i))',
               IF Awaited(ThrottledTo(i))' THEN crashes' + 1 ELSE crashes')
    <3>1. PICK S : S = Flood(i) \ Listed(ThrottledTo(i))
      OBVIOUS
    <3>2. PICK T : T = Flood(i)' \ Listed(ThrottledTo(i))'
      OBVIOUS
    <3>3. PICK m : m = IF Awaited(ThrottledTo(i)) THEN crashes + 1 ELSE crashes
      OBVIOUS
    <3>4. PICK n : n = IF Awaited(ThrottledTo(i))' THEN crashes' + 1 ELSE crashes'
      OBVIOUS
    <3>5. AtMost(S, m) /\ T \subseteq S
      BY <1>1, <2>1, <2>2, <3>1, <3>2, <3>3 DEF FloodBounded
    <3>6. m \in Int /\ n \in Int /\ m <= n
      BY <1>1, <3>3, <3>4
    <3>7. AtMost(T, n)
      BY <3>5, <3>6, AtMostFewer
    <3>8. QED
      BY <3>2, <3>4, <3>7
  <2>5. FloodBounded(i)'
    BY <2>3, <2>4 DEF FloodBounded
  <2>6. \A n \in DOMAIN todo'[r] : FALSE
    BY <1>1, ListsAre
  <2>7. FloodListed(i)'
    BY <1>1, <2>6, FloodAwaited
  <2>8. QED
    BY <2>5, <2>7
<1>3. QED
  BY <1>2 DEF FloodTurns

LEMMA FloodIsApart ==
  {"ping-throttle", "throttled-to"} \intersect
    (MovingFamily \union {"ping", "of-relevance"} \union FieldFamily \union ObjectFamily
       \union EntryFamily) = {}
BY DEF MovingFamily, FieldFamily, NearFamily, ObjectFamily, ClaimFamily, ProofFamily,
       EvidenceFamily, EntryFamily

LEMMA FloodStep ==
  ASSUME IInv, Sole, FloodTurns, [Next]_vars
  PROVE  FloodTurns'
<1>1. bounds' = bounds
  BY StepsAre, WorkerDoes, DoesVersions, PutVersions, CrashVersions, ExpireVersions, NothingDone
<1>2. CASE ~bounds.oneByOne
  BY <1>1, <1>2 DEF FloodTurns
<1>3. ASSUME bounds.oneByOne, NEW r \in Requests, WorkerStep(r) PROVE FloodTurns'
  <2>1. Turn(r)
    BY <1>3, WorkerDoes, InTurn DEF Does
  <2>2. CASE ThrottlePing(r)
    BY <1>3, <2>1, <2>2, FloodThrottled
  <2>3. CASE ~ThrottlePing(r)
    <3>1. \/ Does(r, MovingFamily, PingOps) \/ Does(r, {"ping", "of-relevance"}, {})
          \/ Does(r, FieldFamily, FieldOps) \/ Does(r, ObjectFamily, ObjectOps)
          \/ Does(r, EntryFamily, EntryOps)
      BY <1>3, <2>3, MovingDoes, FromRelevanceDoes, FieldDoes, ObjectDoes, EntryDoes
      DEF WorkerStep
    <3>2. QED
      BY <1>3, <2>1, <3>1, FloodOthers, FloodIsApart
  <2>4. QED
    BY <2>2, <2>3
<1>4. ASSUME bounds.oneByOne, NEW r \in Requests, Put(r) PROVE FloodTurns'
  <2>1. Turn(r)
    BY <1>4, PutVersions, InTurn
  <2>2. QED
    BY <1>4, <2>1, FloodPut
<1>5. ASSUME bounds.oneByOne, NEW r \in Requests, Crash(r) PROVE FloodTurns'
  <2>1. Turn(r)
    BY <1>5, InTurn DEF Crash
  <2>2. QED
    BY <1>5, <2>1, FloodCrash
<1>6. ASSUME bounds.oneByOne, crashes' = crashes, todo' = todo,
             \A key : Awaited(key)' <=> Awaited(key),
             \A key : key[1] # "setup" =>
               Listed(key)' = Listed(key) /\ Versions(key)' = Versions(key)
      PROVE  FloodTurns'
  <2>1. \A t : Versions(Throttle(t))' = Versions(Throttle(t))
    BY <1>6, KeysAre
  <2>2. \A i : /\ Flood(i)' = Flood(i)
               /\ Listed(ThrottledTo(i))' = Listed(ThrottledTo(i))
    BY <1>1, <1>6, <2>1, IndexKeysAre DEF Flood
  <2>3. ASSUME NEW i \in Identities PROVE FloodBounded(i)' /\ FloodListed(i)'
    <3>1. FloodBounded(i)'
      BY <1>1, <1>6, <2>2, FloodKept
    <3>2. \A p : ListedBy(p, i)' = ListedBy(p, i)
      BY <2>2 DEF ListedBy
    <3>3. FloodListed(i)
      BY <1>6, <2>3 DEF FloodTurns
    <3>4. FloodListed(i)'
      BY <1>6, <2>2, <3>2, <3>3 DEF FloodListed, ListedBy
    <3>5. QED
      BY <3>1, <3>4
  <2>4. QED
    BY <2>3 DEF FloodTurns
<1>7. ASSUME bounds.oneByOne, NEW t \in Chosen("setup"), ExpireToken(t) PROVE FloodTurns'
  BY <1>6, <1>7, ExpireVersions, MoreKeysAre
<1>8. ASSUME bounds.oneByOne, UNCHANGED vars PROVE FloodTurns'
  BY <1>6, <1>8, NothingDone
<1>9. QED
  BY <1>2, <1>3, <1>4, <1>5, <1>7, <1>8, StepsAre

LEMMA InitFlood ==
  ASSUME Init
  PROVE  FloodTurns
<1>1. /\ \A key : Stored(key) => key[1] \in {"relevance", "object", "object-claim", "claims-by"}
      /\ \A r \in Requests : DOMAIN todo[r] = {}
      /\ crashes = 0 /\ RecentLimit \in Nat
  BY InitHas, PipelineAssumption
<1>2. \A t : Versions(Throttle(t)) = {}
  BY <1>1, KeysAre, VersionsAre
<1>3. \A i : Flood(i) = {} /\ ~Awaited(ThrottledTo(i)) /\ FloodListed(i)
  BY <1>1, <1>2 DEF Flood, Awaited, FloodListed
<1>4. ASSUME NEW i PROVE FloodBounded(i)
  <2>1. AtMost(Flood(i), RecentLimit + crashes)
    BY <1>1, <1>3, NoneAtMost
  <2>2. PICK S : S = Flood(i) \ Listed(ThrottledTo(i))
    OBVIOUS
  <2>3. S = {}
    BY <1>3, <2>2
  <2>4. PICK n : n = IF Awaited(ThrottledTo(i)) THEN crashes + 1 ELSE crashes
    OBVIOUS
  <2>5. n = 0 /\ AtMost(S, n)
    BY <1>1, <1>3, <2>3, <2>4, NoneAtMost
  <2>6. QED
    BY <2>1, <2>2, <2>4, <2>5 DEF FloodBounded
<1>5. QED
  BY <1>3, <1>4 DEF FloodTurns

LEMMA FloodCounted ==
  ASSUME IInv, FloodTurns
  PROVE  FloodHeld
<1>1. ASSUME bounds.oneByOne, NEW i \in Identities,
             NEW S, S = {t \in bounds.pool["ping-throttle"] :
                           /\ Stored(Throttle(t))
                           /\ kv[Throttle(t)].to = i
                           /\ kv[Throttle(t)].inferred
                           /\ kv[Throttle(t)].decision \in Allowed}
      PROVE  Cardinality(S) <= RecentLimit + crashes
  <2>1. S \subseteq Flood(i)
    BY <1>1 DEF Flood, Versions
  <2>2. AtMost(Flood(i), RecentLimit + crashes)
    BY <1>1 DEF FloodTurns, FloodBounded
  <2>3. PICK n \in Int : n = RecentLimit + crashes
    BY CrashesAre, PipelineAssumption
  <2>4. AtMost(S, n)
    BY <2>1, <2>2, <2>3, AtMostFewer
  <2>5. QED
    BY <2>3, <2>4 DEF AtMost
<1>2. QED
  BY <1>1 DEF FloodHeld, Chosen

(* Where requests come one at a time, no more pings are let through to one
   receiver unasked than the limit, and one more for each request cut off
   before it lists its throttle.                                           *)
THEOREM TurnsFlood == Spec => []FloodHeld
<1>1. Init => FloodTurns
  BY InitFlood
<1>2. IInv /\ Sole /\ FloodTurns /\ [Next]_vars => FloodTurns'
  BY FloodStep
<1>3. IInv /\ FloodTurns => FloodHeld
  BY FloodCounted
<1>4. QED
  BY <1>1, <1>2, <1>3, WorkersFit, TurnsTaken, PTL DEF Spec


-----------------------------------------------------------------------------
(* The two copies of a field.                                              *)

FieldPair == {"field", "current-field"}

(* Nothing is done to a field.                                             *)
FieldsStay ==
  /\ bounds' = bounds
  /\ \A key : key[1] \in FieldPair =>
       (Stored(key)' <=> Stored(key)) /\ (Stored(key) => kv'[key] = kv[key])

LEMMA FieldKeys ==
  /\ \A i : CurrentField(i)[1] \in FieldPair /\ Field(i)[1] \in FieldPair
  /\ \A i, j : CurrentField(i) = CurrentField(j) => i = j
  /\ \A i, j : Field(i) = Field(j) => i = j
  /\ \A i, j : CurrentField(i) # Field(j)
<1>1. "field" # "current-field"
  OBVIOUS
<1>2. QED
  BY <1>1, KeysAre DEF FieldPair

LEMMA PairsStay ==
  ASSUME FieldsStay
  PROVE  Apart' = Apart /\ \A v : IsCurrent(v)' <=> IsCurrent(v)
<1>1. /\ \A i : Stored(CurrentField(i))' <=> Stored(CurrentField(i))
      /\ \A i : Stored(Field(i))' <=> Stored(Field(i))
      /\ \A i : Stored(CurrentField(i)) => kv'[CurrentField(i)] = kv[CurrentField(i)]
      /\ \A i : Stored(Field(i)) => kv'[Field(i)] = kv[Field(i)]
  BY FieldKeys DEF FieldsStay
<1>2. \A i : PairApart(i)' <=> PairApart(i)
  BY <1>1 DEF PairApart
<1>3. QED
  BY <1>1, <1>2 DEF Apart, FieldsStay, IsCurrent

LEMMA FieldsAsTheyWere ==
  ASSUME bounds' = bounds, kv' = kv
  PROVE  FieldsStay
BY DEF FieldsStay, Stored

(* A request with nothing to put leaves no pair to itself.                 *)
LEMMA NoneToPut ==
  ASSUME NEW r \in Requests, todo[r] = <<>>, FieldForm(r)
  PROVE  AtMost(Apart, crashes)
<1>1. DOMAIN todo[r] = {}
  BY ListsAre
<1>2. QED
  BY <1>1 DEF FieldForm, Posting, Posted, Closing, Closed

(* Who is alone has the invariant to restore.                              *)
LEMMA FieldsAlone ==
  ASSUME NEW r \in Requests, Turn(r), \A q \in Requests : q # r => (Idle(q)' <=> Idle(q)),
         bounds' = bounds, FieldForm(r)', Idle(r)' => AtMost(Apart, crashes)'
  PROVE  FieldTurns'
<1>1. \A q \in Requests : ~Idle(q)' => q = r
  BY DEF Turn
<1>2. Quiet' => Idle(r)'
  BY DEF Quiet
<1>3. QED
  BY <1>1, <1>2 DEF FieldTurns

(* A worker starts with no pair to itself.                                 *)
LEMMA FieldsPlanned ==
  ASSUME IInv, Sole, FieldTurns, bounds.oneByOne, NEW r \in Requests, NEW kinds, NEW ops,
         Does(r, kinds, ops),
         Plain(r)' \/ \E v : Posting(r, v)' \/ Closing(r, v)'
  PROVE  FieldTurns'
<1>1. Turn(r) /\ (Arrives(r) \/ ~Idle(r))
  BY InTurn DEF Does
<1>2. AtMost(Apart, crashes)
  <2>1. CASE Arrives(r)
    BY <2>1 DEF Arrives, FieldTurns
  <2>2. CASE ~Idle(r)
    BY <2>2, NoneToPut DEF FieldTurns, Does
  <2>3. QED
    BY <1>1, <2>1, <2>2
<1>3. bounds' = bounds /\ kv' = kv /\ crashes' = crashes
  BY DoesVersions
<1>4. Apart' = Apart
  BY <1>3, FieldsAsTheyWere, PairsStay
<1>5. AtMost(Apart, crashes)'
  BY <1>2, <1>3, <1>4 DEF AtMost
<1>6. FieldForm(r)'
  BY <1>5 DEF FieldForm
<1>7. \A q \in Requests : q # r => (Idle(q)' <=> Idle(q))
  BY DEF Does, Idle
<1>8. QED
  BY <1>1, <1>3, <1>5, <1>6, <1>7, FieldsAlone

LEMMA FieldsOthers ==
  ASSUME IInv, Sole, FieldTurns, bounds.oneByOne, NEW r \in Requests, NEW kinds, NEW ops,
         Does(r, kinds, ops), kinds \intersect FieldPair = {}
  PROVE  FieldTurns'
<1>1. Plain(r)'
  BY DEF Plain, Does, FieldPair
<1>2. QED
  BY <1>1, FieldsPlanned

LEMMA FieldKindsApart ==
  /\ PingFamily \intersect FieldPair = {}
  /\ NearFamily \intersect FieldPair = {}
  /\ ObjectFamily \intersect FieldPair = {}
  /\ EntryFamily \intersect FieldPair = {}
  /\ IndexKinds \intersect FieldPair = {}
BY DEF PingFamily, MovingFamily, ThrottleFamily, NearFamily, ObjectFamily, ClaimFamily,
       ProofFamily, EvidenceFamily, EntryFamily, FieldPair, IndexKinds

LEMMA FieldsWorked ==
  ASSUME IInv, Sole, FieldTurns, bounds.oneByOne, NEW r \in Requests, WorkerStep(r)
  PROVE  FieldTurns'
<1>1. CASE PostField(r)
  <2>1. PICK v : /\ todo'[r] = <<Writes(CurrentField(v.identity), v), Writes(Field(v.id), v)>>
                 /\ Does(r, {"field", "current-field"}, {})
    BY <1>1, PostFieldDoes
  <2>2. Posting(r, v)'
    <3>1. PICK a : a = Writes(CurrentField(v.identity), v)
      OBVIOUS
    <3>2. PICK b : b = Writes(Field(v.id), v)
      OBVIOUS
    <3>3. DOMAIN todo'[r] = {1, 2} /\ todo'[r][1] = a /\ todo'[r][2] = b
      BY <2>1, <3>1, <3>2, ListsAre
    <3>4. /\ IsWrite(a) /\ a.key = CurrentField(v.identity) /\ a.value = v
          /\ IsWrite(b) /\ b.key = Field(v.id) /\ b.value = v
      BY <3>1, <3>2, PutsAre
    <3>5. QED
      BY <3>3, <3>4 DEF Posting, WillWrite
  <2>3. QED
    BY <2>1, <2>2, FieldsPlanned
<1>2. CASE CloseField(r)
  <2>1. PICK v :
          /\ todo'[r] = <<Writes(Field(v.id), v), Refreshes(CurrentField(v.identity), v)>>
          /\ Does(r, {"field", "current-field"}, {})
    BY <1>2, CloseFieldDoes
  <2>2. Closing(r, v)'
    <3>1. PICK a : a = Writes(Field(v.id), v)
      OBVIOUS
    <3>2. PICK b : b = Refreshes(CurrentField(v.identity), v)
      OBVIOUS
    <3>3. DOMAIN todo'[r] = {1, 2} /\ todo'[r][1] = a /\ todo'[r][2] = b
      BY <2>1, <3>1, <3>2, ListsAre
    <3>4. /\ IsWrite(a) /\ a.key = Field(v.id) /\ a.value = v
          /\ ~IsWrite(b) /\ b.key = CurrentField(v.identity) /\ b.refresh = v
      BY <3>1, <3>2, PutsAre
    <3>5. QED
      BY <3>3, <3>4 DEF Closing, WillWrite, WillRefresh
  <2>3. QED
    BY <2>1, <2>2, FieldsPlanned
<1>3. CASE ReadToClose(r)
  <2>1. PICK by, k : StartReading(r, [op |-> "close", field |-> kv[k]])
    BY <1>3 DEF ReadToClose
  <2>2. Does(r, {}, {"close"})
    BY <2>1, StartDoes
  <2>3. QED
    BY <2>2, FieldsOthers
<1>4. CASE FieldStep(r) /\ ~PostField(r) /\ ~ReadToClose(r) /\ ~CloseField(r)
  <2>1. Does(r, NearFamily, NearOps)
    BY <1>4, NearDoes
  <2>2. QED
    BY <2>1, FieldsOthers, FieldKindsApart
<1>5. CASE PingStep(r) \/ ObjectStep(r) \/ EntryStep(r)
  <2>1. \/ Does(r, PingFamily, PingOps) \/ Does(r, ObjectFamily, ObjectOps)
        \/ Does(r, EntryFamily, EntryOps)
    BY <1>5, PingDoes, ObjectDoes, EntryDoes
  <2>2. QED
    BY <2>1, FieldsOthers, FieldKindsApart
<1>6. QED
  BY <1>1, <1>2, <1>3, <1>4, <1>5 DEF WorkerStep

LEMMA NoneLeftToPut ==
  ASSUME NEW r \in Requests, todo'[r] = <<>>, FieldForm(r)'
  PROVE  AtMost(Apart, crashes)'
<1>1. DOMAIN todo'[r] = {}
  BY ListsAre
<1>2. QED
  BY <1>1 DEF FieldForm, Posting, Posted, Closing, Closed

(* A put leaves every copy but the one it writes.                          *)
LEMMA PutLeaves ==
  ASSUME IInv, NEW r \in Requests, Put(r), NEW key, key[1] \in FieldPair,
         key # todo[r][1].key \/ ~Applied(r)
  PROVE  (Stored(key)' <=> Stored(key)) /\ (Stored(key) => kv'[key] = kv[key])
<1>1. key[1] # "session"
  BY DEF FieldPair
<1>2. QED
  BY <1>1, PutAwaits

(* The first put of a list is a write, or it is not.                       *)
LEMMA PutOfWrite ==
  ASSUME IInv, NEW r \in Requests, Put(r)
  PROVE  /\ IsWrite(todo[r][1]) => Applied(r)
         /\ bounds' = bounds /\ crashes' = crashes /\ crashes \in Nat
  BY PutEnds, PutVersions, CrashesAre DEF Resolved, Dropped, Deleted

(* What is left of a list of one or two.                                   *)
LEMMA WhatIsLeft ==
  ASSUME NEW r, Leaving(todo[r], todo'[r])
  PROVE  /\ DOMAIN todo[r] = {1} => DOMAIN todo'[r] = {}
         /\ DOMAIN todo[r] = {1, 2} => DOMAIN todo'[r] = {1} /\ todo'[r][1] = todo[r][2]
<1>1. ASSUME DOMAIN todo[r] = {1} PROVE DOMAIN todo'[r] = {}
  <2>1. \A n \in DOMAIN todo'[r] : n \in Nat \ {0} /\ n + 1 = 1
    BY <1>1 DEF Leaving, Shifts
  <2>2. QED
    BY <2>1
<1>2. ASSUME DOMAIN todo[r] = {1, 2} PROVE DOMAIN todo'[r] = {1} /\ todo'[r][1] = todo[r][2]
  <2>1. \A n \in DOMAIN todo'[r] : n = 1
    <3>1. \A n \in DOMAIN todo'[r] : n \in Nat \ {0} /\ n + 1 \in {1, 2}
      BY <1>2 DEF Leaving, Shifts
    <3>2. QED
      BY <3>1
  <2>2. 2 - 1 \in DOMAIN todo'[r] /\ todo'[r][2 - 1] = todo[r][2]
    BY <1>2 DEF Leaving
  <2>3. QED
    BY <2>1, <2>2
<1>3. QED
  BY <1>1, <1>2

LEMMA PutPlain ==
  ASSUME IInv, NEW r \in Requests, Put(r), Plain(r), AtMost(Apart, crashes)
  PROVE  FieldForm(r)'
<1>1. 1 \in DOMAIN todo[r]
  BY PutVersions
<1>2. todo[r][1].key[1] \notin FieldPair
  BY <1>1 DEF Plain, FieldPair
<1>3. FieldsStay
  <2>1. \A key : key[1] \in FieldPair => key # todo[r][1].key
    BY <1>2
  <2>2. QED
    BY <2>1, PutLeaves, PutOfWrite DEF FieldsStay
<1>4. Plain(r)'
  <2>1. CASE Leaving(todo[r], todo'[r])
    BY <2>1 DEF Plain, Leaving, Shifts
  <2>2. ASSUME NEW w, Resolved(r, w) PROVE Plain(r)'
    <3>1. /\ DOMAIN todo'[r] = DOMAIN todo[r] /\ todo'[r][1].key = todo[r][1].key
          /\ \A n \in DOMAIN todo[r] : n # 1 => todo'[r][n] = todo[r][n]
      BY <2>2 DEF Resolved, Pushes
    <3>2. ASSUME NEW n \in DOMAIN todo'[r]
          PROVE  todo'[r][n].key[1] \notin {"field", "current-field"}
      BY <1>1, <3>1, <3>2 DEF Plain
    <3>3. QED
      BY <3>2 DEF Plain
  <2>3. QED
    BY <2>1, <2>2, PutEnds DEF Applied, Dropped, Deleted
<1>5. AtMost(Apart, crashes)'
  <2>1. Apart' = Apart
    BY <1>3, PairsStay
  <2>2. QED
    BY <2>1, PutOfWrite DEF AtMost
<1>6. QED
  BY <1>4, <1>5 DEF FieldForm

(* A copy of the field v of an identity is written, as one by identifier.  *)
LEMMA PutField ==
  ASSUME IInv, NEW r \in Requests, Put(r), NEW v, WillWrite(r, 1, Field(v.id), v)
  PROVE  /\ Stored(Field(v.id))' /\ kv'[Field(v.id)] = v
         /\ \A i : Stored(CurrentField(i))' <=> Stored(CurrentField(i))
         /\ \A i : Stored(CurrentField(i)) => kv'[CurrentField(i)] = kv[CurrentField(i)]
         /\ \A i : i # v.identity /\ PairApart(i)' => PairApart(i)
         /\ PairApart(v.identity)' => IsCurrent(v) \/ PairApart(v.identity)
<1>1. Applied(r) /\ todo[r][1].key = Field(v.id) /\ todo[r][1].value = v
  BY PutOfWrite DEF WillWrite
<1>2. Stored(Field(v.id))' /\ kv'[Field(v.id)] = v
  BY <1>1 DEF Applied, Stored
<1>3. ASSUME NEW i
      PROVE  /\ Stored(CurrentField(i))' <=> Stored(CurrentField(i))
             /\ Stored(CurrentField(i)) => kv'[CurrentField(i)] = kv[CurrentField(i)]
  BY <1>1, FieldKeys, PutLeaves
<1>4. ASSUME NEW f, f # v.id
      PROVE  /\ Stored(Field(f))' <=> Stored(Field(f))
             /\ Stored(Field(f)) => kv'[Field(f)] = kv[Field(f)]
  BY <1>1, <1>4, FieldKeys, PutLeaves
<1>5. ASSUME NEW i, PairApart(i)', i # v.identity \/ ~IsCurrent(v)
      PROVE  PairApart(i)
  <2>1. PICK f : f = kv[CurrentField(i)].id
    OBVIOUS
  <2>2. /\ Stored(CurrentField(i)) /\ kv'[CurrentField(i)] = kv[CurrentField(i)]
        /\ Stored(Field(f))' /\ kv'[Field(f)].identity = i
        /\ kv'[Field(f)].active # kv[CurrentField(i)].active
    BY <1>3, <1>5, <2>1 DEF PairApart
  <2>3. f # v.id
    <3>1. ASSUME f = v.id PROVE FALSE
      <4>1. i = v.identity
        BY <1>2, <2>2, <3>1
      <4>2. IsCurrent(v)
        BY <2>1, <2>2, <3>1, <4>1 DEF IsCurrent
      <4>3. QED
        BY <1>5, <4>1, <4>2
    <3>2. QED
      BY <3>1
  <2>4. QED
    BY <1>4, <2>1, <2>2, <2>3 DEF PairApart
<1>6. QED
  BY <1>2, <1>3, <1>5

(* The current copy of the field v of an identity is written.              *)
LEMMA PutCurrentField ==
  ASSUME IInv, NEW r \in Requests, Put(r), NEW v,
         WillWrite(r, 1, CurrentField(v.identity), v)
  PROVE  /\ Stored(CurrentField(v.identity))' /\ kv'[CurrentField(v.identity)] = v
         /\ \A f : Stored(Field(f))' <=> Stored(Field(f))
         /\ \A f : Stored(Field(f)) => kv'[Field(f)] = kv[Field(f)]
         /\ \A i : i # v.identity /\ PairApart(i)' => PairApart(i)
<1>1. /\ Applied(r) /\ todo[r][1].key = CurrentField(v.identity) /\ todo[r][1].value = v
  BY PutOfWrite DEF WillWrite
<1>2. Stored(CurrentField(v.identity))' /\ kv'[CurrentField(v.identity)] = v
  BY <1>1 DEF Applied, Stored
<1>3. ASSUME NEW f
      PROVE  /\ Stored(Field(f))' <=> Stored(Field(f))
             /\ Stored(Field(f)) => kv'[Field(f)] = kv[Field(f)]
  BY <1>1, FieldKeys, PutLeaves
<1>4. ASSUME NEW i, i # v.identity
      PROVE  /\ Stored(CurrentField(i))' <=> Stored(CurrentField(i))
             /\ Stored(CurrentField(i)) => kv'[CurrentField(i)] = kv[CurrentField(i)]
  BY <1>1, <1>4, FieldKeys, PutLeaves
<1>5. ASSUME NEW i, i # v.identity, PairApart(i)' PROVE PairApart(i)
  BY <1>3, <1>4, <1>5 DEF PairApart
<1>6. QED
  BY <1>2, <1>3, <1>5

(* Counts of pairs, all of them or all but one.                            *)
LEMMA FewerPairs ==
  ASSUME bounds' = bounds, crashes' = crashes, crashes \in Nat
  PROVE  /\ (\A i : PairApart(i)' => PairApart(i)) /\ AtMost(Apart, crashes)
              => AtMost(Apart, crashes)'
         /\ \A j : /\ (\A i : i # j /\ PairApart(i)' => PairApart(i))
                   /\ AtMost(Apart, crashes) \/ AtMost(Apart \ {j}, crashes)
                   => AtMost(Apart \ {j}, crashes)'
         /\ \A j : /\ (\A i : i # j /\ PairApart(i)' => PairApart(i))
                   /\ ~PairApart(j)'
                   /\ AtMost(Apart \ {j}, crashes)
                   => AtMost(Apart, crashes)'
<1>1. PICK S : S = Apart
  OBVIOUS
<1>2. PICK T : T = Apart'
  OBVIOUS
<1>3. PICK c \in Nat : c = crashes
  OBVIOUS
<1>4. \A i : i \in S <=> i \in bounds.pool["current-field"] /\ PairApart(i)
  BY <1>1 DEF Apart
<1>5. \A i : i \in T <=> i \in bounds.pool["current-field"] /\ PairApart(i)'
  BY <1>2 DEF Apart
<1>6. \A U, V : AtMost(U, c) /\ V \subseteq U => AtMost(V, c)
  BY AtMostFewer
<1>7. ASSUME \A i : PairApart(i)' => PairApart(i), AtMost(S, c) PROVE AtMost(T, c)
  BY <1>4, <1>5, <1>6, <1>7
<1>8. ASSUME NEW j, \A i : i # j /\ PairApart(i)' => PairApart(i),
             AtMost(S, c) \/ AtMost(S \ {j}, c)
      PROVE  AtMost(T \ {j}, c)
  <2>1. T \ {j} \subseteq S \ {j} /\ T \ {j} \subseteq S
    BY <1>4, <1>5, <1>8
  <2>2. QED
    BY <1>6, <1>8, <2>1
<1>9. ASSUME NEW j, \A i : i # j /\ PairApart(i)' => PairApart(i), ~PairApart(j)',
             AtMost(S \ {j}, c)
      PROVE  AtMost(T, c)
  <2>1. T \subseteq S \ {j}
    BY <1>4, <1>5, <1>9
  <2>2. QED
    BY <1>6, <1>9, <2>1
<1>10. (AtMost(Apart, crashes)' <=> AtMost(T, c))
       /\ \A j : AtMost(Apart \ {j}, crashes)' <=> AtMost(T \ {j}, c)
  BY <1>2, <1>3 DEF AtMost
<1>11. QED
  BY <1>1, <1>3, <1>7, <1>8, <1>9, <1>10

LEMMA PutPosting ==
  ASSUME IInv, NEW r \in Requests, Put(r), NEW v, Posting(r, v), AtMost(Apart, crashes)
  PROVE  FieldForm(r)'
<1>1. WillWrite(r, 1, CurrentField(v.identity), v) /\ WillWrite(r, 2, Field(v.id), v)
  BY DEF Posting
<1>2. /\ Stored(CurrentField(v.identity))' /\ kv'[CurrentField(v.identity)] = v
      /\ \A i : i # v.identity /\ PairApart(i)' => PairApart(i)
  BY <1>1, PutCurrentField
<1>3. AtMost(Apart \ {v.identity}, crashes)'
  BY <1>2, FewerPairs, PutOfWrite
<1>4. DOMAIN todo'[r] = {1} /\ todo'[r][1] = todo[r][2]
  BY <1>1, PutOfWrite, WhatIsLeft DEF Posting, WillWrite, Applied
<1>5. Posted(r, v)'
  BY <1>1, <1>2, <1>4 DEF Posted, WillWrite
<1>6. QED
  BY <1>3, <1>5 DEF FieldForm

LEMMA PutPosted ==
  ASSUME IInv, NEW r \in Requests, Put(r), NEW v, Posted(r, v),
         AtMost(Apart \ {v.identity}, crashes)
  PROVE  FieldForm(r)'
<1>1. /\ WillWrite(r, 1, Field(v.id), v)
      /\ Stored(CurrentField(v.identity)) /\ kv[CurrentField(v.identity)] = v
  BY DEF Posted
<1>2. /\ Stored(Field(v.id))' /\ kv'[Field(v.id)] = v
      /\ kv'[CurrentField(v.identity)] = v
      /\ \A i : i # v.identity /\ PairApart(i)' => PairApart(i)
  BY <1>1, PutField
<1>3. ~PairApart(v.identity)'
  BY <1>2 DEF PairApart
<1>4. AtMost(Apart, crashes)'
  BY <1>2, <1>3, FewerPairs, PutOfWrite
<1>5. DOMAIN todo'[r] = {}
  BY <1>1, PutOfWrite, WhatIsLeft DEF Posted, WillWrite, Applied
<1>6. QED
  BY <1>4, <1>5 DEF FieldForm, Plain

LEMMA PutClosing ==
  ASSUME IInv, NEW r \in Requests, Put(r), NEW v, Closing(r, v), AtMost(Apart, crashes)
  PROVE  FieldForm(r)'
<1>1. WillWrite(r, 1, Field(v.id), v) /\ WillRefresh(r, 2, v)
  BY DEF Closing
<1>2. /\ Stored(Field(v.id))' /\ kv'[Field(v.id)] = v
      /\ \A i : Stored(CurrentField(i))' <=> Stored(CurrentField(i))
      /\ \A i : Stored(CurrentField(i)) => kv'[CurrentField(i)] = kv[CurrentField(i)]
      /\ \A i : i # v.identity /\ PairApart(i)' => PairApart(i)
      /\ PairApart(v.identity)' => IsCurrent(v) \/ PairApart(v.identity)
  BY <1>1, PutField
<1>3. AtMost(Apart \ {v.identity}, crashes)'
  BY <1>2, FewerPairs, PutOfWrite
<1>4. IsCurrent(v)' <=> IsCurrent(v)
  BY <1>2 DEF IsCurrent
<1>5. IsCurrent(v)' \/ AtMost(Apart, crashes)'
  <2>1. CASE ~IsCurrent(v)
    <3>1. \A i : PairApart(i)' => PairApart(i)
      BY <1>2, <2>1
    <3>2. QED
      BY <3>1, FewerPairs, PutOfWrite
  <2>2. QED
    BY <1>4, <2>1
<1>6. DOMAIN todo'[r] = {1} /\ todo'[r][1] = todo[r][2]
  BY <1>1, PutOfWrite, WhatIsLeft DEF Closing, WillWrite, Applied
<1>7. Closed(r, v)'
  BY <1>1, <1>2, <1>6 DEF Closed, WillRefresh
<1>8. QED
  BY <1>3, <1>5, <1>7 DEF FieldForm

(* The current copy of a field that was closed is read again: it is to be
   written, if it is the same field, and else left.                        *)
LEMMA PutClosed ==
  ASSUME IInv, NEW r \in Requests, Put(r), NEW v, Closed(r, v),
         AtMost(Apart \ {v.identity}, crashes),
         IsCurrent(v) \/ AtMost(Apart, crashes)
  PROVE  FieldForm(r)'
<1>1. /\ DOMAIN todo[r] = {1}
      /\ WillRefresh(r, 1, v) \/ WillWrite(r, 1, CurrentField(v.identity), v)
      /\ Stored(Field(v.id)) /\ kv[Field(v.id)] = v
      /\ bounds' = bounds /\ crashes' = crashes
  BY PutOfWrite DEF Closed
<1>2. CASE WillWrite(r, 1, CurrentField(v.identity), v)
  <2>1. /\ Stored(CurrentField(v.identity))' /\ kv'[CurrentField(v.identity)] = v
        /\ kv'[Field(v.id)] = v
        /\ \A i : i # v.identity /\ PairApart(i)' => PairApart(i)
    BY <1>1, <1>2, PutCurrentField
  <2>2. ~PairApart(v.identity)'
    BY <2>1 DEF PairApart
  <2>3. AtMost(Apart, crashes)'
    BY <2>1, <2>2, FewerPairs, PutOfWrite
  <2>4. DOMAIN todo'[r] = {}
    BY <1>1, <1>2, PutOfWrite, WhatIsLeft DEF WillWrite, Applied
  <2>5. QED
    BY <2>3, <2>4 DEF FieldForm, Plain
<1>3. CASE WillRefresh(r, 1, v)
  <2>1. /\ ~IsWrite(todo[r][1]) /\ todo[r][1].key = CurrentField(v.identity)
        /\ todo[r][1].refresh = v /\ todo[r][1].key[1] = "current-field"
    BY <1>3, KeysAre DEF WillRefresh
  <2>2. ~Applied(r) /\ ~Deleted(r)
    BY <2>1 DEF Applied, Deleted
  <2>3. ASSUME kv' = kv
        PROVE  /\ (AtMost(Apart, crashes) => AtMost(Apart, crashes)')
               /\ AtMost(Apart \ {v.identity}, crashes)'
               /\ IsCurrent(v)' <=> IsCurrent(v)
    <3>1. Apart' = Apart /\ (IsCurrent(v)' <=> IsCurrent(v))
      BY <1>1, <2>3, FieldsAsTheyWere, PairsStay
    <3>2. QED
      BY <1>1, <3>1 DEF AtMost
  <2>4. CASE Dropped(r)
    <3>1. kv' = kv /\ ~IsCurrent(v) /\ Leaving(todo[r], todo'[r])
      BY <2>1, <2>4 DEF Dropped, IsCurrent
    <3>2. AtMost(Apart, crashes)'
      BY <2>3, <3>1
    <3>3. DOMAIN todo'[r] = {}
      BY <1>1, <3>1, WhatIsLeft
    <3>4. QED
      BY <3>2, <3>3 DEF FieldForm, Plain
  <2>5. ASSUME NEW w, Resolved(r, w) PROVE FieldForm(r)'
    <3>1. todo[r][1].key[1] \notin IndexKinds
      BY <2>1, FieldKindsApart DEF FieldPair
    <3>2. /\ kv' = kv /\ IsWrite(w) /\ w.key = CurrentField(v.identity) /\ w.value = v
          /\ DOMAIN todo'[r] = {1} /\ todo'[r][1] = w
      BY <1>1, <2>1, <2>5, <3>1 DEF Resolved, Pushes
    <3>3. Closed(r, v)'
      BY <1>1, <3>2 DEF Closed, WillWrite, Stored
    <3>4. /\ AtMost(Apart \ {v.identity}, crashes)'
          /\ IsCurrent(v)' \/ AtMost(Apart, crashes)'
      BY <2>3, <3>2
    <3>5. QED
      BY <3>3, <3>4 DEF FieldForm
  <2>6. QED
    BY <2>2, <2>4, <2>5, PutEnds
<1>4. QED
  BY <1>1, <1>2, <1>3

LEMMA FieldsPut ==
  ASSUME IInv, Sole, FieldTurns, bounds.oneByOne, NEW r \in Requests, Put(r)
  PROVE  FieldTurns'
<1>1. /\ ~Idle(r) /\ bounds' = bounds /\ reading' = reading
      /\ \A q \in Requests : q # r => todo'[q] = todo[q]
  BY PutVersions
<1>2. Turn(r) /\ FieldForm(r)
  BY <1>1, InTurn DEF FieldTurns
<1>3. FieldForm(r)'
  BY <1>2, PutPlain, PutPosting, PutPosted, PutClosing, PutClosed DEF FieldForm
<1>4. Idle(r)' => AtMost(Apart, crashes)'
  BY <1>3, NoneLeftToPut DEF Idle
<1>5. \A q \in Requests : q # r => (Idle(q)' <=> Idle(q))
  BY <1>1 DEF Idle
<1>6. QED
  BY <1>1, <1>2, <1>3, <1>4, <1>5, FieldsAlone

(* Whoever is cut off leaves one pair apart at most.                       *)
LEMMA FieldsCutOff ==
  ASSUME IInv, Sole, FieldTurns, bounds.oneByOne, NEW r \in Requests, Crash(r)
  PROVE  FieldTurns'
<1>1. /\ bounds' = bounds /\ kv' = kv /\ crashes' = crashes + 1 /\ crashes \in Nat
      /\ todo'[r] = <<>> /\ reading'[r] = None
      /\ \A q \in Requests : q # r => todo'[q] = todo[q] /\ reading'[q] = reading[q]
      /\ ~Idle(r)
  BY CrashVersions, CrashesAre DEF Crash
<1>2. Turn(r) /\ FieldForm(r)
  BY <1>1, InTurn DEF FieldTurns
<1>3. AtMost(Apart, crashes) \/ \E i : AtMost(Apart \ {i}, crashes)
  BY <1>2 DEF FieldForm
<1>4. AtMost(Apart, crashes)'
  <2>1. PICK S : S = Apart
    OBVIOUS
  <2>2. PICK c \in Nat : c = crashes
    BY <1>1
  <2>3. ASSUME NEW i, AtMost(S \ {i}, c) PROVE AtMost(S, c + 1)
    <3>1. PICK T : T = S \ {i}
      OBVIOUS
    <3>2. c \in Int /\ AtMost(T, c) /\ S \subseteq T \union {i}
      BY <2>3, <3>1
    <3>3. QED
      BY <3>2, AtMostOneMore
  <2>4. AtMost(S, c + 1)
    <3>1. CASE AtMost(S, c)
      <4>1. c \in Int /\ c + 1 \in Int /\ c <= c + 1
        OBVIOUS
      <4>2. QED
        BY <3>1, <4>1, AtMostFewer
    <3>2. QED
      BY <1>3, <2>1, <2>2, <2>3, <3>1
  <2>5. Apart' = Apart
    BY <1>1, FieldsAsTheyWere, PairsStay
  <2>6. QED
    BY <1>1, <2>1, <2>2, <2>4, <2>5 DEF AtMost
<1>5. Plain(r)'
  BY <1>1, ListsAre DEF Plain
<1>6. FieldForm(r)'
  BY <1>4, <1>5 DEF FieldForm
<1>7. \A q \in Requests : q # r => (Idle(q)' <=> Idle(q))
  BY <1>1 DEF Idle
<1>8. QED
  BY <1>1, <1>2, <1>4, <1>6, <1>7, FieldsAlone

LEMMA FieldsUntouched ==
  ASSUME FieldTurns, FieldsStay, todo' = todo, reading' = reading, crashes' = crashes
  PROVE  FieldTurns'
<1>1. bounds' = bounds /\ Apart' = Apart /\ \A v : IsCurrent(v)' <=> IsCurrent(v)
  BY PairsStay DEF FieldsStay
<1>2. /\ AtMost(Apart, crashes) => AtMost(Apart, crashes)'
      /\ \A i : AtMost(Apart \ {i}, crashes) => AtMost(Apart \ {i}, crashes)'
  BY <1>1 DEF AtMost
<1>3. /\ \A i : Stored(CurrentField(i))' <=> Stored(CurrentField(i))
      /\ \A i : Stored(Field(i))' <=> Stored(Field(i))
      /\ \A i : Stored(CurrentField(i)) => kv'[CurrentField(i)] = kv[CurrentField(i)]
      /\ \A i : Stored(Field(i)) => kv'[Field(i)] = kv[Field(i)]
  BY FieldKeys DEF FieldsStay
<1>4. ASSUME NEW r \in Requests, FieldForm(r) PROVE FieldForm(r)'
  <2>1. /\ Plain(r) => Plain(r)'
        /\ \A v : Posting(r, v) => Posting(r, v)'
        /\ \A v : Closing(r, v) => Closing(r, v)'
    BY DEF Plain, Posting, Closing, WillWrite, WillRefresh
  <2>2. /\ \A v : Posted(r, v) => Posted(r, v)'
        /\ \A v : Closed(r, v) => Closed(r, v)'
    BY <1>3 DEF Posted, Closed, WillWrite, WillRefresh
  <2>3. QED
    BY <1>1, <1>2, <1>4, <2>1, <2>2 DEF FieldForm
<1>5. Quiet' <=> Quiet
  BY DEF Quiet, Idle
<1>6. \A r \in Requests : Idle(r)' <=> Idle(r)
  BY DEF Idle
<1>7. QED
  BY <1>1, <1>2, <1>4, <1>5, <1>6 DEF FieldTurns

LEMMA FieldsNext ==
  ASSUME IInv, Sole, FieldTurns, [Next]_vars
  PROVE  FieldTurns'
<1>1. bounds' = bounds
  BY StepsAre, WorkerDoes, DoesVersions, PutVersions, CrashVersions, ExpireVersions, NothingDone
<1>2. CASE ~bounds.oneByOne
  BY <1>1, <1>2 DEF FieldTurns
<1>3. ASSUME NEW t \in Chosen("setup"), ExpireToken(t) PROVE FieldTurns'
  <2>1. FieldsStay /\ todo' = todo /\ reading' = reading /\ crashes' = crashes
    <3>1. \A key : key[1] \in FieldPair => key # Setup(t)
      BY MoreKeysAre DEF FieldPair
    <3>2. QED
      BY <1>3, <3>1, ExpireVersions DEF FieldsStay
  <2>2. QED
    BY <2>1, FieldsUntouched
<1>4. CASE UNCHANGED vars
  BY <1>4, NothingDone, FieldsAsTheyWere, FieldsUntouched
<1>5. QED
  BY <1>2, <1>3, <1>4, FieldsWorked, FieldsPut, FieldsCutOff, StepsAre

LEMMA InitFields ==
  ASSUME Init
  PROVE  FieldTurns
<1>1. /\ \A i : ~Stored(CurrentField(i))
      /\ \A r \in Requests : Idle(r)
      /\ crashes = 0
  BY InitHas, KeysAre DEF Idle
<1>2. Apart = {}
  BY <1>1 DEF Apart, PairApart
<1>3. AtMost(Apart, crashes)
  BY <1>1, <1>2, NoneAtMost
<1>4. QED
  BY <1>1, <1>3 DEF FieldTurns

LEMMA FieldsCounted ==
  ASSUME IInv, FieldTurns
  PROVE  CopiesAgree
<1>1. ASSUME bounds.oneByOne, Quiet,
             NEW S, S = {i \in bounds.pool["current-field"] :
                           /\ Stored(CurrentField(i))
                           /\ LET f == kv[CurrentField(i)].id
                              IN  /\ Stored(Field(f))
                                  /\ kv[Field(f)].identity = i
                                  /\ kv[Field(f)].active # kv[CurrentField(i)].active}
      PROVE  Cardinality(S) <= crashes
  <2>1. S = Apart
    BY <1>1 DEF Apart, PairApart
  <2>2. QED
    BY <1>1, <2>1 DEF FieldTurns, AtMost
<1>2. QED
  BY <1>1 DEF CopiesAgree, Chosen

(* Where requests come one at a time, no more fields are open by one copy
   and closed by the other than requests were cut off between the two puts:
   posting and closing put both, and closing leaves a current copy that is
   of another field.                                                       *)
THEOREM TurnsCopies == Spec => []CopiesAgree
<1>1. Init => FieldTurns
  BY InitFields
<1>2. IInv /\ Sole /\ FieldTurns /\ [Next]_vars => FieldTurns'
  BY FieldsNext
<1>3. IInv /\ FieldTurns => CopiesAgree
  BY FieldsCounted
<1>4. QED
  BY <1>1, <1>2, <1>3, WorkersFit, TurnsTaken, PTL DEF Spec

-----------------------------------------------------------------------------
(* The claims that objects name.                                           *)

ClaimPair == {"object", "object-claim"}

LEMMA ClaimKinds ==
  /\ \A i : Object(i)[1] \in ClaimPair /\ Claim(i)[1] \in ClaimPair
  /\ \A i, j : Object(i) = Object(j) => i = j
  /\ \A i, j : Claim(i) = Claim(j) => i = j
  /\ \A i, j : Object(i) # Claim(j)
  /\ ClaimPair \intersect DullKinds = {} /\ "session" \notin ClaimPair
  /\ ClaimPair \intersect PingFamily = {}
  /\ ClaimPair \intersect FieldFamily = {}
  /\ ClaimPair \intersect ProofFamily = {}
  /\ ClaimPair \intersect EvidenceFamily = {}
  /\ ClaimPair \intersect EntryFamily = {}
<1>1. "object" # "object-claim"
  OBVIOUS
<1>2. QED
  BY <1>1, MoreKeysAre
  DEF ClaimPair, DullKinds, IndexKinds, PingFamily, MovingFamily, ThrottleFamily, FieldFamily,
      NearFamily, ProofFamily, EvidenceFamily, EntryFamily

(* What will be stored when the puts are made, before a step and after.    *)
LEMMA LatterIs ==
  ASSUME NEW key
  PROVE  /\ \A v : v \in Latter(key) <=>
               \/ Awaited(key) /\ v \in Upcoming(key)
               \/ ~Awaited(key) /\ Stored(key) /\ v = kv[key]
         /\ \A v : v \in Latter(key)' <=>
               \/ Awaited(key)' /\ v \in Upcoming(key)'
               \/ ~Awaited(key)' /\ Stored(key)' /\ v = kv'[key]
  BY DEF Latter

(* Before a worker that is alone decides, this is what is stored.          *)
LEMMA LatterStored ==
  ASSUME NEW r \in Requests, Turn(r), todo[r] = <<>>, NEW key
  PROVE  /\ ~Awaited(key)
         /\ \A v : v \in Latter(key) <=> Stored(key) /\ v = kv[key]
<1>1. DOMAIN todo[r] = {}
  BY ListsAre
<1>2. ~Awaited(key)
  BY <1>1, TurnHas
<1>3. QED
  BY <1>2, LatterIs

(* After it, what it will put comes before what is stored.                 *)
LEMMA LatterPlanned ==
  ASSUME IInv, NEW r \in Requests, Turn(r), NEW kinds, NEW ops, Does(r, kinds, ops),
         NEW key, NEW v \in Latter(key)'
  PROVE  \/ \E n \in DOMAIN todo'[r] : /\ IsWrite(todo'[r][n]) /\ todo'[r][n].key = key
                                       /\ todo'[r][n].value = v
         \/ /\ \A n \in DOMAIN todo'[r] : todo'[r][n].key # key
            /\ Stored(key) /\ v = kv[key]
<1>1. \/ Awaited(key)' /\ v \in Upcoming(key)'
      \/ ~Awaited(key)' /\ Stored(key)' /\ v = kv'[key]
  BY LatterIs
<1>2. \A q \in Requests : \A n \in DOMAIN todo'[q] : q = r
  <2>1. \A q \in Requests : q # r => todo'[q] = <<>>
    BY DEF Does, Turn, Idle
  <2>2. QED
    BY <2>1, ListsAre
<1>3. CASE v \in Upcoming(key)'
  BY <1>2, <1>3, VersionsAre
<1>4. CASE ~Awaited(key)' /\ Stored(key)' /\ v = kv'[key]
  BY <1>4 DEF Does, Awaited, Stored
<1>5. QED
  BY <1>1, <1>3, <1>4

(* The claim an object names is stored.                                    *)
LEMMA NamedClaim ==
  ASSUME IInv, NEW o, Stored(Object(o)), kv[Object(o)].claim # None
  PROVE  Stored(Claim(kv[Object(o)].claim))
<1>1. PICK v : v = kv[Object(o)]
  OBVIOUS
<1>2. Good(bounds, Facts(kv), Object(o), v)
  BY <1>1, StoredFits
<1>3. OfObject(bounds, Facts(kv), Claim(v.claim), o, v.owner)
  BY <1>1, <1>2, MoreKeysAre DEF Good, Rests, ObjectRests
<1>4. PICK f \in Facts(kv) : f.key = Claim(v.claim)
  BY <1>3 DEF OfObject
<1>5. f.key \in DOMAIN kv
  BY FactsAre
<1>6. QED
  BY <1>1, <1>4, <1>5 DEF Stored

(* Whoever is alone sees what is stored.                                   *)
LEMMA StoredNotOver ==
  ASSUME NoneOver, NEW r \in Requests, Turn(r), todo[r] = <<>>,
         NEW o \in bounds.pool["object"], Stored(Object(o)), kv[Object(o)].claim # None,
         Stored(Claim(kv[Object(o)].claim)), kv[Claim(kv[Object(o)].claim)].object = o
  PROVE  kv[Claim(kv[Object(o)].claim)].status \notin Over
<1>1. PICK v : v = kv[Object(o)]
  OBVIOUS
<1>2. v \in Latter(Object(o)) /\ kv[Claim(v.claim)] \in Latter(Claim(v.claim))
  BY <1>1, LatterStored
<1>3. QED
  BY <1>1, <1>2 DEF NoneOver

(* A worker that plans no object and no claim.                             *)
LEMMA ClaimsAside ==
  ASSUME IInv, NoneOver, NEW r \in Requests, Turn(r), NEW kinds, NEW ops,
         Does(r, kinds, ops), kinds \intersect ClaimPair = {}
  PROVE  NoneOver'
<1>1. /\ bounds' = bounds /\ kv' = kv
      /\ \A key : key[1] \notin kinds =>
           (Awaited(key)' <=> Awaited(key)) /\ Upcoming(key)' = Upcoming(key)
      /\ \A key : Stored(key)' <=> Stored(key)
  BY DoesVersions
<1>2. \A key : key[1] \in ClaimPair => Latter(key)' = Latter(key)
  BY <1>1 DEF Latter
<1>3. /\ \A o : Latter(Object(o))' = Latter(Object(o))
      /\ \A c : Latter(Claim(c))' = Latter(Claim(c))
  BY <1>2, ClaimKinds
<1>4. QED
  BY <1>1, <1>3 DEF NoneOver

(* The copies of a worker that has gone on.                                *)
LEMMA CopiesAside ==
  ASSUME IInv, NEW r \in Requests, Turn(r), NEW kinds, NEW ops, Does(r, kinds, ops),
         ops \intersect ClaimOps = {} \/ reading'[r] = None
  PROVE  \A q \in Requests : CopyHeld(q)'
<1>1. \A q \in Requests : q # r => reading'[q] = None
  BY DEF Does, Turn, Idle
<1>2. \A q \in Requests : reading'[q] # None => q = r /\ reading'[r].op \notin ClaimOps
  BY <1>1 DEF Does
<1>3. QED
  BY <1>2 DEF CopyHeld, ClaimOps

(* An object is posted with no claim.                                      *)
LEMMA PostNotOver ==
  ASSUME IInv, NoneOver, NEW r \in Requests, Turn(r), PostObject(r)
  PROVE  NoneOver'
<1>1. PICK ob, u, a : /\ a = Writes(Object(ob), u) /\ u.claim = None
                      /\ Does(r, ClaimFamily, ClaimOps)
                      /\ DOMAIN todo'[r] = {1} /\ todo'[r][1] = a
  BY PostObjectDoes
<1>2. a.key = Object(ob) /\ a.value = u
  BY <1>1, PutsAre
<1>3. SUFFICES ASSUME NEW o \in bounds.pool["object"], NEW v \in Latter(Object(o))',
                      v.claim # None, NEW w \in Latter(Claim(v.claim))', w.object = o
               PROVE  w.status \notin Over
  <2>1. bounds' = bounds
    BY <1>1, DoesVersions
  <2>2. QED
    BY <1>3, <2>1 DEF NoneOver
<1>4. Stored(Object(o)) /\ v = kv[Object(o)]
  BY <1>1, <1>2, <1>3, LatterPlanned
<1>5. Stored(Claim(v.claim)) /\ w = kv[Claim(v.claim)]
  BY <1>1, <1>2, <1>3, LatterPlanned, ClaimKinds
<1>6. todo[r] = <<>>
  BY <1>1 DEF Does
<1>7. QED
  BY <1>3, <1>4, <1>5, <1>6, StoredNotOver

(* A claim that is made is not over, and nor is the one it leaves named.   *)
LEMMA ClaimNotOver ==
  ASSUME IInv, NoneOver, Begun, NEW r \in Requests, Turn(r), CopyHeld(r), ClaimObject(r)
  PROVE  NoneOver'
<1>1. /\ HasRead(r, "claim-latest") /\ Does(r, ClaimFamily, ClaimOps)
      /\ \/ DOMAIN todo'[r] = {}
         \/ \E c, v, w, a, b, d :
              /\ a = Writes(Claim(c), v) /\ b.key[1] = "claims-by"
              /\ d = Writes(Object(reading[r].id), w)
              /\ v.status \in PostedClaims
              /\ w.claim = c \/ w = reading[r].object
              /\ DOMAIN todo'[r] = {1, 2, 3}
              /\ todo'[r][1] = a /\ todo'[r][2] = b /\ todo'[r][3] = d
  BY ClaimObjectDoes
<1>2. CASE DOMAIN todo'[r] = {}
  <2>1. Does(r, {}, ClaimOps)
    BY <1>1, <1>2 DEF Does
  <2>2. QED
    BY <2>1, ClaimsAside
<1>3. CASE DOMAIN todo'[r] # {}
  <2>1. PICK x : x = reading[r]
    OBVIOUS
  <2>2. PICK c, vc, wo, a, b, d :
          /\ a = Writes(Claim(c), vc) /\ b.key[1] = "claims-by"
          /\ d = Writes(Object(x.id), wo)
          /\ vc.status \in PostedClaims
          /\ wo.claim = c \/ wo = x.object
          /\ DOMAIN todo'[r] = {1, 2, 3}
          /\ todo'[r][1] = a /\ todo'[r][2] = b /\ todo'[r][3] = d
    BY <1>1, <1>3, <2>1
  <2>3. /\ a.key = Claim(c) /\ a.value = vc
        /\ d.key = Object(x.id) /\ d.value = wo
        /\ b.key[1] \notin ClaimPair
    BY <2>2, PutsAre DEF ClaimPair
  <2>4. Stored(Object(x.id)) /\ x.object = kv[Object(x.id)]
    BY <1>1, <2>1 DEF CopyHeld, HasRead
  <2>5. \A i : b.key # Object(i) /\ b.key # Claim(i)
    BY <2>3, ClaimKinds
  <2>6. SUFFICES ASSUME NEW o \in bounds.pool["object"], NEW v \in Latter(Object(o))',
                        v.claim # None, NEW w \in Latter(Claim(v.claim))', w.object = o
                 PROVE  w.status \notin Over
    <3>1. bounds' = bounds
      BY <1>1, DoesVersions
    <3>2. QED
      BY <2>6, <3>1 DEF NoneOver
  <2>7. \/ o = x.id /\ v = wo
        \/ Stored(Object(o)) /\ v = kv[Object(o)]
    BY <1>1, <2>2, <2>3, <2>5, <2>6, LatterPlanned, ClaimKinds
  <2>8. \/ v.claim = c /\ w = vc
        \/ Stored(Claim(v.claim)) /\ w = kv[Claim(v.claim)] /\ v.claim # c
    <3>1. \/ v.claim = c /\ w = vc
          \/ /\ Stored(Claim(v.claim)) /\ w = kv[Claim(v.claim)]
             /\ \A n \in DOMAIN todo'[r] : todo'[r][n].key # Claim(v.claim)
      BY <1>1, <2>2, <2>3, <2>5, <2>6, LatterPlanned, ClaimKinds
    <3>2. QED
      BY <2>2, <2>3, <3>1
  <2>9. CASE v.claim = c /\ w = vc
    BY <2>2, <2>9 DEF Begun
  <2>10. CASE Stored(Claim(v.claim)) /\ w = kv[Claim(v.claim)] /\ v.claim # c
    <3>1. Stored(Object(o)) /\ v = kv[Object(o)]
      BY <2>2, <2>4, <2>7, <2>10
    <3>2. todo[r] = <<>>
      BY <1>1 DEF Does
    <3>3. QED
      BY <2>6, <2>10, <3>1, <3>2, StoredNotOver
  <2>11. QED
    BY <2>8, <2>9, <2>10
<1>4. QED
  BY <1>2, <1>3

(* An object that is decided on names the claim, or the one it named, or
   none; by a decision that ends the claim, not that claim.                *)
LEMMA DecidedNames ==
  ASSUME NEW u \in ObjectRecord, NEW c, NEW decision \in ClaimDecisions, NEW w,
         w = Decided(u, c, decision), w.claim # None
  PROVE  /\ w.claim = c \/ w.claim = u.claim
         /\ StatusByDecision[decision] \in Over => w.claim # c
<1>1. DOMAIN u = {"owner", "status", "claim", "handoff", "holder"}
  BY DEF ObjectRecord
<1>2. ClaimDecisions = {"accept", "reject", "cancel", "fulfill", "archive", "reopen"}
  BY DEF ClaimDecisions, StatusByDecision
<1>3. CASE decision = "accept"
  <2>1. w = [u EXCEPT !.status = "reserved", !.claim = c]
    BY <1>3 DEF Decided
  <2>2. w.claim = c
    BY <1>1, <2>1
  <2>3. StatusByDecision[decision] \notin Over
    BY <1>3 DEF StatusByDecision, Over
  <2>4. QED
    BY <2>2, <2>3
<1>4. CASE decision \in {"reject", "cancel", "reopen"}
  <2>1. w = [u EXCEPT !.claim = IF @ = c THEN None ELSE @,
                      !.status = IF @ = "reserved" THEN "available" ELSE @]
    BY <1>4 DEF Decided
  <2>2. w.claim = IF u.claim = c THEN None ELSE u.claim
    BY <1>1, <2>1
  <2>3. QED
    BY <2>2
<1>5. CASE decision \in {"fulfill", "archive"}
  <2>1. w = [u EXCEPT !.status = "closed"]
    BY <1>5 DEF Decided
  <2>2. w.claim = u.claim
    BY <1>1, <2>1
  <2>3. StatusByDecision[decision] \notin Over
    BY <1>5 DEF StatusByDecision, Over
  <2>4. QED
    BY <2>2, <2>3
<1>6. QED
  BY <1>2, <1>3, <1>4, <1>5

LEMMA DecisionNotOver ==
  ASSUME IInv, NoneOver, NEW r \in Requests, Turn(r), CopyHeld(r), DecideClaim(r)
  PROVE  NoneOver'
<1>1. PICK x : x = reading[r]
  OBVIOUS
<1>2. /\ HasRead(r, "decide") /\ Does(r, ClaimFamily, ClaimOps)
      /\ \/ DOMAIN todo'[r] = {}
         \/ \E v, w, a, b :
              /\ SameOwner(x.claim) /\ x.decision \in ClaimDecisions
              /\ v = [x.claim EXCEPT !.status = StatusByDecision[x.decision]]
              /\ w = Decided(kv[Object(x.claim.object)], x.id, x.decision)
              /\ a = Writes(Claim(x.id), v) /\ b = Writes(Object(x.claim.object), w)
              /\ DOMAIN todo'[r] = {1, 2} /\ todo'[r][1] = a /\ todo'[r][2] = b
  BY <1>1, DecideClaimDoes
<1>3. CASE DOMAIN todo'[r] = {}
  <2>1. Does(r, {}, ClaimOps)
    BY <1>2, <1>3 DEF Does
  <2>2. QED
    BY <2>1, ClaimsAside
<1>4. CASE DOMAIN todo'[r] # {}
  <2>1. PICK c, ob, vc, wo, a, b :
          /\ c = x.id /\ ob = x.claim.object
          /\ SameOwner(x.claim) /\ x.decision \in ClaimDecisions
          /\ vc = [x.claim EXCEPT !.status = StatusByDecision[x.decision]]
          /\ wo = Decided(kv[Object(ob)], c, x.decision)
          /\ a = Writes(Claim(c), vc) /\ b = Writes(Object(ob), wo)
          /\ DOMAIN todo'[r] = {1, 2} /\ todo'[r][1] = a /\ todo'[r][2] = b
    BY <1>2, <1>4
  <2>2. /\ a.key = Claim(c) /\ a.value = vc /\ b.key = Object(ob) /\ b.value = wo
    BY <2>1, PutsAre
  <2>3. /\ Stored(Claim(c)) /\ x.claim = kv[Claim(c)] /\ kv[Claim(c)].object = ob
    BY <1>1, <1>2, <2>1 DEF CopyHeld, HasRead
  <2>4. /\ kv[Claim(c)] \in ClaimRecord
        /\ Stored(Object(ob)) /\ kv[Object(ob)] \in ObjectRecord
    <3>1. Stored(Object(ob))
      BY <2>1 DEF SameOwner
    <3>2. QED
      BY <2>3, <3>1, StoredFits, MoreKeysAre DEF Good, Shaped
  <2>5. vc.status = StatusByDecision[x.decision] /\ vc.object = ob
    BY <2>1, <2>3, <2>4 DEF ClaimRecord
  <2>6. SUFFICES ASSUME NEW o \in bounds.pool["object"], NEW v \in Latter(Object(o))',
                        v.claim # None, NEW w \in Latter(Claim(v.claim))', w.object = o
                 PROVE  w.status \notin Over
    <3>1. bounds' = bounds
      BY <1>2, DoesVersions
    <3>2. QED
      BY <2>6, <3>1 DEF NoneOver
  <2>7. \/ o = ob /\ v = wo
        \/ Stored(Object(o)) /\ v = kv[Object(o)] /\ o # ob
    <3>1. \/ o = ob /\ v = wo
          \/ /\ Stored(Object(o)) /\ v = kv[Object(o)]
             /\ \A n \in DOMAIN todo'[r] : todo'[r][n].key # Object(o)
      BY <1>2, <2>1, <2>2, <2>6, LatterPlanned, ClaimKinds
    <3>2. QED
      BY <2>1, <2>2, <3>1
  <2>8. \/ v.claim = c /\ w = vc
        \/ Stored(Claim(v.claim)) /\ w = kv[Claim(v.claim)] /\ v.claim # c
    <3>1. \/ v.claim = c /\ w = vc
          \/ /\ Stored(Claim(v.claim)) /\ w = kv[Claim(v.claim)]
             /\ \A n \in DOMAIN todo'[r] : todo'[r][n].key # Claim(v.claim)
      BY <1>2, <2>1, <2>2, <2>6, LatterPlanned, ClaimKinds
    <3>2. QED
      BY <2>1, <2>2, <3>1
  <2>9. o = ob => /\ v.claim = c \/ v.claim = kv[Object(ob)].claim
                  /\ v.claim = c => StatusByDecision[x.decision] \notin Over
    BY <2>1, <2>4, <2>6, <2>7, DecidedNames
  <2>10. CASE v.claim = c /\ w = vc
    BY <2>5, <2>6, <2>9, <2>10
  <2>11. CASE Stored(Claim(v.claim)) /\ w = kv[Claim(v.claim)] /\ v.claim # c
    <3>1. Stored(Object(o)) /\ v.claim = kv[Object(o)].claim
      BY <2>4, <2>7, <2>9, <2>11
    <3>2. todo[r] = <<>>
      BY <1>2 DEF Does
    <3>3. kv[Claim(kv[Object(o)].claim)].status \notin Over
      BY <2>6, <2>11, <3>1, <3>2, StoredNotOver
    <3>4. QED
      BY <2>11, <3>1, <3>3
  <2>12. QED
    BY <2>8, <2>10, <2>11
<1>5. QED
  BY <1>3, <1>4

(* A handoff leaves the claim that the object names.                       *)
LEMMA HandedOffNames ==
  ASSUME NEW u \in ObjectRecord, NEW h, NEW status \in HandoffStatus, NEW to, NEW w,
         w = HandedOff(u, h, status, to)
  PROVE  w.claim = u.claim
<1>1. DOMAIN u = {"owner", "status", "claim", "handoff", "holder"}
  BY DEF ObjectRecord
<1>2. CASE status = "completed"
  <2>1. w = [u EXCEPT !.status = "handed_off", !.handoff = h, !.holder = to]
    BY <1>2 DEF HandedOff
  <2>2. QED
    BY <1>1, <2>1
<1>3. CASE status = "cancelled"
  <2>1. PICK x, y, z : w = [u EXCEPT !.handoff = x, !.holder = y, !.status = z]
    BY <1>3 DEF HandedOff
  <2>2. QED
    BY <1>1, <2>1
<1>4. CASE status = "pending"
  BY <1>4 DEF HandedOff
<1>5. QED
  BY <1>2, <1>3, <1>4 DEF HandoffStatus

LEMMA HandoffNotOver ==
  ASSUME IInv, NoneOver, NEW r \in Requests, Turn(r), CopyHeld(r), HandOff(r)
  PROVE  NoneOver'
<1>1. PICK x : x = reading[r]
  OBVIOUS
<1>2. /\ HasRead(r, "hand-off") /\ Does(r, ClaimFamily, ClaimOps)
      /\ \/ DOMAIN todo'[r] = {}
         \/ /\ SameOwner(x.claim)
            /\ \E h, status, to : HandsOff(r, x.id, x.claim, h, status, to)
  BY <1>1, HandOffDoes
<1>3. CASE DOMAIN todo'[r] = {}
  <2>1. Does(r, {}, ClaimOps)
    BY <1>2, <1>3 DEF Does
  <2>2. QED
    BY <2>1, ClaimsAside
<1>4. CASE DOMAIN todo'[r] # {}
  <2>1. PICK h, status, to : SameOwner(x.claim) /\ HandsOff(r, x.id, x.claim, h, status, to)
    BY <1>2, <1>4
  <2>2. PICK c, ob, vc, wo, a, b, d :
          /\ c = x.id /\ ob = x.claim.object
          /\ status \in HandoffStatus
          /\ vc = [x.claim EXCEPT !.handoff = h,
                                  !.status = IF status = "completed" THEN "accepted" ELSE @]
          /\ wo = HandedOff(kv[Object(ob)], h, status, to)
          /\ a.key[1] = "object-handoff"
          /\ b = Writes(Claim(c), vc) /\ d = Writes(Object(ob), wo)
          /\ DOMAIN todo'[r] = {1, 2, 3}
          /\ todo'[r][1] = a /\ todo'[r][2] = b /\ todo'[r][3] = d
    BY <2>1 DEF HandsOff
  <2>3. /\ b.key = Claim(c) /\ b.value = vc /\ d.key = Object(ob) /\ d.value = wo
        /\ a.key[1] \notin ClaimPair
    BY <2>2, PutsAre DEF ClaimPair
  <2>4. Stored(Claim(c)) /\ x.claim = kv[Claim(c)]
    BY <1>1, <1>2, <2>2 DEF CopyHeld, HasRead
  <2>5. /\ kv[Claim(c)] \in ClaimRecord
        /\ Stored(Object(ob)) /\ kv[Object(ob)] \in ObjectRecord
    <3>1. Stored(Object(ob))
      BY <2>1, <2>2 DEF SameOwner
    <3>2. QED
      BY <2>4, <3>1, StoredFits, MoreKeysAre DEF Good, Shaped
  <2>6. /\ vc.status = "accepted" \/ vc.status = kv[Claim(c)].status
        /\ vc.object = kv[Claim(c)].object
    BY <2>2, <2>4, <2>5 DEF ClaimRecord
  <2>7. wo.claim = kv[Object(ob)].claim
    BY <2>2, <2>5, HandedOffNames
  <2>8. \A i : a.key # Object(i) /\ a.key # Claim(i)
    BY <2>3, ClaimKinds
  <2>9. SUFFICES ASSUME NEW o \in bounds.pool["object"], NEW v \in Latter(Object(o))',
                        v.claim # None, NEW w \in Latter(Claim(v.claim))', w.object = o
                 PROVE  w.status \notin Over
    <3>1. bounds' = bounds
      BY <1>2, DoesVersions
    <3>2. QED
      BY <2>9, <3>1 DEF NoneOver
  <2>10. Stored(Object(o)) /\ v.claim = kv[Object(o)].claim
    <3>1. \/ o = ob /\ v = wo
          \/ Stored(Object(o)) /\ v = kv[Object(o)]
      BY <1>2, <2>2, <2>3, <2>8, <2>9, LatterPlanned, ClaimKinds
    <3>2. QED
      BY <2>5, <2>7, <3>1
  <2>11. \/ v.claim = c /\ w = vc
         \/ Stored(Claim(v.claim)) /\ w = kv[Claim(v.claim)]
    BY <1>2, <2>2, <2>3, <2>8, <2>9, LatterPlanned, ClaimKinds
  <2>12. kv[Claim(v.claim)].object = o => kv[Claim(v.claim)].status \notin Over
    <3>1. todo[r] = <<>>
      BY <1>2 DEF Does
    <3>2. Stored(Claim(v.claim))
      BY <2>4, <2>11
    <3>3. QED
      BY <2>9, <2>10, <3>1, <3>2, StoredNotOver
  <2>13. "accepted" \notin Over
    BY DEF Over
  <2>14. QED
    BY <2>6, <2>9, <2>11, <2>12, <2>13
<1>5. QED
  BY <1>3, <1>4

(* The reads of these workers copy what is stored.                         *)
LEMMA CopiesRead ==
  ASSUME IInv, NEW r \in Requests, Turn(r), CopyHeld(r),
         ReadToClaim(r) \/ ReadLatest(r) \/ ReadToDecide(r) \/ ReadToHandOff(r)
  PROVE  Does(r, {}, ClaimOps) /\ \A q \in Requests : CopyHeld(q)'
<1>1. \E x : Does(r, {}, ClaimOps) /\ reading'[r] = x
             /\ (x.op \in {"claim", "claim-latest"} =>
                   Stored(Object(x.id)) /\ x.object = kv[Object(x.id)])
             /\ (x.op \in {"decide", "hand-off"} =>
                   Stored(Claim(x.id)) /\ x.claim = kv[Claim(x.id)])
  <2>1. CASE ReadToClaim(r)
    <3>1. PICK x, o, by :
            /\ x = [op |-> "claim", by |-> by, id |-> o, object |-> kv[Object(o)]]
            /\ Stored(Object(o)) /\ StartReading(r, x)
      BY <2>1 DEF ReadToClaim
    <3>2. x.op = "claim" /\ x.id = o /\ x.object = kv[Object(o)]
      BY <3>1
    <3>3. Does(r, {}, ClaimOps) /\ reading'[r] = x
      BY <3>1, <3>2, StartDoes DEF ClaimOps
    <3>4. QED
      BY <3>1, <3>2, <3>3
  <2>2. CASE ReadLatest(r)
    <3>1. PICK y : y = reading[r]
      OBVIOUS
    <3>2. PICK x : /\ x.op = "claim-latest" /\ x.id = y.id /\ x.object = y.object
                   /\ Reads(r, x)
      BY <2>2, <3>1 DEF ReadLatest
    <3>3. HasRead(r, "claim") /\ Stored(Object(y.id)) /\ y.object = kv[Object(y.id)]
      BY <2>2, <3>1 DEF ReadLatest, CopyHeld, HasRead
    <3>4. Does(r, {}, ClaimOps) /\ reading'[r] = x
      BY <3>2, <3>3, ReadsOnDoes DEF ClaimOps
    <3>5. QED
      BY <3>2, <3>3, <3>4
  <2>3. CASE ReadToDecide(r)
    <3>1. PICK x, c, decision :
            /\ x = [op |-> "decide", id |-> c, decision |-> decision, claim |-> kv[Claim(c)]]
            /\ Stored(Claim(c)) /\ StartReading(r, x)
      BY <2>3 DEF ReadToDecide
    <3>2. x.op = "decide" /\ x.id = c /\ x.claim = kv[Claim(c)]
      BY <3>1
    <3>3. Does(r, {}, ClaimOps) /\ reading'[r] = x
      BY <3>1, <3>2, StartDoes DEF ClaimOps
    <3>4. QED
      BY <3>1, <3>2, <3>3
  <2>4. CASE ReadToHandOff(r)
    <3>1. PICK x, c :
            /\ x = [op |-> "hand-off", id |-> c, claim |-> kv[Claim(c)]]
            /\ Stored(Claim(c)) /\ StartReading(r, x)
      BY <2>4 DEF ReadToHandOff
    <3>2. x.op = "hand-off" /\ x.id = c /\ x.claim = kv[Claim(c)]
      BY <3>1
    <3>3. Does(r, {}, ClaimOps) /\ reading'[r] = x
      BY <3>1, <3>2, StartDoes DEF ClaimOps
    <3>4. QED
      BY <3>1, <3>2, <3>3
  <2>5. QED
    BY <2>1, <2>2, <2>3, <2>4
<1>2. CopyHeld(r)'
  BY <1>1 DEF CopyHeld, Does, Stored
<1>3. ASSUME NEW q \in Requests, q # r PROVE CopyHeld(q)'
  <2>1. reading'[q] = None
    BY <1>1, <1>3 DEF Does, Turn, Idle
  <2>2. QED
    BY <2>1 DEF CopyHeld
<1>4. QED
  BY <1>1, <1>2, <1>3

LEMMA ClaimsWorked ==
  ASSUME IInv, Begun, NoneOver, NEW r \in Requests, Turn(r), CopyHeld(r), WorkerStep(r)
  PROVE  NoneOver' /\ \A q \in Requests : CopyHeld(q)'
<1>1. CASE ReadToClaim(r) \/ ReadLatest(r) \/ ReadToDecide(r) \/ ReadToHandOff(r)
  <2>1. Does(r, {}, ClaimOps) /\ \A q \in Requests : CopyHeld(q)'
    BY <1>1, CopiesRead
  <2>2. QED
    BY <2>1, ClaimsAside
<1>2. CASE PostObject(r) \/ ClaimObject(r) \/ DecideClaim(r) \/ HandOff(r)
  <2>1. Does(r, ClaimFamily, ClaimOps) /\ reading'[r] = None
    BY <1>2, PostObjectDoes, ClaimObjectDoes, DecideClaimDoes, HandOffDoes
  <2>2. \A q \in Requests : CopyHeld(q)'
    BY <2>1, CopiesAside
  <2>3. NoneOver'
    BY <1>2, PostNotOver, ClaimNotOver, DecisionNotOver, HandoffNotOver
  <2>4. QED
    BY <2>2, <2>3
<1>3. ASSUME NEW kinds, NEW ops, Does(r, kinds, ops),
             kinds \intersect ClaimPair = {}, ops \intersect ClaimOps = {}
      PROVE  NoneOver' /\ \A q \in Requests : CopyHeld(q)'
  BY <1>3, ClaimsAside, CopiesAside
<1>4. CASE PingStep(r) \/ FieldStep(r) \/ EntryStep(r)
  <2>1. \/ Does(r, PingFamily, PingOps) \/ Does(r, FieldFamily, FieldOps)
        \/ Does(r, EntryFamily, EntryOps)
    BY <1>4, PingDoes, FieldDoes, EntryDoes
  <2>2. /\ PingOps \intersect ClaimOps = {} /\ FieldOps \intersect ClaimOps = {}
        /\ EntryOps \intersect ClaimOps = {}
    BY DEF PingOps, FieldOps, NearOps, EntryOps, ClaimOps
  <2>3. QED
    BY <1>3, <2>1, <2>2, ClaimKinds
<1>5. CASE AttachProof(r) \/ DecideProof(r) \/ ReadToAttach(r)
  <2>1. Does(r, ProofFamily, ProofOps) /\ ProofOps \intersect ClaimOps = {}
    BY <1>5, ProofDoes DEF ProofOps, ClaimOps
  <2>2. QED
    BY <1>3, <2>1, ClaimKinds
<1>6. CASE AttachEvidence(r)
  <2>1. Does(r, EvidenceFamily, {})
    BY <1>6, AttachEvidenceDoes
  <2>2. QED
    BY <1>3, <2>1, ClaimKinds
<1>7. QED
  BY <1>1, <1>2, <1>4, <1>5, <1>6 DEF WorkerStep, ObjectStep, ClaimStep

(* A put changes nothing of what will be stored in the end.                *)
LEMMA LatterPut ==
  ASSUME IInv, NEW r \in Requests, Put(r), NEW key, key[1] \in ClaimPair
  PROVE  Latter(key)' \subseteq Latter(key)
<1>1. key[1] # "session" /\ key[1] \notin Forgone /\ key[1] \notin DullKinds
  BY ClaimKinds DEF ClaimPair, Forgone
<1>2. /\ 1 \in DOMAIN todo[r]
      /\ \A q \in Requests : q # r => todo'[q] = todo[q]
      /\ Awaited(key)' => Awaited(key)
      /\ Awaited(key) => Awaited(key)' \/ (Applied(r) /\ todo[r][1].key = key)
      /\ key # todo[r][1].key \/ ~Applied(r) =>
           (Stored(key)' <=> Stored(key)) /\ (Stored(key) => kv'[key] = kv[key])
  BY <1>1, PutVersions, PutAwaits
<1>3. Upcoming(key)' \subseteq Upcoming(key)
  <2>1. SUFFICES ASSUME NEW v \in Upcoming(key)' PROVE v \in Upcoming(key)
    OBVIOUS
  <2>2. PICK q \in Requests : \E n \in DOMAIN todo'[q] :
          IsWrite(todo'[q][n]) /\ todo'[q][n].key = key /\ todo'[q][n].value = v
    BY <2>1, VersionsAre
  <2>3. PICK n \in DOMAIN todo'[q] :
          IsWrite(todo'[q][n]) /\ todo'[q][n].key = key /\ todo'[q][n].value = v
    BY <2>2
  <2>4. \E m \in DOMAIN todo[q] : todo'[q][n] = todo[q][m]
    <3>1. ~Repeats(kv, todo'[q][n])
      BY <1>1, <2>3 DEF Repeats, Forgone
    <3>2. QED
      BY <3>1, PutsBefore
  <2>5. QED
    BY <2>3, <2>4, VersionsAre
<1>4. CASE Applied(r) /\ todo[r][1].key = key
  <2>1. Awaited(key) /\ todo[r][1].value \in Upcoming(key)
    BY <1>2, <1>4, VersionsAre DEF Applied, Awaited
  <2>2. kv'[key] = todo[r][1].value
    BY <1>4 DEF Applied
  <2>3. QED
    BY <1>3, <2>1, <2>2, LatterIs
<1>5. CASE ~(Applied(r) /\ todo[r][1].key = key)
  <2>1. /\ Awaited(key)' <=> Awaited(key)
        /\ (Stored(key)' <=> Stored(key)) /\ (Stored(key) => kv'[key] = kv[key])
    BY <1>2, <1>5
  <2>2. QED
    BY <1>3, <2>1, LatterIs
<1>6. QED
  BY <1>4, <1>5

LEMMA ClaimsPut ==
  ASSUME IInv, NoneOver, NEW r \in Requests, Turn(r), Put(r)
  PROVE  NoneOver' /\ \A q \in Requests : CopyHeld(q)'
<1>1. bounds' = bounds /\ reading' = reading /\ reading[r] = None
  BY PutVersions
<1>2. /\ \A o : Latter(Object(o))' \subseteq Latter(Object(o))
      /\ \A c : Latter(Claim(c))' \subseteq Latter(Claim(c))
  BY LatterPut, ClaimKinds
<1>3. NoneOver'
  BY <1>1, <1>2 DEF NoneOver
<1>4. \A q \in Requests : reading'[q] = None
  BY <1>1 DEF Turn, Idle
<1>5. QED
  BY <1>3, <1>4 DEF CopyHeld

LEMMA ClaimsUntouched ==
  ASSUME NoneOver, bounds' = bounds, reading' = reading,
         \A key : Awaited(key)' <=> Awaited(key),
         \A key : Upcoming(key)' = Upcoming(key),
         \A key : key[1] \in ClaimPair =>
           (Stored(key)' <=> Stored(key)) /\ (Stored(key) => kv'[key] = kv[key])
  PROVE  NoneOver' /\ \A q \in Requests : CopyHeld(q) => CopyHeld(q)'
<1>1. /\ \A i : Stored(Object(i))' <=> Stored(Object(i))
      /\ \A i : Stored(Claim(i))' <=> Stored(Claim(i))
      /\ \A i : Stored(Object(i)) => kv'[Object(i)] = kv[Object(i)]
      /\ \A i : Stored(Claim(i)) => kv'[Claim(i)] = kv[Claim(i)]
  BY ClaimKinds
<1>2. /\ \A o : Latter(Object(o))' \subseteq Latter(Object(o))
      /\ \A c : Latter(Claim(c))' \subseteq Latter(Claim(c))
  BY <1>1, LatterIs
<1>3. NoneOver'
  BY <1>2 DEF NoneOver
<1>4. \A q \in Requests : CopyHeld(q) => CopyHeld(q)'
  BY <1>1 DEF CopyHeld
<1>5. QED
  BY <1>3, <1>4

LEMMA ClaimsNext ==
  ASSUME IInv, Sole, Begun, ClaimTurns, [Next]_vars
  PROVE  ClaimTurns'
<1>1. bounds' = bounds /\ crashes \in Nat
  BY StepsAre, WorkerDoes, DoesVersions, PutVersions, CrashVersions, ExpireVersions, NothingDone,
     CrashesAre
<1>2. CASE ~bounds.oneByOne
  BY <1>1, <1>2 DEF ClaimTurns
<1>3. CASE crashes' # 0
  BY <1>3 DEF ClaimTurns
<1>4. CASE bounds.oneByOne /\ crashes' = 0
  <2>1. \A r \in Requests : ~Crash(r)
    BY <1>1, <1>4, CrashVersions
  <2>2. crashes = 0
    <3>1. \A r \in Requests : WorkerStep(r) \/ Put(r) => crashes' = crashes
      BY WorkerDoes, DoesVersions, PutVersions
    <3>2. QED
      BY <1>4, <2>1, <3>1, StepsAre, ExpireVersions, NothingDone
  <2>3. NoneOver /\ \A r \in Requests : CopyHeld(r)
    BY <1>4, <2>2 DEF ClaimTurns
  <2>4. ASSUME NEW r \in Requests, WorkerStep(r)
        PROVE  NoneOver' /\ \A q \in Requests : CopyHeld(q)'
    <3>1. Turn(r)
      BY <1>4, <2>4, WorkerDoes, InTurn DEF Does
    <3>2. QED
      BY <2>3, <2>4, <3>1, ClaimsWorked
  <2>5. ASSUME NEW r \in Requests, Put(r)
        PROVE  NoneOver' /\ \A q \in Requests : CopyHeld(q)'
    <3>1. Turn(r)
      BY <1>4, <2>5, PutVersions, InTurn
    <3>2. QED
      BY <2>3, <2>5, <3>1, ClaimsPut
  <2>6. ASSUME NEW t \in Chosen("setup"), ExpireToken(t)
        PROVE  NoneOver' /\ \A q \in Requests : CopyHeld(q)'
    <3>1. \A key : key[1] \in ClaimPair => key # Setup(t)
      BY MoreKeysAre DEF ClaimPair
    <3>2. \A key : key[1] \in ClaimPair =>
            (Stored(key)' <=> Stored(key)) /\ (Stored(key) => kv'[key] = kv[key])
      BY <2>6, <3>1, ExpireVersions
    <3>3. QED
      BY <2>3, <2>6, <3>2, ExpireVersions, ClaimsUntouched
  <2>7. ASSUME UNCHANGED vars
        PROVE  NoneOver' /\ \A q \in Requests : CopyHeld(q)'
    BY <2>3, <2>7, NothingDone, ClaimsUntouched
  <2>8. QED
    BY <2>1, <2>4, <2>5, <2>6, <2>7, StepsAre DEF ClaimTurns
<1>5. QED
  BY <1>2, <1>3, <1>4

LEMMA InitClaims ==
  ASSUME Init
  PROVE  ClaimTurns
<1>1. /\ GivenFits(kv)
      /\ \A r \in Requests : reading[r] = None /\ DOMAIN todo[r] = {}
  BY InitHas
<1>2. \A key : ~Awaited(key)
  BY <1>1 DEF Awaited
<1>3. ASSUME NEW o, NEW v \in Latter(Object(o)), v.claim # None, NEW w \in Latter(Claim(v.claim))
      PROVE  w.status \notin Over
  <2>1. Object(o) \in DOMAIN kv /\ v = kv[Object(o)] /\ w = kv[Claim(v.claim)]
    BY <1>2, <1>3, LatterIs DEF Stored
  <2>2. w.status \notin {"rejected", "cancelled"}
    BY <1>1, <1>3, <2>1, MoreKeysAre DEF GivenFits
  <2>3. QED
    BY <2>2 DEF Over
<1>4. QED
  BY <1>1, <1>3 DEF ClaimTurns, NoneOver, CopyHeld

LEMMA ClaimsReleased ==
  ASSUME IInv, ClaimTurns
  PROVE  ReservationReleased
<1>1. ASSUME bounds.oneByOne, crashes = 0, Quiet, NEW o \in bounds.pool["object"],
             Stored(Object(o)), kv[Object(o)].claim # None,
             kv[Claim(kv[Object(o)].claim)].object = o
      PROVE  kv[Claim(kv[Object(o)].claim)].status \notin {"rejected", "cancelled"}
  <2>1. PICK v : v = kv[Object(o)]
    OBVIOUS
  <2>2. PICK w : w = kv[Claim(v.claim)]
    OBVIOUS
  <2>3. \A key : ~Awaited(key)
    <3>1. \A q \in Requests : DOMAIN todo[q] = {}
      BY <1>1, IdleHas DEF Quiet
    <3>2. QED
      BY <3>1 DEF Awaited
  <2>4. Stored(Claim(v.claim))
    BY <1>1, <2>1, NamedClaim
  <2>5. v \in Latter(Object(o)) /\ w \in Latter(Claim(v.claim))
    BY <1>1, <2>1, <2>2, <2>3, <2>4, LatterIs
  <2>6. w.status \notin Over
    BY <1>1, <2>1, <2>2, <2>5 DEF ClaimTurns, NoneOver
  <2>7. QED
    BY <2>1, <2>2, <2>6 DEF Over
<1>2. QED
  BY <1>1 DEF ReservationReleased, Chosen

(* Where requests come one at a time, none is cut off and no client posts a
   claim as rejected or cancelled, no object names a claim on it that was:
   whoever ends a claim puts its object back as well, and one that a client
   posts over a claim that was binds again or never did.                   *)
THEOREM TurnsReservation == Begun => (Spec => []ReservationReleased)
<1>1. Init => ClaimTurns
  BY InitClaims
<1>2. Begun /\ IInv /\ Sole /\ ClaimTurns /\ [Next]_vars => ClaimTurns'
  BY ClaimsNext
<1>3. IInv /\ ClaimTurns => ReservationReleased
  BY ClaimsReleased
<1>4. SUFFICES ASSUME Begun PROVE Spec => []ReservationReleased
  OBVIOUS
<1>5. IInv /\ Sole /\ ClaimTurns /\ [Next]_vars => ClaimTurns'
  BY <1>2, <1>4
<1>6. QED
  BY <1>1, <1>3, <1>5, WorkersFit, TurnsTaken, PTL DEF Spec
=============================================================================
