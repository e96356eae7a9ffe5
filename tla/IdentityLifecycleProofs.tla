---------------------- MODULE IdentityLifecycleProofs ----------------------
(***************************************************************************)
(* What IdentityLifecycle keeps true for any sets of requests and          *)
(* identities, any identifiers and any number of requests cut off:         *)
(* TypeOK, StateBacked, LossBounded, CarriedOnce and PassageSpent.         *)
(*                                                                         *)
(* None of them is inductive as it stands, for a request carries its puts  *)
(* along while others run.  IInv says what a put still to be made rests on *)
(* (Fits): a record that is written again differs from the stored one in   *)
(* nothing a decision was taken on, unless it was replaced by one posted   *)
(* under its identifier, and a put of the collapse state follows the mark  *)
(* of its decision.  A record that is new has an identifier nobody else    *)
(* has, or is counted in `again' (FirstAlone).  The rest is that a put     *)
(* changes none of what others rest on (Steady).                           *)
(***************************************************************************)
EXTENDS IdentityLifecycle, FiniteSetTheorems, TLAPS

Puts == [key : Keys, value : UNION {RecordsOf(k) : k \in Kinds}]

(* A record as it is put the first time; later puts of it are not.         *)
IsFirst(p) ==
  \/ p.key[1] = "turnstile" /\ p.value.decision = "undecided"
  \/ p.key[1] = "collapse-decision" /\ ~p.value.executed
  \/ p.key[1] = "reactivation" /\ p.value.decision = "undecided" /\ ~p.value.reactivated
  \/ p.key[1] = "reactivation-decision" /\ ~p.value.reactivated

Carries(p, d) == p.key[1] = "collapse-state" /\ p.value.by = d

Marks(p, d) ==
  \/ p.key = CollapseDecision(d) /\ p.value.executed
  \/ p.key = ReactivationDecision(d) /\ p.value.reactivated

(* Two records of a kind agree on all that is never changed in it.         *)
Same(kind, u, v) ==
  /\ kind = "turnstile" =>
       u.identity_id = v.identity_id /\ u.gate_passed = v.gate_passed
  /\ kind = "collapse-decision" =>
       /\ u.identity_id = v.identity_id
       /\ u.turnstile_id = v.turnstile_id
       /\ u.decision = v.decision
  /\ kind = "reactivation" =>
       /\ u.identity_id = v.identity_id
       /\ u.collapse_decision_id = v.collapse_decision_id
  /\ kind = "reactivation-decision" =>
       /\ u.identity_id = v.identity_id
       /\ u.reactivation_id = v.reactivation_id
       /\ u.collapse_decision_id = v.collapse_decision_id
       /\ u.decision = v.decision

Agrees(key, value) ==
  Stored(key) /\ (Unreplaced(key) => Same(key[1], kv[key], value))

(* What a record that is stored, or about to be, rests on.                 *)
Passed(value) ==
  /\ Stored(Turnstile(value.turnstile_id))
  /\ value.decision = "approved" /\ Unreplaced(Turnstile(value.turnstile_id)) =>
       kv[Turnstile(value.turnstile_id)].gate_passed

Asked(value) ==
  /\ carried[value.collapse_decision_id] > 0
  /\ Stored(Reactivation(value.reactivation_id))

CollapsedBy(i, d) ==
  /\ d \in Pool["collapse-decision"]
  /\ Stored(CollapseDecision(d))
  /\ Unreplaced(CollapseDecision(d)) =>
       kv[CollapseDecision(d)].identity_id = i /\ kv[CollapseDecision(d)].decision = "approved"

RestoredBy(i, e) ==
  /\ e \in Pool["reactivation-decision"]
  /\ Stored(ReactivationDecision(e))
  /\ Unreplaced(ReactivationDecision(e)) =>
       kv[ReactivationDecision(e)].identity_id = i /\ kv[ReactivationDecision(e)].decision = "approved"

Genuine(key, value) ==
  /\ key[1] = "collapse-decision" => Passed(value)
  /\ key[1] = "reactivation" => carried[value.collapse_decision_id] > 0
  /\ key[1] = "reactivation-decision" => Asked(value)
  /\ key[1] = "collapse-state" =>
       IF value.collapsed THEN CollapsedBy(key[2], value.by)
                          ELSE RestoredBy(key[2], value.by)

(* The decision the n-th of the puts s carries is marked, or will be first. *)
Ready(s, n, d) == Executed(d) \/ (n > 1 /\ Marks(s[1], d))

(* The n-th of the puts s fits what is stored and the other puts of s.     *)
Fits(s, n) ==
  /\ s[n].value \in RecordsOf(s[n].key[1])
  /\ Genuine(s[n].key, s[n].value)
  /\ IsFirst(s[n]) => \A m \in DOMAIN s : s[m].key[1] # "collapse-state"
  /\ ~IsFirst(s[n]) /\ s[n].key[1] # "collapse-state" => Agrees(s[n].key, s[n].value)
  /\ \A d \in Decisions :
       /\ Carries(s[n], d) =>
            n = Len(s) /\ (Unreplaced(DecisionKey(d)) => Ready(s, n, d))
       /\ Marks(s[n], d) => n = 1 /\ Len(s) > 1 /\ Carries(s[Len(s)], d)

OneThing == \A r \in Requests : reading[r] # None => todo[r] = <<>>

StoredGenuine == \A key \in Keys : Stored(key) => Genuine(key, kv[key])

StatesCarried ==
  \A i \in Identities :
    Stored(CollapseState(i)) => carried[kv[CollapseState(i)].by] > 0

CarriedExecuted ==
  \A d \in Decisions : carried[d] > 0 =>
    Stored(DecisionKey(d)) /\ (Unreplaced(DecisionKey(d)) => Executed(d))

PutsFit == \A r \in Requests : \A n \in DOMAIN todo[r] : Fits(todo[r], n)

(* Unless it is counted as posted again, a record that is put the first time
   has a key nothing is stored under and no other put has.                 *)
FirstAlone ==
  \A r \in Requests : \A n \in DOMAIN todo[r] :
    IsFirst(todo[r][n]) /\ Unreplaced(todo[r][n].key) =>
      /\ ~Stored(todo[r][n].key)
      /\ \A q \in Requests : \A m \in DOMAIN todo[q] :
           todo[r][n].key = todo[q][m].key => r = q /\ n = m

Held(x) ==
  IF x.op = "decide"
  THEN Agrees(Reactivation(x.id), x.copy) /\ Genuine(Reactivation(x.id), x.copy)
  ELSE /\ Agrees(ReactivationDecision(x.id), x.copy)
       /\ Genuine(ReactivationDecision(x.id), x.copy)
       /\ x.copy.decision = "approved"

ReadingsHeld == \A r \in Requests : reading[r] # None => Held(reading[r])

(* The decisions marked as executed that will never change a state.        *)
Carrying(d) == \E r \in Requests : \E n \in DOMAIN todo[r] : Carries(todo[r][n], d)
Lost == {d \in Decisions : Executed(d) /\ carried[d] = 0 /\ ~Carrying(d)}

LossCovered == IsFiniteSet(Lost) /\ Cardinality(Lost) <= crashes

(* While no request was received during another, one is in progress.       *)
Sole == \A r, q \in Requests : ~Idle(r) /\ ~Idle(q) => r = q

(* The decision may still change a state.                                  *)
Announced(d) ==
  \E r \in Requests : \E n \in DOMAIN todo[r] :
    todo[r][n].key = DecisionKey(d) /\ IsFirst(todo[r][n])
Outstanding(d) ==
  Carrying(d) \/ Announced(d) \/ (Stored(DecisionKey(d)) /\ ~Executed(d))

Once ==
  /\ \A d \in Decisions :
       carried[d] + (IF Outstanding(d) THEN 1 ELSE 0) <= 1 + again[DecisionKey(d)]
  /\ \A r \in Requests : \A n \in DOMAIN todo[r], d \in Decisions :
       Carries(todo[r][n], d) => Ready(todo[r], n, d)
  /\ \A r \in Requests :
       reading[r] # None /\ reading[r].op # "decide" => ~Executed(reading[r].id)

(* The approvals a passage of the gate has and is about to get.            *)
Coming(t) ==
  {d \in Pool["collapse-decision"] :
     \E r \in Requests : \E n \in DOMAIN todo[r] :
       /\ todo[r][n].key = CollapseDecision(d)
       /\ todo[r][n].value.turnstile_id = t
       /\ todo[r][n].value.decision = "approved"}
Granted(t) == Approvals(t) \union Coming(t)

Pending(t, decided) ==
  \E r \in Requests : \E n \in DOMAIN todo[r] :
    todo[r][n].key = Turnstile(t) /\ (todo[r][n].value.decision # "undecided") = decided

Spent(t) ==
  /\ ~Pending(t, FALSE)
  /\ \/ Stored(Turnstile(t)) /\ kv[Turnstile(t)].decision # "undecided"
     \/ Pending(t, TRUE)

GrantedCovered(t) ==
  /\ IsFiniteSet(Granted(t))
  /\ Cardinality(Granted(t)) <=
       crashes + again[Turnstile(t)] + (IF Spent(t) THEN 1 ELSE 0)

Calm ==
  ~overlap => Sole /\ Once /\ \A t \in Pool["turnstile"] : GrantedCovered(t)

IInv ==
  /\ TypeOK /\ OneThing
  /\ StoredGenuine /\ StatesCarried /\ CarriedExecuted
  /\ PutsFit /\ FirstAlone /\ ReadingsHeld
  /\ LossCovered /\ Calm
-----------------------------------------------------------------------------
(* Keys are pairs of a kind and an identifier of its pool.                 *)
LEMMA KeyParts ==
  \A key \in Keys : /\ key[1] \in Kinds
                    /\ key[2] \in Pool[key[1]]
                    /\ key = <<key[1], key[2]>>
  BY DEF Keys

LEMMA KeyMade == \A k \in Kinds : \A id \in Pool[k] : <<k, id>> \in Keys
  BY DEF Keys

LEMMA KeysMade ==
  /\ \A t \in Pool["turnstile"] : Turnstile(t) \in Keys
  /\ \A d \in Pool["collapse-decision"] : CollapseDecision(d) \in Keys
  /\ \A v \in Pool["reactivation"] : Reactivation(v) \in Keys
  /\ \A e \in Pool["reactivation-decision"] : ReactivationDecision(e) \in Keys
  /\ \A i \in Identities : CollapseState(i) \in Keys
  BY KeyMade, LifecycleAssumption
  DEF Kinds, Turnstile, CollapseDecision, Reactivation, ReactivationDecision,
      CollapseState

(* No identifier is that of two kinds of decisions.                        *)
LEMMA PoolsApart ==
  /\ Pool["collapse-decision"] \intersect Pool["reactivation-decision"] = {}
  /\ Decisions = Pool["collapse-decision"] \union Pool["reactivation-decision"]
  /\ Pool["collapse-state"] = Identities
  BY LifecycleAssumption DEF Kinds, Decisions

(* The key of a decision, and what is marked under it.                     *)
LEMMA DecisionKeys ==
  ASSUME NEW d \in Decisions
  PROVE  /\ DecisionKey(d) \in Keys /\ DecisionKey(d)[1] # "collapse-state"
         /\ d \in Pool["collapse-decision"] => DecisionKey(d) = CollapseDecision(d)
         /\ d \in Pool["reactivation-decision"] =>
              DecisionKey(d) = ReactivationDecision(d)
         /\ DecisionKey(d)[2] = d
         /\ \A c \in Decisions : DecisionKey(c) = DecisionKey(d) => c = d
<1>1. CASE d \in Pool["collapse-decision"]
  BY <1>1, KeysMade, PoolsApart DEF DecisionKey, CollapseDecision, ReactivationDecision
<1>2. CASE d \in Pool["reactivation-decision"]
  BY <1>2, KeysMade, PoolsApart DEF DecisionKey, CollapseDecision, ReactivationDecision
<1>. QED BY <1>1, <1>2, PoolsApart

LEMMA MarkOrFirst ==
  ASSUME NEW d \in Decisions, NEW p, p.key = DecisionKey(d)
  PROVE  Marks(p, d) <=> ~IsFirst(p)
<1>1. CASE d \in Pool["collapse-decision"]
  BY <1>1, DecisionKeys
  DEF Marks, IsFirst, CollapseDecision, ReactivationDecision
<1>2. CASE d \in Pool["reactivation-decision"]
  BY <1>2, DecisionKeys
  DEF Marks, IsFirst, CollapseDecision, ReactivationDecision
<1>. QED BY <1>1, <1>2, PoolsApart

(* The types of what is read back out of a record.                         *)
LEMMA RecordFields ==
  /\ \A u \in RecordsOf("turnstile") :
       u.identity_id \in Identities /\ u.gate_passed \in BOOLEAN
  /\ \A u \in RecordsOf("collapse-decision") :
       /\ u.identity_id \in Identities /\ u.turnstile_id \in Pool["turnstile"]
       /\ u.decision \in Verdicts /\ u.executed \in BOOLEAN
  /\ \A u \in RecordsOf("collapse-state") :
       u.collapsed \in BOOLEAN /\ u.by \in Decisions
  /\ \A u \in RecordsOf("reactivation") :
       /\ u.identity_id \in Identities
       /\ u.collapse_decision_id \in Pool["collapse-decision"]
       /\ u.reactivated \in BOOLEAN
  /\ \A u \in RecordsOf("reactivation-decision") :
       /\ u.identity_id \in Identities /\ u.reactivation_id \in Pool["reactivation"]
       /\ u.collapse_decision_id \in Pool["collapse-decision"]
       /\ u.decision \in Verdicts /\ u.reactivated \in BOOLEAN
  BY DEF RecordsOf

(* A step changes nothing of what others rest on.                          *)
Steady ==
  /\ \A key \in Keys : Unreplaced(key)' => Unreplaced(key)
  /\ \A key \in Keys : Stored(key) =>
       Stored(key)' /\ (Unreplaced(key)' => Same(key[1], kv'[key], kv[key]))
  /\ \A d \in Decisions : carried[d] > 0 => carried'[d] > 0
  /\ \A d \in Decisions :
       Executed(d) /\ Unreplaced(DecisionKey(d))' => Executed(d)'

LEMMA AgreesSteady ==
  ASSUME Steady, NEW key \in Keys, NEW value, Agrees(key, value)
  PROVE  Agrees(key, value)'
<1>1. Stored(key)'
  BY DEF Steady, Agrees
<1>2. ASSUME Unreplaced(key)' PROVE Same(key[1], kv'[key], value)
  <2>1. Same(key[1], kv'[key], kv[key]) /\ Same(key[1], kv[key], value)
    BY <1>2 DEF Steady, Agrees
  <2>. QED BY <2>1 DEF Same
<1>. QED BY <1>1, <1>2 DEF Agrees

LEMMA GenuineSteady ==
  ASSUME Steady, NEW key \in Keys, NEW value \in RecordsOf(key[1]),
         Genuine(key, value)
  PROVE  Genuine(key, value)'
<1>1. key[1] = "collapse-decision" => Passed(value)'
  <2>. SUFFICES ASSUME key[1] = "collapse-decision" PROVE Passed(value)'
    OBVIOUS
  <2>1. Passed(value) /\ value.turnstile_id \in Pool["turnstile"]
    BY RecordFields DEF Genuine
  <2>2. PICK k \in Keys : k = Turnstile(value.turnstile_id)
    BY <2>1, KeysMade
  <2>3. Stored(k) /\ Stored(k)' /\ k[1] = "turnstile"
    BY <2>1, <2>2 DEF Passed, Steady, Turnstile
  <2>4. Unreplaced(k)' => Unreplaced(k) /\ kv'[k].gate_passed = kv[k].gate_passed
    BY <2>3 DEF Steady, Same
  <2>. QED BY <2>1, <2>2, <2>3, <2>4 DEF Passed
<1>2. key[1] = "reactivation" => carried'[value.collapse_decision_id] > 0
  BY RecordFields, PoolsApart DEF Genuine, Steady
<1>3. key[1] = "reactivation-decision" => Asked(value)'
  <2>. SUFFICES ASSUME key[1] = "reactivation-decision" PROVE Asked(value)'
    OBVIOUS
  <2>1. /\ Asked(value) /\ value.reactivation_id \in Pool["reactivation"]
        /\ value.collapse_decision_id \in Decisions
    BY RecordFields, PoolsApart DEF Genuine
  <2>2. Reactivation(value.reactivation_id) \in Keys
    BY <2>1, KeysMade
  <2>. QED BY <2>1, <2>2 DEF Asked, Steady, Reactivation
<1>4. \A i \in Identities : \A d : CollapsedBy(i, d) => CollapsedBy(i, d)'
  <2>. SUFFICES ASSUME NEW i \in Identities, NEW d, CollapsedBy(i, d)
                PROVE  CollapsedBy(i, d)'
    OBVIOUS
  <2>1. PICK k \in Keys : k = CollapseDecision(d)
    BY KeysMade DEF CollapsedBy
  <2>2. k[1] = "collapse-decision" /\ Stored(k) /\ Stored(k)'
    BY <2>1 DEF CollapsedBy, Steady, CollapseDecision
  <2>3. Unreplaced(k)' =>
          /\ Unreplaced(k)
          /\ kv'[k].identity_id = kv[k].identity_id
          /\ kv'[k].decision = kv[k].decision
    BY <2>2 DEF Steady, Same
  <2>. QED BY <2>1, <2>2, <2>3 DEF CollapsedBy
<1>5. \A i \in Identities : \A d : RestoredBy(i, d) => RestoredBy(i, d)'
  <2>. SUFFICES ASSUME NEW i \in Identities, NEW d, RestoredBy(i, d)
                PROVE  RestoredBy(i, d)'
    OBVIOUS
  <2>1. PICK k \in Keys : k = ReactivationDecision(d)
    BY KeysMade DEF RestoredBy
  <2>2. k[1] = "reactivation-decision" /\ Stored(k) /\ Stored(k)'
    BY <2>1 DEF RestoredBy, Steady, ReactivationDecision
  <2>3. Unreplaced(k)' =>
          /\ Unreplaced(k)
          /\ kv'[k].identity_id = kv[k].identity_id
          /\ kv'[k].decision = kv[k].decision
    BY <2>2 DEF Steady, Same
  <2>. QED BY <2>1, <2>2, <2>3 DEF RestoredBy
<1>6. key[1] = "collapse-state" => key[2] \in Identities
  BY KeyParts, PoolsApart
<1>. QED BY <1>1, <1>2, <1>3, <1>4, <1>5, <1>6 DEF Genuine

LEMMA HeldSteady ==
  ASSUME Steady, NEW x \in Readings, Held(x)
  PROVE  Held(x)'
<1>1. CASE x.op = "decide"
  <2>1. /\ Reactivation(x.id) \in Keys
        /\ x.copy \in RecordsOf(Reactivation(x.id)[1])
    BY <1>1, KeysMade DEF Readings, Reactivation
  <2>2. Agrees(Reactivation(x.id), x.copy)' /\ Genuine(Reactivation(x.id), x.copy)'
    BY <1>1, <2>1, AgreesSteady, GenuineSteady DEF Held
  <2>. QED BY <1>1, <2>2 DEF Held
<1>2. CASE x.op # "decide"
  <2>1. /\ ReactivationDecision(x.id) \in Keys
        /\ x.copy \in RecordsOf(ReactivationDecision(x.id)[1])
    BY <1>2, KeysMade DEF Readings, ReactivationDecision
  <2>2. /\ Agrees(ReactivationDecision(x.id), x.copy)'
        /\ Genuine(ReactivationDecision(x.id), x.copy)'
    BY <1>2, <2>1, AgreesSteady, GenuineSteady DEF Held
  <2>. QED BY <1>2, <2>2 DEF Held
<1>. QED BY <1>1, <1>2

(* The counts of records posted again only grow.                           *)
Counts == again' \in [Keys -> Nat] /\ \A key \in Keys : again[key] <= again'[key]

LEMMA CountsGrow ==
  ASSUME TypeOK, Counts \/ UNCHANGED again
  PROVE  Counts /\ \A key \in Keys : Unreplaced(key)' => Unreplaced(key)
<1>1. again \in [Keys -> Nat]
  BY DEF TypeOK
<1>. QED BY <1>1 DEF Counts, Unreplaced

(* Nothing is disturbed by a step that stores nothing.                     *)
LEMMA StillSteady ==
  ASSUME TypeOK, UNCHANGED <<kv, carried>>, Counts \/ UNCHANGED again
  PROVE  Steady
<1>1. \A key \in Keys : Unreplaced(key)' => Unreplaced(key)
  BY CountsGrow
<1>. QED BY <1>1 DEF Steady, Same, Stored, Executed

LEMMA FitsSteady ==
  ASSUME Steady, NEW s, NEW n, s[n].key \in Keys, Fits(s, n)
  PROVE  Fits(s, n)'
<1>1. Genuine(s[n].key, s[n].value)'
  BY GenuineSteady DEF Fits
<1>2. ~IsFirst(s[n]) /\ s[n].key[1] # "collapse-state" => Agrees(s[n].key, s[n].value)'
  BY AgreesSteady DEF Fits
<1>3. \A d \in Decisions :
        /\ Carries(s[n], d) =>
             n = Len(s) /\ (Unreplaced(DecisionKey(d))' => Ready(s, n, d)')
        /\ Marks(s[n], d) => n = 1 /\ Len(s) > 1 /\ Carries(s[Len(s)], d)
  <2>. SUFFICES ASSUME NEW d \in Decisions
                PROVE  /\ Carries(s[n], d) =>
                            n = Len(s) /\ (Unreplaced(DecisionKey(d))' => Ready(s, n, d)')
                       /\ Marks(s[n], d) => n = 1 /\ Len(s) > 1 /\ Carries(s[Len(s)], d)
    OBVIOUS
  <2>1. DecisionKey(d) \in Keys
    BY DecisionKeys
  <2>2. Unreplaced(DecisionKey(d))' /\ Ready(s, n, d) => Ready(s, n, d)'
    BY <2>1 DEF Steady, Ready, Marks
  <2>3. Unreplaced(DecisionKey(d))' => Unreplaced(DecisionKey(d))
    BY <2>1 DEF Steady
  <2>. QED BY <2>2, <2>3 DEF Fits
<1>. QED BY <1>1, <1>2, <1>3 DEF Fits, IsFirst, Carries, Marks, DecisionKey

(* What is stored and counted stays as it should be.                       *)
LEMMA StillStored ==
  ASSUME IInv, UNCHANGED <<kv, carried>>, Counts \/ UNCHANGED again
  PROVE  /\ Steady
         /\ StoredGenuine' /\ StatesCarried' /\ CarriedExecuted'
         /\ \A d \in Decisions : Executed(d)' <=> Executed(d)
         /\ \A key \in Keys : Stored(key)' <=> Stored(key)
         /\ \A t : Approvals(t)' = Approvals(t)
<1>1. Steady
  BY StillSteady DEF IInv
<1>2. StoredGenuine'
  BY <1>1, GenuineSteady DEF IInv, StoredGenuine, Stored, TypeOK
<1>3. StatesCarried'
  BY DEF IInv, StatesCarried, Stored
<1>4. CarriedExecuted'
  BY <1>1, DecisionKeys DEF IInv, CarriedExecuted, Steady
<1>. QED BY <1>1, <1>2, <1>3, <1>4 DEF Executed, Stored, Approvals

LEMMA PutTypes ==
  ASSUME TypeOK
  PROVE  /\ todo \in [Requests -> Seq(Puts)]
         /\ \A r \in Requests : \A n \in DOMAIN todo[r] :
              /\ todo[r] \in Seq(Puts) /\ n \in 1..Len(todo[r])
              /\ todo[r][n] \in Puts /\ todo[r][n].key \in Keys
<1>1. todo \in [Requests -> Seq(Puts)]
  BY DEF TypeOK, Puts
<1>2. \A r \in Requests : \A n \in DOMAIN todo[r] :
        todo[r] \in Seq(Puts) /\ n \in 1..Len(todo[r]) /\ todo[r][n] \in Puts
  BY <1>1
<1>. QED BY <1>1, <1>2 DEF Puts

(* A request reads, or stops reading.                                      *)
LEMMA Reads ==
  ASSUME IInv, NEW r \in Requests, todo[r] = <<>>,
         NEW x \in Readings \union {None}, x # None => Held(x),
         reading' = [reading EXCEPT ![r] = x],
         overlap' \in BOOLEAN, overlap => overlap',
         ~overlap' => \A q \in Requests : q # r => Idle(q),
         ~overlap' /\ x # None /\ x.op # "decide" => ~Executed(x.id),
         UNCHANGED <<kv, todo, crashes, carried, again>>
  PROVE  IInv'
<1>. USE StillStored, PutTypes DEF IInv
<1>1. reading'[r] = x /\ \A q \in Requests : q # r => reading'[q] = reading[q]
  BY DEF TypeOK
<1>2. TypeOK'
  BY DEF TypeOK, Stored
<1>3. OneThing'
  BY <1>1 DEF OneThing
<1>4. PutsFit'
  <2>. SUFFICES ASSUME NEW q \in Requests, NEW n \in DOMAIN todo[q]
                PROVE  Fits(todo[q], n)'
    BY DEF PutsFit
  <2>1. Fits(todo[q], n) /\ todo[q][n].key \in Keys
    BY DEF PutsFit
  <2>2. \A s : s[n].key \in Keys /\ Fits(s, n) => Fits(s, n)'
    BY FitsSteady DEF Fits
  <2>. QED BY <2>1, <2>2
<1>5. FirstAlone'
  BY DEF FirstAlone, Unreplaced
<1>6. ReadingsHeld'
  <2>. SUFFICES ASSUME NEW q \in Requests, reading'[q] # None
                PROVE  Held(reading[q])'
    BY DEF ReadingsHeld
  <2>1. \A y \in Readings : Held(y) => Held(y)'
    BY HeldSteady
  <2>2. reading'[q] \in Readings /\ Held(reading'[q])
    BY <1>1 DEF TypeOK, ReadingsHeld
  <2>. QED BY <2>1, <2>2
<1>7. LossCovered'
  <2>1. Lost' = Lost
    BY DEF Lost, Carrying
  <2>. QED BY <2>1 DEF LossCovered
<1>8. Calm'
  <2>. SUFFICES ASSUME ~overlap'
                PROVE  Sole' /\ Once' /\ \A t \in Pool["turnstile"] : GrantedCovered(t)'
    BY DEF Calm
  <2>1. Sole'
    BY <1>1 DEF Sole, Idle
  <2>2. Once'
    <3>1. \A d : Outstanding(d)' <=> Outstanding(d)
      BY DEF Outstanding, Carrying, Announced, Stored, Executed
    <3>2. \A q \in Requests :
            reading'[q] # None /\ reading'[q].op # "decide" => ~Executed(reading'[q].id)
      BY <1>1 DEF Idle
    <3>3. \A d : Executed(d)' <=> Executed(d)
      BY DEF Executed, Stored
    <3>4. Once
      BY DEF Calm
    <3>5. \A d \in Decisions :
            carried'[d] + (IF Outstanding(d)' THEN 1 ELSE 0) <= 1 + again'[DecisionKey(d)]
      BY <3>1, <3>4 DEF Once
    <3>6. \A q \in Requests : \A n \in DOMAIN todo[q], d \in Decisions :
            Carries(todo[q][n], d) => Ready(todo[q], n, d)'
      BY <3>3, <3>4 DEF Once, Ready, Marks
    <3>. QED BY <3>2, <3>3, <3>5, <3>6 DEF Once, Carries, DecisionKey
  <2>3. ASSUME NEW t \in Pool["turnstile"] PROVE GrantedCovered(t)'
    <3>1. Granted(t)' = Granted(t) /\ (Spent(t)' <=> Spent(t))
      BY DEF Granted, Coming, Spent, Pending, Stored
    <3>. QED BY <3>1 DEF Calm, GrantedCovered
  <2>. QED BY <2>1, <2>2, <2>3
<1>. QED BY <1>2, <1>3, <1>4, <1>5, <1>6, <1>7, <1>8

(* Counting a set that does not grow, or by one element at most.           *)
LEMMA NoMore ==
  ASSUME NEW S, NEW T, IsFiniteSet(S), T \subseteq S
  PROVE  /\ IsFiniteSet(T) /\ Cardinality(T) <= Cardinality(S)
         /\ Cardinality(S) \in Nat /\ Cardinality(T) \in Nat
  BY FS_Subset, FS_CardinalityType

LEMMA OneMore ==
  ASSUME NEW S, NEW T, NEW x, IsFiniteSet(S), T \subseteq S \union {x}
  PROVE  /\ IsFiniteSet(T) /\ Cardinality(T) <= Cardinality(S) + 1
         /\ Cardinality(S) \in Nat /\ Cardinality(T) \in Nat
<1>1. /\ IsFiniteSet(S \union {x})
      /\ Cardinality(S \union {x}) =
           IF x \in S THEN Cardinality(S) ELSE Cardinality(S) + 1
  BY FS_AddElement
<1>2. Cardinality(S) \in Nat
  BY FS_CardinalityType
<1>3. /\ IsFiniteSet(T) /\ Cardinality(T) <= Cardinality(S \union {x})
      /\ Cardinality(T) \in Nat
  BY <1>1, NoMore
<1>. QED BY <1>1, <1>2, <1>3

(* A request that has read all it needs has puts to make.                  *)
Approves(p, t) ==
  /\ p.key[1] = "collapse-decision"
  /\ p.value.turnstile_id = t
  /\ p.value.decision = "approved"

Spends(p, t) == p.key = Turnstile(t) /\ p.value.decision # "undecided"

(* A record put the first time is counted as posted again, or is new.      *)
Posted(p) ==
  \/ again'[p.key] = again[p.key] + 1
  \/ /\ again'[p.key] = again[p.key]
     /\ ~Stored(p.key)
     /\ \A q \in Requests : \A m \in DOMAIN todo[q] : todo[q][m].key # p.key

LEMMA Promises ==
  ASSUME IInv, NEW r \in Requests, todo[r] = <<>>,
         NEW s \in Seq(Puts), Counts,
         \A n \in DOMAIN s : Fits(s, n),
         \A n, m \in DOMAIN s : s[n].key = s[m].key => n = m,
         \A n \in DOMAIN s : IsFirst(s[n]) => Posted(s[n]),
         WillPut(r, s),
         overlap' \in BOOLEAN, overlap => overlap',
         ~overlap' => \A q \in Requests : q # r => Idle(q),
         ~overlap' => \A n \in DOMAIN s, d \in Decisions :
                        Carries(s[n], d) =>
                          Ready(s, n, d) /\ Stored(DecisionKey(d)) /\ ~Executed(d),
         ~overlap' => \A n \in DOMAIN s, t \in Pool["turnstile"] :
                        Approves(s[n], t) =>
                          \/ s[n].key[2] \in Approvals(t)
                          \/ /\ n = 1 /\ ~Spent(t)
                             /\ \E m \in DOMAIN s : Spends(s[m], t)
  PROVE  IInv'
<1>. USE StillStored, PutTypes DEF IInv, WillPut
<1>1. /\ todo'[r] = s /\ \A q \in Requests : q # r => todo'[q] = todo[q]
      /\ reading'[r] = None /\ \A q \in Requests : q # r => reading'[q] = reading[q]
  BY DEF TypeOK
<1>2. TypeOK'
  <2>1. todo' \in [Requests -> Seq(Puts)]
    OBVIOUS
  <2>2. \A q \in Requests : \A n \in DOMAIN todo'[q] :
          todo'[q][n].value \in RecordsOf(todo'[q][n].key[1])
    BY <1>1 DEF Fits, TypeOK
  <2>3. reading' \in [Requests -> Readings \union {None}]
    BY DEF TypeOK
  <2>4. again' \in [Keys -> Nat]
    BY DEF Counts
  <2>. QED BY <2>1, <2>2, <2>3, <2>4 DEF TypeOK, Stored, Puts
<1>3. OneThing'
  BY <1>1 DEF OneThing
<1>4. PutsFit'
  <2>. SUFFICES ASSUME NEW q \in Requests, NEW n \in DOMAIN todo'[q]
                PROVE  Fits(todo[q], n)'
    BY DEF PutsFit
  <2>1. Fits(todo'[q], n) /\ todo'[q][n].key \in Keys
    <3>1. CASE q = r
      <4>1. n \in DOMAIN s /\ todo'[q] = s
        BY <3>1, <1>1
      <4>2. s[n] \in Puts /\ Fits(s, n)
        BY <4>1
      <4>. QED BY <4>1, <4>2 DEF Puts
    <3>2. CASE q # r
      BY <3>2, <1>1 DEF PutsFit
    <3>. QED BY <3>1, <3>2
  <2>2. \A u : u[n].key \in Keys /\ Fits(u, n) => Fits(u, n)'
    BY FitsSteady DEF Fits
  <2>. QED BY <2>1, <2>2
<1>5. FirstAlone'
  <2>. SUFFICES ASSUME NEW p \in Requests, NEW n \in DOMAIN todo'[p],
                       IsFirst(todo'[p][n]), again'[todo'[p][n].key] = 0
                PROVE  /\ ~Stored(todo'[p][n].key)
                       /\ \A q \in Requests : \A m \in DOMAIN todo'[q] :
                            todo'[p][n].key = todo'[q][m].key => p = q /\ n = m
    BY DEF FirstAlone, IsFirst, Stored, Unreplaced
  <2>1. CASE p = r
    <3>1. n \in DOMAIN s /\ todo'[p][n] = s[n] /\ s[n].key \in Keys /\ Posted(s[n])
      <4>1. todo'[p] = s
        BY <2>1, <1>1
      <4>2. n \in DOMAIN s /\ s[n] \in Puts /\ IsFirst(s[n])
        BY <4>1
      <4>. QED BY <4>1, <4>2 DEF Puts
    <3>2. again[s[n].key] \in Nat
      BY <3>1 DEF TypeOK
    <3>3. /\ ~Stored(s[n].key)
          /\ \A q \in Requests : \A m \in DOMAIN todo[q] : todo[q][m].key # s[n].key
      BY <3>1, <3>2 DEF Posted, Unreplaced
    <3>. QED BY <2>1, <3>1, <3>3, <1>1
  <2>2. CASE p # r
    <3>1. /\ n \in DOMAIN todo[p] /\ todo'[p] = todo[p]
          /\ todo[p][n].key \in Keys
      BY <2>2, <1>1
    <3>2. Unreplaced(todo[p][n].key)
      BY <3>1, CountsGrow DEF Unreplaced
    <3>3. /\ ~Stored(todo[p][n].key)
          /\ \A q \in Requests : \A m \in DOMAIN todo[q] :
               todo[p][n].key = todo[q][m].key => p = q /\ n = m
      BY <3>1, <3>2 DEF FirstAlone
    <3>4. ASSUME NEW m \in DOMAIN s, s[m].key = todo[p][n].key PROVE FALSE
      <4>1. s[m].key[1] # "collapse-state"
        BY <3>1, <3>4 DEF IsFirst
      <4>2. IsFirst(s[m])
        BY <3>3, <3>4, <4>1 DEF Fits, Agrees
      <4>3. Posted(s[m])
        BY <4>2
      <4>4. again'[s[m].key] = 0 /\ again[s[m].key] = 0
        BY <3>1, <3>2, <3>4 DEF Unreplaced
      <4>. QED BY <3>1, <3>4, <4>3, <4>4 DEF Posted
    <3>. QED BY <2>2, <3>1, <3>3, <3>4, <1>1
  <2>. QED BY <2>1, <2>2
<1>6. ReadingsHeld'
  <2>. SUFFICES ASSUME NEW q \in Requests, reading'[q] # None
                PROVE  Held(reading[q])'
    BY DEF ReadingsHeld
  <2>1. \A y \in Readings : Held(y) => Held(y)'
    BY HeldSteady
  <2>2. reading'[q] \in Readings /\ Held(reading'[q])
    BY <1>1 DEF TypeOK, ReadingsHeld
  <2>. QED BY <2>1, <2>2
<1>7. \A d : Carrying(d)' <=> Carrying(d) \/ \E n \in DOMAIN s : Carries(s[n], d)
  <2>. SUFFICES ASSUME NEW d
                PROVE  Carrying(d)' <=> Carrying(d) \/ \E n \in DOMAIN s : Carries(s[n], d)
    OBVIOUS
  <2>1. ASSUME NEW q \in Requests, NEW n \in DOMAIN todo'[q], Carries(todo'[q][n], d)
        PROVE  Carrying(d) \/ \E m \in DOMAIN s : Carries(s[m], d)
    <3>1. CASE q = r
      BY <3>1, <2>1, <1>1
    <3>2. CASE q # r
      BY <3>2, <2>1, <1>1 DEF Carrying
    <3>. QED BY <3>1, <3>2
  <2>2. ASSUME NEW q \in Requests, NEW n \in DOMAIN todo[q], Carries(todo[q][n], d)
        PROVE  \E m \in DOMAIN todo'[q] : Carries(todo'[q][m], d)
    <3>1. q # r
      BY <2>2
    <3>. QED BY <3>1, <2>2, <1>1
  <2>3. ASSUME NEW n \in DOMAIN s, Carries(s[n], d)
        PROVE  \E m \in DOMAIN todo'[r] : Carries(todo'[r][m], d)
    BY <2>3, <1>1
  <2>4. Carrying(d)' <=> \E q \in Requests : \E m \in DOMAIN todo'[q] : Carries(todo'[q][m], d)
    BY DEF Carrying, Carries
  <2>. QED BY <2>1, <2>2, <2>3, <2>4 DEF Carrying
<1>8. LossCovered'
  <2>1. Lost' \subseteq Lost
    BY <1>7 DEF Lost
  <2>. QED BY <2>1, NoMore DEF LossCovered, TypeOK
<1>9. Calm'
  <2>. SUFFICES ASSUME ~overlap'
                PROVE  Sole' /\ Once' /\ \A t \in Pool["turnstile"] : GrantedCovered(t)'
    BY DEF Calm
  <2>1. Sole'
    BY <1>1 DEF Sole, Idle
  <2>2. Once'
    <3>1. Once /\ \A q \in Requests : q # r => DOMAIN todo[q] = {}
      BY DEF Calm, Idle
    <3>2. ASSUME NEW d \in Decisions
          PROVE  carried'[d] + (IF Outstanding(d)' THEN 1 ELSE 0)
                   <= 1 + again'[DecisionKey(d)]
      <4>1. /\ DecisionKey(d) \in Keys /\ carried[d] \in Nat /\ carried' = carried
            /\ again[DecisionKey(d)] \in Nat /\ again'[DecisionKey(d)] \in Nat
            /\ again[DecisionKey(d)] <= again'[DecisionKey(d)]
        BY DecisionKeys DEF Counts, TypeOK
      <4>2. carried[d] + (IF Outstanding(d) THEN 1 ELSE 0) <= 1 + again[DecisionKey(d)]
        BY <3>1 DEF Once
      <4>3. CASE \E n \in DOMAIN s : s[n].key = DecisionKey(d) /\ IsFirst(s[n])
        <5>1. PICK n \in DOMAIN s : s[n].key = DecisionKey(d) /\ IsFirst(s[n])
          BY <4>3
        <5>2. \/ again'[DecisionKey(d)] = again[DecisionKey(d)] + 1
              \/ ~Stored(DecisionKey(d))
          BY <5>1 DEF Posted
        <5>3. ~Stored(DecisionKey(d)) => carried[d] = 0
          BY <4>1 DEF CarriedExecuted
        <5>. DEFINE was == IF Outstanding(d) THEN 1 ELSE 0
                    is == IF Outstanding(d)' THEN 1 ELSE 0
                    key == DecisionKey(d)
        <5>4. was \in {0, 1} /\ is \in {0, 1}
          OBVIOUS
        <5>5. CASE again'[key] = again[key] + 1
          <6>1. carried[d] + was <= 1 + again[key]
            BY <4>2
          <6>. HIDE DEF was, is, key
          <6>. QED BY <4>1, <5>4, <5>5, <6>1 DEF key, is
        <5>6. CASE ~Stored(key)
          <6>. HIDE DEF was, is
          <6>. QED BY <4>1, <5>3, <5>4, <5>6 DEF is
        <5>. QED BY <5>2, <5>5, <5>6
      <4>4. CASE \A n \in DOMAIN s : ~(s[n].key = DecisionKey(d) /\ IsFirst(s[n]))
        <5>1. Carrying(d)' => Carrying(d) \/ (Stored(DecisionKey(d)) /\ ~Executed(d))
          BY <1>7
        <5>2. Announced(d)' => Announced(d)
          <6>. SUFFICES ASSUME NEW q \in Requests, NEW n \in DOMAIN todo'[q],
                               todo'[q][n].key = DecisionKey(d), IsFirst(todo'[q][n])
                        PROVE  FALSE
            BY DEF Announced, IsFirst, DecisionKey
          <6>. QED BY <1>1, <3>1, <4>4
        <5>3. Executed(d)' <=> Executed(d)
          OBVIOUS
        <5>4. Stored(DecisionKey(d))' <=> Stored(DecisionKey(d))
          BY DEF Stored
        <5>5. Outstanding(d)' => Outstanding(d)
          BY <5>1, <5>2, <5>3, <5>4 DEF Outstanding, DecisionKey
        <5>. QED BY <4>1, <4>2, <5>5
      <4>. QED BY <4>3, <4>4
    <3>3. ASSUME NEW q \in Requests, NEW n \in DOMAIN todo'[q], NEW d \in Decisions,
                 Carries(todo'[q][n], d)
          PROVE  Ready(todo[q], n, d)'
      <4>1. q = r /\ n \in DOMAIN s /\ todo'[q] = s
        BY <1>1, <3>1, <3>3
      <4>2. Ready(s, n, d)
        BY <3>3, <4>1
      <4>3. Executed(d)' <=> Executed(d)
        OBVIOUS
      <4>. QED BY <4>1, <4>2, <4>3 DEF Ready, Marks
    <3>4. \A q \in Requests : reading'[q] = None
      BY <1>1 DEF Idle
    <3>. QED BY <3>2, <3>3, <3>4 DEF Once, Carries, DecisionKey
  <2>3. ASSUME NEW t \in Pool["turnstile"] PROVE GrantedCovered(t)'
    <3>1. Granted(t)' \subseteq Granted(t) \union
            {d \in Pool["collapse-decision"] :
               \E n \in DOMAIN s : s[n].key = CollapseDecision(d) /\ Approves(s[n], t)}
      <4>. SUFFICES ASSUME NEW d \in Coming(t)'
                    PROVE  \/ d \in Coming(t)
                           \/ \E n \in DOMAIN s :
                                s[n].key = CollapseDecision(d) /\ Approves(s[n], t)
        BY DEF Granted, Coming
      <4>1. PICK q \in Requests : \E n \in DOMAIN todo'[q] :
              /\ todo'[q][n].key = CollapseDecision(d)
              /\ todo'[q][n].value.turnstile_id = t
              /\ todo'[q][n].value.decision = "approved"
        BY DEF Coming
      <4>2. CASE q = r
        BY <4>1, <4>2, <1>1 DEF Approves, CollapseDecision
      <4>3. CASE q # r
        BY <4>1, <4>3, <1>1 DEF Coming
      <4>. QED BY <4>2, <4>3
    <3>2. GrantedCovered(t)
      BY DEF Calm
    <3>3. PICK k \in Keys : k = Turnstile(t)
      BY KeysMade
    <3>4. /\ crashes' = crashes /\ crashes \in Nat
          /\ again[k] \in Nat /\ again'[k] \in Nat /\ again[k] <= again'[k]
          /\ IsFiniteSet(Granted(t))
          /\ Cardinality(Granted(t)) <= crashes + again[k] + (IF Spent(t) THEN 1 ELSE 0)
      BY <3>2, <3>3, LifecycleAssumption DEF Counts, TypeOK, GrantedCovered
    <3>5. \A q \in Requests : q # r => DOMAIN todo[q] = {}
      BY DEF Idle
    <3>6. \A b : Pending(t, b)' <=>
             \E m \in DOMAIN s : s[m].key = k /\ (s[m].value.decision # "undecided") = b
      BY <1>1, <3>3, <3>5 DEF Pending, Turnstile
    <3>7. kv'[k] = kv[k] /\ (Stored(k)' <=> Stored(k)) /\ \A b : ~Pending(t, b)
      BY <3>5 DEF Pending
    <3>8. CASE \E n \in DOMAIN s : Approves(s[n], t) /\ s[n].key[2] \notin Approvals(t)
      <4>1. PICK n \in DOMAIN s : Approves(s[n], t) /\ s[n].key[2] \notin Approvals(t)
        BY <3>8
      <4>2. n = 1 /\ ~Spent(t) /\ \E m \in DOMAIN s : Spends(s[m], t)
        BY <4>1
      <4>3. PICK m \in DOMAIN s : Spends(s[m], t)
        BY <4>2
      <4>4. Pending(t, TRUE)' /\ ~Pending(t, FALSE)'
        BY <3>3, <3>6, <4>3 DEF Spends
      <4>5. Spent(t)'
        BY <4>4 DEF Spent
      <4>6. PICK d : d = s[1].key[2]
        OBVIOUS
      <4>7. Granted(t)' \subseteq Granted(t) \union {d}
        <5>1. \A i \in DOMAIN s : Approves(s[i], t) => i = 1 \/ s[i].key[2] \in Approvals(t)
          OBVIOUS
        <5>2. \A c \in Pool["collapse-decision"], i \in DOMAIN s :
                s[i].key = CollapseDecision(c) => s[i].key[2] = c
          BY DEF CollapseDecision
        <5>. QED BY <3>1, <4>6, <5>1, <5>2 DEF Granted
      <4>8. /\ IsFiniteSet(Granted(t)')
            /\ Cardinality(Granted(t)') <= Cardinality(Granted(t)) + 1
            /\ Cardinality(Granted(t)) \in Nat /\ Cardinality(Granted(t)') \in Nat
        BY <3>4, <4>7, OneMore
      <4>9. Cardinality(Granted(t)') <= crashes' + again'[k] + 1
        BY <3>4, <4>2, <4>8
      <4>. QED BY <3>3, <4>5, <4>8, <4>9 DEF GrantedCovered, Turnstile
    <3>9. CASE \A n \in DOMAIN s : Approves(s[n], t) => s[n].key[2] \in Approvals(t)
      <4>1. Granted(t)' \subseteq Granted(t)
        <5>1. \A c \in Pool["collapse-decision"], m \in DOMAIN s :
                s[m].key = CollapseDecision(c) => s[m].key[2] = c
          BY DEF CollapseDecision
        <5>. QED BY <3>1, <3>9, <5>1 DEF Granted
      <4>2. /\ IsFiniteSet(Granted(t)')
            /\ Cardinality(Granted(t)') <= Cardinality(Granted(t))
            /\ Cardinality(Granted(t)) \in Nat /\ Cardinality(Granted(t)') \in Nat
        BY <3>4, <4>1, NoMore
      <4>3. CASE Spent(t) /\ ~Spent(t)'
        <5>1. Stored(k) /\ kv[k].decision # "undecided"
          BY <3>3, <3>7, <4>3 DEF Spent
        <5>2. Pending(t, FALSE)'
          BY <3>3, <3>7, <4>3, <5>1 DEF Spent, Turnstile
        <5>3. PICK m \in DOMAIN s : s[m].key = k /\ s[m].value.decision = "undecided"
          BY <3>6, <5>2
        <5>4. IsFirst(s[m])
          BY <3>3, <5>3 DEF IsFirst, Turnstile
        <5>5. again'[k] = again[k] + 1
          BY <5>1, <5>3, <5>4 DEF Posted
        <5>6. Cardinality(Granted(t)') <= crashes' + again'[k] + 0
          BY <3>4, <4>2, <4>3, <5>5
        <5>. QED BY <3>3, <4>2, <4>3, <5>6 DEF GrantedCovered, Turnstile
      <4>4. CASE Spent(t) => Spent(t)'
        <5>1. Cardinality(Granted(t)') <=
                crashes' + again'[k] + (IF Spent(t)' THEN 1 ELSE 0)
          BY <3>4, <4>2, <4>4
        <5>. QED BY <3>3, <4>2, <5>1 DEF GrantedCovered, Turnstile
      <4>. QED BY <4>3, <4>4
    <3>. QED BY <3>8, <3>9
  <2>. QED BY <2>1, <2>2, <2>3
<1>. QED BY <1>2, <1>3, <1>4, <1>5, <1>6, <1>8, <1>9

(* A request is cut off: one decision more may be lost.                    *)
LEMMA Crashes ==
  ASSUME IInv, NEW r \in Requests, Crash(r)
  PROVE  IInv'
<1>. USE StillStored, PutTypes DEF IInv, Crash
<1>1. /\ todo'[r] = <<>> /\ \A q \in Requests : q # r => todo'[q] = todo[q]
      /\ reading'[r] = None /\ \A q \in Requests : q # r => reading'[q] = reading[q]
  BY DEF TypeOK
<1>2. \A q \in Requests : \A n \in DOMAIN todo'[q] :
        q # r /\ n \in DOMAIN todo[q] /\ todo'[q] = todo[q]
  BY <1>1
<1>3. TypeOK'
  <2>1. todo' \in [Requests -> Seq(Puts)]
    OBVIOUS
  <2>2. \A q \in Requests : \A n \in DOMAIN todo'[q] :
          todo'[q][n].value \in RecordsOf(todo'[q][n].key[1])
    BY <1>2 DEF TypeOK
  <2>3. reading' \in [Requests -> Readings \union {None}] /\ crashes' \in 0..MaxCrashes
    BY LifecycleAssumption DEF TypeOK
  <2>. QED BY <2>1, <2>2, <2>3 DEF TypeOK, Stored, Puts
<1>4. OneThing'
  BY <1>1 DEF OneThing
<1>5. PutsFit'
  <2>. SUFFICES ASSUME NEW q \in Requests, NEW n \in DOMAIN todo'[q]
                PROVE  Fits(todo[q], n)'
    BY DEF PutsFit
  <2>1. Fits(todo'[q], n) /\ todo'[q][n].key \in Keys
    BY <1>2 DEF PutsFit
  <2>2. \A u : u[n].key \in Keys /\ Fits(u, n) => Fits(u, n)'
    BY FitsSteady DEF Fits
  <2>. QED BY <2>1, <2>2
<1>6. FirstAlone'
  BY <1>2 DEF FirstAlone, IsFirst, Unreplaced
<1>7. ReadingsHeld'
  <2>. SUFFICES ASSUME NEW q \in Requests, reading'[q] # None
                PROVE  Held(reading[q])'
    BY DEF ReadingsHeld
  <2>1. \A y \in Readings : Held(y) => Held(y)'
    BY HeldSteady
  <2>2. reading'[q] \in Readings /\ Held(reading'[q])
    BY <1>1 DEF TypeOK, ReadingsHeld
  <2>. QED BY <2>1, <2>2
<1>8. \A d : Carrying(d)' => Carrying(d)
  BY <1>2 DEF Carrying
<1>9. LossCovered'
  <2>1. PICK e : e = todo[r][Len(todo[r])].value.by
    OBVIOUS
  <2>2. ASSUME NEW d \in Decisions, Carrying(d), ~Carrying(d)'
        PROVE  d = e
    <3>1. PICK q \in Requests : \E n \in DOMAIN todo[q] : Carries(todo[q][n], d)
      BY <2>2 DEF Carrying
    <3>2. q = r
      BY <2>2, <3>1, <1>1 DEF Carrying
    <3>3. PICK n \in DOMAIN todo[r] : Carries(todo[r][n], d) /\ Fits(todo[r], n)
      BY <3>1, <3>2 DEF PutsFit
    <3>. QED BY <3>3, <2>1 DEF Fits, Carries
  <2>3. Lost' \subseteq Lost \union {e}
    BY <2>2 DEF Lost
  <2>4. IsFiniteSet(Lost) /\ Cardinality(Lost) <= crashes
    BY DEF LossCovered
  <2>5. /\ IsFiniteSet(Lost') /\ Cardinality(Lost') <= Cardinality(Lost) + 1
        /\ Cardinality(Lost) \in Nat /\ Cardinality(Lost') \in Nat
    BY <2>3, <2>4, OneMore
  <2>. QED BY <2>4, <2>5 DEF LossCovered, TypeOK
<1>10. Calm'
  <2>. SUFFICES ASSUME ~overlap
                PROVE  Sole' /\ Once' /\ \A t \in Pool["turnstile"] : GrantedCovered(t)'
    BY DEF Calm
  <2>1. Sole'
    BY <1>1 DEF Calm, Sole, Idle
  <2>2. Once'
    <3>1. ASSUME NEW d \in Decisions
          PROVE  carried'[d] + (IF Outstanding(d)' THEN 1 ELSE 0)
                   <= 1 + again'[DecisionKey(d)]
      <4>1. Announced(d)' => Announced(d)
        BY <1>2 DEF Announced, IsFirst, DecisionKey
      <4>2. Outstanding(d)' => Outstanding(d)
        BY <1>8, <4>1 DEF Outstanding, DecisionKey, Stored, Executed
      <4>3. carried[d] \in Nat /\ again[DecisionKey(d)] \in Nat
        BY DecisionKeys DEF TypeOK
      <4>. QED BY <4>2, <4>3 DEF Calm, Once
    <3>2. \A q \in Requests :
            reading'[q] # None /\ reading'[q].op # "decide" => ~Executed(reading'[q].id)
      BY <1>1 DEF Calm, Once
    <3>3. \A d : Executed(d)' <=> Executed(d)
      BY DEF Executed, Stored
    <3>4. \A q \in Requests : \A n \in DOMAIN todo'[q], d \in Decisions :
            Carries(todo'[q][n], d) => Ready(todo'[q], n, d)
      BY <1>2 DEF Calm, Once
    <3>. QED BY <3>1, <3>2, <3>3, <3>4 DEF Once, Ready, Carries, Marks, DecisionKey
  <2>3. ASSUME NEW t \in Pool["turnstile"] PROVE GrantedCovered(t)'
    <3>1. Granted(t)' \subseteq Granted(t)
      BY <1>2 DEF Granted, Coming
    <3>2. /\ IsFiniteSet(Granted(t)) /\ again[Turnstile(t)] \in Nat /\ crashes \in Nat
          /\ Cardinality(Granted(t)) <= crashes + again[Turnstile(t)] + 1
      <4>1. GrantedCovered(t) /\ again[Turnstile(t)] \in Nat /\ crashes \in Nat
        BY KeysMade, LifecycleAssumption DEF Calm, TypeOK
      <4>2. Cardinality(Granted(t)) \in Nat
        BY <4>1, FS_CardinalityType DEF GrantedCovered
      <4>. QED BY <4>1, <4>2 DEF GrantedCovered
    <3>3. /\ IsFiniteSet(Granted(t)')
          /\ Cardinality(Granted(t)') <= Cardinality(Granted(t))
          /\ Cardinality(Granted(t)) \in Nat /\ Cardinality(Granted(t)') \in Nat
      BY <3>1, <3>2, NoMore
    <3>4. again' = again /\ crashes' = crashes + 1
      OBVIOUS
    <3>5. Cardinality(Granted(t)') <=
            crashes' + again'[Turnstile(t)] + (IF Spent(t)' THEN 1 ELSE 0)
      BY <3>2, <3>3, <3>4
    <3>. QED BY <3>3, <3>5 DEF GrantedCovered, Turnstile
  <2>. QED BY <2>1, <2>2, <2>3
<1>. QED BY <1>3, <1>4, <1>5, <1>6, <1>7, <1>9, <1>10

(* The first put of a request is made; the others move up by one.          *)
LEMMA PutMoves ==
  ASSUME TypeOK, NEW r \in Requests, Put(r),
         NEW p \in Puts, p = todo[r][1]
  PROVE  /\ todo[r] # <<>> /\ 1 \in DOMAIN todo[r]
         /\ todo' \in [Requests -> Seq(Puts)]
         /\ \A q \in Requests : \A n \in DOMAIN todo'[q] :
              IF q = r
              THEN n + 1 \in DOMAIN todo[r] /\ todo'[r][n] = todo[r][n + 1] /\ n >= 1
              ELSE n \in DOMAIN todo[q] /\ todo'[q] = todo[q]
         /\ Len(todo'[r]) = Len(todo[r]) - 1
         /\ \A q \in Requests : \A m \in DOMAIN todo[q] :
              \/ q = r /\ m = 1
              \/ \E n \in DOMAIN todo'[q] : todo'[q][n] = todo[q][m]
         /\ DOMAIN kv' = Keys /\ kv'[p.key] = p.value
         /\ \A key \in Keys : key # p.key => kv'[key] = kv[key]
         /\ p.key[1] # "collapse-state" => carried' = carried
         /\ p.key[1] = "collapse-state" =>
              carried' = [carried EXCEPT ![p.value.by] = @ + 1]
         /\ p.value \in RecordsOf(p.key[1]) /\ again' = again
<1>1. PICK s \in Seq(Puts) : s = todo[r]
  BY PutTypes
<1>2. s # <<>> /\ p = Head(s)
  BY <1>1 DEF Put
<1>3. /\ Tail(s) \in Seq(Puts) /\ Len(Tail(s)) = Len(s) - 1 /\ 1 \in DOMAIN s
      /\ \A n \in 1..Len(Tail(s)) : n + 1 \in DOMAIN s /\ Tail(s)[n] = s[n + 1]
      /\ \A m \in DOMAIN s : m # 1 => m - 1 \in 1..Len(Tail(s)) /\ Tail(s)[m - 1] = s[m]
  BY <1>2
<1>4. /\ todo'[r] = Tail(s) /\ todo' \in [Requests -> Seq(Puts)]
      /\ \A q \in Requests : q # r => todo'[q] = todo[q]
  BY <1>1, <1>3, PutTypes DEF Put
<1>5. p.key \in Keys /\ p.value \in RecordsOf(p.key[1])
  BY <1>1, <1>3 DEF TypeOK, Puts
<1>6. /\ kv' = [kv EXCEPT ![p.key] = p.value]
      /\ carried' = IF p.key[1] = "collapse-state"
                    THEN [carried EXCEPT ![p.value.by] = @ + 1] ELSE carried
      /\ again' = again
  BY <1>1, <1>2 DEF Put
<1>7. DOMAIN Tail(s) = 1..Len(Tail(s))
  BY <1>3
<1>8. /\ DOMAIN kv' = Keys /\ kv'[p.key] = p.value
      /\ \A key \in Keys : key # p.key => kv'[key] = kv[key]
  BY <1>5, <1>6 DEF TypeOK
<1>9. \A q \in Requests : \A n \in DOMAIN todo'[q] :
        IF q = r
        THEN n + 1 \in DOMAIN todo[r] /\ todo'[r][n] = todo[r][n + 1] /\ n >= 1
        ELSE n \in DOMAIN todo[q] /\ todo'[q] = todo[q]
  BY <1>1, <1>3, <1>4, <1>7
<1>10. \A q \in Requests : \A m \in DOMAIN todo[q] :
         \/ q = r /\ m = 1
         \/ \E n \in DOMAIN todo'[q] : todo'[q][n] = todo[q][m]
  <2>. SUFFICES ASSUME NEW q \in Requests, NEW m \in DOMAIN todo[q], ~(q = r /\ m = 1)
                PROVE  \E n \in DOMAIN todo'[q] : todo'[q][n] = todo[q][m]
    OBVIOUS
  <2>1. CASE q = r
    <3>1. m - 1 \in DOMAIN todo'[q] /\ todo'[q][m - 1] = todo[q][m]
      BY <2>1, <1>1, <1>3, <1>4, <1>7
    <3>. QED BY <3>1
  <2>2. CASE q # r
    BY <2>2, <1>4
  <2>. QED BY <2>1, <2>2
<1>. QED BY <1>1, <1>2, <1>3, <1>4, <1>5, <1>6, <1>8, <1>9, <1>10

LEMMA KeysNamed ==
  /\ \A d, key : key \in Keys /\ key = CollapseDecision(d) =>
       d \in Pool["collapse-decision"] /\ key[1] = "collapse-decision" /\ key[2] = d
  /\ \A d, key : key \in Keys /\ key = ReactivationDecision(d) =>
       d \in Pool["reactivation-decision"] /\ key[1] = "reactivation-decision" /\ key[2] = d
  /\ \A t, key : key \in Keys /\ key = Turnstile(t) =>
       t \in Pool["turnstile"] /\ key[1] = "turnstile" /\ key[2] = t
  /\ \A i, key : key \in Keys /\ key = CollapseState(i) =>
       i \in Identities /\ key[1] = "collapse-state" /\ key[2] = i
  BY KeyParts, PoolsApart
  DEF CollapseDecision, ReactivationDecision, Turnstile, CollapseState

(* What a put writes is there for good, and a mark is effective unless the
   decision is posted again.                                               *)
LEMMA PutSteady ==
  ASSUME IInv, NEW r \in Requests, Put(r),
         NEW p \in Puts, p = todo[r][1]
  PROVE  /\ Steady
         /\ Stored(p.key)'
         /\ \A d \in Decisions :
              IF p.key = DecisionKey(d)
              THEN Executed(d)' <=> ~IsFirst(p)
              ELSE /\ Executed(d)' <=> Executed(d)
                   /\ Stored(DecisionKey(d))' <=> Stored(DecisionKey(d))
         /\ \A d \in Decisions :
              carried'[d] = IF Carries(p, d) THEN carried[d] + 1 ELSE carried[d]
<1>. USE DEF IInv
<1>1. /\ Fits(todo[r], 1) /\ p.key \in Keys /\ p.key[1] \in Kinds
      /\ p.value \in RecordsOf(p.key[1]) /\ 1 \in DOMAIN todo[r]
      /\ kv'[p.key] = p.value
      /\ \A key \in Keys : key # p.key => kv'[key] = kv[key]
      /\ again' = again
  BY PutMoves, KeyParts DEF PutsFit, Puts
<1>2. Stored(p.key)'
  BY <1>1, LifecycleAssumption DEF Stored
<1>3. IsFirst(p) /\ Unreplaced(p.key) => ~Stored(p.key)
  BY <1>1 DEF FirstAlone
<1>4. \A key \in Keys : Stored(key) =>
        Stored(key)' /\ (Unreplaced(key) => Same(key[1], kv'[key], kv[key]))
  <2>1. Stored(p.key) /\ Unreplaced(p.key) => Same(p.key[1], p.value, kv[p.key])
    <3>1. CASE p.key[1] = "collapse-state"
      BY <3>1 DEF Same
    <3>2. CASE p.key[1] # "collapse-state"
      BY <1>1, <1>3, <3>2 DEF Fits, Agrees, Same
    <3>. QED BY <3>1, <3>2
  <2>2. \A key \in Keys : Same(key[1], kv[key], kv[key])
    BY DEF Same
  <2>. QED BY <1>1, <1>2, <2>1, <2>2 DEF Stored
<1>5. \A d \in Decisions :
        carried'[d] = IF Carries(p, d) THEN carried[d] + 1 ELSE carried[d]
  <2>1. CASE p.key[1] = "collapse-state"
    <3>1. carried' = [carried EXCEPT ![p.value.by] = @ + 1]
      BY <2>1, PutMoves
    <3>. QED BY <2>1, <3>1 DEF TypeOK, Carries
  <2>2. CASE p.key[1] # "collapse-state"
    BY <2>2, PutMoves DEF Carries
  <2>. QED BY <2>1, <2>2
<1>6. \A d \in Decisions : carried[d] > 0 => carried'[d] > 0
  BY <1>5 DEF TypeOK
<1>7. ASSUME NEW d \in Decisions, p.key = DecisionKey(d)
      PROVE  Executed(d)' <=> ~IsFirst(p)
  <2>1. CASE d \in Pool["collapse-decision"]
    <3>1. p.key = CollapseDecision(d) /\ p.key[1] = "collapse-decision"
      BY <1>7, <2>1, DecisionKeys DEF CollapseDecision
    <3>. QED BY <1>1, <1>2, <2>1, <3>1 DEF Executed, Stored, IsFirst
  <2>2. CASE d \notin Pool["collapse-decision"]
    <3>1. p.key = ReactivationDecision(d) /\ p.key[1] = "reactivation-decision"
      BY <1>7, <2>2, DecisionKeys, PoolsApart DEF ReactivationDecision
    <3>. QED BY <1>1, <1>2, <2>2, <3>1 DEF Executed, Stored, IsFirst
  <2>. QED BY <2>1, <2>2
<1>8. ASSUME NEW d \in Decisions, p.key # DecisionKey(d)
      PROVE  /\ Executed(d)' <=> Executed(d)
             /\ Stored(DecisionKey(d))' <=> Stored(DecisionKey(d))
  <2>1. kv'[DecisionKey(d)] = kv[DecisionKey(d)]
    BY <1>1, <1>8, DecisionKeys
  <2>2. CASE d \in Pool["collapse-decision"]
    BY <2>1, <2>2, DecisionKeys DEF Executed, Stored
  <2>3. CASE d \notin Pool["collapse-decision"]
    BY <2>1, <2>3, DecisionKeys, PoolsApart DEF Executed, Stored
  <2>. QED BY <2>2, <2>3
<1>9. \A d \in Decisions : Executed(d) /\ Unreplaced(DecisionKey(d)) => Executed(d)'
  <2>. SUFFICES ASSUME NEW d \in Decisions, Executed(d), Unreplaced(DecisionKey(d)),
                       p.key = DecisionKey(d)
                PROVE  ~IsFirst(p)
    BY <1>7, <1>8
  <2>1. Stored(DecisionKey(d))
    BY DecisionKeys, PoolsApart DEF Executed
  <2>. QED BY <1>3, <2>1
<1>10. \A key \in Keys : Unreplaced(key)' <=> Unreplaced(key)
  BY <1>1 DEF Unreplaced
<1>11. Steady
  BY <1>4, <1>6, <1>9, <1>10, DecisionKeys DEF Steady
<1>. QED BY <1>2, <1>5, <1>7, <1>8, <1>11

LEMMA PutsMade ==
  ASSUME IInv, NEW r \in Requests, Put(r)
  PROVE  IInv'
<1>. PICK p \in Puts : p = todo[r][1]
  <2>1. todo[r] \in Seq(Puts) /\ todo[r] # <<>>
    BY PutTypes DEF IInv, Put
  <2>. QED BY <2>1
<1>1. /\ \A q \in Requests : \A n \in DOMAIN todo'[q] :
           IF q = r
           THEN n + 1 \in DOMAIN todo[r] /\ todo'[r][n] = todo[r][n + 1] /\ n >= 1
           ELSE n \in DOMAIN todo[q] /\ todo'[q] = todo[q]
      /\ \A q \in Requests : \A m \in DOMAIN todo[q] :
           \/ q = r /\ m = 1
           \/ \E n \in DOMAIN todo'[q] : todo'[q][n] = todo[q][m]
      /\ Len(todo'[r]) = Len(todo[r]) - 1
      /\ todo[r] # <<>> /\ 1 \in DOMAIN todo[r]
  BY PutMoves DEF IInv
<1>2. DOMAIN kv' = Keys /\ kv'[p.key] = p.value
      /\ \A key \in Keys : key # p.key => kv'[key] = kv[key]
  BY PutMoves DEF IInv
<1>3. Steady
  BY PutSteady
<1>4. \A d \in Decisions :
        IF p.key = DecisionKey(d)
        THEN Executed(d)' <=> ~IsFirst(p)
        ELSE /\ Executed(d)' <=> Executed(d)
             /\ Stored(DecisionKey(d))' <=> Stored(DecisionKey(d))
  BY PutSteady
<1>5. \A d \in Decisions :
        carried'[d] = IF Carries(p, d) THEN carried[d] + 1 ELSE carried[d]
  BY PutSteady
<1>6. /\ todo' \in [Requests -> Seq(Puts)]
      /\ UNCHANGED <<reading, crashes, overlap, again>>
  BY PutMoves DEF IInv, Put
<1>7. p.key \in Keys /\ p.value \in RecordsOf(p.key[1])
  BY PutMoves DEF Puts, IInv
<1>8. /\ Fits(todo[r], 1)
      /\ \A q \in Requests : \A n \in DOMAIN todo[q] :
           /\ Fits(todo[q], n) /\ todo[q][n].key \in Keys
           /\ todo[q] \in Seq(Puts) /\ n \in 1..Len(todo[q])
  BY <1>1, PutTypes DEF IInv, PutsFit
<1>9. carried \in [Decisions -> Nat] /\ carried' \in [Decisions -> Nat]
  <2>1. carried \in [Decisions -> Nat]
    BY DEF IInv, TypeOK
  <2>2. carried' = carried \/ carried' = [carried EXCEPT ![p.value.by] = @ + 1]
    BY PutMoves DEF IInv
  <2>. QED BY <2>1, <2>2
<1>10. TypeOK'
  <2>1. \A key \in Keys : Stored(key)' => kv'[key] \in RecordsOf(key[1])
    BY <1>2, <1>7 DEF IInv, TypeOK, Stored
  <2>2. \A q \in Requests : \A n \in DOMAIN todo'[q] :
          todo'[q][n].value \in RecordsOf(todo'[q][n].key[1])
    BY <1>1 DEF IInv, TypeOK
  <2>. QED BY <1>2, <1>6, <1>9, <2>1, <2>2 DEF IInv, TypeOK, Puts
<1>11. OneThing'
  BY <1>1, <1>6 DEF IInv, OneThing, Put, TypeOK
<1>12. StoredGenuine'
  <2>. SUFFICES ASSUME NEW key \in Keys, Stored(key)'
                PROVE  Genuine(key, kv[key])'
    BY DEF StoredGenuine
  <2>1. \A value \in RecordsOf(key[1]) : Genuine(key, value) => Genuine(key, value)'
    BY <1>3, GenuineSteady
  <2>2. kv'[key] \in RecordsOf(key[1])
    BY <1>10 DEF TypeOK
  <2>3. Genuine(key, kv'[key])
    <3>1. CASE key = p.key
      <4>1. Genuine(todo[r][1].key, todo[r][1].value)
        BY <1>8 DEF Fits
      <4>. QED BY <3>1, <4>1, <1>2
    <3>2. CASE key # p.key
      BY <3>2, <1>2 DEF IInv, StoredGenuine, Stored
    <3>. QED BY <3>1, <3>2
  <2>. QED BY <2>1, <2>2, <2>3
<1>13. StatesCarried'
  <2>. SUFFICES ASSUME NEW i \in Identities, Stored(CollapseState(i))'
                PROVE  carried'[kv'[CollapseState(i)].by] > 0
    BY DEF StatesCarried
  <2>1. CollapseState(i) \in Keys
    BY KeysMade
  <2>2. kv'[CollapseState(i)] \in RecordsOf("collapse-state")
    BY <1>10, <2>1 DEF TypeOK, CollapseState
  <2>3. kv'[CollapseState(i)].by \in Decisions
    BY <2>2, RecordFields
  <2>4. CASE p.key = CollapseState(i)
    <3>1. Carries(p, p.value.by) /\ kv'[CollapseState(i)].by = p.value.by
      BY <1>2, <2>4 DEF Carries, CollapseState
    <3>. QED BY <1>5, <1>9, <2>3, <3>1
  <2>5. CASE p.key # CollapseState(i)
    <3>1. kv'[CollapseState(i)] = kv[CollapseState(i)]
      BY <1>2, <2>1, <2>5
    <3>2. carried[kv[CollapseState(i)].by] > 0
      BY <3>1 DEF IInv, StatesCarried, Stored
    <3>. QED BY <1>5, <1>9, <2>3, <3>1, <3>2
  <2>. QED BY <2>4, <2>5
<1>14. \A d \in Decisions : Carries(p, d) =>
         /\ Len(todo[r]) = 1 /\ Stored(DecisionKey(d))
         /\ Unreplaced(DecisionKey(d)) => Executed(d)
  <2>. SUFFICES ASSUME NEW d \in Decisions, Carries(p, d)
                PROVE  /\ Len(todo[r]) = 1 /\ Stored(DecisionKey(d))
                       /\ Unreplaced(DecisionKey(d)) => Executed(d)
    OBVIOUS
  <2>1. Len(todo[r]) = 1 /\ (Unreplaced(DecisionKey(d)) => Executed(d))
    BY <1>8 DEF Fits, Ready
  <2>2. Genuine(p.key, p.value)
    BY <1>8 DEF Fits
  <2>3. Stored(DecisionKey(d))
    BY <2>2, DecisionKeys DEF Genuine, Carries, CollapsedBy, RestoredBy
  <2>. QED BY <2>1, <2>3
<1>15. CarriedExecuted'
  <2>. SUFFICES ASSUME NEW d \in Decisions, carried'[d] > 0
                PROVE  /\ Stored(DecisionKey(d))'
                       /\ Unreplaced(DecisionKey(d))' => Executed(d)'
    BY DEF CarriedExecuted, DecisionKey
  <2>1. DecisionKey(d) \in Keys
    BY DecisionKeys
  <2>2. Stored(DecisionKey(d)) /\ (Unreplaced(DecisionKey(d)) => Executed(d))
    BY <1>5, <1>9, <1>14 DEF IInv, CarriedExecuted
  <2>. QED BY <1>3, <2>1, <2>2 DEF Steady
<1>16. PutsFit'
  <2>. SUFFICES ASSUME NEW q \in Requests, NEW n \in DOMAIN todo'[q]
                PROVE  Fits(todo[q], n)'
    BY DEF PutsFit
  <2>1. CASE q # r
    <3>1. /\ n \in DOMAIN todo[q] /\ todo'[q] = todo[q]
          /\ Fits(todo[q], n) /\ todo[q][n].key \in Keys
      BY <1>1, <1>8, <2>1
    <3>2. \A u : u[n].key \in Keys /\ Fits(u, n) => Fits(u, n)'
      BY <1>3, FitsSteady
    <3>. QED BY <3>1, <3>2
  <2>2. CASE q = r
    <3>. PICK s : s = todo[r]
      OBVIOUS
    <3>. PICK u : u = todo'[r]
      OBVIOUS
    <3>1. /\ n + 1 \in DOMAIN s /\ u[n] = s[n + 1] /\ n >= 1
          /\ Len(u) = Len(s) - 1 /\ n + 1 \in 1..Len(s) /\ s \in Seq(Puts)
          /\ Fits(s, n + 1) /\ s[n + 1].key \in Keys /\ s[1] = p
      BY <1>1, <1>8, <2>2
    <3>2. n + 1 # 1 /\ n \in Nat /\ Len(s) \in Nat
      BY <1>1, <1>6, <2>2, <3>1
    <3>3. Fits(s, n + 1)'
      BY <1>3, <3>1, FitsSteady
    <3>4. \A d \in Decisions :
            /\ Carries(s[n + 1], d) =>
                 n + 1 = Len(s) /\ (Unreplaced(DecisionKey(d))' => Executed(d)')
            /\ ~Marks(s[n + 1], d)
      <4>. SUFFICES ASSUME NEW d \in Decisions
                    PROVE  /\ Carries(s[n + 1], d) =>
                                /\ n + 1 = Len(s)
                                /\ Unreplaced(DecisionKey(d))' => Executed(d)'
                           /\ ~Marks(s[n + 1], d)
        OBVIOUS
      <4>1. ~Marks(s[n + 1], d)
        BY <3>1, <3>2 DEF Fits
      <4>2. ASSUME Carries(s[n + 1], d), Unreplaced(DecisionKey(d))'
            PROVE  Executed(d)'
        <5>1. Unreplaced(DecisionKey(d)) /\ Ready(s, n + 1, d)
          BY <1>3, <3>1, <4>2, DecisionKeys DEF Fits, Steady
        <5>2. CASE Executed(d)
          BY <1>3, <4>2, <5>2 DEF Steady
        <5>3. CASE Marks(p, d)
          <6>1. p.key = DecisionKey(d)
            BY <1>7, <5>3, KeysNamed, DecisionKeys, PoolsApart DEF Marks
          <6>. QED BY <1>4, <5>3, <6>1, MarkOrFirst
        <5>. QED BY <3>1, <5>1, <5>2, <5>3 DEF Ready
      <4>. QED BY <3>1, <4>1, <4>2 DEF Fits
    <3>5. \A m \in DOMAIN u : m + 1 \in DOMAIN s /\ u[m] = s[m + 1]
      BY <1>1, <2>2
    <3>6. Fits(u, n)'
      <4>1. Genuine(u[n].key, u[n].value)'
        BY <3>1, <3>3 DEF Fits
      <4>2. ~IsFirst(u[n]) /\ u[n].key[1] # "collapse-state" =>
              Agrees(u[n].key, u[n].value)'
        BY <3>1, <3>3 DEF Fits, IsFirst
      <4>3. IsFirst(u[n]) => \A m \in DOMAIN u : u[m].key[1] # "collapse-state"
        BY <3>1, <3>5 DEF Fits
      <4>4. \A d \in Decisions :
              /\ Carries(u[n], d) =>
                   n = Len(u) /\ (Unreplaced(DecisionKey(d))' => Ready(u, n, d)')
              /\ ~Marks(u[n], d)
        BY <3>1, <3>2, <3>4 DEF Ready
      <4>. QED BY <3>1, <4>1, <4>2, <4>3, <4>4
               DEF Fits, IsFirst, Carries, Marks, DecisionKey
    <3>. QED BY <2>2, <3>6
  <2>. QED BY <2>1, <2>2
<1>17. FirstAlone'
  <2>. SUFFICES ASSUME NEW k \in Requests, NEW n \in DOMAIN todo'[k],
                       IsFirst(todo'[k][n]), Unreplaced(todo'[k][n].key)
                PROVE  /\ kv'[todo'[k][n].key] = Absent
                       /\ \A q \in Requests : \A m \in DOMAIN todo'[q] :
                            todo'[k][n].key = todo'[q][m].key => k = q /\ n = m
    BY <1>6 DEF FirstAlone, IsFirst, Unreplaced, Stored
  <2>1. PICK i \in DOMAIN todo[k] :
          todo'[k][n] = todo[k][i] /\ (IF k = r THEN i = n + 1 /\ i # 1 ELSE i = n)
    BY <1>1, <1>6
  <2>2. /\ ~Stored(todo[k][i].key) /\ todo[k][i].key \in Keys
        /\ \A q \in Requests : \A m \in DOMAIN todo[q] :
             todo[k][i].key = todo[q][m].key => k = q /\ i = m
    BY <1>8, <2>1 DEF IInv, FirstAlone
  <2>3. todo[k][i].key # p.key
    BY <1>1, <2>1, <2>2
  <2>4. ASSUME NEW q \in Requests, NEW m \in DOMAIN todo'[q],
               todo'[k][n].key = todo'[q][m].key
        PROVE  k = q /\ n = m
    <3>1. PICK h \in DOMAIN todo[q] :
            todo'[q][m] = todo[q][h] /\ (IF q = r THEN h = m + 1 ELSE h = m)
      BY <1>1
    <3>2. k = q /\ i = h
      BY <2>1, <2>2, <2>4, <3>1
    <3>3. n \in Nat /\ m \in Nat
      BY <1>6
    <3>. QED BY <2>1, <3>1, <3>2, <3>3
  <2>. QED BY <1>2, <2>1, <2>2, <2>3, <2>4 DEF Stored
<1>18. ReadingsHeld'
  <2>. SUFFICES ASSUME NEW q \in Requests, reading'[q] # None
                PROVE  Held(reading[q])'
    BY DEF ReadingsHeld
  <2>1. \A y \in Readings : Held(y) => Held(y)'
    BY <1>3, HeldSteady
  <2>2. reading'[q] \in Readings /\ Held(reading'[q])
    BY <1>6 DEF IInv, TypeOK, ReadingsHeld
  <2>. QED BY <2>1, <2>2
<1>19. \A d \in Decisions :
         /\ Carrying(d)' => Carrying(d)
         /\ Carrying(d) => Carries(p, d) \/ Carrying(d)'
  <2>. SUFFICES ASSUME NEW d \in Decisions
                PROVE  /\ Carrying(d)' => Carrying(d)
                       /\ Carrying(d) => Carries(p, d) \/ Carrying(d)'
    OBVIOUS
  <2>1. Carrying(d)' => Carrying(d)
    BY <1>1 DEF Carrying, Carries
  <2>2. Carrying(d) => Carries(p, d) \/ Carrying(d)'
    BY <1>1 DEF Carrying, Carries
  <2>. QED BY <2>1, <2>2
<1>20. \A d \in Decisions : Marks(p, d) => Carrying(d)'
  <2>. SUFFICES ASSUME NEW d \in Decisions, Marks(p, d) PROVE Carrying(d)'
    OBVIOUS
  <2>1. Len(todo[r]) > 1 /\ Carries(todo[r][Len(todo[r])], d) /\ Len(todo[r]) \in Nat
    BY <1>8 DEF Fits
  <2>2. Len(todo[r]) \in DOMAIN todo[r]
    BY <1>1, <1>8, <2>1
  <2>3. \E n \in DOMAIN todo'[r] : todo'[r][n] = todo[r][Len(todo[r])]
    BY <1>1, <2>1, <2>2
  <2>. QED BY <2>1, <2>3 DEF Carrying, Carries
<1>21. LossCovered'
  <2>1. Lost' \subseteq Lost
    <3>. SUFFICES ASSUME NEW d \in Decisions, Executed(d)', carried'[d] = 0, ~Carrying(d)'
                  PROVE  Executed(d) /\ carried[d] = 0 /\ ~Carrying(d)
      BY DEF Lost
    <3>1. ~Marks(p, d)
      BY <1>20
    <3>2. Executed(d)
      BY <1>4, <3>1, MarkOrFirst
    <3>. QED BY <1>5, <1>9, <1>19, <3>2
  <2>2. IsFiniteSet(Lost) /\ Cardinality(Lost) <= crashes /\ crashes \in Nat
    BY LifecycleAssumption DEF IInv, LossCovered, TypeOK
  <2>3. /\ IsFiniteSet(Lost') /\ Cardinality(Lost') <= Cardinality(Lost)
        /\ Cardinality(Lost) \in Nat /\ Cardinality(Lost') \in Nat
    BY <2>1, <2>2, NoMore
  <2>. QED BY <1>6, <2>2, <2>3 DEF LossCovered
<1>22. Calm'
  <2>. SUFFICES ASSUME ~overlap
                PROVE  Sole' /\ Once' /\ \A t \in Pool["turnstile"] : GrantedCovered(t)'
    BY <1>6 DEF Calm
  <2>1. Sole /\ Once /\ \A t \in Pool["turnstile"] : GrantedCovered(t)
    BY DEF IInv, Calm
  <2>2. \A q \in Requests : ~Idle(q) => q = r
    BY <1>1, <2>1 DEF Sole, Idle
  <2>3. Sole'
    BY <1>1, <1>6, <2>2 DEF Sole, Idle, Put
  <2>4. Once'
    <3>1. ASSUME NEW d \in Decisions
          PROVE  carried'[d] + (IF Outstanding(d)' THEN 1 ELSE 0)
                   <= 1 + again'[DecisionKey(d)]
      <4>1. /\ carried[d] \in Nat /\ again[DecisionKey(d)] \in Nat /\ again' = again
            /\ carried[d] + (IF Outstanding(d) THEN 1 ELSE 0) <= 1 + again[DecisionKey(d)]
        BY <1>6, <1>9, <2>1, DecisionKeys DEF IInv, TypeOK, Once
      <4>2. CASE Carries(p, d)
        <5>1. Outstanding(d)
          BY <1>1, <4>2 DEF Outstanding, Carrying
        <5>2. Executed(d)
          BY <1>1, <2>1, <4>2 DEF Once, Ready
        <5>3. p.key # DecisionKey(d)
          BY <4>2, DecisionKeys DEF Carries
        <5>4. \A q \in Requests : DOMAIN todo'[q] = {}
          <6>1. \A q \in Requests : q # r => DOMAIN todo'[q] = {}
            BY <1>1, <2>2 DEF Idle
          <6>2. \A n \in DOMAIN todo'[r] : n + 1 \in DOMAIN todo[r] /\ n >= 1 /\ n \in Nat
            BY <1>1, <1>6
          <6>3. DOMAIN todo[r] = {1}
            BY <1>1, <1>8, <1>14, <4>2
          <6>. QED BY <6>1, <6>2, <6>3
        <5>5. ~Carrying(d)' /\ ~Announced(d)' /\ Executed(d)'
          BY <1>4, <5>2, <5>3, <5>4 DEF Carrying, Announced
        <5>6. ~Outstanding(d)'
          BY <5>5 DEF Outstanding
        <5>. QED BY <1>5, <4>1, <4>2, <5>1, <5>6
      <4>3. CASE ~Carries(p, d)
        <5>1. Announced(d)' => Announced(d)
          BY <1>1 DEF Announced, IsFirst, DecisionKey
        <5>2. Stored(DecisionKey(d))' /\ ~Executed(d)' =>
                Announced(d) \/ (Stored(DecisionKey(d)) /\ ~Executed(d))
          BY <1>1, <1>4 DEF Announced
        <5>3. Outstanding(d)' => Outstanding(d)
          BY <1>19, <5>1, <5>2 DEF Outstanding, DecisionKey
        <5>. QED BY <1>5, <4>1, <4>3, <5>3
      <4>. QED BY <4>2, <4>3
    <3>2. ASSUME NEW q \in Requests, NEW n \in DOMAIN todo'[q], NEW d \in Decisions,
                 Carries(todo'[q][n], d)
          PROVE  Executed(d)'
      <4>1. q = r
        BY <1>1, <2>2, <3>2 DEF Idle
      <4>2. /\ n + 1 \in DOMAIN todo[r] /\ todo'[r][n] = todo[r][n + 1]
            /\ Carries(todo[r][n + 1], d)
        BY <1>1, <3>2, <4>1
      <4>3. Ready(todo[r], n + 1, d)
        BY <2>1, <4>2 DEF Once
      <4>4. CASE p.key = DecisionKey(d)
        <5>1. ~IsFirst(p)
          BY <1>8, <4>2 DEF Fits, Carries
        <5>. QED BY <1>4, <4>4, <5>1
      <4>5. CASE p.key # DecisionKey(d)
        <5>1. ~Marks(p, d)
          BY <1>7, <4>5, KeysNamed, DecisionKeys, PoolsApart DEF Marks
        <5>. QED BY <1>4, <4>3, <4>5, <5>1 DEF Ready
      <4>. QED BY <4>4, <4>5
    <3>3. \A q \in Requests : reading'[q] = None
      BY <1>1, <1>6, <2>2 DEF IInv, OneThing, Idle
    <3>. QED BY <3>1, <3>2, <3>3 DEF Once, Ready, Carries, DecisionKey
  <2>5. ASSUME NEW t \in Pool["turnstile"] PROVE GrantedCovered(t)'
    <3>1. Coming(t)' \subseteq Coming(t)
      BY <1>1 DEF Coming
    <3>2. Approvals(t)' \subseteq Granted(t)
      <4>. SUFFICES ASSUME NEW d \in Approvals(t)' PROVE d \in Granted(t)
        OBVIOUS
      <4>1. CollapseDecision(d) \in Keys
        BY KeysMade DEF Approvals
      <4>2. CASE p.key = CollapseDecision(d)
        BY <1>1, <1>2, <4>2 DEF Approvals, Granted, Coming
      <4>3. CASE p.key # CollapseDecision(d)
        BY <1>2, <4>1, <4>3 DEF Approvals, Granted, Stored
      <4>. QED BY <4>2, <4>3
    <3>3. Spent(t) => Spent(t)'
      <4>. SUFFICES ASSUME Spent(t) PROVE Spent(t)'
        OBVIOUS
      <4>1. Turnstile(t) \in Keys
        BY KeysMade
      <4>2. ~Pending(t, FALSE)'
        BY <1>1 DEF Spent, Pending
      <4>3. CASE p.key = Turnstile(t)
        <5>1. p.value.decision # "undecided"
          BY <1>1, <4>3 DEF Spent, Pending
        <5>2. Stored(p.key)'
          BY PutSteady
        <5>. QED BY <1>2, <4>2, <4>3, <5>1, <5>2 DEF Spent, Turnstile
      <4>4. CASE p.key # Turnstile(t)
        <5>1. Pending(t, TRUE) => Pending(t, TRUE)'
          BY <1>1, <4>4 DEF Pending
        <5>2. kv'[Turnstile(t)] = kv[Turnstile(t)]
          BY <1>2, <4>1, <4>4
        <5>. QED BY <4>2, <5>1, <5>2 DEF Spent, Stored, Turnstile
      <4>. QED BY <4>3, <4>4
    <3>4. Granted(t)' \subseteq Granted(t)
      BY <3>1, <3>2 DEF Granted
    <3>5. GrantedCovered(t) /\ crashes \in Nat /\ again[Turnstile(t)] \in Nat
      BY <2>1, LifecycleAssumption, KeysMade DEF IInv, TypeOK
    <3>6. /\ IsFiniteSet(Granted(t)')
          /\ Cardinality(Granted(t)') <= Cardinality(Granted(t))
          /\ Cardinality(Granted(t)) \in Nat /\ Cardinality(Granted(t)') \in Nat
      BY <3>4, <3>5, NoMore DEF GrantedCovered
    <3>7. Cardinality(Granted(t)') <=
            crashes' + again'[Turnstile(t)] + (IF Spent(t)' THEN 1 ELSE 0)
      BY <1>6, <3>3, <3>5, <3>6 DEF GrantedCovered
    <3>. QED BY <3>6, <3>7 DEF GrantedCovered, Turnstile
  <2>. QED BY <2>3, <2>4, <2>5
<1>. QED
  BY <1>10, <1>11, <1>12, <1>13, <1>15, <1>16, <1>17, <1>18, <1>21, <1>22 DEF IInv

(* A record posted is counted when its identifier is in use, and new else. *)
LEMMA PostedGiven ==
  ASSUME TypeOK, NEW kind \in Kinds, NEW id \in Given(kind), Posts(kind, id)
  PROVE  /\ id \in Pool[kind] /\ <<kind, id>> \in Keys
         /\ Counts
         /\ \A p : p.key = <<kind, id>> => Posted(p)
<1>1. id \in Pool[kind] /\ <<kind, id>> \in Keys
  BY KeyMade DEF Given, Minted
<1>2. again \in [Keys -> Nat]
  BY DEF TypeOK
<1>3. CASE Taken(kind, id)
  <2>1. again' = [again EXCEPT ![<<kind, id>>] = @ + 1]
    BY <1>3 DEF Posts
  <2>. QED BY <1>1, <1>2, <2>1 DEF Counts, Posted
<1>4. CASE ~Taken(kind, id)
  <2>1. again' = again
    BY <1>4 DEF Posts
  <2>2. /\ ~Stored(<<kind, id>>)
        /\ \A q \in Requests : \A m \in DOMAIN todo[q] : todo[q][m].key # <<kind, id>>
    BY <1>4 DEF Taken, Stored
  <2>. QED BY <1>1, <1>2, <2>1, <2>2 DEF Counts, Posted
<1>. QED BY <1>3, <1>4

LEMMA Unposted ==
  ASSUME TypeOK, UNCHANGED again
  PROVE  Counts
  BY CountsGrow

(* A request received while no other is in progress leaves overlap alone.  *)
LEMMA Received ==
  ASSUME IInv, overlap' = (overlap \/ ~Quiet)
  PROVE  /\ overlap' \in BOOLEAN /\ (overlap => overlap')
         /\ ~overlap' => ~overlap /\ \A q \in Requests : Idle(q)
  BY DEF IInv, TypeOK, Quiet

(* One that is in progress while none was received during another is alone. *)
LEMMA Alone ==
  ASSUME IInv, NEW r \in Requests, ~Idle(r), UNCHANGED overlap
  PROVE  /\ overlap' \in BOOLEAN /\ (overlap => overlap')
         /\ ~overlap' => \A q \in Requests : q # r => Idle(q)
  BY DEF IInv, TypeOK, Calm, Sole

LEMMA StoredType ==
  ASSUME IInv
  PROVE  /\ \A t \in Pool["turnstile"] : Stored(Turnstile(t)) =>
              kv[Turnstile(t)] \in RecordsOf("turnstile")
         /\ \A d \in Pool["collapse-decision"] : Stored(CollapseDecision(d)) =>
              kv[CollapseDecision(d)] \in RecordsOf("collapse-decision")
         /\ \A i \in Identities : Stored(CollapseState(i)) =>
              kv[CollapseState(i)] \in RecordsOf("collapse-state")
         /\ \A v \in Pool["reactivation"] : Stored(Reactivation(v)) =>
              kv[Reactivation(v)] \in RecordsOf("reactivation")
         /\ \A e \in Pool["reactivation-decision"] : Stored(ReactivationDecision(e)) =>
              kv[ReactivationDecision(e)] \in RecordsOf("reactivation-decision")
  BY KeysMade
  DEF IInv, TypeOK, Turnstile, CollapseDecision, CollapseState, Reactivation,
      ReactivationDecision

LEMMA PassTurnstileIInv ==
  ASSUME IInv, NEW r \in Requests, PassTurnstile(r)
  PROVE  IInv'
<1>1. PICK by \in Identities, t \in Given("turnstile"), ok \in BOOLEAN :
        /\ Goes(r, <<Writes(Turnstile(t),
                       [identity_id |-> by, gate_passed |-> ok,
                        decision |-> "undecided"])>>)
        /\ Posts("turnstile", t)
  BY DEF PassTurnstile
<1>. DEFINE value == [identity_id |-> by, gate_passed |-> ok, decision |-> "undecided"]
            s == <<[key |-> Turnstile(t), value |-> value]>>
<1>2. /\ t \in Pool["turnstile"] /\ Turnstile(t) \in Keys /\ Counts
      /\ \A p : p.key = Turnstile(t) => Posted(p)
  BY <1>1, PostedGiven DEF Kinds, Turnstile, IInv
<1>3. value \in RecordsOf("turnstile")
  BY DEF RecordsOf, Verdicts
<1>4. s \in Seq(Puts) /\ DOMAIN s = {1}
  BY <1>2, <1>3 DEF Puts, Kinds
<1>5. Fits(s, 1)
  BY <1>2, <1>3
  DEF Fits, Genuine, IsFirst, Carries, Marks, Turnstile, CollapseDecision,
      ReactivationDecision
<1>6. WillPut(r, s) /\ Idle(r) /\ overlap' = (overlap \/ ~Quiet)
  BY <1>1 DEF Goes, Writes
<1>7. \A d : ~Carries(s[1], d)
  BY DEF Carries, Turnstile
<1>8. \A u : ~Approves(s[1], u)
  BY DEF Approves, Turnstile
<1>9. s[1].key = Turnstile(t)
  OBVIOUS
<1>. HIDE DEF s
<1>. QED BY <1>2, <1>4, <1>5, <1>6, <1>7, <1>8, <1>9, Promises, Received DEF Idle

LEMMA DecideCollapseIInv ==
  ASSUME IInv, NEW r \in Requests, DecideCollapse(r)
  PROVE  IInv'
<1>1. PICK by \in Identities, t \in Pool["turnstile"],
           d \in Given("collapse-decision"), v \in {"approved", "blocked"} :
        LET passage == kv[Turnstile(t)]
            final   == IF CollapseGate(passage, v) THEN v ELSE "blocked"
        IN  /\ ~Denied(passage, by)
            /\ Goes(r, CollapseDecisionPuts(t, d, passage, final))
            /\ Posts("collapse-decision", d)
  BY DEF DecideCollapse
<1>2. PICK passage : passage = kv[Turnstile(t)]
  OBVIOUS
<1>3. PICK final : final = IF CollapseGate(passage, v) THEN v ELSE "blocked"
  OBVIOUS
<1>4. ~Denied(passage, by) /\ Goes(r, CollapseDecisionPuts(t, d, passage, final))
  BY <1>1, <1>2, <1>3
<1>5. /\ Turnstile(t) \in Keys /\ Stored(Turnstile(t)) /\ passage \in RecordsOf("turnstile")
  BY <1>2, <1>4, KeysMade, StoredType DEF Denied, Stored
<1>6. /\ d \in Pool["collapse-decision"] /\ CollapseDecision(d) \in Keys /\ Counts
      /\ \A p : p.key = CollapseDecision(d) => Posted(p)
  BY <1>1, PostedGiven DEF Kinds, CollapseDecision, IInv
<1>7. /\ final \in Verdicts
      /\ final = "approved" => passage.decision = "undecided" /\ passage.gate_passed
  BY <1>3 DEF CollapseGate, Verdicts
<1>. DEFINE decision == [identity_id |-> passage.identity_id, turnstile_id |-> t,
                         decision |-> final, executed |-> FALSE]
            spent == [passage EXCEPT !.decision = final]
            s == <<[key |-> CollapseDecision(d), value |-> decision],
                   [key |-> Turnstile(t), value |-> spent]>>
<1>8. decision \in RecordsOf("collapse-decision")
  BY <1>5, <1>7 DEF RecordsOf
<1>9. /\ spent \in RecordsOf("turnstile") /\ spent.decision = final
      /\ spent.identity_id = passage.identity_id
      /\ spent.gate_passed = passage.gate_passed
  BY <1>5, <1>7 DEF RecordsOf
<1>. HIDE DEF spent
<1>10. s \in Seq(Puts) /\ DOMAIN s = {1, 2}
  BY <1>5, <1>6, <1>8, <1>9 DEF Puts, Kinds
<1>11. Fits(s, 1)
  <2>1. Passed(decision)
    BY <1>2, <1>5, <1>7 DEF Passed
  <2>2. \A m \in DOMAIN s : s[m].key[1] # "collapse-state"
    BY <1>10 DEF CollapseDecision, Turnstile
  <2>. QED
    BY <1>6, <1>8, <2>1, <2>2
    DEF Fits, Genuine, IsFirst, Carries, Marks, CollapseDecision, ReactivationDecision
<1>12. Fits(s, 2)
  <2>1. Agrees(Turnstile(t), spent)
    BY <1>2, <1>5, <1>9 DEF Agrees, Same, Turnstile
  <2>. QED
    BY <1>7, <1>9, <2>1
    DEF Fits, Genuine, IsFirst, Carries, Marks, CollapseDecision, ReactivationDecision,
        Turnstile, Verdicts
<1>13. WillPut(r, s) /\ Idle(r) /\ overlap' = (overlap \/ ~Quiet)
  BY <1>4 DEF Goes, Writes, CollapseDecisionPuts, spent
<1>14. \A c : ~Carries(s[1], c) /\ ~Carries(s[2], c)
  BY DEF Carries, Turnstile, CollapseDecision
<1>15. \A u : ~Approves(s[2], u)
  BY DEF Approves, Turnstile
<1>16. \A u : Approves(s[1], u) => u = t /\ final = "approved"
  BY DEF Approves
<1>17. /\ s[1].key = CollapseDecision(d) /\ s[2].key = Turnstile(t)
       /\ s[1].key # s[2].key /\ s[2].value = spent
  BY DEF CollapseDecision, Turnstile
<1>18. ~IsFirst(s[2])
  BY <1>7, <1>9 DEF IsFirst, Turnstile, Verdicts
<1>19. ~overlap' /\ final = "approved" => ~Spent(t) /\ Spends(s[2], t)
  <2>. SUFFICES ASSUME ~overlap', final = "approved"
                PROVE  ~Spent(t) /\ Spends(s[2], t)
    OBVIOUS
  <2>1. \A q \in Requests : todo[q] = <<>>
    BY <1>13, Received DEF Idle
  <2>. QED BY <1>2, <1>7, <1>9, <1>17, <2>1 DEF Spent, Pending, Spends
<1>. HIDE DEF s
<1>. QED
  <2>1. todo[r] = <<>>
    BY <1>13 DEF Idle
  <2>2. \A n \in DOMAIN s : Fits(s, n)
    BY <1>10, <1>11, <1>12
  <2>3. \A n, m \in DOMAIN s : s[n].key = s[m].key => n = m
    BY <1>10, <1>17
  <2>4. \A n \in DOMAIN s : IsFirst(s[n]) => Posted(s[n])
    BY <1>6, <1>10, <1>17, <1>18
  <2>5. \A n \in DOMAIN s, c \in Decisions : ~Carries(s[n], c)
    BY <1>10, <1>14
  <2>6. ~overlap' => \A n \in DOMAIN s, u \in Pool["turnstile"] :
          Approves(s[n], u) =>
            n = 1 /\ ~Spent(u) /\ \E m \in DOMAIN s : Spends(s[m], u)
    BY <1>10, <1>15, <1>16, <1>19
  <2>. QED BY <1>6, <1>10, <1>13, <2>1, <2>2, <2>3, <2>4, <2>5, <2>6, Promises, Received

LEMMA CollapseIInv ==
  ASSUME IInv, NEW r \in Requests, Collapse(r)
  PROVE  IInv'
<1>1. PICK by \in Identities, d \in Pool["collapse-decision"] :
        LET decision == kv[CollapseDecision(d)]
        IN  /\ ~Denied(decision, by)
            /\ Executable(decision)
            /\ Goes(r, CollapsePuts(d, decision))
            /\ UNCHANGED again
  BY DEF Collapse
<1>2. PICK decision : decision = kv[CollapseDecision(d)]
  OBVIOUS
<1>3. /\ ~Denied(decision, by) /\ Executable(decision)
      /\ Goes(r, CollapsePuts(d, decision))
  BY <1>1, <1>2
<1>4. /\ CollapseDecision(d) \in Keys /\ Stored(CollapseDecision(d))
      /\ decision \in RecordsOf("collapse-decision")
      /\ d \in Decisions /\ decision.decision = "approved"
  BY <1>2, <1>3, KeysMade, StoredType, PoolsApart DEF Denied, Stored, Executable
<1>5. ~Executed(d) /\ Stored(DecisionKey(d)) /\ Counts
  BY <1>1, <1>2, <1>3, <1>4, DecisionKeys, Unposted DEF Executed, Executable, IInv
<1>. DEFINE i == decision.identity_id
            done == [decision EXCEPT !.executed = TRUE]
            state == [collapsed |-> TRUE, by |-> d]
            s == <<[key |-> CollapseDecision(d), value |-> done],
                   [key |-> CollapseState(i), value |-> state]>>
<1>6. i \in Identities /\ CollapseState(i) \in Keys
  BY <1>4, RecordFields, KeysMade
<1>7. /\ done \in RecordsOf("collapse-decision") /\ done.executed
      /\ done.identity_id = decision.identity_id
      /\ done.turnstile_id = decision.turnstile_id
      /\ done.decision = decision.decision
  BY <1>4 DEF RecordsOf
<1>8. state \in RecordsOf("collapse-state")
  BY <1>4 DEF RecordsOf
<1>. HIDE DEF done
<1>9. s \in Seq(Puts) /\ DOMAIN s = {1, 2} /\ Len(s) = 2
  BY <1>4, <1>6, <1>7, <1>8 DEF Puts, Kinds
<1>10. Carries(s[2], d) /\ Marks(s[1], d)
  BY <1>7 DEF Carries, Marks, CollapseState
<1>11. Fits(s, 1)
  <2>1. Passed(decision)
    BY <1>2, <1>4 DEF IInv, StoredGenuine, Genuine, CollapseDecision
  <2>2. Passed(done)
    BY <1>7, <2>1 DEF Passed
  <2>3. Agrees(CollapseDecision(d), done)
    BY <1>2, <1>4, <1>7 DEF Agrees, Same, CollapseDecision
  <2>4. \A c \in Decisions : Marks(s[1], c) => c = d
    BY DEF Marks, CollapseDecision, ReactivationDecision
  <2>5. s[1].key = CollapseDecision(d) /\ s[1].value = done /\ ~IsFirst(s[1])
        /\ s[1].key[1] = "collapse-decision"
    BY <1>7 DEF IsFirst, CollapseDecision
  <2>6. \A c \in Decisions : ~Carries(s[1], c)
    BY <2>5 DEF Carries
  <2>7. Genuine(s[1].key, s[1].value)
    BY <2>2, <2>5 DEF Genuine
  <2>. HIDE DEF s
  <2>8. s[1].value \in RecordsOf(s[1].key[1]) /\ Agrees(s[1].key, s[1].value)
    BY <1>7, <2>3, <2>5
  <2>9. \A c \in Decisions : Marks(s[1], c) => Len(s) > 1 /\ Carries(s[Len(s)], c)
    BY <1>9, <1>10, <2>4
  <2>. QED BY <2>5, <2>6, <2>7, <2>8, <2>9 DEF Fits
<1>12. Fits(s, 2)
  <2>1. CollapsedBy(i, d)
    BY <1>2, <1>4 DEF CollapsedBy
  <2>5. Ready(s, 2, d)
    BY <1>10 DEF Ready
  <2>2. \A c \in Decisions : ~Marks(s[2], c) /\ (Carries(s[2], c) => c = d)
    BY DEF Marks, Carries, CollapseState, CollapseDecision, ReactivationDecision
  <2>3. Genuine(CollapseState(i), state)
    BY <2>1 DEF Genuine, CollapseState
  <2>4. s[2].key = CollapseState(i) /\ s[2].value = state /\ ~IsFirst(s[2])
        /\ s[2].key[1] = "collapse-state"
    BY DEF IsFirst, CollapseState
  <2>. HIDE DEF s, state, i
  <2>. QED BY <1>8, <1>9, <1>10, <2>2, <2>3, <2>4, <2>5 DEF Fits
<1>13. WillPut(r, s) /\ Idle(r) /\ overlap' = (overlap \/ ~Quiet)
  BY <1>3 DEF Goes, Writes, CollapsePuts, done
<1>14. ~IsFirst(s[1]) /\ ~IsFirst(s[2]) /\ s[1].key # s[2].key
  BY <1>7 DEF IsFirst, CollapseDecision, CollapseState
<1>15. \A n \in {1, 2} : \A c \in Decisions : Carries(s[n], c) =>
         Ready(s, n, c) /\ Stored(DecisionKey(c)) /\ ~Executed(c)
  <2>1. \A n \in {1, 2} : \A c \in Decisions : Carries(s[n], c) => n = 2 /\ c = d
    BY DEF Carries, CollapseDecision
  <2>2. Ready(s, 2, d)
    BY <1>10 DEF Ready
  <2>. HIDE DEF s
  <2>. QED BY <1>5, <2>1, <2>2
<1>16. \A n \in {1, 2} : \A u : Approves(s[n], u) => s[n].key[2] \in Approvals(u)
  BY <1>2, <1>4, <1>7 DEF Approves, Approvals, CollapseDecision, CollapseState
<1>. HIDE DEF s
<1>. QED
  <2>1. todo[r] = <<>>
    BY <1>13 DEF Idle
  <2>2. \A n \in DOMAIN s : Fits(s, n) /\ ~IsFirst(s[n])
    BY <1>9, <1>11, <1>12, <1>14
  <2>3. \A n, m \in DOMAIN s : s[n].key = s[m].key => n = m
    BY <1>9, <1>14
  <2>. QED BY <1>5, <1>9, <1>13, <1>15, <1>16, <2>1, <2>2, <2>3, Promises, Received

LEMMA AskReactivationIInv ==
  ASSUME IInv, NEW r \in Requests, AskReactivation(r)
  PROVE  IInv'
<1>1. PICK by \in Identities, v \in Given("reactivation") :
        LET state == kv[CollapseState(by)]
        IN  /\ Collapsed(state)
            /\ Goes(r, <<Writes(Reactivation(v),
                  [identity_id |-> by, collapse_decision_id |-> state.by,
                   decision |-> "undecided", reactivated |-> FALSE])>>)
            /\ Posts("reactivation", v)
  BY DEF AskReactivation
<1>2. PICK state : state = kv[CollapseState(by)]
  OBVIOUS
<1>3. /\ CollapseState(by) \in Keys /\ Stored(CollapseState(by))
      /\ state \in RecordsOf("collapse-state") /\ state.collapsed
  BY <1>1, <1>2, KeysMade, StoredType DEF Collapsed, Stored
<1>4. state.by \in Pool["collapse-decision"] /\ carried[state.by] > 0
  <2>1. CollapsedBy(CollapseState(by)[2], state.by)
    BY <1>2, <1>3 DEF IInv, StoredGenuine, Genuine, CollapseState
  <2>2. carried[state.by] > 0
    BY <1>2, <1>3 DEF IInv, StatesCarried
  <2>. QED BY <2>1, <2>2 DEF CollapsedBy
<1>. DEFINE value == [identity_id |-> by, collapse_decision_id |-> state.by,
                      decision |-> "undecided", reactivated |-> FALSE]
            s == <<[key |-> Reactivation(v), value |-> value]>>
<1>5. /\ v \in Pool["reactivation"] /\ Reactivation(v) \in Keys /\ Counts
      /\ \A p : p.key = Reactivation(v) => Posted(p)
  BY <1>1, PostedGiven DEF Kinds, Reactivation, IInv
<1>6. value \in RecordsOf("reactivation")
  BY <1>4 DEF RecordsOf, Verdicts
<1>7. s \in Seq(Puts) /\ DOMAIN s = {1}
  BY <1>5, <1>6 DEF Puts, Kinds
<1>8. Fits(s, 1)
  <2>1. s[1].key = Reactivation(v) /\ s[1].value = value /\ s[1].key[1] = "reactivation"
    BY DEF Reactivation
  <2>2. IsFirst(s[1])
    BY <2>1 DEF IsFirst
  <2>3. \A c \in Decisions : ~Carries(s[1], c) /\ ~Marks(s[1], c)
    BY <2>1 DEF Carries, Marks, CollapseDecision, ReactivationDecision
  <2>4. Genuine(s[1].key, s[1].value)
    BY <1>4, <2>1 DEF Genuine
  <2>. HIDE DEF s
  <2>. QED BY <1>6, <1>7, <2>1, <2>2, <2>3, <2>4 DEF Fits
<1>9. WillPut(r, s) /\ Idle(r) /\ overlap' = (overlap \/ ~Quiet)
  BY <1>1, <1>2 DEF Goes, Writes
<1>10. \A d : ~Carries(s[1], d)
  BY DEF Carries, Reactivation
<1>11. \A u : ~Approves(s[1], u)
  BY DEF Approves, Reactivation
<1>12. s[1].key = Reactivation(v)
  OBVIOUS
<1>. HIDE DEF s
<1>. QED BY <1>5, <1>7, <1>8, <1>9, <1>10, <1>11, <1>12, Promises, Received DEF Idle

LEMMA ReadReactivationIInv ==
  ASSUME IInv, NEW r \in Requests, ReadReactivation(r)
  PROVE  IInv'
<1>1. PICK by \in Identities, v \in Pool["reactivation"], w \in {"approved", "blocked"} :
        /\ ~Denied(kv[Reactivation(v)], by)
        /\ StartReading(r, [op |-> "decide", id |-> v, asked |-> w,
                            copy |-> kv[Reactivation(v)]])
  BY DEF ReadReactivation
<1>2. PICK x : x = [op |-> "decide", id |-> v, asked |-> w, copy |-> kv[Reactivation(v)]]
  OBVIOUS
<1>3. Stored(Reactivation(v)) /\ kv[Reactivation(v)] \in RecordsOf("reactivation")
  BY <1>1, StoredType DEF Denied, Stored
<1>4. x \in Readings
  BY <1>2, <1>3 DEF Readings, Verdicts
<1>5. Held(x)
  BY <1>2, <1>3, KeysMade DEF Held, Agrees, Same, IInv, StoredGenuine
<1>6. x.op = "decide" /\ StartReading(r, x)
  BY <1>1, <1>2
<1>7. /\ todo[r] = <<>> /\ reading' = [reading EXCEPT ![r] = x]
      /\ overlap' = (overlap \/ ~Quiet)
      /\ UNCHANGED <<kv, todo, crashes, carried, again>>
  BY <1>6 DEF StartReading, Idle
<1>. QED BY <1>4, <1>5, <1>6, <1>7, Reads, Received

LEMMA ReadRestoreIInv ==
  ASSUME IInv, NEW r \in Requests, ReadRestore(r)
  PROVE  IInv'
<1>1. PICK by \in Identities, e \in Pool["reactivation-decision"] :
        LET decision == kv[ReactivationDecision(e)]
        IN  /\ ~Denied(decision, by)
            /\ Restorable(decision)
            /\ StartReading(r, [op |-> "restore", id |-> e, copy |-> decision])
  BY DEF ReadRestore
<1>2. PICK x : x = [op |-> "restore", id |-> e, copy |-> kv[ReactivationDecision(e)]]
  OBVIOUS
<1>3. /\ Stored(ReactivationDecision(e))
      /\ kv[ReactivationDecision(e)] \in RecordsOf("reactivation-decision")
      /\ kv[ReactivationDecision(e)].decision = "approved"
      /\ ~kv[ReactivationDecision(e)].reactivated
  BY <1>1, StoredType DEF Denied, Stored, Restorable
<1>4. x \in Readings
  BY <1>2, <1>3 DEF Readings
<1>5. Held(x)
  BY <1>2, <1>3, KeysMade DEF Held, Agrees, Same, IInv, StoredGenuine
<1>6. x.id = e /\ StartReading(r, x)
  BY <1>1, <1>2
<1>7. /\ todo[r] = <<>> /\ reading' = [reading EXCEPT ![r] = x]
      /\ overlap' = (overlap \/ ~Quiet)
      /\ UNCHANGED <<kv, todo, crashes, carried, again>>
  BY <1>6 DEF StartReading, Idle
<1>8. ~Executed(x.id)
  BY <1>3, <1>6, PoolsApart DEF Executed
<1>. QED BY <1>4, <1>5, <1>7, <1>8, Reads, Received

LEMMA ReadStateIInv ==
  ASSUME IInv, NEW r \in Requests, ReadState(r)
  PROVE  IInv'
<1>1. PICK x : x = IF Collapsed(kv[CollapseState(reading[r].copy.identity_id)])
                   THEN [reading[r] EXCEPT !.op = "restoring"] ELSE None
  OBVIOUS
<1>2. /\ reading[r] \in Readings /\ reading[r].op = "restore" /\ todo[r] = <<>>
      /\ Held(reading[r]) /\ ~Idle(r)
  BY DEF ReadState, IInv, TypeOK, OneThing, ReadingsHeld, Idle
<1>3. reading' = [reading EXCEPT ![r] = x] /\ UNCHANGED <<kv, todo, crashes, overlap, carried, again>>
  BY <1>1 DEF ReadState, IInv, TypeOK
<1>4. reading[r] \in [op : {"restore", "restoring"}, id : Pool["reactivation-decision"],
                      copy : RecordsOf("reactivation-decision")]
  BY <1>2 DEF Readings
<1>5. CASE x = None
  BY <1>2, <1>3, <1>5, Reads, Alone
<1>6. CASE x # None
  <2>1. x = [reading[r] EXCEPT !.op = "restoring"]
    BY <1>1, <1>6
  <2>2. /\ x \in Readings /\ x.op = "restoring"
        /\ x.id = reading[r].id /\ x.copy = reading[r].copy
    BY <1>4, <2>1 DEF Readings
  <2>3. Held(x)
    BY <1>2, <2>2 DEF Held
  <2>4. ~overlap' => ~Executed(x.id)
    BY <1>2, <1>3, <1>6, <2>2 DEF ReadState, IInv, Calm, Once
  <2>. QED BY <1>2, <1>3, <2>2, <2>3, <2>4, Reads, Alone
<1>. QED BY <1>5, <1>6

LEMMA DecideReactivationIInv ==
  ASSUME IInv, NEW r \in Requests, DecideReactivation(r)
  PROVE  IInv'
<1>1. PICK x \in Readings : x = reading[r]
  BY DEF DecideReactivation, IInv, TypeOK
<1>2. PICK asked : asked = x.copy
  OBVIOUS
<1>3. PICK final :
        final = IF ReactivationGate(asked, kv[CollapseState(asked.identity_id)], x.asked)
                THEN x.asked ELSE "blocked"
  OBVIOUS
<1>4. PICK e \in Given("reactivation-decision") :
        /\ WillPut(r, ReactivationDecisionPuts(x.id, e, asked, final))
        /\ Posts("reactivation-decision", e)
  BY <1>1, <1>2, <1>3 DEF DecideReactivation
<1>5. x.op = "decide" /\ todo[r] = <<>> /\ Held(x) /\ ~Idle(r) /\ UNCHANGED overlap
  BY <1>1 DEF DecideReactivation, IInv, OneThing, ReadingsHeld, Idle
<1>6. /\ x.id \in Pool["reactivation"] /\ asked \in RecordsOf("reactivation")
      /\ x.asked \in Verdicts
  BY <1>2, <1>5 DEF Readings
<1>7. final \in Verdicts
  BY <1>3, <1>6 DEF Verdicts
<1>8. PICK v : v = x.id
  OBVIOUS
<1>9. /\ Reactivation(v) \in Keys /\ Agrees(Reactivation(v), asked)
      /\ Stored(Reactivation(v)) /\ carried[asked.collapse_decision_id] > 0
  <2>1. /\ Reactivation(v) \in Keys /\ Agrees(Reactivation(v), asked)
        /\ Genuine(Reactivation(v), asked)
    BY <1>2, <1>5, <1>6, <1>8, KeysMade DEF Held
  <2>. QED BY <2>1 DEF Genuine, Agrees, Reactivation
<1>10. /\ e \in Pool["reactivation-decision"] /\ ReactivationDecision(e) \in Keys
       /\ Counts /\ \A p : p.key = ReactivationDecision(e) => Posted(p)
  BY <1>4, PostedGiven DEF Kinds, ReactivationDecision, IInv
<1>. DEFINE decision == [identity_id |-> asked.identity_id, reactivation_id |-> v,
                         collapse_decision_id |-> asked.collapse_decision_id,
                         decision |-> final, reactivated |-> FALSE]
            answered == [asked EXCEPT !.decision = final, !.reactivated = FALSE]
            s == <<[key |-> ReactivationDecision(e), value |-> decision],
                   [key |-> Reactivation(v), value |-> answered]>>
<1>11. decision \in RecordsOf("reactivation-decision")
  BY <1>6, <1>7, <1>8 DEF RecordsOf
<1>12. /\ answered \in RecordsOf("reactivation") /\ answered.decision = final
       /\ answered.identity_id = asked.identity_id
       /\ answered.collapse_decision_id = asked.collapse_decision_id
  BY <1>6, <1>7 DEF RecordsOf
<1>. HIDE DEF answered
<1>13. s \in Seq(Puts) /\ DOMAIN s = {1, 2}
  BY <1>9, <1>10, <1>11, <1>12 DEF Puts, Kinds
<1>14. Fits(s, 1)
  <2>1. Asked(decision)
    BY <1>9 DEF Asked
  <2>2. \A m \in DOMAIN s : s[m].key[1] # "collapse-state"
    BY <1>13 DEF ReactivationDecision, Reactivation
  <2>. QED
    BY <1>10, <1>11, <2>1, <2>2
    DEF Fits, Genuine, IsFirst, Carries, Marks, CollapseDecision, ReactivationDecision
<1>15. ~IsFirst(s[2])
  BY <1>7, <1>12 DEF IsFirst, Reactivation, Verdicts
<1>16. Fits(s, 2)
  <2>1. Agrees(Reactivation(v), answered) /\ Genuine(Reactivation(v), answered)
    BY <1>9, <1>12 DEF Agrees, Same, Genuine, Reactivation
  <2>. QED
    BY <1>12, <1>15, <2>1
    DEF Fits, Carries, Marks, CollapseDecision, ReactivationDecision, Reactivation
<1>17. WillPut(r, s)
  BY <1>4, <1>8 DEF Writes, ReactivationDecisionPuts, answered
<1>18. \A n \in {1, 2} : \A c : ~Carries(s[n], c) /\ ~Approves(s[n], c)
  BY DEF Carries, Approves, Reactivation, ReactivationDecision
<1>19. s[1].key = ReactivationDecision(e) /\ s[1].key # s[2].key
  BY DEF Reactivation, ReactivationDecision
<1>. HIDE DEF s
<1>. QED
  <2>1. \A n \in DOMAIN s : Fits(s, n)
    BY <1>13, <1>14, <1>16
  <2>2. \A n, m \in DOMAIN s : s[n].key = s[m].key => n = m
    BY <1>13, <1>19
  <2>3. \A n \in DOMAIN s : IsFirst(s[n]) => Posted(s[n])
    BY <1>10, <1>13, <1>15, <1>19
  <2>. QED BY <1>5, <1>10, <1>13, <1>17, <1>18, <2>1, <2>2, <2>3, Promises, Alone

LEMMA RestoreIInv ==
  ASSUME IInv, NEW r \in Requests, Restore(r)
  PROVE  IInv'
<1>1. PICK x \in Readings : x = reading[r]
  BY DEF Restore, IInv, TypeOK
<1>2. /\ x.op = "restoring" /\ todo[r] = <<>> /\ Held(x) /\ ~Idle(r)
      /\ UNCHANGED <<overlap, again>> /\ Counts
  BY <1>1, Unposted DEF Restore, IInv, OneThing, ReadingsHeld, Idle
<1>3. PICK e, decision : e = x.id /\ decision = x.copy
  OBVIOUS
<1>4. /\ e \in Pool["reactivation-decision"] /\ ReactivationDecision(e) \in Keys
      /\ decision \in RecordsOf("reactivation-decision")
      /\ e \in Decisions
  BY <1>2, <1>3, KeysMade, PoolsApart DEF Readings
<1>5. /\ Agrees(ReactivationDecision(e), decision) /\ decision.decision = "approved"
      /\ Stored(ReactivationDecision(e))
  BY <1>2, <1>3 DEF Held, Agrees
<1>6. PICK v, i : v = decision.reactivation_id /\ i = decision.identity_id
  OBVIOUS
<1>7. /\ v \in Pool["reactivation"] /\ i \in Identities
      /\ Reactivation(v) \in Keys /\ CollapseState(i) \in Keys
  BY <1>4, <1>6, RecordFields, KeysMade
<1>8. Asked(decision)
  <2>1. Genuine(ReactivationDecision(e), decision)
    BY <1>2, <1>3 DEF Held
  <2>. QED BY <2>1 DEF Genuine, ReactivationDecision
<1>9. PICK asked : asked = kv[Reactivation(v)]
  OBVIOUS
<1>10. Stored(Reactivation(v)) /\ asked \in RecordsOf("reactivation")
  BY <1>6, <1>7, <1>8, <1>9, StoredType DEF Asked
<1>11. WillPut(r, RestorePuts(e, decision, asked))
  BY <1>1, <1>3, <1>6, <1>9 DEF Restore
<1>. DEFINE done == [decision EXCEPT !.reactivated = TRUE]
            granted == [asked EXCEPT !.reactivated = TRUE]
            state == [collapsed |-> FALSE, by |-> e]
            s == <<[key |-> ReactivationDecision(e), value |-> done],
                   [key |-> Reactivation(v), value |-> granted],
                   [key |-> CollapseState(i), value |-> state]>>
<1>12. /\ done \in RecordsOf("reactivation-decision") /\ done.reactivated
       /\ done.identity_id = decision.identity_id
       /\ done.reactivation_id = decision.reactivation_id
       /\ done.collapse_decision_id = decision.collapse_decision_id
       /\ done.decision = decision.decision
  BY <1>4 DEF RecordsOf
<1>13. /\ granted \in RecordsOf("reactivation") /\ granted.reactivated
       /\ granted.identity_id = asked.identity_id
       /\ granted.collapse_decision_id = asked.collapse_decision_id
  BY <1>10 DEF RecordsOf
<1>14. state \in RecordsOf("collapse-state")
  BY <1>4 DEF RecordsOf
<1>. HIDE DEF done, granted
<1>15. s \in Seq(Puts) /\ DOMAIN s = {1, 2, 3} /\ Len(s) = 3
  <2>1. /\ [key |-> ReactivationDecision(e), value |-> done] \in Puts
        /\ [key |-> Reactivation(v), value |-> granted] \in Puts
        /\ [key |-> CollapseState(i), value |-> state] \in Puts
    BY <1>4, <1>7, <1>12, <1>13, <1>14 DEF Puts, Kinds
  <2>. QED BY <2>1
<1>16. Marks(s[1], e) /\ Carries(s[3], e)
  BY <1>12 DEF Marks, Carries, CollapseState
<1>17. ~IsFirst(s[1]) /\ ~IsFirst(s[2]) /\ ~IsFirst(s[3])
  BY <1>12, <1>13 DEF IsFirst, ReactivationDecision, Reactivation, CollapseState
<1>18. Fits(s, 1)
  <2>1. Asked(done)
    BY <1>8, <1>12 DEF Asked
  <2>2. Agrees(ReactivationDecision(e), done)
    BY <1>5, <1>12 DEF Agrees, Same, ReactivationDecision
  <2>3. \A c \in Decisions : Marks(s[1], c) => c = e
    BY DEF Marks, CollapseDecision, ReactivationDecision
  <2>. QED
    BY <1>12, <1>15, <1>16, <1>17, <2>1, <2>2, <2>3
    DEF Fits, Genuine, Carries, ReactivationDecision, Ready
<1>19. Fits(s, 2)
  <2>1. carried[asked.collapse_decision_id] > 0
    BY <1>7, <1>9, <1>10 DEF IInv, StoredGenuine, Genuine, Reactivation
  <2>2. Agrees(Reactivation(v), granted) /\ Genuine(Reactivation(v), granted)
    BY <1>9, <1>10, <1>13, <2>1 DEF Agrees, Same, Genuine, Reactivation
  <2>. QED
    BY <1>13, <1>17, <2>2
    DEF Fits, Carries, Marks, CollapseDecision, ReactivationDecision, Reactivation
<1>20. Fits(s, 3)
  <2>1. RestoredBy(i, e)
    BY <1>4, <1>5, <1>6 DEF RestoredBy, Agrees, Same, ReactivationDecision
  <2>2. Genuine(CollapseState(i), state)
    BY <2>1 DEF Genuine, CollapseState
  <2>3. \A c \in Decisions : ~Marks(s[3], c) /\ (Carries(s[3], c) => c = e)
    BY DEF Marks, Carries, CollapseState, CollapseDecision, ReactivationDecision
  <2>4. s[3].key = CollapseState(i) /\ s[3].value = state
        /\ s[3].key[1] = "collapse-state"
    BY DEF CollapseState
  <2>. HIDE DEF s, state
  <2>5. Ready(s, 3, e)
    BY <1>16 DEF Ready
  <2>. QED BY <1>14, <1>15, <1>16, <1>17, <2>2, <2>3, <2>4, <2>5 DEF Fits
<1>21. WillPut(r, s)
  BY <1>6, <1>11 DEF Writes, RestorePuts, done, granted
<1>22. \A n \in {1, 2, 3} : \A u : ~Approves(s[n], u)
  BY DEF Approves, Reactivation, ReactivationDecision, CollapseState
<1>23. Ready(s, 3, e) /\ Stored(DecisionKey(e)) /\ (~overlap' => ~Executed(e))
  <2>1. ~overlap => ~Executed(e)
    BY <1>1, <1>2, <1>3 DEF Restore, IInv, Calm, Once
  <2>. QED BY <1>2, <1>4, <1>5, <1>16, <2>1, DecisionKeys DEF Ready
<1>24. \A n \in {1, 2, 3} : \A c : Carries(s[n], c) => n = 3 /\ c = e
  BY DEF Carries, Reactivation, ReactivationDecision
<1>25. s[1].key # s[2].key /\ s[1].key # s[3].key /\ s[2].key # s[3].key
  BY DEF Reactivation, ReactivationDecision, CollapseState
<1>. HIDE DEF s
<1>. QED
  <2>1. \A n \in DOMAIN s : Fits(s, n) /\ ~IsFirst(s[n])
    BY <1>15, <1>17, <1>18, <1>19, <1>20
  <2>2. \A n, m \in DOMAIN s : s[n].key = s[m].key => n = m
    BY <1>15, <1>25
  <2>. QED BY <1>2, <1>15, <1>21, <1>22, <1>23, <1>24, <2>1, <2>2, Promises, Alone

LEMMA InitIInv == Init => IInv
<1>. SUFFICES ASSUME Init PROVE IInv
  OBVIOUS
<1>1. /\ \A key \in Keys : kv[key] = Absent
      /\ \A r \in Requests : reading[r] = None /\ todo[r] = <<>> /\ DOMAIN todo[r] = {}
      /\ \A d \in Decisions : carried[d] = 0
      /\ crashes = 0 /\ overlap = FALSE /\ \A key \in Keys : again[key] = 0
  BY DEF Init
<1>2. \A d \in Decisions : ~Executed(d)
  BY <1>1, KeysMade, PoolsApart DEF Executed, Stored
<1>3. TypeOK
  <2>1. todo \in [Requests -> Seq(Puts)]
    BY DEF Init
  <2>2. kv = [k \in Keys |-> Absent] /\ reading = [r \in Requests |-> None]
        /\ carried = [d \in Decisions |-> 0] /\ again = [k \in Keys |-> 0]
    BY DEF Init
  <2>3. /\ DOMAIN kv = Keys /\ reading \in [Requests -> Readings \union {None}]
        /\ carried \in [Decisions -> Nat] /\ again \in [Keys -> Nat]
    BY <2>2
  <2>4. /\ \A key \in Keys : Stored(key) => kv[key] \in RecordsOf(key[1])
        /\ \A r \in Requests : \A n \in DOMAIN todo[r] :
             todo[r][n].value \in RecordsOf(todo[r][n].key[1])
    BY <1>1 DEF Stored
  <2>5. crashes \in 0..MaxCrashes
    BY <1>1, LifecycleAssumption
  <2>6. overlap \in BOOLEAN
    BY DEF Init
  <2>. QED BY <2>1, <2>3, <2>4, <2>5, <2>6 DEF TypeOK, Puts
<1>4. StoredGenuine /\ StatesCarried /\ CarriedExecuted /\ OneThing
  BY <1>1, <1>2, KeysMade
  DEF StoredGenuine, StatesCarried, CarriedExecuted, OneThing, Stored
<1>5. PutsFit /\ FirstAlone /\ ReadingsHeld
  BY <1>1 DEF PutsFit, FirstAlone, ReadingsHeld
<1>6. LossCovered
  <2>1. Lost = {}
    BY <1>2 DEF Lost
  <2>. QED BY <1>1, <2>1, FS_EmptySet DEF LossCovered
<1>7. Calm
  <2>1. Sole
    BY <1>1 DEF Sole, Idle
  <2>2. Once
    <3>1. \A d \in Decisions : ~Outstanding(d) /\ again[DecisionKey(d)] = 0
      BY <1>1, DecisionKeys DEF Outstanding, Carrying, Announced, Stored
    <3>. QED BY <1>1, <3>1 DEF Once
  <2>3. ASSUME NEW t \in Pool["turnstile"] PROVE GrantedCovered(t)
    <3>1. Approvals(t) = {}
      BY <1>1, KeysMade DEF Approvals, Stored
    <3>2. Granted(t) = {}
      BY <1>1, <3>1 DEF Granted, Coming
    <3>3. ~Spent(t) /\ again[Turnstile(t)] = 0
      BY <1>1, KeysMade DEF Spent, Pending, Stored
    <3>. QED BY <1>1, <3>2, <3>3, FS_EmptySet DEF GrantedCovered
  <2>. QED BY <2>1, <2>2, <2>3 DEF Calm
<1>. QED BY <1>3, <1>4, <1>5, <1>6, <1>7 DEF IInv

LEMMA NextIInv == IInv /\ [Next]_vars => IInv'
<1>1. ASSUME IInv, NEW r \in Requests,
             \/ PassTurnstile(r) \/ DecideCollapse(r) \/ Collapse(r)
             \/ AskReactivation(r) \/ ReadReactivation(r) \/ DecideReactivation(r)
             \/ ReadRestore(r) \/ ReadState(r) \/ Restore(r)
             \/ Put(r) \/ Crash(r)
      PROVE  IInv'
  BY <1>1, PassTurnstileIInv, DecideCollapseIInv, CollapseIInv, AskReactivationIInv,
     ReadReactivationIInv, DecideReactivationIInv, ReadRestoreIInv, ReadStateIInv,
     RestoreIInv, PutsMade, Crashes
<1>2. ASSUME IInv, UNCHANGED vars PROVE IInv'
  <2>1. UNCHANGED <<kv, reading, todo, crashes, overlap, carried, again>>
    BY <1>2 DEF vars
  <2>2. StoredGenuine' /\ StatesCarried' /\ CarriedExecuted' /\ Steady
    BY <1>2, <2>1, StillStored
  <2>3. TypeOK' /\ OneThing' /\ FirstAlone'
    <3>1. TypeOK'
      BY <1>2, <2>1 DEF IInv, TypeOK, Stored
    <3>2. OneThing'
      BY <1>2, <2>1 DEF IInv, OneThing
    <3>3. FirstAlone'
      BY <1>2, <2>1 DEF IInv, FirstAlone, IsFirst, Stored, Unreplaced
    <3>. QED BY <3>1, <3>2, <3>3
  <2>4. PutsFit'
    <3>. SUFFICES ASSUME NEW q \in Requests, NEW n \in DOMAIN todo'[q]
                  PROVE  Fits(todo[q], n)'
      BY DEF PutsFit
    <3>1. Fits(todo'[q], n) /\ todo'[q][n].key \in Keys
      BY <1>2, <2>1, PutTypes DEF IInv, PutsFit
    <3>2. \A u : u[n].key \in Keys /\ Fits(u, n) => Fits(u, n)'
      BY <2>2, FitsSteady
    <3>. QED BY <3>1, <3>2
  <2>5. ReadingsHeld'
    <3>. SUFFICES ASSUME NEW q \in Requests, reading'[q] # None
                  PROVE  Held(reading[q])'
      BY DEF ReadingsHeld
    <3>1. \A y \in Readings : Held(y) => Held(y)'
      BY <2>2, HeldSteady
    <3>2. reading'[q] \in Readings /\ Held(reading'[q])
      BY <1>2, <2>1 DEF IInv, TypeOK, ReadingsHeld
    <3>. QED BY <3>1, <3>2
  <2>6. LossCovered'
    BY <1>2, <2>1 DEF IInv, LossCovered, Lost, Carrying, Carries, Executed, Stored
  <2>7. Calm'
    <3>1. Sole' <=> Sole
      BY <2>1 DEF Sole, Idle
    <3>2. Once' <=> Once
      BY <2>1 DEF Once, Outstanding, Announced, Carrying, Carries, Ready, Marks,
                  Executed, Stored
    <3>3. \A t : GrantedCovered(t)' <=> GrantedCovered(t)
      BY <2>1 DEF GrantedCovered, Granted, Approvals, Coming, Spent, Pending, Stored
    <3>. QED BY <1>2, <2>1, <3>1, <3>2, <3>3 DEF IInv, Calm
  <2>. QED BY <2>2, <2>3, <2>4, <2>5, <2>6, <2>7 DEF IInv
<1>. QED BY <1>1, <1>2 DEF Next

LEMMA Inductive == Spec => []IInv
  BY InitIInv, NextIInv, PTL DEF Spec

(* Every record in env.IDENTITY, every put still to be made and every copy
   a request holds is of the shape its kind has (identity-*.js).           *)
THEOREM LifecycleTypes == Spec => []TypeOK
<1>1. IInv => TypeOK
  BY DEF IInv
<1>. QED BY <1>1, Inductive, PTL

(* Whatever overlaps or is cut off, a collapsed identity was collapsed by an
   approved, executed decision of its own on a gate a human passed, and one
   active again by an approved, executed decision on its request, as long as
   no other record was posted under the identifiers named
   (identity-collapse.js, identity-reactivation-restore.js).               *)
THEOREM LifecycleStateBacked == Spec => []StateBacked
<1>1. ASSUME IInv PROVE CollapseBacked
  <2>. SUFFICES ASSUME NEW i \in Identities, Collapsed(kv[CollapseState(i)]),
                       NEW d, d = kv[CollapseState(i)].by
                PROVE  /\ d \in Pool["collapse-decision"]
                       /\ Stored(CollapseDecision(d))
                       /\ Unreplaced(CollapseDecision(d)) =>
                            LET decision == kv[CollapseDecision(d)]
                            IN  /\ Executed(d)
                                /\ decision.identity_id = i
                                /\ decision.decision = "approved"
                                /\ Unreplaced(Turnstile(decision.turnstile_id)) =>
                                     kv[Turnstile(decision.turnstile_id)].gate_passed
    BY DEF CollapseBacked
  <2>1. CollapseState(i) \in Keys /\ Stored(CollapseState(i)) /\ kv[CollapseState(i)].collapsed
    BY KeysMade DEF Collapsed, Stored
  <2>2. CollapsedBy(i, d)
    BY <1>1, <2>1 DEF IInv, StoredGenuine, Genuine, CollapseState
  <2>3. d \in Decisions /\ DecisionKey(d) = CollapseDecision(d)
    BY <2>2, PoolsApart, DecisionKeys DEF CollapsedBy
  <2>4. Unreplaced(CollapseDecision(d)) => Executed(d)
    BY <1>1, <2>1, <2>3 DEF IInv, StatesCarried, CarriedExecuted
  <2>5. Passed(kv[CollapseDecision(d)])
    BY <1>1, <2>2, KeysMade DEF IInv, StoredGenuine, Genuine, CollapsedBy, CollapseDecision
  <2>. QED BY <2>2, <2>4, <2>5 DEF CollapsedBy, Passed
<1>2. ASSUME IInv PROVE RestoreBacked
  <2>. SUFFICES ASSUME NEW i \in Identities, Stored(CollapseState(i)),
                       ~Collapsed(kv[CollapseState(i)]),
                       NEW e, e = kv[CollapseState(i)].by
                PROVE  /\ e \in Pool["reactivation-decision"]
                       /\ Stored(ReactivationDecision(e))
                       /\ carried[kv[ReactivationDecision(e)].collapse_decision_id] > 0
                       /\ Unreplaced(ReactivationDecision(e)) =>
                            LET decision == kv[ReactivationDecision(e)]
                            IN  /\ Executed(e)
                                /\ decision.identity_id = i
                                /\ decision.decision = "approved"
    BY DEF RestoreBacked
  <2>1. CollapseState(i) \in Keys /\ ~kv[CollapseState(i)].collapsed
    BY KeysMade DEF Collapsed, Stored
  <2>2. RestoredBy(i, e)
    BY <1>2, <2>1 DEF IInv, StoredGenuine, Genuine, CollapseState
  <2>3. e \in Decisions /\ DecisionKey(e) = ReactivationDecision(e)
    BY <2>2, PoolsApart, DecisionKeys DEF RestoredBy
  <2>4. Unreplaced(ReactivationDecision(e)) => Executed(e)
    BY <1>2, <2>1, <2>3 DEF IInv, StatesCarried, CarriedExecuted
  <2>5. Asked(kv[ReactivationDecision(e)])
    BY <1>2, <2>2, KeysMade DEF IInv, StoredGenuine, Genuine, RestoredBy, ReactivationDecision
  <2>. QED BY <2>2, <2>4, <2>5 DEF RestoredBy, Asked
<1>. QED BY <1>1, <1>2, Inductive, PTL DEF StateBacked

(* When nothing is in progress, the decisions marked as executed that never
   changed a state are no more than the requests cut off: each mark is put
   before the state it stands for, and is not taken back.                  *)
THEOREM LifecycleLossBounded == Spec => []LossBounded
<1>1. ASSUME IInv PROVE LossBounded
  <2>. SUFFICES ASSUME Quiet PROVE Cardinality(HalfExecuted) <= crashes
    BY DEF LossBounded
  <2>1. \A r \in Requests : DOMAIN todo[r] = {}
    BY DEF Quiet, Idle
  <2>2. HalfExecuted = Lost
    BY <2>1 DEF HalfExecuted, Lost, Carrying
  <2>. QED BY <1>1, <2>2 DEF IInv, LossCovered
<1>. QED BY <1>1, Inductive, PTL

(* Requests that do not overlap change the collapse state at most once for
   each decision, and once more for each one posted again under its
   identifier (the executed and reactivated checks of identity-collapse.js
   and identity-reactivation-restore.js).                                  *)
THEOREM LifecycleCarriedOnce == Spec => []CarriedOnce
<1>1. ASSUME IInv PROVE CarriedOnce
  <2>. SUFFICES ASSUME ~overlap, NEW d \in Decisions
                PROVE  carried[d] <= 1 + again[DecisionKey(d)]
    BY DEF CarriedOnce
  <2>1. carried[d] \in Nat /\ again[DecisionKey(d)] \in Nat
    BY <1>1, DecisionKeys DEF IInv, TypeOK
  <2>2. carried[d] + (IF Outstanding(d) THEN 1 ELSE 0) <= 1 + again[DecisionKey(d)]
    BY <1>1 DEF IInv, Calm, Once
  <2>. QED BY <2>1, <2>2
<1>. QED BY <1>1, Inductive, PTL

(* Requests that do not overlap get one approval out of each passage of the
   gate, one more each time a gate is posted under the identifier of the
   passage, and one more for each request cut off
   (identity-collapse-decision.js).                                        *)
THEOREM LifecyclePassageSpent == Spec => []PassageSpent
<1>1. ASSUME IInv PROVE PassageSpent
  <2>. SUFFICES ASSUME ~overlap, NEW t \in Pool["turnstile"]
                PROVE  Cardinality(Approvals(t)) <= 1 + again[Turnstile(t)] + crashes
    BY DEF PassageSpent
  <2>1. GrantedCovered(t) /\ crashes \in Nat /\ again[Turnstile(t)] \in Nat
    BY <1>1, LifecycleAssumption, KeysMade DEF IInv, Calm, TypeOK
  <2>2. /\ Cardinality(Approvals(t)) <= Cardinality(Granted(t))
        /\ Cardinality(Granted(t)) \in Nat /\ Cardinality(Approvals(t)) \in Nat
    BY <2>1, NoMore DEF GrantedCovered, Granted
  <2>. QED BY <2>1, <2>2 DEF GrantedCovered
<1>. QED BY <1>1, Inductive, PTL
=============================================================================
