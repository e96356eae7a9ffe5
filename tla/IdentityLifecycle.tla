------------------------- MODULE IdentityLifecycle -------------------------
(***************************************************************************)
(* How an identity is collapsed and brought back, over six workers that    *)
(* share the namespace env.IDENTITY (functions/api/identity-*.js):         *)
(*                                                                         *)
(*   identity-turnstile              a human passes or fails the gate      *)
(*   identity-collapse-decision      approves or blocks, once per passage  *)
(*   identity-collapse               executes an approved decision         *)
(*   identity-reactivation           a collapsed identity asks for review  *)
(*   identity-reactivation-decision  approves or blocks the request        *)
(*   identity-reactivation-restore   executes an approved decision         *)
(*                                                                         *)
(* Every get and every put is awaited on its own; between two awaits other *)
(* requests run, and a worker may be cut off.  A put writes a whole record *)
(* spread from the copy read earlier.  The records nothing reads back to   *)
(* decide (identity-collapse, identity-reactivation-restore), the indexes  *)
(* and the trails are left out.                                            *)
(*                                                                         *)
(* A worker that makes a record takes its identifier from the request body *)
(* when there is one, and puts the record without looking at what is under *)
(* that identifier: a client may so replace a record that others rest on.  *)
(* `again' counts the times it happened to each record.                    *)
(***************************************************************************)
EXTENDS Integers, Sequences, FiniteSets

CONSTANTS
  Requests,     \* the requests that may be in progress at one time
  Identities,   \* the identities sessions resolve to
  Pool,         \* for each kind of record, the identifiers it may get
  MaxCrashes,   \* bound: requests cut off before their last await
  MaxReplaced,  \* bound: records that others are posted over
  MaxAgain,     \* bound: how often others are posted over each of them
  Absent, None

Kinds == {"turnstile", "collapse-decision", "reactivation",
          "reactivation-decision", "collapse-state"}

Keys == UNION {{k} \X Pool[k] : k \in Kinds}
Decisions == Pool["collapse-decision"] \union Pool["reactivation-decision"]
Verdicts == {"approved", "blocked"}

(* The records under the keys of each kind, and what a request that reads
   more than once holds between two gets.                                  *)
RecordsOf(kind) ==
  CASE kind = "turnstile" ->
         [identity_id : Identities, gate_passed : BOOLEAN,
          decision : Verdicts \union {"undecided"}]
    [] kind = "collapse-decision" ->
         [identity_id : Identities, turnstile_id : Pool["turnstile"],
          decision : Verdicts, executed : BOOLEAN]
    [] kind = "collapse-state" ->
         [collapsed : BOOLEAN, by : Decisions]
    [] kind = "reactivation" ->
         [identity_id : Identities, collapse_decision_id : Pool["collapse-decision"],
          decision : Verdicts \union {"undecided"}, reactivated : BOOLEAN]
    [] kind = "reactivation-decision" ->
         [identity_id : Identities, reactivation_id : Pool["reactivation"],
          collapse_decision_id : Pool["collapse-decision"],
          decision : Verdicts, reactivated : BOOLEAN]

Readings ==
  [op : {"decide"}, id : Pool["reactivation"], asked : Verdicts,
   copy : RecordsOf("reactivation")] \union
  [op : {"restore", "restoring"}, id : Pool["reactivation-decision"],
   copy : RecordsOf("reactivation-decision")]

ASSUME LifecycleAssumption ==
  /\ MaxCrashes \in Nat
  /\ MaxReplaced \in Nat
  /\ MaxAgain \in Nat
  /\ DOMAIN Pool = Kinds
  /\ Pool["collapse-state"] = Identities
  /\ \A k, l \in Kinds : k # l => Pool[k] \intersect Pool[l] = {}
  /\ None \notin UNION {Pool[k] : k \in Kinds} \union Readings
  /\ \A k \in Kinds : Absent \notin RecordsOf(k)

Turnstile(t) == <<"turnstile", t>>
CollapseDecision(d) == <<"collapse-decision", d>>
CollapseState(i) == <<"collapse-state", i>>
Reactivation(v) == <<"reactivation", v>>
ReactivationDecision(e) == <<"reactivation-decision", e>>

VARIABLES
  kv,       \* env.IDENTITY: a record or Absent under every key
  reading,  \* the session, what is asked and the copies read so far, or None
  todo,     \* for each request, the puts it still has to make
  crashes,  \* requests cut off
  overlap,  \* history: a request was received while another was in progress
  carried,  \* history: how often each decision changed a collapse state
  again     \* history: how often each record was posted again under its id

vars == <<kv, reading, todo, crashes, overlap, carried, again>>

Idle(r) == reading[r] = None /\ todo[r] = <<>>
Quiet == \A r \in Requests : Idle(r)

Writes(key, value) == [key |-> key, value |-> value]

(* makeId: an identifier no record has and no request is about to store.   *)
Taken(kind, id) ==
  \/ kv[<<kind, id>>] # Absent
  \/ \E r \in Requests : \E n \in DOMAIN todo[r] : todo[r][n].key = <<kind, id>>

Minted(kind) ==
  LET fresh == {id \in Pool[kind] : ~Taken(kind, id)}
  IN  IF fresh = {} THEN {} ELSE {CHOOSE id \in fresh : TRUE}

(* Another record may be posted over this one, within the bounds.          *)
MayReplace(key) ==
  /\ again[key] < MaxAgain
  /\ Cardinality({k \in Keys : again[k] > 0} \union {key}) <= MaxReplaced

(* The identifier of a new record: made by the worker, or sent by the client,
   who may know it from an earlier record.                                 *)
Given(kind) ==
  Minted(kind) \union
  {id \in Pool[kind] : Taken(kind, id) /\ MayReplace(<<kind, id>>)}

Posts(kind, id) ==
  again' = IF Taken(kind, id) THEN [again EXCEPT ![<<kind, id>>] = @ + 1] ELSE again

(* The record is of another identity than the session's.                   *)
Denied(record, by) == record = Absent \/ record.identity_id # by

Init ==
  /\ kv = [k \in Keys |-> Absent]
  /\ reading = [r \in Requests |-> None]
  /\ todo = [r \in Requests |-> <<>>]
  /\ crashes = 0
  /\ overlap = FALSE
  /\ carried = [d \in Decisions |-> 0]
  /\ again = [k \in Keys |-> 0]

(* A request that has read all it needs goes on to its puts.               *)
WillPut(r, puts) ==
  /\ reading' = [reading EXCEPT ![r] = None]
  /\ todo' = [todo EXCEPT ![r] = puts]
  /\ UNCHANGED <<kv, crashes, carried>>

Goes(r, puts) ==
  /\ Idle(r)
  /\ WillPut(r, puts)
  /\ overlap' = (overlap \/ ~Quiet)

(* identity-turnstile.js: evaluateGate passes or fails the human; both are
   recorded.                                                               *)
PassTurnstile(r) ==
  \E by \in Identities, t \in Given("turnstile"), ok \in BOOLEAN :
    /\ Goes(r, <<Writes(Turnstile(t),
                   [identity_id |-> by, gate_passed |-> ok,
                    decision |-> "undecided"])>>)
    /\ Posts("turnstile", t)

(* identity-collapse-decision.js: any passage may be blocked; it is        *)
(* approved only when it was passed and not decided before, and otherwise  *)
(* a blocked decision is recorded.  A slip: only the passing counts.       *)
CollapseGate_Reusable(passage, decision) ==
  decision = "blocked" \/ passage.gate_passed

CollapseGate(passage, decision) ==
  \/ decision = "blocked"
  \/ passage.decision = "undecided" /\ passage.gate_passed

CollapseDecisionPuts(t, d, passage, final) ==
  <<Writes(CollapseDecision(d),
      [identity_id |-> passage.identity_id, turnstile_id |-> t,
       decision |-> final, executed |-> FALSE]),
    Writes(Turnstile(t), [passage EXCEPT !.decision = final])>>

DecideCollapse(r) ==
  \E by \in Identities, t \in Pool["turnstile"],
     d \in Given("collapse-decision"), v \in {"approved", "blocked"} :
    LET passage == kv[Turnstile(t)]
        final   == IF CollapseGate(passage, v) THEN v ELSE "blocked"
    IN  /\ ~Denied(passage, by)
        /\ Goes(r, CollapseDecisionPuts(t, d, passage, final))
        /\ Posts("collapse-decision", d)

(* identity-collapse.js: an approved decision is executed unless it was.   *)
(* A slip: whether it was is not looked at.                                *)
Executable_Again(decision) == decision.decision = "approved"

Executable(decision) == decision.decision = "approved" /\ ~decision.executed

(* The decision is marked before the state is put.  A slip: a state that is
   there, left by an earlier collapse, is not put again.                   *)
CollapsePuts_FirstTime(d, decision) ==
  <<Writes(CollapseDecision(d), [decision EXCEPT !.executed = TRUE])>> \o
  (IF kv[CollapseState(decision.identity_id)] # Absent THEN <<>>
   ELSE <<Writes(CollapseState(decision.identity_id),
                 [collapsed |-> TRUE, by |-> d])>>)

CollapsePuts(d, decision) ==
  <<Writes(CollapseDecision(d), [decision EXCEPT !.executed = TRUE]),
    Writes(CollapseState(decision.identity_id), [collapsed |-> TRUE, by |-> d])>>

Collapse(r) ==
  \E by \in Identities, d \in Pool["collapse-decision"] :
    LET decision == kv[CollapseDecision(d)]
    IN  /\ ~Denied(decision, by)
        /\ Executable(decision)
        /\ Goes(r, CollapsePuts(d, decision))
        /\ UNCHANGED again

Collapsed(state) == state # Absent /\ state.collapsed

(* identity-reactivation.js: only a collapsed identity may ask.  A request *)
(* posted as cancelled is stored the same way and may be approved too.     *)
AskReactivation(r) ==
  \E by \in Identities, v \in Given("reactivation") :
    LET state == kv[CollapseState(by)]
    IN  /\ Collapsed(state)
        /\ Goes(r, <<Writes(Reactivation(v),
              [identity_id |-> by, collapse_decision_id |-> state.by,
               decision |-> "undecided", reactivated |-> FALSE])>>)
        /\ Posts("reactivation", v)

(* The first awaited get of a worker that makes more than one.             *)
StartReading(r, asks) ==
  /\ Idle(r)
  /\ reading' = [reading EXCEPT ![r] = asks]
  /\ overlap' = (overlap \/ ~Quiet)
  /\ UNCHANGED <<kv, todo, crashes, carried, again>>

(* identity-reactivation-decision.js reads the request, then the state.    *)
ReadReactivation(r) ==
  \E by \in Identities, v \in Pool["reactivation"],
     w \in {"approved", "blocked"} :
    /\ ~Denied(kv[Reactivation(v)], by)
    /\ StartReading(r, [op |-> "decide", id |-> v, asked |-> w,
                        copy |-> kv[Reactivation(v)]])

ReactivationGate(asked, state, decision) ==
  \/ decision = "blocked"
  \/ asked.decision = "undecided" /\ Collapsed(state)

ReactivationDecisionPuts(v, e, asked, final) ==
  <<Writes(ReactivationDecision(e),
      [identity_id |-> asked.identity_id, reactivation_id |-> v,
       collapse_decision_id |-> asked.collapse_decision_id,
       decision |-> final, reactivated |-> FALSE]),
    Writes(Reactivation(v), [asked EXCEPT !.decision = final,
                                          !.reactivated = FALSE])>>

DecideReactivation(r) ==
  /\ reading[r] # None
  /\ reading[r].op = "decide"
  /\ \E e \in Given("reactivation-decision") :
       LET asked == reading[r].copy
           final == IF ReactivationGate(asked, kv[CollapseState(asked.identity_id)],
                                        reading[r].asked)
                    THEN reading[r].asked ELSE "blocked"
       IN  /\ WillPut(r, ReactivationDecisionPuts(reading[r].id, e, asked, final))
           /\ Posts("reactivation-decision", e)
  /\ UNCHANGED overlap

(* identity-reactivation-restore.js reads the decision, the state and the  *)
(* request; it refuses on the first two only.  A slip: an undone decision  *)
(* is executed whatever it says.                                           *)
Restorable_Blocked(decision) == ~decision.reactivated

Restorable(decision) == ~decision.reactivated /\ decision.decision = "approved"

ReadRestore(r) ==
  \E by \in Identities, e \in Pool["reactivation-decision"] :
    LET decision == kv[ReactivationDecision(e)]
    IN  /\ ~Denied(decision, by)
        /\ Restorable(decision)
        /\ StartReading(r, [op |-> "restore", id |-> e, copy |-> decision])

ReadState(r) ==
  /\ reading[r] # None
  /\ reading[r].op = "restore"
  /\ reading' = [reading EXCEPT ![r] =
       IF Collapsed(kv[CollapseState(@.copy.identity_id)])
       THEN [@ EXCEPT !.op = "restoring"] ELSE None]
  /\ UNCHANGED <<kv, todo, crashes, overlap, carried, again>>

(* A slip: the state names the request instead of the decision.            *)
RestorePuts_ByRequest(e, decision, asked) ==
  <<Writes(ReactivationDecision(e), [decision EXCEPT !.reactivated = TRUE]),
    Writes(Reactivation(decision.reactivation_id), [asked EXCEPT !.reactivated = TRUE]),
    Writes(CollapseState(decision.identity_id),
           [collapsed |-> FALSE, by |-> decision.reactivation_id])>>

RestorePuts(e, decision, asked) ==
  <<Writes(ReactivationDecision(e), [decision EXCEPT !.reactivated = TRUE]),
    Writes(Reactivation(decision.reactivation_id), [asked EXCEPT !.reactivated = TRUE]),
    Writes(CollapseState(decision.identity_id), [collapsed |-> FALSE, by |-> e])>>

(* The request was stored before its decision and is never deleted.        *)
Restore(r) ==
  /\ reading[r] # None
  /\ reading[r].op = "restoring"
  /\ LET decision == reading[r].copy
     IN  WillPut(r, RestorePuts(reading[r].id, decision,
                                kv[Reactivation(decision.reactivation_id)]))
  /\ UNCHANGED <<overlap, again>>

Put(r) ==
  /\ todo[r] # <<>>
  /\ LET p == Head(todo[r])
     IN  /\ kv' = [kv EXCEPT ![p.key] = p.value]
         /\ carried' = IF p.key[1] = "collapse-state"
                       THEN [carried EXCEPT ![p.value.by] = @ + 1]
                       ELSE carried
  /\ todo' = [todo EXCEPT ![r] = Tail(@)]
  /\ UNCHANGED <<reading, crashes, overlap, again>>

(* The worker dies, or its client goes away, between two awaits.           *)
Crash(r) ==
  /\ ~Idle(r)
  /\ crashes < MaxCrashes
  /\ crashes' = crashes + 1
  /\ reading' = [reading EXCEPT ![r] = None]
  /\ todo' = [todo EXCEPT ![r] = <<>>]
  /\ UNCHANGED <<kv, overlap, carried, again>>

Next ==
  \E r \in Requests :
    \/ PassTurnstile(r) \/ DecideCollapse(r) \/ Collapse(r)
    \/ AskReactivation(r) \/ ReadReactivation(r) \/ DecideReactivation(r)
    \/ ReadRestore(r) \/ ReadState(r) \/ Restore(r)
    \/ Put(r) \/ Crash(r)

Spec == Init /\ [][Next]_vars
-----------------------------------------------------------------------------
Stored(key) == kv[key] # Absent

TypeOK ==
  /\ DOMAIN kv = Keys
  /\ \A key \in Keys : Stored(key) => kv[key] \in RecordsOf(key[1])
  /\ reading \in [Requests -> Readings \union {None}]
  /\ todo \in [Requests -> Seq([key : Keys, value : UNION {RecordsOf(k) : k \in Kinds}])]
  /\ \A r \in Requests : \A n \in DOMAIN todo[r] :
       todo[r][n].value \in RecordsOf(todo[r][n].key[1])
  /\ crashes \in 0..MaxCrashes
  /\ overlap \in BOOLEAN
  /\ carried \in [Decisions -> Nat]
  /\ again \in [Keys -> Nat]

Executed(d) ==
  IF d \in Pool["collapse-decision"]
  THEN Stored(CollapseDecision(d)) /\ kv[CollapseDecision(d)].executed
  ELSE Stored(ReactivationDecision(d)) /\ kv[ReactivationDecision(d)].reactivated

Unreplaced(key) == again[key] = 0

(* Whatever overlaps or is cut off, a collapsed identity names the collapse
   decision it was collapsed by.  Unless another was posted under the id of
   that decision, it is one of the identity's own that was approved and is
   marked as executed, so that no later request executes it again; and unless
   another gate was posted under the id it names, a human passed that gate. *)
CollapseBacked ==
  \A i \in Identities : Collapsed(kv[CollapseState(i)]) =>
    LET d == kv[CollapseState(i)].by
    IN  /\ d \in Pool["collapse-decision"]
        /\ Stored(CollapseDecision(d))
        /\ Unreplaced(CollapseDecision(d)) =>
             LET decision == kv[CollapseDecision(d)]
             IN  /\ Executed(d)
                 /\ decision.identity_id = i
                 /\ decision.decision = "approved"
                 /\ Unreplaced(Turnstile(decision.turnstile_id)) =>
                      kv[Turnstile(decision.turnstile_id)].gate_passed

(* Whatever overlaps or is cut off, an identity made active again names the
   reactivation decision it was restored by.  Unless another was posted under
   its id, it is one of the identity's own that was approved, is marked as
   executed, and answers a request made while a collapse decision that was
   executed kept the identity collapsed.                                   *)
RestoreBacked ==
  \A i \in Identities :
    Stored(CollapseState(i)) /\ ~Collapsed(kv[CollapseState(i)]) =>
      LET e == kv[CollapseState(i)].by
      IN  /\ e \in Pool["reactivation-decision"]
          /\ Stored(ReactivationDecision(e))
          /\ carried[kv[ReactivationDecision(e)].collapse_decision_id] > 0
          /\ Unreplaced(ReactivationDecision(e)) =>
               LET decision == kv[ReactivationDecision(e)]
               IN  /\ Executed(e)
                   /\ decision.identity_id = i
                   /\ decision.decision = "approved"

(* No identity is collapsed or active again but by right.                  *)
StateBacked == CollapseBacked /\ RestoreBacked

Approvals(t) ==
  {d \in Pool["collapse-decision"] :
     /\ Stored(CollapseDecision(d))
     /\ kv[CollapseDecision(d)].turnstile_id = t
     /\ kv[CollapseDecision(d)].decision = "approved"}

(* Requests that do not overlap get one approval out of each passage of the
   gate, one more each time the gate is posted again under its id, and one
   more for each request cut off after storing its decision.               *)
PassageSpent ==
  ~overlap => \A t \in Pool["turnstile"] :
    Cardinality(Approvals(t)) <= 1 + again[Turnstile(t)] + crashes

DecisionKey(d) ==
  IF d \in Pool["collapse-decision"] THEN CollapseDecision(d)
  ELSE ReactivationDecision(d)

(* Requests that do not overlap change the collapse state at most once for
   each decision, also when one is cut off and sent again, and once more for
   each decision posted again under the same id.                           *)
CarriedOnce ==
  ~overlap => \A d \in Decisions : carried[d] <= 1 + again[DecisionKey(d)]

(* A decision is marked as executed before the state changes.  When nothing
   is in progress, the decisions marked without effect, which no request can
   execute any more, are no more than the requests cut off.                *)
HalfExecuted == {d \in Decisions : Executed(d) /\ carried[d] = 0}
LossBounded == Quiet => Cardinality(HalfExecuted) <= crashes
=============================================================================
