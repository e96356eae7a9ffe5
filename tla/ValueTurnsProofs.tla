-------------------------- MODULE ValueTurnsProofs --------------------------
(***************************************************************************)
(* What ValueCirculation keeps true of requests that come one after        *)
(* another, for any identities, pools and scenes with requests cut off     *)
(* anywhere: MovesPermitted, ReceiptsListed and CrashesBoundLoss; and,     *)
(* where none is cut off and clients name no decision, movement or debit,  *)
(* LedgerSpec.                                                             *)
(*                                                                         *)
(* AInv says that the store was Sound when the request now in progress     *)
(* arrived, that this request has read what is stored, and that what is    *)
(* stored now is that store with the first of the puts the request planned *)
(* over it.                                                                *)
(***************************************************************************)
EXTENDS ValueCirculationProofs

-----------------------------------------------------------------------------
(* What requests come to put, each alone with the store it reads.          *)

(* The puts of one, two, four and five records.                            *)
LEMMA OnePutOf ==
  ASSUME NEW k, NEW v, NEW all, all = <<Writes(k, v)>>
  PROVE  Len(all) = 1 /\ all[1].key = k /\ all[1].value = v
<1>1. PICK p : p = Writes(k, v)
  OBVIOUS
<1>2. Len(all) = 1 /\ all[1] = p
  BY <1>1
<1>3. QED
  BY <1>1, <1>2, WritesOf

LEMMA TwoPutsOf ==
  ASSUME NEW k1, NEW v1, NEW k2, NEW v2, NEW all,
         all = <<Writes(k1, v1), Writes(k2, v2)>>
  PROVE  /\ Len(all) = 2 /\ all[1].key = k1 /\ all[1].value = v1
         /\ all[2].key = k2 /\ all[2].value = v2
<1>1. PICK p, q : p = Writes(k1, v1) /\ q = Writes(k2, v2)
  OBVIOUS
<1>2. Len(all) = 2 /\ all[1] = p /\ all[2] = q
  BY <1>1
<1>3. QED
  BY <1>1, <1>2, WritesOf

LEMMA FourPutsOf ==
  ASSUME NEW k1, NEW v1, NEW k2, NEW v2, NEW k3, NEW v3, NEW k4, NEW v4, NEW all,
         all = <<Writes(k1, v1), Writes(k2, v2), Writes(k3, v3), Writes(k4, v4)>>
  PROVE  /\ Len(all) = 4 /\ all[1].key = k1 /\ all[1].value = v1
         /\ all[2].key = k2 /\ all[2].value = v2
         /\ all[3].key = k3 /\ all[3].value = v3
         /\ all[4].key = k4 /\ all[4].value = v4
<1>1. PICK p, q, s, t : /\ p = Writes(k1, v1) /\ q = Writes(k2, v2)
                        /\ s = Writes(k3, v3) /\ t = Writes(k4, v4)
  OBVIOUS
<1>2. Len(all) = 4 /\ all[1] = p /\ all[2] = q /\ all[3] = s /\ all[4] = t
  BY <1>1
<1>3. QED
  BY <1>1, <1>2, WritesOf

LEMMA FivePutsOf ==
  ASSUME NEW k1, NEW v1, NEW k2, NEW v2, NEW k3, NEW v3, NEW k4, NEW v4,
         NEW k5, NEW v5, NEW all,
         all = <<Writes(k1, v1), Writes(k2, v2), Writes(k3, v3), Writes(k4, v4),
                 Writes(k5, v5)>>
  PROVE  /\ Len(all) = 5 /\ all[1].key = k1 /\ all[1].value = v1
         /\ all[2].key = k2 /\ all[2].value = v2
         /\ all[3].key = k3 /\ all[3].value = v3
         /\ all[4].key = k4 /\ all[4].value = v4
         /\ all[5].key = k5 /\ all[5].value = v5
<1>1. PICK p, q, s, t, u : /\ p = Writes(k1, v1) /\ q = Writes(k2, v2)
                           /\ s = Writes(k3, v3) /\ t = Writes(k4, v4)
                           /\ u = Writes(k5, v5)
  OBVIOUS
<1>2. Len(all) = 5 /\ all[1] = p /\ all[2] = q /\ all[3] = s /\ all[4] = t /\ all[5] = u
  BY <1>1
<1>3. QED
  BY <1>1, <1>2, WritesOf

(* None, which ends the reading, is no key.                                *)
LEMMA NoneIsNoKey == None \notin Keys
  BY CirculationAssumption

(* A copy of the surface that is read, put back.                           *)
LEMMA SurfacePlan ==
  ASSUME NEW st, NEW i \in Inputs, i.op \in {"patch", "surface-status", "limit"},
         ~Denied(st[Surface(i.surface)], i), NEW v,
         ~Declares(i) => v.balance_cents = st[Surface(i.surface)].balance_cents
  PROVE  Plan(st, i, <<Writes(Surface(i.surface), v)>>)
<1>1. PICK all : all = <<Writes(Surface(i.surface), v)>>
  OBVIOUS
<1>2. Len(all) = 1 /\ all[1].key = Surface(i.surface) /\ all[1].value = v
  BY <1>1, OnePutOf
<1>3. i.surface \in SurfaceIds
  BY DEF Inputs
<1>4. PlanSurface(st, i, all)
  BY <1>2, <1>3 DEF PlanSurface, Denied
<1>5. Plan(st, i, all)
  BY <1>4 DEF Plan, SurfaceOps
<1>6. QED
  BY <1>1, <1>5

(* The surface that a worker reads first, and the one thing it reads.      *)
LEMMA SurfaceSeen ==
  ASSUME NEW b, NEW st, NEW x, RequestFits(b, st, x), x.input.op \in ReadOnce,
         NEW key, NEW seen, seen = Append(x.seen, st[key])
  PROVE  x.seen = <<>> /\ seen[1] = st[key] /\ Len(seen) = 1 /\ seen # <<>>
<1>1. x.seen = <<>>
  BY DEF RequestFits, SeenFits
<1>2. seen = <<st[key]>>
  BY <1>1
<1>3. QED
  BY <1>1, <1>2

(* Of a patch.                                                             *)

LEMMA PatchPlan ==
  ASSUME NEW b, NEW st, StoreFits(b, st), NEW x, RequestFits(b, st, x),
         x.input.op = "patch", Opens(st, x.input), SeenNow(st, x.input, x.seen),
         NEW seen, seen = Append(x.seen, st[WantsSurface(x.input, x.seen)]),
         ~RefusesSurface(x.input, seen), WantsSurface(x.input, seen) = None
  PROVE  Plan(st, x.input, PatchPuts(x.input, seen))
<1>1. PICK i : i = x.input
  OBVIOUS
<1>2. i \in Inputs /\ i.op = "patch" /\ i.op \in ReadOnce
  BY <1>1 DEF RequestFits, ReadOnce
<1>3. x.seen = <<>>
  BY <1>1, <1>2 DEF RequestFits, SeenFits
<1>4. seen = Append(x.seen, st[Surface(i.surface)])
  BY <1>1, <1>3 DEF WantsSurface
<1>5. seen[1] = st[Surface(i.surface)]
  BY <1>1, <1>2, <1>4, SurfaceSeen
<1>6. ~Denied(st[Surface(i.surface)], i) /\ seen[1] \in SurfaceRecord
  BY <1>1, <1>2, <1>5, SurfaceRead DEF RefusesSurface
<1>7. PICK status, d :
        /\ status = IF i.status = None THEN seen[1].status ELSE i.status
        /\ d = IF i.balance_cents = None THEN seen[1].balance_cents
                                         ELSE i.balance_cents
  OBVIOUS
<1>8. PICK v : v = [seen[1] EXCEPT !.status = status, !.balance_cents = d]
  OBVIOUS
<1>9. PatchPuts(i, seen) = <<Writes(Surface(i.surface), v)>>
  BY <1>7, <1>8 DEF PatchPuts
<1>10. v.balance_cents = d
  BY <1>6, <1>8 DEF SurfaceRecord
<1>11. ~Declares(i) => d = seen[1].balance_cents
  BY <1>2, <1>7 DEF Declares
<1>12. QED
  BY <1>1, <1>2, <1>5, <1>6, <1>9, <1>10, <1>11, SurfacePlan

(* Of a status.                                                            *)

LEMMA SurfaceStatusPlan ==
  ASSUME NEW b, NEW st, StoreFits(b, st), NEW x, RequestFits(b, st, x),
         x.input.op = "surface-status", Opens(st, x.input), SeenNow(st, x.input, x.seen),
         NEW seen, seen = Append(x.seen, st[WantsSurface(x.input, x.seen)]),
         ~RefusesSurface(x.input, seen), WantsSurface(x.input, seen) = None
  PROVE  Plan(st, x.input, StatusPuts(x.input, seen))
<1>1. PICK i : i = x.input
  OBVIOUS
<1>2. i \in Inputs /\ i.op = "surface-status" /\ i.op \in ReadOnce
  BY <1>1 DEF RequestFits, ReadOnce
<1>3. x.seen = <<>>
  BY <1>1, <1>2 DEF RequestFits, SeenFits
<1>4. seen = Append(x.seen, st[Surface(i.surface)])
  BY <1>1, <1>3 DEF WantsSurface
<1>5. seen[1] = st[Surface(i.surface)]
  BY <1>1, <1>2, <1>4, SurfaceSeen
<1>6. ~Denied(st[Surface(i.surface)], i) /\ seen[1] \in SurfaceRecord
  BY <1>1, <1>2, <1>5, SurfaceRead DEF RefusesSurface
<1>7. PICK v : v = [seen[1] EXCEPT !.status = i.status]
  OBVIOUS
<1>8. StatusPuts(i, seen) = <<Writes(Surface(i.surface), v)>>
  BY <1>7 DEF StatusPuts
<1>9. v.balance_cents = seen[1].balance_cents
  BY <1>6, <1>7 DEF SurfaceRecord
<1>10. QED
  BY <1>1, <1>2, <1>5, <1>6, <1>8, <1>9, SurfacePlan

(* Of limits.                                                              *)

LEMMA LimitPlan ==
  ASSUME NEW b, NEW st, StoreFits(b, st), NEW x, RequestFits(b, st, x),
         x.input.op = "limit", Opens(st, x.input), SeenNow(st, x.input, x.seen),
         NEW seen, seen = Append(x.seen, st[WantsSurface(x.input, x.seen)]),
         ~RefusesSurface(x.input, seen), WantsSurface(x.input, seen) = None
  PROVE  Plan(st, x.input, LimitPuts(x.input, seen))
<1>1. PICK i : i = x.input
  OBVIOUS
<1>2. i \in Inputs /\ i.op = "limit" /\ i.op \in ReadOnce
  BY <1>1 DEF RequestFits, ReadOnce
<1>3. x.seen = <<>>
  BY <1>1, <1>2 DEF RequestFits, SeenFits
<1>4. seen = Append(x.seen, st[Surface(i.surface)])
  BY <1>1, <1>3 DEF WantsSurface
<1>5. seen[1] = st[Surface(i.surface)]
  BY <1>1, <1>2, <1>4, SurfaceSeen
<1>6. ~Denied(st[Surface(i.surface)], i) /\ seen[1] \in SurfaceRecord
  BY <1>1, <1>2, <1>5, SurfaceRead DEF RefusesSurface
<1>7. PICK limits : limits =
        [n \in DOMAIN seen[1].limits \union DOMAIN i.limits |->
           IF n \in DOMAIN i.limits THEN i.limits[n] ELSE seen[1].limits[n]]
  OBVIOUS
<1>8. PICK v : v = [seen[1] EXCEPT !.limits = limits]
  OBVIOUS
<1>9. LimitPuts(i, seen) = <<Writes(Surface(i.surface), v)>>
  BY <1>7, <1>8 DEF LimitPuts
<1>10. v.balance_cents = seen[1].balance_cents
  BY <1>6, <1>8 DEF SurfaceRecord
<1>11. QED
  BY <1>1, <1>2, <1>5, <1>6, <1>9, <1>10, SurfacePlan

(* Of a topup.                                                             *)

LEMMA RequestTopupPlan ==
  ASSUME NEW b, NEW st, StoreFits(b, st), NEW x, RequestFits(b, st, x),
         x.input.op = "topup", Opens(st, x.input), SeenNow(st, x.input, x.seen),
         NEW seen, seen = Append(x.seen, st[TopupWants(x.input, x.seen)]),
         ~TopupRefuses(x.input, seen), TopupWants(x.input, seen) = None
  PROVE  Plan(st, x.input, TopupPuts(x.input, seen))
<1>1. PICK i : i = x.input
  OBVIOUS
<1>2. i.op = "topup" /\ i.from # i.to
  BY <1>1 DEF Opens
<1>3. PICK v : v = [identity_id |-> i.identity_id, from |-> i.from,
                    to |-> i.to, amount_cents |-> i.amount_cents,
                    currency |-> i.currency, decision |-> "undecided",
                    decision_id |-> None, balance_moved |-> FALSE,
                    balance_id |-> None]
  OBVIOUS
<1>4. PICK all : all = <<Writes(Topup(i.new), v)>>
  OBVIOUS
<1>5. TopupPuts(i, seen) = all
  BY <1>3, <1>4 DEF TopupPuts
<1>6. Len(all) = 1 /\ all[1].key = Topup(i.new) /\ all[1].value = v
  BY <1>4, OnePutOf
<1>7. v.from # v.to /\ v.decision = "undecided"
  BY <1>2, <1>3
<1>8. PlanTopup(st, i, all)
  BY <1>6, <1>7 DEF PlanTopup
<1>9. Plan(st, i, all)
  BY <1>2, <1>8 DEF Plan, SurfaceOps
<1>10. QED
  BY <1>1, <1>5, <1>9

(* Of a spend.                                                             *)

LEMMA RequestSpendPlan ==
  ASSUME NEW b, NEW st, StoreFits(b, st), NEW x, RequestFits(b, st, x),
         x.input.op = "spend", Opens(st, x.input), SeenNow(st, x.input, x.seen),
         NEW seen, seen = Append(x.seen, st[WantsSurface(x.input, x.seen)]),
         ~SpendRefuses(x.input, seen), WantsSurface(x.input, seen) = None
  PROVE  Plan(st, x.input, SpendPuts(x.input, seen))
<1>1. PICK i : i = x.input
  OBVIOUS
<1>2. i.op = "spend"
  BY <1>1
<1>3. PICK v : v = [identity_id |-> i.identity_id, surface |-> i.surface,
                    amount_cents |-> i.amount_cents, currency |-> i.currency,
                    decision |-> "undecided", decision_id |-> None,
                    limit_check_id |-> None, balance_moved |-> FALSE,
                    spend_balance_id |-> None, receipt_ids |-> <<>>]
  OBVIOUS
<1>4. PICK all : all = <<Writes(Spend(i.new), v)>>
  OBVIOUS
<1>5. SpendPuts(i, seen) = all
  BY <1>3, <1>4 DEF SpendPuts
<1>6. Len(all) = 1 /\ all[1].key = Spend(i.new) /\ all[1].value = v
  BY <1>4, OnePutOf
<1>7. v.decision = "undecided" /\ v.receipt_ids = <<>>
  BY <1>3
<1>8. PlanSpend(st, i, all)
  BY <1>6, <1>7 DEF PlanSpend
<1>9. Plan(st, i, all)
  BY <1>2, <1>8 DEF Plan, SurfaceOps
<1>10. QED
  BY <1>1, <1>5, <1>9

(* Of a limit check.                                                       *)

LEMMA CheckLimitPlan ==
  ASSUME NEW b, NEW st, StoreFits(b, st), NEW x, RequestFits(b, st, x),
         x.input.op = "limit-check", Opens(st, x.input), SeenNow(st, x.input, x.seen),
         NEW seen, seen = Append(x.seen, st[WantsSurface(x.input, x.seen)]),
         ~SpendRefuses(x.input, seen), WantsSurface(x.input, seen) = None
  PROVE  Plan(st, x.input, LimitCheckPuts(x.input, seen))
<1>1. PICK i : i = x.input
  OBVIOUS
<1>2. i.op = "limit-check"
  BY <1>1
<1>3. PICK all : all = LimitCheckPuts(i, seen)
  OBVIOUS
<1>4. Len(all) = 1 /\ all[1].key = LimitCheck(i.new)
  BY <1>3, OnePutOf DEF LimitCheckPuts
<1>5. Plan(st, i, all)
  BY <1>2, <1>4 DEF Plan, SurfaceOps, PlanCheck
<1>6. QED
  BY <1>1, <1>3, <1>5

(* Of a receipt.                                                           *)

LEMMA AttachReceiptPlan ==
  ASSUME NEW b, NEW st, StoreFits(b, st), NEW x, RequestFits(b, st, x),
         x.input.op = "receipt", Opens(st, x.input), SeenNow(st, x.input, x.seen),
         NEW seen, seen = Append(x.seen, st[WantsSpend(x.input, x.seen)]),
         ~NotCompleted(x.input, seen), WantsSpend(x.input, seen) = None
  PROVE  Plan(st, x.input, ReceiptPuts(x.input, seen))
<1>1. PICK i, s : i = x.input /\ s = seen[1]
  OBVIOUS
<1>2. i \in Inputs /\ i.op = "receipt" /\ i.op \in ReadOnce
  BY <1>1 DEF RequestFits, ReadOnce
<1>3. x.seen = <<>>
  BY <1>1, <1>2 DEF RequestFits, SeenFits
<1>4. seen = Append(x.seen, st[Spend(i.spend)])
  BY <1>1, <1>3 DEF WantsSpend
<1>5. s = st[Spend(i.spend)]
  BY <1>1, <1>2, <1>4, SurfaceSeen
<1>6. s # Absent
  BY <1>1 DEF NotCompleted, Denied
<1>7. IsSpend(s)
  BY <1>1, <1>2, SpendRead
<1>8. PICK v, u : /\ v = [identity_id |-> i.identity_id, spend |-> i.spend,
                          spend_balance_id |-> s.spend_balance_id,
                          surface |-> s.surface, amount_cents |-> s.amount_cents,
                          currency |-> s.currency]
                  /\ u = [s EXCEPT !.receipt_ids = WithReceipt(s.receipt_ids, i.new)]
  OBVIOUS
<1>9. PICK all : all = <<Writes(Receipt(i.new), v), Writes(Spend(i.spend), u)>>
  OBVIOUS
<1>10. ReceiptPuts(i, seen) = all
  BY <1>1, <1>8, <1>9 DEF ReceiptPuts
<1>11. /\ Len(all) = 2 /\ all[1].key = Receipt(i.new) /\ all[1].value = v
       /\ all[2].key = Spend(i.spend) /\ all[2].value = u
  BY <1>9, TwoPutsOf
<1>12. v.spend = i.spend
  BY <1>8
<1>13. /\ u.receipt_ids = WithReceipt(s.receipt_ids, i.new)
       /\ u.decision = s.decision /\ u.decision_id = s.decision_id
       /\ u.balance_moved = s.balance_moved
  BY <1>7, <1>8 DEF IsSpend, SpendRecord
<1>14. PlanReceipt(st, i, all)
  BY <1>5, <1>6, <1>11, <1>12, <1>13 DEF PlanReceipt
<1>15. Plan(st, i, all)
  BY <1>2, <1>14 DEF Plan, SurfaceOps
<1>16. QED
  BY <1>1, <1>10, <1>15

(* Of a refund.                                                            *)

LEMMA RequestRefundPlan ==
  ASSUME NEW b, NEW st, StoreFits(b, st), NEW x, RequestFits(b, st, x),
         x.input.op = "refund", Opens(st, x.input), SeenNow(st, x.input, x.seen),
         NEW seen, seen = Append(x.seen, st[WantsSpend(x.input, x.seen)]),
         ~RefundRefuses(x.input, seen), WantsSpend(x.input, seen) = None
  PROVE  Plan(st, x.input, RefundPuts(x.input, seen))
<1>1. PICK i : i = x.input
  OBVIOUS
<1>2. i.op = "refund"
  BY <1>1
<1>3. PICK all : all = RefundPuts(i, seen)
  OBVIOUS
<1>4. Len(all) = 1 /\ all[1].key = Refund(i.new)
  BY <1>3, OnePutOf DEF RefundPuts
<1>5. Plan(st, i, all)
  BY <1>2, <1>4 DEF Plan, SurfaceOps, PlanRefund
<1>6. QED
  BY <1>1, <1>3, <1>5

(* Of a refund's decision.                                                 *)

LEMMA DecideRefundPlan ==
  ASSUME NEW b, NEW st, StoreFits(b, st), NEW x, RequestFits(b, st, x),
         x.input.op = "refund-decision", Opens(st, x.input), SeenNow(st, x.input, x.seen),
         NEW seen, seen = Append(x.seen, st[RefundDecisionWants(x.input, x.seen)]),
         ~RefundDecisionRefuses(x.input, seen), RefundDecisionWants(x.input, seen) = None
  PROVE  Plan(st, x.input, RefundDecisionPuts(x.input, seen))
<1>1. PICK i : i = x.input
  OBVIOUS
<1>2. i.op = "refund-decision"
  BY <1>1
<1>3. PICK all : all = RefundDecisionPuts(i, seen)
  OBVIOUS
<1>4. Len(all) = 2 /\ all[1].key = RefundDecision(i.new) /\ all[2].key = Refund(i.refund)
  <2>1. PICK v : v = RefundVerdict(i, seen[1], seen[2])
    OBVIOUS
  <2>2. PICK d, u :
          /\ d = [identity_id |-> i.identity_id, refund |-> i.refund,
                  spend |-> seen[1].spend, decision |-> v,
                  amount_cents |-> seen[1].amount_cents,
                  spend_balance_id |-> IF seen[2] = Absent THEN None
                                       ELSE seen[2].spend_balance_id]
          /\ u = [seen[1] EXCEPT !.decision = v, !.decision_id = i.new]
    OBVIOUS
  <2>3. all = <<Writes(RefundDecision(i.new), d), Writes(Refund(i.refund), u)>>
    BY <1>3, <2>1, <2>2 DEF RefundDecisionPuts
  <2>4. QED
    BY <2>3, TwoPutsOf
<1>5. Plan(st, i, all)
  BY <1>2, <1>4 DEF Plan, SurfaceOps, PlanRefundDecision
<1>6. QED
  BY <1>1, <1>3, <1>5

(* What a topup decision has read.                                         *)
DecisionSeen(st, i, seen) ==
  /\ Len(seen) \in 1..3
  /\ seen[1] = st[Topup(i.topup)] /\ seen[1] # Absent
  /\ seen[1] \in TopupRecord
  /\ Len(seen) >= 2 => seen[2] = st[Surface(seen[1].from)]

LEMMA DecideTopupSeen ==
  ASSUME NEW b, NEW st, StoreFits(b, st), NEW x, RequestFits(b, st, x),
         x.input.op = "topup-decision", SeenNow(st, x.input, x.seen),
         NEW seen, seen = Append(x.seen, st[TopupDecisionWants(x.input, x.seen)]),
         ~TopupDecisionRefuses(x.input, seen)
  PROVE  DecisionSeen(st, x.input, seen)
<1>1. PICK n, i : n = Len(x.seen) /\ i = x.input
  OBVIOUS
<1>2. /\ n \in Nat /\ Len(seen) = n + 1
      /\ \A m \in 1..n : seen[m] = x.seen[m]
      /\ seen[n + 1] = st[TopupDecisionWants(i, x.seen)]
  BY <1>1, AppendIsSeq DEF RequestFits
<1>3. /\ n <= 2
      /\ n >= 1 => x.seen[1] = st[Topup(i.topup)]
      /\ n >= 2 => x.seen[2] = st[Surface(x.seen[1].from)]
  BY <1>1 DEF SeenNow
<1>4. n >= 1 => x.seen[1] # Absent
  BY <1>1 DEF RequestFits, SeenFits, SeenByTopupDecision, Copied
<1>5. n \in 0..2
  BY <1>2, <1>3
<1>6. seen[1] = st[Topup(i.topup)] /\ seen[1] # Absent
  <2>1. CASE n = 0
    <3>1. seen[1] = st[Topup(i.topup)]
      BY <1>1, <1>2, <2>1 DEF TopupDecisionWants
    <3>2. seen[1] # Absent
      BY <1>1, <1>2, <2>1 DEF TopupDecisionRefuses, Denied
    <3>3. QED
      BY <3>1, <3>2
  <2>2. CASE n >= 1
    BY <1>2, <1>3, <1>4, <2>2
  <2>3. QED
    BY <1>5, <2>1, <2>2
<1>7. n >= 1 => seen[2] = st[Surface(seen[1].from)]
  <2>1. CASE n = 1
    <3>1. TopupDecisionWants(i, x.seen) = Surface(x.seen[1].from)
      BY <1>1, <2>1 DEF TopupDecisionWants
    <3>2. seen[1] = x.seen[1]
      BY <1>2, <2>1
    <3>3. QED
      BY <1>2, <2>1, <3>1, <3>2
  <2>2. CASE n = 2
    BY <1>2, <1>3, <2>2
  <2>3. n >= 1 => n = 1 \/ n = 2
    BY <1>5
  <2>4. QED
    BY <2>1, <2>2, <2>3
<1>8. seen[1] \in TopupRecord
  <2>1. Topup(i.topup) \in Keys
    BY <1>1, KeyOf DEF RequestFits, Inputs
  <2>2. Shaped(b, Topup(i.topup), seen[1])
    BY <1>6, <2>1 DEF StoreFits, Fine
  <2>3. QED
    BY <2>2, KindOf DEF Shaped
<1>9. Len(seen) \in 1..3 /\ (Len(seen) >= 2 => n >= 1)
  BY <1>2, <1>5
<1>10. QED
  BY <1>1, <1>6, <1>7, <1>8, <1>9 DEF DecisionSeen

(* What it puts.                                                           *)

PutTwo(k1, v1, k2, v2) == <<Writes(k1, v1), Writes(k2, v2)>>

PutFive(k1, v1, k2, v2, k3, v3, k4, v4, k5, v5) ==
  <<Writes(k1, v1), Writes(k2, v2), Writes(k3, v3), Writes(k4, v4), Writes(k5, v5)>>

(* The key each read leads to, and what is put, for any input and reads.   *)
LEMMA TopupDecisionAsks ==
  ASSUME NEW i, NEW seen, Len(seen) = 1
  PROVE  TopupDecisionWants(i, seen) = Surface(seen[1].from)
BY DEF TopupDecisionWants

TopupVerdictRecord(i, t, verdict) ==
  [identity_id |-> i.identity_id, topup |-> i.topup, decision |-> verdict,
   from |-> t.from, to |-> t.to, amount_cents |-> t.amount_cents,
   currency |-> t.currency, balance_moved |-> FALSE, balance_id |-> None]

LEMMA TopupDecisionPutsAre ==
  ASSUME NEW i, NEW seen
  PROVE  TopupDecisionPuts(i, seen)
           = PutTwo(TopupDecision(i.new),
                    TopupVerdictRecord(i, seen[1],
                      TopupVerdict(i, seen[1], seen[2], seen[3])),
                    Topup(i.topup),
                    DecidedTopup(seen[1], i.new,
                      TopupVerdict(i, seen[1], seen[2], seen[3])))
BY DEF TopupDecisionPuts, PutTwo, TopupVerdictRecord

LEMMA BalanceAsks ==
  ASSUME NEW i, NEW seen
  PROVE  /\ Len(seen) = 1 =>
              BalanceWants(i, seen) = TopupDecision(CitedTopupDecision(i, seen[1]))
         /\ Len(seen) = 2 => BalanceWants(i, seen) = Surface(seen[1].from)
         /\ Len(seen) = 3 => BalanceWants(i, seen) = Surface(seen[1].to)
<1>1. Len(seen) = 1 =>
        BalanceWants(i, seen) = TopupDecision(CitedTopupDecision(i, seen[1]))
  BY DEF BalanceWants
<1>2. Len(seen) = 2 => BalanceWants(i, seen) = Surface(seen[1].from)
  BY DEF BalanceWants
<1>3. Len(seen) = 3 => BalanceWants(i, seen) = Surface(seen[1].to)
  BY DEF BalanceWants
<1>4. QED
  BY <1>1, <1>2, <1>3

MoveRecord(i, t, d, a) ==
  [identity_id |-> i.identity_id, topup |-> i.topup, decision_id |-> d,
   from |-> t.from, to |-> t.to, amount_cents |-> a, currency |-> t.currency]

Less(f, a) == [f EXCEPT !.balance_cents = f.balance_cents - a]

More(g, a) == [g EXCEPT !.balance_cents = g.balance_cents + a]

LEMMA BalancePutsAre ==
  ASSUME NEW i, NEW seen
  PROVE  BalancePuts(i, seen)
           = PutFive(BalanceMove(i.new),
                     MoveRecord(i, seen[1], CitedTopupDecision(i, seen[1]),
                                seen[1].amount_cents),
                     Surface(seen[1].from), Less(seen[3], seen[1].amount_cents),
                     Surface(seen[1].to), More(seen[4], seen[1].amount_cents),
                     Topup(i.topup), Moved(seen[1], i.new),
                     TopupDecision(CitedTopupDecision(i, seen[1])),
                     Moved(seen[2], i.new))
BY DEF BalancePuts, PutFive, MoveRecord, Less, More

LEMMA SpendDecisionAsks ==
  ASSUME NEW i, NEW seen, Len(seen) = 1
  PROVE  SpendDecisionWants(i, seen) = Surface(seen[1].surface)
BY DEF SpendDecisionWants

SpendVerdictRecord(i, s, verdict, id) ==
  [identity_id |-> i.identity_id, spend |-> i.spend, surface |-> s.surface,
   decision |-> verdict, limit_check_id |-> id, amount_cents |-> s.amount_cents,
   currency |-> s.currency, balance_moved |-> FALSE, spend_balance_id |-> None]

ChecksIn(seen) == {seen[n] : n \in 3..Len(seen)}

CheckNamed(i, s, checks) ==
  IF checks # {} /\ \A c \in checks : CheckFits(s, c) THEN NamedCheck(i, s) ELSE None

LEMMA SpendDecisionPutsAre ==
  ASSUME NEW i, NEW seen
  PROVE  SpendDecisionPuts(i, seen)
           = PutTwo(SpendDecision(i.new),
                    SpendVerdictRecord(i, seen[1],
                      SpendVerdict(i, seen[1], seen[2], ChecksIn(seen)),
                      CheckNamed(i, seen[1], ChecksIn(seen))),
                    Spend(i.spend),
                    DecidedSpend(seen[1], i.new,
                      SpendVerdict(i, seen[1], seen[2], ChecksIn(seen)),
                      CheckNamed(i, seen[1], ChecksIn(seen))))
BY DEF SpendDecisionPuts, PutTwo, SpendVerdictRecord, ChecksIn, CheckNamed

LEMMA SpendBalanceAsks ==
  ASSUME NEW i, NEW seen
  PROVE  /\ Len(seen) = 1 =>
              SpendBalanceWants(i, seen) = SpendDecision(CitedSpendDecision(i, seen[1]))
         /\ Len(seen) = 2 => SpendBalanceWants(i, seen) = Surface(seen[1].surface)
<1>1. Len(seen) = 1 =>
        SpendBalanceWants(i, seen) = SpendDecision(CitedSpendDecision(i, seen[1]))
  BY DEF SpendBalanceWants
<1>2. Len(seen) = 2 => SpendBalanceWants(i, seen) = Surface(seen[1].surface)
  BY DEF SpendBalanceWants
<1>3. QED
  BY <1>1, <1>2

LEMMA DecideTopupPlan ==
  ASSUME NEW b, NEW st, StoreFits(b, st), NEW x, RequestFits(b, st, x),
         x.input.op = "topup-decision", Opens(st, x.input), SeenNow(st, x.input, x.seen),
         NEW seen, seen = Append(x.seen, st[TopupDecisionWants(x.input, x.seen)]),
         ~TopupDecisionRefuses(x.input, seen), TopupDecisionWants(x.input, seen) = None
  PROVE  Plan(st, x.input, TopupDecisionPuts(x.input, seen))
<1>1. PICK i, t, f : i = x.input /\ t = seen[1] /\ f = seen[2]
  OBVIOUS
<1>2. /\ Len(seen) \in 1..3
      /\ t = st[Topup(i.topup)] /\ t # Absent /\ t \in TopupRecord
      /\ Len(seen) >= 2 => f = st[Surface(t.from)]
  <2>1. DecisionSeen(st, x.input, seen)
    BY DecideTopupSeen
  <2>2. QED
    BY <1>1, <2>1 DEF DecisionSeen
<1>3. Len(seen) >= 2
  <2>1. Len(seen) = 1 => TopupDecisionWants(i, seen) = Surface(t.from)
    BY <1>1, TopupDecisionAsks
  <2>2. Surface(t.from) \in Keys
    BY <1>2, KeyOf DEF TopupRecord
  <2>3. Len(seen) # 1
    BY <1>1, <2>1, <2>2, NoneIsNoKey
  <2>4. QED
    BY <1>2, <2>3
<1>4. PICK verdict : verdict = TopupVerdict(i, t, seen[2], seen[3])
  OBVIOUS
<1>5. PICK d, u : /\ d = [identity_id |-> i.identity_id, topup |-> i.topup,
                          decision |-> verdict, from |-> t.from, to |-> t.to,
                          amount_cents |-> t.amount_cents, currency |-> t.currency,
                          balance_moved |-> FALSE, balance_id |-> None]
                  /\ u = DecidedTopup(t, i.new, verdict)
  OBVIOUS
<1>6. PICK all : all = <<Writes(TopupDecision(i.new), d), Writes(Topup(i.topup), u)>>
  OBVIOUS
<1>7. TopupDecisionPuts(i, seen) = all
  <2>1. d = TopupVerdictRecord(i, t, verdict)
    BY <1>5 DEF TopupVerdictRecord
  <2>2. u = DecidedTopup(t, i.new, verdict)
    BY <1>5
  <2>3. all = PutTwo(TopupDecision(i.new), d, Topup(i.topup), u)
    BY <1>6 DEF PutTwo
  <2>4. QED
    BY <1>1, <1>4, <2>1, <2>2, <2>3, TopupDecisionPutsAre
<1>8. /\ Len(all) = 2 /\ all[1].key = TopupDecision(i.new) /\ all[1].value = d
      /\ all[2].key = Topup(i.topup) /\ all[2].value = u
  BY <1>6, TwoPutsOf
<1>9. /\ d.topup = i.topup /\ d.decision = verdict
      /\ d.from = t.from /\ d.to = t.to /\ d.amount_cents = t.amount_cents
  BY <1>5
<1>10. u.from = t.from /\ u.to = t.to /\ u.decision_id = i.new
  BY <1>2, <1>5 DEF TopupRecord, DecidedTopup
<1>11. verdict = "approved" =>
         t.amount_cents > 0 /\ f # Absent /\ t.amount_cents <= f.balance_cents
  BY <1>1, <1>4 DEF TopupVerdict, TopupGate
<1>12. PlanTopupDecision(st, i, all)
  BY <1>2, <1>3, <1>8, <1>9, <1>10, <1>11 DEF PlanTopupDecision
<1>13. Plan(st, i, all)
  BY <1>1, <1>12 DEF Plan, SurfaceOps
<1>14. QED
  BY <1>1, <1>7, <1>13

(* What a movement has read.                                               *)
MoveSeen(st, i, seen) ==
  /\ Len(seen) \in 1..4
  /\ seen[1] = st[Topup(i.topup)] /\ seen[1] # Absent
  /\ seen[1] \in TopupRecord /\ MayMove(seen[1])
  /\ CitedTopupDecision(i, seen[1]) \in Pool["value-topup-decision"]
  /\ Len(seen) >= 2 =>
       /\ seen[2] = st[TopupDecision(CitedTopupDecision(i, seen[1]))]
       /\ seen[2] # Absent /\ Approves(seen[2], i)
  /\ Len(seen) >= 3 => seen[3] = st[Surface(seen[1].from)]
  /\ Len(seen) = 4 => seen[4] = st[Surface(seen[1].to)]

LEMMA MoveBalanceSeen ==
  ASSUME NEW b, NEW st, StoreFits(b, st), NEW x, RequestFits(b, st, x),
         x.input.op = "balance", SeenNow(st, x.input, x.seen),
         NEW seen, seen = Append(x.seen, st[BalanceWants(x.input, x.seen)]),
         ~BalanceRefuses(x.input, seen)
  PROVE  MoveSeen(st, x.input, seen)
<1>1. PICK n, i : n = Len(x.seen) /\ i = x.input
  OBVIOUS
<1>2. /\ n \in Nat /\ Len(seen) = n + 1
      /\ \A m \in 1..n : seen[m] = x.seen[m]
      /\ seen[n + 1] = st[BalanceWants(i, x.seen)]
  BY <1>1, AppendIsSeq DEF RequestFits
<1>3. SeenByBalance(b, st, i, x.seen)
  BY <1>1 DEF RequestFits, SeenFits
<1>4. /\ n >= 1 => x.seen[1] = st[Topup(i.topup)]
      /\ n >= 2 => x.seen[2] = st[TopupDecision(CitedTopupDecision(i, x.seen[1]))]
      /\ n >= 3 => x.seen[3] = st[Surface(x.seen[1].from)]
  BY <1>1 DEF SeenNow
<1>5. n \in 0..3
  <2>1. n <= 3
    BY <1>1, <1>3 DEF SeenByBalance
  <2>2. QED
    BY <1>2, <2>1
<1>6. /\ seen[1] = st[Topup(i.topup)] /\ seen[1] # Absent
      /\ MayMove(seen[1]) /\ CitedTopupDecision(i, seen[1]) # None
  <2>1. CASE n = 0
    <3>1. seen[1] = st[Topup(i.topup)]
      BY <1>1, <1>2, <2>1 DEF BalanceWants
    <3>2. /\ seen[1] # Absent
          /\ MayMove(seen[1]) /\ CitedTopupDecision(i, seen[1]) # None
      BY <1>1, <1>2, <2>1 DEF BalanceRefuses, Denied
    <3>3. QED
      BY <3>1, <3>2
  <2>2. CASE n >= 1
    <3>1. /\ x.seen[1] # Absent
          /\ MayMove(x.seen[1]) /\ CitedTopupDecision(i, x.seen[1]) # None
      BY <1>1, <1>3, <2>2 DEF SeenByBalance, Copied
    <3>2. seen[1] = x.seen[1]
      BY <1>2, <2>2
    <3>3. QED
      BY <1>4, <2>2, <3>1, <3>2
  <2>3. QED
    BY <1>5, <2>1, <2>2
<1>7. seen[1] \in TopupRecord
  <2>1. Topup(i.topup) \in Keys
    BY <1>1, KeyOf DEF RequestFits, Inputs
  <2>2. Shaped(b, Topup(i.topup), seen[1])
    BY <1>6, <2>1 DEF StoreFits, Fine
  <2>3. QED
    BY <2>2, KindOf DEF Shaped
<1>8. PICK d : d = CitedTopupDecision(i, seen[1])
  OBVIOUS
<1>9. d \in Pool["value-topup-decision"]
  <2>1. i.decision_id \in Nothing(Pool["value-topup-decision"])
    BY <1>1 DEF RequestFits, Inputs
  <2>2. QED
    BY <1>6, <1>7, <1>8, <2>1 DEF CitedTopupDecision, TopupRecord, Nothing
<1>10. n >= 1 => /\ seen[2] = st[TopupDecision(d)]
                 /\ seen[2] # Absent /\ Approves(seen[2], i)
  <2>1. CASE n = 1
    <3>1. BalanceWants(i, x.seen) = TopupDecision(CitedTopupDecision(i, x.seen[1]))
      BY <1>1, <2>1 DEF BalanceWants
    <3>2. seen[1] = x.seen[1]
      BY <1>2, <2>1
    <3>3. seen[2] = st[TopupDecision(d)]
      BY <1>2, <1>8, <2>1, <3>1, <3>2
    <3>4. seen[2] # Absent /\ Approves(seen[2], i)
      BY <1>1, <1>2, <2>1 DEF BalanceRefuses, Denied
    <3>5. QED
      BY <3>3, <3>4
  <2>2. CASE n >= 2
    <3>1. seen[1] = x.seen[1] /\ seen[2] = x.seen[2]
      BY <1>2, <2>2
    <3>2. x.seen[2] # Absent /\ Approves(x.seen[2], i)
      BY <1>1, <1>3, <2>2 DEF SeenByBalance, Copied
    <3>3. QED
      BY <1>4, <1>8, <2>2, <3>1, <3>2
  <2>3. n >= 1 => n = 1 \/ n >= 2
    BY <1>5
  <2>4. QED
    BY <2>1, <2>2, <2>3
<1>11. n >= 2 => seen[3] = st[Surface(seen[1].from)]
  <2>1. CASE n = 2
    <3>1. BalanceWants(i, x.seen) = Surface(x.seen[1].from)
      BY <1>1, <2>1 DEF BalanceWants
    <3>2. seen[1] = x.seen[1]
      BY <1>2, <2>1
    <3>3. QED
      BY <1>2, <2>1, <3>1, <3>2
  <2>2. CASE n = 3
    <3>1. seen[1] = x.seen[1] /\ seen[3] = x.seen[3]
      BY <1>2, <2>2
    <3>2. QED
      BY <1>4, <2>2, <3>1
  <2>3. n >= 2 => n = 2 \/ n = 3
    BY <1>5
  <2>4. QED
    BY <2>1, <2>2, <2>3
<1>12. n = 3 => seen[4] = st[Surface(seen[1].to)]
  <2>1. SUFFICES ASSUME n = 3 PROVE seen[4] = st[Surface(seen[1].to)]
    OBVIOUS
  <2>2. BalanceWants(i, x.seen) = Surface(x.seen[1].to)
    BY <1>1, <2>1 DEF BalanceWants
  <2>3. seen[1] = x.seen[1]
    BY <1>2, <2>1
  <2>4. QED
    BY <1>2, <2>1, <2>2, <2>3
<1>13. /\ Len(seen) \in 1..4
       /\ Len(seen) >= 2 => n >= 1
       /\ Len(seen) >= 3 => n >= 2
       /\ Len(seen) = 4 => n = 3
  BY <1>2, <1>5
<1>14. QED
  BY <1>1, <1>6, <1>7, <1>8, <1>9, <1>10, <1>11, <1>12, <1>13 DEF MoveSeen

(* What it puts.                                                           *)

LEMMA MoveBalancePlan ==
  ASSUME NEW b, NEW st, StoreFits(b, st), NEW x, RequestFits(b, st, x),
         x.input.op = "balance", Opens(st, x.input), SeenNow(st, x.input, x.seen),
         NEW seen, seen = Append(x.seen, st[BalanceWants(x.input, x.seen)]),
         ~BalanceRefuses(x.input, seen), BalanceWants(x.input, seen) = None
  PROVE  Plan(st, x.input, BalancePuts(x.input, seen))
<1>1. PICK i, t, d, f, g : /\ i = x.input /\ t = seen[1]
                           /\ d = CitedTopupDecision(i, t)
                           /\ f = seen[3] /\ g = seen[4]
  OBVIOUS
<1>2. /\ Len(seen) \in 1..4
      /\ t = st[Topup(i.topup)] /\ t # Absent /\ t \in TopupRecord
      /\ MayMove(t) /\ d \in Pool["value-topup-decision"]
      /\ Len(seen) >= 2 => /\ seen[2] = st[TopupDecision(d)]
                           /\ seen[2] # Absent /\ Approves(seen[2], i)
      /\ Len(seen) >= 3 => f = st[Surface(t.from)]
      /\ Len(seen) = 4 => g = st[Surface(t.to)]
  <2>1. MoveSeen(st, x.input, seen)
    BY MoveBalanceSeen
  <2>2. QED
    BY <1>1, <2>1 DEF MoveSeen
<1>3. t.from \in SurfaceIds /\ t.to \in SurfaceIds
  BY <1>2 DEF TopupRecord
<1>4. TopupDecision(d) \in Keys /\ Surface(t.from) \in Keys /\ Surface(t.to) \in Keys
  BY <1>2, <1>3, KeyOf
<1>5. Len(seen) = 4
  <2>1. Len(seen) = 1 => BalanceWants(i, seen) = TopupDecision(d)
    BY <1>1, BalanceAsks
  <2>2. Len(seen) = 2 => BalanceWants(i, seen) = Surface(t.from)
    BY <1>1, BalanceAsks
  <2>3. Len(seen) = 3 => BalanceWants(i, seen) = Surface(t.to)
    BY <1>1, BalanceAsks
  <2>4. Len(seen) # 1 /\ Len(seen) # 2 /\ Len(seen) # 3
    BY <1>1, <1>4, <2>1, <2>2, <2>3, NoneIsNoKey
  <2>5. QED
    BY <1>2, <2>4
<1>6. /\ seen[2] = st[TopupDecision(d)] /\ seen[2] # Absent /\ Approves(seen[2], i)
      /\ f = st[Surface(t.from)] /\ g = st[Surface(t.to)]
  BY <1>2, <1>5
<1>7. ~Denied(f, i) /\ ~Denied(g, i) /\ Covers(f, t) /\ g.currency = t.currency
  BY <1>1, <1>5 DEF BalanceRefuses
<1>8. f \in SurfaceRecord /\ g \in SurfaceRecord
  <2>1. f # Absent /\ g # Absent
    BY <1>7 DEF Denied
  <2>2. Shaped(b, Surface(t.from), f) /\ Shaped(b, Surface(t.to), g)
    BY <1>4, <1>6, <2>1 DEF StoreFits, Fine
  <2>3. QED
    BY <2>2, KindOf DEF Shaped
<1>9. PICK a : a = t.amount_cents
  OBVIOUS
<1>10. PICK m : m = [identity_id |-> i.identity_id, topup |-> i.topup,
                     decision_id |-> d, from |-> t.from, to |-> t.to,
                     amount_cents |-> a, currency |-> t.currency]
  OBVIOUS
<1>11. PICK v3, v4 : /\ v3 = [f EXCEPT !.balance_cents = f.balance_cents - a]
                     /\ v4 = [g EXCEPT !.balance_cents = g.balance_cents + a]
  OBVIOUS
<1>12. PICK u, e : u = Moved(t, i.new) /\ e = Moved(seen[2], i.new)
  OBVIOUS
<1>13. PICK all : all = <<Writes(BalanceMove(i.new), m), Writes(Surface(t.from), v3),
                          Writes(Surface(t.to), v4), Writes(Topup(i.topup), u),
                          Writes(TopupDecision(d), e)>>
  OBVIOUS
<1>14. BalancePuts(i, seen) = all
  <2>1. m = MoveRecord(i, t, d, a)
    BY <1>10 DEF MoveRecord
  <2>2. v3 = Less(f, a) /\ v4 = More(g, a)
    BY <1>11 DEF Less, More
  <2>3. all = PutFive(BalanceMove(i.new), m, Surface(t.from), v3, Surface(t.to), v4,
                      Topup(i.topup), u, TopupDecision(d), e)
    BY <1>13 DEF PutFive
  <2>4. QED
    BY <1>1, <1>9, <1>12, <2>1, <2>2, <2>3, BalancePutsAre
<1>15. /\ Len(all) = 5 /\ all[1].key = BalanceMove(i.new) /\ all[1].value = m
       /\ all[2].key = Surface(t.from) /\ all[2].value = v3
       /\ all[3].key = Surface(t.to) /\ all[3].value = v4
       /\ all[4].key = Topup(i.topup) /\ all[4].value = u
       /\ all[5].key = TopupDecision(d) /\ all[5].value = e
  BY <1>13, FivePutsOf
<1>16. /\ m.decision_id = d /\ m.from = t.from /\ m.to = t.to
       /\ m.amount_cents = a /\ m.currency = t.currency
  BY <1>10
<1>17. v3.balance_cents = f.balance_cents - a /\ v4.balance_cents = g.balance_cents + a
  BY <1>8, <1>11 DEF SurfaceRecord
<1>18. u.from = t.from /\ u.to = t.to /\ u.balance_moved = TRUE
  BY <1>2, <1>12 DEF TopupRecord, Moved
<1>19. PlanBalance(st, i, all)
  <2>1. /\ st[Topup(i.topup)] = t /\ CitedTopupDecision(i, t) = d
        /\ st[Surface(t.from)] = f /\ st[Surface(t.to)] = g
    BY <1>1, <1>2, <1>6
  <2>2. /\ t # Absent /\ MayMove(t) /\ d \in Pool["value-topup-decision"]
        /\ st[TopupDecision(d)] # Absent /\ Approves(st[TopupDecision(d)], i)
        /\ ~Denied(f, i) /\ ~Denied(g, i)
        /\ Covers(f, t) /\ g.currency = t.currency
    BY <1>2, <1>6, <1>7
  <2>3. /\ Len(all) = 5
        /\ all[1].key = BalanceMove(i.new) /\ all[2].key = Surface(t.from)
        /\ all[3].key = Surface(t.to) /\ all[4].key = Topup(i.topup)
        /\ all[5].key = TopupDecision(d)
        /\ all[1].value = m /\ all[2].value = v3 /\ all[3].value = v4 /\ all[4].value = u
    BY <1>15
  <2>4. /\ all[1].value.decision_id = d /\ all[1].value.from = t.from
        /\ all[1].value.to = t.to /\ all[1].value.amount_cents = t.amount_cents
        /\ all[1].value.currency = t.currency
    BY <1>9, <1>16, <2>3
  <2>5. /\ all[2].value.balance_cents = f.balance_cents - t.amount_cents
        /\ all[3].value.balance_cents = g.balance_cents + t.amount_cents
        /\ all[4].value.from = t.from /\ all[4].value.to = t.to
        /\ all[4].value.balance_moved = TRUE
    BY <1>9, <1>17, <1>18, <2>3
  <2>6. QED
    BY <2>1, <2>2, <2>3, <2>4, <2>5 DEF PlanBalance
<1>20. Plan(st, i, all)
  BY <1>1, <1>19 DEF Plan, SurfaceOps
<1>21. QED
  BY <1>1, <1>14, <1>20

(* What a spend decision has read.                                         *)
SpendDecisionSeen(st, i, seen) ==
  /\ Len(seen) \in 1..3
  /\ seen[1] = st[Spend(i.spend)] /\ seen[1] # Absent
  /\ IsSpend(seen[1])
  /\ Len(seen) >= 2 => seen[2] = st[Surface(seen[1].surface)]

LEMMA DecideSpendSeen ==
  ASSUME NEW b, NEW st, StoreFits(b, st), NEW x, RequestFits(b, st, x),
         x.input.op = "spend-decision", SeenNow(st, x.input, x.seen),
         NEW seen, seen = Append(x.seen, st[SpendDecisionWants(x.input, x.seen)]),
         ~SpendDecisionRefuses(x.input, seen)
  PROVE  SpendDecisionSeen(st, x.input, seen)
<1>1. PICK n, i : n = Len(x.seen) /\ i = x.input
  OBVIOUS
<1>2. /\ n \in Nat /\ Len(seen) = n + 1
      /\ \A m \in 1..n : seen[m] = x.seen[m]
      /\ seen[n + 1] = st[SpendDecisionWants(i, x.seen)]
  BY <1>1, AppendIsSeq DEF RequestFits
<1>3. SeenBySpendDecision(b, st, i, x.seen)
  BY <1>1 DEF RequestFits, SeenFits
<1>4. /\ n >= 1 => x.seen[1] = st[Spend(i.spend)]
      /\ n >= 2 => x.seen[2] = st[Surface(x.seen[1].surface)]
  BY <1>1 DEF SeenNow
<1>5. n \in 0..2
  <2>1. n <= 2
    BY <1>1, <1>3 DEF SeenBySpendDecision
  <2>2. QED
    BY <1>2, <2>1
<1>6. seen[1] = st[Spend(i.spend)] /\ seen[1] # Absent
  <2>1. CASE n = 0
    <3>1. seen[1] = st[Spend(i.spend)]
      BY <1>1, <1>2, <2>1 DEF SpendDecisionWants
    <3>2. seen[1] # Absent
      BY <1>1, <1>2, <2>1 DEF SpendDecisionRefuses, Denied
    <3>3. QED
      BY <3>1, <3>2
  <2>2. CASE n >= 1
    <3>1. x.seen[1] # Absent
      BY <1>1, <1>3, <2>2 DEF SeenBySpendDecision, Copied
    <3>2. QED
      BY <1>2, <1>4, <2>2, <3>1
  <2>3. QED
    BY <1>5, <2>1, <2>2
<1>7. n >= 1 => seen[2] = st[Surface(seen[1].surface)]
  <2>1. CASE n = 1
    <3>1. SpendDecisionWants(i, x.seen) = Surface(x.seen[1].surface)
      BY <1>1, <2>1 DEF SpendDecisionWants
    <3>2. seen[1] = x.seen[1]
      BY <1>2, <2>1
    <3>3. QED
      BY <1>2, <2>1, <3>1, <3>2
  <2>2. CASE n = 2
    BY <1>2, <1>4, <2>2
  <2>3. n >= 1 => n = 1 \/ n = 2
    BY <1>5
  <2>4. QED
    BY <2>1, <2>2, <2>3
<1>8. IsSpend(seen[1])
  <2>1. Spend(i.spend) \in Keys
    BY <1>1, KeyOf DEF RequestFits, Inputs
  <2>2. Shaped(b, Spend(i.spend), seen[1])
    BY <1>6, <2>1 DEF StoreFits, Fine
  <2>3. QED
    BY <2>2, KindOf DEF Shaped
<1>9. Len(seen) \in 1..3 /\ (Len(seen) >= 2 => n >= 1)
  BY <1>2, <1>5
<1>10. QED
  BY <1>1, <1>6, <1>7, <1>8, <1>9 DEF SpendDecisionSeen

(* What it puts.                                                           *)

LEMMA DecideSpendPlan ==
  ASSUME NEW b, NEW st, StoreFits(b, st), NEW x, RequestFits(b, st, x),
         x.input.op = "spend-decision", Opens(st, x.input), SeenNow(st, x.input, x.seen),
         NEW seen, seen = Append(x.seen, st[SpendDecisionWants(x.input, x.seen)]),
         ~SpendDecisionRefuses(x.input, seen), SpendDecisionWants(x.input, seen) = None
  PROVE  Plan(st, x.input, SpendDecisionPuts(x.input, seen))
<1>1. PICK i, s, f, checks : /\ i = x.input /\ s = seen[1] /\ f = seen[2]
                             /\ checks = {seen[j] : j \in 3..Len(seen)}
  OBVIOUS
<1>2. /\ Len(seen) \in 1..3
      /\ s = st[Spend(i.spend)] /\ s # Absent /\ IsSpend(s)
      /\ Len(seen) >= 2 => f = st[Surface(s.surface)]
  <2>1. SpendDecisionSeen(st, x.input, seen)
    BY DecideSpendSeen
  <2>2. QED
    BY <1>1, <2>1 DEF SpendDecisionSeen
<1>3. Len(seen) >= 2
  <2>1. Len(seen) = 1 => SpendDecisionWants(i, seen) = Surface(s.surface)
    BY <1>1, SpendDecisionAsks
  <2>2. Surface(s.surface) \in Keys
    BY <1>2, KeyOf DEF IsSpend, SpendRecord
  <2>3. Len(seen) # 1
    BY <1>1, <2>1, <2>2, NoneIsNoKey
  <2>4. QED
    BY <1>2, <2>3
<1>4. PICK verdict, id :
        /\ verdict = SpendVerdict(i, s, f, checks)
        /\ id = IF checks # {} /\ \A c \in checks : CheckFits(s, c)
                THEN NamedCheck(i, s) ELSE None
  OBVIOUS
<1>5. PICK d, u : /\ d = [identity_id |-> i.identity_id, spend |-> i.spend,
                          surface |-> s.surface, decision |-> verdict,
                          limit_check_id |-> id, amount_cents |-> s.amount_cents,
                          currency |-> s.currency, balance_moved |-> FALSE,
                          spend_balance_id |-> None]
                  /\ u = DecidedSpend(s, i.new, verdict, id)
  OBVIOUS
<1>6. PICK all : all = <<Writes(SpendDecision(i.new), d), Writes(Spend(i.spend), u)>>
  OBVIOUS
<1>7. SpendDecisionPuts(i, seen) = all
  <2>1. d = SpendVerdictRecord(i, s, verdict, id)
    BY <1>5 DEF SpendVerdictRecord
  <2>2. checks = ChecksIn(seen)
    BY <1>1 DEF ChecksIn
  <2>3. verdict = SpendVerdict(i, s, f, checks) /\ id = CheckNamed(i, s, checks)
    BY <1>4 DEF CheckNamed
  <2>4. i = x.input /\ s = seen[1] /\ f = seen[2]
    BY <1>1
  <2>5. u = DecidedSpend(s, i.new, verdict, id)
    BY <1>5
  <2>6. all = PutTwo(SpendDecision(i.new), d, Spend(i.spend), u)
    BY <1>6 DEF PutTwo
  <2>7. QED
    BY <2>1, <2>2, <2>3, <2>4, <2>5, <2>6, SpendDecisionPutsAre
<1>8. /\ Len(all) = 2 /\ all[1].key = SpendDecision(i.new) /\ all[1].value = d
      /\ all[2].key = Spend(i.spend) /\ all[2].value = u
  BY <1>6, TwoPutsOf
<1>9. /\ d.spend = i.spend /\ d.decision = verdict
      /\ d.surface = s.surface /\ d.amount_cents = s.amount_cents
  BY <1>5
<1>10. u.receipt_ids = s.receipt_ids /\ u.decision_id = i.new
  BY <1>2, <1>5 DEF IsSpend, SpendRecord, DecidedSpend
<1>11. verdict = "approved" =>
         s.amount_cents > 0 /\ f # Absent /\ s.amount_cents <= f.balance_cents
  BY <1>4 DEF SpendVerdict, SpendGate
<1>12. PlanSpendDecision(st, i, all)
  BY <1>2, <1>3, <1>8, <1>9, <1>10, <1>11 DEF PlanSpendDecision
<1>13. Plan(st, i, all)
  BY <1>1, <1>12 DEF Plan, SurfaceOps
<1>14. QED
  BY <1>1, <1>7, <1>13

(* What a debit has read.                                                  *)
DebitSeen(st, i, seen) ==
  /\ Len(seen) \in 1..3
  /\ seen[1] = st[Spend(i.spend)] /\ seen[1] # Absent
  /\ IsSpend(seen[1]) /\ MayDebit(seen[1])
  /\ CitedSpendDecision(i, seen[1]) \in Pool["value-spend-decision"]
  /\ Len(seen) >= 2 =>
       /\ seen[2] = st[SpendDecision(CitedSpendDecision(i, seen[1]))]
       /\ seen[2] # Absent
       /\ seen[2].spend = i.spend /\ seen[2].decision = "approved"
  /\ Len(seen) = 3 => seen[3] = st[Surface(seen[1].surface)]

LEMMA DebitSpendSeen ==
  ASSUME NEW b, NEW st, StoreFits(b, st), NEW x, RequestFits(b, st, x),
         x.input.op = "spend-balance", SeenNow(st, x.input, x.seen),
         NEW seen, seen = Append(x.seen, st[SpendBalanceWants(x.input, x.seen)]),
         ~SpendBalanceRefuses(x.input, seen)
  PROVE  DebitSeen(st, x.input, seen)
<1>1. PICK n, i : n = Len(x.seen) /\ i = x.input
  OBVIOUS
<1>2. /\ n \in Nat /\ Len(seen) = n + 1
      /\ \A m \in 1..n : seen[m] = x.seen[m]
      /\ seen[n + 1] = st[SpendBalanceWants(i, x.seen)]
  BY <1>1, AppendIsSeq DEF RequestFits
<1>3. SeenBySpendBalance(b, st, i, x.seen)
  BY <1>1 DEF RequestFits, SeenFits
<1>4. /\ n >= 1 => x.seen[1] = st[Spend(i.spend)]
      /\ n >= 2 => x.seen[2] = st[SpendDecision(CitedSpendDecision(i, x.seen[1]))]
  BY <1>1 DEF SeenNow
<1>5. n \in 0..2
  <2>1. n <= 2
    BY <1>1, <1>3 DEF SeenBySpendBalance
  <2>2. QED
    BY <1>2, <2>1
<1>6. /\ seen[1] = st[Spend(i.spend)] /\ seen[1] # Absent
      /\ MayDebit(seen[1]) /\ CitedSpendDecision(i, seen[1]) # None
  <2>1. CASE n = 0
    <3>1. seen[1] = st[Spend(i.spend)]
      BY <1>1, <1>2, <2>1 DEF SpendBalanceWants
    <3>2. /\ seen[1] # Absent
          /\ MayDebit(seen[1]) /\ CitedSpendDecision(i, seen[1]) # None
      BY <1>1, <1>2, <2>1 DEF SpendBalanceRefuses, Denied
    <3>3. QED
      BY <3>1, <3>2
  <2>2. CASE n >= 1
    <3>1. /\ x.seen[1] # Absent
          /\ MayDebit(x.seen[1]) /\ CitedSpendDecision(i, x.seen[1]) # None
      BY <1>1, <1>3, <2>2 DEF SeenBySpendBalance, Copied
    <3>2. seen[1] = x.seen[1]
      BY <1>2, <2>2
    <3>3. QED
      BY <1>4, <2>2, <3>1, <3>2
  <2>3. QED
    BY <1>5, <2>1, <2>2
<1>7. IsSpend(seen[1])
  <2>1. Spend(i.spend) \in Keys
    BY <1>1, KeyOf DEF RequestFits, Inputs
  <2>2. Shaped(b, Spend(i.spend), seen[1])
    BY <1>6, <2>1 DEF StoreFits, Fine
  <2>3. QED
    BY <2>2, KindOf DEF Shaped
<1>8. PICK d : d = CitedSpendDecision(i, seen[1])
  OBVIOUS
<1>9. d \in Pool["value-spend-decision"]
  <2>1. i.decision_id \in Nothing(Pool["value-spend-decision"])
    BY <1>1 DEF RequestFits, Inputs
  <2>2. QED
    BY <1>6, <1>7, <1>8, <2>1 DEF CitedSpendDecision, IsSpend, SpendRecord, Nothing
<1>10. n >= 1 => /\ seen[2] = st[SpendDecision(d)] /\ seen[2] # Absent
                 /\ seen[2].spend = i.spend /\ seen[2].decision = "approved"
  <2>1. CASE n = 1
    <3>1. SpendBalanceWants(i, x.seen) = SpendDecision(CitedSpendDecision(i, x.seen[1]))
      BY <1>1, <2>1 DEF SpendBalanceWants
    <3>2. seen[1] = x.seen[1]
      BY <1>2, <2>1
    <3>3. seen[2] = st[SpendDecision(d)]
      BY <1>2, <1>8, <2>1, <3>1, <3>2
    <3>4. /\ seen[2] # Absent
          /\ seen[2].spend = i.spend /\ seen[2].decision = "approved"
      BY <1>1, <1>2, <2>1 DEF SpendBalanceRefuses, Denied
    <3>5. QED
      BY <3>3, <3>4
  <2>2. CASE n = 2
    <3>1. seen[1] = x.seen[1] /\ seen[2] = x.seen[2]
      BY <1>2, <2>2
    <3>2. /\ x.seen[2] # Absent
          /\ x.seen[2].spend = i.spend /\ x.seen[2].decision = "approved"
      BY <1>1, <1>3, <2>2 DEF SeenBySpendBalance, Copied
    <3>3. QED
      BY <1>4, <1>8, <2>2, <3>1, <3>2
  <2>3. n >= 1 => n = 1 \/ n = 2
    BY <1>5
  <2>4. QED
    BY <2>1, <2>2, <2>3
<1>11. n = 2 => seen[3] = st[Surface(seen[1].surface)]
  <2>1. SUFFICES ASSUME n = 2 PROVE seen[3] = st[Surface(seen[1].surface)]
    OBVIOUS
  <2>2. SpendBalanceWants(i, x.seen) = Surface(x.seen[1].surface)
    BY <1>1, <2>1 DEF SpendBalanceWants
  <2>3. seen[1] = x.seen[1]
    BY <1>2, <2>1
  <2>4. QED
    BY <1>2, <2>1, <2>2, <2>3
<1>12. /\ Len(seen) \in 1..3
       /\ Len(seen) >= 2 => n >= 1
       /\ Len(seen) = 3 => n = 2
  BY <1>2, <1>5
<1>13. QED
  BY <1>1, <1>6, <1>7, <1>8, <1>9, <1>10, <1>11, <1>12 DEF DebitSeen

(* What it puts.                                                           *)

LEMMA DebitSpendPlan ==
  ASSUME NEW b, NEW st, StoreFits(b, st), NEW x, RequestFits(b, st, x),
         x.input.op = "spend-balance", Opens(st, x.input), SeenNow(st, x.input, x.seen),
         NEW seen, seen = Append(x.seen, st[SpendBalanceWants(x.input, x.seen)]),
         ~SpendBalanceRefuses(x.input, seen), SpendBalanceWants(x.input, seen) = None
  PROVE  Plan(st, x.input, SpendBalancePuts(x.input, seen))
<1>1. PICK i, s, d, f : /\ i = x.input /\ s = seen[1]
                        /\ d = CitedSpendDecision(i, s) /\ f = seen[3]
  OBVIOUS
<1>2. /\ Len(seen) \in 1..3
      /\ s = st[Spend(i.spend)] /\ s # Absent /\ IsSpend(s)
      /\ MayDebit(s) /\ d \in Pool["value-spend-decision"]
      /\ Len(seen) >= 2 => /\ seen[2] = st[SpendDecision(d)] /\ seen[2] # Absent
                           /\ seen[2].spend = i.spend /\ seen[2].decision = "approved"
      /\ Len(seen) = 3 => f = st[Surface(s.surface)]
  <2>1. DebitSeen(st, x.input, seen)
    BY DebitSpendSeen
  <2>2. QED
    BY <1>1, <2>1 DEF DebitSeen
<1>3. SpendDecision(d) \in Keys /\ Surface(s.surface) \in Keys
  BY <1>2, KeyOf DEF IsSpend, SpendRecord
<1>4. Len(seen) = 3
  <2>1. /\ Len(seen) = 1 => SpendBalanceWants(i, seen) = SpendDecision(d)
        /\ Len(seen) = 2 => SpendBalanceWants(i, seen) = Surface(s.surface)
    BY <1>1, SpendBalanceAsks
  <2>2. Len(seen) # 1 /\ Len(seen) # 2
    BY <1>1, <1>3, <2>1, NoneIsNoKey
  <2>3. QED
    BY <1>2, <2>2
<1>5. /\ seen[2] = st[SpendDecision(d)] /\ seen[2] # Absent
      /\ seen[2].spend = i.spend /\ seen[2].decision = "approved"
      /\ f = st[Surface(s.surface)]
  BY <1>2, <1>4
<1>6. ~Denied(f, i) /\ EnoughFor(s, f)
  BY <1>1, <1>4 DEF SpendBalanceRefuses
<1>7. f \in SurfaceRecord
  <2>1. f # Absent
    BY <1>6 DEF Denied
  <2>2. Shaped(b, Surface(s.surface), f)
    BY <1>3, <1>5, <2>1 DEF StoreFits, Fine
  <2>3. QED
    BY <2>2, KindOf DEF Shaped
<1>8. PICK a : a = s.amount_cents
  OBVIOUS
<1>9. PICK m, v : /\ m = [identity_id |-> i.identity_id, spend |-> i.spend,
                          decision_id |-> d, surface |-> s.surface,
                          amount_cents |-> a, currency |-> s.currency]
                  /\ v = [f EXCEPT !.balance_cents = f.balance_cents - a]
  OBVIOUS
<1>10. PICK u, e : u = Debited(s, i.new) /\ e = Debited(seen[2], i.new)
  OBVIOUS
<1>11. PICK all : all = <<Writes(SpendBalance(i.new), m), Writes(Surface(s.surface), v),
                          Writes(Spend(i.spend), u), Writes(SpendDecision(d), e)>>
  OBVIOUS
<1>12. SpendBalancePuts(i, seen) = all
  BY <1>1, <1>8, <1>9, <1>10, <1>11 DEF SpendBalancePuts
<1>13. /\ Len(all) = 4 /\ all[1].key = SpendBalance(i.new) /\ all[1].value = m
       /\ all[2].key = Surface(s.surface) /\ all[2].value = v
       /\ all[3].key = Spend(i.spend) /\ all[3].value = u
       /\ all[4].key = SpendDecision(d) /\ all[4].value = e
  BY <1>11, FourPutsOf
<1>14. /\ m.decision_id = d /\ m.surface = s.surface
       /\ m.amount_cents = a /\ m.currency = s.currency
  BY <1>9
<1>15. v.balance_cents = f.balance_cents - a
  BY <1>7, <1>9 DEF SurfaceRecord
<1>16. u.receipt_ids = s.receipt_ids /\ u.balance_moved = TRUE
  BY <1>2, <1>10 DEF IsSpend, SpendRecord, Debited
<1>17. PlanSpendBalance(st, i, all)
  <2>1. st[Spend(i.spend)] = s /\ CitedSpendDecision(i, s) = d /\ st[Surface(s.surface)] = f
    BY <1>1, <1>2, <1>5
  <2>2. /\ s # Absent /\ MayDebit(s) /\ d \in Pool["value-spend-decision"]
        /\ st[SpendDecision(d)] # Absent /\ st[SpendDecision(d)].spend = i.spend
        /\ st[SpendDecision(d)].decision = "approved"
        /\ ~Denied(f, i) /\ EnoughFor(s, f)
    BY <1>2, <1>5, <1>6
  <2>3. /\ all[1].value.decision_id = d /\ all[1].value.surface = s.surface
        /\ all[1].value.amount_cents = s.amount_cents /\ all[1].value.currency = s.currency
        /\ all[2].value.balance_cents = f.balance_cents - s.amount_cents
        /\ all[3].value.receipt_ids = s.receipt_ids /\ all[3].value.balance_moved = TRUE
    BY <1>8, <1>13, <1>14, <1>15, <1>16
  <2>4. /\ Len(all) = 4
        /\ all[1].key = SpendBalance(i.new) /\ all[2].key = Surface(s.surface)
        /\ all[3].key = Spend(i.spend) /\ all[4].key = SpendDecision(d)
    BY <1>13
  <2>5. QED
    BY <2>1, <2>2, <2>3, <2>4 DEF PlanSpendBalance
<1>18. Plan(st, i, all)
  BY <1>1, <1>17 DEF Plan, SurfaceOps
<1>19. QED
  BY <1>1, <1>12, <1>18

-----------------------------------------------------------------------------
(* Every step of a request that is alone leaves the store as the next      *)
(* state of that request needs it.                                         *)

(* A worker that read one more record: it refuses, puts, or reads on.      *)
LEMMA Answered ==
  ASSUME Alone, IInv, IInv', AInv, NEW r \in Requests, Busy(r),
         NEW x, x = request[r], x.puts = <<>>, NEW seen, NEW puts,
         NEW y, request' = [request EXCEPT ![r] = y],
         UNCHANGED <<kv, crashes, declared, scene>>,
         \/ y = Idle
         \/ y = [x EXCEPT !.seen = <<>>, !.puts = puts] /\ Plan(kv, x.input, puts)
         \/ y = [x EXCEPT !.seen = seen] /\ SeenNow(kv, x.input, seen)
  PROVE  AInv'
<1>1. x = [input |-> x.input, seen |-> x.seen, puts |-> x.puts]
  BY DEF IInv, RequestsFit, RequestFits
<1>2. CASE y = Idle
  BY <1>2, Served
<1>3. CASE y = [x EXCEPT !.seen = <<>>, !.puts = puts] /\ Plan(kv, x.input, puts)
  <2>1. y = [input |-> x.input, seen |-> <<>>, puts |-> puts]
    BY <1>1, <1>3, RequestChanged
  <2>2. QED
    BY <1>3, <2>1, Served
<1>4. CASE y = [x EXCEPT !.seen = seen] /\ SeenNow(kv, x.input, seen)
  <2>1. y = [input |-> x.input, seen |-> seen, puts |-> x.puts]
    BY <1>1, <1>4, RequestChanged
  <2>2. QED
    BY <1>4, <2>1, Served
<1>5. QED
  BY <1>2, <1>3, <1>4

(* A PATCH.                                                                 *)
LEMMA PatchSettles ==
  ASSUME Alone, IInv, IInv', AInv, NEW r \in Requests, Patch(r)
  PROVE  AInv'
<1>1. PICK x : x = request[r]
  OBVIOUS
<1>2. PICK seen : seen = Append(x.seen, kv[WantsSurface(x.input, x.seen)])
  OBVIOUS
<1>3. PICK puts : puts = PatchPuts(x.input, seen)
  OBVIOUS
<1>4. PICK y : y = IF RefusesSurface(x.input, seen) THEN Idle
                   ELSE IF WantsSurface(x.input, seen) = None
                        THEN [x EXCEPT !.seen = <<>>, !.puts = puts]
                        ELSE [x EXCEPT !.seen = seen]
  OBVIOUS
<1>5. /\ Busy(r) /\ x.input.op = "patch" /\ x.puts = <<>>
      /\ request' = [request EXCEPT ![r] = y]
      /\ UNCHANGED <<kv, crashes, declared, scene>>
  BY <1>1, <1>2, <1>3, <1>4 DEF Patch, Serve
<1>6. StoreFits(bounds, kv) /\ RequestFits(bounds, kv, x)
  BY <1>1, <1>5 DEF IInv, RequestsFit
<1>7. Opens(kv, x.input) /\ SeenNow(kv, x.input, x.seen)
  BY <1>1, <1>5 DEF AInv, Settles, Busy
<1>8. CASE RefusesSurface(x.input, seen)
  <2>1. y = Idle
    BY <1>4, <1>8
  <2>2. QED
    BY <1>1, <1>5, <2>1, Answered
<1>9. CASE ~RefusesSurface(x.input, seen) /\ WantsSurface(x.input, seen) = None
  <2>1. Plan(kv, x.input, puts)
    BY <1>2, <1>3, <1>5, <1>6, <1>7, <1>9, PatchPlan
  <2>2. y = [x EXCEPT !.seen = <<>>, !.puts = puts]
    BY <1>4, <1>9
  <2>3. QED
    BY <1>1, <1>5, <2>1, <2>2, Answered
<1>10. CASE ~RefusesSurface(x.input, seen) /\ WantsSurface(x.input, seen) # None
  <2>1. SeenNow(kv, x.input, seen)
    BY <1>5 DEF SeenNow
  <2>2. y = [x EXCEPT !.seen = seen]
    BY <1>4, <1>10
  <2>3. QED
    BY <1>1, <1>5, <2>1, <2>2, Answered
<1>11. QED
  BY <1>8, <1>9, <1>10

(* A status change.                                                         *)
LEMMA SurfaceStatusSettles ==
  ASSUME Alone, IInv, IInv', AInv, NEW r \in Requests, SurfaceStatus(r)
  PROVE  AInv'
<1>1. PICK x : x = request[r]
  OBVIOUS
<1>2. PICK seen : seen = Append(x.seen, kv[WantsSurface(x.input, x.seen)])
  OBVIOUS
<1>3. PICK puts : puts = StatusPuts(x.input, seen)
  OBVIOUS
<1>4. PICK y : y = IF RefusesSurface(x.input, seen) THEN Idle
                   ELSE IF WantsSurface(x.input, seen) = None
                        THEN [x EXCEPT !.seen = <<>>, !.puts = puts]
                        ELSE [x EXCEPT !.seen = seen]
  OBVIOUS
<1>5. /\ Busy(r) /\ x.input.op = "surface-status" /\ x.puts = <<>>
      /\ request' = [request EXCEPT ![r] = y]
      /\ UNCHANGED <<kv, crashes, declared, scene>>
  BY <1>1, <1>2, <1>3, <1>4 DEF SurfaceStatus, Serve
<1>6. StoreFits(bounds, kv) /\ RequestFits(bounds, kv, x)
  BY <1>1, <1>5 DEF IInv, RequestsFit
<1>7. Opens(kv, x.input) /\ SeenNow(kv, x.input, x.seen)
  BY <1>1, <1>5 DEF AInv, Settles, Busy
<1>8. CASE RefusesSurface(x.input, seen)
  <2>1. y = Idle
    BY <1>4, <1>8
  <2>2. QED
    BY <1>1, <1>5, <2>1, Answered
<1>9. CASE ~RefusesSurface(x.input, seen) /\ WantsSurface(x.input, seen) = None
  <2>1. Plan(kv, x.input, puts)
    BY <1>2, <1>3, <1>5, <1>6, <1>7, <1>9, SurfaceStatusPlan
  <2>2. y = [x EXCEPT !.seen = <<>>, !.puts = puts]
    BY <1>4, <1>9
  <2>3. QED
    BY <1>1, <1>5, <2>1, <2>2, Answered
<1>10. CASE ~RefusesSurface(x.input, seen) /\ WantsSurface(x.input, seen) # None
  <2>1. SeenNow(kv, x.input, seen)
    BY <1>5 DEF SeenNow
  <2>2. y = [x EXCEPT !.seen = seen]
    BY <1>4, <1>10
  <2>3. QED
    BY <1>1, <1>5, <2>1, <2>2, Answered
<1>11. QED
  BY <1>8, <1>9, <1>10

(* New limits.                                                              *)
LEMMA LimitSettles ==
  ASSUME Alone, IInv, IInv', AInv, NEW r \in Requests, Limit(r)
  PROVE  AInv'
<1>1. PICK x : x = request[r]
  OBVIOUS
<1>2. PICK seen : seen = Append(x.seen, kv[WantsSurface(x.input, x.seen)])
  OBVIOUS
<1>3. PICK puts : puts = LimitPuts(x.input, seen)
  OBVIOUS
<1>4. PICK y : y = IF RefusesSurface(x.input, seen) THEN Idle
                   ELSE IF WantsSurface(x.input, seen) = None
                        THEN [x EXCEPT !.seen = <<>>, !.puts = puts]
                        ELSE [x EXCEPT !.seen = seen]
  OBVIOUS
<1>5. /\ Busy(r) /\ x.input.op = "limit" /\ x.puts = <<>>
      /\ request' = [request EXCEPT ![r] = y]
      /\ UNCHANGED <<kv, crashes, declared, scene>>
  BY <1>1, <1>2, <1>3, <1>4 DEF Limit, Serve
<1>6. StoreFits(bounds, kv) /\ RequestFits(bounds, kv, x)
  BY <1>1, <1>5 DEF IInv, RequestsFit
<1>7. Opens(kv, x.input) /\ SeenNow(kv, x.input, x.seen)
  BY <1>1, <1>5 DEF AInv, Settles, Busy
<1>8. CASE RefusesSurface(x.input, seen)
  <2>1. y = Idle
    BY <1>4, <1>8
  <2>2. QED
    BY <1>1, <1>5, <2>1, Answered
<1>9. CASE ~RefusesSurface(x.input, seen) /\ WantsSurface(x.input, seen) = None
  <2>1. Plan(kv, x.input, puts)
    BY <1>2, <1>3, <1>5, <1>6, <1>7, <1>9, LimitPlan
  <2>2. y = [x EXCEPT !.seen = <<>>, !.puts = puts]
    BY <1>4, <1>9
  <2>3. QED
    BY <1>1, <1>5, <2>1, <2>2, Answered
<1>10. CASE ~RefusesSurface(x.input, seen) /\ WantsSurface(x.input, seen) # None
  <2>1. SeenNow(kv, x.input, seen)
    BY <1>5 DEF SeenNow
  <2>2. y = [x EXCEPT !.seen = seen]
    BY <1>4, <1>10
  <2>3. QED
    BY <1>1, <1>5, <2>1, <2>2, Answered
<1>11. QED
  BY <1>8, <1>9, <1>10

(* A topup.                                                                 *)
LEMMA RequestTopupSettles ==
  ASSUME Alone, IInv, IInv', AInv, NEW r \in Requests, RequestTopup(r)
  PROVE  AInv'
<1>1. PICK x : x = request[r]
  OBVIOUS
<1>2. PICK seen : seen = Append(x.seen, kv[TopupWants(x.input, x.seen)])
  OBVIOUS
<1>3. PICK puts : puts = TopupPuts(x.input, seen)
  OBVIOUS
<1>4. PICK y : y = IF TopupRefuses(x.input, seen) THEN Idle
                   ELSE IF TopupWants(x.input, seen) = None
                        THEN [x EXCEPT !.seen = <<>>, !.puts = puts]
                        ELSE [x EXCEPT !.seen = seen]
  OBVIOUS
<1>5. /\ Busy(r) /\ x.input.op = "topup" /\ x.puts = <<>>
      /\ request' = [request EXCEPT ![r] = y]
      /\ UNCHANGED <<kv, crashes, declared, scene>>
  BY <1>1, <1>2, <1>3, <1>4 DEF RequestTopup, Serve
<1>6. StoreFits(bounds, kv) /\ RequestFits(bounds, kv, x)
  BY <1>1, <1>5 DEF IInv, RequestsFit
<1>7. Opens(kv, x.input) /\ SeenNow(kv, x.input, x.seen)
  BY <1>1, <1>5 DEF AInv, Settles, Busy
<1>8. CASE TopupRefuses(x.input, seen)
  <2>1. y = Idle
    BY <1>4, <1>8
  <2>2. QED
    BY <1>1, <1>5, <2>1, Answered
<1>9. CASE ~TopupRefuses(x.input, seen) /\ TopupWants(x.input, seen) = None
  <2>1. Plan(kv, x.input, puts)
    BY <1>2, <1>3, <1>5, <1>6, <1>7, <1>9, RequestTopupPlan
  <2>2. y = [x EXCEPT !.seen = <<>>, !.puts = puts]
    BY <1>4, <1>9
  <2>3. QED
    BY <1>1, <1>5, <2>1, <2>2, Answered
<1>10. CASE ~TopupRefuses(x.input, seen) /\ TopupWants(x.input, seen) # None
  <2>1. SeenNow(kv, x.input, seen)
    BY <1>5 DEF SeenNow
  <2>2. y = [x EXCEPT !.seen = seen]
    BY <1>4, <1>10
  <2>3. QED
    BY <1>1, <1>5, <2>1, <2>2, Answered
<1>11. QED
  BY <1>8, <1>9, <1>10

(* A spend.                                                                 *)
LEMMA RequestSpendSettles ==
  ASSUME Alone, IInv, IInv', AInv, NEW r \in Requests, RequestSpend(r)
  PROVE  AInv'
<1>1. PICK x : x = request[r]
  OBVIOUS
<1>2. PICK seen : seen = Append(x.seen, kv[WantsSurface(x.input, x.seen)])
  OBVIOUS
<1>3. PICK puts : puts = SpendPuts(x.input, seen)
  OBVIOUS
<1>4. PICK y : y = IF SpendRefuses(x.input, seen) THEN Idle
                   ELSE IF WantsSurface(x.input, seen) = None
                        THEN [x EXCEPT !.seen = <<>>, !.puts = puts]
                        ELSE [x EXCEPT !.seen = seen]
  OBVIOUS
<1>5. /\ Busy(r) /\ x.input.op = "spend" /\ x.puts = <<>>
      /\ request' = [request EXCEPT ![r] = y]
      /\ UNCHANGED <<kv, crashes, declared, scene>>
  BY <1>1, <1>2, <1>3, <1>4 DEF RequestSpend, Serve
<1>6. StoreFits(bounds, kv) /\ RequestFits(bounds, kv, x)
  BY <1>1, <1>5 DEF IInv, RequestsFit
<1>7. Opens(kv, x.input) /\ SeenNow(kv, x.input, x.seen)
  BY <1>1, <1>5 DEF AInv, Settles, Busy
<1>8. CASE SpendRefuses(x.input, seen)
  <2>1. y = Idle
    BY <1>4, <1>8
  <2>2. QED
    BY <1>1, <1>5, <2>1, Answered
<1>9. CASE ~SpendRefuses(x.input, seen) /\ WantsSurface(x.input, seen) = None
  <2>1. Plan(kv, x.input, puts)
    BY <1>2, <1>3, <1>5, <1>6, <1>7, <1>9, RequestSpendPlan
  <2>2. y = [x EXCEPT !.seen = <<>>, !.puts = puts]
    BY <1>4, <1>9
  <2>3. QED
    BY <1>1, <1>5, <2>1, <2>2, Answered
<1>10. CASE ~SpendRefuses(x.input, seen) /\ WantsSurface(x.input, seen) # None
  <2>1. SeenNow(kv, x.input, seen)
    BY <1>5 DEF SeenNow
  <2>2. y = [x EXCEPT !.seen = seen]
    BY <1>4, <1>10
  <2>3. QED
    BY <1>1, <1>5, <2>1, <2>2, Answered
<1>11. QED
  BY <1>8, <1>9, <1>10

(* A limit check.                                                           *)
LEMMA CheckLimitSettles ==
  ASSUME Alone, IInv, IInv', AInv, NEW r \in Requests, CheckLimit(r)
  PROVE  AInv'
<1>1. PICK x : x = request[r]
  OBVIOUS
<1>2. PICK seen : seen = Append(x.seen, kv[WantsSurface(x.input, x.seen)])
  OBVIOUS
<1>3. PICK puts : puts = LimitCheckPuts(x.input, seen)
  OBVIOUS
<1>4. PICK y : y = IF SpendRefuses(x.input, seen) THEN Idle
                   ELSE IF WantsSurface(x.input, seen) = None
                        THEN [x EXCEPT !.seen = <<>>, !.puts = puts]
                        ELSE [x EXCEPT !.seen = seen]
  OBVIOUS
<1>5. /\ Busy(r) /\ x.input.op = "limit-check" /\ x.puts = <<>>
      /\ request' = [request EXCEPT ![r] = y]
      /\ UNCHANGED <<kv, crashes, declared, scene>>
  BY <1>1, <1>2, <1>3, <1>4 DEF CheckLimit, Serve
<1>6. StoreFits(bounds, kv) /\ RequestFits(bounds, kv, x)
  BY <1>1, <1>5 DEF IInv, RequestsFit
<1>7. Opens(kv, x.input) /\ SeenNow(kv, x.input, x.seen)
  BY <1>1, <1>5 DEF AInv, Settles, Busy
<1>8. CASE SpendRefuses(x.input, seen)
  <2>1. y = Idle
    BY <1>4, <1>8
  <2>2. QED
    BY <1>1, <1>5, <2>1, Answered
<1>9. CASE ~SpendRefuses(x.input, seen) /\ WantsSurface(x.input, seen) = None
  <2>1. Plan(kv, x.input, puts)
    BY <1>2, <1>3, <1>5, <1>6, <1>7, <1>9, CheckLimitPlan
  <2>2. y = [x EXCEPT !.seen = <<>>, !.puts = puts]
    BY <1>4, <1>9
  <2>3. QED
    BY <1>1, <1>5, <2>1, <2>2, Answered
<1>10. CASE ~SpendRefuses(x.input, seen) /\ WantsSurface(x.input, seen) # None
  <2>1. SeenNow(kv, x.input, seen)
    BY <1>5 DEF SeenNow
  <2>2. y = [x EXCEPT !.seen = seen]
    BY <1>4, <1>10
  <2>3. QED
    BY <1>1, <1>5, <2>1, <2>2, Answered
<1>11. QED
  BY <1>8, <1>9, <1>10

(* A receipt.                                                               *)
LEMMA AttachReceiptSettles ==
  ASSUME Alone, IInv, IInv', AInv, NEW r \in Requests, AttachReceipt(r)
  PROVE  AInv'
<1>1. PICK x : x = request[r]
  OBVIOUS
<1>2. PICK seen : seen = Append(x.seen, kv[WantsSpend(x.input, x.seen)])
  OBVIOUS
<1>3. PICK puts : puts = ReceiptPuts(x.input, seen)
  OBVIOUS
<1>4. PICK y : y = IF NotCompleted(x.input, seen) THEN Idle
                   ELSE IF WantsSpend(x.input, seen) = None
                        THEN [x EXCEPT !.seen = <<>>, !.puts = puts]
                        ELSE [x EXCEPT !.seen = seen]
  OBVIOUS
<1>5. /\ Busy(r) /\ x.input.op = "receipt" /\ x.puts = <<>>
      /\ request' = [request EXCEPT ![r] = y]
      /\ UNCHANGED <<kv, crashes, declared, scene>>
  BY <1>1, <1>2, <1>3, <1>4 DEF AttachReceipt, Serve
<1>6. StoreFits(bounds, kv) /\ RequestFits(bounds, kv, x)
  BY <1>1, <1>5 DEF IInv, RequestsFit
<1>7. Opens(kv, x.input) /\ SeenNow(kv, x.input, x.seen)
  BY <1>1, <1>5 DEF AInv, Settles, Busy
<1>8. CASE NotCompleted(x.input, seen)
  <2>1. y = Idle
    BY <1>4, <1>8
  <2>2. QED
    BY <1>1, <1>5, <2>1, Answered
<1>9. CASE ~NotCompleted(x.input, seen) /\ WantsSpend(x.input, seen) = None
  <2>1. Plan(kv, x.input, puts)
    BY <1>2, <1>3, <1>5, <1>6, <1>7, <1>9, AttachReceiptPlan
  <2>2. y = [x EXCEPT !.seen = <<>>, !.puts = puts]
    BY <1>4, <1>9
  <2>3. QED
    BY <1>1, <1>5, <2>1, <2>2, Answered
<1>10. CASE ~NotCompleted(x.input, seen) /\ WantsSpend(x.input, seen) # None
  <2>1. SeenNow(kv, x.input, seen)
    BY <1>5 DEF SeenNow
  <2>2. y = [x EXCEPT !.seen = seen]
    BY <1>4, <1>10
  <2>3. QED
    BY <1>1, <1>5, <2>1, <2>2, Answered
<1>11. QED
  BY <1>8, <1>9, <1>10

(* A refund.                                                                *)
LEMMA RequestRefundSettles ==
  ASSUME Alone, IInv, IInv', AInv, NEW r \in Requests, RequestRefund(r)
  PROVE  AInv'
<1>1. PICK x : x = request[r]
  OBVIOUS
<1>2. PICK seen : seen = Append(x.seen, kv[WantsSpend(x.input, x.seen)])
  OBVIOUS
<1>3. PICK puts : puts = RefundPuts(x.input, seen)
  OBVIOUS
<1>4. PICK y : y = IF RefundRefuses(x.input, seen) THEN Idle
                   ELSE IF WantsSpend(x.input, seen) = None
                        THEN [x EXCEPT !.seen = <<>>, !.puts = puts]
                        ELSE [x EXCEPT !.seen = seen]
  OBVIOUS
<1>5. /\ Busy(r) /\ x.input.op = "refund" /\ x.puts = <<>>
      /\ request' = [request EXCEPT ![r] = y]
      /\ UNCHANGED <<kv, crashes, declared, scene>>
  BY <1>1, <1>2, <1>3, <1>4 DEF RequestRefund, Serve
<1>6. StoreFits(bounds, kv) /\ RequestFits(bounds, kv, x)
  BY <1>1, <1>5 DEF IInv, RequestsFit
<1>7. Opens(kv, x.input) /\ SeenNow(kv, x.input, x.seen)
  BY <1>1, <1>5 DEF AInv, Settles, Busy
<1>8. CASE RefundRefuses(x.input, seen)
  <2>1. y = Idle
    BY <1>4, <1>8
  <2>2. QED
    BY <1>1, <1>5, <2>1, Answered
<1>9. CASE ~RefundRefuses(x.input, seen) /\ WantsSpend(x.input, seen) = None
  <2>1. Plan(kv, x.input, puts)
    BY <1>2, <1>3, <1>5, <1>6, <1>7, <1>9, RequestRefundPlan
  <2>2. y = [x EXCEPT !.seen = <<>>, !.puts = puts]
    BY <1>4, <1>9
  <2>3. QED
    BY <1>1, <1>5, <2>1, <2>2, Answered
<1>10. CASE ~RefundRefuses(x.input, seen) /\ WantsSpend(x.input, seen) # None
  <2>1. SeenNow(kv, x.input, seen)
    BY <1>5 DEF SeenNow
  <2>2. y = [x EXCEPT !.seen = seen]
    BY <1>4, <1>10
  <2>3. QED
    BY <1>1, <1>5, <2>1, <2>2, Answered
<1>11. QED
  BY <1>8, <1>9, <1>10

(* A refund's decision.                                                     *)
LEMMA DecideRefundSettles ==
  ASSUME Alone, IInv, IInv', AInv, NEW r \in Requests, DecideRefund(r)
  PROVE  AInv'
<1>1. PICK x : x = request[r]
  OBVIOUS
<1>2. PICK seen : seen = Append(x.seen, kv[RefundDecisionWants(x.input, x.seen)])
  OBVIOUS
<1>3. PICK puts : puts = RefundDecisionPuts(x.input, seen)
  OBVIOUS
<1>4. PICK y : y = IF RefundDecisionRefuses(x.input, seen) THEN Idle
                   ELSE IF RefundDecisionWants(x.input, seen) = None
                        THEN [x EXCEPT !.seen = <<>>, !.puts = puts]
                        ELSE [x EXCEPT !.seen = seen]
  OBVIOUS
<1>5. /\ Busy(r) /\ x.input.op = "refund-decision" /\ x.puts = <<>>
      /\ request' = [request EXCEPT ![r] = y]
      /\ UNCHANGED <<kv, crashes, declared, scene>>
  BY <1>1, <1>2, <1>3, <1>4 DEF DecideRefund, Serve
<1>6. StoreFits(bounds, kv) /\ RequestFits(bounds, kv, x)
  BY <1>1, <1>5 DEF IInv, RequestsFit
<1>7. Opens(kv, x.input) /\ SeenNow(kv, x.input, x.seen)
  BY <1>1, <1>5 DEF AInv, Settles, Busy
<1>8. CASE RefundDecisionRefuses(x.input, seen)
  <2>1. y = Idle
    BY <1>4, <1>8
  <2>2. QED
    BY <1>1, <1>5, <2>1, Answered
<1>9. CASE ~RefundDecisionRefuses(x.input, seen) /\ RefundDecisionWants(x.input, seen) = None
  <2>1. Plan(kv, x.input, puts)
    BY <1>2, <1>3, <1>5, <1>6, <1>7, <1>9, DecideRefundPlan
  <2>2. y = [x EXCEPT !.seen = <<>>, !.puts = puts]
    BY <1>4, <1>9
  <2>3. QED
    BY <1>1, <1>5, <2>1, <2>2, Answered
<1>10. CASE ~RefundDecisionRefuses(x.input, seen) /\ RefundDecisionWants(x.input, seen) # None
  <2>1. SeenNow(kv, x.input, seen)
    BY <1>5 DEF SeenNow
  <2>2. y = [x EXCEPT !.seen = seen]
    BY <1>4, <1>10
  <2>3. QED
    BY <1>1, <1>5, <2>1, <2>2, Answered
<1>11. QED
  BY <1>8, <1>9, <1>10

(* A topup's decision.                                                      *)
LEMMA DecideTopupSettles ==
  ASSUME Alone, IInv, IInv', AInv, NEW r \in Requests, DecideTopup(r)
  PROVE  AInv'
<1>1. PICK x : x = request[r]
  OBVIOUS
<1>2. PICK seen : seen = Append(x.seen, kv[TopupDecisionWants(x.input, x.seen)])
  OBVIOUS
<1>3. PICK puts : puts = TopupDecisionPuts(x.input, seen)
  OBVIOUS
<1>4. PICK y : y = IF TopupDecisionRefuses(x.input, seen) THEN Idle
                   ELSE IF TopupDecisionWants(x.input, seen) = None
                        THEN [x EXCEPT !.seen = <<>>, !.puts = puts]
                        ELSE [x EXCEPT !.seen = seen]
  OBVIOUS
<1>5. /\ Busy(r) /\ x.input.op = "topup-decision" /\ x.puts = <<>>
      /\ request' = [request EXCEPT ![r] = y]
      /\ UNCHANGED <<kv, crashes, declared, scene>>
  BY <1>1, <1>2, <1>3, <1>4 DEF DecideTopup, Serve
<1>6. StoreFits(bounds, kv) /\ RequestFits(bounds, kv, x)
  BY <1>1, <1>5 DEF IInv, RequestsFit
<1>7. Opens(kv, x.input) /\ SeenNow(kv, x.input, x.seen)
  BY <1>1, <1>5 DEF AInv, Settles, Busy
<1>8. CASE TopupDecisionRefuses(x.input, seen)
  <2>1. y = Idle
    BY <1>4, <1>8
  <2>2. QED
    BY <1>1, <1>5, <2>1, Answered
<1>9. CASE ~TopupDecisionRefuses(x.input, seen) /\ TopupDecisionWants(x.input, seen) = None
  <2>1. Plan(kv, x.input, puts)
    BY <1>2, <1>3, <1>5, <1>6, <1>7, <1>9, DecideTopupPlan
  <2>2. y = [x EXCEPT !.seen = <<>>, !.puts = puts]
    BY <1>4, <1>9
  <2>3. QED
    BY <1>1, <1>5, <2>1, <2>2, Answered
<1>10. CASE ~TopupDecisionRefuses(x.input, seen) /\ TopupDecisionWants(x.input, seen) # None
  <2>1. DecisionSeen(kv, x.input, seen)
    BY <1>2, <1>5, <1>6, <1>7, <1>10, DecideTopupSeen
  <2>2. Len(seen) # 3
    BY <1>10 DEF TopupDecisionWants
  <2>3. Len(seen) \in 1..3
    BY <2>1 DEF DecisionSeen
  <2>4. \A q \in 1..3 : q # 3 => q <= 2
    OBVIOUS
  <2>5. Len(seen) <= 2
    BY <2>2, <2>3, <2>4
  <2>6. SeenNow(kv, x.input, seen)
    BY <1>5, <2>1, <2>5 DEF SeenNow, DecisionSeen
  <2>7. y = [x EXCEPT !.seen = seen]
    BY <1>4, <1>10
  <2>8. QED
    BY <1>1, <1>5, <2>6, <2>7, Answered
<1>11. QED
  BY <1>8, <1>9, <1>10

(* A movement.                                                              *)
LEMMA MoveBalanceSettles ==
  ASSUME Alone, IInv, IInv', AInv, NEW r \in Requests, MoveBalance(r)
  PROVE  AInv'
<1>1. PICK x : x = request[r]
  OBVIOUS
<1>2. PICK seen : seen = Append(x.seen, kv[BalanceWants(x.input, x.seen)])
  OBVIOUS
<1>3. PICK puts : puts = BalancePuts(x.input, seen)
  OBVIOUS
<1>4. PICK y : y = IF BalanceRefuses(x.input, seen) THEN Idle
                   ELSE IF BalanceWants(x.input, seen) = None
                        THEN [x EXCEPT !.seen = <<>>, !.puts = puts]
                        ELSE [x EXCEPT !.seen = seen]
  OBVIOUS
<1>5. /\ Busy(r) /\ x.input.op = "balance" /\ x.puts = <<>>
      /\ request' = [request EXCEPT ![r] = y]
      /\ UNCHANGED <<kv, crashes, declared, scene>>
  BY <1>1, <1>2, <1>3, <1>4 DEF MoveBalance, Serve
<1>6. StoreFits(bounds, kv) /\ RequestFits(bounds, kv, x)
  BY <1>1, <1>5 DEF IInv, RequestsFit
<1>7. Opens(kv, x.input) /\ SeenNow(kv, x.input, x.seen)
  BY <1>1, <1>5 DEF AInv, Settles, Busy
<1>8. CASE BalanceRefuses(x.input, seen)
  <2>1. y = Idle
    BY <1>4, <1>8
  <2>2. QED
    BY <1>1, <1>5, <2>1, Answered
<1>9. CASE ~BalanceRefuses(x.input, seen) /\ BalanceWants(x.input, seen) = None
  <2>1. Plan(kv, x.input, puts)
    BY <1>2, <1>3, <1>5, <1>6, <1>7, <1>9, MoveBalancePlan
  <2>2. y = [x EXCEPT !.seen = <<>>, !.puts = puts]
    BY <1>4, <1>9
  <2>3. QED
    BY <1>1, <1>5, <2>1, <2>2, Answered
<1>10. CASE ~BalanceRefuses(x.input, seen) /\ BalanceWants(x.input, seen) # None
  <2>1. MoveSeen(kv, x.input, seen)
    BY <1>2, <1>5, <1>6, <1>7, <1>10, MoveBalanceSeen
  <2>2. SeenNow(kv, x.input, seen)
    BY <1>5, <2>1 DEF SeenNow, MoveSeen
  <2>3. y = [x EXCEPT !.seen = seen]
    BY <1>4, <1>10
  <2>4. QED
    BY <1>1, <1>5, <2>2, <2>3, Answered
<1>11. QED
  BY <1>8, <1>9, <1>10

(* A spend's decision.                                                      *)
LEMMA DecideSpendSettles ==
  ASSUME Alone, IInv, IInv', AInv, NEW r \in Requests, DecideSpend(r)
  PROVE  AInv'
<1>1. PICK x : x = request[r]
  OBVIOUS
<1>2. PICK seen : seen = Append(x.seen, kv[SpendDecisionWants(x.input, x.seen)])
  OBVIOUS
<1>3. PICK puts : puts = SpendDecisionPuts(x.input, seen)
  OBVIOUS
<1>4. PICK y : y = IF SpendDecisionRefuses(x.input, seen) THEN Idle
                   ELSE IF SpendDecisionWants(x.input, seen) = None
                        THEN [x EXCEPT !.seen = <<>>, !.puts = puts]
                        ELSE [x EXCEPT !.seen = seen]
  OBVIOUS
<1>5. /\ Busy(r) /\ x.input.op = "spend-decision" /\ x.puts = <<>>
      /\ request' = [request EXCEPT ![r] = y]
      /\ UNCHANGED <<kv, crashes, declared, scene>>
  BY <1>1, <1>2, <1>3, <1>4 DEF DecideSpend, Serve
<1>6. StoreFits(bounds, kv) /\ RequestFits(bounds, kv, x)
  BY <1>1, <1>5 DEF IInv, RequestsFit
<1>7. Opens(kv, x.input) /\ SeenNow(kv, x.input, x.seen)
  BY <1>1, <1>5 DEF AInv, Settles, Busy
<1>8. CASE SpendDecisionRefuses(x.input, seen)
  <2>1. y = Idle
    BY <1>4, <1>8
  <2>2. QED
    BY <1>1, <1>5, <2>1, Answered
<1>9. CASE ~SpendDecisionRefuses(x.input, seen) /\ SpendDecisionWants(x.input, seen) = None
  <2>1. Plan(kv, x.input, puts)
    BY <1>2, <1>3, <1>5, <1>6, <1>7, <1>9, DecideSpendPlan
  <2>2. y = [x EXCEPT !.seen = <<>>, !.puts = puts]
    BY <1>4, <1>9
  <2>3. QED
    BY <1>1, <1>5, <2>1, <2>2, Answered
<1>10. CASE ~SpendDecisionRefuses(x.input, seen) /\ SpendDecisionWants(x.input, seen) # None
  <2>1. SpendDecisionSeen(kv, x.input, seen)
    BY <1>2, <1>5, <1>6, <1>7, <1>10, DecideSpendSeen
  <2>2. SeenNow(kv, x.input, seen)
    BY <1>5, <2>1 DEF SeenNow, SpendDecisionSeen
  <2>3. y = [x EXCEPT !.seen = seen]
    BY <1>4, <1>10
  <2>4. QED
    BY <1>1, <1>5, <2>2, <2>3, Answered
<1>11. QED
  BY <1>8, <1>9, <1>10

(* A debit.                                                                 *)
LEMMA DebitSpendSettles ==
  ASSUME Alone, IInv, IInv', AInv, NEW r \in Requests, DebitSpend(r)
  PROVE  AInv'
<1>1. PICK x : x = request[r]
  OBVIOUS
<1>2. PICK seen : seen = Append(x.seen, kv[SpendBalanceWants(x.input, x.seen)])
  OBVIOUS
<1>3. PICK puts : puts = SpendBalancePuts(x.input, seen)
  OBVIOUS
<1>4. PICK y : y = IF SpendBalanceRefuses(x.input, seen) THEN Idle
                   ELSE IF SpendBalanceWants(x.input, seen) = None
                        THEN [x EXCEPT !.seen = <<>>, !.puts = puts]
                        ELSE [x EXCEPT !.seen = seen]
  OBVIOUS
<1>5. /\ Busy(r) /\ x.input.op = "spend-balance" /\ x.puts = <<>>
      /\ request' = [request EXCEPT ![r] = y]
      /\ UNCHANGED <<kv, crashes, declared, scene>>
  BY <1>1, <1>2, <1>3, <1>4 DEF DebitSpend, Serve
<1>6. StoreFits(bounds, kv) /\ RequestFits(bounds, kv, x)
  BY <1>1, <1>5 DEF IInv, RequestsFit
<1>7. Opens(kv, x.input) /\ SeenNow(kv, x.input, x.seen)
  BY <1>1, <1>5 DEF AInv, Settles, Busy
<1>8. CASE SpendBalanceRefuses(x.input, seen)
  <2>1. y = Idle
    BY <1>4, <1>8
  <2>2. QED
    BY <1>1, <1>5, <2>1, Answered
<1>9. CASE ~SpendBalanceRefuses(x.input, seen) /\ SpendBalanceWants(x.input, seen) = None
  <2>1. Plan(kv, x.input, puts)
    BY <1>2, <1>3, <1>5, <1>6, <1>7, <1>9, DebitSpendPlan
  <2>2. y = [x EXCEPT !.seen = <<>>, !.puts = puts]
    BY <1>4, <1>9
  <2>3. QED
    BY <1>1, <1>5, <2>1, <2>2, Answered
<1>10. CASE ~SpendBalanceRefuses(x.input, seen) /\ SpendBalanceWants(x.input, seen) # None
  <2>1. DebitSeen(kv, x.input, seen)
    BY <1>2, <1>5, <1>6, <1>7, <1>10, DebitSpendSeen
  <2>2. SeenNow(kv, x.input, seen)
    BY <1>5, <2>1 DEF SeenNow, DebitSeen
  <2>3. y = [x EXCEPT !.seen = seen]
    BY <1>4, <1>10
  <2>4. QED
    BY <1>1, <1>5, <2>2, <2>3, Answered
<1>11. QED
  BY <1>8, <1>9, <1>10

-----------------------------------------------------------------------------
(* What a request asks when it comes in.                                   *)

(* What is asked for by an identifier just made, or by one that clients
   do not choose, is not there.                                            *)
LEMMA MintedAbsent ==
  ASSUME IInv, NEW kind \in Kinds, NEW id \in Minted(kind)
  PROVE  kv[<<kind, id>>] = Absent
<1>1. Unused(kind, id) /\ id \in Pool[kind]
  BY BoundsFit DEF Minted
<1>2. QED
  BY <1>1, Fresh

LEMMA NewAbsent ==
  ASSUME IInv, NEW kind \in Kinds, Unchosen(kind), NEW id \in NewIds(kind)
  PROVE  kv[<<kind, id>>] = Absent
<1>1. bounds.clients \intersect Pool[kind] = {}
  BY DEF Unchosen, bounds, IInv
<1>2. bounds.pool[kind] \subseteq Pool[kind]
  BY BoundsFit
<1>3. id \in Minted(kind)
  BY <1>1, <1>2 DEF NewIds
<1>4. QED
  BY <1>3, MintedAbsent

LEMMA NoneCited ==
  ASSUME IInv, Uncited, NEW kind, NEW d \in Cited(kind) \union {None}
  PROVE  d = None
<1>1. bounds.cited = {}
  BY DEF Uncited, bounds, IInv
<1>2. QED
  BY <1>1 DEF Cited

(* Most requests ask nothing of the store.                                 *)
LEMMA OpensAnywhere ==
  ASSUME NEW st, NEW i,
         i.op \in {"register", "patch", "surface-status", "limit", "limit-check",
                   "refund", "refund-decision"}
  PROVE  Opens(st, i)
BY DEF Opens

(* A registration starts to put at once.                                   *)
LEMMA ReceiveRegisterSettles ==
  ASSUME Alone, IInv, IInv', AInv, NEW r \in Requests, ReceiveRegister(r)
  PROVE  AInv'
<1>1. PICK by, s, v :
        /\ by \in Identities /\ s \in NewIds("value-surface")
        /\ Receive(r, [op |-> "register", identity_id |-> by, new |-> s],
                   <<Writes(Surface(s), v)>>)
  BY DEF ReceiveRegister
<1>2. s \in SurfaceIds
  BY <1>1, BoundsFit DEF NewIds, Minted, SurfaceIds, Kinds
<1>3. PICK i, all : /\ i = [op |-> "register", identity_id |-> by, new |-> s]
                    /\ all = <<Writes(Surface(s), v)>>
  OBVIOUS
<1>4. PICK y : y = [input |-> i, seen |-> <<>>, puts |-> all]
  OBVIOUS
<1>5. /\ request' = [request EXCEPT ![r] = y] /\ ~Busy(r)
      /\ kv' = kv /\ scene' = scene /\ declared' = declared /\ crashes' = crashes
  BY <1>1, <1>3, <1>4 DEF Receive
<1>6. bounds' = bounds
  BY <1>5 DEF bounds
<1>7. Sound(kv, declared, crashes)
  BY <1>5 DEF AInv, Settles, Busy
<1>8. y # Idle /\ y.input = i /\ y.puts = all
  BY <1>4 DEF Alone
<1>9. RequestFits(bounds, kv, y)
  <2>1. request'[r] = y
    BY <1>5 DEF IInv
  <2>2. RequestFits(bounds', kv', y)
    BY <1>8, <2>1 DEF IInv, RequestsFit, Busy
  <2>3. QED
    BY <1>5, <1>6, <2>2
<1>10. i.op = "register"
  BY <1>3
<1>11. Plan(kv, i, all)
  <2>1. Len(all) = 1 /\ all[1].key = Surface(s)
    BY <1>3, OnePutOf
  <2>2. PlanSurface(kv, i, all)
    BY <1>2, <1>10, <2>1 DEF PlanSurface, Declares
  <2>3. QED
    BY <1>10, <2>2 DEF Plan, SurfaceOps
<1>12. Opens(kv, i)
  BY <1>10, OpensAnywhere
<1>13. StoreFits(bounds, kv)
  BY DEF IInv
<1>14. Settles(bounds, kv, declared, crashes, y)
  BY <1>7, <1>8, <1>9, <1>11, <1>12, <1>13, Starting
<1>15. QED
  BY <1>5, <1>6, <1>14, AloneSettles

(* A request that only reads at first, where it asks nothing.              *)
LEMMA ReceivedAnywhere ==
  ASSUME Alone, IInv, AInv, NEW r \in Requests,
         \E input : /\ Receive(r, input, <<>>)
                    /\ input.op \in {"patch", "surface-status", "limit", "limit-check",
                                     "refund", "refund-decision"}
  PROVE  AInv'
<1>1. PICK input : /\ Receive(r, input, <<>>)
                   /\ input.op \in {"patch", "surface-status", "limit", "limit-check",
                                    "refund", "refund-decision"}
  OBVIOUS
<1>2. Opens(kv, input)
  BY <1>1, OpensAnywhere
<1>3. QED
  BY <1>1, <1>2, Received

(* A PATCH, a status change and new limits.                                *)
LEMMA ReceivePatchSettles ==
  ASSUME Alone, IInv, AInv, NEW r \in Requests, ReceivePatch(r)
  PROVE  AInv'
<1>1. PICK by, s, status, d, input :
        /\ by \in Identities /\ s \in SurfaceIds
        /\ status \in Statuses \union {None}
        /\ d \in Declarations \union {None}
        /\ input = [op |-> "patch", identity_id |-> by, new |-> None,
                    surface |-> s, status |-> status, balance_cents |-> d]
        /\ Receive(r, input, <<>>)
  BY DEF ReceivePatch
<1>2. input.op = "patch"
  BY <1>1
<1>3. QED
  BY <1>1, <1>2, ReceivedAnywhere

LEMMA ReceiveStatusSettles ==
  ASSUME Alone, IInv, AInv, NEW r \in Requests, ReceiveStatus(r)
  PROVE  AInv'
<1>1. PICK by, s, status, input :
        /\ by \in Identities /\ s \in SurfaceIds /\ status \in Statuses
        /\ input = [op |-> "surface-status", identity_id |-> by, new |-> None,
                    surface |-> s, status |-> status]
        /\ Receive(r, input, <<>>)
  BY DEF ReceiveStatus
<1>2. input.op = "surface-status"
  BY <1>1
<1>3. QED
  BY <1>1, <1>2, ReceivedAnywhere

LEMMA ReceiveLimitSettles ==
  ASSUME Alone, IInv, AInv, NEW r \in Requests, ReceiveLimit(r)
  PROVE  AInv'
<1>1. PICK by, s, limits, input :
        /\ by \in Identities /\ s \in SurfaceIds /\ limits \in LimitSettings
        /\ input = [op |-> "limit", identity_id |-> by, new |-> None,
                    surface |-> s, limits |-> limits]
        /\ Receive(r, input, <<>>)
  BY DEF ReceiveLimit
<1>2. input.op = "limit"
  BY <1>1
<1>3. QED
  BY <1>1, <1>2, ReceivedAnywhere

(* A limit check, a refund and its decision.                               *)
LEMMA ReceiveLimitCheckSettles ==
  ASSUME Alone, IInv, AInv, NEW r \in Requests, ReceiveLimitCheck(r)
  PROVE  AInv'
<1>1. PICK by, c, s, a, k, input :
        /\ by \in Identities /\ c \in Minted("value-limit-check")
        /\ s \in SurfaceIds /\ a \in SpendAmounts
        /\ k \in {"spend", "topup", "other"}
        /\ input = [op |-> "limit-check", identity_id |-> by, new |-> c,
                    surface |-> s, amount_cents |-> a, movement_kind |-> k]
        /\ Receive(r, input, <<>>)
  BY DEF ReceiveLimitCheck
<1>2. input.op = "limit-check"
  BY <1>1
<1>3. QED
  BY <1>1, <1>2, ReceivedAnywhere

LEMMA ReceiveRefundSettles ==
  ASSUME Alone, IInv, AInv, NEW r \in Requests, ReceiveRefund(r)
  PROVE  AInv'
<1>1. PICK by, s, f, a, c, input :
        /\ by \in Identities /\ s \in bounds.pool["value-spend"]
        /\ f \in NewIds("value-refund") /\ a \in SpendAmounts
        /\ c \in Currencies
        /\ input = [op |-> "refund", identity_id |-> by, new |-> f, spend |-> s,
                    amount_cents |-> a, currency |-> c]
        /\ Receive(r, input, <<>>)
  BY DEF ReceiveRefund
<1>2. input.op = "refund"
  BY <1>1
<1>3. QED
  BY <1>1, <1>2, ReceivedAnywhere

LEMMA ReceiveRefundDecisionSettles ==
  ASSUME Alone, IInv, AInv, NEW r \in Requests, ReceiveRefundDecision(r)
  PROVE  AInv'
<1>1. PICK by, f, d, v, input :
        /\ by \in Identities /\ f \in bounds.pool["value-refund"]
        /\ d \in Minted("value-refund-decision")
        /\ v \in {"approved", "blocked"}
        /\ input = [op |-> "refund-decision", identity_id |-> by, new |-> d,
                    refund |-> f, decision |-> v]
        /\ Receive(r, input, <<>>)
  BY DEF ReceiveRefundDecision
<1>2. input.op = "refund-decision"
  BY <1>1
<1>3. QED
  BY <1>1, <1>2, ReceivedAnywhere

(* A topup is asked for between two surfaces.                              *)
LEMMA ReceiveTopupSettles ==
  ASSUME Alone, IInv, AInv, NEW r \in Requests, ReceiveTopup(r)
  PROVE  AInv'
<1>1. PICK by, t, f, g, a, c, input :
        /\ by \in Identities /\ t \in NewIds("value-topup")
        /\ f \in SurfaceIds /\ g \in SurfaceIds /\ a \in TopupAmounts
        /\ c \in Currencies
        /\ f # g
        /\ input = [op |-> "topup", identity_id |-> by, new |-> t, from |-> f,
                    to |-> g, amount_cents |-> a, currency |-> c]
        /\ Receive(r, input, <<>>)
  BY DEF ReceiveTopup
<1>2. input.op = "topup"
  BY <1>1
<1>3. input.from # input.to
  BY <1>1
<1>4. Opens(kv, input)
  BY <1>2, <1>3 DEF Opens
<1>5. QED
  BY <1>1, <1>4, Received

(* Decisions get identifiers of their own.                                 *)
LEMMA ReceiveTopupDecisionSettles ==
  ASSUME Alone, IInv, AInv, NEW r \in Requests, ReceiveTopupDecision(r)
  PROVE  AInv'
<1>1. PICK by, t, d, v, input :
        /\ by \in Identities /\ t \in bounds.pool["value-topup"]
        /\ d \in Minted("value-topup-decision")
        /\ v \in {"approved", "blocked"}
        /\ input = [op |-> "topup-decision", identity_id |-> by, new |-> d,
                    topup |-> t, decision |-> v]
        /\ Receive(r, input, <<>>)
  BY DEF ReceiveTopupDecision
<1>2. input.op = "topup-decision"
  BY <1>1
<1>3. kv[TopupDecision(input.new)] = Absent
  <2>1. kv[<<"value-topup-decision", d>>] = Absent
    BY <1>1, MintedAbsent DEF Kinds
  <2>2. input.new = d
    BY <1>1
  <2>3. QED
    BY <2>1, <2>2 DEF TopupDecision
<1>4. Opens(kv, input)
  BY <1>2, <1>3 DEF Opens
<1>5. QED
  BY <1>1, <1>4, Received

LEMMA ReceiveSpendDecisionSettles ==
  ASSUME Alone, IInv, AInv, NEW r \in Requests, ReceiveSpendDecision(r)
  PROVE  AInv'
<1>1. PICK by, s, d, v, c, input :
        /\ by \in Identities /\ s \in bounds.pool["value-spend"]
        /\ d \in Minted("value-spend-decision")
        /\ v \in {"approved", "blocked"}
        /\ c \in bounds.pool["value-limit-check"] \union {None}
        /\ input = [op |-> "spend-decision", identity_id |-> by, new |-> d,
                    spend |-> s, decision |-> v, limit_check_id |-> c]
        /\ Receive(r, input, <<>>)
  BY DEF ReceiveSpendDecision
<1>2. input.op = "spend-decision"
  BY <1>1
<1>3. kv[SpendDecision(input.new)] = Absent
  <2>1. kv[<<"value-spend-decision", d>>] = Absent
    BY <1>1, MintedAbsent DEF Kinds
  <2>2. input.new = d
    BY <1>1
  <2>3. QED
    BY <2>1, <2>2 DEF SpendDecision
<1>4. Opens(kv, input)
  BY <1>2, <1>3 DEF Opens
<1>5. QED
  BY <1>1, <1>4, Received

(* What clients do not name is new.                                        *)
LEMMA ReceiveSpendSettles ==
  ASSUME Alone, IInv, AInv, NEW r \in Requests, ReceiveSpend(r)
  PROVE  AInv'
<1>1. PICK by, s, f, a, c, input :
        /\ by \in Identities /\ s \in NewIds("value-spend")
        /\ f \in SurfaceIds /\ a \in SpendAmounts /\ c \in Currencies
        /\ input = [op |-> "spend", identity_id |-> by, new |-> s, surface |-> f,
                    amount_cents |-> a, currency |-> c]
        /\ Receive(r, input, <<>>)
  BY DEF ReceiveSpend
<1>2. input.op = "spend"
  BY <1>1
<1>3. Unchosen("value-spend") => kv[Spend(input.new)] = Absent
  <2>1. Unchosen("value-spend") => kv[<<"value-spend", s>>] = Absent
    BY <1>1, NewAbsent DEF Kinds
  <2>2. input.new = s
    BY <1>1
  <2>3. QED
    BY <2>1, <2>2 DEF Spend
<1>4. Opens(kv, input)
  BY <1>2, <1>3 DEF Opens
<1>5. QED
  BY <1>1, <1>4, Received

LEMMA ReceiveReceiptSettles ==
  ASSUME Alone, IInv, AInv, NEW r \in Requests, ReceiveReceipt(r)
  PROVE  AInv'
<1>1. PICK by, s, p, input :
        /\ by \in Identities /\ s \in bounds.pool["value-spend"]
        /\ p \in NewIds("value-receipt")
        /\ input = [op |-> "receipt", identity_id |-> by, new |-> p, spend |-> s]
        /\ Receive(r, input, <<>>)
  BY DEF ReceiveReceipt
<1>2. input.op = "receipt"
  BY <1>1
<1>3. Unchosen("value-receipt") => kv[Receipt(input.new)] = Absent
  <2>1. Unchosen("value-receipt") => kv[<<"value-receipt", p>>] = Absent
    BY <1>1, NewAbsent DEF Kinds
  <2>2. input.new = p
    BY <1>1
  <2>3. QED
    BY <2>1, <2>2 DEF Receipt
<1>4. Opens(kv, input)
  BY <1>2, <1>3 DEF Opens
<1>5. QED
  BY <1>1, <1>4, Received

(* A movement and a debit act on the latest decision if none can be named. *)
LEMMA ReceiveBalanceSettles ==
  ASSUME Alone, IInv, AInv, NEW r \in Requests, ReceiveBalance(r)
  PROVE  AInv'
<1>1. PICK by, t, m, d, input :
        /\ by \in Identities /\ t \in bounds.pool["value-topup"]
        /\ m \in NewIds("value-balance")
        /\ d \in Cited("value-topup-decision") \union {None}
        /\ input = [op |-> "balance", identity_id |-> by, new |-> m,
                    topup |-> t, decision_id |-> d]
        /\ Receive(r, input, <<>>)
  BY DEF ReceiveBalance
<1>2. input.op = "balance"
  BY <1>1
<1>3. /\ Unchosen("value-balance") => kv[BalanceMove(input.new)] = Absent
      /\ Uncited => input.decision_id = None
  <2>1. Unchosen("value-balance") => kv[<<"value-balance", m>>] = Absent
    BY <1>1, NewAbsent DEF Kinds
  <2>2. Uncited => d = None
    BY <1>1, NoneCited
  <2>3. input.new = m /\ input.decision_id = d
    BY <1>1
  <2>4. QED
    BY <2>1, <2>2, <2>3 DEF BalanceMove
<1>4. Opens(kv, input)
  BY <1>2, <1>3 DEF Opens
<1>5. QED
  BY <1>1, <1>4, Received

LEMMA ReceiveSpendBalanceSettles ==
  ASSUME Alone, IInv, AInv, NEW r \in Requests, ReceiveSpendBalance(r)
  PROVE  AInv'
<1>1. PICK by, s, c, d, input :
        /\ by \in Identities /\ s \in bounds.pool["value-spend"]
        /\ c \in NewIds("value-spend-balance")
        /\ d \in Cited("value-spend-decision") \union {None}
        /\ input = [op |-> "spend-balance", identity_id |-> by, new |-> c,
                    spend |-> s, decision_id |-> d]
        /\ Receive(r, input, <<>>)
  BY DEF ReceiveSpendBalance
<1>2. input.op = "spend-balance"
  BY <1>1
<1>3. /\ Unnamed => kv[SpendBalance(input.new)] = Absent
      /\ Uncited => input.decision_id = None
  <2>1. Unchosen("value-spend-balance") => kv[<<"value-spend-balance", c>>] = Absent
    BY <1>1, NewAbsent DEF Kinds
  <2>2. Unnamed => Unchosen("value-spend-balance")
    BY DEF Unnamed, Unchosen
  <2>3. Uncited => d = None
    BY <1>1, NoneCited
  <2>4. input.new = c /\ input.decision_id = d
    BY <1>1
  <2>5. QED
    BY <2>1, <2>2, <2>3, <2>4 DEF SpendBalance
<1>4. Opens(kv, input)
  BY <1>2, <1>3 DEF Opens
<1>5. QED
  BY <1>1, <1>4, Received

-----------------------------------------------------------------------------
(* Alone, every request finds the store sound and leaves it so.            *)

(* The store is sound before the first request.                            *)
LEMMA InitSound ==
  ASSUME Init, IInv
  PROVE  Sound(kv, declared, 0)
<1>1. scene \in DOMAIN Bounds /\ kv = GivenStore(bounds) /\ declared = bounds.opening
  BY DEF Init, StoreInit, GivenStore
<1>2. ASSUME NEW key \in Keys, key[1] # "value-surface"
      PROVE  kv[key] = Absent
  <2>1. \A k \in DOMAIN bounds.given : k \in {Surface(s) : s \in SurfaceIds}
    BY <1>1, CirculationAssumption DEF bounds
  <2>2. key \notin DOMAIN bounds.given
    BY <1>2, <2>1, KindOf
  <2>3. QED
    BY <1>1, <2>2 DEF GivenStore
<1>3. \A t \in Pool["value-topup"] : kv[Topup(t)] = Absent
  BY <1>2, KeyOf, KindOf
<1>4. \A m \in Pool["value-balance"] : kv[BalanceMove(m)] = Absent
  BY <1>2, KeyOf, KindOf
<1>5. \A m \in Pool["value-spend-balance"] : kv[SpendBalance(m)] = Absent
  BY <1>2, KeyOf, KindOf
<1>6. \A s \in Pool["value-spend"] : kv[Spend(s)] = Absent
  BY <1>2, KeyOf, KindOf
<1>7. \A p \in Pool["value-receipt"] : kv[Receipt(p)] = Absent
  BY <1>2, KeyOf, KindOf
<1>8. Straight(kv) /\ TopupsMoveOnce(kv) /\ SpendsMoveOnce(kv) /\ Listed(kv)
  BY <1>3, <1>4, <1>5, <1>6, <1>7
  DEF Straight, TopupsMoveOnce, SpendsMoveOnce, Listed
<1>9. ASSUME BooksKept
      PROVE  Balanced(kv, declared, 0)
  <2>1. Countable /\ Accounted
    BY <1>9 DEF BooksKept
  <2>2. Owned(kv) = declared
    BY <1>1, <2>1 DEF Accounted, bounds
  <2>3. StoreFits(bounds, kv)
    BY DEF IInv
  <2>4. Owned(kv) \in Int /\ Largest \in Int
    BY <2>1, <2>3, BooksAreNumbers, LargestOf
  <2>5. Spent(kv) = 0
    <3>1. PICK f, S : f = Debits(kv) /\ S = Pool["value-spend-balance"]
      OBVIOUS
    <3>2. f \in [S -> Int]
      BY <2>3, <3>1, BooksTyped
    <3>3. \A c \in S : f[c] = 0
      BY <1>5, <3>1 DEF Debits
    <3>4. IsFiniteSet(S)
      BY <2>1, <3>1 DEF Countable
    <3>5. SumOver(f, S) = 0
      BY <3>2, <3>3, <3>4, SumOverZero
    <3>6. QED
      BY <3>1, <3>5 DEF Spent
  <2>6. PICK o, l : o = Owned(kv) /\ l = Largest
    OBVIOUS
  <2>7. 0 * l = 0
    BY <2>4, <2>6
  <2>8. o <= o /\ o + 0 >= o - 0 /\ o + 0 <= o + 0
    BY <2>4, <2>6
  <2>9. QED
    BY <2>2, <2>5, <2>6, <2>7, <2>8 DEF Balanced
<1>10. QED
  BY <1>8, <1>9 DEF Sound

LEMMA InitAInv ==
  ASSUME Alone, Init, IInv
  PROVE  AInv
<1>1. Sound(kv, declared, crashes)
  BY InitSound DEF Init, StoreInit
<1>2. \A r \in Requests : request[r] = Idle
  BY DEF Init, StoreInit
<1>3. QED
  BY <1>1, <1>2 DEF AInv, Settles

LEMMA NextAInv ==
  ASSUME Alone, IInv, IInv', AInv, [Next]_storeVars
  PROVE  AInv'
<1>1. CASE UNCHANGED storeVars
  <2>1. /\ kv' = kv /\ request' = request /\ crashes' = crashes
        /\ declared' = declared /\ scene' = scene
    BY <1>1 DEF storeVars
  <2>2. bounds' = bounds
    BY <2>1 DEF bounds
  <2>3. QED
    BY <2>1, <2>2 DEF AInv
<1>2. ASSUME NEW r \in Requests, SurfaceNext(r) PROVE AInv'
  BY <1>2, ReceiveRegisterSettles, ReceivePatchSettles, PatchSettles,
     ReceiveStatusSettles, SurfaceStatusSettles, ReceiveLimitSettles, LimitSettles
  DEF SurfaceNext
<1>3. ASSUME NEW r \in Requests, TopupNext(r) PROVE AInv'
  BY <1>3, ReceiveTopupSettles, RequestTopupSettles, ReceiveTopupDecisionSettles,
     DecideTopupSettles, ReceiveBalanceSettles, MoveBalanceSettles DEF TopupNext
<1>4. ASSUME NEW r \in Requests, SpendNext(r) PROVE AInv'
  BY <1>4, ReceiveSpendSettles, RequestSpendSettles, ReceiveLimitCheckSettles,
     CheckLimitSettles, ReceiveSpendDecisionSettles, DecideSpendSettles,
     ReceiveSpendBalanceSettles, DebitSpendSettles, ReceiveReceiptSettles,
     AttachReceiptSettles, ReceiveRefundSettles, RequestRefundSettles,
     ReceiveRefundDecisionSettles, DecideRefundSettles DEF SpendNext
<1>5. ASSUME NEW r \in Requests, Put(r) \/ Crash(r) PROVE AInv'
  BY <1>5, PutSettles, CrashSettles
<1>6. QED
  BY <1>1, <1>2, <1>3, <1>4, <1>5 DEF Next

(* While requests do not overlap, AInv holds besides IInv.                 *)
LEMMA SpecAInv ==
  Alone => (Spec => [](IInv /\ AInv))
<1>1. SUFFICES ASSUME Alone PROVE Spec => [](IInv /\ AInv)
  OBVIOUS
<1>2. Init => IInv /\ AInv
  BY <1>1, InitIInv, InitAInv
<1>3. IInv /\ AInv /\ [Next]_storeVars => IInv' /\ AInv'
  BY <1>1, NextIInv, NextAInv
<1>4. QED
  BY <1>2, <1>3, PTL DEF Spec

-----------------------------------------------------------------------------
(* What a put of a request that is alone does.                             *)

(* The next of what its plan puts, over what was there when it came.       *)
PutFrom(st0, all, k, i, p) ==
  /\ i \in Inputs /\ k \in 0..4 /\ k < Len(all)
  /\ StoreFits(bounds, st0) /\ Sound(st0, declared, crashes)
  /\ Plan(st0, i, all) /\ Planned(bounds, all)
  /\ PutSoFar(st0, all, k, kv)
  /\ p = all[k + 1] /\ p.key \in Keys
  /\ kv' = With(kv, p) /\ kv[p.key] = st0[p.key]

LEMMA PutOf ==
  ASSUME IInv, AInv, NEW r \in Requests, Put(r)
  PROVE  \E st0, all, k, p : PutFrom(st0, all, k, request[r].input, p)
<1>1. PICK b, st, dec, cut, x :
        b = bounds /\ st = kv /\ dec = declared /\ cut = crashes /\ x = request[r]
  OBVIOUS
<1>2. PICK p : p = x.puts[1]
  OBVIOUS
<1>3. RequestFits(b, st, x) /\ x.puts # <<>> /\ x # Idle
  BY <1>1 DEF IInv, RequestsFit, Put, Busy
<1>4. PICK S : x.puts \in Seq(S)
  BY <1>3 DEF RequestFits, IsSeq
<1>5. p = Head(x.puts)
  BY <1>2, <1>4
<1>6. kv' = With(st, p)
  BY <1>1, <1>5 DEF Put, PutRecord, With
<1>7. Underway(b, st, dec, cut, x)
  BY <1>1, <1>3 DEF AInv, Settles
<1>8. PICK st0, all, k : Partway(b, st, dec, cut, x, st0, all, k)
  BY <1>7 DEF Underway
<1>9. PICK i : i = x.input
  OBVIOUS
<1>10. /\ k \in 0..4
       /\ StoreFits(b, st0) /\ Sound(st0, dec, cut)
       /\ Plan(st0, i, all) /\ Planned(b, all)
       /\ PutSoFar(st0, all, k, st) /\ Rest(all, k, x.puts) /\ i \in Inputs
  BY <1>3, <1>8, <1>9 DEF Partway, RequestFits
<1>11. PICK n, m : n = Len(all) /\ m = Len(x.puts)
  OBVIOUS
<1>12. n \in 1..5 /\ m \in Nat /\ m >= 1 /\ m = n - k
  BY <1>3, <1>4, <1>10, <1>11, EmptySeq DEF Planned, Rest
<1>13. p = all[k + 1]
  BY <1>2, <1>10, <1>11, <1>12 DEF Rest
<1>14. k < n
  BY <1>10, <1>12
<1>15. p.key \in Keys /\ st[p.key] = st0[p.key]
  BY <1>10, <1>11, <1>13, <1>14, NextPut
<1>16. PutFrom(st0, all, k, i, p)
  BY <1>1, <1>6, <1>10, <1>11, <1>13, <1>14, <1>15 DEF PutFrom
<1>17. QED
  BY <1>1, <1>9, <1>16

(* What it changes is the record it puts.                                  *)
LEMMA PutChanges ==
  ASSUME IInv, NEW st0, NEW all, NEW k, NEW i, NEW p, PutFrom(st0, all, k, i, p),
         NEW key \in Keys, kv'[key] # kv[key]
  PROVE  p.key = key /\ kv'[key] = p.value /\ kv[key] = st0[key]
<1>1. DOMAIN kv = Keys
  BY DEF IInv, StoreFits
<1>2. kv' = With(kv, p) /\ kv[p.key] = st0[p.key]
  BY DEF PutFrom
<1>3. p.key = key
  BY <1>1, <1>2 DEF With
<1>4. QED
  BY <1>1, <1>2, <1>3 DEF With

(* A surface that is put is of the identity that asks, or registered.      *)
LEMMA OwnerPuts ==
  ASSUME NEW st0, NEW all, NEW k, NEW i, NEW p, PutFrom(st0, all, k, i, p),
         NEW s \in SurfaceIds, p.key = Surface(s)
  PROVE  i.identity_id = st0[Surface(s)].identity_id \/ i.op = "register"
<1>1. /\ i \in Inputs /\ k \in 0..4 /\ k < Len(all) /\ p = all[k + 1]
      /\ Plan(st0, i, all)
  BY DEF PutFrom
<1>2. p.key[1] = "value-surface" /\ p.key[2] = s
  BY KindOf
<1>3. PICK j : j = k + 1
  OBVIOUS
<1>4. /\ all[j].key[1] = "value-surface" /\ all[j].key[2] = s
      /\ j >= 1 /\ j \in 1..5
  BY <1>1, <1>2, <1>3
<1>5. Len(all) \in Nat => j \in 1..Len(all)
  BY <1>1, <1>3
<1>6. CASE i.op \in SurfaceOps
  <2>1. /\ Len(all) = 1
        /\ \E u \in SurfaceIds :
             /\ all[1].key = Surface(u)
             /\ i.op # "register" =>
                  st0[Surface(u)] # Absent /\ st0[Surface(u)].identity_id = i.identity_id
    BY <1>1, <1>6 DEF Plan, PlanSurface
  <2>2. PICK u \in SurfaceIds :
          /\ all[1].key = Surface(u)
          /\ i.op # "register" => st0[Surface(u)].identity_id = i.identity_id
    BY <2>1
  <2>3. \A q \in 1..1 : q = 1
    OBVIOUS
  <2>4. j = 1
    BY <1>5, <2>1, <2>3
  <2>5. u = s
    BY <1>4, <2>2, <2>4, KindOf
  <2>6. QED
    BY <2>2, <2>5
<1>7. CASE i.op = "balance"
  <2>1. PICK t : t = st0[Topup(i.topup)]
    OBVIOUS
  <2>2. /\ ~Denied(st0[Surface(t.from)], i) /\ ~Denied(st0[Surface(t.to)], i)
        /\ Len(all) = 5
        /\ all[1].key = BalanceMove(i.new) /\ all[2].key = Surface(t.from)
        /\ all[3].key = Surface(t.to) /\ all[4].key = Topup(i.topup)
        /\ all[5].key = TopupDecision(CitedTopupDecision(i, t))
    BY <1>1, <1>7, <2>1 DEF Plan, PlanBalance
  <2>3. /\ all[1].key[1] = "value-balance" /\ all[4].key[1] = "value-topup"
        /\ all[5].key[1] = "value-topup-decision"
        /\ all[2].key[2] = t.from /\ all[3].key[2] = t.to
    BY <2>2, KindOf
  <2>4. \A q \in 1..5 : q \in {1, 2, 3, 4, 5}
    OBVIOUS
  <2>5. j = 2 \/ j = 3
    BY <1>4, <2>3, <2>4
  <2>6. s = t.from \/ s = t.to
    BY <1>4, <2>3, <2>5
  <2>7. QED
    BY <2>2, <2>6 DEF Denied
<1>8. CASE i.op = "spend-balance"
  <2>1. PICK t : t = st0[Spend(i.spend)]
    OBVIOUS
  <2>2. /\ ~Denied(st0[Surface(t.surface)], i)
        /\ Len(all) = 4
        /\ all[1].key = SpendBalance(i.new) /\ all[2].key = Surface(t.surface)
        /\ all[3].key = Spend(i.spend)
        /\ all[4].key = SpendDecision(CitedSpendDecision(i, t))
    BY <1>1, <1>8, <2>1 DEF Plan, PlanSpendBalance
  <2>3. /\ all[1].key[1] = "value-spend-balance" /\ all[3].key[1] = "value-spend"
        /\ all[4].key[1] = "value-spend-decision"
        /\ all[2].key[2] = t.surface
    BY <2>2, KindOf
  <2>4. j \in 1..4
    BY <1>5, <2>2
  <2>5. \A q \in 1..4 : q \in {1, 2, 3, 4}
    OBVIOUS
  <2>6. j = 2
    BY <1>4, <2>3, <2>4, <2>5
  <2>7. s = t.surface
    BY <1>4, <2>3, <2>6
  <2>8. QED
    BY <2>2, <2>7 DEF Denied
<1>9. Touches(i.op, "value-surface")
  <2>1. Len(all) \in Nat
    BY DEF PutFrom, Planned
  <2>2. QED
    BY <1>1, <1>4, <1>5, <2>1, PlanTouches
<1>10. QED
  BY <1>6, <1>7, <1>8, <1>9 DEF Touches, SurfaceOps

(* The record of a movement is the first put of one, and of the currency
   both surfaces have.                                                     *)
LEMMA MoveKeepsCurrency ==
  ASSUME IInv, NEW st0, NEW all, NEW k, NEW i, NEW p, PutFrom(st0, all, k, i, p),
         NEW m \in Pool["value-balance"], p.key = BalanceMove(m)
  PROVE  /\ kv[Surface(p.value.from)].currency = p.value.currency
         /\ kv[Surface(p.value.to)].currency = p.value.currency
<1>1. /\ i \in Inputs /\ k \in 0..4 /\ k < Len(all) /\ p = all[k + 1]
      /\ Plan(st0, i, all) /\ StoreFits(bounds, st0) /\ PutSoFar(st0, all, k, kv)
  BY DEF PutFrom
<1>2. p.key[1] = "value-balance"
  BY KindOf
<1>3. PICK j : j = k + 1
  OBVIOUS
<1>4. all[j].key[1] = "value-balance" /\ j \in 1..5
  BY <1>1, <1>2, <1>3
<1>5. i.op = "balance"
  <2>1. Len(all) \in Nat
    BY DEF PutFrom, Planned
  <2>2. j \in 1..Len(all)
    BY <1>1, <1>3, <2>1
  <2>3. Touches(i.op, "value-balance")
    BY <1>1, <1>4, <2>2, PlanTouches
  <2>4. QED
    BY <2>3 DEF Touches
<1>6. PICK t, f, g : /\ t = st0[Topup(i.topup)] /\ f = st0[Surface(t.from)]
                     /\ g = st0[Surface(t.to)]
  OBVIOUS
<1>7. /\ t # Absent /\ Covers(f, t) /\ g.currency = t.currency
      /\ all[1].key = BalanceMove(i.new) /\ all[2].key = Surface(t.from)
      /\ all[3].key = Surface(t.to) /\ all[4].key = Topup(i.topup)
      /\ all[5].key = TopupDecision(CitedTopupDecision(i, t))
      /\ all[1].value.from = t.from /\ all[1].value.to = t.to
      /\ all[1].value.currency = t.currency
  BY <1>1, <1>5, <1>6 DEF Plan, PlanBalance
<1>8. /\ all[2].key[1] = "value-surface" /\ all[3].key[1] = "value-surface"
      /\ all[4].key[1] = "value-topup" /\ all[5].key[1] = "value-topup-decision"
  BY <1>7, KindOf
<1>9. \A q \in 1..5 : q \in {1, 2, 3, 4, 5}
  OBVIOUS
<1>10. j = 1
  BY <1>4, <1>8, <1>9
<1>11. k = 0 /\ p = all[1]
  BY <1>1, <1>3, <1>10
<1>12. \A key \in Keys : kv[key] = st0[key]
  BY <1>1, <1>11 DEF PutSoFar
<1>13. Surface(t.from) \in Keys /\ Surface(t.to) \in Keys
  <2>1. Topup(i.topup) \in Keys
    BY <1>1, <1>5, InputsOf, KeyOf
  <2>2. t \in TopupRecord
    BY <1>1, <1>6, <1>7, <2>1, KindOf DEF StoreFits, Fine, Shaped
  <2>3. QED
    BY <2>2, KeyOf DEF TopupRecord
<1>14. QED
  BY <1>6, <1>7, <1>11, <1>12, <1>13 DEF Covers

(* So is the record of a debit.                                            *)
LEMMA DebitKeepsCurrency ==
  ASSUME IInv, NEW st0, NEW all, NEW k, NEW i, NEW p, PutFrom(st0, all, k, i, p),
         NEW m \in Pool["value-spend-balance"], p.key = SpendBalance(m)
  PROVE  kv[Surface(p.value.surface)].currency = p.value.currency
<1>1. /\ i \in Inputs /\ k \in 0..4 /\ k < Len(all) /\ p = all[k + 1]
      /\ Plan(st0, i, all) /\ StoreFits(bounds, st0) /\ PutSoFar(st0, all, k, kv)
  BY DEF PutFrom
<1>2. p.key[1] = "value-spend-balance"
  BY KindOf
<1>3. PICK j : j = k + 1
  OBVIOUS
<1>4. Len(all) \in Nat
  BY DEF PutFrom, Planned
<1>5. all[j].key[1] = "value-spend-balance" /\ j \in 1..Len(all)
  BY <1>1, <1>2, <1>3, <1>4
<1>6. i.op = "spend-balance"
  <2>1. Touches(i.op, "value-spend-balance")
    BY <1>1, <1>5, PlanTouches
  <2>2. QED
    BY <2>1 DEF Touches
<1>7. PICK t, f : t = st0[Spend(i.spend)] /\ f = st0[Surface(t.surface)]
  OBVIOUS
<1>8. /\ t # Absent /\ EnoughFor(t, f)
      /\ Len(all) = 4
      /\ all[1].key = SpendBalance(i.new) /\ all[2].key = Surface(t.surface)
      /\ all[3].key = Spend(i.spend)
      /\ all[4].key = SpendDecision(CitedSpendDecision(i, t))
      /\ all[1].value.surface = t.surface /\ all[1].value.currency = t.currency
  BY <1>1, <1>6, <1>7 DEF Plan, PlanSpendBalance
<1>9. /\ all[2].key[1] = "value-surface" /\ all[3].key[1] = "value-spend"
      /\ all[4].key[1] = "value-spend-decision"
  BY <1>8, KindOf
<1>10. \A q \in 1..4 : q \in {1, 2, 3, 4}
  OBVIOUS
<1>11. j = 1
  BY <1>5, <1>8, <1>9, <1>10
<1>12. k = 0 /\ p = all[1]
  BY <1>1, <1>3, <1>11
<1>13. \A key \in Keys : kv[key] = st0[key]
  BY <1>1, <1>12 DEF PutSoFar
<1>14. Surface(t.surface) \in Keys
  <2>1. Spend(i.spend) \in Keys
    BY <1>1, <1>6, InputsOf, KeyOf
  <2>2. IsSpend(t)
    BY <1>1, <1>7, <1>8, <2>1, KindOf DEF StoreFits, Fine, Shaped
  <2>3. QED
    BY <2>2, KeyOf DEF IsSpend, SpendRecord
<1>15. QED
  BY <1>7, <1>8, <1>12, <1>13, <1>14 DEF EnoughFor

(* Only a put changes the store.                                           *)
LEMMA OnlyPuts ==
  ASSUME Next
  PROVE  kv' = kv \/ \E r \in Requests : Put(r)
<1>1. ASSUME NEW r \in Requests, SurfaceNext(r) PROVE kv' = kv
  BY <1>1 DEF SurfaceNext, ReceiveRegister, ReceivePatch, Patch, ReceiveStatus,
     SurfaceStatus, ReceiveLimit, Limit, Receive, Serve
<1>2. ASSUME NEW r \in Requests, TopupNext(r) PROVE kv' = kv
  BY <1>2 DEF TopupNext, ReceiveTopup, RequestTopup, ReceiveTopupDecision, DecideTopup,
     ReceiveBalance, MoveBalance, Receive, Serve
<1>3. ASSUME NEW r \in Requests, SpendNext(r) PROVE kv' = kv
  <2>1. CASE ReceiveSpend(r) \/ RequestSpend(r)
    BY <2>1 DEF ReceiveSpend, RequestSpend, Receive, Serve
  <2>2. CASE ReceiveLimitCheck(r) \/ CheckLimit(r)
    BY <2>2 DEF ReceiveLimitCheck, CheckLimit, Receive, Serve
  <2>3. CASE ReceiveSpendDecision(r) \/ DecideSpend(r)
    BY <2>3 DEF ReceiveSpendDecision, DecideSpend, Receive, Serve
  <2>4. CASE ReceiveSpendBalance(r) \/ DebitSpend(r)
    BY <2>4 DEF ReceiveSpendBalance, DebitSpend, Receive, Serve
  <2>5. CASE ReceiveReceipt(r) \/ AttachReceipt(r)
    BY <2>5 DEF ReceiveReceipt, AttachReceipt, Receive, Serve
  <2>6. CASE ReceiveRefund(r) \/ RequestRefund(r)
    BY <2>6 DEF ReceiveRefund, RequestRefund, Receive, Serve
  <2>7. CASE ReceiveRefundDecision(r) \/ DecideRefund(r)
    BY <2>7 DEF ReceiveRefundDecision, DecideRefund, Receive, Serve
  <2>8. QED
    BY <1>3, <2>1, <2>2, <2>3, <2>4, <2>5, <2>6, <2>7 DEF SpendNext
<1>4. ASSUME NEW r \in Requests, Crash(r) PROVE kv' = kv
  BY <1>4 DEF Crash
<1>5. QED
  BY <1>1, <1>2, <1>3, <1>4 DEF Next

(* Nobody spends another's value, and value keeps its currency, while      *)
(* requests do not overlap: whatever was stored before, and wherever       *)
(* requests are cut off, who changes a balance owns the surface or         *)
(* registers it anew, and a movement of value-balance.js or a debit of     *)
(* value-spend-balance.js is put in the currency of its surfaces.          *)
THEOREM CirculationPermitted ==
  Alone => (Spec => MovesPermitted)
<1>1. SUFFICES ASSUME Alone PROVE Spec => MovesPermitted
  OBVIOUS
<1>2. ASSUME IInv, AInv, [Next]_storeVars
      PROVE  [OnlyOwnersMove /\ CurrencyKept]_storeVars
  <2>1. SUFFICES ASSUME Next PROVE OnlyOwnersMove /\ CurrencyKept
    BY <1>2
  <2>2. ASSUME kv' = kv PROVE OnlyOwnersMove /\ CurrencyKept
    BY <2>2 DEF OnlyOwnersMove, CurrencyKept, Holds, BalanceAt, Surface
  <2>3. ASSUME NEW r \in Requests, Put(r) PROVE OnlyOwnersMove /\ CurrencyKept
    <3>1. PICK st0, all, k, i, p : i = request[r].input /\ PutFrom(st0, all, k, i, p)
      BY <1>2, <2>3, PutOf
    <3>2. ASSUME NEW q \in Requests, NEW s \in SurfaceIds,
                 Holds("value-surface", s),
                 BalanceAt(Surface(s)) # kv'[Surface(s)].balance_cents
          PROVE  \/ request[q].input.identity_id = kv[Surface(s)].identity_id
                 \/ request[q].input.op = "register"
      <4>1. q = r
        BY <1>1 DEF Alone
      <4>2. Surface(s) \in Keys
        BY KeyOf
      <4>3. kv'[Surface(s)] # kv[Surface(s)]
        BY <3>2 DEF Holds, BalanceAt, Surface
      <4>4. p.key = Surface(s) /\ kv[Surface(s)] = st0[Surface(s)]
        BY <1>2, <3>1, <4>2, <4>3, PutChanges
      <4>5. i.identity_id = st0[Surface(s)].identity_id \/ i.op = "register"
        BY <3>1, <4>4, OwnerPuts
      <4>6. QED
        BY <3>1, <4>1, <4>4, <4>5
    <3>3. ASSUME NEW m \in Pool["value-balance"],
                 kv'[BalanceMove(m)] # kv[BalanceMove(m)]
          PROVE  /\ kv[Surface(kv'[BalanceMove(m)].from)].currency
                      = kv'[BalanceMove(m)].currency
                 /\ kv[Surface(kv'[BalanceMove(m)].to)].currency
                      = kv'[BalanceMove(m)].currency
      <4>1. BalanceMove(m) \in Keys
        BY KeyOf
      <4>2. p.key = BalanceMove(m) /\ kv'[BalanceMove(m)] = p.value
        BY <1>2, <3>1, <3>3, <4>1, PutChanges
      <4>3. QED
        BY <1>2, <3>1, <4>2, MoveKeepsCurrency
    <3>4. ASSUME NEW m \in Pool["value-spend-balance"],
                 kv'[SpendBalance(m)] # kv[SpendBalance(m)]
          PROVE  kv[Surface(kv'[SpendBalance(m)].surface)].currency
                   = kv'[SpendBalance(m)].currency
      <4>1. SpendBalance(m) \in Keys
        BY KeyOf
      <4>2. p.key = SpendBalance(m) /\ kv'[SpendBalance(m)] = p.value
        BY <1>2, <3>1, <3>4, <4>1, PutChanges
      <4>3. QED
        BY <1>2, <3>1, <4>2, DebitKeepsCurrency
    <3>5. OnlyOwnersMove
      BY <3>2 DEF OnlyOwnersMove
    <3>6. CurrencyKept
      BY <3>3, <3>4 DEF CurrencyKept
    <3>7. QED
      BY <3>5, <3>6
  <2>4. QED
    BY <2>1, <2>2, <2>3, OnlyPuts
<1>3. Spec => [](IInv /\ AInv)
  BY <1>1, SpecAInv
<1>4. QED
  BY <1>2, <1>3, PTL DEF Spec, MovesPermitted

-----------------------------------------------------------------------------
(* Between requests the store is sound.                                    *)

LEMMA QuietSound ==
  ASSUME Alone, AInv, Quiet
  PROVE  Sound(kv, declared, crashes)
<1>1. PICK r : r \in Requests
  BY DEF Alone
<1>2. request[r] = Idle
  BY <1>1 DEF Quiet, Busy
<1>3. QED
  BY <1>1, <1>2 DEF AInv, Settles

(* The smaller of two numbers.                                             *)
LEMMA MinOfTwo ==
  ASSUME NEW a \in Nat, NEW c \in Nat
  PROVE  Min({a, c}) = IF a < c THEN a ELSE c
<1>1. PICK m : m = IF a < c THEN a ELSE c
  OBVIOUS
<1>2. m \in {a, c} /\ \A y \in {a, c} : m <= y
  BY <1>1
<1>3. PICK n : n = Min({a, c})
  OBVIOUS
<1>4. n \in {a, c} /\ \A y \in {a, c} : n <= y
  BY <1>2, <1>3 DEF Min
<1>5. n = m
  BY <1>2, <1>4
<1>6. QED
  BY <1>1, <1>3, <1>5

(* A receipt that was stored is found from its spend, while requests do    *)
(* not overlap, none is cut off, and no client names the spend or the      *)
(* receipt it makes: value-receipt.js lists every receipt of a spend once, *)
(* the newest of them when there are more than MAX_INDEX_ITEMS.            *)
THEOREM CirculationListed ==
  Alone /\ ReceiptsPrivate => (Spec => []ReceiptsListed)
<1>1. SUFFICES ASSUME Alone, ReceiptsPrivate PROVE Spec => []ReceiptsListed
  OBVIOUS
<1>2. ASSUME IInv, AInv PROVE ReceiptsListed
  <2>1. SUFFICES ASSUME Quiet, NEW s \in Pool["value-spend"], Holds("value-spend", s),
                        NEW listed, listed = kv[Spend(s)].receipt_ids,
                        NEW stored,
                        stored = {p \in Pool["value-receipt"] :
                                    Holds("value-receipt", p) /\ kv[Receipt(p)].spend = s}
                 PROVE  /\ {listed[i] : i \in DOMAIN listed} \subseteq stored
                        /\ Cardinality({listed[i] : i \in DOMAIN listed}) = Len(listed)
                        /\ Len(listed) = Min({Cardinality(stored), MaxIndexItems})
    BY DEF ReceiptsListed
  <2>2. Listed(kv)
    BY <1>1, <1>2, <2>1, QuietSound DEF Sound
  <2>3. stored = ReceiptsOf(kv, s)
    BY <2>1 DEF ReceiptsOf, Holds, Receipt
  <2>4. ListsThem(listed, stored)
    BY <2>1, <2>2, <2>3 DEF Listed, Holds, Spend
  <2>5. listed \in Seq(Pool["value-receipt"])
    <3>1. Spend(s) \in Keys /\ Spend(s)[1] = "value-spend"
      BY KeyOf, KindOf
    <3>2. Shaped(bounds, Spend(s), kv[Spend(s)])
      BY <1>2, <2>1, <3>1 DEF IInv, StoreFits, Fine, Holds, Spend
    <3>3. IsSpend(kv[Spend(s)])
      BY <3>1, <3>2 DEF Shaped
    <3>4. QED
      BY <2>1, <3>3 DEF IsSpend, SpendRecord
  <2>6. ToSet(listed) = {listed[i] : i \in DOMAIN listed}
    BY DEF ToSet
  <2>7. IsInjective(listed) /\ ToSet(listed) \subseteq stored /\ IsFiniteSet(stored)
    BY <2>4 DEF ListsThem
  <2>8. Cardinality(ToSet(listed)) = Len(listed)
    BY <2>5, <2>7, DistinctLength
  <2>9. Len(listed) = Min({Cardinality(stored), MaxIndexItems})
    <3>1. PICK c, m : c = Cardinality(stored) /\ m = MaxIndexItems
      OBVIOUS
    <3>2. c \in Nat
      BY <2>7, <3>1, FS_CardinalityType
    <3>3. m \in Nat
      BY <3>1, CirculationAssumption
    <3>4. Len(listed) = IF c < m THEN c ELSE m
      BY <2>4, <3>1 DEF ListsThem
    <3>5. QED
      BY <3>1, <3>2, <3>3, <3>4, MinOfTwo
  <2>10. QED
    BY <2>6, <2>7, <2>8, <2>9
<1>3. Spec => [](IInv /\ AInv)
  BY <1>1, SpecAInv
<1>4. QED
  BY <1>2, <1>3, PTL

(* The sums of the model are those of the lemmas.                          *)
AddsBalances(it) ==
  it = [s \in SUBSET SurfaceIds |->
          IF s = {} THEN 0 ELSE BalanceAt(Surface(SomeOf(s))) + it[s \ {SomeOf(s)}]]

DebitAmount(c) ==
  IF Holds("value-spend-balance", c) THEN kv[SpendBalance(c)].amount_cents ELSE 0

AddsDebits(it) ==
  it = [s \in SUBSET Pool["value-spend-balance"] |->
          IF s = {} THEN 0 ELSE DebitAmount(SomeOf(s)) + it[s \ {SomeOf(s)}]]

LEMMA TotalBalanceBy ==
  ASSUME NEW it, AddsBalances(it)
  PROVE  \E jt : AddsBalances(jt) /\ TotalBalance = jt[SurfaceIds]
<1>1. PICK jt : jt = CHOOSE kt : AddsBalances(kt)
  OBVIOUS
<1>2. AddsBalances(jt)
  BY <1>1
<1>3. TotalBalance = jt[SurfaceIds]
  BY <1>1 DEF TotalBalance, MapThenSumSet, MapThenFoldSet, AddsBalances, SomeOf
<1>4. QED
  BY <1>2, <1>3

LEMMA TotalDebitedBy ==
  ASSUME NEW it, AddsDebits(it)
  PROVE  \E jt : AddsDebits(jt) /\ TotalDebited = jt[Pool["value-spend-balance"]]
<1>1. PICK jt : jt = CHOOSE kt : AddsDebits(kt)
  OBVIOUS
<1>2. AddsDebits(jt)
  BY <1>1
<1>3. TotalDebited = MapThenSumSet(DebitAmount, Pool["value-spend-balance"])
  BY DEF TotalDebited, MapThenSumSet, MapThenFoldSet, DebitAmount
<1>4. MapThenSumSet(DebitAmount, Pool["value-spend-balance"])
        = jt[Pool["value-spend-balance"]]
  BY <1>1 DEF MapThenSumSet, MapThenFoldSet, AddsDebits, SomeOf
<1>5. QED
  BY <1>2, <1>3, <1>4

LEMMA TotalIsOwned ==
  ASSUME IInv, Countable
  PROVE  TotalBalance = Owned(kv)
<1>1. PICK S, f : S = SurfaceIds /\ f = Balances(kv)
  OBVIOUS
<1>2. IsFiniteSet(S) /\ f \in [S -> Int]
  BY <1>1, BooksTyped DEF IInv, Countable
<1>3. \A x \in S : f[x] = BalanceAt(Surface(x))
  BY <1>1 DEF Balances, Held, BalanceAt
<1>4. \A s \in SUBSET S : s # {} => f[SomeOf(s)] = BalanceAt(Surface(SomeOf(s)))
  BY <1>3 DEF SomeOf
<1>5. \A it : Sums(it, f, S) <=> AddsBalances(it)
  <2>1. ASSUME NEW it
        PROVE  [s \in SUBSET S |-> IF s = {} THEN 0 ELSE f[SomeOf(s)] + it[s \ {SomeOf(s)}]]
                 = [s \in SUBSET S |-> IF s = {} THEN 0
                      ELSE BalanceAt(Surface(SomeOf(s))) + it[s \ {SomeOf(s)}]]
    BY <1>4
  <2>2. QED
    BY <1>1, <2>1 DEF Sums, AddsBalances
<1>6. PICK it : Sums(it, f, S)
  BY <1>2, SumsExist
<1>7. PICK jt : Sums(jt, f, S) /\ TotalBalance = jt[S]
  BY <1>1, <1>5, <1>6, TotalBalanceBy
<1>8. QED
  BY <1>1, <1>2, <1>7, SumOverIs DEF Owned

LEMMA TotalIsSpent ==
  ASSUME IInv, Countable
  PROVE  TotalDebited = Spent(kv)
<1>1. PICK S, f : S = Pool["value-spend-balance"] /\ f = Debits(kv)
  OBVIOUS
<1>2. IsFiniteSet(S) /\ f \in [S -> Int]
  BY <1>1, BooksTyped DEF IInv, Countable
<1>3. \A x \in S : f[x] = DebitAmount(x)
  BY <1>1 DEF Debits, DebitAmount, Holds, SpendBalance
<1>4. \A s \in SUBSET S : s # {} => f[SomeOf(s)] = DebitAmount(SomeOf(s))
  BY <1>3 DEF SomeOf
<1>5. \A it : Sums(it, f, S) <=> AddsDebits(it)
  <2>1. ASSUME NEW it
        PROVE  [s \in SUBSET S |-> IF s = {} THEN 0 ELSE f[SomeOf(s)] + it[s \ {SomeOf(s)}]]
                 = [s \in SUBSET S |-> IF s = {} THEN 0
                      ELSE DebitAmount(SomeOf(s)) + it[s \ {SomeOf(s)}]]
    BY <1>4
  <2>2. QED
    BY <1>1, <2>1 DEF Sums, AddsDebits
<1>6. PICK it : Sums(it, f, S)
  BY <1>2, SumsExist
<1>7. PICK jt : Sums(jt, f, S) /\ TotalDebited = jt[S]
  BY <1>1, <1>5, <1>6, TotalDebitedBy
<1>8. QED
  BY <1>1, <1>2, <1>7, SumOverIs DEF Spent

(* While requests do not overlap and no client names the record of its     *)
(* debit, what the surfaces hold and the debits took is what was declared, *)
(* but for at most the largest amount for every request cut off between    *)
(* the puts of value-balance.js or value-spend-balance.js; and the         *)
(* surfaces alone never hold more than was declared.                       *)
THEOREM CirculationBooks ==
  Alone /\ BooksKept => (Spec => []CrashesBoundLoss)
<1>1. SUFFICES ASSUME Alone, BooksKept PROVE Spec => []CrashesBoundLoss
  OBVIOUS
<1>2. ASSUME IInv, AInv PROVE CrashesBoundLoss
  <2>1. SUFFICES ASSUME Quiet
                 PROVE  /\ TotalBalance <= declared
                        /\ TotalBalance + TotalDebited >= declared - crashes * Largest
                        /\ TotalBalance + TotalDebited <= declared + crashes * Largest
    BY DEF CrashesBoundLoss
  <2>2. Balanced(kv, declared, crashes)
    BY <1>1, <1>2, <2>1, QuietSound DEF Sound
  <2>3. TotalBalance = Owned(kv) /\ TotalDebited = Spent(kv)
    BY <1>1, <1>2, TotalIsOwned, TotalIsSpent DEF BooksKept
  <2>4. QED
    BY <2>2, <2>3 DEF Balanced
<1>3. Spec => [](IInv /\ AInv)
  BY <1>1, SpecAInv
<1>4. QED
  BY <1>2, <1>3, PTL

-----------------------------------------------------------------------------
(* The ledger that the workers are, one request after another.             *)

(* No surface was given before the first request.                          *)
Unopened == \A n \in DOMAIN Bounds : DOMAIN Bounds[n].given = {} /\ Bounds[n].opening = 0

(* What has to be so for the workers to be the ledger.                     *)
LedgerTerms ==
  /\ Alone /\ Uncut /\ Uncited
  /\ Unchosen("value-balance") /\ Unnamed
  /\ Countable /\ Unopened
  /\ Outside \notin SurfaceIds

(* The ledger's purses, approvals and used approvals, as they are mapped.  *)
Purse ==
  [p \in SurfaceIds \union {Outside} |->
     IF p = Outside THEN TotalDebited ELSE Settled(p)]

Approvals ==
  {MoveApproval(d) : d \in Approved("value-topup-decision")}
    \union {SpendApproval(d) : d \in Approved("value-spend-decision")}

Movements ==
  {MoveApproval(m.decision_id) : m \in Records("value-balance")}
    \union {SpendApproval(c.decision_id) : c \in Records("value-spend-balance")}

(* The same of a store st and the request x that is under way.             *)
DueOf(x, s) ==
  IF x # Idle /\ Len(x.puts) < PutCount(x.input.op)
  THEN {p \in {x.puts[n] : n \in DOMAIN x.puts} : p.key = Surface(s)}
  ELSE {}

HeldSoon(st, x, s) ==
  IF DueOf(x, s) = {} THEN Held(st, Surface(s))
  ELSE (CHOOSE p \in DueOf(x, s) : TRUE).value.balance_cents

PurseOf(st, x) ==
  [p \in SurfaceIds \union {Outside} |->
     IF p = Outside THEN Spent(st) ELSE HeldSoon(st, x, p)]

TopupApproval(st, d) ==
  [id |-> TopupDecision(d), from |-> st[TopupDecision(d)].from,
   to |-> st[TopupDecision(d)].to, amount |-> st[TopupDecision(d)].amount_cents]

DebitApproval(st, d) ==
  [id |-> SpendDecision(d), from |-> st[SpendDecision(d)].surface,
   to |-> Outside, amount |-> st[SpendDecision(d)].amount_cents]

ApprovedTopups(st) ==
  {d \in Pool["value-topup-decision"] :
     st[TopupDecision(d)] # Absent /\ st[TopupDecision(d)].decision = "approved"}

ApprovedSpends(st) ==
  {d \in Pool["value-spend-decision"] :
     st[SpendDecision(d)] # Absent /\ st[SpendDecision(d)].decision = "approved"}

ApprovalsOf(st) ==
  {TopupApproval(st, d) : d \in ApprovedTopups(st)}
    \union {DebitApproval(st, d) : d \in ApprovedSpends(st)}

MovesIn(st) == {m \in Pool["value-balance"] : st[BalanceMove(m)] # Absent}
DebitsIn(st) == {c \in Pool["value-spend-balance"] : st[SpendBalance(c)] # Absent}

MovementsOf(st) ==
  {TopupApproval(st, st[BalanceMove(m)].decision_id) : m \in MovesIn(st)}
    \union {DebitApproval(st, st[SpendBalance(c)].decision_id) : c \in DebitsIn(st)}

(* What is due is due of the only request.                                 *)
LEMMA SettledBy ==
  ASSUME Alone, NEW r \in Requests, NEW s
  PROVE  Settled(s) = HeldSoon(kv, request[r], s)
<1>1. \A q \in Requests : q = r
  BY DEF Alone
<1>2. Due(s) = DueOf(request[r], s)
  <2>1. CASE request[r] # Idle /\ Len(request[r].puts) < PutCount(request[r].input.op)
    <3>1. {q \in Requests : /\ Busy(q)
                            /\ Len(request[q].puts) < PutCount(request[q].input.op)} = {r}
      BY <1>1, <2>1 DEF Busy
    <3>2. UNION {{request[q].puts[n] : n \in DOMAIN request[q].puts} : q \in {r}}
            = {request[r].puts[n] : n \in DOMAIN request[r].puts}
      OBVIOUS
    <3>3. QED
      BY <2>1, <3>1, <3>2 DEF Due, DueOf
  <2>2. CASE ~(request[r] # Idle /\ Len(request[r].puts) < PutCount(request[r].input.op))
    <3>1. {q \in Requests : /\ Busy(q)
                            /\ Len(request[q].puts) < PutCount(request[q].input.op)} = {}
      BY <1>1, <2>2 DEF Busy
    <3>2. QED
      BY <2>2, <3>1 DEF Due, DueOf
  <2>3. QED
    BY <2>1, <2>2
<1>3. Surface(s) = <<"value-surface", s>>
  BY DEF Surface
<1>4. QED
  BY <1>2 DEF Settled, HeldSoon, BalanceAt, Held

(* The views are those of the store and of the request.                    *)
Viewed(r) ==
  /\ Purse = PurseOf(kv, request[r])
  /\ Approvals = ApprovalsOf(kv)
  /\ Movements = MovementsOf(kv)

LEMMA ViewsOf ==
  ASSUME Alone, Countable, IInv, NEW r \in Requests
  PROVE  Viewed(r)
<1>1. Purse = PurseOf(kv, request[r])
  BY SettledBy, TotalIsSpent DEF Purse, PurseOf
<1>2. Approvals = ApprovalsOf(kv)
  <2>1. Approved("value-topup-decision") = ApprovedTopups(kv)
    BY DEF Approved, ApprovedTopups, Holds, TopupDecision
  <2>2. Approved("value-spend-decision") = ApprovedSpends(kv)
    BY DEF Approved, ApprovedSpends, Holds, SpendDecision
  <2>3. \A d : MoveApproval(d) = TopupApproval(kv, d)
    BY DEF MoveApproval, TopupApproval
  <2>4. \A d : SpendApproval(d) = DebitApproval(kv, d)
    BY DEF SpendApproval, DebitApproval
  <2>5. QED
    BY <2>1, <2>2, <2>3, <2>4 DEF Approvals, ApprovalsOf
<1>3. Movements = MovementsOf(kv)
  <2>1. Records("value-balance") = {kv[BalanceMove(m)] : m \in MovesIn(kv)}
    BY DEF Records, Holds, MovesIn, BalanceMove
  <2>2. Records("value-spend-balance") = {kv[SpendBalance(m)] : m \in DebitsIn(kv)}
    BY DEF Records, Holds, DebitsIn, SpendBalance
  <2>3. \A d : MoveApproval(d) = TopupApproval(kv, d)
    BY DEF MoveApproval, TopupApproval
  <2>4. \A d : SpendApproval(d) = DebitApproval(kv, d)
    BY DEF SpendApproval, DebitApproval
  <2>5. {MoveApproval(m.decision_id) : m \in Records("value-balance")}
          = {TopupApproval(kv, kv[BalanceMove(m)].decision_id) : m \in MovesIn(kv)}
    BY <2>1, <2>3
  <2>6. {SpendApproval(c.decision_id) : c \in Records("value-spend-balance")}
          = {DebitApproval(kv, kv[SpendBalance(c)].decision_id) : c \in DebitsIn(kv)}
    BY <2>2, <2>4
  <2>7. QED
    BY <2>5, <2>6 DEF Movements, MovementsOf
<1>4. QED
  BY <1>1, <1>2, <1>3 DEF Viewed

-----------------------------------------------------------------------------
(* What the puts made so far make of the approvals and of their use.       *)

LEMMA KeptApproval ==
  ASSUME NEW st, NEW after, Extends(st, after)
  PROVE  /\ \A d \in Pool["value-topup-decision"] : st[TopupDecision(d)] # Absent =>
              /\ after[TopupDecision(d)] # Absent
              /\ after[TopupDecision(d)].decision = st[TopupDecision(d)].decision
              /\ TopupApproval(after, d) = TopupApproval(st, d)
         /\ \A d \in Pool["value-spend-decision"] : st[SpendDecision(d)] # Absent =>
              /\ after[SpendDecision(d)] # Absent
              /\ after[SpendDecision(d)].decision = st[SpendDecision(d)].decision
              /\ DebitApproval(after, d) = DebitApproval(st, d)
<1>1. ASSUME NEW d \in Pool["value-topup-decision"], st[TopupDecision(d)] # Absent
      PROVE  /\ after[TopupDecision(d)] # Absent
             /\ after[TopupDecision(d)].decision = st[TopupDecision(d)].decision
             /\ TopupApproval(after, d) = TopupApproval(st, d)
  <2>1. /\ TopupDecision(d) \in Keys /\ Lasting(TopupDecision(d))
        /\ TopupDecision(d)[1] = "value-topup-decision"
    BY KeyOf, KindOf DEF Lasting
  <2>2. Agrees(after, TopupDecision(d), st[TopupDecision(d)])
    BY <1>1, <2>1 DEF Extends
  <2>3. QED
    BY <2>1, <2>2 DEF Agrees, Same, TopupApproval
<1>2. ASSUME NEW d \in Pool["value-spend-decision"], st[SpendDecision(d)] # Absent
      PROVE  /\ after[SpendDecision(d)] # Absent
             /\ after[SpendDecision(d)].decision = st[SpendDecision(d)].decision
             /\ DebitApproval(after, d) = DebitApproval(st, d)
  <2>1. /\ SpendDecision(d) \in Keys /\ Lasting(SpendDecision(d))
        /\ SpendDecision(d)[1] = "value-spend-decision"
    BY KeyOf, KindOf DEF Lasting
  <2>2. Agrees(after, SpendDecision(d), st[SpendDecision(d)])
    BY <1>2, <2>1 DEF Extends
  <2>3. QED
    BY <2>1, <2>2 DEF Agrees, Same, DebitApproval
<1>3. QED
  BY <1>1, <1>2

(* What a plan approves: with its first put.                               *)
Gives(i, all) ==
  IF i.op = "topup-decision" /\ all[1].value.decision = "approved"
  THEN {[id |-> all[1].key, from |-> all[1].value.from, to |-> all[1].value.to,
         amount |-> all[1].value.amount_cents]}
  ELSE IF i.op = "spend-decision" /\ all[1].value.decision = "approved"
  THEN {[id |-> all[1].key, from |-> all[1].value.surface, to |-> Outside,
         amount |-> all[1].value.amount_cents]}
  ELSE {}

(* A decision is the first put of the request for it.                      *)
LEMMA TopupDecisionNow ==
  ASSUME NEW b, NEW st0, NEW i \in Inputs, Opens(st0, i), NEW all, Plan(st0, i, all),
         Planned(b, all), NEW k \in 1..Len(all), NEW st, PutSoFar(st0, all, k, st),
         i.op = "topup-decision"
  PROVE  /\ i.new \in Pool["value-topup-decision"] /\ all[1].key = TopupDecision(i.new)
         /\ st0[TopupDecision(i.new)] = Absent
         /\ st[TopupDecision(i.new)] = all[1].value
         /\ all[1].value # Absent
<1>1. k \in Nat /\ k >= 1 /\ 1 \in 1..k /\ Len(all) \in Nat /\ 1 \in 1..Len(all)
  BY DEF Planned
<1>2. i.new \in Pool["value-topup-decision"] /\ all[1].key = TopupDecision(i.new)
  BY InputsOf DEF Plan, PlanTopupDecision
<1>3. st0[TopupDecision(i.new)] = Absent
  BY DEF Opens
<1>4. st[TopupDecision(i.new)] = all[1].value
  BY <1>1, <1>2 DEF PutSoFar
<1>5. all[1].value # Absent
  <2>1. all[1].key[1] = "value-topup-decision"
    BY <1>2, KindOf
  <2>2. Shaped(b, all[1].key, all[1].value)
    BY <1>1 DEF Planned
  <2>3. Lasting(all[1].key)
    BY <2>1 DEF Lasting
  <2>4. QED
    BY <2>2, <2>3, LastingIsStored
<1>6. QED
  BY <1>2, <1>3, <1>4, <1>5

(* A decision that is new is the one decided now.                          *)
LEMMA NewTopupDecision ==
  ASSUME NEW b, NEW st0, NEW i \in Inputs, Opens(st0, i), NEW all, Plan(st0, i, all),
         Planned(b, all), NEW k \in 1..Len(all), NEW st, PutSoFar(st0, all, k, st),
         NEW d \in Pool["value-topup-decision"],
         st0[TopupDecision(d)] = Absent, st[TopupDecision(d)] # Absent
  PROVE  i.op = "topup-decision" /\ d = i.new
<1>1. k \in Nat /\ k >= 1 /\ Len(all) \in Nat
  BY DEF Planned
<1>2. TopupDecision(d) \in Keys /\ TopupDecision(d)[1] = "value-topup-decision"
  BY KeyOf, KindOf
<1>3. PICK j \in 1..k : all[j].key = TopupDecision(d)
  BY <1>2 DEF PutSoFar
<1>4. j \in 1..Len(all)
  BY <1>1
<1>5. Touches(i.op, "value-topup-decision")
  BY <1>2, <1>3, <1>4, PlanTouches
<1>6. CASE i.op = "balance"
  <2>1. PICK t, c : t = st0[Topup(i.topup)] /\ c = CitedTopupDecision(i, t)
    OBVIOUS
  <2>2. /\ st0[TopupDecision(c)] # Absent
        /\ Len(all) = 5
        /\ all[1].key = BalanceMove(i.new) /\ all[2].key = Surface(t.from)
        /\ all[3].key = Surface(t.to) /\ all[4].key = Topup(i.topup)
        /\ all[5].key = TopupDecision(c)
    BY <1>6, <2>1 DEF Plan, PlanBalance
  <2>3. /\ all[1].key[1] = "value-balance" /\ all[2].key[1] = "value-surface"
        /\ all[3].key[1] = "value-surface" /\ all[4].key[1] = "value-topup"
        /\ all[5].key[2] = c /\ TopupDecision(d)[2] = d
    BY <2>2, KindOf
  <2>4. \A q \in 1..5 : q \in {1, 2, 3, 4, 5}
    OBVIOUS
  <2>5. j = 5
    BY <1>2, <1>3, <1>4, <2>2, <2>3, <2>4
  <2>6. d = c
    BY <1>3, <2>3, <2>5
  <2>7. QED
    BY <2>2, <2>6
<1>7. CASE i.op = "topup-decision"
  <2>1. Len(all) = 2 /\ all[1].key = TopupDecision(i.new) /\ all[2].key = Topup(i.topup)
    BY <1>7 DEF Plan, PlanTopupDecision
  <2>2. all[2].key[1] = "value-topup" /\ all[1].key[2] = i.new /\ TopupDecision(d)[2] = d
    BY <2>1, KindOf
  <2>3. \A q \in 1..2 : q \in {1, 2}
    OBVIOUS
  <2>4. j = 1
    BY <1>2, <1>3, <1>4, <2>1, <2>2, <2>3
  <2>5. QED
    BY <1>3, <1>7, <2>2, <2>4
<1>8. QED
  BY <1>5, <1>6, <1>7 DEF Touches

LEMMA SpendDecisionNow ==
  ASSUME NEW b, NEW st0, NEW i \in Inputs, Opens(st0, i), NEW all, Plan(st0, i, all),
         Planned(b, all), NEW k \in 1..Len(all), NEW st, PutSoFar(st0, all, k, st),
         i.op = "spend-decision"
  PROVE  /\ i.new \in Pool["value-spend-decision"] /\ all[1].key = SpendDecision(i.new)
         /\ st0[SpendDecision(i.new)] = Absent
         /\ st[SpendDecision(i.new)] = all[1].value
         /\ all[1].value # Absent
<1>1. k \in Nat /\ k >= 1 /\ 1 \in 1..k /\ Len(all) \in Nat /\ 1 \in 1..Len(all)
  BY DEF Planned
<1>2. i.new \in Pool["value-spend-decision"] /\ all[1].key = SpendDecision(i.new)
  BY InputsOf DEF Plan, PlanSpendDecision
<1>3. st0[SpendDecision(i.new)] = Absent
  BY DEF Opens
<1>4. st[SpendDecision(i.new)] = all[1].value
  BY <1>1, <1>2 DEF PutSoFar
<1>5. all[1].value # Absent
  <2>1. all[1].key[1] = "value-spend-decision"
    BY <1>2, KindOf
  <2>2. Shaped(b, all[1].key, all[1].value)
    BY <1>1 DEF Planned
  <2>3. Lasting(all[1].key)
    BY <2>1 DEF Lasting
  <2>4. QED
    BY <2>2, <2>3, LastingIsStored
<1>6. QED
  BY <1>2, <1>3, <1>4, <1>5

LEMMA NewSpendDecision ==
  ASSUME NEW b, NEW st0, NEW i \in Inputs, Opens(st0, i), NEW all, Plan(st0, i, all),
         Planned(b, all), NEW k \in 1..Len(all), NEW st, PutSoFar(st0, all, k, st),
         NEW d \in Pool["value-spend-decision"],
         st0[SpendDecision(d)] = Absent, st[SpendDecision(d)] # Absent
  PROVE  i.op = "spend-decision" /\ d = i.new
<1>1. k \in Nat /\ k >= 1 /\ Len(all) \in Nat
  BY DEF Planned
<1>2. SpendDecision(d) \in Keys /\ SpendDecision(d)[1] = "value-spend-decision"
  BY KeyOf, KindOf
<1>3. PICK j \in 1..k : all[j].key = SpendDecision(d)
  BY <1>2 DEF PutSoFar
<1>4. j \in 1..Len(all)
  BY <1>1
<1>5. Touches(i.op, "value-spend-decision")
  BY <1>2, <1>3, <1>4, PlanTouches
<1>6. CASE i.op = "spend-balance"
  <2>1. PICK t, c : t = st0[Spend(i.spend)] /\ c = CitedSpendDecision(i, t)
    OBVIOUS
  <2>2. /\ st0[SpendDecision(c)] # Absent
        /\ Len(all) = 4
        /\ all[1].key = SpendBalance(i.new) /\ all[2].key = Surface(t.surface)
        /\ all[3].key = Spend(i.spend) /\ all[4].key = SpendDecision(c)
    BY <1>6, <2>1 DEF Plan, PlanSpendBalance
  <2>3. /\ all[1].key[1] = "value-spend-balance" /\ all[2].key[1] = "value-surface"
        /\ all[3].key[1] = "value-spend"
        /\ all[4].key[2] = c /\ SpendDecision(d)[2] = d
    BY <2>2, KindOf
  <2>4. \A q \in 1..4 : q \in {1, 2, 3, 4}
    OBVIOUS
  <2>5. j = 4
    BY <1>2, <1>3, <1>4, <2>2, <2>3, <2>4
  <2>6. d = c
    BY <1>3, <2>3, <2>5
  <2>7. QED
    BY <2>2, <2>6
<1>7. CASE i.op = "spend-decision"
  <2>1. Len(all) = 2 /\ all[1].key = SpendDecision(i.new) /\ all[2].key = Spend(i.spend)
    BY <1>7 DEF Plan, PlanSpendDecision
  <2>2. all[2].key[1] = "value-spend" /\ all[1].key[2] = i.new /\ SpendDecision(d)[2] = d
    BY <2>1, KindOf
  <2>3. \A q \in 1..2 : q \in {1, 2}
    OBVIOUS
  <2>4. j = 1
    BY <1>2, <1>3, <1>4, <2>1, <2>2, <2>3
  <2>5. QED
    BY <1>3, <1>7, <2>2, <2>4
<1>8. QED
  BY <1>5, <1>6, <1>7 DEF Touches

(* So a plan adds to the approvals what it gives.                          *)
LEMMA ApprovalsAfter ==
  ASSUME NEW b, NEW st0, NEW i \in Inputs, Opens(st0, i), NEW all, Plan(st0, i, all),
         Planned(b, all), NEW k \in 1..Len(all), NEW st, PutSoFar(st0, all, k, st),
         Extends(st0, st)
  PROVE  ApprovalsOf(st) = ApprovalsOf(st0) \union Gives(i, all)
<1>1. \A d \in Pool["value-topup-decision"] : st0[TopupDecision(d)] # Absent =>
        /\ st[TopupDecision(d)] # Absent
        /\ st[TopupDecision(d)].decision = st0[TopupDecision(d)].decision
        /\ TopupApproval(st, d) = TopupApproval(st0, d)
  BY KeptApproval
<1>2. \A d \in Pool["value-spend-decision"] : st0[SpendDecision(d)] # Absent =>
        /\ st[SpendDecision(d)] # Absent
        /\ st[SpendDecision(d)].decision = st0[SpendDecision(d)].decision
        /\ DebitApproval(st, d) = DebitApproval(st0, d)
  BY KeptApproval
<1>3. \A d \in Pool["value-topup-decision"] :
        st0[TopupDecision(d)] = Absent /\ st[TopupDecision(d)] # Absent =>
          i.op = "topup-decision" /\ d = i.new
  BY NewTopupDecision
<1>4. \A d \in Pool["value-spend-decision"] :
        st0[SpendDecision(d)] = Absent /\ st[SpendDecision(d)] # Absent =>
          i.op = "spend-decision" /\ d = i.new
  BY NewSpendDecision
<1>5. CASE i.op = "topup-decision"
  <2>1. i.new \in Pool["value-topup-decision"]
    BY <1>5, InputsOf
  <2>2. /\ all[1].key = TopupDecision(i.new) /\ st0[TopupDecision(i.new)] = Absent
        /\ st[TopupDecision(i.new)] = all[1].value /\ all[1].value # Absent
    BY <1>5, TopupDecisionNow
  <2>3. ApprovedSpends(st) = ApprovedSpends(st0)
    BY <1>2, <1>4, <1>5 DEF ApprovedSpends
  <2>4. {DebitApproval(st, d) : d \in ApprovedSpends(st)}
          = {DebitApproval(st0, d) : d \in ApprovedSpends(st0)}
    <3>1. \A d \in ApprovedSpends(st0) : DebitApproval(st, d) = DebitApproval(st0, d)
      BY <1>2 DEF ApprovedSpends
    <3>2. QED
      BY <2>3, <3>1
  <2>5. TopupApproval(st, i.new)
          = [id |-> all[1].key, from |-> all[1].value.from, to |-> all[1].value.to,
             amount |-> all[1].value.amount_cents]
    BY <2>2 DEF TopupApproval
  <2>6. CASE all[1].value.decision = "approved"
    <3>1. ApprovedTopups(st) = ApprovedTopups(st0) \union {i.new}
      BY <1>1, <1>3, <2>1, <2>2, <2>6 DEF ApprovedTopups
    <3>2. \A d \in ApprovedTopups(st0) : TopupApproval(st, d) = TopupApproval(st0, d)
      BY <1>1 DEF ApprovedTopups
    <3>3. {TopupApproval(st, d) : d \in ApprovedTopups(st)}
            = {TopupApproval(st0, d) : d \in ApprovedTopups(st0)}
                \union {TopupApproval(st, i.new)}
      BY <3>1, <3>2
    <3>4. Gives(i, all) = {TopupApproval(st, i.new)}
      BY <1>5, <2>5, <2>6 DEF Gives
    <3>5. QED
      BY <2>4, <3>3, <3>4 DEF ApprovalsOf
  <2>7. CASE all[1].value.decision # "approved"
    <3>1. ApprovedTopups(st) = ApprovedTopups(st0)
      BY <1>1, <1>3, <2>1, <2>2, <2>7 DEF ApprovedTopups
    <3>2. {TopupApproval(st, d) : d \in ApprovedTopups(st)}
            = {TopupApproval(st0, d) : d \in ApprovedTopups(st0)}
      BY <1>1, <3>1 DEF ApprovedTopups
    <3>3. Gives(i, all) = {}
      BY <1>5, <2>7 DEF Gives
    <3>4. QED
      BY <2>4, <3>2, <3>3 DEF ApprovalsOf
  <2>8. QED
    BY <2>6, <2>7
<1>6. CASE i.op # "topup-decision"
  <2>1. ApprovedTopups(st) = ApprovedTopups(st0)
    BY <1>1, <1>3, <1>6 DEF ApprovedTopups
  <2>2. {TopupApproval(st, d) : d \in ApprovedTopups(st)}
          = {TopupApproval(st0, d) : d \in ApprovedTopups(st0)}
    <3>1. \A d \in ApprovedTopups(st0) : TopupApproval(st, d) = TopupApproval(st0, d)
      BY <1>1 DEF ApprovedTopups
    <3>2. QED
      BY <2>1, <3>1
  <2>3. CASE i.op = "spend-decision"
    <3>1. i.new \in Pool["value-spend-decision"]
      BY <2>3, InputsOf
    <3>2. /\ all[1].key = SpendDecision(i.new) /\ st0[SpendDecision(i.new)] = Absent
          /\ st[SpendDecision(i.new)] = all[1].value /\ all[1].value # Absent
      BY <2>3, SpendDecisionNow
    <3>3. DebitApproval(st, i.new)
            = [id |-> all[1].key, from |-> all[1].value.surface, to |-> Outside,
               amount |-> all[1].value.amount_cents]
      BY <3>2 DEF DebitApproval
    <3>4. CASE all[1].value.decision = "approved"
      <4>1. ApprovedSpends(st) = ApprovedSpends(st0) \union {i.new}
        BY <1>2, <1>4, <3>1, <3>2, <3>4 DEF ApprovedSpends
      <4>2. \A d \in ApprovedSpends(st0) : DebitApproval(st, d) = DebitApproval(st0, d)
        BY <1>2 DEF ApprovedSpends
      <4>3. {DebitApproval(st, d) : d \in ApprovedSpends(st)}
              = {DebitApproval(st0, d) : d \in ApprovedSpends(st0)}
                  \union {DebitApproval(st, i.new)}
        BY <4>1, <4>2
      <4>4. Gives(i, all) = {DebitApproval(st, i.new)}
        BY <2>3, <3>3, <3>4 DEF Gives
      <4>5. QED
        BY <2>2, <4>3, <4>4 DEF ApprovalsOf
    <3>5. CASE all[1].value.decision # "approved"
      <4>1. ApprovedSpends(st) = ApprovedSpends(st0)
        BY <1>2, <1>4, <3>1, <3>2, <3>5 DEF ApprovedSpends
      <4>2. {DebitApproval(st, d) : d \in ApprovedSpends(st)}
              = {DebitApproval(st0, d) : d \in ApprovedSpends(st0)}
        BY <1>2, <4>1 DEF ApprovedSpends
      <4>3. Gives(i, all) = {}
        BY <2>3, <3>5 DEF Gives
      <4>4. QED
        BY <2>2, <4>2, <4>3 DEF ApprovalsOf
    <3>6. QED
      BY <3>4, <3>5
  <2>4. CASE i.op # "spend-decision"
    <3>1. ApprovedSpends(st) = ApprovedSpends(st0)
      BY <1>2, <1>4, <2>4 DEF ApprovedSpends
    <3>2. {DebitApproval(st, d) : d \in ApprovedSpends(st)}
            = {DebitApproval(st0, d) : d \in ApprovedSpends(st0)}
      BY <1>2, <3>1 DEF ApprovedSpends
    <3>3. Gives(i, all) = {}
      BY <1>6, <2>4 DEF Gives
    <3>4. QED
      BY <2>2, <3>2, <3>3 DEF ApprovalsOf
  <2>5. QED
    BY <2>3, <2>4
<1>7. QED
  BY <1>5, <1>6

(* What a plan uses of the approvals: with its first put.                  *)
Uses(st0, i, all) ==
  IF i.op = "balance" THEN {TopupApproval(st0, all[1].value.decision_id)}
  ELSE IF i.op = "spend-balance" THEN {DebitApproval(st0, all[1].value.decision_id)}
  ELSE {}

(* A movement that was stored is still what it was.                        *)
LEMMA MovesKept ==
  ASSUME NEW b, NEW st0, StoreFits(b, st0), TopupsMoveOnce(st0), Unchosen("value-balance"),
         NEW i \in Inputs, Opens(st0, i), NEW all, Plan(st0, i, all), Planned(b, all),
         NEW k \in 1..Len(all), NEW st, PutSoFar(st0, all, k, st), Extends(st0, st),
         NEW m \in Pool["value-balance"], st0[BalanceMove(m)] # Absent
  PROVE  /\ st[BalanceMove(m)] = st0[BalanceMove(m)]
         /\ TopupApproval(st, st0[BalanceMove(m)].decision_id)
              = TopupApproval(st0, st0[BalanceMove(m)].decision_id)
<1>1. BalanceMove(m) \in Keys /\ BalanceMove(m)[1] = "value-balance" /\ BalanceMove(m)[2] = m
  BY KeyOf, KindOf
<1>2. st[BalanceMove(m)] = st0[BalanceMove(m)]
  <2>1. k \in 0..Len(all) /\ Len(all) \in Nat /\ k \in Nat
    BY DEF Planned
  <2>2. CASE i.op # "balance"
    <3>1. ~Touches(i.op, BalanceMove(m)[1])
      BY <1>1, <2>2 DEF Touches
    <3>2. QED
      BY <1>1, <2>1, <3>1, Untouched
  <2>3. CASE i.op = "balance"
    <3>1. PICK c : c = CitedTopupDecision(i, st0[Topup(i.topup)])
      OBVIOUS
    <3>2. PICK t : t = st0[Topup(i.topup)]
      OBVIOUS
    <3>3. /\ Len(all) = 5
          /\ all[1].key = BalanceMove(i.new) /\ all[2].key = Surface(t.from)
          /\ all[3].key = Surface(t.to) /\ all[4].key = Topup(i.topup)
          /\ all[5].key = TopupDecision(c)
      BY <2>3, <3>1, <3>2 DEF Plan, PlanBalance
    <3>4. st0[BalanceMove(i.new)] = Absent
      BY <2>3 DEF Opens
    <3>5. all[1].key # BalanceMove(m)
      BY <3>3, <3>4
    <3>6. /\ all[2].key[1] = "value-surface" /\ all[3].key[1] = "value-surface"
          /\ all[4].key[1] = "value-topup" /\ all[5].key[1] = "value-topup-decision"
      BY <3>3, KindOf
    <3>7. \A q \in 1..5 : q \in {1, 2, 3, 4, 5}
      OBVIOUS
    <3>8. ASSUME NEW q \in 1..k PROVE all[q].key # BalanceMove(m)
      <4>1. q \in {1, 2, 3, 4, 5}
        BY <2>1, <3>3, <3>7
      <4>2. QED
        BY <1>1, <3>5, <3>6, <4>1
    <3>9. QED
      BY <1>1, <3>8 DEF PutSoFar
  <2>4. QED
    BY <2>2, <2>3
<1>3. st0[BalanceMove(m)].decision_id \in Pool["value-topup-decision"]
  <2>1. st0[BalanceMove(m)] \in BalanceRecord
    BY <1>1 DEF StoreFits, Fine, Shaped
  <2>2. QED
    BY <2>1 DEF BalanceRecord
<1>4. st0[TopupDecision(st0[BalanceMove(m)].decision_id)] # Absent
  BY DEF TopupsMoveOnce
<1>5. TopupApproval(st, st0[BalanceMove(m)].decision_id)
        = TopupApproval(st0, st0[BalanceMove(m)].decision_id)
  BY <1>3, <1>4, KeptApproval
<1>6. QED
  BY <1>2, <1>5

LEMMA DebitsKept ==
  ASSUME NEW b, NEW st0, StoreFits(b, st0), SpendsMoveOnce(st0), Unnamed,
         NEW i \in Inputs, Opens(st0, i), NEW all, Plan(st0, i, all), Planned(b, all),
         NEW k \in 1..Len(all), NEW st, PutSoFar(st0, all, k, st), Extends(st0, st),
         NEW m \in Pool["value-spend-balance"], st0[SpendBalance(m)] # Absent
  PROVE  /\ st[SpendBalance(m)] = st0[SpendBalance(m)]
         /\ DebitApproval(st, st0[SpendBalance(m)].decision_id)
              = DebitApproval(st0, st0[SpendBalance(m)].decision_id)
<1>1. /\ SpendBalance(m) \in Keys /\ SpendBalance(m)[1] = "value-spend-balance"
      /\ SpendBalance(m)[2] = m
  BY KeyOf, KindOf
<1>2. st[SpendBalance(m)] = st0[SpendBalance(m)]
  <2>1. k \in 0..Len(all) /\ Len(all) \in Nat /\ k \in Nat
    BY DEF Planned
  <2>2. CASE i.op # "spend-balance"
    <3>1. ~Touches(i.op, SpendBalance(m)[1])
      BY <1>1, <2>2 DEF Touches
    <3>2. QED
      BY <1>1, <2>1, <3>1, Untouched
  <2>3. CASE i.op = "spend-balance"
    <3>1. PICK c : c = CitedSpendDecision(i, st0[Spend(i.spend)])
      OBVIOUS
    <3>2. PICK t : t = st0[Spend(i.spend)]
      OBVIOUS
    <3>3. /\ Len(all) = 4
          /\ all[1].key = SpendBalance(i.new) /\ all[2].key = Surface(t.surface)
          /\ all[3].key = Spend(i.spend) /\ all[4].key = SpendDecision(c)
      BY <2>3, <3>1, <3>2 DEF Plan, PlanSpendBalance
    <3>4. st0[SpendBalance(i.new)] = Absent
      BY <2>3 DEF Opens
    <3>5. all[1].key # SpendBalance(m)
      BY <3>3, <3>4
    <3>6. /\ all[2].key[1] = "value-surface" /\ all[3].key[1] = "value-spend"
          /\ all[4].key[1] = "value-spend-decision"
      BY <3>3, KindOf
    <3>7. \A q \in 1..4 : q \in {1, 2, 3, 4}
      OBVIOUS
    <3>8. ASSUME NEW q \in 1..k PROVE all[q].key # SpendBalance(m)
      <4>1. q \in {1, 2, 3, 4}
        BY <2>1, <3>3, <3>7
      <4>2. QED
        BY <1>1, <3>5, <3>6, <4>1
    <3>9. QED
      BY <1>1, <3>8 DEF PutSoFar
  <2>4. QED
    BY <2>2, <2>3
<1>3. st0[SpendBalance(m)].decision_id \in Pool["value-spend-decision"]
  <2>1. st0[SpendBalance(m)] \in SpendBalanceRecord
    BY <1>1 DEF StoreFits, Fine, Shaped
  <2>2. QED
    BY <2>1 DEF SpendBalanceRecord
<1>4. st0[SpendDecision(st0[SpendBalance(m)].decision_id)] # Absent
  BY DEF SpendsMoveOnce
<1>5. DebitApproval(st, st0[SpendBalance(m)].decision_id)
        = DebitApproval(st0, st0[SpendBalance(m)].decision_id)
  BY <1>3, <1>4, KeptApproval
<1>6. QED
  BY <1>2, <1>5

(* The approvals of topups, and those of spends, that a store has used.    *)
TopupsUsed(st) == {TopupApproval(st, st[BalanceMove(m)].decision_id) : m \in MovesIn(st)}
SpendsUsed(st) == {DebitApproval(st, st[SpendBalance(m)].decision_id) : m \in DebitsIn(st)}

(* So a movement adds the approval it makes use of.                        *)
LEMMA MovesAfter ==
  ASSUME NEW b, NEW st0, StoreFits(b, st0), TopupsMoveOnce(st0), Unchosen("value-balance"),
         NEW i \in Inputs, Opens(st0, i), NEW all, Plan(st0, i, all), Planned(b, all),
         NEW k \in 1..Len(all), NEW st, PutSoFar(st0, all, k, st), Extends(st0, st)
  PROVE  TopupsUsed(st) = TopupsUsed(st0) \union
           (IF i.op = "balance" THEN {TopupApproval(st0, all[1].value.decision_id)} ELSE {})
<1>1. /\ k \in 0..Len(all) /\ Len(all) \in Nat /\ k \in Nat /\ k >= 1 /\ 1 \in 1..k
      /\ 1 \in 1..Len(all)
  BY DEF Planned
<1>2. \A m \in MovesIn(st0) :
        /\ st[BalanceMove(m)] = st0[BalanceMove(m)]
        /\ TopupApproval(st, st0[BalanceMove(m)].decision_id)
             = TopupApproval(st0, st0[BalanceMove(m)].decision_id)
  BY MovesKept DEF MovesIn
<1>3. CASE i.op # "balance"
  <2>1. \A m \in Pool["value-balance"] : st[BalanceMove(m)] = st0[BalanceMove(m)]
    <3>1. ~Touches(i.op, "value-balance")
      BY <1>3 DEF Touches
    <3>2. QED
      BY <1>1, <3>1, Untouched, KeyOf, KindOf
  <2>2. MovesIn(st) = MovesIn(st0)
    BY <2>1 DEF MovesIn
  <2>3. \A m \in MovesIn(st0) :
          TopupApproval(st, st[BalanceMove(m)].decision_id)
            = TopupApproval(st0, st0[BalanceMove(m)].decision_id)
    BY <1>2
  <2>4. QED
    BY <1>3, <2>2, <2>3 DEF TopupsUsed
<1>4. CASE i.op = "balance"
  <2>1. PICK t, c : t = st0[Topup(i.topup)] /\ c = CitedTopupDecision(i, t)
    OBVIOUS
  <2>2. /\ Len(all) = 5
        /\ c \in Pool["value-topup-decision"] /\ st0[TopupDecision(c)] # Absent
        /\ all[1].key = BalanceMove(i.new) /\ all[2].key = Surface(t.from)
        /\ all[3].key = Surface(t.to) /\ all[4].key = Topup(i.topup)
        /\ all[5].key = TopupDecision(c) /\ all[1].value.decision_id = c
    BY <1>4, <2>1 DEF Plan, PlanBalance
  <2>3. i.new \in Pool["value-balance"] /\ st0[BalanceMove(i.new)] = Absent
    BY <1>4, InputsOf DEF Opens
  <2>4. st[BalanceMove(i.new)] = all[1].value
    BY <1>1, <2>2 DEF PutSoFar
  <2>5. all[1].value # Absent
    <3>1. all[1].key[1] = "value-balance"
      BY <2>2, KindOf
    <3>2. Shaped(b, all[1].key, all[1].value)
      BY <1>1 DEF Planned
    <3>3. all[1].value \in BalanceRecord
      BY <3>1, <3>2 DEF Shaped
    <3>4. QED
      BY <3>3, CirculationAssumption
  <2>6. ASSUME NEW m \in Pool["value-balance"], m # i.new
        PROVE  st[BalanceMove(m)] = st0[BalanceMove(m)]
    <3>1. /\ BalanceMove(m) \in Keys /\ BalanceMove(m)[1] = "value-balance"
          /\ BalanceMove(m)[2] = m
      BY KeyOf, KindOf
    <3>2. /\ all[1].key[2] = i.new
          /\ all[2].key[1] = "value-surface" /\ all[3].key[1] = "value-surface"
          /\ all[4].key[1] = "value-topup" /\ all[5].key[1] = "value-topup-decision"
      BY <2>2, KindOf
    <3>3. \A q \in 1..5 : q \in {1, 2, 3, 4, 5}
      OBVIOUS
    <3>4. ASSUME NEW q \in 1..k PROVE all[q].key # BalanceMove(m)
      <4>1. q \in {1, 2, 3, 4, 5}
        BY <1>1, <2>2, <3>3
      <4>2. QED
        BY <2>6, <3>1, <3>2, <4>1
    <3>5. QED
      BY <3>1, <3>4 DEF PutSoFar
  <2>7. MovesIn(st) = MovesIn(st0) \union {i.new}
    BY <2>3, <2>4, <2>5, <2>6 DEF MovesIn
  <2>8. TopupApproval(st, st[BalanceMove(i.new)].decision_id)
          = TopupApproval(st0, all[1].value.decision_id)
    BY <2>2, <2>4, KeptApproval
  <2>9. \A m \in MovesIn(st0) :
          TopupApproval(st, st[BalanceMove(m)].decision_id)
            = TopupApproval(st0, st0[BalanceMove(m)].decision_id)
    BY <1>2
  <2>10. {TopupApproval(st, st[BalanceMove(m)].decision_id) : m \in MovesIn(st)}
           = {TopupApproval(st0, st0[BalanceMove(m)].decision_id) : m \in MovesIn(st0)}
               \union {TopupApproval(st0, all[1].value.decision_id)}
    BY <2>7, <2>8, <2>9
  <2>11. QED
    BY <1>4, <2>10 DEF TopupsUsed
<1>5. QED
  BY <1>3, <1>4

LEMMA DebitsAfter ==
  ASSUME NEW b, NEW st0, StoreFits(b, st0), SpendsMoveOnce(st0), Unnamed,
         NEW i \in Inputs, Opens(st0, i), NEW all, Plan(st0, i, all), Planned(b, all),
         NEW k \in 1..Len(all), NEW st, PutSoFar(st0, all, k, st), Extends(st0, st)
  PROVE  SpendsUsed(st) = SpendsUsed(st0) \union
           (IF i.op = "spend-balance" THEN {DebitApproval(st0, all[1].value.decision_id)} ELSE {})
<1>1. /\ k \in 0..Len(all) /\ Len(all) \in Nat /\ k \in Nat /\ k >= 1 /\ 1 \in 1..k
      /\ 1 \in 1..Len(all)
  BY DEF Planned
<1>2. \A m \in DebitsIn(st0) :
        /\ st[SpendBalance(m)] = st0[SpendBalance(m)]
        /\ DebitApproval(st, st0[SpendBalance(m)].decision_id)
             = DebitApproval(st0, st0[SpendBalance(m)].decision_id)
  BY DebitsKept DEF DebitsIn
<1>3. CASE i.op # "spend-balance"
  <2>1. \A m \in Pool["value-spend-balance"] : st[SpendBalance(m)] = st0[SpendBalance(m)]
    <3>1. ~Touches(i.op, "value-spend-balance")
      BY <1>3 DEF Touches
    <3>2. QED
      BY <1>1, <3>1, Untouched, KeyOf, KindOf
  <2>2. DebitsIn(st) = DebitsIn(st0)
    BY <2>1 DEF DebitsIn
  <2>3. \A m \in DebitsIn(st0) :
          DebitApproval(st, st[SpendBalance(m)].decision_id)
            = DebitApproval(st0, st0[SpendBalance(m)].decision_id)
    BY <1>2
  <2>4. QED
    BY <1>3, <2>2, <2>3 DEF SpendsUsed
<1>4. CASE i.op = "spend-balance"
  <2>1. PICK t, c : t = st0[Spend(i.spend)] /\ c = CitedSpendDecision(i, t)
    OBVIOUS
  <2>2. /\ Len(all) = 4
        /\ c \in Pool["value-spend-decision"] /\ st0[SpendDecision(c)] # Absent
        /\ all[1].key = SpendBalance(i.new) /\ all[2].key = Surface(t.surface)
        /\ all[3].key = Spend(i.spend) /\ all[4].key = SpendDecision(c)
        /\ all[1].value.decision_id = c
    BY <1>4, <2>1 DEF Plan, PlanSpendBalance
  <2>3. i.new \in Pool["value-spend-balance"] /\ st0[SpendBalance(i.new)] = Absent
    BY <1>4, InputsOf DEF Opens
  <2>4. st[SpendBalance(i.new)] = all[1].value
    BY <1>1, <2>2 DEF PutSoFar
  <2>5. all[1].value # Absent
    <3>1. all[1].key[1] = "value-spend-balance"
      BY <2>2, KindOf
    <3>2. Shaped(b, all[1].key, all[1].value)
      BY <1>1 DEF Planned
    <3>3. all[1].value \in SpendBalanceRecord
      BY <3>1, <3>2 DEF Shaped
    <3>4. QED
      BY <3>3, CirculationAssumption
  <2>6. ASSUME NEW m \in Pool["value-spend-balance"], m # i.new
        PROVE  st[SpendBalance(m)] = st0[SpendBalance(m)]
    <3>1. /\ SpendBalance(m) \in Keys /\ SpendBalance(m)[1] = "value-spend-balance"
          /\ SpendBalance(m)[2] = m
      BY KeyOf, KindOf
    <3>2. /\ all[1].key[2] = i.new
          /\ all[2].key[1] = "value-surface" /\ all[3].key[1] = "value-spend"
          /\ all[4].key[1] = "value-spend-decision"
      BY <2>2, KindOf
    <3>3. \A q \in 1..4 : q \in {1, 2, 3, 4}
      OBVIOUS
    <3>4. ASSUME NEW q \in 1..k PROVE all[q].key # SpendBalance(m)
      <4>1. q \in {1, 2, 3, 4}
        BY <1>1, <2>2, <3>3
      <4>2. QED
        BY <2>6, <3>1, <3>2, <4>1
    <3>5. QED
      BY <3>1, <3>4 DEF PutSoFar
  <2>7. DebitsIn(st) = DebitsIn(st0) \union {i.new}
    BY <2>3, <2>4, <2>5, <2>6 DEF DebitsIn
  <2>8. DebitApproval(st, st[SpendBalance(i.new)].decision_id)
          = DebitApproval(st0, all[1].value.decision_id)
    BY <2>2, <2>4, KeptApproval
  <2>9. \A m \in DebitsIn(st0) :
          DebitApproval(st, st[SpendBalance(m)].decision_id)
            = DebitApproval(st0, st0[SpendBalance(m)].decision_id)
    BY <1>2
  <2>10. {DebitApproval(st, st[SpendBalance(m)].decision_id) : m \in DebitsIn(st)}
           = {DebitApproval(st0, st0[SpendBalance(m)].decision_id) : m \in DebitsIn(st0)}
               \union {DebitApproval(st0, all[1].value.decision_id)}
    BY <2>7, <2>8, <2>9
  <2>11. QED
    BY <1>4, <2>10 DEF SpendsUsed
<1>5. QED
  BY <1>3, <1>4

LEMMA MovementsAfter ==
  ASSUME NEW b, NEW st0, StoreFits(b, st0), TopupsMoveOnce(st0), SpendsMoveOnce(st0),
         Unchosen("value-balance"), Unnamed,
         NEW i \in Inputs, Opens(st0, i), NEW all, Plan(st0, i, all), Planned(b, all),
         NEW k \in 1..Len(all), NEW st, PutSoFar(st0, all, k, st), Extends(st0, st)
  PROVE  MovementsOf(st) = MovementsOf(st0) \union Uses(st0, i, all)
<1>1. PICK A, B, C, D :
        /\ A = TopupsUsed(st) /\ B = TopupsUsed(st0)
        /\ C = SpendsUsed(st) /\ D = SpendsUsed(st0)
  OBVIOUS
<1>2. PICK p, q :
        /\ p = TopupApproval(st0, all[1].value.decision_id)
        /\ q = DebitApproval(st0, all[1].value.decision_id)
  OBVIOUS
<1>3. A = B \union (IF i.op = "balance" THEN {p} ELSE {})
  BY <1>1, <1>2, MovesAfter
<1>4. C = D \union (IF i.op = "spend-balance" THEN {q} ELSE {})
  BY <1>1, <1>2, DebitsAfter
<1>5. Uses(st0, i, all) = IF i.op = "balance" THEN {p}
                          ELSE IF i.op = "spend-balance" THEN {q} ELSE {}
  BY <1>2 DEF Uses
<1>6. MovementsOf(st) = A \union C /\ MovementsOf(st0) = B \union D
  BY <1>1 DEF MovementsOf, TopupsUsed, SpendsUsed
<1>7. CASE i.op = "balance"
  <2>1. A = B \union {p} /\ C = D /\ Uses(st0, i, all) = {p}
    BY <1>3, <1>4, <1>5, <1>7
  <2>2. QED
    BY <1>6, <2>1
<1>8. CASE i.op = "spend-balance"
  <2>1. A = B /\ C = D \union {q} /\ Uses(st0, i, all) = {q}
    BY <1>3, <1>4, <1>5, <1>8
  <2>2. QED
    BY <1>6, <2>1
<1>9. CASE i.op # "balance" /\ i.op # "spend-balance"
  <2>1. A = B /\ C = D /\ Uses(st0, i, all) = {}
    BY <1>3, <1>4, <1>5, <1>9
  <2>2. QED
    BY <1>6, <2>1
<1>10. QED
  BY <1>7, <1>8, <1>9

-----------------------------------------------------------------------------
(* What the surfaces hold once the puts that are due are taken as made.    *)

(* Nothing is due of a request that has no puts, or has all of them.       *)
LEMMA NoneDue ==
  ASSUME NEW x, \/ x = Idle
                \/ x.puts = <<>>
                \/ ~(Len(x.puts) < PutCount(x.input.op))
  PROVE  /\ \A s : DueOf(x, s) = {}
         /\ \A st, s : HeldSoon(st, x, s) = Held(st, Surface(s))
<1>1. \A s : DueOf(x, s) = {}
  BY DEF DueOf
<1>2. QED
  BY <1>1 DEF HeldSoon

(* What a plan makes of a surface.                                         *)
HeldDone(st0, all, s) ==
  IF \E j \in 1..Len(all) : all[j].key = Surface(s)
  THEN all[CHOOSE j \in 1..Len(all) : all[j].key = Surface(s)].value.balance_cents
  ELSE Held(st0, Surface(s))

Took(i, all) == IF i.op = "spend-balance" THEN all[1].value.amount_cents ELSE 0

PurseDone(st0, i, all) ==
  [p \in SurfaceIds \union {Outside} |->
     IF p = Outside THEN Spent(st0) + Took(i, all) ELSE HeldDone(st0, all, p)]

LEMMA HeldDoneOf ==
  ASSUME NEW b, NEW st0, NEW all, Planned(b, all), NEW s, NEW j \in 1..Len(all),
         all[j].key = Surface(s)
  PROVE  HeldDone(st0, all, s) = all[j].value.balance_cents
<1>1. PICK c : c = CHOOSE n \in 1..Len(all) : all[n].key = Surface(s)
  OBVIOUS
<1>2. c \in 1..Len(all) /\ all[c].key = Surface(s)
  BY <1>1
<1>3. c = j
  BY <1>2 DEF Planned
<1>4. QED
  BY <1>1, <1>3 DEF HeldDone

(* The request y has made the first k of its puts, and there are no more   *)
(* or it is to make the rest.                                              *)
Leaves(i, all, k, y) ==
  IF k = Len(all) THEN y = Idle
  ELSE y # Idle /\ y.input = i /\ IsSeq(y.puts) /\ Rest(all, k, y.puts)

LEMMA SoonIsDone ==
  ASSUME NEW b, NEW st0, NEW i \in Inputs, NEW all, Plan(st0, i, all), Planned(b, all),
         NEW k \in 1..Len(all), NEW st, PutSoFar(st0, all, k, st),
         NEW y, Leaves(i, all, k, y), NEW s \in SurfaceIds
  PROVE  HeldSoon(st, y, s) = HeldDone(st0, all, s)
<1>1. Surface(s) \in Keys /\ Surface(s)[1] = "value-surface"
  BY KeyOf, KindOf
<1>2. PICK n : n = Len(all)
  OBVIOUS
<1>3. n \in 1..5 /\ k \in 1..n /\ k \in Nat /\ n \in Nat
  BY <1>2 DEF Planned
<1>4. ASSUME k # n
      PROVE  /\ y # Idle /\ y.input = i /\ Len(y.puts) = n - k
             /\ DOMAIN y.puts = 1..(n - k)
             /\ \A q \in 1..(n - k) : y.puts[q] = all[q + k]
  <2>1. y # Idle /\ y.input = i /\ IsSeq(y.puts) /\ Rest(all, k, y.puts)
    BY <1>2, <1>4 DEF Leaves
  <2>2. PICK S : y.puts \in Seq(S)
    BY <2>1 DEF IsSeq
  <2>3. DOMAIN y.puts = 1..Len(y.puts)
    BY <2>2, LenProperties
  <2>4. QED
    BY <1>2, <2>1, <2>3 DEF Rest
<1>5. ASSUME NEW j \in 1..n, all[j].key = Surface(s), j <= k
      PROVE  HeldSoon(st, y, s) = all[j].value.balance_cents
  <2>1. st[Surface(s)] = all[j].value
    <3>1. j \in 1..k
      BY <1>3, <1>5
    <3>2. QED
      BY <1>5, <3>1 DEF PutSoFar
  <2>2. all[j].value # Absent
    <3>1. Shaped(b, all[j].key, all[j].value) /\ all[j].key[1] = "value-surface"
      BY <1>1, <1>2, <1>5 DEF Planned
    <3>2. QED
      BY <3>1, CirculationAssumption DEF Shaped
  <2>3. DueOf(y, s) = {}
    <3>1. CASE k = n
      BY <1>2, <3>1 DEF Leaves, DueOf
    <3>2. CASE k # n
      <4>1. \A q \in 1..(n - k) : q + k \in 1..n /\ q + k # j
        BY <1>3, <1>5
      <4>2. \A q \in 1..(n - k) : y.puts[q].key # Surface(s)
        BY <1>2, <1>4, <1>5, <3>2, <4>1 DEF Planned
      <4>3. \A q \in DOMAIN y.puts : y.puts[q].key # Surface(s)
        BY <1>4, <3>2, <4>2
      <4>4. QED
        BY <4>3 DEF DueOf
    <3>3. QED
      BY <3>1, <3>2
  <2>4. QED
    BY <2>1, <2>2, <2>3 DEF HeldSoon, Held
<1>6. ASSUME NEW j \in 1..n, all[j].key = Surface(s), ~(j <= k)
      PROVE  HeldSoon(st, y, s) = all[j].value.balance_cents
  <2>1. k # n /\ k < n
    BY <1>3, <1>6
  <2>2. Touches(i.op, "value-surface")
    BY <1>1, <1>2, <1>6, PlanTouches
  <2>3. i.op \notin SurfaceOps
    <3>1. i.op \in SurfaceOps => n = 1
      BY <1>2 DEF Plan, PlanSurface
    <3>2. n # 1
      BY <1>3, <2>1
    <3>3. QED
      BY <3>1, <3>2
  <2>4. PutCount(i.op) = n
    <3>1. CASE i.op = "balance"
      BY <1>2, <3>1 DEF PutCount, Plan, PlanBalance
    <3>2. CASE i.op = "spend-balance"
      BY <1>2, <3>2 DEF PutCount, Plan, PlanSpendBalance
    <3>3. QED
      BY <2>2, <2>3, <3>1, <3>2 DEF Touches
  <2>5. Len(y.puts) < PutCount(y.input.op) /\ y # Idle
    <3>1. n - k < n
      BY <1>3
    <3>2. QED
      BY <1>4, <2>1, <2>4, <3>1
  <2>6. PICK c : c = j - k
    OBVIOUS
  <2>7. c \in 1..(n - k) /\ c + k = j
    BY <1>3, <1>6, <2>6
  <2>8. y.puts[c] = all[j] /\ c \in DOMAIN y.puts
    BY <1>4, <2>1, <2>7
  <2>9. \A q \in DOMAIN y.puts : y.puts[q].key = Surface(s) => y.puts[q] = all[j]
    <3>1. \A q \in 1..(n - k) : q + k \in 1..n
      BY <1>3
    <3>2. \A q \in 1..(n - k) : all[q + k].key = Surface(s) => q + k = j
      BY <1>2, <1>6, <3>1 DEF Planned
    <3>3. \A q \in 1..(n - k) : y.puts[q].key = Surface(s) => y.puts[q] = all[j]
      BY <1>4, <2>1, <3>2
    <3>4. QED
      BY <1>4, <2>1, <3>3
  <2>10. {p \in {y.puts[q] : q \in DOMAIN y.puts} : p.key = Surface(s)} = {all[j]}
    BY <1>6, <2>8, <2>9
  <2>11. DueOf(y, s) = {all[j]}
    BY <2>5, <2>10 DEF DueOf
  <2>12. (CHOOSE p \in DueOf(y, s) : TRUE) = all[j]
    BY <2>11
  <2>13. QED
    BY <2>11, <2>12 DEF HeldSoon
<1>7. CASE \E j \in 1..n : all[j].key = Surface(s)
  <2>1. PICK j \in 1..n : all[j].key = Surface(s)
    BY <1>7
  <2>2. HeldDone(st0, all, s) = all[j].value.balance_cents
    BY <1>2, <2>1, HeldDoneOf
  <2>3. HeldSoon(st, y, s) = all[j].value.balance_cents
    BY <1>5, <1>6, <2>1
  <2>4. QED
    BY <2>2, <2>3
<1>8. CASE \A j \in 1..n : all[j].key # Surface(s)
  <2>1. st[Surface(s)] = st0[Surface(s)]
    <3>1. \A j \in 1..k : all[j].key # Surface(s)
      BY <1>3, <1>8
    <3>2. QED
      BY <1>1, <3>1 DEF PutSoFar
  <2>2. DueOf(y, s) = {}
    <3>1. CASE k = n
      BY <1>2, <3>1 DEF Leaves, DueOf
    <3>2. CASE k # n
      <4>1. \A q \in 1..(n - k) : q + k \in 1..n
        BY <1>3
      <4>2. \A q \in 1..(n - k) : y.puts[q].key # Surface(s)
        BY <1>4, <1>8, <3>2, <4>1
      <4>3. \A q \in DOMAIN y.puts : y.puts[q].key # Surface(s)
        BY <1>4, <3>2, <4>2
      <4>4. QED
        BY <4>3 DEF DueOf
    <3>3. QED
      BY <3>1, <3>2
  <2>3. HeldDone(st0, all, s) = Held(st0, Surface(s))
    BY <1>2, <1>8 DEF HeldDone
  <2>4. QED
    BY <2>1, <2>2, <2>3 DEF HeldSoon, Held
<1>9. QED
  BY <1>7, <1>8

(* What the debits took, once a plan has started.                          *)
LEMMA SpentAfter ==
  ASSUME NEW b, NEW st0, StoreFits(b, st0), Countable, Unnamed,
         NEW i \in Inputs, Opens(st0, i), NEW all, Plan(st0, i, all), Planned(b, all),
         NEW k \in 1..Len(all), NEW st, StoreFits(b, st), PutSoFar(st0, all, k, st)
  PROVE  Spent(st) = Spent(st0) + Took(i, all)
<1>1. /\ k \in 0..Len(all) /\ Len(all) \in Nat /\ k \in Nat /\ k >= 1 /\ 1 \in 1..k
      /\ 1 \in 1..Len(all)
  BY DEF Planned
<1>2. CASE i.op # "spend-balance"
  <2>1. \A c \in Pool["value-spend-balance"] : st[SpendBalance(c)] = st0[SpendBalance(c)]
    <3>1. ~Touches(i.op, "value-spend-balance")
      BY <1>2 DEF Touches
    <3>2. QED
      BY <1>1, <3>1, Untouched, KeyOf, KindOf
  <2>2. Spent(st) = Spent(st0)
    BY <2>1, SpentSame
  <2>3. Spent(st0) \in Int
    BY BooksAreNumbers
  <2>4. Took(i, all) = 0
    BY <1>2 DEF Took
  <2>5. QED
    BY <2>2, <2>3, <2>4
<1>3. CASE i.op = "spend-balance"
  <2>1. PICK t, c : t = st0[Spend(i.spend)] /\ c = CitedSpendDecision(i, t)
    OBVIOUS
  <2>2. /\ Len(all) = 4
        /\ all[1].key = SpendBalance(i.new) /\ all[2].key = Surface(t.surface)
        /\ all[3].key = Spend(i.spend) /\ all[4].key = SpendDecision(c)
    BY <1>3, <2>1 DEF Plan, PlanSpendBalance
  <2>3. i.new \in Pool["value-spend-balance"] /\ st0[SpendBalance(i.new)] = Absent
    BY <1>3, InputsOf DEF Opens
  <2>4. st[SpendBalance(i.new)] = all[1].value
    BY <1>1, <2>2 DEF PutSoFar
  <2>5. all[1].value # Absent
    <3>1. all[1].key[1] = "value-spend-balance"
      BY <2>2, KindOf
    <3>2. Shaped(b, all[1].key, all[1].value)
      BY <1>1 DEF Planned
    <3>3. all[1].value \in SpendBalanceRecord
      BY <3>1, <3>2 DEF Shaped
    <3>4. QED
      BY <3>3, CirculationAssumption
  <2>6. ASSUME NEW m \in Pool["value-spend-balance"], m # i.new
        PROVE  st[SpendBalance(m)] = st0[SpendBalance(m)]
    <3>1. /\ SpendBalance(m) \in Keys /\ SpendBalance(m)[1] = "value-spend-balance"
          /\ SpendBalance(m)[2] = m
      BY KeyOf, KindOf
    <3>2. /\ all[1].key[2] = i.new
          /\ all[2].key[1] = "value-surface" /\ all[3].key[1] = "value-spend"
          /\ all[4].key[1] = "value-spend-decision"
      BY <2>2, KindOf
    <3>3. \A q \in 1..4 : q \in {1, 2, 3, 4}
      OBVIOUS
    <3>4. ASSUME NEW q \in 1..k PROVE all[q].key # SpendBalance(m)
      <4>1. q \in {1, 2, 3, 4}
        BY <1>1, <2>2, <3>3
      <4>2. QED
        BY <2>6, <3>1, <3>2, <4>1
    <3>5. QED
      BY <3>1, <3>4 DEF PutSoFar
  <2>7. Spent(st) = Spent(st0) + st[SpendBalance(i.new)].amount_cents
    BY <2>3, <2>4, <2>5, <2>6, SpentPoint
  <2>8. QED
    BY <1>3, <2>4, <2>7 DEF Took
<1>4. QED
  BY <1>2, <1>3

LEMMA PurseAfter ==
  ASSUME NEW b, NEW st0, StoreFits(b, st0), Countable, Unnamed, Outside \notin SurfaceIds,
         NEW i \in Inputs, Opens(st0, i), NEW all, Plan(st0, i, all), Planned(b, all),
         NEW k \in 1..Len(all), NEW st, StoreFits(b, st), PutSoFar(st0, all, k, st),
         NEW y, Leaves(i, all, k, y)
  PROVE  PurseOf(st, y) = PurseDone(st0, i, all)
<1>1. Spent(st) = Spent(st0) + Took(i, all)
  BY SpentAfter
<1>2. \A s \in SurfaceIds : HeldSoon(st, y, s) = HeldDone(st0, all, s)
  BY SoonIsDone
<1>3. QED
  BY <1>1, <1>2 DEF PurseOf, PurseDone

(* Before its first put nothing is different yet.                          *)
LEMMA ViewsBefore ==
  ASSUME NEW b, NEW st0, StoreFits(b, st0), TopupsMoveOnce(st0), SpendsMoveOnce(st0),
         NEW st, DOMAIN st = Keys, \A key \in Keys : st[key] = st0[key]
  PROVE  /\ Spent(st) = Spent(st0)
         /\ \A s \in SurfaceIds : Held(st, Surface(s)) = Held(st0, Surface(s))
         /\ ApprovalsOf(st) = ApprovalsOf(st0)
         /\ MovementsOf(st) = MovementsOf(st0)
<1>1. /\ \A s \in SurfaceIds : st[Surface(s)] = st0[Surface(s)]
      /\ \A d \in Pool["value-topup-decision"] : st[TopupDecision(d)] = st0[TopupDecision(d)]
      /\ \A d \in Pool["value-spend-decision"] : st[SpendDecision(d)] = st0[SpendDecision(d)]
      /\ \A d \in Pool["value-balance"] : st[BalanceMove(d)] = st0[BalanceMove(d)]
      /\ \A d \in Pool["value-spend-balance"] : st[SpendBalance(d)] = st0[SpendBalance(d)]
  BY KeyOf
<1>2. Spent(st) = Spent(st0)
  BY <1>1, SpentSame
<1>3. \A s \in SurfaceIds : Held(st, Surface(s)) = Held(st0, Surface(s))
  BY <1>1 DEF Held
<1>4. /\ \A d \in Pool["value-topup-decision"] : TopupApproval(st, d) = TopupApproval(st0, d)
      /\ \A d \in Pool["value-spend-decision"] : DebitApproval(st, d) = DebitApproval(st0, d)
  BY <1>1 DEF TopupApproval, DebitApproval
<1>5. ApprovalsOf(st) = ApprovalsOf(st0)
  <2>1. ApprovedTopups(st) = ApprovedTopups(st0)
    BY <1>1 DEF ApprovedTopups
  <2>2. ApprovedSpends(st) = ApprovedSpends(st0)
    BY <1>1 DEF ApprovedSpends
  <2>3. {TopupApproval(st, d) : d \in ApprovedTopups(st)}
          = {TopupApproval(st0, d) : d \in ApprovedTopups(st0)}
    BY <1>4, <2>1 DEF ApprovedTopups
  <2>4. {DebitApproval(st, d) : d \in ApprovedSpends(st)}
          = {DebitApproval(st0, d) : d \in ApprovedSpends(st0)}
    BY <1>4, <2>2 DEF ApprovedSpends
  <2>5. QED
    BY <2>3, <2>4 DEF ApprovalsOf
<1>6. MovementsOf(st) = MovementsOf(st0)
  <2>1. MovesIn(st) = MovesIn(st0)
    BY <1>1 DEF MovesIn
  <2>2. DebitsIn(st) = DebitsIn(st0)
    BY <1>1 DEF DebitsIn
  <2>3. \A m \in MovesIn(st0) :
          st0[BalanceMove(m)].decision_id \in Pool["value-topup-decision"]
    <3>1. \A m \in Pool["value-balance"] :
            BalanceMove(m) \in Keys /\ BalanceMove(m)[1] = "value-balance"
      BY KeyOf, KindOf
    <3>2. \A m \in MovesIn(st0) : st0[BalanceMove(m)] \in BalanceRecord
      BY <3>1 DEF MovesIn, StoreFits, Fine, Shaped
    <3>3. QED
      BY <3>2 DEF BalanceRecord
  <2>4. \A m \in DebitsIn(st0) :
          st0[SpendBalance(m)].decision_id \in Pool["value-spend-decision"]
    <3>1. \A m \in Pool["value-spend-balance"] :
            SpendBalance(m) \in Keys /\ SpendBalance(m)[1] = "value-spend-balance"
      BY KeyOf, KindOf
    <3>2. \A m \in DebitsIn(st0) : st0[SpendBalance(m)] \in SpendBalanceRecord
      BY <3>1 DEF DebitsIn, StoreFits, Fine, Shaped
    <3>3. QED
      BY <3>2 DEF SpendBalanceRecord
  <2>5. \A m \in MovesIn(st0) :
          TopupApproval(st, st[BalanceMove(m)].decision_id)
            = TopupApproval(st0, st0[BalanceMove(m)].decision_id)
    BY <1>1, <1>4, <2>3 DEF MovesIn
  <2>6. \A m \in DebitsIn(st0) :
          DebitApproval(st, st[SpendBalance(m)].decision_id)
            = DebitApproval(st0, st0[SpendBalance(m)].decision_id)
    BY <1>1, <1>4, <2>4 DEF DebitsIn
  <2>7. {TopupApproval(st, st[BalanceMove(m)].decision_id) : m \in MovesIn(st)}
          = {TopupApproval(st0, st0[BalanceMove(m)].decision_id) : m \in MovesIn(st0)}
    BY <2>1, <2>5
  <2>8. {DebitApproval(st, st[SpendBalance(m)].decision_id) : m \in DebitsIn(st)}
          = {DebitApproval(st0, st0[SpendBalance(m)].decision_id) : m \in DebitsIn(st0)}
    BY <2>2, <2>6
  <2>9. QED
    BY <2>7, <2>8 DEF MovementsOf
<1>7. QED
  BY <1>2, <1>3, <1>5, <1>6

-----------------------------------------------------------------------------
(* The first put of a plan is a step of the ledger.                        *)

(* A step of the ledger, or none, between two of its states.               *)
LedgerMove(pu, tot, ap, us, pu2, tot2, ap2, us2) ==
  \/ pu2 = pu /\ tot2 = tot /\ ap2 = ap /\ us2 = us
  \/ \E s \in SurfaceIds :
       /\ pu2 = [pu EXCEPT ![s] = pu2[s]]
       /\ tot2 = tot + pu2[s] - pu[s]
       /\ ap2 = ap /\ us2 = us
  \/ \E a \in ap2 \ ap :
       /\ a.id \notin {c.id : c \in ap}
       /\ a.amount > 0 /\ a.amount <= pu[a.from]
       /\ ap2 = ap \union {a}
       /\ pu2 = pu /\ tot2 = tot /\ us2 = us
  \/ \E a \in ap :
       /\ a \notin us /\ a.amount <= pu[a.from]
       /\ pu2 = [pu EXCEPT ![a.from] = @ - a.amount, ![a.to] = @ + a.amount]
       /\ us2 = us \union {a}
       /\ tot2 = tot /\ ap2 = ap

PurseThen(st) ==
  [p \in SurfaceIds \union {Outside} |->
     IF p = Outside THEN Spent(st) ELSE Held(st, Surface(p))]

PlanMoves(st0, i, all, dec) ==
  LedgerMove(PurseThen(st0), dec, ApprovalsOf(st0), MovementsOf(st0),
             PurseDone(st0, i, all), dec + Declared(st0, i, all),
             ApprovalsOf(st0) \union Gives(i, all),
             MovementsOf(st0) \union Uses(st0, i, all))

(* A plan that puts no surface leaves every purse as it was.               *)
LEMMA PurseStays ==
  ASSUME NEW b, NEW st0, StoreFits(b, st0), Countable,
         NEW i \in Inputs, ~Touches(i.op, "value-surface"),
         NEW all, Plan(st0, i, all), Planned(b, all)
  PROVE  PurseDone(st0, i, all) = PurseThen(st0)
<1>1. Spent(st0) \in Int
  BY BooksAreNumbers
<1>2. Took(i, all) = 0
  BY DEF Took, Touches
<1>3. ASSUME NEW s \in SurfaceIds
      PROVE  HeldDone(st0, all, s) = Held(st0, Surface(s))
  <2>1. Surface(s)[1] = "value-surface"
    BY KindOf
  <2>2. \A j \in 1..Len(all) : all[j].key # Surface(s)
    BY <2>1, PlanTouches
  <2>3. QED
    BY <2>2 DEF HeldDone
<1>4. Spent(st0) + Took(i, all) = Spent(st0)
  BY <1>1, <1>2
<1>5. QED
  BY <1>3, <1>4 DEF PurseDone, PurseThen

(* Other workers do nothing that the ledger speaks of.                     *)
LEMMA OtherStep ==
  ASSUME NEW b, NEW st0, StoreFits(b, st0), Countable,
         NEW i \in Inputs,
         i.op \in {"topup", "spend", "limit-check", "receipt", "refund", "refund-decision"},
         NEW all, Plan(st0, i, all), Planned(b, all), NEW dec \in Int
  PROVE  PlanMoves(st0, i, all, dec)
<1>1. ~Touches(i.op, "value-surface")
  BY DEF Touches, SurfaceOps
<1>2. PurseDone(st0, i, all) = PurseThen(st0)
  BY <1>1, PurseStays
<1>3. Declared(st0, i, all) = 0
  BY DEF Declared, Declares
<1>4. dec + Declared(st0, i, all) = dec
  BY <1>3
<1>5. Gives(i, all) = {} /\ Uses(st0, i, all) = {}
  BY DEF Gives, Uses
<1>6. QED
  BY <1>2, <1>4, <1>5 DEF PlanMoves, LedgerMove

(* A surface that is put declares what it holds.                           *)
LEMMA DeclareStep ==
  ASSUME NEW b, NEW st0, StoreFits(b, st0), Countable, Outside \notin SurfaceIds,
         NEW i \in Inputs, i.op \in SurfaceOps,
         NEW all, Plan(st0, i, all), Planned(b, all), NEW dec \in Int
  PROVE  PlanMoves(st0, i, all, dec)
<1>1. PlanSurface(st0, i, all)
  BY DEF Plan
<1>2. PICK s \in SurfaceIds :
        /\ all[1].key = Surface(s)
        /\ i.op # "register" =>
             st0[Surface(s)] # Absent /\ st0[Surface(s)].identity_id = i.identity_id
        /\ ~Declares(i) => all[1].value.balance_cents = st0[Surface(s)].balance_cents
  BY <1>1 DEF PlanSurface
<1>3. Len(all) = 1
  BY <1>1 DEF PlanSurface
<1>4. HeldDone(st0, all, s) = all[1].value.balance_cents
  BY <1>2, <1>3, HeldDoneOf
<1>5. ASSUME NEW q \in SurfaceIds, q # s
      PROVE  HeldDone(st0, all, q) = Held(st0, Surface(q))
  <2>1. \A j \in 1..Len(all) : j = 1
    BY <1>3
  <2>2. Surface(q) # Surface(s)
    BY <1>5, KindOf
  <2>3. \A j \in 1..Len(all) : all[j].key # Surface(q)
    BY <1>2, <2>1, <2>2
  <2>4. QED
    BY <2>3 DEF HeldDone
<1>6. Took(i, all) = 0 /\ Gives(i, all) = {} /\ Uses(st0, i, all) = {}
  BY DEF Took, Gives, Uses, SurfaceOps
<1>7. PICK D, P, Q : /\ D = SurfaceIds \union {Outside}
                     /\ P = PurseThen(st0) /\ Q = PurseDone(st0, i, all)
  OBVIOUS
<1>8. Spent(st0) \in Int
  BY BooksAreNumbers
<1>9. /\ P = [p \in D |-> P[p]] /\ Q = [p \in D |-> Q[p]]
      /\ \A p \in D : p # s => Q[p] = P[p]
  <2>1. P = [p \in D |-> P[p]] /\ Q = [p \in D |-> Q[p]]
    BY <1>7 DEF PurseThen, PurseDone
  <2>2. Spent(st0) + Took(i, all) = Spent(st0)
    BY <1>6, <1>8
  <2>3. Q[Outside] = P[Outside]
    BY <1>7, <2>2 DEF PurseThen, PurseDone
  <2>4. \A p \in SurfaceIds : p # s => Q[p] = P[p]
    BY <1>5, <1>7 DEF PurseThen, PurseDone
  <2>5. QED
    BY <1>7, <2>1, <2>3, <2>4
<1>10. s \in D /\ P[s] = Held(st0, Surface(s)) /\ Q[s] = all[1].value.balance_cents
  BY <1>2, <1>4, <1>7 DEF PurseThen, PurseDone
<1>11. Q = [P EXCEPT ![s] = Q[s]]
  BY <1>9, <1>10
<1>12. P[s] \in Int /\ Q[s] \in Int
  <2>1. Balances(st0) \in [SurfaceIds -> Int]
    BY BooksTyped
  <2>2. Held(st0, Surface(s)) \in Int
    BY <1>2, <2>1 DEF Balances
  <2>3. Shaped(b, all[1].key, all[1].value) /\ all[1].key[1] = "value-surface"
    BY <1>2, <1>3, KindOf DEF Planned
  <2>4. all[1].value \in SurfaceRecord
    BY <2>3 DEF Shaped
  <2>5. all[1].value.balance_cents \in Int
    BY <2>4 DEF SurfaceRecord
  <2>6. QED
    BY <1>10, <2>2, <2>5
<1>13. Declared(st0, i, all) = Q[s] - P[s]
  <2>1. CASE Declares(i)
    BY <1>2, <1>10, <2>1 DEF Declared
  <2>2. CASE ~Declares(i)
    <3>1. i.op # "register"
      BY <2>2 DEF Declares
    <3>2. Held(st0, Surface(s)) = all[1].value.balance_cents
      BY <1>2, <2>2, <3>1 DEF Held
    <3>3. Declared(st0, i, all) = 0
      BY <2>2 DEF Declared
    <3>4. QED
      BY <1>10, <1>12, <3>2, <3>3
  <2>3. QED
    BY <2>1, <2>2
<1>14. dec + Declared(st0, i, all) = dec + Q[s] - P[s]
  BY <1>12, <1>13
<1>15. QED
  BY <1>2, <1>6, <1>7, <1>11, <1>14 DEF PlanMoves, LedgerMove

(* A topup that is approved becomes an approval, a new one.                *)
LEMMA ApproveTopupStep ==
  ASSUME NEW b, NEW st0, StoreFits(b, st0), Countable, Outside \notin SurfaceIds,
         NEW i \in Inputs, i.op = "topup-decision", Opens(st0, i),
         NEW all, Plan(st0, i, all), Planned(b, all), NEW dec \in Int
  PROVE  PlanMoves(st0, i, all, dec)
<1>1. ~Touches(i.op, "value-surface")
  BY DEF Touches, SurfaceOps
<1>2. PICK P : P = PurseThen(st0)
  OBVIOUS
<1>3. PurseDone(st0, i, all) = P
  BY <1>1, <1>2, PurseStays
<1>4. dec + Declared(st0, i, all) = dec
  BY DEF Declared, Declares
<1>5. Uses(st0, i, all) = {}
  BY DEF Uses
<1>6. CASE all[1].value.decision # "approved"
  <2>1. Gives(i, all) = {}
    BY <1>6 DEF Gives
  <2>2. QED
    BY <1>2, <1>3, <1>4, <1>5, <2>1 DEF PlanMoves, LedgerMove
<1>7. CASE all[1].value.decision = "approved"
  <2>1. PICK t : t = st0[Topup(i.topup)]
    OBVIOUS
  <2>2. /\ t # Absent /\ all[1].key = TopupDecision(i.new)
        /\ all[1].value.from = t.from /\ all[1].value.to = t.to
        /\ all[1].value.amount_cents = t.amount_cents
        /\ t.amount_cents > 0
        /\ st0[Surface(t.from)] # Absent
        /\ t.amount_cents <= st0[Surface(t.from)].balance_cents
    BY <1>7, <2>1 DEF Plan, PlanTopupDecision
  <2>3. t.from \in SurfaceIds
    <3>1. i.topup \in Pool["value-topup"]
      BY InputsOf
    <3>2. Topup(i.topup) \in Keys /\ Topup(i.topup)[1] = "value-topup"
      BY <3>1, KeyOf, KindOf
    <3>3. t \in TopupRecord
      BY <2>1, <2>2, <3>2 DEF StoreFits, Fine, Shaped
    <3>4. QED
      BY <3>3 DEF TopupRecord
  <2>4. PICK a : a = [id |-> all[1].key, from |-> all[1].value.from, to |-> all[1].value.to,
                      amount |-> all[1].value.amount_cents]
    OBVIOUS
  <2>5. Gives(i, all) = {a}
    BY <1>7, <2>4 DEF Gives
  <2>6. a.id = TopupDecision(i.new) /\ a.from = t.from /\ a.amount = t.amount_cents
    BY <2>2, <2>4
  <2>7. P[t.from] = st0[Surface(t.from)].balance_cents
    BY <1>2, <2>2, <2>3 DEF PurseThen, Held
  <2>8. a.amount > 0 /\ a.amount <= P[a.from]
    BY <2>2, <2>6, <2>7
  <2>9. a.id \notin {c.id : c \in ApprovalsOf(st0)}
    <3>1. st0[TopupDecision(i.new)] = Absent
      BY DEF Opens
    <3>2. \A d \in ApprovedTopups(st0) : TopupApproval(st0, d).id # a.id
      BY <2>6, <3>1 DEF ApprovedTopups, TopupApproval
    <3>3. \A d : DebitApproval(st0, d).id # a.id
      <4>1. \A d : SpendDecision(d)[1] = "value-spend-decision"
        BY KindOf
      <4>2. TopupDecision(i.new)[1] = "value-topup-decision"
        BY KindOf
      <4>3. \A d : SpendDecision(d) # TopupDecision(i.new)
        BY <4>1, <4>2
      <4>4. QED
        BY <2>6, <4>3 DEF DebitApproval
    <3>4. QED
      BY <3>2, <3>3 DEF ApprovalsOf
  <2>10. a \notin ApprovalsOf(st0)
    BY <2>9
  <2>11. PICK A : A = ApprovalsOf(st0)
    OBVIOUS
  <2>12. \E c \in (A \union {a}) \ A :
           /\ c.id \notin {e.id : e \in A}
           /\ c.amount > 0 /\ c.amount <= P[c.from]
           /\ A \union {a} = A \union {c}
    BY <2>8, <2>9, <2>10, <2>11
  <2>13. MovementsOf(st0) \union Uses(st0, i, all) = MovementsOf(st0)
    BY <1>5
  <2>14. QED
    BY <1>2, <1>3, <1>4, <2>5, <2>11, <2>12, <2>13 DEF PlanMoves, LedgerMove
<1>8. QED
  BY <1>6, <1>7

(* And so does a spend.                                                    *)
LEMMA ApproveSpendStep ==
  ASSUME NEW b, NEW st0, StoreFits(b, st0), Countable, Outside \notin SurfaceIds,
         NEW i \in Inputs, i.op = "spend-decision", Opens(st0, i),
         NEW all, Plan(st0, i, all), Planned(b, all), NEW dec \in Int
  PROVE  PlanMoves(st0, i, all, dec)
<1>1. ~Touches(i.op, "value-surface")
  BY DEF Touches, SurfaceOps
<1>2. PICK P : P = PurseThen(st0)
  OBVIOUS
<1>3. PurseDone(st0, i, all) = P
  BY <1>1, <1>2, PurseStays
<1>4. dec + Declared(st0, i, all) = dec
  BY DEF Declared, Declares
<1>5. Uses(st0, i, all) = {}
  BY DEF Uses
<1>6. CASE all[1].value.decision # "approved"
  <2>1. Gives(i, all) = {}
    BY <1>6 DEF Gives
  <2>2. QED
    BY <1>2, <1>3, <1>4, <1>5, <2>1 DEF PlanMoves, LedgerMove
<1>7. CASE all[1].value.decision = "approved"
  <2>1. PICK t : t = st0[Spend(i.spend)]
    OBVIOUS
  <2>2. /\ t # Absent /\ all[1].key = SpendDecision(i.new)
        /\ all[1].value.surface = t.surface
        /\ all[1].value.amount_cents = t.amount_cents
        /\ t.amount_cents > 0
        /\ st0[Surface(t.surface)] # Absent
        /\ t.amount_cents <= st0[Surface(t.surface)].balance_cents
    BY <1>7, <2>1 DEF Plan, PlanSpendDecision
  <2>3. t.surface \in SurfaceIds
    <3>1. i.spend \in Pool["value-spend"]
      BY InputsOf
    <3>2. Spend(i.spend) \in Keys /\ Spend(i.spend)[1] = "value-spend"
      BY <3>1, KeyOf, KindOf
    <3>3. t \in SpendRecord
      BY <2>1, <2>2, <3>2 DEF StoreFits, Fine, Shaped, IsSpend
    <3>4. QED
      BY <3>3 DEF SpendRecord
  <2>4. PICK a : a = [id |-> all[1].key, from |-> all[1].value.surface, to |-> Outside,
                      amount |-> all[1].value.amount_cents]
    OBVIOUS
  <2>5. Gives(i, all) = {a}
    BY <1>7, <2>4 DEF Gives
  <2>6. a.id = SpendDecision(i.new) /\ a.from = t.surface /\ a.amount = t.amount_cents
    BY <2>2, <2>4
  <2>7. P[t.surface] = st0[Surface(t.surface)].balance_cents
    BY <1>2, <2>2, <2>3 DEF PurseThen, Held
  <2>8. a.amount > 0 /\ a.amount <= P[a.from]
    BY <2>2, <2>6, <2>7
  <2>9. a.id \notin {c.id : c \in ApprovalsOf(st0)}
    <3>1. st0[SpendDecision(i.new)] = Absent
      BY DEF Opens
    <3>2. \A d \in ApprovedSpends(st0) : DebitApproval(st0, d).id # a.id
      BY <2>6, <3>1 DEF ApprovedSpends, DebitApproval
    <3>3. \A d : TopupApproval(st0, d).id # a.id
      <4>1. \A d : TopupDecision(d)[1] = "value-topup-decision"
        BY KindOf
      <4>2. SpendDecision(i.new)[1] = "value-spend-decision"
        BY KindOf
      <4>3. \A d : TopupDecision(d) # SpendDecision(i.new)
        BY <4>1, <4>2
      <4>4. QED
        BY <2>6, <4>3 DEF TopupApproval
    <3>4. QED
      BY <3>2, <3>3 DEF ApprovalsOf
  <2>10. a \notin ApprovalsOf(st0)
    BY <2>9
  <2>11. PICK A : A = ApprovalsOf(st0)
    OBVIOUS
  <2>12. \E c \in (A \union {a}) \ A :
           /\ c.id \notin {e.id : e \in A}
           /\ c.amount > 0 /\ c.amount <= P[c.from]
           /\ A \union {a} = A \union {c}
    BY <2>8, <2>9, <2>10, <2>11
  <2>13. MovementsOf(st0) \union Uses(st0, i, all) = MovementsOf(st0)
    BY <1>5
  <2>14. QED
    BY <1>2, <1>3, <1>4, <2>5, <2>11, <2>12, <2>13 DEF PlanMoves, LedgerMove
<1>8. QED
  BY <1>6, <1>7

(* A movement uses the approval of its topup, which none has used.         *)
LEMMA MoveStep ==
  ASSUME NEW b, NEW st0, StoreFits(b, st0), Countable, Outside \notin SurfaceIds, Uncited,
         Straight(st0), TopupsMoveOnce(st0),
         NEW i \in Inputs, i.op = "balance", Opens(st0, i),
         NEW all, Plan(st0, i, all), Planned(b, all), NEW dec \in Int
  PROVE  PlanMoves(st0, i, all, dec)
<1>1. PICK t, c : t = st0[Topup(i.topup)] /\ c = CitedTopupDecision(i, t)
  OBVIOUS
<1>2. /\ t # Absent /\ MayMove(t) /\ c \in Pool["value-topup-decision"]
      /\ st0[TopupDecision(c)] # Absent /\ Approves(st0[TopupDecision(c)], i)
      /\ ~Denied(st0[Surface(t.from)], i) /\ ~Denied(st0[Surface(t.to)], i)
      /\ Covers(st0[Surface(t.from)], t)
      /\ Len(all) = 5
      /\ all[1].key = BalanceMove(i.new) /\ all[2].key = Surface(t.from)
      /\ all[3].key = Surface(t.to) /\ all[4].key = Topup(i.topup)
      /\ all[5].key = TopupDecision(c)
      /\ all[1].value.decision_id = c
      /\ all[2].value.balance_cents = st0[Surface(t.from)].balance_cents - t.amount_cents
      /\ all[3].value.balance_cents = st0[Surface(t.to)].balance_cents + t.amount_cents
  BY <1>1 DEF Plan, PlanBalance
<1>3. c = t.decision_id
  BY <1>1 DEF Opens, CitedTopupDecision
<1>4. i.topup \in Pool["value-topup"]
  BY InputsOf
<1>5. Topup(i.topup) \in Keys /\ Topup(i.topup)[1] = "value-topup" /\ Topup(i.topup)[2] = i.topup
  BY <1>4, KeyOf, KindOf
<1>6. t \in TopupRecord /\ TopupBacked(st0, i.topup, t)
  BY <1>1, <1>2, <1>5 DEF StoreFits, Fine, Shaped, Genuine
<1>7. t.from \in SurfaceIds /\ t.to \in SurfaceIds /\ t.amount_cents \in Int
  BY <1>6, CirculationAssumption DEF TopupRecord
<1>8. t.from # t.to
  BY <1>1, <1>2, <1>4 DEF Straight
<1>9. PICK a, n : a = TopupApproval(st0, c) /\ n = t.amount_cents
  OBVIOUS
<1>10. ApprovalOfTopup(st0[TopupDecision(c)], i.topup, t)
  BY <1>2, <1>3, <1>6 DEF TopupBacked, MayMove
<1>11. /\ a.id = TopupDecision(c) /\ a.from = t.from /\ a.to = t.to /\ a.amount = n
  BY <1>9, <1>10 DEF TopupApproval, ApprovalOfTopup
<1>12. a \in ApprovalsOf(st0)
  <2>1. c \in ApprovedTopups(st0)
    BY <1>2 DEF ApprovedTopups, Approves
  <2>2. QED
    BY <1>9, <2>1 DEF ApprovalsOf
<1>13. a \notin MovementsOf(st0)
  <2>1. ASSUME NEW m \in MovesIn(st0)
        PROVE  TopupApproval(st0, st0[BalanceMove(m)].decision_id).id # a.id
    <3>1. st0[BalanceMove(m)].decision_id # c
      BY <1>1, <1>2, <1>3, <1>4, <2>1 DEF MovesIn, TopupsMoveOnce
    <3>2. TopupDecision(st0[BalanceMove(m)].decision_id) # TopupDecision(c)
      BY <3>1 DEF TopupDecision
    <3>3. QED
      BY <1>11, <3>2 DEF TopupApproval
  <2>2. \A d : DebitApproval(st0, d).id # a.id
    <3>1. \A d : SpendDecision(d)[1] = "value-spend-decision"
      BY KindOf
    <3>2. TopupDecision(c)[1] = "value-topup-decision"
      BY KindOf
    <3>3. \A d : SpendDecision(d) # TopupDecision(c)
      BY <3>1, <3>2
    <3>4. QED
      BY <1>11, <3>3 DEF DebitApproval
  <2>3. QED
    BY <2>1, <2>2 DEF MovementsOf
<1>14. PICK D, P, Q : /\ D = SurfaceIds \union {Outside}
                      /\ P = PurseThen(st0) /\ Q = PurseDone(st0, i, all)
  OBVIOUS
<1>15. /\ P = [p \in D |-> P[p]] /\ Q = [p \in D |-> Q[p]]
       /\ t.from \in D /\ t.to \in D
  BY <1>7, <1>14 DEF PurseThen, PurseDone
<1>16. /\ st0[Surface(t.from)] # Absent /\ st0[Surface(t.to)] # Absent
       /\ n <= st0[Surface(t.from)].balance_cents
  <2>1. st0[Surface(t.from)] # Absent /\ st0[Surface(t.to)] # Absent
    BY <1>2 DEF Denied
  <2>2. st0[Surface(t.from)].balance_cents \in Int
    <3>1. Balances(st0) \in [SurfaceIds -> Int]
      BY BooksTyped
    <3>2. Held(st0, Surface(t.from)) \in Int
      BY <1>7, <3>1 DEF Balances
    <3>3. QED
      BY <2>1, <3>2 DEF Held
  <2>3. st0[Surface(t.from)].balance_cents >= n
    BY <1>2, <1>9 DEF Covers
  <2>4. QED
    BY <1>7, <1>9, <2>1, <2>2, <2>3
<1>17. /\ P[t.from] = st0[Surface(t.from)].balance_cents
       /\ P[t.to] = st0[Surface(t.to)].balance_cents
  BY <1>7, <1>14, <1>16 DEF PurseThen, Held
<1>18. /\ Q[t.from] = all[2].value.balance_cents
       /\ Q[t.to] = all[3].value.balance_cents
  <2>1. 2 \in 1..Len(all) /\ 3 \in 1..Len(all)
    BY <1>2
  <2>2. HeldDone(st0, all, t.from) = all[2].value.balance_cents
    BY <1>2, <2>1, HeldDoneOf
  <2>3. HeldDone(st0, all, t.to) = all[3].value.balance_cents
    BY <1>2, <2>1, HeldDoneOf
  <2>4. QED
    BY <1>7, <1>14, <2>2, <2>3 DEF PurseDone
<1>19. ASSUME NEW q \in D, q # t.from, q # t.to
       PROVE  Q[q] = P[q]
  <2>1. CASE q = Outside
    <3>1. Took(i, all) = 0
      BY DEF Took
    <3>2. Spent(st0) \in Int
      BY BooksAreNumbers
    <3>3. Spent(st0) + Took(i, all) = Spent(st0)
      BY <3>1, <3>2
    <3>4. QED
      BY <1>14, <2>1, <3>3 DEF PurseDone, PurseThen
  <2>2. CASE q # Outside
    <3>1. q \in SurfaceIds
      BY <1>14, <1>19, <2>2
    <3>2. \A j \in 1..5 : j \in {1, 2, 3, 4, 5}
      OBVIOUS
    <3>3. Surface(q)[1] = "value-surface" /\ Surface(q)[2] = q
      BY KindOf
    <3>4. /\ all[1].key[1] = "value-balance" /\ all[4].key[1] = "value-topup"
          /\ all[5].key[1] = "value-topup-decision"
          /\ all[2].key[2] = t.from /\ all[3].key[2] = t.to
      BY <1>2, KindOf
    <3>5. ASSUME NEW j \in 1..Len(all) PROVE all[j].key # Surface(q)
      <4>1. j \in {1, 2, 3, 4, 5}
        BY <1>2, <3>2
      <4>2. QED
        BY <1>19, <3>3, <3>4, <4>1
    <3>6. HeldDone(st0, all, q) = Held(st0, Surface(q))
      BY <3>5 DEF HeldDone
    <3>7. QED
      BY <1>14, <2>2, <3>1, <3>6 DEF PurseDone, PurseThen
  <2>3. QED
    BY <2>1, <2>2
<1>20. Q[t.from] = P[t.from] - n /\ Q[t.to] = P[t.to] + n
  BY <1>2, <1>9, <1>17, <1>18
<1>21. Q = [P EXCEPT ![a.from] = @ - a.amount, ![a.to] = @ + a.amount]
  <2>1. PICK f, g : f = t.from /\ g = t.to
    OBVIOUS
  <2>2. f \in D /\ g \in D /\ f # g /\ a.from = f /\ a.to = g /\ a.amount = n
    BY <1>8, <1>11, <1>15, <2>1
  <2>3. Q[f] = P[f] - n /\ Q[g] = P[g] + n
    BY <1>20, <2>1
  <2>4. \A q \in D : q # f /\ q # g => Q[q] = P[q]
    BY <1>19, <2>1
  <2>5. PICK R : R = [P EXCEPT ![f] = @ - n, ![g] = @ + n]
    OBVIOUS
  <2>6. R = [q \in D |-> R[q]]
    BY <1>15, <2>5
  <2>7. R[f] = P[f] - n /\ R[g] = P[g] + n
    BY <1>15, <2>2, <2>5
  <2>8. \A q \in D : q # f /\ q # g => R[q] = P[q]
    BY <1>15, <2>5
  <2>9. \A q \in D : R[q] = Q[q]
    BY <2>3, <2>4, <2>7, <2>8
  <2>10. R = Q
    BY <1>15, <2>6, <2>9
  <2>11. QED
    BY <2>2, <2>5, <2>10
<1>22. dec + Declared(st0, i, all) = dec
  BY DEF Declared, Declares
<1>23. ApprovalsOf(st0) \union Gives(i, all) = ApprovalsOf(st0)
  BY DEF Gives
<1>24. Uses(st0, i, all) = {a}
  BY <1>2, <1>9 DEF Uses
<1>25. a.amount <= P[a.from]
  BY <1>11, <1>16, <1>17
<1>26. QED
  BY <1>12, <1>13, <1>14, <1>21, <1>22, <1>23, <1>24, <1>25 DEF PlanMoves, LedgerMove

(* A debit uses the approval of its spend.                                 *)
LEMMA DebitStep ==
  ASSUME NEW b, NEW st0, StoreFits(b, st0), Countable, Outside \notin SurfaceIds, Uncited,
         SpendsMoveOnce(st0),
         NEW i \in Inputs, i.op = "spend-balance", Opens(st0, i),
         NEW all, Plan(st0, i, all), Planned(b, all), NEW dec \in Int
  PROVE  PlanMoves(st0, i, all, dec)
<1>1. PICK t, c : t = st0[Spend(i.spend)] /\ c = CitedSpendDecision(i, t)
  OBVIOUS
<1>2. /\ t # Absent /\ MayDebit(t) /\ c \in Pool["value-spend-decision"]
      /\ st0[SpendDecision(c)] # Absent /\ st0[SpendDecision(c)].decision = "approved"
      /\ ~Denied(st0[Surface(t.surface)], i) /\ EnoughFor(t, st0[Surface(t.surface)])
      /\ Len(all) = 4
      /\ all[1].key = SpendBalance(i.new) /\ all[2].key = Surface(t.surface)
      /\ all[3].key = Spend(i.spend) /\ all[4].key = SpendDecision(c)
      /\ all[1].value.decision_id = c /\ all[1].value.amount_cents = t.amount_cents
      /\ all[2].value.balance_cents = st0[Surface(t.surface)].balance_cents - t.amount_cents
  BY <1>1 DEF Plan, PlanSpendBalance
<1>3. c = t.decision_id
  BY <1>1 DEF Opens, CitedSpendDecision
<1>4. i.spend \in Pool["value-spend"]
  BY InputsOf
<1>5. Spend(i.spend) \in Keys /\ Spend(i.spend)[1] = "value-spend" /\ Spend(i.spend)[2] = i.spend
  BY <1>4, KeyOf, KindOf
<1>6. t \in SpendRecord /\ SpendBacked(st0, i.spend, t)
  BY <1>1, <1>2, <1>5 DEF StoreFits, Fine, Shaped, IsSpend, Genuine
<1>7. t.surface \in SurfaceIds /\ t.amount_cents \in Int
  BY <1>6, CirculationAssumption DEF SpendRecord
<1>8. PICK a, n : a = DebitApproval(st0, c) /\ n = t.amount_cents
  OBVIOUS
<1>9. ApprovalOfSpend(st0[SpendDecision(c)], i.spend, t)
  BY <1>2, <1>3, <1>6 DEF SpendBacked, MayDebit
<1>10. /\ a.id = SpendDecision(c) /\ a.from = t.surface /\ a.to = Outside /\ a.amount = n
  BY <1>8, <1>9 DEF DebitApproval, ApprovalOfSpend
<1>11. a \in ApprovalsOf(st0)
  <2>1. c \in ApprovedSpends(st0)
    BY <1>2 DEF ApprovedSpends
  <2>2. QED
    BY <1>8, <2>1 DEF ApprovalsOf
<1>12. a \notin MovementsOf(st0)
  <2>1. ASSUME NEW m \in DebitsIn(st0)
        PROVE  DebitApproval(st0, st0[SpendBalance(m)].decision_id).id # a.id
    <3>1. st0[SpendBalance(m)].decision_id # c
      BY <1>1, <1>2, <1>3, <1>4, <2>1 DEF DebitsIn, SpendsMoveOnce
    <3>2. SpendDecision(st0[SpendBalance(m)].decision_id) # SpendDecision(c)
      BY <3>1 DEF SpendDecision
    <3>3. QED
      BY <1>10, <3>2 DEF DebitApproval
  <2>2. \A d : TopupApproval(st0, d).id # a.id
    <3>1. \A d : TopupDecision(d)[1] = "value-topup-decision"
      BY KindOf
    <3>2. SpendDecision(c)[1] = "value-spend-decision"
      BY KindOf
    <3>3. \A d : TopupDecision(d) # SpendDecision(c)
      BY <3>1, <3>2
    <3>4. QED
      BY <1>10, <3>3 DEF TopupApproval
  <2>3. QED
    BY <2>1, <2>2 DEF MovementsOf
<1>13. PICK D, P, Q : /\ D = SurfaceIds \union {Outside}
                      /\ P = PurseThen(st0) /\ Q = PurseDone(st0, i, all)
  OBVIOUS
<1>14. /\ P = [p \in D |-> P[p]] /\ Q = [p \in D |-> Q[p]]
       /\ t.surface \in D /\ Outside \in D /\ t.surface # Outside
  BY <1>7, <1>13 DEF PurseThen, PurseDone
<1>15. /\ st0[Surface(t.surface)] # Absent
       /\ n <= st0[Surface(t.surface)].balance_cents
  <2>1. st0[Surface(t.surface)] # Absent
    BY <1>2 DEF Denied
  <2>2. st0[Surface(t.surface)].balance_cents \in Int
    <3>1. Balances(st0) \in [SurfaceIds -> Int]
      BY BooksTyped
    <3>2. Held(st0, Surface(t.surface)) \in Int
      BY <1>7, <3>1 DEF Balances
    <3>3. QED
      BY <2>1, <3>2 DEF Held
  <2>3. st0[Surface(t.surface)].balance_cents >= n
    BY <1>2, <1>8 DEF EnoughFor
  <2>4. QED
    BY <1>7, <1>8, <2>1, <2>2, <2>3
<1>16. P[t.surface] = st0[Surface(t.surface)].balance_cents
  BY <1>7, <1>13, <1>14, <1>15 DEF PurseThen, Held
<1>17. Q[t.surface] = all[2].value.balance_cents
  <2>1. 2 \in 1..Len(all)
    BY <1>2
  <2>2. HeldDone(st0, all, t.surface) = all[2].value.balance_cents
    BY <1>2, <2>1, HeldDoneOf
  <2>3. QED
    BY <1>7, <1>13, <1>14, <2>2 DEF PurseDone
<1>18. Q[Outside] = P[Outside] + n
  <2>1. Took(i, all) = n
    BY <1>2, <1>8 DEF Took
  <2>2. Q[Outside] = Spent(st0) + Took(i, all) /\ P[Outside] = Spent(st0)
    BY <1>13 DEF PurseDone, PurseThen
  <2>3. QED
    BY <2>1, <2>2
<1>19. ASSUME NEW q \in D, q # t.surface, q # Outside
       PROVE  Q[q] = P[q]
  <2>1. q \in SurfaceIds
    BY <1>13, <1>19
  <2>2. \A j \in 1..4 : j \in {1, 2, 3, 4}
    OBVIOUS
  <2>3. Surface(q)[1] = "value-surface" /\ Surface(q)[2] = q
    BY KindOf
  <2>4. /\ all[1].key[1] = "value-spend-balance" /\ all[3].key[1] = "value-spend"
        /\ all[4].key[1] = "value-spend-decision" /\ all[2].key[2] = t.surface
    BY <1>2, KindOf
  <2>5. ASSUME NEW j \in 1..Len(all) PROVE all[j].key # Surface(q)
    <3>1. j \in {1, 2, 3, 4}
      BY <1>2, <2>2
    <3>2. QED
      BY <1>19, <2>3, <2>4, <3>1
  <2>6. HeldDone(st0, all, q) = Held(st0, Surface(q))
    BY <2>5 DEF HeldDone
  <2>7. QED
    BY <1>13, <1>19, <2>1, <2>6 DEF PurseDone, PurseThen
<1>20. Q[t.surface] = P[t.surface] - n
  BY <1>2, <1>8, <1>16, <1>17
<1>21. Q = [P EXCEPT ![a.from] = @ - a.amount, ![a.to] = @ + a.amount]
  <2>1. PICK f, g : f = t.surface /\ g = Outside
    OBVIOUS
  <2>2. f \in D /\ g \in D /\ f # g /\ a.from = f /\ a.to = g /\ a.amount = n
    BY <1>10, <1>14, <2>1
  <2>3. Q[f] = P[f] - n /\ Q[g] = P[g] + n
    BY <1>18, <1>20, <2>1
  <2>4. \A q \in D : q # f /\ q # g => Q[q] = P[q]
    BY <1>19, <2>1
  <2>5. PICK R : R = [P EXCEPT ![f] = @ - n, ![g] = @ + n]
    OBVIOUS
  <2>6. R = [q \in D |-> R[q]]
    BY <1>14, <2>5
  <2>7. R[f] = P[f] - n /\ R[g] = P[g] + n
    BY <1>14, <2>2, <2>5
  <2>8. \A q \in D : q # f /\ q # g => R[q] = P[q]
    BY <1>14, <2>5
  <2>9. \A q \in D : R[q] = Q[q]
    BY <2>3, <2>4, <2>7, <2>8
  <2>10. R = Q
    BY <1>14, <2>6, <2>9
  <2>11. QED
    BY <2>2, <2>5, <2>10
<1>22. dec + Declared(st0, i, all) = dec
  BY DEF Declared, Declares
<1>23. ApprovalsOf(st0) \union Gives(i, all) = ApprovalsOf(st0)
  BY DEF Gives
<1>24. Uses(st0, i, all) = {a}
  BY <1>2, <1>8 DEF Uses
<1>25. a.amount <= P[a.from]
  BY <1>10, <1>15, <1>16
<1>26. QED
  BY <1>11, <1>12, <1>13, <1>21, <1>22, <1>23, <1>24, <1>25 DEF PlanMoves, LedgerMove

(* So whatever a request asks, its first put is a step of the ledger.      *)
LEMMA PlanStep ==
  ASSUME NEW b, NEW st0, StoreFits(b, st0), Countable, Outside \notin SurfaceIds, Uncited,
         Straight(st0), TopupsMoveOnce(st0), SpendsMoveOnce(st0),
         NEW i \in Inputs, Opens(st0, i),
         NEW all, Plan(st0, i, all), Planned(b, all), NEW dec \in Int
  PROVE  PlanMoves(st0, i, all, dec)
<1>1. \/ i.op \in SurfaceOps \/ i.op = "topup-decision" \/ i.op = "spend-decision"
      \/ i.op = "balance" \/ i.op = "spend-balance"
      \/ i.op \in {"topup", "spend", "limit-check", "receipt", "refund", "refund-decision"}
  BY DEF Inputs, SurfaceOps
<1>2. QED
  BY <1>1, DeclareStep, ApproveTopupStep, ApproveSpendStep, MoveStep, DebitStep, OtherStep

-----------------------------------------------------------------------------
(* Steps that the ledger does not see.                                     *)

(* A request of which nothing is due.                                      *)
Still(x) == x = Idle \/ x.puts = <<>> \/ ~(Len(x.puts) < PutCount(x.input.op))

(* A worker that read one more record has put nothing yet.                 *)
ReadsOn(r) ==
  \E y, seen, puts :
    /\ Busy(r) /\ request[r].puts = <<>>
    /\ ~(Len(puts) < PutCount(request[r].input.op))
    /\ request' = [request EXCEPT ![r] = y]
    /\ \/ y = Idle
       \/ y = [request[r] EXCEPT !.seen = <<>>, !.puts = puts]
       \/ y = [request[r] EXCEPT !.seen = seen]

(* A request that comes in; only a registration puts at once.              *)
Begins(r) ==
  \E input, puts :
    /\ ~Busy(r)
    /\ request' = [request EXCEPT ![r] = [input |-> input, seen |-> <<>>, puts |-> puts]]
    /\ puts = <<>> \/ ~(Len(puts) < PutCount(input.op))

Unseen(r) ==
  /\ ReadsOn(r) \/ Begins(r)
  /\ kv' = kv /\ declared' = declared

LEMMA LengthOf ==
  /\ \A p : Len(<<p>>) = 1
  /\ \A p, q : Len(<<p, q>>) = 2
  /\ \A p, q, s, t : Len(<<p, q, s, t>>) = 4
  /\ \A p, q, s, t, u : Len(<<p, q, s, t, u>>) = 5
OBVIOUS

LEMMA BeginsEmpty ==
  ASSUME NEW r, NEW input, Receive(r, input, <<>>)
  PROVE  Unseen(r)
BY DEF Receive, Unseen, Begins

(* A PATCH. *)
LEMMA PatchReads ==
  ASSUME NEW r, Patch(r)
  PROVE  Unseen(r)
<1>1. PICK x : x = request[r]
  OBVIOUS
<1>2. PICK seen : seen = Append(x.seen, kv[WantsSurface(x.input, x.seen)])
  OBVIOUS
<1>3. PICK puts : puts = PatchPuts(x.input, seen)
  OBVIOUS
<1>4. PICK y : y = IF RefusesSurface(x.input, seen) THEN Idle
                   ELSE IF WantsSurface(x.input, seen) = None
                        THEN [x EXCEPT !.seen = <<>>, !.puts = puts]
                        ELSE [x EXCEPT !.seen = seen]
  OBVIOUS
<1>5. /\ Busy(r) /\ x.input.op = "patch" /\ x.puts = <<>>
      /\ request' = [request EXCEPT ![r] = y]
      /\ kv' = kv /\ declared' = declared
  BY <1>1, <1>2, <1>3, <1>4 DEF Patch, Serve
<1>6. \E p : puts = <<p>>
  BY <1>3 DEF PatchPuts
<1>7. Len(puts) = 1
  BY <1>6, LengthOf
<1>8. ~(Len(puts) < PutCount("patch"))
  BY <1>7 DEF PutCount
<1>9. QED
  BY <1>1, <1>4, <1>5, <1>8 DEF Unseen, ReadsOn

(* A status change. *)
LEMMA SurfaceStatusReads ==
  ASSUME NEW r, SurfaceStatus(r)
  PROVE  Unseen(r)
<1>1. PICK x : x = request[r]
  OBVIOUS
<1>2. PICK seen : seen = Append(x.seen, kv[WantsSurface(x.input, x.seen)])
  OBVIOUS
<1>3. PICK puts : puts = StatusPuts(x.input, seen)
  OBVIOUS
<1>4. PICK y : y = IF RefusesSurface(x.input, seen) THEN Idle
                   ELSE IF WantsSurface(x.input, seen) = None
                        THEN [x EXCEPT !.seen = <<>>, !.puts = puts]
                        ELSE [x EXCEPT !.seen = seen]
  OBVIOUS
<1>5. /\ Busy(r) /\ x.input.op = "surface-status" /\ x.puts = <<>>
      /\ request' = [request EXCEPT ![r] = y]
      /\ kv' = kv /\ declared' = declared
  BY <1>1, <1>2, <1>3, <1>4 DEF SurfaceStatus, Serve
<1>6. \E p : puts = <<p>>
  BY <1>3 DEF StatusPuts
<1>7. Len(puts) = 1
  BY <1>6, LengthOf
<1>8. ~(Len(puts) < PutCount("surface-status"))
  BY <1>7 DEF PutCount
<1>9. QED
  BY <1>1, <1>4, <1>5, <1>8 DEF Unseen, ReadsOn

(* New limits. *)
LEMMA LimitReads ==
  ASSUME NEW r, Limit(r)
  PROVE  Unseen(r)
<1>1. PICK x : x = request[r]
  OBVIOUS
<1>2. PICK seen : seen = Append(x.seen, kv[WantsSurface(x.input, x.seen)])
  OBVIOUS
<1>3. PICK puts : puts = LimitPuts(x.input, seen)
  OBVIOUS
<1>4. PICK y : y = IF RefusesSurface(x.input, seen) THEN Idle
                   ELSE IF WantsSurface(x.input, seen) = None
                        THEN [x EXCEPT !.seen = <<>>, !.puts = puts]
                        ELSE [x EXCEPT !.seen = seen]
  OBVIOUS
<1>5. /\ Busy(r) /\ x.input.op = "limit" /\ x.puts = <<>>
      /\ request' = [request EXCEPT ![r] = y]
      /\ kv' = kv /\ declared' = declared
  BY <1>1, <1>2, <1>3, <1>4 DEF Limit, Serve
<1>6. \E p : puts = <<p>>
  BY <1>3 DEF LimitPuts
<1>7. Len(puts) = 1
  BY <1>6, LengthOf
<1>8. ~(Len(puts) < PutCount("limit"))
  BY <1>7 DEF PutCount
<1>9. QED
  BY <1>1, <1>4, <1>5, <1>8 DEF Unseen, ReadsOn

(* A topup. *)
LEMMA RequestTopupReads ==
  ASSUME NEW r, RequestTopup(r)
  PROVE  Unseen(r)
<1>1. PICK x : x = request[r]
  OBVIOUS
<1>2. PICK seen : seen = Append(x.seen, kv[TopupWants(x.input, x.seen)])
  OBVIOUS
<1>3. PICK puts : puts = TopupPuts(x.input, seen)
  OBVIOUS
<1>4. PICK y : y = IF TopupRefuses(x.input, seen) THEN Idle
                   ELSE IF TopupWants(x.input, seen) = None
                        THEN [x EXCEPT !.seen = <<>>, !.puts = puts]
                        ELSE [x EXCEPT !.seen = seen]
  OBVIOUS
<1>5. /\ Busy(r) /\ x.input.op = "topup" /\ x.puts = <<>>
      /\ request' = [request EXCEPT ![r] = y]
      /\ kv' = kv /\ declared' = declared
  BY <1>1, <1>2, <1>3, <1>4 DEF RequestTopup, Serve
<1>6. \E p : puts = <<p>>
  BY <1>3 DEF TopupPuts
<1>7. Len(puts) = 1
  BY <1>6, LengthOf
<1>8. ~(Len(puts) < PutCount("topup"))
  BY <1>7 DEF PutCount
<1>9. QED
  BY <1>1, <1>4, <1>5, <1>8 DEF Unseen, ReadsOn

(* A spend. *)
LEMMA RequestSpendReads ==
  ASSUME NEW r, RequestSpend(r)
  PROVE  Unseen(r)
<1>1. PICK x : x = request[r]
  OBVIOUS
<1>2. PICK seen : seen = Append(x.seen, kv[WantsSurface(x.input, x.seen)])
  OBVIOUS
<1>3. PICK puts : puts = SpendPuts(x.input, seen)
  OBVIOUS
<1>4. PICK y : y = IF SpendRefuses(x.input, seen) THEN Idle
                   ELSE IF WantsSurface(x.input, seen) = None
                        THEN [x EXCEPT !.seen = <<>>, !.puts = puts]
                        ELSE [x EXCEPT !.seen = seen]
  OBVIOUS
<1>5. /\ Busy(r) /\ x.input.op = "spend" /\ x.puts = <<>>
      /\ request' = [request EXCEPT ![r] = y]
      /\ kv' = kv /\ declared' = declared
  BY <1>1, <1>2, <1>3, <1>4 DEF RequestSpend, Serve
<1>6. \E p : puts = <<p>>
  BY <1>3 DEF SpendPuts
<1>7. Len(puts) = 1
  BY <1>6, LengthOf
<1>8. ~(Len(puts) < PutCount("spend"))
  BY <1>7 DEF PutCount
<1>9. QED
  BY <1>1, <1>4, <1>5, <1>8 DEF Unseen, ReadsOn

(* A limit check. *)
LEMMA CheckLimitReads ==
  ASSUME NEW r, CheckLimit(r)
  PROVE  Unseen(r)
<1>1. PICK x : x = request[r]
  OBVIOUS
<1>2. PICK seen : seen = Append(x.seen, kv[WantsSurface(x.input, x.seen)])
  OBVIOUS
<1>3. PICK puts : puts = LimitCheckPuts(x.input, seen)
  OBVIOUS
<1>4. PICK y : y = IF SpendRefuses(x.input, seen) THEN Idle
                   ELSE IF WantsSurface(x.input, seen) = None
                        THEN [x EXCEPT !.seen = <<>>, !.puts = puts]
                        ELSE [x EXCEPT !.seen = seen]
  OBVIOUS
<1>5. /\ Busy(r) /\ x.input.op = "limit-check" /\ x.puts = <<>>
      /\ request' = [request EXCEPT ![r] = y]
      /\ kv' = kv /\ declared' = declared
  BY <1>1, <1>2, <1>3, <1>4 DEF CheckLimit, Serve
<1>6. \E p : puts = <<p>>
  BY <1>3 DEF LimitCheckPuts
<1>7. Len(puts) = 1
  BY <1>6, LengthOf
<1>8. ~(Len(puts) < PutCount("limit-check"))
  BY <1>7 DEF PutCount
<1>9. QED
  BY <1>1, <1>4, <1>5, <1>8 DEF Unseen, ReadsOn

(* A receipt. *)
LEMMA AttachReceiptReads ==
  ASSUME NEW r, AttachReceipt(r)
  PROVE  Unseen(r)
<1>1. PICK x : x = request[r]
  OBVIOUS
<1>2. PICK seen : seen = Append(x.seen, kv[WantsSpend(x.input, x.seen)])
  OBVIOUS
<1>3. PICK puts : puts = ReceiptPuts(x.input, seen)
  OBVIOUS
<1>4. PICK y : y = IF NotCompleted(x.input, seen) THEN Idle
                   ELSE IF WantsSpend(x.input, seen) = None
                        THEN [x EXCEPT !.seen = <<>>, !.puts = puts]
                        ELSE [x EXCEPT !.seen = seen]
  OBVIOUS
<1>5. /\ Busy(r) /\ x.input.op = "receipt" /\ x.puts = <<>>
      /\ request' = [request EXCEPT ![r] = y]
      /\ kv' = kv /\ declared' = declared
  BY <1>1, <1>2, <1>3, <1>4 DEF AttachReceipt, Serve
<1>6. \E p, q : puts = <<p, q>>
  BY <1>3 DEF ReceiptPuts
<1>7. Len(puts) = 2
  BY <1>6, LengthOf
<1>8. ~(Len(puts) < PutCount("receipt"))
  BY <1>7 DEF PutCount
<1>9. QED
  BY <1>1, <1>4, <1>5, <1>8 DEF Unseen, ReadsOn

(* A refund. *)
LEMMA RequestRefundReads ==
  ASSUME NEW r, RequestRefund(r)
  PROVE  Unseen(r)
<1>1. PICK x : x = request[r]
  OBVIOUS
<1>2. PICK seen : seen = Append(x.seen, kv[WantsSpend(x.input, x.seen)])
  OBVIOUS
<1>3. PICK puts : puts = RefundPuts(x.input, seen)
  OBVIOUS
<1>4. PICK y : y = IF RefundRefuses(x.input, seen) THEN Idle
                   ELSE IF WantsSpend(x.input, seen) = None
                        THEN [x EXCEPT !.seen = <<>>, !.puts = puts]
                        ELSE [x EXCEPT !.seen = seen]
  OBVIOUS
<1>5. /\ Busy(r) /\ x.input.op = "refund" /\ x.puts = <<>>
      /\ request' = [request EXCEPT ![r] = y]
      /\ kv' = kv /\ declared' = declared
  BY <1>1, <1>2, <1>3, <1>4 DEF RequestRefund, Serve
<1>6. \E p : puts = <<p>>
  BY <1>3 DEF RefundPuts
<1>7. Len(puts) = 1
  BY <1>6, LengthOf
<1>8. ~(Len(puts) < PutCount("refund"))
  BY <1>7 DEF PutCount
<1>9. QED
  BY <1>1, <1>4, <1>5, <1>8 DEF Unseen, ReadsOn

(* A refund's decision. *)
LEMMA DecideRefundReads ==
  ASSUME NEW r, DecideRefund(r)
  PROVE  Unseen(r)
<1>1. PICK x : x = request[r]
  OBVIOUS
<1>2. PICK seen : seen = Append(x.seen, kv[RefundDecisionWants(x.input, x.seen)])
  OBVIOUS
<1>3. PICK puts : puts = RefundDecisionPuts(x.input, seen)
  OBVIOUS
<1>4. PICK y : y = IF RefundDecisionRefuses(x.input, seen) THEN Idle
                   ELSE IF RefundDecisionWants(x.input, seen) = None
                        THEN [x EXCEPT !.seen = <<>>, !.puts = puts]
                        ELSE [x EXCEPT !.seen = seen]
  OBVIOUS
<1>5. /\ Busy(r) /\ x.input.op = "refund-decision" /\ x.puts = <<>>
      /\ request' = [request EXCEPT ![r] = y]
      /\ kv' = kv /\ declared' = declared
  BY <1>1, <1>2, <1>3, <1>4 DEF DecideRefund, Serve
<1>6. \E p, q : puts = <<p, q>>
  BY <1>3 DEF RefundDecisionPuts
<1>7. Len(puts) = 2
  BY <1>6, LengthOf
<1>8. ~(Len(puts) < PutCount("refund-decision"))
  BY <1>7 DEF PutCount
<1>9. QED
  BY <1>1, <1>4, <1>5, <1>8 DEF Unseen, ReadsOn

(* A topup's decision. *)
LEMMA DecideTopupReads ==
  ASSUME NEW r, DecideTopup(r)
  PROVE  Unseen(r)
<1>1. PICK x : x = request[r]
  OBVIOUS
<1>2. PICK seen : seen = Append(x.seen, kv[TopupDecisionWants(x.input, x.seen)])
  OBVIOUS
<1>3. PICK puts : puts = TopupDecisionPuts(x.input, seen)
  OBVIOUS
<1>4. PICK y : y = IF TopupDecisionRefuses(x.input, seen) THEN Idle
                   ELSE IF TopupDecisionWants(x.input, seen) = None
                        THEN [x EXCEPT !.seen = <<>>, !.puts = puts]
                        ELSE [x EXCEPT !.seen = seen]
  OBVIOUS
<1>5. /\ Busy(r) /\ x.input.op = "topup-decision" /\ x.puts = <<>>
      /\ request' = [request EXCEPT ![r] = y]
      /\ kv' = kv /\ declared' = declared
  BY <1>1, <1>2, <1>3, <1>4 DEF DecideTopup, Serve
<1>6. \E p, q : puts = <<p, q>>
  BY <1>3 DEF TopupDecisionPuts
<1>7. Len(puts) = 2
  BY <1>6, LengthOf
<1>8. ~(Len(puts) < PutCount("topup-decision"))
  BY <1>7 DEF PutCount
<1>9. QED
  BY <1>1, <1>4, <1>5, <1>8 DEF Unseen, ReadsOn

(* A movement. *)
LEMMA MoveBalanceReads ==
  ASSUME NEW r, MoveBalance(r)
  PROVE  Unseen(r)
<1>1. PICK x : x = request[r]
  OBVIOUS
<1>2. PICK seen : seen = Append(x.seen, kv[BalanceWants(x.input, x.seen)])
  OBVIOUS
<1>3. PICK puts : puts = BalancePuts(x.input, seen)
  OBVIOUS
<1>4. PICK y : y = IF BalanceRefuses(x.input, seen) THEN Idle
                   ELSE IF BalanceWants(x.input, seen) = None
                        THEN [x EXCEPT !.seen = <<>>, !.puts = puts]
                        ELSE [x EXCEPT !.seen = seen]
  OBVIOUS
<1>5. /\ Busy(r) /\ x.input.op = "balance" /\ x.puts = <<>>
      /\ request' = [request EXCEPT ![r] = y]
      /\ kv' = kv /\ declared' = declared
  BY <1>1, <1>2, <1>3, <1>4 DEF MoveBalance, Serve
<1>6. \E p, q, s, t, u : puts = <<p, q, s, t, u>>
  BY <1>3 DEF BalancePuts
<1>7. Len(puts) = 5
  BY <1>6, LengthOf
<1>8. ~(Len(puts) < PutCount("balance"))
  BY <1>7 DEF PutCount
<1>9. QED
  BY <1>1, <1>4, <1>5, <1>8 DEF Unseen, ReadsOn

(* A spend's decision. *)
LEMMA DecideSpendReads ==
  ASSUME NEW r, DecideSpend(r)
  PROVE  Unseen(r)
<1>1. PICK x : x = request[r]
  OBVIOUS
<1>2. PICK seen : seen = Append(x.seen, kv[SpendDecisionWants(x.input, x.seen)])
  OBVIOUS
<1>3. PICK puts : puts = SpendDecisionPuts(x.input, seen)
  OBVIOUS
<1>4. PICK y : y = IF SpendDecisionRefuses(x.input, seen) THEN Idle
                   ELSE IF SpendDecisionWants(x.input, seen) = None
                        THEN [x EXCEPT !.seen = <<>>, !.puts = puts]
                        ELSE [x EXCEPT !.seen = seen]
  OBVIOUS
<1>5. /\ Busy(r) /\ x.input.op = "spend-decision" /\ x.puts = <<>>
      /\ request' = [request EXCEPT ![r] = y]
      /\ kv' = kv /\ declared' = declared
  BY <1>1, <1>2, <1>3, <1>4 DEF DecideSpend, Serve
<1>6. \E p, q : puts = <<p, q>>
  BY <1>3 DEF SpendDecisionPuts
<1>7. Len(puts) = 2
  BY <1>6, LengthOf
<1>8. ~(Len(puts) < PutCount("spend-decision"))
  BY <1>7 DEF PutCount
<1>9. QED
  BY <1>1, <1>4, <1>5, <1>8 DEF Unseen, ReadsOn

(* A debit. *)
LEMMA DebitSpendReads ==
  ASSUME NEW r, DebitSpend(r)
  PROVE  Unseen(r)
<1>1. PICK x : x = request[r]
  OBVIOUS
<1>2. PICK seen : seen = Append(x.seen, kv[SpendBalanceWants(x.input, x.seen)])
  OBVIOUS
<1>3. PICK puts : puts = SpendBalancePuts(x.input, seen)
  OBVIOUS
<1>4. PICK y : y = IF SpendBalanceRefuses(x.input, seen) THEN Idle
                   ELSE IF SpendBalanceWants(x.input, seen) = None
                        THEN [x EXCEPT !.seen = <<>>, !.puts = puts]
                        ELSE [x EXCEPT !.seen = seen]
  OBVIOUS
<1>5. /\ Busy(r) /\ x.input.op = "spend-balance" /\ x.puts = <<>>
      /\ request' = [request EXCEPT ![r] = y]
      /\ kv' = kv /\ declared' = declared
  BY <1>1, <1>2, <1>3, <1>4 DEF DebitSpend, Serve
<1>6. \E p, q, s, t : puts = <<p, q, s, t>>
  BY <1>3 DEF SpendBalancePuts
<1>7. Len(puts) = 4
  BY <1>6, LengthOf
<1>8. ~(Len(puts) < PutCount("spend-balance"))
  BY <1>7 DEF PutCount
<1>9. QED
  BY <1>1, <1>4, <1>5, <1>8 DEF Unseen, ReadsOn

(* What comes in. *)
LEMMA ReceiveRegisterReads ==
  ASSUME NEW r, ReceiveRegister(r)
  PROVE  Unseen(r)
<1>1. PICK by, s, v :
        Receive(r, [op |-> "register", identity_id |-> by, new |-> s],
                <<Writes(Surface(s), v)>>)
  BY DEF ReceiveRegister
<1>2. PICK i, all : /\ i = [op |-> "register", identity_id |-> by, new |-> s]
                    /\ all = <<Writes(Surface(s), v)>>
  OBVIOUS
<1>3. Len(all) = 1 /\ i.op = "register"
  BY <1>2, LengthOf
<1>4. ~(Len(all) < PutCount(i.op))
  BY <1>3 DEF PutCount
<1>5. Receive(r, i, all)
  BY <1>1, <1>2
<1>6. QED
  BY <1>4, <1>5 DEF Receive, Unseen, Begins

LEMMA ReceivePatchReads ==
  ASSUME NEW r, ReceivePatch(r)
  PROVE  Unseen(r)
<1>1. \E input : Receive(r, input, <<>>)
  BY DEF ReceivePatch
<1>2. QED
  BY <1>1, BeginsEmpty

LEMMA ReceiveStatusReads ==
  ASSUME NEW r, ReceiveStatus(r)
  PROVE  Unseen(r)
<1>1. \E input : Receive(r, input, <<>>)
  BY DEF ReceiveStatus
<1>2. QED
  BY <1>1, BeginsEmpty

LEMMA ReceiveLimitReads ==
  ASSUME NEW r, ReceiveLimit(r)
  PROVE  Unseen(r)
<1>1. \E input : Receive(r, input, <<>>)
  BY DEF ReceiveLimit
<1>2. QED
  BY <1>1, BeginsEmpty

LEMMA ReceiveTopupReads ==
  ASSUME NEW r, ReceiveTopup(r)
  PROVE  Unseen(r)
<1>1. \E input : Receive(r, input, <<>>)
  BY DEF ReceiveTopup
<1>2. QED
  BY <1>1, BeginsEmpty

LEMMA ReceiveTopupDecisionReads ==
  ASSUME NEW r, ReceiveTopupDecision(r)
  PROVE  Unseen(r)
<1>1. \E input : Receive(r, input, <<>>)
  BY DEF ReceiveTopupDecision
<1>2. QED
  BY <1>1, BeginsEmpty

LEMMA ReceiveBalanceReads ==
  ASSUME NEW r, ReceiveBalance(r)
  PROVE  Unseen(r)
<1>1. \E input : Receive(r, input, <<>>)
  BY DEF ReceiveBalance
<1>2. QED
  BY <1>1, BeginsEmpty

LEMMA ReceiveSpendReads ==
  ASSUME NEW r, ReceiveSpend(r)
  PROVE  Unseen(r)
<1>1. \E input : Receive(r, input, <<>>)
  BY DEF ReceiveSpend
<1>2. QED
  BY <1>1, BeginsEmpty

LEMMA ReceiveLimitCheckReads ==
  ASSUME NEW r, ReceiveLimitCheck(r)
  PROVE  Unseen(r)
<1>1. \E input : Receive(r, input, <<>>)
  BY DEF ReceiveLimitCheck
<1>2. QED
  BY <1>1, BeginsEmpty

LEMMA ReceiveSpendDecisionReads ==
  ASSUME NEW r, ReceiveSpendDecision(r)
  PROVE  Unseen(r)
<1>1. \E input : Receive(r, input, <<>>)
  BY DEF ReceiveSpendDecision
<1>2. QED
  BY <1>1, BeginsEmpty

LEMMA ReceiveSpendBalanceReads ==
  ASSUME NEW r, ReceiveSpendBalance(r)
  PROVE  Unseen(r)
<1>1. \E input : Receive(r, input, <<>>)
  BY DEF ReceiveSpendBalance
<1>2. QED
  BY <1>1, BeginsEmpty

LEMMA ReceiveReceiptReads ==
  ASSUME NEW r, ReceiveReceipt(r)
  PROVE  Unseen(r)
<1>1. \E input : Receive(r, input, <<>>)
  BY DEF ReceiveReceipt
<1>2. QED
  BY <1>1, BeginsEmpty

LEMMA ReceiveRefundReads ==
  ASSUME NEW r, ReceiveRefund(r)
  PROVE  Unseen(r)
<1>1. \E input : Receive(r, input, <<>>)
  BY DEF ReceiveRefund
<1>2. QED
  BY <1>1, BeginsEmpty

LEMMA ReceiveRefundDecisionReads ==
  ASSUME NEW r, ReceiveRefundDecision(r)
  PROVE  Unseen(r)
<1>1. \E input : Receive(r, input, <<>>)
  BY DEF ReceiveRefundDecision
<1>2. QED
  BY <1>1, BeginsEmpty

(* Every step of a worker but for its puts, and its being cut off.         *)
LEMMA OtherSteps ==
  ASSUME NEW r, SurfaceNext(r) \/ TopupNext(r) \/ SpendNext(r)
  PROVE  Unseen(r)
<1>1. ASSUME SurfaceNext(r) PROVE Unseen(r)
  BY <1>1, ReceiveRegisterReads, ReceivePatchReads, PatchReads,
     ReceiveStatusReads, SurfaceStatusReads, ReceiveLimitReads, LimitReads
  DEF SurfaceNext
<1>2. ASSUME TopupNext(r) PROVE Unseen(r)
  BY <1>2, ReceiveTopupReads, RequestTopupReads, ReceiveTopupDecisionReads,
     DecideTopupReads, ReceiveBalanceReads, MoveBalanceReads DEF TopupNext
<1>3. ASSUME SpendNext(r) PROVE Unseen(r)
  BY <1>3, ReceiveSpendReads, RequestSpendReads, ReceiveLimitCheckReads,
     CheckLimitReads, ReceiveSpendDecisionReads, DecideSpendReads,
     ReceiveSpendBalanceReads, DebitSpendReads, ReceiveReceiptReads,
     AttachReceiptReads, ReceiveRefundReads, RequestRefundReads,
     ReceiveRefundDecisionReads, DecideRefundReads DEF SpendNext
<1>4. QED
  BY <1>1, <1>2, <1>3

(* Nothing is due before or after.                                         *)
LEMMA ReadsStill ==
  ASSUME IInv, NEW r \in Requests, Unseen(r)
  PROVE  Still(request[r]) /\ Still(request'[r])
<1>1. DOMAIN request = Requests
  BY DEF IInv
<1>2. PICK x : x = request[r]
  OBVIOUS
<1>3. CASE ReadsOn(r)
  <2>1. PICK y, seen, puts :
          /\ Busy(r) /\ x.puts = <<>>
          /\ ~(Len(puts) < PutCount(x.input.op))
          /\ request' = [request EXCEPT ![r] = y]
          /\ \/ y = Idle
             \/ y = [x EXCEPT !.seen = <<>>, !.puts = puts]
             \/ y = [x EXCEPT !.seen = seen]
    BY <1>2, <1>3 DEF ReadsOn
  <2>2. request'[r] = y
    BY <1>1, <2>1
  <2>3. x = [input |-> x.input, seen |-> x.seen, puts |-> x.puts]
    BY <1>2, <2>1 DEF IInv, RequestsFit, RequestFits
  <2>4. \/ y = Idle
        \/ y = [input |-> x.input, seen |-> <<>>, puts |-> puts]
        \/ y = [input |-> x.input, seen |-> seen, puts |-> x.puts]
    BY <2>1, <2>3, RequestChanged
  <2>5. y = Idle \/ (y.input = x.input /\ y.puts = puts) \/ y.puts = <<>>
    BY <2>1, <2>4
  <2>6. Still(y)
    BY <2>1, <2>5 DEF Still
  <2>7. QED
    BY <1>2, <2>1, <2>2, <2>6 DEF Still
<1>4. CASE Begins(r)
  <2>1. PICK input, puts :
          /\ ~Busy(r)
          /\ request' = [request EXCEPT ![r] =
                           [input |-> input, seen |-> <<>>, puts |-> puts]]
          /\ puts = <<>> \/ ~(Len(puts) < PutCount(input.op))
    BY <1>4 DEF Begins
  <2>2. request'[r] = [input |-> input, seen |-> <<>>, puts |-> puts]
    BY <1>1, <2>1
  <2>3. request'[r].input = input /\ request'[r].puts = puts
    BY <2>2
  <2>4. QED
    BY <2>1, <2>3 DEF Still, Busy
<1>5. QED
  BY <1>3, <1>4 DEF Unseen

(* So a step that only reads, and one that changes nothing, is none of the
   ledger.                                                                 *)
LEMMA ReadsMoveNothing ==
  ASSUME IInv, NEW r \in Requests, Unseen(r) \/ (UNCHANGED storeVars)
  PROVE  LedgerMove(PurseOf(kv, request[r]), declared, ApprovalsOf(kv), MovementsOf(kv),
                    PurseOf(kv', request'[r]), declared', ApprovalsOf(kv'),
                    MovementsOf(kv'))
<1>1. kv' = kv /\ declared' = declared
  BY DEF Unseen, storeVars
<1>2. PurseOf(kv, request'[r]) = PurseOf(kv, request[r])
  <2>1. CASE UNCHANGED storeVars
    BY <2>1 DEF storeVars
  <2>2. CASE Unseen(r)
    <3>1. \A s : HeldSoon(kv, request[r], s) = Held(kv, Surface(s))
      BY <2>2, ReadsStill, NoneDue DEF Still
    <3>2. \A s : HeldSoon(kv, request'[r], s) = Held(kv, Surface(s))
      BY <2>2, ReadsStill, NoneDue DEF Still
    <3>3. \A s \in SurfaceIds \union {Outside} :
            HeldSoon(kv, request'[r], s) = HeldSoon(kv, request[r], s)
      BY <3>1, <3>2
    <3>4. QED
      BY <3>3 DEF PurseOf
  <2>3. QED
    BY <2>1, <2>2
<1>3. QED
  BY <1>1, <1>2 DEF LedgerMove

-----------------------------------------------------------------------------
(* The workers, one request at a time, are the ledger.                     *)

(* A put is a step of the ledger when it is the first, and none later.     *)
LEMMA PutMoves ==
  ASSUME LedgerTerms, IInv, AInv, NEW r \in Requests, Put(r)
  PROVE  LedgerMove(PurseOf(kv, request[r]), declared, ApprovalsOf(kv), MovementsOf(kv),
                    PurseOf(kv', request'[r]), declared', ApprovalsOf(kv'),
                    MovementsOf(kv'))
<1> USE DEF LedgerTerms
<1>1. PICK b, st, dec, cut, x :
        b = bounds /\ st = kv /\ dec = declared /\ cut = crashes /\ x = request[r]
  OBVIOUS
<1>2. PICK p : p = x.puts[1]
  OBVIOUS
<1>3. PICK y : y = IF Len(x.puts) = 1 THEN Idle ELSE [x EXCEPT !.puts = Tail(x.puts)]
  OBVIOUS
<1>4. StoreFits(b, st) /\ RequestFits(b, st, x) /\ x.puts # <<>> /\ x # Idle
  BY <1>1 DEF IInv, RequestsFit, Put, Busy
<1>5. p = Head(x.puts)
  <2>1. PICK S : x.puts \in Seq(S)
    BY <1>4 DEF RequestFits, IsSeq
  <2>2. QED
    BY <1>2
<1>6. /\ kv' = With(st, p)
      /\ request' = [request EXCEPT ![r] = y]
      /\ declared' = dec + (IF Declares(x.input)
                            THEN p.value.balance_cents - BalanceAt(p.key) ELSE 0)
  <2>1. request' = [request EXCEPT ![r] =
                      IF Len(request[r].puts) = 1 THEN Idle
                      ELSE [request[r] EXCEPT !.puts = Tail(request[r].puts)]]
    BY DEF Put
  <2>2. QED
    BY <2>1, <1>1, <1>3, <1>5 DEF Put, PutRecord, With
<1>7. request'[r] = y
  BY <1>6 DEF IInv
<1>8. Underway(b, st, dec, cut, x)
  BY <1>1, <1>4 DEF AInv, Settles
<1>9. PICK st0, all, k : Partway(b, st, dec, cut, x, st0, all, k)
  BY <1>8 DEF Underway
<1>10. PICK i : i = x.input
  OBVIOUS
<1>11. /\ k \in 0..4
       /\ StoreFits(b, st0) /\ Sound(st0, dec, cut) /\ Opens(st0, i)
       /\ Plan(st0, i, all) /\ Planned(b, all)
       /\ PutSoFar(st0, all, k, st) /\ Extends(st0, st)
       /\ Rest(all, k, x.puts) /\ i \in Inputs
  BY <1>4, <1>9, <1>10 DEF Partway, RequestFits
<1>12. PICK n, m : n = Len(all) /\ m = Len(x.puts)
  OBVIOUS
<1>13. n \in 1..5 /\ m \in Nat /\ m >= 1 /\ m = n - k
  <2>1. PICK S : x.puts \in Seq(S)
    BY <1>4 DEF RequestFits, IsSeq
  <2>2. QED
    BY <1>4, <1>11, <1>12, <2>1, EmptySeq DEF Planned, Rest
<1>14. p = all[k + 1]
  BY <1>2, <1>11, <1>12, <1>13 DEF Rest
<1>15. /\ k < n /\ (m = 1 => n = k + 1) /\ (m # 1 => k + 1 < n)
       /\ k + 1 \in 1..n /\ (k # 0 => k \in 1..n /\ k # n /\ n # 1)
  BY <1>11, <1>13
<1>16. PICK after : after = With(st, p)
  OBVIOUS
<1>17. PutSoFar(st0, all, k + 1, after) /\ st[p.key] = st0[p.key]
  BY <1>11, <1>12, <1>14, <1>15, <1>16, NextPut
<1>18. Extends(st, after) /\ StoreFits(b, after)
  BY <1>2, <1>4, <1>16, StorePut
<1>19. Extends(st0, after)
  BY <1>11, <1>18, ExtendsAgain
<1>20. dec \in Int
  BY <1>1 DEF IInv
<1>21. (Declares(i) => n = 1) /\ Declared(st0, i, all) \in Int
  BY <1>11, <1>12, DeclaredOf
<1>22. Straight(st0) /\ TopupsMoveOnce(st0) /\ SpendsMoveOnce(st0)
  BY <1>11 DEF Sound
<1>23. Leaves(i, all, k + 1, y)
  <2>1. CASE m = 1
    <3>1. y = Idle
      BY <2>1, <1>3, <1>12
    <3>2. QED
      BY <2>1, <3>1, <1>12, <1>15 DEF Leaves
  <2>2. CASE m # 1
    <3>1. y = [input |-> i, seen |-> x.seen, puts |-> Tail(x.puts)]
      <4>1. y = [x EXCEPT !.puts = Tail(x.puts)]
        BY <2>2, <1>3, <1>12
      <4>2. x = [input |-> x.input, seen |-> x.seen, puts |-> x.puts]
        BY <1>4 DEF RequestFits
      <4>3. QED
        BY <4>1, <4>2, <1>10, RequestChanged
    <3>2. y.input = i /\ y.puts = Tail(x.puts) /\ y # Idle
      BY <3>1 DEF Alone
    <3>3. PICK S : x.puts \in Seq(S)
      BY <1>4 DEF RequestFits, IsSeq
    <3>4. /\ Tail(x.puts) \in Seq(S)
          /\ Len(Tail(x.puts)) = m - 1
          /\ \A q \in 1..Len(Tail(x.puts)) : Tail(x.puts)[q] = x.puts[q + 1]
      BY <3>3, <1>4, <1>12, HeadTailProperties
    <3>5. /\ Len(y.puts) = m - 1 /\ IsSeq(y.puts)
          /\ \A q \in 1..Len(y.puts) : y.puts[q] = x.puts[q + 1] /\ q + 1 \in 1..m
      BY <3>2, <3>4, <1>13 DEF IsSeq
    <3>6. Rest(all, k + 1, y.puts)
      <4>1. Len(y.puts) = Len(all) - (k + 1)
        BY <3>5, <1>11, <1>12, <1>13
      <4>2. ASSUME NEW q \in 1..Len(y.puts)
            PROVE  y.puts[q] = all[q + (k + 1)]
        <5>1. q + 1 \in 1..Len(x.puts) /\ y.puts[q] = x.puts[q + 1]
          BY <3>5, <1>12
        <5>2. x.puts[q + 1] = all[(q + 1) + k]
          BY <5>1, <1>11 DEF Rest
        <5>3. (q + 1) + k = q + (k + 1)
          BY <3>5, <1>11, <1>13
        <5>4. QED
          BY <5>1, <5>2, <5>3
      <4>3. QED
        BY <4>1, <4>2 DEF Rest
    <3>7. k + 1 # Len(all)
      BY <2>2, <1>12, <1>13, <1>15
    <3>8. QED
      BY <3>2, <3>5, <3>6, <3>7 DEF Leaves
  <2>3. QED
    BY <2>1, <2>2
<1>24. /\ PurseOf(after, y) = PurseDone(st0, i, all)
       /\ ApprovalsOf(after) = ApprovalsOf(st0) \union Gives(i, all)
       /\ MovementsOf(after) = MovementsOf(st0) \union Uses(st0, i, all)
  <2>1. k + 1 \in 1..Len(all)
    BY <1>12, <1>15
  <2>2. PICK j : j = k + 1
    OBVIOUS
  <2>3. j \in 1..Len(all) /\ Leaves(i, all, j, y)
    BY <2>1, <1>23, <2>2
  <2>4. PutSoFar(st0, all, j, after) /\ StoreFits(b, after)
    BY <1>17, <1>18, <2>2
  <2>5. /\ StoreFits(b, st0) /\ TopupsMoveOnce(st0) /\ SpendsMoveOnce(st0)
        /\ i \in Inputs /\ Opens(st0, i) /\ Plan(st0, i, all) /\ Planned(b, all)
        /\ Extends(st0, after)
    BY <1>11, <1>19, <1>22
  <2>6. /\ Unchosen("value-balance") /\ Unnamed
        /\ Countable /\ Outside \notin SurfaceIds
    OBVIOUS
  <2>7. HIDE DEF LedgerTerms
  <2>8. PurseOf(after, y) = PurseDone(st0, i, all)
    BY <2>3, <2>4, <2>5, <2>6, PurseAfter
  <2>9. ApprovalsOf(after) = ApprovalsOf(st0) \union Gives(i, all)
    BY <2>3, <2>4, <2>5, ApprovalsAfter
  <2>10. MovementsOf(after) = MovementsOf(st0) \union Uses(st0, i, all)
    BY <2>3, <2>4, <2>5, <2>6, MovementsAfter
  <2>11. QED
    BY <2>8, <2>9, <2>10
<1>25. CASE k = 0
  <2>1. PutCount(i.op) <= n
    <3>1. i.op = "balance" => n = 5
      BY <1>11, <1>12 DEF Plan, PlanBalance
    <3>2. i.op = "spend-balance" => n = 4
      BY <1>11, <1>12 DEF Plan, PlanSpendBalance
    <3>3. CASE i.op = "balance"
      BY <3>1, <3>3 DEF PutCount
    <3>4. CASE i.op = "spend-balance"
      BY <3>2, <3>4 DEF PutCount
    <3>5. CASE i.op # "balance" /\ i.op # "spend-balance"
      <4>1. PutCount(i.op) = 0
        BY <3>5 DEF PutCount
      <4>2. QED
        BY <4>1, <1>13
    <3>6. QED
      BY <3>3, <3>4, <3>5
  <2>2. PutCount(i.op) \in Int
    <3>1. CASE i.op = "balance"
      BY <3>1 DEF PutCount
    <3>2. CASE i.op = "spend-balance"
      BY <3>2 DEF PutCount
    <3>3. CASE i.op # "balance" /\ i.op # "spend-balance"
      BY <3>3 DEF PutCount
    <3>4. QED
      BY <3>1, <3>2, <3>3
  <2>3. ~(Len(x.puts) < PutCount(x.input.op))
    BY <1>10, <1>12, <1>13, <1>25, <2>1, <2>2
  <2>4. \A s : HeldSoon(st, x, s) = Held(st, Surface(s))
    BY <2>3, NoneDue
  <2>5. DOMAIN st = Keys /\ \A key \in Keys : st[key] = st0[key]
    BY <1>11, <1>25 DEF PutSoFar
  <2>6. /\ Spent(st) = Spent(st0)
        /\ \A s \in SurfaceIds : Held(st, Surface(s)) = Held(st0, Surface(s))
        /\ ApprovalsOf(st) = ApprovalsOf(st0)
        /\ MovementsOf(st) = MovementsOf(st0)
    BY <2>5, <1>11, <1>22, ViewsBefore
  <2>7. PurseOf(st, x) = PurseThen(st0)
    BY <2>4, <2>6 DEF PurseOf, PurseThen
  <2>8. declared' = dec + Declared(st0, i, all)
    <3>1. CASE Declares(i)
      <4>1. p = all[1]
        BY <1>14, <1>25
      <4>2. BalanceAt(p.key) = Held(st0, all[1].key)
        BY <4>1, <1>1, <1>17 DEF BalanceAt, Held
      <4>3. QED
        BY <3>1, <4>1, <4>2, <1>6, <1>10 DEF Declared
    <3>2. CASE ~Declares(i)
      BY <3>2, <1>6, <1>10 DEF Declared
    <3>3. QED
      BY <3>1, <3>2
  <2>9. PlanMoves(st0, i, all, dec)
    BY <1>11, <1>20, <1>22, PlanStep
  <2>10. QED
    BY <1>1, <1>6, <1>7, <1>16, <1>24, <2>6, <2>7, <2>8, <2>9 DEF PlanMoves
<1>26. CASE k # 0
  <2>1. k \in 1..Len(all)
    BY <1>12, <1>15, <1>26
  <2>2. Leaves(i, all, k, x)
    <3>1. k # Len(all)
      BY <1>12, <1>15, <1>26
    <3>2. IsSeq(x.puts)
      BY <1>4 DEF RequestFits
    <3>3. QED
      BY <1>4, <1>10, <1>11, <3>1, <3>2 DEF Leaves
  <2>3. PurseOf(st, x) = PurseDone(st0, i, all)
    BY <1>4, <1>11, <2>1, <2>2, PurseAfter
  <2>4. ApprovalsOf(st) = ApprovalsOf(st0) \union Gives(i, all)
    BY <1>11, <2>1, ApprovalsAfter
  <2>5. MovementsOf(st) = MovementsOf(st0) \union Uses(st0, i, all)
    BY <1>11, <1>22, <2>1, MovementsAfter
  <2>6. ~Declares(i)
    BY <1>15, <1>21, <1>26
  <2>7. declared' = dec
    BY <1>6, <1>10, <1>20, <2>6
  <2>8. QED
    BY <1>1, <1>6, <1>7, <1>16, <1>24, <2>3, <2>4, <2>5, <2>7 DEF LedgerMove
<1>27. QED
  BY <1>25, <1>26

(* Every step of the workers is one of the ledger, or none.                *)
LEMMA StepMoves ==
  ASSUME LedgerTerms, IInv, AInv, [Next]_storeVars, NEW r \in Requests
  PROVE  LedgerMove(PurseOf(kv, request[r]), declared, ApprovalsOf(kv), MovementsOf(kv),
                    PurseOf(kv', request'[r]), declared', ApprovalsOf(kv'),
                    MovementsOf(kv'))
<1>1. CASE UNCHANGED storeVars
  BY <1>1, ReadsMoveNothing
<1>2. CASE Next
  <2>1. PICK q \in Requests : \/ SurfaceNext(q) \/ TopupNext(q) \/ SpendNext(q)
                              \/ Put(q) \/ Crash(q)
    BY <1>2 DEF Next
  <2>2. q = r
    BY DEF LedgerTerms, Alone
  <2>3. ~Crash(r)
    <3>1. bounds.crashes = 0 /\ crashes \in 0..bounds.crashes
      BY DEF LedgerTerms, Uncut, bounds, IInv
    <3>2. ~(crashes < bounds.crashes)
      BY <3>1
    <3>3. QED
      BY <3>2 DEF Crash
  <2>4. CASE Put(r)
    BY <2>4, PutMoves
  <2>5. CASE SurfaceNext(r) \/ TopupNext(r) \/ SpendNext(r)
    BY <2>5, OtherSteps, ReadsMoveNothing
  <2>6. QED
    BY <2>1, <2>2, <2>3, <2>4, <2>5
<1>3. QED
  BY <1>1, <1>2

(* Before the first request the ledger is empty.                           *)
LEMMA NothingYet ==
  ASSUME LedgerTerms, Init, IInv, NEW r \in Requests
  PROVE  /\ PurseOf(kv, request[r]) = [p \in SurfaceIds \union {Outside} |-> 0]
         /\ declared = 0 /\ ApprovalsOf(kv) = {} /\ MovementsOf(kv) = {}
<1>1. /\ scene \in DOMAIN Bounds /\ declared = bounds.opening /\ request[r] = Idle
      /\ kv = [key \in Keys |-> IF key \in DOMAIN bounds.given THEN bounds.given[key]
                                ELSE Absent]
  BY DEF Init, StoreInit
<1>2. bounds.opening = 0 /\ DOMAIN bounds.given = {}
  BY <1>1 DEF LedgerTerms, Unopened, bounds
<1>3. \A key \in Keys : kv[key] = Absent
  BY <1>1, <1>2
<1>4. \A s : HeldSoon(kv, request[r], s) = Held(kv, Surface(s))
  BY <1>1, NoneDue
<1>5. \A s \in SurfaceIds : Held(kv, Surface(s)) = 0
  BY <1>3, KeyOf DEF Held
<1>6. Spent(kv) = 0
  <2>1. PICK f, S : f = Debits(kv) /\ S = Pool["value-spend-balance"]
    OBVIOUS
  <2>2. StoreFits(bounds, kv)
    BY DEF IInv
  <2>3. f \in [S -> Int]
    BY <2>1, <2>2, BooksTyped
  <2>4. \A c \in S : f[c] = 0
    BY <1>3, <2>1, KeyOf DEF Debits
  <2>5. IsFiniteSet(S)
    BY <2>1 DEF LedgerTerms, Countable
  <2>6. SumOver(f, S) = 0
    BY <2>3, <2>4, <2>5, SumOverZero
  <2>7. QED
    BY <2>1, <2>6 DEF Spent
<1>7. PurseOf(kv, request[r]) = [p \in SurfaceIds \union {Outside} |-> 0]
  BY <1>4, <1>5, <1>6 DEF PurseOf
<1>8. ApprovedTopups(kv) = {} /\ ApprovedSpends(kv) = {} /\ MovesIn(kv) = {}
      /\ DebitsIn(kv) = {}
  BY <1>3, KeyOf DEF ApprovedTopups, ApprovedSpends, MovesIn, DebitsIn
<1>9. ApprovalsOf(kv) = {} /\ MovementsOf(kv) = {}
  BY <1>8 DEF ApprovalsOf, MovementsOf
<1>10. QED
  BY <1>1, <1>2, <1>7, <1>9

(* While requests do not overlap, none is cut off and clients choose no    *)
(* decision and no identifier of a movement or debit, the value-*.js       *)
(* workers are the ledger: value is only declared by owners, an approval   *)
(* names an amount its purse holds, and each approval moves exactly its    *)
(* amount, in one step and once.                                           *)
THEOREM CirculationLedger ==
  LedgerTerms => (Spec => LedgerSpec)
<1>1. SUFFICES ASSUME LedgerTerms PROVE Spec => LedgerSpec
  OBVIOUS
<1>2. Alone /\ Countable /\ \E r : Requests = {r}
  BY <1>1 DEF LedgerTerms, Alone
<1>3. PICK r : Requests = {r}
  BY <1>2
<1>4. IInv => Viewed(r)
  BY <1>2, <1>3, ViewsOf
<1>5. Init => IInv
  BY InitIInv
<1>6. Init => Ledger!LedgerInit
  <2>1. SUFFICES ASSUME Init PROVE Ledger!LedgerInit
    OBVIOUS
  <2>2. IInv /\ Viewed(r)
    BY <2>1, <1>4, <1>5
  <2>3. /\ PurseOf(kv, request[r]) = [p \in SurfaceIds \union {Outside} |-> 0]
        /\ declared = 0 /\ ApprovalsOf(kv) = {} /\ MovementsOf(kv) = {}
    BY <1>1, <1>3, <2>1, <2>2, NothingYet
  <2>4. /\ Purse = [p \in SurfaceIds \union {Outside} |-> 0]
        /\ declared = 0 /\ Approvals = {} /\ Movements = {}
    BY <2>2, <2>3 DEF Viewed
  <2>5. QED
    BY <2>4 DEF Ledger!LedgerInit, Purse, Approvals, Movements
<1>7. IInv /\ AInv /\ [Next]_storeVars /\ Viewed(r) /\ Viewed(r)'
        => [Ledger!LedgerNext]_(Ledger!ledgerVars)
  <2>1. SUFFICES ASSUME IInv, AInv, [Next]_storeVars, Viewed(r), Viewed(r)'
                 PROVE  [Ledger!LedgerNext]_(Ledger!ledgerVars)
    OBVIOUS
  <2>2. LedgerMove(PurseOf(kv, request[r]), declared, ApprovalsOf(kv), MovementsOf(kv),
                   PurseOf(kv', request'[r]), declared', ApprovalsOf(kv'),
                   MovementsOf(kv'))
    BY <1>1, <1>3, <2>1, StepMoves
  <2>3. /\ Purse = PurseOf(kv, request[r]) /\ Purse' = PurseOf(kv', request'[r])
        /\ Approvals = ApprovalsOf(kv) /\ Approvals' = ApprovalsOf(kv')
        /\ Movements = MovementsOf(kv) /\ Movements' = MovementsOf(kv')
    BY <2>1 DEF Viewed
  <2>4. LedgerMove(Purse, declared, Approvals, Movements,
                   Purse', declared', Approvals', Movements')
    BY <2>2, <2>3
  <2>5. QED
    BY <2>4 DEF LedgerMove, Ledger!LedgerNext, Ledger!Declare, Ledger!Approve,
                Ledger!Move, Ledger!ledgerVars, Purse, Approvals, Movements
<1>8. Spec => [](IInv /\ AInv)
  BY <1>2, SpecAInv
<1>9. QED
  BY <1>4, <1>6, <1>7, <1>8, PTL DEF Spec, LedgerSpec, Ledger!LedgerSpec
=============================================================================
