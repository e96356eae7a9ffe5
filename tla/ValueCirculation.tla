-------------------------- MODULE ValueCirculation --------------------------
(***************************************************************************)
(* The value workers together: surfaces, topups and spends over one store, *)
(* and what is promised of the records they leave there.                   *)
(***************************************************************************)
EXTENDS ValueTopup, ValueSpend, FiniteSets, FiniteSetsExt

Next ==
  \E r \in Requests :
    \/ SurfaceNext(r)
    \/ TopupNext(r)
    \/ SpendNext(r)
    \/ Put(r)
    \/ Crash(r)

Init == StoreInit

Spec == Init /\ [][Next]_storeVars

-----------------------------------------------------------------------------
(* The shapes of the records under each kind of key.                       *)

Nothing(set) == set \union {None}

LimitNames == LimitsOn("spend") \union LimitsOn("topup")

(* Some of the limits, each with an amount value-limit.js was sent.        *)
LimitAmounts ==
  UNION {{limits[n] : n \in DOMAIN limits} : limits \in LimitSettings}

LimitSets == UNION {[names -> LimitAmounts] : names \in SUBSET LimitNames}

SurfaceRecord ==
  [identity_id : Identities, kind : STRING, role : STRING, status : Statuses,
   currency : Currencies, balance_cents : Int, limits : LimitSets]

Verdicts == {"approved", "blocked"}

TopupRecord ==
  [identity_id : Identities, from : SurfaceIds, to : SurfaceIds,
   amount_cents : TopupAmounts, currency : Currencies,
   decision : Verdicts \union {"undecided"},
   decision_id : Nothing(Pool["value-topup-decision"]),
   balance_moved : BOOLEAN, balance_id : Nothing(Pool["value-balance"])]

TopupDecisionRecord ==
  [identity_id : Identities, topup : Pool["value-topup"], decision : Verdicts,
   from : SurfaceIds, to : SurfaceIds, amount_cents : TopupAmounts,
   currency : Currencies, balance_moved : BOOLEAN,
   balance_id : Nothing(Pool["value-balance"])]

BalanceRecord ==
  [identity_id : Identities, topup : Pool["value-topup"],
   decision_id : Pool["value-topup-decision"], from : SurfaceIds,
   to : SurfaceIds, amount_cents : TopupAmounts, currency : Currencies]

SpendRecord ==
  [identity_id : Identities, surface : SurfaceIds, amount_cents : SpendAmounts,
   currency : Currencies, decision : Verdicts \union {"undecided"},
   decision_id : Nothing(Pool["value-spend-decision"]),
   limit_check_id : Nothing(Pool["value-limit-check"]),
   balance_moved : BOOLEAN,
   spend_balance_id : Nothing(Pool["value-spend-balance"]),
   receipt_ids : Seq(Pool["value-receipt"])]

(* No more receipts are listed than the index may hold.                    *)
IsSpend(v) == v \in SpendRecord /\ Len(v.receipt_ids) <= MaxIndexItems

SpendDecisionRecord ==
  [identity_id : Identities, spend : Pool["value-spend"], surface : SurfaceIds,
   decision : Verdicts, limit_check_id : Nothing(Pool["value-limit-check"]),
   amount_cents : SpendAmounts, currency : Currencies,
   balance_moved : BOOLEAN,
   spend_balance_id : Nothing(Pool["value-spend-balance"])]

SpendBalanceRecord ==
  [identity_id : Identities, spend : Pool["value-spend"],
   decision_id : Pool["value-spend-decision"], surface : SurfaceIds,
   amount_cents : SpendAmounts, currency : Currencies]

CheckRecord ==
  [identity_id : Identities, surface : SurfaceIds,
   movement_kind : {"spend", "topup", "other"}, amount_cents : SpendAmounts,
   allowed : BOOLEAN]

ReceiptRecord ==
  [identity_id : Identities, spend : Pool["value-spend"],
   spend_balance_id : Pool["value-spend-balance"], surface : SurfaceIds,
   amount_cents : SpendAmounts, currency : Currencies]

RefundRecord ==
  [identity_id : Identities, spend : Pool["value-spend"],
   spend_balance_id : Pool["value-spend-balance"],
   amount_cents : SpendAmounts, original_spend_amount_cents : SpendAmounts,
   currency : Currencies, decision : Verdicts \union {"undecided"},
   decision_id : Nothing(Pool["value-refund-decision"])]

RefundDecisionRecord ==
  [identity_id : Identities, refund : Pool["value-refund"],
   spend : Pool["value-spend"], decision : Verdicts,
   amount_cents : SpendAmounts,
   spend_balance_id : Nothing(Pool["value-spend-balance"])]

(* No record is Absent.  Requests take surfaces as earlier ones left them,
   what they ask for is a number of cents, and limits are set by name.     *)
ASSUME CirculationAssumption ==
  /\ None \notin Keys
  /\ Absent \notin SurfaceRecord \union TopupRecord \union TopupDecisionRecord
                     \union BalanceRecord \union SpendRecord
                     \union SpendDecisionRecord \union SpendBalanceRecord
                     \union CheckRecord \union ReceiptRecord
  /\ Declarations \subseteq Int
  /\ TopupAmounts \subseteq Int
  /\ SpendAmounts \subseteq Int
  /\ MaxIndexItems \in Nat \ {0}
  /\ LimitSettings \subseteq LimitSets
  /\ \A n \in DOMAIN Bounds :
       /\ Bounds[n].registrations \subseteq [kind : STRING, role : STRING]
       /\ \A key \in DOMAIN Bounds[n].given :
            /\ key \in {Surface(s) : s \in SurfaceIds}
            /\ Bounds[n].given[key] \in SurfaceRecord
            /\ [kind |-> Bounds[n].given[key].kind, role |-> Bounds[n].given[key].role]
                 \in Bounds[n].registrations

(* Every record put under a key has the shape its readers expect: a        *)
(* completed spend always names its debit, and the receipts a spend lists  *)
(* stay below the cap.                                                     *)
TypeOK ==
  /\ \A v \in Records("value-surface") :
       v \in SurfaceRecord /\ [kind |-> v.kind, role |-> v.role] \in bounds.registrations
  /\ Records("value-topup") \subseteq TopupRecord
  /\ Records("value-topup-decision") \subseteq TopupDecisionRecord
  /\ Records("value-balance") \subseteq BalanceRecord
  /\ \A v \in Records("value-spend") : IsSpend(v)
  /\ Records("value-limit-check") \subseteq CheckRecord
  /\ Records("value-spend-decision") \subseteq SpendDecisionRecord
  /\ Records("value-spend-balance") \subseteq SpendBalanceRecord
  /\ Records("value-receipt") \subseteq ReceiptRecord
  /\ Records("value-refund") \subseteq RefundRecord
  /\ Records("value-refund-decision") \subseteq RefundDecisionRecord
  /\ crashes \in 0..bounds.crashes
  /\ declared \in Int

-----------------------------------------------------------------------------
(* What holds whatever requests overlap and wherever they are cut off.     *)

(* No surface owes: while no owner declares a negative balance, no order   *)
(* of debits and stale whole-record writes takes a balance below zero.     *)
NeverOverdrawn ==
  \A v \in Records("value-surface") : v.balance_cents >= 0

(* A topup that reads as approved is the one that was approved: the        *)
(* decision it names is stored, is an approval of this topup, and was      *)
(* given for these surfaces and this amount, however the record was        *)
(* reposted, decided again and overwritten in between.                     *)
ApprovalBacked ==
  \A t \in Pool["value-topup"] :
    LET topup == kv[Topup(t)]
    IN  Holds("value-topup", t) /\ topup.decision = "approved" =>
          /\ Holds("value-topup-decision", topup.decision_id)
          /\ LET d == kv[TopupDecision(topup.decision_id)]
             IN  /\ d.topup = t
                 /\ d.decision = "approved"
                 /\ <<d.from, d.to, d.amount_cents>>
                      = <<topup.from, topup.to, topup.amount_cents>>

(* "Move balances only after a topup request has been approved"            *)
(* (value-balance.js): every movement on record is of an amount between    *)
(* two surfaces that some stored approval of its topup names.              *)
MoveBacked ==
  \A m \in Records("value-balance") :
    \E d \in Records("value-topup-decision") :
      /\ d.topup = m.topup
      /\ d.decision = "approved"
      /\ <<d.from, d.to, d.amount_cents>> = <<m.from, m.to, m.amount_cents>>

(* The same for spends: every debit on record has a stored approval of its *)
(* spend for that surface and amount.                                      *)
DebitBacked ==
  \A b \in Records("value-spend-balance") :
    \E d \in Records("value-spend-decision") :
      /\ d.spend = b.spend
      /\ d.decision = "approved"
      /\ <<d.surface, d.amount_cents>> = <<b.surface, b.amount_cents>>

(* A refund is of a debit: the one it names is on record, is of the spend  *)
(* it names and is no smaller than the refund.                             *)
RefundOfDebit ==
  \A f \in Records("value-refund") :
    /\ Holds("value-spend-balance", f.spend_balance_id)
    /\ LET b == kv[SpendBalance(f.spend_balance_id)]
       IN  b.spend = f.spend /\ f.amount_cents <= b.amount_cents

(* Whatever overlaps or is cut off, nothing on record that lets value move,
   moves it or gives it back lacks what it rests on.                       *)
MovementsBacked == ApprovalBacked /\ MoveBacked /\ DebitBacked /\ RefundOfDebit

(* An approved spend that cites a limit check cites one that allowed       *)
(* something on this spend's surface, for this identity.                   *)
CheckRespected ==
  \A d \in Records("value-spend-decision") :
    d.decision = "approved" /\ d.limit_check_id # None =>
      /\ Holds("value-limit-check", d.limit_check_id)
      /\ LET c == kv[LimitCheck(d.limit_check_id)]
         IN  /\ c.allowed
             /\ c.surface = d.surface
             /\ c.identity_id = d.identity_id

-----------------------------------------------------------------------------
(* What holds when requests do not overlap.                                *)

TotalBalance ==
  MapThenSumSet(LAMBDA s : BalanceAt(Surface(s)), SurfaceIds)

TotalDebited ==
  LET amount(b) == IF Holds("value-spend-balance", b)
                   THEN kv[SpendBalance(b)].amount_cents ELSE 0
  IN  MapThenSumSet(amount, Pool["value-spend-balance"])

Quiet == \A r \in Requests : ~Busy(r)

Largest == Max(TopupAmounts \union SpendAmounts)

(* Crashes only lose value: a request cut off between its debit and its    *)
(* credit loses the amount, one cut off between recording a debit and      *)
(* making it keeps it; nothing else changes the sum of the balances.       *)
CrashesBoundLoss ==
  Quiet => /\ TotalBalance <= declared
           /\ TotalBalance + TotalDebited >= declared - crashes * Largest
           /\ TotalBalance + TotalDebited <= declared + crashes * Largest

(* A receipt that was stored can be found from its spend: the spend lists  *)
(* each of its receipts once, or as many as the cap lets it.               *)
ReceiptsListed ==
  Quiet => \A s \in Pool["value-spend"] : Holds("value-spend", s) =>
    LET listed == kv[Spend(s)].receipt_ids
        stored == {p \in Pool["value-receipt"] :
                     Holds("value-receipt", p) /\ kv[Receipt(p)].spend = s}
    IN  /\ {listed[i] : i \in DOMAIN listed} \subseteq stored
        /\ Cardinality({listed[i] : i \in DOMAIN listed}) = Len(listed)
        /\ Len(listed) = Min({Cardinality(stored), MaxIndexItems})

(* Nobody spends another's value: a put that changes the balance of a      *)
(* registered surface is made for the identity that owns it; registering   *)
(* the name anew, which the code lets anyone do, is the exception.         *)
OnlyOwnersMove ==
  \A r \in Requests, s \in SurfaceIds :
    /\ Busy(r) /\ request'[r] # request[r]
    /\ Holds("value-surface", s)
    /\ BalanceAt(Surface(s)) # kv'[Surface(s)].balance_cents
    => \/ request[r].input.identity_id = kv[Surface(s)].identity_id
       \/ request[r].input.op = "register"

(* Value keeps its currency: although a topup and a spend carry whatever   *)
(* currency the client sent, and a surface may be registered anew between  *)
(* the approval and the movement, a movement is recorded in the currency   *)
(* both its surfaces have, and a debit in that of its surface.             *)
CurrencyKept ==
  /\ \A m \in Pool["value-balance"] :
       LET move == kv'[BalanceMove(m)]
       IN  move # kv[BalanceMove(m)] =>
             /\ kv[Surface(move.from)].currency = move.currency
             /\ kv[Surface(move.to)].currency = move.currency
  /\ \A b \in Pool["value-spend-balance"] :
       LET debit == kv'[SpendBalance(b)]
       IN  debit # kv[SpendBalance(b)] =>
             kv[Surface(debit.surface)].currency = debit.currency

(* What a movement may do, whatever happened since it was approved.        *)
MovesPermitted == [][OnlyOwnersMove /\ CurrencyKept]_storeVars

(***************************************************************************)
(* The refinement.  A movement counts from its first put, the record; the  *)
(* puts that remain are taken as done.                                     *)
(***************************************************************************)
PutCount(op) ==
  CASE op = "balance" -> 5
    [] op = "spend-balance" -> 4
    [] OTHER -> 0

Due(s) ==
  {p \in UNION {{request[r].puts[i] : i \in DOMAIN request[r].puts} :
           r \in {q \in Requests :
                    /\ Busy(q)
                    /\ Len(request[q].puts) < PutCount(request[q].input.op)}} :
     p.key = Surface(s)}

Settled(s) ==
  IF Due(s) = {} THEN BalanceAt(Surface(s))
  ELSE (CHOOSE p \in Due(s) : TRUE).value.balance_cents

Outside == "outside"

MoveApproval(d) ==
  LET v == kv[TopupDecision(d)]
  IN  [id |-> TopupDecision(d), from |-> v.from, to |-> v.to,
       amount |-> v.amount_cents]

SpendApproval(d) ==
  LET v == kv[SpendDecision(d)]
  IN  [id |-> SpendDecision(d), from |-> v.surface, to |-> Outside,
       amount |-> v.amount_cents]

Approved(kind) ==
  {d \in Pool[kind] : Holds(kind, d) /\ kv[<<kind, d>>].decision = "approved"}

Ledger == INSTANCE ValueLedger WITH
  Purses   <- SurfaceIds,
  purse    <- [p \in SurfaceIds \union {Outside} |->
                 IF p = Outside THEN TotalDebited ELSE Settled(p)],
  total    <- declared,
  approved <- {MoveApproval(d) : d \in Approved("value-topup-decision")}
                \union {SpendApproval(d) : d \in Approved("value-spend-decision")},
  used     <- {MoveApproval(m.decision_id) : m \in Records("value-balance")}
                \union {SpendApproval(b.decision_id) :
                          b \in Records("value-spend-balance")}

(* While requests do not overlap, none is cut off and clients name no      *)
(* decision of their own, the workers are the ledger: every approval moves *)
(* its amount once, out of a purse that holds it, and value is only made   *)
(* by declaring it.                                                        *)
LedgerSpec == Ledger!LedgerSpec

-----------------------------------------------------------------------------
(* What a worker's own words say, and repeated requests contradict.        *)

(* value-spend-balance.js: "Apply the internal debit for one approved      *)
(* spend request", and VALUE_SPEND_ALREADY_DEBITED for a second one.       *)
DebitedOnce ==
  \A b, c \in Pool["value-spend-balance"] :
    b # c /\ Holds("value-spend-balance", b) /\ Holds("value-spend-balance", c)
      => kv[SpendBalance(b)].spend # kv[SpendBalance(c)].spend
=============================================================================
