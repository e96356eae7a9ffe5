----------------------------- MODULE ValueSpend -----------------------------
(***************************************************************************)
(* A spend takes value out of one surface: value-spend.js records it,      *)
(* value-limit-check.js may judge it against the surface's limits,         *)
(* value-spend-decision.js approves or blocks it, value-spend-balance.js   *)
(* debits the surface, value-receipt.js attaches proof, value-refund.js    *)
(* and value-refund-decision.js record and decide refunds.  No worker of   *)
(* the repository credits a refund.                                        *)
(***************************************************************************)
EXTENDS ValueSurface, Lists

CONSTANTS
  SpendAmounts,    \* the amounts clients send to spend, limit check, refund
  MaxIndexItems    \* MAX_INDEX_ITEMS, the cap of a spend's receipt list

Spend(s) == <<"value-spend", s>>
LimitCheck(c) == <<"value-limit-check", c>>
SpendDecision(d) == <<"value-spend-decision", d>>
SpendBalance(b) == <<"value-spend-balance", b>>
Receipt(p) == <<"value-receipt", p>>
Refund(f) == <<"value-refund", f>>
RefundDecision(d) == <<"value-refund-decision", d>>

(* value-spend.js *)
ReceiveSpend(r) ==
  \E by \in Identities, s \in NewIds("value-spend"), f \in SurfaceIds,
     a \in SpendAmounts, c \in Currencies :
    Receive(r, [op |-> "spend", identity_id |-> by, new |-> s, surface |-> f,
                amount_cents |-> a, currency |-> c], <<>>)

SpendRefuses(input, seen) == Denied(seen[1], input) \/ input.amount_cents <= 0

SpendPuts(input, seen) ==
  <<Writes(Spend(input.new),
      [identity_id |-> input.identity_id, surface |-> input.surface,
       amount_cents |-> input.amount_cents, currency |-> input.currency,
       decision |-> "undecided", decision_id |-> None,
       limit_check_id |-> None, balance_moved |-> FALSE,
       spend_balance_id |-> None, receipt_ids |-> <<>>])>>

RequestSpend(r) == Serve(r, "spend", WantsSurface, SpendRefuses, SpendPuts)

(* value-limit-check.js: one amount against each limit by itself; what was *)
(* spent before does not count.                                            *)
ReceiveLimitCheck(r) ==
  \E by \in Identities, c \in Minted("value-limit-check"), s \in SurfaceIds,
     a \in SpendAmounts, k \in {"spend", "topup", "other"} :
    Receive(r, [op |-> "limit-check", identity_id |-> by, new |-> c,
                surface |-> s, amount_cents |-> a, movement_kind |-> k], <<>>)

LimitsOn(kind) ==
  CASE kind = "spend" -> {"daily_spend", "weekly_spend", "monthly_spend"}
    [] kind = "topup" -> {"single_topup", "daily_topup"}
    [] OTHER -> {}

InsideLimits(kind, amount, limits) ==
  \A n \in LimitsOn(kind) \intersect DOMAIN limits :
    limits[n] > 0 => amount <= limits[n]

LimitCheckPuts(input, seen) ==
  <<Writes(LimitCheck(input.new),
      [identity_id |-> input.identity_id, surface |-> input.surface,
       movement_kind |-> input.movement_kind,
       amount_cents |-> input.amount_cents,
       allowed |-> InsideLimits(input.movement_kind, input.amount_cents,
                                seen[1].limits)])>>

CheckLimit(r) ==
  Serve(r, "limit-check", WantsSurface, SpendRefuses, LimitCheckPuts)

(* value-spend-decision.js: naming a limit check is up to the client; one  *)
(* named before stays on the spend.                                        *)
ReceiveSpendDecision(r) ==
  \E by \in Identities, s \in bounds.pool["value-spend"],
     d \in Minted("value-spend-decision"), v \in {"approved", "blocked"},
     c \in bounds.pool["value-limit-check"] \union {None} :
    Receive(r, [op |-> "spend-decision", identity_id |-> by, new |-> d,
                spend |-> s, decision |-> v, limit_check_id |-> c], <<>>)

NamedCheck(input, spend) ==
  IF input.limit_check_id = None THEN spend.limit_check_id
                                 ELSE input.limit_check_id

SpendDecisionWants(input, seen) ==
  CASE Len(seen) = 0 -> Spend(input.spend)
    [] Len(seen) = 1 -> Surface(seen[1].surface)
    [] Len(seen) = 2 /\ seen[2] # Absent /\ NamedCheck(input, seen[1]) # None
         -> LimitCheck(NamedCheck(input, seen[1]))
    [] OTHER -> None

SpendDecisionRefuses(input, seen) ==
  CASE Len(seen) = 1 -> Denied(seen[1], input)
    [] Len(seen) = 2 -> seen[2] # Absent /\ Denied(seen[2], input)
    [] Len(seen) = 3 -> seen[3] # Absent /\ Denied(seen[3], input)
    [] OTHER -> FALSE

(* The check the decision cites: the one it read, if it is for the spend's *)
(* surface.                                                                *)
CheckFits(spend, check) == check # Absent /\ check.surface = spend.surface

(* A slip: a check's answer is not looked at.                              *)
SpendGate_AnyCheck(spend, surface, checks) ==
  /\ surface.status = "active"
  /\ surface.currency = spend.currency
  /\ SpendAllowed(surface)
  /\ spend.amount_cents > 0
  /\ spend.amount_cents <= surface.balance_cents

SpendGate(spend, surface, checks) ==
  /\ surface.status = "active"
  /\ surface.currency = spend.currency
  /\ SpendAllowed(surface)
  /\ \A c \in checks : c.allowed
  /\ spend.amount_cents > 0
  /\ spend.amount_cents <= surface.balance_cents

SpendVerdict(input, spend, surface, checks) ==
  IF surface = Absent \/ \E c \in checks : ~CheckFits(spend, c) THEN "blocked"
  ELSE IF input.decision = "blocked" \/ SpendGate(spend, surface, checks)
       THEN input.decision ELSE "blocked"

DecidedSpend(spend, decisionId, verdict, checkId) ==
  [spend EXCEPT !.decision = verdict, !.decision_id = decisionId,
                !.limit_check_id = checkId, !.balance_moved = FALSE]

SpendDecisionPuts(input, seen) ==
  LET spend   == seen[1]
      checks  == {seen[i] : i \in 3..Len(seen)}
      verdict == SpendVerdict(input, spend, seen[2], checks)
      checkId == IF checks # {} /\ \A c \in checks : CheckFits(spend, c)
                 THEN NamedCheck(input, spend) ELSE None
  IN  <<Writes(SpendDecision(input.new),
          [identity_id |-> input.identity_id, spend |-> input.spend,
           surface |-> spend.surface, decision |-> verdict,
           limit_check_id |-> checkId, amount_cents |-> spend.amount_cents,
           currency |-> spend.currency, balance_moved |-> FALSE,
           spend_balance_id |-> None]),
        Writes(Spend(input.spend),
               DecidedSpend(spend, input.new, verdict, checkId))>>

DecideSpend(r) ==
  Serve(r, "spend-decision", SpendDecisionWants, SpendDecisionRefuses,
        SpendDecisionPuts)

(* value-spend-balance.js: the decision is the one the client names, else  *)
(* the spend's latest.                                                     *)
ReceiveSpendBalance(r) ==
  \E by \in Identities, s \in bounds.pool["value-spend"],
     b \in NewIds("value-spend-balance"),
     d \in Cited("value-spend-decision") \union {None} :
    Receive(r, [op |-> "spend-balance", identity_id |-> by, new |-> b,
                spend |-> s, decision_id |-> d], <<>>)

CitedSpendDecision(input, spend) ==
  IF input.decision_id = None THEN spend.decision_id ELSE input.decision_id

SpendBalanceWants(input, seen) ==
  CASE Len(seen) = 0 -> Spend(input.spend)
    [] Len(seen) = 1 -> SpendDecision(CitedSpendDecision(input, seen[1]))
    [] Len(seen) = 2 -> Surface(seen[1].surface)
    [] OTHER -> None

MayDebit(spend) == ~spend.balance_moved /\ spend.decision = "approved"

(* A slip: the balance was compared by the decision already.               *)
EnoughFor_AsDecided(spend, surface) ==
  /\ spend.amount_cents > 0
  /\ surface.currency = spend.currency

EnoughFor(spend, surface) ==
  /\ spend.amount_cents > 0
  /\ surface.currency = spend.currency
  /\ surface.balance_cents >= spend.amount_cents

SpendBalanceRefuses(input, seen) ==
  CASE Len(seen) = 1 -> \/ Denied(seen[1], input)
                        \/ ~MayDebit(seen[1])
                        \/ CitedSpendDecision(input, seen[1]) = None
    [] Len(seen) = 2 -> \/ Denied(seen[2], input)
                        \/ seen[2].spend # input.spend
                        \/ seen[2].decision # "approved"
    [] Len(seen) = 3 -> Denied(seen[3], input) \/ ~EnoughFor(seen[1], seen[3])
    [] OTHER -> FALSE

Debited(record, debitId) ==
  [record EXCEPT !.balance_moved = TRUE, !.spend_balance_id = debitId]

(* Four puts, in the worker's order: debit, surface, spend, decision.      *)
SpendBalancePuts(input, seen) ==
  LET spend    == seen[1]
      decision == CitedSpendDecision(input, spend)
  IN  <<Writes(SpendBalance(input.new),
          [identity_id |-> input.identity_id, spend |-> input.spend,
           decision_id |-> decision, surface |-> spend.surface,
           amount_cents |-> spend.amount_cents, currency |-> spend.currency]),
        Writes(Surface(spend.surface),
               [seen[3] EXCEPT !.balance_cents = @ - spend.amount_cents]),
        Writes(Spend(input.spend), Debited(spend, input.new)),
        Writes(SpendDecision(decision), Debited(seen[2], input.new))>>

DebitSpend(r) ==
  Serve(r, "spend-balance", SpendBalanceWants, SpendBalanceRefuses,
        SpendBalancePuts)

(* value-receipt.js and value-refund.js: only for a spend that was debited. *)
WantsSpend(input, seen) == IF seen = <<>> THEN Spend(input.spend) ELSE None

NotCompleted(input, seen) == Denied(seen[1], input) \/ ~seen[1].balance_moved

ReceiveReceipt(r) ==
  \E by \in Identities, s \in bounds.pool["value-spend"], p \in NewIds("value-receipt") :
    Receive(r, [op |-> "receipt", identity_id |-> by, new |-> p, spend |-> s],
            <<>>)

(* Two slips: the list starts over with each receipt; it is never cut.     *)
WithReceipt_Replaced(ids, id) == <<id>>

WithReceipt_Uncapped(ids, id) == <<id>> \o Without(ids, id)

(* Newest first, each receipt once, the oldest dropped beyond the cap.     *)
WithReceipt(ids, id) == Capped(<<id>> \o Without(ids, id), MaxIndexItems)

ReceiptPuts(input, seen) ==
  LET spend == seen[1]
  IN  <<Writes(Receipt(input.new),
          [identity_id |-> input.identity_id, spend |-> input.spend,
           spend_balance_id |-> spend.spend_balance_id,
           surface |-> spend.surface, amount_cents |-> spend.amount_cents,
           currency |-> spend.currency]),
        Writes(Spend(input.spend),
               [spend EXCEPT !.receipt_ids = WithReceipt(@, input.new)])>>

AttachReceipt(r) == Serve(r, "receipt", WantsSpend, NotCompleted, ReceiptPuts)

(* Each refund is measured against the whole spend, not against what other *)
(* refunds left of it.                                                     *)
ReceiveRefund(r) ==
  \E by \in Identities, s \in bounds.pool["value-spend"], f \in NewIds("value-refund"),
     a \in SpendAmounts, c \in Currencies :
    Receive(r, [op |-> "refund", identity_id |-> by, new |-> f, spend |-> s,
                amount_cents |-> a, currency |-> c], <<>>)

RefundRefuses(input, seen) ==
  \/ NotCompleted(input, seen)
  \/ input.amount_cents <= 0
  \/ input.amount_cents > seen[1].amount_cents

RefundPuts(input, seen) ==
  LET spend == seen[1]
  IN  <<Writes(Refund(input.new),
          [identity_id |-> input.identity_id, spend |-> input.spend,
           spend_balance_id |-> spend.spend_balance_id,
           amount_cents |-> input.amount_cents,
           original_spend_amount_cents |-> spend.amount_cents,
           currency |-> input.currency, decision |-> "undecided",
           decision_id |-> None])>>

RequestRefund(r) == Serve(r, "refund", WantsSpend, RefundRefuses, RefundPuts)

(* value-refund-decision.js: a second approval of a decided refund is not  *)
(* refused but recorded as "blocked".                                      *)
ReceiveRefundDecision(r) ==
  \E by \in Identities, f \in bounds.pool["value-refund"],
     d \in Minted("value-refund-decision"), v \in {"approved", "blocked"} :
    Receive(r, [op |-> "refund-decision", identity_id |-> by, new |-> d,
                refund |-> f, decision |-> v], <<>>)

RefundDecisionWants(input, seen) ==
  CASE Len(seen) = 0 -> Refund(input.refund)
    [] Len(seen) = 1 -> Spend(seen[1].spend)
    [] OTHER -> None

RefundDecisionRefuses(input, seen) ==
  CASE Len(seen) = 1 -> Denied(seen[1], input)
    [] Len(seen) = 2 -> seen[2] # Absent /\ Denied(seen[2], input)
    [] OTHER -> FALSE

RefundGate(refund, spend) ==
  /\ refund.decision = "undecided"
  /\ spend.balance_moved
  /\ refund.amount_cents > 0
  /\ refund.amount_cents <= refund.original_spend_amount_cents
  /\ refund.currency = spend.currency

RefundVerdict(input, refund, spend) ==
  IF spend = Absent THEN "blocked"
  ELSE IF input.decision = "blocked" \/ RefundGate(refund, spend)
       THEN input.decision ELSE "blocked"

RefundDecisionPuts(input, seen) ==
  LET verdict == RefundVerdict(input, seen[1], seen[2])
  IN  <<Writes(RefundDecision(input.new),
          [identity_id |-> input.identity_id, refund |-> input.refund,
           spend |-> seen[1].spend, decision |-> verdict,
           amount_cents |-> seen[1].amount_cents,
           spend_balance_id |-> IF seen[2] = Absent THEN None
                                ELSE seen[2].spend_balance_id]),
        Writes(Refund(input.refund),
               [seen[1] EXCEPT !.decision = verdict, !.decision_id = input.new])>>

DecideRefund(r) ==
  Serve(r, "refund-decision", RefundDecisionWants, RefundDecisionRefuses,
        RefundDecisionPuts)

SpendNext(r) ==
  \/ ReceiveSpend(r)          \/ RequestSpend(r)
  \/ ReceiveLimitCheck(r)     \/ CheckLimit(r)
  \/ ReceiveSpendDecision(r)  \/ DecideSpend(r)
  \/ ReceiveSpendBalance(r)   \/ DebitSpend(r)
  \/ ReceiveReceipt(r)        \/ AttachReceipt(r)
  \/ ReceiveRefund(r)         \/ RequestRefund(r)
  \/ ReceiveRefundDecision(r) \/ DecideRefund(r)
=============================================================================
