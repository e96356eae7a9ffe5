----------------------------- MODULE ValueTopup -----------------------------
(***************************************************************************)
(* A topup moves value between two surfaces of one identity in three       *)
(* requests: value-topup.js records it, value-topup-decision.js approves   *)
(* or blocks it, value-balance.js moves the balances of an approved one.   *)
(*                                                                         *)
(* A topup's approved, blocked, decided, decision and status fields are    *)
(* written together; the model keeps decision, "undecided" before the      *)
(* first one.  A decision resets balance_moved and does not look at it.    *)
(***************************************************************************)
EXTENDS ValueSurface

CONSTANT
  TopupAmounts      \* the amounts clients ask for; only amounts above 0 are kept

Topup(t) == <<"value-topup", t>>
TopupDecision(d) == <<"value-topup-decision", d>>
BalanceMove(m) == <<"value-balance", m>>

(* value-topup.js: both surfaces must exist and belong to the identity.    *)
ReceiveTopup(r) ==
  \E by \in Identities, t \in NewIds("value-topup"), f, g \in SurfaceIds,
     a \in TopupAmounts, c \in Currencies :
    /\ f # g
    /\ Receive(r, [op |-> "topup", identity_id |-> by, new |-> t, from |-> f,
                   to |-> g, amount_cents |-> a, currency |-> c], <<>>)

TopupWants(input, seen) ==
  CASE Len(seen) = 0 -> Surface(input.from)
    [] Len(seen) = 1 -> Surface(input.to)
    [] OTHER -> None

TopupRefuses(input, seen) ==
  /\ Len(seen) = 2
  /\ \/ Denied(seen[1], input)
     \/ Denied(seen[2], input)
     \/ input.amount_cents <= 0

(* A slip: a topup posted under a known name keeps its old decision.       *)
TopupPuts_Merged(input, seen) ==
  LET old   == kv[Topup(input.new)]
      fresh == [identity_id |-> input.identity_id, from |-> input.from,
                to |-> input.to, amount_cents |-> input.amount_cents,
                currency |-> input.currency, decision |-> "undecided",
                decision_id |-> None, balance_moved |-> FALSE,
                balance_id |-> None]
  IN  <<Writes(Topup(input.new),
          IF old = Absent THEN fresh
          ELSE [fresh EXCEPT !.decision = old.decision,
                             !.decision_id = old.decision_id])>>

TopupPuts(input, seen) ==
  <<Writes(Topup(input.new),
      [identity_id |-> input.identity_id, from |-> input.from,
       to |-> input.to, amount_cents |-> input.amount_cents,
       currency |-> input.currency, decision |-> "undecided",
       decision_id |-> None, balance_moved |-> FALSE, balance_id |-> None])>>

RequestTopup(r) == Serve(r, "topup", TopupWants, TopupRefuses, TopupPuts)

(* value-topup-decision.js: the gate judges the surfaces as read now.      *)
ReceiveTopupDecision(r) ==
  \E by \in Identities, t \in bounds.pool["value-topup"],
     d \in Minted("value-topup-decision"), v \in {"approved", "blocked"} :
    Receive(r, [op |-> "topup-decision", identity_id |-> by, new |-> d,
                topup |-> t, decision |-> v], <<>>)

TopupDecisionWants(input, seen) ==
  CASE Len(seen) = 0 -> Topup(input.topup)
    [] Len(seen) = 1 -> Surface(seen[1].from)
    [] Len(seen) = 2 -> Surface(seen[1].to)
    [] OTHER -> None

(* A missing surface blocks the request; a foreign one is an error.        *)
TopupDecisionRefuses(input, seen) ==
  CASE Len(seen) = 1 -> Denied(seen[1], input)
    [] Len(seen) = 3 -> /\ seen[2] # Absent
                        /\ seen[3] # Absent
                        /\ Denied(seen[2], input) \/ Denied(seen[3], input)
    [] OTHER -> FALSE

TopupGate(topup, from, to) ==
  /\ topup.from # topup.to
  /\ from.status = "active"
  /\ to.status = "active"
  /\ from.currency = topup.currency
  /\ to.currency = topup.currency
  /\ SourceAllowed(from)
  /\ SpendAllowed(to)
  /\ ~(StreetExposed(from) /\ ~StreetExposed(to))
  /\ topup.amount_cents > 0
  /\ topup.amount_cents <= from.balance_cents

TopupVerdict(input, topup, from, to) ==
  IF from = Absent \/ to = Absent THEN "blocked"
  ELSE IF input.decision = "blocked" \/ TopupGate(topup, from, to)
       THEN input.decision ELSE "blocked"

DecidedTopup(topup, decisionId, verdict) ==
  [topup EXCEPT !.decision = verdict, !.decision_id = decisionId,
                !.balance_moved = FALSE]

(* The decision is stored before the topup that names it.                  *)
TopupDecisionPuts(input, seen) ==
  LET topup   == seen[1]
      verdict == TopupVerdict(input, topup, seen[2], seen[3])
  IN  <<Writes(TopupDecision(input.new),
          [identity_id |-> input.identity_id, topup |-> input.topup,
           decision |-> verdict, from |-> topup.from, to |-> topup.to,
           amount_cents |-> topup.amount_cents, currency |-> topup.currency,
           balance_moved |-> FALSE, balance_id |-> None]),
        Writes(Topup(input.topup), DecidedTopup(topup, input.new, verdict))>>

DecideTopup(r) ==
  Serve(r, "topup-decision", TopupDecisionWants, TopupDecisionRefuses,
        TopupDecisionPuts)

(* value-balance.js: the client may name the decision it acts on; without  *)
(* one the topup's latest is taken.                                        *)
ReceiveBalance(r) ==
  \E by \in Identities, t \in bounds.pool["value-topup"],
     m \in NewIds("value-balance"),
     d \in Cited("value-topup-decision") \union {None} :
    Receive(r, [op |-> "balance", identity_id |-> by, new |-> m,
                topup |-> t, decision_id |-> d], <<>>)

CitedTopupDecision(input, topup) ==
  IF input.decision_id = None THEN topup.decision_id ELSE input.decision_id

BalanceWants(input, seen) ==
  CASE Len(seen) = 0 -> Topup(input.topup)
    [] Len(seen) = 1 -> TopupDecision(CitedTopupDecision(input, seen[1]))
    [] Len(seen) = 2 -> Surface(seen[1].from)
    [] Len(seen) = 3 -> Surface(seen[1].to)
    [] OTHER -> None

(* A slip: the topup's moved flag is not looked at.                        *)
MayMove_Again(topup) == topup.decision = "approved"

MayMove(topup) == ~topup.balance_moved /\ topup.decision = "approved"

Approves(decision, input) ==
  decision.topup = input.topup /\ decision.decision = "approved"

(* A slip: the surface's currency was judged by the decision already.      *)
Covers_AnyCurrency(surface, topup) ==
  /\ topup.amount_cents > 0
  /\ surface.balance_cents >= topup.amount_cents

Covers(surface, topup) ==
  /\ topup.amount_cents > 0
  /\ surface.currency = topup.currency
  /\ surface.balance_cents >= topup.amount_cents

BalanceRefuses(input, seen) ==
  CASE Len(seen) = 1 -> \/ Denied(seen[1], input)
                        \/ ~MayMove(seen[1])
                        \/ CitedTopupDecision(input, seen[1]) = None
    [] Len(seen) = 2 -> Denied(seen[2], input) \/ ~Approves(seen[2], input)
    [] Len(seen) = 4 -> \/ Denied(seen[3], input)
                        \/ Denied(seen[4], input)
                        \/ ~Covers(seen[3], seen[1])
                        \/ seen[4].currency # seen[1].currency
    [] OTHER -> FALSE

Moved(record, moveId) ==
  [record EXCEPT !.balance_moved = TRUE, !.balance_id = moveId]

(* A slip: the credit is written before the debit.                         *)
BalancePuts_CreditFirst(input, seen) ==
  LET topup    == seen[1]
      decision == CitedTopupDecision(input, topup)
      amount   == topup.amount_cents
  IN  <<Writes(BalanceMove(input.new),
          [identity_id |-> input.identity_id, topup |-> input.topup,
           decision_id |-> decision, from |-> topup.from, to |-> topup.to,
           amount_cents |-> amount, currency |-> topup.currency]),
        Writes(Surface(topup.to),   [seen[4] EXCEPT !.balance_cents = @ + amount]),
        Writes(Surface(topup.from), [seen[3] EXCEPT !.balance_cents = @ - amount]),
        Writes(Topup(input.topup), Moved(topup, input.new)),
        Writes(TopupDecision(decision), Moved(seen[2], input.new))>>

(* Five puts, in the worker's order: record, debit, credit, topup, decision. *)
BalancePuts(input, seen) ==
  LET topup    == seen[1]
      decision == CitedTopupDecision(input, topup)
      amount   == topup.amount_cents
  IN  <<Writes(BalanceMove(input.new),
          [identity_id |-> input.identity_id, topup |-> input.topup,
           decision_id |-> decision, from |-> topup.from, to |-> topup.to,
           amount_cents |-> amount, currency |-> topup.currency]),
        Writes(Surface(topup.from), [seen[3] EXCEPT !.balance_cents = @ - amount]),
        Writes(Surface(topup.to),   [seen[4] EXCEPT !.balance_cents = @ + amount]),
        Writes(Topup(input.topup), Moved(topup, input.new)),
        Writes(TopupDecision(decision), Moved(seen[2], input.new))>>

MoveBalance(r) ==
  Serve(r, "balance", BalanceWants, BalanceRefuses, BalancePuts)

TopupNext(r) ==
  \/ ReceiveTopup(r)         \/ RequestTopup(r)
  \/ ReceiveTopupDecision(r) \/ DecideTopup(r)
  \/ ReceiveBalance(r)       \/ MoveBalance(r)
=============================================================================
