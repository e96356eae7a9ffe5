------------------------ MODULE MCValueCirculation -------------------------
(***************************************************************************)
(* Instances of ValueCirculation for TLC: small pools of identifiers and   *)
(* one or two requests at a time.                                          *)
(***************************************************************************)
EXTENDS ValueCirculation, TLC

CONSTANTS ann, USD, s1, s2, t1, d1, d2, m1, m2, p1, c1, b1, b2, x1, x2, x3, f1, e1, e2

NoIds == [k \in Kinds |-> {}]

(* One topup decided at most twice; its movements share one record when    *)
(* the client names it.                                                    *)
TopupPool ==
  [NoIds EXCEPT !["value-surface"] = {s1, s2}, !["value-topup"] = {t1},
                !["value-topup-decision"] = {d1, d2},
                !["value-balance"] = {m1}]

(* One spend, decided and debited at most twice.                           *)
DebitPool ==
  [NoIds EXCEPT !["value-surface"] = {s1}, !["value-spend"] = {p1},
                !["value-spend-decision"] = {d1, d2},
                !["value-spend-balance"] = {b1, b2}]

(* The same with a refund, and with a limit check instead of debits.       *)
RefundPool == [DebitPool EXCEPT !["value-refund"] = {f1}]

CheckPool == [DebitPool EXCEPT !["value-surface"] = {s1, s2},
                               !["value-spend-decision"] = {d1},
                               !["value-spend-balance"] = {},
                               !["value-limit-check"] = {c1}]

(* Both at once, each once.                                                *)
BothPool ==
  [NoIds EXCEPT !["value-surface"] = {s1, s2}, !["value-topup"] = {t1},
                !["value-topup-decision"] = {d1}, !["value-balance"] = {m1},
                !["value-spend"] = {p1}, !["value-spend-decision"] = {d2},
                !["value-spend-balance"] = {b1}]

(* A topup decided and moved at most twice, and a spend with its receipts  *)
(* and its refund.                                                         *)
OrderlyPool ==
  [BothPool EXCEPT !["value-topup-decision"] = {d1, d2},
                   !["value-balance"] = {m1, m2},
                   !["value-receipt"] = {x1, x2, x3},
                   !["value-refund"] = {f1},
                   !["value-refund-decision"] = {e1, e2}]

Source == [kind |-> "savings", role |-> "reserve"]
Street == [kind |-> "play_card", role |-> "street"]
Mixed  == [kind |-> "play_card", role |-> "source"]

OneDailyLimit == {[n \in {"daily_spend"} |-> 1]}

Bounded(endpoints, pool, registrations, clients, cited, cut) ==
  [endpoints |-> endpoints, pool |-> pool, registrations |-> registrations,
   clients |-> clients, cited |-> cited, crashes |-> cut,
   given |-> <<>>, opening |-> 0]

(* The same on surfaces that ann has registered already, each with 2.      *)
Opened(g) ==
  [identity_id |-> ann, kind |-> g.kind, role |-> g.role, status |-> "active",
   currency |-> USD, balance_cents |-> 2, limits |-> <<>>]

OnSurfaces(given, bound) ==
  [bound EXCEPT !.given = given, !.opening = 2 * Cardinality(DOMAIN given)]

Debiting == {"spend", "spend-decision", "spend-balance"}
Moving   == {"topup", "topup-decision", "balance"}

Orderly ==
  <<Bounded({"register", "patch", "surface-status", "receipt", "refund",
            "refund-decision"} \union Moving \union Debiting,
           OrderlyPool, {Source, Street}, {}, {}, 0)>>

CutOnce ==
  <<Bounded({"register", "surface-status"} \union Moving \union Debiting,
           BothPool, {Source, Street}, {s1}, {}, 1)>>

ToppingUp ==
  <<OnSurfaces(Surface(s1) :> Opened(Source) @@ Surface(s2) :> Opened(Street),
      Bounded(Moving, TopupPool, {Source, Street}, {t1, m1}, {d1}, 0))>>

(* A spend that is debited and refunded; one of two surfaces, of which one
   has a limit; and one of a surface whose limits are set.                 *)
Limited == [Opened(Mixed) EXCEPT !.limits = [n \in {"daily_spend"} |-> 1]]

Spending ==
  <<OnSurfaces(Surface(s1) :> Opened(Mixed),
      Bounded({"refund"} \union Debiting, RefundPool, {Mixed}, {p1}, {d1}, 0)),
    OnSurfaces(Surface(s1) :> Limited @@ Surface(s2) :> Opened(Mixed),
      Bounded({"limit-check", "spend", "spend-decision"},
              CheckPool, {Mixed}, {p1}, {}, 0)),
    OnSurfaces(Surface(s1) :> Opened(Mixed),
      Bounded({"limit", "limit-check", "spend", "spend-decision"},
              [CheckPool EXCEPT !["value-surface"] = {s1},
                          !["value-spend-decision"] = {d1, d2}], {Mixed}, {}, {}, 0))>>

Racing == ToppingUp \o Spending

RacingPool ==
  [k \in Kinds |-> TopupPool[k] \union RefundPool[k] \union CheckPool[k]]

DebitingAgain ==
  <<Bounded({"register", "surface-status"} \union Debiting, DebitPool, {Mixed}, {}, {}, 0)>>

Interchangeable == Permutations(Requests)

AnyoneAnyMoney == Permutations(Identities) \union Permutations(Currencies)
=============================================================================
