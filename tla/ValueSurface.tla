---------------------------- MODULE ValueSurface ----------------------------
(***************************************************************************)
(* The workers that own the surface record: registration and PATCH         *)
(* (value-surface.js), the status change (value-surface-status.js) and the *)
(* limits (value-limit.js).  All but registration read the record, change  *)
(* their own fields and put the whole of it back, balance included.        *)
(***************************************************************************)
EXTENDS ValueStore

CONSTANTS
  Statuses,        \* the statuses clients set
  Declarations,    \* the balances clients declare; nothing refuses a negative
  LimitSettings    \* what clients send to value-limit.js

SurfaceIds == Pool["value-surface"]

Surface(s) == <<"value-surface", s>>

StreetKinds == {"play_card", "cash_pocket"}

StreetExposed(surface) ==
  surface.role = "street" \/ surface.kind \in StreetKinds

SourceAllowed(surface) ==
  surface.role \in {"source", "reserve", "business", "household"}

SpendAllowed(surface) ==
  surface.role \in {"street", "buffer"} \/ surface.kind \in StreetKinds

(* Registration reads nothing: it replaces a record of the same name.      *)
ReceiveRegister(r) ==
  \E by \in Identities, s \in NewIds("value-surface"), g \in bounds.registrations,
     st \in Statuses, c \in Currencies, b \in Declarations :
    LET surface == [identity_id |-> by, kind |-> g.kind, role |-> g.role,
                    status |-> st, currency |-> c, balance_cents |-> b,
                    limits |-> <<>>]
    IN  Receive(r, [op |-> "register", identity_id |-> by, new |-> s],
                <<Writes(Surface(s), surface)>>)

(* What PATCH, status and limit have in common: one get of the surface.    *)
WantsSurface(input, seen) == IF seen = <<>> THEN Surface(input.surface) ELSE None

RefusesSurface(input, seen) == Denied(seen[1], input)

ReceivePatch(r) ==
  \E by \in Identities, s \in SurfaceIds, st \in Statuses \union {None},
     b \in Declarations \union {None} :
    Receive(r, [op |-> "patch", identity_id |-> by, new |-> None,
                surface |-> s, status |-> st, balance_cents |-> b], <<>>)

PatchPuts(input, seen) ==
  LET given(field, old) == IF input[field] = None THEN old ELSE input[field]
  IN  <<Writes(Surface(input.surface),
          [seen[1] EXCEPT !.status = given("status", @),
                          !.balance_cents = given("balance_cents", @)])>>

Patch(r) == Serve(r, "patch", WantsSurface, RefusesSurface, PatchPuts)

ReceiveStatus(r) ==
  \E by \in Identities, s \in SurfaceIds, st \in Statuses :
    Receive(r, [op |-> "surface-status", identity_id |-> by, new |-> None,
                surface |-> s, status |-> st], <<>>)

StatusPuts(input, seen) ==
  <<Writes(Surface(input.surface), [seen[1] EXCEPT !.status = input.status])>>

SurfaceStatus(r) ==
  Serve(r, "surface-status", WantsSurface, RefusesSurface, StatusPuts)

ReceiveLimit(r) ==
  \E by \in Identities, s \in SurfaceIds, limits \in LimitSettings :
    Receive(r, [op |-> "limit", identity_id |-> by, new |-> None,
                surface |-> s, limits |-> limits], <<>>)

(* New limits override the old ones name by name; the others stay.         *)
LimitPuts(input, seen) ==
  LET old == seen[1].limits
      new == input.limits
  IN  <<Writes(Surface(input.surface),
          [seen[1] EXCEPT !.limits =
             [n \in DOMAIN old \union DOMAIN new |->
                IF n \in DOMAIN new THEN new[n] ELSE old[n]]])>>

Limit(r) == Serve(r, "limit", WantsSurface, RefusesSurface, LimitPuts)

SurfaceNext(r) ==
  \/ ReceiveRegister(r)
  \/ ReceivePatch(r)  \/ Patch(r)
  \/ ReceiveStatus(r) \/ SurfaceStatus(r)
  \/ ReceiveLimit(r)  \/ Limit(r)
=============================================================================
