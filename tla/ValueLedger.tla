---------------------------- MODULE ValueLedger -----------------------------
(***************************************************************************)
(* What the value workers promise together when their requests do not      *)
(* overlap and none is cut off: a ledger.  Owners declare what a purse     *)
(* holds; after that value only moves, whole and in one step, from purse   *)
(* to purse or out of the system, once for every approval and for exactly  *)
(* the approved amount, which the purse it leaves holds.                   *)
(***************************************************************************)
EXTENDS Integers

CONSTANTS Purses, Outside

VARIABLES
  purse,      \* what each purse holds; Outside is where spends go
  total,      \* the value declared so far
  approved,   \* the approvals given: id, from, to and amount
  used        \* the approvals that have moved value

ledgerVars == <<purse, total, approved, used>>

LedgerInit ==
  /\ purse = [p \in Purses \union {Outside} |-> 0]
  /\ total = 0
  /\ approved = {}
  /\ used = {}

(* The owner sets what a purse holds, the only way value comes or goes.    *)
Declare(p) ==
  /\ purse' = [purse EXCEPT ![p] = purse'[p]]
  /\ total' = total + purse'[p] - purse[p]
  /\ UNCHANGED <<approved, used>>

Approve(a) ==
  /\ a.id \notin {b.id : b \in approved}
  /\ a.amount > 0
  /\ a.amount <= purse[a.from]
  /\ approved' = approved \union {a}
  /\ UNCHANGED <<purse, total, used>>

Move(a) ==
  /\ a \notin used
  /\ a.amount <= purse[a.from]
  /\ purse' = [purse EXCEPT ![a.from] = @ - a.amount, ![a.to] = @ + a.amount]
  /\ used' = used \union {a}
  /\ UNCHANGED <<total, approved>>

LedgerNext ==
  \/ \E p \in Purses : Declare(p)
  \/ \E a \in approved' \ approved : Approve(a)
  \/ \E a \in approved : Move(a)

LedgerSpec == LedgerInit /\ [][LedgerNext]_ledgerVars
=============================================================================
