--------------------------- MODULE AttemptCounter ---------------------------
(***************************************************************************)
(* A count of attempts that a key-value record keeps and a limit closes:   *)
(*                                                                         *)
(*   attachment-verifier-attempt  three wrong secrets escalate a verifier  *)
(*   login-limit                  ten logins close an address for a while  *)
(*                                                                         *)
(* Both get the count, go on while it is below the limit, and later put    *)
(* back one more than what they got.  The verifier awaits a hash between   *)
(* the two; nothing keeps another attempt out.  Of the record, the count   *)
(* decides: the lock is stored with it in one put, and is "ESCALATED"      *)
(* exactly at the limit.  An attempt refused before it gets the count, for *)
(* its session, attachment or owner, changes nothing and is left out.      *)
(***************************************************************************)
EXTENDS Integers, FiniteSets

CONSTANTS
  Requests,  \* the attempts that may be in progress at one time
  Limit      \* 3 for a verifier, 10 for an address

ASSUME CounterAssumption ==
  /\ IsFiniteSet(Requests)
  /\ Limit \in Nat \ {0}

VARIABLES
  count,  \* failedAttemptCount, or the number under login:ip:<address>
  copy,   \* for each attempt in progress, the count it got, or Nothing
  tries,  \* history: attempts counted since the record was last absent
  most    \* history: how many attempts were in progress at one time

vars == <<count, copy, tries, most>>

Nothing == -1

Busy(r) == copy[r] # Nothing
Busies == {r \in Requests : Busy(r)}

(* lockState, or the comparison with ten.  A slip: one too many.           *)
Open_AtLimit(n) == n <= Limit

Open(n) == n < Limit

(* advanceAttachmentVerifierFailure, which escalates at Limit; attempts + 1. *)
Advanced(n) == n + 1

Init ==
  /\ count = 0
  /\ copy = [r \in Requests |-> Nothing]
  /\ tries = 0
  /\ most = 0

Get(r) ==
  /\ ~Busy(r)
  /\ Open(count)
  /\ copy' = [copy EXCEPT ![r] = count]
  /\ most' = IF Cardinality(Busies') > most THEN Cardinality(Busies') ELSE most
  /\ UNCHANGED <<count, tries>>

(* The secret is wrong, or the login may go on: the whole record is put.   *)
Fail(r) ==
  /\ Busy(r)
  /\ count' = Advanced(copy[r])
  /\ copy' = [copy EXCEPT ![r] = Nothing]
  /\ tries' = tries + 1
  /\ UNCHANGED most

(* The secret matches, or the attempt is cut off.  No success resets the
   count.                                                                  *)
Match(r) ==
  /\ Busy(r)
  /\ copy' = [copy EXCEPT ![r] = Nothing]
  /\ UNCHANGED <<count, tries, most>>

(* The record of an address expires; that of a verifier never does.  A new
   count of tries starts, in which attempts that got the old one take part. *)
Lapse ==
  /\ count' = 0
  /\ tries' = 0
  /\ UNCHANGED <<copy, most>>

Next == Lapse \/ \E r \in Requests : Get(r) \/ Fail(r) \/ Match(r)

Spec == Init /\ [][Next]_vars
-----------------------------------------------------------------------------
TypeOK ==
  /\ count \in 0..Limit
  /\ copy \in [Requests -> Nothing..(Limit - 1)]
  /\ tries \in Nat
  /\ most \in Nat

(* Twice the tries two requests have when they start from n.               *)
Twice(n) == (Limit - n) * (Limit - n + 3)

(* What attempts that overlap can win.  One at a time they have the limit.
   Two at a time, one may hold a low count while the other uses up the rest
   and then put the count back, again and again, each time to a higher one:
   they have Limit * (Limit + 3) / 2 tries, nine where three are meant.    *)
TriesBounded ==
  /\ most <= 1 => tries <= Limit
  /\ most <= 2 => 2 * tries <= Twice(0)

(* While attempts come one at a time, a verifier that was escalated accepts
   no more of them, and an address none before its record expires.         *)
StaysClosed == [][most <= 1 /\ count = Limit => count' \in {0, Limit}]_vars

-----------------------------------------------------------------------------
(* Why two have no more.  A copy no higher than the count can still put it
   back to one more than the copy, and forgoes the tries between the two.  *)
Lower(m, n) == IF m <= n THEN m ELSE n

Left(c, n) == Twice(Lower(c, n)) - 2 * (n - Lower(c, n))

(* Of two copies one is of the count as it is, unless it has lapsed: who got
   it last has seen no put since, for whoever puts no longer has a copy.   *)
LastGot ==
  \A r, q \in Busies :
    r # q => \/ copy[r] = count \/ copy[q] = count
             \/ count = 0 /\ tries = 0

IInv ==
  /\ TypeOK
  /\ Cardinality(Busies) <= most
  /\ most <= 1 => /\ tries <= count
                  /\ \A r \in Busies : copy[r] = count \/ (count = 0 /\ tries = 0)
  /\ most <= 2 => /\ 2 * tries + Twice(count) <= Twice(0)
                  /\ \A r \in Busies : 2 * tries + Left(copy[r], count) <= Twice(0)
                  /\ LastGot
=============================================================================
