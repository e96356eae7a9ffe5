---------------------- MODULE EmailVerificationProofs ----------------------
(***************************************************************************)
(* Proofs about EmailVerification, for any passes, tokens, rows and emails *)
(* and any finite number of requests in progress at one time.              *)
(***************************************************************************)
EXTENDS EmailVerification, FiniteSetTheorems, TLAPS

-----------------------------------------------------------------------------
(* The inductive invariant.  Whatever a pass, a link or an email without a
   row is worth is counted twice: by what it has bought, and by the requests
   that have seen it and are still to use it.  A request can only join while
   nothing was bought, so the sum never passes the requests there can be.  *)

At(r, steps) == ~Idle(r) /\ work[r].at \in steps

Most == IF oneByOne /\ Requests # {} THEN 1 ELSE Cardinality(Requests)
Sent == {"mailed", "consumed", "expired"}

Busies == {r \in Requests : ~Idle(r)}
Holders(p) == {r \in Requests : At(r, {"spend", "create"}) /\ work[r].pass = p}
Provers(t) == {r \in Requests : At(r, {"record", "delete"}) /\ work[r].token = t}
Inserters(e) == {r \in Requests : At(r, {"insert"}) /\ work[r].email = e}
RowsOf(e) == {row \in rows : row.email = e}

\* No more requests in progress than the behaviour allows.
Crowd == oneByOne \in BOOLEAN /\ Cardinality(Busies) <= Most

\* A token that was stored was made on a pass that was spent.
TokensPaid ==
  \A t \in Tokens :
    IF token[t].state = "none" THEN token[t] = NoToken
    ELSE /\ token[t].pass \in Passes
         /\ token[t].email \in Emails
         /\ pass[token[t].pass] = "spent"

\* A request goes on from what the steps before it left.
WorkBacked ==
  \A r \in Requests :
    /\ At(r, {"create"}) => pass[work[r].pass] = "spent"
    /\ At(r, {"mail"}) => token[work[r].token].state = "live"
    /\ At(r, {"record", "delete"}) => token[work[r].token].state \in Sent

\* A token is mailed by the one request that stored it.
MailOwned ==
  \A r, q \in Requests :
    At(r, {"mail"}) /\ At(q, {"mail"}) /\ work[r].token = work[q].token => r = q

PassesPay ==
  \A p \in Passes :
    /\ IsFiniteSet(Made(p))
    /\ Cardinality(Made(p)) + Cardinality(Holders(p)) <= Most

\* A spent pass that no request is working for and no mail was sent for.
InHand(p) ==
  \E r \in Requests :
    \/ At(r, {"create"}) /\ work[r].pass = p
    \/ At(r, {"mail"}) /\ token[work[r].token].pass = p
Unpaid(p) == pass[p] = "spent" /\ \A t \in Made(p) : token[t].state \notin Sent
Lost == {p \in Passes : Unpaid(p) /\ ~InHand(p)}

LossesCover == IsFiniteSet(Lost) /\ Cardinality(Lost) <= losses

TokensProve ==
  \A t \in Tokens :
    /\ successes[t] > 0 => token[t].state = "consumed"
    /\ successes[t] + Cardinality(Provers(t)) <= Most

RowsInserted ==
  \A e \in Emails :
    /\ IsFiniteSet(RowsOf(e))
    /\ Cardinality(RowsOf(e)) + Cardinality(Inserters(e)) <= Most

IInv ==
  /\ TypeOK
  /\ Crowd
  /\ TokensPaid
  /\ WorkBacked
  /\ MailOwned
  /\ PassesPay
  /\ LossesCover
  /\ TokensProve
  /\ RowsInserted
  /\ VerifiedBacked
-----------------------------------------------------------------------------
(* Jobs, and what a step does to the requests that are at one.             *)

(* What a job carries is what its kind of job is about.                    *)
LEMMA JobParts ==
  ASSUME NEW j \in Jobs
  PROVE  /\ j # None
         /\ j.at \in {"spend", "create", "mail", "record", "delete", "insert"}
         /\ j.at \in {"spend", "create"} => j.pass \in Passes /\ j.email \in Emails
         /\ j.at \in {"mail", "record", "delete"} => j.token \in Tokens
         /\ j.at = "insert" => j.email \in Emails
         /\ j.at = "spend" => /\ [j EXCEPT !.at = "create"] \in Jobs
                              /\ [j EXCEPT !.at = "create"].at = "create"
                              /\ [j EXCEPT !.at = "create"].pass = j.pass
         /\ j.at = "record" => /\ [j EXCEPT !.at = "delete"] \in Jobs
                               /\ [j EXCEPT !.at = "delete"].at = "delete"
                               /\ [j EXCEPT !.at = "delete"].token = j.token
<1>1. j # None
  BY VerificationAssumption
<1>2. CASE j \in [at : {"spend", "create"}, pass : Passes, email : Emails]
  BY <1>1, <1>2 DEF Jobs
<1>3. CASE j \in [at : {"mail", "record", "delete"}, token : Tokens]
  BY <1>1, <1>3 DEF Jobs
<1>4. CASE j \in [at : {"insert"}, email : Emails]
  BY <1>1, <1>4 DEF Jobs
<1> QED
  BY <1>2, <1>3, <1>4 DEF Jobs

LEMMA WorkParts ==
  ASSUME TypeOK, NEW r \in Requests, ~Idle(r)
  PROVE  work[r] \in Jobs
BY DEF TypeOK, Idle

(* A step of a request is no one else's.                                   *)
LEMMA OneWorks ==
  ASSUME TypeOK, NEW r \in Requests, NEW step \in Jobs \union {None}, Does(r, step)
  PROVE  /\ work' \in [Requests -> Jobs \union {None}]
         /\ work'[r] = step
         /\ \A q \in Requests \ {r} : work'[q] = work[q]
BY DEF TypeOK, Does

LEMMA BusiesFinite ==
  /\ IsFiniteSet(Requests)
  /\ Cardinality(Requests) \in Nat
  /\ \A S \in SUBSET Requests :
       IsFiniteSet(S) /\ Cardinality(S) \in Nat /\ Cardinality(S) <= Cardinality(Requests)
BY VerificationAssumption, FS_Subset, FS_CardinalityType

LEMMA MostIsNat ==
  ASSUME Crowd
  PROVE  Most \in Nat
BY BusiesFinite DEF Most, Crowd

(* A subset of the requests in progress is no larger than the crowd.       *)
LEMMA InCrowd ==
  ASSUME Crowd, NEW S \in SUBSET Busies
  PROVE  IsFiniteSet(S) /\ Cardinality(S) \in Nat /\ Cardinality(S) <= Most
<1>1. Busies \in SUBSET Requests
  BY DEF Busies
<1>2. IsFiniteSet(Busies) /\ Cardinality(Busies) \in Nat
  BY <1>1, BusiesFinite
<1>3. IsFiniteSet(S) /\ Cardinality(S) <= Cardinality(Busies) /\ Cardinality(S) \in Nat
  BY <1>2, FS_Subset, FS_CardinalityType
<1> QED
  BY <1>2, <1>3, MostIsNat DEF Crowd

LEMMA Smaller ==
  ASSUME NEW S \in SUBSET Requests, NEW T \in SUBSET S
  PROVE  /\ Cardinality(T) \in Nat /\ Cardinality(S) \in Nat
         /\ Cardinality(T) <= Cardinality(S)
<1>1. IsFiniteSet(S) /\ Cardinality(S) \in Nat
  BY BusiesFinite
<1> QED
  BY <1>1, FS_Subset, FS_CardinalityType

LEMMA OneFewer ==
  ASSUME NEW S \in SUBSET Requests, NEW r \in S, NEW T \in SUBSET (S \ {r})
  PROVE  /\ Cardinality(T) \in Nat /\ Cardinality(S) \in Nat
         /\ Cardinality(T) + 1 <= Cardinality(S)
<1>1. IsFiniteSet(S) /\ Cardinality(S) \in Nat
  BY BusiesFinite
<1>2. IsFiniteSet(S \ {r}) /\ Cardinality(S \ {r}) = Cardinality(S) - 1
  BY <1>1, FS_RemoveElement
<1>3. Cardinality(T) <= Cardinality(S \ {r}) /\ Cardinality(T) \in Nat
  BY <1>2, FS_Subset, FS_CardinalityType
<1> QED
  BY <1>1, <1>2, <1>3

(* Whoever joins does so as the behaviour allows, and whoever goes on was in
   the crowd already.                                                      *)
LEMMA CrowdKept ==
  ASSUME TypeOK, Crowd, NEW r \in Requests, NEW step \in Jobs \union {None},
         Does(r, step), oneByOne' = oneByOne, ~Idle(r) \/ Arrives(r)
  PROVE  Crowd' /\ Most' = Most
<1>1. Most' = Most
  BY DEF Most
<1>2. Busies' \in SUBSET Requests
  BY DEF Busies
<1>3. CASE ~Idle(r)
  <2>1. Busies' \in SUBSET Busies
    BY <1>3, OneWorks DEF Busies, Idle
  <2> QED
    BY <1>1, <2>1, InCrowd DEF Crowd
<1>4. CASE oneByOne /\ Quiet
  <2>1. Busies' \in SUBSET {r}
    BY <1>4, OneWorks DEF Busies, Idle, Quiet
  <2>2. IsFiniteSet({r}) /\ Cardinality({r}) = 1
    BY FS_Singleton
  <2>3. Cardinality(Busies') <= 1
    BY <2>1, <2>2, FS_Subset
  <2> QED
    BY <1>1, <1>4, <2>3 DEF Most, Crowd
<1>5. CASE ~oneByOne
  BY <1>1, <1>2, <1>5, BusiesFinite DEF Most, Crowd
<1> QED
  BY <1>3, <1>4, <1>5 DEF Arrives

LEMMA CrowdStays ==
  ASSUME Crowd, UNCHANGED <<work, oneByOne>>
  PROVE  Crowd' /\ Most' = Most
BY DEF Crowd, Most, Busies, Idle

LEMMA InCrowdNext ==
  ASSUME Crowd', Most' \in Nat, NEW S \in SUBSET Requests, S \subseteq Busies'
  PROVE  IsFiniteSet(S) /\ Cardinality(S) \in Nat /\ Cardinality(S) <= Most'
<1>1. Busies' \in SUBSET Requests
  BY DEF Busies
<1>2. Cardinality(Busies') \in Nat /\ Cardinality(Busies') <= Most'
  BY <1>1, BusiesFinite DEF Crowd
<1> QED
  BY <1>1, <1>2, BusiesFinite, Smaller

-----------------------------------------------------------------------------
(* What keeps each conjunct of IInv.                                       *)

LEMMA PassesPayKept ==
  ASSUME PassesPay, Crowd, Most' = Most,
         \A p \in Passes : Made(p)' = Made(p) /\ Holders(p)' \subseteq Holders(p)
  PROVE  PassesPay'
<1> SUFFICES ASSUME NEW p \in Passes
             PROVE  /\ IsFiniteSet(Made(p)')
                    /\ Cardinality(Made(p)') + Cardinality(Holders(p)') <= Most'
  BY DEF PassesPay
<1>1. /\ IsFiniteSet(Made(p)) /\ Cardinality(Made(p)) \in Nat
      /\ Cardinality(Made(p)) + Cardinality(Holders(p)) <= Most
  BY FS_CardinalityType DEF PassesPay
<1>2. Holders(p) \in SUBSET Requests
  BY DEF Holders
<1> QED
  BY <1>1, <1>2, Smaller, MostIsNat

LEMMA TokensProveKept ==
  ASSUME TypeOK, TokensProve, Crowd, Most' = Most, UNCHANGED successes,
         \A t \in Tokens : token[t].state = "consumed" => token'[t].state = "consumed",
         \A t \in Tokens : Provers(t)' \subseteq Provers(t)
  PROVE  TokensProve'
<1> SUFFICES ASSUME NEW t \in Tokens
             PROVE  /\ successes[t] > 0 => token'[t].state = "consumed"
                    /\ successes[t] + Cardinality(Provers(t)') <= Most
  BY DEF TokensProve
<1>1. successes[t] \in Nat /\ successes[t] + Cardinality(Provers(t)) <= Most
  BY DEF TypeOK, TokensProve
<1>2. Provers(t) \in SUBSET Requests
  BY DEF Provers
<1> QED
  BY <1>1, <1>2, Smaller, MostIsNat DEF TokensProve

LEMMA RowsInsertedKept ==
  ASSUME RowsInserted, Crowd, Most' = Most, UNCHANGED rows,
         \A e \in Emails : Inserters(e)' \subseteq Inserters(e)
  PROVE  RowsInserted'
<1> SUFFICES ASSUME NEW e \in Emails
             PROVE  /\ IsFiniteSet(RowsOf(e))
                    /\ Cardinality(RowsOf(e)) + Cardinality(Inserters(e)') <= Most
  BY DEF RowsInserted, RowsOf
<1>1. /\ IsFiniteSet(RowsOf(e)) /\ Cardinality(RowsOf(e)) \in Nat
      /\ Cardinality(RowsOf(e)) + Cardinality(Inserters(e)) <= Most
  BY FS_CardinalityType DEF RowsInserted
<1>2. Inserters(e) \in SUBSET Requests
  BY DEF Inserters
<1> QED
  BY <1>1, <1>2, Smaller, MostIsNat

(* What was lost is no more than it was, or one pass and one loss more.    *)
LEMMA LossesKept ==
  ASSUME TypeOK, LossesCover, NEW p,
         \/ losses' = losses /\ Lost' \subseteq Lost
         \/ losses' = losses + 1 /\ Lost' \subseteq Lost \union {p}
  PROVE  LossesCover'
<1>1. IsFiniteSet(Lost) /\ Cardinality(Lost) \in Nat /\ losses \in Nat
  BY VerificationAssumption, FS_CardinalityType DEF LossesCover, TypeOK
<1>2. IsFiniteSet(Lost \union {p}) /\ Cardinality(Lost \union {p}) \in Nat
      /\ Cardinality(Lost \union {p}) <= Cardinality(Lost) + 1
  BY <1>1, FS_AddElement
<1>3. CASE losses' = losses /\ Lost' \subseteq Lost
  <2>1. IsFiniteSet(Lost') /\ Cardinality(Lost') <= Cardinality(Lost) /\ Cardinality(Lost') \in Nat
    BY <1>1, <1>3, FS_Subset, FS_CardinalityType
  <2> QED
    BY <1>1, <1>3, <2>1 DEF LossesCover
<1>4. CASE losses' = losses + 1 /\ Lost' \subseteq Lost \union {p}
  <2>1. /\ IsFiniteSet(Lost') /\ Cardinality(Lost') \in Nat
        /\ Cardinality(Lost') <= Cardinality(Lost \union {p})
    BY <1>2, <1>4, FS_Subset, FS_CardinalityType
  <2> QED
    BY <1>1, <1>2, <1>4, <2>1 DEF LossesCover
<1> QED
  BY <1>3, <1>4

(* Passes and tokens only move on, and the rows are as they were.          *)
LEMMA VerifiedBackedKept ==
  ASSUME TypeOK, TokensPaid, VerifiedBacked, UNCHANGED rows,
         \A p \in Passes : pass[p] = "spent" => pass'[p] = "spent",
         \A t \in Tokens : token[t].state \in Sent =>
           /\ token'[t].state \in Sent
           /\ token'[t].email = token[t].email
           /\ token'[t].pass = token[t].pass
  PROVE  VerifiedBacked'
<1> SUFFICES ASSUME NEW row \in rows, row.verified
             PROVE  \E t \in Tokens :
                      /\ token'[t].email = row.email
                      /\ token'[t].state \in Sent
                      /\ pass'[token'[t].pass] = "spent"
  BY DEF VerifiedBacked, Sent
<1>1. PICK t \in Tokens : /\ token[t].email = row.email
                          /\ token[t].state \in Sent
                          /\ pass[token[t].pass] = "spent"
  BY DEF VerifiedBacked, Sent
<1>2. token[t].pass \in Passes
  BY <1>1 DEF TokensPaid, Sent
<1> QED
  BY <1>1, <1>2

(* Nothing but the requests has changed, which hold no more than before.   *)
LEMMA OnlyWork ==
  ASSUME IInv, NEW r \in Requests, NEW step \in Jobs \union {None}, Does(r, step),
         UNCHANGED <<pass, token, rows, successes, oneByOne>>,
         losses' \in 0..MaxLosses, ~Idle(r) \/ Arrives(r)
  PROVE  TypeOK' /\ Crowd' /\ Most' = Most /\ TokensPaid' /\ VerifiedBacked'
<1>1. TypeOK'
  BY OneWorks DEF IInv, TypeOK
<1>2. Crowd' /\ Most' = Most
  BY CrowdKept DEF IInv
<1>3. TokensPaid'
  BY DEF IInv, TokensPaid
<1>4. VerifiedBacked'
  BY VerifiedBackedKept DEF IInv
<1> QED
  BY <1>1, <1>2, <1>3, <1>4

-----------------------------------------------------------------------------
(* Each action keeps IInv.                                                 *)

LEMMA InitIInv == Init => IInv
<1> SUFFICES ASSUME Init PROVE IInv
  OBVIOUS
<1>1. \A r \in Requests : Idle(r)
  BY DEF Init, Idle
<1>2. TypeOK
  BY VerificationAssumption DEF Init, TypeOK, NoToken
<1>3. Busies = {} /\ \A S : S = {} => IsFiniteSet(S) /\ Cardinality(S) = 0
  BY <1>1, FS_EmptySet DEF Busies
<1>4. oneByOne \in BOOLEAN /\ Most \in Nat
  BY VerificationAssumption, BusiesFinite DEF Init, Most
<1>5. Crowd
  BY <1>3, <1>4 DEF Crowd
<1>6. TokensPaid /\ WorkBacked /\ MailOwned /\ VerifiedBacked
  BY <1>1 DEF Init, NoToken, TokensPaid, WorkBacked, MailOwned, VerifiedBacked, At
<1>7. PassesPay
  <2> SUFFICES ASSUME NEW p \in Passes PROVE Made(p) = {} /\ Holders(p) = {}
    BY <1>3, <1>4 DEF PassesPay
  <2> QED
    BY <1>1, VerificationAssumption DEF Init, NoToken, Made, Holders, At
<1>8. LossesCover
  <2>1. Lost = {}
    BY DEF Init, Lost, Unpaid
  <2> QED
    BY <1>3, <2>1 DEF Init, LossesCover
<1>9. TokensProve
  <2> SUFFICES ASSUME NEW t \in Tokens PROVE successes[t] = 0 /\ Provers(t) = {}
    BY <1>3, <1>4 DEF TokensProve
  <2> QED
    BY <1>1 DEF Init, Provers, At
<1>10. RowsInserted
  <2> SUFFICES ASSUME NEW e \in Emails PROVE RowsOf(e) = {} /\ Inserters(e) = {}
    BY <1>3, <1>4 DEF RowsInserted
  <2> QED
    BY <1>1 DEF Init, RowsOf, Inserters, At
<1> QED
  BY <1>2, <1>5, <1>6, <1>7, <1>8, <1>9, <1>10 DEF IInv

LEMMA HumanVerifyIInv ==
  ASSUME IInv, NEW p \in Passes, HumanVerify(p)
  PROVE  IInv'
<1> USE DEF HumanVerify
<1>1. Crowd' /\ Most' = Most
  BY CrowdStays DEF IInv
<1>2. TypeOK'
  BY DEF IInv, TypeOK
<1>3. \A q \in Passes : pass[q] = "spent" <=> pass'[q] = "spent"
  BY DEF IInv, TypeOK
<1>4. TokensPaid'
  BY <1>3 DEF IInv, TokensPaid
<1>5. WorkBacked' /\ MailOwned'
  BY <1>3, WorkParts, JobParts DEF IInv, WorkBacked, MailOwned, At, Idle
<1>6. PassesPay'
  BY <1>1, PassesPayKept DEF IInv, Made, Holders, At, Idle
<1>7. LossesCover'
  BY <1>3, LossesKept DEF IInv, Lost, Unpaid, InHand, Made, At, Idle
<1>8. TokensProve'
  BY <1>1, TokensProveKept DEF IInv, Provers, At, Idle
<1>9. RowsInserted'
  BY <1>1, RowsInsertedKept DEF IInv, Inserters, At, Idle
<1>10. VerifiedBacked'
  BY <1>3, VerifiedBackedKept DEF IInv
<1> QED
  BY <1>1, <1>2, <1>4, <1>5, <1>6, <1>7, <1>8, <1>9, <1>10 DEF IInv

LEMMA ExpirePassIInv ==
  ASSUME IInv, NEW p \in Passes, ExpirePass(p)
  PROVE  IInv'
<1> USE DEF ExpirePass
<1>1. Crowd' /\ Most' = Most
  BY CrowdStays DEF IInv
<1>2. TypeOK'
  BY DEF IInv, TypeOK
<1>3. \A q \in Passes : pass[q] = "spent" <=> pass'[q] = "spent"
  BY DEF IInv, TypeOK
<1>4. TokensPaid'
  BY <1>3 DEF IInv, TokensPaid
<1>5. WorkBacked' /\ MailOwned'
  BY <1>3, WorkParts, JobParts DEF IInv, WorkBacked, MailOwned, At, Idle
<1>6. PassesPay'
  BY <1>1, PassesPayKept DEF IInv, Made, Holders, At, Idle
<1>7. LossesCover'
  BY <1>3, LossesKept DEF IInv, Lost, Unpaid, InHand, Made, At, Idle
<1>8. TokensProve'
  BY <1>1, TokensProveKept DEF IInv, Provers, At, Idle
<1>9. RowsInserted'
  BY <1>1, RowsInsertedKept DEF IInv, Inserters, At, Idle
<1>10. VerifiedBacked'
  BY <1>3, VerifiedBackedKept DEF IInv
<1> QED
  BY <1>1, <1>2, <1>4, <1>5, <1>6, <1>7, <1>8, <1>9, <1>10 DEF IInv

LEMMA GetPassIInv ==
  ASSUME IInv, NEW r \in Requests, GetPass(r)
  PROVE  IInv'
<1>1. PICK p \in Passes, e \in Emails :
        pass[p] = "verified" /\ Does(r, [at |-> "spend", pass |-> p, email |-> e])
  BY DEF GetPass
<1> DEFINE job == [at |-> "spend", pass |-> p, email |-> e]
<1>2. job \in Jobs /\ job # None
  BY JobParts DEF Jobs
<1>3. Idle(r) /\ Arrives(r) /\ UNCHANGED <<pass, token, rows, successes, losses, oneByOne>>
  BY DEF GetPass, Arrives
<1>4. work'[r] = job /\ ~Idle(r)' /\ \A q \in Requests \ {r} : work'[q] = work[q] /\ (Idle(q)' <=> Idle(q))
  BY <1>1, <1>2, OneWorks DEF IInv, Idle
<1>5. TypeOK' /\ Crowd' /\ Most' = Most /\ TokensPaid' /\ VerifiedBacked'
  BY <1>1, <1>2, <1>3, OnlyWork DEF IInv, TypeOK
<1>6. WorkBacked' /\ MailOwned'
  BY <1>3, <1>4 DEF IInv, WorkBacked, MailOwned, At
<1>7. PassesPay'
  <2> SUFFICES ASSUME NEW q \in Passes
               PROVE  /\ IsFiniteSet(Made(q)')
                      /\ Cardinality(Made(q)') + Cardinality(Holders(q)') <= Most'
    BY DEF PassesPay
  <2>1. Made(q)' = Made(q)
    BY <1>3 DEF Made
  <2>2. CASE q # p
    <3>1. Holders(q)' \in SUBSET Holders(q)
      BY <1>3, <1>4, <2>2 DEF Holders, At
    <3>2. Holders(q) \in SUBSET Requests
      BY DEF Holders
    <3>3. /\ IsFiniteSet(Made(q)) /\ Cardinality(Made(q)) \in Nat
          /\ Cardinality(Made(q)) + Cardinality(Holders(q)) <= Most
      BY FS_CardinalityType DEF IInv, PassesPay
    <3> QED
      BY <1>5, <2>1, <3>1, <3>2, <3>3, Smaller, MostIsNat DEF IInv
  <2>3. CASE q = p
    <3>1. Made(p) = {}
      BY <1>1, VerificationAssumption DEF IInv, TokensPaid, Made, NoToken
    <3>2. Holders(p)' \in SUBSET Requests /\ Holders(p)' \subseteq Busies'
      BY DEF Holders, Busies, At
    <3>3. Cardinality(Holders(p)') \in Nat /\ Cardinality(Holders(p)') <= Most'
      BY <1>5, <3>2, InCrowdNext, MostIsNat DEF IInv
    <3> QED
      BY <2>1, <2>3, <3>1, <3>3, FS_EmptySet
  <2> QED
    BY <2>2, <2>3
<1>8. LossesCover'
  <2>1. Lost' \subseteq Lost
    BY <1>3, <1>4 DEF Lost, Unpaid, InHand, Made, At
  <2> QED
    BY <1>3, <2>1, LossesKept DEF IInv
<1>9. TokensProve'
  BY <1>3, <1>4, <1>5, TokensProveKept DEF IInv, Provers, At
<1>10. RowsInserted'
  BY <1>3, <1>4, <1>5, RowsInsertedKept DEF IInv, Inserters, At
<1> QED
  BY <1>5, <1>6, <1>7, <1>8, <1>9, <1>10 DEF IInv

LEMMA SpendPassIInv ==
  ASSUME IInv, NEW r \in Requests, SpendPass(r)
  PROVE  IInv'
<1>1. ~Idle(r) /\ work[r].at = "spend" /\ UNCHANGED <<token, rows, successes, losses, oneByOne>>
  BY DEF SpendPass
<1>2. PICK p \in Passes, job \in Jobs :
        /\ work[r].pass = p /\ job.at = "create" /\ job.pass = p /\ job # None
        /\ Does(r, job)
        /\ pass' = [pass EXCEPT ![p] = "spent"]
  BY <1>1, WorkParts, JobParts DEF IInv, SpendPass
<1>3. work'[r] = job /\ ~Idle(r)' /\ \A q \in Requests \ {r} : work'[q] = work[q] /\ (Idle(q)' <=> Idle(q))
  BY <1>1, <1>2, OneWorks DEF IInv, Idle
<1>4. TypeOK'
  BY <1>1, <1>2, OneWorks DEF IInv, TypeOK
<1>5. Crowd' /\ Most' = Most
  BY <1>1, <1>2, CrowdKept DEF IInv
<1>6. pass'[p] = "spent" /\ \A q \in Passes \ {p} : pass'[q] = pass[q]
  BY <1>1, <1>2 DEF IInv, TypeOK
<1>7. TokensPaid'
  BY <1>1, <1>6 DEF IInv, TokensPaid
<1>8. WorkBacked' /\ MailOwned'
  <2>1. \A q \in Requests : At(q, {"create"}) => work[q].pass \in Passes
    BY WorkParts, JobParts DEF IInv, At
  <2> QED
    BY <1>1, <1>2, <1>3, <1>6, <2>1 DEF IInv, WorkBacked, MailOwned, At
<1>9. PassesPay'
  <2>1. \A q \in Passes : Made(q)' = Made(q) /\ Holders(q)' \subseteq Holders(q)
    BY <1>1, <1>2, <1>3 DEF Made, Holders, At
  <2> QED
    BY <1>5, <2>1, PassesPayKept DEF IInv
<1>10. LossesCover'
  <2>1. InHand(p)'
    BY <1>2, <1>3 DEF InHand, At
  <2>2. \A q \in Passes \ {p} : (Unpaid(q)' => Unpaid(q)) /\ (InHand(q) => InHand(q)')
    BY <1>1, <1>3, <1>6 DEF Unpaid, InHand, Made, At
  <2>3. Lost' \subseteq Lost
    BY <2>1, <2>2 DEF Lost
  <2> QED
    BY <1>1, <2>3, LossesKept DEF IInv
<1>11. TokensProve'
  BY <1>1, <1>2, <1>3, <1>5, TokensProveKept DEF IInv, Provers, At
<1>12. RowsInserted'
  BY <1>1, <1>2, <1>3, <1>5, RowsInsertedKept DEF IInv, Inserters, At
<1>13. VerifiedBacked'
  BY <1>1, <1>6, VerifiedBackedKept DEF IInv
<1> QED
  BY <1>4, <1>5, <1>7, <1>8, <1>9, <1>10, <1>11, <1>12, <1>13 DEF IInv

LEMMA CreateTokenIInv ==
  ASSUME IInv, NEW r \in Requests, CreateToken(r)
  PROVE  IInv'
<1>1. ~Idle(r) /\ work[r].at = "create" /\ UNCHANGED <<pass, rows, successes, losses, oneByOne>>
  BY DEF CreateToken
<1>2. work[r].pass \in Passes /\ work[r].email \in Emails
  BY <1>1, WorkParts, JobParts DEF IInv
<1>3. PICK p \in Passes, e \in Emails, t \in Tokens :
        /\ work[r].pass = p
        /\ work[r].email = e
        /\ token[t].state = "none"
        /\ token' = [token EXCEPT ![t] = [email |-> e, pass |-> p, state |-> "live"]]
        /\ Does(r, [at |-> "mail", token |-> t])
  BY <1>2 DEF CreateToken
<1> DEFINE job == [at |-> "mail", token |-> t]
<1>4. pass[p] = "spent"
  BY <1>3, <1>1 DEF IInv, WorkBacked, At
<1>5. job \in Jobs /\ job # None
  BY JobParts DEF Jobs
<1>6. work'[r] = job /\ ~Idle(r)' /\ \A q \in Requests \ {r} : work'[q] = work[q] /\ (Idle(q)' <=> Idle(q))
  BY <1>3, <1>5, OneWorks DEF IInv, Idle
<1>7. /\ token'[t] = [email |-> e, pass |-> p, state |-> "live"]
      /\ \A u \in Tokens \ {t} : token'[u] = token[u]
      /\ token[t] = NoToken
  BY <1>3 DEF IInv, TypeOK, TokensPaid
<1>8. TypeOK'
  BY <1>3, <1>1, <1>4, <1>5, OneWorks DEF IInv, TypeOK
<1>9. Crowd' /\ Most' = Most
  BY <1>3, <1>1, <1>5, CrowdKept DEF IInv
<1>10. TokensPaid'
  BY <1>1, <1>4, <1>7 DEF IInv, TokensPaid
<1>11. WorkBacked' /\ MailOwned'
  <2>1. \A q \in Requests \ {r} :
          At(q, {"mail", "record", "delete"}) => work[q].token \in Tokens /\ work[q].token # t
    BY <1>3, WorkParts, JobParts DEF IInv, WorkBacked, At, Sent
  <2> QED
    BY <1>1, <1>6, <1>7, <2>1 DEF IInv, WorkBacked, MailOwned, At
<1>12. PassesPay'
  <2> SUFFICES ASSUME NEW q \in Passes
               PROVE  /\ IsFiniteSet(Made(q)')
                      /\ Cardinality(Made(q)') + Cardinality(Holders(q)') <= Most'
    BY DEF PassesPay
  <2>1. /\ IsFiniteSet(Made(q)) /\ Cardinality(Made(q)) \in Nat
        /\ Cardinality(Made(q)) + Cardinality(Holders(q)) <= Most
        /\ Holders(q) \in SUBSET Requests
    BY FS_CardinalityType DEF IInv, PassesPay, Holders
  <2>2. CASE q # p
    <3>1. Made(q)' = Made(q)
      BY <1>7, <2>2, <1>4, VerificationAssumption DEF Made, NoToken
    <3>2. Holders(q)' \in SUBSET Holders(q)
      BY <1>1, <1>6 DEF Holders, At
    <3> QED
      BY <1>9, <2>1, <3>1, <3>2, Smaller, MostIsNat DEF IInv
  <2>3. CASE q = p
    <3>1. Made(p)' = Made(p) \union {t} /\ t \notin Made(p)
      BY <1>7, <1>4, VerificationAssumption DEF Made, NoToken
    <3>2. /\ IsFiniteSet(Made(p)') /\ Cardinality(Made(p)') = Cardinality(Made(p)) + 1
      BY <2>1, <2>3, <3>1, FS_AddElement
    <3>3. r \in Holders(p) /\ Holders(p)' \in SUBSET (Holders(p) \ {r})
      BY <1>3, <1>1, <1>6 DEF Holders, At
    <3>4. Cardinality(Holders(p)') \in Nat /\ Cardinality(Holders(p)) \in Nat
          /\ Cardinality(Holders(p)') + 1 <= Cardinality(Holders(p))
      BY <2>1, <2>3, <3>3, OneFewer
    <3> QED
      BY <1>9, <2>1, <2>3, <3>2, <3>4, MostIsNat DEF IInv
  <2> QED
    BY <2>2, <2>3
<1>13. LossesCover'
  <2>1. InHand(p)'
    BY <1>6, <1>7 DEF InHand, At
  <2>2. \A q \in Passes \ {p} : (Unpaid(q)' => Unpaid(q)) /\ (InHand(q) => InHand(q)')
    <3> SUFFICES ASSUME NEW q \in Passes \ {p}
                 PROVE  (Unpaid(q)' => Unpaid(q)) /\ (InHand(q) => InHand(q)')
      OBVIOUS
    <3>1. Made(q)' = Made(q) /\ t \notin Made(q)
      BY <1>7, <1>4, VerificationAssumption DEF Made, NoToken
    <3>2. Unpaid(q)' => Unpaid(q)
      BY <1>1, <1>7, <3>1 DEF Unpaid, Made
    <3>3. ASSUME NEW s \in Requests, At(s, {"mail"}), token[work[s].token].pass = q
          PROVE  s # r /\ token'[work[s].token].pass = q
      <4>1. s # r /\ work[s].token \in Tokens
        BY <1>1, <3>3, WorkParts, JobParts DEF IInv, At
      <4>2. work[s].token # t
        BY <1>7, <3>3, VerificationAssumption DEF NoToken
      <4> QED
        BY <1>7, <3>3, <4>1, <4>2
    <3> QED
      BY <1>3, <1>1, <1>6, <3>2, <3>3 DEF InHand, At
  <2>3. Lost' \subseteq Lost
    BY <2>1, <2>2 DEF Lost
  <2> QED
    BY <1>1, <2>3, LossesKept DEF IInv
<1>14. TokensProve'
  BY <1>3, <1>1, <1>6, <1>7, <1>9, TokensProveKept DEF IInv, Provers, At
<1>15. RowsInserted'
  BY <1>1, <1>6, <1>9, RowsInsertedKept DEF IInv, Inserters, At
<1>16. VerifiedBacked'
  BY <1>3, <1>1, <1>7, VerifiedBackedKept DEF IInv, Sent
<1> QED
  BY <1>8, <1>9, <1>10, <1>11, <1>12, <1>13, <1>14, <1>15, <1>16 DEF IInv

LEMMA MailIInv ==
  ASSUME IInv, NEW r \in Requests, Mail(r)
  PROVE  IInv'
<1>1. ~Idle(r) /\ work[r].at = "mail" /\ UNCHANGED <<pass, rows, successes, losses, oneByOne>>
  BY DEF Mail
<1>2. PICK t \in Tokens :
        /\ work[r].token = t
        /\ token' = [token EXCEPT ![t].state = "mailed"]
        /\ Does(r, None)
  BY <1>1, WorkParts, JobParts DEF IInv, Mail
<1>3. work'[r] = None /\ Idle(r)' /\ \A q \in Requests \ {r} : work'[q] = work[q] /\ (Idle(q)' <=> Idle(q))
  BY <1>2, OneWorks DEF IInv, Idle
<1>4. token[t].state = "live"
  BY <1>1, <1>2 DEF IInv, WorkBacked, At
<1>5. /\ token'[t].state = "mailed"
      /\ \A u \in Tokens : token'[u].pass = token[u].pass /\ token'[u].email = token[u].email
      /\ \A u \in Tokens \ {t} : token'[u] = token[u]
  BY <1>2 DEF IInv, TypeOK
<1>6. TypeOK'
  <2>1. work' \in [Requests -> Jobs \union {None}]
    BY <1>2, OneWorks DEF IInv
  <2>2. token' \in [Tokens ->
           [email : Emails \union {None}, pass : Passes \union {None},
            state : {"none", "live", "mailed", "consumed", "expired"}]]
    <3>1. token' = [token EXCEPT ![t].state = "mailed"]
      BY <1>2
    <3>2. QED
      BY <3>1 DEF IInv, TypeOK
  <2>3. QED
    BY <1>1, <2>1, <2>2 DEF IInv, TypeOK
<1>7. Crowd' /\ Most' = Most
  BY <1>1, <1>2, CrowdKept DEF IInv
<1>8. TokensPaid'
  BY <1>1, <1>4, <1>5 DEF IInv, TokensPaid
<1>9. WorkBacked' /\ MailOwned'
  <2>1. \A q \in Requests \ {r} : At(q, {"mail", "record", "delete"}) => work[q].token \in Tokens
    BY WorkParts, JobParts DEF IInv, At
  <2>2. \A q \in Requests \ {r} : At(q, {"mail"}) => work[q].token # t
    BY <1>1, <1>2 DEF IInv, MailOwned, At
  <2> QED
    BY <1>1, <1>3, <1>5, <2>1, <2>2 DEF IInv, WorkBacked, MailOwned, At, Sent
<1>10. PassesPay'
  BY <1>1, <1>3, <1>5, <1>7, PassesPayKept DEF IInv, Made, Holders, At
<1>11. LossesCover'
  <2>1. \A q \in Passes : Unpaid(q)' => Unpaid(q) /\ token[t].pass # q
    BY <1>1, <1>4, <1>5 DEF Unpaid, Made, Sent
  <2>2. \A q \in Passes : InHand(q) /\ token[t].pass # q => InHand(q)'
    <3> SUFFICES ASSUME NEW q \in Passes, token[t].pass # q, InHand(q) PROVE InHand(q)'
      OBVIOUS
    <3>1. PICK s \in Requests :
            \/ At(s, {"create"}) /\ work[s].pass = q
            \/ At(s, {"mail"}) /\ token[work[s].token].pass = q
      BY DEF InHand
    <3>2. s # r
      BY <1>1, <1>2, <3>1 DEF At
    <3>3. At(s, {"mail"}) => work[s].token \in Tokens
      BY WorkParts, JobParts DEF IInv, At
    <3> QED
      BY <1>3, <1>5, <3>1, <3>2, <3>3 DEF InHand, At
  <2>3. Lost' \subseteq Lost
    BY <2>1, <2>2 DEF Lost
  <2> QED
    BY <1>1, <2>3, LossesKept DEF IInv
<1>12. TokensProve'
  BY <1>1, <1>3, <1>4, <1>5, <1>7, TokensProveKept DEF IInv, Provers, At
<1>13. RowsInserted'
  BY <1>1, <1>3, <1>7, RowsInsertedKept DEF IInv, Inserters, At
<1>14. VerifiedBacked'
  BY <1>1, <1>4, <1>5, VerifiedBackedKept DEF IInv, Sent
<1> QED
  BY <1>6, <1>7, <1>8, <1>9, <1>10, <1>11, <1>12, <1>13, <1>14 DEF IInv

(* A request that ends without a trace loses one mail at the most.         *)
LEMMA LosesIInv ==
  ASSUME IInv, NEW r \in Requests, MailRefused(r) \/ CutOff(r)
  PROVE  IInv'
<1>1. /\ ~Idle(r) /\ Does(r, None) /\ losses < MaxLosses /\ losses' = losses + 1
      /\ UNCHANGED <<pass, token, rows, successes, oneByOne>>
  BY DEF MailRefused, CutOff
<1>2. work'[r] = None /\ Idle(r)' /\ \A q \in Requests \ {r} : work'[q] = work[q] /\ (Idle(q)' <=> Idle(q))
  BY <1>1, OneWorks DEF IInv, Idle
<1>3. losses' \in 0..MaxLosses
  BY <1>1, VerificationAssumption DEF IInv, TypeOK
<1>4. TypeOK' /\ Crowd' /\ Most' = Most /\ TokensPaid' /\ VerifiedBacked'
  BY <1>1, <1>3, OnlyWork
<1>5. WorkBacked' /\ MailOwned'
  BY <1>1, <1>2 DEF IInv, WorkBacked, MailOwned, At
<1>6. PassesPay'
  BY <1>1, <1>2, <1>4, PassesPayKept DEF IInv, Made, Holders, At
<1>7. LossesCover'
  <2>1. PICK p : /\ At(r, {"create"}) => work[r].pass = p
                 /\ At(r, {"mail"}) => token[work[r].token].pass = p
    BY DEF At
  <2>2. \A q \in Passes \ {p} : InHand(q) => InHand(q)'
    BY <1>1, <1>2, <2>1 DEF InHand, At
  <2>3. \A q \in Passes : Unpaid(q)' <=> Unpaid(q)
    BY <1>1 DEF Unpaid, Made
  <2>4. Lost' \subseteq Lost \union {p}
    BY <2>2, <2>3 DEF Lost
  <2> QED
    BY <1>1, <2>4, LossesKept DEF IInv
<1>8. TokensProve'
  BY <1>1, <1>2, <1>4, TokensProveKept DEF IInv, Provers, At
<1>9. RowsInserted'
  BY <1>1, <1>2, <1>4, RowsInsertedKept DEF IInv, Inserters, At
<1> QED
  BY <1>4, <1>5, <1>6, <1>7, <1>8, <1>9 DEF IInv

LEMMA GetTokenIInv ==
  ASSUME IInv, NEW r \in Requests, GetToken(r)
  PROVE  IInv'
<1>1. PICK t \in Tokens :
        token[t].state = "mailed" /\ Does(r, [at |-> "record", token |-> t])
  BY DEF GetToken
<1> DEFINE job == [at |-> "record", token |-> t]
<1>2. job \in Jobs /\ job # None
  BY JobParts DEF Jobs
<1>3. Idle(r) /\ Arrives(r) /\ UNCHANGED <<pass, token, rows, successes, losses, oneByOne>>
  BY DEF GetToken, Arrives
<1>4. work'[r] = job /\ ~Idle(r)' /\ \A q \in Requests \ {r} : work'[q] = work[q] /\ (Idle(q)' <=> Idle(q))
  BY <1>1, <1>2, OneWorks DEF IInv, Idle
<1>5. TypeOK' /\ Crowd' /\ Most' = Most /\ TokensPaid' /\ VerifiedBacked'
  BY <1>1, <1>2, <1>3, OnlyWork DEF IInv, TypeOK
<1>6. WorkBacked' /\ MailOwned'
  BY <1>1, <1>3, <1>4 DEF IInv, WorkBacked, MailOwned, At, Sent
<1>7. PassesPay'
  BY <1>3, <1>4, <1>5, PassesPayKept DEF IInv, Made, Holders, At
<1>8. LossesCover'
  <2>1. Lost' \subseteq Lost
    BY <1>3, <1>4 DEF Lost, Unpaid, InHand, Made, At
  <2> QED
    BY <1>3, <2>1, LossesKept DEF IInv
<1>9. TokensProve'
  <2> SUFFICES ASSUME NEW u \in Tokens
               PROVE  /\ successes[u] > 0 => token[u].state = "consumed"
                      /\ successes[u] + Cardinality(Provers(u)') <= Most
    BY <1>3, <1>5 DEF TokensProve
  <2>1. /\ successes[u] > 0 => token[u].state = "consumed"
        /\ successes[u] \in Nat
        /\ successes[u] + Cardinality(Provers(u)) <= Most
        /\ Provers(u) \in SUBSET Requests
    BY DEF IInv, TokensProve, TypeOK, Provers
  <2>2. CASE u # t
    <3>1. Provers(u)' \in SUBSET Provers(u)
      BY <1>3, <1>4, <2>2 DEF Provers, At
    <3> QED
      BY <2>1, <3>1, Smaller, MostIsNat DEF IInv
  <2>3. CASE u = t
    <3>1. successes[u] = 0
      BY <1>1, <2>1, <2>3
    <3>2. Provers(u)' \in SUBSET Requests /\ Provers(u)' \subseteq Busies'
      BY DEF Provers, Busies, At
    <3>3. Cardinality(Provers(u)') \in Nat /\ Cardinality(Provers(u)') <= Most
      BY <1>5, <3>2, InCrowdNext, MostIsNat DEF IInv
    <3> QED
      BY <2>1, <3>1, <3>3
  <2> QED
    BY <2>2, <2>3
<1>10. RowsInserted'
  BY <1>3, <1>4, <1>5, RowsInsertedKept DEF IInv, Inserters, At
<1> QED
  BY <1>5, <1>6, <1>7, <1>8, <1>9, <1>10 DEF IInv

LEMMA RecordIInv ==
  ASSUME IInv, NEW r \in Requests, Record(r)
  PROVE  IInv'
<1> DEFINE Marked(row, e) == IF row.email = e THEN [row EXCEPT !.verified = TRUE] ELSE row
<1>1. ~Idle(r) /\ work[r].at = "record" /\ UNCHANGED <<pass, token, successes, losses, oneByOne>>
  BY DEF Record
<1>2. PICK t, e : t \in Tokens /\ work[r].token = t /\ token[t].email = e
  BY <1>1, WorkParts, JobParts DEF IInv
<1>3. PICK job \in Jobs :
        /\ job.at = "delete" /\ job.token = t /\ job # None
        /\ Does(r, job)
  <2> DEFINE next == [work[r] EXCEPT !.at = "delete"]
  <2>1. work[r] \in Jobs
    BY <1>1, WorkParts DEF IInv
  <2>2. next \in Jobs /\ next.at = "delete" /\ next.token = work[r].token /\ next # None
    BY <1>1, <2>1, JobParts
  <2>3. Does(r, next)
    BY DEF Record
  <2> HIDE DEF next
  <2> QED
    BY <1>2, <2>2, <2>3
<1>4. rows' = {Marked(row, e) : row \in rows}
  BY <1>2 DEF Record
<1>5. work'[r] = job /\ ~Idle(r)' /\ \A q \in Requests \ {r} : work'[q] = work[q] /\ (Idle(q)' <=> Idle(q))
  BY <1>2, <1>3, <1>4, OneWorks DEF IInv, Idle
<1>6. /\ token[t].state \in Sent /\ token[t].state # "none"
      /\ e \in Emails /\ pass[token[t].pass] = "spent"
  BY <1>1, <1>2, <1>3, <1>4 DEF IInv, WorkBacked, TokensPaid, At, Sent
<1>7. \A row \in rows :
        /\ row \in [id : Ids, email : Emails, verified : BOOLEAN]
        /\ Marked(row, e) \in [id : Ids, email : Emails, verified : BOOLEAN]
        /\ Marked(row, e).email = row.email
        /\ Marked(row, e).verified => row.verified \/ row.email = e
  BY DEF IInv, TypeOK
<1>8. TypeOK'
  BY <1>1, <1>2, <1>3, <1>4, <1>7, OneWorks DEF IInv, TypeOK
<1>9. Crowd' /\ Most' = Most
  BY <1>1, <1>2, <1>3, <1>4, CrowdKept DEF IInv
<1>10. TokensPaid' /\ WorkBacked' /\ MailOwned'
  BY <1>1, <1>2, <1>3, <1>4, <1>5, <1>6 DEF IInv, TokensPaid, WorkBacked, MailOwned, At
<1>11. PassesPay'
  BY <1>1, <1>2, <1>3, <1>4, <1>5, <1>9, PassesPayKept DEF IInv, Made, Holders, At
<1>12. LossesCover'
  <2>1. Lost' \subseteq Lost
    BY <1>1, <1>2, <1>3, <1>4, <1>5 DEF Lost, Unpaid, InHand, Made, At
  <2> QED
    BY <1>1, <2>1, LossesKept DEF IInv
<1>13. TokensProve'
  BY <1>1, <1>2, <1>3, <1>4, <1>5, <1>9, TokensProveKept DEF IInv, Provers, At
<1>14. RowsInserted'
  <2> SUFFICES ASSUME NEW d \in Emails
               PROVE  /\ IsFiniteSet(RowsOf(d)')
                      /\ Cardinality(RowsOf(d)') + Cardinality(Inserters(d)') <= Most
    BY <1>9 DEF RowsInserted
  <2> DEFINE marks == [row \in RowsOf(d) |-> Marked(row, e)]
  <2>1. marks \in Surjection(RowsOf(d), RowsOf(d)')
    <3>1. RowsOf(d)' = {Marked(row, e) : row \in RowsOf(d)}
      BY <1>2, <1>3, <1>4, <1>7 DEF RowsOf
    <3>2. marks \in [RowsOf(d) -> RowsOf(d)']
      BY <3>1
    <3> QED
      BY <3>1, <3>2 DEF Surjection
  <2>2. /\ IsFiniteSet(RowsOf(d)) /\ Cardinality(RowsOf(d)) \in Nat
        /\ Cardinality(RowsOf(d)) + Cardinality(Inserters(d)) <= Most
        /\ Inserters(d) \in SUBSET Requests
    BY FS_CardinalityType DEF IInv, RowsInserted, Inserters
  <2>3. IsFiniteSet(RowsOf(d)') /\ Cardinality(RowsOf(d)') <= Cardinality(RowsOf(d))
        /\ Cardinality(RowsOf(d)') \in Nat
    <3> HIDE DEF marks
    <3> QED
      BY <2>1, <2>2, FS_Surjection, FS_CardinalityType
  <2>4. Inserters(d)' \in SUBSET Inserters(d)
    BY <1>2, <1>3, <1>4, <1>5 DEF Inserters, At
  <2> QED
    BY <2>2, <2>3, <2>4, Smaller, MostIsNat DEF IInv
<1>15. VerifiedBacked'
  <2> SUFFICES ASSUME NEW new \in rows', new.verified
               PROVE  \E u \in Tokens :
                        /\ token[u].email = new.email
                        /\ token[u].state \in Sent
                        /\ pass[token[u].pass] = "spent"
    BY <1>1 DEF VerifiedBacked, Sent
  <2>1. PICK row \in rows : new = Marked(row, e)
    BY <1>2, <1>3, <1>4
  <2>2. new.email = row.email /\ (row.verified \/ row.email = e)
    BY <1>7, <2>1
  <2>3. CASE row.verified
    BY <2>2, <2>3 DEF IInv, VerifiedBacked, Sent
  <2>4. CASE row.email = e
    BY <1>2, <1>3, <1>4, <1>6, <2>2, <2>4
  <2> QED
    BY <2>2, <2>3, <2>4
<1> QED
  BY <1>8, <1>9, <1>10, <1>11, <1>12, <1>13, <1>14, <1>15 DEF IInv

LEMMA DeleteTokenIInv ==
  ASSUME IInv, NEW r \in Requests, DeleteToken(r)
  PROVE  IInv'
<1>1. ~Idle(r) /\ work[r].at = "delete" /\ UNCHANGED <<pass, rows, losses, oneByOne>>
  BY DEF DeleteToken
<1>2. PICK t \in Tokens :
        /\ work[r].token = t
        /\ token' = [token EXCEPT ![t].state = "consumed"]
        /\ successes' = [successes EXCEPT ![t] = @ + 1]
        /\ Does(r, None)
  BY <1>1, WorkParts, JobParts DEF IInv, DeleteToken
<1>3. work'[r] = None /\ Idle(r)' /\ \A q \in Requests \ {r} : work'[q] = work[q] /\ (Idle(q)' <=> Idle(q))
  BY <1>2, OneWorks DEF IInv, Idle
<1>4. token[t].state \in Sent
  BY <1>1, <1>2 DEF IInv, WorkBacked, At
<1>5. /\ token'[t].state = "consumed"
      /\ \A u \in Tokens : token'[u].pass = token[u].pass /\ token'[u].email = token[u].email
      /\ \A u \in Tokens \ {t} : token'[u] = token[u]
  BY <1>2 DEF IInv, TypeOK
<1>6. TypeOK'
  BY <1>1, <1>2, OneWorks DEF IInv, TypeOK
<1>7. Crowd' /\ Most' = Most
  BY <1>1, <1>2, CrowdKept DEF IInv
<1>8. TokensPaid'
  BY <1>1, <1>4, <1>5 DEF IInv, TokensPaid, Sent
<1>9. WorkBacked' /\ MailOwned'
  <2>1. \A q \in Requests \ {r} : At(q, {"mail", "record", "delete"}) => work[q].token \in Tokens
    BY WorkParts, JobParts DEF IInv, At
  <2>2. \A q \in Requests \ {r} : At(q, {"mail"}) => work[q].token # t
    BY <1>4 DEF IInv, WorkBacked, At, Sent
  <2> QED
    BY <1>1, <1>3, <1>5, <2>1, <2>2 DEF IInv, WorkBacked, MailOwned, At, Sent
<1>10. PassesPay'
  BY <1>1, <1>3, <1>5, <1>7, PassesPayKept DEF IInv, Made, Holders, At
<1>11. LossesCover'
  <2>1. \A q \in Passes : Unpaid(q)' => Unpaid(q)
    BY <1>1, <1>4, <1>5 DEF Unpaid, Made, Sent
  <2>2. \A q \in Passes : InHand(q) => InHand(q)'
    <3>1. \A s \in Requests : At(s, {"mail"}) => work[s].token \in Tokens
      BY WorkParts, JobParts DEF IInv, At
    <3> QED
      BY <1>1, <1>3, <1>5, <3>1 DEF InHand, At
  <2>3. Lost' \subseteq Lost
    BY <2>1, <2>2 DEF Lost
  <2> QED
    BY <1>1, <2>3, LossesKept DEF IInv
<1>12. TokensProve'
  <2> SUFFICES ASSUME NEW u \in Tokens
               PROVE  /\ successes'[u] > 0 => token'[u].state = "consumed"
                      /\ successes'[u] + Cardinality(Provers(u)') <= Most
    BY <1>7 DEF TokensProve
  <2>1. /\ successes[u] > 0 => token[u].state = "consumed"
        /\ successes[u] \in Nat
        /\ successes[u] + Cardinality(Provers(u)) <= Most
        /\ Provers(u) \in SUBSET Requests
        /\ Provers(u)' \in SUBSET (Provers(u) \ {r})
    BY <1>3 DEF IInv, TokensProve, TypeOK, Provers, At
  <2>2. CASE u # t
    <3>1. successes'[u] = successes[u] /\ token'[u] = token[u]
      BY <1>2, <1>5, <2>2 DEF IInv, TypeOK
    <3>2. Provers(u)' \in SUBSET Provers(u)
      BY <2>1
    <3> QED
      BY <2>1, <3>1, <3>2, Smaller, MostIsNat DEF IInv
  <2>3. CASE u = t
    <3>1. successes'[u] = successes[u] + 1
      BY <1>2, <2>3 DEF IInv, TypeOK
    <3>2. r \in Provers(u)
      BY <1>1, <1>2, <2>3 DEF Provers, At
    <3> QED
      BY <1>5, <2>1, <2>3, <3>1, <3>2, OneFewer, MostIsNat DEF IInv
  <2> QED
    BY <2>2, <2>3
<1>13. RowsInserted'
  BY <1>1, <1>3, <1>7, RowsInsertedKept DEF IInv, Inserters, At
<1>14. VerifiedBacked'
  BY <1>1, <1>5, VerifiedBackedKept DEF IInv, Sent
<1> QED
  BY <1>6, <1>7, <1>8, <1>9, <1>10, <1>11, <1>12, <1>13, <1>14 DEF IInv

LEMMA SelectUserIInv ==
  ASSUME IInv, NEW r \in Requests, SelectUser(r)
  PROVE  IInv'
<1>1. PICK e \in Emails :
        ~(\E row \in rows : row.email = e) /\ Does(r, [at |-> "insert", email |-> e])
  BY DEF SelectUser
<1> DEFINE job == [at |-> "insert", email |-> e]
<1>2. job \in Jobs /\ job # None
  BY JobParts DEF Jobs
<1>3. Idle(r) /\ Arrives(r) /\ UNCHANGED <<pass, token, rows, successes, losses, oneByOne>>
  BY DEF SelectUser, Arrives
<1>4. work'[r] = job /\ ~Idle(r)' /\ \A q \in Requests \ {r} : work'[q] = work[q] /\ (Idle(q)' <=> Idle(q))
  BY <1>1, <1>2, OneWorks DEF IInv, Idle
<1>5. TypeOK' /\ Crowd' /\ Most' = Most /\ TokensPaid' /\ VerifiedBacked'
  BY <1>1, <1>2, <1>3, OnlyWork DEF IInv, TypeOK
<1>6. WorkBacked' /\ MailOwned'
  BY <1>1, <1>3, <1>4 DEF IInv, WorkBacked, MailOwned, At
<1>7. PassesPay'
  BY <1>3, <1>4, <1>5, PassesPayKept DEF IInv, Made, Holders, At
<1>8. LossesCover'
  <2>1. Lost' \subseteq Lost
    BY <1>3, <1>4 DEF Lost, Unpaid, InHand, Made, At
  <2> QED
    BY <1>3, <2>1, LossesKept DEF IInv
<1>9. TokensProve'
  BY <1>3, <1>4, <1>5, TokensProveKept DEF IInv, Provers, At
<1>10. RowsInserted'
  <2> SUFFICES ASSUME NEW d \in Emails
               PROVE  /\ IsFiniteSet(RowsOf(d))
                      /\ Cardinality(RowsOf(d)) + Cardinality(Inserters(d)') <= Most
    BY <1>3, <1>5 DEF RowsInserted, RowsOf
  <2>1. /\ IsFiniteSet(RowsOf(d)) /\ Cardinality(RowsOf(d)) \in Nat
        /\ Cardinality(RowsOf(d)) + Cardinality(Inserters(d)) <= Most
        /\ Inserters(d) \in SUBSET Requests
    BY FS_CardinalityType DEF IInv, RowsInserted, Inserters
  <2>2. CASE d # e
    <3>1. Inserters(d)' \in SUBSET Inserters(d)
      BY <1>3, <1>4, <2>2 DEF Inserters, At
    <3> QED
      BY <2>1, <3>1, Smaller, MostIsNat DEF IInv
  <2>3. CASE d = e
    <3>1. RowsOf(d) = {}
      BY <1>1, <2>3 DEF RowsOf
    <3>2. Cardinality(RowsOf(d)) = 0
      BY <3>1, FS_EmptySet
    <3>3. Inserters(d)' \in SUBSET Requests /\ Inserters(d)' \subseteq Busies'
      BY DEF Inserters, Busies, At
    <3>4. Cardinality(Inserters(d)') \in Nat /\ Cardinality(Inserters(d)') <= Most
      BY <1>5, <3>3, InCrowdNext, MostIsNat DEF IInv
    <3> QED
      BY <2>1, <3>2, <3>4
  <2> QED
    BY <2>2, <2>3
<1> QED
  BY <1>5, <1>6, <1>7, <1>8, <1>9, <1>10 DEF IInv

LEMMA InsertUserIInv ==
  ASSUME IInv, NEW r \in Requests, InsertUser(r)
  PROVE  IInv'
<1>1. ~Idle(r) /\ work[r].at = "insert" /\ UNCHANGED <<pass, token, successes, losses, oneByOne>>
  BY DEF InsertUser
<1>2. PICK e \in Emails, i \in Ids, new \in [id : Ids, email : Emails, verified : BOOLEAN] :
        /\ work[r].email = e
        /\ new.id = i /\ new.email = e /\ ~new.verified
        /\ ~\E row \in rows : row.id = i
        /\ rows' = rows \union {new}
        /\ Does(r, None)
  <2>1. work[r].email \in Emails
    BY <1>1, WorkParts, JobParts DEF IInv
  <2>2. PICK i \in Ids :
          /\ ~\E row \in rows : row.id = i
          /\ rows' = rows \union {[id |-> i, email |-> work[r].email, verified |-> FALSE]}
    BY DEF InsertUser
  <2>3. [id |-> i, email |-> work[r].email, verified |-> FALSE]
          \in [id : Ids, email : Emails, verified : BOOLEAN]
    BY <2>1
  <2> QED
    BY <2>1, <2>2, <2>3 DEF InsertUser
<1>3. work'[r] = None /\ Idle(r)' /\ \A q \in Requests \ {r} : work'[q] = work[q] /\ (Idle(q)' <=> Idle(q))
  BY <1>2, OneWorks DEF IInv, Idle
<1>4. TypeOK'
  <2>1. rows' \subseteq [id : Ids, email : Emails, verified : BOOLEAN]
    BY <1>2 DEF IInv, TypeOK
  <2>2. work' \in [Requests -> Jobs \union {None}]
    BY <1>2, OneWorks DEF IInv
  <2> QED
    BY <1>1, <2>1, <2>2 DEF IInv, TypeOK
<1>5. Crowd' /\ Most' = Most
  BY <1>1, <1>2, CrowdKept DEF IInv
<1>6. TokensPaid' /\ WorkBacked' /\ MailOwned'
  BY <1>1, <1>3 DEF IInv, TokensPaid, WorkBacked, MailOwned, At
<1>7. PassesPay'
  BY <1>1, <1>3, <1>5, PassesPayKept DEF IInv, Made, Holders, At
<1>8. LossesCover'
  <2>1. Lost' \subseteq Lost
    BY <1>1, <1>3 DEF Lost, Unpaid, InHand, Made, At
  <2> QED
    BY <1>1, <2>1, LossesKept DEF IInv
<1>9. TokensProve'
  BY <1>1, <1>3, <1>5, TokensProveKept DEF IInv, Provers, At
<1>10. RowsInserted'
  <2> SUFFICES ASSUME NEW d \in Emails
               PROVE  /\ IsFiniteSet(RowsOf(d)')
                      /\ Cardinality(RowsOf(d)') + Cardinality(Inserters(d)') <= Most
    BY <1>5 DEF RowsInserted
  <2>1. /\ IsFiniteSet(RowsOf(d)) /\ Cardinality(RowsOf(d)) \in Nat
        /\ Cardinality(RowsOf(d)) + Cardinality(Inserters(d)) <= Most
        /\ Inserters(d) \in SUBSET Requests
        /\ Inserters(d)' \in SUBSET (Inserters(d) \ {r})
    BY <1>3, FS_CardinalityType DEF IInv, RowsInserted, Inserters, At
  <2>2. CASE d # e
    <3>1. RowsOf(d)' = RowsOf(d) /\ Inserters(d)' \in SUBSET Inserters(d)
      BY <1>2, <2>1, <2>2 DEF RowsOf
    <3> QED
      BY <2>1, <3>1, Smaller, MostIsNat DEF IInv
  <2>3. CASE d = e
    <3>1. RowsOf(d)' = RowsOf(d) \union {new} /\ new \notin RowsOf(d)
      BY <1>2, <2>3 DEF RowsOf
    <3>2. IsFiniteSet(RowsOf(d)') /\ Cardinality(RowsOf(d)') = Cardinality(RowsOf(d)) + 1
      BY <2>1, <3>1, FS_AddElement
    <3>3. r \in Inserters(d)
      BY <1>1, <1>2, <2>3 DEF Inserters, At
    <3>4. /\ Cardinality(Inserters(d)') \in Nat /\ Cardinality(Inserters(d)) \in Nat
          /\ Cardinality(Inserters(d)') + 1 <= Cardinality(Inserters(d))
      BY <2>1, <3>3, OneFewer
    <3> QED
      BY <2>1, <3>2, <3>4, MostIsNat DEF IInv
  <2> QED
    BY <2>2, <2>3
<1>11. VerifiedBacked'
  <2>1. \A row \in rows' : row.verified => row \in rows
    BY <1>2
  <2> QED
    BY <1>1, <2>1 DEF IInv, VerifiedBacked
<1> QED
  BY <1>4, <1>5, <1>6, <1>7, <1>8, <1>9, <1>10, <1>11 DEF IInv

LEMMA ExpireTokenIInv ==
  ASSUME IInv, NEW t \in Tokens, ExpireToken(t)
  PROVE  IInv'
<1>1. /\ token[t].state = "mailed"
      /\ token' = [token EXCEPT ![t].state = "expired"]
      /\ UNCHANGED <<pass, rows, work, successes, losses, oneByOne>>
  BY DEF ExpireToken
<1>2. /\ token'[t].state = "expired"
      /\ \A u \in Tokens : token'[u].pass = token[u].pass /\ token'[u].email = token[u].email
      /\ \A u \in Tokens \ {t} : token'[u] = token[u]
  BY <1>1 DEF IInv, TypeOK
<1>3. \A q \in Requests : At(q, {"mail", "record", "delete"}) => work[q].token \in Tokens
  BY WorkParts, JobParts DEF IInv, At
<1>4. TypeOK'
  BY <1>1 DEF IInv, TypeOK
<1>5. Crowd' /\ Most' = Most
  BY <1>1, CrowdStays DEF IInv
<1>6. TokensPaid'
  BY <1>1, <1>2 DEF IInv, TokensPaid
<1>7. WorkBacked' /\ MailOwned'
  BY <1>1, <1>2, <1>3 DEF IInv, WorkBacked, MailOwned, At, Idle, Sent
<1>8. PassesPay'
  BY <1>1, <1>2, <1>5, PassesPayKept DEF IInv, Made, Holders, At, Idle
<1>9. LossesCover'
  <2>1. \A q \in Passes : (Unpaid(q)' => Unpaid(q)) /\ (InHand(q) => InHand(q)')
    BY <1>1, <1>2, <1>3 DEF Unpaid, InHand, Made, At, Idle, Sent
  <2>2. Lost' \subseteq Lost
    BY <2>1 DEF Lost
  <2> QED
    BY <1>1, <2>2, LossesKept DEF IInv
<1>10. TokensProve'
  BY <1>1, <1>2, <1>5, TokensProveKept DEF IInv, Provers, At, Idle
<1>11. RowsInserted'
  BY <1>1, <1>5, RowsInsertedKept DEF IInv, Inserters, At, Idle
<1>12. VerifiedBacked'
  BY <1>1, <1>2, VerifiedBackedKept DEF IInv, Sent
<1> QED
  BY <1>4, <1>5, <1>6, <1>7, <1>8, <1>9, <1>10, <1>11, <1>12 DEF IInv

-----------------------------------------------------------------------------
LEMMA NextIInv == IInv /\ [Next]_vars => IInv'
<1> SUFFICES ASSUME IInv, [Next]_vars PROVE IInv'
  OBVIOUS
<1>1. CASE UNCHANGED vars
  <2>1. UNCHANGED <<pass, token, rows, work, successes, losses, oneByOne>>
    BY <1>1 DEF vars
  <2>2. Crowd' /\ TypeOK' /\ TokensPaid' /\ VerifiedBacked'
    BY <2>1 DEF IInv, Crowd, TypeOK, TokensPaid, VerifiedBacked, Busies, Idle, Most
  <2>3. WorkBacked' /\ MailOwned'
    BY <2>1 DEF IInv, WorkBacked, MailOwned, At, Idle
  <2>4. PassesPay' /\ LossesCover'
    BY <2>1 DEF IInv, PassesPay, LossesCover, Made, Holders, At, Idle, Most, Lost, Unpaid, InHand
  <2>5. TokensProve' /\ RowsInserted'
    BY <2>1 DEF IInv, TokensProve, RowsInserted, Provers, RowsOf, Inserters, At, Idle, Most
  <2> QED
    BY <2>2, <2>3, <2>4, <2>5 DEF IInv
<1>2. CASE \E p \in Passes : HumanVerify(p) \/ ExpirePass(p)
  BY <1>2, HumanVerifyIInv, ExpirePassIInv
<1>3. CASE \E t \in Tokens : ExpireToken(t)
  BY <1>3, ExpireTokenIInv
<1>4. ASSUME NEW r \in Requests,
             \/ GetPass(r) \/ SpendPass(r) \/ CreateToken(r) \/ Mail(r) \/ MailRefused(r)
             \/ GetToken(r) \/ Record(r) \/ DeleteToken(r)
             \/ SelectUser(r) \/ InsertUser(r) \/ CutOff(r)
      PROVE  IInv'
  BY <1>4, GetPassIInv, SpendPassIInv, CreateTokenIInv, MailIInv, LosesIInv, GetTokenIInv,
     RecordIInv, DeleteTokenIInv, SelectUserIInv, InsertUserIInv
<1> QED
  BY <1>1, <1>2, <1>3, <1>4 DEF Next

LEMMA Inductive == Spec => []IInv
BY InitIInv, NextIInv, PTL DEF Spec

(* What the invariant says of a pass, a token and the rows of an email.    *)

LEMMA PassOfIInv == IInv => PassWorthOne
<1> SUFFICES ASSUME IInv PROVE PassPaysOnce /\ SpentAccounted
  BY DEF PassWorthOne
<1>1. /\ Most \in Nat /\ Most <= Cardinality(Requests)
      /\ oneByOne => Most <= 1
  <2>1. Cardinality(Requests) = 0 <=> Requests = {}
    BY BusiesFinite, FS_EmptySet
  <2> QED
    BY <2>1, BusiesFinite, MostIsNat DEF IInv, Crowd, Most
<1>2. PassPaysOnce
  <2> SUFFICES ASSUME NEW p \in Passes
               PROVE  /\ oneByOne => Cardinality(Made(p)) <= 1
                      /\ Cardinality(Made(p)) <= Cardinality(Requests)
    BY DEF PassPaysOnce
  <2>1. /\ Cardinality(Made(p)) \in Nat /\ Cardinality(Holders(p)) \in Nat
        /\ Cardinality(Made(p)) + Cardinality(Holders(p)) <= Most
    BY BusiesFinite, FS_CardinalityType DEF IInv, PassesPay, Holders
  <2> QED
    BY <1>1, <2>1, BusiesFinite
<1>3. SpentAccounted
  <2> SUFFICES ASSUME Quiet
               PROVE  Cardinality({p \in Passes : Unpaid(p)}) <= losses
    BY DEF SpentAccounted, Unpaid, Sent
  <2>1. {p \in Passes : Unpaid(p)} = Lost
    BY DEF Quiet, Lost, InHand, At
  <2> QED
    BY <2>1 DEF IInv, LossesCover
<1> QED
  BY <1>2, <1>3

LEMMA OnceOfIInv == IInv => OnceEach
<1> SUFFICES ASSUME IInv PROVE OnceEach
  OBVIOUS
<1>1. ASSUME NEW t \in Tokens PROVE successes[t] \in Nat /\ successes[t] <= Most
  <2>1. /\ successes[t] \in Nat /\ Cardinality(Provers(t)) \in Nat
        /\ successes[t] + Cardinality(Provers(t)) <= Most
    BY BusiesFinite DEF IInv, TypeOK, TokensProve, Provers
  <2> QED
    BY <2>1, MostIsNat DEF IInv
<1>2. ASSUME NEW e \in Emails
      PROVE  Cardinality(RowsOf(e)) \in Nat /\ Cardinality(RowsOf(e)) <= Most
  <2>1. /\ Cardinality(RowsOf(e)) \in Nat /\ Cardinality(Inserters(e)) \in Nat
        /\ Cardinality(RowsOf(e)) + Cardinality(Inserters(e)) <= Most
    BY BusiesFinite, FS_CardinalityType DEF IInv, RowsInserted, Inserters
  <2> QED
    BY <2>1, MostIsNat DEF IInv
<1>3. PICK most \in Nat :
        most = (IF oneByOne THEN 1 ELSE Cardinality(Requests)) /\ Most <= most
  <2>1. Cardinality(Requests) = 0 <=> Requests = {}
    BY BusiesFinite, FS_EmptySet
  <2> QED
    BY <2>1, BusiesFinite DEF IInv, Crowd, Most
<1>4. Most \in Nat
  BY MostIsNat DEF IInv
<1> QED
  BY <1>1, <1>2, <1>3, <1>4 DEF OnceEach, RowsOf

(* The KV records, the rows and the work of the requests have their types. *)
THEOREM VerificationTypes == Spec => []TypeOK
BY Inductive, PTL DEF IInv

(* Every verified row was backed by a token mailed for its email and made on
   a spent pass, however the three handlers overlap, fail or are cut off.  *)
THEOREM VerificationBacked == Spec => []VerifiedBacked
BY Inductive, PTL DEF IInv

(* A pass pays for one token while requests come one by one, for no more
   than there are requests otherwise, and every spent pass whose mail never
   left is one of the losses.                                              *)
THEOREM PassIsWorthOne == Spec => []PassWorthOne
BY Inductive, PassOfIInv, PTL

(* One answer for a token and one row for an email while requests come one
   by one, and no more than there are requests otherwise.                  *)
THEOREM VerifiedOnceEach == Spec => []OnceEach
BY Inductive, OnceOfIInv, PTL
=============================================================================
