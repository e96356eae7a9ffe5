------------------------ MODULE AttemptCounterProofs ------------------------
(***************************************************************************)
(* Proofs about AttemptCounter, for every limit and any set of attempts.   *)
(***************************************************************************)
EXTENDS AttemptCounter, FiniteSetTheorems, TLAPS

-----------------------------------------------------------------------------
(* Arithmetic of the tries that are left.                                  *)

(* Starting one higher costs the tries from there to the limit, and one.   *)
LEMMA TwiceStep ==
  ASSUME NEW n \in 0..(Limit - 1)
  PROVE  Twice(n) = Twice(n + 1) + 2 * (Limit - n) + 2
<1> DEFINE m == Limit - n
<1>1. m \in Int /\ Limit - (n + 1) = m - 1
  BY CounterAssumption
<1>2. m * (m + 3) = (m - 1) * ((m - 1) + 3) + 2 * m + 2
  BY <1>1
<1> QED
  BY <1>1, <1>2 DEF Twice

(* Starting from higher leaves fewer tries, by two of Twice at each step.  *)
LEMMA TwiceFalls ==
  ASSUME NEW m \in 0..Limit, NEW n \in 0..Limit, m <= n
  PROVE  Twice(m) >= Twice(n) + 2 * (n - m)
<1> DEFINE a == Limit - n
           d == n - m
<1>1. a \in Nat /\ d \in Nat /\ Limit - m = a + d
  BY CounterAssumption
<1> HIDE DEF a, d
<1>2. a * d >= 0 /\ d * d >= 0
  BY <1>1
<1>3. (a + d) * (a + d + 3) = a * (a + 3) + 2 * (a * d) + d * d + 3 * d
  BY <1>1
<1>4. a * (a + 3) \in Int /\ a * d \in Int /\ d * d \in Int
  BY <1>1
<1>5. (a + d) * (a + d + 3) >= a * (a + 3) + 2 * d
  BY <1>1, <1>2, <1>3, <1>4
<1>6. Twice(m) = (a + d) * (a + d + 3) /\ Twice(n) = a * (a + 3)
  BY <1>1 DEF Twice, a
<1> QED
  BY <1>5, <1>6 DEF d

LEMMA TwiceInt ==
  ASSUME NEW n \in Int
  PROVE  Twice(n) \in Int
BY CounterAssumption DEF Twice

-----------------------------------------------------------------------------
(* Who is in progress.                                                     *)

LEMMA BusiesFinite == IsFiniteSet(Busies) /\ Cardinality(Busies) \in Nat
<1>1. Busies \in SUBSET Requests
  BY DEF Busies
<1> QED
  BY <1>1, CounterAssumption, FS_Subset, FS_CardinalityType

(* The only one in progress.                                               *)
LEMMA Sole ==
  ASSUME NEW r \in Busies, Cardinality(Busies) <= 1
  PROVE  Busies = {r}
<1>1. Busies # {}
  OBVIOUS
<1>2. Cardinality(Busies) = 1
  BY <1>1, BusiesFinite, FS_EmptySet
<1> QED
  BY <1>2, BusiesFinite, FS_Singleton

(* The only two.                                                           *)
LEMMA Pair ==
  ASSUME NEW r \in Busies, NEW q \in Busies, r # q, Cardinality(Busies) <= 2
  PROVE  Busies = {r, q}
<1> DEFINE others == Busies \ {r}
<1>1. IsFiniteSet(others) /\ Cardinality(others) = Cardinality(Busies) - 1
  BY BusiesFinite, FS_RemoveElement
<1>2. q \in others
  OBVIOUS
<1>3. Cardinality(others) = 1
  BY <1>1, <1>2, BusiesFinite, FS_EmptySet
<1>4. \E x : others = {x}
  BY <1>1, <1>3, FS_Singleton
<1>5. others = {q}
  BY <1>2, <1>4
<1> QED
  BY <1>5

LEMMA Releases ==
  ASSUME TypeOK, NEW r \in Requests, Busy(r),
         copy' = [copy EXCEPT ![r] = Nothing]
  PROVE  /\ copy' \in [Requests -> Nothing..(Limit - 1)]
         /\ Busies' = Busies \ {r}
         /\ Cardinality(Busies') <= Cardinality(Busies)
         /\ \A q \in Busies' : copy'[q] = copy[q]
<1>1. copy' \in [Requests -> Nothing..(Limit - 1)]
  BY CounterAssumption DEF TypeOK, Nothing
<1>2. Busies' = Busies \ {r}
  BY DEF Busies, Busy, TypeOK
<1>3. Cardinality(Busies \ {r}) <= Cardinality(Busies)
  BY BusiesFinite, FS_RemoveElement
<1>4. \A q \in Busies' : copy'[q] = copy[q]
  BY <1>2 DEF Busies, TypeOK
<1> QED
  BY <1>1, <1>2, <1>3, <1>4

(* What a copy is while its attempt is in progress.                        *)
LEMMA CopyBelow ==
  ASSUME TypeOK, NEW r \in Busies
  PROVE  r \in Requests /\ copy[r] \in 0..(Limit - 1)
BY CounterAssumption DEF TypeOK, Busies, Busy, Nothing

-----------------------------------------------------------------------------
(* The arithmetic of one put, of a copy c, when k is stored and n tries are
   counted.                                                                *)

(* After the put the tries from c + 1 are left.                            *)
LEMMA AfterPut ==
  ASSUME NEW c \in 0..(Limit - 1), NEW k \in 0..Limit, NEW n \in Nat,
         2 * n + Left(c, k) <= Twice(0)
  PROVE  2 * (n + 1) + Twice(c + 1) <= Twice(0)
<1>1. c + 1 \in 0..Limit /\ c \in 0..Limit /\ Limit \in Nat
  BY CounterAssumption
<1>2. /\ Twice(c) \in Int /\ Twice(c + 1) \in Int
      /\ Twice(k) \in Int /\ Twice(0) \in Int
  BY <1>1, TwiceInt
<1>3. CASE c <= k
  <2>1. Twice(c) = Twice(c + 1) + 2 * (Limit - c) + 2
    BY TwiceStep
  <2> QED
    BY <1>1, <1>2, <1>3, <2>1 DEF Left, Lower
<1>4. CASE c > k
  <2>1. Twice(k) >= Twice(c + 1) + 2 * (c + 1 - k)
    BY <1>1, <1>4, TwiceFalls
  <2> QED
    BY <1>1, <1>2, <1>4, <2>1 DEF Left, Lower
<1> QED
  BY <1>1, <1>3, <1>4

(* Another copy d can put back no more than was allowed, because one of the
   two was of the count as it was.                                         *)
LEMMA OtherAfterPut ==
  ASSUME NEW c \in 0..(Limit - 1), NEW d \in 0..(Limit - 1),
         NEW k \in 0..Limit, NEW n \in Nat,
         2 * n + Left(c, k) <= Twice(0),
         2 * n + Left(d, k) <= Twice(0),
         2 * n + Twice(k) <= Twice(0),
         c = k \/ d = k \/ (k = 0 /\ n = 0)
  PROVE  2 * (n + 1) + Left(d, c + 1) <= Twice(0)
<1>1. d \in 0..Limit /\ Limit \in Nat /\ 0 \in 0..Limit
  BY CounterAssumption
<1>2. /\ Twice(d) \in Int /\ Twice(c + 1) \in Int
      /\ Twice(k) \in Int /\ Twice(0) \in Int
  BY <1>1, TwiceInt
<1>3. CASE d > c
  <2>1. Lower(d, c + 1) = c + 1
    BY <1>1, <1>3 DEF Lower
  <2>2. 2 * (n + 1) + Twice(c + 1) <= Twice(0)
    BY AfterPut
  <2> QED
    BY <1>2, <2>1, <2>2 DEF Left
<1>4. CASE d <= c
  <2>1. Lower(d, c + 1) = d
    BY <1>4 DEF Lower
  <2>2. 2 * n + Twice(d) - 2 * (c - d) <= Twice(0)
    <3>1. CASE c = k
      BY <1>2, <1>4, <3>1 DEF Left, Lower
    <3>2. CASE d = k
      BY <1>2, <1>4, <3>2
    <3>3. CASE k = 0 /\ n = 0
      <4>1. Twice(0) >= Twice(d) + 2 * (d - 0)
        BY <1>1, TwiceFalls
      <4> QED
        BY <1>2, <1>4, <3>3, <4>1
    <3> QED
      BY <3>1, <3>2, <3>3
  <2> QED
    BY <1>2, <2>1, <2>2 DEF Left
<1> QED
  BY <1>3, <1>4

-----------------------------------------------------------------------------
(* The invariant.                                                          *)

LEMMA InitIInv == Init => IInv
<1> SUFFICES ASSUME Init PROVE IInv
  OBVIOUS
<1>1. TypeOK
  BY CounterAssumption DEF Init, TypeOK, Nothing
<1>2. Busies = {}
  BY DEF Init, Busies, Busy
<1>3. Cardinality(Busies) = 0
  BY <1>2, FS_EmptySet
<1>4. LastGot
  BY <1>2 DEF LastGot
<1>5. Twice(0) \in Int
  BY TwiceInt
<1> QED
  BY <1>1, <1>2, <1>3, <1>4, <1>5 DEF IInv, Init

(* A get copies the count: the copy may put it back to one more, no less.  *)
LEMMA GetIInv ==
  ASSUME IInv, NEW r \in Requests, Get(r)
  PROVE  IInv'
<1>1. TypeOK /\ count \in 0..(Limit - 1)
  BY CounterAssumption DEF IInv, TypeOK, Get, Open
<1>2. /\ copy' \in [Requests -> Nothing..(Limit - 1)]
      /\ copy'[r] = count
      /\ \A q \in Requests \ {r} : copy'[q] = copy[q]
  BY <1>1 DEF Get, TypeOK, Nothing
<1>3. Cardinality(Busies)' \in Nat
  <2>1. Busies' \in SUBSET Requests
    BY DEF Busies
  <2>2. IsFiniteSet(Busies')
    BY <2>1, CounterAssumption, FS_Subset
  <2> QED
    BY <2>2, FS_CardinalityType
<1>4. most' \in Nat /\ most <= most' /\ Cardinality(Busies)' <= most'
  BY <1>1, <1>3 DEF Get, TypeOK
<1>5. TypeOK'
  BY <1>1, <1>2, <1>4 DEF TypeOK, Get
<1>6. \A q \in Busies' : q # r => q \in Busies /\ copy'[q] = copy[q]
  BY <1>2 DEF Busies, Busy
<1>7. count' = count /\ tries' = tries
  BY DEF Get
<1>8. ASSUME most' <= 1
      PROVE  /\ tries' <= count'
             /\ \A q \in Busies' : copy'[q] = count' \/ (count' = 0 /\ tries' = 0)
  BY <1>1, <1>2, <1>4, <1>6, <1>7, <1>8 DEF IInv, TypeOK
<1>9. ASSUME most' <= 2
      PROVE  /\ 2 * tries' + Twice(count') <= Twice(0)
             /\ \A q \in Busies' : 2 * tries' + Left(copy'[q], count') <= Twice(0)
             /\ LastGot'
  <2>1. most <= 2
    BY <1>1, <1>4, <1>9 DEF TypeOK
  <2>2. 2 * tries + Twice(count) <= Twice(0)
    BY <2>1 DEF IInv
  <2>3. ASSUME NEW q \in Busies' PROVE 2 * tries' + Left(copy'[q], count') <= Twice(0)
    <3>1. CASE q = r
      <4>1. Left(copy'[q], count') = Twice(count)
        BY <1>1, <1>2, <1>7, <3>1, TwiceInt DEF Left, Lower
      <4> QED
        BY <1>7, <2>2, <4>1
    <3>2. CASE q # r
      <4>1. q \in Busies /\ Left(copy'[q], count') = Left(copy[q], count)
        BY <1>6, <1>7, <3>2
      <4> QED
        BY <1>7, <2>1, <4>1 DEF IInv
    <3> QED
      BY <3>1, <3>2
  <2>4. LastGot'
    BY <1>2, <1>6, <1>7, <2>1 DEF IInv, LastGot
  <2> QED
    BY <1>7, <2>2, <2>3, <2>4
<1> QED
  BY <1>4, <1>5, <1>8, <1>9 DEF IInv, Twice

(* A put: the copy is spent, and the count is one more than it.            *)
LEMMA FailIInv ==
  ASSUME IInv, NEW r \in Requests, Fail(r)
  PROVE  IInv'
<1>1. TypeOK /\ Busy(r) /\ r \in Busies
  BY DEF IInv, Fail, Busies
<1>2. copy[r] \in 0..(Limit - 1)
  BY <1>1, CopyBelow
<1>3. /\ count' = copy[r] + 1
      /\ tries' = tries + 1
      /\ most' = most
      /\ copy' = [copy EXCEPT ![r] = Nothing]
  BY DEF Fail, Advanced
<1>4. /\ copy' \in [Requests -> Nothing..(Limit - 1)]
      /\ Busies' = Busies \ {r}
      /\ Cardinality(Busies') <= Cardinality(Busies)
      /\ \A q \in Busies' : copy'[q] = copy[q]
  BY <1>1, <1>3, Releases
<1>5. TypeOK'
  BY <1>1, <1>2, <1>3, <1>4, CounterAssumption DEF TypeOK
<1>6. Cardinality(Busies)' <= most'
  <2>1. Busies' \in SUBSET Requests
    BY DEF Busies
  <2>2. Cardinality(Busies') \in Nat
    BY <2>1, CounterAssumption, FS_Subset, FS_CardinalityType
  <2> QED
    BY <1>1, <1>3, <1>4, <2>2, BusiesFinite DEF IInv, TypeOK
<1>7. ASSUME most' <= 1
      PROVE  /\ tries' <= count'
             /\ \A q \in Busies' : copy'[q] = count' \/ (count' = 0 /\ tries' = 0)
  <2>1. most <= 1 /\ Cardinality(Busies) <= 1
    BY <1>1, <1>3, <1>7, BusiesFinite DEF IInv, TypeOK
  <2>2. Busies' = {}
    BY <1>1, <1>4, <2>1, Sole
  <2>3. tries <= copy[r]
    BY <1>1, <1>2, <2>1 DEF IInv
  <2> QED
    BY <1>1, <1>2, <1>3, <2>2, <2>3 DEF TypeOK
<1>8. ASSUME most' <= 2
      PROVE  /\ 2 * tries' + Twice(count') <= Twice(0)
             /\ \A q \in Busies' : 2 * tries' + Left(copy'[q], count') <= Twice(0)
             /\ LastGot'
  <2>1. most <= 2 /\ Cardinality(Busies) <= 2
    BY <1>1, <1>3, <1>8, BusiesFinite DEF IInv, TypeOK
  <2>2. /\ 2 * tries + Twice(count) <= Twice(0)
        /\ \A q \in Busies : 2 * tries + Left(copy[q], count) <= Twice(0)
    BY <2>1 DEF IInv
  <2>3. 2 * tries' + Twice(count') <= Twice(0)
    BY <1>1, <1>2, <1>3, <2>2, AfterPut DEF TypeOK
  <2>4. ASSUME NEW q \in Busies' PROVE 2 * tries' + Left(copy'[q], count') <= Twice(0)
    <3>1. q \in Busies /\ q # r /\ copy'[q] = copy[q]
      BY <1>4
    <3>2. copy[q] \in 0..(Limit - 1)
      BY <1>1, <3>1, CopyBelow
    <3>3. copy[r] = count \/ copy[q] = count \/ (count = 0 /\ tries = 0)
      BY <1>1, <2>1, <3>1 DEF IInv, LastGot
    <3>4. 2 * (tries + 1) + Left(copy[q], copy[r] + 1) <= Twice(0)
      BY <1>1, <1>2, <2>2, <3>1, <3>2, <3>3, OtherAfterPut DEF TypeOK
    <3> QED
      BY <1>3, <3>1, <3>4
  <2>5. LastGot'
    <3>1. \A q, p \in Busies' : q = p
      <4> SUFFICES ASSUME NEW q \in Busies', NEW p \in Busies' PROVE q = p
        OBVIOUS
      <4>1. q \in Busies /\ p \in Busies /\ q # r /\ p # r
        BY <1>4
      <4>2. Busies = {r, q}
        BY <1>1, <2>1, <4>1, Pair
      <4> QED
        BY <4>1, <4>2
    <3> QED
      BY <3>1 DEF LastGot
  <2> QED
    BY <2>3, <2>4, <2>5
<1> QED
  BY <1>5, <1>6, <1>7, <1>8 DEF IInv, Twice

(* A match, or an attempt cut off, only leaves a copy unused.              *)
LEMMA MatchIInv ==
  ASSUME IInv, NEW r \in Requests, Match(r)
  PROVE  IInv'
<1>1. TypeOK /\ Busy(r)
  BY DEF IInv, Match
<1>2. /\ count' = count /\ tries' = tries /\ most' = most
      /\ copy' = [copy EXCEPT ![r] = Nothing]
  BY DEF Match
<1>3. /\ copy' \in [Requests -> Nothing..(Limit - 1)]
      /\ Busies' = Busies \ {r}
      /\ Cardinality(Busies') <= Cardinality(Busies)
      /\ \A q \in Busies' : copy'[q] = copy[q]
  BY <1>1, <1>2, Releases
<1>4. TypeOK'
  BY <1>1, <1>2, <1>3 DEF TypeOK
<1>5. Cardinality(Busies)' <= most'
  <2>1. Busies' \in SUBSET Requests
    BY DEF Busies
  <2>2. Cardinality(Busies') \in Nat
    BY <2>1, CounterAssumption, FS_Subset, FS_CardinalityType
  <2> QED
    BY <1>1, <1>2, <1>3, <2>2, BusiesFinite DEF IInv, TypeOK
<1>6. \A q \in Busies' : q \in Busies /\ copy'[q] = copy[q] /\ Left(copy'[q], count') = Left(copy[q], count)
  BY <1>2, <1>3
<1> QED
  BY <1>2, <1>4, <1>5, <1>6 DEF IInv, LastGot, Twice

(* With the record gone, a copy only puts the count back up.               *)
LEMMA LapseIInv ==
  ASSUME IInv, Lapse
  PROVE  IInv'
<1>1. TypeOK
  BY DEF IInv
<1>2. count' = 0 /\ tries' = 0 /\ copy' = copy /\ most' = most /\ Busies' = Busies
  BY DEF Lapse, Busies, Busy
<1>3. TypeOK'
  BY <1>1, <1>2, CounterAssumption DEF TypeOK
<1>4. ASSUME NEW q \in Busies' PROVE Left(copy'[q], count') = Twice(0)
  <2>1. copy[q] \in 0..(Limit - 1)
    BY <1>1, <1>2, CopyBelow
  <2>2. Lower(copy[q], 0) = 0
    BY <2>1, CounterAssumption DEF Lower
  <2> QED
    BY <1>2, <2>2, TwiceInt DEF Left
<1>5. LastGot'
  BY <1>2 DEF LastGot
<1>6. Twice(0) \in Int
  BY TwiceInt
<1>7. 2 * tries' + Twice(0) <= Twice(0)
  BY <1>2, <1>6
<1> QED
  BY <1>2, <1>3, <1>4, <1>5, <1>7 DEF IInv

LEMMA NextIInv == IInv /\ [Next]_vars => IInv'
<1> SUFFICES ASSUME IInv, [Next]_vars PROVE IInv'
  OBVIOUS
<1>1. CASE Lapse
  BY <1>1, LapseIInv
<1>2. ASSUME NEW r \in Requests, Get(r) PROVE IInv'
  BY <1>2, GetIInv
<1>3. ASSUME NEW r \in Requests, Fail(r) PROVE IInv'
  BY <1>3, FailIInv
<1>4. ASSUME NEW r \in Requests, Match(r) PROVE IInv'
  BY <1>4, MatchIInv
<1>5. CASE UNCHANGED vars
  BY <1>5 DEF vars, IInv, TypeOK, Busies, Busy, LastGot, Twice
<1> QED
  BY <1>1, <1>2, <1>3, <1>4, <1>5 DEF Next

-----------------------------------------------------------------------------
(* The record and the copies keep their shape: a count never passes the
   limit, however many attempts overlap.                                   *)
THEOREM TypeCorrect == Spec => []TypeOK
<1>1. Init => IInv
  BY InitIInv
<1>2. IInv /\ [Next]_vars => IInv'
  BY NextIInv
<1>3. IInv => TypeOK
  BY DEF IInv
<1> QED
  BY <1>1, <1>2, <1>3, PTL DEF Spec

(* attachment-verifier-attempt.js and login-limit.js: attempts that come one
   at a time have Limit tries, and attempts of which no more than two ever
   overlap have Limit * (Limit + 3) / 2, whatever the limit.               *)
THEOREM TriesAreBounded == Spec => []TriesBounded
<1>1. Init => IInv
  BY InitIInv
<1>2. IInv /\ [Next]_vars => IInv'
  BY NextIInv
<1>3. IInv => TriesBounded
  <2> SUFFICES ASSUME IInv PROVE TriesBounded
    OBVIOUS
  <2>1. count \in 0..Limit /\ tries \in Nat
    BY DEF IInv, TypeOK
  <2>2. most <= 1 => tries <= Limit
    BY <2>1, CounterAssumption DEF IInv
  <2>3. Twice(Limit) = 0
    BY CounterAssumption DEF Twice
  <2>4. Twice(count) >= 0
    <3>1. Twice(count) >= Twice(Limit) + 2 * (Limit - count)
      BY <2>1, CounterAssumption, TwiceFalls
    <3>2. Twice(count) \in Int
      BY <2>1, TwiceInt
    <3> QED
      BY <2>1, <2>3, <3>1, <3>2, CounterAssumption
  <2>5. most <= 2 => 2 * tries <= Twice(0)
    <3>1. Twice(count) \in Int /\ Twice(0) \in Int
      BY <2>1, TwiceInt
    <3> QED
      BY <2>1, <2>4, <3>1 DEF IInv
  <2> QED
    BY <2>2, <2>5 DEF TriesBounded
<1> QED
  BY <1>1, <1>2, <1>3, PTL DEF Spec

(* attachment-verifier-failure-state.js: "ESCALATED means the ordinary
   four-digit verifier path may no longer continue".  It may not, as long as
   attempts come one at a time.                                            *)
THEOREM ClosedStaysClosed == Spec => StaysClosed
<1>1. Init => IInv
  BY InitIInv
<1>2. IInv /\ [Next]_vars => IInv'
  BY NextIInv
<1>3. IInv /\ [Next]_vars => [most <= 1 /\ count = Limit => count' \in {0, Limit}]_vars
  <2> SUFFICES ASSUME IInv, Next, most <= 1, count = Limit
               PROVE  count' \in {0, Limit}
    BY DEF vars
  <2>1. \A r \in Busies : FALSE
    <3> SUFFICES ASSUME NEW r \in Busies PROVE FALSE
      OBVIOUS
    <3>1. copy[r] \in 0..(Limit - 1)
      BY CopyBelow DEF IInv
    <3>2. copy[r] = count \/ (count = 0 /\ tries = 0)
      BY DEF IInv
    <3> QED
      BY <3>1, <3>2, CounterAssumption
  <2>2. CASE Lapse
    BY <2>2 DEF Lapse
  <2>3. ASSUME NEW r \in Requests, Get(r) PROVE count' = count
    BY <2>3 DEF Get
  <2>4. ASSUME NEW r \in Requests, Fail(r) PROVE FALSE
    BY <2>1, <2>4 DEF Fail, Busies
  <2>5. ASSUME NEW r \in Requests, Match(r) PROVE count' = count
    BY <2>5 DEF Match
  <2> QED
    BY <2>2, <2>3, <2>4, <2>5 DEF Next
<1> QED
  BY <1>1, <1>2, <1>3, PTL DEF Spec, StaysClosed
=============================================================================
