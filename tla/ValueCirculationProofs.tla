----------------------- MODULE ValueCirculationProofs -----------------------
(***************************************************************************)
(* What ValueCirculation keeps true for any requests, identities, pools    *)
(* and scenes: TypeOK, CheckRespected, and, where clients do what Unnamed  *)
(* and Solvent say, MovementsBacked and NeverOverdrawn.                    *)
(*                                                                         *)
(* Every one of them is about the records that are stored; what makes them *)
(* last is what requests carry along.  IInv says of each request that the  *)
(* copies it has read and the puts it will make rest on decisions, limit   *)
(* checks and debits that are stored, or that its own first put will have  *)
(* stored, and that nobody else can overwrite: these are the records that  *)
(* Lasting names.  Surfaces, topups and spends may be overwritten with     *)
(* stale copies at any time, for each copy is right by itself.             *)
(*                                                                         *)
(* Before that, what the folds of the model compute: sums over a finite    *)
(* set and the filter of a sequence.  They are recursive functions over    *)
(* the subsets of a set; the lemmas show that there is such a function and *)
(* what it maps the whole set to, by taking a smallest subset on which     *)
(* they would be wrong.                                                    *)
(*                                                                         *)
(* After that, what the puts of one request leave of a store when no other *)
(* request comes between, on which ValueTurnsProofs rests; and the lists   *)
(* that workers append to beside their records, as ValueTrails has them:   *)
(* they are of the same surfaces, and rest on the same lemmas on lists.    *)
(***************************************************************************)
EXTENDS ValueCirculation, SequencesExt, SequenceTheorems, FiniteSetTheorems, TLAPS

-----------------------------------------------------------------------------
(* Recursion over the subsets of a finite set.                             *)

(* Of finitely many sets one has no other below it.                        *)
LEMMA SmallestSubset ==
  ASSUME NEW S, IsFiniteSet(S), NEW T, T \subseteq SUBSET S, T # {}
  PROVE  \E u \in T : \A w \in SUBSET u : w # u => w \notin T
<1>1. IsWellFoundedOn(StrictSubsetOrdering(S), SUBSET S)
  BY FS_StrictSubsetOrderingWellFounded, FS_FiniteSubsetsOfFinite
<1>2. PICK u \in T : \A y \in T : ~ (<<y, u>> \in StrictSubsetOrdering(S))
  BY <1>1, WFMin
<1>3. \A w \in SUBSET u : w # u => w \notin T
  BY <1>2 DEF StrictSubsetOrdering
<1>4. QED
  BY <1>3

(* The function h follows the recursion below the set U: it takes one      *)
(* element away, which pick names, and makes a step from what is left.     *)
Follows(h, U, V, pick, base, step) ==
  /\ h \in [SUBSET U -> V]
  /\ \A s \in SUBSET U :
       h[s] = IF s = {} THEN base ELSE step[<<pick[s], h[s \ {pick[s]}]>>]

Picks(pick, S) == \A s \in SUBSET S : s # {} => pick[s] \in s

(* Two functions that follow one recursion agree where both do.            *)
LEMMA OneRecursion ==
  ASSUME NEW S, IsFiniteSet(S), NEW V, NEW pick, NEW base, NEW step, Picks(pick, S),
         NEW U \in SUBSET S, NEW h, Follows(h, U, V, pick, base, step),
         NEW W \in SUBSET S, NEW g, Follows(g, W, V, pick, base, step),
         NEW s \in SUBSET (U \intersect W)
  PROVE  h[s] = g[s]
<1>1. DEFINE T == {x \in SUBSET (U \intersect W) : h[x] # g[x]}
<1>2. SUFFICES ASSUME T # {} PROVE FALSE
  OBVIOUS
<1>3. T \subseteq SUBSET S
  OBVIOUS
<1>4. PICK u \in T : \A w \in SUBSET u : w # u => w \notin T
  <2>1. HIDE DEF T
  <2>2. QED
    BY <1>2, <1>3, SmallestSubset
<1>5. /\ u \in SUBSET U /\ u \in SUBSET W /\ u \in SUBSET S
      /\ h[u] # g[u]
  OBVIOUS
<1>6. CASE u = {}
  BY <1>5, <1>6 DEF Follows
<1>7. CASE u # {}
  <2>1. DEFINE w == u \ {pick[u]}
  <2>2. pick[u] \in u
    BY <1>5, <1>7 DEF Picks
  <2>3. w \in SUBSET u /\ w # u /\ w \in SUBSET (U \intersect W)
    BY <1>5, <2>2
  <2>4. h[w] = g[w]
    BY <1>4, <2>3
  <2>5. h[u] = step[<<pick[u], h[w]>>] /\ g[u] = step[<<pick[u], g[w]>>]
    BY <1>5, <1>7 DEF Follows
  <2>6. QED
    BY <1>5, <2>4, <2>5
<1>8. QED
  BY <1>6, <1>7

(* There is one for every finite set.                                      *)
LEMMA Recursion ==
  ASSUME NEW S, IsFiniteSet(S), NEW V, NEW pick, Picks(pick, S), NEW base \in V,
         NEW step \in [S \X V -> V]
  PROVE  \E it : Follows(it, S, V, pick, base, step)
<1>1. DEFINE Ok(h, U) == Follows(h, U, V, pick, base, step)
             T == {U \in SUBSET S : ~ \E h : Ok(h, U)}
<1>2. SUFFICES ASSUME T # {} PROVE FALSE
  OBVIOUS
<1>3. PICK U \in T : \A w \in SUBSET U : w # U => w \notin T
  <2>1. T \subseteq SUBSET S
    OBVIOUS
  <2>2. HIDE DEF T
  <2>3. QED
    BY <1>2, <2>1, SmallestSubset
<1>4. DEFINE H(w) == CHOOSE h : Ok(h, w)
<1>5. \A w \in SUBSET U : w # U => Ok(H(w), w)
  <2>1. TAKE w \in SUBSET U
  <2>2. HAVE w # U
  <2>3. \E h : Ok(h, w)
    BY <1>3, <2>2
  <2>4. QED
    BY <2>3
<1>6. DEFINE less(s) == s \ {pick[s]}
             value(s) == IF s = {} THEN base
                         ELSE step[<<pick[s], H(less(s))[less(s)]>>]
             it == [s \in SUBSET U |-> value(s)]
<1>7. \A s \in SUBSET U : s # {} =>
        /\ pick[s] \in s /\ pick[s] \in S
        /\ less(s) \in SUBSET U /\ less(s) # U /\ less(s) \in SUBSET S
        /\ Ok(H(less(s)), less(s))
  <2>1. TAKE s \in SUBSET U
  <2>2. HAVE s # {}
  <2>3. pick[s] \in s
    BY <2>2 DEF Picks
  <2>4. less(s) \in SUBSET U /\ less(s) # U
    BY <2>3
  <2>5. QED
    BY <2>3, <2>4, <1>5
<1>8. \A s \in SUBSET U : value(s) \in V
  <2>1. TAKE s \in SUBSET U
  <2>2. CASE s = {}
    BY <2>2
  <2>3. CASE s # {}
    <3>1. DEFINE w == less(s)
    <3>2. H(w) \in [SUBSET w -> V] /\ pick[s] \in S
      BY <1>7, <2>3 DEF Follows
    <3>3. H(w)[w] \in V
      BY <3>2
    <3>4. QED
      BY <2>3, <3>2, <3>3
  <2>4. QED
    BY <2>2, <2>3
<1>9. \A s \in SUBSET U : s # {} => it[less(s)] = H(less(s))[less(s)]
  <2>1. TAKE s \in SUBSET U
  <2>2. HAVE s # {}
  <2>3. DEFINE w == less(s)
  <2>4. Ok(H(w), w) /\ w \in SUBSET U /\ w \in SUBSET S
    BY <1>7, <2>2
  <2>5. it[w] = value(w)
    BY <2>4
  <2>6. CASE w = {}
    BY <2>4, <2>5, <2>6 DEF Follows
  <2>7. CASE w # {}
    <3>1. DEFINE v == less(w)
    <3>2. Ok(H(v), v) /\ v \in SUBSET S /\ pick[w] \in w
      BY <1>7, <2>4, <2>7
    <3>3. v \in SUBSET (w \intersect v)
      OBVIOUS
    <3>4. H(w)[v] = H(v)[v]
      BY <2>4, <3>2, <3>3, OneRecursion
    <3>5. H(w)[w] = step[<<pick[w], H(w)[v]>>]
      BY <2>4, <2>7 DEF Follows
    <3>6. value(w) = step[<<pick[w], H(v)[v]>>]
      BY <2>7
    <3>7. QED
      BY <2>5, <3>4, <3>5, <3>6
  <2>8. QED
    BY <2>6, <2>7
<1>10. Ok(it, U)
  <2>1. it \in [SUBSET U -> V]
    BY <1>8
  <2>2. ASSUME NEW s \in SUBSET U
        PROVE  it[s] = IF s = {} THEN base ELSE step[<<pick[s], it[less(s)]>>]
    <3>1. it[s] = value(s)
      OBVIOUS
    <3>2. s # {} => it[less(s)] = H(less(s))[less(s)]
      BY <1>9
    <3>3. HIDE DEF it, less, H
    <3>4. QED
      BY <3>1, <3>2
  <2>3. QED
    BY <2>1, <2>2 DEF Follows
<1>11. QED
  BY <1>3, <1>10

-----------------------------------------------------------------------------
(* Sums.                                                                   *)

SomeOf(s) == CHOOSE x \in s : TRUE

(* The function by which MapThenSumSet computes the sum of f over S.       *)
Sums(it, f, S) ==
  it = [s \in SUBSET S |-> IF s = {} THEN 0 ELSE f[SomeOf(s)] + it[s \ {SomeOf(s)}]]

SumOver(f, S) == MapThenSumSet(LAMBDA x : f[x], S)

(* There is such a function, and it is of integers.                        *)
LEMMA SumsExist ==
  ASSUME NEW S, IsFiniteSet(S), NEW f \in [S -> Int]
  PROVE  \E it : Sums(it, f, S) /\ it \in [SUBSET S -> Int]
<1>1. DEFINE pick == [s \in SUBSET S |-> SomeOf(s)]
             step == [p \in S \X Int |-> f[p[1]] + p[2]]
<1>2. \A s \in SUBSET S : s # {} => SomeOf(s) \in s
  BY DEF SomeOf
<1>3. Picks(pick, S)
  BY <1>2 DEF Picks
<1>4. step \in [S \X Int -> Int]
  OBVIOUS
<1>5. \E it : Follows(it, S, Int, pick, 0, step)
  <2>1. 0 \in Int
    OBVIOUS
  <2>2. HIDE DEF pick, step
  <2>3. QED
    BY <1>3, <1>4, <2>1, Recursion
<1>6. PICK it : Follows(it, S, Int, pick, 0, step)
  BY <1>5
<1>7. it \in [SUBSET S -> Int]
  BY <1>6 DEF Follows
<1>8. ASSUME NEW s \in SUBSET S
      PROVE  it[s] = IF s = {} THEN 0 ELSE f[SomeOf(s)] + it[s \ {SomeOf(s)}]
  <2>1. CASE s = {}
    BY <2>1, <1>6 DEF Follows
  <2>2. CASE s # {}
    <3>1. it[s] = step[<<pick[s], it[s \ {pick[s]}]>>]
      BY <2>2, <1>6 DEF Follows
    <3>2. pick[s] = SomeOf(s) /\ SomeOf(s) \in S /\ it[s \ {SomeOf(s)}] \in Int
      BY <2>2, <1>2, <1>7
    <3>3. it[s] = step[<<SomeOf(s), it[s \ {SomeOf(s)}]>>]
      BY <3>1, <3>2
    <3>4. QED
      BY <2>2, <3>2, <3>3
  <2>3. QED
    BY <2>1, <2>2
<1>9. Sums(it, f, S)
  BY <1>7, <1>8 DEF Sums
<1>10. QED
  BY <1>7, <1>9

(* The sum is what such a function maps the whole set to.                  *)
LEMMA SumOverBy ==
  ASSUME NEW S, NEW f, NEW it, Sums(it, f, S)
  PROVE  \E jt : Sums(jt, f, S) /\ SumOver(f, S) = jt[S]
BY DEF SumOver, MapThenSumSet, MapThenFoldSet, Sums, SomeOf

(* Two sums over functions that differ at one point at most differ by      *)
(* what these map it to.                                                   *)
LEMMA SumsDiffer ==
  ASSUME NEW S, IsFiniteSet(S), NEW f \in [S -> Int], NEW g \in [S -> Int],
         NEW a, \A x \in S : x # a => f[x] = g[x],
         NEW it, Sums(it, f, S), NEW jt, Sums(jt, g, S)
  PROVE  /\ it[S] \in Int /\ jt[S] \in Int
         /\ jt[S] = it[S] + (IF a \in S THEN g[a] - f[a] ELSE 0)
<1>1. DEFINE more(s) == IF a \in s THEN g[a] - f[a] ELSE 0
             right(s) == it[s] \in Int /\ jt[s] \in Int /\ jt[s] = it[s] + more(s)
             T == {s \in SUBSET S : ~right(s)}
<1>2. SUFFICES ASSUME T # {} PROVE FALSE
  OBVIOUS
<1>3. PICK u \in T : \A w \in SUBSET u : w # u => w \notin T
  <2>1. T \subseteq SUBSET S
    OBVIOUS
  <2>2. HIDE DEF T
  <2>3. QED
    BY <1>2, <2>1, SmallestSubset
<1>4. u \in SUBSET S /\ ~right(u)
  OBVIOUS
<1>5. CASE u = {}
  BY <1>4, <1>5 DEF Sums
<1>6. CASE u # {}
  <2>1. PICK x : x = SomeOf(u)
    OBVIOUS
  <2>2. x \in u
    BY <1>6, <2>1 DEF SomeOf
  <2>3. DEFINE w == u \ {x}
  <2>4. right(w)
    BY <1>3, <1>4, <2>2
  <2>5. it[u] = f[x] + it[w] /\ jt[u] = g[x] + jt[w]
    BY <1>4, <1>6, <2>1 DEF Sums
  <2>6. f[x] \in Int /\ g[x] \in Int
    BY <1>4, <2>2
  <2>7. CASE x = a
    BY <1>4, <2>2, <2>4, <2>5, <2>6, <2>7
  <2>8. CASE x # a
    <3>1. f[x] = g[x] /\ more(u) = more(w)
      BY <1>4, <2>2, <2>8
    <3>2. HIDE DEF more
    <3>3. more(w) \in Int
      BY <1>4, <2>4 DEF more
    <3>4. QED
      BY <1>4, <2>4, <2>5, <2>6, <3>1, <3>3
  <2>9. QED
    BY <2>7, <2>8
<1>7. QED
  BY <1>5, <1>6

(* Any function that computes it is as good.                               *)
LEMMA SumOverIs ==
  ASSUME NEW S, IsFiniteSet(S), NEW f \in [S -> Int], NEW it, Sums(it, f, S)
  PROVE  SumOver(f, S) = it[S] /\ SumOver(f, S) \in Int
<1>1. PICK jt : Sums(jt, f, S) /\ SumOver(f, S) = jt[S]
  BY SumOverBy
<1>2. PICK a : a \notin S
  <2>1. DEFINE a0 == {x \in S : x \notin x}
  <2>2. a0 \notin S
    OBVIOUS
  <2>3. QED
    BY <2>2
<1>3. jt[S] = it[S] /\ it[S] \in Int
  <2>1. \A x \in S : x # a => f[x] = f[x]
    OBVIOUS
  <2>2. /\ it[S] \in Int /\ jt[S] \in Int
        /\ jt[S] = it[S] + (IF a \in S THEN f[a] - f[a] ELSE 0)
    BY <1>1, <2>1, SumsDiffer
  <2>3. QED
    BY <1>2, <2>2
<1>4. QED
  BY <1>1, <1>3

(* A sum of integers is an integer.                                        *)
LEMMA SumOverType ==
  ASSUME NEW S, IsFiniteSet(S), NEW f \in [S -> Int]
  PROVE  SumOver(f, S) \in Int
BY SumsExist, SumOverIs

(* What one point changes, the sum changes.                                *)
LEMMA SumOverPoint ==
  ASSUME NEW S, IsFiniteSet(S), NEW f \in [S -> Int], NEW g \in [S -> Int],
         NEW a \in S, \A x \in S : x # a => f[x] = g[x]
  PROVE  SumOver(g, S) = SumOver(f, S) + g[a] - f[a]
<1>1. PICK it : Sums(it, f, S)
  BY SumsExist
<1>2. PICK jt : Sums(jt, g, S)
  BY SumsExist
<1>3. SumOver(f, S) = it[S] /\ SumOver(g, S) = jt[S]
  BY <1>1, <1>2, SumOverIs
<1>4. it[S] \in Int /\ jt[S] = it[S] + (IF a \in S THEN g[a] - f[a] ELSE 0)
  BY <1>1, <1>2, SumsDiffer
<1>5. g[a] \in Int /\ f[a] \in Int
  OBVIOUS
<1>6. QED
  BY <1>3, <1>4, <1>5

(* A sum of zeros is zero.                                                 *)
LEMMA SumOverZero ==
  ASSUME NEW S, IsFiniteSet(S), NEW f \in [S -> Int], \A x \in S : f[x] = 0
  PROVE  SumOver(f, S) = 0
<1>1. DEFINE it == [s \in SUBSET S |-> 0]
<1>2. ASSUME NEW s \in SUBSET S, s # {}
      PROVE  f[SomeOf(s)] = 0 /\ it[s \ {SomeOf(s)}] = 0
  BY <1>2 DEF SomeOf
<1>3. Sums(it, f, S)
  <2>1. ASSUME NEW s \in SUBSET S
        PROVE  it[s] = IF s = {} THEN 0 ELSE f[SomeOf(s)] + it[s \ {SomeOf(s)}]
    <3>1. it[s] = 0
      OBVIOUS
    <3>2. s # {} => f[SomeOf(s)] = 0 /\ it[s \ {SomeOf(s)}] = 0
      BY <1>2
    <3>3. HIDE DEF it
    <3>4. QED
      BY <3>1, <3>2
  <2>2. QED
    BY <2>1 DEF Sums
<1>4. it[S] = 0
  OBVIOUS
<1>5. HIDE DEF it
<1>6. QED
  BY <1>3, <1>4, SumOverIs

-----------------------------------------------------------------------------
(* Lists.                                                                  *)

(* A finite set of numbers that has a member has a largest.                *)
LEMMA LargestIsMember ==
  ASSUME NEW S, IsFiniteSet(S), S \subseteq Int, NEW s \in SUBSET S, s # {}
  PROVE  Max(s) \in s /\ \A y \in s : Max(s) >= y
<1>1. DEFINE T == {u \in SUBSET S : u # {} /\ ~ \E x \in u : \A y \in u : x >= y}
<1>2. T = {}
  <2>1. SUFFICES ASSUME T # {} PROVE FALSE
    OBVIOUS
  <2>2. PICK u \in T : \A w \in SUBSET u : w # u => w \notin T
    <3>1. T \subseteq SUBSET S
      OBVIOUS
    <3>2. HIDE DEF T
    <3>3. QED
      BY <2>1, <3>1, SmallestSubset
  <2>3. u \in SUBSET S /\ u # {} /\ ~ \E x \in u : \A y \in u : x >= y
    OBVIOUS
  <2>4. PICK a : a \in u
    BY <2>3
  <2>5. u \ {a} # {} => \E m \in u \ {a} : \A y \in u \ {a} : m >= y
    BY <2>2, <2>3, <2>4
  <2>6. u \subseteq Int
    BY <2>3
  <2>7. CASE u \ {a} = {}
    BY <2>3, <2>4, <2>6, <2>7
  <2>8. CASE u \ {a} # {}
    <3>1. PICK m \in u \ {a} : \A y \in u \ {a} : m >= y
      BY <2>5, <2>8
    <3>2. m \in Int /\ a \in Int
      BY <2>4, <2>6
    <3>3. CASE m >= a
      BY <2>3, <3>1, <3>3
    <3>4. CASE ~(m >= a)
      <4>1. \A y \in u : a >= y
        BY <2>6, <3>1, <3>2, <3>4
      <4>2. QED
        BY <2>3, <2>4, <4>1
    <3>5. QED
      BY <3>3, <3>4
  <2>9. QED
    BY <2>7, <2>8
<1>3. \E x \in s : \A y \in s : x >= y
  BY <1>2
<1>4. QED
  BY <1>3 DEF Max

(* The function by which Without filters a list.                           *)
Filters(it, items, value) ==
  it = [s \in SUBSET DOMAIN items |->
          IF s = {} THEN <<>>
          ELSE IF items[Max(s)] = value THEN it[s \ {Max(s)}]
               ELSE Append(it[s \ {Max(s)}], items[Max(s)])]

LEMMA WithoutBy ==
  ASSUME NEW items, NEW value, NEW it, Filters(it, items, value)
  PROVE  \E jt : Filters(jt, items, value) /\ Without(items, value) = jt[DOMAIN items]
BY DEF Without, FoldLeft, MapThenFoldSet, Filters

LEMMA FilterExists ==
  ASSUME NEW A, NEW items \in Seq(A), NEW value
  PROVE  \E it : Filters(it, items, value)
<1>1. DEFINE S == DOMAIN items
             pick == [s \in SUBSET S |-> Max(s)]
             step == [p \in S \X Seq(A) |->
                        IF items[p[1]] = value THEN p[2] ELSE Append(p[2], items[p[1]])]
<1>2. IsFiniteSet(S) /\ S \subseteq Int
  <2>1. PICK n \in Nat : S = 1..n
    OBVIOUS
  <2>2. 1 \in Int /\ n \in Int
    BY <2>1
  <2>3. IsFiniteSet(1..n)
    BY <2>2, FS_Interval
  <2>4. QED
    BY <2>1, <2>3
<1>3. \A s \in SUBSET S : s # {} => Max(s) \in s
  <2>1. HIDE DEF S
  <2>2. QED
    BY <1>2, LargestIsMember
<1>4. Picks(pick, S)
  BY <1>3 DEF Picks
<1>5. step \in [S \X Seq(A) -> Seq(A)]
  <2>1. ASSUME NEW p \in S \X Seq(A)
        PROVE  (IF items[p[1]] = value THEN p[2] ELSE Append(p[2], items[p[1]])) \in Seq(A)
    <3>1. items[p[1]] \in A /\ p[2] \in Seq(A)
      OBVIOUS
    <3>2. QED
      BY <3>1
  <2>2. QED
    BY <2>1
<1>6. <<>> \in Seq(A)
  OBVIOUS
<1>7. PICK it : Follows(it, S, Seq(A), pick, <<>>, step)
  <2>1. HIDE DEF pick, step, S
  <2>2. QED
    BY <1>2, <1>4, <1>5, <1>6, Recursion
<1>8. it \in [SUBSET S -> Seq(A)]
  BY <1>7 DEF Follows
<1>9. ASSUME NEW s \in SUBSET S
      PROVE  it[s] = IF s = {} THEN <<>>
                     ELSE IF items[Max(s)] = value THEN it[s \ {Max(s)}]
                          ELSE Append(it[s \ {Max(s)}], items[Max(s)])
  <2>1. CASE s = {}
    BY <2>1, <1>7 DEF Follows
  <2>2. CASE s # {}
    <3>1. it[s] = step[<<pick[s], it[s \ {pick[s]}]>>]
      BY <2>2, <1>7 DEF Follows
    <3>2. pick[s] = Max(s) /\ Max(s) \in S /\ it[s \ {Max(s)}] \in Seq(A)
      BY <2>2, <1>3, <1>8
    <3>3. it[s] = step[<<Max(s), it[s \ {Max(s)}]>>]
      BY <3>1, <3>2
    <3>4. step[<<Max(s), it[s \ {Max(s)}]>>]
            = IF items[Max(s)] = value THEN it[s \ {Max(s)}]
              ELSE Append(it[s \ {Max(s)}], items[Max(s)])
      BY <3>2
    <3>5. QED
      BY <2>2, <3>3, <3>4
  <2>3. QED
    BY <2>1, <2>2
<1>10. Filters(it, items, value)
  BY <1>8, <1>9 DEF Filters
<1>11. QED
  BY <1>10

(* One item more at the end of a list.                                     *)
LEMMA AppendItems ==
  ASSUME NEW A, NEW list \in Seq(A), NEW item \in A
  PROVE  /\ Append(list, item) \in Seq(A)
         /\ ToSet(Append(list, item)) = ToSet(list) \union {item}
         /\ IsInjective(list) /\ item \notin ToSet(list) => IsInjective(Append(list, item))
<1>1. DEFINE more == Append(list, item)
             n == Len(list)
<1>2. /\ more \in Seq(A) /\ n \in Nat
      /\ DOMAIN list = 1..n /\ DOMAIN more = 1..(n + 1)
      /\ \A i \in 1..n : more[i] = list[i]
      /\ more[n + 1] = item
  OBVIOUS
<1>3. HIDE DEF more, n
<1>4. ToSet(more) = ToSet(list) \union {item}
  <2>1. ASSUME NEW x \in ToSet(more) PROVE x \in ToSet(list) \union {item}
    <3>1. PICK i \in 1..(n + 1) : x = more[i]
      BY <1>2, <2>1 DEF ToSet
    <3>2. i = n + 1 \/ i \in 1..n
      BY <1>2, <3>1
    <3>3. QED
      BY <1>2, <3>1, <3>2 DEF ToSet
  <2>2. item \in ToSet(more)
    <3>1. n + 1 \in 1..(n + 1)
      BY <1>2
    <3>2. QED
      BY <1>2, <3>1 DEF ToSet
  <2>3. ASSUME NEW x \in ToSet(list) PROVE x \in ToSet(more)
    <3>1. PICK i \in 1..n : x = list[i]
      BY <1>2, <2>3 DEF ToSet
    <3>2. i \in 1..(n + 1) /\ more[i] = x
      BY <1>2, <3>1
    <3>3. QED
      BY <1>2, <3>2 DEF ToSet
  <2>4. QED
    BY <2>1, <2>2, <2>3
<1>5. ASSUME IsInjective(list), item \notin ToSet(list) PROVE IsInjective(more)
  <2>1. ASSUME NEW i \in 1..(n + 1), NEW j \in 1..(n + 1), more[i] = more[j] PROVE i = j
    <3>1. \A k \in 1..n : more[k] # item
      BY <1>2, <1>5 DEF ToSet
    <3>2. CASE i \in 1..n /\ j \in 1..n
      BY <1>2, <1>5, <2>1, <3>2 DEF IsInjective
    <3>3. CASE i = n + 1 /\ j \in 1..n
      BY <1>2, <2>1, <3>1, <3>3
    <3>4. CASE i \in 1..n /\ j = n + 1
      BY <1>2, <2>1, <3>1, <3>4
    <3>5. CASE i = n + 1 /\ j = n + 1
      BY <3>5
    <3>6. QED
      BY <1>2, <2>1, <3>2, <3>3, <3>4, <3>5
  <2>2. QED
    BY <1>2, <2>1 DEF IsInjective
<1>6. QED
  BY <1>2, <1>4, <1>5 DEF more

(* What a filtered list holds: the other items, each once if it was once.  *)
LEMMA WithoutItems ==
  ASSUME NEW A, NEW items \in Seq(A), NEW value
  PROVE  /\ Without(items, value) \in Seq(A)
         /\ ToSet(Without(items, value)) = ToSet(items) \ {value}
         /\ IsInjective(items) => IsInjective(Without(items, value))
<1>1. PICK it : Filters(it, items, value)
  BY FilterExists
<1>2. PICK jt : Filters(jt, items, value) /\ Without(items, value) = jt[DOMAIN items]
  BY <1>1, WithoutBy
<1>3. DEFINE S == DOMAIN items
             part(s) == {items[i] : i \in s} \ {value}
             right(s) == /\ jt[s] \in Seq(A)
                         /\ ToSet(jt[s]) = part(s)
                         /\ IsInjective(items) => IsInjective(jt[s])
             T == {s \in SUBSET S : ~right(s)}
<1>4. IsFiniteSet(S) /\ S \subseteq Int
  <2>1. PICK n \in Nat : S = 1..n
    OBVIOUS
  <2>2. 1 \in Int /\ n \in Int
    BY <2>1
  <2>3. IsFiniteSet(1..n)
    BY <2>2, FS_Interval
  <2>4. QED
    BY <2>1, <2>3
<1>5. T = {}
  <2>1. SUFFICES ASSUME T # {} PROVE FALSE
    OBVIOUS
  <2>2. PICK u \in T : \A w \in SUBSET u : w # u => w \notin T
    <3>1. T \subseteq SUBSET S
      OBVIOUS
    <3>2. HIDE DEF T, S
    <3>3. QED
      BY <1>4, <2>1, <3>1, SmallestSubset
  <2>3. u \in SUBSET S /\ ~right(u)
    OBVIOUS
  <2>4. CASE u = {}
    <3>1. jt[u] = <<>>
      BY <1>2, <2>3, <2>4 DEF Filters
    <3>2. right(u)
      BY <2>4, <3>1 DEF ToSet, IsInjective
    <3>3. QED
      BY <2>3, <3>2
  <2>5. CASE u # {}
    <3>1. PICK m : m = Max(u)
      OBVIOUS
    <3>2. m \in u
      <4>1. HIDE DEF S
      <4>2. QED
        BY <1>4, <2>3, <2>5, <3>1, LargestIsMember
    <3>3. DEFINE w == u \ {m}
    <3>4. right(w)
      BY <2>2, <2>3, <3>2
    <3>5. jt[u] = IF items[m] = value THEN jt[w] ELSE Append(jt[w], items[m])
      BY <1>2, <2>3, <2>5, <3>1 DEF Filters
    <3>6. items[m] \in A
      BY <2>3, <3>2
    <3>7. CASE items[m] = value
      <4>1. part(u) = part(w)
        BY <3>2, <3>7
      <4>2. jt[u] = jt[w]
        BY <3>5, <3>7
      <4>3. HIDE DEF part
      <4>4. QED
        BY <2>3, <3>4, <4>1, <4>2
    <3>8. CASE items[m] # value
      <4>1. part(u) = part(w) \union {items[m]}
        BY <3>2, <3>8
      <4>2. jt[u] = Append(jt[w], items[m])
        BY <3>5, <3>8
      <4>3. IsInjective(items) => items[m] \notin part(w)
        BY <2>3, <3>2 DEF IsInjective
      <4>4. PICK kept : kept = jt[w]
        OBVIOUS
      <4>5. /\ kept \in Seq(A) /\ ToSet(kept) = part(w)
            /\ IsInjective(items) => IsInjective(kept)
        BY <3>4, <4>4
      <4>6. /\ Append(kept, items[m]) \in Seq(A)
            /\ ToSet(Append(kept, items[m])) = ToSet(kept) \union {items[m]}
            /\ IsInjective(kept) /\ items[m] \notin ToSet(kept)
                 => IsInjective(Append(kept, items[m]))
        BY <3>6, <4>5, AppendItems
      <4>7. HIDE DEF part
      <4>8. QED
        BY <2>3, <4>1, <4>2, <4>3, <4>4, <4>5, <4>6
    <3>9. QED
      BY <3>7, <3>8
  <2>6. QED
    BY <2>4, <2>5
<1>6. right(S)
  BY <1>5
<1>7. part(S) = ToSet(items) \ {value}
  BY DEF ToSet
<1>8. QED
  BY <1>2, <1>6, <1>7

(* One item more at the front of a list.                                   *)
LEMMA FrontItems ==
  ASSUME NEW A, NEW list \in Seq(A), NEW item \in A
  PROVE  /\ <<item>> \o list \in Seq(A)
         /\ Len(<<item>> \o list) = Len(list) + 1
         /\ (<<item>> \o list)[1] = item
         /\ ToSet(<<item>> \o list) = ToSet(list) \union {item}
         /\ IsInjective(list) /\ item \notin ToSet(list) => IsInjective(<<item>> \o list)
<1>1. DEFINE more == <<item>> \o list
             n == Len(list)
<1>2. /\ more \in Seq(A) /\ n \in Nat /\ Len(more) = n + 1
      /\ DOMAIN list = 1..n /\ DOMAIN more = 1..(n + 1)
      /\ \A i \in 2..(n + 1) : more[i] = list[i - 1]
      /\ more[1] = item
  OBVIOUS
<1>3. HIDE DEF more, n
<1>4. ToSet(more) = ToSet(list) \union {item}
  <2>1. ASSUME NEW x \in ToSet(more) PROVE x \in ToSet(list) \union {item}
    <3>1. PICK i \in 1..(n + 1) : x = more[i]
      BY <1>2, <2>1 DEF ToSet
    <3>2. i = 1 \/ (i \in 2..(n + 1) /\ i - 1 \in 1..n)
      BY <1>2, <3>1
    <3>3. QED
      BY <1>2, <3>1, <3>2 DEF ToSet
  <2>2. item \in ToSet(more)
    <3>1. 1 \in 1..(n + 1)
      BY <1>2
    <3>2. QED
      BY <1>2, <3>1 DEF ToSet
  <2>3. ASSUME NEW x \in ToSet(list) PROVE x \in ToSet(more)
    <3>1. PICK i \in 1..n : x = list[i]
      BY <1>2, <2>3 DEF ToSet
    <3>2. i + 1 \in 2..(n + 1) /\ i + 1 \in 1..(n + 1) /\ (i + 1) - 1 = i
      BY <1>2, <3>1
    <3>3. more[i + 1] = x
      BY <1>2, <3>1, <3>2
    <3>4. QED
      BY <1>2, <3>2, <3>3 DEF ToSet
  <2>4. QED
    BY <2>1, <2>2, <2>3
<1>5. ASSUME IsInjective(list), item \notin ToSet(list) PROVE IsInjective(more)
  <2>1. ASSUME NEW i \in 1..(n + 1), NEW j \in 1..(n + 1), more[i] = more[j] PROVE i = j
    <3>1. \A k \in 1..n : list[k] # item
      BY <1>2, <1>5 DEF ToSet
    <3>2. \A k \in 1..(n + 1) : k = 1 \/ (k \in 2..(n + 1) /\ k - 1 \in 1..n)
      BY <1>2
    <3>3. CASE i # 1 /\ j # 1
      <4>1. list[i - 1] = list[j - 1] /\ i - 1 \in 1..n /\ j - 1 \in 1..n
        BY <1>2, <2>1, <3>2, <3>3
      <4>2. i - 1 = j - 1
        BY <1>2, <1>5, <4>1 DEF IsInjective
      <4>3. QED
        BY <4>2
    <3>4. CASE i = 1 /\ j # 1
      BY <1>2, <2>1, <3>1, <3>2, <3>4
    <3>5. CASE i # 1 /\ j = 1
      BY <1>2, <2>1, <3>1, <3>2, <3>5
    <3>6. QED
      BY <3>3, <3>4, <3>5
  <2>2. QED
    BY <1>2, <2>1 DEF IsInjective
<1>6. QED
  BY <1>2, <1>4, <1>5 DEF more, n

(* A list that is cut keeps what comes first.                              *)
LEMMA CappedItems ==
  ASSUME NEW A, NEW list \in Seq(A), NEW most \in Nat
  PROVE  /\ Capped(list, most) \in Seq(A)
         /\ Len(Capped(list, most)) = IF Len(list) < most THEN Len(list) ELSE most
         /\ \A i \in DOMAIN Capped(list, most) :
              i \in DOMAIN list /\ Capped(list, most)[i] = list[i]
         /\ ToSet(Capped(list, most)) \subseteq ToSet(list)
         /\ IsInjective(list) => IsInjective(Capped(list, most))
         /\ Len(list) <= most => Capped(list, most) = list
<1>1. DEFINE n == IF Len(list) < most THEN Len(list) ELSE most
<1>2. /\ n \in 0..Len(list) /\ Len(list) \in Nat /\ DOMAIN list = 1..Len(list)
      /\ Capped(list, most) = SubSeq(list, 1, n)
  BY DEF Capped
<1>3. HIDE DEF n
<1>4. /\ Capped(list, most) \in Seq(A) /\ Len(Capped(list, most)) = n
      /\ DOMAIN Capped(list, most) = 1..n
      /\ \A i \in 1..n : Capped(list, most)[i] = list[i]
  BY <1>2
<1>5. 1..n \subseteq DOMAIN list
  BY <1>2
<1>6. \A i \in DOMAIN Capped(list, most) :
        i \in DOMAIN list /\ Capped(list, most)[i] = list[i]
  BY <1>4, <1>5
<1>7. ToSet(Capped(list, most)) \subseteq ToSet(list)
  BY <1>6 DEF ToSet
<1>8. IsInjective(list) => IsInjective(Capped(list, most))
  BY <1>6 DEF IsInjective
<1>9. Len(list) <= most => Capped(list, most) = list
  <2>1. SUFFICES ASSUME Len(list) <= most PROVE Capped(list, most) = list
    OBVIOUS
  <2>2. n = Len(list)
    <3>1. PICK len \in Nat : len = Len(list)
      OBVIOUS
    <3>2. len < most \/ len = most
      BY <2>1, <3>1
    <3>3. QED
      BY <3>1, <3>2 DEF n
  <2>3. QED
    BY <1>2, <2>2
<1>10. QED
  BY <1>4, <1>6, <1>7, <1>8, <1>9 DEF n

(* A list that holds each item once is as long as its items are many.      *)
LEMMA DistinctLength ==
  ASSUME NEW A, NEW list \in Seq(A), IsInjective(list)
  PROVE  IsFiniteSet(ToSet(list)) /\ Cardinality(ToSet(list)) = Len(list)
<1>1. PICK n \in Nat : n = Len(list) /\ DOMAIN list = 1..n
  OBVIOUS
<1>2. list \in Bijection(1..n, ToSet(list))
  <2>1. list \in [1..n -> ToSet(list)]
    BY <1>1 DEF ToSet
  <2>2. \A i, j \in 1..n : list[i] = list[j] => i = j
    BY <1>1 DEF IsInjective
  <2>3. \A x \in ToSet(list) : \E i \in 1..n : list[i] = x
    BY <1>1 DEF ToSet
  <2>4. QED
    BY <2>1, <2>2, <2>3 DEF Bijection, Injection, Surjection, IsInjective
<1>3. ExistsBijection(1..n, ToSet(list))
  BY <1>2 DEF ExistsBijection
<1>4. IsFiniteSet(1..n) /\ Cardinality(1..n) = n
  <2>1. 1 \in Int /\ n \in Int
    BY <1>1
  <2>2. IsFiniteSet(1..n) /\ Cardinality(1..n) = IF 1 > n THEN 0 ELSE n - 1 + 1
    BY <2>1, FS_Interval
  <2>3. QED
    BY <1>1, <2>2
<1>5. QED
  BY <1>1, <1>3, <1>4, FS_Bijection

-----------------------------------------------------------------------------
(* No client names the record of a debit.                                  *)
Unnamed ==
  \A n \in DOMAIN Bounds : Bounds[n].clients \intersect Pool["value-spend-balance"] = {}

(* No client declares a negative balance, and none was declared before.    *)
Solvent ==
  /\ Declarations \subseteq Nat
  /\ \A n \in DOMAIN Bounds : \A key \in DOMAIN Bounds[n].given :
       Bounds[n].given[key].balance_cents >= 0

(* Records whose identifier is given out once, and that are put again with
   their moved flag changed at most.                                       *)
Lasting(key) ==
  \/ key[1] \in {"value-topup-decision", "value-spend-decision", "value-limit-check"}
  \/ Unnamed /\ key[1] = "value-spend-balance"

Same(kind, u, v) ==
  /\ kind = "value-topup-decision" =>
       /\ u.topup = v.topup /\ u.decision = v.decision
       /\ u.from = v.from /\ u.to = v.to /\ u.amount_cents = v.amount_cents
  /\ kind = "value-spend-decision" =>
       /\ u.spend = v.spend /\ u.decision = v.decision
       /\ u.surface = v.surface /\ u.amount_cents = v.amount_cents
       /\ u.identity_id = v.identity_id /\ u.limit_check_id = v.limit_check_id
  /\ kind = "value-limit-check" =>
       u.allowed = v.allowed /\ u.surface = v.surface /\ u.identity_id = v.identity_id
  /\ kind = "value-spend-balance" =>
       u.spend = v.spend /\ u.amount_cents = v.amount_cents

Agrees(st, key, v) == st[key] # Absent /\ Same(key[1], st[key], v)

(* The store st2 has all that lasts in st.                                 *)
Extends(st, st2) ==
  \A key \in Keys : Lasting(key) /\ st[key] # Absent => Agrees(st2, key, st[key])

(* What a record rests on in the store st.                                 *)
In(st, kind, id) == id \in Pool[kind] /\ st[<<kind, id>>] # Absent

ApprovalOfTopup(d, t, v) ==
  /\ d.topup = t /\ d.decision = "approved"
  /\ d.from = v.from /\ d.to = v.to /\ d.amount_cents = v.amount_cents

ApprovalOfSpend(d, s, v) ==
  /\ d.spend = s /\ d.decision = "approved"
  /\ d.surface = v.surface /\ d.amount_cents = v.amount_cents

TopupBacked(st, t, v) ==
  v.decision = "approved" =>
    /\ In(st, "value-topup-decision", v.decision_id)
    /\ ApprovalOfTopup(st[TopupDecision(v.decision_id)], t, v)

BalanceBacked(st, m) ==
  \E d \in Pool["value-topup-decision"] :
    /\ st[TopupDecision(d)] # Absent
    /\ ApprovalOfTopup(st[TopupDecision(d)], m.topup, m)

SpendBacked(st, s, v) ==
  /\ v.decision = "approved" =>
       /\ In(st, "value-spend-decision", v.decision_id)
       /\ ApprovalOfSpend(st[SpendDecision(v.decision_id)], s, v)
  /\ v.balance_moved =>
       /\ v.spend_balance_id \in Pool["value-spend-balance"]
       /\ Unnamed =>
            /\ st[SpendBalance(v.spend_balance_id)] # Absent
            /\ st[SpendBalance(v.spend_balance_id)].spend = s
            /\ st[SpendBalance(v.spend_balance_id)].amount_cents = v.amount_cents

BalanceDebited(st, b) ==
  \E d \in Pool["value-spend-decision"] :
    /\ st[SpendDecision(d)] # Absent
    /\ ApprovalOfSpend(st[SpendDecision(d)], b.spend, b)

RefundBacked(st, f) ==
  Unnamed =>
    /\ st[SpendBalance(f.spend_balance_id)] # Absent
    /\ st[SpendBalance(f.spend_balance_id)].spend = f.spend
    /\ f.amount_cents <= st[SpendBalance(f.spend_balance_id)].amount_cents

CheckPassed(st, d) ==
  d.decision = "approved" /\ d.limit_check_id # None =>
    /\ st[LimitCheck(d.limit_check_id)] # Absent
    /\ st[LimitCheck(d.limit_check_id)].allowed
    /\ st[LimitCheck(d.limit_check_id)].surface = d.surface
    /\ st[LimitCheck(d.limit_check_id)].identity_id = d.identity_id

Genuine(st, key, v) ==
  /\ key[1] = "value-surface" => (Solvent => v.balance_cents >= 0)
  /\ key[1] = "value-topup" => TopupBacked(st, key[2], v)
  /\ key[1] = "value-balance" => BalanceBacked(st, v)
  /\ key[1] = "value-spend" => SpendBacked(st, key[2], v)
  /\ key[1] = "value-spend-decision" => CheckPassed(st, v)
  /\ key[1] = "value-spend-balance" => BalanceDebited(st, v)
  /\ key[1] = "value-refund" => RefundBacked(st, v)

(* The shape of the records of each kind, where b are the scene's bounds.  *)
Shaped(b, key, v) ==
  /\ key[1] = "value-surface" =>
       v \in SurfaceRecord /\ [kind |-> v.kind, role |-> v.role] \in b.registrations
  /\ key[1] = "value-topup" => v \in TopupRecord
  /\ key[1] = "value-topup-decision" => v \in TopupDecisionRecord
  /\ key[1] = "value-balance" => v \in BalanceRecord
  /\ key[1] = "value-spend" => IsSpend(v)
  /\ key[1] = "value-limit-check" => v \in CheckRecord
  /\ key[1] = "value-spend-decision" => v \in SpendDecisionRecord
  /\ key[1] = "value-spend-balance" => v \in SpendBalanceRecord
  /\ key[1] = "value-receipt" => v \in ReceiptRecord
  /\ key[1] = "value-refund" => v \in RefundRecord
  /\ key[1] = "value-refund-decision" => v \in RefundDecisionRecord

Fine(b, st, key, v) == Shaped(b, key, v) /\ Genuine(st, key, v)

(* A copy of the record under the key, which is still as good.             *)
Copied(b, st, key, v) ==
  v # Absent /\ Fine(b, st, key, v) /\ (Lasting(key) => Agrees(st, key, v))

(* What requests ask.                                                      *)
Inputs ==
  [op : {"register"}, identity_id : Identities, new : SurfaceIds] \union
  [op : {"patch"}, identity_id : Identities, new : {None}, surface : SurfaceIds,
   status : Nothing(Statuses), balance_cents : Nothing(Declarations)] \union
  [op : {"surface-status"}, identity_id : Identities, new : {None},
   surface : SurfaceIds, status : Statuses] \union
  [op : {"limit"}, identity_id : Identities, new : {None}, surface : SurfaceIds,
   limits : LimitSettings] \union
  [op : {"topup"}, identity_id : Identities, new : Pool["value-topup"],
   from : SurfaceIds, to : SurfaceIds, amount_cents : TopupAmounts,
   currency : Currencies] \union
  [op : {"topup-decision"}, identity_id : Identities,
   new : Pool["value-topup-decision"], topup : Pool["value-topup"],
   decision : Verdicts] \union
  [op : {"balance"}, identity_id : Identities, new : Pool["value-balance"],
   topup : Pool["value-topup"],
   decision_id : Nothing(Pool["value-topup-decision"])] \union
  [op : {"spend"}, identity_id : Identities, new : Pool["value-spend"],
   surface : SurfaceIds, amount_cents : SpendAmounts, currency : Currencies] \union
  [op : {"limit-check"}, identity_id : Identities, new : Pool["value-limit-check"],
   surface : SurfaceIds, amount_cents : SpendAmounts,
   movement_kind : {"spend", "topup", "other"}] \union
  [op : {"spend-decision"}, identity_id : Identities,
   new : Pool["value-spend-decision"], spend : Pool["value-spend"],
   decision : Verdicts, limit_check_id : Nothing(Pool["value-limit-check"])] \union
  [op : {"spend-balance"}, identity_id : Identities,
   new : Pool["value-spend-balance"], spend : Pool["value-spend"],
   decision_id : Nothing(Pool["value-spend-decision"])] \union
  [op : {"receipt"}, identity_id : Identities, new : Pool["value-receipt"],
   spend : Pool["value-spend"]] \union
  [op : {"refund"}, identity_id : Identities, new : Pool["value-refund"],
   spend : Pool["value-spend"], amount_cents : SpendAmounts,
   currency : Currencies] \union
  [op : {"refund-decision"}, identity_id : Identities,
   new : Pool["value-refund-decision"], refund : Pool["value-refund"],
   decision : Verdicts]

(* The key of the lasting record a request may put the first time.         *)
NewKey(input) ==
  CASE input.op = "topup-decision" -> TopupDecision(input.new)
    [] input.op = "limit-check"    -> LimitCheck(input.new)
    [] input.op = "spend-decision" -> SpendDecision(input.new)
    [] input.op = "spend-balance"  -> SpendBalance(input.new)
    [] OTHER -> None

Reserves(input) == NewKey(input) \in Keys /\ Lasting(NewKey(input))

Apart(i, j) == Reserves(i) => NewKey(i) # NewKey(j)

(* The copies a request has read so far, by what it asks.                  *)
SeenByTopupDecision(b, st, input, seen) ==
  Len(seen) >= 1 => Copied(b, st, Topup(input.topup), seen[1])

SeenByBalance(b, st, input, seen) ==
  /\ Len(seen) <= 3
  /\ Len(seen) >= 1 =>
       /\ Copied(b, st, Topup(input.topup), seen[1])
       /\ MayMove(seen[1]) /\ CitedTopupDecision(input, seen[1]) # None
  /\ Len(seen) >= 2 =>
       /\ Copied(b, st, TopupDecision(CitedTopupDecision(input, seen[1])), seen[2])
       /\ Approves(seen[2], input)
  /\ Len(seen) = 3 /\ seen[3] # Absent => Copied(b, st, Surface(seen[1].from), seen[3])

SeenBySpendDecision(b, st, input, seen) ==
  /\ Len(seen) <= 2
  /\ Len(seen) >= 1 => Copied(b, st, Spend(input.spend), seen[1])
  /\ Len(seen) = 2 => seen[2] # Absent /\ NamedCheck(input, seen[1]) # None

SeenBySpendBalance(b, st, input, seen) ==
  /\ Len(seen) <= 2
  /\ Len(seen) >= 1 =>
       /\ Copied(b, st, Spend(input.spend), seen[1])
       /\ MayDebit(seen[1]) /\ CitedSpendDecision(input, seen[1]) # None
  /\ Len(seen) = 2 =>
       /\ Copied(b, st, SpendDecision(CitedSpendDecision(input, seen[1])), seen[2])
       /\ seen[2].spend = input.spend /\ seen[2].decision = "approved"

SeenByRefundDecision(b, st, input, seen) ==
  /\ Len(seen) <= 1
  /\ Len(seen) = 1 => Copied(b, st, Refund(input.refund), seen[1])

ReadOnce == {"patch", "surface-status", "limit", "spend", "limit-check", "receipt",
             "refund"}

SeenFits(b, st, input, seen) ==
  /\ input.op \in ReadOnce => seen = <<>>
  /\ input.op = "topup-decision" => SeenByTopupDecision(b, st, input, seen)
  /\ input.op = "balance" => SeenByBalance(b, st, input, seen)
  /\ input.op = "spend-decision" => SeenBySpendDecision(b, st, input, seen)
  /\ input.op = "spend-balance" => SeenBySpendBalance(b, st, input, seen)
  /\ input.op = "refund-decision" => SeenByRefundDecision(b, st, input, seen)

(* The store after the put p.                                              *)
With(st, p) == [st EXCEPT ![p.key] = p.value]

(* The n-th put of a request rests on what is stored once the first is.    *)
PutFits(b, st, input, puts, n) ==
  /\ puts[n].key \in Keys
  /\ Fine(b, With(st, puts[1]), puts[n].key, puts[n].value)
  /\ Declares(input) => puts[n].key[1] = "value-surface"
  /\ Lasting(puts[n].key) =>
       \/ n = 1 /\ puts[1].key = NewKey(input)
       \/ puts[n].key # NewKey(input) /\ Agrees(st, puts[n].key, puts[n].value)

(* A request whose new record is still to be put.                          *)
Awaits(input, puts) ==
  Reserves(input) /\ (puts = <<>> \/ puts[1].key = NewKey(input))

IsSeq(s) == \E S : s \in Seq(S)

RequestFits(b, st, x) ==
  /\ x = [input |-> x.input, seen |-> x.seen, puts |-> x.puts]
  /\ x.input \in Inputs
  /\ IsSeq(x.seen) /\ IsSeq(x.puts)
  /\ SeenFits(b, st, x.input, x.seen)
  /\ \A n \in DOMAIN x.puts : PutFits(b, st, x.input, x.puts, n)
  /\ Awaits(x.input, x.puts) => st[NewKey(x.input)] = Absent

StoreFits(b, st) ==
  /\ DOMAIN st = Keys
  /\ \A key \in Keys : st[key] # Absent => Fine(b, st, key, st[key])

RequestsFit == \A r \in Requests : Busy(r) => RequestFits(bounds, kv, request[r])

RequestsApart ==
  \A r, q \in Requests :
    r # q /\ Busy(r) /\ Busy(q) => Apart(request[r].input, request[q].input)

IInv ==
  /\ scene \in DOMAIN Bounds
  /\ crashes \in 0..bounds.crashes
  /\ declared \in Int
  /\ DOMAIN request = Requests
  /\ StoreFits(bounds, kv)
  /\ RequestsFit
  /\ RequestsApart
-----------------------------------------------------------------------------
(* Keys and stores.                                                        *)

(* A key is a kind and an identifier of its pool.                          *)
LEMMA KeysOf ==
  /\ \A kind \in Kinds : \A id \in Pool[kind] : <<kind, id>> \in Keys
  /\ \A key \in Keys : /\ key = <<key[1], key[2]>>
                       /\ key[1] \in Kinds
                       /\ key[2] \in Pool[key[1]]
BY DEF Keys

(* What a kind's records are called by.                                    *)
LEMMA KindOf ==
  /\ \A i : Surface(i)[1] = "value-surface" /\ Surface(i)[2] = i
  /\ \A i : Topup(i)[1] = "value-topup" /\ Topup(i)[2] = i
  /\ \A i : TopupDecision(i)[1] = "value-topup-decision" /\ TopupDecision(i)[2] = i
  /\ \A i : BalanceMove(i)[1] = "value-balance" /\ BalanceMove(i)[2] = i
  /\ \A i : Spend(i)[1] = "value-spend" /\ Spend(i)[2] = i
  /\ \A i : LimitCheck(i)[1] = "value-limit-check" /\ LimitCheck(i)[2] = i
  /\ \A i : SpendDecision(i)[1] = "value-spend-decision" /\ SpendDecision(i)[2] = i
  /\ \A i : SpendBalance(i)[1] = "value-spend-balance" /\ SpendBalance(i)[2] = i
  /\ \A i : Receipt(i)[1] = "value-receipt" /\ Receipt(i)[2] = i
  /\ \A i : Refund(i)[1] = "value-refund" /\ Refund(i)[2] = i
  /\ \A i : RefundDecision(i)[1] = "value-refund-decision" /\ RefundDecision(i)[2] = i
BY DEF Surface, Topup, TopupDecision, BalanceMove, Spend, LimitCheck,
       SpendDecision, SpendBalance, Receipt, Refund, RefundDecision

(* Every identifier of a pool has its key.                                 *)
LEMMA KeyOf ==
  /\ \A i \in SurfaceIds : Surface(i) \in Keys
  /\ \A i \in Pool["value-topup"] : Topup(i) \in Keys
  /\ \A i \in Pool["value-topup-decision"] : TopupDecision(i) \in Keys
  /\ \A i \in Pool["value-balance"] : BalanceMove(i) \in Keys
  /\ \A i \in Pool["value-spend"] : Spend(i) \in Keys
  /\ \A i \in Pool["value-limit-check"] : LimitCheck(i) \in Keys
  /\ \A i \in Pool["value-spend-decision"] : SpendDecision(i) \in Keys
  /\ \A i \in Pool["value-spend-balance"] : SpendBalance(i) \in Keys
  /\ \A i \in Pool["value-receipt"] : Receipt(i) \in Keys
  /\ \A i \in Pool["value-refund"] : Refund(i) \in Keys
  /\ \A i \in Pool["value-refund-decision"] : RefundDecision(i) \in Keys
BY KeysOf DEF Kinds, SurfaceIds, Surface, Topup, TopupDecision, BalanceMove, Spend,
       LimitCheck, SpendDecision, SpendBalance, Receipt, Refund, RefundDecision

(* The records that last are never Absent.                                 *)
LEMMA LastingIsStored ==
  ASSUME NEW b, NEW key, NEW v, Lasting(key), Shaped(b, key, v)
  PROVE  v # Absent
BY CirculationAssumption DEF Lasting, Shaped

(* Agreement with what is stored survives in a store that extends it.      *)
LEMMA AgreesLonger ==
  ASSUME NEW st, NEW st2, Extends(st, st2), NEW key \in Keys, Lasting(key),
         NEW v, Agrees(st, key, v)
  PROVE  Agrees(st2, key, v)
BY DEF Extends, Agrees, Same

-----------------------------------------------------------------------------
(* What a record rests on survives in a store that extends this one.       *)

(* An approved topup keeps its decision while the store only grows.      *)
LEMMA TopupStaysBacked ==
  ASSUME NEW st, NEW st2, Extends(st, st2), NEW t, NEW v, TopupBacked(st, t, v)
  PROVE  TopupBacked(st2, t, v)
<1>1. CASE v.decision = "approved"
  <2>1. TopupDecision(v.decision_id) \in Keys
    BY <1>1, KeyOf DEF TopupBacked, In
  <2>2. st[TopupDecision(v.decision_id)] # Absent
    BY <1>1 DEF TopupBacked, In, TopupDecision
  <2>3. Agrees(st2, TopupDecision(v.decision_id), st[TopupDecision(v.decision_id)])
    BY <2>1, <2>2, KindOf DEF Extends, Lasting
  <2>4. QED
    BY <1>1, <2>2, <2>3, KindOf
    DEF TopupBacked, In, Agrees, Same, ApprovalOfTopup, TopupDecision
<1>2. CASE v.decision # "approved"
  BY <1>2 DEF TopupBacked
<1>3. QED
  BY <1>1, <1>2

(* So does a movement keep the approval it was made under,               *)
LEMMA MoveStaysBacked ==
  ASSUME NEW st, NEW st2, Extends(st, st2), NEW m, BalanceBacked(st, m)
  PROVE  BalanceBacked(st2, m)
<1>1. PICK d \in Pool["value-topup-decision"] :
        /\ st[TopupDecision(d)] # Absent
        /\ ApprovalOfTopup(st[TopupDecision(d)], m.topup, m)
  BY DEF BalanceBacked
<1>2. TopupDecision(d) \in Keys /\ Lasting(TopupDecision(d))
  BY KeyOf, KindOf DEF Lasting
<1>3. Agrees(st2, TopupDecision(d), st[TopupDecision(d)])
  BY <1>1, <1>2 DEF Extends
<1>4. QED
  BY <1>1, <1>3, KindOf DEF BalanceBacked, Agrees, Same, ApprovalOfTopup

(* a spend its decision and its debit,                                   *)
LEMMA SpendStaysBacked ==
  ASSUME NEW st, NEW st2, Extends(st, st2), NEW s, NEW v, SpendBacked(st, s, v)
  PROVE  SpendBacked(st2, s, v)
<1>1. v.decision = "approved" =>
        /\ In(st2, "value-spend-decision", v.decision_id)
        /\ ApprovalOfSpend(st2[SpendDecision(v.decision_id)], s, v)
  <2>1. SUFFICES ASSUME v.decision = "approved"
                 PROVE  /\ In(st2, "value-spend-decision", v.decision_id)
                        /\ ApprovalOfSpend(st2[SpendDecision(v.decision_id)], s, v)
    OBVIOUS
  <2>2. /\ In(st, "value-spend-decision", v.decision_id)
        /\ ApprovalOfSpend(st[SpendDecision(v.decision_id)], s, v)
    BY <2>1 DEF SpendBacked
  <2>3. SpendDecision(v.decision_id) \in Keys /\ Lasting(SpendDecision(v.decision_id))
    BY <2>2, KeyOf, KindOf DEF In, Lasting
  <2>4. st[SpendDecision(v.decision_id)] # Absent
    BY <2>2 DEF In, SpendDecision
  <2>5. Agrees(st2, SpendDecision(v.decision_id), st[SpendDecision(v.decision_id)])
    BY <2>3, <2>4 DEF Extends
  <2>6. QED
    BY <2>2, <2>5, KindOf DEF In, Agrees, Same, ApprovalOfSpend, SpendDecision
<1>2. v.balance_moved =>
        /\ v.spend_balance_id \in Pool["value-spend-balance"]
        /\ Unnamed =>
             /\ st2[SpendBalance(v.spend_balance_id)] # Absent
             /\ st2[SpendBalance(v.spend_balance_id)].spend = s
             /\ st2[SpendBalance(v.spend_balance_id)].amount_cents = v.amount_cents
  <2>1. SUFFICES ASSUME v.balance_moved, Unnamed
                 PROVE  /\ st2[SpendBalance(v.spend_balance_id)] # Absent
                        /\ st2[SpendBalance(v.spend_balance_id)].spend = s
                        /\ st2[SpendBalance(v.spend_balance_id)].amount_cents
                             = v.amount_cents
    BY DEF SpendBacked
  <2>2. /\ v.spend_balance_id \in Pool["value-spend-balance"]
        /\ st[SpendBalance(v.spend_balance_id)] # Absent
        /\ st[SpendBalance(v.spend_balance_id)].spend = s
        /\ st[SpendBalance(v.spend_balance_id)].amount_cents = v.amount_cents
    BY <2>1 DEF SpendBacked
  <2>3. SpendBalance(v.spend_balance_id) \in Keys /\ Lasting(SpendBalance(v.spend_balance_id))
    BY <2>1, <2>2, KeyOf, KindOf DEF Lasting
  <2>4. Agrees(st2, SpendBalance(v.spend_balance_id), st[SpendBalance(v.spend_balance_id)])
    BY <2>2, <2>3 DEF Extends
  <2>5. QED
    BY <2>2, <2>4, KindOf DEF Agrees, Same
<1>3. QED
  BY <1>1, <1>2 DEF SpendBacked

(* a debit the approval it was made under,                               *)
LEMMA DebitStaysBacked ==
  ASSUME NEW st, NEW st2, Extends(st, st2), NEW c, BalanceDebited(st, c)
  PROVE  BalanceDebited(st2, c)
<1>1. PICK d \in Pool["value-spend-decision"] :
        /\ st[SpendDecision(d)] # Absent
        /\ ApprovalOfSpend(st[SpendDecision(d)], c.spend, c)
  BY DEF BalanceDebited
<1>2. SpendDecision(d) \in Keys /\ Lasting(SpendDecision(d))
  BY KeyOf, KindOf DEF Lasting
<1>3. Agrees(st2, SpendDecision(d), st[SpendDecision(d)])
  BY <1>1, <1>2 DEF Extends
<1>4. QED
  BY <1>1, <1>3, KindOf DEF BalanceDebited, Agrees, Same, ApprovalOfSpend

(* a refund the debit it gives back,                                     *)
LEMMA RefundStaysBacked ==
  ASSUME NEW st, NEW st2, Extends(st, st2), NEW f \in RefundRecord,
         RefundBacked(st, f)
  PROVE  RefundBacked(st2, f)
<1>1. SUFFICES ASSUME Unnamed
               PROVE  /\ st2[SpendBalance(f.spend_balance_id)] # Absent
                      /\ st2[SpendBalance(f.spend_balance_id)].spend = f.spend
                      /\ f.amount_cents <= st2[SpendBalance(f.spend_balance_id)].amount_cents
  BY DEF RefundBacked
<1>2. /\ st[SpendBalance(f.spend_balance_id)] # Absent
      /\ st[SpendBalance(f.spend_balance_id)].spend = f.spend
      /\ f.amount_cents <= st[SpendBalance(f.spend_balance_id)].amount_cents
  BY <1>1 DEF RefundBacked
<1>3. f.spend_balance_id \in Pool["value-spend-balance"]
  BY DEF RefundRecord
<1>4. SpendBalance(f.spend_balance_id) \in Keys /\ Lasting(SpendBalance(f.spend_balance_id))
  BY <1>1, <1>3, KeyOf, KindOf DEF Lasting
<1>5. Agrees(st2, SpendBalance(f.spend_balance_id), st[SpendBalance(f.spend_balance_id)])
  BY <1>2, <1>4 DEF Extends
<1>6. QED
  BY <1>2, <1>5, KindOf DEF Agrees, Same

(* and a spend decision the limit check it names.                        *)
LEMMA CheckStaysPassed ==
  ASSUME NEW st, NEW st2, Extends(st, st2), NEW d \in SpendDecisionRecord,
         CheckPassed(st, d)
  PROVE  CheckPassed(st2, d)
<1>1. SUFFICES ASSUME d.decision = "approved", d.limit_check_id # None
               PROVE  /\ st2[LimitCheck(d.limit_check_id)] # Absent
                      /\ st2[LimitCheck(d.limit_check_id)].allowed
                      /\ st2[LimitCheck(d.limit_check_id)].surface = d.surface
                      /\ st2[LimitCheck(d.limit_check_id)].identity_id = d.identity_id
  BY DEF CheckPassed
<1>2. /\ st[LimitCheck(d.limit_check_id)] # Absent
      /\ st[LimitCheck(d.limit_check_id)].allowed
      /\ st[LimitCheck(d.limit_check_id)].surface = d.surface
      /\ st[LimitCheck(d.limit_check_id)].identity_id = d.identity_id
  BY <1>1 DEF CheckPassed
<1>3. d.limit_check_id \in Pool["value-limit-check"]
  BY <1>1 DEF SpendDecisionRecord, Nothing
<1>4. LimitCheck(d.limit_check_id) \in Keys /\ Lasting(LimitCheck(d.limit_check_id))
  BY <1>3, KeyOf, KindOf DEF Lasting
<1>5. Agrees(st2, LimitCheck(d.limit_check_id), st[LimitCheck(d.limit_check_id)])
  BY <1>2, <1>4 DEF Extends
<1>6. QED
  BY <1>2, <1>5, KindOf DEF Agrees, Same

(* A record that is fine in a store is fine in one that extends it.        *)
LEMMA FineLonger ==
  ASSUME NEW b, NEW st, NEW st2, Extends(st, st2), NEW key, NEW v,
         Fine(b, st, key, v)
  PROVE  Fine(b, st2, key, v)
<1>1. Shaped(b, key, v) /\ Genuine(st, key, v)
  BY DEF Fine
<1>2. key[1] = "value-topup" => TopupBacked(st2, key[2], v)
  BY <1>1, TopupStaysBacked DEF Genuine
<1>3. key[1] = "value-balance" => BalanceBacked(st2, v)
  BY <1>1, MoveStaysBacked DEF Genuine
<1>4. key[1] = "value-spend" => SpendBacked(st2, key[2], v)
  BY <1>1, SpendStaysBacked DEF Genuine
<1>5. key[1] = "value-spend-decision" => CheckPassed(st2, v)
  BY <1>1, CheckStaysPassed DEF Genuine, Shaped
<1>6. key[1] = "value-spend-balance" => BalanceDebited(st2, v)
  BY <1>1, DebitStaysBacked DEF Genuine
<1>7. key[1] = "value-refund" => RefundBacked(st2, v)
  BY <1>1, RefundStaysBacked DEF Genuine, Shaped
<1>8. QED
  BY <1>1, <1>2, <1>3, <1>4, <1>5, <1>6, <1>7 DEF Genuine, Fine

(* A copy that was read stays as good while the store only grows.        *)
LEMMA CopiedLonger ==
  ASSUME NEW b, NEW st, NEW st2, Extends(st, st2), NEW key \in Keys, NEW v,
         Copied(b, st, key, v)
  PROVE  Copied(b, st2, key, v)
BY FineLonger, AgreesLonger DEF Copied

(* A copy just read is a good one.                                         *)
LEMMA ReadIsCopied ==
  ASSUME NEW b, NEW st, StoreFits(b, st), NEW key \in Keys, st[key] # Absent
  PROVE  Copied(b, st, key, st[key])
BY DEF StoreFits, Copied, Agrees, Same

-----------------------------------------------------------------------------
(* Puts.                                                                   *)

(* Putting a record that is new, or that agrees with the stored one, leaves
   what lasts.                                                             *)
LEMMA WithExtends ==
  ASSUME NEW b, NEW st, StoreFits(b, st), NEW p, p.key \in Keys,
         Shaped(b, p.key, p.value),
         Lasting(p.key) => st[p.key] = Absent \/ Agrees(st, p.key, p.value)
  PROVE  Extends(st, With(st, p))
<1>1. SUFFICES ASSUME NEW key \in Keys, Lasting(key), st[key] # Absent
               PROVE  Agrees(With(st, p), key, st[key])
  BY DEF Extends
<1>2. CASE key = p.key
  <2>1. With(st, p)[key] = p.value
    BY <1>2 DEF With, StoreFits
  <2>2. p.value # Absent
    BY <1>1, <1>2, LastingIsStored
  <2>3. Agrees(st, key, p.value)
    BY <1>1, <1>2
  <2>4. QED
    BY <2>1, <2>2, <2>3 DEF Agrees, Same
<1>3. CASE key # p.key
  BY <1>1, <1>3 DEF With, StoreFits, Agrees, Same
<1>4. QED
  BY <1>2, <1>3

(* The same put extends an extension.                                      *)
LEMMA WithLonger ==
  ASSUME NEW st, NEW st2, DOMAIN st = Keys, DOMAIN st2 = Keys, Extends(st, st2),
         NEW p
  PROVE  Extends(With(st, p), With(st2, p))
<1>1. SUFFICES ASSUME NEW key \in Keys, Lasting(key), With(st, p)[key] # Absent
               PROVE  Agrees(With(st2, p), key, With(st, p)[key])
  BY DEF Extends
<1>2. CASE key = p.key
  BY <1>1, <1>2 DEF With, Agrees, Same
<1>3. CASE key # p.key
  <2>1. With(st, p)[key] = st[key] /\ With(st2, p)[key] = st2[key]
    BY <1>3 DEF With
  <2>2. Agrees(st2, key, st[key])
    BY <1>1, <2>1 DEF Extends
  <2>3. QED
    BY <2>1, <2>2 DEF Agrees
<1>4. QED
  BY <1>2, <1>3

(* What a request has read and will put fits a store that extends this one,
   as long as the record it is still to make is not there.                 *)
LEMMA SeenFitsLonger ==
  ASSUME NEW b, NEW st, NEW st2, Extends(st, st2), NEW input \in Inputs, NEW seen,
         SeenFits(b, st, input, seen)
  PROVE  SeenFits(b, st2, input, seen)
<1> USE KeyOf, CopiedLonger
<1>1. input.op = "topup-decision" => SeenByTopupDecision(b, st2, input, seen)
  <2>1. input.op = "topup-decision" => Topup(input.topup) \in Keys
    BY DEF Inputs
  <2>2. QED
    BY <2>1 DEF SeenFits, SeenByTopupDecision
<1>2. input.op = "balance" => SeenByBalance(b, st2, input, seen)
  <2>1. SUFFICES ASSUME input.op = "balance"
                 PROVE  SeenByBalance(b, st2, input, seen)
    OBVIOUS
  <2>2. /\ input.topup \in Pool["value-topup"]
        /\ input.decision_id \in Nothing(Pool["value-topup-decision"])
    BY <2>1 DEF Inputs
  <2>3. SeenByBalance(b, st, input, seen)
    BY <2>1 DEF SeenFits
  <2>4. Len(seen) >= 1 => seen[1] \in TopupRecord
    BY <2>3, KindOf DEF SeenByBalance, Copied, Fine, Shaped
  <2>5. Len(seen) >= 1 => CitedTopupDecision(input, seen[1]) \in Pool["value-topup-decision"]
    BY <2>2, <2>3, <2>4 DEF SeenByBalance, CitedTopupDecision, TopupRecord, Nothing
  <2>6. Len(seen) >= 1 => Surface(seen[1].from) \in Keys
    BY <2>4 DEF TopupRecord
  <2>7. Len(seen) >= 1 => Copied(b, st2, Topup(input.topup), seen[1])
    BY <2>2, <2>3 DEF SeenByBalance
  <2>8. Len(seen) >= 2 =>
          Copied(b, st2, TopupDecision(CitedTopupDecision(input, seen[1])), seen[2])
    <3>1. Len(seen) >= 2 => Len(seen) >= 1
      BY <2>3 DEF SeenByBalance
    <3>2. QED
      BY <2>3, <2>5, <3>1 DEF SeenByBalance
  <2>9. Len(seen) = 3 /\ seen[3] # Absent => Copied(b, st2, Surface(seen[1].from), seen[3])
    BY <2>3, <2>6 DEF SeenByBalance
  <2>10. QED
    BY <2>3, <2>7, <2>8, <2>9 DEF SeenByBalance
<1>3. input.op = "spend-decision" => SeenBySpendDecision(b, st2, input, seen)
  <2>1. input.op = "spend-decision" => Spend(input.spend) \in Keys
    BY DEF Inputs
  <2>2. QED
    BY <2>1 DEF SeenFits, SeenBySpendDecision
<1>4. input.op = "spend-balance" => SeenBySpendBalance(b, st2, input, seen)
  <2>1. SUFFICES ASSUME input.op = "spend-balance"
                 PROVE  SeenBySpendBalance(b, st2, input, seen)
    OBVIOUS
  <2>2. /\ input.spend \in Pool["value-spend"]
        /\ input.decision_id \in Nothing(Pool["value-spend-decision"])
    BY <2>1 DEF Inputs
  <2>3. SeenBySpendBalance(b, st, input, seen)
    BY <2>1 DEF SeenFits
  <2>4. Len(seen) >= 1 => IsSpend(seen[1])
    BY <2>3, KindOf DEF SeenBySpendBalance, Copied, Fine, Shaped
  <2>5. Len(seen) >= 1 => CitedSpendDecision(input, seen[1]) \in Pool["value-spend-decision"]
    BY <2>2, <2>3, <2>4 DEF SeenBySpendBalance, CitedSpendDecision, IsSpend, SpendRecord, Nothing
  <2>6. Len(seen) >= 1 => Copied(b, st2, Spend(input.spend), seen[1])
    BY <2>2, <2>3 DEF SeenBySpendBalance
  <2>7. Len(seen) = 2 =>
          Copied(b, st2, SpendDecision(CitedSpendDecision(input, seen[1])), seen[2])
    BY <2>3, <2>5 DEF SeenBySpendBalance
  <2>8. QED
    BY <2>3, <2>6, <2>7 DEF SeenBySpendBalance
<1>5. input.op = "refund-decision" => SeenByRefundDecision(b, st2, input, seen)
  <2>1. input.op = "refund-decision" => Refund(input.refund) \in Keys
    BY DEF Inputs
  <2>2. QED
    BY <2>1 DEF SeenFits, SeenByRefundDecision
<1>6. QED
  BY <1>1, <1>2, <1>3, <1>4, <1>5 DEF SeenFits

(* What a request will put stays backed while the store only grows,      *)
LEMMA PutFitsLonger ==
  ASSUME NEW b, NEW st, NEW st2, DOMAIN st = Keys, DOMAIN st2 = Keys,
         Extends(st, st2), NEW input, NEW puts, NEW n, PutFits(b, st, input, puts, n)
  PROVE  PutFits(b, st2, input, puts, n)
<1>1. Fine(b, With(st2, puts[1]), puts[n].key, puts[n].value)
  BY WithLonger, FineLonger DEF PutFits
<1>2. Lasting(puts[n].key) =>
        \/ n = 1 /\ puts[1].key = NewKey(input)
        \/ puts[n].key # NewKey(input) /\ Agrees(st2, puts[n].key, puts[n].value)
  BY AgreesLonger DEF PutFits
<1>3. QED
  BY <1>1, <1>2 DEF PutFits

(* and so does all the request carries.                                  *)
LEMMA RequestFitsLonger ==
  ASSUME NEW b, NEW st, NEW st2, DOMAIN st = Keys, DOMAIN st2 = Keys,
         Extends(st, st2), NEW x, RequestFits(b, st, x),
         Awaits(x.input, x.puts) => st2[NewKey(x.input)] = Absent
  PROVE  RequestFits(b, st2, x)
BY SeenFitsLonger, PutFitsLonger DEF RequestFits

(* The rest of a sequence of at least two, place by place.               *)
LEMMA TailOf ==
  ASSUME NEW S, NEW s \in Seq(S), s # <<>>, Len(s) # 1
  PROVE  /\ Tail(s) \in Seq(S)
         /\ Len(Tail(s)) \in Nat /\ Len(Tail(s)) >= 1
         /\ DOMAIN Tail(s) = 1..Len(Tail(s))
         /\ \A n \in DOMAIN Tail(s) : n + 1 \in DOMAIN s /\ Tail(s)[n] = s[n + 1]
<1>1. Len(s) \in Nat \ {0} /\ DOMAIN s = 1..Len(s)
  BY EmptySeq, LenProperties
<1>2. /\ Tail(s) \in Seq(S)
      /\ Len(Tail(s)) = Len(s) - 1
      /\ \A n \in 1..Len(Tail(s)) : Tail(s)[n] = s[n + 1]
  BY HeadTailProperties
<1>3. DOMAIN Tail(s) = 1..Len(Tail(s))
  BY <1>2, LenProperties
<1>4. QED
  BY <1>1, <1>2, <1>3

(* What changing one field makes of a request in progress.                 *)
LEMMA RequestChanged ==
  ASSUME NEW x, x = [input |-> x.input, seen |-> x.seen, puts |-> x.puts],
         NEW s, NEW q
  PROVE  /\ [x EXCEPT !.seen = s] = [input |-> x.input, seen |-> s, puts |-> x.puts]
         /\ [x EXCEPT !.puts = q] = [input |-> x.input, seen |-> x.seen, puts |-> q]
         /\ [x EXCEPT !.seen = s, !.puts = q] = [input |-> x.input, seen |-> s, puts |-> q]
<1>1. PICK i, t, p : x = [input |-> i, seen |-> t, puts |-> p]
  OBVIOUS
<1>2. x.input = i /\ x.seen = t /\ x.puts = p
  BY <1>1
<1>3. [x EXCEPT !.seen = s] = [input |-> i, seen |-> s, puts |-> p]
  BY <1>1
<1>4. [x EXCEPT !.puts = q] = [input |-> i, seen |-> t, puts |-> q]
  BY <1>1
<1>5. PICK y : y = [x EXCEPT !.seen = s]
  OBVIOUS
<1>6. [x EXCEPT !.seen = s, !.puts = q] = [y EXCEPT !.puts = q]
  BY <1>1, <1>5
<1>7. y = [input |-> i, seen |-> s, puts |-> p]
  BY <1>3, <1>5
<1>8. [y EXCEPT !.puts = q] = [input |-> i, seen |-> s, puts |-> q]
  BY <1>7
<1>9. QED
  BY <1>2, <1>3, <1>4, <1>6, <1>8

(* Putting the first record of a request keeps the store in order.         *)
LEMMA StorePut ==
  ASSUME NEW b, NEW st, StoreFits(b, st), NEW x, RequestFits(b, st, x),
         x.puts # <<>>
  PROVE  /\ x.puts[1].key \in Keys
         /\ Shaped(b, x.puts[1].key, x.puts[1].value)
         /\ Declares(x.input) => x.puts[1].key[1] = "value-surface"
         /\ Lasting(x.puts[1].key) => \/ Awaits(x.input, x.puts)
                                      \/ Agrees(st, x.puts[1].key, x.puts[1].value)
         /\ Extends(st, With(st, x.puts[1]))
         /\ StoreFits(b, With(st, x.puts[1]))
<1> DEFINE p == x.puts[1]
           after == With(st, p)
<1>1. 1 \in DOMAIN x.puts
  BY DEF RequestFits, IsSeq
<1>2. PutFits(b, st, x.input, x.puts, 1)
  BY <1>1 DEF RequestFits
<1>3. /\ p.key \in Keys
      /\ Fine(b, after, p.key, p.value)
      /\ Declares(x.input) => p.key[1] = "value-surface"
  BY <1>2 DEF PutFits
<1>4. Lasting(p.key) => \/ Awaits(x.input, x.puts) /\ p.key = NewKey(x.input)
                        \/ Agrees(st, p.key, p.value)
  BY <1>2, <1>3 DEF PutFits, Awaits, Reserves
<1>5. Lasting(p.key) => st[p.key] = Absent \/ Agrees(st, p.key, p.value)
  BY <1>4 DEF RequestFits
<1>6. Shaped(b, p.key, p.value)
  BY <1>3 DEF Fine
<1>7. Extends(st, after)
  <2> HIDE DEF p
  <2>1. QED
    BY <1>3, <1>5, <1>6, WithExtends
<1>8. StoreFits(b, after)
  <2>1. DOMAIN after = Keys
    BY DEF With, StoreFits
  <2>2. ASSUME NEW key \in Keys, after[key] # Absent
        PROVE  Fine(b, after, key, after[key])
    <3>1. CASE key = p.key
      <4>1. after[key] = p.value
        BY <3>1, <1>3 DEF With, StoreFits
      <4>2. QED
        BY <3>1, <4>1, <1>3
    <3>2. CASE key # p.key
      <4>1. after[key] = st[key]
        BY <3>2 DEF With, StoreFits
      <4>2. Fine(b, st, key, st[key])
        BY <2>2, <4>1 DEF StoreFits
      <4>3. QED
        BY <4>1, <4>2, <1>7, FineLonger
    <3>3. QED
      BY <3>1, <3>2
  <2>3. QED
    BY <2>1, <2>2 DEF StoreFits
<1>9. QED
  BY <1>3, <1>4, <1>6, <1>7, <1>8

(* The request that put it has the rest of its puts in order.              *)
LEMMA RestFits ==
  ASSUME NEW b, NEW st, StoreFits(b, st), NEW x, RequestFits(b, st, x),
         x.puts # <<>>, Len(x.puts) # 1
  PROVE  RequestFits(b, With(st, x.puts[1]), [x EXCEPT !.puts = Tail(x.puts)])
<1> DEFINE p == x.puts[1]
           after == With(st, p)
           rest == Tail(x.puts)
           y == [x EXCEPT !.puts = rest]
<1>1. PICK S : x.puts \in Seq(S)
  BY DEF RequestFits, IsSeq
<1>2. /\ rest \in Seq(S)
      /\ Len(rest) \in Nat /\ Len(rest) >= 1
      /\ DOMAIN rest = 1..Len(rest)
      /\ \A n \in DOMAIN rest : n + 1 \in DOMAIN x.puts /\ rest[n] = x.puts[n + 1]
  BY <1>1, TailOf
<1>3. y = [input |-> x.input, seen |-> x.seen, puts |-> rest]
  BY RequestChanged DEF RequestFits
<1>4. y = [input |-> y.input, seen |-> y.seen, puts |-> y.puts]
      /\ y.input = x.input /\ y.seen = x.seen /\ y.puts = rest
  BY <1>3
<1>5. Extends(st, after) /\ StoreFits(b, after)
  BY StorePut
<1>6. SeenFits(b, after, x.input, x.seen)
  BY <1>5, SeenFitsLonger DEF RequestFits
<1>7. ASSUME NEW n \in DOMAIN rest
      PROVE  /\ rest[n].key \in Keys
             /\ Fine(b, after, rest[n].key, rest[n].value)
             /\ Declares(x.input) => rest[n].key[1] = "value-surface"
             /\ Lasting(rest[n].key) =>
                  /\ rest[n].key # NewKey(x.input)
                  /\ Agrees(after, rest[n].key, rest[n].value)
  <2>1. /\ n + 1 \in DOMAIN x.puts /\ rest[n] = x.puts[n + 1]
        /\ n + 1 # 1
    BY <1>1, <1>2
  <2>2. PutFits(b, st, x.input, x.puts, n + 1)
    BY <2>1 DEF RequestFits
  <2>3. /\ rest[n].key \in Keys
        /\ Fine(b, after, rest[n].key, rest[n].value)
        /\ Declares(x.input) => rest[n].key[1] = "value-surface"
        /\ Lasting(rest[n].key) =>
             /\ rest[n].key # NewKey(x.input)
             /\ Agrees(st, rest[n].key, rest[n].value)
    BY <2>1, <2>2 DEF PutFits
  <2>4. QED
    BY <2>3, <1>5, AgreesLonger
<1>8. 1 \in DOMAIN rest
  BY <1>2
<1>9. Extends(after, With(after, rest[1]))
  BY <1>5, <1>7, <1>8, WithExtends DEF Fine
<1>10. ASSUME NEW n \in DOMAIN rest PROVE PutFits(b, after, x.input, rest, n)
  BY <1>7, <1>9, FineLonger DEF PutFits
<1>11. ~Awaits(x.input, rest)
  <2>1. rest # <<>>
    BY <1>8
  <2>2. Reserves(x.input) => rest[1].key # NewKey(x.input)
    BY <1>7, <1>8 DEF Reserves
  <2>3. QED
    BY <2>1, <2>2 DEF Awaits
<1>12. x.input \in Inputs /\ IsSeq(x.seen) /\ IsSeq(rest)
  BY <1>2 DEF RequestFits, IsSeq
<1>13. QED
  <2> HIDE DEF after, rest, y
  <2>1. RequestFits(b, after, y)
    BY <1>4, <1>6, <1>10, <1>11, <1>12 DEF RequestFits
  <2>2. QED
    BY <2>1 DEF after, rest, y

-----------------------------------------------------------------------------
(* What a step of one request leaves of the others.                        *)

(* Whatever its scene, the bounds of a behaviour are as assumed.           *)
LEMMA BoundsFit ==
  ASSUME IInv
  PROVE  /\ bounds.crashes \in Nat
         /\ \A kind \in Kinds : bounds.pool[kind] \subseteq Pool[kind]
         /\ bounds.registrations \subseteq [kind : STRING, role : STRING]
BY StoreAssumption, CirculationAssumption DEF IInv, bounds

(* A request that goes on with what fits, or ends.                         *)
LEMMA Goes ==
  ASSUME IInv, NEW r \in Requests, Busy(r), NEW x,
         x # Idle => RequestFits(bounds, kv, x) /\ x.input = request[r].input,
         request' = [request EXCEPT ![r] = x],
         kv' = kv, scene' = scene, declared' = declared,
         crashes' \in 0..bounds.crashes
  PROVE  IInv'
<1>1. bounds' = bounds
  BY DEF bounds
<1>2. \A q \in Requests : request'[q] = IF q = r THEN x ELSE request[q]
  BY DEF IInv
<1>3. DOMAIN request' = Requests
  BY DEF IInv
<1>4. RequestsFit'
  BY <1>1, <1>2 DEF IInv, RequestsFit, Busy
<1>5. RequestsApart'
  <2>1. ASSUME NEW q \in Requests, Busy(q)'
        PROVE  Busy(q) /\ request'[q].input = request[q].input
    BY <2>1, <1>2 DEF Busy
  <2>2. QED
    BY <2>1 DEF IInv, RequestsApart
<1>6. QED
  BY <1>1, <1>3, <1>4, <1>5 DEF IInv

(* A request that is cut off.                                              *)
LEMMA CrashKeeps ==
  ASSUME IInv, NEW r \in Requests, Crash(r)
  PROVE  IInv'
<1>1. crashes' \in 0..bounds.crashes
  BY BoundsFit DEF IInv, Crash
<1>2. QED
  BY <1>1, Goes DEF Crash

(* Nothing has been read yet.                                              *)
LEMMA NothingSeen ==
  ASSUME NEW b, NEW st, NEW input
  PROVE  SeenFits(b, st, input, <<>>)
BY DEF SeenFits, SeenByTopupDecision, SeenByBalance, SeenBySpendDecision,
       SeenBySpendBalance, SeenByRefundDecision

(* An identifier nothing uses makes a key nobody is about to put.          *)
LEMMA Fresh ==
  ASSUME IInv, NEW kind \in Kinds, NEW id \in Pool[kind], Unused(kind, id)
  PROVE  /\ kv[<<kind, id>>] = Absent
         /\ \A q \in Requests : Busy(q) => NewKey(request[q].input) # <<kind, id>>
<1>1. kv[<<kind, id>>] = Absent
  BY DEF Unused, Holds
<1>2. ASSUME NEW q \in Requests, Busy(q)
      PROVE  NewKey(request[q].input) # <<kind, id>>
  <2>1. PICK i : i = request[q].input
    OBVIOUS
  <2>2. i.new # id
    BY <1>2, <2>1 DEF Unused
  <2>3. \/ NewKey(i) \in {TopupDecision(i.new), LimitCheck(i.new),
                          SpendDecision(i.new), SpendBalance(i.new)}
        \/ NewKey(i) = None
    BY DEF NewKey
  <2>4. <<kind, id>> \in Keys
    BY KeysOf
  <2>5. NewKey(i) # <<kind, id>>
    BY <2>2, <2>3, <2>4, CirculationAssumption
    DEF TopupDecision, LimitCheck, SpendDecision, SpendBalance
  <2>6. QED
    BY <2>1, <2>5
<1>3. QED
  BY <1>1, <1>2

(* A request that comes in, when what it is to make is not there.          *)
LEMMA Comes ==
  ASSUME IInv, NEW r \in Requests, NEW input \in Inputs, NEW puts,
         Receive(r, input, puts), IsSeq(puts),
         \A n \in DOMAIN puts : PutFits(bounds, kv, input, puts, n),
         Reserves(input) =>
           /\ kv[NewKey(input)] = Absent
           /\ \A q \in Requests : Busy(q) => NewKey(request[q].input) # NewKey(input)
  PROVE  IInv'
<1> DEFINE x == [input |-> input, seen |-> <<>>, puts |-> puts]
<1>1. request' = [request EXCEPT ![r] = x]
      /\ kv' = kv /\ scene' = scene /\ declared' = declared /\ crashes' = crashes
      /\ ~Busy(r)
  BY DEF Receive
<1>2. bounds' = bounds
  BY <1>1 DEF bounds
<1>3. \A q \in Requests : request'[q] = IF q = r THEN x ELSE request[q]
  BY <1>1 DEF IInv
<1>4. DOMAIN request' = Requests
  BY <1>1 DEF IInv
<1>5. RequestFits(bounds, kv, x)
  <2>1. x.input = input /\ x.seen = <<>> /\ x.puts = puts
    OBVIOUS
  <2>2. IsSeq(<<>>)
    BY EmptySeq DEF IsSeq
  <2>3. x = [input |-> x.input, seen |-> x.seen, puts |-> x.puts]
    OBVIOUS
  <2> HIDE DEF x
  <2>4. QED
    BY <2>1, <2>2, <2>3, NothingSeen DEF RequestFits, Awaits
<1>6. x.input = input
  OBVIOUS
<1> HIDE DEF x
<1>7. RequestsFit'
  BY <1>1, <1>2, <1>3, <1>5 DEF IInv, RequestsFit, Busy
<1>8. RequestsApart'
  <2>1. ASSUME NEW q \in Requests, Busy(q)', q # r
        PROVE  Busy(q) /\ request'[q] = request[q]
    BY <2>1, <1>3 DEF Busy
  <2>2. request'[r].input = input
    BY <1>3, <1>6
  <2>3. ASSUME NEW q \in Requests, Busy(q)', q # r
        PROVE  Apart(input, request'[q].input) /\ Apart(request'[q].input, input)
    <3>1. PICK i : i = request[q].input
      OBVIOUS
    <3>2. Reserves(input) => NewKey(i) # NewKey(input)
      BY <2>1, <2>3, <3>1
    <3>3. Apart(input, i) /\ Apart(i, input)
      BY <3>2 DEF Apart, Reserves
    <3>4. QED
      BY <2>1, <2>3, <3>1, <3>3
  <2>4. ASSUME NEW p \in Requests, NEW q \in Requests, p # q, Busy(p)', Busy(q)'
        PROVE  Apart(request'[p].input, request'[q].input)
    <3>1. CASE p = r
      BY <3>1, <2>2, <2>3, <2>4
    <3>2. CASE q = r
      BY <3>2, <2>2, <2>3, <2>4
    <3>3. CASE p # r /\ q # r
      BY <3>3, <2>1, <2>4 DEF IInv, RequestsApart
    <3>4. QED
      BY <3>1, <3>2, <3>3
  <2>5. QED
    BY <2>4 DEF RequestsApart
<1>9. QED
  BY <1>1, <1>2, <1>4, <1>7, <1>8 DEF IInv

(* A request that puts its next record.                                    *)
LEMMA PutKeeps ==
  ASSUME IInv, NEW r \in Requests, Put(r)
  PROVE  IInv'
<1>1. PICK b, st, x : b = bounds /\ st = kv /\ x = request[r]
  OBVIOUS
<1>2. /\ StoreFits(b, st) /\ RequestFits(b, st, x)
      /\ x.puts # <<>>
  BY <1>1 DEF IInv, RequestsFit, Put
<1>3. PICK p : p = x.puts[1]
  OBVIOUS
<1>4. p = Head(x.puts)
  <2>1. PICK S : x.puts \in Seq(S)
    BY <1>2 DEF RequestFits, IsSeq
  <2>2. QED
    BY <1>3
<1>5. /\ p.key \in Keys
      /\ Shaped(b, p.key, p.value)
      /\ Declares(x.input) => p.key[1] = "value-surface"
      /\ Lasting(p.key) => Awaits(x.input, x.puts) \/ Agrees(st, p.key, p.value)
      /\ Extends(st, With(st, p))
      /\ StoreFits(b, With(st, p))
  BY <1>2, <1>3, StorePut
<1>6. kv' = With(st, p) /\ crashes' = crashes /\ scene' = scene
  BY <1>1, <1>4 DEF Put, PutRecord, With
<1>7. bounds' = b
  BY <1>1, <1>6 DEF bounds
<1>8. PICK y : y = IF Len(x.puts) = 1 THEN Idle ELSE [x EXCEPT !.puts = Tail(x.puts)]
  OBVIOUS
<1>9. request' = [request EXCEPT ![r] = y]
  <2>1. request' = [request EXCEPT ![r] =
                      IF Len(request[r].puts) = 1 THEN Idle
                      ELSE [request[r] EXCEPT !.puts = Tail(request[r].puts)]]
    BY DEF Put
  <2>2. QED
    BY <2>1, <1>1, <1>8
<1>10. \A q \in Requests : request'[q] = IF q = r THEN y ELSE request[q]
  BY <1>9 DEF IInv
<1>11. DOMAIN request' = Requests
  BY <1>9 DEF IInv
<1>12. y # Idle => RequestFits(b, With(st, p), y) /\ y.input = x.input
  <2>1. SUFFICES ASSUME y # Idle
                 PROVE  RequestFits(b, With(st, p), y) /\ y.input = x.input
    OBVIOUS
  <2>2. Len(x.puts) # 1 /\ y = [x EXCEPT !.puts = Tail(x.puts)]
    BY <2>1, <1>8
  <2>3. y = [input |-> x.input, seen |-> x.seen, puts |-> Tail(x.puts)]
    BY <1>2, <2>2, RequestChanged DEF RequestFits
  <2>4. RequestFits(b, With(st, p), y)
    BY <1>2, <1>3, <2>2, RestFits
  <2>5. QED
    BY <2>3, <2>4
<1>13. ASSUME NEW q \in Requests, q # r, Busy(q)
       PROVE  RequestFits(b, With(st, p), request[q])
  <2>1. PICK z : z = request[q]
    OBVIOUS
  <2>2. RequestFits(b, st, z)
    BY <1>1, <1>13, <2>1 DEF IInv, RequestsFit
  <2>3. Apart(x.input, z.input) /\ Apart(z.input, x.input)
    <3>1. Busy(r)
      BY DEF Put
    <3>2. QED
      BY <1>1, <1>13, <2>1, <3>1 DEF IInv, RequestsApart
  <2>4. ASSUME Awaits(z.input, z.puts)
        PROVE  With(st, p)[NewKey(z.input)] = Absent
    <3>1. st[NewKey(z.input)] = Absent /\ NewKey(z.input) \in Keys
          /\ Lasting(NewKey(z.input)) /\ Reserves(z.input)
      BY <2>2, <2>4 DEF RequestFits, Awaits, Reserves
    <3>2. p.key # NewKey(z.input)
      <4>1. SUFFICES ASSUME p.key = NewKey(z.input) PROVE FALSE
        OBVIOUS
      <4>2. CASE Awaits(x.input, x.puts)
        <5>1. p.key = NewKey(x.input)
          BY <4>2, <1>2, <1>3 DEF Awaits
        <5>2. QED
          BY <5>1, <4>1, <3>1, <2>3 DEF Apart
      <4>3. CASE Agrees(st, p.key, p.value)
        BY <4>1, <4>3, <3>1 DEF Agrees
      <4>4. QED
        BY <1>5, <3>1, <4>1, <4>2, <4>3
    <3>3. QED
      BY <3>1, <3>2, <1>2 DEF With, StoreFits
  <2>5. DOMAIN st = Keys /\ DOMAIN With(st, p) = Keys
    BY <1>2, <1>5 DEF StoreFits
  <2>6. RequestFits(b, With(st, p), z)
    BY <1>5, <2>2, <2>4, <2>5, RequestFitsLonger
  <2>7. QED
    BY <2>1, <2>6
<1>14. RequestsFit'
  BY <1>6, <1>7, <1>10, <1>12, <1>13 DEF RequestsFit, Busy
<1>15. RequestsApart'
  <2>1. ASSUME NEW q \in Requests, Busy(q)'
        PROVE  Busy(q) /\ request'[q].input = request[q].input
    BY <2>1, <1>1, <1>10, <1>12 DEF Busy, Put
  <2>2. QED
    BY <2>1 DEF IInv, RequestsApart
<1>16. declared' \in Int
  <2>1. CASE Declares(x.input)
    <3>1. p.value.balance_cents \in Int /\ p.key[1] = "value-surface"
      BY <2>1, <1>5 DEF Shaped, SurfaceRecord
    <3>2. st[p.key] # Absent => st[p.key].balance_cents \in Int
      BY <1>2, <1>5, <3>1 DEF StoreFits, Fine, Shaped, SurfaceRecord
    <3>3. BalanceAt(p.key) \in Int
      BY <1>1, <3>2 DEF BalanceAt
    <3>4. declared' = declared + (p.value.balance_cents - BalanceAt(p.key))
      BY <2>1, <1>1, <1>4 DEF Put
    <3>5. QED
      BY <3>1, <3>3, <3>4 DEF IInv
  <2>2. CASE ~Declares(x.input)
    BY <2>2, <1>1 DEF Put, IInv
  <2>3. QED
    BY <2>1, <2>2
<1>17. QED
  BY <1>1, <1>5, <1>6, <1>7, <1>11, <1>14, <1>15, <1>16 DEF IInv

-----------------------------------------------------------------------------
(* What a step of a worker makes of its request.                           *)

(* A request that has read one more record.                                *)
LEMMA Reads ==
  ASSUME NEW b, NEW st, NEW x, RequestFits(b, st, x), NEW seen, IsSeq(seen),
         SeenFits(b, st, x.input, seen),
         NEW y, y = [input |-> x.input, seen |-> seen, puts |-> x.puts]
  PROVE  RequestFits(b, st, y) /\ y.input = x.input
<1>1. y.input = x.input /\ y.seen = seen /\ y.puts = x.puts
  OBVIOUS
<1>2. y = [input |-> y.input, seen |-> y.seen, puts |-> y.puts]
  BY <1>1
<1>3. RequestFits(b, st, y)
  BY <1>1, <1>2 DEF RequestFits
<1>4. QED
  BY <1>1, <1>3

(* A request that has read everything and begins to put.                   *)
LEMMA Answers ==
  ASSUME NEW b, NEW st, NEW x, RequestFits(b, st, x), x.puts = <<>>, NEW puts,
         IsSeq(puts), \A n \in DOMAIN puts : PutFits(b, st, x.input, puts, n),
         NEW y, y = [input |-> x.input, seen |-> <<>>, puts |-> puts]
  PROVE  RequestFits(b, st, y) /\ y.input = x.input
<1>1. y.input = x.input /\ y.seen = <<>> /\ y.puts = puts
  OBVIOUS
<1>2. y = [input |-> y.input, seen |-> y.seen, puts |-> y.puts]
  BY <1>1
<1>3. IsSeq(<<>>)
  BY EmptySeq DEF IsSeq
<1>4. RequestFits(b, st, y)
  BY <1>1, <1>2, <1>3, NothingSeen DEF RequestFits, Awaits
<1>5. QED
  BY <1>1, <1>4

(* One more element.                                                       *)
LEMMA AppendIsSeq ==
  ASSUME NEW s, IsSeq(s), NEW e
  PROVE  /\ IsSeq(Append(s, e))
         /\ Len(s) \in Nat
         /\ Len(Append(s, e)) = Len(s) + 1
         /\ \A i \in 1..Len(s) : Append(s, e)[i] = s[i]
         /\ Append(s, e)[Len(s) + 1] = e
<1>1. PICK S : s \in Seq(S)
  BY DEF IsSeq
<1>2. PICK T : T = S \union {e}
  OBVIOUS
<1>3. s \in Seq(T)
  BY <1>1, <1>2
<1>4. e \in T
  BY <1>2
<1>5. Append(s, e) \in Seq(T)
  BY <1>3, <1>4
<1>6. QED
  BY <1>3, <1>4, <1>5 DEF IsSeq

(* A put of a key and a value.                                             *)
LEMMA WritesOf ==
  ASSUME NEW key, NEW v
  PROVE  Writes(key, v).key = key /\ Writes(key, v).value = v
BY DEF Writes

(* A single put.                                                           *)
LEMMA OnePut ==
  ASSUME NEW b, NEW st, NEW input, NEW key \in Keys, NEW v,
         Fine(b, With(st, Writes(key, v)), key, v),
         Declares(input) => key[1] = "value-surface",
         Lasting(key) => key = NewKey(input)
  PROVE  /\ IsSeq(<<Writes(key, v)>>)
         /\ \A n \in DOMAIN <<Writes(key, v)>> :
              PutFits(b, st, input, <<Writes(key, v)>>, n)
<1>1. PICK p : p = Writes(key, v)
  OBVIOUS
<1>2. p.key = key /\ p.value = v
  BY <1>1, WritesOf
<1>3. <<p>> \in Seq({p})
  OBVIOUS
<1>4. PutFits(b, st, input, <<p>>, 1)
  BY <1>1, <1>2 DEF PutFits
<1>5. IsSeq(<<p>>)
  BY <1>3 DEF IsSeq
<1>6. DOMAIN <<p>> = {1}
  OBVIOUS
<1>7. QED
  BY <1>1, <1>4, <1>5, <1>6

-----------------------------------------------------------------------------
(* Surfaces.                                                               *)

(* A surface that keeps its kind and role, and owes nothing.               *)
LEMMA SurfaceFine ==
  ASSUME NEW b, NEW st, NEW s, NEW v, v \in SurfaceRecord,
         [kind |-> v.kind, role |-> v.role] \in b.registrations,
         Solvent => v.balance_cents >= 0
  PROVE  Fine(b, st, Surface(s), v)
BY KindOf DEF Fine, Shaped, Genuine

(* The put of a surface.                                                   *)
LEMMA SurfacePut ==
  ASSUME NEW b, NEW st, NEW input, NEW s \in SurfaceIds, NEW v,
         Fine(b, st, Surface(s), v)
  PROVE  /\ IsSeq(<<Writes(Surface(s), v)>>)
         /\ \A n \in DOMAIN <<Writes(Surface(s), v)>> :
              PutFits(b, st, input, <<Writes(Surface(s), v)>>, n)
<1>1. Surface(s) \in Keys /\ ~Lasting(Surface(s)) /\ Surface(s)[1] = "value-surface"
  BY KeyOf, KindOf DEF Lasting
<1>2. Fine(b, With(st, Writes(Surface(s), v)), Surface(s), v)
  BY KindOf DEF Fine, Shaped, Genuine
<1>3. QED
  BY <1>1, <1>2, OnePut

(* A registered surface: one put, whoever holds the name already.        *)
LEMMA RegisterKeeps ==
  ASSUME IInv, NEW r \in Requests, ReceiveRegister(r)
  PROVE  IInv'
<1>1. PICK by \in Identities, s \in NewIds("value-surface"),
           g \in bounds.registrations, status \in Statuses, c \in Currencies,
           d \in Declarations :
        Receive(r, [op |-> "register", identity_id |-> by, new |-> s],
          <<Writes(Surface(s),
              [identity_id |-> by, kind |-> g.kind, role |-> g.role,
               status |-> status, currency |-> c, balance_cents |-> d,
               limits |-> <<>>])>>)
  BY DEF ReceiveRegister
<1>2. s \in SurfaceIds
  BY BoundsFit DEF NewIds, Minted, SurfaceIds, Kinds
<1>3. PICK v : v = [identity_id |-> by, kind |-> g.kind, role |-> g.role,
                    status |-> status, currency |-> c, balance_cents |-> d,
                    limits |-> <<>>]
  OBVIOUS
<1>4. Fine(bounds, kv, Surface(s), v)
  <2>1. d \in Int /\ (Solvent => d >= 0)
    BY CirculationAssumption DEF Solvent
  <2>2. v \in SurfaceRecord
    <3>1. <<>> \in LimitSets
      <4>1. <<>> \in [1..Len(<<>>) -> LimitAmounts]
        BY EmptySeq, LenProperties
      <4>2. Len(<<>>) = 0
        OBVIOUS
      <4>3. 1..0 = {} /\ {} \in SUBSET LimitNames
        OBVIOUS
      <4>4. <<>> \in [{} -> LimitAmounts]
        BY <4>1, <4>2, <4>3
      <4>5. QED
        BY <4>3, <4>4 DEF LimitSets
    <3>2. g.kind \in STRING /\ g.role \in STRING
      BY BoundsFit
    <3>3. QED
      BY <1>3, <2>1, <3>1, <3>2 DEF SurfaceRecord
  <2>3. [kind |-> v.kind, role |-> v.role] \in bounds.registrations
    BY <1>3, BoundsFit
  <2>4. v.balance_cents = d
    BY <1>3
  <2>5. QED
    BY <2>1, <2>2, <2>3, <2>4, SurfaceFine
<1>5. PICK input : input = [op |-> "register", identity_id |-> by, new |-> s]
  OBVIOUS
<1>6. input \in Inputs
  BY <1>2, <1>5 DEF Inputs
<1>7. ~Reserves(input)
  BY <1>5, CirculationAssumption DEF Reserves, NewKey
<1>8. PICK puts : puts = <<Writes(Surface(s), v)>>
  OBVIOUS
<1>9. IsSeq(puts) /\ \A n \in DOMAIN puts : PutFits(bounds, kv, input, puts, n)
  BY <1>2, <1>4, <1>8, SurfacePut
<1>10. Receive(r, input, puts)
  BY <1>1, <1>3, <1>5, <1>8
<1>11. QED
  BY <1>6, <1>7, <1>9, <1>10, Comes

(* A request that has only to read before it knows what to put.            *)
LEMMA ComesToRead ==
  ASSUME IInv, NEW r \in Requests, NEW input \in Inputs, Receive(r, input, <<>>),
         Reserves(input) =>
           /\ kv[NewKey(input)] = Absent
           /\ \A q \in Requests : Busy(q) => NewKey(request[q].input) # NewKey(input)
  PROVE  IInv'
<1>1. IsSeq(<<>>) /\ DOMAIN <<>> = {}
  BY EmptySeq DEF IsSeq
<1>2. QED
  BY <1>1, Comes

(* The requests that patch a surface, set its status and set its limits
   start with nothing read.                                              *)
LEMMA ReceivePatchKeeps ==
  ASSUME IInv, NEW r \in Requests, ReceivePatch(r)
  PROVE  IInv'
<1>1. PICK input : /\ input \in Inputs
                   /\ Receive(r, input, <<>>)
                   /\ input.op = "patch"
  <2>1. PICK by \in Identities, s \in SurfaceIds, status \in Statuses \union {None},
             d \in Declarations \union {None} :
          Receive(r, [op |-> "patch", identity_id |-> by, new |-> None,
                      surface |-> s, status |-> status, balance_cents |-> d], <<>>)
    BY DEF ReceivePatch
  <2>2. PICK input : input = [op |-> "patch", identity_id |-> by, new |-> None,
                              surface |-> s, status |-> status, balance_cents |-> d]
    OBVIOUS
  <2>3. input \in Inputs
    BY <2>2 DEF Inputs, Nothing
  <2>4. QED
    BY <2>1, <2>2, <2>3
<1>2. ~Reserves(input)
  BY <1>1, CirculationAssumption DEF Reserves, NewKey
<1>3. QED
  BY <1>1, <1>2, ComesToRead

(* As for a patch.                                                       *)
LEMMA ReceiveStatusKeeps ==
  ASSUME IInv, NEW r \in Requests, ReceiveStatus(r)
  PROVE  IInv'
<1>1. PICK input : /\ input \in Inputs
                   /\ Receive(r, input, <<>>)
                   /\ input.op = "surface-status"
  <2>1. PICK by \in Identities, s \in SurfaceIds, status \in Statuses :
          Receive(r, [op |-> "surface-status", identity_id |-> by, new |-> None,
                      surface |-> s, status |-> status], <<>>)
    BY DEF ReceiveStatus
  <2>2. PICK input : input = [op |-> "surface-status", identity_id |-> by,
                              new |-> None, surface |-> s, status |-> status]
    OBVIOUS
  <2>3. input \in Inputs
    BY <2>2 DEF Inputs
  <2>4. QED
    BY <2>1, <2>2, <2>3
<1>2. ~Reserves(input)
  BY <1>1, CirculationAssumption DEF Reserves, NewKey
<1>3. QED
  BY <1>1, <1>2, ComesToRead

(* As for a patch.                                                       *)
LEMMA ReceiveLimitKeeps ==
  ASSUME IInv, NEW r \in Requests, ReceiveLimit(r)
  PROVE  IInv'
<1>1. PICK input : /\ input \in Inputs
                   /\ Receive(r, input, <<>>)
                   /\ input.op = "limit"
  <2>1. PICK by \in Identities, s \in SurfaceIds, limits \in LimitSettings :
          Receive(r, [op |-> "limit", identity_id |-> by, new |-> None,
                      surface |-> s, limits |-> limits], <<>>)
    BY DEF ReceiveLimit
  <2>2. PICK input : input = [op |-> "limit", identity_id |-> by, new |-> None,
                              surface |-> s, limits |-> limits]
    OBVIOUS
  <2>3. input \in Inputs
    BY <2>2 DEF Inputs
  <2>4. QED
    BY <2>1, <2>2, <2>3
<1>2. ~Reserves(input)
  BY <1>1, CirculationAssumption DEF Reserves, NewKey
<1>3. QED
  BY <1>1, <1>2, ComesToRead

(* The surface a worker reads and puts back once.                          *)
LEMMA SurfaceRead ==
  ASSUME NEW b, NEW st, StoreFits(b, st), NEW x, RequestFits(b, st, x),
         x.input.op \in {"patch", "surface-status", "limit"}, NEW seen,
         seen = Append(x.seen, st[WantsSurface(x.input, x.seen)]),
         ~RefusesSurface(x.input, seen)
  PROVE  /\ x.input.surface \in SurfaceIds
         /\ seen[1] \in SurfaceRecord
         /\ [kind |-> seen[1].kind, role |-> seen[1].role] \in b.registrations
         /\ Solvent => seen[1].balance_cents >= 0
         /\ WantsSurface(x.input, seen) = None
<1>1. x.input.surface \in SurfaceIds
  BY DEF RequestFits, Inputs
<1>2. x.seen = <<>>
  BY DEF RequestFits, SeenFits, ReadOnce
<1>3. seen = <<st[Surface(x.input.surface)]>>
  BY <1>2 DEF WantsSurface
<1>4. seen[1] = st[Surface(x.input.surface)] /\ seen # <<>>
  BY <1>3
<1>5. seen[1] # Absent
  BY DEF RefusesSurface, Denied
<1>6. Fine(b, st, Surface(x.input.surface), seen[1])
  BY <1>1, <1>4, <1>5, KeyOf DEF StoreFits
<1>7. QED
  BY <1>1, <1>4, <1>6, KindOf DEF Fine, Shaped, Genuine, WantsSurface

(* A patch puts the copy it read with a status or a balance changed.     *)
LEMMA PatchKeeps ==
  ASSUME IInv, NEW r \in Requests, Patch(r)
  PROVE  IInv'
<1>1. PICK b, st, x : b = bounds /\ st = kv /\ x = request[r]
  OBVIOUS
<1>2. PICK seen : seen = Append(x.seen, st[WantsSurface(x.input, x.seen)])
  OBVIOUS
<1>3. PICK puts : puts = PatchPuts(x.input, seen)
  OBVIOUS
<1>4. PICK y : y = IF RefusesSurface(x.input, seen) THEN Idle
                   ELSE IF WantsSurface(x.input, seen) = None
                        THEN [x EXCEPT !.seen = <<>>, !.puts = puts]
                        ELSE [x EXCEPT !.seen = seen]
  OBVIOUS
<1>5. /\ Busy(r) /\ x.input.op = "patch" /\ x.puts = <<>>
      /\ request' = [request EXCEPT ![r] = y]
      /\ UNCHANGED <<kv, crashes, declared, scene>>
  BY <1>1, <1>2, <1>3, <1>4 DEF Patch, Serve
<1>6. StoreFits(b, st) /\ RequestFits(b, st, x)
  BY <1>1, <1>5 DEF IInv, RequestsFit
<1>7. ASSUME y # Idle
      PROVE  RequestFits(b, st, y) /\ y.input = x.input
  <2>1. ~RefusesSurface(x.input, seen)
    BY <1>4, <1>7
  <2>2. /\ x.input.surface \in SurfaceIds
        /\ seen[1] \in SurfaceRecord
        /\ [kind |-> seen[1].kind, role |-> seen[1].role] \in b.registrations
        /\ Solvent => seen[1].balance_cents >= 0
        /\ WantsSurface(x.input, seen) = None
    BY <1>2, <1>5, <1>6, <2>1, SurfaceRead
  <2>3. /\ x.input.status \in Nothing(Statuses)
        /\ x.input.balance_cents \in Nothing(Declarations)
    BY <1>5, <1>6 DEF RequestFits, Inputs
  <2>4. PICK status, d :
          /\ status = IF x.input.status = None THEN seen[1].status ELSE x.input.status
          /\ d = IF x.input.balance_cents = None THEN seen[1].balance_cents
                                                 ELSE x.input.balance_cents
    OBVIOUS
  <2>5. PICK v : v = [seen[1] EXCEPT !.status = status, !.balance_cents = d]
    OBVIOUS
  <2>6. puts = <<Writes(Surface(x.input.surface), v)>>
    BY <1>3, <2>4, <2>5 DEF PatchPuts
  <2>7. status \in Statuses /\ d \in Int /\ (Solvent => d >= 0)
    <3>1. seen[1].status \in Statuses /\ seen[1].balance_cents \in Int
      BY <2>2 DEF SurfaceRecord
    <3>2. Declarations \subseteq Int /\ (Solvent => Declarations \subseteq Nat)
      BY CirculationAssumption DEF Solvent
    <3>3. status \in Statuses
      BY <2>3, <2>4, <3>1 DEF Nothing
    <3>4. d = seen[1].balance_cents \/ d \in Declarations
      BY <2>3, <2>4 DEF Nothing
    <3>5. d \in Int
      BY <3>1, <3>2, <3>4
    <3>6. ASSUME Solvent PROVE d >= 0
      <4>1. seen[1].balance_cents >= 0 /\ Declarations \subseteq Nat
        BY <2>2, <3>2, <3>6
      <4>2. QED
        BY <3>1, <3>4, <3>5, <4>1
    <3>7. QED
      BY <3>3, <3>5, <3>6
  <2>8. /\ v.status = status /\ v.balance_cents = d
        /\ v.identity_id = seen[1].identity_id /\ v.currency = seen[1].currency
        /\ v.limits = seen[1].limits /\ v.kind = seen[1].kind /\ v.role = seen[1].role
    BY <2>2, <2>5 DEF SurfaceRecord
  <2>9. Fine(b, st, Surface(x.input.surface), v)
    <3>1. v \in SurfaceRecord
      <4>1. PICK w : w = [seen[1] EXCEPT !.status = status]
        OBVIOUS
      <4>2. w \in SurfaceRecord
        BY <2>2, <2>7, <4>1 DEF SurfaceRecord
      <4>3. v = [w EXCEPT !.balance_cents = d]
        BY <2>2, <2>5, <4>1 DEF SurfaceRecord
      <4>4. QED
        BY <2>7, <4>2, <4>3 DEF SurfaceRecord
    <3>2. QED
      BY <2>2, <2>7, <2>8, <3>1, SurfaceFine
  <2>10. IsSeq(puts) /\ \A n \in DOMAIN puts : PutFits(b, st, x.input, puts, n)
    BY <2>2, <2>6, <2>9, SurfacePut
  <2>11. y = [input |-> x.input, seen |-> <<>>, puts |-> puts]
    <3>1. y = [x EXCEPT !.seen = <<>>, !.puts = puts]
      BY <1>4, <2>1, <2>2
    <3>2. QED
      BY <1>6, <3>1, RequestChanged DEF RequestFits
  <2>12. QED
    BY <1>5, <1>6, <2>10, <2>11, Answers
<1>8. QED
  BY <1>1, <1>5, <1>7, Goes DEF IInv

(* Setting a status puts the copy read with that status.                 *)
LEMMA StatusKeeps ==
  ASSUME IInv, NEW r \in Requests, SurfaceStatus(r)
  PROVE  IInv'
<1>1. PICK b, st, x : b = bounds /\ st = kv /\ x = request[r]
  OBVIOUS
<1>2. PICK seen : seen = Append(x.seen, st[WantsSurface(x.input, x.seen)])
  OBVIOUS
<1>3. PICK puts : puts = StatusPuts(x.input, seen)
  OBVIOUS
<1>4. PICK y : y = IF RefusesSurface(x.input, seen) THEN Idle
                   ELSE IF WantsSurface(x.input, seen) = None
                        THEN [x EXCEPT !.seen = <<>>, !.puts = puts]
                        ELSE [x EXCEPT !.seen = seen]
  OBVIOUS
<1>5. /\ Busy(r) /\ x.input.op = "surface-status" /\ x.puts = <<>>
      /\ request' = [request EXCEPT ![r] = y]
      /\ UNCHANGED <<kv, crashes, declared, scene>>
  BY <1>1, <1>2, <1>3, <1>4 DEF SurfaceStatus, Serve
<1>6. StoreFits(b, st) /\ RequestFits(b, st, x)
  BY <1>1, <1>5 DEF IInv, RequestsFit
<1>7. ASSUME y # Idle
      PROVE  RequestFits(b, st, y) /\ y.input = x.input
  <2>1. ~RefusesSurface(x.input, seen)
    BY <1>4, <1>7
  <2>2. /\ x.input.surface \in SurfaceIds
        /\ seen[1] \in SurfaceRecord
        /\ [kind |-> seen[1].kind, role |-> seen[1].role] \in b.registrations
        /\ Solvent => seen[1].balance_cents >= 0
        /\ WantsSurface(x.input, seen) = None
    BY <1>2, <1>5, <1>6, <2>1, SurfaceRead
  <2>3. x.input.status \in Statuses
    BY <1>5, <1>6 DEF RequestFits, Inputs
  <2>4. PICK v : v = [seen[1] EXCEPT !.status = x.input.status]
    OBVIOUS
  <2>5. puts = <<Writes(Surface(x.input.surface), v)>>
    BY <1>3, <2>4 DEF StatusPuts
  <2>6. /\ v.status = x.input.status
        /\ v.balance_cents = seen[1].balance_cents
        /\ v.identity_id = seen[1].identity_id /\ v.currency = seen[1].currency
        /\ v.limits = seen[1].limits /\ v.kind = seen[1].kind /\ v.role = seen[1].role
    BY <2>2, <2>4 DEF SurfaceRecord
  <2>7. Fine(b, st, Surface(x.input.surface), v)
    <3>1. v \in SurfaceRecord
      BY <2>2, <2>3, <2>4 DEF SurfaceRecord
    <3>2. QED
      BY <2>2, <2>6, <3>1, SurfaceFine
  <2>8. IsSeq(puts) /\ \A n \in DOMAIN puts : PutFits(b, st, x.input, puts, n)
    BY <2>2, <2>5, <2>7, SurfacePut
  <2>9. y = [input |-> x.input, seen |-> <<>>, puts |-> puts]
    <3>1. y = [x EXCEPT !.seen = <<>>, !.puts = puts]
      BY <1>4, <2>1, <2>2
    <3>2. QED
      BY <1>6, <3>1, RequestChanged DEF RequestFits
  <2>10. QED
    BY <1>5, <1>6, <2>8, <2>9, Answers
<1>8. QED
  BY <1>1, <1>5, <1>7, Goes DEF IInv

(* Setting limits puts the copy read with limits among LimitNames.       *)
LEMMA LimitKeeps ==
  ASSUME IInv, NEW r \in Requests, Limit(r)
  PROVE  IInv'
<1>1. PICK b, st, x : b = bounds /\ st = kv /\ x = request[r]
  OBVIOUS
<1>2. PICK seen : seen = Append(x.seen, st[WantsSurface(x.input, x.seen)])
  OBVIOUS
<1>3. PICK puts : puts = LimitPuts(x.input, seen)
  OBVIOUS
<1>4. PICK y : y = IF RefusesSurface(x.input, seen) THEN Idle
                   ELSE IF WantsSurface(x.input, seen) = None
                        THEN [x EXCEPT !.seen = <<>>, !.puts = puts]
                        ELSE [x EXCEPT !.seen = seen]
  OBVIOUS
<1>5. /\ Busy(r) /\ x.input.op = "limit" /\ x.puts = <<>>
      /\ request' = [request EXCEPT ![r] = y]
      /\ UNCHANGED <<kv, crashes, declared, scene>>
  BY <1>1, <1>2, <1>3, <1>4 DEF Limit, Serve
<1>6. StoreFits(b, st) /\ RequestFits(b, st, x)
  BY <1>1, <1>5 DEF IInv, RequestsFit
<1>7. ASSUME y # Idle
      PROVE  RequestFits(b, st, y) /\ y.input = x.input
  <2>1. ~RefusesSurface(x.input, seen)
    BY <1>4, <1>7
  <2>2. /\ x.input.surface \in SurfaceIds
        /\ seen[1] \in SurfaceRecord
        /\ [kind |-> seen[1].kind, role |-> seen[1].role] \in b.registrations
        /\ Solvent => seen[1].balance_cents >= 0
        /\ WantsSurface(x.input, seen) = None
    BY <1>2, <1>5, <1>6, <2>1, SurfaceRead
  <2>3. x.input.limits \in LimitSets
    <3>1. x.input.limits \in LimitSettings
      BY <1>5, <1>6 DEF RequestFits, Inputs
    <3>2. QED
      BY <3>1, CirculationAssumption
  <2>4. PICK limits :
          limits = [n \in DOMAIN seen[1].limits \union DOMAIN x.input.limits |->
                      IF n \in DOMAIN x.input.limits THEN x.input.limits[n]
                                                     ELSE seen[1].limits[n]]
    OBVIOUS
  <2>5. limits \in LimitSets
    <3>1. PICK n1 \in SUBSET LimitNames : seen[1].limits \in [n1 -> LimitAmounts]
      BY <2>2 DEF SurfaceRecord, LimitSets
    <3>2. PICK n2 \in SUBSET LimitNames : x.input.limits \in [n2 -> LimitAmounts]
      BY <2>3 DEF LimitSets
    <3>3. limits \in [n1 \union n2 -> LimitAmounts]
      BY <2>4, <3>1, <3>2
    <3>4. QED
      BY <3>3 DEF LimitSets
  <2>6. PICK v : v = [seen[1] EXCEPT !.limits = limits]
    OBVIOUS
  <2>7. puts = <<Writes(Surface(x.input.surface), v)>>
    BY <1>3, <2>4, <2>6 DEF LimitPuts
  <2>8. /\ v.status = seen[1].status
        /\ v.balance_cents = seen[1].balance_cents
        /\ v.identity_id = seen[1].identity_id /\ v.currency = seen[1].currency
        /\ v.limits = limits /\ v.kind = seen[1].kind /\ v.role = seen[1].role
    BY <2>2, <2>6 DEF SurfaceRecord
  <2>9. Fine(b, st, Surface(x.input.surface), v)
    <3>1. v \in SurfaceRecord
      BY <2>2, <2>5, <2>6 DEF SurfaceRecord
    <3>2. QED
      BY <2>2, <2>8, <3>1, SurfaceFine
  <2>10. IsSeq(puts) /\ \A n \in DOMAIN puts : PutFits(b, st, x.input, puts, n)
    BY <2>2, <2>7, <2>9, SurfacePut
  <2>11. y = [input |-> x.input, seen |-> <<>>, puts |-> puts]
    <3>1. y = [x EXCEPT !.seen = <<>>, !.puts = puts]
      BY <1>4, <2>1, <2>2
    <3>2. QED
      BY <1>6, <3>1, RequestChanged DEF RequestFits
  <2>12. QED
    BY <1>5, <1>6, <2>10, <2>11, Answers
<1>8. QED
  BY <1>1, <1>5, <1>7, Goes DEF IInv

-----------------------------------------------------------------------------
(* Topups.                                                                 *)

(* The keys of records that last, and of those that do not.                *)
LEMMA LastingKeys ==
  /\ \A i : ~Lasting(Surface(i)) /\ ~Lasting(Topup(i)) /\ ~Lasting(BalanceMove(i))
  /\ \A i : ~Lasting(Spend(i)) /\ ~Lasting(Receipt(i)) /\ ~Lasting(Refund(i))
  /\ \A i : ~Lasting(RefundDecision(i))
  /\ \A i : Lasting(TopupDecision(i)) /\ Lasting(SpendDecision(i)) /\ Lasting(LimitCheck(i))
  /\ \A i : Lasting(SpendBalance(i)) <=> Unnamed
BY KindOf DEF Lasting

(* A topup request starts with nothing read.                             *)
LEMMA ReceiveTopupKeeps ==
  ASSUME IInv, NEW r \in Requests, ReceiveTopup(r)
  PROVE  IInv'
<1>1. PICK input : /\ input \in Inputs
                   /\ Receive(r, input, <<>>)
                   /\ input.op = "topup"
  <2>1. PICK by \in Identities, t \in NewIds("value-topup"), f \in SurfaceIds,
             g \in SurfaceIds, a \in TopupAmounts, c \in Currencies :
          Receive(r, [op |-> "topup", identity_id |-> by, new |-> t, from |-> f,
                      to |-> g, amount_cents |-> a, currency |-> c], <<>>)
    BY DEF ReceiveTopup
  <2>2. t \in Pool["value-topup"]
    BY BoundsFit DEF NewIds, Minted, Kinds
  <2>3. PICK input : input = [op |-> "topup", identity_id |-> by, new |-> t,
                              from |-> f, to |-> g, amount_cents |-> a, currency |-> c]
    OBVIOUS
  <2>4. input \in Inputs
    BY <2>2, <2>3 DEF Inputs
  <2>5. QED
    BY <2>1, <2>3, <2>4
<1>2. ~Reserves(input)
  BY <1>1, CirculationAssumption DEF Reserves, NewKey
<1>3. QED
  BY <1>1, <1>2, ComesToRead

(* It puts an undecided topup over whatever has its name.                *)
LEMMA RequestTopupKeeps ==
  ASSUME IInv, NEW r \in Requests, RequestTopup(r)
  PROVE  IInv'
<1>1. PICK b, st, x : b = bounds /\ st = kv /\ x = request[r]
  OBVIOUS
<1>2. PICK seen : seen = Append(x.seen, st[TopupWants(x.input, x.seen)])
  OBVIOUS
<1>3. PICK puts : puts = TopupPuts(x.input, seen)
  OBVIOUS
<1>4. PICK y : y = IF TopupRefuses(x.input, seen) THEN Idle
                   ELSE IF TopupWants(x.input, seen) = None
                        THEN [x EXCEPT !.seen = <<>>, !.puts = puts]
                        ELSE [x EXCEPT !.seen = seen]
  OBVIOUS
<1>5. /\ Busy(r) /\ x.input.op = "topup" /\ x.puts = <<>>
      /\ request' = [request EXCEPT ![r] = y]
      /\ UNCHANGED <<kv, crashes, declared, scene>>
  BY <1>1, <1>2, <1>3, <1>4 DEF RequestTopup, Serve
<1>6. StoreFits(b, st) /\ RequestFits(b, st, x)
  BY <1>1, <1>5 DEF IInv, RequestsFit
<1>7. ASSUME y # Idle
      PROVE  RequestFits(b, st, y) /\ y.input = x.input
  <2>1. CASE TopupWants(x.input, seen) = None
    <3>1. PICK i : i = x.input
      OBVIOUS
    <3>2. /\ i.op = "topup" /\ i.identity_id \in Identities
          /\ i.new \in Pool["value-topup"]
          /\ i.from \in SurfaceIds /\ i.to \in SurfaceIds
          /\ i.amount_cents \in TopupAmounts /\ i.currency \in Currencies
      BY <1>5, <1>6, <3>1 DEF RequestFits, Inputs
    <3>3. PICK v : v = [identity_id |-> i.identity_id, from |-> i.from,
                        to |-> i.to, amount_cents |-> i.amount_cents,
                        currency |-> i.currency, decision |-> "undecided",
                        decision_id |-> None, balance_moved |-> FALSE,
                        balance_id |-> None]
      OBVIOUS
    <3>4. v \in TopupRecord
      BY <3>2, <3>3 DEF TopupRecord, Nothing
    <3>5. v.decision # "approved"
      BY <3>3
    <3>6. Fine(b, With(st, Writes(Topup(i.new), v)), Topup(i.new), v)
      BY <3>4, <3>5, KindOf DEF Fine, Shaped, Genuine, TopupBacked
    <3>7. puts = <<Writes(Topup(i.new), v)>>
      BY <1>3, <3>1, <3>3 DEF TopupPuts
    <3>8. Topup(i.new) \in Keys /\ ~Lasting(Topup(i.new)) /\ ~Declares(i)
      BY <3>2, KeyOf, LastingKeys DEF Declares
    <3>9. IsSeq(puts) /\ \A n \in DOMAIN puts : PutFits(b, st, x.input, puts, n)
      BY <3>1, <3>6, <3>7, <3>8, OnePut
    <3>10. y = [input |-> x.input, seen |-> <<>>, puts |-> puts]
      <4>1. y = [x EXCEPT !.seen = <<>>, !.puts = puts]
        BY <1>4, <1>7, <2>1
      <4>2. QED
        BY <1>6, <4>1, RequestChanged DEF RequestFits
    <3>11. QED
      BY <1>5, <1>6, <3>9, <3>10, Answers
  <2>2. CASE TopupWants(x.input, seen) # None
    <3>1. IsSeq(seen)
      BY <1>2, <1>6, AppendIsSeq DEF RequestFits
    <3>2. SeenFits(b, st, x.input, seen)
      BY <1>5 DEF SeenFits, ReadOnce
    <3>3. y = [input |-> x.input, seen |-> seen, puts |-> x.puts]
      <4>1. y = [x EXCEPT !.seen = seen]
        BY <1>4, <1>7, <2>2
      <4>2. QED
        BY <1>6, <4>1, RequestChanged DEF RequestFits
    <3>4. QED
      BY <1>6, <3>1, <3>2, <3>3, Reads
  <2>3. QED
    BY <2>1, <2>2
<1>8. QED
  BY <1>1, <1>5, <1>7, Goes DEF IInv

(* A decision on a topup reserves the name of its record.                *)
LEMMA ReceiveTopupDecisionKeeps ==
  ASSUME IInv, NEW r \in Requests, ReceiveTopupDecision(r)
  PROVE  IInv'
<1>1. PICK by \in Identities, t \in bounds.pool["value-topup"],
           d \in Minted("value-topup-decision"), v \in {"approved", "blocked"} :
        Receive(r, [op |-> "topup-decision", identity_id |-> by, new |-> d,
                    topup |-> t, decision |-> v], <<>>)
  BY DEF ReceiveTopupDecision
<1>2. t \in Pool["value-topup"]
  BY BoundsFit DEF Kinds
<1>3. d \in Pool["value-topup-decision"] /\ Unused("value-topup-decision", d)
  BY BoundsFit DEF Minted, Kinds
<1>4. PICK input : input = [op |-> "topup-decision", identity_id |-> by, new |-> d,
                            topup |-> t, decision |-> v]
  OBVIOUS
<1>5. input \in Inputs
  BY <1>2, <1>3, <1>4 DEF Inputs, Verdicts
<1>6. NewKey(input) = <<"value-topup-decision", d>>
  BY <1>4 DEF NewKey, TopupDecision
<1>7. QED
  BY <1>1, <1>3, <1>4, <1>5, <1>6, Fresh, ComesToRead DEF Kinds

(* A request to move a topup starts with nothing read.                   *)
LEMMA ReceiveBalanceKeeps ==
  ASSUME IInv, NEW r \in Requests, ReceiveBalance(r)
  PROVE  IInv'
<1>1. PICK input : /\ input \in Inputs
                   /\ Receive(r, input, <<>>)
                   /\ input.op = "balance"
  <2>1. PICK by \in Identities, t \in bounds.pool["value-topup"],
             m \in NewIds("value-balance"),
             d \in Cited("value-topup-decision") \union {None} :
          Receive(r, [op |-> "balance", identity_id |-> by, new |-> m,
                      topup |-> t, decision_id |-> d], <<>>)
    BY DEF ReceiveBalance
  <2>2. /\ t \in Pool["value-topup"] /\ m \in Pool["value-balance"]
        /\ d \in Nothing(Pool["value-topup-decision"])
    BY BoundsFit DEF NewIds, Minted, Cited, Nothing, Kinds
  <2>3. PICK input : input = [op |-> "balance", identity_id |-> by, new |-> m,
                              topup |-> t, decision_id |-> d]
    OBVIOUS
  <2>4. input \in Inputs
    BY <2>2, <2>3 DEF Inputs
  <2>5. QED
    BY <2>1, <2>3, <2>4
<1>2. ~Reserves(input)
  BY <1>1, CirculationAssumption DEF Reserves, NewKey
<1>3. QED
  BY <1>1, <1>2, ComesToRead

(* The first put of a request leaves what lasts.                           *)
LEMMA FirstExtends ==
  ASSUME NEW b, NEW st, StoreFits(b, st), NEW x, RequestFits(b, st, x),
         x.puts = <<>>, NEW key \in Keys, NEW v, Shaped(b, key, v),
         Lasting(key) => key = NewKey(x.input)
  PROVE  Extends(st, With(st, Writes(key, v)))
<1>1. PICK p : p = Writes(key, v)
  OBVIOUS
<1>2. p.key = key /\ p.value = v
  BY <1>1, WritesOf
<1>3. Lasting(key) => st[key] = Absent
  BY DEF RequestFits, Awaits, Reserves
<1>4. Extends(st, With(st, p))
  BY <1>2, <1>3, WithExtends
<1>5. QED
  BY <1>1, <1>4

(* A put and one after it of a record that may be overwritten.             *)
LEMMA TwoPuts ==
  ASSUME NEW b, NEW st, NEW input, ~Declares(input),
         NEW k1 \in Keys, NEW v1, NEW k2 \in Keys, NEW v2,
         Fine(b, With(st, Writes(k1, v1)), k1, v1),
         Fine(b, With(st, Writes(k1, v1)), k2, v2),
         Lasting(k1) => k1 = NewKey(input), ~Lasting(k2)
  PROVE  /\ IsSeq(<<Writes(k1, v1), Writes(k2, v2)>>)
         /\ \A n \in DOMAIN <<Writes(k1, v1), Writes(k2, v2)>> :
              PutFits(b, st, input, <<Writes(k1, v1), Writes(k2, v2)>>, n)
<1>1. PICK p, q : p = Writes(k1, v1) /\ q = Writes(k2, v2)
  OBVIOUS
<1>2. p.key = k1 /\ p.value = v1 /\ q.key = k2 /\ q.value = v2
  BY <1>1, WritesOf
<1>3. <<p, q>> \in Seq({p, q})
  OBVIOUS
<1>4. IsSeq(<<p, q>>)
  BY <1>3 DEF IsSeq
<1>5. DOMAIN <<p, q>> = {1, 2}
  OBVIOUS
<1>6. PutFits(b, st, input, <<p, q>>, 1)
  BY <1>1, <1>2 DEF PutFits
<1>7. PutFits(b, st, input, <<p, q>>, 2)
  BY <1>1, <1>2 DEF PutFits
<1>8. QED
  BY <1>1, <1>4, <1>5, <1>6, <1>7

(* What a topup decision puts.                                             *)
LEMMA TopupDecisionPutsFit ==
  ASSUME NEW b, NEW st, StoreFits(b, st), NEW x, RequestFits(b, st, x),
         x.puts = <<>>, x.input.op = "topup-decision", NEW seen,
         Copied(b, st, Topup(x.input.topup), seen[1])
  PROVE  /\ IsSeq(TopupDecisionPuts(x.input, seen))
         /\ \A n \in DOMAIN TopupDecisionPuts(x.input, seen) :
              PutFits(b, st, x.input, TopupDecisionPuts(x.input, seen), n)
<1>1. PICK i, t, verdict : /\ i = x.input /\ t = seen[1]
                           /\ verdict = TopupVerdict(i, t, seen[2], seen[3])
  OBVIOUS
<1>2. /\ i.op = "topup-decision" /\ i.identity_id \in Identities
      /\ i.new \in Pool["value-topup-decision"]
      /\ i.topup \in Pool["value-topup"] /\ i.decision \in Verdicts
  BY <1>1 DEF RequestFits, Inputs
<1>3. t \in TopupRecord
  BY <1>1, KindOf DEF Copied, Fine, Shaped
<1>4. verdict \in Verdicts
  BY <1>1, <1>2 DEF TopupVerdict, Verdicts
<1>5. PICK d : d = [identity_id |-> i.identity_id, topup |-> i.topup,
                    decision |-> verdict, from |-> t.from, to |-> t.to,
                    amount_cents |-> t.amount_cents, currency |-> t.currency,
                    balance_moved |-> FALSE, balance_id |-> None]
  OBVIOUS
<1>6. d \in TopupDecisionRecord
  BY <1>2, <1>3, <1>4, <1>5 DEF TopupDecisionRecord, TopupRecord, Nothing
<1>7. PICK u : u = DecidedTopup(t, i.new, verdict)
  OBVIOUS
<1>8. u \in TopupRecord
  BY <1>2, <1>3, <1>4, <1>7 DEF TopupRecord, DecidedTopup, Nothing
<1>9. u.decision = verdict /\ u.decision_id = i.new /\ u.from = t.from
      /\ u.to = t.to /\ u.amount_cents = t.amount_cents
  BY <1>3, <1>7 DEF TopupRecord, DecidedTopup
<1>10. TopupDecision(i.new) \in Keys /\ Topup(i.topup) \in Keys
       /\ NewKey(i) = TopupDecision(i.new) /\ ~Declares(i)
  BY <1>2, KeyOf DEF NewKey, Declares
<1>11. PICK after : after = With(st, Writes(TopupDecision(i.new), d))
  OBVIOUS
<1>12. after[TopupDecision(i.new)] = d
  BY <1>10, <1>11, WritesOf DEF With, StoreFits
<1>13. Fine(b, after, TopupDecision(i.new), d)
  BY <1>6, KindOf DEF Fine, Shaped, Genuine
<1>14. TopupBacked(after, i.topup, u)
  <2>1. d # Absent
    BY <1>6, CirculationAssumption
  <2>2. d.topup = i.topup /\ d.decision = verdict /\ d.from = t.from /\ d.to = t.to
        /\ d.amount_cents = t.amount_cents
    BY <1>5
  <2>3. QED
    BY <1>2, <1>9, <1>12, <2>1, <2>2
    DEF TopupBacked, In, ApprovalOfTopup, TopupDecision
<1>15. Fine(b, after, Topup(i.topup), u)
  BY <1>8, <1>14, KindOf DEF Fine, Shaped, Genuine
<1>16. PICK puts : puts = <<Writes(TopupDecision(i.new), d), Writes(Topup(i.topup), u)>>
  OBVIOUS
<1>17. IsSeq(puts) /\ \A n \in DOMAIN puts : PutFits(b, st, i, puts, n)
  BY <1>10, <1>11, <1>13, <1>15, <1>16, LastingKeys, TwoPuts
<1>18. TopupDecisionPuts(x.input, seen) = puts
  BY <1>1, <1>5, <1>7, <1>16 DEF TopupDecisionPuts
<1>19. QED
  BY <1>1, <1>17, <1>18

(* A decision reads the topup, then its puts back each other.            *)
LEMMA DecideTopupKeeps ==
  ASSUME IInv, NEW r \in Requests, DecideTopup(r)
  PROVE  IInv'
<1>1. PICK b, st, x : b = bounds /\ st = kv /\ x = request[r]
  OBVIOUS
<1>2. PICK seen : seen = Append(x.seen, st[TopupDecisionWants(x.input, x.seen)])
  OBVIOUS
<1>3. PICK puts : puts = TopupDecisionPuts(x.input, seen)
  OBVIOUS
<1>4. PICK y : y = IF TopupDecisionRefuses(x.input, seen) THEN Idle
                   ELSE IF TopupDecisionWants(x.input, seen) = None
                        THEN [x EXCEPT !.seen = <<>>, !.puts = puts]
                        ELSE [x EXCEPT !.seen = seen]
  OBVIOUS
<1>5. /\ Busy(r) /\ x.input.op = "topup-decision" /\ x.puts = <<>>
      /\ request' = [request EXCEPT ![r] = y]
      /\ UNCHANGED <<kv, crashes, declared, scene>>
  BY <1>1, <1>2, <1>3, <1>4 DEF DecideTopup, Serve
<1>6. StoreFits(b, st) /\ RequestFits(b, st, x)
  BY <1>1, <1>5 DEF IInv, RequestsFit
<1>7. ASSUME y # Idle
      PROVE  RequestFits(b, st, y) /\ y.input = x.input
  <2>1. ~TopupDecisionRefuses(x.input, seen)
    BY <1>4, <1>7
  <2>2. /\ IsSeq(seen) /\ Len(x.seen) \in Nat /\ Len(seen) = Len(x.seen) + 1
        /\ \A n \in 1..Len(x.seen) : seen[n] = x.seen[n]
        /\ seen[Len(x.seen) + 1] = st[TopupDecisionWants(x.input, x.seen)]
    BY <1>2, <1>6, AppendIsSeq DEF RequestFits
  <2>3. Topup(x.input.topup) \in Keys
    BY <1>5, <1>6, KeyOf DEF RequestFits, Inputs
  <2>4. Copied(b, st, Topup(x.input.topup), seen[1])
    <3>1. CASE Len(x.seen) = 0
      <4>1. seen[1] = st[Topup(x.input.topup)]
        BY <2>2, <3>1 DEF TopupDecisionWants
      <4>2. seen[1] # Absent
        BY <2>1, <2>2, <3>1 DEF TopupDecisionRefuses, Denied
      <4>3. QED
        BY <1>6, <2>3, <4>1, <4>2, ReadIsCopied
    <3>2. CASE Len(x.seen) >= 1
      <4>1. Copied(b, st, Topup(x.input.topup), x.seen[1])
        BY <1>5, <1>6, <3>2 DEF RequestFits, SeenFits, SeenByTopupDecision
      <4>2. QED
        BY <2>2, <3>2, <4>1
    <3>3. QED
      BY <2>2, <3>1, <3>2
  <2>5. CASE TopupDecisionWants(x.input, seen) = None
    <3>1. IsSeq(puts) /\ \A n \in DOMAIN puts : PutFits(b, st, x.input, puts, n)
      BY <1>3, <1>5, <1>6, <2>4, TopupDecisionPutsFit
    <3>2. y = [input |-> x.input, seen |-> <<>>, puts |-> puts]
      <4>1. y = [x EXCEPT !.seen = <<>>, !.puts = puts]
        BY <1>4, <2>1, <2>5
      <4>2. QED
        BY <1>6, <4>1, RequestChanged DEF RequestFits
    <3>3. QED
      BY <1>5, <1>6, <3>1, <3>2, Answers
  <2>6. CASE TopupDecisionWants(x.input, seen) # None
    <3>1. SeenFits(b, st, x.input, seen)
      BY <1>5, <2>4 DEF SeenFits, SeenByTopupDecision, ReadOnce
    <3>2. y = [input |-> x.input, seen |-> seen, puts |-> x.puts]
      <4>1. y = [x EXCEPT !.seen = seen]
        BY <1>4, <2>1, <2>6
      <4>2. QED
        BY <1>6, <4>1, RequestChanged DEF RequestFits
    <3>3. QED
      BY <1>6, <2>2, <3>1, <3>2, Reads
  <2>7. QED
    BY <2>5, <2>6
<1>8. QED
  BY <1>1, <1>5, <1>7, Goes DEF IInv

(* What a movement puts, of good copies of the topup it moves, the decision
   it cites and the two surfaces.                                          *)
LEMMA BalancePutsFit ==
  ASSUME NEW b, NEW st, StoreFits(b, st), NEW x, RequestFits(b, st, x),
         x.puts = <<>>, x.input.op = "balance", NEW seen,
         Copied(b, st, Topup(x.input.topup), seen[1]),
         MayMove(seen[1]), CitedTopupDecision(x.input, seen[1]) # None,
         Copied(b, st, TopupDecision(CitedTopupDecision(x.input, seen[1])), seen[2]),
         Copied(b, st, Surface(seen[1].from), seen[3]),
         Copied(b, st, Surface(seen[1].to), seen[4]),
         Covers(seen[3], seen[1])
  PROVE  /\ IsSeq(BalancePuts(x.input, seen))
         /\ \A n \in DOMAIN BalancePuts(x.input, seen) :
              PutFits(b, st, x.input, BalancePuts(x.input, seen), n)
<1>1. PICK i, t, d, s3, s4 : /\ i = x.input /\ t = seen[1]
                             /\ d = CitedTopupDecision(i, t)
                             /\ s3 = seen[3] /\ s4 = seen[4]
  OBVIOUS
<1>2. /\ i.op = "balance" /\ i.identity_id \in Identities
      /\ i.new \in Pool["value-balance"] /\ i.topup \in Pool["value-topup"]
      /\ i.decision_id \in Nothing(Pool["value-topup-decision"])
  BY <1>1 DEF RequestFits, Inputs
<1>3. /\ t \in TopupRecord /\ TopupBacked(st, i.topup, t)
      /\ t.decision = "approved" /\ t.amount_cents > 0
  BY <1>1, KindOf DEF Copied, Fine, Shaped, Genuine, MayMove, Covers
<1>4. d \in Pool["value-topup-decision"]
  BY <1>1, <1>2, <1>3 DEF CitedTopupDecision, TopupRecord, Nothing
<1>5. /\ s3 \in SurfaceRecord /\ s4 \in SurfaceRecord
      /\ [kind |-> s3.kind, role |-> s3.role] \in b.registrations
      /\ [kind |-> s4.kind, role |-> s4.role] \in b.registrations
      /\ Solvent => s4.balance_cents >= 0
      /\ s3.balance_cents >= t.amount_cents
  BY <1>1, KindOf DEF Copied, Fine, Shaped, Genuine, Covers
<1>6. t.amount_cents \in Int /\ t.from \in SurfaceIds /\ t.to \in SurfaceIds
  BY <1>3, CirculationAssumption DEF TopupRecord
<1>7. PICK a : a = t.amount_cents
  OBVIOUS
<1>8. PICK m : m = [identity_id |-> i.identity_id, topup |-> i.topup,
                    decision_id |-> d, from |-> t.from, to |-> t.to,
                    amount_cents |-> a, currency |-> t.currency]
  OBVIOUS
<1>9. PICK v3, v4 : /\ v3 = [s3 EXCEPT !.balance_cents = s3.balance_cents - a]
                    /\ v4 = [s4 EXCEPT !.balance_cents = s4.balance_cents + a]
  OBVIOUS
<1>10. PICK u, e : u = Moved(t, i.new) /\ e = Moved(seen[2], i.new)
  OBVIOUS
<1>11. PICK k1, k2, k3, k4, k5 :
         /\ k1 = BalanceMove(i.new)
         /\ k2 = Surface(t.from) /\ k3 = Surface(t.to)
         /\ k4 = Topup(i.topup) /\ k5 = TopupDecision(d)
  OBVIOUS
<1>12. /\ {k1, k2, k3, k4, k5} \subseteq Keys
       /\ ~Lasting(k1) /\ ~Lasting(k2) /\ ~Lasting(k3) /\ ~Lasting(k4) /\ Lasting(k5)
       /\ k1[1] = "value-balance" /\ k2[1] = "value-surface"
       /\ k3[1] = "value-surface" /\ k4[1] = "value-topup" /\ k4[2] = i.topup
       /\ k5[1] = "value-topup-decision"
  BY <1>2, <1>4, <1>6, <1>11, KeyOf, KindOf, LastingKeys
<1>13. NewKey(i) = None /\ ~Declares(i) /\ k5 # NewKey(i)
  BY <1>2, <1>12, CirculationAssumption DEF NewKey, Declares
<1>14. Shaped(b, k1, m)
  <2>1. m \in BalanceRecord
    BY <1>2, <1>3, <1>4, <1>7, <1>8 DEF BalanceRecord, TopupRecord
  <2>2. QED
    BY <2>1, <1>12 DEF Shaped
<1>15. PICK after : after = With(st, Writes(k1, m))
  OBVIOUS
<1>16. Extends(st, after)
  BY <1>1, <1>12, <1>14, <1>15, FirstExtends
<1>17. Fine(b, after, k1, m)
  <2>1. /\ In(st, "value-topup-decision", t.decision_id)
        /\ ApprovalOfTopup(st[TopupDecision(t.decision_id)], i.topup, t)
    BY <1>3 DEF TopupBacked
  <2>2. m.topup = i.topup /\ m.from = t.from /\ m.to = t.to
        /\ m.amount_cents = t.amount_cents
    BY <1>7, <1>8
  <2>3. BalanceBacked(st, m)
    BY <2>1, <2>2 DEF BalanceBacked, In, ApprovalOfTopup, TopupDecision
  <2>4. BalanceBacked(after, m)
    BY <2>3, <1>16, MoveStaysBacked
  <2>5. QED
    BY <2>4, <1>12, <1>14 DEF Fine, Genuine
<1>18. Fine(b, after, k2, v3) /\ Fine(b, after, k3, v4)
  <2>1. /\ v3.status = s3.status
        /\ v3.balance_cents = s3.balance_cents - a
        /\ v3.identity_id = s3.identity_id /\ v3.currency = s3.currency
        /\ v3.limits = s3.limits /\ v3.kind = s3.kind /\ v3.role = s3.role
    BY <1>5, <1>9 DEF SurfaceRecord
  <2>2. /\ v4.status = s4.status
        /\ v4.balance_cents = s4.balance_cents + a
        /\ v4.identity_id = s4.identity_id /\ v4.currency = s4.currency
        /\ v4.limits = s4.limits /\ v4.kind = s4.kind /\ v4.role = s4.role
    BY <1>5, <1>9 DEF SurfaceRecord
  <2>3. s3.balance_cents \in Int /\ s4.balance_cents \in Int
    BY <1>5 DEF SurfaceRecord
  <2>4. /\ v3.balance_cents \in Int /\ v3.balance_cents >= 0
        /\ v4.balance_cents \in Int /\ (Solvent => v4.balance_cents >= 0)
    BY <2>1, <2>2, <2>3, <1>3, <1>5, <1>6, <1>7
  <2>5. v3 \in SurfaceRecord /\ v4 \in SurfaceRecord
    BY <2>4, <1>5, <1>9 DEF SurfaceRecord
  <2>6. QED
    BY <2>1, <2>2, <2>4, <2>5, <1>5, <1>11, SurfaceFine
<1>19. Fine(b, after, k4, u)
  <2>1. u \in TopupRecord
    BY <1>2, <1>3, <1>10 DEF TopupRecord, Moved, Nothing
  <2>2. /\ u.decision = t.decision /\ u.decision_id = t.decision_id
        /\ u.from = t.from /\ u.to = t.to /\ u.amount_cents = t.amount_cents
    BY <1>3, <1>10 DEF TopupRecord, Moved
  <2>3. TopupBacked(st, i.topup, u)
    BY <1>3, <2>2 DEF TopupBacked, ApprovalOfTopup
  <2>4. TopupBacked(after, i.topup, u)
    BY <2>3, <1>16, TopupStaysBacked
  <2>5. QED
    BY <2>1, <2>4, <1>12 DEF Fine, Shaped, Genuine
<1>20. Fine(b, after, k5, e) /\ Agrees(st, k5, e)
  <2>1. seen[2] \in TopupDecisionRecord /\ Agrees(st, k5, seen[2])
    BY <1>1, <1>11, <1>12 DEF Copied, Fine, Shaped
  <2>2. e \in TopupDecisionRecord
    BY <1>2, <1>10, <2>1 DEF TopupDecisionRecord, Moved, Nothing
  <2>3. /\ e.topup = seen[2].topup /\ e.decision = seen[2].decision
        /\ e.from = seen[2].from /\ e.to = seen[2].to
        /\ e.amount_cents = seen[2].amount_cents
    BY <1>10, <2>1 DEF TopupDecisionRecord, Moved
  <2>4. Agrees(st, k5, e)
    BY <2>1, <2>3, <1>12 DEF Agrees, Same
  <2>5. QED
    BY <2>2, <2>4, <1>12 DEF Fine, Shaped, Genuine
<1>21. PICK p1, p2, p3, p4, p5 :
         /\ p1 = Writes(k1, m) /\ p2 = Writes(k2, v3) /\ p3 = Writes(k3, v4)
         /\ p4 = Writes(k4, u) /\ p5 = Writes(k5, e)
  OBVIOUS
<1>22. /\ p1.key = k1 /\ p1.value = m /\ p2.key = k2 /\ p2.value = v3
       /\ p3.key = k3 /\ p3.value = v4 /\ p4.key = k4 /\ p4.value = u
       /\ p5.key = k5 /\ p5.value = e
  BY <1>21, WritesOf
<1>23. PICK puts : puts = <<p1, p2, p3, p4, p5>>
  OBVIOUS
<1>24. IsSeq(puts)
  <2>1. puts \in Seq({p1, p2, p3, p4, p5})
    BY <1>23
  <2>2. QED
    BY <2>1 DEF IsSeq
<1>25. DOMAIN puts = 1..5 /\ puts[1] = p1 /\ puts[2] = p2 /\ puts[3] = p3
       /\ puts[4] = p4 /\ puts[5] = p5
  BY <1>23
<1>26. /\ PutFits(b, st, i, puts, 1) /\ PutFits(b, st, i, puts, 2)
       /\ PutFits(b, st, i, puts, 3) /\ PutFits(b, st, i, puts, 4)
  BY <1>12, <1>13, <1>15, <1>17, <1>18, <1>19, <1>21, <1>22, <1>25 DEF PutFits
<1>27. PutFits(b, st, i, puts, 5)
  BY <1>12, <1>13, <1>15, <1>20, <1>21, <1>22, <1>25 DEF PutFits
<1>28. BalancePuts(x.input, seen) = puts
  BY <1>1, <1>7, <1>8, <1>9, <1>10, <1>11, <1>21, <1>23 DEF BalancePuts
<1>29. \A n \in DOMAIN puts : PutFits(b, st, i, puts, n)
  BY <1>25, <1>26, <1>27
<1>30. QED
  BY <1>1, <1>24, <1>28, <1>29

(* A movement reads the topup, its decision and the two surfaces.        *)
LEMMA MoveBalanceKeeps ==
  ASSUME IInv, NEW r \in Requests, MoveBalance(r)
  PROVE  IInv'
<1>1. PICK b, st, x : b = bounds /\ st = kv /\ x = request[r]
  OBVIOUS
<1>2. PICK seen : seen = Append(x.seen, st[BalanceWants(x.input, x.seen)])
  OBVIOUS
<1>3. PICK puts : puts = BalancePuts(x.input, seen)
  OBVIOUS
<1>4. PICK y : y = IF BalanceRefuses(x.input, seen) THEN Idle
                   ELSE IF BalanceWants(x.input, seen) = None
                        THEN [x EXCEPT !.seen = <<>>, !.puts = puts]
                        ELSE [x EXCEPT !.seen = seen]
  OBVIOUS
<1>5. /\ Busy(r) /\ x.input.op = "balance" /\ x.puts = <<>>
      /\ request' = [request EXCEPT ![r] = y]
      /\ UNCHANGED <<kv, crashes, declared, scene>>
  BY <1>1, <1>2, <1>3, <1>4 DEF MoveBalance, Serve
<1>6. StoreFits(b, st) /\ RequestFits(b, st, x)
  BY <1>1, <1>5 DEF IInv, RequestsFit
<1>7. ASSUME y # Idle
      PROVE  RequestFits(b, st, y) /\ y.input = x.input
  <2>1. ~BalanceRefuses(x.input, seen)
    BY <1>4, <1>7
  <2>2. PICK n, i : n = Len(x.seen) /\ i = x.input
    OBVIOUS
  <2>3. /\ IsSeq(seen) /\ n \in Nat /\ Len(seen) = n + 1
        /\ \A m \in 1..n : seen[m] = x.seen[m]
        /\ seen[n + 1] = st[BalanceWants(i, x.seen)]
    BY <1>2, <1>6, <2>2, AppendIsSeq DEF RequestFits
  <2>4. SeenByBalance(b, st, i, x.seen)
    BY <1>5, <1>6, <2>2 DEF RequestFits, SeenFits
  <2>5. n \in 0..3
    <3>1. n <= 3
      BY <2>2, <2>4 DEF SeenByBalance
    <3>2. n \in Nat
      BY <2>3
    <3>3. QED
      BY <3>1, <3>2
  <2>6. i.topup \in Pool["value-topup"] /\ Topup(i.topup) \in Keys
        /\ i.decision_id \in Nothing(Pool["value-topup-decision"])
    BY <1>5, <1>6, <2>2, KeyOf DEF RequestFits, Inputs
  <2>7. /\ Copied(b, st, Topup(i.topup), seen[1])
        /\ MayMove(seen[1]) /\ CitedTopupDecision(i, seen[1]) # None
    <3>1. CASE n = 0
      <4>1. seen[1] = st[Topup(i.topup)]
        BY <2>2, <2>3, <3>1 DEF BalanceWants
      <4>2. /\ seen[1] # Absent
            /\ MayMove(seen[1]) /\ CitedTopupDecision(i, seen[1]) # None
        BY <2>1, <2>2, <2>3, <3>1 DEF BalanceRefuses, Denied
      <4>3. QED
        BY <1>6, <2>6, <4>1, <4>2, ReadIsCopied
    <3>2. CASE n >= 1
      <4>1. /\ Copied(b, st, Topup(i.topup), x.seen[1])
            /\ MayMove(x.seen[1]) /\ CitedTopupDecision(i, x.seen[1]) # None
        BY <2>2, <2>4, <3>2 DEF SeenByBalance
      <4>2. seen[1] = x.seen[1]
        BY <2>3, <3>2
      <4>3. QED
        BY <4>1, <4>2
    <3>3. QED
      BY <2>5, <3>1, <3>2
  <2>8. seen[1] \in TopupRecord
    BY <2>7, KindOf DEF Copied, Fine, Shaped
  <2>9. PICK d : d = CitedTopupDecision(i, seen[1])
    OBVIOUS
  <2>10. d \in Pool["value-topup-decision"] /\ TopupDecision(d) \in Keys
    BY <2>6, <2>7, <2>8, <2>9, KeyOf DEF CitedTopupDecision, TopupRecord, Nothing
  <2>11. Surface(seen[1].from) \in Keys /\ Surface(seen[1].to) \in Keys
    BY <2>8, KeyOf DEF TopupRecord
  <2>12. n >= 1 => Copied(b, st, TopupDecision(d), seen[2]) /\ Approves(seen[2], i)
    <3>1. CASE n = 1
      <4>1. BalanceWants(i, x.seen) = TopupDecision(CitedTopupDecision(i, x.seen[1]))
        BY <2>2, <3>1 DEF BalanceWants
      <4>2. seen[1] = x.seen[1]
        BY <2>3, <3>1
      <4>3. seen[2] = st[TopupDecision(d)]
        BY <2>3, <2>9, <3>1, <4>1, <4>2
      <4>4. seen[2] # Absent /\ Approves(seen[2], i)
        BY <2>1, <2>2, <2>3, <3>1 DEF BalanceRefuses, Denied
      <4>5. QED
        BY <1>6, <2>10, <4>3, <4>4, ReadIsCopied
    <3>2. CASE n >= 2
      <4>1. seen[1] = x.seen[1] /\ seen[2] = x.seen[2]
        BY <2>3, <3>2
      <4>2. QED
        BY <2>2, <2>4, <2>9, <3>2, <4>1 DEF SeenByBalance
    <3>3. QED
      BY <2>5, <3>1, <3>2
  <2>13. n >= 2 /\ seen[3] # Absent => Copied(b, st, Surface(seen[1].from), seen[3])
    <3>1. CASE n = 2
      <4>1. BalanceWants(i, x.seen) = Surface(x.seen[1].from)
        BY <2>2, <3>1 DEF BalanceWants
      <4>2. seen[1] = x.seen[1]
        BY <2>3, <3>1
      <4>3. seen[3] = st[Surface(seen[1].from)]
        BY <2>3, <3>1, <4>1, <4>2
      <4>4. QED
        BY <1>6, <2>11, <4>3, ReadIsCopied
    <3>2. CASE n = 3
      <4>1. seen[1] = x.seen[1] /\ seen[3] = x.seen[3]
        BY <2>3, <3>2
      <4>2. QED
        BY <2>2, <2>4, <3>2, <4>1 DEF SeenByBalance
    <3>3. QED
      BY <2>5, <3>1, <3>2
  <2>14. CASE n = 3
    <3>1. BalanceWants(i, x.seen) = Surface(x.seen[1].to)
      BY <2>2, <2>14 DEF BalanceWants
    <3>2. seen[4] = st[Surface(seen[1].to)]
      <4>1. seen[1] = x.seen[1]
        BY <2>3, <2>14
      <4>2. QED
        BY <2>3, <2>14, <3>1, <4>1
    <3>3. Len(seen) = 4
      BY <2>3, <2>14
    <3>4. seen[3] # Absent /\ seen[4] # Absent /\ Covers(seen[3], seen[1])
      BY <2>1, <2>2, <3>3 DEF BalanceRefuses, Denied
    <3>5. Copied(b, st, Surface(seen[1].to), seen[4])
      BY <1>6, <2>11, <3>2, <3>4, ReadIsCopied
    <3>6. IsSeq(puts) /\ \A m \in DOMAIN puts : PutFits(b, st, i, puts, m)
      <4>1. /\ x.input.op = "balance" /\ x.puts = <<>>
            /\ Copied(b, st, Topup(x.input.topup), seen[1])
            /\ MayMove(seen[1]) /\ CitedTopupDecision(x.input, seen[1]) # None
        BY <1>5, <2>2, <2>7
      <4>2. /\ Copied(b, st, TopupDecision(CitedTopupDecision(x.input, seen[1])), seen[2])
            /\ Copied(b, st, Surface(seen[1].from), seen[3])
        <5>1. n >= 1 /\ n >= 2
          BY <2>14
        <5>2. QED
          BY <2>2, <2>9, <2>12, <2>13, <3>4, <5>1
      <4>3. /\ IsSeq(BalancePuts(x.input, seen))
            /\ \A m \in DOMAIN BalancePuts(x.input, seen) :
                 PutFits(b, st, x.input, BalancePuts(x.input, seen), m)
        BY <1>6, <3>4, <3>5, <4>1, <4>2, BalancePutsFit
      <4>4. QED
        BY <1>3, <2>2, <4>3
    <3>7. y = [input |-> x.input, seen |-> <<>>, puts |-> puts]
      <4>1. BalanceWants(i, seen) = None
        BY <3>3 DEF BalanceWants
      <4>2. y = [x EXCEPT !.seen = <<>>, !.puts = puts]
        BY <1>4, <2>1, <2>2, <4>1
      <4>3. QED
        BY <1>6, <4>2, RequestChanged DEF RequestFits
    <3>8. QED
      BY <1>5, <1>6, <2>2, <3>6, <3>7, Answers
  <2>15. CASE n < 3
    <3>1. SeenByBalance(b, st, i, seen)
      BY <2>3, <2>5, <2>7, <2>9, <2>12, <2>13, <2>15 DEF SeenByBalance
    <3>2. SeenFits(b, st, i, seen)
      BY <1>5, <2>2, <3>1 DEF SeenFits, ReadOnce
    <3>3. BalanceWants(i, seen) # None
      <4>1. BalanceWants(i, seen) \in
              {TopupDecision(d), Surface(seen[1].from), Surface(seen[1].to)}
        BY <2>3, <2>5, <2>9, <2>15 DEF BalanceWants
      <4>2. QED
        BY <4>1, <2>10, <2>11, CirculationAssumption
    <3>4. y = [input |-> x.input, seen |-> seen, puts |-> x.puts]
      <4>1. y = [x EXCEPT !.seen = seen]
        BY <1>4, <2>1, <2>2, <3>3
      <4>2. QED
        BY <1>6, <4>1, RequestChanged DEF RequestFits
    <3>5. QED
      BY <1>6, <2>2, <2>3, <3>2, <3>4, Reads
  <2>16. QED
    BY <2>5, <2>14, <2>15
<1>8. QED
  BY <1>1, <1>5, <1>7, Goes DEF IInv

-----------------------------------------------------------------------------
(* Spends.                                                                 *)

(* A spend request starts with nothing read.                             *)
LEMMA ReceiveSpendKeeps ==
  ASSUME IInv, NEW r \in Requests, ReceiveSpend(r)
  PROVE  IInv'
<1>1. PICK input : /\ input \in Inputs
                   /\ Receive(r, input, <<>>)
                   /\ input.op = "spend"
  <2>1. PICK by \in Identities, s \in NewIds("value-spend"), f \in SurfaceIds,
             a \in SpendAmounts, c \in Currencies :
          Receive(r, [op |-> "spend", identity_id |-> by, new |-> s, surface |-> f,
                      amount_cents |-> a, currency |-> c], <<>>)
    BY DEF ReceiveSpend
  <2>2. s \in Pool["value-spend"]
    BY BoundsFit DEF NewIds, Minted, Kinds
  <2>3. PICK input : input = [op |-> "spend", identity_id |-> by, new |-> s,
                              surface |-> f, amount_cents |-> a, currency |-> c]
    OBVIOUS
  <2>4. input \in Inputs
    BY <2>2, <2>3 DEF Inputs
  <2>5. QED
    BY <2>1, <2>3, <2>4
<1>2. ~Reserves(input)
  BY <1>1, CirculationAssumption DEF Reserves, NewKey
<1>3. QED
  BY <1>1, <1>2, ComesToRead

(* It puts an undecided spend over whatever has its name.                *)
LEMMA RequestSpendKeeps ==
  ASSUME IInv, NEW r \in Requests, RequestSpend(r)
  PROVE  IInv'
<1>1. PICK b, st, x : b = bounds /\ st = kv /\ x = request[r]
  OBVIOUS
<1>2. PICK seen : seen = Append(x.seen, st[WantsSurface(x.input, x.seen)])
  OBVIOUS
<1>3. PICK puts : puts = SpendPuts(x.input, seen)
  OBVIOUS
<1>4. PICK y : y = IF SpendRefuses(x.input, seen) THEN Idle
                   ELSE IF WantsSurface(x.input, seen) = None
                        THEN [x EXCEPT !.seen = <<>>, !.puts = puts]
                        ELSE [x EXCEPT !.seen = seen]
  OBVIOUS
<1>5. /\ Busy(r) /\ x.input.op = "spend" /\ x.puts = <<>>
      /\ request' = [request EXCEPT ![r] = y]
      /\ UNCHANGED <<kv, crashes, declared, scene>>
  BY <1>1, <1>2, <1>3, <1>4 DEF RequestSpend, Serve
<1>6. StoreFits(b, st) /\ RequestFits(b, st, x)
  BY <1>1, <1>5 DEF IInv, RequestsFit
<1>7. ASSUME y # Idle
      PROVE  RequestFits(b, st, y) /\ y.input = x.input
  <2>1. PICK i : i = x.input
    OBVIOUS
  <2>2. /\ i.op = "spend" /\ i.identity_id \in Identities
        /\ i.new \in Pool["value-spend"] /\ i.surface \in SurfaceIds
        /\ i.amount_cents \in SpendAmounts /\ i.currency \in Currencies
    BY <1>5, <1>6, <2>1 DEF RequestFits, Inputs
  <2>3. PICK v : v = [identity_id |-> i.identity_id, surface |-> i.surface,
                      amount_cents |-> i.amount_cents, currency |-> i.currency,
                      decision |-> "undecided", decision_id |-> None,
                      limit_check_id |-> None, balance_moved |-> FALSE,
                      spend_balance_id |-> None, receipt_ids |-> <<>>]
    OBVIOUS
  <2>4. IsSpend(v) /\ v.decision # "approved" /\ ~v.balance_moved
    <3>1. <<>> \in Seq(Pool["value-receipt"]) /\ Len(<<>>) <= MaxIndexItems
      BY CirculationAssumption
    <3>2. QED
      BY <2>2, <2>3, <3>1 DEF IsSpend, SpendRecord, Nothing
  <2>5. Fine(b, With(st, Writes(Spend(i.new), v)), Spend(i.new), v)
    BY <2>4, KindOf DEF Fine, Shaped, Genuine, SpendBacked
  <2>6. puts = <<Writes(Spend(i.new), v)>>
    BY <1>3, <2>1, <2>3 DEF SpendPuts
  <2>7. Spend(i.new) \in Keys /\ ~Lasting(Spend(i.new)) /\ ~Declares(i)
    BY <2>2, KeyOf, LastingKeys DEF Declares
  <2>8. IsSeq(puts) /\ \A n \in DOMAIN puts : PutFits(b, st, x.input, puts, n)
    BY <2>1, <2>5, <2>6, <2>7, OnePut
  <2>9. WantsSurface(x.input, seen) = None
    <3>1. Len(seen) # 0
      BY <1>2, <1>6, AppendIsSeq DEF RequestFits
    <3>2. QED
      BY <3>1 DEF WantsSurface
  <2>10. y = [input |-> x.input, seen |-> <<>>, puts |-> puts]
    <3>1. y = [x EXCEPT !.seen = <<>>, !.puts = puts]
      BY <1>4, <1>7, <2>9
    <3>2. QED
      BY <1>6, <3>1, RequestChanged DEF RequestFits
  <2>11. QED
    BY <1>5, <1>6, <2>8, <2>10, Answers
<1>8. QED
  BY <1>1, <1>5, <1>7, Goes DEF IInv

(* A limit check reserves the name of its record.                        *)
LEMMA ReceiveLimitCheckKeeps ==
  ASSUME IInv, NEW r \in Requests, ReceiveLimitCheck(r)
  PROVE  IInv'
<1>1. PICK by \in Identities, c \in Minted("value-limit-check"), s \in SurfaceIds,
           a \in SpendAmounts, k \in {"spend", "topup", "other"} :
        Receive(r, [op |-> "limit-check", identity_id |-> by, new |-> c,
                    surface |-> s, amount_cents |-> a, movement_kind |-> k], <<>>)
  BY DEF ReceiveLimitCheck
<1>2. c \in Pool["value-limit-check"] /\ Unused("value-limit-check", c)
  BY BoundsFit DEF Minted, Kinds
<1>3. PICK input : input = [op |-> "limit-check", identity_id |-> by, new |-> c,
                            surface |-> s, amount_cents |-> a, movement_kind |-> k]
  OBVIOUS
<1>4. input \in Inputs
  BY <1>2, <1>3 DEF Inputs
<1>5. NewKey(input) = <<"value-limit-check", c>>
  BY <1>3 DEF NewKey, LimitCheck
<1>6. QED
  BY <1>1, <1>2, <1>3, <1>4, <1>5, Fresh, ComesToRead DEF Kinds

(* A limit check records the verdict on the surface it read.             *)
LEMMA CheckLimitKeeps ==
  ASSUME IInv, NEW r \in Requests, CheckLimit(r)
  PROVE  IInv'
<1>1. PICK b, st, x : b = bounds /\ st = kv /\ x = request[r]
  OBVIOUS
<1>2. PICK seen : seen = Append(x.seen, st[WantsSurface(x.input, x.seen)])
  OBVIOUS
<1>3. PICK puts : puts = LimitCheckPuts(x.input, seen)
  OBVIOUS
<1>4. PICK y : y = IF SpendRefuses(x.input, seen) THEN Idle
                   ELSE IF WantsSurface(x.input, seen) = None
                        THEN [x EXCEPT !.seen = <<>>, !.puts = puts]
                        ELSE [x EXCEPT !.seen = seen]
  OBVIOUS
<1>5. /\ Busy(r) /\ x.input.op = "limit-check" /\ x.puts = <<>>
      /\ request' = [request EXCEPT ![r] = y]
      /\ UNCHANGED <<kv, crashes, declared, scene>>
  BY <1>1, <1>2, <1>3, <1>4 DEF CheckLimit, Serve
<1>6. StoreFits(b, st) /\ RequestFits(b, st, x)
  BY <1>1, <1>5 DEF IInv, RequestsFit
<1>7. ASSUME y # Idle
      PROVE  RequestFits(b, st, y) /\ y.input = x.input
  <2>1. PICK i : i = x.input
    OBVIOUS
  <2>2. /\ i.op = "limit-check" /\ i.identity_id \in Identities
        /\ i.new \in Pool["value-limit-check"] /\ i.surface \in SurfaceIds
        /\ i.amount_cents \in SpendAmounts
        /\ i.movement_kind \in {"spend", "topup", "other"}
    BY <1>5, <1>6, <2>1 DEF RequestFits, Inputs
  <2>3. PICK v : v = [identity_id |-> i.identity_id, surface |-> i.surface,
                      movement_kind |-> i.movement_kind,
                      amount_cents |-> i.amount_cents,
                      allowed |-> InsideLimits(i.movement_kind, i.amount_cents,
                                               seen[1].limits)]
    OBVIOUS
  <2>4. v \in CheckRecord
    <3>1. InsideLimits(i.movement_kind, i.amount_cents, seen[1].limits) \in BOOLEAN
      BY DEF InsideLimits
    <3>2. QED
      BY <2>2, <2>3, <3>1 DEF CheckRecord
  <2>5. Fine(b, With(st, Writes(LimitCheck(i.new), v)), LimitCheck(i.new), v)
    BY <2>4, KindOf DEF Fine, Shaped, Genuine
  <2>6. puts = <<Writes(LimitCheck(i.new), v)>>
    BY <1>3, <2>1, <2>3 DEF LimitCheckPuts
  <2>7. LimitCheck(i.new) \in Keys /\ LimitCheck(i.new) = NewKey(i) /\ ~Declares(i)
    BY <2>2, KeyOf DEF Declares, NewKey
  <2>8. IsSeq(puts) /\ \A n \in DOMAIN puts : PutFits(b, st, x.input, puts, n)
    BY <2>1, <2>5, <2>6, <2>7, OnePut
  <2>9. WantsSurface(x.input, seen) = None
    <3>1. Len(seen) # 0
      BY <1>2, <1>6, AppendIsSeq DEF RequestFits
    <3>2. QED
      BY <3>1 DEF WantsSurface
  <2>10. y = [input |-> x.input, seen |-> <<>>, puts |-> puts]
    <3>1. y = [x EXCEPT !.seen = <<>>, !.puts = puts]
      BY <1>4, <1>7, <2>9
    <3>2. QED
      BY <1>6, <3>1, RequestChanged DEF RequestFits
  <2>11. QED
    BY <1>5, <1>6, <2>8, <2>10, Answers
<1>8. QED
  BY <1>1, <1>5, <1>7, Goes DEF IInv

(* A decision on a spend reserves the name of its record.                *)
LEMMA ReceiveSpendDecisionKeeps ==
  ASSUME IInv, NEW r \in Requests, ReceiveSpendDecision(r)
  PROVE  IInv'
<1>1. PICK by \in Identities, s \in bounds.pool["value-spend"],
           d \in Minted("value-spend-decision"), v \in {"approved", "blocked"},
           c \in bounds.pool["value-limit-check"] \union {None} :
        Receive(r, [op |-> "spend-decision", identity_id |-> by, new |-> d,
                    spend |-> s, decision |-> v, limit_check_id |-> c], <<>>)
  BY DEF ReceiveSpendDecision
<1>2. s \in Pool["value-spend"] /\ c \in Nothing(Pool["value-limit-check"])
  BY BoundsFit DEF Kinds, Nothing
<1>3. d \in Pool["value-spend-decision"] /\ Unused("value-spend-decision", d)
  BY BoundsFit DEF Minted, Kinds
<1>4. PICK input : input = [op |-> "spend-decision", identity_id |-> by, new |-> d,
                            spend |-> s, decision |-> v, limit_check_id |-> c]
  OBVIOUS
<1>5. input \in Inputs
  BY <1>2, <1>3, <1>4 DEF Inputs, Verdicts
<1>6. NewKey(input) = <<"value-spend-decision", d>>
  BY <1>4 DEF NewKey, SpendDecision
<1>7. QED
  BY <1>1, <1>3, <1>4, <1>5, <1>6, Fresh, ComesToRead DEF Kinds

(* So does a debit, where no client names its record.                    *)
LEMMA ReceiveSpendBalanceKeeps ==
  ASSUME IInv, NEW r \in Requests, ReceiveSpendBalance(r)
  PROVE  IInv'
<1>1. PICK by \in Identities, s \in bounds.pool["value-spend"],
           c \in NewIds("value-spend-balance"),
           d \in Cited("value-spend-decision") \union {None} :
        Receive(r, [op |-> "spend-balance", identity_id |-> by, new |-> c,
                    spend |-> s, decision_id |-> d], <<>>)
  BY DEF ReceiveSpendBalance
<1>2. /\ s \in Pool["value-spend"] /\ c \in Pool["value-spend-balance"]
      /\ d \in Nothing(Pool["value-spend-decision"])
  BY BoundsFit DEF NewIds, Minted, Cited, Nothing, Kinds
<1>3. PICK input : input = [op |-> "spend-balance", identity_id |-> by, new |-> c,
                            spend |-> s, decision_id |-> d]
  OBVIOUS
<1>4. input \in Inputs
  BY <1>2, <1>3 DEF Inputs
<1>5. NewKey(input) = <<"value-spend-balance", c>>
  BY <1>3 DEF NewKey, SpendBalance
<1>6. Reserves(input) => Unused("value-spend-balance", c)
  <2>1. SUFFICES ASSUME Reserves(input)
                 PROVE  c \in Minted("value-spend-balance")
    BY DEF Minted
  <2>2. Unnamed
    BY <2>1, <1>5 DEF Reserves, Lasting
  <2>3. bounds.pool["value-spend-balance"] \intersect bounds.clients = {}
    BY <2>2, BoundsFit DEF Unnamed, bounds, IInv, Kinds
  <2>4. QED
    BY <1>1, <2>3 DEF NewIds
<1>7. QED
  BY <1>1, <1>2, <1>3, <1>4, <1>5, <1>6, Fresh, ComesToRead DEF Kinds

(* What a spend decision puts, of a good copy of the spend and of the limit
   check it cites, if any.                                                 *)
LEMMA SpendDecisionPutsFit ==
  ASSUME NEW b, NEW st, StoreFits(b, st), NEW x, RequestFits(b, st, x),
         x.puts = <<>>, x.input.op = "spend-decision", NEW seen,
         Len(seen) \in {2, 3},
         Copied(b, st, Spend(x.input.spend), seen[1]),
         Len(seen) = 3 =>
           /\ seen[3] = st[LimitCheck(NamedCheck(x.input, seen[1]))]
           /\ seen[3] # Absent => seen[3].identity_id = x.input.identity_id
  PROVE  /\ IsSeq(SpendDecisionPuts(x.input, seen))
         /\ \A n \in DOMAIN SpendDecisionPuts(x.input, seen) :
              PutFits(b, st, x.input, SpendDecisionPuts(x.input, seen), n)
<1>1. PICK i, s, c, checks : /\ i = x.input /\ s = seen[1]
                             /\ c = NamedCheck(i, s)
                             /\ checks = {seen[j] : j \in 3..Len(seen)}
  OBVIOUS
<1>2. PICK verdict, id :
        /\ verdict = SpendVerdict(i, s, seen[2], checks)
        /\ id = IF checks # {} /\ \A k \in checks : CheckFits(s, k) THEN c ELSE None
  OBVIOUS
<1>3. /\ i.op = "spend-decision" /\ i.identity_id \in Identities
      /\ i.new \in Pool["value-spend-decision"]
      /\ i.spend \in Pool["value-spend"] /\ i.decision \in Verdicts
      /\ i.limit_check_id \in Nothing(Pool["value-limit-check"])
  BY <1>1 DEF RequestFits, Inputs
<1>4. IsSpend(s)
  BY <1>1, KindOf DEF Copied, Fine, Shaped
<1>5. verdict \in Verdicts
  BY <1>2, <1>3 DEF SpendVerdict, Verdicts
<1>6. c \in Nothing(Pool["value-limit-check"]) /\ id \in {c, None}
  BY <1>1, <1>2, <1>3, <1>4 DEF NamedCheck, IsSpend, SpendRecord
<1>7. PICK d : d = [identity_id |-> i.identity_id, spend |-> i.spend,
                    surface |-> s.surface, decision |-> verdict,
                    limit_check_id |-> id, amount_cents |-> s.amount_cents,
                    currency |-> s.currency, balance_moved |-> FALSE,
                    spend_balance_id |-> None]
  OBVIOUS
<1>8. d \in SpendDecisionRecord
  BY <1>3, <1>4, <1>5, <1>6, <1>7 DEF SpendDecisionRecord, IsSpend, SpendRecord, Nothing
<1>9. PICK u : u = DecidedSpend(s, i.new, verdict, id)
  OBVIOUS
<1>10. /\ u.decision = verdict /\ u.decision_id = i.new
       /\ u.limit_check_id = id /\ u.balance_moved = FALSE
       /\ u.identity_id = s.identity_id /\ u.surface = s.surface
       /\ u.amount_cents = s.amount_cents /\ u.currency = s.currency
       /\ u.spend_balance_id = s.spend_balance_id /\ u.receipt_ids = s.receipt_ids
  BY <1>4, <1>9 DEF IsSpend, SpendRecord, DecidedSpend
<1>11. IsSpend(u)
  BY <1>3, <1>4, <1>5, <1>6, <1>9, <1>10 DEF IsSpend, SpendRecord, DecidedSpend, Nothing
<1>12. SpendDecision(i.new) \in Keys /\ Spend(i.spend) \in Keys
       /\ NewKey(i) = SpendDecision(i.new) /\ ~Declares(i)
  BY <1>3, KeyOf DEF NewKey, Declares
<1>13. PICK after : after = With(st, Writes(SpendDecision(i.new), d))
  OBVIOUS
<1>14. after[SpendDecision(i.new)] = d
  BY <1>12, <1>13, WritesOf DEF With, StoreFits
<1>15. CheckPassed(after, d)
  <2>1. SUFFICES ASSUME verdict = "approved", id # None
                 PROVE  /\ after[LimitCheck(id)] # Absent
                        /\ after[LimitCheck(id)].allowed
                        /\ after[LimitCheck(id)].surface = s.surface
                        /\ after[LimitCheck(id)].identity_id = i.identity_id
    BY <1>7 DEF CheckPassed
  <2>2. /\ checks # {} /\ id = c
        /\ \A k \in checks : CheckFits(s, k)
    BY <1>2, <2>1
  <2>3. Len(seen) = 3 /\ seen[3] \in checks
    BY <1>1, <2>2
  <2>4. seen[3] # Absent /\ seen[3].surface = s.surface
    BY <2>2, <2>3 DEF CheckFits
  <2>5. SpendGate(s, seen[2], checks)
    BY <1>2, <2>1 DEF SpendVerdict
  <2>6. seen[3].allowed
    BY <2>3, <2>5 DEF SpendGate
  <2>7. seen[3] = st[LimitCheck(id)] /\ seen[3].identity_id = i.identity_id
    BY <1>1, <2>2, <2>3, <2>4
  <2>8. id \in Pool["value-limit-check"]
    BY <1>6, <2>1 DEF Nothing
  <2>9. LimitCheck(id) \in Keys /\ LimitCheck(id) # SpendDecision(i.new)
    BY <2>8, KeyOf, KindOf
  <2>10. after[LimitCheck(id)] = st[LimitCheck(id)]
    BY <1>13, <2>9, WritesOf DEF With, StoreFits
  <2>11. QED
    BY <2>4, <2>6, <2>7, <2>10
<1>16. Fine(b, after, SpendDecision(i.new), d)
  BY <1>8, <1>15, KindOf DEF Fine, Shaped, Genuine
<1>17. SpendBacked(after, i.spend, u)
  <2>1. d # Absent
    BY <1>8, CirculationAssumption
  <2>2. d.spend = i.spend /\ d.decision = verdict /\ d.surface = s.surface
        /\ d.amount_cents = s.amount_cents
    BY <1>7
  <2>3. QED
    BY <1>3, <1>10, <1>14, <2>1, <2>2
    DEF SpendBacked, In, ApprovalOfSpend, SpendDecision
<1>18. Fine(b, after, Spend(i.spend), u)
  BY <1>11, <1>17, KindOf DEF Fine, Shaped, Genuine
<1>19. PICK puts : puts = <<Writes(SpendDecision(i.new), d), Writes(Spend(i.spend), u)>>
  OBVIOUS
<1>20. IsSeq(puts) /\ \A n \in DOMAIN puts : PutFits(b, st, i, puts, n)
  BY <1>12, <1>13, <1>16, <1>18, <1>19, LastingKeys, TwoPuts
<1>21. SpendDecisionPuts(x.input, seen) = puts
  BY <1>1, <1>2, <1>7, <1>9, <1>19 DEF SpendDecisionPuts
<1>22. QED
  BY <1>1, <1>20, <1>21

(* A decision reads the spend and the limit check it is to rest on.      *)
LEMMA DecideSpendKeeps ==
  ASSUME IInv, NEW r \in Requests, DecideSpend(r)
  PROVE  IInv'
<1>1. PICK b, st, x : b = bounds /\ st = kv /\ x = request[r]
  OBVIOUS
<1>2. PICK seen : seen = Append(x.seen, st[SpendDecisionWants(x.input, x.seen)])
  OBVIOUS
<1>3. PICK puts : puts = SpendDecisionPuts(x.input, seen)
  OBVIOUS
<1>4. PICK y : y = IF SpendDecisionRefuses(x.input, seen) THEN Idle
                   ELSE IF SpendDecisionWants(x.input, seen) = None
                        THEN [x EXCEPT !.seen = <<>>, !.puts = puts]
                        ELSE [x EXCEPT !.seen = seen]
  OBVIOUS
<1>5. /\ Busy(r) /\ x.input.op = "spend-decision" /\ x.puts = <<>>
      /\ request' = [request EXCEPT ![r] = y]
      /\ UNCHANGED <<kv, crashes, declared, scene>>
  BY <1>1, <1>2, <1>3, <1>4 DEF DecideSpend, Serve
<1>6. StoreFits(b, st) /\ RequestFits(b, st, x)
  BY <1>1, <1>5 DEF IInv, RequestsFit
<1>7. ASSUME y # Idle
      PROVE  RequestFits(b, st, y) /\ y.input = x.input
  <2>1. ~SpendDecisionRefuses(x.input, seen)
    BY <1>4, <1>7
  <2>2. PICK n, i : n = Len(x.seen) /\ i = x.input
    OBVIOUS
  <2>3. /\ IsSeq(seen) /\ n \in Nat /\ Len(seen) = n + 1
        /\ \A m \in 1..n : seen[m] = x.seen[m]
        /\ seen[n + 1] = st[SpendDecisionWants(i, x.seen)]
    BY <1>2, <1>6, <2>2, AppendIsSeq DEF RequestFits
  <2>4. SeenBySpendDecision(b, st, i, x.seen)
    BY <1>5, <1>6, <2>2 DEF RequestFits, SeenFits
  <2>5. n \in 0..2
    <3>1. n <= 2
      BY <2>2, <2>4 DEF SeenBySpendDecision
    <3>2. n \in Nat
      BY <2>3
    <3>3. QED
      BY <3>1, <3>2
  <2>6. Spend(i.spend) \in Keys /\ i.limit_check_id \in Nothing(Pool["value-limit-check"])
    BY <1>5, <1>6, <2>2, KeyOf DEF RequestFits, Inputs
  <2>7. Copied(b, st, Spend(i.spend), seen[1])
    <3>1. CASE n = 0
      <4>1. seen[1] = st[Spend(i.spend)]
        BY <2>2, <2>3, <3>1 DEF SpendDecisionWants
      <4>2. seen[1] # Absent
        BY <2>1, <2>2, <2>3, <3>1 DEF SpendDecisionRefuses, Denied
      <4>3. QED
        BY <1>6, <2>6, <4>1, <4>2, ReadIsCopied
    <3>2. CASE n >= 1
      <4>1. Copied(b, st, Spend(i.spend), x.seen[1])
        BY <2>2, <2>4, <3>2 DEF SeenBySpendDecision
      <4>2. seen[1] = x.seen[1]
        BY <2>3, <3>2
      <4>3. QED
        BY <4>1, <4>2
    <3>3. QED
      BY <2>5, <3>1, <3>2
  <2>8. IsSpend(seen[1])
    BY <2>7, KindOf DEF Copied, Fine, Shaped
  <2>9. PICK c : c = NamedCheck(i, seen[1])
    OBVIOUS
  <2>10. n = 2 => /\ seen[3] = st[LimitCheck(c)]
                  /\ seen[3] # Absent => seen[3].identity_id = i.identity_id
    <3>1. SUFFICES ASSUME n = 2
                   PROVE  /\ seen[3] = st[LimitCheck(c)]
                          /\ seen[3] # Absent => seen[3].identity_id = i.identity_id
      OBVIOUS
    <3>2. x.seen[2] # Absent /\ NamedCheck(i, x.seen[1]) # None
      BY <2>2, <2>4, <3>1 DEF SeenBySpendDecision
    <3>3. SpendDecisionWants(i, x.seen) = LimitCheck(NamedCheck(i, x.seen[1]))
      BY <2>2, <3>1, <3>2 DEF SpendDecisionWants
    <3>4. seen[1] = x.seen[1] /\ seen[3] = st[SpendDecisionWants(i, x.seen)]
      BY <2>3, <3>1
    <3>5. ~(seen[3] # Absent /\ Denied(seen[3], i))
      BY <2>1, <2>2, <2>3, <3>1 DEF SpendDecisionRefuses
    <3>6. QED
      BY <2>9, <3>3, <3>4, <3>5 DEF Denied
  <2>11. CASE SpendDecisionWants(i, seen) = None
    <3>1. Len(seen) \in {2, 3}
      <4>1. n # 0
        <5>1. SUFFICES ASSUME n = 0 PROVE SpendDecisionWants(i, seen) \in Keys
          BY <2>11, CirculationAssumption
        <5>2. SpendDecisionWants(i, seen) = Surface(seen[1].surface)
          BY <2>3, <5>1 DEF SpendDecisionWants
        <5>3. QED
          BY <2>8, <5>2, KeyOf DEF IsSpend, SpendRecord
      <4>2. QED
        BY <2>3, <2>5, <4>1
    <3>2. Len(seen) = 3 => n = 2
      <4>1. Len(seen) = n + 1
        BY <2>3
      <4>2. QED
        BY <4>1, <2>5
    <3>3. IsSeq(puts) /\ \A m \in DOMAIN puts : PutFits(b, st, i, puts, m)
      <4>1. /\ x.input.op = "spend-decision" /\ x.puts = <<>>
            /\ Copied(b, st, Spend(x.input.spend), seen[1])
        BY <1>5, <2>2, <2>7
      <4>2. Len(seen) = 3 =>
              /\ seen[3] = st[LimitCheck(NamedCheck(x.input, seen[1]))]
              /\ seen[3] # Absent => seen[3].identity_id = x.input.identity_id
        <5>1. ASSUME Len(seen) = 3
              PROVE  /\ seen[3] = st[LimitCheck(c)]
                     /\ seen[3] # Absent => seen[3].identity_id = i.identity_id
          BY <2>10, <3>2, <5>1
        <5>2. QED
          BY <2>2, <2>9, <5>1
      <4>3. /\ IsSeq(SpendDecisionPuts(x.input, seen))
            /\ \A m \in DOMAIN SpendDecisionPuts(x.input, seen) :
                 PutFits(b, st, x.input, SpendDecisionPuts(x.input, seen), m)
        BY <1>6, <3>1, <4>1, <4>2, SpendDecisionPutsFit
      <4>4. QED
        BY <1>3, <2>2, <4>3
    <3>4. y = [input |-> x.input, seen |-> <<>>, puts |-> puts]
      <4>1. y = [x EXCEPT !.seen = <<>>, !.puts = puts]
        BY <1>4, <2>1, <2>2, <2>11
      <4>2. QED
        BY <1>6, <4>1, RequestChanged DEF RequestFits
    <3>5. QED
      BY <1>5, <1>6, <2>2, <3>3, <3>4, Answers
  <2>12. CASE SpendDecisionWants(i, seen) # None
    <3>1. SeenBySpendDecision(b, st, i, seen)
      <4>1. n < 2
        BY <2>3, <2>5, <2>12 DEF SpendDecisionWants
      <4>2. n = 1 => seen[2] # Absent /\ NamedCheck(i, seen[1]) # None
        BY <2>3, <2>12 DEF SpendDecisionWants
      <4>3. QED
        BY <2>3, <2>7, <4>1, <4>2 DEF SeenBySpendDecision
    <3>2. SeenFits(b, st, i, seen)
      BY <1>5, <2>2, <3>1 DEF SeenFits, ReadOnce
    <3>3. y = [input |-> x.input, seen |-> seen, puts |-> x.puts]
      <4>1. y = [x EXCEPT !.seen = seen]
        BY <1>4, <2>1, <2>2, <2>12
      <4>2. QED
        BY <1>6, <4>1, RequestChanged DEF RequestFits
    <3>4. QED
      BY <1>6, <2>2, <2>3, <3>2, <3>3, Reads
  <2>13. QED
    BY <2>11, <2>12
<1>8. QED
  BY <1>1, <1>5, <1>7, Goes DEF IInv

(* What a debit puts, of good copies of the spend, the decision it cites and
   the surface.                                                            *)
LEMMA SpendBalancePutsFit ==
  ASSUME NEW b, NEW st, StoreFits(b, st), NEW x, RequestFits(b, st, x),
         x.puts = <<>>, x.input.op = "spend-balance", NEW seen,
         Copied(b, st, Spend(x.input.spend), seen[1]),
         MayDebit(seen[1]), CitedSpendDecision(x.input, seen[1]) # None,
         Copied(b, st, SpendDecision(CitedSpendDecision(x.input, seen[1])), seen[2]),
         Copied(b, st, Surface(seen[1].surface), seen[3]),
         EnoughFor(seen[1], seen[3])
  PROVE  /\ IsSeq(SpendBalancePuts(x.input, seen))
         /\ \A n \in DOMAIN SpendBalancePuts(x.input, seen) :
              PutFits(b, st, x.input, SpendBalancePuts(x.input, seen), n)
<1>1. PICK i, s, d, s3 : /\ i = x.input /\ s = seen[1]
                         /\ d = CitedSpendDecision(i, s)
                         /\ s3 = seen[3]
  OBVIOUS
<1>2. /\ i.op = "spend-balance" /\ i.identity_id \in Identities
      /\ i.new \in Pool["value-spend-balance"] /\ i.spend \in Pool["value-spend"]
      /\ i.decision_id \in Nothing(Pool["value-spend-decision"])
  BY <1>1 DEF RequestFits, Inputs
<1>3. /\ IsSpend(s) /\ SpendBacked(st, i.spend, s) /\ s.decision = "approved"
  BY <1>1, KindOf DEF Copied, Fine, Shaped, Genuine, MayDebit
<1>4. d \in Pool["value-spend-decision"]
  BY <1>1, <1>2, <1>3 DEF CitedSpendDecision, IsSpend, SpendRecord, Nothing
<1>5. /\ s3 \in SurfaceRecord /\ [kind |-> s3.kind, role |-> s3.role] \in b.registrations
      /\ s3.balance_cents >= s.amount_cents
  BY <1>1, KindOf DEF Copied, Fine, Shaped, Genuine, EnoughFor
<1>6. s.amount_cents \in Int /\ s.surface \in SurfaceIds
  BY <1>3, CirculationAssumption DEF IsSpend, SpendRecord
<1>7. PICK a : a = s.amount_cents
  OBVIOUS
<1>8. PICK m : m = [identity_id |-> i.identity_id, spend |-> i.spend,
                    decision_id |-> d, surface |-> s.surface,
                    amount_cents |-> a, currency |-> s.currency]
  OBVIOUS
<1>9. PICK v : v = [s3 EXCEPT !.balance_cents = s3.balance_cents - a]
  OBVIOUS
<1>10. PICK u, e : u = Debited(s, i.new) /\ e = Debited(seen[2], i.new)
  OBVIOUS
<1>11. PICK k1, k2, k3, k4 : /\ k1 = SpendBalance(i.new) /\ k2 = Surface(s.surface)
                             /\ k3 = Spend(i.spend) /\ k4 = SpendDecision(d)
  OBVIOUS
<1>12. /\ {k1, k2, k3, k4} \subseteq Keys
       /\ ~Lasting(k2) /\ ~Lasting(k3) /\ Lasting(k4)
       /\ k1[1] = "value-spend-balance" /\ k2[1] = "value-surface"
       /\ k3[1] = "value-spend" /\ k3[2] = i.spend
       /\ k4[1] = "value-spend-decision"
  BY <1>2, <1>4, <1>6, <1>11, KeyOf, KindOf, LastingKeys
<1>13. NewKey(i) = k1 /\ ~Declares(i) /\ k4 # k1
  BY <1>2, <1>11, <1>12 DEF NewKey, Declares
<1>14. m \in SpendBalanceRecord
  BY <1>2, <1>3, <1>4, <1>7, <1>8 DEF SpendBalanceRecord, IsSpend, SpendRecord
<1>15. PICK after : after = With(st, Writes(k1, m))
  OBVIOUS
<1>16. Extends(st, after) /\ after[k1] = m
  <2>1. Shaped(b, k1, m)
    BY <1>12, <1>14 DEF Shaped
  <2>2. Extends(st, after)
    BY <1>1, <1>12, <1>13, <1>15, <2>1, FirstExtends
  <2>3. after[k1] = m
    BY <1>12, <1>15, WritesOf DEF With, StoreFits
  <2>4. QED
    BY <2>2, <2>3
<1>17. m.spend = i.spend /\ m.surface = s.surface /\ m.amount_cents = s.amount_cents
  BY <1>7, <1>8
<1>18. Fine(b, after, k1, m)
  <2>1. /\ In(st, "value-spend-decision", s.decision_id)
        /\ ApprovalOfSpend(st[SpendDecision(s.decision_id)], i.spend, s)
    BY <1>3 DEF SpendBacked
  <2>2. BalanceDebited(st, m)
    BY <1>17, <2>1 DEF BalanceDebited, In, ApprovalOfSpend, SpendDecision
  <2>3. BalanceDebited(after, m)
    BY <2>2, <1>16, DebitStaysBacked
  <2>4. QED
    BY <2>3, <1>12, <1>14 DEF Fine, Shaped, Genuine
<1>19. Fine(b, after, k2, v)
  <2>1. /\ v.status = s3.status
        /\ v.balance_cents = s3.balance_cents - a
        /\ v.identity_id = s3.identity_id /\ v.currency = s3.currency
        /\ v.limits = s3.limits /\ v.kind = s3.kind /\ v.role = s3.role
    BY <1>5, <1>9 DEF SurfaceRecord
  <2>2. s3.balance_cents \in Int
    BY <1>5 DEF SurfaceRecord
  <2>3. v.balance_cents \in Int /\ v.balance_cents >= 0
    BY <2>1, <2>2, <1>5, <1>6, <1>7
  <2>4. v \in SurfaceRecord
    BY <2>1, <2>3, <1>5, <1>9 DEF SurfaceRecord
  <2>5. QED
    BY <2>1, <2>3, <2>4, <1>5, <1>11, SurfaceFine
<1>20. Fine(b, after, k3, u)
  <2>1. /\ u.decision = s.decision
        /\ u.decision_id = s.decision_id /\ u.limit_check_id = s.limit_check_id
        /\ u.balance_moved = TRUE /\ u.spend_balance_id = i.new
        /\ u.identity_id = s.identity_id /\ u.surface = s.surface
        /\ u.amount_cents = s.amount_cents /\ u.currency = s.currency
        /\ u.receipt_ids = s.receipt_ids
    BY <1>3, <1>10 DEF IsSpend, SpendRecord, Debited
  <2>2. IsSpend(u)
    BY <1>2, <1>3, <1>10, <2>1 DEF IsSpend, SpendRecord, Debited, Nothing
  <2>3. SpendBacked(after, i.spend, s)
    BY <1>3, <1>16, SpendStaysBacked
  <2>4. m # Absent
    BY <1>14, CirculationAssumption
  <2>5. SpendBacked(after, i.spend, u)
    BY <1>2, <1>11, <1>16, <1>17, <2>1, <2>3, <2>4 DEF SpendBacked, ApprovalOfSpend
  <2>6. QED
    BY <2>2, <2>5, <1>12 DEF Fine, Shaped, Genuine
<1>21. Fine(b, after, k4, e) /\ Agrees(st, k4, e)
  <2>1. /\ seen[2] \in SpendDecisionRecord /\ Agrees(st, k4, seen[2])
        /\ CheckPassed(st, seen[2])
    BY <1>1, <1>11, <1>12 DEF Copied, Fine, Shaped, Genuine
  <2>2. e \in SpendDecisionRecord
    BY <1>2, <1>10, <2>1 DEF SpendDecisionRecord, Debited, Nothing
  <2>3. /\ e.spend = seen[2].spend /\ e.decision = seen[2].decision
        /\ e.surface = seen[2].surface /\ e.amount_cents = seen[2].amount_cents
        /\ e.identity_id = seen[2].identity_id
        /\ e.limit_check_id = seen[2].limit_check_id
    BY <1>10, <2>1 DEF SpendDecisionRecord, Debited
  <2>4. Agrees(st, k4, e)
    BY <2>1, <2>3, <1>12 DEF Agrees, Same
  <2>5. CheckPassed(st, e)
    BY <2>1, <2>3 DEF CheckPassed
  <2>6. CheckPassed(after, e)
    BY <2>2, <2>5, <1>16, CheckStaysPassed
  <2>7. QED
    BY <2>2, <2>4, <2>6, <1>12 DEF Fine, Shaped, Genuine
<1>22. PICK p1, p2, p3, p4 : /\ p1 = Writes(k1, m) /\ p2 = Writes(k2, v)
                             /\ p3 = Writes(k3, u) /\ p4 = Writes(k4, e)
  OBVIOUS
<1>23. /\ p1.key = k1 /\ p1.value = m /\ p2.key = k2 /\ p2.value = v
       /\ p3.key = k3 /\ p3.value = u /\ p4.key = k4 /\ p4.value = e
  BY <1>22, WritesOf
<1>24. PICK puts : puts = <<p1, p2, p3, p4>>
  OBVIOUS
<1>25. IsSeq(puts)
  <2>1. puts \in Seq({p1, p2, p3, p4})
    BY <1>24
  <2>2. QED
    BY <2>1 DEF IsSeq
<1>26. DOMAIN puts = 1..4 /\ puts[1] = p1 /\ puts[2] = p2 /\ puts[3] = p3
       /\ puts[4] = p4
  BY <1>24
<1>27. /\ PutFits(b, st, i, puts, 1) /\ PutFits(b, st, i, puts, 2)
       /\ PutFits(b, st, i, puts, 3)
  BY <1>12, <1>13, <1>15, <1>18, <1>19, <1>20, <1>22, <1>23, <1>26 DEF PutFits
<1>28. PutFits(b, st, i, puts, 4)
  BY <1>12, <1>13, <1>15, <1>21, <1>22, <1>23, <1>26 DEF PutFits
<1>29. SpendBalancePuts(x.input, seen) = puts
  BY <1>1, <1>7, <1>8, <1>9, <1>10, <1>11, <1>22, <1>24 DEF SpendBalancePuts
<1>30. \A n \in DOMAIN puts : PutFits(b, st, i, puts, n)
  BY <1>26, <1>27, <1>28
<1>31. QED
  BY <1>1, <1>25, <1>29, <1>30

(* A debit reads the spend, its decision and the surface.                *)
LEMMA DebitSpendKeeps ==
  ASSUME IInv, NEW r \in Requests, DebitSpend(r)
  PROVE  IInv'
<1>1. PICK b, st, x : b = bounds /\ st = kv /\ x = request[r]
  OBVIOUS
<1>2. PICK seen : seen = Append(x.seen, st[SpendBalanceWants(x.input, x.seen)])
  OBVIOUS
<1>3. PICK puts : puts = SpendBalancePuts(x.input, seen)
  OBVIOUS
<1>4. PICK y : y = IF SpendBalanceRefuses(x.input, seen) THEN Idle
                   ELSE IF SpendBalanceWants(x.input, seen) = None
                        THEN [x EXCEPT !.seen = <<>>, !.puts = puts]
                        ELSE [x EXCEPT !.seen = seen]
  OBVIOUS
<1>5. /\ Busy(r) /\ x.input.op = "spend-balance" /\ x.puts = <<>>
      /\ request' = [request EXCEPT ![r] = y]
      /\ UNCHANGED <<kv, crashes, declared, scene>>
  BY <1>1, <1>2, <1>3, <1>4 DEF DebitSpend, Serve
<1>6. StoreFits(b, st) /\ RequestFits(b, st, x)
  BY <1>1, <1>5 DEF IInv, RequestsFit
<1>7. ASSUME y # Idle
      PROVE  RequestFits(b, st, y) /\ y.input = x.input
  <2>1. ~SpendBalanceRefuses(x.input, seen)
    BY <1>4, <1>7
  <2>2. PICK n, i : n = Len(x.seen) /\ i = x.input
    OBVIOUS
  <2>3. /\ IsSeq(seen) /\ n \in Nat /\ Len(seen) = n + 1
        /\ \A m \in 1..n : seen[m] = x.seen[m]
        /\ seen[n + 1] = st[SpendBalanceWants(i, x.seen)]
    BY <1>2, <1>6, <2>2, AppendIsSeq DEF RequestFits
  <2>4. SeenBySpendBalance(b, st, i, x.seen)
    BY <1>5, <1>6, <2>2 DEF RequestFits, SeenFits
  <2>5. n \in 0..2
    <3>1. n <= 2
      BY <2>2, <2>4 DEF SeenBySpendBalance
    <3>2. n \in Nat
      BY <2>3
    <3>3. QED
      BY <3>1, <3>2
  <2>6. Spend(i.spend) \in Keys /\ i.decision_id \in Nothing(Pool["value-spend-decision"])
    BY <1>5, <1>6, <2>2, KeyOf DEF RequestFits, Inputs
  <2>7. /\ Copied(b, st, Spend(i.spend), seen[1])
        /\ MayDebit(seen[1]) /\ CitedSpendDecision(i, seen[1]) # None
    <3>1. CASE n = 0
      <4>1. seen[1] = st[Spend(i.spend)]
        BY <2>2, <2>3, <3>1 DEF SpendBalanceWants
      <4>2. /\ seen[1] # Absent
            /\ MayDebit(seen[1]) /\ CitedSpendDecision(i, seen[1]) # None
        BY <2>1, <2>2, <2>3, <3>1 DEF SpendBalanceRefuses, Denied
      <4>3. QED
        BY <1>6, <2>6, <4>1, <4>2, ReadIsCopied
    <3>2. CASE n >= 1
      <4>1. /\ Copied(b, st, Spend(i.spend), x.seen[1])
            /\ MayDebit(x.seen[1]) /\ CitedSpendDecision(i, x.seen[1]) # None
        BY <2>2, <2>4, <3>2 DEF SeenBySpendBalance
      <4>2. seen[1] = x.seen[1]
        BY <2>3, <3>2
      <4>3. QED
        BY <4>1, <4>2
    <3>3. QED
      BY <2>5, <3>1, <3>2
  <2>8. IsSpend(seen[1])
    BY <2>7, KindOf DEF Copied, Fine, Shaped
  <2>9. PICK d : d = CitedSpendDecision(i, seen[1])
    OBVIOUS
  <2>10. d \in Pool["value-spend-decision"] /\ SpendDecision(d) \in Keys
    BY <2>6, <2>7, <2>8, <2>9, KeyOf DEF CitedSpendDecision, IsSpend, SpendRecord, Nothing
  <2>11. Surface(seen[1].surface) \in Keys
    BY <2>8, KeyOf DEF IsSpend, SpendRecord
  <2>12. n >= 1 => /\ Copied(b, st, SpendDecision(d), seen[2])
                   /\ seen[2].spend = i.spend /\ seen[2].decision = "approved"
    <3>1. CASE n = 1
      <4>1. SpendBalanceWants(i, x.seen) = SpendDecision(CitedSpendDecision(i, x.seen[1]))
        BY <2>2, <3>1 DEF SpendBalanceWants
      <4>2. seen[1] = x.seen[1]
        BY <2>3, <3>1
      <4>3. seen[2] = st[SpendDecision(d)]
        BY <2>3, <2>9, <3>1, <4>1, <4>2
      <4>4. /\ seen[2] # Absent
            /\ seen[2].spend = i.spend /\ seen[2].decision = "approved"
        BY <2>1, <2>2, <2>3, <3>1 DEF SpendBalanceRefuses, Denied
      <4>5. QED
        BY <1>6, <2>10, <4>3, <4>4, ReadIsCopied
    <3>2. CASE n = 2
      <4>1. seen[1] = x.seen[1] /\ seen[2] = x.seen[2]
        BY <2>3, <3>2
      <4>2. QED
        BY <2>2, <2>4, <2>9, <3>2, <4>1 DEF SeenBySpendBalance
    <3>3. QED
      BY <2>5, <3>1, <3>2
  <2>13. CASE n = 2
    <3>1. SpendBalanceWants(i, x.seen) = Surface(x.seen[1].surface)
      BY <2>2, <2>13 DEF SpendBalanceWants
    <3>2. seen[3] = st[Surface(seen[1].surface)]
      <4>1. seen[1] = x.seen[1]
        BY <2>3, <2>13
      <4>2. QED
        BY <2>3, <2>13, <3>1, <4>1
    <3>3. Len(seen) = 3
      BY <2>3, <2>13
    <3>4. seen[3] # Absent /\ EnoughFor(seen[1], seen[3])
      BY <2>1, <2>2, <3>3 DEF SpendBalanceRefuses, Denied
    <3>5. Copied(b, st, Surface(seen[1].surface), seen[3])
      BY <1>6, <2>11, <3>2, <3>4, ReadIsCopied
    <3>6. IsSeq(puts) /\ \A m \in DOMAIN puts : PutFits(b, st, i, puts, m)
      BY <1>3, <1>5, <1>6, <2>2, <2>7, <2>9, <2>12, <2>13, <3>4, <3>5,
         SpendBalancePutsFit
    <3>7. y = [input |-> x.input, seen |-> <<>>, puts |-> puts]
      <4>1. SpendBalanceWants(i, seen) = None
        BY <3>3 DEF SpendBalanceWants
      <4>2. y = [x EXCEPT !.seen = <<>>, !.puts = puts]
        BY <1>4, <2>1, <2>2, <4>1
      <4>3. QED
        BY <1>6, <4>2, RequestChanged DEF RequestFits
    <3>8. QED
      BY <1>5, <1>6, <2>2, <3>6, <3>7, Answers
  <2>14. CASE n < 2
    <3>1. SeenBySpendBalance(b, st, i, seen)
      BY <2>3, <2>5, <2>7, <2>9, <2>12, <2>14 DEF SeenBySpendBalance
    <3>2. SeenFits(b, st, i, seen)
      BY <1>5, <2>2, <3>1 DEF SeenFits, ReadOnce
    <3>3. SpendBalanceWants(i, seen) # None
      <4>1. SpendBalanceWants(i, seen) \in {SpendDecision(d), Surface(seen[1].surface)}
        BY <2>3, <2>5, <2>9, <2>14 DEF SpendBalanceWants
      <4>2. QED
        BY <4>1, <2>10, <2>11, CirculationAssumption
    <3>4. y = [input |-> x.input, seen |-> seen, puts |-> x.puts]
      <4>1. y = [x EXCEPT !.seen = seen]
        BY <1>4, <2>1, <2>2, <3>3
      <4>2. QED
        BY <1>6, <4>1, RequestChanged DEF RequestFits
    <3>5. QED
      BY <1>6, <2>2, <2>3, <3>2, <3>4, Reads
  <2>15. QED
    BY <2>5, <2>13, <2>14
<1>8. QED
  BY <1>1, <1>5, <1>7, Goes DEF IInv

-----------------------------------------------------------------------------
(* Receipts and refunds.                                                   *)

(* The debited spend a worker reads, once.                                 *)
LEMMA SpendRead ==
  ASSUME NEW b, NEW st, StoreFits(b, st), NEW x, RequestFits(b, st, x),
         x.input.op \in {"receipt", "refund"}, NEW seen,
         seen = Append(x.seen, st[WantsSpend(x.input, x.seen)]),
         ~NotCompleted(x.input, seen)
  PROVE  /\ x.input.spend \in Pool["value-spend"]
         /\ IsSpend(seen[1]) /\ SpendBacked(st, x.input.spend, seen[1])
         /\ seen[1].balance_moved
         /\ WantsSpend(x.input, seen) = None
<1>1. x.input.spend \in Pool["value-spend"]
  BY DEF RequestFits, Inputs
<1>2. x.seen = <<>>
  BY DEF RequestFits, SeenFits, ReadOnce
<1>3. seen = <<st[Spend(x.input.spend)]>>
  BY <1>2 DEF WantsSpend
<1>4. seen[1] = st[Spend(x.input.spend)] /\ seen # <<>>
  BY <1>3
<1>5. seen[1] # Absent /\ seen[1].balance_moved
  BY DEF NotCompleted, Denied
<1>6. Fine(b, st, Spend(x.input.spend), seen[1])
  BY <1>1, <1>4, <1>5, KeyOf DEF StoreFits
<1>7. QED
  BY <1>1, <1>4, <1>5, <1>6, KindOf DEF Fine, Shaped, Genuine, WantsSpend

(* A receipt starts with nothing read.                                   *)
LEMMA ReceiveReceiptKeeps ==
  ASSUME IInv, NEW r \in Requests, ReceiveReceipt(r)
  PROVE  IInv'
<1>1. PICK input : /\ input \in Inputs
                   /\ Receive(r, input, <<>>)
                   /\ input.op = "receipt"
  <2>1. PICK by \in Identities, s \in bounds.pool["value-spend"],
             p \in NewIds("value-receipt") :
          Receive(r, [op |-> "receipt", identity_id |-> by, new |-> p, spend |-> s],
                  <<>>)
    BY DEF ReceiveReceipt
  <2>2. s \in Pool["value-spend"] /\ p \in Pool["value-receipt"]
    BY BoundsFit DEF NewIds, Minted, Kinds
  <2>3. PICK input : input = [op |-> "receipt", identity_id |-> by, new |-> p,
                              spend |-> s]
    OBVIOUS
  <2>4. input \in Inputs
    BY <2>2, <2>3 DEF Inputs
  <2>5. QED
    BY <2>1, <2>3, <2>4
<1>2. ~Reserves(input)
  BY <1>1, CirculationAssumption DEF Reserves, NewKey
<1>3. QED
  BY <1>1, <1>2, ComesToRead

(* The receipt that is attached comes first, and the list is cut.        *)
LEMMA ReceiptListed ==
  ASSUME NEW S, NEW ids \in Seq(S), NEW id \in S
  PROVE  /\ WithReceipt(ids, id) \in Seq(S)
         /\ Len(WithReceipt(ids, id)) <= MaxIndexItems
<1>1. Without(ids, id) \in Seq(S)
  BY WithoutItems
<1>2. PICK list : list = <<id>> \o Without(ids, id)
  OBVIOUS
<1>3. list \in Seq(S)
  BY <1>1, <1>2, FrontItems
<1>4. MaxIndexItems \in Nat
  BY CirculationAssumption
<1>5. /\ Capped(list, MaxIndexItems) \in Seq(S)
      /\ Len(Capped(list, MaxIndexItems))
           = IF Len(list) < MaxIndexItems THEN Len(list) ELSE MaxIndexItems
  BY <1>3, <1>4, CappedItems
<1>6. Len(list) \in Nat
  BY <1>3
<1>7. QED
  BY <1>2, <1>4, <1>5, <1>6 DEF WithReceipt

(* A receipt is put with the spend it was read from.                     *)
LEMMA AttachReceiptKeeps ==
  ASSUME IInv, NEW r \in Requests, AttachReceipt(r)
  PROVE  IInv'
<1>1. PICK b, st, x : b = bounds /\ st = kv /\ x = request[r]
  OBVIOUS
<1>2. PICK seen : seen = Append(x.seen, st[WantsSpend(x.input, x.seen)])
  OBVIOUS
<1>3. PICK puts : puts = ReceiptPuts(x.input, seen)
  OBVIOUS
<1>4. PICK y : y = IF NotCompleted(x.input, seen) THEN Idle
                   ELSE IF WantsSpend(x.input, seen) = None
                        THEN [x EXCEPT !.seen = <<>>, !.puts = puts]
                        ELSE [x EXCEPT !.seen = seen]
  OBVIOUS
<1>5. /\ Busy(r) /\ x.input.op = "receipt" /\ x.puts = <<>>
      /\ request' = [request EXCEPT ![r] = y]
      /\ UNCHANGED <<kv, crashes, declared, scene>>
  BY <1>1, <1>2, <1>3, <1>4 DEF AttachReceipt, Serve
<1>6. StoreFits(b, st) /\ RequestFits(b, st, x)
  BY <1>1, <1>5 DEF IInv, RequestsFit
<1>7. ASSUME y # Idle
      PROVE  RequestFits(b, st, y) /\ y.input = x.input
  <2>1. ~NotCompleted(x.input, seen)
    BY <1>4, <1>7
  <2>2. PICK i, s : i = x.input /\ s = seen[1]
    OBVIOUS
  <2>3. /\ IsSpend(s) /\ SpendBacked(st, i.spend, s) /\ s.balance_moved
        /\ WantsSpend(i, seen) = None
    BY <1>2, <1>5, <1>6, <2>1, <2>2, SpendRead
  <2>4. /\ i.op = "receipt" /\ i.identity_id \in Identities
        /\ i.new \in Pool["value-receipt"] /\ i.spend \in Pool["value-spend"]
    BY <1>5, <1>6, <2>2 DEF RequestFits, Inputs
  <2>5. PICK v : v = [identity_id |-> i.identity_id, spend |-> i.spend,
                      spend_balance_id |-> s.spend_balance_id,
                      surface |-> s.surface, amount_cents |-> s.amount_cents,
                      currency |-> s.currency]
    OBVIOUS
  <2>6. v \in ReceiptRecord
    BY <2>3, <2>4, <2>5 DEF ReceiptRecord, IsSpend, SpendRecord, SpendBacked
  <2>7. PICK list : list = WithReceipt(s.receipt_ids, i.new)
    OBVIOUS
  <2>8. PICK u : u = [s EXCEPT !.receipt_ids = list]
    OBVIOUS
  <2>9. /\ u.decision = s.decision
        /\ u.decision_id = s.decision_id /\ u.limit_check_id = s.limit_check_id
        /\ u.balance_moved = s.balance_moved
        /\ u.spend_balance_id = s.spend_balance_id
        /\ u.identity_id = s.identity_id /\ u.surface = s.surface
        /\ u.amount_cents = s.amount_cents /\ u.currency = s.currency
        /\ u.receipt_ids = list
    BY <2>3, <2>8 DEF IsSpend, SpendRecord
  <2>10. IsSpend(u)
    <3>1. list \in Seq(Pool["value-receipt"]) /\ Len(list) <= MaxIndexItems
      <4>1. s.receipt_ids \in Seq(Pool["value-receipt"])
        BY <2>3 DEF IsSpend, SpendRecord
      <4>2. QED
        BY <2>4, <2>7, <4>1, ReceiptListed
    <3>2. QED
      BY <2>3, <2>8, <3>1 DEF IsSpend, SpendRecord
  <2>11. Receipt(i.new) \in Keys /\ Spend(i.spend) \in Keys /\ ~Declares(i)
    BY <2>4, KeyOf DEF Declares
  <2>12. PICK after : after = With(st, Writes(Receipt(i.new), v))
    OBVIOUS
  <2>13. Shaped(b, Receipt(i.new), v) /\ Fine(b, after, Receipt(i.new), v)
    BY <2>6, KindOf DEF Fine, Shaped, Genuine
  <2>14. Extends(st, after)
    BY <1>5, <1>6, <2>11, <2>12, <2>13, LastingKeys, FirstExtends
  <2>15. Fine(b, after, Spend(i.spend), u)
    <3>1. SpendBacked(st, i.spend, u)
      BY <2>3, <2>9 DEF SpendBacked, ApprovalOfSpend
    <3>2. SpendBacked(after, i.spend, u)
      BY <2>14, <3>1, SpendStaysBacked
    <3>3. QED
      BY <2>10, <3>2, KindOf DEF Fine, Shaped, Genuine
  <2>16. puts = <<Writes(Receipt(i.new), v), Writes(Spend(i.spend), u)>>
    BY <1>3, <2>2, <2>5, <2>7, <2>8 DEF ReceiptPuts
  <2>17. IsSeq(puts) /\ \A n \in DOMAIN puts : PutFits(b, st, i, puts, n)
    BY <2>11, <2>12, <2>13, <2>15, <2>16, LastingKeys, TwoPuts
  <2>18. y = [input |-> x.input, seen |-> <<>>, puts |-> puts]
    <3>1. y = [x EXCEPT !.seen = <<>>, !.puts = puts]
      BY <1>4, <2>1, <2>2, <2>3
    <3>2. QED
      BY <1>6, <3>1, RequestChanged DEF RequestFits
  <2>19. QED
    BY <1>5, <1>6, <2>2, <2>17, <2>18, Answers
<1>8. QED
  BY <1>1, <1>5, <1>7, Goes DEF IInv

(* A refund request starts with nothing read.                            *)
LEMMA ReceiveRefundKeeps ==
  ASSUME IInv, NEW r \in Requests, ReceiveRefund(r)
  PROVE  IInv'
<1>1. PICK input : /\ input \in Inputs
                   /\ Receive(r, input, <<>>)
                   /\ input.op = "refund"
  <2>1. PICK by \in Identities, s \in bounds.pool["value-spend"],
             f \in NewIds("value-refund"), a \in SpendAmounts, c \in Currencies :
          Receive(r, [op |-> "refund", identity_id |-> by, new |-> f, spend |-> s,
                      amount_cents |-> a, currency |-> c], <<>>)
    BY DEF ReceiveRefund
  <2>2. s \in Pool["value-spend"] /\ f \in Pool["value-refund"]
    BY BoundsFit DEF NewIds, Minted, Kinds
  <2>3. PICK input : input = [op |-> "refund", identity_id |-> by, new |-> f,
                              spend |-> s, amount_cents |-> a, currency |-> c]
    OBVIOUS
  <2>4. input \in Inputs
    BY <2>2, <2>3 DEF Inputs
  <2>5. QED
    BY <2>1, <2>3, <2>4
<1>2. ~Reserves(input)
  BY <1>1, CirculationAssumption DEF Reserves, NewKey
<1>3. QED
  BY <1>1, <1>2, ComesToRead

(* A refund names the debit of the spend it read and asks for no more.   *)
LEMMA RequestRefundKeeps ==
  ASSUME IInv, NEW r \in Requests, RequestRefund(r)
  PROVE  IInv'
<1>1. PICK b, st, x : b = bounds /\ st = kv /\ x = request[r]
  OBVIOUS
<1>2. PICK seen : seen = Append(x.seen, st[WantsSpend(x.input, x.seen)])
  OBVIOUS
<1>3. PICK puts : puts = RefundPuts(x.input, seen)
  OBVIOUS
<1>4. PICK y : y = IF RefundRefuses(x.input, seen) THEN Idle
                   ELSE IF WantsSpend(x.input, seen) = None
                        THEN [x EXCEPT !.seen = <<>>, !.puts = puts]
                        ELSE [x EXCEPT !.seen = seen]
  OBVIOUS
<1>5. /\ Busy(r) /\ x.input.op = "refund" /\ x.puts = <<>>
      /\ request' = [request EXCEPT ![r] = y]
      /\ UNCHANGED <<kv, crashes, declared, scene>>
  BY <1>1, <1>2, <1>3, <1>4 DEF RequestRefund, Serve
<1>6. StoreFits(b, st) /\ RequestFits(b, st, x)
  BY <1>1, <1>5 DEF IInv, RequestsFit
<1>7. ASSUME y # Idle
      PROVE  RequestFits(b, st, y) /\ y.input = x.input
  <2>1. ~RefundRefuses(x.input, seen)
    BY <1>4, <1>7
  <2>2. PICK i, s : i = x.input /\ s = seen[1]
    OBVIOUS
  <2>3. /\ IsSpend(s) /\ SpendBacked(st, i.spend, s) /\ s.balance_moved
        /\ WantsSpend(i, seen) = None
    BY <1>2, <1>5, <1>6, <2>1, <2>2, SpendRead DEF RefundRefuses
  <2>4. /\ i.op = "refund" /\ i.identity_id \in Identities
        /\ i.new \in Pool["value-refund"] /\ i.spend \in Pool["value-spend"]
        /\ i.amount_cents \in SpendAmounts /\ i.currency \in Currencies
    BY <1>5, <1>6, <2>2 DEF RequestFits, Inputs
  <2>5. i.amount_cents <= s.amount_cents
    <3>1. ~(i.amount_cents > s.amount_cents)
      BY <2>1, <2>2 DEF RefundRefuses
    <3>2. i.amount_cents \in Int /\ s.amount_cents \in Int
      BY <2>3, <2>4, CirculationAssumption DEF IsSpend, SpendRecord
    <3>3. QED
      BY <3>1, <3>2
  <2>6. PICK v : v = [identity_id |-> i.identity_id, spend |-> i.spend,
                      spend_balance_id |-> s.spend_balance_id,
                      amount_cents |-> i.amount_cents,
                      original_spend_amount_cents |-> s.amount_cents,
                      currency |-> i.currency, decision |-> "undecided",
                      decision_id |-> None]
    OBVIOUS
  <2>7. v \in RefundRecord
    BY <2>3, <2>4, <2>6 DEF RefundRecord, IsSpend, SpendRecord, SpendBacked, Nothing
  <2>8. PICK after : after = With(st, Writes(Refund(i.new), v))
    OBVIOUS
  <2>9. Refund(i.new) \in Keys /\ ~Declares(i)
    BY <2>4, KeyOf DEF Declares
  <2>10. Shaped(b, Refund(i.new), v)
    BY <2>7, KindOf DEF Shaped
  <2>11. Extends(st, after)
    BY <1>5, <1>6, <2>8, <2>9, <2>10, LastingKeys, FirstExtends
  <2>12. RefundBacked(st, v)
    <3>1. v.spend_balance_id = s.spend_balance_id /\ v.spend = i.spend
          /\ v.amount_cents = i.amount_cents
      BY <2>6
    <3>2. QED
      BY <2>3, <2>5, <3>1 DEF RefundBacked, SpendBacked
  <2>13. Fine(b, after, Refund(i.new), v)
    BY <2>7, <2>10, <2>11, <2>12, RefundStaysBacked, KindOf DEF Fine, Genuine
  <2>14. puts = <<Writes(Refund(i.new), v)>>
    BY <1>3, <2>2, <2>6 DEF RefundPuts
  <2>15. IsSeq(puts) /\ \A n \in DOMAIN puts : PutFits(b, st, i, puts, n)
    BY <2>8, <2>9, <2>13, <2>14, LastingKeys, OnePut
  <2>16. y = [input |-> x.input, seen |-> <<>>, puts |-> puts]
    <3>1. y = [x EXCEPT !.seen = <<>>, !.puts = puts]
      BY <1>4, <2>1, <2>2, <2>3
    <3>2. QED
      BY <1>6, <3>1, RequestChanged DEF RequestFits
  <2>17. QED
    BY <1>5, <1>6, <2>2, <2>15, <2>16, Answers
<1>8. QED
  BY <1>1, <1>5, <1>7, Goes DEF IInv

(* A decision on a refund starts with nothing read.                      *)
LEMMA ReceiveRefundDecisionKeeps ==
  ASSUME IInv, NEW r \in Requests, ReceiveRefundDecision(r)
  PROVE  IInv'
<1>1. PICK input : /\ input \in Inputs
                   /\ Receive(r, input, <<>>)
                   /\ input.op = "refund-decision"
  <2>1. PICK by \in Identities, f \in bounds.pool["value-refund"],
             d \in Minted("value-refund-decision"), v \in {"approved", "blocked"} :
          Receive(r, [op |-> "refund-decision", identity_id |-> by, new |-> d,
                      refund |-> f, decision |-> v], <<>>)
    BY DEF ReceiveRefundDecision
  <2>2. f \in Pool["value-refund"] /\ d \in Pool["value-refund-decision"]
    BY BoundsFit DEF Minted, Kinds
  <2>3. PICK input : input = [op |-> "refund-decision", identity_id |-> by,
                              new |-> d, refund |-> f, decision |-> v]
    OBVIOUS
  <2>4. input \in Inputs
    BY <2>2, <2>3 DEF Inputs, Verdicts
  <2>5. QED
    BY <2>1, <2>3, <2>4
<1>2. ~Reserves(input)
  BY <1>1, CirculationAssumption DEF Reserves, NewKey
<1>3. QED
  BY <1>1, <1>2, ComesToRead

(* What a refund decision puts, of a good copy of the refund and of its
   spend, if it is there.                                                  *)
LEMMA RefundDecisionPutsFit ==
  ASSUME NEW b, NEW st, StoreFits(b, st), NEW x, RequestFits(b, st, x),
         x.puts = <<>>, x.input.op = "refund-decision", NEW seen,
         Copied(b, st, Refund(x.input.refund), seen[1]),
         seen[2] # Absent => IsSpend(seen[2])
  PROVE  /\ IsSeq(RefundDecisionPuts(x.input, seen))
         /\ \A n \in DOMAIN RefundDecisionPuts(x.input, seen) :
              PutFits(b, st, x.input, RefundDecisionPuts(x.input, seen), n)
<1>1. PICK i, f, verdict : /\ i = x.input /\ f = seen[1]
                           /\ verdict = RefundVerdict(i, f, seen[2])
  OBVIOUS
<1>2. /\ i.op = "refund-decision" /\ i.identity_id \in Identities
      /\ i.new \in Pool["value-refund-decision"]
      /\ i.refund \in Pool["value-refund"] /\ i.decision \in Verdicts
  BY <1>1 DEF RequestFits, Inputs
<1>3. f \in RefundRecord /\ RefundBacked(st, f)
  BY <1>1, KindOf DEF Copied, Fine, Shaped, Genuine
<1>4. verdict \in Verdicts
  BY <1>1, <1>2 DEF RefundVerdict, Verdicts
<1>5. PICK c : c = IF seen[2] = Absent THEN None ELSE seen[2].spend_balance_id
  OBVIOUS
<1>6. c \in Nothing(Pool["value-spend-balance"])
  BY <1>5 DEF IsSpend, SpendRecord, Nothing
<1>7. PICK d : d = [identity_id |-> i.identity_id, refund |-> i.refund,
                    spend |-> f.spend, decision |-> verdict,
                    amount_cents |-> f.amount_cents, spend_balance_id |-> c]
  OBVIOUS
<1>8. d \in RefundDecisionRecord
  BY <1>2, <1>3, <1>4, <1>6, <1>7 DEF RefundDecisionRecord, RefundRecord
<1>9. PICK u : u = [f EXCEPT !.decision = verdict, !.decision_id = i.new]
  OBVIOUS
<1>10. u \in RefundRecord
  BY <1>2, <1>3, <1>4, <1>9 DEF RefundRecord, Nothing
<1>11. u.spend = f.spend /\ u.spend_balance_id = f.spend_balance_id
       /\ u.amount_cents = f.amount_cents
  BY <1>3, <1>9 DEF RefundRecord
<1>12. RefundDecision(i.new) \in Keys /\ Refund(i.refund) \in Keys /\ ~Declares(i)
  BY <1>2, KeyOf DEF Declares
<1>13. PICK after : after = With(st, Writes(RefundDecision(i.new), d))
  OBVIOUS
<1>14. Shaped(b, RefundDecision(i.new), d) /\ Fine(b, after, RefundDecision(i.new), d)
  BY <1>8, KindOf DEF Fine, Shaped, Genuine
<1>15. Extends(st, after)
  BY <1>1, <1>12, <1>13, <1>14, LastingKeys, FirstExtends
<1>16. Fine(b, after, Refund(i.refund), u)
  <2>1. RefundBacked(st, u)
    BY <1>3, <1>11 DEF RefundBacked
  <2>2. RefundBacked(after, u)
    BY <1>10, <1>15, <2>1, RefundStaysBacked
  <2>3. QED
    BY <1>10, <2>2, KindOf DEF Fine, Shaped, Genuine
<1>17. PICK puts : puts = <<Writes(RefundDecision(i.new), d), Writes(Refund(i.refund), u)>>
  OBVIOUS
<1>18. IsSeq(puts) /\ \A n \in DOMAIN puts : PutFits(b, st, i, puts, n)
  BY <1>12, <1>13, <1>14, <1>16, <1>17, LastingKeys, TwoPuts
<1>19. RefundDecisionPuts(x.input, seen) = puts
  BY <1>1, <1>5, <1>7, <1>9, <1>17 DEF RefundDecisionPuts
<1>20. QED
  BY <1>1, <1>18, <1>19

(* A decision reads the refund and then its spend.                       *)
LEMMA DecideRefundKeeps ==
  ASSUME IInv, NEW r \in Requests, DecideRefund(r)
  PROVE  IInv'
<1>1. PICK b, st, x : b = bounds /\ st = kv /\ x = request[r]
  OBVIOUS
<1>2. PICK seen : seen = Append(x.seen, st[RefundDecisionWants(x.input, x.seen)])
  OBVIOUS
<1>3. PICK puts : puts = RefundDecisionPuts(x.input, seen)
  OBVIOUS
<1>4. PICK y : y = IF RefundDecisionRefuses(x.input, seen) THEN Idle
                   ELSE IF RefundDecisionWants(x.input, seen) = None
                        THEN [x EXCEPT !.seen = <<>>, !.puts = puts]
                        ELSE [x EXCEPT !.seen = seen]
  OBVIOUS
<1>5. /\ Busy(r) /\ x.input.op = "refund-decision" /\ x.puts = <<>>
      /\ request' = [request EXCEPT ![r] = y]
      /\ UNCHANGED <<kv, crashes, declared, scene>>
  BY <1>1, <1>2, <1>3, <1>4 DEF DecideRefund, Serve
<1>6. StoreFits(b, st) /\ RequestFits(b, st, x)
  BY <1>1, <1>5 DEF IInv, RequestsFit
<1>7. ASSUME y # Idle
      PROVE  RequestFits(b, st, y) /\ y.input = x.input
  <2>1. ~RefundDecisionRefuses(x.input, seen)
    BY <1>4, <1>7
  <2>2. PICK n, i : n = Len(x.seen) /\ i = x.input
    OBVIOUS
  <2>3. /\ IsSeq(seen) /\ n \in Nat /\ Len(seen) = n + 1
        /\ \A m \in 1..n : seen[m] = x.seen[m]
        /\ seen[n + 1] = st[RefundDecisionWants(i, x.seen)]
    BY <1>2, <1>6, <2>2, AppendIsSeq DEF RequestFits
  <2>4. SeenByRefundDecision(b, st, i, x.seen)
    BY <1>5, <1>6, <2>2 DEF RequestFits, SeenFits
  <2>5. n \in {0, 1}
    <3>1. n <= 1
      BY <2>2, <2>4 DEF SeenByRefundDecision
    <3>2. n \in Nat
      BY <2>3
    <3>3. QED
      BY <3>1, <3>2
  <2>6. Refund(i.refund) \in Keys
    BY <1>5, <1>6, <2>2, KeyOf DEF RequestFits, Inputs
  <2>7. Copied(b, st, Refund(i.refund), seen[1])
    <3>1. CASE n = 0
      <4>1. seen[1] = st[Refund(i.refund)]
        BY <2>2, <2>3, <3>1 DEF RefundDecisionWants
      <4>2. seen[1] # Absent
        BY <2>1, <2>2, <2>3, <3>1 DEF RefundDecisionRefuses, Denied
      <4>3. QED
        BY <1>6, <2>6, <4>1, <4>2, ReadIsCopied
    <3>2. CASE n = 1
      <4>1. Copied(b, st, Refund(i.refund), x.seen[1])
        BY <2>2, <2>4, <3>2 DEF SeenByRefundDecision
      <4>2. seen[1] = x.seen[1]
        BY <2>3, <3>2
      <4>3. QED
        BY <4>1, <4>2
    <3>3. QED
      BY <2>5, <3>1, <3>2
  <2>8. seen[1] \in RefundRecord
    BY <2>7, KindOf DEF Copied, Fine, Shaped
  <2>9. Spend(seen[1].spend) \in Keys
    BY <2>8, KeyOf DEF RefundRecord
  <2>10. CASE n = 1
    <3>1. RefundDecisionWants(i, x.seen) = Spend(x.seen[1].spend)
      BY <2>2, <2>10 DEF RefundDecisionWants
    <3>2. seen[2] = st[Spend(seen[1].spend)]
      <4>1. seen[1] = x.seen[1]
        BY <2>3, <2>10
      <4>2. QED
        BY <2>3, <2>10, <3>1, <4>1
    <3>3. seen[2] # Absent => IsSpend(seen[2])
      <4>1. SUFFICES ASSUME seen[2] # Absent PROVE IsSpend(seen[2])
        OBVIOUS
      <4>2. Fine(b, st, Spend(seen[1].spend), seen[2])
        BY <1>6, <2>9, <3>2, <4>1 DEF StoreFits
      <4>3. QED
        BY <4>2, KindOf DEF Fine, Shaped
    <3>4. IsSeq(puts) /\ \A m \in DOMAIN puts : PutFits(b, st, i, puts, m)
      BY <1>3, <1>5, <1>6, <2>2, <2>7, <3>3, RefundDecisionPutsFit
    <3>5. y = [input |-> x.input, seen |-> <<>>, puts |-> puts]
      <4>1. RefundDecisionWants(i, seen) = None
        BY <2>3, <2>10 DEF RefundDecisionWants
      <4>2. y = [x EXCEPT !.seen = <<>>, !.puts = puts]
        BY <1>4, <2>1, <2>2, <4>1
      <4>3. QED
        BY <1>6, <4>2, RequestChanged DEF RequestFits
    <3>6. QED
      BY <1>5, <1>6, <2>2, <3>4, <3>5, Answers
  <2>11. CASE n = 0
    <3>1. SeenByRefundDecision(b, st, i, seen)
      BY <2>3, <2>7, <2>11 DEF SeenByRefundDecision
    <3>2. SeenFits(b, st, i, seen)
      BY <1>5, <2>2, <3>1 DEF SeenFits, ReadOnce
    <3>3. RefundDecisionWants(i, seen) # None
      <4>1. RefundDecisionWants(i, seen) = Spend(seen[1].spend)
        BY <2>3, <2>11 DEF RefundDecisionWants
      <4>2. QED
        BY <4>1, <2>9, CirculationAssumption
    <3>4. y = [input |-> x.input, seen |-> seen, puts |-> x.puts]
      <4>1. y = [x EXCEPT !.seen = seen]
        BY <1>4, <2>1, <2>2, <3>3
      <4>2. QED
        BY <1>6, <4>1, RequestChanged DEF RequestFits
    <3>5. QED
      BY <1>6, <2>2, <2>3, <3>2, <3>4, Reads
  <2>12. QED
    BY <2>5, <2>10, <2>11
<1>8. QED
  BY <1>1, <1>5, <1>7, Goes DEF IInv

-----------------------------------------------------------------------------
(* The theorems.                                                           *)

(* Given surfaces are fine by themselves and no request is in progress.  *)
LEMMA InitIInv ==
  Init => IInv
<1>1. SUFFICES ASSUME Init PROVE IInv
  OBVIOUS
<1>2. /\ scene \in DOMAIN Bounds
      /\ kv = [k \in Keys |-> IF k \in DOMAIN bounds.given THEN bounds.given[k]
                                                           ELSE Absent]
      /\ request = [r \in Requests |-> Idle]
      /\ crashes = 0
      /\ declared = bounds.opening
  BY <1>1 DEF Init, StoreInit
<1>3. bounds.crashes \in Nat /\ bounds.opening \in Int
  BY <1>2, StoreAssumption DEF bounds
<1>4. DOMAIN kv = Keys /\ DOMAIN request = Requests
  BY <1>2
<1>5. \A r \in Requests : ~Busy(r)
  BY <1>2 DEF Busy
<1>6. ASSUME NEW key \in Keys, kv[key] # Absent
      PROVE  Fine(bounds, kv, key, kv[key])
  <2>1. key \in DOMAIN bounds.given /\ kv[key] = bounds.given[key]
    BY <1>2, <1>6
  <2>2. /\ key \in {Surface(s) : s \in SurfaceIds}
        /\ kv[key] \in SurfaceRecord
        /\ [kind |-> kv[key].kind, role |-> kv[key].role] \in bounds.registrations
    BY <1>2, <2>1, CirculationAssumption DEF bounds
  <2>3. Solvent => kv[key].balance_cents >= 0
    BY <1>2, <2>1 DEF Solvent, bounds
  <2>4. QED
    BY <2>2, <2>3, SurfaceFine
<1>7. StoreFits(bounds, kv)
  BY <1>4, <1>6 DEF StoreFits
<1>8. RequestsFit /\ RequestsApart
  BY <1>5 DEF RequestsFit, RequestsApart
<1>9. crashes \in 0..bounds.crashes
  BY <1>2, <1>3
<1>10. declared \in Int
  BY <1>2, <1>3
<1>11. QED
  BY <1>2, <1>4, <1>7, <1>8, <1>9, <1>10 DEF IInv

(* Every step keeps IInv: one lemma above for each.                      *)
LEMMA NextIInv ==
  IInv /\ [Next]_storeVars => IInv'
<1>1. SUFFICES ASSUME IInv, [Next]_storeVars PROVE IInv'
  OBVIOUS
<1>2. CASE UNCHANGED storeVars
  <2>1. /\ kv' = kv /\ request' = request /\ crashes' = crashes
        /\ declared' = declared /\ scene' = scene
    BY <1>2 DEF storeVars
  <2>2. bounds' = bounds
    BY <2>1 DEF bounds
  <2>3. QED
    BY <1>1, <2>1, <2>2 DEF IInv, RequestsFit, RequestsApart, Busy
<1>3. ASSUME NEW r \in Requests, SurfaceNext(r) PROVE IInv'
  BY <1>1, <1>3, RegisterKeeps, ReceivePatchKeeps, PatchKeeps, ReceiveStatusKeeps,
     StatusKeeps, ReceiveLimitKeeps, LimitKeeps DEF SurfaceNext
<1>4. ASSUME NEW r \in Requests, TopupNext(r) PROVE IInv'
  BY <1>1, <1>4, ReceiveTopupKeeps, RequestTopupKeeps, ReceiveTopupDecisionKeeps,
     DecideTopupKeeps, ReceiveBalanceKeeps, MoveBalanceKeeps DEF TopupNext
<1>5. ASSUME NEW r \in Requests, SpendNext(r) PROVE IInv'
  BY <1>1, <1>5, ReceiveSpendKeeps, RequestSpendKeeps, ReceiveLimitCheckKeeps,
     CheckLimitKeeps, ReceiveSpendDecisionKeeps, DecideSpendKeeps,
     ReceiveSpendBalanceKeeps, DebitSpendKeeps, ReceiveReceiptKeeps,
     AttachReceiptKeeps, ReceiveRefundKeeps, RequestRefundKeeps,
     ReceiveRefundDecisionKeeps, DecideRefundKeeps DEF SpendNext
<1>6. ASSUME NEW r \in Requests, Put(r) \/ Crash(r) PROVE IInv'
  BY <1>1, <1>6, PutKeeps, CrashKeeps
<1>7. QED
  BY <1>1, <1>2, <1>3, <1>4, <1>5, <1>6 DEF Next

(* IInv is inductive.                                                    *)
LEMMA SpecIInv ==
  Spec => []IInv
BY InitIInv, NextIInv, PTL DEF Spec

(* A stored record is fine.                                                *)
LEMMA RecordFine ==
  ASSUME IInv, NEW kind \in Kinds, NEW v \in Records(kind)
  PROVE  \E id \in Pool[kind] : /\ Holds(kind, id) /\ v = kv[<<kind, id>>]
                                /\ Fine(bounds, kv, <<kind, id>>, v)
BY KeysOf DEF Records, Holds, IInv, StoreFits

(* The shape of every stored record is what its readers rely on.           *)
THEOREM CirculationTypes ==
  Spec => []TypeOK
<1>1. IInv => TypeOK
  <2>1. SUFFICES ASSUME IInv PROVE TypeOK
    OBVIOUS
  <2>2. ASSUME NEW kind \in Kinds, NEW v \in Records(kind)
        PROVE  \E id : Shaped(bounds, <<kind, id>>, v)
    BY <2>1, <2>2, RecordFine DEF Fine
  <2>3. \A v \in Records("value-surface") :
          v \in SurfaceRecord /\ [kind |-> v.kind, role |-> v.role] \in bounds.registrations
    BY <2>2 DEF Kinds, Shaped
  <2>4. /\ Records("value-topup") \subseteq TopupRecord
        /\ Records("value-topup-decision") \subseteq TopupDecisionRecord
        /\ Records("value-balance") \subseteq BalanceRecord
    BY <2>2 DEF Kinds, Shaped
  <2>5. \A v \in Records("value-spend") : IsSpend(v)
    BY <2>2 DEF Kinds, Shaped
  <2>6. /\ Records("value-limit-check") \subseteq CheckRecord
        /\ Records("value-spend-decision") \subseteq SpendDecisionRecord
        /\ Records("value-spend-balance") \subseteq SpendBalanceRecord
    BY <2>2 DEF Kinds, Shaped
  <2>7. /\ Records("value-receipt") \subseteq ReceiptRecord
        /\ Records("value-refund") \subseteq RefundRecord
        /\ Records("value-refund-decision") \subseteq RefundDecisionRecord
    BY <2>2 DEF Kinds, Shaped
  <2>8. QED
    BY <2>1, <2>3, <2>4, <2>5, <2>6, <2>7 DEF TypeOK, IInv
<1>2. QED
  BY <1>1, SpecIInv, PTL

(* An approved spend decision cites no check but one that allowed something
   on its surface, for its identity, whatever overlaps.                    *)
THEOREM CirculationChecks ==
  Spec => []CheckRespected
<1>1. IInv => CheckRespected
  <2>1. SUFFICES ASSUME IInv, NEW d \in Records("value-spend-decision"),
                        d.decision = "approved", d.limit_check_id # None
                 PROVE  /\ Holds("value-limit-check", d.limit_check_id)
                        /\ kv[LimitCheck(d.limit_check_id)].allowed
                        /\ kv[LimitCheck(d.limit_check_id)].surface = d.surface
                        /\ kv[LimitCheck(d.limit_check_id)].identity_id = d.identity_id
    BY DEF CheckRespected
  <2>2. PICK id : Fine(bounds, kv, <<"value-spend-decision", id>>, d)
    BY <2>1, RecordFine DEF Kinds
  <2>3. CheckPassed(kv, d) /\ d \in SpendDecisionRecord
    BY <2>2 DEF Fine, Genuine, Shaped
  <2>4. d.limit_check_id \in Pool["value-limit-check"]
    BY <2>1, <2>3 DEF SpendDecisionRecord, Nothing
  <2>5. QED
    BY <2>1, <2>3, <2>4 DEF CheckPassed, Holds, LimitCheck
<1>2. QED
  BY <1>1, SpecIInv, PTL

(* Whatever clients name, an approved topup is the one that was approved,
   and every movement and every debit has its approval on record.          *)
THEOREM CirculationApproved ==
  Spec => [](ApprovalBacked /\ MoveBacked /\ DebitBacked)
<1>1. IInv => ApprovalBacked
  <2>1. SUFFICES ASSUME IInv, NEW t \in Pool["value-topup"],
                        Holds("value-topup", t), kv[Topup(t)].decision = "approved"
                 PROVE  /\ Holds("value-topup-decision", kv[Topup(t)].decision_id)
                        /\ ApprovalOfTopup(kv[TopupDecision(kv[Topup(t)].decision_id)],
                                           t, kv[Topup(t)])
    BY DEF ApprovalBacked, ApprovalOfTopup
  <2>2. Fine(bounds, kv, Topup(t), kv[Topup(t)])
    BY <2>1, KeyOf DEF IInv, StoreFits, Holds, Topup
  <2>3. TopupBacked(kv, t, kv[Topup(t)])
    BY <2>2, KindOf DEF Fine, Genuine
  <2>4. QED
    BY <2>1, <2>3 DEF TopupBacked, In, Holds
<1>2. IInv => MoveBacked
  <2>1. SUFFICES ASSUME IInv, NEW m \in Records("value-balance")
                 PROVE  \E d \in Records("value-topup-decision") :
                          /\ d.topup = m.topup
                          /\ d.decision = "approved"
                          /\ <<d.from, d.to, d.amount_cents>>
                               = <<m.from, m.to, m.amount_cents>>
    BY DEF MoveBacked
  <2>2. BalanceBacked(kv, m)
    BY <2>1, RecordFine DEF Kinds, Fine, Genuine
  <2>3. PICK d \in Pool["value-topup-decision"] :
          /\ kv[TopupDecision(d)] # Absent
          /\ ApprovalOfTopup(kv[TopupDecision(d)], m.topup, m)
    BY <2>2 DEF BalanceBacked
  <2>4. kv[TopupDecision(d)] \in Records("value-topup-decision")
    BY <2>3 DEF Records, Holds, TopupDecision
  <2>5. QED
    BY <2>3, <2>4 DEF ApprovalOfTopup
<1>3. IInv => DebitBacked
  <2>1. SUFFICES ASSUME IInv, NEW c \in Records("value-spend-balance")
                 PROVE  \E d \in Records("value-spend-decision") :
                          /\ d.spend = c.spend
                          /\ d.decision = "approved"
                          /\ <<d.surface, d.amount_cents>> = <<c.surface, c.amount_cents>>
    BY DEF DebitBacked
  <2>2. BalanceDebited(kv, c)
    BY <2>1, RecordFine DEF Kinds, Fine, Genuine
  <2>3. PICK d \in Pool["value-spend-decision"] :
          /\ kv[SpendDecision(d)] # Absent
          /\ ApprovalOfSpend(kv[SpendDecision(d)], c.spend, c)
    BY <2>2 DEF BalanceDebited
  <2>4. kv[SpendDecision(d)] \in Records("value-spend-decision")
    BY <2>3 DEF Records, Holds, SpendDecision
  <2>5. QED
    BY <2>3, <2>4 DEF ApprovalOfSpend
<1>4. QED
  BY <1>1, <1>2, <1>3, SpecIInv, PTL

(* And where no client names the record of a debit, so that none is put
   over another, a refund is of a debit of its spend and no larger.        *)
THEOREM CirculationBacked ==
  Unnamed => (Spec => []MovementsBacked)
<1>1. Unnamed /\ IInv => RefundOfDebit
  <2>1. SUFFICES ASSUME Unnamed, IInv, NEW f \in Records("value-refund")
                 PROVE  /\ Holds("value-spend-balance", f.spend_balance_id)
                        /\ kv[SpendBalance(f.spend_balance_id)].spend = f.spend
                        /\ f.amount_cents
                             <= kv[SpendBalance(f.spend_balance_id)].amount_cents
    BY DEF RefundOfDebit
  <2>2. RefundBacked(kv, f) /\ f \in RefundRecord
    BY <2>1, RecordFine DEF Kinds, Fine, Genuine, Shaped
  <2>3. f.spend_balance_id \in Pool["value-spend-balance"]
    BY <2>2 DEF RefundRecord
  <2>4. QED
    BY <2>1, <2>2, <2>3 DEF RefundBacked, Holds, SpendBalance
<1>2. ApprovalBacked /\ MoveBacked /\ DebitBacked /\ RefundOfDebit => MovementsBacked
  BY DEF MovementsBacked
<1>3. SUFFICES ASSUME Unnamed PROVE Spec => []MovementsBacked
  OBVIOUS
<1>4. IInv => RefundOfDebit
  BY <1>1, <1>3
<1>5. QED
  BY <1>2, <1>4, SpecIInv, CirculationApproved, PTL

(* No balance goes below zero where none is declared below zero, in whatever
   order debits and stale copies of surfaces are put.                      *)
THEOREM CirculationSolvent ==
  Solvent => (Spec => []NeverOverdrawn)
<1>1. SUFFICES ASSUME Solvent PROVE Spec => []NeverOverdrawn
  OBVIOUS
<1>2. IInv => NeverOverdrawn
  BY <1>1, RecordFine DEF NeverOverdrawn, Kinds, Fine, Genuine
<1>3. QED
  BY <1>2, SpecIInv, PTL

-----------------------------------------------------------------------------
(* One request after another: what a request that is alone does from its   *)
(* arrival to its last put, or to where it is cut off.                     *)

(* One request at a time; and Idle, which says that none is in progress,
   is no request.                                                          *)
Alone ==
  /\ \E r : Requests = {r}
  /\ \A input, seen, puts : Idle # [input |-> input, seen |-> seen, puts |-> puts]

(* No request is cut off.                                                  *)
Uncut == \A n \in DOMAIN Bounds : Bounds[n].crashes = 0

(* No client chooses the identifier of a new record of the kind.           *)
Unchosen(kind) ==
  \A n \in DOMAIN Bounds : Bounds[n].clients \intersect Pool[kind] = {}

(* No client names the decision it acts on.                                *)
Uncited == \A n \in DOMAIN Bounds : Bounds[n].cited = {}

(* What a request asks, in the store it finds.                             *)
Opens(st, i) ==
  /\ i.op = "topup" => i.from # i.to
  /\ i.op = "topup-decision" => st[TopupDecision(i.new)] = Absent
  /\ i.op = "spend-decision" => st[SpendDecision(i.new)] = Absent
  /\ i.op = "balance" /\ Unchosen("value-balance") => st[BalanceMove(i.new)] = Absent
  /\ i.op = "spend-balance" /\ Unnamed => st[SpendBalance(i.new)] = Absent
  /\ i.op = "spend" /\ Unchosen("value-spend") => st[Spend(i.new)] = Absent
  /\ i.op = "receipt" /\ Unchosen("value-receipt") => st[Receipt(i.new)] = Absent
  /\ i.op \in {"balance", "spend-balance"} /\ Uncited => i.decision_id = None

(* What a request has read is what is stored.                              *)
SeenNow(st, i, seen) ==
  /\ i.op = "topup-decision" =>
       /\ Len(seen) <= 2
       /\ Len(seen) >= 1 => seen[1] = st[Topup(i.topup)]
       /\ Len(seen) >= 2 => seen[2] = st[Surface(seen[1].from)]
  /\ i.op = "balance" =>
       /\ Len(seen) >= 1 => seen[1] = st[Topup(i.topup)]
       /\ Len(seen) >= 2 => seen[2] = st[TopupDecision(CitedTopupDecision(i, seen[1]))]
       /\ Len(seen) >= 3 => seen[3] = st[Surface(seen[1].from)]
  /\ i.op = "spend-decision" =>
       /\ Len(seen) >= 1 => seen[1] = st[Spend(i.spend)]
       /\ Len(seen) >= 2 => seen[2] = st[Surface(seen[1].surface)]
  /\ i.op = "spend-balance" =>
       /\ Len(seen) >= 1 => seen[1] = st[Spend(i.spend)]
       /\ Len(seen) >= 2 => seen[2] = st[SpendDecision(CitedSpendDecision(i, seen[1]))]

(* All that a request puts into the store st, when it is alone with it.    *)
SurfaceOps == {"register", "patch", "surface-status", "limit"}

PlanSurface(st, i, all) ==
  LET v == all[1].value
  IN  /\ Len(all) = 1
      /\ \E s \in SurfaceIds :
           /\ all[1].key = Surface(s)
           /\ i.op # "register" =>
                st[Surface(s)] # Absent /\ st[Surface(s)].identity_id = i.identity_id
           /\ ~Declares(i) => v.balance_cents = st[Surface(s)].balance_cents

PlanTopup(st, i, all) ==
  LET v == all[1].value
  IN  /\ Len(all) = 1 /\ all[1].key = Topup(i.new)
      /\ v.from # v.to /\ v.decision = "undecided"

PlanTopupDecision(st, i, all) ==
  LET t == st[Topup(i.topup)]
      d == all[1].value
      v == all[2].value
  IN  /\ t # Absent
      /\ Len(all) = 2
      /\ all[1].key = TopupDecision(i.new) /\ all[2].key = Topup(i.topup)
      /\ d.topup = i.topup
      /\ d.from = t.from /\ d.to = t.to /\ d.amount_cents = t.amount_cents
      /\ d.decision = "approved" =>
           /\ t.amount_cents > 0
           /\ st[Surface(t.from)] # Absent
           /\ t.amount_cents <= st[Surface(t.from)].balance_cents
      /\ v.from = t.from /\ v.to = t.to /\ v.decision_id = i.new

(* A movement of the amount between two surfaces of one currency.          *)
PlanBalance(st, i, all) ==
  LET t    == st[Topup(i.topup)]
      c    == CitedTopupDecision(i, t)
      from == st[Surface(t.from)]
      to   == st[Surface(t.to)]
      m    == all[1].value
  IN  /\ t # Absent /\ MayMove(t) /\ c \in Pool["value-topup-decision"]
      /\ st[TopupDecision(c)] # Absent /\ Approves(st[TopupDecision(c)], i)
      /\ ~Denied(from, i) /\ ~Denied(to, i)
      /\ Covers(from, t) /\ to.currency = t.currency
      /\ Len(all) = 5
      /\ all[1].key = BalanceMove(i.new) /\ all[2].key = Surface(t.from)
      /\ all[3].key = Surface(t.to) /\ all[4].key = Topup(i.topup)
      /\ all[5].key = TopupDecision(c)
      /\ m.decision_id = c /\ m.from = t.from /\ m.to = t.to
      /\ m.amount_cents = t.amount_cents /\ m.currency = t.currency
      /\ all[2].value.balance_cents = from.balance_cents - t.amount_cents
      /\ all[3].value.balance_cents = to.balance_cents + t.amount_cents
      /\ all[4].value.from = t.from /\ all[4].value.to = t.to
      /\ all[4].value.balance_moved = TRUE

PlanSpend(st, i, all) ==
  LET v == all[1].value
  IN  /\ Len(all) = 1 /\ all[1].key = Spend(i.new)
      /\ v.decision = "undecided" /\ v.receipt_ids = <<>>

PlanCheck(st, i, all) == Len(all) = 1 /\ all[1].key = LimitCheck(i.new)

PlanSpendDecision(st, i, all) ==
  LET s == st[Spend(i.spend)]
      d == all[1].value
      v == all[2].value
  IN  /\ s # Absent
      /\ Len(all) = 2
      /\ all[1].key = SpendDecision(i.new) /\ all[2].key = Spend(i.spend)
      /\ d.spend = i.spend /\ d.surface = s.surface /\ d.amount_cents = s.amount_cents
      /\ d.decision = "approved" =>
           /\ s.amount_cents > 0
           /\ st[Surface(s.surface)] # Absent
           /\ s.amount_cents <= st[Surface(s.surface)].balance_cents
      /\ v.receipt_ids = s.receipt_ids /\ v.decision_id = i.new

PlanSpendBalance(st, i, all) ==
  LET s    == st[Spend(i.spend)]
      c    == CitedSpendDecision(i, s)
      from == st[Surface(s.surface)]
      m    == all[1].value
  IN  /\ s # Absent /\ MayDebit(s) /\ c \in Pool["value-spend-decision"]
      /\ st[SpendDecision(c)] # Absent
      /\ st[SpendDecision(c)].spend = i.spend /\ st[SpendDecision(c)].decision = "approved"
      /\ ~Denied(from, i) /\ EnoughFor(s, from)
      /\ Len(all) = 4
      /\ all[1].key = SpendBalance(i.new) /\ all[2].key = Surface(s.surface)
      /\ all[3].key = Spend(i.spend) /\ all[4].key = SpendDecision(c)
      /\ m.decision_id = c /\ m.surface = s.surface
      /\ m.amount_cents = s.amount_cents /\ m.currency = s.currency
      /\ all[2].value.balance_cents = from.balance_cents - s.amount_cents
      /\ all[3].value.receipt_ids = s.receipt_ids /\ all[3].value.balance_moved = TRUE

PlanReceipt(st, i, all) ==
  LET s == st[Spend(i.spend)]
      v == all[2].value
  IN  /\ s # Absent
      /\ Len(all) = 2
      /\ all[1].key = Receipt(i.new) /\ all[2].key = Spend(i.spend)
      /\ all[1].value.spend = i.spend
      /\ v.receipt_ids = WithReceipt(s.receipt_ids, i.new)
      /\ v.decision = s.decision /\ v.decision_id = s.decision_id
      /\ v.balance_moved = s.balance_moved

PlanRefund(st, i, all) == Len(all) = 1 /\ all[1].key = Refund(i.new)

PlanRefundDecision(st, i, all) ==
  /\ Len(all) = 2
  /\ all[1].key = RefundDecision(i.new) /\ all[2].key = Refund(i.refund)

Plan(st, i, all) ==
  /\ i.op \in SurfaceOps => PlanSurface(st, i, all)
  /\ i.op = "topup" => PlanTopup(st, i, all)
  /\ i.op = "topup-decision" => PlanTopupDecision(st, i, all)
  /\ i.op = "balance" => PlanBalance(st, i, all)
  /\ i.op = "spend" => PlanSpend(st, i, all)
  /\ i.op = "limit-check" => PlanCheck(st, i, all)
  /\ i.op = "spend-decision" => PlanSpendDecision(st, i, all)
  /\ i.op = "spend-balance" => PlanSpendBalance(st, i, all)
  /\ i.op = "receipt" => PlanReceipt(st, i, all)
  /\ i.op = "refund" => PlanRefund(st, i, all)
  /\ i.op = "refund-decision" => PlanRefundDecision(st, i, all)

(* The kinds of the records a worker puts.                                 *)
Touches(op, kind) ==
  \/ kind = "value-surface" /\ op \in SurfaceOps \union {"balance", "spend-balance"}
  \/ kind = "value-topup" /\ op \in {"topup", "topup-decision", "balance"}
  \/ kind = "value-topup-decision" /\ op \in {"topup-decision", "balance"}
  \/ kind = "value-balance" /\ op = "balance"
  \/ kind = "value-spend" /\ op \in {"spend", "spend-decision", "spend-balance", "receipt"}
  \/ kind = "value-limit-check" /\ op = "limit-check"
  \/ kind = "value-spend-decision" /\ op \in {"spend-decision", "spend-balance"}
  \/ kind = "value-spend-balance" /\ op = "spend-balance"
  \/ kind = "value-receipt" /\ op = "receipt"
  \/ kind = "value-refund" /\ op \in {"refund", "refund-decision"}
  \/ kind = "value-refund-decision" /\ op = "refund-decision"

(* A plan puts records of the right shape under keys, each once.           *)
Planned(b, all) ==
  /\ Len(all) \in 1..5
  /\ \A j \in 1..Len(all) : all[j].key \in Keys /\ Shaped(b, all[j].key, all[j].value)
  /\ \A j, k \in 1..Len(all) : j # k => all[j].key # all[k].key

(* The store that is left of st0 once the first k of all the puts are made. *)
PutSoFar(st0, all, k, st) ==
  /\ DOMAIN st = Keys
  /\ \A j \in 1..k : st[all[j].key] = all[j].value
  /\ \A key \in Keys : (\A j \in 1..k : all[j].key # key) => st[key] = st0[key]

(* What each surface holds, what each debit took, and their sums.          *)
Held(st, key) == IF st[key] = Absent THEN 0 ELSE st[key].balance_cents

Balances(st) == [s \in SurfaceIds |-> Held(st, Surface(s))]

Debits(st) ==
  [c \in Pool["value-spend-balance"] |->
     IF st[SpendBalance(c)] = Absent THEN 0 ELSE st[SpendBalance(c)].amount_cents]

Owned(st) == SumOver(Balances(st), SurfaceIds)
Spent(st) == SumOver(Debits(st), Pool["value-spend-balance"])

(* What a request adds to the balances by declaring one.                   *)
Declared(st, i, all) ==
  IF Declares(i) THEN all[1].value.balance_cents - Held(st, all[1].key) ELSE 0

(* There are sums to speak of, and a largest amount, which is one.         *)
Countable ==
  /\ IsFiniteSet(SurfaceIds)
  /\ IsFiniteSet(Pool["value-spend-balance"])
  /\ IsFiniteSet(TopupAmounts \union SpendAmounts)
  /\ \E a \in TopupAmounts \union SpendAmounts : a >= 0

(* What the given surfaces hold is what their owners declared.             *)
GivenStore(b) == [k \in Keys |-> IF k \in DOMAIN b.given THEN b.given[k] ELSE Absent]

Accounted == \A n \in DOMAIN Bounds : Bounds[n].opening = Owned(GivenStore(Bounds[n]))

(* Between requests: a topup moves between two surfaces;                   *)
Straight(st) ==
  \A t \in Pool["value-topup"] :
    st[Topup(t)] # Absent => st[Topup(t)].from # st[Topup(t)].to

(* movements and debits name decisions that are stored, and not the one of
   an approved topup or spend that is still to move;                       *)
TopupsMoveOnce(st) ==
  \A m \in Pool["value-balance"] : st[BalanceMove(m)] # Absent =>
    /\ st[TopupDecision(st[BalanceMove(m)].decision_id)] # Absent
    /\ \A t \in Pool["value-topup"] : st[Topup(t)] # Absent /\ MayMove(st[Topup(t)]) =>
         st[BalanceMove(m)].decision_id # st[Topup(t)].decision_id

SpendsMoveOnce(st) ==
  \A m \in Pool["value-spend-balance"] : st[SpendBalance(m)] # Absent =>
    /\ st[SpendDecision(st[SpendBalance(m)].decision_id)] # Absent
    /\ \A s \in Pool["value-spend"] : st[Spend(s)] # Absent /\ MayDebit(st[Spend(s)]) =>
         st[SpendBalance(m)].decision_id # st[Spend(s)].decision_id

(* receipts are of stored spends, which list them;                         *)
ReceiptsOf(st, s) ==
  {p \in Pool["value-receipt"] : st[Receipt(p)] # Absent /\ st[Receipt(p)].spend = s}

ListsThem(list, stored) ==
  /\ IsInjective(list)
  /\ ToSet(list) \subseteq stored
  /\ IsFiniteSet(stored)
  /\ Len(list) = IF Cardinality(stored) < MaxIndexItems THEN Cardinality(stored)
                                                        ELSE MaxIndexItems

Listed(st) ==
  /\ \A p \in Pool["value-receipt"] : st[Receipt(p)] # Absent =>
       st[Spend(st[Receipt(p)].spend)] # Absent
  /\ \A s \in Pool["value-spend"] : st[Spend(s)] # Absent =>
       ListsThem(st[Spend(s)].receipt_ids, ReceiptsOf(st, s))

(* and what surfaces hold and debits took is what was declared, but for an
   amount in every request that was cut off.                               *)
Balanced(st, dec, cut) ==
  /\ Owned(st) <= dec
  /\ Owned(st) + Spent(st) >= dec - cut * Largest
  /\ Owned(st) + Spent(st) <= dec + cut * Largest

(* What has to be so for the receipts to be listed, and the books kept.    *)
ReceiptsPrivate == Uncut /\ Unchosen("value-spend") /\ Unchosen("value-receipt")

BooksKept == Unnamed /\ Countable /\ Accounted

Sound(st, dec, cut) ==
  /\ Straight(st)
  /\ Uncut => TopupsMoveOnce(st) /\ SpendsMoveOnce(st)
  /\ ReceiptsPrivate => Listed(st)
  /\ BooksKept => Balanced(st, dec, cut)

(* A request under way: it has put the first k of what it has to put.      *)
Rest(all, k, puts) ==
  /\ Len(puts) = Len(all) - k
  /\ \A n \in 1..Len(puts) : puts[n] = all[n + k]

Partway(b, st, dec, cut, x, st0, all, k) ==
  /\ k \in 0..4
  /\ StoreFits(b, st0) /\ Sound(st0, dec, cut) /\ Opens(st0, x.input)
  /\ Plan(st0, x.input, all) /\ Planned(b, all)
  /\ PutSoFar(st0, all, k, st) /\ Extends(st0, st)
  /\ Rest(all, k, x.puts)

Underway(b, st, dec, cut, x) ==
  \E st0, all, k : Partway(b, st, dec, cut, x, st0, all, k)

Settles(b, st, dec, cut, x) ==
  /\ x = Idle \/ x.puts = <<>> => Sound(st, dec, cut)
  /\ x # Idle /\ x.puts = <<>> => Opens(st, x.input) /\ SeenNow(st, x.input, x.seen)
  /\ x # Idle /\ x.puts # <<>> => Underway(b, st, dec, cut, x)

AInv == \A r \in Requests : Settles(bounds, kv, declared, crashes, request[r])

-----------------------------------------------------------------------------
(* The puts of a request, one after the other.                             *)

(* What requests are about.                                                *)
LEMMA InputsOf ==
  ASSUME NEW i \in Inputs
  PROVE  /\ i.op \in {"register", "patch", "surface-status", "limit", "topup",
                      "topup-decision", "balance", "spend", "limit-check",
                      "spend-decision", "spend-balance", "receipt", "refund",
                      "refund-decision"}
         /\ i.op = "topup" => i.new \in Pool["value-topup"]
         /\ i.op = "topup-decision" =>
              i.new \in Pool["value-topup-decision"] /\ i.topup \in Pool["value-topup"]
         /\ i.op = "balance" =>
              i.new \in Pool["value-balance"] /\ i.topup \in Pool["value-topup"]
         /\ i.op = "spend" => i.new \in Pool["value-spend"]
         /\ i.op = "limit-check" => i.new \in Pool["value-limit-check"]
         /\ i.op = "spend-decision" =>
              i.new \in Pool["value-spend-decision"] /\ i.spend \in Pool["value-spend"]
         /\ i.op = "spend-balance" =>
              i.new \in Pool["value-spend-balance"] /\ i.spend \in Pool["value-spend"]
         /\ i.op = "receipt" =>
              i.new \in Pool["value-receipt"] /\ i.spend \in Pool["value-spend"]
         /\ i.op = "refund" => i.new \in Pool["value-refund"]
         /\ i.op = "refund-decision" =>
              i.new \in Pool["value-refund-decision"] /\ i.refund \in Pool["value-refund"]
BY DEF Inputs

(* A worker puts no record but of the kinds it touches.                    *)
LEMMA PlanTouches ==
  ASSUME NEW st, NEW i \in Inputs, NEW all, Plan(st, i, all),
         NEW j \in 1..Len(all)
  PROVE  Touches(i.op, all[j].key[1])
<1>1. CASE i.op \in SurfaceOps
  BY <1>1, KindOf DEF Plan, PlanSurface, Touches, SurfaceOps
<1>2. CASE i.op = "topup"
  <2>1. Len(all) = 1
        /\ all[1].key = Topup(i.new)
    BY <1>2 DEF Plan, PlanTopup
  <2>2. \A q \in 1..1 : q \in {1}
    OBVIOUS
  <2>3. QED
    BY <1>2, <2>1, <2>2, KindOf DEF Touches
<1>3. CASE i.op = "topup-decision"
  <2>1. Len(all) = 2
        /\ all[1].key = TopupDecision(i.new)
        /\ all[2].key = Topup(i.topup)
    BY <1>3 DEF Plan, PlanTopupDecision
  <2>2. \A q \in 1..2 : q \in {1, 2}
    OBVIOUS
  <2>3. QED
    BY <1>3, <2>1, <2>2, KindOf DEF Touches
<1>4. CASE i.op = "balance"
  <2>1. Len(all) = 5
        /\ all[1].key = BalanceMove(i.new)
        /\ all[2].key = Surface(st[Topup(i.topup)].from)
        /\ all[3].key = Surface(st[Topup(i.topup)].to)
        /\ all[4].key = Topup(i.topup)
        /\ all[5].key = TopupDecision(CitedTopupDecision(i, st[Topup(i.topup)]))
    BY <1>4 DEF Plan, PlanBalance
  <2>2. \A q \in 1..5 : q \in {1, 2, 3, 4, 5}
    OBVIOUS
  <2>3. QED
    BY <1>4, <2>1, <2>2, KindOf DEF Touches
<1>5. CASE i.op = "spend"
  <2>1. Len(all) = 1
        /\ all[1].key = Spend(i.new)
    BY <1>5 DEF Plan, PlanSpend
  <2>2. \A q \in 1..1 : q \in {1}
    OBVIOUS
  <2>3. QED
    BY <1>5, <2>1, <2>2, KindOf DEF Touches
<1>6. CASE i.op = "limit-check"
  <2>1. Len(all) = 1
        /\ all[1].key = LimitCheck(i.new)
    BY <1>6 DEF Plan, PlanCheck
  <2>2. \A q \in 1..1 : q \in {1}
    OBVIOUS
  <2>3. QED
    BY <1>6, <2>1, <2>2, KindOf DEF Touches
<1>7. CASE i.op = "spend-decision"
  <2>1. Len(all) = 2
        /\ all[1].key = SpendDecision(i.new)
        /\ all[2].key = Spend(i.spend)
    BY <1>7 DEF Plan, PlanSpendDecision
  <2>2. \A q \in 1..2 : q \in {1, 2}
    OBVIOUS
  <2>3. QED
    BY <1>7, <2>1, <2>2, KindOf DEF Touches
<1>8. CASE i.op = "spend-balance"
  <2>1. Len(all) = 4
        /\ all[1].key = SpendBalance(i.new)
        /\ all[2].key = Surface(st[Spend(i.spend)].surface)
        /\ all[3].key = Spend(i.spend)
        /\ all[4].key = SpendDecision(CitedSpendDecision(i, st[Spend(i.spend)]))
    BY <1>8 DEF Plan, PlanSpendBalance
  <2>2. \A q \in 1..4 : q \in {1, 2, 3, 4}
    OBVIOUS
  <2>3. QED
    BY <1>8, <2>1, <2>2, KindOf DEF Touches
<1>9. CASE i.op = "receipt"
  <2>1. Len(all) = 2
        /\ all[1].key = Receipt(i.new)
        /\ all[2].key = Spend(i.spend)
    BY <1>9 DEF Plan, PlanReceipt
  <2>2. \A q \in 1..2 : q \in {1, 2}
    OBVIOUS
  <2>3. QED
    BY <1>9, <2>1, <2>2, KindOf DEF Touches
<1>10. CASE i.op = "refund"
  <2>1. Len(all) = 1
        /\ all[1].key = Refund(i.new)
    BY <1>10 DEF Plan, PlanRefund
  <2>2. \A q \in 1..1 : q \in {1}
    OBVIOUS
  <2>3. QED
    BY <1>10, <2>1, <2>2, KindOf DEF Touches
<1>11. CASE i.op = "refund-decision"
  <2>1. Len(all) = 2
        /\ all[1].key = RefundDecision(i.new)
        /\ all[2].key = Refund(i.refund)
    BY <1>11 DEF Plan, PlanRefundDecision
  <2>2. \A q \in 1..2 : q \in {1, 2}
    OBVIOUS
  <2>3. QED
    BY <1>11, <2>1, <2>2, KindOf DEF Touches
<1>12. QED
  BY <1>1, <1>2, <1>3, <1>4, <1>5, <1>6, <1>7, <1>8, <1>9, <1>10, <1>11, InputsOf
  DEF SurfaceOps

(* The others stay as they are.                                            *)
LEMMA Untouched ==
  ASSUME NEW st0, NEW i \in Inputs, NEW all, Plan(st0, i, all),
         NEW k, k \in 0..Len(all), Len(all) \in Nat, NEW st, PutSoFar(st0, all, k, st),
         NEW key \in Keys, ~Touches(i.op, key[1])
  PROVE  st[key] = st0[key]
<1>1. \A j \in 1..k : all[j].key # key
  BY PlanTouches
<1>2. QED
  BY <1>1 DEF PutSoFar

(* Nothing of a plan is put yet.                                           *)
LEMMA NonePut ==
  ASSUME NEW b, NEW st, StoreFits(b, st), NEW all
  PROVE  PutSoFar(st, all, 0, st) /\ Extends(st, st)
BY DEF PutSoFar, StoreFits, Extends, Agrees, Same

(* One more put.                                                           *)
LEMMA NextPut ==
  ASSUME NEW b, NEW st0, NEW all, Planned(b, all), NEW k \in 0..4, k < Len(all),
         NEW st, PutSoFar(st0, all, k, st), NEW p, p = all[k + 1]
  PROVE  /\ PutSoFar(st0, all, k + 1, With(st, p))
         /\ p.key \in Keys
         /\ st[p.key] = st0[p.key]
<1>1. /\ Len(all) \in 1..5 /\ k + 1 \in 1..Len(all)
      /\ p.key \in Keys
      /\ \A j \in 1..k : all[j].key # p.key
  BY DEF Planned
<1>2. st[p.key] = st0[p.key]
  BY <1>1 DEF PutSoFar
<1>3. PICK after : after = With(st, p)
  OBVIOUS
<1>4. DOMAIN after = Keys /\ after[p.key] = p.value
      /\ \A key \in Keys : key # p.key => after[key] = st[key]
  BY <1>1, <1>3 DEF With, PutSoFar
<1>5. ASSUME NEW j \in 1..(k + 1) PROVE after[all[j].key] = all[j].value
  <2>1. CASE j = k + 1
    BY <2>1, <1>4
  <2>2. CASE j # k + 1
    <3>1. j \in 1..k
      BY <2>2
    <3>2. all[j].key \in Keys
      BY <3>1, <1>1 DEF Planned
    <3>3. QED
      BY <3>1, <3>2, <1>1, <1>4 DEF PutSoFar
  <2>3. QED
    BY <2>1, <2>2
<1>6. ASSUME NEW key \in Keys, \A j \in 1..(k + 1) : all[j].key # key
      PROVE  after[key] = st0[key]
  <2>1. (\A j \in 1..k : all[j].key # key) /\ key # p.key
    BY <1>6
  <2>2. QED
    BY <2>1, <1>4 DEF PutSoFar
<1>7. QED
  BY <1>1, <1>2, <1>3, <1>4, <1>5, <1>6 DEF PutSoFar

(* A store that extends an extension extends.                              *)
LEMMA ExtendsAgain ==
  ASSUME NEW st0, NEW st, NEW after, Extends(st0, st), Extends(st, after)
  PROVE  Extends(st0, after)
BY AgreesLonger DEF Extends

-----------------------------------------------------------------------------
(* What the puts of one request leave of a sound store.                    *)

(* Topups keep their two ends apart, after any of the puts.                *)
LEMMA StraightAfter ==
  ASSUME NEW st0, Straight(st0), NEW i \in Inputs, NEW all, Plan(st0, i, all),
         Len(all) \in Nat, NEW k \in 0..Len(all), NEW st, PutSoFar(st0, all, k, st)
  PROVE  Straight(st)
<1>1. SUFFICES ASSUME NEW t \in Pool["value-topup"], st[Topup(t)] # Absent
               PROVE  st[Topup(t)].from # st[Topup(t)].to
  BY DEF Straight
<1>2. Topup(t) \in Keys /\ Topup(t)[1] = "value-topup"
  BY KeyOf, KindOf
<1>3. CASE \A j \in 1..k : all[j].key # Topup(t)
  BY <1>1, <1>2, <1>3 DEF PutSoFar, Straight
<1>4. CASE \E j \in 1..k : all[j].key = Topup(t)
  <2>1. PICK j \in 1..k : all[j].key = Topup(t)
    BY <1>4
  <2>2. st[Topup(t)] = all[j].value /\ j \in 1..Len(all)
    BY <2>1 DEF PutSoFar
  <2>3. Touches(i.op, "value-topup")
    BY <1>2, <2>1, <2>2, PlanTouches
  <2>4. CASE i.op = "topup"
    <3>1. PlanTopup(st0, i, all)
      BY <2>4 DEF Plan
    <3>2. j = 1 /\ all[1].value.from # all[1].value.to
      BY <2>2, <3>1 DEF PlanTopup
    <3>3. QED
      BY <2>2, <3>2
  <2>5. CASE i.op = "topup-decision"
    <3>1. PlanTopupDecision(st0, i, all)
      BY <2>5 DEF Plan
    <3>2. i.topup \in Pool["value-topup"]
      BY <2>5, InputsOf
    <3>3. j \in {1, 2} /\ TopupDecision(i.new)[1] = "value-topup-decision"
      BY <2>2, <3>1, KindOf DEF PlanTopupDecision
    <3>4. j = 2
      BY <1>2, <2>1, <3>1, <3>3 DEF PlanTopupDecision
    <3>5. QED
      BY <2>2, <3>1, <3>2, <3>4 DEF PlanTopupDecision, Straight
  <2>6. CASE i.op = "balance"
    <3>1. PlanBalance(st0, i, all)
      BY <2>6 DEF Plan
    <3>2. i.topup \in Pool["value-topup"]
      BY <2>6, InputsOf
    <3>3. Len(all) = 5 /\ all[1].key[1] # "value-topup" /\ all[2].key[1] # "value-topup"
          /\ all[3].key[1] # "value-topup" /\ all[5].key[1] # "value-topup"
      BY <3>1, KindOf DEF PlanBalance
    <3>4. j \in {1, 2, 3, 4, 5}
      BY <2>2, <3>3
    <3>5. j = 4
      BY <1>2, <2>1, <3>3, <3>4
    <3>6. QED
      BY <2>2, <3>1, <3>2, <3>5 DEF PlanBalance, Straight
  <2>7. QED
    BY <2>3, <2>4, <2>5, <2>6 DEF Touches
<1>5. QED
  BY <1>3, <1>4

(* Movements stay apart from the topups that are still to move.            *)
LEMMA TopupsMoveOnceAfter ==
  ASSUME NEW b, NEW st0, StoreFits(b, st0), TopupsMoveOnce(st0),
         NEW i \in Inputs, Opens(st0, i), NEW all, Plan(st0, i, all), Planned(b, all),
         NEW st, StoreFits(b, st), PutSoFar(st0, all, Len(all), st), Extends(st0, st)
  PROVE  TopupsMoveOnce(st)
<1>1. Len(all) \in Nat /\ Len(all) \in 0..Len(all) /\ Len(all) \in 1..5
  BY DEF Planned
<1>2. ASSUME NEW d \in Pool["value-topup-decision"], st0[TopupDecision(d)] # Absent
      PROVE  st[TopupDecision(d)] # Absent
  <2>1. TopupDecision(d) \in Keys /\ Lasting(TopupDecision(d))
    BY KeyOf, KindOf DEF Lasting
  <2>2. QED
    BY <1>2, <2>1 DEF Extends, Agrees
<1>3. ASSUME NEW m \in Pool["value-balance"], st0[BalanceMove(m)] # Absent
      PROVE  st0[BalanceMove(m)].decision_id \in Pool["value-topup-decision"]
  <2>1. BalanceMove(m) \in Keys /\ BalanceMove(m)[1] = "value-balance"
    BY KeyOf, KindOf
  <2>2. st0[BalanceMove(m)] \in BalanceRecord
    BY <1>3, <2>1 DEF StoreFits, Fine, Shaped
  <2>3. QED
    BY <2>2 DEF BalanceRecord
<1>4. ASSUME NEW t \in Pool["value-topup"],
             Topup(t) \notin {all[j].key : j \in 1..Len(all)}
      PROVE  st[Topup(t)] = st0[Topup(t)]
  BY <1>4, KeyOf DEF PutSoFar
<1>5. ASSUME NEW m \in Pool["value-balance"],
             BalanceMove(m) \notin {all[j].key : j \in 1..Len(all)}
      PROVE  st[BalanceMove(m)] = st0[BalanceMove(m)]
  BY <1>5, KeyOf DEF PutSoFar
<1>6. CASE i.op # "topup" /\ i.op # "topup-decision" /\ i.op # "balance"
  <2>1. ~Touches(i.op, "value-topup") /\ ~Touches(i.op, "value-balance")
    BY <1>6 DEF Touches
  <2>2. \A t \in Pool["value-topup"] : st[Topup(t)] = st0[Topup(t)]
    BY <1>1, <2>1, Untouched, KeyOf, KindOf
  <2>3. \A m \in Pool["value-balance"] : st[BalanceMove(m)] = st0[BalanceMove(m)]
    BY <1>1, <2>1, Untouched, KeyOf, KindOf
  <2>4. QED
    BY <1>2, <1>3, <2>2, <2>3 DEF TopupsMoveOnce
<1>7. CASE i.op = "topup"
  <2>1. Len(all) = 1 /\ all[1].key = Topup(i.new) /\ all[1].value.decision = "undecided"
    BY <1>7 DEF Plan, PlanTopup
  <2>2. ~Touches(i.op, "value-balance")
    BY <1>7 DEF Touches
  <2>3. \A m \in Pool["value-balance"] : st[BalanceMove(m)] = st0[BalanceMove(m)]
    BY <1>1, <2>2, Untouched, KeyOf, KindOf
  <2>4. st[Topup(i.new)] = all[1].value
    BY <2>1 DEF PutSoFar
  <2>5. ~MayMove(st[Topup(i.new)])
    BY <2>1, <2>4 DEF MayMove
  <2>6. ASSUME NEW t \in Pool["value-topup"], t # i.new
        PROVE  st[Topup(t)] = st0[Topup(t)]
    <3>1. Topup(t) # Topup(i.new)
      BY <2>6, KindOf
    <3>2. QED
      BY <2>1, <3>1, <1>4
  <2>7. QED
    BY <1>2, <1>3, <2>3, <2>5, <2>6 DEF TopupsMoveOnce
<1>8. CASE i.op = "topup-decision"
  <2>1. PlanTopupDecision(st0, i, all) /\ i.topup \in Pool["value-topup"]
    BY <1>8, InputsOf DEF Plan
  <2>2. ~Touches(i.op, "value-balance")
    BY <1>8 DEF Touches
  <2>3. \A m \in Pool["value-balance"] : st[BalanceMove(m)] = st0[BalanceMove(m)]
    BY <1>1, <2>2, Untouched, KeyOf, KindOf
  <2>4. Len(all) = 2 /\ all[1].key = TopupDecision(i.new) /\ all[2].key = Topup(i.topup)
        /\ all[2].value.decision_id = i.new
    BY <2>1 DEF PlanTopupDecision
  <2>5. st[Topup(i.topup)].decision_id = i.new
    BY <2>4 DEF PutSoFar
  <2>6. ASSUME NEW t \in Pool["value-topup"], t # i.topup
        PROVE  st[Topup(t)] = st0[Topup(t)]
    <3>1. Topup(t) # Topup(i.topup) /\ Topup(t) # TopupDecision(i.new)
      BY <2>6, KindOf
    <3>2. \A j \in 1..2 : j \in {1, 2}
      OBVIOUS
    <3>3. QED
      BY <2>4, <3>1, <3>2, <1>4
  <2>7. st0[TopupDecision(i.new)] = Absent
    BY <1>8 DEF Opens
  <2>8. \A m \in Pool["value-balance"] :
          st0[BalanceMove(m)] # Absent => st0[BalanceMove(m)].decision_id # i.new
    BY <2>7 DEF TopupsMoveOnce
  <2>9. QED
    BY <1>2, <1>3, <2>3, <2>5, <2>6, <2>8 DEF TopupsMoveOnce
<1>9. CASE i.op = "balance"
  <2>1. PICK t0, c : t0 = st0[Topup(i.topup)] /\ c = CitedTopupDecision(i, t0)
    OBVIOUS
  <2>2. /\ c \in Pool["value-topup-decision"] /\ st0[TopupDecision(c)] # Absent
        /\ st0[TopupDecision(c)].topup = i.topup
        /\ Len(all) = 5
        /\ all[1].key = BalanceMove(i.new) /\ all[2].key = Surface(t0.from)
        /\ all[3].key = Surface(t0.to) /\ all[4].key = Topup(i.topup)
        /\ all[5].key = TopupDecision(c)
        /\ all[1].value.decision_id = c /\ all[4].value.balance_moved = TRUE
    BY <1>9, <2>1 DEF Plan, PlanBalance, Approves
  <2>3. st[BalanceMove(i.new)] = all[1].value /\ st[Topup(i.topup)] = all[4].value
    BY <2>2 DEF PutSoFar
  <2>4. \A j \in 1..5 : j \in {1, 2, 3, 4, 5}
    OBVIOUS
  <2>5. ~MayMove(st[Topup(i.topup)])
    BY <2>2, <2>3 DEF MayMove
  <2>6. ASSUME NEW t \in Pool["value-topup"], t # i.topup
        PROVE  st[Topup(t)] = st0[Topup(t)]
    <3>1. /\ Topup(t) # BalanceMove(i.new) /\ Topup(t) # Surface(t0.from)
          /\ Topup(t) # Surface(t0.to) /\ Topup(t) # Topup(i.topup)
          /\ Topup(t) # TopupDecision(c)
      BY <2>6, KindOf
    <3>2. QED
      BY <2>2, <2>4, <3>1, <1>4
  <2>7. ASSUME NEW m \in Pool["value-balance"], m # i.new
        PROVE  st[BalanceMove(m)] = st0[BalanceMove(m)]
    <3>1. /\ BalanceMove(m) # BalanceMove(i.new) /\ BalanceMove(m) # Surface(t0.from)
          /\ BalanceMove(m) # Surface(t0.to) /\ BalanceMove(m) # Topup(i.topup)
          /\ BalanceMove(m) # TopupDecision(c)
      BY <2>7, KindOf
    <3>2. QED
      BY <2>2, <2>4, <3>1, <1>5
  <2>8. ASSUME NEW t \in Pool["value-topup"], t # i.topup, st0[Topup(t)] # Absent,
               MayMove(st0[Topup(t)])
        PROVE  st0[Topup(t)].decision_id # c
    <3>1. Topup(t) \in Keys /\ Topup(t)[1] = "value-topup" /\ Topup(t)[2] = t
      BY KeyOf, KindOf
    <3>2. TopupBacked(st0, t, st0[Topup(t)])
      BY <2>8, <3>1 DEF StoreFits, Fine, Genuine
    <3>3. st0[TopupDecision(st0[Topup(t)].decision_id)].topup = t
      BY <2>8, <3>2 DEF TopupBacked, MayMove, ApprovalOfTopup
    <3>4. QED
      BY <2>2, <2>8, <3>3
  <2>9. SUFFICES ASSUME NEW m \in Pool["value-balance"], st[BalanceMove(m)] # Absent
                 PROVE  /\ st[TopupDecision(st[BalanceMove(m)].decision_id)] # Absent
                        /\ \A t \in Pool["value-topup"] :
                             st[Topup(t)] # Absent /\ MayMove(st[Topup(t)]) =>
                               st[BalanceMove(m)].decision_id # st[Topup(t)].decision_id
    BY DEF TopupsMoveOnce
  <2>10. CASE m = i.new
    BY <2>10, <2>2, <2>3, <2>5, <2>6, <2>8, <1>2
  <2>11. CASE m # i.new
    <3>1. st[BalanceMove(m)] = st0[BalanceMove(m)]
      BY <2>11, <2>7
    <3>2. QED
      BY <2>9, <3>1, <2>5, <2>6, <1>2, <1>3 DEF TopupsMoveOnce
  <2>12. QED
    BY <2>10, <2>11
<1>10. QED
  BY <1>6, <1>7, <1>8, <1>9

(* And debits from the spends that are still to be debited.                *)
LEMMA SpendsMoveOnceAfter ==
  ASSUME NEW b, NEW st0, StoreFits(b, st0), SpendsMoveOnce(st0),
         NEW i \in Inputs, Opens(st0, i), NEW all, Plan(st0, i, all), Planned(b, all),
         NEW st, StoreFits(b, st), PutSoFar(st0, all, Len(all), st), Extends(st0, st)
  PROVE  SpendsMoveOnce(st)
<1>1. Len(all) \in Nat /\ Len(all) \in 0..Len(all) /\ Len(all) \in 1..5
  BY DEF Planned
<1>2. ASSUME NEW d \in Pool["value-spend-decision"], st0[SpendDecision(d)] # Absent
      PROVE  st[SpendDecision(d)] # Absent
  <2>1. SpendDecision(d) \in Keys /\ Lasting(SpendDecision(d))
    BY KeyOf, KindOf DEF Lasting
  <2>2. QED
    BY <1>2, <2>1 DEF Extends, Agrees
<1>3. ASSUME NEW m \in Pool["value-spend-balance"], st0[SpendBalance(m)] # Absent
      PROVE  st0[SpendBalance(m)].decision_id \in Pool["value-spend-decision"]
  <2>1. SpendBalance(m) \in Keys /\ SpendBalance(m)[1] = "value-spend-balance"
    BY KeyOf, KindOf
  <2>2. st0[SpendBalance(m)] \in SpendBalanceRecord
    BY <1>3, <2>1 DEF StoreFits, Fine, Shaped
  <2>3. QED
    BY <2>2 DEF SpendBalanceRecord
<1>4. ASSUME NEW t \in Pool["value-spend"],
             Spend(t) \notin {all[j].key : j \in 1..Len(all)}
      PROVE  st[Spend(t)] = st0[Spend(t)]
  BY <1>4, KeyOf DEF PutSoFar
<1>5. ASSUME NEW m \in Pool["value-spend-balance"],
             SpendBalance(m) \notin {all[j].key : j \in 1..Len(all)}
      PROVE  st[SpendBalance(m)] = st0[SpendBalance(m)]
  BY <1>5, KeyOf DEF PutSoFar
<1>6. CASE i.op \notin {"spend", "spend-decision", "spend-balance", "receipt"}
  <2>1. ~Touches(i.op, "value-spend") /\ ~Touches(i.op, "value-spend-balance")
    BY <1>6 DEF Touches
  <2>2. \A t \in Pool["value-spend"] : st[Spend(t)] = st0[Spend(t)]
    BY <1>1, <2>1, Untouched, KeyOf, KindOf
  <2>3. \A m \in Pool["value-spend-balance"] : st[SpendBalance(m)] = st0[SpendBalance(m)]
    BY <1>1, <2>1, Untouched, KeyOf, KindOf
  <2>4. QED
    BY <1>2, <1>3, <2>2, <2>3 DEF SpendsMoveOnce
<1>7. CASE i.op = "spend"
  <2>1. Len(all) = 1 /\ all[1].key = Spend(i.new) /\ all[1].value.decision = "undecided"
    BY <1>7 DEF Plan, PlanSpend
  <2>2. ~Touches(i.op, "value-spend-balance")
    BY <1>7 DEF Touches
  <2>3. \A m \in Pool["value-spend-balance"] : st[SpendBalance(m)] = st0[SpendBalance(m)]
    BY <1>1, <2>2, Untouched, KeyOf, KindOf
  <2>4. st[Spend(i.new)] = all[1].value
    BY <2>1 DEF PutSoFar
  <2>5. ~MayDebit(st[Spend(i.new)])
    BY <2>1, <2>4 DEF MayDebit
  <2>6. ASSUME NEW t \in Pool["value-spend"], t # i.new
        PROVE  st[Spend(t)] = st0[Spend(t)]
    <3>1. Spend(t) # Spend(i.new)
      BY <2>6, KindOf
    <3>2. QED
      BY <2>1, <3>1, <1>4
  <2>7. QED
    BY <1>2, <1>3, <2>3, <2>5, <2>6 DEF SpendsMoveOnce
<1>8. CASE i.op = "spend-decision"
  <2>1. PlanSpendDecision(st0, i, all) /\ i.spend \in Pool["value-spend"]
    BY <1>8, InputsOf DEF Plan
  <2>2. ~Touches(i.op, "value-spend-balance")
    BY <1>8 DEF Touches
  <2>3. \A m \in Pool["value-spend-balance"] : st[SpendBalance(m)] = st0[SpendBalance(m)]
    BY <1>1, <2>2, Untouched, KeyOf, KindOf
  <2>4. Len(all) = 2 /\ all[1].key = SpendDecision(i.new) /\ all[2].key = Spend(i.spend)
        /\ all[2].value.decision_id = i.new
    BY <2>1 DEF PlanSpendDecision
  <2>5. st[Spend(i.spend)].decision_id = i.new
    BY <2>4 DEF PutSoFar
  <2>6. ASSUME NEW t \in Pool["value-spend"], t # i.spend
        PROVE  st[Spend(t)] = st0[Spend(t)]
    <3>1. Spend(t) # Spend(i.spend) /\ Spend(t) # SpendDecision(i.new)
      BY <2>6, KindOf
    <3>2. \A j \in 1..2 : j \in {1, 2}
      OBVIOUS
    <3>3. QED
      BY <2>4, <3>1, <3>2, <1>4
  <2>7. st0[SpendDecision(i.new)] = Absent
    BY <1>8 DEF Opens
  <2>8. \A m \in Pool["value-spend-balance"] :
          st0[SpendBalance(m)] # Absent => st0[SpendBalance(m)].decision_id # i.new
    BY <2>7 DEF SpendsMoveOnce
  <2>9. QED
    BY <1>2, <1>3, <2>3, <2>5, <2>6, <2>8 DEF SpendsMoveOnce
<1>9. CASE i.op = "receipt"
  <2>1. PlanReceipt(st0, i, all) /\ i.spend \in Pool["value-spend"]
    BY <1>9, InputsOf DEF Plan
  <2>2. ~Touches(i.op, "value-spend-balance")
    BY <1>9 DEF Touches
  <2>3. \A m \in Pool["value-spend-balance"] : st[SpendBalance(m)] = st0[SpendBalance(m)]
    BY <1>1, <2>2, Untouched, KeyOf, KindOf
  <2>4. PICK s0, v : s0 = st0[Spend(i.spend)] /\ v = all[2].value
    OBVIOUS
  <2>5. Len(all) = 2 /\ all[1].key = Receipt(i.new) /\ all[2].key = Spend(i.spend)
        /\ s0 # Absent /\ v.decision_id = s0.decision_id
        /\ v.decision = s0.decision /\ v.balance_moved = s0.balance_moved
    BY <2>1, <2>4 DEF PlanReceipt
  <2>6. st[Spend(i.spend)] = v
    BY <2>4, <2>5 DEF PutSoFar
  <2>7. v.decision_id = s0.decision_id /\ (MayDebit(v) => MayDebit(s0))
    BY <2>5 DEF MayDebit
  <2>8. ASSUME NEW t \in Pool["value-spend"], t # i.spend
        PROVE  st[Spend(t)] = st0[Spend(t)]
    <3>1. Spend(t) # Spend(i.spend) /\ Spend(t) # Receipt(i.new)
      BY <2>8, KindOf
    <3>2. \A j \in 1..2 : j \in {1, 2}
      OBVIOUS
    <3>3. QED
      BY <2>5, <3>1, <3>2, <1>4
  <2>9. ASSUME NEW t \in Pool["value-spend"], st[Spend(t)] # Absent, MayDebit(st[Spend(t)])
        PROVE  /\ st0[Spend(t)] # Absent /\ MayDebit(st0[Spend(t)])
               /\ st[Spend(t)].decision_id = st0[Spend(t)].decision_id
    BY <2>9, <2>4, <2>5, <2>6, <2>7, <2>8
  <2>10. QED
    BY <1>2, <1>3, <2>3, <2>9 DEF SpendsMoveOnce
<1>10. CASE i.op = "spend-balance"
  <2>1. PICK s0, c : s0 = st0[Spend(i.spend)] /\ c = CitedSpendDecision(i, s0)
    OBVIOUS
  <2>2. /\ c \in Pool["value-spend-decision"] /\ st0[SpendDecision(c)] # Absent
        /\ st0[SpendDecision(c)].spend = i.spend
        /\ Len(all) = 4
        /\ all[1].key = SpendBalance(i.new) /\ all[2].key = Surface(s0.surface)
        /\ all[3].key = Spend(i.spend) /\ all[4].key = SpendDecision(c)
        /\ all[1].value.decision_id = c /\ all[3].value.balance_moved = TRUE
    BY <1>10, <2>1 DEF Plan, PlanSpendBalance
  <2>3. st[SpendBalance(i.new)] = all[1].value /\ st[Spend(i.spend)] = all[3].value
    BY <2>2 DEF PutSoFar
  <2>4. \A j \in 1..4 : j \in {1, 2, 3, 4}
    OBVIOUS
  <2>5. ~MayDebit(st[Spend(i.spend)])
    BY <2>2, <2>3 DEF MayDebit
  <2>6. ASSUME NEW t \in Pool["value-spend"], t # i.spend
        PROVE  st[Spend(t)] = st0[Spend(t)]
    <3>1. /\ Spend(t) # SpendBalance(i.new) /\ Spend(t) # Surface(s0.surface)
          /\ Spend(t) # Spend(i.spend) /\ Spend(t) # SpendDecision(c)
      BY <2>6, KindOf
    <3>2. QED
      BY <2>2, <2>4, <3>1, <1>4
  <2>7. ASSUME NEW m \in Pool["value-spend-balance"], m # i.new
        PROVE  st[SpendBalance(m)] = st0[SpendBalance(m)]
    <3>1. /\ SpendBalance(m) # SpendBalance(i.new)
          /\ SpendBalance(m) # Surface(s0.surface)
          /\ SpendBalance(m) # Spend(i.spend) /\ SpendBalance(m) # SpendDecision(c)
      BY <2>7, KindOf
    <3>2. QED
      BY <2>2, <2>4, <3>1, <1>5
  <2>8. ASSUME NEW t \in Pool["value-spend"], t # i.spend, st0[Spend(t)] # Absent,
               MayDebit(st0[Spend(t)])
        PROVE  st0[Spend(t)].decision_id # c
    <3>1. Spend(t) \in Keys /\ Spend(t)[1] = "value-spend" /\ Spend(t)[2] = t
      BY KeyOf, KindOf
    <3>2. SpendBacked(st0, t, st0[Spend(t)])
      BY <2>8, <3>1 DEF StoreFits, Fine, Genuine
    <3>3. st0[SpendDecision(st0[Spend(t)].decision_id)].spend = t
      BY <2>8, <3>2 DEF SpendBacked, MayDebit, ApprovalOfSpend
    <3>4. QED
      BY <2>2, <2>8, <3>3
  <2>9. SUFFICES ASSUME NEW m \in Pool["value-spend-balance"], st[SpendBalance(m)] # Absent
                 PROVE  /\ st[SpendDecision(st[SpendBalance(m)].decision_id)] # Absent
                        /\ \A t \in Pool["value-spend"] :
                             st[Spend(t)] # Absent /\ MayDebit(st[Spend(t)]) =>
                               st[SpendBalance(m)].decision_id # st[Spend(t)].decision_id
    BY DEF SpendsMoveOnce
  <2>10. CASE m = i.new
    BY <2>10, <2>2, <2>3, <2>5, <2>6, <2>8, <1>2
  <2>11. CASE m # i.new
    <3>1. st[SpendBalance(m)] = st0[SpendBalance(m)]
      BY <2>11, <2>7
    <3>2. QED
      BY <2>9, <3>1, <2>5, <2>6, <1>2, <1>3 DEF SpendsMoveOnce
  <2>12. QED
    BY <2>10, <2>11
<1>11. QED
  BY <1>6, <1>7, <1>8, <1>9, <1>10

(* A receipt that is new is listed with the others, or as far as the cap
   lets it.                                                                *)
LEMMA OneMoreListed ==
  ASSUME NEW A, NEW list \in Seq(A), NEW p \in A, NEW stored, ListsThem(list, stored),
         p \notin stored
  PROVE  ListsThem(WithReceipt(list, p), stored \union {p})
<1>1. /\ IsInjective(list) /\ ToSet(list) \subseteq stored /\ IsFiniteSet(stored)
      /\ Len(list) = IF Cardinality(stored) < MaxIndexItems THEN Cardinality(stored)
                                                            ELSE MaxIndexItems
  BY DEF ListsThem
<1>2. PICK w : w = Without(list, p)
  OBVIOUS
<1>3. w \in Seq(A) /\ ToSet(w) = ToSet(list) /\ IsInjective(w)
  <2>1. /\ Without(list, p) \in Seq(A)
        /\ ToSet(Without(list, p)) = ToSet(list) \ {p}
        /\ IsInjective(list) => IsInjective(Without(list, p))
    BY WithoutItems
  <2>2. p \notin ToSet(list)
    BY <1>1
  <2>3. QED
    BY <1>1, <1>2, <2>1, <2>2
<1>4. Cardinality(ToSet(w)) = Len(w) /\ Cardinality(ToSet(list)) = Len(list)
  BY <1>1, <1>3, DistinctLength
<1>5. Len(w) = Len(list)
  BY <1>3, <1>4
<1>6. PICK more : more = <<p>> \o w
  OBVIOUS
<1>7. /\ more \in Seq(A) /\ Len(more) = Len(list) + 1
      /\ ToSet(more) = ToSet(list) \union {p} /\ IsInjective(more)
  BY <1>1, <1>3, <1>5, <1>6, FrontItems
<1>8. MaxIndexItems \in Nat
  BY CirculationAssumption
<1>9. PICK cut : cut = Capped(more, MaxIndexItems)
  OBVIOUS
<1>10. /\ IsInjective(cut) /\ ToSet(cut) \subseteq ToSet(more)
       /\ Len(cut) = IF Len(more) < MaxIndexItems THEN Len(more) ELSE MaxIndexItems
  BY <1>7, <1>8, <1>9, CappedItems
<1>11. WithReceipt(list, p) = cut
  BY <1>2, <1>6, <1>9 DEF WithReceipt
<1>12. /\ Cardinality(stored) \in Nat /\ IsFiniteSet(stored \union {p})
       /\ Cardinality(stored \union {p}) = Cardinality(stored) + 1
  BY <1>1, FS_CardinalityType, FS_AddElement
<1>13. Len(cut) = IF Cardinality(stored) + 1 < MaxIndexItems THEN Cardinality(stored) + 1
                                                             ELSE MaxIndexItems
  BY <1>1, <1>7, <1>8, <1>10, <1>12
<1>14. ToSet(cut) \subseteq stored \union {p}
  BY <1>1, <1>7, <1>10
<1>15. QED
  BY <1>10, <1>11, <1>12, <1>13, <1>14 DEF ListsThem

(* Nothing lists nothing.                                                  *)
LEMMA NoneListed == ListsThem(<<>>, {})
<1>1. IsFiniteSet({}) /\ Cardinality({}) = 0
  BY FS_EmptySet
<1>2. IsInjective(<<>>) /\ ToSet(<<>>) = {} /\ Len(<<>>) = 0
  BY DEF IsInjective, ToSet
<1>3. 0 < MaxIndexItems
  BY CirculationAssumption
<1>4. QED
  BY <1>1, <1>2, <1>3 DEF ListsThem

(* Receipts stay listed.                                                   *)
LEMMA ListedAfter ==
  ASSUME NEW b, NEW st0, StoreFits(b, st0), Listed(st0),
         Unchosen("value-spend"), Unchosen("value-receipt"),
         NEW i \in Inputs, Opens(st0, i), NEW all, Plan(st0, i, all), Planned(b, all),
         NEW st, PutSoFar(st0, all, Len(all), st)
  PROVE  Listed(st)
<1>1. Len(all) \in Nat /\ Len(all) \in 0..Len(all) /\ Len(all) \in 1..5
  BY DEF Planned
<1>2. ASSUME NEW t \in Pool["value-spend"],
             Spend(t) \notin {all[j].key : j \in 1..Len(all)}
      PROVE  st[Spend(t)] = st0[Spend(t)]
  BY <1>2, KeyOf DEF PutSoFar
<1>3. ASSUME NEW j \in 1..Len(all), NEW t, all[j].key = Spend(t)
      PROVE  st[Spend(t)] = all[j].value /\ all[j].value # Absent
  <2>1. IsSpend(all[j].value)
    <3>1. all[j].key[1] = "value-spend"
      BY <1>3, KindOf
    <3>2. Shaped(b, all[j].key, all[j].value)
      BY DEF Planned
    <3>3. QED
      BY <3>1, <3>2 DEF Shaped
  <2>2. QED
    BY <1>3, <2>1, CirculationAssumption DEF PutSoFar, IsSpend
<1>4. ASSUME NEW p \in Pool["value-receipt"], st0[Receipt(p)] # Absent
      PROVE  st0[Receipt(p)].spend \in Pool["value-spend"]
  <2>1. Receipt(p) \in Keys /\ Receipt(p)[1] = "value-receipt"
    BY KeyOf, KindOf
  <2>2. st0[Receipt(p)] \in ReceiptRecord
    BY <1>4, <2>1 DEF StoreFits, Fine, Shaped
  <2>3. QED
    BY <2>2 DEF ReceiptRecord
<1>5. CASE i.op # "receipt"
  <2>1. ~Touches(i.op, "value-receipt")
    BY <1>5 DEF Touches
  <2>2. \A p \in Pool["value-receipt"] : st[Receipt(p)] = st0[Receipt(p)]
    BY <1>1, <2>1, Untouched, KeyOf, KindOf
  <2>3. \A s : ReceiptsOf(st, s) = ReceiptsOf(st0, s)
    BY <2>2 DEF ReceiptsOf
  <2>4. CASE i.op \notin {"spend", "spend-decision", "spend-balance"}
    <3>1. ~Touches(i.op, "value-spend")
      BY <1>5, <2>4 DEF Touches
    <3>2. \A t \in Pool["value-spend"] : st[Spend(t)] = st0[Spend(t)]
      BY <1>1, <3>1, Untouched, KeyOf, KindOf
    <3>3. QED
      BY <1>4, <2>2, <2>3, <3>2 DEF Listed
  <2>5. CASE i.op = "spend"
    <3>1. Len(all) = 1 /\ all[1].key = Spend(i.new) /\ all[1].value.receipt_ids = <<>>
      BY <2>5 DEF Plan, PlanSpend
    <3>2. st0[Spend(i.new)] = Absent
      BY <2>5 DEF Opens
    <3>3. ReceiptsOf(st0, i.new) = {}
      BY <3>2 DEF Listed, ReceiptsOf
    <3>4. st[Spend(i.new)] # Absent /\ st[Spend(i.new)].receipt_ids = <<>>
      BY <1>3, <3>1
    <3>5. ASSUME NEW t \in Pool["value-spend"], t # i.new
          PROVE  st[Spend(t)] = st0[Spend(t)]
      <4>1. Spend(t) # Spend(i.new)
        BY <3>5, KindOf
      <4>2. QED
        BY <3>1, <4>1, <1>2
    <3>6. ASSUME NEW t \in Pool["value-spend"], st[Spend(t)] # Absent
          PROVE  ListsThem(st[Spend(t)].receipt_ids, ReceiptsOf(st, t))
      <4>1. CASE t = i.new
        BY <4>1, <2>3, <3>3, <3>4, NoneListed
      <4>2. CASE t # i.new
        BY <4>2, <2>3, <3>5, <3>6 DEF Listed
      <4>3. QED
        BY <4>1, <4>2
    <3>7. ASSUME NEW p \in Pool["value-receipt"], st[Receipt(p)] # Absent
          PROVE  st[Spend(st[Receipt(p)].spend)] # Absent
      BY <3>7, <1>4, <2>2, <3>2, <3>5 DEF Listed
    <3>8. QED
      BY <3>6, <3>7 DEF Listed
  <2>6. CASE i.op \in {"spend-decision", "spend-balance"}
    <3>1. i.spend \in Pool["value-spend"]
      BY <2>6, InputsOf
    <3>2. PICK s0 : s0 = st0[Spend(i.spend)]
      OBVIOUS
    <3>3. /\ s0 # Absent
          /\ \E n \in 1..Len(all) :
               /\ all[n].key = Spend(i.spend) /\ all[n].value.receipt_ids = s0.receipt_ids
               /\ \A j \in 1..Len(all) : j # n => all[j].key[1] # "value-spend"
      <4>1. CASE i.op = "spend-decision"
        <5>1. Len(all) = 2 /\ all[1].key = SpendDecision(i.new)
              /\ all[2].key = Spend(i.spend) /\ s0 # Absent
              /\ all[2].value.receipt_ids = s0.receipt_ids
          BY <4>1, <3>2 DEF Plan, PlanSpendDecision
        <5>2. \A j \in 1..2 : j \in {1, 2}
          OBVIOUS
        <5>3. all[1].key[1] # "value-spend"
          BY <5>1, KindOf
        <5>4. 2 \in 1..Len(all) /\ \A j \in 1..Len(all) : j # 2 => all[j].key[1] # "value-spend"
          BY <5>1, <5>2, <5>3
        <5>5. QED
          BY <5>1, <5>4
      <4>2. CASE i.op = "spend-balance"
        <5>1. Len(all) = 4 /\ all[1].key = SpendBalance(i.new)
              /\ all[2].key = Surface(s0.surface)
              /\ all[3].key = Spend(i.spend) /\ s0 # Absent
              /\ all[4].key = SpendDecision(CitedSpendDecision(i, s0))
              /\ all[3].value.receipt_ids = s0.receipt_ids
          BY <4>2, <3>2 DEF Plan, PlanSpendBalance
        <5>2. \A j \in 1..4 : j \in {1, 2, 3, 4}
          OBVIOUS
        <5>3. all[1].key[1] # "value-spend" /\ all[2].key[1] # "value-spend"
              /\ all[4].key[1] # "value-spend"
          BY <5>1, KindOf
        <5>4. 3 \in 1..Len(all) /\ \A j \in 1..Len(all) : j # 3 => all[j].key[1] # "value-spend"
          BY <5>1, <5>2, <5>3
        <5>5. QED
          BY <5>1, <5>4
      <4>3. QED
        BY <2>6, <4>1, <4>2
    <3>4. PICK n \in 1..Len(all) :
            /\ all[n].key = Spend(i.spend) /\ all[n].value.receipt_ids = s0.receipt_ids
            /\ \A j \in 1..Len(all) : j # n => all[j].key[1] # "value-spend"
      BY <3>3
    <3>5. st[Spend(i.spend)] # Absent /\ st[Spend(i.spend)].receipt_ids = s0.receipt_ids
      BY <1>3, <3>4
    <3>6. ASSUME NEW t \in Pool["value-spend"], t # i.spend
          PROVE  st[Spend(t)] = st0[Spend(t)]
      <4>1. Spend(t)[1] = "value-spend" /\ Spend(t) # Spend(i.spend)
        BY <3>6, KindOf
      <4>2. QED
        BY <1>2, <3>4, <4>1
    <3>7. ASSUME NEW t \in Pool["value-spend"], st[Spend(t)] # Absent
          PROVE  ListsThem(st[Spend(t)].receipt_ids, ReceiptsOf(st, t))
      <4>1. CASE t = i.spend
        <5>1. ListsThem(s0.receipt_ids, ReceiptsOf(st0, t))
          BY <4>1, <3>1, <3>2, <3>3 DEF Listed
        <5>2. QED
          BY <4>1, <5>1, <2>3, <3>5
      <4>2. CASE t # i.spend
        BY <4>2, <2>3, <3>6, <3>7 DEF Listed
      <4>3. QED
        BY <4>1, <4>2
    <3>8. ASSUME NEW p \in Pool["value-receipt"], st[Receipt(p)] # Absent
          PROVE  st[Spend(st[Receipt(p)].spend)] # Absent
      BY <3>8, <1>4, <2>2, <3>5, <3>6 DEF Listed
    <3>9. QED
      BY <3>7, <3>8 DEF Listed
  <2>7. QED
    BY <2>4, <2>5, <2>6
<1>6. CASE i.op = "receipt"
  <2>1. PICK s0 : s0 = st0[Spend(i.spend)]
    OBVIOUS
  <2>2. Len(all) = 2 /\ all[1].key = Receipt(i.new) /\ all[2].key = Spend(i.spend)
        /\ s0 # Absent /\ all[1].value.spend = i.spend
        /\ all[2].value.receipt_ids = WithReceipt(s0.receipt_ids, i.new)
    BY <1>6, <2>1 DEF Plan, PlanReceipt
  <2>3. i.spend \in Pool["value-spend"] /\ i.new \in Pool["value-receipt"]
    BY <1>6, InputsOf
  <2>4. st0[Receipt(i.new)] = Absent
    BY <1>6 DEF Opens
  <2>5. st[Receipt(i.new)] # Absent /\ st[Receipt(i.new)].spend = i.spend
    <3>1. st[Receipt(i.new)] = all[1].value
      BY <2>2 DEF PutSoFar
    <3>2. all[1].value \in ReceiptRecord
      BY <2>2, KindOf DEF Planned, Shaped
    <3>3. QED
      BY <2>2, <3>1, <3>2, CirculationAssumption
  <2>6. st[Spend(i.spend)] # Absent
        /\ st[Spend(i.spend)].receipt_ids = WithReceipt(s0.receipt_ids, i.new)
    BY <1>3, <2>2
  <2>7. \A j \in 1..2 : j \in {1, 2}
    OBVIOUS
  <2>8. ASSUME NEW t \in Pool["value-spend"], t # i.spend
        PROVE  st[Spend(t)] = st0[Spend(t)]
    <3>1. Spend(t) # Spend(i.spend) /\ Spend(t) # Receipt(i.new)
      BY <2>8, KindOf
    <3>2. QED
      BY <1>2, <2>2, <2>7, <3>1
  <2>9. ASSUME NEW p \in Pool["value-receipt"], p # i.new
        PROVE  st[Receipt(p)] = st0[Receipt(p)]
    <3>1. Receipt(p) # Receipt(i.new) /\ Receipt(p) # Spend(i.spend) /\ Receipt(p) \in Keys
      BY <2>9, KindOf, KeyOf
    <3>2. \A j \in 1..Len(all) : all[j].key # Receipt(p)
      BY <2>2, <2>7, <3>1
    <3>3. QED
      BY <3>1, <3>2 DEF PutSoFar
  <2>10. ReceiptsOf(st, i.spend) = ReceiptsOf(st0, i.spend) \union {i.new}
    BY <2>3, <2>5, <2>9 DEF ReceiptsOf
  <2>11. i.new \notin ReceiptsOf(st0, i.spend)
    BY <2>4 DEF ReceiptsOf
  <2>12. s0.receipt_ids \in Seq(Pool["value-receipt"])
    <3>1. Spend(i.spend) \in Keys /\ Spend(i.spend)[1] = "value-spend"
      BY <2>3, KeyOf, KindOf
    <3>2. s0 \in SpendRecord
      BY <2>1, <2>2, <3>1 DEF StoreFits, Fine, Shaped, IsSpend
    <3>3. QED
      BY <3>2 DEF SpendRecord
  <2>13. ListsThem(s0.receipt_ids, ReceiptsOf(st0, i.spend))
    BY <2>1, <2>2, <2>3 DEF Listed
  <2>14. ListsThem(WithReceipt(s0.receipt_ids, i.new), ReceiptsOf(st, i.spend))
    BY <2>3, <2>10, <2>11, <2>12, <2>13, OneMoreListed
  <2>15. ASSUME NEW t \in Pool["value-spend"], st[Spend(t)] # Absent
         PROVE  ListsThem(st[Spend(t)].receipt_ids, ReceiptsOf(st, t))
    <3>1. CASE t = i.spend
      BY <3>1, <2>6, <2>14
    <3>2. CASE t # i.spend
      <4>1. ReceiptsOf(st, t) = ReceiptsOf(st0, t)
        BY <3>2, <2>4, <2>5, <2>9 DEF ReceiptsOf
      <4>2. QED
        BY <3>2, <4>1, <2>8, <2>15 DEF Listed
    <3>3. QED
      BY <3>1, <3>2
  <2>16. ASSUME NEW p \in Pool["value-receipt"], st[Receipt(p)] # Absent
         PROVE  st[Spend(st[Receipt(p)].spend)] # Absent
    <3>1. CASE p = i.new
      BY <3>1, <2>5, <2>6
    <3>2. CASE p # i.new
      BY <3>2, <2>16, <1>4, <2>6, <2>8, <2>9 DEF Listed
    <3>3. QED
      BY <3>1, <3>2
  <2>17. QED
    BY <2>15, <2>16 DEF Listed
<1>7. QED
  BY <1>5, <1>6

-----------------------------------------------------------------------------
(* What the puts of one request make of the sums.                          *)

(* What is summed is numbers.                                              *)
LEMMA BooksTyped ==
  ASSUME NEW b, NEW st, StoreFits(b, st)
  PROVE  /\ Balances(st) \in [SurfaceIds -> Int]
         /\ Debits(st) \in [Pool["value-spend-balance"] -> Int]
<1>1. ASSUME NEW s \in SurfaceIds PROVE Held(st, Surface(s)) \in Int
  <2>1. Surface(s) \in Keys /\ Surface(s)[1] = "value-surface"
    BY KeyOf, KindOf
  <2>2. st[Surface(s)] # Absent => st[Surface(s)] \in SurfaceRecord
    BY <2>1 DEF StoreFits, Fine, Shaped
  <2>3. QED
    BY <2>2 DEF Held, SurfaceRecord
<1>2. ASSUME NEW c \in Pool["value-spend-balance"], st[SpendBalance(c)] # Absent
      PROVE  st[SpendBalance(c)].amount_cents \in Int
  <2>1. SpendBalance(c) \in Keys /\ SpendBalance(c)[1] = "value-spend-balance"
    BY KeyOf, KindOf
  <2>2. st[SpendBalance(c)] \in SpendBalanceRecord
    BY <1>2, <2>1 DEF StoreFits, Fine, Shaped
  <2>3. SpendAmounts \subseteq Int
    BY CirculationAssumption
  <2>4. QED
    BY <2>2, <2>3 DEF SpendBalanceRecord
<1>3. QED
  BY <1>1, <1>2 DEF Balances, Debits

(* No amount is above the largest.                                         *)
LEMMA LargestOf ==
  ASSUME Countable
  PROVE  /\ Largest \in Int /\ Largest >= 0
         /\ \A a \in TopupAmounts \union SpendAmounts : a \in Int /\ a <= Largest
<1>1. PICK S : S = TopupAmounts \union SpendAmounts
  OBVIOUS
<1>2. IsFiniteSet(S) /\ S \subseteq Int /\ S \in SUBSET S
  BY <1>1, CirculationAssumption DEF Countable
<1>3. PICK a \in S : a >= 0
  BY <1>1 DEF Countable
<1>4. Max(S) \in S /\ \A y \in S : Max(S) >= y
  BY <1>2, <1>3, LargestIsMember
<1>5. PICK m : m = Max(S)
  OBVIOUS
<1>6. m \in Int /\ m >= a /\ a \in Int
  BY <1>2, <1>3, <1>4, <1>5
<1>7. Largest = m
  BY <1>1, <1>5 DEF Largest
<1>8. ASSUME NEW y \in S PROVE y \in Int /\ y <= m
  BY <1>2, <1>4, <1>5, <1>6, <1>8
<1>9. QED
  BY <1>1, <1>3, <1>6, <1>7, <1>8

(* Who changes no surface leaves what they hold together, and who changes
   no debit what they took.                                                *)
LEMMA OwnedSame ==
  ASSUME NEW st0, NEW st, \A s \in SurfaceIds : Held(st, Surface(s)) = Held(st0, Surface(s))
  PROVE  Owned(st) = Owned(st0)
<1>1. Balances(st) = Balances(st0)
  BY DEF Balances
<1>2. QED
  BY <1>1 DEF Owned

LEMMA SpentSame ==
  ASSUME NEW st0, NEW st,
         \A c \in Pool["value-spend-balance"] : st[SpendBalance(c)] = st0[SpendBalance(c)]
  PROVE  Spent(st) = Spent(st0)
<1>1. Debits(st) = Debits(st0)
  BY DEF Debits
<1>2. QED
  BY <1>1 DEF Spent

(* One surface changed.                                                    *)
LEMMA OwnedPoint ==
  ASSUME NEW b, NEW st0, StoreFits(b, st0), NEW st, StoreFits(b, st), Countable,
         NEW a \in SurfaceIds,
         \A s \in SurfaceIds : s # a => Held(st, Surface(s)) = Held(st0, Surface(s))
  PROVE  /\ Owned(st0) \in Int /\ Owned(st) \in Int
         /\ Held(st, Surface(a)) \in Int /\ Held(st0, Surface(a)) \in Int
         /\ Owned(st) = Owned(st0) + Held(st, Surface(a)) - Held(st0, Surface(a))
<1>1. PICK f, g : f = Balances(st0) /\ g = Balances(st)
  OBVIOUS
<1>2. f \in [SurfaceIds -> Int] /\ g \in [SurfaceIds -> Int]
  BY <1>1, BooksTyped
<1>3. \A s \in SurfaceIds : s # a => g[s] = f[s]
  BY <1>1 DEF Balances
<1>4. IsFiniteSet(SurfaceIds)
  BY DEF Countable
<1>5. SumOver(g, SurfaceIds) = SumOver(f, SurfaceIds) + g[a] - f[a]
  BY <1>2, <1>3, <1>4, SumOverPoint
<1>6. SumOver(f, SurfaceIds) \in Int /\ SumOver(g, SurfaceIds) \in Int
  BY <1>2, <1>4, SumOverType
<1>7. g[a] = Held(st, Surface(a)) /\ f[a] = Held(st0, Surface(a))
      /\ g[a] \in Int /\ f[a] \in Int
  BY <1>1, <1>2 DEF Balances
<1>8. QED
  BY <1>1, <1>5, <1>6, <1>7 DEF Owned

(* Two of them, by amounts that cancel out.                                *)
LEMMA OwnedMove ==
  ASSUME NEW b, NEW st0, StoreFits(b, st0), NEW st, StoreFits(b, st), Countable,
         NEW a \in SurfaceIds, NEW c \in SurfaceIds, a # c, NEW n \in Int,
         Held(st, Surface(a)) = Held(st0, Surface(a)) - n,
         Held(st, Surface(c)) = Held(st0, Surface(c)) + n,
         \A s \in SurfaceIds : s # a /\ s # c =>
           Held(st, Surface(s)) = Held(st0, Surface(s))
  PROVE  Owned(st) = Owned(st0)
<1>1. PICK f, g : f = Balances(st0) /\ g = Balances(st)
  OBVIOUS
<1>2. f \in [SurfaceIds -> Int] /\ g \in [SurfaceIds -> Int]
  BY <1>1, BooksTyped
<1>3. /\ \A s \in SurfaceIds : s # a /\ s # c => g[s] = f[s]
      /\ g[a] = f[a] - n /\ g[c] = f[c] + n
  BY <1>1 DEF Balances
<1>4. IsFiniteSet(SurfaceIds)
  BY DEF Countable
<1>5. PICK h : h = [f EXCEPT ![a] = f[a] - n]
  OBVIOUS
<1>6. h \in [SurfaceIds -> Int] /\ h[a] = f[a] - n
      /\ \A s \in SurfaceIds : s # a => h[s] = f[s]
  BY <1>2, <1>5
<1>7. SumOver(h, SurfaceIds) = SumOver(f, SurfaceIds) + h[a] - f[a]
  BY <1>2, <1>4, <1>6, SumOverPoint
<1>8. \A s \in SurfaceIds : s # c => g[s] = h[s]
  BY <1>3, <1>6
<1>9. SumOver(g, SurfaceIds) = SumOver(h, SurfaceIds) + g[c] - h[c]
  BY <1>2, <1>4, <1>6, <1>8, SumOverPoint
<1>10. SumOver(f, SurfaceIds) \in Int /\ SumOver(h, SurfaceIds) \in Int
       /\ f[a] \in Int /\ f[c] \in Int
  BY <1>2, <1>4, <1>6, SumOverType
<1>11. h[c] = f[c]
  BY <1>6
<1>12. SumOver(g, SurfaceIds) = SumOver(f, SurfaceIds)
  BY <1>3, <1>6, <1>7, <1>9, <1>10, <1>11
<1>13. QED
  BY <1>1, <1>12 DEF Owned

(* One debit changed.                                                      *)
LEMMA SpentPoint ==
  ASSUME NEW b, NEW st0, StoreFits(b, st0), NEW st, StoreFits(b, st), Countable,
         NEW a \in Pool["value-spend-balance"],
         st0[SpendBalance(a)] = Absent, st[SpendBalance(a)] # Absent,
         \A c \in Pool["value-spend-balance"] : c # a =>
           st[SpendBalance(c)] = st0[SpendBalance(c)]
  PROVE  /\ Spent(st0) \in Int /\ Spent(st) \in Int
         /\ Spent(st) = Spent(st0) + st[SpendBalance(a)].amount_cents
<1>1. PICK f, g, S : f = Debits(st0) /\ g = Debits(st) /\ S = Pool["value-spend-balance"]
  OBVIOUS
<1>2. f \in [S -> Int] /\ g \in [S -> Int]
  BY <1>1, BooksTyped
<1>3. /\ \A c \in S : c # a => g[c] = f[c]
      /\ f[a] = 0 /\ g[a] = st[SpendBalance(a)].amount_cents
  BY <1>1 DEF Debits
<1>4. IsFiniteSet(S) /\ a \in S
  BY <1>1 DEF Countable
<1>5. SumOver(g, S) = SumOver(f, S) + g[a] - f[a]
  BY <1>2, <1>3, <1>4, SumOverPoint
<1>6. SumOver(f, S) \in Int /\ SumOver(g, S) \in Int /\ g[a] \in Int
  BY <1>2, <1>4, SumOverType
<1>7. SumOver(g, S) = SumOver(f, S) + g[a]
  BY <1>3, <1>5, <1>6
<1>8. QED
  BY <1>1, <1>3, <1>6, <1>7 DEF Spent

LEMMA BooksAreNumbers ==
  ASSUME NEW b, NEW st, StoreFits(b, st), Countable
  PROVE  Owned(st) \in Int /\ Spent(st) \in Int
BY BooksTyped, SumOverType DEF Owned, Spent, Countable

(* What the puts made so far take from the surfaces and add to the debits. *)
SumsMove(st0, st, dec, k, n) ==
  \E lost, kept \in 0..Largest :
    /\ Owned(st) = Owned(st0) - lost + (IF k >= 1 THEN dec ELSE 0)
    /\ Spent(st) = Spent(st0) + kept
    /\ k = n => lost = kept

LEMMA SumsStay ==
  ASSUME NEW b, NEW st0, StoreFits(b, st0), NEW st, Countable,
         Owned(st) = Owned(st0), Spent(st) = Spent(st0), NEW k, NEW n, NEW dec,
         k >= 1 => dec = 0
  PROVE  SumsMove(st0, st, dec, k, n)
<1>1. Owned(st0) \in Int /\ Spent(st0) \in Int
  BY BooksAreNumbers
<1>2. Largest \in Int /\ Largest >= 0
  BY LargestOf
<1>3. PICK z : z = 0
  OBVIOUS
<1>4. z \in 0..Largest
  BY <1>2, <1>3
<1>5. /\ Owned(st) = Owned(st0) - z + (IF k >= 1 THEN dec ELSE 0)
      /\ Spent(st) = Spent(st0) + z
  BY <1>1, <1>3
<1>6. QED
  BY <1>4, <1>5 DEF SumsMove

LEMMA SurfaceSums ==
  ASSUME NEW b, NEW st0, StoreFits(b, st0), Countable,
         NEW i \in Inputs, i.op \in SurfaceOps, NEW all, Plan(st0, i, all), Planned(b, all),
         NEW k \in 0..Len(all), NEW st, StoreFits(b, st), PutSoFar(st0, all, k, st)
  PROVE  SumsMove(st0, st, Declared(st0, i, all), k, Len(all))
<1>1. Len(all) = 1
  BY DEF Plan, PlanSurface
<1>2. PICK s \in SurfaceIds :
        /\ all[1].key = Surface(s)
        /\ i.op # "register" => st0[Surface(s)] # Absent
        /\ ~Declares(i) => all[1].value.balance_cents = st0[Surface(s)].balance_cents
  BY DEF Plan, PlanSurface
<1>3. ~Touches(i.op, "value-spend-balance")
  BY DEF Touches, SurfaceOps
<1>4. Spent(st) = Spent(st0)
  <2>1. \A c \in Pool["value-spend-balance"] : st[SpendBalance(c)] = st0[SpendBalance(c)]
    <3>1. Len(all) \in Nat
      BY DEF Planned
    <3>2. \A c \in Pool["value-spend-balance"] :
            SpendBalance(c) \in Keys /\ SpendBalance(c)[1] = "value-spend-balance"
      BY KeyOf, KindOf
    <3>3. QED
      BY <1>3, <3>1, <3>2, Untouched
  <2>2. QED
    BY <2>1, SpentSame
<1>5. CASE k = 0
  <2>1. \A t \in SurfaceIds : Held(st, Surface(t)) = Held(st0, Surface(t))
    BY <1>5, KeyOf DEF PutSoFar, Held
  <2>2. Owned(st) = Owned(st0)
    BY <2>1, OwnedSame
  <2>3. QED
    BY <1>4, <1>5, <2>2, SumsStay
<1>6. CASE k = 1
  <2>1. st[Surface(s)] = all[1].value
    BY <1>2, <1>6 DEF PutSoFar
  <2>2. all[1].value # Absent
    <3>1. Shaped(b, all[1].key, all[1].value) /\ all[1].key[1] = "value-surface"
      BY <1>1, <1>2, KindOf DEF Planned
    <3>2. all[1].value \in SurfaceRecord
      BY <3>1 DEF Shaped
    <3>3. QED
      BY <3>2, CirculationAssumption
  <2>3. ASSUME NEW t \in SurfaceIds, t # s
        PROVE  Held(st, Surface(t)) = Held(st0, Surface(t))
    <3>1. Surface(t) # Surface(s) /\ Surface(t) \in Keys
      BY <2>3, KindOf, KeyOf
    <3>2. \A j \in 1..k : all[j].key # Surface(t)
      BY <3>1, <1>2, <1>6
    <3>3. QED
      BY <3>1, <3>2 DEF PutSoFar, Held
  <2>4. PICK old, new : old = Held(st0, Surface(s)) /\ new = Held(st, Surface(s))
    OBVIOUS
  <2>5. /\ Owned(st0) \in Int /\ Owned(st) \in Int /\ new \in Int /\ old \in Int
        /\ Owned(st) = Owned(st0) + new - old
    BY <2>3, <2>4, OwnedPoint
  <2>6. new = all[1].value.balance_cents
    BY <2>1, <2>2, <2>4 DEF Held
  <2>7. Declared(st0, i, all) = new - old
    <3>1. CASE Declares(i)
      BY <3>1, <1>2, <2>4, <2>6 DEF Declared
    <3>2. CASE ~Declares(i)
      <4>1. st0[Surface(s)] # Absent
        BY <3>2, <1>2 DEF Declares
      <4>2. new = old
        BY <3>2, <4>1, <1>2, <2>4, <2>6 DEF Held
      <4>3. QED
        BY <3>2, <4>2, <2>5 DEF Declared
    <3>3. QED
      BY <3>1, <3>2
  <2>8. Spent(st0) \in Int /\ Largest \in Int /\ Largest >= 0
    BY BooksAreNumbers, LargestOf
  <2>9. PICK z, d : z = 0 /\ d = Declared(st0, i, all)
    OBVIOUS
  <2>10. z \in 0..Largest
    BY <2>8, <2>9
  <2>11. Owned(st) = Owned(st0) - z + (IF k >= 1 THEN d ELSE 0)
         /\ Spent(st) = Spent(st0) + z
    BY <1>4, <1>6, <2>5, <2>7, <2>8, <2>9
  <2>12. SumsMove(st0, st, d, k, Len(all))
    BY <2>10, <2>11 DEF SumsMove
  <2>13. QED
    BY <2>9, <2>12
<1>7. QED
  BY <1>1, <1>5, <1>6

LEMMA BalanceSums ==
  ASSUME NEW b, NEW st0, StoreFits(b, st0), Countable, Straight(st0),
         NEW i \in Inputs, i.op = "balance", NEW all, Plan(st0, i, all), Planned(b, all),
         NEW k \in 0..Len(all), NEW st, StoreFits(b, st), PutSoFar(st0, all, k, st)
  PROVE  SumsMove(st0, st, Declared(st0, i, all), k, Len(all))
<1>1. PICK t : t = st0[Topup(i.topup)]
  OBVIOUS
<1>2. PICK from, to, n : from = t.from /\ to = t.to /\ n = t.amount_cents
  OBVIOUS
<1>3. /\ t # Absent /\ ~Denied(st0[Surface(from)], i) /\ ~Denied(st0[Surface(to)], i)
      /\ n > 0
      /\ Len(all) = 5
      /\ all[1].key = BalanceMove(i.new) /\ all[2].key = Surface(from)
      /\ all[3].key = Surface(to) /\ all[4].key = Topup(i.topup)
      /\ all[5].key = TopupDecision(CitedTopupDecision(i, t))
      /\ all[2].value.balance_cents = st0[Surface(from)].balance_cents - n
      /\ all[3].value.balance_cents = st0[Surface(to)].balance_cents + n
  BY <1>1, <1>2 DEF Plan, PlanBalance, Covers
<1>4. from \in SurfaceIds /\ to \in SurfaceIds /\ n \in TopupAmounts /\ from # to
  <2>1. i.topup \in Pool["value-topup"]
    BY InputsOf
  <2>2. Topup(i.topup) \in Keys /\ Topup(i.topup)[1] = "value-topup"
    BY <2>1, KeyOf, KindOf
  <2>3. t \in TopupRecord
    BY <1>1, <1>3, <2>2 DEF StoreFits, Fine, Shaped
  <2>4. t.from # t.to
    BY <1>1, <1>3, <2>1 DEF Straight
  <2>5. QED
    BY <1>2, <2>3, <2>4 DEF TopupRecord
<1>5. n \in Int /\ n \in 0..Largest /\ Largest \in Int /\ 0 \in 0..Largest
  BY <1>3, <1>4, LargestOf
<1>6. Declared(st0, i, all) = 0
  BY DEF Declared, Declares
<1>7. Spent(st) = Spent(st0)
  <2>1. ~Touches(i.op, "value-spend-balance")
    BY DEF Touches, SurfaceOps
  <2>2. \A c \in Pool["value-spend-balance"] : st[SpendBalance(c)] = st0[SpendBalance(c)]
    <3>1. Len(all) \in Nat
      BY DEF Planned
    <3>2. \A c \in Pool["value-spend-balance"] :
            SpendBalance(c) \in Keys /\ SpendBalance(c)[1] = "value-spend-balance"
      BY KeyOf, KindOf
    <3>3. ASSUME NEW key \in Keys, key[1] = "value-spend-balance" PROVE st[key] = st0[key]
      <4>1. ~Touches(i.op, key[1])
        BY <2>1, <3>3
      <4>2. QED
        BY <3>1, <4>1, Untouched
    <3>4. QED
      BY <3>2, <3>3
  <2>3. QED
    BY <2>2, SpentSame
<1>8. \A j \in 1..5 : j \in {1, 2, 3, 4, 5}
  OBVIOUS
<1>9. ASSUME NEW s \in SurfaceIds, s # from \/ k < 2, s # to \/ k < 3
      PROVE  Held(st, Surface(s)) = Held(st0, Surface(s))
  <2>1. /\ Surface(s) # BalanceMove(i.new) /\ Surface(s) # Topup(i.topup)
        /\ Surface(s) # TopupDecision(CitedTopupDecision(i, t))
        /\ (s # from => Surface(s) # Surface(from))
        /\ (s # to => Surface(s) # Surface(to)) /\ Surface(s) \in Keys
    BY KindOf, KeyOf
  <2>2. ASSUME NEW j \in 1..k PROVE all[j].key # Surface(s)
    <3>1. j \in {1, 2, 3, 4, 5} /\ j <= k /\ k \in Int
      BY <1>3, <1>8
    <3>2. QED
      BY <1>3, <1>9, <2>1, <3>1
  <2>3. QED
    BY <2>1, <2>2 DEF PutSoFar, Held
<1>10. ASSUME k >= 2 PROVE Held(st, Surface(from)) = Held(st0, Surface(from)) - n
  <2>1. st[Surface(from)] = all[2].value
    BY <1>3, <1>10 DEF PutSoFar
  <2>2. Shaped(b, all[2].key, all[2].value) /\ all[2].key[1] = "value-surface"
    BY <1>3, KindOf DEF Planned
  <2>3. all[2].value # Absent
    BY <2>2, CirculationAssumption DEF Shaped
  <2>4. QED
    BY <1>3, <2>1, <2>3 DEF Held, Denied
<1>11. ASSUME k >= 3 PROVE Held(st, Surface(to)) = Held(st0, Surface(to)) + n
  <2>1. st[Surface(to)] = all[3].value
    BY <1>3, <1>11 DEF PutSoFar
  <2>2. Shaped(b, all[3].key, all[3].value) /\ all[3].key[1] = "value-surface"
    BY <1>3, KindOf DEF Planned
  <2>3. all[3].value # Absent
    BY <2>2, CirculationAssumption DEF Shaped
  <2>4. QED
    BY <1>3, <2>1, <2>3 DEF Held, Denied
<1>12. CASE k < 2
  <2>1. \A s \in SurfaceIds : Held(st, Surface(s)) = Held(st0, Surface(s))
    BY <1>9, <1>12
  <2>2. QED
    BY <2>1, <1>6, <1>7, OwnedSame, SumsStay
<1>13. CASE k >= 3
  <2>1. \A s \in SurfaceIds : s # from /\ s # to =>
          Held(st, Surface(s)) = Held(st0, Surface(s))
    BY <1>9
  <2>2. Held(st, Surface(from)) = Held(st0, Surface(from)) - n
        /\ Held(st, Surface(to)) = Held(st0, Surface(to)) + n
    BY <1>3, <1>10, <1>11, <1>13
  <2>3. Owned(st) = Owned(st0)
    BY <1>4, <1>5, <2>1, <2>2, OwnedMove
  <2>4. QED
    BY <2>3, <1>6, <1>7, SumsStay
<1>14. CASE k = 2
  <2>1. \A s \in SurfaceIds : s # from => Held(st, Surface(s)) = Held(st0, Surface(s))
    BY <1>9, <1>14
  <2>2. PICK old, new : old = Held(st0, Surface(from)) /\ new = Held(st, Surface(from))
    OBVIOUS
  <2>3. /\ Owned(st0) \in Int /\ Owned(st) \in Int /\ new \in Int /\ old \in Int
        /\ Owned(st) = Owned(st0) + new - old
    BY <1>4, <2>1, <2>2, OwnedPoint
  <2>4. new = old - n
    BY <1>10, <1>14, <2>2
  <2>5. Owned(st) = Owned(st0) - n
    BY <1>5, <2>3, <2>4
  <2>6. Spent(st0) \in Int
    BY BooksAreNumbers
  <2>7. PICK z, d : z = 0 /\ d = Declared(st0, i, all)
    OBVIOUS
  <2>8. /\ Owned(st) = Owned(st0) - n + (IF k >= 1 THEN d ELSE 0)
        /\ Spent(st) = Spent(st0) + z
    BY <1>5, <1>6, <1>7, <1>14, <2>3, <2>5, <2>6, <2>7
  <2>9. k # Len(all) /\ z \in 0..Largest
    BY <1>3, <1>5, <1>14, <2>7
  <2>10. SumsMove(st0, st, d, k, Len(all))
    BY <1>5, <2>8, <2>9 DEF SumsMove
  <2>11. QED
    BY <2>7, <2>10
<1>15. QED
  BY <1>3, <1>12, <1>13, <1>14

LEMMA DebitSums ==
  ASSUME NEW b, NEW st0, StoreFits(b, st0), Countable, Unnamed,
         NEW i \in Inputs, i.op = "spend-balance", Opens(st0, i),
         NEW all, Plan(st0, i, all), Planned(b, all),
         NEW k \in 0..Len(all), NEW st, StoreFits(b, st), PutSoFar(st0, all, k, st)
  PROVE  SumsMove(st0, st, Declared(st0, i, all), k, Len(all))
<1>1. PICK t : t = st0[Spend(i.spend)]
  OBVIOUS
<1>2. PICK from, n : from = t.surface /\ n = t.amount_cents
  OBVIOUS
<1>3. /\ t # Absent /\ ~Denied(st0[Surface(from)], i) /\ n > 0
      /\ Len(all) = 4
      /\ all[1].key = SpendBalance(i.new) /\ all[2].key = Surface(from)
      /\ all[3].key = Spend(i.spend)
      /\ all[4].key = SpendDecision(CitedSpendDecision(i, t))
      /\ all[1].value.amount_cents = n
      /\ all[2].value.balance_cents = st0[Surface(from)].balance_cents - n
  BY <1>1, <1>2 DEF Plan, PlanSpendBalance, EnoughFor
<1>4. from \in SurfaceIds /\ n \in SpendAmounts /\ i.new \in Pool["value-spend-balance"]
  <2>1. i.spend \in Pool["value-spend"] /\ i.new \in Pool["value-spend-balance"]
    BY InputsOf
  <2>2. Spend(i.spend) \in Keys /\ Spend(i.spend)[1] = "value-spend"
    BY <2>1, KeyOf, KindOf
  <2>3. t \in SpendRecord
    BY <1>1, <1>3, <2>2 DEF StoreFits, Fine, Shaped, IsSpend
  <2>4. QED
    BY <1>2, <2>1, <2>3 DEF SpendRecord
<1>5. n \in Int /\ n \in 0..Largest /\ Largest \in Int /\ 0 \in 0..Largest
  BY <1>3, <1>4, LargestOf
<1>6. Declared(st0, i, all) = 0
  BY DEF Declared, Declares
<1>7. \A j \in 1..4 : j \in {1, 2, 3, 4}
  OBVIOUS
<1>8. ASSUME NEW s \in SurfaceIds, s # from \/ k < 2
      PROVE  Held(st, Surface(s)) = Held(st0, Surface(s))
  <2>1. /\ Surface(s) # SpendBalance(i.new) /\ Surface(s) # Spend(i.spend)
        /\ Surface(s) # SpendDecision(CitedSpendDecision(i, t))
        /\ (s # from => Surface(s) # Surface(from)) /\ Surface(s) \in Keys
    BY KindOf, KeyOf
  <2>2. ASSUME NEW j \in 1..k PROVE all[j].key # Surface(s)
    <3>1. j \in {1, 2, 3, 4} /\ j <= k /\ k \in Int
      BY <1>3, <1>7
    <3>2. QED
      BY <1>3, <1>8, <2>1, <3>1
  <2>3. QED
    BY <2>1, <2>2 DEF PutSoFar, Held
<1>9. ASSUME NEW c \in Pool["value-spend-balance"], c # i.new \/ k < 1
      PROVE  st[SpendBalance(c)] = st0[SpendBalance(c)]
  <2>1. /\ SpendBalance(c) # Surface(from) /\ SpendBalance(c) # Spend(i.spend)
        /\ SpendBalance(c) # SpendDecision(CitedSpendDecision(i, t))
        /\ (c # i.new => SpendBalance(c) # SpendBalance(i.new)) /\ SpendBalance(c) \in Keys
    BY KindOf, KeyOf
  <2>2. ASSUME NEW j \in 1..k PROVE all[j].key # SpendBalance(c)
    <3>1. j \in {1, 2, 3, 4} /\ j <= k /\ k \in Int
      BY <1>3, <1>7
    <3>2. QED
      BY <1>3, <1>9, <2>1, <3>1
  <2>3. QED
    BY <2>1, <2>2 DEF PutSoFar
<1>10. ASSUME k >= 2 PROVE Owned(st) = Owned(st0) - n
  <2>1. st[Surface(from)] = all[2].value
    BY <1>3, <1>10 DEF PutSoFar
  <2>2. Shaped(b, all[2].key, all[2].value) /\ all[2].key[1] = "value-surface"
    BY <1>3, KindOf DEF Planned
  <2>3. all[2].value # Absent
    BY <2>2, CirculationAssumption DEF Shaped
  <2>4. PICK old, new : old = Held(st0, Surface(from)) /\ new = Held(st, Surface(from))
    OBVIOUS
  <2>5. /\ Owned(st0) \in Int /\ Owned(st) \in Int /\ new \in Int /\ old \in Int
        /\ Owned(st) = Owned(st0) + new - old
    BY <1>4, <1>8, <2>4, OwnedPoint
  <2>6. new = old - n
    BY <1>3, <2>1, <2>3, <2>4 DEF Held, Denied
  <2>7. QED
    BY <1>5, <2>5, <2>6
<1>11. ASSUME k < 2 PROVE Owned(st) = Owned(st0)
  BY <1>8, <1>11, OwnedSame
<1>12. ASSUME k >= 1 PROVE Spent(st) = Spent(st0) + n
  <2>1. st[SpendBalance(i.new)] = all[1].value
    BY <1>3, <1>12 DEF PutSoFar
  <2>2. Shaped(b, all[1].key, all[1].value) /\ all[1].key[1] = "value-spend-balance"
    BY <1>3, KindOf DEF Planned
  <2>3. all[1].value # Absent
    BY <2>2, CirculationAssumption DEF Shaped
  <2>4. st0[SpendBalance(i.new)] = Absent
    BY DEF Opens
  <2>5. Spent(st) = Spent(st0) + st[SpendBalance(i.new)].amount_cents
    BY <1>4, <1>9, <2>1, <2>3, <2>4, SpentPoint
  <2>6. QED
    BY <1>3, <2>1, <2>5
<1>13. ASSUME k < 1 PROVE Spent(st) = Spent(st0)
  BY <1>9, <1>13, SpentSame
<1>14. Owned(st0) \in Int /\ Spent(st0) \in Int
  BY BooksAreNumbers
<1>15. PICK lost, kept, d : /\ lost = IF k >= 2 THEN n ELSE 0
                            /\ kept = IF k >= 1 THEN n ELSE 0
                            /\ d = Declared(st0, i, all)
  OBVIOUS
<1>16. k \in 0..4
  BY <1>3
<1>17. lost \in 0..Largest /\ kept \in 0..Largest /\ (k = Len(all) => lost = kept)
  BY <1>3, <1>5, <1>15, <1>16
<1>18. Owned(st) = Owned(st0) - lost + (IF k >= 1 THEN d ELSE 0)
  BY <1>5, <1>6, <1>10, <1>11, <1>14, <1>15, <1>16
<1>19. Spent(st) = Spent(st0) + kept
  BY <1>5, <1>12, <1>13, <1>14, <1>15, <1>16
<1>20. SumsMove(st0, st, d, k, Len(all))
  BY <1>17, <1>18, <1>19 DEF SumsMove
<1>21. QED
  BY <1>15, <1>20

LEMMA PlanSums ==
  ASSUME NEW b, NEW st0, StoreFits(b, st0), Countable, Unnamed, Straight(st0),
         NEW i \in Inputs, Opens(st0, i), NEW all, Plan(st0, i, all), Planned(b, all),
         NEW k \in 0..Len(all), NEW st, StoreFits(b, st), PutSoFar(st0, all, k, st)
  PROVE  SumsMove(st0, st, Declared(st0, i, all), k, Len(all))
<1>1. CASE i.op \notin SurfaceOps \union {"balance", "spend-balance"}
  <2>1. ~Touches(i.op, "value-surface") /\ ~Touches(i.op, "value-spend-balance")
    BY <1>1 DEF Touches
  <2>2. Len(all) \in Nat
    BY DEF Planned
  <2>3. \A s \in SurfaceIds : Held(st, Surface(s)) = Held(st0, Surface(s))
    BY <2>1, <2>2, Untouched, KeyOf, KindOf DEF Held
  <2>4. \A c \in Pool["value-spend-balance"] : st[SpendBalance(c)] = st0[SpendBalance(c)]
    BY <2>1, <2>2, Untouched, KeyOf, KindOf
  <2>5. Declared(st0, i, all) = 0
    BY <1>1 DEF Declared, Declares, SurfaceOps
  <2>6. QED
    BY <2>3, <2>4, <2>5, OwnedSame, SpentSame, SumsStay
<1>2. CASE i.op \in SurfaceOps
  BY <1>2, SurfaceSums
<1>3. CASE i.op = "balance"
  BY <1>3, BalanceSums
<1>4. CASE i.op = "spend-balance"
  BY <1>4, DebitSums
<1>5. QED
  BY <1>1, <1>2, <1>3, <1>4

-----------------------------------------------------------------------------
(* What a request leaves, done or cut off.                                 *)

(* Who declares has one put, of a surface.                                 *)
LEMMA DeclaredOf ==
  ASSUME NEW b, NEW st0, StoreFits(b, st0), NEW i \in Inputs,
         NEW all, Plan(st0, i, all), Planned(b, all)
  PROVE  /\ Declares(i) => Len(all) = 1
         /\ Declared(st0, i, all) \in Int
<1>1. CASE Declares(i)
  <2>1. i.op \in SurfaceOps
    BY <1>1 DEF Declares, SurfaceOps
  <2>2. Len(all) = 1 /\ \E s \in SurfaceIds : all[1].key = Surface(s)
    BY <2>1 DEF Plan, PlanSurface
  <2>3. PICK s \in SurfaceIds : all[1].key = Surface(s)
    BY <2>2
  <2>4. Surface(s) \in Keys /\ Surface(s)[1] = "value-surface"
    BY KeyOf, KindOf
  <2>5. Shaped(b, all[1].key, all[1].value)
    BY <2>2 DEF Planned
  <2>6. all[1].value \in SurfaceRecord
    BY <2>3, <2>4, <2>5 DEF Shaped
  <2>7. st0[Surface(s)] # Absent => st0[Surface(s)] \in SurfaceRecord
    BY <2>4 DEF StoreFits, Fine, Shaped
  <2>8. all[1].value.balance_cents \in Int /\ Held(st0, all[1].key) \in Int
    BY <2>3, <2>6, <2>7 DEF SurfaceRecord, Held
  <2>9. QED
    BY <2>2, <2>8 DEF Declared
<1>2. CASE ~Declares(i)
  BY <1>2 DEF Declared
<1>3. QED
  BY <1>1, <1>2

(* The puts of a whole request balance.                                    *)
LEMMA BalancedAfter ==
  ASSUME NEW b, NEW st0, StoreFits(b, st0), NEW st, Countable,
         NEW d \in Int, NEW n, n \in Nat, n >= 1, SumsMove(st0, st, d, n, n),
         NEW dec \in Int, NEW cut \in Nat, Balanced(st0, dec, cut)
  PROVE  Balanced(st, dec + d, cut)
<1>1. PICK lost, kept \in 0..Largest :
        /\ Owned(st) = Owned(st0) - lost + d
        /\ Spent(st) = Spent(st0) + kept
        /\ lost = kept
  BY DEF SumsMove
<1>2. Owned(st0) \in Int /\ Spent(st0) \in Int /\ Largest \in Int
  BY BooksAreNumbers, LargestOf
<1>3. PICK more : more = cut * Largest
  OBVIOUS
<1>4. more \in Int
  BY <1>2, <1>3
<1>5. /\ Owned(st0) <= dec
      /\ Owned(st0) + Spent(st0) >= dec - more
      /\ Owned(st0) + Spent(st0) <= dec + more
  BY <1>3 DEF Balanced
<1>6. lost \in Int /\ lost >= 0 /\ kept \in Int
  BY <1>2
<1>7. PICK o, s, o2, s2 : o = Owned(st0) /\ s = Spent(st0) /\ o2 = Owned(st) /\ s2 = Spent(st)
  OBVIOUS
<1>8. o \in Int /\ s \in Int /\ o2 = o - lost + d /\ s2 = s + lost
  BY <1>1, <1>2, <1>7
<1>9. o <= dec /\ o + s >= dec - more /\ o + s <= dec + more
  BY <1>5, <1>7
<1>10. o2 <= dec + d /\ o2 + s2 >= (dec + d) - more /\ o2 + s2 <= (dec + d) + more
  BY <1>4, <1>6, <1>8, <1>9
<1>11. QED
  BY <1>3, <1>7, <1>10 DEF Balanced

(* One that is cut off is off by an amount at most.                        *)
LEMMA BalancedCut ==
  ASSUME NEW b, NEW st0, StoreFits(b, st0), NEW st, Countable,
         NEW d, NEW k, NEW n, SumsMove(st0, st, d, k, n), k >= 1 => d = 0,
         NEW dec \in Int, NEW cut \in Nat, Balanced(st0, dec, cut)
  PROVE  Balanced(st, dec, cut + 1)
<1>1. Owned(st0) \in Int /\ Spent(st0) \in Int /\ Largest \in Int /\ Largest >= 0
  BY BooksAreNumbers, LargestOf
<1>2. PICK lost, kept \in 0..Largest :
        /\ Owned(st) = Owned(st0) - lost + (IF k >= 1 THEN d ELSE 0)
        /\ Spent(st) = Spent(st0) + kept
  BY DEF SumsMove
<1>3. PICK more, l : more = cut * l /\ l = Largest
  OBVIOUS
<1>4. more \in Int /\ (cut + 1) * l = more + l
  BY <1>1, <1>3
<1>5. PICK o, s, o2, s2 : o = Owned(st0) /\ s = Spent(st0) /\ o2 = Owned(st) /\ s2 = Spent(st)
  OBVIOUS
<1>6. o \in Int /\ s \in Int /\ l \in Int /\ lost \in Int /\ kept \in Int
      /\ 0 <= lost /\ lost <= l /\ 0 <= kept /\ kept <= l
  BY <1>1, <1>3, <1>5
<1>7. o2 = o - lost /\ s2 = s + kept
  BY <1>1, <1>2, <1>5, <1>6
<1>8. o <= dec /\ o + s >= dec - more /\ o + s <= dec + more
  BY <1>3, <1>5 DEF Balanced
<1>9. o2 <= dec /\ o2 + s2 >= dec - (more + l) /\ o2 + s2 <= dec + (more + l)
  BY <1>4, <1>6, <1>7, <1>8
<1>10. QED
  BY <1>3, <1>4, <1>5, <1>9 DEF Balanced

(* A whole request leaves a sound store.                                   *)
LEMMA PlanDone ==
  ASSUME NEW b, NEW st0, StoreFits(b, st0), NEW dec \in Int, NEW cut \in Nat,
         Sound(st0, dec, cut), NEW i \in Inputs, Opens(st0, i),
         NEW all, Plan(st0, i, all), Planned(b, all),
         NEW st, StoreFits(b, st), PutSoFar(st0, all, Len(all), st), Extends(st0, st)
  PROVE  Sound(st, dec + Declared(st0, i, all), cut)
<1>a. Len(all) \in 1..5
  BY DEF Planned
<1>b. \A q \in 1..5 : q \in Nat /\ q >= 1 /\ q \in 0..q
  OBVIOUS
<1>1. Len(all) \in Nat /\ Len(all) >= 1 /\ Len(all) \in 0..Len(all)
  BY <1>a, <1>b
<1>2. Straight(st)
  BY <1>1, StraightAfter DEF Sound
<1>3. ASSUME Uncut PROVE TopupsMoveOnce(st) /\ SpendsMoveOnce(st)
  BY <1>3, TopupsMoveOnceAfter, SpendsMoveOnceAfter DEF Sound
<1>4. ASSUME ReceiptsPrivate PROVE Listed(st)
  <2>1. Listed(st0) /\ Unchosen("value-spend") /\ Unchosen("value-receipt")
    BY <1>4 DEF Sound, ReceiptsPrivate
  <2>2. QED
    BY <2>1, ListedAfter
<1>5. ASSUME BooksKept PROVE Balanced(st, dec + Declared(st0, i, all), cut)
  <2>1. Balanced(st0, dec, cut) /\ Straight(st0) /\ Unnamed /\ Countable
    BY <1>5 DEF Sound, BooksKept
  <2>2. SumsMove(st0, st, Declared(st0, i, all), Len(all), Len(all))
    BY <1>1, <2>1, PlanSums
  <2>3. PICK d, n : d = Declared(st0, i, all) /\ n = Len(all)
    OBVIOUS
  <2>4. d \in Int
    BY <2>3, DeclaredOf
  <2>5. SumsMove(st0, st, d, n, n) /\ n \in Nat /\ n >= 1
    BY <1>1, <2>2, <2>3
  <2>6. Balanced(st, dec + d, cut)
    BY <2>1, <2>4, <2>5, BalancedAfter
  <2>7. QED
    BY <2>3, <2>6
<1>6. QED
  BY <1>2, <1>3, <1>4, <1>5 DEF Sound, BooksKept

(* One that is cut off leaves what is still claimed then.                  *)
LEMMA PlanCut ==
  ASSUME NEW b, NEW st0, StoreFits(b, st0), NEW dec \in Int, NEW cut \in Nat,
         Sound(st0, dec, cut), NEW i \in Inputs, Opens(st0, i),
         NEW all, Plan(st0, i, all), Planned(b, all), NEW k \in 0..4, k < Len(all),
         NEW st, StoreFits(b, st), PutSoFar(st0, all, k, st), ~Uncut
  PROVE  Sound(st, dec, cut + 1)
<1>1. Len(all) \in Nat /\ k \in 0..Len(all)
  BY DEF Planned
<1>2. Straight(st)
  BY <1>1, StraightAfter DEF Sound
<1>3. ASSUME BooksKept PROVE Balanced(st, dec, cut + 1)
  <2>1. Balanced(st0, dec, cut) /\ Straight(st0) /\ Unnamed /\ Countable
    BY <1>3 DEF Sound, BooksKept
  <2>2. PICK d, n : d = Declared(st0, i, all) /\ n = Len(all)
    OBVIOUS
  <2>3. SumsMove(st0, st, d, k, n)
    BY <1>1, <2>1, <2>2, PlanSums
  <2>4. k >= 1 => d = 0
    <3>a. Declares(i) => Len(all) = 1
      BY DeclaredOf
    <3>b. Len(all) = 1 => k = 0
      OBVIOUS
    <3>1. Declares(i) => k = 0
      BY <3>a, <3>b
    <3>2. ~Declares(i) => Declared(st0, i, all) = 0
      BY DEF Declared
    <3>3. k = 0 => ~(k >= 1)
      OBVIOUS
    <3>4. QED
      BY <3>1, <3>2, <3>3, <2>2
  <2>5. QED
    BY <2>1, <2>3, <2>4, BalancedCut
<1>4. QED
  BY <1>2, <1>3 DEF Sound, BooksKept, ReceiptsPrivate

(* And so does one that is cut off before its first put.                   *)
LEMMA SoundCut ==
  ASSUME NEW b, NEW st, StoreFits(b, st), NEW dec \in Int, NEW cut \in Nat,
         Sound(st, dec, cut), ~Uncut
  PROVE  Sound(st, dec, cut + 1)
<1>1. ASSUME BooksKept PROVE Balanced(st, dec, cut + 1)
  <2>1. Balanced(st, dec, cut) /\ Countable
    BY <1>1 DEF Sound, BooksKept
  <2>2. PICK k, d : k = 0 /\ d = 0
    OBVIOUS
  <2>3. SumsMove(st, st, d, k, k)
    BY <2>1, <2>2, SumsStay
  <2>4. QED
    BY <2>1, <2>2, <2>3, BalancedCut
<1>2. QED
  BY <1>1 DEF Sound, BooksKept, ReceiptsPrivate

-----------------------------------------------------------------------------
(* What a step makes of a request that is alone.                           *)

(* The records a plan puts are under different keys.                       *)
LEMMA PlanApart ==
  ASSUME NEW b, NEW st, StoreFits(b, st), Straight(st), NEW i \in Inputs,
         NEW all, Plan(st, i, all)
  PROVE  /\ Len(all) \in 1..5
         /\ \A j, k \in 1..Len(all) : j # k => all[j].key # all[k].key
<1>1. CASE i.op \in SurfaceOps
  <2>1. Len(all) = 1
    BY <1>1 DEF Plan, PlanSurface
  <2>2. \A q \in 1..1 : q = 1
    OBVIOUS
  <2>3. QED
    BY <2>1, <2>2
<1>2. CASE i.op \in {"topup", "spend", "limit-check", "refund"}
  <2>1. Len(all) = 1
    BY <1>2 DEF Plan, PlanTopup, PlanSpend, PlanCheck, PlanRefund
  <2>2. \A q \in 1..1 : q = 1
    OBVIOUS
  <2>3. QED
    BY <2>1, <2>2
<1>3. CASE i.op \in {"topup-decision", "spend-decision", "receipt", "refund-decision"}
  <2>1. Len(all) = 2 /\ all[1].key[1] # all[2].key[1]
    <3>1. CASE i.op = "topup-decision"
      BY <3>1, KindOf DEF Plan, PlanTopupDecision
    <3>2. CASE i.op = "spend-decision"
      BY <3>2, KindOf DEF Plan, PlanSpendDecision
    <3>3. CASE i.op = "receipt"
      BY <3>3, KindOf DEF Plan, PlanReceipt
    <3>4. CASE i.op = "refund-decision"
      BY <3>4, KindOf DEF Plan, PlanRefundDecision
    <3>5. QED
      BY <1>3, <3>1, <3>2, <3>3, <3>4
  <2>2. \A q \in 1..2 : q \in {1, 2}
    OBVIOUS
  <2>3. QED
    BY <2>1, <2>2
<1>4. CASE i.op = "balance"
  <2>1. PICK t : t = st[Topup(i.topup)]
    OBVIOUS
  <2>2. /\ t # Absent /\ Len(all) = 5
        /\ all[1].key = BalanceMove(i.new) /\ all[2].key = Surface(t.from)
        /\ all[3].key = Surface(t.to) /\ all[4].key = Topup(i.topup)
        /\ all[5].key = TopupDecision(CitedTopupDecision(i, t))
    BY <1>4, <2>1 DEF Plan, PlanBalance
  <2>3. i.topup \in Pool["value-topup"]
    BY <1>4, InputsOf
  <2>4. t.from # t.to
    BY <2>1, <2>2, <2>3 DEF Straight
  <2>5. /\ all[1].key[1] = "value-balance" /\ all[4].key[1] = "value-topup"
        /\ all[2].key[1] = "value-surface" /\ all[2].key[2] = t.from
        /\ all[3].key[1] = "value-surface" /\ all[3].key[2] = t.to
        /\ all[5].key[1] = "value-topup-decision"
    BY <2>2, KindOf
  <2>6. \A q \in 1..5 : q \in {1, 2, 3, 4, 5}
    OBVIOUS
  <2>7. QED
    BY <2>2, <2>4, <2>5, <2>6
<1>5. CASE i.op = "spend-balance"
  <2>1. PICK t : t = st[Spend(i.spend)]
    OBVIOUS
  <2>2. /\ Len(all) = 4
        /\ all[1].key = SpendBalance(i.new) /\ all[2].key = Surface(t.surface)
        /\ all[3].key = Spend(i.spend)
        /\ all[4].key = SpendDecision(CitedSpendDecision(i, t))
    BY <1>5, <2>1 DEF Plan, PlanSpendBalance
  <2>3. /\ all[1].key[1] = "value-spend-balance" /\ all[2].key[1] = "value-surface"
        /\ all[3].key[1] = "value-spend" /\ all[4].key[1] = "value-spend-decision"
    BY <2>2, KindOf
  <2>4. \A q \in 1..4 : q \in {1, 2, 3, 4}
    OBVIOUS
  <2>5. QED
    BY <2>2, <2>3, <2>4
<1>6. QED
  BY <1>1, <1>2, <1>3, <1>4, <1>5, InputsOf DEF SurfaceOps

(* A request that begins to put is under way.                              *)
LEMMA Starting ==
  ASSUME NEW b, NEW st, StoreFits(b, st), NEW dec, NEW cut, Sound(st, dec, cut),
         NEW x, RequestFits(b, st, x), Opens(st, x.input), Plan(st, x.input, x.puts)
  PROVE  Settles(b, st, dec, cut, x)
<1>1. PICK i, all : i = x.input /\ all = x.puts
  OBVIOUS
<1>2. i \in Inputs /\ Plan(st, i, all)
  BY <1>1 DEF RequestFits
<1>3. /\ Len(all) \in 1..5
      /\ \A j, k \in 1..Len(all) : j # k => all[j].key # all[k].key
  BY <1>2, PlanApart DEF Sound
<1>4. DOMAIN all = 1..Len(all)
  BY <1>1 DEF RequestFits, IsSeq
<1>5. \A j \in 1..Len(all) : all[j].key \in Keys /\ Shaped(b, all[j].key, all[j].value)
  BY <1>1, <1>4 DEF RequestFits, PutFits, Fine
<1>6. Planned(b, all)
  BY <1>3, <1>5 DEF Planned
<1>7. PutSoFar(st, all, 0, st) /\ Extends(st, st)
  BY NonePut
<1>8. Rest(all, 0, all)
  BY <1>3 DEF Rest
<1>9. Partway(b, st, dec, cut, x, st, all, 0)
  <2>1. 0 \in 0..4
    OBVIOUS
  <2>2. /\ Plan(st, x.input, all) /\ Opens(st, x.input) /\ Rest(all, 0, x.puts)
    BY <1>1, <1>2, <1>8
  <2>3. QED
    BY <1>6, <1>7, <2>1, <2>2 DEF Partway
<1>10. x.puts # <<>>
  <2>1. Len(all) # 0
    BY <1>3
  <2>2. Len(<<>>) = 0
    OBVIOUS
  <2>3. QED
    BY <1>1, <2>1, <2>2
<1>11. Underway(b, st, dec, cut, x)
  BY <1>9 DEF Underway
<1>12. x # Idle => x.puts # <<>>
  BY <1>10
<1>13. x = Idle \/ x.puts = <<>> => Sound(st, dec, cut)
  OBVIOUS
<1>14. QED
  BY <1>10, <1>11, <1>13 DEF Settles

(* What the request leaves for the next state.                             *)
LEMMA AloneSettles ==
  ASSUME Alone, IInv, NEW r \in Requests, NEW y, request' = [request EXCEPT ![r] = y],
         Settles(bounds', kv', declared', crashes', y)
  PROVE  AInv'
<1>1. \A q \in Requests : q = r
  BY DEF Alone
<1>2. request'[r] = y
  BY DEF IInv
<1>3. QED
  BY <1>1, <1>2 DEF AInv

(* A request that comes in and has only to read at first.                  *)
LEMMA Received ==
  ASSUME Alone, IInv, AInv, NEW r \in Requests, NEW input,
         Receive(r, input, <<>>), Opens(kv, input)
  PROVE  AInv'
<1>1. PICK y : y = [input |-> input, seen |-> <<>>, puts |-> <<>>]
  OBVIOUS
<1>2. /\ request' = [request EXCEPT ![r] = y] /\ ~Busy(r)
      /\ kv' = kv /\ scene' = scene /\ declared' = declared /\ crashes' = crashes
  BY <1>1 DEF Receive
<1>3. bounds' = bounds
  BY <1>2 DEF bounds
<1>4. Sound(kv, declared, crashes)
  BY <1>2 DEF AInv, Settles, Busy
<1>5. y # Idle
  BY <1>1 DEF Alone
<1>6. y.input = input /\ y.seen = <<>> /\ y.puts = <<>>
  BY <1>1
<1>7. SeenNow(kv, input, <<>>)
  <2>1. Len(<<>>) = 0
    OBVIOUS
  <2>2. QED
    BY <2>1 DEF SeenNow
<1>8. Settles(bounds, kv, declared, crashes, y)
  BY <1>4, <1>5, <1>6, <1>7 DEF Settles
<1>9. QED
  BY <1>2, <1>3, <1>8, AloneSettles

(* A request that has read one more record.                                *)
LEMMA Served ==
  ASSUME Alone, IInv, IInv', AInv, NEW r \in Requests, Busy(r),
         NEW x, x = request[r], x.puts = <<>>,
         NEW y, request' = [request EXCEPT ![r] = y],
         UNCHANGED <<kv, crashes, declared, scene>>,
         \/ y = Idle
         \/ \E seen : /\ y = [input |-> x.input, seen |-> seen, puts |-> <<>>]
                      /\ SeenNow(kv, x.input, seen)
         \/ \E all : /\ y = [input |-> x.input, seen |-> <<>>, puts |-> all]
                     /\ Plan(kv, x.input, all)
  PROVE  AInv'
<1>1. kv' = kv /\ scene' = scene /\ declared' = declared /\ crashes' = crashes
  OBVIOUS
<1>2. bounds' = bounds
  BY <1>1 DEF bounds
<1>3. Sound(kv, declared, crashes) /\ Opens(kv, x.input)
  BY DEF AInv, Settles, Busy
<1>4. Settles(bounds, kv, declared, crashes, y)
  <2>1. CASE y = Idle
    BY <2>1, <1>3 DEF Settles
  <2>2. ASSUME NEW seen, y = [input |-> x.input, seen |-> seen, puts |-> <<>>],
               SeenNow(kv, x.input, seen)
        PROVE  Settles(bounds, kv, declared, crashes, y)
    <3>1. y.input = x.input /\ y.seen = seen /\ y.puts = <<>>
      BY <2>2
    <3>2. QED
      BY <1>3, <2>2, <3>1 DEF Settles
  <2>3. ASSUME NEW all, y = [input |-> x.input, seen |-> <<>>, puts |-> all],
               Plan(kv, x.input, all)
        PROVE  Settles(bounds, kv, declared, crashes, y)
    <3>1. y.input = x.input /\ y.puts = all
      BY <2>3
    <3>2. y # Idle
      BY <2>3 DEF Alone
    <3>3. request'[r] = y
      BY DEF IInv
    <3>4. RequestFits(bounds, kv, y)
      BY <1>1, <1>2, <3>2, <3>3 DEF IInv, RequestsFit, Busy
    <3>5. StoreFits(bounds, kv)
      BY DEF IInv
    <3>6. QED
      BY <1>3, <2>3, <3>1, <3>4, <3>5, Starting
  <2>4. QED
    BY <2>1, <2>2, <2>3
<1>5. QED
  BY <1>1, <1>2, <1>4, AloneSettles

(* A request that puts its next record.                                    *)
LEMMA PutSettles ==
  ASSUME Alone, IInv, IInv', AInv, NEW r \in Requests, Put(r)
  PROVE  AInv'
<1>1. PICK b, st, dec, cut, x :
        b = bounds /\ st = kv /\ dec = declared /\ cut = crashes /\ x = request[r]
  OBVIOUS
<1>2. PICK p : p = x.puts[1]
  OBVIOUS
<1>3. PICK y : y = IF Len(x.puts) = 1 THEN Idle ELSE [x EXCEPT !.puts = Tail(x.puts)]
  OBVIOUS
<1>4. StoreFits(b, st) /\ RequestFits(b, st, x) /\ x.puts # <<>> /\ x # Idle
  BY <1>1 DEF IInv, RequestsFit, Put, Busy
<1>5. p = Head(x.puts)
  <2>1. PICK S : x.puts \in Seq(S)
    BY <1>4 DEF RequestFits, IsSeq
  <2>2. QED
    BY <1>2
<1>6. /\ kv' = With(st, p) /\ crashes' = cut /\ scene' = scene
      /\ request' = [request EXCEPT ![r] = y]
      /\ declared' = dec + (IF Declares(x.input)
                            THEN p.value.balance_cents - BalanceAt(p.key) ELSE 0)
  <2>1. request' = [request EXCEPT ![r] =
                      IF Len(request[r].puts) = 1 THEN Idle
                      ELSE [request[r] EXCEPT !.puts = Tail(request[r].puts)]]
    BY DEF Put
  <2>2. QED
    BY <2>1, <1>1, <1>3, <1>5 DEF Put, PutRecord, With
<1>7. bounds' = b
  BY <1>1, <1>6 DEF bounds
<1>8. Underway(b, st, dec, cut, x)
  BY <1>1, <1>4 DEF AInv, Settles
<1>9. PICK st0, all, k : Partway(b, st, dec, cut, x, st0, all, k)
  BY <1>8 DEF Underway
<1>10. PICK i : i = x.input
  OBVIOUS
<1>11. /\ k \in 0..4
       /\ StoreFits(b, st0) /\ Sound(st0, dec, cut) /\ Opens(st0, i)
       /\ Plan(st0, i, all) /\ Planned(b, all)
       /\ PutSoFar(st0, all, k, st) /\ Extends(st0, st)
       /\ Rest(all, k, x.puts) /\ i \in Inputs
  BY <1>4, <1>9, <1>10 DEF Partway, RequestFits
<1>12. PICK n, m : n = Len(all) /\ m = Len(x.puts)
  OBVIOUS
<1>13. n \in 1..5 /\ m \in Nat /\ m >= 1 /\ m = n - k
  <2>1. PICK S : x.puts \in Seq(S)
    BY <1>4 DEF RequestFits, IsSeq
  <2>2. QED
    BY <1>4, <1>11, <1>12, <2>1, EmptySeq DEF Planned, Rest
<1>14. p = all[k + 1]
  BY <1>2, <1>11, <1>12, <1>13 DEF Rest
<1>15. k < n /\ (m = 1 => n = k + 1) /\ (m # 1 => k + 1 < n /\ k + 1 \in 0..4)
  BY <1>11, <1>13
<1>16. PICK after : after = With(st, p)
  OBVIOUS
<1>17. PutSoFar(st0, all, k + 1, after) /\ st[p.key] = st0[p.key]
  BY <1>11, <1>12, <1>14, <1>15, <1>16, NextPut
<1>18. Extends(st, after) /\ StoreFits(b, after)
  BY <1>2, <1>4, <1>16, StorePut
<1>19. Extends(st0, after)
  BY <1>11, <1>18, ExtendsAgain
<1>20. dec \in Int /\ cut \in Nat
  <2>1. bounds.crashes \in Nat
    BY BoundsFit
  <2>2. QED
    BY <1>1, <2>1 DEF IInv
<1>21. (Declares(i) => n = 1) /\ Declared(st0, i, all) \in Int
  BY <1>11, <1>12, DeclaredOf
<1>22. Settles(b, after, declared', cut, y)
  <2>1. CASE m = 1
    <3>1. y = Idle
      BY <2>1, <1>3, <1>12
    <3>2. PutSoFar(st0, all, Len(all), after)
      BY <2>1, <1>12, <1>15, <1>17
    <3>3. Sound(after, dec + Declared(st0, i, all), cut)
      BY <1>11, <1>18, <1>19, <1>20, <3>2, PlanDone
    <3>4. declared' = dec + Declared(st0, i, all)
      <4>1. CASE Declares(i)
        <5>1. p = all[1]
          <6>1. k + 1 = 1
            BY <4>1, <2>1, <1>11, <1>15, <1>21
          <6>2. QED
            BY <6>1, <1>14
        <5>2. BalanceAt(p.key) = Held(st0, all[1].key)
          BY <5>1, <1>1, <1>17 DEF BalanceAt, Held
        <5>3. QED
          BY <4>1, <5>1, <5>2, <1>6, <1>10 DEF Declared
      <4>2. CASE ~Declares(i)
        BY <4>2, <1>6, <1>10 DEF Declared
      <4>3. QED
        BY <4>1, <4>2
    <3>5. QED
      BY <3>1, <3>3, <3>4 DEF Settles
  <2>2. CASE m # 1
    <3>1. ~Declares(i)
      BY <2>2, <1>11, <1>15, <1>21
    <3>2. declared' = dec
      BY <3>1, <1>6, <1>10, <1>20
    <3>3. y = [input |-> i, seen |-> x.seen, puts |-> Tail(x.puts)]
      <4>1. y = [x EXCEPT !.puts = Tail(x.puts)]
        BY <2>2, <1>3, <1>12
      <4>2. x = [input |-> x.input, seen |-> x.seen, puts |-> x.puts]
        BY <1>4 DEF RequestFits
      <4>3. QED
        BY <4>1, <4>2, <1>10, RequestChanged
    <3>4. y.input = i /\ y.puts = Tail(x.puts) /\ y # Idle
      BY <3>3 DEF Alone
    <3>5. /\ Len(y.puts) = m - 1
          /\ \A q \in 1..Len(y.puts) : y.puts[q] = x.puts[q + 1] /\ q + 1 \in 1..m
      <4>1. PICK S : x.puts \in Seq(S)
        BY <1>4 DEF RequestFits, IsSeq
      <4>2. /\ Len(Tail(x.puts)) = m - 1
            /\ \A q \in 1..Len(Tail(x.puts)) : Tail(x.puts)[q] = x.puts[q + 1]
        BY <4>1, <1>4, <1>12, HeadTailProperties
      <4>3. QED
        BY <4>2, <3>4, <1>13
    <3>6. Rest(all, k + 1, y.puts)
      <4>1. Len(y.puts) = Len(all) - (k + 1)
        BY <3>5, <1>11, <1>12, <1>13
      <4>2. ASSUME NEW q \in 1..Len(y.puts)
            PROVE  y.puts[q] = all[q + (k + 1)]
        <5>1. q + 1 \in 1..Len(x.puts) /\ y.puts[q] = x.puts[q + 1]
          BY <3>5, <1>12
        <5>2. x.puts[q + 1] = all[(q + 1) + k]
          BY <5>1, <1>11 DEF Rest
        <5>3. (q + 1) + k = q + (k + 1)
          BY <3>5, <1>11, <1>13
        <5>4. QED
          BY <5>1, <5>2, <5>3
      <4>3. QED
        BY <4>1, <4>2 DEF Rest
    <3>7. y.puts # <<>>
      <4>1. m - 1 >= 1
        BY <2>2, <1>13
      <4>2. QED
        BY <4>1, <3>5
    <3>8. Partway(b, after, dec, cut, y, st0, all, k + 1)
      BY <2>2, <1>11, <1>15, <1>17, <1>19, <3>4, <3>6 DEF Partway
    <3>9. Underway(b, after, dec, cut, y)
      BY <3>8 DEF Underway
    <3>10. QED
      BY <3>2, <3>4, <3>7, <3>9 DEF Settles
  <2>3. QED
    BY <2>1, <2>2
<1>23. QED
  BY <1>6, <1>7, <1>16, <1>22, AloneSettles

(* A request that is cut off.                                              *)
LEMMA CrashSettles ==
  ASSUME Alone, IInv, AInv, NEW r \in Requests, Crash(r)
  PROVE  AInv'
<1>1. PICK b, st, dec, cut, x :
        b = bounds /\ st = kv /\ dec = declared /\ cut = crashes /\ x = request[r]
  OBVIOUS
<1>2. /\ x # Idle /\ cut < b.crashes /\ crashes' = cut + 1
      /\ request' = [request EXCEPT ![r] = Idle]
      /\ kv' = st /\ declared' = dec /\ scene' = scene
  BY <1>1 DEF Crash, Busy
<1>3. bounds' = b
  BY <1>1, <1>2 DEF bounds
<1>4. dec \in Int /\ cut \in Nat
  <2>1. bounds.crashes \in Nat
    BY BoundsFit
  <2>2. QED
    BY <1>1, <2>1 DEF IInv
<1>5. ~Uncut
  <2>1. b = Bounds[scene] /\ scene \in DOMAIN Bounds
    BY <1>1 DEF bounds, IInv
  <2>2. b.crashes # 0
    <3>1. b.crashes \in Nat
      BY <1>1, BoundsFit
    <3>2. QED
      BY <3>1, <1>2, <1>4
  <2>3. QED
    BY <2>1, <2>2 DEF Uncut
<1>6. StoreFits(b, st) /\ RequestFits(b, st, x)
  BY <1>1, <1>2 DEF IInv, RequestsFit, Busy
<1>7. Sound(st, dec, cut + 1)
  <2>1. CASE x.puts = <<>>
    <3>1. Sound(st, dec, cut)
      BY <2>1, <1>1 DEF AInv, Settles
    <3>2. QED
      BY <3>1, <1>4, <1>5, <1>6, SoundCut
  <2>2. CASE x.puts # <<>>
    <3>1. Underway(b, st, dec, cut, x)
      BY <2>2, <1>1, <1>2 DEF AInv, Settles
    <3>2. PICK st0, all, k : Partway(b, st, dec, cut, x, st0, all, k)
      BY <3>1 DEF Underway
    <3>3. PICK i : i = x.input
      OBVIOUS
    <3>4. /\ k \in 0..4
          /\ StoreFits(b, st0) /\ Sound(st0, dec, cut) /\ Opens(st0, i)
          /\ Plan(st0, i, all) /\ Planned(b, all)
          /\ PutSoFar(st0, all, k, st)
          /\ Len(x.puts) = Len(all) - k /\ i \in Inputs
      BY <1>6, <3>2, <3>3 DEF Partway, RequestFits, Rest
    <3>5. Len(x.puts) >= 1 /\ Len(x.puts) \in Nat
      <4>1. PICK S : x.puts \in Seq(S)
        BY <1>6 DEF RequestFits, IsSeq
      <4>2. QED
        BY <4>1, <2>2, EmptySeq
    <3>6. Len(all) \in Nat
      BY <3>4 DEF Planned
    <3>7. k < Len(all)
      BY <3>4, <3>5, <3>6
    <3>8. QED
      BY <3>4, <3>7, <1>4, <1>5, <1>6, PlanCut
  <2>3. QED
    BY <2>1, <2>2
<1>8. Settles(b, st, dec, cut + 1, Idle)
  BY <1>7 DEF Settles
<1>9. QED
  BY <1>2, <1>3, <1>8, AloneSettles

-----------------------------------------------------------------------------
(* ValueTrails: TypeOK and ListsTrue, for every cap, surface and status.   *)

(* Registration and status change append each to lists of their own and    *)
(* touch no record that moves value: ValueTrails has a state beside that   *)
(* of ValueCirculation, for the same surfaces, statuses and requests.      *)
CONSTANTS MAX_INDEX_ITEMS, MaxPosts, MaxCrashes

VARIABLES trailRecord, trailList, trailTodo, trailCopy, trailPosts, trailCrashes, trailOverlap

Tr == INSTANCE ValueTrails WITH
  Surfaces <- SurfaceIds, record <- trailRecord, list <- trailList, todo <- trailTodo,
  copy <- trailCopy, posts <- trailPosts, crashes <- trailCrashes, overlap <- trailOverlap

(* What ValueTrails assumes of its constants.                              *)
TrailTerms ==
  /\ MAX_INDEX_ITEMS \in Nat \ {0}
  /\ MaxPosts \in Nat
  /\ MaxCrashes \in Nat
  /\ Absent \notin Statuses

(* The instance's list operators are those of the lemmas on lists.         *)
LEMMA TrailCapped == \A items, most : Tr!Capped(items, most) = Capped(items, most)
  BY DEF Tr!Capped, Capped

LEMMA TrailWithout == \A items, value : Tr!Without(items, value) = Without(items, value)
  BY DEF Tr!Without, Without, Tr!FoldLeft, FoldLeft,
         Tr!MapThenFoldSet, MapThenFoldSet, Tr!Max, Max

LEMMA TrailCardinality == \A S : Tr!Cardinality(S) = Cardinality(S)
  BY DEF Tr!Cardinality, Cardinality

TrailEvents == [type : {"registered", "changed"}, surface : SurfaceIds, status : Statuses]

TrailPuts ==
  {Tr!PutOf(s, st) : s \in SurfaceIds, st \in Statuses}
    \union {Tr!AppendOf(k, s) : k \in Tr!Indexes, s \in SurfaceIds}
    \union {Tr!AppendOf(k, e) : k \in Tr!Lists \ Tr!Indexes, e \in TrailEvents}

(* A request that has put nothing yet, and what is left of it once its     *)
(* record is put.                                                          *)
WholeRequest(s, st) == {Tr!RegisterPuts(s, st), Tr!StatusPuts(s, st)}

RestOf(type, s, st) ==
  LET Y == Tr!AppendOf(Tr!IdentitySync, Tr!Event(type, s, st))
      Z == Tr!AppendOf(Tr!SurfaceSync(s), Tr!Event(type, s, st))
      S == Tr!AppendOf(Tr!StatusIndex(st), s)
  IN  {<<Tr!AppendOf(Tr!IdentityIndex, s), S, Y, Z>>, <<S, Y, Z>>, <<Y, Z>>, <<Z>>}

AfterRecord(s, st) == RestOf("registered", s, st) \union RestOf("changed", s, st)

(* What may be stored, or held, under a key.                               *)
ListSound(stored, k, items) ==
  /\ Len(items) <= MAX_INDEX_ITEMS
  /\ IF k \in Tr!Indexes
     THEN /\ items \in Seq(SurfaceIds)
          /\ IsInjective(items)
          /\ \A s \in ToSet(items) : stored[s] # Absent
     ELSE items \in Seq(TrailEvents)

TrailShaped ==
  /\ trailRecord \in [SurfaceIds -> Statuses \union {Absent}]
  /\ trailList \in [Tr!Lists -> Seq(SurfaceIds) \union Seq(TrailEvents)]
  /\ trailTodo \in [Requests -> Seq(TrailPuts)]
  /\ trailCopy = [r \in Requests |-> trailCopy[r]]
  /\ trailPosts \in 0..MaxPosts
  /\ trailCrashes \in 0..MaxCrashes
  /\ trailOverlap \in BOOLEAN

TrailUnderway ==
  \A r \in Requests :
    \/ trailTodo[r] = <<>>
    \/ \E s \in SurfaceIds, st \in Statuses :
         \/ trailTodo[r] = Tr!RegisterPuts(s, st)
         \/ trailTodo[r] = Tr!StatusPuts(s, st) /\ trailRecord[s] # Absent
         \/ /\ trailTodo[r] \in AfterRecord(s, st)
            /\ trailRecord[s] # Absent
            /\ Tr!Orderly => trailRecord[s] = st

CopiesSound ==
  \A r \in Requests : trailCopy[r] # None =>
    /\ trailTodo[r] # <<>>
    /\ Head(trailTodo[r]).put \in Tr!Lists
    /\ ListSound(trailRecord, Head(trailTodo[r]).put, trailCopy[r])

ListsSound == \A k \in Tr!Lists : ListSound(trailRecord, k, trailList[k])

(* One after another: at most one request is under way, and what it holds  *)
(* is what is stored.                                                      *)
TrailSingle ==
  Tr!Orderly =>
    /\ \A r, q \in Requests : trailTodo[r] # <<>> /\ trailTodo[q] # <<>> => r = q
    /\ \A r \in Requests : trailCopy[r] # None =>
         trailCopy[r] = trailList[Head(trailTodo[r]).put]

AppendDue(puts, k, item) ==
  \E r \in Requests : \E i \in DOMAIN puts[r] : puts[r][i] = Tr!AppendOf(k, item)

Reached(items, s) == s \in ToSet(items) \/ Len(items) = MAX_INDEX_ITEMS

Tells(items, st) == items # <<>> /\ items[1].status = st

AppendsDue ==
  Tr!Orderly =>
    \A s \in SurfaceIds : trailRecord[s] # Absent =>
      /\ \A k \in {Tr!IdentityIndex, Tr!StatusIndex(trailRecord[s])} :
           Reached(trailList[k], s) \/ AppendDue(trailTodo, k, s)
      /\ \/ Tells(trailList[Tr!SurfaceSync(s)], trailRecord[s])
         \/ \E type \in {"registered", "changed"} :
              AppendDue(trailTodo, Tr!SurfaceSync(s), Tr!Event(type, s, trailRecord[s]))

TrailInv ==
  /\ TrailShaped
  /\ TrailUnderway
  /\ CopiesSound
  /\ ListsSound
  /\ TrailSingle
  /\ AppendsDue

-----------------------------------------------------------------------------
(* The keys are told apart.                                                *)
LEMMA TrailKeys ==
  /\ Tr!IdentityIndex \in Tr!Indexes /\ Tr!IdentitySync \in Tr!Lists \ Tr!Indexes
  /\ \A st \in Statuses : Tr!StatusIndex(st) \in Tr!Indexes
  /\ \A s \in SurfaceIds : Tr!SurfaceSync(s) \in Tr!Lists \ Tr!Indexes
  /\ Tr!Indexes \subseteq Tr!Lists /\ Tr!Record \notin Tr!Lists
  /\ \A s, z \in SurfaceIds : Tr!SurfaceSync(s) = Tr!SurfaceSync(z) => s = z
  /\ \A s \in SurfaceIds : Tr!IdentitySync # Tr!SurfaceSync(s)
<1>1. \A s \in SurfaceIds : Tr!SurfaceSync(s) \notin Tr!Indexes /\ Tr!SurfaceSync(s) # Tr!IdentitySync
                          /\ Tr!SurfaceSync(s) # Tr!Record
  BY DEF Tr!SurfaceSync, Tr!Indexes, Tr!IdentityIndex, Tr!StatusIndex, Tr!IdentitySync,
         Tr!Record
<1>2. Tr!IdentitySync \notin Tr!Indexes /\ Tr!IdentitySync # Tr!Record
  BY DEF Tr!Indexes, Tr!IdentityIndex, Tr!StatusIndex, Tr!IdentitySync, Tr!Record
<1>3. Tr!Record \notin Tr!Indexes
  BY DEF Tr!Indexes, Tr!IdentityIndex, Tr!StatusIndex, Tr!Record
<1>4. \A s, z \in SurfaceIds : Tr!SurfaceSync(s) = Tr!SurfaceSync(z) => s = z
  BY DEF Tr!SurfaceSync
<1>5. Tr!IdentityIndex \in Tr!Indexes /\ \A st \in Statuses : Tr!StatusIndex(st) \in Tr!Indexes
  BY DEF Tr!Indexes
<1>6. /\ Tr!Indexes \subseteq Tr!Lists /\ Tr!IdentitySync \in Tr!Lists
      /\ \A s \in SurfaceIds : Tr!SurfaceSync(s) \in Tr!Lists
  BY DEF Tr!Lists
<1>7. Tr!Record \notin Tr!Lists
  BY <1>1, <1>2, <1>3 DEF Tr!Lists
<1>8. QED
  BY <1>1, <1>2, <1>4, <1>5, <1>6, <1>7

LEMMA TrailEventsMade ==
  ASSUME NEW s \in SurfaceIds, NEW st \in Statuses, NEW type \in {"registered", "changed"}
  PROVE  Tr!Event(type, s, st) \in TrailEvents
  BY DEF Tr!Event, TrailEvents

LEMMA TrailPutsMade ==
  /\ \A s \in SurfaceIds, st \in Statuses : Tr!PutOf(s, st) \in TrailPuts
  /\ \A k \in Tr!Indexes, s \in SurfaceIds : Tr!AppendOf(k, s) \in TrailPuts
  /\ \A k \in Tr!Lists \ Tr!Indexes, e \in TrailEvents : Tr!AppendOf(k, e) \in TrailPuts
  BY DEF TrailPuts

(* What a request starts with: the put of its record, and after it the     *)
(* appends it owes.                                                        *)
LEMMA TrailWholePuts ==
  ASSUME NEW s \in SurfaceIds, NEW st \in Statuses, NEW puts \in WholeRequest(s, st)
  PROVE  /\ puts \in Seq(TrailPuts) /\ puts # <<>>
         /\ Head(puts) = Tr!PutOf(s, st)
         /\ Tail(puts) \in AfterRecord(s, st)
         /\ \E i \in DOMAIN Tail(puts) : Tail(puts)[i] = Tr!AppendOf(Tr!StatusIndex(st), s)
         /\ \E type \in {"registered", "changed"} : \E i \in DOMAIN Tail(puts) :
              Tail(puts)[i] = Tr!AppendOf(Tr!SurfaceSync(s), Tr!Event(type, s, st))
<1>1. ASSUME NEW type \in {"registered", "changed"}
      PROVE  /\ Tr!AppendOf(Tr!IdentityIndex, s) \in TrailPuts
             /\ Tr!AppendOf(Tr!StatusIndex(st), s) \in TrailPuts
             /\ Tr!AppendOf(Tr!IdentitySync, Tr!Event(type, s, st)) \in TrailPuts
             /\ Tr!AppendOf(Tr!SurfaceSync(s), Tr!Event(type, s, st)) \in TrailPuts
             /\ Tr!PutOf(s, st) \in TrailPuts
  BY TrailKeys, TrailPutsMade, TrailEventsMade
<1>2. CASE puts = Tr!RegisterPuts(s, st)
  <2>1. PICK r, i, x, y, z :
          /\ r = Tr!PutOf(s, st) /\ i = Tr!AppendOf(Tr!IdentityIndex, s)
          /\ x = Tr!AppendOf(Tr!StatusIndex(st), s)
          /\ y = Tr!AppendOf(Tr!IdentitySync, Tr!Event("registered", s, st))
          /\ z = Tr!AppendOf(Tr!SurfaceSync(s), Tr!Event("registered", s, st))
    OBVIOUS
  <2>2. puts = <<r, i, x, y, z>>
    BY <1>2, <2>1 DEF Tr!RegisterPuts
  <2>3. Head(puts) = r /\ puts # <<>>
    BY <2>2
  <2>4. Tail(puts) = <<i, x, y, z>>
    BY <2>2
  <2>5. /\ 2 \in DOMAIN Tail(puts) /\ Tail(puts)[2] = x
        /\ 4 \in DOMAIN Tail(puts) /\ Tail(puts)[4] = z
    <3>1. DEFINE rest == <<i, x, y, z>>
    <3>2. DOMAIN rest = 1..4
      OBVIOUS
    <3>3. rest[2] = x /\ rest[4] = z /\ 2 \in 1..4 /\ 4 \in 1..4
      OBVIOUS
    <3>4. Tail(puts) = rest
      BY <2>4
    <3>5. HIDE DEF rest
    <3>6. QED
      BY <3>2, <3>3, <3>4
  <2>6. Tail(puts) \in AfterRecord(s, st)
    BY <2>1, <2>4 DEF AfterRecord, RestOf
  <2>7. puts \in Seq(TrailPuts)
    BY <1>1, <2>1, <2>2
  <2>8. \E j \in DOMAIN Tail(puts) : Tail(puts)[j] = x
    BY <2>5
  <2>9. \E j \in DOMAIN Tail(puts) : Tail(puts)[j] = z
    BY <2>5
  <2>10. QED
    BY <2>1, <2>3, <2>6, <2>7, <2>8, <2>9
<1>3. CASE puts = Tr!StatusPuts(s, st)
  <2>1. PICK r, x, y, z :
          /\ r = Tr!PutOf(s, st)
          /\ x = Tr!AppendOf(Tr!StatusIndex(st), s)
          /\ y = Tr!AppendOf(Tr!IdentitySync, Tr!Event("changed", s, st))
          /\ z = Tr!AppendOf(Tr!SurfaceSync(s), Tr!Event("changed", s, st))
    OBVIOUS
  <2>2. puts = <<r, x, y, z>>
    BY <1>3, <2>1 DEF Tr!StatusPuts
  <2>3. Head(puts) = r /\ puts # <<>>
    BY <2>2
  <2>4. Tail(puts) = <<x, y, z>>
    BY <2>2
  <2>5. /\ 1 \in DOMAIN Tail(puts) /\ Tail(puts)[1] = x
        /\ 3 \in DOMAIN Tail(puts) /\ Tail(puts)[3] = z
    <3>1. DEFINE rest == <<x, y, z>>
    <3>2. DOMAIN rest = 1..3
      OBVIOUS
    <3>3. rest[1] = x /\ rest[3] = z /\ 1 \in 1..3 /\ 3 \in 1..3
      OBVIOUS
    <3>4. Tail(puts) = rest
      BY <2>4
    <3>5. HIDE DEF rest
    <3>6. QED
      BY <3>2, <3>3, <3>4
  <2>6. Tail(puts) \in AfterRecord(s, st)
    BY <2>1, <2>4 DEF AfterRecord, RestOf
  <2>7. puts \in Seq(TrailPuts)
    BY <1>1, <2>1, <2>2
  <2>8. \E j \in DOMAIN Tail(puts) : Tail(puts)[j] = x
    BY <2>5
  <2>9. \E j \in DOMAIN Tail(puts) : Tail(puts)[j] = z
    BY <2>5
  <2>10. QED
    BY <2>1, <2>3, <2>6, <2>7, <2>8, <2>9
<1>4. QED
  BY <1>2, <1>3 DEF WholeRequest

(* A registration owes the identity's index too.                           *)
LEMMA TrailRegisteredPuts ==
  ASSUME NEW s \in SurfaceIds, NEW st \in Statuses
  PROVE  \E i \in DOMAIN Tail(Tr!RegisterPuts(s, st)) :
           Tail(Tr!RegisterPuts(s, st))[i] = Tr!AppendOf(Tr!IdentityIndex, s)
<1>1. PICK r, i, x, y, z :
        /\ i = Tr!AppendOf(Tr!IdentityIndex, s)
        /\ Tr!RegisterPuts(s, st) = <<r, i, x, y, z>>
  BY DEF Tr!RegisterPuts
<1>2. Tail(Tr!RegisterPuts(s, st)) = <<i, x, y, z>> /\ 1 \in DOMAIN <<i, x, y, z>>
  BY <1>1
<1>3. QED
  BY <1>1, <1>2

(* What is left of a request whose record is put: an append, and less.     *)
LEMMA TrailRestPuts ==
  ASSUME NEW s \in SurfaceIds, NEW st \in Statuses, NEW puts \in AfterRecord(s, st)
  PROVE  /\ puts # <<>>
         /\ Tail(puts) = <<>> \/ Tail(puts) \in AfterRecord(s, st)
         /\ \/ Head(puts) = Tr!AppendOf(Tr!IdentityIndex, s)
            \/ Head(puts) = Tr!AppendOf(Tr!StatusIndex(st), s)
            \/ \E type \in {"registered", "changed"} :
                 \/ Head(puts) = Tr!AppendOf(Tr!IdentitySync, Tr!Event(type, s, st))
                 \/ Head(puts) = Tr!AppendOf(Tr!SurfaceSync(s), Tr!Event(type, s, st))
<1>1. PICK type \in {"registered", "changed"} : puts \in RestOf(type, s, st)
  BY DEF AfterRecord
<1>2. PICK i, x, y, z :
        /\ i = Tr!AppendOf(Tr!IdentityIndex, s)
        /\ x = Tr!AppendOf(Tr!StatusIndex(st), s)
        /\ y = Tr!AppendOf(Tr!IdentitySync, Tr!Event(type, s, st))
        /\ z = Tr!AppendOf(Tr!SurfaceSync(s), Tr!Event(type, s, st))
  OBVIOUS
<1>3. RestOf(type, s, st) = {<<i, x, y, z>>, <<x, y, z>>, <<y, z>>, <<z>>}
  BY <1>2 DEF RestOf
<1>4. RestOf(type, s, st) \subseteq AfterRecord(s, st)
  BY DEF AfterRecord
<1>5. CASE puts = <<i, x, y, z>>
  <2>1. puts # <<>> /\ Head(puts) = i /\ Tail(puts) = <<x, y, z>>
    BY <1>5
  <2>2. QED
    BY <1>2, <1>3, <1>4, <2>1
<1>6. CASE puts = <<x, y, z>>
  <2>1. puts # <<>> /\ Head(puts) = x /\ Tail(puts) = <<y, z>>
    BY <1>6
  <2>2. QED
    BY <1>2, <1>3, <1>4, <2>1
<1>7. CASE puts = <<y, z>>
  <2>1. puts # <<>> /\ Head(puts) = y /\ Tail(puts) = <<z>>
    BY <1>7
  <2>2. QED
    BY <1>1, <1>2, <1>3, <1>4, <2>1
<1>8. CASE puts = <<z>>
  <2>1. puts # <<>> /\ Head(puts) = z /\ Tail(puts) = <<>>
    BY <1>8
  <2>2. QED
    BY <1>1, <1>2, <2>1
<1>9. QED
  BY <1>1, <1>3, <1>5, <1>6, <1>7, <1>8

(* A put that is not the first is still there after the first.             *)
LEMMA TrailLaterPuts ==
  ASSUME NEW A, NEW puts \in Seq(A), NEW i \in DOMAIN puts
  PROVE  \/ puts[i] = Head(puts)
         \/ \E j \in DOMAIN Tail(puts) : Tail(puts)[j] = puts[i]
<1>1. PICK n \in Nat : n = Len(puts) /\ DOMAIN puts = 1..n
  OBVIOUS
<1>2. /\ puts # <<>> /\ i \in 1..n /\ Head(puts) = puts[1]
  BY <1>1
<1>3. /\ DOMAIN Tail(puts) = 1..(n - 1)
      /\ \A j \in 1..(n - 1) : Tail(puts)[j] = puts[j + 1]
  BY <1>1, <1>2
<1>4. CASE i # 1
  <2>1. i - 1 \in 1..(n - 1) /\ (i - 1) + 1 = i
    BY <1>2, <1>4
  <2>2. Tail(puts)[i - 1] = puts[i]
    BY <1>3, <2>1
  <2>3. QED
    BY <1>3, <2>1, <2>2
<1>5. QED
  BY <1>2, <1>4

LEMMA TrailAppendsAlike ==
  ASSUME NEW k, NEW item, NEW l, NEW thing, Tr!AppendOf(k, item) = Tr!AppendOf(l, thing)
  PROVE  k = l /\ item = thing
  BY DEF Tr!AppendOf

LEMMA TrailPutFields ==
  /\ \A s, st : Tr!PutOf(s, st).put = Tr!Record /\ Tr!PutOf(s, st).surface = s
                /\ Tr!PutOf(s, st).status = st
  /\ \A k, item : Tr!AppendOf(k, item).put = k /\ Tr!AppendOf(k, item).item = item
  /\ \A type, s, st : Tr!Event(type, s, st).status = st
  BY DEF Tr!PutOf, Tr!AppendOf, Tr!Event

-----------------------------------------------------------------------------
(* What appending makes of a sound list: a sound one, in which the item    *)
(* comes first and nothing is missed that was not, but for the cap.        *)
LEMMA TrailIndexAppended ==
  ASSUME TrailTerms, NEW k \in Tr!Indexes, NEW stored, NEW items,
         ListSound(stored, k, items), NEW item \in SurfaceIds
  PROVE  LET new == Tr!Appended(k, items, item)
         IN  /\ Len(new) <= MAX_INDEX_ITEMS /\ new \in Seq(SurfaceIds) /\ IsInjective(new)
             /\ ToSet(new) \subseteq ToSet(items) \union {item}
             /\ Reached(new, item)
             /\ \A s \in SurfaceIds : Reached(items, s) => Reached(new, s)
<1>1. MAX_INDEX_ITEMS \in Nat \ {0}
  BY DEF TrailTerms
<1>2. items \in Seq(SurfaceIds) /\ IsInjective(items) /\ Len(items) <= MAX_INDEX_ITEMS
  BY DEF ListSound
<1>3. PICK kept : kept = Without(items, item)
  OBVIOUS
<1>4. /\ kept \in Seq(SurfaceIds) /\ ToSet(kept) = ToSet(items) \ {item} /\ IsInjective(kept)
  BY <1>2, <1>3, WithoutItems
<1>5. PICK whole : whole = <<item>> \o kept
  OBVIOUS
<1>6. /\ whole \in Seq(SurfaceIds) /\ Len(whole) = Len(kept) + 1
      /\ whole[1] = item /\ ToSet(whole) = ToSet(kept) \union {item}
      /\ IsInjective(whole)
  BY <1>4, <1>5, FrontItems
<1>7. PICK new : new = Tr!Appended(k, items, item)
  OBVIOUS
<1>8. new = Capped(whole, MAX_INDEX_ITEMS)
  BY <1>3, <1>5, <1>7, TrailCapped, TrailWithout DEF Tr!Appended, Tr!appendIndex
<1>9. PICK most \in Nat \ {0} : most = MAX_INDEX_ITEMS
  BY <1>1
<1>10. /\ new \in Seq(SurfaceIds) /\ IsInjective(new)
       /\ Len(new) = IF Len(whole) < most THEN Len(whole) ELSE most
       /\ \A i \in DOMAIN new : i \in DOMAIN whole /\ new[i] = whole[i]
       /\ ToSet(new) \subseteq ToSet(whole)
       /\ Len(whole) <= most => new = whole
  <2>1. most \in Nat
    OBVIOUS
  <2>2. QED
    BY <1>6, <1>8, <1>9, <2>1, CappedItems
<1>11. PICK n \in Nat : n = Len(new) /\ DOMAIN new = 1..n
  BY <1>10
<1>12. PICK w \in Nat : w = Len(whole) /\ w # 0
  BY <1>4, <1>6
<1>13. n = (IF w < most THEN w ELSE most) /\ n <= most /\ 1 \in 1..n
  BY <1>10, <1>11, <1>12
<1>14. item \in ToSet(new)
  <2>1. new[1] = item /\ 1 \in DOMAIN new
    BY <1>6, <1>10, <1>11, <1>13
  <2>2. QED
    BY <2>1 DEF ToSet
<1>15. ASSUME NEW s \in SurfaceIds, Reached(items, s) PROVE Reached(new, s)
  <2>1. CASE Len(items) = MAX_INDEX_ITEMS
    <3>1. IsFiniteSet(ToSet(items)) /\ Cardinality(ToSet(items)) = Len(items)
      BY <1>2, DistinctLength
    <3>2. IsFiniteSet(ToSet(kept)) /\ Cardinality(ToSet(kept)) = Len(kept)
      BY <1>4, DistinctLength
    <3>3. PICK j, m : j = Len(items) /\ m = Len(kept)
      OBVIOUS
    <3>4. j \in Nat /\ m \in Nat
      BY <1>2, <1>4, <3>3
    <3>5. m = j \/ m = j - 1
      <4>1. CASE item \in ToSet(items)
        <5>1. Cardinality(ToSet(items) \ {item}) = Cardinality(ToSet(items)) - 1
          BY <3>1, <4>1, FS_RemoveElement
        <5>2. QED
          BY <1>4, <3>1, <3>2, <3>3, <5>1
      <4>2. CASE item \notin ToSet(items)
        <5>1. ToSet(items) \ {item} = ToSet(items)
          BY <4>2
        <5>2. QED
          BY <1>4, <3>1, <3>2, <3>3, <5>1
      <4>3. QED
        BY <4>1, <4>2
    <3>6. w = m + 1 /\ j = most
      BY <1>6, <1>9, <1>12, <2>1, <3>3
    <3>7. n = most
      BY <1>13, <3>4, <3>5, <3>6
    <3>8. QED
      BY <1>9, <1>11, <3>7 DEF Reached
  <2>2. CASE s \in ToSet(items)
    <3>1. s \in ToSet(whole)
      BY <1>4, <1>6, <2>2
    <3>2. CASE w <= most
      <4>1. new = whole
        BY <1>10, <1>12, <3>2
      <4>2. QED
        BY <3>1, <4>1 DEF Reached
    <3>3. CASE ~(w <= most)
      <4>1. n = most
        BY <1>13, <3>3
      <4>2. QED
        BY <1>9, <1>11, <4>1 DEF Reached
    <3>4. QED
      BY <3>2, <3>3
  <2>3. QED
    BY <1>15, <2>1, <2>2 DEF Reached
<1>16. Len(new) <= MAX_INDEX_ITEMS
  BY <1>9, <1>11, <1>13
<1>17. ToSet(new) \subseteq ToSet(items) \union {item}
  BY <1>4, <1>6, <1>10
<1>18. QED
  BY <1>7, <1>10, <1>14, <1>15, <1>16, <1>17 DEF Reached

LEMMA TrailAppended ==
  ASSUME TrailTerms, NEW k \in Tr!Lists \ Tr!Indexes, NEW stored, NEW items,
         ListSound(stored, k, items), NEW item \in TrailEvents
  PROVE  LET new == Tr!Appended(k, items, item)
         IN  /\ Len(new) <= MAX_INDEX_ITEMS /\ new \in Seq(TrailEvents)
             /\ new # <<>> /\ new[1] = item
<1>1. MAX_INDEX_ITEMS \in Nat \ {0}
  BY DEF TrailTerms
<1>2. items \in Seq(TrailEvents)
  BY DEF ListSound
<1>3. PICK whole : whole = <<item>> \o items
  OBVIOUS
<1>4. whole \in Seq(TrailEvents) /\ Len(whole) = Len(items) + 1 /\ whole[1] = item
  BY <1>2, <1>3, FrontItems
<1>5. PICK new : new = Tr!Appended(k, items, item)
  OBVIOUS
<1>6. new = Capped(whole, MAX_INDEX_ITEMS)
  BY <1>3, <1>5, TrailCapped DEF Tr!Appended, Tr!appendSync
<1>7. PICK most \in Nat \ {0} : most = MAX_INDEX_ITEMS
  BY <1>1
<1>8. /\ new \in Seq(TrailEvents)
      /\ Len(new) = IF Len(whole) < most THEN Len(whole) ELSE most
      /\ \A i \in DOMAIN new : i \in DOMAIN whole /\ new[i] = whole[i]
  <2>1. most \in Nat
    OBVIOUS
  <2>2. QED
    BY <1>4, <1>6, <1>7, <2>1, CappedItems
<1>9. PICK n \in Nat : n = Len(new) /\ DOMAIN new = 1..n
  BY <1>8
<1>10. PICK w \in Nat : w = Len(whole) /\ w # 0
  BY <1>2, <1>4
<1>11. n = (IF w < most THEN w ELSE most) /\ n <= most /\ 1 \in 1..n
  BY <1>8, <1>9, <1>10
<1>12. new[1] = item
  BY <1>4, <1>8, <1>9, <1>11
<1>13. new # <<>>
  <2>1. n # 0
    BY <1>11
  <2>2. Len(<<>>) = 0
    OBVIOUS
  <2>3. QED
    BY <1>9, <2>1, <2>2
<1>14. Len(new) <= MAX_INDEX_ITEMS
  BY <1>7, <1>9, <1>11
<1>15. QED
  BY <1>5, <1>8, <1>12, <1>13, <1>14

-----------------------------------------------------------------------------
LEMMA TrailInit == TrailTerms /\ Tr!Init => TrailInv
<1>1. SUFFICES ASSUME TrailTerms, Tr!Init PROVE TrailInv
  OBVIOUS
<1>2. /\ trailRecord = [s \in SurfaceIds |-> Absent]
      /\ trailList = [k \in Tr!Lists |-> <<>>]
      /\ trailTodo = [r \in Requests |-> <<>>]
      /\ trailCopy = [r \in Requests |-> None]
      /\ trailPosts = 0 /\ trailCrashes = 0 /\ trailOverlap = FALSE
  BY <1>1 DEF Tr!Init
<1>3. MAX_INDEX_ITEMS \in Nat \ {0} /\ MaxPosts \in Nat /\ MaxCrashes \in Nat
  BY <1>1 DEF TrailTerms
<1>4. TrailShaped
  <2>1. trailPosts \in 0..MaxPosts /\ trailCrashes \in 0..MaxCrashes
    BY <1>2, <1>3
  <2>2. trailOverlap \in BOOLEAN
    BY <1>2
  <2>3. /\ trailList \in [Tr!Lists -> Seq(SurfaceIds) \union Seq(TrailEvents)]
        /\ trailTodo \in [Requests -> Seq(TrailPuts)]
    BY <1>2
  <2>4. QED
    BY <1>2, <2>1, <2>2, <2>3 DEF TrailShaped
<1>5. TrailUnderway
  BY <1>2 DEF TrailUnderway
<1>6. CopiesSound
  BY <1>2 DEF CopiesSound
<1>7. ListsSound
  <2>1. \A k \in Tr!Lists : ListSound(trailRecord, k, <<>>)
    <3>1. /\ <<>> \in Seq(SurfaceIds) /\ <<>> \in Seq(TrailEvents)
          /\ Len(<<>>) = 0 /\ DOMAIN <<>> = {}
      OBVIOUS
    <3>2. IsInjective(<<>>) /\ ToSet(<<>>) = {}
      BY <3>1 DEF IsInjective, ToSet
    <3>3. 0 <= MAX_INDEX_ITEMS
      BY <1>3
    <3>4. QED
      BY <3>1, <3>2, <3>3 DEF ListSound
  <2>2. QED
    BY <1>2, <2>1 DEF ListsSound
<1>8. TrailSingle
  BY <1>2 DEF TrailSingle
<1>9. AppendsDue
  BY <1>2 DEF AppendsDue
<1>10. QED
  BY <1>4, <1>5, <1>6, <1>7, <1>8, <1>9 DEF TrailInv

(* More is recorded, and what was sound still is.                          *)
LEMMA TrailSoundStays ==
  ASSUME NEW before, NEW now, NEW k, NEW items, ListSound(before, k, items),
         \A s \in SurfaceIds : before[s] # Absent => now[s] # Absent
  PROVE  ListSound(now, k, items)
<1>1. CASE k \in Tr!Indexes
  <2>1. items \in Seq(SurfaceIds) /\ \A s \in ToSet(items) : before[s] # Absent
    BY <1>1 DEF ListSound
  <2>2. ToSet(items) \subseteq SurfaceIds
    BY <2>1 DEF ToSet
  <2>3. \A s \in ToSet(items) : now[s] # Absent
    BY <2>1, <2>2
  <2>4. QED
    BY <1>1, <2>3 DEF ListSound
<1>2. CASE k \notin Tr!Indexes
  BY <1>2 DEF ListSound
<1>3. QED
  BY <1>1, <1>2

(* A request is received.                                                  *)
LEMMA TrailPostKeeps ==
  ASSUME TrailTerms, TrailInv, NEW r \in Requests, NEW s \in SurfaceIds, NEW st \in Statuses,
         NEW puts,
         puts = Tr!RegisterPuts(s, st) \/ (puts = Tr!StatusPuts(s, st) /\ trailRecord[s] # Absent),
         Tr!Post(r, puts)
  PROVE  TrailInv'
<1>1. /\ trailTodo[r] = <<>> /\ trailPosts < MaxPosts /\ trailPosts' = trailPosts + 1
      /\ trailTodo' = [trailTodo EXCEPT ![r] = puts]
      /\ trailOverlap' = (trailOverlap \/ ~Tr!Quiet)
      /\ trailRecord' = trailRecord /\ trailList' = trailList /\ trailCopy' = trailCopy
      /\ trailCrashes' = trailCrashes
  BY DEF Tr!Post
<1>2. puts \in Seq(TrailPuts) /\ puts # <<>>
  <2>1. puts \in WholeRequest(s, st)
    BY DEF WholeRequest
  <2>2. QED
    BY <2>1, TrailWholePuts
<1>3. /\ trailTodo \in [Requests -> Seq(TrailPuts)]
      /\ trailOverlap \in BOOLEAN /\ trailPosts \in 0..MaxPosts
  BY DEF TrailInv, TrailShaped
<1>4. trailTodo'[r] = puts /\ \A q \in Requests \ {r} : trailTodo'[q] = trailTodo[q]
  BY <1>1, <1>3
<1>5. TrailShaped'
  <2>1. trailPosts' \in 0..MaxPosts
    BY <1>1, <1>3 DEF TrailTerms
  <2>2. trailOverlap' \in BOOLEAN
    BY <1>1, <1>3 DEF Tr!Quiet
  <2>3. trailTodo' \in [Requests -> Seq(TrailPuts)]
    BY <1>1, <1>2, <1>3
  <2>4. QED
    BY <1>1, <2>1, <2>2, <2>3 DEF TrailInv, TrailShaped
<1>6. Tr!Orderly' => Tr!Orderly /\ Tr!Quiet
  BY <1>1, <1>3 DEF Tr!Orderly
<1>7. TrailUnderway'
  <2>1. SUFFICES ASSUME NEW q \in Requests, trailTodo'[q] # <<>>
                 PROVE  \E z \in SurfaceIds, x \in Statuses :
                          \/ trailTodo'[q] = Tr!RegisterPuts(z, x)
                          \/ trailTodo'[q] = Tr!StatusPuts(z, x) /\ trailRecord'[z] # Absent
                          \/ /\ trailTodo'[q] \in AfterRecord(z, x)
                             /\ trailRecord'[z] # Absent
                             /\ Tr!Orderly' => trailRecord'[z] = x
    BY DEF TrailUnderway
  <2>2. CASE q = r
    BY <1>1, <1>4, <2>2
  <2>3. CASE q # r
    <3>1. PICK z \in SurfaceIds, x \in Statuses :
            \/ trailTodo[q] = Tr!RegisterPuts(z, x)
            \/ trailTodo[q] = Tr!StatusPuts(z, x) /\ trailRecord[z] # Absent
            \/ /\ trailTodo[q] \in AfterRecord(z, x)
               /\ trailRecord[z] # Absent
               /\ Tr!Orderly => trailRecord[z] = x
      BY <1>4, <2>1, <2>3 DEF TrailInv, TrailUnderway
    <3>2. QED
      BY <1>1, <1>4, <1>6, <2>3, <3>1
  <2>4. QED
    BY <2>2, <2>3
<1>8. CopiesSound'
  <2>1. trailCopy[r] = None
    BY <1>1 DEF TrailInv, CopiesSound
  <2>2. QED
    BY <1>1, <1>4, <2>1 DEF TrailInv, CopiesSound
<1>9. ListsSound'
  BY <1>1 DEF TrailInv, ListsSound
<1>10. TrailSingle'
  <2>1. SUFFICES ASSUME Tr!Quiet, Tr!Orderly
                 PROVE  /\ \A q, p \in Requests : trailTodo'[q] # <<>> /\ trailTodo'[p] # <<>> => q = p
                        /\ \A q \in Requests : trailCopy'[q] # None =>
                             trailCopy'[q] = trailList'[Head(trailTodo'[q]).put]
    BY <1>6 DEF TrailSingle
  <2>2. \A q \in Requests : trailTodo[q] = <<>> /\ trailCopy[q] = None
    BY <2>1 DEF Tr!Quiet, TrailInv, CopiesSound
  <2>3. QED
    BY <1>1, <1>4, <2>2
<1>11. AppendsDue'
  <2>1. SUFFICES ASSUME Tr!Quiet, Tr!Orderly, NEW z \in SurfaceIds, trailRecord[z] # Absent
                 PROVE  /\ \A k \in {Tr!IdentityIndex, Tr!StatusIndex(trailRecord[z])} :
                             Reached(trailList[k], z)
                        /\ Tells(trailList[Tr!SurfaceSync(z)], trailRecord[z])
    BY <1>1, <1>6 DEF AppendsDue
  <2>2. \A k, item : ~AppendDue(trailTodo, k, item)
    <3>1. DOMAIN <<>> = {}
      OBVIOUS
    <3>2. QED
      BY <2>1, <3>1 DEF AppendDue, Tr!Quiet
  <2>3. QED
    BY <2>1, <2>2 DEF TrailInv, AppendsDue
<1>12. QED
  BY <1>5, <1>7, <1>8, <1>9, <1>10, <1>11 DEF TrailInv

(* A request that is cut off: nothing more is claimed of an orderly run.   *)
LEMMA TrailCrashKeeps ==
  ASSUME TrailTerms, TrailInv, NEW r \in Requests, Tr!Crash(r)
  PROVE  TrailInv'
<1>1. /\ trailCrashes < MaxCrashes /\ trailCrashes' = trailCrashes + 1
      /\ trailTodo' = [trailTodo EXCEPT ![r] = <<>>]
      /\ trailCopy' = [trailCopy EXCEPT ![r] = None]
      /\ trailRecord' = trailRecord /\ trailList' = trailList /\ trailPosts' = trailPosts
      /\ trailOverlap' = trailOverlap
  BY DEF Tr!Crash
<1>2. /\ trailTodo \in [Requests -> Seq(TrailPuts)]
      /\ trailCopy = [q \in Requests |-> trailCopy[q]]
      /\ trailCrashes \in 0..MaxCrashes
  BY DEF TrailInv, TrailShaped
<1>3. /\ trailTodo'[r] = <<>> /\ trailCopy'[r] = None
      /\ \A q \in Requests \ {r} : trailTodo'[q] = trailTodo[q] /\ trailCopy'[q] = trailCopy[q]
  BY <1>1, <1>2
<1>4. ~Tr!Orderly'
  BY <1>1, <1>2 DEF TrailTerms, Tr!Orderly
<1>5. TrailShaped'
  <2>1. trailCrashes' \in 0..MaxCrashes
    BY <1>1, <1>2 DEF TrailTerms
  <2>2. trailTodo' \in [Requests -> Seq(TrailPuts)]
    BY <1>1, <1>2
  <2>3. trailCopy' = [q \in Requests |-> trailCopy'[q]]
    BY <1>1, <1>2
  <2>4. QED
    BY <1>1, <2>1, <2>2, <2>3 DEF TrailInv, TrailShaped
<1>6. TrailUnderway'
  BY <1>1, <1>3, <1>4 DEF TrailInv, TrailUnderway
<1>7. CopiesSound' /\ ListsSound'
  BY <1>1, <1>3 DEF TrailInv, CopiesSound, ListsSound
<1>8. TrailSingle' /\ AppendsDue'
  BY <1>4 DEF TrailSingle, AppendsDue
<1>9. QED
  BY <1>5, <1>6, <1>7, <1>8 DEF TrailInv

(* A list is read to be appended to.                                       *)
LEMMA TrailGetListKeeps ==
  ASSUME TrailInv, NEW r \in Requests, Tr!GetList(r)
  PROVE  TrailInv'
<1>1. /\ trailTodo[r] # <<>> /\ Head(trailTodo[r]).put # Tr!Record
      /\ trailCopy' = [trailCopy EXCEPT ![r] = trailList[Head(trailTodo[r]).put]]
      /\ trailRecord' = trailRecord /\ trailList' = trailList /\ trailTodo' = trailTodo
      /\ trailPosts' = trailPosts
      /\ trailCrashes' = trailCrashes /\ trailOverlap' = trailOverlap
  BY DEF Tr!GetList
<1>2. trailCopy = [q \in Requests |-> trailCopy[q]]
  BY DEF TrailInv, TrailShaped
<1>3. /\ trailCopy'[r] = trailList[Head(trailTodo[r]).put]
      /\ \A q \in Requests \ {r} : trailCopy'[q] = trailCopy[q]
  BY <1>1, <1>2
<1>4. Head(trailTodo[r]).put \in Tr!Lists
  <2>1. PICK s \in SurfaceIds, st \in Statuses :
          trailTodo[r] \in WholeRequest(s, st) \/ trailTodo[r] \in AfterRecord(s, st)
    BY <1>1 DEF TrailInv, TrailUnderway, WholeRequest
  <2>2. CASE trailTodo[r] \in WholeRequest(s, st)
    BY <1>1, <2>2, TrailWholePuts, TrailPutFields
  <2>3. CASE trailTodo[r] \in AfterRecord(s, st)
    <3>1. \/ Head(trailTodo[r]) = Tr!AppendOf(Tr!IdentityIndex, s)
          \/ Head(trailTodo[r]) = Tr!AppendOf(Tr!StatusIndex(st), s)
          \/ \E type \in {"registered", "changed"} :
               \/ Head(trailTodo[r]) = Tr!AppendOf(Tr!IdentitySync, Tr!Event(type, s, st))
               \/ Head(trailTodo[r]) = Tr!AppendOf(Tr!SurfaceSync(s), Tr!Event(type, s, st))
      BY <2>3, TrailRestPuts
    <3>2. QED
      BY <3>1, TrailKeys, TrailPutFields
  <2>4. QED
    BY <2>1, <2>2, <2>3
<1>5. TrailShaped'
  <2>1. trailCopy' = [q \in Requests |-> trailCopy'[q]]
    BY <1>1, <1>2
  <2>2. QED
    BY <1>1, <2>1 DEF TrailInv, TrailShaped
<1>6. Tr!Orderly' = Tr!Orderly
  BY <1>1 DEF Tr!Orderly
<1>7. TrailUnderway'
  BY <1>1, <1>6 DEF TrailInv, TrailUnderway
<1>8. ListsSound'
  BY <1>1 DEF TrailInv, ListsSound
<1>9. CopiesSound'
  <2>1. ListSound(trailRecord, Head(trailTodo[r]).put, trailCopy'[r])
    BY <1>3, <1>4 DEF TrailInv, ListsSound
  <2>2. QED
    BY <1>1, <1>3, <1>4, <2>1 DEF TrailInv, CopiesSound
<1>10. TrailSingle'
  BY <1>1, <1>3, <1>6 DEF TrailInv, TrailSingle
<1>11. AppendsDue'
  BY <1>1, <1>6 DEF TrailInv, AppendsDue
<1>12. QED
  BY <1>5, <1>7, <1>8, <1>9, <1>10, <1>11 DEF TrailInv

(* What is due stays due until it is put.                                  *)
LEMMA TrailDueStays ==
  ASSUME NEW puts \in [Requests -> Seq(TrailPuts)], NEW r \in Requests, NEW k, NEW item,
         puts[r] # <<>>, AppendDue(puts, k, item), Head(puts[r]) # Tr!AppendOf(k, item)
  PROVE  AppendDue([puts EXCEPT ![r] = Tail(@)], k, item)
<1>1. PICK q \in Requests : \E i \in DOMAIN puts[q] : puts[q][i] = Tr!AppendOf(k, item)
  BY DEF AppendDue
<1>2. PICK i \in DOMAIN puts[q] : puts[q][i] = Tr!AppendOf(k, item)
  BY <1>1
<1>3. PICK left : left = [puts EXCEPT ![r] = Tail(@)]
  OBVIOUS
<1>4. left[r] = Tail(puts[r]) /\ \A p \in Requests \ {r} : left[p] = puts[p]
  BY <1>3
<1>5. CASE q # r
  BY <1>2, <1>3, <1>4, <1>5 DEF AppendDue
<1>6. CASE q = r
  <2>1. puts[r] \in Seq(TrailPuts) /\ i \in DOMAIN puts[r]
    BY <1>6
  <2>2. \E j \in DOMAIN Tail(puts[r]) : Tail(puts[r])[j] = puts[r][i]
    <3>1. \/ puts[r][i] = Head(puts[r])
          \/ \E j \in DOMAIN Tail(puts[r]) : Tail(puts[r])[j] = puts[r][i]
      BY <2>1, TrailLaterPuts
    <3>2. QED
      BY <1>2, <1>6, <3>1
  <2>3. \E j \in DOMAIN left[r] : left[r][j] = Tr!AppendOf(k, item)
    BY <1>2, <1>4, <1>6, <2>2
  <2>4. QED
    BY <1>3, <2>3 DEF AppendDue
<1>7. QED
  BY <1>5, <1>6

(* A record is put: its surface is stored from here on, and what the       *)
(* request owes is all still to come.                                      *)
LEMMA TrailPutRecordKeeps ==
  ASSUME TrailTerms, TrailInv, NEW r \in Requests, Tr!PutRecord(r)
  PROVE  TrailInv'
<1>1. /\ trailTodo[r] # <<>> /\ Head(trailTodo[r]).put = Tr!Record
      /\ trailRecord' = [trailRecord EXCEPT ![Head(trailTodo[r]).surface] = Head(trailTodo[r]).status]
      /\ trailTodo' = [trailTodo EXCEPT ![r] = Tail(@)]
      /\ trailList' = trailList /\ trailCopy' = trailCopy /\ trailPosts' = trailPosts
      /\ trailCrashes' = trailCrashes
      /\ trailOverlap' = trailOverlap
  BY DEF Tr!PutRecord
<1>2. /\ trailTodo \in [Requests -> Seq(TrailPuts)]
      /\ trailRecord \in [SurfaceIds -> Statuses \union {Absent}]
  BY DEF TrailInv, TrailShaped
<1>3. PICK s \in SurfaceIds, st \in Statuses :
        trailTodo[r] = Tr!RegisterPuts(s, st) \/ (trailTodo[r] = Tr!StatusPuts(s, st) /\ trailRecord[s] # Absent)
  <2>1. PICK s \in SurfaceIds, st \in Statuses :
          \/ trailTodo[r] = Tr!RegisterPuts(s, st) \/ (trailTodo[r] = Tr!StatusPuts(s, st) /\ trailRecord[s] # Absent)
          \/ trailTodo[r] \in AfterRecord(s, st)
    BY <1>1 DEF TrailInv, TrailUnderway
  <2>2. CASE trailTodo[r] \in AfterRecord(s, st)
    <3>1. \/ Head(trailTodo[r]) = Tr!AppendOf(Tr!IdentityIndex, s)
          \/ Head(trailTodo[r]) = Tr!AppendOf(Tr!StatusIndex(st), s)
          \/ \E type \in {"registered", "changed"} :
               \/ Head(trailTodo[r]) = Tr!AppendOf(Tr!IdentitySync, Tr!Event(type, s, st))
               \/ Head(trailTodo[r]) = Tr!AppendOf(Tr!SurfaceSync(s), Tr!Event(type, s, st))
      BY <2>2, TrailRestPuts
    <3>2. Head(trailTodo[r]).put \in Tr!Lists
      BY <3>1, TrailKeys, TrailPutFields
    <3>3. QED
      BY <1>1, <3>2, TrailKeys
  <2>3. QED
    BY <2>1, <2>2
<1>4. trailTodo[r] \in WholeRequest(s, st)
  BY <1>3 DEF WholeRequest
<1>5. PICK rest : rest = Tail(trailTodo[r])
  OBVIOUS
<1>6. /\ Head(trailTodo[r]) = Tr!PutOf(s, st) /\ rest \in AfterRecord(s, st)
      /\ \E i \in DOMAIN rest : rest[i] = Tr!AppendOf(Tr!StatusIndex(st), s)
      /\ \E type \in {"registered", "changed"} : \E i \in DOMAIN rest :
           rest[i] = Tr!AppendOf(Tr!SurfaceSync(s), Tr!Event(type, s, st))
  BY <1>4, <1>5, TrailWholePuts
<1>7. trailRecord' = [trailRecord EXCEPT ![s] = st]
  <2>1. Head(trailTodo[r]).surface = s /\ Head(trailTodo[r]).status = st
    BY <1>6, TrailPutFields
  <2>2. QED
    BY <1>1, <2>1
<1>8. st # Absent
  BY DEF TrailTerms
<1>9. /\ trailRecord'[s] = st
      /\ \A z \in SurfaceIds \ {s} : trailRecord'[z] = trailRecord[z]
      /\ \A z \in SurfaceIds : trailRecord[z] # Absent => trailRecord'[z] # Absent
  BY <1>2, <1>7, <1>8
<1>10. trailTodo'[r] = rest /\ \A q \in Requests \ {r} : trailTodo'[q] = trailTodo[q]
  BY <1>1, <1>2, <1>5
<1>11. Tr!Orderly' = Tr!Orderly
  BY <1>1 DEF Tr!Orderly
<1>12. trailCopy[r] = None
  BY <1>1, TrailKeys DEF TrailInv, CopiesSound
<1>13. TrailShaped'
  <2>1. rest \in Seq(TrailPuts)
    BY <1>1, <1>2, <1>5
  <2>2. trailTodo' \in [Requests -> Seq(TrailPuts)]
    BY <1>1, <1>2, <1>5, <2>1
  <2>3. trailRecord' \in [SurfaceIds -> Statuses \union {Absent}]
    BY <1>2, <1>7
  <2>4. QED
    BY <1>1, <2>2, <2>3 DEF TrailInv, TrailShaped
<1>14. ASSUME Tr!Orderly, NEW q \in Requests, q # r PROVE trailTodo[q] = <<>>
  BY <1>1, <1>14 DEF TrailInv, TrailSingle
<1>15. TrailUnderway'
  <2>1. SUFFICES ASSUME NEW q \in Requests, trailTodo'[q] # <<>>
                 PROVE  \E z \in SurfaceIds, x \in Statuses :
                          \/ trailTodo'[q] = Tr!RegisterPuts(z, x)
                          \/ trailTodo'[q] = Tr!StatusPuts(z, x) /\ trailRecord'[z] # Absent
                          \/ /\ trailTodo'[q] \in AfterRecord(z, x)
                             /\ trailRecord'[z] # Absent
                             /\ Tr!Orderly' => trailRecord'[z] = x
    BY DEF TrailUnderway
  <2>2. CASE q = r
    BY <1>6, <1>8, <1>9, <1>10, <2>2
  <2>3. CASE q # r
    <3>1. PICK z \in SurfaceIds, x \in Statuses :
            \/ trailTodo[q] = Tr!RegisterPuts(z, x)
            \/ trailTodo[q] = Tr!StatusPuts(z, x) /\ trailRecord[z] # Absent
            \/ trailTodo[q] \in AfterRecord(z, x) /\ trailRecord[z] # Absent
      BY <1>10, <2>1, <2>3 DEF TrailInv, TrailUnderway
    <3>2. ~Tr!Orderly'
      BY <1>10, <1>11, <1>14, <2>1, <2>3
    <3>3. QED
      BY <1>9, <1>10, <2>3, <3>1, <3>2
  <2>4. QED
    BY <2>2, <2>3
<1>16. CopiesSound'
  <2>1. SUFFICES ASSUME NEW q \in Requests, trailCopy'[q] # None
                 PROVE  /\ trailTodo'[q] # <<>> /\ Head(trailTodo'[q]).put \in Tr!Lists
                        /\ ListSound(trailRecord', Head(trailTodo'[q]).put, trailCopy'[q])
    BY DEF CopiesSound
  <2>2. q # r
    BY <1>1, <1>12, <2>1
  <2>3. /\ trailTodo[q] # <<>> /\ Head(trailTodo[q]).put \in Tr!Lists
        /\ ListSound(trailRecord, Head(trailTodo[q]).put, trailCopy[q])
    BY <1>1, <2>1 DEF TrailInv, CopiesSound
  <2>4. ListSound(trailRecord', Head(trailTodo[q]).put, trailCopy[q])
    BY <1>9, <2>3, TrailSoundStays
  <2>5. QED
    BY <1>1, <1>10, <2>2, <2>3, <2>4
<1>17. ListsSound'
  <2>1. SUFFICES ASSUME NEW k \in Tr!Lists PROVE ListSound(trailRecord', k, trailList[k])
    BY <1>1 DEF ListsSound
  <2>2. ListSound(trailRecord, k, trailList[k])
    BY DEF TrailInv, ListsSound
  <2>3. QED
    BY <1>9, <2>2, TrailSoundStays
<1>18. TrailSingle'
  BY <1>1, <1>10, <1>11, <1>12 DEF TrailInv, TrailSingle
<1>19. AppendsDue'
  <2>1. SUFFICES ASSUME Tr!Orderly, NEW z \in SurfaceIds, trailRecord'[z] # Absent
                 PROVE  /\ \A k \in {Tr!IdentityIndex, Tr!StatusIndex(trailRecord'[z])} :
                             Reached(trailList[k], z) \/ AppendDue(trailTodo', k, z)
                        /\ \/ Tells(trailList[Tr!SurfaceSync(z)], trailRecord'[z])
                           \/ \E type \in {"registered", "changed"} :
                                AppendDue(trailTodo', Tr!SurfaceSync(z), Tr!Event(type, z, trailRecord'[z]))
    BY <1>1, <1>11 DEF AppendsDue
  <2>2. ASSUME NEW k, NEW item, k \in Tr!Lists, AppendDue(trailTodo, k, item)
        PROVE AppendDue(trailTodo', k, item)
    <3>1. Head(trailTodo[r]) # Tr!AppendOf(k, item)
      BY <1>1, <2>2, TrailPutFields, TrailKeys
    <3>2. QED
      BY <1>1, <1>2, <2>2, <3>1, TrailDueStays
  <2>3. Tr!IdentityIndex \in Tr!Lists /\ Tr!SurfaceSync(z) \in Tr!Lists
        /\ \A x \in Statuses : Tr!StatusIndex(x) \in Tr!Lists
    BY TrailKeys
  <2>4. CASE z # s
    <3>1. trailRecord'[z] = trailRecord[z]
      BY <1>9, <2>4
    <3>2. trailRecord[z] \in Statuses
      BY <1>2, <2>1, <3>1
    <3>3. /\ \A k \in {Tr!IdentityIndex, Tr!StatusIndex(trailRecord[z])} :
               Reached(trailList[k], z) \/ AppendDue(trailTodo, k, z)
          /\ \/ Tells(trailList[Tr!SurfaceSync(z)], trailRecord[z])
             \/ \E type \in {"registered", "changed"} :
                  AppendDue(trailTodo, Tr!SurfaceSync(z), Tr!Event(type, z, trailRecord[z]))
      BY <2>1, <3>1 DEF TrailInv, AppendsDue
    <3>4. QED
      BY <2>2, <2>3, <3>1, <3>2, <3>3
  <2>5. CASE z = s
    <3>1. AppendDue(trailTodo', Tr!StatusIndex(st), s)
      BY <1>6, <1>10 DEF AppendDue
    <3>2. \E type \in {"registered", "changed"} : AppendDue(trailTodo', Tr!SurfaceSync(s), Tr!Event(type, s, st))
      BY <1>6, <1>10 DEF AppendDue
    <3>3. Reached(trailList[Tr!IdentityIndex], s) \/ AppendDue(trailTodo', Tr!IdentityIndex, s)
      <4>1. CASE trailTodo[r] = Tr!RegisterPuts(s, st)
        <5>1. \E i \in DOMAIN rest : rest[i] = Tr!AppendOf(Tr!IdentityIndex, s)
          BY <1>5, <4>1, TrailRegisteredPuts
        <5>2. QED
          BY <1>10, <5>1 DEF AppendDue
      <4>2. CASE trailRecord[s] # Absent
        <5>1. Reached(trailList[Tr!IdentityIndex], s) \/ AppendDue(trailTodo, Tr!IdentityIndex, s)
          BY <2>1, <4>2 DEF TrailInv, AppendsDue
        <5>2. QED
          BY <2>2, <2>3, <5>1
      <4>3. QED
        BY <1>3, <4>1, <4>2
    <3>4. QED
      BY <1>9, <2>5, <3>1, <3>2, <3>3
  <2>6. QED
    BY <2>4, <2>5
<1>20. QED
  BY <1>13, <1>15, <1>16, <1>17, <1>18, <1>19 DEF TrailInv

(* A list is put back with one item more.                                  *)
LEMMA TrailPutListKeeps ==
  ASSUME TrailTerms, TrailInv, NEW r \in Requests, Tr!PutList(r)
  PROVE  TrailInv'
<1>1. /\ trailCopy[r] # None
      /\ trailList' = [trailList EXCEPT ![Head(trailTodo[r]).put] =
                    Tr!Appended(Head(trailTodo[r]).put, trailCopy[r], Head(trailTodo[r]).item)]
      /\ trailTodo' = [trailTodo EXCEPT ![r] = Tail(@)]
      /\ trailCopy' = [trailCopy EXCEPT ![r] = None]
      /\ trailRecord' = trailRecord /\ trailPosts' = trailPosts
      /\ trailCrashes' = trailCrashes /\ trailOverlap' = trailOverlap
  BY DEF Tr!PutList
<1>2. /\ trailTodo \in [Requests -> Seq(TrailPuts)]
      /\ trailList \in [Tr!Lists -> Seq(SurfaceIds) \union Seq(TrailEvents)]
      /\ trailCopy = [q \in Requests |-> trailCopy[q]]
      /\ trailRecord \in [SurfaceIds -> Statuses \union {Absent}]
  BY DEF TrailInv, TrailShaped
<1>3. PICK key, item : key = Head(trailTodo[r]).put /\ item = Head(trailTodo[r]).item
  OBVIOUS
<1>4. /\ trailTodo[r] # <<>> /\ key \in Tr!Lists /\ ListSound(trailRecord, key, trailCopy[r])
  BY <1>1, <1>3 DEF TrailInv, CopiesSound
<1>5. PICK s \in SurfaceIds, st \in Statuses :
        trailTodo[r] \in AfterRecord(s, st) /\ trailRecord[s] # Absent /\ (Tr!Orderly => trailRecord[s] = st)
  <2>1. PICK s \in SurfaceIds, st \in Statuses :
          \/ trailTodo[r] = Tr!RegisterPuts(s, st) \/ trailTodo[r] = Tr!StatusPuts(s, st)
          \/ trailTodo[r] \in AfterRecord(s, st) /\ trailRecord[s] # Absent /\ (Tr!Orderly => trailRecord[s] = st)
    BY <1>4 DEF TrailInv, TrailUnderway
  <2>2. CASE trailTodo[r] = Tr!RegisterPuts(s, st) \/ trailTodo[r] = Tr!StatusPuts(s, st)
    <3>1. Head(trailTodo[r]) = Tr!PutOf(s, st)
      BY <2>2, TrailWholePuts DEF WholeRequest
    <3>2. QED
      BY <1>3, <1>4, <3>1, TrailPutFields, TrailKeys
  <2>3. QED
    BY <2>1, <2>2
<1>6. PICK rest : rest = Tail(trailTodo[r])
  OBVIOUS
<1>7. /\ rest = <<>> \/ rest \in AfterRecord(s, st)
      /\ \/ Head(trailTodo[r]) = Tr!AppendOf(Tr!IdentityIndex, s)
         \/ Head(trailTodo[r]) = Tr!AppendOf(Tr!StatusIndex(st), s)
         \/ \E type \in {"registered", "changed"} :
              \/ Head(trailTodo[r]) = Tr!AppendOf(Tr!IdentitySync, Tr!Event(type, s, st))
              \/ Head(trailTodo[r]) = Tr!AppendOf(Tr!SurfaceSync(s), Tr!Event(type, s, st))
  BY <1>5, <1>6, TrailRestPuts
<1>8. /\ Head(trailTodo[r]) = Tr!AppendOf(key, item)
      /\ \/ key \in {Tr!IdentityIndex, Tr!StatusIndex(st)} /\ item = s
         \/ /\ key \in {Tr!IdentitySync, Tr!SurfaceSync(s)}
            /\ \E type \in {"registered", "changed"} : item = Tr!Event(type, s, st)
  BY <1>3, <1>7, TrailPutFields
<1>9. \/ key \in Tr!Indexes /\ item = s
      \/ /\ key \in Tr!Lists \ Tr!Indexes /\ item \in TrailEvents /\ item.status = st
         /\ key = Tr!IdentitySync \/ key = Tr!SurfaceSync(s)
  BY <1>8, TrailKeys, TrailEventsMade, TrailPutFields
<1>10. PICK new : new = Tr!Appended(key, trailCopy[r], item)
  OBVIOUS
<1>11. /\ trailList'[key] = new /\ \A k \in Tr!Lists \ {key} : trailList'[k] = trailList[k]
  BY <1>1, <1>2, <1>3, <1>4, <1>10
<1>12. /\ trailTodo'[r] = rest /\ trailCopy'[r] = None
       /\ \A q \in Requests \ {r} : trailTodo'[q] = trailTodo[q] /\ trailCopy'[q] = trailCopy[q]
  BY <1>1, <1>2, <1>6
<1>13. ListSound(trailRecord, key, new) /\ new \in Seq(SurfaceIds) \union Seq(TrailEvents)
  <2>1. CASE key \in Tr!Indexes /\ item = s
    <3>1. /\ Len(new) <= MAX_INDEX_ITEMS /\ new \in Seq(SurfaceIds) /\ IsInjective(new)
          /\ ToSet(new) \subseteq ToSet(trailCopy[r]) \union {item}
      BY <1>4, <1>10, <2>1, TrailIndexAppended
    <3>2. \A z \in ToSet(trailCopy[r]) : trailRecord[z] # Absent
      BY <1>4, <2>1 DEF ListSound
    <3>3. \A z \in ToSet(new) : trailRecord[z] # Absent
      BY <1>5, <2>1, <3>1, <3>2
    <3>4. QED
      BY <2>1, <3>1, <3>3 DEF ListSound
  <2>2. CASE key \in Tr!Lists \ Tr!Indexes /\ item \in TrailEvents
    <3>1. Len(new) <= MAX_INDEX_ITEMS /\ new \in Seq(TrailEvents)
      BY <1>4, <1>10, <2>2, TrailAppended
    <3>2. QED
      BY <2>2, <3>1 DEF ListSound
  <2>3. QED
    BY <1>9, <2>1, <2>2
<1>14. Tr!Orderly' = Tr!Orderly
  BY <1>1 DEF Tr!Orderly
<1>15. TrailShaped'
  <2>1. rest \in Seq(TrailPuts)
    BY <1>2, <1>4, <1>6
  <2>2. trailTodo' \in [Requests -> Seq(TrailPuts)]
    BY <1>1, <1>2, <1>6, <2>1
  <2>3. trailCopy' = [q \in Requests |-> trailCopy'[q]]
    BY <1>1, <1>2
  <2>4. trailList' \in [Tr!Lists -> Seq(SurfaceIds) \union Seq(TrailEvents)]
    BY <1>1, <1>2, <1>3, <1>10, <1>13
  <2>5. QED
    BY <1>1, <2>2, <2>3, <2>4 DEF TrailInv, TrailShaped
<1>16. TrailUnderway'
  <2>1. SUFFICES ASSUME NEW q \in Requests, trailTodo'[q] # <<>>
                 PROVE  \E z \in SurfaceIds, x \in Statuses :
                          \/ trailTodo'[q] = Tr!RegisterPuts(z, x)
                          \/ trailTodo'[q] = Tr!StatusPuts(z, x) /\ trailRecord'[z] # Absent
                          \/ /\ trailTodo'[q] \in AfterRecord(z, x)
                             /\ trailRecord'[z] # Absent
                             /\ Tr!Orderly' => trailRecord'[z] = x
    BY DEF TrailUnderway
  <2>2. CASE q = r
    BY <1>1, <1>5, <1>7, <1>12, <1>14, <2>1, <2>2
  <2>3. CASE q # r
    BY <1>1, <1>12, <1>14, <2>1, <2>3 DEF TrailInv, TrailUnderway
  <2>4. QED
    BY <2>2, <2>3
<1>17. CopiesSound'
  BY <1>1, <1>12 DEF TrailInv, CopiesSound
<1>18. ListsSound'
  BY <1>1, <1>11, <1>13 DEF TrailInv, ListsSound
<1>19. TrailSingle'
  <2>1. SUFFICES ASSUME Tr!Orderly
                 PROVE  /\ \A q, p \in Requests : trailTodo'[q] # <<>> /\ trailTodo'[p] # <<>> => q = p
                        /\ \A q \in Requests : trailCopy'[q] # None =>
                             trailCopy'[q] = trailList'[Head(trailTodo'[q]).put]
    BY <1>14 DEF TrailSingle
  <2>2. \A q \in Requests \ {r} : trailTodo[q] = <<>> /\ trailCopy[q] = None
    BY <1>4, <2>1 DEF TrailInv, TrailSingle, CopiesSound
  <2>3. QED
    BY <1>12, <2>2
<1>20. AppendsDue'
  <2>1. SUFFICES ASSUME Tr!Orderly, NEW z \in SurfaceIds, trailRecord[z] # Absent
                 PROVE  /\ \A k \in {Tr!IdentityIndex, Tr!StatusIndex(trailRecord[z])} :
                             Reached(trailList'[k], z) \/ AppendDue(trailTodo', k, z)
                        /\ \/ Tells(trailList'[Tr!SurfaceSync(z)], trailRecord[z])
                           \/ \E type \in {"registered", "changed"} :
                                AppendDue(trailTodo', Tr!SurfaceSync(z), Tr!Event(type, z, trailRecord[z]))
    BY <1>1, <1>14 DEF AppendsDue
  <2>2. trailCopy[r] = trailList[key] /\ trailRecord[s] = st
    BY <1>1, <1>3, <1>5, <2>1 DEF TrailInv, TrailSingle
  <2>3. trailRecord[z] \in Statuses
    BY <1>2, <2>1
  <2>4. ASSUME NEW k, NEW thing, AppendDue(trailTodo, k, thing), ~(k = key /\ thing = item)
        PROVE  AppendDue(trailTodo', k, thing)
    <3>1. Head(trailTodo[r]) # Tr!AppendOf(k, thing)
      BY <1>8, <2>4, TrailAppendsAlike
    <3>2. QED
      BY <1>1, <1>2, <1>4, <2>4, <3>1, TrailDueStays
  <2>5. /\ \A k \in {Tr!IdentityIndex, Tr!StatusIndex(trailRecord[z])} :
             Reached(trailList[k], z) \/ AppendDue(trailTodo, k, z)
        /\ \/ Tells(trailList[Tr!SurfaceSync(z)], trailRecord[z])
           \/ \E type \in {"registered", "changed"} :
                AppendDue(trailTodo, Tr!SurfaceSync(z), Tr!Event(type, z, trailRecord[z]))
    BY <2>1 DEF TrailInv, AppendsDue
  <2>6. ASSUME NEW k \in {Tr!IdentityIndex, Tr!StatusIndex(trailRecord[z])}
        PROVE  Reached(trailList'[k], z) \/ AppendDue(trailTodo', k, z)
    <3>1. k \in Tr!Indexes /\ k \in Tr!Lists
      BY <2>3, TrailKeys
    <3>2. CASE k = key
      <4>1. item = s
        BY <1>9, <3>1, <3>2
      <4>2. /\ Reached(new, s)
            /\ \A x \in SurfaceIds : Reached(trailCopy[r], x) => Reached(new, x)
        BY <1>4, <1>10, <3>1, <3>2, <4>1, TrailIndexAppended
      <4>3. CASE Reached(trailList[k], z)
        BY <1>11, <2>2, <3>2, <4>2, <4>3
      <4>4. CASE AppendDue(trailTodo, k, z)
        BY <1>11, <2>4, <3>2, <4>1, <4>2, <4>4
      <4>5. QED
        BY <2>5, <4>3, <4>4
    <3>3. CASE k # key
      BY <1>11, <2>4, <2>5, <3>1, <3>3
    <3>4. QED
      BY <3>2, <3>3
  <2>7. \/ Tells(trailList'[Tr!SurfaceSync(z)], trailRecord[z])
        \/ \E type \in {"registered", "changed"} :
             AppendDue(trailTodo', Tr!SurfaceSync(z), Tr!Event(type, z, trailRecord[z]))
    <3>1. CASE Tr!SurfaceSync(z) = key
      <4>1. key \in Tr!Lists \ Tr!Indexes /\ item \in TrailEvents /\ item.status = st /\ z = s
        BY <1>9, <3>1, TrailKeys
      <4>2. new # <<>> /\ new[1] = item
        BY <1>4, <1>10, <4>1, TrailAppended
      <4>3. QED
        BY <1>11, <2>2, <3>1, <4>1, <4>2 DEF Tells
    <3>2. CASE Tr!SurfaceSync(z) # key
      <4>1. trailList'[Tr!SurfaceSync(z)] = trailList[Tr!SurfaceSync(z)]
        BY <1>11, <3>2, TrailKeys
      <4>2. QED
        BY <2>4, <2>5, <3>2, <4>1
    <3>3. QED
      BY <3>1, <3>2
  <2>8. QED
    BY <2>6, <2>7
<1>21. QED
  BY <1>15, <1>16, <1>17, <1>18, <1>19, <1>20 DEF TrailInv

-----------------------------------------------------------------------------
LEMMA TrailInvNext ==
  TrailTerms /\ TrailInv /\ [Tr!Next]_Tr!trailVars => TrailInv'
<1>1. SUFFICES ASSUME TrailTerms, TrailInv, [Tr!Next]_Tr!trailVars PROVE TrailInv'
  OBVIOUS
<1>2. CASE UNCHANGED Tr!trailVars
  BY <1>1, <1>2 DEF Tr!trailVars, TrailInv, TrailShaped, TrailUnderway, CopiesSound,
         ListsSound, TrailSingle, AppendsDue, Tr!Orderly
<1>3. CASE Tr!Next
  <2>1. PICK r \in Requests :
          \/ Tr!Register(r) \/ Tr!ChangeStatus(r)
          \/ Tr!PutRecord(r) \/ Tr!GetList(r) \/ Tr!PutList(r)
          \/ Tr!Crash(r)
    BY <1>3 DEF Tr!Next
  <2>2. CASE Tr!Register(r)
    BY <1>1, <2>2, TrailPostKeeps DEF Tr!Register
  <2>3. CASE Tr!ChangeStatus(r)
    BY <1>1, <2>3, TrailPostKeeps DEF Tr!ChangeStatus
  <2>4. CASE Tr!PutRecord(r)
    BY <1>1, <2>4, TrailPutRecordKeeps
  <2>5. CASE Tr!GetList(r)
    BY <1>1, <2>5, TrailGetListKeeps
  <2>6. CASE Tr!PutList(r)
    BY <1>1, <2>6, TrailPutListKeeps
  <2>7. CASE Tr!Crash(r)
    BY <1>1, <2>7, TrailCrashKeeps
  <2>8. QED
    BY <2>1, <2>2, <2>3, <2>4, <2>5, <2>6, <2>7
<1>4. QED
  BY <1>1, <1>2, <1>3

LEMMA SpecTrailInv == TrailTerms => (Tr!Spec => []TrailInv)
<1>1. SUFFICES ASSUME TrailTerms PROVE Tr!Spec => []TrailInv
  OBVIOUS
<1>2. Tr!Init => TrailInv
  BY <1>1, TrailInit
<1>3. TrailInv /\ [Tr!Next]_Tr!trailVars => TrailInv'
  BY <1>1, TrailInvNext
<1>4. QED
  BY <1>2, <1>3, PTL DEF Tr!Spec

(* What the lists hold is of its kind and below the cap, whatever overlaps *)
(* and wherever requests are cut off (appendIndex and appendSync of        *)
(* value-surface.js and value-surface-status.js).                          *)
THEOREM TrailTypes == TrailTerms => (Tr!Spec => []Tr!TypeOK)
<1>1. ASSUME TrailInv PROVE Tr!TypeOK
  <2>1. \A k \in Tr!Lists : Len(trailList[k]) <= MAX_INDEX_ITEMS
    BY <1>1 DEF TrailInv, ListsSound, ListSound
  <2>2. ASSUME NEW k \in Tr!Indexes PROVE Tr!Items(k) \subseteq SurfaceIds
    <3>1. trailList[k] \in Seq(SurfaceIds)
      BY <1>1, TrailKeys DEF TrailInv, ListsSound, ListSound
    <3>2. QED
      BY <3>1 DEF Tr!Items
  <2>3. QED
    BY <1>1, <2>1, <2>2 DEF TrailInv, TrailShaped, Tr!TypeOK
<1>2. SUFFICES ASSUME TrailTerms PROVE Tr!Spec => []Tr!TypeOK
  OBVIOUS
<1>3. Tr!Spec => []TrailInv
  BY <1>2, SpecTrailInv
<1>4. QED
  BY <1>1, <1>3, PTL

(* What the views read: an index names no surface twice and none that is   *)
(* not stored, whatever overlaps or is cut off; and when requests came one *)
(* after another and none was cut off, a stored surface is in the indexes  *)
(* of its identity and of its status unless they are full, and the first   *)
(* event of its trail says the status it has.                              *)
THEOREM TrailLists == TrailTerms => (Tr!Spec => []Tr!ListsTrue)
<1>1. ASSUME TrailInv PROVE Tr!ListsTrue
  <2>1. \A k : Tr!Items(k) = ToSet(trailList[k])
    BY DEF Tr!Items, ToSet
  <2>2. Tr!IndexSound
    <3>1. SUFFICES ASSUME NEW k \in Tr!Indexes
                   PROVE  /\ Cardinality(Tr!Items(k)) = Len(trailList[k])
                          /\ \A s \in Tr!Items(k) : trailRecord[s] # Absent
      BY TrailCardinality DEF Tr!IndexSound
    <3>2. /\ trailList[k] \in Seq(SurfaceIds) /\ IsInjective(trailList[k])
          /\ \A s \in ToSet(trailList[k]) : trailRecord[s] # Absent
      BY <1>1, TrailKeys DEF TrailInv, ListsSound, ListSound
    <3>3. Cardinality(ToSet(trailList[k])) = Len(trailList[k])
      BY <3>2, DistinctLength
    <3>4. QED
      BY <2>1, <3>2, <3>3
  <2>3. ASSUME Tr!Quiet, Tr!Orderly, NEW s \in SurfaceIds, trailRecord[s] # Absent
        PROVE  /\ \A k \in {Tr!IdentityIndex, Tr!StatusIndex(trailRecord[s])} :
                    Reached(trailList[k], s)
               /\ Tells(trailList[Tr!SurfaceSync(s)], trailRecord[s])
    <3>1. \A k, item : ~AppendDue(trailTodo, k, item)
      <4>1. DOMAIN <<>> = {}
        OBVIOUS
      <4>2. QED
        BY <2>3, <4>1 DEF AppendDue, Tr!Quiet
    <3>2. QED
      BY <1>1, <2>3, <3>1 DEF TrailInv, AppendsDue
  <2>4. Tr!IndexComplete
    BY <2>1, <2>3 DEF Tr!IndexComplete, Reached
  <2>5. Tr!TrailTellsStatus
    BY <2>3 DEF Tr!TrailTellsStatus, Tells
  <2>6. QED
    BY <2>2, <2>4, <2>5 DEF Tr!ListsTrue
<1>2. SUFFICES ASSUME TrailTerms PROVE Tr!Spec => []Tr!ListsTrue
  OBVIOUS
<1>3. Tr!Spec => []TrailInv
  BY <1>2, SpecTrailInv
<1>4. QED
  BY <1>1, <1>3, PTL
=============================================================================
