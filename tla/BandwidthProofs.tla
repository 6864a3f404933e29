-------------------------- MODULE BandwidthProofs --------------------------
(***************************************************************************)
(* Proofs about Bandwidth: for any users, tasks, reads and configurations, *)
(* what buckets hand out is bounded by their rates, and the rates of a     *)
(* turn fit the link.                                                      *)
(***************************************************************************)
EXTENDS Bandwidth, FiniteSetTheorems, NaturalsInduction, WellFoundedInduction, TLAPS

-----------------------------------------------------------------------------
(* Sums.                                                                   *)

\* A non-empty set of naturals has a least element.
LEMMA LeastNatural ==
  ASSUME NEW T, T \subseteq Nat, T # {} PROVE \E x \in T : \A y \in T : x <= y
<1>1. IsWellFoundedOn(OpToRel(<, Nat), Nat)
  BY NatLessThanWellFounded
<1>2. PICK x \in T : \A y \in T : ~(<<y, x>> \in OpToRel(<, Nat))
  BY <1>1, WFMin
<1>3. \A y \in T : ~(y < x)
  BY <1>2 DEF OpToRel
<1> QED
  BY <1>3

Pick(s) == CHOOSE x \in s : TRUE

\* Adding or removing the picked element: the cardinalities.
LEMMA PickOne ==
  ASSUME NEW S, IsFiniteSet(S), NEW s \in SUBSET S
  PROVE  /\ IsFiniteSet(s) /\ Cardinality(s) \in Nat /\ Cardinality(s) <= Cardinality(S)
         /\ s = {} <=> Cardinality(s) = 0
         /\ s # {} => /\ Pick(s) \in s /\ s \ {Pick(s)} \in SUBSET S
                      /\ Cardinality(s \ {Pick(s)}) = Cardinality(s) - 1
<1>1. IsFiniteSet(s) /\ Cardinality(s) <= Cardinality(S)
  BY FS_Subset
<1>2. Cardinality(s) \in Nat /\ (s = {} <=> Cardinality(s) = 0)
  BY <1>1, FS_CardinalityType, FS_EmptySet
<1>3. s # {} => Pick(s) \in s
  BY Zenon DEF Pick
<1>4. s # {} => Cardinality(s \ {Pick(s)}) = Cardinality(s) - 1
  BY <1>1, <1>3, FS_RemoveElement
<1> QED
  BY <1>1, <1>2, <1>3, <1>4

\* A set of subsets that has the empty one, and any other once it has that one
\* without its picked element, has all of them: take a least one it lacks.
LEMMA SubsetInduction ==
  ASSUME NEW S, IsFiniteSet(S), NEW G, {} \in G,
         \A s \in SUBSET S : s # {} /\ s \ {Pick(s)} \in G => s \in G
  PROVE  \A s \in SUBSET S : s \in G
<1> DEFINE Bad == {n \in Nat : \E s \in SUBSET S : s \notin G /\ Cardinality(s) = n}
<1> SUFFICES ASSUME NEW s0 \in SUBSET S, s0 \notin G PROVE FALSE
  OBVIOUS
<1>1. Bad # {} /\ Bad \subseteq Nat
  <2>1. Cardinality(s0) \in Bad
    BY PickOne
  <2> QED
    BY <2>1
<1>2. PICK n \in Bad : \A m \in Bad : n <= m
  BY <1>1, LeastNatural
<1>3. PICK s \in SUBSET S : s \notin G /\ Cardinality(s) = n
  BY <1>2
<1>4. s # {}
  BY <1>3
<1>5. s \ {Pick(s)} \in SUBSET S /\ Cardinality(s \ {Pick(s)}) = n - 1 /\ n \in Nat /\ n # 0
  BY <1>3, <1>4, PickOne
<1>6. s \ {Pick(s)} \in G
  <2> SUFFICES ASSUME s \ {Pick(s)} \notin G PROVE FALSE
    OBVIOUS
  <2>1. n - 1 \in Bad
    BY <1>5
  <2> QED
    BY <1>2, <1>5, <2>1
<1> QED
  BY <1>3, <1>4, <1>6

\* The sums of a function over the subsets of its domain, each from the one
\* without its picked element.
Sums(f, S, it) ==
  /\ it \in [SUBSET S -> Nat] /\ it[{}] = 0
  /\ \A s \in SUBSET S : s # {} => it[s] = f[Pick(s)] + it[s \ {Pick(s)}]

\* SumFunction is the last of these sums.  Its recursive function exists up to every
\* cardinality: a least one where it does not could be reached from the one before.
LEMMA SumUnfolds ==
  ASSUME NEW S, IsFiniteSet(S), NEW f \in [S -> Nat]
  PROVE  \E it : Sums(f, S, it) /\ SumFunction(f) = it[S]
<1> DEFINE Upto(n) == {s \in SUBSET S : Cardinality(s) <= n}
           Unfold(it, s) == IF s = {} THEN 0 ELSE f[Pick(s)] + it[s \ {Pick(s)}]
           Good(it, n) == it \in [Upto(n) -> Nat] /\ \A s \in Upto(n) : it[s] = Unfold(it, s)
           Bad == {n \in Nat : ~\E it : Good(it, n)}
<1>1. Bad = {}
  <2> SUFFICES ASSUME Bad # {} PROVE FALSE
    OBVIOUS
  <2>1. PICK n \in Bad : \A m \in Bad : n <= m
    BY LeastNatural
  <2>2. n # 0
    <3> DEFINE z == [s \in Upto(0) |-> 0]
    <3>1. \A s \in Upto(0) : s = {}
      <4>1. ASSUME NEW s \in SUBSET S, Cardinality(s) <= 0 PROVE s = {}
        <5>1. Cardinality(s) \in Nat /\ (s = {} <=> Cardinality(s) = 0)
          BY PickOne
        <5> QED
          BY <4>1, <5>1
      <4> QED
        BY <4>1
    <3>2. Good(z, 0)
      BY <3>1
    <3> HIDE DEF Good
    <3>3. 0 \notin Bad
      BY <3>2
    <3> QED
      BY <3>3, <2>1
  <2>3. n \in Nat /\ n - 1 \in Nat /\ ~(n - 1 \in Bad)
    <3>1. n \in Nat /\ n - 1 \in Nat /\ ~(n <= n - 1)
      BY <2>1, <2>2
    <3> HIDE DEF Bad
    <3> QED
      BY <2>1, <3>1
  <2>4. PICK h : Good(h, n - 1)
    BY <2>3
  <2> DEFINE g == [s \in Upto(n) |-> Unfold(h, s)]
  <2>5. ASSUME NEW s \in Upto(n), s # {}
        PROVE  /\ s \ {Pick(s)} \in Upto(n - 1) /\ s \ {Pick(s)} \in Upto(n)
               /\ h[s \ {Pick(s)}] \in Nat /\ f[Pick(s)] \in Nat
    <3>1. s \ {Pick(s)} \in SUBSET S /\ Cardinality(s \ {Pick(s)}) = Cardinality(s) - 1
      BY <2>5, PickOne
    <3>2. Cardinality(s) \in Nat /\ Cardinality(s) <= n /\ Pick(s) \in S
      BY <2>5, PickOne
    <3>3. s \ {Pick(s)} \in Upto(n - 1) /\ s \ {Pick(s)} \in Upto(n)
      BY <3>1, <3>2, <2>3
    <3> QED
      BY <3>2, <3>3, <2>4
  <2>6. g \in [Upto(n) -> Nat]
    BY <2>5
  <2>7. ASSUME NEW s \in Upto(n - 1) PROVE s \in Upto(n) /\ g[s] = h[s]
    <3>1. Cardinality(s) \in Nat /\ Cardinality(s) <= n - 1 /\ s \in SUBSET S
      BY PickOne
    <3>2. s \in Upto(n)
      BY <3>1, <2>3
    <3> QED
      BY <3>2, <2>4
  <2>8. ASSUME NEW s \in Upto(n) PROVE g[s] = Unfold(g, s)
    <3>1. s # {} => g[s \ {Pick(s)}] = h[s \ {Pick(s)}]
      BY <2>5, <2>7
    <3> QED
      BY <3>1
  <2> QED
    BY <2>1, <2>6, <2>8
<1> DEFINE Card == Cardinality(S)
<1>2. Upto(Card) = SUBSET S
  BY PickOne
<1>3. PICK it : Good(it, Card)
  <2>1. Card \in Nat
    BY FS_CardinalityType
  <2> QED
    BY <1>1, <2>1
<1> DEFINE Rec(i) == i = [s \in SUBSET S |-> Unfold(i, s)]
           sum == CHOOSE i : Rec(i)
<1>4. SumFunction(f) = sum[S]
  BY DEF SumFunction, SumFunctionOnSet, FoldFunctionOnSet, MapThenFoldSet, Pick
<1>5. Rec(it)
  BY <1>2, <1>3
<1>6. Rec(sum)
  BY <1>5, Zenon
<1> HIDE DEF sum
<1>7. \A s \in SUBSET S : sum[s] = Unfold(sum, s)
  BY <1>6
<1>8. \A s \in SUBSET S : s \in {u \in SUBSET S : sum[u] \in Nat}
  <2>1. sum[{}] = 0
    BY <1>7
  <2>2. ASSUME NEW s \in SUBSET S, s # {}, sum[s \ {Pick(s)}] \in Nat PROVE sum[s] \in Nat
    <3>1. sum[s] = f[Pick(s)] + sum[s \ {Pick(s)}]
      BY <1>7, <2>2
    <3>2. f[Pick(s)] \in Nat
      BY <2>2, PickOne
    <3> QED
      BY <3>1, <3>2, <2>2
  <2> DEFINE G == {u \in SUBSET S : sum[u] \in Nat}
  <2>3. {} \in G
    BY <2>1
  <2>4. \A s \in SUBSET S : s # {} /\ s \ {Pick(s)} \in G => s \in G
    BY <2>2
  <2> HIDE DEF G
  <2>5. \A s \in SUBSET S : s \in G
    BY <2>3, <2>4, SubsetInduction
  <2> QED
    BY <2>5 DEF G
<1>9. Sums(f, S, sum)
  <2>1. sum \in [SUBSET S -> Nat]
    BY <1>6, <1>8
  <2>2. sum[{}] = 0
    BY <1>7
  <2>3. \A s \in SUBSET S : s # {} => sum[s] = f[Pick(s)] + sum[s \ {Pick(s)}]
    BY <1>7
  <2> QED
    BY <2>1, <2>2, <2>3 DEF Sums
<1> QED
  BY <1>4, <1>9

\* A sum of naturals is one.
LEMMA SumType ==
  ASSUME NEW S, IsFiniteSet(S), NEW f \in [S -> Nat] PROVE SumFunction(f) \in Nat
<1>1. PICK it : Sums(f, S, it) /\ SumFunction(f) = it[S]
  BY SumUnfolds
<1>2. S \in SUBSET S /\ it \in [SUBSET S -> Nat]
  BY <1>1 DEF Sums
<1> QED
  BY <1>1, <1>2

\* Sums are bounded as their summands are.
LEMMA SumBound ==
  ASSUME NEW S, IsFiniteSet(S), NEW f \in [S -> Nat], NEW d \in [S -> Nat],
         NEW A \in Nat, NEW K \in Nat, NEW M \in Nat,
         \A x \in S : A * f[x] <= K + M * d[x]
  PROVE  /\ SumFunction(f) \in Nat /\ SumFunction(d) \in Nat
         /\ A * SumFunction(f) <= K * Cardinality(S) + M * SumFunction(d)
<1>1. PICK F : Sums(f, S, F) /\ SumFunction(f) = F[S]
  BY SumUnfolds
<1>2. PICK D : Sums(d, S, D) /\ SumFunction(d) = D[S]
  BY SumUnfolds
<1> DEFINE G == {s \in SUBSET S : A * F[s] <= K * Cardinality(s) + M * D[s]}
<1>3. {} \in G
  <2>1. F[{}] = 0 /\ D[{}] = 0 /\ Cardinality({}) = 0
    BY <1>1, <1>2, FS_EmptySet DEF Sums
  <2> QED
    BY <2>1
<1>4. ASSUME NEW s \in SUBSET S, s # {}, s \ {Pick(s)} \in G PROVE s \in G
  <2> DEFINE x == Pick(s)
             r == s \ {x}
  <2>1. r \in SUBSET S /\ Cardinality(r) = Cardinality(s) - 1 /\ Cardinality(s) \in Nat /\ x \in S
    BY <1>4, PickOne
  <2>2. F[s] = f[x] + F[r] /\ D[s] = d[x] + D[r]
    BY <1>1, <1>2, <1>4 DEF Sums
  <2>3. F[r] \in Nat /\ D[r] \in Nat /\ f[x] \in Nat /\ d[x] \in Nat
    BY <1>1, <1>2, <2>1 DEF Sums
  <2>4. A * F[r] <= K * Cardinality(r) + M * D[r] /\ A * f[x] <= K + M * d[x]
    BY <1>4, <2>1
  <2> HIDE DEF x, r
  <2>5. A * F[s] = A * f[x] + A * F[r] /\ M * D[s] = M * d[x] + M * D[r]
    BY <2>2, <2>3
  <2>6. K * Cardinality(s) = K + K * Cardinality(r)
    <3>1. \A k, m \in Nat : m = k - 1 /\ k \in Nat => K * k = K + K * m
      OBVIOUS
    <3>2. Cardinality(r) \in Nat
      BY <2>1, PickOne
    <3> QED
      BY <2>1, <3>1, <3>2
  <2>7. A * F[s] <= K * Cardinality(s) + M * D[s]
    <3>1. /\ A * f[x] \in Nat /\ A * F[r] \in Nat /\ M * d[x] \in Nat /\ M * D[r] \in Nat
      BY <2>3
    <3>2. Cardinality(r) \in Nat
      BY <2>1, PickOne
    <3>3. K * Cardinality(r) \in Nat
      BY <3>2
    <3> QED
      BY <2>4, <2>5, <2>6, <3>1, <3>3
  <2> QED
    BY <2>7
<1> HIDE DEF G
<1>5. S \in G
  BY <1>3, <1>4, SubsetInduction
<1>6. F[S] \in Nat /\ D[S] \in Nat
  BY <1>1, <1>2 DEF Sums
<1> QED
  BY <1>1, <1>2, <1>5, <1>6 DEF G
-----------------------------------------------------------------------------
(* The inductive invariant.                                                *)

\* The rates are those the configuration names; see RatesRespected.
Fits == config.max >= config.guaranteed
Rated(b) == b[1] = "maximum" => Fits

\* The variables are of their types; a bucket is never fuller than a burst, and a
\* task is at the global bucket or at one of its own user's.
Records ==
  [pc : {"idle", "refill", "add", "take"}, at : Buckets, amount : Nat, add : Nat]
Types ==
  /\ config \in Configs
  /\ bucket \in [Buckets -> [tokens : 0..config.burst, since : Nat, locked : BOOLEAN]]
  /\ rate \in [Users -> Nat] /\ stale \in [Users -> Nat]
  /\ task \in [Tasks -> Records]
  /\ \A t \in Tasks : task[t].at \in {Global, Guaranteed(UserOf[t]), Maximum(UserOf[t])}
  /\ ideal \in [Users \union {Nobody} -> Int]

\* The tasks inside the critical section of bucket b: none, or one that locked it.
Adders(b) == {t \in Tasks : task[t].pc = "add" /\ task[t].at = b}
LockInv ==
  /\ \A b \in Buckets : bucket[b].locked <=> Adders(b) # {}
  /\ \A b \in Buckets : \A t, v \in Adders(b) : t = v

\* The rates of a turn: the demands they come from are still there, and no rate of
\* a user is above the maximum.
TurnInv ==
  /\ rebalancer = "applying" => DOMAIN shares \subseteq DOMAIN demands
  /\ rebalancer # "applying" => shares = None
  /\ DOMAIN shares \subseteq Users /\ \A u \in DOMAIN shares : shares[u] \in Nat
  /\ Fits => /\ \A u \in Users : rate[u] <= config.max /\ stale[u] <= config.max
             /\ \A u \in DOMAIN shares : shares[u] <= config.max

\* What the refill under way at bucket b is going to add.
Promised(b) == IF bucket[b].locked THEN {task[t].add : t \in Adders(b)} ELSE {0}

\* k tokens, p promised ones and s ticks at rate r, in a bucket of capacity c: what
\* can be had from it at once, in tokens * Second.  A promise and the credit of the
\* elapsed time are worth a burst at most, for they are capped when they are added.
Value(k, p, s, r, c) == k * Second + Least(p * Second, c * Second) + Least(s * r, c * Second)

Nominal(b) ==
  CASE b[1] = "global" -> config.global
    [] b[1] = "guaranteed" -> config.guaranteed
    [] b[1] = "maximum" -> config.max
Worth(b, p) == Value(bucket[b].tokens, p, bucket[b].since, Nominal(b), config.burst)

\* No bucket is worth more than its ideal bucket holds and two bursts: the ideal
\* bucket gets with every tick what the elapsed time is worth, and loses it by its
\* own cap only when it is full, while a bucket is worth three bursts at most.
WorthInv ==
  /\ \A p \in Promised(Global) : ideal[Nobody] + 2 * config.burst * Second >= Worth(Global, p)
  /\ Fits =>
       \A u \in Users : \A p \in Promised(Guaranteed(u)), q \in Promised(Maximum(u)) :
         ideal[u] + 4 * config.burst * Second >= Worth(Guaranteed(u), p) + Worth(Maximum(u), q)

BandwidthInv == Types /\ LockInv /\ TurnInv /\ SharesFit /\ WorthInv

-----------------------------------------------------------------------------
(* What a bucket is worth.                                                 *)

\* The lesser of two naturals.
LEMMA LeastOf ==
  ASSUME NEW a \in Nat, NEW b \in Nat
  PROVE  Least(a, b) \in Nat /\ Least(a, b) <= a /\ Least(a, b) <= b /\ Least(a, b) \in {a, b}
BY DEF Least

\* Products of naturals are naturals and grow with their factors.
LEMMA Products ==
  ASSUME NEW a \in Nat, NEW b \in Nat, NEW c \in Nat
  PROVE  a * b \in Nat /\ (a <= b => a * c <= b * c /\ c * a <= c * b)
<1>1. a * b \in Nat
  OBVIOUS
<1>2. ASSUME a <= b PROVE a * c <= b * c /\ c * a <= c * b
  <2>1. PICK k \in Nat : b = a + k
    <3>1. b - a \in Nat /\ b = a + (b - a)
      BY <1>2
    <3> QED
      BY <3>1
  <2>2. b * c = a * c + k * c /\ c * b = c * a + c * k
    BY <2>1
  <2>3. k * c \in Nat /\ c * k \in Nat /\ a * c \in Nat /\ c * a \in Nat
    OBVIOUS
  <2> QED
    BY <2>2, <2>3
<1> QED
  BY <1>1, <1>2

\* A truncated quotient, multiplied again, does not grow.
LEMMA Truncated ==
  ASSUME NEW x \in Nat, NEW n \in Nat \ {0}
  PROVE  x \div n \in Nat /\ (x \div n) * n <= x
<1>1. n > 0
  OBVIOUS
<1>2. x \div n \in Nat
  BY <1>1
<1>3. (x \div n) * n <= x
  BY <1>1
<1> QED
  BY <1>2, <1>3

\* A value is a natural, and three bursts at most.
LEMMA ValueRange ==
  ASSUME NEW c \in Nat, NEW k \in 0..c, NEW p \in Nat, NEW s \in Nat, NEW r \in Nat
  PROVE  Value(k, p, s, r, c) \in Nat /\ Value(k, p, s, r, c) <= 3 * (c * Second)
<1> DEFINE B == c * Second
<1>1. Second \in Nat /\ B \in Nat /\ k * Second \in Nat /\ p * Second \in Nat /\ s * r \in Nat
  BY BandwidthConstants, Products
<1>2. k * Second <= B
  BY BandwidthConstants, Products
<1> HIDE DEF B
<1>3. /\ Least(p * Second, B) \in Nat /\ Least(p * Second, B) <= B
      /\ Least(s * r, B) \in Nat /\ Least(s * r, B) <= B
  BY <1>1, LeastOf
<1> QED
  BY <1>1, <1>2, <1>3 DEF Value, B

\* A refill that begins promises no more than the time was worth.
LEMMA ValueBegin ==
  ASSUME NEW c \in Nat, NEW k \in 0..c, NEW s \in Nat, NEW r \in Nat, NEW R \in Nat, r <= R
  PROVE  Value(k, (s * r) \div Second, 0, R, c) <= Value(k, 0, s, R, c)
<1> DEFINE B == c * Second
           q == (s * r) \div Second
<1>1. Second \in Nat \ {0} /\ B \in Nat /\ k * Second \in Nat
  BY BandwidthConstants, Products
<1>2. s * r \in Nat /\ s * R \in Nat /\ s * r <= s * R
  BY Products
<1>3. q \in Nat /\ q * Second \in Nat /\ q * Second <= s * r
  BY <1>1, <1>2, Truncated, Products
<1>4. 0 * Second = 0 /\ 0 * R = 0
  BY <1>1
<1> HIDE DEF B, q
<1>5. Least(q * Second, B) <= Least(s * R, B) /\ Least(0, B) = 0
  BY <1>1, <1>2, <1>3 DEF Least
<1>6. Least(q * Second, B) \in Nat /\ Least(s * R, B) \in Nat
  BY <1>1, <1>2, <1>3, LeastOf
<1>7. /\ Value(k, q, 0, R, c) = k * Second + Least(q * Second, B) + 0
      /\ Value(k, 0, s, R, c) = k * Second + 0 + Least(s * R, B)
  BY <1>4, <1>5 DEF Value, B
<1> QED
  BY <1>1, <1>5, <1>6, <1>7 DEF q

\* A refill that ends adds no more than it promised.
LEMMA ValueEnd ==
  ASSUME NEW c \in Nat, NEW k \in 0..c, NEW p \in Nat, NEW s \in Nat, NEW R \in Nat
  PROVE  /\ Least(k + p, c) \in 0..c
         /\ Value(Least(k + p, c), 0, s, R, c) <= Value(k, p, s, R, c)
<1> DEFINE B == c * Second
           m == Least(k + p, c)
           w == Least(s * R, B)
<1>1. Second \in Nat \ {0} /\ B \in Nat /\ k * Second \in Nat /\ p * Second \in Nat
  BY BandwidthConstants, Products
<1>2. m \in 0..c /\ m <= k + p
  BY LeastOf
<1>3. m * Second \in Nat /\ m * Second <= B
  BY <1>1, <1>2, Products
<1>4. m * Second <= k * Second + p * Second
  <2>1. m * Second <= (k + p) * Second
    BY <1>1, <1>2, Products
  <2>2. (k + p) * Second = k * Second + p * Second
    BY <1>1
  <2> QED
    BY <2>1, <2>2
<1>5. w \in Nat /\ 0 * Second = 0
  BY <1>1, LeastOf, Products
<1> HIDE DEF m, w, B
<1>6. m * Second <= k * Second + Least(p * Second, B) /\ Least(p * Second, B) \in Nat
  BY <1>1, <1>3, <1>4 DEF Least
<1>7. Least(0, B) = 0
  BY <1>1 DEF Least
<1>8. /\ Value(m, 0, s, R, c) = m * Second + 0 + w
      /\ Value(k, p, s, R, c) = k * Second + Least(p * Second, B) + w
  BY <1>5, <1>7 DEF Value, B, w
<1>9. Value(m, 0, s, R, c) <= Value(k, p, s, R, c)
  BY <1>1, <1>3, <1>5, <1>6, <1>8
<1> QED
  BY <1>2, <1>9 DEF m

\* A whole refill.
LEMMA ValueRefill ==
  ASSUME NEW c \in Nat, NEW k \in 0..c, NEW s \in Nat, NEW r \in Nat, NEW R \in Nat, r <= R
  PROVE  Value(Least(k + ((s * r) \div Second), c), 0, 0, R, c) <= Value(k, 0, s, R, c)
<1> DEFINE q == (s * r) \div Second
<1>1. q \in Nat
  BY BandwidthConstants, Truncated, Products
<1>2. Value(k, q, 0, R, c) <= Value(k, 0, s, R, c)
  BY ValueBegin
<1> HIDE DEF q
<1>3. Least(k + q, c) \in 0..c /\ Value(Least(k + q, c), 0, 0, R, c) <= Value(k, q, 0, R, c)
  BY <1>1, ValueEnd
<1>4. /\ Value(Least(k + q, c), 0, 0, R, c) \in Nat /\ Value(k, q, 0, R, c) \in Nat
      /\ Value(k, 0, s, R, c) \in Nat
  BY <1>1, <1>3, ValueRange
<1>5. Value(Least(k + q, c), 0, 0, R, c) <= Value(k, 0, s, R, c)
  BY <1>2, <1>3, <1>4
<1> QED
  BY <1>5 DEF q

\* What is taken is what the value loses.
LEMMA ValueTake ==
  ASSUME NEW c \in Nat, NEW k \in 0..c, NEW a \in Nat, a <= k,
         NEW p \in Nat, NEW s \in Nat, NEW R \in Nat
  PROVE  /\ k - a \in 0..c /\ a * Second \in Nat
         /\ Value(k - a, p, s, R, c) = Value(k, p, s, R, c) - a * Second
<1> DEFINE w == Least(p * Second, c * Second)
           v == Least(s * R, c * Second)
<1>1. Second \in Nat /\ k - a \in 0..c
  BY BandwidthConstants
<1>2. w \in Nat /\ v \in Nat
  BY <1>1, Products, LeastOf
<1>3. (k - a) * Second = k * Second - a * Second /\ k * Second \in Nat /\ a * Second \in Nat
  BY <1>1
<1>4. /\ Value(k - a, p, s, R, c) = (k - a) * Second + w + v
      /\ Value(k, p, s, R, c) = k * Second + w + v
  BY DEF Value
<1> HIDE DEF w, v
<1> QED
  BY <1>1, <1>2, <1>3, <1>4

\* A tick is worth the rate at most.
LEMMA ValueTick ==
  ASSUME NEW c \in Nat, NEW k \in 0..c, NEW p \in Nat, NEW s \in Nat, NEW z \in Nat, z <= s + 1,
         NEW R \in Nat
  PROVE  Value(k, p, z, R, c) <= Value(k, p, s, R, c) + R
<1> DEFINE B == c * Second
           w == Least(p * Second, B)
<1>1. Second \in Nat /\ B \in Nat /\ k * Second \in Nat /\ p * Second \in Nat
  BY BandwidthConstants, Products
<1>2. w \in Nat
  BY <1>1, LeastOf
<1>3. z * R \in Nat /\ s * R \in Nat /\ z * R <= s * R + R
  <2>1. z * R <= (s + 1) * R
    BY Products
  <2>2. (s + 1) * R = s * R + R
    OBVIOUS
  <2> QED
    BY <2>1, <2>2, Products
<1>4. /\ Value(k, p, z, R, c) = k * Second + w + Least(z * R, B)
      /\ Value(k, p, s, R, c) = k * Second + w + Least(s * R, B)
  BY DEF Value
<1> HIDE DEF w, B
<1>5. Least(z * R, B) <= Least(s * R, B) + R /\ Least(z * R, B) \in Nat /\ Least(s * R, B) \in Nat
  BY <1>1, <1>3 DEF Least
<1> QED
  BY <1>1, <1>2, <1>4, <1>5

-----------------------------------------------------------------------------
(* calculate_fair_shares.                                                  *)

\* The settings are naturals.
LEMMA Settings ==
  ASSUME config \in Configs
  PROVE  /\ config.global \in Nat /\ config.guaranteed \in Nat /\ config.max \in Nat
         /\ config.burst \in Nat /\ config.memory \in Nat
BY BandwidthConstants

\* A proportional share is the truncated one or one less, never negative, and its
\* multiple is no more than the demand's part of the link.
LEMMA ProportionalShare ==
  ASSUME NEW x \in Nat, NEW total \in Nat \ {0}, NEW rem \in Nat,
         NEW s \in Proportional(x, total, rem)
  PROVE  /\ s \in Nat /\ total * s <= rem * x
         /\ s <= (x * rem) \div total /\ (x * rem) \div total <= s + 1
<1> DEFINE e == (x * rem) \div total
<1>1. x * rem \in Nat /\ x * rem = rem * x
  OBVIOUS
<1>2. e \in Nat /\ e * total <= x * rem
  BY <1>1, Truncated
<1>3. s \in {e, e - 1} /\ (s = e - 1 => e > 0 \/ s = e)
  BY DEF Proportional
<1> HIDE DEF e
<1>4. s \in Nat /\ s <= e /\ e <= s + 1
  BY <1>2, <1>3
<1>5. total * s <= total * e /\ total * e = e * total /\ total * s \in Nat /\ total * e \in Nat
  BY <1>2, <1>4, Products
<1> QED
  BY <1>1, <1>2, <1>4, <1>5 DEF e

\* The rates calculate_fair_shares gives: a guarantee each, no more than the maximum
\* when that is the larger one, equal for equal demands up to a truncated double;
\* they fit the link when the guarantees do.
LEMMA FairShares ==
  ASSUME config \in Configs, NEW active \in SUBSET Users, active # {}, NEW d \in [active -> Nat],
         NEW f \in calculate_fair_shares(d)
  PROVE  /\ f \in [active -> Nat]
         /\ \A u \in active : f[u] >= config.guaranteed /\ (Fits => f[u] <= config.max)
         /\ \A u, v \in active : d[u] = d[v] => f[u] - f[v] \in -1..1
         /\ Cardinality(active) * config.guaranteed <= config.global =>
              SumFunction(f) <= config.global
<1> DEFINE n == Cardinality(active)
           g == config.guaranteed
           reserved == n * g
           rem == IF reserved >= config.global THEN 0 ELSE config.global - reserved
           total == SumFunction(d)
           share(u) == IF total = 0 THEN {rem \div n}
                       ELSE IF total > rem THEN Proportional(d[u], total, rem)
                       ELSE {d[u]}
           rates(u) == IF rem = 0 THEN {g} ELSE {g + Least(s, Headroom) : s \in share(u)}
<1>1. g \in Nat /\ config.global \in Nat /\ config.max \in Nat
  BY Settings
<1>2. IsFiniteSet(active) /\ n \in Nat \ {0}
  BY BandwidthConstants, FS_Subset, FS_CardinalityType, FS_EmptySet
<1>3. reserved \in Nat /\ rem \in Nat
  <2>1. reserved \in Nat
    BY <1>1, <1>2, Products
  <2> QED
    BY <1>1, <2>1
<1>4. total \in Nat
  BY <1>2, SumType
<1>5. Headroom \in Nat /\ (Fits => g + Headroom = config.max)
  BY <1>1 DEF Headroom, Fits
<1>6. /\ DOMAIN d = active /\ DOMAIN f = active /\ f = [u \in active |-> f[u]]
      /\ \A u \in active : f[u] \in rates(u)
  BY DEF calculate_fair_shares
<1> HIDE DEF n, g, reserved, rem, total, rates
<1>7. ASSUME NEW u \in active, rem # 0 PROVE \E s \in share(u) : f[u] = g + Least(s, Headroom)
  BY <1>6, <1>7 DEF rates
<1>8. ASSUME NEW u \in active, NEW s \in share(u)
      PROVE  /\ s \in Nat
             /\ total = 0 => s = rem \div n
             /\ total > rem /\ total # 0 => total * s <= rem * d[u]
             /\ ~(total > rem) /\ total # 0 => s = d[u]
  <2>1. CASE total = 0
    BY <2>1, <1>2, <1>3, Truncated
  <2>2. CASE total # 0 /\ total > rem
    <3>1. total \in Nat \ {0} /\ s \in Proportional(d[u], total, rem) /\ d[u] \in Nat
      BY <2>2, <1>4
    <3>2. s \in Nat /\ total * s <= rem * d[u]
      BY <3>1, <1>3, ProportionalShare
    <3> QED
      BY <3>2, <2>2
  <2>3. CASE total # 0 /\ ~(total > rem)
    BY <2>3
  <2> QED
    BY <2>1, <2>2, <2>3
<1>9. ASSUME NEW u \in active, NEW v \in active, d[u] = d[v], NEW s \in share(u), NEW z \in share(v)
      PROVE  s - z \in -1..1
  <2>1. CASE total # 0 /\ total > rem
    <3>1. total \in Nat \ {0} /\ d[u] \in Nat
      BY <2>1, <1>4
    <3>2. s \in Proportional(d[u], total, rem) /\ z \in Proportional(d[u], total, rem)
      BY <2>1, <1>9
    <3> DEFINE e == (d[u] * rem) \div total
    <3>3. s \in Nat /\ z \in Nat /\ s <= e /\ e <= s + 1 /\ z <= e /\ e <= z + 1
      BY <3>1, <3>2, <1>3, ProportionalShare
    <3>4. e \in Nat
      BY <3>1, <1>3, Truncated, Products
    <3> HIDE DEF e
    <3> QED
      BY <3>3, <3>4
  <2>2. CASE total = 0
    <3>1. s = z /\ s \in Nat
      BY <2>2, <1>8
    <3> QED
      BY <3>1
  <2>3. CASE total # 0 /\ ~(total > rem)
    <3>1. s = z /\ s \in Nat
      BY <2>3, <1>8, <1>9
    <3> QED
      BY <3>1
  <2> QED
    BY <2>1, <2>2, <2>3
<1> HIDE DEF share
<1>10. ASSUME NEW u \in active PROVE f[u] \in Nat /\ f[u] >= g /\ (Fits => f[u] <= config.max)
  <2>1. CASE rem = 0
    BY <1>1, <1>6, <2>1 DEF rates, Fits, g
  <2>2. CASE rem # 0
    <3>1. PICK s \in share(u) : f[u] = g + Least(s, Headroom)
      BY <1>7, <2>2
    <3>2. Least(s, Headroom) \in Nat /\ Least(s, Headroom) <= Headroom
      BY <1>5, <1>8, LeastOf
    <3> QED
      BY <1>1, <1>5, <3>1, <3>2
  <2> QED
    BY <2>1, <2>2
<1>11. f \in [active -> Nat]
  BY <1>6, <1>10
<1>12. ASSUME NEW u \in active, NEW v \in active, d[u] = d[v] PROVE f[u] - f[v] \in -1..1
  <2>1. CASE rem = 0
    BY <1>1, <1>6, <2>1 DEF rates
  <2>2. CASE rem # 0
    <3>1. PICK s \in share(u) : f[u] = g + Least(s, Headroom)
      BY <1>7, <2>2
    <3>2. PICK z \in share(v) : f[v] = g + Least(z, Headroom)
      BY <1>7, <2>2
    <3>3. s \in Nat /\ z \in Nat /\ s - z \in -1..1
      BY <1>8, <1>9, <1>12
    <3>4. Least(s, Headroom) - Least(z, Headroom) \in -1..1
      BY <1>5, <3>3 DEF Least
    <3>5. Least(s, Headroom) \in Nat /\ Least(z, Headroom) \in Nat
      BY <1>5, <3>3, LeastOf
    <3> QED
      BY <1>1, <3>1, <3>2, <3>4, <3>5
  <2> QED
    BY <2>1, <2>2
<1>13. ASSUME reserved <= config.global PROVE SumFunction(f) <= config.global
  <2>1. ASSUME NEW A \in Nat, NEW K \in Nat, NEW M \in Nat,
               \A u \in active : A * f[u] <= K + M * d[u]
        PROVE  SumFunction(f) \in Nat /\ A * SumFunction(f) <= K * n + M * total
    BY <1>2, <1>11, <2>1, SumBound DEF n, total
  <2>2. SumFunction(f) \in Nat
    BY <1>2, <1>11, SumType
  <2>3. CASE rem = 0
    <3>1. \A u \in active : 1 * f[u] <= g + 0 * d[u]
      BY <1>1, <1>6, <2>3 DEF rates
    <3>2. 1 * SumFunction(f) <= g * n + 0 * total
      BY <1>1, <2>1, <3>1
    <3> QED
      BY <1>1, <1>2, <1>4, <1>13, <2>2, <3>2 DEF reserved
  <2>4. CASE rem # 0
    <3>1. rem = config.global - reserved /\ rem > 0
      BY <1>1, <1>3, <2>4 DEF rem
    <3>2. ASSUME NEW u \in active PROVE \E s \in share(u) : f[u] <= g + s /\ s \in Nat
      <4>1. PICK s \in share(u) : f[u] = g + Least(s, Headroom)
        BY <1>7, <2>4
      <4>2. s \in Nat /\ Least(s, Headroom) \in Nat /\ Least(s, Headroom) <= s
        BY <1>5, <1>8, LeastOf
      <4> QED
        BY <1>1, <4>1, <4>2
    <3>3. CASE total = 0
      <4> DEFINE q == rem \div n
      <4>1. q \in Nat /\ q * n <= rem
        BY <1>2, <1>3, Truncated
      <4>2. \A u \in active : f[u] <= g + q
        BY <1>8, <3>2, <3>3
      <4> HIDE DEF q
      <4>3. \A u \in active : 1 * f[u] <= (g + q) + 0 * d[u]
        BY <1>1, <1>10, <4>1, <4>2
      <4>4. 1 * SumFunction(f) <= (g + q) * n + 0 * total
        <5>1. g + q \in Nat
          BY <1>1, <4>1
        <5> QED
          BY <2>1, <4>3, <5>1
      <4>5. (g + q) * n = reserved + q * n
        BY <1>1, <1>2, <4>1 DEF reserved
      <4>6. q * n \in Nat
        BY <1>2, <4>1, Products
      <4> QED
        BY <1>1, <1>3, <1>4, <2>2, <3>1, <4>1, <4>4, <4>5, <4>6
    <3>4. CASE total # 0 /\ ~(total > rem)
      <4>1. \A u \in active : 1 * f[u] <= g + 1 * d[u]
        <5>1. \A u \in active : f[u] <= g + d[u]
          BY <1>8, <3>2, <3>4
        <5>2. \A u \in active : d[u] \in Nat /\ f[u] \in Nat
          BY <1>10
        <5> QED
          BY <1>1, <5>1, <5>2
      <4>2. 1 * SumFunction(f) <= g * n + 1 * total
        BY <1>1, <2>1, <4>1
      <4>3. g * n = reserved
        BY <1>1, <1>2 DEF reserved
      <4> QED
        BY <1>1, <1>3, <1>4, <2>2, <3>1, <3>4, <4>2, <4>3
    <3>5. CASE total # 0 /\ total > rem
      <4>1. total * g \in Nat
        BY <1>1, <1>4, Products
      <4>2. ASSUME NEW u \in active PROVE total * f[u] <= total * g + rem * d[u]
        <5>1. PICK s \in share(u) : f[u] <= g + s /\ s \in Nat
          BY <3>2
        <5>2. total * s <= rem * d[u]
          BY <1>8, <3>5
        <5>3. total * f[u] <= total * (g + s) /\ total * (g + s) = total * g + total * s
          <6>1. f[u] \in Nat /\ g + s \in Nat
            BY <1>1, <1>10, <5>1
          <6>2. total * f[u] <= total * (g + s)
            BY <1>4, <5>1, <6>1, Products
          <6> QED
            BY <1>1, <1>4, <5>1, <6>2
        <5>4. total * f[u] \in Nat /\ total * s \in Nat /\ rem * d[u] \in Nat
          BY <1>3, <1>4, <1>10, <5>1, Products
        <5> QED
          BY <4>1, <5>2, <5>3, <5>4
      <4>3. total * SumFunction(f) <= (total * g) * n + rem * total
        BY <1>3, <1>4, <2>1, <4>1, <4>2
      <4>4. (total * g) * n + rem * total = total * (reserved + rem)
        BY <1>1, <1>2, <1>3, <1>4 DEF reserved
      <4>5. total * SumFunction(f) <= total * config.global
        BY <1>1, <1>3, <3>1, <4>3, <4>4
      <4> SUFFICES ASSUME SumFunction(f) >= config.global + 1 PROVE FALSE
        BY <1>1, <2>2
      <4>6. total * (config.global + 1) <= total * SumFunction(f)
        <5>1. config.global + 1 \in Nat
          BY <1>1
        <5> QED
          BY <1>4, <2>2, <5>1, Products
      <4>7. total * (config.global + 1) = total * config.global + total
        BY <1>1, <1>4
      <4>8. total * config.global \in Nat /\ total * SumFunction(f) \in Nat
        BY <1>1, <1>4, <2>2, Products
      <4> QED
        BY <1>4, <3>5, <4>5, <4>6, <4>7, <4>8
    <3> QED
      BY <3>3, <3>4, <3>5
  <2> QED
    BY <2>3, <2>4
<1> QED
  BY <1>10, <1>11, <1>12, <1>13 DEF n, g, reserved

-----------------------------------------------------------------------------
(* Buckets and their rates.                                                *)

\* A bucket is the global one or one of a user's two.
LEMMA BucketKinds ==
  ASSUME NEW b \in Buckets
  PROVE  \/ b = Global /\ b[1] = "global" /\ b[2] = Nobody
         \/ b[2] \in Users /\ b = Guaranteed(b[2]) /\ b[1] = "guaranteed"
         \/ b[2] \in Users /\ b = Maximum(b[2]) /\ b[1] = "maximum"
BY DEF Buckets, Global, Guaranteed, Maximum

\* The buckets of the users and the global one are different buckets.
LEMMA BucketsApart ==
  /\ Global \in Buckets /\ Global[1] = "global" /\ Global[2] = Nobody
  /\ \A u \in Users : /\ Guaranteed(u) \in Buckets /\ Maximum(u) \in Buckets
                      /\ Guaranteed(u)[1] = "guaranteed" /\ Guaranteed(u)[2] = u
                      /\ Maximum(u)[1] = "maximum" /\ Maximum(u)[2] = u
                      /\ Guaranteed(u) # Global /\ Maximum(u) # Global
                      /\ \A v \in Users : Guaranteed(u) # Maximum(v)
BY DEF Buckets, Global, Guaranteed, Maximum

\* A refill reads a rate no larger than the bucket's own.
LEMMA RatesBounded ==
  ASSUME Types, TurnInv, NEW b \in Buckets, NEW r \in Rates(b)
  PROVE  r \in Nat /\ Nominal(b) \in Nat /\ (Rated(b) => r <= Nominal(b))
<1>1. config.global \in Nat /\ config.guaranteed \in Nat /\ config.max \in Nat
  BY Settings DEF Types
<1>2. CASE b[1] = "global"
  <2>1. r = config.global /\ Nominal(b) = config.global
    BY <1>2 DEF Rates, Nominal
  <2> QED
    BY <1>1, <2>1
<1>3. CASE b[1] = "guaranteed"
  <2>1. r = config.guaranteed /\ Nominal(b) = config.guaranteed
    BY <1>3 DEF Rates, Nominal
  <2> QED
    BY <1>1, <2>1
<1>4. CASE b[1] = "maximum"
  <2>1. r \in {rate[b[2]], stale[b[2]]} /\ Nominal(b) = config.max
    BY <1>4 DEF Rates, Nominal
  <2>2. b[2] \in Users
    BY <1>4, BucketKinds
  <2>3. rate[b[2]] \in Nat /\ stale[b[2]] \in Nat
    BY <2>2 DEF Types
  <2>4. Fits => rate[b[2]] <= config.max /\ stale[b[2]] <= config.max
    BY <2>2 DEF TurnInv
  <2> QED
    BY <1>1, <1>4, <2>1, <2>3, <2>4 DEF Rated
<1> QED
  BY <1>2, <1>3, <1>4, BucketKinds

\* What is promised is a natural, and something is.
LEMMA PromisedType ==
  ASSUME Types, LockInv, NEW b \in Buckets PROVE Promised(b) \subseteq Nat /\ Promised(b) # {}
<1>1. \A t \in Adders(b) : task[t].add \in Nat
  BY DEF Types, Adders, Records
<1>2. bucket[b].locked => Adders(b) # {}
  BY DEF LockInv
<1> HIDE DEF Adders
<1> QED
  BY <1>1, <1>2 DEF Promised

\* A bucket is worth a natural.
LEMMA WorthType ==
  ASSUME Types, LockInv, NEW b \in Buckets, NEW p \in Promised(b)
  PROVE  /\ Worth(b, p) \in Nat /\ Worth(b, p) <= 3 * (config.burst * Second)
         /\ bucket[b].tokens \in 0..config.burst /\ bucket[b].since \in Nat /\ p \in Nat
         /\ Nominal(b) \in Nat /\ config.burst \in Nat
<1>1. /\ config.global \in Nat /\ config.guaranteed \in Nat /\ config.max \in Nat
      /\ config.burst \in Nat
  BY Settings DEF Types
<1>2. Nominal(b) \in Nat
  <2>1. CASE b[1] = "global"
    BY <1>1, <2>1 DEF Nominal
  <2>2. CASE b[1] = "guaranteed"
    BY <1>1, <2>2 DEF Nominal
  <2>3. CASE b[1] = "maximum"
    BY <1>1, <2>3 DEF Nominal
  <2> QED
    BY <2>1, <2>2, <2>3, BucketKinds
<1>3. bucket[b].tokens \in 0..config.burst /\ bucket[b].since \in Nat
  BY DEF Types
<1>4. p \in Nat
  BY PromisedType
<1> QED
  BY <1>1, <1>2, <1>3, <1>4, ValueRange DEF Worth

-----------------------------------------------------------------------------
(* What a step has to show.                                                *)

\* In a step, bucket b comes to be worth no more.
Kept(b) ==
  \A p \in Promised(b)' : \E q \in Promised(b) : Worth(b, p)' \in Nat /\ Worth(b, p)' <= Worth(b, q)

\* The types after a step of one task.
LEMMA StepTypes ==
  ASSUME Types, NEW t \in Tasks, NEW x \in Records,
         x.at \in {Global, Guaranteed(UserOf[t]), Maximum(UserOf[t])},
         task' = [task EXCEPT ![t] = x], config' = config, rate' = rate, stale' = stale,
         bucket' \in [Buckets -> [tokens : 0..config.burst, since : Nat, locked : BOOLEAN]],
         ideal' \in [Users \union {Nobody} -> Int]
  PROVE  Types'
<1>1. task' \in [Tasks -> Records]
  BY DEF Types
<1>2. \A v \in Tasks : task'[v].at \in {Global, Guaranteed(UserOf[v]), Maximum(UserOf[v])}
  BY DEF Types
<1> QED
  BY <1>1, <1>2 DEF Types

\* The locks after a step in which nobody enters or leaves a critical section.
LEMMA LocksSame ==
  ASSUME LockInv, \A b \in Buckets : bucket'[b].locked = bucket[b].locked,
         \A t \in Tasks : /\ task'[t].pc = "add" <=> task[t].pc = "add"
                          /\ task[t].pc = "add" => task'[t].at = task[t].at
  PROVE  LockInv'
<1>1. \A b \in Buckets : Adders(b)' = Adders(b)
  BY DEF Adders
<1> HIDE DEF Adders
<1> QED
  BY <1>1 DEF LockInv

\* The turn after a step that is not the rebalancer's.
LEMMA TurnSame ==
  ASSUME TurnInv, SharesFit, UNCHANGED <<config, rate, stale, rebalancer, shares, demands>>
  PROVE  TurnInv' /\ SharesFit'
<1>1. TurnInv'
  BY DEF TurnInv, Fits, None
<1>2. SharesFit'
  BY DEF SharesFit
<1> QED
  BY <1>1, <1>2

\* A bucket that is not touched is worth the same.
LEMMA SameWorth ==
  ASSUME Types, LockInv, NEW b \in Buckets, config' = config, bucket'[b] = bucket[b],
         \A t \in Tasks : task'[t].pc = "add" /\ task'[t].at = b =>
                            task[t].pc = "add" /\ task[t].at = b /\ task'[t].add = task[t].add
  PROVE  Kept(b)
<1>1. \A t \in Adders(b)' : t \in Adders(b) /\ task'[t].add = task[t].add
  BY DEF Adders
<1> HIDE DEF Adders
<1>2. \A p \in Promised(b)' : p \in Promised(b)
  BY <1>1 DEF Promised
<1>3. \A p : Worth(b, p)' = Worth(b, p)
  BY DEF Worth, Nominal, Value
<1>4. \A p \in Promised(b) : Worth(b, p) \in Nat
  BY WorthType
<1> QED
  BY <1>2, <1>3, <1>4 DEF Kept

\* The bounds after a step that pays nothing out.
LEMMA WorthKept ==
  ASSUME Types, LockInv, WorthInv, config' = config, ideal' = ideal,
         \A b \in Buckets : Rated(b) => Kept(b)
  PROVE  WorthInv'
<1> DEFINE B == config.burst * Second
<1>1. B \in Nat /\ config.burst \in Nat /\ Second \in Nat
  BY BandwidthConstants, Settings, Products DEF Types
<1>2. \A o \in Users \union {Nobody} : ideal[o] \in Int
  BY DEF Types
<1>3. /\ 2 * config.burst * Second = 2 * B /\ 4 * config.burst * Second = 4 * B
  BY <1>1
<1> HIDE DEF B
<1>4. ASSUME NEW p \in Promised(Global)' PROVE ideal[Nobody] + 2 * B >= Worth(Global, p)'
  <2>1. Kept(Global)
    BY BucketsApart DEF Rated
  <2>2. PICK q \in Promised(Global) :
          Worth(Global, p)' \in Nat /\ Worth(Global, p)' <= Worth(Global, q)
    BY <2>1 DEF Kept
  <2>3. ideal[Nobody] + 2 * B >= Worth(Global, q) /\ Worth(Global, q) \in Nat
    BY <1>3, <2>2, WorthType, BucketsApart DEF WorthInv
  <2> QED
    BY <1>1, <1>2, <2>2, <2>3
<1>5. ASSUME Fits, NEW u \in Users,
             NEW p \in Promised(Guaranteed(u))', NEW q \in Promised(Maximum(u))'
      PROVE  ideal[u] + 4 * B >= Worth(Guaranteed(u), p)' + Worth(Maximum(u), q)'
  <2>1. Kept(Guaranteed(u)) /\ Kept(Maximum(u))
    BY <1>5, BucketsApart DEF Rated
  <2>2. PICK x \in Promised(Guaranteed(u)) :
          Worth(Guaranteed(u), p)' \in Nat /\ Worth(Guaranteed(u), p)' <= Worth(Guaranteed(u), x)
    BY <2>1 DEF Kept
  <2>3. PICK y \in Promised(Maximum(u)) :
          Worth(Maximum(u), q)' \in Nat /\ Worth(Maximum(u), q)' <= Worth(Maximum(u), y)
    BY <2>1 DEF Kept
  <2>4. Worth(Guaranteed(u), x) \in Nat /\ Worth(Maximum(u), y) \in Nat
    BY WorthType, BucketsApart
  <2>5. ideal[u] + 4 * B >= Worth(Guaranteed(u), x) + Worth(Maximum(u), y)
    BY <1>3, <1>5 DEF WorthInv
  <2> QED
    BY <1>1, <1>2, <2>2, <2>3, <2>4, <2>5
<1>6. Fits' <=> Fits
  BY DEF Fits
<1>7. 2 * config'.burst * Second = 2 * B /\ 4 * config'.burst * Second = 4 * B
  BY <1>3
<1> QED
  BY <1>4, <1>5, <1>6, <1>7 DEF WorthInv

-----------------------------------------------------------------------------
(* The steps of a relay task.                                              *)

\* A step in which a task outside the critical sections stays outside and touches
\* no bucket.
LEMMA OutsideStep ==
  ASSUME BandwidthInv, NEW t \in Tasks, task[t].pc # "add", NEW x \in Records, x.pc # "add",
         x.at \in {Global, Guaranteed(UserOf[t]), Maximum(UserOf[t])},
         task' = [task EXCEPT ![t] = x],
         UNCHANGED <<config, bucket, rate, stale, rebalancer, shares, demands, ideal>>
  PROVE  BandwidthInv'
<1> USE DEF BandwidthInv
<1>1. Types'
  <2>1. bucket' \in [Buckets -> [tokens : 0..config.burst, since : Nat, locked : BOOLEAN]]
    BY DEF Types
  <2>2. ideal' \in [Users \union {Nobody} -> Int]
    BY DEF Types
  <2> QED
    BY <2>1, <2>2, StepTypes
<1>2. /\ task'[t] = x /\ \A v \in Tasks : v # t => task'[v] = task[v]
  BY DEF Types
<1>3. LockInv'
  <2>1. \A v \in Tasks : /\ task'[v].pc = "add" <=> task[v].pc = "add"
                         /\ task[v].pc = "add" => task'[v].at = task[v].at
    BY <1>2
  <2> QED
    BY <2>1, LocksSame
<1>4. \A b \in Buckets : Kept(b)
  <2>1. \A b \in Buckets, v \in Tasks : task'[v].pc = "add" /\ task'[v].at = b =>
          task[v].pc = "add" /\ task[v].at = b /\ task'[v].add = task[v].add
    BY <1>2
  <2> QED
    BY <2>1, SameWorth
<1>5. WorthInv'
  BY <1>4, WorthKept
<1> QED
  BY <1>1, <1>3, <1>5, TurnSame

\* Allocate asks for naturals.
LEMMA AllocateSafe == ASSUME BandwidthInv, NEW t \in Tasks, Allocate(t) PROVE BandwidthInv'
<1>1. config \in Configs
  BY DEF BandwidthInv, Types
<1>2. PICK n \in config.reads[t] :
        task' = [task EXCEPT ![t] = [pc |-> "refill", at |-> Global, amount |-> n, add |-> 0]]
  BY DEF Allocate
<1> DEFINE x == [pc |-> "refill", at |-> Global, amount |-> n, add |-> 0]
<1>3. x \in Records
  BY <1>1, BandwidthConstants, BucketsApart DEF Records
<1>4. x.at = Global /\ x.pc = "refill"
  OBVIOUS
<1>5. task' = [task EXCEPT ![t] = x] /\ task[t].pc = "idle"
  BY <1>2 DEF Allocate
<1> HIDE DEF x
<1> QED
  BY <1>3, <1>4, <1>5, OutsideStep DEF Allocate

\* A task that goes on to the next bucket, or gives one up for a sleep.
LEMMA ShortSafe == ASSUME BandwidthInv, NEW t \in Tasks, Short(t) PROVE BandwidthInv'
<1>1. task[t] \in Records /\ task[t].at \in {Global, Guaranteed(UserOf[t]), Maximum(UserOf[t])}
  BY DEF BandwidthInv, Types
<1>2. UserOf[t] \in Users
  BY BandwidthConstants
<1>3. CASE task[t].at[1] = "guaranteed"
  <2> DEFINE x == [task[t] EXCEPT !.pc = "refill", !.at = Maximum(UserOf[t])]
  <2>1. x \in Records /\ x.pc = "refill" /\ x.at = Maximum(UserOf[t])
    BY <1>1, <1>2, BucketsApart DEF Records
  <2>2. task' = [task EXCEPT ![t] = x] /\ task[t].pc = "take"
    BY <1>3 DEF Short
  <2> HIDE DEF x
  <2> QED
    BY <2>1, <2>2, OutsideStep DEF Short
<1>4. CASE task[t].at[1] # "guaranteed"
  <2> DEFINE x == [task[t] EXCEPT !.pc = "refill"]
  <2>1. x \in Records /\ x.pc = "refill" /\ x.at = task[t].at
    BY <1>1 DEF Records
  <2>2. task' = [task EXCEPT ![t] = x] /\ task[t].pc = "take"
    BY <1>4 DEF Short, Step
  <2> HIDE DEF x
  <2> QED
    BY <1>1, <2>1, <2>2, OutsideStep DEF Short
<1> QED
  BY <1>3, <1>4

\* The credit of the elapsed time is a natural.
LEMMA CreditType ==
  ASSUME Types, NEW b \in Buckets, NEW r \in Nat PROVE Credit(b, r) \in Nat
<1>1. bucket[b].since \in Nat
  BY DEF Types
<1>2. bucket[b].since * r \in Nat
  BY <1>1, Products
<1> QED
  BY <1>2, BandwidthConstants, Truncated DEF Credit

\* A refill locks the bucket and promises the credit of the elapsed time.
LEMMA RefillBeginSafe == ASSUME BandwidthInv, NEW t \in Tasks, RefillBegin(t) PROVE BandwidthInv'
<1>0. PICK b \in Buckets : b = task[t].at
  BY DEF BandwidthInv, Types, Records
<1>1. /\ task[t] \in Records /\ b = task[t].at
      /\ b \in {Global, Guaranteed(UserOf[t]), Maximum(UserOf[t])} /\ task[t].pc = "refill"
  BY <1>0 DEF BandwidthInv, Types, RefillBegin
<1>2. CASE Step(t, "take") /\ UNCHANGED bucket
  <2> DEFINE x == [task[t] EXCEPT !.pc = "take"]
  <2>1. x \in Records /\ x.pc = "take" /\ x.at = task[t].at
    BY <1>1 DEF Records
  <2>2. task' = [task EXCEPT ![t] = x]
    BY <1>2 DEF Step
  <2> HIDE DEF x
  <2> QED
    BY <1>1, <1>2, <2>1, <2>2, OutsideStep DEF RefillBegin
<1>3. CASE \E r \in Rates(b) :
             /\ ~bucket[b].locked
             /\ task' = [task EXCEPT ![t].pc = "add", ![t].add = Credit(b, r)]
             /\ bucket' = [bucket EXCEPT ![b].since = 0, ![b].locked = TRUE]
  <2>1. PICK r \in Rates(b) :
             /\ ~bucket[b].locked
             /\ task' = [task EXCEPT ![t].pc = "add", ![t].add = Credit(b, r)]
             /\ bucket' = [bucket EXCEPT ![b].since = 0, ![b].locked = TRUE]
    BY <1>3
  <2> DEFINE x == [task[t] EXCEPT !.pc = "add", !.add = Credit(b, r)]
             y == [bucket[b] EXCEPT !.since = 0, !.locked = TRUE]
  <2>2. r \in Nat /\ Nominal(b) \in Nat /\ (Rated(b) => r <= Nominal(b)) /\ Credit(b, r) \in Nat
    BY <1>1, RatesBounded, CreditType DEF BandwidthInv
  <2>3. x \in Records /\ x.pc = "add" /\ x.at = b /\ x.add = Credit(b, r)
    BY <1>1, <2>2 DEF Records
  <2>4. task' = [task EXCEPT ![t] = x]
    BY <2>1
  <2>5. bucket' = [bucket EXCEPT ![b] = y]
    BY <2>1
  <2>6. /\ y \in [tokens : 0..config.burst, since : Nat, locked : BOOLEAN]
        /\ y.tokens = bucket[b].tokens /\ y.since = 0 /\ y.locked
    BY <1>1 DEF BandwidthInv, Types
  <2>7. UNCHANGED <<config, rate, stale, rebalancer, shares, demands, ideal>>
    BY DEF RefillBegin
  <2>8. Types /\ LockInv /\ TurnInv /\ SharesFit /\ WorthInv
    BY DEF BandwidthInv
  <2> HIDE DEF x, y
  <2>9. /\ task'[t] = x /\ \A v \in Tasks : v # t => task'[v] = task[v]
        /\ bucket'[b] = y /\ \A c \in Buckets : c # b => bucket'[c] = bucket[c]
    BY <1>1, <2>4, <2>5, <2>8 DEF Types
  <2>10. Types'
    <3>1. bucket' \in [Buckets -> [tokens : 0..config.burst, since : Nat, locked : BOOLEAN]]
      BY <1>1, <2>5, <2>6, <2>8 DEF Types
    <3>2. ideal' \in [Users \union {Nobody} -> Int]
      BY <2>7, <2>8 DEF Types
    <3> QED
      BY <1>1, <2>3, <2>4, <2>7, <2>8, <3>1, <3>2, StepTypes
  <2>11. Adders(b)' = {t} /\ \A c \in Buckets : c # b => Adders(c)' = Adders(c)
    <3>1. Adders(b) = {}
      BY <1>1, <2>1, <2>8 DEF LockInv
    <3> QED
      BY <1>1, <2>3, <2>9, <3>1 DEF Adders
  <2>12. LockInv'
    <3>1. \A c \in Buckets : bucket'[c].locked <=> Adders(c)' # {}
      BY <2>6, <2>8, <2>9, <2>11 DEF LockInv
    <3>2. \A c \in Buckets : \A u, v \in Adders(c)' : u = v
      BY <2>8, <2>11 DEF LockInv
    <3> QED
      BY <3>1, <3>2 DEF LockInv
  <2>13. ASSUME NEW c \in Buckets, Rated(c) PROVE Kept(c)
    <3>1. CASE c # b
      <4>1. \A v \in Tasks : task'[v].pc = "add" /\ task'[v].at = c =>
              task[v].pc = "add" /\ task[v].at = c /\ task'[v].add = task[v].add
        BY <2>3, <2>9, <3>1
      <4> QED
        BY <2>7, <2>8, <2>9, <3>1, <4>1, SameWorth
    <3>2. CASE c = b
      <4>1. Promised(b)' = {Credit(b, r)}
        <5>1. task'[t].add = Credit(b, r)
          BY <2>3, <2>9
        <5>2. bucket'[b].locked
          BY <2>6, <2>9
        <5> QED
          BY <2>11, <5>1, <5>2 DEF Promised
      <4>2. 0 \in Promised(b)
        BY <2>1 DEF Promised
      <4>3. /\ bucket[b].tokens \in 0..config.burst /\ bucket[b].since \in Nat
            /\ config.burst \in Nat
        BY <1>1, <2>8, <4>2, WorthType
      <4>4. Nominal(b)' = Nominal(b)
        BY <2>7 DEF Nominal
      <4>6. \A p : Worth(b, p)' = Value(bucket[b].tokens, p, 0, Nominal(b), config.burst)
        BY <2>6, <2>7, <2>9, <4>4 DEF Worth, Value
      <4>7. /\ Value(bucket[b].tokens, Credit(b, r), 0, Nominal(b), config.burst) <= Worth(b, 0)
            /\ Value(bucket[b].tokens, Credit(b, r), 0, Nominal(b), config.burst) \in Nat
        BY <2>2, <2>13, <3>2, <4>3, ValueBegin, ValueRange DEF Worth, Credit
      <4> QED
        BY <3>2, <4>1, <4>2, <4>6, <4>7 DEF Kept
    <3> QED
      BY <3>1, <3>2
  <2>14. WorthInv'
    BY <2>7, <2>8, <2>13, WorthKept
  <2> QED
    BY <2>7, <2>8, <2>10, <2>12, <2>14, TurnSame DEF BandwidthInv
<1> QED
  BY <1>0, <1>2, <1>3 DEF RefillBegin

\* A refill adds what it promised and unlocks the bucket.
LEMMA RefillEndSafe == ASSUME BandwidthInv, NEW t \in Tasks, RefillEnd(t) PROVE BandwidthInv'
<1>0. PICK b \in Buckets : b = task[t].at
  BY DEF BandwidthInv, Types, Records
<1>1. /\ task[t] \in Records /\ b = task[t].at
      /\ b \in {Global, Guaranteed(UserOf[t]), Maximum(UserOf[t])} /\ task[t].pc = "add"
  BY <1>0 DEF BandwidthInv, Types, RefillEnd
<1> DEFINE a == task[t].add
           x == [task[t] EXCEPT !.pc = "take", !.add = 0]
           y == [bucket[b] EXCEPT !.tokens = Filled(b, a), !.locked = FALSE]
<1>2. Types /\ LockInv /\ TurnInv /\ SharesFit /\ WorthInv
  BY DEF BandwidthInv
<1>3. /\ config.burst \in Nat /\ a \in Nat /\ bucket[b].since \in Nat
      /\ bucket[b].tokens \in 0..config.burst
  BY <1>1, <1>2, Settings DEF Types, Records
<1>4. x \in Records /\ x.pc = "take" /\ x.at = b
  BY <1>1 DEF Records
<1>5. task' = [task EXCEPT ![t] = x] /\ bucket' = [bucket EXCEPT ![b] = y]
  BY <1>0 DEF RefillEnd
<1>6. Filled(b, a) \in 0..config.burst /\ Filled(b, a) = Least(bucket[b].tokens + a, config.burst)
  BY <1>3, ValueEnd DEF Filled
<1>7. /\ y \in [tokens : 0..config.burst, since : Nat, locked : BOOLEAN]
      /\ y.tokens = Filled(b, a) /\ y.since = bucket[b].since /\ ~y.locked
  BY <1>2, <1>6 DEF Types
<1>8. UNCHANGED <<config, rate, stale, rebalancer, shares, demands, ideal>>
  BY DEF RefillEnd
<1> HIDE DEF x, y
<1>9. /\ task'[t] = x /\ \A v \in Tasks : v # t => task'[v] = task[v]
      /\ bucket'[b] = y /\ \A c \in Buckets : c # b => bucket'[c] = bucket[c]
  BY <1>2, <1>5 DEF Types
<1>10. Types'
  <2>1. bucket' \in [Buckets -> [tokens : 0..config.burst, since : Nat, locked : BOOLEAN]]
    BY <1>2, <1>5, <1>7 DEF Types
  <2>2. ideal' \in [Users \union {Nobody} -> Int]
    BY <1>2, <1>8 DEF Types
  <2> QED
    BY <1>1, <1>2, <1>4, <1>5, <1>8, <2>1, <2>2, StepTypes
<1>11. Adders(b) = {t} /\ Adders(b)' = {} /\ \A c \in Buckets : c # b => Adders(c)' = Adders(c)
  <2>1. t \in Adders(b)
    BY <1>1 DEF Adders
  <2>2. Adders(b) = {t}
    BY <1>2, <2>1 DEF LockInv
  <2>3. \A c \in Buckets : Adders(c)' = Adders(c) \ {t}
    BY <1>4, <1>9 DEF Adders
  <2>4. \A c \in Buckets : c # b => t \notin Adders(c)
    BY <1>1 DEF Adders
  <2> QED
    BY <2>2, <2>3, <2>4
<1>12. LockInv'
  <2>1. \A c \in Buckets : bucket'[c].locked <=> Adders(c)' # {}
    BY <1>2, <1>7, <1>9, <1>11 DEF LockInv
  <2>2. \A c \in Buckets : \A u, v \in Adders(c)' : u = v
    BY <1>2, <1>11 DEF LockInv
  <2> QED
    BY <2>1, <2>2 DEF LockInv
<1>13. ASSUME NEW c \in Buckets PROVE Kept(c)
  <2>1. CASE c # b
    <3>1. \A v \in Tasks : task'[v].pc = "add" /\ task'[v].at = c =>
            task[v].pc = "add" /\ task[v].at = c /\ task'[v].add = task[v].add
      BY <1>4, <1>9
    <3> QED
      BY <1>2, <1>8, <1>9, <2>1, <3>1, SameWorth
  <2>2. CASE c = b
    <3>1. Promised(b)' = {0}
      BY <1>7, <1>9 DEF Promised
    <3>2. a \in Promised(b)
      BY <1>2, <1>11 DEF Promised, LockInv
    <3>3. Nominal(b) \in Nat
      BY <1>2, <3>2, WorthType
    <3>4. Nominal(b)' = Nominal(b)
      BY <1>8 DEF Nominal
    <3>5. Worth(b, 0)' = Value(Filled(b, a), 0, bucket[b].since, Nominal(b), config.burst)
      BY <1>7, <1>8, <1>9, <3>4 DEF Worth, Value
    <3>6. /\ Value(Filled(b, a), 0, bucket[b].since, Nominal(b), config.burst) <= Worth(b, a)
          /\ Value(Filled(b, a), 0, bucket[b].since, Nominal(b), config.burst) \in Nat
      BY <1>3, <1>6, <3>3, ValueEnd, ValueRange DEF Worth
    <3> QED
      BY <2>2, <3>1, <3>2, <3>5, <3>6 DEF Kept
  <2> QED
    BY <2>1, <2>2
<1>14. WorthInv'
  BY <1>2, <1>8, <1>13, WorthKept
<1> QED
  BY <1>2, <1>8, <1>10, <1>12, <1>14, TurnSame DEF BandwidthInv

\* What is consumed is taken from the ideal bucket too.
LEMMA ConsumeSafe == ASSUME BandwidthInv, NEW t \in Tasks, Consume(t) PROVE BandwidthInv'
<1>0. PICK b \in Buckets : b = task[t].at
  BY DEF BandwidthInv, Types, Records
<1>1. /\ task[t] \in Records /\ b = task[t].at /\ UserOf[t] \in Users
      /\ b \in {Global, Guaranteed(UserOf[t]), Maximum(UserOf[t])} /\ task[t].pc = "take"
  BY <1>0, BandwidthConstants DEF BandwidthInv, Types, Consume
<1>2. PICK a \in Nat : a = task[t].amount
  BY <1>1 DEF Records
<1> DEFINE x == Taken(t)
           y == [bucket[b] EXCEPT !.tokens = bucket[b].tokens - a]
<1>3. Types /\ LockInv /\ TurnInv /\ SharesFit /\ WorthInv
  BY DEF BandwidthInv
<1>4. /\ config.burst \in Nat /\ bucket[b].since \in Nat /\ bucket[b].tokens \in 0..config.burst
      /\ a <= bucket[b].tokens /\ bucket[b].tokens - a \in 0..config.burst
  <2>1. config.burst \in Nat /\ bucket[b].since \in Nat /\ bucket[b].tokens \in 0..config.burst
    BY <1>3, Settings DEF Types
  <2>2. a <= bucket[b].tokens
    BY <1>0, <1>2, <2>1 DEF Consume
  <2> QED
    BY <2>1, <2>2
<1>5. /\ x \in Records /\ x.pc # "add"
      /\ x.at \in {Global, Guaranteed(UserOf[t]), Maximum(UserOf[t])}
  BY <1>1, BucketsApart DEF Records, Taken
<1>6. /\ task' = [task EXCEPT ![t] = x] /\ bucket' = [bucket EXCEPT ![b] = y]
      /\ ideal' = [ideal EXCEPT ![b[2]] = ideal[b[2]] - a * Second]
  BY <1>0, <1>2 DEF Consume, Owner
<1>7. /\ y \in [tokens : 0..config.burst, since : Nat, locked : BOOLEAN]
      /\ y.tokens = bucket[b].tokens - a /\ y.since = bucket[b].since
      /\ y.locked = bucket[b].locked
  BY <1>3, <1>4 DEF Types
<1>8. UNCHANGED <<config, rate, stale, rebalancer, shares, demands>>
  BY DEF Consume
<1> HIDE DEF x, y
<1>9. /\ task'[t] = x /\ \A v \in Tasks : v # t => task'[v] = task[v]
      /\ bucket'[b] = y /\ \A c \in Buckets : c # b => bucket'[c] = bucket[c]
  BY <1>3, <1>6 DEF Types
<1>10. b[2] \in Users \union {Nobody} /\ a * Second \in Nat
  BY BucketKinds, BandwidthConstants, Products
<1>11. /\ \A o \in Users \union {Nobody} : ideal[o] \in Int
       /\ ideal'[b[2]] = ideal[b[2]] - a * Second
       /\ \A o \in Users \union {Nobody} : o # b[2] => ideal'[o] = ideal[o]
  BY <1>3, <1>6, <1>10 DEF Types
<1>12. Types'
  <2>1. bucket' \in [Buckets -> [tokens : 0..config.burst, since : Nat, locked : BOOLEAN]]
    BY <1>3, <1>6, <1>7 DEF Types
  <2>2. ideal' \in [Users \union {Nobody} -> Int]
    <3>1. ideal[b[2]] - a * Second \in Int
      BY <1>10, <1>11
    <3> QED
      BY <1>3, <1>6, <3>1 DEF Types
  <2> QED
    BY <1>1, <1>3, <1>5, <1>6, <1>8, <2>1, <2>2, StepTypes
<1>13. \A v \in Tasks : /\ task'[v].pc = "add" <=> task[v].pc = "add"
                        /\ task[v].pc = "add" =>
                             task'[v].at = task[v].at /\ task'[v].add = task[v].add
  BY <1>1, <1>5, <1>9
<1>14. LockInv'
  <2>1. \A c \in Buckets : bucket'[c].locked = bucket[c].locked
    BY <1>7, <1>9
  <2> QED
    BY <1>3, <1>13, <2>1, LocksSame
<1>15. ASSUME NEW c \in Buckets, c # b PROVE Kept(c)
  BY <1>3, <1>8, <1>9, <1>13, <1>15, SameWorth
<1>16. ASSUME NEW p \in Promised(b)'
       PROVE  /\ p \in Promised(b) /\ Worth(b, p)' = Worth(b, p) - a * Second
              /\ Worth(b, p) \in Nat
  <2>1. Adders(b)' = Adders(b) /\ \A v \in Adders(b) : task'[v].add = task[v].add
    BY <1>13 DEF Adders
  <2>2. p \in Promised(b)
    <3>1. bucket'[b].locked = bucket[b].locked
      BY <1>7, <1>9
    <3> QED
      BY <2>1, <3>1 DEF Promised
  <2>3. Nominal(b)' = Nominal(b)
    BY <1>8 DEF Nominal
  <2>4. Worth(b, p)' = Value(bucket[b].tokens - a, p, bucket[b].since, Nominal(b), config.burst)
    BY <1>7, <1>8, <1>9, <2>3 DEF Worth, Value
  <2>5. p \in Nat /\ Nominal(b) \in Nat /\ Worth(b, p) \in Nat
    BY <1>3, <2>2, WorthType
  <2>6. Worth(b, p)' = Worth(b, p) - a * Second
    <3>1. Worth(b, p) = Value(bucket[b].tokens, p, bucket[b].since, Nominal(b), config.burst)
      BY DEF Worth
    <3>2. Value(bucket[b].tokens - a, p, bucket[b].since, Nominal(b), config.burst)
            = Value(bucket[b].tokens, p, bucket[b].since, Nominal(b), config.burst) - a * Second
      <4> DEFINE c == config.burst
                 k == bucket[b].tokens
                 z == bucket[b].since
                 R == Nominal(b)
      <4>1. c \in Nat /\ k \in 0..c /\ a <= k /\ z \in Nat /\ R \in Nat /\ p \in Nat
        BY <1>4, <2>5
      <4> HIDE DEF c, k, z, R
      <4>2. Value(k - a, p, z, R, c) = Value(k, p, z, R, c) - a * Second
        BY <4>1, ValueTake
      <4> QED
        BY <4>2 DEF c, k, z, R
    <3> QED
      BY <2>4, <3>1, <3>2
  <2> QED
    BY <2>2, <2>5, <2>6
<1> DEFINE B == config.burst * Second
<1>17. /\ B \in Nat /\ 2 * config.burst * Second = 2 * B /\ 4 * config.burst * Second = 4 * B
  <2>1. B \in Nat /\ Second \in Nat
    BY <1>4, BandwidthConstants, Products
  <2> QED
    BY <1>4, <2>1
<1> HIDE DEF B
<1>18. ASSUME NEW p \in Promised(Global)' PROVE ideal'[Nobody] + 2 * B >= Worth(Global, p)'
  <2>1. CASE b = Global
    <3>1. p \in Promised(Global) /\ Worth(Global, p)' = Worth(Global, p) - a * Second
      BY <1>16, <2>1
    <3>2. ideal'[Nobody] = ideal[Nobody] - a * Second
      BY <1>11, <2>1, BucketsApart
    <3>3. ideal[Nobody] + 2 * B >= Worth(Global, p) /\ Worth(Global, p) \in Nat
      BY <1>3, <1>16, <1>17, <2>1, <3>1 DEF WorthInv
    <3> QED
      BY <1>10, <1>11, <1>17, <3>1, <3>2, <3>3
  <2>2. CASE b # Global
    <3>1. PICK q \in Promised(Global) :
            Worth(Global, p)' \in Nat /\ Worth(Global, p)' <= Worth(Global, q)
      BY <1>15, <2>2, BucketsApart DEF Kept
    <3>2. ideal'[Nobody] = ideal[Nobody]
      BY <1>1, <1>11, <2>2, BucketsApart, BandwidthConstants
    <3>3. ideal[Nobody] + 2 * B >= Worth(Global, q) /\ Worth(Global, q) \in Nat
      BY <1>3, <1>17, <3>1, WorthType, BucketsApart DEF WorthInv
    <3> QED
      BY <1>11, <1>17, <3>1, <3>2, <3>3
  <2> QED
    BY <2>1, <2>2
<1>19. ASSUME Fits, NEW u \in Users,
              NEW p \in Promised(Guaranteed(u))', NEW q \in Promised(Maximum(u))'
       PROVE  ideal'[u] + 4 * B >= Worth(Guaranteed(u), p)' + Worth(Maximum(u), q)'
  <2> DEFINE G == Guaranteed(u)
             M == Maximum(u)
  <2>1. G \in Buckets /\ M \in Buckets /\ G # M /\ G[2] = u /\ M[2] = u /\ Nobody # u
    BY BucketsApart, BandwidthConstants
  <2>2. \A i \in Promised(G), j \in Promised(M) :
          /\ ideal[u] + 4 * B >= Worth(G, i) + Worth(M, j)
          /\ Worth(G, i) \in Nat /\ Worth(M, j) \in Nat
    BY <1>3, <1>17, <1>19, <2>1, WorthType DEF WorthInv
  <2>3. b # G /\ b # M => b[2] # u
    BY <1>1, <2>1, BucketsApart
  <2> HIDE DEF G, M
  <2>4. CASE b = G
    <3>1. p \in Promised(G) /\ Worth(G, p)' = Worth(G, p) - a * Second
      BY <1>16, <2>4 DEF G
    <3>2. PICK j \in Promised(M) : Worth(M, q)' \in Nat /\ Worth(M, q)' <= Worth(M, j)
      BY <1>15, <2>1, <2>4 DEF Kept, M
    <3>3. ideal'[u] = ideal[u] - a * Second
      BY <1>11, <2>1, <2>4
    <3>4. ideal'[u] + 4 * B >= Worth(G, p)' + Worth(M, q)'
      BY <1>10, <1>11, <1>17, <2>2, <3>1, <3>2, <3>3
    <3> QED
      BY <3>4 DEF G, M
  <2>5. CASE b = M
    <3>1. q \in Promised(M) /\ Worth(M, q)' = Worth(M, q) - a * Second
      BY <1>16, <2>5 DEF M
    <3>2. PICK i \in Promised(G) : Worth(G, p)' \in Nat /\ Worth(G, p)' <= Worth(G, i)
      BY <1>15, <2>1, <2>5 DEF Kept, G
    <3>3. ideal'[u] = ideal[u] - a * Second
      BY <1>11, <2>1, <2>5
    <3>4. ideal'[u] + 4 * B >= Worth(G, p)' + Worth(M, q)'
      BY <1>10, <1>11, <1>17, <2>2, <3>1, <3>2, <3>3
    <3> QED
      BY <3>4 DEF G, M
  <2>6. CASE b # G /\ b # M
    <3>1. PICK i \in Promised(G) : Worth(G, p)' \in Nat /\ Worth(G, p)' <= Worth(G, i)
      BY <1>15, <2>1, <2>6 DEF Kept, G
    <3>2. PICK j \in Promised(M) : Worth(M, q)' \in Nat /\ Worth(M, q)' <= Worth(M, j)
      BY <1>15, <2>1, <2>6 DEF Kept, M
    <3>3. ideal'[u] = ideal[u]
      BY <1>11, <2>3, <2>6
    <3>4. ideal'[u] + 4 * B >= Worth(G, p)' + Worth(M, q)'
      BY <1>11, <1>17, <2>2, <3>1, <3>2, <3>3
    <3> QED
      BY <3>4 DEF G, M
  <2> QED
    BY <2>4, <2>5, <2>6
<1>20. WorthInv'
  <2>1. Fits' <=> Fits
    BY <1>8 DEF Fits
  <2>2. 2 * config'.burst * Second = 2 * B /\ 4 * config'.burst * Second = 4 * B
    BY <1>8, <1>17
  <2> QED
    BY <1>18, <1>19, <2>1, <2>2 DEF WorthInv
<1> QED
  BY <1>3, <1>8, <1>12, <1>14, <1>20, TurnSame DEF BandwidthInv

-----------------------------------------------------------------------------
(* The rebalancing task, and time.                                         *)

\* A turn refills the active users' buckets and gives them fair shares.
LEMMA CollectSafe == ASSUME BandwidthInv, Collect PROVE BandwidthInv'
<1>1. Types /\ LockInv /\ TurnInv /\ SharesFit /\ WorthInv
  BY DEF BandwidthInv
<1>2. PICK active \in (SUBSET Users) \ {{}} :
       /\ demands' = [u \in active |-> estimate_user_demand(u)]
       /\ bucket' = [b \in Buckets |->
                       IF b[2] \in active
                       THEN Refilled(b, IF b[1] = "guaranteed" THEN config.guaranteed ELSE rate[b[2]])
                       ELSE bucket[b]]
       /\ shares' \in calculate_fair_shares([u \in active |-> estimate_user_demand(u)])
  BY DEF Collect
<1>3. UNCHANGED <<config, rate, stale, task, ideal>> /\ rebalancer' = "applying"
  BY DEF Collect
<1>4. /\ config \in Configs /\ config.burst \in Nat /\ config.max \in Nat
      /\ config.guaranteed \in Nat
  BY <1>1, Settings DEF Types
<1>5. demands' \in [active -> Nat]
  BY <1>2, <1>4 DEF estimate_user_demand
<1>6. /\ shares' \in [active -> Nat]
      /\ \A u \in active : /\ shares'[u] >= config.guaranteed
                           /\ Fits => shares'[u] <= config.max
      /\ \A u, v \in active : demands'[u] = demands'[v] => shares'[u] - shares'[v] \in -1..1
      /\ Cardinality(active) * config.guaranteed <= config.global =>
           SumFunction(shares') <= config.global
  <2>0. PICK d, f : d = [u \in active |-> estimate_user_demand(u)] /\ f = shares'
    OBVIOUS
  <2>1. active \in SUBSET Users /\ active # {} /\ d \in [active -> Nat]
    <3>1. \A u \in active : estimate_user_demand(u) \in Nat
      BY <1>4 DEF estimate_user_demand
    <3>2. active \in SUBSET Users /\ active # {}
      OBVIOUS
    <3> QED
      BY <2>0, <3>1, <3>2
  <2>3. f \in calculate_fair_shares(d)
    BY <1>2, <2>0
  <2>2. /\ f \in [active -> Nat]
        /\ \A u \in active : f[u] >= config.guaranteed /\ (Fits => f[u] <= config.max)
        /\ \A u, v \in active : d[u] = d[v] => f[u] - f[v] \in -1..1
        /\ Cardinality(active) * config.guaranteed <= config.global =>
             SumFunction(f) <= config.global
    BY <1>4, <2>1, <2>3, FairShares
  <2> QED
    BY <1>2, <2>0, <2>2
<1>7. SharesFit'
  <2>1. DOMAIN shares' = active
    BY <1>6
  <2>2. config' = config /\ (Fits <=> config.max >= config.guaranteed)
    BY <1>3 DEF Fits
  <2> QED
    BY <1>6, <2>1, <2>2 DEF SharesFit
<1>8. TurnInv'
  <2>1. DOMAIN shares' = active /\ DOMAIN demands' = active
    BY <1>5, <1>6
  <2>2. Fits' <=> Fits
    BY <1>3 DEF Fits
  <2> QED
    BY <1>1, <1>3, <1>6, <2>1, <2>2 DEF TurnInv
<1>9. ASSUME NEW b \in Buckets
      PROVE  \/ bucket'[b] = bucket[b]
             \/ \E r \in Rates(b) :
                  /\ ~bucket[b].locked
                  /\ bucket'[b] = [bucket[b] EXCEPT !.tokens = Filled(b, Credit(b, r)), !.since = 0]
  <2>1. CASE b[2] \in active
    <3> DEFINE r == IF b[1] = "guaranteed" THEN config.guaranteed ELSE rate[b[2]]
    <3>1. b[1] = "guaranteed" \/ b[1] = "maximum"
      BY <2>1, BucketKinds, BandwidthConstants
    <3>2. r \in Rates(b)
      BY <3>1 DEF Rates
    <3>3. bucket'[b] = Refilled(b, r)
      BY <1>2, <2>1
    <3> HIDE DEF r
    <3> QED
      BY <3>2, <3>3 DEF Refilled
  <2>2. CASE b[2] \notin active
    BY <1>2, <2>2
  <2> QED
    BY <2>1, <2>2
<1>10. ASSUME NEW b \in Buckets
       PROVE  /\ bucket'[b] \in [tokens : 0..config.burst, since : Nat, locked : BOOLEAN]
              /\ bucket'[b].locked = bucket[b].locked
              /\ Rated(b) => Kept(b)
  <2>1. CASE bucket'[b] = bucket[b]
    BY <1>1, <1>3, <2>1, SameWorth DEF Types
  <2>2. CASE \E r \in Rates(b) :
               /\ ~bucket[b].locked
               /\ bucket'[b] = [bucket[b] EXCEPT !.tokens = Filled(b, Credit(b, r)), !.since = 0]
    <3>1. PICK r \in Rates(b) :
            /\ ~bucket[b].locked
            /\ bucket'[b] = [bucket[b] EXCEPT !.tokens = Filled(b, Credit(b, r)), !.since = 0]
      BY <2>2
    <3>2. r \in Nat /\ Nominal(b) \in Nat /\ (Rated(b) => r <= Nominal(b)) /\ Credit(b, r) \in Nat
      BY <1>1, RatesBounded, CreditType
    <3>3. bucket[b].tokens \in 0..config.burst /\ bucket[b].since \in Nat
      BY <1>1 DEF Types
    <3>4. Filled(b, Credit(b, r)) \in 0..config.burst
      BY <1>4, <3>2, <3>3, ValueEnd DEF Filled
    <3> DEFINE y == [bucket[b] EXCEPT !.tokens = Filled(b, Credit(b, r)), !.since = 0]
    <3>7. bucket[b] \in [tokens : 0..config.burst, since : Nat, locked : BOOLEAN]
      BY <1>1 DEF Types
    <3>8. /\ y \in [tokens : 0..config.burst, since : Nat, locked : BOOLEAN]
          /\ y.tokens = Filled(b, Credit(b, r)) /\ y.since = 0 /\ y.locked = bucket[b].locked
      BY <3>4, <3>7
    <3>5. /\ bucket'[b] \in [tokens : 0..config.burst, since : Nat, locked : BOOLEAN]
          /\ bucket'[b].tokens = Filled(b, Credit(b, r)) /\ bucket'[b].since = 0
          /\ bucket'[b].locked = bucket[b].locked
      BY <3>1, <3>8
    <3>6. ASSUME Rated(b) PROVE Kept(b)
      <4>1. Promised(b)' = {0} /\ 0 \in Promised(b)
        BY <3>1, <3>5 DEF Promised
      <4>2. Nominal(b)' = Nominal(b)
        BY <1>3 DEF Nominal
      <4> DEFINE k == Least(bucket[b].tokens + ((bucket[b].since * r) \div Second), config.burst)
      <4>3. Filled(b, Credit(b, r)) = k
        BY DEF Filled, Credit
      <4>4. Worth(b, 0) = Value(bucket[b].tokens, 0, bucket[b].since, Nominal(b), config.burst)
        BY DEF Worth
      <4>5. Value(k, 0, 0, Nominal(b), config.burst)
              <= Value(bucket[b].tokens, 0, bucket[b].since, Nominal(b), config.burst)
        BY <1>4, <3>2, <3>3, <3>6, ValueRefill
      <4> HIDE DEF k
      <4>6. Worth(b, 0)' = Value(k, 0, 0, Nominal(b), config.burst)
        BY <1>3, <3>5, <4>2, <4>3 DEF Worth, Value
      <4>7. Value(k, 0, 0, Nominal(b), config.burst) \in Nat
        BY <1>4, <3>2, <3>4, <4>3, ValueRange
      <4> QED
        BY <4>1, <4>4, <4>5, <4>6, <4>7 DEF Kept
    <3> QED
      BY <3>5, <3>6
  <2> QED
    BY <1>9, <2>1, <2>2
<1>11. Types'
  <2>1. bucket' \in [Buckets -> [tokens : 0..config.burst, since : Nat, locked : BOOLEAN]]
    BY <1>2, <1>10
  <2> QED
    BY <1>1, <1>3, <2>1 DEF Types
<1>12. LockInv'
  BY <1>1, <1>3, <1>10, LocksSame
<1>13. WorthInv'
  BY <1>1, <1>3, <1>10, WorthKept
<1> QED
  BY <1>7, <1>8, <1>11, <1>12, <1>13 DEF BandwidthInv

\* Steps that touch neither buckets nor tasks.
LEMMA AsideWorth ==
  ASSUME BandwidthInv, UNCHANGED <<config, bucket, task, ideal>>,
         rate' \in [Users -> Nat], stale' \in [Users -> Nat]
  PROVE  Types' /\ LockInv' /\ WorthInv'
<1>1. Types'
  BY DEF BandwidthInv, Types
<1>2. LockInv'
  BY LocksSame DEF BandwidthInv
<1>3. \A b \in Buckets : Kept(b)
  BY SameWorth DEF BandwidthInv
<1>4. WorthInv'
  BY <1>3, WorthKept DEF BandwidthInv
<1> QED
  BY <1>1, <1>2, <1>4

\* A rate is set to its share, which then is no longer to be set.
LEMMA ApplySafe == ASSUME BandwidthInv, NEW u \in Users, Apply(u) PROVE BandwidthInv'
<1>1. Types /\ TurnInv /\ SharesFit
  BY DEF BandwidthInv
<1>2. /\ rebalancer = "applying" /\ u \in DOMAIN shares
      /\ rate' = [rate EXCEPT ![u] = shares[u]] /\ stale' = [stale EXCEPT ![u] = rate[u]]
      /\ shares' = [v \in DOMAIN shares \ {u} |-> shares[v]]
      /\ UNCHANGED <<config, bucket, task, rebalancer, demands, ideal>>
  BY DEF Apply
<1>3. rate' \in [Users -> Nat] /\ stale' \in [Users -> Nat]
  BY <1>1, <1>2 DEF Types, TurnInv
<1>4. Types' /\ LockInv' /\ WorthInv'
  BY <1>2, <1>3, AsideWorth
<1>5. DOMAIN shares' = DOMAIN shares \ {u} /\ \A v \in DOMAIN shares' : shares'[v] = shares[v]
  BY <1>2
<1>6. TurnInv'
  <2>1. Fits' <=> Fits
    BY <1>2 DEF Fits
  <2>2. Fits => \A v \in Users : rate'[v] <= config.max /\ stale'[v] <= config.max
    BY <1>1, <1>2 DEF TurnInv, Types
  <2> QED
    BY <1>1, <1>2, <1>5, <2>1, <2>2 DEF TurnInv
<1>7. SharesFit'
  <2>1. DOMAIN shares' # DOMAIN demands'
    BY <1>1, <1>2, <1>5 DEF TurnInv
  <2> QED
    BY <2>1 DEF SharesFit
<1> QED
  BY <1>4, <1>6, <1>7 DEF BandwidthInv

\* The end of a turn.
LEMMA AppliedSafe == ASSUME BandwidthInv, Applied PROVE BandwidthInv'
<1>1. Types /\ TurnInv
  BY DEF BandwidthInv
<1>2. /\ shares = None /\ rebalancer' = "idle" /\ demands' = None /\ stale' = rate
      /\ UNCHANGED <<config, bucket, rate, task, shares, ideal>>
  BY DEF Applied
<1>3. Types' /\ LockInv' /\ WorthInv'
  BY <1>1, <1>2, AsideWorth DEF Types
<1>4. Fits' <=> Fits
  BY <1>2 DEF Fits
<1>5. TurnInv'
  BY <1>1, <1>2, <1>4 DEF TurnInv
<1>6. SharesFit'
  BY <1>2 DEF SharesFit
<1> QED
  BY <1>3, <1>5, <1>6 DEF BandwidthInv

\* The end of rebalancing.
LEMMA DropCloneSafe == ASSUME BandwidthInv, NEW t \in Tasks, DropClone(t) PROVE BandwidthInv'
<1>1. Types /\ TurnInv
  BY DEF BandwidthInv
<1>2. /\ rebalancer = "idle" /\ rebalancer' = "stopped"
      /\ UNCHANGED <<config, bucket, rate, stale, task, shares, demands, ideal>>
  BY DEF DropClone
<1>3. Types' /\ LockInv' /\ WorthInv'
  BY <1>1, <1>2, AsideWorth DEF Types
<1>4. Fits' <=> Fits
  BY <1>2 DEF Fits
<1>5. TurnInv'
  BY <1>1, <1>2, <1>4 DEF TurnInv
<1>6. SharesFit'
  BY <1>2 DEF SharesFit
<1> QED
  BY <1>3, <1>5, <1>6 DEF BandwidthInv

\* A tick is worth the rate, which the ideal bucket gets too.
LEMMA TickSafe == ASSUME BandwidthInv, Tick PROVE BandwidthInv'
<1>1. Types /\ LockInv /\ TurnInv /\ SharesFit /\ WorthInv
  BY DEF BandwidthInv
<1>2. /\ bucket' = [b \in Buckets |-> [bucket[b] EXCEPT !.since = Least(@ + 1, config.memory)]]
      /\ ideal' = [o \in DOMAIN ideal |-> IdealTick(o)]
      /\ UNCHANGED <<config, rate, stale, task, rebalancer, shares, demands>>
  BY DEF Tick
<1> DEFINE B == config.burst * Second
<1>3. /\ config.global \in Nat /\ config.guaranteed \in Nat /\ config.max \in Nat
      /\ config.burst \in Nat /\ config.memory \in Nat
  BY <1>1, Settings DEF Types
<1>4. /\ B \in Nat /\ 2 * config.burst * Second = 2 * B /\ 4 * config.burst * Second = 4 * B
  <2>1. B \in Nat /\ Second \in Nat
    BY <1>3, BandwidthConstants, Products
  <2> QED
    BY <1>3, <2>1
<1>5. \A o \in Users \union {Nobody} : ideal[o] \in Int /\ ideal'[o] = IdealTick(o)
  BY <1>1, <1>2 DEF Types
<1>6. /\ ideal'[Nobody] = Least(ideal[Nobody] + config.global, B)
      /\ \A u \in Users : ideal'[u] = Least(ideal[u] + config.guaranteed + config.max, 2 * B)
  BY <1>4, <1>5, BandwidthConstants DEF IdealTick
<1>7. ASSUME NEW b \in Buckets
      PROVE  /\ bucket'[b] \in [tokens : 0..config.burst, since : Nat, locked : BOOLEAN]
             /\ bucket'[b].tokens = bucket[b].tokens /\ bucket'[b].locked = bucket[b].locked
             /\ bucket'[b].since \in Nat /\ bucket'[b].since <= bucket[b].since + 1
  <2>1. bucket[b] \in [tokens : 0..config.burst, since : Nat, locked : BOOLEAN]
    BY <1>1 DEF Types
  <2>2. Least(bucket[b].since + 1, config.memory) \in Nat /\
        Least(bucket[b].since + 1, config.memory) <= bucket[b].since + 1
    <3>1. bucket[b].since + 1 \in Nat
      BY <2>1
    <3> QED
      BY <1>3, <3>1, LeastOf
  <2>3. bucket'[b] = [bucket[b] EXCEPT !.since = Least(bucket[b].since + 1, config.memory)]
    BY <1>2
  <2> QED
    BY <2>1, <2>2, <2>3
<1> HIDE DEF B
<1>8. Types'
  <2>1. bucket' \in [Buckets -> [tokens : 0..config.burst, since : Nat, locked : BOOLEAN]]
    BY <1>2, <1>7
  <2>2. ideal' \in [Users \union {Nobody} -> Int]
    <3>1. \A o \in Users \union {Nobody} : ideal'[o] \in Int
      BY <1>3, <1>4, <1>5, <1>6 DEF Least
    <3>2. DOMAIN ideal = Users \union {Nobody}
      BY <1>1 DEF Types
    <3> QED
      BY <1>2, <3>1, <3>2
  <2> QED
    BY <1>1, <1>2, <2>1, <2>2 DEF Types
<1>9. LockInv'
  BY <1>1, <1>2, <1>7, LocksSame
<1>10. ASSUME NEW b \in Buckets, NEW p \in Promised(b)'
       PROVE  /\ p \in Promised(b) /\ Worth(b, p) \in Nat /\ Nominal(b) \in Nat
              /\ Worth(b, p)' \in Nat /\ Worth(b, p)' <= 3 * B
              /\ Worth(b, p)' <= Worth(b, p) + Nominal(b)
  <2>1. Adders(b)' = Adders(b) /\ bucket'[b].locked = bucket[b].locked
    BY <1>2, <1>7 DEF Adders
  <2>2. p \in Promised(b)
    BY <1>2, <2>1 DEF Promised
  <2>3. /\ bucket[b].tokens \in 0..config.burst /\ bucket[b].since \in Nat /\ p \in Nat
        /\ Nominal(b) \in Nat /\ config.burst \in Nat /\ Worth(b, p) \in Nat
    BY <1>1, <2>2, WorthType
  <2>4. Nominal(b)' = Nominal(b)
    BY <1>2 DEF Nominal
  <2> DEFINE c == config.burst
             k == bucket[b].tokens
             s == bucket[b].since
             z == bucket'[b].since
             R == Nominal(b)
  <2>5. Worth(b, p)' = Value(k, p, z, R, c)
    BY <1>2, <1>7, <2>4 DEF Worth, Value
  <2>6. Worth(b, p) = Value(k, p, s, R, c)
    BY DEF Worth
  <2>7. /\ c \in Nat /\ k \in 0..c /\ s \in Nat /\ z \in Nat /\ R \in Nat /\ z <= s + 1
    BY <1>7, <2>3
  <2>8. B = c * Second
    BY DEF B
  <2> HIDE DEF c, k, s, z, R
  <2>9. Value(k, p, z, R, c) <= Value(k, p, s, R, c) + R
    BY <2>3, <2>7, ValueTick
  <2>10. Value(k, p, z, R, c) \in Nat /\ Value(k, p, z, R, c) <= 3 * B
    BY <2>3, <2>7, <2>8, ValueRange
  <2> QED
    BY <2>2, <2>3, <2>5, <2>6, <2>9, <2>10 DEF R
<1>11. ASSUME NEW p \in Promised(Global)' PROVE ideal'[Nobody] + 2 * B >= Worth(Global, p)'
  <2>1. ideal[Nobody] + 2 * B >= Worth(Global, p) /\ Nominal(Global) = config.global
    BY <1>1, <1>4, <1>10, BucketsApart DEF WorthInv, Nominal
  <2>2. /\ Worth(Global, p) \in Nat /\ Worth(Global, p)' \in Nat /\ Worth(Global, p)' <= 3 * B
        /\ Worth(Global, p)' <= Worth(Global, p) + config.global
    BY <1>10, <2>1, BucketsApart
  <2> QED
    BY <1>3, <1>4, <1>5, <1>6, <2>1, <2>2 DEF Least
<1>12. ASSUME Fits, NEW u \in Users,
              NEW p \in Promised(Guaranteed(u))', NEW q \in Promised(Maximum(u))'
       PROVE  ideal'[u] + 4 * B >= Worth(Guaranteed(u), p)' + Worth(Maximum(u), q)'
  <2>1. Nominal(Guaranteed(u)) = config.guaranteed /\ Nominal(Maximum(u)) = config.max
    BY BucketsApart DEF Nominal
  <2>2. p \in Promised(Guaranteed(u)) /\ q \in Promised(Maximum(u))
    BY <1>10, BucketsApart
  <2>3. ideal[u] + 4 * B >= Worth(Guaranteed(u), p) + Worth(Maximum(u), q)
    BY <1>1, <1>4, <1>12, <2>2 DEF WorthInv
  <2>4. /\ Worth(Guaranteed(u), p) \in Nat /\ Worth(Guaranteed(u), p)' \in Nat
        /\ Worth(Guaranteed(u), p)' <= 3 * B
        /\ Worth(Guaranteed(u), p)' <= Worth(Guaranteed(u), p) + config.guaranteed
    BY <1>10, <2>1, BucketsApart
  <2>5. /\ Worth(Maximum(u), q) \in Nat /\ Worth(Maximum(u), q)' \in Nat
        /\ Worth(Maximum(u), q)' <= 3 * B
        /\ Worth(Maximum(u), q)' <= Worth(Maximum(u), q) + config.max
    BY <1>10, <2>1, BucketsApart
  <2> QED
    BY <1>3, <1>4, <1>5, <1>6, <2>3, <2>4, <2>5 DEF Least
<1>13. WorthInv'
  <2>1. Fits' <=> Fits
    BY <1>2 DEF Fits
  <2>2. 2 * config'.burst * Second = 2 * B /\ 4 * config'.burst * Second = 4 * B
    BY <1>2, <1>4
  <2> QED
    BY <1>11, <1>12, <2>1, <2>2 DEF WorthInv
<1> QED
  BY <1>1, <1>2, <1>8, <1>9, <1>13, TurnSame DEF BandwidthInv

-----------------------------------------------------------------------------
(* Theorems                                                                *)

\* The full buckets of the start are worth what the ideal ones hold.
LEMMA InitSafe == ASSUME Init PROVE BandwidthInv
<1> DEFINE B == config.burst * Second
<1>1. config \in Configs
  BY DEF Init
<1>2. config.burst \in Nat /\ config.max \in Nat
  BY <1>1, Settings
<1>3. /\ B \in Nat /\ 2 * config.burst * Second = 2 * B /\ 4 * config.burst * Second = 4 * B
  <2>1. B \in Nat /\ Second \in Nat
    BY <1>2, BandwidthConstants, Products
  <2> QED
    BY <1>2, <2>1
<1>4. /\ \A b \in Buckets : bucket[b] = [tokens |-> config.burst, since |-> 0, locked |-> FALSE]
      /\ \A t \in Tasks : task[t].pc = "idle"
  BY DEF Init, Full
<1>5. Types
  <2>1. bucket \in [Buckets -> [tokens : 0..config.burst, since : Nat, locked : BOOLEAN]]
    BY <1>2 DEF Init, Full
  <2>2. rate \in [Users -> Nat] /\ stale \in [Users -> Nat]
    BY <1>2 DEF Init
  <2>3. task \in [Tasks -> Records] /\ \A t \in Tasks : task[t].at = Global
    BY BucketsApart DEF Init, Records
  <2>4. ideal \in [Users \union {Nobody} -> Int]
    BY <1>3 DEF Init
  <2> QED
    BY <1>1, <2>1, <2>2, <2>3, <2>4 DEF Types
<1>6. LockInv
  BY <1>4 DEF LockInv, Adders
<1>7. TurnInv
  BY <1>2 DEF Init, TurnInv, None, Fits
<1>8. SharesFit
  BY DEF Init, SharesFit
<1>9. /\ ideal[Nobody] = B /\ \A u \in Users : ideal[u] = 2 * B
  BY <1>3, BandwidthConstants DEF Init
<1> HIDE DEF B
<1>10. ASSUME NEW b \in Buckets, NEW p \in Promised(b) PROVE Worth(b, p) \in Nat /\ Worth(b, p) <= 3 * B
  BY <1>5, <1>6, WorthType DEF B
<1>11. WorthInv
  <2>1. \A p \in Promised(Global) : ideal[Nobody] + 2 * B >= Worth(Global, p)
    BY <1>3, <1>9, <1>10, BucketsApart
  <2>2. \A u \in Users : \A p \in Promised(Guaranteed(u)), q \in Promised(Maximum(u)) :
          ideal[u] + 4 * B >= Worth(Guaranteed(u), p) + Worth(Maximum(u), q)
    BY <1>3, <1>9, <1>10, BucketsApart
  <2> QED
    BY <1>3, <2>1, <2>2 DEF WorthInv
<1> QED
  BY <1>5, <1>6, <1>7, <1>8, <1>11 DEF BandwidthInv

\* One step per action.
LEMMA NextSafe == ASSUME BandwidthInv, [Next]_vars PROVE BandwidthInv'
<1>1. ASSUME NEW t \in Tasks, Allocate(t) \/ Allocation(t) \/ DropClone(t) PROVE BandwidthInv'
  BY <1>1, AllocateSafe, RefillBeginSafe, RefillEndSafe, ConsumeSafe, ShortSafe, DropCloneSafe
     DEF Allocation
<1>2. CASE Rebalance
  BY <1>2, CollectSafe, ApplySafe, AppliedSafe DEF Rebalance
<1>3. CASE Tick
  BY <1>3, TickSafe
<1>4. CASE UNCHANGED vars
  <2>1. UNCHANGED <<config, bucket, rate, stale, task, rebalancer, shares, demands, ideal>>
    BY <1>4 DEF vars
  <2>2. rate' \in [Users -> Nat] /\ stale' \in [Users -> Nat]
    BY <2>1 DEF BandwidthInv, Types
  <2> QED
    BY <2>1, <2>2, AsideWorth, TurnSame DEF BandwidthInv
<1> QED
  BY <1>1, <1>2, <1>3, <1>4 DEF Next

\* The inductive invariant holds for any users, tasks, reads and settings.
THEOREM BandwidthAlways == Spec => []BandwidthInv
<1>1. Init => BandwidthInv
  BY InitSafe
<1>2. BandwidthInv /\ [Next]_vars => BandwidthInv'
  BY NextSafe
<1> QED
  BY <1>1, <1>2, PTL DEF Spec

\* However tasks interleave with refills they do not wait for (token_bucket.rs:100)
\* and rates are set while they are read (htb.rs:398), what the buckets hand out
\* stays within two bursts of an ideal bucket of their rates.
THEOREM RatesAlwaysRespected == Spec => []RatesRespected
<1>1. BandwidthInv => RatesRespected
  <2> SUFFICES ASSUME BandwidthInv PROVE RatesRespected
    OBVIOUS
  <2>1. Types /\ LockInv /\ WorthInv
    BY DEF BandwidthInv
  <2> DEFINE B == config.burst * Second
  <2>2. config.burst \in Nat
    BY <2>1, Settings DEF Types
  <2>3. /\ B \in Nat /\ 2 * config.burst * Second = 2 * B /\ 4 * config.burst * Second = 4 * B
    <3>1. B \in Nat /\ Second \in Nat
      BY <2>2, BandwidthConstants, Products
    <3> QED
      BY <2>2, <3>1
  <2> HIDE DEF B
  <2>4. \A o \in Users \union {Nobody} : ideal[o] \in Int
    BY <2>1 DEF Types
  <2>5. ideal[Nobody] >= -(2 * B)
    <3>1. PICK p \in Promised(Global) : TRUE
      BY <2>1, PromisedType, BucketsApart
    <3>2. Worth(Global, p) \in Nat
      BY <2>1, WorthType, BucketsApart
    <3>3. ideal[Nobody] + 2 * B >= Worth(Global, p)
      BY <2>1, <2>3 DEF WorthInv
    <3> QED
      BY <2>3, <2>4, <3>2, <3>3
  <2>6. ASSUME Fits, NEW u \in Users PROVE ideal[u] >= -(4 * B)
    <3>1. PICK p \in Promised(Guaranteed(u)), q \in Promised(Maximum(u)) : TRUE
      BY <2>1, PromisedType, BucketsApart
    <3>2. Worth(Guaranteed(u), p) \in Nat /\ Worth(Maximum(u), q) \in Nat
      BY <2>1, WorthType, BucketsApart
    <3>3. ideal[u] + 4 * B >= Worth(Guaranteed(u), p) + Worth(Maximum(u), q)
      BY <2>1, <2>3, <2>6 DEF WorthInv
    <3> QED
      BY <2>3, <2>4, <3>2, <3>3
  <2> QED
    BY <2>3, <2>5, <2>6 DEF RatesRespected, Fits
<1> QED
  BY <1>1, BandwidthAlways, PTL

\* The rates calculate_fair_shares (htb.rs:398) hands to a turn fit the link, keep
\* every guarantee and treat equal demands alike, whatever the users ask for.
THEOREM SharesAlwaysFit == Spec => []SharesFit
<1>1. BandwidthInv => SharesFit
  BY DEF BandwidthInv
<1> QED
  BY <1>1, BandwidthAlways, PTL

=============================================================================
