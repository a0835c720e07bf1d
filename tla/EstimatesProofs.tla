--------------------------- MODULE EstimatesProofs ---------------------------
(***************************************************************************)
(* Proofs about Estimates.tla, for every field, every observations in any  *)
(* order and number, every table of sample confidences that the logarithm  *)
(* can give, and any age.                                                  *)
(***************************************************************************)
EXTENDS Estimates, FiniteSetTheorems, WellFoundedInduction, TLAPS

(* Least-number principle: a set of naturals with a member has a first one. *)
LEMMA NatMin ==
  ASSUME NEW T \in SUBSET Nat, T # {}
  PROVE  \E x \in T : \A y \in Nat : y < x => y \notin T
<1> DEFINE R == OpToRel(<, Nat)
<1>1. IsWellFoundedOn(R, Nat)
  BY NatLessThanWellFounded
<1>2. \A x, y \in Nat : y < x => <<y, x>> \in R
  BY DEF OpToRel
<1> HIDE DEF R
<1>3. \E x \in T : \A y \in T : ~ (<<y, x>> \in R)
  BY <1>1, WFMin
<1>4. QED
  BY <1>2, <1>3

-----------------------------------------------------------------------------
(***************************************************************************)
(* Freshness.                                                              *)
(***************************************************************************)
HalvedTo(f, k) == f = [d \in 0..k |-> IF d = 0 THEN One ELSE f[d - 1] \div 2]

LEMMA HalvedExists == ASSUME NEW n \in Nat PROVE \E f : HalvedTo(f, n)
<1> DEFINE Bad == {k \in Nat : ~ \E f : HalvedTo(f, k)}
<1>1. SUFFICES ASSUME Bad # {} PROVE FALSE
  OBVIOUS
<1>2. PICK k \in Bad : \A j \in Nat : j < k => j \notin Bad
  <2>1. Bad \in SUBSET Nat
    OBVIOUS
  <2> HIDE DEF Bad
  <2>2. QED
    BY <1>1, <2>1, NatMin
<1>3. CASE k = 0
  <2> DEFINE f == [d \in 0..0 |-> One]
  <2>1. f = [d \in 0..0 |-> IF d = 0 THEN One ELSE f[d - 1] \div 2]
    OBVIOUS
  <2>2. QED
    BY <1>2, <1>3, <2>1 DEF HalvedTo
<1>4. CASE k # 0
  <2>1. k - 1 \in Nat /\ k - 1 < k
    BY <1>4
  <2>2. PICK g : HalvedTo(g, k - 1)
    BY <1>2, <2>1
  <2> DEFINE f == [d \in 0..k |-> IF d = k THEN g[k - 1] \div 2 ELSE g[d]]
  <2>3. ASSUME NEW d \in 0..k PROVE f[d] = IF d = 0 THEN One ELSE f[d - 1] \div 2
    <3>1. CASE d = k
      BY <1>4, <2>1, <3>1
    <3>2. CASE d # k
      <4>1. d \in 0..(k - 1) /\ (d # 0 => d - 1 \in 0..(k - 1))
        BY <2>1, <3>2
      <4>2. f[d] = g[d] /\ (d # 0 => f[d - 1] = g[d - 1])
        BY <2>1, <3>2, <4>1
      <4>3. g[d] = IF d = 0 THEN One ELSE g[d - 1] \div 2
        BY <2>2, <4>1 DEF HalvedTo
      <4>4. QED
        BY <4>2, <4>3
    <3>3. QED
      BY <3>1, <3>2
  <2>4. HalvedTo(f, k)
    BY <2>3 DEF HalvedTo
  <2>5. QED
    BY <1>2, <2>4
<1>5. QED
  BY <1>3, <1>4

(* Freshness is a share of one, whole on the first day, and half of the    *)
(* day before on any other.                                                *)
LEMMA FreshnessIs ==
  /\ Freshness(0) = One
  /\ \A d \in 0..MaxAge : Freshness(d) \in 0..One
  /\ \A d \in 1..MaxAge : Freshness(d) = Freshness(d - 1) \div 2
<1>1. PICK f : HalvedTo(f, MaxAge)
  BY HalvedExists, BoundsAssumption
<1>2. f = [d \in 0..MaxAge |-> IF d = 0 THEN One ELSE f[d - 1] \div 2]
  BY <1>1 DEF HalvedTo
<1>3. Halved = [d \in 0..MaxAge |-> IF d = 0 THEN One ELSE Halved[d - 1] \div 2]
  BY <1>2 DEF Halved
<1>4. \A d \in 0..MaxAge : Halved[d] = IF d = 0 THEN One ELSE Halved[d - 1] \div 2
  BY <1>3
<1> DEFINE Bad == {d \in 0..MaxAge : Halved[d] \notin 0..One}
<1>5. Bad = {}
  <2>1. SUFFICES ASSUME Bad # {} PROVE FALSE
    OBVIOUS
  <2>2. PICK d \in Bad : \A j \in Nat : j < d => j \notin Bad
    <3>1. Bad \in SUBSET Nat
      OBVIOUS
    <3> HIDE DEF Bad
    <3>2. QED
      BY <2>1, <3>1, NatMin
  <2>3. d # 0
    BY <1>4, <2>2, BoundsAssumption DEF One
  <2>4. d - 1 \in Nat /\ d - 1 < d /\ d - 1 \in 0..MaxAge
    BY <2>2, <2>3, BoundsAssumption
  <2>5. Halved[d - 1] \in 0..One
    BY <2>2, <2>4
  <2>6. Halved[d] = Halved[d - 1] \div 2
    BY <1>4, <2>2, <2>3
  <2>7. \A x \in 0..One : x \div 2 \in 0..One
    BY DEF One
  <2>8. QED
    BY <2>2, <2>5, <2>6, <2>7
<1>6. \A d \in 1..MaxAge : Halved[d] = Halved[d - 1] \div 2
  BY <1>4, BoundsAssumption
<1>7. Halved[0] = One
  BY <1>4, BoundsAssumption
<1>8. QED
  BY <1>5, <1>6, <1>7 DEF Freshness

-----------------------------------------------------------------------------
(***************************************************************************)
(* How often observations were made.  Sums is what MapThenSumSet evaluates *)
(* on the subsets of S with at most k members.                             *)
(***************************************************************************)
Some(s) == CHOOSE x \in s : TRUE

UpTo(S, k) == {s \in SUBSET S : Cardinality(s) <= k}

Sums(bag, S, k, f) ==
  f = [s \in UpTo(S, k) |-> IF s = {} THEN 0 ELSE bag[Some(s)] + f[s \ {Some(s)}]]

LEMMA SomeFacts ==
  ASSUME NEW S, IsFiniteSet(S), NEW s \in SUBSET S
  PROVE  /\ IsFiniteSet(s) /\ Cardinality(s) \in Nat
         /\ Cardinality(s) <= Cardinality(S) /\ (s = {} <=> Cardinality(s) = 0)
         /\ s # {} => /\ Some(s) \in s /\ s \ {Some(s)} \in SUBSET S
                      /\ Cardinality(s \ {Some(s)}) = Cardinality(s) - 1
<1>1. IsFiniteSet(s) /\ Cardinality(s) \in Nat /\ Cardinality(s) <= Cardinality(S)
  BY FS_Subset, FS_CardinalityType
<1>2. s = {} <=> Cardinality(s) = 0
  BY <1>1, FS_EmptySet
<1>3. s # {} => Some(s) \in s
  BY DEF Some
<1>4. s # {} => Cardinality(s \ {Some(s)}) = Cardinality(s) - 1
  BY <1>1, <1>3, FS_RemoveElement
<1>5. QED
  BY <1>1, <1>2, <1>3, <1>4

LEMMA SumsExist ==
  ASSUME NEW S, IsFiniteSet(S), NEW bag, NEW n \in Nat
  PROVE  \E f : Sums(bag, S, n, f)
<1> DEFINE Bad == {k \in Nat : ~ \E f : Sums(bag, S, k, f)}
<1>1. SUFFICES ASSUME Bad # {} PROVE FALSE
  OBVIOUS
<1>a. \A s \in SUBSET S : Cardinality(s) \in Nat /\ (Cardinality(s) = 0 => s = {})
  BY SomeFacts
<1>2. PICK k \in Bad : \A j \in Nat : j < k => j \notin Bad
  <2>1. Bad \in SUBSET Nat
    OBVIOUS
  <2> HIDE DEF Bad
  <2>2. QED
    BY <1>1, <2>1, NatMin
<1>3. CASE k = 0
  <2> DEFINE f == [s \in UpTo(S, 0) |-> 0]
  <2>1. \A s \in UpTo(S, 0) : s = {}
    BY <1>a DEF UpTo
  <2>2. f = [s \in UpTo(S, 0) |-> IF s = {} THEN 0 ELSE bag[Some(s)] + f[s \ {Some(s)}]]
    BY <2>1
  <2>3. QED
    BY <1>2, <1>3, <2>2 DEF Sums
<1>4. CASE k # 0
  <2>1. k - 1 \in Nat /\ k - 1 < k
    BY <1>4
  <2>2. PICK g : Sums(bag, S, k - 1, g)
    BY <1>2, <2>1
  <2> DEFINE f == [s \in UpTo(S, k) |-> IF s = {} THEN 0 ELSE bag[Some(s)] + g[s \ {Some(s)}]]
  <2>3. ASSUME NEW s \in UpTo(S, k - 1) PROVE f[s] = g[s]
    <3>1. s \in UpTo(S, k)
      BY <1>a, <2>1 DEF UpTo
    <3>2. g[s] = IF s = {} THEN 0 ELSE bag[Some(s)] + g[s \ {Some(s)}]
      BY <2>2 DEF Sums
    <3>3. QED
      BY <3>1, <3>2
  <2>4. ASSUME NEW s \in UpTo(S, k), s # {} PROVE s \ {Some(s)} \in UpTo(S, k - 1)
    BY <2>4, <2>1, SomeFacts DEF UpTo
  <2>5. ASSUME NEW s \in UpTo(S, k)
        PROVE  f[s] = IF s = {} THEN 0 ELSE bag[Some(s)] + f[s \ {Some(s)}]
    <3>1. f[s] = IF s = {} THEN 0 ELSE bag[Some(s)] + g[s \ {Some(s)}]
      OBVIOUS
    <3> HIDE DEF f
    <3>2. QED
      BY <2>3, <2>4, <3>1
  <2>6. f = [s \in UpTo(S, k) |-> IF s = {} THEN 0 ELSE bag[Some(s)] + f[s \ {Some(s)}]]
    BY <2>5
  <2>7. QED
    BY <1>2, <2>6 DEF Sums
<1>5. QED
  BY <1>3, <1>4

(* Times(bag, S) is the value at S of a function that sums step by step.   *)
SumsOn(bag, S, f) ==
  \A s \in SUBSET S : f[s] = IF s = {} THEN 0 ELSE bag[Some(s)] + f[s \ {Some(s)}]

LEMMA TimesSums ==
  ASSUME NEW S, IsFiniteSet(S), NEW bag
  PROVE  \E f : SumsOn(bag, S, f) /\ Times(bag, S) = f[S]
<1>1. PICK n \in Nat : n = Cardinality(S)
  BY FS_CardinalityType
<1>2. PICK g : Sums(bag, S, n, g)
  BY SumsExist
<1>3. UpTo(S, n) = SUBSET S
  BY <1>1, SomeFacts DEF UpTo
<1>4. g = [s \in SUBSET S |-> IF s = {} THEN 0 ELSE bag[Some(s)] + g[s \ {Some(s)}]]
  BY <1>2, <1>3 DEF Sums
<1> DEFINE f == CHOOSE f : f = [s \in SUBSET S |-> IF s = {} THEN 0 ELSE bag[Some(s)] + f[s \ {Some(s)}]]
<1>5. f = [s \in SUBSET S |-> IF s = {} THEN 0 ELSE bag[Some(s)] + f[s \ {Some(s)}]]
  BY <1>4
<1>6. Times(bag, S) = f[S]
  BY DEF Times, MapThenSumSet, MapThenFoldSet, Some
<1> HIDE DEF f
<1>7. SumsOn(bag, S, f)
  BY <1>5 DEF SumsOn
<1>8. QED
  BY <1>6, <1>7

(* A sum of naturals is a natural, and zero only of zeros.                 *)
LEMMA TimesNat ==
  ASSUME NEW S, IsFiniteSet(S), NEW bag, \A o \in S : bag[o] \in Nat
  PROVE  /\ Times(bag, S) \in Nat
         /\ S # {} /\ (\A o \in S : bag[o] > 0) => Times(bag, S) > 0
         /\ (\A o \in S : bag[o] = 0) => Times(bag, S) = 0
<1>1. PICK f : SumsOn(bag, S, f) /\ Times(bag, S) = f[S]
  BY TimesSums
<1>a. \A s \in SUBSET S : /\ Cardinality(s) \in Nat
                          /\ s # {} => /\ Some(s) \in s /\ s \ {Some(s)} \in SUBSET S
                                       /\ Cardinality(s \ {Some(s)}) < Cardinality(s)
                                       /\ f[s] = bag[Some(s)] + f[s \ {Some(s)}]
  <2> SUFFICES ASSUME NEW s \in SUBSET S
               PROVE  /\ Cardinality(s) \in Nat
                      /\ s # {} => /\ Some(s) \in s /\ s \ {Some(s)} \in SUBSET S
                                   /\ Cardinality(s \ {Some(s)}) < Cardinality(s)
                                   /\ f[s] = bag[Some(s)] + f[s \ {Some(s)}]
    OBVIOUS
  <2>1. /\ Cardinality(s) \in Nat
        /\ s # {} => /\ Some(s) \in s /\ s \ {Some(s)} \in SUBSET S
                     /\ Cardinality(s \ {Some(s)}) = Cardinality(s) - 1
    BY SomeFacts
  <2>2. s # {} => f[s] = bag[Some(s)] + f[s \ {Some(s)}]
    BY <1>1 DEF SumsOn
  <2>3. QED
    BY <2>1, <2>2
<1> DEFINE Right(s) == f[s] \in Nat /\ ((\A o \in S : bag[o] = 0) => f[s] = 0)
           Bad == {k \in Nat : \E s \in SUBSET S : Cardinality(s) = k /\ ~Right(s)}
<1>2. Bad = {}
  <2>1. SUFFICES ASSUME Bad # {} PROVE FALSE
    OBVIOUS
  <2>2. PICK k \in Bad : \A j \in Nat : j < k => j \notin Bad
    <3>1. Bad \in SUBSET Nat
      OBVIOUS
    <3> HIDE DEF Bad
    <3>2. QED
      BY <2>1, <3>1, NatMin
  <2>3. PICK s \in SUBSET S : Cardinality(s) = k /\ ~Right(s)
    BY <2>2
  <2>4. s # {}
    <3>1. f[{}] = 0
      BY <1>1 DEF SumsOn
    <3>2. QED
      BY <2>3, <3>1
  <2>5. PICK t \in SUBSET S : t = s \ {Some(s)}
    BY <1>a, <2>4
  <2>6. Right(t)
    <3>1. Cardinality(t) \in Nat /\ Cardinality(t) < k
      BY <1>a, <2>3, <2>4, <2>5
    <3>2. Cardinality(t) \notin Bad
      BY <2>2, <3>1
    <3>3. QED
      BY <3>1, <3>2
  <2>7. f[s] = bag[Some(s)] + f[t] /\ Some(s) \in S
    BY <1>a, <2>4, <2>5
  <2>8. QED
    BY <2>3, <2>6, <2>7
<1>3. ASSUME NEW s \in SUBSET S PROVE Right(s)
  <2>1. Cardinality(s) \in Nat
    BY <1>a
  <2>2. QED
    BY <1>2, <2>1
<1>4. S # {} => f[S] = bag[Some(S)] + f[S \ {Some(S)}] /\ Some(S) \in S /\ f[S \ {Some(S)}] \in Nat
  BY <1>3, <1>a
<1>5. QED
  BY <1>1, <1>3, <1>4

(* One more observation is counted as one.                                 *)
LEMMA TimesMore ==
  ASSUME NEW S, IsFiniteSet(S), NEW bag, \A x \in S : bag[x] \in Nat,
         NEW o \in S, NEW more, \A x \in S : more[x] = IF x = o THEN bag[x] + 1 ELSE bag[x]
  PROVE  Times(more, S) = Times(bag, S) + 1
<1>1. PICK f : SumsOn(bag, S, f) /\ Times(bag, S) = f[S]
  BY TimesSums
<1>2. PICK g : SumsOn(more, S, g) /\ Times(more, S) = g[S]
  BY TimesSums
<1>a. \A s \in SUBSET S : Cardinality(s) \in Nat
  BY SomeFacts
<1>b. \A s \in SUBSET S : s # {} => /\ Some(s) \in s /\ s \ {Some(s)} \in SUBSET S
                                    /\ Cardinality(s \ {Some(s)}) < Cardinality(s)
  <2> SUFFICES ASSUME NEW s \in SUBSET S, s # {}
               PROVE  /\ Some(s) \in s /\ s \ {Some(s)} \in SUBSET S
                      /\ Cardinality(s \ {Some(s)}) < Cardinality(s)
    OBVIOUS
  <2>1. /\ Some(s) \in s /\ s \ {Some(s)} \in SUBSET S
        /\ Cardinality(s \ {Some(s)}) = Cardinality(s) - 1
    BY SomeFacts
  <2>2. QED
    BY <1>a, <2>1
<1> DEFINE Right(s) == f[s] \in Nat /\ g[s] = f[s] + (IF o \in s THEN 1 ELSE 0)
           Bad == {k \in Nat : \E s \in SUBSET S : Cardinality(s) = k /\ ~Right(s)}
<1>3. Bad = {}
  <2>1. SUFFICES ASSUME Bad # {} PROVE FALSE
    OBVIOUS
  <2>2. PICK k \in Bad : \A j \in Nat : j < k => j \notin Bad
    <3>1. Bad \in SUBSET Nat
      OBVIOUS
    <3> HIDE DEF Bad
    <3>2. QED
      BY <2>1, <3>1, NatMin
  <2>3. PICK s \in SUBSET S : Cardinality(s) = k /\ ~Right(s)
    BY <2>2
  <2>4. f[{}] = 0 /\ g[{}] = 0
    BY <1>1, <1>2 DEF SumsOn
  <2>5. s # {}
    BY <2>3, <2>4
  <2>6. PICK x \in s, t \in SUBSET S : x = Some(s) /\ t = s \ {x} /\ Cardinality(t) < k
    BY <1>b, <2>3, <2>5
  <2>7. Right(t)
    <3>1. Cardinality(t) \notin Bad
      BY <1>a, <2>2, <2>6
    <3>2. QED
      BY <1>a, <3>1
  <2>8. f[s] = bag[x] + f[t] /\ g[s] = more[x] + g[t]
    BY <1>1, <1>2, <2>5, <2>6 DEF SumsOn
  <2>9. bag[x] \in Nat /\ more[x] = IF x = o THEN bag[x] + 1 ELSE bag[x]
    BY <2>6
  <2>10. QED
    BY <2>3, <2>6, <2>7, <2>8, <2>9
<1>4. Right(S)
  BY <1>3, <1>a
<1>5. QED
  BY <1>1, <1>2, <1>4

-----------------------------------------------------------------------------
(***************************************************************************)
(* Quantiles: one of the values observed, and none below a lower quantile. *)
(***************************************************************************)
Observed(bag, what) == {o \in DOMAIN bag : what \in DOMAIN o /\ bag[o] > 0}

ValuesOf(bag, what) == {o[what] : o \in Observed(bag, what)}

Reaching(bag, what, i) ==
  {x \in ValuesOf(bag, what) : Times(bag, {o \in Observed(bag, what) : o[what] <= x}) > i}

Index(n, percent) == (Minus(n, 1) * percent) \div 100

(* Observations of a field, counted.                                       *)
Measurable(S) == IsFiniteSet(S) /\ \A o \in S : \A what \in DOMAIN o : o[what] \in Nat

LEMMA MinOf ==
  ASSUME NEW T \in SUBSET Nat, T # {}
  PROVE  Min(T) \in T /\ \A y \in T : Min(T) <= y
<1>1. \E x \in T : \A y \in T : x <= y
  BY NatMin
<1>2. QED
  BY <1>1 DEF Min

LEMMA LargestOf ==
  ASSUME NEW S, IsFiniteSet(S), S # {}, NEW v \in [S -> Nat]
  PROVE  \E o \in S : \A x \in S : v[x] <= v[o]
<1> DEFINE HasTop(T) == \E o \in T : \A x \in T : v[x] <= v[o]
           Bad == {k \in Nat : \E T \in SUBSET S : T # {} /\ Cardinality(T) = k /\ ~HasTop(T)}
<1>a. \A T \in SUBSET S : IsFiniteSet(T) /\ Cardinality(T) \in Nat
  BY FS_Subset, FS_CardinalityType
<1>1. Bad = {}
  <2>1. SUFFICES ASSUME Bad # {} PROVE FALSE
    OBVIOUS
  <2>2. PICK k \in Bad : \A j \in Nat : j < k => j \notin Bad
    <3>1. Bad \in SUBSET Nat
      OBVIOUS
    <3> HIDE DEF Bad
    <3>2. QED
      BY <2>1, <3>1, NatMin
  <2>3. PICK T \in SUBSET S : T # {} /\ Cardinality(T) = k /\ ~HasTop(T)
    BY <2>2
  <2>4. PICK t \in T : TRUE
    BY <2>3
  <2>5. PICK U \in SUBSET S : U = T \ {t} /\ Cardinality(U) \in Nat /\ Cardinality(U) < k
    <3>1. Cardinality(T \ {t}) = Cardinality(T) - 1
      BY <1>a, FS_RemoveElement
    <3>2. QED
      BY <1>a, <2>3, <3>1
  <2>6. U # {} => HasTop(U)
    <3>1. Cardinality(U) \notin Bad
      BY <2>2, <2>5
    <3>2. QED
      BY <2>5, <3>1
  <2>7. CASE U = {}
    <3>1. T = {t}
      BY <2>5, <2>7
    <3>2. QED
      BY <2>3, <3>1
  <2>8. CASE U # {}
    <3>1. PICK o \in U : \A x \in U : v[x] <= v[o]
      BY <2>6, <2>8
    <3>2. \A x \in T : x = t \/ x \in U
      BY <2>5
    <3>3. \A x \in T : v[x] \in Nat
      OBVIOUS
    <3>4. CASE v[t] <= v[o]
      BY <2>3, <2>5, <3>1, <3>2, <3>4
    <3>5. CASE ~(v[t] <= v[o])
      <4>1. \A x \in T : v[x] <= v[t]
        BY <2>5, <3>1, <3>2, <3>3, <3>5
      <4>2. QED
        BY <2>3, <4>1
    <3>6. QED
      BY <3>4, <3>5
  <2>9. QED
    BY <2>7, <2>8
<1>2. Cardinality(S) \notin Bad
  BY <1>1
<1>3. QED
  BY <1>2, <1>a

LEMMA QuantileOf ==
  ASSUME NEW bag, NEW what, NEW percent
  PROVE  Quantile(bag, what, percent) =
           IF Observed(bag, what) = {} THEN 0
           ELSE Min(Reaching(bag, what, Index(Times(bag, Observed(bag, what)), percent)))
BY DEF Quantile, Observed, ValuesOf, Reaching, Index

LEMMA IndexInside ==
  ASSUME NEW n \in Nat, n > 0, NEW p \in 0..100, NEW q \in p..100
  PROVE  /\ Index(n, p) \in Nat /\ Index(n, q) \in Nat
         /\ Index(n, p) <= Index(n, q) /\ Index(n, q) < n
<1>1. Minus(n, 1) = n - 1 /\ n - 1 \in Nat
  BY DEF Minus
<1>2. p \in Nat /\ q \in Nat /\ p <= q /\ q <= 100
  OBVIOUS
<1>3. PICK m \in Nat : m = n - 1
  BY <1>1
<1>4. m * p \in Nat /\ m * q \in Nat /\ m * p <= m * q /\ m * q <= m * 100
  BY <1>2, <1>3
<1>5. (m * p) \div 100 \in Nat /\ (m * q) \div 100 \in Nat /\ (m * p) \div 100 <= (m * q) \div 100 /\ (m * q) \div 100 <= m
  <2>1. PICK x \in Nat, y \in Nat : x = m * p /\ y = m * q
    BY <1>4
  <2>2. x <= y /\ y <= m * 100
    BY <1>4, <2>1
  <2>3. x \div 100 \in Nat /\ y \div 100 \in Nat /\ x \div 100 <= y \div 100 /\ y \div 100 <= m
    BY <1>3, <2>2
  <2>4. QED
    BY <2>1, <2>3
<1>6. QED
  BY <1>1, <1>3, <1>5 DEF Index

LEMMA QuantileIs ==
  ASSUME NEW S, Measurable(S), NEW bag \in [S -> Nat], NEW what,
         NEW p \in 0..100, NEW q \in p..100
  PROVE  /\ Quantile(bag, what, p) \in Nat /\ Quantile(bag, what, p) <= Quantile(bag, what, q)
         /\ Observed(bag, what) = {} => Quantile(bag, what, p) = 0
         /\ Observed(bag, what) # {} => Quantile(bag, what, p) \in ValuesOf(bag, what)
<1> DEFINE obs == Observed(bag, what)
           R(i) == Reaching(bag, what, i)
<1>1. CASE obs = {}
  BY <1>1, QuantileOf
<1>2. CASE obs # {}
  <2>1. /\ obs \in SUBSET S /\ IsFiniteSet(obs)
        /\ \A o \in obs : bag[o] \in Nat /\ bag[o] > 0 /\ o[what] \in Nat
    <3>1. obs \in SUBSET S
      BY DEF Observed
    <3>2. QED
      BY <3>1, FS_Subset DEF Observed, Measurable
  <2>2. ValuesOf(bag, what) \in SUBSET Nat /\ ValuesOf(bag, what) # {}
    BY <1>2, <2>1 DEF ValuesOf
  <2>3. PICK n \in Nat : n = Times(bag, obs) /\ n > 0
    <3> HIDE DEF obs
    <3>1. QED
      BY <1>2, <2>1, TimesNat
  <2>4. PICK top \in ValuesOf(bag, what) : \A x \in ValuesOf(bag, what) : x <= top
    <3> DEFINE v == [o \in obs |-> o[what]]
    <3>1. v \in [obs -> Nat]
      BY <2>1
    <3>2. PICK o \in obs : \A x \in obs : v[x] <= v[o]
      <4> HIDE DEF obs, v
      <4>1. QED
        BY <1>2, <2>1, <3>1, LargestOf
    <3>3. \A x \in obs : x[what] <= o[what]
      BY <3>2
    <3>4. QED
      BY <3>3 DEF ValuesOf
  <2>5. \A i \in Nat : i < n => top \in R(i)
    <3>1. {o \in obs : o[what] <= top} = obs
      BY <2>4 DEF ValuesOf
    <3>2. QED
      BY <2>3, <2>4, <3>1 DEF Reaching
  <2>6. \A i, j \in Nat : i <= j => R(j) \subseteq R(i)
    <3>1. ASSUME NEW i \in Nat, NEW j \in Nat, i <= j, NEW x \in R(j) PROVE x \in R(i)
      <4>1. {o \in obs : o[what] <= x} \in SUBSET obs
        OBVIOUS
      <4>2. PICK m \in Nat : m = Times(bag, {o \in obs : o[what] <= x})
        <5>1. PICK T \in SUBSET obs : T = {o \in obs : o[what] <= x}
          BY <4>1
        <5>2. IsFiniteSet(T) /\ \A o \in T : bag[o] \in Nat
          BY <2>1, FS_Subset
        <5>3. QED
          BY <5>1, <5>2, TimesNat
      <4>3. m > j
        BY <3>1, <4>2 DEF Reaching
      <4>4. QED
        BY <3>1, <4>2, <4>3 DEF Reaching
    <3>2. QED
      BY <3>1
  <2>7. /\ Index(n, p) \in Nat /\ Index(n, q) \in Nat /\ Index(n, p) <= Index(n, q)
        /\ Index(n, p) < n /\ Index(n, q) < n
    <3>1. /\ Index(n, p) \in Nat /\ Index(n, q) \in Nat
          /\ Index(n, p) <= Index(n, q) /\ Index(n, q) < n
      BY <2>3, IndexInside
    <3>2. QED
      BY <2>3, <3>1
  <2>8. \A i : R(i) \in SUBSET ValuesOf(bag, what)
    BY DEF Reaching
  <2>9. /\ Quantile(bag, what, p) = Min(R(Index(n, p)))
        /\ Quantile(bag, what, q) = Min(R(Index(n, q)))
    BY <1>2, <2>3, QuantileOf
  <2> HIDE DEF R
  <2>10. ASSUME NEW i \in Nat, i < n PROVE R(i) \in SUBSET Nat /\ R(i) # {}
    BY <2>2, <2>5, <2>8, <2>10
  <2>11. ASSUME NEW i \in Nat, i < n PROVE Min(R(i)) \in R(i) /\ \A y \in R(i) : Min(R(i)) <= y
    BY <2>10, <2>11, MinOf
  <2>12. Min(R(Index(n, q))) \in R(Index(n, p))
    BY <2>6, <2>7, <2>11
  <2>13. QED
    BY <1>2, <2>2, <2>7, <2>8, <2>9, <2>11, <2>12
<1>3. QED
  BY <1>1, <1>2

-----------------------------------------------------------------------------
(***************************************************************************)
(* The arithmetic of thousandths.                                          *)
(***************************************************************************)
Shares == 0..One

LEMMA ShareFacts ==
  /\ One \in Nat /\ One \in Shares /\ Shares \subseteq Nat
  /\ \A a \in Shares : a \in Nat /\ a <= One
  /\ \A a \in Nat : a <= a /\ (a <= One => a \in Shares)
BY DEF Shares, One

LEMMA ProductMono ==
  ASSUME NEW a \in Nat, NEW b \in Nat, NEW c \in Nat, NEW d \in Nat, a <= c, b <= d
  PROVE  a * b \in Nat /\ a * b <= c * d
OBVIOUS

LEMMA DivMono ==
  ASSUME NEW x \in Nat, NEW y \in Nat, x <= y
  PROVE  x \div One \in Nat /\ x \div One <= y \div One
BY DEF One

LEMMA PartMono ==
  ASSUME NEW a \in Nat, NEW b \in Nat, NEW c \in Nat, NEW d \in Nat, a <= c, b <= d
  PROVE  Part(a, b) \in Nat /\ Part(a, b) <= Part(c, d)
<1>1. PICK x \in Nat, y \in Nat : x = a * b /\ y = c * d /\ x <= y
  BY ProductMono
<1>2. QED
  BY <1>1, DivMono DEF Part

LEMMA PartIs ==
  ASSUME NEW a \in Nat, NEW b \in Shares
  PROVE  Part(a, b) \in 0..a
<1>1. Part(a, One) = a
  BY DEF Part, One
<1>2. b \in Nat /\ b <= One /\ One \in Nat /\ a <= a
  BY ShareFacts
<1>3. Part(a, b) \in Nat /\ Part(a, b) <= Part(a, One)
  BY <1>2, PartMono
<1>4. QED
  BY <1>1, <1>3

(* A blend lies between what it blends, and the nearer to the second the   *)
(* more that weighs.                                                       *)
Mix(base, observed, w) == base * (One - w) + observed * w

LEMMA MixIs ==
  ASSUME NEW x \in Nat, NEW y \in Nat, NEW w \in Shares, NEW m \in Nat
  PROVE  /\ Mix(x, y, w) \in Nat
         /\ m <= x /\ m <= y => One * m <= Mix(x, y, w)
         /\ x <= m /\ y <= m => Mix(x, y, w) <= One * m
<1>1. PICK u \in Nat : u = One - w /\ w \in Nat /\ u + w = One
  BY DEF Shares, One
<1>2. /\ x * u \in Nat /\ y * w \in Nat /\ m * u \in Nat /\ m * w \in Nat
      /\ m * u + m * w = One * m
  BY <1>1 DEF One
<1>3. m <= x => m * u <= x * u
  BY <1>1
<1>4. m <= y => m * w <= y * w
  BY <1>1
<1>5. x <= m => x * u <= m * u
  BY <1>1
<1>6. y <= m => y * w <= m * w
  BY <1>1
<1>7. Mix(x, y, w) = x * u + y * w
  BY <1>1 DEF Mix
<1>8. QED
  BY <1>2, <1>3, <1>4, <1>5, <1>6, <1>7

LEMMA MixMono ==
  ASSUME NEW x \in Nat, NEW y \in 0..x, NEW z \in y..x, NEW w \in Shares, NEW v \in 0..w
  PROVE  Mix(x, y, w) <= Mix(x, z, v)
<1>1. PICK d \in Nat, e \in Nat : w = v + d /\ x = z + e /\ v \in Nat /\ z \in Nat /\ y \in Nat /\ y <= z
  BY DEF Shares, One
<1>2. Mix(x, z, v) = Mix(x, z, w) + e * d
  <2>1. Mix(x, z, w) = Mix(x, z, v) - x * d + z * d
    BY <1>1 DEF Mix, One
  <2>2. x * d = z * d + e * d
    BY <1>1
  <2>3. PICK k \in Int, a \in Int, b \in Int, c \in Int :
          k = Mix(x, z, v) /\ a = x * d /\ b = z * d /\ c = e * d
    BY <1>1 DEF Mix, One
  <2>4. Mix(x, z, w) = k - a + b /\ a = b + c
    BY <2>1, <2>2, <2>3
  <2>5. k = (k - a + b) + c
    BY <2>4
  <2>6. QED
    BY <2>3, <2>4, <2>5
<1>3. Mix(x, y, w) <= Mix(x, z, w)
  <2>1. y * w <= z * w /\ y * w \in Nat /\ z * w \in Nat
    BY <1>1, ProductMono DEF Shares
  <2>2. x * (One - w) \in Int
    BY <1>1 DEF One
  <2>3. QED
    BY <2>1, <2>2 DEF Mix
<1>4. e * d \in Nat /\ Mix(x, y, w) \in Int /\ Mix(x, z, w) \in Int
  BY <1>1 DEF Mix, One
<1>5. QED
  BY <1>2, <1>3, <1>4

LEMMA BlendIs ==
  ASSUME NEW x \in Nat, NEW y \in Nat, NEW w \in Shares, NEW m \in Nat
  PROVE  /\ BlendTowards(x, y, w) \in Nat
         /\ m <= x /\ (y # 0 => m <= y) => m <= BlendTowards(x, y, w)
         /\ x <= m /\ y <= m => BlendTowards(x, y, w) <= m
<1>1. CASE y = 0
  BY <1>1 DEF BlendTowards
<1>2. CASE y # 0
  <2>1. PICK k \in Nat : k = Mix(x, y, w)
    BY MixIs
  <2>2. BlendTowards(x, y, w) = k \div One
    BY <1>2, <2>1 DEF BlendTowards, Mix
  <2>3. /\ m <= x /\ m <= y => One * m <= k
        /\ x <= m /\ y <= m => k <= One * m
    BY <2>1, MixIs
  <2>4. /\ k \div One \in Nat
        /\ One * m <= k => m <= k \div One
        /\ k <= One * m => k \div One <= m
    BY DEF One
  <2>5. QED
    BY <1>2, <2>2, <2>3, <2>4
<1>3. QED
  BY <1>1, <1>2

LEMMA BlendMono ==
  ASSUME NEW x \in Nat, NEW y \in 1..x, NEW z \in y..x, NEW w \in Shares, NEW v \in 0..w
  PROVE  BlendTowards(x, y, w) <= BlendTowards(x, z, v)
<1>1. y \in Nat /\ y \in 0..x /\ z \in Nat /\ v \in Shares
  BY DEF Shares, One
<1>2. PICK k \in Nat, l \in Nat : k = Mix(x, y, w) /\ l = Mix(x, z, v)
  BY <1>1, MixIs
<1>3. k <= l
  BY <1>1, <1>2, MixMono
<1>4. BlendTowards(x, y, w) = k \div One /\ BlendTowards(x, z, v) = l \div One
  BY <1>2 DEF BlendTowards, Mix
<1>5. QED
  BY <1>3, <1>4, DivMono

-----------------------------------------------------------------------------
(***************************************************************************)
(* What a snapshot says.                                                   *)
(***************************************************************************)
Sound(s) ==
  /\ s.calls \in 0..MaxCalls
  /\ s.p50 \in Nat /\ s.p95 \in Nat /\ s.p99 \in Nat /\ s.p50 <= s.p95 /\ s.p95 <= s.p99
  /\ s.latency50 \in Nat /\ s.latency95 \in Nat /\ s.width50 \in Nat
  /\ s.latStability \in Shares /\ s.fresh \in Shares
  /\ s.rowConf \in Shares /\ s.latConf \in Shares

LEMMA StabilityIs ==
  ASSUME NEW lo \in Nat, NEW hi \in Nat, NEW share \in Nat, NEW least \in Shares
  PROVE  /\ Stability(lo, hi, share, least) \in Shares
         /\ lo = hi => Stability(lo, hi, share, least) = One
<1>1. CASE lo = 0 \/ hi <= lo
  BY <1>1 DEF Stability, Shares, One
<1>2. CASE ~(lo = 0 \/ hi <= lo)
  <2>1. PICK d \in Nat : d = 100 * lo + share * (hi - lo) /\ 100 * lo <= d /\ d > 0
    <3>1. hi - lo \in Nat /\ share * (hi - lo) \in Nat
      BY <1>2
    <3>2. QED
      BY <1>2, <3>1
  <2>2. One * 100 * lo \in Nat /\ One * 100 * lo <= One * d
    BY <2>1 DEF One
  <2>3. (One * 100 * lo) \div d \in 0..One
    BY <2>1, <2>2 DEF One
  <2>4. QED
    BY <1>2, <2>1, <2>3 DEF Stability, Larger, Shares, One
<1>3. QED
  BY <1>1, <1>2

LEMMA CasesAre ==
  ASSUME NEW f \in Cases
  PROVE  /\ f.bound \in Nat /\ f.bound >= 1 /\ Upper(f) \in Nat /\ Upper(f) >= One
         /\ f.costWeight \in Nat /\ f.costWeight >= 1
         /\ Measurable(f.observations)
BY CasesAssumption DEF Upper, One, Measurable

LEMMA KnownIs ==
  ASSUME NEW n \in 0..MaxCalls, NEW d \in 0..MaxAge
  PROVE  /\ SampleConfidence[n] \in Shares /\ Freshness(d) \in Shares
         /\ Part(SampleConfidence[n], Freshness(d)) \in Shares
         /\ Part(SampleConfidence[n], Freshness(d)) <= SampleConfidence[n]
         /\ Part(SampleConfidence[n], Freshness(d)) <= Freshness(d)
<1>1. SampleConfidence[n] \in Shares /\ Freshness(d) \in Shares
  BY SampleAssumption, FreshnessIs DEF Shares
<1>2. PICK a \in Shares, b \in Shares : a = SampleConfidence[n] /\ b = Freshness(d)
  BY <1>1
<1>3. a \in Nat /\ b \in Nat /\ Part(a, b) = Part(b, a)
  BY DEF Part, Shares, One
<1>4. Part(a, b) \in 0..a /\ Part(b, a) \in 0..b
  BY <1>3, PartIs
<1>5. Part(a, b) \in Nat /\ Part(a, b) <= a /\ Part(a, b) <= b /\ Part(a, b) <= One
  BY <1>3, <1>4 DEF Shares, One
<1>6. QED
  BY <1>1, <1>2, <1>5, ShareFacts

LEMMA SnapshotSound ==
  ASSUME NEW f \in Cases, NEW bag \in [f.observations -> Nat], NEW d \in 0..MaxAge,
         Times(bag, DOMAIN bag) \in 0..MaxCalls
  PROVE  /\ Sound(Snapshot(bag, d)) /\ Snapshot(bag, d).calls = Times(bag, DOMAIN bag)
         /\ Snapshot(bag, d).fresh = Freshness(d)
         /\ Snapshot(bag, d).p50 = Quantile(bag, "len", 50)
         /\ Snapshot(bag, d).p95 = Quantile(bag, "len", 95)
         /\ Snapshot(bag, d).p99 = Quantile(bag, "len", 99)
         /\ Snapshot(bag, d).rowStability \in Shares
         /\ Snapshot(bag, d).rowStability = Stability(Quantile(bag, "len", 50), Quantile(bag, "len", 95), 22, 450)
         /\ Snapshot(bag, d).rowConf =
              Part(Part(SampleConfidence[Times(bag, DOMAIN bag)], Freshness(d)), Snapshot(bag, d).rowStability)
<1> DEFINE s == Snapshot(bag, d)
<1>1. PICK n \in 0..MaxCalls : n = Times(bag, DOMAIN bag)
  OBVIOUS
<1>2. /\ \A what : \A x \in 0..100 : \A y \in x..100 :
              Quantile(bag, what, x) \in Nat /\ Quantile(bag, what, x) <= Quantile(bag, what, y)
      /\ 50 \in 0..100 /\ 95 \in 50..100 /\ 95 \in 0..100 /\ 99 \in 95..100 /\ 99 \in 0..100
      /\ 99 \in 99..100
  <2>1. Measurable(f.observations)
    BY CasesAre
  <2>2. ASSUME NEW what, NEW x \in 0..100, NEW y \in x..100
        PROVE  Quantile(bag, what, x) \in Nat /\ Quantile(bag, what, x) <= Quantile(bag, what, y)
    BY <2>1, QuantileIs
  <2>3. /\ 50 \in 0..100 /\ 95 \in 50..100 /\ 95 \in 0..100 /\ 99 \in 95..100 /\ 99 \in 0..100
        /\ 99 \in 99..100
    OBVIOUS
  <2>4. QED
    BY <2>2, <2>3
<1>3. PICK p50 \in Nat, p95 \in Nat, p99 \in Nat :
        /\ p50 = Quantile(bag, "len", 50) /\ p95 = Quantile(bag, "len", 95)
        /\ p99 = Quantile(bag, "len", 99) /\ p50 <= p95 /\ p95 <= p99
  <2>1. Quantile(bag, "len", 50) \in Nat /\ Quantile(bag, "len", 50) <= Quantile(bag, "len", 95)
    BY <1>2
  <2>2. Quantile(bag, "len", 95) \in Nat /\ Quantile(bag, "len", 95) <= Quantile(bag, "len", 99)
    BY <1>2
  <2>3. Quantile(bag, "len", 99) \in Nat
    BY <1>2
  <2>4. QED
    BY <2>1, <2>2, <2>3
<1>4. PICK l50 \in Nat, l95 \in Nat, w50 \in Nat :
        /\ l50 = Quantile(bag, "latency", 50) /\ l95 = Quantile(bag, "latency", 95)
        /\ w50 = Quantile(bag, "width", 50)
  <2>1. Quantile(bag, "latency", 50) \in Nat
    BY <1>2
  <2>2. Quantile(bag, "latency", 95) \in Nat
    BY <1>2
  <2>3. Quantile(bag, "width", 50) \in Nat
    BY <1>2
  <2>4. QED
    BY <2>1, <2>2, <2>3
<1>5. PICK rs \in Shares, ls \in Shares : rs = Stability(p50, p95, 22, 450) /\ ls = Stability(l50, l95, 25, 350)
  <2>1. 450 \in Shares /\ 350 \in Shares
    BY DEF Shares, One
  <2>2. Stability(p50, p95, 22, 450) \in Shares /\ Stability(l50, l95, 25, 350) \in Shares
    BY <2>1, StabilityIs
  <2>3. QED
    BY <2>2
<1>6. PICK known \in Shares : known = Part(SampleConfidence[n], Freshness(d)) /\ Freshness(d) \in Shares
  BY KnownIs
<1>7. Part(known, rs) \in Shares /\ Part(known, ls) \in Shares
  <2>1. known \in Nat /\ known <= One
    BY ShareFacts
  <2>2. Part(known, rs) \in 0..known /\ Part(known, ls) \in 0..known
    BY <2>1, PartIs
  <2>3. \A x \in 0..known : x \in Shares
    BY <2>1 DEF Shares, One
  <2>4. QED
    BY <2>2, <2>3
<1>8. s = [calls |-> n, p50 |-> p50, p95 |-> p95, p99 |-> p99,
           latency50 |-> l50, latency95 |-> l95, width50 |-> w50,
           rowStability |-> rs, latStability |-> ls, fresh |-> Freshness(d),
           rowConf |-> Part(known, rs), latConf |-> Part(known, ls)]
  BY <1>1, <1>3, <1>4, <1>5, <1>6 DEF Snapshot
<1> HIDE DEF s
<1>9. QED
  <2>1. Sound(s)
    BY <1>3, <1>6, <1>7, <1>8 DEF Sound
  <2>2. QED
    BY <1>1, <1>3, <1>5, <1>6, <1>8, <2>1 DEF s

-----------------------------------------------------------------------------
(***************************************************************************)
(* How far statistics are adopted.                                         *)
(***************************************************************************)
LEMMA SmallerIs ==
  ASSUME NEW a \in Nat, NEW b \in Nat
  PROVE  /\ Smaller(a, b) \in Nat /\ Smaller(a, b) <= a /\ Smaller(a, b) <= b
         /\ Smaller(a, b) \in {a, b}
         /\ \A c, d \in Nat : a <= c /\ b <= d => Smaller(a, b) <= Smaller(c, d)
BY DEF Smaller

LEMMA LargerIs ==
  ASSUME NEW a \in Nat, NEW b \in Nat
  PROVE  Larger(a, b) \in Nat /\ Larger(a, b) >= a /\ Larger(a, b) >= b /\ Larger(a, b) \in {a, b}
BY DEF Larger

LEMMA DivByMono ==
  ASSUME NEW x \in Nat, NEW y \in Nat, x <= y, NEW n \in Nat, n > 0
  PROVE  x \div n \in Nat /\ y \div n \in Nat /\ x \div n <= y \div n
<1>1. PICK a \in Nat, b \in Nat, r \in Nat, s \in Nat :
        /\ a = x \div n /\ b = y \div n /\ r = x % n /\ s = y % n /\ s < n
        /\ x = n * a + r /\ y = n * b + s
  OBVIOUS
<1>2. a <= b
  <2>1. SUFFICES ASSUME b < a PROVE FALSE
    OBVIOUS
  <2>2. n * (b + 1) <= n * a
    BY <2>1, ProductMono
  <2>3. n * (b + 1) = n * b + n
    OBVIOUS
  <2>4. PICK k \in Nat, l \in Nat : k = n * a /\ l = n * b
    BY ProductMono
  <2>5. l + n <= k /\ k + r <= l + s
    BY <1>1, <2>2, <2>3, <2>4
  <2>6. QED
    BY <1>1, <2>5
<1>3. QED
  BY <1>1, <1>2

LEMMA AdoptionIs ==
  ASSUME NEW c \in Shares, NEW d \in Shares, c <= d, NEW way \in Nat, way > 0
  PROVE  Adoption(c, way) \in Shares /\ Adoption(c, way) <= Adoption(d, way)
<1>1. PICK x \in Nat, y \in Nat : x = Minus(c, 200) * One /\ y = Minus(d, 200) * One /\ x <= y
  BY DEF Minus, Shares, One
<1>2. x \div way \in Nat /\ y \div way \in Nat /\ x \div way <= y \div way
  BY <1>1, DivByMono
<1>3. PICK k \in Nat, l \in Nat : k = x \div way /\ l = y \div way /\ k <= l
  BY <1>2
<1>4. Adoption(c, way) = Smaller(One, k) /\ Adoption(d, way) = Smaller(One, l)
  BY <1>1, <1>3 DEF Adoption
<1>5. Smaller(One, k) \in Shares /\ Smaller(One, k) <= Smaller(One, l)
  BY <1>3 DEF Smaller, Shares, One
<1>6. QED
  BY <1>4, <1>5

LEMMA SampleOfIs ==
  ASSUME NEW s, NEW t, s.calls \in Nat, t.calls \in Nat, s.calls <= t.calls, NEW n \in Nat, n > 0
  PROVE  SampleOf(s, n) \in Shares /\ SampleOf(s, n) <= SampleOf(t, n)
<1>1. PICK x \in Nat, y \in Nat : x = s.calls * One /\ y = t.calls * One /\ x <= y
  BY DEF One
<1>2. PICK a \in Nat, b \in Nat : a = x \div n /\ b = y \div n /\ a <= b
  BY <1>1, DivByMono
<1>3. SampleOf(s, n) = Smaller(One, a) /\ SampleOf(t, n) = Smaller(One, b)
  BY <1>1, <1>2 DEF SampleOf
<1>4. Smaller(One, a) \in Shares /\ Smaller(One, a) <= Smaller(One, b)
  BY <1>2 DEF Smaller, Shares, One
<1>5. QED
  BY <1>3, <1>4

LEMMA CappedIs ==
  ASSUME NEW f, NEW w \in Nat, NEW v \in Nat, w <= v, NEW a \in Nat, NEW b \in Nat
  PROVE  /\ Capped(f, w, a, b) \in Nat /\ Capped(f, w, a, b) <= w
         /\ Capped(f, w, a, b) <= a \/ Capped(f, w, a, b) <= b
         /\ Capped(f, w, a, b) <= Capped(f, v, a, b)
BY DEF Capped, Smaller

(* The weight that calls and a confidence earn.                             *)
Earned(s, n, conf, way, most) == Part(most, Part(SampleOf(s, n), Adoption(conf, way)))

LEMMA EarnedIs ==
  ASSUME NEW s, NEW t, s.calls \in Nat, t.calls \in Nat, s.calls <= t.calls,
         NEW c \in Shares, NEW d \in Shares, c <= d,
         NEW n \in Nat, n > 0, NEW way \in Nat, way > 0, NEW most \in Nat
  PROVE  /\ Earned(s, n, c, way, most) \in 0..most
         /\ Earned(s, n, c, way, most) <= Earned(t, n, d, way, most)
<1>1. PICK a \in Shares, b \in Shares : a = SampleOf(s, n) /\ b = SampleOf(t, n) /\ a <= b
  <2>1. SampleOf(s, n) \in Shares /\ SampleOf(s, n) <= SampleOf(t, n) /\ SampleOf(t, n) \in Shares
    BY SampleOfIs
  <2>2. QED
    BY <2>1
<1>2. PICK g \in Shares, h \in Shares : g = Adoption(c, way) /\ h = Adoption(d, way) /\ g <= h
  <2>1. Adoption(c, way) \in Shares /\ Adoption(c, way) <= Adoption(d, way)
    BY AdoptionIs
  <2>2. Adoption(d, way) \in Shares
    <3>1. d <= d
      BY ShareFacts
    <3>2. QED
      BY <3>1, AdoptionIs
  <2>3. QED
    BY <2>1, <2>2
<1>3. a \in Nat /\ b \in Nat /\ g \in Nat /\ h \in Nat
  BY DEF Shares
<1>4. PICK x \in Nat, y \in Nat : x = Part(a, g) /\ y = Part(b, h) /\ x <= y /\ x \in Shares
  <2>1. Part(a, g) \in 0..a /\ Part(b, h) \in 0..b
    BY <1>3, PartIs
  <2>2. Part(a, g) <= Part(b, h)
    BY <1>1, <1>2, <1>3, PartMono
  <2>3. PICK x \in 0..a, y \in 0..b : x = Part(a, g) /\ y = Part(b, h) /\ x <= y
    BY <2>1, <2>2
  <2>4. x \in Shares /\ x \in Nat /\ y \in Nat
    <3>1. x \in Nat /\ y \in Nat /\ x <= a /\ a <= One
      BY <1>3, ShareFacts
    <3>2. QED
      BY <1>3, <3>1 DEF Shares, One
  <2>5. QED
    BY <2>3, <2>4
<1>5. Part(most, x) \in 0..most /\ Part(most, x) <= Part(most, y)
  <2>1. Part(most, x) \in 0..most
    BY <1>4, PartIs
  <2>2. most <= most
    OBVIOUS
  <2>3. Part(most, x) <= Part(most, y)
    BY <1>4, <2>2, PartMono
  <2>4. QED
    BY <2>1, <2>3
<1>6. QED
  BY <1>1, <1>2, <1>4, <1>5 DEF Earned

LEMMA EarnedInside ==
  ASSUME NEW s, s.calls \in Nat, NEW c \in Shares
  PROVE  /\ Earned(s, 10, c, 500, 700) \in 0..700
         /\ Earned(s, 12, c, 550, 500) \in 0..500
         /\ Earned(s, 12, c, 550, 450) \in 0..450
<1>1. s.calls <= s.calls /\ c <= c
  BY DEF Shares, One
<1>2. ASSUME NEW n \in Nat, n > 0, NEW way \in Nat, way > 0, NEW most \in Nat
      PROVE  Earned(s, n, c, way, most) \in 0..most
  BY <1>1, <1>2, EarnedIs
<1>3. PICK n \in Nat, way \in Nat, most \in Nat : n = 10 /\ way = 500 /\ most = 700 /\ n > 0 /\ way > 0
  OBVIOUS
<1>4. PICK m \in Nat, long \in Nat, more \in Nat, less \in Nat :
        m = 12 /\ long = 550 /\ more = 500 /\ less = 450 /\ m > 0 /\ long > 0
  OBVIOUS
<1>5. n > 0 /\ way > 0 /\ m > 0 /\ long > 0
  BY <1>3, <1>4
<1>6. /\ Earned(s, n, c, way, most) \in 0..most
      /\ Earned(s, m, c, long, more) \in 0..more /\ Earned(s, m, c, long, less) \in 0..less
  BY <1>2, <1>5
<1>7. QED
  BY <1>3, <1>4, <1>6

LEMMA EarnedMore ==
  ASSUME NEW s, NEW t, s.calls \in Nat, t.calls \in Nat, s.calls <= t.calls,
         NEW c \in Shares, NEW d \in Shares, c <= d
  PROVE  Earned(s, 10, c, 500, 700) <= Earned(t, 10, d, 500, 700)
<1>1. PICK n \in Nat, way \in Nat, most \in Nat : n = 10 /\ way = 500 /\ most = 700 /\ n > 0 /\ way > 0
  OBVIOUS
<1>2. Earned(s, n, c, way, most) <= Earned(t, n, d, way, most)
  BY <1>1, EarnedIs
<1>3. QED
  BY <1>1, <1>2

RowPull(s) == Earned(s, 10, s.rowConf, 500, 700)

Bonus(s) == IF StableList(s) THEN 100 ELSE 0

LEMMA RowPullIs ==
  ASSUME NEW s, Sound(s)
  PROVE  /\ s.calls \in Nat /\ s.rowConf \in Shares /\ s.rowConf \in Nat
         /\ RowPull(s) \in Nat /\ RowPull(s) <= 700 /\ Bonus(s) \in Nat
         /\ 150 + RowPull(s) + Bonus(s) \in Nat
<1>1. s.calls \in 0..MaxCalls /\ s.rowConf \in Shares
  BY DEF Sound
<1>2. s.calls \in Nat /\ s.rowConf \in Nat
  BY <1>1, BoundsAssumption DEF Shares
<1>3. RowPull(s) \in 0..700
  BY <1>1, <1>2, EarnedInside DEF RowPull
<1>4. Bonus(s) \in Nat
  BY DEF Bonus
<1>5. QED
  BY <1>1, <1>2, <1>3, <1>4

LEMMA RowPullMore ==
  ASSUME NEW s, NEW t, Sound(s), Sound(t), s.calls <= t.calls, s.rowConf <= t.rowConf
  PROVE  RowPull(s) <= RowPull(t)
<1>1. s.calls \in Nat /\ t.calls \in Nat /\ s.rowConf \in Shares /\ t.rowConf \in Shares
  BY RowPullIs
<1>2. QED
  BY <1>1, EarnedMore DEF RowPull

LEMMA RowWeightIs ==
  ASSUME NEW f, NEW s, Sound(s)
  PROVE  /\ RowWeight(f, s) \in 0..850
         /\ RowWeight(f, s) <= 150 + RowPull(s) + Bonus(s)
         /\ \A t : /\ Sound(t) /\ s.calls <= t.calls /\ s.rowConf <= t.rowConf
                   /\ StableList(s) => StableList(t)
                   => RowWeight(f, s) <= RowWeight(f, t)
<1>1. \A t : RowWeight(f, t) = Capped(f, 150 + RowPull(t) + Bonus(t), 700, 850)
  BY DEF RowWeight, RowPull, Bonus, Earned
<1>2. RowWeight(f, s) \in 0..850 /\ RowWeight(f, s) <= 150 + RowPull(s) + Bonus(s)
  <2>1. PICK w \in Nat : w = 150 + RowPull(s) + Bonus(s)
    BY RowPullIs
  <2>2. /\ Capped(f, w, 700, 850) \in Nat /\ Capped(f, w, 700, 850) <= w
        /\ Capped(f, w, 700, 850) <= 700 \/ Capped(f, w, 700, 850) <= 850
    BY CappedIs
  <2>3. QED
    BY <1>1, <2>1, <2>2
<1>3. ASSUME NEW t, Sound(t), s.calls <= t.calls, s.rowConf <= t.rowConf, StableList(s) => StableList(t)
      PROVE  RowWeight(f, s) <= RowWeight(f, t)
  <2>1. RowPull(s) <= RowPull(t)
    BY <1>3, RowPullMore
  <2>2. Bonus(s) <= Bonus(t)
    BY <1>3 DEF Bonus
  <2>3. PICK w \in Nat, v \in Nat :
          w = 150 + RowPull(s) + Bonus(s) /\ v = 150 + RowPull(t) + Bonus(t) /\ w <= v
    BY <1>3, <2>1, <2>2, RowPullIs
  <2>4. Capped(f, w, 700, 850) <= Capped(f, v, 700, 850)
    BY <2>3, CappedIs
  <2>5. QED
    BY <1>1, <2>3, <2>4
<1>4. QED
  BY <1>2, <1>3

LEMMA CostWeightsAre ==
  ASSUME NEW f, NEW s, Sound(s)
  PROVE  LatencyWeight(f, s) \in Shares /\ WidthWeight(f, s) \in Shares
<1>1. s.calls \in Nat /\ s.rowConf \in Shares /\ s.latConf \in Shares
  BY BoundsAssumption DEF Sound
<1>2. PICK c \in Shares, d \in Shares : c = s.latConf /\ d = s.rowConf
  BY <1>1
<1>3. PICK a \in Nat, b \in Nat : a = 100 + Earned(s, 12, s.latConf, 550, 500)
                                  /\ b = 100 + Earned(s, 12, s.rowConf, 550, 450)
  <2>1. Earned(s, 12, c, 550, 500) \in 0..500 /\ Earned(s, 12, d, 550, 450) \in 0..450
    BY <1>1, EarnedInside
  <2>2. PICK x \in 0..500 : x = Earned(s, 12, s.latConf, 550, 500)
    BY <1>2, <2>1
  <2>3. PICK y \in 0..450 : y = Earned(s, 12, s.rowConf, 550, 450)
    BY <1>2, <2>1
  <2>4. 100 + x \in Nat /\ 100 + y \in Nat
    OBVIOUS
  <2>5. QED
    BY <2>2, <2>3, <2>4
<1>4. /\ Capped(f, a, 350, 550) \in Nat /\ (Capped(f, a, 350, 550) <= 350 \/ Capped(f, a, 350, 550) <= 550)
      /\ Capped(f, b, 400, 600) \in Nat /\ (Capped(f, b, 400, 600) <= 400 \/ Capped(f, b, 400, 600) <= 600)
  BY CappedIs
<1>5. LatencyWeight(f, s) = Capped(f, a, 350, 550) /\ WidthWeight(f, s) = Capped(f, b, 400, 600)
  BY <1>3 DEF LatencyWeight, WidthWeight, Earned
<1>6. \A x \in Nat : x <= 600 => x \in Shares
  BY DEF Shares, One
<1>7. QED
  BY <1>4, <1>5, <1>6

-----------------------------------------------------------------------------
(***************************************************************************)
(* Rows: between the bound and some length that was observed.              *)
(***************************************************************************)

(* The rows suggested are at least those of the median, or of the 95th     *)
(* percentile where the median is nothing.                                 *)
LEMMA ObservedIs ==
  ASSUME NEW s, Sound(s)
  PROVE  /\ ObservedRows(s) \in Nat
         /\ ObservedRows(s) > 0 => \E x \in {s.p50, s.p95} : x > 0 /\ One * x <= ObservedRows(s)
<1>1. PICK p \in Nat, q \in Nat, c \in Nat : p = s.p50 /\ q = s.p95 /\ c = s.rowConf /\ p <= q
  BY DEF Sound, Shares
<1>2. CASE StableList(s)
  BY <1>1, <1>2 DEF ObservedRows, One
<1>3. CASE ~StableList(s) /\ c >= 750 /\ p > 0
  BY <1>1, <1>3 DEF ObservedRows, One
<1>4. CASE ~StableList(s) /\ c >= 500 /\ (c < 750 \/ p = 0)
  <2>1. ObservedRows(s) = 650 * (IF p > 0 THEN p ELSE q) + 350 * q
    BY <1>1, <1>4 DEF ObservedRows
  <2>2. QED
    BY <1>1, <2>1 DEF One
<1>5. CASE ~StableList(s) /\ c \in 300..499
  <2>1. ObservedRows(s) = One * q
    BY <1>1, <1>5 DEF ObservedRows
  <2>2. QED
    BY <1>1, <2>1 DEF One
<1>6. CASE ~StableList(s) /\ c < 300
  <2>1. ObservedRows(s) = 0
    BY <1>1, <1>6 DEF ObservedRows
  <2>2. QED
    BY <2>1
<1>7. QED
  BY <1>1, <1>2, <1>3, <1>4, <1>5, <1>6

LEMMA ChosenIs ==
  ASSUME NEW f \in Cases, NEW s, Sound(s)
  PROVE  /\ ChosenRows(f, s) \in 0..Upper(f)
         /\ ChosenRows(f, s) > 0 =>
              \E x \in {s.p50, s.p95} : x > 0 /\ (One * x <= ChosenRows(f, s) \/ ChosenRows(f, s) = Upper(f))
         /\ ChosenRows(f, s) > 0 => ChosenRows(f, s) >= One
<1>1. PICK r \in Nat, u \in Nat : r = ObservedRows(s) /\ u = Upper(f) /\ u >= One
  BY ObservedIs, CasesAre
<1>2. ChosenRows(f, s) = Smaller(r, u)
  BY <1>1 DEF ChosenRows
<1>3. r > 0 => \E x \in {s.p50, s.p95} : x > 0 /\ One * x <= r
  BY <1>1, ObservedIs
<1>4. s.p50 \in Nat /\ s.p95 \in Nat
  BY DEF Sound
<1>5. r > 0 => r >= One
  BY <1>3, <1>4 DEF One
<1>6. QED
  BY <1>1, <1>2, <1>3, <1>5 DEF Smaller, One

(* The estimate of a list.                                                 *)
LEMMA RowsAre ==
  ASSUME NEW f \in Cases, NEW s, Sound(s), f.isList
  PROVE  /\ CardinalityOf(f, s).rows \in One..Upper(f)
         /\ Upper(f) <= CardinalityOf(f, s).upper
         /\ CardinalityOf(f, s).rows < Upper(f) =>
              s.calls >= 5 /\ \E x \in {s.p50, s.p95} : x > 0 /\ One * x <= CardinalityOf(f, s).rows
<1>1. PICK w \in Shares, y \in Nat, u \in Nat :
        /\ w = RowWeight(f, s) /\ y = ChosenRows(f, s) /\ u = Upper(f)
        /\ u >= One /\ y <= u
  <2>1. RowWeight(f, s) \in 0..850 /\ \A x \in 0..850 : x \in Shares
    BY RowWeightIs DEF Shares, One
  <2>2. Upper(f) \in Nat /\ Upper(f) >= One
    BY CasesAre
  <2>3. ChosenRows(f, s) \in 0..Upper(f)
    BY ChosenIs
  <2>4. PICK w \in Shares, u \in Nat : w = RowWeight(f, s) /\ u = Upper(f) /\ u >= One
    BY <2>1, <2>2
  <2>5. PICK y \in 0..u : y = ChosenRows(f, s)
    BY <2>3, <2>4
  <2>6. QED
    BY <2>4, <2>5
<1> DEFINE rows == CardinalityOf(f, s).rows
<1>2. rows = IF Adopted(f, s) THEN BlendTowards(u, y, w) ELSE u
  BY <1>1 DEF CardinalityOf
<1> DEFINE Right == /\ rows \in One..Upper(f)
                    /\ rows < Upper(f) => s.calls >= 5 /\ \E x \in {s.p50, s.p95} : x > 0 /\ One * x <= rows
<1>3. ASSUME ~Adopted(f, s) PROVE Right
  <2>1. rows = u
    BY <1>2, <1>3
  <2> HIDE DEF rows
  <2>2. rows \in One..u /\ ~(rows < u)
    BY <1>1, <2>1 DEF One
  <2>3. QED
    BY <1>1, <2>2
<1>4. ASSUME Adopted(f, s) PROVE Right
  <2>1. s.calls >= 5 /\ y > 0 /\ y >= One
    BY <1>1, <1>4, ChosenIs DEF Adopted
  <2>2. BlendTowards(u, y, w) \in y..u
    <3>1. \A m \in Nat : /\ BlendTowards(u, y, w) \in Nat
                         /\ m <= u /\ m <= y => m <= BlendTowards(u, y, w)
                         /\ u <= m /\ y <= m => BlendTowards(u, y, w) <= m
      BY BlendIs
    <3>2. QED
      BY <1>1, <3>1
  <2>3. PICK x \in {s.p50, s.p95} : x > 0 /\ (One * x <= y \/ y = u)
    BY <1>1, <2>1, ChosenIs
  <2>4. x \in Nat /\ One * x \in Nat
    BY DEF Sound, One
  <2>5. rows \in y..u
    BY <1>2, <1>4, <2>2
  <2> HIDE DEF rows
  <2>6. rows \in One..u
    BY <2>1, <2>5 DEF One
  <2>7. rows < u => One * x <= rows
    BY <2>3, <2>4, <2>5
  <2>8. QED
    BY <1>1, <2>1, <2>3, <2>6, <2>7
<1> HIDE DEF rows
<1>5. Upper(f) <= CardinalityOf(f, s).upper
  <2>1. CardinalityOf(f, s).upper = IF BoundRaised(f, s) THEN One * s.p99 ELSE u
    BY <1>1 DEF CardinalityOf
  <2>2. BoundRaised(f, s) => s.p99 > f.bound
    BY DEF BoundRaised
  <2>3. s.p99 \in Nat /\ f.bound \in Nat /\ u = One * f.bound
    BY <1>1, CasesAre DEF Sound, Upper
  <2>4. QED
    BY <1>1, <2>1, <2>2, <2>3 DEF One
<1>6. QED
  BY <1>3, <1>4, <1>5 DEF rows

-----------------------------------------------------------------------------
(***************************************************************************)
(* Confidence and cost.                                                    *)
(***************************************************************************)
Adoptable(s) == IF StableList(s) THEN Larger(s.rowConf, 700) ELSE s.rowConf

LEMMA ConfidenceIs ==
  ASSUME NEW f \in Cases, NEW s, Sound(s)
  PROVE  CardinalityOf(f, s).rowConf \in 250..One /\ (~f.isList => CardinalityOf(f, s).rowConf = One)
<1>1. PICK c \in Nat, w \in Shares : c = Adoptable(s) /\ c <= One /\ w = RowWeight(f, s)
  <2>1. Adoptable(s) \in Shares
    BY DEF Adoptable, Sound, Larger, Shares, One
  <2>2. PICK c \in Shares : c = Adoptable(s) /\ c \in Nat /\ c <= One
    BY <2>1, ShareFacts
  <2>3. RowWeight(f, s) \in Shares
    <3>1. RowWeight(f, s) \in 0..850
      BY RowWeightIs
    <3>2. QED
      BY <3>1 DEF Shares, One
  <2>4. QED
    BY <2>2, <2>3
<1>2. Part(c, w) \in 0..One
  <2>1. Part(c, w) \in 0..c
    BY <1>1, PartIs
  <2>2. QED
    BY <1>1, <2>1 DEF One
<1>3. ConfidenceOf(f, s) = IF Adopted(f, s) THEN Larger(250, Part(c, w)) ELSE 250
  BY <1>1 DEF ConfidenceOf, Adoptable
<1>4. ConfidenceOf(f, s) \in 250..One
  BY <1>2, <1>3 DEF Larger, One
<1>5. CardinalityOf(f, s).rowConf = IF f.isList THEN ConfidenceOf(f, s) ELSE One
  BY DEF CardinalityOf
<1>6. QED
  BY <1>4, <1>5 DEF One

-----------------------------------------------------------------------------
(***************************************************************************)
(* The invariant: what is recorded stays within bounds, and what a query   *)
(* is given is the snapshot and the annotation of the series as it is.     *)
(***************************************************************************)
TypedSeries ==
  /\ field \in Cases /\ seen \in [field.observations -> Nat] /\ age \in 0..MaxAge
  /\ Times(seen, DOMAIN seen) \in 0..MaxCalls
  /\ snap = Snapshot(seen, age) /\ est = Annotation(field, snap)

(* What each step leaves to be read: one observation more, or a day more.  *)
LEMMA RecordDoes ==
  ASSUME TypedSeries, Record
  PROVE  /\ field' = field /\ age' = 0 /\ seen' \in [field.observations -> Nat]
         /\ Times(seen', DOMAIN seen') = Times(seen, DOMAIN seen) + 1
         /\ Times(seen', DOMAIN seen') \in 0..MaxCalls
         /\ \E o \in field.observations :
              /\ seen'[o] = seen[o] + 1
              /\ \A x \in field.observations \ {o} : seen'[x] = seen[x]
<1> DEFINE S == field.observations
<1>1. PICK n \in Nat : n = Times(seen, DOMAIN seen) /\ n <= MaxCalls /\ S = DOMAIN seen
  BY BoundsAssumption DEF TypedSeries
<1>2. IsFiniteSet(S) /\ seen \in [S -> Nat]
  BY <1>1, CasesAre DEF TypedSeries, Measurable
<1>3. snap.calls = n
  BY <1>1, SnapshotSound DEF TypedSeries
<1>4. PICK o \in S : seen' = [seen EXCEPT ![o] = @ + 1]
  BY <1>1 DEF Record
<1>5. /\ seen' \in [S -> Nat] /\ DOMAIN seen' = S
      /\ \A x \in S : seen'[x] = IF x = o THEN seen[x] + 1 ELSE seen[x]
  BY <1>2, <1>4
<1>6. Times(seen', S) = Times(seen, S) + 1
  <2>1. \A x \in S : seen[x] \in Nat
    BY <1>2
  <2>2. PICK more : more = seen' /\ \A x \in S : more[x] = IF x = o THEN seen[x] + 1 ELSE seen[x]
    BY <1>5
  <2>3. Times(more, S) = Times(seen, S) + 1
    BY <1>2, <2>1, <2>2, TimesMore
  <2>4. QED
    BY <2>2, <2>3
<1>7. n < MaxCalls /\ age' = 0 /\ field' = field
  BY <1>3 DEF Record
<1>8. Times(seen', DOMAIN seen') = n + 1
  BY <1>1, <1>5, <1>6
<1>9. n + 1 \in 0..MaxCalls
  BY <1>7, BoundsAssumption
<1>10. QED
  BY <1>1, <1>5, <1>7, <1>8, <1>9

LEMMA DayDoes ==
  ASSUME TypedSeries, DayPasses
  PROVE  field' = field /\ seen' = seen /\ age' \in 0..MaxAge /\ (age' = age \/ age' = age + 1)
<1>1. age \in 0..MaxAge /\ age' = Smaller(age + 1, MaxAge) /\ field' = field /\ seen' = seen
  BY DEF DayPasses, TypedSeries
<1>2. QED
  BY <1>1, BoundsAssumption DEF Smaller

LEMMA TypedSeriesKept ==
  ASSUME TypedSeries, [EstimateNext]_estimateVars
  PROVE  TypedSeries'
<1>1. CASE Record
  <2>1. /\ field' = field /\ age' = 0 /\ seen' \in [field.observations -> Nat]
        /\ Times(seen', DOMAIN seen') \in 0..MaxCalls
    BY <1>1, RecordDoes
  <2>2. 0 \in 0..MaxAge /\ field \in Cases
    BY BoundsAssumption DEF TypedSeries
  <2>3. snap' = Snapshot(seen', age') /\ est' = Annotation(field', snap')
    BY <1>1 DEF Record, Planned
  <2>4. QED
    BY <2>1, <2>2, <2>3 DEF TypedSeries
<1>2. CASE DayPasses
  <2>1. field' = field /\ seen' = seen /\ age' \in 0..MaxAge
    BY <1>2, DayDoes
  <2>2. snap' = Snapshot(seen', age') /\ est' = Annotation(field', snap')
    BY <1>2 DEF DayPasses, Planned
  <2>3. QED
    BY <2>1, <2>2 DEF TypedSeries
<1>3. CASE UNCHANGED estimateVars
  BY <1>3 DEF TypedSeries, estimateVars
<1>4. QED
  BY <1>1, <1>2, <1>3 DEF EstimateNext

LEMMA TypedSeriesHolds == EstimateSpec => []TypedSeries
<1>1. EstimateInit => TypedSeries
  <2> SUFFICES ASSUME EstimateInit PROVE TypedSeries
    OBVIOUS
  <2>1. PICK S : S = field.observations /\ field \in Cases /\ seen = [o \in S |-> 0]
    BY DEF EstimateInit
  <2>2. DOMAIN seen = S /\ seen \in [S -> Nat] /\ \A o \in S : seen[o] = 0 /\ seen[o] \in Nat
    BY <2>1
  <2>3. IsFiniteSet(S)
    BY <2>1, CasesAre DEF Measurable
  <2>4. Times(seen, DOMAIN seen) = 0
    BY <2>2, <2>3, TimesNat
  <2>5. 0 \in 0..MaxCalls /\ 0 \in 0..MaxAge
    BY BoundsAssumption
  <2>6. age = 0 /\ snap = Snapshot(seen, age) /\ est = Annotation(field, snap)
    BY DEF EstimateInit
  <2>7. QED
    BY <2>1, <2>2, <2>4, <2>5, <2>6 DEF TypedSeries
<1>2. TypedSeries /\ [EstimateNext]_estimateVars => TypedSeries'
  BY TypedSeriesKept
<1>3. QED
  BY <1>1, <1>2, PTL DEF EstimateSpec

(* What the invariant says of the snapshot a query is given.               *)
LEMMA GivenIs ==
  ASSUME TypedSeries
  PROVE  /\ field \in Cases /\ Sound(snap) /\ est = Annotation(field, snap)
         /\ snap.calls = Times(seen, DOMAIN seen) /\ snap.calls \in Nat /\ snap.fresh = Freshness(age)
         /\ \A x \in {snap.p50, snap.p95} : x > 0 => x \in Lengths
<1>1. field \in Cases /\ Sound(snap) /\ snap.calls = Times(seen, DOMAIN seen) /\ snap.fresh = Freshness(age)
      /\ snap.p50 = Quantile(seen, "len", 50) /\ snap.p95 = Quantile(seen, "len", 95)
  BY SnapshotSound DEF TypedSeries
<1>2. ValuesOf(seen, "len") = Lengths
  BY DEF ValuesOf, Observed, Lengths
<1>3. Measurable(field.observations) /\ seen \in [field.observations -> Nat]
  BY CasesAre DEF TypedSeries
<1>4. ASSUME NEW p \in 0..100, Quantile(seen, "len", p) > 0
      PROVE  Quantile(seen, "len", p) \in Lengths
  <2>1. p \in p..100
    OBVIOUS
  <2>2. \/ Observed(seen, "len") = {} /\ Quantile(seen, "len", p) = 0
        \/ Quantile(seen, "len", p) \in ValuesOf(seen, "len")
    BY <1>3, <2>1, QuantileIs
  <2>3. QED
    BY <1>2, <1>4, <2>2
<1>5. snap.calls \in Nat
  BY <1>1, BoundsAssumption DEF Sound
<1>6. 50 \in 0..100 /\ 95 \in 0..100
  OBVIOUS
<1>7. QED
  BY <1>1, <1>4, <1>5, <1>6 DEF TypedSeries

(* RowsInRange, whatever is observed and however often: the rows expected  *)
(* of a list lie between some length observed of it and its bound, and     *)
(* below the bound only from the fifth call on.                            *)
THEOREM EstimatesInRange == EstimateSpec => []RowsInRange
<1>1. ASSUME TypedSeries PROVE RowsInRange
  <2> SUFFICES ASSUME field.isList
               PROVE  /\ est.rows \in One..Upper(field) /\ Upper(field) <= est.upper
                      /\ est.rows < Upper(field) =>
                           snap.calls >= 5 /\ \E x \in Lengths \ {0} : One * x <= est.rows
    BY DEF RowsInRange
  <2>1. /\ field \in Cases /\ Sound(snap) /\ est = Annotation(field, snap)
        /\ \A x \in {snap.p50, snap.p95} : x > 0 => x \in Lengths
    BY <1>1, GivenIs
  <2>2. est.rows = CardinalityOf(field, snap).rows /\ est.upper = CardinalityOf(field, snap).upper
    BY <2>1 DEF Annotation
  <2>3. /\ est.rows \in One..Upper(field) /\ Upper(field) <= est.upper
        /\ est.rows < Upper(field) =>
             snap.calls >= 5 /\ \E x \in {snap.p50, snap.p95} : x > 0 /\ One * x <= est.rows
    BY <2>1, <2>2, RowsAre
  <2>4. \A x \in {snap.p50, snap.p95} : x > 0 => x \in Lengths \ {0}
    BY <2>1
  <2>5. QED
    BY <2>3, <2>4
<1>2. QED
  BY <1>1, TypedSeriesHolds, PTL

-----------------------------------------------------------------------------
(***************************************************************************)
(* What a call costs.                                                      *)
(***************************************************************************)
LEMMA StartupIs ==
  ASSUME NEW f, NEW s, Sound(s)
  PROVE  Startup(f, s) >= One
<1>1. CASE s.latency50 = 0
  BY <1>1 DEF Startup, One
<1>2. CASE s.latency50 # 0
  <2>1. PICK y \in Nat, w \in Shares : y = Larger(One, 200 * s.latency50) /\ One <= y /\ w = LatencyWeight(f, s)
    <3>1. Larger(One, 200 * s.latency50) \in Nat /\ One <= Larger(One, 200 * s.latency50)
      BY DEF Sound, Larger, One
    <3>2. QED
      BY <3>1, CostWeightsAre
  <2>2. PICK m \in Nat : m = One
    BY DEF One
  <2>3. m <= BlendTowards(m, y, w) /\ BlendTowards(m, y, w) \in Nat
    <3>1. m <= m /\ m <= y
      BY <2>1, <2>2
    <3>2. QED
      BY <3>1, BlendIs
  <2>4. Startup(f, s) = BlendTowards(m, y, w)
    BY <1>2, <2>1, <2>2 DEF Startup
  <2>5. QED
    BY <2>2, <2>3, <2>4
<1>3. QED
  BY <1>1, <1>2

LEMMA WidthIs ==
  ASSUME NEW f, NEW s, Sound(s)
  PROVE  Width(f, s) \in Nat /\ Width(f, s) > 0
<1>1. PICK x \in Nat, y \in Nat, w \in Shares :
        /\ x = (IF f.isScalar THEN 32 ELSE IF f.isList THEN 128 ELSE 96) /\ 1 <= x
        /\ y = s.width50 /\ w = WidthWeight(f, s)
  BY CostWeightsAre DEF Sound
<1>2. y # 0 => 1 <= y
  OBVIOUS
<1>3. PICK m \in Nat : m = 1 /\ m <= x /\ (y # 0 => m <= y)
  BY <1>1, <1>2
<1>4. BlendTowards(x, y, w) \in Nat /\ m <= BlendTowards(x, y, w)
  BY <1>3, BlendIs
<1>5. Width(f, s) = BlendTowards(x, y, w)
  BY <1>1 DEF Width
<1>6. QED
  BY <1>3, <1>4, <1>5

LEMMA PerItemIs ==
  ASSUME NEW f, NEW s, Sound(s), NEW rows \in Nat, rows > 0
  PROVE  PerItem(f, s, rows) \in Nat
<1>1. PICK l \in Nat, w \in Nat, p \in Nat : l = s.latency95 /\ w = LatencyWeight(f, s) /\ p = s.p50
  BY CostWeightsAre DEF Sound, Shares
<1>2. 100 * l * (500 + w) \in Nat
  <2>1. 500 + w \in Nat /\ 100 * l \in Nat
    OBVIOUS
  <2>2. QED
    BY <2>1, ProductMono
<1>3. PICK a \in Nat, b \in Nat : a = 100 * l * (500 + w) /\ b = Larger(rows, One * p) /\ b > 0
  BY <1>2 DEF Larger, One
<1>4. a \div b \in Nat
  BY <1>3
<1>5. QED
  BY <1>1, <1>3, <1>4 DEF PerItem

LEMMA RiskIs ==
  ASSUME NEW s, Sound(s), NEW conf
  PROVE  Risk(s, conf) \in Nat
<1>1. PICK a \in Shares, b \in Shares : a = s.latStability /\ b = s.fresh
  BY DEF Sound
<1>2. UncertaintyPenalty(conf) \in Nat
  <2>1. UncertaintyPenalty(conf) \in {100, 400, 1250, 3000}
    BY DEF UncertaintyPenalty
  <2>2. QED
    BY <2>1
<1>3. 3 * (One - a) + 2 * (One - b) \in Nat
  BY DEF Shares, One
<1>4. QED
  BY <1>1, <1>2, <1>3 DEF Risk

LEMMA SelfIs ==
  ASSUME NEW f \in Cases, NEW s, Sound(s), NEW card, card.rows \in Nat, card.rows > 0
  PROVE  2 * SelfPerCall(f, s, card) > card.rows
<1>1. PICK rows \in Nat, c \in Nat, p \in Nat, k \in Nat, r \in Nat :
        /\ rows = card.rows /\ c = f.costWeight /\ p = PerItem(f, s, card.rows)
        /\ k = Width(f, s) /\ r = Risk(s, card.rowConf) /\ c >= 1
  BY CasesAre, PerItemIs, WidthIs, RiskIs
<1>2. PICK m \in Nat : m = k * rows
  BY ProductMono
<1>3. PICK d \in Nat : d = m \div 4096
  OBVIOUS
<1>4. PICK h \in Nat : h = rows \div 2 /\ 2 * h + 1 >= rows
  OBVIOUS
<1>5. SelfPerCall(f, s, card) = One * c + p + h + d + r
  BY <1>1, <1>2, <1>3, <1>4 DEF SelfPerCall
<1>6. 2 * (One * c + p + h + d + r) > rows
  BY <1>1, <1>4 DEF One
<1>7. QED
  BY <1>1, <1>5, <1>6

LEMMA CostConfidenceIs ==
  ASSUME NEW f, NEW s, Sound(s), NEW conf \in Nat
  PROVE  CostConfidence(f, s, conf) \in 0..conf
<1>1. PICK y \in Nat, w \in Shares : y = s.latConf /\ w = LatencyWeight(f, s)
  BY CostWeightsAre DEF Sound, Shares
<1>2. PICK b \in Nat : b = BlendTowards(conf, y, w)
  <2>1. BlendTowards(conf, y, w) \in Nat
    <3>1. conf \in Nat
      OBVIOUS
    <3>2. QED
      BY <3>1, BlendIs
  <2>2. QED
    BY <2>1
<1>3. CostConfidence(f, s, conf) = IF s.calls = 0 THEN conf ELSE Smaller(conf, b)
  BY <1>1, <1>2 DEF CostConfidence
<1>4. QED
  BY <1>3 DEF Smaller

(* AnnotationsAsAssumed, for every series of observations: what the        *)
(* optimizer relies on of the annotations it is given.                     *)
THEOREM AnnotationsHold == EstimateSpec => []AnnotationsAsAssumed
<1>1. ASSUME TypedSeries PROVE AnnotationsAsAssumed
  <2>1. field \in Cases /\ Sound(snap) /\ est = Annotation(field, snap)
    BY <1>1, GivenIs
  <2>2. PICK card : card = CardinalityOf(field, snap)
    OBVIOUS
  <2>3. /\ est.rows = card.rows /\ est.rowConf = card.rowConf /\ est.startup = Startup(field, snap)
        /\ est.self = SelfPerCall(field, snap, card) /\ est.width = Width(field, snap)
        /\ est.latConf = CostConfidence(field, snap, card.rowConf)
    BY <2>1, <2>2 DEF Annotation
  <2>4. card.rows \in Nat /\ card.rows > 0 /\ (~field.isList => card.rows = One)
    <3>1. CASE field.isList
      <4>1. card.rows \in One..Upper(field) /\ Upper(field) \in Nat
        BY <2>1, <2>2, <3>1, RowsAre, CasesAre
      <4>2. QED
        BY <3>1, <4>1 DEF One
    <3>2. CASE ~field.isList
      <4>1. card.rows = One
        BY <2>2, <3>2 DEF CardinalityOf
      <4>2. QED
        BY <4>1 DEF One
    <3>3. QED
      BY <3>1, <3>2
  <2>5. card.rowConf \in 250..One /\ (~field.isList => card.rowConf = One)
    BY <2>1, <2>2, ConfidenceIs
  <2>6. PICK conf \in Nat : conf = card.rowConf
    BY <2>5 DEF One
  <2>7. est.latConf \in 0..conf
    BY <2>1, <2>3, <2>6, CostConfidenceIs
  <2>8. 2 * est.self > est.rows
    BY <2>1, <2>3, <2>4, SelfIs
  <2>9. est.startup >= One /\ est.width > 0
    BY <2>1, <2>3, StartupIs, WidthIs
  <2>10. QED
    BY <2>3, <2>4, <2>5, <2>6, <2>7, <2>8, <2>9 DEF AnnotationsAsAssumed
<1>2. QED
  BY <1>1, TypedSeriesHolds, PTL

-----------------------------------------------------------------------------
(***************************************************************************)
(* What it takes to be trusted.                                            *)
(***************************************************************************)

(* Confidence is no more than the calls and the days since allow.          *)
LEMMA RowConfIs ==
  ASSUME TypedSeries
  PROVE  /\ snap.rowConf \in Nat /\ snap.rowConf <= SampleConfidence[snap.calls]
         /\ snap.rowConf <= Freshness(age)
         /\ snap.calls \in 0..MaxCalls /\ SampleConfidence[snap.calls] \in Nat /\ Freshness(age) \in Nat
<1>1. PICK n \in 0..MaxCalls : n = Times(seen, DOMAIN seen) /\ n = snap.calls
  BY SnapshotSound DEF TypedSeries
<1>2. age \in 0..MaxAge
  BY DEF TypedSeries
<1>3. PICK k \in Nat, a \in Nat, b \in Nat :
        /\ k = Part(SampleConfidence[n], Freshness(age)) /\ a = SampleConfidence[n] /\ b = Freshness(age)
        /\ k <= a /\ k <= b
  BY <1>2, KnownIs DEF Shares
<1>4. PICK r \in Shares : snap.rowConf = Part(k, r)
  <2>1. /\ snap.rowStability \in Shares
        /\ snap.rowConf = Part(Part(SampleConfidence[Times(seen, DOMAIN seen)], Freshness(age)), snap.rowStability)
    BY SnapshotSound DEF TypedSeries
  <2>2. QED
    BY <1>1, <1>3, <2>1
<1>5. Part(k, r) \in 0..k
  BY PartIs
<1>6. QED
  BY <1>1, <1>3, <1>4, <1>5

LEMMA PullAtMost ==
  ASSUME NEW a \in Nat, NEW g \in Nat, NEW m \in Nat, NEW h \in Nat, a <= m, g <= h
  PROVE  Part(700, Part(a, g)) <= Part(700, Part(m, h))
<1>1. PICK x \in Nat, y \in Nat : x = Part(a, g) /\ y = Part(m, h) /\ x <= y
  <2>1. Part(a, g) \in Nat /\ Part(a, g) <= Part(m, h)
    BY PartMono
  <2>2. m <= m /\ h <= h
    OBVIOUS
  <2>3. Part(m, h) \in Nat
    BY <2>2, PartMono
  <2>4. QED
    BY <2>1, <2>3
<1>2. PICK k \in Nat : k = 700 /\ k <= k
  OBVIOUS
<1>3. Part(k, x) <= Part(k, y)
  BY <1>1, <1>2, PartMono
<1>4. QED
  BY <1>1, <1>2, <1>3

(* Few calls earn at most 0.378 of 0.7, and old ones at most 0.07.         *)
LEMMA LittleEarned ==
  ASSUME NEW s, Sound(s)
  PROVE  /\ s.calls < 10 /\ s.rowConf <= 500 => RowPull(s) <= 378
         /\ s.rowConf <= 250 => RowPull(s) <= 70
<1>1. PICK n \in Nat, c \in Nat : n = s.calls /\ c = s.rowConf
  BY RowPullIs
<1>2. PICK a \in Nat : a = SampleOf(s, 10) /\ a <= 1000 /\ (n < 10 => a <= 900)
  <2>1. SampleOf(s, 10) = Smaller(One, (n * One) \div 10)
    BY <1>1 DEF SampleOf
  <2>2. (n * One) \div 10 = 100 * n
    BY DEF One
  <2>3. QED
    BY <2>1, <2>2 DEF Smaller, One
<1>3. PICK g \in Nat : g = Adoption(c, 500) /\ (c <= 500 => g <= 600) /\ (c <= 250 => g <= 100)
  <2>1. PICK m \in Nat : m = Minus(c, 200) /\ (c <= 500 => m <= 300) /\ (c <= 250 => m <= 50)
    BY DEF Minus
  <2>2. (m * One) \div 500 = 2 * m
    BY DEF One
  <2>3. Adoption(c, 500) = Smaller(One, 2 * m)
    BY <2>1, <2>2 DEF Adoption
  <2>4. QED
    BY <2>1, <2>3 DEF Smaller, One
<1>4. RowPull(s) = Part(700, Part(a, g))
  BY <1>1, <1>2, <1>3 DEF RowPull, Earned
<1>5. Part(700, Part(900, 600)) = 378 /\ Part(700, Part(1000, 100)) = 70
  BY DEF Part, One
<1>6. a <= 900 /\ g <= 600 => Part(700, Part(a, g)) <= 378
  <2>1. ASSUME a <= 900, g <= 600 PROVE Part(700, Part(a, g)) <= Part(700, Part(900, 600))
    <3>1. PICK m \in Nat, h \in Nat : m = 900 /\ h = 600
      OBVIOUS
    <3>2. a <= m /\ g <= h
      BY <2>1, <3>1
    <3>3. Part(700, Part(a, g)) <= Part(700, Part(m, h))
      BY <3>2, PullAtMost
    <3>4. QED
      BY <3>1, <3>3
  <2>2. QED
    BY <1>5, <2>1
<1>7. a <= 1000 /\ g <= 100 => Part(700, Part(a, g)) <= 70
  <2>1. ASSUME a <= 1000, g <= 100 PROVE Part(700, Part(a, g)) <= Part(700, Part(1000, 100))
    <3>1. PICK m \in Nat, h \in Nat : m = 1000 /\ h = 100
      OBVIOUS
    <3>2. a <= m /\ g <= h
      BY <2>1, <3>1
    <3>3. Part(700, Part(a, g)) <= Part(700, Part(m, h))
      BY <3>2, PullAtMost
    <3>4. QED
      BY <3>1, <3>3
  <2>2. QED
    BY <1>5, <2>1
<1>8. QED
  BY <1>1, <1>2, <1>3, <1>4, <1>6, <1>7

(* A confidence adopted is at most 0.7 of that of a steady list, or its    *)
(* own, each for the weight of the rows.                                   *)
LEMMA LittleTrusted ==
  ASSUME NEW f \in Cases, NEW s, Sound(s), f.isList, s.rowConf <= 500, RowPull(s) <= 378
  PROVE  CardinalityOf(f, s).rowConf <= 450
<1>1. PICK c \in Nat, w \in Nat : c = Adoptable(s) /\ c <= 700 /\ w = RowWeight(f, s) /\ w <= 628
  <2>1. s.rowConf \in Nat
    BY RowPullIs
  <2>2. Adoptable(s) \in Nat /\ Adoptable(s) <= 700
    BY <2>1 DEF Adoptable, Larger
  <2>3. PICK p \in Nat, b \in Nat, w \in Nat :
          p = RowPull(s) /\ b = Bonus(s) /\ w = RowWeight(f, s) /\ w <= 150 + p + b
    <3>1. RowWeight(f, s) \in 0..850 /\ RowWeight(f, s) <= 150 + RowPull(s) + Bonus(s)
      BY RowWeightIs
    <3>2. RowPull(s) \in Nat /\ Bonus(s) \in Nat
      BY RowPullIs
    <3>3. PICK w \in 0..850 : w = RowWeight(f, s) /\ w \in Nat
      BY <3>1
    <3>4. QED
      BY <3>1, <3>2, <3>3
  <2>4. b <= 100
    BY <2>3 DEF Bonus
  <2>5. QED
    BY <2>2, <2>3, <2>4
<1>2. Part(c, w) \in Nat /\ Part(c, w) <= 439
  <2>1. PICK m \in Nat, h \in Nat : m = 700 /\ h = 628
    OBVIOUS
  <2>2. c <= m /\ w <= h
    BY <1>1, <2>1
  <2>3. Part(c, w) \in Nat /\ Part(c, w) <= Part(m, h)
    BY <2>2, PartMono
  <2>4. Part(700, 628) = 439
    BY DEF Part, One
  <2>5. QED
    BY <2>1, <2>3, <2>4
<1>3. CardinalityOf(f, s).rowConf = IF Adopted(f, s) THEN Larger(250, Part(c, w)) ELSE 250
  BY <1>1 DEF CardinalityOf, ConfidenceOf, Adoptable
<1>4. QED
  BY <1>2, <1>3 DEF Larger

(* ConfidenceEarned, whatever is observed and in whatever order: the       *)
(* optimizer's caution about a list's parallelism is given up after ten    *)
(* calls and within a day of the last at the earliest.                     *)
THEOREM ConfidenceIsEarned == EstimateSpec => []ConfidenceEarned
<1>1. ASSUME TypedSeries PROVE ConfidenceEarned
  <2> SUFFICES ASSUME field.isList, ~(snap.calls >= 10 /\ age <= 1)
               PROVE  ~(est.rowConf > 450)
    BY DEF ConfidenceEarned
  <2>1. field \in Cases /\ Sound(snap) /\ est = Annotation(field, snap) /\ age \in 0..MaxAge /\ age \in Nat
    BY <1>1, GivenIs, BoundsAssumption DEF TypedSeries
  <2>2. est.rowConf = CardinalityOf(field, snap).rowConf
    BY <2>1 DEF Annotation
  <2>3. PICK c \in Nat, n \in 0..MaxCalls, p \in Nat, d \in Nat :
          /\ c = snap.rowConf /\ n = snap.calls /\ p = SampleConfidence[snap.calls] /\ d = Freshness(age)
          /\ c <= p /\ c <= d
    BY <1>1, RowConfIs
  <2>4. n \in Nat
    BY BoundsAssumption
  <2>5. CASE n < 10
    <3>1. 2 * p <= One
      BY <2>3, <2>5, SampleAssumption
    <3>2. c <= 500
      BY <2>3, <3>1 DEF One
    <3>3. RowPull(snap) <= 378
      BY <2>1, <2>3, <2>5, <3>2, LittleEarned
    <3>4. CardinalityOf(field, snap).rowConf <= 450
      BY <2>1, <2>3, <3>2, <3>3, LittleTrusted
    <3>5. CardinalityOf(field, snap).rowConf \in Nat
      BY <2>1, ConfidenceIs DEF One
    <3>6. QED
      BY <2>2, <3>4, <3>5
  <2>6. CASE age >= 2
    <3>1. d <= 250
      <4>1. age \in 1..MaxAge /\ age - 1 \in 1..MaxAge /\ (age - 1) - 1 \in 0..MaxAge
        BY <2>1, <2>6, BoundsAssumption
      <4>2. PICK e \in Nat, g \in Nat : e = Freshness(age - 1) /\ g = Freshness((age - 1) - 1) /\ g <= One
        <5>1. age - 1 \in 0..MaxAge
          BY <4>1, BoundsAssumption
        <5>2. Freshness(age - 1) \in 0..One /\ Freshness((age - 1) - 1) \in 0..One
          BY <4>1, <5>1, FreshnessIs
        <5>3. PICK e \in 0..One, g \in 0..One : e = Freshness(age - 1) /\ g = Freshness((age - 1) - 1)
          BY <5>2
        <5>4. e \in Nat /\ g \in Nat /\ g <= One
          BY DEF One
        <5>5. QED
          BY <5>3, <5>4
      <4>3. d = e \div 2 /\ e = g \div 2
        BY <2>3, <4>1, <4>2, FreshnessIs
      <4>4. QED
        BY <4>2, <4>3 DEF One
    <3>2. c <= 250
      BY <2>3, <3>1
    <3>3. RowPull(snap) <= 70 /\ RowPull(snap) \in Nat
      BY <2>1, <2>3, <3>2, LittleEarned, RowPullIs
    <3>4. CardinalityOf(field, snap).rowConf <= 450
      <4>1. snap.rowConf <= 500 /\ RowPull(snap) <= 378
        BY <2>3, <3>2, <3>3
      <4>2. QED
        BY <2>1, <4>1, LittleTrusted
    <3>5. CardinalityOf(field, snap).rowConf \in Nat
      BY <2>1, ConfidenceIs DEF One
    <3>6. QED
      BY <2>2, <3>4, <3>5
  <2>7. n < 10 \/ age >= 2
    BY <2>1, <2>3, <2>4
  <2>8. QED
    BY <2>5, <2>6, <2>7
<1>2. QED
  BY <1>1, TypedSeriesHolds, PTL

-----------------------------------------------------------------------------
(***************************************************************************)
(* What a day, and what an observation, makes of the rows.                 *)
(***************************************************************************)

(* Rows are no more where no fewer statistics are adopted, of no more rows *)
(* and with no less weight.                                                *)
LEMMA RowsMono ==
  ASSUME NEW f \in Cases, f.isList, NEW s, NEW t, Sound(s), Sound(t),
         Adopted(f, t) => Adopted(f, s) /\ ChosenRows(f, s) <= ChosenRows(f, t),
         RowWeight(f, t) <= RowWeight(f, s)
  PROVE  CardinalityOf(f, s).rows <= CardinalityOf(f, t).rows
<1>1. PICK u \in Nat : u = Upper(f)
  BY CasesAre
<1>2. CardinalityOf(f, s).rows \in One..u
  BY <1>1, RowsAre
<1>3. CASE ~Adopted(f, t)
  <2>1. CardinalityOf(f, t).rows = u
    BY <1>1, <1>3 DEF CardinalityOf
  <2>2. QED
    BY <1>2, <2>1
<1>4. CASE Adopted(f, t)
  <2>1. Adopted(f, s)
    BY <1>4
  <2>2. PICK y \in 1..u : y = ChosenRows(f, s) /\ ChosenRows(f, t) \in y..u
    <3>1. ChosenRows(f, s) \in 0..u /\ ChosenRows(f, t) \in 0..u
      BY <1>1, ChosenIs
    <3>2. ChosenRows(f, s) > 0 /\ ChosenRows(f, s) <= ChosenRows(f, t)
      BY <1>4, <2>1 DEF Adopted
    <3>3. QED
      BY <3>1, <3>2
  <2>3. PICK z \in y..u : z = ChosenRows(f, t)
    BY <2>2
  <2>4. PICK w \in Shares : w = RowWeight(f, s) /\ RowWeight(f, t) \in 0..w
    <3>1. RowWeight(f, s) \in 0..850 /\ RowWeight(f, t) \in 0..850
      BY RowWeightIs
    <3>2. PICK w \in 0..850 : w = RowWeight(f, s)
      BY <3>1
    <3>3. PICK v \in 0..850 : v = RowWeight(f, t)
      BY <3>1
    <3>4. v <= w
      BY <3>2, <3>3
    <3>5. w \in Shares /\ v \in 0..w
      BY <3>4 DEF Shares, One
    <3>6. QED
      BY <3>2, <3>3, <3>5
  <2>5. PICK v \in 0..w : v = RowWeight(f, t)
    BY <2>4
  <2>6. BlendTowards(u, y, w) <= BlendTowards(u, z, v)
    BY BlendMono
  <2>7. CardinalityOf(f, s).rows = BlendTowards(u, y, w)
    BY <1>1, <2>1, <2>2, <2>4 DEF CardinalityOf
  <2>8. CardinalityOf(f, t).rows = BlendTowards(u, z, v)
    BY <1>1, <1>4, <2>3, <2>5 DEF CardinalityOf
  <2>9. QED
    BY <2>6, <2>7, <2>8
<1>5. QED
  BY <1>3, <1>4

(* Of lengths that vary, by the median and the 95th percentile.             *)
RowsOf(p, q, conf) ==
  IF conf >= 750 /\ p > 0 THEN One * p
  ELSE IF conf >= 500 THEN 650 * (IF p > 0 THEN p ELSE q) + 350 * q
  ELSE IF conf >= 300 THEN One * q ELSE 0

LEMMA ObservedVarying ==
  ASSUME NEW r, ~StableList(r), NEW p \in Nat, NEW q \in Nat, r.p50 = p, r.p95 = q,
         NEW k \in Nat, r.rowConf = k
  PROVE  ObservedRows(r) = RowsOf(p, q, k)
<1>1. CASE k >= 750 /\ p > 0
  BY <1>1 DEF ObservedRows, RowsOf
<1>2. CASE k >= 500 /\ (k < 750 \/ p = 0)
  <2>1. ObservedRows(r) = 650 * (IF p > 0 THEN p ELSE q) + 350 * q
    BY <1>2 DEF ObservedRows
  <2>2. QED
    BY <1>2, <2>1 DEF RowsOf
<1>3. CASE k \in 300..499
  <2>1. ObservedRows(r) = One * q
    BY <1>3 DEF ObservedRows
  <2>2. QED
    BY <1>3, <2>1 DEF RowsOf
<1>4. CASE k < 300
  <2>1. ObservedRows(r) = 0
    BY <1>4 DEF ObservedRows
  <2>2. QED
    BY <1>4, <2>1 DEF RowsOf
<1>5. QED
  BY <1>1, <1>2, <1>3, <1>4

(* With less confidence a quantile no lower is taken, if any.              *)
LEMMA ObservedFades ==
  ASSUME NEW s, NEW t, Sound(s), Sound(t), s.p50 = t.p50, s.p95 = t.p95, t.rowConf <= s.rowConf,
         StableList(s) <=> StableList(t)
  PROVE  ObservedRows(t) > 0 => ObservedRows(s) > 0 /\ ObservedRows(s) <= ObservedRows(t)
<1>1. PICK p \in Nat, q \in Nat, c \in Nat, d \in Nat :
        /\ p = s.p50 /\ q = s.p95 /\ p = t.p50 /\ q = t.p95 /\ c = s.rowConf /\ d = t.rowConf
        /\ p <= q /\ d <= c
  BY DEF Sound, Shares
<1>2. CASE StableList(s)
  <2>1. StableList(t)
    BY <1>2
  <2>2. ObservedRows(s) = One * p /\ ObservedRows(t) = One * p
    BY <1>1, <1>2, <2>1 DEF ObservedRows
  <2>3. QED
    BY <2>2 DEF One
<1>3. CASE ~StableList(s)
  <2>1. ObservedRows(s) = RowsOf(p, q, c) /\ ObservedRows(t) = RowsOf(p, q, d)
    <3>1. ~StableList(t)
      BY <1>3
    <3>2. QED
      BY <1>1, <1>3, <3>1, ObservedVarying
  <2>2. RowsOf(p, q, d) > 0 => RowsOf(p, q, c) > 0 /\ RowsOf(p, q, c) <= RowsOf(p, q, d)
    BY <1>1 DEF One, RowsOf
  <2>3. QED
    BY <2>1, <2>2
<1>4. QED
  BY <1>2, <1>3

LEMMA DayFades ==
  ASSUME NEW f \in Cases, f.isList, NEW bag \in [f.observations -> Nat],
         Times(bag, DOMAIN bag) \in 0..MaxCalls, NEW d \in 0..MaxAge, NEW e \in 0..MaxAge, e = d + 1
  PROVE  CardinalityOf(f, Snapshot(bag, d)).rows <= CardinalityOf(f, Snapshot(bag, e)).rows
<1>1. PICK s, t : s = Snapshot(bag, d) /\ t = Snapshot(bag, e)
  OBVIOUS
<1>2. /\ Sound(s) /\ Sound(t) /\ s.calls = t.calls /\ s.p50 = t.p50 /\ s.p95 = t.p95 /\ s.p99 = t.p99
      /\ s.rowStability = t.rowStability
  BY <1>1, SnapshotSound
<1>3. s.calls \in Nat /\ s.rowConf \in Nat /\ t.rowConf \in Nat
  BY <1>2, RowPullIs
<1>4. t.rowConf <= s.rowConf
  <2>1. PICK n \in 0..MaxCalls, r \in Shares :
          /\ s.rowConf = Part(Part(SampleConfidence[n], Freshness(d)), r)
          /\ t.rowConf = Part(Part(SampleConfidence[n], Freshness(e)), r)
    <3>1. PICK n \in 0..MaxCalls : n = Times(bag, DOMAIN bag)
      OBVIOUS
    <3>2. PICK r \in Shares : r = s.rowStability
      BY <1>1, SnapshotSound
    <3>3. /\ s.rowConf = Part(Part(SampleConfidence[Times(bag, DOMAIN bag)], Freshness(d)), s.rowStability)
          /\ t.rowConf = Part(Part(SampleConfidence[Times(bag, DOMAIN bag)], Freshness(e)), t.rowStability)
      BY <1>1, SnapshotSound
    <3>4. QED
      BY <1>2, <3>1, <3>2, <3>3
  <2>2. PICK k \in Nat, a \in Nat, b \in Nat :
          k = SampleConfidence[n] /\ a = Freshness(d) /\ b = Freshness(e) /\ b <= a /\ k <= k
    <3>1. PICK k \in Shares, a \in Shares, b \in Shares :
            k = SampleConfidence[n] /\ a = Freshness(d) /\ b = Freshness(e)
      BY KnownIs
    <3>2. e \in 1..MaxAge /\ e - 1 = d
      BY BoundsAssumption
    <3>3. b = a \div 2
      BY <3>1, <3>2, FreshnessIs
    <3>4. k \in Nat /\ a \in Nat /\ b \in Nat
      BY DEF Shares
    <3>5. b <= a
      BY <3>3, <3>4
    <3>6. QED
      BY <3>1, <3>4, <3>5
  <2>3. PICK x \in Nat, y \in Nat : x = Part(k, b) /\ y = Part(k, a) /\ x <= y
    <3>1. Part(k, b) \in Nat /\ Part(k, b) <= Part(k, a)
      BY <2>2, PartMono
    <3>2. a <= a /\ k <= k
      BY <2>2
    <3>3. Part(k, a) \in Nat
      BY <3>2, PartMono
    <3>4. QED
      BY <3>1, <3>3
  <2>4. r \in Nat /\ r <= r
    BY DEF Shares
  <2>5. Part(x, r) <= Part(y, r)
    BY <2>3, <2>4, PartMono
  <2>6. QED
    BY <2>1, <2>2, <2>3, <2>5
<1>5. StableList(s) <=> StableList(t)
  BY <1>2 DEF StableList
<1>6. RowWeight(f, t) <= RowWeight(f, s)
  <2>1. t.calls <= s.calls
    BY <1>2, <1>3
  <2>2. QED
    BY <1>2, <1>4, <1>5, <2>1, RowWeightIs
<1>7. Adopted(f, t) => Adopted(f, s) /\ ChosenRows(f, s) <= ChosenRows(f, t)
  <2>1. PICK x \in Nat, y \in Nat, u \in Nat :
          x = ObservedRows(s) /\ y = ObservedRows(t) /\ u = Upper(f) /\ u >= One
    BY <1>2, ObservedIs, CasesAre
  <2>2. y > 0 => x > 0 /\ x <= y
    BY <1>2, <1>4, <1>5, <2>1, ObservedFades
  <2>3. ChosenRows(f, s) = Smaller(x, u) /\ ChosenRows(f, t) = Smaller(y, u)
    BY <2>1 DEF ChosenRows
  <2>4. Smaller(y, u) > 0 => Smaller(x, u) > 0 /\ Smaller(x, u) <= Smaller(y, u)
    BY <2>1, <2>2 DEF Smaller, One
  <2>5. QED
    BY <1>2, <2>3, <2>4 DEF Adopted
<1>8. QED
  BY <1>1, <1>2, <1>6, <1>7, RowsMono

(* StalenessFades, for every series of observations and every number of    *)
(* days: each day without a record leaves the estimate where it is or      *)
(* moves it towards the bound.                                             *)
THEOREM StaleFades == EstimateSpec => StalenessFades
<1>1. ASSUME TypedSeries, [EstimateNext]_estimateVars, age' > age
      PROVE  est'.rows >= est.rows
  <2>1. /\ field \in Cases /\ seen \in [field.observations -> Nat] /\ age \in 0..MaxAge
        /\ Times(seen, DOMAIN seen) \in 0..MaxCalls
        /\ snap = Snapshot(seen, age) /\ est = Annotation(field, snap)
    BY <1>1 DEF TypedSeries
  <2>2. DayPasses
    <3>1. ~Record
      BY <1>1, <2>1, RecordDoes, BoundsAssumption
    <3>2. age' # age
      BY <1>1, <2>1, BoundsAssumption
    <3>3. QED
      BY <1>1, <3>1, <3>2 DEF EstimateNext, estimateVars
  <2>3. /\ field' = field /\ seen' = seen /\ age' \in 0..MaxAge /\ age' = age + 1
    <3>1. field' = field /\ seen' = seen /\ age' \in 0..MaxAge /\ (age' = age \/ age' = age + 1)
      BY <1>1, <2>2, DayDoes
    <3>2. QED
      BY <1>1, <2>1, <3>1, BoundsAssumption
  <2>4. snap' = Snapshot(seen, age') /\ est' = Annotation(field, snap')
    BY <2>2, <2>3 DEF DayPasses, Planned
  <2>5. est.rows = CardinalityOf(field, snap).rows /\ est'.rows = CardinalityOf(field, snap').rows
    BY <2>1, <2>4 DEF Annotation
  <2>6. CASE field.isList
    <3>1. PICK f \in Cases : f = field
      BY <2>1
    <3>2. PICK bag \in [f.observations -> Nat], d \in 0..MaxAge, e \in 0..MaxAge :
            /\ bag = seen /\ d = age /\ e = age' /\ e = d + 1
            /\ f.isList /\ Times(bag, DOMAIN bag) \in 0..MaxCalls
      BY <2>1, <2>3, <2>6, <3>1
    <3>3. CardinalityOf(f, Snapshot(bag, d)).rows <= CardinalityOf(f, Snapshot(bag, e)).rows
      BY <3>2, DayFades
    <3>4. CardinalityOf(field, snap).rows <= CardinalityOf(field, snap').rows
      BY <2>1, <2>4, <3>1, <3>2, <3>3
    <3>5. /\ CardinalityOf(field, snap).rows \in One..Upper(field)
          /\ CardinalityOf(field, snap').rows \in One..Upper(field) /\ Upper(field) \in Nat
      <4>1. /\ CardinalityOf(f, Snapshot(bag, d)).rows \in One..Upper(f)
            /\ CardinalityOf(f, Snapshot(bag, e)).rows \in One..Upper(f) /\ Upper(f) \in Nat
        BY <3>2, SnapshotSound, RowsAre, CasesAre
      <4>2. QED
        BY <2>1, <2>4, <3>1, <3>2, <4>1
    <3>6. QED
      BY <2>5, <3>4, <3>5 DEF One
  <2>7. CASE ~field.isList
    <3>1. est.rows = One /\ est'.rows = One
      BY <2>5, <2>7 DEF CardinalityOf
    <3>2. QED
      BY <3>1 DEF One
  <2>8. QED
    BY <2>6, <2>7
<1>2. QED
  BY <1>1, TypedSeriesHolds, PTL DEF EstimateSpec, StalenessFades

(* Of lengths that agree every quantile is the one they agree on.          *)
LEMMA AgreedQuantile ==
  ASSUME NEW S, Measurable(S), NEW bag \in [S -> Nat], NEW what, NEW p \in 0..100, NEW x
  PROVE  /\ ValuesOf(bag, what) = {x} => Quantile(bag, what, p) = x
         /\ ValuesOf(bag, what) = {} => Quantile(bag, what, p) = 0
<1>1. p \in p..100
  OBVIOUS
<1>2. /\ Observed(bag, what) = {} => Quantile(bag, what, p) = 0
      /\ Observed(bag, what) # {} => Quantile(bag, what, p) \in ValuesOf(bag, what)
  BY <1>1, QuantileIs
<1>3. ValuesOf(bag, what) = {} <=> Observed(bag, what) = {}
  BY DEF ValuesOf
<1>4. QED
  BY <1>2, <1>3

LEMMA AgreedSnapshot ==
  ASSUME NEW f \in Cases, NEW bag \in [f.observations -> Nat], NEW d \in 0..MaxAge,
         Times(bag, DOMAIN bag) \in 0..MaxCalls, NEW x \in Nat,
         ValuesOf(bag, "len") = {x} \/ (ValuesOf(bag, "len") = {} /\ x = 0)
  PROVE  /\ Snapshot(bag, d).p50 = x /\ Snapshot(bag, d).p95 = x /\ Snapshot(bag, d).p99 = x
         /\ Snapshot(bag, d).rowStability = One
<1>1. \A p \in 0..100 : Quantile(bag, "len", p) = x
  BY AgreedQuantile, CasesAre
<1>2. 50 \in 0..100 /\ 95 \in 0..100 /\ 99 \in 0..100
  OBVIOUS
<1>3. Quantile(bag, "len", 50) = x /\ Quantile(bag, "len", 95) = x /\ Quantile(bag, "len", 99) = x
  BY <1>1, <1>2
<1>4. Stability(x, x, 22, 450) = One
  BY DEF Stability, One
<1>5. QED
  BY <1>3, <1>4, SnapshotSound

LEMMA AgreedRows ==
  ASSUME NEW s, Sound(s), NEW x \in Nat, s.p50 = x, s.p95 = x
  PROVE  ObservedRows(s) \in {0, One * x}
<1>1. PICK c \in Nat : c = s.rowConf
  BY DEF Sound, Shares
<1>2. CASE StableList(s)
  BY <1>2 DEF ObservedRows
<1>3. CASE ~StableList(s)
  <2>1. ObservedRows(s) = RowsOf(x, x, c)
    BY <1>1, <1>3, ObservedVarying
  <2>2. RowsOf(x, x, c) \in {0, One * x}
    BY DEF RowsOf, One
  <2>3. QED
    BY <2>1, <2>2
<1>4. QED
  BY <1>2, <1>3

(* An agreed length within the bound is never undershot.                   *)
LEMMA AgreedAbove ==
  ASSUME NEW f \in Cases, f.isList, NEW s, Sound(s), NEW x \in 1..f.bound, s.p50 = x, s.p95 = x
  PROVE  CardinalityOf(f, s).rows >= One * x
<1>1. PICK u \in Nat, w \in Shares, m \in Nat : u = Upper(f) /\ w = RowWeight(f, s) /\ m = One * x /\ m <= u /\ m > 0
  <2>1. RowWeight(f, s) \in 0..850
    BY RowWeightIs
  <2>2. RowWeight(f, s) \in Shares
    BY <2>1 DEF Shares, One
  <2>3. One * x \in Nat /\ One * x <= One * f.bound /\ One * x > 0 /\ One * f.bound \in Nat
    BY CasesAre DEF One
  <2>4. QED
    BY <2>2, <2>3 DEF Upper
<1>2. ObservedRows(s) \in {0, m}
  <2>1. x \in Nat
    BY CasesAre
  <2>2. QED
    BY <1>1, <2>1, AgreedRows
<1>3. ChosenRows(f, s) \in {0, m}
  BY <1>1, <1>2 DEF ChosenRows, Smaller
<1>4. CASE Adopted(f, s)
  <2>1. ChosenRows(f, s) = m
    BY <1>3, <1>4 DEF Adopted
  <2>2. m <= BlendTowards(u, m, w)
    <3>1. m <= m
      OBVIOUS
    <3>2. QED
      BY <1>1, <3>1, BlendIs
  <2>3. CardinalityOf(f, s).rows = BlendTowards(u, m, w)
    BY <1>1, <1>4, <2>1 DEF CardinalityOf
  <2>4. QED
    BY <1>1, <2>2, <2>3, BlendIs
<1>5. CASE ~Adopted(f, s)
  <2>1. CardinalityOf(f, s).rows = u
    BY <1>1, <1>5 DEF CardinalityOf
  <2>2. QED
    BY <1>1, <2>1
<1>6. QED
  BY <1>4, <1>5

(* A record made today is trusted no less than those before it.            *)
LEMMA RecordTrusted ==
  ASSUME NEW f \in Cases, NEW bag \in [f.observations -> Nat], NEW more \in [f.observations -> Nat],
         NEW d \in 0..MaxAge, NEW n \in 0..MaxCalls, NEW k \in 0..MaxCalls, k = n + 1,
         Times(bag, DOMAIN bag) = n, Times(more, DOMAIN more) = k, Snapshot(more, 0).rowStability = One
  PROVE  Snapshot(bag, d).rowConf <= Snapshot(more, 0).rowConf
<1>1. PICK a \in Nat, b \in Nat : a = SampleConfidence[n] /\ b = SampleConfidence[k] /\ a <= b
  <2>1. SampleConfidence[n] \in Nat /\ SampleConfidence[k] \in Nat
    BY KnownIs, FreshnessIs, ShareFacts, SampleAssumption
  <2>2. k \in 1..MaxCalls /\ k - 1 = n
    BY BoundsAssumption
  <2>3. SampleConfidence[n] <= SampleConfidence[k]
    BY <2>2, SampleAssumption
  <2>4. QED
    BY <2>1, <2>3
<1>2. PICK g \in Nat, o \in Nat : g = Freshness(d) /\ o = One /\ o = Freshness(0) /\ g <= o
  <2>1. Freshness(d) \in 0..One /\ Freshness(0) = One
    BY FreshnessIs
  <2>2. QED
    BY <2>1 DEF One
<1>3. PICK r \in Nat : r = Snapshot(bag, d).rowStability /\ r <= o
  <2>1. Snapshot(bag, d).rowStability \in Shares
    BY SnapshotSound
  <2>2. QED
    BY <1>2, <2>1 DEF Shares
<1>4. PICK x \in Nat, y \in Nat : x = Part(a, g) /\ y = Part(b, o) /\ x <= y
  <2>1. Part(a, g) \in Nat /\ Part(a, g) <= Part(b, o)
    BY <1>1, <1>2, PartMono
  <2>2. b <= b /\ o <= o
    OBVIOUS
  <2>3. Part(b, o) \in Nat
    BY <2>2, PartMono
  <2>4. QED
    BY <2>1, <2>3
<1>5. Part(x, r) <= Part(y, o)
  BY <1>3, <1>4, PartMono
<1>6. 0 \in 0..MaxAge
  BY BoundsAssumption
<1>7. Snapshot(bag, d).rowConf = Part(x, r)
  BY <1>1, <1>2, <1>3, <1>4, SnapshotSound
<1>8. Snapshot(more, 0).rowConf = Part(y, o)
  <2>1. Snapshot(more, 0).rowConf =
          Part(Part(SampleConfidence[Times(more, DOMAIN more)], Freshness(0)), Snapshot(more, 0).rowStability)
    BY <1>6, SnapshotSound
  <2>2. QED
    BY <1>1, <1>2, <1>4, <2>1
<1>9. QED
  BY <1>5, <1>7, <1>8

LEMMA AgreedNearer ==
  ASSUME NEW f \in Cases, f.isList, NEW bag \in [f.observations -> Nat], NEW more \in [f.observations -> Nat],
         NEW d \in 0..MaxAge, NEW n \in 0..MaxCalls, NEW k \in 0..MaxCalls, k = n + 1,
         Times(bag, DOMAIN bag) = n, Times(more, DOMAIN more) = k,
         NEW x \in 1..f.bound, ValuesOf(more, "len") = {x}, ValuesOf(bag, "len") \in {{}, {x}}
  PROVE  /\ One * x <= CardinalityOf(f, Snapshot(more, 0)).rows
         /\ CardinalityOf(f, Snapshot(more, 0)).rows <= CardinalityOf(f, Snapshot(bag, d)).rows
<1>1. PICK s, t : s = Snapshot(more, 0) /\ t = Snapshot(bag, d)
  OBVIOUS
<1>2. 0 \in 0..MaxAge /\ x \in Nat /\ x > 0 /\ n \in Nat
  BY BoundsAssumption, CasesAre
<1>3. s.p50 = x /\ s.p95 = x /\ s.p99 = x /\ s.rowStability = One
  BY <1>1, <1>2, AgreedSnapshot
<1>4. Sound(s) /\ Sound(t) /\ s.calls = n + 1 /\ t.calls = n
  BY <1>1, <1>2, SnapshotSound
<1>5. PICK y \in {0, x} : t.p50 = y /\ t.p95 = y /\ t.p99 = y
  <2>1. CASE ValuesOf(bag, "len") = {x}
    BY <1>1, <1>2, <2>1, AgreedSnapshot
  <2>2. CASE ValuesOf(bag, "len") = {}
    <3>1. PICK y \in Nat : y = 0
      OBVIOUS
    <3>2. t.p50 = y /\ t.p95 = y /\ t.p99 = y
      BY <1>1, <2>2, <3>1, AgreedSnapshot
    <3>3. QED
      BY <3>1, <3>2
  <2>3. QED
    BY <2>1, <2>2
<1>6. One * x <= CardinalityOf(f, s).rows
  <2>1. CardinalityOf(f, s).rows >= One * x
    BY <1>3, <1>4, AgreedAbove
  <2>2. CardinalityOf(f, s).rows \in One..Upper(f) /\ Upper(f) \in Nat
    BY <1>4, RowsAre, CasesAre
  <2>3. QED
    BY <1>2, <2>1, <2>2 DEF One
<1>7. t.rowConf <= s.rowConf /\ t.calls <= s.calls
  <2>1. Snapshot(more, 0).rowStability = One
    BY <1>1, <1>3
  <2>2. t.rowConf <= s.rowConf
    BY <1>1, <2>1, RecordTrusted
  <2>3. QED
    BY <1>2, <1>4, <2>2
<1>8. t.calls >= 5 => StableList(s)
  BY <1>2, <1>3, <1>4 DEF StableList, One
<1>9. RowWeight(f, t) <= RowWeight(f, s)
  <2>1. StableList(t) => StableList(s)
    BY <1>8 DEF StableList
  <2>2. QED
    BY <1>4, <1>7, <2>1, RowWeightIs
<1>10. Adopted(f, t) => Adopted(f, s) /\ ChosenRows(f, s) <= ChosenRows(f, t)
  <2> SUFFICES ASSUME Adopted(f, t) PROVE Adopted(f, s) /\ ChosenRows(f, s) <= ChosenRows(f, t)
    OBVIOUS
  <2>1. t.calls >= 5 /\ ChosenRows(f, t) > 0
    BY DEF Adopted
  <2>2. PICK u \in Nat : u = Upper(f)
    BY CasesAre
  <2>3. ObservedRows(s) = One * x
    BY <1>3, <1>8, <2>1 DEF ObservedRows
  <2>4. y \in Nat
    BY <1>2
  <2>5. ObservedRows(t) \in {0, One * y}
    BY <1>4, <1>5, <2>4, AgreedRows
  <2>6. Smaller(0, u) = 0
    BY DEF Smaller
  <2>7. ObservedRows(t) # 0
    BY <2>1, <2>2, <2>6 DEF ChosenRows
  <2>8. ObservedRows(t) = One * x
    <3>1. y # 0
      BY <2>5, <2>7 DEF One
    <3>2. QED
      BY <2>5, <2>7, <3>1
  <2>9. ChosenRows(f, s) = ChosenRows(f, t)
    BY <2>3, <2>8 DEF ChosenRows
  <2>10. s.calls >= 5
    BY <1>2, <1>4, <2>1
  <2>11. ChosenRows(f, t) \in 0..Upper(f)
    BY <1>4, ChosenIs
  <2>12. QED
    BY <2>1, <2>2, <2>9, <2>10, <2>11 DEF Adopted
<1>11. CardinalityOf(f, s).rows <= CardinalityOf(f, t).rows
  BY <1>4, <1>9, <1>10, RowsMono
<1>12. QED
  BY <1>1, <1>6, <1>11

(* AgreementConverges, for every series: an observation that agrees with   *)
(* all before it brings the estimate no further from their length.         *)
THEOREM AgreedConverges == EstimateSpec => AgreementConverges
<1>1. ASSUME TypedSeries, [EstimateNext]_estimateVars, NEW x \in 1..field.bound,
             Lengths' = {x}, snap'.calls > snap.calls
      PROVE  Distance(est'.rows, One * x) <= Distance(est.rows, One * x)
  <2>1. /\ field \in Cases /\ seen \in [field.observations -> Nat] /\ age \in 0..MaxAge
        /\ Times(seen, DOMAIN seen) \in 0..MaxCalls
        /\ snap = Snapshot(seen, age) /\ est = Annotation(field, snap)
    BY <1>1 DEF TypedSeries
  <2>2. snap.calls = Times(seen, DOMAIN seen) /\ snap.calls \in Nat
    BY <1>1, GivenIs
  <2>3. Record
    <3>1. ~DayPasses
      <4>1. ASSUME DayPasses PROVE snap'.calls = snap.calls
        <5>1. /\ field' = field /\ seen' = seen /\ age' \in 0..MaxAge /\ snap' = Snapshot(seen, age')
          BY <1>1, <4>1, DayDoes DEF DayPasses, Planned
        <5>2. PICK f \in Cases : f = field
          BY <2>1
        <5>3. PICK bag \in [f.observations -> Nat], e \in 0..MaxAge : bag = seen /\ e = age'
          BY <2>1, <5>1, <5>2
        <5>4. Snapshot(bag, e).calls = Times(bag, DOMAIN bag)
          BY <2>1, <5>2, <5>3, SnapshotSound
        <5>5. QED
          BY <2>2, <5>1, <5>3, <5>4
      <4>2. QED
        BY <1>1, <2>2, <4>1
    <3>2. snap' # snap
      BY <1>1, <2>2
    <3>3. QED
      BY <1>1, <3>1, <3>2 DEF EstimateNext, estimateVars
  <2>4. /\ field' = field /\ age' = 0 /\ seen' \in [field.observations -> Nat]
        /\ Times(seen', DOMAIN seen') = Times(seen, DOMAIN seen) + 1
        /\ Times(seen', DOMAIN seen') \in 0..MaxCalls
        /\ \E o \in field.observations :
             /\ seen'[o] = seen[o] + 1
             /\ \A z \in field.observations \ {o} : seen'[z] = seen[z]
    BY <1>1, <2>3, RecordDoes
  <2>5. snap' = Snapshot(seen', 0) /\ est' = Annotation(field, snap')
    BY <2>3, <2>4 DEF Record, Planned
  <2>6. est.rows = CardinalityOf(field, snap).rows /\ est'.rows = CardinalityOf(field, snap').rows
    BY <2>1, <2>5 DEF Annotation
  <2>7. CASE ~field.isList
    <3>1. est.rows = One /\ est'.rows = One
      BY <2>6, <2>7 DEF CardinalityOf
    <3>2. PICK e \in Nat : e = Distance(One, One * x)
      BY DEF Distance, Minus, One
    <3>3. QED
      BY <3>1, <3>2
  <2>8. CASE field.isList
    <3>1. PICK f \in Cases : f = field
      BY <2>1
    <3>2. PICK bag \in [f.observations -> Nat], more \in [f.observations -> Nat], d \in 0..MaxAge,
               n \in 0..MaxCalls, k \in 0..MaxCalls :
            /\ bag = seen /\ more = seen' /\ d = age /\ k = n + 1
            /\ Times(bag, DOMAIN bag) = n /\ Times(more, DOMAIN more) = k
      BY <2>1, <2>4, <3>1
    <3>3. ValuesOf(more, "len") = {x}
      <4>1. ValuesOf(more, "len") = Lengths'
        BY <3>2 DEF ValuesOf, Observed, Lengths
      <4>2. QED
        BY <1>1, <4>1
    <3>4. ValuesOf(bag, "len") \in {{}, {x}}
      <4>1. Observed(bag, "len") \subseteq Observed(more, "len")
        <5>1. DOMAIN bag = f.observations /\ DOMAIN more = f.observations
          OBVIOUS
        <5>2. \A o \in f.observations : bag[o] > 0 => more[o] > 0
          BY <2>4, <3>1, <3>2
        <5>3. QED
          BY <5>1, <5>2 DEF Observed
      <4>2. ValuesOf(bag, "len") \subseteq {x}
        BY <3>3, <4>1 DEF ValuesOf
      <4>3. QED
        BY <4>2
    <3>5. x \in 1..f.bound /\ f.isList
      BY <2>8, <3>1
    <3>6. /\ One * x <= CardinalityOf(f, Snapshot(more, 0)).rows
          /\ CardinalityOf(f, Snapshot(more, 0)).rows <= CardinalityOf(f, Snapshot(bag, d)).rows
      BY <3>2, <3>3, <3>4, <3>5, AgreedNearer
    <3>7. PICK a \in Nat, b \in Nat, m \in Nat :
            a = CardinalityOf(f, Snapshot(more, 0)).rows /\ b = CardinalityOf(f, Snapshot(bag, d)).rows /\ m = One * x
      <4>1. Sound(Snapshot(more, 0)) /\ Sound(Snapshot(bag, d))
        <5>1. 0 \in 0..MaxAge
          BY BoundsAssumption
        <5>2. QED
          BY <3>2, <5>1, SnapshotSound
      <4>2. /\ CardinalityOf(f, Snapshot(more, 0)).rows \in One..Upper(f)
            /\ CardinalityOf(f, Snapshot(bag, d)).rows \in One..Upper(f) /\ Upper(f) \in Nat
        BY <3>5, <4>1, RowsAre, CasesAre
      <4>3. PICK a \in One..Upper(f), b \in One..Upper(f) :
              a = CardinalityOf(f, Snapshot(more, 0)).rows /\ b = CardinalityOf(f, Snapshot(bag, d)).rows
        BY <4>2
      <4>4. a \in Nat /\ b \in Nat /\ One * x \in Nat
        BY <4>2, <3>5, CasesAre DEF One
      <4>5. QED
        BY <4>3, <4>4
    <3>8. Distance(a, m) <= Distance(b, m)
      BY <3>6, <3>7 DEF Distance, Minus
    <3>9. est'.rows = a /\ est.rows = b
      BY <2>1, <2>5, <2>6, <3>1, <3>2, <3>7
    <3>10. QED
      BY <3>7, <3>8, <3>9
  <2>9. QED
    BY <2>7, <2>8
<1>2. ASSUME TypedSeries, [EstimateNext]_estimateVars
      PROVE  \A x \in 1..field.bound :
               Lengths' = {x} /\ snap'.calls > snap.calls
                 => Distance(est'.rows, One * x) <= Distance(est.rows, One * x)
  BY <1>1, <1>2
<1>3. QED
  BY <1>2, TypedSeriesHolds, PTL DEF EstimateSpec, AgreementConverges
=============================================================================
