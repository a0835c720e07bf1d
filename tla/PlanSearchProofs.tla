--------------------------- MODULE PlanSearchProofs ---------------------------
(***************************************************************************)
(* Proofs about PlanSearch.tla, for every plan that is a tree, every       *)
(* annotation of its nodes and every configuration.                        *)
(***************************************************************************)
EXTENDS PlanSearch, FiniteSetTheorems, WellFoundedInduction, SequenceTheorems, TLAPS

(* Least-number principle: a set of naturals with a member has a first one. *)
LEMMA NatMin ==
  ASSUME NEW T \in SUBSET Nat, T # {}
  PROVE  \E x \in T : \A y \in Nat : y < x => y \notin T
<1> DEFINE R == OpToRel(<, Nat)
<1>1. IsWellFoundedOn(R, Nat)
  BY NatLessThanWellFounded
<1>2. \A x, y \in Nat : y < x => <<y, x>> \in R
  BY DEF OpToRel
<1> HIDE DEF R
<1>3. \E x \in T : \A y \in T : ~ (<<y, x>> \in R)
  BY <1>1, WFMin
<1>4. QED
  BY <1>2, <1>3

LEMMA LargestOf ==
  ASSUME NEW S, IsFiniteSet(S), S # {}, NEW v \in [S -> Nat]
  PROVE  \E o \in S : \A x \in S : v[x] <= v[o]
<1> DEFINE HasTop(T) == \E o \in T : \A x \in T : v[x] <= v[o]
           Bad == {k \in Nat : \E T \in SUBSET S : T # {} /\ Cardinality(T) = k /\ ~HasTop(T)}
<1>a. \A T \in SUBSET S : IsFiniteSet(T) /\ Cardinality(T) \in Nat
  BY FS_Subset, FS_CardinalityType
<1>1. Bad = {}
  <2>1. SUFFICES ASSUME Bad # {} PROVE FALSE
    OBVIOUS
  <2>2. PICK k \in Bad : \A j \in Nat : j < k => j \notin Bad
    <3>1. Bad \in SUBSET Nat
      OBVIOUS
    <3> HIDE DEF Bad
    <3>2. QED
      BY <2>1, <3>1, NatMin
  <2>3. PICK T \in SUBSET S : T # {} /\ Cardinality(T) = k /\ ~HasTop(T)
    BY <2>2
  <2>4. PICK t \in T : TRUE
    BY <2>3
  <2>5. PICK U \in SUBSET S : U = T \ {t} /\ Cardinality(U) \in Nat /\ Cardinality(U) < k
    <3>1. Cardinality(T \ {t}) = Cardinality(T) - 1
      BY <1>a, FS_RemoveElement
    <3>2. QED
      BY <1>a, <2>3, <3>1
  <2>6. U # {} => HasTop(U)
    <3>1. Cardinality(U) \notin Bad
      BY <2>2, <2>5
    <3>2. QED
      BY <2>5, <3>1
  <2>7. CASE U = {}
    <3>1. T = {t}
      BY <2>5, <2>7
    <3>2. QED
      BY <2>3, <3>1
  <2>8. CASE U # {}
    <3>1. PICK o \in U : \A x \in U : v[x] <= v[o]
      BY <2>6, <2>8
    <3>2. \A x \in T : x = t \/ x \in U
      BY <2>5
    <3>3. \A x \in T : v[x] \in Nat
      OBVIOUS
    <3>4. CASE v[t] <= v[o]
      BY <2>3, <2>5, <3>1, <3>2, <3>4
    <3>5. CASE ~(v[t] <= v[o])
      <4>1. \A x \in T : v[x] <= v[t]
        BY <2>5, <3>1, <3>2, <3>3, <3>5
      <4>2. QED
        BY <2>3, <4>1
    <3>6. QED
      BY <3>4, <3>5
  <2>9. QED
    BY <2>7, <2>8
<1>2. Cardinality(S) \notin Bad
  BY <1>1
<1>3. QED
  BY <1>2, <1>a

-----------------------------------------------------------------------------
(***************************************************************************)
(* Sums and maxima over the children of a node.                            *)
(***************************************************************************)
Some(s) == CHOOSE x \in s : TRUE

UpTo(S, k) == {s \in SUBSET S : Cardinality(s) <= k}

Sums(v, S, k, f) ==
  f = [s \in UpTo(S, k) |-> IF s = {} THEN 0 ELSE v[Some(s)] + f[s \ {Some(s)}]]

LEMMA SomeFacts ==
  ASSUME NEW S, IsFiniteSet(S), NEW s \in SUBSET S
  PROVE  /\ IsFiniteSet(s) /\ Cardinality(s) \in Nat
         /\ Cardinality(s) <= Cardinality(S) /\ (s = {} <=> Cardinality(s) = 0)
         /\ s # {} => /\ Some(s) \in s /\ s \ {Some(s)} \in SUBSET S
                      /\ Cardinality(s \ {Some(s)}) = Cardinality(s) - 1
<1>1. IsFiniteSet(s) /\ Cardinality(s) \in Nat /\ Cardinality(s) <= Cardinality(S)
  BY FS_Subset, FS_CardinalityType
<1>2. s = {} <=> Cardinality(s) = 0
  BY <1>1, FS_EmptySet
<1>3. s # {} => Some(s) \in s
  BY DEF Some
<1>4. s # {} => Cardinality(s \ {Some(s)}) = Cardinality(s) - 1
  BY <1>1, <1>3, FS_RemoveElement
<1>5. QED
  BY <1>1, <1>2, <1>3, <1>4

LEMMA SumsExist ==
  ASSUME NEW S, IsFiniteSet(S), NEW v, NEW n \in Nat
  PROVE  \E f : Sums(v, S, n, f)
<1> DEFINE Bad == {k \in Nat : ~ \E f : Sums(v, S, k, f)}
<1>1. SUFFICES ASSUME Bad # {} PROVE FALSE
  OBVIOUS
<1>a. \A s \in SUBSET S : Cardinality(s) \in Nat /\ (Cardinality(s) = 0 => s = {})
  BY SomeFacts
<1>2. PICK k \in Bad : \A j \in Nat : j < k => j \notin Bad
  <2>1. Bad \in SUBSET Nat
    OBVIOUS
  <2> HIDE DEF Bad
  <2>2. QED
    BY <1>1, <2>1, NatMin
<1>3. CASE k = 0
  <2> DEFINE f == [s \in UpTo(S, 0) |-> 0]
  <2>1. \A s \in UpTo(S, 0) : s = {}
    BY <1>a DEF UpTo
  <2>2. f = [s \in UpTo(S, 0) |-> IF s = {} THEN 0 ELSE v[Some(s)] + f[s \ {Some(s)}]]
    BY <2>1
  <2>3. QED
    BY <1>2, <1>3, <2>2 DEF Sums
<1>4. CASE k # 0
  <2>1. k - 1 \in Nat /\ k - 1 < k
    BY <1>4
  <2>2. PICK g : Sums(v, S, k - 1, g)
    BY <1>2, <2>1
  <2> DEFINE f == [s \in UpTo(S, k) |-> IF s = {} THEN 0 ELSE v[Some(s)] + g[s \ {Some(s)}]]
  <2>3. ASSUME NEW s \in UpTo(S, k - 1) PROVE f[s] = g[s]
    <3>1. s \in UpTo(S, k)
      BY <1>a, <2>1 DEF UpTo
    <3>2. g[s] = IF s = {} THEN 0 ELSE v[Some(s)] + g[s \ {Some(s)}]
      BY <2>2 DEF Sums
    <3>3. QED
      BY <3>1, <3>2
  <2>4. ASSUME NEW s \in UpTo(S, k), s # {} PROVE s \ {Some(s)} \in UpTo(S, k - 1)
    BY <2>4, <2>1, SomeFacts DEF UpTo
  <2>5. ASSUME NEW s \in UpTo(S, k)
        PROVE  f[s] = IF s = {} THEN 0 ELSE v[Some(s)] + f[s \ {Some(s)}]
    <3>1. f[s] = IF s = {} THEN 0 ELSE v[Some(s)] + g[s \ {Some(s)}]
      OBVIOUS
    <3> HIDE DEF f
    <3>2. QED
      BY <2>3, <2>4, <3>1
  <2>6. f = [s \in UpTo(S, k) |-> IF s = {} THEN 0 ELSE v[Some(s)] + f[s \ {Some(s)}]]
    BY <2>5
  <2>7. QED
    BY <1>2, <2>6 DEF Sums
<1>5. QED
  BY <1>3, <1>4


(* SumOver(v) is the value at S of a function that sums step by step.      *)
SumsOn(v, S, f) ==
  \A s \in SUBSET S : f[s] = IF s = {} THEN 0 ELSE v[Some(s)] + f[s \ {Some(s)}]

LEMMA SumOverIs ==
  ASSUME NEW v, NEW S, S = DOMAIN v, IsFiniteSet(S)
  PROVE  \E f : SumsOn(v, S, f) /\ SumOver(v) = f[S]
<1>1. PICK n \in Nat : n = Cardinality(S)
  BY FS_CardinalityType
<1>2. PICK g : Sums(v, S, n, g)
  BY SumsExist
<1>3. UpTo(S, n) = SUBSET S
  BY <1>1, SomeFacts DEF UpTo
<1>4. g = [s \in SUBSET S |-> IF s = {} THEN 0 ELSE v[Some(s)] + g[s \ {Some(s)}]]
  BY <1>2, <1>3 DEF Sums
<1> DEFINE f == CHOOSE f : f = [s \in SUBSET S |-> IF s = {} THEN 0 ELSE v[Some(s)] + f[s \ {Some(s)}]]
<1>5. f = [s \in SUBSET S |-> IF s = {} THEN 0 ELSE v[Some(s)] + f[s \ {Some(s)}]]
  BY <1>4
<1>6. SumOver(v) = f[S]
  BY DEF SumOver, MapThenSumSet, MapThenFoldSet, Some
<1> HIDE DEF f
<1>7. SumsOn(v, S, f)
  BY <1>5 DEF SumsOn
<1>8. QED
  BY <1>6, <1>7

(* A sum of naturals is a natural, no less than each and than the sum of   *)
(* smaller ones.                                                           *)
LEMMA SumMono ==
  ASSUME NEW S, IsFiniteSet(S), NEW v \in [S -> Nat], NEW w \in [S -> Nat],
         \A o \in S : v[o] <= w[o]
  PROVE  SumOver(v) \in Nat /\ SumOver(w) \in Nat /\ SumOver(v) <= SumOver(w)
         /\ \A o \in S : v[o] <= SumOver(v)
<1>1. PICK f : SumsOn(v, S, f) /\ SumOver(v) = f[S]
  BY SumOverIs
<1>2. PICK g : SumsOn(w, S, g) /\ SumOver(w) = g[S]
  BY SumOverIs
<1>3. ASSUME NEW s \in SUBSET S
      PROVE  /\ Cardinality(s) \in Nat
             /\ s # {} => /\ Some(s) \in s /\ s \ {Some(s)} \in SUBSET S
                          /\ Cardinality(s \ {Some(s)}) < Cardinality(s)
                          /\ f[s] = v[Some(s)] + f[s \ {Some(s)}]
                          /\ g[s] = w[Some(s)] + g[s \ {Some(s)}]
  <2>1. /\ Cardinality(s) \in Nat
        /\ s # {} => /\ Some(s) \in s /\ s \ {Some(s)} \in SUBSET S
                     /\ Cardinality(s \ {Some(s)}) = Cardinality(s) - 1
    BY SomeFacts
  <2>2. s # {} => f[s] = v[Some(s)] + f[s \ {Some(s)}] /\ g[s] = w[Some(s)] + g[s \ {Some(s)}]
    BY <1>1, <1>2 DEF SumsOn
  <2>3. QED
    BY <2>1, <2>2
<1> DEFINE Right(s) == f[s] \in Nat /\ g[s] \in Nat /\ f[s] <= g[s] /\ \A o \in s : v[o] <= f[s]
           Bad == {k \in Nat : \E s \in SUBSET S : Cardinality(s) = k /\ ~Right(s)}
<1>4. Bad = {}
  <2>1. SUFFICES ASSUME Bad # {} PROVE FALSE
    OBVIOUS
  <2>2. PICK k \in Bad : \A j \in Nat : j < k => j \notin Bad
    <3>1. Bad \in SUBSET Nat
      OBVIOUS
    <3> HIDE DEF Bad
    <3>2. QED
      BY <2>1, <3>1, NatMin
  <2>3. PICK s \in SUBSET S : Cardinality(s) = k /\ ~Right(s)
    BY <2>2
  <2>4. s # {}
    <3>1. f[{}] = 0 /\ g[{}] = 0
      BY <1>1, <1>2 DEF SumsOn
    <3>2. QED
      BY <2>3, <3>1
  <2>5. PICK t \in SUBSET S : t = s \ {Some(s)}
    BY <1>3, <2>4
  <2>6. Right(t)
    <3>1. Cardinality(t) \in Nat /\ Cardinality(t) < k
      BY <1>3, <2>3, <2>4, <2>5
    <3>2. Cardinality(t) \notin Bad
      BY <2>2, <3>1
    <3>3. QED
      BY <3>1, <3>2
  <2>7. PICK x \in S : x = Some(s) /\ f[s] = v[x] + f[t] /\ g[s] = w[x] + g[t] /\ s = t \cup {x}
    <3>1. Some(s) \in s /\ f[s] = v[Some(s)] + f[t] /\ g[s] = w[Some(s)] + g[t]
      BY <1>3, <2>4, <2>5
    <3>2. s = t \cup {Some(s)}
      BY <2>5, <3>1
    <3>3. QED
      BY <3>1, <3>2
  <2>8. v[x] \in Nat /\ w[x] \in Nat /\ v[x] <= w[x]
    OBVIOUS
  <2>9. f[s] \in Nat /\ g[s] \in Nat /\ f[s] <= g[s]
    BY <2>6, <2>7, <2>8
  <2>10. \A o \in t : v[o] <= f[t] /\ v[o] \in Nat
    BY <2>6
  <2>11. \A o \in s : v[o] <= f[s]
    <3>1. PICK a \in Nat, b \in Nat : a = f[t] /\ b = v[x] /\ f[s] = b + a
      BY <2>6, <2>7, <2>8
    <3>2. b <= f[s] /\ \A o \in t : v[o] <= f[s]
      BY <2>10, <3>1
    <3>3. QED
      BY <2>7, <3>1, <3>2
  <2>12. QED
    BY <2>3, <2>9, <2>11
<1>5. Right(S)
  <2>1. Cardinality(S) \in Nat
    BY <1>3
  <2>2. QED
    BY <1>4, <2>1
<1>6. QED
  BY <1>1, <1>2, <1>5

LEMMA SumNat ==
  ASSUME NEW S, IsFiniteSet(S), NEW v \in [S -> Nat]
  PROVE  SumOver(v) \in Nat /\ \A o \in S : v[o] <= SumOver(v)
<1>1. \A o \in S : v[o] <= v[o]
  OBVIOUS
<1>2. QED
  BY <1>1, SumMono

(* A maximum bounds what it is taken of, and is bounded by what bounds it. *)
LEMMA MaxOverIs ==
  ASSUME NEW S, IsFiniteSet(S), NEW v \in [S -> Nat], NEW least \in Nat
  PROVE  /\ MaxOver(least, v) \in Nat /\ least <= MaxOver(least, v)
         /\ \A o \in S : v[o] <= MaxOver(least, v)
         /\ \A b \in Nat : least <= b /\ (\A o \in S : v[o] <= b) => MaxOver(least, v) <= b
<1> DEFINE T == {least} \cup {v[m] : m \in DOMAIN v}
<1>1. T \in SUBSET Nat /\ least \in T /\ (\A o \in S : v[o] \in T) /\ \A x \in T : x = least \/ \E o \in S : x = v[o]
  OBVIOUS
<1>2. \E x \in T : \A y \in T : x >= y
  <2>1. CASE S = {}
    BY <2>1
  <2>2. CASE S # {}
    <3>1. PICK o \in S : \A x \in S : v[x] <= v[o]
      BY <2>2, LargestOf
    <3>2. v[o] \in Nat /\ \A x \in S : v[x] \in Nat
      OBVIOUS
    <3>3. CASE v[o] >= least
      BY <1>1, <3>1, <3>2, <3>3
    <3>4. CASE ~(v[o] >= least)
      <4>1. \A x \in S : least >= v[x]
        BY <3>1, <3>2, <3>4
      <4>2. QED
        BY <1>1, <4>1
    <3>5. QED
      BY <3>3, <3>4
  <2>3. QED
    BY <2>1, <2>2
<1>3. MaxOver(least, v) \in T /\ \A y \in T : MaxOver(least, v) >= y
  BY <1>2 DEF MaxOver, Max
<1> HIDE DEF T
<1>4. MaxOver(least, v) \in Nat
  BY <1>1, <1>3
<1>5. QED
  BY <1>1, <1>3, <1>4
-----------------------------------------------------------------------------
(***************************************************************************)
(* Order: what is picked, what is best, what is dominated.                 *)
(***************************************************************************)

(* In a strict total order of a finite set there is an element at each     *)
(* place, each at a place of its own.                                         *)
LEMMA Ranked ==
  ASSUME NEW D, IsFiniteSet(D), NEW R,
         \A i \in D : <<i, i>> \notin R,
         \A i, j \in D : i # j => <<i, j>> \in R \/ <<j, i>> \in R,
         \A i, j, k \in D : <<i, j>> \in R /\ <<j, k>> \in R => <<i, k>> \in R
  PROVE  /\ \A k \in 1..Cardinality(D) : \E i \in D : Cardinality({j \in D : <<j, i>> \in R}) + 1 = k
         /\ \A i \in D : Cardinality({j \in D : <<j, i>> \in R}) + 1 \in 1..Cardinality(D)
         /\ \A i, k \in D : Cardinality({j \in D : <<j, i>> \in R}) + 1 = Cardinality({j \in D : <<j, k>> \in R}) + 1
                            => i = k
<1> DEFINE Under(i) == {j \in D : <<j, i>> \in R}
           f == [i \in D |-> Cardinality(Under(i)) + 1]
<1>1. PICK n \in Nat : n = Cardinality(D)
  BY FS_CardinalityType
<1>2. ASSUME NEW i \in D
      PROVE  IsFiniteSet(Under(i)) /\ Cardinality(Under(i)) \in Nat /\ Cardinality(Under(i)) + 1 <= n
  <2>1. Under(i) \in SUBSET (D \ {i})
    OBVIOUS
  <2>2. IsFiniteSet(D \ {i}) /\ Cardinality(D \ {i}) = n - 1
    BY <1>1, FS_RemoveElement
  <2> HIDE DEF Under
  <2>3. IsFiniteSet(Under(i)) /\ Cardinality(Under(i)) <= n - 1
    BY <2>1, <2>2, FS_Subset
  <2>4. QED
    BY <2>3, FS_CardinalityType
<1>3. ASSUME NEW i \in D, NEW j \in D, <<i, j>> \in R
      PROVE  Cardinality(Under(i)) + 1 <= Cardinality(Under(j))
  <2>1. i \notin Under(i) /\ Under(i) \cup {i} \in SUBSET Under(j)
    BY <1>3
  <2> HIDE DEF Under
  <2>2. Cardinality(Under(i) \cup {i}) = Cardinality(Under(i)) + 1
    BY <1>2, <2>1, FS_AddElement
  <2>3. Cardinality(Under(i) \cup {i}) <= Cardinality(Under(j))
    BY <1>2, <2>1, FS_Subset
  <2>4. QED
    BY <2>2, <2>3
<1>4. f \in [D -> 1..n]
  <2> HIDE DEF Under
  <2>1. QED
    BY <1>1, <1>2
<1>5. \A i, j \in D : f[i] = f[j] => i = j
  <2> SUFFICES ASSUME NEW i \in D, NEW j \in D, i # j PROVE f[i] # f[j]
    OBVIOUS
  <2> HIDE DEF Under
  <2>1. Cardinality(Under(i)) \in Nat /\ Cardinality(Under(j)) \in Nat
    BY <1>2
  <2>2. Cardinality(Under(i)) + 1 <= Cardinality(Under(j)) \/ Cardinality(Under(j)) + 1 <= Cardinality(Under(i))
    BY <1>3
  <2>3. QED
    BY <2>1, <2>2
<1>6. \A i \in D : f[i] = Cardinality(Under(i)) + 1
  OBVIOUS
<1> HIDE DEF f
<1>7. f \in Injection(D, 1..n)
  BY <1>4, <1>5 DEF Injection, IsInjective
<1>8. IsFiniteSet(1..n) /\ Cardinality(1..n) = n
  BY FS_Interval
<1>9. f \in Surjection(D, 1..n)
  BY <1>1, <1>7, <1>8, FS_Injection
<1>10. \A k \in 1..n : \E i \in D : f[i] = k
  BY <1>9 DEF Surjection
<1>11. QED
  BY <1>1, <1>4, <1>5, <1>6, <1>10

(* What is picked: as many as there are places, each one of them.          *)
PicksOf(P, cs, at, n) ==
  \E m \in 0..n : /\ m = Cardinality(at) /\ (m = 0 <=> at = {})
                  /\ P = [k \in 1..m |-> P[k]]
                  /\ \A k \in 1..m : \E i \in at : P[k] = cs[i]
                  /\ \A i \in at : \E k \in 1..m : P[k] = cs[i]

LEMMA PickedIs ==
  ASSUME NEW n \in Nat, NEW at \in SUBSET (1..n), NEW cs
  PROVE  PicksOf(Picked(cs, at), cs, at, n)
<1> DEFINE R == {p \in at \X at : p[1] < p[2]}
           Rank(i) == Cardinality({j \in at : j < i}) + 1
           N == Cardinality(at)
<1>1. IsFiniteSet(at) /\ N \in 0..n /\ (N = 0 <=> at = {})
  <2>1. IsFiniteSet(1..n) /\ Cardinality(1..n) = n
    BY FS_Interval
  <2>2. IsFiniteSet(at) /\ N <= n
    BY <2>1, FS_Subset
  <2>3. N \in Nat /\ (N = 0 <=> at = {})
    BY <2>2, FS_CardinalityType, FS_EmptySet
  <2>4. QED
    BY <2>2, <2>3
<1>2. \A i, j \in at : <<i, j>> \in R <=> i < j
  OBVIOUS
<1>3. ASSUME NEW i \in at PROVE {j \in at : <<j, i>> \in R} = {j \in at : j < i}
  BY <1>2
<1> HIDE DEF R
<1>4. /\ \A i \in at : <<i, i>> \notin R
      /\ \A i, j \in at : i # j => <<i, j>> \in R \/ <<j, i>> \in R
      /\ \A i, j, k \in at : <<i, j>> \in R /\ <<j, k>> \in R => <<i, k>> \in R
  BY <1>2
<1>5. /\ \A k \in 1..N : \E i \in at : Rank(i) = k
      /\ \A i \in at : Rank(i) \in 1..N
      /\ \A i, k \in at : Rank(i) = Rank(k) => i = k
  <2> DEFINE InR(i) == Cardinality({j \in at : <<j, i>> \in R}) + 1
  <2>1. /\ \A k \in 1..N : \E i \in at : InR(i) = k
        /\ \A i \in at : InR(i) \in 1..N
        /\ \A i, k \in at : InR(i) = InR(k) => i = k
    BY <1>1, <1>4, Ranked
  <2>2. \A i \in at : InR(i) = Rank(i)
    BY <1>3
  <2> HIDE DEF InR, Rank
  <2>3. QED
    BY <2>1, <2>2
<1>6. Picked(cs, at) = [k \in 1..N |-> cs[CHOOSE i \in at : Rank(i) = k]]
  BY DEF Picked
<1> HIDE DEF Rank
<1> DEFINE P == Picked(cs, at)
           At(k) == CHOOSE i \in at : Rank(i) = k
<1>7. \A k \in 1..N : P[k] = cs[At(k)]
  BY <1>6
<1>8. \A k \in 1..N : At(k) \in at /\ Rank(At(k)) = k
  BY <1>5
<1>9. P = [k \in 1..N |-> P[k]]
  BY <1>6
<1> HIDE DEF P, At
<1>10. ASSUME NEW i \in at PROVE \E k \in 1..N : P[k] = cs[i]
  <2>1. PICK k \in 1..N : Rank(i) = k
    BY <1>5
  <2>2. At(k) \in at /\ Rank(At(k)) = k
    BY <1>8
  <2>3. At(k) = i
    BY <1>5, <2>1, <2>2
  <2>4. QED
    BY <1>7, <2>3
<1>11. \A k \in 1..N : \E i \in at : P[k] = cs[i]
  BY <1>7, <1>8
<1> HIDE DEF N
<1>12. PicksOf(P, cs, at, n)
  <2>1. PICK m \in 0..n : m = N
    BY <1>1
  <2>2. /\ m = 0 <=> at = {}
        /\ P = [k \in 1..m |-> P[k]]
        /\ \A k \in 1..m : \E i \in at : P[k] = cs[i]
        /\ \A i \in at : \E k \in 1..m : P[k] = cs[i]
    BY <1>1, <1>9, <1>10, <1>11, <2>1
  <2>3. QED
    BY <2>1, <2>2 DEF PicksOf, N
<1>13. QED
  BY <1>12 DEF P

(* What candidates are compared by.                                        *)
Comparable(c) ==
  /\ {Total(c), c.calls, c.inflight, c.memory, c.concurrency} \subseteq Nat
  /\ {c.strategy.rank, c.strategy.batchSize} \subseteq Nat

LEMMA BetterIs ==
  ASSUME NEW a, NEW b
  PROVE  BetterCandidate(a, b) <=>
           \/ Total(a) < Total(b)
           \/ /\ Total(a) = Total(b)
              /\ \/ a.calls < b.calls
                 \/ /\ a.calls = b.calls
                    /\ \/ a.inflight < b.inflight
                       \/ /\ a.inflight = b.inflight
                          /\ \/ a.concurrency < b.concurrency
                             \/ /\ a.concurrency = b.concurrency
                                /\ \/ a.strategy.rank < b.strategy.rank
                                   \/ /\ a.strategy.rank = b.strategy.rank
                                      /\ -a.strategy.batchSize < -b.strategy.batchSize
<1> DEFINE p == Criteria(a)
           q == Criteria(b)
<1>1. /\ DOMAIN p = 1..6
      /\ p[1] = Total(a) /\ p[2] = a.calls /\ p[3] = a.inflight /\ p[4] = a.concurrency
      /\ p[5] = a.strategy.rank /\ p[6] = -a.strategy.batchSize
  BY DEF Criteria
<1>2. /\ q[1] = Total(b) /\ q[2] = b.calls /\ q[3] = b.inflight /\ q[4] = b.concurrency
      /\ q[5] = b.strategy.rank /\ q[6] = -b.strategy.batchSize
  BY DEF Criteria
<1>3. BetterCandidate(a, b) <=> \E i \in 1..6 : p[i] < q[i] /\ \A j \in 1..(i - 1) : p[j] = q[j]
  BY <1>1 DEF BetterCandidate
<1> HIDE DEF p, q
<1>4. (\E i \in 1..6 : p[i] < q[i] /\ \A j \in 1..(i - 1) : p[j] = q[j]) <=>
        \/ p[1] < q[1]
        \/ p[1] = q[1] /\ p[2] < q[2]
        \/ p[1] = q[1] /\ p[2] = q[2] /\ p[3] < q[3]
        \/ p[1] = q[1] /\ p[2] = q[2] /\ p[3] = q[3] /\ p[4] < q[4]
        \/ p[1] = q[1] /\ p[2] = q[2] /\ p[3] = q[3] /\ p[4] = q[4] /\ p[5] < q[5]
        \/ p[1] = q[1] /\ p[2] = q[2] /\ p[3] = q[3] /\ p[4] = q[4] /\ p[5] = q[5] /\ p[6] < q[6]
  <2> DEFINE First(i) == p[i] < q[i] /\ \A j \in 1..(i - 1) : p[j] = q[j]
  <2>1. (\E i \in 1..6 : First(i)) <=> First(1) \/ First(2) \/ First(3) \/ First(4) \/ First(5) \/ First(6)
    <3>1. \A i \in 1..6 : i = 1 \/ i = 2 \/ i = 3 \/ i = 4 \/ i = 5 \/ i = 6
      OBVIOUS
    <3>2. 1 \in 1..6 /\ 2 \in 1..6 /\ 3 \in 1..6 /\ 4 \in 1..6 /\ 5 \in 1..6 /\ 6 \in 1..6
      OBVIOUS
    <3> HIDE DEF First
    <3>3. QED
      BY <3>1, <3>2
  <2>2. First(1) <=> p[1] < q[1]
    OBVIOUS
  <2>3. First(2) <=> p[1] = q[1] /\ p[2] < q[2]
    OBVIOUS
  <2>4. First(3) <=> p[1] = q[1] /\ p[2] = q[2] /\ p[3] < q[3]
    OBVIOUS
  <2>5. First(4) <=> p[1] = q[1] /\ p[2] = q[2] /\ p[3] = q[3] /\ p[4] < q[4]
    OBVIOUS
  <2>6. First(5) <=> p[1] = q[1] /\ p[2] = q[2] /\ p[3] = q[3] /\ p[4] = q[4] /\ p[5] < q[5]
    OBVIOUS
  <2>7. First(6) <=> /\ p[1] = q[1] /\ p[2] = q[2] /\ p[3] = q[3] /\ p[4] = q[4] /\ p[5] = q[5]
                     /\ p[6] < q[6]
    OBVIOUS
  <2> HIDE DEF First
  <2>8. (\E i \in 1..6 : First(i)) <=>
        \/ p[1] < q[1]
        \/ p[1] = q[1] /\ p[2] < q[2]
        \/ p[1] = q[1] /\ p[2] = q[2] /\ p[3] < q[3]
        \/ p[1] = q[1] /\ p[2] = q[2] /\ p[3] = q[3] /\ p[4] < q[4]
        \/ p[1] = q[1] /\ p[2] = q[2] /\ p[3] = q[3] /\ p[4] = q[4] /\ p[5] < q[5]
        \/ p[1] = q[1] /\ p[2] = q[2] /\ p[3] = q[3] /\ p[4] = q[4] /\ p[5] = q[5] /\ p[6] < q[6]
    BY <2>1, <2>2, <2>3, <2>4, <2>5, <2>6, <2>7
  <2>9. QED
    BY <2>8 DEF First
<1>5. QED
  BY <1>1, <1>2, <1>3, <1>4

LEMMA BetterOrder ==
  ASSUME NEW a, NEW b, NEW c, Comparable(a), Comparable(b), Comparable(c)
  PROVE  /\ ~BetterCandidate(a, a)
         /\ BetterCandidate(a, b) => ~BetterCandidate(b, a) /\ Total(a) <= Total(b)
         /\ BetterCandidate(a, b) /\ BetterCandidate(b, c) => BetterCandidate(a, c)
         /\ ~BetterCandidate(a, b) /\ ~BetterCandidate(b, c) => ~BetterCandidate(a, c)
         /\ ~BetterCandidate(a, b) => Total(b) <= Total(a)
<1>1. /\ {Total(a), Total(b), Total(c)} \subseteq Nat
      /\ {a.calls, b.calls, c.calls, a.inflight, b.inflight, c.inflight} \subseteq Nat
      /\ {a.concurrency, b.concurrency, c.concurrency} \subseteq Nat
      /\ {a.strategy.rank, b.strategy.rank, c.strategy.rank} \subseteq Nat
      /\ {a.strategy.batchSize, b.strategy.batchSize, c.strategy.batchSize} \subseteq Nat
  BY DEF Comparable
<1>2. ~BetterCandidate(a, a)
  BY <1>1, BetterIs
<1>3. BetterCandidate(a, b) => ~BetterCandidate(b, a) /\ Total(a) <= Total(b)
  BY <1>1, BetterIs
<1>4. BetterCandidate(a, b) /\ BetterCandidate(b, c) => BetterCandidate(a, c)
  BY <1>1, BetterIs
<1>5. ~BetterCandidate(a, b) /\ ~BetterCandidate(b, c) => ~BetterCandidate(a, c)
  BY <1>1, BetterIs
<1>6. ~BetterCandidate(a, b) => Total(b) <= Total(a)
  BY <1>1, BetterIs
<1>7. QED
  BY <1>2, <1>3, <1>4, <1>5, <1>6
LEMMA IntervalFinite ==
  ASSUME NEW n \in Nat
  PROVE  IsFiniteSet(1..n) /\ Cardinality(1..n) = n
BY FS_Interval

(* The length of a function that is a sequence.                            *)
LEMMA LenIs ==
  ASSUME NEW n \in Nat, NEW s, s = [i \in 1..n |-> s[i]]
  PROVE  Len(s) = n /\ DOMAIN s = 1..n /\ s \in Seq({s[i] : i \in 1..n})
<1> DEFINE S == {s[i] : i \in 1..n}
<1>1. s \in [1..n -> S]
  OBVIOUS
<1> HIDE DEF S
<1>2. s \in Seq(S)
  BY <1>1, SeqDef
<1>3. Len(s) \in Nat /\ DOMAIN s = 1..Len(s)
  BY <1>2, LenProperties
<1>4. 1..n = 1..Len(s)
  BY <1>1, <1>3
<1>5. Len(s) = n
  BY <1>3, <1>4
<1>6. QED
  BY <1>2, <1>3, <1>5 DEF S

(* keepTopK keeps candidates it is given, and first the cheapest.          *)
LEMMA KeepTopKIs ==
  ASSUME NEW n \in Nat, n >= 1, NEW cs, cs = [i \in 1..n |-> cs[i]],
         SearchConfig.keepTopK \in Nat \ {0}, \A i \in 1..n : Comparable(cs[i])
  PROVE  /\ Smaller(SearchConfig.keepTopK, n) \in 1..n
         /\ KeepTopK(cs) = [k \in 1..Smaller(SearchConfig.keepTopK, n) |-> KeepTopK(cs)[k]]
         /\ \A k \in 1..Smaller(SearchConfig.keepTopK, n) : \E i \in 1..n : KeepTopK(cs)[k] = cs[i]
         /\ \A i \in 1..n : Total(KeepTopK(cs)[1]) <= Total(cs[i])
<1> DEFINE D == 1..n
           Before(j, i) == \/ BetterCandidate(cs[j], cs[i])
                           \/ j < i /\ ~BetterCandidate(cs[i], cs[j])
           R == {p \in D \X D : Before(p[1], p[2])}
           Place(i) == Cardinality({j \in D : Before(j, i)}) + 1
           InR(i) == Cardinality({j \in D : <<j, i>> \in R}) + 1
           t == Smaller(SearchConfig.keepTopK, n)
           T == KeepTopK(cs)
<1>1. IsFiniteSet(D) /\ Cardinality(D) = n
  BY IntervalFinite
<1>2. DOMAIN cs = D /\ Len(cs) = n
  BY LenIs
<1>3. t \in 1..n
  BY DEF Smaller
<1>4. T = [k \in 1..t |-> cs[CHOOSE i \in D : Place(i) = k]]
  BY <1>2 DEF KeepTopK
<1>5. \A i, j \in D : <<i, j>> \in R <=> Before(i, j)
  OBVIOUS
<1>6. \A i \in D : <<i, i>> \notin R
  <2> HIDE DEF R
  <2>1. QED
    BY <1>5, BetterOrder
<1>7. \A i, j \in D : i # j => <<i, j>> \in R \/ <<j, i>> \in R
  <2> HIDE DEF R
  <2> SUFFICES ASSUME NEW i \in D, NEW j \in D, i # j PROVE Before(i, j) \/ Before(j, i)
    BY <1>5
  <2>1. i < j \/ j < i
    OBVIOUS
  <2>2. QED
    BY <2>1
<1>8. \A i, j, k \in D : <<i, j>> \in R /\ <<j, k>> \in R => <<i, k>> \in R
  <2> HIDE DEF R
  <2> SUFFICES ASSUME NEW i \in D, NEW j \in D, NEW k \in D, Before(i, j), Before(j, k)
               PROVE  Before(i, k)
    BY <1>5
  <2>1. PICK a, b, c : a = cs[i] /\ b = cs[j] /\ c = cs[k]
    OBVIOUS
  <2>2. Comparable(a) /\ Comparable(b) /\ Comparable(c)
    BY <2>1
  <2>3. /\ BetterCandidate(a, b) /\ BetterCandidate(b, c) => BetterCandidate(a, c)
        /\ ~BetterCandidate(c, b) /\ ~BetterCandidate(b, a) => ~BetterCandidate(c, a)
        /\ ~BetterCandidate(a, c) /\ ~BetterCandidate(c, b) => ~BetterCandidate(a, b)
        /\ ~BetterCandidate(b, a) /\ ~BetterCandidate(a, c) => ~BetterCandidate(b, c)
    BY <2>2, BetterOrder
  <2>4. /\ BetterCandidate(a, b) \/ (i < j /\ ~BetterCandidate(b, a))
        /\ BetterCandidate(b, c) \/ (j < k /\ ~BetterCandidate(c, b))
    BY <2>1
  <2>5. i < j /\ j < k => i < k
    OBVIOUS
  <2>6. BetterCandidate(a, c) \/ (i < k /\ ~BetterCandidate(c, a))
    BY <2>3, <2>4, <2>5
  <2>7. QED
    BY <2>1, <2>6
<1>9. \A i \in D : {j \in D : <<j, i>> \in R} = {j \in D : Before(j, i)}
  BY <1>5
<1>10. \A i \in D : InR(i) = Place(i)
  BY <1>9
<1>11. \A k \in 1..n : \E i \in D : Place(i) = k
  <2>1. \A k \in 1..n : \E i \in D : InR(i) = k
    <3>1. IsFiniteSet(D)
      BY <1>1
    <3> HIDE DEF R, D
    <3>2. /\ \A k \in 1..Cardinality(D) : \E i \in D : InR(i) = k
          /\ \A i \in D : InR(i) \in 1..Cardinality(D)
          /\ \A i, k \in D : InR(i) = InR(k) => i = k
      BY <3>1, <1>6, <1>7, <1>8, Ranked
    <3>3. QED
      BY <1>1, <3>2
  <2> HIDE DEF InR, Place
  <2>2. QED
    BY <2>1, <1>10
<1> DEFINE At(k) == CHOOSE i \in D : Place(i) = k
<1>12. \A k \in 1..t : T[k] = cs[At(k)]
  <2> HIDE DEF Place, t
  <2>1. QED
    BY <1>4
<1>13. \A k \in 1..n : At(k) \in D /\ Place(At(k)) = k
  <2> HIDE DEF Place
  <2>1. QED
    BY <1>11
<1>14. T = [k \in 1..t |-> T[k]]
  <2> HIDE DEF Place, t
  <2>1. QED
    BY <1>4
<1> HIDE DEF At, T, t
<1>15. \A k \in 1..t : At(k) \in D /\ T[k] = cs[At(k)]
  <2>1. \A k \in 1..t : k \in 1..n
    BY <1>3
  <2>2. QED
    BY <2>1, <1>12, <1>13
<1>16. ASSUME NEW i \in D PROVE Total(T[1]) <= Total(cs[i])
  <2>1. PICK o \in D : o = At(1) /\ T[1] = cs[o] /\ Place(o) = 1
    <3> HIDE DEF Place
    <3>1. 1 \in 1..t /\ 1 \in 1..n
      BY <1>3
    <3>2. QED
      BY <1>13, <1>15, <3>1
  <2>2. ~Before(i, o)
    <3> DEFINE U == {j \in D : Before(j, o)}
    <3>1. IsFiniteSet(U)
      <4>1. U \in SUBSET D
        OBVIOUS
      <4> HIDE DEF U
      <4>2. QED
        BY <1>1, <4>1, FS_Subset
    <3>2. Cardinality(U) + 1 = 1
      BY <2>1
    <3>3. i \in U <=> Before(i, o)
      OBVIOUS
    <3> HIDE DEF U, Before
    <3>4. Cardinality(U) = 0
      BY <3>1, <3>2, FS_CardinalityType
    <3>5. U = {}
      BY <3>1, <3>4, FS_EmptySet
    <3>6. QED
      BY <3>3, <3>5
  <2>3. ~BetterCandidate(cs[i], cs[o])
    BY <2>2
  <2>4. QED
    BY <2>1, <2>3, BetterOrder
<1>17. QED
  BY <1>3, <1>14, <1>15, <1>16 DEF T, t

LEMMA DominatesIs ==
  ASSUME NEW a, NEW b
  PROVE  Dominates(a, b) <=>
           /\ Total(a) <= Total(b) /\ a.inflight <= b.inflight
           /\ a.memory <= b.memory /\ a.concurrency <= b.concurrency
           /\ \/ Total(a) < Total(b) \/ a.inflight < b.inflight
              \/ a.memory < b.memory \/ a.concurrency < b.concurrency
<1> DEFINE p == Resources(a)
           q == Resources(b)
<1>1. /\ p[1] = Total(a) /\ p[2] = a.inflight /\ p[3] = a.memory /\ p[4] = a.concurrency
      /\ q[1] = Total(b) /\ q[2] = b.inflight /\ q[3] = b.memory /\ q[4] = b.concurrency
  BY DEF Resources
<1>2. Dominates(a, b) <=> (\A i \in 1..4 : p[i] <= q[i]) /\ (\E i \in 1..4 : p[i] < q[i])
  BY DEF Dominates
<1> HIDE DEF p, q
<1>3. \A i \in 1..4 : i = 1 \/ i = 2 \/ i = 3 \/ i = 4
  OBVIOUS
<1>4. 1 \in 1..4 /\ 2 \in 1..4 /\ 3 \in 1..4 /\ 4 \in 1..4
  OBVIOUS
<1>5. (\A i \in 1..4 : p[i] <= q[i]) <=> p[1] <= q[1] /\ p[2] <= q[2] /\ p[3] <= q[3] /\ p[4] <= q[4]
  BY <1>3, <1>4
<1>6. (\E i \in 1..4 : p[i] < q[i]) <=> p[1] < q[1] \/ p[2] < q[2] \/ p[3] < q[3] \/ p[4] < q[4]
  BY <1>3, <1>4
<1>7. QED
  BY <1>1, <1>2, <1>5, <1>6

(* Whatever a candidate is, one that none dominates costs no more: of      *)
(* those that use no more of anything, the one that uses least in all.     *)
LEMMA UndominatedBelow ==
  ASSUME NEW n \in Nat, NEW cs, \A i \in 1..n : Comparable(cs[i]), NEW i \in 1..n
  PROVE  \E o \in 1..n : /\ Total(cs[o]) <= Total(cs[i])
                         /\ \A j \in (1..n) \ {o} : ~Dominates(cs[j], cs[o])
<1> DEFINE NoMore(j) == /\ Total(cs[j]) <= Total(cs[i]) /\ cs[j].inflight <= cs[i].inflight
                        /\ cs[j].memory <= cs[i].memory /\ cs[j].concurrency <= cs[i].concurrency
           Use(j) == Total(cs[j]) + cs[j].inflight + cs[j].memory + cs[j].concurrency
           T == {u \in Nat : \E j \in 1..n : NoMore(j) /\ Use(j) = u}
<1>1. \A j \in 1..n : /\ Total(cs[j]) \in Nat /\ cs[j].inflight \in Nat
                      /\ cs[j].memory \in Nat /\ cs[j].concurrency \in Nat
  BY DEF Comparable
<1>2. T # {} /\ T \in SUBSET Nat
  <2>1. NoMore(i) /\ Use(i) \in Nat
    BY <1>1
  <2>2. QED
    BY <2>1
<1>3. PICK u \in T : \A y \in Nat : y < u => y \notin T
  <2> HIDE DEF T
  <2>1. QED
    BY <1>2, NatMin
<1>4. PICK o \in 1..n : NoMore(o) /\ Use(o) = u
  BY <1>3
<1>5. ASSUME NEW j \in 1..n, Dominates(cs[j], cs[o]) PROVE FALSE
  <2>1. /\ Total(cs[j]) <= Total(cs[o]) /\ cs[j].inflight <= cs[o].inflight
        /\ cs[j].memory <= cs[o].memory /\ cs[j].concurrency <= cs[o].concurrency
        /\ \/ Total(cs[j]) < Total(cs[o]) \/ cs[j].inflight < cs[o].inflight
           \/ cs[j].memory < cs[o].memory \/ cs[j].concurrency < cs[o].concurrency
    BY <1>5, DominatesIs
  <2>2. NoMore(j) /\ Use(j) < Use(o) /\ Use(j) \in Nat
    BY <2>1, <1>1, <1>4
  <2>3. Use(j) \in T
    BY <2>2
  <2>4. QED
    <3> HIDE DEF T, Use
    <3>1. QED
      BY <2>2, <2>3, <1>3, <1>4
<1>6. QED
  BY <1>4, <1>5

Undominated(cs, n, i) == \A j \in (1..n) \ {i} : ~Dominates(cs[j], cs[i])

LEMMA PruneDominatedIs ==
  ASSUME NEW n \in Nat, n >= 1, NEW cs, cs = [i \in 1..n |-> cs[i]],
         \A i \in 1..n : Comparable(cs[i])
  PROVE  \E m \in 1..n :
           /\ PruneDominated(cs) = [k \in 1..m |-> PruneDominated(cs)[k]]
           /\ \A k \in 1..m : \E i \in 1..n : PruneDominated(cs)[k] = cs[i] /\ Undominated(cs, n, i)
           /\ \A i \in 1..n : \E k \in 1..m : Total(PruneDominated(cs)[k]) <= Total(cs[i])
<1> DEFINE at == {i \in 1..n : \A j \in (1..n) \ {i} : ~Dominates(cs[j], cs[i])}
           P == PruneDominated(cs)
<1>1. P = Picked(cs, at)
  BY LenIs DEF PruneDominated
<1>2. at \in SUBSET (1..n)
  OBVIOUS
<1>3. \A i \in 1..n : \E o \in at : Total(cs[o]) <= Total(cs[i])
  <2> SUFFICES ASSUME NEW i \in 1..n PROVE \E o \in at : Total(cs[o]) <= Total(cs[i])
    OBVIOUS
  <2>1. PICK o \in 1..n : /\ Total(cs[o]) <= Total(cs[i])
                          /\ \A j \in (1..n) \ {o} : ~Dominates(cs[j], cs[o])
    BY UndominatedBelow
  <2>2. QED
    BY <2>1
<1> HIDE DEF at, P
<1>4. PicksOf(Picked(cs, at), cs, at, n)
  BY <1>2, PickedIs
<1>5. PICK m \in 0..n :
        /\ m = 0 <=> at = {}
        /\ P = [k \in 1..m |-> P[k]]
        /\ \A k \in 1..m : \E i \in at : P[k] = cs[i]
        /\ \A i \in at : \E k \in 1..m : P[k] = cs[i]
  BY <1>1, <1>4 DEF PicksOf
<1>6. m # 0
  <2>1. PICK one \in 1..n : one = 1
    OBVIOUS
  <2>2. \E o \in at : TRUE
    BY <1>3, <2>1
  <2>3. QED
    BY <1>5, <2>2
<1>7. \A k \in 1..m : \E i \in 1..n : P[k] = cs[i] /\ Undominated(cs, n, i)
  <2>1. \A i \in at : i \in 1..n /\ Undominated(cs, n, i)
    BY DEF at, Undominated
  <2>2. QED
    BY <1>5, <2>1
<1>8. \A i \in 1..n : \E k \in 1..m : Total(P[k]) <= Total(cs[i])
  BY <1>3, <1>5
<1>9. m \in 1..n
  BY <1>6
<1>10. QED
  BY <1>5, <1>7, <1>8, <1>9 DEF P

(* What is kept of some candidates is among them, and the first costs no   *)
(* more than any.                                                          *)
Listed(cs, n) == cs = [i \in 1..n |-> cs[i]]

BestOf(K, cs, n) ==
  \E m \in 1..n : /\ Listed(K, m)
                  /\ \A k \in 1..m : \E i \in 1..n : K[k] = cs[i] /\ Undominated(cs, n, i)
                  /\ \A i \in 1..n : Total(K[1]) <= Total(cs[i])

LEMMA BestKept ==
  ASSUME NEW n \in Nat \ {0}, NEW cs, Listed(cs, n), \A i \in 1..n : Comparable(cs[i])
  PROVE  BestOf(KeepTopK(PruneDominated(cs)), cs, n)
<1>a. n \in Nat /\ n >= 1 /\ SearchConfig.keepTopK \in Nat \ {0}
  BY ConfigAssumption
<1>b. cs = [i \in 1..n |-> cs[i]]
  BY DEF Listed
<1>1. PICK P : P = PruneDominated(cs)
  OBVIOUS
<1>2. \E m \in 1..n :
           /\ PruneDominated(cs) = [k \in 1..m |-> PruneDominated(cs)[k]]
           /\ \A k \in 1..m : \E i \in 1..n : PruneDominated(cs)[k] = cs[i] /\ Undominated(cs, n, i)
           /\ \A i \in 1..n : \E k \in 1..m : Total(PruneDominated(cs)[k]) <= Total(cs[i])
  BY <1>a, <1>b, PruneDominatedIs
<1>3. PICK m \in 1..n : /\ P = [k \in 1..m |-> P[k]]
                        /\ \A k \in 1..m : \E i \in 1..n : P[k] = cs[i] /\ Undominated(cs, n, i)
                        /\ \A i \in 1..n : \E k \in 1..m : Total(P[k]) <= Total(cs[i])
  <2>1. PICK m \in 1..n :
           /\ PruneDominated(cs) = [k \in 1..m |-> PruneDominated(cs)[k]]
           /\ \A k \in 1..m : \E i \in 1..n : PruneDominated(cs)[k] = cs[i] /\ Undominated(cs, n, i)
           /\ \A i \in 1..n : \E k \in 1..m : Total(PruneDominated(cs)[k]) <= Total(cs[i])
    BY <1>2
  <2>2. QED
    BY <1>1, <2>1
<1>4. m \in Nat /\ m >= 1 /\ \A k \in 1..m : Comparable(P[k])
  <2>1. m \in Nat /\ m >= 1
    BY <1>a
  <2>2. \A k \in 1..m : \E i \in 1..n : P[k] = cs[i]
    BY <1>3
  <2>3. QED
    BY <2>1, <2>2
<1>5. PICK t : t = Smaller(SearchConfig.keepTopK, m)
  OBVIOUS
<1>6. PICK K : K = KeepTopK(P)
  OBVIOUS
<1>7. /\ t \in 1..m
      /\ K = [k \in 1..t |-> K[k]]
      /\ \A k \in 1..t : \E i \in 1..m : K[k] = P[i]
      /\ \A i \in 1..m : Total(K[1]) <= Total(P[i])
  <2>1. P = [k \in 1..m |-> P[k]]
    BY <1>3
  <2>2. /\ Smaller(SearchConfig.keepTopK, m) \in 1..m
        /\ KeepTopK(P) = [k \in 1..Smaller(SearchConfig.keepTopK, m) |-> KeepTopK(P)[k]]
        /\ \A k \in 1..Smaller(SearchConfig.keepTopK, m) : \E i \in 1..m : KeepTopK(P)[k] = P[i]
        /\ \A i \in 1..m : Total(KeepTopK(P)[1]) <= Total(P[i])
    BY <1>4, <1>a, <2>1, KeepTopKIs
  <2>3. QED
    BY <1>5, <1>6, <2>2
<1>8. t \in 1..n
  BY <1>7
<1>9. \A k \in 1..t : \E i \in 1..n : K[k] = cs[i] /\ Undominated(cs, n, i)
  BY <1>3, <1>7
<1>10. ASSUME NEW i \in 1..n PROVE Total(K[1]) <= Total(cs[i])
  <2>1. PICK k \in 1..m : Total(P[k]) <= Total(cs[i])
    BY <1>3
  <2>2. PICK j \in 1..m : K[1] = P[j]
    <3>1. PICK one \in 1..t : one = 1
      BY <1>7
    <3>2. QED
      BY <1>7, <3>1
  <2>3. Total(P[j]) \in Nat /\ Total(P[k]) \in Nat /\ Total(cs[i]) \in Nat
    BY <1>4 DEF Comparable
  <2>4. Total(K[1]) <= Total(P[k])
    BY <1>7
  <2>5. QED
    BY <2>1, <2>2, <2>3, <2>4
<1>11. QED
  BY <1>1, <1>6, <1>7, <1>8, <1>9, <1>10 DEF BestOf, Listed

(* The filter passes what is within the budget, and else everything.       *)
Passed(F, cs, n, m) ==
  /\ Listed(F, m)
  /\ \A k \in 1..m : \E i \in 1..n : F[k] = cs[i]
  /\ \A i \in 1..n : InBudget(cs[i]) =>
       (\E k \in 1..m : F[k] = cs[i]) /\ \A k \in 1..m : InBudget(F[k])

LEMMA FilterByBudgetIs ==
  ASSUME NEW n \in Nat \ {0}, NEW cs, Listed(cs, n)
  PROVE  \E m \in 1..n : Passed(FilterByBudget(cs), cs, n, m)
<1> DEFINE at == {i \in 1..n : InBudget(cs[i])}
           F == FilterByBudget(cs)
<1>1. F = IF at = {} THEN cs ELSE Picked(cs, at)
  <2>1. cs = [i \in 1..n |-> cs[i]]
    BY DEF Listed
  <2>2. DOMAIN cs = 1..n
    BY <2>1
  <2>3. QED
    BY <2>2 DEF FilterByBudget
<1>2. at \in SUBSET (1..n) /\ \A i \in 1..n : i \in at <=> InBudget(cs[i])
  OBVIOUS
<1> HIDE DEF at, F
<1>3. CASE at = {}
  <2>1. F = cs
    BY <1>1, <1>3
  <2>2. n \in 1..n
    OBVIOUS
  <2>3. /\ F = [k \in 1..n |-> F[k]]
        /\ \A k \in 1..n : \E i \in 1..n : F[k] = cs[i]
        /\ \A i \in 1..n : ~InBudget(cs[i])
    BY <1>2, <1>3, <2>1 DEF Listed
  <2>4. QED
    BY <2>2, <2>3 DEF F, Passed, Listed
<1>4. CASE at # {}
  <2>1. F = Picked(cs, at)
    BY <1>1, <1>4
  <2>2. PicksOf(Picked(cs, at), cs, at, n)
    BY <1>2, PickedIs
  <2>3. PICK m \in 0..n :
          /\ m = 0 <=> at = {}
          /\ F = [k \in 1..m |-> F[k]]
          /\ \A k \in 1..m : \E i \in at : F[k] = cs[i]
          /\ \A i \in at : \E k \in 1..m : F[k] = cs[i]
    BY <2>1, <2>2 DEF PicksOf
  <2>4. m \in 1..n
    BY <1>4, <2>3
  <2>5. \A k \in 1..m : InBudget(F[k])
    BY <1>2, <2>3
  <2>6. \A k \in 1..m : \E i \in 1..n : F[k] = cs[i]
    BY <1>2, <2>3
  <2>7. \A i \in 1..n : InBudget(cs[i]) => \E k \in 1..m : F[k] = cs[i]
    BY <1>2, <2>3
  <2>8. QED
    BY <2>3, <2>4, <2>5, <2>6, <2>7 DEF F, Passed, Listed
<1>5. QED
  BY <1>3, <1>4

-----------------------------------------------------------------------------
(***************************************************************************)
(* Recursion and induction over the tree.                                  *)
(***************************************************************************)

(* What holds of an element when it holds of all of lower rank holds of    *)
(* every element.                                                          *)
LEMMA RankInduction ==
  ASSUME NEW D, NEW rank \in [D -> Nat], NEW P \in SUBSET D,
         \A n \in D : (\A m \in D : rank[m] < rank[n] => m \in P) => n \in P
  PROVE  P = D
<1> DEFINE Bad == {k \in Nat : \E n \in D : rank[n] = k /\ n \notin P}
<1>1. SUFFICES ASSUME Bad # {} PROVE FALSE
  <2>1. ASSUME NEW n \in D, n \notin P PROVE FALSE
    <3>1. rank[n] \in Bad
      BY <2>1
    <3>2. QED
      BY <1>1, <3>1
  <2>2. QED
    BY <2>1
<1>2. PICK k \in Bad : \A y \in Nat : y < k => y \notin Bad
  <2>1. Bad \in SUBSET Nat
    OBVIOUS
  <2> HIDE DEF Bad
  <2>2. QED
    BY <1>1, <2>1, NatMin
<1>3. PICK n \in D : rank[n] = k /\ n \notin P
  BY <1>2
<1>4. ASSUME NEW m \in D, rank[m] < rank[n] PROVE m \in P
  <2>1. rank[m] \notin Bad
    <3> HIDE DEF Bad
    <3>1. QED
      BY <1>2, <1>3, <1>4
  <2>2. QED
    BY <2>1
<1>5. QED
  BY <1>3, <1>4

(* A recursive definition has a value where F[n][f], its body, depends on  *)
(* f only at elements of lower rank, and ranks are bounded.                *)
LooksDown(D, V, rank, F) ==
  \A n \in D : \A f, g \in [D -> V] :
    (\A m \in D : rank[m] < rank[n] => f[m] = g[m]) => F[n][f] = F[n][g]

Solution(D, V, F, f) == f \in [D -> V] /\ \A n \in D : f[n] = F[n][f]

LEMMA RecursionExists ==
  ASSUME NEW D, NEW V, NEW v \in V, NEW K \in Nat, NEW rank \in [D -> 0..K],
         NEW F \in [D -> [[D -> V] -> V]], LooksDown(D, V, rank, F)
  PROVE  \E f : Solution(D, V, F, f)
<1> DEFINE Solves(f, k) == \A n \in D : rank[n] < k => f[n] = F[n][f]
           Bad == {k \in Nat : ~ \E f \in [D -> V] : Solves(f, k)}
<1>1. Bad = {}
  <2>1. SUFFICES ASSUME Bad # {} PROVE FALSE
    OBVIOUS
  <2>2. PICK k \in Bad : \A y \in Nat : y < k => y \notin Bad
    <3>1. Bad \in SUBSET Nat
      OBVIOUS
    <3> HIDE DEF Bad
    <3>2. QED
      BY <2>1, <3>1, NatMin
  <2>3. CASE k = 0
    <3>1. [n \in D |-> v] \in [D -> V]
      OBVIOUS
    <3>2. Solves([n \in D |-> v], 0)
      OBVIOUS
    <3>3. QED
      BY <2>2, <2>3, <3>1, <3>2
  <2>4. CASE k # 0
    <3>1. PICK j \in Nat : k = j + 1
      BY <2>4
    <3>2. PICK g \in [D -> V] : Solves(g, j)
      <4>1. j \notin Bad
        <5> HIDE DEF Bad
        <5>1. QED
          BY <2>2, <3>1
      <4>2. QED
        BY <4>1
    <3> DEFINE f == [n \in D |-> IF rank[n] < k THEN F[n][g] ELSE g[n]]
    <3>3. f \in [D -> V]
      OBVIOUS
    <3>4. \A n \in D : f[n] = IF rank[n] < k THEN F[n][g] ELSE g[n]
      OBVIOUS
    <3> HIDE DEF f
    <3>5. ASSUME NEW n \in D, rank[n] < k PROVE f[n] = F[n][f]
      <4>1. \A m \in D : rank[m] < rank[n] => f[m] = g[m]
        <5> SUFFICES ASSUME NEW m \in D, rank[m] < rank[n] PROVE f[m] = g[m]
          OBVIOUS
        <5>1. rank[m] < j
          BY <3>1, <3>5
        <5>2. g[m] = F[m][g]
          BY <3>2, <5>1
        <5>3. QED
          BY <3>1, <3>4, <5>1, <5>2
      <4>2. F[n][f] = F[n][g]
        BY <3>3, <4>1 DEF LooksDown
      <4>3. QED
        BY <3>4, <3>5, <4>2
    <3>6. QED
      BY <2>2, <3>3, <3>5
  <2>5. QED
    BY <2>3, <2>4
<1>2. PICK f \in [D -> V] : Solves(f, K + 1)
  <2>1. K + 1 \in Nat
    OBVIOUS
  <2>2. QED
    BY <1>1, <2>1
<1>3. \A n \in D : rank[n] < K + 1
  OBVIOUS
<1>4. QED
  BY <1>2, <1>3 DEF Solution

(* The place of a node in the postorder.                                   *)
Place(n) == CHOOSE i \in 1..Len(Postorder) : Postorder[i] = n

LEMMA TreeFacts ==
  /\ Len(Postorder) \in Nat
  /\ \A i \in 1..Len(Postorder) : Postorder[i] \in Nodes /\ Place(Postorder[i]) = i
  /\ \A n \in Nodes : Place(n) \in 1..Len(Postorder) /\ Postorder[Place(n)] = n
  /\ \A n \in Nodes : /\ Len(Children[n]) \in Nat /\ DOMAIN Children[n] = 1..Len(Children[n])
                      /\ Children[n] = <<>> <=> Len(Children[n]) = 0
                      /\ Children[n] \in Seq(Nodes)
  /\ \A n \in Nodes : \A m \in DOMAIN Children[n] :
       /\ Children[n][m] \in Nodes /\ ParentOf[Children[n][m]] = n
       /\ Place(Children[n][m]) < Place(n)
  /\ \A n \in Nodes : ParentOf[n] # "root" =>
       /\ ParentOf[n] \in Nodes /\ Place(n) < Place(ParentOf[n])
       /\ \E m \in DOMAIN Children[ParentOf[n]] : Children[ParentOf[n]][m] = n
<1>1. Len(Postorder) \in Nat /\ DOMAIN Postorder = 1..Len(Postorder)
  BY PostorderAssumption, LenProperties
<1>2. PICK N \in Nat : N = Len(Postorder)
  BY <1>1
<1>3. \A i \in 1..N : Postorder[i] \in Nodes
  BY <1>1, <1>2 DEF Nodes
<1>4. \A i, j \in 1..N : Postorder[i] = Postorder[j] => i = j
  BY <1>1, <1>2, PostorderAssumption
<1>5. \A n \in Nodes : \E i \in 1..N : Postorder[i] = n
  BY <1>1, <1>2 DEF Nodes
<1>6. \A n \in Nodes : Place(n) \in 1..N /\ Postorder[Place(n)] = n
  BY <1>2, <1>5 DEF Place
<1>7. \A i \in 1..N : Place(Postorder[i]) = i
  BY <1>3, <1>4, <1>6
<1>8. ASSUME NEW n \in Nodes
      PROVE  /\ Children[n] \in Seq(Nodes) /\ Len(Children[n]) \in Nat
             /\ DOMAIN Children[n] = 1..Len(Children[n])
             /\ Children[n] = <<>> <=> Len(Children[n]) = 0
             /\ \A m \in DOMAIN Children[n] : Children[n][m] \in Nodes
  <2>1. Children[n] \in Seq(Nodes)
    BY PostorderAssumption
  <2>2. PICK c \in Seq(Nodes) : c = Children[n]
    BY <2>1
  <2>3. /\ Len(c) \in Nat /\ c \in [1..Len(c) -> Nodes]
        /\ DOMAIN c = 1..Len(c)
    BY LenProperties
  <2>4. c = <<>> <=> Len(c) = 0
    BY EmptySeq, <2>3
  <2>5. \A m \in DOMAIN c : c[m] \in Nodes
    BY <2>3
  <2>6. QED
    BY <2>2, <2>3, <2>4, <2>5
<1>b. \A i \in DOMAIN Postorder : \A m \in DOMAIN Children[Postorder[i]] :
        /\ ParentOf[Children[Postorder[i]][m]] = Postorder[i]
        /\ \E j \in 1..(i - 1) : Postorder[j] = Children[Postorder[i]][m]
  BY PostorderAssumption
<1>9. ASSUME NEW n \in Nodes, NEW m \in DOMAIN Children[n]
      PROVE  ParentOf[Children[n][m]] = n /\ Place(Children[n][m]) < Place(n)
  <2>1. PICK i \in 1..N : i = Place(n) /\ Postorder[i] = n
    BY <1>6
  <2>2. i \in DOMAIN Postorder
    BY <1>1, <1>2
  <2>a. PICK c : c = Children[n][m]
    OBVIOUS
  <2>b. c = Children[Postorder[i]][m] /\ m \in DOMAIN Children[Postorder[i]]
    BY <2>a, <2>1, Zenon
  <2>c. /\ ParentOf[Children[Postorder[i]][m]] = Postorder[i]
        /\ \E j \in 1..(i - 1) : Postorder[j] = Children[Postorder[i]][m]
    BY <2>b, <2>2, <1>b, Zenon
  <2>3. /\ ParentOf[c] = Postorder[i]
        /\ \E j \in 1..(i - 1) : Postorder[j] = c
    BY <2>b, <2>c, Zenon
  <2>4. PICK j \in 1..(i - 1) : Postorder[j] = Children[n][m]
    BY <2>a, <2>3, Zenon
  <2>5. j \in 1..N /\ j < i
    OBVIOUS
  <2>6. Place(Children[n][m]) = j
    BY <1>7, <2>4, <2>5
  <2>7. QED
    BY <2>1, <2>a, <2>3, <2>5, <2>6
<1>10. ASSUME NEW n \in Nodes, ParentOf[n] # "root"
       PROVE  /\ ParentOf[n] \in Nodes /\ Place(n) < Place(ParentOf[n])
              /\ \E m \in DOMAIN Children[ParentOf[n]] : Children[ParentOf[n]][m] = n
  <2>1. ParentOf[n] \in Nodes /\ \E m \in DOMAIN Children[ParentOf[n]] : Children[ParentOf[n]][m] = n
    BY <1>10, PostorderAssumption
  <2>2. QED
    BY <1>9, <2>1
<1>11. QED
  BY <1>2, <1>3, <1>6, <1>7, <1>8, <1>9, <1>10

LEMMA PosTimes ==
  ASSUME NEW a \in Nat \ {0}, NEW b \in Nat \ {0}
  PROVE  a * b \in Nat \ {0}
OBVIOUS

LEMMA AnnFacts ==
  ASSUME ann \in Annotations, NEW n \in Nodes
  PROVE  /\ ann[n].rows \in Nat \ {0} /\ ann[n].width \in Nat \ {0}
         /\ ann[n].startup \in Nat /\ ann[n].self \in Nat
         /\ ann[n].rowConf \in 0..100 /\ ann[n].latConf \in 0..100
<1>1. /\ {ann[n].rows, ann[n].width} \subseteq Nat \ {0} /\ {ann[n].startup, ann[n].self} \subseteq Nat
      /\ ann[n].rowConf \in 25..100 /\ ann[n].latConf \in 0..ann[n].rowConf
  BY AnnotationsAssumption
<1>2. QED
  BY <1>1

(* A node is called once for each row of the nodes above.                  *)
LEMMA CallsIs ==
  ASSUME ann \in Annotations
  PROVE  \A n \in Nodes : LogicalCalls[n] \in Nat \ {0}
<1> DEFINE V == Nat \ {0}
           Body(n, f) == IF ParentOf[n] = "root" THEN 1 ELSE f[ParentOf[n]] * ann[ParentOf[n]].rows
           F == [n \in Nodes |-> [f \in [Nodes -> V] |-> Body(n, f)]]
           rank == [n \in Nodes |-> Len(Postorder) - Place(n)]
<1>1. PICK K \in Nat : K = Len(Postorder)
  BY TreeFacts
<1>2. rank \in [Nodes -> 0..K] /\ rank \in [Nodes -> Nat]
  BY <1>1, TreeFacts
<1>3. \A n \in Nodes : ParentOf[n] # "root" => ParentOf[n] \in Nodes /\ rank[ParentOf[n]] < rank[n]
  BY <1>1, TreeFacts
<1> HIDE DEF rank
<1>4. ASSUME NEW n \in Nodes, NEW f \in [Nodes -> V] PROVE Body(n, f) \in V
  <2>1. CASE ParentOf[n] = "root"
    BY <2>1
  <2>2. CASE ParentOf[n] # "root"
    <3>1. f[ParentOf[n]] \in V /\ ann[ParentOf[n]].rows \in V
      BY <1>3, <2>2, AnnFacts
    <3>2. f[ParentOf[n]] * ann[ParentOf[n]].rows \in V
      BY <3>1, PosTimes
    <3>3. QED
      BY <2>2, <3>2
  <2>3. QED
    BY <2>1, <2>2
<1>5. F \in [Nodes -> [[Nodes -> V] -> V]]
  <2> HIDE DEF Body, V
  <2>1. QED
    BY <1>4
<1>6. \A n \in Nodes : \A f \in [Nodes -> V] : F[n][f] = Body(n, f)
  <2> HIDE DEF Body, V
  <2>1. QED
    OBVIOUS
<1> HIDE DEF F
<1>7. LooksDown(Nodes, V, rank, F)
  <2> SUFFICES ASSUME NEW n \in Nodes, NEW f \in [Nodes -> V], NEW g \in [Nodes -> V],
                      \A m \in Nodes : rank[m] < rank[n] => f[m] = g[m]
               PROVE  Body(n, f) = Body(n, g)
    BY <1>6 DEF LooksDown
  <2>1. QED
    BY <1>3
<1>8. \E f : Solution(Nodes, V, F, f)
  <2>1. 1 \in V
    OBVIOUS
  <2> HIDE DEF V
  <2>2. QED
    BY <1>2, <1>5, <1>7, <2>1, RecursionExists
<1>9. PICK f : f \in [Nodes -> V] /\ \A n \in Nodes : f[n] = Body(n, f)
  <2> HIDE DEF Body, V
  <2>1. QED
    BY <1>6, <1>8 DEF Solution
<1>10. f = [n \in Nodes |-> Body(n, f)]
  <2> HIDE DEF Body
  <2>1. QED
    BY <1>9
<1> DEFINE L == CHOOSE calls : calls = [n \in Nodes |-> Body(n, calls)]
<1>11. LogicalCalls = L
  BY DEF LogicalCalls
<1>12. L = [n \in Nodes |-> Body(n, L)]
  <2> HIDE DEF Body
  <2>1. QED
    BY <1>10
<1> HIDE DEF L
<1>13. \A n \in Nodes : L[n] = Body(n, L)
  <2> HIDE DEF Body
  <2>1. QED
    BY <1>12
<1> DEFINE P == {n \in Nodes : L[n] \in V}
<1>14. ASSUME NEW n \in Nodes, \A m \in Nodes : rank[m] < rank[n] => m \in P PROVE n \in P
  <2>1. CASE ParentOf[n] = "root"
    BY <1>13, <2>1
  <2>2. CASE ParentOf[n] # "root"
    <3>1. L[ParentOf[n]] \in V /\ ann[ParentOf[n]].rows \in V
      BY <1>3, <1>14, <2>2, AnnFacts
    <3>2. L[ParentOf[n]] * ann[ParentOf[n]].rows \in V
      BY <3>1, PosTimes
    <3>3. QED
      BY <1>13, <2>2, <3>2
  <2>3. QED
    BY <2>1, <2>2
<1>15. P = Nodes
  <2>1. P \in SUBSET Nodes
    OBVIOUS
  <2> HIDE DEF P
  <2>2. QED
    BY <1>2, <1>14, <2>1, RankInduction
<1>16. QED
  BY <1>11, <1>15

(* A sum over a node and all below it is its own share and its children's. *)
LEMMA SumBelowIs ==
  ASSUME NEW own \in [Nodes -> Nat]
  PROVE  /\ SumBelow(own) \in [Nodes -> Nat]
         /\ \A n \in Nodes : SumBelow(own)[n] =
              own[n] + SumOver([m \in DOMAIN Children[n] |-> SumBelow(own)[Children[n][m]]])
<1> DEFINE Kids(n, f) == [m \in DOMAIN Children[n] |-> f[Children[n][m]]]
           Body(n, f) == own[n] + SumOver(Kids(n, f))
           F == [n \in Nodes |-> [f \in [Nodes -> Nat] |-> Body(n, f)]]
           rank == [n \in Nodes |-> Place(n)]
<1>1. PICK K \in Nat : K = Len(Postorder)
  BY TreeFacts
<1>2. rank \in [Nodes -> 0..K] /\ rank \in [Nodes -> Nat]
  BY <1>1, TreeFacts
<1>3. \A n \in Nodes : \A m \in DOMAIN Children[n] :
        Children[n][m] \in Nodes /\ rank[Children[n][m]] < rank[n]
  BY <1>1, TreeFacts
<1>a. \A n \in Nodes : IsFiniteSet(DOMAIN Children[n])
  <2> SUFFICES ASSUME NEW n \in Nodes PROVE IsFiniteSet(DOMAIN Children[n])
    OBVIOUS
  <2>1. PICK k \in Nat : DOMAIN Children[n] = 1..k
    BY TreeFacts
  <2>2. QED
    BY <2>1, IntervalFinite
<1> HIDE DEF rank
<1>4. ASSUME NEW n \in Nodes, NEW f, \A m \in DOMAIN Children[n] : f[Children[n][m]] \in Nat
      PROVE  Body(n, f) \in Nat
  <2>1. PICK S, v : S = DOMAIN Children[n] /\ v = Kids(n, f)
    OBVIOUS
  <2>2. v \in [S -> Nat] /\ IsFiniteSet(S)
    BY <1>4, <1>a, <2>1
  <2>3. SumOver(v) \in Nat
    BY <2>2, SumNat
  <2>4. QED
    BY <2>1, <2>3
<1>5. F \in [Nodes -> [[Nodes -> Nat] -> Nat]]
  <2>1. \A n \in Nodes : \A f \in [Nodes -> Nat] : Body(n, f) \in Nat
    BY <1>3, <1>4
  <2> HIDE DEF Body
  <2>2. QED
    BY <2>1
<1>6. \A n \in Nodes : \A f \in [Nodes -> Nat] : F[n][f] = Body(n, f)
  <2> HIDE DEF Body
  <2>1. QED
    OBVIOUS
<1> HIDE DEF F
<1>7. LooksDown(Nodes, Nat, rank, F)
  <2>1. ASSUME NEW n \in Nodes, NEW f \in [Nodes -> Nat], NEW g \in [Nodes -> Nat],
               \A m \in Nodes : rank[m] < rank[n] => f[m] = g[m]
        PROVE  Body(n, f) = Body(n, g)
    <3>1. \A m \in DOMAIN Children[n] : f[Children[n][m]] = g[Children[n][m]]
      BY <1>3, <2>1
    <3>2. Kids(n, f) = Kids(n, g)
      BY <3>1
    <3> HIDE DEF Kids
    <3>3. QED
      BY <3>2
  <2> HIDE DEF Body
  <2>2. QED
    BY <1>6, <2>1 DEF LooksDown
<1>8. \E f : Solution(Nodes, Nat, F, f)
  <2>1. 0 \in Nat
    OBVIOUS
  <2>2. QED
    BY <1>2, <1>5, <1>7, <2>1, RecursionExists
<1>9. PICK f : f \in [Nodes -> Nat] /\ \A n \in Nodes : f[n] = Body(n, f)
  <2> HIDE DEF Body
  <2>1. QED
    BY <1>6, <1>8 DEF Solution
<1>10. f = [n \in Nodes |-> Body(n, f)]
  <2> HIDE DEF Body
  <2>1. QED
    BY <1>9
<1> DEFINE L == CHOOSE total : total = [n \in Nodes |-> Body(n, total)]
<1>11. SumBelow(own) = L
  BY DEF SumBelow
<1>12. L = [n \in Nodes |-> Body(n, L)]
  <2> HIDE DEF Body
  <2>1. QED
    BY <1>10
<1> HIDE DEF L
<1>13. \A n \in Nodes : L[n] = Body(n, L)
  <2> HIDE DEF Body
  <2>1. QED
    BY <1>12
<1> DEFINE P == {n \in Nodes : L[n] \in Nat}
<1>14. ASSUME NEW n \in Nodes, \A m \in Nodes : rank[m] < rank[n] => m \in P PROVE n \in P
  <2>1. \A m \in DOMAIN Children[n] : L[Children[n][m]] \in Nat
    BY <1>3, <1>14
  <2> HIDE DEF Body
  <2>2. QED
    BY <1>4, <1>13, <2>1
<1>15. P = Nodes
  <2>1. P \in SUBSET Nodes
    OBVIOUS
  <2> HIDE DEF P
  <2>2. QED
    BY <1>2, <1>14, <2>1, RankInduction
<1>16. L \in [Nodes -> Nat]
  <2> HIDE DEF Body
  <2>1. QED
    BY <1>12, <1>15
<1>17. QED
  BY <1>11, <1>13, <1>16

-----------------------------------------------------------------------------
(***************************************************************************)
(* The combinations of the children's candidates.                          *)
(***************************************************************************)
LEMMA DivNat ==
  ASSUME NEW a \in Nat, NEW b \in Nat \ {0}
  PROVE  a \div b \in Nat /\ a % b \in 0..(b - 1) /\ a = b * (a \div b) + (a % b)
OBVIOUS

LEMMA DivBelow ==
  ASSUME NEW a \in Nat, NEW b \in Nat \ {0}, NEW c \in Nat, a < c * b
  PROVE  a \div b < c
<1>1. PICK q \in Nat, r \in 0..(b - 1) : q = a \div b /\ a = b * q + r
  BY DivNat
<1>2. SUFFICES ASSUME c <= q PROVE FALSE
  BY <1>1
<1>3. PICK d \in Nat : q = c + d
  BY <1>1, <1>2
<1>4. b * q = c * b + b * d /\ b * d \in Nat
  BY <1>3
<1>5. QED
  BY <1>1, <1>4

LEMMA PlaceOf ==
  ASSUME NEW a \in Nat, NEW c \in Nat \ {0}, NEW s \in Nat \ {0}
  PROVE  /\ ((a \div c) % s) + 1 \in 1..s
         /\ a = 0 => ((a \div c) % s) + 1 = 1
<1>1. PICK q \in Nat : q = a \div c
  BY DivNat
<1>2. q % s \in 0..(s - 1)
  BY DivNat
<1>3. a = 0 => q = 0
  BY <1>1
<1>4. q = 0 => q % s = 0
  OBVIOUS
<1>5. QED
  BY <1>1, <1>2, <1>3, <1>4

LEMMA CombinationsFromIs ==
  ASSUME NEW n \in Nodes, \A m \in DOMAIN Children[n] : Len(kept[Children[n][m]]) \in Nat
  PROVE  \A m \in 1..(Len(Children[n]) + 1) : CombinationsFrom(n)[m] \in Nat \ {0}
<1>1. PICK K \in Nat : K = Len(Children[n]) /\ DOMAIN Children[n] = 1..K
  BY TreeFacts
<1> DEFINE V == Nat \ {0}
           D == 1..(K + 1)
           size(m) == Larger(1, Len(kept[Children[n][m]]))
           Body(m, f) == IF m > K THEN 1 ELSE size(m) * f[m + 1]
           F == [m \in D |-> [f \in [D -> V] |-> Body(m, f)]]
           rank == [m \in D |-> K + 1 - m]
<1>2. rank \in [D -> 0..(K + 1)] /\ rank \in [D -> Nat]
  OBVIOUS
<1>3. \A m \in D : ~(m > K) => m + 1 \in D /\ rank[m + 1] < rank[m] /\ size(m) \in V
  BY <1>1 DEF Larger
<1> HIDE DEF rank, size
<1>4. ASSUME NEW m \in D, NEW f, ~(m > K) => f[m + 1] \in V PROVE Body(m, f) \in V
  <2>1. CASE m > K
    BY <2>1
  <2>2. CASE ~(m > K)
    <3>1. PICK a \in V, b \in V : a = size(m) /\ b = f[m + 1]
      BY <1>3, <1>4, <2>2
    <3>2. a * b \in V
      BY PosTimes
    <3>3. QED
      BY <2>2, <3>1, <3>2
  <2>3. QED
    BY <2>1, <2>2
<1>5. F \in [D -> [[D -> V] -> V]]
  <2>1. \A m \in D : \A f \in [D -> V] : Body(m, f) \in V
    BY <1>3, <1>4
  <2> HIDE DEF Body, V
  <2>2. QED
    BY <2>1
<1>6. \A m \in D : \A f \in [D -> V] : F[m][f] = Body(m, f)
  <2> HIDE DEF Body, V
  <2>1. QED
    OBVIOUS
<1> HIDE DEF F
<1>7. LooksDown(D, V, rank, F)
  <2>1. ASSUME NEW m \in D, NEW f \in [D -> V], NEW g \in [D -> V],
               \A o \in D : rank[o] < rank[m] => f[o] = g[o]
        PROVE  Body(m, f) = Body(m, g)
    BY <1>3, <2>1
  <2> HIDE DEF Body, V
  <2>2. QED
    BY <1>6, <2>1 DEF LooksDown
<1>8. \E f : Solution(D, V, F, f)
  <2>1. 1 \in V /\ K + 1 \in Nat
    OBVIOUS
  <2> HIDE DEF V, D
  <2>2. QED
    BY <1>2, <1>5, <1>7, <2>1, RecursionExists
<1>9. PICK f : f \in [D -> V] /\ \A m \in D : f[m] = Body(m, f)
  <2> HIDE DEF Body, V, D
  <2>1. QED
    BY <1>6, <1>8 DEF Solution
<1>10. f = [m \in D |-> Body(m, f)]
  <2> HIDE DEF Body
  <2>1. QED
    BY <1>9
<1> DEFINE L == CHOOSE count : count = [m \in D |-> Body(m, count)]
<1>11. CombinationsFrom(n) = L
  BY <1>1 DEF CombinationsFrom, size
<1>12. L = [m \in D |-> Body(m, L)]
  <2> HIDE DEF Body
  <2>1. QED
    BY <1>10
<1> HIDE DEF L
<1>13. \A m \in D : L[m] = Body(m, L)
  <2> HIDE DEF Body
  <2>1. QED
    BY <1>12
<1> DEFINE P == {m \in D : L[m] \in V}
<1>14. ASSUME NEW m \in D, \A o \in D : rank[o] < rank[m] => o \in P PROVE m \in P
  <2>1. ~(m > K) => L[m + 1] \in V
    BY <1>3, <1>14
  <2> HIDE DEF Body
  <2>2. QED
    BY <1>4, <1>13, <2>1
<1>15. P = D
  <2>1. P \in SUBSET D
    OBVIOUS
  <2> HIDE DEF P, D, V
  <2>2. QED
    BY <1>2, <1>14, <2>1, RankInduction
<1>16. QED
  BY <1>1, <1>11, <1>15

(* Where every child keeps some candidate, each combination takes one of   *)
(* each, and the first takes the best of each.                             *)
LEMMA CombinationsAre ==
  ASSUME NEW n \in Nodes, SearchConfig.keepTopK \in Nat \ {0},
         \A m \in DOMAIN Children[n] : Len(kept[Children[n][m]]) \in Nat \ {0}
  PROVE  \E w \in Nat \ {0} :
           /\ Combinations(n) = [k \in 1..w |-> Combinations(n)[k]]
           /\ \A k \in 1..w :
                /\ Combinations(n)[k] = [m \in DOMAIN Children[n] |-> Combinations(n)[k][m]]
                /\ \A m \in DOMAIN Children[n] :
                     Combinations(n)[k][m] \in 1..Len(kept[Children[n][m]])
           /\ \A m \in DOMAIN Children[n] : Combinations(n)[1][m] = 1
<1>1. PICK K \in Nat : K = Len(Children[n]) /\ DOMAIN Children[n] = 1..K
  BY TreeFacts
<1>2. \A m \in 1..(K + 1) : CombinationsFrom(n)[m] \in Nat \ {0}
  <2>1. \A m \in DOMAIN Children[n] : Len(kept[Children[n][m]]) \in Nat
    OBVIOUS
  <2>2. QED
    BY <1>1, <2>1, CombinationsFromIs
<1>3. PICK one \in 1..(K + 1) : one = 1
  OBVIOUS
<1>4. PICK w \in Nat \ {0} : w = Smaller(CombinationLimit, CombinationsFrom(n)[1])
  <2>1. CombinationsFrom(n)[1] \in Nat \ {0}
    BY <1>2, <1>3
  <2>2. CombinationLimit \in Nat \ {0}
    BY DEF CombinationLimit, Smaller, Larger
  <2>3. QED
    BY <2>1, <2>2 DEF Smaller
<1> DEFINE S == DOMAIN Children[n]
           size(m) == Len(kept[Children[n][m]])
           At(k, m) == IF size(m) = 0 THEN 0
                       ELSE (((k - 1) \div CombinationsFrom(n)[m + 1]) % size(m)) + 1
           C == Combinations(n)
<1>5. C = [k \in 1..w |-> [m \in S |-> At(k, m)]]
  BY <1>4 DEF Combinations
<1>6. ASSUME NEW k \in 1..w, NEW m \in S
      PROVE  At(k, m) \in 1..size(m) /\ (k = 1 => At(k, m) = 1)
  <2>1. m + 1 \in 1..(K + 1)
    BY <1>1
  <2>2. PICK c \in Nat \ {0} : c = CombinationsFrom(n)[m + 1]
    BY <1>2, <2>1
  <2>3. PICK s \in Nat \ {0} : s = size(m)
    OBVIOUS
  <2>4. PICK a \in Nat : a = k - 1
    OBVIOUS
  <2>5. ((a \div c) % s) + 1 \in 1..s /\ (a = 0 => ((a \div c) % s) + 1 = 1)
    BY PlaceOf
  <2>6. At(k, m) = ((a \div c) % s) + 1
    BY <2>2, <2>3, <2>4
  <2>7. k = 1 => a = 0
    BY <2>4
  <2>8. QED
    BY <2>3, <2>5, <2>6, <2>7
<1> HIDE DEF At, C
<1>7. \A k \in 1..w : C[k] = [m \in S |-> At(k, m)]
  BY <1>5
<1>8. C = [k \in 1..w |-> C[k]]
  BY <1>5
<1>9. \A k \in 1..w : C[k] = [m \in S |-> C[k][m]] /\ \A m \in S : C[k][m] = At(k, m)
  BY <1>7
<1>a. \A k \in 1..w : \A m \in S : C[k][m] = At(k, m)
  BY <1>7
<1>10. \A m \in S : C[1][m] = 1
  <2>1. PICK i \in 1..w : i = 1
    BY <1>4
  <2>2. \A m \in S : C[i][m] = 1
    BY <1>6, <1>a, <2>1
  <2>3. QED
    BY <2>1, <2>2
<1>11. \A k \in 1..w : \A m \in S : C[k][m] \in 1..size(m)
  BY <1>6, <1>9
<1> HIDE DEF S
<1>12. QED
  BY <1>8, <1>9, <1>10, <1>11 DEF C, S

-----------------------------------------------------------------------------
(***************************************************************************)
(* Strategies and the candidates they start from.                          *)
(***************************************************************************)
Slots == Smaller(RootWorkers, 16)
Batches == Smaller(RootWorkers, 2)

KnownStrategies ==
  {s \in [mode : Modes, rank : 0..4, workers : 1..Slots, batchSize : Nat,
          maxConcurrentBatches : 0..Batches] :
     s.mode = "LIST_BATCHED" => s.batchSize >= 1 /\ s.maxConcurrentBatches >= 1}

LEMMA SlotsAre ==
  /\ RootWorkers \in Nat \ {0} /\ Slots \in 1..RootWorkers /\ Slots <= 16
  /\ \A k \in 1..16 : Smaller(RootWorkers, k) \in 1..Slots
  /\ Batches \in 1..Slots
BY ConfigAssumption DEF Slots, Batches, Smaller

LEMMA StrategyIs ==
  ASSUME NEW mode \in Modes, NEW rank \in 0..4, NEW w \in 1..Slots, NEW b \in Nat,
         NEW c \in 0..Batches, mode = "LIST_BATCHED" => b >= 1 /\ c >= 1
  PROVE  Strategy(mode, rank, w, b, c) \in KnownStrategies
BY DEF Strategy, KnownStrategies

LEMMA ParallelListIs ==
  ASSUME NEW k \in {2, 4, 16}
  PROVE  ParallelList(k) \in KnownStrategies
<1>1. PICK w \in 1..Slots : w = Smaller(RootWorkers, k)
  BY SlotsAre
<1>2. PICK r \in 0..4 : r = CASE k = 16 -> 1 [] k = 2 -> 2 [] k = 4 -> 3
  OBVIOUS
<1>3. ParallelList(k) = Strategy("LIST_PARALLEL", r, w, 0, 0)
  BY <1>1, <1>2 DEF ParallelList
<1>4. "LIST_PARALLEL" \in Modes /\ 0 \in Nat /\ 0 \in 0..Batches
  BY SlotsAre DEF Modes
<1>5. QED
  BY <1>3, <1>4, StrategyIs

LEMMA BatchedListIs ==
  ASSUME NEW size \in Nat \ {0}
  PROVE  BatchedList(size) \in KnownStrategies
<1>1. PICK w \in 1..Slots, b \in 1..Batches : w = Smaller(RootWorkers, 16) /\ b = Smaller(RootWorkers, 2)
  BY SlotsAre DEF Batches
<1>2. BatchedList(size) = Strategy("LIST_BATCHED", 0, w, size, b)
  BY <1>1 DEF BatchedList
<1>3. "LIST_BATCHED" \in Modes /\ 0 \in 0..4 /\ size \in Nat /\ size >= 1 /\ b \in 0..Batches /\ b >= 1
  BY SlotsAre DEF Modes
<1>4. QED
  BY <1>2, <1>3, StrategyIs

LEMMA SerialStrategyIs ==
  ASSUME NEW n \in Nodes
  PROVE  /\ SerialStrategy(n) \in KnownStrategies
         /\ SerialStrategy(n).mode \in {"LIST_SERIAL", "SCALAR", "SEQ_FIELDS"}
<1>1. PICK mode \in Modes : /\ mode \in {"LIST_SERIAL", "SCALAR", "SEQ_FIELDS"}
                            /\ SerialStrategy(n) = Strategy(mode, 4, 1, 0, 0)
  BY DEF SerialStrategy, Modes
<1>2. 4 \in 0..4 /\ 1 \in 1..Slots /\ 0 \in Nat /\ 0 \in 0..Batches
  BY SlotsAre
<1>3. Strategy(mode, 4, 1, 0, 0) \in KnownStrategies
  BY <1>1, <1>2, StrategyIs
<1>4. QED
  BY <1>1, <1>3 DEF Strategy

LEMMA ListTierIs ==
  ASSUME NEW n
  PROVE  ListTier(n) \in {"normal", "limited", "strict"}
BY DEF ListTier

(* The serial strategy comes first, and all are such as the executor knows. *)
LEMMA StrategiesAre ==
  ASSUME NEW n \in Nodes
  PROVE  \E w \in Nat \ {0} :
           /\ Len(Strategies(n)) = w /\ DOMAIN Strategies(n) = 1..w
           /\ Strategies(n)[1] = SerialStrategy(n)
           /\ \A i \in 1..w : Strategies(n)[i] \in KnownStrategies
<1> DEFINE fields == IF Children[n] = <<>> THEN <<>>
                     ELSE <<Strategy("PAR_FIELDS", 3, Smaller(RootWorkers, 4), 0, 0)>>
           parallel == CASE ListTier(n) = "normal" ->
                              <<ParallelList(2), ParallelList(4)>>
                                \o (IF HasNestedLists[n] THEN <<>> ELSE <<ParallelList(16)>>)
                         [] ListTier(n) = "limited" -> <<ParallelList(2)>>
                         [] ListTier(n) = "strict" -> <<>>
           batched == IF n \in DOMAIN MaxBatchSize
                      THEN [i \in DOMAIN BatchSizes(n) |-> BatchedList(BatchSizes(n)[i])] ELSE <<>>
           others == IF n \notin IsList THEN fields ELSE parallel \o batched
           S == KnownStrategies
<1>1. Strategies(n) = <<SerialStrategy(n)>> \o others
  BY DEF Strategies
<1>2. fields \in Seq(S)
  <2>1. <<>> \in Seq(S)
    OBVIOUS
  <2>2. PICK s : s = Strategy("PAR_FIELDS", 3, Smaller(RootWorkers, 4), 0, 0)
    OBVIOUS
  <2>3. s \in S
    <3>1. PICK w \in 1..Slots : w = Smaller(RootWorkers, 4)
      BY SlotsAre
    <3>2. "PAR_FIELDS" \in Modes /\ 3 \in 0..4 /\ 0 \in Nat /\ 0 \in 0..Batches
      BY SlotsAre DEF Modes
    <3>3. QED
      BY <2>2, <3>1, <3>2, StrategyIs
  <2>4. <<s>> \in Seq(S)
    BY <2>3
  <2>5. QED
    BY <2>1, <2>2, <2>4
<1>3. parallel \in Seq(S)
  <2>1. PICK a \in S, b \in S, c \in S : a = ParallelList(2) /\ b = ParallelList(4) /\ c = ParallelList(16)
    BY ParallelListIs
  <2> HIDE DEF S
  <2>2. <<>> \in Seq(S) /\ <<a>> \in Seq(S) /\ <<a, b>> \in Seq(S) /\ <<c>> \in Seq(S)
    OBVIOUS
  <2>3. <<a, b>> \o <<>> \in Seq(S) /\ <<a, b>> \o <<c>> \in Seq(S)
    BY <2>2, ConcatProperties
  <2>4. CASE ListTier(n) = "normal"
    <3>1. parallel = <<a, b>> \o <<>> \/ parallel = <<a, b>> \o <<c>>
      BY <2>1, <2>4
    <3>2. QED
      BY <2>3, <3>1
  <2>5. CASE ListTier(n) = "limited"
    BY <2>1, <2>2, <2>5
  <2>6. CASE ListTier(n) = "strict"
    BY <2>2, <2>6
  <2>7. QED
    BY <2>4, <2>5, <2>6, ListTierIs
<1>4. batched \in Seq(S)
  <2>1. CASE n \notin DOMAIN MaxBatchSize
    BY <2>1
  <2>2. CASE n \in DOMAIN MaxBatchSize
    <3>1. PICK x \in Nat \ {0} : x = MaxBatchSize[n]
      BY <2>2, ConfigAssumption
    <3>2. PICK h \in Nat \ {0} : h = Larger(1, x \div 2)
      BY DEF Larger
    <3>3. BatchSizes(n) = IF h = x THEN <<h>> ELSE <<h, x>>
      BY <3>1, <3>2 DEF BatchSizes
    <3>4. PICK k \in {1, 2} : DOMAIN BatchSizes(n) = 1..k /\ \A i \in 1..k : BatchSizes(n)[i] \in Nat \ {0}
      BY <3>3
    <3>5. PICK z : z = [i \in DOMAIN BatchSizes(n) |-> BatchedList(BatchSizes(n)[i])]
      OBVIOUS
    <3>6. \A i \in 1..k : BatchedList(BatchSizes(n)[i]) \in S
      BY <3>4, BatchedListIs
    <3> HIDE DEF S
    <3>7. z \in [1..k -> S]
      BY <3>4, <3>5, <3>6
    <3>8. z \in Seq(S)
      BY <3>7, SeqDef
    <3>9. QED
      BY <2>2, <3>5, <3>8
  <2>3. QED
    BY <2>1, <2>2
<1> HIDE DEF fields, parallel, batched, S
<1>5. others \in Seq(S)
  <2>1. parallel \o batched \in Seq(S)
    BY <1>3, <1>4, ConcatProperties
  <2>2. QED
    BY <1>2, <2>1
<1> HIDE DEF others
<1>6. PICK s \in S, o \in Seq(S) : s = SerialStrategy(n) /\ o = others
  BY <1>5, SerialStrategyIs DEF S
<1>7. /\ <<s>> \o o \in Seq(S) /\ Len(<<s>> \o o) = 1 + Len(o)
      /\ (<<s>> \o o)[1] = s
  <2>1. <<s>> \in Seq(S) /\ Len(<<s>>) = 1 /\ <<s>>[1] = s
    OBVIOUS
  <2>2. Len(o) \in Nat
    BY LenProperties
  <2>3. /\ <<s>> \o o \in Seq(S)
        /\ Len(<<s>> \o o) = Len(<<s>>) + Len(o)
        /\ \A i \in 1..Len(<<s>>) + Len(o) :
             (<<s>> \o o)[i] = IF i <= Len(<<s>>) THEN <<s>>[i] ELSE o[i - Len(<<s>>)]
    BY <2>1, ConcatProperties
  <2>4. QED
    BY <2>1, <2>2, <2>3
<1>8. PICK t \in Seq(S) : t = Strategies(n) /\ Len(t) = 1 + Len(o) /\ t[1] = s
  BY <1>1, <1>6, <1>7
<1>9. /\ Len(t) \in Nat /\ Len(t) # 0 /\ DOMAIN t = 1..Len(t) /\ \A i \in 1..Len(t) : t[i] \in S
  <2>1. Len(t) \in Nat /\ t \in [1..Len(t) -> S] /\ DOMAIN t = 1..Len(t) /\ Len(o) \in Nat
    BY LenProperties
  <2>2. QED
    BY <1>8, <2>1
<1>10. QED
  BY <1>6, <1>8, <1>9 DEF S

LEMMA NatTimes ==
  ASSUME NEW a \in Nat, NEW b \in Nat
  PROVE  a * b \in Nat
OBVIOUS

LEMMA CeilDiv ==
  ASSUME NEW a \in Nat \ {0}, NEW b \in Nat \ {0}
  PROVE  (a + b - 1) \div b \in Nat \ {0}
<1>1. PICK c \in Nat : c = a + b - 1 /\ c >= b
  OBVIOUS
<1>2. PICK q \in Nat, r \in 0..(b - 1) : q = c \div b /\ c = b * q + r
  BY DivNat
<1>3. q # 0
  <2>1. SUFFICES ASSUME q = 0 PROVE FALSE
    OBVIOUS
  <2>2. b * q = 0
    BY <2>1
  <2>3. QED
    BY <1>1, <1>2, <2>2
<1>4. QED
  BY <1>1, <1>2, <1>3

Candidates ==
  [strategy : KnownStrategies, calls : Nat \ {0}, startup : Nat, self : Nat, childCost : Nat,
   inflight : Nat \ {0}, memory : Nat, concurrency : Nat \ {0}, below : Seq(Nat)]

OwnMemory == [n \in Nodes |-> RowsOutTotal(n) * ann[n].width]

LEMMA OwnMemoryIs ==
  ASSUME ann \in Annotations
  PROVE  /\ OwnMemory \in [Nodes -> Nat]
         /\ \A n \in Nodes : OwnMemory[n] = RowsOutTotal(n) * ann[n].width
<1>1. ASSUME NEW n \in Nodes PROVE RowsOutTotal(n) * ann[n].width \in Nat
  <2>1. PICK a \in Nat, b \in Nat, c \in Nat : a = LogicalCalls[n] /\ b = ann[n].rows /\ c = ann[n].width
    BY CallsIs, AnnFacts
  <2>2. a * b \in Nat /\ (a * b) * c \in Nat
    BY NatTimes
  <2>3. QED
    BY <2>1, <2>2 DEF RowsOutTotal
<1>2. QED
  BY <1>1 DEF OwnMemory

LEMMA LocalIs ==
  ASSUME ann \in Annotations, NEW n \in Nodes, NEW s \in KnownStrategies
  PROVE  /\ LocalCandidate(n, s) \in Candidates
         /\ LocalCandidate(n, s).strategy = s /\ LocalCandidate(n, s).memory = OwnMemory[n]
         /\ LocalCandidate(n, s).inflight <= Slots /\ LocalCandidate(n, s).concurrency = 1
         /\ LocalCandidate(n, s).childCost = 0 /\ LocalCandidate(n, s).below = <<>>
         /\ s.mode \in {"LIST_SERIAL", "SCALAR", "SEQ_FIELDS"} => LocalCandidate(n, s).inflight = 1
<1>1. /\ s.mode \in Modes /\ s.workers \in 1..Slots /\ s.batchSize \in Nat
      /\ s.maxConcurrentBatches \in 0..Slots
      /\ s.mode = "LIST_BATCHED" => s.batchSize >= 1 /\ s.maxConcurrentBatches >= 1
  BY SlotsAre DEF KnownStrategies
<1>2. PICK calls \in Nat \ {0} : calls = LogicalCalls[n]
  BY CallsIs
<1>3. PhysicalCalls(n, s) \in Nat \ {0}
  <2>1. CASE s.mode = "LIST_BATCHED"
    <3>1. PICK b \in Nat \ {0} : b = s.batchSize
      BY <1>1, <2>1
    <3>2. (calls + b - 1) \div b \in Nat \ {0}
      BY CeilDiv
    <3>3. QED
      BY <1>2, <2>1, <3>1, <3>2 DEF PhysicalCalls
  <2>2. CASE s.mode # "LIST_BATCHED"
    BY <1>2, <2>2 DEF PhysicalCalls
  <2>3. QED
    BY <2>1, <2>2
<1>4. PICK p \in Nat \ {0} : p = PhysicalCalls(n, s)
  BY <1>3
<1>5. Slots \in Nat /\ Slots >= 1
  BY SlotsAre
<1>6. /\ OwnInflight(n, s) \in Nat \ {0} /\ OwnInflight(n, s) <= Slots
      /\ s.mode \in {"LIST_SERIAL", "SCALAR", "SEQ_FIELDS"} => OwnInflight(n, s) = 1
  <2>1. OwnInflight(n, s) = CASE s.mode = "LIST_PARALLEL" -> Smaller(p, s.workers)
                              [] s.mode = "LIST_BATCHED" -> Smaller(p, s.maxConcurrentBatches)
                              [] s.mode = "PAR_FIELDS" -> s.workers
                              [] OTHER -> 1
    BY <1>4 DEF OwnInflight
  <2>2. CASE s.mode = "LIST_PARALLEL"
    BY <1>1, <1>5, <2>1, <2>2 DEF Smaller
  <2>3. CASE s.mode = "LIST_BATCHED"
    BY <1>1, <1>5, <2>1, <2>3 DEF Smaller
  <2>4. CASE s.mode = "PAR_FIELDS"
    BY <1>1, <1>5, <2>1, <2>4
  <2>5. CASE s.mode \in {"LIST_SERIAL", "SCALAR", "SEQ_FIELDS"}
    BY <1>5, <2>1, <2>5
  <2>6. QED
    BY <1>1, <2>2, <2>3, <2>4, <2>5 DEF Modes
<1>7. CoordinationPerSlot[s.mode] \in Nat
  BY <1>1 DEF CoordinationPerSlot, Modes
<1>8. PICK a \in Nat : a = ann[n].startup * PhysicalCalls(n, s)
  <2>1. PICK x \in Nat : x = ann[n].startup
    BY AnnFacts
  <2>2. x * p \in Nat
    BY NatTimes
  <2>3. QED
    BY <1>4, <2>1, <2>2
<1>9. PICK b \in Nat : b = ann[n].self * LogicalCalls[n] + CoordinationPerSlot[s.mode] * OwnInflight(n, s)
  <2>1. PICK x \in Nat, y \in Nat, z \in Nat :
          x = ann[n].self /\ y = CoordinationPerSlot[s.mode] /\ z = OwnInflight(n, s)
    BY <1>6, <1>7, AnnFacts
  <2>2. x * calls \in Nat /\ y * z \in Nat
    BY NatTimes
  <2>3. x * calls + y * z \in Nat
    BY <2>2
  <2>4. QED
    BY <1>2, <2>1, <2>3
<1>10. PICK i \in Nat \ {0} : i = OwnInflight(n, s)
  BY <1>6
<1>11. PICK m \in Nat : m = RowsOutTotal(n) * ann[n].width /\ m = OwnMemory[n]
  BY OwnMemoryIs
<1>12. LocalCandidate(n, s) =
         [strategy |-> s, calls |-> p, startup |-> a, self |-> b, childCost |-> 0, inflight |-> i,
          memory |-> m, concurrency |-> 1, below |-> <<>>]
  BY <1>4, <1>8, <1>9, <1>10, <1>11 DEF LocalCandidate
<1>13. <<>> \in Seq(Nat)
  OBVIOUS
<1>14. QED
  BY <1>6, <1>10, <1>11, <1>12, <1>13 DEF Candidates

(* Without children a parallel strategy only adds coordination: what it is *)
(* for comes of the children.  So it is dominated by the serial one, and   *)
(* only batches, which save calls, can be kept beside that.                *)
LEMMA LeanOrDominated ==
  ASSUME ann \in Annotations, NEW n \in Nodes, NEW s \in KnownStrategies
  PROVE  \/ LocalCandidate(n, s).inflight <= Batches
         \/ Dominates(LocalCandidate(n, SerialStrategy(n)), LocalCandidate(n, s))
<1>1. /\ s.mode \in Modes
      /\ s.mode = "LIST_BATCHED" => s.maxConcurrentBatches \in Nat /\ s.maxConcurrentBatches <= Batches
      /\ Batches \in Nat /\ Batches >= 1
  BY SlotsAre DEF KnownStrategies
<1>2. PICK z \in KnownStrategies : z = SerialStrategy(n)
  BY SerialStrategyIs
<1>3. z.mode \in {"LIST_SERIAL", "SCALAR", "SEQ_FIELDS"}
  BY <1>2, SerialStrategyIs
<1>4. PICK i \in Nat \ {0} : i = OwnInflight(n, s) /\ i = LocalCandidate(n, s).inflight
  BY LocalIs DEF LocalCandidate, Candidates
<1>5. CASE s.mode \in {"LIST_SERIAL", "SCALAR", "SEQ_FIELDS"}
  BY <1>1, <1>5, LocalIs
<1>6. CASE s.mode = "LIST_BATCHED"
  <2>1. PICK q \in Nat \ {0} : q = PhysicalCalls(n, s)
    BY LocalIs DEF LocalCandidate, Candidates
  <2>2. i = Smaller(q, s.maxConcurrentBatches)
    BY <1>4, <1>6, <2>1 DEF OwnInflight
  <2>3. i <= Batches
    BY <1>1, <1>6, <2>1, <2>2 DEF Smaller
  <2>4. QED
    BY <1>4, <2>3
<1>7. CASE s.mode \in {"LIST_PARALLEL", "PAR_FIELDS"}
  <2>1. PhysicalCalls(n, s) = LogicalCalls[n] /\ PhysicalCalls(n, z) = LogicalCalls[n]
    BY <1>3, <1>7 DEF PhysicalCalls
  <2>2. PICK start \in Nat : start = ann[n].startup * LogicalCalls[n]
    <3>1. PICK a \in Nat, calls \in Nat : a = ann[n].startup /\ calls = LogicalCalls[n]
      BY AnnFacts, CallsIs
    <3>2. a * calls \in Nat
      BY NatTimes
    <3>3. QED
      BY <3>1, <3>2
  <2>3. PICK work \in Nat : work = ann[n].self * LogicalCalls[n]
    <3>1. PICK a \in Nat, calls \in Nat : a = ann[n].self /\ calls = LogicalCalls[n]
      BY AnnFacts, CallsIs
    <3>2. a * calls \in Nat
      BY NatTimes
    <3>3. QED
      BY <3>1, <3>2
  <2>4. PICK more \in Nat \ {0} : more = CoordinationPerSlot[s.mode] * i
    <3>1. PICK u \in Nat \ {0} : u = CoordinationPerSlot[s.mode]
      BY <1>7 DEF CoordinationPerSlot
    <3>2. u * i \in Nat \ {0}
      BY PosTimes
    <3>3. QED
      BY <3>1, <3>2
  <2>5. CoordinationPerSlot[z.mode] * OwnInflight(n, z) = 0
    <3>1. CoordinationPerSlot[z.mode] = 0
      BY <1>3 DEF CoordinationPerSlot
    <3>2. OwnInflight(n, z) = 1
      BY <1>3 DEF OwnInflight
    <3>3. QED
      BY <3>1, <3>2
  <2>6. PICK m \in Nat : m = RowsOutTotal(n) * ann[n].width
    BY OwnMemoryIs
  <2>7. PICK c : c = LocalCandidate(n, s)
    OBVIOUS
  <2>8. PICK d : d = LocalCandidate(n, z)
    OBVIOUS
  <2>9. /\ c.startup = start /\ c.self = work + more /\ c.childCost = 0 /\ c.inflight = i
        /\ c.memory = m /\ c.concurrency = 1
    BY <1>4, <2>1, <2>2, <2>3, <2>4, <2>6, <2>7 DEF LocalCandidate
  <2>10. /\ d.startup = start /\ d.self = work + 0 /\ d.childCost = 0 /\ d.inflight = 1
         /\ d.memory = m /\ d.concurrency = 1
    <3>1. d.inflight = 1
      BY <1>3, <2>8, LocalIs
    <3>2. QED
      BY <2>1, <2>2, <2>3, <2>5, <2>6, <2>8, <3>1 DEF LocalCandidate
  <2>11. Total(c) = start + work + more /\ Total(d) = start + work
    BY <2>9, <2>10 DEF Total
  <2>12. Dominates(d, c)
    BY <2>9, <2>10, <2>11, DominatesIs
  <2>13. QED
    BY <1>2, <2>7, <2>8, <2>12
<1>8. QED
  BY <1>1, <1>5, <1>6, <1>7 DEF Modes

-----------------------------------------------------------------------------
(***************************************************************************)
(* Candidates with their children.                                         *)
(***************************************************************************)
Extends(r, c, below, cost, inflight, memory, concurrency) ==
  /\ r \in Candidates
  /\ r.strategy = c.strategy /\ r.below = below
  /\ r.startup = c.startup /\ r.self = c.self /\ r.childCost = cost
  /\ r.inflight = Larger(c.inflight, inflight) /\ r.memory = c.memory + memory
  /\ r.concurrency = Larger(c.concurrency, concurrency)

LEMMA WithChildrenIs ==
  ASSUME NEW c \in Candidates, NEW below \in Seq(Nat), NEW cost \in Nat, NEW inflight \in Nat,
         NEW memory \in Nat, NEW concurrency \in Nat
  PROVE  Extends(WithChildren(c, below, cost, inflight, memory, concurrency),
                 c, below, cost, inflight, memory, concurrency)
<1>1. /\ c.inflight \in Nat \ {0} /\ c.memory \in Nat /\ c.concurrency \in Nat \ {0}
  BY DEF Candidates
<1>2. PICK i \in Nat \ {0} : i = Larger(c.inflight, inflight)
  BY <1>1 DEF Larger
<1>3. PICK m \in Nat : m = c.memory + memory
  BY <1>1
<1>4. PICK w \in Nat \ {0} : w = Larger(c.concurrency, concurrency)
  BY <1>1 DEF Larger
<1>5. PICK r : r = WithChildren(c, below, cost, inflight, memory, concurrency)
  OBVIOUS
<1>6. r = [c EXCEPT !.childCost = cost, !.below = below, !.inflight = i, !.memory = m,
                    !.concurrency = w]
  BY <1>2, <1>3, <1>4, <1>5 DEF WithChildren
<1>7. r \in Candidates
  BY <1>6 DEF Candidates
<1>8. /\ r.strategy = c.strategy /\ r.below = below
      /\ r.startup = c.startup /\ r.self = c.self /\ r.childCost = cost
      /\ r.inflight = i /\ r.memory = m /\ r.concurrency = w
  BY <1>6 DEF Candidates
<1>9. QED
  BY <1>2, <1>3, <1>4, <1>5, <1>7, <1>8 DEF Extends

LEMMA TotalIs ==
  ASSUME NEW c \in Candidates
  PROVE  Total(c) \in Nat /\ Total(c) = c.startup + c.self + c.childCost
BY DEF Total, Candidates

LEMMA ConfidenceIs ==
  ASSUME ann \in Annotations, NEW n \in Nodes
  PROVE  Confidence(n) \in 0..100
BY AnnFacts DEF Confidence, Smaller

LEMMA CoordinationIs ==
  ASSUME ann \in Annotations, NEW n \in Nodes, NEW slots \in Nat
  PROVE  ConservativeCoordination(n, slots) \in Nat
<1>1. PICK r \in Nat : r = ann[n].rows
  BY AnnFacts
<1>2. 50 * slots \in Nat /\ (50 * slots) * r \in Nat
  BY NatTimes
<1>3. QED
  BY <1>1, <1>2 DEF ConservativeCoordination

LEMMA SaturationIs ==
  ASSUME ann \in Annotations, NEW child \in Nodes, NEW c \in Candidates, NEW upstream \in Nat
  PROVE  Saturation(child, c, upstream) \in Nat
<1>1. PICK safe \in 1..8 : safe = SafeConcurrency(child, c)
  BY DEF SafeConcurrency, Smaller
<1>2. PICK x \in Nat : x = c.concurrency
  BY DEF Candidates
<1>3. PICK wanted \in Nat : wanted = upstream * x
  BY NatTimes
<1>4. PICK t \in Nat, f \in Nat, s \in Nat : t = Total(c) /\ f = c.childCost /\ s = c.self
  BY TotalIs DEF Candidates
<1>5. PICK g \in Nat : g = Larger((15 * t) \div 100, Larger((10 * f) \div 100, s))
  BY DEF Larger
<1>6. PICK d \in 100..200 : d = 200 - Confidence(child)
  BY ConfidenceIs
<1>7. Saturation(child, c, upstream) =
        IF upstream <= 1 \/ wanted <= safe THEN 0 ELSE ((wanted - safe) * g * d) \div (safe * 100)
  BY <1>1, <1>2, <1>3, <1>4, <1>5, <1>6 DEF Saturation
<1>8. CASE upstream <= 1 \/ wanted <= safe
  BY <1>7, <1>8
<1>9. CASE ~(upstream <= 1 \/ wanted <= safe)
  <2>1. PICK y \in Nat : y = wanted - safe
    BY <1>9
  <2>2. y * g \in Nat /\ (y * g) * d \in Nat /\ safe * 100 \in Nat \ {0}
    BY NatTimes
  <2>3. PICK p \in Nat, q \in Nat \ {0} : p = (y * g) * d /\ q = safe * 100
    BY <2>2
  <2>4. p \div q \in Nat
    BY DivNat
  <2>5. QED
    BY <1>7, <1>9, <2>1, <2>3, <2>4
<1>10. QED
  BY <1>8, <1>9

Kids(n) == DOMAIN Children[n]
ChildTotals(n, below) == [m \in Kids(n) |-> Total(ChildCandidate(n, below, m))]
ChildMemories(n, below) == [m \in Kids(n) |-> ChildCandidate(n, below, m).memory]
ChildInflights(n, below) == [m \in Kids(n) |-> ChildCandidate(n, below, m).inflight]
ChildConcurrencies(n, below) == [m \in Kids(n) |-> ChildCandidate(n, below, m).concurrency]

SerialModes == {"LIST_SERIAL", "SCALAR", "SEQ_FIELDS"}

LEMMA KidsFinite ==
  ASSUME NEW n \in Nodes
  PROVE  /\ IsFiniteSet(Kids(n)) /\ Cardinality(Kids(n)) = Len(Children[n])
         /\ Len(Children[n]) \in Nat /\ Kids(n) = 1..Len(Children[n])
<1>1. PICK k \in Nat : k = Len(Children[n]) /\ Kids(n) = 1..k
  BY TreeFacts DEF Kids
<1>2. IsFiniteSet(1..k) /\ Cardinality(1..k) = k
  BY IntervalFinite
<1>3. QED
  BY <1>1, <1>2

LEMMA MaxMemoryIs ==
  ASSUME NEW S, IsFiniteSet(S), NEW v \in [S -> Nat]
  PROVE  MaxOver(0, v) \in Nat /\ MaxOver(0, v) <= SumOver(v)
<1>1. SumOver(v) \in Nat /\ \A o \in S : v[o] <= SumOver(v)
  BY SumNat
<1>2. PICK z \in Nat : z = 0
  OBVIOUS
<1>3. PICK b \in Nat : b = SumOver(v)
  BY <1>1
<1>4. z <= b /\ \A o \in S : v[o] <= b
  BY <1>1, <1>2, <1>3
<1>5. /\ MaxOver(z, v) \in Nat
      /\ \A y \in Nat : z <= y /\ (\A o \in S : v[o] <= y) => MaxOver(z, v) <= y
  BY MaxOverIs
<1>6. QED
  BY <1>2, <1>3, <1>4, <1>5

LEMMA ShareNat ==
  ASSUME NEW a \in Nat, NEW b \in Nat
  PROVE  10 * a * b \in Nat /\ 5 * a * b \in Nat /\ 10 * a \in Nat /\ a + 20 * b \in Nat
OBVIOUS

(* A candidate with the children it is to run with: its memory is no more  *)
(* than the serial candidate's, which adds up what the children use.       *)
ExtendsBelow(r, c, n, below) ==
  /\ r \in Candidates
  /\ r.strategy = c.strategy /\ r.below = below
  /\ r.startup = c.startup /\ r.self = c.self
  /\ r.memory <= c.memory + SumOver(ChildMemories(n, below))
  /\ c.strategy.mode \in SerialModes =>
       /\ r.childCost = SumOver(ChildTotals(n, below))
       /\ r.memory = c.memory + SumOver(ChildMemories(n, below))
       /\ r.inflight = Larger(c.inflight, MaxOver(1, ChildInflights(n, below)))
       /\ r.concurrency = Larger(c.concurrency, MaxOver(1, ChildConcurrencies(n, below)))

LEMMA CombinedIs ==
  ASSUME ann \in Annotations, NEW n \in Nodes, Children[n] # <<>>, NEW c \in Candidates,
         NEW below \in [Kids(n) -> Nat],
         \A m \in Kids(n) : below[m] \in 1..Len(kept[Children[n][m]]),
         \A m \in Kids(n) : ChildCandidate(n, below, m) \in Candidates
  PROVE  ExtendsBelow(Combined(n, c, below), c, n, below)
<1> DEFINE ms == Kids(n)
           child(m) == ChildCandidate(n, below, m)
           totals == ChildTotals(n, below)
           memories == ChildMemories(n, below)
           inflightOf(S) == MaxOver(1, [m \in S |-> child(m).inflight])
           concurrent == MaxOver(1, ChildConcurrencies(n, below))
           batched == {m \in ms : child(m).strategy.mode = "LIST_BATCHED"}
           w == c.strategy.workers
           b == c.strategy.maxConcurrentBatches
           k == Cardinality(ms)
           saturations == [m \in ms |-> Saturation(Children[n][m], child(m), w)]
           costly == (SumOver(totals) \div (IF IsConservative(n) THEN 1 ELSE w)) + 10 * w * k
                       + ConservativeCoordination(n, w) + SumOver(saturations)
           batchy == (SumOver(totals) \div w) + 5 * w * k + 10 * b + ConservativeCoordination(n, b)
           flying == Larger(b, Larger(w * inflightOf(ms \ batched), inflightOf(batched)))
<1>1. ChosenBelow(n, below) = ms
  BY DEF ChosenBelow
<1>2. Combined(n, c, below) =
        IF k = 0 THEN [c EXCEPT !.below = below]
        ELSE CASE c.strategy.mode = "PAR_FIELDS" ->
               WithChildren(c, below, MaxOver(0, totals) + 20 * k, w * inflightOf(ms),
                            SumOver(memories), concurrent)
          [] c.strategy.mode = "LIST_PARALLEL" ->
               WithChildren(c, below, costly, w * inflightOf(ms), MaxOver(0, memories), w * concurrent)
          [] c.strategy.mode = "LIST_BATCHED" ->
               WithChildren(c, below, batchy, flying, MaxOver(0, memories), b * concurrent)
          [] OTHER ->
               WithChildren(c, below, SumOver(totals), inflightOf(ms), SumOver(memories), concurrent)
  BY <1>1 DEF Combined, ChildTotals, ChildMemories, ChildConcurrencies
<1>3. k \in Nat \ {0} /\ IsFiniteSet(ms)
  BY KidsFinite, TreeFacts
<1>4. below \in Seq(Nat)
  <2>1. PICK K \in Nat : ms = 1..K
    BY KidsFinite
  <2>2. below \in [1..K -> Nat]
    BY <2>1
  <2>3. QED
    BY <2>2, SeqDef
<1>5. w \in Nat \ {0} /\ b \in Nat /\ c.strategy.mode \in Modes
  <2>1. PICK s \in KnownStrategies : s = c.strategy
    BY DEF Candidates
  <2>2. s.workers \in 1..Slots /\ s.maxConcurrentBatches \in 0..Slots /\ s.mode \in Modes
    <3>1. s.workers \in 1..Slots /\ s.maxConcurrentBatches \in 0..Batches /\ s.mode \in Modes
      BY DEF KnownStrategies
    <3>2. PICK u \in Nat, d \in Nat : u = Slots /\ d = Batches /\ d <= u
      BY SlotsAre
    <3>3. QED
      BY <3>1, <3>2
  <2>3. PICK x \in Nat \ {0} : x = Slots
    BY SlotsAre
  <2>4. QED
    BY <2>1, <2>2, <2>3
<1>6. \A m \in ms : /\ Total(child(m)) \in Nat /\ child(m).memory \in Nat
                    /\ child(m).inflight \in Nat /\ child(m).concurrency \in Nat
                    /\ Saturation(Children[n][m], child(m), w) \in Nat
  <2> SUFFICES ASSUME NEW m \in ms
               PROVE  /\ Total(child(m)) \in Nat /\ child(m).memory \in Nat
                      /\ child(m).inflight \in Nat /\ child(m).concurrency \in Nat
                      /\ Saturation(Children[n][m], child(m), w) \in Nat
    OBVIOUS
  <2>1. PICK x \in Candidates : x = child(m)
    OBVIOUS
  <2>2. PICK o \in Nodes, u \in Nat : o = Children[n][m] /\ u = w
    BY <1>5, TreeFacts DEF Kids
  <2>3. Saturation(o, x, u) \in Nat
    BY SaturationIs
  <2>4. x.memory \in Nat /\ x.inflight \in Nat /\ x.concurrency \in Nat /\ Total(x) \in Nat
    BY TotalIs DEF Candidates
  <2>5. QED
    BY <2>1, <2>2, <2>3, <2>4
<1>7. totals \in [ms -> Nat]
  BY <1>6 DEF ChildTotals
<1>8. memories \in [ms -> Nat]
  BY <1>6 DEF ChildMemories
<1>9. ChildConcurrencies(n, below) \in [ms -> Nat]
  BY <1>6 DEF ChildConcurrencies
<1>10. saturations \in [ms -> Nat]
  BY <1>6
<1>11. \A S \in SUBSET ms : IsFiniteSet(S) /\ [m \in S |-> child(m).inflight] \in [S -> Nat]
  BY <1>3, <1>6, FS_Subset
<1>12. \A S \in SUBSET ms : inflightOf(S) \in Nat
  <2> SUFFICES ASSUME NEW S \in SUBSET ms PROVE inflightOf(S) \in Nat
    OBVIOUS
  <2>1. PICK v : v = [m \in S |-> child(m).inflight]
    OBVIOUS
  <2>2. PICK one \in Nat : one = 1
    OBVIOUS
  <2>3. MaxOver(one, v) \in Nat
    BY <1>11, <2>1, MaxOverIs
  <2>4. QED
    BY <2>1, <2>2, <2>3
<1>13. ms \in SUBSET ms /\ batched \in SUBSET ms /\ (ms \ batched) \in SUBSET ms
  OBVIOUS
<1>14. inflightOf(ms) = MaxOver(1, ChildInflights(n, below))
  BY DEF ChildInflights
<1> HIDE DEF batched, inflightOf, saturations
<1>15. PICK one \in Nat, zero \in Nat : one = 1 /\ zero = 0
  OBVIOUS
<1>16. PICK T \in Nat, M \in Nat, U \in Nat :
         T = SumOver(totals) /\ M = SumOver(memories) /\ U = SumOver(saturations)
  BY <1>3, <1>7, <1>8, <1>10, SumNat
<1>17. PICK MT \in Nat, MM \in Nat : MT = MaxOver(0, totals) /\ MM = MaxOver(0, memories) /\ MM <= M
  BY <1>3, <1>7, <1>8, <1>16, MaxMemoryIs
<1>18. PICK C \in Nat : C = concurrent
  <2>1. MaxOver(one, ChildConcurrencies(n, below)) \in Nat
    BY <1>3, <1>9, MaxOverIs
  <2>2. QED
    BY <1>15, <2>1
<1>19. PICK I \in Nat, J \in Nat, H \in Nat :
         I = inflightOf(ms) /\ J = inflightOf(ms \ batched) /\ H = inflightOf(batched)
  BY <1>12, <1>13
<1>20. PICK W \in Nat \ {0}, B \in Nat, N \in Nat : W = w /\ B = b /\ N = k
  BY <1>3, <1>5
<1>21. PICK X \in Nat, Y \in Nat : X = ConservativeCoordination(n, w) /\ Y = ConservativeCoordination(n, b)
  BY <1>20, CoordinationIs
<1> HIDE DEF totals, memories, concurrent, w, b, k, ms
<1>22. costly \in Nat
  <2>1. PICK d \in Nat \ {0} : d = IF IsConservative(n) THEN 1 ELSE W
    OBVIOUS
  <2>2. PICK q \in Nat : q = T \div d
    BY DivNat
  <2>3. PICK P \in Nat : P = 10 * W * N
    BY ShareNat
  <2>4. costly = q + P + X + U
    BY <1>16, <1>20, <1>21, <2>1, <2>2, <2>3
  <2> HIDE DEF costly
  <2>5. QED
    BY <2>4
<1>23. batchy \in Nat
  <2>1. PICK q \in Nat : q = T \div W
    BY DivNat
  <2>2. PICK P \in Nat, Q \in Nat : P = 5 * W * N /\ Q = 10 * B
    BY ShareNat
  <2>3. batchy = q + P + Q + Y
    BY <1>16, <1>20, <1>21, <2>1, <2>2
  <2> HIDE DEF batchy
  <2>4. QED
    BY <2>3
<1>24. PICK WI \in Nat, WJ \in Nat : WI = w * inflightOf(ms) /\ WJ = w * inflightOf(ms \ batched)
  BY <1>19, <1>20, NatTimes
<1>25. PICK WC \in Nat, BC \in Nat : WC = w * concurrent /\ BC = b * concurrent
  BY <1>18, <1>20, NatTimes
<1>26. flying \in Nat
  BY <1>19, <1>20, <1>24 DEF Larger
<1>27. PICK MN \in Nat : MN = MT + 20 * N
  BY ShareNat
<1> HIDE DEF costly, batchy, flying
<1>a. M <= M
  OBVIOUS
<1>28. PICK cost \in Nat, inflight \in Nat, memory \in Nat, concurrency \in Nat :
         /\ Combined(n, c, below) = WithChildren(c, below, cost, inflight, memory, concurrency)
         /\ memory <= M
         /\ c.strategy.mode \in SerialModes =>
              cost = T /\ inflight = I /\ memory = M /\ concurrency = C
  <2>1. CASE c.strategy.mode = "PAR_FIELDS"
    <3>1. Combined(n, c, below) = WithChildren(c, below, MN, WI, M, C)
      BY <1>2, <1>3, <1>16, <1>17, <1>18, <1>20, <1>24, <1>27, <2>1
    <3>2. QED
      BY <2>1, <3>1, <1>a DEF SerialModes
  <2>2. CASE c.strategy.mode = "LIST_PARALLEL"
    <3>1. Combined(n, c, below) = WithChildren(c, below, costly, WI, MM, WC)
      BY <1>2, <1>3, <1>17, <1>24, <1>25, <2>2
    <3>2. QED
      BY <1>17, <1>22, <2>2, <3>1 DEF SerialModes
  <2>3. CASE c.strategy.mode = "LIST_BATCHED"
    <3>1. Combined(n, c, below) = WithChildren(c, below, batchy, flying, MM, BC)
      BY <1>2, <1>3, <1>17, <1>25, <2>3
    <3>2. QED
      BY <1>17, <1>23, <1>26, <2>3, <3>1 DEF SerialModes
  <2>4. CASE c.strategy.mode \in SerialModes
    <3>1. Combined(n, c, below) = WithChildren(c, below, T, I, M, C)
      BY <1>2, <1>3, <1>16, <1>18, <1>19, <2>4 DEF SerialModes
    <3>2. QED
      BY <1>a, <3>1
  <2>5. QED
    BY <1>5, <2>1, <2>2, <2>3, <2>4 DEF Modes, SerialModes
<1>29. PICK r : r = Combined(n, c, below)
  OBVIOUS
<1>30. /\ r \in Candidates
       /\ r.strategy = c.strategy /\ r.below = below
       /\ r.startup = c.startup /\ r.self = c.self /\ r.childCost = cost
       /\ r.inflight = Larger(c.inflight, inflight) /\ r.memory = c.memory + memory
       /\ r.concurrency = Larger(c.concurrency, concurrency)
  <2>1. r = WithChildren(c, below, cost, inflight, memory, concurrency)
    BY <1>28, <1>29
  <2>2. Extends(WithChildren(c, below, cost, inflight, memory, concurrency),
                c, below, cost, inflight, memory, concurrency)
    BY <1>4, WithChildrenIs
  <2>3. QED
    BY <2>1, <2>2 DEF Extends
<1>31. PICK own \in Nat : own = c.memory
  BY DEF Candidates
<1>32. r.memory <= c.memory + M
  <2>1. own + memory <= own + M
    BY <1>28
  <2>2. QED
    BY <1>30, <1>31, <2>1
<1>33. c.strategy.mode \in SerialModes =>
         /\ r.childCost = T /\ r.memory = c.memory + M
         /\ r.inflight = Larger(c.inflight, I) /\ r.concurrency = Larger(c.concurrency, C)
  BY <1>28, <1>30
<1>34. /\ M = SumOver(ChildMemories(n, below)) /\ T = SumOver(ChildTotals(n, below))
       /\ I = MaxOver(1, ChildInflights(n, below)) /\ C = MaxOver(1, ChildConcurrencies(n, below))
  BY <1>14, <1>16, <1>18, <1>19 DEF totals, memories, concurrent
<1>35. QED
  BY <1>29, <1>30, <1>32, <1>33, <1>34 DEF ExtendsBelow

-----------------------------------------------------------------------------
(***************************************************************************)
(* What is kept for a node.                                                *)
(***************************************************************************)
OwnCost == [n \in Nodes |-> Total(LocalCandidate(n, SerialStrategy(n)))]

LEMMA SameAnn ==
  ASSUME ann' = ann
  PROVE  SerialMemory' = SerialMemory /\ SerialCost' = SerialCost
BY DEF SerialMemory, SerialCost, SumBelow, LocalCandidate, SerialStrategy, RowsOutTotal,
       LogicalCalls, PhysicalCalls, OwnInflight, Total

(* A candidate of n: its children are candidates kept for them, and its    *)
(* memory is no more than the naive plan's.                                *)
CandidateOf(c, n, K, memory) ==
  /\ c \in Candidates
  /\ c.below \in [Kids(n) -> Nat]
  /\ \A m \in Kids(n) : c.below[m] \in 1..Len(K[Children[n][m]])
  /\ c.memory <= memory[n]

KeptFor(n, K, memory) ==
  \E w \in Nat \ {0} : /\ Listed(K[n], w) /\ Len(K[n]) = w
                       /\ \A k \in 1..w : CandidateOf(K[n][k], n, K, memory)

(* Where the naive plan fits the budget, all that is kept does, and the    *)
(* best costs no more than it.                                             *)
ThriftyFor(n, K, memory, cost) ==
  memory[n] <= SearchConfig.maxMemory =>
    /\ \A k \in 1..Len(K[n]) : InBudget(K[n][k])
    /\ Total(K[n][1]) <= cost[n]

LEMMA SerialCostIs ==
  ASSUME ann \in Annotations
  PROVE  /\ OwnCost \in [Nodes -> Nat] /\ SerialCost \in [Nodes -> Nat]
         /\ \A n \in Nodes : OwnCost[n] = Total(LocalCandidate(n, SerialStrategy(n)))
         /\ \A n \in Nodes : SerialCost[n] =
              OwnCost[n] + SumOver([m \in Kids(n) |-> SerialCost[Children[n][m]]])
<1>1. ASSUME NEW n \in Nodes PROVE Total(LocalCandidate(n, SerialStrategy(n))) \in Nat
  <2>1. PICK s \in KnownStrategies : s = SerialStrategy(n)
    BY SerialStrategyIs
  <2>2. PICK c \in Candidates : c = LocalCandidate(n, s)
    BY LocalIs
  <2>3. Total(c) \in Nat
    BY TotalIs
  <2>4. QED
    BY <2>1, <2>2, <2>3
<1>2. OwnCost \in [Nodes -> Nat] /\ \A n \in Nodes : OwnCost[n] = Total(LocalCandidate(n, SerialStrategy(n)))
  BY <1>1 DEF OwnCost
<1>3. PICK own \in [Nodes -> Nat] : own = OwnCost
  BY <1>2
<1>4. SerialCost = SumBelow(own)
  BY <1>3 DEF SerialCost, OwnCost
<1>5. /\ SumBelow(own) \in [Nodes -> Nat]
      /\ \A n \in Nodes : SumBelow(own)[n] =
           own[n] + SumOver([m \in DOMAIN Children[n] |-> SumBelow(own)[Children[n][m]]])
  BY SumBelowIs
<1>6. QED
  BY <1>2, <1>3, <1>4, <1>5 DEF Kids

LEMMA SerialMemoryIs ==
  ASSUME ann \in Annotations
  PROVE  /\ SerialMemory \in [Nodes -> Nat]
         /\ \A n \in Nodes : SerialMemory[n] =
              OwnMemory[n] + SumOver([m \in Kids(n) |-> SerialMemory[Children[n][m]]])
<1>1. PICK own \in [Nodes -> Nat] : own = OwnMemory
  BY OwnMemoryIs
<1>2. SerialMemory = SumBelow(own)
  BY <1>1 DEF SerialMemory, OwnMemory
<1>3. /\ SumBelow(own) \in [Nodes -> Nat]
      /\ \A n \in Nodes : SumBelow(own)[n] =
           own[n] + SumOver([m \in DOMAIN Children[n] |-> SumBelow(own)[Children[n][m]]])
  BY SumBelowIs
<1>4. QED
  BY <1>1, <1>2, <1>3 DEF Kids

LEMMA CandidateComparable ==
  ASSUME NEW c \in Candidates
  PROVE  Comparable(c)
<1>1. PICK s \in KnownStrategies : s = c.strategy
  BY DEF Candidates
<1>2. s.rank \in Nat /\ s.batchSize \in Nat
  BY DEF KnownStrategies
<1>3. c.calls \in Nat /\ c.inflight \in Nat /\ c.memory \in Nat /\ c.concurrency \in Nat
  BY DEF Candidates
<1>4. QED
  BY <1>1, <1>2, <1>3, TotalIs DEF Comparable

(* The children's share of a naive plan.                                   *)
LEMMA ChildrensShare ==
  ASSUME NEW n \in Nodes, NEW own \in Nat, NEW total \in [Nodes -> Nat],
         total[n] = own + SumOver([m \in Kids(n) |-> total[Children[n][m]]]),
         NEW v \in [Kids(n) -> Nat], \A m \in Kids(n) : v[m] <= total[Children[n][m]]
  PROVE  /\ SumOver(v) \in Nat /\ own + SumOver(v) <= total[n]
         /\ \A m \in Kids(n) : total[Children[n][m]] <= total[n]
<1>1. PICK S, w : S = Kids(n) /\ w = [m \in Kids(n) |-> total[Children[n][m]]]
  OBVIOUS
<1>2. IsFiniteSet(S) /\ w \in [S -> Nat] /\ v \in [S -> Nat] /\ \A o \in S : v[o] <= w[o]
  BY <1>1, KidsFinite, TreeFacts DEF Kids
<1>3. SumOver(v) \in Nat /\ SumOver(w) \in Nat /\ SumOver(v) <= SumOver(w)
  BY <1>2, SumMono
<1>4. \A o \in S : w[o] <= SumOver(w)
  BY <1>2, SumNat
<1>5. PICK a \in Nat, b \in Nat : a = SumOver(v) /\ b = SumOver(w) /\ a <= b
  BY <1>3
<1>6. total[n] = own + b
  BY <1>1, <1>5
<1>7. own + a <= own + b /\ b <= own + b
  BY <1>5
<1>8. ASSUME NEW m \in Kids(n) PROVE total[Children[n][m]] <= total[n]
  <2>1. PICK x \in Nat : x = w[m] /\ x <= b
    BY <1>1, <1>2, <1>4, <1>5
  <2>2. x <= own + b
    BY <1>5, <2>1
  <2>3. QED
    BY <1>1, <1>6, <2>1, <2>2
<1>9. QED
  BY <1>5, <1>6, <1>7, <1>8

ChildrenKept(n) == \A m \in Kids(n) : KeptFor(Children[n][m], kept, SerialMemory)

Combination(n, below) ==
  /\ below \in [Kids(n) -> Nat]
  /\ \A m \in Kids(n) : below[m] \in 1..Len(kept[Children[n][m]])

LEMMA ChildIs ==
  ASSUME NEW n \in Nodes, ChildrenKept(n), NEW below, Combination(n, below), NEW m \in Kids(n)
  PROVE  /\ ChildCandidate(n, below, m) \in Candidates
         /\ ChildCandidate(n, below, m).memory <= SerialMemory[Children[n][m]]
<1>1. PICK o \in Nodes : o = Children[n][m]
  BY TreeFacts DEF Kids
<1>2. PICK w \in Nat \ {0} : /\ Len(kept[o]) = w
                             /\ \A k \in 1..w : CandidateOf(kept[o][k], o, kept, SerialMemory)
  BY <1>1 DEF ChildrenKept, KeptFor
<1>3. PICK i \in 1..w : i = below[m]
  BY <1>1, <1>2 DEF Combination
<1>4. CandidateOf(kept[o][i], o, kept, SerialMemory)
  BY <1>2
<1>5. ChildCandidate(n, below, m) = kept[o][i]
  BY <1>1, <1>3 DEF ChildCandidate
<1>6. QED
  BY <1>1, <1>4, <1>5 DEF CandidateOf

LEMMA CombinedKept ==
  ASSUME ann \in Annotations, NEW n \in Nodes, Children[n] # <<>>, ChildrenKept(n),
         NEW s \in KnownStrategies, NEW below, Combination(n, below)
  PROVE  CandidateOf(Combined(n, LocalCandidate(n, s), below), n, kept, SerialMemory)
<1>1. PICK c \in Candidates : c = LocalCandidate(n, s) /\ c.memory = OwnMemory[n]
  BY LocalIs
<1>2. \A m \in Kids(n) : ChildCandidate(n, below, m) \in Candidates
  BY ChildIs
<1>3. below \in [Kids(n) -> Nat] /\ \A m \in Kids(n) : below[m] \in 1..Len(kept[Children[n][m]])
  BY DEF Combination
<1>4. PICK r : r = Combined(n, c, below)
  OBVIOUS
<1>5. ExtendsBelow(Combined(n, c, below), c, n, below)
  BY <1>2, <1>3, CombinedIs
<1>6. /\ r \in Candidates /\ r.below = below
      /\ r.memory <= c.memory + SumOver(ChildMemories(n, below))
  BY <1>4, <1>5 DEF ExtendsBelow
<1>7. PICK own \in Nat, total \in [Nodes -> Nat] : own = OwnMemory[n] /\ total = SerialMemory
  BY OwnMemoryIs, SerialMemoryIs
<1>8. total[n] = own + SumOver([m \in Kids(n) |-> total[Children[n][m]]])
  BY <1>7, SerialMemoryIs
<1>9. PICK v : v = ChildMemories(n, below)
  OBVIOUS
<1>10. v \in [Kids(n) -> Nat] /\ \A m \in Kids(n) : v[m] <= total[Children[n][m]]
  <2>1. \A m \in Kids(n) : /\ ChildCandidate(n, below, m).memory \in Nat
                           /\ ChildCandidate(n, below, m).memory <= total[Children[n][m]]
    BY <1>2, <1>7, ChildIs DEF Candidates
  <2>2. QED
    BY <1>9, <2>1 DEF ChildMemories
<1>11. SumOver(v) \in Nat /\ own + SumOver(v) <= total[n]
  BY <1>8, <1>10, ChildrensShare
<1>12. r.memory <= total[n]
  <2>1. PICK x \in Nat : x = r.memory
    BY <1>6 DEF Candidates
  <2>2. PICK a \in Nat : a = SumOver(v)
    BY <1>11
  <2>3. PICK z \in Nat : z = total[n]
    OBVIOUS
  <2>4. x <= own + a
    BY <1>1, <1>6, <1>7, <1>9, <2>1, <2>2
  <2>5. own + a <= z
    BY <1>11, <2>2, <2>3
  <2>6. QED
    BY <2>1, <2>3, <2>4, <2>5
<1>13. QED
  BY <1>1, <1>3, <1>4, <1>6, <1>7, <1>12 DEF CandidateOf

(* The naive candidate over the best of each child is within the budget    *)
(* when the naive plan is, and costs no more than it.                      *)
LEMMA SerialThrifty ==
  ASSUME ann \in Annotations, NEW n \in Nodes, Children[n] # <<>>, ChildrenKept(n),
         \A m \in Kids(n) : ThriftyFor(Children[n][m], kept, SerialMemory, SerialCost),
         NEW below, Combination(n, below), \A m \in Kids(n) : below[m] = 1,
         SerialMemory[n] <= SearchConfig.maxMemory
  PROVE  /\ InBudget(Combined(n, LocalCandidate(n, SerialStrategy(n)), below))
         /\ Total(Combined(n, LocalCandidate(n, SerialStrategy(n)), below)) <= SerialCost[n]
<1>1. PICK s \in KnownStrategies : s = SerialStrategy(n) /\ s.mode \in SerialModes
  BY SerialStrategyIs DEF SerialModes
<1>2. PICK c \in Candidates : /\ c = LocalCandidate(n, s) /\ c.strategy = s
                              /\ c.inflight = 1 /\ c.concurrency = 1 /\ c.childCost = 0
  BY <1>1, LocalIs DEF SerialModes
<1>3. \A m \in Kids(n) : ChildCandidate(n, below, m) \in Candidates
  BY ChildIs
<1>4. below \in [Kids(n) -> Nat] /\ \A m \in Kids(n) : below[m] \in 1..Len(kept[Children[n][m]])
  BY DEF Combination
<1>5. PICK r : r = Combined(n, c, below)
  OBVIOUS
<1>6. ExtendsBelow(Combined(n, c, below), c, n, below)
  BY <1>3, <1>4, CombinedIs
<1>7. /\ r \in Candidates /\ r.startup = c.startup /\ r.self = c.self
      /\ r.childCost = SumOver(ChildTotals(n, below))
      /\ r.inflight = Larger(1, MaxOver(1, ChildInflights(n, below)))
      /\ r.concurrency = Larger(1, MaxOver(1, ChildConcurrencies(n, below)))
  BY <1>1, <1>2, <1>5, <1>6 DEF ExtendsBelow
<1>8. r.memory <= SerialMemory[n]
  <2>1. CandidateOf(Combined(n, LocalCandidate(n, s), below), n, kept, SerialMemory)
    BY CombinedKept
  <2>2. QED
    BY <1>2, <1>5, <2>1 DEF CandidateOf
<1>9. PICK maxI \in Nat \ {0}, maxC \in Nat \ {0}, maxM \in Nat :
        /\ maxI = SearchConfig.maxInflight /\ maxC = SearchConfig.maxDescendantConcurrency
        /\ maxM = SearchConfig.maxMemory
  BY ConfigAssumption
<1>10. \A m \in Kids(n) : SerialMemory[Children[n][m]] <= maxM
  <2>1. PICK own \in Nat, total \in [Nodes -> Nat] : own = OwnMemory[n] /\ total = SerialMemory
    BY OwnMemoryIs, SerialMemoryIs
  <2>2. total[n] = own + SumOver([m \in Kids(n) |-> total[Children[n][m]]])
    BY <2>1, SerialMemoryIs
  <2>3. PICK v : v = [m \in Kids(n) |-> 0]
    OBVIOUS
  <2>4. \A m \in Kids(n) : Children[n][m] \in Nodes
    BY TreeFacts DEF Kids
  <2>5. v \in [Kids(n) -> Nat] /\ \A m \in Kids(n) : v[m] <= total[Children[n][m]]
    BY <2>3, <2>4
  <2>6. \A m \in Kids(n) : total[Children[n][m]] <= total[n]
    BY <2>2, <2>5, ChildrensShare
  <2>7. total[n] \in Nat /\ total[n] <= maxM /\ \A m \in Kids(n) : total[Children[n][m]] \in Nat
    BY <1>9, <2>1, <2>4
  <2>8. QED
    BY <2>1, <2>6, <2>7
<1>11. ASSUME NEW m \in Kids(n)
       PROVE  /\ InBudget(ChildCandidate(n, below, m))
              /\ Total(ChildCandidate(n, below, m)) <= SerialCost[Children[n][m]]
  <2>1. PICK o \in Nodes : o = Children[n][m]
    BY TreeFacts DEF Kids
  <2>2. SerialMemory[o] <= SearchConfig.maxMemory
    BY <1>9, <1>10, <2>1
  <2>3. ThriftyFor(o, kept, SerialMemory, SerialCost)
    BY <2>1
  <2>4. /\ \A k \in 1..Len(kept[o]) : InBudget(kept[o][k])
        /\ Total(kept[o][1]) <= SerialCost[o]
    BY <2>2, <2>3 DEF ThriftyFor
  <2>5. below[m] = 1 /\ below[m] \in 1..Len(kept[o])
    BY <1>4, <2>1
  <2>6. ChildCandidate(n, below, m) = kept[o][1]
    BY <2>1, <2>5 DEF ChildCandidate
  <2>7. InBudget(kept[o][1])
    BY <2>4, <2>5
  <2>8. QED
    BY <2>1, <2>4, <2>6, <2>7
<1>12. IsFiniteSet(Kids(n))
  BY KidsFinite
<1>13. PICK one \in Nat : one = 1
  OBVIOUS
<1>14. r.inflight <= maxI
  <2>1. PICK v : v = ChildInflights(n, below)
    OBVIOUS
  <2>2. \A m \in Kids(n) : /\ ChildCandidate(n, below, m).inflight \in Nat
                           /\ ChildCandidate(n, below, m).inflight <= maxI
    BY <1>3, <1>9, <1>11 DEF Candidates, InBudget
  <2>3. v \in [Kids(n) -> Nat] /\ \A m \in Kids(n) : v[m] <= maxI
    BY <2>1, <2>2 DEF ChildInflights
  <2>4. one <= maxI /\ maxI \in Nat
    BY <1>13
  <2>5. /\ MaxOver(one, v) \in Nat
        /\ \A b \in Nat : one <= b /\ (\A o \in Kids(n) : v[o] <= b) => MaxOver(one, v) <= b
    BY <1>12, <2>3, MaxOverIs
  <2>6. PICK x \in Nat : x = MaxOver(one, v) /\ x <= maxI
    BY <2>3, <2>4, <2>5
  <2>7. QED
    BY <1>7, <1>13, <2>1, <2>4, <2>6 DEF Larger
<1>15. r.concurrency <= maxC
  <2>1. PICK v : v = ChildConcurrencies(n, below)
    OBVIOUS
  <2>2. \A m \in Kids(n) : /\ ChildCandidate(n, below, m).concurrency \in Nat
                           /\ ChildCandidate(n, below, m).concurrency <= maxC
    BY <1>3, <1>9, <1>11 DEF Candidates, InBudget
  <2>3. v \in [Kids(n) -> Nat] /\ \A m \in Kids(n) : v[m] <= maxC
    BY <2>1, <2>2 DEF ChildConcurrencies
  <2>4. one <= maxC /\ maxC \in Nat
    BY <1>13
  <2>5. /\ MaxOver(one, v) \in Nat
        /\ \A b \in Nat : one <= b /\ (\A o \in Kids(n) : v[o] <= b) => MaxOver(one, v) <= b
    BY <1>12, <2>3, MaxOverIs
  <2>6. PICK x \in Nat : x = MaxOver(one, v) /\ x <= maxC
    BY <2>3, <2>4, <2>5
  <2>7. QED
    BY <1>7, <1>13, <2>1, <2>4, <2>6 DEF Larger
<1>16. InBudget(r)
  <2>1. PICK x \in Nat, y \in Nat : x = r.memory /\ y = SerialMemory[n] /\ x <= y /\ y <= maxM
    BY <1>7, <1>8, <1>9, SerialMemoryIs DEF Candidates
  <2>2. r.memory <= maxM
    BY <2>1
  <2>3. QED
    BY <1>9, <1>14, <1>15, <2>2 DEF InBudget
<1>17. Total(r) <= SerialCost[n]
  <2>1. PICK own \in Nat, total \in [Nodes -> Nat] : own = OwnCost[n] /\ total = SerialCost
    BY SerialCostIs
  <2>2. total[n] = own + SumOver([m \in Kids(n) |-> total[Children[n][m]]])
    BY <2>1, SerialCostIs
  <2>3. PICK v : v = ChildTotals(n, below)
    OBVIOUS
  <2>4. \A m \in Kids(n) : /\ Total(ChildCandidate(n, below, m)) \in Nat
                           /\ Total(ChildCandidate(n, below, m)) <= total[Children[n][m]]
    BY <1>3, <1>11, <2>1, TotalIs
  <2>5. v \in [Kids(n) -> Nat] /\ \A m \in Kids(n) : v[m] <= total[Children[n][m]]
    BY <2>3, <2>4 DEF ChildTotals
  <2>6. SumOver(v) \in Nat /\ own + SumOver(v) <= total[n]
    BY <2>2, <2>5, ChildrensShare
  <2>7. own = c.startup + c.self
    <3>1. Total(c) = c.startup + c.self + c.childCost /\ c.startup \in Nat /\ c.self \in Nat
      BY TotalIs DEF Candidates
    <3>2. own = Total(c)
      BY <1>1, <1>2, <2>1, SerialCostIs
    <3>3. QED
      BY <1>2, <3>1, <3>2
  <2>8. Total(r) = own + SumOver(v)
    <3>1. Total(r) = r.startup + r.self + r.childCost
      BY <1>7, TotalIs
    <3>2. QED
      BY <1>7, <2>3, <2>7, <3>1
  <2>9. QED
    BY <2>1, <2>6, <2>8
<1>18. QED
  BY <1>1, <1>2, <1>5, <1>16, <1>17

LEMMA LocalCandidatesAre ==
  ASSUME NEW n \in Nodes
  PROVE  \E w \in Nat \ {0} :
           /\ Listed(LocalCandidates(n), w) /\ Len(LocalCandidates(n)) = w
           /\ LocalCandidates(n)[1] = LocalCandidate(n, SerialStrategy(n))
           /\ \A i \in 1..w : \E s \in KnownStrategies : LocalCandidates(n)[i] = LocalCandidate(n, s)
<1>1. PICK w \in Nat \ {0} :
           /\ Len(Strategies(n)) = w /\ DOMAIN Strategies(n) = 1..w
           /\ Strategies(n)[1] = SerialStrategy(n)
           /\ \A i \in 1..w : Strategies(n)[i] \in KnownStrategies
  BY StrategiesAre
<1>2. PICK cs : cs = LocalCandidates(n)
  OBVIOUS
<1>3. cs = [i \in 1..w |-> LocalCandidate(n, Strategies(n)[i])]
  BY <1>1, <1>2 DEF LocalCandidates
<1>4. cs = [i \in 1..w |-> cs[i]] /\ \A i \in 1..w : cs[i] = LocalCandidate(n, Strategies(n)[i])
  BY <1>3
<1>5. Len(cs) = w
  <2>1. cs = [i \in 1..w |-> cs[i]]
    BY <1>4
  <2>2. QED
    BY <2>1, LenIs
<1>6. PICK one \in 1..w : one = 1
  OBVIOUS
<1>7. cs[1] = LocalCandidate(n, SerialStrategy(n))
  BY <1>1, <1>4, <1>6
<1>8. \A i \in 1..w : \E s \in KnownStrategies : cs[i] = LocalCandidate(n, s)
  BY <1>1, <1>4
<1>9. QED
  BY <1>2, <1>4, <1>5, <1>7, <1>8 DEF Listed

LEMMA CombinedCandidatesAre ==
  ASSUME NEW n \in Nodes, ChildrenKept(n)
  PROVE  \E w \in Nat \ {0} :
           /\ Listed(CombinedCandidates(n), w)
           /\ \E below : /\ Combination(n, below) /\ \A m \in Kids(n) : below[m] = 1
                         /\ CombinedCandidates(n)[1] =
                              Combined(n, LocalCandidate(n, SerialStrategy(n)), below)
           /\ \A i \in 1..w : \E s \in KnownStrategies : \E below :
                /\ Combination(n, below)
                /\ CombinedCandidates(n)[i] = Combined(n, LocalCandidate(n, s), below)
<1>1. PICK u \in Nat \ {0} :
           /\ Listed(LocalCandidates(n), u) /\ Len(LocalCandidates(n)) = u
           /\ LocalCandidates(n)[1] = LocalCandidate(n, SerialStrategy(n))
           /\ \A i \in 1..u : \E s \in KnownStrategies : LocalCandidates(n)[i] = LocalCandidate(n, s)
  BY LocalCandidatesAre
<1>2. \A m \in DOMAIN Children[n] : Len(kept[Children[n][m]]) \in Nat \ {0}
  BY DEF ChildrenKept, KeptFor, Kids
<1>3. SearchConfig.keepTopK \in Nat \ {0}
  BY ConfigAssumption
<1>4. \E w \in Nat \ {0} :
           /\ Combinations(n) = [k \in 1..w |-> Combinations(n)[k]]
           /\ \A k \in 1..w :
                /\ Combinations(n)[k] = [m \in DOMAIN Children[n] |-> Combinations(n)[k][m]]
                /\ \A m \in DOMAIN Children[n] :
                     Combinations(n)[k][m] \in 1..Len(kept[Children[n][m]])
           /\ \A m \in DOMAIN Children[n] : Combinations(n)[1][m] = 1
  BY <1>2, <1>3, CombinationsAre
<1>5. PICK x \in Nat \ {0} :
           /\ Combinations(n) = [k \in 1..x |-> Combinations(n)[k]]
           /\ \A k \in 1..x :
                /\ Combinations(n)[k] = [m \in Kids(n) |-> Combinations(n)[k][m]]
                /\ \A m \in Kids(n) : Combinations(n)[k][m] \in 1..Len(kept[Children[n][m]])
           /\ \A m \in Kids(n) : Combinations(n)[1][m] = 1
  BY <1>4 DEF Kids
<1>6. Len(Combinations(n)) = x
  <2>1. Combinations(n) = [k \in 1..x |-> Combinations(n)[k]]
    BY <1>5
  <2>2. QED
    BY <2>1, LenIs
<1>7. ASSUME NEW k \in 1..x PROVE Combination(n, Combinations(n)[k])
  <2>1. PICK b : b = Combinations(n)[k]
    OBVIOUS
  <2>2. b = [m \in Kids(n) |-> b[m]] /\ \A m \in Kids(n) : b[m] \in 1..Len(kept[Children[n][m]])
    BY <1>5, <2>1
  <2>3. \A m \in Kids(n) : b[m] \in Nat
    BY <2>2
  <2>4. b \in [Kids(n) -> Nat]
    BY <2>2, <2>3
  <2>5. QED
    BY <2>1, <2>2, <2>4 DEF Combination
<1>8. PICK w \in Nat \ {0} : w = u * x
  BY PosTimes
<1> DEFINE strategyAt(i) == ((i - 1) \div x) + 1
           belowAt(i) == ((i - 1) % x) + 1
           cs == CombinedCandidates(n)
<1>9. cs = [i \in 1..w |-> Combined(n, LocalCandidates(n)[strategyAt(i)], Combinations(n)[belowAt(i)])]
  BY <1>1, <1>6, <1>8 DEF CombinedCandidates
<1>10. ASSUME NEW i \in 1..w PROVE strategyAt(i) \in 1..u /\ belowAt(i) \in 1..x
  <2>1. PICK a \in Nat : a = i - 1 /\ a < u * x
    BY <1>8
  <2>2. a \div x \in Nat /\ a % x \in 0..(x - 1)
    BY DivNat
  <2>3. a \div x < u
    BY <2>1, DivBelow
  <2>4. QED
    BY <2>1, <2>2, <2>3
<1>11. strategyAt(1) = 1 /\ belowAt(1) = 1
  <2>1. PICK a \in Nat : a = 0
    OBVIOUS
  <2>2. a \div x = 0 /\ a % x = 0
    <3>1. PICK q \in Nat, r \in 0..(x - 1) : q = a \div x /\ r = a % x /\ a = x * q + r
      BY DivNat
    <3>2. r = 0 /\ x * q = 0
      <4>1. x * q \in Nat
        BY NatTimes
      <4>2. QED
        BY <2>1, <3>1, <4>1
    <3>3. q = 0
      BY <3>2
    <3>4. QED
      BY <3>1, <3>2, <3>3
  <2>3. QED
    BY <2>1, <2>2
<1>12. \A i \in 1..w : cs[i] = Combined(n, LocalCandidates(n)[strategyAt(i)], Combinations(n)[belowAt(i)])
  <2> HIDE DEF cs, strategyAt, belowAt
  <2>1. QED
    BY <1>9
<1>13. Listed(cs, w)
  <2> HIDE DEF cs, strategyAt, belowAt
  <2>1. QED
    BY <1>9 DEF Listed
<1> HIDE DEF cs, strategyAt, belowAt
<1>14. ASSUME NEW i \in 1..w
       PROVE  \E s \in KnownStrategies : \E below :
                Combination(n, below) /\ cs[i] = Combined(n, LocalCandidate(n, s), below)
  <2>1. PICK s \in KnownStrategies : LocalCandidates(n)[strategyAt(i)] = LocalCandidate(n, s)
    BY <1>1, <1>10
  <2>2. Combination(n, Combinations(n)[belowAt(i)])
    BY <1>7, <1>10
  <2>3. QED
    BY <1>12, <2>1, <2>2
<1>15. PICK one \in 1..w : one = 1
  OBVIOUS
<1>16. PICK b : b = Combinations(n)[1]
  OBVIOUS
<1>17. Combination(n, b) /\ \A m \in Kids(n) : b[m] = 1
  <2>1. PICK k \in 1..x : k = 1
    OBVIOUS
  <2>2. QED
    BY <1>5, <1>7, <1>16, <2>1
<1>18. cs[1] = Combined(n, LocalCandidate(n, SerialStrategy(n)), b)
  BY <1>1, <1>11, <1>12, <1>15, <1>16
<1>19. QED
  BY <1>13, <1>14, <1>17, <1>18 DEF cs

(* What a node without children may have in flight is within the limit of  *)
(* the configuration: enumerateSubtree applies no budget to it.            *)
OneNodeFits == Smaller(RootWorkers, 2) <= SearchConfig.maxInflight

KeptValue(K, n) ==
  \E w \in Nat \ {0} : /\ Listed(K, w) /\ Len(K) = w
                       /\ \A i \in 1..w : CandidateOf(K[i], n, kept, SerialMemory)

ThriftyValue(K, n) ==
  SerialMemory[n] <= SearchConfig.maxMemory =>
    /\ \A i \in 1..Len(K) : InBudget(K[i])
    /\ Total(K[1]) <= SerialCost[n]

AllCandidates(cs, w, n) == \A i \in 1..w : CandidateOf(cs[i], n, kept, SerialMemory)

SelectedFrom(K, cs, w, n) ==
  /\ KeptValue(K, n)
  /\ \A i \in 1..Len(K) : \E j \in 1..w : K[i] = cs[j] /\ Undominated(cs, w, j)
  /\ \A j \in 1..w : Total(K[1]) <= Total(cs[j])

LEMMA Selected ==
  ASSUME NEW n, NEW w \in Nat \ {0}, NEW cs, Listed(cs, w), AllCandidates(cs, w, n)
  PROVE  SelectedFrom(KeepTopK(PruneDominated(cs)), cs, w, n)
<1> DEFINE K == KeepTopK(PruneDominated(cs))
<1> USE DEF AllCandidates
<1>1. \A i \in 1..w : Comparable(cs[i])
  BY CandidateComparable DEF CandidateOf
<1>2. BestOf(K, cs, w)
  BY <1>1, BestKept
<1> HIDE DEF K
<1>3. PICK m \in 1..w : /\ Listed(K, m)
                        /\ \A k \in 1..m : \E i \in 1..w : K[k] = cs[i] /\ Undominated(cs, w, i)
                        /\ \A i \in 1..w : Total(K[1]) <= Total(cs[i])
  BY <1>2 DEF BestOf
<1>4. m \in Nat \ {0}
  OBVIOUS
<1>5. Len(K) = m
  <2>1. K = [i \in 1..m |-> K[i]]
    BY <1>3 DEF Listed
  <2>2. QED
    BY <1>4, <2>1, LenIs
<1>6. \A k \in 1..m : CandidateOf(K[k], n, kept, SerialMemory)
  BY <1>3
<1>7. KeptValue(K, n)
  BY <1>3, <1>4, <1>5, <1>6 DEF KeptValue
<1>8. SelectedFrom(K, cs, w, n)
  BY <1>3, <1>5, <1>7 DEF SelectedFrom
<1>9. QED
  BY <1>8 DEF K

LEMMA LeafKept ==
  ASSUME ann \in Annotations, NEW n \in Nodes, Children[n] = <<>>,
         NEW K, K = KeepTopK(PruneDominated(LocalCandidates(n)))
  PROVE  KeptValue(K, n) /\ (OneNodeFits => ThriftyValue(K, n))
<1>1. PICK cs : cs = LocalCandidates(n)
  OBVIOUS
<1>2. PICK w \in Nat \ {0} :
           /\ Listed(cs, w)
           /\ cs[1] = LocalCandidate(n, SerialStrategy(n))
           /\ \A i \in 1..w : \E s \in KnownStrategies : cs[i] = LocalCandidate(n, s)
  BY <1>1, LocalCandidatesAre
<1>3. Kids(n) = {}
  BY TreeFacts DEF Kids
<1>4. PICK own \in Nat, memory \in [Nodes -> Nat] : own = OwnMemory[n] /\ memory = SerialMemory
  BY OwnMemoryIs, SerialMemoryIs
<1>5. own <= memory[n]
  <2>1. memory[n] = own + SumOver([m \in Kids(n) |-> memory[Children[n][m]]])
    BY <1>4, SerialMemoryIs
  <2>2. PICK v : v = [m \in Kids(n) |-> 0]
    OBVIOUS
  <2>3. v \in [Kids(n) -> Nat] /\ \A m \in Kids(n) : v[m] <= memory[Children[n][m]]
    BY <1>3, <2>2
  <2>4. PICK a \in Nat : a = SumOver(v) /\ own + a <= memory[n]
    BY <2>1, <2>3, ChildrensShare
  <2>5. PICK z \in Nat : z = memory[n]
    OBVIOUS
  <2>6. QED
    BY <2>4, <2>5
<1>6. ASSUME NEW i \in 1..w
      PROVE  /\ CandidateOf(cs[i], n, kept, SerialMemory)
             /\ cs[i].inflight <= Batches \/ Dominates(cs[1], cs[i])
             /\ cs[i].concurrency = 1 /\ cs[i].memory = own
             /\ cs[i] \in Candidates
  <2>1. PICK s \in KnownStrategies : cs[i] = LocalCandidate(n, s)
    BY <1>2
  <2>2. PICK c \in Candidates :
          /\ c = cs[i] /\ c.concurrency = 1 /\ c.memory = OwnMemory[n]
          /\ c.below = <<>>
    BY <2>1, LocalIs
  <2>3. c.below \in [Kids(n) -> Nat]
    BY <1>3, <2>2
  <2>4. CandidateOf(c, n, kept, SerialMemory)
    BY <1>3, <1>4, <1>5, <2>2, <2>3 DEF CandidateOf
  <2>5. cs[i].inflight <= Batches \/ Dominates(cs[1], cs[i])
    BY <1>2, <2>1, LeanOrDominated
  <2>6. QED
    BY <1>4, <2>2, <2>4, <2>5
<1>7. /\ KeptValue(K, n)
      /\ \A i \in 1..Len(K) : \E j \in 1..w : K[i] = cs[j] /\ Undominated(cs, w, j)
      /\ \A j \in 1..w : Total(K[1]) <= Total(cs[j])
  <2>1. AllCandidates(cs, w, n)
    BY <1>6 DEF AllCandidates
  <2>2. SelectedFrom(KeepTopK(PruneDominated(cs)), cs, w, n)
    BY <1>2, <2>1, Selected
  <2>3. QED
    BY <1>1, <2>2 DEF SelectedFrom
<1>8. ASSUME OneNodeFits, SerialMemory[n] <= SearchConfig.maxMemory
      PROVE  /\ \A i \in 1..Len(K) : InBudget(K[i])
             /\ Total(K[1]) <= SerialCost[n]
  <2>1. PICK maxI \in Nat \ {0}, maxC \in Nat \ {0}, maxM \in Nat :
        /\ maxI = SearchConfig.maxInflight /\ maxC = SearchConfig.maxDescendantConcurrency
        /\ maxM = SearchConfig.maxMemory
    BY ConfigAssumption
  <2>2. PICK z \in Nat : z = memory[n] /\ z <= maxM
    BY <1>4, <1>8, <2>1
  <2> PICK u \in Nat \ {0} : u = Batches /\ u <= maxI
    <3>1. Batches <= maxI
      BY <1>8, <2>1 DEF OneNodeFits, Batches
    <3>2. Batches \in Nat \ {0}
      BY SlotsAre
    <3>3. QED
      BY <3>1, <3>2
  <2>3. ASSUME NEW j \in 1..w, Undominated(cs, w, j) PROVE InBudget(cs[j])
    <3>1. PICK x \in Nat : x = cs[j].inflight /\ x <= u
      <4>1. CASE j = 1
        <5>1. cs[1].inflight = 1
          BY <1>2, LocalIs, SerialStrategyIs
        <5>2. QED
          BY <4>1, <5>1
      <4>2. CASE j # 1
        <5>1. PICK one \in 1..w : one = 1
          OBVIOUS
        <5>2. ~Dominates(cs[1], cs[j])
          BY <2>3, <4>2, <5>1 DEF Undominated
        <5>3. QED
          BY <1>6, <5>2 DEF Candidates
      <4>3. QED
        BY <4>1, <4>2
    <3>2. cs[j].inflight <= maxI
      BY <2>2, <3>1
    <3>3. cs[j].memory <= maxM
      BY <1>5, <1>6, <2>2
    <3>4. cs[j].concurrency <= maxC
      BY <1>6
    <3>5. QED
      BY <2>1, <3>2, <3>3, <3>4 DEF InBudget
  <2>4. Total(K[1]) <= SerialCost[n]
    <3>1. PICK a \in Nat, cost \in [Nodes -> Nat] : a = OwnCost[n] /\ cost = SerialCost
      BY SerialCostIs
    <3>2. cost[n] = a + SumOver([m \in Kids(n) |-> cost[Children[n][m]]])
      BY <3>1, SerialCostIs
    <3>3. PICK v : v = [m \in Kids(n) |-> 0]
      OBVIOUS
    <3>4. v \in [Kids(n) -> Nat] /\ \A m \in Kids(n) : v[m] <= cost[Children[n][m]]
      BY <1>3, <3>3
    <3>5. PICK b \in Nat : b = SumOver(v) /\ a + b <= cost[n]
      BY <3>2, <3>4, ChildrensShare
    <3>6. PICK y \in Nat : y = cost[n]
      OBVIOUS
    <3>7. PICK one \in 1..w : one = 1
      OBVIOUS
    <3>8. Total(cs[1]) = a
      BY <1>2, <3>1, SerialCostIs
    <3>9. Total(K[1]) <= a
      BY <1>7, <3>7, <3>8
    <3>10. PICK k \in 1..w : K[1] = cs[k]
      <4>1. 1 \in 1..Len(K)
        BY <1>7 DEF KeptValue
      <4>2. QED
        BY <1>7, <4>1
    <3>11. PICK t \in Nat : t = Total(K[1])
      BY <1>6, <3>10, TotalIs
    <3>12. QED
      BY <3>1, <3>5, <3>6, <3>9, <3>11
  <2>5. QED
    BY <1>7, <2>3, <2>4
<1>9. QED
  BY <1>7, <1>8 DEF ThriftyValue

LEMMA InnerKept ==
  ASSUME ann \in Annotations, NEW n \in Nodes, Children[n] # <<>>, ChildrenKept(n),
         NEW K, K = KeepTopK(PruneDominated(FilterByBudget(CombinedCandidates(n))))
  PROVE  /\ KeptValue(K, n)
         /\ (\A m \in Kids(n) : ThriftyFor(Children[n][m], kept, SerialMemory, SerialCost))
              => ThriftyValue(K, n)
<1>1. PICK cs : cs = CombinedCandidates(n)
  OBVIOUS
<1>2. PICK w \in Nat \ {0} :
        /\ Listed(cs, w)
        /\ \E below : /\ Combination(n, below) /\ \A m \in Kids(n) : below[m] = 1
                      /\ cs[1] = Combined(n, LocalCandidate(n, SerialStrategy(n)), below)
        /\ \A i \in 1..w : \E s \in KnownStrategies : \E below :
             Combination(n, below) /\ cs[i] = Combined(n, LocalCandidate(n, s), below)
  BY <1>1, CombinedCandidatesAre
<1>3. \A i \in 1..w : CandidateOf(cs[i], n, kept, SerialMemory)
  BY <1>2, CombinedKept
<1>4. PICK F : F = FilterByBudget(cs)
  OBVIOUS
<1>5. \E m \in 1..w : Passed(FilterByBudget(cs), cs, w, m)
  BY <1>2, FilterByBudgetIs
<1>6. PICK f \in 1..w : Passed(F, cs, w, f)
  BY <1>4, <1>5
<1>7. /\ f \in Nat \ {0} /\ Listed(F, f)
      /\ \A k \in 1..f : \E i \in 1..w : F[k] = cs[i]
      /\ \A i \in 1..w : InBudget(cs[i]) =>
           (\E k \in 1..f : F[k] = cs[i]) /\ \A k \in 1..f : InBudget(F[k])
  BY <1>6 DEF Passed
<1>8. \A k \in 1..f : CandidateOf(F[k], n, kept, SerialMemory)
  BY <1>3, <1>7
<1>9. /\ KeptValue(K, n)
      /\ \A i \in 1..Len(K) : \E j \in 1..f : K[i] = F[j]
      /\ \A j \in 1..f : Total(K[1]) <= Total(F[j])
  <2>1. AllCandidates(F, f, n)
    BY <1>8 DEF AllCandidates
  <2>2. SelectedFrom(KeepTopK(PruneDominated(F)), F, f, n)
    BY <1>7, <2>1, Selected
  <2>3. QED
    BY <1>1, <1>4, <2>2 DEF SelectedFrom
<1>10. ASSUME \A m \in Kids(n) : ThriftyFor(Children[n][m], kept, SerialMemory, SerialCost),
              SerialMemory[n] <= SearchConfig.maxMemory
       PROVE  /\ \A i \in 1..Len(K) : InBudget(K[i])
              /\ Total(K[1]) <= SerialCost[n]
  <2>1. PICK below : /\ Combination(n, below) /\ \A m \in Kids(n) : below[m] = 1
                     /\ cs[1] = Combined(n, LocalCandidate(n, SerialStrategy(n)), below)
    BY <1>2
  <2>2. InBudget(cs[1]) /\ Total(cs[1]) <= SerialCost[n]
    BY <1>10, <2>1, SerialThrifty
  <2>3. PICK one \in 1..w : one = 1
    OBVIOUS
  <2>4. PICK k \in 1..f : F[k] = cs[1]
    BY <1>7, <2>2, <2>3
  <2>5. \A j \in 1..f : InBudget(F[j])
    BY <1>7, <2>2, <2>3
  <2>6. Total(K[1]) <= Total(F[k])
    BY <1>9
  <2>7. \A j \in 1..f : Total(F[j]) \in Nat
    BY <1>8, TotalIs DEF CandidateOf
  <2>8. PICK j \in 1..f : K[1] = F[j]
    <3>1. 1 \in 1..Len(K)
      BY <1>9 DEF KeptValue
    <3>2. QED
      BY <1>9, <3>1
  <2>9. PICK y \in Nat : y = SerialCost[n]
    BY SerialCostIs
  <2>10. PICK t \in Nat, u \in Nat : t = Total(K[1]) /\ u = Total(F[k])
    BY <2>7, <2>8
  <2>11. t <= u /\ u <= y
    BY <2>2, <2>4, <2>6, <2>9, <2>10
  <2>12. t <= y
    BY <2>11
  <2>13. QED
    BY <1>9, <2>5, <2>9, <2>10, <2>12
<1>11. QED
  BY <1>9, <1>10 DEF ThriftyValue

AllKept == \A n \in Nodes : KeptFor(n, kept, SerialMemory)

(* The place of a node among its parent's children, as Chosen takes it.    *)
Slot(n) == CHOOSE m \in DOMAIN Children[ParentOf[n]] : Children[ParentOf[n]][m] = n

(* When candidates are kept for every node and refer to kept candidates of *)
(* the children, one of each node's is chosen: the recursion down the tree *)
(* never meets a node for which nothing was kept.                          *)
LEMMA ChosenIs ==
  ASSUME AllKept
  PROVE  \A n \in Nodes : Chosen[n] \in 1..Len(kept[n])
<1> DEFINE V == Nat
           Below(n, k) == kept[ParentOf[n]][k].below[Slot(n)]
           Body(n, f) == IF ParentOf[n] = "root" THEN Smaller(1, Len(kept[n]))
                         ELSE IF f[ParentOf[n]] = 0 THEN 0 ELSE Below(n, f[ParentOf[n]])
           Guarded(n, f) == IF ParentOf[n] = "root" THEN 1
                            ELSE IF f[ParentOf[n]] \in 1..Len(kept[ParentOf[n]])
                            THEN Below(n, f[ParentOf[n]]) ELSE 0
           F == [n \in Nodes |-> [f \in [Nodes -> V] |-> Guarded(n, f)]]
           rank == [n \in Nodes |-> Len(Postorder) - Place(n)]
<1>1. PICK K \in Nat : K = Len(Postorder)
  BY TreeFacts
<1>2. rank \in [Nodes -> 0..K] /\ rank \in [Nodes -> Nat]
  BY <1>1, TreeFacts
<1>3. \A n \in Nodes : ParentOf[n] # "root" => ParentOf[n] \in Nodes /\ rank[ParentOf[n]] < rank[n]
  BY <1>1, TreeFacts
<1> HIDE DEF rank
<1>4. ASSUME NEW n \in Nodes, ParentOf[n] # "root"
      PROVE  Slot(n) \in Kids(ParentOf[n]) /\ Children[ParentOf[n]][Slot(n)] = n
  BY <1>4, TreeFacts DEF Slot, Kids
<1>5. ASSUME NEW n \in Nodes
      PROVE  Len(kept[n]) \in Nat \ {0}
  BY DEF AllKept, KeptFor
<1>6. ASSUME NEW n \in Nodes, ParentOf[n] # "root", NEW k \in 1..Len(kept[ParentOf[n]])
      PROVE  Below(n, k) \in 1..Len(kept[n])
  <2>1. ParentOf[n] \in Nodes
    BY <1>3, <1>6
  <2>2. CandidateOf(kept[ParentOf[n]][k], ParentOf[n], kept, SerialMemory)
    BY <2>1 DEF AllKept, KeptFor
  <2>3. QED
    BY <1>4, <1>6, <2>2 DEF CandidateOf
<1> HIDE DEF Below
<1>7. ASSUME NEW n \in Nodes, NEW f \in [Nodes -> V] PROVE Guarded(n, f) \in V
  <2>1. CASE ParentOf[n] = "root"
    BY <2>1
  <2>2. CASE ParentOf[n] # "root" /\ f[ParentOf[n]] \in 1..Len(kept[ParentOf[n]])
    <3>1. Below(n, f[ParentOf[n]]) \in 1..Len(kept[n])
      BY <1>6, <2>2
    <3>2. QED
      BY <1>5, <2>2, <3>1
  <2>3. CASE ParentOf[n] # "root" /\ f[ParentOf[n]] \notin 1..Len(kept[ParentOf[n]])
    BY <2>3
  <2>4. QED
    BY <2>1, <2>2, <2>3
<1>8. F \in [Nodes -> [[Nodes -> V] -> V]]
  <2> HIDE DEF Guarded, V
  <2>1. QED
    BY <1>7
<1>9. \A n \in Nodes : \A f \in [Nodes -> V] : F[n][f] = Guarded(n, f)
  <2> HIDE DEF Guarded, V
  <2>1. QED
    OBVIOUS
<1> HIDE DEF F
<1>10. LooksDown(Nodes, V, rank, F)
  <2> SUFFICES ASSUME NEW n \in Nodes, NEW f \in [Nodes -> V], NEW g \in [Nodes -> V],
                      \A m \in Nodes : rank[m] < rank[n] => f[m] = g[m]
               PROVE  F[n][f] = F[n][g]
    BY DEF LooksDown
  <2>1. Guarded(n, f) = Guarded(n, g)
    BY <1>3
  <2> HIDE DEF Guarded, V
  <2>2. QED
    BY <1>9, <2>1
<1>11. \E f : Solution(Nodes, V, F, f)
  <2>1. PICK zero \in V : zero = 0
    OBVIOUS
  <2> HIDE DEF V
  <2>2. QED
    BY <1>1, <1>2, <1>8, <1>10, <2>1, RecursionExists
<1>12. PICK g : g \in [Nodes -> V] /\ \A n \in Nodes : g[n] = Guarded(n, g)
  <2> HIDE DEF Guarded, V
  <2>1. QED
    BY <1>9, <1>11 DEF Solution
<1>13. \A n \in Nodes : g[n] \in 1..Len(kept[n])
  <2> DEFINE P == {n \in Nodes : g[n] \in 1..Len(kept[n])}
  <2>1. ASSUME NEW n \in Nodes, \A m \in Nodes : rank[m] < rank[n] => m \in P PROVE n \in P
    <3>1. CASE ParentOf[n] = "root"
      BY <1>5, <1>12, <3>1
    <3>2. CASE ParentOf[n] # "root"
      <4>1. g[ParentOf[n]] \in 1..Len(kept[ParentOf[n]])
        BY <1>3, <2>1, <3>2
      <4>2. g[n] = Below(n, g[ParentOf[n]])
        BY <1>12, <3>2, <4>1
      <4>3. QED
        BY <1>6, <3>2, <4>1, <4>2
    <3>3. QED
      BY <3>1, <3>2
  <2>2. P \in SUBSET Nodes
    OBVIOUS
  <2>3. P = Nodes
    <3> HIDE DEF P
    <3>1. QED
      BY <1>2, <2>1, <2>2, RankInduction
  <2>4. QED
    BY <2>3
<1>14. ASSUME NEW n \in Nodes PROVE g[n] = Body(n, g)
  <2>1. CASE ParentOf[n] = "root"
    BY <1>5, <1>12, <2>1 DEF Smaller
  <2>2. CASE ParentOf[n] # "root"
    <3>1. g[ParentOf[n]] \in 1..Len(kept[ParentOf[n]])
      BY <1>3, <1>13, <2>2
    <3>2. g[n] = Below(n, g[ParentOf[n]])
      BY <1>12, <2>2, <3>1
    <3>3. g[ParentOf[n]] # 0
      BY <3>1
    <3>4. QED
      BY <2>2, <3>2, <3>3
  <2>3. QED
    BY <2>1, <2>2
<1>15. g = [n \in Nodes |-> Body(n, g)]
  <2> HIDE DEF Body
  <2>1. QED
    BY <1>12, <1>14
<1> DEFINE L == CHOOSE at : at = [n \in Nodes |-> Body(n, at)]
<1>16. Chosen = L
  BY DEF Chosen, Slot, Below
<1>17. L = [n \in Nodes |-> Body(n, L)]
  <2> HIDE DEF Body
  <2>1. QED
    BY <1>15
<1> HIDE DEF L
<1>18. \A n \in Nodes : L[n] = Body(n, L)
  <2> HIDE DEF Body
  <2>1. QED
    BY <1>17
<1> DEFINE P == {n \in Nodes : L[n] \in 1..Len(kept[n])}
<1>19. ASSUME NEW n \in Nodes, \A m \in Nodes : rank[m] < rank[n] => m \in P PROVE n \in P
  <2>1. CASE ParentOf[n] = "root"
    BY <1>5, <1>18, <2>1 DEF Smaller
  <2>2. CASE ParentOf[n] # "root"
    <3>1. L[ParentOf[n]] \in 1..Len(kept[ParentOf[n]])
      BY <1>3, <1>19, <2>2
    <3>2. L[ParentOf[n]] # 0
      BY <3>1
    <3>3. L[n] = Below(n, L[ParentOf[n]])
      BY <1>18, <2>2, <3>2
    <3>4. QED
      BY <1>6, <2>2, <3>1, <3>3
  <2>3. QED
    BY <2>1, <2>2
<1>20. P = Nodes
  <2>1. P \in SUBSET Nodes
    OBVIOUS
  <2> HIDE DEF P
  <2>2. QED
    BY <1>2, <1>19, <2>1, RankInduction
<1>21. QED
  BY <1>16, <1>20

-----------------------------------------------------------------------------
(* The inductive invariant.  The nodes up to next in Postorder have kept   *)
(* candidates that refer to kept candidates of their children; the others  *)
(* have none; and a plan, once made, is of every node.                     *)
SearchInv ==
  /\ ann \in Annotations
  /\ next \in 0..Len(Postorder)
  /\ DOMAIN kept = Nodes
  /\ \A n \in Nodes : Place(n) <= next => KeptFor(n, kept, SerialMemory)
  /\ \A n \in Nodes : Place(n) > next => kept[n] = <<>>
  /\ DOMAIN plan \subseteq Nodes
  /\ plan # <<>> => DOMAIN plan = Nodes

(* What the budget and the cost claims need of the nodes so far.           *)
ThriftInv ==
  \A n \in Nodes : Place(n) <= next => ThriftyFor(n, kept, SerialMemory, SerialCost)

(* That a node's candidates are in order depends on them and on its        *)
(* children's only.                                                        *)
LEMMA KeptSame ==
  ASSUME NEW n \in Nodes, NEW K, NEW L, NEW M, K[n] = L[n],
         \A m \in Kids(n) : K[Children[n][m]] = L[Children[n][m]], KeptFor(n, K, M)
  PROVE  KeptFor(n, L, M)
BY DEF KeptFor, CandidateOf

(* EnumerateSubtree fills in the next node, from children enumerated       *)
(* before it, and touches no other.                                        *)
LEMMA EnumerateIs ==
  ASSUME SearchInv, EnumerateSubtree,
         NEW p, p = Postorder[next + 1]
  PROVE  /\ p \in Nodes /\ Place(p) = next + 1 /\ next + 1 <= Len(Postorder)
         /\ \A m \in Kids(p) : Children[p][m] \in Nodes /\ Place(Children[p][m]) <= next
         /\ ChildrenKept(p)
         /\ DOMAIN kept' = Nodes
         /\ \A n \in Nodes : n # p => kept'[n] = kept[n]
         /\ KeptValue(kept'[p], p)
         /\ OneNodeFits /\ ThriftInv => ThriftyValue(kept'[p], p)
<1>1. PICK N \in Nat : N = Len(Postorder)
  BY TreeFacts
<1>2. next \in Nat /\ next < N /\ next + 1 \in 1..N
  BY <1>1 DEF SearchInv, EnumerateSubtree
<1>3. p \in Nodes /\ Place(p) = next + 1
  BY <1>1, <1>2, TreeFacts
<1>4. \A m \in Kids(p) : Children[p][m] \in Nodes /\ Place(Children[p][m]) <= next
  <2> SUFFICES ASSUME NEW m \in Kids(p)
               PROVE  Children[p][m] \in Nodes /\ Place(Children[p][m]) <= next
    OBVIOUS
  <2>1. Children[p][m] \in Nodes /\ Place(Children[p][m]) < next + 1
    BY <1>3, TreeFacts DEF Kids
  <2>2. PICK j \in Nat : j = Place(Children[p][m])
    BY <1>1, <2>1, TreeFacts
  <2>3. QED
    BY <1>2, <2>1, <2>2
<1>5. ChildrenKept(p)
  BY <1>4 DEF ChildrenKept, SearchInv
<1>6. PICK K : kept' = [kept EXCEPT ![p] = K] /\ KeptValue(K, p)
               /\ (OneNodeFits /\ ThriftInv => ThriftyValue(K, p))
  <2>1. ann \in Annotations
    BY DEF SearchInv
  <2>2. CASE EnumerateLeaf(p)
    <3>1. PICK K : K = KeepTopK(PruneDominated(LocalCandidates(p)))
      OBVIOUS
    <3>2. kept' = [kept EXCEPT ![p] = K] /\ Children[p] = <<>>
      BY <2>2, <3>1 DEF EnumerateLeaf
    <3>3. KeptValue(K, p) /\ (OneNodeFits => ThriftyValue(K, p))
      BY <1>3, <2>1, <3>1, <3>2, LeafKept
    <3>4. QED
      BY <3>2, <3>3
  <2>3. CASE EnumerateInner(p)
    <3>1. PICK K : K = KeepTopK(PruneDominated(FilterByBudget(CombinedCandidates(p))))
      OBVIOUS
    <3>2. kept' = [kept EXCEPT ![p] = K] /\ Children[p] # <<>>
      BY <2>3, <3>1 DEF EnumerateInner
    <3>3. /\ KeptValue(K, p)
          /\ (\A m \in Kids(p) : ThriftyFor(Children[p][m], kept, SerialMemory, SerialCost))
               => ThriftyValue(K, p)
      BY <1>3, <1>5, <2>1, <3>1, <3>2, InnerKept
    <3>4. ThriftInv =>
            \A m \in Kids(p) : ThriftyFor(Children[p][m], kept, SerialMemory, SerialCost)
      BY <1>4 DEF ThriftInv
    <3>5. QED
      BY <3>2, <3>3, <3>4
  <2>4. QED
    BY <2>2, <2>3 DEF EnumerateSubtree
<1>7. DOMAIN kept = Nodes
  BY DEF SearchInv
<1>8. kept'[p] = K /\ DOMAIN kept' = Nodes /\ \A n \in Nodes : n # p => kept'[n] = kept[n]
  BY <1>3, <1>6, <1>7
<1>9. QED
  BY <1>1, <1>2, <1>3, <1>4, <1>5, <1>6, <1>8

LEMMA SearchInvInit ==
  ASSUME SearchInit
  PROVE  SearchInv /\ ThriftInv
<1>1. Len(Postorder) \in Nat /\ \A n \in Nodes : Place(n) \in 1..Len(Postorder)
  BY TreeFacts
<1>2. \A n \in Nodes : ~(Place(n) <= next) /\ kept[n] = <<>>
  BY <1>1 DEF SearchInit
<1>3. next \in 0..Len(Postorder) /\ DOMAIN kept = Nodes /\ ann \in Annotations
  BY <1>1 DEF SearchInit
<1>4. plan = <<>> /\ DOMAIN plan \subseteq Nodes
  BY DEF SearchInit
<1>5. QED
  BY <1>2, <1>3, <1>4 DEF SearchInv, ThriftInv

LEMMA EnumerateInv ==
  ASSUME SearchInv, EnumerateSubtree
  PROVE  SearchInv' /\ (OneNodeFits /\ ThriftInv => ThriftInv')
<1>1. PICK p : p = Postorder[next + 1]
  OBVIOUS
<1>2. /\ p \in Nodes /\ Place(p) = next + 1 /\ next + 1 <= Len(Postorder)
      /\ \A m \in Kids(p) : Children[p][m] \in Nodes /\ Place(Children[p][m]) <= next
      /\ ChildrenKept(p)
      /\ DOMAIN kept' = Nodes
      /\ \A n \in Nodes : n # p => kept'[n] = kept[n]
      /\ KeptValue(kept'[p], p)
      /\ OneNodeFits /\ ThriftInv => ThriftyValue(kept'[p], p)
  BY <1>1, EnumerateIs
<1>3. PICK N \in Nat : N = Len(Postorder)
  BY TreeFacts
<1>4. PICK x \in Nat : x = next /\ next' = x + 1 /\ x < N
  BY <1>3 DEF SearchInv, EnumerateSubtree
<1>5. ann' = ann /\ plan' = plan
  BY DEF EnumerateSubtree
<1>6. SerialMemory' = SerialMemory /\ SerialCost' = SerialCost
  BY <1>5, SameAnn
<1>7. \A n \in Nodes : Place(n) \in 1..N /\ (n # p => Place(n) # x + 1)
  BY <1>1, <1>3, <1>4, TreeFacts
<1>8. ASSUME NEW n \in Nodes, Place(n) <= x, NEW m \in Kids(n)
      PROVE  kept'[Children[n][m]] = kept[Children[n][m]]
  <2>1. Children[n][m] \in Nodes /\ Place(Children[n][m]) < Place(n)
    BY TreeFacts DEF Kids
  <2>2. PICK i \in Nat, j \in Nat : i = Place(n) /\ j = Place(Children[n][m])
    BY <1>7, <2>1
  <2>3. j # x + 1
    BY <1>8, <2>1, <2>2
  <2>4. Children[n][m] # p
    BY <1>2, <1>4, <2>2, <2>3
  <2>5. QED
    BY <1>2, <2>1, <2>4
<1>9. KeptFor(p, kept', SerialMemory)
  <2>1. PICK w \in Nat \ {0} :
          /\ Listed(kept'[p], w) /\ Len(kept'[p]) = w
          /\ \A i \in 1..w : CandidateOf(kept'[p][i], p, kept, SerialMemory)
    BY <1>2 DEF KeptValue
  <2>2. \A m \in Kids(p) : kept'[Children[p][m]] = kept[Children[p][m]]
    <3> SUFFICES ASSUME NEW m \in Kids(p) PROVE kept'[Children[p][m]] = kept[Children[p][m]]
      OBVIOUS
    <3>1. PICK j \in Nat : j = Place(Children[p][m])
      BY <1>2, <1>7
    <3>2. Children[p][m] # p
      BY <1>2, <1>4, <3>1
    <3>3. QED
      BY <1>2, <3>2
  <2>3. \A i \in 1..w : CandidateOf(kept'[p][i], p, kept', SerialMemory)
    BY <2>1, <2>2 DEF CandidateOf
  <2>4. QED
    BY <2>1, <2>3 DEF KeptFor
<1>10. ASSUME NEW n \in Nodes, Place(n) <= next' PROVE KeptFor(n, kept', SerialMemory')
  <2>1. CASE n = p
    BY <1>6, <1>9, <2>1
  <2>2. CASE n # p
    <3>1. Place(n) <= x
      BY <1>4, <1>7, <1>10, <2>2
    <3>2. KeptFor(n, kept, SerialMemory)
      BY <1>4, <3>1 DEF SearchInv
    <3>3. kept[n] = kept'[n] /\ \A m \in Kids(n) : kept[Children[n][m]] = kept'[Children[n][m]]
      BY <1>2, <1>8, <2>2, <3>1
    <3>4. KeptFor(n, kept', SerialMemory)
      BY <3>2, <3>3, KeptSame
    <3>5. QED
      BY <1>6, <3>4
  <2>3. QED
    BY <2>1, <2>2
<1>11. ASSUME NEW n \in Nodes, Place(n) > next' PROVE kept'[n] = <<>>
  <2>1. n # p /\ Place(n) > x
    BY <1>2, <1>4, <1>7, <1>11
  <2>2. QED
    BY <1>2, <1>4, <2>1 DEF SearchInv
<1>12. next' \in 0..Len(Postorder)
  BY <1>3, <1>4
<1>13. SearchInv'
  <2>1. (ann \in Annotations)' /\ (DOMAIN plan \subseteq Nodes)' /\ (plan # <<>> => DOMAIN plan = Nodes)'
    BY <1>5 DEF SearchInv
  <2>2. QED
    BY <1>2, <1>10, <1>11, <1>12, <2>1 DEF SearchInv
<1>14. ASSUME OneNodeFits, ThriftInv,
              NEW n \in Nodes, Place(n) <= next'
       PROVE  ThriftyFor(n, kept', SerialMemory', SerialCost')
  <2>1. CASE n = p
    <3>1. ThriftyValue(kept'[p], p)
      BY <1>2, <1>14
    <3>2. QED
      BY <1>6, <2>1, <3>1 DEF ThriftyFor, ThriftyValue
  <2>2. CASE n # p
    <3>1. Place(n) <= next
      BY <1>4, <1>7, <1>14, <2>2
    <3>2. ThriftyFor(n, kept, SerialMemory, SerialCost)
      BY <1>14, <3>1 DEF ThriftInv
    <3>3. kept'[n] = kept[n]
      BY <1>2, <2>2
    <3>4. QED
      BY <1>6, <3>2, <3>3 DEF ThriftyFor
  <2>3. QED
    BY <2>1, <2>2
<1>15. QED
  BY <1>13, <1>14 DEF ThriftInv

LEMMA MaterializeInv ==
  ASSUME SearchInv, Materialize
  PROVE  SearchInv' /\ (ThriftInv => ThriftInv')
<1>1. ann' = ann /\ next' = next /\ kept' = kept
  BY DEF Materialize
<1>2. SerialMemory' = SerialMemory /\ SerialCost' = SerialCost
  BY <1>1, SameAnn
<1>3. AllKept
  BY TreeFacts DEF AllKept, SearchInv, Materialize
<1>4. \A n \in Nodes : Chosen[n] # 0
  BY <1>3, ChosenIs
<1>5. DOMAIN plan' = Nodes
  <2>1. {n \in Nodes : Chosen[n] # 0} = Nodes
    BY <1>4
  <2>2. QED
    BY <2>1 DEF Materialize
<1>6. QED
  BY <1>1, <1>2, <1>5 DEF SearchInv, ThriftInv

LEMMA SearchStep ==
  ASSUME SearchInv, [SearchNext]_searchVars
  PROVE  SearchInv' /\ (OneNodeFits /\ ThriftInv => ThriftInv')
<1>1. CASE EnumerateSubtree
  BY <1>1, EnumerateInv
<1>2. CASE Materialize
  BY <1>2, MaterializeInv
<1>3. CASE Planned \/ UNCHANGED searchVars
  <2>1. ann' = ann /\ next' = next /\ kept' = kept /\ plan' = plan
    BY <1>3 DEF Planned, searchVars
  <2>2. SerialMemory' = SerialMemory /\ SerialCost' = SerialCost
    BY <2>1, SameAnn
  <2>3. QED
    BY <2>1, <2>2 DEF SearchInv, ThriftInv
<1>4. QED
  BY <1>1, <1>2, <1>3 DEF SearchNext

-----------------------------------------------------------------------------
(* A node's candidates are a sequence of candidates, nodes that are not    *)
(* enumerated yet have none.                                               *)
LEMMA KeptFacts ==
  ASSUME SearchInv, NEW n \in Nodes
  PROVE  /\ DOMAIN kept[n] = 1..Len(kept[n])
         /\ Enumerated(n) => Place(n) <= next
         /\ \A i \in DOMAIN kept[n] : kept[n][i] \in Candidates
<1>1. PICK N \in Nat : N = Len(Postorder)
  BY TreeFacts
<1>2. next \in Nat /\ next <= N
  BY <1>1 DEF SearchInv
<1>3. Enumerated(n) => Place(n) <= next
  <2> SUFFICES ASSUME Enumerated(n) PROVE Place(n) <= next
    OBVIOUS
  <2>1. PICK i \in 1..next : Postorder[i] = n
    BY DEF Enumerated
  <2>2. i \in 1..N
    BY <1>2
  <2>3. Place(n) = i
    BY <1>1, <2>1, <2>2, TreeFacts
  <2>4. QED
    BY <1>2, <2>3
<1>4. PICK x \in Nat : x = Place(n)
  BY <1>1, TreeFacts
<1>5. CASE x <= next
  <2>1. PICK w \in Nat \ {0} : /\ Listed(kept[n], w) /\ Len(kept[n]) = w
                               /\ \A k \in 1..w : CandidateOf(kept[n][k], n, kept, SerialMemory)
    BY <1>4, <1>5 DEF SearchInv, KeptFor
  <2>2. DOMAIN kept[n] = 1..w
    BY <2>1 DEF Listed
  <2>3. QED
    BY <1>3, <2>1, <2>2 DEF CandidateOf
<1>6. CASE x > next
  <2>1. PICK e : e = kept[n] /\ e = <<>>
    BY <1>4, <1>6 DEF SearchInv
  <2>2. Len(e) = 0 /\ DOMAIN e = {}
    BY <2>1
  <2>3. QED
    BY <1>3, <2>1, <2>2
<1>7. QED
  BY <1>2, <1>4, <1>5, <1>6

(* SearchInv holds throughout the search.                                  *)
THEOREM SearchInvariant == SearchSpec => []SearchInv
<1>1. SearchInit => SearchInv
  BY SearchInvInit
<1>2. SearchInv /\ [SearchNext]_searchVars => SearchInv'
  BY SearchStep
<1>3. QED
  BY <1>1, <1>2, PTL DEF SearchSpec

(* Every candidate enumerateSubtree keeps, for any plan, annotation and    *)
(* configuration, names a strategy the executor knows, with one worker to  *)
(* RootWorkers, and costs and resources that are never negative.           *)
THEOREM SearchTypes == SearchSpec => []SearchTypeOK
<1>1. ASSUME SearchInv PROVE SearchTypeOK
  <2>1. ASSUME NEW n \in Nodes, NEW i \in DOMAIN kept[n]
        PROVE  /\ kept[n][i].strategy.mode \in Modes
               /\ kept[n][i].strategy.workers \in 1..RootWorkers
               /\ {kept[n][i].inflight, kept[n][i].concurrency} \subseteq Nat \ {0}
               /\ Total(kept[n][i]) \in Nat
    <3>1. PICK c \in Candidates : c = kept[n][i]
      BY <1>1, <2>1, KeptFacts
    <3>2. PICK s \in KnownStrategies : s = c.strategy
      BY DEF Candidates
    <3>3. s.mode \in Modes /\ s.workers \in 1..Slots
      BY DEF KnownStrategies
    <3>4. s.workers \in 1..RootWorkers
      BY <3>3, ConfigAssumption DEF Slots, Smaller
    <3>5. c.inflight \in Nat \ {0} /\ c.concurrency \in Nat \ {0} /\ Total(c) \in Nat
      BY TotalIs DEF Candidates
    <3>6. QED
      BY <3>1, <3>2, <3>3, <3>4, <3>5
  <2>2. next \in 0..Len(Postorder) /\ DOMAIN plan \subseteq Nodes
    BY <1>1 DEF SearchInv
  <2>3. QED
    BY <2>1, <2>2 DEF SearchTypeOK
<1>2. QED
  BY <1>1, SearchInvariant, PTL

(* However pruning, the budget and the cut-offs treat the candidates, the  *)
(* plan materializeCandidate makes of the best one has a strategy for each *)
(* node of the tree: no recursion ends at a node nothing was kept for.     *)
THEOREM AllPlanned == SearchSpec => []EveryNodePlanned
<1>1. SearchInv => EveryNodePlanned
  BY DEF SearchInv, EveryNodePlanned
<1>2. QED
  BY <1>1, SearchInvariant, PTL

(* Under that limit, the candidates of every enumerated node are within    *)
(* the budget and the best costs no more than the naive plan, where the    *)
(* naive plan is within the memory budget.                                 *)
THEOREM ThriftInvariant ==
  ASSUME OneNodeFits
  PROVE  SearchSpec => [](SearchInv /\ ThriftInv)
<1>1. SearchInit => SearchInv /\ ThriftInv
  BY SearchInvInit
<1>2. SearchInv /\ ThriftInv /\ [SearchNext]_searchVars => SearchInv' /\ ThriftInv'
  BY OneNodeFits, SearchStep
<1>3. QED
  BY <1>1, <1>2, PTL DEF SearchSpec

(* The filter on the budget, which lets everything pass where nothing      *)
(* fits, never does so for a node whose naive plan is within the memory    *)
(* budget: all the candidates kept for it are within the budget, whatever  *)
(* combinations were cut off and whatever was pruned below it.             *)
THEOREM BudgetIsKept ==
  ASSUME OneNodeFits
  PROVE  SearchSpec => []BudgetKept
<1>1. ASSUME SearchInv, ThriftInv PROVE BudgetKept
  <2> SUFFICES ASSUME NEW n \in Nodes, Enumerated(n), SerialInBudget(n), NEW i \in DOMAIN kept[n]
               PROVE  InBudget(kept[n][i])
    BY DEF BudgetKept
  <2>1. i \in 1..Len(kept[n]) /\ Place(n) <= next
    BY <1>1, KeptFacts
  <2>2. QED
    BY <1>1, <2>1 DEF ThriftInv, ThriftyFor, SerialInBudget
<1>2. QED
  BY <1>1, ThriftInvariant, PTL

(* Greedy as the search is, its best candidate for a node never costs more *)
(* than running the whole subtree by its serial strategies, if that is     *)
(* within the memory budget: that plan, or one that is no worse, survives  *)
(* the limit on combinations, the budget, domination and the cut to the    *)
(* best few at every level.                                                *)
THEOREM SerialNeverBetter ==
  ASSUME OneNodeFits
  PROVE  SearchSpec => []NeverWorseThanSerial
<1>1. ASSUME SearchInv, ThriftInv PROVE NeverWorseThanSerial
  <2> SUFFICES ASSUME NEW n \in Nodes, Enumerated(n), SerialInBudget(n)
               PROVE  Total(kept[n][1]) <= SerialCost[n]
    BY DEF NeverWorseThanSerial
  <2>1. Place(n) <= next
    BY <1>1, KeptFacts
  <2>2. QED
    BY <1>1, <2>1 DEF ThriftInv, ThriftyFor, SerialInBudget
<1>2. QED
  BY <1>1, ThriftInvariant, PTL
=============================================================================
