--------------------------- MODULE ResponseProofs ---------------------------
(***************************************************************************)
(* What a plan decides of an execution.  Not the response: whatever modes, *)
(* workers and batches the optimizer chose and however goroutines          *)
(* interleave, an execution that ends without error has assembled what the *)
(* resolvers define (ResponseCorrect of Executor.tla).  But how much runs  *)
(* at once: no more resolvers than were counted for the plan               *)
(* (InflightWithinPlan of Executor.tla).                                   *)
(***************************************************************************)
EXTENDS ExecutorProofs

-----------------------------------------------------------------------------
(***************************************************************************)
(* The reference: Expected is defined by recursion over the fields below a *)
(* node, which is sound because the fields form a finite tree.             *)
(***************************************************************************)

(* Of any nodes, one has no child among them: take the smallest set of     *)
(* which that is false, and remove a node that is no child of any other.   *)
HasLowest(S) == \E n \in S : \A m \in ToSet(Field[n].children) : m \notin S

LEMMA LowestNode ==
  ASSUME NEW S \in SUBSET Nodes, S # {}
  PROVE  HasLowest(S)
<1> DEFINE Wrong(k) == \E T \in SUBSET Nodes : T # {} /\ Cardinality(T) = k /\ ~HasLowest(T)
           Sizes == {k \in Nat : Wrong(k)}
<1>1. SUFFICES ASSUME ~HasLowest(S) PROVE FALSE
  OBVIOUS
<1>2. \A T \in SUBSET Nodes : IsFiniteSet(T) /\ Cardinality(T) \in Nat
  BY TreeAssumption, FS_Subset, FS_CardinalityType
<1>3. Sizes \in SUBSET Nat /\ Sizes # {}
  <2>1. Cardinality(S) \in Sizes
    BY <1>1, <1>2
  <2>2. QED
    BY <2>1
<1>4. PICK k \in Sizes : \A j \in Nat : j < k => j \notin Sizes
  <2> HIDE DEF Sizes
  <2>1. QED
    BY <1>3, NatMin
<1>5. PICK T \in SUBSET Nodes : T # {} /\ Cardinality(T) = k /\ ~HasLowest(T)
  BY <1>4
<1>6. PICK top \in T : \A m \in T : top \notin ToSet(Field[m].children)
  BY <1>5, TreeAssumption
<1> DEFINE U == T \ {top}
<1>7. U \in SUBSET Nodes /\ Cardinality(U) = k - 1 /\ k - 1 \in Nat /\ k - 1 < k
  <2>1. Cardinality(U) = Cardinality(T) - 1
    BY <1>2, <1>6, FS_RemoveElement
  <2>2. Cardinality(U) \in Nat /\ k \in Nat
    BY <1>2, <1>4
  <2>3. QED
    BY <1>5, <2>1, <2>2
<1>8. CASE U = {}
  <2>1. T = {top}
    BY <1>6, <1>8
  <2>2. HasLowest(T)
    BY <1>6, <2>1 DEF HasLowest
  <2>3. QED
    BY <1>5, <2>2
<1>9. CASE U # {}
  <2>1. HasLowest(U)
    <3>1. k - 1 \notin Sizes
      BY <1>4, <1>7
    <3>2. ~Wrong(k - 1)
      BY <1>7, <3>1
    <3>3. QED
      BY <1>7, <1>9, <3>2
  <2>2. PICK n \in U : \A m \in ToSet(Field[n].children) : m \notin U
    BY <2>1 DEF HasLowest
  <2>3. HasLowest(T)
    BY <1>6, <2>2 DEF HasLowest
  <2>4. QED
    BY <1>5, <2>3
<1>10. QED
  BY <1>8, <1>9

(* What a node's field answers on every parent, given f below it.          *)
Row(f, n) == [x \in Parents |-> ValueOn(f, n, x)]

Whole(S) == \A n \in S : ToSet(Field[n].children) \subseteq S

Fulfils(f, S) == \A n \in S : f[n] = Row(f, n)

LEMMA ChildrenOfNodes ==
  ASSUME NEW n \in Nodes
  PROVE  /\ ToSet(Field[n].children) \subseteq Nodes
         /\ \A r \in KeysBelow(n) : ChildByKey(n, r) \in ToSet(Field[n].children)
<1>1. Field[n].children \in Seq(Nodes)
  BY TreeAssumption
<1>2. ToSet(Field[n].children) \subseteq Nodes
  <2>1. \A k \in DOMAIN Field[n].children : Field[n].children[k] \in Nodes
    BY <1>1, ElementOfSeq, LenProperties
  <2>2. QED
    BY <2>1 DEF ToSet
<1>3. ASSUME NEW r \in KeysBelow(n) PROVE ChildByKey(n, r) \in ToSet(Field[n].children)
  <2>1. \E k \in DOMAIN Field[n].children : Field[Field[n].children[k]].responseKey = r
    BY DEF KeysBelow
  <2>2. PICK k \in DOMAIN Field[n].children : ChildByKey(n, r) = Field[n].children[k]
    BY <2>1 DEF ChildByKey
  <2>3. QED
    BY <2>2 DEF ToSet
<1>4. QED
  BY <1>2, <1>3

LEMMA SameRow ==
  ASSUME NEW n \in Nodes, NEW f, NEW g, \A m \in ToSet(Field[n].children) : f[m] = g[m]
  PROVE  Row(f, n) = Row(g, n)
<1>1. ASSUME NEW x PROVE ObjectOn(f, n, x) = ObjectOn(g, n, x)
  <2>1. \A r \in KeysBelow(n) : f[ChildByKey(n, r)] = g[ChildByKey(n, r)]
    BY ChildrenOfNodes
  <2>2. \A r \in KeysBelow(n) : f[ChildByKey(n, r)][x] = g[ChildByKey(n, r)][x]
    BY <2>1
  <2>3. QED
    BY <2>2 DEF ObjectOn
<1>2. ASSUME NEW x PROVE ValueOn(f, n, x) = ValueOn(g, n, x)
  <2>1. \A i : ObjectOn(f, n, TheAnswer(n, x)[i]) = ObjectOn(g, n, TheAnswer(n, x)[i])
    BY <1>1
  <2>2. ObjectOn(f, n, TheAnswer(n, x)) = ObjectOn(g, n, TheAnswer(n, x))
    BY <1>1
  <2>3. QED
    BY <2>1, <2>2 DEF ValueOn
<1>3. QED
  BY <1>2 DEF Row

LEMMA FulfilledOnce ==
  ASSUME NEW S \in SUBSET Nodes, NEW T \in SUBSET Nodes, NEW f, NEW g,
         Whole(S), Whole(T), Fulfils(f, S), Fulfils(g, T), NEW n \in S \cap T
  PROVE  f[n] = g[n]
<1> DEFINE Bad == {m \in S \cap T : f[m] # g[m]}
<1>1. SUFFICES ASSUME Bad # {} PROVE FALSE
  OBVIOUS
<1>2. PICK m \in Bad : \A c \in ToSet(Field[m].children) : c \notin Bad
  <2>1. Bad \in SUBSET Nodes
    OBVIOUS
  <2> HIDE DEF Bad
  <2>2. QED
    BY <1>1, <2>1, LowestNode DEF HasLowest
<1>3. \A c \in ToSet(Field[m].children) : f[c] = g[c]
  BY <1>2 DEF Whole
<1>4. Row(f, m) = Row(g, m)
  BY <1>3, SameRow
<1>5. QED
  BY <1>2, <1>4 DEF Fulfils

Serves(f, n) == \E S \in SUBSET Nodes : n \in S /\ Whole(S) /\ Fulfils(f, S)

LEMMA ExpectedExists == \E f : f = [n \in Nodes |-> Row(f, n)]
<1> DEFINE Good == {n \in Nodes : \E f : Serves(f, n)}
           Some(n) == CHOOSE f : Serves(f, n)
           F == [n \in Nodes |-> Some(n)[n]]
<1>1. ASSUME NEW n \in Good PROVE Serves(Some(n), n)
  BY <1>1
<1> HIDE DEF Some
<1>2. ASSUME NEW n \in Good
      PROVE  F[n] = Row(F, n) /\ ToSet(Field[n].children) \subseteq Good
  <2> DEFINE f == Some(n)
  <2>1. PICK S \in SUBSET Nodes : n \in S /\ Whole(S) /\ Fulfils(f, S)
    BY <1>1 DEF Serves
  <2> HIDE DEF f
  <2>2. ASSUME NEW m \in S PROVE m \in Good /\ F[m] = f[m]
    <3>1. m \in Good
      BY <2>1, <2>2 DEF Serves
    <3>2. PICK T \in SUBSET Nodes : m \in T /\ Whole(T) /\ Fulfils(Some(m), T)
      BY <1>1, <3>1 DEF Serves
    <3>3. Some(m)[m] = f[m]
      BY <2>1, <2>2, <3>2, FulfilledOnce
    <3>4. QED
      BY <3>1, <3>3
  <2>3. ToSet(Field[n].children) \subseteq S
    BY <2>1 DEF Whole
  <2>4. \A m \in ToSet(Field[n].children) : F[m] = f[m] /\ m \in Good
    BY <2>2, <2>3
  <2>5. Row(F, n) = Row(f, n)
    <3> HIDE DEF F
    <3>1. QED
      BY <2>4, SameRow
  <2>6. QED
    BY <2>1, <2>2, <2>4, <2>5 DEF Fulfils
<1>3. Good = Nodes
  <2>1. SUFFICES ASSUME Nodes \ Good # {} PROVE FALSE
    OBVIOUS
  <2>2. PICK n \in Nodes \ Good : \A m \in ToSet(Field[n].children) : m \notin Nodes \ Good
    <3> HIDE DEF Good
    <3>1. QED
      BY <2>1, LowestNode DEF HasLowest
  <2>3. ToSet(Field[n].children) \subseteq Good
    BY <2>2, ChildrenOfNodes
  <2> DEFINE g == [m \in Nodes |-> IF m = n THEN Row(F, n) ELSE F[m]]
             S == Good \cup {n}
  <2>4. ASSUME NEW m \in S PROVE g[m] = Row(g, m) /\ ToSet(Field[m].children) \subseteq S
    <3>1. ToSet(Field[m].children) \subseteq Good
      BY <1>2, <2>3, <2>4
    <3>2. \A c \in ToSet(Field[m].children) : g[c] = F[c]
      <4> HIDE DEF F
      <4>1. QED
        BY <2>2, <3>1
    <3>3. Row(g, m) = Row(F, m)
      <4> HIDE DEF F, g
      <4>1. QED
        BY <2>4, <3>2, SameRow
    <3>4. g[m] = Row(F, m)
      <4>1. m # n => F[m] = Row(F, m)
        BY <1>2, <2>4
      <4> HIDE DEF F
      <4>2. QED
        BY <2>4, <4>1
    <3>5. QED
      BY <3>1, <3>3, <3>4
  <2>5. Serves(g, n)
    <3>1. S \in SUBSET Nodes /\ n \in S /\ Whole(S) /\ Fulfils(g, S)
      BY <2>4 DEF Whole, Fulfils
    <3> HIDE DEF g, S
    <3>2. QED
      BY <3>1 DEF Serves
  <2>6. QED
    BY <2>2, <2>5
<1>4. F = [n \in Nodes |-> Row(F, n)]
  <2>1. \A n \in Nodes : F[n] = Row(F, n)
    BY <1>2, <1>3
  <2>2. F = [n \in Nodes |-> F[n]]
    OBVIOUS
  <2> HIDE DEF F
  <2>3. QED
    BY <2>1, <2>2
<1>5. QED
  <2> HIDE DEF F
  <2>1. QED
    BY <1>4

(* So Expected does what its equation says.                                *)
LEMMA ExpectedIs ==
  ASSUME NEW n \in Nodes, NEW x \in Parents
  PROVE  Expected[n][x] = ValueOn(Expected, n, x)
<1>1. PICK f : f = [m \in Nodes |-> Row(f, m)]
  BY ExpectedExists
<1>2. f = [m \in Nodes |-> [y \in Parents |-> ValueOn(f, m, y)]]
  BY <1>1 DEF Row
<1>3. Expected = [m \in Nodes |-> [y \in Parents |-> ValueOn(Expected, m, y)]]
  BY <1>2 DEF Expected
<1>4. Expected[n] = [y \in Parents |-> ValueOn(Expected, n, y)]
  BY <1>3
<1>5. QED
  BY <1>4

-----------------------------------------------------------------------------
(***************************************************************************)
(* The flat list of a batch: where each value's elements are in it.        *)
(***************************************************************************)

(* Two functions that flatten the same values do so alike.                 *)
LEMMA FlatPrefix ==
  ASSUME NEW vs, NEW n \in Nat, NEW f, FlatStep(vs, n, f),
         NEW ws, NEW m \in 0..n, Len(ws) = m, \A k \in 1..m : ws[k] = vs[k]
  PROVE  Flatten(ws) = f[m]
<1> DEFINE g == CHOOSE g : FlatStep(ws, m, g)
<1>1. Flatten(ws) = g[m]
  BY DEF Flatten, FlatStep
<1>2. m \in Nat
  OBVIOUS
<1>3. FlatStep(ws, m, g)
  BY <1>2, FlattenExists
<1> HIDE DEF g
<1>4. \A i \in 0..m : g[i] = IF i = 0 THEN <<>> ELSE g[i - 1] \o Elements(ws[i])
  BY <1>3 DEF FlatStep
<1>5. \A i \in 0..n : f[i] = IF i = 0 THEN <<>> ELSE f[i - 1] \o Elements(vs[i])
  BY DEF FlatStep
<1> DEFINE Bad == {i \in 0..m : g[i] # f[i]}
<1>6. Bad = {}
  <2>1. SUFFICES ASSUME Bad # {} PROVE FALSE
    OBVIOUS
  <2>2. Bad \in SUBSET Nat
    OBVIOUS
  <2>3. PICK i \in Bad : \A k \in Nat : k < i => k \notin Bad
    <3> HIDE DEF Bad
    <3>1. QED
      BY <2>1, <2>2, NatMin
  <2>4. i \in 0..m /\ i \in 0..n /\ i # 0
    BY <1>4, <1>5, <2>3
  <2>5. i - 1 \in Nat /\ i - 1 < i /\ i - 1 \in 0..m /\ i \in 1..m
    BY <2>4
  <2>6. g[i - 1] = f[i - 1] /\ ws[i] = vs[i]
    BY <2>3, <2>5
  <2>7. g[i] = g[i - 1] \o Elements(ws[i]) /\ f[i] = f[i - 1] \o Elements(vs[i])
    BY <1>4, <1>5, <2>4
  <2>8. QED
    BY <2>3, <2>6, <2>7
<1>7. QED
  BY <1>1, <1>2, <1>6

(* What is before the i-th value's elements.                               *)
Before(vs, i) == Len(Flatten(SubSeq(vs, 1, i - 1)))

LEMMA FlattenPlaces ==
  ASSUME NEW V, NEW vs \in Seq(V), NEW S, \A i \in 1..Len(vs) : Elements(vs[i]) \in Seq(S),
         NEW i \in 1..Len(vs)
  PROVE  /\ Before(vs, i) \in Nat /\ Len(Elements(vs[i])) \in Nat
         /\ Before(vs, i) + Len(Elements(vs[i])) <= Len(Flatten(vs))
         /\ \A m \in 1..Len(Elements(vs[i])) :
              Flatten(vs)[Before(vs, i) + m] = Elements(vs[i])[m]
<1>1. PICK n \in Nat : n = Len(vs)
  BY LenProperties
<1>2. PICK f : FlatStep(vs, n, f)
  BY FlattenExists
<1>3. ASSUME NEW k \in 1..n PROVE f[k] = f[k - 1] \o Elements(vs[k])
  <2>1. \A x \in 0..n : f[x] = IF x = 0 THEN <<>> ELSE f[x - 1] \o Elements(vs[x])
    BY <1>2 DEF FlatStep
  <2>2. k \in 0..n /\ k # 0
    OBVIOUS
  <2>3. QED
    BY <2>1, <2>2
<1>4. ASSUME NEW k \in 0..n
      PROVE  f[k] = Flatten(SubSeq(vs, 1, k)) /\ f[k] \in Seq(S) /\ Len(f[k]) \in Nat
  <2> DEFINE ws == SubSeq(vs, 1, k)
  <2>1. ws \in Seq(V) /\ Len(ws) = k /\ \A x \in 1..k : ws[x] = vs[x]
    BY <1>1, SubSeqProperties
  <2> HIDE DEF ws
  <2>2. Flatten(ws) = f[k]
    BY <1>2, <2>1, FlatPrefix
  <2>3. ASSUME NEW x \in 1..Len(ws) PROVE Elements(ws[x]) \in Seq(S)
    <3>1. ws[x] = vs[x] /\ x \in 1..Len(vs)
      BY <1>1, <2>1
    <3>2. Elements(ws[x]) = Elements(vs[x])
      BY <3>1
    <3>3. QED
      BY <3>1, <3>2
  <2>4. Flatten(ws) \in Seq(S)
    <3>1. Len(ws) \in Nat
      BY <2>1, LenProperties
    <3>2. QED
      BY <2>3, <3>1, FlattenTyped
  <2>5. QED
    BY <2>2, <2>4, LenProperties DEF ws
<1>5. Flatten(vs) = f[n]
  BY <1>1, <1>2, FlatPrefix
<1> DEFINE E == Elements(vs[i])
<1>6. E \in Seq(S) /\ Len(E) \in Nat
  BY LenProperties
<1>7. i - 1 \in 0..n /\ i \in 0..n /\ i \in 1..n
  BY <1>1
<1>8. Before(vs, i) = Len(f[i - 1]) /\ Before(vs, i) \in Nat
  BY <1>4, <1>7 DEF Before
<1> HIDE DEF E
<1>9. f[i] = f[i - 1] \o E
  BY <1>3, <1>7 DEF E
<1>10. /\ Len(f[i]) = Len(f[i - 1]) + Len(E)
       /\ \A m \in 1..Len(E) : f[i][Len(f[i - 1]) + m] = E[m]
  <2>1. f[i - 1] \in Seq(S) /\ Len(f[i - 1]) \in Nat
    BY <1>4, <1>7
  <2>2. PICK s \in Seq(S) : s = f[i - 1]
    BY <2>1
  <2>3. Len(s \o E) = Len(s) + Len(E) /\ \A m \in 1..Len(E) : (s \o E)[Len(s) + m] = E[m]
    BY <1>6, <2>1, <2>2, ConcatProperties
  <2>4. QED
    BY <1>9, <2>2, <2>3
<1> DEFINE Ahead(k) == Len(f[i]) <= Len(f[k]) /\ \A x \in 1..Len(f[i]) : f[k][x] = f[i][x]
           Bad == {k \in i..n : ~Ahead(k)}
<1>11. Bad = {}
  <2>1. SUFFICES ASSUME Bad # {} PROVE FALSE
    OBVIOUS
  <2>2. Bad \in SUBSET Nat
    OBVIOUS
  <2>3. PICK k \in Bad : \A x \in Nat : x < k => x \notin Bad
    <3> HIDE DEF Bad
    <3>1. QED
      BY <2>1, <2>2, NatMin
  <2>4. k \in i..n /\ ~Ahead(k)
    BY <2>3
  <2>5. Ahead(i)
    BY <1>4, <1>7
  <2>6. k # i
    BY <2>4, <2>5
  <2>7. k - 1 \in i..n /\ k - 1 \in Nat /\ k - 1 < k /\ k \in 1..n /\ k - 1 \in 0..n
    BY <1>7, <2>4, <2>6
  <2>8. Ahead(k - 1)
    BY <2>3, <2>7
  <2>9. PICK s \in Seq(S), e \in Seq(S) : s = f[k - 1] /\ e = Elements(vs[k])
    BY <1>1, <1>4, <2>7
  <2>10. f[k] = s \o e
    BY <1>3, <2>7, <2>9
  <2>11. /\ Len(s) \in Nat /\ Len(e) \in Nat /\ Len(s \o e) = Len(s) + Len(e)
         /\ \A x \in 1..Len(s) : (s \o e)[x] = s[x]
    BY ConcatProperties, LenProperties
  <2>12. Len(f[i]) \in Nat
    BY <1>4, <1>7
  <2>13. Ahead(k)
    <3>1. Len(f[i]) <= Len(s) /\ \A x \in 1..Len(f[i]) : s[x] = f[i][x]
      BY <2>8, <2>9
    <3>2. Len(f[i]) <= Len(s \o e)
      BY <2>11, <2>12, <3>1
    <3>3. \A x \in 1..Len(f[i]) : x \in 1..Len(s)
      BY <2>11, <2>12, <3>1
    <3>4. \A x \in 1..Len(f[i]) : (s \o e)[x] = f[i][x]
      BY <2>11, <3>1, <3>3
    <3>5. QED
      BY <2>10, <3>2, <3>4
  <2>14. QED
    BY <2>4, <2>13
<1>12. Ahead(n)
  <2>1. n \in i..n
    BY <1>7
  <2> HIDE DEF Ahead
  <2>2. QED
    BY <1>11, <2>1
<1>13. QED
  <2>1. Len(f[i]) \in Nat /\ Len(f[n]) \in Nat /\ Len(f[i - 1]) \in Nat
    BY <1>1, <1>4, <1>7
  <2>2. Before(vs, i) + Len(E) = Len(f[i])
    BY <1>8, <1>10
  <2>3. ASSUME NEW m \in 1..Len(E)
        PROVE  Flatten(vs)[Before(vs, i) + m] = E[m]
    <3>1. Before(vs, i) + m \in 1..Len(f[i])
      BY <1>6, <1>8, <2>1, <2>2
    <3>2. f[n][Before(vs, i) + m] = f[i][Before(vs, i) + m]
      BY <1>12, <3>1
    <3>3. QED
      BY <1>5, <1>8, <1>10, <3>2
  <2>4. QED
    BY <1>5, <1>6, <1>8, <1>12, <2>2, <2>3 DEF E

-----------------------------------------------------------------------------
(***************************************************************************)
(* Failures.  A batch takes nil for the value of a failed entry; who       *)
(* published the entry holds the error and takes it to the root.           *)
(***************************************************************************)
ErrorsOwned ==
  \A k \in Keys : entries[k].state = "ready" /\ entries[k].out.err # "none" => Failed

LEMMA FailedStays ==
  ASSUME NodeTypeOK, Control, GoesOn, Failed
  PROVE  Failed'
<1>1. ASSUME NEW c \in Calls, pc[c] = "returned" PROVE pc'[c] = "returned" /\ result'[c] = result[c]
  BY <1>1, ReturnedStays
<1>2. ASSUME NEW d \in Batches, NEW j \in DOMAIN chunk[d], chunk[d][j].err # "none"
      PROVE  j \in DOMAIN chunk'[d] /\ chunk'[d][j].err = chunk[d][j].err
  BY <1>2, ChunkErrorsStay DEF GoesOn, batchVars
<1>3. ASSUME NEW c \in Calls, pc[c] = "returned" /\ result[c].err # "none" PROVE Failed'
  BY <1>1, <1>3 DEF Failed
<1>4. ASSUME NEW b \in Batches, NEW j \in DOMAIN chunk[b], chunk[b][j].err # "none" PROVE Failed'
  BY <1>2, <1>4 DEF Failed
<1>5. QED
  BY <1>3, <1>4 DEF Failed

(* A cache operation publishes no error that has no owner.                 *)
LEMMA EntriesStayOwned ==
  ASSUME entries \in [Keys -> Entry], ErrorsOwned, Failed => Failed', NEW k \in Keys, NEW o,
         \/ entries' = entries
         \/ entries[k].state = "absent" /\ entries' = Reserve(entries, k)
         \/ entries' = Complete(entries, k, o) /\ (o.err # "none" => Failed')
  PROVE  ErrorsOwned'
<1> SUFFICES ASSUME NEW h \in Keys, entries'[h].state = "ready", entries'[h].out.err # "none"
             PROVE  Failed'
  BY DEF ErrorsOwned
<1>1. CASE entries'[h] = entries[h]
  BY <1>1 DEF ErrorsOwned
<1>2. CASE entries[k].state = "absent" /\ entries' = Reserve(entries, k)
  <2>1. h = k => entries'[h].state = "pending"
    BY <1>2 DEF Reserve, Entry
  <2>2. h # k => entries'[h] = entries[h]
    BY <1>2 DEF Reserve
  <2>3. QED
    BY <1>1, <2>1, <2>2
<1>3. CASE entries' = Complete(entries, k, o) /\ (o.err # "none" => Failed')
  <2>1. entries'[h] = entries[h] \/ entries'[h].out = o
    BY <1>3 DEF Complete, Entry
  <2>2. QED
    BY <1>1, <1>3, <2>1
<1>4. QED
  BY <1>1, <1>2, <1>3

LEMMA ErrorsStayOwned ==
  ASSUME NodeTypeOK, Control, ErrorsOwned, GoesOn
  PROVE  ErrorsOwned'
<1>a. entries \in [Keys -> Entry] /\ (Failed => Failed')
  BY FailedStays DEF NodeTypeOK
<1>b. entries' = entries => ErrorsOwned'
  BY <1>a DEF ErrorsOwned
<1>1. ASSUME NEW c \in Calls, CallStep(c), UNCHANGED batchVars PROVE ErrorsOwned'
  <2>1. KeyOf(c) \in Keys
    BY KeyTyped
  <2>2. CASE EnterMiss(c)
    BY <1>a, <2>1, <2>2, EntriesStayOwned DEF EnterMiss, MissOwner
  <2>3. CASE CompleteEntry(c)
    <3>1. /\ entries' = Complete(entries, KeyOf(c), result[c])
          /\ pc'[c] = "returned" /\ result'[c] = result[c]
      BY <2>3 DEF CompleteEntry, Return, GoTo, NodeTypeOK
    <3>2. result[c].err # "none" => Failed'
      BY <3>1 DEF Failed
    <3>3. QED
      BY <1>a, <2>1, <3>1, <3>2, EntriesStayOwned
  <2>4. QED
    BY <1>1, <1>b, <2>2, <2>3 DEF CallStep, Enter, EnterUnknown, EnterUncached, EnterHit,
       EnterWait, AcquireGate, ResolverReturns, WaitReady, WaitCancelled
<1>2. ASSUME NEW b \in Batches, BatchMove(b) PROVE ErrorsOwned'
  <2>a. BatchesTyped /\ Fits(b, batch[b], chunk[b])
    BY DEF Control
  <2>1. CASE ClassifyMiss(b)
    <3>1. ItemKey(b, batch[b].next) \in Keys
      <4>1. batch[b].next \in 1..Len(batch[b].items)
        BY <2>a, <2>1 DEF ClassifyMiss, Classify, BatchAt, Fits, SortingFits
      <4>2. QED
        BY <2>a, <4>1, ItemKeyTyped
    <3>2. QED
      BY <1>a, <2>1, <3>1, EntriesStayOwned DEF ClassifyMiss, MissOwner
  <2>2. ASSUME NEW j \in DOMAIN chunk[b], ChunkPublishes(b, j) PROVE ErrorsOwned'
    <3>1. PICK i, o : i = PublishedItem(b, j) /\ o = PublishedOutcome(b, j)
      OBVIOUS
    <3>2. entries' = entries \/ entries' = Complete(entries, ItemKey(b, i), o)
      BY <2>2, <3>1 DEF ChunkPublishes, PublishedItem, PublishedOutcome
    <3>3. ItemKey(b, i) \in Keys
      BY <2>2, <3>1, ChunkFacts, PublishedTyped DEF ChunkPublishes, ChunkAt
    <3>4. o.err = chunk[b][j].err
      BY <3>1 DEF PublishedOutcome, Outcome
    <3>5. o.err # "none" => Failed'
      BY <1>a, <3>4 DEF Failed
    <3>6. QED
      BY <1>a, <3>2, <3>3, <3>5, EntriesStayOwned
  <2>3. QED
    BY <1>2, <1>b, <2>1, <2>2 DEF BatchMove, InvokeBatch, BatchStep, ClassifyItem,
       ClassifyUncached, ClassifyHit, ClassifyPending, LaunchChunk, ChunkStep, ChunkAcquiresGate,
       ChunkReturns, ChunkFails, JoinChunks, AwaitReady, AwaitCancelled, ReturnBatch, nodeVars
<1>3. ASSUME Outside PROVE ErrorsOwned'
  BY <1>3, <1>b DEF Outside, Invoke, Cancel, nodeVars
<1>4. QED
  BY <1>1, <1>2, <1>3 DEF GoesOn

-----------------------------------------------------------------------------
(***************************************************************************)
(* What a job was given, and what each scope has handed out so far.        *)
(***************************************************************************)
GivenTo(j) == IF IsBatch(j) THEN batch[j].items ELSE parent[j]

(* What has been given, resolved or returned stays.                        *)
Settled ==
  /\ \A j \in Jobs : Busy(j) => Busy(j)' /\ GivenTo(j)' = GivenTo(j)
  /\ \A c \in Calls : pc[c] = "returned" => result'[c] = result[c]
  /\ \A b \in Batches : batch[b].pc = "returned" => batch'[b] = batch[b]
  /\ \A s \in Scopes : ret[s].done => ret'[s] = ret[s]

LEMMA CallsSettle ==
  ASSUME NodeTypeOK, Control, GoesOn, NEW c \in Calls, pc[c] # "idle"
  PROVE  pc'[c] # "idle" /\ parent'[c] = parent[c]
<1>1. ASSUME NEW d \in Calls, CallStep(d) PROVE pc'[c] # "idle" /\ parent'[c] = parent[c]
  <2>1. parent' = parent
    BY <1>1 DEF CallStep, Enter, EnterUnknown, EnterUncached, EnterHit, EnterWait, EnterMiss,
       AcquireGate, ResolverReturns, CompleteEntry, WaitReady, WaitCancelled
  <2>2. pc'[c] # "idle"
    BY <1>1, CallKeeps
  <2>3. QED
    BY <2>1, <2>2
<1>2. ASSUME Outside PROVE pc'[c] # "idle" /\ parent'[c] = parent[c]
  BY <1>2 DEF Outside, Invoke, Cancel, nodeVars, GoTo, At, NodeTypeOK
<1>3. ASSUME NEW b \in Batches, BatchMove(b) PROVE UNCHANGED <<pc, parent>>
  BY <1>3, BatchKeeps DEF BatchMove, InvokeBatch
<1>4. QED
  BY <1>1, <1>2, <1>3 DEF GoesOn

LEMMA BatchesSettle ==
  ASSUME NodeTypeOK, Control, GoesOn, NEW b \in Batches, batch[b].pc # "idle"
  PROVE  /\ batch'[b].pc # "idle" /\ batch'[b].items = batch[b].items
         /\ batch[b].pc = "returned" => batch'[b] = batch[b]
<1>1. ASSUME NEW d \in Batches, BatchStep(d)
      PROVE  /\ batch'[b].pc # "idle" /\ batch'[b].items = batch[b].items
             /\ batch[b].pc = "returned" => batch'[b] = batch[b]
  <2>1. CASE d = b
    BY <1>1, <2>1, BatchKeeps
  <2>2. CASE d # b
    <3>1. batch'[b] = batch[b]
      BY <1>1, <2>2, BatchKeeps
    <3>2. QED
      BY <3>1
  <2>3. QED
    BY <2>1, <2>2
<1>2. ASSUME NEW d \in Batches, NEW items \in Seq(Parents), NEW x \in SUBSET Ctxs,
             InvokeBatch(d, items, x)
      PROVE  batch'[b] = batch[b]
  <2>1. d # b
    BY <1>2 DEF InvokeBatch, BatchAt
  <2>2. QED
    BY <1>2, <2>1, InvokeEffect DEF Control, BatchBecomes
<1>3. ASSUME UNCHANGED batchVars PROVE batch'[b] = batch[b]
  BY <1>3 DEF batchVars
<1>4. QED
  BY <1>1, <1>2, <1>3 DEF GoesOn, BatchMove

LEMMA RetsSettle ==
  ASSUME Nested, ExecNext, NEW s \in Scopes, ret[s].done
  PROVE  ret'[s] = ret[s]
<1>a. ScopesTyped /\ DOMAIN ret = Scopes /\ ~scope[s].open
  BY DEF Nested, ScopesTyped, RetFits
<1>1. ASSUME NEW t \in Scopes, scope[t].open, NEW o, Close(t, o) PROVE ret'[s] = ret[s]
  <2>1. t # s
    BY <1>a, <1>1
  <2>2. QED
    BY <1>a, <1>1, <2>1 DEF Close
<1>2. ASSUME NEW t \in Scopes, EndStage(t) PROVE ret'[s] = ret[s]
  <2>1. scope[t].open
    BY <1>2 DEF EndStage, StageSucceeded, InMode
  <2>2. QED
    BY <1>1, <1>2, <2>1 DEF EndStage
<1>3. ASSUME NEW t \in Scopes, FailStage(t) PROVE ret'[s] = ret[s]
  <2>1. scope[t].open
    BY <1>3 DEF FailStage, StageErrors, InMode
  <2>2. QED
    BY <1>1, <1>3, <2>1 DEF FailStage
<1>4. ASSUME NEW c \in Calls, Dispatch(c) PROVE ret'[s] = ret[s]
  <2>1. ~ret[c].done
    BY <1>4 DEF Dispatch
  <2>2. c # s
    BY <2>1
  <2>3. QED
    BY <1>4, <1>a, <2>2 DEF Dispatch
<1>5. ASSUME NEW b \in Batches, DispatchBatch(b) PROVE ret'[s] = ret[s]
  <2>1. ~ret[b].done
    BY <1>5 DEF DispatchBatch
  <2>2. b # s
    BY <2>1
  <2>3. QED
    BY <1>5, <1>a, <2>2 DEF DispatchBatch
<1>6. QED
  BY <1>2, <1>3, <1>4, <1>5
  DEF ExecNext, Progress, ScopeStep, StartSequentialJob, StartParallelJob, StartJob,
      ParallelJobFails, StartBatch, CancelRequest, Responded, execVars

LEMMA ExecSettles ==
  ASSUME Executing, ExecNext
  PROVE  Settled
<1>a. NodeTypeOK /\ Control /\ Nested /\ GoesOn
  BY ExecGoesOn DEF Executing, TypedBatches, Control
<1>1. ASSUME NEW j \in Jobs, Busy(j) PROVE Busy(j)' /\ GivenTo(j)' = GivenTo(j)
  <2>1. CASE j \in Calls
    BY <1>1, <1>a, <2>1, Kinds, CallsSettle DEF Busy, GivenTo
  <2>2. CASE j \in Batches
    BY <1>1, <1>a, <2>2, Kinds, BatchesSettle DEF Busy, GivenTo
  <2>3. QED
    BY <2>1, <2>2 DEF Jobs
<1>2. \A c \in Calls : pc[c] = "returned" => result'[c] = result[c]
  BY <1>a, ReturnedStays
<1>3. \A b \in Batches : batch[b].pc = "returned" => batch'[b] = batch[b]
  BY <1>a, BatchesSettle
<1>4. \A s \in Scopes : ret[s].done => ret'[s] = ret[s]
  BY <1>a, RetsSettle
<1>5. QED
  BY <1>1, <1>2, <1>3, <1>4 DEF Settled

(* The i-th job of stage k, and its share of the scope's items: all of     *)
(* them for a batch, its own for a call below a list, the object itself    *)
(* for a field of an object.                                               *)
JobAt(s, k, i) == IF Mode(s, k) = "batch" THEN StageBatch(s, k) ELSE Job(s, k, i)

ShareAt(s, k, i, items) ==
  IF Mode(s, k) = "batch" THEN items ELSE IF IsList(s) THEN items[i] ELSE items[1]

JobsAt(s, k, items) ==
  IF Mode(s, k) = "batch" THEN 1 ELSE IF IsList(s) THEN Len(items) ELSE Len(Children(s))

Handed(j, x) == j \in Jobs /\ Busy(j) /\ GivenTo(j) = x

HandedOut(s, k, items, n) ==
  \A i \in 1..n : Handed(JobAt(s, k, i), ShareAt(s, k, i, items))

StageDone(s, k, items) ==
  /\ HandedOut(s, k, items, JobsAt(s, k, items))
  /\ \A i \in 1..JobsAt(s, k, items) : ret[JobAt(s, k, i)].done /\ ret[JobAt(s, k, i)].err = "none"

(* Where the items of a scope come from.                                   *)
Source(s, items) ==
  IF s = Root THEN items = <<Nil>>
  ELSE IF IsBatch(s) THEN batch[s].err = "none" /\ items = Flatten(batch[s].out)
  ELSE /\ result[s].err = "none" /\ result[s].val # Nil
       /\ items = IF Field[s[2]].isList THEN result[s].val ELSE <<result[s].val>>

ScopeTells(s) ==
  scope[s].open =>
    /\ Source(s, scope[s].items)
    /\ HandedOut(s, Stage(s), scope[s].items, scope[s].next - 1)
    /\ \A k \in 1..(Stage(s) - 1) : StageDone(s, k, scope[s].items)

(* What the resolvers define a job to return, and the root.                *)
TruthOn(j, x) ==
  IF IsBatch(j) THEN [i \in DOMAIN x |-> Expected[j[2]][x[i]]] ELSE Expected[j[2]][x]

Truth(s) ==
  IF s = Root
  THEN [r \in ResponseKeys(Root) |-> Expected[Children(Root)[ChildNamed(Root, r)]][Nil]]
  ELSE TruthOn(s, GivenTo(s))

RetTells(s) == ret[s].done /\ ret[s].err = "none" => ret[s].val = Truth(s)

BatchesChosen == \A b \in Batches : Busy(b) => ChildOf[b] \in CanBatch

Telling == BatchesChosen /\ \A s \in Scopes : ScopeTells(s) /\ RetTells(s)

-----------------------------------------------------------------------------
(* What is told stays told.                                                *)
LEMMA SameJobs ==
  ASSUME plan' = plan, NEW s, NEW k
  PROVE  /\ \A i : JobAt(s, k, i)' = JobAt(s, k, i)
         /\ \A i, items : ShareAt(s, k, i, items)' = ShareAt(s, k, i, items)
         /\ \A items : JobsAt(s, k, items)' = JobsAt(s, k, items)
<1>1. Mode(s, k)' = Mode(s, k)
  BY SamePlan
<1>2. QED
  BY <1>1 DEF JobAt, ShareAt, JobsAt

LEMMA HandedStays ==
  ASSUME Settled, plan' = plan, NEW s, NEW k, NEW items, NEW n, HandedOut(s, k, items, n)
  PROVE  HandedOut(s, k, items, n)'
<1>1. ASSUME NEW i \in 1..n PROVE Handed(JobAt(s, k, i), ShareAt(s, k, i, items))'
  <2>1. PICK j, x : j = JobAt(s, k, i) /\ x = ShareAt(s, k, i, items)
    OBVIOUS
  <2>2. JobAt(s, k, i)' = j /\ ShareAt(s, k, i, items)' = x
    BY <2>1, SameJobs
  <2>3. Handed(j, x)
    BY <2>1 DEF HandedOut
  <2>4. Busy(j)' /\ GivenTo(j)' = x /\ j \in Jobs
    BY <2>3 DEF Handed, Settled
  <2>5. Handed(j, x)'
    BY <2>4 DEF Handed
  <2>6. QED
    BY <2>2, <2>5
<1>2. QED
  BY <1>1 DEF HandedOut

LEMMA StageDoneStays ==
  ASSUME Settled, plan' = plan, NEW s, NEW k, NEW items, StageDone(s, k, items)
  PROVE  StageDone(s, k, items)'
<1>1. PICK n : n = JobsAt(s, k, items)
  OBVIOUS
<1>2. JobsAt(s, k, items)' = n
  BY <1>1, SameJobs
<1>3. HandedOut(s, k, items, n)
  BY <1>1 DEF StageDone
<1>4. HandedOut(s, k, items, n)'
  BY <1>3, HandedStays
<1>5. ASSUME NEW i \in 1..n
      PROVE  /\ ret'[JobAt(s, k, i)'].done /\ ret'[JobAt(s, k, i)'].err = "none"
  <2>1. PICK j : j = JobAt(s, k, i)
    OBVIOUS
  <2>2. JobAt(s, k, i)' = j
    BY <2>1, SameJobs
  <2>3. ret[j].done /\ ret[j].err = "none"
    BY <1>1, <1>5, <2>1 DEF StageDone
  <2>4. j \in Scopes
    BY <1>3, <1>5, <2>1 DEF HandedOut, Handed, Jobs, Scopes
  <2>5. ret'[j] = ret[j]
    BY <2>3, <2>4 DEF Settled
  <2>6. QED
    BY <2>2, <2>3, <2>5
<1>6. QED
  BY <1>2, <1>4, <1>5 DEF StageDone

LEMMA SourceStays ==
  ASSUME Nested, Settled, NEW s \in Scopes, scope[s].open, NEW items, Source(s, items)
  PROVE  Source(s, items)'
<1>1. s # Root => Resolved(s)
  BY DEF Nested, RetFits
<1>2. CASE s = Root
  BY <1>2 DEF Source
<1>3. CASE s \in Calls
  <2>1. result'[s] = result[s] /\ ~IsBatch(s) /\ s # Root
    BY <1>1, <1>3, Kinds DEF Settled, Resolved
  <2>2. QED
    BY <2>1 DEF Source
<1>4. CASE s \in Batches
  <2>1. batch'[s] = batch[s] /\ IsBatch(s) /\ s # Root
    BY <1>1, <1>4, Kinds DEF Settled, Resolved
  <2>2. QED
    BY <2>1 DEF Source
<1>5. QED
  BY <1>2, <1>3, <1>4 DEF Scopes

LEMMA TruthStays ==
  ASSUME Settled, NEW s, s = Root \/ (s \in Jobs /\ Busy(s))
  PROVE  Truth(s)' = Truth(s)
<1>1. s # Root => GivenTo(s)' = GivenTo(s)
  BY DEF Settled
<1>2. QED
  BY <1>1 DEF Truth, TruthOn

LEMMA RetTellsStays ==
  ASSUME Nested, Settled, NEW s \in Scopes, ret'[s] = ret[s], RetTells(s)
  PROVE  RetTells(s)'
<1>1. SUFFICES ASSUME ret[s].done, ret[s].err = "none" PROVE ret[s].val = Truth(s)'
  BY DEF RetTells
<1>2. ret[s].val = Truth(s)
  BY <1>1 DEF RetTells
<1>3. s # Root => s \in Jobs /\ Resolved(s)
  BY <1>1 DEF Nested, RetFits, Scopes, Jobs
<1>4. s # Root => Busy(s)
  BY <1>3 DEF Resolved, Busy
<1>5. QED
  BY <1>2, <1>3, <1>4, TruthStays

LEMMA ScopeTellsStays ==
  ASSUME Nested, Settled, plan' = plan, NEW s \in Scopes, scope'[s] = scope[s], ScopeTells(s)
  PROVE  ScopeTells(s)'
<1>1. SUFFICES ASSUME scope[s].open
               PROVE  /\ Source(s, scope[s].items)'
                      /\ HandedOut(s, Stage(s), scope[s].items, scope[s].next - 1)'
                      /\ \A k \in 1..(Stage(s) - 1)' : StageDone(s, k, scope[s].items)'
  BY DEF ScopeTells
<1>2. PICK k, items, n : k = Stage(s) /\ items = scope[s].items /\ n = scope[s].next - 1
  OBVIOUS
<1>3. Stage(s)' = k /\ scope'[s].items = items /\ scope'[s].next - 1 = n
  BY <1>2 DEF Stage
<1>4. Source(s, items)'
  BY <1>1, <1>2, SourceStays DEF ScopeTells
<1>5. HandedOut(s, k, items, n)
  BY <1>1, <1>2 DEF ScopeTells
<1>6. HandedOut(s, k, items, n)'
  BY <1>5, HandedStays
<1>7. ASSUME NEW h \in 1..(k - 1) PROVE StageDone(s, h, items)'
  <2>1. StageDone(s, h, items)
    BY <1>1, <1>2, <1>7 DEF ScopeTells
  <2>2. QED
    BY <2>1, StageDoneStays
<1>8. QED
  BY <1>3, <1>4, <1>6, <1>7

(* A step of one scope.                                                    *)
LEMMA MoveTells ==
  ASSUME Nested, Settled, plan' = plan, Telling, NEW s \in Scopes,
         \A t \in Scopes : t # s => scope'[t] = scope[t] /\ ret'[t] = ret[t],
         ScopeTells(s)', RetTells(s)', BatchesChosen'
  PROVE  Telling'
<1>1. ASSUME NEW t \in Scopes PROVE ScopeTells(t)' /\ RetTells(t)'
  <2>1. CASE t = s
    BY <2>1
  <2>2. CASE t # s
    BY <2>2, ScopeTellsStays, RetTellsStays DEF Telling
  <2>3. QED
    BY <2>1, <2>2
<1>2. QED
  BY <1>1 DEF Telling

LEMMA StillTells ==
  ASSUME Nested, Settled, plan' = plan, Telling, UNCHANGED <<scope, ret>>, BatchesChosen'
  PROVE  Telling'
BY ScopeTellsStays, RetTellsStays DEF Telling

(* Only a list that starts a batch makes one busy.                         *)
LEMMA ChosenStays ==
  ASSUME NodeTypeOK, Control, BatchesChosen,
         \/ batch' = batch
         \/ \E b \in Batches : BatchStep(b)
  PROVE  BatchesChosen'
<1>1. ASSUME NEW b \in Batches, BatchStep(b), NEW d \in Batches, Busy(d)' PROVE Busy(d)
  BY <1>1, Kinds, BatchKeeps DEF Busy
<1>2. ASSUME batch' = batch, NEW d \in Batches, Busy(d)' PROVE Busy(d)
  BY <1>2, Kinds DEF Busy
<1>3. QED
  BY <1>1, <1>2 DEF BatchesChosen

-----------------------------------------------------------------------------
(***************************************************************************)
(* The steps of a scope.                                                   *)
(***************************************************************************)

(* A scope that goes on in its stage, having handed out n jobs of it.      *)
LEMMA GoesOnTelling ==
  ASSUME Nested, Settled, plan' = plan, Telling, NEW s \in Scopes, scope[s].open,
         NEW l \in ScopeLocals, scope'[s] = l, l.items = scope[s].items, l.stage = scope[s].stage,
         \A i \in 1..(l.next - 1) :
           \/ i \in 1..(scope[s].next - 1)
           \/ Handed(JobAt(s, Stage(s), i), ShareAt(s, Stage(s), i, scope[s].items))'
  PROVE  ScopeTells(s)'
<1>1. PICK k, items : k = Stage(s) /\ items = scope[s].items
  OBVIOUS
<1>2. Stage(s)' = k /\ scope'[s].items = items
  BY <1>1 DEF Stage
<1>3. Source(s, items)'
  BY <1>1, SourceStays DEF Telling, ScopeTells
<1>4. HandedOut(s, k, items, scope[s].next - 1)
  BY <1>1 DEF Telling, ScopeTells
<1>5. HandedOut(s, k, items, l.next - 1)'
  <2>1. PICK n, m : n = scope[s].next - 1 /\ m = l.next - 1
    OBVIOUS
  <2>2. HandedOut(s, k, items, n)'
    BY <1>4, <2>1, HandedStays
  <2>3. \A i \in 1..m : Handed(JobAt(s, k, i), ShareAt(s, k, i, items))'
    BY <1>1, <1>2, <2>1, <2>2 DEF HandedOut
  <2>4. QED
    BY <2>1, <2>3 DEF HandedOut
<1>6. ASSUME NEW h \in 1..(k - 1) PROVE StageDone(s, h, items)'
  <2>1. StageDone(s, h, items)
    BY <1>1, <1>6 DEF Telling, ScopeTells
  <2>2. QED
    BY <2>1, StageDoneStays
<1>7. QED
  BY <1>2, <1>3, <1>5, <1>6 DEF ScopeTells

LEMMA StartTells ==
  ASSUME Executing, Settled, plan' = plan, Telling, NEW s \in Scopes,
         StartSequentialJob(s) \/ StartParallelJob(s)
  PROVE  Telling'
<1>a. /\ Nested /\ ScopesTyped /\ NodeTypeOK /\ Control
      /\ scope[s] \in ScopeLocals
  BY DEF Executing, Nested, ScopesTyped, TypedBatches, Control
<1>1. PICK x : StartJob(s, x)
  BY DEF StartSequentialJob, StartParallelJob
<1>2. scope[s].open /\ Mode(s, Stage(s)) # "batch"
  BY DEF StartSequentialJob, StartParallelJob, InMode
<1>3. PICK l \in ScopeLocals :
        /\ ScopeBecomes(s, l) /\ ret' = ret
        /\ l.open = scope[s].open /\ l.items = scope[s].items /\ l.stage = scope[s].stage
        /\ l.next = scope[s].next + 1
  BY <1>a, <1>1, StartEffect
<1>4. PICK n \in Nat \ {0} : n = scope[s].next
  BY <1>a DEF ScopeLocals
<1>5. PICK j, item : /\ j = Job(s, Stage(s), n)
                     /\ item = IF IsList(s) THEN scope[s].items[n] ELSE scope[s].items[1]
  OBVIOUS
<1>6. j \in Calls /\ Invoke(j, item, x) /\ batch' = batch
  BY <1>1, <1>4, <1>5 DEF StartJob, batchVars
<1>7. Handed(j, item)'
  <2>1. pc'[j] = "enter" /\ parent'[j] = item
    BY <1>a, <1>6 DEF Invoke, GoTo, NodeTypeOK
  <2>2. j \in Jobs /\ ~IsBatch(j)
    BY <1>6, Kinds
  <2>3. QED
    BY <2>1, <2>2 DEF Handed, Busy, GivenTo
<1>8. JobAt(s, Stage(s), n) = j /\ ShareAt(s, Stage(s), n, scope[s].items) = item
  BY <1>2, <1>5 DEF JobAt, ShareAt
<1>9. Handed(JobAt(s, Stage(s), n), ShareAt(s, Stage(s), n, scope[s].items))'
  <2>1. PICK k, items : k = Stage(s) /\ items = scope[s].items
    OBVIOUS
  <2>2. JobAt(s, k, n)' = j /\ ShareAt(s, k, n, items)' = item
    BY <1>8, <2>1, SameJobs
  <2>3. Stage(s)' = k /\ scope'[s].items = items
    BY <1>3, <2>1 DEF Stage, ScopeBecomes
  <2>4. QED
    BY <1>7, <2>2, <2>3
<1>10. \A i \in 1..(l.next - 1) : i \in 1..(scope[s].next - 1) \/ i = n
  BY <1>3, <1>4
<1>11. ScopeTells(s)'
  BY <1>a, <1>2, <1>3, <1>9, <1>10, GoesOnTelling DEF ScopeBecomes
<1>12. RetTells(s)' /\ BatchesChosen'
  BY <1>a, <1>3, <1>6, RetTellsStays, ChosenStays DEF Telling
<1>13. QED
  BY <1>a, <1>3, <1>11, <1>12, MoveTells DEF ScopeBecomes

LEMMA StartBatchTells ==
  ASSUME Executing, Settled, plan' = plan, Telling, NEW s \in Scopes, StartBatch(s)
  PROVE  Telling'
<1>a. /\ Nested /\ ScopesTyped /\ NodeTypeOK /\ Control /\ BatchesTyped
      /\ scope[s] \in ScopeLocals
  BY DEF Executing, Nested, ScopesTyped, TypedBatches, Control
<1>1. scope[s].open /\ Mode(s, Stage(s)) = "batch"
  BY DEF StartBatch, InMode
<1>2. PICK l \in ScopeLocals :
        /\ ScopeBecomes(s, l) /\ ret' = ret
        /\ l.open = scope[s].open /\ l.items = scope[s].items /\ l.stage = scope[s].stage
        /\ l.next = 2
  BY <1>a, StartBatchEffect
<1>3. PICK b, items : b = StageBatch(s, Stage(s)) /\ items = scope[s].items
  OBVIOUS
<1>4. b \in Batches /\ InvokeBatch(b, items, ScopeCtx(s)) /\ items \in Seq(Parents)
  BY <1>a, <1>3 DEF StartBatch, ScopeLocals
<1>5. PICK q \in BatchLocals :
        /\ BatchBecomes(b, q) /\ q.items = items
        /\ q.pc = IF items = <<>> THEN "returned" ELSE "classify"
  BY <1>a, <1>4, ScopeCtxTyped, InvokeEffect
<1>6. Handed(b, items)'
  <2>1. b \in Jobs /\ IsBatch(b)
    BY <1>4, Kinds
  <2>2. batch'[b].pc # "idle" /\ batch'[b].items = items
    BY <1>5 DEF BatchBecomes
  <2>3. QED
    BY <2>1, <2>2 DEF Handed, Busy, GivenTo
<1>7. ASSUME NEW i \in 1..(l.next - 1)
      PROVE  Handed(JobAt(s, Stage(s), i), ShareAt(s, Stage(s), i, scope[s].items))'
  <2>1. PICK k : k = Stage(s)
    OBVIOUS
  <2>2. JobAt(s, k, i) = b /\ ShareAt(s, k, i, items) = items
    BY <1>1, <1>3, <2>1 DEF JobAt, ShareAt
  <2>3. JobAt(s, k, i)' = b /\ ShareAt(s, k, i, items)' = items
    BY <2>2, SameJobs
  <2>4. Stage(s)' = k /\ scope'[s].items = items
    BY <1>2, <1>3, <2>1 DEF Stage, ScopeBecomes
  <2>5. QED
    BY <1>6, <2>3, <2>4
<1>8. ScopeTells(s)'
  BY <1>a, <1>1, <1>2, <1>7, GoesOnTelling DEF ScopeBecomes
<1>9. RetTells(s)'
  BY <1>a, <1>2, RetTellsStays DEF Telling
<1>10. ChildOf[b] \in CanBatch
  <2>1. ResolvesInBatches(Children(s)[Stage(s)])
    BY <1>1 DEF Mode
  <2>2. b[2] = Children(s)[Stage(s)] /\ b[2] = ChildOf[b]
    BY <1>3, <1>4, Kinds DEF StageBatch
  <2>3. QED
    BY <2>1, <2>2 DEF ResolvesInBatches
<1>11. BatchesChosen'
  <2>1. ASSUME NEW d \in Batches, Busy(d)', d # b PROVE Busy(d)
    BY <1>5, <2>1, Kinds DEF Busy, BatchBecomes
  <2>2. QED
    BY <1>10, <2>1 DEF Telling, BatchesChosen
<1>12. QED
  BY <1>a, <1>2, <1>8, <1>9, <1>11, MoveTells DEF ScopeBecomes

LEMMA JobFailsTells ==
  ASSUME Executing, Settled, plan' = plan, Telling, NEW s \in Scopes, ParallelJobFails(s)
  PROVE  Telling'
<1>a. /\ Nested /\ ScopesTyped /\ NodeTypeOK /\ Control
  BY DEF Executing, Nested, TypedBatches, Control
<1>1. scope[s].open /\ Mode(s, scope[s].stage) # "batch" /\ batch' = batch
  BY DEF ParallelJobFails, InMode, Stage, batchVars
<1>2. \A i \in 1..(scope[s].next - 1) : JobReturned(s, i).err \in Errors
  BY <1>a, <1>1, JobErrorsTyped
<1>3. PICK l \in ScopeLocals :
        /\ ScopeBecomes(s, l) /\ ret' = ret
        /\ l.open = scope[s].open /\ l.items = scope[s].items /\ l.stage = scope[s].stage
        /\ l.next = scope[s].next
  BY <1>a, <1>2, JobFailsEffect
<1>4. ScopeTells(s)'
  BY <1>a, <1>1, <1>3, GoesOnTelling DEF ScopeBecomes
<1>5. RetTells(s)' /\ BatchesChosen'
  BY <1>a, <1>1, <1>3, RetTellsStays, ChosenStays DEF Telling
<1>6. QED
  BY <1>a, <1>3, <1>4, <1>5, MoveTells DEF ScopeBecomes

(* A stage that has succeeded has handed out all its items, and all that   *)
(* it started has returned without error.                                  *)
LEMMA StageIsDone ==
  ASSUME Executing, Telling, NEW s \in Scopes, StageSucceeded(s)
  PROVE  StageDone(s, Stage(s), scope[s].items)
<1>a. /\ Nested /\ ScopesTyped /\ scope[s] \in ScopeLocals /\ scope[s].next \in Nat
  BY DEF Executing, Nested, ScopesTyped, ScopeLocals
<1>1. /\ scope[s].open
      /\ \A j \in StartedIn(s, scope[s]) : ret[j].done /\ ret[j].err = "none"
  BY <1>a, StageOver
<1>2. PICK k, items, n : k = Stage(s) /\ items = scope[s].items /\ n = JobsAt(s, k, items)
  OBVIOUS
<1>3. HandedOut(s, k, items, scope[s].next - 1)
  BY <1>1, <1>2 DEF Telling, ScopeTells
<1>4. ASSUME NEW i \in 1..n
      PROVE  i \in 1..(scope[s].next - 1) /\ JobAt(s, k, i) \in StartedIn(s, scope[s])
  <2>1. CASE Mode(s, k) = "batch"
    <3>1. n = 1 /\ scope[s].next = 2
      BY <1>2, <2>1 DEF JobsAt, StageSucceeded, InMode
    <3>2. i = 1 /\ i \in 1..(scope[s].next - 1)
      BY <1>4, <3>1
    <3>3. JobAt(s, k, i) \in StartedIn(s, scope[s])
      BY <1>2, <2>1, <3>1 DEF JobAt, StartedIn, Stage
    <3>4. QED
      BY <3>2, <3>3
  <2>2. CASE Mode(s, k) # "batch"
    <3>1. n = JobCount(s) /\ AllJobsStarted(s)
      BY <1>2, <2>2 DEF JobsAt, JobCount, StageSucceeded, InMode
    <3>2. n \in Nat
      BY <1>a, <3>1, ChildrenTyped, LenProperties DEF JobCount, ScopeLocals
    <3>3. i \in 1..(scope[s].next - 1)
      BY <1>a, <3>1, <3>2 DEF AllJobsStarted
    <3>4. JobAt(s, k, i) \in StartedIn(s, scope[s])
      BY <1>2, <2>2, <3>3 DEF JobAt, StartedIn, Stage
    <3>5. QED
      BY <3>3, <3>4
  <2>3. QED
    BY <2>1, <2>2
<1>5. HandedOut(s, k, items, n)
  BY <1>3, <1>4 DEF HandedOut
<1>6. QED
  BY <1>1, <1>2, <1>4, <1>5 DEF StageDone

LEMMA NextStageTells ==
  ASSUME Executing, Settled, plan' = plan, Telling, NEW s \in Scopes,
         EndStage(s), Stage(s) < StageCount(s)
  PROVE  Telling'
<1>a. /\ Nested /\ ScopesTyped /\ NodeTypeOK /\ Control /\ scope[s] \in ScopeLocals
      /\ scope[s].stage \in Nat
  BY DEF Executing, Nested, ScopesTyped, TypedBatches, Control, ScopeLocals
<1>1. /\ StageSucceeded(s) /\ ret' = ret /\ batch' = batch
      /\ scope' = [scope EXCEPT ![s] =
                     [Opened(scope[s].items) EXCEPT !.stage = scope[s].stage + 1]]
  BY DEF EndStage, allBatchVars, batchVars
<1>2. PICK l \in ScopeLocals :
        /\ ScopeBecomes(s, l) /\ l.open /\ l.items = scope[s].items
        /\ l.stage = scope[s].stage + 1 /\ l.next = 1
  BY <1>a, <1>1, NextStageEffect
<1>3. PICK k, items : k = scope[s].stage /\ items = scope[s].items
  OBVIOUS
<1>4. /\ scope'[s] = l /\ Stage(s)' = k + 1 /\ scope'[s].items = items
      /\ scope'[s].next - 1 = 0 /\ Stage(s) = k /\ k \in Nat
  BY <1>a, <1>2, <1>3 DEF ScopeBecomes, Stage
<1>5. scope[s].open
  BY <1>1 DEF StageSucceeded, InMode
<1>6. Source(s, items)'
  BY <1>a, <1>3, <1>5, SourceStays DEF Telling, ScopeTells
<1>7. HandedOut(s, k + 1, items, 0)'
  BY DEF HandedOut
<1>8. ASSUME NEW h \in 1..k PROVE StageDone(s, h, items)'
  <2>1. StageDone(s, h, items)
    <3>1. CASE h = k
      BY <1>1, <1>3, <1>4, <3>1, StageIsDone
    <3>2. CASE h # k
      <4>1. h \in 1..(k - 1)
        BY <1>4, <3>2
      <4>2. QED
        BY <1>3, <1>4, <1>5, <4>1 DEF Telling, ScopeTells
    <3>3. QED
      BY <3>1, <3>2
  <2>2. QED
    BY <2>1, StageDoneStays
<1>9. ScopeTells(s)'
  <2>1. \A h \in 1..((k + 1) - 1) : StageDone(s, h, items)'
    BY <1>4, <1>8
  <2>2. QED
    BY <1>4, <1>6, <1>7, <2>1 DEF ScopeTells
<1>10. RetTells(s)' /\ BatchesChosen'
  BY <1>a, <1>1, RetTellsStays, ChosenStays DEF Telling
<1>11. QED
  BY <1>a, <1>1, <1>2, <1>9, <1>10, MoveTells DEF ScopeBecomes

(* A scope that returns what is true, or an error.                         *)
LEMMA CloseTells ==
  ASSUME Nested, NodeTypeOK, Control, Settled, plan' = plan, batch' = batch, Telling,
         NEW s \in Scopes, s = Root \/ Busy(s), NEW o, Close(s, o),
         o.err = "none" => o.val = Truth(s)
  PROVE  Telling'
<1>1. PICK l \in ScopeLocals : ScopeBecomes(s, l) /\ RetBecomes(s, o) /\ ~l.open
  BY CloseEffect DEF Nested
<1>2. ScopeTells(s)'
  BY <1>1 DEF ScopeTells, ScopeBecomes
<1>3. Truth(s)' = Truth(s)
  BY TruthStays DEF Scopes, Jobs
<1>4. RetTells(s)'
  BY <1>1, <1>3 DEF RetTells, RetBecomes
<1>5. BatchesChosen'
  BY ChosenStays DEF Telling
<1>6. QED
  BY <1>1, <1>2, <1>4, <1>5, MoveTells DEF ScopeBecomes, RetBecomes

-----------------------------------------------------------------------------
(***************************************************************************)
(* What a scope assembles.                                                 *)
(***************************************************************************)
LEMMA HandedTells ==
  ASSUME Telling, NEW j, NEW x, Handed(j, x), ret[j].done, ret[j].err = "none"
  PROVE  ret[j].val = TruthOn(j, x)
<1>1. j \in Jobs /\ j \in Scopes /\ j # Root /\ GivenTo(j) = x
  BY Kinds DEF Handed, Jobs, Scopes
<1>2. ret[j].val = Truth(j)
  BY <1>1 DEF Telling, RetTells
<1>3. QED
  BY <1>1, <1>2 DEF Truth

LEMMA AllStagesDone ==
  ASSUME Executing, Telling, NEW s \in Scopes, StageSucceeded(s), ~(Stage(s) < StageCount(s)),
         NEW k \in 1..StageCount(s)
  PROVE  StageDone(s, k, scope[s].items)
<1>a. scope[s].stage \in Nat /\ StageCount(s) \in Nat /\ scope[s].open
  BY ChildrenTyped DEF Executing, Nested, ScopesTyped, ScopeLocals, StageSucceeded, InMode
<1>1. CASE k = Stage(s)
  BY <1>1, StageIsDone
<1>2. CASE k # Stage(s)
  <2>1. k \in 1..(Stage(s) - 1)
    BY <1>a, <1>2 DEF Stage
  <2>2. QED
    BY <1>a, <2>1 DEF Telling, ScopeTells
<1>3. QED
  BY <1>1, <1>2

(* An object whose fields are what the resolvers define on x.              *)
FieldsOn(s, x) == [r \in ResponseKeys(s) |-> Expected[Children(s)[ChildNamed(s, r)]][x]]

LEMMA FieldsAreObject ==
  ASSUME NEW s \in Jobs, NEW x
  PROVE  FieldsOn(s, x) = ObjectOn(Expected, s[2], x)
<1>1. Children(s) = Field[s[2]].children
  BY Kinds, ChildrenTyped DEF Jobs
<1>2. QED
  BY <1>1 DEF FieldsOn, ObjectOn, ResponseKeys, KeysBelow, ChildNamed, ChildByKey

LEMMA NamedChild ==
  ASSUME NEW s, NEW r \in ResponseKeys(s)
  PROVE  ChildNamed(s, r) \in DOMAIN Children(s)
<1>1. \E k \in DOMAIN Children(s) : Field[Children(s)[k]].responseKey = r
  BY DEF ResponseKeys
<1>2. QED
  BY <1>1 DEF ChildNamed

LEMMA ObjectTells ==
  ASSUME Executing, Telling, NEW s \in Scopes, StageSucceeded(s), ~IsList(s)
  PROVE  ObjectValue(s) = FieldsOn(s, scope[s].items[1])
<1>a. ScopeFits(s, scope[s]) /\ StageCount(s) = 1
  BY DEF Executing, Nested, StageCount
<1>1. Stage(s) = 1
  BY <1>a DEF ScopeFits, Larger, Stage
<1>2. StageDone(s, 1, scope[s].items)
  BY <1>1, StageIsDone
<1>3. PICK n \in Nat : n = Len(Children(s)) /\ DOMAIN Children(s) = 1..n
  BY ChildrenTyped, LenProperties
<1>4. ASSUME NEW c \in 1..n PROVE ret[Job(s, 1, c)].val = Expected[Children(s)[c]][scope[s].items[1]]
  <2>1. /\ JobAt(s, 1, c) = Job(s, 1, c) /\ ShareAt(s, 1, c, scope[s].items) = scope[s].items[1]
        /\ JobsAt(s, 1, scope[s].items) = n
    BY <1>3 DEF JobAt, ShareAt, JobsAt, Mode
  <2>2. PICK j, x : j = Job(s, 1, c) /\ x = scope[s].items[1]
    OBVIOUS
  <2>3. Handed(j, x) /\ ret[j].done /\ ret[j].err = "none"
    BY <1>2, <1>4, <2>1, <2>2 DEF StageDone, HandedOut
  <2>4. ret[j].val = TruthOn(j, x)
    BY <2>3, HandedTells
  <2>5. ~IsBatch(j) /\ j[2] = Children(s)[c]
    BY <2>2 DEF Job, IsBatch
  <2>6. QED
    BY <2>2, <2>4, <2>5 DEF TruthOn
<1>5. ASSUME NEW r \in ResponseKeys(s)
      PROVE  ret[Job(s, 1, ChildNamed(s, r))].val
               = Expected[Children(s)[ChildNamed(s, r)]][scope[s].items[1]]
  BY <1>3, <1>4, NamedChild
<1>6. QED
  BY <1>5 DEF ObjectValue, FieldsOn

LEMMA ListTells ==
  ASSUME Executing, Telling, NEW s \in Scopes, StageSucceeded(s), ~(Stage(s) < StageCount(s)),
         IsList(s)
  PROVE  ListValue(s) = [i \in DOMAIN scope[s].items |-> FieldsOn(s, scope[s].items[i])]
<1>1. PICK items \in Seq(Parents) : items = scope[s].items
  BY DEF Executing, Nested, ScopesTyped, ScopeLocals
<1>2. PICK n \in Nat : n = Len(items) /\ DOMAIN items = 1..n
  BY LenProperties
<1>3. DOMAIN Children(s) = 1..StageCount(s)
  BY ChildrenTyped, LenProperties DEF StageCount
<1>4. ASSUME NEW k \in 1..StageCount(s), NEW i \in 1..n
      PROVE  ItemChildValue(s, k, i) = Expected[Children(s)[k]][items[i]]
  <2>1. StageDone(s, k, items)
    BY <1>1, AllStagesDone
  <2>2. CASE Mode(s, k) = "batch"
    <3>1. PICK j : j = StageBatch(s, k)
      OBVIOUS
    <3>2. JobAt(s, k, 1) = j /\ ShareAt(s, k, 1, items) = items /\ JobsAt(s, k, items) = 1
      BY <2>2, <3>1 DEF JobAt, ShareAt, JobsAt
    <3>3. Handed(j, items) /\ ret[j].done /\ ret[j].err = "none"
      BY <2>1, <3>2 DEF StageDone, HandedOut
    <3>4. ret[j].val = TruthOn(j, items)
      BY <3>3, HandedTells
    <3>5. IsBatch(j) /\ j[2] = Children(s)[k]
      BY <3>1 DEF StageBatch, IsBatch
    <3>6. ret[j].val[i] = Expected[j[2]][items[i]]
      BY <1>2, <3>4, <3>5 DEF TruthOn
    <3>7. QED
      BY <2>2, <3>1, <3>5, <3>6 DEF ItemChildValue
  <2>3. CASE Mode(s, k) # "batch"
    <3>1. PICK j, x : j = Job(s, k, i) /\ x = items[i]
      OBVIOUS
    <3>2. JobAt(s, k, i) = j /\ ShareAt(s, k, i, items) = x /\ JobsAt(s, k, items) = n
      BY <1>2, <2>3, <3>1 DEF JobAt, ShareAt, JobsAt
    <3>3. Handed(j, x) /\ ret[j].done /\ ret[j].err = "none"
      BY <1>4, <2>1, <3>2 DEF StageDone, HandedOut
    <3>4. ret[j].val = TruthOn(j, x)
      BY <3>3, HandedTells
    <3>5. ~IsBatch(j) /\ j[2] = Children(s)[k]
      BY <3>1 DEF Job, IsBatch
    <3>6. QED
      BY <2>3, <3>1, <3>4, <3>5 DEF TruthOn, ItemChildValue
  <2>4. QED
    BY <2>2, <2>3
<1>5. ASSUME NEW i \in 1..n
      PROVE  [r \in ResponseKeys(s) |-> ItemChildValue(s, ChildNamed(s, r), i)]
               = FieldsOn(s, items[i])
  <2>1. \A r \in ResponseKeys(s) : ChildNamed(s, r) \in 1..StageCount(s)
    BY <1>3, NamedChild
  <2>2. \A r \in ResponseKeys(s) :
          ItemChildValue(s, ChildNamed(s, r), i) = Expected[Children(s)[ChildNamed(s, r)]][items[i]]
    BY <1>4, <2>1
  <2>3. QED
    BY <2>2 DEF FieldsOn
<1>6. QED
  BY <1>1, <1>2, <1>5 DEF ListValue

(* g on each element of a list.                                            *)
OnEach(g, list) == [x \in DOMAIN list |-> g[list[x]]]

(* The flat list, cut back into one group per value.                       *)
LEMMA RegroupTells ==
  ASSUME NEW vs \in Seq(Values), \A i \in 1..Len(vs) : Elements(vs[i]) \in Seq(Parents),
         NEW g, NEW flat, flat = OnEach(g, Flatten(vs)), NEW i \in 1..Len(vs)
  PROVE  Regroup(flat, vs)[i] = OnEach(g, Elements(vs[i]))
<1> DEFINE S == {g[x] : x \in Parents}
<1>1. PICK e \in Seq(Parents) : e = Elements(vs[i])
  OBVIOUS
<1>2. PICK all \in Seq(Parents) : all = Flatten(vs)
  BY LenProperties, FlattenTyped
<1>3. PICK before, len : before = Before(vs, i) /\ len = Len(e)
  OBVIOUS
<1>4. /\ before \in Nat /\ len \in Nat /\ before + len <= Len(all) /\ Len(all) \in Nat
      /\ \A m \in 1..len : all[before + m] = e[m]
  BY <1>1, <1>2, <1>3, FlattenPlaces, LenProperties
<1>5. DOMAIN all = 1..Len(all) /\ DOMAIN e = 1..len
  BY <1>3, LenProperties
<1>6. \A x \in 1..Len(all) : flat[x] = g[all[x]] /\ flat[x] \in S
  BY <1>2, <1>5, ElementOfSeq DEF OnEach
<1> DEFINE t == SubSeq(flat, before + 1, before + len)
<1>7. Regroup(flat, vs)[i] = t
  <2>1. i \in DOMAIN vs
    BY LenProperties
  <2>2. QED
    BY <1>1, <1>3, <2>1 DEF Regroup, Before
<1>8. t \in Seq(S) /\ Len(t) = len /\ \A m \in 1..len : t[m] = flat[before + m]
  <2>1. before + 1 \in Int /\ before + len \in Int
    BY <1>4
  <2>2. \A x \in (before + 1)..(before + len) : flat[x] \in S
    <3>1. \A x \in (before + 1)..(before + len) : x \in 1..Len(all)
      BY <1>4
    <3> HIDE DEF S
    <3>2. QED
      BY <1>6, <3>1
  <2>3. (before + len) - (before + 1) + 1 = len /\ (before + 1 <= before + len <=> len # 0)
    BY <1>4
  <2> HIDE DEF S
  <2>4. t \in Seq(S) /\ Len(t) = len
    BY <1>4, <2>1, <2>2, <2>3, SubSeqProperties
  <2>5. \A m \in 1..len : t[m] = flat[(before + 1) + m - 1]
    BY <1>4, <2>1, <2>2, <2>3, SubSeqProperties
  <2>6. \A m \in 1..len : (before + 1) + m - 1 = before + m
    BY <1>4
  <2>7. QED
    BY <2>4, <2>5, <2>6
<1>9. \A m \in 1..len : t[m] = g[e[m]]
  <2>1. ASSUME NEW m \in 1..len PROVE before + m \in 1..Len(all)
    BY <1>4
  <2>2. QED
    BY <1>4, <1>6, <1>8, <2>1
<1> HIDE DEF t, S
<1>10. t = [m \in 1..len |-> t[m]]
  BY <1>8, LenProperties
<1>11. t = [m \in 1..len |-> g[e[m]]]
  BY <1>9, <1>10
<1>12. QED
  BY <1>1, <1>5, <1>7, <1>11 DEF OnEach

-----------------------------------------------------------------------------
(***************************************************************************)
(* What calls and batches were answered.                                   *)
(***************************************************************************)
LEMMA OneAnswer ==
  ASSUME SoundAnswers, NEW n \in Nodes, NEW x \in Parents, NEW v \in AnswersFor(n, x)
  PROVE  v = TheAnswer(n, x) /\ v \in Answers[n][x]
<1>1. AnswersFor(n, x) = Answers[n][x]
  BY AnswersExact DEF SoundAnswers
<1>2. PICK w \in Values : Answers[n][x] = {w}
  BY DEF SoundAnswers
<1>3. QED
  BY <1>1, <1>2 DEF TheAnswer

LEMMA CallAnswer ==
  ASSUME SoundAnswers, NodeTypeOK, ValuesTold, NEW c \in Calls,
         pc[c] = "returned", result[c].err = "none"
  PROVE  /\ result[c].val = TheAnswer(c[2], parent[c]) /\ parent[c] \in Parents
         /\ result[c].val \in AnswersFor(c[2], parent[c])
<1>1. c[2] = NodeOf[c] /\ c[2] \in Nodes /\ parent[c] \in Parents
  BY Kinds DEF NodeTypeOK
<1>2. result[c].val \in AnswersFor(c[2], parent[c])
  BY <1>1 DEF ValuesTold, CallTells, Tells
<1>3. QED
  BY <1>1, <1>2, OneAnswer

(* No item of a batch was left to a failed entry while nothing has failed. *)
LEMMA BatchAnswer ==
  ASSUME SoundAnswers, Control, ValuesTold, ErrorsOwned, ~Failed, NEW b \in Batches,
         batch[b].pc = "returned", batch[b].err = "none", NEW i \in DOMAIN batch[b].items
  PROVE  /\ batch[b].items[i] \in Parents
         /\ batch[b].out[i] = TheAnswer(b[2], batch[b].items[i])
         /\ batch[b].out[i] \in Answers[b[2]][batch[b].items[i]]
<1>1. Told(entries, b, batch[b], i) /\ batch[b].items[i] \in Parents
  BY ReturnedTells
<1>2. b[2] = ChildOf[b] /\ b[2] \in Nodes
  BY Kinds
<1>3. batch[b].out[i] \in AnswersFor(b[2], batch[b].items[i])
  <2>1. SUFFICES ASSUME entries[KeyAt(b, batch[b], i)].state = "ready",
                        entries[KeyAt(b, batch[b], i)].out.err # "none"
                 PROVE  FALSE
    BY <1>1, <1>2 DEF Told
  <2>2. KeyAt(b, batch[b], i) \in Keys
    BY <1>1, <1>2 DEF KeyAt, Keys
  <2>3. QED
    BY <2>1, <2>2 DEF ErrorsOwned
<1>4. QED
  BY <1>1, <1>2, <1>3, OneAnswer

(* The values of a batch whose children are resolved: all are lists of     *)
(* what those are resolved on.                                             *)
LEMMA BatchLists ==
  ASSUME SoundAnswers, Executing, ErrorsOwned, ~Failed, Telling, NEW b \in Batches,
         batch[b].pc = "returned", batch[b].err = "none", Field[b[2]].children # <<>>
  PROVE  /\ batch[b].out \in Seq(Values) /\ batch[b].items \in Seq(Parents)
         /\ DOMAIN batch[b].items = DOMAIN batch[b].out
         /\ DOMAIN batch[b].out = 1..Len(batch[b].out) /\ Len(batch[b].out) \in Nat
         /\ \A i \in DOMAIN batch[b].out :
              /\ batch[b].out[i] # Nil /\ Elements(batch[b].out[i]) = batch[b].out[i]
              /\ batch[b].out[i] \in Slices /\ batch[b].out[i] \in Seq(Parents)
              /\ batch[b].items[i] \in Parents
              /\ batch[b].out[i] = TheAnswer(b[2], batch[b].items[i])
<1>a. /\ Control /\ ValuesTold /\ Fits(b, batch[b], chunk[b]) /\ batch[b] \in BatchLocals
      /\ Field[b[2]].isList /\ b[2] \in CanBatch /\ b[2] \in Nodes
  <2>1. Busy(b) /\ b[2] = ChildOf[b] /\ b[2] \in Nodes
    BY Kinds DEF Busy
  <2>2. QED
    BY <2>1 DEF Executing, TypedBatches, Control, BatchesTyped, Nested, Telling, BatchesChosen
<1>1. PICK vs \in Seq(Values), xs \in Seq(Parents) : vs = batch[b].out /\ xs = batch[b].items
  BY <1>a DEF BatchLocals
<1>2. Len(vs) \in Nat /\ DOMAIN vs = 1..Len(vs) /\ DOMAIN xs = 1..Len(vs)
  BY <1>a, <1>1, LenProperties DEF Fits, SortingFits
<1>3. ASSUME NEW i \in DOMAIN vs
      PROVE  /\ vs[i] # Nil /\ Elements(vs[i]) = vs[i] /\ vs[i] \in Slices /\ vs[i] \in Seq(Parents)
             /\ xs[i] \in Parents /\ vs[i] = TheAnswer(b[2], xs[i])
  <2>1. xs[i] \in Parents /\ vs[i] = TheAnswer(b[2], xs[i]) /\ vs[i] \in Answers[b[2]][xs[i]]
    BY <1>a, <1>1, <1>2, BatchAnswer
  <2>2. vs[i] \in Slices /\ Nil \notin Slices
    BY <1>a, <2>1 DEF SoundAnswers
  <2>3. vs[i] \in Seq(Parents)
    BY <1>a, <2>1, <2>2, SchemaAssumption
  <2>4. vs[i] # Nil
    BY <2>2
  <2>5. QED
    BY <2>1, <2>2, <2>3, <2>4 DEF Elements
<1>4. QED
  BY <1>1, <1>2, <1>3

(* An open call has the answer its children are resolved on.               *)
LEMMA OpenCall ==
  ASSUME SoundAnswers, Executing, Telling, NEW c \in Calls, scope[c].open
  PROVE  /\ c[2] \in Nodes /\ Field[c[2]].children # <<>> /\ parent[c] \in Parents
         /\ TheAnswer(c[2], parent[c]) # Nil
         /\ result[c].val = TheAnswer(c[2], parent[c])
         /\ scope[c].items = IF Field[c[2]].isList THEN TheAnswer(c[2], parent[c])
                             ELSE <<TheAnswer(c[2], parent[c])>>
<1>a. c \in Scopes /\ c # Root /\ ~IsBatch(c) /\ c[2] \in Nodes /\ Children(c) = Field[c[2]].children
  BY Kinds, ChildrenTyped
<1>1. NodeTypeOK /\ ValuesTold /\ ScopeFits(c, scope[c]) /\ RetFits(c)
  BY <1>a DEF Executing, TypedBatches, Control, Nested
<1>2. Field[c[2]].children # <<>> /\ pc[c] = "returned"
  BY <1>1, <1>a DEF ScopeFits, RetFits, Resolved
<1>3. Source(c, scope[c].items)
  BY <1>a DEF Telling, ScopeTells
<1>4. result[c].err = "none" /\ result[c].val # Nil
  BY <1>3, <1>a DEF Source
<1>5. result[c].val = TheAnswer(c[2], parent[c]) /\ parent[c] \in Parents
  BY <1>1, <1>2, <1>4, CallAnswer
<1>6. scope[c].items = IF Field[c[2]].isList THEN result[c].val ELSE <<result[c].val>>
  BY <1>3, <1>a DEF Source
<1>7. QED
  BY <1>a, <1>2, <1>4, <1>5, <1>6

LEMMA CallAssembles ==
  ASSUME SoundAnswers, Executing, Telling, NEW c \in Calls,
         StageSucceeded(c), ~(Stage(c) < StageCount(c))
  PROVE  Assembled(c) = Truth(c)
<1>a. /\ c \in Scopes /\ c \in Jobs /\ c # Root /\ ~IsBatch(c) /\ c[2] \in Nodes
      /\ IsList(c) <=> Field[c[2]].isList
  BY Kinds DEF IsList
<1>b. scope[c].open
  BY DEF StageSucceeded, InMode
<1>1. PICK n \in Nodes : n = c[2]
  BY <1>a
<1>v. PICK v : v = TheAnswer(n, parent[c])
  OBVIOUS
<1>2. /\ Field[n].children # <<>> /\ parent[c] \in Parents /\ v # Nil
      /\ scope[c].items = IF Field[n].isList THEN v ELSE <<v>>
  BY <1>b, <1>1, <1>v, OpenCall
<1>3. Truth(c) = ValueOn(Expected, n, parent[c])
  <2>1. Truth(c) = Expected[n][parent[c]]
    BY <1>a, <1>1 DEF Truth, TruthOn, GivenTo
  <2>2. QED
    BY <1>2, <2>1, ExpectedIs
<1>4. \A x : FieldsOn(c, x) = ObjectOn(Expected, n, x)
  BY <1>a, <1>1, FieldsAreObject
<1>5. CASE Field[n].isList
  <2>1. ListValue(c) = [i \in DOMAIN scope[c].items |-> FieldsOn(c, scope[c].items[i])]
    BY <1>5, <1>a, <1>1, ListTells
  <2>2. ListValue(c) = [i \in DOMAIN v |-> ObjectOn(Expected, n, v[i])]
    BY <1>2, <1>4, <1>5, <2>1
  <2>3. ValueOn(Expected, n, parent[c]) = [i \in DOMAIN v |-> ObjectOn(Expected, n, v[i])]
    BY <1>v, <1>2, <1>5 DEF ValueOn
  <2>4. QED
    BY <1>a, <1>1, <1>3, <1>5, <2>2, <2>3 DEF Assembled
<1>6. CASE ~Field[n].isList
  <2>1. ObjectValue(c) = FieldsOn(c, scope[c].items[1])
    BY <1>6, <1>a, <1>1, ObjectTells
  <2>2. scope[c].items[1] = v
    BY <1>2, <1>6
  <2>3. ValueOn(Expected, n, parent[c]) = ObjectOn(Expected, n, v)
    BY <1>v, <1>2, <1>6 DEF ValueOn
  <2>4. QED
    BY <1>a, <1>1, <1>3, <1>4, <1>6, <2>1, <2>2, <2>3 DEF Assembled
<1>7. QED
  BY <1>5, <1>6

LEMMA BatchAssembles ==
  ASSUME SoundAnswers, Executing, ErrorsOwned, ~Failed, Telling, NEW b \in Batches,
         StageSucceeded(b), ~(Stage(b) < StageCount(b))
  PROVE  Assembled(b) = Truth(b)
<1>a. /\ b \in Scopes /\ b \in Jobs /\ b # Root /\ IsBatch(b) /\ b[2] \in Nodes
      /\ Children(b) = Field[b[2]].children /\ scope[b].open /\ b[2] = ChildOf[b]
  BY Kinds, ChildrenTyped DEF StageSucceeded, InMode
<1>b. /\ Field[b[2]].children # <<>> /\ batch[b].pc = "returned"
      /\ Busy(b) /\ Field[b[2]].isList
  <2>1. ScopeFits(b, scope[b]) /\ RetFits(b) /\ (Busy(b) => Field[b[2]].isList)
    BY <1>a DEF Executing, Nested
  <2>2. batch[b].pc = "returned"
    BY <1>a, <2>1 DEF RetFits, Resolved
  <2>3. Busy(b)
    BY <1>a, <2>2 DEF Busy
  <2>4. Field[b[2]].children # <<>>
    BY <1>a, <2>1 DEF ScopeFits
  <2>5. QED
    BY <2>1, <2>2, <2>3, <2>4
<1>c. batch[b].err = "none" /\ scope[b].items = Flatten(batch[b].out)
  BY <1>a DEF Telling, ScopeTells, Source
<1>1. PICK n, vs, xs : n = b[2] /\ vs = batch[b].out /\ xs = batch[b].items
  OBVIOUS
<1>2. /\ vs \in Seq(Values) /\ DOMAIN xs = DOMAIN vs /\ n \in Nodes
      /\ DOMAIN vs = 1..Len(vs) /\ Len(vs) \in Nat
      /\ \A i \in DOMAIN vs : /\ vs[i] # Nil /\ Elements(vs[i]) = vs[i]
                              /\ vs[i] \in Slices /\ vs[i] \in Seq(Parents)
                              /\ xs[i] \in Parents /\ vs[i] = TheAnswer(n, xs[i])
  BY <1>a, <1>b, <1>c, <1>1, BatchLists
<1>3. ASSUME NEW i \in 1..Len(vs) PROVE Elements(vs[i]) \in Seq(Parents)
  BY <1>2
<1>4. PICK items \in Seq(Parents) : items = Flatten(vs)
  BY <1>2, <1>3, FlattenTyped
<1> DEFINE g == [y \in Parents |-> ObjectOn(Expected, n, y)]
<1>5. ListValue(b) = [x \in DOMAIN items |-> g[items[x]]]
  <2>1. IsList(b)
    BY <1>a, <1>b DEF IsList
  <2>2. ListValue(b) = [x \in DOMAIN scope[b].items |-> FieldsOn(b, scope[b].items[x])]
    BY <1>a, <2>1, ListTells
  <2>3. ListValue(b) = [x \in DOMAIN items |-> FieldsOn(b, items[x])]
    BY <1>c, <1>1, <1>4, <2>2
  <2>4. ASSUME NEW x \in DOMAIN items PROVE FieldsOn(b, items[x]) = g[items[x]]
    <3>1. items[x] \in Parents
      BY <2>4, ElementOfSeq, LenProperties
    <3>2. QED
      BY <1>a, <1>1, <3>1, FieldsAreObject
  <2> HIDE DEF g
  <2>5. QED
    BY <2>3, <2>4
<1>6. PICK flat : flat = ListValue(b)
  OBVIOUS
<1>7. ASSUME NEW i \in 1..Len(vs)
      PROVE  Regroup(flat, vs)[i] = Expected[n][xs[i]]
  <2>1. Regroup(flat, vs)[i] = OnEach(g, Elements(vs[i]))
    <3> HIDE DEF g
    <3>1. flat = OnEach(g, Flatten(vs))
      BY <1>4, <1>5, <1>6 DEF OnEach
    <3>2. vs \in Seq(Values) /\ \A j \in 1..Len(vs) : Elements(vs[j]) \in Seq(Parents)
      BY <1>2, <1>3
    <3>3. QED
      BY <1>7, <3>1, <3>2, RegroupTells
  <2>2. PICK v \in Seq(Parents) :
          v = vs[i] /\ Elements(vs[i]) = v /\ v # Nil /\ v = TheAnswer(n, xs[i]) /\ xs[i] \in Parents
    BY <1>2
  <2>3. ASSUME NEW m \in DOMAIN v PROVE g[v[m]] = ObjectOn(Expected, n, v[m])
    <3>1. v[m] \in Parents
      BY <2>3, ElementOfSeq, LenProperties
    <3>2. QED
      BY <3>1
  <2>4. Regroup(flat, vs)[i] = [m \in DOMAIN v |-> ObjectOn(Expected, n, v[m])]
    <3> HIDE DEF g
    <3>1. QED
      BY <2>1, <2>2, <2>3 DEF OnEach
  <2>5. ValueOn(Expected, n, xs[i]) = [m \in DOMAIN v |-> ObjectOn(Expected, n, v[m])]
    BY <1>b, <1>1, <2>2 DEF ValueOn
  <2>6. QED
    BY <1>2, <2>2, <2>4, <2>5, ExpectedIs
<1>8. Assembled(b) = Regroup(flat, vs)
  BY <1>a, <1>1, <1>6 DEF Assembled
<1>9. Truth(b) = [i \in DOMAIN vs |-> Expected[n][xs[i]]]
  BY <1>a, <1>1, <1>2 DEF Truth, TruthOn, GivenTo
<1>10. Regroup(flat, vs) = [i \in DOMAIN vs |-> Regroup(flat, vs)[i]]
  BY DEF Regroup
<1>11. QED
  BY <1>2, <1>7, <1>8, <1>9, <1>10

LEMMA EndTells ==
  ASSUME SoundAnswers, Executing, ErrorsOwned, ~Failed, Settled, plan' = plan, Telling,
         NEW s \in Scopes, EndStage(s) \/ FailStage(s)
  PROVE  Telling'
<1>a. Nested /\ NodeTypeOK /\ Control
  BY DEF Executing, TypedBatches, Control
<1>b. batch' = batch /\ scope[s].open
  BY DEF EndStage, FailStage, StageSucceeded, StageErrors, InMode, allBatchVars, batchVars
<1>c. s = Root \/ Busy(s)
  <2>1. s # Root => s \in Jobs /\ Resolved(s)
    BY <1>a, <1>b DEF Nested, RetFits, Scopes, Jobs
  <2>2. QED
    BY <2>1 DEF Resolved, Busy
<1>1. CASE EndStage(s) /\ Stage(s) < StageCount(s)
  BY <1>1, NextStageTells
<1>2. CASE EndStage(s) /\ ~(Stage(s) < StageCount(s))
  <2>1. StageSucceeded(s) /\ Close(s, Returned(Assembled(s), "none"))
    BY <1>2 DEF EndStage
  <2>2. Assembled(s) = Truth(s)
    <3>1. CASE s = Root
      <4>1. ~IsList(s) /\ ~IsBatch(s)
        BY <3>1, Kinds DEF IsList
      <4>2. scope[s].items = <<Nil>>
        BY <1>b, <3>1 DEF Telling, ScopeTells, Source
      <4>3. ObjectValue(s) = FieldsOn(s, scope[s].items[1])
        BY <2>1, <4>1, ObjectTells
      <4>4. ObjectValue(s) = FieldsOn(Root, Nil)
        BY <3>1, <4>2, <4>3
      <4>5. QED
        BY <3>1, <4>1, <4>4 DEF Assembled, Truth, FieldsOn
    <3>2. CASE s \in Calls
      BY <1>2, <2>1, <3>2, CallAssembles
    <3>3. CASE s \in Batches
      BY <1>2, <2>1, <3>3, BatchAssembles
    <3>4. QED
      BY <3>1, <3>2, <3>3 DEF Scopes
  <2>3. PICK o : o = Returned(Assembled(s), "none")
    OBVIOUS
  <2>4. o.val = Assembled(s)
    BY <2>3 DEF Returned
  <2>5. QED
    BY <1>a, <1>b, <1>c, <2>1, <2>2, <2>3, <2>4, CloseTells
<1>3. CASE FailStage(s)
  <2>1. PICK e : e # "none" /\ Close(s, Returned(Nil, e))
    BY <1>3 DEF FailStage
  <2>2. PICK o : o = Returned(Nil, e)
    OBVIOUS
  <2>3. o.err = e
    BY <2>2 DEF Returned
  <2>4. QED
    BY <1>a, <1>b, <1>c, <2>1, <2>2, <2>3, CloseTells
<1>4. QED
  BY <1>1, <1>2, <1>3

-----------------------------------------------------------------------------
(***************************************************************************)
(* A resolved call or batch is returned, or its children are opened.       *)
(***************************************************************************)

(* A call or batch that returns what is true, or an error.                 *)
LEMMA ReturnTells ==
  ASSUME Nested, NodeTypeOK, Control, Settled, plan' = plan, batch' = batch, scope' = scope,
         Telling, NEW j \in Jobs, Busy(j), NEW o, ret' = [ret EXCEPT ![j] = o],
         o.err = "none" => o.val = Truth(j)
  PROVE  Telling'
<1>a. ScopesTyped /\ j \in Scopes
  BY DEF Nested, Jobs, Scopes
<1>1. RetBecomes(j, o)
  BY <1>a, PutRet
<1>2. Truth(j)' = Truth(j)
  BY TruthStays
<1>3. RetTells(j)'
  BY <1>1, <1>2 DEF RetTells, RetBecomes
<1>4. ScopeTells(j)' /\ BatchesChosen'
  BY <1>a, ScopeTellsStays, ChosenStays DEF Telling
<1>5. QED
  BY <1>a, <1>1, <1>3, <1>4, MoveTells DEF RetBecomes

LEMMA OpenTells ==
  ASSUME Nested, NodeTypeOK, Control, Settled, plan' = plan, UNCHANGED <<batch, result, ret>>,
         Telling, NEW j \in Jobs, NEW items \in Seq(Parents),
         scope' = [scope EXCEPT ![j] = Opened(items)], Source(j, items)
  PROVE  Telling'
<1>a. ScopesTyped /\ j \in Scopes
  BY DEF Nested, Jobs, Scopes
<1>1. PICK l \in ScopeLocals : l = Opened(items) /\ l.items = items /\ l.stage = 1 /\ l.next = 1
  BY OpenedFacts
<1>2. ScopeBecomes(j, l)
  BY <1>a, <1>1, PutScope
<1>3. /\ scope'[j].items = items /\ Stage(j)' = 1 /\ scope'[j].next - 1 = 0
      /\ \A h : h \notin 1..(1 - 1)
  BY <1>1, <1>2 DEF ScopeBecomes, Stage
<1>4. Source(j, items)'
  BY DEF Source
<1>5. HandedOut(j, 1, items, 0)'
  BY DEF HandedOut
<1>6. ScopeTells(j)'
  BY <1>3, <1>4, <1>5 DEF ScopeTells
<1>7. RetTells(j)' /\ BatchesChosen'
  BY <1>a, RetTellsStays, ChosenStays DEF Telling
<1>8. QED
  BY <1>a, <1>2, <1>6, <1>7, MoveTells DEF ScopeBecomes

LEMMA DispatchTells ==
  ASSUME SoundAnswers, Executing, Settled, plan' = plan, Telling, NEW c \in Calls, Dispatch(c)
  PROVE  Telling'
<1> DEFINE n == NodeOf[c]
           v == result[c].val
           leaf == v = Nil \/ Field[n].children = <<>>
           bad == ~leaf /\ Field[n].isList /\ ~IsSliceOrNil(v)
<1>a. /\ Nested /\ NodeTypeOK /\ Control /\ ValuesTold
      /\ c \in Jobs /\ c # Root /\ ~IsBatch(c) /\ c[2] = n /\ n \in Nodes /\ Busy(c)
      /\ pc[c] = "returned" /\ UNCHANGED <<batch, result>>
  BY Kinds DEF Executing, TypedBatches, Control, Dispatch, At, Busy, allBatchVars, nodeVars, batchVars
<1>b. result[c].err = "none" =>
        v = TheAnswer(n, parent[c]) /\ parent[c] \in Parents /\ v \in AnswersFor(n, parent[c])
  BY <1>a, CallAnswer
<1>1. CASE UNCHANGED scope /\ ret' = [ret EXCEPT ![c] =
                IF result[c].err # "none" THEN Returned(Nil, result[c].err)
                ELSE IF leaf THEN Returned(v, "none") ELSE Returned(Nil, "not a slice")]
  <2>1. PICK o : o = IF result[c].err # "none" THEN Returned(Nil, result[c].err)
                     ELSE IF leaf THEN Returned(v, "none") ELSE Returned(Nil, "not a slice")
    OBVIOUS
  <2>2. ASSUME o.err = "none" PROVE o.val = Truth(c)
    <3>1. result[c].err = "none" /\ leaf /\ o.val = v
      <4> HIDE DEF leaf, v
      <4>1. \/ result[c].err # "none" /\ o = Returned(Nil, result[c].err)
            \/ result[c].err = "none" /\ leaf /\ o = Returned(v, "none")
            \/ o = Returned(Nil, "not a slice")
        BY <2>1
      <4>2. \A e : o = Returned(Nil, e) => e = "none"
        BY <2>2, ReturnedError
      <4>3. ~(o = Returned(Nil, "not a slice"))
        <5>1. "not a slice" # "none"
          OBVIOUS
        <5>2. QED
          BY <4>2, <5>1
      <4>4. result[c].err = "none" /\ leaf /\ o = Returned(v, "none")
        BY <4>1, <4>2, <4>3
      <4>5. o.val = v
        BY <4>4 DEF Returned
      <4>6. QED
        BY <4>4, <4>5
    <3>2. ValueOn(Expected, n, parent[c]) = v
      BY <1>b, <3>1 DEF ValueOn
    <3>3. Truth(c) = Expected[n][parent[c]]
      BY <1>a DEF Truth, TruthOn, GivenTo
    <3>4. QED
      BY <1>a, <1>b, <3>1, <3>2, <3>3, ExpectedIs
  <2>3. QED
    <3> HIDE DEF leaf, v, n, bad
    <3>1. ret' = [ret EXCEPT ![c] = o]
      BY <1>1, <2>1
    <3>2. QED
      BY <1>1, <1>a, <2>2, <3>1, ReturnTells
<1>2. CASE /\ result[c].err = "none" /\ ~leaf /\ ~bad /\ UNCHANGED ret
           /\ scope' = [scope EXCEPT ![c] = Opened(IF Field[n].isList THEN Elements(v) ELSE <<v>>)]
  <2>1. IF Field[n].isList THEN v \in Slices => v \in Seq(Parents) ELSE v \in Parents
    BY <1>2, <1>a, <1>b, AnswersAreParents
  <2>2. PICK items \in Seq(Parents) :
          /\ items = IF Field[n].isList THEN Elements(v) ELSE <<v>>
          /\ items = IF Field[n].isList THEN v ELSE <<v>>
    <3>1. CASE Field[n].isList
      <4>1. Elements(v) = v /\ v \in Slices
        BY <1>2, <3>1 DEF Elements, IsSliceOrNil
      <4>2. QED
        BY <2>1, <3>1, <4>1
    <3>2. CASE ~Field[n].isList
      <4>1. v \in Parents
        BY <2>1, <3>2
      <4> HIDE DEF v
      <4>2. <<v>> \in Seq(Parents)
        BY <4>1
      <4>3. QED
        BY <3>2, <4>2
    <3>3. QED
      BY <3>1, <3>2
  <2>3. Source(c, items)
    BY <1>2, <1>a, <2>2 DEF Source
  <2>4. QED
    BY <1>2, <1>a, <2>2, <2>3, OpenTells
<1>3. QED
  BY <1>1, <1>2 DEF Dispatch
LEMMA DispatchBatchTells ==
  ASSUME SoundAnswers, Executing, ErrorsOwned, ~Failed, Settled, plan' = plan, Telling,
         NEW b \in Batches, DispatchBatch(b)
  PROVE  Telling'
<1> DEFINE vs == batch[b].out
           e == batch[b].err
           leaf == vs = <<>> \/ Field[b[2]].children = <<>>
           bad == \E i \in DOMAIN vs : ~IsSliceOrNil(vs[i])
           materialize == e = "none" /\ ~leaf /\ ~bad /\ Flatten(vs) # <<>>
           outcome ==
             CASE e # "none" -> Returned(Nil, e)
               [] e = "none" /\ leaf -> Returned(vs, "none")
               [] e = "none" /\ ~leaf /\ bad -> Returned(Nil, "not a slice")
               [] OTHER -> Returned([i \in DOMAIN vs |-> <<>>], "none")
<1>a. /\ Nested /\ NodeTypeOK /\ Control /\ ValuesTold
      /\ b \in Jobs /\ b # Root /\ IsBatch(b) /\ b[2] \in Nodes /\ Busy(b)
      /\ batch[b].pc = "returned" /\ UNCHANGED <<batch, result>>
      /\ batch[b] \in BatchLocals /\ Fits(b, batch[b], chunk[b])
  BY Kinds DEF Executing, TypedBatches, Control, BatchesTyped, DispatchBatch, BatchAt, Busy,
     allBatchVars, nodeVars, batchVars
<1>b. PICK n, xs : n = b[2] /\ xs = batch[b].items
  OBVIOUS
<1>c. /\ vs \in Seq(Values) /\ xs \in Seq(Parents) /\ n \in Nodes
      /\ DOMAIN vs = 1..Len(vs) /\ Len(vs) \in Nat /\ DOMAIN xs = DOMAIN vs
  <2>1. vs \in Seq(Values) /\ xs \in Seq(Parents) /\ Len(vs) = Len(xs)
    BY <1>a, <1>b DEF BatchLocals, Fits, SortingFits
  <2>2. QED
    BY <1>a, <1>b, <2>1, LenProperties
<1>d. ASSUME e = "none", NEW i \in DOMAIN vs
      PROVE  Expected[n][xs[i]] = ValueOn(Expected, n, xs[i]) /\ vs[i] = TheAnswer(n, xs[i])
  BY <1>a, <1>b, <1>c, <1>d, BatchAnswer, ExpectedIs
<1>e. Truth(b) = [i \in DOMAIN vs |-> Expected[n][xs[i]]]
  BY <1>a, <1>b, <1>c DEF Truth, TruthOn, GivenTo
<1>1. CASE materialize /\ scope' = [scope EXCEPT ![b] = Opened(Flatten(vs))] /\ UNCHANGED ret
  <2>1. \A i \in 1..Len(vs) : Elements(vs[i]) \in Seq(Parents)
    BY <1>1, <1>a, <1>c, BatchLists
  <2>2. PICK items \in Seq(Parents) : items = Flatten(vs)
    BY <1>c, <2>1, FlattenTyped
  <2>3. Source(b, items)
    BY <1>1, <1>a, <2>2 DEF Source
  <2>4. QED
    BY <1>1, <1>a, <2>2, <2>3, OpenTells
<1>2. CASE ~materialize /\ UNCHANGED scope /\ ret' = [ret EXCEPT ![b] = outcome]
  <2>1. PICK o : o = outcome
    OBVIOUS
  <2>2. \/ e # "none" /\ o = Returned(Nil, e)
        \/ e = "none" /\ leaf /\ o = Returned(vs, "none")
        \/ o = Returned(Nil, "not a slice")
        \/ e = "none" /\ ~leaf /\ ~bad /\ Flatten(vs) = <<>>
           /\ o = Returned([i \in DOMAIN vs |-> <<>>], "none")
    <3>1. ~(e = "none" /\ ~leaf /\ ~bad /\ Flatten(vs) # <<>>)
      BY <1>2
    <3> HIDE DEF e, leaf, bad, vs
    <3>2. QED
      BY <2>1, <3>1
  <2>a. ASSUME NEW v, NEW x, o = Returned(v, x) PROVE o.val = v /\ o.err = x
    <3>1. o.val = v
      BY <2>a DEF Returned
    <3>2. o.err = x
      BY <2>a DEF Returned
    <3>3. QED
      BY <3>1, <3>2
  <2>3. ASSUME e = "none", leaf, o = Returned(vs, "none") PROVE o.val = Truth(b)
    <3>1. o.val = vs
      BY <2>3, <2>a
    <3>2. ASSUME NEW i \in DOMAIN vs PROVE vs[i] = Expected[n][xs[i]]
      <4>1. Field[n].children = <<>>
        <5>1. vs # <<>>
          BY <1>c, <3>2
        <5>2. QED
          BY <1>b, <2>3, <5>1
      <4>2. ValueOn(Expected, n, xs[i]) = TheAnswer(n, xs[i])
        BY <4>1 DEF ValueOn
      <4>3. QED
        BY <1>d, <2>3, <3>2, <4>2
    <3>3. vs = [i \in DOMAIN vs |-> vs[i]]
      BY <1>c
    <3> HIDE DEF vs
    <3>4. QED
      BY <1>e, <3>1, <3>2, <3>3
  <2>4. ASSUME e = "none", ~leaf, Flatten(vs) = <<>>,
               o = Returned([i \in DOMAIN vs |-> <<>>], "none")
        PROVE  o.val = Truth(b)
    <3>1. o.val = [i \in DOMAIN vs |-> <<>>]
      BY <2>4, <2>a
    <3>2. ASSUME NEW i \in DOMAIN vs PROVE Expected[n][xs[i]] = <<>>
      <4>1. /\ \A j \in 1..Len(vs) : Elements(vs[j]) \in Seq(Parents)
            /\ vs[i] # Nil /\ Elements(vs[i]) = vs[i] /\ vs[i] \in Seq(Parents)
            /\ Field[n].isList
        BY <2>4, <1>a, <1>b, <1>c, <3>2, Kinds, BatchLists DEF Nested
      <4>2. Before(vs, i) \in Nat /\ Len(vs[i]) \in Nat /\ Before(vs, i) + Len(vs[i]) <= Len(Flatten(vs))
        BY <1>c, <3>2, <4>1, FlattenPlaces
      <4>3. Len(vs[i]) = 0
        <5>1. Len(Flatten(vs)) = 0
          BY <2>4
        <5>2. QED
          BY <4>2, <5>1
      <4>4. vs[i] = <<>> /\ DOMAIN vs[i] = {}
        BY <4>1, <4>3, EmptySeq, LenProperties
      <4>5. PICK v : v = TheAnswer(n, xs[i]) /\ v # Nil /\ v = <<>> /\ DOMAIN v = {}
        BY <1>d, <2>4, <3>2, <4>1, <4>4
      <4>6. ValueOn(Expected, n, xs[i]) = [m \in DOMAIN v |-> ObjectOn(Expected, n, v[m])]
        BY <1>b, <2>4, <4>1, <4>5 DEF ValueOn
      <4>7. [m \in DOMAIN v |-> ObjectOn(Expected, n, v[m])] = <<>>
        BY <4>5
      <4>8. QED
        BY <1>d, <2>4, <3>2, <4>6, <4>7
    <3> HIDE DEF vs
    <3>3. QED
      BY <1>e, <3>1, <3>2
  <2>5. ASSUME o.err = "none" PROVE o.val = Truth(b)
    <3>1. \A x : o = Returned(Nil, x) => x = "none"
      BY <2>5, ReturnedError
    <3>2. ~(o = Returned(Nil, "not a slice"))
      <4>1. "not a slice" # "none"
        OBVIOUS
      <4>2. QED
        BY <3>1, <4>1
    <3> HIDE DEF e, leaf, bad, vs
    <3>3. \/ e = "none" /\ leaf /\ o = Returned(vs, "none")
          \/ e = "none" /\ ~leaf /\ Flatten(vs) = <<>>
             /\ o = Returned([i \in DOMAIN vs |-> <<>>], "none")
      BY <2>2, <3>1, <3>2
    <3>4. QED
      BY <2>3, <2>4, <3>3
  <2>6. ret' = [ret EXCEPT ![b] = o]
    BY <1>2, <2>1
  <2>7. QED
    BY <1>2, <1>a, <2>5, <2>6, ReturnTells
<1>3. QED
  BY <1>1, <1>2 DEF DispatchBatch

-----------------------------------------------------------------------------
(***************************************************************************)
(* The invariant: as long as nothing has failed, everything handed out and *)
(* returned so far is what the resolvers define.  Once something has, the  *)
(* response can only be an error.                                          *)
(***************************************************************************)
Truthful == Executing /\ ErrorsOwned /\ (Failed \/ Telling)

LEMMA TruthfulInit == ExecInit => Truthful
<1> SUFFICES ASSUME ExecInit PROVE Truthful
  OBVIOUS
<1>1. Executing
  BY ExecutingInit
<1>2. ErrorsOwned
  BY DEF ExecInit, BatchInit, NodeInit, EmptyCache, ErrorsOwned
<1>3. BatchesChosen
  BY Kinds DEF BatchesChosen, Busy, ExecInit, BatchInit, NoBatch
<1>4. ASSUME NEW s \in Scopes PROVE RetTells(s)
  BY <1>4 DEF RetTells, ExecInit, NotReturned
<1>5. ASSUME NEW s \in Scopes PROVE ScopeTells(s)
  <2>1. CASE s # Root
    <3>1. ~scope[s].open
      BY <1>5, <2>1, ClosedFacts DEF ExecInit
    <3>2. QED
      BY <3>1 DEF ScopeTells
  <2>2. CASE s = Root
    <3>1. PICK q \in Seq(Parents) : q = <<Nil>>
      <4>1. Nil \in Parents
        BY ValuesAssumption
      <4>2. <<Nil>> \in Seq(Parents)
        BY <4>1
      <4>3. QED
        BY <4>2
    <3>2. scope[s] = Opened(q)
      BY <2>2, <3>1, Kinds DEF ExecInit
    <3>3. /\ scope[s].items = q /\ Stage(s) = 1 /\ scope[s].next - 1 = 0
          /\ \A h : h \notin 1..(1 - 1)
      BY <3>2, OpenedFacts DEF Stage
    <3>4. Source(s, q) /\ HandedOut(s, 1, q, 0)
      BY <2>2, <3>1 DEF Source, HandedOut
    <3>5. QED
      BY <3>3, <3>4 DEF ScopeTells
  <2>3. QED
    BY <2>1, <2>2
<1>6. QED
  BY <1>1, <1>2, <1>3, <1>4, <1>5 DEF Truthful, Telling

LEMMA TellingStep ==
  ASSUME SoundAnswers, Executing, ErrorsOwned, ~Failed, Telling, ExecNext
  PROVE  Telling'
<1>a. /\ Nested /\ NodeTypeOK /\ Control /\ Settled /\ plan' = plan
  BY ExecSettles, NestedStep DEF Executing, TypedBatches, Control
<1>1. ASSUME NEW s \in Scopes, ScopeStep(s) PROVE Telling'
  <2>1. CASE StartSequentialJob(s) \/ StartParallelJob(s)
    BY <1>a, <2>1, StartTells
  <2>2. CASE ParallelJobFails(s)
    BY <1>a, <2>2, JobFailsTells
  <2>3. CASE StartBatch(s)
    BY <1>a, <2>3, StartBatchTells
  <2>4. CASE EndStage(s) \/ FailStage(s)
    BY <1>a, <2>4, EndTells
  <2>5. QED
    BY <1>1, <2>1, <2>2, <2>3, <2>4 DEF ScopeStep
<1>2. ASSUME NEW c \in Calls, Dispatch(c) PROVE Telling'
  BY <1>2, <1>a, DispatchTells
<1>3. ASSUME NEW b \in Batches, DispatchBatch(b) PROVE Telling'
  BY <1>3, <1>a, DispatchBatchTells
<1>4. ASSUME UNCHANGED <<scope, ret>>, batch' = batch \/ \E b \in Batches : BatchStep(b)
      PROVE  Telling'
  <2>1. BatchesChosen'
    BY <1>4, <1>a, ChosenStays DEF Telling
  <2>2. QED
    BY <1>4, <1>a, <2>1, StillTells
<1>5. ASSUME NEW c \in Calls, CallStep(c), UNCHANGED <<batchVars, scope, ret>> PROVE Telling'
  BY <1>4, <1>5 DEF batchVars
<1>6. ASSUME NEW b \in Batches, BatchStep(b), UNCHANGED <<scope, ret>> PROVE Telling'
  BY <1>4, <1>6
<1>7. ASSUME CancelRequest \/ Responded PROVE Telling'
  <2>1. UNCHANGED <<scope, ret, batch>>
    BY <1>7 DEF CancelRequest, Responded, execVars, allBatchVars, batchVars
  <2>2. QED
    BY <1>4, <2>1
<1>8. QED
  BY <1>1, <1>2, <1>3, <1>5, <1>6, <1>7 DEF ExecNext, Progress

LEMMA TruthfulStep ==
  ASSUME SoundAnswers, Truthful, [ExecNext]_execVars
  PROVE  Truthful'
<1>a. Executing /\ ErrorsOwned /\ GoesOn /\ NodeTypeOK /\ Control /\ Nested
  BY ExecStepGoesOn DEF Truthful, Executing, TypedBatches, Control
<1>1. Executing'
  BY <1>a, ExecutingStep
<1>2. ErrorsOwned' /\ (Failed => Failed')
  BY <1>a, ErrorsStayOwned, FailedStays
<1>3. ASSUME ~Failed PROVE Telling'
  <2>1. Telling
    BY <1>3 DEF Truthful
  <2>2. CASE ExecNext
    BY <1>a, <1>3, <2>1, <2>2, TellingStep
  <2>3. CASE UNCHANGED execVars
    <3>1. UNCHANGED <<pc, parent, result, batch, scope, ret, plan>>
      BY <2>3 DEF execVars, allBatchVars, nodeVars, batchVars
    <3>2. Settled
      BY <3>1 DEF Settled, Busy, GivenTo
    <3>3. BatchesChosen'
      BY <1>a, <2>1, <3>1, ChosenStays DEF Telling
    <3>4. QED
      BY <1>a, <2>1, <3>1, <3>2, <3>3, StillTells
  <2>4. QED
    BY <2>2, <2>3
<1>4. QED
  BY <1>1, <1>2, <1>3 DEF Truthful

(* The response does not depend on the plan: where each field has one      *)
(* answer per parent and its cache key tells all that it depends on, a     *)
(* response without error is, value by value, the one the resolvers define *)
(* on their own, whichever modes, workers, batches and chunks the          *)
(* optimizer chose, whatever the request cache answered, and in whatever   *)
(* order the goroutines ran (executeNode, materializeObjectList and        *)
(* materializeBatchedChildValues with all they call).                      *)
THEOREM PlanDoesNotMatter ==
  ASSUME SoundAnswers
  PROVE  ExecSpec => []ResponseCorrect
<1>1. Truthful => ResponseCorrect
  <2>1. SUFFICES ASSUME Truthful, ret[Root].done, ret[Root].err = "none"
                 PROVE  ret[Root].val = [r \in ResponseKeys(Root) |->
                          Expected[Children(Root)[ChildNamed(Root, r)]][Nil]]
    BY DEF ResponseCorrect
  <2>2. Telling
    BY <2>1, FailureSurfaces DEF Truthful
  <2>3. QED
    BY <2>1, <2>2, Kinds DEF Telling, RetTells, Truth
<1>2. Truthful /\ [ExecNext]_execVars => Truthful'
  BY TruthfulStep
<1>3. QED
  BY <1>1, <1>2, TruthfulInit, PTL DEF ExecSpec

-----------------------------------------------------------------------------
(***************************************************************************)
(* Counting: the largest of finitely many numbers, and unions of small     *)
(* sets.                                                                   *)
(***************************************************************************)
HasMax(S) == \E x \in S : \A y \in S : y <= x

LEMMA MaxExists ==
  ASSUME NEW S \in SUBSET Nat, IsFiniteSet(S), S # {}
  PROVE  HasMax(S)
<1> DEFINE Wrong(k) == \E T \in SUBSET S : T # {} /\ Cardinality(T) = k /\ ~HasMax(T)
           Sizes == {k \in Nat : Wrong(k)}
<1>1. SUFFICES ASSUME ~HasMax(S) PROVE FALSE
  OBVIOUS
<1>2. \A T \in SUBSET S : IsFiniteSet(T) /\ Cardinality(T) \in Nat
  BY FS_Subset, FS_CardinalityType
<1>3. Sizes \in SUBSET Nat /\ Sizes # {}
  <2>1. Cardinality(S) \in Sizes
    BY <1>1, <1>2
  <2>2. QED
    BY <2>1
<1>4. PICK k \in Sizes : \A j \in Nat : j < k => j \notin Sizes
  <2> HIDE DEF Sizes
  <2>1. QED
    BY <1>3, NatMin
<1>5. PICK T \in SUBSET S : T # {} /\ Cardinality(T) = k /\ ~HasMax(T)
  BY <1>4
<1>6. PICK x \in T : TRUE
  BY <1>5
<1> DEFINE U == T \ {x}
<1>7. U \in SUBSET S /\ Cardinality(U) = k - 1 /\ k - 1 \in Nat /\ k - 1 < k
  <2>1. Cardinality(U) = Cardinality(T) - 1
    BY <1>2, <1>6, FS_RemoveElement
  <2>2. Cardinality(U) \in Nat /\ k \in Nat
    BY <1>2, <1>4
  <2>3. QED
    BY <1>5, <2>1, <2>2
<1>8. x \in Nat /\ \A y \in T : y \in Nat
  BY <1>5, <1>6
<1>9. CASE U = {}
  <2>1. \A y \in T : y <= x
    BY <1>8, <1>9
  <2>2. QED
    BY <1>5, <1>6, <2>1 DEF HasMax
<1>10. CASE U # {}
  <2>1. HasMax(U)
    <3>1. ~Wrong(k - 1)
      BY <1>4, <1>7
    <3>2. QED
      BY <1>7, <1>10, <3>1
  <2>2. PICK m \in U : \A y \in U : y <= m
    BY <2>1 DEF HasMax
  <2>3. PICK h \in T : x <= h /\ m <= h
    BY <1>6, <1>8, <2>2
  <2>4. \A y \in T : y <= h
    BY <1>8, <2>2, <2>3
  <2>5. QED
    BY <1>5, <2>4 DEF HasMax
<1>11. QED
  BY <1>9, <1>10

LEMMA MaxIs ==
  ASSUME NEW S \in SUBSET Nat, IsFiniteSet(S), S # {}
  PROVE  Max(S) \in S /\ \A y \in S : y <= Max(S)
<1>1. \E x \in S : \A y \in S : x >= y
  <2>1. PICK x \in S : \A y \in S : y <= x
    BY MaxExists DEF HasMax
  <2>2. QED
    BY <2>1
<1>2. Max(S) \in S /\ \A y \in S : Max(S) >= y
  BY <1>1 DEF Max
<1>3. QED
  BY <1>2

LEMMA MinOfTwo ==
  ASSUME NEW a \in Nat, NEW b \in Nat
  PROVE  Min({a, b}) \in {a, b} /\ Min({a, b}) = IF a <= b THEN a ELSE b
<1>1. \E x \in {a, b} : \A y \in {a, b} : x <= y
  OBVIOUS
<1>2. Min({a, b}) \in {a, b} /\ \A y \in {a, b} : Min({a, b}) <= y
  BY <1>1 DEF Min
<1>3. QED
  BY <1>2

(* A product with one factor fixed.                                        *)
LEMMA TimesGrows ==
  ASSUME NEW a \in Nat, NEW b \in Nat, NEW w \in Nat, a <= b
  PROVE  a * w \in Nat /\ b * w \in Nat /\ a * w <= b * w /\ (a + 1) * w = a * w + w
OBVIOUS

SmallUnion(K, F, B) ==
  LET U == UNION {F[x] : x \in K} IN IsFiniteSet(U) /\ Cardinality(U) <= Cardinality(K) * B

(* A union of k sets of at most B members each has at most k * B.          *)
LEMMA UnionBound ==
  ASSUME NEW K, IsFiniteSet(K), NEW F, NEW B \in Nat,
         \A x \in K : IsFiniteSet(F[x]) /\ Cardinality(F[x]) <= B
  PROVE  SmallUnion(K, F, B)
<1> DEFINE Wrong(k) == \E T \in SUBSET K : Cardinality(T) = k /\ ~SmallUnion(T, F, B)
           Sizes == {k \in Nat : Wrong(k)}
<1>1. SUFFICES ASSUME ~SmallUnion(K, F, B) PROVE FALSE
  OBVIOUS
<1>2. \A T \in SUBSET K : IsFiniteSet(T) /\ Cardinality(T) \in Nat
  BY FS_Subset, FS_CardinalityType
<1>3. Sizes \in SUBSET Nat /\ Sizes # {}
  <2>1. Cardinality(K) \in Sizes
    BY <1>1, <1>2
  <2>2. QED
    BY <2>1
<1>4. PICK k \in Sizes : \A j \in Nat : j < k => j \notin Sizes
  <2> HIDE DEF Sizes
  <2>1. QED
    BY <1>3, NatMin
<1>5. PICK T \in SUBSET K : Cardinality(T) = k /\ ~SmallUnion(T, F, B)
  BY <1>4
<1>6. T # {}
  <2>1. SUFFICES ASSUME T = {} PROVE FALSE
    OBVIOUS
  <2>2. UNION {F[x] : x \in {}} = {}
    OBVIOUS
  <2>3. SmallUnion({}, F, B)
    <3>1. Cardinality({}) * B = 0 /\ IsFiniteSet({}) /\ Cardinality({}) = 0
      BY FS_EmptySet
    <3>2. Cardinality({}) <= Cardinality({}) * B
      BY <3>1
    <3>3. QED
      BY <2>2, <3>1, <3>2, Zenon DEF SmallUnion
  <2>4. QED
    BY <1>5, <2>1, <2>3
<1>7. PICK x \in T : TRUE
  BY <1>6
<1> DEFINE R == T \ {x}
           V == UNION {F[y] : y \in R}
<1>8. R \in SUBSET K /\ Cardinality(R) = k - 1 /\ k - 1 \in Nat /\ k - 1 < k
  <2>1. Cardinality(R) = Cardinality(T) - 1
    BY <1>2, <1>7, FS_RemoveElement
  <2>2. Cardinality(R) \in Nat /\ k \in Nat
    BY <1>2, <1>4
  <2>3. QED
    BY <1>5, <2>1, <2>2
<1>9. IsFiniteSet(V) /\ Cardinality(V) <= (k - 1) * B
  <2>1. SmallUnion(R, F, B)
    BY <1>4, <1>8
  <2>2. QED
    BY <1>8, <2>1 DEF SmallUnion
<1>10. UNION {F[y] : y \in T} = V \cup F[x]
  BY <1>7
<1>11. /\ IsFiniteSet(V \cup F[x]) /\ Cardinality(V \cup F[x]) <= Cardinality(V) + Cardinality(F[x])
       /\ Cardinality(V \cup F[x]) \in Nat /\ Cardinality(V) \in Nat /\ Cardinality(F[x]) \in Nat
       /\ Cardinality(F[x]) <= B
  <2> HIDE DEF V
  <2>1. IsFiniteSet(F[x]) /\ Cardinality(F[x]) <= B
    BY <1>7
  <2>2. PICK w : w = V \cap F[x]
    OBVIOUS
  <2>3. IsFiniteSet(w) /\ Cardinality(w) \in Nat
    BY <1>9, <2>2, FS_Intersection, FS_CardinalityType
  <2>4. Cardinality(V \cup F[x]) = Cardinality(V) + Cardinality(F[x]) - Cardinality(w)
    BY <1>9, <2>1, <2>2, FS_Union
  <2>5. IsFiniteSet(V \cup F[x])
    BY <1>9, <2>1, FS_Union
  <2>6. Cardinality(V) \in Nat /\ Cardinality(F[x]) \in Nat /\ Cardinality(V \cup F[x]) \in Nat
    BY <1>9, <2>1, <2>5, FS_CardinalityType
  <2>7. QED
    BY <2>1, <2>3, <2>4, <2>5, <2>6
<1>12. Cardinality(V \cup F[x]) <= k * B
  <2>1. PICK h \in Nat : h = k - 1 /\ k = h + 1
    BY <1>8
  <2>2. k * B = h * B + B /\ h * B \in Nat
    BY <2>1, TimesGrows
  <2>3. Cardinality(V) <= h * B
    BY <1>9, <2>1
  <2> HIDE DEF V
  <2>4. QED
    BY <1>11, <2>2, <2>3
<1>13. SmallUnion(T, F, B)
  BY <1>5, <1>10, <1>11, <1>12 DEF SmallUnion
<1>14. QED
  BY <1>5, <1>13

-----------------------------------------------------------------------------
(***************************************************************************)
(* PeakInflight is defined by recursion over the fields below a node; it   *)
(* says what its equation says because the fields form a finite tree.      *)
(***************************************************************************)
Below(f, S) == Max({1} \cup {f[m] : m \in S})

PeakRow(f, n) ==
  LET children == ToSet(Field[n].children)
  IN IF children = {} THEN OwnInflight(n)
     ELSE IF plan[n].fieldsMode = "PAR_FIELDS" \/ plan[n].listMode = "LIST_PARALLEL"
       THEN Larger(OwnInflight(n), MultipliedByWorkers(n, Below(f, children)))
     ELSE IF plan[n].listMode = "LIST_BATCHED"
       THEN Max({OwnInflight(n), Below(f, BatchedBelow(n)),
                 MultipliedByWorkers(n, Below(f, children \ BatchedBelow(n)))})
     ELSE Larger(OwnInflight(n), Below(f, children))

PeakOn(f, S) == \A n \in S : f[n] = PeakRow(f, n)

LEMMA SamePeak ==
  ASSUME NEW n, NEW f, NEW g, \A m \in ToSet(Field[n].children) : f[m] = g[m]
  PROVE  PeakRow(f, n) = PeakRow(g, n)
<1> DEFINE children == ToSet(Field[n].children)
<1>1. ASSUME NEW S \in SUBSET children PROVE Below(f, S) = Below(g, S)
  <2>1. {f[m] : m \in S} = {g[m] : m \in S}
    OBVIOUS
  <2>2. QED
    BY <2>1 DEF Below
<1>2. BatchedBelow(n) \in SUBSET children
  BY DEF BatchedBelow
<1>3. /\ Below(f, children) = Below(g, children)
      /\ Below(f, BatchedBelow(n)) = Below(g, BatchedBelow(n))
      /\ Below(f, children \ BatchedBelow(n)) = Below(g, children \ BatchedBelow(n))
  BY <1>1, <1>2
<1>4. QED
  BY <1>3 DEF PeakRow

(* Take the largest set closed downwards on which some function does what  *)
(* the equation says: a lowest node outside it could be added.             *)
LEMMA PeakExists == \E f : f = [n \in Nodes |-> PeakRow(f, n)]
<1> DEFINE Good(S) == \E f : DOMAIN f = Nodes /\ PeakOn(f, S)
           Left(k) == \E S \in SUBSET Nodes : Whole(S) /\ Good(S) /\ Cardinality(Nodes \ S) = k
           Sizes == {k \in Nat : Left(k)}
<1>1. \A S : IsFiniteSet(Nodes \ S) /\ Cardinality(Nodes \ S) \in Nat
  BY TreeAssumption, FS_Difference, FS_CardinalityType
<1>2. Sizes \in SUBSET Nat /\ Sizes # {}
  <2>1. Whole({})
    BY DEF Whole
  <2>2. Good({})
    <3>1. DOMAIN [n \in Nodes |-> 0] = Nodes /\ PeakOn([n \in Nodes |-> 0], {})
      BY DEF PeakOn
    <3>2. QED
      BY <3>1
  <2>3. {} \in SUBSET Nodes
    OBVIOUS
  <2> HIDE DEF Good
  <2>4. Left(Cardinality(Nodes \ {}))
    BY <2>1, <2>2, <2>3
  <2> HIDE DEF Left
  <2>5. QED
    BY <1>1, <2>4
<1>3. PICK k \in Sizes : \A j \in Nat : j < k => j \notin Sizes
  <2> HIDE DEF Sizes
  <2>1. QED
    BY <1>2, NatMin
<1>4. PICK S \in SUBSET Nodes : Whole(S) /\ Good(S) /\ Cardinality(Nodes \ S) = k
  BY <1>3
<1>5. PICK f : DOMAIN f = Nodes /\ PeakOn(f, S)
  BY <1>4
<1>6. CASE S = Nodes
  <2> DEFINE g == [n \in Nodes |-> PeakRow(f, n)]
  <2>1. \A n \in Nodes : g[n] = f[n]
    BY <1>5, <1>6 DEF PeakOn
  <2>2. ASSUME NEW n \in Nodes PROVE PeakRow(f, n) = PeakRow(g, n)
    <3>1. \A m \in ToSet(Field[n].children) : f[m] = g[m]
      BY <2>1, ChildrenOfNodes
    <3> HIDE DEF g
    <3>2. QED
      BY <3>1, SamePeak
  <2>3. g = [n \in Nodes |-> PeakRow(g, n)]
    BY <2>2
  <2> HIDE DEF g
  <2>4. QED
    BY <2>3
<1>7. CASE S # Nodes
  <2>1. PICK n \in Nodes \ S : \A m \in ToSet(Field[n].children) : m \notin Nodes \ S
    <3>1. HasLowest(Nodes \ S)
      BY <1>7, LowestNode
    <3>2. QED
      BY <3>1 DEF HasLowest
  <2>2. ToSet(Field[n].children) \subseteq S /\ n \notin S
    BY <2>1, ChildrenOfNodes
  <2> DEFINE g == [m \in Nodes |-> IF m = n THEN PeakRow(f, n) ELSE f[m]]
             T == S \cup {n}
  <2>3. T \in SUBSET Nodes /\ Whole(T)
    BY <1>4, <2>1, <2>2 DEF Whole
  <2>4. ASSUME NEW m \in T PROVE g[m] = PeakRow(g, m)
    <3>1. ToSet(Field[m].children) \subseteq S
      BY <1>4, <2>2 DEF Whole
    <3>2. \A c \in ToSet(Field[m].children) : f[c] = g[c]
      BY <2>2, <3>1
    <3>3. PeakRow(f, m) = PeakRow(g, m)
      <4> HIDE DEF g
      <4>1. QED
        BY <3>2, SamePeak
    <3>4. g[m] = PeakRow(f, m)
      BY <1>5, <2>1, <2>4 DEF PeakOn
    <3>5. QED
      BY <3>3, <3>4
  <2>5. Good(T)
    <3>1. DOMAIN g = Nodes /\ PeakOn(g, T)
      BY <2>4 DEF PeakOn
    <3> HIDE DEF g
    <3>2. QED
      BY <3>1
  <2>6. PICK h \in Nat : h = Cardinality(Nodes \ T) /\ h < k
    <3>1. PICK D, E : D = Nodes \ S /\ E = Nodes \ T
      OBVIOUS
    <3>2. E = D \ {n} /\ n \in D
      BY <2>1, <3>1
    <3> HIDE DEF T, Sizes, Good
    <3>a. IsFiniteSet(D) /\ IsFiniteSet(E)
      BY <1>1, <3>1, Zenon
    <3>3. Cardinality(E) = Cardinality(D) - 1
      BY <3>a, <3>2, FS_RemoveElement
    <3>b. k \in Nat
      BY <1>2, <1>3
    <3>4. Cardinality(E) \in Nat /\ Cardinality(D) = k
      BY <3>a, <1>4, <3>1, FS_CardinalityType
    <3>5. Cardinality(E) < k
      BY <3>3, <3>4, <3>b
    <3>6. QED
      BY <3>1, <3>4, <3>5
  <2> HIDE DEF T, Good
  <2>7. Left(h)
    BY <2>3, <2>5, <2>6
  <2>8. QED
    BY <1>3, <2>6, <2>7
<1>8. QED
  BY <1>6, <1>7

LEMMA PeakIs ==
  ASSUME NEW n \in Nodes
  PROVE  PeakInflight[n] = PeakRow(PeakInflight, n)
<1>1. PICK f : f = [m \in Nodes |-> PeakRow(f, m)]
  BY PeakExists
<1>2. PeakInflight = CHOOSE h : h = [m \in Nodes |-> PeakRow(h, m)]
  BY DEF PeakInflight, PeakRow, Below
<1>3. PeakInflight = [m \in Nodes |-> PeakRow(PeakInflight, m)]
  BY <1>1, <1>2
<1> HIDE DEF PeakInflight
<1>4. QED
  BY <1>3
-----------------------------------------------------------------------------
(***************************************************************************)
(* What the peak of a node leaves room for: what it runs itself, and what  *)
(* each child runs, times the workers where several of them run at once.   *)
(***************************************************************************)
LEMMA BelowIs ==
  ASSUME NEW f, NEW S \in SUBSET Nodes, \A m \in S : f[m] \in Nat
  PROVE  Below(f, S) \in Nat \ {0} /\ \A m \in S : f[m] <= Below(f, S)
<1> DEFINE T == {f[m] : m \in S}
           g == [m \in S |-> f[m]]
<1>1. IsFiniteSet(S)
  BY TreeAssumption, FS_Subset
<1>2. g \in Surjection(S, T)
  BY DEF Surjection
<1>3. IsFiniteSet(T)
  BY <1>1, <1>2, FS_Surjection
<1>4. PICK U : U = {1} \cup T
  OBVIOUS
<1>5. IsFiniteSet(U)
  <2>1. U = T \cup {1}
    BY <1>4
  <2> HIDE DEF T
  <2>2. QED
    BY <1>3, <2>1, FS_AddElement
<1>6. U \in SUBSET Nat /\ 1 \in U /\ U # {} /\ \A m \in S : f[m] \in U
  BY <1>4
<1>7. Max(U) \in U /\ \A y \in U : y <= Max(U)
  BY <1>5, <1>6, MaxIs
<1>8. Below(f, S) = Max(U)
  BY <1>4 DEF Below
<1>9. Max(U) \in Nat /\ 1 <= Max(U)
  BY <1>6, <1>7
<1>10. Max(U) \in Nat \ {0}
  BY <1>9
<1>11. QED
  BY <1>6, <1>7, <1>8, <1>10

WorkersAt(n) == Larger(1, plan[n].workers)

Concurrent(n) == Larger(1, Strategy[n].maxConcurrentBatches)

LEMMA OwnIs ==
  ASSUME SoundPlans, plan \in Plans, NEW n \in Nodes
  PROVE  /\ WorkersAt(n) \in Nat \ {0} /\ OwnInflight(n) \in Nat \ {0}
         /\ plan[n].listMode = "LIST_BATCHED" =>
              /\ Concurrent(n) \in Nat /\ plan[n].calls \in Nat
              /\ \A k \in Nat : k <= plan[n].calls /\ k <= Concurrent(n) => k <= OwnInflight(n)
<1>1. PICK w, k \in Nat : w = plan[n].workers /\ k = plan[n].calls
  <2>1. plan[n].workers \in Nat /\ plan[n].calls \in Nat
    BY DEF SoundPlans
  <2>2. QED
    BY <2>1
<1>2. WorkersAt(n) \in Nat /\ WorkersAt(n) >= 1
  BY <1>1 DEF WorkersAt, Larger
<1>3. PICK v \in Nat : v = WorkersAt(n) /\ v >= 1
  BY <1>2
<1>4. CASE plan[n].listMode = "LIST_BATCHED"
  <2>1. Strategy[n].maxConcurrentBatches \in Nat /\ k # 0
    BY <1>1, <1>4 DEF SoundPlans
  <2>2. PICK c \in Nat : c = Concurrent(n) /\ c >= 1
    BY <2>1 DEF Concurrent, Larger
  <2>3. OwnInflight(n) = Min({k, c})
    <3>1. OwnInflight(n) = Min({plan[n].calls, Concurrent(n)})
      BY <1>4 DEF OwnInflight, Concurrent
    <3>2. QED
      BY <1>1, <2>2, <3>1, Zenon
  <2>4. Min({k, c}) = IF k <= c THEN k ELSE c
    BY <1>1, MinOfTwo
  <2>5. OwnInflight(n) \in Nat \ {0} /\ \A i \in Nat : i <= k /\ i <= c => i <= OwnInflight(n)
    BY <1>1, <2>1, <2>2, <2>3, <2>4
  <2>6. QED
    BY <1>1, <1>2, <2>2, <2>5
<1>5. CASE plan[n].listMode # "LIST_BATCHED"
  <2>1. Min({k, v}) = IF k <= v THEN k ELSE v
    BY <1>1, <1>3, MinOfTwo
  <2>2. \/ plan[n].listMode = "LIST_PARALLEL" /\ OwnInflight(n) = Min({k, v})
        \/ OwnInflight(n) \in {v, 1}
    BY <1>1, <1>3, <1>5 DEF OwnInflight, WorkersAt
  <2>3. plan[n].listMode = "LIST_PARALLEL" => k # 0
    BY <1>1 DEF SoundPlans
  <2>4. OwnInflight(n) \in Nat \ {0}
    BY <1>1, <1>3, <2>1, <2>2, <2>3
  <2>5. QED
    BY <1>2, <1>5, <2>4
<1>6. QED
  BY <1>4, <1>5

(* The children of n whose peaks its workers multiply.                     *)
Multiplies(n, m) ==
  \/ plan[n].fieldsMode = "PAR_FIELDS" \/ plan[n].listMode = "LIST_PARALLEL"
  \/ plan[n].listMode = "LIST_BATCHED" /\ m \notin BatchedBelow(n)

RoomFor(peak, n, f, w) ==
  /\ peak \in Nat \ {0} /\ OwnInflight(n) <= peak
  /\ \A m \in ToSet(Field[n].children) :
       f[m] <= peak /\ (Multiplies(n, m) => w * f[m] <= peak)

LEMMA TimesKeeps ==
  ASSUME NEW w \in Nat \ {0}, NEW a \in Nat, NEW b \in Nat, a <= b
  PROVE  w * a \in Nat /\ w * b \in Nat /\ w * a <= w * b /\ a <= w * a /\ (b # 0 => w * b # 0)
<1>1. \A x \in Nat : w * x \in Nat /\ x <= w * x
  <2>1. PICK v \in Nat : w = v + 1
    <3>1. w - 1 \in Nat /\ w = (w - 1) + 1
      OBVIOUS
    <3>2. QED
      BY <3>1
  <2>2. \A x \in Nat : (v + 1) * x = v * x + x /\ v * x \in Nat
    BY TimesGrows
  <2>3. QED
    BY <2>1, <2>2
<1>2. PICK d \in Nat : b = a + d
  <2>1. b - a \in Nat /\ b = a + (b - a)
    OBVIOUS
  <2>2. QED
    BY <2>1
<1>3. w * (a + d) = w * a + w * d
  OBVIOUS
<1>4. w * a \in Nat /\ w * d \in Nat /\ w * b \in Nat /\ a <= w * a /\ b <= w * b
  BY <1>1
<1>5. w * a <= w * b
  BY <1>2, <1>3, <1>4
<1>6. QED
  BY <1>4, <1>5
LEMMA PeakRowIs ==
  ASSUME SoundPlans, plan \in Plans, NEW n \in Nodes, NEW f,
         \A m \in ToSet(Field[n].children) : f[m] \in Nat \ {0},
         NEW w, w = WorkersAt(n)
  PROVE  RoomFor(PeakRow(f, n), n, f, w)
<1> DEFINE children == ToSet(Field[n].children)
           batched == BatchedBelow(n)
<1>1. children \in SUBSET Nodes /\ batched \in SUBSET children /\ (children \ batched) \in SUBSET children
  BY ChildrenOfNodes DEF BatchedBelow
<1>2. PICK own \in Nat \ {0} : own = OwnInflight(n)
  BY OwnIs
<1>3. w \in Nat \ {0}
  BY OwnIs
<1>4. ASSUME NEW S \in SUBSET children
      PROVE  Below(f, S) \in Nat \ {0} /\ \A m \in S : f[m] <= Below(f, S)
  <2>1. S \in SUBSET Nodes /\ \A m \in S : f[m] \in Nat
    BY <1>1
  <2> HIDE DEF children
  <2>2. QED
    BY <2>1, BelowIs
<1>5. PICK a \in Nat \ {0} : a = Below(f, children) /\ \A m \in children : f[m] <= a
  BY <1>4
<1>6. PICK b \in Nat \ {0} : b = Below(f, batched) /\ \A m \in batched : f[m] <= b
  BY <1>1, <1>4
<1>7. PICK d \in Nat \ {0} :
        d = Below(f, children \ batched) /\ \A m \in children \ batched : f[m] <= d
  BY <1>1, <1>4
<1>8. PICK wa \in Nat \ {0} : wa = w * a /\ a <= wa /\ \A x \in Nat : x <= a => w * x <= wa
  BY <1>3, <1>5, TimesKeeps
<1>9. PICK wd \in Nat \ {0} : wd = w * d /\ d <= wd /\ \A x \in Nat : x <= d => w * x <= wd
  BY <1>3, <1>7, TimesKeeps
<1>10. \A x : MultipliedByWorkers(n, x) = w * x
  BY DEF MultipliedByWorkers, WorkersAt
<1> DEFINE peak == PeakRow(f, n)
<1> SUFFICES /\ peak \in Nat \ {0} /\ own <= peak
             /\ \A m \in children : f[m] <= peak /\ (Multiplies(n, m) => w * f[m] <= peak)
  BY <1>2 DEF RoomFor
<1>11. CASE children = {}
  <2>1. peak = own
    BY <1>2, <1>11 DEF PeakRow
  <2>2. QED
    BY <1>11, <2>1
<1>12. CASE children # {} /\ (plan[n].fieldsMode = "PAR_FIELDS" \/ plan[n].listMode = "LIST_PARALLEL")
  <2>1. peak = Larger(own, wa)
    BY <1>2, <1>5, <1>8, <1>10, <1>12 DEF PeakRow
  <2>2. peak \in Nat \ {0} /\ own <= peak /\ wa <= peak
    BY <2>1 DEF Larger
  <2>3. ASSUME NEW m \in children PROVE f[m] <= peak /\ w * f[m] <= peak
    <3>1. PICK x \in Nat : x = f[m] /\ x <= a
      BY <1>5
    <3>2. w * x <= wa /\ w * x \in Nat /\ x <= wa
      BY <1>3, <1>8, <3>1, TimesKeeps
    <3> HIDE DEF peak
    <3>3. x <= peak /\ w * x <= peak
      BY <2>2, <3>2
    <3>4. QED
      BY <3>1, <3>3
  <2>4. QED
    BY <2>2, <2>3
<1>13. CASE /\ children # {} /\ plan[n].fieldsMode # "PAR_FIELDS"
            /\ plan[n].listMode # "LIST_PARALLEL" /\ plan[n].listMode # "LIST_BATCHED"
  <2>1. peak = Larger(own, a)
    BY <1>2, <1>5, <1>13 DEF PeakRow
  <2>2. peak \in Nat \ {0} /\ own <= peak /\ a <= peak
    BY <2>1 DEF Larger
  <2>3. ASSUME NEW m \in children PROVE f[m] <= peak /\ ~Multiplies(n, m)
    <3>1. PICK x \in Nat : x = f[m] /\ x <= a
      BY <1>5
    <3> HIDE DEF peak
    <3>2. x <= peak
      BY <2>2, <3>1
    <3>3. QED
      BY <1>13, <3>1, <3>2 DEF Multiplies
  <2>4. QED
    BY <2>2, <2>3
<1>14. CASE /\ children # {} /\ plan[n].fieldsMode # "PAR_FIELDS"
            /\ plan[n].listMode # "LIST_PARALLEL" /\ plan[n].listMode = "LIST_BATCHED"
  <2>1. peak = Max({own, b, wd})
    <3>1. peak = Max({OwnInflight(n), Below(f, batched), MultipliedByWorkers(n, Below(f, children \ batched))})
      BY <1>14 DEF PeakRow
    <3>2. QED
      BY <1>2, <1>6, <1>7, <1>9, <1>10, <3>1, Zenon
  <2>2. PICK T : T = {own, b, wd}
    OBVIOUS
  <2>3. IsFiniteSet(T) /\ T \in SUBSET (Nat \ {0}) /\ T # {} /\ own \in T /\ b \in T /\ wd \in T
    <3>1. T = ({own} \cup {b}) \cup {wd}
      BY <2>2
    <3>2. IsFiniteSet(T)
      BY <3>1, FS_Singleton, FS_AddElement
    <3>3. QED
      BY <2>2, <3>2
  <2>4. Max(T) \in T /\ \A y \in T : y <= Max(T)
    BY <2>3, MaxIs
  <2>5. peak \in Nat \ {0} /\ own <= peak /\ b <= peak /\ wd <= peak
    <3> HIDE DEF peak
    <3>1. QED
      BY <2>1, <2>2, <2>3, <2>4
  <2>6. ASSUME NEW m \in children PROVE f[m] <= peak /\ (Multiplies(n, m) => w * f[m] <= peak)
    <3> HIDE DEF peak
    <3>1. CASE m \in batched
      <4>1. PICK x \in Nat : x = f[m] /\ x <= b
        BY <1>6, <3>1
      <4>2. x <= peak
        BY <2>5, <4>1
      <4>3. ~Multiplies(n, m)
        BY <1>14, <3>1 DEF Multiplies
      <4>4. QED
        BY <4>1, <4>2, <4>3
    <3>2. CASE m \notin batched
      <4>1. PICK x \in Nat : x = f[m] /\ x <= d
        BY <1>7, <3>2
      <4>2. w * x <= wd /\ w * x \in Nat /\ x <= wd
        BY <1>3, <1>9, <4>1, TimesKeeps
      <4>3. x <= peak /\ w * x <= peak
        BY <2>5, <4>2
      <4>4. QED
        BY <4>1, <4>3
    <3>3. QED
      BY <3>1, <3>2
  <2>7. QED
    BY <2>5, <2>6
<1>15. QED
  BY <1>11, <1>12, <1>13, <1>14

LEMMA PeakFits ==
  ASSUME SoundPlans, plan \in Plans, NEW n \in Nodes
  PROVE  RoomFor(PeakInflight[n], n, PeakInflight, WorkersAt(n))
<1> DEFINE Bad == {m \in Nodes : PeakInflight[m] \notin Nat \ {0}}
<1>1. ASSUME NEW m \in Nodes, \A c \in ToSet(Field[m].children) : PeakInflight[c] \in Nat \ {0}
      PROVE  RoomFor(PeakInflight[m], m, PeakInflight, WorkersAt(m))
  <2>1. PICK f, w : f = PeakInflight /\ w = WorkersAt(m)
    OBVIOUS
  <2>2. RoomFor(PeakRow(f, m), m, f, w)
    BY <1>1, <2>1, PeakRowIs
  <2>3. PeakRow(f, m) = PeakInflight[m]
    BY <2>1, PeakIs
  <2>4. QED
    BY <2>1, <2>2, <2>3
<1>2. Bad = {}
  <2>1. SUFFICES ASSUME Bad # {} PROVE FALSE
    OBVIOUS
  <2>2. Bad \in SUBSET Nodes
    OBVIOUS
  <2>3. PICK m \in Bad : \A c \in ToSet(Field[m].children) : c \notin Bad
    <3> HIDE DEF Bad
    <3>1. QED
      BY <2>1, <2>2, LowestNode DEF HasLowest
  <2>4. \A c \in ToSet(Field[m].children) : PeakInflight[c] \in Nat \ {0}
    BY <2>3, ChildrenOfNodes
  <2>5. RoomFor(PeakInflight[m], m, PeakInflight, WorkersAt(m))
    BY <1>1, <2>4
  <2>6. QED
    BY <2>3, <2>5 DEF RoomFor
<1>3. \A c \in ToSet(Field[n].children) : PeakInflight[c] \in Nat \ {0}
  BY <1>2, ChildrenOfNodes
<1>4. QED
  BY <1>1, <1>3

-----------------------------------------------------------------------------
(***************************************************************************)
(* What the semaphores keep: a parallel stage never has more jobs out than *)
(* its workers, and a batch never more chunks than may run at once.        *)
(***************************************************************************)
RunningIn(ch) == {j \in DOMAIN ch : ch[j].pc \in {"gate", "resolving", "publish"}}

SlotsKept(b) == Cardinality(RunningIn(chunk[b])) <= MaxConcurrent(b)

JobsOut(s) == {i \in 1..(scope[s].next - 1) : ~ret[Job(s, scope[s].stage, i)].done}

WorkersKept(s) ==
  scope[s].open /\ Mode(s, scope[s].stage) = "parallel" => Cardinality(JobsOut(s)) <= Workers(s)

Within ==
  (\A s \in Scopes : WorkersKept(s)) /\ (\A b \in Batches : SlotsKept(b))

LEMMA RunningFinite ==
  ASSUME NEW ch \in Seq(ChunkLocals)
  PROVE  /\ IsFiniteSet(RunningIn(ch)) /\ Cardinality(RunningIn(ch)) \in Nat
         /\ RunningIn(ch) \subseteq 1..Len(ch) /\ Len(ch) \in Nat
         /\ Cardinality(RunningIn(ch)) <= Len(ch)
<1>1. Len(ch) \in Nat /\ DOMAIN ch = 1..Len(ch)
  BY LenProperties
<1>2. PICK n \in Nat : n = Len(ch) /\ DOMAIN ch = 1..n
  BY <1>1
<1>3. RunningIn(ch) \subseteq 1..n
  BY <1>2 DEF RunningIn
<1>4. IsFiniteSet(1..n) /\ Cardinality(1..n) = n
  <2>1. 1 \in Int /\ n \in Int
    BY <1>2
  <2>2. IsFiniteSet(1..n) /\ Cardinality(1..n) = IF 1 > n THEN 0 ELSE n - 1 + 1
    BY <2>1, FS_Interval, Zenon
  <2>3. QED
    BY <1>2, <2>2
<1>5. QED
  BY <1>2, <1>3, <1>4, FS_Subset, FS_CardinalityType

(* How the chunks that hold a slot change, of the batch that moves and of  *)
(* any other.                                                              *)
LEMMA SlotsMove ==
  ASSUME NodeTypeOK, Control, NEW b \in Batches, BatchMove(b), NEW d \in Batches
  PROVE  \/ RunningIn(chunk'[d]) \subseteq RunningIn(chunk[d])
         \/ /\ Cardinality(RunningIn(chunk[d])) < MaxConcurrent(d)
            /\ RunningIn(chunk'[d]) \subseteq RunningIn(chunk[d]) \cup {Len(chunk[d]) + 1}
<1>a. BatchesTyped /\ Len(chunk[d]) \in Nat /\ DOMAIN chunk[d] = 1..Len(chunk[d])
  BY LenProperties DEF Control, BatchesTyped
<1>1. ASSUME chunk' = chunk PROVE RunningIn(chunk'[d]) \subseteq RunningIn(chunk[d])
  BY <1>1
<1>2. ASSUME NEW i \in DOMAIN chunk[b], NEW me, ChunkBecomes(b, i, me),
             chunk[b][i].pc \in {"gate", "resolving", "publish"} \/ me.pc = "done"
      PROVE  RunningIn(chunk'[d]) \subseteq RunningIn(chunk[d])
  <2>1. CASE d # b
    BY <1>2, <2>1 DEF ChunkBecomes
  <2>2. CASE d = b
    <3>1. chunk'[b] \in Seq(ChunkLocals) /\ Len(chunk'[b]) = Len(chunk[b])
      BY <1>2 DEF ChunkBecomes
    <3>2. DOMAIN chunk'[b] = 1..Len(chunk'[b])
      BY <3>1, LenProperties
    <3>3. \A j \in 1..Len(chunk[b]) : chunk'[b][j] = IF j = i THEN me ELSE chunk[b][j]
      BY <1>2 DEF ChunkBecomes
    <3>4. QED
      BY <1>a, <1>2, <2>2, <3>1, <3>2, <3>3 DEF RunningIn
  <2>3. QED
    BY <2>1, <2>2
<1>3. CASE LaunchChunk(b)
  <2>1. /\ \A e \in Batches : e # b => chunk'[e] = chunk[e]
        /\ chunk' \in [Batches -> Seq(ChunkLocals)] /\ Len(chunk'[b]) = Len(chunk[b]) + 1
        /\ \A i \in 1..Len(chunk[b]) : chunk'[b][i] = chunk[b][i]
    BY <1>3, <1>a, LaunchEffect
  <2>2. DOMAIN chunk'[b] = 1..Len(chunk'[b])
    BY <2>1, LenProperties
  <2>3. Cardinality(RunningIn(chunk[b])) < MaxConcurrent(b)
    BY <1>3 DEF LaunchChunk, Running, RunningIn
  <2>4. CASE d # b
    BY <2>1, <2>4
  <2>5. CASE d = b
    <3>1. PICK n \in Nat : n = Len(chunk[b]) /\ DOMAIN chunk[b] = 1..n /\ DOMAIN chunk'[b] = 1..(n + 1)
      BY <1>a, <2>1, <2>2, <2>5
    <3>2. ASSUME NEW j \in RunningIn(chunk'[b]) PROVE j \in RunningIn(chunk[b]) \cup {n + 1}
      <4>1. j \in 1..(n + 1)
        BY <3>1 DEF RunningIn
      <4>2. CASE j = n + 1
        BY <4>2
      <4>3. CASE j # n + 1
        <5>1. j \in 1..n /\ chunk'[b][j] = chunk[b][j]
          BY <2>1, <3>1, <4>1, <4>3
        <5>2. QED
          BY <3>1, <5>1 DEF RunningIn
      <4>4. QED
        BY <4>2, <4>3
    <3>3. QED
      BY <2>3, <2>5, <3>1, <3>2
  <2>6. QED
    BY <2>4, <2>5
<1>4. ASSUME NEW i \in DOMAIN chunk[b], ChunkStep(b, i)
      PROVE  RunningIn(chunk'[d]) \subseteq RunningIn(chunk[d])
  <2>a. PICK span \in Nat : span = Span(b, Len(batch[b].owners), i)
    BY ChunkFacts
  <2>b. /\ DOMAIN ChunkItems(b, i) = 1..span
        /\ \A m \in 1..span : ChunkItems(b, i)[m] \in 1..Len(batch[b].items)
    BY <2>a, ChunkFacts
  <2>c. Len(batch[b].out) = Len(batch[b].items)
    BY ItemFacts
  <2>1. CASE ChunkAcquiresGate(b, i)
    <3>1. PICK me \in ChunkLocals : ChunkBecomes(b, i, me) /\ chunk[b][i].pc = "gate"
      BY <1>a, <2>1, AcquireEffect
    <3>2. QED
      BY <1>2, <3>1
  <2>2. CASE ChunkReturns(b, i)
    <3>1. PICK me \in ChunkLocals : ChunkBecomes(b, i, me) /\ chunk[b][i].pc = "resolving"
      BY <1>a, <2>2, <2>b, ReturnsEffect
    <3>2. QED
      BY <1>2, <3>1
  <2>3. CASE ChunkPublishes(b, i)
    <3>1. PICK m, o : m = PublishedItem(b, i) /\ o = PublishedOutcome(b, i)
      OBVIOUS
    <3>2. chunk[b][i].pc = "publish"
      BY <2>3 DEF ChunkPublishes, ChunkAt
    <3>3. o \in Outcomes /\ m \in 1..Len(batch[b].items)
      BY <3>1, <3>2, PublishedTyped
    <3>4. o.val \in Values /\ m \in 1..Len(batch[b].out)
      BY <2>c, <3>3 DEF Outcomes
    <3>5. PICK len : len = Len(ChunkItems(b, i))
      OBVIOUS
    <3>6. PICK me \in ChunkLocals, q \in BatchLocals : ChunkBecomes(b, i, me)
      BY <1>a, <2>3, <3>1, <3>4, <3>5, PublishesEffect
    <3>7. QED
      BY <1>2, <3>2, <3>6
  <2>4. CASE ChunkFails(b, i)
    <3>1. PICK me \in ChunkLocals : ChunkBecomes(b, i, me) /\ me.pc = "done"
      BY <1>a, <2>4, FailsEffect
    <3>2. QED
      BY <1>2, <3>1
  <2>5. QED
    BY <1>4, <2>1, <2>2, <2>3, <2>4 DEF ChunkStep
<1>5. CASE ~LaunchChunk(b) /\ ~ \E i \in DOMAIN chunk[b] : ChunkStep(b, i)
  <2>1. chunk' = chunk
    BY <1>5 DEF BatchMove, InvokeBatch, BatchStep, ClassifyItem, ClassifyUncached, ClassifyHit,
       ClassifyPending, ClassifyMiss, Classify, JoinChunks, AwaitReady, AwaitCancelled, ReturnBatch
  <2>2. QED
    BY <1>1, <2>1
<1>6. QED
  BY <1>3, <1>4, <1>5

LEMMA SlotsStay ==
  ASSUME NodeTypeOK, Control, Control', GoesOn, NEW d \in Batches, SlotsKept(d)
  PROVE  SlotsKept(d)'
<1>a. chunk[d] \in Seq(ChunkLocals) /\ chunk'[d] \in Seq(ChunkLocals) /\ Len(chunk[d]) \in Nat
  BY LenProperties DEF Control, BatchesTyped
<1>b. /\ IsFiniteSet(RunningIn(chunk[d])) /\ Cardinality(RunningIn(chunk[d])) \in Nat
      /\ RunningIn(chunk[d]) \subseteq 1..Len(chunk[d])
  BY <1>a, RunningFinite
<1>c. /\ IsFiniteSet(RunningIn(chunk'[d])) /\ Cardinality(RunningIn(chunk'[d])) \in Nat
  BY <1>a, RunningFinite
<1>d. MaxConcurrent(d)' = MaxConcurrent(d) /\ MaxConcurrent(d) \in Int
  BY BatchSizesAssumption DEF MaxConcurrent, Larger
<1>1. CASE RunningIn(chunk'[d]) \subseteq RunningIn(chunk[d])
  <2>1. Cardinality(RunningIn(chunk'[d])) <= Cardinality(RunningIn(chunk[d]))
    BY <1>1, <1>b, FS_Subset
  <2>2. QED
    BY <1>b, <1>c, <1>d, <2>1 DEF SlotsKept
<1>2. CASE /\ Cardinality(RunningIn(chunk[d])) < MaxConcurrent(d)
           /\ RunningIn(chunk'[d]) \subseteq RunningIn(chunk[d]) \cup {Len(chunk[d]) + 1}
  <2>1. PICK S, T, x : S = RunningIn(chunk[d]) /\ T = RunningIn(chunk'[d]) /\ x = Len(chunk[d]) + 1
    OBVIOUS
  <2>2. x \notin S
    BY <1>a, <1>b, <2>1
  <2>3. IsFiniteSet(S) /\ IsFiniteSet(S \cup {x}) /\ Cardinality(S \cup {x}) = Cardinality(S) + 1
    BY <1>b, <2>1, <2>2, FS_AddElement
  <2>4. Cardinality(T) <= Cardinality(S \cup {x})
    BY <1>2, <2>1, <2>3, FS_Subset
  <2>5. Cardinality(T) <= MaxConcurrent(d)
    BY <1>b, <1>c, <1>d, <1>2, <2>1, <2>3, <2>4
  <2>6. QED
    BY <1>d, <2>1, <2>5 DEF SlotsKept
<1>3. CASE UNCHANGED batchVars
  BY <1>3, <1>1 DEF batchVars
<1>4. QED
  BY <1>1, <1>2, <1>3, SlotsMove DEF GoesOn

LEMMA OpenedFromStart == \A items : Opened(items).next = 1
BY DEF Opened, Closed

(* What a step does to a scope that is open after it.                      *)
LEMMA ScopeMoves ==
  ASSUME Nested, ExecNext, NEW t \in Scopes, scope'[t].open, scope'[t].next # 1
  PROVE  /\ scope[t].open /\ scope'[t].stage = scope[t].stage
         /\ \/ scope'[t].next = scope[t].next
            \/ Mode(t, scope[t].stage) # "parallel"
            \/ StartParallelJob(t) /\ scope'[t].next = scope[t].next + 1
<1>a. ScopesTyped /\ DOMAIN scope = Scopes /\ scope[t] \in ScopeLocals
  BY DEF Nested, ScopesTyped
<1> DEFINE Same == scope'[t].open = scope[t].open /\ scope'[t].stage = scope[t].stage
                   /\ scope'[t].next = scope[t].next
           Good == /\ scope[t].open /\ scope'[t].stage = scope[t].stage
                   /\ \/ scope'[t].next = scope[t].next
                      \/ Mode(t, scope[t].stage) # "parallel"
                      \/ StartParallelJob(t) /\ scope'[t].next = scope[t].next + 1
<1>1. ASSUME NEW s \in Scopes, NEW l, ScopeBecomes(s, l), s # t PROVE Good
  BY <1>1 DEF ScopeBecomes
<1>2. ASSUME NEW s \in Scopes, StartSequentialJob(s) \/ StartParallelJob(s) PROVE Good
  <2>1. PICK x : StartJob(s, x)
    BY <1>2 DEF StartSequentialJob, StartParallelJob
  <2>2. PICK l \in ScopeLocals :
           /\ ScopeBecomes(s, l)
           /\ l.open = scope[s].open /\ l.stage = scope[s].stage /\ l.next = scope[s].next + 1
    BY <1>a, <2>1, StartEffect
  <2>3. CASE s = t
    <3>1. scope'[t] = l
      BY <2>2, <2>3 DEF ScopeBecomes
    <3>2. StartSequentialJob(s) => Mode(s, scope[s].stage) # "parallel"
      BY DEF StartSequentialJob, InMode, Stage
    <3>3. QED
      BY <1>2, <2>2, <2>3, <3>1, <3>2
  <2>4. QED
    BY <1>1, <2>2, <2>3
<1>3. ASSUME NEW s \in Scopes, StartBatch(s) PROVE Good
  <2>1. PICK l \in ScopeLocals :
           /\ ScopeBecomes(s, l)
           /\ l.open = scope[s].open /\ l.stage = scope[s].stage
    BY <1>a, <1>3, StartBatchEffect
  <2>2. CASE s = t
    <3>1. scope'[t] = l
      BY <2>1, <2>2 DEF ScopeBecomes
    <3>2. Mode(s, scope[s].stage) # "parallel"
      BY <1>3 DEF StartBatch, InMode, Stage
    <3>3. QED
      BY <2>1, <2>2, <3>1, <3>2
  <2>3. QED
    BY <1>1, <2>1, <2>2
<1>4. ASSUME NEW s \in Scopes, ParallelJobFails(s) PROVE Good
  <2>1. \A i \in 1..(scope[s].next - 1) : JobReturned(s, i).err \in Errors
    BY <1>4, JobErrorsTyped DEF ParallelJobFails, InMode, Stage
  <2>2. PICK l \in ScopeLocals :
           /\ ScopeBecomes(s, l)
           /\ l.open = scope[s].open /\ l.stage = scope[s].stage /\ l.next = scope[s].next
    BY <1>a, <1>4, <2>1, JobFailsEffect
  <2>3. CASE s = t
    BY <2>2, <2>3 DEF ScopeBecomes
  <2>4. QED
    BY <1>1, <2>2, <2>3
<1>5. ASSUME NEW s \in Scopes, NEW o, Close(s, o) PROVE Good
  <2>1. PICK l \in ScopeLocals : ScopeBecomes(s, l) /\ ~l.open
    BY <1>a, <1>5, CloseEffect
  <2>2. s # t
    BY <2>1 DEF ScopeBecomes
  <2>3. QED
    BY <1>1, <2>1, <2>2
<1>6. ASSUME NEW s \in Scopes, EndStage(s) PROVE Good
  <2>1. CASE scope' = [scope EXCEPT ![s] =
                         [Opened(scope[s].items) EXCEPT !.stage = scope[s].stage + 1]]
    <3>1. PICK l \in ScopeLocals : ScopeBecomes(s, l) /\ l.next = 1
      BY <1>a, <2>1, NextStageEffect
    <3>2. s # t
      BY <3>1 DEF ScopeBecomes
    <3>3. QED
      BY <1>1, <3>1, <3>2
  <2>2. QED
    BY <1>5, <1>6, <2>1 DEF EndStage
<1>7. ASSUME NEW s \in Scopes, FailStage(s) PROVE Good
  BY <1>5, <1>7 DEF FailStage
<1>8. ASSUME NEW s \in Scopes, NEW items, scope' = [scope EXCEPT ![s] = Opened(items)] PROVE Good
  <2>1. s # t
    <3>1. SUFFICES ASSUME s = t PROVE FALSE
      OBVIOUS
    <3>2. scope'[t] = Opened(items)
      BY <1>a, <1>8, <3>1
    <3>3. QED
      BY <3>2, OpenedFromStart
  <2>2. scope'[t] = scope[t]
    BY <1>a, <1>8, <2>1
  <2>3. QED
    BY <2>2
<1>9. ASSUME UNCHANGED scope PROVE Good
  BY <1>9
<1>10. ASSUME NEW c \in Calls, Dispatch(c) PROVE Good
  <2>1. c \in Scopes
    BY DEF Scopes
  <2>2. UNCHANGED scope \/ \E items : scope' = [scope EXCEPT ![c] = Opened(items)]
    BY <1>10 DEF Dispatch
  <2> HIDE DEF Good
  <2>3. QED
    BY <1>8, <1>9, <2>1, <2>2
<1>11. ASSUME NEW b \in Batches, DispatchBatch(b) PROVE Good
  <2>1. b \in Scopes
    BY DEF Scopes
  <2>2. UNCHANGED scope \/ \E items : scope' = [scope EXCEPT ![b] = Opened(items)]
    BY <1>11 DEF DispatchBatch
  <2> HIDE DEF Good
  <2>3. QED
    BY <1>8, <1>9, <2>1, <2>2
<1>12. QED
  BY <1>2, <1>3, <1>4, <1>6, <1>7, <1>9, <1>10, <1>11
  DEF ExecNext, Progress, ScopeStep, CancelRequest, Responded, execVars

LEMMA WorkersStay ==
  ASSUME SoundPlans, Executing, Nested', ExecNext, plan' = plan, NEW t \in Scopes, WorkersKept(t)
  PROVE  WorkersKept(t)'
<1>a. Nested /\ ScopesTyped /\ scope[t] \in ScopeLocals /\ plan \in Plans /\ scope'[t] \in ScopeLocals
  BY DEF Executing, Nested, ScopesTyped
<1>b. \A k : Mode(t, k)' = Mode(t, k)
  BY SamePlan
<1>c. Workers(t)' = Workers(t) /\ \A k, i : Job(t, k, i)' = Job(t, k, i)
  BY DEF Workers, Job, IsList, Children, Path
<1> SUFFICES ASSUME scope'[t].open, Mode(t, scope'[t].stage) = "parallel"
             PROVE  Cardinality(JobsOut(t)') <= Workers(t)
  BY <1>b, <1>c DEF WorkersKept
<1>1. t # Root /\ t[2] \in Nodes
  BY ChildrenTyped DEF Mode, IsList
<1>2. Workers(t) \in Nat /\ Workers(t) >= 1
  BY <1>a, <1>1, OwnIs DEF Workers, WorkersAt
<1>3. JobsOut(t)' = {i \in 1..(scope'[t].next - 1) : ~ret'[Job(t, scope'[t].stage, i)].done}
  BY <1>c DEF JobsOut
<1>4. CASE scope'[t].next = 1
  <2>1. JobsOut(t)' = {}
    BY <1>3, <1>4
  <2>2. Cardinality(JobsOut(t)') = 0
    BY <2>1, FS_EmptySet, Zenon
  <2>3. QED
    BY <1>2, <2>2
<1>5. CASE scope'[t].next # 1
  <2>1. PICK k, n, m : k = scope[t].stage /\ n = scope[t].next /\ m = scope'[t].next
    OBVIOUS
  <2>2. /\ scope[t].open /\ scope'[t].stage = k /\ n \in Nat /\ n >= 1 /\ Mode(t, k) = "parallel"
        /\ m = n \/ (StartParallelJob(t) /\ m = n + 1)
    BY <1>a, <1>5, <2>1, ScopeMoves DEF ScopeLocals
  <2>3. PICK S, T : S = JobsOut(t) /\ T = JobsOut(t)'
    OBVIOUS
  <2>4. /\ S = {i \in 1..(n - 1) : ~ret[Job(t, k, i)].done}
        /\ T = {i \in 1..(m - 1) : ~ret'[Job(t, k, i)].done}
    BY <1>3, <2>1, <2>2, <2>3 DEF JobsOut
  <2>5. ASSUME NEW i \in 1..(n - 1), ret[Job(t, k, i)].done PROVE ret'[Job(t, k, i)].done
    <3>1. Job(t, k, i) \in Scopes
      BY <1>a, <2>1, <2>2, JobErrorsTyped
    <3>2. QED
      BY <1>a, <2>5, <3>1, RetsSettle
  <2>6. IsFiniteSet(S) /\ Cardinality(S) \in Nat /\ Cardinality(S) <= Workers(t)
    <3>1. IsFiniteSet(1..(n - 1))
      BY <2>2, FS_Interval
    <3>2. S \in SUBSET (1..(n - 1))
      BY <2>4
    <3>3. IsFiniteSet(S) /\ Cardinality(S) \in Nat
      BY <3>1, <3>2, FS_Subset, FS_CardinalityType
    <3>4. Cardinality(S) <= Workers(t)
      BY <2>1, <2>2, <2>3 DEF WorkersKept
    <3>5. QED
      BY <3>3, <3>4
  <2>7. CASE m = n
    <3>1. T \in SUBSET S
      BY <2>4, <2>5, <2>7
    <3>2. Cardinality(T) <= Cardinality(S) /\ Cardinality(T) \in Nat
      BY <2>6, <3>1, FS_Subset, FS_CardinalityType
    <3>3. QED
      BY <1>2, <2>3, <2>6, <3>2
  <2>8. CASE StartParallelJob(t) /\ m = n + 1
    <3>1. Cardinality(S) < Workers(t)
      <4>1. Cardinality({i \in 1..(scope[t].next - 1) : ~JobReturned(t, i).done}) < Workers(t)
        BY <2>8 DEF StartParallelJob
      <4>2. S = {i \in 1..(scope[t].next - 1) : ~JobReturned(t, i).done}
        BY <2>1, <2>4 DEF JobReturned, Stage
      <4>3. QED
        BY <4>1, <4>2
    <3>2. T \in SUBSET (S \cup {n})
      <4>1. 1..(m - 1) = (1..(n - 1)) \cup {n}
        BY <2>2, <2>8
      <4>2. QED
        BY <2>4, <2>5, <4>1
    <3>3. n \notin S
      BY <2>2, <2>4
    <3>4. IsFiniteSet(S \cup {n}) /\ Cardinality(S \cup {n}) = Cardinality(S) + 1
      BY <2>6, <3>3, FS_AddElement
    <3>5. Cardinality(T) <= Cardinality(S \cup {n}) /\ Cardinality(T) \in Nat
      BY <3>2, <3>4, FS_Subset, FS_CardinalityType
    <3>6. QED
      BY <1>2, <2>3, <2>6, <3>1, <3>4, <3>5
  <2>9. QED
    BY <2>2, <2>7, <2>8
<1>6. QED
  BY <1>4, <1>5

LEMMA WithinInit ==
  ASSUME SoundPlans
  PROVE  ExecInit => Within
<1> SUFFICES ASSUME ExecInit PROVE Within
  OBVIOUS
<1>a. plan \in Plans
  BY DEF ExecInit
<1>1. ASSUME NEW s \in Scopes PROVE WorkersKept(s)
  <2>1. s # Root => ~scope[s].open
    BY ClosedFacts DEF ExecInit
  <2>2. ~IsList(Root) /\ Mode(Root, scope[Root].stage) # "parallel"
    BY DEF Mode, IsList
  <2>3. QED
    BY <2>1, <2>2 DEF WorkersKept
<1>2. ASSUME NEW b \in Batches PROVE SlotsKept(b)
  <2>1. chunk[b] = <<>>
    BY DEF ExecInit, BatchInit
  <2>2. RunningIn(chunk[b]) = {}
    BY <2>1 DEF RunningIn
  <2>3. Cardinality(RunningIn(chunk[b])) = 0
    BY <2>2, FS_EmptySet, Zenon
  <2>4. MaxConcurrent(b) \in Int /\ MaxConcurrent(b) >= 1
    BY BatchSizesAssumption DEF MaxConcurrent, Larger
  <2>5. QED
    BY <2>3, <2>4 DEF SlotsKept
<1>3. QED
  BY <1>1, <1>2 DEF Within

LEMMA WithinStep ==
  ASSUME SoundPlans
  PROVE  Executing /\ Within /\ [ExecNext]_execVars => Within'
<1> SUFFICES ASSUME Executing, Within, [ExecNext]_execVars PROVE Within'
  OBVIOUS
<1>a. Executing' /\ GoesOn
  BY ExecutingStep, ExecStepGoesOn
<1>b. NodeTypeOK /\ Control /\ Control' /\ Nested'
  BY <1>a DEF Executing, TypedBatches
<1>1. \A b \in Batches : SlotsKept(b)'
  BY <1>a, <1>b, SlotsStay DEF Within
<1>2. \A s \in Scopes : WorkersKept(s)'
  <2>1. CASE ExecNext
    <3>1. plan' = plan
      BY <2>1 DEF ExecNext, Responded, execVars
    <3>2. QED
      BY <1>b, <2>1, <3>1, WorkersStay DEF Within
  <2>2. CASE UNCHANGED execVars
    <3>1. UNCHANGED <<plan, scope, ret>>
      BY <2>2 DEF execVars
    <3>2. ASSUME NEW s \in Scopes PROVE WorkersKept(s)' <=> WorkersKept(s)
      <4>1. \A k : Mode(s, k)' = Mode(s, k)
        BY <3>1, SamePlan
      <4>2. Workers(s)' = Workers(s) /\ JobsOut(s)' = JobsOut(s)
        BY <3>1 DEF Workers, JobsOut, Job, IsList, Children, Path
      <4>3. QED
        BY <3>1, <4>1, <4>2 DEF WorkersKept
    <3>3. QED
      BY <3>2 DEF Within
  <2>3. QED
    BY <2>1, <2>2
<1>3. QED
  BY <1>1, <1>2 DEF Within

-----------------------------------------------------------------------------
(***************************************************************************)
(* The resolvers that run, and whom they run for.  A resolver runs for a   *)
(* job, for the scope that awaits the job, for the one that awaits that    *)
(* scope's job, and so on up to the root.                                  *)
(***************************************************************************)
Units == {<<c, 0>> : c \in Resolving} \cup Placed(chunk, Nodes, {"resolving"})

UnitsOf(j) == {u \in Units : u[1] = j}

Live(j) == j \in Jobs /\ Busy(j) /\ ~ret[j].done

Climbs(X) == \A k \in X : \A s \in Scopes : AwaitedBy(k, s, scope[s]) => s \in X

RunsFor(j) == {t \in Scopes : \A X \in SUBSET Scopes : j \in X /\ Climbs(X) => t \in X}

Under(t) == {u \in Units : t \in RunsFor(u[1])}

Waiting(t) == {k \in Jobs : AwaitedBy(k, t, scope[t]) /\ Live(k)}

LEMMA UnitsAre ==
  ASSUME TypedBatches
  PROVE  IsFiniteSet(Units) /\ Cardinality(Units) = gate
<1>a. NodeTypeOK /\ BatchesTyped
  BY DEF TypedBatches, Control
<1> DEFINE C == {<<c, 0>> : c \in Resolving}
<1>1. PICK P : P = Placed(chunk, Nodes, {"resolving"})
  OBVIOUS
<1>2. IsFiniteSet(P) /\ Cardinality(P) \in Nat /\ Cardinality(P) = ChunksResolving(chunk)
  BY <1>a, <1>1, PlacedFinite DEF ChunksResolving
<1>3. IsFiniteSet(Resolving) /\ Cardinality(Resolving) \in Nat
  <2>1. Resolving \in SUBSET Calls
    BY DEF Resolving
  <2>2. QED
    BY <2>1, CallsAssumption, FS_Subset, FS_CardinalityType
<1>4. IsFiniteSet(C) /\ Cardinality(C) = Cardinality(Resolving)
  <2> DEFINE g == [c \in Resolving |-> <<c, 0>>]
  <2>1. g \in Surjection(Resolving, C)
    BY DEF Surjection
  <2>2. g \in Injection(Resolving, C)
    <3>1. g \in [Resolving -> C]
      OBVIOUS
    <3>2. ASSUME NEW a \in Resolving, NEW b \in Resolving, g[a] = g[b] PROVE a = b
      <4>1. g[a] = <<a, 0>> /\ g[b] = <<b, 0>>
        OBVIOUS
      <4> HIDE DEF g
      <4>2. <<a, 0>> = <<b, 0>>
        BY <3>2, <4>1
      <4>3. QED
        BY <4>2
    <3> HIDE DEF g, C
    <3>3. QED
      BY <3>1, <3>2 DEF Injection, IsInjective
  <2> HIDE DEF g, C
  <2>3. QED
    BY <1>3, <2>1, <2>2, FS_Surjection
<1>5. C \cap P = {}
  <2>1. \A u \in C : u[1] \in Calls
    BY DEF Resolving
  <2>2. \A u \in P : u[1] \in Batches
    BY <1>1 DEF Placed
  <2> HIDE DEF C
  <2>3. QED
    BY <2>1, <2>2, Kinds
<1>6. PICK D : D = C
  OBVIOUS
<1>7. IsFiniteSet(D \cup P) /\ Cardinality(D \cup P) = Cardinality(D) + Cardinality(P)
  <2> HIDE DEF C
  <2>1. D \cap P = {} /\ IsFiniteSet(D)
    BY <1>4, <1>5, <1>6
  <2>2. QED
    <3>1. /\ IsFiniteSet(D \cup P)
          /\ Cardinality(D \cup P) = Cardinality(D) + Cardinality(P) - Cardinality({})
      BY <1>2, <2>1, FS_Union
    <3>2. Cardinality({}) = 0
      BY FS_EmptySet
    <3>3. Cardinality(D) \in Nat
      BY <2>1, FS_CardinalityType
    <3>4. QED
      BY <1>2, <3>1, <3>2, <3>3
<1>8. Units = D \cup P
  BY <1>1, <1>6 DEF Units
<1>9. gate = Cardinality(Resolving) + ChunksResolving(chunk)
  BY DEF TypedBatches, Tokens
<1> HIDE DEF C
<1>10. QED
  BY <1>2, <1>4, <1>6, <1>7, <1>8, <1>9

LEMMA UnderFinite ==
  ASSUME TypedBatches, NEW t
  PROVE  /\ IsFiniteSet(Under(t)) /\ Cardinality(Under(t)) \in Nat
         /\ IsFiniteSet(UnitsOf(t)) /\ Cardinality(UnitsOf(t)) \in Nat
<1>1. Under(t) \in SUBSET Units /\ UnitsOf(t) \in SUBSET Units
  BY DEF Under, UnitsOf
<1>2. QED
  BY <1>1, UnitsAre, FS_Subset, FS_CardinalityType

(* A resolver runs for a live job, one for a call.                         *)
LEMMA UnitsRun ==
  ASSUME Executing, NEW u \in Units
  PROVE  /\ u[1] \in Jobs /\ Live(u[1]) /\ ~Resolved(u[1])
         /\ u[1] \in Calls => u = <<u[1], 0>>
         /\ u[1] \in Batches => /\ u = <<u[1], u[2]>> /\ u[2] \in RunningIn(chunk[u[1]])
                                /\ batch[u[1]].pc = "launch"
<1>a. NodeTypeOK /\ Control /\ Nested /\ BatchesTyped
  BY DEF Executing, TypedBatches, Control
<1>b. ASSUME NEW j \in Jobs, ~Resolved(j) PROVE ~ret[j].done
  <2>1. j \in Scopes /\ j # Root
    BY Kinds DEF Jobs
  <2>2. QED
    BY <1>a, <1>b, <2>1 DEF Nested, RetFits
<1>1. CASE u \in {<<c, 0>> : c \in Resolving}
  <2>1. PICK c \in Calls : u = <<c, 0>> /\ pc[c] = "resolving"
    BY <1>1 DEF Resolving, At
  <2>2. c \in Jobs /\ Busy(c) /\ ~Resolved(c) /\ c \notin Batches
    BY <2>1, Kinds DEF Busy, Resolved
  <2>3. QED
    BY <1>b, <2>1, <2>2 DEF Live
<1>2. CASE u \in Placed(chunk, Nodes, {"resolving"})
  <2>1. PICK b \in Batches, j \in Nat :
          u = <<b, j>> /\ j \in DOMAIN chunk[b] /\ chunk[b][j].pc = "resolving"
    BY <1>2 DEF Placed
  <2>2. ChunkFits(b, batch[b], j, chunk[b][j])
    BY <1>a, <2>1, ChunkFacts
  <2>3. batch[b].pc = "launch"
    BY <2>1, <2>2 DEF ChunkFits
  <2>4. b \in Jobs /\ Busy(b) /\ ~Resolved(b) /\ b \notin Calls
    BY <2>3, Kinds DEF Busy, Resolved
  <2>5. QED
    BY <1>b, <2>1, <2>3, <2>4 DEF Live, RunningIn
<1>3. QED
  BY <1>1, <1>2 DEF Units

LEMMA RunsForItself ==
  ASSUME NEW j \in Scopes
  PROVE  j \in RunsFor(j) /\ RunsFor(j) \in SUBSET Scopes /\ Climbs(RunsFor(j))
BY DEF RunsFor, Climbs

(* Whatever a resolver runs for, it runs for through a job of that scope.  *)
LEMMA RunsThrough ==
  ASSUME NEW j \in Scopes, NEW t \in RunsFor(j), t # j
  PROVE  \E k \in RunsFor(j) : AwaitedBy(k, t, scope[t])
<1>1. SUFFICES ASSUME \A k \in RunsFor(j) : ~AwaitedBy(k, t, scope[t]) PROVE FALSE
  OBVIOUS
<1> DEFINE X == RunsFor(j) \ {t}
<1>2. X \in SUBSET Scopes /\ j \in X
  BY RunsForItself
<1>3. Climbs(X)
  BY <1>1, RunsForItself DEF Climbs
<1>4. t \in X
  <2> HIDE DEF X
  <2>1. QED
    BY <1>2, <1>3 DEF RunsFor
<1>5. QED
  BY <1>4

LEMMA RunsForLive ==
  ASSUME Nested, NEW j \in Jobs, Live(j)
  PROVE  /\ \A t \in RunsFor(j) : t = Root \/ Live(t)
         /\ Root \in RunsFor(j)
<1>a. /\ ScopesTyped /\ \A k \in Jobs : JobFits(k)
      /\ \A s \in Scopes : ScopeFits(s, scope[s]) /\ RetFits(s) /\ scope[s] \in ScopeLocals
  BY DEF Nested, ScopesTyped
<1>b. \A k \in Jobs : k \in Scopes /\ k # Root /\ k[2] \in Nodes /\ (Resolved(k) => Busy(k))
  BY Kinds DEF Jobs, Resolved, Busy
<1>1. \A t \in RunsFor(j) : t = Root \/ Live(t)
  <2> DEFINE X == {s \in Scopes : s = Root \/ Live(s)}
  <2>1. X \in SUBSET Scopes /\ j \in X
    BY <1>b
  <2>2. Climbs(X)
    <3>1. ASSUME NEW s \in Scopes, scope[s].open, s # Root PROVE Live(s)
      <4>1. s \in Jobs
        BY <3>1, ChildrenTyped
      <4>2. ~ret[s].done /\ Resolved(s)
        BY <1>a, <3>1 DEF RetFits
      <4>3. QED
        BY <1>b, <4>1, <4>2 DEF Live
    <3>2. QED
      BY <3>1 DEF Climbs, AwaitedBy
  <2>3. \A t \in RunsFor(j) : t \in X
    <3> HIDE DEF X
    <3>1. QED
      BY <2>1, <2>2 DEF RunsFor
  <2>4. QED
    BY <2>3
<1>2. Root \in RunsFor(j)
  <2> DEFINE S == {n \in Nodes : \E k \in RunsFor(j) : k \in Jobs /\ k[2] = n}
  <2>1. S \in SUBSET Nodes /\ S # {}
    <3>1. j \in RunsFor(j) /\ j[2] \in Nodes
      BY <1>b, RunsForItself
    <3>2. QED
      BY <3>1
  <2>2. PICK n \in S : \A m \in S : n \notin ToSet(Field[m].children)
    BY <2>1, TreeAssumption
  <2>3. PICK k \in RunsFor(j) : k \in Jobs /\ k[2] = n
    BY <2>2
  <2>4. Live(k)
    BY <1>1, <1>b, <2>3
  <2>5. PICK s \in Scopes : AwaitedBy(k, s, scope[s])
    BY <1>a, <2>3, <2>4 DEF JobFits, Live
  <2>6. s \in RunsFor(j)
    BY <1>b, <2>3, <2>5, RunsForItself DEF Climbs
  <2>7. CASE s = Root
    BY <2>6, <2>7
  <2>8. CASE s # Root
    <3>1. s \in Jobs /\ s[2] \in Nodes /\ Children(s) = Field[s[2]].children
      BY <2>8, ChildrenTyped
    <3>2. s[2] \in S
      BY <2>6, <3>1
    <3>3. k[2] \in ToSet(Children(s))
      BY <1>a, <2>5, StartedAreChildren DEF AwaitedBy
    <3>4. QED
      BY <2>2, <2>3, <3>1, <3>2, <3>3
  <2>9. QED
    BY <2>7, <2>8
<1>3. QED
  BY <1>1, <1>2

(* So what runs for a scope is its own or runs for a job it waits for.     *)
LEMMA UnderSplits ==
  ASSUME Executing, NEW t \in Scopes
  PROVE  \A u \in Under(t) : u \in UnitsOf(t) \/ \E k \in Waiting(t) : u \in Under(k)
<1>1. SUFFICES ASSUME NEW u \in Under(t), u \notin UnitsOf(t)
               PROVE  \E k \in Waiting(t) : u \in Under(k)
  OBVIOUS
<1>2. PICK j : j = u[1] /\ u \in Units /\ t \in RunsFor(j) /\ t # j
  BY <1>1 DEF Under, UnitsOf
<1>3. j \in Jobs /\ j \in Scopes /\ Live(j) /\ Nested
  BY <1>2, UnitsRun, Kinds DEF Executing, Jobs
<1>4. PICK k \in RunsFor(j) : AwaitedBy(k, t, scope[t])
  BY <1>2, <1>3, RunsThrough
<1>5. k \in Jobs
  <2>1. ScopeFits(t, scope[t])
    BY <1>3 DEF Nested
  <2>2. QED
    BY <1>4, <2>1 DEF AwaitedBy, ScopeFits
<1>6. Live(k)
  BY <1>3, <1>4, <1>5, RunsForLive, Kinds
<1>7. k \in Waiting(t) /\ u \in Under(k)
  BY <1>2, <1>4, <1>5, <1>6 DEF Waiting, Under
<1>8. QED
  BY <1>7

-----------------------------------------------------------------------------
(***************************************************************************)
(* How many that can be: of a job by itself, and through its scope.        *)
(***************************************************************************)

(* Which jobs a stage starts: calls, or one batch of a field that is to be *)
(* resolved in batches.                                                    *)
LEMMA StartedKinds ==
  ASSUME NEW s \in Scopes, NEW l, NEW j \in StartedIn(s, l), j \in Jobs
  PROVE  /\ Mode(s, l.stage) = "batch" =>
              j = StageBatch(s, l.stage) /\ ResolvesInBatches(j[2]) /\ IsList(s)
         /\ Mode(s, l.stage) # "batch" =>
              j \in Calls /\ \E i \in 1..(l.next - 1) : j = Job(s, l.stage, i)
<1>1. CASE Mode(s, l.stage) = "batch"
  <2>1. j = StageBatch(s, l.stage)
    BY <1>1 DEF StartedIn
  <2>2. j[2] = Children(s)[l.stage]
    BY <2>1 DEF StageBatch
  <2>3. IsList(s) /\ ResolvesInBatches(Children(s)[l.stage])
    BY <1>1 DEF Mode
  <2>4. QED
    BY <1>1, <2>1, <2>2, <2>3
<1>2. CASE Mode(s, l.stage) # "batch"
  <2>1. PICK i \in 1..(l.next - 1) : j = Job(s, l.stage, i)
    BY <1>2 DEF StartedIn
  <2>2. ~IsBatch(j)
    BY <2>1 DEF Job, IsBatch
  <2>3. j \in Calls
    BY <2>2, Kinds DEF Jobs
  <2>4. QED
    BY <1>2, <2>1, <2>3
<1>3. QED
  BY <1>1, <1>2

LEMMA OwnUnitsFew ==
  ASSUME SoundPlans, Executing, Within, EnoughExpected, NEW j \in Jobs
  PROVE  Cardinality(UnitsOf(j)) <= OwnInflight(j[2])
<1>a. /\ TypedBatches /\ Control /\ Nested /\ BatchesTyped /\ plan \in Plans
      /\ j[2] \in Nodes /\ j \in Scopes
  BY Kinds DEF Executing, TypedBatches, Control, Jobs
<1>b. PICK own \in Nat : own = OwnInflight(j[2]) /\ own >= 1
  BY <1>a, OwnIs
<1>c. Cardinality(UnitsOf(j)) \in Nat /\ IsFiniteSet(UnitsOf(j))
  BY <1>a, UnderFinite
<1>1. CASE UnitsOf(j) = {}
  BY <1>b, <1>1, FS_EmptySet
<1>2. CASE UnitsOf(j) # {} /\ j \in Calls
  <2>1. UnitsOf(j) \in SUBSET {<<j, 0>>}
    BY <1>2, UnitsRun DEF UnitsOf
  <2>2. IsFiniteSet({<<j, 0>>}) /\ Cardinality({<<j, 0>>}) = 1
    BY FS_Singleton
  <2>3. Cardinality(UnitsOf(j)) <= 1
    BY <2>1, <2>2, FS_Subset
  <2>4. QED
    BY <1>b, <1>c, <2>3
<1>3. CASE UnitsOf(j) # {} /\ j \in Batches
  <2>1. PICK u \in Units : u[1] = j
    BY <1>3 DEF UnitsOf
  <2>2. Live(j)
    BY <2>1, UnitsRun
  <2>3. PICK s \in Scopes : AwaitedBy(j, s, scope[s])
    BY <1>a, <2>2 DEF Live, Nested, JobFits
  <2>4. ResolvesInBatches(j[2])
    BY <1>3, <2>3, StartedKinds, Kinds DEF AwaitedBy
  <2>5. /\ Concurrent(j[2]) \in Nat /\ plan[j[2]].calls \in Nat
        /\ \A k \in Nat : k <= plan[j[2]].calls /\ k <= Concurrent(j[2]) => k <= own
    BY <1>a, <1>b, <2>4, OwnIs DEF ResolvesInBatches
  <2>6. PICK R : R = RunningIn(chunk[j])
    OBVIOUS
  <2>7. IsFiniteSet(R) /\ Cardinality(R) \in Nat /\ Cardinality(R) <= Len(chunk[j]) /\ Len(chunk[j]) \in Nat
    BY <1>a, <1>3, <2>6, RunningFinite DEF BatchesTyped
  <2>8. j[2] = ChildOf[j]
    BY <1>3, Kinds
  <2>9. Cardinality(R) <= Concurrent(j[2])
    BY <1>3, <2>6, <2>8 DEF Within, SlotsKept, MaxConcurrent, Concurrent
  <2>10. Len(chunk[j]) <= plan[j[2]].calls
    BY <1>3, <2>8 DEF EnoughExpected
  <2>11. Cardinality(R) <= own
    BY <2>5, <2>7, <2>9, <2>10
  <2> DEFINE T == {<<j, i>> : i \in R}
             g == [i \in R |-> <<j, i>>]
  <2>12. IsFiniteSet(T) /\ Cardinality(T) <= Cardinality(R)
    <3>1. g \in Surjection(R, T)
      BY DEF Surjection
    <3> HIDE DEF g, T
    <3>2. QED
      BY <2>7, <3>1, FS_Surjection
  <2>13. UnitsOf(j) \in SUBSET T
    <3>1. SUFFICES ASSUME NEW v \in UnitsOf(j) PROVE v \in T
      OBVIOUS
    <3>2. v \in Units /\ v[1] = j
      BY DEF UnitsOf
    <3>3. v = <<j, v[2]>> /\ v[2] \in R
      BY <1>3, <2>6, <3>2, UnitsRun
    <3>4. QED
      BY <3>3
  <2> HIDE DEF T
  <2>14. Cardinality(UnitsOf(j)) <= Cardinality(T) /\ Cardinality(T) \in Nat
    BY <2>12, <2>13, FS_Subset, FS_CardinalityType
  <2>15. QED
    BY <1>b, <1>c, <2>7, <2>11, <2>12, <2>14
<1>4. QED
  BY <1>1, <1>2, <1>3 DEF Jobs

FewWait(t) ==
  /\ IsFiniteSet(Waiting(t)) /\ Cardinality(Waiting(t)) \in Nat
  /\ IF Mode(t, scope[t].stage) = "parallel" THEN Cardinality(Waiting(t)) <= Workers(t)
     ELSE Cardinality(Waiting(t)) <= 1

LEMMA WaitingFew ==
  ASSUME SoundPlans, Executing, Within, NEW t \in Scopes, scope[t].open
  PROVE  FewWait(t)
<1>a. /\ Nested /\ ScopesTyped /\ scope[t] \in ScopeLocals /\ plan \in Plans
      /\ ScopeFits(t, scope[t]) /\ InOrder(t, scope[t], ret)
  BY DEF Executing, Nested, ScopesTyped
<1>b. PICK W : W = Waiting(t)
  OBVIOUS
<1>c. PICK k, n : k = scope[t].stage /\ n = scope[t].next
  OBVIOUS
<1>d. n \in Nat /\ n >= 1
  BY <1>a, <1>c DEF ScopeLocals
<1>e. \A j \in W : j \in StartedIn(t, scope[t]) /\ j \in Jobs /\ ~ret[j].done
  BY <1>b DEF Waiting, AwaitedBy, Live
<1>1. ASSUME NEW x, W \in SUBSET {x} PROVE IsFiniteSet(W) /\ Cardinality(W) \in Nat /\ Cardinality(W) <= 1
  <2>1. IsFiniteSet({x}) /\ Cardinality({x}) = 1
    BY FS_Singleton
  <2>2. QED
    BY <1>1, <2>1, FS_Subset, FS_CardinalityType
<1>2. CASE Mode(t, k) = "batch"
  <2>1. \A j \in W : j = StageBatch(t, k)
    BY <1>2, <1>c, <1>e, StartedKinds
  <2>2. W \in SUBSET {StageBatch(t, k)}
    BY <2>1
  <2>3. QED
    BY <1>1, <1>2, <1>b, <1>c, <2>2 DEF FewWait
<1>3. CASE Mode(t, k) = "sequential"
  <2>1. ASSUME NEW j \in W PROVE j = Job(t, k, n - 1)
    <3>1. PICK i \in 1..(n - 1) : j = Job(t, k, i)
      BY <1>3, <1>c, <1>e, StartedKinds
    <3>2. i \notin 1..(n - 2)
      BY <1>3, <1>a, <1>c, <1>e, <3>1 DEF InOrder
    <3>3. i = n - 1
      BY <1>d, <3>2
    <3>4. QED
      BY <3>1, <3>3
  <2>2. W \in SUBSET {Job(t, k, n - 1)}
    BY <2>1
  <2>3. QED
    BY <1>1, <1>3, <1>b, <1>c, <2>2 DEF FewWait
<1>4. CASE Mode(t, k) = "parallel"
  <2>1. t # Root /\ t[2] \in Nodes
    BY <1>4, ChildrenTyped DEF Mode, IsList
  <2>2. Workers(t) \in Nat
    BY <1>a, <2>1, OwnIs DEF Workers, WorkersAt
  <2>3. PICK O : O = JobsOut(t)
    OBVIOUS
  <2>4. O = {i \in 1..(n - 1) : ~ret[Job(t, k, i)].done}
    BY <1>c, <2>3 DEF JobsOut
  <2>5. IsFiniteSet(O) /\ Cardinality(O) \in Nat
    <3>1. IsFiniteSet(1..(n - 1))
      BY <1>d, FS_Interval
    <3>2. O \in SUBSET (1..(n - 1))
      BY <2>4
    <3>3. QED
      BY <3>1, <3>2, FS_Subset, FS_CardinalityType
  <2>6. Cardinality(O) <= Workers(t)
    BY <1>4, <1>c, <2>3 DEF Within, WorkersKept
  <2> DEFINE T == {Job(t, k, i) : i \in O}
             g == [i \in O |-> Job(t, k, i)]
  <2>7. IsFiniteSet(T) /\ Cardinality(T) <= Cardinality(O)
    <3>1. g \in Surjection(O, T)
      BY DEF Surjection
    <3> HIDE DEF g, T
    <3>2. QED
      BY <2>5, <3>1, FS_Surjection
  <2>8. W \in SUBSET T
    <3>1. SUFFICES ASSUME NEW j \in W PROVE j \in T
      OBVIOUS
    <3>2. PICK i \in 1..(n - 1) : j = Job(t, k, i)
      BY <1>4, <1>c, <1>e, StartedKinds
    <3>3. i \in O
      BY <1>e, <2>4, <3>2
    <3>4. QED
      BY <3>2, <3>3
  <2> HIDE DEF T
  <2>9. IsFiniteSet(W) /\ Cardinality(W) \in Nat /\ Cardinality(W) <= Cardinality(T) /\ Cardinality(T) \in Nat
    BY <2>7, <2>8, FS_Subset, FS_CardinalityType
  <2>10. Cardinality(W) <= Workers(t)
    BY <2>2, <2>5, <2>6, <2>7, <2>9
  <2>11. QED
    BY <1>4, <1>b, <1>c, <2>9, <2>10 DEF FewWait
<1>5. QED
  BY <1>2, <1>3, <1>4 DEF Mode

LEMMA UnderFew ==
  ASSUME SoundPlans, Executing, Within, NEW t \in Scopes, scope[t].open, UnitsOf(t) = {},
         NEW B \in Nat, \A k \in Waiting(t) : Cardinality(Under(k)) <= B,
         NEW w \in Nat \ {0},
         IF Mode(t, scope[t].stage) = "parallel" THEN w = Workers(t) ELSE w = 1
  PROVE  Cardinality(Under(t)) <= w * B /\ w * B \in Nat
<1>a. TypedBatches /\ FewWait(t)
  BY WaitingFew DEF Executing
<1>1. PICK W : W = Waiting(t)
  OBVIOUS
<1>2. PICK F : F = [k \in W |-> Under(k)]
  OBVIOUS
<1>3. \A k \in W : IsFiniteSet(F[k]) /\ Cardinality(F[k]) <= B
  BY <1>a, <1>1, <1>2, UnderFinite
<1>4. IsFiniteSet(W) /\ Cardinality(W) \in Nat /\ Cardinality(W) <= w
  BY <1>a, <1>1 DEF FewWait
<1>5. PICK U : U = UNION {F[k] : k \in W}
  OBVIOUS
<1>6. IsFiniteSet(U) /\ Cardinality(U) <= Cardinality(W) * B
  <2>1. SmallUnion(W, F, B)
    BY <1>3, <1>4, UnionBound
  <2>2. QED
    BY <1>5, <2>1 DEF SmallUnion
<1>7. Under(t) \in SUBSET U
  <2>1. SUFFICES ASSUME NEW u \in Under(t) PROVE u \in U
    OBVIOUS
  <2>2. PICK k \in Waiting(t) : u \in Under(k)
    BY UnderSplits
  <2>3. k \in W /\ u \in F[k]
    BY <1>1, <1>2, <2>2
  <2>4. QED
    BY <1>5, <2>3
<1>8. Cardinality(Under(t)) <= Cardinality(U) /\ Cardinality(U) \in Nat /\ Cardinality(Under(t)) \in Nat
  BY <1>a, <1>6, <1>7, UnderFinite, FS_Subset, FS_CardinalityType
<1>9. Cardinality(W) * B <= w * B /\ w * B \in Nat /\ Cardinality(W) * B \in Nat
  BY <1>4, TimesGrows
<1>10. QED
  BY <1>6, <1>8, <1>9

(* What is resolved for a job is within the peak of its field: fields go   *)
(* by induction from the leaves of the tree up.                            *)
LEMMA UnderWithinPeak ==
  ASSUME SoundPlans, Executing, Within, EnoughExpected, NEW j \in Jobs
  PROVE  Cardinality(Under(j)) <= PeakInflight[j[2]]
<1>a. /\ TypedBatches /\ Nested /\ plan \in Plans
      /\ \A s \in Scopes : ScopeFits(s, scope[s]) /\ RetFits(s) /\ scope[s] \in ScopeLocals
  BY DEF Executing, Nested, ScopesTyped
<1>b. PICK f : f = PeakInflight
  OBVIOUS
<1>c. \A n \in Nodes : RoomFor(f[n], n, f, WorkersAt(n)) /\ f[n] \in Nat /\ f[n] >= 1
  <2>1. ASSUME NEW n \in Nodes PROVE RoomFor(f[n], n, f, WorkersAt(n))
    BY <1>a, <1>b, PeakFits
  <2>2. ASSUME NEW n \in Nodes PROVE f[n] \in Nat /\ f[n] >= 1
    <3>1. f[n] \in Nat \ {0}
      BY <2>1 DEF RoomFor
    <3>2. QED
      BY <3>1
  <2>3. QED
    BY <2>1, <2>2
<1> DEFINE Bad == {n \in Nodes : \E t \in Jobs : t[2] = n /\ ~(Cardinality(Under(t)) <= f[n])}
<1>1. SUFFICES ASSUME Bad # {} PROVE FALSE
  <2>1. j[2] \in Nodes
    BY Kinds DEF Jobs
  <2>2. QED
    BY <1>1, <1>b, <2>1
<1>2. PICK n \in Bad : \A m \in ToSet(Field[n].children) : m \notin Bad
  <2>1. Bad \in SUBSET Nodes
    OBVIOUS
  <2> HIDE DEF Bad
  <2>2. QED
    BY <1>1, <2>1, LowestNode DEF HasLowest
<1>3. PICK t \in Jobs : t[2] = n /\ ~(Cardinality(Under(t)) <= f[n])
  BY <1>2
<1>4. n \in Nodes /\ t \in Scopes /\ t # Root /\ Children(t) = Field[n].children
  BY <1>2, <1>3, Kinds DEF Jobs, Children
<1>5. PICK p, w : p = f[n] /\ w = WorkersAt(n)
  OBVIOUS
<1>6. /\ p \in Nat /\ p >= 1 /\ w \in Nat \ {0} /\ OwnInflight(n) \in Nat /\ OwnInflight(n) <= p
      /\ \A m \in ToSet(Field[n].children) : f[m] <= p /\ (Multiplies(n, m) => w * f[m] <= p)
  <2>1. RoomFor(p, n, f, w)
    BY <1>4, <1>5, <1>c
  <2>2. w \in Nat \ {0} /\ OwnInflight(n) \in Nat
    BY <1>a, <1>4, <1>5, OwnIs
  <2>3. QED
    BY <1>4, <1>5, <1>c, <2>1, <2>2 DEF RoomFor
<1>7. \A m \in ToSet(Field[n].children) : m \in Nodes /\ f[m] \in Nat /\ f[m] >= 1
  BY <1>4, <1>c, ChildrenOfNodes
<1>8. Cardinality(Under(t)) \in Nat
  BY <1>a, UnderFinite
<1>9. CASE ~scope[t].open
  <2>1. Waiting(t) = {}
    BY <1>9 DEF Waiting, AwaitedBy
  <2>2. Under(t) \in SUBSET UnitsOf(t)
    BY <1>4, <2>1, UnderSplits
  <2>3. Cardinality(Under(t)) <= Cardinality(UnitsOf(t)) /\ Cardinality(UnitsOf(t)) \in Nat
    BY <1>a, <2>2, UnderFinite, FS_Subset
  <2>4. Cardinality(UnitsOf(t)) <= OwnInflight(n)
    BY <1>3, OwnUnitsFew
  <2>5. QED
    BY <1>3, <1>5, <1>6, <1>8, <2>3, <2>4
<1>10. CASE scope[t].open
  <2>1. UnitsOf(t) = {}
    <3>1. Resolved(t)
      BY <1>a, <1>4, <1>10 DEF RetFits
    <3>2. QED
      BY <3>1, UnitsRun DEF UnitsOf
  <2>2. ASSUME NEW k \in Waiting(t)
        PROVE  /\ k \in Jobs /\ k[2] \in ToSet(Field[n].children)
               /\ Cardinality(Under(k)) <= f[k[2]] /\ Cardinality(Under(k)) \in Nat
    <3>1. k \in Jobs /\ k \in StartedIn(t, scope[t])
      BY DEF Waiting, AwaitedBy
    <3>2. k[2] \in ToSet(Field[n].children)
      BY <1>a, <1>4, <3>1, StartedAreChildren
    <3>3. k[2] \notin Bad
      BY <1>2, <3>2
    <3>4. Cardinality(Under(k)) <= f[k[2]]
      BY <1>7, <3>1, <3>2, <3>3
    <3>5. QED
      BY <1>a, <3>1, <3>2, <3>4, UnderFinite
  <2> HIDE DEF Bad
  <2>3. CASE Mode(t, scope[t].stage) # "parallel"
    <3>1. ASSUME NEW k \in Waiting(t) PROVE Cardinality(Under(k)) <= p
      <4>1. f[k[2]] <= p /\ f[k[2]] \in Nat
        BY <1>6, <1>7, <2>2
      <4>2. QED
        BY <1>6, <2>2, <4>1
    <3>2. 1 \in Nat \ {0}
      OBVIOUS
    <3>3. Cardinality(Under(t)) <= 1 * p
      BY <1>4, <1>6, <1>10, <2>1, <2>3, <3>1, <3>2, UnderFew
    <3>4. QED
      BY <1>3, <1>5, <1>6, <1>8, <3>3
  <2>4. CASE Mode(t, scope[t].stage) = "parallel"
    <3>1. w = Workers(t)
      BY <1>3, <1>5 DEF Workers, WorkersAt
    <3>2. ASSUME NEW k \in Waiting(t) PROVE Multiplies(n, k[2])
      <4>1. k \in Jobs /\ k \in StartedIn(t, scope[t])
        BY DEF Waiting, AwaitedBy
      <4>2. PICK i : k = Job(t, scope[t].stage, i)
        BY <1>4, <2>4, <4>1, StartedKinds
      <4>3. CASE IsList(t)
        <5>1. k[2] = Children(t)[scope[t].stage]
          BY <4>2, <4>3 DEF Job
        <5>2. ListIsParallel(n) /\ ~ResolvesInBatches(k[2])
          BY <1>3, <2>4, <4>3, <5>1 DEF Mode
        <5>3. k[2] \notin BatchedBelow(n)
          <6>1. SUFFICES ASSUME k[2] \in BatchedBelow(n) PROVE FALSE
            OBVIOUS
          <6>2. plan[k[2]].listMode = "LIST_BATCHED" /\ k[2] \in Nodes
            BY <1>7, <6>1 DEF BatchedBelow
          <6>3. Field[k[2]].isList /\ k[2] \in CanBatch
            BY <1>a, <6>2 DEF SoundPlans
          <6>4. QED
            BY <5>2, <6>2, <6>3 DEF ResolvesInBatches
        <5>4. QED
          BY <5>2, <5>3 DEF ListIsParallel, Multiplies
      <4>4. CASE ~IsList(t)
        BY <1>3, <1>4, <2>4, <4>4 DEF Mode, Multiplies
      <4>5. QED
        BY <4>3, <4>4
    <3>3. CASE Waiting(t) = {}
      <4>1. Under(t) = {}
        BY <1>4, <2>1, <3>3, UnderSplits
      <4>2. QED
        BY <1>3, <1>5, <1>6, <4>1, FS_EmptySet
    <3>4. CASE Waiting(t) # {}
      <4>1. PICK W, T : W = Waiting(t) /\ T = {f[k[2]] : k \in W}
        OBVIOUS
      <4>2. T \in SUBSET Nat /\ T # {} /\ \A k \in W : f[k[2]] \in T
        BY <1>7, <2>2, <3>4, <4>1
      <4>3. IsFiniteSet(T)
        <5>1. IsFiniteSet(W)
          BY <1>4, <1>10, <4>1, WaitingFew DEF FewWait
        <5>2. [k \in W |-> f[k[2]]] \in Surjection(W, T)
          BY <4>1 DEF Surjection
        <5>3. QED
          BY <5>1, <5>2, FS_Surjection
      <4>4. PICK B \in T : \A y \in T : y <= B
        BY <4>2, <4>3, MaxIs
      <4>5. PICK k \in W : B = f[k[2]]
        BY <4>1, <4>4
      <4>6. w * B <= p /\ B \in Nat
        BY <1>6, <2>2, <3>2, <4>1, <4>2, <4>4, <4>5
      <4>7. ASSUME NEW m \in Waiting(t) PROVE Cardinality(Under(m)) <= B
        <5>1. PICK x, y \in Nat : x = f[m[2]] /\ y = Cardinality(Under(m)) /\ x \in Nat /\ y <= x
          BY <1>7, <2>2
        <5>2. x <= B
          BY <4>1, <4>2, <4>4, <5>1
        <5>3. y <= B
          BY <4>6, <5>1, <5>2
        <5>4. QED
          BY <5>1, <5>3
      <4>8. Cardinality(Under(t)) <= w * B /\ w * B \in Nat
        BY <1>4, <1>6, <1>10, <2>1, <2>4, <3>1, <4>6, <4>7, UnderFew
      <4>9. QED
        BY <1>3, <1>5, <1>6, <1>8, <4>6, <4>8
    <3>5. QED
      BY <3>3, <3>4
  <2>5. QED
    BY <2>3, <2>4
<1>11. QED
  BY <1>9, <1>10

LEMMA WithinGivesPeak ==
  ASSUME SoundPlans, Executing, Within, EnoughExpected
  PROVE  InflightWithinPlan
<1>a. TypedBatches /\ Nested /\ plan \in Plans /\ Root \in Scopes
  BY Kinds DEF Executing
<1>b. PICK f : f = PeakInflight
  OBVIOUS
<1>c. PICK peak : peak = Below(f, ToSet(RootFields))
  OBVIOUS
<1>1. ToSet(RootFields) \in SUBSET Nodes /\ \A n \in Nodes : f[n] \in Nat
  <2>1. ToSet(RootFields) \in SUBSET Nodes
    BY TreeAssumption DEF ToSet
  <2>2. ASSUME NEW n \in Nodes PROVE f[n] \in Nat
    <3>1. RoomFor(f[n], n, f, WorkersAt(n))
      BY <1>a, <1>b, PeakFits
    <3>2. f[n] \in Nat \ {0}
      BY <3>1 DEF RoomFor
    <3>3. QED
      BY <3>2
  <2>3. QED
    BY <2>1, <2>2
<1>2. peak \in Nat /\ peak >= 1 /\ \A n \in ToSet(RootFields) : f[n] <= peak
  <2>1. \A n \in ToSet(RootFields) : f[n] \in Nat
    BY <1>1
  <2>2. peak \in Nat \ {0} /\ \A n \in ToSet(RootFields) : f[n] <= peak
    BY <1>1, <1>c, <2>1, BelowIs
  <2>3. QED
    BY <2>2
<1>3. Under(Root) = Units
  <2>1. ASSUME NEW u \in Units PROVE u \in Under(Root)
    <3>1. Root \in RunsFor(u[1])
      BY <1>a, UnitsRun, RunsForLive
    <3>2. QED
      BY <3>1 DEF Under
  <2>2. QED
    BY <2>1 DEF Under
<1>4. UnitsOf(Root) = {}
  BY UnitsRun, Kinds DEF UnitsOf
<1>5. Cardinality(Units) = gate /\ gate \in Nat
  BY <1>a, UnitsAre, FS_CardinalityType
<1>6. gate <= peak
  <2>1. CASE ~scope[Root].open
    <3>1. Waiting(Root) = {}
      BY <2>1 DEF Waiting, AwaitedBy
    <3>2. Units = {}
      BY <1>a, <1>3, <1>4, <3>1, UnderSplits
    <3>3. QED
      BY <1>2, <1>5, <3>2, FS_EmptySet
  <2>2. CASE scope[Root].open
    <3>1. Mode(Root, scope[Root].stage) # "parallel"
      BY DEF Mode, IsList
    <3>2. ASSUME NEW k \in Waiting(Root) PROVE Cardinality(Under(k)) <= peak
      <4>1. k \in Jobs /\ k \in StartedIn(Root, scope[Root])
        BY DEF Waiting, AwaitedBy
      <4>2. ScopeFits(Root, scope[Root]) /\ scope[Root] \in ScopeLocals
        BY <1>a DEF Nested, ScopesTyped
      <4>3. k[2] \in ToSet(RootFields)
        BY <1>a, <4>1, <4>2, StartedAreChildren DEF Children
      <4>4. Cardinality(Under(k)) <= f[k[2]]
        BY <1>b, <4>1, UnderWithinPeak
      <4>5. Cardinality(Under(k)) \in Nat /\ f[k[2]] \in Nat
        BY <1>a, <1>1, <4>3, UnderFinite
      <4>6. QED
        BY <1>2, <4>3, <4>4, <4>5
    <3>3. 1 \in Nat \ {0}
      OBVIOUS
    <3>4. Cardinality(Under(Root)) <= 1 * peak
      BY <1>2, <1>4, <1>a, <2>2, <3>1, <3>2, <3>3, UnderFew
    <3>5. QED
      BY <1>2, <1>3, <1>5, <3>4
  <2>3. QED
    BY <2>1, <2>2
<1>7. QED
  BY <1>6, <1>b, <1>c DEF InflightWithinPlan, Below

(* The in-flight budget of the optimizer holds in the executor: if every   *)
(* plan is one enumerateStrategies and estimate could have given, then as  *)
(* long as no batch has come to more chunks than calls were expected of    *)
(* its node, a request never runs more resolvers at once than              *)
(* combineChildExecution counted for its plan, however lists, batches and  *)
(* parallel fields nest and whatever the gate's own limit is.              *)
THEOREM InflightKept ==
  ASSUME SoundPlans
  PROVE  ExecSpec => [](EnoughExpected => InflightWithinPlan)
<1>1. ExecInit => Executing /\ Within
  BY ExecutingInit, WithinInit
<1>2. Executing /\ Within /\ [ExecNext]_execVars => Executing' /\ Within'
  BY ExecutingStep, WithinStep
<1>3. Executing /\ Within => (EnoughExpected => InflightWithinPlan)
  BY WithinGivesPeak
<1>4. QED
  BY <1>1, <1>2, <1>3, PTL DEF ExecSpec
=============================================================================
