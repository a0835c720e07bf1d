------------------------- MODULE QueryServiceProofs -------------------------
(***************************************************************************)
(* Proofs about QueryService.tla and the store it shares, StatsStore.tla:  *)
(* for every query, every set of concurrent requests, every estimate and   *)
(* whatever the executions counted.                                        *)
(***************************************************************************)
EXTENDS QueryService, FiniteSetTheorems, TLAPS

(* The shapes of a handler's locals and of the store.                      *)
StoredSeries == [calls : Nat \ {0}, lens : SUBSET Nat]

Store == [fields : UNION {[S -> StoredSeries] : S \in SUBSET FieldKeys},
          parentlessIndex : [Fields -> Seq(FieldKeys)]]

Memos == UNION {[S -> Series] : S \in SUBSET FieldKeys}

Annotation == [rows : Nat \ {0}, total : Nat \ {0}, card : Series, cost : Series,
               key : FieldKeys \cup {NoKey}]

Counts == [calls : Nat, physical : Nat, rows : Nat]

Statuses == {0, 200, 400, 405, 500}

Request == [pc : PCs, next : 1..(Len(Preorder) + 1), memo : Memos, ann : [Nodes -> Annotation],
            counts : [Nodes -> Counts], status : Statuses, data : BOOLEAN]

-----------------------------------------------------------------------------
LEMMA BucketTyped == \A rows \in Nat : CardinalityBucket(rows) \in Buckets
<1> SUFFICES ASSUME NEW rows \in Nat PROVE CardinalityBucket(rows) \in Buckets
  OBVIOUS
<1>1. \/ rows <= 1 \/ rows \in 2..5 \/ rows \in 6..10 \/ rows \in 11..25
      \/ rows \in 26..100 \/ rows \in 101..500 \/ rows > 500
  OBVIOUS
<1>2. QED
  BY <1>1 DEF CardinalityBucket, Buckets

LEMMA KeyTyped == \A f \in Fields : \A rows \in Nat : FieldKey(f, rows) \in FieldKeys
  BY BucketTyped DEF FieldKey, FieldKeys

(* The index of a field of a store lists its series, each once.            *)
IndexOf(s, f) ==
  /\ Indexed(s, f) = {k \in DOMAIN s.fields : k.field = f}
  /\ IsFiniteSet(Indexed(s, f))
  /\ Len(s.parentlessIndex[f]) = Cardinality(Indexed(s, f))

LEMMA ObservedTyped ==
  ASSUME NEW x \in Series, NEW lens \in SUBSET Nat
  PROVE  Observed(x, lens) \in StoredSeries
<1>1. x.calls \in Nat /\ x.lens \in SUBSET Nat
  BY DEF Series
<1>2. x.calls + 1 \in Nat \ {0}
  BY <1>1
<1>3. x.lens \cup lens \in SUBSET Nat
  BY <1>1
<1>4. QED
  BY <1>2, <1>3 DEF Observed, StoredSeries

(* Store.Record keeps the store's shape, whatever it observes.             *)
LEMMA RecordTyped ==
  ASSUME NEW s \in Store, NEW k \in FieldKeys, NEW lens \in SUBSET Nat
  PROVE  Record(s, k, lens) \in Store
<1> DEFINE S == DOMAIN s.fields \cup {k}
           t == Record(s, k, lens)
<1>1. PICK D \in SUBSET FieldKeys : s.fields \in [D -> StoredSeries]
  BY DEF Store
<1>2. S \in SUBSET FieldKeys /\ DOMAIN s.fields = D
  BY <1>1
<1>3. Observed(SeriesOf(s, k), lens) \in StoredSeries
  <2>1. SeriesOf(s, k) \in Series
    BY <1>1 DEF SeriesOf, Stored, StoredSeries, Series, NotFound
  <2>2. QED
    BY <2>1, ObservedTyped
<1>4. t.fields \in [S -> StoredSeries]
  BY <1>1, <1>3 DEF Record
<1>5. k.field \in Fields /\ s.parentlessIndex \in [Fields -> Seq(FieldKeys)]
  BY DEF FieldKeys, Store
<1>6. [s.parentlessIndex EXCEPT ![k.field] = Append(@, k)] \in [Fields -> Seq(FieldKeys)]
  BY <1>5
<1>7. t.parentlessIndex \in [Fields -> Seq(FieldKeys)]
  BY <1>5, <1>6 DEF Record
<1>8. t = [fields |-> t.fields, parentlessIndex |-> t.parentlessIndex]
  BY DEF Record
<1>9. QED
  BY <1>2, <1>4, <1>7, <1>8 DEF Store

(* Store.Record keeps the index and the series together: a key that is new *)
(* is appended to its field's index, and no other index changes.           *)
LEMMA RecordIndexed ==
  ASSUME NEW s \in Store, NEW k \in FieldKeys, NEW lens \in SUBSET Nat,
         \A f \in Fields : IndexOf(s, f)
  PROVE  \A f \in Fields : IndexOf(Record(s, k, lens), f)
<1> DEFINE t == Record(s, k, lens)
<1> SUFFICES ASSUME NEW f \in Fields PROVE IndexOf(t, f)
  OBVIOUS
<1>1. DOMAIN t.fields = DOMAIN s.fields \cup {k}
  BY DEF Record
<1>2. /\ k.field \in Fields /\ s.parentlessIndex \in [Fields -> Seq(FieldKeys)]
      /\ s.parentlessIndex[f] \in Seq(FieldKeys)
  BY DEF FieldKeys, Store
<1>3. CASE Stored(s, k)
  <2>1. t.parentlessIndex = s.parentlessIndex /\ DOMAIN t.fields = DOMAIN s.fields
    BY <1>1, <1>3 DEF Record, Stored
  <2>2. QED
    BY <2>1 DEF IndexOf, Indexed
<1>4. CASE ~Stored(s, k) /\ k.field # f
  <2>1. t.parentlessIndex[f] = s.parentlessIndex[f]
    BY <1>2, <1>4 DEF Record
  <2>2. {x \in DOMAIN t.fields : x.field = f} = {x \in DOMAIN s.fields : x.field = f}
    BY <1>1, <1>4
  <2>3. QED
    BY <2>1, <2>2 DEF IndexOf, Indexed
<1>5. CASE ~Stored(s, k) /\ k.field = f
  <2> DEFINE before == s.parentlessIndex[f]
  <2>1. t.parentlessIndex[f] = Append(before, k)
    BY <1>2, <1>5 DEF Record
  <2>2. /\ Len(Append(before, k)) = Len(before) + 1
        /\ DOMAIN Append(before, k) = DOMAIN before \cup {Len(before) + 1}
        /\ \A i \in DOMAIN before : Append(before, k)[i] = before[i]
        /\ Append(before, k)[Len(before) + 1] = k
        /\ Len(before) \in Nat
    BY <1>2
  <2>3. Indexed(t, f) = Indexed(s, f) \cup {k}
    BY <2>1, <2>2 DEF Indexed
  <2>4. Indexed(t, f) = {x \in DOMAIN t.fields : x.field = f}
    BY <1>1, <1>5, <2>3 DEF IndexOf
  <2>5. k \notin Indexed(s, f)
    BY <1>5 DEF IndexOf, Stored
  <2>6. /\ IsFiniteSet(Indexed(t, f))
        /\ Cardinality(Indexed(t, f)) = Cardinality(Indexed(s, f)) + 1
    BY <2>3, <2>5, FS_AddElement DEF IndexOf
  <2>7. QED
    BY <2>1, <2>2, <2>4, <2>6 DEF IndexOf
<1>6. QED
  BY <1>3, <1>4, <1>5

(* SnapshotWithParentFallback returns a snapshot, and the empty one only   *)
(* for a field that nobody has recorded.                                   *)
LEMMA SnapshotTyped ==
  ASSUME NEW s \in Store, NEW k \in FieldKeys, IndexOf(s, k.field)
  PROVE  /\ Snapshots(s, k) \subseteq Series
         /\ Indexed(s, k.field) # {} => NotFound \notin Snapshots(s, k)
<1>1. PICK D \in SUBSET FieldKeys : s.fields \in [D -> StoredSeries]
  BY DEF Store
<1>2. NotFound \in Series /\ NotFound \notin StoredSeries /\ StoredSeries \subseteq Series
  BY DEF NotFound, Series, StoredSeries
<1>3. Indexed(s, k.field) \subseteq DOMAIN s.fields
  BY DEF IndexOf
<1>4. CASE Stored(s, k)
  BY <1>1, <1>2, <1>4 DEF Snapshots, Stored
<1>5. CASE ~Stored(s, k)
  BY <1>1, <1>2, <1>3, <1>5 DEF Snapshots
<1>6. QED
  BY <1>4, <1>5

-----------------------------------------------------------------------------
(* The types as one set, and what the program counters say of the locals:  *)
(* a walk starts at the first node and is at a node while it annotates or  *)
(* records one, the node it prices has its key, nothing is counted before  *)
(* the execution, and no counter has more physical calls than calls.       *)
BeforeExecution == {"idle", "cardinality", "cost", "execute"}

TypedRequest(r) ==
  /\ ReqAt(r, "idle") => req[r].next = 1
  /\ req[r].pc \in {"cardinality", "cost", "record"} => req[r].next \in 1..Len(Preorder)
  /\ ReqAt(r, "cost") => req[r].ann[NextNode(r)].key \in FieldKeys
  /\ req[r].pc \in BeforeExecution => \A n \in Nodes : req[r].counts[n].physical = 0
  /\ \A n \in Nodes : req[r].counts[n].physical <= req[r].counts[n].calls

TypedService ==
  /\ store \in Store
  /\ req \in [Requests -> Request]
  /\ \A r \in Requests : TypedRequest(r)
  /\ \A f \in Fields : IndexOf(store, f)

LEMMA PreorderFacts ==
  /\ Len(Preorder) \in Nat \ {0}
  /\ DOMAIN Preorder = 1..Len(Preorder)
  /\ \A i \in 1..Len(Preorder) : Preorder[i] \in Nodes
  BY PreorderAssumption DEF Nodes

LEMMA TypedServiceInit == ServiceInit => TypedService
<1> SUFFICES ASSUME ServiceInit PROVE TypedService
  OBVIOUS
<1> USE DEF ServiceInit
<1>1. NewStore \in Store
  <2>1. <<>> \in [{} -> StoredSeries] /\ {} \in SUBSET FieldKeys
    OBVIOUS
  <2>2. [f \in Fields |-> <<>>] \in [Fields -> Seq(FieldKeys)]
    OBVIOUS
  <2>3. QED
    BY <2>1, <2>2 DEF NewStore, Store
<1>2. ASSUME NEW f \in Fields PROVE IndexOf(NewStore, f)
  <2>1. Indexed(NewStore, f) = {} /\ DOMAIN NewStore.fields = {}
    BY DEF Indexed, NewStore
  <2>2. Len(NewStore.parentlessIndex[f]) = 0
    BY DEF NewStore
  <2>3. QED
    BY <2>1, <2>2, FS_EmptySet DEF IndexOf
<1>3. NoRequest \in Request
  <2>1. <<>> \in [{} -> Series] /\ {} \in SUBSET FieldKeys
    OBVIOUS
  <2>2. <<>> \in Memos
    BY <2>1 DEF Memos
  <2>3. Unannotated \in Annotation
    BY DEF Unannotated, Annotation, NotFound, Series
  <2>4. 1 \in 1..(Len(Preorder) + 1)
    BY PreorderFacts
  <2>5. [calls |-> 0, physical |-> 0, rows |-> 0] \in Counts
    BY DEF Counts
  <2>6. QED
    BY <2>2, <2>3, <2>4, <2>5 DEF NoRequest, Request, PCs, Statuses
<1>4. ASSUME NEW r \in Requests PROVE TypedRequest(r)
  BY DEF TypedRequest, ReqAt, NoRequest
<1>5. QED
  BY <1>1, <1>2, <1>3, <1>4 DEF TypedService

(* A step of a request changes the locals of that request alone.           *)
LEMMA RequestStep ==
  ASSUME TypedService, NEW r \in Requests, NEW q \in Request, req' = [req EXCEPT ![r] = q],
         store' \in Store, \A f \in Fields : IndexOf(store', f),
         q.pc = "idle" => q.next = 1,
         q.pc \in {"cardinality", "cost", "record"} => q.next \in 1..Len(Preorder),
         q.pc = "cost" => q.ann[Preorder[q.next]].key \in FieldKeys,
         q.pc \in BeforeExecution => \A n \in Nodes : q.counts[n].physical = 0,
         \A n \in Nodes : q.counts[n].physical <= q.counts[n].calls
  PROVE  TypedService'
<1>1. req' \in [Requests -> Request]
  BY DEF TypedService
<1>2. ASSUME NEW o \in Requests PROVE TypedRequest(o)'
  <2>1. CASE o = r
    <3>1. req'[o] = q
      BY <2>1 DEF TypedService
    <3>2. QED
      BY <3>1 DEF TypedRequest, ReqAt, NextNode
  <2>2. CASE o # r
    <3>1. req'[o] = req[o] /\ TypedRequest(o)
      BY <2>2 DEF TypedService
    <3>2. QED
      BY <3>1 DEF TypedRequest, ReqAt, NextNode
  <2>3. QED
    BY <2>1, <2>2
<1>3. QED
  BY <1>1, <1>2 DEF TypedService

-----------------------------------------------------------------------------
(* Annotation: the memo, the estimates and the parent rows have their      *)
(* types; no estimate is of no rows.                                       *)
LEMMA MemoTyped ==
  ASSUME NEW memo \in Memos, NEW k \in FieldKeys, NEW snap \in Series
  PROVE  Memoize(memo, k, snap) \in Memos
<1>1. PICK D \in SUBSET FieldKeys : memo \in [D -> Series]
  BY DEF Memos
<1>2. Memoize(memo, k, snap) \in [D \cup {k} -> Series]
  BY <1>1 DEF Memoize
<1>3. QED
  BY <1>2 DEF Memos

LEMMA MemoFacts ==
  ASSUME TypedService, NEW r \in Requests
  PROVE  /\ req[r] \in Request
         /\ \A k \in DOMAIN req[r].memo : req[r].memo[k] \in Series
<1>1. req[r] \in Request
  BY DEF TypedService
<1>2. req[r].memo \in Memos
  BY <1>1 DEF Request
<1>3. QED
  BY <1>1, <1>2 DEF Memos

LEMMA SnapshotForNodeTyped ==
  ASSUME TypedService, NEW r \in Requests, NEW k \in FieldKeys
  PROVE  SnapshotForNode(r, k) \subseteq Series
<1>1. IndexOf(store, k.field)
  BY DEF FieldKeys, TypedService
<1>2. Snapshots(store, k) \subseteq Series
  BY <1>1, SnapshotTyped DEF TypedService
<1>3. QED
  BY <1>2, MemoFacts DEF SnapshotForNode

LEMMA ExpectedRowsTyped ==
  ASSUME NEW n \in IsList, NEW snap
  PROVE  ExpectedRows(n, snap) \subseteq Nat \ {0}
<1>1. UpperBound[n] \in Nat /\ Baseline[n] \in 1..UpperBound[n]
  BY EstimateAssumption
<1>2. \A x \in 1..UpperBound[n] : x \in Nat \ {0}
  BY <1>1
<1>3. QED
  BY <1>1, <1>2 DEF ExpectedRows

LEMMA ParentRowsTyped ==
  ASSUME TypedService, NEW r \in Requests, NEW n \in Nodes
  PROVE  ParentRows(r, n) \in Nat \ {0} /\ ParentRowsForKey(r, n) \in Nat \ {0}
<1>1. ParentOf[n] = "root" \/ ParentOf[n] \in Nodes
  <2>1. PICK i \in DOMAIN Preorder : n = Preorder[i]
    BY DEF Nodes
  <2>2. CASE ParentOf[n] = "root"
    BY <2>2
  <2>3. CASE ParentOf[n] # "root"
    <3>1. PICK j \in 1..(i - 1) : Preorder[j] = ParentOf[n]
      BY <2>1, <2>3, PreorderAssumption
    <3>2. j \in 1..Len(Preorder)
      BY <2>1, <3>1, PreorderFacts
    <3>3. QED
      BY <3>1, <3>2, PreorderFacts
  <2>4. QED
    BY <2>2, <2>3
<1>2. \A p \in Nodes : req[r].ann[p].total \in Nat \ {0} /\ req[r].counts[p].rows \in Nat
  BY MemoFacts DEF Request, Annotation, Counts
<1>3. QED
  BY <1>1, <1>2 DEF ParentRows, ParentRowsForKey

LEMMA Product == \A a, b \in Nat \ {0} : a * b \in Nat \ {0}
  OBVIOUS

(* A list's length is observed only when a resolver was called for it.     *)
LEMMA ObservedLenTyped ==
  ASSUME NEW n, NEW c \in Counts, c.calls > 0
  PROVE  ObservedLen(n, c) \in SUBSET Nat
<1>1. 2 * c.rows + c.calls \in Nat /\ 2 * c.calls \in Nat \ {0}
  BY DEF Counts
<1>2. (2 * c.rows + c.calls) \div (2 * c.calls) \in Nat
  BY <1>1
<1>3. QED
  BY <1>2 DEF ObservedLen

(* The node a walk is at.                                                  *)
LEMMA NextNodeTyped ==
  ASSUME TypedService, NEW r \in Requests, req[r].pc \in {"cardinality", "cost", "record"}
  PROVE  /\ NextNode(r) \in Nodes /\ FieldOf[NextNode(r)] \in Fields
         /\ req[r].next \in 1..Len(Preorder)
  BY PreorderFacts, PreorderAssumption DEF TypedService, TypedRequest, NextNode

-----------------------------------------------------------------------------
(* What a memo was told it keeps.                                          *)
Extends(later, memo) ==
  \A k \in DOMAIN memo : k \in DOMAIN later /\ later[k] = memo[k]

(* A lookup for a plan leaves the snapshot it returns in the plan's memo,  *)
(* and what the memo had.                                                  *)
LEMMA LookupMemoized ==
  ASSUME TypedService, NEW r \in Requests, NEW k \in FieldKeys,
         NEW snap \in SnapshotForNode(r, k)
  PROVE  LET later == Memoize(req[r].memo, k, snap)
         IN  /\ later \in Memos /\ snap \in Series
             /\ Extends(later, req[r].memo)
             /\ k \in DOMAIN later /\ later[k] = snap
<1> DEFINE later == Memoize(req[r].memo, k, snap)
<1>1. snap \in Series /\ req[r].memo \in Memos
  BY SnapshotForNodeTyped, MemoFacts DEF Request
<1>2. later \in Memos
  BY <1>1, MemoTyped
<1>3. k \in DOMAIN req[r].memo => snap = req[r].memo[k]
  BY DEF SnapshotForNode
<1>4. Extends(later, req[r].memo) /\ k \in DOMAIN later /\ later[k] = snap
  BY <1>3 DEF Extends, Memoize
<1>5. QED
  BY <1>1, <1>2, <1>4

(* The two steps of a node's annotation, as far as the memo and the node's *)
(* annotation go.                                                          *)
LEMMA CardinalityAnnotated ==
  ASSUME TypedService, NEW r \in Requests, AnnotateCardinality(r)
  PROVE  \E q \in Request, a \in Annotation :
           /\ req' = [req EXCEPT ![r] = q] /\ store' = store
           /\ q.pc = "cost" /\ q.next = req[r].next /\ q.counts = req[r].counts
           /\ q.ann = [req[r].ann EXCEPT ![NextNode(r)] = a]
           /\ Extends(q.memo, req[r].memo)
           /\ a.key \in FieldKeys
           /\ NextNode(r) \in IsList => a.key \in DOMAIN q.memo /\ a.card = q.memo[a.key]
<1> DEFINE n == NextNode(r)
           k == FieldKey(FieldOf[n], ParentRows(r, n))
<1>1. /\ n \in Nodes /\ FieldOf[n] \in Fields /\ ParentRows(r, n) \in Nat \ {0}
      /\ req[r] \in Request /\ store' = store
  BY NextNodeTyped, ParentRowsTyped, MemoFacts DEF AnnotateCardinality, ReqAt
<1>2. k \in FieldKeys /\ NotFound \in Series
  BY <1>1, KeyTyped DEF NotFound, Series
<1>3. "cost" \in PCs /\ \A a \in Annotation : [req[r].ann EXCEPT ![n] = a] \in [Nodes -> Annotation]
  BY <1>1 DEF Request, PCs
<1>4. CASE n \in IsList
  <2>1. PICK snap \in SnapshotForNode(r, k) : \E rows \in ExpectedRows(n, snap) :
          req' = [req EXCEPT ![r].pc = "cost",
                    ![r].memo = Memoize(@, k, snap),
                    ![r].ann[n] = [rows |-> rows, total |-> ParentRows(r, n) * rows,
                                   card |-> snap, cost |-> NotFound, key |-> k]]
    BY <1>4 DEF AnnotateCardinality
  <2>2. PICK rows \in ExpectedRows(n, snap) :
          req' = [req EXCEPT ![r].pc = "cost",
                    ![r].memo = Memoize(@, k, snap),
                    ![r].ann[n] = [rows |-> rows, total |-> ParentRows(r, n) * rows,
                                   card |-> snap, cost |-> NotFound, key |-> k]]
    BY <2>1
  <2> DEFINE memo == Memoize(req[r].memo, k, snap)
             a == [rows |-> rows, total |-> ParentRows(r, n) * rows,
                   card |-> snap, cost |-> NotFound, key |-> k]
             q == [req[r] EXCEPT !.pc = "cost", !.memo = memo,
                                 !.ann = [req[r].ann EXCEPT ![n] = a]]
  <2>3. /\ memo \in Memos /\ snap \in Series /\ Extends(memo, req[r].memo)
        /\ k \in DOMAIN memo /\ memo[k] = snap
    BY <1>2, LookupMemoized
  <2>4. rows \in Nat \ {0} /\ ParentRows(r, n) * rows \in Nat \ {0}
    BY <1>1, <1>4, ExpectedRowsTyped, Product
  <2>5. a \in Annotation
    BY <1>2, <2>3, <2>4 DEF Annotation
  <2>6. req' = [req EXCEPT ![r] = q]
    BY <2>2
  <2>7. a.key = k /\ a.card = snap
    OBVIOUS
  <2> HIDE DEF a, memo, k
  <2>8. /\ q \in Request /\ q.pc = "cost" /\ q.next = req[r].next /\ q.memo = memo
        /\ q.counts = req[r].counts /\ q.ann = [req[r].ann EXCEPT ![n] = a]
    BY <1>1, <1>3, <2>3, <2>5 DEF Request
  <2> HIDE DEF q
  <2>9. QED
    BY <1>1, <1>2, <2>3, <2>5, <2>6, <2>7, <2>8
<1>5. CASE n \notin IsList
  <2> DEFINE a == [Unannotated EXCEPT !.total = ParentRows(r, n), !.key = k]
             q == [req[r] EXCEPT !.pc = "cost", !.ann = [req[r].ann EXCEPT ![n] = a]]
  <2>a. req' = [req EXCEPT ![r].pc = "cost",
                 ![r].ann[n] = [Unannotated EXCEPT !.total = ParentRows(r, n), !.key = k]]
    BY <1>5 DEF AnnotateCardinality
  <2>1. req' = [req EXCEPT ![r] = q]
    BY <2>a
  <2>2. a \in Annotation
    <3>1. Unannotated \in Annotation
      BY DEF Unannotated, Annotation, NotFound, Series
    <3>2. QED
      BY <1>1, <1>2, <3>1 DEF Annotation
  <2>3. a.key = k
    BY DEF Unannotated
  <2> HIDE DEF a, k
  <2>4. /\ q \in Request /\ q.pc = "cost" /\ q.next = req[r].next /\ q.memo = req[r].memo
        /\ q.counts = req[r].counts /\ q.ann = [req[r].ann EXCEPT ![n] = a]
    BY <1>1, <1>3, <2>2 DEF Request
  <2>5. Extends(q.memo, req[r].memo)
    BY <2>4 DEF Extends
  <2> HIDE DEF q
  <2>6. QED
    BY <1>1, <1>2, <1>5, <2>1, <2>2, <2>3, <2>4, <2>5
<1>6. QED
  BY <1>4, <1>5

LEMMA CostAnnotated ==
  ASSUME TypedService, NEW r \in Requests, AnnotateCost(r)
  PROVE  \E q \in Request, a \in Annotation :
           /\ req' = [req EXCEPT ![r] = q] /\ store' = store
           /\ q.pc = IF req[r].next = Len(Preorder) THEN "execute" ELSE "cardinality"
           /\ q.next = req[r].next + 1 /\ q.counts = req[r].counts
           /\ q.ann = [req[r].ann EXCEPT ![NextNode(r)] = a]
           /\ Extends(q.memo, req[r].memo)
           /\ a.key = req[r].ann[NextNode(r)].key /\ a.card = req[r].ann[NextNode(r)].card
           /\ a.key \in DOMAIN q.memo /\ a.cost = q.memo[a.key]
<1> DEFINE n == NextNode(r)
           k == req[r].ann[n].key
           next == req[r].next + 1
           to == IF req[r].next = Len(Preorder) THEN "execute" ELSE "cardinality"
<1>1. /\ n \in Nodes /\ req[r] \in Request /\ k \in FieldKeys /\ store' = store
      /\ req[r].ann[n] \in Annotation /\ req[r].next \in 1..Len(Preorder)
  BY NextNodeTyped, MemoFacts DEF AnnotateCost, ReqAt, TypedService, TypedRequest, Request
<1>2. to \in PCs /\ next \in 1..(Len(Preorder) + 1)
  BY <1>1, PreorderFacts DEF PCs
<1>3. PICK snap \in SnapshotForNode(r, k) :
        req' = [req EXCEPT ![r].memo = Memoize(@, k, snap), ![r].ann[n].cost = snap,
                  ![r].next = @ + 1,
                  ![r].pc = IF req[r].next = Len(Preorder) THEN "execute" ELSE "cardinality"]
  BY DEF AnnotateCost
<1> DEFINE memo == Memoize(req[r].memo, k, snap)
           a == [req[r].ann[n] EXCEPT !.cost = snap]
           q == [req[r] EXCEPT !.memo = memo, !.ann = [req[r].ann EXCEPT ![n] = a],
                               !.next = next, !.pc = to]
<1>4. /\ memo \in Memos /\ snap \in Series /\ Extends(memo, req[r].memo)
      /\ k \in DOMAIN memo /\ memo[k] = snap
  BY <1>1, LookupMemoized
<1>5. a \in Annotation /\ a.cost = snap /\ a.key = k /\ a.card = req[r].ann[n].card
  BY <1>1, <1>4 DEF Annotation
<1>6. req' = [req EXCEPT ![r] = q]
  BY <1>3
<1>7. q.pc = to /\ q.next = next
  BY <1>1 DEF Request
<1> HIDE DEF memo, a, to, next
<1>8. /\ q \in Request /\ q.counts = req[r].counts /\ q.memo = memo
      /\ q.ann = [req[r].ann EXCEPT ![n] = a]
  BY <1>1, <1>2, <1>4, <1>5 DEF Request
<1> HIDE DEF q
<1>9. QED
  BY <1>1, <1>4, <1>5, <1>6, <1>7, <1>8 DEF to, next

(* The steps that annotate and record nothing leave the plan alone.        *)
LEMMA PlanKept ==
  ASSUME TypedService, NEW r \in Requests,
         \/ Refuse(r) \/ Prepare(r) \/ ExecutionSucceeds(r) \/ ExecutionFails(r) \/ Respond(r)
  PROVE  \E q \in Request :
           /\ req' = [req EXCEPT ![r] = q] /\ store' = store
           /\ q.memo = req[r].memo /\ q.ann = req[r].ann
           /\ \/ /\ req[r].pc \in {"idle", "execute", "respond"} /\ q.pc = "answered"
                 /\ q.next = req[r].next /\ q.counts = req[r].counts
              \/ /\ req[r].pc = "idle" /\ q.pc = "cardinality"
                 /\ q.next = req[r].next /\ q.counts = req[r].counts
              \/ /\ req[r].pc = "execute" /\ q.pc = "record"
                 /\ q.next = 1 /\ q.counts \in Executions
<1>1. /\ req[r] \in Request
      /\ "answered" \in PCs /\ "cardinality" \in PCs /\ "record" \in PCs
      /\ 200 \in Statuses /\ 400 \in Statuses /\ 405 \in Statuses /\ 500 \in Statuses
  BY MemoFacts DEF PCs, Statuses
<1>2. ASSUME NEW status \in Statuses, store' = store,
             req[r].pc \in {"idle", "respond"},
             req' = [req EXCEPT ![r].pc = "answered", ![r].status = status, ![r].data = FALSE]
      PROVE  \E q \in Request :
           /\ req' = [req EXCEPT ![r] = q] /\ store' = store
           /\ q.memo = req[r].memo /\ q.ann = req[r].ann
           /\ q.pc = "answered" /\ q.next = req[r].next /\ q.counts = req[r].counts
  <2> DEFINE q == [req[r] EXCEPT !.pc = "answered", !.status = status, !.data = FALSE]
  <2>1. req' = [req EXCEPT ![r] = q]
    BY <1>2
  <2>2. /\ q \in Request /\ q.memo = req[r].memo /\ q.ann = req[r].ann
        /\ q.pc = "answered" /\ q.next = req[r].next /\ q.counts = req[r].counts
    BY <1>1 DEF Request
  <2> HIDE DEF q
  <2>3. QED
    BY <1>2, <2>1, <2>2
<1>3. CASE Refuse(r)
  <2>1. req[r].pc = "idle" /\ store' = store
    BY <1>3 DEF Refuse, ReqAt
  <2>2. \/ req' = [req EXCEPT ![r].pc = "answered", ![r].status = 405, ![r].data = FALSE]
        \/ req' = [req EXCEPT ![r].pc = "answered", ![r].status = 400, ![r].data = FALSE]
    BY <1>3 DEF Refuse, Answer
  <2>3. QED
    BY <1>1, <1>2, <2>1, <2>2
<1>4. CASE Prepare(r)
  <2> DEFINE q == [req[r] EXCEPT !.pc = "cardinality"]
  <2>1. /\ req' = [req EXCEPT ![r] = q] /\ store' = store /\ req[r].pc = "idle"
    BY <1>4 DEF Prepare, ReqAt
  <2>2. /\ q \in Request /\ q.memo = req[r].memo /\ q.ann = req[r].ann
        /\ q.pc = "cardinality" /\ q.next = req[r].next /\ q.counts = req[r].counts
    BY <1>1 DEF Request
  <2> HIDE DEF q
  <2>3. QED
    BY <2>1, <2>2
<1>5. CASE ExecutionSucceeds(r)
  <2>1. PICK c \in Executions : req' = [req EXCEPT ![r].pc = "record", ![r].next = 1, ![r].counts = c]
    BY <1>5 DEF ExecutionSucceeds
  <2> DEFINE q == [req[r] EXCEPT !.pc = "record", !.next = 1, !.counts = c]
  <2>2. /\ req' = [req EXCEPT ![r] = q] /\ store' = store /\ req[r].pc = "execute"
    BY <1>5, <2>1 DEF ExecutionSucceeds, ReqAt
  <2>3. c \in [Nodes -> Counts] /\ 1 \in 1..(Len(Preorder) + 1)
    BY ExecutionsAssumption, PreorderFacts DEF Counts
  <2>4. /\ q \in Request /\ q.memo = req[r].memo /\ q.ann = req[r].ann
        /\ q.pc = "record" /\ q.next = 1 /\ q.counts = c
    BY <1>1, <2>3 DEF Request
  <2> HIDE DEF q
  <2>5. QED
    BY <2>2, <2>4
<1>6. CASE ExecutionFails(r)
  <2> DEFINE q == [req[r] EXCEPT !.pc = "answered", !.status = 200]
  <2>1. /\ req' = [req EXCEPT ![r] = q] /\ store' = store /\ req[r].pc = "execute"
    BY <1>6 DEF ExecutionFails, ReqAt
  <2>2. /\ q \in Request /\ q.memo = req[r].memo /\ q.ann = req[r].ann
        /\ q.pc = "answered" /\ q.next = req[r].next /\ q.counts = req[r].counts
    BY <1>1 DEF Request
  <2> HIDE DEF q
  <2>3. QED
    BY <2>1, <2>2
<1>7. CASE Respond(r)
  <2> DEFINE q == [req[r] EXCEPT !.pc = "answered", !.status = 200, !.data = TRUE]
  <2>1. req[r].pc = "respond" /\ store' = store /\ (Answer(r, 200, TRUE) \/ Answer(r, 500, FALSE))
    BY <1>7 DEF Respond, ReqAt
  <2>2. CASE Answer(r, 500, FALSE)
    BY <1>1, <1>2, <2>1, <2>2 DEF Answer
  <2>3. CASE Answer(r, 200, TRUE)
    <3>1. req' = [req EXCEPT ![r] = q]
      BY <2>3 DEF Answer
    <3>2. /\ q \in Request /\ q.memo = req[r].memo /\ q.ann = req[r].ann
          /\ q.pc = "answered" /\ q.next = req[r].next /\ q.counts = req[r].counts
      BY <1>1 DEF Request
    <3> HIDE DEF q
    <3>3. QED
      BY <2>1, <3>1, <3>2
  <2>4. QED
    BY <2>1, <2>2, <2>3
<1>8. QED
  BY <1>3, <1>4, <1>5, <1>6, <1>7

(* The walk after an execution records a node whose resolver was called,   *)
(* under one of its field's keys, and goes on.                             *)
LEMMA NodeRecorded ==
  ASSUME TypedService, NEW r \in Requests, RecordNode(r)
  PROVE  /\ req[r].pc = "record"
         /\ \E q \in Request :
              /\ req' = [req EXCEPT ![r] = q]
              /\ q.memo = req[r].memo /\ q.ann = req[r].ann /\ q.counts = req[r].counts
              /\ q.next = req[r].next + 1
              /\ q.pc = IF req[r].next = Len(Preorder) THEN "respond" ELSE "record"
         /\ store' \in Store
         /\ \A f \in Fields : IndexOf(store', f)
         /\ IF req[r].counts[NextNode(r)].physical > 0
            THEN \E k \in FieldKeys, lens \in SUBSET Nat :
                   k.field = FieldOf[NextNode(r)] /\ store' = Record(store, k, lens)
            ELSE store' = store
<1> DEFINE n == NextNode(r)
           c == req[r].counts[n]
           k == FieldKey(FieldOf[n], ParentRowsForKey(r, n))
           next == req[r].next + 1
           to == IF req[r].next = Len(Preorder) THEN "respond" ELSE "record"
           q == [req[r] EXCEPT !.next = next, !.pc = to]
<1>1. /\ n \in Nodes /\ FieldOf[n] \in Fields /\ req[r].pc = "record"
      /\ req[r] \in Request /\ req[r].next \in 1..Len(Preorder)
  BY NextNodeTyped, MemoFacts DEF RecordNode, ReqAt
<1>2. c \in Counts /\ c.physical <= c.calls
  BY <1>1 DEF Request, TypedService, TypedRequest
<1>3. k \in FieldKeys /\ k.field = FieldOf[n]
  BY <1>1, ParentRowsTyped, KeyTyped DEF FieldKey
<1>4. to \in PCs /\ next \in 1..(Len(Preorder) + 1)
  BY <1>1, PreorderFacts DEF PCs
<1>5. req' = [req EXCEPT ![r] = q]
  BY <1>1 DEF RecordNode
<1>6. /\ q \in Request /\ q.memo = req[r].memo /\ q.ann = req[r].ann
      /\ q.counts = req[r].counts /\ q.next = next /\ q.pc = to
  <2> HIDE DEF next, to
  <2>1. QED
    BY <1>1, <1>4 DEF Request
<1>7. CASE c.physical > 0
  <2> DEFINE lens == ObservedLen(n, c)
  <2>1. c.calls > 0
    BY <1>2, <1>7 DEF Counts
  <2>2. lens \in SUBSET Nat
    BY <1>2, <2>1, ObservedLenTyped
  <2>3. store' = Record(store, k, lens)
    BY <1>7 DEF RecordNode
  <2> HIDE DEF lens, k
  <2>4. store' \in Store /\ \A f \in Fields : IndexOf(store', f)
    BY <1>3, <2>2, <2>3, RecordTyped, RecordIndexed DEF TypedService
  <2> HIDE DEF q
  <2>5. QED
    BY <1>1, <1>3, <1>5, <1>6, <1>7, <2>2, <2>3, <2>4
<1>8. CASE ~(c.physical > 0)
  <2>1. store' = store
    BY <1>8 DEF RecordNode
  <2> HIDE DEF q
  <2>2. QED
    BY <1>1, <1>5, <1>6, <1>8, <2>1 DEF TypedService
<1>9. QED
  BY <1>7, <1>8

-----------------------------------------------------------------------------
LEMMA TypedServiceStep == TypedService /\ [ServiceNext]_serviceVars => TypedService'
<1> SUFFICES ASSUME TypedService, [ServiceNext]_serviceVars PROVE TypedService'
  OBVIOUS
<1>a. ASSUME NEW r \in Requests
      PROVE  /\ TypedRequest(r) /\ req[r] \in Request
             /\ store \in Store /\ \A f \in Fields : IndexOf(store, f)
  BY MemoFacts DEF TypedService
<1>1. ASSUME NEW r \in Requests,
             \/ Refuse(r) \/ Prepare(r) \/ ExecutionSucceeds(r)
             \/ ExecutionFails(r) \/ Respond(r)
      PROVE  TypedService'
  <2>1. PICK q \in Request :
           /\ req' = [req EXCEPT ![r] = q] /\ store' = store
           /\ q.memo = req[r].memo /\ q.ann = req[r].ann
           /\ \/ /\ req[r].pc \in {"idle", "execute", "respond"} /\ q.pc = "answered"
                 /\ q.next = req[r].next /\ q.counts = req[r].counts
              \/ /\ req[r].pc = "idle" /\ q.pc = "cardinality"
                 /\ q.next = req[r].next /\ q.counts = req[r].counts
              \/ /\ req[r].pc = "execute" /\ q.pc = "record"
                 /\ q.next = 1 /\ q.counts \in Executions
    BY <1>1, PlanKept
  <2>2. 1 \in 1..Len(Preorder)
    BY PreorderFacts
  <2>3. /\ q.pc = "idle" => q.next = 1
        /\ q.pc \in {"cardinality", "cost", "record"} => q.next \in 1..Len(Preorder)
        /\ q.pc = "cost" => q.ann[Preorder[q.next]].key \in FieldKeys
        /\ q.pc \in BeforeExecution => \A n \in Nodes : q.counts[n].physical = 0
        /\ \A n \in Nodes : q.counts[n].physical <= q.counts[n].calls
    BY <1>a, <2>1, <2>2, ExecutionsAssumption DEF TypedRequest, ReqAt, BeforeExecution
  <2>4. QED
    BY <1>a, <2>1, <2>3, RequestStep
<1>2. ASSUME NEW r \in Requests, AnnotateCardinality(r) PROVE TypedService'
  <2>1. PICK q \in Request, a \in Annotation :
           /\ req' = [req EXCEPT ![r] = q] /\ store' = store
           /\ q.pc = "cost" /\ q.next = req[r].next /\ q.counts = req[r].counts
           /\ q.ann = [req[r].ann EXCEPT ![NextNode(r)] = a]
           /\ a.key \in FieldKeys
    BY <1>2, CardinalityAnnotated
  <2>2. req[r].pc = "cardinality"
    BY <1>2 DEF AnnotateCardinality, ReqAt
  <2>3. q.ann[Preorder[q.next]].key \in FieldKeys
    BY <1>a, <2>1, <2>2, NextNodeTyped DEF Request, NextNode
  <2>4. /\ q.pc = "idle" => q.next = 1
        /\ q.pc \in {"cardinality", "cost", "record"} => q.next \in 1..Len(Preorder)
        /\ q.pc = "cost" => q.ann[Preorder[q.next]].key \in FieldKeys
        /\ q.pc \in BeforeExecution => \A n \in Nodes : q.counts[n].physical = 0
        /\ \A n \in Nodes : q.counts[n].physical <= q.counts[n].calls
    BY <1>a, <2>1, <2>2, <2>3 DEF TypedRequest, ReqAt, BeforeExecution
  <2>5. QED
    BY <1>a, <2>1, <2>4, RequestStep
<1>3. ASSUME NEW r \in Requests, AnnotateCost(r) PROVE TypedService'
  <2>1. PICK q \in Request :
           /\ req' = [req EXCEPT ![r] = q] /\ store' = store
           /\ q.pc = IF req[r].next = Len(Preorder) THEN "execute" ELSE "cardinality"
           /\ q.next = req[r].next + 1 /\ q.counts = req[r].counts
    BY <1>3, CostAnnotated
  <2>2. req[r].pc = "cost"
    BY <1>3 DEF AnnotateCost, ReqAt
  <2>3. q.pc = "cardinality" => q.next \in 1..Len(Preorder)
    BY <1>a, <2>1, <2>2, PreorderFacts DEF TypedRequest
  <2>4. /\ q.pc = "idle" => q.next = 1
        /\ q.pc \in {"cardinality", "cost", "record"} => q.next \in 1..Len(Preorder)
        /\ q.pc = "cost" => q.ann[Preorder[q.next]].key \in FieldKeys
        /\ q.pc \in BeforeExecution => \A n \in Nodes : q.counts[n].physical = 0
        /\ \A n \in Nodes : q.counts[n].physical <= q.counts[n].calls
    BY <1>a, <2>1, <2>2, <2>3 DEF TypedRequest, ReqAt, BeforeExecution
  <2>5. QED
    BY <1>a, <2>1, <2>4, RequestStep
<1>4. ASSUME NEW r \in Requests, RecordNode(r) PROVE TypedService'
  <2>1. /\ req[r].pc = "record"
        /\ store' \in Store
        /\ \A f \in Fields : IndexOf(store', f)
    BY <1>4, NodeRecorded
  <2>2. PICK q \in Request :
           /\ req' = [req EXCEPT ![r] = q]
           /\ q.counts = req[r].counts
           /\ q.next = req[r].next + 1
           /\ q.pc = IF req[r].next = Len(Preorder) THEN "respond" ELSE "record"
    BY <1>4, NodeRecorded
  <2>3. q.pc = "record" => q.next \in 1..Len(Preorder)
    BY <1>a, <2>1, <2>2, PreorderFacts DEF TypedRequest
  <2>4. /\ q.pc = "idle" => q.next = 1
        /\ q.pc \in {"cardinality", "cost", "record"} => q.next \in 1..Len(Preorder)
        /\ q.pc = "cost" => q.ann[Preorder[q.next]].key \in FieldKeys
        /\ q.pc \in BeforeExecution => \A n \in Nodes : q.counts[n].physical = 0
        /\ \A n \in Nodes : q.counts[n].physical <= q.counts[n].calls
    BY <1>a, <2>1, <2>2, <2>3 DEF TypedRequest, ReqAt, BeforeExecution
  <2>5. QED
    BY <1>a, <2>1, <2>2, <2>4, RequestStep
<1>5. CASE UNCHANGED serviceVars
  <2>1. store' = store /\ req' = req
    BY <1>5 DEF serviceVars
  <2>2. ASSUME NEW r \in Requests PROVE TypedRequest(r)'
    BY <1>a, <2>1 DEF TypedRequest, ReqAt, NextNode
  <2>3. QED
    BY <2>1, <2>2 DEF TypedService
<1>6. QED
  BY <1>1, <1>2, <1>3, <1>4, <1>5 DEF ServiceNext, Handle, AllAnswered

(* The store's two maps and the locals of every request keep their types.  *)
THEOREM ServiceTypes == ServiceSpec => []ServiceTypeOK
<1>1. TypedService => ServiceTypeOK
  <2> SUFFICES ASSUME TypedService PROVE ServiceTypeOK
    OBVIOUS
  <2>1. PICK D \in SUBSET FieldKeys : store.fields \in [D -> StoredSeries]
    BY DEF TypedService, Store
  <2>2. /\ DOMAIN store.fields \subseteq FieldKeys
        /\ \A k \in DOMAIN store.fields :
             store.fields[k].calls \in Nat \ {0} /\ store.fields[k].lens \subseteq Nat
    BY <2>1 DEF StoredSeries
  <2>3. ASSUME NEW r \in Requests
        PROVE  /\ req[r].pc \in PCs
               /\ req[r].next \in 1..(Len(Preorder) + 1)
               /\ \A n \in Nodes : /\ req[r].ann[n].rows \in Nat \ {0}
                                   /\ req[r].ann[n].total \in Nat \ {0}
               /\ req[r].status \in {0, 200, 400, 405, 500}
    BY <2>3, MemoFacts DEF Request, Annotation, Statuses
  <2>4. QED
    BY <2>2, <2>3 DEF ServiceTypeOK
<1>2. QED
  BY <1>1, TypedServiceInit, TypedServiceStep, PTL DEF ServiceSpec

(* The store's two maps are written at different places of one critical    *)
(* section; between any two steps the index lists exactly the keys stored. *)
THEOREM IndexKept == ServiceSpec => []IndexMatchesStore
<1>1. TypedService => IndexMatchesStore
  BY DEF TypedService, IndexMatchesStore, IndexOf
<1>2. QED
  BY <1>1, TypedServiceInit, TypedServiceStep, PTL DEF ServiceSpec

-----------------------------------------------------------------------------
(* What a plan used of the statistics is what its memo has; so two nodes   *)
(* with a key in common used one snapshot.                                 *)
FromMemo(q, n) ==
  LET k == q.ann[n].key
  IN k # NoKey =>
       /\ n \in IsList => k \in DOMAIN q.memo /\ q.ann[n].card = q.memo[k]
       /\ ~(q.pc = "cost" /\ Preorder[q.next] = n) =>
             k \in DOMAIN q.memo /\ q.ann[n].cost = q.memo[k]

SnapshotsFromMemo == \A r \in Requests : \A n \in Nodes : FromMemo(req[r], n)

LEMMA SnapshotsFromMemoInit == ServiceInit => SnapshotsFromMemo
  BY DEF ServiceInit, SnapshotsFromMemo, FromMemo, NoRequest, Unannotated

LEMMA SnapshotsFromMemoStep ==
  TypedService /\ SnapshotsFromMemo /\ [ServiceNext]_serviceVars => SnapshotsFromMemo'
<1> SUFFICES ASSUME TypedService, SnapshotsFromMemo, [ServiceNext]_serviceVars
             PROVE  SnapshotsFromMemo'
  OBVIOUS
<1>a. ASSUME NEW r \in Requests, NEW n \in Nodes
      PROVE  FromMemo(req[r], n) /\ req[r].ann \in [Nodes -> Annotation]
  BY MemoFacts DEF SnapshotsFromMemo, Request
<1>b. req \in [Requests -> Request]
  BY DEF TypedService
<1>c. ASSUME NEW r \in Requests, NEW q, req' = [req EXCEPT ![r] = q],
             \A n \in Nodes : FromMemo(q, n)
      PROVE  SnapshotsFromMemo'
  BY <1>a, <1>b, <1>c DEF SnapshotsFromMemo
<1>1. ASSUME NEW r \in Requests,
             \/ Refuse(r) \/ Prepare(r) \/ ExecutionSucceeds(r)
             \/ ExecutionFails(r) \/ Respond(r)
      PROVE  SnapshotsFromMemo'
  <2>1. PICK q \in Request :
           /\ req' = [req EXCEPT ![r] = q]
           /\ q.memo = req[r].memo /\ q.ann = req[r].ann
           /\ req[r].pc # "cost" /\ q.pc # "cost"
    BY <1>1, PlanKept
  <2>2. ASSUME NEW n \in Nodes PROVE FromMemo(q, n)
    BY <1>a, <2>1 DEF FromMemo
  <2>3. QED
    BY <1>c, <2>1, <2>2
<1>2. ASSUME NEW r \in Requests, AnnotateCardinality(r) PROVE SnapshotsFromMemo'
  <2>1. PICK q \in Request, a \in Annotation :
           /\ req' = [req EXCEPT ![r] = q]
           /\ q.pc = "cost" /\ q.next = req[r].next
           /\ q.ann = [req[r].ann EXCEPT ![NextNode(r)] = a]
           /\ Extends(q.memo, req[r].memo)
           /\ NextNode(r) \in IsList => a.key \in DOMAIN q.memo /\ a.card = q.memo[a.key]
    BY <1>2, CardinalityAnnotated
  <2>2. req[r].pc = "cardinality"
    BY <1>2 DEF AnnotateCardinality, ReqAt
  <2>3. ASSUME NEW n \in Nodes PROVE FromMemo(q, n)
    <3>1. CASE n = NextNode(r)
      BY <1>a, <2>1, <2>2, <3>1 DEF FromMemo, Extends, NextNode
    <3>2. CASE n # NextNode(r)
      BY <1>a, <2>1, <2>2, <3>2 DEF FromMemo, Extends, NextNode
    <3>3. QED
      BY <3>1, <3>2
  <2>4. QED
    BY <1>c, <2>1, <2>3
<1>3. ASSUME NEW r \in Requests, AnnotateCost(r) PROVE SnapshotsFromMemo'
  <2>1. PICK q \in Request, a \in Annotation :
           /\ req' = [req EXCEPT ![r] = q]
           /\ q.pc = IF req[r].next = Len(Preorder) THEN "execute" ELSE "cardinality"
           /\ q.ann = [req[r].ann EXCEPT ![NextNode(r)] = a]
           /\ Extends(q.memo, req[r].memo)
           /\ a.key = req[r].ann[NextNode(r)].key /\ a.card = req[r].ann[NextNode(r)].card
           /\ a.key \in DOMAIN q.memo /\ a.cost = q.memo[a.key]
    BY <1>3, CostAnnotated
  <2>2. req[r].pc = "cost"
    BY <1>3 DEF AnnotateCost, ReqAt
  <2>3. ASSUME NEW n \in Nodes PROVE FromMemo(q, n)
    <3>a. q.pc # "cost" /\ FromMemo(req[r], n)
      BY <1>a, <2>1
    <3>1. CASE n = NextNode(r)
      <4>1. q.ann[n] = a
        BY <1>a, <2>1, <3>1
      <4>2. a.key = req[r].ann[n].key /\ a.card = req[r].ann[n].card
        BY <2>1, <3>1
      <4>3. QED
        BY <2>1, <3>a, <4>1, <4>2 DEF FromMemo, Extends
    <3>2. CASE n # NextNode(r)
      <4>1. q.ann[n] = req[r].ann[n]
        BY <1>a, <2>1, <3>2
      <4>2. ~(req[r].pc = "cost" /\ Preorder[req[r].next] = n)
        BY <3>2 DEF NextNode
      <4>3. QED
        BY <2>1, <3>a, <4>1, <4>2 DEF FromMemo, Extends
    <3>3. QED
      BY <3>1, <3>2
  <2>4. QED
    BY <1>c, <2>1, <2>3
<1>4. ASSUME NEW r \in Requests, RecordNode(r) PROVE SnapshotsFromMemo'
  <2>1. PICK q \in Request :
           /\ req' = [req EXCEPT ![r] = q]
           /\ q.memo = req[r].memo /\ q.ann = req[r].ann
           /\ q.pc = IF req[r].next = Len(Preorder) THEN "respond" ELSE "record"
    BY <1>4, NodeRecorded
  <2>2. req[r].pc = "record"
    BY <1>4, NodeRecorded
  <2>3. ASSUME NEW n \in Nodes PROVE FromMemo(q, n)
    BY <1>a, <2>1, <2>2 DEF FromMemo
  <2>4. QED
    BY <1>c, <2>1, <2>3
<1>5. CASE UNCHANGED serviceVars
  <2>1. req' = req
    BY <1>5 DEF serviceVars
  <2>2. QED
    BY <2>1 DEF SnapshotsFromMemo
<1>6. QED
  BY <1>1, <1>2, <1>3, <1>4, <1>5 DEF ServiceNext, Handle, AllAnswered

(* One plan is computed from one snapshot per key, however many requests   *)
(* record under the key while its nodes are annotated.                     *)
THEOREM OneSnapshot == ServiceSpec => []OneSnapshotPerKey
<1>1. SnapshotsFromMemo => OneSnapshotPerKey
  <2> SUFFICES ASSUME SnapshotsFromMemo, NEW r \in Requests, NEW n \in Nodes, NEW m \in Nodes,
                      Annotated(r, n), Annotated(r, m),
                      req[r].ann[n].key = req[r].ann[m].key
               PROVE  Cardinality(SnapshotsUsed(r, n) \cup SnapshotsUsed(r, m)) <= 1
    BY DEF OneSnapshotPerKey
  <2> DEFINE used == SnapshotsUsed(r, n) \cup SnapshotsUsed(r, m)
             one == {req[r].memo[req[r].ann[n].key]}
  <2>1. ASSUME NEW x \in {n, m} PROVE SnapshotsUsed(r, x) \subseteq one
    BY DEF SnapshotsFromMemo, FromMemo, Annotated, SnapshotsUsed, ReqAt, NextNode
  <2>2. IsFiniteSet(one) /\ Cardinality(one) = 1
    BY FS_Singleton
  <2>3. used \in SUBSET one
    BY <2>1
  <2>4. QED
    BY <2>2, <2>3, FS_Subset
<1>2. QED
  BY <1>1, TypedServiceInit, TypedServiceStep, SnapshotsFromMemoInit, SnapshotsFromMemoStep, PTL
  DEF ServiceSpec

-----------------------------------------------------------------------------
(* HasRecorded of a request's locals.                                      *)
Recorded(q, n) ==
  /\ \E i \in DOMAIN Preorder : Preorder[i] = n /\ (q.pc = "record" => i < q.next)
  /\ q.pc \in {"record", "respond", "answered"}
  /\ q.counts[n].physical > 0

LEMMA RecordedIs == \A r \in Requests : \A n \in Nodes : HasRecorded(r, n) <=> Recorded(req[r], n)
  BY DEF HasRecorded, Recorded, ReqAt

LEMMA RecordedIsPrimed ==
  \A r \in Requests : \A n \in Nodes : HasRecorded(r, n)' <=> Recorded(req'[r], n)
  BY DEF HasRecorded, Recorded, ReqAt

(* What has been recorded stays, unless a step records one node more and   *)
(* stores it.                                                              *)
RecordsNothing ==
  /\ store' = store
  /\ \A r \in Requests : \A n \in Nodes : HasRecorded(r, n)' <=> HasRecorded(r, n)

RecordsOne ==
  \E r \in Requests, n \in Nodes, k \in FieldKeys, lens \in SUBSET Nat :
    /\ k.field = FieldOf[n] /\ store' = Record(store, k, lens)
    /\ ~HasRecorded(r, n)
    /\ \A o \in Requests : \A m \in Nodes :
         HasRecorded(o, m)' <=> HasRecorded(o, m) \/ (o = r /\ m = n)

LEMMA RecordsStep ==
  ASSUME TypedService, [ServiceNext]_serviceVars
  PROVE  RecordsNothing \/ RecordsOne
<1>a. /\ req \in [Requests -> Request]
      /\ \A r \in Requests : TypedRequest(r)
  BY DEF TypedService
<1>b. ASSUME NEW r \in Requests, NEW q, req' = [req EXCEPT ![r] = q], store' = store,
             \A n \in Nodes : Recorded(q, n) <=> Recorded(req[r], n)
      PROVE  RecordsNothing
  <2>1. ASSUME NEW o \in Requests, NEW n \in Nodes
        PROVE  Recorded(req'[o], n) <=> Recorded(req[o], n)
    BY <1>a, <1>b
  <2>2. QED
    BY <1>b, <2>1, RecordedIs, RecordedIsPrimed DEF RecordsNothing
<1>1. ASSUME NEW r \in Requests,
             \/ Refuse(r) \/ Prepare(r) \/ ExecutionSucceeds(r)
             \/ ExecutionFails(r) \/ Respond(r)
      PROVE  RecordsNothing
  <2>1. PICK q \in Request :
           /\ req' = [req EXCEPT ![r] = q] /\ store' = store
           /\ q.memo = req[r].memo /\ q.ann = req[r].ann
           /\ \/ /\ req[r].pc \in {"idle", "execute", "respond"} /\ q.pc = "answered"
                 /\ q.next = req[r].next /\ q.counts = req[r].counts
              \/ /\ req[r].pc = "idle" /\ q.pc = "cardinality"
                 /\ q.next = req[r].next /\ q.counts = req[r].counts
              \/ /\ req[r].pc = "execute" /\ q.pc = "record"
                 /\ q.next = 1 /\ q.counts \in Executions
    BY <1>1, PlanKept
  <2>2. ASSUME NEW n \in Nodes PROVE Recorded(q, n) <=> Recorded(req[r], n)
    <3>1. req[r].pc \in BeforeExecution => req[r].counts[n].physical = 0
      BY <1>a DEF TypedRequest
    <3>2. CASE req[r].pc \in {"idle", "execute", "respond"} /\ q.pc = "answered" /\ q.counts = req[r].counts
      BY <3>1, <3>2 DEF Recorded, BeforeExecution
    <3>3. CASE req[r].pc = "idle" /\ q.pc = "cardinality"
      BY <3>3 DEF Recorded
    <3>4. CASE req[r].pc = "execute" /\ q.pc = "record" /\ q.next = 1
      BY <3>4, PreorderFacts DEF Recorded
    <3>5. QED
      BY <2>1, <3>2, <3>3, <3>4
  <2>3. QED
    BY <1>b, <2>1, <2>2
<1>2. ASSUME NEW r \in Requests, AnnotateCardinality(r) PROVE RecordsNothing
  <2>1. PICK q \in Request : req' = [req EXCEPT ![r] = q] /\ store' = store /\ q.pc = "cost"
    BY <1>2, CardinalityAnnotated
  <2>2. req[r].pc = "cardinality"
    BY <1>2 DEF AnnotateCardinality, ReqAt
  <2>3. QED
    BY <1>b, <2>1, <2>2 DEF Recorded
<1>3. ASSUME NEW r \in Requests, AnnotateCost(r) PROVE RecordsNothing
  <2>1. PICK q \in Request :
          /\ req' = [req EXCEPT ![r] = q] /\ store' = store
          /\ q.pc = IF req[r].next = Len(Preorder) THEN "execute" ELSE "cardinality"
    BY <1>3, CostAnnotated
  <2>2. req[r].pc = "cost"
    BY <1>3 DEF AnnotateCost, ReqAt
  <2>3. QED
    BY <1>b, <2>1, <2>2 DEF Recorded
<1>4. ASSUME NEW r \in Requests, RecordNode(r) PROVE RecordsNothing \/ RecordsOne
  <2> DEFINE n == NextNode(r)
  <2>1. PICK q \in Request :
           /\ req' = [req EXCEPT ![r] = q]
           /\ q.counts = req[r].counts
           /\ q.next = req[r].next + 1
           /\ q.pc = IF req[r].next = Len(Preorder) THEN "respond" ELSE "record"
    BY <1>4, NodeRecorded
  <2>2. /\ req[r].pc = "record" /\ n \in Nodes /\ n = Preorder[req[r].next]
        /\ req[r].next \in 1..Len(Preorder)
    BY <1>4, NodeRecorded, NextNodeTyped DEF NextNode
  <2>3. ASSUME NEW i \in DOMAIN Preorder
        PROVE  (q.pc = "record" => i < q.next) <=> (i < req[r].next \/ i = req[r].next)
    BY <2>1, <2>2, <2>3, PreorderFacts
  <2>4. ASSUME NEW i \in DOMAIN Preorder PROVE i = req[r].next <=> Preorder[i] = n
    BY <2>2, <2>4, PreorderFacts, PreorderAssumption
  <2>5. ~Recorded(req[r], n)
    BY <2>2, <2>4, PreorderFacts DEF Recorded
  <2>6. ASSUME NEW m \in Nodes
        PROVE  Recorded(q, m) <=> Recorded(req[r], m) \/ (m = n /\ req[r].counts[n].physical > 0)
    <3>1. q.pc \in {"record", "respond", "answered"} /\ req[r].pc \in {"record", "respond", "answered"}
      BY <2>1, <2>2
    <3>2. CASE m = n
      BY <2>1, <2>2, <2>3, <2>4, <2>5, <3>1, <3>2, PreorderFacts DEF Recorded
    <3>3. CASE m # n
      BY <2>1, <2>2, <2>3, <2>4, <3>1, <3>3 DEF Recorded
    <3>4. QED
      BY <3>2, <3>3
  <2>7. CASE req[r].counts[n].physical > 0
    <3>1. PICK k \in FieldKeys, lens \in SUBSET Nat :
            k.field = FieldOf[n] /\ store' = Record(store, k, lens)
      BY <1>4, <2>7, NodeRecorded
    <3>2. ASSUME NEW o \in Requests, NEW m \in Nodes
          PROVE  Recorded(req'[o], m) <=> Recorded(req[o], m) \/ (o = r /\ m = n)
      BY <1>a, <2>1, <2>6, <2>7
    <3> HIDE DEF n
    <3>3. QED
      BY <2>2, <2>5, <3>1, <3>2, RecordedIs, RecordedIsPrimed DEF RecordsOne
  <2>8. CASE ~(req[r].counts[n].physical > 0)
    <3>1. store' = store
      BY <1>4, <2>8, NodeRecorded
    <3>2. QED
      BY <1>b, <2>1, <2>6, <2>8, <3>1
  <2>9. QED
    BY <2>7, <2>8
<1>5. CASE UNCHANGED serviceVars
  BY <1>5 DEF serviceVars, RecordsNothing, HasRecorded, ReqAt
<1>6. QED
  BY <1>1, <1>2, <1>3, <1>4, <1>5 DEF ServiceNext, Handle, AllAnswered

-----------------------------------------------------------------------------
(* A field that was recorded has a series, under some bucket.              *)
RecordedStored ==
  \A r \in Requests : \A n \in Nodes : HasRecorded(r, n) => Indexed(store, FieldOf[n]) # {}

LEMMA RecordedStoredStep ==
  TypedService /\ RecordedStored /\ [ServiceNext]_serviceVars => RecordedStored'
<1> SUFFICES ASSUME TypedService, RecordedStored, [ServiceNext]_serviceVars,
                    NEW o \in Requests, NEW m \in Nodes, HasRecorded(o, m)'
             PROVE  Indexed(store', FieldOf[m]) # {}
  BY DEF RecordedStored
<1>1. CASE RecordsNothing
  BY <1>1 DEF RecordsNothing, RecordedStored
<1>2. CASE RecordsOne
  <2>1. PICK r \in Requests, n \in Nodes, k \in FieldKeys, lens \in SUBSET Nat :
          /\ k.field = FieldOf[n] /\ store' = Record(store, k, lens)
          /\ HasRecorded(o, m)' => HasRecorded(o, m) \/ (o = r /\ m = n)
    BY <1>2 DEF RecordsOne
  <2>2. FieldOf[m] \in Fields
    BY PreorderAssumption
  <2>3. /\ Indexed(store, FieldOf[m]) = {x \in DOMAIN store.fields : x.field = FieldOf[m]}
        /\ Indexed(store', FieldOf[m]) = {x \in DOMAIN store'.fields : x.field = FieldOf[m]}
    BY <2>2, TypedServiceStep DEF TypedService, IndexOf
  <2>4. DOMAIN store'.fields = DOMAIN store.fields \cup {k}
    BY <2>1 DEF Record
  <2>5. QED
    BY <2>1, <2>3, <2>4 DEF RecordedStored
<1>3. QED
  BY <1>1, <1>2, RecordsStep

(* What an execution recorded, every later plan that has the field finds,  *)
(* whatever bucket of parent rows it asks for.                             *)
THEOREM RecordedFound == ServiceSpec => []RecordedIsFound
<1>1. ServiceInit => RecordedStored
  BY DEF ServiceInit, RecordedStored, HasRecorded, ReqAt, NoRequest
<1>2. TypedService /\ RecordedStored => RecordedIsFound
  <2> SUFFICES ASSUME TypedService, RecordedStored, NEW r \in Requests, NEW n \in Nodes,
                      HasRecorded(r, n), NEW b \in Buckets
               PROVE  NotFound \notin Snapshots(store, [field |-> FieldOf[n], bucket |-> b])
    BY DEF RecordedIsFound
  <2> DEFINE k == [field |-> FieldOf[n], bucket |-> b]
  <2>1. FieldOf[n] \in Fields /\ k \in FieldKeys /\ k.field = FieldOf[n]
    BY PreorderAssumption DEF FieldKeys
  <2>2. store \in Store /\ IndexOf(store, k.field)
    BY <2>1 DEF TypedService
  <2>3. Indexed(store, k.field) # {}
    BY <2>1 DEF RecordedStored
  <2> HIDE DEF k
  <2>4. QED
    BY <2>1, <2>2, <2>3, SnapshotTyped DEF k
<1>3. QED
  BY <1>1, <1>2, TypedServiceInit, TypedServiceStep, RecordedStoredStep, PTL DEF ServiceSpec

-----------------------------------------------------------------------------
(* The executions a field's series have counted, one by one, and the ones  *)
(* that were recorded: as many.                                            *)
Bound == Cardinality(Requests \X Nodes)

Credited(f) ==
  {x \in {k \in DOMAIN store.fields : k.field = f} \X (1..Bound) : x[2] <= store.fields[x[1]].calls}

Noted(f) == {x \in Requests \X Nodes : FieldOf[x[2]] = f /\ HasRecorded(x[1], x[2])}

Counted ==
  /\ \A k \in DOMAIN store.fields : store.fields[k].calls <= Bound
  /\ \A f \in Fields :
       IsFiniteSet(Credited(f)) /\ Cardinality(Credited(f)) = Cardinality(Noted(f))

LEMMA BoundFinite ==
  /\ IsFiniteSet(Requests \X Nodes) /\ Bound \in Nat
  /\ \A f \in Fields : IsFiniteSet(Noted(f)) /\ Cardinality(Noted(f)) \in Nat
<1>1. Preorder \in Surjection(1..Len(Preorder), Nodes)
  BY PreorderFacts, PreorderAssumption DEF Surjection, Nodes
<1>2. IsFiniteSet(1..Len(Preorder))
  BY PreorderFacts, FS_Interval
<1>3. IsFiniteSet(Nodes)
  BY <1>1, <1>2, FS_Surjection
<1>4. IsFiniteSet(Requests \X Nodes)
  BY <1>3, RequestsAssumption, FS_Product
<1>5. ASSUME NEW f \in Fields PROVE IsFiniteSet(Noted(f)) /\ Cardinality(Noted(f)) \in Nat
  <2>1. Noted(f) \in SUBSET (Requests \X Nodes)
    BY DEF Noted
  <2>2. QED
    BY <1>4, <2>1, FS_Subset, FS_CardinalityType
<1>6. QED
  BY <1>4, <1>5, FS_CardinalityType DEF Bound

(* A series has not counted more than its field was credited with.         *)
LEMMA CallsCredited ==
  ASSUME TypedService, Counted, NEW k \in DOMAIN store.fields
  PROVE  /\ store.fields[k].calls \in Nat
         /\ store.fields[k].calls <= Cardinality(Credited(k.field))
<1> DEFINE calls == store.fields[k].calls
           inj == [i \in 1..calls |-> <<k, i>>]
<1>1. PICK D \in SUBSET FieldKeys : store.fields \in [D -> StoredSeries]
  BY DEF TypedService, Store
<1>2. calls \in Nat /\ k \in FieldKeys /\ k.field \in Fields
  BY <1>1 DEF StoredSeries, FieldKeys
<1>3. calls <= Bound /\ IsFiniteSet(Credited(k.field))
  BY <1>2 DEF Counted
<1> HIDE DEF calls
<1>4. \A i \in 1..calls : <<k, i>> \in Credited(k.field)
  BY <1>2, <1>3, BoundFinite DEF Credited, calls
<1>5. inj \in Injection(1..calls, Credited(k.field))
  BY <1>4 DEF Injection, IsInjective
<1>6. Cardinality(1..calls) <= Cardinality(Credited(k.field))
  BY <1>3, <1>5, FS_Injection
<1>7. Cardinality(1..calls) = calls
  BY <1>2, FS_Interval
<1>8. QED
  BY <1>2, <1>6, <1>7 DEF calls

LEMMA CountedStep ==
  TypedService /\ Counted /\ [ServiceNext]_serviceVars => Counted'
<1> SUFFICES ASSUME TypedService, Counted, [ServiceNext]_serviceVars PROVE Counted'
  OBVIOUS
<1>1. CASE RecordsNothing
  <2>1. \A f \in Fields : Noted(f)' = Noted(f)
    BY <1>1 DEF RecordsNothing, Noted
  <2>2. \A f \in Fields : Credited(f)' = Credited(f)
    BY <1>1 DEF RecordsNothing, Credited, Bound
  <2>3. QED
    BY <1>1, <2>1, <2>2 DEF RecordsNothing, Counted, Bound
<1>2. CASE RecordsOne
  <2>1. PICK r \in Requests, n \in Nodes, k \in FieldKeys, lens \in SUBSET Nat :
          /\ k.field = FieldOf[n] /\ store' = Record(store, k, lens)
          /\ ~HasRecorded(r, n)
          /\ \A o \in Requests : \A m \in Nodes :
               HasRecorded(o, m)' <=> HasRecorded(o, m) \/ (o = r /\ m = n)
    BY <1>2 DEF RecordsOne
  <2> DEFINE f == k.field
             calls == IF k \in DOMAIN store.fields THEN store.fields[k].calls ELSE 0
  <2>2. f \in Fields
    BY DEF FieldKeys
  <2>3. /\ DOMAIN store'.fields = DOMAIN store.fields \cup {k}
        /\ store'.fields[k].calls = calls + 1
        /\ \A x \in DOMAIN store.fields : x # k => store'.fields[x] = store.fields[x]
    BY <2>1 DEF Record, Observed, SeriesOf, Stored, NotFound
  <2>4. Noted(f)' = Noted(f) \cup {<<r, n>>} /\ <<r, n>> \notin Noted(f)
    <3>1. <<r, n>> \notin Noted(f)
      BY <2>1 DEF Noted
    <3>2. ASSUME NEW x \in Requests \X Nodes
          PROVE  x \in Noted(f)' <=> x \in Noted(f) \/ x = <<r, n>>
      <4>1. PICK o \in Requests, m \in Nodes : x = <<o, m>>
        OBVIOUS
      <4>2. x = <<r, n>> <=> o = r /\ m = n
        BY <4>1
      <4>3. QED
        BY <2>1, <4>1, <4>2 DEF Noted
    <3>3. QED
      BY <3>1, <3>2 DEF Noted
  <2>5. ASSUME NEW g \in Fields, g # f PROVE Noted(g)' = Noted(g)
    <3>1. ASSUME NEW o \in Requests, NEW m \in Nodes
          PROVE  <<o, m>> \in Noted(g)' <=> <<o, m>> \in Noted(g)
      BY <2>1, <2>5 DEF Noted
    <3>2. QED
      BY <3>1 DEF Noted
  <2>6. Cardinality(Noted(f)') = Cardinality(Noted(f)) + 1 /\ Cardinality(Noted(f)') <= Bound
    <3>1. IsFiniteSet(Noted(f))
      BY <2>2, BoundFinite
    <3>2. Noted(f)' \in SUBSET (Requests \X Nodes)
      BY DEF Noted
    <3>3. Cardinality(Noted(f)') <= Bound
      BY <3>2, BoundFinite, FS_Subset DEF Bound
    <3>4. QED
      BY <2>4, <3>1, <3>3, FS_AddElement
  <2>7. calls \in Nat /\ calls <= Cardinality(Noted(f))
    <3>1. CASE k \in DOMAIN store.fields
      BY <2>2, <3>1, CallsCredited DEF Counted
    <3>2. CASE k \notin DOMAIN store.fields
      BY <2>2, <3>2, BoundFinite
    <3>3. QED
      BY <3>1, <3>2
  <2>8. calls + 1 \in 1..Bound
    BY <2>2, <2>6, <2>7, BoundFinite
  <2> HIDE DEF calls
  <2>9. Credited(f)' = Credited(f) \cup {<<k, calls + 1>>} /\ <<k, calls + 1>> \notin Credited(f)
    <3>1. <<k, calls + 1>> \notin Credited(f)
      BY <2>7, <2>8 DEF Credited, calls
    <3>2. ASSUME NEW x \in DOMAIN store'.fields, x.field = f, NEW i \in 1..Bound
          PROVE  <<x, i>> \in Credited(f)' <=> <<x, i>> \in Credited(f) \/ <<x, i>> = <<k, calls + 1>>
      <4>1. <<x, i>> \in Credited(f)' <=> i <= store'.fields[x].calls
        BY <3>2 DEF Credited, Bound
      <4>2. CASE x = k
        <5>1. <<x, i>> \in Credited(f) <=> i <= calls
          BY <2>7, <3>2, <4>2 DEF Credited, calls
        <5>2. i <= calls + 1 <=> i <= calls \/ i = calls + 1
          BY <2>7
        <5>3. QED
          BY <2>3, <4>1, <4>2, <5>1, <5>2
      <4>3. CASE x # k
        <5>1. x \in DOMAIN store.fields /\ store'.fields[x] = store.fields[x]
          BY <2>3, <4>3
        <5>2. <<x, i>> \in Credited(f) <=> i <= store.fields[x].calls
          BY <3>2, <5>1 DEF Credited
        <5>3. QED
          BY <4>1, <4>3, <5>1, <5>2
      <4>4. QED
        BY <4>2, <4>3
    <3>3. /\ \A y \in Credited(f)' : \E x \in DOMAIN store'.fields, i \in 1..Bound :
               x.field = f /\ y = <<x, i>>
          /\ \A y \in Credited(f) : \E x \in DOMAIN store'.fields, i \in 1..Bound :
               x.field = f /\ y = <<x, i>>
      <4>1. Credited(f)' \subseteq {x \in DOMAIN store'.fields : x.field = f} \X (1..Bound)
        BY DEF Credited, Bound
      <4>2. Credited(f) \subseteq {x \in DOMAIN store'.fields : x.field = f} \X (1..Bound)
        BY <2>3 DEF Credited
      <4>3. QED
        BY <4>1, <4>2
    <3>4. k \in DOMAIN store'.fields
      BY <2>3
    <3>5. QED
      BY <2>8, <3>1, <3>2, <3>3, <3>4
  <2>10. ASSUME NEW g \in Fields, g # f PROVE Credited(g)' = Credited(g)
    <3>1. {x \in DOMAIN store'.fields : x.field = g} = {x \in DOMAIN store.fields : x.field = g}
      BY <2>3, <2>10
    <3>2. \A x \in DOMAIN store.fields : x.field = g => store'.fields[x] = store.fields[x]
      BY <2>3, <2>10
    <3>3. QED
      BY <3>1, <3>2 DEF Credited, Bound
  <2>11. ASSUME NEW g \in Fields
         PROVE  IsFiniteSet(Credited(g)') /\ Cardinality(Credited(g)') = Cardinality(Noted(g)')
    <3>1. CASE g = f
      BY <2>2, <2>6, <2>9, <3>1, FS_AddElement DEF Counted
    <3>2. CASE g # f
      BY <2>5, <2>10, <3>2 DEF Counted
    <3>3. QED
      BY <3>1, <3>2
  <2>12. ASSUME NEW x \in DOMAIN store'.fields PROVE store'.fields[x].calls <= Bound
    BY <2>3, <2>8 DEF Counted
  <2>13. QED
    BY <2>11, <2>12 DEF Counted, Bound
<1>3. QED
  BY <1>1, <1>2, RecordsStep

(* The statistics of a field count, bucket by bucket, as many executions   *)
(* as the requests recorded: none is lost and none is counted twice.       *)
THEOREM EveryExecutionCounted == ServiceSpec => []ExecutionsCounted
<1>1. ServiceInit => Counted
  <2> SUFFICES ASSUME ServiceInit PROVE Counted
    OBVIOUS
  <2>1. DOMAIN store.fields = {}
    BY DEF ServiceInit, NewStore
  <2>2. ASSUME NEW f \in Fields PROVE Credited(f) = {} /\ Noted(f) = {}
    BY <2>1 DEF Credited, Noted, HasRecorded, ReqAt, ServiceInit, NoRequest
  <2>3. QED
    BY <2>1, <2>2, FS_EmptySet DEF Counted
<1>2. Counted => ExecutionsCounted
  <2> SUFFICES ASSUME Counted, NEW f \in Fields
               PROVE  CallsRecorded(f) = Cardinality(Noted(f))
    BY DEF ExecutionsCounted, Noted
  <2> DEFINE keys == {k \in DOMAIN store.fields : k.field = f}
             byCalls == {<<k, i>> : k \in keys, i \in 1..Cardinality(Requests \X Nodes)}
  <2>1. CallsRecorded(f) = Cardinality({x \in byCalls : x[2] <= store.fields[x[1]].calls})
    BY DEF CallsRecorded
  <2>2. byCalls = keys \X (1..Bound)
    BY DEF Bound
  <2>3. Credited(f) = {x \in keys \X (1..Bound) : x[2] <= store.fields[x[1]].calls}
    BY DEF Credited
  <2> HIDE DEF keys, byCalls
  <2>4. QED
    BY <2>1, <2>2, <2>3 DEF Counted
<1>3. QED
  BY <1>1, <1>2, TypedServiceInit, TypedServiceStep, CountedStep, PTL DEF ServiceSpec
=============================================================================
