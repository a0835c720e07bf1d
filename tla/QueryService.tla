---------------------------- MODULE QueryService ----------------------------
(***************************************************************************)
(* The life of a query in the HTTP handler (src/planner/http_handler.go):  *)
(* it is prepared, annotated from the statistics (estimate.Annotate),      *)
(* planned, executed, and what the execution counted is recorded for the   *)
(* plans of later queries (runtime_observe.go).  Requests run              *)
(* concurrently and share the statistics; an execution is what Executor    *)
(* describes, here only its outcome.                                       *)
(***************************************************************************)
EXTENDS StatsStore

CONSTANTS
  Requests,    \* HTTP requests
  Preorder,    \* the nodes of the query's logical plan, in preorder
  ParentOf,    \* ParentOf[n]: the node above, "root" at the top
  FieldOf,     \* FieldOf[n]: the part of a node's statistics key in Fields
  IsList,      \* nodes of list type
  Baseline,    \* Baseline[n]: rows expected without statistics (hint or bound)
  UpperBound,  \* UpperBound[n]: rows the arguments or hints allow
  RowCounts,   \* the row counts estimates are taken from
  MinCalls,    \* calls a series needs before its lengths count (5)
  Executions   \* the counters a successful execution may leave, by node

Nodes == {Preorder[i] : i \in DOMAIN Preorder}

ASSUME RequestsAssumption == IsFiniteSet(Requests)
ASSUME PreorderAssumption ==
  /\ Preorder \in Seq(Nodes) /\ Len(Preorder) > 0   \* a query selects something
  /\ FieldOf \in [Nodes -> Fields]
  /\ \A i, j \in DOMAIN Preorder : Preorder[i] = Preorder[j] => i = j
  /\ \A i \in DOMAIN Preorder :
       \/ ParentOf[Preorder[i]] = "root"
       \/ \E j \in 1..(i - 1) : Preorder[j] = ParentOf[Preorder[i]]
ASSUME EstimateAssumption ==
  /\ MinCalls \in Nat \ {0} /\ RowCounts \subseteq Nat
  /\ \A n \in IsList : UpperBound[n] \in Nat /\ Baseline[n] \in 1..UpperBound[n]
ASSUME ExecutionsAssumption ==
  /\ Executions \subseteq [Nodes -> [calls : Nat, physical : Nat, rows : Nat]]
  /\ \A c \in Executions : \A n \in Nodes : c[n].physical <= c[n].calls

VARIABLES
  store,  \* Planner.stats
  req     \* req[r]: the locals of a request's handler

serviceVars == <<store, req>>

NoKey == [field |-> "none", bucket |-> "none"]

Unannotated == [rows |-> 1, total |-> 1, card |-> NotFound, cost |-> NotFound, key |-> NoKey]

NoRequest ==
  [pc |-> "idle", next |-> 1, memo |-> <<>>, ann |-> [n \in Nodes |-> Unannotated],
   counts |-> [n \in Nodes |-> [calls |-> 0, physical |-> 0, rows |-> 0]],
   status |-> 0, data |-> FALSE]

ServiceInit == store = NewStore /\ req = [r \in Requests |-> NoRequest]

ReqAt(r, at) == req[r].pc = at

NextNode(r) == Preorder[req[r].next]

Answer(r, status, data) ==
  req' = [req EXCEPT ![r].pc = "answered", ![r].status = status, ![r].data = data]

-----------------------------------------------------------------------------
(* Another method than POST, a body that is no JSON, a query that does not *)
(* parse or validate.                                                      *)
Refuse(r) ==
  /\ ReqAt(r, "idle")
  /\ \E status \in {405, 400} : Answer(r, status, FALSE)
  /\ UNCHANGED store

Prepare(r) ==
  /\ ReqAt(r, "idle")
  /\ req' = [req EXCEPT ![r].pc = "cardinality"]
  /\ UNCHANGED store

(* The parent rows a node's estimate starts from.                          *)
ParentRows(r, n) == IF ParentOf[n] = "root" THEN 1 ELSE req[r].ann[ParentOf[n]].total

(* Mutant: every lookup asks the store.                                    *)
SnapshotForNodeUncached(r, k) == Snapshots(store, k)

(* snapshotForNode: the annotation asks the store once per key.            *)
SnapshotForNode(r, k) ==
  IF k \in DOMAIN req[r].memo THEN {req[r].memo[k]} ELSE Snapshots(store, k)

Memoize(memo, k, snap) ==
  [x \in DOMAIN memo \cup {k} |-> IF x = k THEN snap ELSE memo[x]]

(* Mutant: a length of zero that was observed is expected.                 *)
ExpectedRowsEvenNone(n, snap) ==
  {Baseline[n]} \cup (IF snap.calls >= MinCalls THEN snap.lens ELSE {})

(* The rows a list is expected to have: the baseline, blended with lengths *)
(* observed often enough, never above the bound and never none.            *)
ExpectedRows(n, snap) ==
  {Baseline[n]} \cup
    (IF snap.calls >= MinCalls
     THEN LET ends == {Baseline[n]} \cup (snap.lens \ {0})
          IN {x \in RowCounts : /\ x \in 1..UpperBound[n]
                                /\ \E lo, hi \in ends : lo <= x /\ x <= hi}
     ELSE {})

(* estimateCardinalityLocal: only a list looks at the statistics.          *)
AnnotateCardinality(r) ==
  LET n == NextNode(r)
      k == FieldKey(FieldOf[n], ParentRows(r, n))
  IN /\ ReqAt(r, "cardinality")
     /\ \/ /\ n \in IsList
           /\ \E snap \in SnapshotForNode(r, k) : \E rows \in ExpectedRows(n, snap) :
                req' = [req EXCEPT ![r].pc = "cost",
                          ![r].memo = Memoize(@, k, snap),
                          ![r].ann[n] = [rows |-> rows, total |-> ParentRows(r, n) * rows,
                                         card |-> snap, cost |-> NotFound, key |-> k]]
        \/ /\ n \notin IsList
           /\ req' = [req EXCEPT ![r].pc = "cost",
                        ![r].ann[n] = [Unannotated EXCEPT !.total = ParentRows(r, n), !.key = k]]
     /\ UNCHANGED store

(* estimateLocalCost, and on to the next node.                             *)
AnnotateCost(r) ==
  LET n == NextNode(r)
      k == req[r].ann[n].key
  IN /\ ReqAt(r, "cost")
     /\ \E snap \in SnapshotForNode(r, k) :
          req' = [req EXCEPT ![r].memo = Memoize(@, k, snap), ![r].ann[n].cost = snap,
                    ![r].next = @ + 1,
                    ![r].pc = IF req[r].next = Len(Preorder) THEN "execute" ELSE "cardinality"]
     /\ UNCHANGED store

ExecutionSucceeds(r) ==
  /\ ReqAt(r, "execute")
  /\ \E c \in Executions :
       req' = [req EXCEPT ![r].pc = "record", ![r].next = 1, ![r].counts = c]
  /\ UNCHANGED store

(* The errors are answered with status 200; nothing is recorded.           *)
ExecutionFails(r) ==
  /\ ReqAt(r, "execute")
  /\ req' = [req EXCEPT ![r].pc = "answered", ![r].status = 200]
  /\ UNCHANGED store

-----------------------------------------------------------------------------
(* The parent rows a node is recorded under: as executed, or as estimated  *)
(* where the parent gave none.                                             *)
ParentRowsForKey(r, n) ==
  LET p == ParentOf[n]
  IN IF p = "root" THEN 1
     ELSE IF req[r].counts[p].rows > 0 THEN req[r].counts[p].rows ELSE req[r].ann[p].total

(* math.Round of rows per call, for a list.                                *)
ObservedLen(n, c) ==
  IF n \in IsList THEN {(2 * c.rows + c.calls) \div (2 * c.calls)} ELSE {}

(* Mutant: what the cache answered alone is recorded as well.              *)
RecordNodeCached(r) ==
  LET n == NextNode(r)
      c == req[r].counts[n]
  IN /\ ReqAt(r, "record")
     /\ store' = IF c.calls > 0
                 THEN Record(store, FieldKey(FieldOf[n], ParentRowsForKey(r, n)), ObservedLen(n, c))
                 ELSE store
     /\ req' = [req EXCEPT ![r].next = @ + 1,
                  ![r].pc = IF req[r].next = Len(Preorder) THEN "respond" ELSE @]

(* recordRuntimeStatsNode, one node of the walk: a field is recorded if a  *)
(* resolver was called for it.                                             *)
RecordNode(r) ==
  LET n == NextNode(r)
      c == req[r].counts[n]
  IN /\ ReqAt(r, "record")
     /\ store' = IF c.physical > 0
                 THEN Record(store, FieldKey(FieldOf[n], ParentRowsForKey(r, n)), ObservedLen(n, c))
                 ELSE store
     /\ req' = [req EXCEPT ![r].next = @ + 1,
                  ![r].pc = IF req[r].next = Len(Preorder) THEN "respond" ELSE @]

(* The values are turned into JSON, which may fail for one of them.        *)
Respond(r) ==
  /\ ReqAt(r, "respond")
  /\ Answer(r, 200, TRUE) \/ Answer(r, 500, FALSE)
  /\ UNCHANGED store

Handle(r) ==
  \/ AnnotateCardinality(r) \/ AnnotateCost(r)
  \/ ExecutionSucceeds(r) \/ ExecutionFails(r)
  \/ RecordNode(r) \/ Respond(r)

AllAnswered == (\A r \in Requests : ReqAt(r, "answered")) /\ UNCHANGED serviceVars

ServiceNext ==
  \/ \E r \in Requests : Refuse(r) \/ Prepare(r) \/ Handle(r)
  \/ AllAnswered

ServiceSpec == ServiceInit /\ [][ServiceNext]_serviceVars

-----------------------------------------------------------------------------
PCs == {"idle", "cardinality", "cost", "execute", "record", "respond", "answered"}

ServiceTypeOK ==
  /\ DOMAIN store.fields \subseteq FieldKeys
  /\ \A k \in DOMAIN store.fields :
       store.fields[k].calls \in Nat \ {0} /\ store.fields[k].lens \subseteq Nat
  /\ \A r \in Requests :
       /\ req[r].pc \in PCs
       /\ req[r].next \in 1..(Len(Preorder) + 1)
       /\ \A n \in Nodes : req[r].ann[n].rows \in Nat \ {0} /\ req[r].ann[n].total \in Nat \ {0}
       /\ req[r].status \in {0, 200, 400, 405, 500}

(* Store.Record keeps its two maps together: the index of a field lists    *)
(* each of its series once and nothing else, whichever request was the     *)
(* first to record a key.                                                  *)
IndexMatchesStore ==
  \A f \in Fields :
    /\ Indexed(store, f) = {k \in DOMAIN store.fields : k.field = f}
    /\ Len(store.parentlessIndex[f]) = Cardinality(Indexed(store, f))

(* A node was annotated, in its cardinality or in both.                    *)
Annotated(r, n) == req[r].ann[n].key # NoKey

SnapshotsUsed(r, n) ==
  (IF n \in IsList THEN {req[r].ann[n].card} ELSE {})
    \cup (IF ReqAt(r, "cost") /\ NextNode(r) = n THEN {} ELSE {req[r].ann[n].cost})

(* annotationContext: one plan is computed from one snapshot per key,      *)
(* though other requests record between the lookups of its nodes.          *)
OneSnapshotPerKey ==
  \A r \in Requests : \A n, m \in Nodes :
    /\ Annotated(r, n) /\ Annotated(r, m)
    /\ req[r].ann[n].key = req[r].ann[m].key
    => Cardinality(SnapshotsUsed(r, n) \cup SnapshotsUsed(r, m)) <= 1

(* A request has recorded a node by now.                                   *)
HasRecorded(r, n) ==
  /\ \E i \in DOMAIN Preorder :
       /\ Preorder[i] = n
       /\ ReqAt(r, "record") => i < req[r].next
  /\ req[r].pc \in {"record", "respond", "answered"}
  /\ req[r].counts[n].physical > 0

(* The loop of learning is closed: what an execution recorded is found by  *)
(* every later plan that has the field, however wrong its estimate of the  *)
(* parent rows (the bucket) is.                                            *)
RecordedIsFound ==
  \A r \in Requests : \A n \in Nodes :
    HasRecorded(r, n) =>
      \A b \in Buckets : NotFound \notin Snapshots(store, [field |-> FieldOf[n], bucket |-> b])

CallsRecorded(f) ==
  LET keys == {k \in DOMAIN store.fields : k.field = f}
      byCalls == {<<k, i>> : k \in keys, i \in 1..Cardinality(Requests \X Nodes)}
  IN Cardinality({x \in byCalls : x[2] <= store.fields[x[1]].calls})

(* The statistics count executions that called a resolver: each successful *)
(* request once per node, whatever it answered afterwards, and no failed   *)
(* one; no observation of concurrent requests is lost.                     *)
ExecutionsCounted ==
  \A f \in Fields :
    CallsRecorded(f) =
      Cardinality({x \in Requests \X Nodes : FieldOf[x[2]] = f /\ HasRecorded(x[1], x[2])})
=============================================================================
