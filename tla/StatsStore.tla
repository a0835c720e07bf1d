----------------------------- MODULE StatsStore -----------------------------
(***************************************************************************)
(* The statistics the planner learns from, src/planner/stats/store.go: a   *)
(* series of observations per field and parent-cardinality bucket, and an  *)
(* index of the series of a field over all its buckets.  A lock makes      *)
(* Record and SnapshotWithParentFallback atomic.  Of a series the model    *)
(* keeps what estimates rest on: how often and with which lengths.         *)
(***************************************************************************)
EXTENDS Naturals, Sequences, FiniteSets

CONSTANT Fields   \* FieldKey.ParentlessString: resolver, depth, args, children

Buckets == {"1", "2-5", "6-10", "11-25", "26-100", "101-500", "500+"}

(* Estimate and record each have a copy of this function.                  *)
CardinalityBucket(rows) ==
  CASE rows <= 1 -> "1"
    [] rows \in 2..5 -> "2-5"
    [] rows \in 6..10 -> "6-10"
    [] rows \in 11..25 -> "11-25"
    [] rows \in 26..100 -> "26-100"
    [] rows \in 101..500 -> "101-500"
    [] rows > 500 -> "500+"

FieldKeys == [field : Fields, bucket : Buckets]

FieldKey(f, parentRows) == [field |-> f, bucket |-> CardinalityBucket(parentRows)]

Series == [calls : Nat, lens : SUBSET Nat]

NewStore == [fields |-> <<>>, parentlessIndex |-> [f \in Fields |-> <<>>]]

(* The snapshot of a key nobody has recorded, and of one somebody has.     *)
NotFound == [calls |-> 0, lens |-> {}]

Stored(s, k) == k \in DOMAIN s.fields

SeriesOf(s, k) == IF Stored(s, k) THEN s.fields[k] ELSE NotFound

Observed(series, lens) == [calls |-> series.calls + 1, lens |-> series.lens \cup lens]

(* Mutants: the index is appended to on every observation; the index is    *)
(* kept under the full key, where a lookup by field finds nothing.         *)
RecordIndexesAlways(s, k, lens) ==
  [fields |-> [x \in DOMAIN s.fields \cup {k} |->
                 IF x = k THEN Observed(SeriesOf(s, k), lens) ELSE s.fields[x]],
   parentlessIndex |-> [s.parentlessIndex EXCEPT ![k.field] = Append(@, k)]]

RecordUnindexed(s, k, lens) ==
  [s EXCEPT !.fields = [x \in DOMAIN s.fields \cup {k} |->
                 IF x = k THEN Observed(SeriesOf(s, k), lens) ELSE s.fields[x]]]

(* Record: lens is the observed length, or empty if there is none.         *)
Record(s, k, lens) ==
  [fields |-> [x \in DOMAIN s.fields \cup {k} |->
                 IF x = k THEN Observed(SeriesOf(s, k), lens) ELSE s.fields[x]],
   parentlessIndex |->
     IF Stored(s, k) THEN s.parentlessIndex
     ELSE [s.parentlessIndex EXCEPT ![k.field] = Append(@, k)]]

Indexed(s, f) == {s.parentlessIndex[f][i] : i \in DOMAIN s.parentlessIndex[f]}

(* SnapshotWithParentFallback: the bucket asked for, or one of the field's *)
(* other buckets with the most calls.  What breaks a tie, a confidence     *)
(* that fades with time, is left open.                                     *)
Snapshots(s, k) ==
  IF Stored(s, k) THEN {s.fields[k]}
  ELSE IF Indexed(s, k.field) = {} THEN {NotFound}
  ELSE {s.fields[b] : b \in {b \in Indexed(s, k.field) :
          \A other \in Indexed(s, k.field) : s.fields[other].calls <= s.fields[b].calls}}
=============================================================================
