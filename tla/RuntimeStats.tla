---------------------------- MODULE RuntimeStats ----------------------------
(***************************************************************************)
(* The per-node counters of one execution, src/planner/execute/runtime.go. *)
(* Every method holds the mutex, so each is one operator on the map from   *)
(* nodes to counters.  Observed nanoseconds and bytes are left out.        *)
(***************************************************************************)
LOCAL INSTANCE Naturals

Counter == [calls : Nat, physical : Nat, batches : Nat, rows : Nat, hits : Nat,
            misses : Nat, waits : Nat, current : Nat, maxParallel : Nat]

ZeroCounter == [calls |-> 0, physical |-> 0, batches |-> 0, rows |-> 0, hits |-> 0,
                misses |-> 0, waits |-> 0, current |-> 0, maxParallel |-> 0]

NewRuntime(nodes) == [n \in nodes |-> ZeroCounter]

AddLogicalCalls(r, n, k) == [r EXCEPT ![n].calls = @ + k]

AddRowsOut(r, n, k) == [r EXCEPT ![n].rows = @ + k]

CacheHit(r, n) == [r EXCEPT ![n].hits = @ + 1]
CacheMiss(r, n) == [r EXCEPT ![n].misses = @ + 1]

(* Mutant: a wait is not counted.                                          *)
CacheWaitUncounted(r, n) == r

CacheWait(r, n) == [r EXCEPT ![n].waits = @ + 1]

Larger(a, b) == IF a >= b THEN a ELSE b

BeginPhysical(r, n) ==
  [r EXCEPT ![n].physical = @ + 1,
            ![n].current = @ + 1,
            ![n].maxParallel = Larger(@, r[n].current + 1)]

(* Mutant: a batch counts as a plain resolver call.                        *)
BeginBatchPhysicalPlain(r, n) == BeginPhysical(r, n)

BeginBatchPhysical(r, n) ==
  [BeginPhysical(r, n) EXCEPT ![n].batches = @ + 1]

(* The function Begin... returns, called once the resolver is back.        *)
EndPhysical(r, n) ==
  [r EXCEPT ![n].current = IF @ > 0 THEN @ - 1 ELSE 0]
=============================================================================
