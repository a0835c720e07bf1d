---------------------------- MODULE BatchResolve ----------------------------
(***************************************************************************)
(* Executor.resolveBatchedChild, src/planner/execute/executor.go: the      *)
(* values of one list field on all the items of a list.  The batch asks    *)
(* the cache for every item, resolves the items it owns in chunks that run *)
(* concurrently under a semaphore and the shared gate, and only then waits *)
(* for the items that other calls or batches (or itself) are resolving.    *)
(***************************************************************************)
EXTENDS NodeResolve, Integers

CONSTANTS
  Batches,      \* the calls of resolveBatchedChild in one request
  ChildOf,      \* ChildOf[b]: the node a batch resolves
  ItemLists,    \* the item slices a batch may be given
  GroupOf,      \* GroupOf[b]: the context of the batch's errgroup
  RequestCtxs,  \* the contexts that someone outside may cancel
  Miscounting   \* nodes whose batch resolver may return a wrong count

ASSUME BatchesAssumption ==
  /\ IsFiniteSet(Batches) /\ ChildOf \in [Batches -> Nodes]
  /\ GroupOf \in [Batches -> Ctxs] /\ RequestCtxs \subseteq Ctxs
  /\ ItemLists \subseteq Seq(Parents)
ASSUME BatchSizesAssumption ==
  \A b \in Batches : /\ Strategy[ChildOf[b]].batchSize \in Int
                     /\ Strategy[ChildOf[b]].maxConcurrentBatches \in Int

VARIABLES
  batch,   \* batch[b]: the locals of resolveBatchedChild
  chunk    \* chunk[b][j]: the goroutine resolving the j-th chunk

batchVars == <<batch, chunk>>

allBatchVars == <<nodeVars, batchVars>>

NoBatch ==
  [pc |-> "idle", items |-> <<>>, ctx |-> {}, next |-> 1, owners |-> <<>>,
   pending |-> <<>>, out |-> <<>>, group |-> "none", err |-> "none"]

BatchInit ==
  /\ NodeInit
  /\ batch = [b \in Batches |-> NoBatch]
  /\ chunk = [b \in Batches |-> <<>>]

Smaller(a, b) == IF a <= b THEN a ELSE b

BatchAt(b, at) == batch[b].pc = at

BatchCached(b) == ShouldUseNodeCache(ChildOf[b])

ItemKey(b, i) == CacheKeyForNode(ChildOf[b], batch[b].items[i])

(* batchSize and maxConcurrent after their clamps, the last one to the     *)
(* number of owners.                                                       *)
BatchSize(b) ==
  Smaller(Larger(1, Strategy[ChildOf[b]].batchSize), Len(batch[b].owners))

MaxConcurrent(b) == Larger(1, Strategy[ChildOf[b]].maxConcurrentBatches)

ChunkCount(b) ==
  IF batch[b].owners = <<>> THEN 0
  ELSE (Len(batch[b].owners) + BatchSize(b) - 1) \div BatchSize(b)

(* The items, by index, of the j-th chunk.                                 *)
ChunkItems(b, j) ==
  SubSeq(batch[b].owners, (j - 1) * BatchSize(b) + 1,
         Smaller(j * BatchSize(b), Len(batch[b].owners)))

(* The chunk goroutines that hold a slot of the semaphore.                 *)
Running(b) == {j \in DOMAIN chunk[b] : chunk[b][j].pc \in {"gate", "resolving", "publish"}}

RowsOf(r, b, v) == AddRowsOut(r, ChildOf[b], CountRowsOut(ChildOf[b], v))

-----------------------------------------------------------------------------
InvokeBatch(b, items, x) ==
  /\ BatchAt(b, "idle")
  /\ batch' = [batch EXCEPT ![b] = [@ EXCEPT
                 !.pc = IF items = <<>> THEN "returned" ELSE "classify",
                 !.items = items,
                 !.ctx = x,
                 !.out = [i \in DOMAIN items |-> Nil]]]
  /\ rt' = AddLogicalCalls(rt, ChildOf[b], Len(items))
  /\ UNCHANGED <<entries, gate, pc, parent, ctx, result, cancelled, chunk>>

(* One turn of the loop over the items, with what it changes in the locals. *)
Classify(b, changed) ==
  /\ BatchAt(b, "classify")
  /\ batch' = [batch EXCEPT ![b] = [changed EXCEPT
                 !.next = @ + 1,
                 !.pc = IF changed.next = Len(changed.items) THEN "launch" ELSE @]]
  /\ UNCHANGED <<gate, pc, parent, ctx, result, cancelled, chunk>>

Own(b) == [batch[b] EXCEPT !.owners = Append(@, batch[b].next)]

ClassifyUncached(b) ==
  /\ ~BatchCached(b)
  /\ Classify(b, Own(b))
  /\ UNCHANGED <<entries, rt>>

(* A ready entry gives its value; its error is not looked at.              *)
ClassifyHit(b) ==
  LET i == batch[b].next
      k == ItemKey(b, i)
  IN /\ BatchCached(b)
     /\ Classify(b, [batch[b] EXCEPT !.out[i] = entries[k].out.val])
     /\ HitReady(entries, k)
     /\ rt' = RowsOf(CacheHit(rt, ChildOf[b]), b, entries[k].out.val)
     /\ UNCHANGED entries

ClassifyPending(b) ==
  /\ BatchCached(b)
  /\ Classify(b, [batch[b] EXCEPT !.pending = Append(@, batch[b].next)])
  /\ HitPending(entries, ItemKey(b, batch[b].next))
  /\ rt' = CacheWait(rt, ChildOf[b])
  /\ UNCHANGED entries

ClassifyMiss(b) ==
  /\ BatchCached(b)
  /\ Classify(b, Own(b))
  /\ MissOwner(entries, ItemKey(b, batch[b].next))
  /\ entries' = Reserve(entries, ItemKey(b, batch[b].next))
  /\ rt' = CacheMiss(rt, ChildOf[b])

-----------------------------------------------------------------------------
(* Mutant: the pending items are awaited before the owners are resolved.   *)
LaunchChunkAfterWaits(b) ==
  /\ BatchAt(b, "launch")
  /\ \A m \in DOMAIN batch[b].pending :
       entries[ItemKey(b, batch[b].pending[m])].state = "ready"
  /\ Len(chunk[b]) < ChunkCount(b)
  /\ chunk' = [chunk EXCEPT ![b] =
                 Append(@, [pc |-> "gate", vals |-> <<>>, err |-> "none", next |-> 1])]
  /\ UNCHANGED <<nodeVars, batch>>

LaunchChunk(b) ==
  /\ BatchAt(b, "launch")
  /\ Len(chunk[b]) < ChunkCount(b)
  /\ Cardinality(Running(b)) < MaxConcurrent(b)
  /\ chunk' = [chunk EXCEPT ![b] =
                 Append(@, [pc |-> "gate", vals |-> <<>>, err |-> "none", next |-> 1])]
  /\ UNCHANGED <<nodeVars, batch>>

ChunkAt(b, j, at) == j \in DOMAIN chunk[b] /\ chunk[b][j].pc = at

(* Mutant: chunks do not share the gate's bound.                           *)
ChunkAcquiresGateUnbounded(b, j) ==
  /\ ChunkAt(b, j, "gate")
  /\ gate' = gate + 1
  /\ rt' = BeginBatchPhysical(rt, ChildOf[b])
  /\ chunk' = [chunk EXCEPT ![b][j].pc = "resolving"]
  /\ UNCHANGED <<entries, pc, parent, ctx, result, cancelled, batch>>

ChunkAcquiresGate(b, j) ==
  /\ ChunkAt(b, j, "gate")
  /\ gate < GateCapacity
  /\ gate' = gate + 1
  /\ rt' = BeginBatchPhysical(rt, ChildOf[b])
  /\ chunk' = [chunk EXCEPT ![b][j].pc = "resolving"]
  /\ UNCHANGED <<entries, pc, parent, ctx, result, cancelled, batch>>

(* Mutant: the parents are cut from the items, not from the owners.        *)
ChunkParentsOfItems(b, j) ==
  [m \in DOMAIN ChunkItems(b, j) |-> batch[b].items[(j - 1) * BatchSize(b) + m]]

(* The parents of a chunk, and what its resolver may answer for them.      *)
ChunkParents(b, j) ==
  [m \in DOMAIN ChunkItems(b, j) |-> batch[b].items[ChunkItems(b, j)[m]]]

ChunkAnswers(b, j) ==
  {vs \in [DOMAIN ChunkItems(b, j) -> Values] :
     \A m \in DOMAIN vs : vs[m] \in Answers[ChildOf[b]][ChunkParents(b, j)[m]]}

ChunkErrors(b) ==
  ResolverErrors(ChildOf[b], batch[b].ctx \cup {GroupOf[b]})
    \cup (IF ChildOf[b] \in Miscounting THEN {"size mismatch"} ELSE {})

ChunkReturns(b, j) ==
  /\ ChunkAt(b, j, "resolving")
  /\ gate' = gate - 1
  /\ rt' = EndPhysical(rt, ChildOf[b])
  /\ \/ \E vs \in ChunkAnswers(b, j) :
          chunk' = [chunk EXCEPT ![b][j].pc = "publish", ![b][j].vals = vs]
     \/ \E e \in ChunkErrors(b) :
          chunk' = [chunk EXCEPT ![b][j].pc = "publish", ![b][j].err = e]
  /\ UNCHANGED <<entries, pc, parent, ctx, result, cancelled, batch>>

(* Mutant: a failed chunk leaves its reservations pending.                 *)
ChunkPublishesOnlyValues(b, j) ==
  /\ ChunkAt(b, j, "publish")
  /\ LET me == chunk[b][j]
         i  == ChunkItems(b, j)[me.next]
     IN IF me.err = "none"
        THEN /\ entries' = Complete(entries, ItemKey(b, i), Outcome(me.vals[me.next], "none"))
             /\ rt' = RowsOf(rt, b, me.vals[me.next])
             /\ batch' = [batch EXCEPT ![b].out[i] = me.vals[me.next]]
             /\ chunk' = [chunk EXCEPT ![b][j].next = @ + 1,
                    ![b][j].pc = IF me.next < Len(ChunkItems(b, j)) THEN @ ELSE "done"]
        ELSE /\ chunk' = [chunk EXCEPT ![b][j].pc = "failing"]
             /\ UNCHANGED <<entries, rt, batch>>
  /\ UNCHANGED <<gate, pc, parent, ctx, result, cancelled>>

(* One turn of the loop that publishes the chunk's outcome, owner by owner. *)
(* The deferred release of the semaphore follows the last turn.            *)
ChunkPublishes(b, j) ==
  /\ ChunkAt(b, j, "publish")
  /\ LET me == chunk[b][j]
         i  == ChunkItems(b, j)[me.next]
         ok == me.err = "none"
         o  == IF ok THEN Outcome(me.vals[me.next], "none") ELSE Outcome(Nil, me.err)
     IN /\ entries' = IF BatchCached(b) THEN Complete(entries, ItemKey(b, i), o)
                      ELSE entries
        /\ rt' = IF ok THEN RowsOf(rt, b, o.val) ELSE rt
        /\ batch' = IF ok THEN [batch EXCEPT ![b].out[i] = o.val] ELSE batch
        /\ chunk' = [chunk EXCEPT ![b][j].next = @ + 1,
                       ![b][j].pc = IF me.next < Len(ChunkItems(b, j)) THEN @
                                    ELSE IF ok THEN "done" ELSE "failing"]
  /\ UNCHANGED <<gate, pc, parent, ctx, result, cancelled>>

(* Mutant: the error cancels the siblings and is then forgotten.           *)
ChunkFailsSilently(b, j) ==
  /\ ChunkAt(b, j, "failing")
  /\ chunk' = [chunk EXCEPT ![b][j].pc = "done"]
  /\ cancelled' = cancelled \cup {GroupOf[b]}
  /\ UNCHANGED <<entries, gate, rt, pc, parent, ctx, result, batch>>

(* errgroup: the first error is kept and cancels the group's context.      *)
ChunkFails(b, j) ==
  /\ ChunkAt(b, j, "failing")
  /\ chunk' = [chunk EXCEPT ![b][j].pc = "done"]
  /\ batch' = [batch EXCEPT ![b].group = IF @ = "none" THEN chunk[b][j].err ELSE @]
  /\ cancelled' = cancelled \cup {GroupOf[b]}
  /\ UNCHANGED <<entries, gate, rt, pc, parent, ctx, result>>

(* g.Wait                                                                  *)
JoinChunks(b) ==
  /\ BatchAt(b, "launch")
  /\ Len(chunk[b]) = ChunkCount(b)
  /\ \A j \in DOMAIN chunk[b] : chunk[b][j].pc = "done"
  /\ batch' = [batch EXCEPT ![b] = [@ EXCEPT
                 !.pc = IF batch[b].group = "none" THEN "await" ELSE "returned",
                 !.next = 1,
                 !.err = batch[b].group]]
  /\ UNCHANGED <<nodeVars, chunk>>

-----------------------------------------------------------------------------
Awaits(b) == BatchAt(b, "await") /\ batch[b].next <= Len(batch[b].pending)

AwaitReady(b) ==
  /\ Awaits(b)
  /\ LET i == batch[b].pending[batch[b].next]
         o == entries[ItemKey(b, i)].out
     IN /\ entries[ItemKey(b, i)].state = "ready"
        /\ IF o.err = "none"
           THEN /\ batch' = [batch EXCEPT ![b].out[i] = o.val, ![b].next = @ + 1]
                /\ rt' = RowsOf(rt, b, o.val)
           ELSE /\ batch' = [batch EXCEPT ![b].err = o.err, ![b].pc = "returned"]
                /\ UNCHANGED rt
  /\ UNCHANGED <<entries, gate, pc, parent, ctx, result, cancelled, chunk>>

AwaitCancelled(b) ==
  /\ Awaits(b)
  /\ Done(batch[b].ctx)
  /\ batch' = [batch EXCEPT ![b].err = "canceled", ![b].pc = "returned"]
  /\ UNCHANGED <<nodeVars, chunk>>

ReturnBatch(b) ==
  /\ BatchAt(b, "await")
  /\ batch[b].next > Len(batch[b].pending)
  /\ batch' = [batch EXCEPT ![b].pc = "returned"]
  /\ UNCHANGED <<nodeVars, chunk>>

ClassifyItem(b) ==
  ClassifyUncached(b) \/ ClassifyHit(b) \/ ClassifyPending(b) \/ ClassifyMiss(b)

ChunkStep(b, j) ==
  ChunkAcquiresGate(b, j) \/ ChunkReturns(b, j) \/ ChunkPublishes(b, j) \/ ChunkFails(b, j)

BatchStep(b) ==
  \/ ClassifyItem(b)
  \/ LaunchChunk(b)
  \/ \E j \in DOMAIN chunk[b] : ChunkStep(b, j)
  \/ JoinChunks(b)
  \/ AwaitReady(b)
  \/ AwaitCancelled(b)
  \/ ReturnBatch(b)

AllDone ==
  /\ \A c \in Calls : At(c, "returned")
  /\ \A b \in Batches : BatchAt(b, "returned")
  /\ UNCHANGED allBatchVars

BatchNext ==
  \/ /\ \/ \E c \in Calls, p \in Parents, x \in SUBSET RequestCtxs : Invoke(c, p, x)
        \/ \E c \in Calls : CallStep(c)
        \/ \E x \in RequestCtxs : Cancel(x)
     /\ UNCHANGED batchVars
  \/ \E b \in Batches :
       \/ \E items \in ItemLists, x \in SUBSET RequestCtxs : InvokeBatch(b, items, x)
       \/ BatchStep(b)
  \/ AllDone

BatchSpec ==
  /\ BatchInit /\ [][BatchNext]_allBatchVars
  /\ \A c \in Calls : WF_allBatchVars(CallStep(c) /\ UNCHANGED batchVars)
  /\ \A b \in Batches : WF_allBatchVars(BatchStep(b))

-----------------------------------------------------------------------------
BatchPCs == {"idle", "classify", "launch", "await", "returned"}

ChunkPCs == {"gate", "resolving", "publish", "failing", "done"}

IsSeqOver(s, S) == DOMAIN s = 1..Len(s) /\ \A i \in DOMAIN s : s[i] \in S

BatchTypeOK ==
  /\ NodeTypeOK
  /\ \A b \in Batches : LET bt == batch[b] IN
       /\ bt.pc \in BatchPCs
       /\ IsSeqOver(bt.items, Parents)
       /\ bt.ctx \subseteq Ctxs
       /\ bt.next \in 1..(Len(bt.items) + 1)
       /\ IsSeqOver(bt.owners, DOMAIN bt.items)
       /\ IsSeqOver(bt.pending, DOMAIN bt.items)
       /\ bt.out \in [DOMAIN bt.items -> Values]
       /\ bt.group \in Errors /\ bt.err \in Errors
       /\ \A j \in DOMAIN chunk[b] :
            chunk[b][j].pc \in ChunkPCs /\ chunk[b][j].err \in Errors

(* Item i of batch b was answered by the goroutine of its chunk.           *)
Published(b, i) ==
  \E j \in DOMAIN chunk[b] : \E m \in DOMAIN ChunkItems(b, j) :
    ChunkItems(b, j)[m] = i /\ m < chunk[b][j].next

ItemsOwning(k) ==
  UNION {{<<b, i>> : i \in {i \in DOMAIN batch[b].items :
                             /\ batch[b].pc \in {"classify", "launch"}
                             /\ BatchCached(b)
                             /\ \E m \in DOMAIN batch[b].owners : batch[b].owners[m] = i
                             /\ ItemKey(b, i) = k
                             /\ ~Published(b, i)}} : b \in Batches}

(* Single flight with batches: a pending entry has exactly one party that  *)
(* will publish it, a call or one item of one batch, and a batch that has  *)
(* come to waiting for others, or has returned with or without an error,   *)
(* owes no publication: nobody waits for an entry that nobody will fill.   *)
OneOwnerPerKey ==
  \A k \in Keys :
    Cardinality({c \in Calls : Owns(c, k)}) + Cardinality(ItemsOwning(k))
      = IF entries[k].state = "pending" THEN 1 ELSE 0

(* What the cache takes for granted: where two fields share a key, their   *)
(* resolvers would give the same answers.                                  *)
KeysTellAnswers ==
  \A n, m \in Nodes : \A p, r \in Parents :
    /\ ShouldUseNodeCache(n) /\ ShouldUseNodeCache(m)
    /\ CacheKeyForNode(n, p) = CacheKeyForNode(m, r)
    => Answers[n][p] = Answers[m][r]

(* A batch that succeeds has put on each item the answer for that item,    *)
(* whatever mix of hits, waits and chunks produced it; a hit on a failed   *)
(* entry gives what was published beside the error (which reaches the      *)
(* response through its owner).                                            *)
ValuesAligned ==
  \A b \in Batches :
    BatchAt(b, "returned") /\ batch[b].err = "none" =>
      \A i \in DOMAIN batch[b].items :
        \/ batch[b].out[i] \in Answers[ChildOf[b]][batch[b].items[i]]
        \/ /\ BatchCached(b)
           /\ entries[ItemKey(b, i)].out.err # "none"
           /\ batch[b].out[i] = entries[ItemKey(b, i)].out.val

(* A chunk that failed fails its batch, however the other chunks end.      *)
ChunkFailureReported ==
  \A b \in Batches :
    BatchAt(b, "returned") /\ (\E j \in DOMAIN chunk[b] : chunk[b][j].err # "none") =>
      batch[b].err # "none"

BatchesOf(n) == {b \in Batches : ChildOf[b] = n}

ChunksAt(at) ==
  UNION {{<<b, j>> : j \in {j \in DOMAIN chunk[b] : chunk[b][j].pc = at}} : b \in Batches}

(* Chunks and calls share the gate: its tokens are the resolvers running,  *)
(* and a node's counters tell how every item of its batches was answered.  *)
ItemAccounting ==
  /\ gate = Cardinality({c \in Calls : At(c, "resolving")}) + Cardinality(ChunksAt("resolving"))
  /\ \A n \in Nodes :
       /\ rt[n].batches = Cardinality({x \in UNION {ChunksAt(at) : at \in ChunkPCs \ {"gate"}} :
                                        ChildOf[x[1]] = n})
       /\ (ShouldUseNodeCache(n) /\ \A b \in BatchesOf(n) : ~BatchAt(b, "classify"))
            => rt[n].calls = rt[n].hits + rt[n].misses + rt[n].waits

(* Batches and calls that wait for each other's entries all return.        *)
BatchReturns == \A b \in Batches : BatchAt(b, "classify") ~> BatchAt(b, "returned")
=============================================================================
