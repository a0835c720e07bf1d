-------------------------- MODULE BatchResolveProofs --------------------------
(***************************************************************************)
(* Proofs about BatchResolve.tla, for every number of batches and calls,   *)
(* every list of items, every size of chunk and every width of the gate.   *)
(* What a single call does is taken from the lemmas of NodeResolveProofs.  *)
(***************************************************************************)
EXTENDS BatchResolve, NodeResolveProofs, SequenceTheorems

(***************************************************************************)
(* How owners are cut into chunks: chunk j spans the owners at Start + 1   *)
(* to Start + Span.                                                        *)
(***************************************************************************)
ChunksOf(n, s) == (n + s - 1) \div s

LEMMA ChunksCover ==
  ASSUME NEW n \in Nat, NEW s \in Nat \ {0}
  PROVE  /\ ChunksOf(n, s) \in Nat
         /\ \A j \in 1..ChunksOf(n, s) : (j - 1) * s \in Nat /\ (j - 1) * s < n /\ j * s \in Nat
         /\ \A m \in 1..n : \E j \in 1..ChunksOf(n, s) : (j - 1) * s < m /\ m <= j * s
         /\ \A j, i \in 1..ChunksOf(n, s) : j < i => j * s <= (i - 1) * s
<1> DEFINE count == ChunksOf(n, s)
<1>1. count \in Nat /\ count * s <= n + s - 1 /\ n + s - 1 < (count + 1) * s
  BY DEF ChunksOf
<1>2. ASSUME NEW a \in Nat, NEW b \in Nat, a <= b PROVE a * s <= b * s /\ a * s \in Nat
  BY <1>2
<1> HIDE DEF count
<1>3. ASSUME NEW j \in 1..count PROVE (j - 1) * s \in Nat /\ (j - 1) * s < n /\ j * s \in Nat
  <2>1. j * s <= count * s /\ j * s \in Nat /\ count * s \in Nat
    BY <1>1, <1>2, <1>3
  <2>2. (j - 1) * s = j * s - s /\ (j - 1) * s \in Nat
    BY <1>3
  <2>3. QED
    BY <1>1, <2>1, <2>2
<1>4. ASSUME NEW m \in 1..n PROVE \E j \in 1..count : (j - 1) * s < m /\ m <= j * s
  <2> DEFINE d == (m - 1) \div s
  <2>1. d \in Nat /\ d * s <= m - 1 /\ m - 1 < (d + 1) * s
    OBVIOUS
  <2> HIDE DEF d
  <2>2. d + 1 <= count
    <3>1. SUFFICES ASSUME count <= d PROVE FALSE
      BY <1>1, <2>1
    <3>2. count * s <= d * s
      BY <1>1, <1>2, <2>1, <3>1
    <3>3. (count + 1) * s = count * s + s /\ count * s \in Nat /\ d * s \in Nat
      BY <1>1, <2>1
    <3>4. QED
      BY <1>1, <2>1, <3>2, <3>3
  <2>3. d + 1 \in 1..count /\ ((d + 1) - 1) * s < m /\ m <= (d + 1) * s
    <3>1. (d + 1) - 1 = d /\ d * s \in Nat /\ (d + 1) * s \in Nat
      BY <2>1
    <3>2. QED
      BY <1>1, <2>1, <2>2, <3>1
  <2>4. QED
    BY <2>3
<1>5. ASSUME NEW j \in 1..count, NEW i \in 1..count, j < i PROVE j * s <= (i - 1) * s
  BY <1>1, <1>2, <1>5
<1>6. QED
  BY <1>1, <1>3, <1>4, <1>5 DEF count

Size(b, n) == Smaller(Larger(1, Strategy[ChildOf[b]].batchSize), n)

Count(b, n) == IF n = 0 THEN 0 ELSE ChunksOf(n, Size(b, n))

Start(b, n, j) == (j - 1) * Size(b, n)

Span(b, n, j) == Smaller(j * Size(b, n), n) - Start(b, n, j)

(* The n owners of a batch fall into chunks that are not empty, overlap    *)
(* nowhere and leave no owner out.                                         *)
LEMMA Geometry ==
  ASSUME NEW b \in Batches, NEW n \in Nat
  PROVE  /\ Count(b, n) \in Nat
         /\ \A j \in 1..Count(b, n) :
              /\ Start(b, n, j) \in Nat /\ Span(b, n, j) \in Nat \ {0}
              /\ Start(b, n, j) + Span(b, n, j) <= n
         /\ \A m \in 1..n : \E j \in 1..Count(b, n) : \E l \in 1..Span(b, n, j) :
              m = Start(b, n, j) + l
         /\ \A j, i \in 1..Count(b, n) :
              j < i => Start(b, n, j) + Span(b, n, j) <= Start(b, n, i)
<1>1. CASE n = 0
  BY <1>1 DEF Count
<1>2. CASE n # 0
  <2> DEFINE s == Size(b, n)
  <2>1. s \in Nat \ {0} /\ Count(b, n) = ChunksOf(n, s)
    BY <1>2, BatchSizesAssumption DEF Size, Smaller, Larger, Count
  <2> HIDE DEF s
  <2>2. Count(b, n) \in Nat
    BY <2>1, ChunksCover
  <2>3. ASSUME NEW j \in 1..Count(b, n)
        PROVE  /\ (j - 1) * s \in Nat /\ (j - 1) * s < n /\ j * s \in Nat
               /\ Start(b, n, j) = (j - 1) * s
               /\ Span(b, n, j) = Smaller(j * s, n) - (j - 1) * s
               /\ Span(b, n, j) \in Nat \ {0} /\ Start(b, n, j) + Span(b, n, j) <= n
    <3>1. (j - 1) * s \in Nat /\ (j - 1) * s < n /\ j * s \in Nat
      BY <2>1, <2>3, ChunksCover
    <3>2. (j - 1) * s < j * s
      BY <2>1, <2>2, <2>3
    <3>3. Start(b, n, j) = (j - 1) * s /\ Span(b, n, j) = Smaller(j * s, n) - (j - 1) * s
      BY DEF Start, Span, s
    <3>4. QED
      BY <3>1, <3>2, <3>3 DEF Smaller
  <2>4. ASSUME NEW m \in 1..n
        PROVE  \E j \in 1..Count(b, n) : \E l \in 1..Span(b, n, j) : m = Start(b, n, j) + l
    <3>1. PICK j \in 1..Count(b, n) : (j - 1) * s < m /\ m <= j * s
      BY <2>1, ChunksCover
    <3>2. m - (j - 1) * s \in 1..Span(b, n, j) /\ m = Start(b, n, j) + (m - (j - 1) * s)
      BY <2>3, <3>1 DEF Smaller
    <3>3. QED
      BY <3>2
  <2>5. ASSUME NEW j \in 1..Count(b, n), NEW i \in 1..Count(b, n), j < i
        PROVE  Start(b, n, j) + Span(b, n, j) <= Start(b, n, i)
    <3>1. j * s <= (i - 1) * s
      BY <2>1, <2>5, ChunksCover
    <3>2. QED
      BY <2>3, <3>1 DEF Smaller
  <2>6. QED
    BY <2>2, <2>3, <2>4, <2>5
<1>3. QED
  BY <1>1, <1>2

-----------------------------------------------------------------------------
(* The locals of a batch and of a chunk's goroutine.                       *)
BatchLocals ==
  [pc : BatchPCs, items : Seq(Parents), ctx : SUBSET Ctxs, next : Nat, owners : Seq(Nat),
   pending : Seq(Nat), out : Seq(Values), group : Errors, err : Errors]

ChunkLocals == [pc : ChunkPCs, vals : Seq(Values), err : Errors, next : Nat]

BatchesTyped ==
  batch \in [Batches -> BatchLocals] /\ chunk \in [Batches -> Seq(ChunkLocals)]

LEMMA ChunkItemsAre ==
  ASSUME BatchesTyped, NEW b \in Batches, NEW n, n = Len(batch[b].owners)
  PROVE  /\ ChunkCount(b) = Count(b, n)
         /\ \A j \in 1..Count(b, n) :
              /\ Len(ChunkItems(b, j)) = Span(b, n, j)
              /\ DOMAIN ChunkItems(b, j) = 1..Span(b, n, j)
              /\ \A m \in 1..Span(b, n, j) :
                   ChunkItems(b, j)[m] = batch[b].owners[Start(b, n, j) + m]
<1> DEFINE owners == batch[b].owners
<1>1. owners \in Seq(Nat) /\ n = Len(owners) /\ n \in Nat
  BY DEF BatchesTyped, BatchLocals
<1>2. BatchSize(b) = Size(b, n) /\ (owners = <<>> <=> n = 0)
  BY <1>1, EmptySeq DEF BatchSize, Size
<1>3. ChunkCount(b) = Count(b, n)
  BY <1>1, <1>2 DEF ChunkCount, Count, ChunksOf
<1>4. ASSUME NEW j \in 1..Count(b, n)
      PROVE  /\ Len(ChunkItems(b, j)) = Span(b, n, j)
             /\ DOMAIN ChunkItems(b, j) = 1..Span(b, n, j)
             /\ \A m \in 1..Span(b, n, j) : ChunkItems(b, j)[m] = owners[Start(b, n, j) + m]
  <2> DEFINE lo == Start(b, n, j)
             hi == Smaller(j * Size(b, n), n)
  <2>1. lo \in Nat /\ hi - lo \in Nat \ {0} /\ hi - lo = Span(b, n, j) /\ hi \in Int
    <3>1. lo \in Nat /\ Span(b, n, j) \in Nat \ {0} /\ hi - lo = Span(b, n, j)
      BY <1>1, Geometry DEF Span
    <3>2. hi \in Int
      <4>1. Size(b, n) \in Nat
        BY <1>1, BatchSizesAssumption DEF Size, Smaller, Larger
      <4>2. Count(b, n) \in Nat
        BY <1>1, Geometry
      <4>3. QED
        BY <1>1, <4>1, <4>2 DEF Smaller
    <3>3. QED
      BY <3>1, <3>2
  <2>2. lo + Span(b, n, j) <= n
    BY <1>1, Geometry
  <2>3. ChunkItems(b, j) = SubSeq(owners, lo + 1, hi)
    BY <1>1, <1>2 DEF ChunkItems, Start
  <2> HIDE DEF lo, hi, owners
  <2>4. \A i \in (lo + 1)..hi : owners[i] \in Nat
    BY <1>1, <2>1, <2>2
  <2>5. /\ SubSeq(owners, lo + 1, hi) \in Seq(Nat)
        /\ Len(SubSeq(owners, lo + 1, hi)) = hi - lo
        /\ \A i \in 1..(hi - lo) : SubSeq(owners, lo + 1, hi)[i] = owners[lo + i]
    BY <2>1, <2>4, SubSeqProperties
  <2>6. DOMAIN SubSeq(owners, lo + 1, hi) = 1..(hi - lo)
    BY <2>5, LenProperties
  <2>7. QED
    BY <2>1, <2>3, <2>5, <2>6 DEF lo
<1>5. QED
  BY <1>3, <1>4

(* The parts of the state a step of b changes, field by field.             *)
BatchBecomes(b, q) ==
  /\ batch' \in [Batches -> BatchLocals] /\ batch'[b] = q
  /\ \A d \in Batches : d # b => batch'[d] = batch[d]

ChunkBecomes(b, j, me) ==
  /\ chunk' \in [Batches -> Seq(ChunkLocals)]
  /\ \A d \in Batches : d # b => chunk'[d] = chunk[d]
  /\ Len(chunk'[b]) = Len(chunk[b])
  /\ \A i \in 1..Len(chunk[b]) : chunk'[b][i] = IF i = j THEN me ELSE chunk[b][i]

LEMMA PutBatch ==
  ASSUME BatchesTyped, NEW b \in Batches, NEW q \in BatchLocals, batch' = [batch EXCEPT ![b] = q]
  PROVE  BatchBecomes(b, q)
  BY DEF BatchesTyped, BatchBecomes

LEMMA PutChunk ==
  ASSUME BatchesTyped, NEW b \in Batches, NEW j \in 1..Len(chunk[b]), NEW me \in ChunkLocals,
         chunk' = [chunk EXCEPT ![b] = [chunk[b] EXCEPT ![j] = me]]
  PROVE  ChunkBecomes(b, j, me)
<1> DEFINE cs == [chunk[b] EXCEPT ![j] = me]
<1>1. chunk[b] \in Seq(ChunkLocals)
  BY DEF BatchesTyped
<1>2. /\ cs \in Seq(ChunkLocals) /\ Len(cs) = Len(chunk[b])
      /\ \A i \in 1..Len(chunk[b]) : cs[i] = IF i = j THEN me ELSE chunk[b][i]
  BY <1>1, ExceptSeq
<1> HIDE DEF cs
<1>3. chunk' = [chunk EXCEPT ![b] = cs]
  BY DEF cs
<1>4. QED
  BY <1>2, <1>3 DEF BatchesTyped, ChunkBecomes

LEMMA InvokeEffect ==
  ASSUME BatchesTyped, NEW b \in Batches, NEW items \in Seq(Parents), NEW x \in SUBSET Ctxs,
         InvokeBatch(b, items, x)
  PROVE  \E q \in BatchLocals :
           /\ BatchBecomes(b, q) /\ chunk' = chunk
           /\ q.pc = IF items = <<>> THEN "returned" ELSE "classify"
           /\ q.items = items /\ q.next = batch[b].next /\ Len(q.out) = Len(items)
           /\ q.owners = batch[b].owners /\ q.pending = batch[b].pending
           /\ q.group = batch[b].group /\ q.err = batch[b].err
<1> DEFINE out == [i \in DOMAIN items |-> Nil]
           q == [batch[b] EXCEPT !.pc = IF items = <<>> THEN "returned" ELSE "classify",
                                 !.items = items, !.ctx = x, !.out = out]
<1>1. items \in Seq(Parents) /\ x \subseteq Ctxs /\ batch[b] \in BatchLocals
  BY BatchesAssumption DEF BatchesTyped
<1>2. out \in Seq(Values) /\ Len(out) = Len(items)
  <2>1. Len(items) \in Nat /\ DOMAIN items = 1..Len(items) /\ Nil \in Values
    BY <1>1, ValuesAssumption
  <2>2. out = [i \in 1..Len(items) |-> Nil]
    BY <2>1
  <2>3. QED
    BY <2>1, <2>2
<1> HIDE DEF out
<1>3. /\ q \in BatchLocals
      /\ q.pc = IF items = <<>> THEN "returned" ELSE "classify"
      /\ q.items = items /\ q.next = batch[b].next /\ q.out = out
      /\ q.owners = batch[b].owners /\ q.pending = batch[b].pending
      /\ q.group = batch[b].group /\ q.err = batch[b].err
  BY <1>1, <1>2 DEF BatchLocals, BatchPCs
<1>4. batch' = [batch EXCEPT ![b] = q] /\ chunk' = chunk
  BY DEF InvokeBatch, out
<1> HIDE DEF q
<1>5. QED
  BY <1>2, <1>3, <1>4, PutBatch

(* One turn of the loop over the items.                                    *)
LEMMA ClassifyLocals ==
  ASSUME BatchesTyped, NEW b \in Batches, NEW q1 \in BatchLocals, Classify(b, q1)
  PROVE  \E q \in BatchLocals :
           /\ BatchBecomes(b, q) /\ chunk' = chunk
           /\ q.next = q1.next + 1
           /\ q.pc = IF q1.next = Len(q1.items) THEN "launch" ELSE q1.pc
           /\ q.items = q1.items /\ q.owners = q1.owners /\ q.pending = q1.pending
           /\ q.out = q1.out /\ q.group = q1.group /\ q.err = q1.err
<1> DEFINE to == IF q1.next = Len(q1.items) THEN "launch" ELSE q1.pc
           next == q1.next + 1
           q == [q1 EXCEPT !.next = next, !.pc = to]
<1>1. to \in BatchPCs /\ next \in Nat
  BY DEF BatchLocals, BatchPCs
<1>2. batch' = [batch EXCEPT ![b] = q] /\ chunk' = chunk
  BY DEF Classify
<1> HIDE DEF to, next
<1>3. /\ q \in BatchLocals /\ q.next = next /\ q.pc = to
      /\ q.items = q1.items /\ q.owners = q1.owners /\ q.pending = q1.pending
      /\ q.out = q1.out /\ q.group = q1.group /\ q.err = q1.err
  BY <1>1 DEF BatchLocals
<1> HIDE DEF q
<1>4. BatchBecomes(b, q)
  BY <1>2, <1>3, PutBatch
<1>5. QED
  BY <1>2, <1>3, <1>4 DEF to, next

(* The item goes to the owners, to the pending ones or is answered.        *)
Owned(b, q) ==
  /\ q.owners = Append(batch[b].owners, batch[b].next)
  /\ q.pending = batch[b].pending /\ q.out = batch[b].out

Deferred(b, q) ==
  /\ q.pending = Append(batch[b].pending, batch[b].next)
  /\ q.owners = batch[b].owners /\ q.out = batch[b].out

Answered(b, q) ==
  /\ q.owners = batch[b].owners /\ q.pending = batch[b].pending
  /\ Len(q.out) = Len(batch[b].out)
  /\ q.out[batch[b].next] = entries[ItemKey(b, batch[b].next)].out.val
  /\ \A i \in 1..Len(batch[b].out) : i # batch[b].next => q.out[i] = batch[b].out[i]

LEMMA ItemKeyTyped ==
  ASSUME BatchesTyped, NEW b \in Batches, NEW i \in 1..Len(batch[b].items)
  PROVE  ItemKey(b, i) \in Keys /\ batch[b].items[i] \in Parents
<1>1. batch[b].items[i] \in Parents /\ ChildOf[b] \in Nodes
  BY BatchesAssumption DEF BatchesTyped, BatchLocals
<1>2. QED
  BY <1>1 DEF ItemKey, Keys

Turned(b, q) ==
  /\ BatchBecomes(b, q) /\ chunk' = chunk
  /\ batch[b].pc = "classify" /\ q.next = batch[b].next + 1
  /\ q.pc = IF batch[b].next = Len(batch[b].items) THEN "launch" ELSE "classify"
  /\ q.items = batch[b].items /\ q.group = batch[b].group /\ q.err = batch[b].err

LEMMA OwnEffect ==
  ASSUME BatchesTyped, NEW b \in Batches, ClassifyUncached(b) \/ ClassifyMiss(b)
  PROVE  \E q \in BatchLocals : Turned(b, q) /\ Owned(b, q)
<1> DEFINE more == Append(batch[b].owners, batch[b].next)
           q1 == [batch[b] EXCEPT !.owners = more]
<1>1. batch[b] \in BatchLocals /\ more \in Seq(Nat)
  BY DEF BatchesTyped, BatchLocals
<1>2. Classify(b, q1) /\ batch[b].pc = "classify"
  BY DEF ClassifyUncached, ClassifyMiss, Classify, BatchAt, Own
<1> HIDE DEF more
<1>3. /\ q1 \in BatchLocals /\ q1.next = batch[b].next /\ q1.pc = batch[b].pc
      /\ q1.items = batch[b].items /\ q1.group = batch[b].group
      /\ q1.err = batch[b].err /\ q1.out = batch[b].out
      /\ q1.owners = more /\ q1.pending = batch[b].pending
  BY <1>1 DEF BatchLocals
<1> HIDE DEF q1
<1>4. QED
  BY <1>2, <1>3, ClassifyLocals DEF Turned, Owned, more

LEMMA DeferEffect ==
  ASSUME BatchesTyped, NEW b \in Batches, ClassifyPending(b)
  PROVE  \E q \in BatchLocals : Turned(b, q) /\ Deferred(b, q)
<1> DEFINE more == Append(batch[b].pending, batch[b].next)
           q1 == [batch[b] EXCEPT !.pending = more]
<1>1. batch[b] \in BatchLocals /\ more \in Seq(Nat)
  BY DEF BatchesTyped, BatchLocals
<1>2. Classify(b, q1) /\ batch[b].pc = "classify"
  BY DEF ClassifyPending, Classify, BatchAt
<1> HIDE DEF more
<1>3. /\ q1 \in BatchLocals /\ q1.next = batch[b].next /\ q1.pc = batch[b].pc
      /\ q1.items = batch[b].items /\ q1.group = batch[b].group
      /\ q1.err = batch[b].err /\ q1.out = batch[b].out
      /\ q1.pending = more /\ q1.owners = batch[b].owners
  BY <1>1 DEF BatchLocals
<1> HIDE DEF q1
<1>4. QED
  BY <1>2, <1>3, ClassifyLocals DEF Turned, Deferred, more

LEMMA AnswerEffect ==
  ASSUME NodeTypeOK, BatchesTyped, NEW b \in Batches, ClassifyHit(b),
         batch[b].next \in 1..Len(batch[b].items), Len(batch[b].out) = Len(batch[b].items)
  PROVE  \E q \in BatchLocals : Turned(b, q) /\ Answered(b, q)
<1> DEFINE i == batch[b].next
           v == entries[ItemKey(b, i)].out.val
           out == [batch[b].out EXCEPT ![i] = v]
           q1 == [batch[b] EXCEPT !.out = out]
<1>1. batch[b] \in BatchLocals /\ batch[b].out \in Seq(Values)
  BY DEF BatchesTyped, BatchLocals
<1>2. v \in Values /\ i \in 1..Len(batch[b].out)
  BY ItemKeyTyped DEF NodeTypeOK, Entry, Outcomes
<1>3. /\ out \in Seq(Values) /\ Len(out) = Len(batch[b].out)
      /\ \A m \in 1..Len(batch[b].out) : out[m] = IF m = i THEN v ELSE batch[b].out[m]
  <2> HIDE DEF v, i
  <2>1. QED
    BY <1>1, <1>2, ExceptSeq
<1>4. Classify(b, q1) /\ batch[b].pc = "classify"
  BY DEF ClassifyHit, Classify, BatchAt
<1> HIDE DEF out
<1>5. /\ q1 \in BatchLocals /\ q1.next = batch[b].next /\ q1.pc = batch[b].pc
      /\ q1.items = batch[b].items /\ q1.group = batch[b].group
      /\ q1.err = batch[b].err /\ q1.out = out
      /\ q1.pending = batch[b].pending /\ q1.owners = batch[b].owners
  BY <1>1, <1>3 DEF BatchLocals
<1> HIDE DEF q1
<1>6. PICK q \in BatchLocals :
        /\ BatchBecomes(b, q) /\ chunk' = chunk
        /\ q.next = q1.next + 1
        /\ q.pc = IF q1.next = Len(q1.items) THEN "launch" ELSE q1.pc
        /\ q.items = q1.items /\ q.owners = q1.owners /\ q.pending = q1.pending
        /\ q.out = q1.out /\ q.group = q1.group /\ q.err = q1.err
  BY <1>4, <1>5, ClassifyLocals
<1>7. Turned(b, q)
  BY <1>4, <1>5, <1>6 DEF Turned
<1>8. Answered(b, q)
  BY <1>2, <1>3, <1>5, <1>6 DEF Answered
<1>9. QED
  BY <1>7, <1>8

-----------------------------------------------------------------------------
(* The items and how they were sorted stay as they are.                    *)
SameSorting(b, q) ==
  /\ q.items = batch[b].items /\ q.owners = batch[b].owners /\ q.pending = batch[b].pending
  /\ Len(q.out) = Len(batch[b].out)

LEMMA LaunchEffect ==
  ASSUME BatchesTyped, NEW b \in Batches, LaunchChunk(b)
  PROVE  /\ batch[b].pc = "launch" /\ Len(chunk[b]) < ChunkCount(b) /\ batch' = batch
         /\ chunk' \in [Batches -> Seq(ChunkLocals)]
         /\ \A d \in Batches : d # b => chunk'[d] = chunk[d]
         /\ Len(chunk'[b]) = Len(chunk[b]) + 1
         /\ \A i \in 1..Len(chunk[b]) : chunk'[b][i] = chunk[b][i]
         /\ LET me == chunk'[b][Len(chunk[b]) + 1] IN
              me.pc = "gate" /\ me.next = 1 /\ me.err = "none"
<1> DEFINE me == [pc |-> "gate", vals |-> <<>>, err |-> "none", next |-> 1]
           cs == Append(chunk[b], me)
<1>1. me \in ChunkLocals /\ me.pc = "gate" /\ me.next = 1 /\ me.err = "none"
  BY EmptySeq DEF ChunkLocals, ChunkPCs, Errors
<1>2. chunk' = [chunk EXCEPT ![b] = cs]
  BY DEF LaunchChunk
<1> HIDE DEF me
<1>3. chunk[b] \in Seq(ChunkLocals)
  BY DEF BatchesTyped
<1>4. /\ cs \in Seq(ChunkLocals) /\ Len(cs) = Len(chunk[b]) + 1
      /\ \A i \in 1..Len(chunk[b]) : cs[i] = chunk[b][i]
      /\ cs[Len(chunk[b]) + 1] = me
  BY <1>1, <1>3
<1> HIDE DEF cs
<1>5. /\ chunk' \in [Batches -> Seq(ChunkLocals)] /\ chunk'[b] = cs
      /\ \A d \in Batches : d # b => chunk'[d] = chunk[d]
  BY <1>2, <1>4 DEF BatchesTyped
<1>6. batch[b].pc = "launch" /\ Len(chunk[b]) < ChunkCount(b) /\ batch' = batch
  BY DEF LaunchChunk, BatchAt
<1>7. QED
  BY <1>1, <1>4, <1>5, <1>6

LEMMA ChunkTyped ==
  ASSUME BatchesTyped, NEW b \in Batches, NEW j \in DOMAIN chunk[b]
  PROVE  chunk[b] \in Seq(ChunkLocals) /\ j \in 1..Len(chunk[b]) /\ chunk[b][j] \in ChunkLocals
<1>1. chunk[b] \in Seq(ChunkLocals)
  BY DEF BatchesTyped
<1>2. DOMAIN chunk[b] = 1..Len(chunk[b])
  BY <1>1, LenProperties
<1>3. QED
  BY <1>1, <1>2, ElementOfSeq

LEMMA AcquireEffect ==
  ASSUME BatchesTyped, NEW b \in Batches, NEW j \in DOMAIN chunk[b], ChunkAcquiresGate(b, j)
  PROVE  \E me \in ChunkLocals :
           /\ ChunkBecomes(b, j, me) /\ batch' = batch
           /\ chunk[b][j].pc = "gate" /\ me.pc = "resolving"
           /\ me.next = chunk[b][j].next /\ me.err = chunk[b][j].err
<1> DEFINE me == [chunk[b][j] EXCEPT !.pc = "resolving"]
<1>1. j \in 1..Len(chunk[b]) /\ chunk[b][j] \in ChunkLocals
  BY ChunkTyped
<1>2. /\ me \in ChunkLocals /\ me.pc = "resolving"
      /\ me.next = chunk[b][j].next /\ me.err = chunk[b][j].err
  BY <1>1 DEF ChunkLocals, ChunkPCs
<1>3. /\ chunk' = [chunk EXCEPT ![b] = [chunk[b] EXCEPT ![j] = me]]
      /\ batch' = batch /\ chunk[b][j].pc = "gate"
  BY DEF ChunkAcquiresGate, ChunkAt
<1> HIDE DEF me
<1>4. QED
  BY <1>1, <1>2, <1>3, PutChunk

(* A resolver answers for each parent of its chunk, or fails.              *)
ChunkAnswered(b, j, me) ==
  /\ me.err = chunk[b][j].err /\ me.vals \in ChunkAnswers(b, j)
  /\ Len(me.vals) = Len(ChunkItems(b, j))

LEMMA ReturnsEffect ==
  ASSUME NodeTypeOK, BatchesTyped, NEW b \in Batches, NEW j \in DOMAIN chunk[b],
         ChunkReturns(b, j), NEW len \in Nat, DOMAIN ChunkItems(b, j) = 1..len,
         \A m \in 1..len : ChunkItems(b, j)[m] \in 1..Len(batch[b].items)
  PROVE  \E me \in ChunkLocals :
           /\ ChunkBecomes(b, j, me) /\ batch' = batch
           /\ chunk[b][j].pc = "resolving" /\ me.pc = "publish" /\ me.next = chunk[b][j].next
           /\ me.err # "none" \/ ChunkAnswered(b, j, me)
<1>1. j \in 1..Len(chunk[b]) /\ chunk[b][j] \in ChunkLocals
  BY ChunkTyped
<1>2. batch' = batch /\ chunk[b][j].pc = "resolving"
  BY DEF ChunkReturns, ChunkAt
<1>3. ASSUME NEW vs \in ChunkAnswers(b, j),
             chunk' = [chunk EXCEPT ![b][j].pc = "publish", ![b][j].vals = vs]
      PROVE  \E me \in ChunkLocals :
               /\ ChunkBecomes(b, j, me) /\ me.pc = "publish" /\ me.next = chunk[b][j].next
               /\ ChunkAnswered(b, j, me)
  <2> DEFINE me == [chunk[b][j] EXCEPT !.pc = "publish", !.vals = vs]
  <2>1. vs \in [1..len -> Values]
    BY DEF ChunkAnswers
  <2>2. vs \in Seq(Values) /\ Len(vs) = len
    BY <2>1
  <2>3. /\ me \in ChunkLocals /\ me.pc = "publish" /\ me.vals = vs
        /\ me.next = chunk[b][j].next /\ me.err = chunk[b][j].err
    BY <1>1, <2>2 DEF ChunkLocals, ChunkPCs
  <2>4. chunk' = [chunk EXCEPT ![b] = [chunk[b] EXCEPT ![j] = me]]
    BY <1>1, <1>3 DEF BatchesTyped
  <2> HIDE DEF me
  <2>5. ChunkBecomes(b, j, me)
    BY <1>1, <2>3, <2>4, PutChunk
  <2>6. QED
    BY <2>2, <2>3, <2>5 DEF ChunkAnswered
<1>4. ASSUME NEW e \in ChunkErrors(b),
             chunk' = [chunk EXCEPT ![b][j].pc = "publish", ![b][j].err = e]
      PROVE  \E me \in ChunkLocals :
               /\ ChunkBecomes(b, j, me) /\ me.pc = "publish" /\ me.next = chunk[b][j].next
               /\ me.err # "none"
  <2> DEFINE me == [chunk[b][j] EXCEPT !.pc = "publish", !.err = e]
  <2>1. e \in Errors /\ e # "none"
    BY DEF ChunkErrors, ResolverErrors, Errors
  <2>2. /\ me \in ChunkLocals /\ me.pc = "publish" /\ me.err = e
        /\ me.next = chunk[b][j].next
    BY <1>1, <2>1 DEF ChunkLocals, ChunkPCs
  <2>3. chunk' = [chunk EXCEPT ![b] = [chunk[b] EXCEPT ![j] = me]]
    BY <1>1, <1>4 DEF BatchesTyped
  <2> HIDE DEF me
  <2>4. QED
    BY <1>1, <2>1, <2>2, <2>3, PutChunk
<1>5. QED
  BY <1>2, <1>3, <1>4 DEF ChunkReturns

(* One turn of the loop that publishes: o is what the turn publishes for   *)
(* the item i.                                                             *)
PublishedItem(b, j) == ChunkItems(b, j)[chunk[b][j].next]

PublishedOutcome(b, j) ==
  LET me == chunk[b][j]
  IN IF me.err = "none" THEN Outcome(me.vals[me.next], "none") ELSE Outcome(Nil, me.err)

LEMMA PublishesEffect ==
  ASSUME BatchesTyped, NEW b \in Batches, NEW j \in DOMAIN chunk[b], ChunkPublishes(b, j),
         NEW i, i = PublishedItem(b, j), i \in 1..Len(batch[b].out),
         NEW o, o = PublishedOutcome(b, j), o.val \in Values,
         NEW len, len = Len(ChunkItems(b, j))
  PROVE  \E me \in ChunkLocals, q \in BatchLocals :
           /\ ChunkBecomes(b, j, me) /\ BatchBecomes(b, q)
           /\ chunk[b][j].pc = "publish" /\ me.next = chunk[b][j].next + 1
           /\ me.pc = IF chunk[b][j].next < len THEN "publish"
                      ELSE IF chunk[b][j].err = "none" THEN "done" ELSE "failing"
           /\ me.err = chunk[b][j].err /\ me.vals = chunk[b][j].vals
           /\ SameSorting(b, q) /\ q.pc = batch[b].pc /\ q.next = batch[b].next
           /\ q.group = batch[b].group /\ q.err = batch[b].err
           /\ IF chunk[b][j].err = "none"
              THEN q.out[i] = o.val /\ \A m \in 1..Len(batch[b].out) : m # i => q.out[m] = batch[b].out[m]
              ELSE q.out = batch[b].out
<1> DEFINE old == chunk[b][j]
           to == IF old.next < len THEN "publish" ELSE IF old.err = "none" THEN "done" ELSE "failing"
           next == old.next + 1
           me == [old EXCEPT !.next = next, !.pc = to]
<1>1. j \in 1..Len(chunk[b]) /\ old \in ChunkLocals
  BY ChunkTyped
<1>2. to \in ChunkPCs /\ next \in Nat
  BY <1>1 DEF ChunkLocals, ChunkPCs
<1>3. old.pc = "publish"
  BY DEF ChunkPublishes, ChunkAt
<1>4. chunk' = [chunk EXCEPT ![b] = [chunk[b] EXCEPT ![j] = me]]
  <2>1. chunk' = [chunk EXCEPT ![b][j].next = @ + 1,
                    ![b][j].pc = IF old.next < Len(ChunkItems(b, j)) THEN @
                                 ELSE IF old.err = "none" THEN "done" ELSE "failing"]
    BY DEF ChunkPublishes
  <2>2. QED
    BY <1>1, <1>3, <2>1 DEF BatchesTyped
<1> HIDE DEF to, next
<1>5. /\ me \in ChunkLocals /\ me.pc = to /\ me.next = next
      /\ me.err = old.err /\ me.vals = old.vals
  BY <1>1, <1>2 DEF ChunkLocals
<1> HIDE DEF me
<1>6. ChunkBecomes(b, j, me)
  BY <1>1, <1>4, <1>5, PutChunk
<1>7. batch[b] \in BatchLocals /\ batch[b].out \in Seq(Values)
  BY DEF BatchesTyped, BatchLocals
<1>8. \E q \in BatchLocals :
        /\ BatchBecomes(b, q) /\ SameSorting(b, q) /\ q.pc = batch[b].pc /\ q.next = batch[b].next
        /\ q.group = batch[b].group /\ q.err = batch[b].err
        /\ IF old.err = "none"
           THEN q.out[i] = o.val /\ \A m \in 1..Len(batch[b].out) : m # i => q.out[m] = batch[b].out[m]
           ELSE q.out = batch[b].out
  <2>1. CASE old.err = "none"
    <3> DEFINE v == o.val
               out == [batch[b].out EXCEPT ![i] = v]
               q == [batch[b] EXCEPT !.out = out]
    <3>1. batch' = [batch EXCEPT ![b] = q]
      <4>1. batch' = [batch EXCEPT ![b].out[i] = v]
        BY <2>1 DEF ChunkPublishes, PublishedItem, PublishedOutcome
      <4>2. QED
        BY <4>1, <1>7 DEF BatchesTyped
    <3> HIDE DEF v
    <3>2. /\ out \in Seq(Values) /\ Len(out) = Len(batch[b].out)
          /\ \A m \in 1..Len(batch[b].out) : out[m] = IF m = i THEN v ELSE batch[b].out[m]
      <4>1. v \in Values
        BY DEF v
      <4>2. QED
        BY <1>7, <4>1, ExceptSeq
    <3> HIDE DEF out
    <3>3. /\ q \in BatchLocals /\ q.out = out /\ q.pc = batch[b].pc /\ q.next = batch[b].next
          /\ q.group = batch[b].group /\ q.err = batch[b].err
          /\ q.items = batch[b].items /\ q.owners = batch[b].owners /\ q.pending = batch[b].pending
      BY <1>7, <3>2 DEF BatchLocals
    <3> HIDE DEF q
    <3>4. BatchBecomes(b, q)
      BY <3>1, <3>3, PutBatch
    <3>5. q.out[i] = o.val
      BY <3>2, <3>3 DEF v
    <3>6. SameSorting(b, q) /\ \A m \in 1..Len(batch[b].out) : m # i => q.out[m] = batch[b].out[m]
      BY <3>2, <3>3 DEF SameSorting
    <3>7. QED
      BY <2>1, <3>3, <3>4, <3>5, <3>6
  <2>2. CASE old.err # "none"
    <3>1. batch' = batch
      BY <2>2 DEF ChunkPublishes
    <3>2. BatchBecomes(b, batch[b])
      BY <1>7, <3>1 DEF BatchesTyped, BatchBecomes
    <3>3. QED
      BY <1>7, <2>2, <3>2 DEF SameSorting
  <2>3. QED
    BY <2>1, <2>2
<1>9. QED
  BY <1>3, <1>5, <1>6, <1>8 DEF to, next

LEMMA FailsEffect ==
  ASSUME BatchesTyped, NEW b \in Batches, NEW j \in DOMAIN chunk[b], ChunkFails(b, j)
  PROVE  \E me \in ChunkLocals, q \in BatchLocals :
           /\ ChunkBecomes(b, j, me) /\ BatchBecomes(b, q)
           /\ chunk[b][j].pc = "failing" /\ me.pc = "done"
           /\ me.next = chunk[b][j].next /\ me.err = chunk[b][j].err
           /\ SameSorting(b, q) /\ q.out = batch[b].out /\ q.pc = batch[b].pc
           /\ q.next = batch[b].next /\ q.err = batch[b].err
           /\ q.group = IF batch[b].group = "none" THEN chunk[b][j].err ELSE batch[b].group
<1> DEFINE me == [chunk[b][j] EXCEPT !.pc = "done"]
           first == IF batch[b].group = "none" THEN chunk[b][j].err ELSE batch[b].group
           q == [batch[b] EXCEPT !.group = first]
<1>1. j \in 1..Len(chunk[b]) /\ chunk[b][j] \in ChunkLocals /\ batch[b] \in BatchLocals
  BY ChunkTyped DEF BatchesTyped
<1>2. first \in Errors
  BY <1>1 DEF ChunkLocals, BatchLocals
<1>3. /\ chunk' = [chunk EXCEPT ![b] = [chunk[b] EXCEPT ![j] = me]]
      /\ batch' = [batch EXCEPT ![b] = q] /\ chunk[b][j].pc = "failing"
  BY DEF ChunkFails, ChunkAt
<1>4. /\ me \in ChunkLocals /\ me.pc = "done"
      /\ me.next = chunk[b][j].next /\ me.err = chunk[b][j].err
  BY <1>1 DEF ChunkLocals, ChunkPCs
<1> HIDE DEF first, me
<1>5. /\ q \in BatchLocals /\ q.out = batch[b].out /\ q.pc = batch[b].pc
      /\ q.next = batch[b].next /\ q.err = batch[b].err /\ q.group = first
      /\ q.items = batch[b].items /\ q.owners = batch[b].owners /\ q.pending = batch[b].pending
  BY <1>1, <1>2 DEF BatchLocals
<1> HIDE DEF q
<1>6. ChunkBecomes(b, j, me) /\ BatchBecomes(b, q)
  BY <1>1, <1>3, <1>4, <1>5, PutChunk, PutBatch
<1>7. QED
  BY <1>3, <1>4, <1>5, <1>6 DEF first, SameSorting

(* What ends the batch: the join of its chunks, and the waits after it.    *)
LEMMA JoinEffect ==
  ASSUME BatchesTyped, NEW b \in Batches, JoinChunks(b)
  PROVE  \E q \in BatchLocals :
           /\ BatchBecomes(b, q) /\ chunk' = chunk
           /\ batch[b].pc = "launch" /\ Len(chunk[b]) = ChunkCount(b)
           /\ \A j \in 1..Len(chunk[b]) : chunk[b][j].pc = "done"
           /\ q.pc = IF batch[b].group = "none" THEN "await" ELSE "returned"
           /\ q.next = 1 /\ q.err = batch[b].group /\ q.group = batch[b].group
           /\ SameSorting(b, q) /\ q.out = batch[b].out
<1> DEFINE to == IF batch[b].group = "none" THEN "await" ELSE "returned"
           err == batch[b].group
           q == [batch[b] EXCEPT !.pc = to, !.next = 1, !.err = err]
<1>1. batch[b] \in BatchLocals /\ chunk[b] \in Seq(ChunkLocals)
  BY DEF BatchesTyped
<1>2. to \in BatchPCs /\ err \in Errors
  BY <1>1 DEF BatchLocals, BatchPCs
<1>3. /\ batch' = [batch EXCEPT ![b] = q] /\ chunk' = chunk
      /\ batch[b].pc = "launch" /\ Len(chunk[b]) = ChunkCount(b)
      /\ \A j \in 1..Len(chunk[b]) : chunk[b][j].pc = "done"
  BY <1>1, LenProperties DEF JoinChunks, BatchAt
<1> HIDE DEF to, err
<1>4. /\ q \in BatchLocals /\ q.out = batch[b].out /\ q.pc = to
      /\ q.next = 1 /\ q.err = err /\ q.group = batch[b].group
      /\ q.items = batch[b].items /\ q.owners = batch[b].owners /\ q.pending = batch[b].pending
  BY <1>1, <1>2 DEF BatchLocals
<1> HIDE DEF q
<1>5. BatchBecomes(b, q)
  BY <1>3, <1>4, PutBatch
<1>6. QED
  BY <1>3, <1>4, <1>5 DEF to, err, SameSorting

LEMMA AwaitEffect ==
  ASSUME NodeTypeOK, BatchesTyped, NEW b \in Batches,
         AwaitReady(b) \/ AwaitCancelled(b) \/ ReturnBatch(b),
         NEW i, i = batch[b].pending[batch[b].next],
         batch[b].next <= Len(batch[b].pending) => i \in 1..Len(batch[b].items),
         Len(batch[b].out) = Len(batch[b].items)
  PROVE  \E q \in BatchLocals :
           /\ BatchBecomes(b, q) /\ chunk' = chunk /\ batch[b].pc = "await"
           /\ SameSorting(b, q) /\ q.group = batch[b].group
           /\ \/ /\ q.pc = "await" /\ q.next = batch[b].next + 1 /\ q.err = batch[b].err
                 /\ AwaitReady(b) /\ batch[b].next <= Len(batch[b].pending)
                 /\ entries[ItemKey(b, i)].state = "ready" /\ entries[ItemKey(b, i)].out.err = "none"
                 /\ q.out[i] = entries[ItemKey(b, i)].out.val
                 /\ \A m \in 1..Len(batch[b].out) : m # i => q.out[m] = batch[b].out[m]
              \/ /\ q.pc = "returned" /\ q.next = batch[b].next /\ q.err # "none"
                 /\ q.out = batch[b].out
              \/ /\ q.pc = "returned" /\ q.next = batch[b].next /\ q.err = batch[b].err
                 /\ q.out = batch[b].out /\ batch[b].next > Len(batch[b].pending)
<1>1. batch[b] \in BatchLocals /\ batch[b].out \in Seq(Values) /\ batch[b].next \in Nat
  BY DEF BatchesTyped, BatchLocals
(* The batch ends with an error or with none.                              *)
<1>2. ASSUME NEW e \in Errors, NEW q, q = [batch[b] EXCEPT !.err = e, !.pc = "returned"],
             batch' = [batch EXCEPT ![b] = q]
      PROVE  /\ q \in BatchLocals /\ BatchBecomes(b, q) /\ SameSorting(b, q)
             /\ q.group = batch[b].group /\ q.pc = "returned" /\ q.next = batch[b].next
             /\ q.err = e /\ q.out = batch[b].out
  <2>1. /\ q \in BatchLocals /\ q.group = batch[b].group /\ q.pc = "returned"
        /\ q.next = batch[b].next /\ q.err = e /\ q.out = batch[b].out
        /\ q.items = batch[b].items /\ q.owners = batch[b].owners /\ q.pending = batch[b].pending
    BY <1>1, <1>2 DEF BatchLocals, BatchPCs
  <2>2. QED
    BY <1>2, <2>1, PutBatch DEF SameSorting
<1>3. CASE AwaitReady(b)
  <2> DEFINE o == entries[ItemKey(b, i)].out
  <2>1. /\ batch[b].pc = "await" /\ batch[b].next <= Len(batch[b].pending)
        /\ entries[ItemKey(b, i)].state = "ready" /\ chunk' = chunk
    BY <1>3 DEF AwaitReady, Awaits, BatchAt
  <2>2. o.err \in Errors /\ o.val \in Values /\ i \in 1..Len(batch[b].out)
    BY <2>1, ItemKeyTyped DEF NodeTypeOK, Entry, Outcomes
  <2>3. CASE o.err = "none"
    <3> DEFINE v == o.val
               out == [batch[b].out EXCEPT ![i] = v]
               next == batch[b].next + 1
               q == [batch[b] EXCEPT !.out = out, !.next = next]
    <3>1. batch' = [batch EXCEPT ![b] = q]
      <4>1. batch' = [batch EXCEPT ![b].out[i] = v, ![b].next = @ + 1]
        BY <1>3, <2>3 DEF AwaitReady
      <4>2. QED
        BY <1>1, <4>1 DEF BatchesTyped
    <3> HIDE DEF v
    <3>2. /\ out \in Seq(Values) /\ Len(out) = Len(batch[b].out) /\ next \in Nat
          /\ \A m \in 1..Len(batch[b].out) : out[m] = IF m = i THEN v ELSE batch[b].out[m]
      <4>1. v \in Values
        BY <2>2 DEF v
      <4>2. QED
        BY <1>1, <2>2, <4>1, ExceptSeq
    <3> HIDE DEF out, next
    <3>3. /\ q \in BatchLocals /\ q.out = out /\ q.pc = batch[b].pc /\ q.next = next
          /\ q.group = batch[b].group /\ q.err = batch[b].err
          /\ q.items = batch[b].items /\ q.owners = batch[b].owners /\ q.pending = batch[b].pending
      BY <1>1, <3>2 DEF BatchLocals
    <3> HIDE DEF q
    <3>4. BatchBecomes(b, q)
      BY <3>1, <3>3, PutBatch
    <3>5. q.out[i] = o.val /\ q.next = batch[b].next + 1
      BY <2>2, <3>2, <3>3 DEF v, next
    <3>6. SameSorting(b, q) /\ \A m \in 1..Len(batch[b].out) : m # i => q.out[m] = batch[b].out[m]
      BY <3>2, <3>3 DEF SameSorting
    <3>7. QED
      BY <1>3, <2>1, <2>3, <3>3, <3>4, <3>5, <3>6
  <2>4. CASE o.err # "none"
    <3> DEFINE e == o.err
               q == [batch[b] EXCEPT !.err = e, !.pc = "returned"]
    <3>1. batch' = [batch EXCEPT ![b] = q]
      BY <1>3, <2>4 DEF AwaitReady, BatchesTyped
    <3>2. e \in Errors /\ e # "none"
      BY <2>2, <2>4
    <3> HIDE DEF e
    <3>3. PICK q1 : q1 = q /\ batch' = [batch EXCEPT ![b] = q1]
      BY <3>1
    <3>4. /\ q1 \in BatchLocals /\ BatchBecomes(b, q1) /\ SameSorting(b, q1)
          /\ q1.group = batch[b].group /\ q1.pc = "returned" /\ q1.next = batch[b].next
          /\ q1.err = e /\ q1.out = batch[b].out
      BY <1>2, <3>2, <3>3
    <3>5. QED
      BY <2>1, <3>2, <3>4
  <2>5. QED
    BY <2>3, <2>4
<1>4. CASE AwaitCancelled(b)
  <2> DEFINE q == [batch[b] EXCEPT !.err = "canceled", !.pc = "returned"]
  <2>1. /\ batch' = [batch EXCEPT ![b] = q] /\ chunk' = chunk /\ batch[b].pc = "await"
        /\ "canceled" \in Errors /\ q = [batch[b] EXCEPT !.err = "canceled", !.pc = "returned"]
    <3>1. batch' = [batch EXCEPT ![b].err = "canceled", ![b].pc = "returned"]
      BY <1>4 DEF AwaitCancelled
    <3>2. batch' = [batch EXCEPT ![b] = q]
      BY <3>1 DEF BatchesTyped
    <3>3. QED
      BY <1>4, <3>2 DEF AwaitCancelled, Awaits, BatchAt, Errors
  <2> HIDE DEF q
  <2>2. QED
    BY <1>2, <2>1
<1>5. CASE ReturnBatch(b)
  <2> DEFINE q == [batch[b] EXCEPT !.pc = "returned"]
  <2>1. /\ batch' = [batch EXCEPT ![b] = q] /\ chunk' = chunk /\ batch[b].pc = "await"
        /\ batch[b].next > Len(batch[b].pending)
    BY <1>5 DEF ReturnBatch, BatchAt
  <2>2. /\ q \in BatchLocals /\ q.group = batch[b].group /\ q.pc = "returned"
        /\ q.next = batch[b].next /\ q.err = batch[b].err /\ q.out = batch[b].out
        /\ q.items = batch[b].items /\ q.owners = batch[b].owners /\ q.pending = batch[b].pending
    BY <1>1 DEF BatchLocals, BatchPCs
  <2> HIDE DEF q
  <2>3. QED
    BY <2>1, <2>2, PutBatch DEF SameSorting
<1>6. QED
  BY <1>3, <1>4, <1>5

-----------------------------------------------------------------------------
(***************************************************************************)
(* The control of a batch: how far each part of it may be when another is  *)
(* where it is.  Seen(q) items have been sorted.                           *)
(***************************************************************************)
Seen(q) == IF q.pc \in {"idle", "classify"} THEN q.next - 1 ELSE Len(q.items)

ChunkFits(b, q, j, me) ==
  LET span == Span(b, Len(q.owners), j)
  IN /\ me.next \in 1..(span + 1)
     /\ me.pc \in {"gate", "resolving"} => me.next = 1 /\ me.err = "none"
     /\ me.pc = "publish" => me.next <= span /\ (me.err = "none" => Len(me.vals) = span)
     /\ me.pc \in {"failing", "done"} => me.next = span + 1
     /\ me.pc = "failing" => me.err # "none"
     /\ me.pc = "done" /\ me.err # "none" => q.group # "none"
     /\ q.pc # "launch" => me.pc = "done"

SortingFits(q) ==
  /\ q.next \in 1..(Len(q.items) + 1) /\ Len(q.out) = Len(q.items)
  /\ q.pc = "classify" => q.next <= Len(q.items)
  /\ Len(q.pending) <= Seen(q)
  /\ \A m \in 1..Len(q.owners) : q.owners[m] \in 1..Seen(q)
  /\ \A l, m \in 1..Len(q.owners) : l < m => q.owners[l] < q.owners[m]
  /\ \A m \in 1..Len(q.pending) : q.pending[m] \in 1..Seen(q)

Fits(b, q, ch) ==
  /\ SortingFits(q)
  /\ q.pc = "idle" => Len(q.owners) = 0 /\ Len(q.pending) = 0 /\ q.group = "none" /\ q.next = 1
  /\ q.pc \in {"idle", "classify"} => Len(ch) = 0
  /\ Len(ch) <= Count(b, Len(q.owners))
  /\ q.pc \in {"await", "returned"} => Len(ch) = Count(b, Len(q.owners))
  /\ q.pc \in {"idle", "classify", "await"} => q.group = "none"
  /\ q.pc = "returned" /\ q.group # "none" => q.err # "none"
  /\ \A j \in 1..Len(ch) : ChunkFits(b, q, j, ch[j])

Control == BatchesTyped /\ \A b \in Batches : Fits(b, batch[b], chunk[b])

LEMMA ControlInit == BatchInit => Control
<1> SUFFICES ASSUME BatchInit PROVE Control
  OBVIOUS
<1>1. ASSUME NEW S PROVE <<>> \in Seq(S) /\ Len(<<>>) = 0
  BY EmptySeq
<1>2. NoBatch \in BatchLocals
  BY <1>1 DEF NoBatch, BatchLocals, BatchPCs, Errors
<1>3. \A b \in Batches : batch[b] = NoBatch /\ chunk[b] = <<>>
  BY DEF BatchInit
<1>4. BatchesTyped
  BY <1>1, <1>2 DEF BatchesTyped, BatchInit
<1>5. Len(<<>>) = 0
  BY <1>1
<1>6. \A b \in Batches : Count(b, 0) = 0
  BY DEF Count
<1>7. ASSUME NEW b \in Batches PROVE Fits(b, NoBatch, <<>>)
  BY <1>5, <1>6, <1>7 DEF Fits, SortingFits, Seen, NoBatch
<1>8. QED
  BY <1>3, <1>4, <1>7 DEF Control

(* The items of a chunk, and the parties of a step, under the control.     *)
LEMMA ChunkFacts ==
  ASSUME Control, NEW b \in Batches, NEW j \in DOMAIN chunk[b],
         NEW n, n = Len(batch[b].owners), NEW span, span = Span(b, n, j)
  PROVE  /\ n \in Nat /\ span \in Nat \ {0} /\ j \in 1..Len(chunk[b]) /\ j \in 1..Count(b, n)
         /\ Start(b, n, j) \in Nat /\ Start(b, n, j) + span <= n
         /\ Len(ChunkItems(b, j)) = span /\ DOMAIN ChunkItems(b, j) = 1..span
         /\ \A m \in 1..span : /\ ChunkItems(b, j)[m] = batch[b].owners[Start(b, n, j) + m]
                               /\ ChunkItems(b, j)[m] \in 1..Len(batch[b].items)
         /\ ChunkFits(b, batch[b], j, chunk[b][j]) /\ chunk[b][j] \in ChunkLocals
         /\ Len(batch[b].out) = Len(batch[b].items)
<1>1. BatchesTyped /\ Fits(b, batch[b], chunk[b]) /\ batch[b] \in BatchLocals
  BY DEF Control, BatchesTyped
<1>2. j \in 1..Len(chunk[b]) /\ chunk[b] \in Seq(ChunkLocals) /\ chunk[b][j] \in ChunkLocals
  BY <1>1, ChunkTyped
<1>3. n \in Nat /\ Len(batch[b].items) \in Nat /\ batch[b].next \in Nat
  BY <1>1, LenProperties DEF BatchLocals
<1>4. Count(b, n) \in Nat /\ Len(chunk[b]) <= Count(b, n) /\ Len(chunk[b]) \in Nat
  <2>1. Count(b, n) \in Nat
    BY <1>3, Geometry
  <2>2. Len(chunk[b]) <= Count(b, n)
    BY <1>1 DEF Fits
  <2>3. QED
    BY <1>2, <2>1, <2>2
<1>5. j \in 1..Count(b, n)
  BY <1>2, <1>4
<1>6. /\ span \in Nat \ {0} /\ Start(b, n, j) \in Nat /\ Start(b, n, j) + span <= n
  BY <1>3, <1>5, Geometry
<1>7. /\ Len(ChunkItems(b, j)) = span /\ DOMAIN ChunkItems(b, j) = 1..span
      /\ \A m \in 1..span : ChunkItems(b, j)[m] = batch[b].owners[Start(b, n, j) + m]
  BY <1>1, <1>5, ChunkItemsAre
<1>8. ASSUME NEW m \in 1..n PROVE batch[b].owners[m] \in 1..Len(batch[b].items)
  <2>1. batch[b].owners[m] \in 1..Seen(batch[b])
    BY <1>1, <1>8 DEF Fits, SortingFits
  <2>2. Seen(batch[b]) \in Nat /\ Seen(batch[b]) <= Len(batch[b].items)
    BY <1>1, <1>3 DEF Fits, SortingFits, Seen
  <2>3. QED
    BY <1>3, <2>1, <2>2
<1>9. \A m \in 1..span : Start(b, n, j) + m \in 1..n
  BY <1>3, <1>6
<1>10. ChunkFits(b, batch[b], j, chunk[b][j]) /\ Len(batch[b].out) = Len(batch[b].items)
  BY <1>1, <1>2 DEF Fits, SortingFits
<1>11. QED
  BY <1>2, <1>3, <1>5, <1>6, <1>7, <1>8, <1>9, <1>10

(* A step of one chunk that leaves the others and the sorting.             *)
LEMMA ChunkKeepsFit ==
  ASSUME Control, NEW b \in Batches, NEW j \in DOMAIN chunk[b], batch[b].pc = "launch",
         NEW me, ChunkBecomes(b, j, me), NEW q, SameSorting(b, q),
         q.pc = "launch", q.next = batch[b].next,
         batch[b].group # "none" => q.group # "none", ChunkFits(b, q, j, me)
  PROVE  Fits(b, q, chunk'[b])
<1>1. Fits(b, batch[b], chunk[b])
  BY DEF Control
<1>2. SortingFits(q)
  BY <1>1 DEF Fits, SortingFits, SameSorting, Seen
<1>3. ASSUME NEW i \in 1..Len(chunk[b]), i # j PROVE ChunkFits(b, q, i, chunk'[b][i])
  <2>1. chunk'[b][i] = chunk[b][i] /\ ChunkFits(b, batch[b], i, chunk[b][i])
    BY <1>1, <1>3 DEF Fits, ChunkBecomes
  <2>2. QED
    BY <2>1 DEF ChunkFits, SameSorting
<1>4. \A i \in 1..Len(chunk[b]) : ChunkFits(b, q, i, chunk'[b][i])
  BY <1>3 DEF ChunkBecomes
<1>5. QED
  BY <1>1, <1>2, <1>4 DEF Fits, ChunkBecomes, SameSorting

LEMMA ChunkStepKeepsFit ==
  ASSUME NodeTypeOK, Control, NEW b \in Batches, NEW j \in DOMAIN chunk[b], ChunkStep(b, j)
  PROVE  \E q \in BatchLocals :
           /\ BatchBecomes(b, q) /\ chunk' \in [Batches -> Seq(ChunkLocals)]
           /\ \A d \in Batches : d # b => chunk'[d] = chunk[d]
           /\ Fits(b, q, chunk'[b])
<1> DEFINE n == Len(batch[b].owners)
           span == Span(b, n, j)
           old == chunk[b][j]
<1>a. n = Len(batch[b].owners) /\ span = Span(b, n, j) /\ old = chunk[b][j]
  OBVIOUS
<1> HIDE DEF n, span, old
<1>1. /\ span \in Nat \ {0} /\ j \in 1..Len(chunk[b]) /\ old \in ChunkLocals
      /\ Len(ChunkItems(b, j)) = span /\ DOMAIN ChunkItems(b, j) = 1..span
      /\ \A m \in 1..span : ChunkItems(b, j)[m] \in 1..Len(batch[b].items)
      /\ ChunkFits(b, batch[b], j, old) /\ Len(batch[b].out) = Len(batch[b].items)
  BY <1>a, ChunkFacts
<1>2. BatchesTyped /\ batch[b] \in BatchLocals /\ old.next \in Nat
  BY <1>1 DEF Control, BatchesTyped, ChunkLocals
<1>3. old.pc # "done" => batch[b].pc = "launch"
  BY <1>1 DEF ChunkFits
(* What is left to show, for each action.                                  *)
<1>4. ASSUME NEW me, NEW q \in BatchLocals, ChunkBecomes(b, j, me), BatchBecomes(b, q),
             SameSorting(b, q), old.pc # "done", q.pc = batch[b].pc, q.next = batch[b].next,
             batch[b].group # "none" => q.group # "none", ChunkFits(b, q, j, me)
      PROVE  \E qq \in BatchLocals :
               /\ BatchBecomes(b, qq) /\ chunk' \in [Batches -> Seq(ChunkLocals)]
               /\ \A d \in Batches : d # b => chunk'[d] = chunk[d]
               /\ Fits(b, qq, chunk'[b])
  <2>1. Fits(b, q, chunk'[b])
    BY <1>3, <1>4, ChunkKeepsFit
  <2>2. QED
    BY <1>4, <2>1 DEF ChunkBecomes
<1>5. batch' = batch => BatchBecomes(b, batch[b]) /\ SameSorting(b, batch[b])
  BY <1>2 DEF BatchBecomes, SameSorting, BatchesTyped
<1>6. CASE ChunkAcquiresGate(b, j)
  <2>1. PICK me \in ChunkLocals :
          /\ ChunkBecomes(b, j, me) /\ batch' = batch
          /\ old.pc = "gate" /\ me.pc = "resolving"
          /\ me.next = old.next /\ me.err = old.err
    BY <1>2, <1>6, AcquireEffect DEF old
  <2>2. ChunkFits(b, batch[b], j, me)
    BY <1>1, <1>3, <2>1 DEF ChunkFits
  <2>3. QED
    BY <1>2, <1>4, <1>5, <2>1, <2>2
<1>7. CASE ChunkReturns(b, j)
  <2>1. PICK me \in ChunkLocals :
          /\ ChunkBecomes(b, j, me) /\ batch' = batch
          /\ old.pc = "resolving" /\ me.pc = "publish" /\ me.next = old.next
          /\ me.err # "none" \/ ChunkAnswered(b, j, me)
    BY <1>1, <1>2, <1>7, ReturnsEffect DEF old
  <2>2. old.next = 1 /\ 1 <= span /\ me.next \in 1..(span + 1)
    BY <1>1, <2>1 DEF ChunkFits, span, n
  <2>3. me.err = "none" => Len(me.vals) = span
    BY <1>1, <2>1 DEF ChunkAnswered
  <2>4. ChunkFits(b, batch[b], j, me)
    BY <1>3, <2>1, <2>2, <2>3 DEF ChunkFits, span, n
  <2>5. QED
    BY <1>2, <1>4, <1>5, <2>1, <2>4
<1>8. CASE ChunkPublishes(b, j)
  <2> DEFINE i == PublishedItem(b, j)
             o == PublishedOutcome(b, j)
  <2>1. old.pc = "publish" /\ old.next \in 1..span /\ (old.err = "none" => Len(old.vals) = span)
    BY <1>1, <1>2, <1>8 DEF ChunkPublishes, ChunkAt, old, ChunkFits, span, n
  <2>2. i \in 1..Len(batch[b].out)
    BY <1>1, <2>1 DEF PublishedItem, old
  <2>3. o.val \in Values
    <3>1. CASE old.err = "none"
      <4>1. old.vals[old.next] \in Values
        BY <1>1, <2>1, <3>1, ElementOfSeq DEF ChunkLocals
      <4>2. QED
        BY <3>1, <4>1 DEF PublishedOutcome, Outcome, old
    <3>2. CASE old.err # "none"
      BY <3>2, ValuesAssumption DEF PublishedOutcome, Outcome, old
    <3>3. QED
      BY <3>1, <3>2
  <2>a. i = PublishedItem(b, j) /\ o = PublishedOutcome(b, j) /\ span = Len(ChunkItems(b, j))
    BY <1>1
  <2> HIDE DEF i, o
  <2>4. PICK me \in ChunkLocals, q \in BatchLocals :
          /\ ChunkBecomes(b, j, me) /\ BatchBecomes(b, q)
          /\ me.next = old.next + 1
          /\ me.pc = IF old.next < span THEN "publish"
                     ELSE IF old.err = "none" THEN "done" ELSE "failing"
          /\ me.err = old.err /\ me.vals = old.vals
          /\ SameSorting(b, q) /\ q.pc = batch[b].pc /\ q.next = batch[b].next
          /\ q.group = batch[b].group /\ q.err = batch[b].err
    BY <1>2, <1>8, <2>a, <2>2, <2>3, PublishesEffect DEF old
  <2>5. ChunkFits(b, q, j, me)
    <3>1. span = Span(b, Len(q.owners), j) /\ q.pc = "launch"
      BY <1>3, <2>1, <2>4 DEF span, n, SameSorting
    <3>2. CASE old.next < span
      BY <1>1, <2>1, <2>4, <3>1, <3>2 DEF ChunkFits
    <3>3. CASE ~(old.next < span) /\ old.err = "none"
      BY <1>1, <2>1, <2>4, <3>1, <3>3 DEF ChunkFits
    <3>4. CASE ~(old.next < span) /\ old.err # "none"
      BY <1>1, <2>1, <2>4, <3>1, <3>4 DEF ChunkFits
    <3>5. QED
      BY <3>2, <3>3, <3>4
  <2>6. QED
    BY <1>4, <2>1, <2>4, <2>5
<1>9. CASE ChunkFails(b, j)
  <2>1. PICK me \in ChunkLocals, q \in BatchLocals :
          /\ ChunkBecomes(b, j, me) /\ BatchBecomes(b, q)
          /\ old.pc = "failing" /\ me.pc = "done"
          /\ me.next = old.next /\ me.err = old.err
          /\ SameSorting(b, q) /\ q.out = batch[b].out /\ q.pc = batch[b].pc
          /\ q.next = batch[b].next /\ q.err = batch[b].err
          /\ q.group = IF batch[b].group = "none" THEN old.err ELSE batch[b].group
    BY <1>2, <1>9, FailsEffect DEF old
  <2>2. old.err # "none" /\ q.group # "none"
    BY <1>1, <2>1 DEF ChunkFits
  <2>3. ChunkFits(b, q, j, me)
    BY <1>1, <1>3, <2>1, <2>2 DEF ChunkFits, SameSorting
  <2>4. QED
    BY <1>4, <2>1, <2>2, <2>3
<1>10. QED
  BY <1>6, <1>7, <1>8, <1>9 DEF ChunkStep

LEMMA AppendBelow ==
  ASSUME NEW s \in Seq(Nat), NEW i \in Nat \ {0}, \A m \in 1..Len(s) : s[m] \in 1..(i - 1),
         NEW t, t = Append(s, i)
  PROVE  /\ Len(t) = Len(s) + 1 /\ \A m \in 1..Len(t) : t[m] \in 1..i
         /\ (\A l, m \in 1..Len(s) : l < m => s[l] < s[m])
              => \A l, m \in 1..Len(t) : l < m => t[l] < t[m]
<1>1. /\ Len(t) = Len(s) + 1 /\ Len(s) \in Nat /\ t[Len(s) + 1] = i
      /\ \A m \in 1..Len(s) : t[m] = s[m]
  OBVIOUS
<1>2. \A m \in 1..Len(t) : m \in 1..Len(s) \/ m = Len(s) + 1
  BY <1>1
<1>3. \A m \in 1..Len(t) : t[m] \in 1..i
  BY <1>1, <1>2
<1>4. ASSUME \A l, m \in 1..Len(s) : l < m => s[l] < s[m],
             NEW l \in 1..Len(t), NEW m \in 1..Len(t), l < m
      PROVE  t[l] < t[m]
  <2>1. l \in 1..Len(s)
    BY <1>1, <1>4
  <2>2. CASE m \in 1..Len(s)
    BY <1>1, <1>4, <2>1, <2>2
  <2>3. CASE m = Len(s) + 1
    BY <1>1, <2>1, <2>3
  <2>4. QED
    BY <1>2, <2>2, <2>3
<1>5. QED
  BY <1>1, <1>3, <1>4

LEMMA TurnKeepsFit ==
  ASSUME Control, NEW b \in Batches, NEW q \in BatchLocals, Turned(b, q),
         Owned(b, q) \/ Deferred(b, q) \/ Answered(b, q)
  PROVE  Fits(b, q, chunk[b])
<1> DEFINE old == batch[b]
           i == old.next
<1>1. /\ old \in BatchLocals /\ Fits(b, old, chunk[b]) /\ SortingFits(old)
      /\ i \in 1..Len(old.items) /\ Len(old.items) \in Nat /\ Seen(old) = i - 1
      /\ old.owners \in Seq(Nat) /\ old.pending \in Seq(Nat)
  <2>1. old \in BatchLocals /\ Fits(b, old, chunk[b]) /\ SortingFits(old) /\ old.pc = "classify"
    BY DEF Control, BatchesTyped, Fits, Turned
  <2>2. Len(old.items) \in Nat /\ old.owners \in Seq(Nat) /\ old.pending \in Seq(Nat)
    BY <2>1, LenProperties DEF BatchLocals
  <2>3. i \in 1..Len(old.items) /\ Seen(old) = i - 1
    BY <2>1, <2>2 DEF SortingFits, Seen
  <2>4. QED
    BY <2>1, <2>2, <2>3
<1>2. /\ q.next = i + 1 /\ q.items = old.items /\ q.group = old.group /\ q.err = old.err
      /\ q.pc = IF i = Len(old.items) THEN "launch" ELSE "classify"
  BY DEF Turned
<1>3. q.next \in 1..(Len(q.items) + 1) /\ (q.pc = "classify" => q.next <= Len(q.items))
  BY <1>1, <1>2
<1>4. Seen(q) = i
  BY <1>1, <1>2 DEF Seen
<1>5. Len(q.out) = Len(q.items)
  BY <1>1, <1>2 DEF Owned, Deferred, Answered, SortingFits
<1>6. Len(q.pending) <= i /\ \A m \in 1..Len(q.pending) : q.pending[m] \in 1..i
  <2>1. Len(old.pending) \in Nat /\ Len(old.pending) <= i - 1
    BY <1>1 DEF SortingFits
  <2>2. \A m \in 1..Len(old.pending) : old.pending[m] \in 1..(i - 1)
    BY <1>1 DEF SortingFits
  <2>a. i \in Nat \ {0}
    BY <1>1
  <2>3. CASE q.pending = old.pending
    BY <2>a, <2>1, <2>2, <2>3
  <2>4. CASE Deferred(b, q)
    <3>1. q.pending = Append(old.pending, i)
      BY <2>4 DEF Deferred
    <3>2. Len(q.pending) = Len(old.pending) + 1 /\ \A m \in 1..Len(q.pending) : q.pending[m] \in 1..i
      BY <1>1, <2>a, <2>2, <3>1, AppendBelow
    <3>3. QED
      BY <2>a, <2>1, <3>2
  <2>5. QED
    BY <2>3, <2>4 DEF Owned, Answered
<1>7. /\ \A m \in 1..Len(q.owners) : q.owners[m] \in 1..i
      /\ \A l, m \in 1..Len(q.owners) : l < m => q.owners[l] < q.owners[m]
  <2>1. /\ \A m \in 1..Len(old.owners) : old.owners[m] \in 1..(i - 1)
        /\ \A l, m \in 1..Len(old.owners) : l < m => old.owners[l] < old.owners[m]
    BY <1>1 DEF SortingFits
  <2>a. i \in Nat \ {0} /\ old.owners \in Seq(Nat)
    BY <1>1
  <2>2. CASE q.owners = old.owners
    BY <2>a, <2>1, <2>2
  <2>3. CASE Owned(b, q)
    <3>1. q.owners = Append(old.owners, i)
      BY <2>3 DEF Owned
    <3>2. QED
      BY <2>a, <2>1, <3>1, AppendBelow
  <2>4. QED
    BY <2>2, <2>3 DEF Deferred, Answered
<1>8. SortingFits(q)
  BY <1>3, <1>4, <1>5, <1>6, <1>7 DEF SortingFits
<1>9. Len(chunk[b]) = 0 /\ old.group = "none"
  BY <1>1 DEF Fits, Turned
<1>10. Len(q.owners) \in Nat /\ Count(b, Len(q.owners)) \in Nat
  <2>1. Len(q.owners) \in Nat
    BY LenProperties DEF BatchLocals
  <2>2. QED
    BY <2>1, Geometry
<1>11. q.pc \in {"classify", "launch"}
  BY <1>2
<1>12. QED
  BY <1>2, <1>8, <1>9, <1>10, <1>11 DEF Fits

(* The four ways a program with batches goes on: a call, the world         *)
(* outside, a batch, and nothing at all.  Whoever starts the calls and the *)
(* batches may give them any parent, items and contexts.                   *)
BatchMove(b) ==
  \/ \E items \in Seq(Parents), x \in SUBSET Ctxs : InvokeBatch(b, items, x)
  \/ BatchStep(b)

Outside ==
  \/ \E c \in Calls, p \in Parents, x \in SUBSET Ctxs : Invoke(c, p, x)
  \/ \E x \in Ctxs : Cancel(x)
  \/ UNCHANGED nodeVars

GoesOn ==
  \/ \E c \in Calls : CallStep(c) /\ UNCHANGED batchVars
  \/ Outside /\ UNCHANGED batchVars
  \/ \E b \in Batches : BatchMove(b)

LEMMA BatchNextGoesOn == [BatchNext]_allBatchVars => GoesOn
<1> SUFFICES ASSUME [BatchNext]_allBatchVars PROVE GoesOn
  OBVIOUS
<1>1. RequestCtxs \subseteq Ctxs /\ ItemLists \subseteq Seq(Parents)
  BY BatchesAssumption
<1>2. QED
  BY <1>1 DEF BatchNext, BatchMove, Outside, GoesOn, AllDone, allBatchVars

LEMMA ControlStep == NodeTypeOK /\ Control /\ GoesOn => Control'
<1> SUFFICES ASSUME NodeTypeOK, Control, GoesOn PROVE Control'
  OBVIOUS
<1>a. BatchesTyped /\ \A b \in Batches : Fits(b, batch[b], chunk[b]) /\ batch[b] \in BatchLocals
  BY DEF Control, BatchesTyped
<1>b. ASSUME NEW b \in Batches, NEW q \in BatchLocals, BatchBecomes(b, q),
             chunk' \in [Batches -> Seq(ChunkLocals)],
             \A d \in Batches : d # b => chunk'[d] = chunk[d], Fits(b, q, chunk'[b])
      PROVE  Control'
  <2>1. BatchesTyped'
    BY <1>b DEF BatchBecomes, BatchesTyped
  <2>2. ASSUME NEW d \in Batches PROVE Fits(d, batch'[d], chunk'[d])
    BY <1>a, <1>b DEF BatchBecomes
  <2>3. QED
    BY <2>1, <2>2 DEF Control
<1>c. ASSUME NEW b \in Batches, NEW q \in BatchLocals, BatchBecomes(b, q), chunk' = chunk,
             Fits(b, q, chunk[b])
      PROVE  Control'
  BY <1>a, <1>b, <1>c DEF BatchesTyped
<1>1. ASSUME NEW b \in Batches, NEW items \in Seq(Parents), NEW x \in SUBSET Ctxs,
             InvokeBatch(b, items, x)
      PROVE  Control'
  <2>1. PICK q \in BatchLocals :
          /\ BatchBecomes(b, q) /\ chunk' = chunk
          /\ q.pc = IF items = <<>> THEN "returned" ELSE "classify"
          /\ q.items = items /\ q.next = batch[b].next /\ Len(q.out) = Len(items)
          /\ q.owners = batch[b].owners /\ q.pending = batch[b].pending
          /\ q.group = batch[b].group /\ q.err = batch[b].err
    BY <1>1, <1>a, InvokeEffect
  <2>2. batch[b].pc = "idle"
    BY <1>1 DEF InvokeBatch, BatchAt
  <2>3. /\ Len(q.owners) = 0 /\ Len(q.pending) = 0 /\ q.group = "none" /\ q.next = 1
        /\ Len(chunk[b]) = 0
    BY <1>a, <2>1, <2>2 DEF Fits
  <2>4. items \in Seq(Parents) /\ Len(items) \in Nat /\ (items = <<>> <=> Len(items) = 0)
    BY BatchesAssumption, EmptySeq
  <2>5. Seen(q) = 0
    BY <2>1, <2>3, <2>4 DEF Seen
  <2>6. SortingFits(q)
    BY <2>1, <2>3, <2>4, <2>5 DEF SortingFits
  <2>7. Count(b, Len(q.owners)) = 0
    BY <2>3 DEF Count
  <2>8. Fits(b, q, chunk[b])
    BY <2>1, <2>3, <2>6, <2>7 DEF Fits
  <2>9. QED
    BY <1>c, <2>1, <2>8
<1>2. ASSUME NEW b \in Batches, ClassifyItem(b) PROVE Control'
  <2>1. batch[b].next \in 1..Len(batch[b].items) /\ Len(batch[b].out) = Len(batch[b].items)
    <3>1. batch[b].pc = "classify"
      BY <1>2 DEF ClassifyItem, ClassifyUncached, ClassifyHit, ClassifyPending, ClassifyMiss,
                  Classify, BatchAt
    <3>2. Len(batch[b].items) \in Nat
      BY <1>a, LenProperties DEF BatchLocals
    <3>3. QED
      BY <1>a, <3>1, <3>2 DEF Fits, SortingFits
  <2>2. PICK q \in BatchLocals :
          Turned(b, q) /\ (Owned(b, q) \/ Deferred(b, q) \/ Answered(b, q))
    <3>1. CASE ClassifyUncached(b) \/ ClassifyMiss(b)
      BY <1>a, <3>1, OwnEffect
    <3>2. CASE ClassifyPending(b)
      BY <1>a, <3>2, DeferEffect
    <3>3. CASE ClassifyHit(b)
      BY <1>a, <2>1, <3>3, AnswerEffect
    <3>4. QED
      BY <1>2, <3>1, <3>2, <3>3 DEF ClassifyItem
  <2>3. Fits(b, q, chunk[b])
    BY <2>2, TurnKeepsFit
  <2>4. QED
    BY <1>c, <2>2, <2>3 DEF Turned
<1>3. ASSUME NEW b \in Batches, LaunchChunk(b) PROVE Control'
  <2> DEFINE n == Len(batch[b].owners)
             old == Len(chunk[b])
             me == chunk'[b][old + 1]
  <2>1. /\ batch[b].pc = "launch" /\ old < ChunkCount(b) /\ batch' = batch
        /\ chunk' \in [Batches -> Seq(ChunkLocals)]
        /\ \A d \in Batches : d # b => chunk'[d] = chunk[d]
        /\ Len(chunk'[b]) = old + 1
        /\ \A i \in 1..old : chunk'[b][i] = chunk[b][i]
        /\ me.pc = "gate" /\ me.next = 1 /\ me.err = "none"
    BY <1>a, <1>3, LaunchEffect
  <2>2. n \in Nat /\ old \in Nat /\ ChunkCount(b) = Count(b, n) /\ Count(b, n) \in Nat
    <3>1. n \in Nat /\ old \in Nat
      BY <1>a, LenProperties DEF BatchLocals, BatchesTyped
    <3>2. ChunkCount(b) = Count(b, n)
      BY <1>a, ChunkItemsAre
    <3>3. QED
      BY <3>1, <3>2, Geometry
  <2>3. Span(b, n, old + 1) \in Nat \ {0}
    <3>1. old + 1 \in 1..Count(b, n)
      BY <2>1, <2>2
    <3>2. QED
      BY <2>2, <3>1, Geometry
  <2>4. ChunkFits(b, batch[b], old + 1, me)
    BY <2>1, <2>3 DEF ChunkFits
  <2> HIDE DEF me, old, n
  <2>5. \A i \in 1..(old + 1) : ChunkFits(b, batch[b], i, chunk'[b][i])
    <3>1. \A i \in 1..old : ChunkFits(b, batch[b], i, chunk'[b][i])
      BY <1>a, <2>1 DEF Fits, old
    <3>2. ChunkFits(b, batch[b], old + 1, chunk'[b][old + 1])
      BY <2>4 DEF me
    <3>3. QED
      BY <2>2, <3>1, <3>2
  <2>6. old + 1 <= Count(b, n)
    BY <2>1, <2>2
  <2>7. Fits(b, batch[b], chunk'[b])
    BY <1>a, <2>1, <2>5, <2>6 DEF Fits, n
  <2>8. BatchBecomes(b, batch[b])
    BY <1>a, <2>1 DEF BatchBecomes, BatchesTyped
  <2>9. QED
    BY <1>a, <1>b, <2>1, <2>7, <2>8
<1>4. ASSUME NEW b \in Batches, NEW j \in DOMAIN chunk[b], ChunkStep(b, j) PROVE Control'
  BY <1>4, <1>b, ChunkStepKeepsFit
<1>5. ASSUME NEW b \in Batches, JoinChunks(b) PROVE Control'
  <2>1. PICK q \in BatchLocals :
          /\ BatchBecomes(b, q) /\ chunk' = chunk
          /\ batch[b].pc = "launch" /\ Len(chunk[b]) = ChunkCount(b)
          /\ \A j \in 1..Len(chunk[b]) : chunk[b][j].pc = "done"
          /\ q.pc = IF batch[b].group = "none" THEN "await" ELSE "returned"
          /\ q.next = 1 /\ q.err = batch[b].group /\ q.group = batch[b].group
          /\ SameSorting(b, q) /\ q.out = batch[b].out
    BY <1>5, <1>a, JoinEffect
  <2>2. Fits(b, batch[b], chunk[b]) /\ Len(batch[b].items) \in Nat
    BY <1>a, LenProperties DEF BatchLocals
  <2>3. SortingFits(q)
    <3>1. SortingFits(batch[b]) /\ Seen(batch[b]) = Len(batch[b].items)
      BY <2>1, <2>2 DEF Fits, Seen
    <3>2. /\ q.next \in 1..(Len(q.items) + 1) /\ Seen(q) = Len(batch[b].items) /\ q.pc # "classify"
          /\ q.items = batch[b].items /\ q.owners = batch[b].owners
          /\ q.pending = batch[b].pending /\ Len(q.out) = Len(batch[b].out)
      BY <2>1, <2>2 DEF SameSorting, Seen
    <3>3. QED
      BY <3>1, <3>2 DEF SortingFits
  <2>4. Len(chunk[b]) = Count(b, Len(q.owners))
    BY <1>a, <2>1, ChunkItemsAre DEF SameSorting
  <2>5. \A j \in 1..Len(chunk[b]) : ChunkFits(b, q, j, chunk[b][j])
    BY <2>1, <2>2 DEF Fits, ChunkFits, SameSorting
  <2>6. Fits(b, q, chunk[b])
    BY <2>1, <2>2, <2>3, <2>4, <2>5 DEF Fits, SameSorting
  <2>7. QED
    BY <1>c, <2>1, <2>6
<1>6. ASSUME NEW b \in Batches, AwaitReady(b) \/ AwaitCancelled(b) \/ ReturnBatch(b) PROVE Control'
  <2> DEFINE old == batch[b]
  <2>1. old.pc = "await"
    BY <1>6 DEF AwaitReady, AwaitCancelled, ReturnBatch, Awaits, BatchAt
  <2>2. /\ Fits(b, old, chunk[b]) /\ SortingFits(old) /\ Seen(old) = Len(old.items)
        /\ Len(old.items) \in Nat /\ Len(old.pending) \in Nat /\ Len(old.out) = Len(old.items)
    BY <1>a, <2>1, LenProperties DEF BatchLocals, Fits, SortingFits, Seen
  <2>3. PICK i : i = old.pending[old.next]
    OBVIOUS
  <2>4. old.next <= Len(old.pending) => i \in 1..Len(old.items)
    BY <2>2, <2>3 DEF SortingFits
  <2>5. PICK q \in BatchLocals :
          /\ BatchBecomes(b, q) /\ chunk' = chunk
          /\ SameSorting(b, q) /\ q.group = old.group
          /\ \/ q.pc = "await" /\ q.next = old.next + 1 /\ old.next <= Len(old.pending)
             \/ q.pc = "returned" /\ q.next = old.next
    BY <1>6, <1>a, <2>2, <2>3, <2>4, AwaitEffect
  <2> HIDE DEF old
  <2>6. SortingFits(q)
    <3>1. /\ q.next \in 1..(Len(q.items) + 1) /\ Seen(q) = Len(old.items) /\ q.pc # "classify"
          /\ q.items = old.items /\ q.owners = old.owners /\ q.pending = old.pending
          /\ Len(q.out) = Len(q.items)
      BY <2>2, <2>5 DEF SortingFits, SameSorting, Seen, old
    <3>2. QED
      BY <2>2, <3>1 DEF SortingFits
  <2>7. \A j \in 1..Len(chunk[b]) : ChunkFits(b, q, j, chunk[b][j])
    BY <2>1, <2>2, <2>5 DEF Fits, ChunkFits, SameSorting, old
  <2>8. Fits(b, q, chunk[b])
    BY <2>1, <2>2, <2>5, <2>6, <2>7 DEF Fits, SameSorting, old
  <2>9. QED
    BY <1>c, <2>5, <2>8
<1>7. CASE UNCHANGED batchVars
  BY <1>7, <1>a DEF batchVars, Control, BatchesTyped
<1>8. QED
  BY <1>1, <1>2, <1>3, <1>4, <1>5, <1>6, <1>7
  DEF GoesOn, BatchMove, BatchStep

-----------------------------------------------------------------------------
(* The chunks, in ch, of the batches of nodes ns that stand at one of ats. *)
Placed(ch, ns, ats) ==
  {x \in Batches \X Nat : /\ x[2] \in DOMAIN ch[x[1]] /\ ch[x[1]][x[2]].pc \in ats
                          /\ ChildOf[x[1]] \in ns}

(* Finitely many batches have finitely many items, or chunks, each.        *)
LEMMA PairsFinite ==
  ASSUME NEW f \in [Batches -> Nat], NEW S, \A x \in S : x \in Batches \X Nat /\ x[2] \in 1..f[x[1]]
  PROVE  IsFiniteSet(S) /\ Cardinality(S) \in Nat
<1> DEFINE g == [b \in Batches |-> {b} \X (1..f[b])]
           T == {g[b] : b \in Batches}
<1>1. g \in Surjection(Batches, T)
  BY DEF Surjection
<1>2. IsFiniteSet(T)
  BY <1>1, BatchesAssumption, FS_Surjection
<1>3. ASSUME NEW t \in T PROVE IsFiniteSet(t)
  <2>1. PICK b \in Batches : t = {b} \X (1..f[b])
    OBVIOUS
  <2>2. IsFiniteSet({b})
    BY FS_Singleton
  <2>3. PICK n \in Int : n = f[b]
    OBVIOUS
  <2>4. IsFiniteSet(1..n)
    BY FS_Interval
  <2>5. QED
    BY <2>1, <2>2, <2>3, <2>4, FS_Product
<1>4. IsFiniteSet(UNION T)
  BY <1>2, <1>3, FS_UNION
<1>5. ASSUME NEW x \in S PROVE x \in UNION T
  <2>1. x[1] \in Batches /\ x[2] \in 1..f[x[1]] /\ x = <<x[1], x[2]>>
    BY <1>5
  <2>2. x \in g[x[1]]
    BY <2>1
  <2>3. QED
    BY <2>1, <2>2
<1>6. S \in SUBSET UNION T
  BY <1>5
<1>7. QED
  BY <1>4, <1>6, FS_Subset, FS_CardinalityType

LEMMA PlacedFinite ==
  ASSUME BatchesTyped, NEW ns, NEW ats
  PROVE  /\ IsFiniteSet(Placed(chunk, ns, ats)) /\ Cardinality(Placed(chunk, ns, ats)) \in Nat
<1> DEFINE f == [b \in Batches |-> Len(chunk[b])]
<1>1. f \in [Batches -> Nat]
  BY LenProperties DEF BatchesTyped
<1>2. ASSUME NEW x \in Placed(chunk, ns, ats) PROVE x \in Batches \X Nat /\ x[2] \in 1..f[x[1]]
  <2>1. x \in Batches \X Nat /\ x[1] \in Batches /\ x[2] \in DOMAIN chunk[x[1]]
    BY <1>2 DEF Placed
  <2>2. DOMAIN chunk[x[1]] = 1..Len(chunk[x[1]])
    BY <2>1, LenProperties DEF BatchesTyped
  <2>3. QED
    BY <2>1, <2>2
<1> HIDE DEF f
<1>3. QED
  BY <1>1, <1>2, PairsFinite

(* A chunk that goes on is counted where it goes, and no longer where it   *)
(* stood; the other chunks stay.                                           *)
LEMMA PlacedMoves ==
  ASSUME BatchesTyped, NEW b \in Batches, NEW j \in DOMAIN chunk[b], NEW me, ChunkBecomes(b, j, me),
         NEW ns, NEW ats
  PROVE  Cardinality(Placed(chunk', ns, ats)) =
           IF ChildOf[b] \notin ns THEN Cardinality(Placed(chunk, ns, ats))
           ELSE IF me.pc \in ats /\ chunk[b][j].pc \notin ats
                THEN Cardinality(Placed(chunk, ns, ats)) + 1
           ELSE IF me.pc \notin ats /\ chunk[b][j].pc \in ats
                THEN Cardinality(Placed(chunk, ns, ats)) - 1
           ELSE Cardinality(Placed(chunk, ns, ats))
<1> DEFINE old == Placed(chunk, ns, ats)
           new == Placed(chunk', ns, ats)
           x == <<b, j>>
<1>1. /\ \A d \in Batches : DOMAIN chunk'[d] = DOMAIN chunk[d]
      /\ \A d \in Batches : \A i \in DOMAIN chunk[d] :
           chunk'[d][i] = IF d = b /\ i = j THEN me ELSE chunk[d][i]
  <2>1. \A d \in Batches : DOMAIN chunk[d] = 1..Len(chunk[d]) /\ DOMAIN chunk'[d] = 1..Len(chunk'[d])
    BY LenProperties DEF BatchesTyped, ChunkBecomes
  <2>2. QED
    BY <2>1 DEF ChunkBecomes
<1>2. x \in Batches \X Nat
  <2>1. Len(chunk[b]) \in Nat /\ j \in 1..Len(chunk[b])
    BY ChunkTyped, LenProperties
  <2>2. QED
    BY <2>1
<1>3. \A y : y # x => (y \in new <=> y \in old)
  BY <1>1 DEF Placed
<1>4. /\ x \in old <=> chunk[b][j].pc \in ats /\ ChildOf[b] \in ns
      /\ x \in new <=> me.pc \in ats /\ ChildOf[b] \in ns
  BY <1>1, <1>2 DEF Placed
<1> HIDE DEF old, new, x
<1>5. IsFiniteSet(old) /\ Cardinality(old) \in Nat
  BY PlacedFinite DEF old
<1>6. CASE x \in new /\ x \notin old
  <2>1. new = old \cup {x}
    BY <1>3, <1>6
  <2>2. Cardinality(new) = Cardinality(old) + 1
    BY <1>5, <1>6, <2>1, FS_AddElement
  <2>3. QED
    BY <1>4, <1>6, <2>2 DEF old, new
<1>7. CASE x \notin new /\ x \in old
  <2>1. new = old \ {x}
    BY <1>3, <1>7
  <2>2. Cardinality(new) = Cardinality(old) - 1
    BY <1>5, <1>7, <2>1, FS_RemoveElement
  <2>3. QED
    BY <1>4, <1>7, <2>2 DEF old, new
<1>8. CASE x \in new <=> x \in old
  <2>1. new = old
    BY <1>3, <1>8
  <2>2. QED
    BY <1>4, <1>8, <2>1 DEF old, new
<1>9. QED
  BY <1>6, <1>7, <1>8

(* A chunk that is launched waits for the gate.                            *)
LEMMA PlacedLaunched ==
  ASSUME BatchesTyped, NEW b \in Batches, LaunchChunk(b), NEW ns, NEW ats, "gate" \notin ats
  PROVE  Placed(chunk', ns, ats) = Placed(chunk, ns, ats)
<1>1. /\ \A d \in Batches : d # b => chunk'[d] = chunk[d]
      /\ chunk' \in [Batches -> Seq(ChunkLocals)] /\ Len(chunk'[b]) = Len(chunk[b]) + 1
      /\ \A i \in 1..Len(chunk[b]) : chunk'[b][i] = chunk[b][i]
      /\ chunk'[b][Len(chunk[b]) + 1].pc = "gate"
  BY LaunchEffect
<1>2. /\ DOMAIN chunk'[b] = 1..(Len(chunk[b]) + 1) /\ DOMAIN chunk[b] = 1..Len(chunk[b])
      /\ Len(chunk[b]) \in Nat
  BY <1>1, LenProperties DEF BatchesTyped
<1>3. ASSUME NEW x \in Batches \X Nat PROVE x \in Placed(chunk', ns, ats) <=> x \in Placed(chunk, ns, ats)
  <2>1. CASE x[1] # b
    BY <1>1, <2>1 DEF Placed
  <2>2. CASE x[1] = b
    <3>1. x[2] \in DOMAIN chunk[b] => chunk'[b][x[2]] = chunk[b][x[2]] /\ x[2] \in DOMAIN chunk'[b]
      BY <1>1, <1>2
    <3>2. x[2] \in DOMAIN chunk'[b] /\ x[2] \notin DOMAIN chunk[b] => x[2] = Len(chunk[b]) + 1
      BY <1>2
    <3>3. QED
      BY <1>1, <2>2, <3>1, <3>2 DEF Placed
  <2>3. QED
    BY <2>1, <2>2
<1>4. QED
  BY <1>3 DEF Placed

-----------------------------------------------------------------------------
(* The operations on the entries and the counters keep their types.        *)
LEMMA EntriesTyped ==
  ASSUME NodeTypeOK, NEW k \in Keys, NEW o \in Outcomes
  PROVE  Reserve(entries, k) \in [Keys -> Entry] /\ Complete(entries, k, o) \in [Keys -> Entry]
  BY DEF NodeTypeOK, Entry, EntryStates, Reserve, Complete

LEMMA BeginBatchTyped ==
  ASSUME NEW r \in [Nodes -> Counter], NEW n \in Nodes
  PROVE  BeginBatchPhysical(r, n) \in [Nodes -> Counter]
<1> DEFINE r1 == BeginPhysical(r, n)
           k == r1[n].batches + 1
<1>1. r1 \in [Nodes -> Counter]
  BY RuntimeTyped
<1>2. BeginBatchPhysical(r, n) = [r1 EXCEPT ![n] = [r1[n] EXCEPT !.batches = k]]
  BY <1>1 DEF BeginBatchPhysical
<1> HIDE DEF r1
<1>3. r1[n] \in Counter /\ k \in Nat
  BY <1>1 DEF Counter
<1> HIDE DEF k
<1>4. [r1[n] EXCEPT !.batches = k] \in Counter
  BY <1>3 DEF Counter
<1>5. QED
  BY <1>1, <1>2, <1>4

LEMMA RowsOfTyped ==
  ASSUME NEW r \in [Nodes -> Counter], NEW b \in Batches, NEW v \in Values
  PROVE  RowsOf(r, b, v) \in [Nodes -> Counter]
<1>1. ChildOf[b] \in Nodes /\ CountRowsOut(ChildOf[b], v) \in Nat
  BY BatchesAssumption, RowsTyped
<1>2. QED
  BY <1>1, RuntimeTyped DEF RowsOf

(* The item a batch looks at or waits for, and what it finds, have types.  *)
LEMMA ItemFacts ==
  ASSUME Control, NEW b \in Batches
  PROVE  /\ ChildOf[b] \in Nodes /\ GroupOf[b] \in Ctxs /\ batch[b] \in BatchLocals
         /\ batch[b].pc = "classify" => batch[b].next \in 1..Len(batch[b].items)
         /\ Awaits(b) => batch[b].pending[batch[b].next] \in 1..Len(batch[b].items)
         /\ Len(batch[b].out) = Len(batch[b].items)
<1>1. /\ batch[b] \in BatchLocals /\ SortingFits(batch[b])
  BY DEF Control, BatchesTyped, Fits
<1>2. Len(batch[b].items) \in Nat /\ Len(batch[b].pending) \in Nat /\ batch[b].next \in Nat
  BY <1>1, LenProperties DEF BatchLocals
<1>3. batch[b].pc = "classify" => batch[b].next \in 1..Len(batch[b].items)
  BY <1>1, <1>2 DEF SortingFits
<1>4. Awaits(b) => batch[b].pending[batch[b].next] \in 1..Len(batch[b].items)
  BY <1>1, <1>2 DEF Awaits, BatchAt, SortingFits, Seen
<1>5. QED
  BY <1>1, <1>3, <1>4, BatchesAssumption DEF SortingFits

LEMMA PublishedTyped ==
  ASSUME Control, NEW b \in Batches, NEW j \in DOMAIN chunk[b], chunk[b][j].pc = "publish"
  PROVE  /\ PublishedOutcome(b, j) \in Outcomes
         /\ PublishedItem(b, j) \in 1..Len(batch[b].items)
         /\ ItemKey(b, PublishedItem(b, j)) \in Keys
<1> DEFINE me == chunk[b][j]
<1>1. PICK span : span = Span(b, Len(batch[b].owners), j)
  OBVIOUS
<1>2. /\ span \in Nat \ {0} /\ me \in ChunkLocals
      /\ \A m \in 1..span : ChunkItems(b, j)[m] \in 1..Len(batch[b].items)
      /\ ChunkFits(b, batch[b], j, me)
  BY <1>1, ChunkFacts
<1>3. me.next \in 1..span /\ (me.err = "none" => Len(me.vals) = span) /\ me.err \in Errors
  BY <1>1, <1>2 DEF ChunkFits, ChunkLocals
<1>4. PublishedItem(b, j) \in 1..Len(batch[b].items)
  BY <1>2, <1>3 DEF PublishedItem
<1>5. me.err = "none" => me.vals[me.next] \in Values
  BY <1>2, <1>3, ElementOfSeq DEF ChunkLocals
<1>6. PublishedOutcome(b, j) \in Outcomes
  <2>1. CASE me.err = "none"
    BY <1>5, <2>1 DEF PublishedOutcome, Outcome, Outcomes, Errors
  <2>2. CASE me.err # "none"
    BY <1>3, <2>2, ValuesAssumption DEF PublishedOutcome, Outcome, Outcomes
  <2>3. QED
    BY <2>1, <2>2
<1>7. QED
  BY <1>4, <1>6, ItemKeyTyped DEF Control

(* A step of a batch keeps the types, as long as the gate has its range.   *)
LEMMA BatchTypes ==
  ASSUME NodeTypeOK, Control, NEW b \in Batches, BatchMove(b), gate' \in 0..GateCapacity
  PROVE  NodeTypeOK'
<1>a. /\ ChildOf[b] \in Nodes /\ GroupOf[b] \in Ctxs /\ batch[b] \in BatchLocals /\ BatchesTyped
      /\ rt \in [Nodes -> Counter] /\ entries \in [Keys -> Entry] /\ cancelled \subseteq Ctxs
  BY ItemFacts DEF NodeTypeOK, Control
<1>b. ASSUME entries' \in [Keys -> Entry], rt' \in [Nodes -> Counter], cancelled' \subseteq Ctxs,
             UNCHANGED <<pc, parent, ctx, result>>
      PROVE  NodeTypeOK'
  BY <1>b DEF NodeTypeOK
(* The entry of an item of the batch.                                      *)
<1>c. ASSUME NEW i \in 1..Len(batch[b].items)
      PROVE  /\ ItemKey(b, i) \in Keys /\ entries[ItemKey(b, i)].out \in Outcomes
             /\ entries[ItemKey(b, i)].out.val \in Values
  <2>1. ItemKey(b, i) \in Keys
    BY <1>a, <1>c, ItemKeyTyped
  <2>2. QED
    BY <1>a, <2>1 DEF Entry, Outcomes
<1>1. ASSUME NEW items \in Seq(Parents), NEW x \in SUBSET Ctxs, InvokeBatch(b, items, x)
      PROVE  NodeTypeOK'
  <2>1. Len(items) \in Nat
    BY BatchesAssumption, LenProperties
  <2>2. QED
    BY <1>1, <1>a, <1>b, <2>1, RuntimeTyped DEF InvokeBatch
<1>2. CASE ClassifyItem(b)
  <2> DEFINE i == batch[b].next
  <2>1. batch[b].pc = "classify" /\ UNCHANGED <<pc, parent, ctx, result, cancelled>>
    BY <1>2 DEF ClassifyItem, ClassifyUncached, ClassifyHit, ClassifyPending, ClassifyMiss,
                Classify, BatchAt
  <2>2. i \in 1..Len(batch[b].items)
    BY <2>1, ItemFacts
  <2>3. entries' \in [Keys -> Entry]
    <3>1. Outcome(Nil, "none") \in Outcomes
      BY ValuesAssumption DEF Outcome, Outcomes, Errors
    <3>2. entries' = entries \/ entries' = Reserve(entries, ItemKey(b, i))
      BY <1>2 DEF ClassifyItem, ClassifyUncached, ClassifyHit, ClassifyPending, ClassifyMiss
    <3>3. QED
      BY <1>a, <1>c, <2>2, <3>1, <3>2, EntriesTyped
  <2>4. rt' \in [Nodes -> Counter]
    <3>1. \/ rt' = rt \/ rt' = CacheWait(rt, ChildOf[b]) \/ rt' = CacheMiss(rt, ChildOf[b])
          \/ rt' = RowsOf(CacheHit(rt, ChildOf[b]), b, entries[ItemKey(b, i)].out.val)
      BY <1>2 DEF ClassifyItem, ClassifyUncached, ClassifyHit, ClassifyPending, ClassifyMiss
    <3>2. CacheHit(rt, ChildOf[b]) \in [Nodes -> Counter]
      BY <1>a, RuntimeTyped
    <3>3. RowsOf(CacheHit(rt, ChildOf[b]), b, entries[ItemKey(b, i)].out.val) \in [Nodes -> Counter]
      BY <1>c, <2>2, <3>2, RowsOfTyped
    <3>4. QED
      BY <1>a, <3>1, <3>3, RuntimeTyped
  <2>5. QED
    BY <1>a, <1>b, <2>1, <2>3, <2>4
<1>3. CASE LaunchChunk(b) \/ JoinChunks(b) \/ AwaitCancelled(b) \/ ReturnBatch(b)
  BY <1>3 DEF LaunchChunk, JoinChunks, AwaitCancelled, ReturnBatch, nodeVars, NodeTypeOK
<1>4. ASSUME NEW j \in DOMAIN chunk[b], ChunkStep(b, j) PROVE NodeTypeOK'
  <2>1. CASE ChunkAcquiresGate(b, j)
    BY <1>a, <1>b, <2>1, BeginBatchTyped DEF ChunkAcquiresGate
  <2>2. CASE ChunkReturns(b, j)
    BY <1>a, <1>b, <2>2, RuntimeTyped DEF ChunkReturns
  <2>3. CASE ChunkPublishes(b, j)
    <3> DEFINE k == ItemKey(b, PublishedItem(b, j))
               o == PublishedOutcome(b, j)
    <3>1. chunk[b][j].pc = "publish"
      BY <2>3 DEF ChunkPublishes, ChunkAt
    <3>2. /\ entries' = entries \/ entries' = Complete(entries, k, o)
          /\ rt' = rt \/ rt' = RowsOf(rt, b, o.val)
          /\ UNCHANGED <<pc, parent, ctx, result, cancelled>>
      BY <2>3 DEF ChunkPublishes, PublishedItem, PublishedOutcome
    <3>3. k \in Keys /\ o \in Outcomes
      BY <3>1, PublishedTyped
    <3> HIDE DEF k, o
    <3>4. entries' \in [Keys -> Entry] /\ rt' \in [Nodes -> Counter]
      <4>1. Complete(entries, k, o) \in [Keys -> Entry]
        BY <3>3, EntriesTyped
      <4>2. RowsOf(rt, b, o.val) \in [Nodes -> Counter]
        BY <1>a, <3>3, RowsOfTyped DEF Outcomes
      <4>3. QED
        BY <1>a, <3>2, <4>1, <4>2
    <3>5. QED
      BY <1>a, <1>b, <3>2, <3>4
  <2>4. CASE ChunkFails(b, j)
    BY <1>a, <1>b, <2>4 DEF ChunkFails
  <2>5. QED
    BY <1>4, <2>1, <2>2, <2>3, <2>4 DEF ChunkStep
<1>5. CASE AwaitReady(b)
  <2> DEFINE i == batch[b].pending[batch[b].next]
             v == entries[ItemKey(b, i)].out.val
  <2>1. /\ Awaits(b) /\ UNCHANGED <<entries, pc, parent, ctx, result, cancelled>>
        /\ rt' = rt \/ rt' = RowsOf(rt, b, v)
    BY <1>5 DEF AwaitReady
  <2>2. v \in Values
    BY <1>c, <2>1, ItemFacts
  <2>3. RowsOf(rt, b, v) \in [Nodes -> Counter]
    BY <1>a, <2>2, RowsOfTyped
  <2>4. QED
    BY <1>a, <1>b, <2>1, <2>3
<1>6. QED
  BY <1>1, <1>2, <1>3, <1>4, <1>5 DEF BatchMove, BatchStep

-----------------------------------------------------------------------------
(* Chunks and calls share the gate.                                        *)
ChunksResolving(ch) == Cardinality(Placed(ch, Nodes, {"resolving"}))

LEMMA BatchTokens ==
  ASSUME Control, NodeTypeOK, NEW b \in Batches, BatchMove(b)
  PROVE  /\ pc' = pc
         /\ \/ gate' = gate /\ ChunksResolving(chunk') = ChunksResolving(chunk)
            \/ /\ gate < GateCapacity /\ gate' = gate + 1
               /\ ChunksResolving(chunk') = ChunksResolving(chunk) + 1
            \/ /\ ChunksResolving(chunk) > 0 /\ gate' = gate - 1
               /\ ChunksResolving(chunk') = ChunksResolving(chunk) - 1
<1>a. BatchesTyped /\ ChildOf[b] \in Nodes
  BY ItemFacts DEF Control
(* A chunk moves, from a place to another.                                 *)
<1>b. ASSUME NEW j \in DOMAIN chunk[b], NEW me, ChunkBecomes(b, j, me)
      PROVE  ChunksResolving(chunk') =
               IF me.pc = "resolving" /\ chunk[b][j].pc # "resolving" THEN ChunksResolving(chunk) + 1
               ELSE IF me.pc # "resolving" /\ chunk[b][j].pc = "resolving"
                    THEN ChunksResolving(chunk) - 1
               ELSE ChunksResolving(chunk)
  BY <1>a, <1>b, PlacedMoves DEF ChunksResolving
<1>1. CASE \/ \E items \in Seq(Parents), x \in SUBSET Ctxs : InvokeBatch(b, items, x)
           \/ ClassifyItem(b) \/ JoinChunks(b) \/ AwaitReady(b) \/ AwaitCancelled(b) \/ ReturnBatch(b)
  BY <1>1 DEF InvokeBatch, ClassifyItem, ClassifyUncached, ClassifyHit, ClassifyPending,
              ClassifyMiss, Classify, JoinChunks, AwaitReady, AwaitCancelled, ReturnBatch, nodeVars
<1>2. CASE LaunchChunk(b)
  <2>1. ChunksResolving(chunk') = ChunksResolving(chunk)
    BY <1>a, <1>2, PlacedLaunched DEF ChunksResolving
  <2>2. QED
    BY <1>2, <2>1 DEF LaunchChunk, nodeVars
<1>3. ASSUME NEW j \in DOMAIN chunk[b], ChunkStep(b, j)
      PROVE  /\ pc' = pc
             /\ \/ gate' = gate /\ ChunksResolving(chunk') = ChunksResolving(chunk)
                \/ /\ gate < GateCapacity /\ gate' = gate + 1
                   /\ ChunksResolving(chunk') = ChunksResolving(chunk) + 1
                \/ /\ ChunksResolving(chunk) > 0 /\ gate' = gate - 1
                   /\ ChunksResolving(chunk') = ChunksResolving(chunk) - 1
  <2>1. CASE ChunkAcquiresGate(b, j)
    <3>1. ChunksResolving(chunk') = ChunksResolving(chunk) + 1
      BY <1>a, <1>b, <2>1, AcquireEffect
    <3>2. QED
      BY <2>1, <3>1 DEF ChunkAcquiresGate
  <2>2. CASE ChunkReturns(b, j)
    <3>1. PICK len : len = Span(b, Len(batch[b].owners), j)
      OBVIOUS
    <3>2. /\ len \in Nat /\ DOMAIN ChunkItems(b, j) = 1..len
          /\ \A m \in 1..len : ChunkItems(b, j)[m] \in 1..Len(batch[b].items)
      BY <3>1, ChunkFacts
    <3>3. ChunksResolving(chunk') = ChunksResolving(chunk) - 1
      BY <1>a, <1>b, <2>2, <3>2, ReturnsEffect
    <3>4. ChunksResolving(chunk) > 0
      <4>1. <<b, j>> \in Placed(chunk, Nodes, {"resolving"})
        <5>1. chunk[b][j].pc = "resolving" /\ j \in Nat
          BY <1>a, <2>2, ChunkTyped, LenProperties DEF ChunkReturns, ChunkAt
        <5>2. QED
          BY <1>a, <5>1 DEF Placed
      <4>2. IsFiniteSet(Placed(chunk, Nodes, {"resolving"})) /\ ChunksResolving(chunk) \in Nat
        BY <1>a, PlacedFinite DEF ChunksResolving
      <4>3. QED
        BY <4>1, <4>2, FS_EmptySet DEF ChunksResolving
    <3>5. QED
      BY <2>2, <3>3, <3>4 DEF ChunkReturns
  <2>3. CASE ChunkPublishes(b, j)
    <3>1. PICK i, o, len : i = PublishedItem(b, j) /\ o = PublishedOutcome(b, j)
                           /\ len = Len(ChunkItems(b, j))
      OBVIOUS
    <3>2. chunk[b][j].pc = "publish"
      BY <2>3 DEF ChunkPublishes, ChunkAt
    <3>3. i \in 1..Len(batch[b].out) /\ o.val \in Values
      BY <3>1, <3>2, PublishedTyped, ItemFacts DEF Outcomes
    <3>4. ChunksResolving(chunk') = ChunksResolving(chunk)
      BY <1>a, <1>b, <2>3, <3>1, <3>2, <3>3, PublishesEffect
    <3>5. QED
      BY <2>3, <3>4 DEF ChunkPublishes
  <2>4. CASE ChunkFails(b, j)
    <3>1. ChunksResolving(chunk') = ChunksResolving(chunk)
      BY <1>a, <1>b, <2>4, FailsEffect
    <3>2. QED
      BY <2>4, <3>1 DEF ChunkFails
  <2>5. QED
    BY <1>3, <2>1, <2>2, <2>3, <2>4 DEF ChunkStep
<1>4. QED
  BY <1>1, <1>2, <1>3 DEF BatchMove, BatchStep

(* What bounds the gate: its tokens are the calls and the chunks that run  *)
(* a resolver.                                                             *)
Tokens == gate = Cardinality(Resolving) + ChunksResolving(chunk)

TypedBatches == NodeTypeOK /\ Control /\ Tokens

LEMMA TypedBatchesInit == BatchInit => TypedBatches
<1> SUFFICES ASSUME BatchInit PROVE TypedBatches
  OBVIOUS
<1>1. Control
  BY ControlInit
<1>2. TypedGate
  BY TypedGateInit DEF BatchInit
<1>3. Placed(chunk, Nodes, {"resolving"}) = {}
  <2>1. ASSUME NEW b \in Batches PROVE DOMAIN chunk[b] = {}
    BY LenProperties, EmptySeq DEF BatchInit
  <2>2. QED
    BY <2>1 DEF Placed
<1>4. Tokens
  <2>1. gate = Cardinality(Resolving) /\ Cardinality(Resolving) \in Nat
    BY <1>2, ResolvingFinite DEF TypedGate, GateAccounting, Resolving
  <2>2. ChunksResolving(chunk) = 0
    BY <1>3, FS_EmptySet DEF ChunksResolving
  <2>3. QED
    BY <2>1, <2>2 DEF Tokens
<1>5. QED
  BY <1>1, <1>2, <1>4 DEF TypedBatches, TypedGate

LEMMA TypedBatchesStep == TypedBatches /\ GoesOn => TypedBatches'
<1> SUFFICES ASSUME TypedBatches, GoesOn PROVE TypedBatches'
  OBVIOUS
<1>a. /\ NodeTypeOK /\ Control /\ Tokens /\ gate \in Nat /\ gate <= GateCapacity
      /\ Cardinality(Resolving) \in Nat /\ ChunksResolving(chunk) \in Nat /\ GateCapacity \in Nat
  BY ResolvingFinite, CapacityPositive, PlacedFinite
  DEF TypedBatches, Control, NodeTypeOK, ChunksResolving
<1>b. gate = Cardinality(Resolving) + ChunksResolving(chunk) /\ pc \in [Calls -> PCs]
  BY <1>a DEF Tokens, NodeTypeOK
<1>1. Control'
  BY <1>a, ControlStep
<1>2. ASSUME NEW c \in Calls, CallStep(c), UNCHANGED batchVars PROVE NodeTypeOK' /\ Tokens'
  <2>1. ChunksResolving(chunk') = ChunksResolving(chunk)
    BY <1>2 DEF batchVars
  <2>2. gate' = Cardinality(Resolving') + ChunksResolving(chunk') /\ gate' \in 0..GateCapacity
    BY <1>2, <1>a, <1>b, <2>1, CallTokens
  <2>3. NodeTypeOK'
    BY <1>2, <1>a, <2>2, CallTypes
  <2>4. QED
    BY <2>2, <2>3 DEF Tokens, ChunksResolving
<1>3. ASSUME \/ \E c \in Calls, p \in Parents, x \in SUBSET Ctxs : Invoke(c, p, x)
             \/ \E x \in Ctxs : Cancel(x)
             \/ UNCHANGED nodeVars,
             UNCHANGED batchVars
      PROVE  NodeTypeOK' /\ Tokens'
  BY <1>3, <1>a, OutsideTypes DEF Tokens, ChunksResolving, batchVars
<1>4. ASSUME NEW b \in Batches, BatchMove(b) PROVE NodeTypeOK' /\ Tokens'
  <2>1. /\ pc' = pc
        /\ \/ gate' = gate /\ ChunksResolving(chunk') = ChunksResolving(chunk)
           \/ /\ gate < GateCapacity /\ gate' = gate + 1
              /\ ChunksResolving(chunk') = ChunksResolving(chunk) + 1
           \/ /\ ChunksResolving(chunk) > 0 /\ gate' = gate - 1
              /\ ChunksResolving(chunk') = ChunksResolving(chunk) - 1
    BY <1>4, <1>a, BatchTokens
  <2>2. Resolving' = Resolving
    BY <2>1 DEF Resolving, At
  <2>3. gate' = Cardinality(Resolving') + ChunksResolving(chunk') /\ gate' \in 0..GateCapacity
    <3>1. gate' = Cardinality(Resolving) + ChunksResolving(chunk') /\ gate' \in 0..GateCapacity
      BY <1>a, <1>b, <2>1
    <3>2. QED
      BY <2>2, <3>1
  <2>4. NodeTypeOK'
    BY <1>4, <1>a, <2>3, BatchTypes
  <2>5. QED
    BY <2>3, <2>4 DEF Tokens, ChunksResolving
<1>5. QED
  BY <1>1, <1>2, <1>3, <1>4 DEF TypedBatches, GoesOn, Outside

LEMMA TypedBatchesKept == BatchSpec => []TypedBatches
<1>1. QED
  BY TypedBatchesInit, TypedBatchesStep, BatchNextGoesOn, PTL DEF BatchSpec

LEMMA TypedBatchesTypes == TypedBatches => BatchTypeOK
<1> SUFFICES ASSUME TypedBatches PROVE BatchTypeOK
  OBVIOUS
<1>1. ASSUME NEW S, NEW s \in Seq(S) PROVE IsSeqOver(s, S)
  <2>1. DOMAIN s = 1..Len(s) /\ \A i \in DOMAIN s : s[i] \in S
    BY LenProperties, ElementOfSeq
  <2>2. QED
    BY <2>1 DEF IsSeqOver
<1>2. ASSUME NEW b \in Batches
      PROVE  LET bt == batch[b] IN
               /\ bt.pc \in BatchPCs
               /\ IsSeqOver(bt.items, Parents)
               /\ bt.ctx \subseteq Ctxs
               /\ bt.next \in 1..(Len(bt.items) + 1)
               /\ IsSeqOver(bt.owners, DOMAIN bt.items)
               /\ IsSeqOver(bt.pending, DOMAIN bt.items)
               /\ bt.out \in [DOMAIN bt.items -> Values]
               /\ bt.group \in Errors /\ bt.err \in Errors
               /\ \A j \in DOMAIN chunk[b] :
                    chunk[b][j].pc \in ChunkPCs /\ chunk[b][j].err \in Errors
  <2> DEFINE bt == batch[b]
  <2>1. bt \in BatchLocals /\ SortingFits(bt) /\ BatchesTyped
    BY DEF TypedBatches, Control, BatchesTyped, Fits
  <2>2. /\ bt.items \in Seq(Parents) /\ bt.owners \in Seq(Nat) /\ bt.pending \in Seq(Nat)
        /\ bt.out \in Seq(Values) /\ bt.next \in Nat /\ bt.ctx \subseteq Ctxs
        /\ bt.pc \in BatchPCs /\ bt.group \in Errors /\ bt.err \in Errors
    BY <2>1 DEF BatchLocals
  <2>3. Len(bt.items) \in Nat /\ DOMAIN bt.items = 1..Len(bt.items)
    BY <2>2, LenProperties
  <2>4. Seen(bt) <= Len(bt.items) /\ Seen(bt) \in Nat
    BY <2>1, <2>2, <2>3 DEF SortingFits, Seen
  <2>5. IsSeqOver(bt.owners, DOMAIN bt.items) /\ IsSeqOver(bt.pending, DOMAIN bt.items)
    <3>1. DOMAIN bt.owners = 1..Len(bt.owners) /\ DOMAIN bt.pending = 1..Len(bt.pending)
      BY <2>2, LenProperties
    <3>2. /\ \A m \in 1..Len(bt.owners) : bt.owners[m] \in 1..Seen(bt)
          /\ \A m \in 1..Len(bt.pending) : bt.pending[m] \in 1..Seen(bt)
      BY <2>1 DEF SortingFits
    <3>3. 1..Seen(bt) \subseteq DOMAIN bt.items
      BY <2>3, <2>4
    <3>4. QED
      BY <3>1, <3>2, <3>3 DEF IsSeqOver
  <2>6. bt.out \in [DOMAIN bt.items -> Values]
    <3>1. Len(bt.out) = Len(bt.items)
      BY <2>1 DEF SortingFits
    <3>2. bt.out \in [1..Len(bt.out) -> Values]
      BY <2>2, LenProperties
    <3>3. QED
      BY <2>3, <3>1, <3>2
  <2>7. IsSeqOver(bt.items, Parents)
    BY <1>1, <2>2
  <2>8. bt.next \in 1..(Len(bt.items) + 1)
    BY <2>1 DEF SortingFits
  <2>9. \A j \in DOMAIN chunk[b] : chunk[b][j].pc \in ChunkPCs /\ chunk[b][j].err \in Errors
    BY <2>1, ChunkTyped DEF ChunkLocals
  <2>10. QED
    BY <2>2, <2>5, <2>6, <2>7, <2>8, <2>9
<1>3. QED
  BY <1>2 DEF BatchTypeOK, TypedBatches

(* Every local of a batch and of its chunks keeps its type: its cursor     *)
(* never runs past the items, and each owner and each pending one is an    *)
(* index of the items it was given.                                        *)
THEOREM BatchTypesKept == BatchSpec => []BatchTypeOK
BY TypedBatchesTypes, TypedBatchesKept, PTL

LEMMA FitsReport == TypedBatches => ChunkFailureReported
<1> SUFFICES ASSUME TypedBatches, NEW b \in Batches, BatchAt(b, "returned"),
                    NEW j \in DOMAIN chunk[b], chunk[b][j].err # "none"
             PROVE  batch[b].err # "none"
  BY DEF ChunkFailureReported
<1>1. Control /\ Fits(b, batch[b], chunk[b]) /\ batch[b].pc = "returned"
  BY DEF TypedBatches, Control, BatchAt
<1>2. ChunkFits(b, batch[b], j, chunk[b][j])
  BY <1>1, ChunkFacts
<1>3. chunk[b][j].pc = "done" /\ batch[b].group # "none"
  BY <1>1, <1>2 DEF ChunkFits
<1>4. QED
  BY <1>1, <1>3 DEF Fits

(* A batch joins all its chunks before it returns, and the first error of  *)
(* a chunk stays in the group: a failed chunk fails its batch, however the *)
(* others end.                                                             *)
THEOREM FailureReported == BatchSpec => []ChunkFailureReported
BY FitsReport, TypedBatchesKept, PTL
=============================================================================
