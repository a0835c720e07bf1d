-------------------------- MODULE BatchAccountsProofs --------------------------
(***************************************************************************)
(* Who owes what in BatchResolve.tla, for every value of the constants:    *)
(* which party publishes a pending entry, how the counters account for the *)
(* items of the batches, and whose answers the values are.                 *)
(***************************************************************************)
EXTENDS BatchResolveProofs

(***************************************************************************)
(* Single flight with batches.  The owner at position m of n was published *)
(* once its chunk's loop has passed it; until then a batch that has not    *)
(* joined its chunks owes the entry of that item.                          *)
(***************************************************************************)
Passed(b, n, ch, m) ==
  \E j \in 1..Len(ch) : Start(b, n, j) < m /\ m < Start(b, n, j) + ch[j].next

Owes(b, q, ch, i) ==
  /\ q.pc \in {"classify", "launch"} /\ BatchCached(b)
  /\ \E m \in 1..Len(q.owners) : q.owners[m] = i /\ ~Passed(b, Len(q.owners), ch, m)

KeyAt(b, q, i) == CacheKeyForNode(ChildOf[b], q.items[i])

Owing(bs, cs, k) ==
  {x \in Batches \X Nat : /\ Owes(x[1], bs[x[1]], cs[x[1]], x[2])
                          /\ KeyAt(x[1], bs[x[1]], x[2]) = k}

LEMMA OwingFinite ==
  ASSUME Control, NEW k
  PROVE  IsFiniteSet(Owing(batch, chunk, k)) /\ Cardinality(Owing(batch, chunk, k)) \in Nat
<1> DEFINE f == [b \in Batches |-> Len(batch[b].items)]
<1>a. \A b \in Batches : batch[b] \in BatchLocals /\ SortingFits(batch[b])
  BY DEF Control, BatchesTyped, Fits
<1>1. f \in [Batches -> Nat]
  BY <1>a, LenProperties DEF BatchLocals
<1>2. ASSUME NEW x \in Owing(batch, chunk, k) PROVE x \in Batches \X Nat /\ x[2] \in 1..f[x[1]]
  <2>1. PICK b \in Batches, i \in Nat : x = <<b, i>>
    BY <1>2 DEF Owing
  <2>2. PICK m \in 1..Len(batch[b].owners) : batch[b].owners[m] = i
    BY <1>2, <2>1 DEF Owing, Owes
  <2>3. batch[b].owners[m] \in 1..Seen(batch[b])
    BY <1>a, <2>2 DEF SortingFits
  <2>4. Len(batch[b].items) \in Nat /\ batch[b].next \in Nat
    BY <1>a, LenProperties DEF BatchLocals
  <2>5. i \in 1..Len(batch[b].items)
    BY <1>a, <2>2, <2>3, <2>4 DEF Seen, SortingFits
  <2>6. QED
    BY <2>1, <2>5
<1> HIDE DEF f
<1>3. QED
  BY <1>1, <1>2, PairsFinite

(* What a step of b does to the items owed, from what it does to b's.      *)
LEMMA OwingChanges ==
  ASSUME NEW b \in Batches, NEW q, BatchBecomes(b, q),
         \A d \in Batches : d # b => chunk'[d] = chunk[d], NEW k,
         NEW x \in Batches \X Nat
  PROVE  x \in Owing(batch', chunk', k) <=>
           IF x[1] = b THEN Owes(b, q, chunk'[b], x[2]) /\ KeyAt(b, q, x[2]) = k
           ELSE x \in Owing(batch, chunk, k)
  BY DEF Owing, BatchBecomes

LEMMA OwingSame ==
  ASSUME NEW b \in Batches, NEW q, BatchBecomes(b, q),
         \A d \in Batches : d # b => chunk'[d] = chunk[d],
         \A i \in Nat : Owes(b, q, chunk'[b], i) <=> Owes(b, batch[b], chunk[b], i),
         (\E i \in Nat : Owes(b, q, chunk'[b], i)) => q.items = batch[b].items, NEW k
  PROVE  Owing(batch', chunk', k) = Owing(batch, chunk, k)
<1>1. ASSUME NEW x \in Batches \X Nat
      PROVE  x \in Owing(batch', chunk', k) <=> x \in Owing(batch, chunk, k)
  <2>1. CASE x[1] = b
    <3>1. x[2] \in Nat /\ (Owes(b, q, chunk'[b], x[2]) => KeyAt(b, q, x[2]) = KeyAt(b, batch[b], x[2]))
      BY DEF KeyAt
    <3>2. x \in Owing(batch, chunk, k) <=>
            Owes(b, batch[b], chunk[b], x[2]) /\ KeyAt(b, batch[b], x[2]) = k
      BY <2>1 DEF Owing
    <3>3. QED
      BY <2>1, <3>1, <3>2, OwingChanges
  <2>2. CASE x[1] # b
    BY <2>2, OwingChanges
  <2>3. QED
    BY <2>1, <2>2
<1>2. QED
  BY <1>1 DEF Owing

LEMMA OwingGains ==
  ASSUME NEW b \in Batches, NEW q, BatchBecomes(b, q),
         \A d \in Batches : d # b => chunk'[d] = chunk[d], NEW i \in Nat,
         q.items = batch[b].items,
         \A m \in Nat : Owes(b, q, chunk'[b], m) <=> (Owes(b, batch[b], chunk[b], m) \/ m = i),
         NEW k
  PROVE  Owing(batch', chunk', k) = IF k = KeyAt(b, q, i) THEN Owing(batch, chunk, k) \cup {<<b, i>>}
                                    ELSE Owing(batch, chunk, k)
<1>1. ASSUME NEW x \in Batches \X Nat
      PROVE  x \in Owing(batch', chunk', k) <=>
               (x \in Owing(batch, chunk, k) \/ (x = <<b, i>> /\ k = KeyAt(b, q, i)))
  <2>1. CASE x[1] = b
    <3>1. x[2] \in Nat /\ KeyAt(b, q, x[2]) = KeyAt(b, batch[b], x[2]) /\ (x = <<b, i>> <=> x[2] = i)
      BY <2>1 DEF KeyAt
    <3>2. x \in Owing(batch, chunk, k) <=>
            Owes(b, batch[b], chunk[b], x[2]) /\ KeyAt(b, batch[b], x[2]) = k
      BY <2>1 DEF Owing
    <3>3. QED
      BY <2>1, <3>1, <3>2, OwingChanges
  <2>2. CASE x[1] # b
    BY <2>2, OwingChanges
  <2>3. QED
    BY <2>1, <2>2
<1>2. QED
  BY <1>1 DEF Owing

LEMMA OwingLoses ==
  ASSUME NEW b \in Batches, NEW q, BatchBecomes(b, q),
         \A d \in Batches : d # b => chunk'[d] = chunk[d], NEW i \in Nat,
         q.items = batch[b].items,
         \A m \in Nat : Owes(b, q, chunk'[b], m) <=> (Owes(b, batch[b], chunk[b], m) /\ m # i),
         NEW k
  PROVE  Owing(batch', chunk', k) = IF k = KeyAt(b, q, i) THEN Owing(batch, chunk, k) \ {<<b, i>>}
                                    ELSE Owing(batch, chunk, k)
<1>1. ASSUME NEW x \in Batches \X Nat
      PROVE  x \in Owing(batch', chunk', k) <=>
               (x \in Owing(batch, chunk, k) /\ ~(x = <<b, i>> /\ k = KeyAt(b, q, i)))
  <2>1. CASE x[1] = b
    <3>1. x[2] \in Nat /\ KeyAt(b, q, x[2]) = KeyAt(b, batch[b], x[2]) /\ (x = <<b, i>> <=> x[2] = i)
      BY <2>1 DEF KeyAt
    <3>2. x \in Owing(batch, chunk, k) <=>
            Owes(b, batch[b], chunk[b], x[2]) /\ KeyAt(b, batch[b], x[2]) = k
      BY <2>1 DEF Owing
    <3>3. QED
      BY <2>1, <3>1, <3>2, OwingChanges
  <2>2. CASE x[1] # b
    BY <2>2, OwingChanges
  <2>3. QED
    BY <2>1, <2>2
<1>2. QED
  BY <1>1 DEF Owing

(* The batch's part of a step, case by case: what it owes afterwards.      *)
LEMMA OwesElsewhere ==
  ASSUME NEW b, NEW q, NEW ch, NEW i, q.pc \notin {"classify", "launch"} \/ ~BatchCached(b)
  PROVE  ~Owes(b, q, ch, i)
  BY DEF Owes

(* A batch whose chunks have all ended has passed its owners and owes      *)
(* nothing any more.                                                       *)
LEMMA JoinedPassed ==
  ASSUME Control, NEW b \in Batches, JoinChunks(b), NEW n, n = Len(batch[b].owners), NEW m \in 1..n
  PROVE  Passed(b, n, chunk[b], m)
<1>1. BatchesTyped /\ batch[b] \in BatchLocals /\ Fits(b, batch[b], chunk[b])
  BY DEF Control, BatchesTyped
<1>2. n \in Nat
  BY <1>1, LenProperties DEF BatchLocals
<1>3. Len(chunk[b]) = Count(b, n) /\ \A j \in 1..Len(chunk[b]) : chunk[b][j].pc = "done"
  BY <1>1, JoinEffect, ChunkItemsAre
<1>4. \A j \in 1..Count(b, n) : chunk[b][j].next = Span(b, n, j) + 1
  BY <1>1, <1>3 DEF Fits, ChunkFits
<1>5. PICK j \in 1..Count(b, n) : \E l \in 1..Span(b, n, j) : m = Start(b, n, j) + l
  BY <1>2, Geometry
<1>6. PICK l \in 1..Span(b, n, j) : m = Start(b, n, j) + l
  BY <1>5
<1>7. Start(b, n, j) \in Nat /\ Span(b, n, j) \in Nat
  BY <1>2, Geometry
<1>8. Start(b, n, j) < m /\ m < Start(b, n, j) + chunk[b][j].next
  BY <1>4, <1>6, <1>7
<1>9. QED
  BY <1>3, <1>8 DEF Passed

LEMMA JoinedOwesNothing ==
  ASSUME Control, NEW b \in Batches, JoinChunks(b), NEW i
  PROVE  ~Owes(b, batch[b], chunk[b], i)
BY JoinedPassed DEF Owes

(* An owner that is appended is owed on top of the others.                 *)
LEMMA OwnedIsOwed ==
  ASSUME Control, NEW b \in Batches, NEW q \in BatchLocals, Turned(b, q), Owned(b, q),
         BatchCached(b), NEW i \in Nat
  PROVE  Owes(b, q, chunk[b], i) <=> (Owes(b, batch[b], chunk[b], i) \/ i = batch[b].next)
<1> DEFINE s == batch[b].owners
           n == Len(s)
<1>1. /\ Fits(b, batch[b], chunk[b]) /\ batch[b].pc = "classify" /\ q.pc \in {"classify", "launch"}
      /\ q.owners = Append(s, batch[b].next) /\ s \in Seq(Nat)
  BY DEF Control, BatchesTyped, BatchLocals, Turned, Owned
<1>2. Len(chunk[b]) = 0
  BY <1>1 DEF Fits
<1>3. \A k, m : ~Passed(b, k, chunk[b], m)
  BY <1>2 DEF Passed
<1>4. /\ n \in Nat /\ Len(q.owners) = n + 1 /\ q.owners[n + 1] = batch[b].next
      /\ \A m \in 1..n : q.owners[m] = s[m]
  BY <1>1
<1>5. (\E m \in 1..Len(q.owners) : q.owners[m] = i) <=>
        ((\E m \in 1..n : s[m] = i) \/ i = batch[b].next)
  <2> HIDE DEF s, n
  <2>1. \A m \in 1..(n + 1) : m \in 1..n \/ m = n + 1
    BY <1>4
  <2>2. n + 1 \in 1..(n + 1) /\ \A m \in 1..n : m \in 1..(n + 1)
    BY <1>4
  <2>3. QED
    BY <1>4, <2>1, <2>2
<1>6. QED
  BY <1>1, <1>3, <1>5 DEF Owes

(* A step of one chunk that does not publish owes what it owed.            *)
LEMMA ChunkOwesSame ==
  ASSUME NEW b, NEW q, NEW r, NEW ch, NEW cs, q.pc = r.pc, q.owners = r.owners,
         \A m \in 1..Len(q.owners) :
           Passed(b, Len(q.owners), ch, m) <=> Passed(b, Len(q.owners), cs, m),
         NEW i
  PROVE  Owes(b, q, ch, i) <=> Owes(b, r, cs, i)
  BY DEF Owes

LEMMA MovedPassedSame ==
  ASSUME NEW b, NEW j, NEW me, ChunkBecomes(b, j, me), me.next = chunk[b][j].next, NEW n, NEW m
  PROVE  Passed(b, n, chunk'[b], m) <=> Passed(b, n, chunk[b], m)
  BY DEF Passed, ChunkBecomes

LEMMA LaunchedPassedSame ==
  ASSUME Control, NEW b \in Batches, LaunchChunk(b), NEW n, n = Len(batch[b].owners), NEW m \in 1..n
  PROVE  Passed(b, n, chunk'[b], m) <=> Passed(b, n, chunk[b], m)
<1> DEFINE old == Len(chunk[b])
<1>1. BatchesTyped /\ batch[b] \in BatchLocals
  BY DEF Control, BatchesTyped
<1>2. n \in Nat /\ old \in Nat
  BY <1>1, LenProperties DEF BatchLocals, BatchesTyped
<1>3. /\ old < Count(b, n) /\ Len(chunk'[b]) = old + 1 /\ chunk'[b][old + 1].next = 1
      /\ \A i \in 1..old : chunk'[b][i] = chunk[b][i]
  BY <1>1, LaunchEffect, ChunkItemsAre
<1>4. Start(b, n, old + 1) \in Nat
  <2>1. Count(b, n) \in Nat
    BY <1>2, Geometry
  <2>2. old + 1 \in 1..Count(b, n)
    BY <1>2, <1>3, <2>1
  <2>3. QED
    BY <1>2, <2>2, Geometry
<1>5. ~(Start(b, n, old + 1) < m /\ m < Start(b, n, old + 1) + chunk'[b][old + 1].next)
  BY <1>2, <1>3, <1>4
<1> HIDE DEF old
<1>6. /\ \A i \in 1..(old + 1) : i \in 1..old \/ i = old + 1
      /\ \A i \in 1..old : i \in 1..(old + 1)
  BY <1>2 DEF old
<1>7. QED
  BY <1>3, <1>5, <1>6 DEF Passed, old

(* A turn of a chunk's loop passes one owner, which no chunk had passed.   *)
LEMMA PublishedPassed ==
  ASSUME Control, NEW b \in Batches, NEW j \in DOMAIN chunk[b], chunk[b][j].pc = "publish",
         NEW me, ChunkBecomes(b, j, me), me.next = chunk[b][j].next + 1,
         NEW n, n = Len(batch[b].owners), NEW p, p = Start(b, n, j) + chunk[b][j].next
  PROVE  /\ p \in 1..n /\ batch[b].owners[p] = PublishedItem(b, j)
         /\ ~Passed(b, n, chunk[b], p)
         /\ \A m \in 1..n : Passed(b, n, chunk'[b], m) <=> (Passed(b, n, chunk[b], m) \/ m = p)
<1> DEFINE at == chunk[b][j].next
           start == Start(b, n, j)
<1>1. PICK span : span = Span(b, n, j)
  OBVIOUS
<1>2. /\ n \in Nat /\ span \in Nat \ {0} /\ j \in 1..Len(chunk[b]) /\ start \in Nat
      /\ start + span <= n /\ at \in 1..span
      /\ \A m \in 1..span : ChunkItems(b, j)[m] = batch[b].owners[start + m]
  <2>1. /\ n \in Nat /\ span \in Nat \ {0} /\ j \in 1..Len(chunk[b]) /\ start \in Nat
        /\ start + span <= n
        /\ \A m \in 1..span : ChunkItems(b, j)[m] = batch[b].owners[start + m]
        /\ ChunkFits(b, batch[b], j, chunk[b][j])
    BY <1>1, ChunkFacts
  <2>2. at \in 1..span
    BY <1>1, <2>1 DEF ChunkFits
  <2>3. QED
    BY <2>1, <2>2
<1>p. p = start + at /\ PublishedItem(b, j) = ChunkItems(b, j)[at]
  BY DEF PublishedItem
<1>3. p \in 1..n /\ p \in Nat /\ batch[b].owners[p] = PublishedItem(b, j)
  <2> HIDE DEF start, at
  <2>1. p \in 1..n /\ p \in Nat
    BY <1>2, <1>p
  <2>2. QED
    BY <1>2, <1>p, <2>1
<1>4. ASSUME NEW i \in 1..Len(chunk[b]), Start(b, n, i) < p, p < Start(b, n, i) + chunk[b][i].next
      PROVE  FALSE
  <2>1. /\ BatchesTyped /\ Len(chunk[b]) <= Count(b, n) /\ ChunkFits(b, batch[b], i, chunk[b][i])
    BY DEF Control, Fits
  <2>2. Len(chunk[b]) \in Nat /\ Count(b, n) \in Nat
    BY <1>2, <2>1, Geometry, LenProperties DEF BatchesTyped
  <2>3. i \in 1..Count(b, n) /\ j \in 1..Count(b, n)
    BY <1>2, <2>1, <2>2
  <2>4. /\ Start(b, n, i) \in Nat /\ Span(b, n, i) \in Nat
        /\ i < j => Start(b, n, i) + Span(b, n, i) <= start
        /\ j < i => start + span <= Start(b, n, i)
    BY <1>1, <1>2, <2>3, Geometry
  <2>5. chunk[b][i].next \in Nat /\ chunk[b][i].next <= Span(b, n, i) + 1
    BY <2>1, <2>4 DEF ChunkFits
  <2> DEFINE begin == Start(b, n, i)
             next == chunk[b][i].next
  <2>a. begin < p /\ p < begin + next
    BY <1>4
  <2>8. CASE i = j
    <3>1. begin = start /\ next = at
      BY <2>8
    <3> HIDE DEF begin, next, start, at
    <3>2. QED
      BY <1>2, <1>p, <2>a, <3>1
  <2>6. CASE i < j
    <3> HIDE DEF begin, next, start, at
    <3>1. begin + next <= start + 1
      BY <1>2, <2>4, <2>5, <2>6 DEF begin, next
    <3>2. begin \in Nat /\ next \in Nat
      BY <2>4, <2>5 DEF begin, next
    <3>3. QED
      BY <1>2, <1>p, <2>a, <3>1, <3>2
  <2>7. CASE i > j
    <3> HIDE DEF begin, next, start, at
    <3>1. start + span <= begin /\ begin \in Nat
      BY <2>3, <2>4, <2>7 DEF begin
    <3>2. QED
      BY <1>2, <1>p, <2>a, <3>1
  <2>9. QED
    BY <2>2, <2>3, <2>6, <2>7, <2>8
<1>5. ~Passed(b, n, chunk[b], p)
  BY <1>4 DEF Passed
<1>6. ASSUME NEW m \in 1..n
      PROVE  Passed(b, n, chunk'[b], m) <=> (Passed(b, n, chunk[b], m) \/ m = p)
  <2>1. /\ Len(chunk'[b]) = Len(chunk[b])
        /\ \A i \in 1..Len(chunk[b]) : chunk'[b][i].next = IF i = j THEN at + 1 ELSE chunk[b][i].next
    BY <1>2 DEF ChunkBecomes
  <2>2. start < m /\ m < start + (at + 1) <=> (start < m /\ m < start + at) \/ m = p
    <3> HIDE DEF start, at
    <3>1. start \in Nat /\ at \in Nat /\ m \in Nat /\ p = start + at
      BY <1>2, <1>p, <1>6
    <3>2. ASSUME start < m, m < start + (at + 1) PROVE m < start + at \/ m = p
      BY <3>1, <3>2
    <3>3. ASSUME (start < m /\ m < start + at) \/ m = p PROVE start < m /\ m < start + (at + 1)
      <4>1. at >= 1
        BY <1>2
      <4>2. QED
        BY <3>1, <3>3, <4>1
    <3>4. QED
      BY <3>2, <3>3
  <2>3. Passed(b, n, chunk'[b], m) <=>
          \E i \in 1..Len(chunk[b]) :
            Start(b, n, i) < m /\ m < Start(b, n, i) + (IF i = j THEN at + 1 ELSE chunk[b][i].next)
    BY <2>1 DEF Passed
  <2>4. QED
    BY <1>2, <2>2, <2>3 DEF Passed
<1>7. QED
  BY <1>3, <1>5, <1>6

LEMMA PublishedIsOwed ==
  ASSUME Control, NEW b \in Batches, NEW j \in DOMAIN chunk[b], chunk[b][j].pc = "publish",
         NEW me, ChunkBecomes(b, j, me), me.next = chunk[b][j].next + 1, BatchCached(b),
         NEW q, q.pc = batch[b].pc, q.owners = batch[b].owners, NEW i
  PROVE  /\ Owes(b, q, chunk'[b], i) <=> (Owes(b, batch[b], chunk[b], i) /\ i # PublishedItem(b, j))
         /\ Owes(b, batch[b], chunk[b], PublishedItem(b, j))
<1> DEFINE s == batch[b].owners
           item == PublishedItem(b, j)
<1>1. PICK n, p : n = Len(s) /\ p = Start(b, n, j) + chunk[b][j].next
  OBVIOUS
<1>2. /\ p \in 1..n /\ s[p] = item /\ ~Passed(b, n, chunk[b], p)
      /\ \A m \in 1..n : Passed(b, n, chunk'[b], m) <=> (Passed(b, n, chunk[b], m) \/ m = p)
  BY <1>1, PublishedPassed
<1>3. batch[b].pc = "launch"
  <2>1. ChunkFits(b, batch[b], j, chunk[b][j])
    BY ChunkFacts
  <2>2. QED
    BY <2>1 DEF ChunkFits
<1>4. ASSUME NEW m \in 1..n, m # p PROVE s[m] # item
  <2>1. \A l, k \in 1..n : l < k => s[l] < s[k]
    BY <1>1 DEF Control, Fits, SortingFits
  <2>2. s \in Seq(Nat) /\ n \in Nat
    BY <1>1, LenProperties DEF Control, BatchesTyped, BatchLocals
  <2>3. s[m] \in Nat /\ s[p] \in Nat
    BY <1>1, <1>2, <2>2, ElementOfSeq
  <2>4. QED
    BY <1>2, <1>4, <2>1, <2>2, <2>3
<1>5. QED
  BY <1>1, <1>2, <1>3, <1>4 DEF Owes

-----------------------------------------------------------------------------
(* What a step of a batch does to the entries and to the items owed: as    *)
(* for a call, nothing, one reservation or one publication.                *)
LEMMA BatchOwners ==
  ASSUME NodeTypeOK, Control, NEW b \in Batches, BatchMove(b)
  PROVE  /\ UNCHANGED <<pc, parent>>
         /\ \/ /\ entries' = entries
               /\ \A k \in Keys : Owing(batch', chunk', k) = Owing(batch, chunk, k)
            \/ \E me \in Keys, i \in Nat :
                 /\ entries[me].state = "absent" /\ entries' = Reserve(entries, me)
                 /\ <<b, i>> \notin Owing(batch, chunk, me)
                 /\ \A k \in Keys : Owing(batch', chunk', k) =
                      IF k = me THEN Owing(batch, chunk, k) \cup {<<b, i>>}
                      ELSE Owing(batch, chunk, k)
            \/ \E me \in Keys, i \in Nat, o \in Outcomes :
                 /\ <<b, i>> \in Owing(batch, chunk, me) /\ entries' = Complete(entries, me, o)
                 /\ \A k \in Keys : Owing(batch', chunk', k) =
                      IF k = me THEN Owing(batch, chunk, k) \ {<<b, i>>}
                      ELSE Owing(batch, chunk, k)
<1> DEFINE Kept == /\ entries' = entries
                   /\ \A k \in Keys : Owing(batch', chunk', k) = Owing(batch, chunk, k)
           Reserved == \E me \in Keys, i \in Nat :
                 /\ entries[me].state = "absent" /\ entries' = Reserve(entries, me)
                 /\ <<b, i>> \notin Owing(batch, chunk, me)
                 /\ \A k \in Keys : Owing(batch', chunk', k) =
                      IF k = me THEN Owing(batch, chunk, k) \cup {<<b, i>>}
                      ELSE Owing(batch, chunk, k)
           Filled == \E me \in Keys, i \in Nat, o \in Outcomes :
                 /\ <<b, i>> \in Owing(batch, chunk, me) /\ entries' = Complete(entries, me, o)
                 /\ \A k \in Keys : Owing(batch', chunk', k) =
                      IF k = me THEN Owing(batch, chunk, k) \ {<<b, i>>}
                      ELSE Owing(batch, chunk, k)
<1>a. /\ BatchesTyped /\ batch[b] \in BatchLocals /\ Fits(b, batch[b], chunk[b])
      /\ BatchBecomes(b, batch[b]) \/ batch' # batch
  BY DEF Control, BatchesTyped, BatchBecomes
<1>1. UNCHANGED <<pc, parent>>
  BY DEF BatchMove, InvokeBatch, BatchStep, ClassifyItem, ClassifyUncached, ClassifyHit,
         ClassifyPending, ClassifyMiss, Classify, LaunchChunk, ChunkStep, ChunkAcquiresGate,
         ChunkReturns, ChunkPublishes, ChunkFails, JoinChunks, AwaitReady, AwaitCancelled,
         ReturnBatch, nodeVars
<1>2. ASSUME NEW items \in Seq(Parents), NEW x \in SUBSET Ctxs, InvokeBatch(b, items, x)
      PROVE  Kept
  <2>1. PICK q \in BatchLocals :
          BatchBecomes(b, q) /\ chunk' = chunk /\ q.owners = batch[b].owners
    BY <1>2, <1>a, InvokeEffect
  <2>2. batch[b].pc = "idle" /\ entries' = entries
    BY <1>2 DEF InvokeBatch, BatchAt
  <2>3. Len(q.owners) = 0
    BY <1>a, <2>1, <2>2 DEF Fits
  <2>4. \A i \in Nat : ~Owes(b, q, chunk'[b], i) /\ ~Owes(b, batch[b], chunk[b], i)
    BY <2>1, <2>2, <2>3 DEF Owes
  <2>5. \A k : Owing(batch', chunk', k) = Owing(batch, chunk, k)
    BY <2>1, <2>4, OwingSame
  <2>6. QED
    BY <2>2, <2>5
<1>3. ASSUME ClassifyItem(b) PROVE Kept \/ Reserved
  <2>1. /\ batch[b].pc = "classify" /\ batch[b].next \in 1..Len(batch[b].items)
        /\ Len(batch[b].out) = Len(batch[b].items)
    <3>1. batch[b].pc = "classify"
      BY <1>3 DEF ClassifyItem, ClassifyUncached, ClassifyHit, ClassifyPending, ClassifyMiss,
                  Classify, BatchAt
    <3>2. QED
      BY <3>1, ItemFacts
  <2>2. CASE ~BatchCached(b)
    <3>1. ClassifyUncached(b) /\ entries' = entries
      BY <1>3, <2>2 DEF ClassifyItem, ClassifyUncached, ClassifyHit, ClassifyPending, ClassifyMiss
    <3>2. PICK q \in BatchLocals : Turned(b, q)
      BY <1>a, <3>1, OwnEffect
    <3>3. \A i \in Nat : ~Owes(b, q, chunk'[b], i) /\ ~Owes(b, batch[b], chunk[b], i)
      BY <2>2, OwesElsewhere
    <3>4. \A k : Owing(batch', chunk', k) = Owing(batch, chunk, k)
      BY <3>2, <3>3, OwingSame DEF Turned
    <3>5. QED
      BY <3>1, <3>4
  <2>3. CASE ClassifyHit(b) \/ ClassifyPending(b)
    <3>1. entries' = entries
      BY <2>3 DEF ClassifyHit, ClassifyPending
    <3>2. PICK q \in BatchLocals : Turned(b, q) /\ (Deferred(b, q) \/ Answered(b, q))
      BY <1>a, <2>1, <2>3, DeferEffect, AnswerEffect
    <3>3. /\ BatchBecomes(b, q) /\ chunk' = chunk /\ q.items = batch[b].items
          /\ q.owners = batch[b].owners /\ q.pc \in {"classify", "launch"}
      BY <3>2 DEF Turned, Deferred, Answered
    <3>4. \A i \in Nat : Owes(b, q, chunk'[b], i) <=> Owes(b, batch[b], chunk[b], i)
      BY <2>1, <3>3 DEF Owes
    <3>5. \A k : Owing(batch', chunk', k) = Owing(batch, chunk, k)
      BY <3>3, <3>4, OwingSame
    <3>6. QED
      BY <3>1, <3>5
  <2>4. CASE ClassifyMiss(b)
    <3>1. PICK q \in BatchLocals : Turned(b, q) /\ Owned(b, q)
      BY <1>a, <2>4, OwnEffect
    <3>2. PICK i \in Nat : i = batch[b].next /\ i \in 1..Len(batch[b].items)
      BY <2>1
    <3>3. PICK me : me = ItemKey(b, i)
      OBVIOUS
    <3>4. /\ me \in Keys /\ entries[me].state = "absent" /\ entries' = Reserve(entries, me)
          /\ BatchCached(b)
      BY <1>a, <2>4, <3>2, <3>3, ItemKeyTyped DEF ClassifyMiss, MissOwner
    <3>5. BatchBecomes(b, q) /\ chunk' = chunk /\ q.items = batch[b].items /\ KeyAt(b, q, i) = me
      BY <3>1, <3>3 DEF Turned, KeyAt, ItemKey
    <3>6. \A m \in Nat : Owes(b, q, chunk'[b], m) <=> (Owes(b, batch[b], chunk[b], m) \/ m = i)
      BY <3>1, <3>2, <3>4, <3>5, OwnedIsOwed
    <3>7. ~Owes(b, batch[b], chunk[b], i)
      <4>1. Seen(batch[b]) = i - 1 /\ \A m \in 1..Len(batch[b].owners) : batch[b].owners[m] \in 1..Seen(batch[b])
        BY <1>a, <2>1, <3>2 DEF Seen, Fits, SortingFits
      <4>2. QED
        BY <3>2, <4>1 DEF Owes
    <3>8. <<b, i>> \notin Owing(batch, chunk, me)
      BY <3>7 DEF Owing
    <3>9. \A k : Owing(batch', chunk', k) =
                   IF k = me THEN Owing(batch, chunk, k) \cup {<<b, i>>} ELSE Owing(batch, chunk, k)
      BY <3>5, <3>6, OwingGains
    <3>10. QED
      BY <3>4, <3>8, <3>9
  <2>5. QED
    BY <1>3, <2>2, <2>3, <2>4 DEF ClassifyItem, ClassifyUncached
<1>4. ASSUME LaunchChunk(b) PROVE Kept
  <2>1. /\ batch' = batch /\ entries' = entries /\ \A d \in Batches : d # b => chunk'[d] = chunk[d]
    BY <1>4, <1>a, LaunchEffect DEF LaunchChunk, nodeVars
  <2>2. \A i \in Nat : Owes(b, batch[b], chunk'[b], i) <=> Owes(b, batch[b], chunk[b], i)
    BY <1>4, LaunchedPassedSame, ChunkOwesSame
  <2>3. \A k : Owing(batch', chunk', k) = Owing(batch, chunk, k)
    BY <1>a, <2>1, <2>2, OwingSame
  <2>4. QED
    BY <2>1, <2>3
<1>5. ASSUME NEW j \in DOMAIN chunk[b], ChunkStep(b, j) PROVE Kept \/ Filled
  <2>b. ASSUME NEW me, ChunkBecomes(b, j, me), me.next = chunk[b][j].next,
               NEW q, BatchBecomes(b, q), q.items = batch[b].items,
               q.owners = batch[b].owners, q.pc = batch[b].pc, entries' = entries
        PROVE  Kept
    <3>1. \A i \in Nat : Owes(b, q, chunk'[b], i) <=> Owes(b, batch[b], chunk[b], i)
      BY <2>b, MovedPassedSame, ChunkOwesSame
    <3>2. \A k : Owing(batch', chunk', k) = Owing(batch, chunk, k)
      BY <2>b, <3>1, OwingSame DEF ChunkBecomes
    <3>3. QED
      BY <2>b, <3>2
  <2>1. CASE ChunkAcquiresGate(b, j)
    <3>1. PICK me \in ChunkLocals :
            ChunkBecomes(b, j, me) /\ batch' = batch /\ me.next = chunk[b][j].next
      BY <1>a, <2>1, AcquireEffect
    <3>2. QED
      BY <1>a, <2>1, <2>b, <3>1 DEF ChunkAcquiresGate
  <2>2. CASE ChunkReturns(b, j)
    <3>1. PICK len : len = Span(b, Len(batch[b].owners), j)
      OBVIOUS
    <3>2. /\ len \in Nat /\ DOMAIN ChunkItems(b, j) = 1..len
          /\ \A m \in 1..len : ChunkItems(b, j)[m] \in 1..Len(batch[b].items)
      BY <3>1, ChunkFacts
    <3>3. PICK me \in ChunkLocals :
            ChunkBecomes(b, j, me) /\ batch' = batch /\ me.next = chunk[b][j].next
      BY <1>a, <2>2, <3>2, ReturnsEffect
    <3>4. QED
      BY <1>a, <2>2, <2>b, <3>3 DEF ChunkReturns
  <2>3. CASE ChunkFails(b, j)
    <3>1. PICK me \in ChunkLocals, q \in BatchLocals :
            /\ ChunkBecomes(b, j, me) /\ BatchBecomes(b, q) /\ me.next = chunk[b][j].next
            /\ SameSorting(b, q) /\ q.pc = batch[b].pc
      BY <1>a, <2>3, FailsEffect
    <3>2. QED
      BY <2>3, <2>b, <3>1 DEF ChunkFails, SameSorting
  <2>4. CASE ChunkPublishes(b, j)
    <3>1. PICK i, o, len : i = PublishedItem(b, j) /\ o = PublishedOutcome(b, j)
                           /\ len = Len(ChunkItems(b, j))
      OBVIOUS
    <3>2. chunk[b][j].pc = "publish"
      BY <2>4 DEF ChunkPublishes, ChunkAt
    <3>3. /\ i \in 1..Len(batch[b].items) /\ o \in Outcomes /\ ItemKey(b, i) \in Keys /\ o.val \in Values
          /\ i \in 1..Len(batch[b].out) /\ i \in Nat
      <4>1. i \in 1..Len(batch[b].items) /\ o \in Outcomes /\ ItemKey(b, i) \in Keys
        BY <3>1, <3>2, PublishedTyped
      <4>2. Len(batch[b].items) \in Nat /\ Len(batch[b].out) = Len(batch[b].items)
        BY <1>a, LenProperties, ItemFacts DEF BatchLocals
      <4>3. QED
        BY <4>1, <4>2 DEF Outcomes
    <3>4. PICK me \in ChunkLocals, q \in BatchLocals :
            /\ ChunkBecomes(b, j, me) /\ BatchBecomes(b, q) /\ me.next = chunk[b][j].next + 1
            /\ SameSorting(b, q) /\ q.pc = batch[b].pc
      BY <1>a, <2>4, <3>1, <3>3, PublishesEffect
    <3>5. CASE BatchCached(b)
      <4>1. PICK key : key = ItemKey(b, i)
        OBVIOUS
      <4>2. entries' = Complete(entries, key, o)
        BY <2>4, <3>1, <3>5, <4>1 DEF ChunkPublishes, PublishedItem, PublishedOutcome
      <4>3. /\ \A m \in Nat : Owes(b, q, chunk'[b], m) <=> (Owes(b, batch[b], chunk[b], m) /\ m # i)
            /\ Owes(b, batch[b], chunk[b], i)
        BY <3>1, <3>2, <3>4, <3>5, PublishedIsOwed DEF SameSorting
      <4>4. KeyAt(b, q, i) = key /\ KeyAt(b, batch[b], i) = key
        BY <3>4, <4>1 DEF KeyAt, ItemKey, SameSorting
      <4>5. <<b, i>> \in Owing(batch, chunk, key)
        BY <3>3, <4>3, <4>4 DEF Owing
      <4>6. \A k : Owing(batch', chunk', k) =
                     IF k = key THEN Owing(batch, chunk, k) \ {<<b, i>>} ELSE Owing(batch, chunk, k)
        BY <3>3, <3>4, <4>3, <4>4, OwingLoses DEF SameSorting, ChunkBecomes
      <4>7. QED
        BY <3>3, <4>1, <4>2, <4>5, <4>6
    <3>6. CASE ~BatchCached(b)
      <4>1. entries' = entries
        BY <2>4, <3>6 DEF ChunkPublishes
      <4>2. \A m \in Nat : ~Owes(b, q, chunk'[b], m) /\ ~Owes(b, batch[b], chunk[b], m)
        BY <3>6, OwesElsewhere
      <4>3. \A k : Owing(batch', chunk', k) = Owing(batch, chunk, k)
        BY <3>4, <4>2, OwingSame DEF ChunkBecomes
      <4>4. QED
        BY <4>1, <4>3
    <3>7. QED
      BY <3>5, <3>6
  <2>5. QED
    BY <1>5, <2>1, <2>2, <2>3, <2>4 DEF ChunkStep
<1>6. ASSUME JoinChunks(b) PROVE Kept
  <2>1. PICK q \in BatchLocals : BatchBecomes(b, q) /\ chunk' = chunk /\ q.pc \in {"await", "returned"}
    BY <1>6, <1>a, JoinEffect
  <2>2. \A i \in Nat : ~Owes(b, q, chunk'[b], i) /\ ~Owes(b, batch[b], chunk[b], i)
    BY <1>6, <2>1, OwesElsewhere, JoinedOwesNothing
  <2>3. \A k : Owing(batch', chunk', k) = Owing(batch, chunk, k)
    BY <2>1, <2>2, OwingSame
  <2>4. QED
    BY <1>6, <2>3 DEF JoinChunks, nodeVars
<1>7. ASSUME AwaitReady(b) \/ AwaitCancelled(b) \/ ReturnBatch(b) PROVE Kept
  <2>1. PICK i : i = batch[b].pending[batch[b].next]
    OBVIOUS
  <2>2. batch[b].next <= Len(batch[b].pending) => i \in 1..Len(batch[b].items)
    <3>1. batch[b].pc = "await"
      BY <1>7 DEF AwaitReady, AwaitCancelled, ReturnBatch, Awaits, BatchAt
    <3>2. QED
      BY <2>1, <3>1, ItemFacts DEF Awaits, BatchAt
  <2>3. PICK q \in BatchLocals :
          BatchBecomes(b, q) /\ chunk' = chunk /\ batch[b].pc = "await" /\ q.pc \in {"await", "returned"}
    BY <1>7, <1>a, <2>1, <2>2, ItemFacts, AwaitEffect
  <2>4. \A m \in Nat : ~Owes(b, q, chunk'[b], m) /\ ~Owes(b, batch[b], chunk[b], m)
    BY <2>3, OwesElsewhere
  <2>5. \A k : Owing(batch', chunk', k) = Owing(batch, chunk, k)
    BY <2>3, <2>4, OwingSame
  <2>6. QED
    BY <1>7, <2>5 DEF AwaitReady, AwaitCancelled, ReturnBatch, nodeVars
<1>8. QED
  BY <1>1, <1>2, <1>3, <1>4, <1>5, <1>6, <1>7 DEF BatchMove, BatchStep

(* The parties, calls and items, that will publish the entry of k.         *)
CallOwnersOf(k) == {c \in Calls : Owns(c, k)}

SingleParty ==
  \A k \in Keys :
    Cardinality(CallOwnersOf(k)) + Cardinality(Owing(batch, chunk, k))
      = IF entries[k].state = "pending" THEN 1 ELSE 0

BatchOwnership == PublishersOwn /\ SingleParty

LEMMA CallOwnersFinite ==
  ASSUME NEW k
  PROVE  IsFiniteSet(CallOwnersOf(k)) /\ Cardinality(CallOwnersOf(k)) \in Nat
<1>1. CallOwnersOf(k) \in SUBSET Calls
  BY DEF CallOwnersOf
<1>2. QED
  BY <1>1, CallsAssumption, FS_Subset, FS_CardinalityType

(* The arithmetic of a step: n counts the parties of each key before, m    *)
(* after it.  Nothing is counted at an absent entry, so the one who        *)
(* reserves it is alone; the one who publishes it was.                     *)
LEMMA PartiesKept ==
  ASSUME entries \in [Keys -> Entry], NEW n \in [Keys -> Nat], NEW m \in [Keys -> Nat],
         \A k \in Keys : n[k] = IF entries[k].state = "pending" THEN 1 ELSE 0,
         \/ entries' = entries /\ \A k \in Keys : m[k] = n[k]
         \/ \E me \in Keys :
              /\ entries[me].state = "absent" /\ entries' = Reserve(entries, me)
              /\ \A k \in Keys : m[k] = IF k = me THEN n[k] + 1 ELSE n[k]
         \/ \E me \in Keys : \E o :
              /\ n[me] > 0 /\ entries' = Complete(entries, me, o)
              /\ \A k \in Keys : m[k] = IF k = me THEN n[k] - 1 ELSE n[k]
  PROVE  \A k \in Keys : m[k] = IF entries'[k].state = "pending" THEN 1 ELSE 0
<1>1. CASE entries' = entries /\ \A k \in Keys : m[k] = n[k]
  BY <1>1
<1>2. ASSUME NEW me \in Keys, entries[me].state = "absent", entries' = Reserve(entries, me),
             \A k \in Keys : m[k] = IF k = me THEN n[k] + 1 ELSE n[k]
      PROVE  \A k \in Keys : m[k] = IF entries'[k].state = "pending" THEN 1 ELSE 0
  <2>1. n[me] = 0 /\ m[me] = 1
    BY <1>2
  <2>2. \A k \in Keys : entries'[k].state = IF k = me THEN "pending" ELSE entries[k].state
    BY <1>2 DEF Reserve, Entry
  <2>3. QED
    BY <1>2, <2>1, <2>2
<1>3. ASSUME NEW me \in Keys, NEW o, n[me] > 0, entries' = Complete(entries, me, o),
             \A k \in Keys : m[k] = IF k = me THEN n[k] - 1 ELSE n[k]
      PROVE  \A k \in Keys : m[k] = IF entries'[k].state = "pending" THEN 1 ELSE 0
  <2>1. entries[me].state = "pending" /\ n[me] = 1 /\ m[me] = 0
    BY <1>3
  <2>2. \A k \in Keys : entries'[k].state = IF k = me THEN "ready" ELSE entries[k].state
    BY <1>3, <2>1 DEF Complete, Entry
  <2>3. QED
    BY <1>3, <2>1, <2>2
<1>4. QED
  BY <1>1, <1>2, <1>3

LEMMA BatchOwnershipInit == BatchInit => BatchOwnership
<1> SUFFICES ASSUME BatchInit PROVE BatchOwnership
  OBVIOUS
<1>1. Ownership
  BY OwnershipInit DEF BatchInit
<1>2. ASSUME NEW k \in Keys PROVE CallOwnersOf(k) = {} /\ entries[k].state # "pending"
  <2>1. entries[k].state # "pending"
    BY DEF BatchInit, NodeInit, EmptyCache
  <2>2. QED
    BY <1>1, <2>1 DEF Ownership, SingleOwner, CallOwnersOf
<1>3. ASSUME NEW k PROVE Owing(batch, chunk, k) = {}
  BY DEF Owing, Owes, BatchInit, NoBatch
<1>4. SingleParty
  BY <1>2, <1>3, FS_EmptySet DEF SingleParty
<1>5. QED
  BY <1>1, <1>4 DEF BatchOwnership, Ownership

LEMMA BatchOwnershipStep ==
  TypedBatches /\ BatchOwnership /\ GoesOn => BatchOwnership'
<1> SUFFICES ASSUME TypedBatches, BatchOwnership, GoesOn PROVE BatchOwnership'
  OBVIOUS
<1> DEFINE calls == [k \in Keys |-> Cardinality(CallOwnersOf(k))]
           items == [k \in Keys |-> Cardinality(Owing(batch, chunk, k))]
           n == [k \in Keys |-> calls[k] + items[k]]
           m == [k \in Keys |-> Cardinality(CallOwnersOf(k)') + Cardinality(Owing(batch', chunk', k))]
<1>a. /\ NodeTypeOK /\ Control /\ PublishersOwn /\ entries \in [Keys -> Entry]
      /\ pc \in [Calls -> PCs]
  BY DEF TypedBatches, BatchOwnership, NodeTypeOK
<1>b. ASSUME NEW k \in Keys
      PROVE  /\ calls[k] \in Nat /\ items[k] \in Nat /\ n[k] = calls[k] + items[k] /\ n[k] \in Nat
             /\ n[k] = IF entries[k].state = "pending" THEN 1 ELSE 0
  <2>1. calls[k] \in Nat /\ items[k] \in Nat
    BY <1>a, CallOwnersFinite, OwingFinite
  <2>2. n[k] = IF entries[k].state = "pending" THEN 1 ELSE 0
    BY DEF BatchOwnership, SingleParty
  <2>3. QED
    BY <2>1, <2>2
<1>c. ASSUME m \in [Keys -> Nat], PublishersOwn',
             \/ entries' = entries /\ \A k \in Keys : m[k] = n[k]
             \/ \E me \in Keys :
                  /\ entries[me].state = "absent" /\ entries' = Reserve(entries, me)
                  /\ \A k \in Keys : m[k] = IF k = me THEN n[k] + 1 ELSE n[k]
             \/ \E me \in Keys : \E o :
                  /\ n[me] > 0 /\ entries' = Complete(entries, me, o)
                  /\ \A k \in Keys : m[k] = IF k = me THEN n[k] - 1 ELSE n[k]
      PROVE  BatchOwnership'
  <2>1. n \in [Keys -> Nat] /\ \A k \in Keys : n[k] = IF entries[k].state = "pending" THEN 1 ELSE 0
    <3>1. \A k \in Keys : calls[k] + items[k] \in Nat
      BY <1>b
    <3>2. QED
      BY <1>b, <3>1
  <2> HIDE DEF n
  <2>2. PICK m1 \in [Keys -> Nat] : m1 = m
    BY <1>c
  <2>3. \A k \in Keys : m1[k] = IF entries'[k].state = "pending" THEN 1 ELSE 0
    <3> HIDE DEF m
    <3>1. QED
      BY <1>a, <1>c, <2>1, <2>2, PartiesKept
  <2>4. QED
    BY <1>c, <2>2, <2>3 DEF BatchOwnership, SingleParty
(* A step of a call, an invocation or a cancellation owes no item.         *)
<1>1. ASSUME UNCHANGED batchVars, PublishersOwn',
             \/ /\ entries' = entries
                /\ \A d \in Calls, k \in Keys : Owns(d, k)' <=> Owns(d, k)
             \/ \E c \in Calls, me \in Keys :
                  /\ entries[me].state = "absent" /\ entries' = Reserve(entries, me)
                  /\ \A d \in Calls, k \in Keys : Owns(d, k)' <=> (Owns(d, k) \/ (d = c /\ k = me))
             \/ \E c \in Calls, me \in Keys :
                  /\ Owns(c, me) /\ entries' = Complete(entries, me, result[c])
                  /\ \A d \in Calls, k \in Keys : Owns(d, k)' <=> (Owns(d, k) /\ d # c)
      PROVE  BatchOwnership'
  <2>a. ASSUME NEW k \in Keys PROVE m[k] = Cardinality(CallOwnersOf(k)') + items[k]
    BY <1>1 DEF batchVars
  <2>1. CASE /\ entries' = entries
             /\ \A d \in Calls, k \in Keys : Owns(d, k)' <=> Owns(d, k)
    <3>1. \A k \in Keys : CallOwnersOf(k)' = CallOwnersOf(k)
      BY <2>1 DEF CallOwnersOf
    <3>2. \A k \in Keys : m[k] = n[k]
      BY <2>a, <3>1
    <3>3. m \in [Keys -> Nat]
      <4>1. \A k \in Keys : m[k] \in Nat
        BY <1>b, <3>2
      <4>2. QED
        BY <4>1
    <3>4. QED
      BY <1>1, <1>c, <2>1, <3>2, <3>3
  <2>2. ASSUME NEW c \in Calls, NEW me \in Keys,
               entries[me].state = "absent", entries' = Reserve(entries, me),
               \A d \in Calls, k \in Keys : Owns(d, k)' <=> (Owns(d, k) \/ (d = c /\ k = me))
        PROVE  BatchOwnership'
    <3>1. ASSUME NEW k \in Keys, k # me PROVE m[k] = n[k]
      <4>1. CallOwnersOf(k)' = CallOwnersOf(k)
        BY <2>2, <3>1 DEF CallOwnersOf
      <4>2. QED
        BY <2>a, <4>1
    <3>2. m[me] = n[me] + 1
      <4>1. n[me] = 0
        BY <1>b, <2>2
      <4>2. CallOwnersOf(me) = {}
        BY <1>b, <4>1, CallOwnersFinite, FS_EmptySet
      <4>3. c \notin CallOwnersOf(me) /\ CallOwnersOf(me)' = CallOwnersOf(me) \cup {c}
        BY <2>2, <4>2 DEF CallOwnersOf
      <4>4. Cardinality(CallOwnersOf(me)') = Cardinality(CallOwnersOf(me)) + 1
        BY <4>3, CallOwnersFinite, FS_AddElement
      <4>5. QED
        BY <1>b, <2>a, <4>4
    <3>3. \A k \in Keys : m[k] = IF k = me THEN n[k] + 1 ELSE n[k]
      BY <3>1, <3>2
    <3>4. m \in [Keys -> Nat]
      <4>1. \A k \in Keys : m[k] \in Nat
        BY <1>b, <3>1, <3>2
      <4>2. QED
        BY <4>1
    <3>5. QED
      BY <1>1, <1>c, <2>2, <3>3, <3>4
  <2>3. ASSUME NEW c \in Calls, NEW me \in Keys,
               Owns(c, me), entries' = Complete(entries, me, result[c]),
               \A d \in Calls, k \in Keys : Owns(d, k)' <=> (Owns(d, k) /\ d # c)
        PROVE  BatchOwnership'
    <3>1. ASSUME NEW k \in Keys, k # me PROVE m[k] = n[k]
      <4>1. ~Owns(c, k)
        BY <2>3, <3>1 DEF Owns
      <4>2. CallOwnersOf(k)' = CallOwnersOf(k)
        BY <2>3, <4>1 DEF CallOwnersOf
      <4>3. QED
        BY <2>a, <4>2
    <3>2. m[me] = n[me] - 1 /\ n[me] > 0
      <4>1. c \in CallOwnersOf(me) /\ CallOwnersOf(me)' = CallOwnersOf(me) \ {c}
        BY <2>3 DEF CallOwnersOf
      <4>2. Cardinality(CallOwnersOf(me)') = Cardinality(CallOwnersOf(me)) - 1
        BY <4>1, CallOwnersFinite, FS_RemoveElement
      <4>3. Cardinality(CallOwnersOf(me)) > 0
        BY <4>1, CallOwnersFinite, FS_EmptySet
      <4>4. QED
        BY <1>b, <2>a, <4>2, <4>3
    <3>3. \A k \in Keys : m[k] = IF k = me THEN n[k] - 1 ELSE n[k]
      BY <3>1, <3>2
    <3>4. m \in [Keys -> Nat]
      <4>1. \A k \in Keys : m[k] \in Nat
        BY <1>b, <3>1, <3>2
      <4>2. QED
        BY <4>1
    <3>5. QED
      BY <1>1, <1>c, <2>3, <3>2, <3>3, <3>4
  <2>4. QED
    BY <1>1, <2>1, <2>2, <2>3
<1>2. ASSUME NEW b \in Batches, BatchMove(b) PROVE BatchOwnership'
  <2>1. UNCHANGED <<pc, parent>>
    BY <1>2, <1>a, BatchOwners
  <2>2. /\ PublishersOwn'
        /\ \A d \in Calls, k \in Keys : Owns(d, k)' <=> Owns(d, k)
    BY <1>a, <2>1, OutsideOwners DEF PublishersOwn, At, Cached, Owns, InFlight, KeyOf
  <2>3. \A k \in Keys : CallOwnersOf(k)' = CallOwnersOf(k)
    BY <2>2 DEF CallOwnersOf
  <2>a. ASSUME NEW k \in Keys PROVE m[k] = calls[k] + Cardinality(Owing(batch', chunk', k))
    BY <2>3
  <2>4. CASE /\ entries' = entries
             /\ \A k \in Keys : Owing(batch', chunk', k) = Owing(batch, chunk, k)
    <3>1. \A k \in Keys : m[k] = n[k]
      BY <2>4, <2>a
    <3>2. m \in [Keys -> Nat]
      <4>1. \A k \in Keys : m[k] \in Nat
        BY <1>b, <3>1
      <4>2. QED
        BY <4>1
    <3>3. QED
      BY <1>c, <2>2, <2>4, <3>1, <3>2
  <2>5. ASSUME NEW me \in Keys, NEW i \in Nat,
               entries[me].state = "absent", entries' = Reserve(entries, me),
               <<b, i>> \notin Owing(batch, chunk, me),
               \A k \in Keys : Owing(batch', chunk', k) =
                 IF k = me THEN Owing(batch, chunk, k) \cup {<<b, i>>} ELSE Owing(batch, chunk, k)
        PROVE  BatchOwnership'
    <3>1. Cardinality(Owing(batch', chunk', me)) = Cardinality(Owing(batch, chunk, me)) + 1
      BY <1>a, <2>5, OwingFinite, FS_AddElement
    <3>2. \A k \in Keys : m[k] = IF k = me THEN n[k] + 1 ELSE n[k]
      BY <1>b, <2>5, <2>a, <3>1
    <3>3. m \in [Keys -> Nat]
      <4>1. \A k \in Keys : m[k] \in Nat
        BY <1>b, <3>2
      <4>2. QED
        BY <4>1
    <3>4. QED
      BY <1>c, <2>2, <2>5, <3>2, <3>3
  <2>6. ASSUME NEW me \in Keys, NEW i \in Nat, NEW o \in Outcomes,
               <<b, i>> \in Owing(batch, chunk, me), entries' = Complete(entries, me, o),
               \A k \in Keys : Owing(batch', chunk', k) =
                 IF k = me THEN Owing(batch, chunk, k) \ {<<b, i>>} ELSE Owing(batch, chunk, k)
        PROVE  BatchOwnership'
    <3>1. /\ Cardinality(Owing(batch', chunk', me)) = Cardinality(Owing(batch, chunk, me)) - 1
          /\ Cardinality(Owing(batch, chunk, me)) > 0
      <4>1. PICK owed : owed = Owing(batch, chunk, me)
        OBVIOUS
      <4>2. IsFiniteSet(owed) /\ Cardinality(owed) \in Nat /\ <<b, i>> \in owed
        BY <1>a, <2>6, <4>1, OwingFinite
      <4>3. Cardinality(owed \ {<<b, i>>}) = Cardinality(owed) - 1
        BY <4>2, FS_RemoveElement
      <4>4. Cardinality(owed) # 0
        BY <4>2, FS_EmptySet
      <4>5. QED
        BY <2>6, <4>1, <4>2, <4>3, <4>4
    <3>2. n[me] > 0
      BY <1>b, <3>1
    <3>3. \A k \in Keys : m[k] = IF k = me THEN n[k] - 1 ELSE n[k]
      BY <1>b, <2>6, <2>a, <3>1
    <3>4. m \in [Keys -> Nat]
      <4>1. \A k \in Keys : m[k] \in Nat
        BY <1>b, <3>2, <3>3
      <4>2. QED
        BY <4>1
    <3>5. QED
      BY <1>c, <2>2, <2>6, <3>2, <3>3, <3>4
  <2>7. QED
    <3> HIDE DEF n, m, calls, items
    <3>1. \/ /\ entries' = entries
             /\ \A k \in Keys : Owing(batch', chunk', k) = Owing(batch, chunk, k)
          \/ \E me \in Keys, i \in Nat :
               /\ entries[me].state = "absent" /\ entries' = Reserve(entries, me)
               /\ <<b, i>> \notin Owing(batch, chunk, me)
               /\ \A k \in Keys : Owing(batch', chunk', k) =
                    IF k = me THEN Owing(batch, chunk, k) \cup {<<b, i>>}
                    ELSE Owing(batch, chunk, k)
          \/ \E me \in Keys, i \in Nat, o \in Outcomes :
               /\ <<b, i>> \in Owing(batch, chunk, me) /\ entries' = Complete(entries, me, o)
               /\ \A k \in Keys : Owing(batch', chunk', k) =
                    IF k = me THEN Owing(batch, chunk, k) \ {<<b, i>>}
                    ELSE Owing(batch, chunk, k)
      BY <1>2, <1>a, BatchOwners
    <3>2. QED
      BY <2>4, <2>5, <2>6, <3>1
<1>3. ASSUME NEW c \in Calls, CallStep(c), UNCHANGED batchVars PROVE BatchOwnership'
  <2>1. /\ PublishersOwn'
        /\ \/ /\ entries' = entries
              /\ \A d \in Calls, k \in Keys : Owns(d, k)' <=> Owns(d, k)
           \/ \E me \in Keys :
                /\ entries[me].state = "absent" /\ entries' = Reserve(entries, me)
                /\ \A d \in Calls, k \in Keys : Owns(d, k)' <=> (Owns(d, k) \/ (d = c /\ k = me))
           \/ \E me \in Keys :
                /\ Owns(c, me) /\ entries' = Complete(entries, me, result[c])
                /\ \A d \in Calls, k \in Keys : Owns(d, k)' <=> (Owns(d, k) /\ d # c)
    BY <1>3, <1>a, CallOwners
  <2>2. QED
    BY <1>1, <1>3, <2>1
<1>4. ASSUME \/ \E c \in Calls, p \in Parents, x \in SUBSET Ctxs : Invoke(c, p, x)
             \/ \E x \in Ctxs : Cancel(x)
             \/ UNCHANGED nodeVars,
             UNCHANGED batchVars
      PROVE  BatchOwnership'
  <2>1. /\ PublishersOwn' /\ entries' = entries
        /\ \A d \in Calls, k \in Keys : Owns(d, k)' <=> Owns(d, k)
    BY <1>4, <1>a, OutsideOwners DEF nodeVars
  <2>2. QED
    BY <1>1, <1>4, <2>1
<1>5. QED
  BY <1>2, <1>3, <1>4 DEF GoesOn, Outside

LEMMA PublishedIsPassed ==
  ASSUME Control, NEW b \in Batches, NEW n, n = Len(batch[b].owners), NEW p \in 1..n,
         NEW i, i = batch[b].owners[p]
  PROVE  Published(b, i) <=> Passed(b, n, chunk[b], p)
<1> DEFINE s == batch[b].owners
<1>1. /\ s \in Seq(Nat) /\ n \in Nat /\ \A l, k \in 1..n : l < k => s[l] < s[k]
      /\ DOMAIN chunk[b] = 1..Len(chunk[b])
  BY LenProperties DEF Control, BatchesTyped, BatchLocals, Fits, SortingFits
<1>2. ASSUME NEW k \in 1..n, s[k] = s[p] PROVE k = p
  <2>1. s[k] \in Nat /\ s[p] \in Nat
    BY <1>1, ElementOfSeq
  <2>2. QED
    BY <1>1, <1>2, <2>1
<1>3. ASSUME NEW j \in DOMAIN chunk[b], NEW span, span = Span(b, n, j), NEW start,
             start = Start(b, n, j), NEW next, next = chunk[b][j].next
      PROVE  /\ start \in Nat /\ span \in Nat /\ start + span <= n /\ next \in 1..(span + 1)
             /\ DOMAIN ChunkItems(b, j) = 1..span
             /\ \A m \in 1..span : ChunkItems(b, j)[m] = s[start + m]
  <2>1. ChunkFits(b, batch[b], j, chunk[b][j])
    BY ChunkFacts
  <2>2. next \in 1..(span + 1)
    BY <1>3, <2>1 DEF ChunkFits
  <2>3. QED
    BY <1>3, <2>2, ChunkFacts
<1>4. ASSUME Published(b, i) PROVE Passed(b, n, chunk[b], p)
  <2>1. PICK j \in DOMAIN chunk[b] : \E m \in DOMAIN ChunkItems(b, j) :
               ChunkItems(b, j)[m] = i /\ m < chunk[b][j].next
    BY <1>4 DEF Published
  <2>2. PICK span, start, next :
          span = Span(b, n, j) /\ start = Start(b, n, j) /\ next = chunk[b][j].next
    OBVIOUS
  <2>3. PICK m \in 1..span : ChunkItems(b, j)[m] = i /\ m < next
    BY <1>3, <2>1, <2>2
  <2>4. start \in Nat /\ span \in Nat /\ next \in Nat /\ start + m \in 1..n /\ s[start + m] = s[p]
    <3>1. /\ start \in Nat /\ span \in Nat /\ start + span <= n /\ next \in 1..(span + 1)
          /\ ChunkItems(b, j)[m] = s[start + m]
      BY <1>3, <2>2
    <3>2. i = s[p]
      OBVIOUS
    <3>3. next \in Nat /\ start + m \in 1..n
      BY <1>1, <3>1
    <3>4. s[start + m] = s[p]
      BY <2>3, <3>1, <3>2
    <3>5. QED
      BY <3>1, <3>3, <3>4
  <2>5. start + m = p
    BY <1>2, <2>4
  <2>6. start < p /\ p < start + next
    BY <2>3, <2>4, <2>5
  <2>7. QED
    BY <1>1, <2>2, <2>6 DEF Passed
<1>5. ASSUME Passed(b, n, chunk[b], p) PROVE Published(b, i)
  <2>1. PICK j \in DOMAIN chunk[b] : Start(b, n, j) < p /\ p < Start(b, n, j) + chunk[b][j].next
    BY <1>1, <1>5 DEF Passed
  <2>2. PICK span, start, next :
          span = Span(b, n, j) /\ start = Start(b, n, j) /\ next = chunk[b][j].next
    OBVIOUS
  <2>3. /\ start \in Nat /\ span \in Nat /\ start + span <= n /\ next \in 1..(span + 1)
        /\ DOMAIN ChunkItems(b, j) = 1..span
        /\ \A m \in 1..span : ChunkItems(b, j)[m] = s[start + m]
    BY <1>3, <2>2
  <2>4. p - start \in 1..span /\ p - start < next /\ start + (p - start) = p
    <3>1. start < p /\ p < start + next
      BY <2>1, <2>2
    <3>2. start \in Nat /\ span \in Nat /\ next \in Nat /\ next <= span + 1 /\ p \in Nat
      BY <1>1, <2>3
    <3>3. QED
      BY <3>1, <3>2
  <2>a. PICK m \in 1..span : m < next /\ start + m = p
    BY <2>4
  <2>5. ChunkItems(b, j)[m] = i
    <3>1. ChunkItems(b, j)[m] = s[start + m] /\ i = s[p]
      BY <2>3
    <3> HIDE DEF s
    <3>2. QED
      BY <2>a, <3>1
  <2>6. QED
    BY <2>2, <2>3, <2>a, <2>5 DEF Published
<1>6. QED
  BY <1>4, <1>5

LEMMA ItemsOwningIsOwing ==
  ASSUME Control, NEW k
  PROVE  ItemsOwning(k) = Owing(batch, chunk, k)
<1>1. ASSUME NEW b \in Batches, NEW i
      PROVE  (/\ i \in DOMAIN batch[b].items
              /\ batch[b].pc \in {"classify", "launch"} /\ BatchCached(b)
              /\ \E m \in DOMAIN batch[b].owners : batch[b].owners[m] = i
              /\ ItemKey(b, i) = k /\ ~Published(b, i))
             <=> (i \in Nat /\ Owes(b, batch[b], chunk[b], i) /\ KeyAt(b, batch[b], i) = k)
  <2> DEFINE s == batch[b].owners
  <2>1. PICK n : n = Len(s)
    OBVIOUS
  <2>2. /\ DOMAIN s = 1..n /\ DOMAIN batch[b].items = 1..Len(batch[b].items)
        /\ Len(batch[b].items) \in Nat /\ batch[b].next \in Nat /\ SortingFits(batch[b])
    BY <2>1, LenProperties DEF Control, BatchesTyped, BatchLocals, Fits
  <2>3. ASSUME NEW m \in 1..n PROVE s[m] \in DOMAIN batch[b].items /\ s[m] \in Nat
    <3>1. s[m] \in 1..Seen(batch[b])
      BY <2>1, <2>2 DEF SortingFits
    <3>2. Seen(batch[b]) \in Nat /\ Seen(batch[b]) <= Len(batch[b].items)
      BY <2>2 DEF SortingFits, Seen
    <3>3. QED
      BY <2>2, <3>1, <3>2
  <2>4. \A m \in 1..n : s[m] = i => (Published(b, i) <=> Passed(b, n, chunk[b], m))
    BY <2>1, PublishedIsPassed
  <2>5. ItemKey(b, i) = KeyAt(b, batch[b], i)
    BY DEF ItemKey, KeyAt
  <2>6. QED
    BY <2>1, <2>2, <2>3, <2>4, <2>5 DEF Owes
<1>2. ASSUME NEW x PROVE x \in ItemsOwning(k) <=> x \in Owing(batch, chunk, k)
  <2>1. x \in ItemsOwning(k) <=>
          \E b \in Batches : \E i \in DOMAIN batch[b].items :
            /\ x = <<b, i>>
            /\ batch[b].pc \in {"classify", "launch"} /\ BatchCached(b)
            /\ \E m \in DOMAIN batch[b].owners : batch[b].owners[m] = i
            /\ ItemKey(b, i) = k /\ ~Published(b, i)
    BY DEF ItemsOwning
  <2>2. x \in Owing(batch, chunk, k) <=>
          \E b \in Batches : \E i \in Nat :
            x = <<b, i>> /\ Owes(b, batch[b], chunk[b], i) /\ KeyAt(b, batch[b], i) = k
    BY DEF Owing
  <2>3. QED
    BY <1>1, <2>1, <2>2
<1>3. QED
  BY <1>2

LEMMA OwnershipGivesOneOwner == TypedBatches /\ BatchOwnership => OneOwnerPerKey
BY ItemsOwningIsOwing
DEF TypedBatches, BatchOwnership, SingleParty, OneOwnerPerKey, CallOwnersOf

(* Single flight with batches: whatever calls and batches share an entry,  *)
(* exactly one of them, a call or one item of one batch, will publish it   *)
(* while it is pending, and none owes an entry that is not: nobody waits   *)
(* for an entry that nobody will fill.                                     *)
THEOREM OnePartyOwns == BatchSpec => []OneOwnerPerKey
<1>1. BatchInit => BatchOwnership
  BY BatchOwnershipInit
<1>2. TypedBatches /\ BatchOwnership /\ [BatchNext]_allBatchVars => BatchOwnership'
  BY BatchOwnershipStep, BatchNextGoesOn
<1>3. QED
  BY <1>1, <1>2, OwnershipGivesOneOwner, TypedBatchesKept, PTL DEF BatchSpec

-----------------------------------------------------------------------------
(***************************************************************************)
(* The accounting of items.  The debt of a node's counters is what it was  *)
(* asked for and has not yet counted as a hit, a miss or a wait; Debt says *)
(* that from the counters b to a it has grown by d.                        *)
(***************************************************************************)
Debt(a, b, d) ==
  /\ a.batches = b.batches
  /\ a.calls + (b.hits + b.misses + b.waits) = b.calls + (a.hits + a.misses + a.waits) + d

LEMMA DebtSum ==
  ASSUME NEW a \in Counter, NEW b \in Counter, NEW c \in Counter, NEW d \in Int, NEW e \in Int,
         Debt(a, b, d), Debt(b, c, e)
  PROVE  Debt(a, c, d + e)
<1>1. /\ a.calls \in Nat /\ a.hits \in Nat /\ a.misses \in Nat /\ a.waits \in Nat
      /\ b.calls \in Nat /\ b.hits \in Nat /\ b.misses \in Nat /\ b.waits \in Nat
      /\ c.calls \in Nat /\ c.hits \in Nat /\ c.misses \in Nat /\ c.waits \in Nat
  BY DEF Counter
<1>2. QED
  BY <1>1 DEF Debt

LEMMA DebtPaid ==
  ASSUME NEW a \in Counter, NEW b \in Counter, NEW left \in Nat, NEW d \in Int, NEW more,
         Debt(a, b, d), b.calls = b.hits + b.misses + b.waits + left, more = left + d
  PROVE  a.calls = a.hits + a.misses + a.waits + more
<1> DEFINE c == a.calls  h == a.hits  m == a.misses  w == a.waits
           bc == b.calls  bh == b.hits  bm == b.misses  bw == b.waits
<1>1. /\ c \in Nat /\ h \in Nat /\ m \in Nat /\ w \in Nat
      /\ bc \in Nat /\ bh \in Nat /\ bm \in Nat /\ bw \in Nat
  BY DEF Counter
<1>2. c + (bh + bm + bw) = bc + (h + m + w) + d /\ bc = bh + bm + bw + left
  BY DEF Debt
<1> HIDE DEF c, h, m, w, bc, bh, bm, bw
<1>3. c = h + m + w + more
  BY <1>1, <1>2
<1>4. QED
  BY <1>3 DEF c, h, m, w

LEMMA RuntimeDebts ==
  ASSUME NEW r \in [Nodes -> Counter], NEW n \in Nodes, NEW k \in Nat, NEW m \in Nodes
  PROVE  /\ Debt(AddLogicalCalls(r, n, k)[m], r[m], IF m = n THEN k ELSE 0)
         /\ Debt(AddRowsOut(r, n, k)[m], r[m], 0)
         /\ Debt(CacheHit(r, n)[m], r[m], IF m = n THEN -1 ELSE 0)
         /\ Debt(CacheMiss(r, n)[m], r[m], IF m = n THEN -1 ELSE 0)
         /\ Debt(CacheWait(r, n)[m], r[m], IF m = n THEN -1 ELSE 0)
         /\ Debt(BeginPhysical(r, n)[m], r[m], 0)
         /\ Debt(EndPhysical(r, n)[m], r[m], 0)
<1>1. r[n] \in Counter /\ r[m] \in Counter
  OBVIOUS
<1> USE <1>1 DEF Counter, Debt
<1>2. Debt(AddLogicalCalls(r, n, k)[m], r[m], IF m = n THEN k ELSE 0)
  BY DEF AddLogicalCalls
<1>3. Debt(AddRowsOut(r, n, k)[m], r[m], 0)
  BY DEF AddRowsOut
<1>4. Debt(CacheHit(r, n)[m], r[m], IF m = n THEN -1 ELSE 0)
  BY DEF CacheHit
<1>5. Debt(CacheMiss(r, n)[m], r[m], IF m = n THEN -1 ELSE 0)
  BY DEF CacheMiss
<1>6. Debt(CacheWait(r, n)[m], r[m], IF m = n THEN -1 ELSE 0)
  BY DEF CacheWait
<1>7. Debt(BeginPhysical(r, n)[m], r[m], 0)
  BY DEF BeginPhysical
<1>8. Debt(EndPhysical(r, n)[m], r[m], 0)
  BY DEF EndPhysical
<1>9. QED
  BY <1>2, <1>3, <1>4, <1>5, <1>6, <1>7, <1>8

LEMMA NoDebt ==
  ASSUME NEW a \in Counter
  PROVE  Debt(a, a, 0)
  BY DEF Debt, Counter

(* A call of a node with a cache is settled by the step that counts it.    *)
LEMMA ReturnDebts ==
  ASSUME NEW c \in Calls, NEW o \in Outcomes, NEW r \in [Nodes -> Counter], Return(c, o, r),
         NEW m \in Nodes
  PROVE  Debt(rt'[m], r[m], 0)
<1>1. NodeOf[c] \in Nodes /\ CountRowsOut(NodeOf[c], o.val) \in Nat
  BY CallsAssumption, RowsTyped DEF Outcomes
<1>2. CASE o.err = "none"
  BY <1>1, <1>2, RuntimeDebts DEF Return
<1>3. CASE o.err # "none"
  BY <1>3, NoDebt DEF Return
<1>4. QED
  BY <1>2, <1>3

LEMMA CallDebts ==
  ASSUME NodeTypeOK, NodeTypeOK', NEW c \in Calls, CallStep(c), NEW m \in Nodes
  PROVE  /\ rt'[m].batches = rt[m].batches
         /\ ShouldUseNodeCache(m) => Debt(rt'[m], rt[m], 0)
<1> DEFINE n == NodeOf[c]
           asked == AddLogicalCalls(rt, n, 1)
<1>a. /\ rt \in [Nodes -> Counter] /\ rt' \in [Nodes -> Counter] /\ n \in Nodes /\ KeyOf(c) \in Keys
      /\ result[c] \in Outcomes /\ entries[KeyOf(c)].out \in Outcomes
      /\ \A e \in {"no field spec", "canceled"} : Outcome(Nil, e) \in Outcomes
  BY KeyTyped, CallsAssumption, ValuesAssumption
  DEF NodeTypeOK, Entry, Outcome, Outcomes, Errors
<1>b. asked \in [Nodes -> Counter] /\ Debt(asked[m], rt[m], IF m = n THEN 1 ELSE 0)
  BY <1>a, RuntimeTyped, RuntimeDebts
<1>c. ASSUME NEW r \in [Nodes -> Counter], Debt(r[m], asked[m], IF m = n THEN -1 ELSE 0)
      PROVE  Debt(r[m], rt[m], 0)
  <2>1. r[m] \in Counter /\ asked[m] \in Counter /\ rt[m] \in Counter
    BY <1>a, <1>b
  <2>2. CASE m = n
    BY <1>b, <1>c, <2>1, <2>2, DebtSum
  <2>3. CASE m # n
    BY <1>b, <1>c, <2>1, <2>3, DebtSum
  <2>4. QED
    BY <2>2, <2>3
<1>d. Debt(rt'[m], rt[m], 0) => rt'[m].batches = rt[m].batches
  BY DEF Debt
<1>e. rt'[m] \in Counter /\ rt[m] \in Counter
  BY <1>a
<1>1. CASE EnterUnknown(c)
  BY <1>1, <1>a, <1>d, ReturnDebts DEF EnterUnknown
<1>2. CASE EnterUncached(c)
  <2>1. rt' = asked /\ ~ShouldUseNodeCache(n)
    BY <1>2 DEF EnterUncached, Cached
  <2>2. rt'[m].batches = rt[m].batches
    BY <1>b, <2>1 DEF Debt
  <2>3. m # n => Debt(rt'[m], rt[m], 0)
    BY <1>b, <2>1
  <2>4. QED
    BY <2>1, <2>2, <2>3
<1>3. CASE EnterHit(c)
  <2> DEFINE r == CacheHit(asked, n)
  <2>1. r \in [Nodes -> Counter] /\ Debt(r[m], asked[m], IF m = n THEN -1 ELSE 0)
    BY <1>a, <1>b, RuntimeTyped, RuntimeDebts
  <2>2. Return(c, entries[KeyOf(c)].out, r)
    BY <1>3 DEF EnterHit
  <2> HIDE DEF r
  <2>3. Debt(r[m], rt[m], 0) /\ Debt(rt'[m], r[m], 0)
    BY <1>a, <1>c, <2>1, <2>2, ReturnDebts
  <2>4. rt'[m] \in Counter /\ r[m] \in Counter /\ rt[m] \in Counter
    BY <1>e, <2>1
  <2>z. 0 \in Int /\ 0 + 0 = 0
    OBVIOUS
  <2>5. Debt(rt'[m], rt[m], 0 + 0)
    BY <2>3, <2>4, <2>z, DebtSum
  <2>6. QED
    BY <1>d, <2>z, <2>5
<1>4. CASE EnterWait(c)
  BY <1>4, <1>a, <1>b, <1>c, <1>d, RuntimeDebts DEF EnterWait
<1>5. CASE EnterMiss(c)
  BY <1>5, <1>a, <1>b, <1>c, <1>d, RuntimeDebts DEF EnterMiss
<1>6. CASE AcquireGate(c)
  BY <1>6, <1>a, <1>d, RuntimeDebts DEF AcquireGate
<1>7. CASE ResolverReturns(c)
  <2> DEFINE r == EndPhysical(rt, n)
  <2>1. PICK o \in DirectOutcomes(n, parent[c], ctx[c]) : rt' = r \/ Return(c, o, r)
    BY <1>7 DEF ResolverReturns
  <2>2. o \in Outcomes
    BY <1>a, <2>1, OutcomesTyped DEF NodeTypeOK
  <2>3. r \in [Nodes -> Counter] /\ Debt(r[m], rt[m], 0)
    BY <1>a, RuntimeTyped, RuntimeDebts
  <2> HIDE DEF r
  <2>4. rt'[m] \in Counter /\ r[m] \in Counter /\ rt[m] \in Counter
    BY <1>e, <2>3
  <2>z. 0 \in Int /\ 0 + 0 = 0
    OBVIOUS
  <2>5. Debt(rt'[m], r[m], 0)
    BY <2>1, <2>2, <2>3, <2>4, ReturnDebts, NoDebt
  <2>6. Debt(rt'[m], rt[m], 0 + 0)
    BY <2>3, <2>4, <2>5, <2>z, DebtSum
  <2>7. QED
    BY <1>d, <2>z, <2>6
<1>8. CASE CompleteEntry(c) \/ WaitReady(c) \/ WaitCancelled(c)
  BY <1>8, <1>a, <1>d, ReturnDebts DEF CompleteEntry, WaitReady, WaitCancelled
<1>9. QED
  BY <1>1, <1>2, <1>3, <1>4, <1>5, <1>6, <1>7, <1>8 DEF CallStep, Enter

(* The items of the batches of node n that their loop has not come to.     *)
Unsorted(bs, n) ==
  {x \in Batches \X Nat : /\ ChildOf[x[1]] = n /\ bs[x[1]].pc = "classify"
                          /\ bs[x[1]].next <= x[2] /\ x[2] <= Len(bs[x[1]].items)}

LEMMA UnsortedFinite ==
  ASSUME Control, NEW n
  PROVE  IsFiniteSet(Unsorted(batch, n)) /\ Cardinality(Unsorted(batch, n)) \in Nat
<1> DEFINE f == [b \in Batches |-> Len(batch[b].items)]
<1>1. ASSUME NEW b \in Batches PROVE Len(batch[b].items) \in Nat /\ batch[b].next \in Nat /\ batch[b].next >= 1
  BY LenProperties DEF Control, BatchesTyped, BatchLocals, Fits, SortingFits
<1>2. f \in [Batches -> Nat]
  BY <1>1
<1>3. ASSUME NEW x \in Unsorted(batch, n) PROVE x \in Batches \X Nat /\ x[2] \in 1..f[x[1]]
  <2>1. /\ x \in Batches \X Nat /\ x[1] \in Batches /\ x[2] \in Nat
        /\ batch[x[1]].next <= x[2] /\ x[2] <= Len(batch[x[1]].items)
    BY <1>3 DEF Unsorted
  <2>2. QED
    BY <1>1, <2>1
<1> HIDE DEF f
<1>4. QED
  BY <1>2, <1>3, PairsFinite

LEMMA UnsortedSame ==
  ASSUME NEW b \in Batches, NEW q, BatchBecomes(b, q), NEW n,
         ChildOf[b] # n \/ (batch[b].pc # "classify" /\ q.pc # "classify")
  PROVE  Unsorted(batch', n) = Unsorted(batch, n)
<1>1. ASSUME NEW x \in Batches \X Nat PROVE x \in Unsorted(batch', n) <=> x \in Unsorted(batch, n)
  <2>1. CASE x[1] = b
    BY <2>1 DEF Unsorted, BatchBecomes
  <2>2. CASE x[1] # b
    BY <2>2 DEF Unsorted, BatchBecomes
  <2>3. QED
    BY <2>1, <2>2
<1>2. QED
  BY <1>1 DEF Unsorted

LEMMA UnsortedTurned ==
  ASSUME Control, NEW b \in Batches, NEW q, Turned(b, q), NEW n, n = ChildOf[b]
  PROVE  Cardinality(Unsorted(batch', n)) = Cardinality(Unsorted(batch, n)) - 1
<1>1. PICK i \in Nat, len \in Nat :
        i = batch[b].next /\ len = Len(batch[b].items) /\ i \in 1..len
  <2>1. batch[b] \in BatchLocals /\ batch[b].next \in 1..Len(batch[b].items)
    BY ItemFacts DEF Turned
  <2>2. Len(batch[b].items) \in Nat
    BY <2>1, LenProperties DEF BatchLocals
  <2>3. QED
    BY <2>1, <2>2
<1> DEFINE at == <<b, i>>
<1>2. /\ BatchBecomes(b, q) /\ batch[b].pc = "classify" /\ q.next = i + 1
      /\ q.pc = (IF i = len THEN "launch" ELSE "classify") /\ Len(q.items) = len
  BY <1>1 DEF Turned
<1>3. ASSUME NEW x \in Batches \X Nat
      PROVE  x \in Unsorted(batch', n) <=> (x \in Unsorted(batch, n) /\ x # at)
  <2>1. CASE x[1] = b
    <3>1. x \in Unsorted(batch, n) <=> i <= x[2] /\ x[2] <= len
      BY <1>1, <1>2, <2>1 DEF Unsorted
    <3>2. x \in Unsorted(batch', n) <=> q.pc = "classify" /\ i + 1 <= x[2] /\ x[2] <= len
      BY <1>2, <2>1 DEF Unsorted, BatchBecomes
    <3>3. x[2] \in Nat /\ (x = at <=> x[2] = i)
      BY <2>1
    <3>4. QED
      BY <1>1, <1>2, <3>1, <3>2, <3>3
  <2>2. CASE x[1] # b
    BY <1>2, <2>2 DEF Unsorted, BatchBecomes
  <2>3. QED
    BY <2>1, <2>2
<1>4. at \in Unsorted(batch, n) /\ Unsorted(batch', n) = Unsorted(batch, n) \ {at}
  <2>1. at \in Unsorted(batch, n)
    BY <1>1, <1>2 DEF Unsorted
  <2>2. Unsorted(batch', n) \subseteq Batches \X Nat /\ Unsorted(batch, n) \subseteq Batches \X Nat
    BY DEF Unsorted
  <2> HIDE DEF at
  <2>3. QED
    BY <1>3, <2>1, <2>2
<1> HIDE DEF at
<1>5. PICK before : before = Unsorted(batch, n)
  OBVIOUS
<1>6. IsFiniteSet(before) /\ at \in before
  BY <1>4, <1>5, UnsortedFinite
<1>7. Cardinality(before \ {at}) = Cardinality(before) - 1
  BY <1>6, FS_RemoveElement
<1>8. QED
  BY <1>4, <1>5, <1>7

LEMMA UnsortedInvoked ==
  ASSUME Control, NEW b \in Batches, NEW items \in Seq(Parents), NEW x \in SUBSET Ctxs,
         InvokeBatch(b, items, x), NEW n, n = ChildOf[b]
  PROVE  Cardinality(Unsorted(batch', n)) = Cardinality(Unsorted(batch, n)) + Len(items)
<1>1. PICK len \in Nat : len = Len(items) /\ (items = <<>> <=> len = 0)
  <2>1. items \in Seq(Parents)
    BY BatchesAssumption
  <2>2. QED
    BY <2>1, EmptySeq
<1>2. BatchesTyped /\ Fits(b, batch[b], chunk[b]) /\ batch[b].pc = "idle"
  BY DEF Control, InvokeBatch, BatchAt
<1>3. PICK q \in BatchLocals :
        /\ BatchBecomes(b, q) /\ q.pc = IF items = <<>> THEN "returned" ELSE "classify"
        /\ q.items = items /\ q.next = batch[b].next
  BY <1>2, InvokeEffect
<1>4. q.next = 1 /\ Len(q.items) = len
  BY <1>1, <1>2, <1>3 DEF Fits
<1> DEFINE mine == {b} \X (1..len)
<1>5. ASSUME NEW y \in Batches \X Nat
      PROVE  /\ y \in Unsorted(batch', n) <=> (y \in Unsorted(batch, n) \/ y \in mine)
             /\ ~(y \in Unsorted(batch, n) /\ y \in mine)
  <2>1. CASE y[1] = b
    <3>1. y \notin Unsorted(batch, n)
      BY <1>2, <2>1 DEF Unsorted
    <3>2. y \in Unsorted(batch', n) <=> q.pc = "classify" /\ 1 <= y[2] /\ y[2] <= len
      BY <1>3, <1>4, <2>1 DEF Unsorted, BatchBecomes
    <3>3. y[2] \in Nat /\ (y \in mine <=> y[2] \in 1..len)
      BY <2>1
    <3>4. QED
      BY <1>1, <1>3, <3>1, <3>2, <3>3
  <2>2. CASE y[1] # b
    BY <1>3, <2>2 DEF Unsorted, BatchBecomes
  <2>3. QED
    BY <2>1, <2>2
<1>6. /\ Unsorted(batch', n) = Unsorted(batch, n) \cup mine
      /\ Unsorted(batch, n) \cap mine = {}
  <2>1. /\ Unsorted(batch', n) \subseteq Batches \X Nat /\ Unsorted(batch, n) \subseteq Batches \X Nat
        /\ mine \subseteq Batches \X Nat
    BY DEF Unsorted
  <2> HIDE DEF mine
  <2>2. QED
    BY <1>5, <2>1
<1>7. IsFiniteSet(mine) /\ Cardinality(mine) = len
  <2>1. PICK k \in Int : k = len
    BY <1>1
  <2>2. IsFiniteSet(1..k) /\ Cardinality(1..k) = len
    <3>1. IsFiniteSet(1..k) /\ Cardinality(1..k) = IF 1 > k THEN 0 ELSE k - 1 + 1
      BY FS_Interval
    <3>2. QED
      BY <1>1, <2>1, <3>1
  <2>3. IsFiniteSet({b}) /\ Cardinality({b}) = 1
    BY FS_Singleton
  <2>4. IsFiniteSet(mine) /\ Cardinality(mine) = 1 * len
    BY <2>1, <2>2, <2>3, FS_Product
  <2>5. QED
    BY <1>1, <2>4
<1> HIDE DEF mine
<1>8. Cardinality(Unsorted(batch, n) \cup mine)
        = Cardinality(Unsorted(batch, n)) + Cardinality(mine) - Cardinality(Unsorted(batch, n) \cap mine)
  BY <1>7, UnsortedFinite, FS_Union
<1>9. Cardinality(Unsorted(batch, n) \cap mine) = 0 /\ Cardinality(Unsorted(batch, n)) \in Nat
  BY <1>6, FS_EmptySet, UnsortedFinite
<1>10. QED
  BY <1>1, <1>6, <1>7, <1>8, <1>9

(* The chunks that have begun, and the books of a node.                    *)
Begun == ChunkPCs \ {"gate"}

ItemBooks(n) ==
  /\ rt[n].batches = Cardinality(Placed(chunk, {n}, Begun))
  /\ ShouldUseNodeCache(n) =>
       rt[n].calls = rt[n].hits + rt[n].misses + rt[n].waits + Cardinality(Unsorted(batch, n))

LEMMA RowsOfDebt ==
  ASSUME NEW r \in [Nodes -> Counter], NEW b \in Batches, NEW v \in Values, NEW m \in Nodes
  PROVE  Debt(RowsOf(r, b, v)[m], r[m], 0)
<1>1. ChildOf[b] \in Nodes /\ CountRowsOut(ChildOf[b], v) \in Nat
  BY BatchesAssumption, RowsTyped
<1>2. QED
  BY <1>1, RuntimeDebts DEF RowsOf

LEMMA BeginBatchDebt ==
  ASSUME NEW r \in [Nodes -> Counter], NEW n \in Nodes, NEW m \in Nodes
  PROVE  LET a == BeginBatchPhysical(r, n)[m] IN
           /\ a.batches = IF m = n THEN r[m].batches + 1 ELSE r[m].batches
           /\ a.calls = r[m].calls /\ a.hits = r[m].hits
           /\ a.misses = r[m].misses /\ a.waits = r[m].waits
<1>1. r[m] \in Counter /\ r[n] \in Counter
  OBVIOUS
<1>2. PICK r1 \in [Nodes -> Counter] : r1 = BeginPhysical(r, n)
  BY RuntimeTyped
<1>3. /\ r1[m].batches = r[m].batches /\ r1[m].calls = r[m].calls /\ r1[m].hits = r[m].hits
      /\ r1[m].misses = r[m].misses /\ r1[m].waits = r[m].waits
  BY <1>1, <1>2 DEF BeginPhysical, Counter
<1>4. BeginBatchPhysical(r, n) = [r1 EXCEPT ![n].batches = @ + 1]
  BY <1>2 DEF BeginBatchPhysical
<1>5. QED
  BY <1>3, <1>4 DEF Counter

(* What b's step does to the chunks begun and to the items unsorted.       *)
LEMMA BatchBooks ==
  ASSUME TypedBatches, NodeTypeOK', NEW b \in Batches, BatchMove(b), NEW n \in Nodes, ItemBooks(n)
  PROVE  ItemBooks(n)'
<1> DEFINE begun == Cardinality(Placed(chunk, {n}, Begun))
           left == Cardinality(Unsorted(batch, n))
<1>a. /\ NodeTypeOK /\ Control /\ BatchesTyped /\ ChildOf[b] \in Nodes /\ batch[b] \in BatchLocals
      /\ rt \in [Nodes -> Counter] /\ rt' \in [Nodes -> Counter] /\ rt[n] \in Counter
      /\ rt'[n] \in Counter /\ (BatchBecomes(b, batch[b]) \/ batch' # batch)
  BY ItemFacts DEF TypedBatches, Control, NodeTypeOK, BatchesTyped, BatchBecomes
<1>b. begun \in Nat /\ left \in Nat
  BY <1>a, PlacedFinite, UnsortedFinite
<1>c. ASSUME NEW d \in Int, rt'[n].batches = rt[n].batches,
             ShouldUseNodeCache(n) => Debt(rt'[n], rt[n], d),
             Cardinality(Placed(chunk', {n}, Begun)) = begun,
             ShouldUseNodeCache(n) => Cardinality(Unsorted(batch', n)) = left + d
      PROVE  ItemBooks(n)'
  <2>1. rt'[n].batches = Cardinality(Placed(chunk', {n}, Begun))
    BY <1>c DEF ItemBooks
  <2>2. ASSUME ShouldUseNodeCache(n)
        PROVE  rt'[n].calls = rt'[n].hits + rt'[n].misses + rt'[n].waits
                                + Cardinality(Unsorted(batch', n))
    <3>1. PICK p \in Counter, q \in Counter : p = rt'[n] /\ q = rt[n]
      BY <1>a
    <3>2. PICK more : more = Cardinality(Unsorted(batch', n))
      OBVIOUS
    <3>3. q.calls = q.hits + q.misses + q.waits + left /\ Debt(p, q, d) /\ more = left + d
      BY <1>c, <2>2, <3>1, <3>2 DEF ItemBooks
    <3> HIDE DEF left
    <3>4. p.calls = p.hits + p.misses + p.waits + more
      BY <1>b, <3>3, DebtPaid
    <3>5. QED
      BY <3>1, <3>2, <3>4
  <2>3. QED
    BY <2>1, <2>2 DEF ItemBooks
(* Nothing is sorted and no chunk begins.                                  *)
<1>d. ASSUME Debt(rt'[n], rt[n], 0), Cardinality(Placed(chunk', {n}, Begun)) = begun,
             Unsorted(batch', n) = Unsorted(batch, n)
      PROVE  ItemBooks(n)'
  <2>1. rt'[n].batches = rt[n].batches
    BY <1>d DEF Debt
  <2>2. Cardinality(Unsorted(batch', n)) = left + 0
    BY <1>b, <1>d
  <2>3. 0 \in Int
    OBVIOUS
  <2> HIDE DEF begun, left
  <2>4. QED
    BY <1>c, <1>d, <2>1, <2>2, <2>3
<1>e. Debt(rt[n], rt[n], 0)
  BY <1>a, NoDebt
<1>1. ASSUME NEW items \in Seq(Parents), NEW x \in SUBSET Ctxs, InvokeBatch(b, items, x)
      PROVE  ItemBooks(n)'
  <2>1. PICK len \in Nat : len = Len(items)
    BY BatchesAssumption, LenProperties
  <2>2. rt' = AddLogicalCalls(rt, ChildOf[b], len) /\ chunk' = chunk
    BY <1>1, <2>1 DEF InvokeBatch
  <2>3. Debt(rt'[n], rt[n], IF n = ChildOf[b] THEN len ELSE 0)
    BY <1>a, <2>1, <2>2, RuntimeDebts
  <2>4. CASE n = ChildOf[b]
    <3>1. Cardinality(Unsorted(batch', n)) = left + len
      BY <1>1, <1>a, <2>1, <2>4, UnsortedInvoked
    <3>2. Debt(rt'[n], rt[n], len) /\ len \in Int
      BY <2>3, <2>4
    <3>3. rt'[n].batches = rt[n].batches /\ Cardinality(Placed(chunk', {n}, Begun)) = begun
      BY <2>2, <3>2 DEF Debt
    <3> HIDE DEF begun, left
    <3>4. QED
      BY <1>c, <3>1, <3>2, <3>3
  <2>5. CASE n # ChildOf[b]
    <3>1. PICK q \in BatchLocals : BatchBecomes(b, q)
      BY <1>1, <1>a, InvokeEffect
    <3>2. Unsorted(batch', n) = Unsorted(batch, n)
      BY <2>5, <3>1, UnsortedSame
    <3>3. QED
      BY <1>d, <2>2, <2>3, <2>5, <3>2
  <2>6. QED
    BY <2>4, <2>5
<1>2. ASSUME ClassifyItem(b) PROVE ItemBooks(n)'
  <2>1. /\ batch[b].pc = "classify" /\ batch[b].next \in 1..Len(batch[b].items)
        /\ Len(batch[b].out) = Len(batch[b].items)
    <3>1. batch[b].pc = "classify"
      BY <1>2 DEF ClassifyItem, ClassifyUncached, ClassifyHit, ClassifyPending, ClassifyMiss,
                  Classify, BatchAt
    <3>2. QED
      BY <3>1, ItemFacts, <1>a
  <2>2. PICK q \in BatchLocals : Turned(b, q)
    <3>1. CASE ClassifyUncached(b) \/ ClassifyMiss(b)
      BY <1>a, <3>1, OwnEffect
    <3>2. CASE ClassifyPending(b)
      BY <1>a, <3>2, DeferEffect
    <3>3. CASE ClassifyHit(b)
      BY <1>a, <2>1, <3>3, AnswerEffect
    <3>4. QED
      BY <1>2, <3>1, <3>2, <3>3 DEF ClassifyItem
  <2>3. BatchBecomes(b, q) /\ Cardinality(Placed(chunk', {n}, Begun)) = begun
    BY <2>2 DEF Turned
  <2>4. /\ BatchCached(b) => Debt(rt'[n], rt[n], IF n = ChildOf[b] THEN -1 ELSE 0)
        /\ ~BatchCached(b) => rt' = rt
    <3> DEFINE v == entries[ItemKey(b, batch[b].next)].out.val
    <3>1. CASE ClassifyHit(b)
      <4>1. PICK r \in [Nodes -> Counter] : r = CacheHit(rt, ChildOf[b])
        BY <1>a, RuntimeTyped
      <4>2. v \in Values
        <5>1. ItemKey(b, batch[b].next) \in Keys
          BY <1>a, <2>1, ItemKeyTyped
        <5>2. QED
          BY <1>a, <5>1 DEF NodeTypeOK, Entry, Outcomes
      <4>3. rt' = RowsOf(r, b, v) /\ BatchCached(b)
        BY <3>1, <4>1 DEF ClassifyHit
      <4> HIDE DEF v
      <4>4. Debt(r[n], rt[n], IF n = ChildOf[b] THEN -1 ELSE 0) /\ Debt(rt'[n], r[n], 0)
        BY <1>a, <4>1, <4>2, <4>3, RuntimeDebts, RowsOfDebt
      <4>5. PICK d \in Int : d = IF n = ChildOf[b] THEN -1 ELSE 0
        OBVIOUS
      <4>6. r[n] \in Counter /\ rt[n] \in Counter /\ rt'[n] \in Counter
        BY <1>a, <4>1
      <4>z. 0 \in Int /\ 0 + d = d
        OBVIOUS
      <4>7. Debt(rt'[n], rt[n], 0 + d)
        BY <4>4, <4>5, <4>6, <4>z, DebtSum
      <4>8. QED
        BY <4>3, <4>5, <4>7, <4>z
    <3>2. CASE ClassifyPending(b) \/ ClassifyMiss(b)
      <4>1. /\ rt' = CacheWait(rt, ChildOf[b]) \/ rt' = CacheMiss(rt, ChildOf[b])
            /\ BatchCached(b)
        BY <3>2 DEF ClassifyPending, ClassifyMiss
      <4>2. QED
        BY <1>a, <4>1, RuntimeDebts
    <3>3. CASE ClassifyUncached(b)
      BY <3>3 DEF ClassifyUncached
    <3>4. QED
      BY <1>2, <3>1, <3>2, <3>3 DEF ClassifyItem
  <2>5. CASE n # ChildOf[b]
    <3>1. Unsorted(batch', n) = Unsorted(batch, n)
      BY <2>3, <2>5, UnsortedSame
    <3>2. Debt(rt'[n], rt[n], 0)
      BY <1>e, <2>4, <2>5
    <3>3. QED
      BY <1>d, <2>3, <3>1, <3>2
  <2>6. CASE n = ChildOf[b] /\ BatchCached(b)
    <3>1. PICK d \in Int : d = -1
      OBVIOUS
    <3>2. Cardinality(Unsorted(batch', n)) = left - 1
      BY <1>a, <2>2, <2>6, UnsortedTurned
    <3>3. Debt(rt'[n], rt[n], d)
      BY <2>4, <2>6, <3>1
    <3>4. rt'[n].batches = rt[n].batches
      BY <3>3 DEF Debt
    <3> HIDE DEF begun, left
    <3>5. Cardinality(Unsorted(batch', n)) = left + d
      BY <1>b, <3>1, <3>2
    <3>6. QED
      BY <1>c, <2>3, <3>3, <3>4, <3>5
  <2>7. CASE n = ChildOf[b] /\ ~BatchCached(b)
    <3>1. ~ShouldUseNodeCache(n) /\ rt'[n].batches = rt[n].batches /\ 0 \in Int
      BY <2>4, <2>7 DEF BatchCached
    <3> HIDE DEF begun, left
    <3>2. QED
      BY <1>c, <2>3, <3>1
  <2>8. QED
    BY <2>5, <2>6, <2>7
<1>3. ASSUME LaunchChunk(b) PROVE ItemBooks(n)'
  <2>1. batch' = batch /\ rt' = rt
    BY <1>3 DEF LaunchChunk, nodeVars
  <2>2. "gate" \notin Begun
    BY DEF Begun
  <2>3. Placed(chunk', {n}, Begun) = Placed(chunk, {n}, Begun)
    BY <1>3, <1>a, <2>2, PlacedLaunched
  <2>4. QED
    BY <1>d, <1>e, <2>1, <2>3
<1>4. ASSUME NEW j \in DOMAIN chunk[b], ChunkStep(b, j) PROVE ItemBooks(n)'
  <2>a. batch[b].pc = "launch"
    <3>1. chunk[b][j].pc # "done" /\ ChunkFits(b, batch[b], j, chunk[b][j])
      BY <1>4, <1>a, ChunkFacts
      DEF ChunkStep, ChunkAcquiresGate, ChunkReturns, ChunkPublishes, ChunkFails, ChunkAt
    <3>2. QED
      BY <3>1 DEF ChunkFits
  <2>b. ASSUME NEW me, ChunkBecomes(b, j, me), me.pc \in Begun, chunk[b][j].pc \in Begun,
               NEW q, BatchBecomes(b, q), q.pc = batch[b].pc, Debt(rt'[n], rt[n], 0)
        PROVE  ItemBooks(n)'
    <3>1. Cardinality(Placed(chunk', {n}, Begun)) = begun
      BY <1>a, <2>b, PlacedMoves
    <3>2. Unsorted(batch', n) = Unsorted(batch, n)
      BY <2>a, <2>b, UnsortedSame
    <3>3. QED
      BY <1>d, <2>b, <3>1, <3>2
  <2>1. CASE ChunkAcquiresGate(b, j)
    <3>1. PICK me \in ChunkLocals :
            /\ ChunkBecomes(b, j, me) /\ batch' = batch
            /\ chunk[b][j].pc = "gate" /\ me.pc = "resolving"
      BY <1>a, <2>1, AcquireEffect
    <3>2. me.pc \in Begun /\ chunk[b][j].pc \notin Begun
      BY <3>1 DEF Begun, ChunkPCs
    <3>3. Cardinality(Placed(chunk', {n}, Begun)) = IF n = ChildOf[b] THEN begun + 1 ELSE begun
      BY <1>a, <3>1, <3>2, PlacedMoves
    <3>4. rt' = BeginBatchPhysical(rt, ChildOf[b])
      BY <2>1 DEF ChunkAcquiresGate
    <3>5. /\ rt'[n].batches = IF n = ChildOf[b] THEN rt[n].batches + 1 ELSE rt[n].batches
          /\ rt'[n].calls = rt[n].calls /\ rt'[n].hits = rt[n].hits
          /\ rt'[n].misses = rt[n].misses /\ rt'[n].waits = rt[n].waits
      BY <1>a, <3>4, BeginBatchDebt
    <3>6. QED
      BY <3>1, <3>3, <3>5 DEF ItemBooks
  <2>2. CASE ChunkReturns(b, j)
    <3>1. PICK len : len = Span(b, Len(batch[b].owners), j)
      OBVIOUS
    <3>2. /\ len \in Nat /\ DOMAIN ChunkItems(b, j) = 1..len
          /\ \A m \in 1..len : ChunkItems(b, j)[m] \in 1..Len(batch[b].items)
      BY <1>a, <3>1, ChunkFacts
    <3>3. PICK me \in ChunkLocals :
            /\ ChunkBecomes(b, j, me) /\ batch' = batch
            /\ chunk[b][j].pc = "resolving" /\ me.pc = "publish"
      BY <1>a, <2>2, <3>2, ReturnsEffect
    <3>4. me.pc \in Begun /\ chunk[b][j].pc \in Begun
      BY <3>3 DEF Begun, ChunkPCs
    <3>5. Debt(rt'[n], rt[n], 0)
      BY <1>a, <2>2, RuntimeDebts DEF ChunkReturns
    <3>6. QED
      BY <1>a, <2>b, <3>3, <3>4, <3>5
  <2>3. CASE ChunkPublishes(b, j)
    <3>1. PICK i, o, len : i = PublishedItem(b, j) /\ o = PublishedOutcome(b, j)
                           /\ len = Len(ChunkItems(b, j))
      OBVIOUS
    <3>2. chunk[b][j].pc = "publish"
      BY <2>3 DEF ChunkPublishes, ChunkAt
    <3>3. i \in 1..Len(batch[b].out) /\ o.val \in Values
      BY <1>a, <3>1, <3>2, PublishedTyped, ItemFacts DEF Outcomes
    <3>4. PICK me \in ChunkLocals, q \in BatchLocals :
            /\ ChunkBecomes(b, j, me) /\ BatchBecomes(b, q)
            /\ me.pc \in {"publish", "done", "failing"} /\ q.pc = batch[b].pc
      BY <1>a, <2>3, <3>1, <3>3, PublishesEffect
    <3>5. me.pc \in Begun /\ chunk[b][j].pc \in Begun
      BY <3>2, <3>4 DEF Begun, ChunkPCs
    <3>6. rt' = rt \/ rt' = RowsOf(rt, b, o.val)
      BY <2>3, <3>1 DEF ChunkPublishes, PublishedOutcome
    <3>7. Debt(rt'[n], rt[n], 0)
      BY <1>a, <1>e, <3>3, <3>6, RowsOfDebt
    <3>8. QED
      BY <2>b, <3>4, <3>5, <3>7
  <2>4. CASE ChunkFails(b, j)
    <3>1. PICK me \in ChunkLocals, q \in BatchLocals :
            /\ ChunkBecomes(b, j, me) /\ BatchBecomes(b, q) /\ q.pc = batch[b].pc
            /\ chunk[b][j].pc = "failing" /\ me.pc = "done"
      BY <1>a, <2>4, FailsEffect
    <3>2. me.pc \in Begun /\ chunk[b][j].pc \in Begun
      BY <3>1 DEF Begun, ChunkPCs
    <3>3. Debt(rt'[n], rt[n], 0)
      BY <1>e, <2>4 DEF ChunkFails
    <3>4. QED
      BY <2>b, <3>1, <3>2, <3>3
  <2>5. QED
    BY <1>4, <2>1, <2>2, <2>3, <2>4 DEF ChunkStep
<1>5. ASSUME JoinChunks(b) PROVE ItemBooks(n)'
  <2>1. PICK q \in BatchLocals :
          /\ BatchBecomes(b, q) /\ chunk' = chunk /\ batch[b].pc = "launch"
          /\ q.pc \in {"await", "returned"}
    BY <1>5, <1>a, JoinEffect
  <2>2. Unsorted(batch', n) = Unsorted(batch, n)
    BY <2>1, UnsortedSame
  <2>3. Debt(rt'[n], rt[n], 0)
    BY <1>5, <1>e DEF JoinChunks, nodeVars
  <2>4. QED
    BY <1>d, <2>1, <2>2, <2>3
<1>6. ASSUME AwaitReady(b) \/ AwaitCancelled(b) \/ ReturnBatch(b) PROVE ItemBooks(n)'
  <2>1. PICK i : i = batch[b].pending[batch[b].next]
    OBVIOUS
  <2>2. /\ batch[b].pc = "await"
        /\ batch[b].next <= Len(batch[b].pending) => i \in 1..Len(batch[b].items)
    <3>1. batch[b].pc = "await"
      BY <1>6 DEF AwaitReady, AwaitCancelled, ReturnBatch, Awaits, BatchAt
    <3>2. QED
      BY <1>a, <2>1, <3>1, ItemFacts DEF Awaits, BatchAt
  <2>3. PICK q \in BatchLocals :
          BatchBecomes(b, q) /\ chunk' = chunk /\ q.pc \in {"await", "returned"}
    BY <1>6, <1>a, <2>1, <2>2, ItemFacts, AwaitEffect
  <2>4. Unsorted(batch', n) = Unsorted(batch, n)
    BY <2>2, <2>3, UnsortedSame
  <2>5. Debt(rt'[n], rt[n], 0)
    <3> DEFINE v == entries[ItemKey(b, i)].out.val
    <3>1. rt' = rt \/ (AwaitReady(b) /\ rt' = RowsOf(rt, b, v))
      BY <1>6, <2>1 DEF AwaitReady, AwaitCancelled, ReturnBatch, nodeVars
    <3>2. AwaitReady(b) => v \in Values
      <4>1. AwaitReady(b) => ItemKey(b, i) \in Keys
        BY <1>a, <2>1, <2>2, ItemKeyTyped DEF AwaitReady, Awaits
      <4>2. QED
        BY <1>a, <4>1 DEF NodeTypeOK, Entry, Outcomes
    <3> HIDE DEF v
    <3>3. QED
      BY <1>a, <1>e, <3>1, <3>2, RowsOfDebt
  <2>6. QED
    BY <1>d, <2>3, <2>4, <2>5
<1>7. QED
  BY <1>1, <1>2, <1>3, <1>4, <1>5, <1>6 DEF BatchMove, BatchStep

(* The books of every node agree.                                          *)
Books == \A n \in Nodes : ItemBooks(n)

LEMMA BooksInit == BatchInit => Books
<1> SUFFICES ASSUME BatchInit, NEW n \in Nodes PROVE ItemBooks(n)
  BY DEF Books
<1>1. rt[n] = ZeroCounter
  BY DEF BatchInit, NodeInit, NewRuntime
<1>2. Placed(chunk, {n}, Begun) = {}
  <2>1. ASSUME NEW x \in Placed(chunk, {n}, Begun) PROVE FALSE
    <3>1. x[1] \in Batches /\ x[2] \in DOMAIN chunk[x[1]]
      BY <2>1 DEF Placed
    <3>2. chunk[x[1]] = <<>>
      BY <3>1 DEF BatchInit
    <3>3. QED
      BY <3>1, <3>2
  <2>2. QED
    BY <2>1
<1>3. Unsorted(batch, n) = {}
  <2>1. ASSUME NEW x \in Unsorted(batch, n) PROVE FALSE
    <3>1. x[1] \in Batches /\ batch[x[1]].pc = "classify"
      BY <2>1 DEF Unsorted
    <3>2. QED
      BY <3>1 DEF BatchInit, NoBatch
  <2>2. QED
    BY <2>1
<1>4. Cardinality(Placed(chunk, {n}, Begun)) = 0 /\ Cardinality(Unsorted(batch, n)) = 0
  BY <1>2, <1>3, FS_EmptySet
<1>5. QED
  BY <1>1, <1>4 DEF ItemBooks, ZeroCounter

LEMMA BooksStep == TypedBatches /\ Books /\ GoesOn => Books'
<1> SUFFICES ASSUME TypedBatches, Books, GoesOn, NEW n \in Nodes
             PROVE  ItemBooks(n)'
  BY DEF Books
<1>a. /\ ItemBooks(n) /\ NodeTypeOK /\ NodeTypeOK' /\ Control
      /\ rt[n] \in Counter /\ rt'[n] \in Counter
  BY TypedBatchesStep DEF Books, TypedBatches, NodeTypeOK
<1>1. ASSUME NEW c \in Calls, CallStep(c), UNCHANGED batchVars PROVE ItemBooks(n)'
  <2>1. PICK left \in Nat : left = Cardinality(Unsorted(batch, n))
    BY <1>a, UnsortedFinite
  <2>2. batch' = batch /\ chunk' = chunk
    BY <1>1 DEF batchVars
  <2>3. PICK p \in Counter, q \in Counter : p = rt'[n] /\ q = rt[n]
    BY <1>a
  <2>4. p.batches = q.batches /\ (ShouldUseNodeCache(n) => Debt(p, q, 0))
    BY <1>1, <1>a, <2>3, CallDebts
  <2>5. ASSUME ShouldUseNodeCache(n) PROVE p.calls = p.hits + p.misses + p.waits + left
    <3>1. q.calls = q.hits + q.misses + q.waits + left
      BY <1>a, <2>1, <2>3, <2>5 DEF ItemBooks
    <3>2. 0 \in Int /\ left = left + 0
      BY <2>1
    <3>3. QED
      BY <2>4, <2>5, <3>1, <3>2, DebtPaid
  <2>6. QED
    BY <1>a, <2>1, <2>2, <2>3, <2>4, <2>5 DEF ItemBooks
<1>2. ASSUME \/ \E c \in Calls, p \in Parents, x \in SUBSET Ctxs : Invoke(c, p, x)
             \/ \E x \in Ctxs : Cancel(x)
             \/ UNCHANGED nodeVars,
             UNCHANGED batchVars
      PROVE  ItemBooks(n)'
  <2>1. rt' = rt /\ batch' = batch /\ chunk' = chunk
    BY <1>2 DEF Invoke, Cancel, nodeVars, batchVars
  <2>2. QED
    BY <1>a, <2>1 DEF ItemBooks
<1>3. ASSUME NEW b \in Batches, BatchMove(b) PROVE ItemBooks(n)'
  BY <1>a, <1>3, BatchBooks
<1>4. QED
  BY <1>1, <1>2, <1>3 DEF GoesOn, Outside

LEMMA BooksGiveAccounting == TypedBatches /\ Books => ItemAccounting
<1> SUFFICES ASSUME TypedBatches, Books PROVE ItemAccounting
  OBVIOUS
<1>a. Control /\ Tokens /\ \A b \in Batches : DOMAIN chunk[b] \subseteq Nat
  <2>1. ASSUME NEW b \in Batches PROVE DOMAIN chunk[b] = 1..Len(chunk[b]) /\ Len(chunk[b]) \in Nat
    BY LenProperties DEF TypedBatches, Control, BatchesTyped
  <2>2. QED
    BY <2>1 DEF TypedBatches
<1>1. gate = Cardinality({c \in Calls : At(c, "resolving")}) + Cardinality(ChunksAt("resolving"))
  <2>1. ChunksAt("resolving") = Placed(chunk, Nodes, {"resolving"})
    BY <1>a, BatchesAssumption DEF ChunksAt, Placed
  <2>2. QED
    BY <1>a, <2>1 DEF Tokens, ChunksResolving, Resolving
<1>2. ASSUME NEW n \in Nodes
      PROVE  rt[n].batches = Cardinality({x \in UNION {ChunksAt(at) : at \in Begun} :
                                            ChildOf[x[1]] = n})
  <2>1. {x \in UNION {ChunksAt(at) : at \in Begun} : ChildOf[x[1]] = n}
          = Placed(chunk, {n}, Begun)
    BY <1>a DEF ChunksAt, Placed
  <2>2. QED
    BY <2>1 DEF Books, ItemBooks
<1>3. ASSUME NEW n \in Nodes, ShouldUseNodeCache(n),
             \A b \in BatchesOf(n) : ~BatchAt(b, "classify")
      PROVE  rt[n].calls = rt[n].hits + rt[n].misses + rt[n].waits
  <2>1. Unsorted(batch, n) = {}
    BY <1>3 DEF Unsorted, BatchesOf, BatchAt
  <2>2. Cardinality(Unsorted(batch, n)) = 0
    BY <2>1, FS_EmptySet
  <2>3. /\ rt[n].calls = rt[n].hits + rt[n].misses + rt[n].waits + 0
        /\ rt[n] \in Counter
    BY <1>3, <2>2 DEF Books, ItemBooks, TypedBatches, NodeTypeOK
  <2>4. QED
    BY <2>3 DEF Counter
<1>4. QED
  BY <1>1, <1>2, <1>3 DEF ItemAccounting, Begun

(* Calls and chunks share the gate without losing a token, and once the    *)
(* batches of a cached node have sorted their items each of them, and each *)
(* of its calls, has been counted as a hit, a miss or a wait; a batch      *)
(* resolver is counted once for every chunk that ran it.                   *)
THEOREM ItemsCounted == BatchSpec => []ItemAccounting
<1>1. BatchInit => Books
  BY BooksInit
<1>2. TypedBatches /\ Books /\ [BatchNext]_allBatchVars => Books'
  BY BooksStep, BatchNextGoesOn
<1>3. QED
  BY <1>1, <1>2, BooksGiveAccounting, TypedBatchesKept, PTL DEF BatchSpec

(***************************************************************************)
(* Whose answers the values are: what the cache holds at a key is an       *)
(* answer of a resolver that has that key, and each item of a batch is     *)
(* given an answer for that item, through every mix of hits, waits and     *)
(* chunks.                                                                 *)
(***************************************************************************)

(* The answers of the cached resolvers that have the key k.                *)
Sharing(k) == {x \in Nodes \X Parents : ShouldUseNodeCache(x[1]) /\ CacheKeyForNode(x[1], x[2]) = k}

AnswersAt(k) == UNION {Answers[x[1]][x[2]] : x \in Sharing(k)}

(* What a call of n on p may be given, by its resolver or by the cache.    *)
AnswersFor(n, p) ==
  IF ShouldUseNodeCache(n) THEN AnswersAt(CacheKeyForNode(n, p)) ELSE Answers[n][p]

(* An outcome is one of the answers, or an error and what may go with it.  *)
Tells(o, answers) == IF o.err = "none" THEN o.val \in answers ELSE o.val \in ErrorValues

EntriesTell == \A k \in Keys : entries[k].state = "ready" => Tells(entries[k].out, AnswersAt(k))

(* A call that has its outcome; only cached calls wait or publish.         *)
CallTells(c) ==
  /\ pc[c] \in {"complete", "returned"} => Tells(result[c], AnswersFor(NodeOf[c], parent[c]))
  /\ pc[c] \in {"waiting", "complete"} => Cached(c)

(* An entry that is published stays as it is.                              *)
EntriesStay == \A k \in Keys : entries[k].state = "ready" => entries'[k] = entries[k]

LEMMA AnswersInside ==
  ASSUME NEW n \in Nodes, NEW p \in Parents
  PROVE  Answers[n][p] \subseteq AnswersFor(n, p)
<1>1. CASE ShouldUseNodeCache(n)
  <2>1. <<n, p>> \in Sharing(CacheKeyForNode(n, p))
    BY <1>1 DEF Sharing
  <2>2. QED
    BY <1>1, <2>1 DEF AnswersFor, AnswersAt
<1>2. CASE ~ShouldUseNodeCache(n)
  BY <1>2 DEF AnswersFor
<1>3. QED
  BY <1>1, <1>2

(* Where equal keys have equal answers, the cache adds none.               *)
LEMMA AnswersExact ==
  ASSUME KeysTellAnswers, NEW n \in Nodes, NEW p \in Parents
  PROVE  AnswersFor(n, p) = Answers[n][p]
<1>1. CASE ShouldUseNodeCache(n)
  <2>1. ASSUME NEW x \in Sharing(CacheKeyForNode(n, p)) PROVE Answers[x[1]][x[2]] = Answers[n][p]
    BY <1>1, <2>1 DEF Sharing, KeysTellAnswers
  <2>2. <<n, p>> \in Sharing(CacheKeyForNode(n, p))
    BY <1>1 DEF Sharing
  <2>3. QED
    BY <1>1, <2>1, <2>2 DEF AnswersFor, AnswersAt
<1>2. QED
  BY <1>1 DEF AnswersFor

(* The operations of the cache publish what they are given, once.          *)
LEMMA EntryTells ==
  ASSUME entries \in [Keys -> Entry], EntriesTell, NEW k \in Keys, NEW o,
         \/ entries' = entries
         \/ entries[k].state = "absent" /\ entries' = Reserve(entries, k)
         \/ entries' = Complete(entries, k, o) /\ Tells(o, AnswersAt(k))
  PROVE  EntriesTell' /\ EntriesStay
<1>1. CASE entries' = entries
  BY <1>1 DEF EntriesTell, EntriesStay
<1>2. CASE entries[k].state = "absent" /\ entries' = Reserve(entries, k)
  <2>1. \A l \in Keys : l # k => entries'[l] = entries[l]
    BY <1>2 DEF Reserve
  <2>2. entries'[k].state = "pending"
    BY <1>2 DEF Reserve, Entry
  <2>3. QED
    BY <1>2, <2>1, <2>2 DEF EntriesTell, EntriesStay
<1>3. CASE entries[k].state # "pending" /\ entries' = Complete(entries, k, o)
  BY <1>1, <1>3 DEF Complete
<1>4. CASE entries[k].state = "pending" /\ entries' = Complete(entries, k, o) /\ Tells(o, AnswersAt(k))
  <2>1. \A l \in Keys : l # k => entries'[l] = entries[l]
    BY <1>4 DEF Complete
  <2>2. entries'[k].out = o
    BY <1>4 DEF Complete
  <2>3. QED
    BY <1>4, <2>1, <2>2 DEF EntriesTell, EntriesStay
<1>5. QED
  BY <1>1, <1>2, <1>3, <1>4

(* A resolver answers for its parent, or fails.                            *)
LEMMA DirectTells ==
  ASSUME NEW n \in Nodes, NEW p \in Parents, NEW x, NEW o \in DirectOutcomes(n, p, x)
  PROVE  Tells(o, AnswersFor(n, p))
<1>1. CASE \E v \in Answers[n][p] : o = Outcome(v, "none")
  BY <1>1, AnswersInside DEF Outcome, Tells
<1>2. CASE \E v \in ErrorValues, e \in ResolverErrors(n, x) : o = Outcome(v, e)
  <2>1. PICK v \in ErrorValues, e \in ResolverErrors(n, x) : o = Outcome(v, e)
    BY <1>2
  <2>2. e # "none"
    BY DEF ResolverErrors
  <2>3. QED
    BY <2>1, <2>2 DEF Outcome, Tells
<1>3. QED
  BY <1>1, <1>2 DEF DirectOutcomes

(* What a step of a call does to the entries and to the outcomes of calls. *)
LEMMA CallValues ==
  ASSUME NodeTypeOK, EntriesTell, NEW c \in Calls, CallStep(c),
         \A d \in Calls : CallTells(d)
  PROVE  EntriesTell' /\ EntriesStay /\ \A d \in Calls : CallTells(d)'
<1> DEFINE n == NodeOf[c]
           p == parent[c]
<1>a. /\ KeyOf(c) \in Keys /\ n \in Nodes /\ p \in Parents /\ entries \in [Keys -> Entry]
      /\ pc \in [Calls -> PCs] /\ result \in [Calls -> Outcomes]
      /\ Cached(c) => AnswersFor(n, p) = AnswersAt(KeyOf(c))
  BY KeyTyped, CallsAssumption DEF NodeTypeOK, Cached, AnswersFor, KeyOf
<1>b. ASSUME NEW o, result' = [result EXCEPT ![c] = o], Tells(o, AnswersFor(n, p)),
             NEW to, GoTo(c, to), to = "returned" \/ (to = "complete" /\ Cached(c)),
             parent' = parent
      PROVE  \A d \in Calls : CallTells(d)'
  <2>1. result'[c] = o /\ pc'[c] = to
    BY <1>a, <1>b DEF GoTo
  <2>2. \A d \in Calls : d # c => result'[d] = result[d] /\ pc'[d] = pc[d]
    BY <1>a, <1>b DEF GoTo
  <2>3. QED
    BY <1>b, <2>1, <2>2 DEF CallTells, Cached
<1>c. ASSUME result' = result, parent' = parent, NEW to, GoTo(c, to),
             to \notin {"complete", "returned"}, to = "waiting" => Cached(c)
      PROVE  \A d \in Calls : CallTells(d)'
  <2>1. \A d \in Calls : d # c => pc'[d] = pc[d]
    BY <1>a, <1>c DEF GoTo
  <2>2. pc'[c] = to
    BY <1>a, <1>c DEF GoTo
  <2>3. QED
    BY <1>c, <2>1, <2>2 DEF CallTells, Cached
<1>d. entries' = entries => EntriesTell' /\ EntriesStay
  BY DEF EntriesTell, EntriesStay
<1>e. \A e \in {"no field spec", "canceled"} : Tells(Outcome(Nil, e), AnswersFor(n, p))
  BY ValuesAssumption DEF Outcome, Tells
<1>f. Cached(c) /\ entries[KeyOf(c)].state = "ready" => Tells(entries[KeyOf(c)].out, AnswersFor(n, p))
  BY <1>a DEF EntriesTell
<1>1. CASE EnterUnknown(c) \/ WaitCancelled(c)
  BY <1>1, <1>b, <1>d, <1>e DEF EnterUnknown, WaitCancelled, Return
<1>2. CASE EnterUncached(c) \/ EnterWait(c) \/ AcquireGate(c)
  BY <1>2, <1>c, <1>d DEF EnterUncached, EnterWait, AcquireGate
<1>3. CASE EnterHit(c)
  BY <1>3, <1>b, <1>d, <1>f DEF EnterHit, HitReady, Return
<1>4. CASE EnterMiss(c)
  <2>1. EntriesTell' /\ EntriesStay
    BY <1>4, <1>a, EntryTells DEF EnterMiss, MissOwner
  <2>2. QED
    BY <1>4, <1>c, <2>1 DEF EnterMiss
<1>5. CASE ResolverReturns(c)
  <2>1. PICK o \in DirectOutcomes(n, p, ctx[c]) :
          \/ result' = [result EXCEPT ![c] = o] /\ GoTo(c, "complete") /\ Cached(c)
          \/ Return(c, o, EndPhysical(rt, n))
    BY <1>5 DEF ResolverReturns
  <2>2. Tells(o, AnswersFor(n, p))
    BY <1>a, <2>1, DirectTells
  <2>3. /\ result' = [result EXCEPT ![c] = o] /\ parent' = parent /\ entries' = entries
        /\ GoTo(c, "returned") \/ (GoTo(c, "complete") /\ Cached(c))
    BY <1>5, <2>1 DEF Return, ResolverReturns
  <2>4. QED
    BY <1>b, <1>d, <2>2, <2>3
<1>6. CASE CompleteEntry(c)
  <2>1. Tells(result[c], AnswersFor(n, p)) /\ Cached(c)
    BY <1>6 DEF CompleteEntry, At, CallTells
  <2>2. EntriesTell' /\ EntriesStay
    BY <1>6, <1>a, <2>1, EntryTells DEF CompleteEntry
  <2>3. QED
    BY <1>6, <1>b, <2>1, <2>2 DEF CompleteEntry, Return
<1>7. CASE WaitReady(c)
  <2>1. Tells(entries[KeyOf(c)].out, AnswersFor(n, p))
    BY <1>7, <1>f DEF WaitReady, At, CallTells
  <2>2. QED
    BY <1>7, <1>b, <1>d, <2>1 DEF WaitReady, Return
<1>8. QED
  BY <1>1, <1>2, <1>3, <1>4, <1>5, <1>6, <1>7 DEF CallStep, Enter

-----------------------------------------------------------------------------
(* How item i of batch b stands: it has its answer, or what the failed     *)
(* entry it hit holds; or the goroutine of its chunk will put it, or the   *)
(* wait for its entry; or the batch is bound to fail.                      *)
Told(es, b, q, i) ==
  \/ q.out[i] \in AnswersFor(ChildOf[b], q.items[i])
  \/ /\ BatchCached(b) /\ q.out[i] = es[KeyAt(b, q, i)].out.val
     /\ es[KeyAt(b, q, i)].state = "ready" /\ es[KeyAt(b, q, i)].out.err # "none"

Unpublished(b, q, ch, i) ==
  /\ q.pc \in {"classify", "launch"}
  /\ \E m \in 1..Len(q.owners) : q.owners[m] = i /\ ~Passed(b, Len(q.owners), ch, m)

Awaited(q, i) ==
  /\ q.pc \in {"classify", "launch", "await"}
  /\ \E m \in 1..Len(q.pending) : q.pending[m] = i /\ (q.pc = "await" => q.next <= m)

Broken(q, ch) == q.err # "none" \/ \E j \in 1..Len(ch) : ch[j].err # "none"

Stands(es, b, q, ch, i) ==
  Told(es, b, q, i) \/ Unpublished(b, q, ch, i) \/ Awaited(q, i) \/ Broken(q, ch)

(* A chunk whose resolver has answered holds an answer for each owner.     *)
ChunkTells(b, q, j, me) ==
  me.pc = "publish" /\ me.err = "none" =>
    \A m \in 1..Span(b, Len(q.owners), j) :
      me.vals[m] \in Answers[ChildOf[b]][q.items[q.owners[Start(b, Len(q.owners), j) + m]]]

BatchTells(es, b, q, ch) ==
  /\ \A i \in 1..Seen(q) : Stands(es, b, q, ch, i)
  /\ \A j \in 1..Len(ch) : ChunkTells(b, q, j, ch[j])
  /\ q.pc # "returned" => q.err = "none"
  /\ Len(q.pending) > 0 => BatchCached(b)

(* The entries that stay keep what was told.                               *)
LEMMA ToldStays ==
  ASSUME EntriesStay, NEW b, NEW q, NEW i, KeyAt(b, q, i) \in Keys, Told(entries, b, q, i)
  PROVE  Told(entries', b, q, i)
  BY DEF Told, EntriesStay

LEMMA BatchTellsStays ==
  ASSUME Control, EntriesStay, NEW b \in Batches, BatchTells(entries, b, batch[b], chunk[b])
  PROVE  BatchTells(entries', b, batch[b], chunk[b])
<1>1. BatchesTyped /\ Fits(b, batch[b], chunk[b]) /\ batch[b] \in BatchLocals
  BY DEF Control, BatchesTyped
<1>2. ASSUME NEW i \in 1..Seen(batch[b]) PROVE KeyAt(b, batch[b], i) \in Keys
  <2>1. i \in 1..Len(batch[b].items)
    BY <1>1, LenProperties DEF Seen, Fits, SortingFits, BatchLocals
  <2>2. QED
    BY <1>1, <2>1, ItemKeyTyped DEF ItemKey, KeyAt
<1>3. QED
  BY <1>2, ToldStays DEF BatchTells, Stands

(* An item between those a batch has sorted.                               *)
LEMMA SeenItem ==
  ASSUME Control, NEW b \in Batches, NEW i \in 1..Seen(batch[b])
  PROVE  /\ i \in 1..Len(batch[b].items) /\ batch[b].items[i] \in Parents
         /\ KeyAt(b, batch[b], i) \in Keys /\ i \in 1..Len(batch[b].out)
<1>1. BatchesTyped /\ Fits(b, batch[b], chunk[b]) /\ batch[b] \in BatchLocals
  BY DEF Control, BatchesTyped
<1>2. i \in 1..Len(batch[b].items) /\ i \in 1..Len(batch[b].out)
  BY <1>1, LenProperties DEF Seen, Fits, SortingFits, BatchLocals
<1>3. QED
  BY <1>1, <1>2, ItemKeyTyped DEF ItemKey, KeyAt

LEMMA Appended ==
  ASSUME NEW S, NEW s \in Seq(S), NEW x \in S, NEW t, t = Append(s, x)
  PROVE  /\ Len(t) = Len(s) + 1 /\ t[Len(s) + 1] = x
         /\ \A m \in 1..Len(s) : t[m] = s[m]
OBVIOUS

(* One turn of the loop that sorts the items.                              *)
LEMMA TurnTells ==
  ASSUME NodeTypeOK, Control, EntriesTell, EntriesStay, NEW b \in Batches, NEW q, Turned(b, q),
         BatchTells(entries, b, batch[b], chunk[b]),
         \/ Owned(b, q)
         \/ Deferred(b, q) /\ BatchCached(b)
         \/ Answered(b, q) /\ BatchCached(b) /\ HitReady(entries, ItemKey(b, batch[b].next))
  PROVE  BatchTells(entries', b, q, chunk[b])
<1> DEFINE next == batch[b].next
<1>1. /\ BatchesTyped /\ batch[b] \in BatchLocals /\ batch[b].pc = "classify"
      /\ next \in 1..Len(batch[b].items) /\ next \in Nat /\ Len(batch[b].items) \in Nat
      /\ Len(chunk[b]) = 0 /\ SortingFits(batch[b]) /\ Len(batch[b].out) = Len(batch[b].items)
      /\ q.pc \in {"classify", "launch"} /\ q.items = batch[b].items
  BY ItemFacts, LenProperties DEF Control, BatchesTyped, BatchLocals, Fits, Turned
<1>2. Seen(batch[b]) = next - 1 /\ Seen(q) = next
  BY <1>1 DEF Seen, Turned
<1>3. \A n, m : ~Passed(b, n, chunk[b], m)
  BY <1>1 DEF Passed
<1>4. /\ Len(batch[b].owners) \in Nat /\ Len(batch[b].pending) \in Nat
      /\ Owned(b, q) => /\ Len(q.owners) = Len(batch[b].owners) + 1
                        /\ q.owners[Len(batch[b].owners) + 1] = next
                        /\ \A m \in 1..Len(batch[b].owners) : q.owners[m] = batch[b].owners[m]
      /\ Deferred(b, q) => /\ Len(q.pending) = Len(batch[b].pending) + 1
                           /\ q.pending[Len(batch[b].pending) + 1] = next
                           /\ \A m \in 1..Len(batch[b].pending) : q.pending[m] = batch[b].pending[m]
  <2>1. batch[b].owners \in Seq(Nat) /\ batch[b].pending \in Seq(Nat)
    BY <1>1 DEF BatchLocals
  <2>2. Len(batch[b].owners) \in Nat /\ Len(batch[b].pending) \in Nat
    BY <2>1, LenProperties
  <2>3. ASSUME Owned(b, q)
        PROVE  /\ Len(q.owners) = Len(batch[b].owners) + 1
               /\ q.owners[Len(batch[b].owners) + 1] = next
               /\ \A m \in 1..Len(batch[b].owners) : q.owners[m] = batch[b].owners[m]
    <3>1. q.owners = Append(batch[b].owners, next)
      BY <2>3 DEF Owned
    <3>2. QED
      BY <1>1, <2>1, <3>1, Appended
  <2>4. ASSUME Deferred(b, q)
        PROVE  /\ Len(q.pending) = Len(batch[b].pending) + 1
               /\ q.pending[Len(batch[b].pending) + 1] = next
               /\ \A m \in 1..Len(batch[b].pending) : q.pending[m] = batch[b].pending[m]
    <3>1. q.pending = Append(batch[b].pending, next)
      BY <2>4 DEF Deferred
    <3>2. QED
      BY <1>1, <2>1, <3>1, Appended
  <2>5. QED
    BY <2>2, <2>3, <2>4
<1>5. ASSUME NEW i \in 1..(next - 1) PROVE Stands(entries', b, q, chunk[b], i)
  <2>1. /\ Stands(entries, b, batch[b], chunk[b], i) /\ KeyAt(b, batch[b], i) \in Keys
        /\ i \in 1..Len(batch[b].out) /\ i # next
    BY <1>1, <1>2, <1>5, SeenItem DEF BatchTells
  <2>2. CASE Told(entries, b, batch[b], i)
    <3>1. Told(entries', b, batch[b], i)
      BY <2>1, <2>2, ToldStays
    <3>2. q.out[i] = batch[b].out[i]
      BY <2>1 DEF Owned, Deferred, Answered
    <3>3. QED
      BY <1>1, <3>1, <3>2 DEF Told, KeyAt, Stands
  <2>3. CASE Unpublished(b, batch[b], chunk[b], i)
    <3>1. PICK m \in 1..Len(batch[b].owners) : batch[b].owners[m] = i
      BY <2>3 DEF Unpublished
    <3>2. m \in 1..Len(q.owners) /\ q.owners[m] = i
      BY <1>4, <3>1 DEF Owned, Deferred, Answered
    <3>3. QED
      BY <1>1, <1>3, <3>2 DEF Unpublished, Stands
  <2>4. CASE Awaited(batch[b], i)
    <3>1. PICK m \in 1..Len(batch[b].pending) : batch[b].pending[m] = i
      BY <2>4 DEF Awaited
    <3>2. m \in 1..Len(q.pending) /\ q.pending[m] = i
      BY <1>4, <3>1 DEF Owned, Deferred, Answered
    <3>3. QED
      BY <1>1, <3>2 DEF Awaited, Stands
  <2>5. CASE Broken(batch[b], chunk[b])
    BY <2>5 DEF Broken, Stands, Turned
  <2>6. QED
    BY <2>1, <2>2, <2>3, <2>4, <2>5 DEF Stands
<1>6. Stands(entries', b, q, chunk[b], next)
  <2>1. CASE Owned(b, q)
    <3>1. Len(q.owners) \in 1..Len(q.owners) /\ q.owners[Len(q.owners)] = next
      BY <1>4, <2>1
    <3>2. QED
      BY <1>1, <1>3, <3>1 DEF Unpublished, Stands
  <2>2. CASE Deferred(b, q)
    <3>1. Len(q.pending) \in 1..Len(q.pending) /\ q.pending[Len(q.pending)] = next
      BY <1>4, <2>2
    <3>2. QED
      BY <1>1, <3>1 DEF Awaited, Stands
  <2>3. CASE Answered(b, q) /\ BatchCached(b) /\ HitReady(entries, ItemKey(b, next))
    <3>1. PICK k \in Keys : k = ItemKey(b, next) /\ k = KeyAt(b, q, next)
      BY <1>1, ItemKeyTyped DEF ItemKey, KeyAt
    <3>2. entries[k].state = "ready" /\ Tells(entries[k].out, AnswersAt(k)) /\ q.out[next] = entries[k].out.val
      BY <2>3, <3>1 DEF HitReady, EntriesTell, Answered
    <3>3. AnswersFor(ChildOf[b], q.items[next]) = AnswersAt(k)
      BY <2>3, <3>1 DEF AnswersFor, BatchCached, KeyAt
    <3>4. entries'[k] = entries[k]
      BY <3>2 DEF EntriesStay
    <3>5. Told(entries', b, q, next)
      BY <2>3, <3>1, <3>2, <3>3, <3>4 DEF Told, Tells
    <3>6. QED
      BY <3>5 DEF Stands
  <2>4. QED
    BY <2>1, <2>2, <2>3
<1>7. \A i \in 1..Seen(q) : Stands(entries', b, q, chunk[b], i)
  <2>1. \A i \in 1..next : i \in 1..(next - 1) \/ i = next
    BY <1>1
  <2>2. QED
    BY <1>2, <1>5, <1>6, <2>1
<1>8. Len(q.pending) > 0 => BatchCached(b)
  BY <1>4 DEF BatchTells, Owned, Deferred, Answered
<1>9. q.err = "none"
  BY <1>1 DEF BatchTells, Turned
<1>10. QED
  BY <1>1, <1>7, <1>8, <1>9 DEF BatchTells

(* What a chunk publishes for an item is an answer for that item.          *)
LEMMA PublishedTells ==
  ASSUME Control, NEW b \in Batches, NEW j \in DOMAIN chunk[b], chunk[b][j].pc = "publish",
         ChunkTells(b, batch[b], j, chunk[b][j]),
         NEW i, i = PublishedItem(b, j), NEW o, o = PublishedOutcome(b, j)
  PROVE  /\ Tells(o, AnswersFor(ChildOf[b], batch[b].items[i]))
         /\ o.err = chunk[b][j].err
<1> DEFINE me == chunk[b][j]
<1>1. PICK n, span : n = Len(batch[b].owners) /\ span = Span(b, n, j)
  OBVIOUS
<1>2. /\ span \in Nat \ {0} /\ me \in ChunkLocals /\ ChunkFits(b, batch[b], j, me)
      /\ \A m \in 1..span : /\ ChunkItems(b, j)[m] = batch[b].owners[Start(b, n, j) + m]
                            /\ ChunkItems(b, j)[m] \in 1..Len(batch[b].items)
  BY <1>1, ChunkFacts
<1>3. PICK at \in 1..span : at = me.next
  BY <1>1, <1>2 DEF ChunkFits
<1>4. i = batch[b].owners[Start(b, n, j) + at] /\ i \in 1..Len(batch[b].items)
  BY <1>2, <1>3 DEF PublishedItem
<1>5. CASE me.err = "none"
  <2>1. me.vals[at] \in Answers[ChildOf[b]][batch[b].items[i]]
    BY <1>1, <1>3, <1>4, <1>5 DEF ChunkTells
  <2>2. ChildOf[b] \in Nodes /\ batch[b].items[i] \in Parents
    BY <1>4, ItemKeyTyped, ItemFacts DEF Control
  <2>3. me.vals[at] \in AnswersFor(ChildOf[b], batch[b].items[i])
    BY <2>1, <2>2, AnswersInside
  <2>4. o.val = me.vals[at] /\ o.err = "none"
    BY <1>3, <1>5 DEF PublishedOutcome, Outcome
  <2>5. QED
    BY <1>5, <2>3, <2>4 DEF Tells
<1>6. CASE me.err # "none"
  BY <1>6, ValuesAssumption DEF PublishedOutcome, Outcome, Tells
<1>7. QED
  BY <1>5, <1>6

(* A batch publishes answers too.                                          *)
LEMMA BatchEntries ==
  ASSUME NodeTypeOK, Control, EntriesTell, NEW b \in Batches, BatchMove(b),
         BatchTells(entries, b, batch[b], chunk[b])
  PROVE  EntriesTell' /\ EntriesStay
<1>a. entries \in [Keys -> Entry]
  BY DEF NodeTypeOK
<1>b. entries' = entries => EntriesTell' /\ EntriesStay
  BY DEF EntriesTell, EntriesStay
<1>1. ASSUME ClassifyMiss(b) PROVE EntriesTell' /\ EntriesStay
  <2>1. batch[b].pc = "classify"
    BY <1>1 DEF ClassifyMiss, Classify, BatchAt
  <2>2. PICK k : k = ItemKey(b, batch[b].next)
    OBVIOUS
  <2>3. k \in Keys
    BY <2>1, <2>2, ItemFacts, ItemKeyTyped DEF Control
  <2>4. entries[k].state = "absent" /\ entries' = Reserve(entries, k)
    BY <1>1, <2>2 DEF ClassifyMiss, MissOwner
  <2>5. QED
    BY <1>a, <2>3, <2>4, EntryTells
<1>2. ASSUME NEW j \in DOMAIN chunk[b], ChunkPublishes(b, j) PROVE EntriesTell' /\ EntriesStay
  <2>1. chunk[b][j].pc = "publish" /\ ChunkTells(b, batch[b], j, chunk[b][j])
    BY <1>2, ChunkFacts DEF ChunkPublishes, ChunkAt, BatchTells
  <2>2. PICK i, o, k : i = PublishedItem(b, j) /\ o = PublishedOutcome(b, j) /\ k = ItemKey(b, i)
    OBVIOUS
  <2>3. k \in Keys /\ Tells(o, AnswersFor(ChildOf[b], batch[b].items[i]))
    BY <2>1, <2>2, PublishedTyped, PublishedTells
  <2>4. CASE BatchCached(b)
    <3>1. entries' = Complete(entries, k, o)
      BY <1>2, <2>2, <2>4 DEF ChunkPublishes, PublishedItem, PublishedOutcome
    <3>2. Tells(o, AnswersAt(k))
      BY <2>2, <2>3, <2>4 DEF AnswersFor, BatchCached, ItemKey
    <3>3. QED
      BY <1>a, <2>3, <3>1, <3>2, EntryTells
  <2>5. CASE ~BatchCached(b)
    BY <1>2, <1>b, <2>5 DEF ChunkPublishes
  <2>6. QED
    BY <2>4, <2>5
<1>3. CASE entries' # entries
  <2>1. ClassifyMiss(b) \/ \E j \in DOMAIN chunk[b] : ChunkPublishes(b, j)
    BY <1>3 DEF BatchMove, InvokeBatch, BatchStep, ClassifyItem, ClassifyUncached, ClassifyHit,
         ClassifyPending, LaunchChunk, ChunkStep, ChunkAcquiresGate,
         ChunkReturns, ChunkFails, JoinChunks, AwaitReady, AwaitCancelled, ReturnBatch, nodeVars
  <2>2. QED
    BY <1>1, <1>2, <2>1
<1>4. QED
  BY <1>b, <1>3

(* A step of a chunk that answers an item or breaks the batch, or leaves   *)
(* the item as it was.                                                     *)
LEMMA ChunkMoveTells ==
  ASSUME Control, EntriesStay, NEW b \in Batches, NEW j \in DOMAIN chunk[b],
         BatchTells(entries, b, batch[b], chunk[b]),
         NEW me, ChunkBecomes(b, j, me), NEW q, SameSorting(b, q), q.pc = batch[b].pc,
         q.next = batch[b].next, q.err = batch[b].err,
         chunk[b][j].err # "none" => me.err # "none", ChunkTells(b, q, j, me),
         \A i \in 1..Seen(batch[b]) :
           \/ Told(entries', b, q, i)
           \/ me.err # "none"
           \/ /\ q.out[i] = batch[b].out[i]
              /\ Unpublished(b, batch[b], chunk[b], i) => Unpublished(b, q, chunk'[b], i)
  PROVE  BatchTells(entries', b, q, chunk'[b])
<1>1. /\ j \in 1..Len(chunk[b]) /\ Len(chunk'[b]) = Len(chunk[b])
      /\ \A l \in 1..Len(chunk[b]) : chunk'[b][l] = IF l = j THEN me ELSE chunk[b][l]
  BY ChunkFacts DEF ChunkBecomes
<1>2. Broken(batch[b], chunk[b]) \/ me.err # "none" => Broken(q, chunk'[b])
  BY <1>1 DEF Broken
<1>3. q.items = batch[b].items /\ q.pending = batch[b].pending /\ q.owners = batch[b].owners
  BY DEF SameSorting
<1>4. Seen(q) = Seen(batch[b])
  BY <1>3 DEF Seen
<1>5. ASSUME NEW i \in 1..Seen(batch[b]) PROVE Stands(entries', b, q, chunk'[b], i)
  <2>1. Stands(entries, b, batch[b], chunk[b], i) /\ KeyAt(b, batch[b], i) \in Keys
    BY SeenItem DEF BatchTells
  <2>2. CASE Told(entries', b, q, i) \/ me.err # "none"
    BY <1>2, <2>2 DEF Stands
  <2>3. CASE /\ q.out[i] = batch[b].out[i]
             /\ Unpublished(b, batch[b], chunk[b], i) => Unpublished(b, q, chunk'[b], i)
    <3>1. Told(entries, b, batch[b], i) => Told(entries', b, batch[b], i)
      BY <2>1, ToldStays
    <3>2. Told(entries', b, batch[b], i) => Told(entries', b, q, i)
      BY <1>3, <2>3 DEF Told, KeyAt
    <3>3. Awaited(batch[b], i) => Awaited(q, i)
      BY <1>3 DEF Awaited
    <3>4. QED
      BY <1>2, <2>1, <2>3, <3>1, <3>2, <3>3 DEF Stands
  <2>4. QED
    BY <2>2, <2>3
<1>6. ASSUME NEW l \in 1..Len(chunk[b]) PROVE ChunkTells(b, q, l, chunk'[b][l])
  <2>1. CASE l = j
    BY <1>1, <2>1
  <2>2. CASE l # j
    BY <1>1, <1>3, <1>6, <2>2 DEF BatchTells, ChunkTells
  <2>3. QED
    BY <2>1, <2>2
<1>7. QED
  BY <1>1, <1>3, <1>4, <1>5, <1>6 DEF BatchTells

LEMMA ChunkStepTells ==
  ASSUME NodeTypeOK, Control, EntriesTell, EntriesStay, NEW b \in Batches,
         NEW j \in DOMAIN chunk[b], ChunkStep(b, j), BatchTells(entries, b, batch[b], chunk[b])
  PROVE  /\ BatchTells(entries', b, batch'[b], chunk'[b])
         /\ \A d \in Batches : d # b => batch'[d] = batch[d] /\ chunk'[d] = chunk[d]
<1> DEFINE old == chunk[b][j]
<1>1. PICK n, span : n = Len(batch[b].owners) /\ span = Span(b, n, j)
  OBVIOUS
<1>2. /\ span \in Nat \ {0} /\ n \in Nat /\ old \in ChunkLocals /\ ChunkFits(b, batch[b], j, old)
      /\ DOMAIN ChunkItems(b, j) = 1..span /\ Len(ChunkItems(b, j)) = span
      /\ \A m \in 1..span : /\ ChunkItems(b, j)[m] = batch[b].owners[Start(b, n, j) + m]
                            /\ ChunkItems(b, j)[m] \in 1..Len(batch[b].items)
      /\ BatchesTyped /\ SameSorting(b, batch[b]) /\ ChunkTells(b, batch[b], j, old)
      /\ j \in 1..Len(chunk[b])
  BY <1>1, ChunkFacts DEF Control, SameSorting, BatchTells
<1>3. CASE ChunkAcquiresGate(b, j)
  <2>1. PICK me \in ChunkLocals :
          /\ ChunkBecomes(b, j, me) /\ batch' = batch /\ me.pc = "resolving"
          /\ me.next = old.next /\ me.err = old.err
    BY <1>2, <1>3, AcquireEffect
  <2>2. ChunkTells(b, batch[b], j, me)
    BY <2>1 DEF ChunkTells
  <2>3. \A i : Unpublished(b, batch[b], chunk[b], i) => Unpublished(b, batch[b], chunk'[b], i)
    BY <2>1, MovedPassedSame DEF Unpublished
  <2>4. BatchTells(entries', b, batch[b], chunk'[b])
    BY <1>2, <2>1, <2>2, <2>3, ChunkMoveTells
  <2>5. QED
    BY <2>1, <2>4 DEF ChunkBecomes
<1>4. CASE ChunkReturns(b, j)
  <2>1. PICK me \in ChunkLocals :
          /\ ChunkBecomes(b, j, me) /\ batch' = batch
          /\ old.pc = "resolving" /\ me.pc = "publish" /\ me.next = old.next
          /\ me.err # "none" \/ ChunkAnswered(b, j, me)
    BY <1>2, <1>4, ReturnsEffect
  <2>2. ChunkTells(b, batch[b], j, me)
    <3>1. SUFFICES ASSUME me.err = "none", NEW m \in 1..span
                   PROVE  me.vals[m] \in Answers[ChildOf[b]][batch[b].items[batch[b].owners[Start(b, n, j) + m]]]
      BY <1>1 DEF ChunkTells
    <3>2. me.vals \in ChunkAnswers(b, j)
      BY <2>1, <3>1 DEF ChunkAnswered
    <3>3. me.vals[m] \in Answers[ChildOf[b]][ChunkParents(b, j)[m]]
      BY <1>2, <3>2 DEF ChunkAnswers
    <3>4. ChunkParents(b, j)[m] = batch[b].items[batch[b].owners[Start(b, n, j) + m]]
      BY <1>2 DEF ChunkParents
    <3>5. QED
      BY <3>3, <3>4
  <2>3. \A i : Unpublished(b, batch[b], chunk[b], i) => Unpublished(b, batch[b], chunk'[b], i)
    BY <2>1, MovedPassedSame DEF Unpublished
  <2>4. old.err = "none"
    BY <1>2, <2>1 DEF ChunkFits
  <2>5. BatchTells(entries', b, batch[b], chunk'[b])
    BY <1>2, <2>1, <2>2, <2>3, <2>4, ChunkMoveTells
  <2>6. QED
    BY <2>1, <2>5 DEF ChunkBecomes
<1>5. CASE ChunkFails(b, j)
  <2>1. PICK me \in ChunkLocals, q \in BatchLocals :
          /\ ChunkBecomes(b, j, me) /\ BatchBecomes(b, q) /\ me.pc = "done"
          /\ me.next = old.next /\ me.err = old.err
          /\ SameSorting(b, q) /\ q.out = batch[b].out /\ q.pc = batch[b].pc
          /\ q.next = batch[b].next /\ q.err = batch[b].err
    BY <1>2, <1>5, FailsEffect
  <2>2. ChunkTells(b, q, j, me)
    BY <2>1 DEF ChunkTells
  <2>3. \A i : Unpublished(b, batch[b], chunk[b], i) => Unpublished(b, q, chunk'[b], i)
    BY <2>1, MovedPassedSame DEF Unpublished, SameSorting
  <2>4. BatchTells(entries', b, q, chunk'[b])
    BY <2>1, <2>2, <2>3, ChunkMoveTells
  <2>5. QED
    BY <2>1, <2>4 DEF ChunkBecomes, BatchBecomes
<1>6. CASE ChunkPublishes(b, j)
  <2>1. PICK i, o, len : i = PublishedItem(b, j) /\ o = PublishedOutcome(b, j)
                         /\ len = Len(ChunkItems(b, j))
    OBVIOUS
  <2>2. old.pc = "publish"
    BY <1>6 DEF ChunkPublishes, ChunkAt
  <2>3. /\ i \in 1..Len(batch[b].items) /\ o \in Outcomes
        /\ Tells(o, AnswersFor(ChildOf[b], batch[b].items[i])) /\ o.err = old.err
    BY <1>2, <2>1, <2>2, PublishedTyped, PublishedTells
  <2>4. o.val \in Values /\ i \in 1..Len(batch[b].out)
    BY <2>3, ItemFacts DEF Outcomes
  <2>5. PICK me \in ChunkLocals, q \in BatchLocals :
          /\ ChunkBecomes(b, j, me) /\ BatchBecomes(b, q) /\ me.next = old.next + 1
          /\ me.err = old.err /\ me.vals = old.vals
          /\ SameSorting(b, q) /\ q.pc = batch[b].pc /\ q.next = batch[b].next
          /\ q.err = batch[b].err
          /\ IF old.err = "none"
             THEN q.out[i] = o.val /\ \A m \in 1..Len(batch[b].out) : m # i => q.out[m] = batch[b].out[m]
             ELSE q.out = batch[b].out
    <3>1. \E me \in ChunkLocals, q \in BatchLocals :
           /\ ChunkBecomes(b, j, me) /\ BatchBecomes(b, q)
           /\ chunk[b][j].pc = "publish" /\ me.next = chunk[b][j].next + 1
           /\ me.pc = IF chunk[b][j].next < len THEN "publish"
                      ELSE IF chunk[b][j].err = "none" THEN "done" ELSE "failing"
           /\ me.err = chunk[b][j].err /\ me.vals = chunk[b][j].vals
           /\ SameSorting(b, q) /\ q.pc = batch[b].pc /\ q.next = batch[b].next
           /\ q.group = batch[b].group /\ q.err = batch[b].err
           /\ IF chunk[b][j].err = "none"
              THEN q.out[i] = o.val /\ \A m \in 1..Len(batch[b].out) : m # i => q.out[m] = batch[b].out[m]
              ELSE q.out = batch[b].out
      <4>1. BatchesTyped
        BY <1>2
      <4>2. ChunkPublishes(b, j) /\ i = PublishedItem(b, j) /\ i \in 1..Len(batch[b].out)
            /\ o = PublishedOutcome(b, j) /\ o.val \in Values /\ len = Len(ChunkItems(b, j))
        BY <1>6, <2>1, <2>4
      <4> HIDE DEF old
      <4>3. QED
        BY <4>1, <4>2, PublishesEffect
    <3>2. QED
      BY <3>1
  <2>6. ChunkTells(b, q, j, me)
    BY <1>2, <2>2, <2>5 DEF ChunkTells, SameSorting
  <2>7. ASSUME NEW l \in 1..Seen(batch[b])
        PROVE  \/ Told(entries', b, q, l)
               \/ me.err # "none"
               \/ /\ q.out[l] = batch[b].out[l]
                  /\ Unpublished(b, batch[b], chunk[b], l) => Unpublished(b, q, chunk'[b], l)
    <3>1. CASE old.err # "none"
      BY <2>5, <3>1
    <3>2. CASE old.err = "none" /\ l = i
      BY <2>3, <2>5, <3>2 DEF Tells, Told, SameSorting
    <3>3. CASE old.err = "none" /\ l # i
      <4>1. PICK p : p = Start(b, n, j) + old.next
        OBVIOUS
      <4>2. /\ batch[b].owners[p] = i
            /\ \A m \in 1..n : Passed(b, n, chunk'[b], m) <=> (Passed(b, n, chunk[b], m) \/ m = p)
        BY <1>1, <2>1, <2>2, <2>5, <4>1, PublishedPassed
      <4>3. Unpublished(b, batch[b], chunk[b], l) => Unpublished(b, q, chunk'[b], l)
        BY <1>1, <2>5, <3>3, <4>2 DEF Unpublished, SameSorting
      <4>4. l \in 1..Len(batch[b].out)
        BY SeenItem
      <4>5. QED
        BY <2>5, <3>3, <4>3, <4>4
    <3>4. QED
      BY <3>1, <3>2, <3>3
  <2>8. BatchTells(entries', b, q, chunk'[b])
    BY <2>5, <2>6, <2>7, ChunkMoveTells
  <2>9. QED
    BY <2>5, <2>8 DEF ChunkBecomes, BatchBecomes
<1>7. QED
  BY <1>3, <1>4, <1>5, <1>6 DEF ChunkStep

(* The join of the chunks: every owner has its answer, or some chunk broke *)
(* the batch.                                                              *)
LEMMA JoinTells ==
  ASSUME Control, EntriesStay, NEW b \in Batches, JoinChunks(b),
         BatchTells(entries, b, batch[b], chunk[b]),
         NEW q, q.items = batch[b].items, q.owners = batch[b].owners,
         q.pending = batch[b].pending, q.out = batch[b].out,
         q.pc = IF batch[b].group = "none" THEN "await" ELSE "returned",
         q.next = 1, q.err = batch[b].group
  PROVE  BatchTells(entries', b, q, chunk[b])
<1>1. /\ Fits(b, batch[b], chunk[b]) /\ batch[b].pc = "launch" /\ BatchesTyped
      /\ \A j \in 1..Len(chunk[b]) : chunk[b][j].pc = "done"
  BY JoinEffect DEF Control
<1>2. ASSUME Broken(batch[b], chunk[b]) PROVE Broken(q, chunk[b])
  <2>1. batch[b].err = "none"
    BY <1>1 DEF BatchTells
  <2>2. QED
    BY <1>2, <2>1 DEF Broken
<1>3. Seen(q) = Seen(batch[b])
  BY <1>1 DEF Seen
<1>4. ASSUME NEW i \in 1..Seen(batch[b]) PROVE Stands(entries', b, q, chunk[b], i)
  <2>1. Stands(entries, b, batch[b], chunk[b], i) /\ KeyAt(b, batch[b], i) \in Keys
    BY SeenItem DEF BatchTells
  <2>2. ~Unpublished(b, batch[b], chunk[b], i)
    BY JoinedPassed DEF Unpublished
  <2>3. Told(entries, b, batch[b], i) => Told(entries', b, batch[b], i)
    BY <2>1, ToldStays
  <2>4. Told(entries', b, batch[b], i) => Told(entries', b, q, i)
    BY DEF Told, KeyAt
  <2>5. Awaited(batch[b], i) => Awaited(q, i) \/ q.err # "none"
    <3>1. ASSUME Awaited(batch[b], i), batch[b].group = "none" PROVE Awaited(q, i)
      <4>1. PICK m \in 1..Len(batch[b].pending) : batch[b].pending[m] = i
        BY <3>1 DEF Awaited
      <4>2. 1 <= m
        BY <4>1
      <4>3. QED
        BY <3>1, <4>1, <4>2 DEF Awaited
    <3>2. QED
      BY <3>1
  <2>6. QED
    BY <1>2, <2>1, <2>2, <2>3, <2>4, <2>5 DEF Stands, Broken
<1>5. q.pc # "returned" => q.err = "none"
  OBVIOUS
<1>6. \A j \in 1..Len(chunk[b]) : ChunkTells(b, q, j, chunk[b][j])
  BY <1>1 DEF ChunkTells
<1>7. QED
  BY <1>3, <1>4, <1>5, <1>6 DEF BatchTells

(* The waits for the entries of others.                                    *)
LEMMA AwaitTells ==
  ASSUME NodeTypeOK, Control, EntriesTell, EntriesStay, NEW b \in Batches,
         AwaitReady(b) \/ AwaitCancelled(b) \/ ReturnBatch(b),
         BatchTells(entries, b, batch[b], chunk[b])
  PROVE  \E q \in BatchLocals :
           BatchBecomes(b, q) /\ chunk' = chunk /\ BatchTells(entries', b, q, chunk[b])
<1>1. PICK i : i = batch[b].pending[batch[b].next]
  OBVIOUS
<1>a. /\ BatchesTyped /\ batch[b] \in BatchLocals /\ batch[b].next \in Nat
      /\ Len(batch[b].out) = Len(batch[b].items) /\ Len(batch[b].pending) \in Nat
      /\ Fits(b, batch[b], chunk[b])
  BY ItemFacts, LenProperties DEF Control, BatchLocals
<1>2. batch[b].next <= Len(batch[b].pending) => i \in 1..Len(batch[b].items)
  <2>1. batch[b].pc = "await"
    BY DEF AwaitReady, AwaitCancelled, ReturnBatch, Awaits, BatchAt
  <2>2. QED
    BY <1>1, <2>1, ItemFacts DEF Awaits, BatchAt
<1>3. PICK q \in BatchLocals :
        /\ BatchBecomes(b, q) /\ chunk' = chunk /\ batch[b].pc = "await"
        /\ SameSorting(b, q) /\ q.group = batch[b].group
        /\ \/ /\ q.pc = "await" /\ q.next = batch[b].next + 1 /\ q.err = batch[b].err
              /\ AwaitReady(b) /\ batch[b].next <= Len(batch[b].pending)
              /\ entries[ItemKey(b, i)].state = "ready" /\ entries[ItemKey(b, i)].out.err = "none"
              /\ q.out[i] = entries[ItemKey(b, i)].out.val
              /\ \A m \in 1..Len(batch[b].out) : m # i => q.out[m] = batch[b].out[m]
           \/ /\ q.pc = "returned" /\ q.next = batch[b].next /\ q.err # "none"
              /\ q.out = batch[b].out
           \/ /\ q.pc = "returned" /\ q.next = batch[b].next /\ q.err = batch[b].err
              /\ q.out = batch[b].out /\ batch[b].next > Len(batch[b].pending)
  BY <1>1, <1>2, <1>a, AwaitEffect
<1>4. /\ q.items = batch[b].items /\ q.owners = batch[b].owners /\ q.pending = batch[b].pending
      /\ q.pc \in {"await", "returned"} /\ Seen(q) = Seen(batch[b]) /\ batch[b].err = "none"
      /\ \A j \in 1..Len(chunk[b]) : ChunkTells(b, q, j, chunk[b][j])
  BY <1>3 DEF SameSorting, Seen, BatchTells, ChunkTells
<1>5. ASSUME NEW l \in 1..Seen(batch[b])
      PROVE  /\ l \in 1..Len(batch[b].out)
             /\ \/ Told(entries', b, batch[b], l) \/ Awaited(batch[b], l) \/ Broken(batch[b], chunk[b])
  <2>1. Stands(entries, b, batch[b], chunk[b], l) /\ KeyAt(b, batch[b], l) \in Keys
        /\ l \in 1..Len(batch[b].out)
    BY SeenItem DEF BatchTells
  <2>2. ~Unpublished(b, batch[b], chunk[b], l)
    BY <1>3 DEF Unpublished
  <2>3. Told(entries, b, batch[b], l) => Told(entries', b, batch[b], l)
    BY <2>1, ToldStays
  <2>4. QED
    BY <2>1, <2>2, <2>3 DEF Stands
<1>6. ASSUME NEW l \in 1..Seen(batch[b]) PROVE Stands(entries', b, q, chunk[b], l)
  <2>1. CASE q.err # "none"
    BY <2>1 DEF Stands, Broken
  <2>2. CASE q.err = "none" /\ Broken(batch[b], chunk[b])
    BY <1>4, <2>2 DEF Stands, Broken
  <2>3. CASE q.err = "none" /\ q.out[l] = batch[b].out[l] /\ Told(entries', b, batch[b], l)
    BY <1>4, <2>3 DEF Stands, Told, KeyAt
  <2>4. CASE /\ q.err = "none" /\ l = i /\ batch[b].next <= Len(batch[b].pending)
             /\ entries[ItemKey(b, i)].state = "ready" /\ entries[ItemKey(b, i)].out.err = "none"
             /\ q.out[i] = entries[ItemKey(b, i)].out.val
    <3>1. PICK k \in Keys : k = ItemKey(b, i)
      BY <1>2, <1>a, <2>4, ItemKeyTyped
    <3>2. entries[k].out.val \in AnswersAt(k)
      BY <2>4, <3>1 DEF EntriesTell, Tells
    <3>3. BatchCached(b)
      <4>1. Len(batch[b].pending) > 0
        <5>1. batch[b].next >= 1
          BY <1>a DEF Fits, SortingFits
        <5>2. QED
          BY <1>a, <2>4, <5>1
      <4>2. QED
        BY <4>1 DEF BatchTells
    <3>4. AnswersFor(ChildOf[b], q.items[i]) = AnswersAt(k)
      BY <1>4, <3>1, <3>3 DEF AnswersFor, BatchCached, ItemKey
    <3>5. QED
      BY <2>4, <3>1, <3>2, <3>4 DEF Stands, Told
  <2>5. CASE /\ q.pc = "await" /\ q.next = batch[b].next + 1 /\ l # i
             /\ Awaited(batch[b], l)
    <3>1. PICK m \in 1..Len(batch[b].pending) : batch[b].pending[m] = l /\ batch[b].next <= m
      BY <1>3, <2>5 DEF Awaited
    <3>2. m \in Nat /\ m # batch[b].next
      BY <1>1, <2>5, <3>1
    <3>3. q.next <= m
      BY <1>a, <2>5, <3>1, <3>2
    <3>4. m \in 1..Len(q.pending) /\ q.pending[m] = l
      BY <1>4, <3>1
    <3>5. Awaited(q, l)
      BY <2>5, <3>3, <3>4 DEF Awaited
    <3>6. QED
      BY <3>5 DEF Stands
  <2>6. CASE batch[b].next > Len(batch[b].pending) /\ Awaited(batch[b], l)
    BY <1>3, <1>a, <2>6 DEF Awaited
  <2>7. QED
    BY <1>3, <1>5, <2>1, <2>2, <2>3, <2>4, <2>5, <2>6
<1>7. q.pc # "returned" => q.err = "none"
  BY <1>3, <1>4
<1>8. BatchTells(entries', b, q, chunk[b])
  BY <1>4, <1>6, <1>7 DEF BatchTells
<1>9. QED
  BY <1>3, <1>8

(* A batch that has begun has sorted nothing yet.                          *)
LEMMA InvokeTells ==
  ASSUME Control, NEW b \in Batches, NEW items \in Seq(Parents), NEW x \in SUBSET Ctxs,
         InvokeBatch(b, items, x), BatchTells(entries, b, batch[b], chunk[b])
  PROVE  \E q \in BatchLocals :
           BatchBecomes(b, q) /\ chunk' = chunk /\ BatchTells(entries', b, q, chunk[b])
<1>1. BatchesTyped /\ Fits(b, batch[b], chunk[b]) /\ batch[b].pc = "idle"
  BY DEF Control, InvokeBatch, BatchAt
<1>2. PICK q \in BatchLocals :
        /\ BatchBecomes(b, q) /\ chunk' = chunk
        /\ q.pc = IF items = <<>> THEN "returned" ELSE "classify"
        /\ q.items = items /\ q.next = batch[b].next /\ Len(q.out) = Len(items)
        /\ q.owners = batch[b].owners /\ q.pending = batch[b].pending
        /\ q.group = batch[b].group /\ q.err = batch[b].err
  BY <1>1, InvokeEffect
<1>3. Len(q.pending) = 0 /\ Len(chunk[b]) = 0 /\ q.next = 1 /\ q.err = "none"
  BY <1>1, <1>2 DEF Fits, BatchTells
<1>4. Seen(q) = 0
  <2>1. CASE items = <<>>
    <3>1. Len(items) = 0 /\ q.pc = "returned"
      BY <1>2, <2>1
    <3>2. QED
      BY <1>2, <3>1 DEF Seen
  <2>2. CASE items # <<>>
    BY <1>2, <1>3, <2>2 DEF Seen
  <2>3. QED
    BY <2>1, <2>2
<1>5. BatchTells(entries', b, q, chunk[b])
  BY <1>3, <1>4 DEF BatchTells
<1>6. QED
  BY <1>2, <1>5

LEMMA BatchMoveTells ==
  ASSUME NodeTypeOK, Control, EntriesTell, EntriesStay, NEW b \in Batches, BatchMove(b),
         BatchTells(entries, b, batch[b], chunk[b])
  PROVE  /\ BatchTells(entries', b, batch'[b], chunk'[b])
         /\ \A d \in Batches : d # b => batch'[d] = batch[d] /\ chunk'[d] = chunk[d]
<1> DEFINE Goal == /\ BatchTells(entries', b, batch'[b], chunk'[b])
                   /\ \A d \in Batches : d # b => batch'[d] = batch[d] /\ chunk'[d] = chunk[d]
<1>a. BatchesTyped /\ Fits(b, batch[b], chunk[b]) /\ batch[b] \in BatchLocals
  BY DEF Control, BatchesTyped
<1>b. ASSUME NEW q \in BatchLocals, BatchBecomes(b, q), chunk' = chunk,
             BatchTells(entries', b, q, chunk[b])
      PROVE  Goal
  BY <1>b DEF BatchBecomes
<1>1. ASSUME NEW items \in Seq(Parents), NEW x \in SUBSET Ctxs, InvokeBatch(b, items, x) PROVE Goal
  <2>1. PICK q \in BatchLocals :
          BatchBecomes(b, q) /\ chunk' = chunk /\ BatchTells(entries', b, q, chunk[b])
    BY <1>1, InvokeTells
  <2>2. QED
    BY <1>b, <2>1
<1>2. ASSUME ClassifyItem(b) PROVE Goal
  <2>1. /\ batch[b].pc = "classify" /\ batch[b].next \in 1..Len(batch[b].items)
        /\ Len(batch[b].out) = Len(batch[b].items)
    <3>1. batch[b].pc = "classify"
      BY <1>2 DEF ClassifyItem, ClassifyUncached, ClassifyHit, ClassifyPending, ClassifyMiss,
                  Classify, BatchAt
    <3>2. QED
      BY <3>1, ItemFacts
  <2>2. ASSUME NEW q \in BatchLocals, Turned(b, q),
               \/ Owned(b, q)
               \/ Deferred(b, q) /\ BatchCached(b)
               \/ Answered(b, q) /\ BatchCached(b) /\ HitReady(entries, ItemKey(b, batch[b].next))
        PROVE  Goal
    <3>1. BatchTells(entries', b, q, chunk[b])
      BY <2>2, TurnTells
    <3>2. QED
      BY <1>b, <2>2, <3>1 DEF Turned
  <2>3. CASE ClassifyUncached(b) \/ ClassifyMiss(b)
    <3>1. PICK q \in BatchLocals : Turned(b, q) /\ Owned(b, q)
      BY <1>a, <2>3, OwnEffect
    <3>2. QED
      BY <2>2, <3>1
  <2>4. CASE ClassifyPending(b)
    <3>1. PICK q \in BatchLocals : Turned(b, q) /\ Deferred(b, q)
      BY <1>a, <2>4, DeferEffect
    <3>2. QED
      BY <2>2, <2>4, <3>1 DEF ClassifyPending
  <2>5. CASE ClassifyHit(b)
    <3>1. PICK q \in BatchLocals : Turned(b, q) /\ Answered(b, q)
      BY <1>a, <2>1, <2>5, AnswerEffect
    <3>2. QED
      BY <2>2, <2>5, <3>1 DEF ClassifyHit
  <2>6. QED
    BY <1>2, <2>3, <2>4, <2>5 DEF ClassifyItem
<1>3. ASSUME LaunchChunk(b) PROVE Goal
  <2>1. PICK old : old = Len(chunk[b])
    OBVIOUS
  <2>2. /\ batch[b].pc = "launch" /\ batch' = batch /\ \A d \in Batches : d # b => chunk'[d] = chunk[d]
        /\ Len(chunk'[b]) = old + 1 /\ \A i \in 1..old : chunk'[b][i] = chunk[b][i]
        /\ chunk'[b][old + 1].pc = "gate" /\ old \in Nat
    <3>1. chunk[b] \in Seq(ChunkLocals)
      BY <1>a DEF BatchesTyped
    <3>2. old \in Nat
      BY <2>1, <3>1, LenProperties
    <3>3. QED
      BY <1>3, <1>a, <2>1, <3>2, LaunchEffect
  <2>3. ASSUME NEW i, Unpublished(b, batch[b], chunk[b], i) PROVE Unpublished(b, batch[b], chunk'[b], i)
    BY <1>3, <2>3, LaunchedPassedSame DEF Unpublished
  <2>4. ASSUME Broken(batch[b], chunk[b]) PROVE Broken(batch[b], chunk'[b])
    <3>1. CASE batch[b].err # "none"
      BY <3>1 DEF Broken
    <3>2. CASE \E j \in 1..old : chunk[b][j].err # "none"
      <4>1. PICK j \in 1..old : chunk[b][j].err # "none"
        BY <3>2
      <4>2. j \in 1..Len(chunk'[b]) /\ chunk'[b][j].err # "none"
        BY <2>2, <4>1
      <4>3. QED
        BY <4>2 DEF Broken
    <3>3. QED
      BY <2>1, <2>4, <3>1, <3>2 DEF Broken
  <2>5. ASSUME NEW i \in 1..Seen(batch[b]) PROVE Stands(entries', b, batch[b], chunk'[b], i)
    <3>1. Stands(entries, b, batch[b], chunk[b], i) /\ KeyAt(b, batch[b], i) \in Keys
      BY SeenItem DEF BatchTells
    <3>2. Told(entries, b, batch[b], i) => Told(entries', b, batch[b], i)
      BY <3>1, ToldStays
    <3>3. QED
      BY <2>3, <2>4, <3>1, <3>2 DEF Stands
  <2>6. ASSUME NEW j \in 1..Len(chunk'[b]) PROVE ChunkTells(b, batch[b], j, chunk'[b][j])
    <3>1. j \in 1..old \/ j = old + 1
      BY <2>2
    <3>2. CASE j \in 1..old
      BY <2>1, <2>2, <3>2 DEF BatchTells
    <3>3. CASE j = old + 1
      BY <2>2, <3>3 DEF ChunkTells
    <3>4. QED
      BY <3>1, <3>2, <3>3
  <2>7. BatchTells(entries', b, batch[b], chunk'[b])
    BY <2>5, <2>6 DEF BatchTells
  <2>8. QED
    BY <2>2, <2>7
<1>4. ASSUME NEW j \in DOMAIN chunk[b], ChunkStep(b, j) PROVE Goal
  BY <1>4, ChunkStepTells
<1>5. ASSUME JoinChunks(b) PROVE Goal
  <2>1. PICK q \in BatchLocals :
          /\ BatchBecomes(b, q) /\ chunk' = chunk
          /\ q.pc = IF batch[b].group = "none" THEN "await" ELSE "returned"
          /\ q.next = 1 /\ q.err = batch[b].group
          /\ SameSorting(b, q) /\ q.out = batch[b].out
    BY <1>5, <1>a, JoinEffect
  <2>2. BatchTells(entries', b, q, chunk[b])
    BY <1>5, <2>1, JoinTells DEF SameSorting
  <2>3. QED
    BY <1>b, <2>1, <2>2
<1>6. ASSUME AwaitReady(b) \/ AwaitCancelled(b) \/ ReturnBatch(b) PROVE Goal
  <2>1. PICK q \in BatchLocals :
          BatchBecomes(b, q) /\ chunk' = chunk /\ BatchTells(entries', b, q, chunk[b])
    BY <1>6, AwaitTells
  <2>2. QED
    BY <1>b, <2>1
<1>7. QED
  BY <1>1, <1>2, <1>3, <1>4, <1>5, <1>6 DEF BatchMove, BatchStep

-----------------------------------------------------------------------------
(***************************************************************************)
(* The invariant of the values.                                            *)
(***************************************************************************)
ValuesTold ==
  /\ EntriesTell
  /\ \A c \in Calls : CallTells(c)
  /\ \A b \in Batches : BatchTells(entries, b, batch[b], chunk[b])

LEMMA ValuesInit == BatchInit => ValuesTold
<1> SUFFICES ASSUME BatchInit PROVE ValuesTold
  OBVIOUS
<1>1. EntriesTell
  BY DEF BatchInit, NodeInit, EmptyCache, EntriesTell
<1>2. \A c \in Calls : CallTells(c)
  BY DEF BatchInit, NodeInit, CallTells
<1>3. ASSUME NEW b \in Batches PROVE BatchTells(entries, b, batch[b], chunk[b])
  <2>1. batch[b] = NoBatch /\ chunk[b] = <<>> /\ Len(<<>>) = 0
    BY DEF BatchInit
  <2>2. Seen(batch[b]) = 0 /\ Len(batch[b].pending) = 0 /\ batch[b].err = "none"
    BY <2>1 DEF Seen, NoBatch
  <2>3. QED
    BY <2>1, <2>2 DEF BatchTells
<1>4. QED
  BY <1>1, <1>2, <1>3 DEF ValuesTold

LEMMA ValuesStep == TypedBatches /\ ValuesTold /\ GoesOn => ValuesTold'
<1> SUFFICES ASSUME TypedBatches, ValuesTold, GoesOn PROVE ValuesTold'
  OBVIOUS
<1>a. /\ NodeTypeOK /\ Control /\ EntriesTell /\ \A c \in Calls : CallTells(c)
      /\ \A b \in Batches : BatchTells(entries, b, batch[b], chunk[b])
  BY DEF TypedBatches, ValuesTold
<1>b. ASSUME EntriesTell', EntriesStay, \A c \in Calls : CallTells(c)', UNCHANGED batchVars
      PROVE  ValuesTold'
  <2>1. \A b \in Batches : BatchTells(entries', b, batch'[b], chunk'[b])
    BY <1>a, <1>b, BatchTellsStays DEF batchVars
  <2>2. QED
    BY <1>b, <2>1 DEF ValuesTold
<1>1. ASSUME NEW c \in Calls, CallStep(c), UNCHANGED batchVars PROVE ValuesTold'
  <2>1. EntriesTell' /\ EntriesStay /\ \A d \in Calls : CallTells(d)'
    BY <1>1, <1>a, CallValues
  <2>2. QED
    BY <1>1, <1>b, <2>1
<1>2. ASSUME Outside, UNCHANGED batchVars PROVE ValuesTold'
  <2>1. entries' = entries /\ result' = result
    BY <1>2 DEF Outside, Invoke, Cancel, nodeVars
  <2>2. EntriesTell' /\ EntriesStay
    BY <1>a, <2>1 DEF EntriesTell, EntriesStay
  <2>3. ASSUME NEW d \in Calls PROVE CallTells(d)'
    <3>1. pc'[d] = "enter" \/ (pc'[d] = pc[d] /\ parent'[d] = parent[d])
      BY <1>2, <1>a DEF Outside, Invoke, Cancel, nodeVars, At, NodeTypeOK, GoTo
    <3>2. QED
      BY <1>a, <2>1, <3>1 DEF CallTells, Cached
  <2>4. QED
    BY <1>2, <1>b, <2>2, <2>3
<1>3. ASSUME NEW b \in Batches, BatchMove(b) PROVE ValuesTold'
  <2>1. EntriesTell' /\ EntriesStay
    BY <1>3, <1>a, BatchEntries
  <2>2. /\ BatchTells(entries', b, batch'[b], chunk'[b])
        /\ \A d \in Batches : d # b => batch'[d] = batch[d] /\ chunk'[d] = chunk[d]
    BY <1>3, <1>a, <2>1, BatchMoveTells
  <2>3. ASSUME NEW d \in Batches, d # b PROVE BatchTells(entries', d, batch'[d], chunk'[d])
    BY <1>a, <2>1, <2>2, <2>3, BatchTellsStays
  <2>4. UNCHANGED <<pc, parent, result>>
    BY <1>3 DEF BatchMove, InvokeBatch, BatchStep, ClassifyItem, ClassifyUncached, ClassifyHit,
         ClassifyPending, ClassifyMiss, Classify, LaunchChunk, ChunkStep, ChunkAcquiresGate,
         ChunkReturns, ChunkPublishes, ChunkFails, JoinChunks, AwaitReady, AwaitCancelled,
         ReturnBatch, nodeVars
  <2>5. \A c \in Calls : CallTells(c)'
    BY <1>a, <2>4 DEF CallTells, Cached
  <2>6. QED
    BY <2>1, <2>2, <2>3, <2>5 DEF ValuesTold
<1>4. QED
  BY <1>1, <1>2, <1>3 DEF GoesOn

(* A batch that has returned without an error has told every item.         *)
LEMMA ReturnedTells ==
  ASSUME Control, ValuesTold, NEW b \in Batches, batch[b].pc = "returned", batch[b].err = "none",
         NEW i \in DOMAIN batch[b].items
  PROVE  Told(entries, b, batch[b], i) /\ batch[b].items[i] \in Parents
<1>1. /\ Fits(b, batch[b], chunk[b]) /\ batch[b] \in BatchLocals /\ BatchesTyped
      /\ BatchTells(entries, b, batch[b], chunk[b])
  BY DEF Control, BatchesTyped, ValuesTold
<1>2. i \in 1..Len(batch[b].items) /\ i \in 1..Seen(batch[b])
  <2>1. DOMAIN batch[b].items = 1..Len(batch[b].items)
    BY <1>1, LenProperties DEF BatchLocals
  <2>2. QED
    BY <2>1 DEF Seen
<1>3. Stands(entries, b, batch[b], chunk[b], i) /\ batch[b].items[i] \in Parents
  BY <1>1, <1>2, ItemKeyTyped DEF BatchTells
<1>4. ~Broken(batch[b], chunk[b])
  <2>1. batch[b].group = "none" /\ \A j \in 1..Len(chunk[b]) : ChunkFits(b, batch[b], j, chunk[b][j])
    BY <1>1 DEF Fits
  <2>2. QED
    BY <2>1 DEF Broken, ChunkFits
<1>5. QED
  BY <1>3, <1>4 DEF Stands, Unpublished, Awaited

(* What it has for an item is an answer, or what a failed entry holds.     *)
LEMMA AnsweredOrHitFailed ==
  ASSUME Control, ValuesTold, NEW b \in Batches, batch[b].pc = "returned", batch[b].err = "none",
         NEW i \in DOMAIN batch[b].items
  PROVE  \/ batch[b].out[i] \in AnswersFor(ChildOf[b], batch[b].items[i])
         \/ /\ batch[b].out[i] \in ErrorValues
            /\ \E k \in Keys : entries[k].state = "ready" /\ entries[k].out.err # "none"
<1>1. Told(entries, b, batch[b], i)
  BY ReturnedTells
<1>2. BatchesTyped /\ EntriesTell /\ DOMAIN batch[b].items = 1..Len(batch[b].items)
  BY LenProperties DEF Control, BatchesTyped, BatchLocals, ValuesTold
<1>3. KeyAt(b, batch[b], i) \in Keys
  BY <1>2, ItemKeyTyped DEF KeyAt, ItemKey
<1>4. QED
  BY <1>1, <1>2, <1>3 DEF Told, EntriesTell, Tells

-----------------------------------------------------------------------------
LEMMA ToldAligned ==
  ASSUME KeysTellAnswers
  PROVE  TypedBatches /\ ValuesTold => ValuesAligned
<1> SUFFICES ASSUME TypedBatches, ValuesTold, NEW b \in Batches,
                    batch[b].pc = "returned", batch[b].err = "none",
                    NEW i \in DOMAIN batch[b].items
             PROVE  \/ batch[b].out[i] \in Answers[ChildOf[b]][batch[b].items[i]]
                    \/ /\ BatchCached(b)
                       /\ entries[ItemKey(b, i)].out.err # "none"
                       /\ batch[b].out[i] = entries[ItemKey(b, i)].out.val
  BY DEF ValuesAligned, BatchAt
<1>1. Told(entries, b, batch[b], i) /\ batch[b].items[i] \in Parents
  BY ReturnedTells DEF TypedBatches
<1>2. AnswersFor(ChildOf[b], batch[b].items[i]) = Answers[ChildOf[b]][batch[b].items[i]]
  BY <1>1, AnswersExact, BatchesAssumption
<1>3. QED
  BY <1>1, <1>2 DEF Told, KeyAt, ItemKey

(* Where the resolvers that share a key agree, a batch that succeeds has   *)
(* put on each item the answer for that item, for every number of items,   *)
(* chunks, batches and calls: resolveBatchedChild.  The hypothesis is what *)
(* nodeCacheKey takes for granted; the run exec_doc_key shows a plan where *)
(* it fails.                                                               *)
THEOREM AnswersAligned ==
  ASSUME KeysTellAnswers
  PROVE  BatchSpec => []ValuesAligned
<1>1. BatchInit => ValuesTold
  BY ValuesInit
<1>2. TypedBatches /\ ValuesTold /\ [BatchNext]_allBatchVars => ValuesTold'
  BY ValuesStep, BatchNextGoesOn
<1>3. QED
  BY <1>1, <1>2, ToldAligned, TypedBatchesKept, PTL DEF BatchSpec
=============================================================================
