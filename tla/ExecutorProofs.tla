--------------------------- MODULE ExecutorProofs ---------------------------
(***************************************************************************)
(* Proofs about Executor.tla: for any plan, any tree of fields, any answers *)
(* and any number of parents.  The inductive invariant, Executing, adds to  *)
(* the types of the model and the invariants of the resolve calls and       *)
(* batches that run inside it (BatchResolveProofs, BatchAccountsProofs) how *)
(* the scopes, the answers waiting in ret and the running jobs nest: what    *)
(* a scope of executePlan has started, it still waits for.                  *)
(***************************************************************************)
EXTENDS Executor, BatchAccountsProofs

(* Least-number principle: a set of naturals with a member has a first one. *)
LEMMA NatMin ==
  ASSUME NEW T \in SUBSET Nat, T # {}
  PROVE  \E x \in T : \A y \in Nat : y < x => y \notin T
<1> DEFINE R == OpToRel(<, Nat)
<1>1. IsWellFoundedOn(R, Nat)
  BY NatLessThanWellFounded
<1>2. \A x, y \in Nat : y < x => <<y, x>> \in R
  BY DEF OpToRel
<1> HIDE DEF R
<1>3. \E x \in T : \A y \in T : ~ (<<y, x>> \in R)
  BY <1>1, WFMin
<1>4. QED
  BY <1>2, <1>3

(* The function that flattens the first i values.                          *)
FlatStep(vs, n, f) ==
  f = [i \in 0..n |-> IF i = 0 THEN <<>> ELSE f[i - 1] \o Elements(vs[i])]

LEMMA FlattenExists ==
  ASSUME NEW vs, NEW n \in Nat
  PROVE  \E f : FlatStep(vs, n, f)
<1> DEFINE Bad == {m \in Nat : ~ \E f : FlatStep(vs, m, f)}
<1>1. SUFFICES ASSUME Bad # {} PROVE FALSE
  OBVIOUS
<1>2. PICK m \in Bad : \A k \in Nat : k < m => k \notin Bad
  <2>1. Bad \in SUBSET Nat
    OBVIOUS
  <2> HIDE DEF Bad
  <2>2. QED
    BY <1>1, <2>1, NatMin
<1>3. CASE m = 0
  <2> DEFINE f == [i \in 0..0 |-> <<>>]
  <2>1. f = [i \in 0..0 |-> IF i = 0 THEN <<>> ELSE f[i - 1] \o Elements(vs[i])]
    OBVIOUS
  <2>2. QED
    BY <1>2, <1>3, <2>1 DEF FlatStep
<1>4. CASE m # 0
  <2>1. m - 1 \in Nat /\ m - 1 < m
    BY <1>4
  <2>2. PICK g : FlatStep(vs, m - 1, g)
    BY <1>2, <2>1
  <2> DEFINE f == [i \in 0..m |-> IF i = m THEN g[m - 1] \o Elements(vs[m]) ELSE g[i]]
  <2>3. ASSUME NEW i \in 0..m PROVE f[i] = IF i = 0 THEN <<>> ELSE f[i - 1] \o Elements(vs[i])
    <3>1. CASE i = m
      BY <1>4, <2>1, <3>1
    <3>2. CASE i # m
      <4>1. i \in 0..(m - 1) /\ (i # 0 => i - 1 \in 0..(m - 1))
        BY <2>1, <3>2
      <4>2. f[i] = g[i] /\ (i # 0 => f[i - 1] = g[i - 1])
        BY <2>1, <3>2, <4>1
      <4>3. g[i] = IF i = 0 THEN <<>> ELSE g[i - 1] \o Elements(vs[i])
        BY <2>2, <4>1 DEF FlatStep
      <4>4. QED
        BY <4>2, <4>3
    <3>3. QED
      BY <3>1, <3>2
  <2>4. FlatStep(vs, m, f)
    BY <2>3 DEF FlatStep
  <2>5. QED
    BY <1>2, <2>4
<1>5. QED
  BY <1>3, <1>4

LEMMA FlattenTyped ==
  ASSUME NEW vs, Len(vs) \in Nat, NEW S, \A i \in 1..Len(vs) : Elements(vs[i]) \in Seq(S)
  PROVE  Flatten(vs) \in Seq(S)
<1>1. PICK n \in Nat : n = Len(vs)
  OBVIOUS
<1> DEFINE f == CHOOSE f : FlatStep(vs, n, f)
<1>2. Flatten(vs) = f[n]
  BY <1>1 DEF Flatten, FlatStep
<1>3. FlatStep(vs, n, f)
  BY FlattenExists
<1> HIDE DEF f
<1>4. \A i \in 0..n : f[i] = IF i = 0 THEN <<>> ELSE f[i - 1] \o Elements(vs[i])
  BY <1>3 DEF FlatStep
<1> DEFINE Bad == {i \in 0..n : f[i] \notin Seq(S)}
<1>5. Bad = {}
  <2>1. SUFFICES ASSUME Bad # {} PROVE FALSE
    OBVIOUS
  <2>2. Bad \in SUBSET Nat
    OBVIOUS
  <2>3. PICK m \in Bad : \A k \in Nat : k < m => k \notin Bad
    <3> HIDE DEF Bad
    <3>1. QED
      BY <2>1, <2>2, NatMin
  <2>4. m # 0
    <3>1. f[0] = <<>> /\ <<>> \in Seq(S)
      BY <1>4
    <3>2. QED
      BY <2>3, <3>1
  <2>5. m - 1 \in Nat /\ m - 1 < m /\ m - 1 \in 0..n /\ m \in 1..n
    BY <2>3, <2>4
  <2>6. f[m - 1] \in Seq(S) /\ Elements(vs[m]) \in Seq(S)
    BY <1>1, <2>3, <2>5
  <2>7. f[m] \in Seq(S)
    BY <1>4, <2>4, <2>5, <2>6, ConcatProperties
  <2>8. QED
    BY <2>3, <2>7
<1>6. QED
  BY <1>2, <1>5

-----------------------------------------------------------------------------
(***************************************************************************)
(* Scopes: their types, and how each step changes them.                    *)
(***************************************************************************)
ScopeLocals ==
  [open : BOOLEAN, items : Seq(Parents), stage : Nat \ {0}, next : Nat \ {0},
   failed : SUBSET Nat, group : Errors]

ScopesTyped ==
  /\ scope \in [Scopes -> ScopeLocals] /\ DOMAIN ret = Scopes
  /\ \A s \in Scopes : ret[s].done \in BOOLEAN /\ ret[s].err \in Errors

ScopeBecomes(s, l) ==
  /\ scope' \in [Scopes -> ScopeLocals] /\ scope'[s] = l
  /\ \A t \in Scopes : t # s => scope'[t] = scope[t]

RetBecomes(s, o) ==
  /\ DOMAIN ret' = Scopes /\ ret'[s] = o
  /\ \A t \in Scopes : t # s => ret'[t] = ret[t]

LEMMA PutScope ==
  ASSUME ScopesTyped, NEW s \in Scopes, NEW l \in ScopeLocals, scope' = [scope EXCEPT ![s] = l]
  PROVE  ScopeBecomes(s, l)
BY DEF ScopesTyped, ScopeBecomes

LEMMA PutRet ==
  ASSUME ScopesTyped, NEW s \in Scopes, NEW o, ret' = [ret EXCEPT ![s] = o]
  PROVE  RetBecomes(s, o)
BY DEF ScopesTyped, RetBecomes

LEMMA ClosedFacts ==
  /\ Closed \in ScopeLocals /\ ~Closed.open /\ Closed.stage = 1 /\ Closed.next = 1
  /\ Closed.failed = {} /\ Closed.group = "none"
<1>1. <<>> \in Seq(Parents)
  OBVIOUS
<1>2. PICK none \in Errors : none = "none"
  BY DEF Errors
<1>3. {} \in SUBSET Nat /\ 1 \in Nat \ {0} /\ FALSE \in BOOLEAN
  OBVIOUS
<1>4. PICK c \in ScopeLocals :
        c = [open |-> FALSE, items |-> <<>>, stage |-> 1, next |-> 1, failed |-> {}, group |-> none]
  BY <1>1, <1>2, <1>3 DEF ScopeLocals
<1>5. ~c.open /\ c.stage = 1 /\ c.next = 1 /\ c.failed = {} /\ c.group = "none"
  BY <1>2, <1>4
<1>6. Closed = c
  BY <1>2, <1>4 DEF Closed
<1>7. QED
  BY <1>5, <1>6

LEMMA OpenedFacts ==
  ASSUME NEW items \in Seq(Parents)
  PROVE  /\ Opened(items) \in ScopeLocals /\ Opened(items).open /\ Opened(items).items = items
         /\ Opened(items).stage = 1 /\ Opened(items).next = 1 /\ Opened(items).failed = {}
         /\ Opened(items).group = "none"
<1>2. PICK c \in ScopeLocals : c = Closed
  BY ClosedFacts
<1>3. c.stage = 1 /\ c.next = 1 /\ c.failed = {} /\ c.group = "none"
  BY <1>2, ClosedFacts
<1>4. PICK d \in ScopeLocals : d = [c EXCEPT !.open = TRUE]
  BY DEF ScopeLocals
<1>5. /\ d.open = TRUE /\ d.stage = c.stage /\ d.next = c.next /\ d.failed = c.failed
      /\ d.group = c.group
  BY <1>4 DEF ScopeLocals
<1>6. PICK e \in ScopeLocals : e = [d EXCEPT !.items = items]
  BY DEF ScopeLocals
<1>7. /\ e.open = d.open /\ e.items = items /\ e.stage = d.stage /\ e.next = d.next
      /\ e.failed = d.failed /\ e.group = d.group
  BY <1>6 DEF ScopeLocals
<1>8. Opened(items) = e
  BY <1>2, <1>4, <1>6 DEF Opened
<1>9. QED
  BY <1>3, <1>5, <1>7, <1>8

LEMMA StartEffect ==
  ASSUME ScopesTyped, NEW s \in Scopes, NEW x, StartJob(s, x)
  PROVE  \E l \in ScopeLocals :
           /\ ScopeBecomes(s, l) /\ ret' = ret
           /\ l.open = scope[s].open /\ l.items = scope[s].items /\ l.stage = scope[s].stage
           /\ l.next = scope[s].next + 1 /\ l.failed = scope[s].failed /\ l.group = scope[s].group
<1> DEFINE next == scope[s].next + 1
           l == [scope[s] EXCEPT !.next = next]
<1>1. scope[s] \in ScopeLocals /\ next \in Nat \ {0}
  BY DEF ScopesTyped, ScopeLocals
<1>2. scope' = [scope EXCEPT ![s] = l]
  BY DEF StartJob, ScopesTyped
<1> HIDE DEF next
<1>3. /\ l \in ScopeLocals /\ l.open = scope[s].open /\ l.items = scope[s].items
      /\ l.stage = scope[s].stage /\ l.next = next /\ l.failed = scope[s].failed
      /\ l.group = scope[s].group
  BY <1>1 DEF ScopeLocals
<1> HIDE DEF l
<1>4. ScopeBecomes(s, l)
  BY <1>2, <1>3, PutScope
<1>5. ret' = ret /\ next = scope[s].next + 1
  BY DEF StartJob, next
<1>6. QED
  BY <1>3, <1>4, <1>5

LEMMA StartBatchEffect ==
  ASSUME ScopesTyped, NEW s \in Scopes, StartBatch(s)
  PROVE  \E l \in ScopeLocals :
           /\ ScopeBecomes(s, l) /\ ret' = ret
           /\ l.open = scope[s].open /\ l.items = scope[s].items /\ l.stage = scope[s].stage
           /\ l.next = 2 /\ l.failed = scope[s].failed /\ l.group = scope[s].group
<1> DEFINE l == [scope[s] EXCEPT !.next = 2]
<1>1. scope[s] \in ScopeLocals /\ 2 \in Nat \ {0}
  BY DEF ScopesTyped
<1>2. scope' = [scope EXCEPT ![s] = l] /\ ret' = ret
  BY DEF StartBatch, ScopesTyped
<1>3. /\ l \in ScopeLocals /\ l.open = scope[s].open /\ l.items = scope[s].items
      /\ l.stage = scope[s].stage /\ l.next = 2 /\ l.failed = scope[s].failed
      /\ l.group = scope[s].group
  BY <1>1 DEF ScopeLocals
<1> HIDE DEF l
<1>4. QED
  BY <1>2, <1>3, PutScope

LEMMA JobFailsEffect ==
  ASSUME ScopesTyped, NEW s \in Scopes, ParallelJobFails(s),
         \A i \in 1..(scope[s].next - 1) : JobReturned(s, i).err \in Errors
  PROVE  \E l \in ScopeLocals :
           /\ ScopeBecomes(s, l) /\ ret' = ret
           /\ l.open = scope[s].open /\ l.items = scope[s].items /\ l.stage = scope[s].stage
           /\ l.next = scope[s].next /\ l.group # "none"
           /\ \E i \in 1..(scope[s].next - 1) :
                /\ l.failed = scope[s].failed \cup {i}
                /\ l.group = IF scope[s].group = "none" THEN JobReturned(s, i).err
                             ELSE scope[s].group
                /\ JobReturned(s, i).err # "none"
<1>1. PICK i \in 1..(scope[s].next - 1) :
        /\ JobReturned(s, i).err # "none"
        /\ scope' = [scope EXCEPT ![s].failed = @ \cup {i},
                       ![s].group = IF @ = "none" THEN JobReturned(s, i).err ELSE @]
  BY DEF ParallelJobFails
<1> DEFINE failed == scope[s].failed \cup {i}
           group == IF scope[s].group = "none" THEN JobReturned(s, i).err ELSE scope[s].group
           l == [scope[s] EXCEPT !.failed = failed, !.group = group]
<1>2. /\ scope[s] \in ScopeLocals /\ scope[s].next \in Nat /\ failed \in SUBSET Nat
      /\ group \in Errors /\ group # "none"
  BY <1>1 DEF ScopesTyped, ScopeLocals
<1>3. scope' = [scope EXCEPT ![s] = l] /\ ret' = ret
  BY <1>1 DEF ScopesTyped, ParallelJobFails
<1> HIDE DEF failed, group
<1>4. /\ l \in ScopeLocals /\ l.open = scope[s].open /\ l.items = scope[s].items
      /\ l.stage = scope[s].stage /\ l.next = scope[s].next /\ l.failed = failed
      /\ l.group = group
  BY <1>2 DEF ScopeLocals
<1> HIDE DEF l
<1>5. ScopeBecomes(s, l)
  BY <1>3, <1>4, PutScope
<1>6. QED
  BY <1>1, <1>2, <1>3, <1>4, <1>5 DEF failed, group

LEMMA CloseEffect ==
  ASSUME ScopesTyped, NEW s \in Scopes, NEW o, Close(s, o)
  PROVE  \E l \in ScopeLocals :
           /\ ScopeBecomes(s, l) /\ RetBecomes(s, o)
           /\ ~l.open /\ l.items = scope[s].items /\ l.stage = scope[s].stage
           /\ l.next = scope[s].next /\ l.failed = scope[s].failed /\ l.group = scope[s].group
<1> DEFINE l == [scope[s] EXCEPT !.open = FALSE]
<1>1. scope[s] \in ScopeLocals
  BY DEF ScopesTyped
<1>2. scope' = [scope EXCEPT ![s] = l] /\ ret' = [ret EXCEPT ![s] = o]
  BY DEF Close, ScopesTyped
<1>3. /\ l \in ScopeLocals /\ l.open = FALSE /\ l.items = scope[s].items
      /\ l.stage = scope[s].stage /\ l.next = scope[s].next /\ l.failed = scope[s].failed
      /\ l.group = scope[s].group
  BY <1>1 DEF ScopeLocals
<1> HIDE DEF l
<1>4. QED
  BY <1>2, <1>3, PutScope, PutRet

LEMMA NextStageEffect ==
  ASSUME ScopesTyped, NEW s \in Scopes,
         scope' = [scope EXCEPT ![s] =
                     [Opened(scope[s].items) EXCEPT !.stage = scope[s].stage + 1]]
  PROVE  \E l \in ScopeLocals :
           /\ ScopeBecomes(s, l)
           /\ l.open /\ l.items = scope[s].items /\ l.stage = scope[s].stage + 1
           /\ l.next = 1 /\ l.failed = {} /\ l.group = "none"
<1> DEFINE o == Opened(scope[s].items)
           k == scope[s].stage + 1
           l == [o EXCEPT !.stage = k]
<1>1. scope[s].items \in Seq(Parents) /\ k \in Nat \ {0}
  BY DEF ScopesTyped, ScopeLocals
<1>2. /\ o \in ScopeLocals /\ o.open /\ o.items = scope[s].items
      /\ o.next = 1 /\ o.failed = {} /\ o.group = "none"
  BY <1>1, OpenedFacts
<1> HIDE DEF o
<1>3. scope' = [scope EXCEPT ![s] = l]
  BY DEF o
<1> HIDE DEF k
<1>4. /\ l \in ScopeLocals /\ l.open = o.open /\ l.items = o.items /\ l.stage = k
      /\ l.next = o.next /\ l.failed = o.failed /\ l.group = o.group
  BY <1>1, <1>2 DEF ScopeLocals
<1> HIDE DEF l
<1>5. ScopeBecomes(s, l)
  BY <1>3, <1>4, PutScope
<1>6. l.open /\ k = scope[s].stage + 1
  BY <1>2, <1>4 DEF k
<1>7. QED
  BY <1>2, <1>4, <1>5, <1>6

-----------------------------------------------------------------------------
(***************************************************************************)
(* Jobs: the calls and batches that scopes start and wait for.             *)
(***************************************************************************)
Jobs == Calls \cup Batches

Busy(j) == IF IsBatch(j) THEN batch[j].pc # "idle" ELSE pc[j] # "idle"

Resolved(j) == IF IsBatch(j) THEN batch[j].pc = "returned" ELSE pc[j] = "returned"

(* The error the resolve phase of a job ended with.                        *)
OwnError(j) == IF IsBatch(j) THEN batch[j].err ELSE result[j].err

LEMMA Kinds ==
  /\ \A c \in Calls : c[1] = "call" /\ c[2] = NodeOf[c] /\ c[2] \in Nodes /\ ~IsBatch(c)
                      /\ c # Root /\ c \notin Batches /\ c \in Scopes /\ c \in Jobs
  /\ \A b \in Batches : b[1] = "batch" /\ b[2] = ChildOf[b] /\ b[2] \in Nodes /\ IsBatch(b)
                        /\ b # Root /\ b \notin Calls /\ b \in Scopes /\ b \in Jobs
  /\ Root \in Scopes /\ ~IsBatch(Root) /\ Root \notin Jobs
<1>1. ASSUME NEW c \in Calls PROVE c[1] = "call" /\ c[2] = NodeOf[c] /\ NodeOf[c] \in Nodes
  <2>1. c = <<"call", NodeOf[c], c[3]>> /\ NodeOf[c] \in Nodes
    BY RequestAssumption, CallsAssumption
  <2>2. QED
    BY <2>1
<1>2. ASSUME NEW b \in Batches PROVE b[1] = "batch" /\ b[2] = ChildOf[b] /\ ChildOf[b] \in Nodes
  <2>1. b = <<"batch", ChildOf[b], b[3]>> /\ ChildOf[b] \in Nodes
    BY RequestAssumption, BatchesAssumption
  <2>2. QED
    BY <2>1
<1>3. Root[1] = "root"
  BY DEF Root
<1>4. QED
  BY <1>1, <1>2, <1>3 DEF IsBatch, Scopes, Jobs

LEMMA CallKeeps ==
  ASSUME NodeTypeOK, NEW c \in Calls, CallStep(c)
  PROVE  /\ pc[c] \notin {"idle", "returned"} /\ pc'[c] # "idle"
         /\ \A d \in Calls : d # c => pc'[d] = pc[d] /\ result'[d] = result[d]
         /\ cancelled' = cancelled
<1>1. pc \in [Calls -> PCs] /\ result \in [Calls -> Outcomes]
  BY DEF NodeTypeOK
<1>2. QED
  BY <1>1 DEF CallStep, Enter, EnterUnknown, EnterUncached, EnterHit, EnterWait, EnterMiss,
       AcquireGate, ResolverReturns, CompleteEntry, WaitReady, WaitCancelled, Return, GoTo, At

LEMMA BatchKeeps ==
  ASSUME NodeTypeOK, Control, NEW b \in Batches, BatchStep(b)
  PROVE  /\ batch[b].pc \notin {"idle", "returned"} /\ batch'[b].pc # "idle"
         /\ batch'[b].items = batch[b].items
         /\ \A d \in Batches : d # b => batch'[d] = batch[d]
         /\ UNCHANGED <<pc, result, parent, ctx>>
<1> DEFINE BegunAs == batch'[b].pc # "idle" /\ batch'[b].items = batch[b].items
<1>a. BatchesTyped /\ Fits(b, batch[b], chunk[b]) /\ batch[b] \in BatchLocals
  BY DEF Control, BatchesTyped
<1>b. UNCHANGED <<pc, result, parent, ctx>>
  BY DEF BatchStep, ClassifyItem, ClassifyUncached, ClassifyHit, ClassifyPending, ClassifyMiss,
     Classify, LaunchChunk, ChunkStep, ChunkAcquiresGate, ChunkReturns, ChunkPublishes, ChunkFails,
     JoinChunks, AwaitReady, AwaitCancelled, ReturnBatch, nodeVars
<1>c. \A d \in Batches : d # b => batch'[d] = batch[d]
  BY <1>a DEF BatchesTyped, BatchStep, ClassifyItem, ClassifyUncached, ClassifyHit, ClassifyPending,
     ClassifyMiss, Classify, LaunchChunk, ChunkStep, ChunkAcquiresGate, ChunkReturns,
     ChunkPublishes, ChunkFails, JoinChunks, AwaitReady, AwaitCancelled, ReturnBatch
<1>1. ASSUME ClassifyItem(b) PROVE batch[b].pc = "classify"
  BY <1>1 DEF ClassifyItem, ClassifyUncached, ClassifyHit, ClassifyPending, ClassifyMiss, Classify,
     BatchAt
<1>2. ASSUME NEW j \in DOMAIN chunk[b], ChunkStep(b, j) PROVE batch[b].pc = "launch"
  <2>1. ChunkFits(b, batch[b], j, chunk[b][j])
    BY <1>2, ChunkFacts
  <2>2. chunk[b][j].pc # "done"
    BY <1>2 DEF ChunkStep, ChunkAcquiresGate, ChunkReturns, ChunkPublishes, ChunkFails, ChunkAt
  <2>3. QED
    BY <2>1, <2>2 DEF ChunkFits
<1>3. batch[b].pc \notin {"idle", "returned"}
  BY <1>1, <1>2
  DEF BatchStep, LaunchChunk, JoinChunks, AwaitReady, AwaitCancelled, ReturnBatch, Awaits, BatchAt
<1>4. ASSUME ClassifyItem(b) PROVE BegunAs
  <2>1. PICK q \in BatchLocals : Turned(b, q)
    <3>1. CASE ClassifyUncached(b) \/ ClassifyMiss(b)
      BY <1>a, <3>1, OwnEffect
    <3>2. CASE ClassifyPending(b)
      BY <1>a, <3>2, DeferEffect
    <3>3. CASE ClassifyHit(b)
      BY <1>a, <1>1, <1>4, <3>3, AnswerEffect, ItemFacts
    <3>4. QED
      BY <1>4, <3>1, <3>2, <3>3 DEF ClassifyItem
  <2>2. QED
    BY <2>1 DEF Turned, BatchBecomes
<1>5. ASSUME LaunchChunk(b) PROVE BegunAs
  BY <1>5, <1>3 DEF LaunchChunk
<1>6. ASSUME NEW j \in DOMAIN chunk[b], ChunkStep(b, j) PROVE BegunAs
  <2>1. batch[b].pc = "launch"
    BY <1>2, <1>6
  <2>2. CASE ChunkFails(b, j)
    BY <1>a, <2>1, <2>2, FailsEffect DEF BatchBecomes, SameSorting
  <2>3. CASE ChunkPublishes(b, j)
    <3>1. batch \in [Batches -> BatchLocals]
      BY <1>a DEF BatchesTyped
    <3> DEFINE i == ChunkItems(b, j)[chunk[b][j].next]
               v == chunk[b][j].vals[chunk[b][j].next]
               out == [batch[b].out EXCEPT ![i] = v]
               q == [batch[b] EXCEPT !.out = out]
    <3>2. batch' = batch \/ batch'[b] = q
      BY <2>3, <3>1 DEF ChunkPublishes, Outcome
    <3> HIDE DEF out
    <3>3. q.pc = batch[b].pc /\ q.items = batch[b].items
      BY <3>1 DEF BatchLocals
    <3>4. QED
      BY <2>1, <3>2, <3>3
  <2>4. CASE ChunkAcquiresGate(b, j) \/ ChunkReturns(b, j)
    BY <1>3, <2>4 DEF ChunkAcquiresGate, ChunkReturns
  <2>5. QED
    BY <1>6, <2>2, <2>3, <2>4 DEF ChunkStep
<1>7. ASSUME JoinChunks(b) PROVE BegunAs
  BY <1>a, <1>7, JoinEffect DEF BatchBecomes, SameSorting
<1>8. ASSUME AwaitReady(b) \/ AwaitCancelled(b) \/ ReturnBatch(b) PROVE BegunAs
  <2>1. PICK i : i = batch[b].pending[batch[b].next]
    OBVIOUS
  <2>2. /\ batch[b].next <= Len(batch[b].pending) => i \in 1..Len(batch[b].items)
        /\ Len(batch[b].out) = Len(batch[b].items)
    <3>1. BatchAt(b, "await")
      BY <1>8 DEF AwaitReady, AwaitCancelled, ReturnBatch, Awaits
    <3>2. QED
      BY <2>1, <3>1, ItemFacts DEF Awaits
  <2>3. QED
    BY <1>a, <1>8, <2>1, <2>2, AwaitEffect DEF BatchBecomes, SameSorting
<1>9. BegunAs
  BY <1>4, <1>5, <1>6, <1>7, <1>8 DEF BatchStep
<1>10. QED
  BY <1>b, <1>c, <1>3, <1>9

-----------------------------------------------------------------------------
(***************************************************************************)
(* How the jobs of a scope stand to it.  The invariant says that a scope   *)
(* is open from its job's value to its return, that a job that has not     *)
(* returned is one an open scope has started, and that an error stays      *)
(* within reach of a scope that is open or has failed itself.              *)
(***************************************************************************)
StartedIn(s, l) ==
  IF Mode(s, l.stage) = "batch" THEN {j \in {StageBatch(s, l.stage)} : l.next > 1}
  ELSE {Job(s, l.stage, i) : i \in 1..(l.next - 1)}

CountIn(s, l) == IF IsList(s) THEN Len(l.items) ELSE Len(Children(s))

ScopeFits(s, l) ==
  /\ l.stage \in 1..Larger(1, StageCount(s))
  /\ l.failed \subseteq 1..(l.next - 1)
  /\ l.failed # {} => l.group # "none"
  /\ Mode(s, l.stage) # "batch" => l.next <= CountIn(s, l) + 1
  /\ IsList(s) /\ l.next > 1 => Children(s)[l.stage] \in Registered
  /\ l.open \/ l.next > 1 => s = Root \/ Children(s) # <<>>
  /\ l.open /\ ~IsList(s) => Len(l.items) >= 1
  /\ StartedIn(s, l) \subseteq Jobs

RetFits(s) ==
  /\ ret[s].err # "none" => ret[s].done
  /\ scope[s].open => ~ret[s].done
  /\ s # Root /\ (scope[s].open \/ ret[s].done) => Resolved(s)

(* The jobs before the last one of a sequential stage are over.            *)
InOrder(s, l, r) ==
  l.open /\ Mode(s, l.stage) = "sequential" =>
    \A i \in 1..(l.next - 2) : LET j == Job(s, l.stage, i) IN r[j].done /\ r[j].err = "none"

AwaitedBy(j, s, l) == l.open /\ j \in StartedIn(s, l)

(* An error of j is seen, or will be, by s.                                *)
CarriedBy(j, s, l, r) == j \in StartedIn(s, l) /\ (l.open \/ r[s].err # "none")

JobFits(j) ==
  /\ Busy(j) /\ ~ret[j].done => \E s \in Scopes : AwaitedBy(j, s, scope[s])
  /\ ret[j].err # "none" => \E s \in Scopes : CarriedBy(j, s, scope[s], ret)
  /\ OwnError(j) # "none" /\ Resolved(j) =>
       ~scope[j].open /\ (ret[j].done => ret[j].err # "none")

Nested ==
  /\ ScopesTyped
  /\ \A s \in Scopes : ScopeFits(s, scope[s]) /\ RetFits(s) /\ InOrder(s, scope[s], ret)
  /\ \A j \in Jobs : JobFits(j)
  /\ \A b \in Batches : Busy(b) => Field[ChildOf[b]].isList

LEMMA ChildrenTyped ==
  ASSUME NEW s \in Scopes
  PROVE  /\ Children(s) \in Seq(Nodes) /\ Len(Children(s)) \in Nat
         /\ StageCount(s) \in Nat /\ Larger(1, StageCount(s)) \in Nat
         /\ s # Root => s \in Jobs /\ s[2] \in Nodes /\ Children(s) = Field[s[2]].children
         /\ IsList(s) => s # Root
<1>1. s # Root => s \in Jobs /\ s[2] \in Nodes
  BY Kinds DEF Scopes, Jobs
<1>2. Children(s) \in Seq(Nodes)
  BY <1>1, TreeAssumption DEF Children
<1>3. Len(Children(s)) \in Nat
  BY <1>2, LenProperties
<1>4. QED
  BY <1>1, <1>2, <1>3 DEF Children, StageCount, Larger, IsList

(* What a scope has started is of its children.                            *)
LEMMA StartedAreChildren ==
  ASSUME NEW s \in Scopes, NEW l \in ScopeLocals, ScopeFits(s, l), NEW j \in StartedIn(s, l)
  PROVE  j \in Jobs /\ j[2] \in ToSet(Children(s))
<1>1. j \in Jobs
  BY DEF ScopeFits
<1>2. /\ Children(s) \in Seq(Nodes) /\ DOMAIN Children(s) = 1..Len(Children(s))
      /\ Len(Children(s)) \in Nat
  BY ChildrenTyped, LenProperties
<1>3. l.stage \in Nat /\ l.next \in Nat
  BY DEF ScopeLocals
<1>4. \E k \in DOMAIN Children(s) : j[2] = Children(s)[k]
  <2>1. CASE IsList(s)
    <3>1. l.next > 1
      BY <1>3 DEF StartedIn
    <3>2. Children(s) # <<>> /\ l.stage \in 1..Larger(1, Len(Children(s)))
      BY <2>1, <3>1, ChildrenTyped DEF ScopeFits, StageCount
    <3>3. Len(Children(s)) # 0
      BY <1>2, <3>2, EmptySeq
    <3>4. l.stage \in 1..Len(Children(s))
      BY <1>2, <3>2, <3>3 DEF Larger
    <3>5. j[2] = Children(s)[l.stage]
      BY <2>1 DEF StartedIn, StageBatch, Job
    <3>6. QED
      BY <1>2, <3>4, <3>5
  <2>2. CASE ~IsList(s)
    <3>1. Mode(s, l.stage) # "batch"
      BY <2>2 DEF Mode
    <3>2. PICK i \in 1..(l.next - 1) : j = Job(s, l.stage, i)
      BY <3>1 DEF StartedIn
    <3>3. l.next <= Len(Children(s)) + 1
      BY <2>2, <3>1 DEF ScopeFits, CountIn
    <3>4. i \in 1..Len(Children(s)) /\ j[2] = Children(s)[i]
      BY <1>2, <1>3, <2>2, <3>2, <3>3 DEF Job
    <3>5. QED
      BY <1>2, <3>4
  <2>3. QED
    BY <2>1, <2>2
<1>5. QED
  BY <1>1, <1>4 DEF ToSet

LEMMA NestedInit == ExecInit => Nested
<1> SUFFICES ASSUME ExecInit PROVE Nested
  OBVIOUS
<1>1. Nil \in Parents
  BY ValuesAssumption
<1>2. PICK q \in Seq(Parents) : q = <<Nil>> /\ Len(q) >= 1
  <2>1. <<Nil>> \in Seq(Parents)
    BY <1>1
  <2>2. Len(<<Nil>>) >= 1
    OBVIOUS
  <2>3. QED
    BY <2>1, <2>2
<1>3. Opened(q) \in ScopeLocals /\ Opened(q).open /\ Opened(q).items = q
      /\ Opened(q).stage = 1 /\ Opened(q).next = 1 /\ Opened(q).failed = {}
      /\ Opened(q).group = "none"
  BY OpenedFacts
<1>4. Closed \in ScopeLocals /\ ~Closed.open /\ Closed.stage = 1 /\ Closed.next = 1
      /\ Closed.failed = {} /\ Closed.group = "none"
  BY ClosedFacts
<1>5. ASSUME NEW s \in Scopes
      PROVE  scope[s] = IF s = Root THEN Opened(q) ELSE Closed
  BY <1>2 DEF ExecInit
<1>6. \A s \in Scopes : ret[s].done = FALSE /\ ret[s].err = "none"
  BY DEF ExecInit, NotReturned
<1>7. ScopesTyped
  <2>1. scope \in [Scopes -> ScopeLocals]
    BY <1>3, <1>4, <1>5 DEF ExecInit
  <2>2. "none" \in Errors
    BY DEF Errors
  <2>3. QED
    BY <1>6, <2>1, <2>2 DEF ScopesTyped, ExecInit
<1>8. ASSUME NEW s \in Scopes
      PROVE  /\ scope[s].stage = 1 /\ scope[s].next = 1 /\ scope[s].failed = {}
             /\ scope[s].open => s = Root /\ Len(scope[s].items) >= 1
  BY <1>2, <1>3, <1>4, <1>5
<1>9. ASSUME NEW s \in Scopes
      PROVE  ScopeFits(s, scope[s]) /\ RetFits(s) /\ InOrder(s, scope[s], ret)
  <2>1. StartedIn(s, scope[s]) = {}
    BY <1>8 DEF StartedIn
  <2>2. Larger(1, StageCount(s)) \in Nat /\ Larger(1, StageCount(s)) >= 1
    BY ChildrenTyped DEF Larger
  <2>3. CountIn(s, scope[s]) \in Nat
    <3>1. scope[s].items \in Seq(Parents)
      BY <1>7 DEF ScopesTyped, ScopeLocals
    <3>2. QED
      BY <3>1, ChildrenTyped, LenProperties DEF CountIn
  <2>4. ScopeFits(s, scope[s])
    <3> DEFINE l == scope[s]
    <3>1. l.stage = 1 /\ l.next = 1 /\ l.failed = {} /\ (l.open => s = Root /\ Len(l.items) >= 1)
      BY <1>8
    <3>2. StartedIn(s, l) = {} /\ CountIn(s, l) \in Nat
      BY <2>1, <2>3
    <3> HIDE DEF l
    <3>3. 1 \in 1..Larger(1, StageCount(s)) /\ 1 <= CountIn(s, l) + 1
      BY <2>2, <3>2
    <3>4. l.failed \subseteq 1..(l.next - 1) /\ (l.failed # {} => l.group # "none") /\ ~(l.next > 1)
          /\ StartedIn(s, l) \subseteq Jobs
      BY <3>1, <3>2
    <3>5. ScopeFits(s, l)
      BY <3>1, <3>3, <3>4 DEF ScopeFits
    <3>6. QED
      BY <3>5 DEF l
  <2>5. RetFits(s)
    BY <1>6, <1>8 DEF RetFits
  <2>6. InOrder(s, scope[s], ret)
    BY <1>8 DEF InOrder
  <2>7. QED
    BY <2>4, <2>5, <2>6
<1>10. \A j \in Jobs : ~Busy(j) /\ ~Resolved(j)
  BY Kinds DEF ExecInit, BatchInit, NodeInit, NoBatch, Jobs, Busy, Resolved
<1>11. \A j \in Jobs : j \in Scopes /\ JobFits(j)
  BY <1>6, <1>10, Kinds DEF JobFits, Jobs
<1>12. QED
  BY <1>7, <1>9, <1>10, <1>11, Kinds DEF Nested

-----------------------------------------------------------------------------
LEMMA StartedElsewhere ==
  ASSUME NEW s \in Scopes, NEW l \in ScopeLocals, ScopeFits(s, l), NEW j \in StartedIn(s, l)
  PROVE  j # s
<1>1. SUFFICES ASSUME j = s PROVE FALSE
  OBVIOUS
<1>2. j \in Jobs /\ s[2] \in ToSet(Children(s))
  BY <1>1, StartedAreChildren
<1>3. s # Root /\ s[2] \in Nodes /\ Children(s) = Field[s[2]].children
  BY <1>1, <1>2, ChildrenTyped, Kinds
<1>4. PICK S \in SUBSET Nodes : S = {s[2]} /\ S # {}
  BY <1>3
<1>5. QED
  BY <1>2, <1>3, <1>4, TreeAssumption

(* The plan does not change, and with it the modes.                        *)
LEMMA SamePlan ==
  ASSUME plan' = plan
  PROVE  /\ \A s : StartedIn(s, scope[s])' = StartedIn(s, scope'[s])
         /\ \A s, k : Mode(s, k)' = Mode(s, k)
<1>1. \A s, k : Mode(s, k)' = Mode(s, k)
  BY DEF Mode, ResolvesInBatches, ListIsParallel
<1>2. QED
  BY <1>1 DEF StartedIn

(***************************************************************************)
(* What a step may do to one scope s, and to the jobs in their resolve     *)
(* phase, so that the invariant is kept.                                   *)
(***************************************************************************)
JobsGoOn(s) ==
  /\ \A j \in Jobs : Resolved(j) => Resolved(j)' /\ OwnError(j)' = OwnError(j)
  /\ \A j \in Jobs : Busy(j)' /\ ~Busy(j) => AwaitedBy(j, s, scope'[s])

(* The jobs s has started stay its own, or are over and their errors known. *)
HandsOver(s) ==
  scope[s].open =>
    \/ scope'[s].open /\ StartedIn(s, scope[s]) \subseteq StartedIn(s, scope'[s])
    \/ \A j \in StartedIn(s, scope[s]) :
         /\ ret[j].done
         /\ ret[j].err # "none" => ret'[s].err # "none" /\ j \in StartedIn(s, scope'[s])

OnlyScope(s) ==
  /\ \A t \in Scopes : t # s => scope'[t] = scope[t] /\ ret'[t] = ret[t]
  /\ ret[s].done => ret'[s] = ret[s] /\ scope'[s] = scope[s]
  /\ ret[s].err = "none" /\ ret'[s].err # "none" => s = Root \/ Busy(s)
  /\ s # Root /\ (OwnError(s) # "none" /\ Resolved(s))' =>
       ~scope'[s].open /\ (ret'[s].done => ret'[s].err # "none")

LEMMA NestedMove ==
  ASSUME Nested, plan' = plan, ScopesTyped', NEW s \in Scopes, JobsGoOn(s), HandsOver(s),
         OnlyScope(s), ScopeFits(s, scope'[s]), RetFits(s)', InOrder(s, scope'[s], ret'),
         \A b \in Batches : Busy(b)' => Field[ChildOf[b]].isList
  PROVE  Nested'
<1>a. /\ ScopesTyped /\ \A j \in Jobs : JobFits(j) /\ j \in Scopes
      /\ \A t \in Scopes : ScopeFits(t, scope[t]) /\ RetFits(t) /\ InOrder(t, scope[t], ret)
                           /\ scope[t] \in ScopeLocals
  BY DEF Nested, ScopesTyped, Jobs, Scopes
<1>b. \A t \in Scopes : ret[t].done => ret'[t] = ret[t] /\ scope'[t] = scope[t]
  BY DEF OnlyScope
<1>1. ASSUME NEW t \in Scopes
      PROVE  ScopeFits(t, scope'[t]) /\ RetFits(t)' /\ InOrder(t, scope'[t], ret')
  <2>1. CASE t = s
    BY <2>1
  <2>2. CASE t # s
    <3>1. scope'[t] = scope[t] /\ ret'[t] = ret[t]
      BY <2>2 DEF OnlyScope
    <3>2. RetFits(t)'
      BY <1>a, <3>1 DEF RetFits, JobsGoOn, Scopes, Jobs
    <3>3. ASSUME scope[t].open, Mode(t, scope[t].stage) = "sequential",
                 NEW i \in 1..(scope[t].next - 2)
          PROVE  LET j == Job(t, scope[t].stage, i) IN ret'[j].done /\ ret'[j].err = "none"
      <4> DEFINE j == Job(t, scope[t].stage, i)
      <4>1. ret[j].done /\ ret[j].err = "none"
        BY <1>a, <3>3 DEF InOrder
      <4>2. j \in StartedIn(t, scope[t])
        BY <1>a, <3>3 DEF StartedIn, ScopeLocals
      <4>3. j \in Scopes
        BY <1>a, <4>2 DEF ScopeFits
      <4>4. QED
        BY <1>b, <4>1, <4>3
    <3>4. QED
      BY <1>a, <3>1, <3>2, <3>3 DEF InOrder
  <2>3. QED
    BY <2>1, <2>2
<1>2. ASSUME NEW j \in Jobs, Busy(j)', ~ret'[j].done
      PROVE  \E t \in Scopes : AwaitedBy(j, t, scope'[t])
  <2>1. CASE ~Busy(j)
    BY <1>2, <2>1 DEF JobsGoOn
  <2>2. CASE Busy(j)
    <3>1. ~ret[j].done
      BY <1>2, <1>a, <1>b
    <3>2. PICK t \in Scopes : AwaitedBy(j, t, scope[t])
      BY <1>a, <2>2, <3>1 DEF JobFits
    <3>3. CASE t = s
      BY <3>1, <3>2, <3>3 DEF HandsOver, AwaitedBy
    <3>4. CASE t # s
      BY <3>2, <3>4 DEF OnlyScope
    <3>5. QED
      BY <3>3, <3>4
  <2>3. QED
    BY <2>1, <2>2
<1>3. ASSUME NEW j \in Jobs, ret'[j].err # "none"
      PROVE  \E t \in Scopes : CarriedBy(j, t, scope'[t], ret')
  <2>1. CASE ret[j].err # "none"
    <3>1. PICK t \in Scopes : CarriedBy(j, t, scope[t], ret)
      BY <1>a, <2>1 DEF JobFits
    <3>2. CASE t = s /\ scope[s].open
      BY <2>1, <3>1, <3>2 DEF HandsOver, CarriedBy
    <3>3. CASE t = s /\ ~scope[s].open
      <4>1. ret[s].done
        BY <1>a, <3>1, <3>3 DEF CarriedBy, RetFits
      <4>2. QED
        BY <1>b, <3>1, <3>3, <4>1 DEF CarriedBy
    <3>4. CASE t # s
      BY <3>1, <3>4 DEF OnlyScope, CarriedBy
    <3>5. QED
      BY <3>2, <3>3, <3>4
  <2>2. CASE ret[j].err = "none"
    <3>1. j = s /\ s # Root /\ Busy(s) /\ ~ret[s].done
      BY <1>3, <1>a, <1>b, <2>2, Kinds DEF OnlyScope
    <3>2. PICK t \in Scopes : AwaitedBy(s, t, scope[t])
      BY <1>a, <3>1 DEF JobFits
    <3>3. t # s
      BY <1>a, <3>2, StartedElsewhere DEF AwaitedBy
    <3>4. QED
      BY <3>1, <3>2, <3>3 DEF OnlyScope, AwaitedBy, CarriedBy
  <2>3. QED
    BY <2>1, <2>2
<1>4. ASSUME NEW j \in Jobs, (OwnError(j) # "none" /\ Resolved(j))'
      PROVE  ~scope'[j].open /\ (ret'[j].done => ret'[j].err # "none")
  <2>1. CASE j = s
    BY <1>4, <2>1, Kinds DEF OnlyScope
  <2>2. CASE j # s
    <3>1. scope'[j] = scope[j] /\ ret'[j] = ret[j] /\ j # Root
      BY <1>a, <2>2, Kinds DEF OnlyScope
    <3>2. CASE Resolved(j)
      BY <1>4, <1>a, <3>1, <3>2 DEF JobsGoOn, JobFits
    <3>3. CASE ~Resolved(j)
      BY <1>a, <3>1, <3>3 DEF RetFits
    <3>4. QED
      BY <3>2, <3>3
  <2>3. QED
    BY <2>1, <2>2
<1>5. \A j \in Jobs : JobFits(j)'
  BY <1>2, <1>3, <1>4, SamePlan DEF JobFits, AwaitedBy, CarriedBy
<1>6. ASSUME NEW t \in Scopes PROVE (ScopeFits(t, scope[t]) /\ InOrder(t, scope[t], ret))'
  BY <1>1, SamePlan DEF ScopeFits, InOrder, CountIn
<1>7. QED
  BY <1>1, <1>5, <1>6 DEF Nested

LEMMA JobsUnchanged ==
  ASSUME UNCHANGED <<pc, batch, result>>, NEW s
  PROVE  JobsGoOn(s) /\ \A j : (Resolved(j)' <=> Resolved(j)) /\ OwnError(j)' = OwnError(j)
                               /\ (Busy(j)' <=> Busy(j))
BY DEF JobsGoOn, Resolved, OwnError, Busy

LEMMA InnerKeeps ==
  ASSUME Nested, plan' = plan, UNCHANGED <<scope, ret>>,
         \A j \in Jobs : /\ Resolved(j) => Resolved(j)' /\ OwnError(j)' = OwnError(j)
                         /\ Busy(j)' => Busy(j)
  PROVE  Nested'
<1>1. Root \in Scopes /\ \A b \in Batches : b \in Jobs
  BY Kinds
<1>2. ScopesTyped' /\ JobsGoOn(Root) /\ HandsOver(Root) /\ OnlyScope(Root)
  BY DEF Nested, ScopesTyped, JobsGoOn, HandsOver, OnlyScope
<1>3. ScopeFits(Root, scope'[Root]) /\ RetFits(Root)' /\ InOrder(Root, scope'[Root], ret')
  BY <1>1 DEF Nested, RetFits
<1>4. \A b \in Batches : Busy(b)' => Field[ChildOf[b]].isList
  BY <1>1 DEF Nested
<1>5. QED
  BY <1>1, <1>2, <1>3, <1>4, NestedMove

LEMMA CallKeepsNested ==
  ASSUME Nested, NodeTypeOK, NEW c \in Calls, CallStep(c), UNCHANGED <<plan, scope, ret, batch>>
  PROVE  Nested'
<1>1. /\ pc[c] \notin {"idle", "returned"} /\ pc'[c] # "idle"
      /\ \A d \in Calls : d # c => pc'[d] = pc[d] /\ result'[d] = result[d]
  BY CallKeeps
<1>2. ASSUME NEW j \in Jobs
      PROVE  /\ Resolved(j) => Resolved(j)' /\ OwnError(j)' = OwnError(j)
             /\ Busy(j)' => Busy(j)
  BY <1>1, Kinds DEF Jobs, Resolved, OwnError, Busy
<1>3. QED
  BY <1>2, InnerKeeps

LEMMA BatchKeepsNested ==
  ASSUME Nested, NodeTypeOK, Control, NEW b \in Batches, BatchStep(b), UNCHANGED <<plan, scope, ret>>
  PROVE  Nested'
<1>1. /\ batch[b].pc \notin {"idle", "returned"} /\ batch'[b].pc # "idle"
      /\ \A d \in Batches : d # b => batch'[d] = batch[d]
      /\ UNCHANGED <<pc, result>>
  BY BatchKeeps
<1>2. ASSUME NEW j \in Jobs
      PROVE  /\ Resolved(j) => Resolved(j)' /\ OwnError(j)' = OwnError(j)
             /\ Busy(j)' => Busy(j)
  BY <1>1, Kinds DEF Jobs, Resolved, OwnError, Busy
<1>3. QED
  BY <1>2, InnerKeeps

(* A scope that starts the next call of its stage.                         *)
LEMMA StartKeepsNested ==
  ASSUME Nested, NodeTypeOK, plan' = plan, NEW s \in Scopes,
         StartSequentialJob(s) \/ StartParallelJob(s)
  PROVE  Nested'
<1>a. /\ ScopesTyped /\ ScopeFits(s, scope[s]) /\ RetFits(s) /\ InOrder(s, scope[s], ret)
      /\ scope[s] \in ScopeLocals /\ pc \in [Calls -> PCs]
  BY DEF Nested, ScopesTyped, NodeTypeOK
<1>1. PICK x : StartJob(s, x)
  BY DEF StartSequentialJob, StartParallelJob
<1>2. PICK l \in ScopeLocals :
         /\ ScopeBecomes(s, l) /\ ret' = ret
         /\ l.open = scope[s].open /\ l.items = scope[s].items /\ l.stage = scope[s].stage
         /\ l.next = scope[s].next + 1 /\ l.failed = scope[s].failed /\ l.group = scope[s].group
  BY <1>a, <1>1, StartEffect
<1>3. PICK n \in Nat : n = scope[s].next /\ l.next = n + 1 /\ n >= 1
  BY <1>a, <1>2 DEF ScopeLocals
<1>4. PICK j : j = Job(s, l.stage, n)
  OBVIOUS
<1>5. /\ j \in Calls /\ pc[j] = "idle" /\ pc' = [pc EXCEPT ![j] = "enter"] /\ n <= JobCount(s)
      /\ UNCHANGED <<batch, result>>
  <2>1. /\ scope[s].next <= JobCount(s) /\ Job(s, Stage(s), scope[s].next) \in Calls
        /\ \E p : Invoke(Job(s, Stage(s), scope[s].next), p, x)
        /\ UNCHANGED batchVars
    BY <1>1 DEF StartJob
  <2>2. j = Job(s, Stage(s), scope[s].next)
    BY <1>2, <1>3, <1>4 DEF Stage
  <2>3. j \in Calls /\ (\E p : Invoke(j, p, x)) /\ n <= JobCount(s)
    BY <1>3, <2>1, <2>2
  <2>4. QED
    BY <2>1, <2>3 DEF Invoke, At, GoTo, batchVars
<1>6. /\ scope[s].open /\ Mode(s, l.stage) # "batch"
      /\ IsList(s) => Children(s)[l.stage] \in Registered
  BY <1>2 DEF StartSequentialJob, StartParallelJob, InMode, StageKnown, StageChild, Stage
<1>7. ScopesTyped' /\ scope'[s] = l /\ ~ret[s].done
  BY <1>a, <1>2, <1>6 DEF ScopeBecomes, ScopesTyped, RetFits
<1>8. StartedIn(s, l) = StartedIn(s, scope[s]) \cup {j}
  <2>1. /\ StartedIn(s, l) = {Job(s, l.stage, i) : i \in 1..n}
        /\ StartedIn(s, scope[s]) = {Job(s, l.stage, i) : i \in 1..(n - 1)}
    BY <1>2, <1>3, <1>6 DEF StartedIn
  <2>2. 1..n = (1..(n - 1)) \cup {n}
    BY <1>3
  <2>3. QED
    BY <1>4, <2>1, <2>2
<1>9. JobsGoOn(s)
  <2>1. AwaitedBy(j, s, scope'[s])
    BY <1>2, <1>6, <1>7, <1>8 DEF AwaitedBy
  <2>2. ASSUME NEW k \in Jobs
        PROVE  /\ Resolved(k) => Resolved(k)' /\ OwnError(k)' = OwnError(k)
               /\ Busy(k)' /\ ~Busy(k) => k = j
    BY <1>a, <1>5, Kinds DEF Jobs, Busy, Resolved, OwnError
  <2>3. QED
    BY <2>1, <2>2 DEF JobsGoOn
<1>10. HandsOver(s)
  BY <1>2, <1>6, <1>7, <1>8 DEF HandsOver
<1>11. OnlyScope(s)
  <2>1. s # Root => (Resolved(s)' <=> Resolved(s)) /\ OwnError(s)' = OwnError(s) /\ Resolved(s)
    <3>1. s # Root => Resolved(s)
      BY <1>a, <1>6 DEF RetFits
    <3>2. s # j
      BY <1>5, <3>1, Kinds DEF Resolved
    <3>3. QED
      BY <1>5, <3>1, <3>2, Kinds DEF Resolved, OwnError, Scopes
  <2>2. s # Root /\ OwnError(s) # "none" /\ Resolved(s) => ~scope[s].open
    BY DEF Nested, JobFits, Scopes, Jobs
  <2>3. QED
    BY <1>2, <1>6, <1>7, <2>1, <2>2 DEF OnlyScope, ScopeBecomes
<1>12. ScopeFits(s, l)
  <2>1. CountIn(s, l) = JobCount(s) /\ l.next <= CountIn(s, l) + 1
    <3>1. CountIn(s, l) = JobCount(s)
      BY <1>2 DEF CountIn, JobCount
    <3>2. l.items \in Seq(Parents)
      BY DEF ScopeLocals
    <3>3. CountIn(s, l) \in Nat
      BY <3>2, ChildrenTyped, LenProperties DEF CountIn
    <3>4. QED
      BY <1>3, <1>5, <3>1, <3>3
  <2>2. l.failed \subseteq 1..(l.next - 1)
    BY <1>a, <1>2, <1>3 DEF ScopeFits
  <2>3. StartedIn(s, l) \subseteq Jobs
    BY <1>a, <1>5, <1>8, Kinds DEF ScopeFits
  <2>4. QED
    BY <1>a, <1>2, <1>6, <2>1, <2>2, <2>3 DEF ScopeFits
<1>13. RetFits(s)'
  <2>1. s # Root => Resolved(s)'
    <3>1. s # Root => Resolved(s) /\ s \in Jobs
      BY <1>a, <1>6, ChildrenTyped DEF RetFits
    <3>2. QED
      BY <1>9, <3>1 DEF JobsGoOn
  <2>2. QED
    BY <1>a, <1>2, <1>7, <2>1 DEF RetFits
<1>14. InOrder(s, l, ret')
  <2>1. SUFFICES ASSUME Mode(s, l.stage) = "sequential", NEW i \in 1..(l.next - 2)
                 PROVE  LET k == Job(s, l.stage, i) IN ret[k].done /\ ret[k].err = "none"
    BY <1>2 DEF InOrder
  <2>2. CASE i = n - 1
    <3>1. StartSequentialJob(s)
      BY <1>2, <2>1 DEF StartParallelJob, InMode, Stage
    <3>2. n - 1 > 0
      BY <1>3, <2>2
    <3>3. QED
      BY <1>2, <1>3, <2>2, <3>1, <3>2 DEF StartSequentialJob, JobReturned, Stage
  <2>3. CASE i # n - 1
    <3>1. i \in 1..(n - 2)
      BY <1>3, <2>1, <2>3
    <3>2. QED
      BY <1>a, <1>2, <1>3, <1>6, <2>1, <3>1 DEF InOrder
  <2>4. QED
    BY <2>2, <2>3
<1>15. \A b \in Batches : Busy(b)' => Field[ChildOf[b]].isList
  BY <1>5, Kinds DEF Nested, Busy
<1>16. QED
  BY <1>7, <1>9, <1>10, <1>11, <1>12, <1>13, <1>14, <1>15, NestedMove

LEMMA ScopeCtxTyped ==
  ASSUME NodeTypeOK, BatchesTyped, NEW s \in Scopes
  PROVE  ScopeCtx(s) \in SUBSET Ctxs
<1>1. CASE s = Root
  BY <1>1, RequestAssumption DEF ScopeCtx
<1>2. CASE s \in Calls
  BY <1>2, Kinds DEF ScopeCtx, NodeTypeOK
<1>3. CASE s \in Batches
  BY <1>3, Kinds DEF ScopeCtx, BatchesTyped, BatchLocals
<1>4. QED
  BY <1>1, <1>2, <1>3 DEF Scopes

(* A list that starts the batch of its stage.                              *)
LEMMA StartBatchKeepsNested ==
  ASSUME Nested, NodeTypeOK, BatchesTyped, plan' = plan, NEW s \in Scopes, StartBatch(s)
  PROVE  Nested'
<1>a. /\ ScopesTyped /\ ScopeFits(s, scope[s]) /\ RetFits(s)
      /\ scope[s] \in ScopeLocals /\ scope[s].items \in Seq(Parents)
  BY DEF Nested, ScopesTyped, ScopeLocals
<1>1. PICK l \in ScopeLocals :
         /\ ScopeBecomes(s, l) /\ ret' = ret
         /\ l.open = scope[s].open /\ l.items = scope[s].items /\ l.stage = scope[s].stage
         /\ l.next = 2 /\ l.failed = scope[s].failed /\ l.group = scope[s].group
  BY <1>a, StartBatchEffect
<1>2. PICK b : b = StageBatch(s, l.stage)
  OBVIOUS
<1>3. /\ b \in Batches /\ InvokeBatch(b, scope[s].items, ScopeCtx(s)) /\ scope[s].next = 1
      /\ scope[s].open /\ Mode(s, l.stage) = "batch"
      /\ IsList(s) => Children(s)[l.stage] \in Registered
  BY <1>1, <1>2 DEF StartBatch, InMode, StageKnown, StageChild, Stage
<1>4. batch[b].pc = "idle" /\ UNCHANGED <<pc, result>>
  BY <1>3 DEF InvokeBatch, BatchAt
<1>5. batch'[b].pc \in {"classify", "returned"} /\ \A d \in Batches : d # b => batch'[d] = batch[d]
  <2>1. PICK x \in SUBSET Ctxs : x = ScopeCtx(s)
    BY ScopeCtxTyped
  <2>2. PICK q \in BatchLocals :
          /\ BatchBecomes(b, q) /\ q.pc = IF scope[s].items = <<>> THEN "returned" ELSE "classify"
    BY <1>a, <1>3, <2>1, InvokeEffect
  <2>3. QED
    BY <2>2 DEF BatchBecomes
<1>6. ScopesTyped' /\ scope'[s] = l /\ ~ret[s].done
  BY <1>a, <1>1, <1>3 DEF ScopeBecomes, ScopesTyped, RetFits
<1>7. StartedIn(s, l) = {b} /\ StartedIn(s, scope[s]) = {}
  BY <1>1, <1>2, <1>3 DEF StartedIn
<1>8. ASSUME NEW k \in Jobs
      PROVE  /\ Resolved(k) => Resolved(k)' /\ OwnError(k)' = OwnError(k)
             /\ Busy(k)' /\ ~Busy(k) => k = b
             /\ k # b => (Resolved(k)' => Resolved(k))
  BY <1>4, <1>5, Kinds DEF Jobs, Busy, Resolved, OwnError
<1>9. JobsGoOn(s)
  BY <1>1, <1>3, <1>6, <1>7, <1>8 DEF JobsGoOn, AwaitedBy
<1>10. HandsOver(s)
  BY <1>7 DEF HandsOver
<1>11. OnlyScope(s)
  <2>1. s # Root => s \in Jobs /\ Resolved(s) /\ JobFits(s)
    BY <1>a, <1>3, ChildrenTyped DEF RetFits, Nested
  <2>2. s # Root => OwnError(s)' = OwnError(s) /\ (OwnError(s) = "none" \/ ~Resolved(s))
    BY <1>3, <1>8, <2>1 DEF JobFits
  <2>3. QED
    BY <1>1, <1>3, <1>6, <2>1, <2>2 DEF OnlyScope, ScopeBecomes
<1>12. ScopeFits(s, l)
  <2>1. StartedIn(s, l) \subseteq Jobs
    BY <1>3, <1>7, Kinds
  <2>2. l.failed \subseteq 1..(l.next - 1)
    BY <1>a, <1>1, <1>3 DEF ScopeFits
  <2>3. QED
    BY <1>a, <1>1, <1>3, <2>1, <2>2 DEF ScopeFits
<1>13. RetFits(s)'
  <2>1. s # Root => Resolved(s)'
    BY <1>a, <1>3, <1>8, ChildrenTyped DEF RetFits
  <2>2. QED
    BY <1>a, <1>1, <1>6, <2>1 DEF RetFits
<1>14. InOrder(s, l, ret')
  BY <1>3 DEF InOrder
<1>15. ASSUME NEW d \in Batches, Busy(d)' PROVE Field[ChildOf[d]].isList
  <2>1. CASE d = b
    <3>1. ResolvesInBatches(Children(s)[l.stage])
      BY <1>3 DEF Mode
    <3>2. b[2] = Children(s)[l.stage] /\ b[2] = ChildOf[b]
      BY <1>2, <1>3, Kinds DEF StageBatch
    <3>3. QED
      BY <2>1, <3>1, <3>2 DEF ResolvesInBatches
  <2>2. CASE d # b
    BY <1>8, <1>15, <2>2, Kinds DEF Nested
  <2>3. QED
    BY <2>1, <2>2
<1>16. QED
  BY <1>6, <1>9, <1>10, <1>11, <1>12, <1>13, <1>14, <1>15, NestedMove

LEMMA JobErrorsTyped ==
  ASSUME Nested, NEW s \in Scopes, Mode(s, scope[s].stage) # "batch", NEW i \in 1..(scope[s].next - 1)
  PROVE  /\ Job(s, scope[s].stage, i) \in StartedIn(s, scope[s])
         /\ Job(s, scope[s].stage, i) \in Jobs /\ Job(s, scope[s].stage, i) \in Scopes
         /\ JobReturned(s, i) = ret[Job(s, scope[s].stage, i)]
         /\ JobReturned(s, i).done \in BOOLEAN /\ JobReturned(s, i).err \in Errors
         /\ JobReturned(s, i).err # "none" => JobReturned(s, i).done
<1>1. Job(s, scope[s].stage, i) \in StartedIn(s, scope[s])
  BY DEF StartedIn
<1>2. Job(s, scope[s].stage, i) \in Jobs /\ Job(s, scope[s].stage, i) \in Scopes
  BY <1>1 DEF Nested, ScopeFits, Jobs, Scopes
<1>3. QED
  BY <1>1, <1>2 DEF Nested, ScopesTyped, RetFits, JobReturned, Stage

LEMMA JobFailsKeepsNested ==
  ASSUME Nested, plan' = plan, NEW s \in Scopes, ParallelJobFails(s)
  PROVE  Nested'
<1>a. /\ ScopesTyped /\ ScopeFits(s, scope[s]) /\ RetFits(s) /\ InOrder(s, scope[s], ret)
      /\ scope[s] \in ScopeLocals
  BY DEF Nested, ScopesTyped
<1>1. scope[s].open /\ Mode(s, scope[s].stage) = "parallel" /\ UNCHANGED <<pc, batch, result>>
  BY DEF ParallelJobFails, InMode, Stage, batchVars
<1>2. \A i \in 1..(scope[s].next - 1) : JobReturned(s, i).err \in Errors
  BY <1>1, JobErrorsTyped
<1>3. PICK l \in ScopeLocals :
           /\ ScopeBecomes(s, l) /\ ret' = ret
           /\ l.open = scope[s].open /\ l.items = scope[s].items /\ l.stage = scope[s].stage
           /\ l.next = scope[s].next /\ l.group # "none"
           /\ \E i \in 1..(scope[s].next - 1) : l.failed = scope[s].failed \cup {i}
  BY <1>a, <1>2, JobFailsEffect
<1>4. ScopesTyped' /\ scope'[s] = l /\ ~ret[s].done
  BY <1>a, <1>1, <1>3 DEF ScopeBecomes, ScopesTyped, RetFits
<1>5. JobsGoOn(s) /\ (Resolved(s)' <=> Resolved(s)) /\ OwnError(s)' = OwnError(s)
  BY <1>1, JobsUnchanged
<1>6. StartedIn(s, l) = StartedIn(s, scope[s])
  BY <1>3 DEF StartedIn
<1>7. HandsOver(s)
  BY <1>1, <1>3, <1>4, <1>6 DEF HandsOver
<1>8. OnlyScope(s)
  <2>1. s # Root => s \in Jobs /\ JobFits(s)
    BY ChildrenTyped DEF Nested
  <2>2. QED
    BY <1>1, <1>3, <1>4, <1>5, <2>1 DEF OnlyScope, ScopeBecomes, JobFits
<1>9. ScopeFits(s, l)
  <2>1. l.failed \subseteq 1..(l.next - 1)
    BY <1>a, <1>3 DEF ScopeFits
  <2>2. QED
    BY <1>a, <1>3, <1>6, <2>1 DEF ScopeFits, CountIn
<1>10. RetFits(s)'
  BY <1>a, <1>1, <1>3, <1>4, <1>5 DEF RetFits
<1>11. InOrder(s, l, ret')
  BY <1>1, <1>3 DEF InOrder
<1>12. \A b \in Batches : Busy(b)' => Field[ChildOf[b]].isList
  BY <1>1 DEF Nested, Busy
<1>13. QED
  BY <1>4, <1>5, <1>7, <1>8, <1>9, <1>10, <1>11, <1>12, NestedMove

(* A stage ends only when all its jobs have returned, with or without an   *)
(* error, and succeeds only when none has failed.                          *)
LEMMA StageOver ==
  ASSUME Nested, NEW s \in Scopes, StageSucceeded(s) \/ (\E e \in StageErrors(s) : e # "none")
  PROVE  /\ scope[s].open
         /\ \A j \in StartedIn(s, scope[s]) :
              ret[j].done /\ (StageSucceeded(s) => ret[j].err = "none")
<1> DEFINE l == scope[s]
<1>a. /\ ScopeFits(s, l) /\ InOrder(s, l, ret) /\ l \in ScopeLocals
      /\ l.next \in Nat /\ l.next >= 1 /\ l.items \in Seq(Parents)
  BY DEF Nested, ScopesTyped, ScopeLocals
<1>b. CountIn(s, l) = JobCount(s) /\ JobCount(s) \in Nat
  <2>1. CountIn(s, l) = JobCount(s)
    BY DEF CountIn, JobCount
  <2>2. QED
    BY <1>a, <2>1, ChildrenTyped, LenProperties DEF CountIn
<1>1. l.open
  BY DEF StageSucceeded, StageErrors, InMode
<1>2. SUFFICES ASSUME NEW j \in StartedIn(s, l)
               PROVE  ret[j].done /\ (StageSucceeded(s) => ret[j].err = "none")
  BY <1>1
<1>3. l.next > 1 /\ (IsList(s) => StageChild(s) \in Registered)
  <2>1. l.next > 1
    BY <1>a DEF StartedIn
  <2>2. QED
    BY <1>a, <2>1 DEF ScopeFits, StageChild, Stage
<1>4. StageKnown(s)
  BY <1>3 DEF StageKnown
<1>5. CASE Mode(s, l.stage) = "batch"
  <2>1. j = StageBatch(s, l.stage) /\ ret[j].err # "none" => ret[j].done
    BY <1>5, <1>a DEF StartedIn, Nested, ScopeFits, RetFits, Scopes, Jobs
  <2>2. j = StageBatch(s, l.stage)
    BY <1>5 DEF StartedIn
  <2>3. StageSucceeded(s) => ret[j].done /\ ret[j].err = "none"
    BY <1>5, <2>2 DEF StageSucceeded, InMode, Stage
  <2>4. (\E e \in StageErrors(s) : e # "none") => ret[j].err # "none"
    BY <1>4, <1>5, <2>2 DEF StageErrors, InMode, Stage
  <2>5. QED
    BY <2>1, <2>2, <2>3, <2>4
<1>6. CASE Mode(s, l.stage) # "batch"
  <2>1. PICK i \in 1..(l.next - 1) : j = Job(s, l.stage, i)
    BY <1>6 DEF StartedIn
  <2>2. JobReturned(s, i) = ret[j] /\ (ret[j].err # "none" => ret[j].done)
    BY <1>6, <2>1, JobErrorsTyped
  <2>3. i \in 1..JobCount(s)
    BY <1>6, <1>a, <1>b, <2>1 DEF ScopeFits
  <2>4. CASE StageSucceeded(s) /\ Mode(s, l.stage) = "sequential"
    BY <2>2, <2>3, <2>4 DEF StageSucceeded, InMode, Stage, AllJobsReturned
  <2>5. CASE StageSucceeded(s) /\ Mode(s, l.stage) = "parallel"
    <3>1. AllJobsReturned(s) /\ AllFailuresSeen(s) /\ l.group = "none"
      BY <2>5 DEF StageSucceeded, InMode, Stage
    <3>2. l.failed = {}
      BY <1>a, <3>1 DEF ScopeFits
    <3>3. QED
      BY <2>2, <2>3, <3>1, <3>2 DEF AllJobsReturned, AllFailuresSeen
  <2>6. CASE ~StageSucceeded(s) /\ Mode(s, l.stage) = "parallel"
    <3>1. AllJobsReturned(s)
      BY <1>4, <2>6 DEF StageErrors, InMode, Stage
    <3>2. QED
      BY <2>2, <2>3, <2>6, <3>1 DEF AllJobsReturned
  <2>7. CASE ~StageSucceeded(s) /\ Mode(s, l.stage) = "sequential"
    <3>1. PICK m \in 1..(l.next - 1) : JobReturned(s, m).err # "none"
      BY <1>4, <2>7 DEF StageErrors, InMode, Stage
    <3>2. JobReturned(s, m) = ret[Job(s, l.stage, m)] /\ JobReturned(s, m).done
      BY <1>6, <3>1, JobErrorsTyped
    <3>3. m = l.next - 1
      <4>1. SUFFICES ASSUME m # l.next - 1 PROVE FALSE
        OBVIOUS
      <4>2. m \in 1..(l.next - 2)
        BY <1>a, <4>1
      <4>3. QED
        BY <1>1, <1>a, <2>7, <3>1, <3>2, <4>2 DEF InOrder
    <3>4. i = m \/ i \in 1..(l.next - 2)
      BY <1>a, <3>3
    <3>5. QED
      BY <1>1, <1>a, <2>1, <2>2, <2>7, <3>2, <3>4 DEF InOrder
  <2>8. Mode(s, l.stage) \in {"sequential", "parallel"}
    BY <1>6 DEF Mode
  <2>9. QED
    BY <2>4, <2>5, <2>6, <2>7, <2>8
<1>7. QED
  BY <1>5, <1>6

(* A scope that returns.                                                   *)
LEMMA CloseKeepsNested ==
  ASSUME Nested, UNCHANGED <<plan, pc, batch, result>>, NEW s \in Scopes, scope[s].open,
         NEW o, Close(s, o), o.done = TRUE, o.err \in Errors,
         \A j \in StartedIn(s, scope[s]) : ret[j].done /\ (ret[j].err # "none" => o.err # "none")
  PROVE  Nested'
<1>a. /\ ScopesTyped /\ ScopeFits(s, scope[s]) /\ RetFits(s)
      /\ scope[s] \in ScopeLocals
  BY DEF Nested, ScopesTyped
<1>1. PICK l \in ScopeLocals :
           /\ ScopeBecomes(s, l) /\ RetBecomes(s, o)
           /\ ~l.open /\ l.items = scope[s].items /\ l.stage = scope[s].stage
           /\ l.next = scope[s].next /\ l.failed = scope[s].failed /\ l.group = scope[s].group
  BY <1>a, CloseEffect
<1>2. ScopesTyped' /\ scope'[s] = l /\ ret'[s] = o /\ ~ret[s].done
  BY <1>a, <1>1 DEF ScopeBecomes, RetBecomes, ScopesTyped, RetFits
<1>3. JobsGoOn(s) /\ (Resolved(s)' <=> Resolved(s)) /\ OwnError(s)' = OwnError(s)
  BY JobsUnchanged
<1>4. StartedIn(s, l) = StartedIn(s, scope[s])
  BY <1>1 DEF StartedIn
<1>5. HandsOver(s)
  BY <1>2, <1>4 DEF HandsOver
<1>6. s # Root => Resolved(s) /\ Busy(s) /\ OwnError(s) = "none"
  <2>1. s # Root => Resolved(s) /\ s \in Jobs /\ JobFits(s)
    BY <1>a, ChildrenTyped DEF Nested, RetFits
  <2>2. QED
    BY <2>1 DEF JobFits, Resolved, Busy
<1>7. OnlyScope(s)
  BY <1>1, <1>2, <1>3, <1>6 DEF OnlyScope, ScopeBecomes, RetBecomes
<1>8. ScopeFits(s, l)
  BY <1>a, <1>1, <1>4 DEF ScopeFits, CountIn
<1>9. RetFits(s)'
  BY <1>1, <1>2, <1>3, <1>6 DEF RetFits
<1>10. InOrder(s, l, ret')
  BY <1>1 DEF InOrder
<1>11. \A b \in Batches : Busy(b)' => Field[ChildOf[b]].isList
  BY DEF Nested, Busy
<1>12. QED
  BY <1>2, <1>3, <1>5, <1>7, <1>8, <1>9, <1>10, <1>11, NestedMove

LEMMA EndKeepsNested ==
  ASSUME Nested, plan' = plan, NEW s \in Scopes, EndStage(s) \/ FailStage(s)
  PROVE  Nested'
<1>a. UNCHANGED <<plan, pc, batch, result>>
  BY DEF EndStage, FailStage, allBatchVars, nodeVars, batchVars
<1>1. CASE FailStage(s)
  <2>1. PICK e \in StageErrors(s) \ {"none"} : Close(s, Returned(Nil, e))
    BY <1>1 DEF FailStage
  <2>2. scope[s].open /\ \A j \in StartedIn(s, scope[s]) : ret[j].done
    BY <2>1, StageOver
  <2>3. e \in Errors
    <3>1. {"no field spec"} \subseteq Errors
      BY DEF Errors
    <3>2. InMode(s, "sequential") => \A i \in 1..(scope[s].next - 1) : JobReturned(s, i).err \in Errors
      BY JobErrorsTyped DEF InMode, Stage
    <3>3. scope[s].group \in Errors
      BY DEF Nested, ScopesTyped, ScopeLocals
    <3>4. InMode(s, "batch") /\ scope[s].next = 2 => ret[StageBatch(s, Stage(s))].err \in Errors
      <4>1. SUFFICES ASSUME InMode(s, "batch"), scope[s].next = 2
                     PROVE  ret[StageBatch(s, Stage(s))].err \in Errors
        OBVIOUS
      <4>2. StageBatch(s, Stage(s)) \in StartedIn(s, scope[s])
        BY <4>1 DEF StartedIn, InMode, Stage
      <4>3. StageBatch(s, Stage(s)) \in Scopes
        BY <4>2 DEF Nested, ScopeFits, Scopes, Jobs
      <4>4. QED
        BY <4>3 DEF Nested, ScopesTyped
    <3>5. QED
      BY <2>1, <3>1, <3>2, <3>3, <3>4 DEF StageErrors
  <2>4. Returned(Nil, e).done = TRUE
    BY DEF Returned
  <2>5. Returned(Nil, e).err = e
    BY DEF Returned
  <2>6. QED
    BY <1>a, <2>1, <2>2, <2>3, <2>4, <2>5, CloseKeepsNested
<1>2. ASSUME StageSucceeded(s), Close(s, Returned(Assembled(s), "none")) PROVE Nested'
  <2>1. scope[s].open /\ \A j \in StartedIn(s, scope[s]) : ret[j].done /\ ret[j].err = "none"
    BY <1>2, StageOver
  <2>2. Returned(Assembled(s), "none").done = TRUE
    BY DEF Returned
  <2>3. Returned(Assembled(s), "none").err = "none"
    BY DEF Returned
  <2>4. "none" \in Errors
    BY DEF Errors
  <2>5. QED
    BY <1>a, <1>2, <2>1, <2>2, <2>3, <2>4, CloseKeepsNested
<1>3. ASSUME StageSucceeded(s), Stage(s) < StageCount(s), UNCHANGED ret,
             scope' = [scope EXCEPT ![s] =
                         [Opened(scope[s].items) EXCEPT !.stage = scope[s].stage + 1]]
      PROVE  Nested'
  <2>a. /\ ScopesTyped /\ ScopeFits(s, scope[s]) /\ RetFits(s) /\ scope[s] \in ScopeLocals
    BY DEF Nested, ScopesTyped
  <2>1. scope[s].open /\ \A j \in StartedIn(s, scope[s]) : ret[j].done /\ ret[j].err = "none"
    BY <1>3, StageOver
  <2>2. PICK l \in ScopeLocals :
           /\ ScopeBecomes(s, l)
           /\ l.open /\ l.items = scope[s].items /\ l.stage = scope[s].stage + 1
           /\ l.next = 1 /\ l.failed = {} /\ l.group = "none"
    BY <1>3, <2>a, NextStageEffect
  <2>3. ScopesTyped' /\ scope'[s] = l /\ ~ret[s].done
    BY <1>3, <2>a, <2>1, <2>2 DEF ScopeBecomes, ScopesTyped, RetFits
  <2>4. JobsGoOn(s) /\ (Resolved(s)' <=> Resolved(s)) /\ OwnError(s)' = OwnError(s)
    BY <1>a, JobsUnchanged
  <2>5. HandsOver(s)
    BY <2>1 DEF HandsOver
  <2>6. OnlyScope(s)
    <3>1. s # Root => s \in Jobs /\ JobFits(s)
      BY ChildrenTyped DEF Nested
    <3>2. QED
      BY <1>3, <2>1, <2>2, <2>3, <2>4, <3>1 DEF OnlyScope, ScopeBecomes, JobFits
  <2>7. ScopeFits(s, l)
    <3>1. StartedIn(s, l) = {}
      BY <2>2 DEF StartedIn
    <3>2. l.stage \in 1..Larger(1, StageCount(s))
      <4>1. PICK k \in Nat, m \in Nat : k = scope[s].stage /\ m = StageCount(s) /\ k < m
        BY <1>3, <2>a, ChildrenTyped DEF Stage, ScopeLocals
      <4>2. l.stage = k + 1 /\ Larger(1, m) = m
        BY <2>2, <4>1 DEF Larger
      <4>3. QED
        BY <4>1, <4>2
    <3>3. CountIn(s, l) \in Nat
      <4>1. l.items \in Seq(Parents)
        BY DEF ScopeLocals
      <4>2. QED
        BY <4>1, ChildrenTyped, LenProperties DEF CountIn
    <3>4. l.next <= CountIn(s, l) + 1 /\ ~(l.next > 1) /\ l.failed \subseteq 1..(l.next - 1)
      BY <2>2, <3>3
    <3>5. (s = Root \/ Children(s) # <<>>) /\ (~IsList(s) => Len(l.items) >= 1)
      BY <2>a, <2>1, <2>2 DEF ScopeFits
    <3>6. QED
      BY <2>2, <3>1, <3>2, <3>4, <3>5 DEF ScopeFits
  <2>8. RetFits(s)'
    BY <1>3, <2>a, <2>1, <2>2, <2>3, <2>4 DEF RetFits
  <2>9. InOrder(s, l, ret')
    BY <2>2 DEF InOrder
  <2>10. \A b \in Batches : Busy(b)' => Field[ChildOf[b]].isList
    BY <1>a DEF Nested, Busy
  <2>11. QED
    BY <2>3, <2>4, <2>5, <2>6, <2>7, <2>8, <2>9, <2>10, NestedMove
<1>4. QED
  BY <1>1, <1>2, <1>3 DEF EndStage, Stage

(* A job whose value is passed on as it is, or whose error is.             *)
LEMMA ReturnKeepsNested ==
  ASSUME Nested, UNCHANGED <<plan, pc, batch, result, scope>>, NEW j \in Jobs, Resolved(j),
         ~scope[j].open, ~ret[j].done, NEW o, ret' = [ret EXCEPT ![j] = o],
         o.done = TRUE, o.err \in Errors, OwnError(j) # "none" => o.err # "none"
  PROVE  Nested'
<1>a. /\ ScopesTyped /\ ScopeFits(j, scope[j]) /\ j \in Scopes /\ j # Root
  BY Kinds DEF Nested, Scopes, Jobs
<1>1. RetBecomes(j, o) /\ ScopesTyped'
  BY <1>a, PutRet DEF ScopesTyped, RetBecomes
<1>2. JobsGoOn(j) /\ (Resolved(j)' <=> Resolved(j)) /\ OwnError(j)' = OwnError(j) /\ Busy(j)
  BY JobsUnchanged DEF Busy, Resolved
<1>3. HandsOver(j)
  BY DEF HandsOver
<1>4. OnlyScope(j)
  BY <1>1, <1>2 DEF OnlyScope, RetBecomes
<1>5. RetFits(j)'
  BY <1>1, <1>2 DEF RetFits, RetBecomes
<1>6. InOrder(j, scope'[j], ret')
  BY DEF InOrder
<1>7. \A b \in Batches : Busy(b)' => Field[ChildOf[b]].isList
  BY DEF Nested, Busy
<1>8. QED
  BY <1>a, <1>1, <1>2, <1>3, <1>4, <1>5, <1>6, <1>7, NestedMove

(* A job whose value has fields to resolve.                                *)
LEMMA OpenKeepsNested ==
  ASSUME Nested, UNCHANGED <<plan, pc, batch, result, ret>>, NEW j \in Jobs, Resolved(j),
         ~scope[j].open, ~ret[j].done, OwnError(j) = "none", NEW items \in Seq(Parents),
         scope' = [scope EXCEPT ![j] = Opened(items)], Children(j) # <<>>,
         ~IsList(j) => Len(items) >= 1
  PROVE  Nested'
<1>a. ScopesTyped /\ j \in Scopes /\ j # Root
  BY Kinds DEF Nested, Scopes, Jobs
<1>1. PICK l \in ScopeLocals :
        /\ l = Opened(items) /\ l.open /\ l.items = items
        /\ l.stage = 1 /\ l.next = 1 /\ l.failed = {} /\ l.group = "none"
  BY OpenedFacts
<1>2. ScopeBecomes(j, l) /\ ScopesTyped'
  BY <1>a, <1>1, PutScope DEF ScopesTyped, ScopeBecomes
<1>3. JobsGoOn(j) /\ (Resolved(j)' <=> Resolved(j)) /\ OwnError(j)' = OwnError(j) /\ Busy(j)
  BY JobsUnchanged DEF Busy, Resolved
<1>4. HandsOver(j)
  BY DEF HandsOver
<1>5. OnlyScope(j)
  <2>1. ret[j].err = "none"
    BY <1>a DEF Nested, RetFits
  <2>2. QED
    BY <1>2, <1>3, <2>1 DEF OnlyScope, ScopeBecomes
<1>6. ScopeFits(j, l)
  <2>1. StartedIn(j, l) = {}
    BY <1>1 DEF StartedIn
  <2>2. 1 \in 1..Larger(1, StageCount(j))
    BY <1>a, ChildrenTyped DEF Larger
  <2>3. CountIn(j, l) \in Nat
    <3>1. l.items \in Seq(Parents)
      BY DEF ScopeLocals
    <3>2. QED
      BY <1>a, <3>1, ChildrenTyped, LenProperties DEF CountIn
  <2>4. l.next <= CountIn(j, l) + 1 /\ ~(l.next > 1) /\ l.failed \subseteq 1..(l.next - 1)
    BY <1>1, <2>3
  <2>5. QED
    BY <1>1, <2>1, <2>2, <2>4 DEF ScopeFits
<1>7. RetFits(j)'
  BY <1>a, <1>2, <1>3 DEF Nested, RetFits, ScopeBecomes
<1>8. InOrder(j, l, ret')
  BY <1>1 DEF InOrder
<1>9. \A b \in Batches : Busy(b)' => Field[ChildOf[b]].isList
  BY DEF Nested, Busy
<1>10. QED
  BY <1>a, <1>2, <1>3, <1>4, <1>5, <1>6, <1>7, <1>8, <1>9, NestedMove DEF ScopeBecomes

(* What a field with children is answered is what they are resolved on,    *)
(* also when the cache answers with what a field of another node put there. *)
LEMMA AnswersAreParents ==
  ASSUME NEW n \in Nodes, NEW p \in Parents, NEW v \in AnswersFor(n, p), Field[n].children # <<>>
  PROVE  IF Field[n].isList THEN v \in Slices => v \in Seq(Parents) ELSE v \in Parents
<1>1. PICK m \in Nodes, r \in Parents : v \in Answers[m][r] /\ Field[m].resolver = Field[n].resolver
  <2>1. CASE ShouldUseNodeCache(n)
    <3>1. PICK x \in Nodes \X Parents :
            v \in Answers[x[1]][x[2]] /\ CacheKeyForNode(x[1], x[2]) = CacheKeyForNode(n, p)
      BY <2>1 DEF AnswersFor, AnswersAt, Sharing
    <3>2. CacheKeyForNode(x[1], x[2])[1] = CacheKeyForNode(n, p)[1]
      BY <3>1
    <3>3. Field[x[1]].resolver = Field[n].resolver
      BY <3>2 DEF CacheKeyForNode
    <3>4. QED
      BY <3>1, <3>3
  <2>2. CASE ~ShouldUseNodeCache(n)
    BY <2>2 DEF AnswersFor
  <2>3. QED
    BY <2>1, <2>2
<1>2. Field[m].isList = Field[n].isList /\ Field[m].children # <<>>
  BY <1>1, SchemaAssumption
<1>3. QED
  BY <1>1, <1>2, SchemaAssumption

LEMMA DispatchKeepsNested ==
  ASSUME Nested, NodeTypeOK, ValuesTold, plan' = plan, NEW c \in Calls, Dispatch(c)
  PROVE  Nested'
<1> DEFINE n == NodeOf[c]
           v == result[c].val
           leaf == v = Nil \/ Field[n].children = <<>>
           bad == ~leaf /\ Field[n].isList /\ ~IsSliceOrNil(v)
<1>a. /\ c \in Jobs /\ Resolved(c) /\ OwnError(c) = result[c].err /\ result[c].err \in Errors
      /\ ~scope[c].open /\ ~ret[c].done /\ UNCHANGED <<plan, pc, batch, result>>
      /\ pc[c] = "returned" /\ c[2] = n /\ n \in Nodes /\ parent[c] \in Parents
  BY Kinds DEF Dispatch, At, Resolved, OwnError, NodeTypeOK, Outcomes, allBatchVars, nodeVars, batchVars
<1>1. CASE UNCHANGED scope /\ ret' = [ret EXCEPT ![c] =
                IF result[c].err # "none" THEN Returned(Nil, result[c].err)
                ELSE IF leaf THEN Returned(v, "none") ELSE Returned(Nil, "not a slice")]
  <2>1. PICK o : o = IF result[c].err # "none" THEN Returned(Nil, result[c].err)
                     ELSE IF leaf THEN Returned(v, "none") ELSE Returned(Nil, "not a slice")
    OBVIOUS
  <2> HIDE DEF leaf, v
  <2>2. o.done = TRUE
    BY <2>1 DEF Returned
  <2>3. o.err = IF result[c].err # "none" THEN result[c].err ELSE IF leaf THEN "none" ELSE "not a slice"
    BY <2>1 DEF Returned
  <2>4. "none" \in Errors /\ "not a slice" \in Errors
    BY DEF Errors
  <2>5. o.err \in Errors /\ (OwnError(c) # "none" => o.err # "none")
    BY <1>a, <2>3, <2>4
  <2>6. QED
    BY <1>1, <1>a, <2>1, <2>2, <2>5, ReturnKeepsNested
<1>2. CASE /\ result[c].err = "none" /\ ~leaf /\ ~bad /\ UNCHANGED ret
           /\ scope' = [scope EXCEPT ![c] = Opened(IF Field[n].isList THEN Elements(v) ELSE <<v>>)]
  <2>1. v \in AnswersFor(n, parent[c])
    BY <1>2, <1>a DEF ValuesTold, CallTells, Tells
  <2>2. IF Field[n].isList THEN v \in Slices => v \in Seq(Parents) ELSE v \in Parents
    BY <1>2, <1>a, <2>1, AnswersAreParents
  <2>3. PICK items \in Seq(Parents) :
          /\ items = IF Field[n].isList THEN Elements(v) ELSE <<v>>
          /\ ~Field[n].isList => Len(items) >= 1
    <3>1. CASE Field[n].isList
      BY <1>2, <2>2, <3>1 DEF Elements, IsSliceOrNil
    <3>2. CASE ~Field[n].isList
      <4>1. v \in Parents
        BY <2>2, <3>2
      <4> HIDE DEF v
      <4>2. <<v>> \in Seq(Parents) /\ Len(<<v>>) >= 1
        BY <4>1
      <4>3. QED
        BY <3>2, <4>2
    <3>3. QED
      BY <3>1, <3>2
  <2>4. Children(c) # <<>> /\ (~IsList(c) => Len(items) >= 1)
    BY <1>2, <1>a, <2>3, Kinds DEF Children, IsList
  <2>5. QED
    BY <1>2, <1>a, <2>3, <2>4, OpenKeepsNested
<1>3. QED
  BY <1>1, <1>2 DEF Dispatch

LEMMA DispatchBatchKeepsNested ==
  ASSUME Nested, Control, ValuesTold, plan' = plan, NEW b \in Batches, DispatchBatch(b)
  PROVE  Nested'
<1> DEFINE vs == batch[b].out
           e == batch[b].err
           leaf == vs = <<>> \/ Field[b[2]].children = <<>>
           bad == \E i \in DOMAIN vs : ~IsSliceOrNil(vs[i])
           materialize == e = "none" /\ ~leaf /\ ~bad /\ Flatten(vs) # <<>>
           outcome ==
             CASE e # "none" -> Returned(Nil, e)
               [] e = "none" /\ leaf -> Returned(vs, "none")
               [] e = "none" /\ ~leaf /\ bad -> Returned(Nil, "not a slice")
               [] OTHER -> Returned([i \in DOMAIN vs |-> <<>>], "none")
<1>a. /\ b \in Jobs /\ Resolved(b) /\ OwnError(b) = e /\ ~scope[b].open /\ ~ret[b].done
      /\ UNCHANGED <<plan, pc, batch, result>> /\ batch[b].pc = "returned" /\ b[2] = ChildOf[b]
      /\ b[2] \in Nodes /\ Busy(b)
  BY Kinds DEF DispatchBatch, BatchAt, Resolved, Busy, OwnError, allBatchVars, nodeVars, batchVars
<1>b. /\ batch[b] \in BatchLocals /\ Fits(b, batch[b], chunk[b]) /\ Field[b[2]].isList
      /\ e \in Errors /\ vs \in Seq(Values) /\ batch[b].items \in Seq(Parents)
  BY <1>a DEF Control, BatchesTyped, BatchLocals, Nested
<1>1. CASE materialize /\ scope' = [scope EXCEPT ![b] = Opened(Flatten(vs))] /\ UNCHANGED ret
  <2>1. Len(vs) \in Nat /\ DOMAIN vs = 1..Len(vs) /\ DOMAIN batch[b].items = 1..Len(vs)
    BY <1>b, LenProperties DEF Fits, SortingFits
  <2>2. ASSUME NEW i \in 1..Len(vs) PROVE Elements(vs[i]) \in Seq(Parents)
    <3>1. Told(entries, b, batch[b], i) /\ batch[b].items[i] \in Parents
      BY <1>1, <1>a, <2>1, ReturnedTells
    <3>2. IsSliceOrNil(vs[i]) /\ Field[b[2]].children # <<>>
      BY <1>1, <2>1
    <3>3. CASE vs[i] = Nil
      BY <3>3 DEF Elements
    <3>4. CASE vs[i] # Nil
      <4>1. vs[i] \in AnswersFor(b[2], batch[b].items[i]) \/ vs[i] \in ErrorValues
        BY <1>1, <1>a, <2>1, AnsweredOrHitFailed
      <4>2. vs[i] \in Slices => vs[i] \in Seq(Parents)
        BY <1>a, <1>b, <3>1, <3>2, <4>1, AnswersAreParents, SchemaAssumption
      <4>3. QED
        BY <3>2, <3>4, <4>2 DEF IsSliceOrNil, Elements
    <3>5. QED
      BY <3>3, <3>4
  <2>3. PICK items \in Seq(Parents) : items = Flatten(vs)
    <3>1. Flatten(vs) \in Seq(Parents)
      BY <2>1, <2>2, FlattenTyped
    <3>2. QED
      BY <3>1
  <2>4. Children(b) # <<>> /\ IsList(b)
    BY <1>1, <1>a, <1>b, Kinds DEF Children, IsList
  <2>5. QED
    BY <1>1, <1>a, <2>3, <2>4, OpenKeepsNested
<1>2. CASE UNCHANGED scope /\ ret' = [ret EXCEPT ![b] = outcome]
  <2>1. PICK o : o = outcome
    OBVIOUS
  <2>2. \/ e # "none" /\ o = Returned(Nil, e)
        \/ e = "none" /\ o = Returned(vs, "none")
        \/ e = "none" /\ o = Returned(Nil, "not a slice")
        \/ e = "none" /\ o = Returned([i \in DOMAIN vs |-> <<>>], "none")
    <3> HIDE DEF e, leaf, bad, vs
    <3>1. QED
      BY <2>1
  <2> HIDE DEF outcome, materialize, bad, leaf, e, vs
  <2>a. ASSUME NEW v, NEW x, o = Returned(v, x) PROVE o.done = TRUE /\ o.err = x
    <3>1. o.done = TRUE
      BY <2>a DEF Returned
    <3>2. o.err = x
      BY <2>a DEF Returned
    <3>3. QED
      BY <3>1, <3>2
  <2>3. o.done = TRUE
    BY <2>2, <2>a
  <2>4. o.err \in {e, "none", "not a slice"} /\ (e # "none" => o.err = e)
    BY <2>2, <2>a
  <2>5. "none" \in Errors /\ "not a slice" \in Errors
    BY DEF Errors
  <2>6. o.err \in Errors /\ (OwnError(b) # "none" => o.err # "none")
    BY <1>a, <1>b, <2>4, <2>5
  <2>7. ret' = [ret EXCEPT ![b] = o]
    BY <1>2, <2>1
  <2>8. QED
    BY <1>2, <1>a, <2>3, <2>6, <2>7, ReturnKeepsNested
<1>3. QED
  BY <1>1, <1>2 DEF DispatchBatch

-----------------------------------------------------------------------------
(* Every step of an execution is one that calls and batches are proved to  *)
(* withstand.                                                              *)
LEMMA ExecGoesOn ==
  ASSUME Nested, NodeTypeOK, BatchesTyped, ExecNext
  PROVE  GoesOn
<1>a. ASSUME NEW s \in Scopes, scope[s].open
      PROVE  /\ ScopeCtx(s) \in SUBSET Ctxs
             /\ scope[s].items \in Seq(Parents)
             /\ GroupCtx(s, Stage(s)) \in Ctxs
             /\ Len(scope[s].items) \in Nat
             /\ \A i \in 1..Len(scope[s].items) : scope[s].items[i] \in Parents
             /\ ~IsList(s) => Len(scope[s].items) >= 1
             /\ scope[s].next \in Nat /\ scope[s].next >= 1
  <2>1. ScopesTyped /\ ScopeFits(s, scope[s]) /\ scope[s] \in ScopeLocals
    BY DEF Nested, ScopesTyped
  <2>2. scope[s].items \in Seq(Parents) /\ scope[s].next \in Nat /\ scope[s].next >= 1
    BY <2>1 DEF ScopeLocals
  <2>3. /\ Len(scope[s].items) \in Nat
        /\ \A i \in 1..Len(scope[s].items) : scope[s].items[i] \in Parents
    BY <2>2, LenProperties, ElementOfSeq
  <2>4. GroupCtx(s, Stage(s)) \in Ctxs
    BY <2>1, RequestAssumption DEF ScopeFits, Stage
  <2>5. ~IsList(s) => Len(scope[s].items) >= 1
    BY <1>a, <2>1 DEF ScopeFits
  <2>6. QED
    BY <2>2, <2>3, <2>4, <2>5, ScopeCtxTyped
<1>b. ASSUME NEW s \in Scopes, scope[s].open, NEW x \in SUBSET Ctxs, StartJob(s, x)
      PROVE  GoesOn
  <2> DEFINE i == scope[s].next
             item == IF IsList(s) THEN scope[s].items[i] ELSE scope[s].items[1]
  <2>1. item \in Parents
    <3>1. IsList(s) => i \in 1..Len(scope[s].items)
      BY <1>a, <1>b DEF StartJob, JobCount
    <3>2. QED
      BY <1>a, <1>b, <3>1
  <2>2. Job(s, Stage(s), i) \in Calls /\ Invoke(Job(s, Stage(s), i), item, x) /\ UNCHANGED batchVars
    BY <1>b DEF StartJob
  <2>3. QED
    BY <2>1, <2>2 DEF GoesOn, Outside
<1>1. ASSUME NEW s \in Scopes, StartSequentialJob(s) PROVE GoesOn
  BY <1>1, <1>a, <1>b DEF StartSequentialJob, InMode
<1>2. ASSUME NEW s \in Scopes, StartParallelJob(s) PROVE GoesOn
  <2>1. scope[s].open /\ StartJob(s, ScopeCtx(s) \cup {GroupCtx(s, Stage(s))})
    BY <1>2 DEF StartParallelJob, InMode
  <2>2. ScopeCtx(s) \cup {GroupCtx(s, Stage(s))} \in SUBSET Ctxs
    BY <1>a, <2>1
  <2>3. QED
    BY <1>b, <2>1, <2>2
<1>3. ASSUME NEW s \in Scopes, ParallelJobFails(s) PROVE GoesOn
  <2>1. PICK x \in Ctxs : x = GroupCtx(s, Stage(s))
    BY <1>3, <1>a DEF ParallelJobFails, InMode
  <2>2. /\ cancelled' = cancelled \cup {x}
        /\ UNCHANGED <<entries, gate, rt, pc, parent, ctx, result, batchVars>>
    BY <1>3, <2>1 DEF ParallelJobFails
  <2>3. CASE x \in cancelled
    <3>1. cancelled' = cancelled
      BY <2>2, <2>3
    <3>2. QED
      BY <2>2, <3>1 DEF GoesOn, Outside, nodeVars
  <2>4. CASE x \notin cancelled
    BY <2>2, <2>4 DEF GoesOn, Outside, Cancel
  <2>5. QED
    BY <2>3, <2>4
<1>4. ASSUME NEW s \in Scopes, StartBatch(s) PROVE GoesOn
  <2>1. /\ scope[s].open /\ StageBatch(s, Stage(s)) \in Batches
        /\ InvokeBatch(StageBatch(s, Stage(s)), scope[s].items, ScopeCtx(s))
    BY <1>4 DEF StartBatch, InMode
  <2>2. QED
    BY <1>a, <2>1 DEF GoesOn, BatchMove
<1>5. ASSUME UNCHANGED allBatchVars PROVE GoesOn
  BY <1>5 DEF GoesOn, Outside, allBatchVars
<1>6. ASSUME CancelRequest PROVE GoesOn
  BY <1>6, BatchesAssumption DEF CancelRequest, GoesOn, Outside
<1>7. QED
  BY <1>1, <1>2, <1>3, <1>4, <1>5, <1>6
  DEF ExecNext, Progress, ScopeStep, EndStage, FailStage, Dispatch, DispatchBatch, Responded,
      execVars, GoesOn, BatchMove

(* What an execution keeps: the types and the control of its batches, the  *)
(* single party that owes each entry, the values told by the resolvers,    *)
(* and the nesting of the scopes.                                          *)
Executing ==
  TypedBatches /\ BatchOwnership /\ ValuesTold /\ Nested /\ plan \in Plans

LEMMA ExecutingInit == ExecInit => Executing
BY NestedInit, TypedBatchesInit, BatchOwnershipInit, ValuesInit DEF ExecInit, Executing

LEMMA NestedStep ==
  ASSUME TypedBatches, ValuesTold, Nested, ExecNext
  PROVE  Nested' /\ plan' = plan
<1>a. NodeTypeOK /\ Control /\ BatchesTyped
  BY DEF TypedBatches, Control
<1>b. plan' = plan
  BY DEF ExecNext, Responded, execVars
<1>1. ASSUME NEW s \in Scopes, ScopeStep(s) PROVE Nested'
  <2>1. CASE StartSequentialJob(s) \/ StartParallelJob(s)
    BY <1>a, <1>b, <2>1, StartKeepsNested
  <2>2. CASE ParallelJobFails(s)
    BY <1>a, <1>b, <2>2, JobFailsKeepsNested
  <2>3. CASE StartBatch(s)
    BY <1>a, <1>b, <2>3, StartBatchKeepsNested
  <2>4. CASE EndStage(s) \/ FailStage(s)
    BY <1>a, <1>b, <2>4, EndKeepsNested
  <2>5. QED
    BY <1>1, <2>1, <2>2, <2>3, <2>4 DEF ScopeStep
<1>2. ASSUME NEW c \in Calls, Dispatch(c) PROVE Nested'
  BY <1>2, <1>a, <1>b, DispatchKeepsNested
<1>3. ASSUME NEW c \in Calls, CallStep(c), UNCHANGED <<batchVars, scope, ret>> PROVE Nested'
  BY <1>3, <1>a, <1>b, CallKeepsNested DEF batchVars
<1>4. ASSUME NEW b \in Batches, DispatchBatch(b) PROVE Nested'
  BY <1>4, <1>a, <1>b, DispatchBatchKeepsNested
<1>5. ASSUME NEW b \in Batches, BatchStep(b), UNCHANGED <<scope, ret>> PROVE Nested'
  BY <1>5, <1>a, <1>b, BatchKeepsNested
<1>6. ASSUME CancelRequest \/ Responded PROVE Nested'
  <2>1. UNCHANGED <<pc, batch, result, scope, ret>>
    BY <1>6 DEF CancelRequest, Cancel, Responded, execVars, allBatchVars, nodeVars, batchVars
  <2>2. ASSUME NEW j \in Jobs
        PROVE  /\ Resolved(j) => Resolved(j)' /\ OwnError(j)' = OwnError(j)
               /\ Busy(j)' => Busy(j)
    BY <2>1, JobsUnchanged
  <2>3. QED
    BY <1>b, <2>1, <2>2, InnerKeeps
<1>7. QED
  BY <1>b, <1>1, <1>2, <1>3, <1>4, <1>5, <1>6 DEF ExecNext, Progress

LEMMA ExecStepGoesOn == Executing /\ [ExecNext]_execVars => GoesOn
<1> SUFFICES ASSUME Executing, [ExecNext]_execVars PROVE GoesOn
  OBVIOUS
<1>1. CASE ExecNext
  BY <1>1, ExecGoesOn DEF Executing, TypedBatches, Control
<1>2. CASE UNCHANGED execVars
  BY <1>2 DEF execVars, allBatchVars, batchVars, GoesOn, Outside
<1>3. QED
  BY <1>1, <1>2

LEMMA ExecutingStep == Executing /\ [ExecNext]_execVars => Executing'
<1> SUFFICES ASSUME Executing, [ExecNext]_execVars PROVE Executing'
  OBVIOUS
<1>a. TypedBatches /\ BatchOwnership /\ ValuesTold /\ Nested /\ plan \in Plans
  BY DEF Executing
<1>1. CASE ExecNext
  <2>1. GoesOn
    BY ExecStepGoesOn
  <2>2. TypedBatches' /\ BatchOwnership' /\ ValuesTold'
    BY <1>a, <2>1, TypedBatchesStep, BatchOwnershipStep, ValuesStep
  <2>3. Nested' /\ plan' = plan
    BY <1>a, <1>1, NestedStep
  <2>4. QED
    BY <1>a, <2>2, <2>3 DEF Executing
<1>2. CASE UNCHANGED execVars
  <2>1. GoesOn
    BY ExecStepGoesOn
  <2>2. TypedBatches' /\ BatchOwnership' /\ ValuesTold'
    BY <1>a, <2>1, TypedBatchesStep, BatchOwnershipStep, ValuesStep
  <2>3. UNCHANGED <<pc, batch, result, scope, ret, plan>>
    BY <1>2 DEF execVars, allBatchVars, nodeVars, batchVars
  <2>4. ASSUME NEW j \in Jobs
        PROVE  /\ Resolved(j) => Resolved(j)' /\ OwnError(j)' = OwnError(j)
               /\ Busy(j)' => Busy(j)
    BY <2>3, JobsUnchanged
  <2>5. Nested'
    BY <1>a, <2>3, <2>4, InnerKeeps
  <2>6. QED
    BY <1>a, <2>2, <2>3, <2>5 DEF Executing
<1>3. QED
  BY <1>1, <1>2

LEMMA ExecutingKept == ExecSpec => []Executing
BY ExecutingInit, ExecutingStep, PTL DEF ExecSpec

-----------------------------------------------------------------------------
(* An execution keeps its locals typed: no stage runs past the fields it   *)
(* was made for, no cursor past the jobs, and an errgroup remembers only   *)
(* failures of jobs it has started.                                        *)
THEOREM ExecutionTyped == ExecSpec => []ExecTypeOK
<1>1. Executing => ExecTypeOK
  <2> SUFFICES ASSUME Executing PROVE ExecTypeOK
    OBVIOUS
  <2>1. BatchTypeOK /\ plan \in Plans /\ ScopesTyped
    BY TypedBatchesTypes DEF Executing, Nested
  <2>2. ASSUME NEW s \in Scopes
        PROVE  /\ scope[s].open \in BOOLEAN /\ scope[s].next \in Nat
               /\ scope[s].stage \in 1..Larger(1, StageCount(s))
               /\ scope[s].failed \subseteq 1..(scope[s].next - 1)
               /\ scope[s].group \in Errors
               /\ ret[s].done \in BOOLEAN /\ ret[s].err \in Errors
    BY <2>1 DEF Executing, Nested, ScopesTyped, ScopeLocals, ScopeFits
  <2>3. QED
    BY <2>1, <2>2 DEF ExecTypeOK
<1>2. QED
  BY <1>1, ExecutingKept, PTL

-----------------------------------------------------------------------------
(* executePlan only does to its calls and batches what their modules       *)
(* foresee, so what is proved of them alone holds inside an execution: no  *)
(* two parties owe one entry, the counters of a node account for what it   *)
(* was asked, and a failed chunk fails its batch.                          *)
THEOREM BatchesInExecution ==
  ExecSpec => [](OneOwnerPerKey /\ ItemAccounting /\ ChunkFailureReported)
<1>1. ExecInit => Books
  BY BooksInit DEF ExecInit
<1>2. Executing /\ Books /\ [ExecNext]_execVars => Books'
  BY ExecStepGoesOn, BooksStep DEF Executing
<1>3. Executing /\ Books => OneOwnerPerKey /\ ItemAccounting /\ ChunkFailureReported
  BY OwnershipGivesOneOwner, BooksGiveAccounting, FitsReport DEF Executing
<1>4. QED
  BY <1>1, <1>2, <1>3, ExecutingKept, PTL DEF ExecSpec

(* Where the resolvers that share a key agree, so does an execution: each  *)
(* parent of a batch gets the answer that is its own.                      *)
THEOREM BatchAnswersInExecution ==
  ASSUME KeysTellAnswers
  PROVE  ExecSpec => []ValuesAligned
<1>1. Executing => ValuesAligned
  BY ToldAligned DEF Executing
<1>2. QED
  BY <1>1, ExecutingKept, PTL

-----------------------------------------------------------------------------
(* Once the root has returned no scope is open: of the open scopes take    *)
(* one whose node is no child of another's.  It has not returned, so an    *)
(* open scope has started it, which is neither the root nor one of them.   *)
LEMMA AllOver ==
  ASSUME Executing, ret[Root].done
  PROVE  /\ \A s \in Scopes : ~scope[s].open
         /\ \A j \in Jobs : Busy(j) => Resolved(j) /\ ret[j].done
<1>a. /\ ScopesTyped /\ \A j \in Jobs : JobFits(j)
      /\ \A s \in Scopes : ScopeFits(s, scope[s]) /\ RetFits(s) /\ scope[s] \in ScopeLocals
  BY DEF Executing, Nested, ScopesTyped
<1>b. \A j \in Jobs : j \in Scopes /\ j # Root /\ j[2] \in Nodes /\ (Resolved(j) => Busy(j))
  BY Kinds DEF Jobs, Resolved, Busy
<1>1. ASSUME NEW s0 \in Scopes, scope[s0].open PROVE FALSE
  <2> DEFINE S == {n \in Nodes : \E s \in Jobs : s[2] = n /\ scope[s].open}
  <2>1. \A s \in Scopes : scope[s].open => s \in Jobs /\ s[2] \in S
    <3>1. ~scope[Root].open
      BY <1>a, Kinds DEF RetFits
    <3>2. QED
      BY <1>b, <3>1, ChildrenTyped
  <2>2. S \in SUBSET Nodes /\ S # {}
    BY <1>1, <2>1
  <2>3. PICK n \in S : \A m \in S : n \notin ToSet(Field[m].children)
    BY <2>2, TreeAssumption
  <2>4. PICK s \in Jobs : s[2] = n /\ scope[s].open
    BY <2>3
  <2>5. Busy(s) /\ ~ret[s].done
    BY <1>a, <1>b, <2>4 DEF RetFits
  <2>6. PICK t \in Scopes : AwaitedBy(s, t, scope[t])
    BY <1>a, <2>5 DEF JobFits
  <2>7. t \in Jobs /\ t[2] \in S /\ s[2] \in ToSet(Children(t))
    BY <1>a, <2>1, <2>6, StartedAreChildren DEF AwaitedBy
  <2>8. Children(t) = Field[t[2]].children
    BY <1>b, <2>7, ChildrenTyped
  <2>9. QED
    BY <2>3, <2>4, <2>7, <2>8
<1>2. ASSUME NEW j \in Jobs, Busy(j) PROVE Resolved(j) /\ ret[j].done
  <2>1. ret[j].done
    BY <1>a, <1>1, <1>2 DEF JobFits, AwaitedBy
  <2>2. QED
    BY <1>a, <1>b, <2>1 DEF RetFits
<1>3. QED
  BY <1>1, <1>2

(* When the response is out nothing of the request still runs: the root,   *)
(* every object and every list waits for all the jobs it has started on    *)
(* every path out, also the failing ones, no resolver holds the gate and   *)
(* no reservation of the request cache is left pending.                    *)
THEOREM NothingLeftBehind == ExecSpec => []NothingOutlivesResponse
<1>1. Executing => NothingOutlivesResponse
  <2> SUFFICES ASSUME Executing, ret[Root].done
               PROVE  /\ \A c \in Calls : pc[c] \in {"idle", "returned"}
                      /\ \A b \in Batches : batch[b].pc \in {"idle", "returned"}
                      /\ \A s \in Scopes : ~scope[s].open
                      /\ gate = 0
                      /\ \A k \in Keys : entries[k].state # "pending"
    BY DEF NothingOutlivesResponse
  <2>a. /\ NodeTypeOK /\ Control /\ Tokens /\ SingleParty
        /\ \A b \in Batches : Fits(b, batch[b], chunk[b])
    BY DEF Executing, TypedBatches, BatchOwnership, Control
  <2>1. \A s \in Scopes : ~scope[s].open
    BY AllOver
  <2>2. \A c \in Calls : pc[c] \in {"idle", "returned"}
    BY AllOver, Kinds DEF Busy, Resolved
  <2>3. \A b \in Batches : batch[b].pc \in {"idle", "returned"}
    BY AllOver, Kinds DEF Busy, Resolved
  <2>4. gate = 0
    <3>1. Resolving = {}
      BY <2>2 DEF Resolving, At
    <3>2. ASSUME NEW b \in Batches, NEW j \in DOMAIN chunk[b] PROVE chunk[b][j].pc # "resolving"
      <4>1. DOMAIN chunk[b] = 1..Len(chunk[b])
        BY <2>a, LenProperties DEF Control, BatchesTyped
      <4>2. batch[b].pc = "returned"
        BY <2>3, <2>a, <4>1 DEF Fits
      <4>3. ChunkFits(b, batch[b], j, chunk[b][j])
        BY <2>a, <4>1 DEF Fits
      <4>4. QED
        BY <4>2, <4>3 DEF ChunkFits
    <3>3. Placed(chunk, Nodes, {"resolving"}) = {}
      BY <3>2 DEF Placed
    <3>4. Cardinality(Resolving) = 0 /\ ChunksResolving(chunk) = 0
      BY <3>1, <3>3, FS_EmptySet DEF ChunksResolving
    <3>5. QED
      BY <2>a, <3>4 DEF Tokens
  <2>5. ASSUME NEW k \in Keys PROVE entries[k].state # "pending"
    <3>1. CallOwnersOf(k) = {}
      BY <2>2 DEF CallOwnersOf, Owns, InFlight, At
    <3>2. Owing(batch, chunk, k) = {}
      BY <2>3 DEF Owing, Owes
    <3>3. Cardinality(CallOwnersOf(k)) + Cardinality(Owing(batch, chunk, k)) = 0
      BY <3>1, <3>2, FS_EmptySet
    <3>4. QED
      BY <2>a, <3>3 DEF SingleParty
  <2>6. QED
    BY <2>1, <2>2, <2>3, <2>4, <2>5
<1>2. QED
  BY <1>1, ExecutingKept, PTL

-----------------------------------------------------------------------------
(* A call or a chunk of a batch has returned an error, of whatever kind.   *)
Failed ==
  \/ \E c \in Calls : pc[c] = "returned" /\ result[c].err # "none"
  \/ \E b \in Batches : \E j \in DOMAIN chunk[b] : chunk[b][j].err # "none"

(* Of the jobs that returned an error take one whose node is no child of   *)
(* another's; the scope that carries its error is closed and has failed,   *)
(* and can only be the root.                                               *)
LEMMA FailureSurfaces ==
  ASSUME Executing, ret[Root].done, Failed
  PROVE  ret[Root].err # "none"
<1> SUFFICES ASSUME ret[Root].err = "none" PROVE FALSE
  OBVIOUS
<1>a. /\ Control /\ \A j \in Jobs : JobFits(j)
      /\ \A s \in Scopes : ScopeFits(s, scope[s]) /\ scope[s] \in ScopeLocals
      /\ \A b \in Batches : Fits(b, batch[b], chunk[b])
  BY DEF Executing, Nested, ScopesTyped, TypedBatches, Control
<1>1. \E j \in Jobs : Resolved(j) /\ Busy(j) /\ OwnError(j) # "none"
  <2>1. ASSUME NEW c \in Calls, pc[c] = "returned", result[c].err # "none"
        PROVE  c \in Jobs /\ Resolved(c) /\ Busy(c) /\ OwnError(c) # "none"
    BY <2>1, Kinds DEF Resolved, Busy, OwnError
  <2>2. ASSUME NEW b \in Batches, NEW j \in DOMAIN chunk[b], chunk[b][j].err # "none"
        PROVE  b \in Jobs /\ Resolved(b) /\ Busy(b) /\ OwnError(b) # "none"
    <3>1. DOMAIN chunk[b] = 1..Len(chunk[b])
      BY <1>a, LenProperties DEF Control, BatchesTyped
    <3>2. batch[b].pc # "idle"
      BY <1>a, <3>1 DEF Fits
    <3>3. batch[b].pc = "returned"
      BY <3>2, AllOver, Kinds DEF Busy, Resolved
    <3>4. ChunkFits(b, batch[b], j, chunk[b][j])
      BY <1>a, <3>1 DEF Fits
    <3>5. batch[b].group # "none"
      BY <2>2, <3>3, <3>4 DEF ChunkFits
    <3>6. batch[b].err # "none"
      BY <1>a, <3>3, <3>5 DEF Fits
    <3>7. QED
      BY <3>3, <3>6, Kinds DEF Resolved, Busy, OwnError
  <2>3. QED
    BY <2>1, <2>2 DEF Failed
<1> DEFINE S == {n \in Nodes : \E j \in Jobs : j[2] = n /\ ret[j].err # "none"}
<1>2. S \in SUBSET Nodes /\ S # {}
  <2>1. PICK j \in Jobs : Resolved(j) /\ Busy(j) /\ OwnError(j) # "none"
    BY <1>1
  <2>2. ret[j].err # "none"
    BY <1>a, <2>1, AllOver DEF JobFits
  <2>3. j[2] \in Nodes
    BY Kinds DEF Jobs
  <2>4. QED
    BY <2>2, <2>3
<1>3. PICK n \in S : \A m \in S : n \notin ToSet(Field[m].children)
  BY <1>2, TreeAssumption
<1>4. PICK j \in Jobs : j[2] = n /\ ret[j].err # "none"
  BY <1>3
<1>5. PICK s \in Scopes : CarriedBy(j, s, scope[s], ret)
  BY <1>a, <1>4 DEF JobFits
<1>6. ret[s].err # "none" /\ s # Root /\ j[2] \in ToSet(Children(s))
  BY <1>a, <1>5, AllOver, StartedAreChildren DEF CarriedBy
<1>7. s \in Jobs /\ s[2] \in S /\ Children(s) = Field[s[2]].children
  BY <1>6, ChildrenTyped
<1>8. QED
  BY <1>3, <1>4, <1>6, <1>7

(* No failure is lost: a resolver that failed, in a call or in a chunk of  *)
(* a batch, fails the response, through every list and object above it.    *)
THEOREM FailureNotLost == ExecSpec => []FailureReachesResponse
<1>1. ResolverFailed => Failed
  BY DEF ResolverFailed, Failed, At
<1>2. Executing => FailureReachesResponse
  BY <1>1, FailureSurfaces DEF FailureReachesResponse
<1>3. QED
  BY <1>2, ExecutingKept, PTL

-----------------------------------------------------------------------------
(***************************************************************************)
(* Where errors come from.  Until a resolver has failed or the client has  *)
(* gone, no context is cancelled and no call, chunk, batch, entry or scope *)
(* holds an error; only a call about to publish may.                       *)
(***************************************************************************)
Cause == ResolverFailed \/ Request \in cancelled

EntriesClean == \A k \in Keys : entries[k].state = "ready" => entries[k].out.err = "none"

CallClean(c) ==
  /\ pc[c] = "returned" => result[c].err = "none"
  /\ pc[c] = "complete" => result[c].err \in {"none", "failed"}

BatchClean(q, ch) ==
  q.group = "none" /\ q.err = "none" /\ \A j \in 1..Len(ch) : ch[j].err = "none"

JobsClean ==
  /\ cancelled = {} /\ EntriesClean
  /\ \A c \in Calls : CallClean(c)
  /\ \A b \in Batches : BatchClean(batch[b], chunk[b])

ScopesClean == \A s \in Scopes : scope[s].group = "none" /\ ret[s].err = "none"

LEMMA CleanInit == ExecInit => JobsClean /\ ScopesClean
<1> SUFFICES ASSUME ExecInit PROVE JobsClean /\ ScopesClean
  OBVIOUS
<1>1. cancelled = {} /\ EntriesClean /\ \A c \in Calls : CallClean(c)
  BY DEF ExecInit, BatchInit, NodeInit, EmptyCache, EntriesClean, CallClean
<1>2. ASSUME NEW b \in Batches PROVE BatchClean(batch[b], chunk[b])
  <2>1. batch[b] = NoBatch /\ chunk[b] = <<>> /\ Len(<<>>) = 0
    BY DEF ExecInit, BatchInit
  <2>2. QED
    BY <2>1 DEF BatchClean, NoBatch
<1>3. ASSUME NEW s \in Scopes PROVE scope[s].group = "none" /\ ret[s].err = "none"
  <2>1. ret[s].err = "none"
    BY DEF ExecInit, NotReturned
  <2>2. Closed.group = "none"
    BY ClosedFacts
  <2>a. PICK q \in Seq(Parents) : q = <<Nil>>
    <3>1. Nil \in Parents
      BY ValuesAssumption
    <3>2. <<Nil>> \in Seq(Parents)
      BY <3>1
    <3>3. QED
      BY <3>2
  <2>3. Opened(q).group = "none"
    BY OpenedFacts
  <2>4. scope[s] = Opened(q) \/ scope[s] = Closed
    BY <2>a DEF ExecInit
  <2>5. QED
    BY <2>1, <2>2, <2>3, <2>4
<1>4. QED
  BY <1>1, <1>2, <1>3 DEF JobsClean, ScopesClean

(* The cache publishes the errors it is given, and no others.              *)
LEMMA EntriesStayClean ==
  ASSUME entries \in [Keys -> Entry], EntriesClean, NEW k \in Keys, NEW o,
         \/ entries' = entries
         \/ entries[k].state = "absent" /\ entries' = Reserve(entries, k)
         \/ entries' = Complete(entries, k, o) /\ o.err = "none"
  PROVE  EntriesClean'
<1>1. CASE entries' = entries
  BY <1>1 DEF EntriesClean
<1>2. CASE entries[k].state = "absent" /\ entries' = Reserve(entries, k)
  <2>1. \A l \in Keys : l # k => entries'[l] = entries[l]
    BY <1>2 DEF Reserve
  <2>2. entries'[k].state = "pending"
    BY <1>2 DEF Reserve, Entry
  <2>3. QED
    BY <2>1, <2>2 DEF EntriesClean
<1>3. CASE entries[k].state = "pending" /\ entries' = Complete(entries, k, o) /\ o.err = "none"
  <2>1. \A l \in Keys : l # k => entries'[l] = entries[l]
    BY <1>3 DEF Complete
  <2>2. entries'[k].out = o
    BY <1>3 DEF Complete
  <2>3. QED
    BY <1>3, <2>1, <2>2 DEF EntriesClean
<1>4. CASE entries[k].state # "pending" /\ entries' = Complete(entries, k, o)
  BY <1>4 DEF Complete, EntriesClean
<1>5. QED
  BY <1>1, <1>2, <1>3, <1>4

(* A step of a call brings no error of its own but its resolver's.         *)
LEMMA CallStaysClean ==
  ASSUME NodeTypeOK, JobsClean, NEW c \in Calls, CallStep(c), UNCHANGED batchVars
  PROVE  ResolverFailed' \/ JobsClean'
<1>a. /\ KeyOf(c) \in Keys /\ entries \in [Keys -> Entry]
      /\ pc \in [Calls -> PCs] /\ result \in [Calls -> Outcomes]
      /\ cancelled = {} /\ EntriesClean /\ \A d \in Calls : CallClean(d)
      /\ \A b \in Batches : BatchClean(batch'[b], chunk'[b])
  BY KeyTyped DEF NodeTypeOK, JobsClean, batchVars
<1>b. cancelled' = {}
  BY <1>a, CallKeeps
<1>c. ASSUME EntriesClean', \A d \in Calls : CallClean(d)' PROVE JobsClean'
  BY <1>a, <1>b, <1>c DEF JobsClean
<1>d. ASSUME NEW o, result' = [result EXCEPT ![c] = o], GoTo(c, "returned"), EntriesClean',
             o.err = "none"
      PROVE  JobsClean'
  <2>1. result'[c] = o /\ pc'[c] = "returned"
    BY <1>a, <1>d DEF GoTo
  <2>2. \A d \in Calls : d # c => result'[d] = result[d] /\ pc'[d] = pc[d]
    BY <1>a, <1>d DEF GoTo
  <2>3. QED
    BY <1>a, <1>c, <1>d, <2>1, <2>2 DEF CallClean
<1>e. ASSUME NEW o, result' = [result EXCEPT ![c] = o], GoTo(c, "returned"),
             o.err \in {"failed", "no field spec"}
      PROVE  ResolverFailed'
  <2>1. result'[c] = o /\ pc'[c] = "returned"
    BY <1>a, <1>e DEF GoTo
  <2>2. QED
    BY <1>e, <2>1 DEF ResolverFailed, At
<1>f. ASSUME NEW to \in {"gate", "waiting", "resolving"}, result' = result, GoTo(c, to), EntriesClean'
      PROVE  JobsClean'
  <2>1. \A d \in Calls : pc'[d] = IF d = c THEN to ELSE pc[d]
    BY <1>a, <1>f DEF GoTo
  <2>2. QED
    BY <1>a, <1>c, <1>f, <2>1 DEF CallClean
<1>1. CASE EnterUnknown(c)
  <2>1. PICK o : o = Outcome(Nil, "no field spec")
    OBVIOUS
  <2>2. result' = [result EXCEPT ![c] = o] /\ GoTo(c, "returned") /\ o.err = "no field spec"
    BY <1>1, <2>1 DEF EnterUnknown, Return, Outcome
  <2>3. QED
    BY <1>e, <2>2
<1>2. CASE EnterUncached(c) \/ EnterWait(c) \/ AcquireGate(c)
  <2>1. entries' = entries
    BY <1>2 DEF EnterUncached, EnterWait, AcquireGate
  <2>2. EntriesClean'
    BY <1>a, <2>1 DEF EntriesClean
  <2>3. QED
    BY <1>2, <1>f, <2>2 DEF EnterUncached, EnterWait, AcquireGate
<1>3. CASE EnterHit(c) \/ WaitReady(c)
  <2>1. PICK o : o = entries[KeyOf(c)].out
    OBVIOUS
  <2>2. /\ entries' = entries /\ result' = [result EXCEPT ![c] = o] /\ GoTo(c, "returned")
        /\ entries[KeyOf(c)].state = "ready"
    BY <1>3, <2>1 DEF EnterHit, WaitReady, Return, HitReady
  <2>3. o.err = "none" /\ EntriesClean'
    BY <1>a, <2>1, <2>2 DEF EntriesClean
  <2>4. QED
    BY <1>d, <2>2, <2>3
<1>4. CASE EnterMiss(c)
  <2>1. entries[KeyOf(c)].state = "absent" /\ entries' = Reserve(entries, KeyOf(c))
    BY <1>4 DEF EnterMiss, MissOwner
  <2>2. EntriesClean'
    BY <1>a, <2>1, EntriesStayClean
  <2>3. QED
    BY <1>4, <1>f, <2>2 DEF EnterMiss
<1>5. CASE ResolverReturns(c)
  <2>1. PICK o \in DirectOutcomes(NodeOf[c], parent[c], ctx[c]) :
          /\ result' = [result EXCEPT ![c] = o]
          /\ GoTo(c, "returned") \/ GoTo(c, "complete")
    BY <1>5 DEF ResolverReturns, Return
  <2>2. o.err \in {"none", "failed"}
    <3>1. ResolverErrors(NodeOf[c], ctx[c]) \subseteq {"failed"}
      BY <1>a DEF ResolverErrors, Done
    <3>2. QED
      BY <3>1 DEF DirectOutcomes, Outcome
  <2>3. entries' = entries
    BY <1>5 DEF ResolverReturns
  <2>4. EntriesClean'
    BY <1>a, <2>3 DEF EntriesClean
  <2>5. CASE GoTo(c, "returned")
    BY <1>d, <1>e, <2>1, <2>2, <2>4, <2>5
  <2>6. CASE GoTo(c, "complete")
    <3>1. result'[c] = o /\ pc'[c] = "complete"
      BY <1>a, <2>1, <2>6 DEF GoTo
    <3>2. \A d \in Calls : d # c => result'[d] = result[d] /\ pc'[d] = pc[d]
      BY <1>a, <2>1, <2>6 DEF GoTo
    <3>3. QED
      BY <1>a, <1>c, <2>2, <2>4, <3>1, <3>2 DEF CallClean
  <2>7. QED
    BY <2>1, <2>5, <2>6
<1>6. CASE CompleteEntry(c)
  <2>1. PICK o : o = result[c]
    OBVIOUS
  <2>2. /\ result' = [result EXCEPT ![c] = o] /\ GoTo(c, "returned")
        /\ entries' = Complete(entries, KeyOf(c), o) /\ pc[c] = "complete"
    BY <1>6, <2>1 DEF CompleteEntry, Return, At
  <2>3. o.err \in {"none", "failed"}
    BY <1>a, <2>1, <2>2 DEF CallClean
  <2>4. CASE o.err = "none"
    <3>1. EntriesClean'
      BY <1>a, <2>2, <2>4, EntriesStayClean
    <3>2. QED
      BY <1>d, <2>2, <2>4, <3>1
  <2>5. CASE o.err = "failed"
    BY <1>e, <2>2, <2>5
  <2>6. QED
    BY <2>3, <2>4, <2>5
<1>7. CASE WaitCancelled(c)
  BY <1>7, <1>a DEF WaitCancelled, Done
<1>8. QED
  BY <1>1, <1>2, <1>3, <1>4, <1>5, <1>6, <1>7 DEF CallStep, Enter

LEMMA BatchStaysClean ==
  ASSUME NodeTypeOK, Control, JobsClean, NEW b \in Batches, BatchMove(b)
  PROVE  ResolverFailed' \/ JobsClean'
<1>a. /\ BatchesTyped /\ entries \in [Keys -> Entry] /\ batch[b] \in BatchLocals
      /\ cancelled = {} /\ EntriesClean /\ \A c \in Calls : CallClean(c)
      /\ \A d \in Batches : BatchClean(batch[d], chunk[d])
      /\ Len(batch[b].out) = Len(batch[b].items) /\ Len(chunk[b]) \in Nat
  BY ItemFacts, LenProperties DEF Control, NodeTypeOK, JobsClean, BatchesTyped
<1>b. UNCHANGED <<pc, result>>
  BY BatchKeeps DEF BatchMove, InvokeBatch
<1>c. ASSUME EntriesClean', cancelled' = cancelled,
             \A d \in Batches : d # b => batch'[d] = batch[d] /\ chunk'[d] = chunk[d],
             BatchClean(batch'[b], chunk'[b])
      PROVE  JobsClean'
  <2>1. \A d \in Batches : BatchClean(batch'[d], chunk'[d])
    BY <1>a, <1>c
  <2>2. \A c \in Calls : CallClean(c)'
    BY <1>a, <1>b DEF CallClean
  <2>3. QED
    BY <1>a, <1>c, <2>1, <2>2 DEF JobsClean
<1>d. ASSUME entries' = entries PROVE EntriesClean'
  BY <1>a, <1>d DEF EntriesClean
<1>e. ASSUME NEW q, BatchBecomes(b, q), chunk' = chunk, q.group = "none", q.err = "none",
             cancelled' = cancelled, EntriesClean'
      PROVE  JobsClean'
  BY <1>a, <1>c, <1>e DEF BatchBecomes, BatchClean
<1>f. ASSUME NEW q, BatchBecomes(b, q), q.group = batch[b].group, q.err = batch[b].err,
             NEW j \in DOMAIN chunk[b], NEW me, ChunkBecomes(b, j, me), me.err = "none",
             cancelled' = cancelled, EntriesClean'
      PROVE  JobsClean'
  <2>1. BatchClean(batch'[b], chunk'[b])
    BY <1>a, <1>f DEF BatchClean, BatchBecomes, ChunkBecomes
  <2>2. QED
    BY <1>c, <1>f, <2>1 DEF BatchBecomes, ChunkBecomes
<1>1. ASSUME NEW items \in Seq(Parents), NEW x \in SUBSET Ctxs, InvokeBatch(b, items, x)
      PROVE  JobsClean'
  <2>1. PICK q \in BatchLocals :
          BatchBecomes(b, q) /\ chunk' = chunk /\ q.group = batch[b].group /\ q.err = batch[b].err
    BY <1>1, <1>a, InvokeEffect
  <2>2. entries' = entries /\ cancelled' = cancelled
    BY <1>1 DEF InvokeBatch
  <2>3. QED
    BY <1>a, <1>d, <1>e, <2>1, <2>2 DEF BatchClean
<1>2. ASSUME ClassifyItem(b) PROVE JobsClean'
  <2>1. batch[b].pc = "classify" /\ cancelled' = cancelled
    BY <1>2 DEF ClassifyItem, ClassifyUncached, ClassifyHit, ClassifyPending, ClassifyMiss, Classify,
       BatchAt
  <2>2. PICK q \in BatchLocals : Turned(b, q)
    <3>1. CASE ClassifyUncached(b) \/ ClassifyMiss(b)
      BY <1>a, <3>1, OwnEffect
    <3>2. CASE ClassifyPending(b)
      BY <1>a, <3>2, DeferEffect
    <3>3. CASE ClassifyHit(b)
      BY <1>a, <2>1, <3>3, AnswerEffect, ItemFacts
    <3>4. QED
      BY <1>2, <3>1, <3>2, <3>3 DEF ClassifyItem
  <2>3. PICK k \in Keys : k = ItemKey(b, batch[b].next)
    BY <1>a, <2>1, ItemFacts, ItemKeyTyped
  <2>4. EntriesClean'
    <3>1. CASE ClassifyMiss(b)
      <4>1. entries[k].state = "absent" /\ entries' = Reserve(entries, k)
        BY <2>3, <3>1 DEF ClassifyMiss, MissOwner
      <4>2. QED
        BY <1>a, <4>1, EntriesStayClean
    <3>2. CASE ClassifyUncached(b) \/ ClassifyHit(b) \/ ClassifyPending(b)
      BY <1>d, <3>2 DEF ClassifyUncached, ClassifyHit, ClassifyPending
    <3>3. QED
      BY <1>2, <3>1, <3>2 DEF ClassifyItem
  <2>5. QED
    BY <1>a, <1>e, <2>1, <2>2, <2>4 DEF Turned, BatchClean
<1>3. ASSUME LaunchChunk(b) PROVE JobsClean'
  <2>1. /\ batch' = batch /\ \A d \in Batches : d # b => chunk'[d] = chunk[d]
        /\ Len(chunk'[b]) = Len(chunk[b]) + 1
        /\ \A i \in 1..Len(chunk[b]) : chunk'[b][i] = chunk[b][i]
        /\ chunk'[b][Len(chunk[b]) + 1].err = "none"
    BY <1>3, <1>a, LaunchEffect
  <2>2. UNCHANGED <<entries, cancelled>>
    BY <1>3 DEF LaunchChunk, nodeVars
  <2>3. ASSUME NEW i \in 1..Len(chunk'[b]) PROVE chunk'[b][i].err = "none"
    <3>1. i \in 1..Len(chunk[b]) \/ i = Len(chunk[b]) + 1
      BY <1>a, <2>1
    <3>2. QED
      BY <1>a, <2>1, <3>1 DEF BatchClean
  <2>4. BatchClean(batch'[b], chunk'[b])
    BY <1>a, <2>1, <2>3 DEF BatchClean
  <2>5. QED
    BY <1>c, <1>d, <2>1, <2>2, <2>4
<1>4. ASSUME NEW j \in DOMAIN chunk[b], ChunkStep(b, j) PROVE ResolverFailed' \/ JobsClean'
  <2>a. PICK span \in Nat : span = Span(b, Len(batch[b].owners), j)
    BY ChunkFacts
  <2>b. /\ j \in 1..Len(chunk[b]) /\ ChunkFits(b, batch[b], j, chunk[b][j])
        /\ DOMAIN ChunkItems(b, j) = 1..span
        /\ \A m \in 1..span : ChunkItems(b, j)[m] \in 1..Len(batch[b].items)
        /\ chunk[b][j].err = "none"
    <3>1. /\ j \in 1..Len(chunk[b]) /\ ChunkFits(b, batch[b], j, chunk[b][j])
          /\ DOMAIN ChunkItems(b, j) = 1..span
          /\ \A m \in 1..span : ChunkItems(b, j)[m] \in 1..Len(batch[b].items)
      BY <2>a, ChunkFacts
    <3>2. chunk[b][j].err = "none"
      BY <1>a, <3>1 DEF BatchClean
    <3>3. QED
      BY <3>1, <3>2
  <2>c. BatchBecomes(b, batch[b]) \/ batch' # batch
    BY <1>a DEF BatchesTyped, BatchBecomes
  <2>1. CASE ChunkAcquiresGate(b, j)
    <3>1. PICK me \in ChunkLocals : ChunkBecomes(b, j, me) /\ batch' = batch /\ me.err = chunk[b][j].err
      BY <1>a, <2>1, AcquireEffect
    <3>2. UNCHANGED <<entries, cancelled>>
      BY <2>1 DEF ChunkAcquiresGate
    <3>3. QED
      BY <1>d, <1>f, <2>b, <2>c, <3>1, <3>2
  <2>2. CASE ChunkReturns(b, j)
    <3>1. UNCHANGED <<entries, cancelled, batch>>
      BY <2>2 DEF ChunkReturns
    <3>2. CASE \E e \in ChunkErrors(b) :
                 chunk' = [chunk EXCEPT ![b][j].pc = "publish", ![b][j].err = e]
      <4>1. PICK e \in ChunkErrors(b) :
              chunk' = [chunk EXCEPT ![b][j].pc = "publish", ![b][j].err = e]
        BY <3>2
      <4>2. e \in {"failed", "size mismatch"}
        BY <1>a DEF ChunkErrors, ResolverErrors, Done
      <4>3. j \in DOMAIN chunk'[b] /\ chunk'[b][j].err = e
        BY <1>a, <2>b, <4>1, ChunkTyped DEF BatchesTyped, ChunkLocals
      <4>4. QED
        BY <4>2, <4>3 DEF ResolverFailed
    <3>3. CASE \E vs \in ChunkAnswers(b, j) :
                 chunk' = [chunk EXCEPT ![b][j].pc = "publish", ![b][j].vals = vs]
      <4>1. PICK vs \in ChunkAnswers(b, j) :
              chunk' = [chunk EXCEPT ![b][j].pc = "publish", ![b][j].vals = vs]
        BY <3>3
      <4>2. PICK me \in ChunkLocals : ChunkBecomes(b, j, me)
        BY <1>a, <2>2, <2>b, ReturnsEffect
      <4>3. me.err = chunk[b][j].err
        <5>1. chunk'[b][j].err = chunk[b][j].err
          BY <1>a, <2>b, <4>1, ChunkTyped DEF BatchesTyped, ChunkLocals
        <5>2. chunk'[b][j] = me
          BY <2>b, <4>2 DEF ChunkBecomes
        <5>3. QED
          BY <5>1, <5>2
      <4>4. QED
        BY <1>d, <1>f, <2>b, <2>c, <3>1, <4>2, <4>3
    <3>4. QED
      BY <2>2, <3>2, <3>3 DEF ChunkReturns
  <2>3. CASE ChunkPublishes(b, j)
    <3>1. PICK i, o : i = PublishedItem(b, j) /\ o = PublishedOutcome(b, j)
      OBVIOUS
    <3>2. chunk[b][j].pc = "publish" /\ cancelled' = cancelled
      BY <2>3 DEF ChunkPublishes, ChunkAt
    <3>3. /\ o \in Outcomes /\ i \in 1..Len(batch[b].items) /\ ItemKey(b, i) \in Keys
      BY <3>1, <3>2, PublishedTyped
    <3>4. o.val \in Values /\ i \in 1..Len(batch[b].out)
      BY <1>a, <3>3 DEF Outcomes
    <3>a. PICK len : len = Len(ChunkItems(b, j))
      OBVIOUS
    <3>5. PICK me \in ChunkLocals, q \in BatchLocals :
            /\ ChunkBecomes(b, j, me) /\ BatchBecomes(b, q)
            /\ me.err = chunk[b][j].err /\ q.group = batch[b].group /\ q.err = batch[b].err
      BY <1>a, <2>3, <3>1, <3>4, <3>a, PublishesEffect
    <3>6. o.err = "none"
      BY <2>b, <3>1 DEF PublishedOutcome, Outcome
    <3>7. entries' = entries \/ entries' = Complete(entries, ItemKey(b, i), o)
      BY <2>3, <3>1 DEF ChunkPublishes, PublishedItem, PublishedOutcome
    <3>8. EntriesClean'
      BY <1>a, <3>3, <3>6, <3>7, EntriesStayClean
    <3>9. QED
      BY <1>f, <2>b, <3>2, <3>5, <3>8
  <2>4. CASE ChunkFails(b, j)
    <3>1. chunk[b][j].pc = "failing"
      BY <2>4 DEF ChunkFails, ChunkAt
    <3>2. QED
      BY <2>b, <3>1 DEF ChunkFits
  <2>5. QED
    BY <1>4, <2>1, <2>2, <2>3, <2>4 DEF ChunkStep
<1>5. ASSUME JoinChunks(b) PROVE JobsClean'
  <2>1. PICK q \in BatchLocals :
          /\ BatchBecomes(b, q) /\ chunk' = chunk
          /\ q.err = batch[b].group /\ q.group = batch[b].group
    BY <1>5, <1>a, JoinEffect
  <2>2. UNCHANGED <<entries, cancelled>>
    BY <1>5 DEF JoinChunks, nodeVars
  <2>3. QED
    BY <1>a, <1>d, <1>e, <2>1, <2>2 DEF BatchClean
<1>6. ASSUME AwaitReady(b) \/ AwaitCancelled(b) \/ ReturnBatch(b) PROVE JobsClean'
  <2>a. BatchAt(b, "await") /\ ~AwaitCancelled(b) /\ UNCHANGED <<entries, cancelled>>
    BY <1>6, <1>a DEF AwaitReady, AwaitCancelled, ReturnBatch, Awaits, Done, nodeVars
  <2>1. PICK i : i = batch[b].pending[batch[b].next]
    OBVIOUS
  <2>2. Awaits(b) => i \in 1..Len(batch[b].items) /\ ItemKey(b, i) \in Keys
    BY <1>a, <2>1, ItemFacts, ItemKeyTyped
  <2>3. CASE AwaitReady(b)
    <3>1. PICK o : o = entries[ItemKey(b, i)].out
      OBVIOUS
    <3>2. entries[ItemKey(b, i)].state = "ready" /\ i \in 1..Len(batch[b].items)
          /\ ItemKey(b, i) \in Keys
      BY <2>1, <2>2, <2>3 DEF AwaitReady
    <3>3. o.err = "none"
      BY <1>a, <3>1, <3>2 DEF EntriesClean
    <3>4. /\ batch' = [batch EXCEPT ![b].out[i] = o.val, ![b].next = @ + 1] /\ chunk' = chunk
      BY <2>1, <2>3, <3>1, <3>3 DEF AwaitReady
    <3>5. /\ \A d \in Batches : d # b => batch'[d] = batch[d]
          /\ batch'[b].group = batch[b].group /\ batch'[b].err = batch[b].err
      BY <1>a, <3>4 DEF BatchesTyped, BatchLocals
    <3>6. BatchClean(batch'[b], chunk'[b])
      BY <1>a, <3>4, <3>5 DEF BatchClean
    <3>7. QED
      BY <1>c, <1>d, <2>a, <3>4, <3>5, <3>6
  <2>4. CASE ReturnBatch(b)
    <3>1. batch' = [batch EXCEPT ![b].pc = "returned"] /\ chunk' = chunk
      BY <2>4 DEF ReturnBatch
    <3>2. /\ \A d \in Batches : d # b => batch'[d] = batch[d]
          /\ batch'[b].group = batch[b].group /\ batch'[b].err = batch[b].err
      BY <1>a, <3>1 DEF BatchesTyped, BatchLocals
    <3>3. BatchClean(batch'[b], chunk'[b])
      BY <1>a, <3>1, <3>2 DEF BatchClean
    <3>4. QED
      BY <1>c, <1>d, <2>a, <3>1, <3>2, <3>3
  <2>5. QED
    BY <1>6, <2>a, <2>3, <2>4
<1>7. QED
  BY <1>1, <1>2, <1>3, <1>4, <1>5, <1>6 DEF BatchMove, BatchStep

(* Starting a call or a batch brings no error.                             *)
LEMMA StartsStayClean ==
  ASSUME NodeTypeOK, Control, JobsClean, GoesOn, cancelled' = cancelled
  PROVE  ResolverFailed' \/ JobsClean'
<1>1. ASSUME NEW c \in Calls, NEW p \in Parents, NEW x \in SUBSET Ctxs, Invoke(c, p, x),
             UNCHANGED batchVars
      PROVE  JobsClean'
  <2>1. /\ \A d \in Calls : pc'[d] = IF d = c THEN "enter" ELSE pc[d]
        /\ UNCHANGED <<entries, result, cancelled, batch, chunk>>
    BY <1>1 DEF Invoke, GoTo, NodeTypeOK, batchVars
  <2>2. QED
    BY <2>1 DEF JobsClean, EntriesClean, CallClean
<1>2. ASSUME UNCHANGED nodeVars, UNCHANGED batchVars PROVE JobsClean'
  BY <1>2 DEF nodeVars, batchVars, JobsClean, EntriesClean, CallClean
<1>3. ASSUME NEW x \in Ctxs, Cancel(x) PROVE FALSE
  BY <1>3 DEF Cancel
<1>4. QED
  BY <1>1, <1>2, <1>3, CallStaysClean, BatchStaysClean DEF GoesOn, Outside

(* A chunk that has failed stays failed.                                   *)
LEMMA ChunkErrorsStay ==
  ASSUME NodeTypeOK, Control, NEW b \in Batches, BatchMove(b),
         NEW d \in Batches, NEW j \in DOMAIN chunk[d], chunk[d][j].err # "none"
  PROVE  j \in DOMAIN chunk'[d] /\ chunk'[d][j].err = chunk[d][j].err
<1>a. BatchesTyped /\ Len(chunk[d]) \in Nat /\ DOMAIN chunk[d] = 1..Len(chunk[d])
  BY LenProperties DEF Control, BatchesTyped
<1>1. ASSUME chunk' = chunk PROVE j \in DOMAIN chunk'[d] /\ chunk'[d][j].err = chunk[d][j].err
  BY <1>1
<1>2. ASSUME NEW i \in DOMAIN chunk[b], NEW me, ChunkBecomes(b, i, me),
             chunk[b][i].err # "none" => me.err = chunk[b][i].err
      PROVE  j \in DOMAIN chunk'[d] /\ chunk'[d][j].err = chunk[d][j].err
  <2>1. CASE d # b
    BY <1>2, <2>1 DEF ChunkBecomes
  <2>2. CASE d = b
    <3>1. chunk'[b] \in Seq(ChunkLocals) /\ Len(chunk'[b]) = Len(chunk[b])
      BY <1>2 DEF ChunkBecomes
    <3>2. DOMAIN chunk'[b] = 1..Len(chunk'[b])
      BY <3>1, LenProperties
    <3>3. chunk'[b][j] = IF j = i THEN me ELSE chunk[b][j]
      BY <1>a, <1>2, <2>2 DEF ChunkBecomes
    <3>4. QED
      BY <1>a, <1>2, <2>2, <3>1, <3>2, <3>3
  <2>3. QED
    BY <2>1, <2>2
<1>3. CASE LaunchChunk(b)
  <2>1. /\ \A e \in Batches : e # b => chunk'[e] = chunk[e]
        /\ chunk' \in [Batches -> Seq(ChunkLocals)] /\ Len(chunk'[b]) = Len(chunk[b]) + 1
        /\ \A i \in 1..Len(chunk[b]) : chunk'[b][i] = chunk[b][i]
    BY <1>3, <1>a, LaunchEffect
  <2>2. DOMAIN chunk'[b] = 1..Len(chunk'[b])
    BY <2>1, LenProperties
  <2>3. QED
    BY <1>a, <2>1, <2>2
<1>4. ASSUME NEW i \in DOMAIN chunk[b], ChunkStep(b, i)
      PROVE  j \in DOMAIN chunk'[d] /\ chunk'[d][j].err = chunk[d][j].err
  <2>a. PICK span \in Nat : span = Span(b, Len(batch[b].owners), i)
    BY ChunkFacts
  <2>b. /\ ChunkFits(b, batch[b], i, chunk[b][i])
        /\ DOMAIN ChunkItems(b, i) = 1..span
        /\ \A m \in 1..span : ChunkItems(b, i)[m] \in 1..Len(batch[b].items)
    BY <2>a, ChunkFacts
  <2>c. Len(batch[b].out) = Len(batch[b].items)
    BY ItemFacts
  <2>1. CASE ChunkAcquiresGate(b, i)
    <3>1. PICK me \in ChunkLocals : ChunkBecomes(b, i, me) /\ me.err = chunk[b][i].err
      BY <1>a, <2>1, AcquireEffect
    <3>2. QED
      BY <1>2, <3>1
  <2>2. CASE ChunkReturns(b, i)
    <3>1. chunk[b][i].pc = "resolving"
      BY <2>2 DEF ChunkReturns, ChunkAt
    <3>2. chunk[b][i].err = "none"
      BY <2>b, <3>1 DEF ChunkFits
    <3>3. PICK me \in ChunkLocals : ChunkBecomes(b, i, me)
      BY <1>a, <2>2, <2>b, ReturnsEffect
    <3>4. QED
      BY <1>2, <3>2, <3>3
  <2>3. CASE ChunkPublishes(b, i)
    <3>1. PICK m, o : m = PublishedItem(b, i) /\ o = PublishedOutcome(b, i)
      OBVIOUS
    <3>2. chunk[b][i].pc = "publish"
      BY <2>3 DEF ChunkPublishes, ChunkAt
    <3>3. o \in Outcomes /\ m \in 1..Len(batch[b].items)
      BY <3>1, <3>2, PublishedTyped
    <3>4. o.val \in Values /\ m \in 1..Len(batch[b].out)
      BY <2>c, <3>3 DEF Outcomes
    <3>5. PICK len : len = Len(ChunkItems(b, i))
      OBVIOUS
    <3>6. PICK me \in ChunkLocals, q \in BatchLocals :
            ChunkBecomes(b, i, me) /\ me.err = chunk[b][i].err
      BY <1>a, <2>3, <3>1, <3>4, <3>5, PublishesEffect
    <3>7. QED
      BY <1>2, <3>6
  <2>4. CASE ChunkFails(b, i)
    <3>1. PICK me \in ChunkLocals : ChunkBecomes(b, i, me) /\ me.err = chunk[b][i].err
      BY <1>a, <2>4, FailsEffect
    <3>2. QED
      BY <1>2, <3>1
  <2>5. QED
    BY <1>4, <2>1, <2>2, <2>3, <2>4 DEF ChunkStep
<1>5. CASE ~LaunchChunk(b) /\ ~ \E i \in DOMAIN chunk[b] : ChunkStep(b, i)
  <2>1. chunk' = chunk
    BY <1>5 DEF BatchMove, InvokeBatch, BatchStep, ClassifyItem, ClassifyUncached, ClassifyHit,
       ClassifyPending, ClassifyMiss, Classify, JoinChunks, AwaitReady, AwaitCancelled, ReturnBatch
  <2>2. QED
    BY <1>1, <2>1
<1>6. QED
  BY <1>3, <1>4, <1>5

(* What a call has returned stays.                                         *)
LEMMA ReturnedStays ==
  ASSUME NodeTypeOK, Control, GoesOn, NEW c \in Calls, pc[c] = "returned"
  PROVE  pc'[c] = "returned" /\ result'[c] = result[c]
<1>1. ASSUME NEW d \in Calls, CallStep(d) PROVE pc'[c] = "returned" /\ result'[c] = result[c]
  <2>1. d # c
    BY <1>1, CallKeeps
  <2>2. QED
    BY <1>1, <2>1, CallKeeps
<1>2. ASSUME Outside PROVE pc'[c] = "returned" /\ result'[c] = result[c]
  BY <1>2 DEF Outside, Invoke, Cancel, nodeVars, GoTo, At, NodeTypeOK
<1>3. ASSUME NEW b \in Batches, BatchMove(b) PROVE UNCHANGED <<pc, result>>
  BY <1>3, BatchKeeps DEF BatchMove, InvokeBatch
<1>4. QED
  BY <1>1, <1>2, <1>3 DEF GoesOn

LEMMA CauseStays ==
  ASSUME NodeTypeOK, Control, GoesOn, Cause
  PROVE  Cause'
<1>1. Request \in cancelled => Request \in cancelled'
  <2>1. ASSUME NEW c \in Calls, CallStep(c) PROVE cancelled' = cancelled
    BY <2>1, CallKeeps
  <2>2. ASSUME Outside PROVE cancelled \subseteq cancelled'
    BY <2>2 DEF Outside, Invoke, Cancel, nodeVars
  <2>3. ASSUME NEW b \in Batches, BatchMove(b) PROVE cancelled \subseteq cancelled'
    BY <2>3 DEF BatchMove, InvokeBatch, BatchStep, ClassifyItem, ClassifyUncached, ClassifyHit,
       ClassifyPending, ClassifyMiss, Classify, LaunchChunk, ChunkStep, ChunkAcquiresGate,
       ChunkReturns, ChunkPublishes, ChunkFails, JoinChunks, AwaitReady, AwaitCancelled,
       ReturnBatch, nodeVars
  <2>4. QED
    BY <2>1, <2>2, <2>3 DEF GoesOn
<1>2. ASSUME NEW c \in Calls, pc[c] = "returned" PROVE pc'[c] = "returned" /\ result'[c] = result[c]
  BY <1>2, ReturnedStays
<1>3. ASSUME NEW d \in Batches, NEW j \in DOMAIN chunk[d], chunk[d][j].err # "none"
      PROVE  j \in DOMAIN chunk'[d] /\ chunk'[d][j].err = chunk[d][j].err
  BY <1>3, ChunkErrorsStay DEF GoesOn, batchVars
<1>4. ResolverFailed => ResolverFailed'
  <2>1. ASSUME NEW c \in Calls, At(c, "returned"), result[c].err \in {"failed", "no field spec"}
        PROVE  ResolverFailed'
    BY <1>2, <2>1 DEF ResolverFailed, At
  <2>2. ASSUME NEW b \in Batches, NEW j \in DOMAIN chunk[b],
               chunk[b][j].err \in {"failed", "size mismatch"}
        PROVE  ResolverFailed'
    BY <1>3, <2>2 DEF ResolverFailed
  <2>3. QED
    BY <2>1, <2>2 DEF ResolverFailed
<1>5. QED
  BY <1>1, <1>4 DEF Cause

(* With a sound schema a list field is given a list or nil, also by the    *)
(* cache: whoever shares its key is a list field too.                      *)
LEMMA AnswersAreLists ==
  ASSUME OnlyResolversFail, NEW n \in Nodes, NEW p \in Parents, NEW v \in AnswersFor(n, p),
         Field[n].isList, Field[n].children # <<>>
  PROVE  IsSliceOrNil(v)
<1>1. PICK m \in Nodes, r \in Parents : v \in Answers[m][r] /\ Field[m].resolver = Field[n].resolver
  <2>1. CASE ShouldUseNodeCache(n)
    <3>1. PICK x \in Nodes \X Parents :
            v \in Answers[x[1]][x[2]] /\ CacheKeyForNode(x[1], x[2]) = CacheKeyForNode(n, p)
      BY <2>1 DEF AnswersFor, AnswersAt, Sharing
    <3>2. CacheKeyForNode(x[1], x[2])[1] = CacheKeyForNode(n, p)[1]
      BY <3>1
    <3>3. Field[x[1]].resolver = Field[n].resolver
      BY <3>2 DEF CacheKeyForNode
    <3>4. QED
      BY <3>1, <3>3
  <2>2. CASE ~ShouldUseNodeCache(n)
    BY <2>2 DEF AnswersFor
  <2>3. QED
    BY <2>1, <2>2
<1>2. Field[m].isList = Field[n].isList /\ Field[m].children # <<>>
  BY <1>1, SchemaAssumption
<1>3. Field[m].isList
  BY <1>2
<1>4. Answers[m][r] \subseteq Slices \cup {Nil}
  BY <1>2, <1>3 DEF OnlyResolversFail
<1>5. QED
  BY <1>1, <1>4 DEF IsSliceOrNil

LEMMA OpenedGroup == \A items : Opened(items).group = "none"
BY DEF Opened, Closed

LEMMA ReturnedError == \A v, e : Returned(v, e).err = e
BY DEF Returned

(* A scope has no error to end with while none of its jobs returned one.   *)
LEMMA NoStageErrors ==
  ASSUME OnlyResolversFail, Nested, ScopesClean, NEW s \in Scopes
  PROVE  StageErrors(s) \subseteq {"none"}
<1>a. ScopeFits(s, scope[s]) /\ scope[s] \in ScopeLocals
  BY DEF Nested, ScopesTyped
<1>1. scope[s].open => StageKnown(s)
  <2>1. SUFFICES ASSUME scope[s].open, IsList(s) PROVE StageChild(s) \in Registered
    BY DEF StageKnown
  <2>2. /\ s[2] \in Nodes /\ Children(s) = Field[s[2]].children /\ Field[s[2]].isList
        /\ Children(s) \in Seq(Nodes) /\ Children(s) # <<>> /\ Len(Children(s)) \in Nat
    BY <1>a, <2>1, ChildrenTyped DEF ScopeFits, IsList
  <2>3. DOMAIN Children(s) = 1..Len(Children(s)) /\ Len(Children(s)) # 0
    BY <2>2, LenProperties, EmptySeq
  <2>4. scope[s].stage \in 1..Larger(1, Len(Children(s)))
    BY <1>a, <2>1 DEF ScopeFits, StageCount
  <2>5. scope[s].stage \in DOMAIN Children(s)
    BY <2>2, <2>3, <2>4 DEF Larger
  <2>6. StageChild(s) \in ToSet(Children(s))
    BY <2>5 DEF StageChild, Stage, ToSet
  <2>7. QED
    BY <2>2, <2>6 DEF OnlyResolversFail
<1>2. ASSUME InMode(s, "sequential"), NEW i \in 1..(scope[s].next - 1)
      PROVE  JobReturned(s, i).err = "none"
  <2>1. Job(s, scope[s].stage, i) \in StartedIn(s, scope[s])
    BY <1>2 DEF StartedIn, InMode, Stage
  <2>2. Job(s, scope[s].stage, i) \in Scopes
    BY <1>a, <2>1 DEF ScopeFits, Jobs, Scopes
  <2>3. QED
    BY <2>2 DEF ScopesClean, JobReturned, Stage
<1>3. ASSUME InMode(s, "batch"), scope[s].next = 2
      PROVE  ret[StageBatch(s, Stage(s))].err = "none"
  <2>1. StageBatch(s, Stage(s)) \in StartedIn(s, scope[s])
    BY <1>3 DEF StartedIn, InMode, Stage
  <2>2. StageBatch(s, Stage(s)) \in Scopes
    BY <1>a, <2>1 DEF ScopeFits, Jobs, Scopes
  <2>3. QED
    BY <2>2 DEF ScopesClean
<1>4. scope[s].group = "none"
  BY DEF ScopesClean
<1>5. QED
  BY <1>1, <1>2, <1>3, <1>4 DEF StageErrors

LEMMA NoJobFails ==
  ASSUME Nested, ScopesClean, NEW s \in Scopes, ParallelJobFails(s)
  PROVE  FALSE
<1>1. PICK i \in 1..(scope[s].next - 1) : JobReturned(s, i).err # "none"
  BY DEF ParallelJobFails
<1>2. Mode(s, scope[s].stage) # "batch"
  BY DEF ParallelJobFails, InMode, Stage
<1>3. Job(s, scope[s].stage, i) \in Scopes /\ JobReturned(s, i) = ret[Job(s, scope[s].stage, i)]
  BY <1>2, JobErrorsTyped
<1>4. QED
  BY <1>1, <1>3 DEF ScopesClean

LEMMA ScopesStayClean ==
  ASSUME OnlyResolversFail, Executing, JobsClean, ScopesClean, ExecNext
  PROVE  ScopesClean'
<1>a. /\ Nested /\ NodeTypeOK /\ Control /\ ValuesTold /\ BatchesTyped /\ ScopesTyped
      /\ \A s \in Scopes : scope[s].group = "none" /\ ret[s].err = "none"
  BY DEF Executing, TypedBatches, Nested, ScopesClean, Control
<1>b. ASSUME NEW s \in Scopes, NEW l, ScopeBecomes(s, l), l.group = "none",
             ret' = ret \/ \E o : RetBecomes(s, o) /\ o.err = "none"
      PROVE  ScopesClean'
  <2>1. \A t \in Scopes : scope'[t].group = "none"
    BY <1>a, <1>b DEF ScopeBecomes
  <2>2. \A t \in Scopes : ret'[t].err = "none"
    BY <1>a, <1>b DEF RetBecomes
  <2>3. QED
    BY <2>1, <2>2 DEF ScopesClean
<1>c. ASSUME NEW s \in Scopes, NEW o, o.err = "none", scope' = scope, ret' = [ret EXCEPT ![s] = o]
      PROVE  ScopesClean'
  <2>1. RetBecomes(s, o)
    BY <1>a, <1>c, PutRet
  <2>2. QED
    BY <1>a, <1>c, <2>1 DEF RetBecomes, ScopesClean
<1>d. ASSUME NEW s \in Scopes, NEW items, scope' = [scope EXCEPT ![s] = Opened(items)], ret' = ret
      PROVE  ScopesClean'
  <2>1. \A t \in Scopes : scope'[t] = IF t = s THEN Opened(items) ELSE scope[t]
    BY <1>a, <1>d DEF ScopesTyped
  <2>2. QED
    BY <1>a, <1>d, <2>1, OpenedGroup DEF ScopesClean
<1>1. ASSUME NEW s \in Scopes, StartSequentialJob(s) \/ StartParallelJob(s) PROVE ScopesClean'
  <2>1. PICK x : StartJob(s, x)
    BY <1>1 DEF StartSequentialJob, StartParallelJob
  <2>2. PICK l \in ScopeLocals : ScopeBecomes(s, l) /\ ret' = ret /\ l.group = scope[s].group
    BY <1>a, <2>1, StartEffect
  <2>3. QED
    BY <1>a, <1>b, <2>2
<1>2. ASSUME NEW s \in Scopes, StartBatch(s) PROVE ScopesClean'
  <2>1. PICK l \in ScopeLocals : ScopeBecomes(s, l) /\ ret' = ret /\ l.group = scope[s].group
    BY <1>2, <1>a, StartBatchEffect
  <2>2. QED
    BY <1>a, <1>b, <2>1
<1>3. ASSUME NEW s \in Scopes, EndStage(s) PROVE ScopesClean'
  <2>1. CASE Stage(s) < StageCount(s)
    <3>1. /\ scope' = [scope EXCEPT ![s] =
                         [Opened(scope[s].items) EXCEPT !.stage = scope[s].stage + 1]]
          /\ ret' = ret
      BY <1>3, <2>1 DEF EndStage
    <3>2. PICK l \in ScopeLocals : ScopeBecomes(s, l) /\ l.group = "none"
      BY <1>a, <3>1, NextStageEffect
    <3>3. QED
      BY <1>b, <3>1, <3>2
  <2>2. CASE ~(Stage(s) < StageCount(s))
    <3>1. PICK o : o = Returned(Assembled(s), "none")
      OBVIOUS
    <3>2. Close(s, o) /\ o.err = "none"
      BY <1>3, <2>2, <3>1, ReturnedError DEF EndStage
    <3>3. PICK l \in ScopeLocals :
            ScopeBecomes(s, l) /\ RetBecomes(s, o) /\ l.group = scope[s].group
      BY <1>a, <3>2, CloseEffect
    <3>4. QED
      BY <1>a, <1>b, <3>2, <3>3
  <2>3. QED
    BY <2>1, <2>2
<1>4. ASSUME NEW s \in Scopes, FailStage(s) PROVE FALSE
  BY <1>4, <1>a, NoStageErrors DEF FailStage
<1>5. ASSUME NEW c \in Calls, Dispatch(c) PROVE ScopesClean'
  <2> DEFINE n == NodeOf[c]
             v == result[c].val
             leaf == v = Nil \/ Field[n].children = <<>>
             bad == ~leaf /\ Field[n].isList /\ ~IsSliceOrNil(v)
  <2>1. c \in Scopes /\ pc[c] = "returned" /\ n \in Nodes /\ parent[c] \in Parents
    BY <1>5, <1>a, Kinds DEF Dispatch, At, NodeTypeOK
  <2>2. result[c].err = "none"
    BY <2>1 DEF JobsClean, CallClean
  <2>3. v \in AnswersFor(n, parent[c])
    BY <1>a, <2>1, <2>2 DEF ValuesTold, CallTells, Tells
  <2>4. ~bad
    BY <2>1, <2>3, AnswersAreLists
  <2>5. PICK o : o = Returned(v, "none")
    OBVIOUS
  <2>6. o.err = "none"
    BY <2>5, ReturnedError
  <2>7. PICK items : items = IF Field[n].isList THEN Elements(v) ELSE <<v>>
    OBVIOUS
  <2>8. \/ ret' = [ret EXCEPT ![c] = o] /\ scope' = scope
        \/ scope' = [scope EXCEPT ![c] = Opened(items)] /\ ret' = ret
    BY <1>5, <2>2, <2>4, <2>5, <2>7 DEF Dispatch
  <2>9. QED
    BY <1>c, <1>d, <2>1, <2>6, <2>8
<1>6. ASSUME NEW b \in Batches, DispatchBatch(b) PROVE ScopesClean'
  <2> DEFINE vs == batch[b].out
             leaf == vs = <<>> \/ Field[b[2]].children = <<>>
             bad == \E i \in DOMAIN vs : ~IsSliceOrNil(vs[i])
             e == batch[b].err
             outcome ==
               CASE e # "none" -> Returned(Nil, e)
                 [] e = "none" /\ leaf -> Returned(vs, "none")
                 [] e = "none" /\ ~leaf /\ bad -> Returned(Nil, "not a slice")
                 [] OTHER -> Returned([i \in DOMAIN vs |-> <<>>], "none")
  <2>1. /\ b \in Scopes /\ b \in Jobs /\ batch[b].pc = "returned" /\ b[2] = ChildOf[b]
        /\ b[2] \in Nodes /\ Busy(b)
    BY <1>6, Kinds DEF DispatchBatch, BatchAt, Busy
  <2>2. e = "none"
    BY DEF JobsClean, BatchClean
  <2>3. Field[b[2]].isList /\ Fits(b, batch[b], chunk[b]) /\ batch[b] \in BatchLocals
    BY <1>a, <2>1 DEF Nested, Control, BatchesTyped
  <2>4. ASSUME ~leaf PROVE ~bad
    <3>1. SUFFICES ASSUME NEW i \in DOMAIN vs, ~IsSliceOrNil(vs[i]) PROVE FALSE
      OBVIOUS
    <3>2. i \in DOMAIN batch[b].items
      <4>1. vs \in Seq(Values) /\ batch[b].items \in Seq(Parents) /\ Len(vs) = Len(batch[b].items)
        BY <2>3 DEF Fits, SortingFits, BatchLocals
      <4>2. QED
        BY <4>1, LenProperties
    <3>3. batch[b].items[i] \in Parents
      BY <1>a, <2>1, <2>2, <3>2, ReturnedTells
    <3>4. ~\E k \in Keys : entries[k].state = "ready" /\ entries[k].out.err # "none"
      BY DEF JobsClean, EntriesClean
    <3>5. vs[i] \in AnswersFor(b[2], batch[b].items[i])
      BY <1>a, <2>1, <2>2, <3>2, <3>4, AnsweredOrHitFailed
    <3>6. QED
      BY <2>1, <2>3, <2>4, <3>1, <3>3, <3>5, AnswersAreLists
  <2>5. PICK o : o = outcome
    OBVIOUS
  <2>6. o = Returned(vs, "none") \/ o = Returned([i \in DOMAIN vs |-> <<>>], "none")
    BY <2>2, <2>4, <2>5
  <2>7. o.err = "none"
    BY <2>6, ReturnedError
  <2>8. PICK items : items = Flatten(vs)
    OBVIOUS
  <2>9. \/ ret' = [ret EXCEPT ![b] = o] /\ scope' = scope
        \/ scope' = [scope EXCEPT ![b] = Opened(items)] /\ ret' = ret
    BY <1>6, <2>5, <2>8 DEF DispatchBatch
  <2>10. QED
    BY <1>c, <1>d, <2>1, <2>7, <2>9
<1>7. ASSUME UNCHANGED <<scope, ret>> PROVE ScopesClean'
  BY <1>7 DEF ScopesClean
<1>8. QED
  BY <1>a, <1>1, <1>2, <1>3, <1>4, <1>5, <1>6, <1>7, NoJobFails
  DEF ExecNext, Progress, ScopeStep, CancelRequest, Responded, execVars

LEMMA JobsStayClean ==
  ASSUME OnlyResolversFail, Executing, JobsClean, ScopesClean, ExecNext
  PROVE  Cause' \/ JobsClean'
<1>a. /\ Nested /\ NodeTypeOK /\ Control /\ BatchesTyped
  BY DEF Executing, TypedBatches, Control
<1>b. GoesOn
  BY <1>a, ExecGoesOn
<1>1. ASSUME NEW c \in Calls, CallStep(c), UNCHANGED batchVars PROVE Cause' \/ JobsClean'
  BY <1>1, <1>a, CallStaysClean DEF Cause
<1>2. ASSUME NEW b \in Batches, BatchStep(b) PROVE Cause' \/ JobsClean'
  BY <1>2, <1>a, BatchStaysClean DEF Cause, BatchMove
<1>3. ASSUME CancelRequest PROVE Cause'
  <2>1. PICK x \in RequestCtxs : Cancel(x)
    BY <1>3 DEF CancelRequest
  <2>2. x = Request /\ x \in cancelled'
    BY <2>1 DEF OnlyResolversFail, Cancel
  <2>3. QED
    BY <2>2 DEF Cause
<1>4. ASSUME cancelled' = cancelled PROVE Cause' \/ JobsClean'
  BY <1>4, <1>a, <1>b, StartsStayClean DEF Cause
<1>5. ASSUME NEW s \in Scopes, ScopeStep(s) PROVE cancelled' = cancelled
  BY <1>5, <1>a, NoJobFails
  DEF ScopeStep, StartSequentialJob, StartParallelJob, StartJob, Invoke, StartBatch, InvokeBatch,
      EndStage, FailStage, allBatchVars, nodeVars
<1>6. ASSUME \/ \E c \in Calls : Dispatch(c)
             \/ \E b \in Batches : DispatchBatch(b)
             \/ Responded
      PROVE  cancelled' = cancelled
  BY <1>6 DEF Dispatch, DispatchBatch, Responded, execVars, allBatchVars, nodeVars
<1>7. QED
  BY <1>1, <1>2, <1>3, <1>4, <1>5, <1>6 DEF ExecNext, Progress

(* No failure is invented: with a sound schema a response fails only if a  *)
(* resolver failed or is missing, or the request was cancelled from        *)
(* outside, however the errgroups of healthy branches end.                 *)
THEOREM FailureNotInvented ==
  ASSUME OnlyResolversFail
  PROVE  ExecSpec => []ErrorHasCause
<1> DEFINE Caused == Cause \/ (JobsClean /\ ScopesClean)
<1>1. Executing /\ Caused /\ [ExecNext]_execVars => Caused'
  <2> SUFFICES ASSUME Executing, Caused, [ExecNext]_execVars PROVE Caused'
    OBVIOUS
  <2>a. Nested /\ NodeTypeOK /\ Control /\ BatchesTyped
    BY DEF Executing, TypedBatches, Control
  <2>1. CASE UNCHANGED execVars
    BY <2>1 DEF execVars, allBatchVars, nodeVars, batchVars, Cause, ResolverFailed, At, JobsClean,
       EntriesClean, CallClean, ScopesClean
  <2>2. CASE ExecNext /\ Cause
    BY <2>2, <2>a, ExecGoesOn, CauseStays
  <2>3. CASE ExecNext /\ JobsClean /\ ScopesClean
    BY <2>3, JobsStayClean, ScopesStayClean
  <2>4. QED
    BY <2>1, <2>2, <2>3
<1>2. Executing /\ Caused => ErrorHasCause
  BY Kinds DEF Caused, Cause, ScopesClean, ErrorHasCause
<1>3. ExecInit => Caused
  BY CleanInit
<1>4. QED
  BY <1>1, <1>2, <1>3, ExecutingKept, PTL DEF ExecSpec
=============================================================================
