------------------------------ MODULE Executor ------------------------------
(***************************************************************************)
(* One execution of a physical plan: Executor.ExecuteRootWithRuntime of    *)
(* src/planner/execute/executor.go with everything it calls.  A scope is   *)
(* an activation of the root loop, of executeObjectValue or of             *)
(* materializeObjectList; it runs stages of jobs, sequentially, in an      *)
(* errgroup, or as one batch, and assembles what they return.              *)
(***************************************************************************)
EXTENDS BatchResolve, SequencesExt, FiniteSetsExt

CONSTANTS
  RootFields,   \* the root's children, in query order
  CanBatch,     \* nodes whose spec has a resolver to batch with
  Plans         \* what the optimizer may choose by node: modes, workers, expected calls

VARIABLES
  plan,    \* physical.Plan, given to the execution and never changed
  scope,   \* scope[s]: the locals of an activation
  ret      \* ret[s]: what a call, a batch or the root finally returned

execVars == <<allBatchVars, plan, scope, ret>>

(* Calls are <<"call", node, path>> and batches <<"batch", node, path>>;   *)
(* the path is the list positions that lead to them.                       *)
Root == <<"root">>

Scopes == {Root} \cup Calls \cup Batches

Request == <<"request">>

(* The context of the errgroup a scope makes for a stage.                  *)
GroupCtx(s, k) == <<"group", s, k>>

Closed == [open |-> FALSE, items |-> <<>>, stage |-> 1, next |-> 1,
           failed |-> {}, group |-> "none"]

Opened(items) == [Closed EXCEPT !.open = TRUE, !.items = items]

NotReturned == [done |-> FALSE, val |-> Nil, err |-> "none"]

Returned(v, e) == [done |-> TRUE, val |-> v, err |-> e]

ExecInit ==
  /\ BatchInit
  /\ plan \in Plans
  /\ scope = [s \in Scopes |-> IF s = Root THEN Opened(<<Nil>>) ELSE Closed]
  /\ ret = [s \in Scopes |-> NotReturned]

-----------------------------------------------------------------------------
IsBatch(s) == s[1] = "batch"

(* Objects and the root have one stage for all children, lists have one    *)
(* stage per child.  Children are in response key order.                   *)
IsList(s) == s # Root /\ Field[s[2]].isList

Children(s) == IF s = Root THEN RootFields ELSE Field[s[2]].children

Path(s) == IF s = Root THEN <<>> ELSE s[3]

ScopeCtx(s) ==
  IF s = Root THEN {Request} ELSE IF IsBatch(s) THEN batch[s].ctx ELSE ctx[s]

Stage(s) == scope[s].stage

StageCount(s) == IF IsList(s) THEN Len(Children(s)) ELSE 1

StageChild(s) == Children(s)[Stage(s)]

ASSUME RequestAssumption ==
  /\ \A c \in Calls : c = <<"call", NodeOf[c], c[3]>>
  /\ \A b \in Batches : b = <<"batch", ChildOf[b], b[3]>>
  /\ Request \in Ctxs
  /\ \A s \in Scopes : \A k \in 1..Larger(1, StageCount(s)) : GroupCtx(s, k) \in Ctxs

(* The fields form a tree: of any nodes, one is no child of another.       *)
ASSUME TreeAssumption ==
  /\ IsFiniteSet(Nodes) /\ RootFields \in Seq(Nodes)
  /\ \A n \in Nodes : Field[n].children \in Seq(Nodes)
  /\ \A S \in SUBSET Nodes : S # {} =>
       \E n \in S : \A m \in S : n \notin ToSet(Field[m].children)

(* The schema: fields of one resolver have one type, and what a field with *)
(* children answers is what its children are resolved on.                  *)
ASSUME SchemaAssumption ==
  /\ \A n, m \in Nodes : Field[n].resolver = Field[m].resolver =>
       /\ Field[n].isList = Field[m].isList
       /\ Field[n].children = <<>> <=> Field[m].children = <<>>
  /\ \A n \in Nodes, p \in Parents : Field[n].children # <<>> =>
       \A v \in Answers[n][p] :
         IF Field[n].isList THEN v \in Slices => v \in Seq(Parents) ELSE v \in Parents
  /\ \A v \in ErrorValues \cap Slices : v \in Seq(Parents)

(* child.IsList && childStrat.ListMode == ListBatched && CanBatch()        *)
ResolvesInBatches(n) ==
  Field[n].isList /\ plan[n].listMode = "LIST_BATCHED" /\ n \in CanBatch

ListIsParallel(n) == plan[n].listMode \in {"LIST_PARALLEL", "LIST_BATCHED"}

Mode(s, k) ==
  IF IsList(s)
  THEN IF ResolvesInBatches(Children(s)[k]) THEN "batch"
       ELSE IF ListIsParallel(s[2]) THEN "parallel" ELSE "sequential"
  ELSE IF s # Root /\ plan[s[2]].fieldsMode = "PAR_FIELDS" THEN "parallel"
       ELSE "sequential"

InMode(s, mode) == scope[s].open /\ Mode(s, Stage(s)) = mode

Workers(s) == Larger(1, plan[s[2]].workers)

JobCount(s) == IF IsList(s) THEN Len(scope[s].items) ELSE Len(Children(s))

Job(s, k, i) ==
  IF IsList(s) THEN <<"call", Children(s)[k], Append(Path(s), i)>>
  ELSE <<"call", Children(s)[i], Path(s)>>

StageBatch(s, k) == <<"batch", Children(s)[k], Path(s)>>

(* materializeObjectList looks the child up before it starts its stage.    *)
StageKnown(s) == IsList(s) => StageChild(s) \in Registered

JobReturned(s, i) == ret[Job(s, Stage(s), i)]

-----------------------------------------------------------------------------
(* The next call of a stage, on its item or on the scope's one object.     *)
(* Calls and Batches bound what a request starts; a set that lacks a job   *)
(* its data asks for leaves the scope waiting, a deadlock to TLC.          *)
StartJob(s, x) ==
  LET i == scope[s].next
      item == IF IsList(s) THEN scope[s].items[i] ELSE scope[s].items[1]
  IN /\ i <= JobCount(s)
     /\ Job(s, Stage(s), i) \in Calls
     /\ Invoke(Job(s, Stage(s), i), item, x)
     /\ scope' = [scope EXCEPT ![s].next = @ + 1]
     /\ UNCHANGED <<batchVars, ret>>

StartSequentialJob(s) ==
  /\ InMode(s, "sequential")
  /\ StageKnown(s)
  /\ LET last == scope[s].next - 1
     IN last > 0 => JobReturned(s, last).done /\ JobReturned(s, last).err = "none"
  /\ StartJob(s, ScopeCtx(s))

(* The semaphore is taken without a look at the context: jobs start even   *)
(* after one has failed.                                                   *)
StartParallelJob(s) ==
  /\ InMode(s, "parallel")
  /\ StageKnown(s)
  /\ Cardinality({i \in 1..(scope[s].next - 1) : ~JobReturned(s, i).done}) < Workers(s)
  /\ StartJob(s, ScopeCtx(s) \cup {GroupCtx(s, Stage(s))})

(* errgroup: the first error is kept and cancels the group's context.      *)
ParallelJobFails(s) ==
  /\ InMode(s, "parallel")
  /\ \E i \in 1..(scope[s].next - 1) :
       /\ i \notin scope[s].failed
       /\ JobReturned(s, i).err # "none"
       /\ scope' = [scope EXCEPT ![s].failed = @ \cup {i},
                      ![s].group = IF @ = "none" THEN JobReturned(s, i).err ELSE @]
  /\ cancelled' = cancelled \cup {GroupCtx(s, Stage(s))}
  /\ UNCHANGED <<entries, gate, rt, pc, parent, ctx, result, batchVars, ret>>

StartBatch(s) ==
  /\ InMode(s, "batch")
  /\ StageKnown(s)
  /\ scope[s].next = 1
  /\ StageBatch(s, Stage(s)) \in Batches
  /\ InvokeBatch(StageBatch(s, Stage(s)), scope[s].items, ScopeCtx(s))
  /\ scope' = [scope EXCEPT ![s].next = 2]
  /\ UNCHANGED ret

-----------------------------------------------------------------------------
(* reflectToAnySlice: nil is the empty slice, a non-slice is an error.     *)
IsSliceOrNil(v) == v = Nil \/ v \in Slices

Elements(v) == IF v = Nil THEN <<>> ELSE v

(* A call whose value is resolved: executeNode's tail.                     *)
Dispatch(c) ==
  LET n == NodeOf[c]
      v == result[c].val
      leaf == v = Nil \/ Field[n].children = <<>>
      bad == ~leaf /\ Field[n].isList /\ ~IsSliceOrNil(v)
  IN /\ At(c, "returned")
     /\ ~scope[c].open
     /\ ~ret[c].done
     /\ \/ /\ result[c].err # "none" \/ leaf \/ bad
           /\ ret' = [ret EXCEPT ![c] =
                IF result[c].err # "none" THEN Returned(Nil, result[c].err)
                ELSE IF leaf THEN Returned(v, "none") ELSE Returned(Nil, "not a slice")]
           /\ UNCHANGED scope
        \/ /\ result[c].err = "none" /\ ~leaf /\ ~bad
           /\ scope' = [scope EXCEPT ![c] =
                Opened(IF Field[n].isList THEN Elements(v) ELSE <<v>>)]
           /\ UNCHANGED ret
     /\ UNCHANGED allBatchVars

(* The elements of all the values, in order.                               *)
Flatten(vs) ==
  LET f[i \in 0..Len(vs)] == IF i = 0 THEN <<>> ELSE f[i - 1] \o Elements(vs[i])
  IN f[Len(vs)]

(* A batch whose values are resolved: materializeBatchedChildValues.       *)
DispatchBatch(b) ==
  LET vs == batch[b].out
      leaf == vs = <<>> \/ Field[b[2]].children = <<>>
      bad == \E i \in DOMAIN vs : ~IsSliceOrNil(vs[i])
      outcome ==
        CASE batch[b].err # "none" -> Returned(Nil, batch[b].err)
          [] batch[b].err = "none" /\ leaf -> Returned(vs, "none")
          [] batch[b].err = "none" /\ ~leaf /\ bad -> Returned(Nil, "not a slice")
          [] OTHER -> Returned([i \in DOMAIN vs |-> <<>>], "none")
      materialize == batch[b].err = "none" /\ ~leaf /\ ~bad /\ Flatten(vs) # <<>>
  IN /\ BatchAt(b, "returned")
     /\ ~scope[b].open
     /\ ~ret[b].done
     /\ IF materialize
        THEN scope' = [scope EXCEPT ![b] = Opened(Flatten(vs))] /\ UNCHANGED ret
        ELSE ret' = [ret EXCEPT ![b] = outcome] /\ UNCHANGED scope
     /\ UNCHANGED allBatchVars

-----------------------------------------------------------------------------
(* What a scope assembles out of what its jobs returned.                   *)
ResponseKeys(s) == {Field[Children(s)[k]].responseKey : k \in DOMAIN Children(s)}

ChildNamed(s, r) ==
  CHOOSE k \in DOMAIN Children(s) : Field[Children(s)[k]].responseKey = r

ObjectValue(s) ==
  [r \in ResponseKeys(s) |-> ret[Job(s, 1, ChildNamed(s, r))].val]

ItemChildValue(s, k, i) ==
  IF Mode(s, k) = "batch" THEN ret[StageBatch(s, k)].val[i] ELSE ret[Job(s, k, i)].val

ListValue(s) ==
  [i \in DOMAIN scope[s].items |->
     [r \in ResponseKeys(s) |-> ItemChildValue(s, ChildNamed(s, r), i)]]

(* Mutant: every group is cut from the start of the flat list.             *)
RegroupFromStart(flat, vs) == [i \in DOMAIN vs |-> SubSeq(flat, 1, Len(Elements(vs[i])))]

(* The flat list of a batch, cut back into one group per value.            *)
Regroup(flat, vs) ==
  [i \in DOMAIN vs |->
     LET before == Len(Flatten(SubSeq(vs, 1, i - 1)))
     IN SubSeq(flat, before + 1, before + Len(Elements(vs[i])))]

Assembled(s) ==
  IF IsBatch(s) THEN Regroup(ListValue(s), batch[s].out)
  ELSE IF IsList(s) THEN ListValue(s) ELSE ObjectValue(s)

Close(s, o) ==
  /\ ret' = [ret EXCEPT ![s] = o]
  /\ scope' = [scope EXCEPT ![s].open = FALSE]

AllJobsStarted(s) == scope[s].next > JobCount(s)

(* Mutant: the group is left at its first error, without g.Wait.           *)
AllJobsReturnedOrFailed(s) ==
  scope[s].group # "none" \/ \A i \in 1..JobCount(s) : JobReturned(s, i).done

AllJobsReturned(s) == \A i \in 1..JobCount(s) : JobReturned(s, i).done

AllFailuresSeen(s) ==
  \A i \in 1..JobCount(s) : JobReturned(s, i).err # "none" => i \in scope[s].failed

StageSucceeded(s) ==
  \/ /\ InMode(s, "sequential") /\ StageKnown(s) /\ AllJobsStarted(s) /\ AllJobsReturned(s)
     /\ \A i \in 1..JobCount(s) : JobReturned(s, i).err = "none"
  \/ /\ InMode(s, "parallel") /\ StageKnown(s) /\ AllJobsStarted(s) /\ AllJobsReturned(s)
     /\ AllFailuresSeen(s) /\ scope[s].group = "none"
  \/ /\ InMode(s, "batch") /\ StageKnown(s) /\ scope[s].next = 2
     /\ ret[StageBatch(s, Stage(s))].done /\ ret[StageBatch(s, Stage(s))].err = "none"

(* The last stage done, the scope returns what it has assembled.           *)
EndStage(s) ==
  /\ StageSucceeded(s)
  /\ IF Stage(s) < StageCount(s)
     THEN /\ scope' = [scope EXCEPT ![s] =
                         [Opened(scope[s].items) EXCEPT !.stage = scope[s].stage + 1]]
          /\ UNCHANGED ret
     ELSE Close(s, Returned(Assembled(s), "none"))
  /\ UNCHANGED allBatchVars

(* The error a stage ends with, if it has one to report.                   *)
StageErrors(s) ==
  (IF scope[s].open /\ ~StageKnown(s) THEN {"no field spec"} ELSE {})
    \cup (IF InMode(s, "sequential")
          THEN {JobReturned(s, i).err : i \in 1..(scope[s].next - 1)} ELSE {})
    \cup (IF InMode(s, "parallel") /\ AllJobsStarted(s) /\ AllJobsReturned(s)
             /\ AllFailuresSeen(s)
          THEN {scope[s].group} ELSE {})
    \cup (IF InMode(s, "batch") /\ scope[s].next = 2
          THEN {ret[StageBatch(s, Stage(s))].err} ELSE {})

FailStage(s) ==
  /\ \E e \in StageErrors(s) \ {"none"} : Close(s, Returned(Nil, e))
  /\ UNCHANGED allBatchVars

ScopeStep(s) ==
  \/ StartSequentialJob(s)
  \/ StartParallelJob(s)
  \/ ParallelJobFails(s)
  \/ StartBatch(s)
  \/ EndStage(s)
  \/ FailStage(s)

(* The request's context may be cancelled while the execution runs.        *)
CancelRequest ==
  /\ ~ret[Root].done
  /\ \E x \in RequestCtxs : Cancel(x)
  /\ UNCHANGED <<batchVars, scope, ret>>

Progress ==
  \/ \E s \in Scopes : ScopeStep(s)
  \/ \E c \in Calls : Dispatch(c) \/ (CallStep(c) /\ UNCHANGED <<batchVars, scope, ret>>)
  \/ \E b \in Batches : DispatchBatch(b) \/ (BatchStep(b) /\ UNCHANGED <<scope, ret>>)

Responded == ret[Root].done /\ UNCHANGED execVars

ExecNext == ((Progress \/ CancelRequest) /\ UNCHANGED plan) \/ Responded

ExecSpec ==
  ExecInit /\ [][ExecNext]_execVars /\ WF_execVars(Progress /\ UNCHANGED plan)

-----------------------------------------------------------------------------
ExecTypeOK ==
  /\ BatchTypeOK
  /\ plan \in Plans
  /\ \A s \in Scopes :
       /\ scope[s].open \in BOOLEAN
       /\ scope[s].stage \in 1..Larger(1, StageCount(s))
       /\ scope[s].next \in Nat
       /\ scope[s].failed \subseteq 1..(scope[s].next - 1)
       /\ scope[s].group \in Errors
       /\ ret[s].done \in BOOLEAN /\ ret[s].err \in Errors

(* When the response is out nothing of the request still runs: every       *)
(* errgroup was waited for on every path out, also the failing ones, no    *)
(* resolver holds the gate and no reservation is left pending.             *)
NothingOutlivesResponse ==
  ret[Root].done =>
    /\ \A c \in Calls : pc[c] \in {"idle", "returned"}
    /\ \A b \in Batches : batch[b].pc \in {"idle", "returned"}
    /\ \A s \in Scopes : ~scope[s].open
    /\ gate = 0
    /\ \A k \in Keys : entries[k].state # "pending"

(* The response the resolvers define by themselves: every field resolved   *)
(* on its own parent, with no cache, no batch and no concurrency.          *)
TheAnswer(n, x) == CHOOSE v \in Answers[n][x] : TRUE

ChildByKey(n, r) ==
  Field[n].children[CHOOSE k \in DOMAIN Field[n].children :
                      Field[Field[n].children[k]].responseKey = r]

KeysBelow(n) == {Field[Field[n].children[k]].responseKey : k \in DOMAIN Field[n].children}

(* An object of a field, where the field of each key answers f.            *)
ObjectOn(f, n, x) == [r \in KeysBelow(n) |-> f[ChildByKey(n, r)][x]]

ValueOn(f, n, x) ==
  LET v == TheAnswer(n, x)
  IN IF v = Nil \/ Field[n].children = <<>> THEN v
     ELSE IF Field[n].isList THEN [i \in DOMAIN v |-> ObjectOn(f, n, v[i])]
     ELSE ObjectOn(f, n, v)

Expected[n \in Nodes] == [x \in Parents |-> ValueOn(Expected, n, x)]

(* What it takes for the answers to define one response: a field answers   *)
(* the same however and wherever it is asked, its cache key tells all that *)
(* its answer depends on, a list is a slice or nil, and nil only where it  *)
(* is not resolved in batches.                                             *)
SoundAnswers ==
  /\ KeysTellAnswers /\ Nil \notin Slices
  /\ \A n \in Nodes, x \in Parents : \E v \in Values : Answers[n][x] = {v}
  /\ \A n \in Nodes : Field[n].isList /\ Field[n].children # <<>> =>
       \A x \in Parents :
         Answers[n][x] \subseteq Slices \cup (IF n \in CanBatch THEN {} ELSE {Nil})

(* Whatever strategies the plan picks and however its goroutines run, a    *)
(* response without error is the one the resolvers define.                 *)
ResponseCorrect ==
  ret[Root].done /\ ret[Root].err = "none" =>
    ret[Root].val =
      [r \in ResponseKeys(Root) |-> Expected[Children(Root)[ChildNamed(Root, r)]][Nil]]

ResolverFailed ==
  \/ \E c \in Calls : At(c, "returned") /\ result[c].err \in {"failed", "no field spec"}
  \/ \E b \in Batches : \E j \in DOMAIN chunk[b] : chunk[b][j].err \in {"failed", "size mismatch"}

(***************************************************************************)
(* combineChildExecution: the most resolvers a subtree runs at once, which *)
(* the optimizer keeps within the plan's MaxInFlight.  A node alone counts *)
(* its workers, or the chunks of its batch, but no more than the calls     *)
(* expected of it.                                                         *)
(***************************************************************************)
OwnInflight(n) ==
  IF plan[n].listMode = "LIST_BATCHED"
    THEN Min({plan[n].calls, Larger(1, Strategy[n].maxConcurrentBatches)})
  ELSE IF plan[n].listMode = "LIST_PARALLEL"
    THEN Min({plan[n].calls, Larger(1, plan[n].workers)})
  ELSE IF plan[n].fieldsMode = "PAR_FIELDS" THEN Larger(1, plan[n].workers) ELSE 1

BatchedBelow(n) == {m \in ToSet(Field[n].children) : plan[m].listMode = "LIST_BATCHED"}

(* Mutant: the workers of a list do not multiply what its items run.       *)
NotMultiplied(n, inflight) == inflight

MultipliedByWorkers(n, inflight) == Larger(1, plan[n].workers) * inflight

PeakInflight[n \in Nodes] ==
  LET below(S) == Max({1} \cup {PeakInflight[m] : m \in S})
      children == ToSet(Field[n].children)
  IN IF children = {} THEN OwnInflight(n)
     ELSE IF plan[n].fieldsMode = "PAR_FIELDS" \/ plan[n].listMode = "LIST_PARALLEL"
       THEN Larger(OwnInflight(n), MultipliedByWorkers(n, below(children)))
     ELSE IF plan[n].listMode = "LIST_BATCHED"
       THEN Max({OwnInflight(n), below(BatchedBelow(n)),
                 MultipliedByWorkers(n, below(children \ BatchedBelow(n)))})
     ELSE Larger(OwnInflight(n), below(children))

(* The number EXPLAIN shows and the in-flight budget is checked against is *)
(* a bound where no fewer calls were expected than come: never do more     *)
(* resolvers of a request run at once than its plan counts on, nested      *)
(* lists, batches under lists and parallel fields included.                *)
InflightWithinPlan == gate <= Max({1} \cup {PeakInflight[n] : n \in ToSet(RootFields)})

(* What the optimizer gives the executor: enumerateStrategies has a list   *)
(* batched only where its field has a batch resolver, and                  *)
(* makeListCandidate expects at least one call of every list.              *)
SoundPlans ==
  \A pl \in Plans : \A n \in Nodes :
    /\ pl[n].workers \in Nat /\ pl[n].calls \in Nat
    /\ pl[n].listMode \in {"LIST_PARALLEL", "LIST_BATCHED"} => pl[n].calls # 0
    /\ pl[n].listMode = "LIST_BATCHED" =>
         Field[n].isList /\ n \in CanBatch /\ Strategy[n].maxConcurrentBatches \in Nat

(* No batch has come to run more chunks than calls were expected of its    *)
(* node.                                                                   *)
EnoughExpected == \A b \in Batches : Len(chunk[b]) <= plan[ChildOf[b]].calls

(* No failure is lost: a resolver that failed, even one whose error a      *)
(* batch hit ignored, fails the response.                                  *)
FailureReachesResponse ==
  ret[Root].done /\ ResolverFailed => ret[Root].err # "none"

(* No failure is invented: a response fails only if a resolver failed or   *)
(* is missing, or the request was cancelled from outside, never because    *)
(* the contexts of healthy branches cancel one another.                    *)
ErrorHasCause ==
  ret[Root].done /\ ret[Root].err # "none" => ResolverFailed \/ Request \in cancelled

(* The schema and the registry are sound: nobody but the client cancels,   *)
(* the fields of a list's objects have a resolver, a list field answers a  *)
(* list or nil.                                                            *)
OnlyResolversFail ==
  /\ RequestCtxs \subseteq {Request}
  /\ \A n \in Nodes : Field[n].isList =>
       /\ ToSet(Field[n].children) \subseteq Registered
       /\ Field[n].children # <<>> =>
            \A p \in Parents : Answers[n][p] \subseteq Slices \cup {Nil}

(* The response comes: gate, semaphores, cache waits and joins never wait  *)
(* for one another in a circle, as long as every resolver returns.         *)
Responds == <>(ret[Root].done)
=============================================================================
