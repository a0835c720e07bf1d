# gql-query-planner in TLA+

Specifications of `gql-query-planner`, a Go library that puts a planning layer
under a GraphQL server: a query becomes a logical plan, the plan is annotated
from statistics of earlier executions, an optimizer picks a strategy per node
(sequential, parallel, batched, cached), an executor runs the resolvers, and
what it counted goes back into the statistics. Paths below are relative to
`src/planner/` unless they start with `src/`.

The code that is hard to test is the executor: one request runs many resolvers
concurrently, through a single-flight cache, a gate that bounds the resolvers in
flight, semaphores per list and per batch, and nested `errgroup`s that cancel
one another. That is where the models and the proofs start.

## 1. The system

| Component | State | Operations | Interacts with |
|---|---|---|---|
| Request cache (`execute/request_cache.go`) | map from keys to entries: ready channel, value, error; a mutex; one per request | `lookupOrReserve`, `complete`, `wait`; keys from resolver, parent, arguments, selection | called by every cacheable `executeNode` and every batched item, concurrently |
| Runtime counters (`execute/runtime.go`) | per node: calls, physical calls, batches, rows, hits, misses, waits, current and maximal parallelism, time and bytes | `Add…`, `Cache…`, `Begin…Physical` and the function it returns, `Snapshot` | written by the executor, read by EXPLAIN ANALYZE and the statistics |
| Executor (`execute/executor.go`, `helpers.go`) | locals of its goroutines, the gate channel, errgroups, semaphores | `ExecuteRootWithRuntime`, `executeNode`, `executeObjectValue`, `materializeObjectList`, `resolveBatchedChild`, `materializeBatchedChildValues` | calls the resolvers of the registry under the physical plan |
| Registry (`registry/`) | specs by resolver key | `Add…`, `Lookup`, `CanBatch` | read by the executor |
| Physical plan (`physical/`) | strategies by node, worker and in-flight limits | none, data | written by the optimizer, read by the executor |
| Statistics store (`stats/store.go`) | series by key, an index by key without parent bucket, an RW mutex; lives as long as the process | `Record`, `Snapshot`, `SnapshotWithParentFallback`, `Export` | written after each execution, read by each plan |
| Statistics recording (`runtime_observe.go`, `observe.go`) | none | walk of the plan after an execution | runtime counters to store |
| HTTP handler (`http_handler.go`, `http_handler_helpers.go`, `log_config.go`) | locals per request | prepare, plan, execute, record, respond | everything above |
| Estimation (`estimate/estimate.go`) | a memo of snapshots per plan | `Annotate` | store to annotations |
| Optimizer (`optimize/`) | none | enumeration, pruning, top-k, combination | annotations to physical plan |
| Logical plan builder (`logical/`) | none | `Build`, field collection and merging | prepared query to nodes |
| Planner facade (`planner.go`) | schema, catalog, statistics | `Prepare`, `PlanWithTimings`, `Explain` | wires the above |
| Query frontend (`frontend/`) | none | parse, validate, fingerprint | schema |
| Catalog, schema loader (`catalog/`, `schema_loader.go`) | field metadata, immutable | `New`, `Lookup` | schema to catalog |
| Explain, export (`explain/`, `stats_exporter.go`) | none | text and rows | read only |
| Example server (`src/example/`) | generated data | `main` | third-party and demo code |

What makes each of the stateful ones correct:

* *Request cache*: in one request a key is resolved at most once at a time and
  by one party; whoever asked gets that party's outcome or gives up because its
  own context ended; a reservation is always published, also on errors.
* *Gate*: one token per running resolver on every path; the bound holds for
  plain and batched resolvers together; nobody waits for it forever.
* *Counters*: every call is answered by a resolver, a hit or a wait, and the
  counters say which.
* *Executor*: the response does not depend on the strategy; a failure is
  neither lost nor invented; nothing outlives the response; the response comes.
* *Statistics*: the two maps of the store agree; what is recorded is found by
  later plans; one plan sees one snapshot per key; executions are counted once.
* *Logical plan*: one node per field of the response, whatever way the document
  spreads the field's selections; what a node knows of its parent stays true
  when merging moves it; no two nodes share an identity.
* *Estimates*: they stay in the range the optimizer's arithmetic relies on;
  confidence has to be earned and fades; agreeing observations are learned.

The full list of what is hard to test, with the line each item bites at and the
properties that cover it, is `hazards` in `PROJECT.json`.

## 2. The modules

```
RequestCache   RuntimeStats      data components: operators, no processes
      \           /
       NodeResolve               executeNode up to its value  --implements-->  SingleFlight
            |
       BatchResolve              resolveBatchedChild, beside calls
            |
        Executor                 one whole execution of a plan

        StatsStore               data component
            |
       QueryService              concurrent requests around the store

        LogicalPlan              from the text of a query to its nodes
        Estimates                what observations make of a node's estimates
        PlanSearch               the optimizer's search for a plan
```

The proofs about a model are in modules named after it, `*Proofs` (section 4).
Each `MC*.tla` instantiates one module for TLC, and states with `ASSUME` which
hypotheses of the theorems its instance satisfies.

### RequestCache, RuntimeStats

Everything the code does under one mutex is one operator: `Reserve` and the three
answers of `lookupOrReserve`; `Complete`, which only publishes a pending entry;
`CacheHit`, `BeginPhysical` and so on. A cache key is a tuple of resolver,
parent identity, arguments and selected response keys. `CacheParentKey`
follows `cacheParentKey`: the first of the hints `CacheKey`, `BatchKey`, `id`
that the parent has as an attribute identifies it, otherwise the parent itself.
Observed bytes and nanoseconds are left out of the counters.

### NodeResolve and SingleFlight

A call of `executeNode` is a process with a program counter:

| `pc` | code |
|---|---|
| `enter` | called, nothing looked up yet (executor.go:48) |
| `gate` | resolver to be called, waits for a token (:61); it owns its entry if it is cached |
| `resolving` | inside the resolver, holds a token (:63-71) |
| `complete` | resolver back, entry not published yet (:92) |
| `waiting` | in `cacheEntry.wait` (request_cache.go:94) |
| `returned` | the value or the error is known (:100-105) |

Grain: counting the logical call, the cache lookup and the cache counter are one
step, since only the lookup is visible to other goroutines and the counters
commute; the token and `BeginPhysical` are one step, and so are the resolver's
return, the end of its counter and the release of the token. The lookup, the
token, the return and the publication are separate steps, because other
goroutines act between them. Acquiring the gate does not look at the context,
as in the code. `wait` selects between the ready channel and the context: when
both are ready either branch may win.

The resolver is external. It returns any value in `Answers`, may fail if its
node is in `Failing`, and may answer `canceled` when its context is done. It
is assumed to return.

`SingleFlight` says what callers are promised without cache, gate or program
counters: per key at most one flight, led by one caller; others follow it and
take its outcome, or give up. `NodeResolve` implements it under the mapping at
the end of the module (`ImplementsSingleFlight`).

### BatchResolve

`resolveBatchedChild`: a batch classifies its items one by one against the
cache (owner, hit, pending), launches chunks of the owners under its semaphore
and the shared gate, publishes owner by owner, joins the chunks, and only then
awaits the pending items in order. Chunks are goroutines of their own with
states `gate`, `resolving`, `publish`, `failing`, `done`. Two items of one
batch may have the same key: the second one is pending on the first. Calls of
`executeNode` run beside the batches and share cache, gate and counters.
The first failing chunk cancels the context of the others, which resolvers may
notice. A wrong result count takes the path of a resolver error, as in the code.

### Executor

An activation of the root loop, of `executeObjectValue` or of
`materializeObjectList` is a *scope*. It runs stages of jobs: all children of an
object in one stage; for a list, one stage per child, over all items. A stage is
sequential, parallel (errgroup with a semaphore), or one batch, by the same
conditions as the code. A scope closes with the value it assembles or with an
error; the parallel stage waits for all its jobs first (`g.Wait`), the
sequential one returns at the first error. `Dispatch` is the tail of
`executeNode`, `DispatchBatch` is `materializeBatchedChildValues`, with the
flat list it builds and cuts back into groups. Calls are named by node and list
positions, so two activations of a node never share a name.

The plan is a variable that never changes after the first state: `Plans` are the
strategies an optimizer may choose by node, with the calls it expects of each.
`PeakInflight` is what `combineChildExecution` computes from such a plan, the
number EXPLAIN shows and the in-flight budget is checked against;
`InflightWithinPlan` compares it with the resolvers that really run.

`Expected` is the reference definition a response is compared with: every field
resolved on its own parent, with no cache, batch or concurrency.

### StatsStore, QueryService

`StatsStore` has the two maps of `Store`. A series keeps its number of calls and the list lengths observed.
Snapshots are what `SnapshotWithParentFallback` may return; where the code
breaks ties between equally sampled buckets by a confidence that fades with
time, the choice is left open. `QueryService` is the handler: annotation reads
the store twice per node (`AnnotateCardinality`, `AnnotateCost`) with other
requests in between, execution leaves some counters, `RecordNode` writes one
node at a time, `Respond` may still fail on JSON. An expected row count is any
value of `RowCounts` between the baseline and what was observed, within the
bound: the weights of the blend are abstracted.

### LogicalPlan

`planner.New` builds the catalog of a schema; then requests come one at a time:
`Receive`, `Refuse` or `Prepare`, `Build`. A document is a tree of records:
fields, spreads, inline fragments, values of arguments with a kind. Validation
(gqlparser, external) is modelled as far as the code relies on it, above all
that fields with one response key are the same field with the same arguments,
without which merging would lose selections. `BuildSelections` and `MergeByResponseKey`
follow `builder.go`; `ApplyDirectiveCaps`, `FieldMeta` the catalog;
`FindOperation` the frontend; `ArgumentMap` and `ValueOf` what the builder takes from
gqlparser. `NumericArgLimitDeep` and `UpperBoundForList` are the part of
`estimate.go` that reads a node's arguments and those of the node above it. The
reference is `Answered`, the field collection of the GraphQL specification
with its set of visited fragments. The definitions recurse over trees, so this
module stays with TLC.

### Estimates

One field, from its observations to its annotation. `Record` adds an
observation, `DayPasses` lets the series grow old; after either, `snap` is the snapshot
that `snapshotFromSeries` computes (calls, quantiles, stabilities, freshness,
confidences) and `est` the annotation `estimateCardinalityLocal` and
`estimateLocalCost` make of it. Numbers are thousandths rounded down; the logarithm of the
sample confidence is a table. Freshness halves per day, as `exp2` of the age in
the code, so whole days are exact. `RowsInRange` is what
`QueryService.ExpectedRows` assumes of a plan, and `AnnotationsAsAssumed` what
`PlanSearch` assumes of its annotations: these two runs justify the inputs of the others.

### PlanSearch

`optimize/` is sequential; what is hard is that it is greedy. The state machine
has one step per call of `enumerateSubtree` (`EnumerateLeaf`, `EnumerateInner`),
in the order in which the calls return, and a last step that reads the plan off the best
candidates (`Materialize`). `LocalCandidates` are the strategies tried for a
node, `CombinedCandidates` pairs them with at most `CombinationLimit`
combinations of what was kept for the children; `FilterByBudget`,
`PruneDominated` and `KeepTopK` follow in the order of the code. A leaf never
passes the budget, as in the code. A candidate points at its children by their
places in `kept`.

Abstractions: costs are whole hundredths with quotients rounded down, so the
tolerance in `almostEqual` never shows; expected row counts are whole numbers;
the traces for EXPLAIN are left out; equal candidates keep their order, though
`sort.Slice` does not promise it for more than 12: candidates that compare
equal and survive pruning agree in everything the search looks at. Guards
against nil and against numbers that are not positive have no place, as the
assumptions exclude them.

## 3. The runs

| Run | Question | Instance |
|---|---|---|
| `node_resolve` | Do concurrent calls keep the promise of the cache, whatever fails or is cancelled? | 3 concurrent calls, 2 under one name and 1 under an alias; each on an item or a nil item, so keys may coincide or differ; before them one that is planned without cache, after them one without resolver; one context that may be cancelled; gate of 1 |
| `batch_overlap` | Can batches that own what the other needs block one another, lose an entry or misplace a value? | 2 batches with overlapping and repeated items in different orders, chunks of 1 that may fail; gate of 1 |
| `batch_mixed` | Do batches and calls together report every failed chunk and count every item? | a cached batch and a call of its field, an uncached batch in chunks of 2 and 1 that may miscount, empty batches; gate of 2 |
| `exec_list` | Does an execution whose branches fail end cleanly, with an error that has a cause, and with tokens and counters right? | a parallel list of 3 items, 3 workers, gate of 2, shared cached objects, failing resolvers, a field without resolver, cancellation |
| `exec_shop` | Is the response right when two batches run at once? | 2 shops with the same items in opposite orders, chunks of one owner, failing resolvers |
| `exec_home` | Is it right when a field is batched in one branch and resolved call by call in another, and batches nest; and does the plan count on enough resolvers? | an object with parallel fields, an alias, a nested uncached batch over a flattened list; 16 plans that differ in modes, workers and expected calls; gate of 4, a resolver that may miscount |
| `logical_plan` | Is there a node for each declared field of the response, with the right parent, however the document is written? | 1352 documents over 3 orders of the directives: pairs of overlapping root fields, aliases, nested and repeated fragments, inline fragments, `__typename` beside declared fields or alone, limits as arguments, input fields, defaults of the schema or the operation, and variables; one or two operations |
| `query_service` | Do concurrent requests keep statistics that later plans can use? | 2 requests for a query whose two lists share a key; lists of 0, 1 and 7 items, so three buckets; a series counts after 2 calls |
| `estimates` | Do estimates stay in range, and learn and forget in the right direction? | a list of objects bounded by default, a cacheable list of scalars bounded by an argument, and an object; short, long and empty observations in any order up to 34 calls, up to 3 days without one |
| `plan_search` | Can pruning, cut-offs and budgets lose a node's strategy, or end with a plan worse than the naive one? | 8 nodes: an object over a list over three lists, two of them scalar; 5184 annotations |
| `exec_doc_key` | Is the key of `@cacheable` a description only? | violated, see findings |
| `exec_null_list` | Does batching change the answer? | violated, see findings |

*Why the bounds are enough.* Races in the cache are between parties that want
one key: an owner, one that waits, and one that comes late or wants another key
are three. The calls before and after them (`PlainFirstGoneLast`, the constraint of
that run) take the paths without cache and without resolver; those beside cached
calls are in `exec_list` and `batch_mixed`. A gate of one token is the harshest bound, where any token that leaks
or is held while waiting stops everybody. Two batches in opposite orders are the
smallest cycle of waits; a chunk size of one per owner lets one chunk succeed
and another fail. The `7` in `query_service` makes a list fall into another bucket than
its estimate. The executor's models bound nothing else: no counter is capped, since
executions are finite. In `exec_list` the gate lets 2 resolvers run while 3 workers
want to, so tokens are contended and parallelism is more than one; in
`exec_home` the gate of 4 is out of the way, so that only semaphores and strategies
limit what runs at once, which is what `InflightWithinPlan` is about.

In `logical_plan` one level of merging within another needs two overlapping fields
with two selections each; the documents have them in every combination of direct,
aliased and fragment selections. In `estimates` the thresholds of the code are 5,
10 and 12 calls and confidences up to 0.75, which agreeing observations reach
after 31 calls: 34 calls (`MaxCalls`) pass them all, also with some observations
that differ; after 3 days (`MaxAge`) freshness is 1/8 and the confidence in a sample is below the lowest threshold.

In `plan_search` the annotations are chosen so that every mode wins in some
plan, lists with two workers and with four; more than 8 combinations of children exist and are cut off, more
candidates survive than `keepTopK` (3 here, 8 in the code), and the
memory limit, scaled down with the lists, is sometimes met by every plan,
sometimes by some, and sometimes by none. Annotations are those `estimateLocalCost` can
give: the cost of a row, the penalty of a poor confidence, no confidence below
that of the defaults.

*Fairness.* Goroutines are scheduled and resolvers return, so each call and
each batch has weak fairness on its steps (`NodeSpec`, `BatchSpec`), and an
execution on its progress as a whole (`ExecSpec`). Cancellation is never
forced. Weak fairness per call is enough at the gate although calls compete for
it: an instance has finitely many calls, each takes the gate once, and a Go
channel serves its senders in order. `QueryService` states no liveness.

*What the passing runs show.* `SingleOwner`, `OneOwnerPerKey`: an entry is pending
exactly while one party is on its way to publish it, errors and cancellations
included. `GateAccounting`, `CallAccounting`, `ItemAccounting`: tokens and
counters agree with what the goroutines do. `ValuesAligned`,
`ChunkFailureReported`: a batch puts each answer on its item and never hides a
failed chunk. `ResponseCorrect`, `FailureReachesResponse`, `ErrorHasCause`,
`NothingOutlivesResponse`, `Responds`: the execution as a whole, as listed in
section 1; `Responds`, being the costly one, is checked in `exec_list` only, and the
liveness of batches in `batch_overlap`. `InflightWithinPlan`: where no fewer calls
were expected than come, the plan's number bounds what runs at once; with fewer
expected, a batched leaf counts for fewer chunks than it launches, so `Plans` leaves
that case out. `IndexMatchesStore`, `RecordedIsFound`, `OneSnapshotPerKey`,
`ExecutionsCounted`: the loop from executions to plans. `EveryNodePlanned`,
`NeverWorseThanSerial`, `BudgetKept`: the greedy search loses no node, costs at
most what the plan costs that does everything one after the other, and stays in
the budget whenever that naive plan does. A plan that is over the budget is kept
only when nothing tried is within it.

`PlanMatchesQuery`, `OperationAsRequested`: the plan has the shape of the response without
`__typename` (see below), for the operation that GraphQL would execute. `NodesDistinct`, `ParentsAgree`: what
annotations and bounds are looked up by is unique and not stale.
`CapabilitiesOrderless`: the order of directives in the schema does not matter.
`RowsInRange`, `AnnotationsAsAssumed`: see Estimates above. `ConfidenceEarned`: no
optimism from few or old calls. `StalenessFades`, `AgreementConverges`: no day takes
the estimate farther from the bound, and no agreeing observation takes it
farther from what was observed.

One of these deserves a remark: `ValuesAligned` allows an item whose entry holds an
error what was published beside the error. `resolveBatchedChild` takes the value of a ready
entry without looking at its error (`executor.go:286`): nil if a chunk failed, and whatever the resolver
returned with its error if a direct call did (`executor.go:92`), which is what `ErrorValues` stands for:
a nil or a slice in `batch_mixed`, a nil or an object in `exec_list`, nil alone in the other
runs. `FailureReachesResponse` shows that the error
reaches the response all the same, through the party that owned the entry.

### Findings

1. `exec_doc_key`: `src/example/api/directives/directives.graphql:19` calls the key of
   `@cacheable` a description "for documentation/debugging"; the code uses it as
   the attribute that identifies the parent, so a descriptive key that is equal
   on two parents makes them share a result.
2. `exec_null_list`: a null list is answered as `[]` under a batched plan and as
   `null` otherwise, while `directives.graphql:3` calls batching a capability hint.

Also seen while reading, and not part of a run: when a resolver gives
up because a sibling cancelled its context, its cancellation error is published
to the cache and may be what another branch, and then the response, reports in place
of the root cause; `HadError` is
always false where observations are built, so error rates stay zero; the reflection that
reads attributes of a parent panics on maps; the optimizer may choose
`LIST_BATCHED` for a list whose parent is no list, where the executor resolves it
directly; candidates that all exceed the budget are all kept
(`filterByBudget`); a `list_parallel_16` over a list with children never meets
the limit of 4 on concurrency among descendants with 16 root workers, and over a
leaf parallelism only adds cost, so that strategy can win only where nothing meets
the budget.

In the parts before the executor: gqlparser accepts `__typename` on every composite type, and
the catalog holds only the fields a type declares (`catalog.go:55-66`), so the builder leaves it out
(`logical/builder.go:54-57`) and the response lacks it, without an error. `PlanMatchesQuery` is
therefore about declared fields; the documents of `logical_plan` have `__typename`, and TLC finds the
property violated if the reference keeps it. Where nothing else is selected of a field, its node has no children,
and the executor answers it with the resolver's whole value (`executor.go:107`).
`__schema` and `__type` are left out of the plan in the same way and are not modelled, nor are
unions and interfaces, under which the fields of a fragment on another type are looked up and
left out too. `log_config.go:8` says that timing logs are always
on, and the handler writes them only with `LogPlans` (`http_handler.go:122-128`); `@skip`, `@include` and the
type conditions of inline fragments are not looked at
(`logical/builder.go:98-113`); the root types are taken to be called `Query`, `Mutation` and
`Subscription` whatever the schema declares (`frontend/prepare.go:40`); a list inherits
the bound of the field above only under a type named `…Payload` or right
under a field `edges` or `nodes`, and there it takes the arguments of that field, so in the usual
connection it finds no limit. Of the estimates: what is observed is capped by the
bound, so statistics lower an estimate and never raise it, though they may
raise the bound that is shown; observations of one and the same
length keep a weight of a quarter in the estimate however old they are; a median of zero counts as
unknown and as perfectly steady, so a list that is always empty is expected to be
full; a plan counts on too few resolvers in flight where fewer calls are
expected of a batched leaf than come.

## 4. The proofs

Eight modules prove theorems about six models, for every value of the
constants: any query, plan, data, chunk sizes, number of concurrent parties,
width of the gate, bounds and observations.

```
NodeResolveProofs -> BatchResolveProofs -> BatchAccountsProofs -> ExecutorProofs -> ResponseProofs
QueryServiceProofs   EstimatesProofs   PlanSearchProofs
```

Each of the first five extends the one before, because the models do: an execution is made of
steps of batches and calls, so `ExecutorProofs` shows that every step of `ExecNext` is one
that `BatchNext` allows or leaves calls and batches alone, and takes what is known of those over.

### What is assumed

The named assumptions of the models say what the code's inputs are: finitely
many calls, batches and requests; nodes of a finite tree (`TreeAssumption`:
of any nodes one is no child of another); a node's calls named after it; batch sizes
integers of either sign; answers that are values, fields of one
resolver that have one type, and elements of lists that are parents, also of those a resolver returns
beside an error (`SchemaAssumption`); observations that are natural numbers. Of the table
`SampleConfidence`, which stands for log(1 + n) / log(101), `SampleAssumption` says that it
rises from 0 to at most 1 and is at most 1/2 below ten calls, since (1 + 9)² < 101. TLC evaluates them in
every run. Some theorems have a hypothesis besides, since without it they are false:

| Hypothesis | Says | Needed by | True in | False in |
|---|---|---|---|---|
| `KeysTellAnswers` | where two cached fields share a key, their answers are the same | `AnswersAligned`, `BatchAnswersInExecution` | both batch runs (`SoundKeys`) | `exec_doc_key` |
| `OnlyResolversFail` | the errgroups belong to the request, the fields of list objects have resolvers, lists are answered by lists or nil | `FailureNotInvented` | all executor runs (`SoundSchema`) | |
| `SoundAnswers` | `KeysTellAnswers`, one answer per field and parent, lists are slices or nil, and not nil where they are batched | `PlanDoesNotMatter` | `exec_home` (`OneResponse`), `exec_list`, `exec_shop` | `exec_doc_key`, `exec_null_list` |
| `SoundPlans` | at least one call is expected of every list that is not serial, and what is to be batched is a list whose field has a batch resolver | `InflightKept` | `exec_home` (`PlansFit`); `enumerateStrategies` and the minimum of one call in `makeListCandidate` | |
| `EnoughExpected` | no batch has come to more chunks than calls were expected of its node; of a state, so it is a premise inside the theorem | `InflightKept` | every state of the runs that check `InflightWithinPlan` | a batched leaf that runs two chunks where one call was expected |
| `OneNodeFits` | two batches of one leaf, or as many as there are workers, are within `maxInflight` | `BudgetIsKept`, `SerialNeverBetter` | `plan_search`; the default configuration (16 workers, 32 in flight) | `MaxInFlight` 1 with two workers or more: TLC then finds a batched leaf over the budget |

The line of `SoundAnswers` is the point of the two findings: the hypothesis fails
in exactly the two plans whose response TLC shows to be wrong.

### Calls (`NodeResolveProofs`)

* `TypesAndGate`, `NodeTypes`: `NodeTypeOK` and `GateAccounting`. The two need each
  other: that the gate stays a natural number when a token is given back
  follows from counting the calls that are resolving, and that the count stays
  meaningful follows from the types. The inductive invariant is their
  conjunction, `TypedGate`; cardinality lemmas say what a call that enters or leaves
  `resolving` does to the count.
* `OneOwner`: `SingleOwner` alone is not inductive: a
  cached call that publishes must be on the path that reserved, so the
  invariant adds that whoever is about to publish owns its key
  (`PublishersOwn`), and that only registered fields get past the lookup (`Admitted`).
* `SingleFlightImplemented`: `NodeSpec => SF!Spec`. Steps of uncached calls, of the
  gate and of the contexts are invisible (`InvisibleStep`); the lookup maps to
  `Lead`, `Follow` or `AskAndTake`, the publication to `Land`, the end of a wait to
  `Take` or `GiveUp`. The mapping needs the invariants above: `Land` requires
  that the flight is still flying, which is `SingleOwner`.
* `CountersAgree`: `CallAccounting`. Each counter is the cardinality of a set of calls that have passed a
  point; every step moves one call from one of these sets to the next and one counter with it.

### Batches

* `BatchTypesKept`, `FailureReported` (`BatchResolveProofs`). The type invariant is not
  inductive: `Control` adds, per batch, how its locals fit together (`Fits`). The owners
  are strictly increasing indices of the items seen so far; chunks are launched
  in order and their number is that of the pieces the owners are cut into; a batch that awaits or has
  returned has launched and joined them all; a failed chunk has left its error in the group or
  is on its way to. The type proof rests on lemmas about the cutting of owners into
  chunks, for any batch size: chunks are within the owners, do not overlap, and cover them.
* `OnePartyOwns`, `ItemsCounted` (`BatchAccountsProofs`). `OneOwnerPerKey` counts the
  items that will be published; `Owing` says which these are in terms of the chunk's own
  progress: an item is owed until the publishing loop of its chunk has passed it, or its chunk
  failed and published the error. `BatchOwnership` is inductive with `Control`. `Books` does for the counters
  what `CountersAgree` does for calls: a batch in flight has counted what it has sorted, and one chunk each
  for the resolvers it has begun.
* `AnswersAligned` (`BatchAccountsProofs`). The invariant `ValuesTold` says of every entry,
  every call and every item of a batch where its value comes from. An item is `Told`,
  or its chunk still has to publish it, or it is pending on an entry that will be, or the batch is bound to
  fail. It holds without `KeysTellAnswers`: what a cache entry holds is an answer of *some* resolver that
  has its key (`AnswersAt`). Only the last step, from there to this item's answer, needs the hypothesis.

### Executions (`ExecutorProofs`)

The inductive invariant `Executing` joins the ones above with `Nested`: how scopes, jobs and results
fit. A scope is open only after the call it belongs to was resolved and before it has
returned (`RetFits`); a job that runs is awaited by an open scope that started it (`JobFits`); an error a
job returned is carried, by the open scope that will see it or by a scope that has itself failed; in a sequential stage
all jobs but the last are over without error (`InOrder`).

* `ExecutionTyped`, `BatchesInExecution`, `BatchAnswersInExecution`: `ExecTypeOK`, and the properties
  of calls and batches where an execution starts them.
* `NothingLeftBehind`: `NothingOutlivesResponse`. Were something running when the root has
  returned, take of all running jobs one whose node is no child of another's (`TreeAssumption`): the scope that awaits
  it is open, hence runs itself, hence is the root, which is closed.
* `FailureNotLost`: `FailureReachesResponse`, by the same choice among the jobs that
  returned an error.
* `FailureNotInvented`: `ErrorHasCause`, from the invariant that there is a cause or everything is clean
  (`JobsClean`, `ScopesClean`): no context cancelled, no error in an entry, a call, a chunk, a batch or a group.

### Responses (`ResponseProofs`)

`PlanDoesNotMatter`: under `SoundAnswers`, `ExecSpec => []ResponseCorrect`. Both `Expected` and the response are
built over a tree of any depth, which raises three difficulties.

1. That `Expected` exists: it is defined by recursion over the fields below a node. That a function satisfies
   the equation on all nodes follows by building it up from nodes without children to the roots;
   a node whose children are all done always exists (`LowestNode`, `ExpectedIs`).
2. That the flat list of a nested batch is cut back where it was joined
   (`Flatten`, `ShareAt`), for lists of any lengths with nils in between. The library's inductions
   over data take an operator as a parameter, which the provers cannot instantiate; these lemmas argue
   from the least number that would be a counterexample (`NatMin`).
3. That nothing wrong is assembled while a failure is on its way. A batch takes what a failed entry
   holds for an item that hits it, so values *are* wrong in some states, and `ResponseCorrect` has no inductive
   strengthening that says all returned values are right. `Truthful` says: a call or chunk
   has failed, or everything returned so far is true (`Telling`: the items of an open scope are those of its answer; a job
   that returned without error returned the truth); and who published an
   error has failed (`ErrorsOwned`). Once something has failed, `FailureSurfaces` from `ExecutorProofs` says that the
   response is an error.

`InflightKept`: under `SoundPlans`, `ExecSpec => [](EnoughExpected => InflightWithinPlan)`. The plan's number is
computed up the tree by a different rule per strategy; what runs is decided by as many semaphores as
there are open scopes. Between the two stand three steps.

1. The semaphores. `Within` says of every scope that no more of its jobs are past their semaphore
   than its stage has workers, and one in a sequential stage (`WorkersKept`), and of every batch that no more chunks are
   past theirs than it has slots (`SlotsKept`). Together with `Executing` that is inductive (`WithinStep`).
2. The tokens. Every resolver that runs belongs to a call or a chunk, and that runs for a job (`Units`, `UnitsRun`),
   for the job of the scope that awaits it, and so on up to the root (`RunsFor`). `Under(t)` is what runs for one
   scope: besides what it resolves itself, the union of what runs for each job it awaits (`UnderSplits`). As
   no more such jobs are past the semaphore than `Within` allows, `Under(t)` is at most their
   number times the largest of these (`WaitingFew`, `UnderFew`).
3. The tree. That `Under` is within `PeakInflight` for a job of a node is shown from the leaves up
   (`UnderWithinPeak`, by `LowestNode` again): of the nodes for which it fails one has no child among them, and
   there the rule of `combineChildExecution` for its strategy is at least what step 2 gives. That `PeakInflight` exists as
   a function is shown the same way as for `Expected`. `EnoughExpected` is needed in one place, a batched node:
   the rule counts no more chunks than calls.

### Requests around the store (`QueryServiceProofs`)

`TypedService`, the types with the cursors of the walks, is the base of all five.

* `ServiceTypes`, `IndexKept`: `ServiceTypeOK`, `IndexMatchesStore`. The store and its index are
  written under one lock, so both come from the same step.
* `OneSnapshot`: `OneSnapshotPerKey` is not inductive, as it does not say where a later
  node gets its snapshot from: `SnapshotsFromMemo` ties all annotations, and those to come, to the memo of the plan.
* `RecordedFound`: `RecordedIsFound`. What was recorded is still stored (`RecordedStored`), and a lookup falls back
  to any bucket of the field.
* `EveryExecutionCounted`: `ExecutionsCounted`. All calls of a field's series together are as many
  as the pairs of a request and a node of the field that it has recorded (`Counted`); recording a node adds one to both.

### Estimates (`EstimatesProofs`)

The snapshot and the annotation are functions of the series and its age, which is all `TypedSeries` has to say; the work is in
what these functions promise. A quantile is one of the values observed and grows with its percentage (`QuantileIs`; that
the set of which it is the least is not empty follows from the greatest value observed). Shares stay
between 0 and 1 through all products, quotients and caps, and grow with calls and confidence (`EarnedIs`,
`RowWeightIs`, at most 0.85). A blend lies between what it blends (`BlendIs`), and nearer to the bound the smaller the
weight and the larger the rows (`BlendMono`). Sums over observations and the halving per day are shown
to exist as functions first (`TimesSums`, `HalvedExists`).

* `EstimatesInRange`, `AnnotationsHold`: `RowsInRange` and `AnnotationsAsAssumed`, so what `PlanSearch` assumes
  of its annotations is proved, up to the scale, of the module that makes them.
* `ConfidenceIsEarned`: below ten calls a confidence is at most 0.5 and earns at most 0.378 of 0.7, so at most
  0.439 is left of the 0.7 a steady list is granted; after two days at most 0.224.
* `StaleFades`: an action property. With less confidence the median gives way to the 95th percentile, which is no less
  (`ObservedFades`), and where nothing is left to adopt the estimate is the bound (`RowsMono`).
* `AgreedConverges`: an action property. Where all lengths agree every quantile is that length, whatever was adopted before;
  an estimate is never below it, and the record can only raise the weight.

### The search for a plan (`PlanSearchProofs`)

The tree of nodes, the annotations and the configuration are any that the assumptions of `PlanSearch`
allow. `PostorderAssumption` says that `Postorder` lists the nodes of a forest once each, children before
parents; `AnnotationsAssumption` what `AnnotationsHold` proves of the annotations that are made;
`ConfigAssumption` that the limits are positive.

The inductive invariant `SearchInv` says of every node enumerated so far that something is kept for it, and that what is kept
are candidates (`CandidateOf`): their strategies are known ones, their costs and resources natural numbers, each names a
kept candidate of every child, and none uses more memory than the naive plan of its subtree. `ThriftInv` adds what the two
claims on the budget and the cost need of the children (`ThriftyFor`): if the naive plan is within the memory limit, all that
is kept is within the budget, and the first costs no more than the naive plan. The proof follows
the steps of `enumerateSubtree`.

1. What its selections do to any list of candidates. The elements at a set of places are as many as the places and each one
   of them (`Ranked`, `PickedIs`). Pruning leaves, for each candidate, one that costs no more and that nobody dominates: of those that use no more of
   anything, the one with the least sum of all resources (`UndominatedBelow`, `PruneDominatedIs`); it never leaves
   nothing. `betterCandidate` is a strict order of which the total cost is the first criterion (`BetterOrder`), so the first of the
   top k costs no more than any (`KeepTopKIs`). The filter passes all that is within the budget, and nothing
   else if there is any (`FilterByBudgetIs`).
2. What it starts from. The serial strategy comes first (`StrategiesAre`), and the first combination takes
   the best candidate of each child (`CombinationsAre`, from the positional numbering of the combinations), so that the first
   combined candidate is the serial strategy over the children's best (`CombinedCandidatesAre`). That is the one that carries the
   argument: it is in budget and no dearer than the naive plan if the children's best are (`SerialThrifty`),
   and nothing dearer is put before it. It is never cut off, however few combinations are tried.
3. Leaves. `enumerateSubtree` applies no budget to them. What keeps them within it is that a parallel strategy without children
   costs coordination and saves nothing, so the serial one dominates it (`LeanOrDominated`); only batches
   can be kept beside that, at most two at a time. Hence `OneNodeFits`.
4. That the recursive functions exist and have natural values: calls along the parents, sums below a node, combinations per child, and
   `Chosen`, which follows the chosen candidates down the tree (`RecursionExists`, by a rank that falls along the recursion;
   `ChosenIs` shows that it never meets a node for which nothing was kept).

* `SearchTypes`, `AllPlanned`: `SearchTypeOK` and `EveryNodePlanned`, from `SearchInv`.
* `BudgetIsKept`, `SerialNeverBetter`: `BudgetKept` and `NeverWorseThanSerial`, from both, under `OneNodeFits`.

### What is not proved

* Liveness: `CallReturns`, `BatchReturns`, `Responds`. It needs fairness and `ENABLED`.
* Everything about `LogicalPlan`: its operators are recursive, on documents and schemas.
* That `EnoughExpected` holds: the calls of a node are an estimate, and data may exceed it.
* Deadlock: TLC checks it. In `Executor` the names in `Calls` and `Batches` must suffice for a
  plan; a job without a name could not start, and TLC would report the deadlock.

## 5. Not modelled

* Parsing and validation (gqlparser), beyond what the planner relies on; reading and
  joining schema files; the text of the query's fingerprint; explain texts and
  exports; the example server: input/output and formatting without state that
  outlives a call.
* Interfaces and unions, and directives in queries: the schemas of `LogicalPlan` have
  object types only, and the code ignores the directives.
* Fanout hints: `defaultFanout` gives 0 for every list, so the branch that
  would use one is never taken.
* Error rates in the statistics: only executions without errors are recorded.
* Log lines and tracing spans.
* Panics: a resolver that panics ends the process.
* Elapsed time and observed bytes as counters of an execution: `Estimates` takes
  latency and width of an observation as inputs.
* The 500 of the handler for a plan that fails (`http_handler.go:95-104`): `Build` errs only without a
  prepared query or a catalog, which the handler and `planner.New` exclude, and neither `Annotate` nor
  `Choose` returns an error.
* Two branches of `executor.go` that no state reaches: the second clamp of the
  non-batched path in `resolveBatchedChild` (:258-262) and the branch for
  a field that is no list in `materializeBatchedChildValues` (:388-397), and the
  fallback for arguments that cannot be marshalled.
* Collisions of cache keys whose parts contain the separator: keys are tuples.

## 6. Plan

Done: every module of section 2, and the proofs of section 4. `LogicalPlan` and `Estimates` complete the
path from a query to its annotations; the strategies and the in-flight numbers
of the optimizer are inputs of `Executor` through `Plans`.

Open: the properties of `LogicalPlan` are only model-checked; to prove them, its operators would have to be
rewritten as recursive functions over a well-founded order of selections.
