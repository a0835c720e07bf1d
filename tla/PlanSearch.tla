------------------------------ MODULE PlanSearch ------------------------------
(***************************************************************************)
(* The optimizer's search for a physical plan, src/planner/optimize: the   *)
(* subtrees of the annotated plan are enumerated bottom up, each keeping a *)
(* few candidates, and the best candidate at the top fixes the strategies  *)
(* below it.  Costs are in hundredths, quotients rounded down; confidences *)
(* are in hundredths.                                                      *)
(***************************************************************************)
EXTENDS Integers, Sequences, FiniteSets, FiniteSetsExt

CONSTANTS
  Postorder,     \* the nodes of the logical plan, children before parents
  Children,      \* Children[n]: the nodes below n, a sequence
  ParentOf,      \* ParentOf[n]: the node above, "root" at the top
  IsList,        \* nodes of list type
  MaxBatchSize,  \* MaxBatchSize[n], for the batchable nodes; 100 if none is given
  Annotations,   \* what the nodes may be annotated with
  RootWorkers,   \* Config
  SearchConfig   \* maxInflight, maxMemory, maxDescendantConcurrency, keepTopK

Nodes == {Postorder[i] : i \in DOMAIN Postorder}

ASSUME PostorderAssumption ==
  /\ Postorder \in Seq(Nodes) /\ Children \in [Nodes -> Seq(Nodes)] /\ "root" \notin Nodes
  /\ \A i, j \in DOMAIN Postorder : Postorder[i] = Postorder[j] => i = j
  /\ \A i \in DOMAIN Postorder : \A m \in DOMAIN Children[Postorder[i]] :
       /\ ParentOf[Children[Postorder[i]][m]] = Postorder[i]
       /\ \E j \in 1..(i - 1) : Postorder[j] = Children[Postorder[i]][m]
  /\ \A n \in Nodes : ParentOf[n] # "root" =>
       /\ ParentOf[n] \in Nodes
       /\ \E m \in DOMAIN Children[ParentOf[n]] : Children[ParentOf[n]][m] = n
ASSUME AnnotationsAssumption ==
  \A ns \in Annotations : \A n \in Nodes : LET a == ns[n] IN
    /\ {a.rows, a.width} \subseteq Nat \ {0} /\ {a.startup, a.self} \subseteq Nat
    /\ a.startup >= 100 /\ a.self > 50 * a.rows
    /\ a.rowConf \in 25..100 /\ a.latConf \in 0..a.rowConf
    /\ n \notin IsList => a.rows = 1 /\ a.rowConf = 100 /\ ~a.bounded
ASSUME ConfigAssumption ==
  /\ {RootWorkers, SearchConfig.maxInflight, SearchConfig.maxMemory,
      SearchConfig.maxDescendantConcurrency, SearchConfig.keepTopK} \subseteq Nat \ {0}
  /\ \A n \in DOMAIN MaxBatchSize : MaxBatchSize[n] \in Nat \ {0}

VARIABLES
  ann,    \* ann[n]: the annotation of n
  next,   \* how many nodes of Postorder are enumerated
  kept,   \* kept[n]: the candidates enumerateSubtree returned for n
  plan    \* the strategies chosen, by node

searchVars == <<ann, next, kept, plan>>

SearchInit ==
  /\ ann \in Annotations
  /\ next = 0
  /\ kept = [n \in Nodes |-> <<>>]
  /\ plan = <<>>

Smaller(a, b) == IF a <= b THEN a ELSE b
Larger(a, b) == IF a >= b THEN a ELSE b

SumOver(f) == MapThenSumSet(LAMBDA m : f[m], DOMAIN f)
MaxOver(least, f) == Max({least} \cup {f[m] : m \in DOMAIN f})

-----------------------------------------------------------------------------
(* What the annotation says of a node; the rows of its parents are calls.  *)
LogicalCalls ==
  LET calls[n \in Nodes] ==
        IF ParentOf[n] = "root" THEN 1 ELSE calls[ParentOf[n]] * ann[ParentOf[n]].rows
  IN calls

RowsOutTotal(n) == LogicalCalls[n] * ann[n].rows

Confidence(n) == Smaller(ann[n].rowConf, ann[n].latConf)

HasNestedLists ==
  LET below[n \in Nodes] ==
        \E m \in DOMAIN Children[n] : Children[n][m] \in IsList \/ below[Children[n][m]]
  IN below

(* conservativeListTier: how much parallelism a poorly known list gets.    *)
IsLowConfidenceUpperBound(n) ==
  (ann[n].rowConf <= 45 \/ ann[n].latConf <= 45) /\ ann[n].bounded

ListTier(n) ==
  IF IsLowConfidenceUpperBound(n)
  THEN IF LogicalCalls[n] >= 1000 \/ RowsOutTotal(n) >= 100000 \/ HasNestedLists[n]
       THEN "strict" ELSE "limited"
  ELSE IF HasNestedLists[n]
  THEN IF Confidence(n) < 35 THEN "strict"
       ELSE IF Confidence(n) < 55 THEN "limited" ELSE "normal"
  ELSE IF Confidence(n) < 30 /\ RowsOutTotal(n) >= 10000 THEN "limited" ELSE "normal"

-----------------------------------------------------------------------------
(* A strategy; the label orders paths by name, as rank.                    *)
Strategy(mode, rank, workers, batchSize, batches) ==
  [mode |-> mode, rank |-> rank, workers |-> workers, batchSize |-> batchSize,
   maxConcurrentBatches |-> batches]

(* The parallel lists in the order of their labels: _16, _2, _4.           *)
ParallelList(k) ==
  Strategy("LIST_PARALLEL", CASE k = 16 -> 1 [] k = 2 -> 2 [] k = 4 -> 3,
           Smaller(RootWorkers, k), 0, 0)

BatchedList(size) ==
  Strategy("LIST_BATCHED", 0, Smaller(RootWorkers, 16), size, Smaller(RootWorkers, 2))

BatchSizes(n) ==
  LET half == Larger(1, MaxBatchSize[n] \div 2)
  IN IF half = MaxBatchSize[n] THEN <<half>> ELSE <<half, MaxBatchSize[n]>>

SerialStrategy(n) ==
  Strategy(IF n \in IsList THEN "LIST_SERIAL"
           ELSE IF Children[n] = <<>> THEN "SCALAR" ELSE "SEQ_FIELDS", 4, 1, 0, 0)

(* The strategies a node is tried with, the serial one always first.       *)
Strategies(n) ==
  <<SerialStrategy(n)>> \o
    IF n \notin IsList
    THEN IF Children[n] = <<>> THEN <<>>
         ELSE <<Strategy("PAR_FIELDS", 3, Smaller(RootWorkers, 4), 0, 0)>>
    ELSE (CASE ListTier(n) = "normal" ->
                 <<ParallelList(2), ParallelList(4)>>
                   \o (IF HasNestedLists[n] THEN <<>> ELSE <<ParallelList(16)>>)
            [] ListTier(n) = "limited" -> <<ParallelList(2)>>
            [] ListTier(n) = "strict" -> <<>>)
         \o (IF n \in DOMAIN MaxBatchSize
             THEN [i \in DOMAIN BatchSizes(n) |-> BatchedList(BatchSizes(n)[i])] ELSE <<>>)

(* Mutant: a last batch that is not full is not counted.                   *)
PhysicalCallsFloored(n, s) ==
  IF s.mode = "LIST_BATCHED" THEN LogicalCalls[n] \div s.batchSize ELSE LogicalCalls[n]

PhysicalCalls(n, s) ==
  IF s.mode = "LIST_BATCHED"
  THEN (LogicalCalls[n] + s.batchSize - 1) \div s.batchSize ELSE LogicalCalls[n]

OwnInflight(n, s) ==
  CASE s.mode = "LIST_PARALLEL" -> Smaller(PhysicalCalls(n, s), s.workers)
    [] s.mode = "LIST_BATCHED" -> Smaller(PhysicalCalls(n, s), s.maxConcurrentBatches)
    [] s.mode = "PAR_FIELDS" -> s.workers
    [] OTHER -> 1

CoordinationPerSlot ==
  [LIST_PARALLEL |-> 50, LIST_BATCHED |-> 25, PAR_FIELDS |-> 15,
   LIST_SERIAL |-> 0, SEQ_FIELDS |-> 0, SCALAR |-> 0]

(* A candidate before its children are looked at.                          *)
LocalCandidate(n, s) ==
  [strategy |-> s,
   calls |-> PhysicalCalls(n, s),
   startup |-> ann[n].startup * PhysicalCalls(n, s),
   self |-> ann[n].self * LogicalCalls[n] + CoordinationPerSlot[s.mode] * OwnInflight(n, s),
   childCost |-> 0,
   inflight |-> OwnInflight(n, s),
   memory |-> RowsOutTotal(n) * ann[n].width,
   concurrency |-> 1,
   below |-> <<>>]

(* Mutant: where there is another strategy, the serial one is not tried.   *)
LocalCandidatesUnserial(n) ==
  LET all == [i \in DOMAIN Strategies(n) |-> LocalCandidate(n, Strategies(n)[i])]
  IN IF Len(all) > 1 THEN Tail(all) ELSE all

LocalCandidates(n) ==
  [i \in DOMAIN Strategies(n) |-> LocalCandidate(n, Strategies(n)[i])]

Total(c) == c.startup + c.self + c.childCost

-----------------------------------------------------------------------------
(* One choice of candidates for the children of n: below[m] is the place   *)
(* of the m-th child's candidate in what was kept for it, 0 if none was.   *)
ChosenBelow(n, below) == {m \in DOMAIN below : below[m] # 0}

ChildCandidate(n, below, m) == kept[Children[n][m]][below[m]]

(* conservativeParallelPenalty: the rows are known by a bound only.        *)
IsConservative(n) == ann[n].rowConf <= 30 /\ ann[n].bounded

ConservativeCoordination(n, slots) ==
  IF IsConservative(n) THEN 50 * slots * ann[n].rows ELSE 0

(* safeDescendantConcurrency and descendantSaturationPenalty               *)
SafeConcurrency(child, c) ==
  LET byConfidence ==
        CASE Confidence(child) >= 75 -> 8
          [] Confidence(child) \in 55..74 -> 4
          [] OTHER -> 2
  IN IF c.strategy.mode = "LIST_PARALLEL" THEN Smaller(byConfidence, 4) ELSE byConfidence

Saturation(child, c, upstream) ==
  LET safe == SafeConcurrency(child, c)
      wanted == upstream * c.concurrency
      base == Larger((15 * Total(c)) \div 100, Larger((10 * c.childCost) \div 100, c.self))
  IN IF upstream <= 1 \/ wanted <= safe THEN 0
     ELSE ((wanted - safe) * base * (200 - Confidence(child))) \div (safe * 100)

WithChildren(c, below, cost, inflight, memory, concurrency) ==
  [c EXCEPT !.childCost = cost, !.below = below, !.inflight = Larger(@, inflight),
            !.memory = @ + memory, !.concurrency = Larger(@, concurrency)]

(* combineChildExecution: a candidate with the children it is to run with. *)
Combined(n, c, below) ==
  LET ms == ChosenBelow(n, below)
      child(m) == ChildCandidate(n, below, m)
      totals == [m \in ms |-> Total(child(m))]
      memories == [m \in ms |-> child(m).memory]
      inflightOf(S) == MaxOver(1, [m \in S |-> child(m).inflight])
      concurrent == MaxOver(1, [m \in ms |-> child(m).concurrency])
      batched == {m \in ms : child(m).strategy.mode = "LIST_BATCHED"}
      w == c.strategy.workers
      b == c.strategy.maxConcurrentBatches
      k == Cardinality(ms)
  IN IF k = 0 THEN [c EXCEPT !.below = below]
     ELSE CASE c.strategy.mode = "PAR_FIELDS" ->
            WithChildren(c, below, MaxOver(0, totals) + 20 * k,
                         w * inflightOf(ms), SumOver(memories), concurrent)
       [] c.strategy.mode = "LIST_PARALLEL" ->
            WithChildren(c, below,
              (SumOver(totals) \div (IF IsConservative(n) THEN 1 ELSE w)) + 10 * w * k
                + ConservativeCoordination(n, w)
                + SumOver([m \in ms |-> Saturation(Children[n][m], child(m), w)]),
              w * inflightOf(ms), MaxOver(0, memories), w * concurrent)
       [] c.strategy.mode = "LIST_BATCHED" ->
            WithChildren(c, below,
              (SumOver(totals) \div w) + 5 * w * k + 10 * b + ConservativeCoordination(n, b),
              Larger(b, Larger(w * inflightOf(ms \ batched), inflightOf(batched))),
              MaxOver(0, memories), b * concurrent)
       [] OTHER ->
            WithChildren(c, below, SumOver(totals), inflightOf(ms), SumOver(memories), concurrent)

(* childCombinationLimit, chooseChildCombinations: the first combinations  *)
(* in the order in which the last child varies first.                      *)
CombinationLimit == Smaller(64, Larger(8, SearchConfig.keepTopK))

CombinationsFrom(n) ==
  LET count[m \in 1..(Len(Children[n]) + 1)] ==
        IF m > Len(Children[n]) THEN 1
        ELSE Larger(1, Len(kept[Children[n][m]])) * count[m + 1]
  IN count

Combinations(n) ==
  [k \in 1..Smaller(CombinationLimit, CombinationsFrom(n)[1]) |->
     [m \in DOMAIN Children[n] |->
        LET size == Len(kept[Children[n][m]])
        IN IF size = 0 THEN 0 ELSE (((k - 1) \div CombinationsFrom(n)[m + 1]) % size) + 1]]

CombinedCandidates(n) ==
  LET local == LocalCandidates(n)
      combos == Combinations(n)
      width == Len(combos)
  IN [i \in 1..(Len(local) * width) |->
        Combined(n, local[((i - 1) \div width) + 1], combos[((i - 1) % width) + 1])]

-----------------------------------------------------------------------------
(* The elements at the places in a set, in their order.                    *)
Picked(cs, at) ==
  [k \in 1..Cardinality(at) |->
     cs[CHOOSE i \in at : Cardinality({j \in at : j < i}) + 1 = k]]

(* filterByBudget: with nothing within the budget, everything passes.      *)
InBudget(c) ==
  /\ c.concurrency <= SearchConfig.maxDescendantConcurrency
  /\ c.inflight <= SearchConfig.maxInflight
  /\ c.memory <= SearchConfig.maxMemory

(* Mutant: the concurrency of the descendants is not looked at.            *)
FilterByBudgetConcurrent(cs) ==
  LET fits(c) == c.inflight <= SearchConfig.maxInflight /\ c.memory <= SearchConfig.maxMemory
      in == {i \in DOMAIN cs : fits(cs[i])}
  IN IF in = {} THEN cs ELSE Picked(cs, in)

FilterByBudget(cs) ==
  LET in == {i \in DOMAIN cs : InBudget(cs[i])} IN IF in = {} THEN cs ELSE Picked(cs, in)

Resources(c) == <<Total(c), c.inflight, c.memory, c.concurrency>>

(* Mutant: of two equal candidates each removes the other.                 *)
DominatesEqually(a, b) == \A i \in 1..4 : Resources(a)[i] <= Resources(b)[i]

Dominates(a, b) ==
  /\ \A i \in 1..4 : Resources(a)[i] <= Resources(b)[i]
  /\ \E i \in 1..4 : Resources(a)[i] < Resources(b)[i]

PruneDominated(cs) ==
  Picked(cs, {i \in DOMAIN cs : \A j \in DOMAIN cs \ {i} : ~Dominates(cs[j], cs[i])})

(* betterCandidate: the first criterion in which two candidates differ.    *)
Criteria(c) ==
  <<Total(c), c.calls, c.inflight, c.concurrency, c.strategy.rank, -c.strategy.batchSize>>

BetterCandidate(a, b) ==
  \E i \in DOMAIN Criteria(a) :
    /\ Criteria(a)[i] < Criteria(b)[i]
    /\ \A j \in 1..(i - 1) : Criteria(a)[j] = Criteria(b)[j]

(* keepTopK, with the order of equals left as it is.                       *)
KeepTopK(cs) ==
  LET before(j, i) == \/ BetterCandidate(cs[j], cs[i])
                      \/ j < i /\ ~BetterCandidate(cs[i], cs[j])
      place(i) == Cardinality({j \in DOMAIN cs : before(j, i)}) + 1
  IN [k \in 1..Smaller(SearchConfig.keepTopK, Len(cs)) |->
        cs[CHOOSE i \in DOMAIN cs : place(i) = k]]

-----------------------------------------------------------------------------
(* enumerateSubtree of a node without children: no budget.                 *)
EnumerateLeaf(n) ==
  /\ Children[n] = <<>>
  /\ kept' = [kept EXCEPT ![n] = KeepTopK(PruneDominated(LocalCandidates(n)))]

EnumerateInner(n) ==
  /\ Children[n] # <<>>
  /\ kept' = [kept EXCEPT ![n] =
                KeepTopK(PruneDominated(FilterByBudget(CombinedCandidates(n))))]

EnumerateSubtree ==
  /\ next < Len(Postorder)
  /\ EnumerateLeaf(Postorder[next + 1]) \/ EnumerateInner(Postorder[next + 1])
  /\ next' = next + 1
  /\ UNCHANGED <<ann, plan>>

(* The candidate of each node under the best one at the top, 0 if none.    *)
Chosen ==
  LET place(n) == CHOOSE m \in DOMAIN Children[ParentOf[n]] : Children[ParentOf[n]][m] = n
      at[n \in Nodes] ==
        IF ParentOf[n] = "root" THEN Smaller(1, Len(kept[n]))
        ELSE IF at[ParentOf[n]] = 0 THEN 0
        ELSE kept[ParentOf[n]][at[ParentOf[n]]].below[place(n)]
  IN at

(* materializeCandidate, for the best candidate of each root child.        *)
Materialize ==
  /\ next = Len(Postorder)
  /\ plan = <<>>
  /\ plan' = [n \in {n \in Nodes : Chosen[n] # 0} |-> kept[n][Chosen[n]].strategy]
  /\ UNCHANGED <<ann, next, kept>>

Planned == plan # <<>> /\ UNCHANGED searchVars

SearchNext == EnumerateSubtree \/ Materialize \/ Planned

SearchSpec == SearchInit /\ [][SearchNext]_searchVars

-----------------------------------------------------------------------------
Modes == {"LIST_SERIAL", "LIST_PARALLEL", "LIST_BATCHED", "SEQ_FIELDS", "PAR_FIELDS", "SCALAR"}

(* Every candidate names a strategy the executor knows, with at least one  *)
(* worker and one resolver in flight, and costs are never negative.        *)
SearchTypeOK ==
  /\ next \in 0..Len(Postorder)
  /\ \A n \in Nodes : \A i \in DOMAIN kept[n] :
       /\ kept[n][i].strategy.mode \in Modes
       /\ kept[n][i].strategy.workers \in 1..RootWorkers
       /\ {kept[n][i].inflight, kept[n][i].concurrency} \subseteq Nat \ {0}
       /\ Total(kept[n][i]) \in Nat
  /\ DOMAIN plan \subseteq Nodes

(* The executor takes an unplanned node for one without strategy (no       *)
(* cache, no batches): however pruning, budget and cut-offs treat the      *)
(* candidates, some plan survives for each node, root to leaf.             *)
EveryNodePlanned == plan # <<>> => DOMAIN plan = Nodes

(* The naive plan: every node by its serial strategy.                      *)
SumBelow(own) ==
  LET total[n \in Nodes] ==
        own[n] + SumOver([m \in DOMAIN Children[n] |-> total[Children[n][m]]])
  IN total

SerialCost == SumBelow([n \in Nodes |-> Total(LocalCandidate(n, SerialStrategy(n)))])

SerialMemory == SumBelow([n \in Nodes |-> RowsOutTotal(n) * ann[n].width])

SerialInBudget(n) == SerialMemory[n] <= SearchConfig.maxMemory

Enumerated(n) == \E i \in 1..next : Postorder[i] = n

(* The search is greedy: it prunes, cuts children's combinations off in an *)
(* order that favours the first child's best candidate, and drops what is  *)
(* over budget.  Still its best candidate never costs more than the naive  *)
(* plan, if the naive plan is within the budget.                           *)
NeverWorseThanSerial ==
  \A n \in Nodes :
    Enumerated(n) /\ SerialInBudget(n) => Total(kept[n][1]) <= SerialCost[n]

(* The filter gives up when nothing fits.  It does not where a plan within *)
(* the budget is at hand: every candidate kept is then within the budget,  *)
(* though the combinations tried are only a few of all.                    *)
BudgetKept ==
  \A n \in Nodes :
    Enumerated(n) /\ SerialInBudget(n) => \A i \in DOMAIN kept[n] : InBudget(kept[n][i])
=============================================================================
