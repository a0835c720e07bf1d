------------------------------ MODULE Estimates ------------------------------
(***************************************************************************)
(* What the planner makes of its observations of a field: the snapshot of  *)
(* a series (src/planner/stats/store.go) and the estimates of rows, cost   *)
(* and confidence that rest on it (src/planner/estimate/estimate.go), as   *)
(* queries add observations and as days pass.  StatsStore has the keys and *)
(* the lookup of a series, QueryService the order of lookups and records.  *)
(*                                                                         *)
(* Numbers are thousandths, rounded down; latencies, lengths and widths    *)
(* are observed as whole milliseconds, rows and bytes.                     *)
(***************************************************************************)
EXTENDS Naturals, FiniteSetsExt

CONSTANTS
  Cases,             \* fields and what is observed of them
  SampleConfidence,  \* log(1 + n) / log(101) for n calls, at most 1
  MaxCalls,          \* bound: observations of the field
  MaxAge             \* bound: days without an observation

One == 1000

ASSUME CasesAssumption ==
  \A c \in Cases :
    /\ c.bound \in Nat \ {0} /\ c.costWeight \in 1..3
    /\ {c.isList, c.isScalar, c.cacheable, c.boundGiven} \subseteq BOOLEAN
    /\ IsFiniteSet(c.observations)
    /\ \A o \in c.observations : \A what \in DOMAIN o : o[what] \in Nat
ASSUME BoundsAssumption == MaxCalls \in Nat /\ MaxAge \in Nat
ASSUME SampleAssumption ==
  /\ SampleConfidence \in [0..MaxCalls -> 0..One] /\ SampleConfidence[0] = 0
  /\ \A n \in 1..MaxCalls : SampleConfidence[n - 1] <= SampleConfidence[n]
  /\ \A n \in 0..MaxCalls : n < 10 => 2 * SampleConfidence[n] <= One  \* 10 * 10 < 101

VARIABLES
  field,  \* what is known of the field without statistics
  seen,   \* seen[o]: how often o was observed
  age,    \* days since the last observation
  snap,   \* the snapshot a query planned now is given
  est     \* what such a query's node for the field is annotated with

estimateVars == <<field, seen, age, snap, est>>

-----------------------------------------------------------------------------
Smaller(a, b) == IF a <= b THEN a ELSE b
Larger(a, b) == IF a >= b THEN a ELSE b
Minus(a, b) == IF a >= b THEN a - b ELSE 0

Part(a, b) == (a * b) \div One

Times(bag, S) == MapThenSumSet(LAMBDA o : bag[o], S)

(* quantile: of the sorted values that at int((n - 1) * q).  What was not  *)
(* measured, as the length of an object, an observation lacks.             *)
Quantile(bag, what, percent) ==
  LET obs == {o \in DOMAIN bag : what \in DOMAIN o /\ bag[o] > 0}
      index == (Minus(Times(bag, obs), 1) * percent) \div 100
      upTo(x) == Times(bag, {o \in obs : o[what] <= x})
  IN IF obs = {} THEN 0 ELSE Min({x \in {o[what] : o \in obs} : upTo(x) > index})

(* The penalty 1 / (1 + share * (ratio - 1)) of an unsteady series.        *)
Stability(lo, hi, share, least) ==
  IF lo = 0 \/ hi <= lo THEN One
  ELSE Larger(least, (One * 100 * lo) \div (100 * lo + share * (hi - lo)))

(* freshnessScore: it halves with each day.                                *)
Halved[days \in 0..MaxAge] == IF days = 0 THEN One ELSE Halved[days - 1] \div 2

(* Mutant: what has decayed is taken for what is left.                     *)
FreshnessDecayed(days) == One - Halved[days]

Freshness(days) == Halved[days]

(* snapshotFromSeries; only executions without errors are recorded.        *)
Snapshot(bag, days) ==
  LET calls == Times(bag, DOMAIN bag)
      len(q) == Quantile(bag, "len", q)
      latency(q) == Quantile(bag, "latency", q)
      rowStability == Stability(len(50), len(95), 22, 450)
      latStability == Stability(latency(50), latency(95), 25, 350)
      known == Part(SampleConfidence[calls], Freshness(days))
  IN [calls |-> calls, p50 |-> len(50), p95 |-> len(95), p99 |-> len(99),
      latency50 |-> latency(50), latency95 |-> latency(95), width50 |-> Quantile(bag, "width", 50),
      rowStability |-> rowStability, latStability |-> latStability, fresh |-> Freshness(days),
      rowConf |-> Part(known, rowStability), latConf |-> Part(known, latStability)]

-----------------------------------------------------------------------------
(* stableListFastPath                                                      *)
StableList(s) ==
  s.calls >= 5 /\ s.rowStability >= 950 /\ s.p50 > 0 /\ s.p50 = s.p95 /\ s.p95 = s.p99

(* The rows the statistics suggest, 0 if none.                             *)
ObservedRows(s) ==
  CASE StableList(s) -> One * s.p50
    [] ~StableList(s) /\ s.rowConf >= 750 /\ s.p50 > 0 -> One * s.p50
    [] ~StableList(s) /\ s.rowConf >= 500 /\ (s.rowConf < 750 \/ s.p50 = 0) ->
         650 * (IF s.p50 > 0 THEN s.p50 ELSE s.p95) + 350 * s.p95
    [] ~StableList(s) /\ s.rowConf \in 300..499 -> One * s.p95
    [] OTHER -> 0

Upper(f) == One * f.bound

(* Mutant: the bound is not looked at.                                     *)
ChosenRowsUnbounded(f, s) == ObservedRows(s)

(* chooseExpectedRowsFromStats                                             *)
ChosenRows(f, s) == Smaller(ObservedRows(s), Upper(f))

(* How far a confidence has come, from 0.20 on, on its way to adoption,    *)
(* and the calls to the n that are enough.                                 *)
Adoption(conf, way) == Smaller(One, (Minus(conf, 200) * One) \div way)
SampleOf(s, n) == Smaller(One, (s.calls * One) \div n)

Capped(f, weight, cacheableCap, cap) == Smaller(IF f.cacheable THEN cacheableCap ELSE cap, weight)

(* Mutant: the sample is the other way up.                                 *)
RowWeightInverted(f, s) ==
  Capped(f, 150 + Part(700, Part(Smaller(One, (10 * One) \div s.calls), Adoption(s.rowConf, 500)))
              + (IF StableList(s) THEN 100 ELSE 0), 700, 850)

(* rowStatsAdoptionWeight, latencyStats..., widthStats...                  *)
RowWeight(f, s) ==
  Capped(f, 150 + Part(700, Part(SampleOf(s, 10), Adoption(s.rowConf, 500)))
              + (IF StableList(s) THEN 100 ELSE 0), 700, 850)

LatencyWeight(f, s) ==
  Capped(f, 100 + Part(500, Part(SampleOf(s, 12), Adoption(s.latConf, 550))), 350, 550)

WidthWeight(f, s) ==
  Capped(f, 100 + Part(450, Part(SampleOf(s, 12), Adoption(s.rowConf, 550))), 400, 600)

BlendTowards(base, observed, weight) ==
  IF observed = 0 THEN base ELSE (base * (One - weight) + observed * weight) \div One

(* A list whose statistics are adopted.                                    *)
Adopted(f, s) == s.calls >= 5 /\ ChosenRows(f, s) > 0

(* Mutant: the confidence of what was adopted, though little of it was.    *)
ConfidenceUnweighted(f, s) ==
  IF Adopted(f, s) THEN Larger(250, IF StableList(s) THEN Larger(s.rowConf, 700) ELSE s.rowConf) ELSE 250

ConfidenceOf(f, s) ==
  IF Adopted(f, s)
  THEN Larger(250, Part(IF StableList(s) THEN Larger(s.rowConf, 700) ELSE s.rowConf, RowWeight(f, s)))
  ELSE 250

(* Longer lists than by default raise the bound, where it was the default. *)
BoundRaised(f, s) == ~f.boundGiven /\ s.calls >= 5 /\ s.rowConf >= 550 /\ s.p99 > f.bound

(* estimateCardinalityLocal: without a hint the baseline is the bound.     *)
CardinalityOf(f, s) ==
  IF f.isList
  THEN [rows |-> IF Adopted(f, s) THEN BlendTowards(Upper(f), ChosenRows(f, s), RowWeight(f, s)) ELSE Upper(f),
        upper |-> IF BoundRaised(f, s) THEN One * s.p99 ELSE Upper(f),
        rowConf |-> ConfidenceOf(f, s)]
  ELSE [rows |-> One, upper |-> One, rowConf |-> One]

-----------------------------------------------------------------------------
(* Mutant: a resolver faster than 5 ms counts for less than a call.        *)
StartupRaw(f, s) == BlendTowards(One, 200 * s.latency50, LatencyWeight(f, s))

Startup(f, s) ==
  IF s.latency50 = 0 THEN One
  ELSE BlendTowards(One, Larger(One, 200 * s.latency50), LatencyWeight(f, s))

UncertaintyPenalty(conf) ==
  CASE conf >= 850 -> 100
    [] conf \in 550..849 -> 400
    [] conf \in 300..549 -> 1250
    [] OTHER -> 3000

(* A tenth of the latency per row; none without statistics.                *)
PerItem(f, s, rows) ==
  (100 * s.latency95 * (500 + LatencyWeight(f, s))) \div Larger(rows, One * s.p50)

Width(f, s) ==
  BlendTowards(IF f.isScalar THEN 32 ELSE IF f.isList THEN 128 ELSE 96, s.width50, WidthWeight(f, s))

Risk(s, conf) ==
  UncertaintyPenalty(conf)
    + (IF s.calls = 0 THEN 0 ELSE 3 * (One - s.latStability) + 2 * (One - s.fresh))

(* estimateLocalCost                                                       *)
SelfPerCall(f, s, card) ==
  One * f.costWeight + PerItem(f, s, card.rows) + card.rows \div 2
    + (Width(f, s) * card.rows) \div 4096 + Risk(s, card.rowConf)

CostConfidence(f, s, conf) ==
  IF s.calls = 0 THEN conf ELSE Smaller(conf, BlendTowards(conf, s.latConf, LatencyWeight(f, s)))

(* Annotate, of one node.                                                  *)
Annotation(f, s) ==
  LET card == CardinalityOf(f, s)
  IN [rows |-> card.rows, upper |-> card.upper, rowConf |-> card.rowConf,
      startup |-> Startup(f, s), self |-> SelfPerCall(f, s, card), width |-> Width(f, s),
      latConf |-> CostConfidence(f, s, card.rowConf)]

-----------------------------------------------------------------------------
(* A query planned now reads the series as it is.                          *)
Planned == snap' = Snapshot(seen', age') /\ est' = Annotation(field', snap')

EstimateInit ==
  /\ field \in Cases
  /\ seen = [o \in field.observations |-> 0] /\ age = 0
  /\ snap = Snapshot(seen, age) /\ est = Annotation(field, snap)

(* Store.Record                                                            *)
Record ==
  /\ snap.calls < MaxCalls
  /\ \E o \in DOMAIN seen : seen' = [seen EXCEPT ![o] = @ + 1]
  /\ age' = 0
  /\ UNCHANGED field
  /\ Planned

(* Time, external to the program, in steps of a day up to MaxAge.          *)
DayPasses ==
  /\ snap.calls > 0
  /\ age' = Smaller(age + 1, MaxAge)
  /\ UNCHANGED <<field, seen>>
  /\ Planned

EstimateNext == Record \/ DayPasses

EstimateSpec == EstimateInit /\ [][EstimateNext]_estimateVars

-----------------------------------------------------------------------------
Lengths == {o.len : o \in {o \in DOMAIN seen : "len" \in DOMAIN o /\ seen[o] > 0}}

(* A list is never expected to be longer than its bound nor to be empty,   *)
(* and only rows between the bound and some length observed are expected,  *)
(* at the fifth call at the earliest: what the plans of QueryService may   *)
(* be computed from.                                                       *)
RowsInRange ==
  field.isList =>
    /\ est.rows \in One..Upper(field) /\ Upper(field) <= est.upper
    /\ est.rows < Upper(field) =>
         snap.calls >= 5 /\ \E x \in Lengths \ {0} : One * x <= est.rows

(* The annotations are what the search relies on: a call costs its startup *)
(* at least, a row more than half a unit, and the confidences are ordered. *)
AnnotationsAsAssumed ==
  /\ est.startup >= One /\ 2 * est.self > est.rows /\ est.width > 0
  /\ est.rowConf \in 250..One /\ est.latConf \in 0..est.rowConf
  /\ ~field.isList => est.rows = One /\ est.rowConf = One

(* The optimizer gives up its caution about a list's parallelism above a   *)
(* confidence of 0.45, which takes ten calls and no more than a day since  *)
(* the last: a few calls or old ones are not enough, though all agree.     *)
ConfidenceEarned == field.isList /\ est.rowConf > 450 => snap.calls >= 10 /\ age <= 1

(* Statistics nobody adds to lose their pull: with every day the estimate  *)
(* is the same or nearer to the bound, whatever quantile is taken then.    *)
StalenessFades == [][age' > age => est'.rows >= est.rows]_estimateVars

Distance(a, b) == Minus(a, b) + Minus(b, a)

(* Observations that agree are learned: each brings the estimate nearer to *)
(* the length they agree on, as far as the bound allows.                   *)
AgreementConverges ==
  [][\A x \in 1..field.bound :
       Lengths' = {x} /\ snap'.calls > snap.calls
         => Distance(est'.rows, One * x) <= Distance(est.rows, One * x)]_estimateVars
=============================================================================
