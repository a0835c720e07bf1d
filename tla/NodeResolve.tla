----------------------------- MODULE NodeResolve -----------------------------
(***************************************************************************)
(* The resolve phase of Executor.executeNode, src/planner/execute/         *)
(* executor.go: a call looks its field up, goes through the request cache, *)
(* and runs the direct resolver under the gate that bounds the resolvers   *)
(* in flight.  Calls of one request run concurrently; what starts them and *)
(* what they do with their values is in Executor.tla.                      *)
(***************************************************************************)
EXTENDS RequestCache, RuntimeStats, FiniteSets

CONSTANTS
  Calls,        \* the calls of executeNode in one request
  NodeOf,       \* NodeOf[c]: the logical node a call resolves
  Registered,   \* nodes whose field has a spec in the registry
  Answers,      \* Answers[n][p]: what the resolver of n may return on p
  Failing,      \* nodes whose resolver may return an error
  ErrorValues,  \* what a resolver may return beside its error
  Slices,       \* the members of Values that are Go slices
  Ctxs,         \* contexts: the request's and one per errgroup
  MaxInFlight   \* plan.MaxInFlight

ASSUME CallsAssumption == IsFiniteSet(Calls) /\ NodeOf \in [Calls -> Nodes]
ASSUME PlanAssumption == Registered \subseteq Nodes /\ MaxInFlight \in Nat
ASSUME ValuesAssumption ==
  /\ Nil \in Parents /\ Nil \in ErrorValues /\ ErrorValues \subseteq Values
  /\ Slices \subseteq Values /\ \A v \in Slices : Len(v) \in Nat
  /\ \A n \in Nodes, p \in Parents : Answers[n][p] \subseteq Values

VARIABLES
  entries,    \* requestCache.entries
  gate,       \* tokens in the gate channel
  rt,         \* the Runtime's counters
  pc,         \* where each call stands
  parent,     \* the parent value each call was given
  ctx,        \* the contexts each call's own context derives from
  result,     \* the call's value and err: its resolver's, or the entry's
  cancelled   \* contexts cancelled so far

nodeVars == <<entries, gate, rt, pc, parent, ctx, result, cancelled>>

(* gate := make(chan struct{}, maxInt(1, plan.MaxInFlight))                *)
GateCapacity == Larger(1, MaxInFlight)

PCs == {"idle", "enter", "waiting", "gate", "resolving", "complete", "returned"}

NodeTypeOK ==
  /\ entries \in [Keys -> Entry]
  /\ gate \in 0..GateCapacity
  /\ rt \in [Nodes -> Counter]
  /\ pc \in [Calls -> PCs]
  /\ parent \in [Calls -> Parents]
  /\ ctx \in [Calls -> SUBSET Ctxs]
  /\ result \in [Calls -> Outcomes]
  /\ cancelled \subseteq Ctxs

NodeInit ==
  /\ entries = EmptyCache
  /\ gate = 0
  /\ rt = NewRuntime(Nodes)
  /\ pc = [c \in Calls |-> "idle"]
  /\ parent = [c \in Calls |-> Nil]
  /\ ctx = [c \in Calls |-> {}]
  /\ result = [c \in Calls |-> NoOutcome]
  /\ cancelled = {}

-----------------------------------------------------------------------------
Done(x) == x \cap cancelled # {}

Cached(c) == ShouldUseNodeCache(NodeOf[c])

KeyOf(c) == CacheKeyForNode(NodeOf[c], parent[c])

At(c, from) == pc[c] = from

GoTo(c, to) == pc' = [pc EXCEPT ![c] = to]

(* countRowsOut *)
CountRowsOut(n, v) ==
  IF v = Nil THEN 0
  ELSE IF ~Field[n].isList THEN 1
  ELSE IF v \in Slices THEN Len(v) ELSE 0

(* The tail both paths share: an error returns, without the value beside   *)
(* it, a value is counted first.                                           *)
(* r is the runtime after what the step itself counted.                    *)
Return(c, o, r) ==
  /\ result' = [result EXCEPT ![c] = o]
  /\ rt' = IF o.err = "none"
           THEN AddRowsOut(r, NodeOf[c], CountRowsOut(NodeOf[c], o.val)) ELSE r
  /\ GoTo(c, "returned")

(* What a resolver may answer; one whose context is done may give up.      *)
ResolverErrors(n, x) ==
  (IF n \in Failing THEN {"failed"} ELSE {})
    \cup (IF Done(x) THEN {"canceled"} ELSE {})

DirectOutcomes(n, p, x) ==
  {Outcome(v, "none") : v \in Answers[n][p]}
    \cup {Outcome(v, e) : v \in ErrorValues, e \in ResolverErrors(n, x)}

-----------------------------------------------------------------------------
Invoke(c, p, x) ==
  /\ At(c, "idle")
  /\ parent' = [parent EXCEPT ![c] = p]
  /\ ctx' = [ctx EXCEPT ![c] = x]
  /\ GoTo(c, "enter")
  /\ UNCHANGED <<entries, gate, rt, result, cancelled>>

EnterUnknown(c) ==
  /\ At(c, "enter")
  /\ NodeOf[c] \notin Registered
  /\ Return(c, Outcome(Nil, "no field spec"), rt)
  /\ UNCHANGED <<entries, gate, parent, ctx, cancelled>>

EnterUncached(c) ==
  /\ At(c, "enter")
  /\ NodeOf[c] \in Registered
  /\ ~Cached(c)
  /\ rt' = AddLogicalCalls(rt, NodeOf[c], 1)
  /\ GoTo(c, "gate")
  /\ UNCHANGED <<entries, gate, parent, ctx, result, cancelled>>

EnterHit(c) ==
  /\ At(c, "enter")
  /\ NodeOf[c] \in Registered
  /\ Cached(c)
  /\ HitReady(entries, KeyOf(c))
  /\ Return(c, entries[KeyOf(c)].out,
            CacheHit(AddLogicalCalls(rt, NodeOf[c], 1), NodeOf[c]))
  /\ UNCHANGED <<entries, gate, parent, ctx, cancelled>>

EnterWait(c) ==
  /\ At(c, "enter")
  /\ NodeOf[c] \in Registered
  /\ Cached(c)
  /\ HitPending(entries, KeyOf(c))
  /\ rt' = CacheWait(AddLogicalCalls(rt, NodeOf[c], 1), NodeOf[c])
  /\ GoTo(c, "waiting")
  /\ UNCHANGED <<entries, gate, parent, ctx, result, cancelled>>

EnterMiss(c) ==
  /\ At(c, "enter")
  /\ NodeOf[c] \in Registered
  /\ Cached(c)
  /\ MissOwner(entries, KeyOf(c))
  /\ entries' = Reserve(entries, KeyOf(c))
  /\ rt' = CacheMiss(AddLogicalCalls(rt, NodeOf[c], 1), NodeOf[c])
  /\ GoTo(c, "gate")
  /\ UNCHANGED <<gate, parent, ctx, result, cancelled>>

(* Mutant: resolveDirect starts without a token to spare.                  *)
AcquireGateUnbounded(c) ==
  /\ At(c, "gate")
  /\ gate' = gate + 1
  /\ rt' = BeginPhysical(rt, NodeOf[c])
  /\ GoTo(c, "resolving")
  /\ UNCHANGED <<entries, parent, ctx, result, cancelled>>

(* resolveDirect: taking the gate does not look at the context.            *)
AcquireGate(c) ==
  /\ At(c, "gate")
  /\ gate < GateCapacity
  /\ gate' = gate + 1
  /\ rt' = BeginPhysical(rt, NodeOf[c])
  /\ GoTo(c, "resolving")
  /\ UNCHANGED <<entries, parent, ctx, result, cancelled>>

(* Mutant: the token is not given back when the resolver errs.             *)
ResolverReturnsLeaky(c) ==
  /\ At(c, "resolving")
  /\ \E o \in DirectOutcomes(NodeOf[c], parent[c], ctx[c]) :
       /\ gate' = IF o.err = "none" THEN gate - 1 ELSE gate
       /\ IF Cached(c)
          THEN /\ result' = [result EXCEPT ![c] = o]
               /\ rt' = EndPhysical(rt, NodeOf[c])
               /\ GoTo(c, "complete")
          ELSE Return(c, o, EndPhysical(rt, NodeOf[c]))
  /\ UNCHANGED <<entries, parent, ctx, cancelled>>

ResolverReturns(c) ==
  /\ At(c, "resolving")
  /\ gate' = gate - 1
  /\ \E o \in DirectOutcomes(NodeOf[c], parent[c], ctx[c]) :
       IF Cached(c)
       THEN /\ result' = [result EXCEPT ![c] = o]
            /\ rt' = EndPhysical(rt, NodeOf[c])
            /\ GoTo(c, "complete")
       ELSE Return(c, o, EndPhysical(rt, NodeOf[c]))
  /\ UNCHANGED <<entries, parent, ctx, cancelled>>

(* Mutant: the error is published as a value.                              *)
CompleteEntryErrorless(c) ==
  /\ At(c, "complete")
  /\ entries' = Complete(entries, KeyOf(c), Outcome(result[c].val, "none"))
  /\ Return(c, result[c], rt)
  /\ UNCHANGED <<gate, parent, ctx, cancelled>>

CompleteEntry(c) ==
  /\ At(c, "complete")
  /\ entries' = Complete(entries, KeyOf(c), result[c])
  /\ Return(c, result[c], rt)
  /\ UNCHANGED <<gate, parent, ctx, cancelled>>

(* cacheEntry.wait selects on both channels: either may win if both are    *)
(* ready.                                                                  *)
WaitReady(c) ==
  /\ At(c, "waiting")
  /\ entries[KeyOf(c)].state = "ready"
  /\ Return(c, entries[KeyOf(c)].out, rt)
  /\ UNCHANGED <<entries, gate, parent, ctx, cancelled>>

(* Mutant: a wait gives up although its context is alive.                  *)
WaitCancelledAlways(c) ==
  /\ At(c, "waiting")
  /\ Return(c, Outcome(Nil, "canceled"), rt)
  /\ UNCHANGED <<entries, gate, parent, ctx, cancelled>>

WaitCancelled(c) ==
  /\ At(c, "waiting")
  /\ Done(ctx[c])
  /\ Return(c, Outcome(Nil, "canceled"), rt)
  /\ UNCHANGED <<entries, gate, parent, ctx, cancelled>>

Cancel(x) ==
  /\ x \notin cancelled
  /\ cancelled' = cancelled \cup {x}
  /\ UNCHANGED <<entries, gate, rt, pc, parent, ctx, result>>

Enter(c) ==
  EnterUnknown(c) \/ EnterUncached(c) \/ EnterHit(c) \/ EnterWait(c) \/ EnterMiss(c)

CallStep(c) ==
  \/ Enter(c)
  \/ AcquireGate(c)
  \/ ResolverReturns(c)
  \/ CompleteEntry(c)
  \/ WaitReady(c)
  \/ WaitCancelled(c)

(* Nothing is left to do: the stutter keeps this from being a deadlock.    *)
AllReturned == (\A c \in Calls : At(c, "returned")) /\ UNCHANGED nodeVars

NodeNext ==
  \/ \E c \in Calls, p \in Parents, x \in SUBSET Ctxs : Invoke(c, p, x)
  \/ \E c \in Calls : CallStep(c)
  \/ \E x \in Ctxs : Cancel(x)
  \/ AllReturned

NodeSpec ==
  NodeInit /\ [][NodeNext]_nodeVars /\ \A c \in Calls : WF_nodeVars(CallStep(c))

-----------------------------------------------------------------------------
(* The call that reserved its key and has not published it yet.            *)
InFlight(c) == pc[c] \in {"gate", "resolving", "complete"}

Owns(c, k) == InFlight(c) /\ Cached(c) /\ KeyOf(c) = k

(* Single flight: an entry is pending exactly while some call owns it, and *)
(* never two calls own it, whatever the interleaving of lookupOrReserve    *)
(* and complete.                                                           *)
SingleOwner ==
  /\ \A k \in Keys : entries[k].state = "pending" <=> \E c \in Calls : Owns(c, k)
  /\ \A k \in Keys : \A c, d \in Calls : Owns(c, k) /\ Owns(d, k) => c = d

(* The gate holds one token per resolver that is running: no path through  *)
(* resolveDirect leaks or steals one.                                      *)
GateAccounting == gate = Cardinality({c \in Calls : At(c, "resolving")})

CallsOf(n) == {c \in Calls : NodeOf[c] = n}

(* EXPLAIN ANALYZE and the statistics rest on the counters agreeing: every *)
(* logical call was answered by a hit, by a wait or by a resolver, or is   *)
(* queued for one, and the parallelism shown is that of the resolvers.     *)
CallAccounting ==
  \A n \in Registered :
    /\ rt[n].calls = rt[n].physical + rt[n].hits + rt[n].waits
                      + Cardinality({c \in CallsOf(n) : At(c, "gate")})
    /\ rt[n].current = Cardinality({c \in CallsOf(n) : At(c, "resolving")})
    /\ rt[n].maxParallel <= GateCapacity

(* Every call of executeNode returns, though calls queue for the gate and  *)
(* wait for each other's entries.                                          *)
CallReturns == \A c \in Calls : At(c, "enter") ~> At(c, "returned")

-----------------------------------------------------------------------------
(* The refinement: a cached call seeks its key from its lookup on.         *)
Seeks(c) ==
  /\ Cached(c)
  /\ NodeOf[c] \in Registered
  /\ pc[c] \notin {"idle", "enter"}

NoKey == <<"no key">>

Unset == Outcome(Nil, "unset")

FlightOf == [absent |-> "none", pending |-> "flying", ready |-> "landed"]

Sought == [c \in Calls |-> IF Seeks(c) THEN KeyOf(c) ELSE NoKey]

Flights == [k \in Keys |-> FlightOf[entries[k].state]]

Leaders == {c \in Calls : Seeks(c) /\ InFlight(c)}

Landed == [k \in Keys |-> IF entries[k].state = "ready" THEN entries[k].out ELSE Unset]

Given == [c \in Calls |-> IF Seeks(c) /\ At(c, "returned") THEN result[c] ELSE Unset]

SF == INSTANCE SingleFlight WITH
  Callers <- Calls, Cancelled <- Outcome(Nil, "canceled"), NoOutcome <- Unset,
  want <- Sought, flight <- Flights, leads <- Leaders, landed <- Landed, got <- Given

(* The concurrent code implements the promise of the cache: per key one    *)
(* flight, and everyone who asked is given its outcome or gave up.         *)
ImplementsSingleFlight == SF!Spec
=============================================================================
