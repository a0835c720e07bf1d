-------------------------- MODULE NodeResolveProofs --------------------------
(***************************************************************************)
(* Proofs about NodeResolve.tla, for every set of calls, nodes, values and *)
(* contexts and every width of the gate.                                   *)
(***************************************************************************)
EXTENDS NodeResolve, FiniteSetTheorems, TLAPS

(* The counters stay natural numbers under every operation of the runtime. *)
LEMMA RuntimeTyped ==
  ASSUME NEW r \in [Nodes -> Counter], NEW n \in Nodes, NEW k \in Nat
  PROVE  /\ AddLogicalCalls(r, n, k) \in [Nodes -> Counter]
         /\ AddRowsOut(r, n, k) \in [Nodes -> Counter]
         /\ CacheHit(r, n) \in [Nodes -> Counter]
         /\ CacheMiss(r, n) \in [Nodes -> Counter]
         /\ CacheWait(r, n) \in [Nodes -> Counter]
         /\ BeginPhysical(r, n) \in [Nodes -> Counter]
         /\ EndPhysical(r, n) \in [Nodes -> Counter]
<1> USE DEF Counter
<1>1. AddLogicalCalls(r, n, k) \in [Nodes -> Counter]
  BY DEF AddLogicalCalls
<1>2. AddRowsOut(r, n, k) \in [Nodes -> Counter]
  BY DEF AddRowsOut
<1>3. CacheHit(r, n) \in [Nodes -> Counter]
  BY DEF CacheHit
<1>4. CacheMiss(r, n) \in [Nodes -> Counter]
  BY DEF CacheMiss
<1>5. CacheWait(r, n) \in [Nodes -> Counter]
  BY DEF CacheWait
<1>6. BeginPhysical(r, n) \in [Nodes -> Counter]
  <2>1. PICK m \in Nat : m = Larger(r[n].maxParallel, r[n].current + 1)
    BY DEF Larger
  <2>2. r[n].physical + 1 \in Nat /\ r[n].current + 1 \in Nat
    OBVIOUS
  <2>3. BeginPhysical(r, n) =
          [r EXCEPT ![n] = [r[n] EXCEPT !.physical = r[n].physical + 1,
                                        !.current = r[n].current + 1,
                                        !.maxParallel = m]]
    BY <2>1 DEF BeginPhysical
  <2>4. r[n] \in Counter
    OBVIOUS
  <2>5. [r[n] EXCEPT !.physical = r[n].physical + 1, !.current = r[n].current + 1,
                     !.maxParallel = m] \in Counter
    BY <2>2, <2>4
  <2>6. QED
    BY <2>3, <2>5
<1>7. EndPhysical(r, n) \in [Nodes -> Counter]
  BY DEF EndPhysical
<1>8. QED
  BY <1>1, <1>2, <1>3, <1>4, <1>5, <1>6, <1>7

(* A call's key is one of the keys of the cache.                           *)
LEMMA KeyTyped ==
  ASSUME NodeTypeOK, NEW c \in Calls
  PROVE  KeyOf(c) \in Keys
  BY CallsAssumption DEF NodeTypeOK, KeyOf, Keys

(* What a resolver may answer is an outcome.                               *)
LEMMA OutcomesTyped ==
  ASSUME NEW n \in Nodes, NEW p \in Parents, NEW x \in SUBSET Ctxs,
         NEW o \in DirectOutcomes(n, p, x)
  PROVE  o \in Outcomes
<1>1. Answers[n][p] \subseteq Values /\ ErrorValues \subseteq Values
  BY ValuesAssumption
<1>2. ResolverErrors(n, x) \subseteq Errors /\ "none" \in Errors
  BY DEF ResolverErrors, Errors
<1>3. \/ \E v \in Values : o = Outcome(v, "none")
      \/ \E v \in Values, e \in Errors : o = Outcome(v, e)
  BY <1>1, <1>2 DEF DirectOutcomes
<1>4. QED
  BY <1>1, <1>2, <1>3 DEF Outcomes, Outcome

LEMMA RowsTyped ==
  ASSUME NEW n \in Nodes, NEW v \in Values
  PROVE  CountRowsOut(n, v) \in Nat
  BY ValuesAssumption DEF CountRowsOut

(* Returning keeps the types.                                              *)
LEMMA ReturnTyped ==
  ASSUME NodeTypeOK, NEW c \in Calls, NEW o \in Outcomes,
         NEW r \in [Nodes -> Counter], Return(c, o, r)
  PROVE  /\ result' \in [Calls -> Outcomes]
         /\ rt' \in [Nodes -> Counter]
         /\ pc' \in [Calls -> PCs]
<1>1. NodeOf[c] \in Nodes /\ o.val \in Values
  BY CallsAssumption DEF Outcomes
<1>2. rt' \in [Nodes -> Counter]
  BY <1>1, RowsTyped, RuntimeTyped DEF Return
<1>3. QED
  BY <1>2 DEF Return, GoTo, NodeTypeOK, PCs

-----------------------------------------------------------------------------
Resolving == {c \in Calls : At(c, "resolving")}

LEMMA ResolvingFinite ==
  IsFiniteSet(Resolving) /\ Cardinality(Resolving) \in Nat
<1>1. Resolving \in SUBSET Calls
  BY DEF Resolving
<1>2. QED
  BY <1>1, CallsAssumption, FS_Subset, FS_CardinalityType

(* A step that neither starts nor ends a resolver leaves their set alone.  *)
LEMMA SameResolving ==
  ASSUME NEW c \in Calls, NEW to, pc \in [Calls -> PCs],
         pc[c] # "resolving", to # "resolving", GoTo(c, to)
  PROVE  Resolving' = Resolving
  BY DEF Resolving, At, GoTo

LEMMA CapacityPositive == GateCapacity \in Nat /\ GateCapacity >= 1
  BY PlanAssumption DEF GateCapacity, Larger

(* Types and the gate's tokens are inductive together: that the gate is    *)
(* never drained below zero follows from the tokens being the resolvers.   *)
TypedGate == NodeTypeOK /\ GateAccounting

LEMMA TypedGateInit == NodeInit => TypedGate
<1> SUFFICES ASSUME NodeInit PROVE TypedGate
  OBVIOUS
<1> USE DEF NodeInit
<1>1. entries \in [Keys -> Entry]
  BY ValuesAssumption
  DEF EmptyCache, Entry, EntryStates, NoOutcome, Outcome, Outcomes, Errors
<1>2. result \in [Calls -> Outcomes]
  BY ValuesAssumption DEF NoOutcome, Outcome, Outcomes, Errors
<1>3. rt \in [Nodes -> Counter]
  BY DEF NewRuntime, ZeroCounter, Counter
<1>4. NodeTypeOK
  BY <1>1, <1>2, <1>3, CapacityPositive, ValuesAssumption DEF NodeTypeOK, PCs
<1>5. Resolving = {}
  BY DEF Resolving, At
<1>6. GateAccounting
  BY <1>5, FS_EmptySet DEF GateAccounting, Resolving
<1>7. QED
  BY <1>4, <1>6 DEF TypedGate

(* What a step of a call does to the tokens and to the running resolvers.  *)
LEMMA CallTokens ==
  ASSUME pc \in [Calls -> PCs], NEW c \in Calls, CallStep(c)
  PROVE  \/ gate' = gate /\ Resolving' = Resolving
         \/ /\ gate < GateCapacity /\ gate' = gate + 1
            /\ Cardinality(Resolving') = Cardinality(Resolving) + 1
         \/ /\ Cardinality(Resolving) > 0 /\ gate' = gate - 1
            /\ Cardinality(Resolving') = Cardinality(Resolving) - 1
<1>1. CASE EnterUnknown(c) \/ EnterUncached(c) \/ EnterHit(c) \/ EnterWait(c) \/ EnterMiss(c)
  BY <1>1, SameResolving
  DEF EnterUnknown, EnterUncached, EnterHit, EnterWait, EnterMiss, Return, At
<1>2. CASE AcquireGate(c)
  <2>1. Resolving' = Resolving \cup {c} /\ c \notin Resolving
    BY <1>2 DEF AcquireGate, Resolving, At, GoTo
  <2>2. Cardinality(Resolving') = Cardinality(Resolving) + 1
    BY <2>1, ResolvingFinite, FS_AddElement
  <2>3. QED
    BY <1>2, <2>2 DEF AcquireGate
<1>3. CASE ResolverReturns(c)
  <2>1. Resolving' = Resolving \ {c} /\ c \in Resolving
    BY <1>3 DEF ResolverReturns, Return, Resolving, At, GoTo
  <2>2. Cardinality(Resolving') = Cardinality(Resolving) - 1
    BY <2>1, ResolvingFinite, FS_RemoveElement
  <2>3. Cardinality(Resolving) > 0
    BY <2>1, ResolvingFinite, FS_EmptySet
  <2>4. QED
    BY <1>3, <2>2, <2>3 DEF ResolverReturns
<1>4. CASE CompleteEntry(c) \/ WaitReady(c) \/ WaitCancelled(c)
  BY <1>4, SameResolving DEF CompleteEntry, WaitReady, WaitCancelled, Return, At
<1>5. QED
  BY <1>1, <1>2, <1>3, <1>4 DEF CallStep, Enter

(* A step of a call keeps the types, as long as the gate has its range.    *)
LEMMA CallTypes ==
  ASSUME NodeTypeOK, NEW c \in Calls, CallStep(c), gate' \in 0..GateCapacity
  PROVE  NodeTypeOK'
<1>a. /\ rt \in [Nodes -> Counter] /\ NodeOf[c] \in Nodes /\ KeyOf(c) \in Keys
      /\ result[c] \in Outcomes /\ entries[KeyOf(c)].out \in Outcomes
      /\ \A e \in {"no field spec", "canceled"} : Outcome(Nil, e) \in Outcomes
  BY KeyTyped, CallsAssumption, ValuesAssumption
  DEF NodeTypeOK, Entry, Outcome, Outcomes, Errors
<1>b. AddLogicalCalls(rt, NodeOf[c], 1) \in [Nodes -> Counter]
  BY <1>a, RuntimeTyped
<1>1. CASE EnterUnknown(c)
  BY <1>1, <1>a, ReturnTyped DEF EnterUnknown, NodeTypeOK
<1>2. CASE EnterUncached(c)
  BY <1>2, <1>b DEF EnterUncached, NodeTypeOK, GoTo, PCs
<1>3. CASE EnterHit(c)
  <2>1. CacheHit(AddLogicalCalls(rt, NodeOf[c], 1), NodeOf[c]) \in [Nodes -> Counter]
    BY <1>a, <1>b, RuntimeTyped
  <2>2. QED
    BY <1>3, <1>a, <2>1, ReturnTyped DEF EnterHit, NodeTypeOK
<1>4. CASE EnterWait(c)
  <2>1. CacheWait(AddLogicalCalls(rt, NodeOf[c], 1), NodeOf[c]) \in [Nodes -> Counter]
    BY <1>a, <1>b, RuntimeTyped
  <2>2. QED
    BY <1>4, <2>1 DEF EnterWait, NodeTypeOK, GoTo, PCs
<1>5. CASE EnterMiss(c)
  <2>1. CacheMiss(AddLogicalCalls(rt, NodeOf[c], 1), NodeOf[c]) \in [Nodes -> Counter]
    BY <1>a, <1>b, RuntimeTyped
  <2>2. entries' \in [Keys -> Entry]
    BY <1>5 DEF EnterMiss, Reserve, NodeTypeOK, Entry, EntryStates
  <2>3. QED
    BY <1>5, <2>1, <2>2 DEF EnterMiss, NodeTypeOK, GoTo, PCs
<1>6. CASE AcquireGate(c)
  BY <1>6, <1>a, RuntimeTyped DEF AcquireGate, NodeTypeOK, GoTo, PCs
<1>7. CASE ResolverReturns(c)
  <2>1. PICK o \in DirectOutcomes(NodeOf[c], parent[c], ctx[c]) :
          IF Cached(c)
          THEN /\ result' = [result EXCEPT ![c] = o]
               /\ rt' = EndPhysical(rt, NodeOf[c])
               /\ GoTo(c, "complete")
          ELSE Return(c, o, EndPhysical(rt, NodeOf[c]))
    BY <1>7 DEF ResolverReturns
  <2>2. o \in Outcomes
    BY <1>a, <2>1, OutcomesTyped DEF NodeTypeOK
  <2>3. EndPhysical(rt, NodeOf[c]) \in [Nodes -> Counter]
    BY <1>a, RuntimeTyped
  <2>4. result' \in [Calls -> Outcomes] /\ rt' \in [Nodes -> Counter] /\ pc' \in [Calls -> PCs]
    <3>1. CASE Cached(c)
      BY <3>1, <2>1, <2>2, <2>3 DEF NodeTypeOK, GoTo, PCs
    <3>2. CASE ~Cached(c)
      BY <3>2, <2>1, <2>2, <2>3, ReturnTyped
    <3>3. QED
      BY <3>1, <3>2
  <2>5. QED
    BY <1>7, <2>4 DEF ResolverReturns, NodeTypeOK
<1>8. CASE CompleteEntry(c)
  <2>1. entries' \in [Keys -> Entry]
    BY <1>8, <1>a DEF CompleteEntry, Complete, NodeTypeOK, Entry, EntryStates
  <2>2. QED
    BY <1>8, <1>a, <2>1, ReturnTyped DEF CompleteEntry, NodeTypeOK
<1>9. CASE WaitReady(c)
  BY <1>9, <1>a, ReturnTyped DEF WaitReady, NodeTypeOK
<1>10. CASE WaitCancelled(c)
  BY <1>10, <1>a, ReturnTyped DEF WaitCancelled, NodeTypeOK
<1>11. QED
  BY <1>1, <1>2, <1>3, <1>4, <1>5, <1>6, <1>7, <1>8, <1>9, <1>10 DEF CallStep, Enter

(* So do an invocation and a cancellation, which start and end no resolver. *)
LEMMA OutsideTypes ==
  ASSUME NodeTypeOK,
         \/ \E c \in Calls, p \in Parents, x \in SUBSET Ctxs : Invoke(c, p, x)
         \/ \E x \in Ctxs : Cancel(x)
         \/ UNCHANGED nodeVars
  PROVE  NodeTypeOK' /\ Resolving' = Resolving /\ gate' = gate
<1>1. ASSUME NEW c \in Calls, NEW p \in Parents, NEW x \in SUBSET Ctxs, Invoke(c, p, x)
      PROVE  NodeTypeOK' /\ Resolving' = Resolving /\ gate' = gate
  <2>1. NodeTypeOK'
    BY <1>1 DEF Invoke, NodeTypeOK, GoTo, PCs
  <2>2. Resolving' = Resolving
    BY <1>1, SameResolving DEF NodeTypeOK, Invoke, At
  <2>3. QED
    BY <1>1, <2>1, <2>2 DEF Invoke
<1>2. ASSUME NEW x \in Ctxs, Cancel(x) PROVE NodeTypeOK' /\ Resolving' = Resolving /\ gate' = gate
  BY <1>2 DEF Cancel, NodeTypeOK, Resolving, At
<1>3. CASE UNCHANGED nodeVars
  BY <1>3 DEF nodeVars, NodeTypeOK, Resolving, At
<1>4. QED
  BY <1>1, <1>2, <1>3

LEMMA TypedGateStep == TypedGate /\ [NodeNext]_nodeVars => TypedGate'
<1> SUFFICES ASSUME TypedGate, [NodeNext]_nodeVars PROVE TypedGate'
  OBVIOUS
<1>a. /\ NodeTypeOK /\ gate = Cardinality(Resolving) /\ gate \in Nat
      /\ pc \in [Calls -> PCs]
  BY ResolvingFinite, CapacityPositive DEF TypedGate, GateAccounting, Resolving, NodeTypeOK
<1>1. ASSUME NEW c \in Calls, CallStep(c) PROVE TypedGate'
  <2>1. gate' = Cardinality(Resolving') /\ gate' \in 0..GateCapacity
    BY <1>1, <1>a, CallTokens, CapacityPositive DEF NodeTypeOK
  <2>2. NodeTypeOK'
    BY <1>1, <1>a, <2>1, CallTypes
  <2>3. QED
    BY <2>1, <2>2 DEF TypedGate, GateAccounting, Resolving
<1>2. ASSUME NodeTypeOK', Resolving' = Resolving, gate' = gate PROVE TypedGate'
  BY <1>2, <1>a DEF TypedGate, GateAccounting, Resolving
<1>3. QED
  BY <1>1, <1>2, <1>a, OutsideTypes DEF NodeNext, AllReturned

(* The gate of the request holds exactly one token per running resolver,   *)
(* and every variable keeps its type: in particular the gate never holds   *)
(* more tokens than the plan allows resolvers in flight.                   *)
THEOREM TypesAndGate == NodeSpec => [](NodeTypeOK /\ GateAccounting)
<1>1. NodeInit => TypedGate
  BY TypedGateInit
<1>2. TypedGate /\ [NodeNext]_nodeVars => TypedGate'
  BY TypedGateStep
<1>3. TypedGate => NodeTypeOK /\ GateAccounting
  BY DEF TypedGate
<1>4. QED
  BY <1>1, <1>2, <1>3, PTL DEF NodeSpec

-----------------------------------------------------------------------------
(* Only a call of a cached field comes to publishing an entry: with this,  *)
(* the single owner of a key is inductive.                                 *)
PublishersOwn == \A c \in Calls : At(c, "complete") => Cached(c)

Ownership == SingleOwner /\ PublishersOwn

(* A step of c that leaves c in flight or out of flight as it was, on the  *)
(* same parent, changes no owner.                                          *)
LEMMA SameOwners ==
  ASSUME NEW c \in Calls, NEW to, pc \in [Calls -> PCs], parent' = parent, GoTo(c, to),
         \/ InFlight(c) /\ to \in {"gate", "resolving", "complete"}
         \/ ~InFlight(c) /\ to \notin {"gate", "resolving", "complete"}
         \/ ~Cached(c)
  PROVE  \A d \in Calls, k \in Keys : Owns(d, k)' <=> Owns(d, k)
<1>1. \A d \in Calls : pc'[d] = IF d = c THEN to ELSE pc[d]
  BY DEF GoTo
<1>2. \A d \in Calls : KeyOf(d)' = KeyOf(d) /\ (Cached(d)' <=> Cached(d))
  BY DEF KeyOf, Cached
<1>3. \A d \in Calls : Cached(d) => (InFlight(d)' <=> InFlight(d))
  BY <1>1 DEF InFlight
<1>4. QED
  BY <1>2, <1>3 DEF Owns

(* Neither owners nor entries change: the ownership carries over.          *)
LEMMA SameOwnership ==
  ASSUME SingleOwner, entries' = entries,
         \A d \in Calls, k \in Keys : Owns(d, k)' <=> Owns(d, k)
  PROVE  SingleOwner'
  BY DEF SingleOwner

LEMMA OwnershipInit == NodeInit => Ownership
  BY DEF NodeInit, EmptyCache, Ownership, SingleOwner, PublishersOwn, Owns, InFlight, At

(* What a step of a call does to the entries and to their owners: nothing, *)
(* or it reserves an absent entry, or it publishes the one it owns.        *)
LEMMA CallOwners ==
  ASSUME NodeTypeOK, PublishersOwn, NEW c \in Calls, CallStep(c)
  PROVE  /\ PublishersOwn'
         /\ \/ /\ entries' = entries
               /\ \A d \in Calls, k \in Keys : Owns(d, k)' <=> Owns(d, k)
            \/ \E me \in Keys :
                 /\ entries[me].state = "absent" /\ entries' = Reserve(entries, me)
                 /\ \A d \in Calls, k \in Keys : Owns(d, k)' <=> (Owns(d, k) \/ (d = c /\ k = me))
            \/ \E me \in Keys :
                 /\ Owns(c, me) /\ entries' = Complete(entries, me, result[c])
                 /\ \A d \in Calls, k \in Keys : Owns(d, k)' <=> (Owns(d, k) /\ d # c)
<1>a. pc \in [Calls -> PCs] /\ parent \in [Calls -> Parents]
  BY DEF NodeTypeOK
(* A step of c to another place than "complete" leaves the publishers.     *)
<1>b. ASSUME NEW to, to # "complete", GoTo(c, to) PROVE PublishersOwn'
  BY <1>a, <1>b DEF PublishersOwn, At, GoTo, Cached
<1>1. CASE \/ EnterUnknown(c) \/ EnterHit(c) \/ EnterWait(c) \/ WaitReady(c) \/ WaitCancelled(c)
  <2>1. PICK to \in {"waiting", "returned"} : GoTo(c, to)
    BY <1>1 DEF EnterUnknown, EnterHit, EnterWait, WaitReady, WaitCancelled, Return
  <2>2. ~InFlight(c) /\ parent' = parent /\ entries' = entries
    BY <1>1 DEF EnterUnknown, EnterHit, EnterWait, WaitReady, WaitCancelled, InFlight, At
  <2>3. QED
    BY <1>a, <1>b, <2>1, <2>2, SameOwners
<1>2. CASE EnterUncached(c)
  BY <1>2, <1>a, <1>b, SameOwners DEF EnterUncached
<1>3. CASE EnterMiss(c)
  <2> DEFINE me == KeyOf(c)
  <2>1. me \in Keys /\ entries[me].state = "absent" /\ entries' = Reserve(entries, me)
    BY <1>3, KeyTyped DEF EnterMiss, MissOwner
  <2>2. \A d \in Calls, k \in Keys : Owns(d, k)' <=> (Owns(d, k) \/ (d = c /\ k = me))
    BY <1>3, <1>a DEF EnterMiss, GoTo, At, Owns, InFlight, KeyOf, Cached
  <2>3. PublishersOwn'
    BY <1>3, <1>b DEF EnterMiss
  <2>4. QED
    BY <2>1, <2>2, <2>3
<1>4. CASE AcquireGate(c)
  BY <1>4, <1>a, <1>b, SameOwners DEF AcquireGate, InFlight, At
<1>5. CASE ResolverReturns(c)
  <2>1. parent' = parent /\ entries' = entries /\ InFlight(c)
    BY <1>5 DEF ResolverReturns, InFlight, At
  <2>2. CASE Cached(c)
    <3>1. GoTo(c, "complete")
      BY <1>5, <2>2 DEF ResolverReturns
    <3>2. \A d \in Calls, k \in Keys : Owns(d, k)' <=> Owns(d, k)
      BY <1>a, <2>1, <3>1, SameOwners
    <3>3. PublishersOwn'
      BY <1>a, <2>2, <3>1 DEF PublishersOwn, At, GoTo, Cached
    <3>4. QED
      BY <2>1, <3>2, <3>3
  <2>3. CASE ~Cached(c)
    <3>1. GoTo(c, "returned")
      BY <1>5, <2>3 DEF ResolverReturns, Return
    <3>2. \A d \in Calls, k \in Keys : Owns(d, k)' <=> Owns(d, k)
      BY <1>a, <2>1, <2>3, <3>1, SameOwners
    <3>3. QED
      BY <1>b, <2>1, <3>1, <3>2
  <2>4. QED
    BY <2>2, <2>3
<1>6. CASE CompleteEntry(c)
  <2> DEFINE me == KeyOf(c)
  <2>1. me \in Keys /\ Owns(c, me) /\ entries' = Complete(entries, me, result[c])
    BY <1>6, KeyTyped DEF CompleteEntry, PublishersOwn, Owns, InFlight, At
  <2>2. \A d \in Calls, k \in Keys : Owns(d, k)' <=> (Owns(d, k) /\ d # c)
    BY <1>6, <1>a DEF CompleteEntry, Return, GoTo, Owns, InFlight, KeyOf, Cached
  <2>3. PublishersOwn'
    BY <1>6, <1>b DEF CompleteEntry, Return
  <2>4. QED
    BY <2>1, <2>2, <2>3
<1>7. QED
  BY <1>1, <1>2, <1>3, <1>4, <1>5, <1>6 DEF CallStep, Enter

(* An invocation or a cancellation does nothing to them.                   *)
LEMMA OutsideOwners ==
  ASSUME NodeTypeOK, PublishersOwn,
         \/ \E c \in Calls, p \in Parents, x \in SUBSET Ctxs : Invoke(c, p, x)
         \/ \E x \in Ctxs : Cancel(x)
         \/ UNCHANGED <<entries, pc, parent>>
  PROVE  /\ PublishersOwn' /\ entries' = entries
         /\ \A d \in Calls, k \in Keys : Owns(d, k)' <=> Owns(d, k)
<1>a. pc \in [Calls -> PCs]
  BY DEF NodeTypeOK
<1>1. ASSUME NEW c \in Calls, NEW p \in Parents, NEW x \in SUBSET Ctxs, Invoke(c, p, x)
      PROVE  /\ PublishersOwn' /\ entries' = entries
             /\ \A d \in Calls, k \in Keys : Owns(d, k)' <=> Owns(d, k)
  <2>1. \A d \in Calls, k \in Keys : Owns(d, k)' <=> Owns(d, k)
    BY <1>1, <1>a DEF Invoke, GoTo, At, Owns, InFlight, KeyOf, Cached
  <2>2. PublishersOwn'
    BY <1>1, <1>a DEF Invoke, PublishersOwn, At, GoTo, Cached
  <2>3. QED
    BY <1>1, <2>1, <2>2 DEF Invoke
<1>2. ASSUME UNCHANGED <<entries, pc, parent>>
      PROVE  /\ PublishersOwn' /\ entries' = entries
             /\ \A d \in Calls, k \in Keys : Owns(d, k)' <=> Owns(d, k)
  BY <1>2 DEF PublishersOwn, At, Owns, InFlight, KeyOf, Cached
<1>3. QED
  BY <1>1, <1>2 DEF Cancel

LEMMA OwnershipStep ==
  NodeTypeOK /\ Ownership /\ [NodeNext]_nodeVars => Ownership'
<1> SUFFICES ASSUME NodeTypeOK, Ownership, [NodeNext]_nodeVars PROVE Ownership'
  OBVIOUS
<1>a. entries \in [Keys -> Entry] /\ SingleOwner /\ PublishersOwn
  BY DEF NodeTypeOK, Ownership
<1>1. ASSUME NEW c \in Calls, CallStep(c) PROVE Ownership'
  <2>a. PublishersOwn'
    BY <1>1, <1>a, CallOwners
  <2>1. CASE entries' = entries /\ \A d \in Calls, k \in Keys : Owns(d, k)' <=> Owns(d, k)
    BY <1>a, <2>a, <2>1, SameOwnership DEF Ownership
  <2>2. ASSUME NEW me \in Keys, entries[me].state = "absent", entries' = Reserve(entries, me),
               \A d \in Calls, k \in Keys : Owns(d, k)' <=> (Owns(d, k) \/ (d = c /\ k = me))
        PROVE  Ownership'
    <3>1. \A d \in Calls : ~Owns(d, me)
      BY <1>a, <2>2 DEF SingleOwner
    <3>2. \A k \in Keys : entries'[k].state = IF k = me THEN "pending" ELSE entries[k].state
      BY <1>a, <2>2 DEF Reserve, Entry
    <3>3. QED
      BY <1>a, <2>a, <2>2, <3>1, <3>2 DEF SingleOwner, Ownership
  <2>3. ASSUME NEW me \in Keys, Owns(c, me), entries' = Complete(entries, me, result[c]),
               \A d \in Calls, k \in Keys : Owns(d, k)' <=> (Owns(d, k) /\ d # c)
        PROVE  Ownership'
    <3>1. \A d \in Calls : Owns(d, me) => d = c
      BY <1>a, <2>3 DEF SingleOwner
    <3>2. \A k \in Keys : Owns(c, k) => k = me
      BY <2>3 DEF Owns
    <3>3. \A k \in Keys : entries'[k].state = IF k = me THEN "ready" ELSE entries[k].state
      <4>1. entries[me].state = "pending"
        BY <1>a, <2>3 DEF SingleOwner
      <4>2. entries' = [entries EXCEPT ![me] = [state |-> "ready", out |-> result[c]]]
        BY <2>3, <4>1 DEF Complete
      <4>3. QED
        BY <1>a, <2>3, <4>2
    <3>4. QED
      BY <1>a, <2>a, <2>3, <3>1, <3>2, <3>3 DEF SingleOwner, Ownership
  <2>4. QED
    BY <1>1, <1>a, <2>1, <2>2, <2>3, CallOwners
<1>2. ASSUME \/ \E c \in Calls, p \in Parents, x \in SUBSET Ctxs : Invoke(c, p, x)
             \/ \E x \in Ctxs : Cancel(x)
             \/ UNCHANGED nodeVars
      PROVE  Ownership'
  BY <1>2, <1>a, OutsideOwners, SameOwnership DEF Ownership, nodeVars
<1>3. QED
  BY <1>1, <1>2 DEF NodeNext, AllReturned

(* Single flight, for any number of calls: an entry of the cache is        *)
(* pending exactly while one call, and only one, is on its way to publish  *)
(* it, so no key is resolved twice and no waiter waits for nobody.         *)
THEOREM OneOwner == NodeSpec => []SingleOwner
<1>1. NodeInit => Ownership
  BY OwnershipInit
<1>2. NodeTypeOK /\ Ownership /\ [NodeNext]_nodeVars => Ownership'
  BY OwnershipStep
<1>3. NodeSpec => []NodeTypeOK
  BY TypesAndGate, PTL
<1>4. Ownership => SingleOwner
  BY DEF Ownership
<1>5. QED
  BY <1>1, <1>2, <1>3, <1>4, PTL DEF NodeSpec

-----------------------------------------------------------------------------
(* What a call's place says of its node: past the lookup it is registered, *)
(* and only cached calls wait or publish.                                  *)
Admitted ==
  \A c \in Calls :
    /\ pc[c] \in {"waiting", "gate", "resolving", "complete"} => NodeOf[c] \in Registered
    /\ pc[c] \in {"waiting", "complete"} => Cached(c)

LEMMA AdmittedInit == NodeInit => Admitted
  BY DEF NodeInit, Admitted

LEMMA AdmittedStep == NodeTypeOK /\ Admitted /\ [NodeNext]_nodeVars => Admitted'
<1> SUFFICES ASSUME NodeTypeOK, Admitted, [NodeNext]_nodeVars PROVE Admitted'
  OBVIOUS
<1>0. pc \in [Calls -> PCs]
  BY DEF NodeTypeOK
<1> USE DEF Cached
<1>1. ASSUME NEW c \in Calls, NEW to \in {"enter", "returned"}, GoTo(c, to) PROVE Admitted'
  BY <1>0, <1>1 DEF Admitted, GoTo
<1>2. ASSUME NEW c \in Calls, EnterUncached(c) \/ EnterWait(c) \/ EnterMiss(c) PROVE Admitted'
  BY <1>0, <1>2 DEF Admitted, EnterUncached, EnterWait, EnterMiss, GoTo
<1>3. ASSUME NEW c \in Calls, AcquireGate(c) PROVE Admitted'
  BY <1>0, <1>3 DEF Admitted, AcquireGate, GoTo, At
<1>4. ASSUME NEW c \in Calls, ResolverReturns(c) PROVE Admitted'
  <2>1. CASE Cached(c)
    <3>1. GoTo(c, "complete") /\ pc[c] = "resolving"
      BY <1>4, <2>1 DEF ResolverReturns, At
    <3>2. QED
      BY <1>0, <2>1, <3>1 DEF Admitted, GoTo
  <2>2. CASE ~Cached(c)
    <3>1. GoTo(c, "returned")
      BY <1>4, <2>2 DEF ResolverReturns, Return
    <3>2. QED
      BY <1>1, <3>1
  <2>3. QED
    BY <2>1, <2>2
<1>5. ASSUME NEW c \in Calls,
             \/ \E p \in Parents, x \in SUBSET Ctxs : Invoke(c, p, x)
             \/ EnterUnknown(c) \/ EnterHit(c) \/ CompleteEntry(c)
             \/ WaitReady(c) \/ WaitCancelled(c)
      PROVE  Admitted'
  BY <1>5, <1>1
  DEF Invoke, EnterUnknown, EnterHit, CompleteEntry, WaitReady, WaitCancelled, Return
<1>6. ASSUME UNCHANGED pc PROVE Admitted'
  BY <1>6 DEF Admitted
<1>7. QED
  BY <1>2, <1>3, <1>4, <1>5, <1>6
  DEF NodeNext, CallStep, Enter, AllReturned, Cancel, nodeVars

-----------------------------------------------------------------------------
(* The refinement, step by step.                                           *)
LEMMA KeyIsNoNoKey == ASSUME NEW c \in Calls PROVE KeyOf(c) # NoKey
  BY DEF KeyOf, CacheKeyForNode, NoKey

LEMMA RefinementInit == NodeInit => SF!Init
<1> SUFFICES ASSUME NodeInit PROVE SF!Init
  OBVIOUS
<1>1. \A c \in Calls : ~Seeks(c)
  BY DEF NodeInit, Seeks
<1>2. \A k \in Keys : entries[k].state = "absent"
  BY DEF NodeInit, EmptyCache
<1>3. Sought = [c \in Calls |-> NoKey] /\ Leaders = {} /\ Given = [c \in Calls |-> Unset]
  BY <1>1 DEF Sought, Leaders, Given
<1>4. Flights = [k \in Keys |-> "none"] /\ Landed = [k \in Keys |-> Unset]
  BY <1>2 DEF Flights, FlightOf, Landed
<1>5. QED
  BY <1>3, <1>4 DEF SF!Init

(* A step that keeps entries and everything a cached call shows.           *)
LEMMA InvisibleStep ==
  ASSUME entries' = entries,
         \A c \in Calls :
           /\ Seeks(c)' <=> Seeks(c)
           /\ Seeks(c) => /\ KeyOf(c)' = KeyOf(c)
                          /\ InFlight(c)' <=> InFlight(c)
                          /\ At(c, "returned")' <=> At(c, "returned")
                          /\ At(c, "returned") => result'[c] = result[c]
  PROVE  UNCHANGED <<Sought, Flights, Leaders, Landed, Given>>
<1>1. UNCHANGED Sought
  BY DEF Sought
<1>2. UNCHANGED Flights
  BY DEF Flights
<1>3. UNCHANGED Leaders
  BY DEF Leaders
<1>4. UNCHANGED Landed
  BY DEF Landed
<1>5. UNCHANGED Given
  BY DEF Given
<1>6. QED
  BY <1>1, <1>2, <1>3, <1>4, <1>5

LEMMA RefinementStep ==
  /\ NodeTypeOK /\ SingleOwner /\ Admitted /\ [NodeNext]_nodeVars
  => [SF!Next]_<<Sought, Flights, Leaders, Landed, Given>>
<1> SUFFICES ASSUME NodeTypeOK, SingleOwner, Admitted, [NodeNext]_nodeVars
             PROVE  SF!Next \/ UNCHANGED <<Sought, Flights, Leaders, Landed, Given>>
  OBVIOUS
<1>0. /\ pc \in [Calls -> PCs] /\ entries \in [Keys -> Entry] /\ parent \in [Calls -> Parents]
      /\ result \in [Calls -> Outcomes]
  BY DEF NodeTypeOK
<1>1. ASSUME NEW c \in Calls,
             \/ \E p \in Parents, x \in SUBSET Ctxs : Invoke(c, p, x)
             \/ EnterUnknown(c) \/ EnterUncached(c)
      PROVE  UNCHANGED <<Sought, Flights, Leaders, Landed, Given>>
  <2>1. entries' = entries /\ ~Seeks(c) /\ ~Seeks(c)'
    BY <1>0, <1>1
    DEF Invoke, EnterUnknown, EnterUncached, Return, Seeks, At, GoTo, Cached
  <2>2. \A d \in Calls : d # c => /\ pc'[d] = pc[d] /\ parent'[d] = parent[d]
                                  /\ result'[d] = result[d]
    BY <1>0, <1>1 DEF Invoke, EnterUnknown, EnterUncached, Return, GoTo
  <2>3. QED
    BY <2>1, <2>2, InvisibleStep DEF Seeks, Cached, KeyOf, InFlight, At
<1>2. ASSUME NEW c \in Calls, AcquireGate(c) PROVE UNCHANGED <<Sought, Flights, Leaders, Landed, Given>>
  <2>1. entries' = entries /\ parent' = parent /\ result' = result
    BY <1>2 DEF AcquireGate
  <2>2. pc[c] = "gate" /\ pc' = [pc EXCEPT ![c] = "resolving"]
    BY <1>2 DEF AcquireGate, At, GoTo
  <2>3. QED
    BY <1>0, <2>1, <2>2, InvisibleStep DEF Seeks, Cached, KeyOf, InFlight, At
<1>3. ASSUME NEW c \in Calls, ResolverReturns(c) PROVE UNCHANGED <<Sought, Flights, Leaders, Landed, Given>>
  <2>1. entries' = entries /\ parent' = parent /\ pc[c] = "resolving"
    BY <1>3 DEF ResolverReturns, At
  <2>2. \A d \in Calls : d # c => pc'[d] = pc[d] /\ result'[d] = result[d]
    BY <1>0, <1>3 DEF ResolverReturns, Return, GoTo
  <2>3. Cached(c) => pc'[c] = "complete"
    BY <1>0, <1>3 DEF ResolverReturns, GoTo
  <2>4. QED
    BY <2>1, <2>2, <2>3, InvisibleStep DEF Seeks, Cached, KeyOf, InFlight, At
<1>4. ASSUME UNCHANGED <<entries, pc, parent, result>>
      PROVE  UNCHANGED <<Sought, Flights, Leaders, Landed, Given>>
  BY <1>4, InvisibleStep DEF Seeks, Cached, KeyOf, InFlight, At
(* A lookup that asks for a key: the key is sought from now on.            *)
<1>k. ASSUME NEW c \in Calls, parent' = parent, pc[c] = "enter", Cached(c), NodeOf[c] \in Registered,
             NEW to \in {"waiting", "gate", "returned"}, GoTo(c, to)
      PROVE  /\ Seeks(c)' /\ KeyOf(c)' = KeyOf(c)
             /\ \A d \in Calls : d # c => /\ Seeks(d)' <=> Seeks(d)
                                          /\ InFlight(d)' <=> InFlight(d)
                                          /\ At(d, "returned")' <=> At(d, "returned")
             /\ SF!Ask(c, KeyOf(c))
  <2>1. ~Seeks(c) /\ Seeks(c)' /\ KeyOf(c)' = KeyOf(c)
    BY <1>0, <1>k DEF Seeks, KeyOf, Cached, GoTo
  <2>2. \A d \in Calls : d # c => /\ Seeks(d)' <=> Seeks(d)
                                  /\ InFlight(d)' <=> InFlight(d)
                                  /\ At(d, "returned")' <=> At(d, "returned")
                                  /\ KeyOf(d)' = KeyOf(d)
    BY <1>0, <1>k DEF Seeks, InFlight, At, KeyOf, Cached, GoTo
  <2>3. Sought' = [Sought EXCEPT ![c] = KeyOf(c)] /\ Sought[c] = NoKey
    BY <2>1, <2>2 DEF Sought
  <2>4. QED
    BY <2>1, <2>2, <2>3 DEF SF!Ask
<1>5. ASSUME NEW c \in Calls, EnterHit(c) PROVE SF!AskAndTake(c, KeyOf(c)) /\ KeyOf(c) \in Keys
  <2>1. /\ parent' = parent /\ entries' = entries /\ pc[c] = "enter" /\ Cached(c)
        /\ NodeOf[c] \in Registered /\ GoTo(c, "returned")
        /\ result' = [result EXCEPT ![c] = entries[KeyOf(c)].out]
        /\ entries[KeyOf(c)].state = "ready"
    BY <1>5 DEF EnterHit, Return, At, HitReady
  <2>2. KeyOf(c) \in Keys
    BY KeyTyped
  <2>3. /\ Seeks(c)' /\ SF!Ask(c, KeyOf(c))
        /\ \A d \in Calls : d # c => /\ Seeks(d)' <=> Seeks(d)
                                     /\ InFlight(d)' <=> InFlight(d)
                                     /\ At(d, "returned")' <=> At(d, "returned")
    BY <1>k, <2>1
  <2>4. ~InFlight(c) /\ ~InFlight(c)' /\ At(c, "returned")'
    BY <1>0, <2>1 DEF InFlight, At, GoTo
  <2>5. Flights[KeyOf(c)] = "landed" /\ Landed[KeyOf(c)] = entries[KeyOf(c)].out
    BY <2>1, <2>2 DEF Flights, FlightOf, Landed
  <2>6. UNCHANGED <<Flights, Landed>>
    BY <2>1 DEF Flights, Landed
  <2>7. UNCHANGED Leaders
    BY <2>3, <2>4 DEF Leaders
  <2>8. Given' = [Given EXCEPT ![c] = Landed[KeyOf(c)]]
    BY <1>0, <2>1, <2>3, <2>4, <2>5 DEF Given
  <2>9. QED
    BY <2>2, <2>3, <2>5, <2>6, <2>7, <2>8 DEF SF!AskAndTake, SF!Give
<1>6. ASSUME NEW c \in Calls, EnterWait(c) PROVE SF!Follow(c, KeyOf(c)) /\ KeyOf(c) \in Keys
  <2>1. /\ parent' = parent /\ entries' = entries /\ pc[c] = "enter" /\ Cached(c)
        /\ NodeOf[c] \in Registered /\ GoTo(c, "waiting") /\ result' = result
        /\ entries[KeyOf(c)].state = "pending"
    BY <1>6 DEF EnterWait, At, HitPending
  <2>2. KeyOf(c) \in Keys
    BY KeyTyped
  <2>3. /\ Seeks(c)' /\ SF!Ask(c, KeyOf(c))
        /\ \A d \in Calls : d # c => /\ Seeks(d)' <=> Seeks(d)
                                     /\ InFlight(d)' <=> InFlight(d)
                                     /\ At(d, "returned")' <=> At(d, "returned")
    BY <1>k, <2>1
  <2>4. ~InFlight(c) /\ ~InFlight(c)' /\ ~At(c, "returned") /\ ~At(c, "returned")'
    BY <1>0, <2>1 DEF InFlight, At, GoTo
  <2>5. Flights[KeyOf(c)] = "flying"
    BY <2>1, <2>2 DEF Flights, FlightOf
  <2>6. UNCHANGED <<Flights, Landed>>
    BY <2>1 DEF Flights, Landed
  <2>7. UNCHANGED <<Leaders, Given>>
    BY <2>1, <2>3, <2>4 DEF Leaders, Given
  <2>8. QED
    BY <2>2, <2>3, <2>5, <2>6, <2>7 DEF SF!Follow
<1>7. ASSUME NEW c \in Calls, EnterMiss(c) PROVE SF!Lead(c, KeyOf(c)) /\ KeyOf(c) \in Keys
  <2>1. /\ parent' = parent /\ pc[c] = "enter" /\ Cached(c)
        /\ NodeOf[c] \in Registered /\ GoTo(c, "gate") /\ result' = result
        /\ entries[KeyOf(c)].state = "absent"
        /\ entries' = [entries EXCEPT ![KeyOf(c)].state = "pending"]
    BY <1>7 DEF EnterMiss, At, MissOwner, Reserve
  <2>2. KeyOf(c) \in Keys
    BY KeyTyped
  <2>3. /\ Seeks(c)' /\ SF!Ask(c, KeyOf(c))
        /\ \A d \in Calls : d # c => /\ Seeks(d)' <=> Seeks(d)
                                     /\ InFlight(d)' <=> InFlight(d)
                                     /\ At(d, "returned")' <=> At(d, "returned")
    BY <1>k, <2>1
  <2>4. ~InFlight(c) /\ InFlight(c)' /\ ~At(c, "returned") /\ ~At(c, "returned")'
    BY <1>0, <2>1 DEF InFlight, At, GoTo
  <2>5. \A k \in Keys : /\ entries'[k].state = IF k = KeyOf(c) THEN "pending" ELSE entries[k].state
                        /\ k # KeyOf(c) => entries'[k] = entries[k]
    BY <1>0, <2>1, <2>2 DEF Entry
  <2>6. Flights[KeyOf(c)] = "none" /\ Flights' = [Flights EXCEPT ![KeyOf(c)] = "flying"]
    <3>1. Flights' = [k \in Keys |-> FlightOf[entries'[k].state]]
      BY DEF Flights
    <3>2. \A k \in Keys : Flights'[k] = IF k = KeyOf(c) THEN "flying" ELSE Flights[k]
      BY <2>5, <3>1 DEF Flights, FlightOf
    <3>3. Flights' = [k \in Keys |-> IF k = KeyOf(c) THEN "flying" ELSE Flights[k]]
      BY <3>1, <3>2
    <3>4. [Flights EXCEPT ![KeyOf(c)] = "flying"]
            = [k \in Keys |-> IF k = KeyOf(c) THEN "flying" ELSE Flights[k]]
      BY DEF Flights
    <3>5. Flights[KeyOf(c)] = "none"
      BY <2>1, <2>2 DEF Flights, FlightOf
    <3>6. QED
      BY <3>3, <3>4, <3>5
  <2>7. UNCHANGED Landed
    BY <2>1, <2>2, <2>5 DEF Landed
  <2>8. Leaders' = Leaders \cup {c}
    BY <2>3, <2>4 DEF Leaders
  <2>9. UNCHANGED Given
    BY <2>1, <2>3, <2>4 DEF Given
  <2>10. QED
    BY <2>2, <2>3, <2>6, <2>7, <2>8, <2>9 DEF SF!Lead
(* A step of a call that sought its key and is given an outcome.           *)
<1>r. ASSUME NEW c \in Calls, parent' = parent, pc[c] \in {"waiting", "complete"}, NEW o,
             GoTo(c, "returned"), result' = [result EXCEPT ![c] = o]
      PROVE  /\ Seeks(c) /\ Sought[c] = KeyOf(c) /\ KeyOf(c) \in Keys
             /\ Sought' = Sought /\ SF!Give(c, o) /\ Given[c] = Unset
             /\ Leaders' = Leaders \ {c}
  <2>1. Seeks(c) /\ Seeks(c)' /\ ~At(c, "returned") /\ At(c, "returned")' /\ ~InFlight(c)'
    BY <1>0, <1>r DEF Seeks, At, InFlight, GoTo, Admitted, Cached
  <2>2. \A d \in Calls : /\ Seeks(d)' <=> Seeks(d)
                         /\ KeyOf(d)' = KeyOf(d)
                         /\ d # c => /\ InFlight(d)' <=> InFlight(d)
                                     /\ At(d, "returned")' <=> At(d, "returned")
    BY <1>0, <1>r, <2>1 DEF Seeks, InFlight, At, KeyOf, Cached, GoTo
  <2>3. Sought[c] = KeyOf(c) /\ Sought' = Sought /\ KeyOf(c) \in Keys
    BY <2>1, <2>2, KeyTyped DEF Sought
  <2>4. Given' = [Given EXCEPT ![c] = o] /\ Given[c] = Unset
    BY <1>0, <1>r, <2>1, <2>2 DEF Given
  <2>5. Leaders' = Leaders \ {c}
    BY <2>1, <2>2 DEF Leaders
  <2>6. QED
    BY <2>1, <2>3, <2>4, <2>5 DEF SF!Give
<1>8. ASSUME NEW c \in Calls, CompleteEntry(c) PROVE \E o \in Outcomes : SF!Land(c, o)
  <2>1. /\ parent' = parent /\ pc[c] = "complete" /\ GoTo(c, "returned")
        /\ result' = [result EXCEPT ![c] = result[c]] /\ result[c] \in Outcomes
        /\ entries' = Complete(entries, KeyOf(c), result[c])
    BY <1>0, <1>8 DEF CompleteEntry, Return, At
  <2>2. /\ Seeks(c) /\ Sought[c] = KeyOf(c) /\ KeyOf(c) \in Keys /\ Sought' = Sought
        /\ SF!Give(c, result[c]) /\ Leaders' = Leaders \ {c}
    BY <1>r, <2>1
  <2>3. c \in Leaders /\ Owns(c, KeyOf(c))
    BY <2>1, <2>2 DEF Leaders, Owns, InFlight, Seeks
  <2>4. entries[KeyOf(c)].state = "pending"
    BY <2>2, <2>3 DEF SingleOwner
  <2>5. entries' = [entries EXCEPT ![KeyOf(c)] = [state |-> "ready", out |-> result[c]]]
    BY <2>1, <2>4 DEF Complete
  <2>6. Flights[KeyOf(c)] = "flying" /\ Flights' = [Flights EXCEPT ![KeyOf(c)] = "landed"]
    <3>1. Flights' = [k \in Keys |-> FlightOf[entries'[k].state]]
      BY DEF Flights
    <3>2. \A k \in Keys : entries'[k].state = IF k = KeyOf(c) THEN "ready" ELSE entries[k].state
      BY <1>0, <2>2, <2>5
    <3>3. \A k \in Keys : Flights'[k] = IF k = KeyOf(c) THEN "landed" ELSE Flights[k]
      BY <3>1, <3>2 DEF Flights, FlightOf
    <3>4. Flights' = [k \in Keys |-> IF k = KeyOf(c) THEN "landed" ELSE Flights[k]]
      BY <3>1, <3>3
    <3>5. [Flights EXCEPT ![KeyOf(c)] = "landed"]
            = [k \in Keys |-> IF k = KeyOf(c) THEN "landed" ELSE Flights[k]]
      BY DEF Flights
    <3>6. Flights[KeyOf(c)] = "flying"
      BY <2>2, <2>4 DEF Flights, FlightOf
    <3>7. QED
      BY <3>4, <3>5, <3>6
  <2>7. Landed' = [Landed EXCEPT ![KeyOf(c)] = result[c]]
    BY <1>0, <2>2, <2>5 DEF Landed
  <2>8. QED
    BY <2>1, <2>2, <2>3, <2>6, <2>7 DEF SF!Land
<1>9. ASSUME NEW c \in Calls, WaitReady(c) PROVE SF!Take(c)
  <2>1. /\ parent' = parent /\ entries' = entries /\ pc[c] = "waiting" /\ GoTo(c, "returned")
        /\ result' = [result EXCEPT ![c] = entries[KeyOf(c)].out]
        /\ entries[KeyOf(c)].state = "ready"
    BY <1>9 DEF WaitReady, Return, At
  <2>2. /\ Seeks(c) /\ Sought[c] = KeyOf(c) /\ KeyOf(c) \in Keys /\ Sought' = Sought
        /\ SF!Give(c, entries[KeyOf(c)].out) /\ Leaders' = Leaders \ {c} /\ Given[c] = Unset
    BY <1>r, <2>1
  <2>3. c \notin Leaders
    BY <2>1 DEF Leaders, InFlight
  <2>4. UNCHANGED <<Flights, Landed, Sought, Leaders>>
    BY <2>1, <2>2, <2>3 DEF Flights, Landed
  <2>5. Flights[KeyOf(c)] = "landed" /\ Landed[KeyOf(c)] = entries[KeyOf(c)].out
    BY <2>1, <2>2 DEF Flights, FlightOf, Landed
  <2>6. SF!Follower(c)
    BY <2>2, <2>3, KeyIsNoNoKey DEF SF!Follower
  <2>7. QED
    BY <2>2, <2>4, <2>5, <2>6 DEF SF!Take
<1>10. ASSUME NEW c \in Calls, WaitCancelled(c) PROVE SF!GiveUp(c)
  <2>1. /\ parent' = parent /\ entries' = entries /\ pc[c] = "waiting" /\ GoTo(c, "returned")
        /\ result' = [result EXCEPT ![c] = Outcome(Nil, "canceled")]
    BY <1>10 DEF WaitCancelled, Return, At
  <2>2. /\ Sought[c] = KeyOf(c) /\ Sought' = Sought
        /\ SF!Give(c, Outcome(Nil, "canceled")) /\ Leaders' = Leaders \ {c} /\ Given[c] = Unset
    BY <1>r, <2>1
  <2>3. c \notin Leaders
    BY <2>1 DEF Leaders, InFlight
  <2>4. UNCHANGED <<Flights, Landed, Sought, Leaders>>
    BY <2>1, <2>2, <2>3 DEF Flights, Landed
  <2>5. SF!Follower(c)
    BY <2>2, <2>3, KeyIsNoNoKey DEF SF!Follower
  <2>6. QED
    BY <2>2, <2>4, <2>5 DEF SF!GiveUp
<1>11. QED
  BY <1>1, <1>2, <1>3, <1>4, <1>5, <1>6, <1>7, <1>8, <1>9, <1>10
  DEF NodeNext, CallStep, Enter, AllReturned, Cancel, nodeVars, SF!Next

(* The cache keeps its promise for any number of calls, keys and contexts: *)
(* per key one flight in a request, and everyone who asked for the key is  *)
(* given the outcome of that flight or gave up waiting for it.             *)
THEOREM SingleFlightImplemented == NodeSpec => ImplementsSingleFlight
<1>1. NodeInit => SF!Init
  BY RefinementInit
<1>2. NodeTypeOK /\ SingleOwner /\ Admitted /\ [NodeNext]_nodeVars
      => [SF!Next]_<<Sought, Flights, Leaders, Landed, Given>>
  BY RefinementStep
<1>3. NodeInit => Admitted
  BY AdmittedInit
<1>4. NodeTypeOK /\ Admitted /\ [NodeNext]_nodeVars => Admitted'
  BY AdmittedStep
<1>5. NodeSpec => []NodeTypeOK
  BY TypesAndGate, PTL
<1>6. NodeSpec => []SingleOwner
  BY OneOwner
<1>7. QED
  BY <1>1, <1>2, <1>3, <1>4, <1>5, <1>6, PTL
  DEF NodeSpec, ImplementsSingleFlight, SF!Spec, SF!sfVars

-----------------------------------------------------------------------------
(* The calls of a node that stand somewhere, counted.                      *)
Standing(n, at) == {c \in CallsOf(n) : At(c, at)}

LEMMA StandingFinite ==
  \A n, at : /\ IsFiniteSet(Standing(n, at)) /\ Cardinality(Standing(n, at)) \in Nat
             /\ Standing(n, at) \subseteq Calls
<1> SUFFICES ASSUME NEW n, NEW at
             PROVE  /\ IsFiniteSet(Standing(n, at)) /\ Cardinality(Standing(n, at)) \in Nat
                    /\ Standing(n, at) \subseteq Calls
  OBVIOUS
<1>1. Standing(n, at) \in SUBSET Calls
  BY DEF Standing, CallsOf
<1>2. QED
  BY <1>1, CallsAssumption, FS_Subset, FS_CardinalityType

(* A call that goes on is counted where it goes, and no longer where it    *)
(* stood; the calls of other nodes stay.                                   *)
LEMMA StandingMoves ==
  ASSUME pc \in [Calls -> PCs], NEW c \in Calls, NEW to, pc[c] # to, GoTo(c, to), NEW n, NEW at
  PROVE  Cardinality(Standing(n, at)') =
           IF NodeOf[c] # n THEN Cardinality(Standing(n, at))
           ELSE IF at = to THEN Cardinality(Standing(n, at)) + 1
           ELSE IF at = pc[c] THEN Cardinality(Standing(n, at)) - 1
           ELSE Cardinality(Standing(n, at))
<1>1. \A d \in Calls : pc'[d] = IF d = c THEN to ELSE pc[d]
  BY DEF GoTo
<1>2. CASE NodeOf[c] = n /\ at = to
  <2>1. Standing(n, at)' = Standing(n, at) \cup {c} /\ c \notin Standing(n, at)
    BY <1>1, <1>2 DEF Standing, CallsOf, At
  <2>2. QED
    BY <1>2, <2>1, StandingFinite, FS_AddElement
<1>3. CASE NodeOf[c] = n /\ at # to /\ at = pc[c]
  <2>1. Standing(n, at)' = Standing(n, at) \ {c} /\ c \in Standing(n, at)
    BY <1>1, <1>3 DEF Standing, CallsOf, At
  <2>2. QED
    BY <1>3, <2>1, StandingFinite, FS_RemoveElement
<1>4. CASE NodeOf[c] # n \/ (at # to /\ at # pc[c])
  <2>1. Standing(n, at)' = Standing(n, at)
    BY <1>1, <1>4 DEF Standing, CallsOf, At
  <2>2. QED
    BY <1>4, <2>1
<1>5. QED
  BY <1>2, <1>3, <1>4

(* Two states of a node's counters that differ in rows, misses or batches, *)
(* and a later one that counts more calls.                                 *)
SameLoad(a, b) == a.current = b.current /\ a.maxParallel = b.maxParallel

Gains(a, b, calls, physical, hits, waits) ==
  /\ a.calls = b.calls + calls /\ a.physical = b.physical + physical
  /\ a.hits = b.hits + hits /\ a.waits = b.waits + waits

SameBooks(a, b) ==
  /\ a.calls = b.calls /\ a.physical = b.physical /\ a.hits = b.hits /\ a.waits = b.waits
  /\ SameLoad(a, b)

(* What the operations of the runtime do to the counters of a node.        *)
LEMMA RuntimeCounts ==
  ASSUME NEW r \in [Nodes -> Counter], NEW n \in Nodes, NEW k \in Nat
  PROVE  /\ Gains(AddLogicalCalls(r, n, k)[n], r[n], k, 0, 0, 0)
         /\ SameLoad(AddLogicalCalls(r, n, k)[n], r[n])
         /\ SameBooks(AddRowsOut(r, n, k)[n], r[n])
         /\ Gains(CacheHit(r, n)[n], r[n], 0, 0, 1, 0) /\ SameLoad(CacheHit(r, n)[n], r[n])
         /\ SameBooks(CacheMiss(r, n)[n], r[n])
         /\ Gains(CacheWait(r, n)[n], r[n], 0, 0, 0, 1) /\ SameLoad(CacheWait(r, n)[n], r[n])
         /\ Gains(EndPhysical(r, n)[n], r[n], 0, 0, 0, 0)
         /\ EndPhysical(r, n)[n].current = IF r[n].current > 0 THEN r[n].current - 1 ELSE 0
         /\ EndPhysical(r, n)[n].maxParallel = r[n].maxParallel
<1>1. r[n] \in Counter
  OBVIOUS
<1> USE <1>1 DEF Counter, Gains, SameBooks, SameLoad
<1>2. Gains(AddLogicalCalls(r, n, k)[n], r[n], k, 0, 0, 0) /\ SameLoad(AddLogicalCalls(r, n, k)[n], r[n])
  BY DEF AddLogicalCalls
<1>3. SameBooks(AddRowsOut(r, n, k)[n], r[n])
  BY DEF AddRowsOut
<1>4. Gains(CacheHit(r, n)[n], r[n], 0, 0, 1, 0) /\ SameLoad(CacheHit(r, n)[n], r[n])
  BY DEF CacheHit
<1>5. SameBooks(CacheMiss(r, n)[n], r[n])
  BY DEF CacheMiss
<1>6. Gains(CacheWait(r, n)[n], r[n], 0, 0, 0, 1) /\ SameLoad(CacheWait(r, n)[n], r[n])
  BY DEF CacheWait
<1>7. /\ Gains(EndPhysical(r, n)[n], r[n], 0, 0, 0, 0)
      /\ EndPhysical(r, n)[n].current = IF r[n].current > 0 THEN r[n].current - 1 ELSE 0
      /\ EndPhysical(r, n)[n].maxParallel = r[n].maxParallel
  BY DEF EndPhysical
<1>8. QED
  BY <1>2, <1>3, <1>4, <1>5, <1>6, <1>7

LEMMA BeginCounts ==
  ASSUME NEW r \in [Nodes -> Counter], NEW n \in Nodes
  PROVE  /\ Gains(BeginPhysical(r, n)[n], r[n], 0, 1, 0, 0)
         /\ BeginPhysical(r, n)[n].current = r[n].current + 1
         /\ BeginPhysical(r, n)[n].maxParallel = Larger(r[n].maxParallel, r[n].current + 1)
<1>1. r[n] \in Counter
  OBVIOUS
<1>2. QED
  BY <1>1 DEF Counter, Gains, BeginPhysical

(* They touch the counters of that node alone.                             *)
LEMMA RuntimeLocal ==
  ASSUME NEW r \in [Nodes -> Counter], NEW n \in Nodes, NEW k, NEW m \in Nodes, m # n
  PROVE  /\ AddLogicalCalls(r, n, k)[m] = r[m]
         /\ AddRowsOut(r, n, k)[m] = r[m]
         /\ CacheHit(r, n)[m] = r[m] /\ CacheMiss(r, n)[m] = r[m] /\ CacheWait(r, n)[m] = r[m]
         /\ BeginPhysical(r, n)[m] = r[m] /\ EndPhysical(r, n)[m] = r[m]
  BY DEF AddLogicalCalls, AddRowsOut, CacheHit, CacheMiss, CacheWait, BeginPhysical, EndPhysical

LEMMA ReturnBooks ==
  ASSUME NEW c \in Calls, NEW o \in Outcomes, NEW r \in [Nodes -> Counter], Return(c, o, r)
  PROVE  \A m \in Nodes : SameBooks(rt'[m], r[m])
<1>1. NodeOf[c] \in Nodes /\ CountRowsOut(NodeOf[c], o.val) \in Nat
  BY CallsAssumption, RowsTyped DEF Outcomes
<1>2. CASE o.err = "none"
  <2>1. rt' = AddRowsOut(r, NodeOf[c], CountRowsOut(NodeOf[c], o.val))
    BY <1>2 DEF Return
  <2>2. QED
    BY <1>1, <2>1, RuntimeCounts, RuntimeLocal DEF SameBooks, SameLoad
<1>3. CASE o.err # "none"
  BY <1>3 DEF Return, SameBooks, SameLoad
<1>4. QED
  BY <1>2, <1>3

(* The accounting of one node.                                             *)
Balanced(n) ==
  /\ rt[n].calls = rt[n].physical + rt[n].hits + rt[n].waits + Cardinality(Standing(n, "gate"))
  /\ rt[n].current = Cardinality(Standing(n, "resolving"))
  /\ rt[n].maxParallel <= GateCapacity

LEMMA AccountingStep ==
  TypedGate /\ CallAccounting /\ [NodeNext]_nodeVars => CallAccounting'
<1> SUFFICES ASSUME TypedGate, CallAccounting, [NodeNext]_nodeVars PROVE CallAccounting'
  OBVIOUS
<1>a. /\ NodeTypeOK /\ pc \in [Calls -> PCs] /\ rt \in [Nodes -> Counter]
      /\ gate = Cardinality(Resolving) /\ GateCapacity \in Nat
      /\ \A n \in Registered : n \in Nodes /\ Balanced(n)
  BY CapacityPositive, PlanAssumption
  DEF TypedGate, NodeTypeOK, GateAccounting, Resolving, CallAccounting, Balanced, Standing
<1>b. \A n \in Nodes :
        /\ rt[n] \in Counter /\ rt[n].calls \in Nat /\ rt[n].physical \in Nat
        /\ rt[n].hits \in Nat /\ rt[n].waits \in Nat /\ rt[n].current \in Nat
        /\ rt[n].maxParallel \in Nat
        /\ Cardinality(Standing(n, "gate")) \in Nat
        /\ Cardinality(Standing(n, "resolving")) \in Nat
  BY <1>a, StandingFinite DEF Counter
(* What is left of a step of c: the books of its own node.                 *)
<1>c. ASSUME NEW c \in Calls, NEW to, pc[c] # to, GoTo(c, to),
             \A m \in Nodes : m # NodeOf[c] => SameBooks(rt'[m], rt[m]),
             NodeOf[c] \in Registered => Balanced(NodeOf[c])'
      PROVE  CallAccounting'
  <2>1. ASSUME NEW n \in Registered, n # NodeOf[c] PROVE Balanced(n)'
    <3>1. /\ Cardinality(Standing(n, "gate")') = Cardinality(Standing(n, "gate"))
          /\ Cardinality(Standing(n, "resolving")') = Cardinality(Standing(n, "resolving"))
      BY <1>a, <1>c, <2>1, StandingMoves
    <3>2. SameBooks(rt'[n], rt[n]) /\ Balanced(n)
      BY <1>a, <1>c, <2>1
    <3>3. QED
      BY <3>1, <3>2 DEF Balanced, SameBooks, SameLoad
  <2>2. QED
    BY <1>c, <2>1 DEF CallAccounting, Balanced, Standing
(* A step that leaves the counters alone and neither the queue nor the     *)
(* resolvers change.                                                       *)
<1>d. ASSUME NEW c \in Calls, NEW to, pc[c] # to, GoTo(c, to),
             pc[c] \notin {"gate", "resolving"}, to \notin {"gate", "resolving"},
             \A m \in Nodes : SameBooks(rt'[m], rt[m])
      PROVE  CallAccounting'
  <2>1. ASSUME NodeOf[c] \in Registered PROVE Balanced(NodeOf[c])'
    BY <1>a, <1>d, <2>1, StandingMoves DEF Balanced, SameBooks, SameLoad
  <2>2. QED
    BY <1>c, <1>d, <2>1
<1>1. ASSUME NEW c \in Calls, NEW p \in Parents, NEW x \in SUBSET Ctxs, Invoke(c, p, x)
      PROVE  CallAccounting'
  BY <1>1, <1>d DEF Invoke, At, SameBooks, SameLoad
<1>2. ASSUME NEW c \in Calls, EnterUnknown(c) PROVE CallAccounting'
  <2>1. Outcome(Nil, "no field spec") \in Outcomes
    BY ValuesAssumption DEF Outcome, Outcomes, Errors
  <2>2. \A m \in Nodes : SameBooks(rt'[m], rt[m])
    BY <1>2, <1>a, <2>1, ReturnBooks DEF EnterUnknown
  <2>3. QED
    BY <1>2, <2>2, <1>d DEF EnterUnknown, Return, At
<1>3. ASSUME NEW c \in Calls, EnterUncached(c) PROVE CallAccounting'
  <2> DEFINE n == NodeOf[c]
  <2>1. pc[c] = "enter" /\ GoTo(c, "gate") /\ n \in Nodes
    BY <1>3, CallsAssumption DEF EnterUncached, At
  <2>2. /\ Gains(rt'[n], rt[n], 1, 0, 0, 0) /\ SameLoad(rt'[n], rt[n])
        /\ \A m \in Nodes : m # n => rt'[m] = rt[m]
    BY <1>a, <1>3, <2>1, RuntimeCounts, RuntimeLocal DEF EnterUncached
  <2>3. /\ Cardinality(Standing(n, "gate")') = Cardinality(Standing(n, "gate")) + 1
        /\ Cardinality(Standing(n, "resolving")') = Cardinality(Standing(n, "resolving"))
    BY <1>a, <2>1, StandingMoves
  <2>4. n \in Registered => Balanced(n)'
    BY <1>a, <1>b, <2>1, <2>2, <2>3 DEF Balanced, Gains, SameLoad
  <2>5. QED
    BY <1>c, <2>1, <2>2, <2>4 DEF SameBooks, SameLoad
<1>4. ASSUME NEW c \in Calls, EnterHit(c) PROVE CallAccounting'
  <2> DEFINE n == NodeOf[c]
             asked == AddLogicalCalls(rt, n, 1)
             r == CacheHit(asked, n)
  <2>1. pc[c] = "enter" /\ GoTo(c, "returned") /\ n \in Nodes
    BY <1>4, CallsAssumption DEF EnterHit, Return, At
  <2>2. asked \in [Nodes -> Counter] /\ r \in [Nodes -> Counter]
    BY <1>a, <2>1, RuntimeTyped
  <2>3. entries[KeyOf(c)].out \in Outcomes
    BY <1>a, KeyTyped DEF NodeTypeOK, Entry
  <2>4. \A m \in Nodes : SameBooks(rt'[m], r[m])
    BY <1>4, <2>2, <2>3, ReturnBooks DEF EnterHit
  <2>5. /\ Gains(r[n], asked[n], 0, 0, 1, 0) /\ SameLoad(r[n], asked[n])
        /\ \A m \in Nodes : m # n => r[m] = asked[m]
    BY <2>1, <2>2, RuntimeCounts, RuntimeLocal
  <2>6. /\ Gains(asked[n], rt[n], 1, 0, 0, 0) /\ SameLoad(asked[n], rt[n])
        /\ \A m \in Nodes : m # n => asked[m] = rt[m]
    BY <1>a, <2>1, RuntimeCounts, RuntimeLocal
  <2>7. /\ Cardinality(Standing(n, "gate")') = Cardinality(Standing(n, "gate"))
        /\ Cardinality(Standing(n, "resolving")') = Cardinality(Standing(n, "resolving"))
    BY <1>a, <2>1, StandingMoves
  <2> HIDE DEF asked, r
  <2>8. n \in Registered => Balanced(n)'
    BY <1>a, <1>b, <2>1, <2>4, <2>5, <2>6, <2>7 DEF Balanced, Gains, SameLoad, SameBooks
  <2>9. \A m \in Nodes : m # n => SameBooks(rt'[m], rt[m])
    BY <2>4, <2>5, <2>6
  <2>10. QED
    BY <1>c, <2>1, <2>8, <2>9
<1>5. ASSUME NEW c \in Calls, EnterWait(c) PROVE CallAccounting'
  <2> DEFINE n == NodeOf[c]
             asked == AddLogicalCalls(rt, n, 1)
  <2>1. pc[c] = "enter" /\ GoTo(c, "waiting") /\ n \in Nodes /\ rt' = CacheWait(asked, n)
    BY <1>5, CallsAssumption DEF EnterWait, At
  <2>2. asked \in [Nodes -> Counter]
    BY <1>a, <2>1, RuntimeTyped
  <2>3. /\ Gains(rt'[n], asked[n], 0, 0, 0, 1) /\ SameLoad(rt'[n], asked[n])
        /\ \A m \in Nodes : m # n => rt'[m] = asked[m]
    BY <2>1, <2>2, RuntimeCounts, RuntimeLocal
  <2>4. /\ Gains(asked[n], rt[n], 1, 0, 0, 0) /\ SameLoad(asked[n], rt[n])
        /\ \A m \in Nodes : m # n => asked[m] = rt[m]
    BY <1>a, <2>1, RuntimeCounts, RuntimeLocal
  <2>5. /\ Cardinality(Standing(n, "gate")') = Cardinality(Standing(n, "gate"))
        /\ Cardinality(Standing(n, "resolving")') = Cardinality(Standing(n, "resolving"))
    BY <1>a, <2>1, StandingMoves
  <2> HIDE DEF asked
  <2>6. n \in Registered => Balanced(n)'
    BY <1>a, <1>b, <2>1, <2>3, <2>4, <2>5 DEF Balanced, Gains, SameLoad, SameBooks
  <2>7. \A m \in Nodes : m # n => SameBooks(rt'[m], rt[m])
    BY <2>3, <2>4 DEF SameBooks, SameLoad
  <2>8. QED
    BY <1>c, <2>1, <2>6, <2>7
<1>6. ASSUME NEW c \in Calls, EnterMiss(c) PROVE CallAccounting'
  <2> DEFINE n == NodeOf[c]
             asked == AddLogicalCalls(rt, n, 1)
  <2>1. pc[c] = "enter" /\ GoTo(c, "gate") /\ n \in Nodes /\ rt' = CacheMiss(asked, n)
    BY <1>6, CallsAssumption DEF EnterMiss, At
  <2>2. asked \in [Nodes -> Counter]
    BY <1>a, <2>1, RuntimeTyped
  <2>3. /\ SameBooks(rt'[n], asked[n])
        /\ \A m \in Nodes : m # n => rt'[m] = asked[m]
    BY <2>1, <2>2, RuntimeCounts, RuntimeLocal
  <2>4. /\ Gains(asked[n], rt[n], 1, 0, 0, 0) /\ SameLoad(asked[n], rt[n])
        /\ \A m \in Nodes : m # n => asked[m] = rt[m]
    BY <1>a, <2>1, RuntimeCounts, RuntimeLocal
  <2>5. /\ Cardinality(Standing(n, "gate")') = Cardinality(Standing(n, "gate")) + 1
        /\ Cardinality(Standing(n, "resolving")') = Cardinality(Standing(n, "resolving"))
    BY <1>a, <2>1, StandingMoves
  <2> HIDE DEF asked
  <2>6. n \in Registered => Balanced(n)'
    BY <1>a, <1>b, <2>1, <2>3, <2>4, <2>5 DEF Balanced, Gains, SameLoad, SameBooks
  <2>7. \A m \in Nodes : m # n => SameBooks(rt'[m], rt[m])
    BY <2>3, <2>4 DEF SameBooks, SameLoad
  <2>8. QED
    BY <1>c, <2>1, <2>6, <2>7
<1>7. ASSUME NEW c \in Calls, AcquireGate(c) PROVE CallAccounting'
  <2> DEFINE n == NodeOf[c]
  <2>1. /\ pc[c] = "gate" /\ GoTo(c, "resolving") /\ n \in Nodes
        /\ gate < GateCapacity /\ rt' = BeginPhysical(rt, n)
    BY <1>7, CallsAssumption DEF AcquireGate, At
  <2>2. /\ Gains(rt'[n], rt[n], 0, 1, 0, 0)
        /\ rt'[n].current = rt[n].current + 1
        /\ rt'[n].maxParallel = Larger(rt[n].maxParallel, rt[n].current + 1)
        /\ \A m \in Nodes : m # n => rt'[m] = rt[m]
    BY <1>a, <2>1, BeginCounts, RuntimeLocal
  <2>3. /\ Cardinality(Standing(n, "gate")') = Cardinality(Standing(n, "gate")) - 1
        /\ Cardinality(Standing(n, "resolving")') = Cardinality(Standing(n, "resolving")) + 1
    BY <1>a, <2>1, StandingMoves
  <2>4. Cardinality(Standing(n, "resolving")) <= gate /\ gate \in Nat
    <3>1. Standing(n, "resolving") \in SUBSET Resolving
      BY DEF Standing, CallsOf, Resolving
    <3>2. QED
      BY <1>a, <3>1, ResolvingFinite, FS_Subset
  <2>5. ASSUME n \in Registered PROVE Balanced(n)'
    <3>1. Balanced(n) /\ Cardinality(Standing(n, "gate")) \in Nat
      BY <1>a, <1>b, <2>1, <2>5
    <3>2. rt'[n].calls = rt'[n].physical + rt'[n].hits + rt'[n].waits
                          + Cardinality(Standing(n, "gate")')
      <4>1. /\ rt[n].physical \in Nat /\ rt[n].hits \in Nat /\ rt[n].waits \in Nat
            /\ rt[n].calls \in Nat
            /\ rt[n].calls = rt[n].physical + rt[n].hits + rt[n].waits
                               + Cardinality(Standing(n, "gate"))
            /\ rt'[n].calls = rt[n].calls + 0 /\ rt'[n].physical = rt[n].physical + 1
            /\ rt'[n].hits = rt[n].hits + 0 /\ rt'[n].waits = rt[n].waits + 0
        BY <1>b, <2>1, <2>2, <3>1 DEF Balanced, Gains
      <4>2. Cardinality(Standing(n, "gate")') = Cardinality(Standing(n, "gate")) - 1
        BY <2>3
      <4>3. Cardinality(Standing(n, "gate")) \in Nat
        BY <3>1
      <4> HIDE DEF n
      <4>4. QED
        BY <4>1, <4>2, <4>3, SMTT(30)
    <3>3. rt'[n].current = Cardinality(Standing(n, "resolving")')
      BY <2>2, <2>3, <3>1 DEF Balanced
    <3>4. rt'[n].maxParallel <= GateCapacity
      <4>1. rt[n].current + 1 <= GateCapacity
        <5>1. rt[n].current = Cardinality(Standing(n, "resolving"))
          BY <3>1 DEF Balanced
        <5>2. Cardinality(Standing(n, "resolving")) \in Nat /\ GateCapacity \in Nat
          BY <1>a, <1>b, <2>1
        <5>3. QED
          BY <2>1, <2>4, <5>1, <5>2
      <4>2. rt[n].maxParallel \in Nat /\ rt[n].current \in Nat
        BY <1>b, <2>1
      <4>3. rt[n].maxParallel <= GateCapacity
        BY <3>1 DEF Balanced
      <4>4. Larger(rt[n].maxParallel, rt[n].current + 1) <= GateCapacity
        BY <4>1, <4>2, <4>3 DEF Larger
      <4>5. QED
        BY <2>2, <4>4
    <3>5. QED
      BY <3>2, <3>3, <3>4 DEF Balanced
  <2>6. QED
    BY <1>c, <2>1, <2>2, <2>5 DEF SameBooks, SameLoad
<1>8. ASSUME NEW c \in Calls, ResolverReturns(c) PROVE CallAccounting'
  <2> DEFINE n == NodeOf[c]
             r == EndPhysical(rt, n)
  <2>1. pc[c] = "resolving" /\ n \in Nodes /\ r \in [Nodes -> Counter]
    BY <1>8, <1>a, RuntimeTyped, CallsAssumption DEF ResolverReturns, At
  <2>2. PICK o \in DirectOutcomes(NodeOf[c], parent[c], ctx[c]) :
          IF Cached(c)
          THEN /\ result' = [result EXCEPT ![c] = o]
               /\ rt' = EndPhysical(rt, NodeOf[c])
               /\ GoTo(c, "complete")
          ELSE Return(c, o, EndPhysical(rt, NodeOf[c]))
    BY <1>8 DEF ResolverReturns
  <2>3. o \in Outcomes
    BY <1>a, <2>2, OutcomesTyped, CallsAssumption DEF NodeTypeOK
  <2>4. \A m \in Nodes : SameBooks(rt'[m], r[m])
    <3>1. CASE Cached(c)
      BY <2>2, <3>1 DEF SameBooks, SameLoad
    <3>2. CASE ~Cached(c)
      BY <2>1, <2>2, <2>3, <3>2, ReturnBooks
    <3>3. QED
      BY <3>1, <3>2
  <2>5. PICK to \in {"complete", "returned"} : GoTo(c, to)
    BY <2>2 DEF Return
  <2>6. /\ Gains(r[n], rt[n], 0, 0, 0, 0)
        /\ r[n].current = IF rt[n].current > 0 THEN rt[n].current - 1 ELSE 0
        /\ r[n].maxParallel = rt[n].maxParallel
        /\ \A m \in Nodes : m # n => r[m] = rt[m]
    BY <1>a, <2>1, RuntimeCounts, RuntimeLocal
  <2>7. /\ Cardinality(Standing(n, "gate")') = Cardinality(Standing(n, "gate"))
        /\ Cardinality(Standing(n, "resolving")') = Cardinality(Standing(n, "resolving")) - 1
    BY <1>a, <2>1, <2>5, StandingMoves
  <2>8. Cardinality(Standing(n, "resolving")) > 0
    BY <2>1, StandingFinite, FS_EmptySet DEF Standing, CallsOf, At
  <2> HIDE DEF r
  <2>9. n \in Registered => Balanced(n)'
    BY <1>a, <1>b, <2>1, <2>4, <2>6, <2>7, <2>8 DEF Balanced, Gains, SameBooks, SameLoad
  <2>10. \A m \in Nodes : m # n => SameBooks(rt'[m], rt[m])
    BY <2>4, <2>6
  <2>11. QED
    BY <1>c, <2>1, <2>5, <2>9, <2>10
<1>9. ASSUME NEW c \in Calls, NEW o \in Outcomes, pc[c] \in {"complete", "waiting"}, Return(c, o, rt)
      PROVE  CallAccounting'
  BY <1>9, <1>a, <1>d, ReturnBooks DEF Return
<1>10. ASSUME NEW c \in Calls, CompleteEntry(c) \/ WaitReady(c) \/ WaitCancelled(c)
       PROVE  CallAccounting'
  <2>1. /\ result[c] \in Outcomes /\ entries[KeyOf(c)].out \in Outcomes
        /\ Outcome(Nil, "canceled") \in Outcomes
    BY <1>a, KeyTyped, ValuesAssumption DEF NodeTypeOK, Entry, Outcome, Outcomes, Errors
  <2>2. QED
    BY <1>9, <1>10, <2>1 DEF CompleteEntry, WaitReady, WaitCancelled, At
<1>11. ASSUME UNCHANGED <<rt, pc>> PROVE CallAccounting'
  BY <1>11 DEF CallAccounting, CallsOf, At
<1>12. QED
  BY <1>1, <1>2, <1>3, <1>4, <1>5, <1>6, <1>7, <1>8, <1>10, <1>11
  DEF NodeNext, CallStep, Enter, Cancel, AllReturned, nodeVars

(* The counters of EXPLAIN ANALYZE agree with each other and with what     *)
(* runs, through every interleaving of lookups, resolvers and waits.       *)
THEOREM CountersAgree == NodeSpec => []CallAccounting
<1>1. NodeInit => CallAccounting
  <2> SUFFICES ASSUME NodeInit PROVE CallAccounting
    OBVIOUS
  <2>1. ASSUME NEW n \in Registered PROVE Balanced(n)
    <3>1. Standing(n, "gate") = {} /\ Standing(n, "resolving") = {}
      BY DEF NodeInit, Standing, CallsOf, At
    <3>2. n \in Nodes
      BY PlanAssumption
    <3>3. Cardinality(Standing(n, "gate")) = 0 /\ Cardinality(Standing(n, "resolving")) = 0
      BY <3>1, FS_EmptySet
    <3>4. rt[n] = ZeroCounter
      BY <3>2 DEF NodeInit, NewRuntime
    <3>5. /\ rt[n].calls = 0 /\ rt[n].physical = 0 /\ rt[n].hits = 0 /\ rt[n].waits = 0
          /\ rt[n].current = 0 /\ rt[n].maxParallel = 0
      BY <3>4 DEF ZeroCounter
    <3>6. QED
      BY <3>3, <3>5, CapacityPositive DEF Balanced
  <2>2. QED
    BY <2>1 DEF CallAccounting, Balanced, Standing
<1>2. QED
  BY <1>1, TypedGateInit, TypedGateStep, AccountingStep, PTL DEF NodeSpec

(* The state keeps its types.                                              *)
THEOREM NodeTypes == NodeSpec => []NodeTypeOK
<1>1. NodeTypeOK /\ GateAccounting => NodeTypeOK
  OBVIOUS
<1>2. QED
  BY <1>1, TypesAndGate, PTL
=============================================================================
