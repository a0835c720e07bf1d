---------------------------- MODULE RequestCache ----------------------------
(***************************************************************************)
(* The per-request single-flight cache of src/planner/execute/             *)
(* request_cache.go.  The mutex makes lookupOrReserve and complete atomic, *)
(* so each is one operator on the map of entries; the processes that call  *)
(* them are in the modules that extend this one.                           *)
(***************************************************************************)
EXTENDS Naturals, Sequences

CONSTANTS
  Nodes,     \* nodes of the logical plan that may be resolved
  Parents,   \* the values a resolver can be called on, Nil for the root
  Values,    \* what a resolver can return
  Nil,       \* Go's nil
  Field,     \* Field[n]: the logical node and its catalog metadata
  Strategy,  \* Strategy[n]: what n is planned with: cache, sizes of batches
  Attr       \* Attr[p]: the attributes reflection can read from p, by hint

Errors == {"none", "failed", "canceled", "no field spec", "size mismatch", "not a slice"}

Outcome(v, e) == [val |-> v, err |-> e]

(* A resolver that errs may return a value as well: a call drops it, but   *)
(* it is published with the error, and a batch that hits the entry takes   *)
(* it.                                                                     *)
Outcomes == [val : Values, err : Errors]

NoOutcome == Outcome(Nil, "none")

(***************************************************************************)
(* cacheParentKey: the identity of a parent is the first of its CacheKey,  *)
(* BatchKey and "id" attributes that reflection finds; with none of them   *)
(* it is the pointer (or the printed value), distinct per parent.  The     *)
(* name of the hint is not part of the identity.                           *)
(***************************************************************************)
ParentHints(n) == <<Field[n].cacheKey, Field[n].batchKey, "id">>

(* Mutant: only the hints of the directives, every other parent is alike.  *)
CacheParentKeyHintless(p, hints) == IF p = Nil THEN <<"root", Nil>> ELSE <<"identity", Nil>>

CacheParentKey(p, hints) ==
  IF p = Nil THEN <<"root", Nil>>
  ELSE IF \E i \in DOMAIN hints : hints[i] \in DOMAIN Attr[p]
    THEN LET i == CHOOSE i \in DOMAIN hints :
                    /\ hints[i] \in DOMAIN Attr[p]
                    /\ \A j \in 1..(i - 1) : hints[j] \notin DOMAIN Attr[p]
         IN <<"attr", Attr[p][hints[i]]>>
    ELSE <<"identity", p>>

(* cacheKeyForNode: resolver, parent, arguments, response keys selected.   *)
CacheKeyForNode(n, p) ==
  <<Field[n].resolver, CacheParentKey(p, ParentHints(n)),
    Field[n].args, Field[n].shape>>

Keys == {CacheKeyForNode(n, p) : n \in Nodes, p \in Parents}

ShouldUseNodeCache(n) == Field[n].cacheable /\ Strategy[n].useCache

-----------------------------------------------------------------------------
(* An entry is pending from its reservation until its ready channel closes. *)
EntryStates == {"absent", "pending", "ready"}

Entry == [state : EntryStates, out : Outcomes]

EmptyCache == [k \in Keys |-> [state |-> "absent", out |-> NoOutcome]]

(* lookupOrReserve, by the three answers it can give.                      *)
HitReady(cache, k) == cache[k].state = "ready"
HitPending(cache, k) == cache[k].state = "pending"
MissOwner(cache, k) == cache[k].state = "absent"

(* Mutant: the new entry is not put into the map.                          *)
ReserveUnstored(cache, k) == cache

Reserve(cache, k) == [cache EXCEPT ![k].state = "pending"]

(* Mutants: an error leaves the entry pending; the ready channel is never  *)
(* closed.                                                                 *)
CompleteOnlySuccess(cache, k, o) ==
  IF cache[k].state = "pending" /\ o.err = "none"
  THEN [cache EXCEPT ![k] = [state |-> "ready", out |-> o]]
  ELSE cache

CompleteUnclosed(cache, k, o) == [cache EXCEPT ![k].out = o]

(* complete: the first call publishes, one for a key that was never        *)
(* reserved or is already published does nothing.                          *)
Complete(cache, k, o) ==
  IF cache[k].state = "pending"
  THEN [cache EXCEPT ![k] = [state |-> "ready", out |-> o]]
  ELSE cache
=============================================================================
