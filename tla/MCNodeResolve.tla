---------------------------- MODULE MCNodeResolve ----------------------------
(***************************************************************************)
(* Three calls of one request, on one cacheable field: two under its name  *)
(* and one under an alias.  Each may be given the item p or a nil item, so *)
(* keys coincide or differ; the resolver may fail; every call may run      *)
(* under an errgroup context that can be cancelled at any time; the gate   *)
(* has one token.  Around them two more calls: one under an alias that is  *)
(* planned without the cache, and one of a field without a resolver.       *)
(***************************************************************************)
EXTENDS NodeResolve

CONSTANTS c1, c2, c3, c4, c5, p, v, g

MCNodes == {"shop", "alias", "plain", "gone"}
MCParents == {Nil, p}
MCValues == {Nil, v}

Shop ==
  [resolver |-> "Item.shop", args |-> "-", shape |-> "-", isList |-> FALSE,
   cacheable |-> TRUE, cacheKey |-> "shopId", batchKey |-> ""]

MCField ==
  [n \in MCNodes |-> IF n = "gone" THEN [Shop EXCEPT !.resolver = "Query.gone"] ELSE Shop]

MCStrategy == [n \in MCNodes |-> [useCache |-> n # "plain"]]

MCAttr == [x \in {p} |-> [shopId |-> "s1", id |-> "i1"]]

MCCalls == {c1, c2, c3, c4, c5}

MCNodeOf ==
  [c \in MCCalls |->
     CASE c \in {c1, c3} -> "shop" [] c = c2 -> "alias" [] c = c4 -> "plain" [] c = c5 -> "gone"]

MCAnswers == [n \in MCNodes |-> [x \in MCParents |-> {v}]]

(* The call without cache and that of the unknown field, where they run    *)
(* one after the other: plain before the three, which follow unless it     *)
(* failed, and gone after them.                                            *)
PlainFirstGoneLast ==
  LET called == {c \in {c1, c2, c3} : pc[c] # "idle"}
  IN /\ \A c \in {c4, c5} : parent[c] = Nil /\ ctx[c] = {}
     /\ called # {} => At(c4, "returned") /\ result[c4].err = "none"
     /\ ~At(c5, "idle") => \A c \in {c1, c2, c3} : At(c, "returned")
=============================================================================
