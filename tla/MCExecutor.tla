----------------------------- MODULE MCExecutor -----------------------------
(***************************************************************************)
(* Small queries over small data for Executor.tla.  The data: two items p  *)
(* and q of one shop z; each item has offers.  A node's answer depends on  *)
(* its resolver and parent only.  Each query has its plans: one, or every  *)
(* combination of some modes the optimizer chooses from.                   *)
(***************************************************************************)
EXTENDS Executor

CONSTANTS p, q, z, z2, v1, v2, o1, o2

MCObjects == {p, q, z, z2, v1, v2, o1, o2}
MCSlices == {<<p, q, p>>, <<p, q>>, <<z, z2>>, <<q, p>>, <<o1>>, <<o1, o2>>, <<q>>, <<v1>>, <<v1, v2>>, <<>>}
MCValues == {Nil} \cup MCObjects \cup MCSlices

MCAttr == [x \in MCObjects |->
  CASE x = p -> [id |-> "i1", shopId |-> "s1", label |-> "shop of the item"]
    [] x = q -> [id |-> "i2", shopId |-> "s1", label |-> "shop of the item"]
    [] x = z -> [id |-> "s1"]
    [] x = z2 -> [id |-> "s2"]
    [] OTHER -> [none |-> "-"]]

(* A plain field: not cached, no children.                                 *)
Leaf(key) ==
  [resolver |-> key, responseKey |-> key, args |-> "-", shape |-> "-",
   cacheable |-> FALSE, cacheKey |-> "", batchKey |-> "", isList |-> FALSE,
   children |-> <<>>]

Plain == [useCache |-> TRUE, batchSize |-> 1, maxConcurrentBatches |-> 1]

(* No node has more than four calls.                                       *)
Serial == [workers |-> 2, listMode |-> "LIST_SERIAL", fieldsMode |-> "SEQ_FIELDS", calls |-> 4]

Batched == [Serial EXCEPT !.listMode = "LIST_BATCHED"]

Parallel == [Serial EXCEPT !.listMode = "LIST_PARALLEL"]

-----------------------------------------------------------------------------
(* { items { price shop { name } } gone }: a parallel list whose items     *)
(* share a cached object, then a field nobody registered a resolver for,   *)
(* so that every execution ends in an error, early or late.                *)
ListParents == {Nil, p, q, z}
ListNodes == {"items", "shop", "name", "price", "gone"}
ListRegistered == ListNodes \ {"gone"}
ListRoot == <<"items", "gone">>
ListField == [n \in ListNodes |->
  CASE n = "items" -> [Leaf("items") EXCEPT !.isList = TRUE, !.children = <<"price", "shop">>]
    [] n = "shop" -> [Leaf("shop") EXCEPT !.cacheable = TRUE, !.cacheKey = "shopId",
                                          !.shape = "name", !.children = <<"name">>]
    [] OTHER -> Leaf(n)]
ListStrategy == [n \in ListNodes |-> Plain]
ListPlans == {[n \in ListNodes |-> IF n = "items" THEN [Parallel EXCEPT !.workers = 3] ELSE Serial]}
ListAnswers == [n \in ListNodes |-> [x \in ListParents |->
  CASE n = "items" -> {<<p, q, p>>} [] n = "shop" -> {z} [] n \in {"name", "gone"} -> {v2}
    [] n = "price" -> IF x = p THEN {v1} ELSE {Nil}]]
ListCalls ==
  {<<"call", "items", <<>>>>, <<"call", "gone", <<>>>>}
    \cup {<<"call", n, <<i>>>> : n \in {"shop", "name", "price"}, i \in 1..3}

-----------------------------------------------------------------------------
(* { shops { items { offers { cost } } } }: the items of two shops in      *)
(* opposite orders, so two batches of cached offers run at the same time   *)
(* and each may own what the other needs; one chunk per owner.             *)
ShopParents == {Nil, p, q, z, z2, o1}
ShopNodes == {"shops", "items", "offers", "cost"}
ShopRoot == <<"shops">>
ShopField == [n \in ShopNodes |->
  CASE n = "shops" -> [Leaf("shops") EXCEPT !.isList = TRUE, !.children = <<"items">>]
    [] n = "items" -> [Leaf("items") EXCEPT !.isList = TRUE, !.children = <<"offers">>]
    [] n = "offers" -> [Leaf("offers") EXCEPT !.isList = TRUE, !.children = <<"cost">>,
                          !.cacheable = TRUE, !.batchKey = "id", !.shape = "cost"]
    [] n = "cost" -> Leaf("cost")]
ShopStrategy == [n \in ShopNodes |->
  IF n = "offers" THEN [Plain EXCEPT !.maxConcurrentBatches = 2] ELSE Plain]
ShopPlans == {[n \in ShopNodes |->
  CASE n = "shops" -> Parallel
    [] n = "offers" -> [Batched EXCEPT !.workers = 1]
    [] OTHER -> Serial]}
ShopAnswers == [n \in ShopNodes |-> [x \in ShopParents |->
  CASE n = "shops" -> {<<z, z2>>}
    [] n = "items" -> IF x = z THEN {<<p, q>>} ELSE {<<q, p>>}
    [] n = "offers" -> IF x = p THEN {<<o1>>} ELSE {<<>>}
    [] n = "cost" -> {v1}]]
ShopCalls ==
  {<<"call", "shops", <<>>>>} \cup {<<"call", "items", <<i>>>> : i \in 1..2}
    \cup {<<"call", "cost", <<i, j>>>> : i, j \in 1..2}
ShopBatches == {<<"batch", "offers", <<i>>>> : i \in 1..2}

-----------------------------------------------------------------------------
(* { home { feed { offers { prices } } top { best: offers { prices } } } }: *)
(* the same cached field resolved in batches in one branch and call by     *)
(* call in the other, side by side; the prices under the batch are a batch *)
(* of their own, not cached, over the flattened offers.                    *)
HomeParents == {Nil, p, q, z, o1, o2}
HomeNodes == {"home", "feed", "top", "offers", "best", "prices", "bestPrices"}
HomeRoot == <<"home">>
PriceField == [Leaf("prices") EXCEPT !.isList = TRUE, !.resolver = "Offer.prices"]
OfferField == [Leaf("offers") EXCEPT !.isList = TRUE, !.cacheable = TRUE, !.cacheKey = "id",
                                     !.shape = "prices"]
HomeField == [n \in HomeNodes |->
  CASE n = "home" -> [Leaf("home") EXCEPT !.children = <<"feed", "top">>]
    [] n = "feed" -> [Leaf("feed") EXCEPT !.isList = TRUE, !.children = <<"offers">>]
    [] n = "top" -> [Leaf("top") EXCEPT !.isList = TRUE, !.children = <<"best">>]
    [] n = "offers" -> [OfferField EXCEPT !.children = <<"prices">>]
    [] n = "best" -> [OfferField EXCEPT !.children = <<"bestPrices">>, !.responseKey = "best"]
    [] OTHER -> PriceField]
HomeStrategy == [n \in HomeNodes |->
  IF n \in {"offers", "prices"} THEN [Plain EXCEPT !.batchSize = 2] ELSE Plain]
HomePlans ==
  {[n \in HomeNodes |->
      CASE n = "home" -> [Serial EXCEPT !.fieldsMode = home]
        [] n = "feed" -> feed [] n = "offers" -> offers [] n = "prices" -> prices
        [] OTHER -> Serial] :
     home \in {"SEQ_FIELDS", "PAR_FIELDS"}, feed \in {Serial, Parallel}, offers \in {Serial, Batched},
     prices \in {Serial, Batched}}
HomeAnswers == [n \in HomeNodes |-> [x \in HomeParents |->
  CASE n = "home" -> {z}
    [] n = "feed" -> {<<p, q>>}
    [] n = "top" -> {<<q>>}
    [] n \in {"offers", "best"} -> IF x = p THEN {<<o1>>} ELSE {<<o1, o2>>}
    [] OTHER -> IF x = o1 THEN {<<v1>>} ELSE {<<v1, v2>>}]]
HomeCalls ==
  {<<"call", n, <<>>>> : n \in {"home", "feed", "top"}} \cup {<<"call", "best", <<1>>>>}
    \cup {<<"call", "bestPrices", <<1, i>>>> : i \in 1..2}
    \cup {<<"call", "offers", <<i>>>> : i \in 1..2}
    \cup {<<"call", "prices", <<i>>>> : i \in 1..3}
    \cup {<<"call", "prices", <<i, j>>>> : i, j \in 1..2}
HomeBatches ==
  {<<"batch", "offers", <<>>>>, <<"batch", "prices", <<>>>>}
    \cup {<<"batch", "prices", <<i>>>> : i \in 1..2}

-----------------------------------------------------------------------------
(* The list query without its unregistered field, its shops no longer one: *)
(* the key of shop is a description, equal on the two items.               *)
DocNodes == ListNodes \ {"gone"}
DocCalls == {c \in ListCalls : c[2] \in DocNodes}
DocRoot == <<"items">>
DocParents == {Nil, p, q, z, z2}
DocPlans == {[n \in DocNodes |-> IF n = "items" THEN Parallel ELSE Serial]}
DocField == [n \in DocNodes |->
  IF n = "shop" THEN [ListField[n] EXCEPT !.cacheKey = "label"] ELSE ListField[n]]
DocAnswers == [n \in DocNodes |-> [x \in DocParents |->
  CASE n = "items" -> {<<p, q>>}
    [] n = "shop" -> IF x = p THEN {z} ELSE {z2}
    [] n = "name" -> IF x = z THEN {v1} ELSE {v2}
    [] n = "price" -> {v1}]]

-----------------------------------------------------------------------------
(* The shop query, where one of the lists batched is null.                 *)
NullAnswers == [n \in ShopNodes |-> [x \in ShopParents |->
  IF n = "offers" /\ x = q THEN {Nil} ELSE ShopAnswers[n][x]]]

-----------------------------------------------------------------------------
NodeOfCalls == [c \in Calls |-> c[2]]
ChildOfBatches == [b \in Batches |-> b[2]]
GroupOfBatches == [b \in Batches |-> <<"chunks", b>>]
MCCtxs ==
  {Request} \cup {GroupCtx(s, k) : s \in Scopes, k \in 1..2} \cup {<<"chunks", b>> : b \in Batches}
MCRequest == {Request}

ASSUME SoundSchema == OnlyResolversFail
=============================================================================
