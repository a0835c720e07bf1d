--------------------------- MODULE MCBatchResolve ---------------------------
(***************************************************************************)
(* Two batches of one cached list field, with overlapping items given in   *)
(* opposite orders and an item that occurs twice, so that each batch may   *)
(* own what the other waits for.  Chunks of one owner, two of them at      *)
(* once, and a gate of one token.                                          *)
(***************************************************************************)
EXTENDS BatchResolve

CONSTANTS b1, b2, p, q, v, w, g, g1, g2

MCNodes == {"offers"}
MCParents == {Nil, p, q}
MCValues == {Nil, <<v>>, <<v, w>>}
MCSlices == {<<v>>, <<v, w>>}

MCField ==
  [n \in MCNodes |->
     [resolver |-> "Item.offers", args |-> "-", shape |-> "-", isList |-> TRUE,
      cacheable |-> TRUE, cacheKey |-> "", batchKey |-> "itemId"]]

MCStrategy ==
  [n \in MCNodes |-> [useCache |-> TRUE, batchSize |-> 1, maxConcurrentBatches |-> 2]]

MCAttr == [x \in {p, q} |-> IF x = p THEN [itemId |-> "i1"] ELSE [itemId |-> "i2"]]

MCNoCalls == [c \in {} |-> "offers"]
MCChildOf == [b \in {b1, b2} |-> "offers"]
MCGroupOf == [b \in {b1, b2} |-> IF b = b1 THEN g1 ELSE g2]
MCItemLists == {<<p, q>>, <<q, p, q>>}

MCAnswers == [n \in MCNodes |-> [x \in MCParents |->
  CASE x = p -> {<<v>>} [] x = q -> {<<v, w>>} [] x = Nil -> {Nil}]]

ASSUME SoundKeys == KeysTellAnswers
=============================================================================
