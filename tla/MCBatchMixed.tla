---------------------------- MODULE MCBatchMixed ----------------------------
(***************************************************************************)
(* A batch of a cached list field and a call of the same field, which may  *)
(* find each other's entries, beside a batch of a field that is not        *)
(* cached, cut into chunks of two and one, whose resolver may return a     *)
(* wrong number of results.                                                *)
(***************************************************************************)
EXTENDS BatchResolve

CONSTANTS b1, b2, c, p, q, v, w, g1, g2

MCNodes == {"offers", "prices"}
MCParents == {Nil, p, q}
MCSlices == {<<v>>, <<v, w>>}
MCValues == {Nil} \cup MCSlices
MCErrorValues == {Nil, <<v>>}

MCField ==
  [n \in MCNodes |->
     [resolver |-> n, args |-> "-", shape |-> "-", isList |-> TRUE,
      cacheable |-> n = "offers", cacheKey |-> "", batchKey |-> "itemId"]]

MCStrategy ==
  [n \in MCNodes |-> [useCache |-> TRUE, batchSize |-> 2, maxConcurrentBatches |-> 1]]

MCAttr == [x \in {p, q} |-> IF x = p THEN [itemId |-> "i1"] ELSE [itemId |-> "i2"]]

MCNodeOf == [x \in {c} |-> "offers"]
MCChildOf == [b \in {b1, b2} |-> IF b = b1 THEN "offers" ELSE "prices"]
MCGroupOf == [b \in {b1, b2} |-> IF b = b1 THEN g1 ELSE g2]
MCItemLists == {<<>>, <<p, q, q>>}

MCAnswers == [n \in MCNodes |-> [x \in MCParents |->
  CASE x = p -> {<<v>>} [] x = q -> {<<v, w>>} [] x = Nil -> {Nil}]]

ASSUME SoundKeys == KeysTellAnswers
=============================================================================
