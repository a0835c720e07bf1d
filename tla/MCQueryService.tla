--------------------------- MODULE MCQueryService ---------------------------
(***************************************************************************)
(* Two requests for one query, { items { shop } again: items { shop } },   *)
(* at the same time: the two lists share a statistics key, and so do their *)
(* shops where the parent rows fall into one bucket.                       *)
(***************************************************************************)
EXTENDS QueryService

CONSTANTS r1, r2

MCRequests == {r1, r2}
MCPreorder == <<"items", "shop", "again", "shopAgain">>
MCParentOf ==
  [n \in Nodes |-> CASE n = "shop" -> "items" [] n = "shopAgain" -> "again" [] OTHER -> "root"]
MCFieldOf == [n \in Nodes |-> IF n \in {"items", "again"} THEN "Query.items" ELSE "Item.shop"]
MCFields == {"Query.items", "Item.shop"}
MCLists == {"items", "again"}
MCBound == [n \in MCLists |-> 3]
MCRowCounts == {1, 3}

(* A list of 0, 1 or 7 items; the request's cache may answer the second    *)
(* list and its shops from the first.                                      *)
Count(calls, physical, rows) == [calls |-> calls, physical |-> physical, rows |-> rows]
Run(rows, again) ==
  [n \in Nodes |->
     CASE n = "items" -> Count(1, 1, rows)
       [] n = "shop" -> Count(rows, rows, rows)
       [] n = "again" -> Count(1, IF again THEN 1 ELSE 0, rows)
       [] n = "shopAgain" -> Count(rows, IF again THEN rows ELSE 0, rows)]
MCExecutions == {Run(rows, again) : rows \in {0, 1, 7}, again \in BOOLEAN}
=============================================================================
