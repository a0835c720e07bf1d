---------------------------- MODULE MCPlanSearch ----------------------------
(***************************************************************************)
(* The plan of { home { feed { offers { price } tags more: tags } me } now *)
(* }: a list and two lists of scalars below a list, below an object.  The  *)
(* lists are short or long, well or badly known, cheap or slow, so that    *)
(* serial, parallel and batched strategies win in turn and the budgets     *)
(* bite.  Widths are in units of 32 bytes; the memory limit is scaled down *)
(* to the lists of the instance.                                           *)
(***************************************************************************)
EXTENDS PlanSearch

MCPostorder == <<"price", "offers", "tags", "more", "feed", "me", "home", "now">>

MCChildren == [n \in Nodes |->
  CASE n = "home" -> <<"feed", "me">>
    [] n = "feed" -> <<"offers", "tags", "more">>
    [] n = "offers" -> <<"price">>
    [] OTHER -> <<>>]

MCParentOf == [n \in Nodes |->
  CASE n = "price" -> "offers" [] n \in {"offers", "tags", "more"} -> "feed"
    [] n \in {"feed", "me"} -> "home" [] OTHER -> "root"]

MCLists == {"feed", "offers", "tags", "more"}
MCBatchSizes == [n \in {"offers", "tags", "more"} |-> IF n = "offers" THEN 4 ELSE 12]

(* estimateLocalCost: CPU, a share per row, and what is unknown.           *)
Risk(conf) == CASE conf >= 85 -> 10 [] conf \in 55..84 -> 40 [] conf \in 30..54 -> 125 [] OTHER -> 300

Ann(width, rows, startup, cpu, conf, bounded) ==
  [rows |-> rows, startup |-> startup, self |-> cpu + 50 * rows + Risk(conf), width |-> width,
   rowConf |-> conf, latConf |-> conf, bounded |-> bounded]

Field(width, latConf) == [Ann(width, 1, 100, 100, 100, FALSE) EXCEPT !.latConf = latConf]

FeedAnns == {Ann(4, rows, 100, cpu, conf, bounded) :
  rows \in {1, 6, 16}, cpu \in {50, 2000}, conf \in {25, 40, 80}, bounded \in BOOLEAN}
OfferAnns == {Ann(4, rows, startup, 100, conf, FALSE) :
  rows \in {1, 2, 20}, startup \in {100, 1000}, conf \in {25, 60, 80}}
TagAnns == {Ann(1, rows, startup, 100, 60, FALSE) : rows \in {1, 6}, startup \in {100, 1000}}

MCAnnotations ==
  {[n \in Nodes |->
      CASE n = "feed" -> feed [] n = "offers" -> offers [] n \in {"tags", "more"} -> tags
        [] n = "home" -> Field(3, 100) [] n = "price" -> Field(1, price) [] OTHER -> Field(1, 100)]
     : feed \in FeedAnns, offers \in OfferAnns, tags \in TagAnns, price \in {40, 100}}

MCSearchConfig ==
  [maxInflight |-> 32, maxMemory |-> 400, maxDescendantConcurrency |-> 4, keepTopK |-> 3]
=============================================================================
