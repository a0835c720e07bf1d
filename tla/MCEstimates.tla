----------------------------- MODULE MCEstimates -----------------------------
(***************************************************************************)
(* A list of objects bounded by default and one of scalars bounded by an   *)
(* argument and cacheable, of which short, long and no items are observed, *)
(* and an object.                                                          *)
(***************************************************************************)
EXTENDS Estimates, Sequences

(* int(1000 * log(1 + n) / log(101)) for n in 0..36                        *)
Logarithms ==
  <<0, 150, 238, 300, 348, 388, 421, 450, 476, 498, 519, 538, 555, 571, 586, 600, 613, 626, 637,
    649, 659, 669, 679, 688, 697, 705, 714, 722, 729, 736, 744, 750, 757, 764, 770, 776, 782>>

MCSampleConfidence == [n \in 0..MaxCalls |-> Logarithms[n + 1]]

List(scalars, bound, given, cacheable, lens) ==
  [isList |-> TRUE, isScalar |-> scalars, bound |-> bound, boundGiven |-> given,
   cacheable |-> cacheable, costWeight |-> 3,
   observations |-> {[len |-> n, latency |-> 2 + 9 * n, width |-> 64 * n] : n \in lens \ {0}}
                      \cup {[len |-> 0, latency |-> 0] : n \in lens \cap {0}}]

Object ==
  [isList |-> FALSE, isScalar |-> FALSE, bound |-> 1, boundGiven |-> FALSE, cacheable |-> TRUE,
   costWeight |-> 2,
   observations |-> {[latency |-> 2, width |-> 64], [latency |-> 90, width |-> 512], [latency |-> 2]}]

MCCases ==
  {List(FALSE, 10, FALSE, FALSE, {3, 4, 12}), List(TRUE, 20, TRUE, TRUE, {0, 3, 12}), Object}
=============================================================================
