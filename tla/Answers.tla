------------------------------- MODULE Answers -------------------------------
(***************************************************************************)
(* What each algorithm of the repository may answer a problem with, as its *)
(* caller sees it: the tours that nearest_neighbor_tour,                   *)
(* TwoOptLocalSearch::solve and iterated_local_search_tour (the scans),    *)
(* cheapest_insertion_tour and held_karp_tour can return.  The modules of  *)
(* the algorithms are proved to keep to these sets.                        *)
(***************************************************************************)
EXTENDS Tsp

(* An entry per node, the start first.  Node 0 is what the greedy loops    *)
(* hold before they have found a node: it alone may be there twice.        *)
OnlyZeroTwice(tour) ==
  \A p, q \in DOMAIN tour : p # q /\ tour[p] = tour[q] => tour[p] = 0

ToursFrom(problem, start) ==
  {tour \in [1 .. problem.size -> Nodes(problem)] :
     (problem.size > 0 => tour[1] = start) /\ OnlyZeroTwice(tour)}

(* The scans look for the nearest node from the largest cost downwards: a  *)
(* distance as large as that may be taken for no node at all.              *)
ScanAnswers(problem, start) ==
  {tour \in ToursFrom(problem, start) :
     HasSentinelDistance(problem) \/ IsRoute(problem, tour)}

(* Cheapest insertion from node 0 takes node 0 for its second node if      *)
(* every cycle of two nodes through it costs as much as the value from     *)
(* which the cheapest is looked for.                                       *)
LacksSecond(problem, start) ==
  /\ problem.size > 1 /\ start = 0
  /\ \A node \in Nodes(problem) \ {start} :
       Wrap(Distance(problem, start, node) + Distance(problem, node, start)) = CostMax

InsertionAnswers(problem, start) ==
  {tour \in ToursFrom(problem, start) :
     LacksSecond(problem, start) \/ IsRoute(problem, tour)}

IsOptimal(problem, route) ==
  \A other \in Routes(problem) : RouteCost(problem, route) <= RouteCost(problem, other)

(* No sum of distances that Held-Karp forms reaches its kInf. *)
HasSmallDistances(problem) ==
  \A from, to \in Nodes(problem) :
    LET distance == Distance(problem, from, to)
        kInf == CostMax \div 4
    IN  distance * problem.size < kInf /\ -distance * problem.size < kInf

ExactAnswers(problem, start) ==
  {route \in RoutesFrom(problem, start) :
     HasSmallDistances(problem) => IsOptimal(problem, route)}
=============================================================================
