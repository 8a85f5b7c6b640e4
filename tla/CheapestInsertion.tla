-------------------------- MODULE CheapestInsertion --------------------------
(***************************************************************************)
(* cheapest_insertion_tour and build_cheapest_insertion_seed of            *)
(* src/src/algorithms/local_search.cpp, one step per round of the inner    *)
(* loops.  The tour starts as the cheapest two-node cycle through the      *)
(* start node; then, round after round, the free node whose insertion      *)
(* costs least is inserted where it costs least.                           *)
(*                                                                         *)
(* best_position counts positions of the code's vector: inserting at       *)
(* best_position puts the node before the element that is there.           *)
(***************************************************************************)
EXTENDS Tsp, SequencesExt

CONSTANTS
  Problems,     \* the problems to solve
  StartNodes    \* the start nodes asked for

ASSUME ProblemsAssumption   == \A problem \in Problems : IsProblem(problem)
ASSUME StartNodesAssumption == StartNodes \subseteq Nat
(* Every cost but the least has its negation among the costs. *)
ASSUME NegationAssumption   == CostMin <= -CostMax

VARIABLES
  problem, start_node,        \* the arguments, fixed by Init
  order, visited,             \* the tour built so far and its nodes
  candidate, position,        \* loop variables
  best_node, best_position,   \* the best choice of the round so far
  best_cost, found,
  total_cost,                 \* cost of the finished tour
  pc                          \* "second", "insert" or "done"

vars == <<problem, start_node, order, visited, candidate, position, best_node,
          best_position, best_cost, found, total_cost, pc>>

inputs == <<problem, start_node>>

First == NormalizeStartNode(problem, start_node)

(* A tour of no node or of one needs no second node. *)
Init ==
  /\ problem \in Problems
  /\ start_node \in StartNodes
  /\ order = IF problem.size = 0 THEN <<>> ELSE <<First>>
  /\ visited = IF problem.size = 0 THEN {} ELSE {First}
  /\ candidate = 0
  /\ position = 0
  /\ best_node = First
  /\ best_position = 0
  /\ best_cost = CostMax
  /\ found = FALSE
  /\ total_cost = 0
  /\ pc = IF problem.size > 1 THEN "second" ELSE "insert"

Building == pc # "done" /\ Len(order) < problem.size

SkipVisited ==
  /\ Building
  /\ candidate \in visited
  /\ candidate' = candidate + 1
  /\ UNCHANGED <<inputs, order, visited, position, best_node, best_position,
                 best_cost, found, total_cost, pc>>

(***************************************************************************)
(* The cheapest cycle of two nodes.  The search starts from second = first *)
(* and the largest cost, and nothing checks that it found a node.          *)
(***************************************************************************)
CycleCost(node) ==
  Wrap(Distance(problem, First, node) + Distance(problem, node, First))

ConsiderSecond ==
  /\ Building
  /\ pc = "second"
  /\ candidate \in Nodes(problem) \ visited
  /\ LET cycle_cost == CycleCost(candidate) IN
       IF \/ cycle_cost < best_cost
          \/ cycle_cost = best_cost /\ candidate < best_node
       THEN best_cost' = cycle_cost /\ best_node' = candidate
       ELSE UNCHANGED <<best_cost, best_node>>
  /\ candidate' = candidate + 1
  /\ UNCHANGED <<inputs, order, visited, position, best_position, found,
                 total_cost, pc>>

(* The loop variables and the best choice as each round begins. *)
BeginRound ==
  /\ candidate' = 0
  /\ position' = 0
  /\ best_node' = 0
  /\ best_position' = 0
  /\ best_cost' = CostMax
  /\ found' = FALSE

(* Mutant: the second node is not marked as visited. *)
AppendSecondUnmarked ==
  /\ pc = "second"
  /\ candidate = problem.size
  /\ order' = Append(order, best_node)
  /\ pc' = "insert"
  /\ BeginRound
  /\ UNCHANGED <<inputs, visited, total_cost>>

AppendSecond ==
  /\ pc = "second"
  /\ candidate = problem.size
  /\ order' = Append(order, best_node)
  /\ visited' = visited \cup {best_node}
  /\ pc' = "insert"
  /\ BeginRound
  /\ UNCHANGED <<inputs, total_cost>>

(***************************************************************************)
(* The insertions.                                                         *)
(***************************************************************************)
(* Mutant: the edge the insertion removes is not subtracted. *)
DeltaKeepingEdge(node, place) ==
  Wrap(Distance(problem, order[place + 1], node)
         + Distance(problem, node, order[After(order, place + 1)]))

Delta(node, place) ==
  LET from == order[place + 1]
      target_node == order[After(order, place + 1)]
  IN  Wrap(Distance(problem, from, node) + Distance(problem, node, target_node)
             - Distance(problem, from, target_node))

IsBetter(delta) ==
  \/ ~found
  \/ delta < best_cost
  \/ delta = best_cost /\ candidate < best_node
  \/ delta = best_cost /\ candidate = best_node /\ position < best_position

ConsiderInsertion ==
  /\ Building
  /\ pc = "insert"
  /\ candidate \in Nodes(problem) \ visited
  /\ LET delta == Delta(candidate, position) IN
       IF IsBetter(delta)
       THEN /\ best_cost' = delta
            /\ best_node' = candidate
            /\ best_position' = position + 1
            /\ found' = TRUE
       ELSE UNCHANGED <<best_cost, best_node, best_position, found>>
  /\ IF position + 1 < Len(order)
     THEN position' = position + 1 /\ UNCHANGED candidate
     ELSE position' = 0 /\ candidate' = candidate + 1
  /\ UNCHANGED <<inputs, order, visited, total_cost, pc>>

(* Mutant: the node goes before the place instead of after it. *)
InsertBefore ==
  /\ Building
  /\ pc = "insert"
  /\ candidate = problem.size
  /\ order' = InsertAt(order, best_position, best_node)
  /\ visited' = visited \cup {best_node}
  /\ BeginRound
  /\ UNCHANGED <<inputs, total_cost, pc>>

Insert ==
  /\ Building
  /\ pc = "insert"
  /\ candidate = problem.size
  /\ order' = InsertAt(order, best_position + 1, best_node)
  /\ visited' = visited \cup {best_node}
  /\ BeginRound
  /\ UNCHANGED <<inputs, total_cost, pc>>

Finish ==
  /\ pc = "insert"
  /\ Len(order) = problem.size
  /\ total_cost' = RouteCost(problem, order)
  /\ pc' = "done"
  /\ UNCHANGED <<inputs, order, visited, candidate, position, best_node,
                 best_position, best_cost, found>>

Next ==
  \/ SkipVisited
  \/ ConsiderSecond
  \/ AppendSecond
  \/ ConsiderInsertion
  \/ Insert
  \/ Finish

(* The function is straight-line code of one thread: it keeps running. *)
Spec == Init /\ [][Next]_vars /\ WF_vars(Next)

(***************************************************************************)
(* Properties.                                                             *)
(***************************************************************************)

(* The loops index the tour and the matrix inside their bounds, and a node *)
(* is never inserted at the front: the start keeps its place.              *)
TypeOK ==
  /\ order \in Seq(Nodes(problem))
  /\ Len(order) <= problem.size
  /\ visited \subseteq Nodes(problem)
  /\ candidate \in 0 .. problem.size
  /\ position \in 0 .. problem.size
  /\ Len(order) > 0 => position < Len(order)
  /\ best_node \in {0} \cup Nodes(problem)
  /\ best_position \in 0 .. Len(order)
  /\ best_cost \in Costs
  /\ found \in BOOLEAN
  /\ pc \in {"second", "insert", "done"}
  /\ problem.size > 0 => order[1] = First

(* A node the search for the second one can take: its cycle with the first *)
(* is cheaper than the sentinel the search starts from, or equal with a    *)
(* lower id.                                                               *)
HasSecond ==
  \E node \in Nodes(problem) \ {First} :
    \/ CycleCost(node) < CostMax
    \/ CycleCost(node) = CostMax /\ node < First

(* The tour is a permutation of the nodes from the start node if there is  *)
(* a second node to take; if not, the start node is there twice, in the    *)
(* place of one other node.                                                *)
RouteIfHasSecond ==
  pc = "done" =>
    IF problem.size > 1 => HasSecond
    THEN IsRouteFrom(problem, First, order)
    ELSE /\ \A p, q \in DOMAIN order : p # q /\ order[p] = order[q] => order[p] = First
         /\ Cardinality({order[p] : p \in DOMAIN order}) = problem.size - 1

(* Costs small enough for every sum of the round to be exact. *)
SmallDistances ==
  LET bound == CostMax \div (problem.size + 3) IN
  \A from, to \in Nodes(problem) : Distance(problem, from, to) \in -bound .. bound

(* All the tours one insertion away, and which of two the code prefers:    *)
(* the cheaper one, then the lower node, then the earlier place.           *)
Insertions ==
  (Nodes(problem) \ visited) \X (2 .. Len(order) + 1)

Prefers(a, b) ==
  LET CostOf(m) == RouteCost(problem, InsertAt(order, m[2], m[1])) IN
  \/ CostOf(a) < CostOf(b)
  \/ CostOf(a) = CostOf(b) /\ a[1] < b[1]
  \/ CostOf(a) = CostOf(b) /\ a[1] = b[1] /\ a[2] <= b[2]

(* The two-node cycle the tour starts as is the cheapest one through the   *)
(* start; and, for distances so small that no sum of a round overflows     *)
(* (SmallDistances), each round inserts the node and at the place that     *)
(* make the whole tour cheapest, although the code only compares local     *)
(* differences.                                                            *)
InsertsCheapest ==
  /\ [][pc = "second" /\ order' # order /\ HasSecond =>
          \A node \in Nodes(problem) \ {First} :
            \/ CycleCost(order'[2]) < CycleCost(node)
            \/ CycleCost(order'[2]) = CycleCost(node) /\ order'[2] <= node]_vars
  /\ [][pc = "insert" /\ order' # order /\ SmallDistances =>
          \E chosen \in Insertions :
            /\ order' = InsertAt(order, chosen[2], chosen[1])
            /\ \A other \in Insertions : Prefers(chosen, other)]_vars
=============================================================================
