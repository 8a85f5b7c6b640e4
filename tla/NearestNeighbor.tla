--------------------------- MODULE NearestNeighbor ---------------------------
(***************************************************************************)
(* nearest_neighbor_tour and build_nearest_neighbor_seed of                *)
(* src/src/algorithms/local_search.cpp, one step per round of the inner    *)
(* loop.  The tour starts at the normalised start node and is extended by  *)
(* the nearest node not yet visited, the lowest id among equals.  The      *)
(* search for that node starts from next = 0 and the largest cost, and     *)
(* nothing checks afterwards that a node was found.                        *)
(***************************************************************************)
EXTENDS Tsp

CONSTANTS
  Problems,     \* the problems to solve
  StartNodes    \* the start nodes asked for

ASSUME ProblemsAssumption   == \A problem \in Problems : IsProblem(problem)
ASSUME StartNodesAssumption == StartNodes \subseteq Nat

VARIABLES
  problem, start_node,    \* the arguments, fixed by Init
  order,                  \* the tour built so far
  visited,                \* the nodes whose flag is set
  candidate,              \* loop variable of the inner loop
  next, best_cost,        \* the best node of the inner loop so far
  total_cost,             \* cost of the finished tour
  pc                      \* "scan" or "done"

vars == <<problem, start_node, order, visited, candidate, next, best_cost,
          total_cost, pc>>

(* Mutant: the start node is taken as it is. *)
StartUnnormalized == start_node

Start   == NormalizeStartNode(problem, start_node)
Current == order[Len(order)]

Init ==
  /\ problem \in Problems
  /\ start_node \in StartNodes
  /\ order = IF problem.size = 0 THEN <<>> ELSE <<Start>>
  /\ visited = IF problem.size = 0 THEN {} ELSE {Start}
  /\ candidate = 0
  /\ next = 0
  /\ best_cost = CostMax
  /\ total_cost = 0
  /\ pc = "scan"

Building == pc = "scan" /\ Len(order) < problem.size

SkipVisited ==
  /\ Building
  /\ candidate \in visited
  /\ candidate' = candidate + 1
  /\ UNCHANGED <<problem, start_node, order, visited, next, best_cost,
                 total_cost, pc>>

(* Mutant: the last of several equally near nodes is taken. *)
IsNearerOrEqual(node, cost) == cost <= best_cost

IsNearer(node, cost) ==
  cost < best_cost \/ (cost = best_cost /\ node < next)

Consider ==
  /\ Building
  /\ candidate \in Nodes(problem) \ visited
  /\ LET edge_cost == Distance(problem, Current, candidate) IN
       IF IsNearer(candidate, edge_cost)
       THEN best_cost' = edge_cost /\ next' = candidate
       ELSE UNCHANGED <<best_cost, next>>
  /\ candidate' = candidate + 1
  /\ UNCHANGED <<problem, start_node, order, visited, total_cost, pc>>

(* Mutant: the appended node is not marked as visited. *)
AppendNextUnmarked ==
  /\ Building
  /\ candidate = problem.size
  /\ order' = Append(order, next)
  /\ candidate' = 0
  /\ next' = 0
  /\ best_cost' = CostMax
  /\ UNCHANGED <<problem, start_node, visited, total_cost, pc>>

(* Mutant: next keeps its value from round to round. *)
AppendNextKeepsNext ==
  /\ Building
  /\ candidate = problem.size
  /\ order' = Append(order, next)
  /\ visited' = visited \cup {next}
  /\ candidate' = 0
  /\ best_cost' = CostMax
  /\ UNCHANGED <<problem, start_node, next, total_cost, pc>>

AppendNext ==
  /\ Building
  /\ candidate = problem.size
  /\ order' = Append(order, next)
  /\ visited' = visited \cup {next}
  /\ candidate' = 0
  /\ next' = 0
  /\ best_cost' = CostMax
  /\ UNCHANGED <<problem, start_node, total_cost, pc>>

Finish ==
  /\ pc = "scan"
  /\ Len(order) = problem.size
  /\ total_cost' = RouteCost(problem, order)
  /\ pc' = "done"
  /\ UNCHANGED <<problem, start_node, order, visited, candidate, next,
                 best_cost>>

Next == SkipVisited \/ Consider \/ AppendNext \/ Finish

(* The function is straight-line code of one thread: it keeps running. *)
Spec == Init /\ [][Next]_vars /\ WF_vars(Next)

(***************************************************************************)
(* Properties.                                                             *)
(***************************************************************************)

(* The scan stays inside the matrix: candidate and next are nodes, or the  *)
(* loop bound, and the order never grows past the size of the problem.     *)
TypeOK ==
  /\ order \in Seq(Nodes(problem))
  /\ Len(order) <= problem.size
  /\ visited \subseteq Nodes(problem)
  /\ candidate \in 0 .. problem.size
  /\ next \in {0} \cup Nodes(problem)
  /\ best_cost \in Costs
  /\ pc \in {"scan", "done"}

(* The tour is a permutation of the nodes, starting where it was asked to, *)
(* on every problem none of whose distances is the sentinel the scan       *)
(* starts from.                                                            *)
RouteUnlessSentinel ==
  pc = "done" /\ ~HasSentinelDistance(problem) =>
    IsRouteFrom(problem, Start, order)

(* On any problem, the only node a finished tour can visit twice is 0, the *)
(* value `next` has when the scan finds nothing.                           *)
OnlyNodeZeroRepeats ==
  \A p, q \in DOMAIN order : p # q /\ order[p] = order[q] => order[p] = 0

(* Every hop of the tour was the greedy one: no node that was still free   *)
(* was nearer to the previous node, and none as near had a lower id.       *)
EveryHopIsNearest ==
  \A p \in 2 .. Len(order) :
    LET from == order[p - 1]
        free == Nodes(problem) \ {order[q] : q \in 1 .. p - 1}
        chosen == Distance(problem, from, order[p])
    IN  \A node \in free :
          LET other == Distance(problem, from, node) IN
          other < CostMax =>
            /\ order[p] \in free
            /\ chosen < other \/ (chosen = other /\ order[p] <= node)

(* The claim of the design document, for every complete model: the tour    *)
(* handed back is a permutation of the node ids.                           *)
TourIsPermutation == pc = "done" => IsRoute(problem, order)
=============================================================================
