--------------------------------- MODULE Tsp ---------------------------------
(***************************************************************************)
(* The data every solver of the repository shares: a Problem, a tour as an *)
(* order of nodes, and what the tour costs in the 64-bit integer Cost.     *)
(*                                                                         *)
(* A problem is [size, distances], distances being a square matrix indexed *)
(* from 0 as in the code.  An order is a sequence: position p of a         *)
(* std::vector<NodeId> is position p + 1 here.                             *)
(*                                                                         *)
(* Cost is a signed integer of finite width, CostMin .. CostMax.  The code *)
(* adds costs without checking, and a signed sum that overflows is         *)
(* undefined; the builds of the repository wrap around in two's complement *)
(* and so does Wrap.                                                       *)
(***************************************************************************)
EXTENDS Integers, Sequences, FiniteSets

CONSTANTS
  CostMin,      \* std::numeric_limits<Cost>::min()
  CostMax       \* std::numeric_limits<Cost>::max()

ASSUME CostRangeAssumption ==
  CostMin \in Int /\ CostMax \in Int /\ CostMin < 0 /\ 0 < CostMax

Costs == CostMin .. CostMax

Wrap(sum) == ((sum - CostMin) % (CostMax - CostMin + 1)) + CostMin

Nodes(problem) == 0 .. problem.size - 1

Distance(problem, from, to) == problem.distances[from][to]

(* The start node is taken modulo the size; a problem of no nodes has 0. *)
NormalizeStartNode(problem, start_node) ==
  IF problem.size = 0 THEN 0 ELSE start_node % problem.size

(* The position after `position` when the tour is walked as a cycle. *)
After(order, position) == (position % Len(order)) + 1

(* Mutant: the edge back to the first node is forgotten. *)
RouteCostOpen(problem, order) ==
  LET total[p \in 0 .. Len(order)] ==
        IF p \in {0, Len(order)}
        THEN IF p = 0 THEN 0 ELSE total[p - 1]
        ELSE Wrap(total[p - 1] + Distance(problem, order[p], order[p + 1]))
  IN  total[Len(order)]

(* route_cost: the total after position p of the tour, each sum wrapping. *)
RouteCost(problem, order) ==
  LET total[p \in 0 .. Len(order)] ==
        IF p = 0
        THEN 0
        ELSE Wrap(total[p - 1] + Distance(problem, order[p], order[After(order, p)]))
  IN  total[Len(order)]

(***************************************************************************)
(* The tours of a problem: every node once.                                *)
(***************************************************************************)
IsRoute(problem, order) ==
  /\ order \in [1 .. problem.size -> Nodes(problem)]
  /\ \A p, q \in 1 .. problem.size : order[p] = order[q] => p = q

IsRouteFrom(problem, start, order) ==
  /\ IsRoute(problem, order)
  /\ problem.size > 0 => order[1] = start

Routes(problem) ==
  {order \in [1 .. problem.size -> Nodes(problem)] :
     \A p, q \in 1 .. problem.size : order[p] = order[q] => p = q}

RoutesFrom(problem, start) ==
  {order \in Routes(problem) : problem.size > 0 => order[1] = start}

(* What every problem handed to a solver looks like: to_problem copies a   *)
(* complete model, whose diagonal is zero.                                 *)
IsProblem(problem) ==
  /\ problem.size \in Nat
  /\ problem.distances \in [Nodes(problem) -> [Nodes(problem) -> Costs]]
  /\ \A node \in Nodes(problem) : Distance(problem, node, node) = 0

(* Some distance between two nodes is the largest value a Cost can have,   *)
(* the value the greedy loops start their minimum from.                    *)
HasSentinelDistance(problem) ==
  \E from, to \in Nodes(problem) :
    from # to /\ Distance(problem, from, to) = CostMax
=============================================================================
