---------------------------- MODULE MonotoneSearch ----------------------------
(***************************************************************************)
(* What a heuristic solver of the repository promises: it finds a tour     *)
(* that starts at its start node, replaces it only by strictly cheaper     *)
(* ones, always knows what its tour costs, and stops.                      *)
(***************************************************************************)
EXTENDS Tsp

VARIABLES
  problem, start,     \* what to solve and where the tour begins
  incumbent,          \* the tour held: at most one [order, total_cost]
  finished

vars == <<problem, start, incumbent, finished>>

Tour(route) == [order |-> route, total_cost |-> RouteCost(problem, route)]

Init ==
  /\ incumbent = {}
  /\ finished = FALSE

(* A problem of no node has nothing to find. *)
Find ==
  /\ incumbent = {}
  /\ problem.size > 0
  /\ \E route \in RoutesFrom(problem, start) : incumbent' = {Tour(route)}
  /\ UNCHANGED <<problem, start, finished>>

Improve ==
  /\ ~finished
  /\ \E tour \in incumbent, route \in RoutesFrom(problem, start) :
       /\ RouteCost(problem, route) < tour.total_cost
       /\ incumbent' = {Tour(route)}
  /\ UNCHANGED <<problem, start, finished>>

Finish ==
  /\ ~finished
  /\ problem.size > 0 => incumbent # {}
  /\ finished' = TRUE
  /\ UNCHANGED <<problem, start, incumbent>>

Next == Find \/ Improve \/ Finish

Spec == Init /\ [][Next]_vars /\ WF_vars(Next)
=============================================================================
