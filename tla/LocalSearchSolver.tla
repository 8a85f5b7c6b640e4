-------------------------- MODULE LocalSearchSolver --------------------------
(***************************************************************************)
(* The two solvers of src/src/algorithms/local_search.cpp that refine a    *)
(* tour: TwoOptLocalSearch::solve, and iterated_local_search_tour, which   *)
(* goes on to perturb the best tour, refine the result and keep it when it *)
(* is cheaper, once per node.  They are composed of the nearest-neighbour  *)
(* construction and of the 2-opt refinement; the tour under construction   *)
(* and under refinement is the same vector, handed on.                     *)
(*                                                                         *)
(* Perturbation swaps two positions drawn from splitmix64; which two is    *)
(* left open, any two distinct ones but the first may come.                *)
(***************************************************************************)
EXTENDS Tsp

CONSTANTS
  Problems,     \* the problems to solve
  StartNodes    \* the start nodes asked for

ASSUME ProblemsAssumption   == \A problem \in Problems : IsProblem(problem)
ASSUME StartNodesAssumption == StartNodes \subseteq Nat

VARIABLES
  problem, start_node,    \* the arguments, fixed by Init
  method,                 \* "2OPT" or "ILS"
  phase,                  \* "seed", "refine_seed", "perturb",
                          \* "refine_candidate" or "done"
  order, total_cost,      \* the tour worked on and its cost
  visited, candidate, next, best_cost,  \* nearest-neighbour construction
  seed, i, k,             \* 2-opt refinement
  best,                   \* the tour kept: at most one [order, total_cost]
  iteration               \* perturbations done

inputs    == <<problem, start_node, method>>
building  == <<visited, candidate, next, best_cost>>
refining  == <<seed, i, k>>
outer     == <<phase, best, iteration>>
vars == <<inputs, building, refining, outer, order, total_cost>>

Construction == INSTANCE NearestNeighbor WITH pc <- "scan"
Refinement   == INSTANCE TwoOpt WITH pc <- "scan"

Start      == NormalizeStartNode(problem, start_node)
Iterations == IF problem.size > 1 THEN problem.size ELSE 1

Init ==
  /\ Construction!Init
  /\ method \in {"2OPT", "ILS"}
  /\ phase = "seed"
  /\ seed = <<>>
  /\ i = 1
  /\ k = 2
  /\ best = {}
  /\ iteration = 0

(* A problem of no node is answered at once with the empty tour. *)
ReturnEmpty ==
  /\ phase = "seed"
  /\ problem.size = 0
  /\ phase' = "done"
  /\ UNCHANGED <<inputs, building, refining, order, total_cost, best, iteration>>

(* build_nearest_neighbor_seed. *)
BuildSeed ==
  /\ phase = "seed"
  /\ \/ Construction!SkipVisited
     \/ Construction!Consider
     \/ Construction!AppendNext
  /\ UNCHANGED <<method, refining, outer>>

(* two_opt_refine is entered with a tour, moved in. *)
EnterRefinement(tour, next_phase) ==
  /\ seed' = tour
  /\ order' = tour
  /\ total_cost' = RouteCost(problem, tour)
  /\ i' = 1
  /\ k' = 2
  /\ phase' = next_phase
  /\ UNCHANGED <<inputs, building, best, iteration>>

RefineSeed ==
  /\ phase = "seed"
  /\ problem.size > 0
  /\ Len(order) = problem.size
  /\ EnterRefinement(order, "refine_seed")

Refine ==
  /\ phase \in {"refine_seed", "refine_candidate"}
  /\ Refinement!Improve \/ Refinement!Advance
  /\ UNCHANGED <<start_node, method, building, outer>>

Refined == ~Refinement!Scanning
RefinedTour == [order |-> order, total_cost |-> total_cost]

(* TwoOptLocalSearch returns the refined seed; the iterated search starts  *)
(* from it.                                                                *)
KeepSeed ==
  /\ phase = "refine_seed"
  /\ Refined
  /\ best' = {RefinedTour}
  /\ phase' = IF method = "ILS" THEN "perturb" ELSE "done"
  /\ UNCHANGED <<inputs, building, refining, order, total_cost, iteration>>

Swapped(tour, p, q) == [tour EXCEPT ![p] = tour[q], ![q] = tour[p]]

(* Mutant: the loop runs one iteration more. *)
PerturbOnceMore ==
  /\ phase = "perturb"
  /\ iteration <= Iterations
  /\ \E tour \in best : EnterRefinement(tour.order, "refine_candidate")

(* perturb_tour, which leaves a tour of up to three nodes as it is. *)
Perturb ==
  /\ phase = "perturb"
  /\ iteration < Iterations
  /\ \E tour \in best :
       IF problem.size <= 3
       THEN EnterRefinement(tour.order, "refine_candidate")
       ELSE \E p, q \in 2 .. problem.size :
              /\ p < q
              /\ EnterRefinement(Swapped(tour.order, p, q), "refine_candidate")

(* Mutant: a candidate of the same cost replaces the best tour. *)
BeatsOrTies == \A tour \in best : total_cost <= tour.total_cost

Beats == \A tour \in best : total_cost < tour.total_cost

(* Mutant: the candidate is compared before it is refined. *)
KeepCandidateUnrefined ==
  /\ phase = "refine_candidate"
  /\ best' = IF Beats THEN {RefinedTour} ELSE best
  /\ iteration' = iteration + 1
  /\ phase' = "perturb"
  /\ UNCHANGED <<inputs, building, refining, order, total_cost>>

KeepCandidate ==
  /\ phase = "refine_candidate"
  /\ Refined
  /\ best' = IF Beats THEN {RefinedTour} ELSE best
  /\ iteration' = iteration + 1
  /\ phase' = "perturb"
  /\ UNCHANGED <<inputs, building, refining, order, total_cost>>

Return ==
  /\ phase = "perturb"
  /\ iteration = Iterations
  /\ phase' = "done"
  /\ UNCHANGED <<inputs, building, refining, order, total_cost, best, iteration>>

Next ==
  \/ ReturnEmpty
  \/ BuildSeed
  \/ RefineSeed
  \/ Refine
  \/ KeepSeed
  \/ Perturb
  \/ KeepCandidate
  \/ Return

(* The functions are straight-line code of one thread: they keep running. *)
Spec == Init /\ [][Next]_vars /\ WF_vars(Next)

(***************************************************************************)
(* Properties.                                                             *)
(***************************************************************************)

(* One tour at most is kept, the perturbation count stays in its bound,    *)
(* and a kept tour has one entry per node.                                 *)
TypeOK ==
  /\ phase \in {"seed", "refine_seed", "perturb", "refine_candidate", "done"}
  /\ order \in Seq(Nodes(problem))
  /\ \A tour \in best :
       tour.order \in Seq(Nodes(problem)) /\ Len(tour.order) = problem.size
  /\ best # {} <=> phase \in {"perturb", "refine_candidate"}
                     \/ (phase = "done" /\ problem.size > 0)
  /\ iteration \in 0 .. Iterations

(* The tour returned is a local optimum of the 2-opt neighbourhood, for    *)
(* the iterated search too: a perturbed tour is never returned unrefined.  *)
ResultLocallyOptimal ==
  phase = "done" =>
    \A tour \in best : \A first, last \in 1 .. problem.size - 1 :
      first < last =>
        ~(RouteCost(problem, Refinement!Reversed(tour.order, first, last))
            < tour.total_cost)

(* What the solver holds: the tour being refined until one is kept. *)
Incumbent ==
  CASE phase = "seed"        -> {}
    [] phase = "refine_seed" -> {RefinedTour}
    [] OTHER                 -> best

Search == INSTANCE MonotoneSearch
            WITH start <- Start, incumbent <- Incumbent, finished <- phase = "done"

(* Through construction, refinement and every perturbation, the solver     *)
(* holds a route from the start node with its true cost, gives it up only  *)
(* for a strictly cheaper one, and stops.                                  *)
ImplementsSearch == Search!Spec
=============================================================================
