------------------------------- MODULE TwoOpt -------------------------------
(***************************************************************************)
(* two_opt_refine of src/src/algorithms/local_search.cpp, one step per     *)
(* pair (i, k) it tries.  The pairs are tried in order; the first reversal *)
(* of the stretch i .. k that makes the tour cheaper is taken and the scan *)
(* starts again; a scan that finds none ends the search.  Position 0 never *)
(* moves.  i and k are positions of the code, from 0.                      *)
(***************************************************************************)
EXTENDS Tsp

CONSTANT Problems     \* the problems whose tours are refined

ASSUME ProblemsAssumption == \A problem \in Problems : IsProblem(problem)

VARIABLES
  problem, seed,          \* the arguments, fixed by Init
  order, total_cost,      \* the tour `best`
  i, k,                   \* the pair tried next
  pc                      \* "scan" or "done"

vars == <<problem, seed, order, total_cost, i, k, pc>>

(* Mutant: the exchange of the two ends loses the write to the last one. *)
ReversedOneWay(tour, first, last) ==
  [tour EXCEPT ![first + 1] = tour[last + 1]]

(* std::reverse on positions first .. last of the code. *)
Reversed(tour, first, last) ==
  [position \in DOMAIN tour |->
     IF first + 1 <= position /\ position <= last + 1
     THEN tour[first + last + 2 - position]
     ELSE tour[position]]

(* The seed is a route here.  A distance of CostMax can make the callers   *)
(* hand over a tour that is none: LocalSearchSolver refines those too.     *)
Init ==
  /\ problem \in Problems
  /\ seed \in Routes(problem)
  /\ order = seed
  /\ total_cost = RouteCost(problem, seed)
  /\ i = 1
  /\ k = 2
  /\ pc = "scan"

Candidate     == Reversed(order, i, k)
CandidateCost == RouteCost(problem, Candidate)

Scanning == pc = "scan" /\ i + 1 < Len(order)

(* Mutant: the cost of the better tour is not kept. *)
ImproveKeepsCost ==
  /\ Scanning
  /\ CandidateCost < total_cost
  /\ order' = Candidate
  /\ i' = 1
  /\ k' = 2
  /\ UNCHANGED <<problem, seed, total_cost, pc>>

(* Mutant: the scan goes on where it was instead of starting again. *)
ImproveWithoutRestart ==
  /\ Scanning
  /\ CandidateCost < total_cost
  /\ order' = Candidate
  /\ total_cost' = CandidateCost
  /\ UNCHANGED <<problem, seed, i, k, pc>>

(* Mutant: a tour of the same cost is taken as well. *)
ImproveOnTie ==
  /\ Scanning
  /\ CandidateCost <= total_cost
  /\ order' = Candidate
  /\ total_cost' = CandidateCost
  /\ i' = 1
  /\ k' = 2
  /\ UNCHANGED <<problem, seed, pc>>

Improve ==
  /\ Scanning
  /\ CandidateCost < total_cost
  /\ order' = Candidate
  /\ total_cost' = CandidateCost
  /\ i' = 1
  /\ k' = 2
  /\ UNCHANGED <<problem, seed, pc>>

(* Mutant: the inner loop runs one position too far. *)
AdvancePastEnd ==
  /\ Scanning
  /\ ~(CandidateCost < total_cost)
  /\ IF k + 1 <= Len(order)
     THEN k' = k + 1 /\ i' = i
     ELSE i' = i + 1 /\ k' = i + 2
  /\ UNCHANGED <<problem, seed, order, total_cost, pc>>

Advance ==
  /\ Scanning
  /\ ~(CandidateCost < total_cost)
  /\ IF k + 1 < Len(order)
     THEN k' = k + 1 /\ i' = i
     ELSE i' = i + 1 /\ k' = i + 2
  /\ UNCHANGED <<problem, seed, order, total_cost, pc>>

Finish ==
  /\ pc = "scan"
  /\ ~Scanning
  /\ pc' = "done"
  /\ UNCHANGED <<problem, seed, order, total_cost, i, k>>

Next == Improve \/ Advance \/ Finish

(* The function is straight-line code of one thread: it keeps running. *)
Spec == Init /\ [][Next]_vars /\ WF_vars(Next)

(***************************************************************************)
(* Properties.                                                             *)
(***************************************************************************)

(* The pair stays a pair of positions while the scan lasts, so the reversed *)
(* range never leaves the vector.                                          *)
TypeOK ==
  /\ order \in Seq(Nodes(problem))
  /\ Len(order) = problem.size
  /\ i \in Nat \ {0}
  /\ k \in Nat
  /\ i < k
  /\ pc \in {"scan", "done"}
  /\ Scanning => k < problem.size

(* Whatever reversals were taken, the tour is a permutation of the nodes   *)
(* that starts where the seed started.                                     *)
StaysRoute == IsRoute(problem, order) /\ (problem.size > 0 => order[1] = seed[1])

(* The cost carried along with the tour is the cost of that tour. *)
CostMatchesOrder == total_cost = RouteCost(problem, order)

(* Pairs (f, l) of positions with 1 <= f < l < size. *)
Moves == {move \in (1 .. problem.size - 1) \X (1 .. problem.size - 1) :
            move[1] < move[2]}

Improves(move) == RouteCost(problem, Reversed(order, move[1], move[2])) < total_cost

(* The scan never has to look back: no pair before the current one, in the *)
(* order of the two loops, would improve the tour it now holds.            *)
TriedMovesDoNotImprove ==
  \A move \in Moves :
    move[1] < i \/ (move[1] = i /\ move[2] < k) => ~Improves(move)

(* The tour handed back is a local optimum of the 2-opt neighbourhood. *)
LocallyOptimal == pc = "done" => \A move \in Moves : ~Improves(move)

(* What a tour costs in integers that have no width. *)
TrueCost(tour) ==
  LET total[p \in 0 .. Len(tour)] ==
        IF p = 0
        THEN 0
        ELSE total[p - 1] + Distance(problem, tour[p], tour[After(tour, p)])
  IN  total[Len(tour)]

NoCostOverflows == \A route \in Routes(problem) : TrueCost(route) \in Costs

(* The unchecked sums of 64 bits do not mislead the search as long as the  *)
(* whole tours have costs that fit, though sums on the way to them may     *)
(* wrap: by its true cost the tour is never longer than the seed, however  *)
(* many reversals were taken, and in the end a local optimum.              *)
TrueLocalOptimum ==
  NoCostOverflows =>
    /\ TrueCost(order) <= TrueCost(seed)
    /\ pc = "done" =>
         \A move \in Moves : TrueCost(order) <= TrueCost(Reversed(order, move[1], move[2]))

(* No tour can be improved forever: the search always ends. *)
Terminates == <>(pc = "done")
=============================================================================
