------------------------------ MODULE CApiSolve ------------------------------
(***************************************************************************)
(* Options, tsp_solver_solve and results of src/src/c_api.cpp, called by a *)
(* client that edits its model and its options between the calls.          *)
(*                                                                         *)
(* ApiSpec composes them with the calls of CApiModel on the model handle.  *)
(* ClientSpec puts one step in the place of those calls, to be checked on  *)
(* given models, complete or not: the client then has one of them.  The    *)
(* solvers stand here by the answers their own modules keep to.            *)
(***************************************************************************)
EXTENDS Answers, CApiModel
LOCAL INSTANCE FiniteSetsExt

CONSTANTS
  Models,             \* the rows of the models the client of ClientSpec has
  TimeLimits, Seeds,  \* the option values the client sets
  kHeldKarpCutoff,    \* largest problem Held-Karp accepts
  MaxResults,         \* bound of the exploration on allocated results
  None                \* no options object

(* What CApiModel guarantees of its rows, whatever calls made them. *)
ASSUME ModelsAssumption ==
  \A rows \in Models :
    /\ rows \in Seq(Seq(Entries))
    /\ \A r \in DOMAIN rows : Len(rows) <= Len(rows[r]) /\ rows[r][r] = 0
ASSUME CutoffAssumption     == kHeldKarpCutoff \in Nat
ASSUME TimeLimitsAssumption == TimeLimits \subseteq Nat
ASSUME SeedsAssumption      == Seeds \subseteq Nat
ASSUME MaxResultsAssumption == MaxResults \in Nat

VARIABLES
  options,      \* the client's options object, or None
  heap,         \* the allocated tsp_solver_results, by the slots they are in
  held,         \* the slots whose address the client was given
  code          \* what the last call of this module returned

clientVars == <<options, heap, held, code>>
apiVars    == <<vars, clientVars>>

Algorithms == {"DEFAULT", "LOCAL_SEARCH_2OPT", "GREEDY_NEAREST_NEIGHBOR",
               "GREEDY_CHEAPEST_INSERTION", "HELD_KARP",
               "METAHEURISTIC_ITERATED_LOCAL_SEARCH"}
OptionValues == [time_limit_ms : TimeLimits \cup {Max(TimeLimits)},
                 random_seed : Seeds \cup {0}, algorithm : Algorithms]
Slots == 1 .. MaxResults
Empty == Slots \ DOMAIN heap

(***************************************************************************)
(* The parts of tsp_solver_solve.                                          *)
(***************************************************************************)
ToProblem ==
  [size |-> Len(distances),
   distances |-> [from \in 0 .. Len(distances) - 1 |->
                    [to \in 0 .. Len(distances) - 1 |->
                       distances[from + 1][to + 1]]]]

ResolvedAlgorithm ==
  IF options.algorithm = "DEFAULT" THEN "LOCAL_SEARCH_2OPT" ELSE options.algorithm

(* Mutant: the seed is not used. *)
SeedIgnored == 0

SeedStartNode ==
  IF Len(distances) = 0 THEN 0 ELSE options.random_seed % Len(distances)

SolverAnswers ==
  CASE ResolvedAlgorithm = "HELD_KARP" ->
         ExactAnswers(ToProblem, SeedStartNode)
    [] ResolvedAlgorithm = "GREEDY_CHEAPEST_INSERTION" ->
         InsertionAnswers(ToProblem, SeedStartNode)
    [] OTHER ->
         ScanAnswers(ToProblem, SeedStartNode)

ExceedsCutoff ==
  ResolvedAlgorithm = "HELD_KARP" /\ Len(distances) > kHeldKarpCutoff

(* A result and, for the properties, the problem and options it is for. *)
Result(status, objective, tour) ==
  [status |-> status, algorithm |-> ResolvedAlgorithm, objective |-> objective,
   tour |-> tour, problem |-> ToProblem, asked |-> options]

ClientInit ==
  /\ Init
  /\ options = None
  /\ heap = <<>>
  /\ held = {}
  /\ code = "OK"

(* Any sequence of calls on the model that leaves it as one of Models, or  *)
(* destroyed.                                                              *)
EditModel ==
  /\ live' \in BOOLEAN
  /\ distances' \in IF live' THEN Models ELSE {<<>>}
  /\ UNCHANGED <<returned, clientVars>>

(***************************************************************************)
(* The options.                                                            *)
(***************************************************************************)
CreateOptions ==
  /\ options = None
  /\ \/ /\ options' = [time_limit_ms |-> Max(TimeLimits), random_seed |-> 0,
                       algorithm |-> "DEFAULT"]
        /\ code' = "OK"
     \/ /\ code' = "ALLOCATION_FAILED"
        /\ UNCHANGED options
  /\ UNCHANGED <<vars, heap, held>>

DestroyOptions ==
  /\ options # None
  /\ options' = None
  /\ UNCHANGED <<vars, heap, held, code>>

SetTimeLimit ==
  /\ options # None
  /\ \E limit \in TimeLimits : options' = [options EXCEPT !.time_limit_ms = limit]
  /\ code' = "OK"
  /\ UNCHANGED <<vars, heap, held>>

SetSeed ==
  /\ options # None
  /\ \E random_seed \in Seeds : options' = [options EXCEPT !.random_seed = random_seed]
  /\ code' = "OK"
  /\ UNCHANGED <<vars, heap, held>>

(* Mutant: is_valid_algorithm is not called. *)
SetAlgorithmUnchecked ==
  /\ options # None
  /\ \E algorithm \in Algorithms \cup {"UNKNOWN"} :
       options' = [options EXCEPT !.algorithm = algorithm]
  /\ code' = "OK"
  /\ UNCHANGED <<vars, heap, held>>

(* The argument is an int to the caller; values that name no algorithm     *)
(* stand as "UNKNOWN".                                                     *)
SetAlgorithm ==
  /\ options # None
  /\ \E algorithm \in Algorithms \cup {"UNKNOWN"} :
       IF algorithm \in Algorithms
       THEN options' = [options EXCEPT !.algorithm = algorithm] /\ code' = "OK"
       ELSE code' = "INVALID_ARGUMENT" /\ UNCHANGED options
  /\ UNCHANGED <<vars, heap, held>>

(***************************************************************************)
(* tsp_solver_solve, one action per way out, in the order of the code.     *)
(***************************************************************************)
SolveFails(error) ==
  /\ code' = error
  /\ UNCHANGED <<vars, options, heap, held>>

SolveRejectsNull == SolveFails("INVALID_ARGUMENT")

RejectModel ==
  /\ options # None /\ live
  /\ ~IsComplete
  /\ SolveFails("INVALID_MODEL")

Solvable == options # None /\ live /\ IsComplete

(* bad_alloc from to_problem or from a solver, or no memory for a result. *)
OutOfMemory ==
  /\ Solvable
  /\ SolveFails("ALLOCATION_FAILED")

With(slot, result) ==
  [s \in DOMAIN heap \cup {slot} |-> IF s = slot THEN result ELSE heap[s]]

(* Allocates `result` in a free slot and hands it out. *)
HandOut(result) ==
  \E slot \in Empty :
    /\ slot = Min(Empty)
    /\ heap' = With(slot, result)
    /\ held' = held \cup {slot}
    /\ code' = "OK"
    /\ UNCHANGED <<vars, options>>

TimeLimitResult ==
  /\ Solvable
  /\ options.time_limit_ms = 0
  /\ HandOut(Result("TIME_LIMIT", 0, <<>>))

(* The cutoff, or no cycle of distances that stay below kInf. *)
HeldKarpGivesUp ==
  /\ Solvable
  /\ options.time_limit_ms # 0
  /\ ResolvedAlgorithm = "HELD_KARP"
  /\ ExceedsCutoff \/ ~HasSmallDistances(ToProblem)
  /\ SolveFails("OUT_OF_RANGE")

(* Mutant: a small model is reported optimal whatever solved it. *)
StatusBySize == IF Len(distances) <= kHeldKarpCutoff THEN "OPTIMAL" ELSE "FEASIBLE"

SolvedStatus == IF ResolvedAlgorithm = "HELD_KARP" THEN "OPTIMAL" ELSE "FEASIBLE"

Solve ==
  /\ Solvable
  /\ options.time_limit_ms # 0
  /\ ~ExceedsCutoff
  /\ \E route \in SolverAnswers :
       HandOut(Result(SolvedStatus, RouteCost(ToProblem, route), route))

(* The result is allocated and filled, but copying the tour into it throws *)
(* bad_alloc; an empty tour needs no memory.  The pointer is a local of    *)
(* the block the exception leaves.                                         *)
TourCopyFails ==
  /\ Solvable
  /\ options.time_limit_ms # 0
  /\ ~ExceedsCutoff
  /\ \E slot \in Empty, route \in SolverAnswers :
       /\ route # <<>>
       /\ slot = Min(Empty)
       /\ heap' = With(slot, Result(SolvedStatus, RouteCost(ToProblem, route), <<>>))
  /\ code' = "ALLOCATION_FAILED"
  /\ UNCHANGED <<vars, options, held>>

DestroyResult ==
  \E slot \in held :
    /\ heap' = [s \in DOMAIN heap \ {slot} |-> heap[s]]
    /\ held' = held \ {slot}
    /\ UNCHANGED <<vars, options, code>>

(* result_get_tour into a buffer of `capacity` nodes. *)
GetTour ==
  \E slot \in held : \E capacity \in 0 .. Len(heap[slot].tour) :
    /\ code' = IF capacity < Len(heap[slot].tour) THEN "INVALID_ARGUMENT" ELSE "OK"
    /\ UNCHANGED <<vars, options, heap, held>>

ClientCall ==
  \/ CreateOptions \/ DestroyOptions \/ SetTimeLimit \/ SetSeed \/ SetAlgorithm
  \/ SolveRejectsNull \/ RejectModel \/ OutOfMemory \/ TimeLimitResult
  \/ HeldKarpGivesUp \/ Solve \/ TourCopyFails
  \/ DestroyResult \/ GetTour

ClientNext == EditModel \/ ClientCall

ClientSpec == ClientInit /\ [][ClientNext]_apiVars

(* The whole interface: a call on the model handle, or one of the others. *)
ApiNext == (Next /\ UNCHANGED clientVars) \/ ClientCall

ApiSpec == ClientInit /\ [][ApiNext]_apiVars

(***************************************************************************)
(* Properties.                                                             *)
(***************************************************************************)
Results == {heap[slot] : slot \in held}

(* Every handle is to an allocated result, and the option values are ones  *)
(* that solve accepts.                                                     *)
ClientTypeOK ==
  /\ options # None => options \in OptionValues
  /\ held \subseteq DOMAIN heap /\ DOMAIN heap \subseteq Slots
  /\ code \in ErrorCodes

(* Where an algorithm can be led to a tour that is no route. *)
Misleads(problem, start, algorithm) ==
  CASE algorithm = "HELD_KARP"                 -> FALSE
    [] algorithm = "GREEDY_CHEAPEST_INSERTION" -> LacksSecond(problem, start)
    [] OTHER                                   -> HasSentinelDistance(problem)

(* A result is what was asked for: it names the algorithm that ran, never  *)
(* DEFAULT; with a limit of zero it is a TIME_LIMIT without a tour, even   *)
(* for Held-Karp above its cutoff; otherwise its tour has an entry per     *)
(* node of the model as it was, from the node the seed selects, and its    *)
(* objective is what that tour costs in that model.  The tour visits every *)
(* node once unless its algorithm can be misled, and then only node 0 is   *)
(* visited twice.                                                          *)
ResultAnswersRequest ==
  \A result \in Results :
    LET start == NormalizeStartNode(result.problem, result.asked.random_seed) IN
    /\ result.algorithm =
         IF result.asked.algorithm = "DEFAULT" THEN "LOCAL_SEARCH_2OPT"
                                               ELSE result.asked.algorithm
    /\ IF result.asked.time_limit_ms = 0
       THEN result.status = "TIME_LIMIT" /\ result.tour = <<>> /\ result.objective = 0
       ELSE /\ result.tour \in ToursFrom(result.problem, start)
            /\ result.objective = RouteCost(result.problem, result.tour)
            /\ ~Misleads(result.problem, start, result.algorithm) =>
                 IsRoute(result.problem, result.tour)

(* OPTIMAL is said within the cutoff only, and there of optimal tours when *)
(* the distances are small.                                                *)
OptimalMeansOptimal ==
  \A result \in Results :
    result.status = "OPTIMAL" =>
      /\ result.problem.size <= kHeldKarpCutoff
      /\ HasSmallDistances(result.problem) => IsOptimal(result.problem, result.tour)

(* The claim of the design document: every heap-owned object has a         *)
(* matching destroy function, so the client can reach every result.        *)
EveryResultReachable == DOMAIN heap \subseteq held
=============================================================================
