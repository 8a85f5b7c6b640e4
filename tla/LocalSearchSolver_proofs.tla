----------------------- MODULE LocalSearchSolver_proofs -----------------------
(***************************************************************************)
(* Proofs about the two composed solvers, for every set of problems and    *)
(* start nodes and every width of the costs.  The construction and the     *)
(* refinement are proved about in modules of their own; their lemmas are   *)
(* used here through instances.                                            *)
(***************************************************************************)
EXTENDS LocalSearchSolver, Answers, TLAPS

Constructing == INSTANCE NearestNeighbor_proofs WITH pc <- "scan"
Refining     == INSTANCE TwoOpt_proofs WITH pc <- "scan"

Inputs ==
  /\ problem \in Problems
  /\ start_node \in StartNodes
  /\ method \in {"2OPT", "ILS"}

(* A tour is kept as its order and its cost, the true one, and no reversal *)
(* makes it cheaper.                                                       *)
IsTour(tour) ==
  /\ tour = [order |-> tour.order, total_cost |-> tour.total_cost]
  /\ tour.total_cost = RouteCost(problem, tour.order)

CannotImprove(tour) ==
  \A first, last \in 1 .. problem.size - 1 :
    first < last =>
      ~(RouteCost(problem, Refinement!Reversed(tour.order, first, last))
          < tour.total_cost)

BestIsLocallyOptimal == \A tour \in best : IsTour(tour) /\ CannotImprove(tour)

InRefinement == phase \in {"refine_seed", "refine_candidate"}

(* While a part runs, the invariant of its own proof holds. *)
PartsKeepTheirs ==
  /\ phase = "seed" => Constructing!IInv /\ best = {} /\ iteration = 0
  /\ InRefinement \/ phase = "perturb" => problem.size > 0
  /\ InRefinement => Refining!SearchInv
  /\ phase = "refine_seed" => iteration = 0
  /\ phase = "refine_candidate" => iteration < Iterations

OneBest == best = {} \/ \E tour \in best : best = {tour}

(* The inductive invariant, whatever the distances are. *)
IInv ==
  /\ Inputs
  /\ TypeOK
  /\ PartsKeepTheirs
  /\ OneBest
  /\ BestIsLocallyOptimal

(* Besides, the tour refined and the tour kept are answers: routes from    *)
(* the start node, unless the construction met the sentinel distance.      *)
IsAnswer(tour) == tour \in ScanAnswers(problem, Start)

AnswersInv ==
  /\ InRefinement => IsAnswer(order)
  /\ \A tour \in best : IsAnswer(tour.order)

-----------------------------------------------------------------------------
(* The instances speak of the problems, costs and tours of this module. *)
LEMMA SameData ==
  /\ \A p : /\ Constructing!Nodes(p) = Nodes(p)
            /\ Refining!Nodes(p) = Nodes(p)
            /\ Constructing!IsProblem(p) <=> IsProblem(p)
            /\ Refining!IsProblem(p) <=> IsProblem(p)
            /\ Constructing!HasSentinelDistance(p) <=> HasSentinelDistance(p)
  /\ \A p, tour : /\ Refining!RouteCost(p, tour) = RouteCost(p, tour)
                  /\ Refinement!RouteCost(p, tour) = RouteCost(p, tour)
                  /\ Search!RouteCost(p, tour) = RouteCost(p, tour)
                  /\ Refining!IsRoute(p, tour) <=> IsRoute(p, tour)
                  /\ tour \in Search!RoutesFrom(p, Start)
                       <=> IsRouteFrom(p, Start, tour)
  /\ Constructing!Start = Start
<1>1. \A p : /\ Constructing!Nodes(p) = Nodes(p)
             /\ Refining!Nodes(p) = Nodes(p)
             /\ Search!Nodes(p) = Nodes(p)
  BY DEF Nodes, Constructing!Nodes, Refining!Nodes, Search!Nodes
<1>2. \A p : /\ Constructing!IsProblem(p) <=> IsProblem(p)
             /\ Refining!IsProblem(p) <=> IsProblem(p)
  BY <1>1 DEF IsProblem, Constructing!IsProblem, Refining!IsProblem, Distance,
     Constructing!Distance, Refining!Distance, Costs, Constructing!Costs, Refining!Costs
<1>3. \A p : Constructing!HasSentinelDistance(p) <=> HasSentinelDistance(p)
  BY <1>1 DEF HasSentinelDistance, Constructing!HasSentinelDistance, Distance,
     Constructing!Distance
<1>4. \A p, tour : /\ Refining!RouteCost(p, tour) = RouteCost(p, tour)
                   /\ Refinement!RouteCost(p, tour) = RouteCost(p, tour)
                   /\ Search!RouteCost(p, tour) = RouteCost(p, tour)
  BY DEF RouteCost, Wrap, Distance, After,
     Refinement!RouteCost, Refinement!Wrap, Refinement!Distance, Refinement!After,
     Refining!RouteCost, Refining!Wrap, Refining!Distance, Refining!After,
     Search!RouteCost, Search!Wrap, Search!Distance, Search!After
<1>5. \A p, tour : /\ Refining!IsRoute(p, tour) <=> IsRoute(p, tour)
                   /\ tour \in Search!RoutesFrom(p, Start)
                        <=> IsRouteFrom(p, Start, tour)
  BY <1>1 DEF IsRouteFrom, IsRoute, Refining!IsRoute, Search!RoutesFrom, Search!Routes
<1>6. Constructing!Start = Start
  BY DEF Start, Constructing!Start, NormalizeStartNode, Constructing!NormalizeStartNode
<1> QED
  BY <1>1, <1>2, <1>3, <1>4, <1>5, <1>6

(* The tour the refinement tries next, and its cost. *)
LEMMA SameCandidate ==
  /\ Refinement!Candidate = Refining!Candidate
  /\ Refinement!CandidateCost = Refining!CandidateCost
<1>1. Refinement!Candidate = Refining!Candidate
  BY DEF Refinement!Candidate, Refining!Candidate, Refinement!Reversed, Refining!Reversed
<1> QED
  BY <1>1, SameData DEF Refinement!CandidateCost, Refining!CandidateCost

(* The assumptions the modules of the parts make are assumptions here. *)
LEMMA SameAssumptions ==
  /\ \A p \in Problems : Constructing!IsProblem(p) /\ Refining!IsProblem(p)
  /\ \A p \in Problems : p.size \in Nat
  /\ StartNodes \subseteq Nat
  /\ CostMin \in Int /\ CostMax \in Int /\ CostMin < 0 /\ 0 < CostMax
  BY ProblemsAssumption, StartNodesAssumption, CostRangeAssumption, SameData
  DEF IsProblem

(* A step of the construction keeps the construction's invariant. *)
LEMMA BuildKeepsIInv ==
  ASSUME Constructing!IInv, BuildSeed
  PROVE  Constructing!IInv'
<1>1. Construction!SkipVisited => Constructing!SkipVisited
  BY DEF Construction!SkipVisited, Constructing!SkipVisited,
     Construction!Building, Constructing!Building
<1>2. Construction!Consider => Constructing!Consider
  BY DEF Construction!Consider, Constructing!Consider,
     Construction!Building, Constructing!Building, Construction!Nodes, Constructing!Nodes,
     Construction!Distance, Constructing!Distance, Construction!Current,
     Constructing!Current, Construction!IsNearer, Constructing!IsNearer
<1>3. Construction!AppendNext => Constructing!AppendNext
  BY DEF Construction!AppendNext, Constructing!AppendNext,
     Construction!Building, Constructing!Building
<1>4. Constructing!SkipVisited \/ Constructing!Consider \/ Constructing!AppendNext
  BY <1>1, <1>2, <1>3 DEF BuildSeed
<1> QED
  BY <1>4, SameAssumptions, Constructing!SkipVisitedIInv, Constructing!ConsiderIInv,
     Constructing!AppendNextIInv

(* A tour under construction is a sequence of nodes; when every node has   *)
(* its entry, it is an answer.                                             *)
LEMMA Constructed ==
  ASSUME Constructing!IInv
  PROVE  /\ order \in Seq(Nodes(problem))
         /\ Len(order) = problem.size => IsAnswer(order)
<1>1. order \in Seq(Nodes(problem))
  BY SameData DEF Constructing!IInv, Constructing!TypeOK
<1>2. ASSUME Len(order) = problem.size
      PROVE  IsAnswer(order)
  <2>1. /\ DOMAIN order = 1 .. problem.size
        /\ order \in [1 .. problem.size -> Nodes(problem)]
    BY <1>1, <1>2
  <2>2. /\ problem.size > 0 => order[1] = Start
        /\ OnlyZeroTwice(order)
    BY SameData
    DEF Constructing!IInv, Constructing!Framed, Constructing!OnlyNodeZeroRepeats,
        OnlyZeroTwice
  <2>3. ~HasSentinelDistance(problem) => IsRoute(problem, order)
    BY <2>1, SameData
    DEF Constructing!IInv, Constructing!DistinctUnlessSentinel, IsRoute
  <2> QED
    BY <2>1, <2>2, <2>3 DEF IsAnswer, ScanAnswers, ToursFrom
<1> QED
  BY <1>1, <1>2

(* Exchanging positions other than the first makes an answer of an answer. *)
LEMMA PermutedAnswer ==
  ASSUME NEW tour, IsAnswer(tour), problem.size \in Nat,
         NEW from \in [1 .. problem.size -> 1 .. problem.size],
         problem.size > 0 => from[1] = 1,
         \A p, q \in 1 .. problem.size : from[p] = from[q] => p = q
  PROVE  IsAnswer([p \in 1 .. problem.size |-> tour[from[p]]])
<1> PICK permuted : permuted = [p \in 1 .. problem.size |-> tour[from[p]]]
  OBVIOUS
<1>1. /\ tour \in [1 .. problem.size -> Nodes(problem)]
      /\ problem.size > 0 => tour[1] = Start
      /\ OnlyZeroTwice(tour)
      /\ HasSentinelDistance(problem) \/ IsRoute(problem, tour)
  BY DEF IsAnswer, ScanAnswers, ToursFrom
<1>2. /\ permuted \in [1 .. problem.size -> Nodes(problem)]
      /\ DOMAIN permuted = 1 .. problem.size
      /\ \A p \in 1 .. problem.size : permuted[p] = tour[from[p]]
      /\ problem.size > 0 => permuted[1] = Start
  BY <1>1
<1>3. OnlyZeroTwice(permuted)
  <2> SUFFICES ASSUME NEW p \in 1 .. problem.size, NEW q \in 1 .. problem.size,
                      p # q, permuted[p] = permuted[q]
               PROVE  permuted[p] = 0
    BY <1>2 DEF OnlyZeroTwice
  <2>1. from[p] \in DOMAIN tour /\ from[q] \in DOMAIN tour /\ from[p] # from[q]
    BY <1>1
  <2>2. tour[from[p]] = tour[from[q]]
    BY <1>2
  <2> QED
    BY <1>1, <1>2, <2>1, <2>2 DEF OnlyZeroTwice
<1>4. IsRoute(problem, tour) => IsRoute(problem, permuted)
  BY <1>2 DEF IsRoute
<1> QED
  BY <1>1, <1>2, <1>3, <1>4 DEF IsAnswer, ScanAnswers, ToursFrom

(* So does reversing a stretch that leaves out the first position. *)
LEMMA ReversedAnswer ==
  ASSUME NEW tour, IsAnswer(tour), problem.size \in Nat,
         NEW first \in Nat \ {0}, NEW last \in Nat, first < last, last < problem.size
  PROVE  IsAnswer(Refining!Reversed(tour, first, last))
<1> DEFINE flip == [p \in 1 .. problem.size |->
                      IF first + 1 <= p /\ p <= last + 1 THEN first + last + 2 - p ELSE p]
<1>1. flip \in [1 .. problem.size -> 1 .. problem.size] /\ flip[1] = 1
  OBVIOUS
<1>2. \A p, q \in 1 .. problem.size : flip[p] = flip[q] => p = q
  OBVIOUS
<1>3. DOMAIN tour = 1 .. problem.size
  BY DEF IsAnswer, ScanAnswers, ToursFrom
<1>4. Refining!Reversed(tour, first, last) = [p \in 1 .. problem.size |-> tour[flip[p]]]
  BY <1>3 DEF Refining!Reversed
<1> HIDE DEF flip
<1> QED
  BY <1>1, <1>2, <1>4, PermutedAnswer

(* What the refinement's invariant says of the tour refined, here. *)
LEMMA RefiningTour ==
  ASSUME Refining!SearchInv
  PROVE  /\ order \in Seq(Nodes(problem))
         /\ Len(order) = problem.size
         /\ IsTour(RefinedTour)
         /\ Refined => CannotImprove(RefinedTour)
<1>1. order \in Seq(Nodes(problem)) /\ Len(order) = problem.size
  BY SameData DEF Refining!SearchInv, Refining!TypeOK
<1>2. total_cost = RouteCost(problem, order)
  BY SameData DEF Refining!SearchInv, Refining!CostMatchesOrder
<1>3. ASSUME Refined
      PROVE  CannotImprove(RefinedTour)
  <2>1. ~Refining!Scanning
    BY <1>3 DEF Refined, Refinement!Scanning, Refining!Scanning
  <2>2. \A move \in Refining!Moves : ~Refining!Improves(move)
    BY <2>1, SameAssumptions, Refining!ScanEndsLocallyOptimal
  <2> SUFFICES ASSUME NEW first \in 1 .. problem.size - 1,
                      NEW last \in 1 .. problem.size - 1, first < last
               PROVE  ~(RouteCost(problem, Refinement!Reversed(order, first, last))
                          < total_cost)
    BY DEF CannotImprove, RefinedTour
  <2>3. <<first, last>> \in Refining!Moves
    BY DEF Refining!Moves
  <2>4. Refining!Reversed(order, first, last) = Refinement!Reversed(order, first, last)
    BY DEF Refining!Reversed, Refinement!Reversed
  <2> QED
    BY <2>2, <2>3, <2>4, SameData DEF Refining!Improves
<1> QED
  BY <1>1, <1>2, <1>3 DEF IsTour, RefinedTour

(* A step of the refinement keeps the refinement's invariant and the start *)
(* of the tour; a step that changes the tour makes it cheaper; an answer   *)
(* stays an answer.                                                        *)
LEMMA RefineStep ==
  ASSUME Refining!SearchInv, Refine, problem.size > 0
  PROVE  /\ Refining!SearchInv'
         /\ \/ RefinedTour' = RefinedTour
            \/ total_cost' < total_cost
         /\ IsAnswer(order) => IsAnswer(order')
<1>1. Refinement!Improve => Refining!Improve
  BY SameCandidate
  DEF Refinement!Improve, Refining!Improve, Refinement!Scanning, Refining!Scanning
<1>2. Refinement!Advance => Refining!Advance
  BY SameCandidate
  DEF Refinement!Advance, Refining!Advance, Refinement!Scanning, Refining!Scanning
<1>3. CASE Refining!Improve
  <2>1. Refining!SearchInv' /\ order'[1] = order[1]
    BY <1>3, SameAssumptions, Refining!ImproveSearchInv
  <2>2. /\ problem.size \in Nat
        /\ i \in Nat \ {0} /\ k \in Nat /\ i < k /\ k < problem.size
    BY <1>3 DEF Refining!SearchInv, Refining!Improve, Refining!TypeOK
  <2>3. order' = Refining!Reversed(order, i, k) /\ total_cost' < total_cost
    BY <1>3 DEF Refining!Improve, Refining!Candidate
  <2>4. IsAnswer(order) => IsAnswer(order')
    BY <2>2, <2>3, ReversedAnswer
  <2> QED
    BY <2>1, <2>3, <2>4
<1>4. CASE Refining!Advance
  <2>1. Refining!SearchInv'
    BY <1>4, SameAssumptions, Refining!AdvanceSearchInv
  <2>2. UNCHANGED <<order, total_cost>>
    BY <1>4 DEF Refining!Advance
  <2> QED
    BY <2>1, <2>2 DEF RefinedTour
<1> QED
  BY <1>1, <1>2, <1>3, <1>4 DEF Refine

(* The refinement begins with any tour of every length. *)
LEMMA EnteredInv == Refining!Entered' => Refining!SearchInv'
<1>1. Refining!Entered => Refining!SearchInv
  BY SameAssumptions, Refining!EnterSearchInv
<1> QED
  BY <1>1, PTL

(* The perturbed tour and the seed are such tours. *)
LEMMA EnterRefining ==
  ASSUME NEW tour \in Seq(Nodes(problem)), Len(tour) = problem.size,
         problem.size \in Nat, NEW next_phase, EnterRefinement(tour, next_phase)
  PROVE  Refining!SearchInv'
<1>1. Refining!Entered'
  BY SameData DEF EnterRefinement, inputs, Refining!Entered
<1> QED
  BY <1>1, EnteredInv

(* Exchanging two positions other than the first gives a tour of the same  *)
(* length, and a route from the start when it was one.                     *)
LEMMA SwappedTour ==
  ASSUME NEW S, NEW tour \in Seq(S), NEW p \in 2 .. Len(tour), NEW q \in 2 .. Len(tour)
  PROVE  Swapped(tour, p, q) \in Seq(S) /\ Len(Swapped(tour, p, q)) = Len(tour)
  BY DEF Swapped

(* An answer stays an answer. *)
LEMMA SwappedAnswer ==
  ASSUME NEW tour, IsAnswer(tour), problem.size \in Nat,
         NEW p \in 2 .. problem.size, NEW q \in 2 .. problem.size
  PROVE  IsAnswer(Swapped(tour, p, q))
<1> DEFINE swap == [r \in 1 .. problem.size |-> IF r = q THEN p ELSE IF r = p THEN q ELSE r]
<1>1. /\ swap \in [1 .. problem.size -> 1 .. problem.size]
      /\ problem.size > 0 => swap[1] = 1
  OBVIOUS
<1>2. \A r, s \in 1 .. problem.size : swap[r] = swap[s] => r = s
  OBVIOUS
<1>3. tour \in [1 .. problem.size -> Nodes(problem)]
  BY DEF IsAnswer, ScanAnswers, ToursFrom
<1>4. Swapped(tour, p, q) = [r \in 1 .. problem.size |-> tour[swap[r]]]
  BY <1>3 DEF Swapped
<1> HIDE DEF swap
<1> QED
  BY <1>1, <1>2, <1>4, PermutedAnswer

-----------------------------------------------------------------------------
(* The arguments are fixed. *)
LEMMA InputsStay == [Next]_vars => UNCHANGED inputs
  BY DEF Next, vars, inputs, ReturnEmpty, BuildSeed, RefineSeed, Refine, KeepSeed,
     Perturb, KeepCandidate, Return, EnterRefinement, Construction!SkipVisited,
     Construction!Consider, Construction!AppendNext, Refinement!Improve,
     Refinement!Advance

(* What the assumptions say of the arguments. *)
LEMMA InputsOK ==
  ASSUME Inputs
  PROVE  problem.size \in Nat /\ Iterations \in Nat /\ Iterations > 0
  BY SameAssumptions DEF Inputs, Iterations

(* The solvers start with the construction. *)
LEMMA InitIInv == Init => IInv /\ AnswersInv
<1> SUFFICES ASSUME Init
             PROVE  IInv /\ AnswersInv
  OBVIOUS
<1>1. Constructing!Init
  BY DEF Init, Construction!Init, Constructing!Init, Construction!Start,
     Constructing!Start, Construction!NormalizeStartNode, Constructing!NormalizeStartNode
<1>2. Constructing!IInv
  BY <1>1, SameAssumptions, Constructing!InitIInv
<1>3. Inputs
  BY DEF Init, Construction!Init, Inputs
<1>4. order \in Seq(Nodes(problem))
  BY <1>2, Constructed
<1>5. TypeOK
  BY <1>3, <1>4, InputsOK DEF Init, TypeOK
<1> QED
  BY <1>2, <1>3, <1>5
  DEF Init, IInv, AnswersInv, PartsKeepTheirs, OneBest, BestIsLocallyOptimal, InRefinement

(* The tours kept stay what they are while the arguments stand. *)
LEMMA SameTours ==
  ASSUME UNCHANGED inputs
  PROVE  /\ \A tour : /\ IsTour(tour)' <=> IsTour(tour)
                      /\ CannotImprove(tour)' <=> CannotImprove(tour)
                      /\ IsAnswer(tour)' <=> IsAnswer(tour)
         /\ Start' = Start /\ Iterations' = Iterations
         /\ Nodes(problem)' = Nodes(problem)
<1>1. problem' = problem /\ start_node' = start_node
  BY DEF inputs
<1>2. \A tour : IsTour(tour)' <=> IsTour(tour)
  BY <1>1 DEF IsTour
<1>3. \A tour : CannotImprove(tour)' <=> CannotImprove(tour)
  BY <1>1 DEF CannotImprove, Refinement!Reversed
<1>4. Start' = Start /\ Iterations' = Iterations /\ Nodes(problem)' = Nodes(problem)
  BY <1>1 DEF Start, Iterations
<1>5. \A tour : IsAnswer(tour)' <=> IsAnswer(tour)
  BY <1>1 DEF IsAnswer, Start
<1> QED
  BY <1>1, <1>2, <1>3, <1>4, <1>5

(* A step that keeps the arguments and the best tour keeps what is said of *)
(* them.                                                                   *)
LEMMA KeptStays ==
  ASSUME IInv, UNCHANGED inputs, best' = best
  PROVE  Inputs' /\ OneBest' /\ BestIsLocallyOptimal'
<1>1. Inputs' /\ OneBest'
  BY DEF IInv, inputs, Inputs, OneBest
<1>2. BestIsLocallyOptimal'
  BY SameTours DEF IInv, BestIsLocallyOptimal
<1> QED
  BY <1>1, <1>2

(* In the next state too, the tour under construction or refinement is a   *)
(* sequence of nodes, and the one under refinement has its true cost.      *)
LEMMA NextTour ==
  /\ Constructing!IInv' \/ Refining!SearchInv' => order' \in Seq(Nodes(problem'))
  /\ Refining!SearchInv' => IsTour(RefinedTour)'
<1>1. Constructing!IInv \/ Refining!SearchInv => order \in Seq(Nodes(problem))
  BY Constructed, RefiningTour
<1>2. (Constructing!IInv \/ Refining!SearchInv)' => (order \in Seq(Nodes(problem)))'
  BY <1>1, PTL
<1>3. Refining!SearchInv => IsTour(RefinedTour)
  BY RefiningTour
<1>4. Refining!SearchInv' => IsTour(RefinedTour)'
  BY <1>3, PTL
<1> QED
  BY <1>2, <1>4

(* The empty tour is the answer for a problem of no node. *)
LEMMA ReturnEmptyIInv == ASSUME IInv, ReturnEmpty PROVE IInv'
<1>1. UNCHANGED <<inputs, best, order, iteration>> /\ phase = "seed" /\ phase' = "done"
  BY DEF ReturnEmpty
<1>2. Inputs' /\ OneBest' /\ BestIsLocallyOptimal'
  BY <1>1, KeptStays
<1>3. TypeOK'
  BY <1>1, SameTours DEF IInv, ReturnEmpty, TypeOK, PartsKeepTheirs, inputs
<1> QED
  BY <1>1, <1>2, <1>3 DEF IInv, PartsKeepTheirs, InRefinement

(* The construction goes on. *)
LEMMA BuildSeedIInv == ASSUME IInv, BuildSeed PROVE IInv'
<1>1. UNCHANGED inputs
  BY InputsStay DEF Next
<1>2. phase = "seed" /\ Constructing!IInv /\ UNCHANGED <<phase, best, iteration>>
  BY DEF IInv, PartsKeepTheirs, BuildSeed, outer
<1>3. Constructing!IInv'
  BY <1>2, BuildKeepsIInv
<1>4. TypeOK'
  BY <1>1, <1>2, <1>3, NextTour, SameTours DEF IInv, TypeOK, inputs
<1> QED
  BY <1>1, <1>2, <1>3, <1>4, KeptStays DEF IInv, PartsKeepTheirs, InRefinement

(* The refinement begins, with the seed or with a candidate. *)
LEMMA EnterIInv ==
  ASSUME IInv, NEW tour \in Seq(Nodes(problem)), Len(tour) = problem.size,
         problem.size > 0, NEW next_phase, EnterRefinement(tour, next_phase),
         \/ phase = "seed" /\ next_phase = "refine_seed"
         \/ phase = "perturb" /\ next_phase = "refine_candidate" /\ iteration < Iterations
  PROVE  IInv'
<1>1. UNCHANGED <<inputs, best, iteration>> /\ phase' = next_phase
  BY DEF EnterRefinement
<1>2. problem.size \in Nat
  BY InputsOK DEF IInv
<1>3. Refining!SearchInv'
  BY <1>2, EnterRefining
<1>4. TypeOK'
  BY <1>1, <1>3, NextTour, SameTours DEF IInv, TypeOK, inputs, PartsKeepTheirs
<1>5. PartsKeepTheirs'
  BY <1>1, <1>3, SameTours DEF IInv, PartsKeepTheirs, InRefinement, inputs
<1> QED
  BY <1>1, <1>4, <1>5, KeptStays DEF IInv

(* The finished seed is refined. *)
LEMMA RefineSeedIInv == ASSUME IInv, RefineSeed PROVE IInv'
<1>1. order \in Seq(Nodes(problem))
  BY DEF IInv, TypeOK
<1> QED
  BY <1>1, EnterIInv DEF RefineSeed

(* The refinement goes on. *)
LEMMA RefineIInv == ASSUME IInv, Refine PROVE IInv'
<1>1. UNCHANGED inputs
  BY InputsStay DEF Next
<1>2. /\ InRefinement /\ problem.size > 0 /\ Refining!SearchInv
      /\ UNCHANGED <<phase, best, iteration>>
  BY DEF IInv, PartsKeepTheirs, Refine, outer, InRefinement
<1>3. Refining!SearchInv'
  BY <1>2, RefineStep
<1>4. TypeOK'
  BY <1>1, <1>2, <1>3, NextTour, SameTours DEF IInv, TypeOK, inputs
<1>5. PartsKeepTheirs'
  BY <1>1, <1>2, <1>3, SameTours DEF IInv, PartsKeepTheirs, InRefinement, inputs
<1> QED
  BY <1>1, <1>2, <1>4, <1>5, KeptStays DEF IInv

(* A refined tour is kept, as the first or as a cheaper one. *)
LEMMA KeepIInv ==
  ASSUME IInv, InRefinement, Refined, best' = best \/ best' = {RefinedTour},
         best' # {}, UNCHANGED <<inputs, order>>,
         phase' \in {"perturb", "done"}, iteration' \in 0 .. Iterations
  PROVE  IInv'
<1>1. /\ problem.size > 0 /\ Len(order) = problem.size /\ order \in Seq(Nodes(problem))
      /\ IsTour(RefinedTour) /\ CannotImprove(RefinedTour)
  BY RefiningTour DEF IInv, PartsKeepTheirs
<1>2. Inputs' /\ OneBest'
  BY DEF IInv, inputs, Inputs, OneBest
<1>3. BestIsLocallyOptimal'
  BY <1>1, SameTours DEF IInv, BestIsLocallyOptimal
<1>4. TypeOK'
  <2>1. RefinedTour.order = order
    BY DEF RefinedTour
  <2>2. \A tour \in best' :
          tour.order \in Seq(Nodes(problem)) /\ Len(tour.order) = problem.size
    BY <1>1, <2>1 DEF IInv, TypeOK
  <2> QED
    BY <1>1, <2>2, SameTours DEF IInv, TypeOK, inputs
<1>5. PartsKeepTheirs'
  BY <1>1 DEF PartsKeepTheirs, InRefinement, inputs
<1> QED
  BY <1>2, <1>3, <1>4, <1>5 DEF IInv

(* The refined seed is the first tour kept. *)
LEMMA KeepSeedIInv == ASSUME IInv, KeepSeed PROVE IInv'
<1>1. iteration' = iteration /\ iteration \in 0 .. Iterations
  BY DEF IInv, TypeOK, KeepSeed
<1> QED
  BY <1>1, KeepIInv DEF KeepSeed, InRefinement

(* The refined candidate, or the tour it did not beat, is kept. *)
LEMMA KeepCandidateIInv == ASSUME IInv, KeepCandidate PROVE IInv'
<1>1. iteration' \in 0 .. Iterations
  BY InputsOK DEF IInv, TypeOK, KeepCandidate, PartsKeepTheirs
<1>2. best # {}
  BY DEF IInv, TypeOK, KeepCandidate
<1> QED
  BY <1>1, <1>2, KeepIInv DEF KeepCandidate, InRefinement

(* The best tour is handed to perturb_tour, and what it gives is refined. *)
LEMMA PerturbIInv == ASSUME IInv, Perturb PROVE IInv'
<1>1. PICK tour \in best :
         IF problem.size <= 3
         THEN EnterRefinement(tour.order, "refine_candidate")
         ELSE \E p, q \in 2 .. problem.size :
                /\ p < q
                /\ EnterRefinement(Swapped(tour.order, p, q), "refine_candidate")
  BY DEF Perturb
<1>2. tour.order \in Seq(Nodes(problem)) /\ Len(tour.order) = problem.size
  BY DEF IInv, TypeOK
<1>3. problem.size > 0 /\ phase = "perturb" /\ iteration < Iterations
  BY DEF IInv, PartsKeepTheirs, Perturb, TypeOK
<1>4. CASE problem.size <= 3
  BY <1>1, <1>2, <1>3, <1>4, EnterIInv
<1>5. CASE ~(problem.size <= 3)
  <2>1. PICK p \in 2 .. problem.size, q \in 2 .. problem.size :
          EnterRefinement(Swapped(tour.order, p, q), "refine_candidate")
    BY <1>1, <1>5
  <2>2. /\ Swapped(tour.order, p, q) \in Seq(Nodes(problem))
        /\ Len(Swapped(tour.order, p, q)) = problem.size
    BY <1>2, SwappedTour
  <2> QED
    BY <1>3, <2>1, <2>2, EnterIInv
<1> QED
  BY <1>4, <1>5

(* The search is over when the perturbations are. *)
LEMMA ReturnIInv == ASSUME IInv, Return PROVE IInv'
<1>1. UNCHANGED <<inputs, best, order, iteration>> /\ phase = "perturb" /\ phase' = "done"
  BY DEF Return
<1>2. Inputs' /\ OneBest' /\ BestIsLocallyOptimal'
  BY <1>1, KeptStays
<1>3. TypeOK'
  BY <1>1, SameTours DEF IInv, TypeOK, inputs, PartsKeepTheirs
<1> QED
  BY <1>1, <1>2, <1>3 DEF IInv, PartsKeepTheirs, InRefinement

(* A step that changes nothing. *)
LEMMA StutterIInv == ASSUME IInv, UNCHANGED vars PROVE IInv'
<1>1. UNCHANGED <<inputs, best, order, iteration, phase>>
  BY DEF vars, outer
<1>2. TypeOK'
  BY <1>1, SameTours DEF IInv, TypeOK, inputs
<1>3. Constructing!IInv => Constructing!IInv'
  <2>1. Constructing!IInv /\ [Constructing!Next]_Constructing!vars => Constructing!IInv'
    BY SameAssumptions, Constructing!NextIInv
  <2> QED
    BY <2>1 DEF vars, inputs, building, Constructing!vars
<1>4. Refining!SearchInv => Refining!SearchInv'
  BY DEF vars, inputs, refining, Refining!SearchInv, Refining!TypeOK, Refining!Scanning,
     Refining!CostMatchesOrder, Refining!TriedMovesDoNotImprove, Refining!LocallyOptimal,
     Refining!Moves, Refining!Improves, Refining!Nodes
<1>5. PartsKeepTheirs'
  BY <1>1, <1>3, <1>4, SameTours DEF IInv, PartsKeepTheirs, InRefinement, inputs
<1> QED
  BY <1>1, <1>2, <1>5, KeptStays DEF IInv

(* Every step of the solvers preserves the invariant. *)
LEMMA NextIInv == IInv /\ [Next]_vars => IInv'
<1> SUFFICES ASSUME IInv, [Next]_vars
             PROVE  IInv'
  OBVIOUS
<1> QED
  BY ReturnEmptyIInv, BuildSeedIInv, RefineSeedIInv, RefineIInv, KeepSeedIInv,
     PerturbIInv, KeepCandidateIInv, ReturnIInv, StutterIInv DEF Next

(* What is refined and kept stays an answer. *)
LEMMA AnswersStay ==
  ASSUME IInv, AnswersInv, [Next]_vars
  PROVE  AnswersInv'
<1>1. UNCHANGED inputs /\ problem' = problem
  BY InputsStay DEF inputs
<1>2. problem.size \in Nat
  BY InputsOK DEF IInv
<1> SUFFICES /\ InRefinement' => IsAnswer(order')
             /\ \A tour \in best' : IsAnswer(tour.order)
  BY <1>1, SameTours DEF AnswersInv
<1>3. CASE ReturnEmpty \/ BuildSeed \/ Return
  BY <1>3 DEF ReturnEmpty, BuildSeed, Return, outer, AnswersInv, InRefinement
<1>4. CASE RefineSeed
  <2>1. IsAnswer(order)
    BY <1>4, Constructed DEF RefineSeed, IInv, PartsKeepTheirs
  <2> QED
    BY <1>4, <2>1 DEF RefineSeed, EnterRefinement, AnswersInv
<1>5. CASE Refine
  BY <1>5, RefineStep DEF Refine, outer, AnswersInv, InRefinement, IInv, PartsKeepTheirs
<1>6. CASE KeepSeed \/ KeepCandidate
  <2>1. best' = best \/ best' = {RefinedTour}
    BY <1>6 DEF KeepSeed, KeepCandidate
  <2>2. IsAnswer(RefinedTour.order) /\ ~InRefinement'
    BY <1>6 DEF KeepSeed, KeepCandidate, InRefinement, AnswersInv, RefinedTour
  <2> QED
    BY <2>1, <2>2 DEF AnswersInv
<1>7. CASE Perturb
  <2>1. PICK tour \in best :
          IF problem.size <= 3
          THEN EnterRefinement(tour.order, "refine_candidate")
          ELSE \E p, q \in 2 .. problem.size :
                 /\ p < q
                 /\ EnterRefinement(Swapped(tour.order, p, q), "refine_candidate")
    BY <1>7 DEF Perturb
  <2>2. IsAnswer(tour.order)
    BY DEF AnswersInv
  <2>3. \A p, q \in 2 .. problem.size :
          IsAnswer(Swapped(tour.order, p, q))
    BY <1>2, <2>2, SwappedAnswer
  <2> QED
    BY <2>1, <2>2, <2>3 DEF EnterRefinement, AnswersInv
<1>8. CASE UNCHANGED vars
  BY <1>8 DEF vars, outer, AnswersInv, InRefinement
<1> QED
  BY <1>3, <1>4, <1>5, <1>6, <1>7, <1>8 DEF Next

(* An answer is a route unless some distance is the sentinel. *)
LEMMA AnswerIsRoute ==
  ASSUME NEW tour, IsAnswer(tour), ~HasSentinelDistance(problem)
  PROVE  IsRouteFrom(problem, Start, tour)
  BY DEF IsAnswer, ScanAnswers, ToursFrom, IsRouteFrom

(* A step of a solver is a step of the search it promises, or none. *)
LEMMA StepIsSearch ==
  ASSUME IInv, AnswersInv, AnswersInv', ~HasSentinelDistance(problem), [Next]_vars
  PROVE  [Search!Next]_(Search!vars)
<1>1. UNCHANGED inputs /\ problem' = problem /\ Start' = Start
  BY InputsStay, SameTours DEF inputs
<1>2. ASSUME Incumbent' = Incumbent, (phase = "done")' <=> (phase = "done")
      PROVE  UNCHANGED Search!vars
  BY <1>1, <1>2 DEF Search!vars
<1>3. \A route : Search!Tour(route)
                    = [order |-> route, total_cost |-> RouteCost(problem, route)]
  BY SameData DEF Search!Tour
<1>4. CASE ReturnEmpty
  BY <1>1, <1>4
  DEF ReturnEmpty, Search!Next, Search!Finish, Incumbent, IInv, PartsKeepTheirs
<1>5. CASE BuildSeed
  BY <1>2, <1>5 DEF BuildSeed, outer, Incumbent
<1>6. CASE RefineSeed
  <2>1. Incumbent = {} /\ Incumbent' = {Search!Tour(order)} /\ problem.size > 0
    BY <1>1, <1>3, <1>6 DEF RefineSeed, EnterRefinement, Incumbent, RefinedTour
  <2>2. IsRouteFrom(problem, Start, order)
    BY <1>6, Constructed, AnswerIsRoute DEF RefineSeed, IInv, PartsKeepTheirs
  <2> QED
    BY <1>1, <1>6, <2>1, <2>2, SameData
    DEF RefineSeed, EnterRefinement, Search!Next, Search!Find
<1>7. CASE Refine
  <2>1. /\ Refining!SearchInv' /\ InRefinement /\ phase' = phase /\ best' = best
        /\ RefinedTour' = RefinedTour \/ total_cost' < total_cost
    BY <1>7, RefineStep DEF Refine, outer, IInv, PartsKeepTheirs, InRefinement
  <2>2. CASE phase = "refine_candidate" \/ RefinedTour' = RefinedTour
    BY <1>2, <2>1, <2>2 DEF Incumbent, InRefinement
  <2>3. CASE phase = "refine_seed" /\ total_cost' < total_cost
    <3>1. Incumbent = {RefinedTour} /\ Incumbent' = {RefinedTour'}
      BY <2>1, <2>3 DEF Incumbent
    <3>2. RefinedTour' = Search!Tour(order') /\ total_cost' = RouteCost(problem, order')
      BY <1>1, <1>3, <2>1, NextTour DEF IsTour, RefinedTour
    <3>3. IsRouteFrom(problem, Start, order')
      <4>1. IsAnswer(order')
        BY <1>1, <2>1, SameTours DEF AnswersInv, InRefinement
      <4> QED
        BY <4>1, AnswerIsRoute
    <3>4. RefinedTour.total_cost = total_cost
      BY DEF RefinedTour
    <3>5. order' \in Search!RoutesFrom(problem, Start)
            /\ Search!RouteCost(problem, order') < RefinedTour.total_cost
      BY <2>3, <3>2, <3>3, <3>4, SameData
    <3> QED
      BY <1>1, <2>1, <2>3, <3>1, <3>2, <3>5 DEF Search!Next, Search!Improve
  <2> QED
    BY <2>1, <2>2, <2>3 DEF InRefinement
<1>8. CASE KeepSeed
  <2>1. Incumbent = {RefinedTour} /\ Incumbent' = {RefinedTour} /\ phase = "refine_seed"
    BY <1>8 DEF KeepSeed, Incumbent
  <2>2. CASE method = "ILS"
    BY <1>2, <1>8, <2>1, <2>2 DEF KeepSeed
  <2>3. CASE method # "ILS"
    BY <1>1, <1>8, <2>1, <2>3 DEF KeepSeed, Search!Next, Search!Finish
  <2> QED
    BY <2>2, <2>3
<1>9. CASE Perturb
  BY <1>2, <1>9 DEF Perturb, EnterRefinement, Incumbent
<1>10. CASE KeepCandidate
  <2>1. Incumbent = best /\ Incumbent' = best' /\ phase = "refine_candidate"
          /\ phase' = "perturb"
    BY <1>10 DEF KeepCandidate, Incumbent
  <2>2. CASE ~Beats
    BY <1>2, <1>10, <2>1, <2>2 DEF KeepCandidate
  <2>3. CASE Beats
    <3>1. Refining!SearchInv
      BY <1>10 DEF KeepCandidate, IInv, PartsKeepTheirs, InRefinement
    <3>2. RefinedTour = Search!Tour(order) /\ total_cost = RouteCost(problem, order)
      BY <1>3, <3>1, RefiningTour DEF IsTour, RefinedTour
    <3>3. IsRouteFrom(problem, Start, order)
      BY <2>1, AnswerIsRoute DEF AnswersInv, InRefinement
    <3>4. PICK tour \in best : RouteCost(problem, order) < tour.total_cost
      BY <2>1, <2>3, <3>2 DEF Beats, IInv, TypeOK
    <3>5. best' = {Search!Tour(order)}
      BY <1>10, <2>3, <3>2 DEF KeepCandidate
    <3>6. order \in Search!RoutesFrom(problem, Start)
            /\ Search!RouteCost(problem, order) < tour.total_cost
      BY <3>3, <3>4, SameData
    <3> QED
      BY <1>1, <2>1, <3>4, <3>5, <3>6 DEF Search!Next, Search!Improve
  <2> QED
    BY <2>2, <2>3
<1>11. CASE Return
  BY <1>1, <1>11 DEF Return, Incumbent, Search!Next, Search!Finish, IInv, TypeOK
<1>12. CASE UNCHANGED vars
  BY <1>2, <1>12 DEF vars, outer, Incumbent, RefinedTour
<1> QED
  BY <1>4, <1>5, <1>6, <1>7, <1>8, <1>9, <1>10, <1>11, <1>12 DEF Next

-----------------------------------------------------------------------------
(* The inductive invariant holds in every reachable state. *)
THEOREM Invariance == Spec => []IInv
  BY InitIInv, NextIInv, PTL DEF Spec

(* One tour at most is kept, after every refinement with an entry for each *)
(* node, and the number of perturbations stays in its bound.               *)
THEOREM TypeCorrect == Spec => []TypeOK
  BY Invariance, PTL DEF IInv

(* The tour returned, of either solver, is a local optimum, overflow or    *)
(* sentinel distances notwithstanding.                                     *)
THEOREM ReturnsLocalOptimum == Spec => []ResultLocallyOptimal
<1>1. IInv => ResultLocallyOptimal
  BY DEF IInv, BestIsLocallyOptimal, CannotImprove, ResultLocallyOptimal
<1> QED
  BY <1>1, Invariance, PTL

(* Without the sentinel distance, every step of the solvers is a step the  *)
(* monotone search allows: it holds a route from the start with its true   *)
(* cost, and gives it up only for a strictly cheaper one.                  *)
THEOREM StepsAreSearch ==
  Spec /\ ~HasSentinelDistance(problem)
    => Search!Init /\ [][Search!Next]_(Search!vars)
<1>1. Init => Search!Init
  BY DEF Init, Search!Init, Incumbent
<1>2. IInv /\ AnswersInv /\ [Next]_vars => AnswersInv'
  BY AnswersStay
<1>3. ~HasSentinelDistance(problem) /\ [Next]_vars => ~HasSentinelDistance(problem)'
  BY InputsStay DEF inputs
<1>4. IInv /\ AnswersInv /\ AnswersInv' /\ ~HasSentinelDistance(problem) /\ [Next]_vars
        => [Search!Next]_(Search!vars)
  BY StepIsSearch
<1> QED
  BY <1>1, <1>2, <1>3, <1>4, InitIInv, NextIInv, PTL DEF Spec

(* What a caller may rely on, for any problem: the tour of either solver   *)
(* is one of the answers, and the cost handed back is what it costs.       *)
THEOREM AnswersLocalSearch ==
  Spec => [](phase = "done" =>
               IF problem.size = 0
               THEN best = {} /\ <<>> \in ScanAnswers(problem, Start)
               ELSE \E tour \in best :
                      /\ best = {tour}
                      /\ tour.order \in ScanAnswers(problem, Start)
                      /\ tour.total_cost = RouteCost(problem, tour.order))
<1> DEFINE Kept == phase = "done" =>
                     IF problem.size = 0
                     THEN best = {} /\ <<>> \in ScanAnswers(problem, Start)
                     ELSE \E tour \in best :
                            /\ best = {tour}
                            /\ tour.order \in ScanAnswers(problem, Start)
                            /\ tour.total_cost = RouteCost(problem, tour.order)
<1>1. ASSUME IInv, AnswersInv, phase = "done", problem.size = 0
      PROVE  best = {} /\ <<>> \in ScanAnswers(problem, Start)
  <2>1. best = {}
    BY <1>1 DEF IInv, TypeOK
  <2>2. IsRoute(problem, <<>>) /\ <<>> \in [1 .. problem.size -> Nodes(problem)]
    BY <1>1 DEF IsRoute
  <2> QED
    BY <1>1, <2>1, <2>2 DEF ScanAnswers, ToursFrom, OnlyZeroTwice
<1>2. ASSUME IInv, AnswersInv, phase = "done", problem.size # 0
      PROVE  \E tour \in best : /\ best = {tour}
                                /\ tour.order \in ScanAnswers(problem, Start)
                                /\ tour.total_cost = RouteCost(problem, tour.order)
  <2>1. best # {}
    BY <1>2, InputsOK DEF IInv, TypeOK
  <2> QED
    BY <1>2, <2>1
    DEF IInv, OneBest, BestIsLocallyOptimal, IsTour, AnswersInv, IsAnswer
<1>3. IInv /\ AnswersInv => Kept
  BY <1>1, <1>2
<1>4. IInv /\ AnswersInv /\ [Next]_vars => AnswersInv'
  BY AnswersStay
<1> HIDE DEF Kept
<1>5. Spec => []Kept
  BY <1>3, <1>4, InitIInv, NextIInv, PTL DEF Spec
<1> QED
  BY <1>5 DEF Kept
=============================================================================
