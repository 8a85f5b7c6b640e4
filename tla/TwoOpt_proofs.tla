---------------------------- MODULE TwoOpt_proofs ----------------------------
(***************************************************************************)
(* Proofs about the 2-opt refinement, for every set of problems and every  *)
(* width of the costs.  What the search guarantees in the costs it computes *)
(* holds of any cost function; that these are not misleading when sums     *)
(* overflow is the part about TrueCost.                                    *)
(***************************************************************************)
EXTENDS TwoOpt, WellFoundedInduction, TLAPS

Inputs ==
  /\ problem \in Problems
  /\ IsRoute(problem, seed)

(* What the search keeps true of any tour it is given, a route or not: the *)
(* pairs tried so far are what LocallyOptimal rests on when the scan ends, *)
(* and the bounds of i and k what keeps every reversal inside the tour.    *)
SearchInv ==
  /\ problem.size \in Nat
  /\ TypeOK
  /\ CostMatchesOrder
  /\ TriedMovesDoNotImprove
  /\ LocallyOptimal

(* The inductive invariant: the search, on a tour that is still a route. *)
IInv ==
  /\ Inputs
  /\ SearchInv
  /\ StaysRoute

-----------------------------------------------------------------------------
(* What the assumptions on the problems say of the arguments. *)
LEMMA InputsOK ==
  ASSUME Inputs
  PROVE  problem.size \in Nat
  BY ProblemsAssumption DEF Inputs, IsProblem

(* Reversing a stretch that leaves out the first position gives a tour of  *)
(* the same length and the same start.                                     *)
LEMMA ReversedTour ==
  ASSUME NEW S, NEW tour \in Seq(S),
         NEW first \in Nat \ {0}, NEW last \in Nat, first < last, last < Len(tour)
  PROVE  /\ Reversed(tour, first, last) \in Seq(S)
         /\ Len(Reversed(tour, first, last)) = Len(tour)
         /\ Reversed(tour, first, last)[1] = tour[1]
<1> DEFINE n == Len(tour)
           flip(p) == IF first + 1 <= p /\ p <= last + 1 THEN first + last + 2 - p ELSE p
<1>1. n \in Nat /\ DOMAIN tour = 1 .. n /\ \A p \in 1 .. n : tour[p] \in S
  OBVIOUS
<1>2. \A p \in 1 .. n : flip(p) \in 1 .. n
  BY <1>1
<1>3. Reversed(tour, first, last) = [p \in 1 .. n |-> tour[flip(p)]]
  BY <1>1 DEF Reversed
<1>4. flip(1) = 1 /\ 1 \in 1 .. n
  BY <1>1
<1> HIDE DEF n, flip
<1>5. [p \in 1 .. n |-> tour[flip(p)]] \in [1 .. n -> S]
  BY <1>1, <1>2
<1>6. /\ [p \in 1 .. n |-> tour[flip(p)]] \in Seq(S)
      /\ Len([p \in 1 .. n |-> tour[flip(p)]]) = n
  BY <1>1, <1>5
<1> QED
  BY <1>3, <1>4, <1>6 DEF n

(* Reversing a stretch exchanges positions, so a route stays a route. *)
LEMMA ReversedRoute ==
  ASSUME NEW prob, prob.size \in Nat, NEW tour, IsRoute(prob, tour),
         NEW first \in Nat \ {0}, NEW last \in Nat, first < last, last < prob.size
  PROVE  IsRoute(prob, Reversed(tour, first, last))
<1> DEFINE n == prob.size
           flip(p) == IF first + 1 <= p /\ p <= last + 1 THEN first + last + 2 - p ELSE p
<1>1. tour \in [1 .. n -> Nodes(prob)] /\ n \in Nat
  BY DEF IsRoute
<1>2. \A p \in 1 .. n : flip(p) \in 1 .. n
  OBVIOUS
<1>3. \A p, q \in 1 .. n : flip(p) = flip(q) => p = q
  OBVIOUS
<1>4. Reversed(tour, first, last) = [p \in 1 .. n |-> tour[flip(p)]]
  BY <1>1 DEF Reversed
<1> HIDE DEF flip
<1>5. \A p, q \in 1 .. n : tour[p] = tour[q] => p = q
  BY DEF IsRoute
<1>6. [p \in 1 .. n |-> tour[flip(p)]] \in [1 .. n -> Nodes(prob)]
  BY <1>1, <1>2
<1>7. \A p, q \in 1 .. n : tour[flip(p)] = tour[flip(q)] => p = q
  BY <1>2, <1>3, <1>5
<1> QED
  BY <1>4, <1>6, <1>7 DEF IsRoute

(* A route is a sequence of nodes as long as the problem is large. *)
LEMMA RouteIsSeq ==
  ASSUME NEW prob, prob.size \in Nat, NEW tour, IsRoute(prob, tour)
  PROVE  tour \in Seq(Nodes(prob)) /\ Len(tour) = prob.size
  BY DEF IsRoute

(* A search that begins, with a tour of every length the problem may have. *)
Entered ==
  /\ problem.size \in Nat
  /\ order \in Seq(Nodes(problem)) /\ Len(order) = problem.size
  /\ total_cost = RouteCost(problem, order)
  /\ i = 1 /\ k = 2 /\ pc = "scan"

(* A search that begins has tried no pair. *)
LEMMA EnterSearchInv == Entered => SearchInv
<1> SUFFICES ASSUME Entered
             PROVE  SearchInv
  OBVIOUS
<1> USE DEF Entered
<1>1. TypeOK
  BY DEF TypeOK, Scanning
<1>2. TriedMovesDoNotImprove
  BY DEF TriedMovesDoNotImprove, Moves
<1> QED
  BY <1>1, <1>2 DEF SearchInv, CostMatchesOrder, LocallyOptimal

(* A reversal keeps the bounds and the cost, and the scan starts again. *)
LEMMA ImproveSearchInv ==
  ASSUME SearchInv, Improve
  PROVE  SearchInv' /\ order'[1] = order[1]
<1> USE DEF SearchInv
<1>1. problem' = problem /\ i' = 1 /\ k' = 2 /\ pc' = pc /\ pc = "scan"
  BY DEF Improve, Scanning
<1>2. /\ i \in Nat \ {0} /\ k \in Nat /\ i < k /\ k < problem.size
      /\ order \in Seq(Nodes(problem)) /\ Len(order) = problem.size
  BY DEF Improve, TypeOK
<1>3. order' = Reversed(order, i, k)
  BY DEF Improve, Candidate
<1>4. /\ order' \in Seq(Nodes(problem)) /\ Len(order') = problem.size
      /\ order'[1] = order[1]
  BY <1>2, <1>3, ReversedTour
<1>5. TypeOK'
  BY <1>1, <1>4 DEF TypeOK, Scanning
<1>6. CostMatchesOrder'
  BY <1>1 DEF CostMatchesOrder, Improve, CandidateCost, Candidate
<1>7. TriedMovesDoNotImprove'
  BY <1>1 DEF TriedMovesDoNotImprove, Moves
<1>8. LocallyOptimal'
  BY <1>1 DEF LocallyOptimal
<1> QED
  BY <1>1, <1>4, <1>5, <1>6, <1>7, <1>8

(* One more pair has been tried without improving the tour. *)
LEMMA AdvanceSearchInv == ASSUME SearchInv, Advance PROVE SearchInv'
<1> USE DEF SearchInv
<1>1. UNCHANGED <<problem, seed, order, total_cost, pc>>
  BY DEF Advance
<1>2. /\ i \in Nat \ {0} /\ k \in Nat /\ i < k /\ k < problem.size
      /\ i + 1 < problem.size
      /\ Len(order) = problem.size
  BY DEF Advance, TypeOK, Scanning
<1>3. IF k + 1 < problem.size THEN k' = k + 1 /\ i' = i
                              ELSE i' = i + 1 /\ k' = i + 2
  BY <1>2 DEF Advance
<1>4. CostMatchesOrder'
  BY <1>1 DEF CostMatchesOrder
<1>5. TypeOK'
  BY <1>1, <1>2, <1>3 DEF TypeOK, Scanning
<1>6. ~Improves(<<i, k>>)
  BY DEF Advance, Improves, CandidateCost, Candidate
<1>7. TriedMovesDoNotImprove'
  <2>1. Moves' = Moves
    BY <1>1 DEF Moves
  <2> SUFFICES ASSUME NEW move \in Moves,
                      move[1] < i' \/ (move[1] = i' /\ move[2] < k')
               PROVE  ~Improves(move)
    BY <1>1, <2>1 DEF TriedMovesDoNotImprove, Improves
  <2>2. /\ move[1] \in Nat /\ move[2] \in Nat
        /\ move[1] < move[2] /\ move[2] < problem.size
        /\ move = <<move[1], move[2]>>
    BY DEF Moves
  <2>3. CASE move[1] < i \/ (move[1] = i /\ move[2] < k)
    BY <2>3 DEF TriedMovesDoNotImprove
  <2>4. CASE move[1] = i /\ move[2] = k
    BY <2>2, <2>4, <1>6
  <2>5. move[1] < i \/ (move[1] = i /\ move[2] <= k)
    BY <2>2, <1>1, <1>2, <1>3
  <2> QED
    BY <2>2, <2>3, <2>4, <2>5, <1>2
<1>8. LocallyOptimal'
  BY <1>1 DEF LocallyOptimal, Advance, Scanning
<1> QED
  BY <1>1, <1>4, <1>5, <1>7, <1>8

(* A scan that has ended has tried every pair. *)
LEMMA ScanEndsLocallyOptimal ==
  ASSUME SearchInv, pc = "scan", ~Scanning
  PROVE  \A move \in Moves : ~Improves(move)
<1> SUFFICES ASSUME NEW move \in Moves
             PROVE  ~Improves(move)
  OBVIOUS
<1>1. i \in Nat /\ i + 1 >= problem.size /\ problem.size \in Nat
  BY DEF SearchInv, Scanning, TypeOK
<1>2. move[1] \in Nat /\ move[2] \in Nat /\ move[1] < move[2] /\ move[2] <= problem.size - 1
  BY <1>1 DEF Moves
<1>3. move[1] < i
  BY <1>1, <1>2
<1> QED
  BY <1>3 DEF SearchInv, TriedMovesDoNotImprove

-----------------------------------------------------------------------------
(* The seed is a route, and no pair has been tried. *)
LEMMA InitIInv == Init => IInv
<1> SUFFICES ASSUME Init
             PROVE  IInv
  OBVIOUS
<1>1. Inputs
  BY DEF Init, Inputs, Routes, IsRoute
<1>2. problem.size \in Nat
  BY <1>1, InputsOK
<1>3. order \in Seq(Nodes(problem)) /\ Len(order) = problem.size
  BY <1>1, <1>2, RouteIsSeq DEF Init, Inputs
<1>4. SearchInv
  BY <1>2, <1>3, EnterSearchInv DEF Init, Entered
<1> QED
  BY <1>1, <1>4 DEF Init, Inputs, IInv, StaysRoute

(* A reversal keeps a route a route from the same start. *)
LEMMA ImproveIInv == ASSUME IInv, Improve PROVE IInv'
<1> USE DEF IInv
<1>1. UNCHANGED <<problem, seed>> /\ problem.size \in Nat
  BY DEF Improve, SearchInv
<1>2. SearchInv' /\ order'[1] = order[1]
  BY ImproveSearchInv
<1>3. i \in Nat \ {0} /\ k \in Nat /\ i < k /\ k < problem.size
  BY DEF SearchInv, Improve, TypeOK
<1>4. order' = Reversed(order, i, k)
  BY DEF Improve, Candidate
<1>5. IsRoute(problem, order')
  BY <1>1, <1>3, <1>4, ReversedRoute DEF StaysRoute
<1>6. StaysRoute'
  BY <1>1, <1>2, <1>5 DEF StaysRoute
<1> QED
  BY <1>1, <1>2, <1>6 DEF Inputs

(* A pair that does not improve the tour leaves it. *)
LEMMA AdvanceIInv == ASSUME IInv, Advance PROVE IInv'
<1>1. UNCHANGED <<problem, seed, order>>
  BY DEF Advance
<1>2. SearchInv'
  BY AdvanceSearchInv DEF IInv
<1> QED
  BY <1>1, <1>2 DEF IInv, Inputs, StaysRoute

(* A scan that ends has tried every pair. *)
LEMMA FinishIInv == ASSUME IInv, Finish PROVE IInv'
<1> USE DEF IInv
<1>1. UNCHANGED <<problem, seed, order, total_cost, i, k>>
  BY DEF Finish
<1>2. Inputs' /\ StaysRoute'
  BY <1>1 DEF Inputs, StaysRoute
<1>3. \A move \in Moves : ~Improves(move)
  BY ScanEndsLocallyOptimal DEF Finish
<1>4. SearchInv'
  BY <1>1, <1>3
  DEF SearchInv, TypeOK, Finish, Scanning, CostMatchesOrder,
      TriedMovesDoNotImprove, LocallyOptimal, Moves, Improves
<1> QED
  BY <1>2, <1>4

(* Every step of the refinement preserves the invariant. *)
LEMMA NextIInv == IInv /\ [Next]_vars => IInv'
<1> SUFFICES ASSUME IInv, [Next]_vars
             PROVE  IInv'
  OBVIOUS
<1>1. CASE Improve
  BY <1>1, ImproveIInv
<1>2. CASE Advance
  BY <1>2, AdvanceIInv
<1>3. CASE Finish
  BY <1>3, FinishIInv
<1>4. CASE UNCHANGED vars
  BY <1>4
  DEF vars, IInv, SearchInv, Inputs, TypeOK, StaysRoute, CostMatchesOrder, Scanning,
      TriedMovesDoNotImprove, LocallyOptimal, Moves, Improves
<1> QED
  BY <1>1, <1>2, <1>3, <1>4 DEF Next

-----------------------------------------------------------------------------
(* Overflow.  Induction on the natural numbers, stated of a set. *)
LEMMA SetInduction ==
  ASSUME NEW S \in SUBSET Nat, 0 \in S, \A n \in S : n + 1 \in S
  PROVE  S = Nat
<1> SUFFICES ASSUME Nat \ S # {}
             PROVE  FALSE
  OBVIOUS
<1> DEFINE Less == {pair \in Nat \X Nat : pair[1] < pair[2]}
<1>1. IsWellFoundedOn(Less, Nat)
  BY NatLessThanWellFounded DEF OpToRel
<1>2. PICK n \in Nat \ S : \A m \in Nat \ S : <<m, n>> \notin Less
  BY <1>1, WFMin
<1>3. n # 0
  OBVIOUS
<1>4. n - 1 \in Nat /\ <<n - 1, n>> \in Less
  BY <1>3
<1>5. n - 1 \in S /\ n - 1 + 1 = n
  BY <1>2, <1>3, <1>4
<1> QED
  BY <1>5

(* A running total exists, whatever function of a position and the total   *)
(* so far gives the next one, ...                                          *)
IsRunning(total, n, next) ==
  /\ total \in [0 .. n -> Int]
  /\ total[0] = 0
  /\ \A p \in 1 .. n : total[p] = next[<<p, total[p - 1]>>]

(* Any steps can be taken one after the other over a finite stretch. *)
LEMMA RunningExists ==
  ASSUME NEW n \in Nat, NEW next \in [(1 .. n) \X Int -> Int]
  PROVE  \E total : IsRunning(total, n, next)
<1> DEFINE S == {m \in Nat : m <= n => \E total : IsRunning(total, m, next)}
<1>1. 0 \in S
  <2>1. IsRunning([p \in 0 .. 0 |-> 0], 0, next)
    BY DEF IsRunning
  <2> QED
    BY <2>1
<1>2. ASSUME NEW m \in S
      PROVE  m + 1 \in S
  <2> SUFFICES ASSUME m + 1 <= n
               PROVE  \E total : IsRunning(total, m + 1, next)
    OBVIOUS
  <2>1. PICK total : IsRunning(total, m, next)
    OBVIOUS
  <2> DEFINE more == [p \in 0 .. m + 1 |->
                        IF p = m + 1 THEN next[<<m + 1, total[m]>>] ELSE total[p]]
  <2>2. next[<<m + 1, total[m]>>] \in Int
    BY <2>1 DEF IsRunning
  <2>3. more \in [0 .. m + 1 -> Int] /\ more[0] = 0
    BY <2>1, <2>2 DEF IsRunning
  <2>4. ASSUME NEW p \in 1 .. m + 1
        PROVE  more[p] = next[<<p, more[p - 1]>>]
    <3>1. CASE p = m + 1
      <4>1. p \in 0 .. m + 1 /\ m \in 0 .. m + 1 /\ p - 1 = m /\ m # m + 1
        BY <3>1
      <4>2. more[p] = next[<<m + 1, total[m]>>] /\ more[m] = total[m]
        BY <3>1, <4>1
      <4> QED
        BY <3>1, <4>1, <4>2
    <3>2. CASE p \in 1 .. m
      BY <2>1, <3>2 DEF IsRunning
    <3> QED
      BY <3>1, <3>2
  <2> HIDE DEF more
  <2>5. IsRunning(more, m + 1, next)
    BY <2>3, <2>4 DEF IsRunning
  <2> QED
    BY <2>5
<1>3. S \in SUBSET Nat
  OBVIOUS
<1> HIDE DEF S
<1>4. S = Nat
  BY <1>1, <1>2, <1>3, SetInduction
<1> QED
  BY <1>4 DEF S

(* ... and two that agree step by step agree at the end. *)
LEMMA EqualTotals ==
  ASSUME NEW n \in Nat, NEW total, NEW other, other[0] = total[0],
         \A p \in 1 .. n : other[p - 1] = total[p - 1] => other[p] = total[p]
  PROVE  other[n] = total[n]
<1> DEFINE S == {m \in Nat : m <= n => other[m] = total[m]}
<1>1. 0 \in S
  OBVIOUS
<1>2. ASSUME NEW m \in S
      PROVE  m + 1 \in S
  OBVIOUS
<1>3. S \in SUBSET Nat
  OBVIOUS
<1> HIDE DEF S
<1>4. S = Nat
  BY <1>1, <1>2, <1>3, SetInduction
<1> QED
  BY <1>4 DEF S

(* Wrapping adds a multiple of the number of costs. *)
Width == CostMax - CostMin + 1

(* The wrapped number is within the costs, a multiple of the width away. *)
LEMMA WrapAddsWidths ==
  \A sum \in Int : /\ Wrap(sum) \in Costs /\ Wrap(sum) \in Int
                   /\ \E q \in Int : Wrap(sum) = sum + q * Width
<1> SUFFICES ASSUME NEW sum \in Int
             PROVE  /\ Wrap(sum) \in Costs /\ Wrap(sum) \in Int
                    /\ \E q \in Int : Wrap(sum) = sum + q * Width
  OBVIOUS
<1>1. Width \in Nat /\ Width > 0
  BY CostRangeAssumption DEF Width
<1>2. Wrap(sum) \in Costs /\ Wrap(sum) \in Int
  BY CostRangeAssumption DEF Wrap, Costs
<1> DEFINE x == sum - CostMin
<1>3. x \in Int /\ Wrap(sum) = (x % Width) + CostMin
  BY CostRangeAssumption DEF Wrap, Width
<1>4. PICK r \in Int : r = x % Width
  BY <1>1, <1>3
<1>5. PICK d \in Int : x = Width * d + r
  <2>1. x \div Width \in Int /\ x = Width * (x \div Width) + (x % Width)
    BY <1>1, <1>3
  <2> QED
    BY <1>4, <2>1
<1>6. PICK w \in Int : w = Width * d
  BY <1>1
<1>7. -d \in Int /\ (-d) * Width = -w
  BY <1>1, <1>6
<1>8. Wrap(sum) = r + CostMin /\ sum - CostMin = w + r
  BY <1>3, <1>4, <1>5, <1>6
<1>9. Wrap(sum) = sum + -w
  BY <1>8, CostRangeAssumption
<1> QED
  BY <1>2, <1>7, <1>9

(* The cost of two tours that differ by a multiple of the width, and are   *)
(* both within it, is the same.                                            *)
LEMMA NoWidthBetweenCosts ==
  ASSUME NEW a \in Costs, NEW b \in Costs, NEW q \in Int, a = b + q * Width
  PROVE  a = b
<1>1. a \in Int /\ b \in Int /\ Width \in Nat /\ a - b < Width /\ b - a < Width
  BY CostRangeAssumption DEF Costs, Width
<1>2. CASE q >= 1
  <2>1. q * Width >= Width
    BY <1>1, <1>2
  <2> QED
    BY <1>1, <2>1
<1>3. CASE q <= -1
  <2>1. q * Width <= -Width
    BY <1>1, <1>3
  <2> QED
    BY <1>1, <2>1
<1>4. CASE q = 0
  BY <1>1, <1>4
<1> QED
  BY <1>2, <1>3, <1>4

(* What is added up after position p of a tour. *)
Hop(tour, p) == Distance(problem, tour[p], tour[After(tour, p)])

(* Every hop of a route is an integer. *)
LEMMA HopIsInt ==
  ASSUME Inputs, NEW tour, IsRoute(problem, tour), NEW p \in 1 .. problem.size
  PROVE  Hop(tour, p) \in Int
<1>1. problem.size \in Nat
  BY InputsOK
<1>2. tour \in Seq(Nodes(problem)) /\ Len(tour) = problem.size
  BY <1>1, RouteIsSeq
<1>3. After(tour, p) \in 1 .. problem.size
  BY <1>1, <1>2 DEF After
<1>4. tour[p] \in Nodes(problem) /\ tour[After(tour, p)] \in Nodes(problem)
  BY <1>2, <1>3
<1>5. Distance(problem, tour[p], tour[After(tour, p)]) \in Costs
  BY <1>4, ProblemsAssumption DEF Inputs, IsProblem, Distance
<1> QED
  BY <1>5, CostRangeAssumption DEF Hop, Costs

(* The cost of a route is its true cost and a multiple of the width: sums  *)
(* that wrap on the way to it do not show.                                 *)
LEMMA CostIsCongruent ==
  ASSUME Inputs, NEW tour, IsRoute(problem, tour)
  PROVE  /\ RouteCost(problem, tour) \in Int
         /\ TrueCost(tour) \in Int
         /\ TrueCost(tour) \in Costs => RouteCost(problem, tour) = TrueCost(tour)
<1> DEFINE n == Len(tour)
<1>1. tour \in Seq(Nodes(problem)) /\ n = problem.size /\ n \in Nat
  BY InputsOK, RouteIsSeq
<1>2. \A p \in 1 .. n : Hop(tour, p) \in Int
  BY <1>1, HopIsInt
<1> DEFINE exact == [step \in (1 .. n) \X Int |-> step[2] + Hop(tour, step[1])]
           wrapped == [step \in (1 .. n) \X Int |-> Wrap(step[2] + Hop(tour, step[1]))]
<1>3. exact \in [(1 .. n) \X Int -> Int]
  BY <1>2
<1>4. wrapped \in [(1 .. n) \X Int -> Int]
  <2>1. ASSUME NEW step \in (1 .. n) \X Int
        PROVE  Wrap(step[2] + Hop(tour, step[1])) \in Int
    <3>1. step[2] + Hop(tour, step[1]) \in Int
      BY <1>2
    <3> QED
      BY <3>1, WrapAddsWidths
  <2> QED
    BY <2>1
<1>5. PICK sum : IsRunning(sum, n, exact)
  BY <1>1, <1>3, RunningExists
<1>6. PICK total : IsRunning(total, n, wrapped)
  BY <1>1, <1>4, RunningExists
<1>7. \A p \in 1 .. n : sum[p] = sum[p - 1] + Hop(tour, p)
  <2> SUFFICES ASSUME NEW p \in 1 .. n
               PROVE  sum[p] = sum[p - 1] + Hop(tour, p)
    OBVIOUS
  <2>1. p - 1 \in 0 .. n /\ sum[p - 1] \in Int /\ <<p, sum[p - 1]>> \in (1 .. n) \X Int
    BY <1>1, <1>5 DEF IsRunning
  <2>2. sum[p] = exact[<<p, sum[p - 1]>>]
    BY <1>5 DEF IsRunning
  <2> QED
    BY <2>1, <2>2
<1>8. \A p \in 1 .. n : total[p] = Wrap(total[p - 1] + Hop(tour, p))
  <2> SUFFICES ASSUME NEW p \in 1 .. n
               PROVE  total[p] = Wrap(total[p - 1] + Hop(tour, p))
    OBVIOUS
  <2>1. p - 1 \in 0 .. n /\ total[p - 1] \in Int /\ <<p, total[p - 1]>> \in (1 .. n) \X Int
    BY <1>1, <1>6 DEF IsRunning
  <2>2. total[p] = wrapped[<<p, total[p - 1]>>]
    BY <1>6 DEF IsRunning
  <2> QED
    BY <2>1, <2>2
<1> HIDE DEF exact, wrapped
<1>9. TrueCost(tour) = sum[n]
  <2> DEFINE IsCost(t) ==
               t = [p \in 0 .. n |->
                      IF p = 0 THEN 0
                      ELSE t[p - 1] + Distance(problem, tour[p], tour[After(tour, p)])]
             cost == CHOOSE t : IsCost(t)
  <2>1. IsCost(sum)
    BY <1>1, <1>5, <1>7 DEF IsRunning, Hop
  <2>2. TrueCost(tour) = cost[n]
    BY DEF TrueCost
  <2>3. IsCost(cost)
    <3> HIDE DEF IsCost
    <3> QED
      BY <2>1
  <2> HIDE DEF cost
  <2>4. cost[0] = sum[0]
    BY <1>1, <2>3, <1>5 DEF IsRunning
  <2>5. ASSUME NEW p \in 1 .. n, cost[p - 1] = sum[p - 1]
        PROVE  cost[p] = sum[p]
    BY <1>1, <2>1, <2>3, <2>5
  <2>6. cost[n] = sum[n]
    BY <1>1, <2>4, <2>5, EqualTotals
  <2> QED
    BY <2>2, <2>6
<1>10. RouteCost(problem, tour) = total[n]
  <2> DEFINE IsCost(t) ==
               t = [p \in 0 .. n |->
                      IF p = 0 THEN 0
                      ELSE Wrap(t[p - 1]
                                  + Distance(problem, tour[p], tour[After(tour, p)]))]
             cost == CHOOSE t : IsCost(t)
  <2>1. IsCost(total)
    BY <1>1, <1>6, <1>8 DEF IsRunning, Hop
  <2>2. RouteCost(problem, tour) = cost[n]
    BY DEF RouteCost
  <2>3. IsCost(cost)
    <3> HIDE DEF IsCost
    <3> QED
      BY <2>1
  <2> HIDE DEF cost
  <2>4. cost[0] = total[0]
    BY <1>1, <2>3, <1>6 DEF IsRunning
  <2>5. ASSUME NEW p \in 1 .. n, cost[p - 1] = total[p - 1]
        PROVE  cost[p] = total[p]
    BY <1>1, <2>1, <2>3, <2>5
  <2>6. cost[n] = total[n]
    BY <1>1, <2>4, <2>5, EqualTotals
  <2> QED
    BY <2>2, <2>6
<1>11. /\ sum[0] = 0 /\ total[0] = 0
       /\ \A p \in 0 .. n : sum[p] \in Int /\ total[p] \in Int
  BY <1>5, <1>6 DEF IsRunning
<1> DEFINE S == {m \in Nat : m <= n => \E q \in Int : total[m] = sum[m] + q * Width}
<1>12. 0 \in S
  <2>1. 0 \in Int /\ 0 * Width = 0 /\ Len(tour) \in Nat
    BY <1>1, CostRangeAssumption DEF Width
  <2>2. total[0] = sum[0] + 0 * Width
    BY <2>1, <1>11
  <2> QED
    BY <2>1, <2>2
<1>13. ASSUME NEW m \in S
       PROVE  m + 1 \in S
  <2> SUFFICES ASSUME m + 1 <= n
               PROVE  \E q \in Int : total[m + 1] = sum[m + 1] + q * Width
    OBVIOUS
  <2>1. PICK q \in Int : total[m] = sum[m] + q * Width
    BY <1>1
  <2>2. /\ sum[m + 1] = sum[m] + Hop(tour, m + 1)
        /\ total[m + 1] = Wrap(total[m] + Hop(tour, m + 1))
        /\ Hop(tour, m + 1) \in Int /\ sum[m] \in Int /\ total[m] \in Int
    BY <1>1, <1>2, <1>7, <1>8, <1>11
  <2>3. PICK r \in Int : total[m + 1] = total[m] + Hop(tour, m + 1) + r * Width
    <3>1. total[m] + Hop(tour, m + 1) \in Int
      BY <2>2
    <3> QED
      BY <2>2, <3>1, WrapAddsWidths
  <2>4. Width \in Int
    BY CostRangeAssumption DEF Width
  <2>5. q + r \in Int /\ (q + r) * Width = q * Width + r * Width
    BY <2>4
  <2>6. total[m + 1] = sum[m + 1] + (q + r) * Width
    BY <2>1, <2>2, <2>3, <2>4, <2>5
  <2> QED
    BY <2>5, <2>6
<1>14. S \in SUBSET Nat
  OBVIOUS
<1> HIDE DEF S
<1>15. S = Nat
  BY <1>12, <1>13, <1>14, SetInduction
<1>16. PICK q \in Int : total[n] = sum[n] + q * Width
  BY <1>1, <1>15 DEF S
<1>17. n > 0 => total[n] \in Costs
  <2> SUFFICES ASSUME n > 0
               PROVE  total[n] \in Costs
    OBVIOUS
  <2>1. n \in 1 .. n /\ n - 1 \in 0 .. n
    BY <1>1
  <2>2. total[n - 1] + Hop(tour, n) \in Int
    BY <1>2, <1>11, <2>1
  <2> QED
    BY <1>8, <2>1, <2>2, WrapAddsWidths
<1>18. n = 0 => total[n] = sum[n]
  BY <1>11
<1>19. sum[n] \in Costs => total[n] = sum[n]
  BY <1>1, <1>16, <1>17, <1>18, NoWidthBetweenCosts
<1> QED
  BY <1>1, <1>9, <1>10, <1>11, <1>19

(* Every improvement is one over the seed. *)
NoWorse == total_cost <= RouteCost(problem, seed)

(* Improvements only lower the cost, and the other steps leave it. *)
LEMMA NextNoWorse == IInv /\ IInv' /\ NoWorse /\ [Next]_vars => NoWorse'
<1> SUFFICES ASSUME IInv, IInv', NoWorse, [Next]_vars
             PROVE  NoWorse'
  OBVIOUS
<1>1. CASE Improve
  <2>1. UNCHANGED <<problem, seed>> /\ total_cost' < total_cost
    BY <1>1 DEF Improve
  <2>2. RouteCost(problem, seed) \in Int /\ total_cost \in Int
    BY CostIsCongruent DEF IInv, Inputs, SearchInv, CostMatchesOrder, StaysRoute
  <2>3. IsRoute(problem, order') /\ total_cost' = RouteCost(problem, order')
    BY <2>1 DEF IInv, SearchInv, CostMatchesOrder, StaysRoute
  <2>4. total_cost' \in Int
    BY <2>3, CostIsCongruent DEF IInv
  <2> QED
    BY <2>1, <2>2, <2>4 DEF NoWorse
<1>2. CASE UNCHANGED <<problem, seed, total_cost>>
  BY <1>2 DEF NoWorse
<1> QED
  BY <1>1, <1>2 DEF Next, Advance, Finish, vars

(* The routes compared are all among those whose cost is assumed to fit,   *)
(* so that what is less by its cost is less by its true cost.              *)
LEMMA CheaperIsShorter ==
  ASSUME IInv, NoWorse
  PROVE  TrueLocalOptimum
<1> SUFFICES ASSUME NoCostOverflows
             PROVE  /\ TrueCost(order) <= TrueCost(seed)
                    /\ pc = "done" =>
                         \A move \in Moves :
                           TrueCost(order) <= TrueCost(Reversed(order, move[1], move[2]))
  BY DEF TrueLocalOptimum
<1>1. Inputs /\ problem.size \in Nat /\ IsRoute(problem, order) /\ IsRoute(problem, seed)
  BY DEF IInv, Inputs, SearchInv, StaysRoute
<1>2. ASSUME NEW route, IsRoute(problem, route)
      PROVE  RouteCost(problem, route) = TrueCost(route) /\ TrueCost(route) \in Int
  <2>1. route \in Routes(problem)
    BY <1>2 DEF IsRoute, Routes
  <2> QED
    BY <1>1, <1>2, <2>1, CostIsCongruent DEF NoCostOverflows
<1>3. TrueCost(order) <= TrueCost(seed)
  BY <1>1, <1>2 DEF NoWorse, IInv, SearchInv, CostMatchesOrder
<1>4. ASSUME pc = "done", NEW move \in Moves
      PROVE  TrueCost(order) <= TrueCost(Reversed(order, move[1], move[2]))
  <2>1. /\ move[1] \in Nat \ {0} /\ move[2] \in Nat
        /\ move[1] < move[2] /\ move[2] < problem.size
    BY <1>1 DEF Moves
  <2>2. IsRoute(problem, Reversed(order, move[1], move[2]))
    BY <1>1, <2>1, ReversedRoute
  <2>3. ~(RouteCost(problem, Reversed(order, move[1], move[2])) < RouteCost(problem, order))
    BY <1>4 DEF IInv, SearchInv, LocallyOptimal, Improves, CostMatchesOrder
  <2> QED
    BY <1>1, <1>2, <2>2, <2>3
<1> QED
  BY <1>3, <1>4

-----------------------------------------------------------------------------
(* The inductive invariant holds in every reachable state. *)
THEOREM Invariance == Spec => []IInv
  BY InitIInv, NextIInv, PTL DEF Spec

(* The reversed range never leaves the vector. *)
THEOREM TypeCorrect == Spec => []TypeOK
  BY Invariance, PTL DEF IInv, SearchInv

(* The tour is a permutation of the nodes from the seed's start, always. *)
THEOREM TourStaysRoute == Spec => []StaysRoute
  BY Invariance, PTL DEF IInv, SearchInv

(* The cost reported is the cost of the tour reported, overflow or not. *)
THEOREM CostIsOfTour == Spec => []CostMatchesOrder
  BY Invariance, PTL DEF IInv, SearchInv

(* The tour handed back is a local optimum. *)
THEOREM EndsLocallyOptimal == Spec => []LocallyOptimal
  BY Invariance, PTL DEF IInv, SearchInv

(* As long as the costs of whole tours fit, the search is right about true *)
(* costs too, whatever wraps on the way.                                   *)
THEOREM OverflowDoesNotMislead == Spec => []TrueLocalOptimum
<1>1. Init => NoWorse
  <2> SUFFICES ASSUME Init
               PROVE  NoWorse
    OBVIOUS
  <2>1. RouteCost(problem, seed) \in Int
    BY InitIInv, CostIsCongruent DEF IInv, Inputs
  <2> QED
    BY <2>1 DEF Init, NoWorse
<1>2. IInv /\ NoWorse => TrueLocalOptimum
  BY CheaperIsShorter
<1> QED
  BY <1>1, <1>2, NextNoWorse, Invariance, PTL DEF Spec
=============================================================================
