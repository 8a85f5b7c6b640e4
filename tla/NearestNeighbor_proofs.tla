----------------------- MODULE NearestNeighbor_proofs -----------------------
(***************************************************************************)
(* Proofs about the nearest-neighbour construction, for every set of       *)
(* problems and start nodes and every width of the costs.                  *)
(***************************************************************************)
EXTENDS NearestNeighbor, Answers, FiniteSetTheorems, TLAPS

Inputs ==
  /\ problem \in Problems
  /\ start_node \in StartNodes

(* The flags are those of the nodes on the tour. *)
VisitedIsTour == visited = {order[p] : p \in DOMAIN order}

(* The tour has its start, and is complete when the function returns. *)
Framed ==
  /\ problem.size > 0 => Len(order) > 0 /\ order[1] = Start
  /\ pc = "done" => Len(order) = problem.size

Hop(node) == Distance(problem, Current, node)
Seen      == {node \in Nodes(problem) \ visited : node < candidate}

(* What the inner loop has established when it reaches `candidate`: either *)
(* all it has seen is at the sentinel distance and it holds nothing, or it *)
(* holds the nearest node seen, the lowest id among equals.                *)
BestSoFar ==
  Len(order) < problem.size =>
    \/ /\ next = 0
       /\ best_cost = CostMax
       /\ \A node \in Seen : Hop(node) = CostMax
    \/ /\ next \in Seen
       /\ best_cost = Hop(next)
       /\ best_cost < CostMax
       /\ \A node \in Seen :
            best_cost < Hop(node) \/ (best_cost = Hop(node) /\ next <= node)

(* Counting the visited nodes is what tells that a free one is left while  *)
(* the tour is shorter than the problem is large.                          *)
DistinctUnlessSentinel ==
  ~HasSentinelDistance(problem) =>
    /\ \A p, q \in DOMAIN order : order[p] = order[q] => p = q
    /\ Cardinality(visited) = Len(order)

IInv ==
  /\ Inputs
  /\ TypeOK
  /\ VisitedIsTour
  /\ Framed
  /\ BestSoFar
  /\ DistinctUnlessSentinel
  /\ OnlyNodeZeroRepeats
  /\ EveryHopIsNearest

-----------------------------------------------------------------------------
(* What the assumptions on the problems say of the arguments. *)
LEMMA InputsOK ==
  ASSUME Inputs
  PROVE  /\ problem.size \in Nat
         /\ \A from, to \in Nodes(problem) : Distance(problem, from, to) \in Costs
         /\ problem.size > 0 => Start \in Nodes(problem)
<1>1. problem.size \in Nat /\ start_node \in Nat
  BY ProblemsAssumption, StartNodesAssumption DEF Inputs, IsProblem
<1>2. \A from, to \in Nodes(problem) : Distance(problem, from, to) \in Costs
  BY ProblemsAssumption DEF Inputs, IsProblem, Distance
<1>3. problem.size > 0 => Start \in Nodes(problem)
  BY <1>1 DEF Start, NormalizeStartNode, Nodes
<1> QED
  BY <1>1, <1>2, <1>3

(* The construction starts with the start node visited. *)
LEMMA InitIInv == Init => IInv
<1> SUFFICES ASSUME Init
             PROVE  IInv
  OBVIOUS
<1>1. Inputs
  BY DEF Init, Inputs
<1>2. problem.size \in Nat /\ (problem.size > 0 => Start \in Nodes(problem))
  BY <1>1, InputsOK
<1>3. CostMax \in Costs
  BY CostRangeAssumption DEF Costs
<1>4. CASE problem.size = 0
  <2>1. order = <<>> /\ visited = {} /\ Nodes(problem) = {}
    BY <1>4 DEF Init, Nodes
  <2>2. TypeOK
    BY <1>3, <1>4, <2>1 DEF Init, TypeOK
  <2>3. Cardinality(visited) = 0
    BY <2>1, FS_EmptySet
  <2>4. VisitedIsTour /\ Framed /\ BestSoFar /\ DistinctUnlessSentinel
    BY <1>4, <2>1, <2>3
    DEF Init, VisitedIsTour, Framed, BestSoFar, DistinctUnlessSentinel
  <2>5. OnlyNodeZeroRepeats /\ EveryHopIsNearest
    BY <2>1 DEF OnlyNodeZeroRepeats, EveryHopIsNearest
  <2> QED
    BY <1>1, <2>2, <2>4, <2>5 DEF IInv
<1>5. CASE problem.size > 0
  <2>1. order = <<Start>> /\ visited = {Start} /\ Start \in Nodes(problem)
    BY <1>2, <1>5 DEF Init
  <2>2. Len(order) = 1 /\ DOMAIN order = {1} /\ order[1] = Start
    BY <2>1
  <2>3. TypeOK
    BY <1>2, <1>3, <1>5, <2>1, <2>2 DEF Init, TypeOK
  <2>4. Cardinality(visited) = 1
    BY <2>1, FS_Singleton
  <2>5. VisitedIsTour
    BY <2>1, <2>2 DEF VisitedIsTour
  <2>6. Framed /\ DistinctUnlessSentinel
    BY <2>2, <2>4 DEF Init, Framed, DistinctUnlessSentinel
  <2>7. BestSoFar
    <3>1. Seen = {}
      BY <1>2 DEF Seen, Nodes, Init
    <3> QED
      BY <3>1 DEF BestSoFar, Init
  <2>8. OnlyNodeZeroRepeats /\ EveryHopIsNearest
    BY <2>2 DEF OnlyNodeZeroRepeats, EveryHopIsNearest
  <2> QED
    BY <1>1, <2>3, <2>5, <2>6, <2>7, <2>8 DEF IInv
<1> QED
  BY <1>2, <1>4, <1>5

(* The node under consideration is skipped or compared: the tour stands. *)
LEMMA ScanStepIInv ==
  ASSUME IInv, Building, candidate < problem.size, candidate' = candidate + 1,
         UNCHANGED <<problem, start_node, order, visited, total_cost, pc>>,
         TypeOK', BestSoFar'
  PROVE  IInv'
  BY DEF IInv, Inputs, VisitedIsTour, Framed, DistinctUnlessSentinel, Start,
         OnlyNodeZeroRepeats, EveryHopIsNearest

(* A visited candidate changes nothing the scan has found. *)
LEMMA SkipVisitedIInv == ASSUME IInv, SkipVisited PROVE IInv'
<1>1. problem.size \in Nat /\ candidate \in Nat /\ candidate < problem.size
  BY InputsOK DEF IInv, SkipVisited, TypeOK, Nodes
<1>2. TypeOK'
  BY <1>1 DEF IInv, TypeOK, SkipVisited
<1>3. Seen' = Seen
  BY <1>1 DEF Seen, SkipVisited, Nodes
<1>4. BestSoFar'
  BY <1>3 DEF IInv, BestSoFar, SkipVisited, Hop, Current
<1> QED
  BY <1>1, <1>2, <1>4, ScanStepIInv DEF SkipVisited

(* Comparing one more candidate keeps the best of those seen. *)
LEMMA ConsiderIInv == ASSUME IInv, Consider PROVE IInv'
<1> DEFINE edge_cost == Distance(problem, Current, candidate)
<1>1. /\ problem.size \in Nat
      /\ candidate \in Nat
      /\ candidate < problem.size
      /\ candidate \in Nodes(problem) \ visited
      /\ next \in Nat
      /\ best_cost \in Costs
      /\ order \in Seq(Nodes(problem))
      /\ Len(order) < problem.size
  BY InputsOK DEF IInv, Consider, Building, TypeOK, Nodes
<1>2. Len(order) > 0 /\ Current \in Nodes(problem)
  BY <1>1 DEF IInv, Framed, Current
<1>3. \A node \in Nodes(problem) : Hop(node) \in Costs
  BY <1>1, <1>2, InputsOK DEF IInv, Hop
<1>4. edge_cost = Hop(candidate)
  BY DEF Hop
<1>5. /\ best_cost' = IF IsNearer(candidate, Hop(candidate)) THEN Hop(candidate) ELSE best_cost
      /\ next' = IF IsNearer(candidate, Hop(candidate)) THEN candidate ELSE next
      /\ candidate' = candidate + 1
      /\ UNCHANGED <<problem, start_node, order, visited, total_cost, pc>>
  BY <1>4 DEF Consider
<1>6. TypeOK'
  BY <1>1, <1>3, <1>5 DEF IInv, TypeOK
<1>7. Seen' = Seen \cup {candidate}
  BY <1>1, <1>5 DEF Seen, Nodes
<1>8. \A node : Hop(node)' = Hop(node)
  BY <1>5 DEF Hop, Current
<1>9. \A node \in Seen : node \in Nat /\ node < candidate /\ Hop(node) \in Costs
  BY <1>1, <1>3 DEF Seen, Nodes
<1>10. \A cost \in Costs : cost \in Int /\ cost <= CostMax
  BY CostRangeAssumption DEF Costs
<1>11. Hop(candidate) \in Int /\ Hop(candidate) <= CostMax
  BY <1>1, <1>3, <1>10
<1>12. BestSoFar'
  <2> SUFFICES
         \/ /\ next' = 0
            /\ best_cost' = CostMax
            /\ \A node \in Seen \cup {candidate} : Hop(node) = CostMax
         \/ /\ next' \in Seen \cup {candidate}
            /\ best_cost' = Hop(next')
            /\ best_cost' < CostMax
            /\ \A node \in Seen \cup {candidate} :
                 \/ best_cost' < Hop(node)
                 \/ best_cost' = Hop(node) /\ next' <= node
    BY <1>5, <1>7, <1>8 DEF BestSoFar
  <2>1. CASE /\ next = 0
             /\ best_cost = CostMax
             /\ \A node \in Seen : Hop(node) = CostMax
    <3>1. CASE Hop(candidate) < CostMax
      <4>1. next' = candidate /\ best_cost' = Hop(candidate)
        BY <1>5, <2>1, <3>1 DEF IsNearer
      <4> QED
        BY <4>1, <1>1, <2>1, <3>1
    <3>2. CASE Hop(candidate) = CostMax
      <4>1. next' = next /\ best_cost' = best_cost
        BY <1>1, <1>5, <1>11, <2>1, <3>2 DEF IsNearer
      <4> QED
        BY <4>1, <2>1, <3>2
    <3> QED
      BY <1>11, <3>1, <3>2, CostRangeAssumption
  <2>2. CASE /\ next \in Seen
             /\ best_cost = Hop(next)
             /\ best_cost < CostMax
             /\ \A node \in Seen :
                  best_cost < Hop(node) \/ (best_cost = Hop(node) /\ next <= node)
    <3>1. next < candidate /\ best_cost \in Int
      BY <1>9, <1>1, <1>10, <2>2
    <3>2. CASE Hop(candidate) < best_cost
      <4>1. next' = candidate /\ best_cost' = Hop(candidate)
        BY <1>5, <3>2 DEF IsNearer
      <4>2. \A node \in Seen : best_cost' < Hop(node)
        BY <4>1, <1>9, <1>10, <1>11, <2>2, <3>1, <3>2
      <4>3. best_cost' < CostMax
        BY <4>1, <1>11, <2>2, <3>1, <3>2, CostRangeAssumption
      <4> QED
        BY <4>1, <4>2, <4>3, <1>1
    <3>3. CASE ~(Hop(candidate) < best_cost)
      <4>1. next' = next /\ best_cost' = best_cost
        BY <1>1, <1>5, <3>1, <3>3 DEF IsNearer
      <4>2. best_cost < Hop(candidate) \/ (best_cost = Hop(candidate) /\ next <= candidate)
        BY <1>1, <1>11, <3>1, <3>3
      <4> QED
        BY <4>1, <4>2, <2>2
    <3> QED
      BY <3>2, <3>3
  <2> QED
    BY <1>1, <2>1, <2>2 DEF IInv, BestSoFar
<1> QED
  BY <1>1, <1>5, <1>6, <1>12, ScanStepIInv DEF Consider

(* When the inner loop ends, what it holds is a free node unless every     *)
(* free node is at the sentinel distance.                                  *)
LEMMA ScanResult ==
  ASSUME IInv, AppendNext
  PROVE  LET free == Nodes(problem) \ visited IN
         /\ Current \in visited
         /\ \/ next = 0 /\ \A node \in free : Hop(node) = CostMax
            \/ /\ next \in free
               /\ \A node \in free :
                    Hop(next) < Hop(node) \/ (Hop(next) = Hop(node) /\ next <= node)
<1>1. Seen = Nodes(problem) \ visited
  BY InputsOK DEF IInv, Seen, Nodes, AppendNext
<1>2. Len(order) < problem.size /\ problem.size \in Nat /\ order \in Seq(Nodes(problem))
  BY InputsOK DEF IInv, AppendNext, Building, TypeOK
<1>3. Len(order) \in DOMAIN order
  BY <1>2 DEF IInv, Framed
<1> QED
  BY <1>1, <1>2, <1>3 DEF IInv, BestSoFar, VisitedIsTour, Current

(* A tour shorter than the problem leaves a node free. *)
LEMMA FreeNodeLeft ==
  ASSUME IInv, ~HasSentinelDistance(problem), Len(order) < problem.size
  PROVE  /\ \E node \in Nodes(problem) : node \notin visited
         /\ IsFiniteSet(visited)
<1>1. problem.size \in Nat
  BY InputsOK DEF IInv
<1>2. IsFiniteSet(Nodes(problem)) /\ Cardinality(Nodes(problem)) = problem.size
  <2>1. 0 \in Int /\ problem.size - 1 \in Int
    BY <1>1
  <2>2. /\ IsFiniteSet(0 .. problem.size - 1)
        /\ Cardinality(0 .. problem.size - 1) =
             IF 0 > problem.size - 1 THEN 0 ELSE problem.size - 1 - 0 + 1
    BY <2>1, FS_Interval
  <2> QED
    BY <1>1, <2>2 DEF Nodes
<1>3. visited \subseteq Nodes(problem)
  BY DEF IInv, TypeOK
<1>4. IsFiniteSet(visited)
  BY <1>2, <1>3, FS_Subset
<1>5. Cardinality(visited) = Len(order)
  BY DEF IInv, DistinctUnlessSentinel
<1>6. visited # Nodes(problem)
  BY <1>1, <1>2, <1>5
<1> QED
  BY <1>3, <1>4, <1>6

(* Appending the best of all candidates is a greedy hop. *)
LEMMA AppendNextIInv == ASSUME IInv, AppendNext PROVE IInv'
<1>1. /\ problem.size \in Nat
      /\ order \in Seq(Nodes(problem))
      /\ Len(order) \in Nat
      /\ Len(order) < problem.size
      /\ next \in Nodes(problem)
      /\ Len(order) > 0
  BY InputsOK DEF IInv, AppendNext, Building, TypeOK, Nodes, Framed
<1> DEFINE last == Len(order) + 1
<1>2. /\ order' \in Seq(Nodes(problem))
      /\ Len(order') = last
      /\ DOMAIN order = 1 .. Len(order)
      /\ DOMAIN order' = 1 .. last
      /\ \A p \in 1 .. Len(order) : order'[p] = order[p]
      /\ order'[last] = next
      /\ visited' = visited \cup {next}
      /\ UNCHANGED <<problem, start_node, total_cost, pc>>
      /\ candidate' = 0 /\ next' = 0 /\ best_cost' = CostMax
  BY <1>1 DEF AppendNext
<1>3. Inputs'
  BY <1>2 DEF IInv, Inputs
<1>4. TypeOK'
  BY <1>1, <1>2, CostRangeAssumption DEF IInv, TypeOK, Costs
<1>5. VisitedIsTour'
  <2>1. visited = {order[p] : p \in 1 .. Len(order)}
    BY <1>2 DEF IInv, VisitedIsTour
  <2>2. {order'[p] : p \in 1 .. last} = {order[p] : p \in 1 .. Len(order)} \cup {next}
    BY <1>1, <1>2
  <2> QED
    BY <1>2, <2>1, <2>2 DEF VisitedIsTour
<1>6. Framed'
  BY <1>1, <1>2 DEF IInv, Framed, Start, AppendNext, Building
<1>7. BestSoFar'
  <2>1. Seen' = {}
    BY <1>1, <1>2 DEF Seen, Nodes
  <2> QED
    BY <1>2, <2>1 DEF BestSoFar
<1>8. \A p \in 1 .. Len(order) : order[p] \in visited
  BY <1>2 DEF IInv, VisitedIsTour
<1>9. DistinctUnlessSentinel'
  <2> SUFFICES ASSUME ~HasSentinelDistance(problem)
               PROVE  /\ \A p, q \in 1 .. last : order'[p] = order'[q] => p = q
                      /\ Cardinality(visited') = last
    BY <1>2 DEF DistinctUnlessSentinel
  <2>1. IsFiniteSet(visited)
    BY <1>1, FreeNodeLeft
  <2>2. PICK node \in Nodes(problem) : node \notin visited
    BY <1>1, FreeNodeLeft
  <2>3. Hop(node) # CostMax
    <3>1. Current \in visited /\ visited \subseteq Nodes(problem)
      BY ScanResult DEF IInv, TypeOK
    <3> QED
      BY <2>2, <3>1 DEF HasSentinelDistance, Hop
  <2>4. next \notin visited
    BY <2>2, <2>3, ScanResult
  <2>5. \A p \in 1 .. Len(order) : order'[p] # order'[last]
    BY <1>2, <1>8, <2>4
  <2>6. \A p, q \in 1 .. Len(order) : order[p] = order[q] => p = q
    BY <1>2 DEF IInv, DistinctUnlessSentinel
  <2>7. \A p, q \in 1 .. last : order'[p] = order'[q] => p = q
    <3> SUFFICES ASSUME NEW p \in 1 .. last, NEW q \in 1 .. last, order'[p] = order'[q]
                 PROVE  p = q
      OBVIOUS
    <3>1. p \in 1 .. Len(order) \/ p = last
      BY <1>1
    <3>2. q \in 1 .. Len(order) \/ q = last
      BY <1>1
    <3> QED
      BY <3>1, <3>2, <1>2, <2>5, <2>6
  <2>8. Cardinality(visited) = Len(order)
    BY DEF IInv, DistinctUnlessSentinel
  <2>9. Cardinality(visited') = last
    BY <1>2, <2>1, <2>4, <2>8, FS_AddElement
  <2> QED
    BY <2>7, <2>9
<1>10. OnlyNodeZeroRepeats'
  <2> SUFFICES ASSUME NEW p \in 1 .. last, NEW q \in 1 .. last,
                      p # q, order'[p] = order'[q]
               PROVE  order'[p] = 0
    BY <1>2 DEF OnlyNodeZeroRepeats
  <2>1. CASE p \in 1 .. Len(order) /\ q \in 1 .. Len(order)
    BY <2>1, <1>2 DEF IInv, OnlyNodeZeroRepeats
  <2>2. CASE p = last \/ q = last
    <3>1. next \in visited /\ order'[p] = next
      <4>1. (p = last /\ q \in 1 .. Len(order)) \/ (q = last /\ p \in 1 .. Len(order))
        BY <2>2, <1>1
      <4> QED
        BY <4>1, <1>2, <1>8
    <3> QED
      BY <3>1, ScanResult
  <2> QED
    BY <2>1, <2>2, <1>1
<1>11. EveryHopIsNearest'
  <2> SUFFICES ASSUME NEW p \in 2 .. last,
                      NEW node \in Nodes(problem) \ {order'[q] : q \in 1 .. p - 1},
                      Distance(problem, order'[p - 1], node) < CostMax
               PROVE  LET chosen == Distance(problem, order'[p - 1], order'[p])
                          other  == Distance(problem, order'[p - 1], node)
                      IN  /\ order'[p] \in Nodes(problem) \ {order'[q] : q \in 1 .. p - 1}
                          /\ chosen < other \/ (chosen = other /\ order'[p] <= node)
    BY <1>2 DEF EveryHopIsNearest
  <2>1. {order'[q] : q \in 1 .. p - 1} = {order[q] : q \in 1 .. p - 1}
    <3>1. \A q \in 1 .. p - 1 : q \in 1 .. Len(order)
      BY <1>1
    <3> QED
      BY <3>1, <1>2
  <2>2. CASE p \in 2 .. Len(order)
    <3>1. order'[p] = order[p] /\ order'[p - 1] = order[p - 1]
      BY <2>2, <1>1, <1>2
    <3> QED
      BY <2>1, <2>2, <3>1 DEF IInv, EveryHopIsNearest
  <2>3. CASE p = last
    <3>1. p - 1 = Len(order) /\ order'[p - 1] = Current /\ order'[p] = next
      BY <2>3, <1>1, <1>2 DEF Current
    <3>2. {order'[q] : q \in 1 .. p - 1} = visited
      BY <2>1, <3>1, <1>2 DEF IInv, VisitedIsTour
    <3>3. node \in Nodes(problem) \ visited /\ Hop(node) < CostMax
      BY <3>1, <3>2 DEF Hop
    <3>4. Hop(node) # CostMax
      BY <3>3, CostRangeAssumption
    <3> QED
      BY <3>1, <3>2, <3>3, <3>4, ScanResult DEF Hop
  <2> QED
    BY <2>2, <2>3, <1>1
<1> QED
  BY <1>3, <1>4, <1>5, <1>6, <1>7, <1>9, <1>10, <1>11 DEF IInv

(* Every step of the construction preserves the invariant. *)
LEMMA NextIInv == IInv /\ [Next]_vars => IInv'
<1> SUFFICES ASSUME IInv, [Next]_vars
             PROVE  IInv'
  OBVIOUS
<1>1. CASE SkipVisited
  BY <1>1, SkipVisitedIInv
<1>2. CASE Consider
  BY <1>2, ConsiderIInv
<1>3. CASE AppendNext
  BY <1>3, AppendNextIInv
<1>4. CASE Finish
  BY <1>4
  DEF Finish, IInv, Inputs, TypeOK, VisitedIsTour, Framed, BestSoFar, Seen, Hop,
      Current, Start, DistinctUnlessSentinel, OnlyNodeZeroRepeats, EveryHopIsNearest
<1>5. CASE UNCHANGED vars
  BY <1>5
  DEF vars, IInv, Inputs, TypeOK, VisitedIsTour, Framed, BestSoFar, Seen, Hop,
      Current, Start, DistinctUnlessSentinel, OnlyNodeZeroRepeats, EveryHopIsNearest
<1> QED
  BY <1>1, <1>2, <1>3, <1>4, <1>5 DEF Next

-----------------------------------------------------------------------------
(* The inductive invariant holds in every reachable state. *)
THEOREM Invariance == Spec => []IInv
  BY InitIInv, NextIInv, PTL DEF Spec

(* The scan indexes the matrix and the flags inside their bounds. *)
THEOREM TypeCorrect == Spec => []TypeOK
  BY Invariance, PTL DEF IInv

(* Without a distance of the largest cost, the tour is a permutation from  *)
(* the normalised start node.                                              *)
THEOREM TourIsRoute == Spec => []RouteUnlessSentinel
<1>1. IInv => RouteUnlessSentinel
  <2> SUFFICES ASSUME IInv, pc = "done", ~HasSentinelDistance(problem)
               PROVE  IsRouteFrom(problem, Start, order)
    BY DEF RouteUnlessSentinel
  <2>1. order \in Seq(Nodes(problem)) /\ Len(order) = problem.size /\ problem.size \in Nat
    BY InputsOK DEF IInv, TypeOK, Framed
  <2>2. DOMAIN order = 1 .. problem.size
    BY <2>1
  <2>3. order \in [1 .. problem.size -> Nodes(problem)]
    BY <2>1
  <2> QED
    BY <2>2, <2>3 DEF IInv, DistinctUnlessSentinel, Framed, IsRouteFrom, IsRoute
<1> QED
  BY <1>1, Invariance, PTL

(* On any problem, node 0 is the only one a tour can hold twice. *)
THEOREM RepeatsAreNodeZero == Spec => []OnlyNodeZeroRepeats
  BY Invariance, PTL DEF IInv

(* Every hop is the greedy choice, ties broken by the lowest id. *)
THEOREM HopsAreGreedy == Spec => []EveryHopIsNearest
  BY Invariance, PTL DEF IInv

(* What a caller may rely on, for any problem: the tour is one of the      *)
(* answers, and the cost handed back is what it costs.                     *)
THEOREM AnswersScan ==
  Spec => [](pc = "done" => /\ order \in ScanAnswers(problem, Start)
                            /\ total_cost = RouteCost(problem, order))
<1> DEFINE CostKnown == pc = "done" => total_cost = RouteCost(problem, order)
<1>1. Init => CostKnown
  BY DEF Init
<1>2. CostKnown /\ [Next]_vars => CostKnown'
  BY DEF Next, vars, SkipVisited, Consider, AppendNext, Finish, Building
<1>3. ASSUME IInv, pc = "done"
      PROVE  order \in ScanAnswers(problem, Start)
  <2>1. /\ order \in Seq(Nodes(problem)) /\ Len(order) = problem.size
        /\ problem.size \in Nat
    BY <1>3, InputsOK DEF IInv, TypeOK, Framed
  <2>2. DOMAIN order = 1 .. problem.size /\ order \in [1 .. problem.size -> Nodes(problem)]
    BY <2>1
  <2>3. order \in ToursFrom(problem, Start)
    BY <1>3, <2>2 DEF IInv, Framed, OnlyNodeZeroRepeats, OnlyZeroTwice, ToursFrom
  <2>4. ~HasSentinelDistance(problem) => IsRoute(problem, order)
    BY <1>3, <2>2 DEF IInv, DistinctUnlessSentinel, IsRoute
  <2> QED
    BY <2>3, <2>4 DEF ScanAnswers
<1> HIDE DEF CostKnown
<1>4. IInv /\ CostKnown =>
        (pc = "done" => /\ order \in ScanAnswers(problem, Start)
                        /\ total_cost = RouteCost(problem, order))
  BY <1>3 DEF CostKnown
<1> QED
  BY <1>1, <1>2, <1>4, Invariance, PTL DEF Spec
=============================================================================
