----------------------- MODULE CheapestInsertion_proofs -----------------------
(***************************************************************************)
(* Proofs about the cheapest-insertion construction, for every set of      *)
(* problems and start nodes and every width of the costs.                  *)
(***************************************************************************)
EXTENDS CheapestInsertion, Answers, FiniteSetTheorems, WellFoundedInduction, TLAPS

Inputs ==
  /\ problem \in Problems
  /\ start_node \in StartNodes

Hop(tour, p) == Distance(problem, tour[p], tour[After(tour, p)])

(* The running totals of route_cost over the first m hops of a tour. *)
AreTotals(tour, m, total) ==
  /\ total \in [0 .. m -> Int]
  /\ total[0] = 0
  /\ \A p \in 1 .. m : total[p] = Wrap(total[p - 1] + Hop(tour, p))

-----------------------------------------------------------------------------
(* Induction on the natural numbers, stated of a set. *)
LEMMA SetInduction ==
  ASSUME NEW S \in SUBSET Nat, 0 \in S, \A n \in S : n + 1 \in S
  PROVE  S = Nat
<1> SUFFICES ASSUME Nat \ S # {}
             PROVE  FALSE
  OBVIOUS
<1> DEFINE Less == {pair \in Nat \X Nat : pair[1] < pair[2]}
<1>1. IsWellFoundedOn(Less, Nat)
  BY NatLessThanWellFounded DEF OpToRel
<1>2. PICK n \in Nat \ S : \A m \in Nat \ S : <<m, n>> \notin Less
  BY <1>1, WFMin
<1>3. n # 0
  OBVIOUS
<1>4. n - 1 \in Nat /\ <<n - 1, n>> \in Less
  BY <1>3
<1>5. n - 1 \in S /\ n - 1 + 1 = n
  BY <1>2, <1>3, <1>4
<1> QED
  BY <1>5

(* What the assumptions on the problems say of the arguments. *)
LEMMA InputsOK ==
  ASSUME Inputs
  PROVE  /\ problem.size \in Nat
         /\ \A from, to \in Nodes(problem) :
              Distance(problem, from, to) \in Costs /\ Distance(problem, from, to) \in Int
         /\ problem.size > 0 => First \in Nodes(problem)
         /\ Nodes(problem) \subseteq Nat
<1>1. problem.size \in Nat /\ start_node \in Nat
  BY ProblemsAssumption, StartNodesAssumption DEF Inputs, IsProblem
<1>2. \A from, to \in Nodes(problem) : Distance(problem, from, to) \in Costs
  BY ProblemsAssumption DEF Inputs, IsProblem, Distance
<1>3. problem.size > 0 => First \in Nodes(problem)
  BY <1>1 DEF First, NormalizeStartNode, Nodes
<1>4. Costs \subseteq Int /\ Nodes(problem) \subseteq Nat
  BY CostRangeAssumption DEF Costs, Nodes
<1> QED
  BY <1>1, <1>2, <1>3, <1>4

(* A sum is a cost after it has wrapped, and a cost does not wrap. *)
LEMMA WrapFacts ==
  /\ \A sum \in Int : Wrap(sum) \in Costs /\ Wrap(sum) \in Int
  /\ \A cost \in Costs : Wrap(cost) = cost
<1>1. ASSUME NEW sum \in Int
      PROVE  Wrap(sum) \in Costs /\ Wrap(sum) \in Int
  BY CostRangeAssumption DEF Wrap, Costs
<1>2. ASSUME NEW cost \in Costs
      PROVE  Wrap(cost) = cost
  BY CostRangeAssumption DEF Wrap, Costs
<1> QED
  BY <1>1, <1>2

(* The position after another one, on a cycle. *)
LEMMA AfterFacts ==
  ASSUME NEW S, NEW tour \in Seq(S), NEW p \in 1 .. Len(tour)
  PROVE  /\ After(tour, p) = IF p = Len(tour) THEN 1 ELSE p + 1
         /\ After(tour, p) \in 1 .. Len(tour)
<1>1. Len(tour) \in Nat /\ Len(tour) > 0
  OBVIOUS
<1>2. CASE p = Len(tour)
  BY <1>1, <1>2 DEF After
<1>3. CASE p < Len(tour)
  BY <1>1, <1>3 DEF After
<1> QED
  BY <1>1, <1>2, <1>3

(* A hop of a tour of nodes costs an integer. *)
LEMMA HopIsInt ==
  ASSUME Inputs, NEW tour \in Seq(Nodes(problem)), NEW p \in 1 .. Len(tour)
  PROVE  Hop(tour, p) \in Int
<1>1. After(tour, p) \in 1 .. Len(tour)
  BY AfterFacts
<1>2. tour[p] \in Nodes(problem) /\ tour[After(tour, p)] \in Nodes(problem)
  BY <1>1
<1> QED
  BY <1>2, InputsOK DEF Hop

(* The running totals exist, ... *)
LEMMA TotalsExist ==
  ASSUME Inputs, NEW tour \in Seq(Nodes(problem))
  PROVE  \E total : AreTotals(tour, Len(tour), total)
<1> DEFINE S == {m \in Nat : m <= Len(tour) => \E total : AreTotals(tour, m, total)}
<1>1. 0 \in S
  <2>1. AreTotals(tour, 0, [p \in 0 .. 0 |-> 0])
    BY DEF AreTotals
  <2> QED
    BY <2>1
<1>2. ASSUME NEW m \in S
      PROVE  m + 1 \in S
  <2> SUFFICES ASSUME m + 1 <= Len(tour)
               PROVE  \E total : AreTotals(tour, m + 1, total)
    OBVIOUS
  <2>1. PICK total : AreTotals(tour, m, total)
    OBVIOUS
  <2> DEFINE more == [p \in 0 .. m + 1 |->
                        IF p = m + 1 THEN Wrap(total[m] + Hop(tour, m + 1)) ELSE total[p]]
  <2>2. total[m] \in Int /\ Hop(tour, m + 1) \in Int
    BY <2>1, HopIsInt DEF AreTotals
  <2>3. more \in [0 .. m + 1 -> Int] /\ more[0] = 0
    BY <2>1, <2>2, WrapFacts DEF AreTotals
  <2>4. ASSUME NEW p \in 1 .. m + 1
        PROVE  more[p] = Wrap(more[p - 1] + Hop(tour, p))
    <3>1. CASE p = m + 1
      BY <3>1
    <3>2. CASE p \in 1 .. m
      BY <2>1, <3>2 DEF AreTotals
    <3> QED
      BY <3>1, <3>2
  <2> HIDE DEF more
  <2>5. AreTotals(tour, m + 1, more)
    BY <2>3, <2>4 DEF AreTotals
  <2> QED
    BY <2>5
<1>3. S \in SUBSET Nat
  OBVIOUS
<1> HIDE DEF S
<1>4. S = Nat
  BY <1>1, <1>2, <1>3, SetInduction
<1> QED
  BY <1>4 DEF S

(* ... and route_cost is the last of them. *)
LEMMA RouteCostIsTotal ==
  ASSUME Inputs, NEW tour \in Seq(Nodes(problem))
  PROVE  \E total : AreTotals(tour, Len(tour), total)
                      /\ RouteCost(problem, tour) = total[Len(tour)]
<1> DEFINE IsCost(t) ==
             t = [p \in 0 .. Len(tour) |->
                    IF p = 0 THEN 0
                    ELSE Wrap(t[p - 1]
                                + Distance(problem, tour[p], tour[After(tour, p)]))]
           cost == CHOOSE t : IsCost(t)
<1>1. PICK total : AreTotals(tour, Len(tour), total)
  BY TotalsExist
<1>2. Len(tour) \in Nat
  OBVIOUS
<1>3. IsCost(total)
  BY <1>1, <1>2 DEF AreTotals, Hop
<1>4. RouteCost(problem, tour) = cost[Len(tour)]
  BY DEF RouteCost
<1>5. IsCost(cost)
  <2> HIDE DEF IsCost
  <2> QED
    BY <1>3
<1> HIDE DEF cost
<1> DEFINE S == {m \in Nat : m <= Len(tour) => cost[m] = total[m]}
<1>6. 0 \in S
  BY <1>1, <1>5 DEF AreTotals
<1>7. ASSUME NEW m \in S
      PROVE  m + 1 \in S
  BY <1>1, <1>2, <1>5 DEF AreTotals, Hop
<1>8. S \in SUBSET Nat
  OBVIOUS
<1> HIDE DEF S
<1>9. S = Nat
  BY <1>6, <1>7, <1>8, SetInduction
<1> QED
  BY <1>1, <1>2, <1>4, <1>9 DEF S

(* What a sequence after another one is. *)
LEMMA Concatenated ==
  ASSUME NEW S, NEW s \in Seq(S), NEW t \in Seq(S)
  PROVE  /\ s \o t \in Seq(S) /\ Len(s \o t) = Len(s) + Len(t)
         /\ \A p \in 1 .. Len(s) : (s \o t)[p] = s[p]
         /\ \A p \in Len(s) + 1 .. Len(s) + Len(t) : (s \o t)[p] = t[p - Len(s)]
  OBVIOUS

(* What InsertAt does to a sequence. *)
LEMMA Inserted ==
  ASSUME NEW S, NEW tour \in Seq(S), NEW node \in S, NEW place \in 1 .. Len(tour) + 1
  PROVE  /\ InsertAt(tour, place, node) \in Seq(S)
         /\ Len(InsertAt(tour, place, node)) = Len(tour) + 1
         /\ \A p \in 1 .. Len(tour) + 1 :
              InsertAt(tour, place, node)[p] =
                IF p < place THEN tour[p] ELSE IF p = place THEN node ELSE tour[p - 1]
<1> DEFINE front == SubSeq(tour, 1, place - 1) \o <<node>>
           back  == SubSeq(tour, place, Len(tour))
           n     == Len(tour)
<1>1. /\ SubSeq(tour, 1, place - 1) \in Seq(S)
      /\ Len(SubSeq(tour, 1, place - 1)) = place - 1
      /\ \A p \in 1 .. place - 1 : SubSeq(tour, 1, place - 1)[p] = tour[p]
  OBVIOUS
<1>2. /\ back \in Seq(S) /\ Len(back) = n - place + 1
      /\ \A p \in 1 .. n - place + 1 : back[p] = tour[p + place - 1]
  OBVIOUS
<1>3. /\ front \in Seq(S) /\ Len(front) = place /\ front[place] = node
      /\ \A p \in 1 .. place - 1 : front[p] = tour[p]
  BY <1>1
<1>4. InsertAt(tour, place, node) = front \o back /\ n \in Nat
  BY DEF InsertAt
<1> HIDE DEF front, back, n
<1>5. /\ front \o back \in Seq(S) /\ Len(front \o back) = n + 1
      /\ \A p \in 1 .. place : (front \o back)[p] = front[p]
      /\ \A p \in place + 1 .. n + 1 : (front \o back)[p] = back[p - place]
  <2>1. front \in Seq(S) /\ back \in Seq(S)
    BY <1>2, <1>3
  <2>2. /\ front \o back \in Seq(S) /\ Len(front \o back) = Len(front) + Len(back)
        /\ \A p \in 1 .. Len(front) : (front \o back)[p] = front[p]
        /\ \A p \in Len(front) + 1 .. Len(front) + Len(back) :
             (front \o back)[p] = back[p - Len(front)]
    BY <2>1, Concatenated
  <2>3. Len(front) = place /\ Len(front) + Len(back) = n + 1
    BY <1>2, <1>3, <1>4
  <2> QED
    BY <2>2, <2>3
<1>6. \A p \in place + 1 .. n + 1 : back[p - place] = tour[p - 1]
  BY <1>2, <1>4
<1> QED
  BY <1>3, <1>4, <1>5, <1>6 DEF n

-----------------------------------------------------------------------------
(* With small distances nothing wraps.                                     *)

Bound == CostMax \div (problem.size + 3)

(* Every distance lies within the bound. *)
LEMMA SmallDistance ==
  ASSUME Inputs, SmallDistances, NEW from \in Nodes(problem), NEW to \in Nodes(problem)
  PROVE  /\ Distance(problem, from, to) \in Int
         /\ -Bound <= Distance(problem, from, to) /\ Distance(problem, from, to) <= Bound
<1>1. Distance(problem, from, to) \in -Bound .. Bound
  BY DEF SmallDistances, Bound
<1>2. Bound \in Int
  BY InputsOK, CostRangeAssumption DEF Bound
<1> QED
  BY <1>1, <1>2

(* A sum of as many distances as the problem has nodes, and three more, is *)
(* one of the costs that do not wrap.                                      *)
LEMMA BoundFacts ==
  ASSUME Inputs, SmallDistances
  PROVE  /\ Bound \in Nat
         /\ \A m \in Nat : m <= problem.size + 3 =>
              /\ m * Bound \in Nat /\ m * Bound <= CostMax
              /\ (m + 1) * Bound = m * Bound + Bound
<1>1. problem.size \in Nat
  BY InputsOK
<1>2. Bound \in Nat /\ (problem.size + 3) * Bound <= CostMax
  BY <1>1, CostRangeAssumption DEF Bound
<1>3. ASSUME NEW m \in Nat, m <= problem.size + 3
      PROVE  /\ m * Bound \in Nat /\ m * Bound <= (problem.size + 3) * Bound
             /\ (m + 1) * Bound = m * Bound + Bound
  BY <1>1, <1>2, <1>3
<1> QED
  BY <1>1, <1>2, <1>3, CostRangeAssumption

(* A sum between the largest cost and its negation is exact. *)
LEMMA NoWrap ==
  ASSUME NEW sum \in Int, -CostMax <= sum, sum <= CostMax
  PROVE  Wrap(sum) = sum
<1>1. sum \in Costs
  BY CostRangeAssumption, NegationAssumption DEF Costs
<1> QED
  BY <1>1, WrapFacts

(* The totals of a tour no longer than the problem are exact. *)
LEMMA TotalsAreExact ==
  ASSUME Inputs, SmallDistances,
         NEW tour \in Seq(Nodes(problem)), Len(tour) <= problem.size,
         NEW total, AreTotals(tour, Len(tour), total)
  PROVE  \A p \in 1 .. Len(tour) : total[p] = total[p - 1] + Hop(tour, p)
<1> DEFINE n == Len(tour)
           most(m) == m * Bound
           S == {m \in Nat : m <= n => -most(m) <= total[m] /\ total[m] <= most(m)}
<1>1. n \in Nat /\ problem.size \in Nat /\ CostMax \in Int /\ Bound \in Nat
  BY BoundFacts, InputsOK, CostRangeAssumption
<1>2. ASSUME NEW p \in 1 .. n
      PROVE  Hop(tour, p) \in Int /\ -Bound <= Hop(tour, p) /\ Hop(tour, p) <= Bound
  <2>1. After(tour, p) \in 1 .. n
    BY AfterFacts
  <2>2. tour[p] \in Nodes(problem) /\ tour[After(tour, p)] \in Nodes(problem)
    BY <2>1
  <2> QED
    BY <2>2, SmallDistance DEF Hop
<1>3. \A m \in 0 .. n : /\ most(m) \in Nat /\ most(m) <= CostMax
                        /\ most(m + 1) = most(m) + Bound
  BY <1>1, BoundFacts
<1>4. most(0) = 0
  BY <1>1
<1> HIDE DEF most
<1>5. ASSUME NEW m \in Nat, m + 1 <= n, -most(m) <= total[m] /\ total[m] <= most(m)
      PROVE  /\ total[m + 1] = total[m] + Hop(tour, m + 1)
             /\ -most(m + 1) <= total[m + 1] /\ total[m + 1] <= most(m + 1)
  <2>1. m + 1 \in 1 .. n /\ m \in 0 .. n /\ m + 1 \in 0 .. n
    BY <1>1, <1>5
  <2>2. total[m] \in Int /\ total[m + 1] = Wrap(total[m] + Hop(tour, m + 1))
    BY <2>1 DEF AreTotals
  <2> DEFINE sum == total[m] + Hop(tour, m + 1)
  <2>3. /\ Hop(tour, m + 1) \in Int
        /\ -Bound <= Hop(tour, m + 1) /\ Hop(tour, m + 1) <= Bound
    BY <1>2, <2>1
  <2>4. /\ most(m) \in Nat /\ most(m + 1) \in Nat
        /\ most(m + 1) = most(m) + Bound /\ most(m + 1) <= CostMax
    BY <1>3, <2>1
  <2>5. sum \in Int /\ -most(m + 1) <= sum /\ sum <= most(m + 1)
    BY <1>1, <1>5, <2>2, <2>3, <2>4
  <2>6. -CostMax <= sum /\ sum <= CostMax
    BY <1>1, <2>4, <2>5
  <2> QED
    BY <2>2, <2>5, <2>6, NoWrap
<1>6. 0 \in S
  BY <1>4 DEF AreTotals
<1>7. ASSUME NEW m \in S
      PROVE  m + 1 \in S
  BY <1>1, <1>5
<1>8. S \in SUBSET Nat
  OBVIOUS
<1> HIDE DEF S
<1>9. S = Nat
  BY <1>6, <1>7, <1>8, SetInduction
<1>10. ASSUME NEW p \in 1 .. n
       PROVE  total[p] = total[p - 1] + Hop(tour, p)
  <2>1. p - 1 \in Nat /\ p - 1 <= n /\ (p - 1) + 1 = p
    BY <1>1
  <2>2. -most(p - 1) <= total[p - 1] /\ total[p - 1] <= most(p - 1)
    BY <1>9, <2>1 DEF S
  <2> QED
    BY <1>5, <2>1, <2>2
<1> QED
  BY <1>10

(* The tour with a node inserted has the hops of the tour, but for the one *)
(* that the node splits in two.                                            *)
LEMMA HopsInserted ==
  ASSUME Inputs, NEW tour \in Seq(Nodes(problem)), NEW node \in Nodes(problem),
         NEW place \in 2 .. Len(tour) + 1
  PROVE  LET longer == InsertAt(tour, place, node)
             from   == tour[place - 1]
             target_node == tour[After(tour, place - 1)]
         IN  /\ \A p \in 1 .. place - 2 : Hop(longer, p) = Hop(tour, p)
             /\ Hop(longer, place - 1) = Distance(problem, from, node)
             /\ Hop(longer, place) = Distance(problem, node, target_node)
             /\ Hop(tour, place - 1) = Distance(problem, from, target_node)
             /\ \A p \in place + 1 .. Len(tour) + 1 : Hop(longer, p) = Hop(tour, p - 1)
<1> DEFINE n == Len(tour)
           longer == InsertAt(tour, place, node)
<1>1. n \in Nat /\ n >= 1 /\ place - 1 \in 1 .. n
  OBVIOUS
<1>2. /\ longer \in Seq(Nodes(problem)) /\ Len(longer) = n + 1
      /\ \A p \in 1 .. n + 1 :
           longer[p] = IF p < place THEN tour[p] ELSE IF p = place THEN node ELSE tour[p - 1]
  BY Inserted
<1>3. \A p \in 1 .. n : After(tour, p) = IF p = n THEN 1 ELSE p + 1
  BY AfterFacts
<1>4. \A p \in 1 .. n + 1 : After(longer, p) = IF p = n + 1 THEN 1 ELSE p + 1
  BY <1>2, AfterFacts
<1> HIDE DEF longer, n
<1>5. ASSUME NEW p \in 1 .. place - 2
      PROVE  Hop(longer, p) = Hop(tour, p)
  <2>1. /\ After(longer, p) = p + 1 /\ After(tour, p) = p + 1
        /\ longer[p] = tour[p] /\ longer[p + 1] = tour[p + 1]
    BY <1>1, <1>2, <1>3, <1>4
  <2> QED
    BY <2>1 DEF Hop
<1>6. Hop(longer, place - 1) = Distance(problem, tour[place - 1], node)
  <2>1. After(longer, place - 1) = place /\ longer[place - 1] = tour[place - 1]
          /\ longer[place] = node
    BY <1>1, <1>2, <1>4
  <2> QED
    BY <2>1 DEF Hop
<1>7. Hop(longer, place) = Distance(problem, node, tour[After(tour, place - 1)])
  <2>1. /\ longer[place] = node
        /\ longer[After(longer, place)] = tour[After(tour, place - 1)]
    BY <1>1, <1>2, <1>3, <1>4 DEF n
  <2> QED
    BY <2>1 DEF Hop
<1>8. ASSUME NEW p \in place + 1 .. n + 1
      PROVE  Hop(longer, p) = Hop(tour, p - 1)
  <2>1. p \in 1 .. n + 1 /\ p - 1 \in 1 .. n /\ place > 1 /\ 1 \in 1 .. n + 1
    BY <1>1
  <2>2. longer[p] = tour[p - 1]
    BY <1>2, <2>1
  <2>3. CASE p = n + 1
    <3>1. After(longer, p) = 1 /\ After(tour, p - 1) = 1 /\ longer[1] = tour[1]
      BY <1>1, <1>2, <1>3, <1>4, <2>1, <2>3
    <3> QED
      BY <2>2, <3>1 DEF Hop
  <2>4. CASE p <= n
    <3>1. After(longer, p) = p + 1 /\ After(tour, p - 1) = p /\ longer[p + 1] = tour[p]
      BY <1>1, <1>2, <1>3, <1>4, <2>1, <2>4
    <3> QED
      BY <2>2, <3>1 DEF Hop
  <2> QED
    BY <1>1, <2>3, <2>4
<1>9. Hop(tour, place - 1)
        = Distance(problem, tour[place - 1], tour[After(tour, place - 1)])
  BY DEF Hop
<1> QED
  BY <1>5, <1>6, <1>7, <1>8, <1>9 DEF longer, n

(* What Delta computes, when nothing wraps, is by how much an insertion    *)
(* changes the cost of the whole tour.                                     *)
LEMMA DeltaIsDifference ==
  ASSUME Inputs, SmallDistances, order \in Seq(Nodes(problem)), Len(order) < problem.size,
         NEW node \in Nodes(problem), NEW place \in 2 .. Len(order) + 1
  PROVE  /\ RouteCost(problem, order) \in Int
         /\ RouteCost(problem, InsertAt(order, place, node))
              = RouteCost(problem, order) + Delta(node, place - 2)
<1> DEFINE n      == Len(order)
           longer == InsertAt(order, place, node)
           from   == order[place - 1]
           target_node == order[After(order, place - 1)]
           change == Distance(problem, from, node) + Distance(problem, node, target_node)
                       - Distance(problem, from, target_node)
<1>1. n \in Nat /\ place - 1 \in 1 .. n /\ problem.size \in Nat
  BY InputsOK
<1>2. longer \in Seq(Nodes(problem)) /\ Len(longer) = n + 1
  BY Inserted
<1>3. PICK total : AreTotals(order, n, total) /\ RouteCost(problem, order) = total[n]
  BY RouteCostIsTotal
<1>4. PICK sum : AreTotals(longer, n + 1, sum) /\ RouteCost(problem, longer) = sum[n + 1]
  BY <1>2, RouteCostIsTotal
<1>5. \A p \in 1 .. n : total[p] = total[p - 1] + Hop(order, p)
  BY <1>1, <1>3, TotalsAreExact
<1>6. \A p \in 1 .. n + 1 : sum[p] = sum[p - 1] + Hop(longer, p)
  BY <1>1, <1>2, <1>4, TotalsAreExact
<1>7. /\ \A p \in 1 .. place - 2 : Hop(longer, p) = Hop(order, p)
      /\ Hop(longer, place - 1) = Distance(problem, from, node)
      /\ Hop(longer, place) = Distance(problem, node, target_node)
      /\ Hop(order, place - 1) = Distance(problem, from, target_node)
      /\ \A p \in place + 1 .. n + 1 : Hop(longer, p) = Hop(order, p - 1)
  BY HopsInserted
<1>8. from \in Nodes(problem) /\ target_node \in Nodes(problem)
  <2>1. After(order, place - 1) \in 1 .. n
    BY <1>1, AfterFacts
  <2> QED
    BY <1>1, <2>1
<1> DEFINE IsSmall(distance) ==
             distance \in Int /\ -Bound <= distance /\ distance <= Bound
<1>9. /\ IsSmall(Distance(problem, from, node))
      /\ IsSmall(Distance(problem, node, target_node))
      /\ IsSmall(Distance(problem, from, target_node))
  BY <1>8, SmallDistance
<1>10. Delta(node, place - 2) = change
  <2>1. Delta(node, place - 2) = Wrap(change)
    BY <1>1 DEF Delta
  <2>2. Bound \in Nat /\ 3 * Bound <= CostMax
    BY <1>1, BoundFacts
  <2>3. change \in Int /\ -CostMax <= change /\ change <= CostMax
    BY <1>9, <2>2, CostRangeAssumption
  <2> QED
    BY <2>1, <2>3, NoWrap
<1> HIDE DEF n, longer, change, from, target_node
<1>11. /\ \A p \in 0 .. n : total[p] \in Int
       /\ \A p \in 0 .. n + 1 : sum[p] \in Int
       /\ total[0] = 0 /\ sum[0] = 0
  BY <1>3, <1>4 DEF AreTotals
<1>12. \A p \in 0 .. place - 2 : sum[p] = total[p]
  <2> DEFINE S == {m \in Nat : m <= place - 2 => sum[m] = total[m]}
  <2>1. 0 \in S
    BY <1>11
  <2>2. ASSUME NEW m \in S
        PROVE  m + 1 \in S
    BY <1>1, <1>5, <1>6, <1>7
  <2>3. S \in SUBSET Nat
    OBVIOUS
  <2> HIDE DEF S
  <2>4. S = Nat
    BY <2>1, <2>2, <2>3, SetInduction
  <2> QED
    BY <1>1, <2>4 DEF S
<1>13. sum[place] = total[place - 1] + change
  <2>1. /\ sum[place] = sum[place - 1] + Hop(longer, place)
        /\ sum[place - 1] = sum[place - 2] + Hop(longer, place - 1)
        /\ total[place - 1] = total[place - 2] + Hop(order, place - 1)
    BY <1>1, <1>5, <1>6
  <2>2. sum[place - 2] = total[place - 2] /\ total[place - 2] \in Int
    BY <1>1, <1>11, <1>12
  <2> QED
    BY <1>7, <1>9, <2>1, <2>2 DEF change
<1>14. change \in Int
  BY <1>9 DEF change
<1>15. \A p \in place .. n + 1 : sum[p] = total[p - 1] + change
  <2> DEFINE S == {m \in Nat : place + m <= n + 1 =>
                                 sum[place + m] = total[place + m - 1] + change}
  <2>1. 0 \in S
    BY <1>13
  <2>2. ASSUME NEW m \in S
        PROVE  m + 1 \in S
    <3> SUFFICES ASSUME place + m + 1 <= n + 1
                 PROVE  sum[place + m + 1] = total[place + m] + change
      BY <1>1
    <3>1. sum[place + m] = total[place + m - 1] + change
      BY <1>1
    <3>2. sum[place + m + 1] = sum[place + m] + Hop(longer, place + m + 1)
      BY <1>1, <1>6
    <3>3. total[place + m] = total[place + m - 1] + Hop(order, place + m)
      BY <1>1, <1>5
    <3>4. Hop(longer, place + m + 1) = Hop(order, place + m)
      BY <1>1, <1>7
    <3>5. total[place + m - 1] \in Int /\ Hop(order, place + m) \in Int
      BY <1>1, <1>11, HopIsInt DEF n
    <3> QED
      BY <1>14, <3>1, <3>2, <3>3, <3>4, <3>5
  <2>3. S \in SUBSET Nat
    OBVIOUS
  <2> HIDE DEF S
  <2>4. S = Nat
    BY <2>1, <2>2, <2>3, SetInduction
  <2> SUFFICES ASSUME NEW p \in place .. n + 1
               PROVE  sum[p] = total[p - 1] + change
    OBVIOUS
  <2>5. p - place \in S /\ place + (p - place) = p
    BY <1>1, <2>4
  <2> QED
    BY <1>1, <2>5 DEF S
<1>16. sum[n + 1] = total[n] + change
  BY <1>1, <1>15
<1> QED
  BY <1>1, <1>3, <1>4, <1>10, <1>11, <1>16 DEF n, longer

-----------------------------------------------------------------------------
(* The inductive invariant.                                                *)

VisitedIsTour == visited = {order[p] : p \in DOMAIN order}

(* Where the loops stand in each phase.  Places are only tried of a node   *)
(* that is free, so a scan that has passed them all stands at place 0.     *)
Framed ==
  /\ problem.size > 0 => Len(order) > 0
  /\ pc = "second" => problem.size > 1 /\ order = <<First>> /\ position = 0
  /\ pc = "done" => Len(order) = problem.size
  /\ position > 0 => candidate \in Nodes(problem) \ visited

(* What the search for the second node may take, has seen, and holds.      *)
CanBeSecond(node) ==
  \/ CycleCost(node) < CostMax
  \/ CycleCost(node) = CostMax /\ node < First

SeenSecond == {node \in Nodes(problem) \ visited : node < candidate}

BestSecond ==
  pc = "second" =>
    \/ /\ best_node = First
       /\ best_cost = CostMax
       /\ \A node \in SeenSecond : ~CanBeSecond(node)
    \/ /\ best_node \in SeenSecond
       /\ best_cost = CycleCost(best_node)
       /\ CanBeSecond(best_node)
       /\ \A node \in SeenSecond :
            \/ best_cost < CycleCost(node)
            \/ best_cost = CycleCost(node) /\ best_node <= node

(* The same for the insertions <<node, place>> of a round. *)
SeenPlaces ==
  {insertion \in (Nodes(problem) \ visited) \X (0 .. Len(order) - 1) :
     \/ insertion[1] < candidate
     \/ insertion[1] = candidate /\ insertion[2] < position}

AsGood(cost, node, place, other) ==
  LET other_cost == Delta(other[1], other[2]) IN
  \/ cost < other_cost
  \/ cost = other_cost /\ node < other[1]
  \/ cost = other_cost /\ node = other[1] /\ place <= other[2]

BestInsertion ==
  pc = "insert" /\ Len(order) < problem.size =>
    \/ ~found /\ SeenPlaces = {}
    \/ /\ found
       /\ best_position > 0
       /\ <<best_node, best_position - 1>> \in SeenPlaces
       /\ best_cost = Delta(best_node, best_position - 1)
       /\ \A other \in SeenPlaces :
            AsGood(best_cost, best_node, best_position - 1, other)

(* Whether the tour repeats a node is decided with the second one; the     *)
(* number of visited nodes is what tells that a free one is left.          *)
Counted ==
  IF problem.size > 1 => HasSecond
  THEN /\ \A p, q \in DOMAIN order : order[p] = order[q] => p = q
       /\ Cardinality(visited) = Len(order)
  ELSE pc # "second" =>
         /\ \A p, q \in DOMAIN order : p # q /\ order[p] = order[q] => order[p] = First
         /\ Cardinality(visited) = Len(order) - 1

IInv ==
  /\ Inputs
  /\ TypeOK
  /\ VisitedIsTour
  /\ Framed
  /\ BestSecond
  /\ BestInsertion
  /\ Counted

-----------------------------------------------------------------------------
(* The construction starts with the start node visited. *)
LEMMA InitIInv == Init => IInv
<1> SUFFICES ASSUME Init
             PROVE  IInv
  OBVIOUS
<1>1. Inputs
  BY DEF Init, Inputs
<1>2. /\ problem.size \in Nat /\ (problem.size > 0 => First \in Nodes(problem))
      /\ Nodes(problem) \subseteq Nat
  BY <1>1, InputsOK
<1>3. CostMax \in Costs
  BY CostRangeAssumption DEF Costs
<1>4. CASE problem.size = 0
  <2>1. order = <<>> /\ visited = {} /\ First = 0 /\ pc = "insert"
    BY <1>4 DEF Init, First, NormalizeStartNode
  <2>2. TypeOK
    <3>1. order \in Seq(Nodes(problem)) /\ Len(order) = 0
      BY <2>1
    <3>2. candidate = 0 /\ position = 0 /\ best_position = 0 /\ best_node = 0
      BY <2>1 DEF Init
    <3>3. best_cost \in Costs /\ found \in BOOLEAN
      BY <1>3 DEF Init
    <3>4. candidate \in 0 .. problem.size /\ position \in 0 .. problem.size
      BY <1>2, <1>4, <2>1, <3>1, <3>2
    <3>5. best_position \in 0 .. Len(order) /\ best_node \in {0} \cup Nodes(problem)
      BY <1>2, <1>4, <2>1, <3>1, <3>2
    <3>6. Len(order) > 0 => position < Len(order)
      BY <1>2, <1>4, <2>1, <3>1, <3>2
    <3> QED
      BY <1>2, <1>4, <2>1, <3>1, <3>2, <3>3, <3>4, <3>5, <3>6 DEF TypeOK
  <2>3. Cardinality(visited) = 0
    BY <2>1, FS_EmptySet
  <2> QED
    BY <1>1, <1>4, <2>1, <2>2, <2>3
    DEF Init, IInv, VisitedIsTour, Framed, BestSecond, BestInsertion, Counted
<1>5. CASE problem.size > 0
  <2>1. order = <<First>> /\ visited = {First} /\ First \in Nodes(problem)
    BY <1>2, <1>5 DEF Init
  <2>2. Len(order) = 1 /\ DOMAIN order = {1} /\ order[1] = First
    BY <2>1
  <2>3. TypeOK
    <3>1. order \in Seq(Nodes(problem)) /\ visited \subseteq Nodes(problem)
      BY <2>1
    <3>2. /\ candidate = 0 /\ position = 0 /\ best_position = 0 /\ best_node = First
          /\ pc \in {"second", "insert"}
      BY DEF Init
    <3>3. best_cost \in Costs /\ found \in BOOLEAN
      BY <1>3 DEF Init
    <3>4. candidate \in 0 .. problem.size /\ position \in 0 .. problem.size
      BY <1>2, <1>5, <2>1, <2>2, <3>1, <3>2
    <3>5. best_position \in 0 .. Len(order) /\ best_node \in {0} \cup Nodes(problem)
      BY <1>2, <1>5, <2>1, <2>2, <3>1, <3>2
    <3>6. Len(order) > 0 => position < Len(order)
      BY <1>2, <1>5, <2>1, <2>2, <3>1, <3>2
    <3> QED
      BY <1>2, <1>5, <2>1, <2>2, <3>1, <3>2, <3>3, <3>4, <3>5, <3>6 DEF TypeOK
  <2>4. Cardinality(visited) = 1
    BY <2>1, FS_Singleton
  <2>5. VisitedIsTour /\ Framed
    BY <1>2, <1>5, <2>1, <2>2 DEF Init, VisitedIsTour, Framed
  <2>6. BestSecond /\ BestInsertion
    <3>1. SeenSecond = {} /\ SeenPlaces = {}
      BY <1>2 DEF SeenSecond, SeenPlaces, Init
    <3> QED
      BY <3>1 DEF BestSecond, BestInsertion, Init
  <2>7. Counted
    BY <1>5, <2>2, <2>4 DEF Init, Counted
  <2> QED
    BY <1>1, <2>3, <2>5, <2>6, <2>7 DEF IInv
<1> QED
  BY <1>2, <1>4, <1>5

(* What the invariant says of the types, in the form the steps need it. *)
LEMMA Facts ==
  ASSUME IInv
  PROVE  /\ problem.size \in Nat /\ Nodes(problem) = 0 .. problem.size - 1
         /\ order \in Seq(Nodes(problem)) /\ Len(order) \in Nat
         /\ Len(order) <= problem.size
         /\ DOMAIN order = 1 .. Len(order)
         /\ visited \subseteq Nodes(problem)
         /\ candidate \in Nat /\ candidate <= problem.size
         /\ position \in Nat /\ best_position \in Nat /\ best_node \in Nat
         /\ best_cost \in Costs /\ Costs \subseteq Int
         /\ \A cost \in Costs : cost \in Int /\ cost <= CostMax
         /\ CostMax \in Costs
<1>1. problem.size \in Nat /\ Nodes(problem) = 0 .. problem.size - 1
  BY InputsOK DEF IInv, Nodes
<1>2. /\ Costs \subseteq Int /\ \A cost \in Costs : cost \in Int /\ cost <= CostMax
      /\ CostMax \in Costs
  BY CostRangeAssumption DEF Costs
<1> QED
  BY <1>1, <1>2 DEF IInv, TypeOK

(* The costs compared are costs. *)
LEMMA CycleCostOK ==
  ASSUME IInv, problem.size > 0, NEW node \in Nodes(problem)
  PROVE  CycleCost(node) \in Costs
<1>1. Inputs /\ First \in Nodes(problem)
  BY InputsOK DEF IInv
<1>2. Distance(problem, First, node) \in Int /\ Distance(problem, node, First) \in Int
  BY <1>1, InputsOK
<1> QED
  BY <1>2, WrapFacts DEF CycleCost

(* The same of the difference an insertion makes. *)
LEMMA DeltaOK ==
  ASSUME IInv, NEW node \in Nodes(problem), NEW place \in 0 .. Len(order) - 1
  PROVE  Delta(node, place) \in Costs
<1>1. order \in Seq(Nodes(problem)) /\ place + 1 \in 1 .. Len(order)
  BY Facts
<1>2. After(order, place + 1) \in 1 .. Len(order)
  BY <1>1, AfterFacts
<1> DEFINE from == order[place + 1]
           target_node == order[After(order, place + 1)]
<1>3. Inputs /\ from \in Nodes(problem) /\ target_node \in Nodes(problem)
  BY <1>1, <1>2 DEF IInv
<1>4. /\ Distance(problem, from, node) \in Int
      /\ Distance(problem, node, target_node) \in Int
      /\ Distance(problem, from, target_node) \in Int
  BY <1>3, InputsOK
<1> QED
  BY <1>4, WrapFacts DEF Delta

(* A tour shorter than the problem leaves a node free. *)
LEMMA FreeNodeLeft ==
  ASSUME IInv, Len(order) < problem.size
  PROVE  /\ \E node \in Nodes(problem) : node \notin visited
         /\ IsFiniteSet(visited)
<1>1. problem.size \in Nat /\ Len(order) \in Nat
  BY Facts
<1>2. IsFiniteSet(Nodes(problem)) /\ Cardinality(Nodes(problem)) = problem.size
  <2>1. 0 \in Int /\ problem.size - 1 \in Int
    BY <1>1
  <2>2. /\ IsFiniteSet(0 .. problem.size - 1)
        /\ Cardinality(0 .. problem.size - 1) =
             IF 0 > problem.size - 1 THEN 0 ELSE problem.size - 1 - 0 + 1
    BY <2>1, FS_Interval
  <2> QED
    BY <1>1, <2>2 DEF Nodes
<1>3. visited \subseteq Nodes(problem)
  BY Facts
<1>4. IsFiniteSet(visited)
  BY <1>2, <1>3, FS_Subset
<1>5. Cardinality(visited) # problem.size
  <2>1. CASE pc = "second"
    <3>1. order = <<First>> /\ problem.size > 1
      BY <2>1 DEF IInv, Framed
    <3>2. DOMAIN order = {1} /\ order[1] = First
      BY <3>1
    <3>3. visited = {First}
      BY <3>2 DEF IInv, VisitedIsTour
    <3>4. Cardinality(visited) = 1
      BY <3>3, FS_Singleton
    <3> QED
      BY <3>1, <3>4
  <2>2. CASE pc # "second"
    <3>1. Cardinality(visited) = Len(order) \/ Cardinality(visited) = Len(order) - 1
      BY <2>2 DEF IInv, Counted
    <3> QED
      BY <1>1, <3>1
  <2> QED
    BY <2>1, <2>2
<1>6. visited # Nodes(problem)
  BY <1>2, <1>5
<1> QED
  BY <1>3, <1>4, <1>6

-----------------------------------------------------------------------------
(* A step inside a round leaves the tour alone. *)
LEMMA ScanStepIInv ==
  ASSUME IInv, UNCHANGED <<problem, start_node, order, visited, total_cost, pc>>,
         TypeOK', Framed', BestSecond', BestInsertion'
  PROVE  IInv'
  BY DEF IInv, Inputs, VisitedIsTour, Counted, HasSecond, CycleCost, First

(* A visited candidate changes nothing the round has found. *)
LEMMA SkipVisitedIInv == ASSUME IInv, SkipVisited PROVE IInv'
<1>1. /\ UNCHANGED <<problem, start_node, order, visited, position, best_node>>
      /\ UNCHANGED <<best_position, best_cost, found, total_cost, pc>>
      /\ candidate' = candidate + 1
      /\ candidate \in visited
  BY DEF SkipVisited, inputs
<1>2. /\ problem.size \in Nat /\ candidate \in Nat /\ candidate < problem.size
      /\ position = 0 /\ Nodes(problem) \subseteq Nat
  <2>1. Inputs /\ Framed
    BY DEF IInv
  <2> QED
    BY <1>1, <2>1, Facts, InputsOK DEF Framed
<1>3. TypeOK'
  <2>1. First' = First /\ candidate' \in 0 .. problem.size
    BY <1>1, <1>2 DEF First
  <2>2. TypeOK
    BY DEF IInv
  <2> QED
    BY <1>1, <2>1, <2>2 DEF TypeOK
<1>4. Framed'
  <2>1. First' = First /\ ~(position' > 0)
    BY <1>1, <1>2 DEF First
  <2>2. Framed
    BY DEF IInv
  <2> QED
    BY <1>1, <2>1, <2>2 DEF Framed
<1>5. SeenSecond' = SeenSecond
  BY <1>1, <1>2 DEF SeenSecond
<1>6. BestSecond'
  BY <1>1, <1>5 DEF IInv, BestSecond, CanBeSecond, CycleCost, First
<1>7. SeenPlaces' = SeenPlaces
  <2>1. \A insertion \in (Nodes(problem) \ visited) \X (0 .. Len(order) - 1) :
          insertion[1] \in Nat /\ insertion[1] # candidate /\ ~(insertion[2] < 0)
    BY <1>1, <1>2
  <2>2. \A insertion \in (Nodes(problem) \ visited) \X (0 .. Len(order) - 1) :
          \/ insertion[1] < candidate + 1
          \/ insertion[1] = candidate + 1 /\ insertion[2] < 0
          <=> insertion[1] < candidate \/ (insertion[1] = candidate /\ insertion[2] < 0)
    BY <1>2, <2>1
  <2> QED
    BY <1>1, <1>2, <2>2 DEF SeenPlaces
<1>8. BestInsertion'
  BY <1>1, <1>7 DEF IInv, BestInsertion, AsGood, Delta
<1> QED
  BY <1>1, <1>3, <1>4, <1>6, <1>8, ScanStepIInv

(* Comparing one more candidate keeps the best second node seen. *)
LEMMA ConsiderSecondIInv == ASSUME IInv, ConsiderSecond PROVE IInv'
<1> DEFINE cost   == CycleCost(candidate)
           better == cost < best_cost \/ (cost = best_cost /\ candidate < best_node)
<1>1. /\ UNCHANGED <<problem, start_node, order, visited, position>>
      /\ UNCHANGED <<best_position, found, total_cost, pc>>
      /\ candidate' = candidate + 1
      /\ candidate \in Nodes(problem) \ visited
      /\ pc = "second"
      /\ best_cost' = IF better THEN cost ELSE best_cost
      /\ best_node' = IF better THEN candidate ELSE best_node
  BY DEF ConsiderSecond, inputs
<1>2. /\ problem.size \in Nat /\ candidate \in Nat /\ candidate < problem.size
      /\ Nodes(problem) \subseteq Nat /\ position = 0 /\ best_node \in Nat
      /\ First \in Nodes(problem) /\ problem.size > 0
  <2>1. Inputs /\ Framed
    BY DEF IInv
  <2> QED
    BY <1>1, <2>1, Facts, InputsOK DEF Framed
<1>3. \A node \in Nodes(problem) :
        CycleCost(node) \in Costs /\ CycleCost(node) \in Int /\ CycleCost(node) <= CostMax
  BY <1>2, CycleCostOK, Facts
<1>4. cost \in Costs /\ cost \in Int /\ cost <= CostMax
  BY <1>1, <1>3
<1>5. best_cost \in Costs /\ best_cost \in Int /\ best_cost <= CostMax /\ CostMax \in Int
  BY Facts
<1>6. TypeOK'
  <2>1. best_cost' \in Costs /\ best_node' \in {0} \cup Nodes(problem)
    BY <1>1, <1>4, <1>5 DEF IInv, TypeOK
  <2>2. First' = First /\ candidate' \in 0 .. problem.size
    BY <1>1, <1>2 DEF First
  <2>3. TypeOK
    BY DEF IInv
  <2> QED
    BY <1>1, <2>1, <2>2, <2>3 DEF TypeOK
<1>7. Framed'
  <2>1. First' = First /\ ~(position' > 0)
    BY <1>1, <1>2 DEF First
  <2>2. Framed
    BY DEF IInv
  <2> QED
    BY <1>1, <2>1, <2>2 DEF Framed
<1>8. SeenSecond' = SeenSecond \cup {candidate}
  BY <1>1, <1>2 DEF SeenSecond
<1>9. BestSecond'
  <2> SUFFICES
         \/ /\ best_node' = First
            /\ best_cost' = CostMax
            /\ \A node \in SeenSecond \cup {candidate} : ~CanBeSecond(node)
         \/ /\ best_node' \in SeenSecond \cup {candidate}
            /\ best_cost' = CycleCost(best_node')
            /\ CanBeSecond(best_node')
            /\ \A node \in SeenSecond \cup {candidate} :
                 \/ best_cost' < CycleCost(node)
                 \/ best_cost' = CycleCost(node) /\ best_node' <= node
    BY <1>1, <1>8 DEF BestSecond, CanBeSecond, CycleCost, First
  <2>1. \A node \in SeenSecond :
          /\ node \in Nat /\ node < candidate
          /\ CycleCost(node) \in Int /\ CycleCost(node) <= CostMax
    BY <1>2, <1>3 DEF SeenSecond
  <2>2. CASE /\ best_node = First
             /\ best_cost = CostMax
             /\ \A node \in SeenSecond : ~CanBeSecond(node)
    <3>1. CASE better
      <4>1. best_node' = candidate /\ best_cost' = cost /\ CanBeSecond(candidate)
        BY <1>1, <2>2, <3>1 DEF CanBeSecond
      <4>2. \A node \in SeenSecond :
              \/ cost < CycleCost(node)
              \/ cost = CycleCost(node) /\ candidate <= node
        BY <1>2, <1>4, <1>5, <2>1, <2>2, <3>1 DEF CanBeSecond
      <4> QED
        BY <1>2, <4>1, <4>2
    <3>2. CASE ~better
      <4>1. best_node' = best_node /\ best_cost' = best_cost /\ ~CanBeSecond(candidate)
        BY <1>1, <1>4, <1>5, <2>2, <3>2 DEF CanBeSecond
      <4> QED
        BY <2>2, <4>1
    <3> QED
      BY <3>1, <3>2
  <2>3. CASE /\ best_node \in SeenSecond
             /\ best_cost = CycleCost(best_node)
             /\ CanBeSecond(best_node)
             /\ \A node \in SeenSecond :
                  \/ best_cost < CycleCost(node)
                  \/ best_cost = CycleCost(node) /\ best_node <= node
    <3>1. best_node < candidate
      BY <2>1, <2>3
    <3>2. CASE cost < best_cost
      <4>1. best_node' = candidate /\ best_cost' = cost
        BY <1>1, <3>2
      <4>2. CanBeSecond(candidate)
        BY <1>4, <1>5, <3>2 DEF CanBeSecond
      <4>3. \A node \in SeenSecond : cost < CycleCost(node)
        BY <1>4, <1>5, <2>1, <2>3, <3>2
      <4> QED
        BY <4>1, <4>2, <4>3, <1>2
    <3>3. CASE ~(cost < best_cost)
      <4>1. best_node' = best_node /\ best_cost' = best_cost
        BY <1>1, <1>2, <3>1, <3>3
      <4>2. best_cost < cost \/ (best_cost = cost /\ best_node <= candidate)
        BY <1>2, <1>4, <1>5, <3>1, <3>3
      <4> QED
        BY <2>3, <4>1, <4>2
    <3> QED
      BY <3>2, <3>3
  <2> QED
    BY <1>1, <2>2, <2>3 DEF IInv, BestSecond
<1>10. BestInsertion'
  BY <1>1 DEF BestInsertion
<1> QED
  BY <1>1, <1>6, <1>7, <1>9, <1>10, ScanStepIInv

(* The second node is a new one exactly if there was one to take. *)
LEMMA SecondFound ==
  ASSUME IInv, AppendSecond
  PROVE  /\ best_node \in Nodes(problem)
         /\ HasSecond =>
              /\ best_node # First
              /\ \A node \in Nodes(problem) \ {First} :
                   \/ CycleCost(best_node) < CycleCost(node)
                   \/ CycleCost(best_node) = CycleCost(node) /\ best_node <= node
         /\ ~HasSecond => best_node = First
<1>1. /\ problem.size \in Nat /\ Nodes(problem) = 0 .. problem.size - 1
      /\ First \in Nodes(problem)
      /\ pc = "second" /\ candidate = problem.size /\ order = <<First>>
  <2>1. Inputs /\ Framed
    BY DEF IInv
  <2> QED
    BY <2>1, Facts, InputsOK DEF Framed, AppendSecond
<1>2. DOMAIN order = {1} /\ order[1] = First
  BY <1>1
<1>3. visited = {First}
  BY <1>2 DEF IInv, VisitedIsTour
<1>4. SeenSecond = Nodes(problem) \ {First}
  BY <1>1, <1>3 DEF SeenSecond
<1>5. HasSecond <=> \E node \in SeenSecond : CanBeSecond(node)
  BY <1>4 DEF HasSecond, CanBeSecond
<1> QED
  BY <1>1, <1>4, <1>5 DEF IInv, BestSecond

(* The tour is a two-node cycle, and a round begins. *)
LEMMA AppendSecondIInv == ASSUME IInv, AppendSecond PROVE IInv'
<1>1. /\ UNCHANGED <<problem, start_node, total_cost>>
      /\ order' = Append(order, best_node)
      /\ visited' = visited \cup {best_node}
      /\ pc = "second" /\ pc' = "insert"
      /\ candidate' = 0 /\ position' = 0 /\ best_node' = 0 /\ best_position' = 0
      /\ best_cost' = CostMax
      /\ ~found' /\ found' \in BOOLEAN
  BY DEF AppendSecond, BeginRound, inputs
<1>2. /\ problem.size \in Nat /\ problem.size > 1 /\ Nodes(problem) \subseteq Nat
      /\ First \in Nodes(problem) /\ order = <<First>> /\ best_node \in Nodes(problem)
      /\ CostMax \in Costs
  <2>1. Inputs /\ Framed
    BY DEF IInv
  <2> QED
    BY <1>1, <2>1, Facts, InputsOK, SecondFound DEF Framed
<1>3. /\ order' \in Seq(Nodes(problem)) /\ Len(order') = 2 /\ DOMAIN order' = {1, 2}
      /\ order'[1] = First /\ order'[2] = best_node
  BY <1>1, <1>2
<1>4. visited' = {First, best_node} /\ First' = First
  <2>1. DOMAIN order = {1} /\ order[1] = First
    BY <1>2
  <2>2. visited = {First}
    BY <2>1 DEF IInv, VisitedIsTour
  <2> QED
    BY <1>1, <2>2 DEF First
<1>5. Inputs'
  BY <1>1 DEF IInv, Inputs
<1>6. TypeOK'
  BY <1>1, <1>2, <1>3, <1>4 DEF TypeOK
<1>7. VisitedIsTour'
  BY <1>3, <1>4 DEF VisitedIsTour
<1>8. Framed'
  BY <1>1, <1>2, <1>3 DEF Framed
<1>9. BestSecond'
  BY <1>1 DEF BestSecond
<1>10. BestInsertion'
  <2>1. SeenPlaces' = {}
    <3>1. \A insertion \in (Nodes(problem) \ visited') \X (0 .. Len(order') - 1) :
            insertion[1] \in Nat /\ insertion[2] \in Nat
      BY <1>2
    <3> QED
      BY <1>1, <3>1 DEF SeenPlaces
  <2> QED
    BY <1>1, <2>1 DEF BestInsertion
<1>11. Counted'
  <2>1. HasSecond' <=> HasSecond
    BY <1>1 DEF HasSecond, CycleCost, First
  <2>2. CASE HasSecond
    <3>1. best_node # First
      BY <2>2, SecondFound
    <3>2. Cardinality(visited') = 2
      <4>1. IsFiniteSet({First}) /\ Cardinality({First}) = 1
        BY FS_Singleton
      <4>2. Cardinality({First} \cup {best_node}) = 1 + 1
        BY <3>1, <4>1, FS_AddElement
      <4> QED
        BY <1>4, <4>2
    <3> QED
      BY <1>3, <2>1, <2>2, <3>1, <3>2 DEF Counted
  <2>3. CASE ~HasSecond
    <3>1. best_node = First
      BY <2>3, SecondFound
    <3>2. Cardinality(visited') = 1
      BY <1>4, <3>1, FS_Singleton
    <3> QED
      BY <1>1, <1>2, <1>3, <1>4, <2>1, <2>3, <3>1, <3>2 DEF Counted
  <2> QED
    BY <2>2, <2>3
<1> QED
  BY <1>5, <1>6, <1>7, <1>8, <1>9, <1>10, <1>11 DEF IInv

(* A comparison moves on to the next place, or to the next node. *)
LEMMA NextPlaceSeen ==
  ASSUME IInv, ConsiderInsertion
  PROVE  SeenPlaces' = SeenPlaces \cup {<<candidate, position>>}
<1> DEFINE Places == (Nodes(problem) \ visited) \X (0 .. Len(order) - 1)
<1>1. /\ UNCHANGED <<problem, order, visited>>
      /\ candidate \in Nodes(problem) \ visited
      /\ \/ /\ position + 1 < Len(order)
            /\ position' = position + 1 /\ candidate' = candidate
         \/ /\ ~(position + 1 < Len(order))
            /\ position' = 0 /\ candidate' = candidate + 1
  BY DEF ConsiderInsertion, inputs
<1>2. /\ Nodes(problem) \subseteq Nat /\ candidate \in Nat /\ Len(order) \in Nat
      /\ position \in Nat /\ position < Len(order)
  <2>1. problem.size > 0
    BY <1>1, Facts
  <2>2. Inputs /\ TypeOK /\ Framed
    BY DEF IInv
  <2> QED
    BY <2>1, <2>2, InputsOK, Facts DEF TypeOK, Framed
<1>3. \A node \in Nodes(problem) \ visited, place \in 0 .. Len(order) - 1 :
        (node < candidate' \/ (node = candidate' /\ place < position'))
          <=> \/ node < candidate \/ (node = candidate /\ place < position)
              \/ node = candidate /\ place = position
  BY <1>1, <1>2
<1>4. SeenPlaces = {insertion \in Places :
                      \/ insertion[1] < candidate
                      \/ insertion[1] = candidate /\ insertion[2] < position}
  BY DEF SeenPlaces
<1>5. SeenPlaces' = {insertion \in Places :
                       \/ insertion[1] < candidate'
                       \/ insertion[1] = candidate' /\ insertion[2] < position'}
  BY <1>1 DEF SeenPlaces
<1>6. <<candidate, position>> \in Places
  BY <1>1, <1>2
<1>7. \A insertion \in Places : insertion = <<candidate, position>>
                                  <=> insertion[1] = candidate /\ insertion[2] = position
  OBVIOUS
<1> HIDE DEF Places
<1>8. \A insertion \in Places : insertion \in SeenPlaces' <=>
        insertion \in SeenPlaces \/ insertion = <<candidate, position>>
  BY <1>3, <1>4, <1>5, <1>7 DEF Places
<1> QED
  BY <1>4, <1>5, <1>6, <1>8

(* The best insertion so far is kept, or replaced by a better one. *)
LEMMA ConsiderInsertionIInv == ASSUME IInv, ConsiderInsertion PROVE IInv'
<1> DEFINE delta == Delta(candidate, position)
           place == best_position - 1
<1>1. /\ UNCHANGED <<problem, start_node, order, visited, total_cost, pc>>
      /\ candidate \in Nodes(problem) \ visited
      /\ pc = "insert" /\ Len(order) < problem.size
      /\ \/ /\ position + 1 < Len(order)
            /\ position' = position + 1 /\ candidate' = candidate
         \/ /\ ~(position + 1 < Len(order))
            /\ position' = 0 /\ candidate' = candidate + 1
  BY DEF ConsiderInsertion, Building, inputs
<1>2. /\ problem.size \in Nat /\ Nodes(problem) = 0 .. problem.size - 1
      /\ candidate \in Nat /\ Len(order) \in Nat
      /\ position \in Nat /\ position < Len(order) /\ best_position \in Nat
      /\ best_node \in Nat /\ best_cost \in Int /\ best_cost \in Costs
  <2>1. problem.size > 0
    BY <1>1, Facts
  <2>2. TypeOK /\ Framed
    BY DEF IInv
  <2> QED
    BY <2>1, <2>2, Facts DEF TypeOK, Framed
<1>3. \A node \in Nodes(problem), p \in 0 .. Len(order) - 1 :
        Delta(node, p) \in Costs /\ Delta(node, p) \in Int
  BY DeltaOK, Facts
<1>4. delta \in Costs /\ delta \in Int
  BY <1>1, <1>2, <1>3
<1>5. \/ /\ IsBetter(delta)
         /\ best_cost' = delta /\ best_node' = candidate /\ best_position' = position + 1
         /\ found' /\ found' \in BOOLEAN
      \/ /\ ~IsBetter(delta)
         /\ UNCHANGED <<best_cost, best_node, best_position, found>>
  BY DEF ConsiderInsertion
<1>6. TypeOK'
  <2>1. First' = First
    BY <1>1 DEF First
  <2>2. TypeOK
    BY DEF IInv
  <2>3. candidate' \in 0 .. problem.size /\ position' \in 0 .. problem.size
    BY <1>1, <1>2
  <2>4. position' < Len(order)
    BY <1>1, <1>2
  <2>5. best_node' \in {0} \cup Nodes(problem) /\ best_cost' \in Costs
    BY <1>1, <1>4, <1>5, <2>2 DEF TypeOK
  <2>6. best_position' \in 0 .. Len(order)
    BY <1>2, <1>5, <2>2 DEF TypeOK
  <2>7. found' \in BOOLEAN
    BY <1>5, <2>2, Zenon DEF TypeOK
  <2> QED
    BY <1>1, <2>1, <2>2, <2>3, <2>4, <2>5, <2>6, <2>7 DEF TypeOK
<1>7. Framed'
  <2>1. First' = First /\ Framed
    BY <1>1 DEF First, IInv
  <2>2. position' > 0 => candidate' = candidate
    BY <1>1
  <2> QED
    BY <1>1, <2>1, <2>2 DEF Framed
<1>8. BestSecond'
  BY <1>1 DEF BestSecond
<1>9. SeenPlaces' = SeenPlaces \cup {<<candidate, position>>}
  BY NextPlaceSeen
<1>10. \A other \in SeenPlaces :
         /\ other[1] \in Nat /\ other[2] \in Nat /\ Delta(other[1], other[2]) \in Int
         /\ other[1] < candidate \/ (other[1] = candidate /\ other[2] < position)
  BY <1>2, <1>3 DEF SeenPlaces
<1>11. BestInsertion'
  <2> SUFFICES /\ found'
               /\ best_position' > 0
               /\ <<best_node', best_position' - 1>> \in SeenPlaces'
               /\ best_cost' = Delta(best_node', best_position' - 1)
               /\ \A other \in SeenPlaces \cup {<<candidate, position>>} :
                    AsGood(best_cost', best_node', best_position' - 1, other)
    BY <1>1, <1>9 DEF BestInsertion, AsGood, Delta
  <2>1. AsGood(delta, candidate, position, <<candidate, position>>)
    BY <1>2 DEF AsGood
  <2>2. CASE IsBetter(delta)
    <3>1. /\ best_cost' = delta /\ best_node' = candidate
          /\ best_position' = position + 1 /\ best_position' - 1 = position /\ found'
      BY <1>2, <1>5, <2>2
    <3>2. \A other \in SeenPlaces : AsGood(delta, candidate, position, other)
      <4>1. CASE ~found
        BY <1>1, <4>1 DEF IInv, BestInsertion
      <4>2. CASE found
        <5>1. /\ \A other \in SeenPlaces : AsGood(best_cost, best_node, place, other)
              /\ <<best_node, place>> \in SeenPlaces
          BY <1>1, <4>2 DEF IInv, BestInsertion
        <5>2. place \in Nat
              /\ (best_node < candidate \/ (best_node = candidate /\ place < position))
          BY <1>10, <5>1
        <5>3. delta < best_cost
          BY <1>2, <2>2, <4>2, <5>2 DEF IsBetter
        <5> QED
          BY <1>2, <1>4, <1>10, <5>1, <5>3 DEF AsGood
      <4> QED
        BY <4>1, <4>2
    <3> QED
      BY <1>2, <1>9, <2>1, <3>1, <3>2
  <2>3. CASE ~IsBetter(delta)
    <3>1. /\ best_cost' = best_cost /\ best_node' = best_node
          /\ best_position' = best_position
      BY <1>5, <2>3
    <3>2. found /\ found'
      BY <1>5, <2>3 DEF IsBetter
    <3>3. /\ best_position > 0
          /\ <<best_node, place>> \in SeenPlaces
          /\ best_cost = Delta(best_node, place)
          /\ \A other \in SeenPlaces : AsGood(best_cost, best_node, place, other)
      BY <1>1, <3>2 DEF IInv, BestInsertion
    <3>4. AsGood(best_cost, best_node, place, <<candidate, position>>)
      BY <1>2, <1>4, <2>3, <3>2 DEF IsBetter, AsGood
    <3> QED
      BY <1>9, <3>1, <3>2, <3>3, <3>4
  <2> QED
    BY <2>2, <2>3
<1> QED
  BY <1>1, <1>6, <1>7, <1>8, <1>11, ScanStepIInv

(* When a round has tried everything, what it holds is the best insertion. *)
LEMMA RoundResult ==
  ASSUME IInv, Insert
  PROVE  /\ best_node \in Nodes(problem) \ visited
         /\ best_position + 1 \in 2 .. Len(order) + 1
         /\ \A node \in Nodes(problem) \ visited, place \in 0 .. Len(order) - 1 :
              \/ Delta(best_node, best_position - 1) < Delta(node, place)
              \/ Delta(best_node, best_position - 1) = Delta(node, place)
                   /\ best_node < node
              \/ Delta(best_node, best_position - 1) = Delta(node, place)
                   /\ best_node = node /\ best_position - 1 <= place
<1>1. /\ pc = "insert" /\ Len(order) < problem.size /\ candidate = problem.size
      /\ problem.size \in Nat /\ Len(order) \in Nat /\ best_position \in Nat
      /\ Nodes(problem) = 0 .. problem.size - 1
  BY Facts DEF Insert, Building
<1>2. Len(order) > 0
  BY <1>1 DEF IInv, Framed
<1>3. \A node \in Nodes(problem) \ visited, place \in 0 .. Len(order) - 1 :
        <<node, place>> \in SeenPlaces
  BY <1>1 DEF SeenPlaces
<1>4. SeenPlaces # {}
  <2>1. PICK node \in Nodes(problem) : node \notin visited
    BY <1>1, FreeNodeLeft
  <2>2. 0 \in 0 .. Len(order) - 1
    BY <1>1, <1>2
  <2>3. <<node, 0>> \in SeenPlaces
    BY <1>3, <2>1, <2>2
  <2> QED
    BY <2>3
<1>5. /\ best_position > 0
      /\ <<best_node, best_position - 1>> \in SeenPlaces
      /\ best_cost = Delta(best_node, best_position - 1)
      /\ \A other \in SeenPlaces :
           AsGood(best_cost, best_node, best_position - 1, other)
  BY <1>1, <1>4 DEF IInv, BestInsertion
<1>6. best_node \in Nodes(problem) \ visited /\ best_position - 1 \in 0 .. Len(order) - 1
  BY <1>5 DEF SeenPlaces
<1>7. ASSUME NEW node \in Nodes(problem) \ visited, NEW place \in 0 .. Len(order) - 1
      PROVE  AsGood(best_cost, best_node, best_position - 1, <<node, place>>)
  BY <1>3, <1>5
<1>8. best_position + 1 \in 2 .. Len(order) + 1
  BY <1>1, <1>6
<1> QED
  BY <1>5, <1>6, <1>7, <1>8 DEF AsGood

(* Inserting a free node keeps the tour a tour, from the same start. *)
LEMMA InsertIInv == ASSUME IInv, Insert PROVE IInv'
<1> DEFINE n     == Len(order)
           place == best_position + 1
           old(p) == IF p < place THEN p ELSE p - 1
<1>1. /\ UNCHANGED <<problem, start_node, total_cost, pc>>
      /\ order' = InsertAt(order, place, best_node)
      /\ visited' = visited \cup {best_node}
      /\ pc = "insert" /\ n < problem.size
      /\ candidate' = 0 /\ position' = 0 /\ best_node' = 0 /\ best_position' = 0
      /\ best_cost' = CostMax
      /\ ~found' /\ found' \in BOOLEAN
  BY DEF Insert, Building, BeginRound, inputs
<1>2. /\ problem.size \in Nat /\ Nodes(problem) = 0 .. problem.size - 1
      /\ order \in Seq(Nodes(problem)) /\ n \in Nat /\ DOMAIN order = 1 .. n
      /\ visited \subseteq Nodes(problem) /\ CostMax \in Costs
  BY Facts
<1>3. best_node \in Nodes(problem) /\ best_node \notin visited /\ place \in 2 .. n + 1
  BY RoundResult
<1>4. /\ order' \in Seq(Nodes(problem)) /\ Len(order') = n + 1
      /\ DOMAIN order' = 1 .. n + 1
      /\ \A p \in 1 .. n + 1 :
           order'[p] = IF p < place THEN order[p]
                       ELSE IF p = place THEN best_node ELSE order[p - 1]
  <2>1. place \in 1 .. Len(order) + 1
    BY <1>2, <1>3
  <2> DEFINE longer == InsertAt(order, place, best_node)
  <2>2. /\ longer \in Seq(Nodes(problem)) /\ Len(longer) = Len(order) + 1
        /\ \A p \in 1 .. Len(order) + 1 :
             longer[p] = IF p < place THEN order[p]
                         ELSE IF p = place THEN best_node ELSE order[p - 1]
    <3>1. order \in Seq(Nodes(problem)) /\ best_node \in Nodes(problem)
      BY <1>2, <1>3
    <3> HIDE DEF place
    <3> QED
      BY <2>1, <3>1, Inserted
  <2> HIDE DEF longer
  <2>3. order' = longer
    BY <1>1 DEF longer
  <2> QED
    BY <1>2, <2>2, <2>3
<1>5. \A p \in 1 .. n + 1 : p # place => old(p) \in 1 .. n /\ order'[p] = order[old(p)]
  BY <1>2, <1>3, <1>4
<1>6. order'[place] = best_node
  BY <1>2, <1>3, <1>4
<1>7. \A p \in 1 .. n : order[p] \in visited
  BY <1>2 DEF IInv, VisitedIsTour
<1>8. \A p \in 1 .. n + 1 : order'[p] = best_node <=> p = place
  BY <1>3, <1>5, <1>6, <1>7
<1>9. \A p, q \in 1 .. n + 1 : p # place /\ q # place /\ p # q => old(p) # old(q)
  BY <1>2, <1>3
<1>10. Inputs'
  BY <1>1 DEF IInv, Inputs
<1>11. TypeOK'
  <2>1. First' = First /\ TypeOK
    BY <1>1 DEF First, IInv
  <2>2. order'[1] = order[1]
    BY <1>2, <1>3, <1>4
  <2>3. visited' \subseteq Nodes(problem)
    BY <1>1, <1>2, <1>3
  <2> QED
    BY <1>1, <1>2, <1>4, <2>1, <2>2, <2>3 DEF TypeOK
<1>12. VisitedIsTour'
  <2>1. visited = {order[p] : p \in 1 .. n}
    BY <1>2 DEF IInv, VisitedIsTour
  <2>2. ASSUME NEW q \in 1 .. n
        PROVE  \E p \in 1 .. n + 1 : order'[p] = order[q]
    <3>1. CASE q < place
      <4>1. q \in 1 .. n + 1 /\ order'[q] = order[q]
        BY <1>2, <1>4, <3>1
      <4> QED
        BY <4>1
    <3>2. CASE ~(q < place)
      <4>1. /\ q + 1 \in 1 .. n + 1 /\ (q + 1) - 1 = q
            /\ ~(q + 1 < place) /\ q + 1 # place
        BY <1>2, <1>3, <3>2
      <4>2. order'[q + 1] = order[(q + 1) - 1]
        BY <1>4, <4>1
      <4> QED
        BY <4>1, <4>2
    <3> QED
      BY <3>1, <3>2
  <2>3. {order'[p] : p \in 1 .. n + 1} \subseteq visited \cup {best_node}
    BY <1>5, <1>6, <1>7
  <2>4. visited \cup {best_node} \subseteq {order'[p] : p \in 1 .. n + 1}
    <3>1. place \in 1 .. n + 1
      BY <1>2, <1>3
    <3> QED
      BY <1>6, <2>1, <2>2, <3>1
  <2> QED
    BY <1>1, <1>4, <2>3, <2>4 DEF VisitedIsTour
<1>13. Framed'
  BY <1>1, <1>2, <1>4 DEF Framed
<1>14. BestSecond'
  BY <1>1 DEF BestSecond
<1>15. BestInsertion'
  <2>1. SeenPlaces' = {}
    <3>1. \A insertion \in (Nodes(problem) \ visited') \X (0 .. Len(order') - 1) :
            insertion[1] \in Nat /\ insertion[2] \in Nat
      BY <1>2
    <3> QED
      BY <1>1, <3>1 DEF SeenPlaces
  <2> QED
    BY <1>1, <2>1 DEF BestInsertion
<1>16. Counted'
  <2>1. (HasSecond' <=> HasSecond) /\ First' = First
    BY <1>1 DEF HasSecond, CycleCost, First
  <2>2. IsFiniteSet(visited)
    BY <1>1, FreeNodeLeft
  <2>3. Cardinality(visited') = Cardinality(visited) + 1
    BY <1>1, <1>3, <2>2, FS_AddElement
  <2>4. CASE problem.size > 1 => HasSecond
    <3>1. /\ \A p, q \in 1 .. n : order[p] = order[q] => p = q
          /\ Cardinality(visited) = n
      BY <1>2, <2>4 DEF IInv, Counted
    <3>2. ASSUME NEW p \in 1 .. n + 1, NEW q \in 1 .. n + 1, order'[p] = order'[q]
          PROVE  p = q
      BY <1>5, <1>8, <1>9, <3>1, <3>2
    <3> QED
      BY <1>1, <1>4, <2>1, <2>3, <2>4, <3>1, <3>2 DEF Counted
  <2>5. CASE ~(problem.size > 1 => HasSecond)
    <3>1. /\ \A p, q \in 1 .. n : p # q /\ order[p] = order[q] => order[p] = First
          /\ Cardinality(visited) = n - 1
      BY <1>1, <1>2, <2>5 DEF IInv, Counted
    <3>2. ASSUME NEW p \in 1 .. n + 1, NEW q \in 1 .. n + 1, p # q, order'[p] = order'[q]
          PROVE  order'[p] = First
      BY <1>5, <1>8, <1>9, <3>1, <3>2
    <3>3. Cardinality(visited') = Len(order') - 1
      BY <1>2, <1>4, <2>3, <3>1
    <3> QED
      BY <1>1, <1>4, <2>1, <2>5, <3>2, <3>3 DEF Counted
  <2> QED
    BY <2>4, <2>5
<1> QED
  BY <1>10, <1>11, <1>12, <1>13, <1>14, <1>15, <1>16 DEF IInv

(* Every step of the construction preserves the invariant. *)
LEMMA NextIInv == IInv /\ [Next]_vars => IInv'
<1> SUFFICES ASSUME IInv, [Next]_vars
             PROVE  IInv'
  OBVIOUS
<1>1. CASE SkipVisited
  BY <1>1, SkipVisitedIInv
<1>2. CASE ConsiderSecond
  BY <1>2, ConsiderSecondIInv
<1>3. CASE AppendSecond
  BY <1>3, AppendSecondIInv
<1>4. CASE ConsiderInsertion
  BY <1>4, ConsiderInsertionIInv
<1>5. CASE Insert
  BY <1>5, InsertIInv
<1>6. CASE Finish
  <2>1. /\ UNCHANGED <<problem, start_node, order, visited, candidate, position>>
        /\ UNCHANGED <<best_node, best_position, best_cost, found>>
        /\ pc = "insert" /\ pc' = "done" /\ Len(order) = problem.size
    BY <1>6 DEF Finish, inputs
  <2>2. Inputs' /\ VisitedIsTour' /\ Counted'
    BY <2>1 DEF IInv, Inputs, VisitedIsTour, Counted, HasSecond, CycleCost, First
  <2>3. TypeOK'
    BY <2>1 DEF IInv, TypeOK, First
  <2>4. Framed' /\ BestSecond' /\ BestInsertion'
    BY <2>1 DEF IInv, Framed, BestSecond, BestInsertion
  <2> QED
    BY <2>2, <2>3, <2>4 DEF IInv
<1>7. CASE UNCHANGED vars
  <2>1. TypeOK'
    BY <1>7 DEF vars, IInv, TypeOK, First
  <2>2. Framed'
    BY <1>7 DEF vars, IInv, Framed, First
  <2>3. BestSecond'
    BY <1>7 DEF vars, IInv, BestSecond, SeenSecond, CanBeSecond, CycleCost, First
  <2>4. BestInsertion'
    BY <1>7 DEF vars, IInv, BestInsertion, SeenPlaces, AsGood, Delta
  <2> QED
    BY <1>7, <2>1, <2>2, <2>3, <2>4, ScanStepIInv DEF vars
<1> QED
  BY <1>1, <1>2, <1>3, <1>4, <1>5, <1>6, <1>7 DEF Next

-----------------------------------------------------------------------------
(* The inductive invariant holds in every reachable state. *)
THEOREM Invariance == Spec => []IInv
  BY InitIInv, NextIInv, PTL DEF Spec

(* The loops index the tour and the matrix inside their bounds, and the    *)
(* start node stays in front.                                              *)
THEOREM TypeCorrect == Spec => []TypeOK
  BY Invariance, PTL DEF IInv

(* The tour is a permutation of the nodes exactly if there was a second    *)
(* node to take; if not, it holds the start twice and misses one node.     *)
THEOREM TourIsRoute == Spec => []RouteIfHasSecond
<1>1. IInv => RouteIfHasSecond
  <2> SUFFICES ASSUME IInv, pc = "done"
               PROVE  IF problem.size > 1 => HasSecond
                      THEN IsRouteFrom(problem, First, order)
                      ELSE /\ \A p, q \in DOMAIN order :
                                p # q /\ order[p] = order[q] => order[p] = First
                           /\ Cardinality({order[p] : p \in DOMAIN order})
                                = problem.size - 1
    BY DEF RouteIfHasSecond
  <2>1. /\ order \in Seq(Nodes(problem)) /\ Len(order) = problem.size
        /\ DOMAIN order = 1 .. problem.size /\ problem.size \in Nat
    BY Facts DEF IInv, Framed
  <2>2. order \in [1 .. problem.size -> Nodes(problem)]
    BY <2>1
  <2>3. problem.size > 0 => order[1] = First
    BY DEF IInv, TypeOK
  <2>4. {order[p] : p \in DOMAIN order} = visited
    BY DEF IInv, VisitedIsTour
  <2> QED
    BY <2>1, <2>2, <2>3, <2>4 DEF IInv, Counted, IsRouteFrom, IsRoute
<1> QED
  BY <1>1, Invariance, PTL

(* The tour starts as the cheapest two-node cycle. *)
LEMMA SecondIsCheapest ==
  ASSUME IInv, [Next]_vars, pc = "second", order' # order, HasSecond
  PROVE  \A node \in Nodes(problem) \ {First} :
           \/ CycleCost(order'[2]) < CycleCost(node)
           \/ CycleCost(order'[2]) = CycleCost(node) /\ order'[2] <= node
<1>1. AppendSecond
  BY DEF Next, vars, SkipVisited, ConsiderSecond, ConsiderInsertion, Insert, Finish
<1>2. order = <<First>> /\ order' = Append(order, best_node)
  BY <1>1 DEF IInv, Framed, AppendSecond
<1>3. order'[2] = best_node
  BY <1>2
<1> QED
  BY <1>1, <1>3, SecondFound

(* Comparing the differences the insertions make is comparing the tours.   *)
LEMMA InsertionIsCheapest ==
  ASSUME IInv, [Next]_vars, pc = "insert", order' # order, SmallDistances
  PROVE  \E chosen \in Insertions :
           /\ order' = InsertAt(order, chosen[2], chosen[1])
           /\ \A other \in Insertions : Prefers(chosen, other)
<1>1. Insert
  BY DEF Next, vars, SkipVisited, ConsiderSecond, AppendSecond, ConsiderInsertion, Finish
<1> DEFINE place  == best_position + 1
           chosen == <<best_node, place>>
           CostOf(m) == RouteCost(problem, InsertAt(order, m[2], m[1]))
<1>2. /\ order \in Seq(Nodes(problem)) /\ Len(order) \in Nat /\ best_node \in Nat
      /\ Len(order) < problem.size /\ order' = InsertAt(order, place, best_node)
      /\ Nodes(problem) = 0 .. problem.size - 1 /\ problem.size \in Nat
      /\ Inputs
  BY <1>1, Facts DEF Insert, Building, IInv
<1>3. chosen \in Insertions /\ chosen[1] = best_node /\ chosen[2] = place
  BY <1>1, RoundResult DEF Insertions
<1>4. ASSUME NEW m \in Insertions
      PROVE  /\ m[1] \in Nodes(problem) \ visited /\ m[2] - 2 \in 0 .. Len(order) - 1
             /\ m[1] \in Int /\ m[2] \in Int
             /\ Delta(m[1], m[2] - 2) \in Int
             /\ RouteCost(problem, order) \in Int
             /\ CostOf(m) = RouteCost(problem, order) + Delta(m[1], m[2] - 2)
  <2>1. m[1] \in Nodes(problem) \ visited /\ m[2] \in 2 .. Len(order) + 1
    BY DEF Insertions
  <2>2. m[2] - 2 \in 0 .. Len(order) - 1 /\ m[1] \in Int /\ m[2] \in Int
    BY <1>2, <2>1
  <2>3. Delta(m[1], m[2] - 2) \in Int
    BY <2>1, <2>2, DeltaOK, Facts
  <2> QED
    BY <1>2, <2>1, <2>2, <2>3, DeltaIsDifference
<1>5. place - 2 = best_position - 1 /\ place \in Int
  BY Facts
<1>6. ASSUME NEW other \in Insertions
      PROVE  Prefers(chosen, other)
  <2>1. \/ Delta(best_node, place - 2) < Delta(other[1], other[2] - 2)
        \/ Delta(best_node, place - 2) = Delta(other[1], other[2] - 2)
             /\ best_node < other[1]
        \/ Delta(best_node, place - 2) = Delta(other[1], other[2] - 2)
             /\ best_node = other[1] /\ place - 2 <= other[2] - 2
    BY <1>1, <1>4, <1>5, RoundResult
  <2>2. /\ Delta(best_node, place - 2) \in Int
        /\ CostOf(chosen) = RouteCost(problem, order) + Delta(best_node, place - 2)
    BY <1>3, <1>4
  <2> HIDE DEF chosen, CostOf
  <2>3. \/ CostOf(chosen) < CostOf(other)
        \/ CostOf(chosen) = CostOf(other) /\ chosen[1] < other[1]
        \/ CostOf(chosen) = CostOf(other) /\ chosen[1] = other[1]
             /\ chosen[2] <= other[2]
    BY <1>3, <1>4, <1>5, <2>1, <2>2
  <2> QED
    BY <2>3 DEF Prefers, CostOf
<1> QED
  BY <1>2, <1>3, <1>6

(* Both choices of the construction are the cheapest there is: the tour    *)
(* starts as the cheapest two-node cycle, and each round makes the whole   *)
(* tour as cheap as one insertion can when no sum of the round overflows.  *)
THEOREM GrowsCheapest == Spec => InsertsCheapest
<1>1. IInv /\ [Next]_vars =>
        [pc = "second" /\ order' # order /\ HasSecond =>
           \A node \in Nodes(problem) \ {First} :
             \/ CycleCost(order'[2]) < CycleCost(node)
             \/ CycleCost(order'[2]) = CycleCost(node) /\ order'[2] <= node]_vars
  BY SecondIsCheapest
<1>2. IInv /\ [Next]_vars =>
        [pc = "insert" /\ order' # order /\ SmallDistances =>
           \E chosen \in Insertions :
             /\ order' = InsertAt(order, chosen[2], chosen[1])
             /\ \A other \in Insertions : Prefers(chosen, other)]_vars
  BY InsertionIsCheapest
<1> QED
  BY <1>1, <1>2, Invariance, PTL DEF Spec, InsertsCheapest

(* What a caller may rely on, for any problem: the tour is one of the      *)
(* answers, and the cost handed back is what it costs.                     *)
THEOREM AnswersInsertion ==
  Spec => [](pc = "done" => /\ order \in InsertionAnswers(problem, First)
                            /\ total_cost = RouteCost(problem, order))
<1> DEFINE CostKnown == pc = "done" => total_cost = RouteCost(problem, order)
<1>1. Init => CostKnown
  BY DEF Init
<1>2. CostKnown /\ [Next]_vars => CostKnown'
  BY DEF Next, vars, inputs, SkipVisited, ConsiderSecond, AppendSecond,
         ConsiderInsertion, Insert, Finish, Building
<1>3. ASSUME IInv, RouteIfHasSecond, pc = "done"
      PROVE  order \in InsertionAnswers(problem, First)
  <2>1. /\ order \in Seq(Nodes(problem)) /\ Len(order) = problem.size
        /\ DOMAIN order = 1 .. problem.size /\ problem.size \in Nat
    BY <1>3, Facts DEF IInv, Framed
  <2>2. order \in [1 .. problem.size -> Nodes(problem)]
    BY <2>1
  <2>3. problem.size > 0 => order[1] = First
    BY <1>3 DEF IInv, TypeOK
  <2>4. ASSUME problem.size > 1, ~HasSecond
        PROVE  LacksSecond(problem, First)
    <3>1. First \in Nodes(problem) /\ Nodes(problem) = 0 .. problem.size - 1
      BY <1>3, <2>1, <2>4, InputsOK DEF IInv, Nodes
    <3>2. ASSUME NEW node \in Nodes(problem) \ {First}
          PROVE  CycleCost(node) = CostMax /\ ~(node < First)
      <4>1. Distance(problem, First, node) \in Int /\ Distance(problem, node, First) \in Int
        BY <1>3, <3>1, InputsOK DEF IInv
      <4>2. CycleCost(node) \in Costs
        BY <4>1, WrapFacts DEF CycleCost
      <4>3. CycleCost(node) \in Int /\ CycleCost(node) <= CostMax
        BY <1>3, <4>2, Facts
      <4> QED
        BY <2>4, <4>3, CostRangeAssumption DEF HasSecond
    <3>3. First = 0
      <4>1. First \in Nat /\ 0 \in Nodes(problem)
        BY <2>1, <2>4, <3>1
      <4>2. First # 0 => ~(0 < First)
        BY <3>2, <4>1
      <4> QED
        BY <4>1, <4>2
    <3> QED
      BY <2>4, <3>2, <3>3 DEF LacksSecond, CycleCost
  <2>5. OnlyZeroTwice(order)
    <3>1. CASE problem.size > 1 => HasSecond
      BY <1>3, <2>1, <3>1 DEF RouteIfHasSecond, OnlyZeroTwice, IsRouteFrom, IsRoute
    <3>2. CASE problem.size > 1 /\ ~HasSecond
      BY <1>3, <2>4, <3>2 DEF RouteIfHasSecond, OnlyZeroTwice, LacksSecond
    <3> QED
      BY <3>1, <3>2
  <2>6. IsRoute(problem, order) \/ LacksSecond(problem, First)
    BY <1>3, <2>4 DEF RouteIfHasSecond, IsRouteFrom
  <2> QED
    BY <2>2, <2>3, <2>5, <2>6 DEF InsertionAnswers, ToursFrom
<1> HIDE DEF CostKnown
<1>4. IInv /\ RouteIfHasSecond /\ CostKnown =>
        (pc = "done" => /\ order \in InsertionAnswers(problem, First)
                        /\ total_cost = RouteCost(problem, order))
  BY <1>3 DEF CostKnown
<1> QED
  BY <1>1, <1>2, <1>4, Invariance, TourIsRoute, PTL DEF Spec
=============================================================================
