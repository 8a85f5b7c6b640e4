------------------------------- MODULE HeldKarp -------------------------------
(***************************************************************************)
(* held_karp_tour of src/src/algorithms/held_karp.cpp: the dynamic program *)
(* over (mask, last), one step per cell, then the closing of the cycle,    *)
(* then one step per node of the path traced back.                         *)
(*                                                                         *)
(* `nodes` lists the nodes other than the start; a mask is a number whose  *)
(* bits say which indices into nodes a path has visited, and dp[mask][last]*)
(* is the cost of the best path from the start over the mask that ends at  *)
(* nodes[last].  A cost of kInf stands for "no path".                      *)
(***************************************************************************)
EXTENDS Tsp, FiniteSetsExt

CONSTANTS
  Problems,             \* the problems to solve
  StartNodes,           \* the start nodes asked for
  kHeldKarpCutoff,      \* largest problem the function accepts
  NoNode                \* std::numeric_limits<NodeId>::max(), no parent

ASSUME ProblemsAssumption   == \A problem \in Problems : IsProblem(problem)
ASSUME StartNodesAssumption == StartNodes \subseteq Nat
ASSUME CutoffAssumption     == kHeldKarpCutoff \in Nat
(* Every cost but the least has its negation among the costs. *)
ASSUME NegationAssumption   == CostMin <= -CostMax

VARIABLES
  problem, start_node,      \* the arguments, fixed by Init
  dp, parent,               \* [masks -> [indices -> Costs / nodes]]
  mask, last,               \* the cell in turn
  best_total,               \* cost of the best cycle
  order,                    \* the tour, filled from its end
  pc                        \* "fill", "trace", "done" or "out_of_range"

vars == <<problem, start_node, dp, parent, mask, last, best_total, order, pc>>

inputs == <<problem, start_node>>

kInf == CostMax \div 4

Start    == NormalizeStartNode(problem, start_node)
(* std::size_t{1} << index *)
Power[index \in Nat] == IF index = 0 THEN 1 ELSE 2 * Power[index - 1]

Indices  == 0 .. problem.size - 2
FullMask == Power[problem.size - 1] - 1
Masks    == 0 .. FullMask

(* Mutant: the list of nodes leaves out node 0 whatever the start is. *)
NodeAtFromOne(index) == index + 1

(* nodes[index], and the way back from a node to its index. *)
NodeAt(index) == IF index < Start THEN index ELSE index + 1

(* Mutant: the node is used as its own index. *)
IndexOfUnshifted(node) == node

IndexOf(node) == IF node < Start THEN node ELSE node - 1

Bit(m, index)     == (m \div Power[index]) % 2 = 1
Members(m)        == {index \in Indices : Bit(m, index)}
Without(m, index) == m - Power[index]

EdgeCost(from, to) == Distance(problem, from, to)

(* Mutant: the first edge is read in the other direction. *)
SingletonsReversed ==
  [m \in Masks |-> [index \in Indices |->
     IF m = Power[index] THEN EdgeCost(NodeAt(index), Start) ELSE kInf]]

(* The tables as the loop over the singletons leaves them. *)
Singletons ==
  [m \in Masks |-> [index \in Indices |->
     IF m = Power[index] THEN EdgeCost(Start, NodeAt(index)) ELSE kInf]]

(* One above the cutoff is refused, and then a problem of no node or of    *)
(* one is answered at once.                                                *)
Init ==
  /\ problem \in Problems
  /\ start_node \in StartNodes
  /\ mask = 1
  /\ last = 0
  /\ best_total = 0
  /\ IF problem.size <= 1 \/ problem.size > kHeldKarpCutoff
     THEN /\ dp = <<>>
          /\ parent = <<>>
          /\ IF problem.size > kHeldKarpCutoff
             THEN order = <<>> /\ pc = "out_of_range"
             ELSE order = (IF problem.size = 1 THEN <<Start>> ELSE <<>>) /\ pc = "done"
     ELSE /\ dp = Singletons
          /\ parent = [m \in Masks |-> [index \in Indices |-> NoNode]]
          /\ order = <<>>
          /\ pc = "fill"

NextCell ==
  IF last + 1 \in Indices
  THEN last' = last + 1 /\ UNCHANGED mask
  ELSE last' = 0 /\ mask' = mask + 1

(* Cells whose last node is not in the mask, or is all of it, stay as the  *)
(* initialisation left them.                                               *)
HasPredecessors ==
  last \in Members(mask) /\ Without(mask, last) # 0

SkipCell ==
  /\ pc = "fill"
  /\ mask \in Masks
  /\ ~HasPredecessors
  /\ NextCell
  /\ UNCHANGED <<inputs, dp, parent, best_total, order, pc>>

(* Mutant: the last edge is read in the other direction. *)
CostViaReversed(previous) ==
  Wrap(dp[Without(mask, last)][previous] + EdgeCost(NodeAt(last), NodeAt(previous)))

(* The best way to reach nodes[last]: a previous node that can itself be   *)
(* reached, the cheapest sum that does not exceed the kInf the cell starts *)
(* from, and the lowest node among equal sums.                             *)
CostVia(previous) ==
  Wrap(dp[Without(mask, last)][previous] + EdgeCost(NodeAt(previous), NodeAt(last)))

Predecessors ==
  {previous \in Members(Without(mask, last)) :
     dp[Without(mask, last)][previous] # kInf /\ CostVia(previous) <= kInf}

FillCell ==
  /\ pc = "fill"
  /\ mask \in Masks
  /\ HasPredecessors
  /\ IF Predecessors = {}
     THEN UNCHANGED <<dp, parent>>
     ELSE LET best_cost   == Min({CostVia(previous) : previous \in Predecessors})
              best_parent == Min({NodeAt(previous) : previous \in
                                   {p \in Predecessors : CostVia(p) = best_cost}})
          IN  /\ dp' = [dp EXCEPT ![mask][last] = best_cost]
              /\ parent' = [parent EXCEPT ![mask][last] = best_parent]
  /\ NextCell
  /\ UNCHANGED <<inputs, best_total, order, pc>>

(***************************************************************************)
(* The closing of the cycle: a total has to stay below kInf.               *)
(***************************************************************************)
TotalVia(index) == Wrap(dp[FullMask][index] + EdgeCost(NodeAt(index), Start))

Closings ==
  {index \in Indices : dp[FullMask][index] # kInf /\ TotalVia(index) < kInf}

Close ==
  /\ pc = "fill"
  /\ mask \notin Masks
  /\ Closings # {}
  /\ LET total     == Min({TotalVia(index) : index \in Closings})
         best_last == Min({index \in Closings : TotalVia(index) = total})
     IN  /\ best_total' = total
         /\ last' = best_last
         /\ order' = <<NodeAt(best_last)>>
  /\ mask' = FullMask
  /\ pc' = "trace"
  /\ UNCHANGED <<inputs, dp, parent>>

NoTour ==
  /\ pc = "fill"
  /\ mask \notin Masks
  /\ Closings = {}
  /\ pc' = "out_of_range"
  /\ UNCHANGED <<inputs, dp, parent, mask, last, best_total, order>>

(* One node back along the parents. *)
TraceBack ==
  /\ pc = "trace"
  /\ Without(mask, last) # 0
  /\ LET previous == parent[mask][last] IN
       /\ order' = <<previous>> \o order
       /\ last' = IndexOf(previous)
  /\ mask' = Without(mask, last)
  /\ UNCHANGED <<inputs, dp, parent, best_total, pc>>

Finish ==
  /\ pc = "trace"
  /\ Without(mask, last) = 0
  /\ order' = <<Start>> \o order
  /\ pc' = "done"
  /\ UNCHANGED <<inputs, dp, parent, mask, last, best_total>>

Next == SkipCell \/ FillCell \/ Close \/ NoTour \/ TraceBack \/ Finish

(* The function is straight-line code of one thread: it keeps running. *)
Spec == Init /\ [][Next]_vars /\ WF_vars(Next)

(***************************************************************************)
(* Properties.                                                             *)
(***************************************************************************)

(* The tables stay tables of costs and of nodes of the problem, and the    *)
(* walk back along the parents never leaves them.                          *)
TypeOK ==
  /\ pc \in {"fill", "trace", "done", "out_of_range"}
  /\ order \in Seq(Nodes(problem))
  /\ Len(order) <= problem.size
  /\ best_total \in Costs
  /\ pc \in {"fill", "trace"} =>
       /\ dp \in [Masks -> [Indices -> Costs]]
       /\ parent \in [Masks -> [Indices -> Nodes(problem) \cup {NoNode}]]
       /\ last \in Indices
  /\ pc = "trace" => mask \in Masks /\ Bit(mask, last)

(* Distances small enough that no path reaches kInf in either direction.   *)
SmallDistances ==
  \A from, to \in Nodes(problem) :
    LET distance == Distance(problem, from, to) IN
    distance * problem.size < kInf /\ -distance * problem.size < kInf

(* The paths a cell stands for: from the start, over the mask, to last.    *)
PathsTo(m, index) ==
  LET length == Cardinality(Members(m)) IN
  {path \in [1 .. length -> Members(m)] :
     /\ path[length] = index
     /\ \A p, q \in 1 .. length : path[p] = path[q] => p = q}

PathCost(path) ==
  LET total[p \in 1 .. Len(path)] ==
        IF p = 1
        THEN EdgeCost(Start, NodeAt(path[1]))
        ELSE total[p - 1] + EdgeCost(NodeAt(path[p - 1]), NodeAt(path[p]))
  IN  total[Len(path)]

(* A cell the loop has passed holds the cost of the cheapest path it       *)
(* stands for, compared with every such path.                              *)
CellsAreShortestPaths ==
  pc = "fill" /\ SmallDistances =>
    \A m \in 1 .. mask - 1 : \A index \in Members(m) :
      dp[m][index] = Min({PathCost(path) : path \in PathsTo(m, index)})

(* Whatever sums overflowed or reached kInf, an answer is a permutation of *)
(* the nodes from the start, as the parents never lead into a cell without *)
(* one; and the cost computed forward over the cells is the cost of the    *)
(* tour traced backward along the parents.                                 *)
AnswerIsRoute ==
  pc = "done" =>
    /\ IsRouteFrom(problem, Start, order)
    /\ best_total = RouteCost(problem, order)

(* Within the cutoff and with small distances the answer is optimal.       *)
OptimalIfSmall ==
  SmallDistances /\ problem.size <= kHeldKarpCutoff =>
    /\ pc # "out_of_range"
    /\ pc = "done" =>
         \A route \in Routes(problem) : best_total <= RouteCost(problem, route)

(* The claim of the design document: the exact algorithm is the truth that *)
(* the heuristics are compared with on small instances, so that within the *)
(* cutoff it answers, and nothing cheaper exists.                          *)
TruthSource ==
  problem.size <= kHeldKarpCutoff =>
    /\ pc # "out_of_range"
    /\ pc = "done" =>
         \A route \in Routes(problem) : best_total <= RouteCost(problem, route)
=============================================================================
