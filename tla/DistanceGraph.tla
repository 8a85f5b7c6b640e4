---------------------------- MODULE DistanceGraph ----------------------------
(***************************************************************************)
(* What a tsp_solver_model_t promises to its client, without the matrix it *)
(* is stored in: a directed graph that grows one node at a time, a weight  *)
(* on every ordered pair of distinct nodes that has been given one, and    *)
(* the fact that an add_node that ran out of memory half-way spoils the    *)
(* model for good.                                                         *)
(***************************************************************************)
EXTENDS Integers

CONSTANTS
  Costs,        \* the values of tsp_solver_cost_t
  Unset,        \* std::nullopt: no distance was given for a pair
  NodeIdMax     \* std::numeric_limits<tsp_solver_node_id_t>::max()

VARIABLES
  live,         \* the handle owns a model
  size,         \* number of nodes
  weight,       \* [NodeIds \X NodeIds -> Costs \cup {Unset}]
  spoiled       \* an add_node failed after it had started to grow the model

vars == <<live, size, weight, spoiled>>

NodeIds == 0 .. NodeIdMax
Pairs   == {pair \in NodeIds \X NodeIds : pair[1] # pair[2]}
NoWeight == [pair \in Pairs |-> Unset]

(* What validate and solve accept: a model none of whose additions was cut *)
(* short and whose every ordered pair of distinct nodes has a distance.    *)
Valid ==
  /\ ~spoiled
  /\ \A pair \in Pairs :
       pair[1] < size /\ pair[2] < size => weight[pair] # Unset

Init ==
  /\ live = FALSE
  /\ size = 0
  /\ weight = NoWeight
  /\ spoiled = FALSE

Create ==
  /\ ~live
  /\ live' = TRUE
  /\ size' = 0
  /\ weight' = NoWeight
  /\ spoiled' = FALSE

Destroy ==
  /\ live
  /\ live' = FALSE
  /\ size' = 0
  /\ weight' = NoWeight
  /\ spoiled' = FALSE

(* The new node is the next id; no weight leads to it or from it. *)
AddNode ==
  /\ live
  /\ size \in NodeIds
  /\ size' = size + 1
  /\ UNCHANGED <<live, weight, spoiled>>

SpoilModel ==
  /\ live
  /\ spoiled' = TRUE
  /\ UNCHANGED <<live, size, weight>>

SetWeight(pair, cost) ==
  /\ live
  /\ pair[1] < size
  /\ pair[2] < size
  /\ weight' = [weight EXCEPT ![pair] = cost]
  /\ UNCHANGED <<live, size, spoiled>>

Next ==
  \/ Create
  \/ Destroy
  \/ AddNode
  \/ SpoilModel
  \/ \E pair \in Pairs, cost \in Costs : SetWeight(pair, cost)

Spec == Init /\ [][Next]_vars
=============================================================================
