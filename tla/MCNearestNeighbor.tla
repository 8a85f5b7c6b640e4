-------------------------- MODULE MCNearestNeighbor --------------------------
(* Costs of four bits.  Every problem of up to three nodes over a negative *)
(* cost, a positive one and the sentinel, the symmetric ones of four nodes *)
(* over two costs, and start nodes below and above the size.               *)
EXTENDS NearestNeighbor, SmallProblems

MCProblems ==
  UNION {AllProblems(n, {-1, 2, CostMax}) : n \in 0 .. 3}
    \cup SymmetricProblems(4, {1, 2})

MCCostMin == -8
MCStartNodes == {0, 2, 5}
=============================================================================
