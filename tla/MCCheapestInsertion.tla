------------------------- MODULE MCCheapestInsertion -------------------------
(* Costs of six bits.  Every problem of up to three nodes over a negative  *)
(* cost, two small ones and one whose two-node cycle overflows or is the   *)
(* sentinel, the symmetric problems of four nodes over two costs, and two  *)
(* asymmetric problems of four and five nodes.                             *)
EXTENDS CheapestInsertion, SmallProblems

MCCostMin == -32

MCProblems ==
  UNION {AllProblems(n, {-2, 3, 15, 16}) : n \in 0 .. 2}
    \cup AllProblems(3, {-2, 3, 16})
    \cup SymmetricProblems(3, {1, CostMax})
    \cup SymmetricProblems(4, {1, 3})
    \cup {FromRows(<< <<0, 3, 1, 4>>,
                      <<2, 0, 4, 1>>,
                      <<4, 1, 0, 2>>,
                      <<1, 3, 3, 0>> >>),
          FromRows(<< <<0, 3, 1, 2, 2>>,
                      <<3, 0, 2, 1, 3>>,
                      <<1, 3, 0, 3, 2>>,
                      <<2, 1, 2, 0, 3>>,
                      <<2, 3, 3, 1, 0>> >>)}

MCStartNodes == {0, 1, 5}
=============================================================================
