------------------------ MODULE MCLocalSearchSolver ------------------------
(* Costs of eight bits and problems without the sentinel distance: every   *)
(* problem of up to three nodes over two costs, the symmetric ones of four *)
(* over two, and asymmetric ones of four and five.  In the last, from node *)
(* 1, a perturbation leads past several tours cheaper than the best.       *)
EXTENDS LocalSearchSolver, SmallProblems

MCCostMin == -128

MCProblems ==
  UNION {AllProblems(n, {-1, 2}) : n \in 1 .. 3}
    \cup AllProblems(0, {2})
    \cup SymmetricProblems(4, {1, 3})
    \cup {FromRows(<< <<0, 3, 1, 5>>,
                      <<2, 0, 4, 1>>,
                      <<6, 1, 0, 2>>,
                      <<1, 5, 3, 0>> >>),
          FromRows(<< <<0, 8, 2, 3, 9>>,
                      <<5, 0, 4, 1, 9>>,
                      <<9, 7, 0, 1, 2>>,
                      <<6, 3, 5, 0, 9>>,
                      <<8, 1, 6, 4, 0>> >>)}

MCStartNodes == {0, 6}
=============================================================================
