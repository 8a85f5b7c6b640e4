----------------------------- MODULE MCHeldKarp -----------------------------
(* Costs of seven bits, so that kInf is 15, and a cutoff of four nodes.    *)
(* Every problem of up to three nodes over small costs and over costs that *)
(* reach kInf or overflow, the symmetric problems of four nodes, two       *)
(* asymmetric ones, and one of five nodes, above the cutoff.               *)
EXTENDS HeldKarp, SmallProblems

MCCostMin == -64

MCProblems ==
  UNION {AllProblems(n, {-3, 1, 4, 60}) : n \in 0 .. 2}
    \cup AllProblems(3, {-3, 1, 4})
    \cup AllProblems(3, {1, 15, 60})
    \cup SymmetricProblems(4, {1, 2, 3})
    \cup {FromRows(<< <<0, 3, 1, 2>>,
                      <<2, 0, 3, 1>>,
                      <<3, 1, 0, 2>>,
                      <<1, 3, 3, 0>> >>),
          FromRows(<< <<0, -3, 1, 2>>,
                      <<2, 0, -2, 1>>,
                      <<3, 1, 0, -1>>,
                      <<1, 15, 14, 0>> >>),
          FromRows(<< <<0, 1, 1, 1, 1>>,
                      <<1, 0, 1, 1, 1>>,
                      <<1, 1, 0, 1, 1>>,
                      <<1, 1, 1, 0, 1>>,
                      <<1, 1, 1, 1, 0>> >>)}

MCStartNodes == {0, 1, 5}
MCNoNode == 99
=============================================================================
