------------------------------ MODULE MCTwoOpt ------------------------------
(* Costs of six bits.  Every problem of up to three nodes over three costs: *)
(* tours overflow, and sums on the way round tours whose cost fits.  The    *)
(* symmetric problems of four nodes over three costs, and asymmetric ones   *)
(* of four and five.  Every route of each is a seed.                        *)
EXTENDS TwoOpt, SmallProblems

MCCostMin == -32

MCProblems ==
  UNION {AllProblems(n, {-12, 1, 20}) : n \in 0 .. 3}
    \cup SymmetricProblems(4, {1, 2, 4})
    \cup {FromRows(<< <<0, 3, 1, 5>>,
                      <<2, 0, 4, 1>>,
                      <<6, 1, 0, 2>>,
                      <<1, 5, 3, 0>> >>),
          FromRows(<< <<0, 3, 1, 5, 2>>,
                      <<4, 0, 2, 1, 6>>,
                      <<1, 3, 0, 4, 5>>,
                      <<6, 1, 2, 0, 3>>,
                      <<2, 5, 4, 1, 0>> >>)}
=============================================================================
