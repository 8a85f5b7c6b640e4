----------------------------- MODULE MCCApiSolve -----------------------------
(* Costs of eight bits, so that kInf is 31, and a Held-Karp cutoff of three *)
(* nodes.  The models: no node, one, two whose cycle reaches kInf, two      *)
(* whose cycle costs CostMax, three whose two tours differ in cost, three   *)
(* with the sentinel distance, four, one with a missing distance and one a  *)
(* failed add_node left ragged.                                             *)
EXTENDS CApiSolve

MCCostMin == -128

MCModels ==
  {<<>>,
   << <<0>> >>,
   << <<0, 20>>,
      <<20, 0>> >>,
   << <<0, 64>>,
      <<63, 0>> >>,
   << <<0, 127, 1>>,
      <<1, 0, 127>>,
      <<2, 127, 0>> >>,
   << <<0, 1, 5>>,
      <<5, 0, 1>>,
      <<2, 5, 0>> >>,
   << <<0, 2, 1, 4>>,
      <<3, 0, 1, 2>>,
      <<1, 4, 0, 2>>,
      <<2, 1, 3, 0>> >>,
   << <<0, 1>>,
      <<Unset, 0>> >>,
   << <<0, 1, Unset>>,
      <<1, 0>> >>}

MCTimeLimits == {0, 9}
MCSeeds == {0, 5}
=============================================================================
