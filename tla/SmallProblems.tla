---------------------------- MODULE SmallProblems ----------------------------
(* Families of small problems for the model-checking modules: every matrix *)
(* of a size over a few values, every symmetric one, and single matrices   *)
(* written down as rows.                                                   *)
EXTENDS Integers, Sequences

ProblemOf(n, Entry(_, _)) ==
  [size |-> n,
   distances |-> [from \in 0 .. n - 1 |-> [to \in 0 .. n - 1 |->
                    IF from = to THEN 0 ELSE Entry(from, to)]]]

OffDiagonal(n) == {pair \in (0 .. n - 1) \X (0 .. n - 1) : pair[1] # pair[2]}

AllProblems(n, values) ==
  {ProblemOf(n, LAMBDA from, to : w[<<from, to>>]) :
     w \in [OffDiagonal(n) -> values]}

SymmetricProblems(n, values) ==
  {ProblemOf(n, LAMBDA from, to :
                  w[IF from < to THEN <<from, to>> ELSE <<to, from>>]) :
     w \in [{pair \in OffDiagonal(n) : pair[1] < pair[2]} -> values]}

FromRows(rows) ==
  ProblemOf(Len(rows), LAMBDA from, to : rows[from + 1][to + 1])
=============================================================================
