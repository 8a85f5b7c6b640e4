------------------------------ MODULE CApiModel ------------------------------
(***************************************************************************)
(* tsp_solver_model_t of src/src/c_api.cpp: a vector of rows, each row a   *)
(* vector of optional costs, and the calls a client makes on the handle.   *)
(* Row r of the specification is distances[r - 1] of the code.             *)
(*                                                                         *)
(* add_node first appends an empty entry to every row, one after the       *)
(* other, and then appends a row; each of these may throw std::bad_alloc,  *)
(* and nothing undoes the entries that were already appended.              *)
(***************************************************************************)
EXTENDS Tsp

CONSTANTS
  Unset,          \* std::nullopt
  NodeIdMax,      \* std::numeric_limits<tsp_solver_node_id_t>::max()
  MaxRowLength    \* bound of the exploration on the length of a row

ASSUME UnsetAssumption        == Unset \notin Costs
ASSUME NodeIdMaxAssumption    == NodeIdMax \in Nat
ASSUME MaxRowLengthAssumption == MaxRowLength \in Nat

VARIABLES
  live,           \* the client holds a model
  distances,      \* the rows of the model
  returned        \* what the last call handed back

vars == <<live, distances, returned>>

NodeIds == 0 .. NodeIdMax
Entries == Costs \cup {Unset}
ErrorCodes == {"OK", "INVALID_ARGUMENT", "OUT_OF_RANGE",
               "ALLOCATION_FAILED", "INVALID_MODEL"}

Size == Len(distances)

Ok(node)    == [code |-> "OK", node |-> node]
Error(code) == [code |-> code, node |-> 0]

IsSquare == \A r \in DOMAIN distances : Len(distances[r]) = Size

(* Mutant: is_complete without its call of is_square. *)
IsCompleteIgnoringShape ==
  \A r \in DOMAIN distances : \A c \in DOMAIN distances :
    c \in DOMAIN distances[r] => distances[r][c] # Unset

IsComplete ==
  /\ IsSquare
  /\ \A r, c \in DOMAIN distances : distances[r][c] # Unset

(***************************************************************************)
(* The calls.                                                              *)
(***************************************************************************)
Init ==
  /\ live = FALSE
  /\ distances = <<>>
  /\ returned = Error("OK")

Create ==
  /\ ~live
  /\ live' = TRUE
  /\ distances' = <<>>
  /\ returned' = Error("OK")

CreateFails ==
  /\ ~live
  /\ returned' = Error("ALLOCATION_FAILED")
  /\ UNCHANGED <<live, distances>>

Destroy ==
  /\ live
  /\ live' = FALSE
  /\ distances' = <<>>
  /\ UNCHANGED returned

(* Mutant: the loop of add_node resizes each row to the new size. *)
GrownByResize(count) ==
  [r \in DOMAIN distances |->
     IF r <= count
     THEN [c \in 1 .. Size + 1 |->
             IF c <= Len(distances[r]) THEN distances[r][c] ELSE Unset]
     ELSE distances[r]]

(* The rows after the loop of add_node has appended to the first `count`.  *)
Grown(count) ==
  [r \in DOMAIN distances |->
     IF r <= count THEN Append(distances[r], Unset) ELSE distances[r]]

(* Mutant: the new row has an entry per old node only. *)
NewRowTooShort(node_id) == [c \in 1 .. node_id |-> Unset]

(* The row of the new node: node_id + 1 empty entries, then its diagonal.  *)
NewRow(node_id) ==
  [c \in 1 .. node_id + 1 |-> IF c = node_id + 1 THEN 0 ELSE Unset]

(* static_cast<tsp_solver_node_id_t>(node_id). *)
ToNodeId(node_id) == node_id % (NodeIdMax + 1)

HasRoom == \A r \in DOMAIN distances : Len(distances[r]) < MaxRowLength

(* Mutant: the range check compares with one more than the largest id. *)
AddNodePastLastId ==
  /\ live
  /\ Size <= NodeIdMax + 1
  /\ HasRoom
  /\ distances' = Append(Grown(Size), NewRow(Size))
  /\ returned' = Ok(ToNodeId(Size))
  /\ UNCHANGED live

(* Mutant: the same, and the id is handed out without the cast. *)
AddNodeWithoutCast ==
  /\ live
  /\ Size <= NodeIdMax + 1
  /\ HasRoom
  /\ distances' = Append(Grown(Size), NewRow(Size))
  /\ returned' = Ok(Size)
  /\ UNCHANGED live

AddNode ==
  /\ live
  /\ Size <= NodeIdMax
  /\ HasRoom
  /\ distances' = Append(Grown(Size), NewRow(Size))
  /\ returned' = Ok(ToNodeId(Size))
  /\ UNCHANGED live

(* bad_alloc after `count` rows have grown: from the push_back of the next *)
(* row, or from the emplace_back when every row has grown.                 *)
AddNodeFails(count) ==
  /\ live
  /\ Size <= NodeIdMax
  /\ HasRoom
  /\ distances' = Grown(count)
  /\ returned' = Error("ALLOCATION_FAILED")
  /\ UNCHANGED live

AddNodeOutOfRange ==
  /\ live
  /\ Size > NodeIdMax
  /\ returned' = Error("OUT_OF_RANGE")
  /\ UNCHANGED <<live, distances>>

(* Mutant: the column is checked against the length of its row. *)
SetDistanceWithinRow(from, to, distance) ==
  /\ live
  /\ from < Size
  /\ to < Len(distances[from + 1])
  /\ distances' = [distances EXCEPT ![from + 1][to + 1] =
                     IF from = to THEN 0 ELSE distance]
  /\ returned' = Error("OK")
  /\ UNCHANGED live

(* Mutant: the distance is stored in both directions. *)
SetDistanceBothWays(from, to, distance) ==
  /\ live
  /\ from < Size
  /\ to < Size
  /\ distances' = [distances EXCEPT
                     ![from + 1][to + 1] = IF from = to THEN 0 ELSE distance,
                     ![to + 1][from + 1] = IF from = to THEN 0 ELSE distance]
  /\ returned' = Error("OK")
  /\ UNCHANGED live

SetDistance(from, to, distance) ==
  /\ live
  /\ from < Size
  /\ to < Size
  /\ distances' = [distances EXCEPT ![from + 1][to + 1] =
                     IF from = to THEN 0 ELSE distance]
  /\ returned' = Error("OK")
  /\ UNCHANGED live

SetDistanceOutOfRange(from, to) ==
  /\ live
  /\ from >= Size \/ to >= Size
  /\ returned' = Error("OUT_OF_RANGE")
  /\ UNCHANGED <<live, distances>>

Validate ==
  /\ live
  /\ returned' = Error(IF IsComplete THEN "OK" ELSE "INVALID_MODEL")
  /\ UNCHANGED <<live, distances>>

(* Every call rejects a null handle or a null out parameter at once. *)
RejectNull ==
  /\ returned' = Error("INVALID_ARGUMENT")
  /\ UNCHANGED <<live, distances>>

Next ==
  \/ Create
  \/ CreateFails
  \/ Destroy
  \/ AddNode
  \/ \E count \in 0 .. Size : AddNodeFails(count)
  \/ AddNodeOutOfRange
  \/ \E from, to \in NodeIds :
       \/ \E distance \in Costs : SetDistance(from, to, distance)
       \/ SetDistanceOutOfRange(from, to)
  \/ Validate
  \/ RejectNull

Spec == Init /\ [][Next]_vars

(***************************************************************************)
(* Properties.                                                             *)
(***************************************************************************)

(* The rows hold costs and empty entries, and every call returns one of   *)
(* the documented codes; add_node and set_distance keep the matrix typed. *)
TypeOK ==
  /\ live \in BOOLEAN
  /\ distances \in Seq(Seq(Entries))
  /\ returned \in [code : ErrorCodes, node : NodeIds]

(* However many additions were cut short, every row is at least as long as *)
(* there are nodes: the unchecked distances[from][to] of set_distance,     *)
(* guarded by the number of rows only, stays inside its row.               *)
RowsCoverNodes == \A r \in DOMAIN distances : Len(distances[r]) >= Size

(* No entry beyond the last node ever holds a distance: a row that a       *)
(* failed add_node left too long hands nothing to a node added later.      *)
NothingBeyondNodes ==
  \A r \in DOMAIN distances :
    \A c \in DOMAIN distances[r] : c > Size => distances[r][c] = Unset

(* The id add_node hands out is the index of the row it appended, up to    *)
(* the last id the type holds: the cast to 32 bits loses nothing.          *)
IdNamesNewRow ==
  [][Size' = Size + 1 => returned'.node = Size]_vars

(* A model whose rows differ in length can never be validated or solved    *)
(* again: no call short of model_destroy makes a ragged matrix square.     *)
RaggedForever ==
  [][live /\ live' /\ ~IsSquare => ~IsSquare']_vars

(***************************************************************************)
(* The matrix implements the graph of DistanceGraph.                       *)
(***************************************************************************)
Pairs == {pair \in NodeIds \X NodeIds : pair[1] # pair[2]}

WeightOf ==
  [pair \in Pairs |->
     IF pair[1] < Size /\ pair[2] < Size
     THEN distances[pair[1] + 1][pair[2] + 1]
     ELSE Unset]

Graph == INSTANCE DistanceGraph
           WITH size <- Size, weight <- WeightOf, spoiled <- ~IsSquare

(* Seen through the mapping, every call is a step of the graph or changes  *)
(* nothing: a distance once set survives every later call, a new node has  *)
(* no distance, and raggedness is all that a failed add_node leaves.       *)
ImplementsGraph == Graph!Spec

(* is_complete decides exactly whether the graph is valid. *)
CompleteIffValid == IsComplete <=> Graph!Valid
=============================================================================
