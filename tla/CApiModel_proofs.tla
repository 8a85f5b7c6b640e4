--------------------------- MODULE CApiModel_proofs ---------------------------
(***************************************************************************)
(* Proofs about the C API: the model handle, for every range of costs,     *)
(* every width of the node id and every bound on the rows; then options,   *)
(* solve and results, for every set of models and of option values and     *)
(* every cutoff; and the two composed.                                     *)
(***************************************************************************)
EXTENDS CApiSolve, SequenceTheorems, TLAPS

(* The diagonal is zero whatever set_distance is asked to store there. *)
DiagonalZero == \A r \in DOMAIN distances : distances[r][r] = 0

(* The inductive invariant.  RowsCoverNodes alone is not inductive: that   *)
(* the rows stay typed sequences is what makes their lengths comparable.   *)
IInv == TypeOK /\ RowsCoverNodes /\ NothingBeyondNodes /\ DiagonalZero

-----------------------------------------------------------------------------
(* What the loop of add_node does to one row. *)
LEMMA GrownRows ==
  ASSUME distances \in Seq(Seq(Entries)), NEW count \in Nat
  PROVE  /\ Grown(count) \in Seq(Seq(Entries))
         /\ Len(Grown(count)) = Size
         /\ \A r \in DOMAIN distances :
              /\ Grown(count)[r] = IF r <= count
                                   THEN Append(distances[r], Unset)
                                   ELSE distances[r]
              /\ Len(Grown(count)[r]) = IF r <= count
                                        THEN Len(distances[r]) + 1
                                        ELSE Len(distances[r])
              /\ \A c \in DOMAIN distances[r] :
                   Grown(count)[r][c] = distances[r][c]
              /\ \A c \in DOMAIN Grown(count)[r] :
                   c > Len(distances[r]) => Grown(count)[r][c] = Unset
<1>1. \A r \in DOMAIN distances : distances[r] \in Seq(Entries)
  OBVIOUS
<1>2. \A r \in DOMAIN distances : Append(distances[r], Unset) \in Seq(Entries)
  BY <1>1 DEF Entries
<1>3. DOMAIN distances = 1 .. Size
  BY DEF Size
<1>4. Grown(count) \in Seq(Seq(Entries)) /\ Len(Grown(count)) = Size
  BY <1>1, <1>2, <1>3 DEF Grown, Size
<1> QED
  BY <1>1, <1>2, <1>4 DEF Grown

(* The zero of the diagonal is a cost. *)
LEMMA ZeroCost == 0 \in Costs
  BY CostRangeAssumption DEF Costs

(* The row add_node appends. *)
LEMMA NewRows ==
  ASSUME NEW node_id \in Nat
  PROVE  /\ NewRow(node_id) \in Seq(Entries)
         /\ Len(NewRow(node_id)) = node_id + 1
         /\ \A c \in 1 .. node_id : NewRow(node_id)[c] = Unset
         /\ NewRow(node_id)[node_id + 1] = 0
  BY ZeroCost DEF NewRow, Entries

-----------------------------------------------------------------------------
(* Every code the calls return is documented, with an id in range. *)
LEMMA ReturnedOK ==
  /\ \A error \in ErrorCodes : Error(error) \in [code : ErrorCodes, node : NodeIds]
  /\ \A node \in NodeIds : Ok(node) \in [code : ErrorCodes, node : NodeIds]
  BY NodeIdMaxAssumption DEF Error, Ok, ErrorCodes, NodeIds

(* No model, no rows: the invariant holds at the start. *)
LEMMA InitIInv == Init => IInv
<1> SUFFICES ASSUME Init PROVE IInv
  OBVIOUS
<1>1. TypeOK
  BY EmptySeq, ReturnedOK DEF Init, TypeOK, ErrorCodes
<1> QED
  BY <1>1 DEF Init, IInv, RowsCoverNodes, NothingBeyondNodes, DiagonalZero, Size

(***************************************************************************)
(* What the three calls that change the matrix do to its rows.             *)
(***************************************************************************)
LEMMA AddNodeRows ==
  ASSUME TypeOK, AddNode
  PROVE  /\ distances' \in Seq(Seq(Entries))
         /\ Size' = Size + 1
         /\ DOMAIN distances' = 1 .. Size + 1
         /\ \A r \in 1 .. Size :
              /\ distances[r] \in Seq(Entries)
              /\ distances'[r] \in Seq(Entries)
              /\ Len(distances[r]) \in Nat
              /\ Len(distances'[r]) = Len(distances[r]) + 1
              /\ \A c \in DOMAIN distances[r] : distances'[r][c] = distances[r][c]
              /\ \A c \in DOMAIN distances'[r] :
                   c > Len(distances[r]) => distances'[r][c] = Unset
         /\ Len(distances'[Size + 1]) = Size + 1
         /\ distances'[Size + 1] \in Seq(Entries)
         /\ \A c \in 1 .. Size : distances'[Size + 1][c] = Unset
         /\ distances'[Size + 1][Size + 1] = 0
<1>1. /\ Size \in Nat
      /\ DOMAIN distances = 1 .. Size
      /\ \A r \in 1 .. Size : r <= Size
  BY DEF TypeOK, Size
<1>2. \A r \in 1 .. Size : distances[r] \in Seq(Entries)
  BY <1>1 DEF TypeOK
<1> DEFINE grown == Grown(Size)
<1> HIDE DEF grown
<1>3. /\ grown \in Seq(Seq(Entries))
      /\ Len(grown) = Size
      /\ \A r \in DOMAIN distances :
           /\ Len(grown[r]) = IF r <= Size THEN Len(distances[r]) + 1
                                           ELSE Len(distances[r])
           /\ \A c \in DOMAIN distances[r] : grown[r][c] = distances[r][c]
           /\ \A c \in DOMAIN grown[r] :
                c > Len(distances[r]) => grown[r][c] = Unset
  BY <1>1, GrownRows DEF TypeOK, grown
<1>4. /\ NewRow(Size) \in Seq(Entries)
      /\ Len(NewRow(Size)) = Size + 1
      /\ \A c \in 1 .. Size : NewRow(Size)[c] = Unset
      /\ NewRow(Size)[Size + 1] = 0
  BY <1>1, NewRows
<1>5. distances' = Append(grown, NewRow(Size))
  BY DEF AddNode, grown
<1>6. /\ distances' \in Seq(Seq(Entries))
      /\ Size' = Size + 1
      /\ DOMAIN distances' = 1 .. Size + 1
      /\ \A r \in 1 .. Size : distances'[r] = grown[r]
      /\ distances'[Size + 1] = NewRow(Size)
  BY <1>1, <1>3, <1>4, <1>5 DEF Size
<1>7. ASSUME NEW r \in 1 .. Size
      PROVE  /\ distances'[r] \in Seq(Entries)
             /\ Len(distances[r]) \in Nat
             /\ Len(distances'[r]) = Len(distances[r]) + 1
             /\ \A c \in DOMAIN distances[r] : distances'[r][c] = distances[r][c]
             /\ \A c \in DOMAIN distances'[r] :
                  c > Len(distances[r]) => distances'[r][c] = Unset
  <2>1. r \in DOMAIN distances /\ r <= Size /\ distances'[r] = grown[r]
    BY <1>1, <1>6
  <2>2. grown[r] \in Seq(Entries) /\ Len(distances[r]) \in Nat
    BY <2>1, <1>1, <1>2, <1>3
  <2> QED
    BY <2>1, <2>2, <1>3
<1> QED
  BY <1>2, <1>4, <1>6, <1>7

(* What is left of a model when add_node fails: some longer rows. *)
LEMMA AddNodeFailsRows ==
  ASSUME TypeOK, NEW count \in 0 .. Size, AddNodeFails(count)
  PROVE  /\ distances' \in Seq(Seq(Entries))
         /\ Size' = Size
         /\ DOMAIN distances' = 1 .. Size
         /\ \A r \in 1 .. Size :
              /\ distances[r] \in Seq(Entries)
              /\ distances'[r] \in Seq(Entries)
              /\ Len(distances[r]) \in Nat
              /\ Len(distances'[r]) >= Len(distances[r])
              /\ \A c \in DOMAIN distances[r] : distances'[r][c] = distances[r][c]
              /\ \A c \in DOMAIN distances'[r] :
                   c > Len(distances[r]) => distances'[r][c] = Unset
<1>1. Size \in Nat /\ DOMAIN distances = 1 .. Size /\ count \in Nat
  BY DEF TypeOK, Size
<1>2. \A r \in 1 .. Size : distances[r] \in Seq(Entries)
  BY <1>1 DEF TypeOK
<1> DEFINE grown == Grown(count)
<1> HIDE DEF grown
<1>3. /\ grown \in Seq(Seq(Entries))
      /\ Len(grown) = Size
      /\ \A r \in DOMAIN distances :
           /\ Len(grown[r]) = IF r <= count THEN Len(distances[r]) + 1
                                            ELSE Len(distances[r])
           /\ \A c \in DOMAIN distances[r] : grown[r][c] = distances[r][c]
           /\ \A c \in DOMAIN grown[r] :
                c > Len(distances[r]) => grown[r][c] = Unset
  BY <1>1, GrownRows DEF TypeOK, grown
<1>4. distances' = grown
  BY DEF AddNodeFails, grown
<1>5. /\ distances' \in Seq(Seq(Entries))
      /\ Size' = Size
      /\ DOMAIN distances' = 1 .. Size
  BY <1>1, <1>3, <1>4 DEF Size
<1>6. ASSUME NEW r \in 1 .. Size
      PROVE  /\ distances'[r] \in Seq(Entries)
             /\ Len(distances[r]) \in Nat
             /\ Len(distances'[r]) >= Len(distances[r])
             /\ \A c \in DOMAIN distances[r] : distances'[r][c] = distances[r][c]
             /\ \A c \in DOMAIN distances'[r] :
                  c > Len(distances[r]) => distances'[r][c] = Unset
  <2>1. r \in DOMAIN distances /\ distances'[r] = grown[r]
    BY <1>1, <1>4
  <2>2. grown[r] \in Seq(Entries) /\ Len(distances[r]) \in Nat
    BY <2>1, <1>1, <1>2, <1>3
  <2>3. Len(grown[r]) = Len(distances[r]) + 1 \/ Len(grown[r]) = Len(distances[r])
    BY <2>1, <1>3
  <2>4. Len(grown[r]) >= Len(distances[r])
    BY <2>2, <2>3
  <2>5. /\ \A c \in DOMAIN distances[r] : grown[r][c] = distances[r][c]
        /\ \A c \in DOMAIN grown[r] :
             c > Len(distances[r]) => grown[r][c] = Unset
    BY <2>1, <1>3
  <2> QED
    BY <2>1, <2>2, <2>4, <2>5
<1> QED
  BY <1>2, <1>5, <1>6

(* set_distance changes one entry and the shape of nothing. *)
LEMMA SetDistanceRows ==
  ASSUME TypeOK, RowsCoverNodes,
         NEW from \in NodeIds, NEW to \in NodeIds, NEW distance \in Costs,
         SetDistance(from, to, distance)
  PROVE  /\ distances' \in Seq(Seq(Entries))
         /\ Size' = Size
         /\ DOMAIN distances' = 1 .. Size
         /\ from + 1 \in 1 .. Size
         /\ to + 1 \in 1 .. Size
         /\ \A r \in 1 .. Size :
              /\ distances[r] \in Seq(Entries)
              /\ Len(distances[r]) >= Size
              /\ Len(distances'[r]) = Len(distances[r])
              /\ DOMAIN distances'[r] = DOMAIN distances[r]
              /\ \A c \in DOMAIN distances[r] :
                   distances'[r][c] = IF r = from + 1 /\ c = to + 1
                                      THEN IF from = to THEN 0 ELSE distance
                                      ELSE distances[r][c]
<1> USE NodeIdMaxAssumption, ZeroCost
<1> DEFINE entry == IF from = to THEN 0 ELSE distance
<1>1. /\ Size \in Nat
      /\ DOMAIN distances = 1 .. Size
      /\ \A r \in 1 .. Size : distances[r] \in Seq(Entries) /\ Len(distances[r]) >= Size
  BY DEF TypeOK, Size, RowsCoverNodes
<1>2. /\ from + 1 \in 1 .. Size
      /\ to + 1 \in 1 .. Size
      /\ to + 1 \in DOMAIN distances[from + 1]
  BY <1>1 DEF SetDistance, NodeIds
<1>3. entry \in Entries
  BY DEF Entries
<1>4. distances' = [distances EXCEPT ![from + 1][to + 1] = entry]
  BY DEF SetDistance
<1> HIDE DEF entry
<1>5. [distances[from + 1] EXCEPT ![to + 1] = entry] \in Seq(Entries)
  BY <1>1, <1>2, <1>3
<1>6. /\ distances' \in Seq(Seq(Entries))
      /\ Size' = Size
      /\ DOMAIN distances' = 1 .. Size
      /\ \A r \in 1 .. Size :
           /\ Len(distances'[r]) = Len(distances[r])
           /\ DOMAIN distances'[r] = DOMAIN distances[r]
           /\ \A c \in DOMAIN distances[r] :
                distances'[r][c] = IF r = from + 1 /\ c = to + 1
                                   THEN entry ELSE distances[r][c]
  BY <1>1, <1>2, <1>4, <1>5 DEF TypeOK, Size
<1> QED
  BY <1>1, <1>2, <1>6 DEF entry

(***************************************************************************)
(* The three calls preserve the invariant.                                 *)
(***************************************************************************)
LEMMA AddNodeIInv ==
  ASSUME IInv, AddNode
  PROVE  IInv'
<1> USE NodeIdMaxAssumption DEF IInv
<1>1. Size \in Nat /\ DOMAIN distances = 1 .. Size
  BY DEF TypeOK, Size
<1>2. TypeOK'
  <2>1. ToNodeId(Size) \in NodeIds
    BY <1>1 DEF ToNodeId, NodeIds
  <2> QED
    BY AddNodeRows, <2>1, ReturnedOK DEF TypeOK, AddNode
<1>3. RowsCoverNodes'
  <2> SUFFICES ASSUME NEW r \in 1 .. Size + 1
               PROVE  Len(distances'[r]) >= Size + 1
    BY AddNodeRows DEF RowsCoverNodes
  <2>1. CASE r = Size + 1
    BY <2>1, <1>1, AddNodeRows
  <2>2. CASE r # Size + 1
    <3>1. r \in 1 .. Size
      BY <2>2, <1>1
    <3>2. Len(distances[r]) >= Size
      BY <3>1, <1>1 DEF RowsCoverNodes
    <3> QED
      BY <3>1, <3>2, <1>1, AddNodeRows
  <2> QED
    BY <2>1, <2>2
<1>4. NothingBeyondNodes'
  <2> SUFFICES ASSUME NEW r \in 1 .. Size + 1, NEW c \in DOMAIN distances'[r],
                      c > Size + 1
               PROVE  distances'[r][c] = Unset
    BY AddNodeRows DEF NothingBeyondNodes
  <2>1. CASE r = Size + 1
    BY <2>1, <1>1, AddNodeRows
  <2>2. CASE r # Size + 1
    <3>. r \in 1 .. Size
      BY <2>2, <1>1
    <3>. distances[r] \in Seq(Entries) /\ distances'[r] \in Seq(Entries)
      BY AddNodeRows
    <3>1. c > Size
      BY <1>1
    <3>2. c \in DOMAIN distances[r] \/ c > Len(distances[r])
      BY <3>1
    <3> QED
      BY <3>1, <3>2, <1>1, AddNodeRows DEF NothingBeyondNodes
  <2> QED
    BY <2>1, <2>2
<1>5. DiagonalZero'
  <2> SUFFICES ASSUME NEW r \in 1 .. Size + 1
               PROVE  distances'[r][r] = 0
    BY AddNodeRows DEF DiagonalZero
  <2>1. CASE r = Size + 1
    BY <2>1, AddNodeRows
  <2>2. CASE r # Size + 1
    <3>1. r \in 1 .. Size /\ distances[r] \in Seq(Entries)
      BY <2>2, <1>1, AddNodeRows
    <3>2. r \in DOMAIN distances[r]
      BY <3>1, <1>1 DEF RowsCoverNodes
    <3> QED
      BY <3>1, <3>2, <1>1, AddNodeRows DEF DiagonalZero
  <2> QED
    BY <2>1, <2>2
<1> QED
  BY <1>2, <1>3, <1>4, <1>5

(* A failed add_node only appends empty entries. *)
LEMMA AddNodeFailsIInv ==
  ASSUME IInv, NEW count \in 0 .. Size, AddNodeFails(count)
  PROVE  IInv'
<1> USE DEF IInv
<1>1. Size \in Nat /\ DOMAIN distances = 1 .. Size
  BY DEF TypeOK, Size
<1>2. TypeOK'
  BY AddNodeFailsRows, ReturnedOK DEF TypeOK, AddNodeFails, ErrorCodes
<1>3. ASSUME NEW r \in 1 .. Size
      PROVE  r \in DOMAIN distances[r]
  <2>1. distances[r] \in Seq(Entries)
    BY AddNodeFailsRows
  <2>2. Len(distances[r]) >= Size
    BY <1>1 DEF RowsCoverNodes
  <2> QED
    BY <2>1, <2>2, <1>1
<1>4. RowsCoverNodes'
  <2> SUFFICES ASSUME NEW r \in 1 .. Size
               PROVE  Len(distances'[r]) >= Size
    BY AddNodeFailsRows DEF RowsCoverNodes
  <2>1. Len(distances[r]) >= Size /\ Len(distances[r]) \in Nat
    BY <1>1, AddNodeFailsRows DEF RowsCoverNodes
  <2>2. distances'[r] \in Seq(Entries) /\ Len(distances'[r]) >= Len(distances[r])
    BY AddNodeFailsRows
  <2> QED
    BY <2>1, <2>2, <1>1
<1>5. NothingBeyondNodes'
  <2> SUFFICES ASSUME NEW r \in 1 .. Size, NEW c \in DOMAIN distances'[r],
                      c > Size
               PROVE  distances'[r][c] = Unset
    BY AddNodeFailsRows DEF NothingBeyondNodes
  <2>1. distances[r] \in Seq(Entries) /\ distances'[r] \in Seq(Entries)
    BY AddNodeFailsRows
  <2>2. c \in DOMAIN distances[r] \/ c > Len(distances[r])
    BY <2>1
  <2> QED
    BY <2>2, <1>1, AddNodeFailsRows DEF NothingBeyondNodes
<1>6. DiagonalZero'
  BY <1>1, <1>3, AddNodeFailsRows DEF DiagonalZero
<1> QED
  BY <1>2, <1>4, <1>5, <1>6

(* set_distance writes inside its row and keeps the diagonal. *)
LEMMA SetDistanceIInv ==
  ASSUME IInv, NEW from \in NodeIds, NEW to \in NodeIds, NEW distance \in Costs,
         SetDistance(from, to, distance)
  PROVE  IInv'
<1> USE DEF IInv
<1>1. Size \in Nat /\ DOMAIN distances = 1 .. Size /\ from \in Nat /\ to \in Nat
  BY NodeIdMaxAssumption DEF TypeOK, Size, NodeIds
<1>2. TypeOK'
  BY SetDistanceRows, ReturnedOK DEF TypeOK, SetDistance, ErrorCodes
<1>3. RowsCoverNodes'
  <2>1. Size' = Size /\ DOMAIN distances' = 1 .. Size
    BY SetDistanceRows
  <2>2. ASSUME NEW r \in 1 .. Size PROVE Len(distances'[r]) >= Size
    <3>1. Len(distances'[r]) = Len(distances[r]) /\ Len(distances[r]) >= Size
      BY SetDistanceRows
    <3> QED
      BY <3>1
  <2> QED
    BY <2>1, <2>2 DEF RowsCoverNodes
<1>4. NothingBeyondNodes'
  <2>0. Size' = Size /\ DOMAIN distances' = 1 .. Size
    BY SetDistanceRows
  <2> SUFFICES ASSUME NEW r \in 1 .. Size, NEW c \in DOMAIN distances'[r],
                      c > Size
               PROVE  distances'[r][c] = Unset
    BY <2>0 DEF NothingBeyondNodes
  <2>1. c \in DOMAIN distances[r]
    BY SetDistanceRows
  <2>2. to + 1 \in 1 .. Size /\ distances[r] \in Seq(Entries)
    BY SetDistanceRows
  <2>3. c # to + 1
    BY <2>2, <1>1
  <2>4. distances'[r][c] = distances[r][c]
    BY <2>1, <2>3, SetDistanceRows
  <2> QED
    BY <2>1, <2>4, <1>1 DEF NothingBeyondNodes
<1>5. DiagonalZero'
  <2>1. DOMAIN distances' = 1 .. Size
    BY SetDistanceRows
  <2>2. ASSUME NEW r \in 1 .. Size PROVE distances'[r][r] = 0
    <3>1. distances[r] \in Seq(Entries) /\ Len(distances[r]) >= Size
      BY SetDistanceRows
    <3>2. r \in DOMAIN distances[r]
      BY <3>1, <1>1
    <3>3. distances'[r][r] = IF r = from + 1 /\ r = to + 1
                             THEN IF from = to THEN 0 ELSE distance
                             ELSE distances[r][r]
      BY <3>2, SetDistanceRows
    <3>4. distances[r][r] = 0
      BY <1>1 DEF DiagonalZero
    <3> QED
      BY <3>3, <3>4, <1>1
  <2> QED
    BY <2>1, <2>2 DEF DiagonalZero
<1> QED
  BY <1>2, <1>3, <1>4, <1>5

(* The calls that leave the rows alone, and the two that drop them all. *)
LEMMA UnchangedRowsIInv ==
  ASSUME IInv, UNCHANGED distances, TypeOK'
  PROVE  IInv'
  BY DEF IInv, RowsCoverNodes, NothingBeyondNodes, DiagonalZero, Size

(* A new model, and none, has no row to get wrong. *)
LEMMA NoRowsIInv ==
  ASSUME distances' = <<>>, TypeOK'
  PROVE  IInv'
  BY DEF IInv, RowsCoverNodes, NothingBeyondNodes, DiagonalZero, Size

(* Every call preserves the invariant. *)
LEMMA NextIInv == IInv /\ [Next]_vars => IInv'
<1> SUFFICES ASSUME IInv, [Next]_vars
             PROVE  IInv'
  OBVIOUS
<1> USE ReturnedOK DEF IInv
<1>1. CASE Create
  BY <1>1, NoRowsIInv DEF Create, TypeOK, ErrorCodes
<1>2. CASE CreateFails
  BY <1>2, UnchangedRowsIInv DEF CreateFails, TypeOK, ErrorCodes
<1>3. CASE Destroy
  <2>1. TypeOK' /\ distances' = <<>>
    BY <1>3, EmptySeq DEF Destroy, TypeOK
  <2> QED
    BY <2>1, NoRowsIInv
<1>4. CASE AddNode
  BY <1>4, AddNodeIInv
<1>5. ASSUME NEW count \in 0 .. Size, AddNodeFails(count)
      PROVE  IInv'
  BY <1>5, AddNodeFailsIInv
<1>6. CASE AddNodeOutOfRange
  BY <1>6, UnchangedRowsIInv DEF AddNodeOutOfRange, TypeOK, ErrorCodes
<1>7. ASSUME NEW from \in NodeIds, NEW to \in NodeIds, NEW distance \in Costs,
             SetDistance(from, to, distance)
      PROVE  IInv'
  BY <1>7, SetDistanceIInv
<1>8. ASSUME NEW from \in NodeIds, NEW to \in NodeIds,
             SetDistanceOutOfRange(from, to)
      PROVE  IInv'
  BY <1>8, UnchangedRowsIInv DEF SetDistanceOutOfRange, TypeOK, ErrorCodes
<1>9. CASE Validate
  BY <1>9, UnchangedRowsIInv DEF Validate, TypeOK, ErrorCodes
<1>10. CASE RejectNull
  BY <1>10, UnchangedRowsIInv DEF RejectNull, TypeOK, ErrorCodes
<1>11. CASE UNCHANGED vars
  BY <1>11, UnchangedRowsIInv DEF vars, TypeOK
<1> QED
  BY <1>1, <1>2, <1>3, <1>4, <1>5, <1>6, <1>7, <1>8, <1>9, <1>10, <1>11 DEF Next

(* The inductive invariant holds of every reachable model. *)
THEOREM Invariance == Spec => []IInv
  BY InitIInv, NextIInv, PTL DEF Spec

(* Every reachable model is well typed. *)
THEOREM TypeCorrect == Spec => []TypeOK
  BY Invariance, PTL DEF IInv

(* set_distance never indexes past the end of a row. *)
THEOREM SetDistanceInBounds == Spec => []RowsCoverNodes
  BY Invariance, PTL DEF IInv

(* What a cut-short add_node leaves behind never becomes a distance. *)
THEOREM NoPhantomDistance == Spec => []NothingBeyondNodes
  BY Invariance, PTL DEF IInv

(***************************************************************************)
(* What a step does to squareness.                                         *)
(***************************************************************************)
LEMMA AddNodeSquare ==
  ASSUME IInv, AddNode
  PROVE  IsSquare' <=> IsSquare
<1>1. /\ Size \in Nat /\ DOMAIN distances = 1 .. Size
      /\ Size' = Size + 1 /\ DOMAIN distances' = 1 .. Size + 1
  BY AddNodeRows DEF IInv, TypeOK, Size
<1>2. /\ Len(distances'[Size + 1]) = Size + 1
      /\ \A r \in 1 .. Size : /\ Len(distances[r]) \in Nat
                             /\ Len(distances'[r]) = Len(distances[r]) + 1
  BY AddNodeRows DEF IInv
<1>3. ASSUME IsSquare, NEW r \in 1 .. Size + 1
      PROVE  Len(distances'[r]) = Size + 1
  <2>1. CASE r = Size + 1
    BY <2>1, <1>2
  <2>2. CASE r # Size + 1
    <3>1. r \in 1 .. Size
      BY <2>2, <1>1
    <3>2. Len(distances[r]) = Size
      BY <3>1, <1>1, <1>3 DEF IsSquare
    <3> QED
      BY <3>1, <3>2, <1>2
  <2> QED
    BY <2>1, <2>2
<1>4. ASSUME IsSquare', NEW r \in 1 .. Size
      PROVE  Len(distances[r]) = Size
  <2>1. Len(distances'[r]) = Size + 1
    BY <1>1, <1>4 DEF IsSquare
  <2>2. Len(distances'[r]) = Len(distances[r]) + 1 /\ Len(distances[r]) \in Nat
    BY <1>2
  <2> QED
    BY <2>1, <2>2, <1>1
<1> QED
  BY <1>1, <1>3, <1>4 DEF IsSquare

(* A failed add_node never makes a ragged matrix square. *)
LEMMA AddNodeFailsSquare ==
  ASSUME IInv, NEW count \in 0 .. Size, AddNodeFails(count), IsSquare'
  PROVE  IsSquare
<1>1. /\ Size \in Nat /\ DOMAIN distances = 1 .. Size
      /\ Size' = Size /\ DOMAIN distances' = 1 .. Size
  BY AddNodeFailsRows DEF IInv, TypeOK, Size
<1> SUFFICES ASSUME NEW r \in 1 .. Size
             PROVE  Len(distances[r]) = Size
  BY <1>1 DEF IsSquare
<1>2. Len(distances[r]) \in Nat /\ Len(distances'[r]) >= Len(distances[r])
  BY AddNodeFailsRows DEF IInv
<1>3. Len(distances[r]) >= Size
  BY <1>1 DEF IInv, RowsCoverNodes
<1>4. Len(distances'[r]) = Size
  BY <1>1 DEF IsSquare
<1> QED
  BY <1>1, <1>2, <1>3, <1>4

(* set_distance leaves the shape as it is. *)
LEMMA SetDistanceSquare ==
  ASSUME IInv, NEW from \in NodeIds, NEW to \in NodeIds, NEW distance \in Costs,
         SetDistance(from, to, distance)
  PROVE  IsSquare' <=> IsSquare
<1>1. /\ DOMAIN distances = 1 .. Size
      /\ Size' = Size /\ DOMAIN distances' = 1 .. Size
  BY SetDistanceRows DEF IInv, TypeOK, Size
<1>2. \A r \in 1 .. Size : Len(distances'[r]) = Len(distances[r])
  BY SetDistanceRows DEF IInv
<1>3. (\A r \in DOMAIN distances : Len(distances[r]) = Size)
        <=> (\A r \in DOMAIN distances' : Len(distances'[r]) = Size')
  BY <1>1, <1>2
<1> QED
  BY <1>3 DEF IsSquare

(* The calls that leave the rows alone. *)
LEMMA SameRowsSquare ==
  ASSUME UNCHANGED distances
  PROVE  (IsSquare' <=> IsSquare) /\ Size' = Size /\ WeightOf' = WeightOf
  BY DEF IsSquare, Size, WeightOf

(* No call short of destroy repairs a ragged model. *)
THEOREM RaggedModelsStayRagged == Spec => RaggedForever
<1>1. ASSUME IInv, [Next]_vars, live, live', ~IsSquare
      PROVE  ~IsSquare'
  <2> USE <1>1
  <2>1. CASE AddNode
    BY <2>1, AddNodeSquare
  <2>2. ASSUME NEW count \in 0 .. Size, AddNodeFails(count)
        PROVE  ~IsSquare'
    BY <2>2, AddNodeFailsSquare
  <2>3. ASSUME NEW from \in NodeIds, NEW to \in NodeIds, NEW distance \in Costs,
               SetDistance(from, to, distance)
        PROVE  ~IsSquare'
    BY <2>3, SetDistanceSquare
  <2>4. CASE UNCHANGED distances
    BY <2>4, SameRowsSquare
  <2> QED
    BY <2>1, <2>2, <2>3, <2>4
    DEF Next, vars, Create, CreateFails, Destroy, AddNodeOutOfRange,
        SetDistanceOutOfRange, Validate, RejectNull
<1>2. IInv /\ [Next]_vars => [live /\ live' /\ ~IsSquare => ~IsSquare']_vars
  BY <1>1
<1> QED
  BY <1>2, Invariance, PTL DEF Spec, RaggedForever

(* The id returned by add_node is the index of the new row. *)
THEOREM ReturnedIdNamesNewRow == Spec => IdNamesNewRow
<1>1. ASSUME IInv, [Next]_vars, Size' = Size + 1
      PROVE  returned'.node = Size
  <2> USE <1>1
  <2>1. Size \in Nat
    BY DEF IInv, TypeOK, Size
  <2>2. CASE AddNode
    <3>1. Size % (NodeIdMax + 1) = Size
      BY <2>1, <2>2, NodeIdMaxAssumption DEF AddNode
    <3> QED
      BY <2>2, <3>1 DEF AddNode, Ok, ToNodeId
  <2>3. ASSUME NEW count \in 0 .. Size, AddNodeFails(count)
        PROVE  FALSE
    BY <2>1, <2>3, AddNodeFailsRows DEF IInv
  <2>4. ASSUME NEW from \in NodeIds, NEW to \in NodeIds, NEW distance \in Costs,
               SetDistance(from, to, distance)
        PROVE  FALSE
    BY <2>1, <2>4, SetDistanceRows DEF IInv
  <2>5. CASE UNCHANGED distances
    BY <2>1, <2>5, SameRowsSquare
  <2>6. CASE distances' = <<>>
    BY <2>1, <2>6 DEF Size
  <2> QED
    BY <2>2, <2>3, <2>4, <2>5, <2>6
    DEF Next, vars, Create, CreateFails, Destroy, AddNodeOutOfRange,
        SetDistanceOutOfRange, Validate, RejectNull
<1>2. IInv /\ [Next]_vars => [Size' = Size + 1 => returned'.node = Size]_vars
  BY <1>1
<1> QED
  BY <1>2, Invariance, PTL DEF Spec, IdNamesNewRow

(***************************************************************************)
(* The matrix implements the graph.                                        *)
(***************************************************************************)
LEMMA EmptyRowsMap ==
  ASSUME distances = <<>>
  PROVE  Size = 0 /\ IsSquare /\ WeightOf = Graph!NoWeight
<1>1. Size = 0 /\ IsSquare
  BY DEF Size, IsSquare
<1>2. \A pair \in Pairs : ~(pair[1] < 0)
  BY NodeIdMaxAssumption DEF Pairs, NodeIds
<1> QED
  BY <1>1, <1>2 DEF WeightOf, Graph!NoWeight, Graph!Pairs, Graph!NodeIds, Pairs, NodeIds

(* The same after a step. *)
LEMMA EmptyRowsMapNext ==
  ASSUME distances' = <<>>
  PROVE  Size' = 0 /\ IsSquare' /\ WeightOf' = Graph!NoWeight
<1>1. Size' = 0 /\ IsSquare'
  BY DEF Size, IsSquare
<1>2. \A pair \in Pairs : ~(pair[1] < 0)
  BY NodeIdMaxAssumption DEF Pairs, NodeIds
<1> QED
  BY <1>1, <1>2 DEF WeightOf, Graph!NoWeight, Graph!Pairs, Graph!NodeIds, Pairs, NodeIds

(* add_node grows the graph by one node without weights. *)
LEMMA AddNodeMap ==
  ASSUME IInv, AddNode
  PROVE  Graph!AddNode
<1>1. /\ Size \in Nat /\ DOMAIN distances = 1 .. Size
      /\ Size' = Size + 1 /\ DOMAIN distances' = 1 .. Size + 1
  BY AddNodeRows DEF IInv, TypeOK, Size
<1>2. ASSUME NEW pair \in Pairs
      PROVE  WeightOf'[pair] = WeightOf[pair]
  <2> DEFINE r == pair[1] + 1
             c == pair[2] + 1
  <2>1. r \in Nat /\ c \in Nat /\ r >= 1 /\ c >= 1 /\ r # c
    BY NodeIdMaxAssumption DEF Pairs, NodeIds
  <2>2. /\ WeightOf[pair] = IF r <= Size /\ c <= Size THEN distances[r][c] ELSE Unset
        /\ WeightOf'[pair] = IF r <= Size + 1 /\ c <= Size + 1
                             THEN distances'[r][c] ELSE Unset
    BY <1>1, NodeIdMaxAssumption DEF WeightOf, Pairs, NodeIds
  <2> HIDE DEF r, c
  <2>3. CASE r <= Size /\ c <= Size
    <3>1. r \in 1 .. Size /\ c \in DOMAIN distances[r]
      <4>1. r \in 1 .. Size
        BY <2>1, <2>3, <1>1
      <4>2. Len(distances[r]) >= Size /\ distances[r] \in Seq(Entries)
        BY <4>1, <1>1, AddNodeRows DEF IInv, RowsCoverNodes
      <4> QED
        BY <4>1, <4>2, <2>1, <2>3, <1>1
    <3>2. distances'[r][c] = distances[r][c]
      BY <3>1, AddNodeRows DEF IInv
    <3>3. r <= Size + 1 /\ c <= Size + 1
      BY <2>1, <2>3, <1>1
    <3> QED
      BY <3>2, <3>3, <2>2, <2>3
  <2>4. CASE r <= Size /\ c = Size + 1
    <3>1. /\ r \in 1 .. Size
          /\ distances[r] \in Seq(Entries)
          /\ distances'[r] \in Seq(Entries)
          /\ Len(distances'[r]) = Len(distances[r]) + 1
          /\ Len(distances[r]) \in Nat
      BY <2>1, <2>4, <1>1, AddNodeRows DEF IInv
    <3>2. Len(distances[r]) >= Size
      BY <3>1, <1>1 DEF IInv, RowsCoverNodes
    <3>3. c \in DOMAIN distances'[r] /\ c > Size
      BY <3>1, <3>2, <2>1, <2>4, <1>1
    <3>4. CASE c > Len(distances[r])
      <4>1. distances'[r][c] = Unset
        BY <3>1, <3>3, <3>4, AddNodeRows DEF IInv
      <4>2. r <= Size + 1 /\ c <= Size + 1 /\ ~(c <= Size)
        BY <2>1, <2>4, <3>3, <1>1
      <4> QED
        BY <4>1, <4>2, <2>2
    <3>5. CASE c <= Len(distances[r])
      <4>1. c \in DOMAIN distances[r]
        BY <3>1, <3>5, <2>1
      <4>2. distances'[r][c] = distances[r][c] /\ distances[r][c] = Unset
        BY <4>1, <3>1, <3>3, <1>1, AddNodeRows DEF IInv, NothingBeyondNodes
      <4> QED
        BY <4>2, <2>1, <2>2, <2>4, <1>1
    <3> QED
      BY <3>1, <3>4, <3>5, <2>1
  <2>5. CASE r = Size + 1 /\ c <= Size
    <3>1. c \in 1 .. Size
      BY <2>1, <2>5, <1>1
    <3>2. distances'[r][c] = Unset
      BY <3>1, <2>5, AddNodeRows DEF IInv
    <3> QED
      BY <3>2, <2>2, <2>5, <1>1
  <2>6. CASE r > Size + 1 \/ c > Size + 1
    BY <2>1, <2>2, <2>6, <1>1
  <2> QED
    BY <2>1, <2>3, <2>4, <2>5, <2>6, <1>1
<1>3. WeightOf' = WeightOf
  BY <1>2 DEF WeightOf
<1>4. live /\ Size \in NodeIds /\ live' = live
  BY <1>1, NodeIdMaxAssumption DEF AddNode, NodeIds
<1>5. (~IsSquare)' = ~IsSquare
  BY AddNodeSquare
<1> QED
  BY <1>1, <1>3, <1>4, <1>5 DEF Graph!AddNode, Graph!NodeIds, NodeIds

(* A failed add_node spoils the graph or is not seen in it. *)
LEMMA AddNodeFailsMap ==
  ASSUME IInv, NEW count \in 0 .. Size, AddNodeFails(count)
  PROVE  Graph!SpoilModel \/ UNCHANGED Graph!vars
<1>1. /\ Size \in Nat /\ DOMAIN distances = 1 .. Size
      /\ Size' = Size /\ DOMAIN distances' = 1 .. Size
  BY AddNodeFailsRows DEF IInv, TypeOK, Size
<1>2. ASSUME NEW pair \in Pairs, pair[1] < Size, pair[2] < Size
      PROVE  distances'[pair[1] + 1][pair[2] + 1] = distances[pair[1] + 1][pair[2] + 1]
  <2>1. pair[1] \in Nat /\ pair[2] \in Nat
    BY NodeIdMaxAssumption DEF Pairs, NodeIds
  <2>2. pair[1] + 1 \in 1 .. Size /\ pair[2] + 1 \in 1 .. Size
    BY <2>1, <1>1, <1>2
  <2>3. /\ distances[pair[1] + 1] \in Seq(Entries)
        /\ Len(distances[pair[1] + 1]) >= Size
    BY <2>2, <1>1, AddNodeFailsRows DEF IInv, RowsCoverNodes
  <2>4. pair[2] + 1 \in DOMAIN distances[pair[1] + 1]
    BY <2>2, <2>3, <1>1
  <2> QED
    BY <2>2, <2>4, AddNodeFailsRows DEF IInv
<1>3. WeightOf' = WeightOf
  BY <1>1, <1>2 DEF WeightOf
<1>4. CASE IsSquare'
  <2>1. (~IsSquare)' = ~IsSquare
    BY <1>4, AddNodeFailsSquare
  <2> QED
    BY <1>1, <1>3, <2>1 DEF Graph!vars, AddNodeFails
<1>5. CASE ~IsSquare'
  <2>1. (~IsSquare)' = TRUE
    BY <1>5
  <2> QED
    BY <1>1, <1>3, <2>1 DEF Graph!SpoilModel, AddNodeFails
<1> QED
  BY <1>4, <1>5

(* set_distance sets one weight, or none on the diagonal. *)
LEMMA SetDistanceMap ==
  ASSUME IInv, NEW from \in NodeIds, NEW to \in NodeIds, NEW distance \in Costs,
         SetDistance(from, to, distance)
  PROVE  \/ UNCHANGED Graph!vars
         \/ \E pair \in Graph!Pairs, cost \in Costs : Graph!SetWeight(pair, cost)
<1>1. /\ Size \in Nat /\ DOMAIN distances = 1 .. Size
      /\ Size' = Size /\ DOMAIN distances' = 1 .. Size
  BY SetDistanceRows DEF IInv, TypeOK, Size
<1>2. (~IsSquare)' = ~IsSquare
  BY SetDistanceSquare
<1>3. ASSUME NEW pair \in Pairs, pair[1] < Size, pair[2] < Size
      PROVE  distances'[pair[1] + 1][pair[2] + 1] =
               IF pair = <<from, to>> THEN distance
               ELSE distances[pair[1] + 1][pair[2] + 1]
  <2>1. pair[1] \in Nat /\ pair[2] \in Nat /\ pair[1] # pair[2] /\ pair = <<pair[1], pair[2]>>
    BY NodeIdMaxAssumption DEF Pairs, NodeIds
  <2>2. from \in Nat /\ to \in Nat
    BY NodeIdMaxAssumption DEF NodeIds
  <2>3. pair[1] + 1 \in 1 .. Size /\ pair[2] + 1 \in 1 .. Size
    BY <2>1, <1>1, <1>3
  <2>4. /\ distances[pair[1] + 1] \in Seq(Entries)
        /\ Len(distances[pair[1] + 1]) >= Size
    BY <2>3, SetDistanceRows DEF IInv
  <2>5. pair[2] + 1 \in DOMAIN distances[pair[1] + 1]
    BY <2>3, <2>4, <1>1
  <2>6. distances'[pair[1] + 1][pair[2] + 1] =
          IF pair[1] + 1 = from + 1 /\ pair[2] + 1 = to + 1
          THEN IF from = to THEN 0 ELSE distance
          ELSE distances[pair[1] + 1][pair[2] + 1]
    BY <2>3, <2>5, SetDistanceRows DEF IInv
  <2>7. (pair[1] + 1 = from + 1 /\ pair[2] + 1 = to + 1) <=> pair = <<from, to>>
    BY <2>1, <2>2
  <2>8. CASE pair = <<from, to>>
    BY <2>1, <2>6, <2>7, <2>8
  <2> QED
    BY <2>6, <2>7, <2>8
<1>4. from < Size /\ to < Size /\ live /\ live' = live
  BY DEF SetDistance
<1>5. CASE from = to
  <2>1. \A pair \in Pairs : pair # <<from, to>>
    BY <1>5 DEF Pairs
  <2>2. WeightOf' = WeightOf
    BY <2>1, <1>1, <1>3 DEF WeightOf
  <2> QED
    BY <2>2, <1>1, <1>2, <1>4 DEF Graph!vars
<1>6. CASE from # to
  <2> DEFINE new == <<from, to>>
  <2>1. new \in Pairs /\ new[1] = from /\ new[2] = to
    BY <1>6 DEF Pairs
  <2> HIDE DEF new
  <2>2. \A pair \in Pairs : WeightOf'[pair] = [WeightOf EXCEPT ![new] = distance][pair]
    BY <2>1, <1>1, <1>3, <1>4 DEF WeightOf, new
  <2>3. WeightOf' = [WeightOf EXCEPT ![new] = distance]
    BY <2>2 DEF WeightOf
  <2>4. Graph!SetWeight(new, distance)
    BY <2>1, <2>3, <1>1, <1>2, <1>4 DEF Graph!SetWeight
  <2> QED
    BY <2>1, <2>4 DEF Graph!Pairs, Graph!NodeIds, Pairs, NodeIds
<1> QED
  BY <1>5, <1>6

(* Every step of the matrix is a step of the graph or a stutter. *)
THEOREM MatrixImplementsGraph == Spec => ImplementsGraph
<1>1. Init => Graph!Init
  BY EmptyRowsMap DEF Init, Graph!Init
<1>2. ASSUME IInv, [Next]_vars
      PROVE  [Graph!Next]_(Graph!vars)
  <2> USE <1>2
  <2>1. CASE Create
    <3>1. Size' = 0 /\ (~IsSquare)' = FALSE /\ WeightOf' = Graph!NoWeight
      BY <2>1, EmptyRowsMapNext DEF Create
    <3> QED
      BY <2>1, <3>1 DEF Create, Graph!Create, Graph!Next
  <2>2. CASE Destroy
    <3>1. Size' = 0 /\ (~IsSquare)' = FALSE /\ WeightOf' = Graph!NoWeight
      BY <2>2, EmptyRowsMapNext DEF Destroy
    <3> QED
      BY <2>2, <3>1 DEF Destroy, Graph!Destroy, Graph!Next
  <2>3. CASE AddNode
    BY <2>3, AddNodeMap DEF Graph!Next
  <2>4. ASSUME NEW count \in 0 .. Size, AddNodeFails(count)
        PROVE  [Graph!Next]_(Graph!vars)
    BY <2>4, AddNodeFailsMap DEF Graph!Next
  <2>5. ASSUME NEW from \in NodeIds, NEW to \in NodeIds, NEW distance \in Costs,
               SetDistance(from, to, distance)
        PROVE  [Graph!Next]_(Graph!vars)
    BY <2>5, SetDistanceMap DEF Graph!Next
  <2>6. CASE UNCHANGED <<live, distances>>
    <3>1. (~IsSquare)' = ~IsSquare
      BY <2>6, SameRowsSquare
    <3> QED
      BY <2>6, <3>1, SameRowsSquare DEF Graph!vars
  <2> QED
    BY <2>1, <2>2, <2>3, <2>4, <2>5, <2>6
    DEF Next, vars, CreateFails, AddNodeOutOfRange,
        SetDistanceOutOfRange, Validate, RejectNull
<1> QED
  BY <1>1, <1>2, Invariance, PTL DEF Spec, ImplementsGraph, Graph!Spec

(***************************************************************************)
(* is_complete and the graph.                                              *)
(***************************************************************************)

(* add_node refuses to go past the last id. *)
SizeInRange == Size <= NodeIdMax + 1

(* Every call leaves the number of nodes in the range of the ids. *)
LEMMA NextSizeInRange ==
  ASSUME IInv, SizeInRange, [Next]_vars
  PROVE  SizeInRange'
<1>1. Size \in Nat
  BY DEF IInv, TypeOK, Size
<1>2. ASSUME distances' = <<>> PROVE SizeInRange'
  BY <1>2, NodeIdMaxAssumption DEF SizeInRange, Size
<1>3. ASSUME UNCHANGED distances PROVE SizeInRange'
  BY <1>3 DEF SizeInRange, Size
<1>4. CASE AddNode
  BY <1>1, <1>4, AddNodeRows, NodeIdMaxAssumption DEF IInv, AddNode, SizeInRange
<1>5. ASSUME NEW count \in 0 .. Size, AddNodeFails(count) PROVE SizeInRange'
  BY <1>5, AddNodeFailsRows DEF IInv, SizeInRange
<1>6. ASSUME NEW from \in NodeIds, NEW to \in NodeIds, NEW distance \in Costs,
             SetDistance(from, to, distance)
      PROVE  SizeInRange'
  BY <1>6, SetDistanceRows DEF IInv, SizeInRange
<1> QED
  BY <1>2, <1>3, <1>4, <1>5, <1>6
     DEF Next, vars, Create, CreateFails, Destroy, AddNodeOutOfRange,
         SetDistanceOutOfRange, Validate, RejectNull

(* validate says OK exactly of the models the graph calls valid. *)
THEOREM ValidateDecidesGraph == Spec => []CompleteIffValid
<1>1. Init => SizeInRange
  BY NodeIdMaxAssumption DEF Init, SizeInRange, Size
<1>2. ASSUME IInv, SizeInRange PROVE CompleteIffValid
  <2> USE <1>2
  <2>1. /\ Size \in Nat /\ DOMAIN distances = 1 .. Size
        /\ Size <= NodeIdMax + 1 /\ NodeIdMax \in Nat
    BY NodeIdMaxAssumption DEF IInv, TypeOK, SizeInRange, Size
  <2>2. ASSUME IsComplete PROVE Graph!Valid
    <3>1. ASSUME NEW pair \in Graph!Pairs, pair[1] < Size, pair[2] < Size
          PROVE  WeightOf[pair] # Unset
      <4>1. pair[1] \in Nat /\ pair[2] \in Nat /\ pair \in Pairs
        BY NodeIdMaxAssumption DEF Graph!Pairs, Graph!NodeIds, Pairs, NodeIds
      <4>2. WeightOf[pair] = distances[pair[1] + 1][pair[2] + 1]
        BY <3>1, <4>1 DEF WeightOf
      <4>3. pair[1] + 1 \in DOMAIN distances /\ pair[2] + 1 \in DOMAIN distances
        BY <2>1, <3>1, <4>1
      <4> QED
        BY <2>2, <4>2, <4>3 DEF IsComplete
    <3> QED
      BY <2>2, <3>1 DEF Graph!Valid, IsComplete
  <2>3. ASSUME Graph!Valid PROVE IsComplete
    <3>1. IsSquare
      BY <2>3 DEF Graph!Valid
    <3>2. ASSUME NEW r \in DOMAIN distances, NEW c \in DOMAIN distances
          PROVE  distances[r][c] # Unset
      <4>1. CASE r = c
        BY <4>1, UnsetAssumption, ZeroCost DEF IInv, DiagonalZero
      <4>2. CASE r # c
        <5> DEFINE pair == <<r - 1, c - 1>>
        <5>1. r \in 1 .. Size /\ c \in 1 .. Size
          BY <2>1
        <5>2. pair \in Graph!Pairs /\ pair \in Pairs
          BY <2>1, <4>2, <5>1 DEF Graph!Pairs, Graph!NodeIds, Pairs, NodeIds
        <5>3. pair[1] < Size /\ pair[2] < Size
          BY <2>1, <5>1
        <5>4. WeightOf[pair] # Unset
          BY <2>3, <5>2, <5>3 DEF Graph!Valid
        <5>5. WeightOf[pair] = distances[pair[1] + 1][pair[2] + 1]
          BY <5>2, <5>3 DEF WeightOf
        <5>6. pair[1] + 1 = r /\ pair[2] + 1 = c
          BY <2>1, <5>1
        <5> QED
          BY <5>4, <5>5, <5>6
      <4> QED
        BY <4>1, <4>2
    <3> QED
      BY <3>1, <3>2 DEF IsComplete
  <2> QED
    BY <2>2, <2>3 DEF CompleteIffValid
<1>3. IInv /\ SizeInRange /\ [Next]_vars => SizeInRange'
  BY NextSizeInRange
<1> QED
  BY <1>1, <1>2, <1>3, Invariance, PTL DEF Spec

(***************************************************************************)
(* CApiSolve.  What solve may assume of the model is what the handle keeps *)
(* its rows to, whatever calls and failures there were.                    *)
(***************************************************************************)
RowsOK ==
  /\ distances \in Seq(Seq(Entries))
  /\ \A r \in DOMAIN distances :
       Len(distances) <= Len(distances[r]) /\ distances[r][r] = 0

(* What the properties say of one result. *)
AnswersRequest(result) ==
  LET start == NormalizeStartNode(result.problem, result.asked.random_seed) IN
  /\ result.algorithm =
       IF result.asked.algorithm = "DEFAULT" THEN "LOCAL_SEARCH_2OPT"
                                             ELSE result.asked.algorithm
  /\ IF result.asked.time_limit_ms = 0
     THEN result.status = "TIME_LIMIT" /\ result.tour = <<>> /\ result.objective = 0
     ELSE /\ result.tour \in ToursFrom(result.problem, start)
          /\ result.objective = RouteCost(result.problem, result.tour)
          /\ ~Misleads(result.problem, start, result.algorithm) =>
               IsRoute(result.problem, result.tour)

OptimalIfSaid(result) ==
  result.status = "OPTIMAL" =>
    /\ result.problem.size <= kHeldKarpCutoff
    /\ HasSmallDistances(result.problem) => IsOptimal(result.problem, result.tour)

(* The inductive invariant: the properties of the results handed out, and  *)
(* that what is handed out is allocated, without which the next result     *)
(* could take the place of one the client holds.                           *)
ClientInv ==
  /\ RowsOK
  /\ ClientTypeOK
  /\ \A slot \in held : AnswersRequest(heap[slot]) /\ OptimalIfSaid(heap[slot])

-----------------------------------------------------------------------------
(* The invariant of the handle gives the rows solve expects. *)
LEMMA RowsFromIInv == IInv => RowsOK
<1> SUFFICES ASSUME IInv, NEW r \in DOMAIN distances
             PROVE  Len(distances) <= Len(distances[r]) /\ distances[r][r] = 0
  BY DEF IInv, TypeOK, RowsOK
<1>1. Len(distances[r]) \in Nat /\ Size \in Nat
  BY DEF IInv, TypeOK, Size
<1> QED
  BY <1>1 DEF IInv, RowsCoverNodes, DiagonalZero, Size

(* So what the calls on the handle leave in the rows is what CApiSolve     *)
(* assumes of the models given to the client of ClientSpec.                *)
THEOREM RowsAsSolveExpects == Spec => []RowsOK
  BY Invariance, RowsFromIInv, PTL

(* The problem a complete model is copied into is one the solvers are      *)
(* proved for: a square matrix of costs whose diagonal is zero.            *)
LEMMA CompleteIsProblem ==
  ASSUME RowsOK, IsComplete
  PROVE  IsProblem(ToProblem)
<1> DEFINE n == Len(distances)
<1>1. /\ distances \in Seq(Seq(Entries)) /\ n \in Nat
      /\ DOMAIN distances = 1 .. n
      /\ \A r \in 1 .. n : n <= Len(distances[r]) /\ distances[r][r] = 0
  BY DEF RowsOK
<1>2. \A r, c \in 1 .. n : distances[r][c] \in Costs
  <2> SUFFICES ASSUME NEW r \in 1 .. n, NEW c \in 1 .. n
               PROVE  distances[r][c] \in Costs
    OBVIOUS
  <2>1. distances[r] \in Seq(Entries)
    BY <1>1
  <2>2. c \in 1 .. Len(distances[r])
    BY <1>1, <2>1
  <2>3. distances[r][c] \in Costs \cup {Unset}
    BY <2>1, <2>2 DEF Entries
  <2>4. distances[r][c] # Unset
    BY <1>1 DEF IsComplete
  <2> QED
    BY <2>3, <2>4
<1>3. ToProblem.size = n /\ Nodes(ToProblem) = 0 .. n - 1
  BY DEF ToProblem, Nodes
<1>4. ToProblem.distances =
        [from \in 0 .. n - 1 |-> [to \in 0 .. n - 1 |-> distances[from + 1][to + 1]]]
  BY DEF ToProblem
<1>5. \A node \in 0 .. n - 1 : node + 1 \in 1 .. n
  BY <1>1
<1>6. \A from, to \in 0 .. n - 1 : distances[from + 1][to + 1] \in Costs
  BY <1>2, <1>5
<1> HIDE DEF n
<1>7. ToProblem.distances \in [0 .. n - 1 -> [0 .. n - 1 -> Costs]]
  BY <1>4, <1>6
<1>8. \A node \in 0 .. n - 1 : ToProblem.distances[node][node] = 0
  BY <1>1, <1>4, <1>5
<1> QED
  BY <1>1, <1>3, <1>7, <1>8 DEF IsProblem, Distance

(* The options stay ones that solve accepts. *)
LEMMA OptionsTyped ==
  ASSUME ClientTypeOK,
         CreateOptions \/ DestroyOptions \/ SetTimeLimit \/ SetSeed \/ SetAlgorithm
  PROVE  ClientTypeOK' /\ UNCHANGED <<vars, heap, held>>
<1>1. UNCHANGED <<vars, heap, held>> /\ code' \in ErrorCodes
  BY DEF ClientTypeOK, ErrorCodes, CreateOptions, DestroyOptions, SetTimeLimit,
         SetSeed, SetAlgorithm
<1>2. options' # None => options' \in OptionValues
  <2>1. CASE CreateOptions
    BY <2>1 DEF ClientTypeOK, CreateOptions, OptionValues, Algorithms
  <2>2. CASE DestroyOptions
    BY <2>2 DEF DestroyOptions
  <2>3. CASE SetTimeLimit \/ SetSeed \/ SetAlgorithm
    <3>1. options \in OptionValues
      BY <2>3 DEF ClientTypeOK, SetTimeLimit, SetSeed, SetAlgorithm
    <3>2. \A limit \in TimeLimits : [options EXCEPT !.time_limit_ms = limit] \in OptionValues
      BY <3>1 DEF OptionValues
    <3>3. \A seed \in Seeds : [options EXCEPT !.random_seed = seed] \in OptionValues
      BY <3>1 DEF OptionValues
    <3>4. \A algorithm \in Algorithms :
            [options EXCEPT !.algorithm = algorithm] \in OptionValues
      BY <3>1 DEF OptionValues
    <3> QED
      BY <2>3, <3>1, <3>2, <3>3, <3>4 DEF SetTimeLimit, SetSeed, SetAlgorithm
  <2> QED
    BY <2>1, <2>2, <2>3
<1> QED
  BY <1>1, <1>2 DEF ClientTypeOK

(* What the other calls leave of the invariant. *)
LEMMA RowsStay ==
  ASSUME RowsOK, UNCHANGED vars
  PROVE  RowsOK'
  BY DEF RowsOK, vars

(* A step that only lets go of results keeps what is said of the others.   *)
LEMMA ResultsStay ==
  ASSUME ClientInv, RowsOK', ClientTypeOK',
         \A slot \in held' : slot \in held /\ heap'[slot] = heap[slot]
  PROVE  ClientInv'
<1> SUFFICES ASSUME NEW slot \in held'
             PROVE  (AnswersRequest(heap[slot]) /\ OptimalIfSaid(heap[slot]))'
  BY DEF ClientInv
<1>1. /\ AnswersRequest(heap[slot]) /\ OptimalIfSaid(heap[slot])
      /\ heap'[slot] = heap[slot]
  BY DEF ClientInv
<1> QED
  BY <1>1 DEF AnswersRequest, OptimalIfSaid

(* A new result takes a free slot, so those handed out before stay. *)
LEMMA HandedOut ==
  ASSUME ClientInv, NEW result, AnswersRequest(result), OptimalIfSaid(result),
         HandOut(result)
  PROVE  ClientInv'
<1>1. PICK slot \in Slots \ DOMAIN heap :
        /\ heap' = With(slot, result) /\ held' = held \cup {slot}
        /\ code' = "OK" /\ UNCHANGED <<vars, options>>
  BY DEF HandOut, Empty
<1>2. /\ DOMAIN heap' = DOMAIN heap \cup {slot}
      /\ heap'[slot] = result
      /\ \A s \in held : heap'[s] = heap[s]
  BY <1>1 DEF With, ClientInv, ClientTypeOK
<1>3. ClientTypeOK'
  BY <1>1, <1>2 DEF ClientInv, ClientTypeOK, ErrorCodes, Slots
<1>4. ASSUME NEW s \in held'
      PROVE  (AnswersRequest(heap[s]) /\ OptimalIfSaid(heap[s]))'
  <2>1. CASE s = slot
    BY <1>2, <2>1 DEF AnswersRequest, OptimalIfSaid
  <2>2. CASE s \in held
    <3>1. AnswersRequest(heap[s]) /\ OptimalIfSaid(heap[s]) /\ heap'[s] = heap[s]
      BY <1>2, <2>2 DEF ClientInv
    <3> QED
      BY <3>1 DEF AnswersRequest, OptimalIfSaid
  <2> QED
    BY <1>1, <2>1, <2>2
<1>5. RowsOK'
  BY <1>1, RowsStay DEF ClientInv
<1> QED
  BY <1>3, <1>4, <1>5 DEF ClientInv

(* Every way out of solve. *)
LEMMA Solves ==
  ASSUME ClientInv, SolveRejectsNull \/ RejectModel \/ OutOfMemory \/ HeldKarpGivesUp
  PROVE  ClientInv'
<1>1. UNCHANGED <<vars, options, heap, held>> /\ code' \in ErrorCodes
  BY DEF SolveRejectsNull, RejectModel, OutOfMemory, HeldKarpGivesUp, SolveFails,
         ErrorCodes
<1>2. ClientTypeOK'
  BY <1>1 DEF ClientInv, ClientTypeOK, Slots
<1> QED
  BY <1>1, <1>2, RowsStay, ResultsStay DEF ClientInv

(* A limit of zero is answered before any solver runs. *)
LEMMA SolvesInTime ==
  ASSUME ClientInv, TimeLimitResult
  PROVE  ClientInv'
<1>1. AnswersRequest(Result("TIME_LIMIT", 0, <<>>))
  BY DEF AnswersRequest, Result, ResolvedAlgorithm,
         TimeLimitResult
<1>2. OptimalIfSaid(Result("TIME_LIMIT", 0, <<>>))
  BY DEF OptimalIfSaid, Result
<1> QED
  BY <1>1, <1>2, HandedOut DEF TimeLimitResult

(* Whatever algorithm ran, its answer is a tour from the start node, and a *)
(* route unless the algorithm was misled.                                  *)
LEMMA AnswersAreTours ==
  ASSUME NEW tour \in SolverAnswers
  PROVE  /\ tour \in ToursFrom(ToProblem, SeedStartNode)
         /\ ~Misleads(ToProblem, SeedStartNode, ResolvedAlgorithm) =>
              IsRoute(ToProblem, tour)
         /\ ResolvedAlgorithm = "HELD_KARP" /\ HasSmallDistances(ToProblem) =>
              IsOptimal(ToProblem, tour)
<1>1. CASE ResolvedAlgorithm = "HELD_KARP"
  <2>1. tour \in ExactAnswers(ToProblem, SeedStartNode)
    BY <1>1 DEF SolverAnswers
  <2>2. IsRouteFrom(ToProblem, SeedStartNode, tour)
    BY <2>1 DEF ExactAnswers, RoutesFrom, Routes, IsRouteFrom, IsRoute
  <2>3. tour \in ToursFrom(ToProblem, SeedStartNode)
    BY <2>2 DEF IsRouteFrom, IsRoute, ToursFrom, OnlyZeroTwice
  <2> QED
    BY <2>1, <2>2, <2>3 DEF ExactAnswers, IsRouteFrom
<1>2. CASE ResolvedAlgorithm = "GREEDY_CHEAPEST_INSERTION"
  <2>1. tour \in InsertionAnswers(ToProblem, SeedStartNode)
    BY <1>2 DEF SolverAnswers
  <2> QED
    BY <1>2, <2>1 DEF InsertionAnswers, Misleads
<1>3. CASE /\ ResolvedAlgorithm # "HELD_KARP"
           /\ ResolvedAlgorithm # "GREEDY_CHEAPEST_INSERTION"
  <2>1. tour \in ScanAnswers(ToProblem, SeedStartNode)
    BY <1>3 DEF SolverAnswers
  <2> QED
    BY <1>3, <2>1 DEF ScanAnswers, Misleads
<1> QED
  BY <1>1, <1>2, <1>3

(* The solver's tour is what was asked for, and optimal when it is said. *)
LEMMA SolvesRight ==
  ASSUME ClientInv, Solve
  PROVE  ClientInv'
<1>1. PICK tour \in SolverAnswers :
        HandOut(Result(SolvedStatus, RouteCost(ToProblem, tour), tour))
  BY DEF Solve
<1> DEFINE result == Result(SolvedStatus, RouteCost(ToProblem, tour), tour)
<1>2. /\ result.algorithm = ResolvedAlgorithm /\ result.asked = options
      /\ result.problem = ToProblem /\ result.tour = tour
      /\ result.status = SolvedStatus
      /\ result.objective = RouteCost(ToProblem, tour)
  BY DEF Result
<1> HIDE DEF result
<1>3. options.time_limit_ms # 0 /\ IsComplete /\ ~ExceedsCutoff
  BY DEF Solve, Solvable
<1>4. Len(distances) \in Nat /\ ToProblem.size = Len(distances)
  BY DEF ClientInv, RowsOK, ToProblem
<1>5. AnswersRequest(result)
  <2>1. SeedStartNode = NormalizeStartNode(ToProblem, options.random_seed)
    BY <1>4 DEF SeedStartNode, NormalizeStartNode
  <2>2. /\ tour \in ToursFrom(ToProblem, SeedStartNode)
        /\ ~Misleads(ToProblem, SeedStartNode, ResolvedAlgorithm) =>
             IsRoute(ToProblem, tour)
    BY <1>1, AnswersAreTours
  <2> QED
    BY <1>2, <1>3, <2>1, <2>2 DEF AnswersRequest, ResolvedAlgorithm
<1>6. OptimalIfSaid(result)
  <2> SUFFICES ASSUME SolvedStatus = "OPTIMAL"
               PROVE  /\ ToProblem.size <= kHeldKarpCutoff
                      /\ HasSmallDistances(ToProblem) => IsOptimal(ToProblem, tour)
    BY <1>2 DEF OptimalIfSaid
  <2>1. ResolvedAlgorithm = "HELD_KARP"
    BY DEF SolvedStatus
  <2>2. Len(distances) <= kHeldKarpCutoff
    BY <1>3, <1>4, <2>1, CutoffAssumption DEF ExceedsCutoff
  <2> QED
    BY <1>1, <1>4, <2>1, <2>2, AnswersAreTours
<1> QED
  BY <1>1, <1>5, <1>6, HandedOut DEF result

(* The result that is lost is in nobody's hand. *)
LEMMA CopyFails ==
  ASSUME ClientInv, TourCopyFails
  PROVE  ClientInv'
<1>1. PICK slot \in Slots \ DOMAIN heap, tour \in SolverAnswers :
        heap' = With(slot, Result(SolvedStatus, RouteCost(ToProblem, tour), <<>>))
  BY DEF TourCopyFails, Empty
<1>2. /\ DOMAIN heap' = DOMAIN heap \cup {slot}
      /\ \A s \in held : heap'[s] = heap[s]
  BY <1>1 DEF With, ClientInv, ClientTypeOK
<1>3. UNCHANGED <<vars, options, held>> /\ code' = "ALLOCATION_FAILED"
  BY DEF TourCopyFails
<1>4. ClientTypeOK'
  BY <1>2, <1>3 DEF ClientInv, ClientTypeOK, ErrorCodes, Slots
<1> QED
  BY <1>2, <1>3, <1>4, RowsStay, ResultsStay DEF ClientInv

(* A destroyed result is no longer in the hand of the client. *)
LEMMA ResultGoes ==
  ASSUME ClientInv, DestroyResult
  PROVE  ClientInv'
<1>1. PICK slot \in held :
        /\ heap' = [s \in DOMAIN heap \ {slot} |-> heap[s]]
        /\ held' = held \ {slot}
        /\ UNCHANGED <<vars, options, code>>
  BY DEF DestroyResult
<1>2. \A s \in held' : s \in held /\ heap'[s] = heap[s]
  BY <1>1 DEF ClientInv, ClientTypeOK
<1>3. ClientTypeOK'
  BY <1>1 DEF ClientInv, ClientTypeOK, ErrorCodes, Slots
<1> QED
  BY <1>1, <1>2, <1>3, RowsStay, ResultsStay DEF ClientInv

(* Reading a tour changes nothing but the code. *)
LEMMA ReadsOnly ==
  ASSUME ClientInv, GetTour
  PROVE  ClientInv'
<1>1. UNCHANGED <<vars, options, heap, held>> /\ code' \in ErrorCodes
  BY DEF GetTour, ErrorCodes
<1>2. ClientTypeOK'
  BY <1>1 DEF ClientInv, ClientTypeOK, Slots
<1> QED
  BY <1>1, <1>2, RowsStay, ResultsStay DEF ClientInv

(* A call on the model leaves options and results as they are: a result    *)
(* records the model it is for, and editing that changes no result.        *)
LEMMA ModelCall ==
  ASSUME ClientInv, RowsOK', UNCHANGED clientVars
  PROVE  ClientInv'
<1>1. ClientTypeOK'
  BY DEF ClientInv, ClientTypeOK, Slots, clientVars
<1> QED
  BY <1>1, ResultsStay DEF clientVars

(* Every other call keeps the invariant. *)
LEMMA ClientCallInv ==
  ASSUME ClientInv, ClientCall
  PROVE  ClientInv'
<1>1. CASE CreateOptions \/ DestroyOptions \/ SetTimeLimit \/ SetSeed \/ SetAlgorithm
  <2>1. ClientTypeOK' /\ UNCHANGED <<vars, heap, held>>
    BY <1>1, OptionsTyped DEF ClientInv
  <2> QED
    BY <2>1, RowsStay, ResultsStay DEF ClientInv
<1>2. CASE SolveRejectsNull \/ RejectModel \/ OutOfMemory \/ HeldKarpGivesUp
  BY <1>2, Solves
<1> QED
  BY <1>1, <1>2, SolvesInTime, SolvesRight, CopyFails, ResultGoes, ReadsOnly
     DEF ClientCall

(* There are no results at first. *)
LEMMA ClientInitInv == ClientInit => ClientInv
<1> SUFFICES ASSUME ClientInit
             PROVE  ClientInv
  OBVIOUS
<1>1. RowsOK
  BY EmptySeq DEF ClientInit, Init, RowsOK
<1> QED
  BY <1>1 DEF ClientInit, ClientInv, ClientTypeOK, ErrorCodes

(* The properties are what the invariant says of the results held. *)
LEMMA ClientInvImplies ==
  ClientInv => ClientTypeOK /\ ResultAnswersRequest /\ OptimalMeansOptimal
  BY DEF ClientInv, ResultAnswersRequest, OptimalMeansOptimal, Results,
         AnswersRequest, OptimalIfSaid

-----------------------------------------------------------------------------
(* The invariant holds of every state a client with one of any models can  *)
(* reach.                                                                  *)
THEOREM ClientInvariance == ClientSpec => []ClientInv
<1>1. ClientInv /\ [ClientNext]_apiVars => ClientInv'
  <2> SUFFICES ASSUME ClientInv, [ClientNext]_apiVars
               PROVE  ClientInv'
    OBVIOUS
  <2>1. CASE EditModel
    <3>1. RowsOK'
      <4>1. CASE distances' = <<>>
        BY <4>1, EmptySeq DEF RowsOK
      <4>2. CASE distances' \in Models
        BY <4>2, ModelsAssumption DEF RowsOK
      <4> QED
        BY <2>1, <4>1, <4>2 DEF EditModel
    <3> QED
      BY <2>1, <3>1, ModelCall DEF EditModel
  <2>2. CASE UNCHANGED apiVars
    BY <2>2, RowsStay, ModelCall DEF apiVars, ClientInv
  <2> QED
    BY <2>1, <2>2, ClientCallInv DEF ClientNext
<1> QED
  BY <1>1, ClientInitInv, PTL DEF ClientSpec

(* Every handle is to an allocated result, and the options are ones that   *)
(* solve accepts, after any calls.                                         *)
THEOREM ClientTypeCorrect == ClientSpec => []ClientTypeOK
  BY ClientInvariance, ClientInvImplies, PTL

(* A result keeps answering the request it was made for, whatever the      *)
(* client does to its model and its options meanwhile.                     *)
THEOREM ResultsAnswer == ClientSpec => []ResultAnswersRequest
  BY ClientInvariance, ClientInvImplies, PTL

(* OPTIMAL is said within the cutoff only, and of optimal tours when the   *)
(* distances are small.                                                    *)
THEOREM OptimalIsTrue == ClientSpec => []OptimalMeansOptimal
  BY ClientInvariance, ClientInvImplies, PTL

(***************************************************************************)
(* The whole interface: the calls on the handle and the others composed.   *)
(***************************************************************************)

(* Nothing but the calls on the handle touches the model: what is proved   *)
(* of the handle alone is true of it among the other calls.                *)
THEOREM ApiIsModel == ApiSpec => Spec
<1>1. ClientInit => Init
  BY DEF ClientInit
<1>2. ClientCall => UNCHANGED vars
  BY DEF ClientCall, CreateOptions, DestroyOptions, SetTimeLimit, SetSeed, SetAlgorithm,
         SolveRejectsNull, RejectModel, OutOfMemory, TimeLimitResult, HeldKarpGivesUp,
         SolveFails, HandOut, Solve, TourCopyFails, DestroyResult, GetTour
<1>3. [ApiNext]_apiVars => [Next]_vars
  BY <1>2 DEF ApiNext, apiVars
<1> QED
  BY <1>1, <1>3, PTL DEF ApiSpec, Spec

(* So the rows solve reads are as the handle keeps them, and both          *)
(* invariants hold together.                                               *)
THEOREM ApiInvariance == ApiSpec => [](IInv /\ ClientInv)
<1>1. IInv' => RowsOK'
  BY RowsFromIInv, PTL
<1>2. ClientInv /\ IInv' /\ [ApiNext]_apiVars => ClientInv'
  <2> SUFFICES ASSUME ClientInv, RowsOK', [ApiNext]_apiVars
               PROVE  ClientInv'
    BY <1>1
  <2>1. CASE UNCHANGED clientVars
    BY <2>1, ModelCall
  <2>2. CASE ClientCall
    BY <2>2, ClientCallInv
  <2> QED
    BY <2>1, <2>2 DEF ApiNext, apiVars
<1>3. ApiSpec => []IInv
  BY ApiIsModel, Invariance, PTL
<1> QED
  BY <1>2, <1>3, ClientInitInv, PTL DEF ApiSpec

(* The properties of options and results hold of the real model handle,    *)
(* whatever is done to it between the calls of solve.                      *)
THEOREM ApiCorrect ==
  ApiSpec => [](ClientTypeOK /\ ResultAnswersRequest /\ OptimalMeansOptimal)
  BY ApiInvariance, ClientInvImplies, PTL

(* What a solver is called with is a problem: the assumption under which   *)
(* the algorithms are proved.                                              *)
THEOREM SolversGetProblems == ApiSpec => [](Solvable => IsProblem(ToProblem))
<1>1. ClientInv => (Solvable => IsProblem(ToProblem))
  BY CompleteIsProblem DEF ClientInv, Solvable
<1> QED
  BY <1>1, ApiInvariance, PTL

(* solve goes past its checks exactly with options and a model whose graph *)
(* is valid: no addition cut short and a distance for every pair.          *)
THEOREM SolveDecidesGraph ==
  ApiSpec => [](Solvable <=> options # None /\ live /\ Graph!Valid)
<1>1. CompleteIffValid => (Solvable <=> options # None /\ live /\ Graph!Valid)
  BY DEF CompleteIffValid, Solvable
<1> QED
  BY <1>1, ApiIsModel, ValidateDecidesGraph, PTL

(* A result is written once: as long as the client holds it, no call       *)
(* changes it, a later solve that is given the free slots included.        *)
THEOREM HeldResultsStay ==
  ApiSpec => [][\A slot \in held \cap held' : heap'[slot] = heap[slot]]_apiVars
<1>1. ASSUME ClientTypeOK, ApiNext
      PROVE  \A slot \in held \cap held' : heap'[slot] = heap[slot]
  <2>1. \A slot, result : slot \in Empty => \A s \in held : With(slot, result)[s] = heap[s]
    BY <1>1 DEF ClientTypeOK, Empty, With
  <2>2. \A result : HandOut(result) => \A s \in held : heap'[s] = heap[s]
    BY <2>1 DEF HandOut
  <2>3. CASE Solve \/ TimeLimitResult
    BY <2>2, <2>3 DEF Solve, TimeLimitResult
  <2>4. CASE TourCopyFails
    BY <2>1, <2>4 DEF TourCopyFails
  <2>5. CASE DestroyResult
    BY <1>1, <2>5 DEF DestroyResult, ClientTypeOK
  <2>6. CASE heap' = heap
    BY <2>6
  <2> QED
    BY <1>1, <2>3, <2>4, <2>5, <2>6
    DEF ApiNext, clientVars, ClientCall, CreateOptions, DestroyOptions, SetTimeLimit,
        SetSeed, SetAlgorithm, SolveRejectsNull, RejectModel, OutOfMemory,
        HeldKarpGivesUp, SolveFails, GetTour
<1>2. ClientInv => ClientTypeOK
  BY DEF ClientInv
<1> QED
  BY <1>1, <1>2, ApiInvariance, PTL DEF ApiSpec
=============================================================================
