----------------------------- MODULE MCCApiModel -----------------------------
(* Three node ids, three costs, rows that failed additions may overfill by *)
(* two entries.                                                            *)
EXTENDS CApiModel

MCCostMin == -1
=============================================================================
