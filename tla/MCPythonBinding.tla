-------------------------- MODULE MCPythonBinding --------------------------
(* Two threads, one of them interruptible, over a model, an options object  *)
(* and a result, with three addresses to give out and two libraries to open *)
(* besides those of a wrong version.                                        *)
EXTENDS PythonBinding, FiniteSets, TLC

CONSTANTS t1, t2, m1, o1, r1, h1, h2, h3, v1, v2, l1, l2

MCThreads == {t1, t2}
MCInterruptible == {t1}
MCModels == {m1}
MCOptionsObjects == {o1}
MCResults == {r1}
MCHandles == {h1, h2, h3}
MCValues == {v1, v2}
MCLibraries == {l1, l2}

(* A behaviour ends where a handle could be destroyed twice or setters have *)
(* overlapped, and when a second address is lost.                           *)
Bounded == ~contested /\ ~raced /\ Cardinality(stranded) <= 1

MCSymmetry == Permutations(MCHandles) \cup Permutations(MCLibraries)
=============================================================================
