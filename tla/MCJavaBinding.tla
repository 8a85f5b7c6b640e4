--------------------------- MODULE MCJavaBinding ---------------------------
(* Two threads over two models, one options object and one result, with     *)
(* three addresses to give out, and bridges of the right and of a wrong version.  *)
EXTENDS JavaBinding, TLC

CONSTANTS t1, t2, m1, m2, o1, r1, h1, h2, h3, v1, v2

MCThreads == {t1, t2}
MCModels == {m1, m2}
MCOptionsObjects == {o1}
MCResults == {r1}
MCHandles == {h1, h2, h3}
MCVersions == {v1, v2}

MCSymmetry ==
  Permutations(MCThreads) \cup Permutations(MCModels) \cup Permutations(MCHandles)
=============================================================================
