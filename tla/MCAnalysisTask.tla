--------------------------- MODULE MCAnalysisTask ---------------------------
(* Two analyses of one contract, or one of each of two; a batch names both.  *)
EXTENDS AnalysisTask, TLC

CONSTANTS t1, t2, t3, c1, c2, w1, w2

TwoTasks     == (t1 :> c1) @@ (t2 :> c1)
TwoContracts == (t1 :> c1) @@ (t3 :> c2)
OneBatch     == {<<c1, c2>>}
NoBatch      == {}

Symmetry == Permutations(Workers)
=============================================================================
