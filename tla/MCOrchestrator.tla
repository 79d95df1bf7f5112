--------------------------- MODULE MCOrchestrator ---------------------------
(* Instances of Orchestrator and Progress for TLC.                         *)
EXTENDS Progress

\* One query on each side of every decision of the planner; the application's
\* own, ProductionQuery, is of one of these kinds.
EveryKind == [indicators : {3, 4}, risk : BOOLEAN, compliance : BOOLEAN]

\* Somebody watches the runs of one kind, the application's own.
WatchedKind == {[indicators |-> 3, risk |-> TRUE, compliance |-> TRUE]}
=============================================================================
