---------------------------- MODULE Orchestrator ----------------------------
(***************************************************************************)
(* IntelligenceOrchestrator.analyze_contract                               *)
(* (backend/agents/contract_intelligence_agents.py): the planning path,    *)
(* which is the engine of PlanExecution, and the traditional LangGraph     *)
(* workflow, asked for outright or fallen back to when planning raises.    *)
(* Each of its five nodes catches what its tools raise and notes a status. *)
(***************************************************************************)
EXTENDS PlanExecution, Functions

VARIABLES
    route,        \* "planning", "traditional", or "answered"
    node,         \* position in Nodes of the node at hand
    node_status,  \* node -> status, "none" while it has not noted one
    reported,     \* state["policy_violations"] of the workflow
    answer        \* processing_complete of the answer, and the path it is from

workflow == <<node, node_status, reported>>
ovars    == <<vars, route, workflow, answer>>

Nodes == <<"clause_extraction", "policy_checking", "risk_calculation",
           "cuad_mitigation", "redline_generation">>

NoAnswer == [path |-> "none", complete |-> FALSE]

OInit ==
    /\ Init
    /\ route \in {"planning", "traditional"}
    /\ node = 1
    /\ node_status = [n \in Range(Nodes) |-> "none"]
    /\ reported = "empty"
    /\ answer = NoAnswer

Answer(path, complete) ==
    /\ route' = "answered"
    /\ answer' = [path |-> path, complete |-> complete]

-----------------------------------------------------------------------------
(* _analyze_with_planning                                                  *)

PlanGoesOn ==
    /\ route = "planning"
    /\ Engine
    /\ UNCHANGED <<route, workflow, answer>>

PlanAborts ==
    /\ route = "planning"
    /\ Abort
    /\ UNCHANGED <<route, workflow, answer>>

PlanningAnswers ==
    /\ route = "planning"
    /\ phase = "done"
    /\ Answer("planning", result.complete)
    /\ UNCHANGED <<vars, workflow>>

Restart ==
    /\ pos' = 1
    /\ phase' = "waiting"
    /\ attempt' = 0
    /\ results' = << >>
    /\ status' = [t \in StepType |-> "none"]
    /\ context' = EmptyContext
    /\ result' = NoResult
    /\ lost' = {}

\* execute_plan catches everything itself; what raises is before it, the tracker
\* or the planner, or after it, the feedback.  Either way nothing is kept and
\* the traditional workflow starts from its own initial state.
PlanningRaises ==
    /\ route = "planning"
    /\ ToolsRaise
    /\ phase = "done" \/ (phase = "waiting" /\ pos = 1)
    /\ route' = "traditional"
    /\ Restart
    /\ UNCHANGED <<query, breaker, workflow, answer>>

-----------------------------------------------------------------------------
(* The nodes of the traditional workflow                                   *)

AtNode(n) == route = "traditional" /\ node <= Len(Nodes) /\ Nodes[node] = n

EndNode(noted, newContext, violations, workLost) ==
    /\ node' = node + 1
    /\ node_status' = [node_status EXCEPT ![Nodes[node]] = noted]
    /\ context' = newContext
    /\ reported' = violations
    /\ lost' = lost \cup workLost
    /\ UNCHANGED <<query, pos, phase, attempt, results, status, breaker, result,
                   route, answer>>

\* The detector answers an empty list for a failure of its own, which the node
\* takes for success.
ClauseExtraction ==
    /\ AtNode("clause_extraction")
    /\ \/ EndNode("success", [context EXCEPT !.clauses = "some"], reported, {})
       \/ \E failed \in SUBSET {"EXTRACT_CLAUSES"} :
            EndNode("success", [context EXCEPT !.clauses = "empty"], reported, failed)
       \/ /\ ToolsRaise
          /\ EndNode("error", [context EXCEPT !.clauses = "empty"], reported, {"EXTRACT_CLAUSES"})

\* Mutant of NodeStatus: a partial policy check is noted as a success.
MutantNodeStatus(toolStatus) == IF toolStatus = "failure" THEN "error" ELSE "success"

NodeStatus(toolStatus) == IF toolStatus = "failure" THEN "error" ELSE toolStatus

PolicyChecking ==
    /\ AtNode("policy_checking")
    /\ \/ \E o \in PolicyCheck(context.clauses) :
            EndNode(NodeStatus(o.status), context, o.violations,
                    IF o.status = "success" THEN {} ELSE {"CHECK_POLICIES"})
       \/ ToolsRaise /\ EndNode("error", context, "empty", {"CHECK_POLICIES"})

\* Unlike the plan's step, the node looks for the risk level ERROR.
RiskCalculation ==
    /\ AtNode("risk_calculation")
    /\ \/ EndNode("success", [context EXCEPT !.risk = "scored", !.risk_basis = reported],
                  reported, {})
       \/ /\ ToolsRaise \/ reported = "some"
          /\ EndNode("error", [context EXCEPT !.risk = "error"], reported, {"ASSESS_RISK"})

\* The deviations join the violations.  The tools swallow as in a plan; when
\* all three generations raise, no status is noted either.
MitigationNode ==
    /\ AtNode("cuad_mitigation")
    /\ \/ \E m \in Generations, deviations \in {"empty", "some"} :
         \E isLost \in Swallowed(m, context.clauses) :
            /\ deviations = "some" => context.clauses = "some"
            /\ EndNode("none", [context EXCEPT !.method = m],
                       IF deviations = "some" THEN "some" ELSE reported,
                       IF isLost THEN {"CUAD_MITIGATION"} ELSE {})
       \/ ToolsRaise /\ EndNode("none", context, reported, {"CUAD_MITIGATION"})

RedlineGeneration ==
    /\ AtNode("redline_generation")
    /\ \/ EndNode("success", [context EXCEPT !.redline_basis = reported], reported, {})
       \/ ToolsRaise /\ EndNode("error", context, reported, {"GENERATE_REDLINES"})

TraditionalNode == \/ ClauseExtraction \/ PolicyChecking \/ RiskCalculation
                   \/ MitigationNode \/ RedlineGeneration

\* is_complete is the last node's success.
TraditionalComplete ==
    /\ node_status["redline_generation"] = "success"
    /\ \A n \in Range(Nodes) : node_status[n] \notin {"error", "partial"}

TraditionalAnswers ==
    /\ route = "traditional"
    /\ node > Len(Nodes)
    /\ Answer("traditional", TraditionalComplete)
    /\ UNCHANGED <<vars, workflow>>

\* What escapes the nodes: the answer of the outermost handler, empty.
TraditionalRaises ==
    /\ route = "traditional"
    /\ ToolsRaise
    /\ Answer("traditional", FALSE)
    /\ UNCHANGED <<vars, workflow>>

-----------------------------------------------------------------------------
ONext ==
    \/ PlanGoesOn \/ PlanAborts \/ PlanningAnswers \/ PlanningRaises
    \/ TraditionalNode \/ TraditionalAnswers \/ TraditionalRaises
    \/ BreakerChanges /\ UNCHANGED <<route, workflow, answer>>

OSpec == OInit /\ [][ONext]_ovars

-----------------------------------------------------------------------------
(* Properties                                                              *)

\* Every analysis is answered, by one path or the other: no step of a plan waits
\* for a dependency that will not get a result, in _wait_for_dependencies,
\* which no timeout covers.
Answers == <>(route = "answered")

\* The fallback is as honest as the plan it replaces: an answer of the
\* traditional workflow that says processing_complete has lost no policy check,
\* risk score or redlines, and its redlines are of all the violations it
\* reports, the deviations included.  Two losses it does not notice: clauses,
\* as in a plan, and those of the mitigation, be it that its tools swallowed
\* them or that all three generations raised, which a plan would note.
FallbackIsHonest ==
    answer.path = "traditional" /\ answer.complete
        => /\ lost \subseteq {"EXTRACT_CLAUSES", "CUAD_MITIGATION"}
           /\ context.redline_basis = reported
           /\ context.risk = "scored"
=============================================================================
