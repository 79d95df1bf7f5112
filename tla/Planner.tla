------------------------------- MODULE Planner -------------------------------
(***************************************************************************)
(* PlanningAgent (backend/agents/planning/planning_agent.py): from a query *)
(* to the execution plan the engine runs.  Pure; PlanExecution runs it.    *)
(***************************************************************************)
EXTENDS Integers, Sequences

StepType == {"EXTRACT_CLAUSES", "CHECK_POLICIES", "ASSESS_RISK",
             "CUAD_MITIGATION", "VALIDATE_RESULTS", "GENERATE_REDLINES"}

ExecutionStep(id, type, deps) == [id |-> id, type |-> type, deps |-> deps]

SimplePlan ==
    << ExecutionStep("step_1", "EXTRACT_CLAUSES",   {}),
       ExecutionStep("step_2", "CHECK_POLICIES",    {"step_1"}),
       ExecutionStep("step_3", "ASSESS_RISK",       {"step_2"}),
       ExecutionStep("step_4", "CUAD_MITIGATION",   {"step_3"}),
       ExecutionStep("step_5", "GENERATE_REDLINES", {"step_4"}) >>

\* Mutants of ComplexPlan: the two independent steps in the other order, which
\* their declared dependencies allow; and a dependency on a step that is gone.
MutantRiskFirst ==
    << ExecutionStep("step_1",  "EXTRACT_CLAUSES",   {}),
       ExecutionStep("step_2b", "ASSESS_RISK",       {"step_1"}),
       ExecutionStep("step_2a", "CHECK_POLICIES",    {"step_1"}),
       ExecutionStep("step_3",  "CUAD_MITIGATION",   {"step_2a", "step_2b"}),
       ExecutionStep("step_4",  "VALIDATE_RESULTS",  {"step_3"}),
       ExecutionStep("step_5",  "GENERATE_REDLINES", {"step_4"}) >>
MutantMissingDependency ==
    << ExecutionStep("step_1",  "EXTRACT_CLAUSES",   {}),
       ExecutionStep("step_2a", "CHECK_POLICIES",    {"step_1"}),
       ExecutionStep("step_3",  "CUAD_MITIGATION",   {"step_2a", "step_2b"}),
       ExecutionStep("step_4",  "VALIDATE_RESULTS",  {"step_3"}),
       ExecutionStep("step_5",  "GENERATE_REDLINES", {"step_4"}) >>
ComplexPlan ==
    << ExecutionStep("step_1",  "EXTRACT_CLAUSES",   {}),
       ExecutionStep("step_2a", "CHECK_POLICIES",    {"step_1"}),
       ExecutionStep("step_2b", "ASSESS_RISK",       {"step_1"}),
       ExecutionStep("step_3",  "CUAD_MITIGATION",   {"step_2a", "step_2b"}),
       ExecutionStep("step_4",  "VALIDATE_RESULTS",  {"step_3"}),
       ExecutionStep("step_5",  "GENERATE_REDLINES", {"step_4"}) >>

\* A query is what QueryAnalyzer looks for in it: how many of its six complexity
\* indicators occur, and whether any risk or compliance keyword does.
Query == [indicators : 0..6, risk : BOOLEAN, compliance : BOOLEAN]

\* The one query IntelligenceOrchestrator ever asks: "Perform comprehensive
\* contract analysis including clause extraction, policy compliance, ..."
ProductionQuery == [indicators |-> 1, risk |-> TRUE, compliance |-> TRUE]

\* Compliance keywords are looked for last and win.
UserIntent(q) ==
    IF q.compliance THEN "compliance_check"
    ELSE IF q.risk THEN "risk_assessment" ELSE "analysis"

\* query_complexity > 0.6, where query_complexity is indicators / 6.
SelectStrategy(q) ==
    IF 10 * q.indicators > 6 * 6 THEN "COMPLEX"
    ELSE IF UserIntent(q) = "risk_assessment" THEN "RISK_FOCUSED"
    ELSE IF UserIntent(q) = "compliance_check" THEN "COMPLIANCE_FOCUSED"
    ELSE "SIMPLE"

CreatePlan(strategy) == IF strategy = "SIMPLE" THEN SimplePlan ELSE ComplexPlan

\* A risk query gets a validation step, after the last two, unless it has one.
ValidateAndRefine(plan, intent) ==
    IF intent = "risk_assessment" /\ \A i \in DOMAIN plan : plan[i].type # "VALIDATE_RESULTS"
      THEN Append(plan, ExecutionStep("validation", "VALIDATE_RESULTS",
                                      {plan[i].id : i \in Len(plan)-1..Len(plan)}))
      ELSE plan

CreateExecutionPlan(q) == ValidateAndRefine(CreatePlan(SelectStrategy(q)), UserIntent(q))
=============================================================================
