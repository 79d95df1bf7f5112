---------------------------- MODULE PlanExecution ----------------------------
(***************************************************************************)
(* PlanExecutionEngine and StepExecutor                                    *)
(* (backend/agents/planning/execution_engine.py): the steps of one plan in *)
(* order, each with its retries and timeout, what each leaves in the       *)
(* execution context, the per-step status, and the result with its         *)
(* processing_complete, escalated and quality grade.                       *)
(*                                                                         *)
(* The tools are synchronous, so inside a step nothing else of this engine *)
(* runs; the other actors are the tools' outcomes, the clock and the       *)
(* Gemini breaker, which other requests open and close at any time.        *)
(***************************************************************************)
EXTENDS Planner

CONSTANTS
    Queries,     \* the queries a plan may be asked for
    ToolsRaise   \* may a tool raise instead of answering?

ASSUME QueriesAssumption == Queries \subseteq Query
ASSUME RaiseAssumption   == ToolsRaise \in BOOLEAN

MaxRetries == 2

VARIABLES
    query,      \* what the plan was made for
    pos,        \* position in plan.steps of the step at hand
    phase,      \* "waiting" for dependencies, "trying", "backoff", "done"
    attempt,    \* local `attempt` of _execute_step_with_retry
    results,    \* step_results: step_id -> success, for finished steps
    status,     \* step_status: step type -> status, "none" before it is set
    context,    \* execution_context, as far as the properties tell it apart
    breaker,    \* is the Gemini circuit breaker closed at present?
    result,     \* what execute_plan returns, or NoResult
    lost        \* history: step types whose work was in fact not done

vars == <<query, pos, phase, attempt, results, status, context, breaker, result, lost>>

plan == CreateExecutionPlan(query)
step == plan[pos]

NoResult == [complete |-> FALSE, escalated |-> FALSE, grade |-> "none"]

\* A list in the context: not there, empty, or with entries.
ListValue == {"absent", "empty", "some"}
\* context.get(key, [])
Get(list) == IF list = "absent" THEN "empty" ELSE list

\* How many clauses are grounded in the text: the bands grade_analysis tells
\* apart (below 0.5, 0.7, 0.9, or above), and whether confidence is >= 0.85.
Band == {"bad", "poor", "fair", "high"}

Context == [clauses : ListValue, grounded : Band, confident : BOOLEAN,
            violations : ListValue,
            risk : {"absent", "scored", "error"}, risk_basis : ListValue,
            redline_basis : ListValue,
            method : {"none", "optimized_phase3", "enhanced_phase2_fallback", "fallback_phase1"}]

EmptyContext == [clauses |-> "absent", grounded |-> "high", confident |-> TRUE,
                 violations |-> "absent", risk |-> "absent", risk_basis |-> "absent",
                 redline_basis |-> "absent", method |-> "none"]

TypeOK ==
    /\ query \in Queries
    /\ pos \in 1..Len(plan) + 1
    /\ phase \in {"waiting", "trying", "backoff", "done"}
    /\ attempt \in 0..MaxRetries
    /\ DOMAIN results = {plan[i].id : i \in 1..pos - 1}
    /\ \A id \in DOMAIN results : results[id] \in BOOLEAN
    /\ status \in [StepType -> {"none", "success", "partial", "failed"}]
    /\ context \in Context
    /\ breaker \in BOOLEAN
    /\ result \in [complete : BOOLEAN, escalated : BOOLEAN,
                   grade : {"none", "A", "B", "C", "D", "F"}]
    /\ lost \subseteq StepType

Init ==
    /\ query \in Queries
    /\ pos = 1
    /\ phase = "waiting"
    /\ attempt = 0
    /\ results = << >>
    /\ status = [t \in StepType |-> "none"]
    /\ context = EmptyContext
    /\ breaker \in BOOLEAN
    /\ result = NoResult
    /\ lost = {}

-----------------------------------------------------------------------------
(* The loop over plan.steps                                                *)

\* _wait_for_dependencies: polls until every dependency has a result, whatever
\* that result is; no timeout covers the polling.
StartStep ==
    /\ phase = "waiting"
    /\ pos <= Len(plan)
    /\ step.deps \subseteq DOMAIN results
    /\ phase' = "trying"
    /\ attempt' = 0
    /\ UNCHANGED <<query, pos, results, status, context, breaker, result, lost>>

\* The end of an iteration: the result is stored, its status computed, the
\* context updated, and the next step is up.
FinishStep(success, stepStatus, newContext, isLost) ==
    /\ results' = [id \in DOMAIN results \cup {step.id} |->
                     IF id = step.id THEN success ELSE results[id]]
    /\ status' = [status EXCEPT ![step.type] = stepStatus]
    /\ context' = newContext
    /\ lost' = IF isLost THEN lost \cup {step.type} ELSE lost
    /\ pos' = pos + 1
    /\ phase' = "waiting"
    /\ UNCHANGED <<query, attempt, breaker, result>>

Trying(type) == phase = "trying" /\ step.type = type

\* Mutant of StepStatus: "partial" is not told from "success".
MutantStepStatus(toolStatus) == IF toolStatus = "failure" THEN "failed" ELSE "success"

\* _compute_step_status for a tool that reports a status of its own.
StepStatus(toolStatus) ==
    CASE toolStatus = "failure" -> "failed"
      [] toolStatus = "partial" -> "partial"
      [] OTHER                  -> "success"

\* ClauseDetectorTool answers an empty list both for a contract without clauses
\* and when extraction failed; an empty list is "failed" while the breaker is
\* not closed.
ExtractClauses ==
    /\ Trying("EXTRACT_CLAUSES")
    /\ \/ \E g \in Band, c \in BOOLEAN :
            FinishStep(TRUE, "success",
                       [context EXCEPT !.clauses = "some", !.grounded = g, !.confident = c], FALSE)
       \/ \E failed \in BOOLEAN :
            FinishStep(TRUE, IF breaker THEN "success" ELSE "failed",
                       [context EXCEPT !.clauses = "empty"], failed)

\* PolicyCheckerTool on these clauses: its violations and its status.  Some
\* clauses fail to evaluate ("partial"), all of them, or the check itself.
PolicyCheck(clauses) ==
    {o \in [violations : {"empty", "some"}, status : {"success", "partial", "failure"}] :
        /\ o.violations = "some" => clauses = "some" /\ o.status # "failure"
        /\ o.status = "partial"  => clauses = "some"}

CheckPolicies ==
    /\ Trying("CHECK_POLICIES")
    /\ \E o \in PolicyCheck(Get(context.clauses)) :
         FinishStep(TRUE, StepStatus(o.status), [context EXCEPT !.violations = o.violations],
                    o.status # "success")

\* When RiskCalculatorTool cannot use a violation it answers a score of None
\* rather than raise, and that dictionary carries no status of its own.
AssessRisk ==
    /\ Trying("ASSESS_RISK")
    /\ \E score \in {"scored", "error"} :
         /\ score = "error" => Get(context.violations) = "some"
         /\ FinishStep(TRUE, "success",
                       [context EXCEPT !.risk = score, !.risk_basis = Get(context.violations)],
                       score = "error")

\* Three generations of tools, each tried when the one before it raised.
Generations == {"optimized_phase3", "enhanced_phase2_fallback", "fallback_phase1"}

\* May these tools have lost work, given these clauses?  Each of the deviation,
\* jurisdiction and precedent tools catches its own exception, or the timeout of
\* a pattern, and answers what it has or nothing, which nobody tells from
\* having found nothing.  The optimized precedent tool calls its search without
\* a tenant, so every clause it is given raises and is skipped.
Swallowed(m, clauses) ==
    IF m = "optimized_phase3" /\ clauses = "some" THEN {TRUE} ELSE BOOLEAN

CuadMitigation ==
    /\ Trying("CUAD_MITIGATION")
    /\ \E m \in Generations : \E isLost \in Swallowed(m, Get(context.clauses)) :
         FinishStep(TRUE, "success", [context EXCEPT !.method = m], isLost)

\* Comparing a risk score of None with 80 raises.
ValidateResults ==
    /\ Trying("VALIDATE_RESULTS")
    /\ context.risk # "error"
    /\ FinishStep(TRUE, "success", context, FALSE)

GenerateRedlines ==
    /\ Trying("GENERATE_REDLINES")
    /\ FinishStep(TRUE, "success",
                  [context EXCEPT !.redline_basis = Get(context.violations)], FALSE)

Execute == \/ ExtractClauses \/ CheckPolicies \/ AssessRisk
           \/ CuadMitigation \/ ValidateResults \/ GenerateRedlines

-----------------------------------------------------------------------------
(* Retries, quota and timeout                                              *)

\* The ExecutionResult with success=False; the context is left as it is.
StepFails == FinishStep(FALSE, "failed", context, TRUE)

StepRaises ==
    /\ phase = "trying"
    /\ ToolsRaise \/ (Trying("VALIDATE_RESULTS") /\ context.risk = "error")
    /\ IF attempt = MaxRetries
         THEN StepFails
         ELSE /\ attempt' = attempt + 1
              /\ phase' = "backoff"
              /\ UNCHANGED <<query, pos, results, status, context, breaker, result, lost>>

\* A rate limit or an exhausted quota is not retried.
QuotaExhausted ==
    /\ phase = "trying"
    /\ ToolsRaise
    /\ StepFails

Retry ==
    /\ phase = "backoff"
    /\ phase' = "trying"
    /\ UNCHANGED <<query, pos, attempt, results, status, context, breaker, result, lost>>

\* asyncio.wait_for can cancel the step only where it awaits, and that is the
\* sleep before a retry: a first attempt is never interrupted.
TimesOut ==
    /\ phase = "backoff"
    /\ StepFails

-----------------------------------------------------------------------------
(* The result                                                              *)

CoreStep == {"EXTRACT_CLAUSES", "CHECK_POLICIES", "ASSESS_RISK"}

Some(s) == \E t \in StepType : status[t] = s

\* grade_analysis: the first rule that matches.
Grade(complete, grounded, confident) ==
    IF (\E t \in CoreStep : status[t] = "failed") \/ grounded = "bad" THEN "F"
    ELSE IF ~complete \/ (Some("partial") /\ grounded = "poor") THEN "D"
    ELSE IF Some("partial") THEN "C"
    ELSE IF grounded # "high" \/ ~confident THEN "B"
    ELSE "A"

\* Mutant of ProcessingComplete: only an outright failure makes it FALSE.
MutantProcessingComplete == ~Some("failed")

ProcessingComplete == ~Some("failed") /\ ~Some("partial")

\* _format_final_results; the grade is computed on what it returns.
Complete ==
    /\ phase = "waiting"
    /\ pos > Len(plan)
    /\ phase' = "done"
    /\ result' = [complete  |-> ProcessingComplete,
                  escalated |-> Some("failed"),
                  grade     |-> Grade(ProcessingComplete, context.grounded, context.confident)]
    /\ UNCHANGED <<query, pos, attempt, results, status, context, breaker, lost>>

\* Anything that raises outside execute_step aborts the plan:
\* _format_error_results, with no clauses.
Abort ==
    /\ phase = "waiting"
    /\ ToolsRaise
    /\ phase' = "done"
    /\ result' = [complete |-> FALSE, escalated |-> TRUE, grade |-> Grade(FALSE, "high", TRUE)]
    /\ UNCHANGED <<query, pos, attempt, results, status, context, breaker, lost>>

BreakerChanges ==
    /\ breaker' = ~breaker
    /\ UNCHANGED <<query, pos, phase, attempt, results, status, context, result, lost>>

Engine == \/ StartStep \/ Execute \/ StepRaises \/ QuotaExhausted
          \/ Retry \/ TimesOut \/ Complete

Next == Engine \/ Abort \/ BreakerChanges

Spec == Init /\ [][Next]_vars

-----------------------------------------------------------------------------
(* Properties                                                              *)

\* The plans with a validation step, the one of the application's own query
\* among them; the other plans do not notice a risk assessment that failed.
Validated == \E i \in DOMAIN plan : plan[i].type = "VALIDATE_RESULTS"

\* What can be lost without a trace in any status: clauses that were not
\* extracted, and what the tools of a mitigation that ended swallowed.  A
\* mitigation whose three generations raised has no method and is not one.
QuietLosses ==
    {"EXTRACT_CLAUSES"} \cup (IF context.method = "none" THEN {} ELSE {"CUAD_MITIGATION"})

\* processing_complete means what it says but for the quiet losses: no policy
\* check, risk assessment, validation or redlining whose work was lost is part
\* of a complete result, and no mitigation that failed as a whole.
CompleteIsHonest == Validated /\ result.complete => lost \subseteq QuietLosses

\* An A or a B is never given to an analysis that lost such work, the quiet
\* losses excepted.
GoodGradeIsEarned ==
    Validated /\ result.grade \in {"A", "B"} => lost \subseteq QuietLosses

\* The risk score and the redlines of a complete result were computed from the
\* very violations it reports.
ResultAgreesWithItself ==
    result.complete => /\ context.risk_basis = Get(context.violations)
                       /\ context.redline_basis = Get(context.violations)
=============================================================================
