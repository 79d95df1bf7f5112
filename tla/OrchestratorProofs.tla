------------------------- MODULE OrchestratorProofs -------------------------
(***************************************************************************)
(* For any queries, tools that raise or not, and readers of the progress:  *)
(* complete results, grades and the fallback are honest, a result agrees   *)
(* with itself, and a stream tells the truth.  For any contracts, decisions*)
(* and faults: the mitigation step of a workflow rates clauses as earned   *)
(* and alike, and its tools answer about their own contract.               *)
(***************************************************************************)
EXTENDS Progress, Mitigation, FiniteSetTheorems, TLAPS

\* The planner has two plans: a query that would have a validation step added
\* gets the plan that has one.
LEMMA TwoPlans ==
    ASSUME NEW q \in Query PROVE CreateExecutionPlan(q) \in {SimplePlan, ComplexPlan}
<1>1. CASE SelectStrategy(q) = "SIMPLE"
  <2>1. UserIntent(q) # "risk_assessment"
    BY <1>1 DEF SelectStrategy
  <2>2. QED BY <1>1, <2>1 DEF CreateExecutionPlan, CreatePlan, ValidateAndRefine
<1>2. CASE SelectStrategy(q) # "SIMPLE"
  <2>1. CreatePlan(SelectStrategy(q)) = ComplexPlan
    BY <1>2 DEF CreatePlan
  <2>2. 5 \in DOMAIN ComplexPlan /\ ComplexPlan[5].type = "VALIDATE_RESULTS"
    BY DEF ComplexPlan, ExecutionStep
  <2>3. QED BY <2>1, <2>2 DEF CreateExecutionPlan, ValidateAndRefine
<1>3. QED BY <1>1, <1>2

\* What step types a plan has, by position.
TypesOf(p) ==
    /\ p[1].type = "EXTRACT_CLAUSES"
    /\ p[2].type = "CHECK_POLICIES"
    /\ p[3].type = "ASSESS_RISK"
    /\ p[4].type = "CUAD_MITIGATION"
    /\ \/ Len(p) = 5 /\ p[5].type = "GENERATE_REDLINES"
       \/ Len(p) = 6 /\ p[5].type = "VALIDATE_RESULTS" /\ p[6].type = "GENERATE_REDLINES"

LEMMA PlanTypes ==
    ASSUME query \in Queries PROVE TypesOf(plan) /\ DOMAIN plan = 1..Len(plan)
<1>1. plan \in {SimplePlan, ComplexPlan}
  BY TwoPlans, QueriesAssumption DEF plan
<1>2. CASE plan = SimplePlan
  BY <1>2 DEF SimplePlan, TypesOf, ExecutionStep
<1>3. CASE plan = ComplexPlan
  BY <1>3 DEF ComplexPlan, TypesOf, ExecutionStep
<1>4. QED BY <1>1, <1>2, <1>3

-----------------------------------------------------------------------------
(* The invariant of a plan                                                 *)

\* The step types whose steps are finished.
Finished == {plan[i].type : i \in 1..pos - 1}

\* The step at hand, what is finished before it, and whether it is the last one.
AtStep(n, type, before, last) ==
    pos = n /\ step.type = type /\ Finished = before /\ (pos = Len(plan) <=> last)

LEMMA StepAtHand ==
    ASSUME query \in Queries, pos \in 1..Len(plan)
    PROVE  \/ AtStep(1, "EXTRACT_CLAUSES", {}, FALSE)
           \/ AtStep(2, "CHECK_POLICIES", {"EXTRACT_CLAUSES"}, FALSE)
           \/ AtStep(3, "ASSESS_RISK", {"EXTRACT_CLAUSES", "CHECK_POLICIES"}, FALSE)
           \/ AtStep(4, "CUAD_MITIGATION", {"EXTRACT_CLAUSES", "CHECK_POLICIES", "ASSESS_RISK"}, FALSE)
           \/ AtStep(5, "VALIDATE_RESULTS", StepType \ {"VALIDATE_RESULTS", "GENERATE_REDLINES"}, FALSE)
           \/ AtStep(5, "GENERATE_REDLINES", StepType \ {"VALIDATE_RESULTS", "GENERATE_REDLINES"}, TRUE)
           \/ AtStep(6, "GENERATE_REDLINES", StepType \ {"GENERATE_REDLINES"}, TRUE)
<1>1. TypesOf(plan)
  BY PlanTypes
<1>2. Len(plan) \in {5, 6} /\ pos \in {1, 2, 3, 4, 5, 6}
  <2>1. Len(plan) \in {5, 6}
    BY <1>1 DEF TypesOf
  <2>2. CASE Len(plan) = 5
    <3>1. pos \in 1..5
      BY <2>2
    <3>2. QED BY <2>1, <3>1
  <2>3. CASE Len(plan) = 6
    <3>1. pos \in 1..6
      BY <2>3
    <3>2. QED BY <2>1, <3>1
  <2>4. QED BY <2>1, <2>2, <2>3
<1>3. CASE pos = 1
  BY <1>1, <1>3 DEF TypesOf, AtStep, step, Finished
<1>4. CASE pos = 2
  <2>1. Finished = {plan[1].type}
    BY <1>4 DEF Finished
  <2>2. QED BY <1>1, <1>4, <2>1 DEF TypesOf, AtStep, step
<1>5. CASE pos = 3
  <2>1. Finished = {plan[1].type, plan[2].type}
    BY <1>5 DEF Finished
  <2>2. QED BY <1>1, <1>5, <2>1 DEF TypesOf, AtStep, step
<1>6. CASE pos = 4
  <2>1. Finished = {plan[1].type, plan[2].type, plan[3].type}
    BY <1>6 DEF Finished
  <2>2. QED BY <1>1, <1>6, <2>1 DEF TypesOf, AtStep, step
<1>7. CASE pos = 5
  <2>1. Finished = {plan[1].type, plan[2].type, plan[3].type, plan[4].type}
    BY <1>7 DEF Finished
  <2>2. QED BY <1>1, <1>7, <2>1 DEF TypesOf, AtStep, step, StepType
<1>8. CASE pos = 6
  <2>1. Finished = {plan[1].type, plan[2].type, plan[3].type, plan[4].type, plan[5].type}
    BY <1>8 DEF Finished
  <2>2. Len(plan) = 6
    <3>1. Len(plan) # 5
      <4>1. ~(6 \in 1..5)
        OBVIOUS
      <4>2. QED BY <1>8, <4>1
    <3>2. QED BY <1>2, <3>1
  <2>3. plan[5].type = "VALIDATE_RESULTS" /\ plan[6].type = "GENERATE_REDLINES"
    BY <1>1, <2>2 DEF TypesOf
  <2>4. QED BY <1>1, <1>8, <2>1, <2>2, <2>3 DEF TypesOf, AtStep, step, StepType
<1>9. QED BY <1>2, <1>3, <1>4, <1>5, <1>6, <1>7, <1>8

PlanTypeOK ==
    /\ query \in Queries
    /\ pos \in 1..Len(plan) + 1
    /\ phase \in {"waiting", "trying", "backoff", "done"}
    /\ phase \in {"trying", "backoff"} => pos <= Len(plan)
    /\ status \in [StepType -> {"none", "success", "partial", "failed"}]
    /\ context \in Context
    /\ result.complete \in BOOLEAN

Noted(t) == status[t] \in {"partial", "failed"}

\* A status or a loss is of a finished step; what is lost is noted as such, only
\* a risk assessment leaves its trace in the context, until it is validated.
LossInv ==
    /\ \A t \in StepType : status[t] # "none" <=> t \in Finished
    /\ lost \subseteq Finished
    /\ \A t \in lost \ QuietLosses :
          Noted(t) \/ (t = "ASSESS_RISK" /\ context.risk = "error")
    /\ context.risk = "error" /\ "VALIDATE_RESULTS" \in Finished => Noted("VALIDATE_RESULTS")

\* What a step was given is what the result reports.
BasisInv ==
    /\ pos <= 2 => context.violations = "absent"
    /\ pos > 3 /\ status["ASSESS_RISK"] # "failed" => context.risk_basis = Get(context.violations)
    /\ pos > Len(plan) /\ status["GENERATE_REDLINES"] # "failed"
          => context.redline_basis = Get(context.violations)

\* A result that says complete, or has a good grade, was computed at the end.
ResultInv ==
    result.complete \/ result.grade \in {"A", "B"}
        => phase = "done" /\ pos > Len(plan) /\ ProcessingComplete

EngineInv == PlanTypeOK /\ LossInv /\ BasisInv /\ ResultInv

LEMMA InitEngine == Init => EngineInv
<1>. SUFFICES ASSUME Init PROVE EngineInv
  OBVIOUS
<1>1. TypesOf(plan)
  BY PlanTypes DEF Init
<1>2. PlanTypeOK
  BY <1>1 DEF Init, PlanTypeOK, TypesOf, Context, EmptyContext, ListValue, Band, NoResult, StepType
<1>3. LossInv
  BY DEF Init, LossInv, Finished, EmptyContext
<1>4. BasisInv
  BY <1>1 DEF Init, BasisInv, TypesOf, EmptyContext
<1>5. QED BY <1>2, <1>3, <1>4 DEF EngineInv, Init, ResultInv, NoResult

-----------------------------------------------------------------------------
(* The end of a step                                                       *)

\* What the invariant asks of how a step ends: with status s and context c.
Ends(s, c, isLost) ==
    /\ s \in {"success", "partial", "failed"}
    /\ c \in Context
    /\ isLost => \/ s # "success"
                 \/ step.type = "EXTRACT_CLAUSES"
                 \/ step.type = "ASSESS_RISK" /\ c.risk = "error"
                 \/ step.type = "CUAD_MITIGATION" /\ c.method # "none"
    /\ step.type # "CUAD_MITIGATION" => c.method = context.method
    /\ step.type = "VALIDATE_RESULTS" /\ c.risk = "error" => s # "success"
    /\ step.type # "CHECK_POLICIES" => c.violations = context.violations
    /\ step.type # "ASSESS_RISK" => c.risk = context.risk /\ c.risk_basis = context.risk_basis
    /\ step.type = "ASSESS_RISK" /\ s # "failed" => c.risk_basis = Get(context.violations)
    /\ step.type = "GENERATE_REDLINES" /\ s # "failed" => c.redline_basis = Get(context.violations)

LEMMA StepEnds ==
    ASSUME EngineInv, phase \in {"trying", "backoff"},
           NEW success \in BOOLEAN, NEW s, NEW c, NEW isLost \in BOOLEAN,
           FinishStep(success, s, c, isLost), Ends(s, c, isLost)
    PROVE  EngineInv'
<1>1. TypesOf(plan) /\ query \in Queries /\ pos \in 1..Len(plan) /\ plan' = plan
  BY PlanTypes DEF EngineInv, PlanTypeOK, FinishStep, plan
<1>2. /\ Len(plan) \in {5, 6} /\ pos \in Nat /\ pos' = pos + 1
      /\ step.type \in StepType /\ Finished \subseteq StepType /\ step.type \notin Finished
      /\ "VALIDATE_RESULTS" \in Finished => step.type # "ASSESS_RISK"
      /\ step.type = "ASSESS_RISK" <=> pos = 3
      /\ step.type = "GENERATE_REDLINES" <=> pos = Len(plan)
      /\ step.type = "CHECK_POLICIES" <=> pos = 2
  BY <1>1, StepAtHand DEF AtStep, TypesOf, FinishStep, StepType
<1>3. Finished' = Finished \cup {step.type}
  BY <1>1, <1>2 DEF Finished, step
<1>4. /\ status \in [StepType -> {"none", "success", "partial", "failed"}]
      /\ status' = [status EXCEPT ![step.type] = s]
      /\ context' = c /\ c \in Context
      /\ phase' = "waiting" /\ result' = result /\ query' = query
  BY DEF FinishStep, Ends, EngineInv, PlanTypeOK
<1>5. /\ status'[step.type] = s
      /\ \A t \in StepType : t # step.type => status'[t] = status[t]
      /\ status' \in [StepType -> {"none", "success", "partial", "failed"}]
  BY <1>2, <1>4 DEF Ends
<1>6. PlanTypeOK'
  BY <1>1, <1>2, <1>4, <1>5 DEF PlanTypeOK, EngineInv
<1>7. LossInv'
  <2>1. \A t \in StepType : status'[t] # "none" <=> t \in Finished'
    BY <1>3, <1>5 DEF LossInv, EngineInv, Ends
  <2>2. lost' \subseteq Finished'
    BY <1>3 DEF LossInv, EngineInv, FinishStep
  <2>3. ASSUME NEW t \in lost' \ QuietLosses'
        PROVE  Noted(t)' \/ (t = "ASSESS_RISK" /\ context'.risk = "error")
    <3>1. CASE t = step.type
      <4>1. isLost
        BY <1>2, <2>3, <3>1 DEF LossInv, EngineInv, FinishStep
      <4>2. QED BY <1>4, <1>5, <2>3, <3>1, <4>1 DEF Ends, Noted, QuietLosses
    <3>2. CASE t # step.type
      <4>1. t \in lost \ QuietLosses /\ t \in StepType
        BY <1>2, <1>4, <2>3, <3>2 DEF FinishStep, LossInv, EngineInv, Ends, QuietLosses
      <4>2. Noted(t) \/ (t = "ASSESS_RISK" /\ context.risk = "error")
        BY <4>1 DEF LossInv, EngineInv
      <4>3. QED BY <1>4, <1>5, <3>2, <4>1, <4>2 DEF Noted, Ends
    <3>3. QED BY <3>1, <3>2
  <2>4. context'.risk = "error" /\ "VALIDATE_RESULTS" \in Finished' => Noted("VALIDATE_RESULTS")'
    <3>1. CASE step.type = "VALIDATE_RESULTS"
      BY <1>4, <1>5, <3>1 DEF Ends, Noted
    <3>2. CASE step.type # "VALIDATE_RESULTS"
      BY <1>2, <1>3, <1>4, <1>5, <3>2 DEF Ends, Noted, LossInv, EngineInv, StepType
    <3>3. QED BY <3>1, <3>2
  <2>5. QED BY <2>1, <2>2, <2>3, <2>4 DEF LossInv
<1>8. BasisInv'
  <2>1. {"ASSESS_RISK", "GENERATE_REDLINES"} \subseteq StepType
    BY DEF StepType
  <2>2. pos' <= 2 => context'.violations = "absent"
    BY <1>2, <1>4 DEF BasisInv, EngineInv, Ends
  <2>3. pos' > 3 /\ status'["ASSESS_RISK"] # "failed" => context'.risk_basis = Get(context'.violations)
    BY <1>2, <1>4, <1>5, <2>1 DEF BasisInv, EngineInv, Ends
  <2>4. pos' > Len(plan) /\ status'["GENERATE_REDLINES"] # "failed"
           => context'.redline_basis = Get(context'.violations)
    BY <1>1, <1>2, <1>4, <1>5, <2>1 DEF BasisInv, EngineInv, Ends
  <2>5. QED BY <1>1, <2>2, <2>3, <2>4 DEF BasisInv, Get
<1>9. ResultInv'
  BY <1>4 DEF EngineInv, ResultInv
<1>10. QED BY <1>6, <1>7, <1>8, <1>9 DEF EngineInv

-----------------------------------------------------------------------------
(* Every step of the engine                                                *)

\* The frame of a step that moves only the phase and the attempts.
LEMMA PhaseMoves ==
    ASSUME EngineInv, UNCHANGED <<query, pos, results, status, context, lost>>,
           phase' \in {"waiting", "trying", "backoff", "done"},
           phase' \in {"trying", "backoff"} => pos <= Len(plan),
           ResultInv', result'.complete \in BOOLEAN
    PROVE  EngineInv'
<1>1. plan' = plan /\ Finished' = Finished
  BY DEF plan, Finished
<1>2. PlanTypeOK'
  BY <1>1 DEF EngineInv, PlanTypeOK
<1>3. LossInv'
  BY <1>1 DEF EngineInv, LossInv, Noted, QuietLosses
<1>4. BasisInv'
  BY <1>1 DEF EngineInv, BasisInv, Get
<1>5. QED BY <1>2, <1>3, <1>4 DEF EngineInv

LEMMA ExecuteStep == ASSUME EngineInv, Execute PROVE EngineInv'
<1>1. context \in Context /\ status \in [StepType -> {"none", "success", "partial", "failed"}]
  BY DEF EngineInv, PlanTypeOK
<1>2. CASE ExtractClauses
  <2>1. ASSUME NEW g \in Band, NEW b \in BOOLEAN,
               FinishStep(TRUE, "success",
                          [context EXCEPT !.clauses = "some", !.grounded = g, !.confident = b], FALSE)
        PROVE  EngineInv'
    <3>. DEFINE c == [context EXCEPT !.clauses = "some", !.grounded = g, !.confident = b]
    <3>1. Ends("success", c, FALSE)
      BY <1>1, <1>2 DEF Ends, ExtractClauses, Trying, Context, ListValue
    <3>. HIDE DEF c
    <3>2. QED BY <1>2, <2>1, <3>1, StepEnds DEF ExtractClauses, Trying, c
  <2>2. ASSUME NEW failed \in BOOLEAN,
               FinishStep(TRUE, IF breaker THEN "success" ELSE "failed",
                          [context EXCEPT !.clauses = "empty"], failed)
        PROVE  EngineInv'
    <3>. DEFINE c == [context EXCEPT !.clauses = "empty"]
                s == IF breaker THEN "success" ELSE "failed"
    <3>1. Ends(s, c, failed)
      BY <1>1, <1>2 DEF Ends, ExtractClauses, Trying, Context, ListValue
    <3>. HIDE DEF c, s
    <3>2. QED BY <1>2, <2>2, <3>1, StepEnds DEF ExtractClauses, Trying, c, s
  <2>3. QED BY <1>2, <2>1, <2>2 DEF ExtractClauses
<1>3. CASE CheckPolicies
  <2>1. PICK o \in PolicyCheck(Get(context.clauses)) :
               FinishStep(TRUE, StepStatus(o.status), [context EXCEPT !.violations = o.violations],
                          o.status # "success")
    BY <1>3 DEF CheckPolicies
  <2>. DEFINE c == [context EXCEPT !.violations = o.violations]
              s == StepStatus(o.status)
  <2>2. /\ o.violations \in ListValue
        /\ s \in {"success", "partial", "failed"}
        /\ o.status # "success" => s # "success"
    BY DEF PolicyCheck, StepStatus, ListValue
  <2>3. Ends(s, c, o.status # "success")
    BY <1>1, <1>3, <2>2 DEF Ends, CheckPolicies, Trying, Context
  <2>. HIDE DEF c, s
  <2>4. QED BY <1>3, <2>1, <2>3, StepEnds DEF CheckPolicies, Trying, c, s
<1>4. CASE AssessRisk
  <2>1. PICK score \in {"scored", "error"} :
               FinishStep(TRUE, "success",
                          [context EXCEPT !.risk = score, !.risk_basis = Get(context.violations)],
                          score = "error")
    BY <1>4 DEF AssessRisk
  <2>. DEFINE c == [context EXCEPT !.risk = score, !.risk_basis = Get(context.violations)]
  <2>2. Get(context.violations) \in ListValue
    BY <1>1 DEF Get, Context, ListValue
  <2>3. Ends("success", c, score = "error")
    BY <1>1, <1>4, <2>2 DEF Ends, AssessRisk, Trying, Context
  <2>. HIDE DEF c
  <2>4. QED BY <1>4, <2>1, <2>3, StepEnds DEF AssessRisk, Trying, c
<1>5. CASE CuadMitigation
  <2>1. PICK m \in Generations, isLost \in BOOLEAN :
               FinishStep(TRUE, "success", [context EXCEPT !.method = m], isLost)
    BY <1>5 DEF CuadMitigation, Swallowed
  <2>. DEFINE c == [context EXCEPT !.method = m]
  <2>2. Ends("success", c, isLost)
    BY <1>1, <1>5 DEF Ends, CuadMitigation, Trying, Context, Generations
  <2>. HIDE DEF c
  <2>3. QED BY <1>5, <2>1, <2>2, StepEnds DEF CuadMitigation, Trying, c
<1>6. CASE ValidateResults
  <2>1. Ends("success", context, FALSE)
    BY <1>1, <1>6 DEF Ends, ValidateResults, Trying
  <2>2. QED BY <1>6, <2>1, StepEnds DEF ValidateResults, Trying
<1>7. CASE GenerateRedlines
  <2>. DEFINE c == [context EXCEPT !.redline_basis = Get(context.violations)]
  <2>1. Get(context.violations) \in ListValue
    BY <1>1 DEF Get, Context, ListValue
  <2>2. Ends("success", c, FALSE)
    BY <1>1, <1>7, <2>1 DEF Ends, GenerateRedlines, Trying, Context
  <2>. HIDE DEF c
  <2>3. QED BY <1>7, <2>2, StepEnds DEF GenerateRedlines, Trying, c
<1>8. QED BY <1>2, <1>3, <1>4, <1>5, <1>6, <1>7 DEF Execute

LEMMA FailureStep ==
    ASSUME EngineInv, phase \in {"trying", "backoff"}, StepFails PROVE EngineInv'
<1>1. Ends("failed", context, TRUE)
  BY DEF Ends, EngineInv, PlanTypeOK
<1>2. QED BY <1>1, StepEnds DEF StepFails

LEMMA EngineStep == ASSUME EngineInv, Engine \/ Abort PROVE EngineInv'
<1>1. CASE StartStep
  BY <1>1, PhaseMoves DEF StartStep, EngineInv, PlanTypeOK, ResultInv
<1>2. CASE Execute
  BY <1>2, ExecuteStep
<1>3. CASE StepRaises
  <2>1. CASE attempt = MaxRetries
    BY <1>3, <2>1, FailureStep DEF StepRaises
  <2>2. CASE attempt # MaxRetries
    BY <1>3, <2>2, PhaseMoves DEF StepRaises, EngineInv, PlanTypeOK, ResultInv
  <2>3. QED BY <2>1, <2>2
<1>4. CASE QuotaExhausted
  BY <1>4, FailureStep DEF QuotaExhausted
<1>5. CASE Retry
  BY <1>5, PhaseMoves DEF Retry, EngineInv, PlanTypeOK, ResultInv
<1>6. CASE TimesOut
  BY <1>6, FailureStep DEF TimesOut
<1>7. CASE Complete
  <2>1. /\ result'.complete = ProcessingComplete
        /\ result'.grade = Grade(ProcessingComplete, context.grounded, context.confident)
    BY <1>7 DEF Complete
  <2>2. result'.grade \in {"A", "B"} => ProcessingComplete
    BY <2>1 DEF Grade
  <2>3. ProcessingComplete \in BOOLEAN
    BY DEF ProcessingComplete
  <2>4. ProcessingComplete <=> ProcessingComplete'
    BY <1>7 DEF Complete, ProcessingComplete, Some
  <2>5. plan' = plan /\ pos' > Len(plan) /\ phase' = "done"
    BY <1>7 DEF Complete, plan
  <2>6. result'.complete => ProcessingComplete
    BY <2>1
  <2>7. ResultInv'
    BY <2>2, <2>4, <2>5, <2>6 DEF ResultInv
  <2>8. QED BY <1>7, <2>1, <2>3, <2>7, PhaseMoves DEF Complete
<1>8. CASE Abort
  <2>1. result'.complete = FALSE /\ result'.grade = Grade(FALSE, "high", TRUE)
    BY <1>8 DEF Abort
  <2>2. result'.grade \in {"F", "D"}
    BY <2>1 DEF Grade
  <2>3. ResultInv'
    BY <2>1, <2>2 DEF ResultInv
  <2>4. QED BY <1>8, <2>1, <2>3, PhaseMoves DEF Abort
<1>9. QED BY <1>1, <1>2, <1>3, <1>4, <1>5, <1>6, <1>7, <1>8 DEF Engine

LEMMA StepsFinished ==
    ASSUME query \in Queries, pos \in 1..Len(plan) + 1 PROVE Finished \subseteq StepType
<1>1. TypesOf(plan)
  BY PlanTypes
<1>2. ASSUME NEW i \in 1..pos - 1 PROVE plan[i].type \in StepType
  <2>1. Len(plan) \in {5, 6}
    BY <1>1 DEF TypesOf
  <2>2. CASE Len(plan) = 5
    <3>1. pos \in 1..6
      BY <2>2
    <3>2. i \in {1, 2, 3, 4, 5}
      BY <1>2, <3>1
    <3>3. QED BY <1>1, <2>2, <3>2 DEF TypesOf, StepType
  <2>3. CASE Len(plan) = 6
    <3>1. pos \in 1..7
      BY <2>3
    <3>2. i \in {1, 2, 3, 4, 5, 6}
      BY <1>2, <3>1
    <3>3. plan[5].type = "VALIDATE_RESULTS" /\ plan[6].type = "GENERATE_REDLINES"
      BY <1>1, <2>3 DEF TypesOf
    <3>4. QED BY <1>1, <3>2, <3>3 DEF TypesOf, StepType
  <2>4. QED BY <2>1, <2>2, <2>3
<1>3. QED BY <1>2 DEF Finished

\* What the invariant says of a result.
LEMMA ResultsAreHonest ==
    ASSUME EngineInv PROVE CompleteIsHonest /\ GoodGradeIsEarned /\ ResultAgreesWithItself
<1>1. TypesOf(plan) /\ DOMAIN plan = 1..Len(plan)
  BY PlanTypes DEF EngineInv, PlanTypeOK
<1>2. lost \subseteq StepType /\ \A t \in StepType : ProcessingComplete => ~Noted(t)
  <2>1. Finished \subseteq StepType
    BY <1>1, StepsFinished DEF EngineInv, PlanTypeOK
  <2>2. QED BY <2>1 DEF EngineInv, LossInv, ProcessingComplete, Some, Noted
<1>3. ASSUME Validated, pos > Len(plan), ProcessingComplete PROVE lost \subseteq QuietLosses
  <2>1. PICK i \in 1..Len(plan) : plan[i].type = "VALIDATE_RESULTS"
    BY <1>1, <1>3 DEF Validated
  <2>2. Len(plan) \in Nat /\ pos \in 1..Len(plan) + 1
    BY <1>1 DEF TypesOf, EngineInv, PlanTypeOK
  <2>3. i \in 1..pos - 1
    BY <1>3, <2>1, <2>2
  <2>4. "VALIDATE_RESULTS" \in Finished /\ "VALIDATE_RESULTS" \in StepType
    BY <2>1, <2>3 DEF Finished, StepType
  <2>5. context.risk # "error"
    BY <1>2, <1>3, <2>4 DEF EngineInv, LossInv
  <2>6. QED BY <1>2, <1>3, <2>5 DEF EngineInv, LossInv
<1>4. ResultAgreesWithItself
  <2>1. Len(plan) > 3 /\ Len(plan) \in Nat /\ pos \in 1..Len(plan) + 1
    BY <1>1 DEF TypesOf, EngineInv, PlanTypeOK
  <2>2. {"ASSESS_RISK", "GENERATE_REDLINES"} \subseteq StepType
    BY DEF StepType
  <2>3. ASSUME result.complete PROVE pos > Len(plan) /\ ProcessingComplete
    BY <2>3 DEF EngineInv, ResultInv
  <2>4. ASSUME result.complete
        PROVE  status["ASSESS_RISK"] # "failed" /\ status["GENERATE_REDLINES"] # "failed"
    BY <1>2, <2>2, <2>3, <2>4 DEF Noted
  <2>5. QED BY <2>1, <2>3, <2>4 DEF EngineInv, BasisInv, ResultAgreesWithItself
<1>5. CompleteIsHonest /\ GoodGradeIsEarned
  BY <1>3 DEF EngineInv, ResultInv, CompleteIsHonest, GoodGradeIsEarned
<1>6. QED BY <1>4, <1>5

-----------------------------------------------------------------------------
(* The invariant of the fallback                                           *)

NodeNames == {"clause_extraction", "policy_checking", "risk_calculation",
              "cuad_mitigation", "redline_generation"}

LEMMA NodesInOrder ==
    /\ Len(Nodes) = 5 /\ Range(Nodes) = NodeNames
    /\ \A n \in NodeNames : AtNode(n) => n = Nodes[node]
    /\ Nodes[1] = "clause_extraction" /\ Nodes[2] = "policy_checking"
    /\ Nodes[3] = "risk_calculation" /\ Nodes[4] = "cuad_mitigation"
    /\ Nodes[5] = "redline_generation"
BY DEF Nodes, NodeNames, Range, AtNode

\* Before its first node.
AtStart == node = 1 /\ node_status = [n \in NodeNames |-> "none"]

\* Losses are noted by the nodes they are of, and what is noted stays so.
FallbackInv ==
    /\ node \in 1..6
    /\ node_status \in [NodeNames -> {"none", "success", "partial", "error"}]
    /\ context \in Context
    /\ reported \in {"empty", "some"}
    /\ lost \subseteq StepType \ {"VALIDATE_RESULTS"}
    /\ "CHECK_POLICIES" \in lost => node_status["policy_checking"] \in {"partial", "error"}
    /\ "ASSESS_RISK" \in lost => node_status["risk_calculation"] = "error"
    /\ "GENERATE_REDLINES" \in lost => node_status["redline_generation"] = "error"
    /\ node > 3 => node_status["risk_calculation"] = "error" \/ context.risk = "scored"
    /\ node <= 2 => node_status["policy_checking"] = "none"
    /\ node <= 3 => node_status["risk_calculation"] = "none"
    /\ node <= 5 => node_status["redline_generation"] = "none"
    /\ node_status["redline_generation"] = "success" => context.redline_basis = reported
    /\ result = NoResult

\* One path is in charge, or has answered.
PathsInv ==
    /\ route \in {"planning", "traditional", "answered"}
    /\ query \in Queries
    /\ route # "answered" => answer = NoAnswer
    /\ route = "answered" => answer.path \in {"planning", "traditional"}
    /\ route = "planning" => AtStart /\ reported = "empty"
    /\ route = "planning" \/ answer.path = "planning" => EngineInv
    /\ route = "traditional" \/ answer.path = "traditional" => FallbackInv
    /\ answer.path = "traditional" /\ answer.complete => TraditionalComplete

\* A workflow that has not begun, on what Init or Restart left.
LEMMA FallbackStarts ==
    ASSUME AtStart, reported = "empty", context = EmptyContext, lost = {}, result = NoResult PROVE FallbackInv
BY DEF AtStart, FallbackInv, NodeNames, Context, EmptyContext, ListValue, Band

LEMMA InitPaths == OInit => PathsInv
<1>. SUFFICES ASSUME OInit PROVE PathsInv
  OBVIOUS
<1>1. AtStart
  BY NodesInOrder DEF OInit, AtStart
<1>2. EngineInv
  BY InitEngine DEF OInit
<1>3. FallbackInv
  BY <1>1, FallbackStarts DEF OInit, Init
<1>4. QED BY <1>1, <1>2, <1>3 DEF PathsInv, OInit, Init, NoAnswer

-----------------------------------------------------------------------------
(* The nodes                                                               *)

\* What the invariant asks of how a node ends.
EndsNode(noted, c, violations, workLost) ==
    /\ noted \in {"none", "success", "partial", "error"}
    /\ c \in Context
    /\ violations \in {"empty", "some"}
    /\ workLost \subseteq StepType \ {"VALIDATE_RESULTS"}
    /\ "CHECK_POLICIES" \in workLost => node = 2 /\ noted \in {"partial", "error"}
    /\ "ASSESS_RISK" \in workLost => node = 3 /\ noted = "error"
    /\ "GENERATE_REDLINES" \in workLost => node = 5 /\ noted = "error"
    /\ IF node = 3 THEN noted = "error" \/ c.risk = "scored" ELSE c.risk = context.risk
    /\ node = 5 /\ noted = "success" => c.redline_basis = violations

LEMMA NodeEnds ==
    ASSUME FallbackInv, node \in 1..5, NEW noted, NEW c, NEW violations, NEW workLost,
           EndNode(noted, c, violations, workLost), EndsNode(noted, c, violations, workLost)
    PROVE  FallbackInv'
<1>1. /\ node' = node + 1 /\ context' = c /\ reported' = violations
      /\ lost' = lost \cup workLost /\ result' = result
      /\ node_status' = [node_status EXCEPT ![Nodes[node]] = noted]
  BY DEF EndNode
<1>2. \/ node = 1 /\ Nodes[node] = "clause_extraction"
      \/ node = 2 /\ Nodes[node] = "policy_checking"
      \/ node = 3 /\ Nodes[node] = "risk_calculation"
      \/ node = 4 /\ Nodes[node] = "cuad_mitigation"
      \/ node = 5 /\ Nodes[node] = "redline_generation"
  BY NodesInOrder
<1>3. node_status' \in [NodeNames -> {"none", "success", "partial", "error"}]
  BY <1>1 DEF FallbackInv, EndsNode
<1>4. \A n \in NodeNames : node_status'[n] = IF n = Nodes[node] THEN noted ELSE node_status[n]
  BY <1>1 DEF FallbackInv
<1>5. {"policy_checking", "risk_calculation", "redline_generation"} \subseteq NodeNames
  BY DEF NodeNames
<1>6. lost' \subseteq StepType \ {"VALIDATE_RESULTS"}
  BY <1>1 DEF FallbackInv, EndsNode
<1>7. "CHECK_POLICIES" \in lost' => node_status'["policy_checking"] \in {"partial", "error"}
  BY <1>1, <1>2, <1>4, <1>5 DEF FallbackInv, EndsNode
<1>8. "ASSESS_RISK" \in lost' => node_status'["risk_calculation"] = "error"
  BY <1>1, <1>2, <1>4, <1>5 DEF FallbackInv, EndsNode
<1>9. "GENERATE_REDLINES" \in lost' => node_status'["redline_generation"] = "error"
  BY <1>1, <1>2, <1>4, <1>5 DEF FallbackInv, EndsNode
<1>10. node' > 3 => node_status'["risk_calculation"] = "error" \/ context'.risk = "scored"
  BY <1>1, <1>2, <1>4, <1>5 DEF FallbackInv, EndsNode
<1>11. /\ node' <= 2 => node_status'["policy_checking"] = "none"
       /\ node' <= 3 => node_status'["risk_calculation"] = "none"
       /\ node' <= 5 => node_status'["redline_generation"] = "none"
       /\ node_status'["redline_generation"] = "success" => context'.redline_basis = reported'
  BY <1>1, <1>2, <1>4, <1>5 DEF FallbackInv, EndsNode
<1>12. QED
  BY <1>1, <1>3, <1>6, <1>7, <1>8, <1>9, <1>10, <1>11 DEF FallbackInv, EndsNode

LEMMA NodeStep == ASSUME FallbackInv, query \in Queries, TraditionalNode PROVE FallbackInv'
<1>1. context \in Context /\ reported \in {"empty", "some"}
  BY DEF FallbackInv
<1>2. \A n \in NodeNames : AtNode(n) => node \in 1..5 /\ n = Nodes[node]
  BY NodesInOrder DEF AtNode, FallbackInv
<1>3. /\ AtNode("clause_extraction") => node = 1
      /\ AtNode("policy_checking") => node = 2
      /\ AtNode("risk_calculation") => node = 3
      /\ AtNode("cuad_mitigation") => node = 4
      /\ AtNode("redline_generation") => node = 5
  BY <1>2, NodesInOrder DEF NodeNames
<1>4. CASE ClauseExtraction
  <2>1. node = 1
    BY <1>3, <1>4 DEF ClauseExtraction
  <2>2. PICK noted \in {"success", "error"}, list \in {"some", "empty"}, l \in SUBSET {"EXTRACT_CLAUSES"} :
            EndNode(noted, [context EXCEPT !.clauses = list], reported, l)
    BY <1>4 DEF ClauseExtraction
  <2>. DEFINE c == [context EXCEPT !.clauses = list]
  <2>3. EndsNode(noted, c, reported, l)
    BY <1>1, <2>1, <2>2 DEF EndsNode, Context, ListValue, StepType
  <2>. HIDE DEF c
  <2>4. QED BY <2>1, <2>2, <2>3, NodeEnds DEF c
<1>5. CASE PolicyChecking
  <2>1. node = 2
    BY <1>3, <1>5 DEF PolicyChecking
  <2>2. ASSUME NEW o \in PolicyCheck(context.clauses),
               EndNode(NodeStatus(o.status), context, o.violations,
                       IF o.status = "success" THEN {} ELSE {"CHECK_POLICIES"})
        PROVE  FallbackInv'
    <3>. DEFINE noted == NodeStatus(o.status)
                violations == o.violations
                l == IF o.status = "success" THEN {} ELSE {"CHECK_POLICIES"}
    <3>1. EndsNode(noted, context, violations, l)
      BY <1>1, <2>1 DEF EndsNode, NodeStatus, PolicyCheck, StepType
    <3>. HIDE DEF noted, violations, l
    <3>2. QED BY <2>1, <2>2, <3>1, NodeEnds DEF noted, violations, l
  <2>3. ASSUME EndNode("error", context, "empty", {"CHECK_POLICIES"}) PROVE FallbackInv'
    <3>1. EndsNode("error", context, "empty", {"CHECK_POLICIES"})
      BY <1>1, <2>1 DEF EndsNode, StepType
    <3>2. QED BY <2>1, <2>3, <3>1, NodeEnds
  <2>4. QED BY <1>5, <2>2, <2>3 DEF PolicyChecking
<1>6. CASE RiskCalculation
  <2>1. node = 3
    BY <1>3, <1>6 DEF RiskCalculation
  <2>2. ASSUME EndNode("success", [context EXCEPT !.risk = "scored", !.risk_basis = reported], reported, {})
        PROVE  FallbackInv'
    <3>. DEFINE c == [context EXCEPT !.risk = "scored", !.risk_basis = reported]
    <3>1. c \in Context
      BY <1>1 DEF Context, ListValue
    <3>2. c.risk = "scored"
      BY <1>1 DEF Context
    <3>. HIDE DEF c
    <3>3. EndsNode("success", c, reported, {})
      BY <1>1, <2>1, <3>1, <3>2 DEF EndsNode
    <3>4. QED BY <2>1, <2>2, <3>3, NodeEnds DEF c
  <2>3. ASSUME EndNode("error", [context EXCEPT !.risk = "error"], reported, {"ASSESS_RISK"})
        PROVE  FallbackInv'
    <3>. DEFINE c == [context EXCEPT !.risk = "error"]
    <3>1. EndsNode("error", c, reported, {"ASSESS_RISK"})
      BY <1>1, <2>1 DEF EndsNode, Context, StepType
    <3>. HIDE DEF c
    <3>2. QED BY <2>1, <2>3, <3>1, NodeEnds DEF c
  <2>4. QED BY <1>6, <2>2, <2>3 DEF RiskCalculation
<1>7. CASE MitigationNode
  <2>1. node = 4
    BY <1>3, <1>7 DEF MitigationNode
  <2>2. ASSUME NEW m \in Generations, NEW v \in {"empty", "some"}, NEW l \in SUBSET {"CUAD_MITIGATION"},
               EndNode("none", [context EXCEPT !.method = m], v, l)
        PROVE  FallbackInv'
    <3>. DEFINE c == [context EXCEPT !.method = m]
    <3>1. EndsNode("none", c, v, l)
      BY <1>1, <2>1 DEF EndsNode, Context, ListValue, Generations, StepType
    <3>. HIDE DEF c
    <3>2. QED BY <2>1, <2>2, <3>1, NodeEnds DEF c
  <2>3. ASSUME EndNode("none", context, reported, {"CUAD_MITIGATION"}) PROVE FallbackInv'
    <3>1. EndsNode("none", context, reported, {"CUAD_MITIGATION"})
      BY <1>1, <2>1 DEF EndsNode, StepType
    <3>2. QED BY <2>1, <2>3, <3>1, NodeEnds
  <2>4. CASE ToolsRaise /\ EndNode("none", context, reported, {"CUAD_MITIGATION"})
    BY <2>3, <2>4
  <2>5. ASSUME NEW m \in Generations, NEW d \in {"empty", "some"}, NEW isLost,
               EndNode("none", [context EXCEPT !.method = m],
                       IF d = "some" THEN "some" ELSE reported,
                       IF isLost THEN {"CUAD_MITIGATION"} ELSE {})
        PROVE  FallbackInv'
    <3>1. (IF d = "some" THEN "some" ELSE reported) \in {"empty", "some"}
      BY <1>1
    <3>2. (IF isLost THEN {"CUAD_MITIGATION"} ELSE {}) \in SUBSET {"CUAD_MITIGATION"}
      OBVIOUS
    <3>3. QED BY <2>2, <2>5, <3>1, <3>2
  <2>6. QED BY <1>7, <2>4, <2>5 DEF MitigationNode
<1>8. CASE RedlineGeneration
  <2>1. node = 5
    BY <1>3, <1>8 DEF RedlineGeneration
  <2>2. ASSUME EndNode("success", [context EXCEPT !.redline_basis = reported], reported, {})
        PROVE  FallbackInv'
    <3>. DEFINE c == [context EXCEPT !.redline_basis = reported]
    <3>1. EndsNode("success", c, reported, {})
      BY <1>1, <2>1 DEF EndsNode, Context, ListValue
    <3>. HIDE DEF c
    <3>2. QED BY <2>1, <2>2, <3>1, NodeEnds DEF c
  <2>3. ASSUME EndNode("error", context, reported, {"GENERATE_REDLINES"}) PROVE FallbackInv'
    <3>1. EndsNode("error", context, reported, {"GENERATE_REDLINES"})
      BY <1>1, <2>1 DEF EndsNode, StepType
    <3>2. QED BY <2>1, <2>3, <3>1, NodeEnds
  <2>4. QED BY <1>8, <2>2, <2>3 DEF RedlineGeneration
<1>9. QED BY <1>4, <1>5, <1>6, <1>7, <1>8 DEF TraditionalNode

-----------------------------------------------------------------------------
(* Both paths                                                              *)

\* Neither invariant mentions the breaker or who has answered.
LEMMA SameEngine ==
    ASSUME EngineInv, UNCHANGED <<query, pos, phase, status, context, result, lost>> PROVE EngineInv'
<1>1. plan' = plan /\ Finished' = Finished
  BY DEF plan, Finished
<1>2. ProcessingComplete' <=> ProcessingComplete
  BY DEF ProcessingComplete, Some
<1>3. QED
  BY <1>1, <1>2 DEF EngineInv, PlanTypeOK, LossInv, BasisInv, ResultInv, Noted, Get, QuietLosses

LEMMA SameFallback ==
    ASSUME FallbackInv, UNCHANGED <<context, result, lost, workflow>> PROVE FallbackInv'
BY DEF FallbackInv, workflow

LEMMA NextPaths == PathsInv /\ [ONext]_ovars => PathsInv'
<1>. SUFFICES ASSUME PathsInv, [ONext]_ovars PROVE PathsInv'
  OBVIOUS
<1>1. CASE PlanGoesOn \/ PlanAborts
  <2>1. EngineInv'
    BY <1>1, EngineStep DEF PlanGoesOn, PlanAborts, PathsInv
  <2>2. QED BY <1>1, <2>1 DEF PlanGoesOn, PlanAborts, PathsInv, NoAnswer, AtStart, workflow, EngineInv, PlanTypeOK
<1>2. CASE PlanningAnswers
  <2>1. EngineInv'
    BY <1>2, SameEngine DEF PlanningAnswers, PathsInv, vars
  <2>2. QED BY <1>2, <2>1 DEF PlanningAnswers, Answer, PathsInv, vars
<1>3. CASE PlanningRaises
  <2>1. AtStart' /\ reported' = "empty" /\ query' \in Queries
    BY <1>3 DEF PlanningRaises, PathsInv, AtStart, workflow
  <2>2. FallbackInv'
    BY <1>3, <2>1 DEF PlanningRaises, Restart, AtStart, FallbackInv, NodeNames, Context, EmptyContext,
                      ListValue, Band
  <2>3. QED BY <1>3, <2>1, <2>2 DEF PlanningRaises, PathsInv, NoAnswer
<1>4. CASE TraditionalNode
  <2>1. route = "traditional" /\ UNCHANGED <<query, route, answer>>
    BY <1>4 DEF TraditionalNode, ClauseExtraction, PolicyChecking, RiskCalculation, MitigationNode,
                RedlineGeneration, AtNode, EndNode
  <2>2. FallbackInv'
    BY <1>4, <2>1, NodeStep DEF PathsInv
  <2>3. QED BY <2>1, <2>2 DEF PathsInv, NoAnswer
<1>5. CASE TraditionalAnswers \/ TraditionalRaises
  <2>1. FallbackInv'
    BY <1>5, SameFallback DEF TraditionalAnswers, TraditionalRaises, PathsInv, vars
  <2>2. TraditionalComplete' <=> TraditionalComplete
    BY <1>5 DEF TraditionalAnswers, TraditionalRaises, TraditionalComplete, workflow
  <2>3. route' = "answered" /\ answer'.path = "traditional" /\ (answer'.complete => TraditionalComplete)
    BY <1>5 DEF TraditionalAnswers, TraditionalRaises, Answer
  <2>4. QED BY <1>5, <2>1, <2>2, <2>3 DEF TraditionalAnswers, TraditionalRaises, PathsInv, vars
<1>6. CASE UNCHANGED ovars \/ (BreakerChanges /\ UNCHANGED <<route, workflow, answer>>)
  <2>1. UNCHANGED <<query, pos, phase, status, context, result, lost, route, workflow, answer>>
    BY <1>6 DEF ovars, vars, BreakerChanges
  <2>2. EngineInv => EngineInv'
    BY <2>1, SameEngine
  <2>3. FallbackInv => FallbackInv'
    BY <2>1, SameFallback
  <2>4. TraditionalComplete' <=> TraditionalComplete
    BY <2>1 DEF TraditionalComplete, workflow
  <2>5. QED BY <2>1, <2>2, <2>3, <2>4 DEF PathsInv, AtStart, workflow
<1>7. QED BY <1>1, <1>2, <1>3, <1>4, <1>5, <1>6 DEF ONext

LEMMA Inductive == OSpec => []PathsInv
BY InitPaths, NextPaths, PTL DEF OSpec

LEMMA PathsAreHonest ==
    PathsInv => CompleteIsHonest /\ GoodGradeIsEarned /\ ResultAgreesWithItself
<1>. SUFFICES ASSUME PathsInv PROVE CompleteIsHonest /\ GoodGradeIsEarned /\ ResultAgreesWithItself
  OBVIOUS
<1>1. CASE EngineInv
  BY <1>1, ResultsAreHonest
<1>2. CASE FallbackInv
  BY <1>2 DEF FallbackInv, NoResult, CompleteIsHonest, GoodGradeIsEarned, ResultAgreesWithItself
<1>3. QED BY <1>1, <1>2 DEF PathsInv

\* For every set of queries, whether tools raise or not: a complete result of a
\* plan that validates has lost no work but quietly, clauses in the extraction
\* and what the tools of a mitigation that ended swallowed.
THEOREM CompleteIsAlwaysHonest == OSpec => []CompleteIsHonest
BY Inductive, PathsAreHonest, PTL

\* Nor has one with an A or a B.
THEOREM GoodGradesAreEarned == OSpec => []GoodGradeIsEarned
BY Inductive, PathsAreHonest, PTL

\* The score and the redlines of a complete result are of its violations.
THEOREM ResultsAgree == OSpec => []ResultAgreesWithItself
BY Inductive, PathsAreHonest, PTL

\* The traditional workflow is as honest, but for the two losses it names.
THEOREM FallbackIsAlwaysHonest == OSpec => []FallbackIsHonest
<1>1. PathsInv => FallbackIsHonest
  <2>. SUFFICES ASSUME PathsInv, answer.path = "traditional", answer.complete
                PROVE  /\ lost \subseteq {"EXTRACT_CLAUSES", "CUAD_MITIGATION"}
                       /\ context.redline_basis = reported
                       /\ context.risk = "scored"
    BY DEF FallbackIsHonest
  <2>1. FallbackInv /\ TraditionalComplete
    BY DEF PathsInv
  <2>2. /\ node_status["redline_generation"] = "success"
        /\ \A n \in NodeNames : node_status[n] \notin {"error", "partial"}
    BY <2>1, NodesInOrder DEF TraditionalComplete
  <2>3. node = 6
    BY <2>1, <2>2 DEF FallbackInv
  <2>4. QED BY <2>1, <2>2, <2>3 DEF FallbackInv, NodeNames, StepType
<1>2. QED BY <1>1, Inductive, PTL

-----------------------------------------------------------------------------
(* Types                                                                   *)

\* A step of the engine finishes the step at hand, or leaves results and losses.
LEMMA EngineFinishes ==
    ASSUME Engine \/ Abort
    PROVE  \/ /\ phase \in {"trying", "backoff"}
              /\ \E success \in BOOLEAN, isLost \in BOOLEAN : \E s, c : FinishStep(success, s, c, isLost)
           \/ UNCHANGED <<query, pos, results, breaker, lost>>
<1>1. CASE Execute
  <2>1. phase = "trying"
    BY <1>1 DEF Execute, ExtractClauses, CheckPolicies, AssessRisk, CuadMitigation, ValidateResults,
                GenerateRedlines, Trying
  <2>2. \E success \in BOOLEAN, isLost \in BOOLEAN : \E s, c : FinishStep(success, s, c, isLost)
    <3>1. CASE ExtractClauses
      BY <3>1 DEF ExtractClauses
    <3>2. CASE CheckPolicies
      <4>1. PICK o \in PolicyCheck(Get(context.clauses)) :
              FinishStep(TRUE, StepStatus(o.status), [context EXCEPT !.violations = o.violations],
                         o.status # "success")
        BY <3>2 DEF CheckPolicies
      <4>2. (o.status # "success") \in BOOLEAN
        OBVIOUS
      <4>3. QED BY <4>1, <4>2
    <3>3. CASE AssessRisk
      <4>1. PICK score \in {"scored", "error"} :
              FinishStep(TRUE, "success",
                         [context EXCEPT !.risk = score, !.risk_basis = Get(context.violations)],
                         score = "error")
        BY <3>3 DEF AssessRisk
      <4>2. (score = "error") \in BOOLEAN
        OBVIOUS
      <4>3. QED BY <4>1, <4>2
    <3>4. CASE CuadMitigation \/ ValidateResults \/ GenerateRedlines
      BY <3>4 DEF CuadMitigation, Swallowed, ValidateResults, GenerateRedlines
    <3>5. QED BY <1>1, <3>1, <3>2, <3>3, <3>4 DEF Execute
  <2>3. QED BY <2>1, <2>2
<1>2. CASE QuotaExhausted \/ TimesOut
  BY <1>2 DEF QuotaExhausted, TimesOut, StepFails
<1>3. CASE StepRaises
  BY <1>3 DEF StepRaises, StepFails
<1>4. CASE StartStep \/ Retry \/ Complete \/ Abort
  BY <1>4 DEF StartStep, Retry, Complete, Abort
<1>5. QED BY <1>1, <1>2, <1>3, <1>4 DEF Engine

ResultType == [complete : BOOLEAN, escalated : BOOLEAN, grade : {"none", "A", "B", "C", "D", "F"}]

LEMMA EngineCounts ==
    ASSUME TypeOK, Engine \/ Abort PROVE attempt' \in 0..MaxRetries /\ result' \in ResultType
<1>1. attempt \in 0..MaxRetries /\ result \in ResultType
  BY DEF TypeOK, ResultType
<1>2. CASE Execute \/ QuotaExhausted \/ TimesOut \/ Retry
  BY <1>1, <1>2 DEF Execute, ExtractClauses, CheckPolicies, AssessRisk, CuadMitigation, ValidateResults,
                    GenerateRedlines, QuotaExhausted, TimesOut, Retry, StepFails, FinishStep
<1>3. CASE StartStep
  BY <1>1, <1>3 DEF StartStep, MaxRetries
<1>4. CASE StepRaises
  <2>1. result' = result /\ (attempt' = attempt \/ (attempt # MaxRetries /\ attempt' = attempt + 1))
    BY <1>4 DEF StepRaises, StepFails, FinishStep
  <2>2. attempt' \in 0..MaxRetries
    BY <1>1, <2>1 DEF MaxRetries
  <2>3. QED BY <1>1, <2>1, <2>2
<1>5. \A complete, grounded, confident : Grade(complete, grounded, confident) \in {"A", "B", "C", "D", "F"}
  BY DEF Grade
<1>6. CASE Complete
  <2>1. ProcessingComplete \in BOOLEAN /\ Some("failed") \in BOOLEAN
    BY DEF ProcessingComplete, Some
  <2>2. QED BY <1>1, <1>5, <1>6, <2>1 DEF Complete, ResultType
<1>7. CASE Abort
  BY <1>1, <1>5, <1>7 DEF Abort, ResultType
<1>8. QED BY <1>2, <1>3, <1>4, <1>6, <1>7 DEF Engine

LEMMA EngineTypes ==
    ASSUME TypeOK, EngineInv, Engine \/ Abort PROVE TypeOK'
<1>1. EngineInv'
  BY EngineStep
<1>2. attempt' \in 0..MaxRetries /\ result' \in ResultType
  BY EngineCounts
<1>3. ASSUME phase \in {"trying", "backoff"}, NEW success \in BOOLEAN, NEW isLost \in BOOLEAN, NEW s, NEW c,
             FinishStep(success, s, c, isLost)
      PROVE  TypeOK'
  <2>1. TypesOf(plan) /\ pos \in 1..Len(plan) /\ Len(plan) \in Nat /\ plan' = plan
    BY <1>3, PlanTypes DEF EngineInv, PlanTypeOK, FinishStep, plan, TypesOf
  <2>2. step.type \in StepType
    BY <1>3, <2>1, StepAtHand DEF AtStep, StepType, EngineInv, PlanTypeOK
  <2>3. lost' \subseteq StepType
    BY <1>3, <2>2 DEF FinishStep, TypeOK
  <2>4. 1..pos' - 1 = 1..pos - 1 \cup {pos}
    BY <1>3, <2>1 DEF FinishStep
  <2>5. DOMAIN results' = {plan'[i].id : i \in 1..pos' - 1}
    BY <1>3, <2>1, <2>4 DEF FinishStep, TypeOK, step
  <2>6. \A id \in DOMAIN results' : results'[id] \in BOOLEAN
    BY <1>3 DEF FinishStep, TypeOK
  <2>7. breaker' \in BOOLEAN
    BY <1>3 DEF FinishStep, TypeOK
  <2>8. QED BY <1>1, <1>2, <2>3, <2>5, <2>6, <2>7 DEF TypeOK, EngineInv, PlanTypeOK, ResultType
<1>4. ASSUME UNCHANGED <<query, pos, results, breaker, lost>> PROVE TypeOK'
  <2>1. plan' = plan
    BY <1>4 DEF plan
  <2>2. QED BY <1>1, <1>2, <1>4, <2>1 DEF TypeOK, EngineInv, PlanTypeOK, ResultType
<1>5. QED BY <1>3, <1>4, EngineFinishes

\* Every variable of the engine keeps its type, whichever path is in charge.
THEOREM TypeCorrect == OSpec => []TypeOK
<1>1. OInit => TypeOK
  <2>. SUFFICES ASSUME OInit PROVE TypeOK
    OBVIOUS
  <2>1. EngineInv
    BY InitEngine DEF OInit
  <2>2. results = << >> /\ pos = 1
    BY DEF OInit, Init
  <2>3. DOMAIN results = {plan[i].id : i \in 1..pos - 1}
    BY <2>2
  <2>4. QED BY <2>1, <2>2, <2>3 DEF OInit, Init, TypeOK, EngineInv, PlanTypeOK, NoResult, MaxRetries
<1>2. PathsInv /\ TypeOK /\ [ONext]_ovars => TypeOK'
  <2>. SUFFICES ASSUME PathsInv, TypeOK, [ONext]_ovars PROVE TypeOK'
    OBVIOUS
  <2>1. CASE PlanGoesOn \/ PlanAborts
    BY <2>1, EngineTypes DEF PlanGoesOn, PlanAborts, PathsInv
  <2>2. ASSUME UNCHANGED <<query, pos, phase, attempt, results, status, result>>,
               context' \in Context, lost' \subseteq StepType, breaker' \in BOOLEAN
        PROVE  TypeOK'
    <3>1. plan' = plan
      BY <2>2 DEF plan
    <3>2. QED BY <2>2, <3>1 DEF TypeOK
  <2>3. CASE PlanningAnswers \/ TraditionalAnswers \/ TraditionalRaises \/ UNCHANGED ovars
    BY <2>2, <2>3 DEF PlanningAnswers, TraditionalAnswers, TraditionalRaises, ovars, vars, TypeOK
  <2>4. CASE BreakerChanges
    BY <2>2, <2>4 DEF BreakerChanges, TypeOK
  <2>5. CASE TraditionalNode
    <3>1. UNCHANGED <<query, pos, phase, attempt, results, status, breaker, result, route>> /\ route = "traditional"
      BY <2>5 DEF TraditionalNode, ClauseExtraction, PolicyChecking, RiskCalculation, MitigationNode,
                  RedlineGeneration, AtNode, EndNode
    <3>2. FallbackInv'
      BY <2>5, <3>1, NodeStep DEF PathsInv
    <3>3. QED BY <2>2, <3>1, <3>2 DEF FallbackInv, TypeOK
  <2>6. CASE PlanningRaises
    <3>1. results' = << >> /\ pos' = 1 /\ query' = query /\ breaker' = breaker
      BY <2>6 DEF PlanningRaises, Restart
    <3>2. DOMAIN results' = {plan'[i].id : i \in 1..pos' - 1}
      BY <3>1
    <3>3. Len(plan) \in Nat /\ plan' = plan
      BY <3>1, PlanTypes DEF TypesOf, plan, PathsInv
    <3>4. context' \in Context
      BY <2>6 DEF PlanningRaises, Restart, EmptyContext, Context, ListValue, Band
    <3>5. pos' \in 1..Len(plan') + 1 /\ attempt' \in 0..MaxRetries
      BY <2>6, <3>1, <3>3 DEF PlanningRaises, Restart, MaxRetries
    <3>6. QED BY <2>6, <3>1, <3>2, <3>4, <3>5 DEF PlanningRaises, Restart, TypeOK, NoResult
  <2>7. QED BY <2>1, <2>3, <2>4, <2>5, <2>6 DEF ONext
<1>3. QED BY <1>1, <1>2, Inductive, PTL DEF OSpec

-----------------------------------------------------------------------------
(* What Answers rests on: fairness of the orchestrator adds only that it     *)
(* goes on when it can.                                                      *)

\* The steps a plan's step waits for are earlier steps of the plan.
LEMMA DependenciesComeFirst ==
    ASSUME query \in Queries, NEW n \in 1..Len(plan)
    PROVE  plan[n].deps \subseteq {plan[i].id : i \in 1..n - 1}
<1>1. plan \in {SimplePlan, ComplexPlan}
  BY TwoPlans, QueriesAssumption DEF plan
<1>. DEFINE ids(k) == {plan[i].id : i \in 1..k - 1}
<1>2. ASSUME NEW k \in Nat, NEW i \in Nat, 1 <= i, i < k PROVE plan[i].id \in ids(k)
  BY <1>2
<1>3. CASE plan = SimplePlan
  <2>1. n \in {1, 2, 3, 4, 5}
    BY <1>3 DEF SimplePlan
  <2>2. /\ plan[1].deps = {} /\ plan[2].deps = {plan[1].id} /\ plan[3].deps = {plan[2].id}
        /\ plan[4].deps = {plan[3].id} /\ plan[5].deps = {plan[4].id}
    BY <1>3 DEF SimplePlan, ExecutionStep
  <2>. HIDE DEF ids
  <2>3. plan[n].deps \subseteq ids(n)
    BY <1>2, <2>1, <2>2
  <2>4. QED BY <2>3 DEF ids
<1>4. CASE plan = ComplexPlan
  <2>1. n \in {1, 2, 3, 4, 5, 6}
    BY <1>4 DEF ComplexPlan
  <2>2. /\ plan[1].deps = {} /\ plan[2].deps = {plan[1].id} /\ plan[3].deps = {plan[1].id}
        /\ plan[4].deps = {plan[2].id, plan[3].id} /\ plan[5].deps = {plan[4].id}
        /\ plan[6].deps = {plan[5].id}
    BY <1>4 DEF ComplexPlan, ExecutionStep
  <2>. HIDE DEF ids
  <2>3. plan[n].deps \subseteq ids(n)
    BY <1>2, <2>1, <2>2
  <2>4. QED BY <2>3 DEF ids
<1>5. QED BY <1>1, <1>3, <1>4

\* Whatever the query and however its steps ended, _wait_for_dependencies, which
\* no timeout covers, finds every result it polls for at its first look.
THEOREM NeverWaitsForAResult ==
    OSpec => [](phase = "waiting" /\ pos <= Len(plan) => step.deps \subseteq DOMAIN results)
<1>1. TypeOK => (phase = "waiting" /\ pos <= Len(plan) => step.deps \subseteq DOMAIN results)
  <2>. SUFFICES ASSUME TypeOK, pos <= Len(plan) PROVE step.deps \subseteq DOMAIN results
    OBVIOUS
  <2>1. query \in Queries /\ DOMAIN results = {plan[i].id : i \in 1..pos - 1} /\ pos \in 1..Len(plan) + 1
    BY DEF TypeOK
  <2>2. Len(plan) \in Nat
    BY <2>1, PlanTypes DEF TypesOf
  <2>3. QED BY <2>1, <2>2, DependenciesComeFirst DEF step
<1>2. QED BY <1>1, TypeCorrect, PTL

\* The most steps an analysis still takes: each step of the plan at most six, its
\* start, three attempts and two retries; then the result and its answer, or the
\* nodes of the workflow that is fallen back to and theirs.
AttemptsLeft ==
    CASE phase = "waiting" -> 6
      [] phase = "trying"  -> 5 - 2 * attempt
      [] phase = "backoff" -> 6 - 2 * attempt
StepsLeft ==
    CASE route = "answered"                      -> 0
      [] route = "traditional"                   -> Len(Nodes) + 2 - node
      [] route = "planning" /\ phase = "done"    -> Len(Nodes) + 2
      [] route = "planning" /\ phase # "done"    -> Len(Nodes) + 3 + 6 * (Len(plan) - pos) + AttemptsLeft

\* A retry follows an attempt.
RetryInv == attempt \in 0..2 /\ (phase = "backoff" => attempt # 0)

\* How the engine goes on: each of its steps uses up an attempt, or ends the step
\* of the plan, or the plan.
LEMMA EngineAdvances ==
    ASSUME EngineInv, RetryInv, Engine \/ Abort
    PROVE  /\ RetryInv' /\ phase # "done" /\ query' = query
           /\ \/ pos' = pos /\ phase' = "done" /\ (phase = "waiting" \/ pos > Len(plan))
              \/ phase = "waiting" /\ phase' = "trying" /\ pos' = pos /\ pos <= Len(plan) /\ attempt' = 0
              \/ phase = "trying" /\ phase' = "backoff" /\ pos' = pos /\ attempt' = attempt + 1
              \/ phase = "backoff" /\ phase' = "trying" /\ pos' = pos /\ attempt' = attempt
              \/ phase \in {"trying", "backoff"} /\ phase' = "waiting" /\ pos' = pos + 1
<1>. USE DEF RetryInv
<1>1. ASSUME NEW success, NEW s, NEW c, NEW isLost, FinishStep(success, s, c, isLost)
      PROVE  /\ RetryInv' /\ query' = query
             /\ phase' = "waiting" /\ pos' = pos + 1
  BY <1>1 DEF FinishStep
<1>2. CASE Execute
  <2>1. phase = "trying"
    BY <1>2 DEF Execute, ExtractClauses, CheckPolicies, AssessRisk, CuadMitigation, ValidateResults,
                GenerateRedlines, Trying
  <2>2. \E success, s, c, isLost : FinishStep(success, s, c, isLost)
    BY <1>2 DEF Execute, ExtractClauses, CheckPolicies, AssessRisk, CuadMitigation, ValidateResults,
                GenerateRedlines
  <2>3. QED BY <1>1, <2>1, <2>2
<1>3. CASE phase \in {"trying", "backoff"} /\ StepFails
  BY <1>1, <1>3 DEF StepFails
<1>4. CASE StartStep \/ Retry \/ Complete \/ Abort
  <2>1. CASE StartStep
    BY <2>1 DEF StartStep
  <2>2. CASE Retry
    <3>1. attempt \in 0..2 /\ phase = "backoff" /\ phase' = "trying"
          /\ pos' = pos /\ attempt' = attempt /\ query' = query
      BY <2>2 DEF Retry
    <3>2. QED BY <3>1
  <2>3. CASE Complete \/ Abort
    <3>1. /\ attempt' = attempt /\ phase = "waiting" /\ phase' = "done"
          /\ pos' = pos /\ query' = query
      BY <2>3 DEF Complete, Abort
    <3>2. QED BY <3>1
  <2>4. QED BY <1>4, <2>1, <2>2, <2>3
<1>5. CASE StepRaises
  <2>1. CASE attempt = MaxRetries
    BY <1>3, <1>5, <2>1 DEF StepRaises
  <2>2. CASE attempt # MaxRetries
    BY <1>5, <2>2 DEF StepRaises, MaxRetries
  <2>3. QED BY <2>1, <2>2
<1>6. CASE QuotaExhausted \/ TimesOut
  BY <1>3, <1>6 DEF QuotaExhausted, TimesOut
<1>7. QED BY <1>2, <1>4, <1>5, <1>6 DEF Engine

\* The variables the orchestrator moves.
course == <<query, pos, phase, attempt, results, status, context, result, lost, route, workflow, answer>>

LEMMA OrchestratorAdvances ==
    ASSUME PathsInv, RetryInv, ONext
    PROVE  RetryInv' /\ (StepsLeft' < StepsLeft \/ UNCHANGED course)
<1>1. Len(Nodes) = 5 /\ Len(plan) \in {5, 6}
  BY NodesInOrder, PlanTypes DEF PathsInv, TypesOf
<1>2. CASE PlanGoesOn \/ PlanAborts
  <2>1. EngineInv /\ route = "planning" /\ route' = route /\ (Engine \/ Abort)
    BY <1>2 DEF PlanGoesOn, PlanAborts, PathsInv
  <2>2. /\ RetryInv' /\ phase # "done" /\ query' = query
        /\ \/ pos' = pos /\ phase' = "done" /\ (phase = "waiting" \/ pos > Len(plan))
           \/ phase = "waiting" /\ phase' = "trying" /\ pos' = pos /\ pos <= Len(plan) /\ attempt' = 0
           \/ phase = "trying" /\ phase' = "backoff" /\ pos' = pos /\ attempt' = attempt + 1
           \/ phase = "backoff" /\ phase' = "trying" /\ pos' = pos /\ attempt' = attempt
           \/ phase \in {"trying", "backoff"} /\ phase' = "waiting" /\ pos' = pos + 1
    BY <2>1, EngineAdvances
  <2>3. plan' = plan /\ Nodes' = Nodes
    BY <2>2 DEF plan, Nodes
  <2>4. /\ pos \in 1..Len(plan) + 1 /\ phase \in {"waiting", "trying", "backoff", "done"}
        /\ phase \in {"trying", "backoff"} => pos <= Len(plan)
    BY <2>1 DEF EngineInv, PlanTypeOK
  <2>5. attempt \in {0, 1, 2} /\ (phase = "backoff" => attempt # 0)
    BY DEF RetryInv
  <2>6. StepsLeft = 8 + 6 * (Len(plan) - pos) + AttemptsLeft
    BY <1>1, <2>1, <2>2 DEF StepsLeft
  <2>7. StepsLeft' = IF phase' = "done" THEN 7 ELSE 8 + 6 * (Len(plan) - pos') + AttemptsLeft'
    BY <1>1, <2>1, <2>3 DEF StepsLeft
  <2>8. /\ phase = "waiting" => AttemptsLeft = 6
        /\ phase = "trying" => AttemptsLeft = 5 - 2 * attempt
        /\ phase = "backoff" => AttemptsLeft = 6 - 2 * attempt
    BY DEF AttemptsLeft
  <2>9. /\ phase' = "waiting" => AttemptsLeft' = 6
        /\ phase' = "trying" => AttemptsLeft' = 5 - 2 * attempt'
        /\ phase' = "backoff" => AttemptsLeft' = 6 - 2 * attempt'
    BY DEF AttemptsLeft
  <2>10. StepsLeft' < StepsLeft
    <3>. DEFINE rest == 6 * (Len(plan) - pos)
    <3>1. rest \in Int /\ rest >= -6 /\ (pos <= Len(plan) => rest >= 0)
      BY <1>1, <2>4
    <3>2. pos' = pos => 6 * (Len(plan) - pos') = rest
      OBVIOUS
    <3>3. pos' = pos + 1 => 6 * (Len(plan) - pos') = rest - 6
      BY <1>1, <2>4
    <3>. HIDE DEF rest
    <3>4. StepsLeft = 8 + rest + AttemptsLeft
      BY <2>6 DEF rest
    <3>5. CASE pos' = pos /\ phase' = "done" /\ (phase = "waiting" \/ pos > Len(plan))
      <4>1. phase = "waiting" /\ StepsLeft' = 7
        BY <1>1, <2>2, <2>4, <2>7, <3>5
      <4>2. QED BY <2>8, <3>1, <3>4, <4>1
    <3>6. CASE phase = "waiting" /\ phase' = "trying" /\ pos' = pos /\ pos <= Len(plan) /\ attempt' = 0
      <4>1. StepsLeft' = 8 + rest + 5 /\ StepsLeft = 8 + rest + 6
        BY <2>7, <2>8, <2>9, <3>2, <3>4, <3>6
      <4>2. QED BY <3>1, <4>1
    <3>7. CASE phase = "trying" /\ phase' = "backoff" /\ pos' = pos /\ attempt' = attempt + 1
      <4>1. StepsLeft' = 8 + rest + (6 - 2 * (attempt + 1)) /\ StepsLeft = 8 + rest + (5 - 2 * attempt)
        BY <2>7, <2>8, <2>9, <3>2, <3>4, <3>7
      <4>2. QED BY <2>5, <3>1, <4>1
    <3>8. CASE phase = "backoff" /\ phase' = "trying" /\ pos' = pos /\ attempt' = attempt
      <4>1. StepsLeft' = 8 + rest + (5 - 2 * attempt) /\ StepsLeft = 8 + rest + (6 - 2 * attempt)
        BY <2>7, <2>8, <2>9, <3>2, <3>4, <3>8
      <4>2. QED BY <2>5, <3>1, <4>1
    <3>9. CASE phase \in {"trying", "backoff"} /\ phase' = "waiting" /\ pos' = pos + 1
      <4>1. StepsLeft' = 8 + (rest - 6) + 6
        BY <2>7, <2>9, <3>3, <3>9
      <4>2. AttemptsLeft \in Int /\ AttemptsLeft >= 1
        BY <2>5, <2>8, <3>9
      <4>3. QED BY <3>1, <3>4, <4>1, <4>2
    <3>10. QED BY <2>2, <3>5, <3>6, <3>7, <3>8, <3>9
  <2>11. QED BY <2>2, <2>10
<1>3. CASE PlanningAnswers
  <2>1. phase = "done" /\ route = "planning" /\ route' = "answered" /\ UNCHANGED <<attempt, phase>>
    BY <1>3 DEF PlanningAnswers, Answer, vars
  <2>2. QED BY <1>1, <2>1 DEF StepsLeft, RetryInv
<1>4. CASE PlanningRaises
  <2>1. /\ route = "planning" /\ route' = "traditional" /\ node' = node /\ node = 1
        /\ attempt' = 0 /\ phase' = "waiting"
        /\ phase = "done" \/ (phase = "waiting" /\ pos = 1)
    BY <1>4 DEF PlanningRaises, Restart, PathsInv, AtStart, workflow
  <2>2. StepsLeft' = 6
    BY <1>1, <2>1 DEF StepsLeft, Nodes
  <2>3. StepsLeft >= 7
    BY <1>1, <2>1 DEF StepsLeft, AttemptsLeft
  <2>4. QED BY <1>1, <2>1, <2>2, <2>3 DEF RetryInv, StepsLeft, AttemptsLeft
<1>5. CASE TraditionalNode
  <2>1. /\ route = "traditional" /\ route' = route /\ node' = node + 1
        /\ UNCHANGED <<attempt, phase>>
    BY <1>5 DEF TraditionalNode, ClauseExtraction, PolicyChecking, RiskCalculation, MitigationNode,
                RedlineGeneration, AtNode, EndNode
  <2>2. node \in 1..6
    BY <2>1 DEF PathsInv, FallbackInv
  <2>3. QED BY <1>1, <2>1, <2>2 DEF StepsLeft, RetryInv, Nodes
<1>6. CASE TraditionalAnswers \/ TraditionalRaises
  <2>1. route = "traditional" /\ route' = "answered" /\ UNCHANGED <<attempt, phase>>
    BY <1>6 DEF TraditionalAnswers, TraditionalRaises, Answer, vars
  <2>2. node \in 1..6
    BY <2>1 DEF PathsInv, FallbackInv
  <2>3. QED BY <1>1, <2>1, <2>2 DEF StepsLeft, RetryInv
<1>7. CASE BreakerChanges /\ UNCHANGED <<route, workflow, answer>>
  BY <1>7 DEF BreakerChanges, course, RetryInv
<1>8. QED BY <1>2, <1>3, <1>4, <1>5, <1>6, <1>7 DEF ONext

LEMMA RetriesFollowAttempts == OSpec => [](PathsInv /\ RetryInv)
<1>1. OInit => PathsInv /\ RetryInv
  BY InitPaths DEF OInit, Init, RetryInv
<1>2. PathsInv /\ RetryInv /\ [ONext]_ovars => RetryInv'
  BY OrchestratorAdvances DEF ovars, vars, RetryInv
<1>3. QED BY <1>1, <1>2, NextPaths, PTL DEF OSpec

\* An analysis takes at most 44 steps: six for each of at most six steps of a
\* plan, its result, and the fallback's six or its own answer.
THEOREM AnalysesAreBounded == OSpec => [](StepsLeft \in 0..44)
<1>1. PathsInv /\ RetryInv => StepsLeft \in 0..44
  <2>. SUFFICES ASSUME PathsInv, RetryInv PROVE StepsLeft \in 0..44
    OBVIOUS
  <2>1. Len(Nodes) = 5 /\ Len(plan) \in {5, 6}
    BY NodesInOrder, PlanTypes DEF PathsInv, TypesOf
  <2>2. CASE route = "answered"
    BY <2>2 DEF StepsLeft
  <2>3. CASE route = "traditional"
    <3>1. node \in 1..6
      BY <2>3 DEF PathsInv, FallbackInv
    <3>2. QED BY <2>1, <2>3, <3>1 DEF StepsLeft
  <2>4. CASE route = "planning"
    <3>1. /\ pos \in 1..Len(plan) + 1 /\ phase \in {"waiting", "trying", "backoff", "done"}
          /\ phase \in {"trying", "backoff"} => pos <= Len(plan)
      BY <2>4 DEF PathsInv, EngineInv, PlanTypeOK
    <3>2. attempt \in {0, 1, 2}
      BY DEF RetryInv
    <3>3. CASE phase = "done"
      BY <2>1, <2>4, <3>3 DEF StepsLeft
    <3>4. CASE phase # "done"
      <4>1. AttemptsLeft \in 0..6
        BY <3>1, <3>2, <3>4 DEF AttemptsLeft
      <4>. DEFINE rest == 6 * (Len(plan) - pos)
      <4>2. rest \in Int /\ rest >= -6 /\ rest <= 30
        <5>. HIDE DEF rest
        <5>1. Len(plan) \in Int /\ Len(plan) <= 6
          <6>1. CASE Len(plan) = 5
            BY <6>1
          <6>2. CASE Len(plan) = 6
            BY <6>2
          <6>3. QED BY <2>1, <6>1, <6>2
        <5>2. pos \in 1..Len(plan) + 1
          BY <3>1
        <5>3. pos \in Int /\ 1 <= pos /\ pos <= Len(plan) + 1
          BY <5>1, <5>2
        <5>4. rest \in Int /\ -6 <= rest /\ rest <= 30
          BY <5>1, <5>3 DEF rest
        <5>5. QED BY <5>4
      <4>3. StepsLeft = 8 + rest + AttemptsLeft
        BY <2>1, <2>4, <3>4 DEF StepsLeft
      <4>. HIDE DEF rest
      <4>4. QED BY <4>1, <4>2, <4>3
    <3>5. QED BY <3>3, <3>4
  <2>5. QED BY <2>2, <2>3, <2>4 DEF PathsInv
<1>2. QED BY <1>1, RetriesFollowAttempts, PTL

\* Whatever the tools do, every step of the orchestrator is one of those; the
\* breaker may change as often as it likes and gives it no more to do.
THEOREM EveryStepCounts == OSpec => [][StepsLeft' < StepsLeft \/ UNCHANGED course]_ovars
<1>1. PathsInv /\ RetryInv /\ [ONext]_ovars => [StepsLeft' < StepsLeft \/ UNCHANGED course]_ovars
  BY OrchestratorAdvances
<1>2. QED BY <1>1, RetriesFollowAttempts, PTL DEF OSpec

-----------------------------------------------------------------------------
(* The stream                                                              *)

\* The messages that tell the status the analysis keeps for a step.
Known == {m \in Messages : m[1] \in StepType /\ status[m[1]] = m[2]}

InCharge == route = "planning" \/ answer.path = "planning"

\* A reader who was told of the start was told everything since.
StreamInv ==
    /\ stream \in {"none", "open", "ended"}
    /\ told \subseteq Messages
    /\ stream = "none" => told = {}
    /\ InCharge =>
         /\ Steps(told) \subseteq Known
         /\ <<"workflow", "started">> \in told => Steps(told) = Known
         /\ stream = "ended" => phase = "done"
         /\ <<"workflow", "failed">> \in told => phase = "done" /\ ~result.complete

\* A step of the engine finishes the step at hand or no step.
LEMMA EngineMoves ==
    ASSUME EngineInv, Engine \/ Abort
    PROVE  /\ query' = query /\ phase # "done" /\ pos \in Nat
           /\ \/ pos' = pos /\ status' = status
              \/ /\ pos' = pos + 1 /\ phase' = "waiting" /\ phase # "waiting"
                 /\ step.type \in StepType
                 /\ status[step.type] = "none"
                 /\ status'[step.type] \in {"success", "partial", "failed"}
                 /\ \A t \in StepType \ {step.type} : status'[t] = status[t]
<1>1. pos \in Nat /\ status \in [StepType -> {"none", "success", "partial", "failed"}]
  <2>1. Len(plan) \in {5, 6}
    BY PlanTypes DEF EngineInv, PlanTypeOK, TypesOf
  <2>2. QED BY <2>1 DEF EngineInv, PlanTypeOK
<1>2. ASSUME NEW success, NEW s, NEW c, NEW isLost, FinishStep(success, s, c, isLost),
             phase \in {"trying", "backoff"}, s \in {"success", "partial", "failed"}
      PROVE  /\ query' = query /\ pos' = pos + 1 /\ phase' = "waiting" /\ phase # "waiting"
             /\ step.type \in StepType
             /\ status[step.type] = "none"
             /\ status'[step.type] \in {"success", "partial", "failed"}
             /\ \A t \in StepType \ {step.type} : status'[t] = status[t]
  <2>1. step.type \in StepType /\ step.type \notin Finished
    BY <1>2, StepAtHand DEF EngineInv, PlanTypeOK, AtStep, StepType
  <2>2. status[step.type] = "none"
    BY <2>1 DEF EngineInv, LossInv
  <2>3. QED BY <1>1, <1>2, <2>1, <2>2 DEF FinishStep
<1>3. CASE Execute
  <2>1. phase = "trying"
    BY <1>3 DEF Execute, ExtractClauses, CheckPolicies, AssessRisk, CuadMitigation, ValidateResults,
                GenerateRedlines, Trying
  <2>2. \E success \in BOOLEAN, s \in {"success", "partial", "failed"}, c \in {context'}, isLost \in BOOLEAN :
            FinishStep(success, s, c, isLost)
    BY <1>3 DEF Execute, ExtractClauses, CheckPolicies, AssessRisk, CuadMitigation, ValidateResults,
                GenerateRedlines, FinishStep, PolicyCheck, StepStatus
  <2>3. QED BY <1>1, <1>2, <2>1, <2>2
<1>4. CASE phase \in {"trying", "backoff"} /\ StepFails
  BY <1>1, <1>2, <1>4 DEF StepFails
<1>5. CASE StartStep \/ Retry \/ Complete \/ Abort
  BY <1>1, <1>5 DEF StartStep, Retry, Complete, Abort
<1>6. CASE StepRaises \/ QuotaExhausted \/ TimesOut
  BY <1>1, <1>4, <1>6 DEF StepRaises, QuotaExhausted, TimesOut
<1>7. QED BY <1>3, <1>5, <1>6 DEF Engine

\* What is published is what becomes known, with the start before everything
\* and the end at the end.
LEMMA PublishedIsKnown ==
    ASSUME EngineInv, Engine \/ Abort, NEW ending \in {"complete", "failed"}
    PROVE  LET p == Published(ending) IN
           /\ p \subseteq Messages
           /\ Known' = Known \cup Steps(p)
           /\ <<"workflow", "started">> \in p => Known = {}
           /\ p \cap Terminal # {} => phase' = "done"
           /\ <<"workflow", "failed">> \in p => phase' = "done" /\ ending = "failed"
<1>. DEFINE p == Published(ending)
            start == IF pos = 1 /\ phase = "waiting" THEN {<<"workflow", "started">>} ELSE {}
            end == IF phase' = "done" THEN {<<"workflow", ending>>} ELSE {}
            news == IF pos' > pos THEN {StepMessage} ELSE {}
<1>1. p = start \cup news \cup end
  BY DEF Published
<1>2. "workflow" \notin StepType
  BY DEF StepType
<1>3. start \subseteq Messages /\ end \subseteq Messages /\ Steps(start) = {} /\ Steps(end) = {}
  BY <1>2 DEF Messages, Steps
<1>4. /\ news \subseteq Messages /\ Steps(news) = news /\ Known' = Known \cup news
      /\ \A m \in news : m[1] # "workflow"
  <2>1. CASE pos' = pos /\ status' = status
    <3>1. news = {}
      BY <2>1, EngineMoves
    <3>2. QED BY <2>1, <3>1 DEF Known, Steps
  <2>2. CASE /\ pos' = pos + 1
             /\ step.type \in StepType
             /\ status[step.type] = "none"
             /\ status'[step.type] \in {"success", "partial", "failed"}
             /\ \A t \in StepType \ {step.type} : status'[t] = status[t]
    <3>1. news = {<<step.type, status'[step.type]>>}
      BY <2>2, EngineMoves DEF StepMessage
    <3>2. news \subseteq Messages /\ Steps(news) = news /\ \A m \in news : m[1] # "workflow"
      BY <1>2, <2>2, <3>1 DEF Messages, Steps
    <3>3. \A m \in Messages : m \in Known' <=> m \in Known \/ m \in news
      <4>1. SUFFICES ASSUME NEW m \in Messages PROVE m \in Known' <=> m \in Known \/ m \in news
        OBVIOUS
      <4>2. m = <<m[1], m[2]>> /\ (m[1] \in StepType => m[2] # "none")
        BY <1>2 DEF Messages
      <4>3. CASE m[1] \notin StepType
        BY <2>2, <3>1, <4>3 DEF Known
      <4>4. CASE m[1] \in StepType \ {step.type}
        BY <2>2, <3>1, <4>4 DEF Known
      <4>5. CASE m[1] = step.type
        <5>1. m \in Known' <=> status'[step.type] = m[2]
          BY <2>2, <4>5 DEF Known
        <5>2. m \notin Known
          BY <2>2, <4>2, <4>5 DEF Known
        <5>3. m \in news <=> status'[step.type] = m[2]
          BY <3>1, <4>2, <4>5
        <5>4. QED BY <5>1, <5>2, <5>3
      <4>6. QED BY <4>3, <4>4, <4>5
    <3>4. QED BY <3>2, <3>3 DEF Known
  <2>3. QED BY <2>1, <2>2, EngineMoves
<1>5. <<"workflow", "started">> \in p => Known = {}
  <2>1. ASSUME <<"workflow", "started">> \in p PROVE pos = 1
    <3>1. <<"workflow", "started">> \notin news
      BY <1>4
    <3>2. <<"workflow", "started">> \notin end
      OBVIOUS
    <3>3. QED BY <1>1, <2>1, <3>1, <3>2
  <2>2. ASSUME pos = 1 PROVE \A t \in StepType : status[t] = "none"
    <3>1. Finished = {}
      BY <2>2 DEF Finished
    <3>2. QED BY <3>1 DEF EngineInv, LossInv
  <2>3. QED BY <2>1, <2>2 DEF Known, Messages
<1>6. p \cap Terminal # {} => phase' = "done"
  BY <1>1, <1>4 DEF Terminal
<1>7. <<"workflow", "failed">> \in p => phase' = "done" /\ ending = "failed"
  BY <1>1, <1>4
<1>8. p \subseteq Messages /\ Known' = Known \cup Steps(p)
  BY <1>1, <1>3, <1>4 DEF Steps
<1>9. QED BY <1>5, <1>6, <1>7, <1>8

LEMMA PublishStep ==
    ASSUME EngineInv, StreamInv, route = "planning", UNCHANGED <<route, answer>>,
           NEW ending \in {"complete", "failed"}, Engine \/ Abort,
           ending = "failed" => ~result'.complete /\ phase' = "done",
           Publish(Published(ending))
    PROVE  StreamInv'
<1>. DEFINE p == Published(ending)
<1>1. /\ p \subseteq Messages
      /\ Known' = Known \cup Steps(p)
      /\ <<"workflow", "started">> \in p => Known = {}
      /\ p \cap Terminal # {} => phase' = "done"
      /\ <<"workflow", "failed">> \in p => phase' = "done" /\ ending = "failed"
  BY PublishedIsKnown
<1>2. Publish(p)
  OBVIOUS
<1>. HIDE DEF p
<1>3. InCharge /\ InCharge' /\ phase # "done"
  BY EngineMoves DEF InCharge
<1>4. CASE stream = "open" /\ told' = told \cup p /\ stream' = IF p \cap Terminal # {} THEN "ended" ELSE "open"
  <2>1. Steps(told \cup p) = Steps(told) \cup Steps(p)
    BY DEF Steps
  <2>2. Steps(told) \subseteq Known /\ (<<"workflow", "started">> \in told => Steps(told) = Known)
        /\ <<"workflow", "failed">> \notin told
    BY <1>3 DEF StreamInv
  <2>3. Steps(told') \subseteq Known' /\ (<<"workflow", "started">> \in told' => Steps(told') = Known')
    BY <1>1, <1>4, <2>1, <2>2
  <2>4. <<"workflow", "failed">> \in told' => phase' = "done" /\ ~result'.complete
    BY <1>1, <1>4, <2>2
  <2>5. QED BY <1>1, <1>4, <2>3, <2>4 DEF StreamInv
<1>5. CASE stream = "open" /\ told' = {} /\ UNCHANGED stream
  BY <1>5 DEF StreamInv, Steps
<1>6. CASE stream # "open" /\ UNCHANGED channel
  <2>1. stream = "none" /\ told = {}
    BY <1>3, <1>6 DEF StreamInv
  <2>2. QED BY <1>6, <2>1 DEF StreamInv, Steps, channel
<1>7. QED BY <1>2, <1>4, <1>5, <1>6 DEF Publish

LEMMA ReadersOnlyRead == [PNext]_pvars => [ONext]_ovars
BY DEF PNext, POrchestrate, ONext, Subscribe, Unfollow, pvars

\* Readers change nothing of the run: the theorems above hold of it with them.
THEOREM ReadersChangeNothing == PSpec => OSpec
<1>1. PInit => OInit
  BY DEF PInit
<1>2. QED BY <1>1, ReadersOnlyRead, PTL DEF PSpec, OSpec

LEMMA StreamStep == PathsInv /\ StreamInv /\ [PNext]_pvars => StreamInv'
<1>. SUFFICES ASSUME PathsInv, StreamInv, [PNext]_pvars PROVE StreamInv'
  OBVIOUS
<1>1. CASE PlanGoesOn /\ Publish(Published("complete"))
  <2>1. EngineInv /\ Engine /\ route = "planning" /\ UNCHANGED <<route, answer>>
    BY <1>1 DEF PlanGoesOn, PathsInv
  <2>2. QED BY <1>1, <2>1, PublishStep
<1>2. CASE PlanAborts /\ Publish(Published("failed"))
  <2>1. /\ EngineInv /\ Abort /\ route = "planning" /\ UNCHANGED <<route, answer>>
        /\ ~result'.complete /\ phase' = "done"
    BY <1>2 DEF PlanAborts, Abort, PathsInv
  <2>2. QED BY <1>2, <2>1, PublishStep
<1>3. CASE PlanningRaises /\ told' = {} /\ UNCHANGED stream
  BY <1>3 DEF PlanningRaises, PathsInv, StreamInv, InCharge, NoAnswer
<1>4. CASE (TraditionalNode \/ TraditionalAnswers \/ TraditionalRaises) /\ UNCHANGED channel
  <2>1. ~InCharge'
    BY <1>4 DEF TraditionalNode, ClauseExtraction, PolicyChecking, RiskCalculation, MitigationNode,
                RedlineGeneration, AtNode, EndNode, TraditionalAnswers, TraditionalRaises, Answer,
                InCharge, PathsInv, NoAnswer
  <2>2. QED BY <1>4, <2>1 DEF StreamInv, channel
<1>5. CASE PlanningAnswers /\ UNCHANGED channel
  BY <1>5 DEF PlanningAnswers, vars, channel, StreamInv, InCharge, Known
<1>6. CASE \/ UNCHANGED pvars \/ Subscribe \/ Unfollow
           \/ BreakerChanges /\ UNCHANGED <<route, workflow, answer, channel>>
  <2>1. UNCHANGED <<route, answer, status, phase, result>>
    BY <1>6 DEF pvars, ovars, vars, BreakerChanges, Subscribe, Unfollow
  <2>2. Known' = Known /\ InCharge' = InCharge
    BY <2>1 DEF Known, InCharge
  <2>3. \/ UNCHANGED channel
        \/ stream = "none" /\ stream' = "open" /\ told' = told
        \/ stream' = "none" /\ told' = {}
    BY <1>6 DEF pvars, Subscribe, Unfollow
  <2>4. QED BY <2>1, <2>2, <2>3 DEF StreamInv, channel, Steps
<1>7. QED BY <1>1, <1>2, <1>3, <1>4, <1>5, <1>6 DEF PNext, POrchestrate

\* Whoever watches, whenever, and whatever is lost: a stream tells the truth.
THEOREM StreamsTellTheRun == PSpec => []StreamTellsTheRun
<1>1. PInit => PathsInv /\ StreamInv
  BY InitPaths DEF PInit, StreamInv, Steps
<1>2. PathsInv /\ StreamInv /\ [PNext]_pvars => (PathsInv /\ StreamInv)'
  BY NextPaths, ReadersOnlyRead, StreamStep
<1>3. PathsInv /\ StreamInv => StreamTellsTheRun
  BY DEF StreamInv, StreamTellsTheRun, InCharge, Known
<1>4. QED BY <1>1, <1>2, <1>3, PTL DEF PSpec


-----------------------------------------------------------------------------
(* Mitigation *)

\* Every analysis has its own of everything.
OwnInv ==
    /\ DOMAIN job = Analyses /\ DOMAIN stage = Analyses /\ DOMAIN method = Analyses
    /\ DOMAIN deviations = Analyses /\ DOMAIN jurisdiction = Analyses /\ DOMAIN whole = Analyses
    /\ DOMAIN loaded = Analyses /\ DOMAIN rated = Analyses

\* Some of the deviations of these clauses, or all of them.
DeviationsOf(clauses, m, ds, all) ==
    /\ ds \subseteq Deviations(clauses, m)
    /\ all => ds = Deviations(clauses, m)

\* An entry of the cache answers what its key asks, as the tool that fills it does.
EntryInv ==
    \A e \in cache :
        /\ e.key[1] = "deviations" => DeviationsOf(e.key[2], "optimized_phase3", e.value, e.whole)
        /\ e.key[1] = "jurisdiction" => e.value = Adaptation(e.key[2], "optimized_phase3")

\* What the tools have found for an analysis once it is past them.
Answered(a) ==
    /\ stage[a] \in {"jurisdiction", "precedents", "rate", "done"} =>
          DeviationsOf(ClausesOf(a), method[a], deviations[a], whole[a])
    /\ stage[a] \in {"precedents", "rate", "done"} =>
          \/ jurisdiction[a] = Adaptation(job[a].text, method[a])
          \/ jurisdiction[a] = Unknown /\ ~whole[a]

ToolsInv == OwnInv /\ EntryInv /\ \A a \in Analyses : Answered(a)

\* A risk pattern of these is what two decisions on the type say.
Supported(type, patterns) ==
    \A p \in patterns : p.kind = "risk" =>
        /\ Cardinality(OfType(type)) >= MinDecisions
        /\ \E j, k \in OfType(type) :
              j # k /\ Move(j) = <<p.from, p.to>> /\ Move(k) = <<p.from, p.to>>

\* An analysis learns once about a type and rates all clauses of it by that.
RatedAlike(a) ==
    /\ stage[a] = "idle" => rated[a] = <<>>
    /\ rated[a] \in Seq(ToSet(rated[a]))
    /\ \A l \in loaded[a] : Supported(l.type, l.patterns)
    /\ \A l, k \in loaded[a] : l.type = k.type => l = k
    /\ \A i \in DOMAIN rated[a] : \E l \in loaded[a] :
          /\ l.type = ClausesOf(a)[i].type
          /\ rated[a][i] = EnhancedAnalysis(ClausesOf(a)[i], Baseline(ClausesOf(a)[i], job[a].violations),
                                            l.patterns)

RatingInv ==
    /\ OwnInv
    /\ decisions \in Seq(ToSet(decisions))
    /\ \A a \in Analyses : RatedAlike(a)

\* A sequence of anything has its own values.
LEMMA OwnValues ==
    ASSUME NEW S, NEW s \in Seq(S)
    PROVE  s \in Seq(ToSet(s))
BY DEF ToSet

LEMMA AppendOwn ==
    ASSUME NEW s, s \in Seq(ToSet(s)), NEW e
    PROVE  /\ Append(s, e) \in Seq(ToSet(Append(s, e)))
           /\ DOMAIN s = 1..Len(s) /\ Len(s) \in Nat
           /\ DOMAIN Append(s, e) = 1..Len(s) + 1
           /\ \A i \in DOMAIN s : Append(s, e)[i] = s[i]
           /\ Append(s, e)[Len(s) + 1] = e
<1> DEFINE S == ToSet(s) \cup {e}
<1>1. s \in Seq(S) /\ e \in S
  <2>1. \A i \in 1..Len(s) : s[i] \in S
    BY DEF ToSet
  <2>2. QED BY <2>1
<1>2. Append(s, e) \in Seq(S)
  BY <1>1
<1>3. Append(s, e) \in Seq(ToSet(Append(s, e)))
  BY <1>2, OwnValues
<1>4. QED BY <1>1, <1>2, <1>3

\* The variables of one analysis, and what a step of another leaves of them.
Kept(b) ==
    UNCHANGED <<job[b], stage[b], method[b], deviations[b], jurisdiction[b], whole[b], loaded[b], rated[b]>>

LEMMA AnalysisSteps ==
    ASSUME OwnInv, NEW a \in Analyses, Mitigate(a)
    PROVE  OwnInv' /\ \A b \in Analyses \ {a} : Kept(b)
<1> USE DEF OwnInv, Kept, found, rating
<1>1. CASE Begin(a)
  BY <1>1 DEF Begin
<1>2. CASE Raises(a)
  <2>1. CASE method[a] # "fallback_phase1"
    BY <1>2, <2>1 DEF Raises, FallBack
  <2>2. CASE method[a] = "fallback_phase1"
    BY <1>2, <2>2 DEF Raises
  <2>3. QED BY <2>1, <2>2
<1>3. CASE DeviationsCached(a)
  BY <1>3 DEF DeviationsCached, FoundDeviations
<1>4. CASE DetectDeviations(a)
  <2>1. PICK ds, all : FoundDeviations(a, ds, all)
    BY <1>4 DEF DetectDeviations
  <2>2. QED BY <2>1 DEF FoundDeviations
<1>5. CASE JurisdictionCached(a)
  BY <1>5 DEF JurisdictionCached, FoundJurisdiction
<1>6. CASE AdaptJurisdiction(a)
  BY <1>6 DEF AdaptJurisdiction, FoundJurisdiction
<1>7. CASE MatchPrecedents(a)
  BY <1>7 DEF MatchPrecedents
<1>8. CASE RateClause(a)
  BY <1>8 DEF RateClause, Rated
<1>9. CASE LearnAndRateClause(a)
  BY <1>9 DEF LearnAndRateClause, Rated
<1>10. CASE RatingRaises(a)
  BY <1>10 DEF RatingRaises, FallBack
<1>11. CASE Finish(a)
  BY <1>11 DEF Finish
<1>12. QED
  BY <1>1, <1>2, <1>3, <1>4, <1>5, <1>6, <1>7, <1>8, <1>9, <1>10, <1>11 DEF Mitigate

LEMMA OthersStep ==
    ASSUME OwnInv, (Feedback /\ UNCHANGED <<analysis, cache, faults>>) \/ Expire \/ UNCHANGED mvars
    PROVE  OwnInv' /\ \A b \in Analyses : Kept(b)
BY DEF OwnInv, Kept, Expire, mvars, analysis, found, rating

-----------------------------------------------------------------------------
(* ToolsAnswerTheirContract *)

\* What a tool puts into the cache answers the question it was asked.
LEMMA PutAnswers ==
    ASSUME EntryInv, NEW a, NEW tool, NEW value, NEW all, PutIn(a, tool, value, all),
           method[a] = "optimized_phase3" =>
               \/ tool = "deviations" /\ DeviationsOf(ClausesOf(a), "optimized_phase3", value, all)
               \/ tool = "jurisdiction" /\ value = Adaptation(job[a].text, "optimized_phase3")
    PROVE  EntryInv'
<1>1. CASE UNCHANGED cache
  BY <1>1 DEF EntryInv
<1>2. CASE method[a] = "optimized_phase3"
           /\ cache' = {e \in cache : e.key # CacheKey(a, tool)}
                       \cup {[key |-> CacheKey(a, tool), value |-> value, whole |-> all]}
  <2>1. ASSUME NEW e \in cache', e \notin cache
        PROVE  /\ e.key[1] = "deviations" => DeviationsOf(e.key[2], "optimized_phase3", e.value, e.whole)
               /\ e.key[1] = "jurisdiction" => e.value = Adaptation(e.key[2], "optimized_phase3")
    <3>1. e.key = CacheKey(a, tool) /\ e.value = value /\ e.whole = all
      BY <1>2, <2>1
    <3>2. CASE tool = "deviations"
      <4>1. e.key[1] = "deviations" /\ e.key[2] = ClausesOf(a)
        BY <3>1, <3>2 DEF CacheKey
      <4>2. QED BY <1>2, <3>1, <3>2, <4>1
    <3>3. CASE tool = "jurisdiction"
      <4>1. e.key[1] = "jurisdiction" /\ e.key[2] = job[a].text
        BY <3>1, <3>3 DEF CacheKey
      <4>2. QED BY <1>2, <3>1, <3>3, <4>1
    <3>4. QED BY <1>2, <3>2, <3>3
  <2>2. QED BY <2>1 DEF EntryInv
<1>3. QED BY <1>1, <1>2 DEF PutIn

\* Once a step is past, an analysis is answered as long as nothing of it changes.
LEMMA KeptAnswers ==
    ASSUME NEW b, Answered(b), Kept(b)
    PROVE  Answered(b)'
BY DEF Answered, Kept, ClausesOf

LEMMA ToolsStep == ToolsInv /\ [MNext]_mvars => ToolsInv'
<1> SUFFICES ASSUME ToolsInv, [MNext]_mvars PROVE ToolsInv'
  OBVIOUS
<1>1. OwnInv /\ EntryInv
  BY DEF ToolsInv
<1>2. ASSUME NEW a \in Analyses, Mitigate(a), Answered(a)', EntryInv'
      PROVE  ToolsInv'
  <2>1. OwnInv' /\ \A b \in Analyses \ {a} : Kept(b)
    BY <1>1, <1>2, AnalysisSteps
  <2>2. \A b \in Analyses \ {a} : Answered(b)'
    BY <2>1, KeptAnswers DEF ToolsInv
  <2>3. QED BY <1>2, <2>1, <2>2 DEF ToolsInv
<1>3. ASSUME NEW a \in Analyses, Mitigate(a) PROVE ToolsInv'
  <2>1. Answered(a)
    BY DEF ToolsInv
  <2>2. CASE Begin(a)
    <3>1. stage'[a] = "deviations" /\ UNCHANGED cache
      BY <1>1, <2>2 DEF Begin, OwnInv
    <3>2. Answered(a)' /\ EntryInv'
      BY <1>1, <3>1 DEF Answered, EntryInv
    <3>3. QED BY <1>2, <1>3, <3>2
  <2>3. CASE FallBack(a) /\ UNCHANGED cache
    <3>1. stage'[a] = "deviations"
      BY <1>1, <2>3 DEF FallBack, OwnInv
    <3>2. Answered(a)' /\ EntryInv'
      BY <1>1, <2>3, <3>1 DEF Answered, EntryInv
    <3>3. QED BY <1>2, <1>3, <3>2
  <2>4. CASE Raises(a) /\ method[a] = "fallback_phase1"
    <3>1. /\ deviations'[a] = {} /\ jurisdiction'[a] = Unknown /\ whole'[a] = FALSE
          /\ UNCHANGED cache
      BY <1>1, <2>4 DEF Raises, OwnInv
    <3>2. Answered(a)' /\ EntryInv'
      BY <1>1, <3>1 DEF Answered, EntryInv, DeviationsOf
    <3>3. QED BY <1>2, <1>3, <3>2
  <2>5. ASSUME NEW ds, NEW all, FoundDeviations(a, ds, all),
               DeviationsOf(ClausesOf(a), method[a], ds, all)
        PROVE  Answered(a)'
    <3>1. /\ deviations'[a] = ds /\ whole'[a] = all /\ stage'[a] = "jurisdiction"
          /\ UNCHANGED <<job, method>>
      BY <1>1, <2>5 DEF FoundDeviations, OwnInv
    <3>2. (DeviationsOf(ClausesOf(a), method[a], deviations[a], whole[a]))'
      BY <2>5, <3>1 DEF DeviationsOf, ClausesOf
    <3>3. QED BY <3>1, <3>2 DEF Answered
  <2>6. CASE DeviationsCached(a)
    <3>1. PICK e \in Cached(a, "deviations") : FoundDeviations(a, e.value, e.whole)
      BY <2>6 DEF DeviationsCached
    <3>2. method[a] = "optimized_phase3" /\ e \in cache
          /\ e.key[1] = "deviations" /\ e.key[2] = ClausesOf(a)
      BY DEF Cached, CacheKey
    <3>3. DeviationsOf(ClausesOf(a), method[a], e.value, e.whole)
      BY <1>1, <3>2 DEF EntryInv
    <3>4. Answered(a)'
      BY <2>5, <3>1, <3>3
    <3>5. EntryInv'
      BY <1>1, <2>6 DEF DeviationsCached, EntryInv
    <3>6. QED BY <1>2, <1>3, <3>4, <3>5
  <2>7. CASE DetectDeviations(a)
    <3> DEFINE all == Deviations(ClausesOf(a), method[a])
    <3>1. PICK missed : /\ FoundDeviations(a, all \ missed, missed = {})
                      /\ PutIn(a, "deviations", all \ missed, missed = {})
      BY <2>7 DEF DetectDeviations
    <3>2. DeviationsOf(ClausesOf(a), method[a], all \ missed, missed = {})
      BY DEF DeviationsOf
    <3>3. Answered(a)'
      BY <2>5, <3>1, <3>2
    <3>4. EntryInv'
      BY <1>1, <3>1, <3>2, PutAnswers
    <3>5. QED BY <1>2, <1>3, <3>3, <3>4
  <2>8. ASSUME NEW place, FoundJurisdiction(a, place), stage[a] = "jurisdiction",
               place = Adaptation(job[a].text, method[a])
        PROVE  Answered(a)'
    <3>1. /\ jurisdiction'[a] = place /\ stage'[a] = "precedents"
          /\ UNCHANGED <<job, method, deviations, whole>>
      BY <1>1, <2>8 DEF FoundJurisdiction, OwnInv
    <3>2. QED BY <2>1, <2>8, <3>1 DEF Answered, ClausesOf
  <2>9. CASE JurisdictionCached(a)
    <3>1. PICK e \in Cached(a, "jurisdiction") : FoundJurisdiction(a, e.value)
      BY <2>9 DEF JurisdictionCached
    <3>2. method[a] = "optimized_phase3" /\ e \in cache
          /\ e.key[1] = "jurisdiction" /\ e.key[2] = job[a].text
      BY DEF Cached, CacheKey
    <3>3. e.value = Adaptation(job[a].text, method[a])
      BY <1>1, <3>2 DEF EntryInv
    <3>4. Answered(a)' /\ EntryInv'
      BY <1>1, <2>8, <2>9, <3>1, <3>3 DEF JurisdictionCached, EntryInv
    <3>5. QED BY <1>2, <1>3, <3>4
  <2>10. CASE AdaptJurisdiction(a)
    <3> DEFINE place == Adaptation(job[a].text, method[a])
    <3>1. /\ FoundJurisdiction(a, place) /\ stage[a] = "jurisdiction"
          /\ PutIn(a, "jurisdiction", place, TRUE)
      BY <2>10 DEF AdaptJurisdiction
    <3>2. Answered(a)'
      BY <2>8, <3>1
    <3>3. EntryInv'
      BY <1>1, <3>1, PutAnswers
    <3>4. QED BY <1>2, <1>3, <3>2, <3>3
  <2>11. CASE MatchPrecedents(a)
    <3>1. /\ stage[a] = "precedents" /\ stage'[a] \in {"rate", "done"}
          /\ UNCHANGED <<job, method, deviations, jurisdiction, whole, cache>>
      BY <1>1, <2>11 DEF MatchPrecedents, OwnInv
    <3>2. Answered(a)' /\ EntryInv'
      BY <1>1, <2>1, <3>1 DEF Answered, ClausesOf, EntryInv
    <3>3. QED BY <1>2, <1>3, <3>2
  <2>12. CASE RateClause(a) \/ LearnAndRateClause(a)
    <3>1. UNCHANGED <<job, stage, method, deviations, jurisdiction, whole, cache>>
      BY <2>12 DEF RateClause, LearnAndRateClause, Rated, found
    <3>2. Answered(a)' /\ EntryInv'
      BY <1>1, <2>1, <3>1 DEF Answered, ClausesOf, EntryInv
    <3>3. QED BY <1>2, <1>3, <3>2
  <2>13. CASE Finish(a)
    <3>1. /\ stage[a] = "rate" /\ stage'[a] = "done"
          /\ UNCHANGED <<job, method, deviations, jurisdiction, whole, cache>>
      BY <1>1, <2>13 DEF Finish, OwnInv, found
    <3>2. Answered(a)' /\ EntryInv'
      BY <1>1, <2>1, <3>1 DEF Answered, ClausesOf, EntryInv
    <3>3. QED BY <1>2, <1>3, <3>2
  <2>14. QED
    BY <1>3, <2>2, <2>3, <2>4, <2>6, <2>7, <2>9, <2>10, <2>11, <2>12, <2>13
    DEF Mitigate, Raises, RatingRaises
<1>4. ASSUME (Feedback /\ UNCHANGED <<analysis, cache, faults>>) \/ Expire \/ UNCHANGED mvars
      PROVE  ToolsInv'
  <2>1. OwnInv' /\ \A b \in Analyses : Kept(b)
    BY <1>1, <1>4, OthersStep
  <2>2. cache' \subseteq cache
    BY <1>4 DEF Expire, mvars
  <2>3. EntryInv'
    BY <1>1, <2>2 DEF EntryInv
  <2>4. QED BY <2>1, <2>3, KeptAnswers DEF ToolsInv
<1>5. QED BY <1>3, <1>4 DEF MNext

LEMMA ToolsInit == MInit => ToolsInv
BY DEF MInit, ToolsInv, OwnInv, EntryInv, Answered

\* A text always has an industry, if only the general one, or "none".
LEMMA AdaptationIsKnown == ASSUME NEW text, NEW m PROVE Adaptation(text, m) # Unknown
<1>1. IndustryOf(text) # "unknown"
  BY DEF IndustryOf
<1>2. Adaptation(text, m).industry # "unknown"
  BY <1>1 DEF Adaptation
<1>3. QED BY <1>2 DEF Unknown

\* For any analyses, contracts and cache, and whatever fails: deviations are of
\* the analysis's own clauses and the jurisdiction of its own text.
THEOREM ToolsAlwaysAnswerTheirContract == MSpec => []ToolsAnswerTheirContract
<1>1. ToolsInv => ToolsAnswerTheirContract
  BY AdaptationIsKnown DEF ToolsInv, Answered, DeviationsOf, ToolsAnswerTheirContract
<1>2. QED BY <1>1, ToolsInit, ToolsStep, PTL DEF MSpec

-----------------------------------------------------------------------------
(* AdjustmentsAreEarned and AlikeClausesAreRatedAlike *)

DecisionsInv == decisions \in Seq(ToSet(decisions))

\* Decisions are only ever added, so that what two of them say stays said.
DecisionsGrow ==
    /\ DecisionsInv'
    /\ DOMAIN decisions \subseteq DOMAIN decisions'
    /\ \A i \in DOMAIN decisions : decisions'[i] = decisions[i]

LEMMA FeedbackGrows ==
    ASSUME DecisionsInv, Feedback \/ UNCHANGED feedback
    PROVE  DecisionsGrow
<1>1. CASE UNCHANGED decisions
  BY <1>1 DEF DecisionsInv, DecisionsGrow
<1>2. CASE CollectDecision
  BY <1>2, AppendOwn DEF CollectDecision, DecisionsInv, DecisionsGrow
<1>3. QED BY <1>1, <1>2 DEF Feedback, Submit, CollectFails, feedback

LEMMA OfTypeFinite ==
    ASSUME DecisionsInv, NEW type
    PROVE  IsFiniteSet(OfType(type)) /\ Cardinality(OfType(type)) \in Nat
<1>1. OfType(type) \in SUBSET (1..Len(decisions)) /\ Len(decisions) \in Nat
  BY DEF OfType, DecisionsInv
<1>2. IsFiniteSet(1..Len(decisions))
  BY <1>1, FS_Interval
<1>3. QED BY <1>1, <1>2, FS_Subset, FS_CardinalityType

LEMMA SupportStays ==
    ASSUME DecisionsInv, DecisionsGrow, NEW type, NEW patterns, Supported(type, patterns)
    PROVE  Supported(type, patterns)'
<1>1. OfType(type) \subseteq OfType(type)'
  BY DEF OfType, DecisionsGrow
<1>2. \A i \in OfType(type) : Move(i)' = Move(i)
  BY DEF OfType, Move, DecisionsGrow
<1>3. /\ Cardinality(OfType(type)) \in Nat /\ Cardinality(OfType(type)') \in Nat
      /\ Cardinality(OfType(type)) <= Cardinality(OfType(type)')
  <2>1. DecisionsInv'
    BY DEF DecisionsGrow
  <2>2. IsFiniteSet(OfType(type)') /\ Cardinality(OfType(type)') \in Nat
    <3>1. OfType(type)' \in SUBSET (1..Len(decisions')) /\ Len(decisions') \in Nat
      BY <2>1 DEF OfType, DecisionsInv
    <3>2. IsFiniteSet(1..Len(decisions'))
      BY <3>1, FS_Interval
    <3>3. QED BY <3>1, <3>2, FS_Subset, FS_CardinalityType
  <2>3. QED BY <1>1, <2>2, OfTypeFinite, FS_Subset
<1>4. ASSUME NEW p \in patterns, p.kind = "risk"
      PROVE  /\ Cardinality(OfType(type)') >= MinDecisions
             /\ \E j, k \in OfType(type)' :
                   j # k /\ Move(j)' = <<p.from, p.to>> /\ Move(k)' = <<p.from, p.to>>
  <2>1. /\ Cardinality(OfType(type)) >= MinDecisions
        /\ \E j, k \in OfType(type) :
              j # k /\ Move(j) = <<p.from, p.to>> /\ Move(k) = <<p.from, p.to>>
    BY <1>4 DEF Supported
  <2>2. Cardinality(OfType(type)') >= MinDecisions
    BY <1>3, <2>1, MinimaAssumption
  <2>3. QED BY <1>1, <1>2, <2>1, <2>2
<1>5. QED BY <1>4 DEF Supported

\* Two of a set are more than one.
LEMMA TwoOf ==
    ASSUME NEW S, IsFiniteSet(S), Cardinality(S) >= 2
    PROVE  \E j, k \in S : j # k
<1>1. Cardinality(S) \in Nat
  BY FS_CardinalityType
<1>2. S # {}
  BY <1>1, FS_EmptySet
<1>3. PICK j \in S : TRUE
  BY <1>2
<1>4. S # {j}
  BY <1>1, FS_Singleton
<1>5. QED BY <1>3, <1>4

\* What is learned about a type is supported by its decisions.
LEMMA LearnedIsSupported ==
    ASSUME DecisionsInv, NEW type
    PROVE  Supported(type, LearnedPatterns(type))
<1> SUFFICES ASSUME NEW p \in LearnedPatterns(type), p.kind = "risk"
             PROVE  /\ Cardinality(OfType(type)) >= MinDecisions
                    /\ \E j, k \in OfType(type) :
                          j # k /\ Move(j) = <<p.from, p.to>> /\ Move(k) = <<p.from, p.to>>
  BY DEF Supported
<1> DEFINE overrides == {i \in Latest(type) : decisions[i].override # Nothing}
<1>1. Cardinality(Latest(type)) >= MinDecisions /\ p \in RiskPatterns(overrides)
  <2>1. ~(Cardinality(Latest(type)) < MinDecisions)
    BY DEF LearnedPatterns
  <2>2. \A S : \A q \in ApprovalPatterns(S) \cup RejectionPatterns(S) : q.kind # "risk"
    BY DEF ApprovalPatterns, RejectionPatterns
  <2>3. p \in RiskPatterns(overrides)
    BY <2>1, <2>2 DEF LearnedPatterns
  <2>4. Latest(type) \subseteq OfType(type)
    BY DEF Latest
  <2>5. Cardinality(Latest(type)) \in Nat
    BY <2>4, OfTypeFinite, FS_Subset, FS_CardinalityType
  <2>6. QED BY <2>1, <2>3, <2>5, MinimaAssumption
<1>2. PICK i \in overrides : /\ p = [kind |-> "risk", from |-> decisions[i].level, to |-> decisions[i].override]
                             /\ Earned(i, overrides)
  BY <1>1 DEF RiskPatterns
<1>3. Move(i) = <<p.from, p.to>>
  BY <1>2 DEF Move
<1> DEFINE alike == {j \in overrides : Move(j) = Move(i)}
<1>4. Latest(type) \subseteq OfType(type) /\ alike \subseteq OfType(type)
  BY DEF Latest
<1>5. IsFiniteSet(alike) /\ IsFiniteSet(OfType(type))
  BY <1>4, OfTypeFinite, FS_Subset
<1>6. PICK j, k \in alike : j # k
  <2>1. Cardinality(alike) >= 2
    BY <1>2 DEF Earned, Alike
  <2>2. QED BY <1>5, <2>1, TwoOf
<1>7. Cardinality(OfType(type)) >= MinDecisions
  <2>1. /\ Cardinality(Latest(type)) \in Nat /\ Cardinality(OfType(type)) \in Nat
        /\ Cardinality(Latest(type)) <= Cardinality(OfType(type))
    BY <1>4, OfTypeFinite, FS_Subset, FS_CardinalityType
  <2>2. QED BY <1>1, <2>1, MinimaAssumption
<1>8. QED BY <1>3, <1>4, <1>6, <1>7

LEMMA KeptRatings ==
    ASSUME DecisionsInv, DecisionsGrow, NEW b, RatedAlike(b), Kept(b)
    PROVE  RatedAlike(b)'
<1>1. \A l \in loaded'[b] : Supported(l.type, l.patterns)'
  BY SupportStays DEF RatedAlike, Kept
<1>2. QED BY <1>1 DEF RatedAlike, Kept, ClausesOf

\* One clause more, rated by what is loaded for its type.
LEMMA OneMoreRated ==
    ASSUME OwnInv, DecisionsInv, UNCHANGED decisions,
           NEW a \in Analyses, RatedAlike(a), stage[a] = "rate",
           NEW patterns, Rated(a, patterns), loaded[a] \subseteq loaded'[a],
           \E l \in loaded'[a] : l.type = ThisClause(a).type /\ l.patterns = patterns,
           \A l \in loaded'[a] : Supported(l.type, l.patterns),
           \A l, k \in loaded'[a] : l.type = k.type => l = k
    PROVE  RatedAlike(a)'
<1> DEFINE c == ThisClause(a)
           n == Len(rated[a])
           r == EnhancedAnalysis(c, Baseline(c, job[a].violations), patterns)
<1>1. rated'[a] = Append(rated[a], r) /\ stage'[a] = "rate" /\ job' = job
  BY DEF Rated, OwnInv
<1>2. /\ rated'[a] \in Seq(ToSet(rated'[a]))
      /\ DOMAIN rated[a] = 1..n /\ n \in Nat
      /\ DOMAIN rated'[a] = 1..n + 1
      /\ \A i \in DOMAIN rated[a] : rated'[a][i] = rated[a][i]
      /\ rated'[a][n + 1] = r
  BY <1>1, AppendOwn DEF RatedAlike
<1>3. c = ClausesOf(a)[n + 1]
  BY DEF ThisClause
<1>4. ASSUME NEW i \in DOMAIN rated'[a]
      PROVE  \E l \in loaded'[a] :
                /\ l.type = ClausesOf(a)[i].type
                /\ rated'[a][i] = EnhancedAnalysis(ClausesOf(a)[i],
                                      Baseline(ClausesOf(a)[i], job[a].violations), l.patterns)
  <2>1. CASE i = n + 1
    BY <1>2, <1>3, <2>1
  <2>2. CASE i \in DOMAIN rated[a]
    BY <1>2, <2>2 DEF RatedAlike
  <2>3. QED BY <1>2, <2>1, <2>2
<1>5. \A l \in loaded'[a] : Supported(l.type, l.patterns)'
  BY DEF Supported, OfType, Move
<1>6. QED BY <1>1, <1>2, <1>4, <1>5 DEF RatedAlike, ClausesOf

LEMMA RatingStep == RatingInv /\ [MNext]_mvars => RatingInv'
<1> SUFFICES ASSUME RatingInv, [MNext]_mvars PROVE RatingInv'
  OBVIOUS
<1>1. OwnInv /\ DecisionsInv
  BY DEF RatingInv, DecisionsInv
<1>2. ASSUME NEW a \in Analyses, Mitigate(a), UNCHANGED decisions, RatedAlike(a)' PROVE RatingInv'
  <2>1. OwnInv' /\ \A b \in Analyses \ {a} : Kept(b)
    BY <1>1, <1>2, AnalysisSteps
  <2>2. DecisionsGrow
    BY <1>1, <1>2 DEF DecisionsGrow, DecisionsInv
  <2>3. \A b \in Analyses \ {a} : RatedAlike(b)'
    BY <1>1, <2>1, <2>2, KeptRatings DEF RatingInv
  <2>4. QED BY <1>2, <2>1, <2>2, <2>3 DEF RatingInv, DecisionsGrow, DecisionsInv
<1>3. ASSUME NEW a \in Analyses, Mitigate(a) PROVE RatingInv'
  <2>1. RatedAlike(a)
    BY DEF RatingInv
  \* Steps that leave the ratings alone.
  <2>2. ASSUME UNCHANGED <<decisions, loaded, rated>>, job'[a] = job[a] \/ stage[a] = "idle",
               stage'[a] = "idle" => stage[a] = "idle"
        PROVE  RatedAlike(a)'
    <3>1. \A l \in loaded'[a] : Supported(l.type, l.patterns)'
      BY <2>1, <2>2 DEF RatedAlike, Supported, OfType, Move
    <3>2. CASE job'[a] = job[a]
      BY <2>1, <2>2, <3>1, <3>2 DEF RatedAlike, ClausesOf
    <3>3. CASE stage[a] = "idle"
      <4>1. rated'[a] = <<>>
        BY <2>1, <2>2, <3>3 DEF RatedAlike
      <4>2. rated'[a] \in Seq(ToSet(rated'[a])) /\ DOMAIN rated'[a] = {}
        BY <4>1
      <4>3. QED BY <2>1, <2>2, <3>1, <4>1, <4>2 DEF RatedAlike
    <3>4. QED BY <2>2, <3>2, <3>3
  <2>3. CASE \/ Begin(a) \/ DeviationsCached(a) \/ DetectDeviations(a) \/ JurisdictionCached(a)
             \/ AdaptJurisdiction(a) \/ MatchPrecedents(a) \/ Finish(a)
             \/ Raises(a) /\ method[a] = "fallback_phase1"
    <3> USE <1>1 DEF OwnInv, feedback, found, rating
    <3>1. CASE Begin(a)
      BY <1>2, <1>3, <2>2, <3>1 DEF Begin
    <3>2. CASE DeviationsCached(a)
      BY <1>2, <1>3, <2>2, <3>2 DEF DeviationsCached, FoundDeviations
    <3>3. CASE DetectDeviations(a)
      <4>1. PICK ds, all : FoundDeviations(a, ds, all)
        BY <3>3 DEF DetectDeviations
      <4>2. QED BY <1>2, <1>3, <2>2, <4>1 DEF FoundDeviations
    <3>4. CASE JurisdictionCached(a)
      BY <1>2, <1>3, <2>2, <3>4 DEF JurisdictionCached, FoundJurisdiction
    <3>5. CASE AdaptJurisdiction(a)
      BY <1>2, <1>3, <2>2, <3>5 DEF AdaptJurisdiction, FoundJurisdiction
    <3>6. CASE MatchPrecedents(a)
      BY <1>2, <1>3, <2>2, <3>6 DEF MatchPrecedents
    <3>7. CASE Finish(a)
      BY <1>2, <1>3, <2>2, <3>7 DEF Finish
    <3>8. CASE Raises(a) /\ method[a] = "fallback_phase1"
      BY <1>2, <1>3, <2>2, <3>8 DEF Raises
    <3>9. QED BY <2>3, <3>1, <3>2, <3>3, <3>4, <3>5, <3>6, <3>7, <3>8
  <2>4. CASE FallBack(a) /\ UNCHANGED decisions
    <3>1. loaded'[a] = {} /\ rated'[a] = <<>>
      BY <1>1, <2>4 DEF FallBack, OwnInv
    <3>2. rated'[a] \in Seq(ToSet(rated'[a])) /\ DOMAIN rated'[a] = {}
      BY <3>1
    <3>3. RatedAlike(a)'
      BY <3>1, <3>2 DEF RatedAlike
    <3>4. QED BY <1>2, <1>3, <2>4, <3>3
  <2>5. CASE RateClause(a)
    <3> DEFINE type == ThisClause(a).type
               l == CHOOSE p \in Patterns(a, type) : TRUE
    <3>1. /\ stage[a] = "rate" /\ Rated(a, l.patterns)
          /\ UNCHANGED <<decisions, loaded>>
      BY <2>5 DEF RateClause, MoreToRate, Rated, feedback
    <3>2. l \in loaded[a] /\ l.type = type
      BY <2>5 DEF RateClause, Unloaded, Patterns
    <3>3. PICK k \in loaded[a] : k.type = type /\ k.patterns = l.patterns
      BY <3>2
    <3>4. RatedAlike(a)'
      BY <1>1, <2>1, <3>1, <3>3, OneMoreRated DEF RatedAlike
    <3>5. QED BY <1>2, <1>3, <3>1, <3>4
  <2>6. CASE LearnAndRateClause(a)
    <3> DEFINE type == ThisClause(a).type
    <3>1. PICK patterns : /\ patterns = LearnedPatterns(type) \/ patterns = {}
                          /\ Rated(a, patterns)
                          /\ loaded'[a] = loaded[a] \cup {[type |-> type, patterns |-> patterns]}
      BY <1>1, <2>6 DEF LearnAndRateClause, OwnInv
    <3>2. stage[a] = "rate" /\ UNCHANGED decisions /\ \A l \in loaded[a] : l.type # type
      BY <2>6, <3>1 DEF LearnAndRateClause, MoreToRate, Unloaded, Patterns, Rated, feedback
    <3>3. Supported(type, patterns)
      BY <1>1, <3>1, LearnedIsSupported DEF Supported
    <3>4. \A l \in loaded'[a] : Supported(l.type, l.patterns)
      BY <2>1, <3>1, <3>3 DEF RatedAlike
    <3>5. \A l, k \in loaded'[a] : l.type = k.type => l = k
      BY <2>1, <3>1, <3>2 DEF RatedAlike
    <3>6. RatedAlike(a)'
      BY <1>1, <2>1, <3>1, <3>2, <3>4, <3>5, OneMoreRated
    <3>7. QED BY <1>2, <1>3, <3>2, <3>6
  <2>7. QED
    BY <1>3, <2>3, <2>4, <2>5, <2>6 DEF Mitigate, Raises, RatingRaises, feedback
<1>4. ASSUME (Feedback /\ UNCHANGED <<analysis, cache, faults>>) \/ Expire \/ UNCHANGED mvars
      PROVE  RatingInv'
  <2>1. OwnInv' /\ \A b \in Analyses : Kept(b)
    BY <1>1, <1>4, OthersStep
  <2>2. DecisionsGrow
    BY <1>1, <1>4, FeedbackGrows DEF Expire, mvars
  <2>3. QED BY <1>1, <2>1, <2>2, KeptRatings DEF RatingInv, DecisionsGrow, DecisionsInv
<1>5. QED BY <1>3, <1>4 DEF MNext

LEMMA RatingInit == MInit => RatingInv
<1> SUFFICES ASSUME MInit PROVE RatingInv
  OBVIOUS
<1>1. decisions \in Seq(ToSet(decisions)) /\ OwnInv
  BY DEF MInit, LInit, OwnInv
<1>2. ASSUME NEW a \in Analyses PROVE RatedAlike(a)
  <2>1. rated[a] = <<>> /\ loaded[a] = {}
    BY DEF MInit
  <2>2. rated[a] \in Seq(ToSet(rated[a])) /\ DOMAIN rated[a] = {}
    BY <2>1
  <2>3. QED BY <2>1, <2>2 DEF RatedAlike
<1>3. QED BY <1>1, <1>2 DEF RatingInv

\* For any decisions, however they arrive, and any analyses: a clause keeps its
\* baseline, or is moved from it as at least two decisions on its type say.
THEOREM AdjustmentsAreAlwaysEarned == MSpec => []AdjustmentsAreEarned
<1>1. ASSUME RatingInv PROVE AdjustmentsAreEarned
  <2> SUFFICES ASSUME NEW a \in Analyses, NEW i \in DOMAIN rated[a]
               PROVE  LET clause == ClausesOf(a)[i]
                          baseline == Baseline(clause, job[a].violations)
                          r == rated[a][i]
                      IN  \/ r.risk = baseline /\ r.original = Nothing
                          \/ /\ r.original = baseline
                             /\ Cardinality(OfType(clause.type)) >= MinDecisions
                             /\ \E j, k \in OfType(clause.type) :
                                  /\ j # k
                                  /\ Move(j) = <<baseline, r.risk>>
                                  /\ Move(k) = <<baseline, r.risk>>
    BY DEF AdjustmentsAreEarned
  <2> DEFINE clause == ClausesOf(a)[i]
             baseline == Baseline(clause, job[a].violations)
  <2>1. PICK l \in loaded[a] : /\ l.type = clause.type
                               /\ rated[a][i] = EnhancedAnalysis(clause, baseline, l.patterns)
                               /\ Supported(l.type, l.patterns)
    BY <1>1 DEF RatingInv, RatedAlike
  <2> DEFINE adjustments == Adjustments(baseline, l.patterns)
             p == CHOOSE q \in adjustments : TRUE
  <2>2. CASE adjustments = {}
    BY <2>1, <2>2 DEF EnhancedAnalysis
  <2>3. CASE adjustments # {}
    <3>1. p \in l.patterns /\ p.kind = "risk" /\ p.from = baseline
      BY <2>3 DEF Adjustments
    <3>2. rated[a][i].risk = p.to /\ rated[a][i].original = baseline
      BY <2>1, <2>3, <3>1 DEF EnhancedAnalysis
    <3>3. /\ Cardinality(OfType(clause.type)) >= MinDecisions
          /\ \E j, k \in OfType(clause.type) :
                j # k /\ Move(j) = <<p.from, p.to>> /\ Move(k) = <<p.from, p.to>>
      BY <2>1, <3>1 DEF Supported
    <3>4. QED BY <3>1, <3>2, <3>3
  <2>4. QED BY <2>2, <2>3
<1>2. QED BY <1>1, RatingInit, RatingStep, PTL DEF MSpec

\* For any analyses and decisions that arrive meanwhile: within one analysis two
\* clauses of a type with one baseline get one risk level.
THEOREM AlikeClausesAreAlwaysRatedAlike == MSpec => []AlikeClausesAreRatedAlike
<1>1. ASSUME RatingInv PROVE AlikeClausesAreRatedAlike
  <2> SUFFICES ASSUME NEW a \in Analyses, NEW i \in DOMAIN rated[a], NEW j \in DOMAIN rated[a],
                      ClausesOf(a)[i].type = ClausesOf(a)[j].type,
                      Baseline(ClausesOf(a)[i], job[a].violations)
                        = Baseline(ClausesOf(a)[j], job[a].violations)
               PROVE  rated[a][i].risk = rated[a][j].risk
    BY DEF AlikeClausesAreRatedAlike
  <2> DEFINE baseline == Baseline(ClausesOf(a)[i], job[a].violations)
  <2>1. PICK l \in loaded[a] : l.type = ClausesOf(a)[i].type
                 /\ rated[a][i] = EnhancedAnalysis(ClausesOf(a)[i], baseline, l.patterns)
    BY <1>1 DEF RatingInv, RatedAlike
  <2>2. PICK k \in loaded[a] : k.type = ClausesOf(a)[j].type
                 /\ rated[a][j] = EnhancedAnalysis(ClausesOf(a)[j], baseline, k.patterns)
    BY <1>1 DEF RatingInv, RatedAlike
  <2>3. l = k
    BY <1>1, <2>1, <2>2 DEF RatingInv, RatedAlike
  <2>4. QED BY <2>1, <2>2, <2>3 DEF EnhancedAnalysis
<1>2. QED BY <1>1, RatingInit, RatingStep, PTL DEF MSpec
=============================================================================
