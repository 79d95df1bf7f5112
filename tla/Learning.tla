------------------------------- MODULE Learning -------------------------------
(***************************************************************************)
(* What a legal team decides about clauses (api/feedback_api.py) and what  *)
(* an analysis makes of it (agents/feedback_learning_system.py): decisions *)
(* are stored one query each, and an analysis learns patterns from the     *)
(* latest decisions on a clause type when it first meets a clause of it,   *)
(* while more decisions arrive.  Mitigation has the rest of the analysis.  *)
(*                                                                         *)
(* A text is a sequence of words; Inside has the words that are part of    *)
(* other words, since the code looks for substrings.                       *)
(***************************************************************************)
EXTENDS Naturals, Sequences, FiniteSets

CONSTANTS
    Decisions,       \* the decisions that may be submitted, see Decision
    Submissions,     \* sequences of them: one decision, or several at once
    MaxDecisions,    \* bound: decisions submitted
    InGraph,         \* the contracts in the graph
    Words, Inside,
    Length,          \* by word: its letters
    Limit,           \* decisions that are looked at (50)
    MinDecisions,    \* decisions it takes to learn at all (5)
    MinAlike,        \* approvals, or rejections, it takes (3)
    Nothing          \* no override, no content that is a text

ASSUME MinimaAssumption == MinDecisions \in Nat /\ MinAlike \in Nat /\ Limit \in Nat

Level == {"CRITICAL", "HIGH", "MEDIUM", "LOW", "UNKNOWN"}

\* original_analysis is whatever the caller sent; only its content and its risk
\* level are read.
Decision == [type : STRING, contract : STRING, verdict : {"approved", "rejected", "modified"},
             content : Seq(Words) \cup {Nothing}, level : Level, feedback : Seq(Words),
             override : Level \cup {Nothing}]

VARIABLES
    decisions,   \* the LegalDecision nodes, in the order of their timestamps
    linked,      \* positions of those linked to a Contract
    incoming     \* decisions of the request the API is at, yet to be stored

feedback == <<decisions, linked, incoming>>

LInit == decisions = <<>> /\ linked = {} /\ incoming = <<>>

-----------------------------------------------------------------------------
(* Feedback                                                                *)

\* POST /feedback/legal-decision and /bulk-feedback.  Nothing in them awaits, so
\* the API is at one request at a time.
Submit ==
    /\ incoming = <<>>
    /\ \E list \in Submissions :
        /\ Len(decisions) + Len(list) <= MaxDecisions
        /\ incoming' = list
    /\ UNCHANGED <<decisions, linked>>

\* collect_decision.  The node is made before the contract is looked for.
CollectDecision ==
    /\ incoming # <<>>
    /\ decisions' = Append(decisions, Head(incoming))
    /\ linked' = IF Head(incoming).contract \in InGraph THEN linked \cup {Len(decisions')} ELSE linked
    /\ incoming' = Tail(incoming)

\* A query that fails is only logged: the API answers success, and goes on.
CollectFails ==
    /\ incoming # <<>>
    /\ incoming' = Tail(incoming)
    /\ UNCHANGED <<decisions, linked>>

Feedback == Submit \/ CollectDecision \/ CollectFails

-----------------------------------------------------------------------------
(* FeedbackCollector and PatternLearner                                    *)

OfType(type) == {i \in DOMAIN decisions : decisions[i].type = type}

\* get_decisions_by_clause_type: the latest ones, whoever's they are.
Latest(type) == {i \in OfType(type) : Cardinality({j \in OfType(type) : j > i}) < Limit}

Of(S, verdict) == {i \in S : decisions[i].verdict = verdict}

\* How often a word is in the given texts.
Times(word, texts) ==
    Cardinality(UNION {{i} \X {k \in DOMAIN texts[i] : texts[i][k] = word} : i \in DOMAIN texts})

\* _find_common_keywords and _find_common_risk_levels, of at least half and at
\* least three tenths.
CommonKeywords(S) ==
    {w \in Words : LET n == Times(w, [i \in S |-> decisions[i].content])
                   IN  Length[w] > 4 /\ n > 0 /\ 2 * n >= Cardinality(S)}
CommonLevels(S) ==
    {l \in Level : LET n == Cardinality({i \in S : decisions[i].level = l})
                   IN  n > 0 /\ 10 * n >= 3 * Cardinality(S)}

ApprovalPatterns(S) ==
    IF Cardinality(S) >= MinAlike /\ (CommonKeywords(S) # {} \/ CommonLevels(S) # {})
    THEN {[kind |-> "approval", words |-> CommonKeywords(S)]} ELSE {}

RejectionPatterns(S) ==
    LET reasons == {w \in Words : Length[w] > 3 /\ Times(w, [i \in S |-> decisions[i].feedback]) >= 2}
    IN  IF Cardinality(S) >= MinAlike /\ reasons # {}
        THEN {[kind |-> "rejection", words |-> reasons]} ELSE {}

Move(i) == <<decisions[i].level, decisions[i].override>>
Alike(i, S) == Cardinality({j \in S : Move(j) = Move(i)})

\* Mutant of Earned: any override will do.
MutantEarned(i, S) == Alike(i, S) >= 1

Earned(i, S) == Alike(i, S) >= 2

\* The most common of the overrides, the latest of two as common, twice at least.
RiskPatterns(S) ==
    {[kind |-> "risk", from |-> decisions[i].level, to |-> decisions[i].override] :
        i \in {k \in S : /\ Earned(k, S)
                         /\ \A j \in S : \/ Alike(j, S) < Alike(k, S)
                                         \/ Alike(j, S) = Alike(k, S) /\ j <= k}}

\* learn_from_decisions, for an analysis, for GET /patterns and for POST /retrain,
\* which keep nothing.
LearnedPatterns(type) ==
    LET latest == Latest(type) IN
    IF Cardinality(latest) < MinDecisions THEN {}
    ELSE ApprovalPatterns(Of(latest, "approved")) \cup RejectionPatterns(Of(latest, "rejected"))
         \cup RiskPatterns({i \in latest : decisions[i].override # Nothing})

\* It raises on an approved analysis whose content is no text.
LearningRaises(type) ==
    LET approved == Of(Latest(type), "approved") IN
    /\ Cardinality(Latest(type)) >= MinDecisions
    /\ Cardinality(approved) >= MinAlike
    /\ \E i \in approved : decisions[i].content = Nothing

-----------------------------------------------------------------------------
(* AdaptiveAnalyzer                                                        *)

In(word, text) == word = text \/ <<word, text>> \in Inside
Occurs(word, content) == \E k \in DOMAIN content : In(word, content[k])

\* By severity of the violations found in this clause, or else by its type.
BaselineRiskLevel(clause, violations, high, low) ==
    LET severities == {v.severity : v \in {u \in violations : clause.id # Nothing /\ u.clause = clause.id}}
    IN  IF "CRITICAL" \in severities THEN "CRITICAL"
        ELSE IF "HIGH" \in severities THEN "HIGH"
        ELSE IF "MEDIUM" \in severities THEN "MEDIUM"
        ELSE IF "LOW" \in severities THEN "LOW"
        ELSE IF clause.type \in high THEN "HIGH"
        ELSE IF clause.type \in low THEN "LOW" ELSE "MEDIUM"

\* _apply_approval_pattern: half of the keywords, which may be none.
Approvable(clause, p) ==
    p.kind = "approval"
    /\ 2 * Cardinality({w \in p.words : Occurs(w, clause.content)}) >= Cardinality(p.words)
Rejectable(clause, p) == p.kind = "rejection" /\ \E w \in p.words : Occurs(w, clause.content)

\* _apply_risk_pattern; every pattern looks at the baseline.
Adjustments(baseline, patterns) == {p \in patterns : p.kind = "risk" /\ p.from = baseline}

EnhancedAnalysis(clause, baseline, patterns) ==
    LET adjustments == Adjustments(baseline, patterns)
        adjustment == CHOOSE p \in adjustments : TRUE
    IN  [clause |-> clause.id, type |-> clause.type,
         risk |-> IF adjustments = {} THEN baseline ELSE adjustment.to,
         original |-> IF adjustments = {} THEN Nothing ELSE adjustment.from,
         likely |-> {p.kind : p \in {q \in patterns : Approvable(clause, q) \/ Rejectable(clause, q)}}]
=============================================================================
