------------------------------ MODULE Mitigation ------------------------------
(***************************************************************************)
(* The CUAD mitigation of an analysis: the step _execute_cuad_mitigation   *)
(* of a plan (planning/execution_engine.py) and the node _cuad_mitigation  *)
(* of the workflow (contract_intelligence_agents.py), which PlanExecution  *)
(* and Orchestrator have as one step.  Deviations, jurisdiction and        *)
(* precedents are looked for by the optimized tools, which share a Redis   *)
(* cache, and the clauses are rated by what has been learned; when that    *)
(* raises all of it is done again by the enhanced tools, and by the first  *)
(* ones when those raise.  A tool catches what it raises itself.           *)
(***************************************************************************)
EXTENDS Learning, SequencesExt

CONSTANTS
    Analyses,     \* mitigations that may run at a time
    Contracts,    \* what they may be about, see Contract
    ClauseNodes,  \* Clause nodes of analysed contracts, see ClauseNode
    DemoTenant,   \* the tenant whose precedents the enhanced tool looks for
    MaxFaults,    \* bound: patterns lost to their timeout, tools that fail
    MaxCached     \* bound: entries of the cache

Clause == [id : STRING, type : STRING, content : Seq(Words)]
Violation == [clause : STRING, severity : Level]
Contract == [clauses : Seq(Clause), violations : SUBSET Violation, text : Seq(Words)]
\* `content` has the words of the text, without its repetitions.
ClauseNode == [tenant : STRING, completed : BOOLEAN, type : STRING, content : SUBSET Words, risk : Level]

VARIABLES
    job,         \* by analysis: the contract it is about
    stage,       \* its next tool, "rate", "idle", "done" or "failed"
    method,      \* the generation of tools
    deviations, jurisdiction, precedents,
    loaded,      \* active_patterns: the types met, with their patterns
    rated,       \* enhanced_clauses
    cache,       \* entries of the optimized tools, [tool, key, value, whole]
    whole,       \* history: whether the deviations are all there are
    faults

found == <<deviations, jurisdiction, precedents, whole>>
rating == <<loaded, rated>>
analysis == <<job, stage, method, found, rating>>
mvars == <<feedback, analysis, cache, faults>>

-----------------------------------------------------------------------------
(* Deviations                                                              *)

BasicRules == {
    [types |-> {"payment", "payment terms"}, any |-> {"net 60", "net 90"}, all |-> {},
     kind |-> "extended_payment_terms", severity |-> "MEDIUM"],
    [types |-> {"liability", "limitation of liability"}, any |-> {"unlimited liability", "no limitation"},
     all |-> {}, kind |-> "unlimited_liability", severity |-> "CRITICAL"],
    [types |-> {"intellectual property", "ip ownership"}, any |-> {"customer"}, all |-> {"work for hire"},
     kind |-> "ip_ownership_transfer", severity |-> "HIGH"],
    [types |-> {"termination", "termination for convenience"}, any |-> {"no termination", "irrevocable"},
     all |-> {}, kind |-> "no_termination_rights", severity |-> "HIGH"]}

SemanticPatterns == {
    [kind |-> "hidden_auto_renewal", severity |-> "HIGH", types |-> {"termination", "term", "renewal"},
     keywords |-> {"automatically renew", "auto-renewal", "unless terminated", "perpetual"}],
    [kind |-> "broad_indemnification", severity |-> "CRITICAL",
     types |-> {"indemnification", "liability", "indemnity"},
     keywords |-> {"indemnify", "hold harmless", "defend", "all claims", "any claims"}],
    [kind |-> "data_retention_risk", severity |-> "HIGH",
     types |-> {"data protection", "privacy", "confidentiality"},
     keywords |-> {"retain data", "store information", "indefinitely", "permanent storage"}],
    [kind |-> "exclusive_dealing", severity |-> "MEDIUM", types |-> {"exclusivity", "scope", "services"},
     keywords |-> {"exclusively", "sole", "only provider", "exclusive rights"}]}

\* _check_clause_deviation; a type has at most one rule.
BreaksRule(clause, rule) ==
    /\ clause.type \in rule.types
    /\ \E w \in rule.any : Occurs(w, clause.content)
    /\ \A w \in rule.all : Occurs(w, clause.content)

MatchesSemanticPattern(clause, p) ==
    /\ \E t \in p.types : In(t, clause.type)
    /\ Cardinality({w \in p.keywords : Occurs(w, clause.content)}) >= 2

\* What a generation's detector holds against a clause.
Deviating(clause, m) ==
    {b \in BasicRules : BreaksRule(clause, b)}
        \cup IF m = "fallback_phase1" THEN {}
             ELSE {p \in SemanticPatterns : MatchesSemanticPattern(clause, p)}

\* What it finds in clauses when nothing goes wrong: a set of deviations, each at
\* the position of its clause, for a list in the order of clauses and patterns.
Deviations(clauses, m) ==
    UNION {{[at |-> i, clause |-> clauses[i].id, kind |-> f.kind, severity |-> f.severity] :
                f \in Deviating(clauses[i], m)} : i \in DOMAIN clauses}

Semantic(d) == \E p \in SemanticPatterns : p.kind = d.kind

-----------------------------------------------------------------------------
(* Jurisdiction and precedents                                             *)

Mentions(text, terms) == \E t \in terms : Occurs(t, text)

\* The first of them that is mentioned.
JurisdictionOf(text) ==
    IF Mentions(text, {"gdpr", "european union", "eu regulation", "data protection regulation"}) THEN "EU"
    ELSE IF Mentions(text, {"delaware law", "new york law", "california law", "governed by the laws of"}) THEN "US"
    ELSE IF Mentions(text, {"english law", "uk law", "courts of england"}) THEN "UK"
    ELSE "unknown"

IndustryOf(text) ==
    IF Mentions(text, {"hipaa", "phi", "medical", "healthcare", "patient data", "baa"}) THEN "healthcare"
    ELSE IF Mentions(text, {"pci dss", "financial", "banking", "sox", "payment card"}) THEN "financial"
    ELSE IF Mentions(text, {"itar", "export control", "classified", "security clearance", "government"}) THEN "defense"
    ELSE IF Mentions(text, {"software", "saas", "api", "cloud", "data processing"}) THEN "technology"
    ELSE "general"

Unknown == [place |-> "unknown", industry |-> "unknown"]

\* Rules, requirements and risk factors follow from the two.
Adaptation(text, m) ==
    [place |-> JurisdictionOf(text),
     industry |-> IF m = "fallback_phase1" THEN "none" ELSE IndustryOf(text)]

\* Jaccard similarity above three tenths.
SimilarText(clause, node) ==
    LET words == {clause.content[i] : i \in DOMAIN clause.content} IN
    10 * Cardinality(words \cap node.content) > 3 * Cardinality(words \cup node.content)

\* _find_real_precedents: any ten clauses of the demo tenant's analysed contracts
\* whose type contains this one's, and of these the similar ones.
RealPrecedents(clause) ==
    LET nodes == {n \in ClauseNodes : n.tenant = DemoTenant /\ n.completed /\ In(clause.type, n.type)}
    IN  {{n \in read : SimilarText(clause, n)} :
            read \in {S \in SUBSET nodes : Cardinality(S) <= 10 /\ (S = nodes \/ Cardinality(S) = 10)}}

Approvals(nodes) == Cardinality({n \in nodes : n.risk \in {"LOW", "MEDIUM"}})

\* Two of the three examples of the code are approved.
ExamplesFor(clause) ==
    IF clause.type \in {"payment", "liability"}
    THEN <<[clause |-> clause.id, count |-> 3, approved |-> 2]>> ELSE <<>>

\* The matches for a clause: real ones, or examples.
Match(clause, nodes) ==
    IF nodes = {} THEN ExamplesFor(clause)
    ELSE <<[clause |-> clause.id, count |-> Cardinality(nodes), approved |-> Approvals(nodes)]>>

\* The optimized tool calls _find_real_precedents without the tenant it needs:
\* each clause raises, and none is matched.
Precedents(clauses, m) ==
    CASE m = "optimized_phase3" -> {<<>>}
      [] m = "fallback_phase1" -> {FlattenSeq([i \in DOMAIN clauses |-> ExamplesFor(clauses[i])])}
      [] OTHER ->
           {FlattenSeq([i \in DOMAIN clauses |-> Match(clauses[i], choice[i])]) :
               choice \in {f \in [DOMAIN clauses -> UNION {RealPrecedents(clauses[i]) : i \in DOMAIN clauses}] :
                              \A i \in DOMAIN clauses : f[i] \in RealPrecedents(clauses[i])}}

-----------------------------------------------------------------------------
(* The tools of an analysis                                                *)

HighRiskTypes == {"Uncapped Liability", "Non-Compete", "Exclusivity", "Ip Ownership Assignment",
    "Termination For Convenience", "Change Of Control", "Minimum Commitment",
    "Unlimited/All-You-Can-Eat-License", "Source Code Escrow", "Post-Termination Services",
    "Covenant Not To Sue"}
LowRiskTypes == {"Document Name", "Parties", "Agreement Date", "Effective Date", "Expiration Date",
    "Governing Law", "Renewal Term", "Notice Period To Terminate Renewal"}

Baseline(clause, violations) == BaselineRiskLevel(clause, violations, HighRiskTypes, LowRiskTypes)

ClausesOf(a) == job[a].clauses

MInit ==
    /\ LInit
    /\ job = [a \in Analyses |-> Nothing]
    /\ stage = [a \in Analyses |-> "idle"]
    /\ method = [a \in Analyses |-> "optimized_phase3"]
    /\ deviations = [a \in Analyses |-> {}]
    /\ jurisdiction = [a \in Analyses |-> Unknown]
    /\ precedents = [a \in Analyses |-> <<>>]
    /\ whole = [a \in Analyses |-> TRUE]
    /\ loaded = [a \in Analyses |-> {}]
    /\ rated = [a \in Analyses |-> <<>>]
    /\ cache = {} /\ faults = 0

Begin(a) ==
    /\ stage[a] = "idle"
    /\ \E c \in Contracts : job' = [job EXCEPT ![a] = c]
    /\ stage' = [stage EXCEPT ![a] = "deviations"]
    /\ UNCHANGED <<feedback, method, found, rating, cache, faults>>

\* What raises in a generation is left to the next, which starts over from the
\* clauses and violations the step was given.
NextGeneration(m) == IF m = "optimized_phase3" THEN "enhanced_phase2_fallback" ELSE "fallback_phase1"

FallBack(a) ==
    /\ method' = [method EXCEPT ![a] = NextGeneration(@)]
    /\ stage' = [stage EXCEPT ![a] = "deviations"]
    /\ loaded' = [loaded EXCEPT ![a] = {}]
    /\ rated' = [rated EXCEPT ![a] = <<>>]
    /\ UNCHANGED job

\* A module that cannot be imported, or anything else the tools do not catch.
\* After the last generation a plan's step fails, and the workflow's node answers
\* three empty results.
Raises(a) ==
    /\ stage[a] \in {"deviations", "jurisdiction", "precedents", "rate"}
    /\ faults < MaxFaults /\ faults' = faults + 1
    /\ IF method[a] # "fallback_phase1" THEN FallBack(a) /\ UNCHANGED found
       ELSE /\ \E end \in {"failed", "done"} : stage' = [stage EXCEPT ![a] = end]
            /\ deviations' = [deviations EXCEPT ![a] = {}]
            /\ precedents' = [precedents EXCEPT ![a] = <<>>]
            /\ jurisdiction' = [jurisdiction EXCEPT ![a] = Unknown]
            /\ whole' = [whole EXCEPT ![a] = FALSE]
            /\ UNCHANGED <<job, method, rating>>
    /\ UNCHANGED <<feedback, cache>>

\* Mutant of CacheKey: the key is made of the tool alone.
MutantCacheKey(a, tool) == <<tool>>

\* cache_result hashes the tool and its argument.
CacheKey(a, tool) == <<tool, IF tool = "deviations" THEN ClausesOf(a) ELSE job[a].text>>

Cached(a, tool) == {e \in cache : method[a] = "optimized_phase3" /\ e.key = CacheKey(a, tool)}

\* What a tool of the first generation found is put into the cache, whatever it is,
\* unless Redis does not answer.
PutIn(a, tool, value, all) ==
    \/ /\ method[a] = "optimized_phase3"
       /\ cache' = {e \in cache : e.key # CacheKey(a, tool)}
                   \cup {[key |-> CacheKey(a, tool), value |-> value, whole |-> all]}
       /\ Cardinality(cache') <= MaxCached
    \/ UNCHANGED cache

FoundDeviations(a, ds, all) ==
    /\ deviations' = [deviations EXCEPT ![a] = ds]
    /\ whole' = [whole EXCEPT ![a] = all]
    /\ stage' = [stage EXCEPT ![a] = "jurisdiction"]
    /\ UNCHANGED <<feedback, job, method, jurisdiction, precedents, rating>>

\* An entry is used unless Redis does not answer.
DeviationsCached(a) ==
    /\ stage[a] = "deviations"
    /\ \E e \in Cached(a, "deviations") : FoundDeviations(a, e.value, e.whole)
    /\ UNCHANGED <<cache, faults>>

\* A pattern that takes longer than a second is left out; a detector that raises
\* answers no deviations.
DetectDeviations(a) ==
    LET all == Deviations(ClausesOf(a), method[a])
        late == {d \in all : method[a] = "optimized_phase3" /\ Semantic(d)}
    IN  /\ stage[a] = "deviations"
        /\ \E lost \in (SUBSET late) \cup {all} :
            LET ds == all \ lost IN
            /\ faults' = faults + Cardinality(lost) /\ faults' <= MaxFaults
            /\ FoundDeviations(a, ds, lost = {})
            /\ PutIn(a, "deviations", ds, lost = {})

FoundJurisdiction(a, place) ==
    /\ jurisdiction' = [jurisdiction EXCEPT ![a] = place]
    /\ stage' = [stage EXCEPT ![a] = "precedents"]
    /\ UNCHANGED <<feedback, job, method, deviations, precedents, whole, rating>>

JurisdictionCached(a) ==
    /\ stage[a] = "jurisdiction"
    /\ \E e \in Cached(a, "jurisdiction") : FoundJurisdiction(a, e.value)
    /\ UNCHANGED <<cache, faults>>

AdaptJurisdiction(a) ==
    LET place == Adaptation(job[a].text, method[a]) IN
    /\ stage[a] = "jurisdiction"
    /\ FoundJurisdiction(a, place)
    /\ PutIn(a, "jurisdiction", place, TRUE)
    /\ UNCHANGED faults

\* A query that fails finds no real precedents; a matcher that raises, nothing.
MatchPrecedents(a) ==
    /\ stage[a] = "precedents"
    /\ \/ /\ \E ms \in Precedents(ClausesOf(a), method[a]) : precedents' = [precedents EXCEPT ![a] = ms]
          /\ UNCHANGED faults
       \/ /\ method[a] = "enhanced_phase2_fallback" /\ faults < MaxFaults
          /\ faults' = faults + 1
          /\ \E ms \in {<<>>} \cup Precedents(ClausesOf(a), "fallback_phase1") :
                precedents' = [precedents EXCEPT ![a] = ms]
    /\ stage' = [stage EXCEPT ![a] = IF method[a] = "optimized_phase3" THEN "rate" ELSE "done"]
    /\ UNCHANGED <<feedback, job, method, deviations, jurisdiction, whole, rating, cache>>

Patterns(a, type) == {p \in loaded[a] : p.type = type}

\* Mutant of Unloaded: patterns are learned anew for every clause.
MutantUnloaded(a, type) == TRUE

Unloaded(a, type) == Patterns(a, type) = {}

ThisClause(a) == ClausesOf(a)[Len(rated[a]) + 1]
MoreToRate(a) == stage[a] = "rate" /\ Len(rated[a]) < Len(ClausesOf(a))

Rated(a, patterns) ==
    LET c == ThisClause(a) IN
    /\ rated' = [rated EXCEPT ![a] =
                    Append(@, EnhancedAnalysis(c, Baseline(c, job[a].violations), patterns))]
    /\ UNCHANGED <<feedback, job, stage, method, found, cache>>

\* enhance_analysis of a clause whose type was met before in this analysis.
RateClause(a) ==
    /\ MoreToRate(a)
    /\ ~Unloaded(a, ThisClause(a).type)
    /\ Rated(a, (CHOOSE p \in Patterns(a, ThisClause(a).type) : TRUE).patterns)
    /\ UNCHANGED <<loaded, faults>>

\* A type met for the first time; decisions that cannot be read are none.
LearnAndRateClause(a) ==
    LET type == ThisClause(a).type IN
    /\ MoreToRate(a)
    /\ Unloaded(a, type)
    /\ \/ /\ ~LearningRaises(type)
          /\ Rated(a, LearnedPatterns(type))
          /\ UNCHANGED faults
          /\ loaded' = [loaded EXCEPT ![a] = @ \cup {[type |-> type, patterns |-> LearnedPatterns(type)]}]
       \/ /\ faults < MaxFaults /\ faults' = faults + 1
          /\ Rated(a, {})
          /\ loaded' = [loaded EXCEPT ![a] = @ \cup {[type |-> type, patterns |-> {}]}]

\* Nothing between here and the step catches what learning raises.
RatingRaises(a) ==
    /\ MoreToRate(a)
    /\ Unloaded(a, ThisClause(a).type) /\ LearningRaises(ThisClause(a).type)
    /\ FallBack(a)
    /\ UNCHANGED <<feedback, found, cache, faults>>

\* PlanExecution and Orchestrator have what the plan and the workflow make of it.
Finish(a) ==
    /\ stage[a] = "rate" /\ Len(rated[a]) = Len(ClausesOf(a))
    /\ stage' = [stage EXCEPT ![a] = "done"]
    /\ UNCHANGED <<feedback, job, method, found, rating, cache, faults>>

Expire ==
    /\ \E e \in cache : cache' = cache \ {e}
    /\ UNCHANGED <<feedback, analysis, faults>>

Mitigate(a) ==
    \/ Begin(a) \/ Raises(a)
    \/ DeviationsCached(a) \/ DetectDeviations(a)
    \/ JurisdictionCached(a) \/ AdaptJurisdiction(a)
    \/ MatchPrecedents(a)
    \/ RateClause(a) \/ LearnAndRateClause(a) \/ RatingRaises(a)
    \/ Finish(a)

MNext ==
    \/ \E a \in Analyses : Mitigate(a)
    \/ Feedback /\ UNCHANGED <<analysis, cache, faults>>
    \/ Expire

MSpec == MInit /\ [][MNext]_mvars

-----------------------------------------------------------------------------
(* Properties                                                              *)

\* feedback_learning_system.py:301 "At least 2 occurrences": whatever decisions
\* arrive meanwhile, a clause's risk level is its baseline, or one that at least
\* two of the decisions on its type, of MinDecisions at least, put in place of
\* just that baseline, which is kept beside it.
AdjustmentsAreEarned ==
    \A a \in Analyses : \A i \in DOMAIN rated[a] :
        LET clause == ClausesOf(a)[i]
            baseline == Baseline(clause, job[a].violations)
            r == rated[a][i]
        IN  \/ r.risk = baseline /\ r.original = Nothing
            \/ /\ r.original = baseline
               /\ Cardinality(OfType(clause.type)) >= MinDecisions
               /\ \E j, k \in OfType(clause.type) :
                    /\ j # k
                    /\ Move(j) = <<baseline, r.risk>>
                    /\ Move(k) = <<baseline, r.risk>>

\* Two clauses of a type that start from one risk level end with one, in one
\* analysis, although decisions on the type arrive between the two.
AlikeClausesAreRatedAlike ==
    \A a \in Analyses : \A i, j \in DOMAIN rated[a] :
        LET clauses == ClausesOf(a)
            baseline(k) == Baseline(clauses[k], job[a].violations)
        IN  clauses[i].type = clauses[j].type /\ baseline(i) = baseline(j)
                => rated[a][i].risk = rated[a][j].risk

\* The deviations an analysis has are of its own clauses and the jurisdiction of
\* its own text, whatever the cache has from other analyses and
\* whichever tools are fallen back to; none is missing but for a tool or a
\* pattern that failed, in this analysis or in the one that filled the entry.
ToolsAnswerTheirContract ==
    \A a \in Analyses : stage[a] \in {"precedents", "rate", "done"} =>
        LET all == Deviations(ClausesOf(a), method[a]) IN
        /\ deviations[a] \subseteq all
        /\ whole[a] => deviations[a] = all
        /\ jurisdiction[a] \in {Adaptation(job[a].text, method[a]), Unknown}
        /\ whole[a] => jurisdiction[a] # Unknown
=============================================================================
