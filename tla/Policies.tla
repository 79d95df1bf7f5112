------------------------------- MODULE Policies -------------------------------
(***************************************************************************)
(* Company policies: a tenant uploads a policy text, which is cut into     *)
(* chunks, stored, read back and turned into rules                         *)
(* (backend/api/policy_api.py, agents/policy_agents.py,                    *)
(* infrastructure/chunking), and contracts are checked against the rules   *)
(* that apply to the tenant (agents/policy_rule_resolver.py,               *)
(* PolicyCheckerTool).                                                     *)
(*                                                                         *)
(* A step is one query or one LLM call.  The steps of one process do not   *)
(* interleave: the agents' awaits never suspend.  API processes and Celery *)
(* workers do interleave, and each may die between two steps.              *)
(***************************************************************************)
EXTENDS Naturals, Sequences, SequencesExt

CONSTANTS
    Process,       \* API processes and workers
    Tenant,
    None,          \* no tenant
    PolicyId,      \* ids that uploads draw
    Text,          \* policy texts: sequences of lines, see Line
    ContractType,
    Clause,        \* clauses of the contracts that are checked
    DefaultRules   \* DEFAULT_POLICY_RULES

ASSUME NoneAssumption == None \notin Tenant /\ None \notin PolicyId
\* Every rule of DEFAULT_POLICY_RULES applies to "general".
ASSUME DefaultAssumption ==
    /\ DefaultRules # {}
    /\ \A r \in DefaultRules : r.id[1] = None /\ "general" \in r.applies_to

VARIABLES
    uploads,  \* what became of each upload
    chunked,  \* Chunk nodes of each policy, as get_chunks returns them
    policy,   \* PolicyDocument nodes: their tenant, and whether they are active
    rules,    \* PolicyRule nodes
    pc,       \* the next step of each process
    job,      \* what it is working on
    applied,  \* the rules a check judges by
    clauses,  \* the clauses it has not looked at yet
    before    \* history: the tenant's rules when the check began, as long as
              \* every query of the check succeeded

graph == <<chunked, policy, rules>>
check == <<applied, clauses, before>>
vars == <<uploads, graph, pc, job, check>>

-----------------------------------------------------------------------------
(* PolicyChunkingStrategy.  A sentence is the set of the telling words in  *)
(* it, "brief" if it has fewer than 20 characters; a line is a heading by  *)
(* its number, starts with a letter, or starts otherwise.                  *)

Obliging == {"shall", "must"}
Advising == {"should"}
Forbidding == {"prohibited", "forbidden"}
Word == Obliging \cup Advising \cup Forbidding
          \cup {"breach", "liability", "payment", "brief"}
Line == [start : {"heading", "letter", "other"}, sentences : Seq(SUBSET Word)]

\* section_patterns: a line that starts with a letter is a header as well when
\* its first sentence obliges somebody to something.
IsHeader(line) ==
    \/ line.start = "heading"
    \/ line.start = "letter" /\ Head(line.sentences) \cap Obliging # {}

\* rule_patterns, in their order: what must not be done is mandatory.
RuleType(s) ==
    IF s \cap Obliging # {} THEN "mandatory"
    ELSE IF s \cap Advising # {} THEN "recommended"
    ELSE IF s \cap Forbidding # {} THEN "prohibited"
    ELSE "general"

Severity(s) ==
    LET type == RuleType(s) IN
    IF type = "general" THEN "MEDIUM"
    ELSE IF "breach" \in s THEN "CRITICAL"
    ELSE IF type = "prohibited" \/ "liability" \in s THEN "HIGH"
    ELSE IF type = "mandatory" THEN "MEDIUM" ELSE "LOW"

AppliesTo(s) ==
    LET named == s \cap {"liability", "payment"}
    IN  IF named = {} THEN {"general"} ELSE named

ChunkOf(s, title) ==
    [content |-> s, chunk_type |-> "policy_rule", rule_type |-> RuleType(s),
     severity |-> Severity(s), applies_to |-> AppliesTo(s), section_title |-> title]

\* The sections of a text and in them its rules, a line at a time: a header
\* starts a section, any other line gives the section its sentences.
AddLine(line, soFar) ==
    IF IsHeader(line) THEN [title |-> line, chunks |-> soFar.chunks]
    ELSE LET long == SelectSeq(line.sentences, LAMBDA s : "brief" \notin s)
         IN  [title |-> soFar.title,
              chunks |-> soFar.chunks \o
                         [i \in DOMAIN long |-> ChunkOf(long[i], soFar.title)]]

Chunks(text) ==
    FoldLeft(LAMBDA soFar, line : AddLine(line, soFar),
             [title |-> "Introduction", chunks |-> <<>>], text).chunks

\* PolicyContentValidator: two of its five words appear somewhere.
Accepted(text) ==
    LET said == UNION {UNION Range(line.sentences) : line \in Range(text)}
    IN  \E v, w \in said \cap (Obliging \cup {"prohibited"}) : v # w

\* Mutant of Stored: the Chunk nodes keep what the strategy found out.
MutantStored(chunk) == chunk

\* What store_chunks keeps of a chunk and get_chunks returns.
Stored(chunk) == [content |-> chunk.content, chunk_type |-> chunk.chunk_type]

Get(chunk, field, default) == IF field \in DOMAIN chunk THEN chunk[field] ELSE default

\* The rule PolicyExtractionAgent makes of the n-th chunk of policy d.
RuleOf(d, n, chunk) ==
    [id |-> <<d, n>>, content |-> chunk.content,
     rule_type |-> Get(chunk, "rule_type", "general"),
     applies_to |-> Get(chunk, "applies_to", {"general"}),
     severity |-> Get(chunk, "severity", "MEDIUM")]

-----------------------------------------------------------------------------
RuleIds(rs) == {r.id : r \in rs}

Label == {"idle", "store_document", "store_chunk", "get_chunks", "store_rule",
          "list", "applicable", "evaluate"}

NoJob == [op |-> "none", tenant |-> None, policy |-> None, contract_type |-> "general"]

Init ==
    /\ uploads = [d \in PolicyId |-> [state |-> "unused", tenant |-> None, text |-> <<>>]]
    /\ chunked = [d \in PolicyId |-> <<>>]
    /\ policy = [d \in PolicyId |-> [tenant |-> None, active |-> FALSE]]
    /\ rules = {}
    /\ pc = [p \in Process |-> "idle"]
    /\ job = [p \in Process |-> NoJob]
    /\ applied = [p \in Process |-> {}]
    /\ clauses = [p \in Process |-> {}]
    /\ before = [p \in Process |-> {}]

Goto(p, there) == pc' = [pc EXCEPT ![p] = there]
Take(p, new) == job' = [job EXCEPT ![p] = new]
Become(d, s) == uploads' = [uploads EXCEPT ![d] = [state |-> s, tenant |-> uploads[d].tenant,
                                                   text |-> uploads[d].text]]

\* The request is answered, whatever the answer, and forgotten.
Finish(p) ==
    /\ Goto(p, "idle")
    /\ Take(p, NoJob)
    /\ applied' = [applied EXCEPT ![p] = {}]
    /\ clauses' = [clauses EXCEPT ![p] = {}]
    /\ before' = [before EXCEPT ![p] = {}]

-----------------------------------------------------------------------------
(* POST /api/policies/upload                                               *)

Upload(p, t, d, text) ==
    /\ pc[p] = "idle" /\ uploads[d].state = "unused" /\ Accepted(text)
    /\ uploads' = [uploads EXCEPT ![d] = [state |-> "running", tenant |-> t, text |-> text]]
    /\ Take(p, [op |-> "upload", tenant |-> t, policy |-> d, contract_type |-> "general"])
    /\ Goto(p, "store_document")
    /\ UNCHANGED <<chunked, policy, rules, check>>

\* store_chunks; the average of no chunks divides by zero, and whatever it
\* raises becomes a result nobody looks at.
StoreDocument(p) ==
    /\ pc[p] = "store_document"
    /\ \E failed \in BOOLEAN :
         Goto(p, IF failed \/ Chunks(uploads[job[p].policy].text) = <<>>
                 THEN "get_chunks" ELSE "store_chunk")
    /\ UNCHANGED <<uploads, graph, job, check>>

StoreChunk(p) ==
    LET d == job[p].policy
        chunks == Chunks(uploads[d].text)
        n == Len(chunked[d]) + 1
    IN  /\ pc[p] = "store_chunk"
        /\ chunked' = [chunked EXCEPT ![d] = [i \in 1..n |-> Stored(chunks[i])]]
        /\ Goto(p, IF n = Len(chunks) THEN "get_chunks" ELSE "store_chunk")
        /\ UNCHANGED <<uploads, policy, rules, job, check>>

StoreChunkFails(p) ==
    /\ pc[p] = "store_chunk"
    /\ Goto(p, "get_chunks")
    /\ UNCHANGED <<uploads, graph, job, check>>

\* A failing get_chunks finds no chunks.  Without chunks there are no rules,
\* and the upload is a success.
GetChunks(p) ==
    LET d == job[p].policy IN
    /\ pc[p] = "get_chunks"
    /\ \E failed \in BOOLEAN :
         IF failed \/ chunked[d] = <<>>
         THEN Finish(p) /\ Become(d, "success")
         ELSE Goto(p, "store_rule") /\ UNCHANGED <<uploads, job, check>>
    /\ UNCHANGED graph

\* The n-th chunk of d is the first that has no rule.
NextRule(d, n) == \A i \in 1..n : (i < n) <=> (<<d, i>> \in RuleIds(rules))

\* _store_policy_rules: one query merges the PolicyDocument and creates a rule.
StoreRule(p) ==
    LET d == job[p].policy IN
    /\ pc[p] = "store_rule"
    /\ \E n \in DOMAIN chunked[d] :
         /\ NextRule(d, n)
         /\ policy' = [policy EXCEPT ![d] = [tenant |-> job[p].tenant,
                                             active |-> (n = 1) \/ policy[d].active]]
         /\ rules' = rules \cup {RuleOf(d, n, chunked[d][n])}
         /\ IF n = Len(chunked[d])
            THEN Finish(p) /\ Become(d, "success")
            ELSE UNCHANGED <<uploads, pc, job, check>>
    /\ UNCHANGED chunked

\* Mutant of StoreRuleFails: the failure is swallowed, as that of a chunk is.
MutantStoreRuleFails(p) ==
    /\ pc[p] = "store_rule"
    /\ Finish(p) /\ Become(job[p].policy, "success")
    /\ UNCHANGED graph

\* The exception reaches the agent: the upload is an error, and keeps the rules
\* it has stored.
StoreRuleFails(p) ==
    /\ pc[p] = "store_rule"
    /\ Finish(p) /\ Become(job[p].policy, "error")
    /\ UNCHANGED graph

\* DELETE /api/policies/{policy_id}.
Delete(t, d) ==
    /\ policy[d].tenant = t
    /\ policy' = [policy EXCEPT ![d] = [tenant |-> t, active |-> FALSE]]
    /\ UNCHANGED <<uploads, chunked, rules, pc, job, check>>

-----------------------------------------------------------------------------
(* A check, by the analysis or by POST /api/policies/compliance/check      *)

Owned(t) == {d \in PolicyId : policy[d].tenant = t}
Matching(rs, type) == {r \in rs : type \in r.applies_to \/ "general" \in r.applies_to}
Defaults(type) == Matching(DefaultRules, type)

\* Mutant of Applicable: policies that were deleted are left out here only.
MutantApplicable(t, type) ==
    Matching({r \in rules : r.id[1] \in Owned(t) /\ policy[r.id[1]].active}, type)

\* Mutant of Applicable: the rules of every tenant.
MutantForeign(t, type) == Matching(rules, type)

\* get_applicable_policies, which does not look at active.
Applicable(t, type) == Matching({r \in rules : r.id[1] \in Owned(t)}, type)

\* The analysis may know no tenant; the route takes it from the token.
Check(p, op, t, type) ==
    /\ pc[p] = "idle"
    /\ op = "route" => t # None
    /\ Take(p, [op |-> op, tenant |-> t, policy |-> None, contract_type |-> type])
    /\ clauses' = [clauses EXCEPT ![p] = Clause]
    /\ IF t = None
       THEN /\ applied' = [applied EXCEPT ![p] = Defaults(type)]
            /\ Goto(p, "evaluate")
            /\ UNCHANGED before
       ELSE /\ before' = [before EXCEPT ![p] = RuleIds(Applicable(t, type))]
            /\ Goto(p, "list")
            /\ UNCHANGED applied
    /\ UNCHANGED <<uploads, graph>>

\* Clauses are judged by rs.
Resolve(p, rs) ==
    /\ Goto(p, "evaluate")
    /\ applied' = [applied EXCEPT ![p] = rs]
    /\ UNCHANGED <<uploads, graph, job, clauses>>

\* get_policies_by_tenant.  It also asks for the rules of each policy, uses
\* none of them, and fails if any of these queries does.
ListPolicies(p) ==
    /\ pc[p] = "list"
    /\ IF Owned(job[p].tenant) = {}
       THEN Resolve(p, Defaults(job[p].contract_type))
       ELSE Goto(p, "applicable") /\ UNCHANGED <<uploads, graph, job, applied, clauses>>
    /\ UNCHANGED before

GetApplicable(p) ==
    /\ pc[p] = "applicable"
    /\ Resolve(p, Applicable(job[p].tenant, job[p].contract_type))
    /\ UNCHANGED before

\* A failing query of the two means the default rules.
ResolveFails(p) ==
    /\ pc[p] \in {"list", "applicable"}
    /\ Resolve(p, Defaults(job[p].contract_type))
    /\ before' = [before EXCEPT ![p] = {}]

\* A clause over a threshold of the deterministic table, one the LLM judged, or
\* one the analysis reports as not evaluated because no provider answered.
Evaluate(p, c) ==
    /\ pc[p] = "evaluate" /\ c \in clauses[p]
    /\ clauses' = [clauses EXCEPT ![p] = @ \ {c}]
    /\ UNCHANGED <<uploads, graph, pc, job, applied, before>>

\* The route answers 500 instead.
EvaluateFails(p) ==
    /\ pc[p] = "evaluate" /\ clauses[p] # {} /\ job[p].op = "route"
    /\ Finish(p)
    /\ UNCHANGED <<uploads, graph>>

Report(p) ==
    /\ pc[p] = "evaluate" /\ clauses[p] = {}
    /\ Finish(p)
    /\ UNCHANGED <<uploads, graph>>

-----------------------------------------------------------------------------
\* The process dies; an upload it was handling is never answered.
Die(p) ==
    /\ pc[p] # "idle"
    /\ Finish(p)
    /\ IF job[p].op = "upload" THEN Become(job[p].policy, "lost") ELSE UNCHANGED uploads
    /\ UNCHANGED graph

Next ==
    \/ \E p \in Process :
         \/ \E t \in Tenant, d \in PolicyId, text \in Text : Upload(p, t, d, text)
         \/ StoreDocument(p) \/ StoreChunk(p) \/ StoreChunkFails(p)
         \/ GetChunks(p) \/ StoreRule(p) \/ StoreRuleFails(p)
         \/ \E op \in {"analysis", "route"}, t \in Tenant \cup {None}, type \in ContractType :
              Check(p, op, t, type)
         \/ ListPolicies(p) \/ GetApplicable(p) \/ ResolveFails(p)
         \/ \E c \in Clause : Evaluate(p, c)
         \/ EvaluateFails(p) \/ Report(p) \/ Die(p)
    \/ \E t \in Tenant, d \in PolicyId : Delete(t, d)

Spec == Init /\ [][Next]_vars

-----------------------------------------------------------------------------
(* Properties                                                              *)

\* Types, and where an upload is while its process works on it: an id is of one
\* upload, and no process goes on with an upload that is over.
TypeOK ==
    /\ \A d \in PolicyId :
         /\ uploads[d].state \in {"unused", "running", "success", "error", "lost"}
         /\ uploads[d].tenant \in Tenant \cup {None}
         /\ policy[d] \in [tenant : Tenant \cup {None}, active : BOOLEAN]
    /\ RuleIds(rules) \subseteq PolicyId \X (Nat \ {0})
    /\ pc \in [Process -> Label]
    /\ clauses \in [Process -> SUBSET Clause]
    /\ \A p \in Process :
         /\ job[p].op \in {"none", "upload", "analysis", "route"}
         /\ job[p].tenant \in Tenant \cup {None}
         /\ job[p].op = "upload" =>
              /\ uploads[job[p].policy].state = "running"
              /\ \A q \in Process \ {p} : job[q].policy # job[p].policy

\* A contract is judged by rules of its own tenant or by the default rules,
\* never by a mixture and never by another tenant's, whatever is uploaded,
\* deleted or failing meanwhile (get_applicable_rules, policy_rule_resolver.py).
OwnRulesOrDefaults ==
    \A p \in Process : pc[p] = "evaluate" =>
        \/ applied[p] = Defaults(job[p].contract_type)
        \/ /\ job[p].tenant # None
           /\ \A r \in applied[p] : policy[r.id[1]].tenant = job[p].tenant

\* There is always a rule to judge by: "an infrastructure hiccup shouldn't
\* silently skip policy checking" (policy_rule_resolver.py:24).  evaluate_clause
\* returns no violations, without a word, when it is given no rules.
NeverUnchecked == \A p \in Process : pc[p] = "evaluate" => applied[p] # {}

\* A check that was answered by the database judges by every rule that applied
\* when it began, and falls back on the default rules only if there was none:
\* the list and the rules are two queries, and uploads run between them.
StoredRulesApply ==
    \A p \in Process : pc[p] = "evaluate" => before[p] \subseteq RuleIds(applied[p])

\* An upload that was answered with success has a rule for each chunk that is
\* stored, or has no rules at all: what store_chunks and get_chunks swallow
\* never leaves part of a policy behind chunks that say otherwise.
SuccessIsAllOrNothing ==
    \A d \in PolicyId : uploads[d].state = "success" =>
        LET stored == {r \in rules : r.id[1] = d}
        IN  \/ stored = {}
            \/ \A n \in DOMAIN chunked[d] :
                 \E r \in stored : r.id = <<d, n>> /\ r.content = chunked[d][n].content
=============================================================================
