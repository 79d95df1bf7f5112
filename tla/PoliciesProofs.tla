---------------------------- MODULE PoliciesProofs ----------------------------
(***************************************************************************)
(* For any processes, tenants, texts and default rules: a check always has *)
(* rules to judge by, they are its tenant's own or the default ones, and   *)
(* all that applied when it began; a policy uploaded with success has a    *)
(* rule for each of its chunks, or none.                                   *)
(*                                                                         *)
(* A policy document appears together with its first rule, no rule goes    *)
(* away and no policy changes its tenant; and as the Chunk nodes keep      *)
(* nothing of what a rule applies to, every stored rule applies to all.    *)
(***************************************************************************)
EXTENDS Policies, TLAPS

State == {"unused", "running", "success", "error", "lost"}
Jobs == [op : {"none", "upload", "analysis", "route"}, tenant : Tenant \cup {None},
         policy : PolicyId \cup {None}, contract_type : ContractType \cup {"general"}]

Typed ==
    /\ uploads \in [PolicyId -> [state : State, tenant : Tenant \cup {None}, text : Text \cup {<<>>}]]
    /\ policy \in [PolicyId -> [tenant : Tenant \cup {None}, active : BOOLEAN]]
    /\ pc \in [Process -> Label]
    /\ job \in [Process -> Jobs]
    /\ chunked = [d \in PolicyId |-> chunked[d]]
    /\ applied = [p \in Process |-> applied[p]]

Ruled ==
    /\ \A r \in rules : /\ r.id[1] \in PolicyId /\ "general" \in r.applies_to
                        /\ policy[r.id[1]].tenant # None
    /\ \A d \in PolicyId : policy[d].tenant # None => \E r \in rules : r.id[1] = d

Bare == \A d \in PolicyId : \A n \in DOMAIN chunked[d] : "applies_to" \notin DOMAIN chunked[d][n]

Known ==
    \A d \in PolicyId : policy[d].tenant # None =>
        uploads[d].state # "unused" /\ uploads[d].tenant = policy[d].tenant

Uploading(p) ==
    pc[p] \in {"store_document", "store_chunk", "get_chunks", "store_rule"} =>
        /\ job[p].tenant \in Tenant /\ job[p].policy \in PolicyId
        /\ uploads[job[p].policy].state # "unused"
        /\ uploads[job[p].policy].tenant = job[p].tenant

Resolving(p) ==
    /\ pc[p] \in {"list", "applicable", "evaluate"} => job[p].op # "upload"
    /\ pc[p] \in {"list", "applicable"} => job[p].tenant # None
    /\ pc[p] = "applicable" => Owned(job[p].tenant) # {}

Judging(p) ==
    pc[p] = "evaluate" =>
        /\ applied[p] # {}
        /\ \/ applied[p] = Defaults(job[p].contract_type)
           \/ /\ job[p].tenant # None
              /\ \A r \in applied[p] : r.id[1] \in PolicyId /\ policy[r.id[1]].tenant = job[p].tenant

Sound(p) == Uploading(p) /\ Resolving(p) /\ Judging(p)

PoliciesInv == Typed /\ Ruled /\ Bare /\ Known /\ \A p \in Process : Sound(p)

LEMMA InitInv == Init => PoliciesInv
<1> SUFFICES ASSUME Init PROVE PoliciesInv
  OBVIOUS
<1>1. Typed
  BY DEF Init, Typed, State, Jobs, NoJob, Label
<1>2. Ruled /\ Known BY DEF Init, Ruled, Known
<1>3. Bare BY DEF Init, Bare
<1>4. \A p \in Process : Sound(p)
  BY DEF Init, Sound, Uploading, Resolving, Judging
<1>5. QED BY <1>1, <1>2, <1>3, <1>4 DEF PoliciesInv

OwnersStay == \A d \in PolicyId : policy[d].tenant # None => policy'[d].tenant = policy[d].tenant
UploadsStay ==
    \A d \in PolicyId : uploads[d].state # "unused" =>
        uploads'[d].state # "unused" /\ uploads'[d].tenant = uploads[d].tenant

\* What one process does leaves the others sound.
LEMMA OthersSound ==
    ASSUME PoliciesInv, NEW p, OwnersStay, UploadsStay,
           \A q \in Process \ {p} : pc'[q] = pc[q] /\ job'[q] = job[q] /\ applied'[q] = applied[q]
    PROVE  \A q \in Process \ {p} : Sound(q)'
<1> SUFFICES ASSUME NEW q \in Process \ {p} PROVE Sound(q)'
  OBVIOUS
<1>1. /\ pc'[q] = pc[q] /\ job'[q] = job[q] /\ applied'[q] = applied[q]
      /\ Uploading(q) /\ Resolving(q) /\ Judging(q)
  BY DEF PoliciesInv, Sound
<1>2. Uploading(q)' BY <1>1 DEF Uploading, UploadsStay
<1>3. Resolving(q)' BY <1>1 DEF Resolving, Owned, OwnersStay
<1>4. Judging(q)' BY <1>1 DEF Judging, OwnersStay, Defaults, Matching
<1>5. QED BY <1>2, <1>3, <1>4 DEF Sound

\* The request of p ends: uploads change their state at most.
LEMMA FinishStep ==
    ASSUME PoliciesInv, NEW p \in Process, Finish(p),
           Typed', Ruled', Bare', Known', OwnersStay, UploadsStay
    PROVE  PoliciesInv'
<1>1. pc' = [pc EXCEPT ![p] = "idle"] /\ job' = [job EXCEPT ![p] = NoJob]
      /\ applied' = [applied EXCEPT ![p] = {}]
  BY DEF Finish, Goto, Take
<1>2. pc'[p] = "idle"
  BY <1>1 DEF PoliciesInv, Typed
<1>3. \A q \in Process \ {p} : pc'[q] = pc[q] /\ job'[q] = job[q] /\ applied'[q] = applied[q]
  BY <1>1 DEF PoliciesInv, Typed
<1>4. \A q \in Process \ {p} : Sound(q)'
  BY <1>3, OthersSound
<1>5. Sound(p)' BY <1>2 DEF Sound, Uploading, Resolving, Judging
<1>6. QED BY <1>4, <1>5 DEF PoliciesInv

\* The variables of a finished process are typed.
LEMMA FinishTypes ==
    ASSUME PoliciesInv, NEW p \in Process, Finish(p)
    PROVE  /\ pc' \in [Process -> Label] /\ job' \in [Process -> Jobs]
           /\ applied' = [q \in Process |-> applied'[q]]
<1>1. NoJob \in Jobs /\ "idle" \in Label BY DEF NoJob, Jobs, Label
<1>2. QED BY <1>1 DEF PoliciesInv, Typed, Finish, Goto, Take

LEMMA BecomeFacts ==
    ASSUME PoliciesInv, NEW d \in PolicyId, NEW s \in State \ {"unused"}, Become(d, s)
    PROVE  /\ UploadsStay
           /\ uploads' \in [PolicyId -> [state : State, tenant : Tenant \cup {None}, text : Text \cup {<<>>}]]
           /\ \A e \in PolicyId : uploads'[e].tenant = uploads[e].tenant
BY DEF PoliciesInv, Typed, Become, UploadsStay, State

\* p moves on, nothing else changes but its own variables.
LEMMA MoveStep ==
    ASSUME PoliciesInv, NEW p \in Process, NEW label \in Label,
           UNCHANGED <<uploads, policy, rules, job>>, Bare',
           chunked' = [d \in PolicyId |-> chunked'[d]],
           pc' = [pc EXCEPT ![p] = label],
           \E rs : applied' = [applied EXCEPT ![p] = rs], Sound(p)'
    PROVE  PoliciesInv'
<1>1. OwnersStay /\ UploadsStay BY DEF OwnersStay, UploadsStay
<1>2. \A q \in Process \ {p} : pc'[q] = pc[q] /\ job'[q] = job[q] /\ applied'[q] = applied[q]
  BY DEF PoliciesInv, Typed
<1>3. \A q \in Process \ {p} : Sound(q)' BY <1>1, <1>2, OthersSound
<1>4. Typed' BY DEF PoliciesInv, Typed
<1>5. Ruled' /\ Known' BY DEF PoliciesInv, Ruled, Known
<1>6. QED BY <1>3, <1>4, <1>5 DEF PoliciesInv

-----------------------------------------------------------------------------
LEMMA UploadStep ==
    ASSUME PoliciesInv, NEW p \in Process, NEW t \in Tenant, NEW d \in PolicyId, NEW text \in Text,
           Upload(p, t, d, text)
    PROVE  PoliciesInv'
<1> DEFINE new == [op |-> "upload", tenant |-> t, policy |-> d, contract_type |-> "general"]
           row == [state |-> "running", tenant |-> t, text |-> text]
<1>1. /\ uploads[d].state = "unused" /\ UNCHANGED <<chunked, policy, rules, applied>>
      /\ uploads' = [uploads EXCEPT ![d] = row]
      /\ job' = [job EXCEPT ![p] = new] /\ pc' = [pc EXCEPT ![p] = "store_document"]
  BY DEF Upload, Take, Goto, check
<1>2. new \in Jobs /\ row \in [state : State, tenant : Tenant \cup {None}, text : Text \cup {<<>>}]
  BY DEF Jobs, State
<1>3. Typed'
  BY <1>1, <1>2 DEF PoliciesInv, Typed, Label
<1>4. policy[d].tenant = None BY <1>1 DEF PoliciesInv, Known
<1>5. OwnersStay /\ UploadsStay
  BY <1>1 DEF OwnersStay, UploadsStay, PoliciesInv, Typed
<1>6. Known' BY <1>1, <1>4 DEF PoliciesInv, Typed, Known
<1>7. Ruled' /\ Bare' BY <1>1 DEF PoliciesInv, Ruled, Bare
<1>8. \A q \in Process \ {p} : pc'[q] = pc[q] /\ job'[q] = job[q] /\ applied'[q] = applied[q]
  BY <1>1 DEF PoliciesInv, Typed
<1>9. \A q \in Process \ {p} : Sound(q)' BY <1>5, <1>8, OthersSound
<1>10. pc'[p] = "store_document" /\ job'[p] = new /\ uploads'[d] = row
  BY <1>1 DEF PoliciesInv, Typed
<1>11. Sound(p)'
  BY <1>10 DEF Sound, Uploading, Resolving, Judging
<1>12. QED BY <1>3, <1>6, <1>7, <1>9, <1>11 DEF PoliciesInv

LEMMA StoreDocumentStep ==
    ASSUME PoliciesInv, NEW p \in Process, StoreDocument(p) \/ StoreChunkFails(p)
    PROVE  PoliciesInv'
<1>1. /\ pc[p] \in {"store_document", "store_chunk"}
      /\ UNCHANGED <<uploads, chunked, policy, rules, job, applied>>
      /\ \E label \in {"get_chunks", "store_chunk"} : pc' = [pc EXCEPT ![p] = label]
  BY DEF StoreDocument, StoreChunkFails, Goto, graph, check
<1>2. PICK label \in {"get_chunks", "store_chunk"} : pc' = [pc EXCEPT ![p] = label]
  BY <1>1
<1>3. pc'[p] = label /\ label \in Label
  BY <1>2 DEF PoliciesInv, Typed, Label
<1>4. Sound(p)'
  BY <1>1, <1>3 DEF PoliciesInv, Sound, Uploading, Resolving, Judging
<1>5. applied' = [applied EXCEPT ![p] = applied[p]] /\ chunked' = [d \in PolicyId |-> chunked'[d]]
  BY <1>1 DEF PoliciesInv, Typed
<1>6. Bare' BY <1>1 DEF PoliciesInv, Bare
<1>7. QED BY <1>1, <1>2, <1>3, <1>4, <1>5, <1>6, MoveStep

LEMMA StoreChunkStep ==
    ASSUME PoliciesInv, NEW p \in Process, StoreChunk(p)
    PROVE  PoliciesInv'
<1> DEFINE d == job[p].policy
           chunks == Chunks(uploads[d].text)
           n == Len(chunked[d]) + 1
<1>1. /\ pc[p] = "store_chunk"
      /\ UNCHANGED <<uploads, policy, rules, job, applied>>
      /\ chunked' = [chunked EXCEPT ![d] = [i \in 1..n |-> Stored(chunks[i])]]
      /\ \E label \in {"get_chunks", "store_chunk"} : pc' = [pc EXCEPT ![p] = label]
  BY DEF StoreChunk, Goto, check
<1>2. PICK label \in {"get_chunks", "store_chunk"} : pc' = [pc EXCEPT ![p] = label]
  BY <1>1
<1>3. pc'[p] = label /\ label \in Label
  BY <1>2 DEF PoliciesInv, Typed, Label
<1>4. Sound(p)'
  BY <1>1, <1>3 DEF PoliciesInv, Sound, Uploading, Resolving, Judging
<1>5. applied' = [applied EXCEPT ![p] = applied[p]]
  BY <1>1 DEF PoliciesInv, Typed
<1>6. chunked' = [e \in PolicyId |-> chunked'[e]]
  <2> HIDE DEF d, n, chunks
  <2>1. QED BY <1>1 DEF PoliciesInv, Typed
<1>7. Bare'
  <2>1. \A i : "applies_to" \notin DOMAIN Stored(chunks[i])
    BY DEF Stored
  <2> HIDE DEF d, n, chunks
  <2>2. SUFFICES ASSUME NEW e \in PolicyId, NEW i \in DOMAIN chunked'[e]
                 PROVE  "applies_to" \notin DOMAIN chunked'[e][i]
    BY DEF Bare
  <2>3. CASE e = d
    <3>1. chunked'[e] = [j \in 1..n |-> Stored(chunks[j])]
      BY <1>1, <2>3 DEF PoliciesInv, Typed
    <3>2. QED BY <3>1, <2>1
  <2>4. CASE e # d
    <3>1. chunked'[e] = chunked[e]
      BY <1>1, <2>4 DEF PoliciesInv, Typed
    <3>2. QED BY <3>1 DEF PoliciesInv, Bare
  <2>5. QED BY <2>3, <2>4
<1>8. QED BY <1>1, <1>2, <1>3, <1>4, <1>5, <1>6, <1>7, MoveStep

\* An upload ends without a change of the graph.
LEMMA EndStep ==
    ASSUME PoliciesInv, NEW p \in Process, NEW s \in State \ {"unused"}, Finish(p), UNCHANGED graph,
           UNCHANGED uploads \/ (job[p].policy \in PolicyId /\ Become(job[p].policy, s)
                                 /\ uploads[job[p].policy].state # "unused")
    PROVE  PoliciesInv'
<1>1. /\ UploadsStay
      /\ uploads' \in [PolicyId -> [state : State, tenant : Tenant \cup {None}, text : Text \cup {<<>>}]]
  <2>1. CASE UNCHANGED uploads BY <2>1 DEF UploadsStay, PoliciesInv, Typed
  <2>2. CASE job[p].policy \in PolicyId /\ Become(job[p].policy, s) BY <2>2, BecomeFacts
  <2>3. QED BY <2>1, <2>2
<1>2. UNCHANGED <<chunked, policy, rules>> BY DEF graph
<1>3. Typed' BY <1>1, <1>2, FinishTypes DEF PoliciesInv, Typed
<1>4. Ruled' /\ Bare' /\ OwnersStay BY <1>2 DEF PoliciesInv, Ruled, Bare, OwnersStay
<1>5. Known' BY <1>1, <1>2 DEF PoliciesInv, Known, UploadsStay
<1>6. QED BY <1>1, <1>3, <1>4, <1>5, FinishStep

LEMMA GetChunksStep ==
    ASSUME PoliciesInv, NEW p \in Process, GetChunks(p)
    PROVE  PoliciesInv'
<1>1. pc[p] = "get_chunks" /\ Uploading(p) /\ UNCHANGED <<chunked, policy, rules>> /\ UNCHANGED graph
  BY DEF GetChunks, PoliciesInv, Sound, graph
<1>2. CASE Finish(p) /\ Become(job[p].policy, "success")
  BY <1>1, <1>2, EndStep DEF Uploading, State
<1>3. CASE Goto(p, "store_rule") /\ UNCHANGED <<uploads, job, check>>
  <2>1. pc' = [pc EXCEPT ![p] = "store_rule"] /\ UNCHANGED <<uploads, job, applied>>
    BY <1>3 DEF Goto, check
  <2>2. pc'[p] = "store_rule" BY <2>1 DEF PoliciesInv, Typed
  <2>3. Sound(p)' BY <1>1, <2>1, <2>2 DEF Sound, Uploading, Resolving, Judging
  <2>4. applied' = [applied EXCEPT ![p] = applied[p]] /\ chunked' = [d \in PolicyId |-> chunked'[d]]
    BY <1>1, <2>1 DEF PoliciesInv, Typed
  <2>5. Bare' /\ "store_rule" \in Label BY <1>1 DEF PoliciesInv, Bare, Label
  <2>6. QED BY <1>1, <2>1, <2>3, <2>4, <2>5, MoveStep
<1>4. QED BY <1>2, <1>3 DEF GetChunks

\* A stored chunk says nothing of what it applies to, so its rule applies to all.
LEMMA RulesAreGeneral ==
    ASSUME PoliciesInv, NEW d \in PolicyId, NEW n \in DOMAIN chunked[d]
    PROVE  /\ RuleOf(d, n, chunked[d][n]).id[1] = d
           /\ "general" \in RuleOf(d, n, chunked[d][n]).applies_to
<1>1. "applies_to" \notin DOMAIN chunked[d][n] BY DEF PoliciesInv, Bare
<1>2. Get(chunked[d][n], "applies_to", {"general"}) = {"general"} BY <1>1 DEF Get
<1>3. RuleOf(d, n, chunked[d][n]).applies_to = {"general"} BY <1>2 DEF RuleOf
<1>4. RuleOf(d, n, chunked[d][n]).id = <<d, n>> BY DEF RuleOf
<1>5. QED BY <1>3, <1>4

LEMMA StoreRuleStep ==
    ASSUME PoliciesInv, NEW p \in Process, StoreRule(p)
    PROVE  PoliciesInv'
<1> DEFINE d == job[p].policy
<1>1. pc[p] = "store_rule" /\ Uploading(p) /\ UNCHANGED chunked
  BY DEF StoreRule, PoliciesInv, Sound
<1>2. /\ d \in PolicyId /\ job[p].tenant \in Tenant
      /\ uploads[d].state # "unused" /\ uploads[d].tenant = job[p].tenant
  BY <1>1 DEF Uploading
<1>3. PICK n \in DOMAIN chunked[d] :
         /\ policy' = [policy EXCEPT ![d] = [tenant |-> job[p].tenant,
                                             active |-> (n = 1) \/ policy[d].active]]
         /\ rules' = rules \cup {RuleOf(d, n, chunked[d][n])}
         /\ \/ Finish(p) /\ Become(d, "success")
            \/ UNCHANGED <<uploads, pc, job, check>>
  BY DEF StoreRule
<1> DEFINE r0 == RuleOf(d, n, chunked[d][n])
<1>4. r0.id[1] = d /\ "general" \in r0.applies_to
  BY <1>2, RulesAreGeneral
<1>5. policy[d].tenant \in {None, job[p].tenant}
  BY <1>2 DEF PoliciesInv, Known
<1> HIDE DEF r0
<1>6. /\ policy' \in [PolicyId -> [tenant : Tenant \cup {None}, active : BOOLEAN]]
      /\ policy'[d].tenant = job[p].tenant
      /\ \A e \in PolicyId \ {d} : policy'[e] = policy[e]
  <2>1. [tenant |-> job[p].tenant, active |-> (n = 1) \/ policy[d].active]
            \in [tenant : Tenant \cup {None}, active : BOOLEAN]
    BY <1>2
  <2> HIDE DEF d
  <2>2. QED BY <1>2, <1>3, <2>1 DEF PoliciesInv, Typed
<1>7. OwnersStay BY <1>5, <1>6 DEF OwnersStay
<1>8. None \notin Tenant BY NoneAssumption
<1>9. Ruled'
  <2>1. rules' = rules \cup {r0} BY <1>3 DEF r0
  <2>2. QED BY <1>2, <1>4, <1>6, <1>8, <2>1 DEF PoliciesInv, Ruled
<1>10. Bare' BY <1>1 DEF PoliciesInv, Bare
<1>11. UploadsStay /\ uploads' \in [PolicyId -> [state : State, tenant : Tenant \cup {None}, text : Text \cup {<<>>}]]
  <2>1. CASE Become(d, "success") BY <1>2, <2>1, BecomeFacts DEF State
  <2>2. CASE UNCHANGED uploads BY <2>2 DEF UploadsStay, PoliciesInv, Typed
  <2>3. QED BY <1>3, <2>1, <2>2
<1>12. Known' BY <1>2, <1>6, <1>11 DEF PoliciesInv, Known, UploadsStay
<1>13. CASE Finish(p)
  <2>1. Typed' BY <1>1, <1>6, <1>11, <1>13, FinishTypes DEF PoliciesInv, Typed
  <2>2. QED BY <1>7, <1>9, <1>10, <1>11, <1>12, <1>13, <2>1, FinishStep
<1>14. CASE UNCHANGED <<uploads, pc, job, check>>
  <2>1. UNCHANGED <<uploads, pc, job, applied>> BY <1>14 DEF check
  <2>2. Typed' BY <1>1, <1>6, <2>1 DEF PoliciesInv, Typed
  <2>3. \A q \in Process \ {p} : Sound(q)' BY <1>7, <1>11, <2>1, OthersSound
  <2>4. Sound(p)'
    BY <1>1, <1>11, <2>1 DEF Sound, Uploading, Resolving, Judging
  <2>5. QED BY <1>9, <1>10, <1>12, <2>2, <2>3, <2>4 DEF PoliciesInv
<1>15. QED BY <1>3, <1>13, <1>14

LEMMA StoreRuleFailsStep ==
    ASSUME PoliciesInv, NEW p \in Process, StoreRuleFails(p)
    PROVE  PoliciesInv'
<1>1. pc[p] = "store_rule" /\ Uploading(p)
  BY DEF StoreRuleFails, PoliciesInv, Sound
<1>2. QED BY <1>1, EndStep DEF StoreRuleFails, Uploading, State

LEMMA DeleteStep ==
    ASSUME PoliciesInv, NEW t \in Tenant, NEW d \in PolicyId, Delete(t, d)
    PROVE  PoliciesInv'
<1>1. /\ policy[d].tenant = t /\ policy' = [policy EXCEPT ![d] = [tenant |-> t, active |-> FALSE]]
      /\ UNCHANGED <<uploads, chunked, rules, pc, job, applied>>
  BY DEF Delete, check
<1>2. /\ policy' \in [PolicyId -> [tenant : Tenant \cup {None}, active : BOOLEAN]]
      /\ \A e \in PolicyId : policy'[e].tenant = policy[e].tenant
  BY <1>1 DEF PoliciesInv, Typed
<1>3. Typed' BY <1>1, <1>2 DEF PoliciesInv, Typed
<1>4. Ruled' /\ Bare' /\ Known' BY <1>1, <1>2 DEF PoliciesInv, Ruled, Bare, Known
<1>5. OwnersStay /\ UploadsStay BY <1>1, <1>2 DEF OwnersStay, UploadsStay
<1>6. \A q \in Process : Sound(q)'
  <2>1. PICK p : p \notin Process BY NoSetContainsEverything
  <2>2. QED BY <1>1, <1>5, <2>1, OthersSound
<1>7. QED BY <1>3, <1>4, <1>6 DEF PoliciesInv

-----------------------------------------------------------------------------
LEMMA DefaultsExist == \A type : Defaults(type) # {}
BY DefaultAssumption DEF Defaults, Matching

\* There are rules to judge by when a process starts judging.
LEMMA ResolveStep ==
    ASSUME PoliciesInv, NEW p \in Process, NEW rs, Resolve(p, rs), rs # {}, job[p].op # "upload",
           \/ rs = Defaults(job[p].contract_type)
           \/ /\ job[p].tenant # None
              /\ \A r \in rs : r.id[1] \in PolicyId /\ policy[r.id[1]].tenant = job[p].tenant
    PROVE  PoliciesInv'
<1>1. /\ pc' = [pc EXCEPT ![p] = "evaluate"] /\ applied' = [applied EXCEPT ![p] = rs]
      /\ UNCHANGED <<uploads, chunked, policy, rules, job>>
  BY DEF Resolve, Goto, graph
<1>2. pc'[p] = "evaluate" /\ applied'[p] = rs
  BY <1>1 DEF PoliciesInv, Typed
<1>3. Judging(p)' BY <1>1, <1>2 DEF Judging, Defaults, Matching
<1>4. Sound(p)' BY <1>1, <1>2, <1>3 DEF Sound, Uploading, Resolving
<1>5. Bare' /\ "evaluate" \in Label /\ chunked' = [d \in PolicyId |-> chunked'[d]]
  BY <1>1 DEF PoliciesInv, Bare, Label, Typed
<1>6. QED BY <1>1, <1>4, <1>5, MoveStep

LEMMA CheckStep ==
    ASSUME PoliciesInv, NEW p \in Process, NEW op \in {"analysis", "route"},
           NEW t \in Tenant \cup {None}, NEW type \in ContractType, Check(p, op, t, type)
    PROVE  PoliciesInv'
<1> DEFINE new == [op |-> op, tenant |-> t, policy |-> None, contract_type |-> type]
<1>1. /\ job' = [job EXCEPT ![p] = new] /\ UNCHANGED <<uploads, chunked, policy, rules>>
      /\ \/ /\ t = None /\ pc' = [pc EXCEPT ![p] = "evaluate"]
            /\ applied' = [applied EXCEPT ![p] = Defaults(type)]
         \/ /\ t # None /\ pc' = [pc EXCEPT ![p] = "list"]
            /\ applied' = [applied EXCEPT ![p] = applied[p]]
  BY DEF Check, Take, Goto, graph, PoliciesInv, Typed
<1>2. new \in Jobs BY DEF Jobs
<1>3. Typed'
  <2>1. pc' \in [Process -> Label] BY <1>1 DEF PoliciesInv, Typed, Label
  <2>2. job' \in [Process -> Jobs] BY <1>1, <1>2 DEF PoliciesInv, Typed
  <2>3. applied' = [q \in Process |-> applied'[q]] BY <1>1 DEF PoliciesInv, Typed
  <2>4. QED BY <1>1, <2>1, <2>2, <2>3 DEF PoliciesInv, Typed
<1>4. Ruled' /\ Bare' /\ Known' /\ OwnersStay /\ UploadsStay
  BY <1>1 DEF PoliciesInv, Ruled, Bare, Known, OwnersStay, UploadsStay
<1>5. \A q \in Process \ {p} : pc'[q] = pc[q] /\ job'[q] = job[q] /\ applied'[q] = applied[q]
  BY <1>1 DEF PoliciesInv, Typed
<1>6. \A q \in Process \ {p} : Sound(q)' BY <1>4, <1>5, OthersSound
<1>7. Sound(p)'
  <2>1. job'[p] = new BY <1>1 DEF PoliciesInv, Typed
  <2>2. CASE t = None /\ pc' = [pc EXCEPT ![p] = "evaluate"] /\ applied' = [applied EXCEPT ![p] = Defaults(type)]
    <3>1. pc'[p] = "evaluate" /\ applied'[p] = Defaults(type) BY <2>2 DEF PoliciesInv, Typed
    <3>2. /\ job'[p].contract_type = type /\ job'[p].op # "upload"
          /\ Defaults(type) # {} /\ Defaults(type)' = Defaults(type)
      BY <2>1, DefaultsExist DEF Defaults, Matching
    <3>3. Uploading(p)' /\ Resolving(p)' BY <3>1, <3>2 DEF Uploading, Resolving
    <3>4. Judging(p)'
      <4>1. Defaults(job[p].contract_type)' = Defaults(type)
        BY <3>2 DEF Defaults, Matching
      <4>2. QED BY <3>1, <3>2, <4>1 DEF Judging
    <3>5. QED BY <3>3, <3>4 DEF Sound
  <2>3. CASE t # None /\ pc' = [pc EXCEPT ![p] = "list"]
    <3>1. pc'[p] = "list" BY <2>3 DEF PoliciesInv, Typed
    <3>2. QED BY <2>1, <2>3, <3>1 DEF Sound, Uploading, Resolving, Judging
  <2>4. QED BY <1>1, <2>2, <2>3
<1>8. QED BY <1>3, <1>4, <1>6, <1>7 DEF PoliciesInv

LEMMA ListStep ==
    ASSUME PoliciesInv, NEW p \in Process, ListPolicies(p)
    PROVE  PoliciesInv'
<1>1. CASE Resolve(p, Defaults(job[p].contract_type))
  BY <1>1, ResolveStep, DefaultsExist DEF ListPolicies, PoliciesInv, Sound, Resolving
<1>2. CASE /\ Owned(job[p].tenant) # {} /\ Goto(p, "applicable")
           /\ UNCHANGED <<uploads, graph, job, applied, clauses>>
  <2>1. /\ pc[p] = "list" /\ Resolving(p) /\ pc' = [pc EXCEPT ![p] = "applicable"]
        /\ UNCHANGED <<uploads, chunked, policy, rules, job, applied>>
    BY <1>2 DEF ListPolicies, PoliciesInv, Sound, Goto, graph
  <2>2. pc'[p] = "applicable" BY <2>1 DEF PoliciesInv, Typed
  <2>3. Owned(job[p].tenant)' # {} BY <1>2, <2>1 DEF Owned
  <2>4. Sound(p)' BY <2>1, <2>2, <2>3 DEF Sound, Uploading, Resolving, Judging
  <2>5. applied' = [applied EXCEPT ![p] = applied[p]] /\ chunked' = [d \in PolicyId |-> chunked'[d]]
    BY <2>1 DEF PoliciesInv, Typed
  <2>6. Bare' /\ "applicable" \in Label BY <2>1 DEF PoliciesInv, Bare, Label
  <2>7. QED BY <2>1, <2>4, <2>5, <2>6, MoveStep
<1>3. QED BY <1>1, <1>2 DEF ListPolicies

LEMMA ApplicableStep ==
    ASSUME PoliciesInv, NEW p \in Process, GetApplicable(p)
    PROVE  PoliciesInv'
<1> DEFINE t == job[p].tenant
           rs == Applicable(t, job[p].contract_type)
<1>1. t # None /\ Owned(t) # {} /\ Resolve(p, rs) /\ job[p].op # "upload"
  BY DEF GetApplicable, PoliciesInv, Sound, Resolving
<1>2. PICK d \in PolicyId : policy[d].tenant = t BY <1>1 DEF Owned
<1>3. PICK r \in rules : r.id[1] = d /\ "general" \in r.applies_to
  BY <1>1, <1>2 DEF PoliciesInv, Ruled
<1>4. r \in rs BY <1>2, <1>3 DEF Applicable, Matching, Owned
<1>5. \A s \in rs : s.id[1] \in PolicyId /\ policy[s.id[1]].tenant = t
  BY DEF Applicable, Matching, Owned
<1> HIDE DEF rs
<1>6. QED BY <1>1, <1>4, <1>5, ResolveStep

LEMMA ResolveFailsStep ==
    ASSUME PoliciesInv, NEW p \in Process, ResolveFails(p)
    PROVE  PoliciesInv'
BY ResolveStep, DefaultsExist DEF ResolveFails, PoliciesInv, Sound, Resolving

LEMMA EvaluateStep ==
    ASSUME PoliciesInv, UNCHANGED <<uploads, graph, pc, job, applied>>
    PROVE  PoliciesInv'
<1>1. UNCHANGED <<uploads, chunked, policy, rules, pc, job, applied>> BY DEF graph
<1>2. Typed' BY <1>1 DEF PoliciesInv, Typed
<1>3. Ruled' /\ Bare' /\ Known' BY <1>1 DEF PoliciesInv, Ruled, Bare, Known
<1>4. \A q \in Process : Sound(q)'
  BY <1>1 DEF PoliciesInv, Sound, Uploading, Resolving, Judging, Owned, Defaults, Matching
<1>5. QED BY <1>2, <1>3, <1>4 DEF PoliciesInv

LEMMA AnswerStep ==
    ASSUME PoliciesInv, NEW p \in Process, EvaluateFails(p) \/ Report(p)
    PROVE  PoliciesInv'
<1>1. Finish(p) /\ UNCHANGED uploads /\ UNCHANGED graph BY DEF EvaluateFails, Report
<1>2. "lost" \in State \ {"unused"} BY DEF State
<1>3. QED BY <1>1, <1>2, EndStep

LEMMA DieStep ==
    ASSUME PoliciesInv, NEW p \in Process, Die(p)
    PROVE  PoliciesInv'
<1>1. pc[p] # "idle" /\ Finish(p) /\ UNCHANGED graph /\ Uploading(p) /\ Resolving(p) /\ pc[p] \in Label
  BY DEF Die, PoliciesInv, Sound, Typed
<1>2. "lost" \in State \ {"unused"} BY DEF State
<1>3. CASE job[p].op = "upload"
  <2>1. job[p].policy \in PolicyId /\ uploads[job[p].policy].state # "unused"
    BY <1>1, <1>3 DEF Uploading, Resolving, Label
  <2>2. QED BY <1>1, <1>2, <1>3, <2>1, EndStep DEF Die
<1>4. CASE job[p].op # "upload"
  BY <1>1, <1>2, <1>4, EndStep DEF Die
<1>5. QED BY <1>3, <1>4

-----------------------------------------------------------------------------
LEMMA NextInv == PoliciesInv /\ [Next]_vars => PoliciesInv'
<1> SUFFICES ASSUME PoliciesInv, [Next]_vars PROVE PoliciesInv'
  OBVIOUS
<1>1. CASE UNCHANGED vars
  BY <1>1, EvaluateStep DEF vars, check
<1>2. ASSUME NEW p \in Process, NEW t \in Tenant, NEW d \in PolicyId, NEW text \in Text, Upload(p, t, d, text)
      PROVE  PoliciesInv'
  BY <1>2, UploadStep
<1>3. ASSUME NEW p \in Process, NEW op \in {"analysis", "route"}, NEW t \in Tenant \cup {None},
             NEW type \in ContractType, Check(p, op, t, type)
      PROVE  PoliciesInv'
  BY <1>3, CheckStep
<1>4. ASSUME NEW p \in Process,
             \/ StoreDocument(p) \/ StoreChunk(p) \/ StoreChunkFails(p)
             \/ GetChunks(p) \/ StoreRule(p) \/ StoreRuleFails(p)
             \/ ListPolicies(p) \/ GetApplicable(p) \/ ResolveFails(p)
             \/ EvaluateFails(p) \/ Report(p) \/ Die(p)
      PROVE  PoliciesInv'
  BY <1>4, StoreDocumentStep, StoreChunkStep, GetChunksStep, StoreRuleStep, StoreRuleFailsStep,
     ListStep, ApplicableStep, ResolveFailsStep, AnswerStep, DieStep
<1>5. ASSUME NEW p \in Process, NEW c \in Clause, Evaluate(p, c)
      PROVE  PoliciesInv'
  BY <1>5, EvaluateStep DEF Evaluate
<1>6. ASSUME NEW t \in Tenant, NEW d \in PolicyId, Delete(t, d)
      PROVE  PoliciesInv'
  BY <1>6, DeleteStep
<1>7. QED BY <1>1, <1>2, <1>3, <1>4, <1>5, <1>6 DEF Next

\* The inductive invariant holds throughout.
THEOREM Inductive == Spec => []PoliciesInv
BY InitInv, NextInv, PTL DEF Spec

\* A contract is never judged by no rules at all: for any number of processes,
\* whatever is uploaded, deleted, failing or dying meanwhile
\* (policy_rule_resolver.py, get_applicable_rules).
THEOREM AlwaysChecked == Spec => []NeverUnchecked
<1>1. PoliciesInv => NeverUnchecked
  BY DEF PoliciesInv, Sound, Judging, NeverUnchecked
<1>2. QED BY <1>1, Inductive, PTL

\* The rules a contract is judged by are those of its own tenant or the default
\* ones (policy_repository.py, get_applicable_policies).
THEOREM OnlyOwnRules == Spec => []OwnRulesOrDefaults
<1>1. PoliciesInv => OwnRulesOrDefaults
  BY DEF PoliciesInv, Sound, Judging, OwnRulesOrDefaults
<1>2. QED BY <1>1, Inductive, PTL
-----------------------------------------------------------------------------
(* Types, and who works on an upload                                       *)

Numbered == \A d \in PolicyId : Len(chunked[d]) \in Nat /\ DOMAIN chunked[d] = 1..Len(chunked[d])

Busy(p) ==
    /\ pc[p] \in {"store_document", "store_chunk", "get_chunks", "store_rule"} => job[p].op = "upload"
    /\ IF job[p].op = "upload"
       THEN /\ job[p].policy \in PolicyId
            /\ uploads[job[p].policy].state = "running"
            /\ \A q \in Process \ {p} : job[q].policy # job[p].policy
       ELSE job[p].policy = None

WorkInv ==
    /\ Numbered
    /\ RuleIds(rules) \subseteq PolicyId \X (Nat \ {0})
    /\ clauses \in [Process -> SUBSET Clause]
    /\ \A p \in Process : Busy(p)

LEMMA InitWork == Init => WorkInv
BY NoneAssumption DEF Init, WorkInv, Numbered, RuleIds, Busy, NoJob

\* The uploads, jobs and places of a step by which p goes on with its job.
LEMMA SameJobs ==
    ASSUME PoliciesInv, WorkInv, NEW p \in Process, UNCHANGED <<uploads, job>>,
           \A q \in Process \ {p} : pc'[q] = pc[q],
           job[p].op = "upload"
              \/ pc'[p] \notin {"store_document", "store_chunk", "get_chunks", "store_rule"}
    PROVE  \A q \in Process : Busy(q)'
BY DEF WorkInv, Busy

\* Those of a step by which p ends its job, and its upload if it is one.
LEMMA Ending ==
    ASSUME PoliciesInv, WorkInv, NEW p \in Process, Finish(p),
           UNCHANGED uploads \/ (job[p].op = "upload" /\ \E s : Become(job[p].policy, s))
    PROVE  clauses' \in [Process -> SUBSET Clause] /\ \A q \in Process : Busy(q)'
<1>1. /\ pc' = [pc EXCEPT ![p] = "idle"] /\ job' = [job EXCEPT ![p] = NoJob]
      /\ clauses' = [clauses EXCEPT ![p] = {}]
      /\ pc \in [Process -> Label] /\ job \in [Process -> Jobs]
  BY DEF Finish, Goto, Take, PoliciesInv, Typed
<1>2. Busy(p)'
  BY <1>1 DEF Busy, NoJob
<1>3. ASSUME NEW q \in Process \ {p} PROVE Busy(q)'
  <2>1. pc'[q] = pc[q] /\ job'[q] = job[q] /\ \A r \in Process \ {p} : job'[r] = job[r]
    BY <1>1
  <2>2. job[q].op = "upload" =>
          job[q].policy \in PolicyId /\ uploads[job[q].policy].state = "running"
          /\ \A r \in Process \ {q} : job[r].policy # job[q].policy
    BY DEF WorkInv, Busy
  <2>3. job[q].op = "upload" => uploads'[job[q].policy] = uploads[job[q].policy]
    BY <2>2 DEF Become, PoliciesInv, Typed
  <2>4. job'[p].policy = None
    BY <1>1 DEF NoJob
  <2>5. job[q].op = "upload" => \A r \in Process \ {q} : job'[r].policy # job[q].policy
    BY <2>1, <2>2, <2>4, NoneAssumption
  <2>6. QED BY <2>1, <2>2, <2>3, <2>5 DEF WorkInv, Busy
<1>4. QED BY <1>1, <1>2, <1>3 DEF WorkInv

\* Those of a step by which p begins one.
LEMMA Beginning ==
    ASSUME PoliciesInv, WorkInv, NEW p \in Process, NEW new \in Jobs, NEW label \in Label,
           pc' = [pc EXCEPT ![p] = label], job' = [job EXCEPT ![p] = new],
           \/ /\ new.op # "upload" /\ new.policy = None /\ UNCHANGED uploads
              /\ label \in {"evaluate", "list"}
           \/ /\ new.op = "upload" /\ new.policy \in PolicyId
              /\ uploads[new.policy].state = "unused"
              /\ \E row : row.state = "running" /\ uploads' = [uploads EXCEPT ![new.policy] = row]
    PROVE  \A q \in Process : Busy(q)'
<1>1. pc \in [Process -> Label] /\ job \in [Process -> Jobs] /\ DOMAIN uploads = PolicyId
  BY DEF PoliciesInv, Typed
<1>2. ASSUME NEW q \in Process, job[q].op = "upload"
      PROVE  job[q].policy \in PolicyId /\ uploads[job[q].policy].state = "running"
             /\ \A r \in Process \ {q} : job[r].policy # job[q].policy
  BY <1>2 DEF WorkInv, Busy
<1>3. CASE new.op # "upload" /\ new.policy = None /\ UNCHANGED uploads /\ label \in {"evaluate", "list"}
  <2>1. Busy(p)'
    BY <1>1, <1>3 DEF Busy
  <2>2. ASSUME NEW q \in Process \ {p} PROVE Busy(q)'
    <3>1. pc'[q] = pc[q] /\ job'[q] = job[q] /\ \A r \in Process : job'[r] = job[r] \/ job'[r].policy = None
      BY <1>1, <1>3
    <3>2. QED BY <1>2, <1>3, <3>1, NoneAssumption DEF WorkInv, Busy
  <2>3. QED BY <2>1, <2>2
<1>4. CASE /\ new.op = "upload" /\ new.policy \in PolicyId /\ uploads[new.policy].state = "unused"
           /\ \E row : row.state = "running" /\ uploads' = [uploads EXCEPT ![new.policy] = row]
  <2>1. /\ uploads'[new.policy].state = "running"
        /\ \A d \in PolicyId \ {new.policy} : uploads'[d] = uploads[d]
    BY <1>1, <1>4
  <2>2. job'[p] = new /\ \A q \in Process \ {p} : job'[q] = job[q] /\ pc'[q] = pc[q]
    BY <1>1
  <2>3. ASSUME NEW q \in Process \ {p} PROVE job[q].policy # new.policy
    <3>1. CASE job[q].op = "upload"
      BY <1>2, <1>4, <3>1
    <3>2. CASE job[q].op # "upload"
      BY <1>4, <3>2, NoneAssumption DEF WorkInv, Busy
    <3>3. QED BY <3>1, <3>2
  <2>4. Busy(p)'
    BY <1>4, <2>1, <2>2, <2>3 DEF Busy
  <2>5. ASSUME NEW q \in Process \ {p} PROVE Busy(q)'
    <3>1. job[q].op = "upload" =>
            uploads'[job[q].policy].state = "running" /\ \A r \in Process \ {q} : job'[r].policy # job[q].policy
      BY <1>2, <2>1, <2>2, <2>3
    <3>2. QED BY <1>2, <2>2, <3>1 DEF WorkInv, Busy
  <2>6. QED BY <2>4, <2>5
<1>5. QED BY <1>3, <1>4
LEMMA WorkStep == PoliciesInv /\ WorkInv /\ [Next]_vars => WorkInv'
<1> SUFFICES ASSUME PoliciesInv, WorkInv, [Next]_vars PROVE WorkInv'
  OBVIOUS
<1> USE DEF graph, check
<1>1. ASSUME UNCHANGED <<chunked, rules>>, clauses' \in [Process -> SUBSET Clause], \A q \in Process : Busy(q)'
      PROVE  WorkInv'
  BY <1>1 DEF WorkInv, Numbered, RuleIds
<1>2. /\ pc \in [Process -> Label] /\ job \in [Process -> Jobs] /\ clauses \in [Process -> SUBSET Clause]
      /\ \A q \in Process : Busy(q)
  BY DEF PoliciesInv, Typed, WorkInv
<1>3. CASE UNCHANGED vars
  BY <1>1, <1>2, <1>3 DEF vars, Busy
<1>4. ASSUME NEW p \in Process, NEW t \in Tenant, NEW d \in PolicyId, NEW text \in Text, Upload(p, t, d, text)
      PROVE  WorkInv'
  <2>. DEFINE new == [op |-> "upload", tenant |-> t, policy |-> d, contract_type |-> "general"]
              row == [state |-> "running", tenant |-> t, text |-> text]
  <2>1. new \in Jobs /\ "store_document" \in Label /\ row.state = "running"
    BY DEF Jobs, Label
  <2>2. /\ pc' = [pc EXCEPT ![p] = "store_document"] /\ job' = [job EXCEPT ![p] = new]
        /\ uploads[d].state = "unused" /\ uploads' = [uploads EXCEPT ![d] = row]
        /\ UNCHANGED <<chunked, rules, clauses>>
    BY <1>4 DEF Upload, Take, Goto
  <2>3. new.op = "upload" /\ new.policy = d
    OBVIOUS
  <2>. HIDE DEF new, row
  <2>4. \A q \in Process : Busy(q)'
    BY <2>1, <2>2, <2>3, Beginning
  <2>5. QED BY <1>1, <1>2, <2>2, <2>4
<1>5. ASSUME NEW p \in Process, NEW op \in {"analysis", "route"}, NEW t \in Tenant \cup {None},
             NEW type \in ContractType, Check(p, op, t, type)
      PROVE  WorkInv'
  <2>. DEFINE new == [op |-> op, tenant |-> t, policy |-> None, contract_type |-> type]
  <2>1. new \in Jobs /\ {"evaluate", "list"} \subseteq Label
    BY DEF Jobs, Label
  <2>2. /\ \E label \in {"evaluate", "list"} : pc' = [pc EXCEPT ![p] = label]
        /\ job' = [job EXCEPT ![p] = new] /\ UNCHANGED <<uploads, chunked, rules>>
        /\ clauses' = [clauses EXCEPT ![p] = Clause]
    BY <1>5 DEF Check, Take, Goto
  <2>3. new.op # "upload" /\ new.policy = None
    OBVIOUS
  <2>. HIDE DEF new
  <2>4. \A q \in Process : Busy(q)'
    BY <2>1, <2>2, <2>3, Beginning
  <2>5. clauses' \in [Process -> SUBSET Clause]
    BY <1>2, <2>2
  <2>6. QED BY <1>1, <2>2, <2>4, <2>5
<1>6. ASSUME NEW p \in Process, StoreDocument(p) \/ StoreChunkFails(p) PROVE WorkInv'
  <2>1. /\ job[p].op = "upload" /\ UNCHANGED <<uploads, chunked, rules, job, clauses>>
        /\ \A q \in Process \ {p} : pc'[q] = pc[q]
    BY <1>2, <1>6 DEF StoreDocument, StoreChunkFails, Goto, Busy
  <2>2. QED BY <1>1, <1>2, <2>1, SameJobs
<1>7. ASSUME NEW p \in Process, StoreChunk(p) PROVE WorkInv'
  <2>. DEFINE d == job[p].policy
              n == Len(chunked[d]) + 1
  <2>1. /\ job[p].op = "upload" /\ UNCHANGED <<uploads, rules, job, clauses>>
        /\ \A q \in Process \ {p} : pc'[q] = pc[q]
        /\ \E f : chunked' = [chunked EXCEPT ![d] = [i \in 1..n |-> Stored(f[i])]]
    BY <1>2, <1>7 DEF StoreChunk, Goto, Busy
  <2>2. d \in PolicyId
    BY <1>2, <2>1 DEF Busy
  <2>3. n \in Nat
    BY <2>2 DEF WorkInv, Numbered
  <2>4. Numbered'
    <3>1. PICK f : chunked' = [chunked EXCEPT ![d] = [i \in 1..n |-> Stored(f[i])]]
      BY <2>1
    <3>. DEFINE new == [i \in 1..n |-> Stored(f[i])]
    <3>2. DOMAIN new = 1..n /\ Len(new) = n
      BY <2>3
    <3>. HIDE DEF new
    <3>3. \A e \in PolicyId : chunked'[e] = chunked[e] \/ chunked'[e] = new
      BY <2>2, <3>1 DEF PoliciesInv, Typed, new
    <3>4. QED BY <2>3, <3>2, <3>3 DEF WorkInv, Numbered
  <2>5. \A q \in Process : Busy(q)'
    BY <2>1, SameJobs
  <2>6. QED BY <1>2, <2>1, <2>4, <2>5 DEF WorkInv, RuleIds
<1>8. ASSUME NEW p \in Process, GetChunks(p) \/ StoreRuleFails(p) \/ EvaluateFails(p) \/ Report(p) \/ Die(p)
      PROVE  WorkInv'
  <2>1. CASE Finish(p) /\ (UNCHANGED uploads \/ (job[p].op = "upload" /\ \E s : Become(job[p].policy, s)))
    BY <1>1, <1>8, <2>1, Ending DEF GetChunks, StoreRuleFails, EvaluateFails, Report, Die
  <2>2. CASE GetChunks(p) /\ Goto(p, "store_rule") /\ UNCHANGED <<uploads, job, check>>
    <3>1. job[p].op = "upload" /\ \A q \in Process \ {p} : pc'[q] = pc[q]
      BY <1>2, <2>2 DEF GetChunks, Goto, Busy
    <3>2. QED BY <1>1, <1>2, <2>2, <3>1, SameJobs DEF GetChunks
  <2>3. QED BY <1>2, <1>8, <2>1, <2>2 DEF GetChunks, StoreRuleFails, EvaluateFails, Report, Die, Busy
<1>9. ASSUME NEW p \in Process, StoreRule(p) PROVE WorkInv'
  <2>. DEFINE d == job[p].policy
  <2>1. job[p].op = "upload" /\ d \in PolicyId /\ chunked' = chunked
    BY <1>2, <1>9 DEF StoreRule, Busy
  <2>2. PICK n \in DOMAIN chunked[d] :
          /\ rules' = rules \cup {RuleOf(d, n, chunked[d][n])}
          /\ \/ Finish(p) /\ Become(d, "success")
             \/ UNCHANGED <<uploads, pc, job, check>>
    BY <1>9 DEF StoreRule
  <2>3. RuleOf(d, n, chunked[d][n]).id = <<d, n>>
    BY DEF RuleOf
  <2>4. n \in Nat \ {0}
    BY <2>1 DEF WorkInv, Numbered
  <2>5. RuleIds(rules') \subseteq PolicyId \X (Nat \ {0})
    <3>. DEFINE new == RuleOf(d, n, chunked[d][n])
    <3>1. rules' = rules \cup {new} /\ new.id = <<d, n>>
      BY <2>2, <2>3
    <3>2. \A r \in rules : r.id \in PolicyId \X (Nat \ {0})
      BY DEF RuleIds, WorkInv
    <3>3. <<d, n>> \in PolicyId \X (Nat \ {0})
      BY <2>1, <2>4
    <3>. HIDE DEF new, d
    <3>4. \A r \in rules' : r.id \in PolicyId \X (Nat \ {0})
      BY <3>1, <3>2, <3>3
    <3>5. QED BY <3>4 DEF RuleIds
  <2>6. clauses' \in [Process -> SUBSET Clause] /\ \A q \in Process : Busy(q)'
    <3>1. CASE Finish(p) /\ Become(d, "success")
      BY <2>1, <3>1, Ending
    <3>2. CASE UNCHANGED <<uploads, pc, job, check>>
      BY <1>2, <3>2 DEF Busy
    <3>3. QED BY <2>2, <3>1, <3>2
  <2>7. QED BY <2>1, <2>5, <2>6 DEF WorkInv, Numbered, RuleIds
<1>10. ASSUME NEW p \in Process, ListPolicies(p) \/ GetApplicable(p) \/ ResolveFails(p) PROVE WorkInv'
  <2>1. /\ UNCHANGED <<uploads, chunked, rules, job, clauses>>
        /\ \E label \in {"evaluate", "applicable"} : pc' = [pc EXCEPT ![p] = label]
    BY <1>10 DEF ListPolicies, GetApplicable, ResolveFails, Resolve, Goto
  <2>2. /\ \A q \in Process \ {p} : pc'[q] = pc[q]
        /\ pc'[p] \notin {"store_document", "store_chunk", "get_chunks", "store_rule"}
    BY <1>2, <2>1
  <2>3. QED BY <1>1, <1>2, <2>1, <2>2, SameJobs
<1>11. ASSUME NEW p \in Process, NEW c \in Clause, Evaluate(p, c) PROVE WorkInv'
  BY <1>1, <1>2, <1>11 DEF Evaluate, Busy
<1>12. ASSUME NEW t \in Tenant, NEW d \in PolicyId, Delete(t, d) PROVE WorkInv'
  BY <1>1, <1>2, <1>12 DEF Delete, Busy
<1>13. QED BY <1>3, <1>4, <1>5, <1>6, <1>7, <1>8, <1>9, <1>10, <1>11, <1>12 DEF Next

\* Every variable keeps its type, and an upload that is under way is the work of
\* one process (policy_agents.py).
THEOREM TypeCorrect == Spec => []TypeOK
<1>1. PoliciesInv /\ WorkInv => TypeOK
  BY DEF PoliciesInv, Typed, State, Jobs, WorkInv, Busy, TypeOK
<1>2. QED BY <1>1, InitWork, WorkStep, Inductive, PTL DEF Spec

-----------------------------------------------------------------------------
(* What is stored and what is judged by                                    *)

\* The steps of an upload before its first rule.
Storing == {"store_document", "store_chunk", "get_chunks"}

Unruled(d) == \A r \in rules : r.id[1] # d

\* A rule is its chunk's, and stays so as no chunk changes once there is a rule.
MatchInv == \A r \in rules : /\ r.id[2] \in DOMAIN chunked[r.id[1]]
                             /\ r.content = chunked[r.id[1]][r.id[2]].content

Ruling(d) ==
    \A n \in DOMAIN chunked[d] : \E r \in rules : r.id = <<d, n>> /\ r.content = chunked[d][n].content

StoredInv ==
    /\ MatchInv
    /\ \A p \in Process : pc[p] \in Storing => Unruled(job[p].policy)
    /\ \A d \in PolicyId : uploads[d].state = "success" => Unruled(d) \/ Ruling(d)

\* What applied when a check began applies until it has read the rules.
Remembered(p) ==
    /\ pc[p] \notin {"list", "applicable", "evaluate"} => before[p] = {}
    /\ pc[p] \in {"list", "applicable"} =>
          before[p] \subseteq RuleIds(Applicable(job[p].tenant, job[p].contract_type))
    /\ pc[p] = "evaluate" => before[p] \subseteq RuleIds(applied[p])

BeforeInv == before = [p \in Process |-> before[p]] /\ \A p \in Process : Remembered(p)

LEMMA InitStored == Init => StoredInv /\ BeforeInv
BY DEF Init, StoredInv, MatchInv, Storing, BeforeInv, Remembered

\* A step that stores no chunk and no rule.
LEMMA StoredStays ==
    ASSUME StoredInv, UNCHANGED <<chunked, rules>>,
           \A q \in Process : pc'[q] \in Storing => Unruled(job'[q].policy),
           \A d \in PolicyId : uploads'[d].state = "success" => uploads[d].state = "success" \/ Unruled(d)
    PROVE  StoredInv'
<1>1. MatchInv'
  BY DEF StoredInv, MatchInv
<1>2. (\A q \in Process : pc[q] \in Storing => Unruled(job[q].policy))'
  BY DEF Unruled, Storing
<1>3. (\A d \in PolicyId : uploads[d].state = "success" => Unruled(d) \/ Ruling(d))'
  BY DEF StoredInv, Unruled, Ruling
<1>4. QED BY <1>1, <1>2, <1>3 DEF StoredInv

\* One by which p leaves the first steps of an upload, or never was at one.
LEMMA StoredAway ==
    ASSUME PoliciesInv, WorkInv, StoredInv, NEW p \in Process, UNCHANGED <<chunked, rules>>,
           pc'[p] \notin Storing,
           \A q \in Process \ {p} : pc'[q] = pc[q] /\ job'[q] = job[q],
           \/ UNCHANGED uploads
           \/ /\ job[p].op = "upload"
              /\ \/ \E s \in State \ {"success"} : Become(job[p].policy, s)
                 \/ Unruled(job[p].policy) /\ Become(job[p].policy, "success")
    PROVE  StoredInv'
<1>1. \A q \in Process : pc'[q] \in Storing => Unruled(job'[q].policy)
  BY DEF StoredInv
<1>2. ASSUME NEW d \in PolicyId, uploads'[d].state = "success"
      PROVE  uploads[d].state = "success" \/ Unruled(d)
  <2>1. CASE UNCHANGED uploads
    BY <1>2, <2>1
  <2>2. CASE job[p].op = "upload" /\ \E s \in State : Become(job[p].policy, s)
    <3>1. job[p].policy \in PolicyId
      BY <2>2 DEF WorkInv, Busy
    <3>2. d # job[p].policy => uploads'[d] = uploads[d]
      BY <2>2, <3>1 DEF Become, PoliciesInv, Typed
    <3>3. \A s \in State \ {"success"} : Become(job[p].policy, s) => uploads'[job[p].policy].state # "success"
      BY <3>1 DEF Become, PoliciesInv, Typed
    <3>4. QED BY <1>2, <2>2, <3>2, <3>3
  <2>3. QED BY <2>1, <2>2 DEF State
<1>3. QED BY <1>1, <1>2, StoredStays

\* A request that is answered, or whose process dies.
LEMMA Ended ==
    ASSUME PoliciesInv, NEW p \in Process, Finish(p)
    PROVE  /\ pc'[p] = "idle" /\ before' = [before EXCEPT ![p] = {}]
           /\ \A q \in Process \ {p} : pc'[q] = pc[q] /\ job'[q] = job[q] /\ applied'[q] = applied[q]
BY DEF Finish, Goto, Take, PoliciesInv, Typed

LEMMA StoreChunkStored ==
    ASSUME PoliciesInv, WorkInv, StoredInv, NEW p \in Process, StoreChunk(p)
    PROVE  StoredInv'
<1>. DEFINE d == job[p].policy
<1>1. /\ pc[p] = "store_chunk" /\ UNCHANGED <<uploads, rules, job>>
      /\ \E f : chunked' = [chunked EXCEPT ![d] = f]
      /\ \E label \in {"get_chunks", "store_chunk"} : pc' = [pc EXCEPT ![p] = label]
  BY DEF StoreChunk, Goto, check
<1>2. d \in PolicyId /\ uploads[d].state = "running" /\ Unruled(d)
  BY <1>1 DEF WorkInv, Busy, StoredInv, Storing
<1>3. \A e \in PolicyId : e = d \/ chunked'[e] = chunked[e]
  BY <1>1, <1>2 DEF PoliciesInv, Typed
<1>4. MatchInv'
  BY <1>1, <1>2, <1>3 DEF StoredInv, MatchInv, Unruled, PoliciesInv, Ruled
<1>5. \A q \in Process : pc'[q] \in Storing => pc[q] \in Storing
  BY <1>1 DEF PoliciesInv, Typed, Storing
<1>6. (\A q \in Process : pc[q] \in Storing => Unruled(job[q].policy))'
  BY <1>1, <1>5 DEF StoredInv, Unruled, Storing
<1>7. (\A e \in PolicyId : uploads[e].state = "success" => Unruled(e) \/ Ruling(e))'
  <2>1. ASSUME NEW e \in PolicyId, uploads'[e].state = "success"
        PROVE  uploads[e].state = "success" /\ chunked'[e] = chunked[e]
    BY <1>1, <1>2, <1>3, <2>1
  <2>2. ASSUME NEW e \in PolicyId, uploads'[e].state = "success" PROVE (Unruled(e) \/ Ruling(e))'
    <3>1. Unruled(e) \/ Ruling(e)
      BY <2>1, <2>2 DEF StoredInv
    <3>2. Unruled(e) => Unruled(e)'
      BY <1>1 DEF Unruled
    <3>3. Ruling(e) => Ruling(e)'
      BY <1>1, <2>1, <2>2 DEF Ruling
    <3>4. QED BY <3>1, <3>2, <3>3
  <2>3. QED BY <2>2
<1>8. QED BY <1>4, <1>6, <1>7 DEF StoredInv

LEMMA StoreRuleStored ==
    ASSUME PoliciesInv, WorkInv, StoredInv, NEW p \in Process, StoreRule(p)
    PROVE  StoredInv'
<1>0. PICK d \in PolicyId : d = job[p].policy
  BY DEF StoreRule, WorkInv, Busy
<1>1. PICK n \in DOMAIN chunked[d] :
        /\ NextRule(d, n)
        /\ rules' = rules \cup {RuleOf(d, n, chunked[d][n])}
        /\ \/ n = Len(chunked[d]) /\ Finish(p) /\ Become(d, "success")
           \/ UNCHANGED <<uploads, pc, job, check>>
  BY <1>0 DEF StoreRule
<1>2. /\ pc[p] = "store_rule" /\ chunked' = chunked /\ d \in PolicyId /\ uploads[d].state = "running"
      /\ \A q \in Process \ {p} : job[q].policy # d
  BY <1>0 DEF StoreRule, WorkInv, Busy
<1>3. PICK new : /\ rules' = rules \cup {new}
                 /\ new.id = <<d, n>> /\ new.content = chunked[d][n].content
  <2>1. /\ RuleOf(d, n, chunked[d][n]).id = <<d, n>>
        /\ RuleOf(d, n, chunked[d][n]).content = chunked[d][n].content
    BY DEF RuleOf
  <2>2. QED BY <1>1, <2>1
<1>4. MatchInv'
  BY <1>2, <1>3 DEF StoredInv, MatchInv
<1>5. ASSUME NEW q \in Process, pc'[q] \in Storing PROVE Unruled(job[q].policy)'
  <2>1. q # p /\ pc[q] \in Storing /\ job'[q] = job[q]
    BY <1>0, <1>1, <1>2, <1>5, Ended DEF Storing, check
  <2>2. Unruled(job[q].policy) /\ job[q].policy # d
    BY <1>2, <2>1 DEF StoredInv
  <2>3. QED BY <1>3, <2>1, <2>2 DEF Unruled
<1>6. ASSUME NEW e \in PolicyId \ {d}, uploads'[e].state = "success"
      PROVE  (Unruled(e) \/ Ruling(e))'
  <2>1. uploads[e].state = "success"
    BY <1>1, <1>2, <1>6 DEF Become, PoliciesInv, Typed
  <2>2. Unruled(e) \/ Ruling(e)
    BY <2>1 DEF StoredInv
  <2>3. Unruled(e) => Unruled(e)'
    BY <1>3 DEF Unruled
  <2>4. Ruling(e) => Ruling(e)'
    BY <1>2, <1>3 DEF Ruling
  <2>5. QED BY <2>2, <2>3, <2>4
<1>7. ASSUME uploads'[d].state = "success" PROVE Ruling(d)'
  <2>1. n = Len(chunked[d]) /\ DOMAIN chunked[d] = 1..n /\ n \in Nat
    BY <1>1, <1>2, <1>7 DEF WorkInv, Numbered
  <2>2. ASSUME NEW k \in DOMAIN chunked[d]
        PROVE  \E r \in rules' : r.id = <<d, k>> /\ r.content = chunked[d][k].content
    <3>1. CASE k = n
      BY <1>3, <3>1
    <3>2. CASE k # n
      <4>1. k \in 1..n /\ k < n
        BY <2>1, <2>2, <3>2
      <4>2. <<d, k>> \in RuleIds(rules)
        BY <1>1, <4>1 DEF NextRule
      <4>3. PICK r \in rules : r.id = <<d, k>>
        BY <4>2 DEF RuleIds
      <4>4. r.content = chunked[d][k].content
        BY <4>3 DEF StoredInv, MatchInv
      <4>5. QED BY <1>3, <4>3, <4>4
    <3>3. QED BY <3>1, <3>2
  <2>3. chunked' = chunked
    BY <1>2
  <2>4. QED BY <2>2, <2>3 DEF Ruling
<1>8. (\A q \in Process : pc[q] \in Storing => Unruled(job[q].policy))'
  BY <1>5 DEF Storing
<1>9. (\A e \in PolicyId : uploads[e].state = "success" => Unruled(e) \/ Ruling(e))'
  <2>1. ASSUME NEW e \in PolicyId, uploads'[e].state = "success" PROVE (Unruled(e) \/ Ruling(e))'
    <3>1. CASE e # d
      BY <1>6, <2>1, <3>1
    <3>2. CASE e = d
      BY <1>7, <2>1, <3>2
    <3>3. QED BY <3>1, <3>2
  <2>2. QED BY <2>1
<1>10. QED BY <1>4, <1>8, <1>9 DEF StoredInv

LEMMA StoredStep == PoliciesInv /\ WorkInv /\ StoredInv /\ [Next]_vars => StoredInv'
<1> SUFFICES ASSUME PoliciesInv, WorkInv, StoredInv, [Next]_vars PROVE StoredInv'
  OBVIOUS
<1> USE DEF graph, check
<1>1. CASE UNCHANGED vars
  BY <1>1, StoredStays DEF vars, StoredInv
<1>2. ASSUME NEW p \in Process, NEW t \in Tenant, NEW d \in PolicyId, NEW text \in Text, Upload(p, t, d, text)
      PROVE  StoredInv'
  <2>1. /\ uploads[d].state = "unused" /\ UNCHANGED <<chunked, rules>>
        /\ uploads' = [uploads EXCEPT ![d] = [state |-> "running", tenant |-> t, text |-> text]]
        /\ job' = [job EXCEPT ![p] = [op |-> "upload", tenant |-> t, policy |-> d,
                                      contract_type |-> "general"]]
        /\ \A q \in Process \ {p} : pc'[q] = pc[q]
    BY <1>2 DEF Upload, Take, Goto, PoliciesInv, Typed
  <2>2. Unruled(d)
    BY <2>1 DEF Unruled, PoliciesInv, Ruled, Known
  <2>3. \A q \in Process : pc'[q] \in Storing => Unruled(job'[q].policy)
    BY <2>1, <2>2 DEF StoredInv, PoliciesInv, Typed
  <2>4. \A e \in PolicyId : uploads'[e].state = "success" => uploads[e].state = "success"
    BY <2>1 DEF PoliciesInv, Typed
  <2>5. QED BY <2>1, <2>3, <2>4, StoredStays
<1>3. ASSUME NEW p \in Process, StoreDocument(p) \/ StoreChunkFails(p) PROVE StoredInv'
  <2>1. /\ pc[p] \in Storing /\ UNCHANGED <<uploads, chunked, rules, job>>
        /\ \A q \in Process \ {p} : pc'[q] = pc[q]
    BY <1>3 DEF StoreDocument, StoreChunkFails, Goto, Storing, PoliciesInv, Typed
  <2>2. QED BY <2>1, StoredStays DEF StoredInv
<1>4. ASSUME NEW p \in Process, GetChunks(p) PROVE StoredInv'
  <2>1. job[p].op = "upload" /\ Unruled(job[p].policy)
    BY <1>4 DEF GetChunks, WorkInv, Busy, StoredInv, Storing
  <2>2. CASE Finish(p) /\ Become(job[p].policy, "success")
    BY <1>4, <2>1, <2>2, Ended, StoredAway DEF GetChunks, Storing
  <2>3. CASE Goto(p, "store_rule") /\ UNCHANGED <<uploads, job>>
    BY <1>4, <2>3, StoredAway DEF GetChunks, Goto, Storing, PoliciesInv, Typed
  <2>4. QED BY <1>4, <2>2, <2>3 DEF GetChunks
<1>5. ASSUME NEW p \in Process, StoreRuleFails(p) \/ EvaluateFails(p) \/ Report(p) \/ Die(p)
      PROVE  StoredInv'
  <2>1. /\ Finish(p) /\ UNCHANGED <<chunked, rules>>
        /\ \/ UNCHANGED uploads
           \/ job[p].op = "upload" /\ \E s \in {"error", "lost"} : Become(job[p].policy, s)
    BY <1>5 DEF StoreRuleFails, EvaluateFails, Report, Die, WorkInv, Busy
  <2>2. QED BY <2>1, Ended, StoredAway DEF Storing, State
<1>6. ASSUME NEW p \in Process, UNCHANGED <<uploads, chunked, rules>>,
             \A q \in Process \ {p} : job'[q] = job[q],
             \E label \in {"list", "applicable", "evaluate"} : pc' = [pc EXCEPT ![p] = label]
      PROVE  StoredInv'
  BY <1>6, StoredAway DEF Storing, PoliciesInv, Typed
<1>7. ASSUME NEW p \in Process, NEW op \in {"analysis", "route"}, NEW t \in Tenant \cup {None},
             NEW type \in ContractType, Check(p, op, t, type)
      PROVE  StoredInv'
  BY <1>6, <1>7 DEF Check, Goto, Take, PoliciesInv, Typed
<1>8. ASSUME NEW p \in Process, ListPolicies(p) \/ GetApplicable(p) \/ ResolveFails(p) PROVE StoredInv'
  BY <1>6, <1>8 DEF ListPolicies, GetApplicable, ResolveFails, Resolve, Goto
<1>9. ASSUME UNCHANGED <<uploads, chunked, rules, pc, job>> PROVE StoredInv'
  BY <1>9, StoredStays DEF StoredInv
<1>10. QED
  BY <1>1, <1>2, <1>3, <1>4, <1>5, <1>7, <1>8, <1>9, StoreChunkStored, StoreRuleStored DEF Next, Evaluate, Delete

\* What every step does to what a check reads: rules are only added, and a policy
\* keeps its tenant.
LEMMA RulesGrow == PoliciesInv /\ [Next]_vars => OwnersStay /\ rules \subseteq rules'
<1> SUFFICES ASSUME PoliciesInv, [Next]_vars PROVE OwnersStay /\ rules \subseteq rules'
  OBVIOUS
<1> USE DEF graph
<1>1. CASE UNCHANGED <<policy, rules>>
  BY <1>1 DEF OwnersStay
<1>2. ASSUME NEW p \in Process, StoreRule(p) PROVE OwnersStay /\ rules \subseteq rules'
  <2>1. /\ rules \subseteq rules'
        /\ \E active : policy' = [policy EXCEPT ![job[p].policy] = [tenant |-> job[p].tenant, active |-> active]]
    BY <1>2 DEF StoreRule
  <2>2. policy[job[p].policy].tenant \in {None, job[p].tenant} /\ job[p].policy \in PolicyId
    BY <1>2 DEF StoreRule, PoliciesInv, Sound, Uploading, Known
  <2>3. QED BY <2>1, <2>2 DEF OwnersStay, PoliciesInv, Typed
<1>3. ASSUME NEW t \in Tenant, NEW d \in PolicyId, Delete(t, d) PROVE OwnersStay /\ rules \subseteq rules'
  BY <1>3 DEF Delete, OwnersStay, PoliciesInv, Typed
<1>4. QED
  BY <1>1, <1>2, <1>3
  DEF Next, vars, Upload, StoreDocument, StoreChunk, StoreChunkFails, GetChunks, StoreRuleFails, Check,
      ListPolicies, GetApplicable, ResolveFails, Resolve, Evaluate, EvaluateFails, Report, Die

LEMMA ApplicableGrows ==
    ASSUME OwnersStay, rules \subseteq rules', NEW t \in Tenant, NEW type
    PROVE  RuleIds(Applicable(t, type)) \subseteq RuleIds(Applicable(t, type))'
<1>1. Owned(t) \subseteq Owned(t)'
  BY NoneAssumption DEF Owned, OwnersStay
<1>2. Applicable(t, type) \subseteq Applicable(t, type)'
  BY <1>1 DEF Applicable, Matching
<1>3. QED BY <1>2 DEF RuleIds

\* A process that stays where it is, or moves on between two queries.
LEMMA Remembering ==
    ASSUME PoliciesInv, OwnersStay, rules \subseteq rules', NEW p \in Process, Remembered(p),
           before'[p] = before[p], job'[p] = job[p], applied'[p] = applied[p],
           \/ pc'[p] = pc[p]
           \/ {pc[p], pc'[p]} \subseteq {"list", "applicable"}
           \/ {pc[p], pc'[p]} \cap {"list", "applicable", "evaluate"} = {}
    PROVE  Remembered(p)'
<1>1. ASSUME pc'[p] \in {"list", "applicable"}
      PROVE  before'[p] \subseteq RuleIds(Applicable(job[p].tenant, job[p].contract_type))'
  <2>1. pc[p] \in {"list", "applicable"} /\ job[p].tenant \in Tenant
    BY <1>1 DEF PoliciesInv, Sound, Resolving, Typed, Jobs
  <2>2. before[p] \subseteq RuleIds(Applicable(job[p].tenant, job[p].contract_type))
    BY <2>1 DEF Remembered
  <2>3. PICK t \in Tenant : t = job[p].tenant
    BY <2>1
  <2>4. PICK type : type = job[p].contract_type
    OBVIOUS
  <2>5. RuleIds(Applicable(t, type)) \subseteq RuleIds(Applicable(t, type))'
    BY ApplicableGrows
  <2>6. t = job'[p].tenant /\ type = job'[p].contract_type
    BY <2>3, <2>4
  <2>7. before'[p] \subseteq RuleIds(Applicable(t, type))'
    BY <2>2, <2>3, <2>4, <2>5
  <2>8. QED BY <2>6, <2>7
<1>2. pc'[p] = "evaluate" => before'[p] \subseteq RuleIds(applied'[p])
  BY DEF Remembered, RuleIds
<1>3. pc'[p] \notin {"list", "applicable", "evaluate"} => before'[p] = {}
  BY DEF Remembered
<1>4. QED BY <1>1, <1>2, <1>3 DEF Remembered, RuleIds

LEMMA RememberedStep ==
    ASSUME PoliciesInv, BeforeInv, [Next]_vars, NEW p \in Process, NEW b,
           before' = [before EXCEPT ![p] = b], Remembered(p)',
           \A q \in Process \ {p} : pc'[q] = pc[q] /\ job'[q] = job[q] /\ applied'[q] = applied[q]
    PROVE  BeforeInv'
<1>1. \A q \in Process \ {p} : before'[q] = before[q]
  BY DEF BeforeInv
<1>2. ASSUME NEW q \in Process \ {p} PROVE Remembered(q)'
  BY <1>1, RulesGrow, Remembering DEF BeforeInv
<1>3. QED BY <1>2 DEF BeforeInv

LEMMA BeforeStep == PoliciesInv /\ BeforeInv /\ [Next]_vars => BeforeInv'
<1> SUFFICES ASSUME PoliciesInv, BeforeInv, [Next]_vars PROVE BeforeInv'
  OBVIOUS
<1> USE DEF graph, check
<1>1. /\ OwnersStay /\ rules \subseteq rules'
      /\ pc \in [Process -> Label] /\ job \in [Process -> Jobs] /\ DOMAIN applied = Process
      /\ DOMAIN before = Process /\ \A p \in Process : before = [before EXCEPT ![p] = before[p]]
  BY RulesGrow DEF PoliciesInv, Typed, BeforeInv
<1>2. CASE UNCHANGED <<pc, job, applied, before>>
  BY <1>1, <1>2, Remembering DEF BeforeInv
<1>3. ASSUME NEW p \in Process, NEW label \in Label \ {"list", "applicable", "evaluate"}, UNCHANGED <<applied, before>>,
             pc[p] \notin {"list", "applicable", "evaluate"}, pc' = [pc EXCEPT ![p] = label],
             \A q \in Process \ {p} : job'[q] = job[q]
      PROVE  BeforeInv'
  <2>1. Remembered(p)'
    BY <1>1, <1>3 DEF BeforeInv, Remembered
  <2>2. QED BY <1>1, <1>3, <2>1, RememberedStep
<1>4. ASSUME NEW p \in Process, NEW t \in Tenant, NEW d \in PolicyId, NEW text \in Text, Upload(p, t, d, text)
      PROVE  BeforeInv'
  BY <1>1, <1>3, <1>4 DEF Upload, Goto, Take, Label
<1>5. ASSUME NEW p \in Process, StoreDocument(p) \/ StoreChunk(p) \/ StoreChunkFails(p) PROVE BeforeInv'
  BY <1>3, <1>5 DEF StoreDocument, StoreChunk, StoreChunkFails, Goto, Label
<1>6. ASSUME NEW p \in Process, Finish(p) PROVE BeforeInv'
  <2>1. Remembered(p)'
    BY <1>1, <1>6, Ended DEF Remembered
  <2>2. QED BY <1>6, <2>1, Ended, RememberedStep
<1>7. ASSUME NEW p \in Process, GetChunks(p) \/ StoreRule(p) PROVE BeforeInv'
  BY <1>2, <1>3, <1>6, <1>7 DEF GetChunks, StoreRule, Goto, Label
<1>8. ASSUME NEW p \in Process, NEW op \in {"analysis", "route"}, NEW t \in Tenant \cup {None},
             NEW type \in ContractType, Check(p, op, t, type)
      PROVE  BeforeInv'
  <2>. DEFINE new == [op |-> op, tenant |-> t, policy |-> None, contract_type |-> type]
  <2>1. /\ job' = [job EXCEPT ![p] = new] /\ pc[p] = "idle" /\ UNCHANGED <<policy, rules>>
        /\ new.tenant = t /\ new.contract_type = type
    BY <1>8 DEF Check, Take
  <2>2. job'[p] = new /\ \A q \in Process \ {p} : job'[q] = job[q]
    BY <1>1, <2>1
  <2>3. CASE t = None
    <3>1. pc' = [pc EXCEPT ![p] = "evaluate"] /\ before' = before /\ \E rs : applied' = [applied EXCEPT ![p] = rs]
      BY <1>8, <2>3 DEF Check, Goto
    <3>2. before[p] = {}
      BY <2>1 DEF BeforeInv, Remembered
    <3>3. Remembered(p)'
      BY <1>1, <3>1, <3>2 DEF Remembered
    <3>4. QED BY <1>1, <2>2, <3>1, <3>3, RememberedStep
  <2>4. CASE t # None
    <3>1. /\ pc' = [pc EXCEPT ![p] = "list"] /\ applied' = applied
          /\ before' = [before EXCEPT ![p] = RuleIds(Applicable(t, type))]
      BY <1>8, <2>4 DEF Check, Goto
    <3>2. RuleIds(Applicable(t, type))' = RuleIds(Applicable(t, type))
      BY <2>1 DEF RuleIds, Applicable, Matching, Owned
    <3>3. Remembered(p)'
      <4>1. pc'[p] = "list" /\ before'[p] = RuleIds(Applicable(t, type))
        BY <1>1, <3>1
      <4>2. t = job'[p].tenant /\ type = job'[p].contract_type
        BY <2>1, <2>2
      <4>3. before'[p] \subseteq RuleIds(Applicable(job[p].tenant, job[p].contract_type))'
        BY <3>2, <4>1, <4>2
      <4>4. QED BY <4>1, <4>3 DEF Remembered
    <3>4. QED BY <1>1, <2>2, <3>1, <3>3, RememberedStep
  <2>5. QED BY <2>3, <2>4
<1>9. ASSUME NEW p \in Process, NEW rs, NEW b, Resolve(p, rs), before' = [before EXCEPT ![p] = b],
             b \subseteq RuleIds(rs)
      PROVE  BeforeInv'
  <2>1. pc' = [pc EXCEPT ![p] = "evaluate"] /\ applied' = [applied EXCEPT ![p] = rs] /\ UNCHANGED job
    BY <1>9 DEF Resolve, Goto
  <2>2. pc'[p] = "evaluate" /\ applied'[p] = rs /\ before'[p] = b
    BY <1>1, <1>9, <2>1
  <2>3. Remembered(p)'
    BY <1>9, <2>2 DEF Remembered, RuleIds
  <2>4. QED BY <1>1, <1>9, <2>1, <2>3, RememberedStep
<1>10. ASSUME NEW p \in Process, ListPolicies(p) PROVE BeforeInv'
  <2>1. pc[p] = "list" /\ before' = before
    BY <1>10 DEF ListPolicies
  <2>2. CASE Owned(job[p].tenant) = {}
    <3>1. Resolve(p, Defaults(job[p].contract_type))
      BY <1>10, <2>2 DEF ListPolicies
    <3>2. before[p] = {}
      BY <2>1, <2>2 DEF BeforeInv, Remembered, RuleIds, Applicable, Matching
    <3>3. QED BY <1>1, <1>9, <2>1, <3>1, <3>2
  <2>3. CASE Owned(job[p].tenant) # {}
    <3>1. pc' = [pc EXCEPT ![p] = "applicable"] /\ UNCHANGED <<job, applied>>
      BY <1>10, <2>3 DEF ListPolicies, Goto
    <3>2. pc'[p] = "applicable"
      BY <1>1, <3>1
    <3>3. Remembered(p)'
      BY <1>1, <2>1, <3>1, <3>2, Remembering DEF BeforeInv
    <3>4. QED BY <1>1, <2>1, <3>1, <3>3, RememberedStep
  <2>4. QED BY <2>2, <2>3
<1>11. ASSUME NEW p \in Process, GetApplicable(p) PROVE BeforeInv'
  <2>1. before[p] \subseteq RuleIds(Applicable(job[p].tenant, job[p].contract_type))
    BY <1>11 DEF GetApplicable, BeforeInv, Remembered
  <2>2. QED BY <1>1, <1>9, <1>11, <2>1 DEF GetApplicable
<1>12. ASSUME NEW p \in Process, ResolveFails(p) PROVE BeforeInv'
  BY <1>9, <1>12 DEF ResolveFails
<1>13. QED
  BY <1>2, <1>4, <1>5, <1>6, <1>7, <1>8, <1>10, <1>11, <1>12
  DEF Next, vars, StoreRuleFails, Evaluate, EvaluateFails, Report, Die, Delete

\* A check judges by every rule that applied when it began, unless a query of its
\* own failed: the list of policies and their rules are two queries, between
\* which others upload and delete (policy_rule_resolver.py).
THEOREM AllStoredRulesApply == Spec => []StoredRulesApply
<1>1. BeforeInv => StoredRulesApply
  BY DEF BeforeInv, Remembered, StoredRulesApply
<1>2. QED BY <1>1, InitStored, BeforeStep, Inductive, PTL DEF Spec

\* A policy whose upload was answered with success has a rule for each of its
\* stored chunks, or none at all (policy_agents.py, _store_policy_rules).
THEOREM SuccessIsAlwaysAllOrNothing == Spec => []SuccessIsAllOrNothing
<1>1. StoredInv => SuccessIsAllOrNothing
  <2>1. ASSUME NEW d \in PolicyId, Unruled(d) PROVE {r \in rules : r.id[1] = d} = {}
    BY <2>1 DEF Unruled
  <2>2. ASSUME NEW d \in PolicyId, Ruling(d)
        PROVE  \A n \in DOMAIN chunked[d] :
                 \E r \in {s \in rules : s.id[1] = d} : r.id = <<d, n>> /\ r.content = chunked[d][n].content
    <3>1. TAKE n \in DOMAIN chunked[d]
    <3>2. PICK r \in rules : r.id = <<d, n>> /\ r.content = chunked[d][n].content
      BY <2>2 DEF Ruling
    <3>3. r.id[1] = d
      BY <3>2
    <3>4. QED BY <3>2, <3>3
  <2>3. QED BY <2>1, <2>2 DEF StoredInv, SuccessIsAllOrNothing
<1>2. QED BY <1>1, InitStored, StoredStep, InitWork, WorkStep, Inductive, PTL DEF Spec
=============================================================================
