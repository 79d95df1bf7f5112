---------------------------- MODULE DocumentUpload ----------------------------
(***************************************************************************)
(* POST /api/documents/upload (backend/api/document_upload.py, upload_pdf) *)
(* in the one event loop of the API process.  A step is the code between   *)
(* two awaits, so uploads interleave while a body is read, a text is       *)
(* extracted, embeddings are generated or an LLM answers.                  *)
(*                                                                         *)
(* An upload's contract_id is a fresh UUID, used for its Document and its  *)
(* Contract alike: the upload itself stands for it.  EnhancedUpload adds   *)
(* the other endpoints of the file and the embeddings of contracts; those  *)
(* of chunks are in Chunking.                                              *)
(***************************************************************************)
EXTENDS Naturals, FiniteSets

CONSTANTS
    Uploads,
    Tenants,
    Names,       \* file names
    TenantOf,    \* the tenant each upload is made for
    NameOf,      \* the file name each upload carries
    DemoTenant,  \* the default tenant of ChunkStorageService.store_chunks
    None,        \* Neo4j's null, and no contract in an answer
    MaxRestarts  \* bound: restarts of the API process

ASSUME UploadAssumption == TenantOf \in [Uploads -> Tenants] /\ NameOf \in [Uploads -> Names]
ASSUME NullAssumption   == None \notin Uploads \cup Tenants \cup {DemoTenant}
ASSUME RestartAssumption == MaxRestarts \in Nat

VARIABLES
    pc,        \* upload -> the await it is suspended at, or its end
    file,      \* upload -> is its temporary file in /tmp?
    contract,  \* upload -> its Contract node: absent, without its parties, or whole
    document,  \* upload -> its Document node with Chunks, or None
    legacy,    \* upload -> tenant_id of its DocumentChunk nodes, or None
    linkable,  \* upload -> async_chunking_succeeded
    outcome,   \* upload -> status of its processing result
    answer,    \* upload -> status and contract_id of the response
    restarts,  \* restarts so far
    excused    \* history: keys uploaded twice at a time or with a failed check

graph == <<contract, document, legacy>>
vars  == <<pc, file, graph, linkable, outcome, answer, restarts, excused>>

Statuses == {"success", "error", "skipped", "review_required"}
Pending  == {"reading", "extracting", "chunking", "fallback", "embedding",
             "analyzing", "storing", "finishing"}

\* What the duplicate check compares.
Key(u) == <<TenantOf[u], NameOf[u]>>

TypeOK ==
    /\ pc \in [Uploads -> Pending \cup {"answered", "lost"}]
    /\ file \in [Uploads -> BOOLEAN]
    /\ contract \in [Uploads -> {"absent", "partial", "whole"}]
    /\ document \in [Uploads ->
         {None} \cup [tenant : Tenants \cup {None}, contract : Uploads \cup {None}]]
    /\ legacy \in [Uploads -> {None, DemoTenant}]
    /\ linkable \in [Uploads -> BOOLEAN]
    /\ outcome \in [Uploads -> Statuses \cup {"none"}]
    /\ answer \in [Uploads ->
         [status : Statuses \cup {"none", "duplicate", "refused", "failed"}
                           \cup {"completion", "unserved", "abandoned"},
          contract : Uploads \cup {None}]]
    /\ restarts \in 0..MaxRestarts
    /\ excused \subseteq Tenants \X Names

Init ==
    /\ pc = [u \in Uploads |-> "reading"]
    /\ file = [u \in Uploads |-> FALSE]
    /\ contract = [u \in Uploads |-> "absent"]
    /\ document = [u \in Uploads |-> None]
    /\ legacy = [u \in Uploads |-> None]
    /\ linkable = [u \in Uploads |-> FALSE]
    /\ outcome = [u \in Uploads |-> "none"]
    /\ answer = [u \in Uploads |-> [status |-> "none", contract |-> None]]
    /\ restarts = 0
    /\ excused = {}

-----------------------------------------------------------------------------
InFlight(u) == pc[u] \in Pending \ {"reading"}

Goto(u, label) == pc' = [pc EXCEPT ![u] = label]

\* Mutant of Answer: the temporary file is removed on an exception only, as
\* before the finally clause.
MutantAnswer(u, status, id) ==
    /\ Goto(u, "answered")
    /\ file' = [file EXCEPT ![u] = @ /\ status # "failed"]
    /\ answer' = [answer EXCEPT ![u] = [status |-> status, contract |-> id]]

\* Every way out of the handler runs its finally clause.
Answer(u, status, id) ==
    /\ Goto(u, "answered")
    /\ file' = [file EXCEPT ![u] = FALSE]
    /\ answer' = [answer EXCEPT ![u] = [status |-> status, contract |-> id]]

\* Mutant of Existing: the tenant is not compared.
MutantExisting(u) ==
    {e \in Uploads : contract[e] # "absent" /\ NameOf[e] = NameOf[u]}

\* Mutant of Existing: the name is looked for in the random contract id.
MutantExistingById(u) == {e \in Uploads : contract[e] # "absent" /\ e = u}

\* MATCH (c:Contract {filename: $filename, tenant_id: $tenant_id})
Existing(u) == {e \in Uploads : contract[e] # "absent" /\ Key(e) = Key(u)}

\* The name, size or repository is refused.
Refuse(u) ==
    /\ pc[u] = "reading"
    /\ Answer(u, "refused", None)
    /\ UNCHANGED <<graph, linkable, outcome, restarts, excused>>

Duplicate(u) ==
    /\ pc[u] = "reading"
    /\ \E e \in Existing(u) : Answer(u, "duplicate", e)
    /\ UNCHANGED <<graph, linkable, outcome, restarts, excused>>

\* Nothing found, or the query failed and counts as nothing found: the file is
\* written and its text extracted in a thread.
Proceed(u) ==
    /\ pc[u] = "reading"
    /\ \E failed \in BOOLEAN :
         /\ failed \/ Existing(u) = {}
         /\ excused' = IF failed \/ \E v \in Uploads : InFlight(v) /\ Key(v) = Key(u)
                       THEN excused \cup {Key(u)} ELSE excused
    /\ file' = [file EXCEPT ![u] = TRUE]
    /\ Goto(u, "extracting")
    /\ UNCHANGED <<graph, linkable, outcome, answer, restarts>>

\* extract_text_async: the text, within EXTRACTION_TIMEOUT_SECONDS.
Extract(u) ==
    /\ pc[u] = "extracting"
    /\ Goto(u, "chunking")
    /\ UNCHANGED <<file, graph, linkable, outcome, answer, restarts, excused>>

\* A file that cannot be written, a text that cannot be extracted in time, or a
\* chunking agent that cannot be made, which leaves contract_id unbound: the
\* response is a 500.
Fail(u) ==
    /\ pc[u] \in {"extracting", "chunking"}
    /\ Answer(u, "failed", None)
    /\ UNCHANGED <<graph, linkable, outcome, restarts, excused>>

-----------------------------------------------------------------------------
(* Chunking (Step 5.5, ChunkingAgent.process_document)                     *)

\* ChunkingStorageService.store_chunks, whose failures are only logged.
StoreChunks(u, tenant) ==
    \/ document' = [document EXCEPT ![u] = [tenant |-> tenant, contract |-> None]]
    \/ UNCHANGED document

\* The orchestrator's chunks are stored before their embeddings are generated.
Chunk(u) ==
    /\ pc[u] = "chunking"
    /\ \/ StoreChunks(u, TenantOf[u]) /\ Goto(u, "embedding")
       \/ Goto(u, "fallback") /\ UNCHANGED document
    /\ UNCHANGED <<file, contract, legacy, linkable, outcome, answer, restarts, excused>>

\* process_document succeeds whether or not anything was stored.
Embed(u) ==
    /\ pc[u] = "embedding"
    /\ linkable' = [linkable EXCEPT ![u] = TRUE]
    /\ Goto(u, "analyzing")
    /\ UNCHANGED <<file, graph, outcome, answer, restarts, excused>>

\* _fallback_to_original_processing generates the embeddings first, and then
\* stores the chunks without a tenant_id.
Fallback(u) ==
    /\ pc[u] = "fallback"
    /\ StoreChunks(u, None)
    /\ linkable' = [linkable EXCEPT ![u] = TRUE]
    /\ Goto(u, "analyzing")
    /\ UNCHANGED <<file, contract, legacy, outcome, answer, restarts, excused>>

\* When that raises too: process_document_sync and
\* ChunkStorageService.store_chunks under its default tenant, or nothing.
SyncFallback(u) ==
    /\ pc[u] = "fallback"
    /\ \E tenant \in {DemoTenant, None} : legacy' = [legacy EXCEPT ![u] = tenant]
    /\ Goto(u, "analyzing")
    /\ UNCHANGED <<file, contract, document, linkable, outcome, answer, restarts, excused>>

-----------------------------------------------------------------------------
(* DocumentProcessingService.process_pdf_upload and the PDF agent          *)

\* analyze_contract_node, and the checks of store_contract_node.
Analyze(u) ==
    /\ pc[u] = "analyzing"
    /\ \/ Goto(u, "storing") /\ UNCHANGED outcome
       \/ /\ \E s \in Statuses \ {"success"} : outcome' = [outcome EXCEPT ![u] = s]
          /\ Goto(u, "finishing")
    /\ UNCHANGED <<file, graph, linkable, answer, restarts, excused>>

\* Neo4jContractRepository.store_contract: the CREATE and one query for each
\* party and the governing law, in transactions of their own.
StoreContract(u) ==
    /\ pc[u] = "storing"
    /\ \E node \in {"absent", "partial", "whole"} :
         /\ contract' = [contract EXCEPT ![u] = node]
         /\ outcome' = [outcome EXCEPT ![u] = IF node = "whole" THEN "success" ELSE "error"]
    /\ Goto(u, "finishing")
    /\ UNCHANGED <<file, document, legacy, linkable, answer, restarts, excused>>

ResultId(u) == IF outcome[u] = "success" THEN u ELSE None

\* link_document_to_contract, which never fails the upload.
Link(u) ==
    IF linkable[u] /\ ResultId(u) # None /\ document[u] # None
    THEN \E id \in {None, ResultId(u)} : document' = [document EXCEPT ![u].contract = id]
    ELSE UNCHANGED document

\* Mutant of Finish: the Document is linked whatever became of the Contract.
MutantFinish(u) ==
    /\ pc[u] = "finishing"
    /\ IF linkable[u] /\ document[u] # None
       THEN document' = [document EXCEPT ![u].contract = u]
       ELSE UNCHANGED document
    /\ Answer(u, outcome[u], ResultId(u))
    /\ UNCHANGED <<contract, legacy, linkable, outcome, restarts, excused>>

Finish(u) ==
    /\ pc[u] = "finishing"
    /\ Link(u)
    /\ Answer(u, outcome[u], ResultId(u))
    /\ UNCHANGED <<contract, legacy, linkable, outcome, restarts, excused>>

\* The API process restarts: its uploads are gone, their files stay.
Restart ==
    /\ restarts < MaxRestarts
    /\ restarts' = restarts + 1
    /\ \E u \in Uploads : InFlight(u)
    /\ pc' = [u \in Uploads |-> IF InFlight(u) THEN "lost" ELSE pc[u]]
    /\ UNCHANGED <<file, graph, linkable, outcome, answer, excused>>

-----------------------------------------------------------------------------
Receive(u) == Refuse(u) \/ Duplicate(u) \/ Proceed(u)

\* DocumentProcessingService.process_pdf_upload.
Processing(u) == Analyze(u) \/ StoreContract(u)

Process(u) ==
    \/ Extract(u) \/ Fail(u)
    \/ Chunk(u) \/ Embed(u) \/ Fallback(u) \/ SyncFallback(u)
    \/ Processing(u) \/ Finish(u)

Next == Restart \/ \E u \in Uploads : Receive(u) \/ Process(u)

Spec == Init /\ [][Next]_vars

-----------------------------------------------------------------------------
(* What the module is about                                                *)

\* A response names a contract only when there is one, of the same tenant and
\* the same file name; success means it was stored with all its parties.
AnswersNameTheirContract ==
    \A u \in Uploads :
        LET id == answer[u].contract IN
        /\ id # None => contract[id] # "absent" /\ Key(id) = Key(u)
        /\ answer[u].status = "success" => id = u /\ contract[u] = "whole"

\* A tenant has one contract of a name, through failed stores, retries and
\* restarts, unless two uploads of it were under way at a time or the
\* duplicate check could not be made.
OneContractPerName ==
    \A u, v \in Uploads :
        (contract[u] # "absent" /\ contract[v] # "absent" /\ Key(u) = Key(v) /\ u # v)
            => Key(u) \in excused

\* Only an upload under way, or one a restart cut off, has a file in /tmp.
FileRemoved(u) == file[u] => InFlight(u) \/ pc[u] = "lost"

\* Whichever way an upload of upload_pdf was answered, its file is no longer in
\* /tmp.
NoFileLeft == \A u \in Uploads : FileRemoved(u)

\* A Document points only to a Contract that is whole, of its own upload:
\* chat scoped to a contract never reads the chunks of an upload that failed.
DocumentsPointToWholeContracts ==
    \A u \in Uploads :
        (document[u] # None /\ document[u].contract # None)
            => document[u].contract = u /\ contract[u] = "whole"

=============================================================================
