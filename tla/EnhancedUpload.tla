---------------------------- MODULE EnhancedUpload ----------------------------
(***************************************************************************)
(* The other ways a document comes in, beside POST /api/documents/upload   *)
(* and in the same event loop: /api/documents/enhanced/upload              *)
(* (backend/api/enhanced_document_upload.py), /api/documents/upload-stream *)
(* and /upload with enable_enhanced.  The page calls none of them.         *)
(*                                                                         *)
(* An enhanced upload looks for its file name inside contract ids, stores  *)
(* a Contract without a file name and then, without an await, embeddings   *)
(* at every level: nodes MERGEd by an id of contract and position, a query *)
(* each.  For Enhanced and Streamed uploads NameOf is the name their       *)
(* Contract gets, which is none; pc, file and contract are those of        *)
(* DocumentUpload.                                                         *)
(***************************************************************************)
EXTENDS DocumentUpload, Embeddings

CONSTANTS
    Enhanced,   \* uploads to /api/documents/enhanced/upload
    Streamed,   \* uploads to /api/documents/upload-stream
    TextOf,     \* enhanced upload -> its text (see Embeddings)
    Groups      \* bound: sets of uploads that may arrive together

ASSUME EnhancedAssumption == Enhanced \cup Streamed \subseteq Uploads
ASSUME TextAssumption     == \A u \in Enhanced : TextOf[u] \in Text

VARIABLES
    todo,      \* enhanced upload -> embeddings yet to store
    nodes,     \* what MERGE has put into the graph: id -> node
    embedded   \* enhanced upload -> enhanced_embeddings of its response

indexing == <<todo, nodes, embedded>>
evars    == <<vars, indexing>>

EInit ==
    /\ Init
    /\ todo = [u \in Enhanced |-> <<>>]
    /\ nodes = <<>>
    /\ embedded = [u \in Enhanced |-> FALSE]

-----------------------------------------------------------------------------
\* The embeddings of each upload's text.
Found == [u \in Enhanced |-> Results(TextOf[u])]

\* "c.file_id CONTAINS $filename": any id may contain a short name, and the
\* row has no key "file_id", so a match is a KeyError.
EDuplicate(u) ==
    /\ pc[u] = "reading"
    /\ \E e \in Uploads : contract[e] # "absent"
    /\ Answer(u, "failed", None)
    /\ UNCHANGED <<graph, linkable, outcome, restarts, excused, indexing>>

\* Nothing found.  No later check finds this upload's Contract by its name.  A
\* streamed upload has its response here, and the stream is "analyzing".
EProceed(u) ==
    /\ pc[u] = "reading"
    /\ file' = [file EXCEPT ![u] = TRUE]
    /\ Goto(u, IF u \in Enhanced THEN "extracting" ELSE "analyzing")
    /\ excused' = excused \cup {Key(u)}
    /\ UNCHANGED <<graph, linkable, outcome, answer, restarts, indexing>>

\* enable_embeddings=true: process_pdf_with_embeddings.
EExtract(u) ==
    /\ pc[u] = "extracting"
    /\ Goto(u, "analyzing")
    /\ UNCHANGED <<file, graph, linkable, outcome, answer, restarts, excused, indexing>>

\* enable_embeddings=false: the coroutine of process_pdf_upload is not awaited
\* and takes no item.  An unknown model ends the same way.
Unprocessed(u) ==
    /\ pc[u] = "extracting"
    /\ Answer(u, "error", None)
    /\ UNCHANGED <<graph, linkable, outcome, restarts, excused, indexing>>

EAnalyze(u) ==
    /\ pc[u] = "analyzing"
    /\ Goto(u, "storing")
    /\ UNCHANGED <<file, graph, linkable, outcome, answer, restarts, excused, indexing>>

\* An agent that stored nothing: an error, whatever status it had.  A stream
\* ends with its completion message all the same, with the error event of what
\* raised in it, or unread, when its reader left it; each way by its finally.
Unstored(u) ==
    \E status \in IF u \in Enhanced THEN {"error"} ELSE {"completion", "error", "abandoned"} :
        Answer(u, status, None)

\* No text, no contract, or too little confidence.
NotStored(u) ==
    /\ pc[u] = "analyzing"
    /\ Unstored(u)
    /\ UNCHANGED <<graph, linkable, outcome, restarts, excused, indexing>>

\* store_contract as in DocumentUpload, under an id of its own.
EStoreContract(u) ==
    /\ pc[u] = "storing"
    /\ \E node \in {"absent", "partial", "whole"} :
         /\ contract' = [contract EXCEPT ![u] = node]
         /\ IF u \in Enhanced /\ node = "whole"
            THEN /\ todo' = [todo EXCEPT ![u] = Found[u]]
                 /\ Goto(u, "embedding")
                 /\ UNCHANGED <<file, answer>>
            ELSE Unstored(u) /\ UNCHANGED todo
    /\ UNCHANGED <<document, legacy, linkable, outcome, restarts, excused, nodes, embedded>>

-----------------------------------------------------------------------------
(* Exits of /upload-stream that no cleanup covers                          *)

\* The upload is over, and its file there or not.
Leave(u, status, left) ==
    /\ Goto(u, "answered")
    /\ file' = [file EXCEPT ![u] = left]
    /\ answer' = [answer EXCEPT ![u] = [status |-> status, contract |-> None]]

\* The file could not be opened or written whole, or nothing be made of it: a
\* 500 from the outer handler, which removes nothing.
Unstreamed(u) ==
    /\ pc[u] = "reading"
    /\ \E left \in BOOLEAN : Leave(u, "failed", left)
    /\ UNCHANGED <<graph, linkable, outcome, restarts, excused, indexing>>

\* create_service raises, and after its error event the finally clause raises
\* NameError on document_service; or the reader left before the generator began,
\* and no finally clause runs.
Unserved(u) ==
    /\ pc[u] = "analyzing"
    /\ Leave(u, "unserved", TRUE)
    /\ UNCHANGED <<graph, linkable, outcome, restarts, excused, indexing>>

-----------------------------------------------------------------------------
(* _process_enhanced_embeddings                                            *)

\* Mutant of NodeId: the contract is left out of the id.
MutantNodeId(u, r) == <<r.level, r.at>>

\* f"{contract_id}_section_{index}", f"{contract_id}_clause_{start}", and for
\* the document and its parties the node and relations of the contract.
NodeId(u, r) == <<r.level, r.at, u>>

\* A party's embedding is SET on a relation that is there, or nowhere.
HasPlace(u, r) == r.level = "party" => r.at \in TextOf[u].known

\* MERGE the node, SET its properties, MERGE its relation to the contract.
Merge(u, r) ==
    LET id == NodeId(u, r)
        of == IF id \in DOMAIN nodes THEN nodes[id].of ELSE {}
    IN  [i \in DOMAIN nodes \cup {id} |->
            IF i = id THEN [result |-> r, of |-> of \cup {u}] ELSE nodes[i]]

StoreEmbedding(u) ==
    /\ pc[u] = "embedding" /\ todo[u] # <<>>
    /\ nodes' = IF HasPlace(u, Head(todo[u])) THEN Merge(u, Head(todo[u])) ELSE nodes
    /\ todo' = [todo EXCEPT ![u] = Tail(@)]
    /\ UNCHANGED <<vars, embedded>>

\* Too short a text, a provider that fails or embeddings that are not valid
\* leave all undone, a query that fails what comes after it.
EmbeddingFails(u) ==
    /\ pc[u] = "embedding" /\ todo[u] # <<>>
    /\ Answer(u, "success", u)
    /\ todo' = [todo EXCEPT ![u] = <<>>]
    /\ UNCHANGED <<graph, linkable, outcome, restarts, excused, nodes, embedded>>

Embedded(u) ==
    /\ pc[u] = "embedding" /\ todo[u] = <<>>
    /\ Answer(u, "success", u)
    /\ embedded' = [embedded EXCEPT ![u] = TRUE]
    /\ UNCHANGED <<graph, linkable, outcome, restarts, excused, todo, nodes>>

-----------------------------------------------------------------------------
\* /upload with enable_enhanced: the agent of the "full" processor asks the
\* compiled base agent for get_node, which it has not, and is never made.
EnableEnhanced(u) ==
    /\ pc[u] = "analyzing"
    /\ Answer(u, "error", None)
    /\ UNCHANGED <<graph, linkable, outcome, restarts, excused, indexing>>

\* Storing embeddings holds the event loop.
LoopIsFree == \A u \in Enhanced : pc[u] # "embedding"

Arriving(u) ==
    pc[u] = "reading" => \E g \in Groups : {v \in Uploads : pc[v] # "reading"} \cup {u} \subseteq g

\* The handlers, up to the embeddings.
Upload(u) == (Receive(u) \/ Process(u)) /\ UNCHANGED indexing
Agent(u)  == EAnalyze(u) \/ NotStored(u) \/ EStoreContract(u)
Agented(u) ==
    \/ EProceed(u) \/ Agent(u)
    \/ Refuse(u) /\ UNCHANGED indexing
Stream(u) == Agented(u) \/ Unstreamed(u) \/ Unserved(u)
Extracting(u) ==
    \/ EDuplicate(u) \/ EExtract(u) \/ Unprocessed(u)
    \/ Fail(u) /\ UNCHANGED indexing

Handle(u) ==
    \/ u \notin Enhanced \cup Streamed /\ (Upload(u) \/ EnableEnhanced(u))
    \/ u \in Enhanced /\ (Agented(u) \/ Extracting(u))
    \/ u \in Streamed /\ Stream(u)

StoreEmbeddings(u) == StoreEmbedding(u) \/ EmbeddingFails(u) \/ Embedded(u)

ENext ==
    \/ Restart /\ UNCHANGED indexing
    \/ \E u \in Enhanced : StoreEmbeddings(u)
    \/ LoopIsFree /\ \E u \in Uploads : Arriving(u) /\ Handle(u)

ESpec == EInit /\ [][ENext]_evars

-----------------------------------------------------------------------------
\* backend/api/document_upload.py and enhanced_document_upload.py: whichever
\* way and by whichever endpoint an upload ended, its file is no longer in /tmp.
\* Only a streamed upload that got no service, whose response failed or whose
\* stream never came as far as one, may leave its file.
Cleared(u) ==
    FileRemoved(u) \/ (u \in Streamed /\ answer[u].status \in {"failed", "unserved"})

FilesAreRemoved == \A u \in Uploads : Cleared(u)

\* What the graph holds for a contract, and what its text says of each place:
\* the last result, when several have the same.
Held(u) == {n.result : n \in {nodes[id] : id \in {i \in DOMAIN nodes : u \in nodes[i].of}}}

Deserved(u) ==
    LET found == Found[u]
    IN  {found[i] : i \in {j \in DOMAIN found :
             /\ HasPlace(u, found[j])
             /\ \A k \in j + 1..Len(found) :
                  <<found[k].level, found[k].at>> # <<found[j].level, found[j].at>>}}

\* backend/application/services/enhanced_document_processing_service.py: a
\* Contract's sections, clauses and party contexts are its own text's, whatever
\* else is stored, fails or restarts, and once a response says they were
\* embedded they are all there, each under the last type it was found for.
EmbeddingsAreTheContracts ==
    \A u \in Enhanced :
        /\ Held(u) # {} => contract[u] = "whole"
        /\ Held(u) \subseteq ToSet(Found[u])
        /\ embedded[u] => Held(u) = Deserved(u)
=============================================================================
