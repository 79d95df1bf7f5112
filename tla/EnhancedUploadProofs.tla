------------------------ MODULE EnhancedUploadProofs ------------------------
(***************************************************************************)
(* Proofs about DocumentUpload, for any uploads, tenants and file names,   *)
(* and about EnhancedUpload, the specification the runs check: for any     *)
(* uploads of the three kinds and any texts, the promises of               *)
(* DocumentUpload hold with all endpoints at work, and the embeddings of a *)
(* Contract are those of its own text.                                     *)
(***************************************************************************)
EXTENDS EnhancedUpload, TLAPS, FiniteSetTheorems

(* DocumentUpload.  What a step preserves is stated for the actions alone, *)
(* as it is needed in the larger next-state relation further down.         *)

\* Between the check and the end an upload holds a claim on its name, and a
\* Contract is a claim for ever.
Claims(u) == InFlight(u) \/ contract[u] # "absent"

ClaimInv ==
    \A u, v \in Uploads :
        (Claims(u) /\ Claims(v) /\ Key(u) = Key(v) /\ u # v) => Key(u) \in excused

\* The Contract comes with the store, and a successful result is a whole one.
Stored(u) ==
    /\ pc[u] \in Pending \ {"finishing"} => contract[u] = "absent"
    /\ pc[u] = "finishing" /\ outcome[u] = "success" => contract[u] = "whole"

StoreInv == \A u \in Uploads : Stored(u)

\* What the answer to one upload says is so.
Truthful(u) ==
    LET id == answer[u].contract IN
    /\ id # None => contract[id] # "absent" /\ Key(id) = Key(u)
    /\ answer[u].status = "success" => id = u /\ contract[u] = "whole"

\* Only the last step of an upload links its Document.
Linked(u) ==
    (document[u] # None /\ document[u].contract # None)
        => document[u].contract = u /\ contract[u] = "whole" /\ pc[u] = "answered"

LinkInv == \A u \in Uploads : Linked(u)

-----------------------------------------------------------------------------
(* One step of an upload                                                   *)

LEMMA TypeStep ==
    ASSUME TypeOK, NEW u \in Uploads, Receive(u) \/ Process(u) PROVE TypeOK'
<1> USE DEF TypeOK, Pending, Statuses, graph
<1>1. CASE Receive(u)
  <2>1. Key(u) \in Tenants \X Names
    BY UploadAssumption DEF Key
  <2>2. CASE Refuse(u)
    BY <2>2 DEF Refuse, Answer, Goto
  <2>3. CASE Duplicate(u)
    BY <2>3 DEF Duplicate, Existing, Answer, Goto
  <2>4. CASE Proceed(u)
    BY <2>1, <2>4 DEF Proceed, Goto
  <2> QED
    BY <1>1, <2>2, <2>3, <2>4 DEF Receive
<1>2. CASE Process(u)
  <2>1. CASE Extract(u) \/ Embed(u)
    BY <2>1 DEF Extract, Embed, Goto
  <2>2. CASE Fail(u)
    BY <2>2 DEF Fail, Answer, Goto
  <2>3. CASE Chunk(u)
    BY <2>3, UploadAssumption DEF Chunk, StoreChunks, Goto
  <2>4. CASE Fallback(u)
    BY <2>4 DEF Fallback, StoreChunks, Goto
  <2>5. CASE SyncFallback(u)
    BY <2>5 DEF SyncFallback, Goto
  <2>6. CASE Analyze(u)
    BY <2>6 DEF Analyze, Goto
  <2>7. CASE StoreContract(u)
    BY <2>7 DEF StoreContract, Goto
  <2>8. CASE Finish(u)
    <3>1. outcome[u] \in Statuses \cup {"none"} /\ ResultId(u) \in Uploads \cup {None}
      BY DEF ResultId
    <3>2. document' \in [Uploads -> {None} \cup [tenant : Tenants \cup {None}, contract : Uploads \cup {None}]]
      BY <2>8, <3>1 DEF Finish, Link
    <3> QED
      BY <2>8, <3>1, <3>2 DEF Finish, Answer, Goto
  <2> QED
    BY <1>2, <2>1, <2>2, <2>3, <2>4, <2>5, <2>6, <2>7, <2>8 DEF Process, Processing
<1> QED
  BY <1>1, <1>2

\* An upload's own step moves pc, contract, answer and outcome of no other
\* upload, and its Contract only when it stores it.
LEMMA OwnStep ==
    ASSUME TypeOK, NEW u \in Uploads, Receive(u) \/ Process(u)
    PROVE  /\ \A v \in Uploads \ {u} : /\ pc'[v] = pc[v]
                                       /\ contract'[v] = contract[v]
                                       /\ answer'[v] = answer[v]
                                       /\ outcome'[v] = outcome[v]
           /\ pc[u] # "storing" => contract' = contract
           /\ pc[u] # "answered"
<1> USE DEF TypeOK, graph, Goto, Answer
<1>1. CASE Receive(u)
  BY <1>1 DEF Receive, Refuse, Duplicate, Proceed
<1>2. CASE Extract(u) \/ Fail(u) \/ Embed(u)
  BY <1>2 DEF Extract, Fail, Embed
<1>3. CASE Chunk(u) \/ Fallback(u) \/ SyncFallback(u)
  BY <1>3 DEF Chunk, Fallback, SyncFallback
<1>4. CASE Analyze(u) \/ StoreContract(u) \/ Finish(u)
  BY <1>4 DEF Analyze, StoreContract, Finish
<1> QED
  BY <1>1, <1>2, <1>3, <1>4 DEF Process, Processing

LEMMA ClaimStep ==
    ASSUME TypeOK, ClaimInv, NEW u \in Uploads, Receive(u) \/ Process(u) PROVE ClaimInv'
<1>1. \A v \in Uploads \ {u} : Claims(v)' <=> Claims(v)
  BY OwnStep DEF Claims, InFlight
<1>2. CASE Proceed(u)
  <2>1. excused \subseteq excused'
    BY <1>2 DEF Proceed
  <2>2. ASSUME NEW v \in Uploads \ {u}, Claims(v), Key(u) = Key(v)
        PROVE  Key(u) \in excused'
    <3>1. CASE InFlight(v)
      BY <1>2, <2>2, <3>1 DEF Proceed
    <3>2. CASE contract[v] # "absent"
      <4>1. Existing(u) # {}
        BY <2>2, <3>2 DEF Existing
      <4> QED
        BY <1>2, <4>1 DEF Proceed
    <3> QED
      BY <2>2, <3>1, <3>2 DEF Claims
  <2> QED
    BY <1>1, <2>1, <2>2 DEF ClaimInv, Key
<1>3. CASE ~Proceed(u)
  <2>1. excused' = excused
    BY <1>3 DEF Receive, Refuse, Duplicate, Process, Processing, Extract, Fail, Chunk, Embed, Fallback, SyncFallback, Analyze, StoreContract, Finish
  <2>2. Claims(u)' => Claims(u)
    <3> USE DEF TypeOK, Claims, InFlight, Pending, Goto, Answer, graph
    <3>1. CASE Receive(u)
      BY <1>3, <3>1 DEF Receive, Refuse, Duplicate
    <3>2. CASE Process(u)
      BY <3>2 DEF Process, Processing, Extract, Fail, Chunk, Embed, Fallback, SyncFallback, Analyze, StoreContract, Finish
    <3> QED
      BY <3>1, <3>2
  <2> QED
    BY <1>1, <2>1, <2>2 DEF ClaimInv, Key
<1> QED
  BY <1>2, <1>3

LEMMA StoreStep ==
    ASSUME TypeOK, NEW u \in Uploads, Stored(u), Receive(u) \/ Process(u) PROVE Stored(u)'
<1> USE DEF Stored, TypeOK, Pending, Goto, Answer, graph, Statuses
<1>1. CASE Receive(u)
  BY <1>1 DEF Receive, Refuse, Duplicate, Proceed
<1>2. CASE Process(u) /\ ~Analyze(u) /\ ~StoreContract(u)
  BY <1>2 DEF Process, Processing, Extract, Fail, Chunk, Embed, Fallback, SyncFallback, Finish
<1>3. CASE Analyze(u)
  BY <1>3 DEF Analyze
<1>4. CASE StoreContract(u)
  BY <1>4 DEF StoreContract
<1> QED
  BY <1>1, <1>2, <1>3, <1>4

LEMMA AnswerStep ==
    ASSUME TypeOK, NEW u \in Uploads, Stored(u), Truthful(u), Receive(u) \/ Process(u),
           \A v \in Uploads : contract[v] # "absent" => contract'[v] = contract[v]
    PROVE  Truthful(u)'
<1> USE DEF TypeOK, Truthful
<1>1. CASE Refuse(u) \/ Fail(u)
  BY <1>1 DEF Refuse, Fail, Answer
<1>2. CASE Duplicate(u)
  BY <1>2 DEF Duplicate, Existing, Answer, Key
<1>3. CASE Finish(u)
  BY <1>3, NullAssumption DEF Finish, Answer, ResultId, Stored, Key
<1>4. CASE UNCHANGED answer
  BY <1>4, NullAssumption DEF Key
<1> QED
  BY <1>1, <1>2, <1>3, <1>4
  DEF Receive, Proceed, Process, Processing, Extract, Chunk, Embed, Fallback, SyncFallback, Analyze, StoreContract

LEMMA FileStep ==
    ASSUME TypeOK, NEW u \in Uploads, Receive(u) \/ Process(u)
    PROVE  FileRemoved(u)' /\ \A v \in Uploads \ {u} : file'[v] = file[v]
<1> USE DEF FileRemoved, InFlight, Pending, TypeOK, Goto, Answer
<1>1. CASE Receive(u)
  BY <1>1 DEF Receive, Refuse, Duplicate, Proceed
<1>2. CASE Extract(u) \/ Fail(u) \/ Embed(u)
  BY <1>2 DEF Extract, Fail, Embed
<1>3. CASE Chunk(u) \/ Fallback(u) \/ SyncFallback(u)
  BY <1>3 DEF Chunk, Fallback, SyncFallback
<1>4. CASE Analyze(u) \/ StoreContract(u) \/ Finish(u)
  BY <1>4 DEF Analyze, StoreContract, Finish
<1> QED
  BY <1>1, <1>2, <1>3, <1>4 DEF Process, Processing

LEMMA LinkStep ==
    ASSUME TypeOK, NEW u \in Uploads, Stored(u), Linked(u), Receive(u) \/ Process(u)
    PROVE  Linked(u)' /\ \A v \in Uploads \ {u} : document'[v] = document[v]
<1> USE DEF TypeOK, graph
<1>1. document[u] = None \/ document[u].contract = None
  BY OwnStep DEF Linked
<1>2. CASE Finish(u)
  <2>1. \/ document' = document
        \/ /\ outcome[u] = "success" /\ document[u] # None
           /\ \E id \in {None, u} : document' = [document EXCEPT ![u].contract = id]
    BY <1>2 DEF Finish, Link, ResultId
  <2>2. contract' = contract /\ pc[u] = "finishing" /\ pc'[u] = "answered"
    BY <1>2 DEF Finish, Answer, Goto
  <2>3. outcome[u] = "success" => contract'[u] = "whole"
    BY <2>2 DEF Stored
  <2> QED
    BY <1>1, <2>1, <2>2, <2>3 DEF Linked
<1>3. CASE Chunk(u) \/ Fallback(u)
  <2>1. \/ document' = document
        \/ \E tenant \in Tenants \cup {None} :
             document' = [document EXCEPT ![u] = [tenant |-> tenant, contract |-> None]]
    BY <1>3, UploadAssumption DEF Chunk, Fallback, StoreChunks
  <2> QED
    BY <1>1, <2>1 DEF Linked
<1>4. CASE Receive(u) \/ (Process(u) /\ ~Finish(u) /\ ~Chunk(u) /\ ~Fallback(u))
  <2>1. document' = document
    BY <1>4 DEF Receive, Refuse, Duplicate, Proceed, Process, Processing, Extract, Fail, Embed, SyncFallback, Analyze, StoreContract
  <2> QED
    BY <1>1, <2>1 DEF Linked
<1> QED
  BY <1>2, <1>3, <1>4

\* A restart keeps what the invariants say, and so does a step that leaves the
\* variables of this module alone.
LEMMA RestartStep ==
    ASSUME TypeOK, Restart \/ UNCHANGED vars
    PROVE  /\ TypeOK'
           /\ ClaimInv => ClaimInv'
           /\ \A u \in Uploads : Stored(u) => Stored(u)'
           /\ \A u \in Uploads : Truthful(u) => Truthful(u)'
           /\ UNCHANGED answer /\ \A u \in Uploads : FileRemoved(u) => FileRemoved(u)'
           /\ \A u \in Uploads : Linked(u) => Linked(u)'
<1>1. CASE Restart
  <2> USE <1>1 DEF Restart, TypeOK, InFlight, Pending, graph
  <2>1. TypeOK'
    BY RestartAssumption
  <2>2. ClaimInv => ClaimInv'
    BY DEF ClaimInv, Claims, Key
  <2>3. \A u \in Uploads : Stored(u) => Stored(u)'
    BY DEF Stored
  <2>4. \A u \in Uploads : Truthful(u) => Truthful(u)'
    BY DEF Truthful, Key
  <2>5. UNCHANGED answer /\ \A u \in Uploads : FileRemoved(u) => FileRemoved(u)'
    BY DEF FileRemoved
  <2>6. \A u \in Uploads : Linked(u) => Linked(u)'
    BY DEF Linked
  <2> QED
    BY <2>1, <2>2, <2>3, <2>4, <2>5, <2>6
<1>2. CASE UNCHANGED vars
  BY <1>2 DEF vars, graph, TypeOK, ClaimInv, Claims, Key, InFlight, Stored, Truthful, FileRemoved, Linked
<1> QED
  BY <1>1, <1>2

-----------------------------------------------------------------------------
(* The theorems                                                            *)

AllInv == TypeOK /\ ClaimInv /\ StoreInv /\ AnswersNameTheirContract /\ NoFileLeft /\ LinkInv

LEMMA AllInit == Init => AllInv
<1> SUFFICES ASSUME Init PROVE AllInv
  OBVIOUS
<1>1. TypeOK
  BY RestartAssumption DEF Init, TypeOK, Pending, Statuses
<1>2. ClaimInv
  BY DEF Init, ClaimInv, Claims, InFlight, Pending
<1>3. StoreInv /\ AnswersNameTheirContract
  BY DEF Init, StoreInv, Stored, AnswersNameTheirContract, Pending
<1>4. NoFileLeft /\ LinkInv
  BY DEF Init, NoFileLeft, FileRemoved, LinkInv, Linked
<1> QED
  BY <1>1, <1>2, <1>3, <1>4 DEF AllInv

LEMMA AllStep == AllInv /\ [Next]_vars => AllInv'
<1> SUFFICES ASSUME AllInv, [Next]_vars PROVE AllInv'
  OBVIOUS
<1>1. ASSUME NEW u \in Uploads, Receive(u) \/ Process(u) PROVE AllInv'
  <2>1. /\ \A v \in Uploads \ {u} : /\ pc'[v] = pc[v]
                                    /\ contract'[v] = contract[v]
                                    /\ answer'[v] = answer[v]
                                    /\ outcome'[v] = outcome[v]
        /\ pc[u] # "storing" => contract' = contract
    BY <1>1, OwnStep DEF AllInv
  <2>2. TypeOK' /\ ClaimInv' /\ NoFileLeft'
    BY <1>1, <2>1, TypeStep, ClaimStep, FileStep DEF AllInv, NoFileLeft, FileRemoved, InFlight
  <2>3. Stored(u)'
    BY <1>1, StoreStep DEF AllInv, StoreInv
  <2>4. StoreInv'
    BY <2>1, <2>3 DEF AllInv, StoreInv, Stored
  <2>5. \A v \in Uploads : contract[v] # "absent" => contract'[v] = contract[v]
    <3>1. pc[u] = "storing" => contract[u] = "absent"
      BY DEF AllInv, StoreInv, Stored, Pending
    <3> QED
      BY <2>1, <3>1
  <2>6. Truthful(u)
    BY DEF AllInv, AnswersNameTheirContract, Truthful
  <2>7. Truthful(u)'
    BY <1>1, <2>5, <2>6, AnswerStep DEF AllInv, StoreInv
  <2>8. AnswersNameTheirContract'
    BY <2>1, <2>5, <2>7, NullAssumption DEF AllInv, AnswersNameTheirContract, Truthful, TypeOK, Key
  <2>9. Linked(u)' /\ \A v \in Uploads \ {u} : document'[v] = document[v]
    BY <1>1, LinkStep DEF AllInv, StoreInv, LinkInv
  <2>10. LinkInv'
    BY <2>1, <2>9 DEF AllInv, LinkInv, Linked
  <2> QED
    BY <2>2, <2>4, <2>8, <2>10 DEF AllInv
<1>2. CASE Restart \/ UNCHANGED vars
  <2>1. \A u \in Uploads : Truthful(u)
    BY DEF AllInv, AnswersNameTheirContract, Truthful
  <2>2. \A u \in Uploads : Truthful(u)'
    BY <1>2, <2>1, RestartStep DEF AllInv
  <2>3. AnswersNameTheirContract'
    BY <2>2 DEF AnswersNameTheirContract, Truthful
  <2> QED
    BY <1>2, <2>3, RestartStep DEF AllInv, StoreInv, LinkInv, NoFileLeft
<1> QED
  BY <1>1, <1>2 DEF Next

\* Every variable keeps its type, whatever fails in an upload.
THEOREM TypeCorrect == Spec => []TypeOK
<1>1. AllInv => TypeOK
  BY DEF AllInv
<1> QED
  BY AllInit, AllStep, <1>1, PTL DEF Spec

\* A tenant has one contract of a name, unless two uploads of it overlapped or
\* a duplicate check failed.
THEOREM OneContractPerNameAlways == Spec => []OneContractPerName
<1>1. AllInv => OneContractPerName
  BY DEF AllInv, ClaimInv, Claims, OneContractPerName
<1> QED
  BY AllInit, AllStep, <1>1, PTL DEF Spec

\* A response names a contract of the upload's own tenant and name, and
\* success names a whole one.
THEOREM AnswersNameTheirContractAlways == Spec => []AnswersNameTheirContract
<1>1. AllInv => AnswersNameTheirContract
  BY DEF AllInv
<1> QED
  BY AllInit, AllStep, <1>1, PTL DEF Spec

\* Whichever way an upload is answered, its file is no longer in /tmp: only an
\* upload under way, or one a restart cut off, has a file.
THEOREM NoFileIsEverLeft == Spec => []NoFileLeft
<1>1. AllInv => NoFileLeft
  BY DEF AllInv
<1> QED
  BY AllInit, AllStep, <1>1, PTL DEF Spec

\* A Document points only to the whole Contract of its own upload, so a chat
\* about a contract reads no chunks of an upload that failed.
THEOREM DocumentsAlwaysPointToWholeContracts == Spec => []DocumentsPointToWholeContracts
<1>1. AllInv => DocumentsPointToWholeContracts
  BY DEF AllInv, LinkInv, Linked, DocumentsPointToWholeContracts
<1> QED
  BY AllInit, AllStep, <1>1, PTL DEF Spec

-----------------------------------------------------------------------------
(* EnhancedUpload *)

\* The other uploads' handlers are those of DocumentUpload; an enhanced one
\* has its Contract while it stores embeddings.
EStored(u) ==
    IF u \in Enhanced
    THEN /\ pc[u] \in Pending \ {"embedding", "finishing"} => contract[u] = "absent"
         /\ pc[u] = "embedding" => contract[u] = "whole"
    ELSE Stored(u)

EStoreInv == \A u \in Uploads : EStored(u)

BaseInv ==
    TypeOK /\ ClaimInv /\ EStoreInv /\ AnswersNameTheirContract /\ FilesAreRemoved /\ LinkInv

\* The steps of EnhancedUpload that are not steps of DocumentUpload.
OtherStep(u) ==
    \/ u \in Enhanced \cup Streamed /\ (EProceed(u) \/ Agent(u))
    \/ u \in Enhanced /\ (EDuplicate(u) \/ EExtract(u) \/ Unprocessed(u) \/ StoreEmbeddings(u))
    \/ u \in Streamed /\ (Unstreamed(u) \/ Unserved(u))
    \/ u \notin Enhanced \cup Streamed /\ EnableEnhanced(u)

\* What another endpoint's step does to the variables of DocumentUpload.
LEMMA OtherEffect ==
    ASSUME BaseInv, NEW u \in Uploads, OtherStep(u)
    PROVE  /\ pc[u] \in Pending
           /\ UNCHANGED <<document, legacy, linkable, outcome, restarts>>
           /\ \/ /\ EProceed(u)
                 /\ \E label \in {"extracting", "analyzing"} : Goto(u, label)
                 /\ file' = [file EXCEPT ![u] = TRUE]
                 /\ excused' = excused \cup {Key(u)}
                 /\ pc[u] = "reading"
                 /\ UNCHANGED <<contract, answer>>
              \/ /\ pc[u] \in Pending \ {"reading"}
                 /\ UNCHANGED <<file, contract, excused, answer>>
                 /\ \/ /\ pc[u] = "embedding" /\ u \in Enhanced /\ UNCHANGED pc
                    \/ /\ pc[u] = "extracting" /\ u \in Enhanced /\ Goto(u, "analyzing")
                    \/ /\ pc[u] = "analyzing" /\ Goto(u, "storing")
              \/ /\ UNCHANGED <<contract, excused>>
                 /\ \E status \in {"failed", "error", "completion", "abandoned"} :
                       Answer(u, status, None)
              \/ /\ UNCHANGED <<contract, excused>> /\ u \in Streamed
                 /\ \E status \in {"failed", "unserved"}, left \in BOOLEAN : Leave(u, status, left)
              \/ /\ UNCHANGED <<contract, excused>>
                 /\ pc[u] = "embedding" /\ u \in Enhanced
                 /\ Answer(u, "success", u)
              \/ /\ pc[u] = "storing" /\ UNCHANGED excused
                 /\ \E node \in {"absent", "partial", "whole"} :
                      /\ contract' = [contract EXCEPT ![u] = node]
                      /\ \/ /\ u \in Enhanced /\ node = "whole"
                            /\ Goto(u, "embedding") /\ UNCHANGED <<file, answer>>
                         \/ \E status \in {"error", "completion", "abandoned"} :
                              Answer(u, status, None)
<1> USE DEF graph, vars, Pending
<1>1. CASE EProceed(u)
  BY <1>1 DEF EProceed
<1>2. CASE Agent(u)
  <2>1. CASE EAnalyze(u)
    BY <2>1 DEF EAnalyze
  <2>2. CASE NotStored(u)
    BY <2>2 DEF NotStored, Unstored
  <2>3. CASE EStoreContract(u)
    BY <2>3 DEF EStoreContract, Unstored
  <2> QED
    BY <1>2, <2>1, <2>2, <2>3 DEF Agent
<1>3. CASE EDuplicate(u)
  BY <1>3 DEF EDuplicate
<1>4. CASE u \in Enhanced /\ EExtract(u)
  BY <1>4 DEF EExtract
<1>5. CASE Unprocessed(u)
  BY <1>5 DEF Unprocessed
<1>6. CASE u \in Enhanced /\ StoreEmbeddings(u)
  BY <1>6 DEF StoreEmbeddings, StoreEmbedding, EmbeddingFails, Embedded
<1>7. CASE EnableEnhanced(u)
  BY <1>7 DEF EnableEnhanced
<1>8. CASE u \in Streamed /\ (Unstreamed(u) \/ Unserved(u))
  BY <1>8 DEF Unstreamed, Unserved
<1> QED
  BY <1>1, <1>2, <1>3, <1>4, <1>5, <1>6, <1>7, <1>8 DEF OtherStep

LEMMA OtherKeeps ==
    ASSUME BaseInv, NEW u \in Uploads, OtherStep(u) PROVE BaseInv'
<1> USE DEF TypeOK, Goto, Answer, Leave, Statuses
<1>1. TypeOK
  BY DEF BaseInv
<1>2. /\ pc[u] \in Pending
      /\ UNCHANGED <<document, legacy, linkable, outcome, restarts>>
      /\ \A v \in Uploads \ {u} : /\ pc'[v] = pc[v]
                                  /\ contract'[v] = contract[v]
                                  /\ answer'[v] = answer[v]
                                  /\ file'[v] = file[v]
      /\ pc[u] # "storing" => contract' = contract
  <2>1. pc[u] \in Pending /\ UNCHANGED <<document, legacy, linkable, outcome, restarts>>
    BY OtherEffect
  <2>2. \A v \in Uploads \ {u} : pc'[v] = pc[v]
    BY <1>1, OtherEffect
  <2>3. \A v \in Uploads \ {u} : file'[v] = file[v]
    BY <1>1, OtherEffect
  <2>4. \A v \in Uploads \ {u} : answer'[v] = answer[v]
    BY <1>1, OtherEffect
  <2>5. \/ UNCHANGED contract
        \/ pc[u] = "storing" /\ \E node \in {"absent", "partial", "whole"} :
                                   contract' = [contract EXCEPT ![u] = node]
    BY OtherEffect
  <2>6. \A v \in Uploads \ {u} : contract'[v] = contract[v]
    BY <1>1, <2>5
  <2>7. pc[u] # "storing" => contract' = contract
    BY <2>5
  <2> HIDE DEF TypeOK
  <2> QED
    BY <2>1, <2>2, <2>3, <2>4, <2>6, <2>7
<1>3. Key(u) \in Tenants \X Names
  BY UploadAssumption DEF Key
<1>4. TypeOK'
  <2>1. pc' \in [Uploads -> Pending \cup {"answered", "lost"}]
    BY <1>1, OtherEffect DEF Pending
  <2>2. file' \in [Uploads -> BOOLEAN]
    BY <1>1, OtherEffect
  <2>3. contract' \in [Uploads -> {"absent", "partial", "whole"}]
    BY <1>1, OtherEffect
  <2>4. answer' \in [Uploads ->
          [status : Statuses \cup {"none", "duplicate", "refused", "failed"}
                            \cup {"completion", "unserved", "abandoned"},
           contract : Uploads \cup {None}]]
    BY <1>1, OtherEffect, SMTT(20)
  <2>5. excused' \subseteq Tenants \X Names
    BY <1>1, <1>3, OtherEffect
  <2> QED
    BY <1>1, <1>2, <2>1, <2>2, <2>3, <2>4, <2>5
<1>5. ClaimInv'
  <2>1. \A v \in Uploads \ {u} : Claims(v)' <=> Claims(v)
    BY <1>2 DEF Claims, InFlight
  <2>2. \/ excused' = excused \cup {Key(u)}
        \/ excused' = excused /\ (Claims(u)' => Claims(u))
    BY <1>1, OtherEffect DEF Claims, InFlight, Pending
  <2> QED
    BY <2>1, <2>2 DEF BaseInv, ClaimInv, Key
<1>6. EStoreInv'
  <2>1. EStored(u)
    BY DEF BaseInv, EStoreInv
  <2>2. EStored(u)'
    BY <1>1, <2>1, OtherEffect DEF EStored, Stored, Pending
  <2> QED
    BY <1>2, <2>2 DEF BaseInv, EStoreInv, EStored, Stored
<1>7. \A v \in Uploads : contract[v] # "absent" => contract'[v] = contract[v]
  <2>1. pc[u] = "storing" => contract[u] = "absent"
    BY DEF BaseInv, EStoreInv, EStored, Stored, Pending
  <2> QED
    BY <1>2, <2>1
<1>8. AnswersNameTheirContract'
  <2>1. pc[u] = "embedding" /\ u \in Enhanced => contract[u] = "whole"
    BY DEF BaseInv, EStoreInv, EStored
  <2>2. \/ answer'[u] = answer[u]
        \/ answer'[u].contract = None /\ answer'[u].status # "success"
        \/ answer'[u].contract = u /\ contract'[u] = "whole"
    BY <1>1, <2>1, OtherEffect
  <2>3. Truthful(u)
    BY DEF BaseInv, AnswersNameTheirContract, Truthful
  <2>4. Truthful(u)'
    BY <1>1, <1>7, <2>2, <2>3, NullAssumption DEF Truthful, Key
  <2> QED
    BY <1>1, <1>2, <1>7, <2>4, NullAssumption DEF BaseInv, AnswersNameTheirContract, Truthful, Key
<1>9. FilesAreRemoved'
  <2>1. \/ ~file'[u] \/ pc'[u] \in Pending \ {"reading"}
        \/ u \in Streamed /\ answer'[u].status \in {"failed", "unserved"}
    BY <1>1, OtherEffect DEF Pending
  <2>2. Cleared(u)'
    BY <2>1 DEF Cleared, FileRemoved, InFlight
  <2> QED
    BY <1>2, <2>2 DEF BaseInv, FilesAreRemoved, Cleared, FileRemoved, InFlight
<1>10. LinkInv'
  <2>1. document[u] = None \/ document[u].contract = None
    BY <1>2 DEF BaseInv, LinkInv, Linked, Pending
  <2> QED
    BY <1>2, <2>1 DEF BaseInv, LinkInv, Linked
<1> QED
  BY <1>4, <1>5, <1>6, <1>8, <1>9, <1>10 DEF BaseInv

\* A handler of DocumentUpload, or what the others have in common with it.
LEMMA SharedKeeps ==
    ASSUME BaseInv, NEW u \in Uploads, Receive(u) \/ Process(u),
           u \in Enhanced => Refuse(u) \/ Fail(u)
    PROVE  BaseInv'
<1>1. /\ \A v \in Uploads \ {u} : /\ pc'[v] = pc[v]
                                  /\ contract'[v] = contract[v]
                                  /\ answer'[v] = answer[v]
                                  /\ outcome'[v] = outcome[v]
      /\ pc[u] # "storing" => contract' = contract
  BY OwnStep DEF BaseInv
<1>2. TypeOK' /\ ClaimInv' /\ FilesAreRemoved'
  BY <1>1, TypeStep, ClaimStep, FileStep
     DEF BaseInv, FilesAreRemoved, Cleared, FileRemoved, InFlight
<1>3. EStored(u)
  BY DEF BaseInv, EStoreInv
<1>4. u \in Enhanced => Stored(u)
  BY <1>3 DEF EStored, Stored, Refuse, Fail, Pending
<1>5. Stored(u)
  BY <1>3, <1>4 DEF EStored
<1>6. Stored(u)'
  BY <1>5, StoreStep DEF BaseInv
<1>7. u \in Enhanced => pc'[u] = "answered"
  BY DEF Refuse, Fail, Answer, Goto, BaseInv, TypeOK
<1>8. EStored(u)'
  BY <1>6, <1>7 DEF EStored, Pending
<1>9. EStoreInv'
  BY <1>1, <1>8 DEF BaseInv, EStoreInv, EStored, Stored
<1>10. \A v \in Uploads : contract[v] # "absent" => contract'[v] = contract[v]
  <2>1. pc[u] = "storing" => contract[u] = "absent"
    BY <1>5 DEF Stored, Pending
  <2> QED
    BY <1>1, <2>1
<1>11. Truthful(u)
  BY DEF BaseInv, AnswersNameTheirContract, Truthful
<1>12. Truthful(u)'
  BY <1>5, <1>10, <1>11, AnswerStep DEF BaseInv
<1>13. AnswersNameTheirContract'
  BY <1>1, <1>10, <1>12, NullAssumption DEF BaseInv, AnswersNameTheirContract, Truthful, TypeOK, Key
<1>14. Linked(u)' /\ \A v \in Uploads \ {u} : document'[v] = document[v]
  BY <1>5, LinkStep DEF BaseInv, LinkInv
<1>15. LinkInv'
  BY <1>1, <1>14 DEF BaseInv, LinkInv, Linked
<1> QED
  BY <1>2, <1>9, <1>13, <1>15 DEF BaseInv

LEMMA RestartKeeps ==
    ASSUME BaseInv, Restart \/ UNCHANGED vars PROVE BaseInv'
<1>1. \A u \in Uploads : Truthful(u)
  BY DEF BaseInv, AnswersNameTheirContract, Truthful
<1>2. \A u \in Uploads : Truthful(u)'
  BY <1>1, RestartStep DEF BaseInv
<1>3. AnswersNameTheirContract'
  BY <1>2 DEF AnswersNameTheirContract, Truthful
<1>4. \A u \in Uploads : contract'[u] = contract[u] /\ pc'[u] \in {pc[u], "lost"}
  BY DEF BaseInv, TypeOK, Restart, vars, graph
<1>5. EStoreInv'
  <2> SUFFICES ASSUME NEW u \in Uploads PROVE EStored(u)'
    BY DEF EStoreInv
  <2>1. EStored(u)
    BY DEF BaseInv, EStoreInv
  <2>2. CASE u \in Enhanced
    BY <1>4, <2>1, <2>2 DEF EStored, Pending
  <2>3. CASE u \notin Enhanced
    BY <2>1, <2>3, RestartStep DEF EStored, BaseInv
  <2> QED
    BY <2>2, <2>3
<1> QED
  BY <1>3, <1>5, RestartStep DEF BaseInv, LinkInv, FilesAreRemoved, Cleared

\* A step of the whole is one of these.
LEMMA StepIsOne ==
    ASSUME [ENext]_evars
    PROVE  \/ \E u \in Uploads : OtherStep(u)
           \/ \E u \in Uploads : /\ Receive(u) \/ Process(u)
                                 /\ u \in Enhanced => Refuse(u) \/ Fail(u)
                                 /\ UNCHANGED indexing
           \/ (Restart \/ UNCHANGED vars) /\ UNCHANGED indexing
<1>1. ASSUME NEW u \in Uploads, Handle(u)
      PROVE  OtherStep(u) \/ /\ Receive(u) \/ Process(u)
                             /\ u \in Enhanced => Refuse(u) \/ Fail(u)
                             /\ UNCHANGED indexing
  <2>1. CASE u \notin Enhanced \cup Streamed /\ (Upload(u) \/ EnableEnhanced(u))
    BY <2>1 DEF Upload, OtherStep
  <2>2. CASE u \in Enhanced \cup Streamed /\ Agented(u)
    BY <2>2 DEF Agented, OtherStep, Receive
  <2>3. CASE u \in Enhanced /\ Extracting(u)
    BY <2>3 DEF Extracting, OtherStep, Process
  <2>4. CASE u \in Streamed /\ (Unstreamed(u) \/ Unserved(u))
    BY <2>4 DEF OtherStep
  <2> QED
    BY <1>1, <2>1, <2>2, <2>3, <2>4 DEF Handle, Stream
<1>2. ASSUME NEW u \in Enhanced, StoreEmbeddings(u) PROVE u \in Uploads /\ OtherStep(u)
  BY <1>2, EnhancedAssumption DEF OtherStep
<1> QED
  BY <1>1, <1>2 DEF ENext, evars

LEMMA BaseInit == EInit => BaseInv
<1> SUFFICES ASSUME EInit PROVE BaseInv
  OBVIOUS
<1>1. AllInv
  BY AllInit DEF EInit
<1>2. EStoreInv
  BY DEF EInit, Init, EStoreInv, EStored, Stored, Pending
<1> QED
  BY <1>1, <1>2 DEF AllInv, BaseInv, NoFileLeft, FilesAreRemoved, Cleared

LEMMA BaseStep == BaseInv /\ [ENext]_evars => BaseInv'
BY StepIsOne, OtherKeeps, SharedKeeps, RestartKeeps

-----------------------------------------------------------------------------
\* With every endpoint at work, an answer names a Contract of its own tenant
\* and name, and success names a whole one.
THEOREM AllAnswersNameTheirContract == ESpec => []AnswersNameTheirContract
<1>1. BaseInv => AnswersNameTheirContract
  BY DEF BaseInv
<1> QED
  BY BaseInit, BaseStep, <1>1, PTL DEF ESpec

\* And a tenant has one Contract of a name, but for overlaps, failed checks and
\* uploads that make none.
THEOREM OneContractPerNameOfAll == ESpec => []OneContractPerName
<1>1. BaseInv => OneContractPerName
  BY DEF BaseInv, ClaimInv, Claims, OneContractPerName
<1> QED
  BY BaseInit, BaseStep, <1>1, PTL DEF ESpec

\* And no upload that ended has left its file, but a streamed one that got no
\* service.
THEOREM FilesOfAllAreRemoved == ESpec => []FilesAreRemoved
<1>1. BaseInv => FilesAreRemoved
  BY DEF BaseInv
<1> QED
  BY BaseInit, BaseStep, <1>1, PTL DEF ESpec

\* And a Document points only to the whole Contract of its own upload.
THEOREM AllDocumentsPointToWholeContracts == ESpec => []DocumentsPointToWholeContracts
<1>1. BaseInv => DocumentsPointToWholeContracts
  BY DEF BaseInv, LinkInv, Linked, DocumentsPointToWholeContracts
<1> QED
  BY BaseInit, BaseStep, <1>1, PTL DEF ESpec

-----------------------------------------------------------------------------
(* Embeddings                                                              *)

\* A node is of one contract, and under the id of what it holds.
NodesInv ==
    \A id \in DOMAIN nodes : \A u \in nodes[id].of :
        u \in Enhanced /\ id = NodeId(u, nodes[id].result)

\* What the first n results of a text leave in the graph.
Upto(u, n) ==
    {Found[u][i] : i \in {j \in 1..n :
        /\ HasPlace(u, Found[u][j])
        /\ \A k \in j + 1..n :
             <<Found[u][k].level, Found[u][k].at>> # <<Found[u][j].level, Found[u][j].at>>}}

\* An upload has stored its first n results and has the others to store.
Progress(u, n) ==
    /\ todo[u] \in Seq(ToSet(Found[u]))
    /\ Len(todo[u]) = Len(Found[u]) - n
    /\ \A i \in 1..Len(todo[u]) : todo[u][i] = Found[u][n + i]
    /\ Held(u) = Upto(u, n)

IndexInv(u) ==
    /\ pc[u] \in Pending \ {"embedding"} => Held(u) = {}
    /\ pc[u] = "embedding" => \E n \in 0..Len(Found[u]) : Progress(u, n)
    /\ Held(u) \subseteq ToSet(Found[u])
    /\ Held(u) # {} => contract[u] = "whole"
    /\ embedded[u] => pc[u] = "answered" /\ Held(u) = Deserved(u)

EmbeddingInv ==
    /\ DOMAIN todo = Enhanced /\ embedded \in [Enhanced -> BOOLEAN]
    /\ NodesInv
    /\ \A u \in Enhanced : IndexInv(u)

\* Each agent's results are listed by an order of a finite set.
LEMMA OrderedIsASequence ==
    ASSUME NEW S, IsFiniteSet(S), NEW before
    PROVE  \E n \in Nat : DOMAIN InOrder(S, before) = 1..n
BY FS_CardinalityType DEF InOrder

LEMMA ListedIsASequence ==
    ASSUME NEW n \in Nat, NEW f, DOMAIN f = 1..n, f = [k \in 1..n |-> f[k]]
    PROVE  f \in Seq(ToSet(f))
<1>1. \A k \in 1..n : f[k] \in ToSet(f)
  BY DEF ToSet
<1>2. f \in [1..n -> ToSet(f)]
  BY <1>1
<1>3. QED BY <1>2

LEMMA ConcatenatedIsASequence ==
    ASSUME NEW A, NEW B, NEW s \in Seq(A), NEW t \in Seq(B)
    PROVE  s \o t \in Seq(A \cup B)
<1>1. s \in Seq(A \cup B) /\ t \in Seq(A \cup B)
  OBVIOUS
<1>2. QED BY <1>1

LEMMA TriplesAreFinite ==
    ASSUME NEW A, IsFiniteSet(A), NEW B, IsFiniteSet(B), NEW C, IsFiniteSet(C)
    PROVE  IsFiniteSet(A \X B \X C)
<1>. DEFINE flat == [x \in (A \X B) \X C |-> <<x[1][1], x[1][2], x[2]>>]
<1>1. IsFiniteSet((A \X B) \X C)
  BY FS_Product
<1>2. flat \in Surjection((A \X B) \X C, A \X B \X C)
  <2>1. flat \in [(A \X B) \X C -> A \X B \X C]
    OBVIOUS
  <2>2. ASSUME NEW a \in A, NEW b \in B, NEW c \in C
        PROVE  \E x \in (A \X B) \X C : flat[x] = <<a, b, c>>
    <3>1. PICK ab \in A \X B : ab = <<a, b>>
      OBVIOUS
    <3>2. PICK x \in (A \X B) \X C : x = <<ab, c>>
      OBVIOUS
    <3>3. x[1] = ab /\ x[2] = c /\ ab[1] = a /\ ab[2] = b
      BY <3>1, <3>2
    <3>4. flat[x] = <<x[1][1], x[1][2], x[2]>>
      BY Zenon
    <3>5. flat[x] = <<a, b, c>>
      <4>. HIDE DEF flat
      <4>. QED BY <3>3, <3>4, Zenon
    <3>. HIDE DEF flat
    <3>6. QED BY <3>5
  <2>3. ASSUME NEW y \in A \X B \X C PROVE \E x \in (A \X B) \X C : flat[x] = y
    <3>1. PICK a \in A, b \in B, c \in C : y = <<a, b, c>>
      OBVIOUS
    <3>. HIDE DEF flat
    <3>2. QED BY <2>2, <3>1, Zenon
  <2>. HIDE DEF flat
  <2>4. QED BY <2>1, <2>3 DEF Surjection
<1>. HIDE DEF flat
<1>3. QED BY <1>1, <1>2, FS_Surjection

\* What is found in a text is finitely much.
LEMMA FindingsAreFinite ==
    ASSUME NEW text \in Text
    PROVE  IsFiniteSet(Long(text)) /\ IsFiniteSet(Matching(text)) /\ IsFiniteSet(InRole(text))
<1>1. /\ IsFiniteSet(DOMAIN text.paragraphs)
      /\ IsFiniteSet(DOMAIN text.sentences)
      /\ IsFiniteSet(DOMAIN text.parties)
  <2>1. /\ \E n \in Nat : DOMAIN text.paragraphs = 1..n
        /\ \E n \in Nat : DOMAIN text.sentences = 1..n
        /\ \E n \in Nat : DOMAIN text.parties = 1..n
    BY DEF Text
  <2>2. \A n \in Nat : IsFiniteSet(1..n)
    BY FS_Interval
  <2>3. QED BY <2>1, <2>2
<1>2. IsFiniteSet(DOMAIN ClauseTypes) /\ IsFiniteSet(Patterns) /\ IsFiniteSet(DOMAIN Roles)
  <2>1. DOMAIN ClauseTypes = 1..6 /\ Patterns = 1..3 /\ DOMAIN Roles = 1..6
    BY DEF ClauseTypes, Patterns, Roles
  <2>2. \A n \in Nat : IsFiniteSet(1..n)
    BY FS_Interval
  <2>3. QED BY <2>1, <2>2
<1>3. IsFiniteSet(Long(text))
  BY <1>1, FS_Subset DEF Long
<1>4. IsFiniteSet(InRole(text))
  <2>1. IsFiniteSet((DOMAIN Roles) \X (DOMAIN text.parties))
    BY <1>1, <1>2, FS_Product
  <2>2. QED BY <2>1, FS_Subset DEF InRole
<1>5. IsFiniteSet(Matching(text))
  <2>1. IsFiniteSet((DOMAIN ClauseTypes) \X Patterns \X (DOMAIN text.sentences))
    BY <1>1, <1>2, TriplesAreFinite
  <2>2. QED BY <2>1, FS_Subset DEF Matching
<1>6. QED BY <1>3, <1>4, <1>5

LEMMA ResultsAreASequence ==
    ASSUME NEW text \in Text
    PROVE  \E X : Results(text) \in Seq(X)
<1>1. PICK D : DocumentResults(text) \in Seq(D)
  <2>. DEFINE long == InOrder(Long(text), Earlier(Long(text)))
              rest == [k \in DOMAIN long |-> [level |-> "section", at |-> long[k],
                                              type |-> SectionType(text.paragraphs[long[k]])]]
              first == <<[level |-> "document", at |-> 0, type |-> "document"]>>
  <2>1. PICK n \in Nat : DOMAIN long = 1..n
    BY FindingsAreFinite, OrderedIsASequence
  <2>2. rest \in Seq(ToSet(rest))
    <3>1. DOMAIN rest = 1..n /\ rest = [k \in 1..n |-> rest[k]]
      BY <2>1
    <3>. HIDE DEF rest
    <3>2. QED BY <3>1, ListedIsASequence
  <2>3. first \in Seq({first[1]})
    OBVIOUS
  <2>4. DocumentResults(text) = first \o rest
    BY DEF DocumentResults
  <2>. HIDE DEF first, rest
  <2>5. first \o rest \in Seq({first[1]} \cup ToSet(rest))
    BY <2>2, <2>3, ConcatenatedIsASequence
  <2>6. QED BY <2>4, <2>5
<1>2. PICK C : ClauseResults(text) \in Seq(C)
  <2>. DEFINE hits == InOrder(Matching(text), Lexicographic(Matching(text)))
              found == [k \in DOMAIN hits |-> [level |-> "clause", at |-> hits[k][3],
                                                type |-> ClauseTypes[hits[k][1]]]]
  <2>1. PICK n \in Nat : DOMAIN hits = 1..n
    BY FindingsAreFinite, OrderedIsASequence
  <2>2. DOMAIN found = 1..n /\ found = [k \in 1..n |-> found[k]]
    BY <2>1
  <2>3. ClauseResults(text) = found
    BY DEF ClauseResults
  <2>. HIDE DEF found
  <2>4. QED BY <2>2, <2>3, ListedIsASequence
<1>3. PICK P : PartyResults(text) \in Seq(P)
  <2>. DEFINE hits == InOrder(InRole(text), Lexicographic(InRole(text)))
              found == [k \in DOMAIN hits |-> [level |-> "party", at |-> text.parties[hits[k][2]].name,
                                                type |-> Roles[hits[k][1]]]]
  <2>1. PICK n \in Nat : DOMAIN hits = 1..n
    BY FindingsAreFinite, OrderedIsASequence
  <2>2. DOMAIN found = 1..n /\ found = [k \in 1..n |-> found[k]]
    BY <2>1
  <2>3. PartyResults(text) = found
    BY DEF PartyResults
  <2>. HIDE DEF found
  <2>4. QED BY <2>2, <2>3, ListedIsASequence
<1>4. DocumentResults(text) \o ClauseResults(text) \in Seq(D \cup C)
  BY <1>1, <1>2, ConcatenatedIsASequence
<1>5. Results(text) \in Seq((D \cup C) \cup P)
  BY <1>3, <1>4, ConcatenatedIsASequence DEF Results
<1>6. QED BY <1>5

\* What is found in a text is a sequence, as process_document returns a list.
LEMMA FoundSeq ==
    ASSUME NEW u \in Enhanced
    PROVE  /\ Found[u] \in Seq(ToSet(Found[u])) /\ Len(Found[u]) \in Nat
           /\ DOMAIN Found[u] = 1..Len(Found[u])
<1>1. Found[u] = Results(TextOf[u])
  BY DEF Found
<1>0. PICK X : Found[u] \in Seq(X)
  BY <1>1, TextAssumption, ResultsAreASequence
<1>2. PICK s \in Seq(X) : Found[u] = s
  BY <1>0
<1>3. Len(s) \in Nat /\ DOMAIN s = 1..Len(s) /\ \A i \in 1..Len(s) : s[i] \in ToSet(s)
  BY DEF ToSet
<1>4. s \in Seq(ToSet(s))
  <2>1. s \in [1..Len(s) -> ToSet(s)]
    BY <1>3
  <2>. QED BY <1>3, <2>1
<1>5. QED BY <1>2, <1>3, <1>4

LEMMA SamePlace ==
    ASSUME NEW u, NEW x, NEW y
    PROVE  NodeId(u, x) = NodeId(u, y) <=> <<x.level, x.at>> = <<y.level, y.at>>
BY DEF NodeId

\* One result more: it takes the place of the one that had it.
LEMMA UptoNext ==
    ASSUME NEW u \in Enhanced, NEW n \in Nat, n + 1 <= Len(Found[u])
    PROVE  Upto(u, n + 1) =
             IF HasPlace(u, Found[u][n + 1])
             THEN {x \in Upto(u, n) : NodeId(u, x) # NodeId(u, Found[u][n + 1])}
                  \cup {Found[u][n + 1]}
             ELSE Upto(u, n)
<1> DEFINE F == Found[u]
           Same(j, k) == NodeId(u, F[j]) = NodeId(u, F[k])
           Latest(m) == {j \in 1..m : HasPlace(u, F[j]) /\ \A k \in j + 1..m : ~Same(k, j)}
<1>1. ASSUME NEW m \in Nat PROVE Upto(u, m) = {F[i] : i \in Latest(m)}
  BY SamePlace DEF Upto
<1>2. \A j, k : Same(j, k) /\ HasPlace(u, F[k]) => HasPlace(u, F[j])
  BY SamePlace DEF HasPlace
<1>3. 1..n + 1 = 1..n \cup {n + 1}
  OBVIOUS
<1>4. \A j \in 1..n : j + 1..n + 1 = (j + 1..n) \cup {n + 1}
  OBVIOUS
<1>5. n + 1 + 1..n + 1 = {}
  OBVIOUS
<1> HIDE DEF F, Same
<1>6. Latest(n + 1) = {j \in Latest(n) : ~Same(n + 1, j)}
                    \cup (IF HasPlace(u, F[n + 1]) THEN {n + 1} ELSE {})
  BY <1>3, <1>4, <1>5
<1>7. CASE HasPlace(u, F[n + 1])
  <2>1. Latest(n + 1) = {j \in Latest(n) : ~Same(n + 1, j)} \cup {n + 1}
    BY <1>6, <1>7
  <2>2. {F[i] : i \in Latest(n + 1)} =
          {x \in {F[i] : i \in Latest(n)} : NodeId(u, x) # NodeId(u, F[n + 1])} \cup {F[n + 1]}
    <3> HIDE DEF Latest
    <3> QED
      BY <2>1 DEF Same
  <2> QED
    BY <1>1, <1>7, <2>2 DEF F
<1>8. CASE ~HasPlace(u, F[n + 1])
  <2>1. \A j \in Latest(n) : ~Same(n + 1, j)
    BY <1>2, <1>8
  <2>2. Latest(n + 1) = Latest(n)
    BY <1>6, <1>8, <2>1
  <2> HIDE DEF Latest
  <2>3. Upto(u, n + 1) = {F[i] : i \in Latest(n + 1)} /\ Upto(u, n) = {F[i] : i \in Latest(n)}
    BY <1>1
  <2> QED
    BY <1>8, <2>2, <2>3 DEF F
<1> QED
  BY <1>7, <1>8 DEF F

LEMMA TailFacts ==
    ASSUME NEW S, NEW s \in Seq(S), s # <<>>
    PROVE  /\ Tail(s) \in Seq(S) /\ Len(Tail(s)) = Len(s) - 1
           /\ \A i \in 1..Len(Tail(s)) : Tail(s)[i] = s[i + 1]
OBVIOUS

\* MERGE changes what is held for its own contract only.
LEMMA MergeHeld ==
    ASSUME NodesInv, NEW u \in Enhanced, NEW r, nodes' = Merge(u, r)
    PROVE  /\ NodesInv'
           /\ \A v \in Enhanced \ {u} : Held(v)' = Held(v)
           /\ Held(u)' = {x \in Held(u) : NodeId(u, x) # NodeId(u, r)} \cup {r}
<1> DEFINE id == NodeId(u, r)
           of == IF id \in DOMAIN nodes THEN nodes[id].of ELSE {}
<1>1. /\ DOMAIN nodes' = DOMAIN nodes \cup {id}
      /\ nodes'[id] = [result |-> r, of |-> of \cup {u}]
      /\ \A i \in DOMAIN nodes \ {id} : nodes'[i] = nodes[i]
  BY DEF Merge
<1>2. of \subseteq {u}
  BY DEF NodesInv, NodeId
<1>3. nodes'[id].of = {u} /\ nodes'[id].result = r
  BY <1>1, <1>2
<1> HIDE DEF of
<1>4. NodesInv'
  BY <1>1, <1>3 DEF NodesInv, NodeId
<1>5. \A v : \A x : x \in Held(v) <=> \E i \in DOMAIN nodes : v \in nodes[i].of /\ x = nodes[i].result
  BY DEF Held
<1>6. \A v : \A x : x \in Held(v)' <=>
                      \E i \in DOMAIN nodes' : v \in nodes'[i].of /\ x = nodes'[i].result
  BY DEF Held
<1>7. \A i \in DOMAIN nodes : u \in nodes[i].of => i = NodeId(u, nodes[i].result)
  BY DEF NodesInv
<1>8. ASSUME NEW v \in Enhanced \ {u} PROVE Held(v)' = Held(v)
  <2>1. id \in DOMAIN nodes => v \notin nodes[id].of
    BY <1>2 DEF of
  <2>2. v \notin nodes'[id].of
    BY <1>3
  <2>3. \A x : x \in Held(v)' <=> x \in Held(v)
    BY <1>1, <1>5, <1>6, <2>1, <2>2
  <2> QED
    BY <2>3
<1>9. Held(u)' = {x \in Held(u) : NodeId(u, x) # id} \cup {r}
  <2>1. ASSUME NEW x PROVE x \in Held(u)' <=> (x \in Held(u) /\ NodeId(u, x) # id) \/ x = r
    <3>1. x \in Held(u)' <=> x = r \/ \E i \in DOMAIN nodes \ {id} : u \in nodes[i].of /\ x = nodes[i].result
      BY <1>1, <1>3, <1>6
    <3>2. (x \in Held(u) /\ NodeId(u, x) # id)
            <=> \E i \in DOMAIN nodes \ {id} : u \in nodes[i].of /\ x = nodes[i].result
      BY <1>5, <1>7
    <3> QED
      BY <3>1, <3>2
  <2> QED
    BY <2>1
<1> QED
  BY <1>4, <1>8, <1>9

\* A step that stores nothing keeps IndexInv of whom it leaves alone, and of
\* whom it takes from one await before the embeddings to another or out.
LEMMA QuietIndex ==
    ASSUME NEW u \in Enhanced, IndexInv(u), UNCHANGED nodes, todo'[u] = todo[u],
           embedded'[u] = embedded[u], contract'[u] = contract[u],
           \/ pc'[u] = pc[u]
           \/ pc[u] \in Pending /\ pc'[u] \in {"answered", "lost"}
           \/ pc[u] \in Pending \ {"embedding"} /\ pc'[u] \in Pending \ {"embedding"}
    PROVE  IndexInv(u)'
<1>1. Held(u)' = Held(u) /\ Deserved(u)' = Deserved(u)
  BY DEF Held, Deserved, HasPlace, Found
<1>2. ASSUME NEW n PROVE Progress(u, n)' <=> Progress(u, n)
  BY <1>1 DEF Progress, Upto, HasPlace, Found
<1> QED
  BY <1>1, <1>2 DEF IndexInv, Pending

\* The steps of the embeddings.
LEMMA EmbeddingStep ==
    ASSUME BaseInv, EmbeddingInv, NEW u \in Enhanced, StoreEmbeddings(u)
    PROVE  EmbeddingInv'
<1>1. pc[u] = "embedding" /\ contract[u] = "whole" /\ u \in Uploads
  BY EnhancedAssumption
     DEF StoreEmbeddings, StoreEmbedding, EmbeddingFails, Embedded, BaseInv, EStoreInv, EStored
<1>2. PICK n \in 0..Len(Found[u]) : Progress(u, n)
  BY <1>1 DEF EmbeddingInv, IndexInv
<1>3. n \in Nat /\ n <= Len(Found[u])
  BY FoundSeq
<1>4. ASSUME NEW v \in Enhanced \ {u} PROVE IndexInv(v) /\ v \in Uploads
  BY EnhancedAssumption DEF EmbeddingInv
<1>5. CASE StoreEmbedding(u)
  <2> DEFINE r == Head(todo[u])
  <2>1. /\ todo[u] # <<>> /\ todo' = [todo EXCEPT ![u] = Tail(@)]
        /\ nodes' = IF HasPlace(u, r) THEN Merge(u, r) ELSE nodes
        /\ UNCHANGED <<pc, contract, embedded>>
    BY <1>5 DEF StoreEmbedding, vars, graph
  <2>2. Len(todo[u]) \in Nat \ {0} /\ todo[u] \in Seq(ToSet(Found[u]))
    BY <1>2, <2>1 DEF Progress
  <2>3. r = Found[u][n + 1] /\ n + 1 <= Len(Found[u]) /\ n + 1 \in 0..Len(Found[u])
    BY <1>2, <1>3, <2>2, FoundSeq DEF Progress
  <2>4. /\ Tail(todo[u]) \in Seq(ToSet(Found[u])) /\ Len(Tail(todo[u])) = Len(Found[u]) - (n + 1)
        /\ \A i \in 1..Len(Tail(todo[u])) : Tail(todo[u])[i] = Found[u][(n + 1) + i]
    <3>1. /\ Tail(todo[u]) \in Seq(ToSet(Found[u])) /\ Len(Tail(todo[u])) = Len(todo[u]) - 1
          /\ \A i \in 1..Len(Tail(todo[u])) : Tail(todo[u])[i] = todo[u][i + 1]
      BY <2>1, <2>2, TailFacts
    <3>2. \A i \in 1..Len(Tail(todo[u])) : i \in Nat /\ i + 1 \in 1..Len(todo[u])
      BY <2>2, <3>1
    <3>3. \A i \in 1..Len(Tail(todo[u])) : todo[u][i + 1] = Found[u][n + (i + 1)]
      BY <1>2, <3>2 DEF Progress
    <3>4. \A i \in Nat : n + (i + 1) = (n + 1) + i
      BY <1>3
    <3>5. Len(Tail(todo[u])) = Len(Found[u]) - (n + 1)
      BY <1>2, <1>3, <3>1, FoundSeq DEF Progress
    <3>6. ASSUME NEW i \in 1..Len(Tail(todo[u])) PROVE Tail(todo[u])[i] = Found[u][(n + 1) + i]
      <4>1. Tail(todo[u])[i] = todo[u][i + 1]
        BY <3>1
      <4>2. todo[u][i + 1] = Found[u][n + (i + 1)]
        BY <3>3
      <4>3. n + (i + 1) = (n + 1) + i
        BY <3>2, <3>4
      <4> QED
        BY <4>1, <4>2, <4>3
    <3> QED
      BY <3>1, <3>5, <3>6
  <2>5. /\ NodesInv'
        /\ \A v \in Enhanced \ {u} : Held(v)' = Held(v)
        /\ Held(u)' = Upto(u, n + 1)
    <3>1. Held(u) = Upto(u, n)
      BY <1>2 DEF Progress
    <3>2. CASE HasPlace(u, r)
      <4>1. nodes' = Merge(u, r) /\ NodesInv
        BY <2>1, <3>2 DEF EmbeddingInv
      <4> HIDE DEF r
      <4>2. /\ NodesInv' /\ \A v \in Enhanced \ {u} : Held(v)' = Held(v)
            /\ Held(u)' = {x \in Held(u) : NodeId(u, x) # NodeId(u, r)} \cup {r}
        BY <4>1, MergeHeld
      <4>3. Upto(u, n + 1) = {x \in Upto(u, n) : NodeId(u, x) # NodeId(u, r)} \cup {r}
        BY <1>3, <2>3, <3>2, UptoNext
      <4> QED
        BY <3>1, <4>2, <4>3
    <3>3. CASE ~HasPlace(u, r)
      <4>1. nodes' = nodes
        BY <2>1, <3>3
      <4>2. Held(u)' = Held(u) /\ \A v \in Enhanced \ {u} : Held(v)' = Held(v)
        BY <4>1 DEF Held
      <4>3. NodesInv'
        BY <4>1 DEF EmbeddingInv, NodesInv, NodeId
      <4>4. Upto(u, n + 1) = Upto(u, n)
        BY <1>3, <2>3, <3>3, UptoNext
      <4> QED
        BY <3>1, <4>2, <4>3, <4>4
    <3> QED
      BY <3>2, <3>3
  <2>6. todo'[u] = Tail(todo[u]) /\ \A v \in Enhanced \ {u} : todo'[v] = todo[v]
    BY <2>1 DEF EmbeddingInv
  <2>7. Upto(u, n + 1)' = Upto(u, n + 1) /\ Found' = Found
    BY DEF Upto, HasPlace, Found
  <2>8. Upto(u, n + 1) \subseteq ToSet(Found[u])
    BY <2>3, <1>3, FoundSeq DEF Upto, ToSet
  <2>9. Progress(u, n + 1)'
    BY <2>4, <2>5, <2>6, <2>7 DEF Progress
  <2>10. ~embedded[u]
    BY <1>1 DEF EmbeddingInv, IndexInv
  <2>11. IndexInv(u)'
    BY <1>1, <2>1, <2>3, <2>5, <2>7, <2>8, <2>9, <2>10 DEF IndexInv, Pending
  <2>12. ASSUME NEW v \in Enhanced \ {u} PROVE IndexInv(v)'
    <3>1. Deserved(v)' = Deserved(v) /\ \A m : Upto(v, m)' = Upto(v, m)
      BY DEF Deserved, Upto, HasPlace, Found
    <3>2. \A m : Progress(v, m)' <=> Progress(v, m)
      BY <2>5, <2>6, <2>7, <2>12, <3>1 DEF Progress
    <3> QED
      BY <1>4, <2>1, <2>5, <2>7, <2>12, <3>1, <3>2 DEF IndexInv
  <2> QED
    BY <2>1, <2>5, <2>11, <2>12 DEF EmbeddingInv
<1>6. CASE EmbeddingFails(u) \/ Embedded(u)
  <2>1. /\ UNCHANGED <<nodes, contract>> /\ pc'[u] = "answered"
        /\ \A v \in Enhanced \ {u} : /\ pc'[v] = pc[v] /\ todo'[v] = todo[v]
                                     /\ embedded'[v] = embedded[v]
        /\ DOMAIN todo' = Enhanced /\ embedded' \in [Enhanced -> BOOLEAN]
    BY <1>1, <1>4, <1>6
       DEF EmbeddingFails, Embedded, Answer, Goto, graph, BaseInv, TypeOK, EmbeddingInv
  <2>2. NodesInv'
    BY <2>1 DEF EmbeddingInv, NodesInv, NodeId
  <2>3. ASSUME NEW v \in Enhanced \ {u} PROVE IndexInv(v)'
    BY <1>4, <2>1, <2>3, QuietIndex
  <2>4. Held(u)' = Held(u) /\ Deserved(u)' = Deserved(u) /\ Found' = Found
    BY <2>1 DEF Held, Deserved, HasPlace, Found
  <2>5. embedded'[u] => Held(u) = Deserved(u)
    <3>1. CASE EmbeddingFails(u)
      <4>1. embedded'[u] = embedded[u] /\ ~embedded[u]
        BY <1>1, <3>1 DEF EmbeddingFails, EmbeddingInv, IndexInv
      <4> QED
        BY <4>1
    <3>2. CASE Embedded(u)
      <4>1. todo[u] = <<>>
        BY <3>2 DEF Embedded
      <4>2. n = Len(Found[u])
        BY <1>2, <1>3, <4>1, FoundSeq DEF Progress
      <4>3. Deserved(u) = Upto(u, Len(Found[u]))
        BY FoundSeq DEF Deserved, Upto
      <4> QED
        BY <1>2, <4>2, <4>3 DEF Progress
    <3> QED
      BY <1>6, <3>1, <3>2
  <2>6. IndexInv(u)'
    BY <1>1, <2>1, <2>4, <2>5 DEF EmbeddingInv, IndexInv, Pending
  <2> QED
    BY <2>1, <2>2, <2>3, <2>6 DEF EmbeddingInv
<1> QED
  BY <1>5, <1>6 DEF StoreEmbeddings

\* The enhanced agent's store is where the results of a text are taken up.
LEMMA StoreContractIndex ==
    ASSUME BaseInv, EmbeddingInv, NEW u \in Uploads, EStoreContract(u)
    PROVE  EmbeddingInv'
<1>1. /\ UNCHANGED <<nodes, embedded>> /\ pc[u] = "storing"
      /\ \A v \in Uploads \ {u} : pc'[v] = pc[v] /\ contract'[v] = contract[v]
      /\ \/ UNCHANGED todo /\ pc'[u] = "answered"
         \/ /\ u \in Enhanced /\ pc'[u] = "embedding"
            /\ todo' = [todo EXCEPT ![u] = Found[u]]
  BY DEF EStoreContract, Unstored, Answer, Goto, BaseInv, TypeOK
<1>2. NodesInv' /\ Found' = Found /\ embedded' \in [Enhanced -> BOOLEAN] /\ DOMAIN todo' = Enhanced
  BY <1>1 DEF EmbeddingInv, NodesInv, NodeId, Found
<1>3. ASSUME NEW v \in Enhanced \ {u} PROVE IndexInv(v)'
  <2>1. /\ IndexInv(v) /\ pc'[v] = pc[v] /\ contract'[v] = contract[v]
        /\ todo'[v] = todo[v] /\ embedded'[v] = embedded[v]
    BY <1>1, <1>3, EnhancedAssumption DEF EmbeddingInv
  <2> QED
    BY <1>1, <1>3, <2>1, QuietIndex
<1>4. ASSUME u \in Enhanced PROVE IndexInv(u)'
  <2>1. Held(u)' = {} /\ ~embedded'[u]
    BY <1>1, <1>4 DEF EmbeddingInv, IndexInv, Pending, Held
  <2>2. pc'[u] = "embedding" => Progress(u, 0)'
    <3>1. SUFFICES ASSUME pc'[u] = "embedding" PROVE Progress(u, 0)'
      OBVIOUS
    <3>2. todo'[u] = Found[u]
      BY <1>1, <1>4, <3>1 DEF EmbeddingInv
    <3>3. Upto(u, 0)' = {}
      BY DEF Upto
    <3> QED
      BY <1>2, <1>4, <2>1, <3>2, <3>3, FoundSeq DEF Progress
  <2>3. 0 \in 0..Len(Found[u])
    BY <1>4, FoundSeq
  <2> QED
    BY <1>1, <1>2, <2>1, <2>2, <2>3 DEF IndexInv, Pending
<1> QED
  BY <1>2, <1>3, <1>4 DEF EmbeddingInv

LEMMA IndexStep == BaseInv /\ EmbeddingInv /\ [ENext]_evars => EmbeddingInv'
<1> SUFFICES ASSUME BaseInv, EmbeddingInv, [ENext]_evars PROVE EmbeddingInv'
  OBVIOUS
<1>1. ASSUME UNCHANGED indexing,
             \A v \in Enhanced :
                /\ contract'[v] = contract[v]
                /\ \/ pc'[v] = pc[v]
                   \/ pc[v] \in Pending /\ pc'[v] \in {"answered", "lost"}
                   \/ pc[v] \in Pending \ {"embedding"} /\ pc'[v] \in Pending \ {"embedding"}
      PROVE  EmbeddingInv'
  <2>1. UNCHANGED <<todo, nodes, embedded>>
    BY <1>1 DEF indexing
  <2>2. NodesInv' /\ embedded' \in [Enhanced -> BOOLEAN] /\ DOMAIN todo' = Enhanced
    BY <2>1 DEF EmbeddingInv, NodesInv, NodeId
  <2>3. ASSUME NEW v \in Enhanced PROVE IndexInv(v)'
    BY <1>1, <2>1, <2>3, QuietIndex DEF EmbeddingInv
  <2> QED
    BY <2>2, <2>3 DEF EmbeddingInv
<1>2. \A v \in Enhanced : v \in Uploads
  BY EnhancedAssumption
<1>3. ASSUME NEW u \in Uploads, OtherStep(u) PROVE EmbeddingInv'
  <2>1. CASE u \in Enhanced /\ StoreEmbeddings(u)
    BY <2>1, EmbeddingStep
  <2>2. CASE EStoreContract(u)
    BY <2>2, StoreContractIndex
  <2>3. CASE EProceed(u) \/ EAnalyze(u) \/ NotStored(u) \/ EDuplicate(u) \/ EExtract(u)
             \/ Unprocessed(u) \/ EnableEnhanced(u) \/ Unstreamed(u) \/ Unserved(u)
    <3>1. /\ UNCHANGED <<indexing, contract>> /\ pc[u] \in Pending \ {"embedding"}
          /\ \E label \in {"extracting", "analyzing", "storing", "answered"} :
                pc' = [pc EXCEPT ![u] = label]
      BY <2>3 DEF EProceed, EAnalyze, NotStored, EDuplicate, EExtract, Unprocessed,
                  EnableEnhanced, Unstreamed, Unserved, Leave, Unstored, Answer, Goto, graph, Pending
    <3>2. \A v \in Uploads : \/ pc'[v] = pc[v]
                             \/ pc[v] \in Pending \ {"embedding"}
                                /\ pc'[v] \in {"extracting", "analyzing", "storing", "answered"}
      BY <3>1 DEF BaseInv, TypeOK
    <3> QED
      BY <1>1, <1>2, <3>1, <3>2 DEF Pending
  <2> QED
    BY <1>3, <2>1, <2>2, <2>3 DEF OtherStep, Agent
<1>4. ASSUME NEW u \in Uploads, Receive(u) \/ Process(u), u \in Enhanced => Refuse(u) \/ Fail(u),
             UNCHANGED indexing
      PROVE  EmbeddingInv'
  <2>1. \A v \in Uploads \ {u} : pc'[v] = pc[v] /\ contract'[v] = contract[v]
    BY <1>4, OwnStep DEF BaseInv
  <2>2. u \in Enhanced => contract' = contract /\ pc[u] \in Pending /\ pc'[u] = "answered"
    BY <1>4 DEF Refuse, Fail, Answer, Goto, graph, BaseInv, TypeOK, Pending
  <2> QED
    BY <1>1, <1>2, <1>4, <2>1, <2>2
<1>5. CASE (Restart \/ UNCHANGED vars) /\ UNCHANGED indexing
  <2>1. \A v \in Uploads : /\ contract'[v] = contract[v]
                           /\ pc'[v] = pc[v] \/ (pc[v] \in Pending /\ pc'[v] = "lost")
    BY <1>5 DEF Restart, vars, graph, InFlight, BaseInv, TypeOK
  <2> QED
    BY <1>1, <1>2, <1>5, <2>1
<1> QED
  BY <1>3, <1>4, <1>5, StepIsOne

\* Whatever else is uploaded, fails or restarts, the embeddings of a Contract
\* are its own text's, and all of them once a response says so.
THEOREM EmbeddingsAreAlwaysTheContracts == ESpec => []EmbeddingsAreTheContracts
<1>1. EInit => EmbeddingInv
  <2> SUFFICES ASSUME EInit PROVE EmbeddingInv
    OBVIOUS
  <2>1. DOMAIN nodes = {}
    BY DEF EInit
  <2>2. NodesInv /\ \A u : Held(u) = {}
    BY <2>1 DEF NodesInv, Held
  <2>3. \A u \in Enhanced : pc[u] = "reading" /\ ~embedded[u]
    BY EnhancedAssumption DEF EInit, Init
  <2> QED
    BY <2>2, <2>3 DEF EInit, EmbeddingInv, IndexInv
<1>2. EmbeddingInv => EmbeddingsAreTheContracts
  BY DEF EmbeddingInv, IndexInv, EmbeddingsAreTheContracts
<1> QED
  BY BaseInit, BaseStep, IndexStep, <1>1, <1>2, PTL DEF ESpec
=============================================================================
