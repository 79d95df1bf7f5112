------------------------------- MODULE Chunking -------------------------------
(***************************************************************************)
(* Cutting an uploaded contract into the chunks that chat and search read  *)
(* (agents/chunking_agent.py and infrastructure/chunking): the document is *)
(* analysed, a strategy is selected, chunks are cut, overlapped, freed of  *)
(* duplicates and numbered, then stored one node at a time and embedded.   *)
(* DocumentUpload has what the upload makes of the outcome.                *)
(*                                                                         *)
(* Text is a sequence of sentences and a sentence a sequence of units of   *)
(* about fifty characters, each with a word of its own.  Sizes, thresholds *)
(* and overlaps are counted in units; part of a unit counts as a unit.     *)
(* Every sentence ends with a mark of punctuation.                         *)
(***************************************************************************)
EXTENDS Naturals, Sequences, SequencesExt, FiniteSets, FiniteSetsExt, Positions

CONSTANTS
    Documents,    \* the documents that may be uploaded, see Document
    Tenant,       \* the tenant that uploads
    None,         \* no tenant, no embedding, a redacted word
    Private,      \* words PIIEngine redacts
    MaxFailures   \* bound: embedding calls that fail

\* A sentence has the words <<text, 1>>, <<text, 2>>, ...; `clauses` has the
\* positions at which a pattern of a legal clause matches.
Mark == {"paragraph", "header", "subsection", "title", "starter", "obligation"}
Sentence == [text : STRING, size : Nat \ {0}, marks : SUBSET Mark, clauses : SUBSET Nat]

\* What the analyzers find out by counting words, in the classes the code
\* tells apart; `continuous` has the chunks, by position, whose overlap
\* ContextPreservationScorer would score above 0.6.
Document == [sentences : Seq(Sentence), complexity : {"low", "medium", "high"},
             legal_terms : {"few", "some", "high", "dense"}, clause_heavy : BOOLEAN,
             continuous : SUBSET Nat]

\* About fifty characters of a text; a word that was redacted is None.
Unit == [word : (STRING \X Nat) \cup {None}, sentence : BOOLEAN, clause : BOOLEAN]

ASSUME DocumentsAssumption == Documents \subseteq Document
ASSUME NoneAssumption      == None \notin Seq(Unit)

VARIABLES
    doc,         \* the document
    path,        \* "orchestrator", "original" or "sync": who is chunking
    stage,       \* the next step of process_document
    chunks,      \* the chunks so far
    cut,         \* history: the chunks before duplicates were removed
    nodes,       \* the Chunk nodes of its Document
    owner,       \* tenant_id of the Document node, "absent" without one
    embeddings,  \* embeddings generated and not stored yet
    tried,       \* chunks an embedding or a DocumentChunk was tried for
    legacy,      \* DocumentChunk nodes
    failures     \* embedding calls that failed

pipeline == <<path, stage, chunks, cut>>
graph == <<nodes, owner, legacy>>
vars == <<doc, pipeline, graph, embeddings, tried, failures>>

-----------------------------------------------------------------------------
(* Text                                                                    *)

Units(s) ==
    [k \in 1..s.size |-> [word |-> <<s.text, k>>, sentence |-> k = 1, clause |-> k \in s.clauses]]
TextOf(ss) == FlattenSeq([i \in DOMAIN ss |-> Units(ss[i])])
Size(ss) == FoldLeft(LAMBDA n, s : n + s.size, 0, ss)
Words(text) == {u.word : u \in Range(text)}
Spoken(text) == [i \in DOMAIN text |-> text[i].word]

Larger(a, b) == IF a > b THEN a ELSE b
Smaller(a, b) == IF a < b THEN a ELSE b

\* The sentences with one of the marks.
With(ss, marks) == {i \in DOMAIN ss : ss[i].marks \cap marks # {}}
Marked(ss, marks) == Cardinality(With(ss, marks))

\* The pieces of a text that begin at one of the positions, sentence by sentence.
SplitBefore(ss, starts) ==
    LET pieces[n \in 0..Len(ss)] ==
            IF n = 0 THEN <<>>
            ELSE LET before == pieces[n - 1] IN
                 IF n = 1 \/ n \in starts THEN Append(before, <<ss[n]>>)
                 ELSE Append(Front(before), Last(before) \o <<ss[n]>>)
    IN  pieces[Len(ss)]

\* Mutant of Pack: what is left after the last full chunk is forgotten.
MutantPack(pieces, max) ==
    LET packed[n \in 0..Len(pieces)] ==
            IF n = 0 THEN <<>>
            ELSE LET before == packed[n - 1] IN
                 IF n = 1 \/ Size(Last(before)) + Size(pieces[n]) > max THEN Append(before, pieces[n])
                 ELSE Append(Front(before), Last(before) \o pieces[n])
        all == packed[Len(pieces)]
    IN  IF Len(all) > 1 THEN Front(all) ELSE all

\* Pieces put together as long as they fit in `max`, piece by piece.
Pack(pieces, max) ==
    LET packed[n \in 0..Len(pieces)] ==
            IF n = 0 THEN <<>>
            ELSE LET before == packed[n - 1] IN
                 IF n = 1 \/ Size(Last(before)) + Size(pieces[n]) > max THEN Append(before, pieces[n])
                 ELSE Append(Front(before), Last(before) \o pieces[n])
    IN  packed[Len(pieces)]

-----------------------------------------------------------------------------
(* Analysis and selection                                                  *)

SectionCount(d) == Marked(d.sentences, {"header", "title"})
ParagraphCount(d) == Cardinality({i \in DOMAIN d.sentences :
                                    i = 1 \/ "paragraph" \in d.sentences[i].marks})
Hierarchical(d) == SectionCount(d) >= 3
IsLegal(d) == LET n == Len(d.sentences) IN
    \/ 10 * Marked(d.sentences, {"starter"}) > n
    \/ 20 * Marked(d.sentences, {"obligation"}) > n

\* optimal_chunk_size: a thousand characters, scaled by three percentages.
MaxSize(d) ==
    LET length == Size(d.sentences)
        byComplexity == CASE d.complexity = "high" -> 60 [] d.complexity = "medium" -> 80
                          [] OTHER -> 100
        byTerms == CASE d.legal_terms = "dense" -> 70 [] d.legal_terms = "few" -> 100
                     [] OTHER -> 85
        byLength == IF length < 40 THEN 70 ELSE IF length > 400 THEN 120 ELSE 100
    IN  Larger(4, Smaller((byComplexity * byTerms * byLength) \div 50000, 40))

Strategies == <<"section", "clause", "paragraph", "hybrid", "sentence">>

\* Whether some selector scores a strategy; every score given is above 0.5.
Suitable(d, strategy) ==
    CASE strategy = "section" -> SectionCount(d) >= 2
      [] strategy = "clause" -> IsLegal(d)
      [] strategy = "paragraph" -> ParagraphCount(d) >= 5
      [] strategy = "hybrid" -> d.complexity = "high" \/ d.legal_terms \in {"high", "dense"}
      [] OTHER -> TRUE

\* The places of those in the order they are tried.
FallbackChain(d) == {k \in DOMAIN Strategies : Suitable(d, Strategies[k])}

\* get_strategy_recommendation, of the original method.
Recommended(d) ==
    IF Hierarchical(d) THEN "section"
    ELSE IF IsLegal(d) /\ d.clause_heavy THEN "clause"
    ELSE IF ParagraphCount(d) >= 5 THEN "paragraph"
    ELSE IF d.complexity = "high" THEN "hybrid"
    ELSE "sentence"

-----------------------------------------------------------------------------
(* Strategies.  A chunk's content is its own text after what it repeats of *)
(* the chunk before.                                                       *)

ChunkOf(text, type, parent) == [own |-> text, content |-> text, type |-> type, parent |-> parent]

LastPart(text, percent) ==
    LET n == (Len(text) * percent + 99) \div 100 IN SubSeq(text, Len(text) - n + 1, Len(text))

\* Each chunk that follows on the one before begins with the end of that one, what
\* that one repeats included.
Overlapped(cs, percent, following) ==
    LET content[i \in DOMAIN cs] ==
            IF i \in following THEN LastPart(content[i - 1], percent) \o cs[i].content ELSE cs[i].content
    IN  [i \in DOMAIN cs |-> [cs[i] EXCEPT !.content = content[i]]]

\* A section longer than `max` is cut at its paragraphs.
SectionParts(section, max) ==
    IF Size(section) <= max THEN <<ChunkOf(TextOf(section), "section", None)>>
    ELSE LET parts == Pack(SplitBefore(section, With(section, {"paragraph"})), max)
         IN  [i \in DOMAIN parts |-> ChunkOf(TextOf(parts[i]), "section_part", Head(section).text)]

SectionChunks(d, max) ==
    LET sections == SplitBefore(d.sentences, With(d.sentences, {"header", "subsection"}))
        cs == FlattenSeq([i \in DOMAIN sections |-> SectionParts(sections[i], max)])
    IN  Overlapped(cs, 20, {i \in 2 .. Len(cs) : /\ {cs[i - 1].type, cs[i].type} = {"section_part"}
                                                /\ cs[i - 1].parent = cs[i].parent})

\* Sentences lose their punctuation when they are split here.
ClauseChunks(d, max) ==
    LET clauses == SplitBefore(d.sentences, {i \in DOMAIN d.sentences : d.sentences[i].clauses # {}})
        groups == Pack(clauses, max)
        bare(text) == [i \in DOMAIN text |-> [text[i] EXCEPT !.sentence = FALSE]]
    IN  Overlapped([i \in DOMAIN groups |-> ChunkOf(bare(TextOf(groups[i])), "clause_group", None)],
                   25, 2 .. Len(groups))

ParagraphChunks(d, max) ==
    LET groups == Pack(SplitBefore(d.sentences, With(d.sentences, {"paragraph"})), max)
    IN  Overlapped([i \in DOMAIN groups |-> ChunkOf(TextOf(groups[i]), "paragraph", None)],
                   IF Size(d.sentences) > 200 THEN 30 ELSE 15, 2 .. Len(groups))

\* Chunks of at most a thousand characters; each repeats the last sentences of
\* the one before, a fifth of them or, in a long document, half, at least one.
SentenceChunks(d) ==
    LET ss == d.sentences
        percent == IF Size(ss) > 200 THEN 50 ELSE 20
        Close(c) == [ChunkOf(TextOf(c.own), "sentence_adaptive", None)
                         EXCEPT !.content = TextOf(c.again \o c.own)]
        Repeated(all) == LET n == Larger(1, (Len(all) * percent) \div 100)
                         IN  SubSeq(all, Len(all) - n + 1, Len(all))
        soFar[n \in 0..Len(ss)] ==
            IF n = 0 THEN [done |-> <<>>, again |-> <<>>, own |-> <<>>]
            ELSE LET before == soFar[n - 1]
                     all == before.again \o before.own
                 IN  IF all # <<>> /\ Size(all) + ss[n].size > 20
                     THEN [done |-> Append(before.done, Close(before)),
                           again |-> Repeated(all), own |-> <<ss[n]>>]
                     ELSE [before EXCEPT !.own = Append(@, ss[n])]
        end == soFar[Len(ss)]
    IN  IF end.own = <<>> THEN end.done ELSE Append(end.done, Close(end))

\* Strategies that can be made with a minimal and a maximal size; making a
\* sentence or a hybrid one raises TypeError.
Creatable == {"section", "clause", "paragraph"}

Cut(d, strategy, max) ==
    CASE strategy = "section" -> SectionChunks(d, max)
      [] strategy = "clause" -> ClauseChunks(d, max)
      [] strategy = "paragraph" -> ParagraphChunks(d, max)

\* _validate_minimum_quality: some chunks, none of fewer than fifty characters on
\* average, nor of fewer than a hundred with what they repeat.
GoodEnough(cs) ==
    /\ cs # <<>>
    /\ FoldLeft(LAMBDA n, c : n + Len(c.own), 0, cs) >= Len(cs)
    /\ 2 * Len(cs) <= FoldLeft(LAMBDA n, c : n + Len(c.content), 0, cs)

\* The first strategy of the chain that can be made and cuts well enough, or
\* sentences of the basic size.
CutWithFallback(d) ==
    LET max == MaxSize(d)
        works == {k \in FallbackChain(d) : /\ Strategies[k] \in Creatable
                                           /\ GoodEnough(Cut(d, Strategies[k], max))}
    IN  IF works = {} THEN SentenceChunks(d) ELSE Cut(d, Strategies[Min(works)], max)

-----------------------------------------------------------------------------
(* OverlapAnalyzer                                                         *)

\* The last sentences of a text, a fifth of them and at least one.
SemanticOverlap(text) ==
    LET starts == {1} \cup {i \in DOMAIN text : text[i].sentence}
        n == Larger(1, (Cardinality(starts) * 20) \div 100)
        first == CHOOSE i \in starts : Cardinality({j \in starts : j >= i}) = n
    IN  SubSeq(text, first, Len(text))

\* From the nearest boundary of a clause in the first three quarters, or from
\* the last boundary.  A text is not a boundary at its start, unless it begins
\* with a pattern of a clause.
ClauseOverlap(text) ==
    LET boundaries == {i \in DOMAIN text : text[i].clause \/ (i > 1 /\ text[i].sentence)}
        before == {i \in boundaries : 4 * (i - 1) <= 3 * Len(text)}
    IN  IF boundaries = {} THEN SemanticOverlap(text)
        ELSE SubSeq(text, Max(IF before = {} THEN boundaries ELSE before), Len(text))

AdvancedOverlap(d, cs) ==
    LET overlap(text) == IF IsLegal(d) THEN ClauseOverlap(text) ELSE SemanticOverlap(text)
        content[i \in DOMAIN cs] ==
            IF i \in d.continuous \ {1} THEN overlap(content[i - 1]) \o cs[i].content ELSE cs[i].content
    IN  [i \in DOMAIN cs |-> [cs[i] EXCEPT !.content = content[i]]]

-----------------------------------------------------------------------------
(* PerformanceOptimizer                                                    *)

\* More than ten chunks go through a pool of four threads in batches, and are
\* gathered in the order of the batches.
InBatches(cs) ==
    LET size == Larger(2, Len(cs) \div 4)
        count == (Len(cs) + size - 1) \div size
        batches == [b \in 1..count |-> SubSeq(cs, (b - 1) * size + 1, Smaller(b * size, Len(cs)))]
    IN  IF Len(cs) <= 10 THEN cs ELSE FlattenSeq(batches)

\* Jaccard similarity of their words of 0.85 or more.
Alike(c, other) ==
    LET v == Words(c.content)
        w == Words(other.content)
    IN  100 * Cardinality(v \cap w) >= 85 * Cardinality(v \cup w)

WithoutDuplicates(cs) ==
    LET kept[n \in 0..Len(cs)] ==
            IF n = 0 THEN <<>>
            ELSE LET before == kept[n - 1] IN
                 IF \E k \in Range(before) : Alike(cs[n], k) THEN before ELSE Append(before, cs[n])
    IN  kept[Len(cs)]

-----------------------------------------------------------------------------
(* ChunkingAgent.process_document                                          *)

\* What PIIEngine leaves of a text; encryption keeps all of it.
Redact(text) == [i \in DOMAIN text |-> IF text[i].word \in Private
                                       THEN [text[i] EXCEPT !.word = None] ELSE text[i]]

\* Mutant of ChunkIndex: no chunk_index is assigned, and its default is used.
MutantChunkIndex(i) == 1

\* The chunk_index the i-th chunk is given, which makes its id.
ChunkIndex(i) == i

Init ==
    /\ doc \in Documents
    /\ path = "orchestrator" /\ stage = "cut" /\ chunks = <<>> /\ cut = <<>>
    /\ nodes = <<>> /\ owner = "absent" /\ legacy = {}
    /\ embeddings = <<>> /\ tried = 0 /\ failures = 0

Goto(next) == stage' = next /\ UNCHANGED path

\* Analysis, selection and the first strategy that works.
Execute ==
    /\ stage = "cut"
    /\ chunks' = CutWithFallback(doc)
    /\ Goto("overlap")
    /\ UNCHANGED <<doc, cut, graph, embeddings, tried, failures>>

Overlap ==
    /\ stage = "overlap"
    /\ chunks' = AdvancedOverlap(doc, chunks)
    /\ Goto("optimize")
    /\ UNCHANGED <<doc, cut, graph, embeddings, tried, failures>>

Optimize ==
    /\ stage = "optimize"
    /\ cut' = chunks
    /\ chunks' = WithoutDuplicates(InBatches(chunks))
    /\ Goto("store_document")
    /\ UNCHANGED <<doc, graph, embeddings, tried, failures>>

\* Any exception of the orchestrator's.
OrchestratorFails ==
    /\ stage \in {"cut", "overlap", "optimize"}
    /\ path' = "original" /\ stage' = "plan" /\ chunks' = <<>>
    /\ UNCHANGED <<doc, cut, graph, embeddings, tried, failures>>

\* _fallback_to_original_processing with the recommended strategy, if it can be
\* made; the upload answers TypeError with the synchronous method.
Plan ==
    /\ stage = "plan"
    /\ IF Recommended(doc) \in Creatable
       THEN /\ chunks' = Cut(doc, Recommended(doc), MaxSize(doc))
            /\ cut' = chunks'
            /\ Goto("generate")
       ELSE path' = "sync" /\ stage' = "sync" /\ UNCHANGED <<chunks, cut>>
    /\ UNCHANGED <<doc, graph, embeddings, tried, failures>>

\* Chunks too poor by _assess_chunk_quality are retried with the sentence
\* strategy, which cannot be made.
Assess(good) ==
    /\ stage = "assess"
    /\ IF good THEN Goto("store_document") /\ UNCHANGED embeddings
       ELSE path' = "sync" /\ stage' = "sync" /\ embeddings' = <<>>
    /\ UNCHANGED <<doc, chunks, cut, graph, tried, failures>>

AfterStore == IF path = "orchestrator" THEN "generate" ELSE "store_embedding"

\* The Document node; the original method gives it no tenant.
StoreDocument ==
    /\ stage = "store_document" /\ chunks # <<>>
    /\ owner' = IF path = "orchestrator" THEN Tenant ELSE None
    /\ Goto("store_chunk")
    /\ UNCHANGED <<doc, chunks, cut, nodes, legacy, embeddings, tried, failures>>

StoreChunk ==
    LET i == Len(nodes) + 1 IN
    /\ stage = "store_chunk"
    /\ nodes' = Append(nodes, [id |-> ChunkIndex(i), content |-> Redact(chunks[i].content),
                               embedding |-> None])
    /\ Goto(IF i < Len(chunks) THEN "store_chunk" ELSE AfterStore)
    /\ UNCHANGED <<doc, chunks, cut, owner, legacy, embeddings, tried, failures>>

\* A query fails, or there is nothing to store and an average to compute: the
\* rest is not stored, and the answer that says so is not looked at.
StoreFails ==
    /\ stage \in {"store_document", "store_chunk"}
    /\ chunks # <<>> => failures < MaxFailures
    /\ failures' = IF chunks = <<>> THEN failures ELSE failures + 1
    /\ Goto(AfterStore)
    /\ UNCHANGED <<doc, chunks, cut, graph, embeddings, tried>>

\* Embeddings of the next five chunks' contents, gathered in their order; chunks
\* whose call fails are left out.
GenerateBatch ==
    LET batch == (tried + 1)..Smaller(tried + 5, Len(chunks)) IN
    /\ stage = "generate" /\ tried < Len(chunks)
    /\ \E failed \in SUBSET batch :
        /\ failures' = failures + Cardinality(failed)
        /\ failures' <= MaxFailures
        /\ LET made == InOrder(batch \ failed, Earlier(batch \ failed))
           IN  embeddings' = embeddings \o
                   [k \in DOMAIN made |-> [id |-> ChunkIndex(made[k]), of |-> made[k]]]
    /\ tried' = tried + Cardinality(batch)
    /\ UNCHANGED <<doc, pipeline, graph>>

Generated ==
    /\ stage = "generate" /\ tried = Len(chunks)
    /\ Goto(IF path = "orchestrator" THEN "store_embedding" ELSE "assess")
    /\ UNCHANGED <<doc, chunks, cut, graph, embeddings, tried, failures>>

\* MATCH (c:Chunk {id: ...}) SET c.embedding: no node, nothing is set.
StoreEmbedding ==
    /\ stage = "store_embedding" /\ embeddings # <<>>
    /\ LET e == Head(embeddings) IN
       nodes' = [n \in DOMAIN nodes |-> IF nodes[n].id = e.id
                                        THEN [nodes[n] EXCEPT !.embedding = chunks[e.of].content] ELSE nodes[n]]
    /\ embeddings' = Tail(embeddings)
    /\ UNCHANGED <<doc, pipeline, owner, legacy, tried, failures>>

StoreEmbeddingFails ==
    /\ stage = "store_embedding" /\ embeddings # <<>> /\ failures < MaxFailures
    /\ failures' = failures + 1
    /\ embeddings' = <<>>
    /\ UNCHANGED <<doc, pipeline, graph, tried>>

EmbeddingsStored ==
    /\ stage = "store_embedding" /\ embeddings = <<>>
    /\ Goto("done")
    /\ UNCHANGED <<doc, chunks, cut, graph, embeddings, tried, failures>>

\* process_document_sync.
Sync ==
    /\ stage = "sync"
    /\ chunks' = SentenceChunks(doc) /\ cut' = chunks'
    /\ tried' = 0
    /\ Goto("store_legacy")
    /\ UNCHANGED <<doc, graph, embeddings, failures>>

\* ChunkStorageService.store_chunks, which goes on past a query that fails.
StoreLegacy ==
    /\ stage = "store_legacy" /\ tried < Len(chunks)
    /\ tried' = tried + 1
    /\ \/ /\ legacy' = legacy \cup {[id |-> tried', content |-> Redact(chunks[tried'].content)]}
          /\ UNCHANGED failures
       \/ /\ failures < MaxFailures
          /\ failures' = failures + 1
          /\ UNCHANGED legacy
    /\ UNCHANGED <<doc, pipeline, nodes, owner, embeddings>>

LegacyStored ==
    /\ stage = "store_legacy" /\ tried = Len(chunks)
    /\ Goto("done")
    /\ UNCHANGED <<doc, chunks, cut, graph, embeddings, tried, failures>>

Next ==
    \/ Execute \/ Overlap \/ Optimize \/ OrchestratorFails
    \/ Plan \/ \E good \in BOOLEAN : Assess(good)
    \/ StoreDocument \/ StoreChunk \/ StoreFails
    \/ GenerateBatch \/ Generated
    \/ StoreEmbedding \/ StoreEmbeddingFails \/ EmbeddingsStored
    \/ Sync \/ StoreLegacy \/ LegacyStored

Spec == Init /\ [][Next]_vars

-----------------------------------------------------------------------------

\* Whatever strategy cuts it, the chunks' own texts are the document, all of it
\* once and in order, up to the removal of duplicates; that keeps the order, and
\* what it drops is nearly all in a chunk that is kept.
ChunksAreTheDocument ==
    LET all == IF cut = <<>> THEN chunks ELSE cut
        kept == Range(chunks)
    IN  all # <<>> =>
        /\ Spoken(FlattenSeq([i \in DOMAIN all |-> all[i].own])) = Spoken(TextOf(doc.sentences))
        /\ \A c \in Range(all) : IsSuffix(Spoken(c.own), Spoken(c.content))
        /\ \/ chunks = all
           \/ /\ kept \subseteq Range(all)
              /\ \A i, j \in DOMAIN chunks : i < j =>
                   SelectInSeq(all, LAMBDA c : c = chunks[i]) < SelectInSeq(all, LAMBDA c : c = chunks[j])
        /\ \A c \in Range(all) \ kept : \E k \in kept : Alike(c, k)

\* The Chunk nodes are the first of the chunks, each under an id of its own, with
\* its own content redacted and, if any, the embedding of its own content; the
\* orchestrator's belong to the uploader.  When no call fails all are there and
\* can be found by their embeddings.
NodesAreTheChunks ==
    /\ Len(nodes) <= Len(chunks)
    /\ \A i \in DOMAIN nodes :
        /\ nodes[i].id = i
        /\ nodes[i].content = Redact(chunks[i].content)
        /\ nodes[i].embedding \in {None, chunks[i].content}
    /\ path = "orchestrator" => owner \in {"absent", Tenant}
    /\ (stage = "done" /\ path # "sync" /\ failures = 0) =>
          Len(nodes) = Len(chunks) /\ \A i \in DOMAIN nodes : nodes[i].embedding # None
=============================================================================
