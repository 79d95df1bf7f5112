-------------------------------- MODULE Search --------------------------------
(***************************************************************************)
(* Searching contracts: the REST search (api/enhanced_contract_search.py,  *)
(* EnhancedSearchService and its strategies) and the two tools of Contract *)
(* Chat (EnhancedContractSearch and ContractSearch), which read one graph  *)
(* and one Redis cache.  Chat has who calls the tools.                     *)
(*                                                                         *)
(* A row is what a query returns about one node.  Its score is what the    *)
(* vector index would answer for a query, in tenths; 0 is a node without   *)
(* an embedding.  A query's text is a member of Texts.                     *)
(***************************************************************************)
EXTENDS Naturals, Sequences, SequencesExt, FiniteSets, Positions

CONSTANTS
    Callers,         \* concurrent searches
    Rows, Later,     \* rows in the graph, and rows stored while it is searched
    Texts,           \* texts searched for
    RestParams,      \* what REST callers ask, see Params
    Tenants,
    Nothing,         \* no text, no contract, no score, no search
    Error,           \* the answer of a search that raised
    Rankings,        \* answers of the re-ranking model
    Reranking,       \* Phase3Config.RERANKING_ENABLED
    Overfetch,       \* VECTOR_SEARCH_OVERFETCH (200)
    PoolSize,        \* RERANK_POOL_SIZE (30)
    TopK,            \* RERANK_TOP_K (10)
    ChunkRows,       \* chunks of a semantic or recent answer (10)
    TextRows,        \* chunks of a text answer (5)
    MaxCached,       \* bound: entries of the cache
    MaxAggregated    \* bound: rows an aggregation answers, see Aggregate

Levels == {"document", "section", "clause", "relationship", "chunk"}

\* `kinds` has the clause and section types and the parties asked for, `where`
\* the other filters on a document, and `custom` says whether there is a
\* cypher_aggregation.
FilterNames == {"start", "end", "type", "active", "country", "amount"}
Params == [level : Levels \cup {"all"}, contract : {Nothing} \cup STRING, text : {Nothing} \cup Texts,
           kinds : [{"section", "clause", "relationship"} -> SUBSET STRING],
           where : SUBSET FilterNames, custom : BOOLEAN]

\* "legacy" is a DocumentChunk; `says` has the texts a chunk's content contains
\* and `fits` the filters a document passes, that on its parties included.
Row == [level : Levels \cup {"legacy"}, tenant : Tenants, contract : STRING, kind : STRING,
        score : [Texts -> 0..10], says : SUBSET Texts, fits : SUBSET (FilterNames \cup {"parties"})]

ASSUME SearchAssumption ==
    /\ Rows \in Seq(Row) /\ Later \subseteq Row
    /\ RestParams \subseteq {p \in Params : p.level # "chunk" /\ ~p.custom}
    /\ Nothing \notin Texts \cup Nat
    /\ {Overfetch, PoolSize, TopK, ChunkRows, TextRows, MaxAggregated} \subseteq Nat

\* A relevance is in tenths too; the model may give any index.
ASSUME RankingAssumption == Rankings \subseteq Seq([index : Nat, score : 0..10])

VARIABLES
    rows,     \* the graph
    cache,    \* entries of Redis: a key and a result
    asked,    \* by caller: its search
    todo,     \* levels still to search
    found,    \* the result so far, by level
    answer    \* Error, or a search and its result

searching == <<asked, todo, found, answer>>
svars == <<rows, cache, searching>>

-----------------------------------------------------------------------------
(* Re-ranking                                                              *)

Unranked(pool) == [i \in DOMAIN pool |-> [row |-> pool[i], rank |-> i, score |-> Nothing]]

\* Where an answer gives a score to an index; one out of range is discarded.
Given(rankings, index) == {n \in DOMAIN rankings : rankings[n].index = index}
Scored(pool, rankings) == {i \in DOMAIN pool : Given(rankings, i) # {}}

\* The last score an index is given.
Score(rankings, index) == rankings[CHOOSE n \in Given(rankings, index) :
                                       \A m \in Given(rankings, index) : m <= n].score

\* Whether of two indexes that score the same a is the first that was given.
GivenFirst(rankings, a, b) ==
    \E n \in Given(rankings, a) : \A m \in Given(rankings, b) : n < m

\* Mutant of Best: sorted without reverse.
MutantBest(scored, rankings) ==
    {p \in scored \X scored :
        \/ Score(rankings, p[1]) < Score(rankings, p[2])
        \/ Score(rankings, p[1]) = Score(rankings, p[2]) /\ GivenFirst(rankings, p[1], p[2])}

\* Best first, and the earlier given of two alike.
Best(scored, rankings) ==
    {p \in scored \X scored :
        \/ Score(rankings, p[1]) > Score(rankings, p[2])
        \/ Score(rankings, p[1]) = Score(rankings, p[2]) /\ GivenFirst(rankings, p[1], p[2])}

\* Last, in their order, what has no score.
Ranked(pool, rankings) ==
    LET scored == Scored(pool, rankings)
        best == InOrder(scored, Best(scored, rankings))
    IN  FirstOf([k \in DOMAIN best |-> [row |-> pool[best[k]], rank |-> best[k],
                                        score |-> Score(rankings, best[k])]]
                    \o Selection(Unranked(pool), DOMAIN pool \ scored),
                TopK)

ToRank(q) == Reranking /\ q.text # Nothing /\ q.api # "legacy tool"

\* What may be made of the rows of a page.  A model that fails leaves their order.
Reranked(q, pool) ==
    (IF ToRank(q) THEN {Ranked(pool, rankings) : rankings \in Rankings} ELSE {})
        \cup {FirstOf(Unranked(pool), TopK)}

-----------------------------------------------------------------------------
(* Queries                                                                 *)

\* The nearest nodes of a level, whosever they are.
Nearest(level, text) ==
    LET near == {i \in DOMAIN rows : rows[i].level = level /\ rows[i].score[text] > 0}
        nearer == {p \in near \X near :
                      \/ rows[p[1]].score[text] > rows[p[2]].score[text]
                      \/ rows[p[1]].score[text] = rows[p[2]].score[text] /\ p[1] < p[2]}
    IN  FirstOf(Picked(rows, InOrder(near, nearer)), Overfetch)

\* Scores above which a row is an answer.
Threshold(q) == CASE q.api = "rest" -> 3 [] q.level = "chunk" -> 7 [] OTHER -> 8

\* The filters a path looks at; a search of all levels looks at none.
Filters(q) ==
    CASE q.level = "all" -> {}
      [] q.level # "all" /\ q.api = "rest" -> q.where \cap {"start", "end", "type", "active"}
      [] q.level # "all" /\ q.api = "tool" -> q.where \cap {"start", "active", "country", "amount"}
      [] q.level # "all" /\ q.api = "legacy tool" ->
            q.where \cup (IF q.kinds["relationship"] = {} THEN {} ELSE {"parties"})

KindsFor(q, level) ==
    IF level \in {"document", "chunk"} \/ (q.api = "tool" /\ q.level = "all" /\ level = "relationship")
    THEN {} ELSE q.kinds[level]

Owned(q, row) == row.tenant = q.tenant /\ q.contract \in {Nothing, row.contract}

Fits(q, level, row) ==
    /\ row.level = level
    /\ Owned(q, row)
    /\ KindsFor(q, level) # {} => row.kind \in KindsFor(q, level)
    /\ level = "document" => Filters(q) \subseteq row.fits

\* The first page of a level; parties of a contract have no vector index.  The
\* legacy tool puts the type of contract a text names before what is near it.
Page(q, level) ==
    LET named(row) == q.api = "legacy tool" /\ row.kind = q.text
        near == IF q.text = Nothing \/ level = "relationship" THEN rows ELSE Nearest(level, q.text)
        answers == {i \in DOMAIN near :
            Fits(q, level, near[i])
            /\ (q.text # Nothing => near[i].score[q.text] > Threshold(q) \/ named(near[i]))}
    IN  FirstOf(Selection(near, {i \in answers : named(near[i])})
                    \o Selection(near, {i \in answers : ~named(near[i])}),
                IF ToRank(q) THEN PoolSize ELSE TopK)

\* _search_chunks: by meaning, and if that finds nothing by text, in chunks and
\* in DocumentChunk nodes; the last chunks of all without a text.
ByMeaning(q) ==
    IF q.text = Nothing THEN <<>>
    ELSE LET near == Nearest("chunk", q.text)
         IN  Selection(near, {i \in DOMAIN near : Fits(q, "chunk", near[i]) /\ near[i].score[q.text] > 7})
ByText(q, level) ==
    LET listed == IF level = "chunk" THEN Reverse(rows) ELSE rows
    IN  Selection(listed, {i \in DOMAIN listed :
            listed[i].level = level /\ Owned(q, listed[i]) /\ (q.text # Nothing => q.text \in listed[i].says)})
TextAnswer(q) ==
    IF q.text = Nothing THEN FirstOf(ByText(q, "chunk"), ChunkRows)
    ELSE FirstOf(ByText(q, "chunk"), TextRows) \o FirstOf(ByText(q, "legacy"), TextRows)

\* A level's part of a result; `pool` is what was there to rank and `failed`
\* whether a query of it failed.
Part(level, items, pool, failed) == [level |-> level, items |-> items, pool |-> pool, failed |-> failed]

-----------------------------------------------------------------------------
(* A search                                                                *)

\* Mutant of CacheKey: the contract is not in the key.
MutantCacheKey(q) == [q EXCEPT !.contract = Nothing]

\* Every argument that affects the result; the two paths' keys differ.
CacheKey(q) == q

LevelsOf(q) ==
    IF q.level # "all" THEN <<q.level>>
    ELSE IF q.api = "rest" THEN <<"document", "clause", "section", "relationship">>
    ELSE <<"document", "section", "clause", "relationship", "chunk">>

SInit ==
    /\ rows = Rows /\ cache = {}
    /\ asked = [c \in Callers |-> Nothing] /\ answer = [c \in Callers |-> Nothing]
    /\ todo = [c \in Callers |-> <<>>] /\ found = [c \in Callers |-> <<>>]

Idle(c) == asked[c] = Nothing /\ answer[c] = Nothing

Ask(c, q) ==
    /\ asked' = [asked EXCEPT ![c] = q]
    /\ todo' = [todo EXCEPT ![c] = <<"cache">>]
    /\ found' = [found EXCEPT ![c] = <<>>]

Answer(c, a) ==
    /\ answer' = [answer EXCEPT ![c] = a]
    /\ asked' = [asked EXCEPT ![c] = Nothing]
    /\ todo' = [todo EXCEPT ![c] = <<>>]
    /\ found' = [found EXCEPT ![c] = <<>>]

\* POST /contracts/search/...; the tenant is of the token.
RestAsk(c, tenant, p) ==
    /\ Idle(c)
    /\ Ask(c, [api |-> "rest", tenant |-> tenant, level |-> p.level, contract |-> Nothing,
               text |-> p.text, kinds |-> p.kinds, where |-> p.where, custom |-> p.custom])
    /\ UNCHANGED <<rows, cache, answer>>

Looking(c) == asked[c] # Nothing /\ todo[c] = <<"cache">>

CacheHit(c) ==
    /\ Looking(c) /\ asked[c].api # "legacy tool"
    /\ \E e \in cache : e.key = CacheKey(asked[c]) /\ Answer(c, [q |-> asked[c], parts |-> e.parts])
    /\ UNCHANGED <<rows, cache>>

\* No entry, or Redis does not answer; the legacy tool has no cache.
CacheMiss(c) ==
    /\ Looking(c)
    /\ todo' = [todo EXCEPT ![c] = LevelsOf(asked[c])]
    /\ UNCHANGED <<rows, cache, asked, found, answer>>

Searching(c, level) == asked[c] # Nothing /\ todo[c] # <<>> /\ Head(todo[c]) = level

Found(c, part) ==
    /\ found' = [found EXCEPT ![c] = Append(@, part)]
    /\ todo' = [todo EXCEPT ![c] = Tail(@)]
    /\ UNCHANGED <<rows, cache, asked, answer>>

LevelFound(c, level) ==
    LET pool == Page(asked[c], level) IN
    \E items \in Reranked(asked[c], pool) : Found(c, Part(level, items, pool, FALSE))

\* A strategy of the REST search; one whose embedding or query fails answers no
\* items and an error.
Strategy(c, level) ==
    /\ Searching(c, level) /\ asked[c].api = "rest"
    /\ LevelFound(c, level) \/ Found(c, Part(level, <<>>, <<>>, TRUE))

DocumentStrategy(c) == Strategy(c, "document")
ClauseStrategy(c) == Strategy(c, "clause")
SectionStrategy(c) == Strategy(c, "section")
RelationshipStrategy(c) == Strategy(c, "relationship")

Raise(c) == Answer(c, Error) /\ UNCHANGED <<rows, cache>>

\* A level of a tool's search, which raises what fails.
ToolLevel(c, level) ==
    /\ Searching(c, level) /\ asked[c].api # "rest"
    /\ LevelFound(c, level) \/ Raise(c)

\* A text of the model's in place of the legacy tool's RETURN; the enhanced tool
\* has it in the key of its cache only.
Aggregated(q) == q.api = "legacy tool" /\ q.custom

\* The text goes into the query as it is.  Behind WITH it may match any nodes,
\* whosever they are, and answer them in any order and as often as it likes;
\* no page cuts them.  That it might write is left out.
Aggregate(c) ==
    /\ Searching(c, "document") /\ Aggregated(asked[c])
    /\ \/ \E n \in 0..MaxAggregated : \E matched \in [1..n -> DOMAIN rows] :
            LET pool == Picked(rows, matched)
            IN  Found(c, Part("aggregation", Unranked(pool), pool, FALSE))
       \/ Raise(c)

SearchDocuments(c) ==
    /\ Searching(c, "document") /\ ~Aggregated(asked[c])
    /\ ToolLevel(c, "document")
SearchSections(c) == ToolLevel(c, "section")
SearchClauses(c) == ToolLevel(c, "clause")
SearchRelationships(c) == ToolLevel(c, "relationship")

\* By meaning, unless that finds nothing or fails.
SearchChunks(c) ==
    /\ Searching(c, "chunk")
    /\ LET near == FirstOf(ByMeaning(asked[c]), ChunkRows)
           said == TextAnswer(asked[c])
       IN  \/ /\ near # <<>>
              /\ Found(c, Part("chunk", Unranked(near), near, FALSE))
           \/ /\ near = <<>>
              /\ Found(c, Part("chunk", Unranked(said), said, FALSE))
           \/ /\ asked[c].text # Nothing
              /\ Found(c, Part("chunk", Unranked(said), said, TRUE))
           \/ Raise(c)

\* Mutant of Cacheable: errors are cached too.
MutantCacheable(q, parts) == q.api # "legacy tool"

\* What search() and get_contracts_multi_level give to cache.set: a combined
\* answer has no error of its own.
Cacheable(q, parts) ==
    /\ q.api # "legacy tool"
    /\ q.api = "rest" /\ q.level # "all" => ~parts[1].failed

Finish(c) ==
    /\ asked[c] # Nothing /\ todo[c] = <<>>
    /\ \/ /\ Cacheable(asked[c], found[c])
          /\ cache' = {e \in cache : e.key # CacheKey(asked[c])}
                      \cup {[key |-> CacheKey(asked[c]), parts |-> found[c]]}
          /\ Cardinality(cache') <= MaxCached
       \/ UNCHANGED cache
    /\ Answer(c, [q |-> asked[c], parts |-> found[c]])
    /\ UNCHANGED rows

\* The time to live of an entry ends, or Redis lost it.
Expire ==
    /\ \E e \in cache : cache' = cache \ {e}
    /\ UNCHANGED <<rows, searching>>

\* An upload or an analysis stores a node.
Store ==
    /\ \E row \in Later \ Range(rows) : rows' = Append(rows, row)
    /\ UNCHANGED <<cache, searching>>

SearchStep(c) ==
    \/ CacheHit(c) \/ CacheMiss(c)
    \/ DocumentStrategy(c) \/ ClauseStrategy(c) \/ SectionStrategy(c) \/ RelationshipStrategy(c)
    \/ Aggregate(c) \/ SearchDocuments(c) \/ SearchSections(c) \/ SearchClauses(c) \/ SearchRelationships(c)
    \/ SearchChunks(c)
    \/ Finish(c)

\* The page or the chat run takes the answer; REST's is returned.
RestAnswered(c) ==
    /\ answer[c] # Nothing
    /\ answer' = [answer EXCEPT ![c] = Nothing]
    /\ UNCHANGED <<rows, cache, asked, todo, found>>

SNext ==
    \/ \E c \in Callers :
        \/ \E tenant \in Tenants, p \in RestParams : RestAsk(c, tenant, p)
        \/ SearchStep(c) \/ RestAnswered(c)
    \/ Expire \/ Store

SSpec == SInit /\ [][SNext]_svars

-----------------------------------------------------------------------------
(* Properties                                                              *)

\* A part of an answer to q: rows of q's tenant, contract, level, kinds and filters.
PartIsOf(q, part) ==
    \A i \in DOMAIN part.items :
        LET row == part.items[i].row IN
        /\ Owned(q, row)
        /\ row.level = part.level \/ (part.level = "chunk" /\ row.level = "legacy")
        /\ KindsFor(q, part.level) # {} => row.kind \in KindsFor(q, part.level)
        /\ part.level = "document" => Filters(q) \subseteq row.fits

\* Whoever else searches and whatever is in the cache, an answer has rows of the
\* asker's tenant only, of the contract selected, of the kinds asked for and
\* through its filters; but for what the chat's model aggregates itself with the
\* legacy tool, which may be any tenant's.
AnswersAreTheAskers ==
    \A c \in Callers :
        answer[c] \notin {Nothing, Error} /\ ~Aggregated(answer[c].q) =>
            \A i \in DOMAIN answer[c].parts : PartIsOf(answer[c].q, answer[c].parts[i])

\* Items of a part: different rows of its pool, none left out for one that
\* scored less, nor for one that was behind and has no better score.
Honest(part) ==
    LET items == part.items
        Better(a, b) == \/ b.score = Nothing
                        \/ a.score # Nothing /\ b.score # Nothing /\ a.score >= b.score
    IN  /\ Len(items) = IF Len(part.pool) < TopK \/ part.level \in {"chunk", "aggregation"}
                        THEN Len(part.pool) ELSE TopK
        /\ \A i \in DOMAIN items : items[i].rank \in DOMAIN part.pool
                                   /\ items[i].row = part.pool[items[i].rank]
        /\ \A i, j \in DOMAIN items : i < j =>
              /\ items[i].rank # items[j].rank
              /\ Better(items[i], items[j])
              /\ items[i].score = Nothing => items[i].rank < items[j].rank

\* Whatever the model answers, indexes out of range, twice or not at all, or no
\* answer: re-ranking loses, repeats and invents nothing.
RankingIsHonest ==
    \A c \in Callers : \A i \in DOMAIN found[c] : Honest(found[c][i])

\* enhanced_search_service.py:78 "Never cache a transient failure".  It holds of
\* the tools, but for chunks, and of REST, but for all levels at once.
FailuresAreNotCached ==
    \A e \in cache : \A i \in DOMAIN e.parts :
        e.parts[i].failed => \/ e.parts[i].level = "chunk"
                             \/ e.key.api = "rest" /\ e.key.level = "all"
=============================================================================
