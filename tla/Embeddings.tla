------------------------------ MODULE Embeddings ------------------------------
(***************************************************************************)
(* What backend/embeddings makes of a contract's text: an embedding of the *)
(* document, of each long paragraph, of each sentence that matches one of  *)
(* the patterns of a clause type, and of each party with a role.           *)
(*                                                                         *)
(* A text is what the agents can tell of it: its paragraphs, long or not,  *)
(* with the topics whose terms occur; its sentences, with the pairs of a   *)
(* clause type and a pattern that match; its phrases of a role and a name. *)
(* Left out: governing laws, which are embedded and never stored, and      *)
(* matches that run over several sentences, which start in their first.    *)
(***************************************************************************)
EXTENDS Naturals, SequencesExt, FiniteSets, Positions

\* _build_clause_patterns, in its order, three patterns each.
ClauseTypes == <<"Termination For Convenience", "Governing Law", "Non-Compete",
                 "IP Ownership Assignment", "Cap On Liability", "Payment Terms">>
Patterns == 1..3

\* _identify_section_type asks for the topics in this order.
Topics == <<"payment", "termination", "liability", "intellectual_property", "confidentiality">>

Roles == <<"contractor", "client", "vendor", "supplier", "licensee", "licensor">>

\* What the agents can tell of a text; `known` are the parties stored with its contract.
Text == [paragraphs : Seq([long : BOOLEAN, topics : SUBSET STRING]),
         sentences : Seq([long : BOOLEAN, matches : SUBSET (STRING \X Nat)]),
         parties : Seq([role : STRING, name : STRING]),
         known : SUBSET STRING]

-----------------------------------------------------------------------------
\* The first topic that occurs, whatever else does.
SectionType(paragraph) ==
    LET named == SelectSeq(Topics, LAMBDA t : t \in paragraph.topics)
    IN  IF named = <<>> THEN "general" ELSE Head(named)

\* The index counts the short paragraphs too, which get no embedding.
Long(text) == {i \in DOMAIN text.paragraphs : text.paragraphs[i].long}
DocumentResults(text) ==
    LET long == InOrder(Long(text), Earlier(Long(text)))
    IN  <<[level |-> "document", at |-> 0, type |-> "document"]>> \o
        [k \in DOMAIN long |-> [level |-> "section", at |-> long[k],
                                type |-> SectionType(text.paragraphs[long[k]])]]

\* _extract_clauses: one result for each pattern and match, so a sentence is
\* found once for every pattern of every type it matches.  Type by type, then
\* pattern by pattern.
Matching(text) ==
    {hit \in (DOMAIN ClauseTypes) \X Patterns \X (DOMAIN text.sentences) :
        LET sentence == text.sentences[hit[3]]
        IN  <<ClauseTypes[hit[1]], hit[2]>> \in sentence.matches /\ sentence.long}
ClauseResults(text) ==
    LET hits == InOrder(Matching(text), Lexicographic(Matching(text)))
    IN  [k \in DOMAIN hits |-> [level |-> "clause", at |-> hits[k][3], type |-> ClauseTypes[hits[k][1]]]]

\* Role by role, in the order of the table.
InRole(text) == {hit \in (DOMAIN Roles) \X (DOMAIN text.parties) : text.parties[hit[2]].role = Roles[hit[1]]}
PartyResults(text) ==
    LET hits == InOrder(InRole(text), Lexicographic(InRole(text)))
    IN  [k \in DOMAIN hits |-> [level |-> "party", at |-> text.parties[hits[k][2]].name,
                                type |-> Roles[hits[k][1]]]]

\* EmbeddingOrchestrator.process_document, in the order the results are stored.
Results(text) == DocumentResults(text) \o ClauseResults(text) \o PartyResults(text)
=============================================================================
