-------------------------------- MODULE MCChat --------------------------------
(* Two tenants, three contracts, one text searched for. *)
EXTENDS Chat

CONSTANTS c1, c2, p1, A, B

Node(level, tenant, contract, kind, score, says, fits) ==
    [level |-> level, tenant |-> tenant, contract |-> contract, kind |-> kind,
     score |-> [t \in {"fees"} |-> score], says |-> IF says THEN {"fees"} ELSE {}, fits |-> fits]

\* B's contract is nearer to the text than A's, and crowds the vector index.
MCRows ==
    << Node("document", A, "a1", "MSA", 9, FALSE, {"start", "active", "parties"}),
       Node("document", B, "b1", "NDA", 10, FALSE, {"start", "active", "parties"}),
       Node("document", A, "a2", "fees", 5, FALSE, {"start", "active"}),
       Node("clause", A, "a1", "cap", 9, FALSE, {}),
       Node("clause", A, "a2", "cap", 10, FALSE, {}),
       Node("clause", A, "a1", "audit", 9, FALSE, {}),
       Node("clause", B, "b1", "audit", 4, FALSE, {}),
       Node("section", B, "b1", "payment", 9, FALSE, {}),
       Node("relationship", A, "a2", "Acme", 9, FALSE, {}),
       Node("chunk", A, "a1", "paragraph", 8, TRUE, {}),
       Node("chunk", A, "a2", "paragraph", 0, TRUE, {}),
       Node("legacy", A, "a2", "paragraph", 0, TRUE, {}),
       Node("chunk", B, "b1", "paragraph", 0, TRUE, {}) >>
MCLater == {Node("clause", A, "a1", "cap", 10, FALSE, {})}

NoKinds == [l \in {"section", "clause", "relationship"} |-> {}]
P(level, contract, text, kinds, where) ==
    [level |-> level, contract |-> contract, text |-> text, kinds |-> kinds, where |-> where,
     custom |-> FALSE]
Parties == [NoKinds EXCEPT !["relationship"] = {"Acme"}]
Caps == [NoKinds EXCEPT !["clause"] = {"cap"}]

MCRestParams ==
    {P("clause", Nothing, "fees", NoKinds, {}), P("clause", Nothing, "fees", Caps, {}),
     P("all", Nothing, Nothing, NoKinds, {}), P("document", Nothing, "fees", NoKinds, {"active", "country"})}

Use(tool, tenant, params, shaped) == [tool |-> tool, tenant |-> tenant, params |-> params, shaped |-> shaped]
Aggregation == [P("document", Nothing, "fees", NoKinds, {}) EXCEPT !.custom = TRUE]
EnhancedCall(tenant, params) == Use("EnhancedContractSearch", tenant, params, TRUE)
MCReplies ==
    {[text |-> "plain", calls |-> <<>>],
     [text |-> "private", calls |-> <<EnhancedCall(B, P("all", "a2", Nothing, NoKinds, {}))>>],
     [text |-> "none", calls |-> <<EnhancedCall(Nothing, P("chunk", Nothing, "fees", NoKinds, {})),
                                  Use("MCP tool", B, P("all", Nothing, Nothing, NoKinds, {}), TRUE)>>],
     [text |-> "none", calls |-> <<Use("unknown", Nothing, P("all", Nothing, Nothing, NoKinds, {}), TRUE),
                                  EnhancedCall(A, P("clause", Nothing, "fees", NoKinds, {}))>>],
     [text |-> "none", calls |-> <<Use("ContractSearch", B, P("document", Nothing, "fees", Parties, {"start", "active"}), TRUE),
                                  EnhancedCall(Nothing, P("document", Nothing, Nothing, NoKinds, {"country"}))>>],
     [text |-> "none", calls |-> <<Use("ContractSearch", Nothing, Aggregation, TRUE)>>],
     [text |-> "none", calls |-> <<Use("EnhancedContractSearch", Nothing, P("all", Nothing, "fees", NoKinds, {"amount"}), FALSE)>>]}

R(index, score) == [index |-> index, score |-> score]
MCRankings ==
    {<<>>, <<R(2, 2), R(1, 1)>>, <<R(3, 2), R(1, 1), R(3, 1)>>, <<R(7, 3), R(2, 1)>>}

OnePage == p1 :> A

Symmetry == Permutations(Callers)
=============================================================================
