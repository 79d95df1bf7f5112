-------------------------- MODULE MCDocumentUpload --------------------------
(* Two uploads of one file by one tenant and one by another tenant, or two   *)
(* enhanced uploads and a streamed one, or one of each kind.                 *)
EXTENDS EnhancedUpload, TLC

CONSTANTS u1, u2, u3, e1, e2, s1, t1, t2, n1, NoName

OfTenant == (u1 :> t1) @@ (u2 :> t1) @@ (u3 :> t2) @@ (e1 :> t1) @@ (e2 :> t2) @@ (s1 :> t1)
Named == [u \in {u1, u2, u3} |-> n1] @@ [u \in {e1, e2, s1} |-> NoName]

\* A sentence that matches two types, a short paragraph before a long one, a
\* party in two roles, and a party the contract was not stored with.
Paragraph(long, topics) == [long |-> long, topics |-> topics]
Sentence(long, matches) == [long |-> long, matches |-> matches]
Party(role, name) == [role |-> role, name |-> name]

Texts ==
    (e1 :> [paragraphs |-> <<Paragraph(FALSE, {}), Paragraph(TRUE, {"liability", "payment"})>>,
            sentences |-> <<Sentence(TRUE, {<<"Governing Law", 1>>, <<"Payment Terms", 3>>})>>,
            parties |-> <<Party("vendor", "Acme"), Party("client", "Acme")>>,
            known |-> {"Acme"}]) @@
    (e2 :> [paragraphs |-> <<Paragraph(TRUE, {"termination"})>>,
            sentences |-> <<Sentence(TRUE, {<<"Non-Compete", 1>>, <<"Non-Compete", 2>>}),
                            Sentence(FALSE, {<<"Payment Terms", 1>>})>>,
            parties |-> <<Party("licensor", "Bell")>>,
            known |-> {}])

Together == {{u1, u2, u3}, {e1, e2, s1}, {u1, e1}, {u2, e1}, {u3, e1}, {u3, s1}}

\* u1 and u2 differ in nothing.
Symmetry == Permutations({u1, u2})
=============================================================================
