------------------------------ MODULE MCChunking ------------------------------
(* Documents for the run of Chunking. *)
EXTENDS Chunking, TLC

Plain(i) == [text |-> "plain" \o ToString(i), size |-> 6, marks |-> {"paragraph"}, clauses |-> {}]
Long(i) == [text |-> "long" \o ToString(i), size |-> 13, marks |-> {}, clauses |-> {}]
Heading(i) == [text |-> "heading" \o ToString(i), size |-> 1, marks |-> {"paragraph", "header"}, clauses |-> {}]
Item(i) == [text |-> "item" \o ToString(i), size |-> 3, marks |-> {"subsection"}, clauses |-> {1}]
Duty(i) == [text |-> "duty" \o ToString(i), size |-> 5, marks |-> {"obligation"}, clauses |-> {2}]
Party(i) == [text |-> "party" \o ToString(i), size |-> 12, marks |-> {"paragraph", "starter"}, clauses |-> {1}]
Short(i) == [text |-> "short" \o ToString(i), size |-> 2, marks |-> {"paragraph"}, clauses |-> {1}]

Kind(k, i) == CASE k = 1 -> Plain(i) [] k = 2 -> Long(i) [] k = 3 -> Heading(i) [] k = 4 -> Item(i)
                [] k = 5 -> Duty(i) [] k = 6 -> Party(i) [] k = 7 -> Short(i)

\* Sentences of the given kinds, all different or alike when of one kind.
Written(kinds, alike) == [i \in DOMAIN kinds |-> Kind(kinds[i], IF alike THEN 0 ELSE i)]

\* A document of more than ten chunks: sentences of one kind and size, the last
\* two of a third of that, which fit in one chunk.
Tall(kind, n, size) ==
    [i \in 1..n |-> [Kind(kind, i) EXCEPT !.size = IF i > n - 2 THEN size \div 3 ELSE size]]

Some == {Written(ks, FALSE) : ks \in [1..3 -> 1..7]}
        \cup {Written(ks, TRUE) : ks \in [1..4 -> {1, 3}]}
        \cup {Written(ks, FALSE) : ks \in [1..5 -> {3, 6}]}
Big == {Tall(1, 13, 18), Tall(2, 17, 13), Tall(6, 13, 12), Tall(5, 12, 10)}

MCDocuments ==
    [sentences : Some, complexity : {"low"}, legal_terms : {"few"}, clause_heavy : {TRUE},
     continuous : {{}, 2..6}]
    \cup [sentences : Some, complexity : {"high"}, legal_terms : {"dense"}, clause_heavy : {FALSE},
          continuous : {{}, 2..6}]
    \cup [sentences : Big, complexity : {"medium"}, legal_terms : {"some"}, clause_heavy : {TRUE},
          continuous : {{}, {2, 12}}]

MCPrivate == {<<"plain2", 1>>}
=============================================================================
