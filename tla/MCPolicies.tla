------------------------------ MODULE MCPolicies ------------------------------
(* Model values and texts for the run of Policies. *)
EXTENDS Policies, TLC

CONSTANTS p1, p2, t1, t2

\* Two rules about payment and one that is a header; and a text of headers only,
\* which is accepted and has no rules.
Prose == << [start |-> "other", sentences |-> << {"must", "payment"}, {"brief"} >>],
            [start |-> "letter", sentences |-> << {"shall"} >>],
            [start |-> "letter", sentences |-> << {"forbidden", "payment"} >>] >>
Headers == << [start |-> "letter", sentences |-> << {"must"} >>],
              [start |-> "letter", sentences |-> << {"shall", "prohibited"} >>] >>
Advice == << [start |-> "letter", sentences |-> << {"should"} >>] >>
Texts == {Prose, Headers, Advice}

Baseline == {[id |-> <<None, 1>>, content |-> {}, rule_type |-> "prohibited",
              applies_to |-> {"general"}, severity |-> "CRITICAL"]}

Symmetry == Permutations({p1, p2}) \cup Permutations({t1, t2})
=============================================================================
