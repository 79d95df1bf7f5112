----------------------------- MODULE MCLLMCalls ------------------------------
(* The text of a contract of one clause, extracted and classified, a clause  *)
(* evaluated twice against one rule, and a search without candidates.  a and *)
(* b stand for a common and a rare category; a for the rule as well.         *)
EXTENDS LLMCalls, TLC

CONSTANTS e1, c1, v1, v2, r1, contract, clause, query, a, b

KindOf == (e1 :> "extract") @@ (c1 :> "classify") @@ [c \in {v1, v2} |-> "evaluate"] @@ (r1 :> "rerank")
TextOf == [c \in {e1, c1} |-> contract] @@ [c \in {v1, v2} |-> clause] @@ (r1 :> query)
AskedOf == (e1 :> {a, b}) @@ [c \in {c1, v1, v2} |-> {a}] @@ (r1 :> {})
Production == <<"gemini", "openai", "anthropic">>
=============================================================================
