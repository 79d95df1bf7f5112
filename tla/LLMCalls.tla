------------------------------ MODULE LLMCalls -------------------------------
(***************************************************************************)
(* The LLM calls of one process: clause extraction and classification      *)
(* (backend/agents/llm_extraction_service.py), policy evaluation           *)
(* (policy_evaluation_service.py) and search re-ranking                    *)
(* (reranker_service.py), each a thread that holds one of the process's    *)
(* permits (shared/utils/llm_concurrency.py) while it goes down the chain  *)
(* of providers (llm_fallback_service.py), and the cache of results they   *)
(* share through Redis.                                                    *)
(*                                                                         *)
(* A result is the set of categories, rules or candidates a provider named *)
(* and, for the properties and not for the code, the question it answered  *)
(* and whether a failed request is part of the result.  A breaker may      *)
(* reject any request: CircuitBreaker says when.  An extraction asks for   *)
(* all categories, as in an analysis, and degrades to [] when it fails;    *)
(* the classification of a clause asks for the few its keywords suggest.   *)
(* Of the grouped extraction each group's request is a call of its own.    *)
(***************************************************************************)
EXTENDS Naturals, Sequences, FiniteSets

CONSTANTS
    Calls,       \* one thread each
    Kind,        \* call -> what it is
    Text,        \* call -> contract text, clause or query
    Asked,       \* call -> the categories, rules or candidates it asks about
    Pinned,      \* calls given an llm of their own
    Items,       \* everything a provider may name, asked about or not
    Rare,        \* FALLBACK_CATEGORIES
    Chain,       \* providers, primary first
    Configured,  \* providers with an API key
    Limit,       \* LLM_MAX_CONCURRENT_CALLS
    None

ASSUME LimitAssumption == Limit \in Nat \ {0}
ASSUME CallAssumption  == /\ IsFiniteSet(Calls)
                          /\ \A c \in Calls : /\ Kind[c] \in {"extract", "classify", "group", "evaluate", "rerank"}
                                              /\ Asked[c] \subseteq Items
ASSUME ChainAssumption == Chain \in Seq(STRING) /\ Len(Chain) > 0

VARIABLES
    pc,       \* call -> where its thread is, or how it ended
    pass,     \* call -> 1, or 2 in the second request of an extraction
    tried,    \* call -> how many providers did not serve this request
    result,   \* call -> what it has, and whether a failed request is part of it
    permits,  \* value of llm_call_semaphore
    cache     \* key -> a cached result, or None

vars == <<pc, pass, tried, result, permits, cache>>

Question(c) == <<Kind[c], Text[c], Asked[c]>>

Results == [items : SUBSET Items, to : {Question(c) : c \in Calls} \cup {None}, failed : BOOLEAN]
Nothing == [items |-> {}, to |-> None, failed |-> FALSE]
NoAnswer == [items |-> {}, to |-> None, failed |-> TRUE]
Ended   == {"answered", "raised", "unranked"}

\* Calls of the extraction service, and those of them that take a failed
\* request for one that found nothing: raise_on_error is set for a group only.
Extracts(c) == Kind[c] \in {"extract", "classify", "group"}
Degrades(c) == Kind[c] \in {"extract", "classify"}

\* Mutant of Key: the categories and the rules are not part of it.
MutantKey(c) == <<IF Extracts(c) THEN "clause_extraction" ELSE Kind[c], c \in Pinned, Text[c], {}>>

\* Inputs, model name and prompt version; an extraction has no candidate
\* categories, a classification has, an evaluation has rules with their texts.
Key(c) == <<Kind[c], c \in Pinned, Text[c], Asked[c]>>
Keys   == {Key(c) : c \in Calls}

\* A re-ranking or a group is never cached.
Cached(c) == Kind[c] \notin {"rerank", "group"}
Done(c)   == IF Cached(c) THEN "storing" ELSE "answered"

\* The providers a request tries, as places in the chain: those that have a key,
\* or only the Gemini client the caller passed.
Providers(c) == IF c \in Pinned THEN {1} ELSE {i \in DOMAIN Chain : Chain[i] \in Configured}

TypeOK ==
    /\ pc \in [Calls -> Ended \cup {"begin", "waiting", "asking", "storing"}]
    /\ pass \in [Calls -> {1, 2}]
    /\ tried \in [Calls -> Nat]
    /\ result \in [Calls -> Results]
    /\ permits \in 0 .. Limit
    /\ cache \in [Keys -> Results \cup {None}]

Init ==
    /\ pc = [c \in Calls |-> "begin"]
    /\ pass = [c \in Calls |-> 1]
    /\ tried = [c \in Calls |-> 0]
    /\ result = [c \in Calls |-> Nothing]
    /\ permits = Limit
    /\ cache = [k \in Keys |-> None]

-----------------------------------------------------------------------------
(* Before a provider is asked                                              *)

\* No text, no rules or no candidates: no call is made.
NothingToAsk(c) ==
    /\ pc[c] = "begin"
    /\ Asked[c] = {}
    /\ pc' = [pc EXCEPT ![c] = IF Kind[c] = "rerank" THEN "unranked" ELSE "answered"]
    /\ UNCHANGED <<pass, tried, result, permits, cache>>

Hit(c) ==
    /\ pc[c] = "begin"
    /\ Asked[c] # {}
    /\ Cached(c)
    /\ cache[Key(c)] # None
    /\ result' = [result EXCEPT ![c] = cache[Key(c)]]
    /\ pc' = [pc EXCEPT ![c] = "answered"]
    /\ UNCHANGED <<pass, tried, permits, cache>>

\* Nothing cached, or a read that failed: RedisCache.get answers None.
Miss(c) ==
    /\ pc[c] = "begin"
    /\ Asked[c] # {}
    /\ pc' = [pc EXCEPT ![c] = "waiting"]
    /\ UNCHANGED <<pass, tried, result, permits, cache>>

\* threading.Semaphore: any waiting thread may be the next.
Acquire(c) ==
    /\ pc[c] = "waiting"
    /\ permits > 0
    /\ permits' = permits - 1
    /\ pc' = [pc EXCEPT ![c] = "asking"]
    /\ UNCHANGED <<pass, tried, result, cache>>

-----------------------------------------------------------------------------
(* A request goes down the chain, the permit held                          *)

Asking(c) == pc[c] = "asking" /\ tried[c] < Cardinality(Providers(c))

\* The breaker is open, or the provider has no quota or does not answer.
PassOver(c) ==
    /\ Asking(c)
    /\ tried' = [tried EXCEPT ![c] = @ + 1]
    /\ UNCHANGED <<pc, pass, result, permits, cache>>

\* Mutant of Extracted: the second request's clauses replace the first's.
MutantExtracted(c, items, to, failed) ==
    /\ result' = [result EXCEPT ![c] = [items |-> items, to |-> to, failed |-> failed]]
    /\ IF Kind[c] = "extract" /\ pass[c] = 1 /\ ~(Rare \subseteq items)
       THEN /\ pc' = [pc EXCEPT ![c] = "waiting"]
            /\ pass' = [pass EXCEPT ![c] = 2]
            /\ tried' = [tried EXCEPT ![c] = 0]
       ELSE /\ pc' = [pc EXCEPT ![c] = Done(c)]
            /\ UNCHANGED <<pass, tried>>

\* What is done with the clauses of a request: extract_clauses makes a second,
\* narrower one if a rare category is missing from the first.
Extracted(c, items, to, failed) ==
    /\ result' = [result EXCEPT ![c] = [items |-> @.items \cup items, to |-> to, failed |-> @.failed \/ failed]]
    /\ IF Kind[c] = "extract" /\ pass[c] = 1 /\ ~(Rare \subseteq items)
       THEN /\ pc' = [pc EXCEPT ![c] = "waiting"]
            /\ pass' = [pass EXCEPT ![c] = 2]
            /\ tried' = [tried EXCEPT ![c] = 0]
       ELSE /\ pc' = [pc EXCEPT ![c] = Done(c)]
            /\ UNCHANGED <<pass, tried>>

\* Mutant of Answer: both requests of an extraction under one permit, which
\* the second acquires again.
MutantAnswer(c, items) ==
    /\ Asking(c)
    /\ IF Extracts(c)
       THEN /\ Extracted(c, items, Question(c), FALSE)
            /\ permits' = IF pc'[c] = "waiting" THEN permits ELSE permits + 1
       ELSE /\ permits' = permits + 1
            /\ result' = [result EXCEPT ![c] = [items |-> items \cap Asked[c], to |-> Question(c), failed |-> FALSE]]
            /\ pc' = [pc EXCEPT ![c] = Done(c)]
            /\ UNCHANGED <<pass, tried>>
    /\ UNCHANGED cache

\* A parsed answer.  Rules and candidates nobody asked about are discarded.
Answer(c, items) ==
    /\ Asking(c)
    /\ permits' = permits + 1
    /\ IF Extracts(c)
       THEN Extracted(c, items, Question(c), FALSE)
       ELSE /\ result' = [result EXCEPT ![c] = [items |-> items \cap Asked[c], to |-> Question(c), failed |-> FALSE]]
            /\ pc' = [pc EXCEPT ![c] = Done(c)]
            /\ UNCHANGED <<pass, tried>>
    /\ UNCHANGED cache

\* Mutant of Failed: the permit is released after the request, not finally.
MutantFailed(c) ==
    /\ IF Degrades(c)
       THEN Extracted(c, {}, result[c].to, TRUE)
       ELSE /\ pc' = [pc EXCEPT ![c] = IF Kind[c] = "rerank" THEN "unranked" ELSE "raised"]
            /\ UNCHANGED <<pass, tried, result>>
    /\ UNCHANGED <<permits, cache>>

\* A failed request: an extraction or a classification goes on as if nothing was
\* found, an evaluation or a group raises, a re-ranking keeps the original order.
Failed(c) ==
    /\ permits' = permits + 1
    /\ IF Degrades(c)
       THEN Extracted(c, {}, result[c].to, TRUE)
       ELSE /\ pc' = [pc EXCEPT ![c] = IF Kind[c] = "rerank" THEN "unranked" ELSE "raised"]
            /\ UNCHANGED <<pass, tried, result>>
    /\ UNCHANGED cache

\* An error that no other provider is asked to mend, or an answer that does
\* not parse.
Error(c) == Asking(c) /\ Failed(c)

\* AllProvidersExhaustedError, or the one provider of a pinned call.
Exhausted(c) == pc[c] = "asking" /\ ~Asking(c) /\ Failed(c)

\* The result is cached; RedisCache.set swallows its failure.
Store(c) ==
    /\ pc[c] = "storing"
    /\ \/ cache' = [cache EXCEPT ![Key(c)] = result[c]]
       \/ UNCHANGED cache
    /\ pc' = [pc EXCEPT ![c] = "answered"]
    /\ UNCHANGED <<pass, tried, result, permits>>

\* clause_extraction and policy_evaluation entries live 24 hours.
Expire(k) ==
    /\ cache[k] # None
    /\ cache' = [cache EXCEPT ![k] = None]
    /\ UNCHANGED <<pc, pass, tried, result, permits>>

Step(c) ==
    \/ NothingToAsk(c) \/ Hit(c) \/ Miss(c) \/ Acquire(c)
    \/ PassOver(c) \/ Error(c) \/ Exhausted(c) \/ Store(c)
    \/ \E items \in SUBSET Items : Answer(c, items)

Next == (\E c \in Calls : Step(c)) \/ (\E k \in Keys : Expire(k))

Spec == Init /\ [][Next]_vars

\* Threads run, and every request has a timeout: DEFAULT_TIMEOUT_SECONDS,
\* enforced by the providers' clients.
FairSpec == Spec /\ \A c \in Calls : WF_vars(Step(c))

-----------------------------------------------------------------------------
(* Properties                                                              *)

\* A permit is out exactly while a thread has a request with the providers:
\* never more than Limit of them, and none is lost, however requests fail.
PermitsBalance == permits + Cardinality({c \in Calls : pc[c] = "asking"}) = Limit

\* Did a provider give result r to call c's question?  One that degrades and whose
\* every request failed has no answer, and names nothing.
Real(c, r) ==
    /\ Kind[c] = "evaluate" => r.items \subseteq Asked[c]
    /\ r.to = Question(c) \/ (Degrades(c) /\ r = NoAnswer)

\* What a call returns, from a provider or from the cache, was answered to its
\* very question: a failed evaluation is never a clean one, no rule is cited
\* that was not asked about, and no result is reused for other rules or
\* another text.
AnswersAreReal ==
    \A c \in Calls : /\ pc[c] \in {"storing", "answered"} /\ Asked[c] # {} => Real(c, result[c])
                     /\ cache[Key(c)] # None => Real(c, cache[Key(c)])

\* An inductive strengthening: a call has nothing before its first answer, and
\* only an extraction makes a second request, with what the first one gave it.
Holds(c, at, request, r) ==
    /\ at \in {"storing", "answered"} /\ Asked[c] # {} => Real(c, r)
    /\ at \in {"waiting", "asking", "storing"} => Asked[c] # {}
    /\ (request = 1 /\ at \in {"begin", "waiting", "asking"}) => r = Nothing
    /\ request = 2 => Kind[c] = "extract" /\ at # "begin" /\ Real(c, r)

ResultInv ==
    \A c \in Calls : /\ Holds(c, pc[c], pass[c], result[c])
                     /\ cache[Key(c)] # None => Real(c, cache[Key(c)])

\* A failed second request does not cost an extraction the clauses of the first.
FoundIsKept == [][\A c \in Calls : result[c].items \subseteq result'[c].items]_vars

\* Every call ends: the second request of an extraction does not wait for the
\* permit of the first, and slow calls only delay the others.
EveryCallEnds == <>(\A c \in Calls : pc[c] \in Ended)

=============================================================================
