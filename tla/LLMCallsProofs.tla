--------------------------- MODULE LLMCallsProofs ---------------------------
(* Proofs about LLMCalls, for any calls, providers and number of permits.    *)
EXTENDS LLMCalls, FiniteSetTheorems, TLAPS

-----------------------------------------------------------------------------
\* Every variable keeps its type, and permits stay between zero and Limit
\* because they are balanced.
TypeExceptPermits ==
    /\ pc \in [Calls -> Ended \cup {"begin", "waiting", "asking", "storing"}]
    /\ pass \in [Calls -> {1, 2}]
    /\ tried \in [Calls -> Nat]
    /\ result \in [Calls -> Results]
    /\ permits \in Nat
    /\ cache \in [Keys -> Results \cup {None}]

\* A request that ends keeps the types, whatever kind of call it belongs to.
LEMMA ExtractedType ==
    ASSUME TypeExceptPermits, NEW c \in Calls, NEW items \in SUBSET Items, NEW failed \in BOOLEAN,
           NEW to \in {result[c].to, Question(c)}, Extracted(c, items, to, failed)
    PROVE  /\ pc' \in [Calls -> Ended \cup {"begin", "waiting", "asking", "storing"}]
           /\ pass' \in [Calls -> {1, 2}]
           /\ tried' \in [Calls -> Nat]
           /\ result' \in [Calls -> Results]
<1> USE DEF TypeExceptPermits
<1>1. result[c] \in Results
  OBVIOUS
<1>2. result' \in [Calls -> Results]
  BY <1>1 DEF Extracted, Results
<1> QED
  BY <1>2 DEF Extracted, Done, Ended

LEMMA TypeStep == TypeExceptPermits /\ [Next]_vars => TypeExceptPermits'
<1> SUFFICES ASSUME TypeExceptPermits, [Next]_vars PROVE TypeExceptPermits'
  OBVIOUS
<1> USE DEF TypeExceptPermits
<1>1. ASSUME NEW c \in Calls, Step(c) PROVE TypeExceptPermits'
  <2>1. CASE NothingToAsk(c) \/ Miss(c) \/ Acquire(c) \/ PassOver(c)
    BY <2>1, LimitAssumption DEF NothingToAsk, Miss, Acquire, PassOver, Ended
  <2>2. CASE Hit(c)
    <3>1. Key(c) \in Keys
      BY DEF Keys
    <3> QED
      BY <2>2, <3>1 DEF Hit, Ended
  <2>3. CASE Store(c)
    <3>1. Key(c) \in Keys /\ result[c] \in Results
      BY DEF Keys
    <3> QED
      BY <2>3, <3>1 DEF Store, Ended
  <2>4. ASSUME Failed(c) PROVE TypeExceptPermits'
    <3>1. CASE Degrades(c)
      <4>1. Extracted(c, {}, result[c].to, TRUE) /\ permits' = permits + 1 /\ cache' = cache
        BY <2>4, <3>1 DEF Failed
      <4>2. {} \in SUBSET Items /\ result[c].to \in {result[c].to, Question(c)} /\ TRUE \in BOOLEAN
        OBVIOUS
      <4>3. /\ pc' \in [Calls -> Ended \cup {"begin", "waiting", "asking", "storing"}]
            /\ pass' \in [Calls -> {1, 2}]
            /\ tried' \in [Calls -> Nat]
            /\ result' \in [Calls -> Results]
        BY ONLY TypeExceptPermits, <4>1, <4>2, ExtractedType
      <4> QED
        BY <4>1, <4>3
    <3>2. CASE ~Degrades(c)
      BY <2>4, <3>2 DEF Failed, Ended
    <3> QED
      BY <3>1, <3>2
  <2>5. ASSUME NEW items \in SUBSET Items, Answer(c, items) PROVE TypeExceptPermits'
    <3>1. CASE Extracts(c)
      <4>1. Extracted(c, items, Question(c), FALSE) /\ permits' = permits + 1 /\ cache' = cache
        BY <2>5, <3>1 DEF Answer
      <4>2. Question(c) \in {result[c].to, Question(c)} /\ FALSE \in BOOLEAN
        OBVIOUS
      <4>3. /\ pc' \in [Calls -> Ended \cup {"begin", "waiting", "asking", "storing"}]
            /\ pass' \in [Calls -> {1, 2}]
            /\ tried' \in [Calls -> Nat]
            /\ result' \in [Calls -> Results]
        BY ONLY TypeExceptPermits, <4>1, <4>2, ExtractedType
      <4> QED
        BY <4>1, <4>3
    <3>2. CASE ~Extracts(c)
      <4>1. result[c] \in Results /\ Question(c) \in {Question(d) : d \in Calls} /\ items \cap Asked[c] \in SUBSET Items
        OBVIOUS
      <4>2. [items |-> items \cap Asked[c], to |-> Question(c), failed |-> FALSE] \in Results
        BY <4>1 DEF Results
      <4>3. result' \in [Calls -> Results]
        BY <2>5, <3>2, <4>2 DEF Answer
      <4> QED
        BY <2>5, <3>2, <4>3 DEF Answer, Done, Ended
    <3> QED
      BY <3>1, <3>2
  <2> QED
    BY <1>1, <2>1, <2>2, <2>3, <2>4, <2>5 DEF Step, Error, Exhausted
<1>2. ASSUME NEW k \in Keys, Expire(k) PROVE TypeExceptPermits'
  BY <1>2 DEF Expire
<1>3. CASE UNCHANGED vars
  BY <1>3 DEF vars
<1> QED
  BY <1>1, <1>2, <1>3 DEF Next

-----------------------------------------------------------------------------
(* Permits                                                                 *)

\* What a step does to its own call and to the permits: it acquires one as it
\* begins to ask, releases one as it stops, and otherwise does neither.
LEMMA PermitSteps ==
    ASSUME TypeExceptPermits, NEW c \in Calls, Step(c)
    PROVE  /\ \A d \in Calls \ {c} : pc'[d] = pc[d]
           /\ \/ pc[c] # "asking" /\ pc'[c] = "asking" /\ permits > 0 /\ permits' = permits - 1
              \/ pc[c] = "asking" /\ pc'[c] # "asking" /\ permits' = permits + 1
              \/ (pc[c] = "asking" <=> pc'[c] = "asking") /\ permits' = permits
<1> USE DEF TypeExceptPermits
<1>1. CASE NothingToAsk(c)
  BY <1>1 DEF NothingToAsk
<1>2. CASE Hit(c) \/ Miss(c)
  BY <1>2 DEF Hit, Miss
<1>3. CASE Acquire(c)
  BY <1>3 DEF Acquire
<1>4. CASE PassOver(c)
  BY <1>4 DEF PassOver
<1>5. ASSUME NEW items, NEW to, NEW failed, Extracted(c, items, to, failed)
      PROVE  pc'[c] # "asking" /\ \A d \in Calls \ {c} : pc'[d] = pc[d]
  BY <1>5 DEF Extracted, Done
<1>6. CASE Error(c) \/ Exhausted(c)
  <2>1. pc[c] = "asking" /\ Failed(c)
    BY <1>6 DEF Error, Exhausted, Asking
  <2>2. CASE Degrades(c)
    BY <2>1, <2>2, <1>5 DEF Failed
  <2>3. CASE ~Degrades(c)
    BY <2>1, <2>3 DEF Failed
  <2> QED
    BY <2>2, <2>3
<1>7. CASE Store(c)
  BY <1>7 DEF Store
<1>8. ASSUME NEW items \in SUBSET Items, Answer(c, items)
      PROVE  /\ \A d \in Calls \ {c} : pc'[d] = pc[d]
             /\ pc[c] = "asking" /\ pc'[c] # "asking" /\ permits' = permits + 1
  <2>1. pc[c] = "asking"
    BY <1>8 DEF Answer, Asking
  <2>2. CASE Extracts(c)
    BY <1>8, <2>1, <2>2, <1>5 DEF Answer
  <2>3. CASE ~Extracts(c)
    BY <1>8, <2>1, <2>3 DEF Answer, Done
  <2> QED
    BY <2>2, <2>3
<1> QED
  BY <1>1, <1>2, <1>3, <1>4, <1>6, <1>7, <1>8 DEF Step

\* However requests end, permits are neither lost nor made.
THEOREM PermitsBalanceAlways == Spec => []PermitsBalance
<1>1. Init => TypeExceptPermits /\ PermitsBalance
  <2> SUFFICES ASSUME Init PROVE TypeExceptPermits /\ PermitsBalance
    OBVIOUS
  <2>1. TypeExceptPermits
    BY LimitAssumption DEF Init, TypeExceptPermits, Ended, Results, Nothing
  <2>2. {c \in Calls : pc[c] = "asking"} = {}
    BY DEF Init
  <2> QED
    BY <2>1, <2>2, LimitAssumption, FS_EmptySet DEF Init, PermitsBalance
<1>2. TypeExceptPermits /\ PermitsBalance /\ [Next]_vars => PermitsBalance'
  <2> SUFFICES ASSUME TypeExceptPermits, PermitsBalance, [Next]_vars PROVE PermitsBalance'
    OBVIOUS
  <2>1. ASSUME NEW c \in Calls, Step(c) PROVE PermitsBalance'
    <3>1. permits \in Nat /\ permits' \in Nat
      BY TypeStep DEF TypeExceptPermits
    <3>2. /\ \A d \in Calls \ {c} : pc'[d] = pc[d]
          /\ \/ pc[c] # "asking" /\ pc'[c] = "asking" /\ permits' = permits - 1
             \/ pc[c] = "asking" /\ pc'[c] # "asking" /\ permits' = permits + 1
             \/ (pc[c] = "asking" <=> pc'[c] = "asking") /\ permits' = permits
      BY <2>1, PermitSteps
    <3> DEFINE before == {d \in Calls : pc[d] = "asking"}
               after  == {d \in Calls : pc'[d] = "asking"}
    <3>3. /\ Cardinality(before) \in Nat /\ Cardinality(after) \in Nat
          /\ pc[c] # "asking" /\ pc'[c] = "asking" => Cardinality(after) = Cardinality(before) + 1
          /\ pc[c] = "asking" /\ pc'[c] # "asking" => Cardinality(after) = Cardinality(before) - 1
          /\ (pc[c] = "asking" <=> pc'[c] = "asking") => after = before
      <4>1. IsFiniteSet(before) /\ IsFiniteSet(after)
        BY CallAssumption, FS_Subset
      <4>2. Cardinality(before) \in Nat /\ Cardinality(after) \in Nat
        BY <4>1, FS_CardinalityType
      <4>3. ASSUME pc[c] # "asking", pc'[c] = "asking" PROVE Cardinality(after) = Cardinality(before) + 1
        <5>1. after = before \cup {c} /\ c \notin before
          BY <3>2, <4>3
        <5> QED
          BY <4>1, <5>1, FS_AddElement
      <4>4. ASSUME pc[c] = "asking", pc'[c] # "asking" PROVE Cardinality(after) = Cardinality(before) - 1
        <5>1. after = before \ {c} /\ c \in before
          BY <3>2, <4>4
        <5> QED
          BY <4>1, <5>1, FS_RemoveElement
      <4>5. ASSUME pc[c] = "asking" <=> pc'[c] = "asking" PROVE after = before
        BY <3>2, <4>5
      <4> QED
        BY <4>2, <4>3, <4>4, <4>5
    <3>4. permits + Cardinality(before) = Limit
      BY DEF PermitsBalance
    <3>5. permits' + Cardinality(after) = Limit
      <4> HIDE DEF before, after
      <4> QED
        BY <3>1, <3>2, <3>3, <3>4
    <3> QED
      BY <3>5 DEF PermitsBalance
  <2>2. ASSUME NEW k \in Keys, Expire(k) PROVE PermitsBalance'
    BY <2>2 DEF Expire, PermitsBalance
  <2>3. CASE UNCHANGED vars
    BY <2>3 DEF vars, PermitsBalance
  <2> QED
    BY <2>1, <2>2, <2>3 DEF Next
<1> QED
  BY <1>1, <1>2, TypeStep, PTL DEF Spec

\* Every variable keeps its type; permits are at most Limit as they balance.
THEOREM TypeCorrect == Spec => []TypeOK
<1>1. Init => TypeExceptPermits
  BY LimitAssumption DEF Init, TypeExceptPermits, Ended, Results, Nothing
<1>2. TypeExceptPermits /\ PermitsBalance => TypeOK
  <2> SUFFICES ASSUME TypeExceptPermits, PermitsBalance PROVE permits \in 0 .. Limit
    BY DEF TypeOK, TypeExceptPermits
  <2>1. Cardinality({c \in Calls : pc[c] = "asking"}) \in Nat
    BY CallAssumption, FS_Subset, FS_CardinalityType
  <2> QED
    BY <2>1, LimitAssumption DEF TypeExceptPermits, PermitsBalance
<1> QED
  BY <1>1, <1>2, TypeStep, PermitsBalanceAlways, PTL DEF Spec

-----------------------------------------------------------------------------
(* Results                                                                 *)

\* A key tells questions apart: what answers one call answers any other of
\* the same key.
LEMMA KeysTellQuestions ==
    ASSUME NEW c \in Calls, NEW d \in Calls, Key(c) = Key(d), NEW r, Real(c, r)
    PROVE  Real(d, r)
BY DEF Key, Real, Degrades, Question

\* A request of an extraction, answered or not, leaves it with real clauses
\* and takes none away.
LEMMA ExtractedIsReal ==
    ASSUME TypeExceptPermits, NEW c \in Calls, NEW items \in SUBSET Items, NEW failed \in BOOLEAN,
           NEW to, Extracted(c, items, to, failed), Extracts(c), Asked[c] # {},
           pass[c] = 1 => result[c] = Nothing,
           pass[c] = 2 => Kind[c] = "extract" /\ Real(c, result[c]),
           \/ to = Question(c)
           \/ Degrades(c) /\ to = result[c].to /\ items = {} /\ failed = TRUE
    PROVE  /\ Holds(c, pc'[c], pass'[c], result'[c])
           /\ result[c].items \subseteq result'[c].items
<1>1. result'[c] = [items |-> result[c].items \cup items, to |-> to, failed |-> result[c].failed \/ failed]
  BY DEF Extracted, TypeExceptPermits
<1>2. Real(c, result'[c])
  <2>3. result[c] = Nothing \/ Real(c, result[c])
    BY DEF TypeExceptPermits
  <2>1. CASE to = Question(c)
    BY <1>1, <2>1 DEF Real, Extracts
  <2>2. CASE Degrades(c) /\ to = result[c].to /\ items = {} /\ failed = TRUE
    <3>1. result'[c] = [items |-> result[c].items, to |-> result[c].to, failed |-> TRUE]
      BY <1>1, <2>2
    <3>2. CASE result[c].to = Question(c)
      BY <3>1, <3>2 DEF Real, Extracts
    <3>3. CASE result[c].to # Question(c)
      <4>1. result[c].items = {} /\ result[c].to = None
        BY <3>3, <2>3 DEF Real, Nothing, NoAnswer
      <4> QED
        BY <2>2, <3>1, <4>1 DEF Real, Extracts, NoAnswer
    <3> QED
      BY <3>2, <3>3
  <2> QED
    BY <2>1, <2>2
<1>3. /\ pc'[c] \in {"waiting", "storing", "answered"}
      /\ pass'[c] \in {1, 2}
      /\ pass'[c] = 1 => pc'[c] # "waiting"
      /\ pass'[c] = 2 => pass[c] = 2 \/ Kind[c] = "extract"
  BY DEF Extracted, Done, TypeExceptPermits
<1> QED
  BY <1>1, <1>2, <1>3 DEF Holds

\* What a step does to its own call's result, and what it leaves alone.
LEMMA ResultSteps ==
    ASSUME TypeExceptPermits, NEW c \in Calls, Step(c), Holds(c, pc[c], pass[c], result[c]),
           cache[Key(c)] # None => Real(c, cache[Key(c)])
    PROVE  /\ \A d \in Calls \ {c} : pc'[d] = pc[d] /\ pass'[d] = pass[d] /\ result'[d] = result[d]
           /\ Holds(c, pc'[c], pass'[c], result'[c])
           /\ \/ cache' = cache
              \/ cache' = [cache EXCEPT ![Key(c)] = result[c]] /\ Real(c, result[c])
           /\ result[c].items \subseteq result'[c].items
<1> USE DEF TypeExceptPermits
<1>1. CASE NothingToAsk(c)
  <2>1. pass' = pass /\ result' = result /\ cache' = cache /\ Asked[c] = {}
    BY <1>1 DEF NothingToAsk
  <2>2. pass[c] = 1
    BY <1>1 DEF NothingToAsk, Holds
  <2>3. pc'[c] \in {"answered", "unranked"} /\ \A d \in Calls \ {c} : pc'[d] = pc[d]
    BY <1>1 DEF NothingToAsk
  <2>4. Holds(c, pc'[c], pass'[c], result'[c])
    BY <2>1, <2>2, <2>3 DEF Holds
  <2> QED
    BY <2>1, <2>3, <2>4
<1>2. CASE Hit(c)
  <2>1. pass' = pass /\ cache' = cache /\ result'[c] = cache[Key(c)] /\ cache[Key(c)] # None
    BY <1>2 DEF Hit
  <2>2. pass[c] = 1 /\ result[c] = Nothing
    BY <1>2 DEF Hit, Holds
  <2>3. pc'[c] = "answered" /\ \A d \in Calls \ {c} : pc'[d] = pc[d] /\ result'[d] = result[d]
    BY <1>2 DEF Hit
  <2>4. Holds(c, pc'[c], pass'[c], result'[c])
    BY <2>1, <2>2, <2>3 DEF Holds
  <2> QED
    BY <2>1, <2>2, <2>3, <2>4 DEF Nothing
<1>3. CASE Miss(c) \/ Acquire(c) \/ PassOver(c)
  <2>1. pass' = pass /\ cache' = cache /\ result' = result
    BY <1>3 DEF Miss, Acquire, PassOver
  <2>2. /\ pc'[c] \in {"waiting", "asking"} /\ \A d \in Calls \ {c} : pc'[d] = pc[d]
        /\ pc[c] \in {"begin", "waiting", "asking"}
        /\ Asked[c] # {}
    BY <1>3 DEF Miss, Acquire, PassOver, Asking, Holds
  <2>3. Holds(c, pc'[c], pass'[c], result'[c])
    BY <2>1, <2>2 DEF Holds
  <2> QED
    BY <2>1, <2>2, <2>3
<1>4. ASSUME NEW items, NEW to, NEW failed, Extracted(c, items, to, failed)
      PROVE  \A d \in Calls \ {c} : pc'[d] = pc[d] /\ pass'[d] = pass[d] /\ result'[d] = result[d]
  BY <1>4 DEF Extracted
<1>5. pc[c] = "asking" => /\ Asked[c] # {}
                          /\ pass[c] = 1 => result[c] = Nothing
                          /\ pass[c] = 2 => Kind[c] = "extract" /\ Real(c, result[c])
  BY DEF Holds
<1>6. CASE Error(c) \/ Exhausted(c)
  <2>1. pc[c] = "asking" /\ Failed(c) /\ cache' = cache
    BY <1>6 DEF Error, Exhausted, Asking, Failed
  <2>2. CASE Degrades(c)
    <3>1. Extracted(c, {}, result[c].to, TRUE)
      BY <2>1, <2>2 DEF Failed
    <3>2. /\ Holds(c, pc'[c], pass'[c], result'[c])
          /\ result[c].items \subseteq result'[c].items
      BY <1>5, <2>1, <2>2, <3>1, ExtractedIsReal DEF Degrades, Extracts
    <3> QED
      BY <1>4, <2>1, <3>1, <3>2
  <2>3. CASE ~Degrades(c)
    <3>1. /\ pass' = pass /\ result' = result
          /\ pc'[c] \in {"unranked", "raised"} /\ \A d \in Calls \ {c} : pc'[d] = pc[d]
      BY <2>1, <2>3 DEF Failed
    <3>2. Holds(c, pc'[c], pass'[c], result'[c])
      BY <1>5, <2>1, <2>3, <3>1 DEF Holds, Degrades
    <3> QED
      BY <2>1, <3>1, <3>2
  <2> QED
    BY <2>2, <2>3
<1>7. CASE Store(c)
  <2>1. Real(c, result[c])
    BY <1>7 DEF Store, Holds
  <2>2. /\ pass' = pass /\ result' = result
        /\ pc'[c] = "answered" /\ \A d \in Calls \ {c} : pc'[d] = pc[d]
        /\ pc[c] = "storing"
    BY <1>7 DEF Store
  <2>3. Holds(c, pc'[c], pass'[c], result'[c])
    BY <2>1, <2>2 DEF Holds
  <2> QED
    BY <1>7, <2>1, <2>2, <2>3 DEF Store
<1>8. ASSUME NEW items \in SUBSET Items, Answer(c, items)
      PROVE  /\ \A d \in Calls \ {c} : pc'[d] = pc[d] /\ pass'[d] = pass[d] /\ result'[d] = result[d]
             /\ Holds(c, pc'[c], pass'[c], result'[c])
             /\ cache' = cache
             /\ result[c].items \subseteq result'[c].items
  <2>1. pc[c] = "asking" /\ cache' = cache
    BY <1>8 DEF Answer, Asking
  <2>2. CASE Extracts(c)
    <3>1. Extracted(c, items, Question(c), FALSE)
      BY <1>8, <2>2 DEF Answer
    <3>2. /\ Holds(c, pc'[c], pass'[c], result'[c])
          /\ result[c].items \subseteq result'[c].items
      BY <1>5, <2>1, <2>2, <3>1, ExtractedIsReal
    <3> QED
      BY <1>4, <2>1, <3>1, <3>2
  <2>3. CASE ~Extracts(c)
    <3>1. result[c] = Nothing /\ pass[c] = 1
      BY <1>5, <2>1, <2>3 DEF Extracts
    <3>2. /\ result' = [result EXCEPT ![c] = [items |-> items \cap Asked[c], to |-> Question(c), failed |-> FALSE]]
          /\ pc' = [pc EXCEPT ![c] = Done(c)]
          /\ pass' = pass
      BY <1>8, <2>3 DEF Answer
    <3>3. result'[c] = [items |-> items \cap Asked[c], to |-> Question(c), failed |-> FALSE]
      BY <3>2
    <3>4. Real(c, result'[c]) /\ result[c].items \subseteq result'[c].items
      BY <3>1, <3>3 DEF Real, Nothing
    <3>5. pc'[c] \in {"storing", "answered"} /\ pass'[c] = 1 /\ Asked[c] # {}
      BY <1>5, <2>1, <3>1, <3>2 DEF Done
    <3>6. Holds(c, pc'[c], pass'[c], result'[c])
      BY <3>4, <3>5 DEF Holds
    <3> QED
      BY <2>1, <3>2, <3>4, <3>6
  <2> QED
    BY <2>2, <2>3
<1> QED
  BY <1>1, <1>2, <1>3, <1>6, <1>7, <1>8 DEF Step

\* The inductive invariant, of which AnswersAreReal is the part to read.
LEMMA ResultInvHolds == Spec => [](TypeExceptPermits /\ ResultInv)
<1>1. Init => TypeExceptPermits /\ ResultInv
  <2> SUFFICES ASSUME Init PROVE TypeExceptPermits /\ ResultInv
    OBVIOUS
  <2>1. TypeExceptPermits
    BY LimitAssumption DEF Init, TypeExceptPermits, Ended, Results, Nothing
  <2>2. \A c \in Calls : Key(c) \in Keys
    BY DEF Keys
  <2>3. ResultInv
    <3>1. \A c \in Calls : pc[c] = "begin" /\ pass[c] = 1 /\ result[c] = Nothing /\ cache[Key(c)] = None
      BY <2>2 DEF Init
    <3>2. \A c \in Calls : Holds(c, pc[c], pass[c], result[c])
      BY <3>1 DEF Holds
    <3> QED
      BY <3>1, <3>2 DEF ResultInv
  <2> QED
    BY <2>1, <2>3
<1>2. TypeExceptPermits /\ ResultInv /\ [Next]_vars => ResultInv'
  <2> SUFFICES ASSUME TypeExceptPermits, ResultInv, [Next]_vars PROVE ResultInv'
    OBVIOUS
  <2>1. \A c \in Calls : /\ Holds(c, pc[c], pass[c], result[c])
                         /\ cache[Key(c)] # None => Real(c, cache[Key(c)])
    BY DEF ResultInv
  <2>2. ASSUME NEW c \in Calls, Step(c) PROVE ResultInv'
    <3>1. /\ \A d \in Calls \ {c} : pc'[d] = pc[d] /\ pass'[d] = pass[d] /\ result'[d] = result[d]
          /\ Holds(c, pc'[c], pass'[c], result'[c])
          /\ \/ cache' = cache
             \/ cache' = [cache EXCEPT ![Key(c)] = result[c]] /\ Real(c, result[c])
      BY <2>1, <2>2, ResultSteps
    <3>2. ASSUME NEW d \in Calls PROVE Holds(d, pc'[d], pass'[d], result'[d])
      BY <2>1, <3>1
    <3>3. ASSUME NEW d \in Calls, cache'[Key(d)] # None PROVE Real(d, cache'[Key(d)])
      <4>1. Key(d) \in Keys /\ Key(c) \in Keys
        BY DEF Keys
      <4>2. CASE cache'[Key(d)] = cache[Key(d)]
        BY <2>1, <3>3, <4>2
      <4>3. CASE cache'[Key(d)] # cache[Key(d)]
        <5>1. Key(c) = Key(d) /\ cache'[Key(d)] = result[c] /\ Real(c, result[c])
          BY <3>1, <4>1, <4>3 DEF TypeExceptPermits
        <5> QED
          BY <5>1, KeysTellQuestions
      <4> QED
        BY <4>2, <4>3
    <3> QED
      BY <3>2, <3>3 DEF ResultInv
  <2>3. ASSUME NEW k \in Keys, Expire(k) PROVE ResultInv'
    <3>1. pc' = pc /\ pass' = pass /\ result' = result
      BY <2>3 DEF Expire
    <3>2. ASSUME NEW c \in Calls, cache'[Key(c)] # None PROVE Real(c, cache'[Key(c)])
      <4>1. cache'[Key(c)] = cache[Key(c)]
        BY <2>3, <3>2 DEF Expire, TypeExceptPermits, Keys
      <4> QED
        BY <2>1, <3>2, <4>1
    <3> QED
      BY <2>1, <3>1, <3>2 DEF ResultInv
  <2>4. CASE UNCHANGED vars
    BY <2>4 DEF vars, ResultInv
  <2> QED
    BY <2>2, <2>3, <2>4 DEF Next
<1> QED
  BY <1>1, <1>2, TypeStep, PTL DEF Spec

\* What a call returns and what the cache keeps was answered to that question.
THEOREM AnswersAreRealAlways == Spec => []AnswersAreReal
<1>1. ResultInv => AnswersAreReal
  BY DEF ResultInv, AnswersAreReal, Holds
<1> QED
  BY <1>1, ResultInvHolds, PTL

\* No step takes clauses away from a call: a failed second request leaves an
\* extraction what the first one found.
THEOREM FoundIsAlwaysKept == Spec => FoundIsKept
<1>1. TypeExceptPermits /\ ResultInv /\ [Next]_vars
        => [\A c \in Calls : result[c].items \subseteq result'[c].items]_vars
  <2> SUFFICES ASSUME TypeExceptPermits, ResultInv, Next
               PROVE  \A c \in Calls : result[c].items \subseteq result'[c].items
    OBVIOUS
  <2>1. \A c \in Calls : /\ Holds(c, pc[c], pass[c], result[c])
                         /\ cache[Key(c)] # None => Real(c, cache[Key(c)])
    BY DEF ResultInv
  <2>2. ASSUME NEW c \in Calls, Step(c), NEW d \in Calls PROVE result[d].items \subseteq result'[d].items
    <3>1. /\ \A e \in Calls \ {c} : result'[e] = result[e]
          /\ result[c].items \subseteq result'[c].items
      BY <2>1, <2>2, ResultSteps
    <3> QED
      BY <3>1
  <2>3. ASSUME NEW k \in Keys, Expire(k), NEW d \in Calls PROVE result[d].items \subseteq result'[d].items
    BY <2>3 DEF Expire
  <2> QED
    BY <2>2, <2>3 DEF Next
<1> QED
  BY <1>1, ResultInvHolds, PTL DEF Spec, FoundIsKept

-----------------------------------------------------------------------------
(* What EveryCallEnds rests on: fairness of the threads adds only that a     *)
(* thread that can step does.                                              *)

\* The most steps the thread of a call still takes.  One request takes at most
\* a step for the permit, one for each provider passed over, and one to end;
\* an extraction makes two.
Again(c) == IF pass[c] = 1 THEN Cardinality(Providers(c)) + 2 ELSE 0
StepsLeft(c) ==
    CASE pc[c] = "begin"   -> Cardinality(Providers(c)) - tried[c] + Again(c) + 4
      [] pc[c] = "waiting" -> Cardinality(Providers(c)) - tried[c] + Again(c) + 3
      [] pc[c] = "asking"  -> Cardinality(Providers(c)) - tried[c] + Again(c) + 2
      [] pc[c] = "storing" -> 1
      [] OTHER             -> 0

\* No provider is asked twice in a request.
TriedInv == \A c \in Calls : tried[c] <= Cardinality(Providers(c))

LEMMA ProvidersType == ASSUME NEW c \in Calls PROVE Cardinality(Providers(c)) \in Nat
<1>1. IsFiniteSet({1})
  BY FS_Singleton
<1>2. IsFiniteSet(DOMAIN Chain)
  <2>1. DOMAIN Chain = 1 .. Len(Chain) /\ Len(Chain) \in Nat
    BY ChainAssumption
  <2> QED
    BY <2>1, FS_Interval
<1>3. IsFiniteSet(Providers(c))
  BY <1>1, <1>2, FS_Subset DEF Providers
<1> QED
  BY <1>3, FS_CardinalityType

\* A request that ends leaves its call at most what another request takes, and
\* the others alone.
LEMMA ExtractedCounts ==
    ASSUME TypeExceptPermits, TriedInv, NEW c \in Calls, pc[c] = "asking",
           NEW items, NEW to, NEW failed, Extracted(c, items, to, failed)
    PROVE  /\ \A d \in Calls \ {c} : pc'[d] = pc[d] /\ pass'[d] = pass[d] /\ tried'[d] = tried[d]
           /\ tried'[c] \in {0, tried[c]}
           /\ StepsLeft(c)' < StepsLeft(c)
<1> USE DEF TypeExceptPermits
<1>1. Cardinality(Providers(c)) \in Nat /\ tried[c] <= Cardinality(Providers(c)) /\ Providers(c)' = Providers(c)
  BY ProvidersType DEF TriedInv, Providers
<1>2. \/ pass[c] = 1 /\ pc'[c] = "waiting" /\ pass'[c] = 2 /\ tried'[c] = 0
      \/ pc'[c] \in {"storing", "answered"} /\ tried' = tried
  BY DEF Extracted, Done
<1>3. \A d \in Calls \ {c} : pc'[d] = pc[d] /\ pass'[d] = pass[d] /\ tried'[d] = tried[d]
  BY DEF Extracted
<1>4. StepsLeft(c)' < StepsLeft(c)
  <2>1. pass[c] \in {1, 2} /\ tried[c] \in Nat
    OBVIOUS
  <2>2. CASE pass[c] = 1 /\ pc'[c] = "waiting" /\ pass'[c] = 2 /\ tried'[c] = 0
    BY <1>1, <2>1, <2>2 DEF StepsLeft, Again
  <2>3. CASE pc'[c] \in {"storing", "answered"}
    BY <1>1, <2>1, <2>3 DEF StepsLeft, Again
  <2> QED
    BY <1>2, <2>2, <2>3
<1> QED
  BY <1>2, <1>3, <1>4

\* Every step of a thread counts, and no other thread's.
LEMMA StepCounts ==
    ASSUME TypeExceptPermits, TriedInv, NEW c \in Calls, Step(c)
    PROVE  /\ \A d \in Calls \ {c} : pc'[d] = pc[d] /\ pass'[d] = pass[d] /\ tried'[d] = tried[d]
           /\ tried'[c] <= Cardinality(Providers(c))
           /\ StepsLeft(c)' < StepsLeft(c)
<1> USE DEF TypeExceptPermits
<1>1. /\ Cardinality(Providers(c)) \in Nat /\ tried[c] <= Cardinality(Providers(c))
      /\ Providers(c)' = Providers(c) /\ pass[c] \in {1, 2} /\ tried[c] \in Nat
  BY ProvidersType DEF TriedInv, Providers
<1>2. CASE NothingToAsk(c) \/ Hit(c)
  <2>1. pc[c] = "begin" /\ pc'[c] \in {"unranked", "answered"} /\ tried' = tried /\ pass' = pass
    BY <1>2 DEF NothingToAsk, Hit
  <2>2. \A d \in Calls \ {c} : pc'[d] = pc[d]
    BY <1>2 DEF NothingToAsk, Hit
  <2> QED
    BY <1>1, <2>1, <2>2 DEF StepsLeft, Again
<1>3. CASE Miss(c) \/ Acquire(c)
  <2>1. /\ \/ pc[c] = "begin" /\ pc'[c] = "waiting"
           \/ pc[c] = "waiting" /\ pc'[c] = "asking"
        /\ tried' = tried /\ pass' = pass
        /\ \A d \in Calls \ {c} : pc'[d] = pc[d]
    BY <1>3 DEF Miss, Acquire
  <2> QED
    BY <1>1, <2>1 DEF StepsLeft, Again
<1>4. CASE PassOver(c)
  <2>1. /\ pc[c] = "asking" /\ tried[c] < Cardinality(Providers(c)) /\ tried'[c] = tried[c] + 1
        /\ pc' = pc /\ pass' = pass
        /\ \A d \in Calls \ {c} : tried'[d] = tried[d]
    BY <1>4 DEF PassOver, Asking
  <2> QED
    BY <1>1, <2>1 DEF StepsLeft, Again
<1>5. CASE Store(c)
  <2>1. /\ pc[c] = "storing" /\ pc'[c] = "answered" /\ tried' = tried /\ pass' = pass
        /\ \A d \in Calls \ {c} : pc'[d] = pc[d]
    BY <1>5 DEF Store
  <2> QED
    BY <1>1, <2>1 DEF StepsLeft
<1>6. ASSUME pc[c] = "asking", pc'[c] \in {"raised", "unranked", "answered", "storing"},
             tried' = tried, pass' = pass
      PROVE  StepsLeft(c)' < StepsLeft(c)
  BY <1>1, <1>6 DEF StepsLeft, Again
<1>7. CASE Error(c) \/ Exhausted(c)
  <2>1. pc[c] = "asking" /\ Failed(c)
    BY <1>7 DEF Error, Exhausted, Asking
  <2>2. CASE Degrades(c)
    <3>1. Extracted(c, {}, result[c].to, TRUE)
      BY <2>1, <2>2 DEF Failed
    <3>2. /\ \A d \in Calls \ {c} : pc'[d] = pc[d] /\ pass'[d] = pass[d] /\ tried'[d] = tried[d]
          /\ tried'[c] \in {0, tried[c]}
          /\ StepsLeft(c)' < StepsLeft(c)
      BY <2>1, <3>1, ExtractedCounts
    <3> QED
      BY <1>1, <3>2
  <2>3. CASE ~Degrades(c)
    <3>1. /\ pc'[c] \in {"raised", "unranked"} /\ tried' = tried /\ pass' = pass
          /\ \A d \in Calls \ {c} : pc'[d] = pc[d]
      BY <2>1, <2>3 DEF Failed
    <3> QED
      BY <1>1, <1>6, <2>1, <3>1
  <2> QED
    BY <2>2, <2>3
<1>8. ASSUME NEW items \in SUBSET Items, Answer(c, items)
      PROVE  /\ \A d \in Calls \ {c} : pc'[d] = pc[d] /\ pass'[d] = pass[d] /\ tried'[d] = tried[d]
             /\ tried'[c] <= Cardinality(Providers(c))
             /\ StepsLeft(c)' < StepsLeft(c)
  <2>1. pc[c] = "asking"
    BY <1>8 DEF Answer, Asking
  <2>2. CASE Extracts(c)
    <3>1. Extracted(c, items, Question(c), FALSE)
      BY <1>8, <2>2 DEF Answer
    <3>2. /\ \A d \in Calls \ {c} : pc'[d] = pc[d] /\ pass'[d] = pass[d] /\ tried'[d] = tried[d]
          /\ tried'[c] \in {0, tried[c]}
          /\ StepsLeft(c)' < StepsLeft(c)
      BY <2>1, <3>1, ExtractedCounts
    <3> QED
      BY <1>1, <3>2
  <2>3. CASE ~Extracts(c)
    <3>1. /\ pc'[c] \in {"storing", "answered"} /\ tried' = tried /\ pass' = pass
          /\ \A d \in Calls \ {c} : pc'[d] = pc[d]
      BY <1>8, <2>3 DEF Answer, Done
    <3> QED
      BY <1>1, <1>6, <2>1, <3>1
  <2> QED
    BY <2>2, <2>3
<1> QED
  BY <1>2, <1>3, <1>4, <1>5, <1>7, <1>8 DEF Step

LEMMA TriedStep == TypeExceptPermits /\ TriedInv /\ [Next]_vars => TriedInv'
<1> SUFFICES ASSUME TypeExceptPermits, TriedInv, [Next]_vars PROVE TriedInv'
  OBVIOUS
<1>1. ASSUME NEW c \in Calls, Step(c) PROVE TriedInv'
  BY <1>1, StepCounts DEF TriedInv, Providers
<1>2. ASSUME NEW k \in Keys, Expire(k) PROVE TriedInv'
  BY <1>2 DEF Expire, TriedInv, Providers
<1>3. CASE UNCHANGED vars
  BY <1>3 DEF vars, TriedInv, Providers
<1> QED
  BY <1>1, <1>2, <1>3 DEF Next

LEMMA TriedHolds == Spec => [](TypeExceptPermits /\ TriedInv)
<1>1. Init => TypeExceptPermits /\ TriedInv
  <2> SUFFICES ASSUME Init PROVE TypeExceptPermits /\ TriedInv
    OBVIOUS
  <2>1. TypeExceptPermits
    BY LimitAssumption DEF Init, TypeExceptPermits, Ended, Results, Nothing
  <2>2. TriedInv
    BY ProvidersType DEF Init, TriedInv
  <2> QED
    BY <2>1, <2>2
<1> QED
  BY <1>1, TypeStep, TriedStep, PTL DEF Spec

\* A call takes at most 2N + 6 steps, N the providers it may ask: two requests
\* that pass them all over.
THEOREM CallsAreBounded ==
    Spec => []\A c \in Calls : StepsLeft(c) \in 0 .. 2 * Cardinality(Providers(c)) + 6
<1>1. TypeExceptPermits /\ TriedInv
        => \A c \in Calls : StepsLeft(c) \in 0 .. 2 * Cardinality(Providers(c)) + 6
  <2> SUFFICES ASSUME TypeExceptPermits, TriedInv, NEW c \in Calls
               PROVE  StepsLeft(c) \in 0 .. 2 * Cardinality(Providers(c)) + 6
    OBVIOUS
  <2>1. /\ Cardinality(Providers(c)) \in Nat /\ tried[c] \in Nat
        /\ tried[c] <= Cardinality(Providers(c))
    BY ProvidersType DEF TypeExceptPermits, TriedInv
  <2> QED
    BY <2>1 DEF StepsLeft, Again
<1> QED
  BY <1>1, TriedHolds, PTL

\* Every step of a call's thread is one of those, and nothing, another thread or
\* an expiring cache entry, ever gives a call more to do.
THEOREM EveryStepCounts ==
    Spec => [][\A c \in Calls : /\ StepsLeft(c)' <= StepsLeft(c)
                                /\ Step(c) => StepsLeft(c)' < StepsLeft(c)]_vars
<1>1. ASSUME TypeExceptPermits, TriedInv, [Next]_vars
      PROVE  [\A c \in Calls : /\ StepsLeft(c)' <= StepsLeft(c)
                               /\ Step(c) => StepsLeft(c)' < StepsLeft(c)]_vars
  <2> SUFFICES ASSUME Next, NEW c \in Calls
               PROVE  /\ StepsLeft(c)' <= StepsLeft(c)
                      /\ Step(c) => StepsLeft(c)' < StepsLeft(c)
    BY <1>1
  <2>1. Step(c) => StepsLeft(c)' < StepsLeft(c)
    BY <1>1, StepCounts
  <2>2. StepsLeft(c) \in Int
    BY <1>1, ProvidersType DEF StepsLeft, Again, TypeExceptPermits
  <2>3. ASSUME pc'[c] = pc[c], pass'[c] = pass[c], tried'[c] = tried[c] PROVE StepsLeft(c)' = StepsLeft(c)
    BY <2>3 DEF StepsLeft, Again, Providers
  <2>4. ASSUME NEW d \in Calls \ {c}, Step(d) PROVE StepsLeft(c)' = StepsLeft(c)
    BY <1>1, <2>3, <2>4, StepCounts
  <2>5. ASSUME NEW k \in Keys, Expire(k) PROVE StepsLeft(c)' = StepsLeft(c)
    BY <2>3, <2>5 DEF Expire
  <2>6. ASSUME Step(c) PROVE StepsLeft(c)' <= StepsLeft(c)
    <3>1. TypeExceptPermits'
      BY <1>1, TypeStep
    <3>2. StepsLeft(c)' \in Int
      BY <3>1, ProvidersType DEF StepsLeft, Again, TypeExceptPermits, Providers
    <3> QED
      BY <2>1, <2>2, <2>6, <3>2
  <2> QED
    BY <2>1, <2>2, <2>4, <2>5, <2>6 DEF Next
<1> QED
  BY <1>1, TriedHolds, PTL DEF Spec

\* What the thread of a call waits for: only a permit.
CanStep(c) == pc[c] \notin Ended /\ (pc[c] = "waiting" => permits > 0)

\* The calls never wait on each other: while one has not ended, one can step,
\* because who waits waits for a permit and who has one does not wait.
THEOREM NeverAllWaiting ==
    Spec => []((\A c \in Calls : pc[c] \in Ended) \/ (\E c \in Calls : CanStep(c)))
<1>1. TypeExceptPermits /\ PermitsBalance
        => (\A c \in Calls : pc[c] \in Ended) \/ (\E c \in Calls : CanStep(c))
  <2> SUFFICES ASSUME TypeExceptPermits, PermitsBalance, NEW c \in Calls, pc[c] \notin Ended
               PROVE  \E d \in Calls : CanStep(d)
    OBVIOUS
  <2>1. CASE permits > 0
    BY <2>1 DEF CanStep
  <2>2. CASE permits = 0
    <3>1. {d \in Calls : pc[d] = "asking"} # {}
      BY <2>2, LimitAssumption, FS_EmptySet DEF PermitsBalance
    <3>2. PICK d \in Calls : pc[d] = "asking"
      BY <3>1
    <3> QED
      BY <3>2 DEF CanStep, Ended
  <2> QED
    BY <2>1, <2>2 DEF TypeExceptPermits
<1>2. Init => TypeExceptPermits
  BY LimitAssumption DEF Init, TypeExceptPermits, Ended, Results, Nothing
<1> QED
  BY <1>1, <1>2, TypeStep, PermitsBalanceAlways, PTL DEF Spec
=============================================================================
