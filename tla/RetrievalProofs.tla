--------------------------- MODULE RetrievalProofs ---------------------------
(***************************************************************************)
(* For any documents: the chunks an upload cuts are the document, and the  *)
(* nodes are the chunks.  For any callers, pages, rows, texts, answers of  *)
(* the re-ranking model and replies of the agent's model: what a search    *)
(* answers is the asker's, unless the model wrote the query itself,        *)
(* re-ranking loses, repeats and invents nothing, what is cached did not   *)
(* fail, and the tool messages of a chat run answer its calls.             *)
(*                                                                         *)
(* First what the models' orders are, then one search, then a chat run;    *)
(* then sequences, texts and chunks, each way of cutting, and storing.     *)
(***************************************************************************)
EXTENDS Chat, Chunking, FiniteSetTheorems, SequenceTheorems, WellFoundedInduction, TLAPS

-----------------------------------------------------------------------------
(* Orders                                                                  *)

Orders(before, S) ==
    /\ \A i \in S : <<i, i>> \notin before
    /\ \A i, j \in S : i # j => <<i, j>> \in before \/ <<j, i>> \in before
    /\ \A i, j, k \in S : <<i, j>> \in before /\ <<j, k>> \in before => <<i, k>> \in before

LEMMA HasFirst ==
    ASSUME NEW I, I \subseteq Nat, I # {}
    PROVE  \E n \in I : \A m \in I : n <= m
<1>1. \E n \in I : \A m \in I : ~(m < n)
  <2>. DEFINE less == OpToRel(<, Nat)
  <2>1. IsWellFoundedOn(less, Nat)
    BY NatLessThanWellFounded
  <2>2. \A m, n \in Nat : m < n => <<m, n>> \in less
    BY DEF OpToRel
  <2>. HIDE DEF less
  <2>3. PICK n \in I : \A m \in I : ~(<<m, n>> \in less)
    BY <2>1, WFMin
  <2>4. QED BY <2>2, <2>3
<1>2. QED BY <1>1

LEMMA HasLast ==
    ASSUME NEW N \in Nat, NEW I, I \subseteq 1..N, I # {}
    PROVE  \E n \in I : \A m \in I : m <= n
<1>. DEFINE J == {j \in Nat : \E i \in I : j = N - i}
<1>1. PICK i \in I : TRUE
  OBVIOUS
<1>2. N - i \in J
  BY <1>1
<1>3. PICK j \in J : \A k \in J : j <= k
  <2>. HIDE DEF J
  <2>. QED BY <1>2, HasFirst DEF J
<1>4. PICK n \in I : j = N - n
  OBVIOUS
<1>5. ASSUME NEW m \in I PROVE m <= n
  <2>1. N - m \in J
    OBVIOUS
  <2>2. N - n <= N - m
    <3>. HIDE DEF J
    <3>. QED BY <1>3, <1>4, <2>1
  <2>3. QED BY <2>2
<1>6. QED BY <1>5

\* Counting what is before it puts each member at a place of its own.
Ahead(S, before, i) == {j \in S : <<j, i>> \in before}
Rank(S, before) == [i \in S |-> Cardinality(Ahead(S, before, i)) + 1]

LEMMA RanksAreNumbers ==
    ASSUME NEW S, IsFiniteSet(S), NEW before, Orders(before, S)
    PROVE  /\ Cardinality(S) \in Nat
           /\ Rank(S, before) \in Injection(S, 1..Cardinality(S))
           /\ Rank(S, before) \in Surjection(S, 1..Cardinality(S))
           /\ \A i \in S : Cardinality(Ahead(S, before, i)) \in Nat
           /\ \A i, j \in S : <<j, i>> \in before => Rank(S, before)[j] < Rank(S, before)[i]
<1>. DEFINE Below(i) == Ahead(S, before, i)
            rank == Rank(S, before)
            n == Cardinality(S)
<1>1. n \in Nat
  BY FS_CardinalityType
<1>0. \A i \in S : Below(i) = {j \in S : <<j, i>> \in before} /\ rank[i] = Cardinality(Below(i)) + 1
  BY DEF Ahead, Rank
<1>2. ASSUME NEW i \in S PROVE rank[i] \in 1..n
  <2>1. Below(i) \subseteq S \ {i}
    BY DEF Ahead, Orders
  <2>2. IsFiniteSet(S \ {i}) /\ Cardinality(S \ {i}) = n - 1
    BY FS_RemoveElement
  <2>3. Cardinality(Below(i)) \in Nat /\ Cardinality(Below(i)) <= n - 1
    <3>1. IsFiniteSet(Below(i))
      <4>. HIDE DEF Below
      <4>. QED BY <2>1, <2>2, FS_Subset
    <3>2. Cardinality(Below(i)) \in Nat
      <4>. HIDE DEF Below
      <4>. QED BY <3>1, FS_CardinalityType
    <3>3. Cardinality(Below(i)) <= Cardinality(S \ {i})
      <4>. HIDE DEF Below
      <4>. QED BY <2>1, <2>2, FS_Subset
    <3>. HIDE DEF Below
    <3>. QED BY <2>2, <3>2, <3>3
  <2>. HIDE DEF Below, rank
  <2>4. QED BY <1>0, <1>1, <2>3
<1>b. ASSUME NEW i \in S PROVE Cardinality(Below(i)) \in Nat
  <2>1. IsFiniteSet(Below(i))
    BY <1>0, FS_Subset
  <2>2. QED BY <2>1, FS_CardinalityType
<1>3. ASSUME NEW i \in S, NEW j \in S, <<j, i>> \in before PROVE rank[j] < rank[i]
  <2>1. Below(j) \subseteq Below(i) /\ j \in Below(i) /\ j \notin Below(j)
    BY <1>3 DEF Ahead, Orders
  <2>2. IsFiniteSet(Below(i)) /\ Below(i) # Below(j)
    BY <1>0, <2>1, FS_Subset
  <2>3. Cardinality(Below(j)) <= Cardinality(Below(i)) /\ Cardinality(Below(i)) # Cardinality(Below(j))
    <3>. HIDE DEF Below
    <3>. QED BY <2>1, <2>2, FS_Subset
  <2>. HIDE DEF Below, rank
  <2>4. QED BY <1>0, <1>b, <2>3
<1>4. rank \in Injection(S, 1..n)
  <2>1. rank \in [S -> 1..n]
    BY <1>2 DEF Rank
  <2>2. ASSUME NEW i \in S, NEW j \in S, i # j PROVE rank[i] # rank[j]
    <3>1. <<i, j>> \in before \/ <<j, i>> \in before
      BY <2>2 DEF Orders
    <3>. HIDE DEF rank
    <3>. QED BY <1>2, <1>3, <3>1
  <2>. HIDE DEF rank
  <2>. QED BY <2>1, <2>2 DEF Injection, IsInjective
<1>5. rank \in Surjection(S, 1..n)
  <2>1. IsFiniteSet(1..n) /\ Cardinality(1..n) = n
    BY <1>1, FS_Interval
  <2>. HIDE DEF rank
  <2>. QED BY <1>4, <2>1, FS_Injection
<1>6. QED BY <1>1, <1>b, <1>3, <1>4, <1>5

LEMMA EveryRankIsTaken ==
    ASSUME NEW S, IsFiniteSet(S), NEW before, Orders(before, S), NEW k \in 1..Cardinality(S)
    PROVE  \E i \in S : Cardinality(Ahead(S, before, i)) = k - 1
<1>1. PICK i \in S : Rank(S, before)[i] = k
  BY RanksAreNumbers DEF Surjection
<1>2. PICK n \in Nat : n = Cardinality(Ahead(S, before, i))
  BY RanksAreNumbers
<1>3. Rank(S, before)[i] = n + 1
  BY <1>2 DEF Rank
<1>4. QED BY <1>1, <1>2, <1>3

LEMMA InOrderIsAnOrder ==
    ASSUME NEW S, IsFiniteSet(S), NEW before, Orders(before, S)
    PROVE  /\ Cardinality(S) \in Nat
           /\ InOrder(S, before) \in [1..Cardinality(S) -> S]
           /\ \A k, l \in 1..Cardinality(S) : k < l =>
                 <<InOrder(S, before)[k], InOrder(S, before)[l]>> \in before
           /\ \A i \in S : \E k \in 1..Cardinality(S) : InOrder(S, before)[k] = i
<1>. DEFINE rank == Rank(S, before)
            n == Cardinality(S)
            o == InOrder(S, before)
<1>1. n \in Nat /\ rank \in Injection(S, 1..n)
  BY RanksAreNumbers
<1>2. \A i \in S : rank[i] \in 1..n
  <2>. HIDE DEF rank, n
  <2>. QED BY <1>1 DEF Injection
<1>3. \A i, j \in S : <<j, i>> \in before => rank[j] < rank[i]
  BY RanksAreNumbers
<1>6. ASSUME NEW k \in 1..n PROVE o[k] \in S /\ rank[o[k]] = k
  <2>1. \E i \in S : Cardinality(Ahead(S, before, i)) = k - 1
    BY EveryRankIsTaken
  <2>2. o[k] = CHOOSE j \in S : Cardinality(Ahead(S, before, j)) = k - 1
    BY DEF InOrder, Ahead
  <2>3. o[k] \in S /\ Cardinality(Ahead(S, before, o[k])) = k - 1
    <3>. HIDE DEF o
    <3>. QED BY <2>1, <2>2
  <2>4. rank[o[k]] = Cardinality(Ahead(S, before, o[k])) + 1
    <3>. HIDE DEF o
    <3>. QED BY <2>3 DEF Rank
  <2>. HIDE DEF o, rank
  <2>5. QED BY <1>1, <2>3, <2>4
<1>7. o \in [1..n -> S]
  BY <1>6 DEF InOrder
<1>8. ASSUME NEW k \in 1..n, NEW l \in 1..n, k < l PROVE <<o[k], o[l]>> \in before
  <2>1. o[k] \in S /\ o[l] \in S /\ rank[o[k]] = k /\ rank[o[l]] = l
    BY <1>6
  <2>. HIDE DEF rank, o
  <2>2. o[k] # o[l]
    BY <1>8, <2>1
  <2>3. <<o[l], o[k]>> \notin before
    BY <1>1, <1>3, <1>8, <2>1
  <2>4. QED BY <2>1, <2>2, <2>3 DEF Orders
<1>9. ASSUME NEW i \in S PROVE \E k \in 1..n : o[k] = i
  <2>1. rank[i] \in 1..n
    BY <1>2
  <2>2. o[rank[i]] \in S /\ rank[o[rank[i]]] = rank[i]
    BY <1>6, <2>1
  <2>. HIDE DEF rank, o
  <2>3. QED BY <1>1, <2>1, <2>2 DEF Injection, IsInjective
<1>10. QED BY <1>1, <1>7, <1>8, <1>9

LEMMA EarlierOrders == ASSUME NEW I, I \subseteq Nat PROVE Orders(Earlier(I), I)
BY DEF Orders, Earlier


LEMMA FirstOfProperties ==
    ASSUME NEW T, NEW s \in Seq(T), NEW n \in Nat
    PROVE  /\ FirstOf(s, n) \in Seq(T)
           /\ Len(FirstOf(s, n)) = IF Len(s) < n THEN Len(s) ELSE n
           /\ \A i \in DOMAIN FirstOf(s, n) : i \in DOMAIN s /\ FirstOf(s, n)[i] = s[i]
<1>1. PICK m \in Nat : m = IF Len(s) < n THEN Len(s) ELSE n
  OBVIOUS
<1>2. FirstOf(s, n) = SubSeq(s, 1, m)
  BY <1>1 DEF FirstOf
<1>3. \A i \in 1..m : s[i] \in T
  BY <1>1
<1>4. /\ SubSeq(s, 1, m) \in Seq(T) /\ Len(SubSeq(s, 1, m)) = m
      /\ \A i \in 1..m : SubSeq(s, 1, m)[i] = s[i]
  BY <1>3, SubSeqProperties
<1>5. QED BY <1>1, <1>2, <1>4

LEMMA PickedProperties ==
    ASSUME NEW T, NEW s \in Seq(T), NEW I, I \subseteq DOMAIN s, NEW before, Orders(before, I)
    PROVE  /\ Picked(s, InOrder(I, before)) \in Seq({s[i] : i \in I})
           /\ Len(Picked(s, InOrder(I, before))) = Cardinality(I) /\ Cardinality(I) \in Nat
<1>1. IsFiniteSet(I)
  <2>1. IsFiniteSet(1..Len(s)) /\ I \subseteq 1..Len(s)
    BY FS_Interval
  <2>2. QED BY <2>1, FS_Subset
<1>2. PICK n \in Nat : n = Cardinality(I)
  BY <1>1, FS_CardinalityType
<1>3. InOrder(I, before) \in [1..n -> I]
  BY <1>1, <1>2, InOrderIsAnOrder
<1>4. Picked(s, InOrder(I, before)) \in [1..n -> {s[i] : i \in I}]
  BY <1>3 DEF Picked
<1>5. QED BY <1>2, <1>4

LEMMA SelectionProperties ==
    ASSUME NEW T, NEW s \in Seq(T), NEW I, I \subseteq DOMAIN s
    PROVE  /\ Selection(s, I) \in Seq({s[i] : i \in I})
           /\ Len(Selection(s, I)) = Cardinality(I) /\ Cardinality(I) \in Nat
<1>1. I \subseteq Nat
  OBVIOUS
<1>2. Orders(Earlier(I), I)
  BY <1>1, EarlierOrders
<1>3. QED BY <1>2, PickedProperties DEF Selection

-----------------------------------------------------------------------------
(* Re-ranking                                                              *)

LEMMA ScoreType ==
    ASSUME NEW rankings \in Rankings, NEW i, Given(rankings, i) # {}
    PROVE  Score(rankings, i) \in 0..10 /\ Score(rankings, i) # Nothing
<1>1. rankings \in Seq([index : Nat, score : 0..10])
  BY RankingAssumption
<1>2. Len(rankings) \in Nat /\ Given(rankings, i) \subseteq 1..Len(rankings)
  BY <1>1 DEF Given
<1>3. \E n \in Given(rankings, i) : \A m \in Given(rankings, i) : m <= n
  BY <1>2, HasLast
<1>4. PICK n \in Given(rankings, i) : Score(rankings, i) = rankings[n].score
  BY <1>3 DEF Score
<1>5. Score(rankings, i) \in 0..10
  <2>1. n \in 1..Len(rankings)
    BY <1>2, <1>4
  <2>2. rankings[n] \in [index : Nat, score : 0..10]
    BY <1>1, <2>1, ElementOfSeq
  <2>3. QED BY <1>4, <2>2
<1>6. QED BY <1>5, SearchAssumption

LEMMA BestOrders ==
    ASSUME NEW rankings \in Rankings, NEW S, \A i \in S : Given(rankings, i) # {}
    PROVE  Orders(Best(S, rankings), S)
<1>1. rankings \in Seq([index : Nat, score : 0..10])
  BY RankingAssumption
<1>2. \A i \in S : Given(rankings, i) \subseteq Nat
  BY <1>1 DEF Given
<1>3. \A i \in S : Score(rankings, i) \in 0..10
  BY ScoreType
<1>4. \A i \in S : ~GivenFirst(rankings, i, i)
  BY <1>2 DEF GivenFirst
<1>5. ASSUME NEW i \in S, NEW j \in S, i # j PROVE GivenFirst(rankings, i, j) \/ GivenFirst(rankings, j, i)
  <2>1. PICK n \in Given(rankings, i) : \A k \in Given(rankings, i) : n <= k
    BY <1>2, HasFirst
  <2>2. PICK m \in Given(rankings, j) : \A k \in Given(rankings, j) : m <= k
    BY <1>2, HasFirst
  <2>3. n # m
    BY <1>5 DEF Given
  <2>4. n \in Nat /\ m \in Nat
    BY <1>2
  <2>5. CASE n < m
    BY <1>2, <2>2, <2>4, <2>5 DEF GivenFirst
  <2>6. CASE m < n
    BY <1>2, <2>1, <2>4, <2>6 DEF GivenFirst
  <2>7. QED BY <2>3, <2>4, <2>5, <2>6
<1>6. ASSUME NEW i \in S, NEW j \in S, NEW k \in S, GivenFirst(rankings, i, j), GivenFirst(rankings, j, k)
      PROVE  GivenFirst(rankings, i, k)
  <2>1. PICK n \in Given(rankings, i) : \A l \in Given(rankings, j) : n < l
    BY <1>6 DEF GivenFirst
  <2>2. PICK m \in Given(rankings, j) : \A l \in Given(rankings, k) : m < l
    BY <1>6 DEF GivenFirst
  <2>3. \A l \in Given(rankings, k) : n < l
    BY <1>2, <2>1, <2>2
  <2>4. QED BY <2>3 DEF GivenFirst
<1>7. \A i \in S : <<i, i>> \notin Best(S, rankings)
  BY <1>3, <1>4 DEF Best
<1>8. \A i, j \in S : i # j => <<i, j>> \in Best(S, rankings) \/ <<j, i>> \in Best(S, rankings)
  BY <1>3, <1>5 DEF Best
<1>9. \A i, j, k \in S : <<i, j>> \in Best(S, rankings) /\ <<j, k>> \in Best(S, rankings)
                            => <<i, k>> \in Best(S, rankings)
  BY <1>3, <1>6 DEF Best
<1>10. QED BY <1>7, <1>8, <1>9 DEF Orders

Item == [row : Row, rank : Nat, score : {Nothing} \cup 0..10]

\* A page whose order a failing model leaves.
LEMMA UnrankedIsHonest ==
    ASSUME NEW pool \in Seq(Row), NEW n \in Nat,
           NEW level, NEW failed, NEW items,
           items = FirstOf(Unranked(pool), n),
           \/ n = TopK /\ level \notin {"chunk", "aggregation"}
           \/ n >= Len(pool) /\ level \in {"chunk", "aggregation"}
    PROVE  Honest(Part(level, items, pool, failed)) /\ items \in Seq(Item)
<1>. DEFINE whole == Unranked(pool)
            N == Len(pool)
<1>1. N \in Nat /\ DOMAIN pool = 1..N
  OBVIOUS
<1>2. /\ whole \in Seq(Range(whole)) /\ Len(whole) = N /\ DOMAIN whole = 1..N
      /\ \A i \in 1..N : whole[i] = [row |-> pool[i], rank |-> i, score |-> Nothing]
  BY <1>1 DEF Unranked, Range
<1>. HIDE DEF whole
<1>3. /\ Len(items) = (IF N < n THEN N ELSE n)
      /\ items \in Seq(Range(whole))
      /\ \A i \in DOMAIN items : i \in DOMAIN whole /\ items[i] = whole[i]
  BY <1>2, FirstOfProperties DEF whole
<1>4. \A i \in DOMAIN items : i \in 1..N /\ items[i] = [row |-> pool[i], rank |-> i, score |-> Nothing]
  BY <1>2, <1>3
<1>5. Len(items) = IF N < TopK \/ level \in {"chunk", "aggregation"} THEN N ELSE TopK
  BY <1>1, <1>3
<1>6. DOMAIN items \subseteq Nat
  BY <1>1, <1>4
<1>7. Honest(Part(level, items, pool, failed))
  BY <1>1, <1>4, <1>5, <1>6 DEF Honest, Part
<1>8. \A i \in DOMAIN items : items[i] \in Item
  BY <1>1, <1>4, ElementOfSeq DEF Item
<1>9. items \in Seq(Item)
  BY <1>3, <1>8
<1>10. QED BY <1>7, <1>9

\* A page that the model ranked.
LEMMA RankedIsHonest ==
    ASSUME NEW pool \in Seq(Row), NEW rankings \in Rankings, NEW level,
           level # "chunk", level # "aggregation", NEW failed
    PROVE  /\ Honest(Part(level, Ranked(pool, rankings), pool, failed))
           /\ Ranked(pool, rankings) \in Seq(Item)
<1>. DEFINE N == Len(pool)
            S == Scored(pool, rankings)
            U == DOMAIN pool \ S
            o == InOrder(S, Best(S, rankings))
            u == InOrder(U, Earlier(U))
            best == [k \in DOMAIN o |-> [row |-> pool[o[k]], rank |-> o[k], score |-> Score(rankings, o[k])]]
            rest == Selection(Unranked(pool), U)
            items == Ranked(pool, rankings)
            Ranks == Range(best) \cup Range(rest)
<1>1. N \in Nat /\ DOMAIN pool = 1..N /\ S \subseteq 1..N /\ U \subseteq 1..N /\ U = (1..N) \ S
  BY DEF Scored
<1>2. IsFiniteSet(S) /\ IsFiniteSet(U) /\ Cardinality(U) = N - Cardinality(S) /\ Cardinality(S) \in Nat
  <2>1. IsFiniteSet(1..N) /\ Cardinality(1..N) = N
    <3>. HIDE DEF N
    <3>. QED BY <1>1, FS_Interval
  <2>2. (1..N) \cap S = S
    BY <1>1
  <2>. HIDE DEF S, N
  <2>3. IsFiniteSet(S)
    BY <1>1, <2>1, FS_Subset
  <2>4. IsFiniteSet((1..N) \ S) /\ Cardinality((1..N) \ S) = Cardinality(1..N) - Cardinality((1..N) \cap S)
    BY <2>1, FS_Difference
  <2>5. QED BY <1>1, <2>1, <2>2, <2>3, <2>4, FS_CardinalityType
<1>3. PICK a \in Nat, b \in Nat : a = Cardinality(S) /\ b = Cardinality(U) /\ a + b = N
  <2>. HIDE DEF S, U, N
  <2>. QED BY <1>1, <1>2, FS_CardinalityType
<1>4. Orders(Best(S, rankings), S) /\ Orders(Earlier(U), U)
  <2>1. \A i \in S : Given(rankings, i) # {}
    BY DEF Scored
  <2>2. U \subseteq Nat
    BY <1>1
  <2>. HIDE DEF S, U
  <2>. QED BY <2>1, <2>2, BestOrders, EarlierOrders
<1>5. /\ o \in [1..a -> S]
      /\ \A k, l \in 1..a : k < l => <<o[k], o[l]>> \in Best(S, rankings)
  <2>. HIDE DEF S
  <2>. QED BY <1>2, <1>3, <1>4, InOrderIsAnOrder
<1>6. /\ u \in [1..b -> U]
      /\ \A k, l \in 1..b : k < l => <<u[k], u[l]>> \in Earlier(U)
  <2>. HIDE DEF U
  <2>. QED BY <1>2, <1>3, <1>4, InOrderIsAnOrder
<1>. HIDE DEF o, u, S, N
<1>7. /\ best \in Seq(Ranks) /\ Len(best) = a
      /\ \A k \in 1..a : best[k] = [row |-> pool[o[k]], rank |-> o[k], score |-> Score(rankings, o[k])]
  <2>1. DOMAIN o = 1..a
    BY <1>5
  <2>2. best = [k \in 1..a |-> [row |-> pool[o[k]], rank |-> o[k], score |-> Score(rankings, o[k])]]
    BY <2>1
  <2>3. \A k \in 1..a : best[k] \in Ranks
    BY <2>2 DEF Range
  <2>. HIDE DEF Ranks
  <2>4. QED BY <1>3, <2>2, <2>3
<1>8. /\ rest = [k \in 1..b |-> [row |-> pool[u[k]], rank |-> u[k], score |-> Nothing]]
  BY <1>1, <1>6 DEF Selection, Picked, Unranked, u, N
<1>9. /\ rest \in Seq(Ranks) /\ Len(rest) = b
      /\ \A k \in 1..b : rest[k] = [row |-> pool[u[k]], rank |-> u[k], score |-> Nothing]
  <2>. HIDE DEF rest, best
  <2>1. /\ DOMAIN rest = 1..b
        /\ \A k \in 1..b : rest[k] = [row |-> pool[u[k]], rank |-> u[k], score |-> Nothing]
    BY <1>8
  <2>2. \A k \in 1..b : rest[k] \in Ranks
    BY <2>1 DEF Range
  <2>3. rest \in [1..b -> Ranks]
    <3>. HIDE DEF Ranks
    <3>. QED BY <1>8, <2>1, <2>2
  <2>. HIDE DEF Ranks
  <2>. QED BY <2>1, <2>3
<1>10. items = FirstOf(best \o rest, TopK)
  BY DEF Ranked, S, o
<1>. HIDE DEF best, rest, Ranks, items
<1>11. /\ best \o rest \in Seq(Ranks) /\ Len(best \o rest) = N
       /\ \A i \in 1..N : (best \o rest)[i] = IF i <= a THEN best[i] ELSE rest[i - a]
  BY <1>3, <1>7, <1>9, ConcatProperties
<1>12. /\ items \in Seq(Ranks) /\ Len(items) = IF N < TopK THEN N ELSE TopK
       /\ \A i \in DOMAIN items : i \in 1..N /\ items[i] = (best \o rest)[i]
  <2>1. TopK \in Nat
    BY SearchAssumption
  <2>2. DOMAIN (best \o rest) = 1..N
    BY <1>11
  <2>3. QED BY <1>10, <1>11, <2>1, <2>2, FirstOfProperties
<1>13. ASSUME NEW i \in DOMAIN items, i <= a
       PROVE  /\ i \in 1..a /\ o[i] \in S
              /\ items[i] = [row |-> pool[o[i]], rank |-> o[i], score |-> Score(rankings, o[i])]
  BY <1>3, <1>5, <1>7, <1>11, <1>12, <1>13, SMTT(30)
<1>14. ASSUME NEW i \in DOMAIN items, ~(i <= a)
       PROVE  /\ i - a \in 1..b /\ u[i - a] \in U
              /\ items[i] = [row |-> pool[u[i - a]], rank |-> u[i - a], score |-> Nothing]
  <2>1. i \in 1..N /\ items[i] = rest[i - a]
    BY <1>11, <1>12, <1>14
  <2>2. i - a \in 1..b
    BY <1>3, <1>14, <2>1
  <2>3. QED BY <1>6, <1>9, <2>1, <2>2
<1>15. \A i \in DOMAIN items : items[i].rank \in DOMAIN pool /\ items[i].row = pool[items[i].rank]
  <2>1. ASSUME NEW i \in DOMAIN items PROVE items[i].rank \in DOMAIN pool /\ items[i].row = pool[items[i].rank]
    <3>1. CASE i <= a
      <4>1. /\ o[i] \in 1..N
            /\ items[i] = [row |-> pool[o[i]], rank |-> o[i], score |-> Score(rankings, o[i])]
        BY <1>1, <1>13, <3>1
      <4>2. QED BY <1>1, <4>1
    <3>2. CASE ~(i <= a)
      BY <1>1, <1>14, <3>2
    <3>3. QED BY <3>1, <3>2
  <2>2. QED BY <2>1
<1>16. ASSUME NEW i \in DOMAIN items, NEW j \in DOMAIN items, i < j
       PROVE  /\ items[i].rank # items[j].rank
              /\ \/ items[j].score = Nothing
                 \/ items[i].score # Nothing /\ items[j].score # Nothing /\ items[i].score >= items[j].score
              /\ items[i].score = Nothing => items[i].rank < items[j].rank
  <2>0. i \in Nat /\ j \in Nat
    BY <1>1, <1>12
  <2>1. CASE j <= a
    <3>1. i <= a
      BY <1>3, <1>16, <2>0, <2>1
    <3>2. <<o[i], o[j]>> \in Best(S, rankings) /\ o[i] \in S /\ o[j] \in S
      BY <1>5, <1>13, <1>16, <2>1, <3>1
    <3>3. /\ Score(rankings, o[i]) \in 0..10 /\ Score(rankings, o[i]) # Nothing
          /\ Score(rankings, o[j]) \in 0..10 /\ Score(rankings, o[j]) # Nothing
      BY <3>2, ScoreType DEF S, Scored
    <3>4. Score(rankings, o[i]) >= Score(rankings, o[j])
      BY <3>2, <3>3 DEF Best
    <3>5. o[i] # o[j]
      BY <1>4, <3>2 DEF Orders
    <3>6. /\ items[i].rank = o[i] /\ items[i].score = Score(rankings, o[i])
          /\ items[j].rank = o[j] /\ items[j].score = Score(rankings, o[j])
      BY <1>13, <2>1, <3>1
    <3>7. QED BY <3>3, <3>4, <3>5, <3>6
  <2>2. CASE i <= a /\ ~(j <= a)
    <3>1. /\ items[i].rank = o[i] /\ items[i].score = Score(rankings, o[i]) /\ o[i] \in S
          /\ items[j].rank = u[j - a] /\ items[j].score = Nothing /\ u[j - a] \in U
      BY <1>13, <1>14, <2>2
    <3>2. Score(rankings, o[i]) # Nothing
      BY <3>1, ScoreType DEF S, Scored
    <3>3. QED BY <3>1, <3>2
  <2>3. CASE ~(i <= a) /\ ~(j <= a)
    <3>1. /\ items[i].rank = u[i - a] /\ i - a \in 1..b
          /\ items[j].rank = u[j - a] /\ items[j].score = Nothing /\ j - a \in 1..b
      BY <1>14, <2>3
    <3>2. i - a < j - a
      BY <1>3, <1>16, <2>0
    <3>3. u[i - a] < u[j - a]
      BY <1>6, <3>1, <3>2 DEF Earlier
    <3>4. u[i - a] \in Nat /\ u[j - a] \in Nat
      BY <1>1, <1>6, <3>1
    <3>5. QED BY <3>1, <3>3, <3>4
  <2>4. QED BY <1>3, <1>16, <2>0, <2>1, <2>2, <2>3
<1>17. Honest(Part(level, items, pool, failed))
  BY <1>12, <1>15, <1>16 DEF Honest, Part, N
<1>18. ASSUME NEW i \in DOMAIN items PROVE items[i] \in Item
  <2>1. CASE i <= a
    <3>1. /\ o[i] \in 1..N /\ Given(rankings, o[i]) # {}
          /\ items[i] = [row |-> pool[o[i]], rank |-> o[i], score |-> Score(rankings, o[i])]
      BY <1>1, <1>13, <2>1 DEF S, Scored
    <3>2. pool[o[i]] \in Row /\ o[i] \in Nat /\ Score(rankings, o[i]) \in 0..10
      BY <1>1, <3>1, ElementOfSeq, ScoreType
    <3>3. QED BY <3>1, <3>2 DEF Item
  <2>2. CASE ~(i <= a)
    <3>1. /\ u[i - a] \in 1..N
          /\ items[i] = [row |-> pool[u[i - a]], rank |-> u[i - a], score |-> Nothing]
      BY <1>1, <1>14, <2>2
    <3>2. pool[u[i - a]] \in Row /\ u[i - a] \in Nat
      BY <1>1, <3>1, ElementOfSeq
    <3>3. QED BY <3>1, <3>2 DEF Item
  <2>3. QED BY <2>1, <2>2
<1>19. items \in Seq(Item)
  BY <1>12, <1>18
<1>20. QED BY <1>17, <1>19 DEF items

-----------------------------------------------------------------------------
(* Queries                                                                 *)

Query == [api : {"rest", "tool", "legacy tool"}, tenant : Tenants, level : Levels \cup {"all"},
          contract : {Nothing} \cup STRING, text : {Nothing} \cup Texts,
          kinds : [{"section", "clause", "relationship"} -> SUBSET STRING], where : SUBSET FilterNames,
          custom : BOOLEAN]

RowsOf(q, level) == {row \in Row : Fits(q, level, row)}
ChunksOf(q) == {row \in Row : Owned(q, row) /\ row.level \in {"chunk", "legacy"}}

\* What is selected are rows of the sequence that pass.
LEMMA Selected ==
    ASSUME NEW T, NEW s \in Seq(T), NEW I, I \subseteq DOMAIN s, NEW P, \A i \in I : s[i] \in P
    PROVE  Selection(s, I) \in Seq(P)
<1>1. Selection(s, I) \in Seq({s[i] : i \in I})
  BY SelectionProperties
<1>2. {s[i] : i \in I} \subseteq P
  OBVIOUS
<1>3. QED BY <1>1, <1>2, SeqMonotonic

LEMMA NearestRows ==
    ASSUME rows \in Seq(Row), NEW text \in Texts, NEW level
    PROVE  Nearest(level, text) \in Seq(Row)
<1>. DEFINE near == {i \in DOMAIN rows : rows[i].level = level /\ rows[i].score[text] > 0}
            nearer == {p \in near \X near :
                          \/ rows[p[1]].score[text] > rows[p[2]].score[text]
                          \/ rows[p[1]].score[text] = rows[p[2]].score[text] /\ p[1] < p[2]}
<1>1. near \subseteq DOMAIN rows /\ near \subseteq Nat
  OBVIOUS
<1>2. \A i \in DOMAIN rows : rows[i].score[text] \in Nat
  <2>1. ASSUME NEW i \in DOMAIN rows PROVE rows[i].score[text] \in Nat
    <3>1. rows[i] \in Row
      BY ElementOfSeq
    <3>2. rows[i].score \in [Texts -> 0..10]
      BY <3>1 DEF Row
    <3>3. QED BY <3>2
  <2>2. QED BY <2>1
<1>3. Orders(nearer, near)
  <2>1. PICK score \in [near -> Nat] : \A i \in near : score[i] = rows[i].score[text]
    <3>1. [i \in near |-> rows[i].score[text]] \in [near -> Nat]
      BY <1>1, <1>2
    <3>2. QED BY <3>1
  <2>2. nearer = {p \in near \X near : \/ score[p[1]] > score[p[2]]
                                       \/ score[p[1]] = score[p[2]] /\ p[1] < p[2]}
    BY <2>1
  <2>. HIDE DEF near, nearer
  <2>3. QED BY <1>1, <2>2 DEF Orders
<1>. HIDE DEF near, nearer
<1>4. Picked(rows, InOrder(near, nearer)) \in Seq({rows[i] : i \in near})
  BY <1>1, <1>3, PickedProperties
<1>5. {rows[i] : i \in near} \subseteq Row
  BY <1>1, ElementOfSeq
<1>6. Picked(rows, InOrder(near, nearer)) \in Seq(Row)
  BY <1>4, <1>5, SeqMonotonic
<1>7. QED BY <1>6, FirstOfProperties, SearchAssumption DEF Nearest, near, nearer

\* A page has rows of the level that pass the search's filters.
LEMMA PageFits ==
    ASSUME rows \in Seq(Row), NEW q \in Query, NEW level
    PROVE  Page(q, level) \in Seq(RowsOf(q, level))
<1>. DEFINE named(row) == q.api = "legacy tool" /\ row.kind = q.text
            near == IF q.text = Nothing \/ level = "relationship" THEN rows ELSE Nearest(level, q.text)
            answers == {i \in DOMAIN near :
                Fits(q, level, near[i])
                /\ (q.text # Nothing => near[i].score[q.text] > Threshold(q) \/ named(near[i]))}
            n == IF ToRank(q) THEN PoolSize ELSE TopK
<1>1. near \in Seq(Row)
  BY NearestRows DEF Query
<1>. HIDE DEF near
<1>2. \A i \in answers : i \in DOMAIN near /\ near[i] \in RowsOf(q, level)
  <2>1. ASSUME NEW i \in answers PROVE i \in DOMAIN near /\ Fits(q, level, near[i])
    OBVIOUS
  <2>2. ASSUME NEW i \in DOMAIN near PROVE near[i] \in Row
    BY <1>1, ElementOfSeq
  <2>. HIDE DEF answers
  <2>3. QED BY <2>1, <2>2 DEF RowsOf
<1>. DEFINE first == Selection(near, {i \in answers : named(near[i])})
            then == Selection(near, {i \in answers : ~named(near[i])})
<1>3. first \in Seq(RowsOf(q, level))
  <2>. DEFINE I == {i \in answers : named(near[i])}
  <2>1. I \subseteq DOMAIN near /\ \A i \in I : near[i] \in RowsOf(q, level)
    BY <1>2
  <2>. HIDE DEF I
  <2>2. Selection(near, I) \in Seq(RowsOf(q, level))
    BY <1>1, <2>1, Selected
  <2>3. QED BY <2>2 DEF I
<1>4. then \in Seq(RowsOf(q, level))
  <2>. DEFINE I == {i \in answers : ~named(near[i])}
  <2>1. I \subseteq DOMAIN near /\ \A i \in I : near[i] \in RowsOf(q, level)
    BY <1>2
  <2>. HIDE DEF I
  <2>2. Selection(near, I) \in Seq(RowsOf(q, level))
    BY <1>1, <2>1, Selected
  <2>3. QED BY <2>2 DEF I
<1>5. n \in Nat
  BY SearchAssumption
<1>6. Page(q, level) = FirstOf(first \o then, n)
  BY DEF Page, near
<1>. HIDE DEF first, then, n
<1>7. first \o then \in Seq(RowsOf(q, level))
  BY <1>3, <1>4, ConcatProperties
<1>8. QED BY <1>5, <1>6, <1>7, FirstOfProperties

LEMMA ByMeaningFits ==
    ASSUME rows \in Seq(Row), NEW q \in Query
    PROVE  ByMeaning(q) \in Seq(ChunksOf(q))
<1>1. CASE q.text = Nothing
  BY <1>1 DEF ByMeaning
<1>2. CASE q.text # Nothing
  <2>. DEFINE near == Nearest("chunk", q.text)
              I == {i \in DOMAIN near : Fits(q, "chunk", near[i]) /\ near[i].score[q.text] > 7}
  <2>1. near \in Seq(Row)
    BY <1>2, NearestRows DEF Query
  <2>. HIDE DEF near
  <2>2. I \subseteq DOMAIN near /\ \A i \in I : near[i] \in ChunksOf(q)
    BY <2>1, ElementOfSeq DEF ChunksOf, Fits
  <2>3. ByMeaning(q) = Selection(near, I)
    BY <1>2 DEF ByMeaning, near
  <2>. HIDE DEF I
  <2>4. QED BY <2>1, <2>2, <2>3, Selected
<1>3. QED BY <1>1, <1>2

LEMMA ByTextFits ==
    ASSUME rows \in Seq(Row), NEW q \in Query, NEW level \in {"chunk", "legacy"}
    PROVE  ByText(q, level) \in Seq(ChunksOf(q))
<1>. DEFINE listed == IF level = "chunk" THEN Reverse(rows) ELSE rows
            I == {i \in DOMAIN listed :
                listed[i].level = level /\ Owned(q, listed[i]) /\ (q.text # Nothing => q.text \in listed[i].says)}
<1>1. listed \in Seq(Row)
  <2>1. Reverse(rows) \in [1..Len(rows) -> Row]
    BY ElementOfSeq DEF Reverse
  <2>2. Reverse(rows) \in Seq(Row)
    BY <2>1
  <2>3. QED BY <2>2
<1>. HIDE DEF listed
<1>2. I \subseteq DOMAIN listed /\ \A i \in I : listed[i] \in ChunksOf(q)
  BY <1>1, ElementOfSeq DEF ChunksOf
<1>3. ByText(q, level) = Selection(listed, I)
  BY DEF ByText, listed
<1>. HIDE DEF I
<1>4. QED BY <1>1, <1>2, <1>3, Selected

LEMMA TextAnswerFits ==
    ASSUME rows \in Seq(Row), NEW q \in Query
    PROVE  TextAnswer(q) \in Seq(ChunksOf(q))
<1>1. ByText(q, "chunk") \in Seq(ChunksOf(q)) /\ ByText(q, "legacy") \in Seq(ChunksOf(q))
  BY ByTextFits
<1>2. ChunkRows \in Nat /\ TextRows \in Nat
  BY SearchAssumption
<1>3. /\ FirstOf(ByText(q, "chunk"), ChunkRows) \in Seq(ChunksOf(q))
      /\ FirstOf(ByText(q, "chunk"), TextRows) \in Seq(ChunksOf(q))
      /\ FirstOf(ByText(q, "legacy"), TextRows) \in Seq(ChunksOf(q))
  BY <1>1, <1>2, FirstOfProperties
<1>4. QED BY <1>3, ConcatProperties DEF TextAnswer

-----------------------------------------------------------------------------
(* One search                                                              *)

\* What a part of an answer to q is.
AnyPart == [level : Levels \cup {"aggregation"}, items : Seq(Item), pool : Seq(Row), failed : BOOLEAN]
PartsOf(q) ==
    {part \in AnyPart :
        /\ (~Aggregated(q) => PartIsOf(q, part)) /\ Honest(part)
        /\ part.failed => part.level = "chunk" \/ q.api = "rest"}

\* Answers to their own question.
Result == {a \in [q : Query, parts : Seq(AnyPart)] : a.parts \in Seq(PartsOf(a.q))}

\* Entries that FailuresAreNotCached allows and that answer their key.
EntryInv(e) ==
    /\ e.parts \in Seq(PartsOf(e.key))
    /\ \A i \in DOMAIN e.parts :
          e.parts[i].failed => \/ e.parts[i].level = "chunk"
                               \/ e.key.api = "rest" /\ e.key.level = "all"

\* Of a search of one level either nothing is found yet or one part.
Progress(c) ==
    asked[c] # Nothing /\ asked[c].level # "all" =>
        \/ todo[c] \in {<<"cache">>, <<asked[c].level>>} /\ found[c] = <<>>
        \/ todo[c] = <<>> /\ Len(found[c]) = 1

CallerInv(c) ==
    /\ asked[c] # Nothing => asked[c] \in Query
    /\ found[c] \in Seq(PartsOf(asked[c]))
    /\ Progress(c)
    /\ answer[c] \in {Nothing, Error} \cup Result

SearchInv ==
    /\ rows \in Seq(Row)
    /\ \A e \in cache : EntryInv(e)
    /\ DOMAIN asked = Callers /\ DOMAIN todo = Callers /\ DOMAIN found = Callers /\ DOMAIN answer = Callers
    /\ \A c \in Callers : CallerInv(c)

LEMMA SInitInv == SInit => SearchInv
BY SearchAssumption DEF SInit, SearchInv, CallerInv, Progress

\* What honest items make of a pool of rows of P.
LEMMA ItemsOfPool ==
    ASSUME NEW P, P \subseteq Row, NEW pool \in Seq(P), NEW items \in Seq(Item), NEW level, NEW failed,
           Honest(Part(level, items, pool, failed))
    PROVE  \A i \in DOMAIN items : items[i].row \in P
BY ElementOfSeq DEF Honest, Part

LEMMA LevelPart ==
    ASSUME SearchInv, NEW q \in Query, NEW level \in Levels, level # "chunk",
           NEW items \in Reranked(q, Page(q, level))
    PROVE  Part(level, items, Page(q, level), FALSE) \in PartsOf(q)
<1>. DEFINE pool == Page(q, level)
            part == Part(level, items, pool, FALSE)
<1>1. pool \in Seq(RowsOf(q, level)) /\ RowsOf(q, level) \subseteq Row
  BY PageFits DEF SearchInv, RowsOf
<1>2. pool \in Seq(Row)
  BY <1>1, SeqMonotonic
<1>. HIDE DEF pool
<1>0. level # "chunk" /\ level # "aggregation"
  BY DEF Levels
<1>3. Honest(part) /\ items \in Seq(Item)
  <2>1. CASE items = FirstOf(Unranked(pool), TopK)
    <3>1. TopK \in Nat
      BY SearchAssumption
    <3>2. QED BY <1>0, <1>2, <2>1, <3>1, UnrankedIsHonest
  <2>2. CASE \E rankings \in Rankings : items = Ranked(pool, rankings)
    BY <1>0, <1>2, <2>2, RankedIsHonest
  <2>3. QED BY <2>1, <2>2 DEF Reranked, pool
<1>4. \A i \in DOMAIN items : items[i].row \in RowsOf(q, level)
  BY <1>1, <1>3, ItemsOfPool
<1>5. PartIsOf(q, part)
  BY <1>4 DEF PartIsOf, Part, RowsOf, Fits
<1>6. part \in AnyPart /\ part.failed = FALSE
  BY <1>2, <1>3 DEF Part, AnyPart
<1>. HIDE DEF part
<1>7. QED BY <1>3, <1>5, <1>6 DEF PartsOf, part, pool

LEMMA FailedPart ==
    ASSUME NEW q \in Query, q.api = "rest", NEW level \in Levels
    PROVE  Part(level, <<>>, <<>>, TRUE) \in PartsOf(q)
<1>. DEFINE part == Part(level, <<>>, <<>>, TRUE)
<1>1. TopK \in Nat
  BY SearchAssumption
<1>2. Honest(part) /\ PartIsOf(q, part)
  BY <1>1 DEF Honest, PartIsOf, Part
<1>3. part \in AnyPart
  BY DEF Part, AnyPart
<1>. HIDE DEF part
<1>4. QED BY <1>2, <1>3 DEF PartsOf, part

LEMMA ChunkPart ==
    ASSUME SearchInv, NEW q \in Query, NEW pool \in Seq(ChunksOf(q)), NEW failed \in BOOLEAN
    PROVE  Part("chunk", Unranked(pool), pool, failed) \in PartsOf(q)
<1>. DEFINE items == Unranked(pool)
            part == Part("chunk", items, pool, failed)
<1>1. pool \in Seq(Row) /\ ChunksOf(q) \subseteq Row
  BY SeqMonotonic DEF ChunksOf
<1>2. items \in Seq(Range(items)) /\ Len(items) = Len(pool) /\ Len(pool) \in Nat
  BY DEF Unranked, Range
<1>3. items = FirstOf(items, Len(pool))
  <2>. HIDE DEF items
  <2>1. SubSeq(items, 1, Len(items)) = items
    BY <1>2, SubSeqFull
  <2>2. QED BY <1>2, <2>1 DEF FirstOf
<1>4. Honest(part) /\ items \in Seq(Item)
  <2>. HIDE DEF items
  <2>. QED BY <1>1, <1>2, <1>3, UnrankedIsHonest DEF items
<1>. HIDE DEF items
<1>5. \A i \in DOMAIN items : items[i].row \in ChunksOf(q)
  BY <1>1, <1>4, ItemsOfPool
<1>6. PartIsOf(q, part)
  BY <1>5 DEF PartIsOf, Part, ChunksOf, KindsFor
<1>7. part \in AnyPart /\ part.level = "chunk"
  BY <1>1, <1>4 DEF Part, Levels, AnyPart
<1>. HIDE DEF part
<1>8. QED BY <1>4, <1>6, <1>7 DEF PartsOf, part, items

\* An aggregation may be of any rows.
LEMMA AggregatedPart ==
    ASSUME NEW q \in Query, Aggregated(q), NEW pool \in Seq(Row)
    PROVE  Part("aggregation", Unranked(pool), pool, FALSE) \in PartsOf(q)
<1>. DEFINE items == Unranked(pool)
            part == Part("aggregation", items, pool, FALSE)
<1>1. items \in Seq(Range(items)) /\ Len(items) = Len(pool) /\ Len(pool) \in Nat
  BY DEF Unranked, Range
<1>2. items = FirstOf(items, Len(pool))
  <2>. HIDE DEF items
  <2>1. SubSeq(items, 1, Len(items)) = items
    BY <1>1, SubSeqFull
  <2>2. QED BY <1>1, <2>1 DEF FirstOf
<1>3. Honest(part) /\ items \in Seq(Item)
  <2>1. PICK n \in Nat : n = Len(pool)
    BY <1>1
  <2>2. items = FirstOf(Unranked(pool), n) /\ n >= Len(pool)
    BY <1>2, <2>1
  <2>3. "aggregation" \in {"chunk", "aggregation"}
    OBVIOUS
  <2>. HIDE DEF items
  <2>. QED BY <2>2, <2>3, UnrankedIsHonest
<1>4. part \in AnyPart /\ part.failed = FALSE
  BY <1>3 DEF Part, AnyPart
<1>. HIDE DEF part, items
<1>5. QED BY <1>3, <1>4 DEF PartsOf, part, items

\* A step of one caller that changes neither the graph nor the cache for worse.
LEMMA CallerStep ==
    ASSUME SearchInv, NEW c \in Callers,
           rows' \in Seq(Row), \A e \in cache' : EntryInv(e),
           \E v : asked' \in {asked, [asked EXCEPT ![c] = v]}, \E v : todo' \in {todo, [todo EXCEPT ![c] = v]},
           \E v : found' \in {found, [found EXCEPT ![c] = v]},
           \E v : answer' \in {answer, [answer EXCEPT ![c] = v]},
           CallerInv(c)'
    PROVE  SearchInv'
<1>1. /\ DOMAIN asked' = Callers /\ DOMAIN todo' = Callers
      /\ DOMAIN found' = Callers /\ DOMAIN answer' = Callers
  BY DEF SearchInv
<1>2. ASSUME NEW d \in Callers, d # c PROVE CallerInv(d)'
  <2>1. asked'[d] = asked[d] /\ todo'[d] = todo[d] /\ found'[d] = found[d] /\ answer'[d] = answer[d]
    BY <1>2 DEF SearchInv
  <2>2. CallerInv(d)
    BY DEF SearchInv
  <2>3. QED BY <2>1, <2>2 DEF CallerInv, Progress
<1>3. QED BY <1>1, <1>2 DEF SearchInv

LEMMA ResultOf ==
    ASSUME NEW q \in Query, NEW parts \in Seq(PartsOf(q)) PROVE [q |-> q, parts |-> parts] \in Result
<1>1. parts \in Seq(AnyPart)
  BY SeqMonotonic DEF PartsOf
<1>2. QED BY <1>1 DEF Result

LEMMA AskInv ==
    ASSUME SearchInv, NEW c \in Callers, NEW q \in Query, Ask(c, q), UNCHANGED <<rows, cache, answer>>
    PROVE  SearchInv'
<1>1. /\ asked' = [asked EXCEPT ![c] = q] /\ todo' = [todo EXCEPT ![c] = <<"cache">>]
      /\ found' = [found EXCEPT ![c] = <<>>] /\ answer' = answer
  BY DEF Ask, SearchInv
<1>2. asked'[c] = q /\ todo'[c] = <<"cache">> /\ found'[c] = <<>> /\ answer'[c] = answer[c]
  BY <1>1 DEF SearchInv
<1>3. CallerInv(c)'
  BY <1>2 DEF SearchInv, CallerInv, Progress
<1>4. rows' \in Seq(Row) /\ \A e \in cache' : EntryInv(e)
  BY DEF SearchInv
<1>5. QED BY <1>1, <1>3, <1>4, CallerStep

LEMMA AnswerInv ==
    ASSUME SearchInv, NEW c \in Callers, NEW a, Answer(c, a), rows' = rows, \A e \in cache' : EntryInv(e),
           a \in {Error} \cup Result
    PROVE  SearchInv'
<1>1. /\ asked' = [asked EXCEPT ![c] = Nothing] /\ todo' = [todo EXCEPT ![c] = <<>>]
      /\ found' = [found EXCEPT ![c] = <<>>] /\ answer' = [answer EXCEPT ![c] = a]
  BY DEF Answer
<1>2. asked'[c] = Nothing /\ found'[c] = <<>> /\ answer'[c] = a
  BY <1>1 DEF SearchInv
<1>3. CallerInv(c)'
  BY <1>2 DEF CallerInv, Progress
<1>4. rows' \in Seq(Row)
  BY DEF SearchInv
<1>5. QED BY <1>1, <1>3, <1>4, CallerStep

LEMMA FoundInv ==
    ASSUME SearchInv, NEW c \in Callers, NEW level, Searching(c, level), level # "cache",
           NEW part \in PartsOf(asked[c]), Found(c, part)
    PROVE  SearchInv'
<1>1. /\ asked' = asked /\ todo' = [todo EXCEPT ![c] = Tail(todo[c])]
      /\ found' = [found EXCEPT ![c] = Append(found[c], part)] /\ answer' = answer
      /\ UNCHANGED <<rows, cache>>
  BY DEF Found, SearchInv
<1>2. /\ asked'[c] = asked[c] /\ todo'[c] = Tail(todo[c]) /\ found'[c] = Append(found[c], part)
      /\ answer'[c] = answer[c]
  BY <1>1 DEF SearchInv
<1>3. CallerInv(c)
  BY DEF SearchInv
<1>4. found'[c] \in Seq(PartsOf(asked[c])) /\ Len(found'[c]) = Len(found[c]) + 1
  BY <1>2, <1>3, AppendProperties DEF CallerInv
<1>5. Progress(c)'
  <2>1. SUFFICES ASSUME asked[c] # Nothing, asked[c].level # "all" PROVE todo'[c] = <<>> /\ Len(found'[c]) = 1
    BY <1>2 DEF Progress
  <2>2. todo[c] = <<asked[c].level>> /\ found[c] = <<>>
    BY <1>3, <2>1 DEF CallerInv, Progress, Searching
  <2>3. QED BY <1>2, <1>4, <2>2
<1>6. CallerInv(c)'
  BY <1>2, <1>3, <1>4, <1>5 DEF CallerInv
<1>7. rows' \in Seq(Row) /\ \A e \in cache' : EntryInv(e)
  BY <1>1 DEF SearchInv
<1>8. QED BY <1>1, <1>6, <1>7, CallerStep

LEMMA LevelFoundInv ==
    ASSUME SearchInv, NEW c \in Callers, NEW level \in Levels, level # "chunk",
           Searching(c, level), LevelFound(c, level)
    PROVE  SearchInv'
<1>1. asked[c] \in Query
  BY DEF SearchInv, CallerInv, Searching
<1>2. PICK items \in Reranked(asked[c], Page(asked[c], level)) :
         Found(c, Part(level, items, Page(asked[c], level), FALSE))
  BY DEF LevelFound
<1>3. Part(level, items, Page(asked[c], level), FALSE) \in PartsOf(asked[c])
  BY <1>1, <1>2, LevelPart
<1>4. level # "cache"
  BY DEF Levels
<1>5. QED BY <1>2, <1>3, <1>4, FoundInv

LEMMA StrategyInv ==
    ASSUME SearchInv, NEW c \in Callers, NEW level \in Levels, level # "chunk", Strategy(c, level)
    PROVE  SearchInv'
<1>1. CASE LevelFound(c, level)
  BY <1>1, LevelFoundInv DEF Strategy
<1>2. CASE Found(c, Part(level, <<>>, <<>>, TRUE))
  <2>1. Part(level, <<>>, <<>>, TRUE) \in PartsOf(asked[c])
    BY FailedPart DEF SearchInv, CallerInv, Strategy, Searching
  <2>2. level # "cache"
    BY DEF Levels
  <2>3. QED BY <1>2, <2>1, <2>2, FoundInv DEF Strategy
<1>3. QED BY <1>1, <1>2 DEF Strategy

LEMMA RaiseInv == ASSUME SearchInv, NEW c \in Callers, Raise(c) PROVE SearchInv'
<1>1. rows' = rows /\ \A e \in cache' : EntryInv(e)
  BY DEF Raise, SearchInv
<1>2. QED BY <1>1, AnswerInv DEF Raise

LEMMA ToolLevelInv ==
    ASSUME SearchInv, NEW c \in Callers, NEW level \in Levels, level # "chunk", ToolLevel(c, level)
    PROVE  SearchInv'
BY LevelFoundInv, RaiseInv DEF ToolLevel

LEMMA AggregateInv == ASSUME SearchInv, NEW c \in Callers, Aggregate(c) PROVE SearchInv'
<1>1. asked[c] \in Query /\ Searching(c, "document") /\ Aggregated(asked[c])
  BY DEF SearchInv, CallerInv, Aggregate, Searching
<1>2. ASSUME NEW n \in 0..MaxAggregated, NEW matched \in [1..n -> DOMAIN rows]
      PROVE  Part("aggregation", Unranked(Picked(rows, matched)), Picked(rows, matched), FALSE)
                \in PartsOf(asked[c])
  <2>1. n \in Nat
    BY SearchAssumption
  <2>2. \A k \in 1..n : rows[matched[k]] \in Row
    BY ElementOfSeq DEF SearchInv
  <2>3. Picked(rows, matched) \in Seq(Row)
    <3>1. Picked(rows, matched) \in [1..n -> Row]
      BY <2>2 DEF Picked
    <3>2. QED BY <2>1, <3>1
  <2>4. QED BY <1>1, <2>3, AggregatedPart
<1>3. CASE Raise(c)
  BY <1>3, RaiseInv
<1>4. CASE \E n \in 0..MaxAggregated : \E matched \in [1..n -> DOMAIN rows] :
            Found(c, Part("aggregation", Unranked(Picked(rows, matched)), Picked(rows, matched), FALSE))
  BY <1>1, <1>2, <1>4, FoundInv
<1>5. QED BY <1>3, <1>4 DEF Aggregate

LEMMA SearchChunksInv == ASSUME SearchInv, NEW c \in Callers, SearchChunks(c) PROVE SearchInv'
<1>. DEFINE near == FirstOf(ByMeaning(asked[c]), ChunkRows)
            said == TextAnswer(asked[c])
<1>1. asked[c] \in Query /\ Searching(c, "chunk")
  BY DEF SearchInv, CallerInv, SearchChunks, Searching
<1>2. near \in Seq(ChunksOf(asked[c])) /\ said \in Seq(ChunksOf(asked[c]))
  BY <1>1, ByMeaningFits, TextAnswerFits, FirstOfProperties, SearchAssumption DEF SearchInv
<1>. HIDE DEF near, said
<1>3. /\ Part("chunk", Unranked(near), near, FALSE) \in PartsOf(asked[c])
      /\ Part("chunk", Unranked(said), said, FALSE) \in PartsOf(asked[c])
      /\ Part("chunk", Unranked(said), said, TRUE) \in PartsOf(asked[c])
  BY <1>1, <1>2, ChunkPart
<1>4. \/ Found(c, Part("chunk", Unranked(near), near, FALSE))
      \/ Found(c, Part("chunk", Unranked(said), said, FALSE))
      \/ Found(c, Part("chunk", Unranked(said), said, TRUE))
      \/ Raise(c)
  BY DEF SearchChunks, near, said
<1>5. QED BY <1>1, <1>3, <1>4, FoundInv, RaiseInv

LEMMA CacheHitInv == ASSUME SearchInv, NEW c \in Callers, CacheHit(c) PROVE SearchInv'
<1>1. PICK e \in cache : e.key = asked[c] /\ Answer(c, [q |-> asked[c], parts |-> e.parts])
  BY DEF CacheHit, CacheKey
<1>2. e.parts \in Seq(PartsOf(asked[c])) /\ rows' = rows /\ \A x \in cache' : EntryInv(x)
  BY <1>1 DEF SearchInv, EntryInv, CacheHit
<1>3. asked[c] \in Query
  BY DEF SearchInv, CallerInv, CacheHit, Looking
<1>4. QED BY <1>1, <1>2, <1>3, ResultOf, AnswerInv

LEMMA CacheMissInv == ASSUME SearchInv, NEW c \in Callers, CacheMiss(c) PROVE SearchInv'
<1>1. /\ asked' = asked /\ todo' = [todo EXCEPT ![c] = LevelsOf(asked[c])]
      /\ found' = found /\ answer' = answer
      /\ UNCHANGED <<rows, cache>>
  BY DEF CacheMiss, SearchInv
<1>2. /\ asked'[c] = asked[c] /\ todo'[c] = LevelsOf(asked[c]) /\ found'[c] = found[c] /\ answer'[c] = answer[c]
  BY <1>1 DEF SearchInv
<1>3. CallerInv(c)
  BY DEF SearchInv
<1>4. Progress(c)'
  BY <1>2, <1>3 DEF CallerInv, Progress, CacheMiss, Looking, LevelsOf
<1>5. CallerInv(c)'
  BY <1>2, <1>3, <1>4 DEF CallerInv
<1>6. rows' \in Seq(Row) /\ \A e \in cache' : EntryInv(e)
  BY <1>1 DEF SearchInv
<1>7. QED BY <1>1, <1>5, <1>6, CallerStep

\* What is cached is what was found, and of one level it did not fail.
LEMMA FinishInv == ASSUME SearchInv, NEW c \in Callers, Finish(c) PROVE SearchInv'
<1>. DEFINE entry == [key |-> asked[c], parts |-> found[c]]
<1>1. asked[c] \in Query /\ found[c] \in Seq(PartsOf(asked[c])) /\ Progress(c) /\ todo[c] = <<>> /\ asked[c] # Nothing
  BY DEF SearchInv, CallerInv, Finish
<1>2. ASSUME Cacheable(asked[c], found[c]) PROVE EntryInv(entry)
  <2>1. ASSUME NEW i \in DOMAIN found[c], found[c][i].failed
        PROVE  found[c][i].level = "chunk" \/ (asked[c].api = "rest" /\ asked[c].level = "all")
    <3>1. found[c][i] \in PartsOf(asked[c])
      BY <1>1, ElementOfSeq
    <3>2. CASE asked[c].level = "all"
      BY <2>1, <3>1, <3>2 DEF PartsOf
    <3>3. CASE asked[c].level # "all" /\ asked[c].api = "rest"
      <4>1. Len(found[c]) = 1
        BY <1>1, <3>3 DEF Progress
      <4>2. i = 1
        BY <1>1, <4>1
      <4>3. QED BY <1>2, <2>1, <3>3, <4>2 DEF Cacheable
    <3>4. CASE asked[c].api # "rest"
      BY <2>1, <3>1, <3>4 DEF PartsOf
    <3>5. QED BY <3>2, <3>3, <3>4
  <2>2. QED BY <1>1, <2>1 DEF EntryInv
<1>3. \A e \in cache' : EntryInv(e)
  <2>1. cache' \subseteq cache \cup (IF Cacheable(asked[c], found[c]) THEN {entry} ELSE {})
    BY DEF Finish, CacheKey
  <2>. HIDE DEF entry
  <2>2. QED BY <1>2, <2>1 DEF SearchInv
<1>4. Answer(c, [q |-> asked[c], parts |-> found[c]]) /\ rows' = rows
  BY DEF Finish
<1>5. QED BY <1>1, <1>3, <1>4, ResultOf, AnswerInv

LEMMA SearchStepInv == ASSUME SearchInv, NEW c \in Callers, SearchStep(c) PROVE SearchInv'
<1>1. {"document", "clause", "section", "relationship"} \subseteq Levels \ {"chunk"}
  BY DEF Levels
<1>2. CASE CacheHit(c) \/ CacheMiss(c) \/ Finish(c) \/ SearchChunks(c) \/ Aggregate(c)
  BY <1>2, CacheHitInv, CacheMissInv, FinishInv, SearchChunksInv, AggregateInv
<1>3. CASE DocumentStrategy(c) \/ ClauseStrategy(c) \/ SectionStrategy(c) \/ RelationshipStrategy(c)
  BY <1>1, <1>3, StrategyInv DEF DocumentStrategy, ClauseStrategy, SectionStrategy, RelationshipStrategy
<1>4. CASE SearchDocuments(c) \/ SearchSections(c) \/ SearchClauses(c) \/ SearchRelationships(c)
  BY <1>1, <1>4, ToolLevelInv DEF SearchDocuments, SearchSections, SearchClauses, SearchRelationships
<1>5. QED BY <1>2, <1>3, <1>4 DEF SearchStep

\* The graph grows, an entry goes, a caller takes its answer.
LEMMA ElsewhereInv ==
    ASSUME SearchInv, Expire \/ Store PROVE SearchInv'
<1>1. UNCHANGED searching /\ cache' \subseteq cache
  BY DEF Expire, Store, searching
<1>2. rows' \in Seq(Row)
  <2>1. CASE Expire
    BY <2>1 DEF SearchInv, Expire
  <2>2. CASE Store
    <3>1. PICK row \in Later : rows' = Append(rows, row)
      BY <2>2 DEF Store
    <3>2. row \in Row
      BY <3>1, SearchAssumption
    <3>3. QED BY <3>1, <3>2, AppendProperties DEF SearchInv
  <2>3. QED BY <2>1, <2>2
<1>3. \A c \in Callers : CallerInv(c)'
  BY <1>1 DEF SearchInv, CallerInv, Progress, searching
<1>4. QED BY <1>1, <1>2, <1>3 DEF SearchInv, searching

LEMMA TakenInv ==
    ASSUME SearchInv, NEW c \in Callers, answer' = [answer EXCEPT ![c] = Nothing],
           UNCHANGED <<rows, cache, asked, todo, found>>
    PROVE  SearchInv'
<1>1. \A d \in Callers : answer'[d] \in {answer[d], Nothing}
  BY DEF SearchInv
<1>2. DOMAIN answer' = Callers
  BY DEF SearchInv
<1>3. \A d \in Callers : CallerInv(d)'
  BY <1>1 DEF SearchInv, CallerInv, Progress
<1>4. QED BY <1>2, <1>3 DEF SearchInv

-----------------------------------------------------------------------------
(* A chat run                                                              *)

ChatMessage == [by : {"user", "ai", "tool"}, text : {"none", "plain", "private", "redacted"},
                calls : Seq(Call), of : {Nothing} \cup Nat, answer : {Nothing} \cup Result]
Run == [page : Pages, contract : {Nothing} \cup STRING, stage : {"assistant", "tools", "searching", "guard"},
        pending : Seq(Nat), sent : Nat, context : Seq(ChatMessage)]

ChatTypeOK ==
    /\ history \in [Pages -> Seq(ChatMessage)]
    /\ run \in [Callers -> {Nothing} \cup Run]
    /\ turn \in Nat

\* The answer of a call, but of an aggregation of the model's own, is of the
\* page's tenant and the selected contract.
AnswersCall(what, call, r) ==
    call.tool # "MCP tool" /\ ~OwnAggregation(call) =>
        \A part \in Range(what.parts) : \A item \in Range(part.items) :
            /\ item.row.tenant = TenantOf[r.page]
            /\ call.tool = "EnhancedContractSearch" /\ r.contract # Nothing => item.row.contract = r.contract

\* Message i of said answers a call of the last reply before it, the earlier
\* calls of which are answered before.
Answers(said, i, r) ==
    \E reply \in 1..i - 1 :
        /\ said[reply].by = "ai" /\ \A k \in reply + 1..i - 1 : said[k].by # "ai"
        /\ \A j \in 1..said[i].of : \/ said[reply].calls[j].tool = "unknown"
                                    \/ \E k \in reply + 1..i : said[k].of = j
        /\ \A k \in reply + 1..i - 1 : said[k].of < said[i].of
        /\ AnswersCall(said[i].answer, said[reply].calls[said[i].of], r)

\* What is pending is the end of the calls of the last reply, the others are
\* answered or of no tool.
Round(r, reply) ==
    LET said == Said(r)
        calls == said[reply].calls
        done == Len(calls) - Len(r.pending)
    IN  /\ said[reply].by = "ai" /\ \A k \in reply + 1..Len(said) : said[k].by # "ai"
        /\ done \in Nat /\ \A i \in DOMAIN r.pending : r.pending[i] = done + i
        /\ \A j \in 1..done : \/ calls[j].tool = "unknown"
                              \/ \E k \in reply + 1..Len(said) : said[k].of = j
        /\ \A k \in reply + 1..Len(said) : said[k].of \in 1..done

\* A run has a search only while one of its calls is searching, and then it is
\* the search of that call.
SearchOf(c, r) ==
    IF r.stage = "searching"
    THEN /\ r.pending # <<>> /\ ThisCall(r).tool # "MCP tool"
         /\ \/ asked[c] = Injected(r, ThisCall(r)) /\ answer[c] = Nothing
            \/ asked[c] = Nothing /\ (answer[c] = Error \/ answer[c].q = Injected(r, ThisCall(r)))
    ELSE asked[c] = Nothing /\ answer[c] = Nothing

\* What a run has said, and what it still has to answer.
Talk(r) ==
    /\ r.sent + 1 <= Len(r.context)
    /\ \A i \in DOMAIN Said(r) : Said(r)[i].by = "tool" => Answers(Said(r), i, r)
    /\ r.stage \in {"tools", "searching"} => \E reply \in DOMAIN Said(r) : Round(r, reply)

ChatInv == ChatTypeOK /\ \A c \in Callers : run[c] # Nothing => Talk(run[c]) /\ SearchOf(c, run[c])

\* The end of a sequence, after its first t + 1.
LEMMA EndOf ==
    ASSUME NEW S, NEW s \in Seq(S), NEW t \in Nat, t + 1 <= Len(s)
    PROVE  /\ SubSeq(s, t + 2, Len(s)) \in Seq(S)
           /\ Len(SubSeq(s, t + 2, Len(s))) = Len(s) - t - 1
           /\ DOMAIN SubSeq(s, t + 2, Len(s)) = 1..Len(s) - t - 1
           /\ \A k \in 1..Len(s) - t - 1 : /\ t + 1 + k \in DOMAIN s
                                           /\ SubSeq(s, t + 2, Len(s))[k] = s[t + 1 + k]
<1>1. PICK n \in Nat : n = Len(s) /\ DOMAIN s = 1..n /\ t + 1 <= n
  OBVIOUS
<1>2. PICK m \in Nat : m = t + 2
  OBVIOUS
<1>3. PICK d \in Nat : d = n - t - 1 /\ d = n - m + 1 /\ d = (IF m <= n THEN n - m + 1 ELSE 0)
  BY <1>1, <1>2, SMTT(30)
<1>4. \A i \in m..n : s[i] \in S
  <2>1. \A i \in m..n : i \in DOMAIN s
    BY <1>1, <1>2
  <2>2. QED BY <2>1, ElementOfSeq
<1>5. PICK e : e = SubSeq(s, m, n)
  OBVIOUS
<1>6. /\ e \in Seq(S) /\ Len(e) = d
      /\ \A i \in 1..d : e[i] = s[m + i - 1]
  BY <1>3, <1>4, <1>5, SubSeqProperties, SMTT(30)
<1>7. DOMAIN e = 1..d
  BY <1>6
<1>8. ASSUME NEW k \in 1..d PROVE t + 1 + k \in 1..n /\ m + k - 1 = t + 1 + k
  BY <1>1, <1>2, <1>3
<1>9. \A k \in 1..d : t + 1 + k \in DOMAIN s /\ e[k] = s[t + 1 + k]
  BY <1>1, <1>6, <1>8
<1>10. QED BY <1>1, <1>2, <1>3, <1>5, <1>6, <1>7, <1>9

LEMMA SaidProperties ==
    ASSUME NEW r \in Run, r.sent + 1 <= Len(r.context)
    PROVE  /\ Said(r) \in Seq(ChatMessage)
           /\ Len(Said(r)) = Len(r.context) - r.sent - 1
           /\ DOMAIN Said(r) = 1..Len(r.context) - r.sent - 1
           /\ \A k \in DOMAIN Said(r) : r.sent + 1 + k \in DOMAIN r.context /\ Said(r)[k] = r.context[r.sent + 1 + k]
<1>1. r.context \in Seq(ChatMessage) /\ r.sent \in Nat
  BY DEF Run
<1>2. PICK s \in Seq(ChatMessage), t \in Nat : s = r.context /\ t = r.sent
  BY <1>1
<1>3. t + 1 <= Len(s) /\ Said(r) = SubSeq(s, t + 2, Len(s))
  BY <1>2 DEF Said
<1>4. /\ SubSeq(s, t + 2, Len(s)) \in Seq(ChatMessage)
      /\ Len(SubSeq(s, t + 2, Len(s))) = Len(s) - t - 1
      /\ DOMAIN SubSeq(s, t + 2, Len(s)) = 1..Len(s) - t - 1
      /\ \A k \in 1..Len(s) - t - 1 : /\ t + 1 + k \in DOMAIN s
                                      /\ SubSeq(s, t + 2, Len(s))[k] = s[t + 1 + k]
  BY <1>3, EndOf
<1>5. QED BY <1>2, <1>3, <1>4

LEMMA SaidAppend ==
    ASSUME NEW r \in Run, r.sent + 1 <= Len(r.context), NEW m \in ChatMessage,
           NEW s \in Run, s.sent = r.sent, s.context = Append(r.context, m)
    PROVE  /\ s.sent + 1 <= Len(s.context)
           /\ Said(r) \in Seq(ChatMessage) /\ Said(s) \in Seq(ChatMessage)
           /\ Len(Said(s)) = Len(Said(r)) + 1
           /\ \A k \in DOMAIN Said(r) : k \in DOMAIN Said(s) /\ Said(s)[k] = Said(r)[k]
           /\ Said(s)[Len(Said(r)) + 1] = m
<1>1. r.context \in Seq(ChatMessage) /\ r.sent \in Nat
  BY DEF Run
<1>2. PICK n \in Nat, t \in Nat : n = Len(r.context) /\ t = r.sent /\ t + 1 <= n /\ DOMAIN r.context = 1..n
  BY <1>1
<1>3. /\ Len(s.context) = n + 1 /\ s.context[n + 1] = m /\ s.sent = t
      /\ \A i \in 1..n : s.context[i] = r.context[i]
  BY <1>1, <1>2, AppendProperties
<1>4. s.sent + 1 <= Len(s.context)
  BY <1>2, <1>3
<1>5. /\ Said(r) \in Seq(ChatMessage) /\ Len(Said(r)) = n - t - 1 /\ DOMAIN Said(r) = 1..n - t - 1
      /\ \A k \in DOMAIN Said(r) : t + 1 + k \in 1..n /\ Said(r)[k] = r.context[t + 1 + k]
  BY <1>2, SaidProperties
<1>6. /\ Said(s) \in Seq(ChatMessage) /\ Len(Said(s)) = n - t /\ DOMAIN Said(s) = 1..n - t
      /\ \A k \in DOMAIN Said(s) : Said(s)[k] = s.context[t + 1 + k]
  <2>1. Len(s.context) - s.sent - 1 = n - t
    BY <1>2, <1>3, SMTT(30)
  <2>2. QED BY <1>3, <1>4, <2>1, SaidProperties
<1>7. ASSUME NEW k \in DOMAIN Said(r) PROVE k \in DOMAIN Said(s) /\ Said(s)[k] = Said(r)[k]
  <2>1. k \in 1..n - t - 1
    BY <1>5
  <2>2. k \in 1..n - t
    BY <1>2, <2>1
  <2>3. QED BY <1>3, <1>5, <1>6, <2>2
<1>8. Said(s)[n - t] = m
  <2>1. n - t \in 1..n - t /\ t + 1 + (n - t) = n + 1
    BY <1>2, SMTT(30)
  <2>2. QED BY <1>3, <1>6, <2>1
<1>9. Len(Said(r)) + 1 = n - t
  BY <1>2, <1>5
<1>10. QED BY <1>4, <1>5, <1>6, <1>7, <1>8, <1>9

\* The last reply of a run is of the run, not of the history it was sent.
LEMMA LastReplyIs ==
    ASSUME NEW r \in Run, r.sent + 1 <= Len(r.context), NEW reply \in DOMAIN Said(r), Round(r, reply)
    PROVE  LastReply(r) = Said(r)[reply] /\ Said(r)[reply] \in ChatMessage
<1>. DEFINE at == r.sent + 1 + reply
            IsLast(i) == r.context[i].by = "ai" /\ \A j \in DOMAIN r.context : r.context[j].by = "ai" => j <= i
<1>1. r.context \in Seq(ChatMessage) /\ r.sent \in Nat
  BY DEF Run
<1>a. PICK n \in Nat, t \in Nat : n = Len(r.context) /\ t = r.sent /\ t + 1 <= n /\ DOMAIN r.context = 1..n
  BY <1>1
<1>2. /\ Said(r) \in Seq(ChatMessage) /\ Len(Said(r)) = n - t - 1 /\ DOMAIN Said(r) = 1..n - t - 1
      /\ \A k \in DOMAIN Said(r) : t + 1 + k \in 1..n /\ Said(r)[k] = r.context[t + 1 + k]
  BY <1>a, SaidProperties
<1>3. at = t + 1 + reply /\ at \in 1..n /\ r.context[at].by = "ai" /\ r.context[at] = Said(r)[reply]
  BY <1>a, <1>2 DEF Round
<1>4. ASSUME NEW j \in DOMAIN r.context, r.context[j].by = "ai" PROVE j <= at
  <2>1. reply \in 1..n - t - 1 /\ j \in 1..n
    BY <1>a, <1>2
  <2>2. SUFFICES ASSUME j > at PROVE FALSE
    BY <1>a, <1>3, <2>1
  <2>3. PICK k \in 1..n - t - 1 : k \in reply + 1..n - t - 1 /\ t + 1 + k = j
    <3>1. /\ j - t - 1 \in 1..n - t - 1 /\ j - t - 1 \in reply + 1..n - t - 1
          /\ t + 1 + (j - t - 1) = j
      <4>1. j \in Int /\ reply \in Int /\ t + 1 + reply < j /\ j <= n
        BY <1>a, <1>3, <2>1, <2>2
      <4>2. QED BY <2>1, <4>1, SMTT(30)
    <3>2. QED BY <3>1
  <2>4. Said(r)[k] = r.context[j]
    BY <1>2, <2>3
  <2>5. Said(r)[k].by # "ai"
    BY <1>2, <2>3 DEF Round
  <2>6. QED BY <1>4, <2>4, <2>5
<1>5. IsLast(at)
  BY <1>3, <1>4
<1>6. \A i \in DOMAIN r.context : IsLast(i) => i = at
  BY <1>a, <1>3, <1>5
<1>7. (CHOOSE i \in DOMAIN r.context : IsLast(i)) = at
  <2>. HIDE DEF IsLast, at
  <2>. QED BY <1>a, <1>3, <1>5, <1>6
<1>8. LastReply(r) = r.context[at]
  <2>1. LastReply(r) = r.context[CHOOSE i \in DOMAIN r.context : IsLast(i)]
    BY DEF LastReply
  <2>. HIDE DEF IsLast, at
  <2>2. QED BY <1>7, <2>1
<1>9. QED BY <1>2, <1>3, <1>8, ElementOfSeq

LEMMA ThisCallIs ==
    ASSUME NEW r \in Run, r.sent + 1 <= Len(r.context), NEW reply \in DOMAIN Said(r), Round(r, reply),
           r.pending # <<>>
    PROVE  LET calls == Said(r)[reply].calls
               done == Len(calls) - Len(r.pending)
           IN  /\ calls \in Seq(Call) /\ Head(r.pending) = done + 1 /\ done + 1 \in 1..Len(calls)
               /\ ThisCall(r) = calls[done + 1] /\ ThisCall(r) \in Call
<1>. DEFINE calls == Said(r)[reply].calls
            done == Len(calls) - Len(r.pending)
<1>1. LastReply(r) = Said(r)[reply] /\ calls \in Seq(Call)
  BY LastReplyIs DEF ChatMessage
<1>2. r.pending \in Seq(Nat) /\ Len(r.pending) \in Nat /\ Len(r.pending) # 0 /\ 1 \in DOMAIN r.pending
  BY DEF Run
<1>3. Head(r.pending) = r.pending[1]
  BY <1>2
<1>4. done \in Nat /\ r.pending[1] = done + 1
  BY <1>2 DEF Round
<1>5. Len(calls) \in Nat /\ done + 1 \in 1..Len(calls)
  <2>1. Len(calls) \in Nat
    BY <1>1
  <2>. HIDE DEF calls
  <2>2. QED BY <1>2, <1>4, <2>1
<1>6. ThisCall(r) = calls[done + 1] /\ calls[done + 1] \in Call
  BY <1>1, <1>3, <1>4, <1>5, ElementOfSeq DEF ThisCall
<1>7. QED BY <1>1, <1>3, <1>4, <1>5, <1>6

\* Said messages that answer their calls still do when more is said.
LEMMA AnswersStay ==
    ASSUME NEW r \in Run, NEW s \in Run, r.page = s.page, r.contract = s.contract,
           Said(r) \in Seq(ChatMessage),
           \A k \in DOMAIN Said(r) : Said(s)[k] = Said(r)[k],
           NEW i \in DOMAIN Said(r), Answers(Said(r), i, r)
    PROVE  Answers(Said(s), i, s)
<1>1. i \in 1..Len(Said(r)) /\ Len(Said(r)) \in Nat
  OBVIOUS
<1>2. \A k \in 1..i : Said(s)[k] = Said(r)[k]
  BY <1>1
<1>3. PICK reply \in 1..i - 1 :
        /\ Said(r)[reply].by = "ai" /\ \A k \in reply + 1..i - 1 : Said(r)[k].by # "ai"
        /\ \A j \in 1..Said(r)[i].of : \/ Said(r)[reply].calls[j].tool = "unknown"
                                       \/ \E k \in reply + 1..i : Said(r)[k].of = j
        /\ \A k \in reply + 1..i - 1 : Said(r)[k].of < Said(r)[i].of
        /\ AnswersCall(Said(r)[i].answer, Said(r)[reply].calls[Said(r)[i].of], r)
  BY DEF Answers
<1>4. /\ reply \in 1..i /\ i \in 1..i
      /\ \A k \in reply + 1..i : k \in 1..i
      /\ \A k \in reply + 1..i - 1 : k \in 1..i
  BY <1>1
<1>5. /\ Said(s)[reply] = Said(r)[reply] /\ Said(s)[i] = Said(r)[i]
      /\ \A k \in reply + 1..i : Said(s)[k] = Said(r)[k]
      /\ \A k \in reply + 1..i - 1 : Said(s)[k] = Said(r)[k]
  BY <1>2, <1>4
<1>6. AnswersCall(Said(s)[i].answer, Said(s)[reply].calls[Said(s)[i].of], s)
  <2>1. PICK what, call : what = Said(r)[i].answer /\ call = Said(r)[reply].calls[Said(r)[i].of]
    OBVIOUS
  <2>2. AnswersCall(what, call, r)
    BY <1>3, <2>1
  <2>3. AnswersCall(what, call, s)
    BY <2>2 DEF AnswersCall
  <2>4. QED BY <1>5, <2>1, <2>3
<1>7. \A j \in 1..Said(s)[i].of : \/ Said(s)[reply].calls[j].tool = "unknown"
                                  \/ \E k \in reply + 1..i : Said(s)[k].of = j
  BY <1>3, <1>5
<1>8. /\ Said(s)[reply].by = "ai" /\ \A k \in reply + 1..i - 1 : Said(s)[k].by # "ai"
      /\ \A k \in reply + 1..i - 1 : Said(s)[k].of < Said(s)[i].of
  BY <1>3, <1>5
<1>9. QED BY <1>6, <1>7, <1>8 DEF Answers

\* A run goes to another stage.
LEMMA StageTalk ==
    ASSUME NEW r \in Run, Talk(r), r.stage \in {"tools", "searching"}, NEW s \in Run,
           s.context = r.context, s.sent = r.sent, s.pending = r.pending,
           s.page = r.page, s.contract = r.contract
    PROVE  Talk(s)
<1>1. r.sent + 1 <= Len(r.context) /\ s.sent + 1 <= Len(s.context)
  BY DEF Talk
<1>2. Said(s) = Said(r) /\ Said(r) \in Seq(ChatMessage)
  BY <1>1, SaidProperties DEF Said
<1>3. ASSUME NEW i \in DOMAIN Said(s), Said(s)[i].by = "tool" PROVE Answers(Said(s), i, s)
  BY <1>2, <1>3, AnswersStay DEF Talk
<1>4. PICK reply \in DOMAIN Said(r) : Round(r, reply)
  BY DEF Talk
<1>5. Round(s, reply)
  <2>. DEFINE calls == Said(r)[reply].calls
              done == Len(calls) - Len(r.pending)
  <2>1. /\ Said(r)[reply].by = "ai" /\ \A k \in reply + 1..Len(Said(r)) : Said(r)[k].by # "ai"
        /\ done \in Nat /\ \A i \in DOMAIN r.pending : r.pending[i] = done + i
        /\ \A j \in 1..done : \/ calls[j].tool = "unknown"
                              \/ \E k \in reply + 1..Len(Said(r)) : Said(r)[k].of = j
        /\ \A k \in reply + 1..Len(Said(r)) : Said(r)[k].of \in 1..done
    BY <1>4 DEF Round
  <2>2. Said(s)[reply].calls = calls /\ Len(calls) - Len(s.pending) = done /\ DOMAIN s.pending = DOMAIN r.pending
    BY <1>2
  <2>. HIDE DEF calls, done
  <2>3. QED BY <1>2, <2>1, <2>2 DEF Round
<1>6. QED BY <1>1, <1>2, <1>3, <1>4, <1>5 DEF Talk

LEMMA UpTo == \A n \in Nat : \A i \in 1..n + 1 : i = n + 1 \/ i \in 1..n
OBVIOUS

LEMMA OneLess == \A a, b \in Nat : a - (b - 1) = (a - b) + 1
OBVIOUS

\* A tool returns.
LEMMA ReturnedTalk ==
    ASSUME NEW r \in Run, Talk(r), r.stage \in {"tools", "searching"}, r.pending # <<>>,
           NEW what \in {Nothing} \cup Result, AnswersCall(what, ThisCall(r), r), NEW s \in Run,
           s.context = Append(r.context, Message("tool", "none", <<>>, Head(r.pending), what)),
           s.pending = Tail(r.pending), s.sent = r.sent, s.page = r.page, s.contract = r.contract
    PROVE  Talk(s)
<1>. DEFINE m == Message("tool", "none", <<>>, Head(r.pending), what)
<1>1. /\ r.pending \in Seq(Nat) /\ Head(r.pending) \in Nat /\ Tail(r.pending) \in Seq(Nat)
      /\ Len(Tail(r.pending)) = Len(r.pending) - 1
      /\ \A i \in 1..Len(Tail(r.pending)) : Tail(r.pending)[i] = r.pending[i + 1]
  BY HeadTailProperties DEF Run
<1>2. m \in ChatMessage /\ m.by = "tool" /\ m.of = Head(r.pending) /\ m.answer = what
  BY <1>1 DEF Message, ChatMessage
<1>. HIDE DEF m
<1>3. s.context = Append(r.context, m)
  BY DEF m
<1>5. r.sent + 1 <= Len(r.context)
  BY DEF Talk
<1>6. /\ s.sent + 1 <= Len(s.context)
      /\ Said(r) \in Seq(ChatMessage) /\ Said(s) \in Seq(ChatMessage)
      /\ Len(Said(s)) = Len(Said(r)) + 1
      /\ \A k \in DOMAIN Said(r) : k \in DOMAIN Said(s) /\ Said(s)[k] = Said(r)[k]
      /\ Said(s)[Len(Said(r)) + 1] = m
  BY <1>2, <1>3, <1>5, SaidAppend, SMTT(20)
<1>7. PICK n \in Nat : n = Len(Said(r)) /\ DOMAIN Said(r) = 1..n /\ DOMAIN Said(s) = 1..n + 1
  <2>1. Len(Said(r)) \in Nat /\ DOMAIN Said(r) = 1..Len(Said(r)) /\ DOMAIN Said(s) = 1..Len(Said(s))
    BY <1>6
  <2>2. QED BY <1>6, <2>1, Zenon
<1>8. PICK reply \in 1..n : Round(r, reply)
  BY <1>7 DEF Talk
<1>9. PICK calls \in Seq(Call), done \in Nat :
        /\ calls = Said(r)[reply].calls /\ done = Len(calls) - Len(r.pending)
        /\ Head(r.pending) = done + 1 /\ done + 1 \in 1..Len(calls) /\ ThisCall(r) = calls[done + 1]
  <2>1. Len(Said(r)[reply].calls) - Len(r.pending) \in Nat
    BY <1>8 DEF Round
  <2>2. QED BY <1>5, <1>7, <1>8, <2>1, ThisCallIs
<1>10. /\ Said(r)[reply].by = "ai" /\ \A k \in reply + 1..n : Said(r)[k].by # "ai"
       /\ \A i \in DOMAIN r.pending : r.pending[i] = done + i
       /\ \A j \in 1..done : \/ calls[j].tool = "unknown"
                             \/ \E k \in reply + 1..n : Said(r)[k].of = j
       /\ \A k \in reply + 1..n : Said(r)[k].of \in 1..done
  BY <1>7, <1>8, <1>9 DEF Round
<1>11. /\ \A k \in reply + 1..n : k \in reply + 1..n + 1 /\ Said(s)[k] = Said(r)[k]
       /\ n + 1 \in reply + 1..n + 1 /\ Said(s)[reply] = Said(r)[reply] /\ Said(s)[n + 1] = m
       /\ \A k \in reply + 1..n + 1 : k \in reply + 1..n \/ k = n + 1
  <2>1. /\ \A k \in reply + 1..n : k \in reply + 1..n + 1 /\ k \in 1..n
        /\ \A k \in reply + 1..n + 1 : k \in reply + 1..n \/ k = n + 1
        /\ n + 1 \in reply + 1..n + 1
    OBVIOUS
  <2>2. \A k \in 1..n : Said(s)[k] = Said(r)[k]
    BY <1>6, <1>7, Zenon
  <2>3. Said(s)[n + 1] = m
    BY <1>6, <1>7, Zenon
  <2>4. QED BY <2>1, <2>2, <2>3, Zenon
<1>12. \A j \in 1..done + 1 : \/ calls[j].tool = "unknown"
                              \/ \E k \in reply + 1..n + 1 : Said(s)[k].of = j
  <2>1. ASSUME NEW j \in 1..done + 1, calls[j].tool # "unknown"
        PROVE  \E k \in reply + 1..n + 1 : Said(s)[k].of = j
    <3>1. CASE j = done + 1
      BY <1>2, <1>9, <1>11, <3>1
    <3>2. CASE j \in 1..done
      BY <1>10, <1>11, <2>1, <3>2, SMTT(30)
    <3>3. QED BY <3>1, <3>2
  <2>2. QED BY <2>1
<1>13. Answers(Said(s), n + 1, s)
  <2>1. reply \in 1..(n + 1) - 1 /\ (n + 1) - 1 = n
    OBVIOUS
  <2>2. AnswersCall(m.answer, calls[done + 1], s)
    BY <1>2, <1>3, <1>9 DEF AnswersCall
  <2>3. \A k \in reply + 1..n : Said(s)[k].by # "ai" /\ Said(s)[k].of < done + 1
    BY <1>10, <1>11, SMTT(30)
  <2>4. m.of = done + 1 /\ Said(s)[reply].calls = calls /\ Said(s)[reply].by = "ai"
    BY <1>2, <1>9, <1>10, <1>11
  <2>5. QED BY <1>11, <1>12, <2>1, <2>2, <2>3, <2>4 DEF Answers
<1>14. ASSUME NEW i \in DOMAIN Said(s), Said(s)[i].by = "tool" PROVE Answers(Said(s), i, s)
  <2>1. CASE i = n + 1
    BY <1>13, <2>1
  <2>2. CASE i \in 1..n
    <3>1. Said(r)[i].by = "tool" /\ i \in DOMAIN Said(r)
      BY <1>6, <1>7, <1>14, <2>2
    <3>2. Answers(Said(r), i, r)
      BY <3>1 DEF Talk
    <3>3. QED BY <1>6, <3>1, <3>2, AnswersStay
  <2>3. i = n + 1 \/ i \in 1..n
    BY <1>7, UpTo
  <2>4. QED BY <2>1, <2>2, <2>3
<1>15. Round(s, reply)
  <2>1. Len(calls) - Len(s.pending) = done + 1
    <3>1. Len(calls) \in Nat /\ Len(r.pending) \in Nat /\ Len(s.pending) = Len(r.pending) - 1
      BY <1>1, <1>3
    <3>2. Len(calls) - (Len(r.pending) - 1) = (Len(calls) - Len(r.pending)) + 1
      BY <3>1, OneLess
    <3>3. done = Len(calls) - Len(r.pending)
      BY <1>9
    <3>4. QED BY <3>1, <3>2, <3>3, Zenon
  <2>2. \A i \in DOMAIN s.pending : s.pending[i] = (done + 1) + i
    <3>1. ASSUME NEW i \in DOMAIN s.pending PROVE s.pending[i] = (done + 1) + i
      <4>1. i \in 1..Len(r.pending) - 1 /\ i + 1 \in DOMAIN r.pending
        BY <1>1, <1>3
      <4>2. s.pending[i] = r.pending[i + 1]
        BY <1>1, <1>3, <4>1
      <4>3. QED BY <1>10, <4>1, <4>2
    <3>2. QED BY <3>1
  <2>3. Said(s)[reply].calls = calls /\ Said(s)[reply].by = "ai" /\ Len(Said(s)) = n + 1
    BY <1>6, <1>7, <1>9, <1>10, <1>11
  <2>4. \A k \in reply + 1..n + 1 : Said(s)[k].by # "ai" /\ Said(s)[k].of \in 1..done + 1
    <3>1. ASSUME NEW k \in reply + 1..n + 1 PROVE Said(s)[k].by # "ai" /\ Said(s)[k].of \in 1..done + 1
      <4>1. CASE k = n + 1
        <5>1. Said(s)[k].by = "tool" /\ Said(s)[k].of = done + 1
          BY <1>2, <1>9, <1>11, <4>1
        <5>2. QED BY <5>1
      <4>2. CASE k \in reply + 1..n
        <5>1. Said(s)[k].by # "ai" /\ Said(s)[k].of \in 1..done
          BY <1>10, <1>11, <4>2
        <5>2. QED BY <5>1
      <4>3. QED BY <1>11, <4>1, <4>2
    <3>2. QED BY <3>1
  <2>5. done + 1 \in Nat
    OBVIOUS
  <2>6. /\ \A k \in reply + 1..Len(Said(s)) : Said(s)[k].by # "ai" /\ Said(s)[k].of \in 1..done + 1
        /\ \A j \in 1..done + 1 : \/ calls[j].tool = "unknown"
                                  \/ \E k \in reply + 1..Len(Said(s)) : Said(s)[k].of = j
    BY <1>12, <2>3, <2>4
  <2>7. QED BY <2>1, <2>2, <2>3, <2>5, <2>6 DEF Round
<1>16. QED BY <1>6, <1>7, <1>14, <1>15 DEF Talk

\* A call of no tool there is has no message.
LEMMA UnknownTalk ==
    ASSUME NEW r \in Run, Talk(r), r.stage \in {"tools", "searching"}, r.pending # <<>>,
           ThisCall(r).tool = "unknown", NEW s \in Run,
           s.context = r.context, s.pending = Tail(r.pending), s.sent = r.sent,
           s.page = r.page, s.contract = r.contract
    PROVE  Talk(s)
<1>1. /\ r.pending \in Seq(Nat) /\ Len(Tail(r.pending)) = Len(r.pending) - 1
      /\ \A i \in 1..Len(Tail(r.pending)) : Tail(r.pending)[i] = r.pending[i + 1]
      /\ Tail(r.pending) \in Seq(Nat)
  BY HeadTailProperties DEF Run
<1>2. r.sent + 1 <= Len(r.context) /\ s.sent + 1 <= Len(s.context)
  BY DEF Talk
<1>3. Said(s) = Said(r) /\ Said(r) \in Seq(ChatMessage)
  BY <1>2, SaidProperties DEF Said
<1>4. PICK reply \in DOMAIN Said(r) : Round(r, reply)
  BY DEF Talk
<1>5. PICK calls \in Seq(Call), done \in Nat :
        /\ calls = Said(r)[reply].calls /\ done = Len(calls) - Len(r.pending)
        /\ Head(r.pending) = done + 1 /\ done + 1 \in 1..Len(calls) /\ ThisCall(r) = calls[done + 1]
  <2>1. Len(Said(r)[reply].calls) - Len(r.pending) \in Nat
    BY <1>4 DEF Round
  <2>2. QED BY <1>2, <1>4, <2>1, ThisCallIs
<1>6. /\ Said(r)[reply].by = "ai" /\ \A k \in reply + 1..Len(Said(r)) : Said(r)[k].by # "ai"
      /\ \A i \in DOMAIN r.pending : r.pending[i] = done + i
      /\ \A j \in 1..done : \/ calls[j].tool = "unknown"
                            \/ \E k \in reply + 1..Len(Said(r)) : Said(r)[k].of = j
      /\ \A k \in reply + 1..Len(Said(r)) : Said(r)[k].of \in 1..done
  BY <1>4, <1>5 DEF Round
<1>7. Round(s, reply)
  <2>1. Len(calls) - Len(s.pending) = done + 1
    <3>1. Len(calls) \in Nat /\ Len(r.pending) \in Nat
      BY <1>1
    <3>2. Len(calls) - (Len(r.pending) - 1) = (Len(calls) - Len(r.pending)) + 1
      BY <3>1, OneLess
    <3>3. done = Len(calls) - Len(r.pending) /\ Len(s.pending) = Len(r.pending) - 1
      BY <1>1, <1>5
    <3>4. QED BY <3>2, <3>3, Zenon
  <2>2. \A i \in DOMAIN s.pending : s.pending[i] = (done + 1) + i
    <3>1. ASSUME NEW i \in DOMAIN s.pending PROVE s.pending[i] = (done + 1) + i
      <4>1. i \in 1..Len(r.pending) - 1 /\ i + 1 \in DOMAIN r.pending
        BY <1>1
      <4>2. s.pending[i] = r.pending[i + 1]
        BY <1>1, <4>1
      <4>3. QED BY <1>6, <4>1, <4>2
    <3>2. QED BY <3>1
  <2>3. \A j \in 1..done + 1 : j = done + 1 \/ j \in 1..done
    BY UpTo
  <2>4. \A j \in 1..done + 1 : \/ calls[j].tool = "unknown"
                               \/ \E k \in reply + 1..Len(Said(r)) : Said(r)[k].of = j
    BY <1>5, <1>6, <2>3
  <2>5. \A k \in reply + 1..Len(Said(r)) : Said(r)[k].of \in 1..done + 1
    <3>1. 1..done \subseteq 1..done + 1
      OBVIOUS
    <3>2. QED BY <1>6, <3>1, Zenon
  <2>6. done + 1 \in Nat /\ Said(s)[reply].calls = calls
    BY <1>3, <1>5
  <2>7. /\ Said(s)[reply].by = "ai" /\ \A k \in reply + 1..Len(Said(s)) : Said(s)[k].by # "ai"
        /\ \A j \in 1..done + 1 : \/ calls[j].tool = "unknown"
                                  \/ \E k \in reply + 1..Len(Said(s)) : Said(s)[k].of = j
        /\ \A k \in reply + 1..Len(Said(s)) : Said(s)[k].of \in 1..done + 1
    BY <1>3, <1>6, <2>4, <2>5
  <2>8. QED BY <2>1, <2>2, <2>6, <2>7 DEF Round
<1>8. ASSUME NEW i \in DOMAIN Said(s), Said(s)[i].by = "tool" PROVE Answers(Said(s), i, s)
  BY <1>3, <1>8, AnswersStay DEF Talk
<1>9. QED BY <1>2, <1>3, <1>4, <1>7, <1>8 DEF Talk

\* The model replies.
LEMMA ReplyTalk ==
    ASSUME NEW r \in Run, Talk(r), NEW reply \in Replies, NEW s \in Run,
           s.context = Append(r.context, Message("ai", reply.text, reply.calls, Nothing, Nothing)),
           s.pending = [i \in DOMAIN reply.calls |-> i],
           s.sent = r.sent, s.page = r.page, s.contract = r.contract
    PROVE  Talk(s)
<1>. DEFINE m == Message("ai", reply.text, reply.calls, Nothing, Nothing)
<1>1. reply.text \in {"none", "plain", "private"} /\ reply.calls \in Seq(Call)
  BY ChatAssumption DEF Reply
<1>2. m \in ChatMessage /\ m.by = "ai" /\ m.calls = reply.calls
  BY <1>1 DEF Message, ChatMessage
<1>. HIDE DEF m
<1>3. s.context = Append(r.context, m)
  BY DEF m
<1>4. r.sent + 1 <= Len(r.context)
  BY DEF Talk
<1>5. /\ s.sent + 1 <= Len(s.context)
      /\ Said(r) \in Seq(ChatMessage) /\ Said(s) \in Seq(ChatMessage)
      /\ Len(Said(s)) = Len(Said(r)) + 1
      /\ \A k \in DOMAIN Said(r) : k \in DOMAIN Said(s) /\ Said(s)[k] = Said(r)[k]
      /\ Said(s)[Len(Said(r)) + 1] = m
  BY <1>2, <1>3, <1>4, SaidAppend, SMTT(20)
<1>6. PICK n \in Nat : n = Len(Said(r)) /\ DOMAIN Said(r) = 1..n /\ DOMAIN Said(s) = 1..n + 1
  <2>1. Len(Said(r)) \in Nat /\ DOMAIN Said(r) = 1..Len(Said(r)) /\ DOMAIN Said(s) = 1..Len(Said(s))
    BY <1>5
  <2>2. QED BY <1>5, <2>1, Zenon
<1>7. ASSUME NEW i \in DOMAIN Said(s), Said(s)[i].by = "tool" PROVE Answers(Said(s), i, s)
  <2>1. i = n + 1 \/ i \in 1..n
    BY <1>6, UpTo
  <2>2. i # n + 1
    BY <1>2, <1>5, <1>6, <1>7
  <2>3. i \in DOMAIN Said(r) /\ Said(r)[i].by = "tool"
    BY <1>5, <1>6, <1>7, <2>1, <2>2
  <2>4. Answers(Said(r), i, r)
    BY <2>3 DEF Talk
  <2>5. QED BY <1>5, <2>3, <2>4, AnswersStay
<1>8. Round(s, n + 1)
  <2>1. Said(s)[n + 1] = m /\ Len(Said(s)) = n + 1
    BY <1>5, <1>6
  <2>2. /\ Len(s.pending) = Len(reply.calls) /\ Len(reply.calls) \in Nat
        /\ \A i \in DOMAIN s.pending : s.pending[i] = 0 + i
    BY <1>1
  <2>3. Len(m.calls) - Len(s.pending) = 0
    BY <1>2, <2>2
  <2>4. (n + 1) + 1..n + 1 = {} /\ 1..0 = {}
    OBVIOUS
  <2>5. QED BY <1>2, <2>1, <2>2, <2>3, <2>4 DEF Round
<1>9. n + 1 \in DOMAIN Said(s)
  BY <1>6
<1>10. QED BY <1>5, <1>7, <1>8, <1>9 DEF Talk

LEMMA InjectedType ==
    ASSUME NEW r \in Run, NEW call \in Call
    PROVE  Injected(r, call) \in Query
<1>1. TenantOf[r.page] \in Tenants /\ r.contract \in {Nothing} \cup STRING
  BY ChatAssumption DEF Run
<1>2. call.params \in Params
  BY DEF Call
<1>3. /\ call.params.level \in Levels \cup {"all"} /\ call.params.contract \in {Nothing} \cup STRING
      /\ call.params.text \in {Nothing} \cup Texts
      /\ call.params.kinds \in [{"section", "clause", "relationship"} -> SUBSET STRING]
      /\ call.params.where \in SUBSET FilterNames /\ call.params.custom \in BOOLEAN
  BY <1>2 DEF Params
<1>4. "document" \in Levels
  BY DEF Levels
<1>5. QED BY <1>1, <1>3, <1>4 DEF Injected, Query

\* The answer of a call's search answers the call.
LEMMA ResultAnswersCall ==
    ASSUME NEW r, NEW call, NEW what \in Result, what.q = Injected(r, call)
    PROVE  AnswersCall(what, call, r)
<1>1. SUFFICES ASSUME NEW part \in Range(what.parts), NEW item \in Range(part.items), ~OwnAggregation(call)
               PROVE  /\ item.row.tenant = TenantOf[r.page]
                      /\ call.tool = "EnhancedContractSearch" /\ r.contract # Nothing
                            => item.row.contract = r.contract
  BY DEF AnswersCall
<1>2. PICK n \in DOMAIN what.parts : part = what.parts[n]
  BY <1>1 DEF Range
<1>3. PICK i \in DOMAIN part.items : item = part.items[i]
  BY <1>1 DEF Range
<1>4. what.parts \in Seq(PartsOf(what.q))
  BY DEF Result
<1>5. part \in PartsOf(what.q)
  BY <1>2, <1>4, ElementOfSeq
<1>9. ~Aggregated(what.q)
  <2>1. Injected(r, call).api = "legacy tool" => call.tool = "ContractSearch"
    BY DEF Injected
  <2>2. Injected(r, call).custom = call.params.custom
    BY DEF Injected
  <2>3. ~(call.tool = "ContractSearch" /\ call.params.custom)
    BY <1>1 DEF OwnAggregation
  <2>. QED BY <2>1, <2>2, <2>3, Zenon DEF Aggregated
<1>6. Owned(what.q, item.row)
  BY <1>3, <1>5, <1>9 DEF PartsOf, PartIsOf
<1>7. /\ what.q.tenant = TenantOf[r.page]
      /\ call.tool = "EnhancedContractSearch" /\ r.contract # Nothing => what.q.contract = r.contract
  <2>1. Injected(r, call).tenant = TenantOf[r.page]
    BY DEF Injected
  <2>2. ASSUME call.tool = "EnhancedContractSearch", r.contract # Nothing
        PROVE  Injected(r, call).contract = r.contract
    <3>1. call.tool # "ContractSearch"
      BY <2>2
    <3>2. QED BY <2>2, <3>1 DEF Injected
  <2>3. QED BY <2>1, <2>2
<1>8. QED BY <1>6, <1>7 DEF Owned

LEMMA CInitInv == CInit => SearchInv /\ ChatInv
BY SInitInv DEF CInit, ChatInv, ChatTypeOK

\* A step of one caller: its run becomes v.
LEMMA RunStep ==
    ASSUME ChatInv, NEW c \in Callers, history' \in [Pages -> Seq(ChatMessage)], turn' \in Nat,
           NEW v, run' = [run EXCEPT ![c] = v],
           v # Nothing => v \in Run /\ Talk(v) /\ SearchOf(c, v)',
           \A d \in Callers \ {c} : asked'[d] = asked[d] /\ answer'[d] = answer[d]
    PROVE  ChatInv'
<1>1. run' \in [Callers -> {Nothing} \cup Run]
  BY DEF ChatInv, ChatTypeOK
<1>2. ASSUME NEW d \in Callers, run'[d] # Nothing PROVE Talk(run'[d]) /\ SearchOf(d, run[d])'
  <2>1. CASE d = c
    <3>1. run'[d] = v
      BY <2>1 DEF ChatInv, ChatTypeOK
    <3>2. QED BY <1>2, <2>1, <3>1 DEF SearchOf
  <2>2. CASE d # c
    <3>1. run'[d] = run[d] /\ asked'[d] = asked[d] /\ answer'[d] = answer[d]
      BY <2>2 DEF ChatInv, ChatTypeOK
    <3>2. Talk(run[d]) /\ SearchOf(d, run[d])
      BY <1>2, <3>1 DEF ChatInv
    <3>3. QED BY <3>1, <3>2 DEF SearchOf
  <2>3. QED BY <2>1, <2>2
<1>3. QED BY <1>1, <1>2 DEF ChatInv, ChatTypeOK, SearchOf

LEMMA RunOf ==
    ASSUME ChatInv, NEW c \in Callers, run[c] # Nothing
    PROVE  run[c] \in Run /\ Talk(run[c]) /\ SearchOf(c, run[c])
BY DEF ChatInv, ChatTypeOK

\* What a step of a search does to what a chat run sees of it.
LEMMA SearchStepEffect ==
    ASSUME SearchInv, NEW c \in Callers, SearchStep(c)
    PROVE  /\ asked[c] # Nothing
           /\ \A d \in Callers \ {c} : asked'[d] = asked[d] /\ answer'[d] = answer[d]
           /\ \/ asked'[c] = asked[c] /\ answer'[c] = answer[c]
              \/ asked'[c] = Nothing /\ (answer'[c] = Error \/ answer'[c].q = asked[c])
<1>1. ASSUME NEW a, Answer(c, a), asked[c] # Nothing, a = Error \/ a.q = asked[c]
      PROVE  /\ \A d \in Callers \ {c} : asked'[d] = asked[d] /\ answer'[d] = answer[d]
             /\ asked'[c] = Nothing /\ (answer'[c] = Error \/ answer'[c].q = asked[c])
  BY <1>1 DEF Answer, SearchInv
<1>2. CASE CacheHit(c)
  <2>1. PICK e \in cache : Answer(c, [q |-> asked[c], parts |-> e.parts])
    BY <1>2 DEF CacheHit
  <2>2. QED BY <1>1, <1>2, <2>1 DEF CacheHit, Looking
<1>3. CASE Finish(c)
  BY <1>1, <1>3 DEF Finish
<1>4. CASE asked[c] # Nothing /\ Raise(c)
  BY <1>1, <1>4 DEF Raise
<1>5. CASE asked[c] # Nothing /\ UNCHANGED <<asked, answer>>
  BY <1>5
<1>6. ASSUME NEW level, Searching(c, level), LevelFound(c, level) PROVE UNCHANGED <<asked, answer>>
  BY <1>6 DEF LevelFound, Found
<1>7. CASE CacheMiss(c)
  BY <1>5, <1>7 DEF CacheMiss, Looking
<1>8. CASE \E level : Strategy(c, level)
  BY <1>5, <1>6, <1>8 DEF Strategy, Searching, Found
<1>9. CASE \E level : ToolLevel(c, level)
  BY <1>4, <1>5, <1>6, <1>9 DEF ToolLevel, Searching
<1>10. CASE SearchChunks(c)
  <2>1. asked[c] # Nothing /\ (UNCHANGED <<asked, answer>> \/ Raise(c))
    BY <1>10 DEF SearchChunks, Searching, Found
  <2>2. QED BY <1>4, <1>5, <2>1
<1>12. CASE Aggregate(c)
  <2>1. asked[c] # Nothing /\ (UNCHANGED <<asked, answer>> \/ Raise(c))
    BY <1>12 DEF Aggregate, Searching, Found
  <2>2. QED BY <1>4, <1>5, <2>1
<1>11. QED
  BY <1>2, <1>3, <1>7, <1>8, <1>9, <1>10, <1>12
     DEF SearchStep, DocumentStrategy, ClauseStrategy, SectionStrategy, RelationshipStrategy,
         SearchDocuments, SearchSections, SearchClauses, SearchRelationships

LEMMA SearchStepChat ==
    ASSUME SearchInv, ChatInv, NEW c \in Callers, SearchStep(c), UNCHANGED chatting
    PROVE  ChatInv'
<1>1. /\ run' = [run EXCEPT ![c] = run[c]] /\ history' \in [Pages -> Seq(ChatMessage)] /\ turn' \in Nat
  BY DEF ChatInv, ChatTypeOK, chatting
<1>2. PICK v : v = run[c]
  OBVIOUS
<1>3. ASSUME v # Nothing PROVE v \in Run /\ Talk(v) /\ SearchOf(c, v)'
  <2>1. v \in Run /\ Talk(v) /\ SearchOf(c, v)
    BY <1>2, <1>3, RunOf
  <2>2. SearchOf(c, v)'
    BY <2>1, SearchStepEffect DEF SearchOf
  <2>3. QED BY <2>1, <2>2
<1>4. QED BY <1>1, <1>2, <1>3, SearchStepEffect, RunStep

LEMMA SubmitChat ==
    ASSUME ChatInv, NEW c \in Callers, NEW p \in Pages, NEW contract \in Selections, Submit(c, p, contract)
    PROVE  ChatInv'
<1>1. history' \in [Pages -> Seq(ChatMessage)] /\ turn' \in Nat /\ UNCHANGED <<asked, answer>>
  BY DEF ChatInv, ChatTypeOK, Submit, svars, searching
<1>2. PICK v : v = run'[c]
  OBVIOUS
<1>3. run' = [run EXCEPT ![c] = v]
  BY <1>2 DEF ChatInv, ChatTypeOK, Submit
<1>4. ASSUME v # Nothing PROVE v \in Run /\ Talk(v) /\ SearchOf(c, v)'
  <2>1. v = NewRun(p, contract)
    BY <1>2, <1>4 DEF ChatInv, ChatTypeOK, Submit
  <2>. DEFINE m == Message("user", "plain", <<>>, turn + 1, Nothing)
  <2>2. m \in ChatMessage
    BY DEF Message, ChatMessage, ChatInv, ChatTypeOK
  <2>. HIDE DEF m
  <2>3. history[p] \in Seq(ChatMessage)
    BY DEF ChatInv, ChatTypeOK
  <2>4. Append(history[p], m) \in Seq(ChatMessage) /\ Len(Append(history[p], m)) = Len(history[p]) + 1
    BY <2>2, <2>3, AppendProperties
  <2>5. contract \in {Nothing} \cup STRING
    BY ChatAssumption
  <2>6. /\ v \in Run /\ v.sent = Len(history[p]) /\ v.context = Append(history[p], m) /\ v.stage = "assistant"
    BY <2>1, <2>3, <2>4, <2>5 DEF NewRun, Run, m
  <2>7. v.sent + 1 <= Len(v.context)
    BY <2>3, <2>4, <2>6
  <2>8. DOMAIN Said(v) = 1..Len(v.context) - v.sent - 1
    BY <2>6, <2>7, SaidProperties
  <2>9. DOMAIN Said(v) = {}
    BY <2>3, <2>4, <2>6, <2>8
  <2>10. Talk(v)
    BY <2>6, <2>7, <2>9 DEF Talk
  <2>11. SearchOf(c, v)'
    BY <1>1, <2>6 DEF SearchOf, Submit, Idle
  <2>12. QED BY <2>6, <2>10, <2>11
<1>5. QED BY <1>1, <1>3, <1>4, RunStep

\* The end of a run.
LEMMA BrokenChat ==
    ASSUME ChatInv, NEW c \in Callers, Broken(c), history' \in [Pages -> Seq(ChatMessage)], turn' = turn,
           \A d \in Callers \ {c} : asked'[d] = asked[d] /\ answer'[d] = answer[d]
    PROVE  ChatInv'
<1>1. turn' \in Nat
  BY DEF ChatInv, ChatTypeOK
<1>2. PICK v : v = Nothing
  OBVIOUS
<1>3. run' = [run EXCEPT ![c] = v]
  BY <1>2 DEF Broken
<1>4. QED BY <1>1, <1>2, <1>3, RunStep

LEMMA AssistantChat == ASSUME ChatInv, NEW c \in Callers, Assistant(c) PROVE ChatInv'
<1>1. history' \in [Pages -> Seq(ChatMessage)] /\ turn' \in Nat /\ UNCHANGED <<asked, answer>>
  BY DEF ChatInv, ChatTypeOK, Assistant, svars, searching
<1>2. run[c] \in Run /\ Talk(run[c]) /\ SearchOf(c, run[c]) /\ run[c].stage = "assistant"
  BY RunOf DEF Assistant, At
<1>3. PICK reply \in Replies :
        run' = [run EXCEPT
                  ![c].context = Append(@, Message("ai", reply.text, reply.calls, Nothing, Nothing)),
                  ![c].pending = [i \in DOMAIN reply.calls |-> i],
                  ![c].stage = IF reply.calls = <<>> THEN "guard" ELSE "tools"]
  BY DEF Assistant
<1>. DEFINE m == Message("ai", reply.text, reply.calls, Nothing, Nothing)
<1>4. reply.text \in {"none", "plain", "private"} /\ reply.calls \in Seq(Call)
  BY ChatAssumption DEF Reply
<1>5. m \in ChatMessage
  BY <1>4 DEF Message, ChatMessage
<1>6. Append(run[c].context, m) \in Seq(ChatMessage)
  <2>. HIDE DEF m
  <2>. QED BY <1>2, <1>5, AppendProperties DEF Run
<1>7. [i \in DOMAIN reply.calls |-> i] \in Seq(Nat)
  BY <1>4
<1>8. PICK v : v = [run[c] EXCEPT !.context = Append(run[c].context, m),
                                  !.pending = [i \in DOMAIN reply.calls |-> i],
                                  !.stage = IF reply.calls = <<>> THEN "guard" ELSE "tools"]
  OBVIOUS
<1>9. run' = [run EXCEPT ![c] = v]
  BY <1>3, <1>8 DEF ChatInv, ChatTypeOK
<1>. HIDE DEF m
<1>10. /\ v \in Run /\ v.context = Append(run[c].context, m) /\ v.pending = [i \in DOMAIN reply.calls |-> i]
       /\ v.sent = run[c].sent /\ v.page = run[c].page /\ v.contract = run[c].contract
       /\ v.stage # "searching"
  BY <1>2, <1>6, <1>7, <1>8 DEF Run
<1>11. Talk(v)
  BY <1>2, <1>10, ReplyTalk DEF m
<1>12. SearchOf(c, v)'
  BY <1>1, <1>2, <1>10 DEF SearchOf
<1>13. QED BY <1>1, <1>9, <1>10, <1>11, <1>12, RunStep

LEMMA ReturnedChat ==
    ASSUME ChatInv, NEW c \in Callers, run[c] # Nothing, run[c].stage \in {"tools", "searching"},
           run[c].pending # <<>>, NEW what \in {Nothing} \cup Result, AnswersCall(what, ThisCall(run[c]), run[c]),
           Returned(c, what), UNCHANGED <<history, turn>>,
           \A d \in Callers \ {c} : asked'[d] = asked[d] /\ answer'[d] = answer[d],
           asked'[c] = Nothing, answer'[c] = Nothing
    PROVE  ChatInv'
<1>1. history' \in [Pages -> Seq(ChatMessage)] /\ turn' \in Nat
  BY DEF ChatInv, ChatTypeOK
<1>2. run[c] \in Run /\ Talk(run[c])
  BY RunOf
<1>. DEFINE m == Message("tool", "none", <<>>, Head(run[c].pending), what)
<1>3. Head(run[c].pending) \in Nat /\ Tail(run[c].pending) \in Seq(Nat)
  BY <1>2, HeadTailProperties DEF Run
<1>4. m \in ChatMessage
  BY <1>3 DEF Message, ChatMessage
<1>5. Append(run[c].context, m) \in Seq(ChatMessage)
  <2>. HIDE DEF m
  <2>. QED BY <1>2, <1>4, AppendProperties DEF Run
<1>6. PICK v : v = [run[c] EXCEPT !.context = Append(run[c].context, m),
                                  !.pending = Tail(run[c].pending), !.stage = "tools"]
  OBVIOUS
<1>7. run' = [run EXCEPT ![c] = v]
  BY <1>6 DEF ChatInv, ChatTypeOK, Returned
<1>. HIDE DEF m
<1>8. /\ v \in Run /\ v.context = Append(run[c].context, m) /\ v.pending = Tail(run[c].pending)
      /\ v.sent = run[c].sent /\ v.page = run[c].page /\ v.contract = run[c].contract /\ v.stage = "tools"
  BY <1>2, <1>3, <1>5, <1>6 DEF Run
<1>9. Talk(v)
  BY <1>2, <1>8, ReturnedTalk DEF m
<1>10. SearchOf(c, v)'
  BY <1>8 DEF SearchOf
<1>11. QED BY <1>1, <1>7, <1>8, <1>9, <1>10, RunStep

LEMMA SearchReturnsChat ==
    ASSUME SearchInv, ChatInv, NEW c \in Callers, SearchReturns(c) PROVE ChatInv'
<1>1. run[c] # Nothing /\ run[c].stage = "searching" /\ answer[c] \notin {Nothing, Error}
  BY DEF SearchReturns, At
<1>2. run[c] \in Run /\ Talk(run[c]) /\ SearchOf(c, run[c])
  BY <1>1, RunOf
<1>3. /\ run[c].pending # <<>> /\ asked[c] = Nothing
      /\ answer[c].q = Injected(run[c], ThisCall(run[c]))
  BY <1>1, <1>2 DEF SearchOf
<1>4. answer[c] \in Result
  BY <1>1 DEF SearchInv, CallerInv
<1>5. AnswersCall(answer[c], ThisCall(run[c]), run[c])
  BY <1>3, <1>4, ResultAnswersCall
<1>6. /\ Returned(c, answer[c]) /\ UNCHANGED <<history, turn>>
      /\ \A d \in Callers \ {c} : asked'[d] = asked[d] /\ answer'[d] = answer[d]
      /\ asked'[c] = Nothing /\ answer'[c] = Nothing
  BY <1>3 DEF SearchReturns, SearchInv
<1>7. QED BY <1>1, <1>3, <1>4, <1>5, <1>6, ReturnedChat

LEMMA CallMCPChat == ASSUME ChatInv, NEW c \in Callers, CallMCP(c) PROVE ChatInv'
<1>1. /\ run[c] # Nothing /\ run[c].stage = "tools" /\ run[c].pending # <<>>
      /\ ThisCall(run[c]).tool = "MCP tool"
  BY DEF CallMCP, Calling, At
<1>2. SearchOf(c, run[c])
  BY <1>1, RunOf
<1>3. AnswersCall(Nothing, ThisCall(run[c]), run[c])
  BY <1>1 DEF AnswersCall
<1>4. UNCHANGED <<asked, answer, history, turn>> /\ Returned(c, Nothing)
  BY DEF CallMCP, svars, searching
<1>5. asked[c] = Nothing /\ answer[c] = Nothing
  BY <1>1, <1>2 DEF SearchOf
<1>6. QED BY <1>1, <1>3, <1>4, <1>5, ReturnedChat

\* A run goes on with what it has said.
LEMMA StageChat ==
    ASSUME ChatInv, NEW c \in Callers, run[c] # Nothing, run[c].stage \in {"tools", "searching"},
           NEW next \in {"assistant", "tools", "searching"}, run' = [run EXCEPT ![c].stage = next],
           UNCHANGED <<history, turn>>,
           \A d \in Callers \ {c} : asked'[d] = asked[d] /\ answer'[d] = answer[d],
           IF next = "searching"
           THEN /\ run[c].pending # <<>> /\ ThisCall(run[c]).tool # "MCP tool"
                /\ asked'[c] = Injected(run[c], ThisCall(run[c])) /\ answer'[c] = Nothing
           ELSE asked'[c] = Nothing /\ answer'[c] = Nothing
    PROVE  ChatInv'
<1>1. history' \in [Pages -> Seq(ChatMessage)] /\ turn' \in Nat
  BY DEF ChatInv, ChatTypeOK
<1>2. run[c] \in Run /\ Talk(run[c])
  BY RunOf
<1>3. PICK v : v = [run[c] EXCEPT !.stage = next]
  OBVIOUS
<1>4. run' = [run EXCEPT ![c] = v]
  BY <1>3 DEF ChatInv, ChatTypeOK
<1>5. /\ v \in Run /\ v.context = run[c].context /\ v.pending = run[c].pending
      /\ v.sent = run[c].sent /\ v.page = run[c].page /\ v.contract = run[c].contract /\ v.stage = next
  BY <1>2, <1>3 DEF Run
<1>6. Talk(v)
  <2>1. PICK r \in Run : r = run[c] /\ Talk(r)
    BY <1>2, Zenon
  <2>2. /\ r.stage \in {"tools", "searching"} /\ v.context = r.context /\ v.sent = r.sent
        /\ v.pending = r.pending /\ v.page = r.page /\ v.contract = r.contract /\ v \in Run
    BY <1>5, <2>1
  <2>3. QED BY <2>1, <2>2, StageTalk
<1>7. ThisCall(v) = ThisCall(run[c])
  BY <1>5, ZenonT(30) DEF ThisCall, LastReply
<1>8. Injected(v, ThisCall(v)) = Injected(run[c], ThisCall(run[c]))
  BY <1>5, <1>7 DEF Injected
<1>9. SearchOf(c, v)'
  BY <1>5, <1>7, <1>8 DEF SearchOf
<1>10. QED BY <1>1, <1>4, <1>5, <1>6, <1>9, RunStep

LEMMA CallUnknownChat == ASSUME ChatInv, NEW c \in Callers, CallUnknown(c) PROVE ChatInv'
<1>1. /\ run[c] # Nothing /\ run[c].stage = "tools" /\ run[c].pending # <<>>
      /\ ThisCall(run[c]).tool = "unknown"
  BY DEF CallUnknown, Calling, At
<1>2. run[c] \in Run /\ Talk(run[c]) /\ SearchOf(c, run[c])
  BY <1>1, RunOf
<1>3. history' \in [Pages -> Seq(ChatMessage)] /\ turn' \in Nat /\ UNCHANGED <<asked, answer>>
  BY DEF CallUnknown, ChatInv, ChatTypeOK, svars, searching
<1>4. Tail(run[c].pending) \in Seq(Nat)
  BY <1>1, <1>2, HeadTailProperties DEF Run
<1>5. PICK v : v = [run[c] EXCEPT !.pending = Tail(run[c].pending)]
  OBVIOUS
<1>6. run' = [run EXCEPT ![c] = v]
  BY <1>5 DEF ChatInv, ChatTypeOK, CallUnknown
<1>7. /\ v \in Run /\ v.context = run[c].context /\ v.pending = Tail(run[c].pending)
      /\ v.sent = run[c].sent /\ v.page = run[c].page /\ v.contract = run[c].contract /\ v.stage = "tools"
  BY <1>1, <1>2, <1>4, <1>5 DEF Run
<1>8. Talk(v)
  BY <1>1, <1>2, <1>7, UnknownTalk
<1>9. SearchOf(c, v)'
  BY <1>1, <1>2, <1>3, <1>7 DEF SearchOf
<1>10. QED BY <1>3, <1>6, <1>7, <1>8, <1>9, RunStep

LEMMA OutputChat == ASSUME ChatInv, NEW c \in Callers, Output(c) PROVE ChatInv'
<1>1. run[c] \in Run
  BY RunOf DEF Output, At
<1>2. run[c].context \in Seq(ChatMessage) /\ run[c].page \in Pages /\ history[run[c].page] \in Seq(ChatMessage)
  BY <1>1 DEF Run, ChatInv, ChatTypeOK
<1>3. Redacted(run[c].context) \in Seq(ChatMessage)
  <2>1. PICK context \in Seq(ChatMessage) : context = run[c].context
    BY <1>2
  <2>2. ASSUME NEW i \in DOMAIN context PROVE [context[i] EXCEPT !.text = "redacted"] \in ChatMessage /\ context[i] \in ChatMessage
    <3>1. PICK m \in ChatMessage : m = context[i]
      BY ElementOfSeq
    <3>2. [m EXCEPT !.text = "redacted"] \in ChatMessage
      BY DEF ChatMessage
    <3>3. QED BY <3>1, <3>2
  <2>3. Redacted(context) \in [1..Len(context) -> ChatMessage]
    BY <2>2 DEF Redacted
  <2>4. QED BY <2>1, <2>3
<1>4. history' \in [Pages -> Seq(ChatMessage)]
  <2>1. PICK said \in Seq(ChatMessage) : history' = [history EXCEPT ![run[c].page] = @ \o said]
    BY <1>2, <1>3 DEF Output
  <2>2. history[run[c].page] \o said \in Seq(ChatMessage)
    BY <1>2, ConcatProperties
  <2>3. QED BY <1>2, <2>1, <2>2 DEF ChatInv, ChatTypeOK
<1>5. Broken(c) /\ UNCHANGED <<asked, answer, turn>>
  BY DEF Output, svars, searching
<1>6. QED BY <1>4, <1>5, BrokenChat

LEMMA CallSearchChat == ASSUME SearchInv, ChatInv, NEW c \in Callers, CallSearch(c) PROVE ChatInv'
<1>1. /\ run[c] # Nothing /\ run[c].stage = "tools" /\ run[c].pending # <<>>
      /\ ThisCall(run[c]).tool # "MCP tool"
      /\ asked' = [asked EXCEPT ![c] = Injected(run[c], ThisCall(run[c]))]
      /\ UNCHANGED <<answer, history, turn>> /\ run' = [run EXCEPT ![c].stage = "searching"]
  BY DEF CallSearch, Calling, At, Ask
<1>2. answer[c] = Nothing
  BY <1>1, RunOf DEF SearchOf
<1>3. /\ asked'[c] = Injected(run[c], ThisCall(run[c]))
      /\ \A d \in Callers \ {c} : asked'[d] = asked[d] /\ answer'[d] = answer[d]
  BY <1>1 DEF SearchInv
<1>4. QED BY <1>1, <1>2, <1>3, StageChat

LEMMA ToolsDoneChat == ASSUME ChatInv, NEW c \in Callers, ToolsDone(c) PROVE ChatInv'
<1>1. /\ run[c] # Nothing /\ run[c].stage = "tools" /\ run' = [run EXCEPT ![c].stage = "assistant"]
      /\ UNCHANGED <<asked, answer, history, turn>>
  BY DEF ToolsDone, At, svars, searching
<1>2. asked[c] = Nothing /\ answer[c] = Nothing
  BY <1>1, RunOf DEF SearchOf
<1>3. QED BY <1>1, <1>2, StageChat

LEMMA CallRaisesChat == ASSUME SearchInv, ChatInv, NEW c \in Callers, CallRaises(c) PROVE ChatInv'
<1>1. Broken(c) /\ UNCHANGED <<asked, history, turn>> /\ (UNCHANGED answer \/ answer' = [answer EXCEPT ![c] = Nothing])
  BY DEF CallRaises
<1>2. \A d \in Callers \ {c} : answer'[d] = answer[d]
  BY <1>1 DEF SearchInv
<1>3. history' \in [Pages -> Seq(ChatMessage)]
  BY <1>1 DEF ChatInv, ChatTypeOK
<1>4. QED BY <1>1, <1>2, <1>3, BrokenChat

LEMMA AgentChat == ASSUME SearchInv, ChatInv, NEW c \in Callers, Agent(c) PROVE ChatInv'
<1>1. CASE AssistantRaises(c)
  BY <1>1, BrokenChat DEF AssistantRaises, ChatInv, ChatTypeOK, svars, searching
<1>2. QED BY <1>1, AssistantChat, CallSearchChat, CallRaisesChat, SearchReturnsChat, CallMCPChat,
             CallUnknownChat, ToolsDoneChat, OutputChat DEF Agent

\* A caller without a run searches by REST.
LEMMA RestChat ==
    ASSUME SearchInv, ChatInv, NEW c \in Callers, run[c] = Nothing, UNCHANGED <<history, run>>,
           \/ \E tenant \in Tenants, p \in RestParams : RestAsk(c, tenant, p) /\ turn' = turn + 1
           \/ RestAnswered(c) /\ UNCHANGED turn
    PROVE  ChatInv'
<1>1. history' \in [Pages -> Seq(ChatMessage)] /\ turn' \in Nat
  BY DEF ChatInv, ChatTypeOK
<1>2. \A d \in Callers \ {c} : asked'[d] = asked[d] /\ answer'[d] = answer[d]
  BY DEF RestAsk, Ask, RestAnswered, SearchInv
<1>3. PICK v : v = Nothing
  OBVIOUS
<1>4. run' = [run EXCEPT ![c] = v]
  BY <1>3 DEF ChatInv, ChatTypeOK
<1>5. QED BY <1>1, <1>2, <1>3, <1>4, RunStep

LEMMA QuietChat ==
    ASSUME ChatInv, UNCHANGED <<asked, answer, run, turn>>, history' \in [Pages -> Seq(ChatMessage)]
    PROVE  ChatInv'
BY DEF ChatInv, ChatTypeOK, SearchOf

-----------------------------------------------------------------------------
(* Every step                                                              *)

LEMMA CallSearchInv == ASSUME SearchInv, ChatInv, NEW c \in Callers, CallSearch(c) PROVE SearchInv'
<1>1. run[c] # Nothing /\ run[c].stage = "tools" /\ run[c].pending # <<>>
  BY DEF CallSearch, Calling, At
<1>2. run[c] \in Run /\ Talk(run[c])
  BY <1>1, RunOf
<1>3. PICK reply \in DOMAIN Said(run[c]) : Round(run[c], reply)
  BY <1>1, <1>2 DEF Talk
<1>4. ThisCall(run[c]) \in Call
  BY <1>1, <1>2, <1>3, ThisCallIs DEF Talk
<1>5. Injected(run[c], ThisCall(run[c])) \in Query
  BY <1>2, <1>4, InjectedType
<1>6. Ask(c, Injected(run[c], ThisCall(run[c]))) /\ UNCHANGED <<rows, cache, answer>>
  BY DEF CallSearch
<1>7. QED BY <1>5, <1>6, AskInv

\* A step that leaves the searches alone.
LEMMA UnsearchedInv == ASSUME SearchInv, UNCHANGED svars PROVE SearchInv'
BY DEF SearchInv, CallerInv, Progress, svars, searching

LEMMA AgentInv == ASSUME SearchInv, ChatInv, NEW c \in Callers, Agent(c) PROVE SearchInv'
<1>1. CASE CallRaises(c)
  <2>1. CASE UNCHANGED answer
    <3>1. UNCHANGED svars
      BY <1>1, <2>1 DEF CallRaises, svars, searching
    <3>2. QED BY <3>1, UnsearchedInv
  <2>2. CASE answer' = [answer EXCEPT ![c] = Nothing]
    BY <1>1, <2>2, TakenInv DEF CallRaises
  <2>3. QED BY <1>1, <2>1, <2>2 DEF CallRaises
<1>2. CASE SearchReturns(c)
  BY <1>2, TakenInv, Zenon DEF SearchReturns
<1>3. CASE Assistant(c) \/ AssistantRaises(c) \/ CallMCP(c) \/ CallUnknown(c) \/ ToolsDone(c) \/ Output(c)
  BY <1>3, UnsearchedInv, Zenon DEF Assistant, AssistantRaises, CallMCP, CallUnknown, ToolsDone, Output
<1>4. QED BY <1>1, <1>2, <1>3, CallSearchInv DEF Agent

LEMMA RestInv ==
    ASSUME SearchInv, NEW c \in Callers,
           RestAnswered(c) \/ \E tenant \in Tenants, p \in RestParams : RestAsk(c, tenant, p)
    PROVE  SearchInv'
<1>1. CASE RestAnswered(c)
  BY <1>1, TakenInv DEF RestAnswered
<1>2. ASSUME NEW tenant \in Tenants, NEW p \in RestParams, RestAsk(c, tenant, p) PROVE SearchInv'
  <2>. DEFINE q == [api |-> "rest", tenant |-> tenant, level |-> p.level, contract |-> Nothing,
                    text |-> p.text, kinds |-> p.kinds, where |-> p.where, custom |-> p.custom]
  <2>1. p \in Params
    BY SearchAssumption
  <2>2. q \in Query
    BY <2>1 DEF Params, Query
  <2>3. Ask(c, q) /\ UNCHANGED <<rows, cache, answer>>
    BY <1>2 DEF RestAsk
  <2>4. QED BY <2>2, <2>3, AskInv
<1>3. QED BY <1>1, <1>2

LEMMA StepInv == SearchInv /\ ChatInv /\ [CNext]_cvars => SearchInv' /\ ChatInv'
<1>. SUFFICES ASSUME SearchInv, ChatInv, [CNext]_cvars PROVE SearchInv' /\ ChatInv'
  OBVIOUS
<1>1. ASSUME NEW c \in Callers, NEW p \in Pages, NEW contract \in Selections, Submit(c, p, contract)
      PROVE  SearchInv' /\ ChatInv'
  BY <1>1, SubmitChat, UnsearchedInv DEF Submit
<1>2. ASSUME NEW c \in Callers, Agent(c) PROVE SearchInv' /\ ChatInv'
  BY <1>2, AgentInv, AgentChat
<1>3. ASSUME NEW c \in Callers, SearchStep(c), UNCHANGED chatting PROVE SearchInv' /\ ChatInv'
  BY <1>3, SearchStepInv, SearchStepChat
<1>4. ASSUME NEW c \in Callers, run[c] = Nothing, UNCHANGED <<history, run>>,
             \/ \E tenant \in Tenants, p \in RestParams : RestAsk(c, tenant, p) /\ turn' = turn + 1
             \/ RestAnswered(c) /\ UNCHANGED turn
      PROVE  SearchInv' /\ ChatInv'
  BY <1>4, RestInv, RestChat
<1>5. CASE (Expire \/ Store) /\ UNCHANGED chatting
  <2>1. UNCHANGED <<asked, answer, run, turn>> /\ history' \in [Pages -> Seq(ChatMessage)]
    BY <1>5 DEF Expire, Store, searching, chatting, ChatInv, ChatTypeOK
  <2>2. QED BY <1>5, <2>1, ElsewhereInv, QuietChat
<1>6. ASSUME NEW p \in Pages, Reset(p) PROVE SearchInv' /\ ChatInv'
  <2>1. UNCHANGED <<asked, answer, run, turn>> /\ UNCHANGED svars
    BY <1>6 DEF Reset, svars, searching
  <2>2. history' \in [Pages -> Seq(ChatMessage)]
    BY <1>6 DEF Reset, ChatInv, ChatTypeOK
  <2>3. QED BY <2>1, <2>2, UnsearchedInv, QuietChat
<1>7. CASE UNCHANGED cvars
  <2>1. UNCHANGED svars /\ UNCHANGED <<asked, answer, run, turn, history>>
    BY <1>7 DEF cvars, chatting, svars, searching
  <2>2. history' \in [Pages -> Seq(ChatMessage)]
    BY <2>1 DEF ChatInv, ChatTypeOK
  <2>3. QED BY <2>1, <2>2, UnsearchedInv, QuietChat
<1>8. ASSUME CNext PROVE SearchInv' /\ ChatInv'
  BY <1>1, <1>2, <1>3, <1>4, <1>5, <1>6, <1>8 DEF CNext
<1>9. QED BY <1>7, <1>8

\* The searches, the cache, the runs and what they still have to answer, in every
\* state of contract chat and the REST search.
THEOREM ChatIsInductive == CSpec => [](SearchInv /\ ChatInv)
<1>1. CInit => SearchInv /\ ChatInv
  BY CInitInv
<1>2. (SearchInv /\ ChatInv) /\ [CNext]_cvars => (SearchInv /\ ChatInv)'
  BY StepInv
<1>3. QED BY <1>1, <1>2, PTL DEF CSpec

-----------------------------------------------------------------------------
(* What a reader should know                                               *)

\* For any number of callers, rows, filters and queries, any cache and any time
\* an entry or a row comes or goes: an answer to a search that is not the chat's
\* model's own aggregation has rows of the asker's tenant only, of the contract
\* selected, of the kinds asked for and through its filters.
THEOREM AnswersAreAlwaysTheAskers == CSpec => []AnswersAreTheAskers
<1>1. SearchInv => AnswersAreTheAskers
  <2>1. SUFFICES ASSUME SearchInv, NEW c \in Callers, answer[c] \notin {Nothing, Error},
                        ~Aggregated(answer[c].q), NEW i \in DOMAIN answer[c].parts
                 PROVE  PartIsOf(answer[c].q, answer[c].parts[i])
    BY DEF AnswersAreTheAskers
  <2>2. answer[c] \in Result
    BY <2>1 DEF SearchInv, CallerInv
  <2>3. answer[c].parts \in Seq(PartsOf(answer[c].q))
    BY <2>2 DEF Result
  <2>4. answer[c].parts[i] \in PartsOf(answer[c].q)
    BY <2>1, <2>3, ElementOfSeq
  <2>5. QED BY <2>1, <2>4 DEF PartsOf
<1>2. QED BY <1>1, ChatIsInductive, PTL

\* Whatever the re-ranking model answers, indexes out of range, twice or not at
\* all, for any size of the pool and of a page: nothing is lost, repeated or
\* invented, and nothing comes before what scored more.
THEOREM RankingIsAlwaysHonest == CSpec => []RankingIsHonest
<1>1. SearchInv => RankingIsHonest
  <2>1. SUFFICES ASSUME SearchInv, NEW c \in Callers, NEW i \in DOMAIN found[c]
                 PROVE  Honest(found[c][i])
    BY DEF RankingIsHonest
  <2>2. found[c] \in Seq(PartsOf(asked[c]))
    BY <2>1 DEF SearchInv, CallerInv
  <2>3. found[c][i] \in PartsOf(asked[c])
    BY <2>1, <2>2, ElementOfSeq
  <2>4. QED BY <2>3 DEF PartsOf
<1>2. QED BY <1>1, ChatIsInductive, PTL

\* No failed search of a tool, but for chunks, and none of REST, but for all
\* levels at once, is in the cache for the next who asks.
THEOREM FailuresAreNeverCached == CSpec => []FailuresAreNotCached
<1>1. SearchInv => FailuresAreNotCached
  BY DEF SearchInv, EntryInv, FailuresAreNotCached
<1>2. QED BY <1>1, ChatIsInductive, PTL

\* The reply that ToolMessagesAnswerTheirCalls speaks of is the one of Answers.
LEMMA LastBefore ==
    ASSUME NEW said, NEW i \in Nat, NEW reply \in 1..i - 1, said[reply].by = "ai",
           \A k \in reply + 1..i - 1 : said[k].by # "ai"
    PROVE  (CHOOSE j \in 1..i - 1 : said[j].by = "ai" /\ \A k \in j + 1..i - 1 : said[k].by # "ai") = reply
<1>. DEFINE IsLast(j) == said[j].by = "ai" /\ \A k \in j + 1..i - 1 : said[k].by # "ai"
<1>1. IsLast(reply)
  OBVIOUS
<1>2. ASSUME NEW j \in 1..i - 1, IsLast(j) PROVE j = reply
  <2>1. CASE j < reply
    <3>1. reply \in j + 1..i - 1
      BY <2>1
    <3>2. QED BY <1>2, <3>1
  <2>2. CASE reply < j
    <3>1. j \in reply + 1..i - 1
      BY <2>2
    <3>2. QED BY <1>2, <3>1
  <2>3. QED BY <2>1, <2>2
<1>. HIDE DEF IsLast
<1>3. (CHOOSE j \in 1..i - 1 : IsLast(j)) = reply
  BY <1>1, <1>2
<1>4. QED BY <1>3 DEF IsLast

\* Whatever the model replies and however the runs of the pages interleave: the
\* answers a run is told are those of the calls of its last reply, in their order
\* and once each, of the tenant of its user and the contract selected unless the
\* model aggregated them itself.
THEOREM ToolMessagesAlwaysAnswerTheirCalls == CSpec => []ToolMessagesAnswerTheirCalls
<1>1. ChatInv => ToolMessagesAnswerTheirCalls
  <2>1. SUFFICES ASSUME ChatInv PROVE ToolMessagesAnswerTheirCalls
    OBVIOUS
  <2>2. ASSUME NEW c \in Callers, run[c] # Nothing, NEW i \in DOMAIN Said(run[c]), Said(run[c])[i].by = "tool"
        PROVE  LET said == Said(run[c])
                   reply == CHOOSE j \in 1..i - 1 :
                               said[j].by = "ai" /\ \A k \in j + 1..i - 1 : said[k].by # "ai"
                   calls == said[reply].calls
               IN  /\ \A j \in 1..said[i].of : \/ calls[j].tool = "unknown"
                                               \/ \E k \in reply + 1..i : said[k].of = j
                   /\ \A k \in reply + 1..i - 1 : said[k].of < said[i].of
                   /\ AnswersCall(said[i].answer, calls[said[i].of], run[c])
    <3>1. run[c] \in Run /\ Talk(run[c])
      BY <2>1, <2>2, RunOf
    <3>2. Answers(Said(run[c]), i, run[c])
      BY <2>2, <3>1 DEF Talk
    <3>3. i \in Nat
      BY <2>2, <3>1, SaidProperties DEF Talk
    <3>4. PICK reply \in 1..i - 1 :
            /\ Said(run[c])[reply].by = "ai" /\ \A k \in reply + 1..i - 1 : Said(run[c])[k].by # "ai"
            /\ \A j \in 1..Said(run[c])[i].of :
                  \/ Said(run[c])[reply].calls[j].tool = "unknown"
                  \/ \E k \in reply + 1..i : Said(run[c])[k].of = j
            /\ \A k \in reply + 1..i - 1 : Said(run[c])[k].of < Said(run[c])[i].of
            /\ AnswersCall(Said(run[c])[i].answer, Said(run[c])[reply].calls[Said(run[c])[i].of], run[c])
      BY <3>2 DEF Answers
    <3>5. (CHOOSE j \in 1..i - 1 : /\ Said(run[c])[j].by = "ai"
                                   /\ \A k \in j + 1..i - 1 : Said(run[c])[k].by # "ai") = reply
      BY <3>3, <3>4, LastBefore
    <3>6. QED BY <3>4, <3>5, Zenon
  <2>3. QED BY <2>2, Zenon DEF ToolMessagesAnswerTheirCalls, AnswersCall
<1>2. QED BY <1>1, ChatIsInductive, PTL

-----------------------------------------------------------------------------
(* Recursive functions                                                     *)

LEMMA Upwards ==
    ASSUME NEW N \in Nat, NEW S, 0 \in S,
           \A n \in 1..N : n - 1 \in S => n \in S
    PROVE  0..N \subseteq S
<1>. DEFINE I == {n \in 0..N : n \notin S}
<1>1. SUFFICES ASSUME I # {} PROVE FALSE
  OBVIOUS
<1>2. I \subseteq Nat
  OBVIOUS
<1>3. PICK n \in I : \A m \in I : n <= m
  <2>. HIDE DEF I
  <2>. QED BY <1>1, <1>2, HasFirst
<1>4. n \in 1..N /\ n - 1 \in 0..N
  OBVIOUS
<1>5. n - 1 \notin I
  <2>. HIDE DEF I
  <2>. QED BY <1>2, <1>3
<1>6. QED BY <1>4, <1>5

Computes(f, N, X, x, step) ==
    f \in [0..N -> X] /\ f[0] = x /\ \A n \in 1..N : f[n] = step[n][f[n - 1]]

\* What is computed from `x` in steps, one after the other.
LEMMA Loop ==
    ASSUME NEW N \in Nat, NEW X, NEW x \in X, NEW step,
           \A n \in 1..N, y \in X : step[n][y] \in X
    PROVE  \E f : Computes(f, N, X, x, step)
<1>. DEFINE Runs(n, f) == f[0] = x /\ \A m \in 1..n : f[m] = step[m][f[m - 1]]
            S == {n \in 0..N : \E f \in [0..n -> X] : Runs(n, f)}
<1>1. 0 \in S
  <2>1. Runs(0, [m \in 0..0 |-> x]) /\ [m \in 0..0 |-> x] \in [0..0 -> X]
    OBVIOUS
  <2>. HIDE DEF Runs
  <2>2. QED BY <2>1
<1>2. ASSUME NEW n \in 1..N, n - 1 \in S PROVE n \in S
  <2>1. PICK f \in [0..n - 1 -> X] : Runs(n - 1, f)
    BY <1>2
  <2>. DEFINE g == [m \in 0..n |-> IF m = n THEN step[n][f[n - 1]] ELSE f[m]]
  <2>2. f[n - 1] \in X /\ step[n][f[n - 1]] \in X
    OBVIOUS
  <2>3. g \in [0..n -> X]
    BY <2>2
  <2>4. g[0] = x /\ g[n] = step[n][f[n - 1]] /\ \A m \in 0..n - 1 : g[m] = f[m]
    BY <2>1
  <2>5. ASSUME NEW m \in 1..n PROVE g[m] = step[m][g[m - 1]]
    <3>1. CASE m = n
      <4>. HIDE DEF g
      <4>. QED BY <2>4, <3>1
    <3>2. CASE m # n
      <4>1. m \in 1..n - 1 /\ m \in 0..n - 1 /\ m - 1 \in 0..n - 1
        BY <3>2
      <4>. HIDE DEF g
      <4>2. QED BY <2>1, <2>4, <4>1
    <3>3. QED BY <3>1, <3>2
  <2>6. Runs(n, g)
    <3>. HIDE DEF g
    <3>. QED BY <2>4, <2>5
  <2>7. n \in 0..N
    OBVIOUS
  <2>. HIDE DEF Runs, g
  <2>8. QED BY <2>3, <2>6, <2>7
<1>3. N \in S
  <2>. HIDE DEF S
  <2>1. 0..N \subseteq S
    BY <1>1, <1>2, Upwards
  <2>2. QED BY <2>1
<1>4. QED BY <1>3 DEF Computes

\* Sequences are what appending makes of the empty one.
LEMMA ByAppending ==
    ASSUME NEW A, NEW S, <<>> \in S,
           \A s \in Seq(A), a \in A : s \in S => Append(s, a) \in S
    PROVE  Seq(A) \subseteq S
<1>. SUFFICES ASSUME NEW s \in Seq(A) PROVE s \in S
  OBVIOUS
<1>. DEFINE I == {n \in 0..Len(s) : SubSeq(s, 1, n) \in S}
<1>1. 0 \in I
  <2>1. SubSeq(s, 1, 0) = <<>>
    BY SubSeqEmpty
  <2>2. SubSeq(s, 1, 0) \in S
    BY <2>1, Zenon
  <2>3. 0 \in 0..Len(s)
    OBVIOUS
  <2>4. QED BY <2>2, <2>3
<1>2. ASSUME NEW n \in 1..Len(s), n - 1 \in I PROVE n \in I
  <2>1. SubSeq(s, 1, n - 1) \in S /\ SubSeq(s, 1, n - 1) \in Seq(A) /\ s[n] \in A
    BY <1>2
  <2>2. SubSeq(s, 1, n) = Append(SubSeq(s, 1, n - 1), s[n])
    OBVIOUS
  <2>3. SubSeq(s, 1, n) \in S
    <3>. DEFINE b == SubSeq(s, 1, n - 1)
                a == s[n]
    <3>1. b \in Seq(A) /\ a \in A /\ b \in S
      BY <2>1
    <3>. HIDE DEF a, b
    <3>2. Append(b, a) \in S
      BY <3>1
    <3>3. QED BY <2>2, <3>2 DEF a, b
  <2>4. QED BY <2>3
<1>3. Len(s) \in I
  <2>. HIDE DEF I
  <2>1. Len(s) \in Nat
    OBVIOUS
  <2>2. 0..Len(s) \subseteq I
    BY <1>1, <1>2, <2>1, Upwards
  <2>3. QED BY <2>1, <2>2
<1>4. SubSeq(s, 1, Len(s)) = s
  OBVIOUS
<1>5. QED BY <1>3, <1>4

LEMMA ASequence ==
    ASSUME NEW A, NEW n \in Nat, NEW s, s \in [1..n -> A]
    PROVE  s \in Seq(A) /\ Len(s) = n /\ DOMAIN s = 1..n
OBVIOUS

Associated(s, t, u) == (s \o t) \o u = s \o (t \o u)

LEMMA Associates ==
    ASSUME NEW A, NEW s \in Seq(A), NEW t \in Seq(A), NEW u \in Seq(A)
    PROVE  Associated(s, t, u)
BY DEF Associated

-----------------------------------------------------------------------------
(* Sequences of sequences                                                  *)

LEMMA FlattenedStepByStep ==
    ASSUME NEW A, NEW ss \in Seq(Seq(A)), NEW f \in [0..Len(ss) -> Seq(A)],
           f[0] = <<>>, \A n \in 1..Len(ss) : f[n] = f[n - 1] \o ss[n]
    PROVE  FlattenSeq(ss) = f[Len(ss)]
<1>1. CASE Len(ss) = 0
  BY <1>1 DEF FlattenSeq
<1>2. CASE Len(ss) # 0
  <2>. DEFINE Is(g) == g = [i \in 1..Len(ss) |-> IF i = 1 THEN ss[i] ELSE g[i - 1] \o ss[i]]
              h == [i \in 1..Len(ss) |-> f[i]]
              flat == CHOOSE g : Is(g)
  <2>1. FlattenSeq(ss) = flat[Len(ss)]
    BY <1>2 DEF FlattenSeq
  <2>2. Is(h)
    <3>1. ASSUME NEW i \in 1..Len(ss) PROVE h[i] = IF i = 1 THEN ss[i] ELSE h[i - 1] \o ss[i]
      <4>1. CASE i = 1
        <5>1. 1 \in 1..Len(ss) /\ 1 - 1 = 0
          BY <4>1
        <5>2. f[1] = f[1 - 1] \o ss[1]
          BY <5>1
        <5>3. <<>> \o ss[1] = ss[1]
          BY <5>1
        <5>4. QED BY <4>1, <5>1, <5>2, <5>3
      <4>2. CASE i # 1
        <5>a. i - 1 \in 1..Len(ss)
          BY <4>2
        <5>1. f[i] = f[i - 1] \o ss[i]
          <6>. HIDE DEF h
          <6>. QED OBVIOUS
        <5>2. h[i - 1] = f[i - 1] /\ h[i] = f[i]
          BY <5>a
        <5>. HIDE DEF h
        <5>3. QED BY <4>2, <5>1, <5>2
      <4>3. QED BY <4>1, <4>2
    <3>2. h = [i \in 1..Len(ss) |-> IF i = 1 THEN ss[i] ELSE h[i - 1] \o ss[i]]
      BY <3>1
    <3>3. QED BY <3>2
  <2>3. Is(flat)
    <3>. HIDE DEF Is, h
    <3>. QED BY <2>2
  <2>. DEFINE S == {n \in 0..Len(ss) : n = 0 \/ flat[n] = f[n]}
  <2>4. 0 \in S
    OBVIOUS
  <2>5. ASSUME NEW n \in 1..Len(ss), n - 1 \in S PROVE n \in S
    <3>1. flat[n] = IF n = 1 THEN ss[n] ELSE flat[n - 1] \o ss[n]
      <4>. HIDE DEF flat
      <4>. QED BY <2>3
    <3>2. h[n] = IF n = 1 THEN ss[n] ELSE h[n - 1] \o ss[n]
      <4>. HIDE DEF h
      <4>. QED BY <2>2
    <3>. HIDE DEF flat
    <3>3. n # 1 => flat[n - 1] = f[n - 1] /\ h[n - 1] = f[n - 1]
      BY <2>5
    <3>4. h[n] = f[n]
      OBVIOUS
    <3>. HIDE DEF h
    <3>5. flat[n] = f[n]
      BY <3>1, <3>2, <3>3, <3>4
    <3>6. QED BY <3>5
  <2>6. Len(ss) \in S
    <3>. HIDE DEF S
    <3>1. Len(ss) \in Nat
      OBVIOUS
    <3>2. 0..Len(ss) \subseteq S
      BY <2>4, <2>5, <3>1, Upwards
    <3>3. QED BY <3>1, <3>2
  <2>7. QED BY <1>2, <2>1, <2>6
<1>3. QED BY <1>1, <1>2

\* FlattenSeq, by what it makes of the empty sequence and of one that is longer by one.
LEMMA FlattenIsARecursion ==
    ASSUME NEW A
    PROVE  /\ FlattenSeq(<<>>) = <<>>
           /\ \A ss \in Seq(Seq(A)), s \in Seq(A) :
                 /\ FlattenSeq(ss) \in Seq(A)
                 /\ FlattenSeq(Append(ss, s)) = FlattenSeq(ss) \o s
<1>1. FlattenSeq(<<>>) = <<>>
  BY DEF FlattenSeq
<1>2. ASSUME NEW ss \in Seq(Seq(A)), NEW s \in Seq(A)
      PROVE  /\ FlattenSeq(ss) \in Seq(A)
             /\ FlattenSeq(Append(ss, s)) = FlattenSeq(ss) \o s
  <2>. DEFINE all == Append(ss, s)
              N == Len(ss) + 1
              step == [n \in 1..N |-> [t \in Seq(A) |-> t \o all[n]]]
  <2>1. all \in Seq(Seq(A)) /\ Len(all) = N /\ N \in Nat /\ all[N] = s
        /\ \A n \in 1..Len(ss) : all[n] = ss[n]
    OBVIOUS
  <2>2. \A n \in 1..N, t \in Seq(A) : step[n][t] \in Seq(A)
    <3>1. ASSUME NEW n \in 1..N, NEW t \in Seq(A) PROVE t \o all[n] \in Seq(A)
      <4>. HIDE DEF all
      <4>1. all[n] \in Seq(A)
        BY <2>1
      <4>2. QED BY <4>1
    <3>. HIDE DEF all
    <3>2. QED BY <3>1
  <2>3. PICK f \in [0..N -> Seq(A)] : f[0] = <<>> /\ \A n \in 1..N : f[n] = step[n][f[n - 1]]
    <3>1. <<>> \in Seq(A)
      OBVIOUS
    <3>. HIDE DEF N, step
    <3>2. \E f : Computes(f, N, Seq(A), <<>>, step)
      BY <2>1, <2>2, <3>1, Loop
    <3>3. QED BY <3>2 DEF Computes
  <2>4. ASSUME NEW n \in 1..N PROVE f[n] = f[n - 1] \o all[n]
    <3>1. f[n - 1] \in Seq(A) /\ f[n] = step[n][f[n - 1]]
      <4>. HIDE DEF step, N
      <4>1. n - 1 \in 0..N
        BY <2>1
      <4>2. QED BY <2>3, <4>1
    <3>. HIDE DEF all
    <3>2. QED BY <3>1
  <2>5. FlattenSeq(all) = f[N]
    <3>. HIDE DEF all, N, step
    <3>. QED BY <2>1, <2>3, <2>4, FlattenedStepByStep
  <2>. DEFINE g == [n \in 0..Len(ss) |-> f[n]]
  <2>6. g \in [0..Len(ss) -> Seq(A)] /\ g[0] = <<>> /\ g[Len(ss)] = f[N - 1]
    BY <2>3
  <2>7. ASSUME NEW n \in 1..Len(ss) PROVE g[n] = g[n - 1] \o ss[n]
    <3>1. g[n] = f[n] /\ g[n - 1] = f[n - 1] /\ n \in 1..N
      OBVIOUS
    <3>. HIDE DEF all, N, step, g
    <3>2. QED BY <2>1, <2>4, <3>1
  <2>8. FlattenSeq(ss) = g[Len(ss)]
    <3>. HIDE DEF g
    <3>. QED BY <2>6, <2>7, FlattenedStepByStep
  <2>9. g[Len(ss)] \in Seq(A)
    <3>. HIDE DEF g
    <3>. QED BY <2>6
  <2>10. f[N] = f[N - 1] \o s
    <3>1. N \in 1..N
      OBVIOUS
    <3>. HIDE DEF all, N
    <3>2. QED BY <2>1, <2>4, <3>1
  <2>. HIDE DEF g, N, step, all
  <2>11. QED BY <2>5, <2>6, <2>8, <2>9, <2>10 DEF all
<1>3. QED BY <1>1, <1>2

Mapped(h, s) == [i \in DOMAIN s |-> h[s[i]]]

LEMMA MappedIsASequence ==
    ASSUME NEW A, NEW h, NEW B, \A a \in A : h[a] \in B, NEW s \in Seq(A)
    PROVE  /\ Mapped(h, s) \in Seq(B) /\ Len(Mapped(h, s)) = Len(s)
           /\ \A i \in 1..Len(s) : Mapped(h, s)[i] = h[s[i]]
<1>1. Mapped(h, s) = [i \in 1..Len(s) |-> h[s[i]]]
  BY DEF Mapped
<1>2. \A i \in 1..Len(s) : h[s[i]] \in B
  OBVIOUS
<1>3. Mapped(h, s) \in [1..Len(s) -> B] /\ Len(s) \in Nat
  BY <1>1, <1>2
<1>4. QED BY <1>1, <1>3

LEMMA MappedEmpty == \A h : Mapped(h, <<>>) = <<>>
<1>1. ASSUME NEW h PROVE Mapped(h, <<>>) = <<>>
  <2>1. Mapped(h, <<>>) \in Seq({}) /\ Len(Mapped(h, <<>>)) = Len(<<>>)
    <3>1. <<>> \in Seq({}) /\ \A a \in {} : h[a] \in {}
      OBVIOUS
    <3>2. PICK e \in Seq({}) : e = <<>>
      BY <3>1
    <3>3. Mapped(h, e) \in Seq({}) /\ Len(Mapped(h, e)) = Len(e)
      BY MappedIsASequence
    <3>4. QED BY <3>2, <3>3
  <2>2. QED BY <2>1, EmptySeq
<1>2. QED BY <1>1

LEMMA MappedAppend ==
    ASSUME NEW A, NEW h, NEW s \in Seq(A), NEW a \in A
    PROVE  Mapped(h, Append(s, a)) = Append(Mapped(h, s), h[a])
<1>. DEFINE B == {h[x] : x \in A}
<1>2. ASSUME NEW t \in Seq(A)
      PROVE  /\ Mapped(h, t) \in Seq(B) /\ Len(Mapped(h, t)) = Len(t)
             /\ \A i \in 1..Len(t) : Mapped(h, t)[i] = h[t[i]]
  <2>1. \A x \in A : h[x] \in B
    OBVIOUS
  <2>. HIDE DEF B
  <2>2. Mapped(h, t) \in Seq(B) /\ Len(Mapped(h, t)) = Len(t)
    BY <2>1, MappedIsASequence, ZenonT(30)
  <2>3. \A i \in 1..Len(t) : Mapped(h, t)[i] = h[t[i]]
    BY DEF Mapped
  <2>4. QED BY <2>2, <2>3
<1>. DEFINE t == Append(s, a)
<1>3. t \in Seq(A) /\ Len(t) = Len(s) + 1 /\ t[Len(s) + 1] = a
      /\ \A i \in 1..Len(s) : t[i] = s[i]
  OBVIOUS
<1>. HIDE DEF t
<1>4. h[a] \in B
  OBVIOUS
<1>. HIDE DEF B
<1>5. PICK u \in Seq(B), v \in Seq(B), b \in B : u = Mapped(h, t) /\ v = Mapped(h, s) /\ b = h[a]
  BY <1>2, <1>3, <1>4
<1>6. /\ Len(u) = Len(s) + 1 /\ Len(v) = Len(s) /\ u[Len(s) + 1] = b
      /\ \A i \in 1..Len(s) : u[i] = v[i]
  <2>1. /\ Len(u) = Len(t) /\ \A i \in 1..Len(t) : u[i] = h[t[i]]
    BY <1>2, <1>3, <1>5
  <2>2. /\ Len(v) = Len(s) /\ \A i \in 1..Len(s) : v[i] = h[s[i]]
    BY <1>2, <1>5
  <2>3. QED BY <1>3, <1>5, <2>1, <2>2
<1>7. Append(v, b) \in Seq(B) /\ Len(Append(v, b)) = Len(s) + 1 /\ Append(v, b)[Len(s) + 1] = b
      /\ \A i \in 1..Len(s) : Append(v, b)[i] = v[i]
  BY <1>6
<1>8. \A i \in 1..Len(u) : u[i] = Append(v, b)[i]
  BY <1>6, <1>7
<1>9. u = Append(v, b)
  BY <1>6, <1>7, <1>8, SeqEqual
<1>10. QED BY <1>5, <1>9 DEF t

\* FlattenSeq of what a function that keeps concatenation makes of each sequence.
LEMMA FlattenMapped ==
    ASSUME NEW A, NEW B, NEW h \in [Seq(A) -> Seq(B)], h[<<>>] = <<>>,
           \A s, t \in Seq(A) : h[s \o t] = h[s] \o h[t],
           NEW all \in Seq(Seq(A))
    PROVE  FlattenSeq(Mapped(h, all)) = h[FlattenSeq(all)]
<1>. DEFINE S == {ss \in Seq(Seq(A)) : FlattenSeq(Mapped(h, ss)) = h[FlattenSeq(ss)]}
            T == Seq(A)
            U == Seq(B)
<1>a. \A ss \in Seq(T) : Mapped(h, ss) \in Seq(U)
  <2>1. \A s \in T : h[s] \in U
    OBVIOUS
  <2>. HIDE DEF T, U
  <2>2. QED BY <2>1, MappedIsASequence
<1>1. <<>> \in S
  <2>1. Mapped(h, <<>>) = <<>>
    BY MappedEmpty
  <2>2. FlattenSeq(<<>>) = <<>>
    BY FlattenIsARecursion
  <2>3. <<>> \in Seq(Seq(A))
    OBVIOUS
  <2>4. FlattenSeq(Mapped(h, <<>>)) = h[FlattenSeq(<<>>)]
    BY <2>1, <2>2, Zenon
  <2>5. QED BY <2>3, <2>4
<1>2. ASSUME NEW ss \in Seq(T), NEW s \in T, ss \in S PROVE Append(ss, s) \in S
  <2>1. Mapped(h, Append(ss, s)) = Append(Mapped(h, ss), h[s])
    <3>. HIDE DEF T, U
    <3>. QED BY MappedAppend
  <2>2. Mapped(h, ss) \in Seq(Seq(B)) /\ h[s] \in Seq(B)
    BY <1>a
  <2>3. FlattenSeq(Mapped(h, Append(ss, s))) = FlattenSeq(Mapped(h, ss)) \o h[s]
    BY <2>1, <2>2, FlattenIsARecursion, Zenon
  <2>4. FlattenSeq(Append(ss, s)) = FlattenSeq(ss) \o s /\ FlattenSeq(ss) \in Seq(A)
    BY FlattenIsARecursion
  <2>5. FlattenSeq(Mapped(h, ss)) = h[FlattenSeq(ss)]
    BY <1>2
  <2>6. h[FlattenSeq(ss) \o s] = h[FlattenSeq(ss)] \o h[s]
    BY <2>4
  <2>7. Append(ss, s) \in Seq(Seq(A))
    OBVIOUS
  <2>8. FlattenSeq(Mapped(h, Append(ss, s))) = h[FlattenSeq(Append(ss, s))]
    BY <2>3, <2>4, <2>5, <2>6, Zenon
  <2>9. QED BY <2>7, <2>8
<1>3. Seq(T) \subseteq S
  <2>. HIDE DEF S, T
  <2>. QED BY <1>1, <1>2, ByAppending
<1>4. QED BY <1>3

LEMMA FlattenConcatenates ==
    ASSUME NEW A, NEW ss \in Seq(Seq(A)), NEW tt \in Seq(Seq(A))
    PROVE  FlattenSeq(ss \o tt) = FlattenSeq(ss) \o FlattenSeq(tt)
<1>. DEFINE T == Seq(A)
            S == {uu \in Seq(T) : FlattenSeq(ss \o uu) = FlattenSeq(ss) \o FlattenSeq(uu)}
<1>1. FlattenSeq(ss) \in Seq(A)
  BY FlattenIsARecursion
<1>2. <<>> \in S
  <2>1. FlattenSeq(<<>>) = <<>>
    BY FlattenIsARecursion
  <2>2. ss \o <<>> = ss /\ FlattenSeq(ss) \o <<>> = FlattenSeq(ss)
    BY <1>1, ConcatEmptySeq
  <2>3. FlattenSeq(ss \o <<>>) = FlattenSeq(ss) \o FlattenSeq(<<>>)
    BY <2>1, <2>2, Zenon
  <2>4. <<>> \in Seq(T)
    OBVIOUS
  <2>5. QED BY <2>3, <2>4
<1>3. ASSUME NEW uu \in Seq(T), NEW u \in T, uu \in S PROVE Append(uu, u) \in S
  <2>1. ss \o uu \in Seq(Seq(A)) /\ ss \o Append(uu, u) = Append(ss \o uu, u)
    <3>1. uu \in Seq(T) /\ ss \in Seq(T) /\ u \in T
      OBVIOUS
    <3>. HIDE DEF T
    <3>2. ss \o uu \in Seq(T) /\ ss \o Append(uu, u) = Append(ss \o uu, u)
      BY <3>1
    <3>3. QED BY <3>2 DEF T
  <2>2. FlattenSeq(Append(ss \o uu, u)) = FlattenSeq(ss \o uu) \o u
    BY <2>1, FlattenIsARecursion
  <2>3. FlattenSeq(Append(uu, u)) = FlattenSeq(uu) \o u /\ FlattenSeq(uu) \in Seq(A)
    BY FlattenIsARecursion
  <2>4. FlattenSeq(ss \o uu) = FlattenSeq(ss) \o FlattenSeq(uu)
    BY <1>3
  <2>5. (FlattenSeq(ss) \o FlattenSeq(uu)) \o u = FlattenSeq(ss) \o (FlattenSeq(uu) \o u)
    <3>1. PICK v \in Seq(A), w \in Seq(A) : v = FlattenSeq(ss) /\ w = FlattenSeq(uu)
      BY <1>1, <2>3
    <3>2. (v \o w) \o u = v \o (w \o u)
      BY ConcatAssociative, SMTT(30)
    <3>3. QED BY <3>1, <3>2
  <2>6. FlattenSeq(ss \o Append(uu, u)) = FlattenSeq(ss) \o FlattenSeq(Append(uu, u))
    BY <2>1, <2>2, <2>3, <2>4, <2>5, Zenon
  <2>7. Append(uu, u) \in Seq(T)
    OBVIOUS
  <2>8. QED BY <2>6, <2>7
<1>4. Seq(T) \subseteq S
  <2>. HIDE DEF S, T
  <2>. QED BY <1>2, <1>3, ByAppending
<1>5. QED BY <1>4

\* One item each, they are the items.
LEMMA FlattenOfSingles ==
    ASSUME NEW A, NEW s \in Seq(A), NEW single, single = [a \in A |-> <<a>>]
    PROVE  Mapped(single, s) \in Seq(Seq(A)) /\ FlattenSeq(Mapped(single, s)) = s
<1>. DEFINE T == Seq(A)
            S == {t \in Seq(A) : FlattenSeq(Mapped(single, t)) = t}
<1>1. \A a \in A : single[a] \in T
  OBVIOUS
<1>2. \A t \in Seq(A) : Mapped(single, t) \in Seq(T)
  <2>. HIDE DEF T
  <2>. QED BY <1>1, MappedIsASequence
<1>3. <<>> \in S
  <2>1. Mapped(single, <<>>) = <<>>
    BY MappedEmpty
  <2>2. FlattenSeq(<<>>) = <<>>
    BY FlattenIsARecursion
  <2>3. FlattenSeq(Mapped(single, <<>>)) = <<>> /\ <<>> \in Seq(A)
    BY <2>1, <2>2
  <2>4. QED BY <2>3
<1>4. ASSUME NEW t \in Seq(A), NEW a \in A, t \in S PROVE Append(t, a) \in S
  <2>1. Mapped(single, Append(t, a)) = Append(Mapped(single, t), <<a>>)
    <3>. HIDE DEF T
    <3>1. Mapped(single, Append(t, a)) = Append(Mapped(single, t), single[a])
      BY MappedAppend
    <3>2. single[a] = <<a>>
      OBVIOUS
    <3>3. QED BY <3>1, <3>2
  <2>2. Mapped(single, t) \in Seq(Seq(A)) /\ <<a>> \in Seq(A)
    BY <1>2
  <2>3. FlattenSeq(Append(Mapped(single, t), <<a>>)) = FlattenSeq(Mapped(single, t)) \o <<a>>
    BY <2>2, FlattenIsARecursion
  <2>4. FlattenSeq(Mapped(single, t)) = t
    BY <1>4
  <2>5. t \o <<a>> = Append(t, a) /\ Append(t, a) \in Seq(A)
    OBVIOUS
  <2>6. FlattenSeq(Mapped(single, Append(t, a))) = Append(t, a)
    BY <2>1, <2>3, <2>4, <2>5, Zenon
  <2>7. QED BY <2>5, <2>6
<1>5. Seq(A) \subseteq S
  <2>. HIDE DEF S
  <2>. QED BY <1>3, <1>4, ByAppending
<1>6. QED BY <1>2, <1>5

-----------------------------------------------------------------------------
(* Cutting and putting together                                            *)

\* All but the last of some sequences, and the last one longer.
LEMMA LongerLast ==
    ASSUME NEW A, NEW ss \in Seq(Seq(A)), ss # <<>>, NEW t \in Seq(A)
    PROVE  LET longer == Append(Front(ss), Last(ss) \o t) IN
           /\ longer \in Seq(Seq(A)) /\ longer # <<>>
           /\ FlattenSeq(longer) = FlattenSeq(ss) \o t
<1>. DEFINE T == Seq(A)
<1>1. PICK f \in Seq(T), l \in T : f = Front(ss) /\ l = Last(ss) /\ ss = Append(f, l)
  <2>1. ss \in Seq(T) /\ Len(ss) >= 1 /\ Len(ss) \in 1..Len(ss)
    OBVIOUS
  <2>. HIDE DEF T
  <2>2. SubSeq(ss, 1, Len(ss)) = SubSeq(ss, 1, Len(ss) - 1) \o <<ss[Len(ss)]>>
    <3>1. 1 \in 1..Len(ss) /\ Len(ss) \in 1..Len(ss)
      BY <2>1
    <3>2. QED BY <2>1, <3>1, SubSeqRecursiveSecond
  <2>3. SubSeq(ss, 1, Len(ss)) = ss
    BY <2>1, SubSeqFull
  <2>4. Front(ss) \in Seq(T) /\ Last(ss) \in T
    BY <2>1 DEF Front, Last
  <2>5. Front(ss) \o <<Last(ss)>> = Append(Front(ss), Last(ss))
    BY <2>4, SMTT(30)
  <2>6. ss = Append(Front(ss), Last(ss))
    BY <2>2, <2>3, <2>5 DEF Front, Last
  <2>7. QED BY <2>4, <2>6
<1>2. FlattenSeq(ss) = FlattenSeq(f) \o l /\ FlattenSeq(f) \in Seq(A)
  BY <1>1, FlattenIsARecursion
<1>3. l \o t \in Seq(A)
  OBVIOUS
<1>4. FlattenSeq(Append(f, l \o t)) = FlattenSeq(f) \o (l \o t)
  BY <1>3, FlattenIsARecursion
<1>5. FlattenSeq(f) \o (l \o t) = (FlattenSeq(f) \o l) \o t
  <2>1. PICK u \in Seq(A), v \in Seq(A) : u = FlattenSeq(f) /\ v = l
    BY <1>2
  <2>. HIDE DEF T
  <2>2. Associated(u, v, t)
    BY Associates
  <2>3. QED BY <2>1, <2>2 DEF Associated
<1>6. Append(f, l \o t) \in Seq(T) /\ Append(f, l \o t) # <<>>
  <2>1. PICK u \in T : u = l \o t
    BY <1>3
  <2>. HIDE DEF T
  <2>2. Append(f, u) \in Seq(T) /\ Len(Append(f, u)) = Len(f) + 1 /\ Len(f) \in Nat
    OBVIOUS
  <2>3. PICK g \in Seq(T) : g = Append(f, u)
    BY <2>2
  <2>0. PICK n \in Nat : n = Len(f) /\ Len(g) = n + 1
    BY <2>2, <2>3, Zenon
  <2>4. g # <<>>
    <3>1. Len(g) # 0
      BY <2>0
    <3>2. QED BY <3>1
  <2>5. QED BY <2>1, <2>3, <2>4
<1>7. QED BY <1>1, <1>2, <1>4, <1>5, <1>6

\* Each item begins a sequence or is added to the last one.
Joins(f, items) ==
    /\ f[0] = <<>>
    /\ \A n \in 1..Len(items) :
         \/ f[n] = Append(f[n - 1], items[n])
         \/ n # 1 /\ f[n] = Append(Front(f[n - 1]), Last(f[n - 1]) \o items[n])

LEMMA JoiningLosesNothing ==
    ASSUME NEW A, NEW items \in Seq(Seq(A)), NEW f, Joins(f, items)
    PROVE  f[Len(items)] \in Seq(Seq(A)) /\ FlattenSeq(f[Len(items)]) = FlattenSeq(items)
<1>. DEFINE T == Seq(A)
            upto(n) == SubSeq(items, 1, n)
            S == {n \in 0..Len(items) : /\ f[n] \in Seq(T) /\ (n # 0 => f[n] # <<>>)
                                        /\ FlattenSeq(f[n]) = FlattenSeq(upto(n))}
<1>1. 0 \in S
  <2>1. f[0] = <<>> /\ upto(0) = <<>>
    BY SubSeqEmpty DEF Joins
  <2>2. f[0] \in Seq(T) /\ 0 \in 0..Len(items)
    BY <2>1
  <2>3. FlattenSeq(f[0]) = FlattenSeq(upto(0))
    BY <2>1, Zenon
  <2>4. QED BY <2>2, <2>3
<1>2. ASSUME NEW n \in 1..Len(items), n - 1 \in S PROVE n \in S
  <2>1. PICK b \in Seq(T), item \in T, u \in Seq(T) :
            b = f[n - 1] /\ item = items[n] /\ u = upto(n - 1)
    <3>1. f[n - 1] \in Seq(T)
      BY <1>2
    <3>2. items[n] \in T
      OBVIOUS
    <3>3. upto(n - 1) \in Seq(T)
      <4>1. items \in Seq(T)
        OBVIOUS
      <4>. HIDE DEF T
      <4>2. QED BY <4>1
    <3>4. QED BY <3>1, <3>2, <3>3
  <2>2. FlattenSeq(b) = FlattenSeq(u) /\ (n # 1 => b # <<>>)
    BY <1>2, <2>1
  <2>3. upto(n) = Append(u, item)
    <3>1. items \in Seq(T)
      OBVIOUS
    <3>. HIDE DEF T
    <3>2. SubSeq(items, 1, n) = Append(SubSeq(items, 1, n - 1), items[n])
      BY <3>1
    <3>3. QED BY <2>1, <3>2
  <2>4. FlattenSeq(Append(u, item)) = FlattenSeq(u) \o item
    BY FlattenIsARecursion
  <2>5. /\ f[n] \in Seq(T) /\ f[n] # <<>>
        /\ FlattenSeq(f[n]) = FlattenSeq(b) \o item
    <3>1. CASE f[n] = Append(b, item)
      <4>1. FlattenSeq(Append(b, item)) = FlattenSeq(b) \o item
        BY FlattenIsARecursion
      <4>2. Append(b, item) \in Seq(T) /\ Append(b, item) # <<>>
        <5>. HIDE DEF T
        <5>. QED BY AppendProperties
      <4>3. QED BY <3>1, <4>1, <4>2, Zenon
    <3>2. CASE n # 1 /\ f[n] = Append(Front(b), Last(b) \o item)
      <4>. DEFINE longer == Append(Front(b), Last(b) \o item)
      <4>1. longer \in Seq(T) /\ longer # <<>> /\ FlattenSeq(longer) = FlattenSeq(b) \o item
        BY <2>2, <3>2, LongerLast
      <4>. HIDE DEF longer
      <4>2. f[n] = longer
        BY <3>2 DEF longer
      <4>3. QED BY <4>1, <4>2, Zenon
    <3>3. QED BY <2>1, <3>1, <3>2 DEF Joins
  <2>6. FlattenSeq(f[n]) = FlattenSeq(upto(n))
    BY <2>2, <2>3, <2>4, <2>5, Zenon
  <2>7. n \in 0..Len(items)
    OBVIOUS
  <2>. HIDE DEF upto, T
  <2>8. QED BY <2>5, <2>6, <2>7
<1>3. Len(items) \in S
  <2>. HIDE DEF S
  <2>1. Len(items) \in Nat
    OBVIOUS
  <2>2. 0..Len(items) \subseteq S
    BY <1>1, <1>2, <2>1, Upwards
  <2>3. QED BY <2>1, <2>2
<1>4. upto(Len(items)) = items
  BY SubSeqFull
<1>5. QED BY <1>3, <1>4

JoinsUnless(f, items, begins) ==
    \A n \in 0..Len(items) :
        f[n] = IF n = 0 THEN <<>>
               ELSE IF n = 1 \/ <<n, f[n - 1]>> \in begins THEN Append(f[n - 1], items[n])
               ELSE Append(Front(f[n - 1]), Last(f[n - 1]) \o items[n])

\* Some function does so, whichever items begin a sequence.
LEMMA JoiningIsPossible ==
    ASSUME NEW A, NEW items \in Seq(Seq(A)), NEW begins
    PROVE  \E f : f \in [0..Len(items) -> Seq(Seq(A))] /\ JoinsUnless(f, items, begins)
<1>. DEFINE T == Seq(A)
            N == Len(items)
            step == [n \in 1..N |-> [b \in Seq(T) |->
                        IF n = 1 \/ b = <<>> \/ <<n, b>> \in begins THEN Append(b, items[n])
                        ELSE Append(Front(b), Last(b) \o items[n])]]
<1>0. N \in Nat
  OBVIOUS
<1>1. ASSUME NEW n \in 1..N, NEW b \in Seq(T)
      PROVE  step[n][b] \in Seq(T) /\ step[n][b] # <<>>
  <2>1. items[n] \in T
    OBVIOUS
  <2>2. step[n][b] = IF n = 1 \/ b = <<>> \/ <<n, b>> \in begins THEN Append(b, items[n])
                     ELSE Append(Front(b), Last(b) \o items[n])
    OBVIOUS
  <2>. HIDE DEF step
  <2>3. Append(b, items[n]) \in Seq(T) /\ Append(b, items[n]) # <<>>
    <3>1. PICK item \in T : item = items[n]
      BY <2>1
    <3>. HIDE DEF T
    <3>2. QED BY <3>1, AppendProperties, SMTT(30)
  <2>4. b # <<>> => /\ Append(Front(b), Last(b) \o items[n]) \in Seq(T)
                    /\ Append(Front(b), Last(b) \o items[n]) # <<>>
    BY <2>1, LongerLast
  <2>. HIDE DEF T
  <2>5. QED BY <2>2, <2>3, <2>4
<1>2. PICK f : Computes(f, N, Seq(T), <<>>, step)
  <2>1. <<>> \in Seq(T)
    OBVIOUS
  <2>. HIDE DEF T, step, N
  <2>2. QED BY <1>0, <1>1, <2>1, Loop
<1>3. /\ f \in [0..N -> Seq(T)] /\ f[0] = <<>>
      /\ \A n \in 1..N : f[n] = step[n][f[n - 1]]
  <2>. HIDE DEF step, T, N
  <2>. QED BY <1>2 DEF Computes
<1>4. ASSUME NEW n \in 1..N PROVE f[n] # <<>>
  <2>1. f[n - 1] \in Seq(T) /\ f[n] = step[n][f[n - 1]]
    <3>. HIDE DEF step, T, N
    <3>1. n - 1 \in 0..N
      BY <1>0
    <3>2. QED BY <1>3, <3>1
  <2>. HIDE DEF step, T
  <2>2. QED BY <1>1, <2>1
<1>5. ASSUME NEW n \in 0..N
      PROVE  f[n] = IF n = 0 THEN <<>>
               ELSE IF n = 1 \/ <<n, f[n - 1]>> \in begins THEN Append(f[n - 1], items[n])
               ELSE Append(Front(f[n - 1]), Last(f[n - 1]) \o items[n])
  <2>1. CASE n = 0
    BY <1>3, <2>1
  <2>2. CASE n # 0
    <3>0. n \in 1..N /\ n - 1 \in 0..N
      BY <2>2
    <3>1. f[n - 1] \in Seq(T)
      <4>. HIDE DEF step, T, N
      <4>. QED BY <1>3, <3>0
    <3>2. n = 1 \/ f[n - 1] # <<>>
      <4>. HIDE DEF step, T
      <4>. QED BY <1>4, <3>0
    <3>3. PICK b \in Seq(T) : b = f[n - 1]
      BY <3>1
    <3>4. f[n] = step[n][b]
      <4>. HIDE DEF step, T
      <4>. QED BY <1>3, <3>0, <3>3
    <3>5. step[n][b] = IF n = 1 \/ b = <<>> \/ <<n, b>> \in begins THEN Append(b, items[n])
                       ELSE Append(Front(b), Last(b) \o items[n])
      BY <3>0
    <3>. HIDE DEF step, T
    <3>6. QED BY <2>2, <3>2, <3>3, <3>4, <3>5
  <2>3. QED BY <2>1, <2>2
<1>6. QED
  <2>. HIDE DEF step, T
  <2>. QED BY <1>3, <1>5 DEF T, JoinsUnless

Text == Seq(Unit)
Sentences == Seq(Sentence)

\* SplitBefore loses no sentence.
LEMMA SplittingLosesNothing ==
    ASSUME NEW ss \in Sentences, NEW starts
    PROVE  /\ SplitBefore(ss, starts) \in Seq(Sentences)
           /\ FlattenSeq(SplitBefore(ss, starts)) = ss
<1>. DEFINE N == Len(ss)
            Is(f) == f = [n \in 0..N |->
                        IF n = 0 THEN <<>>
                        ELSE IF n = 1 \/ n \in starts THEN Append(f[n - 1], <<ss[n]>>)
                        ELSE Append(Front(f[n - 1]), Last(f[n - 1]) \o <<ss[n]>>)]
            single == [s \in Sentence |-> <<s>>]
            items == Mapped(single, ss)
            begins == {p \in (1..N) \X Seq(Sentences) : p[1] \in starts}
            pieces == CHOOSE f : Is(f)
<1>1. SplitBefore(ss, starts) = pieces[N]
  BY DEF SplitBefore
<1>2. /\ items \in Seq(Sentences) /\ FlattenSeq(items) = ss /\ Len(items) = N /\ N \in Nat
      /\ \A n \in 1..N : items[n] = <<ss[n]>>
  <2>1. items \in Seq(Seq(Sentence)) /\ FlattenSeq(items) = ss
    <3>. HIDE DEF items
    <3>. QED BY FlattenOfSingles DEF Sentences, items
  <2>2. items = [n \in DOMAIN ss |-> single[ss[n]]] /\ DOMAIN ss = 1..N /\ N \in Nat
    BY DEF Mapped, Sentences
  <2>3. \A n \in 1..N : items[n] = <<ss[n]>>
    <3>1. \A n \in 1..N : ss[n] \in Sentence
      BY DEF Sentences
    <3>2. QED BY <2>2, <3>1
  <2>4. Len(items) = N
    <3>1. DOMAIN items = 1..N
      BY <2>2
    <3>. HIDE DEF items
    <3>2. QED BY <2>1, <2>2, <3>1, LenProperties
  <2>5. QED BY <2>1, <2>2, <2>3, <2>4 DEF Sentences
<1>3. PICK f : f \in [0..N -> Seq(Sentences)] /\ JoinsUnless(f, items, begins)
  <2>. HIDE DEF items, N, begins
  <2>1. items \in Seq(Seq(Sentence)) /\ N = Len(items)
    BY <1>2 DEF Sentences
  <2>2. \E f : f \in [0..Len(items) -> Seq(Seq(Sentence))] /\ JoinsUnless(f, items, begins)
    BY <2>1, JoiningIsPossible
  <2>3. QED BY <2>1, <2>2 DEF Sentences
<1>4. Is(f)
  <2>1. ASSUME NEW n \in 0..N
        PROVE  f[n] = IF n = 0 THEN <<>>
                      ELSE IF n = 1 \/ n \in starts THEN Append(f[n - 1], <<ss[n]>>)
                      ELSE Append(Front(f[n - 1]), Last(f[n - 1]) \o <<ss[n]>>)
    <3>1. CASE n = 0
      BY <1>2, <1>3, <3>1 DEF JoinsUnless
    <3>2. CASE n # 0
      <4>1. n \in 1..N /\ n - 1 \in 0..N
        BY <1>2, <3>2
      <4>2. PICK b \in Seq(Sentences) : b = f[n - 1]
        <5>. HIDE DEF N
        <5>. QED BY <1>3, <4>1
      <4>3. <<n, b>> \in begins <=> n \in starts
        BY <4>1
      <4>. HIDE DEF items, N, begins
      <4>4. QED BY <1>2, <1>3, <3>2, <4>1, <4>2, <4>3 DEF JoinsUnless
    <3>3. QED BY <3>1, <3>2
  <2>. HIDE DEF N, items, begins
  <2>2. f = [n \in 0..N |-> f[n]]
    BY <1>3
  <2>3. QED BY <2>1, <2>2
<1>5. Is(pieces)
  <2>. HIDE DEF Is
  <2>. QED BY <1>4
<1>6. Joins(pieces, items)
  <2>. HIDE DEF pieces
  <2>1. pieces[0] = <<>>
    BY <1>2, <1>5
  <2>2. ASSUME NEW n \in 1..N
        PROVE  \/ pieces[n] = Append(pieces[n - 1], items[n])
               \/ n # 1 /\ pieces[n] = Append(Front(pieces[n - 1]), Last(pieces[n - 1]) \o items[n])
    <3>0. n \in 0..N /\ n # 0
      BY <1>2
    <3>1. pieces[n] = IF n = 1 \/ n \in starts THEN Append(pieces[n - 1], <<ss[n]>>)
                      ELSE Append(Front(pieces[n - 1]), Last(pieces[n - 1]) \o <<ss[n]>>)
      <4>. HIDE DEF N
      <4>. QED BY <1>5, <3>0
    <3>2. items[n] = <<ss[n]>>
      <4>. HIDE DEF items
      <4>. QED BY <1>2
    <3>. HIDE DEF items, N
    <3>3. QED BY <3>1, <3>2
  <2>3. QED
    <3>. HIDE DEF items, N
    <3>. QED BY <1>2, <2>1, <2>2 DEF Joins
<1>7. QED
  <2>. HIDE DEF items, pieces, N
  <2>1. pieces[N] \in Seq(Seq(Sentence)) /\ FlattenSeq(pieces[N]) = FlattenSeq(items)
    <3>1. items \in Seq(Seq(Sentence))
      BY <1>2 DEF Sentences
    <3>2. QED BY <1>2, <1>6, <3>1, JoiningLosesNothing
  <2>2. QED BY <1>1, <1>2, <2>1 DEF Sentences

\* Nor does Pack.
LEMMA PackingLosesNothing ==
    ASSUME NEW items \in Seq(Sentences), NEW max
    PROVE  /\ Pack(items, max) \in Seq(Sentences)
           /\ FlattenSeq(Pack(items, max)) = FlattenSeq(items)
<1>. DEFINE N == Len(items)
            full(b, n) == Size(Last(b)) + Size(items[n]) > max
            Is(f) == f = [n \in 0..N |->
                        IF n = 0 THEN <<>>
                        ELSE IF n = 1 \/ full(f[n - 1], n) THEN Append(f[n - 1], items[n])
                        ELSE Append(Front(f[n - 1]), Last(f[n - 1]) \o items[n])]
            begins == {p \in (1..N) \X Seq(Sentences) : full(p[2], p[1])}
            packed == CHOOSE f : Is(f)
<1>1. Pack(items, max) = packed[N]
  BY DEF Pack
<1>2. N \in Nat
  OBVIOUS
<1>3. PICK f : f \in [0..N -> Seq(Sentences)] /\ JoinsUnless(f, items, begins)
  <2>. HIDE DEF begins
  <2>1. items \in Seq(Seq(Sentence))
    BY DEF Sentences
  <2>2. \E f : f \in [0..Len(items) -> Seq(Seq(Sentence))] /\ JoinsUnless(f, items, begins)
    BY <2>1, JoiningIsPossible
  <2>3. QED BY <2>2 DEF Sentences
<1>4. Is(f)
  <2>1. ASSUME NEW n \in 0..N
        PROVE  f[n] = IF n = 0 THEN <<>>
                      ELSE IF n = 1 \/ full(f[n - 1], n) THEN Append(f[n - 1], items[n])
                      ELSE Append(Front(f[n - 1]), Last(f[n - 1]) \o items[n])
    <3>1. CASE n = 0
      BY <1>2, <1>3, <3>1 DEF JoinsUnless
    <3>2. CASE n # 0
      <4>1. n \in 1..N /\ n - 1 \in 0..N
        BY <1>2, <3>2
      <4>2. PICK b \in Seq(Sentences) : b = f[n - 1]
        <5>. HIDE DEF N
        <5>. QED BY <1>3, <4>1
      <4>3. <<n, b>> \in begins <=> full(b, n)
        <5>. HIDE DEF full
        <5>. QED BY <4>1
      <4>4. N = Len(items)
        OBVIOUS
      <4>. HIDE DEF N, begins, full
      <4>5. QED BY <1>3, <3>2, <4>1, <4>2, <4>3, <4>4 DEF JoinsUnless
    <3>3. QED BY <3>1, <3>2
  <2>. HIDE DEF N, begins, full
  <2>2. f = [n \in 0..N |-> f[n]]
    BY <1>3
  <2>3. QED BY <2>1, <2>2
<1>5. Is(packed)
  <2>. HIDE DEF Is
  <2>. QED BY <1>4
<1>6. Joins(packed, items)
  <2>. HIDE DEF packed, full
  <2>1. packed[0] = <<>>
    BY <1>2, <1>5
  <2>2. ASSUME NEW n \in 1..N
        PROVE  \/ packed[n] = Append(packed[n - 1], items[n])
               \/ n # 1 /\ packed[n] = Append(Front(packed[n - 1]), Last(packed[n - 1]) \o items[n])
    <3>0. n \in 0..N /\ n # 0
      BY <1>2
    <3>1. packed[n] = IF n = 1 \/ full(packed[n - 1], n) THEN Append(packed[n - 1], items[n])
                      ELSE Append(Front(packed[n - 1]), Last(packed[n - 1]) \o items[n])
      <4>. HIDE DEF N
      <4>. QED BY <1>5, <3>0
    <3>2. QED BY <3>1
  <2>3. QED BY <2>1, <2>2 DEF Joins
<1>7. QED
  <2>. HIDE DEF packed, N
  <2>1. packed[N] \in Seq(Seq(Sentence)) /\ FlattenSeq(packed[N]) = FlattenSeq(items)
    <3>1. items \in Seq(Seq(Sentence)) /\ N = Len(items)
      BY DEF Sentences, N
    <3>2. QED BY <1>6, <3>1, JoiningLosesNothing
  <2>2. QED BY <1>1, <2>1 DEF Sentences

-----------------------------------------------------------------------------
(* Texts                                                                   *)

LEMMA MappedConcatenates ==
    ASSUME NEW A, NEW h, NEW s \in Seq(A), NEW t \in Seq(A)
    PROVE  Mapped(h, s \o t) = Mapped(h, s) \o Mapped(h, t)
<1>. DEFINE B == {h[x] : x \in A}
            st == s \o t
<1>1. ASSUME NEW r \in Seq(A)
      PROVE  /\ Mapped(h, r) \in Seq(B) /\ Len(Mapped(h, r)) = Len(r)
             /\ \A i \in 1..Len(r) : Mapped(h, r)[i] = h[r[i]]
  <2>1. \A x \in A : h[x] \in B
    OBVIOUS
  <2>. HIDE DEF B
  <2>2. Mapped(h, r) \in Seq(B) /\ Len(Mapped(h, r)) = Len(r)
    BY <2>1, MappedIsASequence, ZenonT(30)
  <2>3. \A i \in 1..Len(r) : Mapped(h, r)[i] = h[r[i]]
    BY DEF Mapped
  <2>4. QED BY <2>2, <2>3
<1>2. /\ st \in Seq(A) /\ Len(st) = Len(s) + Len(t)
      /\ \A i \in 1..Len(s) : st[i] = s[i]
      /\ \A i \in 1..Len(t) : st[Len(s) + i] = t[i]
  OBVIOUS
<1>. HIDE DEF B, st
<1>3. PICK u \in Seq(B), v \in Seq(B), w \in Seq(B) :
        u = Mapped(h, s) /\ v = Mapped(h, t) /\ w = Mapped(h, st)
  BY <1>1, <1>2
<1>4. /\ Len(u) = Len(s) /\ Len(v) = Len(t) /\ Len(w) = Len(s) + Len(t)
      /\ \A i \in 1..Len(s) : u[i] = h[s[i]]
      /\ \A i \in 1..Len(t) : v[i] = h[t[i]]
      /\ \A i \in 1..Len(w) : w[i] = h[st[i]]
  <2>1. Len(u) = Len(s) /\ \A i \in 1..Len(s) : u[i] = h[s[i]]
    BY <1>1, <1>3
  <2>2. Len(v) = Len(t) /\ \A i \in 1..Len(t) : v[i] = h[t[i]]
    BY <1>1, <1>3
  <2>3. Len(w) = Len(st) /\ \A i \in 1..Len(st) : w[i] = h[st[i]]
    BY <1>1, <1>2, <1>3
  <2>4. QED BY <1>2, <2>1, <2>2, <2>3
<1>5. PICK uv \in Seq(B) : uv = u \o v
  <2>1. u \o v \in Seq(B)
    BY ConcatProperties
  <2>2. QED BY <2>1
<1>6. /\ Len(uv) = Len(u) + Len(v)
      /\ \A i \in 1..Len(u) : uv[i] = u[i]
      /\ \A i \in 1..Len(v) : uv[Len(u) + i] = v[i]
  BY <1>5
<1>7. w = uv
  <2>1. ASSUME NEW i \in 1..Len(w) PROVE w[i] = uv[i]
    <3>1. CASE i \in 1..Len(s)
      <4>1. uv[i] = u[i]
        BY <1>4, <1>6, <3>1
      <4>2. u[i] = h[s[i]] /\ st[i] = s[i]
        BY <1>2, <1>4, <3>1
      <4>3. w[i] = h[st[i]]
        BY <1>4
      <4>4. QED BY <4>1, <4>2, <4>3
    <3>2. CASE i \notin 1..Len(s)
      <4>1. PICK j \in 1..Len(t) : i = Len(s) + j
        <5>1. i - Len(s) \in 1..Len(t) /\ i = Len(s) + (i - Len(s))
          BY <1>4, <3>2
        <5>2. QED BY <5>1
      <4>2. uv[i] = v[j]
        BY <1>4, <1>6, <4>1
      <4>3. v[j] = h[t[j]] /\ st[i] = t[j]
        BY <1>2, <1>4, <4>1
      <4>4. w[i] = h[st[i]]
        BY <1>4
      <4>5. QED BY <4>2, <4>3, <4>4
    <3>3. QED BY <3>1, <3>2
  <2>2. Len(w) = Len(uv)
    BY <1>4, <1>6
  <2>3. QED BY <2>1, <2>2, SeqEqual
<1>8. QED BY <1>3, <1>5, <1>7 DEF st

LEMMA UnitsAreText ==
    ASSUME NEW s \in Sentence PROVE Units(s) \in Text
<1>1. s.size \in Nat /\ s.text \in STRING
  BY DEF Sentence
<1>2. ASSUME NEW k \in 1..s.size
      PROVE  [word |-> <<s.text, k>>, sentence |-> k = 1, clause |-> k \in s.clauses] \in Unit
  BY <1>1, <1>2 DEF Unit
<1>3. Units(s) \in [1..s.size -> Unit]
  BY <1>2 DEF Units
<1>4. QED BY <1>1, <1>3 DEF Text

\* The text of sentences is that of the first ones and then that of the others.
LEMMA TextConcatenates ==
    /\ TextOf(<<>>) = <<>>
    /\ \A ss \in Sentences : TextOf(ss) \in Text
    /\ \A ss, tt \in Sentences : TextOf(ss \o tt) = TextOf(ss) \o TextOf(tt)
<1>. DEFINE unit == [s \in Sentence |-> Units(s)]
<1>1. \A s \in Sentence : unit[s] \in Text
  BY UnitsAreText
<1>2. ASSUME NEW ss \in Sentences PROVE TextOf(ss) = FlattenSeq(Mapped(unit, ss))
  <2>1. \A i \in DOMAIN ss : unit[ss[i]] = Units(ss[i])
    BY DEF Sentences
  <2>. HIDE DEF unit
  <2>2. [i \in DOMAIN ss |-> unit[ss[i]]] = [i \in DOMAIN ss |-> Units(ss[i])]
    BY <2>1
  <2>3. QED BY <2>2 DEF TextOf, Mapped
<1>. HIDE DEF unit
<1>3. ASSUME NEW ss \in Sentences PROVE Mapped(unit, ss) \in Seq(Seq(Unit))
  BY <1>1, MappedIsASequence DEF Sentences, Text
<1>4. ASSUME NEW ss \in Sentences PROVE TextOf(ss) \in Text
  BY <1>2, <1>3, FlattenIsARecursion DEF Text
<1>5. ASSUME NEW ss \in Sentences, NEW tt \in Sentences
      PROVE  TextOf(ss \o tt) = TextOf(ss) \o TextOf(tt)
  <2>1. Mapped(unit, ss \o tt) = Mapped(unit, ss) \o Mapped(unit, tt)
    BY MappedConcatenates DEF Sentences
  <2>2. ss \o tt \in Sentences
    BY DEF Sentences
  <2>3. FlattenSeq(Mapped(unit, ss) \o Mapped(unit, tt))
          = FlattenSeq(Mapped(unit, ss)) \o FlattenSeq(Mapped(unit, tt))
    BY <1>3, FlattenConcatenates
  <2>4. QED BY <1>2, <2>1, <2>2, <2>3
<1>6. TextOf(<<>>) = <<>>
  <2>1. <<>> \in Sentences
    BY DEF Sentences
  <2>2. Mapped(unit, <<>>) = <<>> /\ FlattenSeq(<<>>) = <<>>
    BY MappedEmpty, FlattenIsARecursion
  <2>3. QED BY <1>2, <2>1, <2>2
<1>7. QED BY <1>4, <1>5, <1>6

\* The texts of the parts are the text of the whole.
LEMMA TextsOfTheParts ==
    ASSUME NEW parts \in Seq(Sentences), NEW texts, texts = [i \in DOMAIN parts |-> TextOf(parts[i])]
    PROVE  /\ texts \in Seq(Text) /\ Len(texts) = Len(parts)
           /\ FlattenSeq(texts) = TextOf(FlattenSeq(parts))
<1>. DEFINE text == [ss \in Sentences |-> TextOf(ss)]
<1>1. texts = Mapped(text, parts)
  <2>1. \A i \in DOMAIN parts : text[parts[i]] = TextOf(parts[i])
    OBVIOUS
  <2>. HIDE DEF text
  <2>2. QED BY <2>1 DEF Mapped
<1>2. text \in [Seq(Sentence) -> Seq(Unit)] /\ \A s \in Sentences : text[s] \in Text
  BY TextConcatenates DEF Text, Sentences
<1>3. text[<<>>] = <<>>
  <2>1. <<>> \in Sentences
    BY DEF Sentences
  <2>2. QED BY <2>1, TextConcatenates
<1>4. ASSUME NEW ss \in Sentences, NEW tt \in Sentences
      PROVE  text[ss \o tt] = text[ss] \o text[tt]
  <2>1. ss \o tt \in Sentences
    BY DEF Sentences
  <2>2. text[ss \o tt] = TextOf(ss \o tt) /\ text[ss] = TextOf(ss) /\ text[tt] = TextOf(tt)
    BY <2>1
  <2>. HIDE DEF text
  <2>3. QED BY <2>2, TextConcatenates
<1>5. FlattenSeq(parts) \in Sentences
  BY FlattenIsARecursion DEF Sentences
<1>6. text[FlattenSeq(parts)] = TextOf(FlattenSeq(parts))
  BY <1>5
<1>. HIDE DEF text
<1>7. FlattenSeq(Mapped(text, parts)) = text[FlattenSeq(parts)]
  BY <1>2, <1>3, <1>4, FlattenMapped DEF Sentences
<1>8. Mapped(text, parts) \in Seq(Text) /\ Len(Mapped(text, parts)) = Len(parts)
  <2>1. \A ss \in Sentences : text[ss] \in Text
    BY <1>2
  <2>2. QED BY <2>1, MappedIsASequence, ZenonT(30)
<1>9. QED BY <1>1, <1>6, <1>7, <1>8

Word == (STRING \X Nat) \cup {None}

LEMMA SpokenConcatenates ==
    /\ Spoken(<<>>) = <<>>
    /\ \A t \in Text : Spoken(t) \in Seq(Word) /\ Len(Spoken(t)) = Len(t)
    /\ \A t, u \in Text : Spoken(t \o u) = Spoken(t) \o Spoken(u)
<1>. DEFINE word == [u \in Unit |-> u.word]
<1>1. \A u \in Unit : word[u] \in Word
  BY DEF Unit, Word
<1>2. ASSUME NEW t \in Text PROVE Spoken(t) = Mapped(word, t)
  <2>1. \A i \in DOMAIN t : word[t[i]] = t[i].word
    BY DEF Text
  <2>. HIDE DEF word
  <2>2. QED BY <2>1 DEF Spoken, Mapped
<1>. HIDE DEF word
<1>3. ASSUME NEW t \in Text PROVE Spoken(t) \in Seq(Word) /\ Len(Spoken(t)) = Len(t)
  <2>1. Mapped(word, t) \in Seq(Word) /\ Len(Mapped(word, t)) = Len(t)
    BY <1>1, MappedIsASequence, ZenonT(30) DEF Text
  <2>2. QED BY <1>2, <2>1
<1>4. ASSUME NEW t \in Text, NEW u \in Text PROVE Spoken(t \o u) = Spoken(t) \o Spoken(u)
  <2>1. t \o u \in Text
    BY DEF Text
  <2>2. Mapped(word, t \o u) = Mapped(word, t) \o Mapped(word, u)
    BY MappedConcatenates DEF Text
  <2>3. QED BY <1>2, <2>1, <2>2
<1>5. Spoken(<<>>) = <<>>
  <2>1. <<>> \in Text
    BY DEF Text
  <2>2. QED BY <1>2, <2>1, MappedEmpty
<1>6. QED BY <1>3, <1>4, <1>5

LEMMA SpokenParts ==
    ASSUME NEW texts \in Seq(Text), NEW words, words = [i \in DOMAIN texts |-> Spoken(texts[i])]
    PROVE  FlattenSeq(texts) \in Text /\ Spoken(FlattenSeq(texts)) = FlattenSeq(words)
<1>. DEFINE spoken == [t \in Text |-> Spoken(t)]
<1>1. words = Mapped(spoken, texts)
  <2>1. \A i \in DOMAIN texts : spoken[texts[i]] = Spoken(texts[i])
    OBVIOUS
  <2>. HIDE DEF spoken
  <2>2. QED BY <2>1 DEF Mapped
<1>2. spoken \in [Seq(Unit) -> Seq(Word)]
  BY SpokenConcatenates DEF Text
<1>3. spoken[<<>>] = <<>>
  <2>1. <<>> \in Text
    BY DEF Text
  <2>2. QED BY <2>1, SpokenConcatenates
<1>4. ASSUME NEW t \in Text, NEW u \in Text
      PROVE  spoken[t \o u] = spoken[t] \o spoken[u]
  <2>1. t \o u \in Text
    BY DEF Text
  <2>2. spoken[t \o u] = Spoken(t \o u) /\ spoken[t] = Spoken(t) /\ spoken[u] = Spoken(u)
    BY <2>1
  <2>. HIDE DEF spoken
  <2>3. QED BY <2>2, SpokenConcatenates
<1>5. FlattenSeq(texts) \in Text
  BY FlattenIsARecursion DEF Text
<1>6. spoken[FlattenSeq(texts)] = Spoken(FlattenSeq(texts))
  BY <1>5
<1>. HIDE DEF spoken
<1>7. FlattenSeq(Mapped(spoken, texts)) = spoken[FlattenSeq(texts)]
  BY <1>2, <1>3, <1>4, FlattenMapped DEF Text
<1>8. QED BY <1>1, <1>5, <1>6, <1>7

-----------------------------------------------------------------------------
(* Chunks                                                                  *)

Parent == {Head(ss).text : ss \in Sentences} \cup {None}

Type == {"section", "section_part", "clause_group", "paragraph", "sentence_adaptive"}

\* A chunk's content is its own text after what it repeats.
Chunk == {c \in [own : Text, content : Text, type : Type, parent : Parent] :
              \E t \in Text : c.content = t \o c.own}

Owns(cs) == [i \in DOMAIN cs |-> cs[i].own]

LEMMA OwnsAreTexts ==
    /\ Owns(<<>>) = <<>>
    /\ \A cs \in Seq(Chunk) : Owns(cs) \in Seq(Text) /\ Len(Owns(cs)) = Len(cs)
    /\ \A cs, ds \in Seq(Chunk) : Owns(cs \o ds) = Owns(cs) \o Owns(ds)
<1>. DEFINE own == [c \in Chunk |-> c.own]
<1>1. \A c \in Chunk : own[c] \in Text
  BY DEF Chunk
<1>2. ASSUME NEW cs \in Seq(Chunk) PROVE Owns(cs) = Mapped(own, cs)
  <2>1. \A i \in DOMAIN cs : own[cs[i]] = cs[i].own
    OBVIOUS
  <2>. HIDE DEF own
  <2>2. QED BY <2>1 DEF Owns, Mapped
<1>. HIDE DEF own
<1>3. ASSUME NEW cs \in Seq(Chunk) PROVE Owns(cs) \in Seq(Text) /\ Len(Owns(cs)) = Len(cs)
  <2>1. Mapped(own, cs) \in Seq(Text) /\ Len(Mapped(own, cs)) = Len(cs)
    BY <1>1, MappedIsASequence, ZenonT(30)
  <2>2. QED BY <1>2, <2>1
<1>4. ASSUME NEW cs \in Seq(Chunk), NEW ds \in Seq(Chunk)
      PROVE  Owns(cs \o ds) = Owns(cs) \o Owns(ds)
  <2>1. cs \o ds \in Seq(Chunk)
    BY ConcatProperties
  <2>2. Mapped(own, cs \o ds) = Mapped(own, cs) \o Mapped(own, ds)
    BY MappedConcatenates
  <2>3. QED BY <1>2, <2>1, <2>2
<1>5. Owns(<<>>) = <<>>
  <2>1. <<>> \in Seq(Chunk)
    OBVIOUS
  <2>2. QED BY <1>2, <2>1, MappedEmpty
<1>6. QED BY <1>3, <1>4, <1>5

LEMMA ANewChunk ==
    ASSUME NEW t \in Text, NEW type \in Type, NEW parent \in Parent
    PROVE  ChunkOf(t, type, parent) \in Chunk /\ ChunkOf(t, type, parent).own = t
<1>1. <<>> \in Text /\ <<>> \o t = t
  <2>1. t \in Seq(Unit)
    BY DEF Text
  <2>2. <<>> \o t = t
    BY <2>1, ConcatEmptySeq
  <2>3. QED BY <2>2 DEF Text
<1>2. \E u \in Text : t = u \o t
  BY <1>1
<1>3. QED BY <1>2 DEF ChunkOf, Chunk

LEMMA NoParent == None \in Parent
BY DEF Parent

\* What the chunks' own texts add up to.
Added(cs) == FlattenSeq(Owns(cs))

\* Chunks made of the texts of some parts.
ChunksFrom(parts, type, parent) == [i \in DOMAIN parts |-> ChunkOf(TextOf(parts[i]), type, parent)]

LEMMA ChunksFromParts ==
    ASSUME NEW parts \in Seq(Sentences), NEW type \in Type, NEW parent \in Parent
    PROVE  /\ ChunksFrom(parts, type, parent) \in Seq(Chunk)
           /\ Len(ChunksFrom(parts, type, parent)) = Len(parts)
           /\ Added(ChunksFrom(parts, type, parent)) = TextOf(FlattenSeq(parts))
<1>. DEFINE cs == ChunksFrom(parts, type, parent)
<1>1. ASSUME NEW i \in DOMAIN parts PROVE cs[i] \in Chunk /\ cs[i].own = TextOf(parts[i])
  <2>1. TextOf(parts[i]) \in Text
    BY TextConcatenates
  <2>2. QED BY <2>1, ANewChunk DEF ChunksFrom
<1>2. DOMAIN parts = 1..Len(parts) /\ Len(parts) \in Nat
  OBVIOUS
<1>3. cs \in [1..Len(parts) -> Chunk]
  BY <1>1, <1>2 DEF ChunksFrom
<1>. HIDE DEF cs
<1>4. cs \in Seq(Chunk) /\ Len(cs) = Len(parts) /\ DOMAIN cs = DOMAIN parts
  BY <1>2, <1>3, ASequence, Zenon
<1>5. Owns(cs) = [i \in DOMAIN parts |-> TextOf(parts[i])]
  BY <1>1, <1>4 DEF Owns
<1>6. FlattenSeq(Owns(cs)) = TextOf(FlattenSeq(parts))
  BY <1>5, TextsOfTheParts
<1>7. QED BY <1>4, <1>6 DEF Added, cs

Lengthened(cs, content) == [i \in DOMAIN cs |-> [cs[i] EXCEPT !.content = content[i]]]

\* Repeating something before a chunk's content leaves its own text alone.
LEMMA RepeatingKeepsTheOwn ==
    ASSUME NEW cs \in Seq(Chunk), NEW content,
           \A i \in 1..Len(cs) : \E u \in Text : content[i] = u \o cs[i].content
    PROVE  /\ Lengthened(cs, content) \in Seq(Chunk) /\ Len(Lengthened(cs, content)) = Len(cs)
           /\ Owns(Lengthened(cs, content)) = Owns(cs)
<1>. DEFINE longer == Lengthened(cs, content)
<1>1. DOMAIN longer = 1..Len(cs) /\ DOMAIN cs = 1..Len(cs) /\ Len(cs) \in Nat
  BY DEF Lengthened
<1>2. ASSUME NEW i \in 1..Len(cs) PROVE longer[i] \in Chunk /\ longer[i].own = cs[i].own
  <2>1. PICK c \in Chunk : c = cs[i]
    OBVIOUS
  <2>2. PICK u \in Text : content[i] = u \o c.content
    BY <2>1
  <2>3. PICK t \in Text : c.content = t \o c.own
    BY DEF Chunk
  <2>4. c.own \in Text /\ c.content \in Text
    BY DEF Chunk
  <2>5. content[i] = (u \o t) \o c.own /\ u \o t \in Text /\ content[i] \in Text
    <3>1. PICK v \in Seq(Unit) : v = c.own
      BY <2>4 DEF Text
    <3>2. Associated(u, t, v)
      BY Associates DEF Text
    <3>3. u \o t \in Seq(Unit) /\ (u \o t) \o v \in Seq(Unit)
      BY ConcatProperties DEF Text
    <3>4. QED BY <2>2, <2>3, <3>1, <3>2, <3>3 DEF Associated, Text
  <2>6. longer[i] = [c EXCEPT !.content = content[i]]
    BY <1>1, <2>1 DEF Lengthened
  <2>7. c \in [own : Text, content : Text, type : Type, parent : Parent]
    BY DEF Chunk
  <2>8. longer[i] \in [own : Text, content : Text, type : Type, parent : Parent]
        /\ longer[i].content = content[i] /\ longer[i].own = c.own
    BY <2>5, <2>6, <2>7
  <2>9. \E x \in Text : longer[i].content = x \o longer[i].own
    BY <2>5, <2>8
  <2>. HIDE DEF longer
  <2>10. QED BY <2>1, <2>8, <2>9 DEF Chunk
<1>3. longer \in [1..Len(cs) -> Chunk]
  BY <1>1, <1>2 DEF Lengthened
<1>4. longer \in Seq(Chunk) /\ Len(longer) = Len(cs)
  <2>. HIDE DEF longer
  <2>. QED BY <1>1, <1>3
<1>5. Owns(longer) = Owns(cs)
  <2>. HIDE DEF longer
  <2>. QED BY <1>1, <1>2 DEF Owns
<1>6. QED BY <1>4, <1>5

\* What repeats the end of the content before, whatever it takes the end for.
Repeats(content, cs, over, following) ==
    content = [i \in DOMAIN cs |-> IF i \in following THEN over[content[i - 1]] \o cs[i].content
                                   ELSE cs[i].content]

LEMMA RepeatingIsPossible ==
    ASSUME NEW cs \in Seq(Chunk), NEW over \in [Text -> Text], NEW following, 1 \notin following
    PROVE  \E content : content \in [1..Len(cs) -> Text] /\ Repeats(content, cs, over, following)
<1>. DEFINE N == Len(cs)
            own == [n \in 1..N |-> cs[n].content]
            step == [n \in 1..N |-> [t \in Text |-> IF n \in following THEN over[t] \o own[n] ELSE own[n]]]
<1>1. N \in Nat /\ <<>> \in Text /\ DOMAIN cs = 1..N
  BY DEF Text
<1>2. \A n \in 1..N : own[n] \in Text
  BY DEF Chunk
<1>3. ASSUME NEW n \in 1..N, NEW t \in Text
      PROVE  step[n][t] \in Text /\ step[n][t] = IF n \in following THEN over[t] \o own[n] ELSE own[n]
  <2>1. PICK u \in Text, v \in Text : u = over[t] /\ v = own[n]
    <3>. HIDE DEF own
    <3>. QED BY <1>2
  <2>2. u \o v \in Text
    BY DEF Text
  <2>3. step[n][t] = IF n \in following THEN over[t] \o own[n] ELSE own[n]
    <3>. HIDE DEF own
    <3>. QED OBVIOUS
  <2>. HIDE DEF step, own
  <2>4. QED BY <2>1, <2>2, <2>3
<1>4. PICK f : Computes(f, N, Text, <<>>, step)
  <2>. HIDE DEF step, N
  <2>. QED BY <1>1, <1>3, Loop
<1>. DEFINE content == [n \in 1..N |-> f[n]]
<1>5. ASSUME NEW n \in 1..N
      PROVE  /\ f[n] \in Text
             /\ f[n] = IF n \in following THEN over[f[n - 1]] \o own[n] ELSE own[n]
  <2>1. f[n] \in Text /\ f[n - 1] \in Text /\ f[n] = step[n][f[n - 1]]
    <3>1. n \in 0..N /\ n - 1 \in 0..N
      BY <1>1
    <3>. HIDE DEF step, N
    <3>. QED BY <1>4, <3>1 DEF Computes
  <2>. HIDE DEF step, own
  <2>2. QED BY <1>3, <2>1
<1>6. content \in [1..N -> Text]
  BY <1>5
<1>7. ASSUME NEW n \in 1..N
      PROVE  content[n] = IF n \in following THEN over[content[n - 1]] \o cs[n].content ELSE cs[n].content
  <2>1. own[n] = cs[n].content /\ content[n] = f[n]
    OBVIOUS
  <2>2. n \in following => content[n - 1] = f[n - 1]
    <3>1. n \in following => n - 1 \in 1..N
      BY <1>1
    <3>2. QED BY <3>1
  <2>. HIDE DEF own, content
  <2>3. QED BY <1>5, <2>1, <2>2
<1>8. Repeats(content, cs, over, following)
  <2>. HIDE DEF content
  <2>1. content = [n \in 1..N |-> content[n]]
    BY <1>6
  <2>2. QED BY <1>1, <1>7, <2>1 DEF Repeats
<1>9. QED
  <2>. HIDE DEF content
  <2>. QED BY <1>6, <1>8

\* Each content is the chunk's own one, maybe after what is made of the one before.
Lengthens(content, cs) ==
    \A i \in 1..Len(cs) :
        \/ content[i] = cs[i].content
        \/ i # 1 /\ (content[i - 1] \in Text => \E u \in Text : content[i] = u \o cs[i].content)

LEMMA RepeatingLengthens ==
    ASSUME NEW cs \in Seq(Chunk), NEW content, Lengthens(content, cs)
    PROVE  \A i \in 1..Len(cs) : \E u \in Text : content[i] = u \o cs[i].content
<1>. DEFINE Longer(n) == content[n] \in Text /\ \E u \in Text : content[n] = u \o cs[n].content
            S == {n \in 0..Len(cs) : n = 0 \/ Longer(n)}
<1>1. 0 \in S
  OBVIOUS
<1>2. ASSUME NEW n \in 1..Len(cs), n - 1 \in S PROVE n \in S
  <2>1. PICK t \in Text : t = cs[n].content
    BY DEF Chunk
  <2>2. \E u \in Text : content[n] = u \o t
    <3>1. CASE content[n] = t
      <4>1. t \in Seq(Unit)
        BY DEF Text
      <4>2. <<>> \o t = t
        BY <4>1, ConcatEmptySeq
      <4>3. <<>> \in Text
        BY DEF Text
      <4>4. QED BY <3>1, <4>2, <4>3
    <3>2. CASE n # 1 /\ (content[n - 1] \in Text => \E u \in Text : content[n] = u \o t)
      <4>1. n - 1 # 0 /\ (n - 1 = 0 \/ Longer(n - 1))
        <5>. HIDE DEF Longer
        <5>. QED BY <1>2, <3>2
      <4>2. content[n - 1] \in Text
        BY <4>1
      <4>3. QED BY <3>2, <4>2
    <3>3. QED BY <2>1, <3>1, <3>2 DEF Lengthens
  <2>3. content[n] \in Text
    BY <2>2, ConcatProperties DEF Text
  <2>4. n \in 0..Len(cs)
    OBVIOUS
  <2>0. Longer(n)
    BY <2>1, <2>2, <2>3
  <2>. HIDE DEF Longer
  <2>5. QED BY <2>0, <2>4
<1>3. 0..Len(cs) \subseteq S
  <2>1. Len(cs) \in Nat
    OBVIOUS
  <2>. HIDE DEF S
  <2>2. QED BY <1>1, <1>2, <2>1, Upwards
<1>4. ASSUME NEW i \in 1..Len(cs) PROVE \E u \in Text : content[i] = u \o cs[i].content
  <2>1. i \in S
    <3>. HIDE DEF S
    <3>. QED BY <1>3
  <2>2. QED BY <2>1
<1>5. QED BY <1>4

LEMMA EndOfAText ==
    ASSUME NEW t \in Text, NEW first \in 1..Len(t) + 1
    PROVE  SubSeq(t, first, Len(t)) \in Text
<1>1. Len(t) \in Int /\ first \in Int /\ \A i \in first..Len(t) : t[i] \in Unit
  BY DEF Text
<1>2. QED BY <1>1, SubSeqProperties DEF Text

\* How much of a chunk the strategies repeat, in percent.
Percent == {15, 20, 25, 30}

\* What two chunks share is no more than a chunk has.
LEMMA LastPartIsAText ==
    ASSUME NEW t \in Text, NEW percent \in Percent
    PROVE  LastPart(t, percent) \in Text
<1>. DEFINE n == (Len(t) * percent + 99) \div 100
<1>1. Len(t) \in Nat
  BY DEF Text
<1>2. n \in Nat /\ n <= Len(t)
  <2>1. PICK l \in Nat : l = Len(t)
    BY <1>1
  <2>2. /\ (l * 15 + 99) \div 100 \in Nat /\ (l * 15 + 99) \div 100 <= l
        /\ (l * 20 + 99) \div 100 \in Nat /\ (l * 20 + 99) \div 100 <= l
        /\ (l * 25 + 99) \div 100 \in Nat /\ (l * 25 + 99) \div 100 <= l
        /\ (l * 30 + 99) \div 100 \in Nat /\ (l * 30 + 99) \div 100 <= l
    OBVIOUS
  <2>3. QED BY <2>1, <2>2 DEF Percent
<1>3. Len(t) - n + 1 \in 1..Len(t) + 1
  <2>. HIDE DEF n
  <2>. QED BY <1>1, <1>2
<1>4. LastPart(t, percent) = SubSeq(t, Len(t) - n + 1, Len(t))
  BY DEF LastPart
<1>5. QED
  <2>. HIDE DEF n
  <2>. QED BY <1>3, <1>4, EndOfAText

LEMMA OverlappedKeepsTheOwn ==
    ASSUME NEW cs \in Seq(Chunk), NEW percent \in Percent, NEW following, 1 \notin following
    PROVE  /\ Overlapped(cs, percent, following) \in Seq(Chunk)
           /\ Owns(Overlapped(cs, percent, following)) = Owns(cs)
<1>. DEFINE over == [t \in Text |-> LastPart(t, percent)]
            Is(f) == f = [i \in DOMAIN cs |->
                            IF i \in following THEN LastPart(f[i - 1], percent) \o cs[i].content
                            ELSE cs[i].content]
            content == CHOOSE f : Is(f)
<1>1. Overlapped(cs, percent, following) = Lengthened(cs, content)
  BY DEF Overlapped, Lengthened
<1>2. over \in [Text -> Text]
  BY LastPartIsAText
<1>3. PICK f : f \in [1..Len(cs) -> Text] /\ Repeats(f, cs, over, following)
  <2>. HIDE DEF over
  <2>. QED BY <1>2, RepeatingIsPossible
<1>4. Is(f)
  <2>0. DOMAIN cs = 1..Len(cs)
    OBVIOUS
  <2>1. ASSUME NEW i \in DOMAIN cs
        PROVE  (IF i \in following THEN over[f[i - 1]] \o cs[i].content ELSE cs[i].content)
                 = IF i \in following THEN LastPart(f[i - 1], percent) \o cs[i].content ELSE cs[i].content
    <3>1. i \in following => over[f[i - 1]] = LastPart(f[i - 1], percent)
      <4>1. i \in following => i - 1 \in 1..Len(cs)
        BY <2>0
      <4>2. i \in following => f[i - 1] \in Text
        BY <1>3, <4>1
      <4>3. QED BY <4>2
    <3>. HIDE DEF over
    <3>2. QED BY <3>1
  <2>. HIDE DEF over
  <2>2. QED BY <1>3, <2>1 DEF Repeats
<1>5. Is(content)
  <2>. HIDE DEF Is
  <2>. QED BY <1>4
<1>6. Lengthens(content, cs)
  <2>1. ASSUME NEW i \in 1..Len(cs)
        PROVE  \/ content[i] = cs[i].content
               \/ i # 1 /\ (content[i - 1] \in Text => \E u \in Text : content[i] = u \o cs[i].content)
    <3>. HIDE DEF content, over
    <3>1. content[i] = IF i \in following THEN LastPart(content[i - 1], percent) \o cs[i].content
                       ELSE cs[i].content
      <4>1. i \in DOMAIN cs
        OBVIOUS
      <4>2. QED BY <1>5, <4>1
    <3>. HIDE DEF Is
    <3>2. content[i - 1] \in Text => LastPart(content[i - 1], percent) \in Text
      BY LastPartIsAText
    <3>3. QED BY <3>1, <3>2
  <2>. HIDE DEF content
  <2>2. QED BY <2>1 DEF Lengthens
<1>7. QED
  <2>. HIDE DEF content
  <2>1. \A i \in 1..Len(cs) : \E u \in Text : content[i] = u \o cs[i].content
    BY <1>6, RepeatingLengthens
  <2>2. Lengthened(cs, content) \in Seq(Chunk) /\ Owns(Lengthened(cs, content)) = Owns(cs)
    BY <2>1, RepeatingKeepsTheOwn
  <2>3. QED BY <1>1, <2>2

LEMMA ParagraphChunksAreTheDocument ==
    ASSUME NEW d \in Document, NEW max
    PROVE  /\ ParagraphChunks(d, max) \in Seq(Chunk)
           /\ Added(ParagraphChunks(d, max)) = TextOf(d.sentences)
<1>. DEFINE groups == Pack(SplitBefore(d.sentences, With(d.sentences, {"paragraph"})), max)
            cs == ChunksFrom(groups, "paragraph", None)
<1>0. d.sentences \in Sentences
  BY DEF Document, Sentences
<1>1. groups \in Seq(Sentences) /\ FlattenSeq(groups) = d.sentences
  BY <1>0, SplittingLosesNothing, PackingLosesNothing
<1>. HIDE DEF groups
<1>2. cs \in Seq(Chunk) /\ Added(cs) = TextOf(d.sentences)
  <2>1. "paragraph" \in Type /\ None \in Parent
    BY NoParent DEF Type
  <2>2. PICK type \in Type, parent \in Parent : type = "paragraph" /\ parent = None
    BY <2>1
  <2>3. /\ ChunksFrom(groups, type, parent) \in Seq(Chunk)
        /\ Added(ChunksFrom(groups, type, parent)) = TextOf(FlattenSeq(groups))
    BY <1>1, ChunksFromParts
  <2>4. QED BY <1>1, <2>2, <2>3
<1>3. ParagraphChunks(d, max) = Overlapped(cs, IF Size(d.sentences) > 200 THEN 30 ELSE 15, 2..Len(groups))
  BY DEF ParagraphChunks, groups, ChunksFrom
<1>. HIDE DEF cs
<1>4. (IF Size(d.sentences) > 200 THEN 30 ELSE 15) \in Percent /\ 1 \notin 2..Len(groups)
  BY DEF Percent
<1>5. QED BY <1>2, <1>3, <1>4, OverlappedKeepsTheOwn DEF Added

LEMMA AddedConcatenates ==
    /\ Added(<<>>) = <<>>
    /\ \A cs \in Seq(Chunk) : Added(cs) \in Text
    /\ \A cs, ds \in Seq(Chunk) : Added(cs \o ds) = Added(cs) \o Added(ds)
    /\ \A cs \in Seq(Chunk), c \in Chunk : Added(Append(cs, c)) = Added(cs) \o c.own
<1>1. Added(<<>>) = <<>>
  BY OwnsAreTexts, FlattenIsARecursion DEF Added
<1>2. ASSUME NEW cs \in Seq(Chunk) PROVE Added(cs) \in Text
  BY OwnsAreTexts, FlattenIsARecursion DEF Added, Text
<1>3. ASSUME NEW cs \in Seq(Chunk), NEW ds \in Seq(Chunk)
      PROVE  Added(cs \o ds) = Added(cs) \o Added(ds)
  <2>1. Owns(cs) \in Seq(Seq(Unit)) /\ Owns(ds) \in Seq(Seq(Unit))
    BY OwnsAreTexts DEF Text
  <2>2. FlattenSeq(Owns(cs) \o Owns(ds)) = FlattenSeq(Owns(cs)) \o FlattenSeq(Owns(ds))
    BY <2>1, FlattenConcatenates
  <2>3. QED BY <2>2, OwnsAreTexts DEF Added
<1>4. ASSUME NEW cs \in Seq(Chunk), NEW c \in Chunk
      PROVE  Added(Append(cs, c)) = Added(cs) \o c.own
  <2>. DEFINE own == [x \in Chunk |-> x.own]
  <2>1. ASSUME NEW ds \in Seq(Chunk) PROVE Owns(ds) = Mapped(own, ds)
    <3>1. \A i \in DOMAIN ds : own[ds[i]] = ds[i].own
      OBVIOUS
    <3>. HIDE DEF own
    <3>2. QED BY <3>1 DEF Owns, Mapped
  <2>2. own[c] = c.own
    OBVIOUS
  <2>. HIDE DEF own
  <2>3. Append(cs, c) \in Seq(Chunk)
    OBVIOUS
  <2>4. Owns(Append(cs, c)) = Append(Owns(cs), c.own)
    <3>1. Mapped(own, Append(cs, c)) = Append(Mapped(own, cs), own[c])
      BY MappedAppend
    <3>2. QED BY <2>1, <2>2, <2>3, <3>1
  <2>5. Owns(cs) \in Seq(Seq(Unit)) /\ c.own \in Seq(Unit)
    BY OwnsAreTexts DEF Text, Chunk
  <2>6. FlattenSeq(Append(Owns(cs), c.own)) = FlattenSeq(Owns(cs)) \o c.own
    BY <2>5, FlattenIsARecursion
  <2>7. QED BY <2>4, <2>6 DEF Added
<1>5. QED BY <1>1, <1>2, <1>3, <1>4

LEMMA AddedOfOne ==
    ASSUME NEW c \in Chunk PROVE <<c>> \in Seq(Chunk) /\ Added(<<c>>) = c.own
<1>1. <<>> \in Seq(Chunk) /\ Append(<<>>, c) = <<c>> /\ <<c>> \in Seq(Chunk)
  OBVIOUS
<1>2. Added(Append(<<>>, c)) = Added(<<>>) \o c.own
  BY <1>1, AddedConcatenates
<1>3. <<>> \o c.own = c.own
  BY ConcatEmptySeq DEF Chunk, Text
<1>4. QED BY <1>1, <1>2, <1>3, AddedConcatenates

\* Chunks of parts, one part after the other.
LEMMA AddedParts ==
    ASSUME NEW css \in Seq(Seq(Chunk)), NEW texts, texts = [i \in DOMAIN css |-> Added(css[i])]
    PROVE  FlattenSeq(css) \in Seq(Chunk) /\ FlattenSeq(texts) = Added(FlattenSeq(css))
<1>. DEFINE added == [cs \in Seq(Chunk) |-> Added(cs)]
<1>1. texts = Mapped(added, css)
  <2>1. \A i \in DOMAIN css : added[css[i]] = Added(css[i])
    OBVIOUS
  <2>. HIDE DEF added
  <2>2. QED BY <2>1 DEF Mapped
<1>2. added \in [Seq(Chunk) -> Seq(Unit)]
  BY AddedConcatenates DEF Text
<1>3. added[<<>>] = <<>>
  <2>1. <<>> \in Seq(Chunk)
    OBVIOUS
  <2>2. QED BY <2>1, AddedConcatenates
<1>4. ASSUME NEW cs \in Seq(Chunk), NEW ds \in Seq(Chunk)
      PROVE  added[cs \o ds] = added[cs] \o added[ds]
  <2>1. cs \o ds \in Seq(Chunk)
    BY ConcatProperties
  <2>2. added[cs \o ds] = Added(cs \o ds) /\ added[cs] = Added(cs) /\ added[ds] = Added(ds)
    BY <2>1
  <2>. HIDE DEF added
  <2>3. QED BY <2>2, AddedConcatenates
<1>5. FlattenSeq(css) \in Seq(Chunk)
  BY FlattenIsARecursion
<1>6. added[FlattenSeq(css)] = Added(FlattenSeq(css))
  BY <1>5
<1>. HIDE DEF added
<1>7. FlattenSeq(Mapped(added, css)) = added[FlattenSeq(css)]
  BY <1>2, <1>3, <1>4, FlattenMapped
<1>8. QED BY <1>1, <1>5, <1>6, <1>7

LEMMA SectionPartsAreTheSection ==
    ASSUME NEW section \in Sentences, NEW max
    PROVE  SectionParts(section, max) \in Seq(Chunk) /\ Added(SectionParts(section, max)) = TextOf(section)
<1>1. CASE Size(section) <= max
  <2>. DEFINE c == ChunkOf(TextOf(section), "section", None)
  <2>1. c \in Chunk /\ c.own = TextOf(section)
    BY TextConcatenates, NoParent, ANewChunk DEF Type
  <2>2. SectionParts(section, max) = <<c>>
    BY <1>1 DEF SectionParts
  <2>. HIDE DEF c
  <2>3. QED BY <2>1, <2>2, AddedOfOne
<1>2. CASE ~(Size(section) <= max)
  <2>. DEFINE parts == Pack(SplitBefore(section, With(section, {"paragraph"})), max)
  <2>1. parts \in Seq(Sentences) /\ FlattenSeq(parts) = section
    BY SplittingLosesNothing, PackingLosesNothing
  <2>2. SectionParts(section, max) = ChunksFrom(parts, "section_part", Head(section).text)
    BY <1>2 DEF SectionParts, ChunksFrom
  <2>. HIDE DEF parts
  <2>3. PICK type \in Type, parent \in Parent : type = "section_part" /\ parent = Head(section).text
    BY DEF Type, Parent
  <2>4. /\ ChunksFrom(parts, type, parent) \in Seq(Chunk)
        /\ Added(ChunksFrom(parts, type, parent)) = TextOf(FlattenSeq(parts))
    BY <2>1, ChunksFromParts
  <2>5. QED BY <2>1, <2>2, <2>3, <2>4
<1>3. QED BY <1>1, <1>2

LEMMA SectionChunksAreTheDocument ==
    ASSUME NEW d \in Document, NEW max
    PROVE  /\ SectionChunks(d, max) \in Seq(Chunk)
           /\ Added(SectionChunks(d, max)) = TextOf(d.sentences)
<1>. DEFINE sections == SplitBefore(d.sentences, With(d.sentences, {"header", "subsection"}))
            css == [i \in DOMAIN sections |-> SectionParts(sections[i], max)]
            cs == FlattenSeq(css)
            following == {i \in 2..Len(cs) : /\ {cs[i - 1].type, cs[i].type} = {"section_part"}
                                             /\ cs[i - 1].parent = cs[i].parent}
<1>0. d.sentences \in Sentences
  BY DEF Document, Sentences
<1>1. sections \in Seq(Sentences) /\ FlattenSeq(sections) = d.sentences
  BY <1>0, SplittingLosesNothing
<1>2. SectionChunks(d, max) = Overlapped(cs, 20, following)
  BY DEF SectionChunks
<1>. HIDE DEF sections
<1>3. DOMAIN sections = 1..Len(sections) /\ Len(sections) \in Nat
  BY <1>1
<1>4. ASSUME NEW i \in DOMAIN sections
      PROVE  css[i] \in Seq(Chunk) /\ Added(css[i]) = TextOf(sections[i])
  <2>1. sections[i] \in Sentences
    BY <1>1
  <2>2. QED BY <2>1, SectionPartsAreTheSection
<1>5. css \in Seq(Seq(Chunk)) /\ DOMAIN css = DOMAIN sections
  <2>1. css \in [1..Len(sections) -> Seq(Chunk)]
    BY <1>3, <1>4
  <2>. HIDE DEF css
  <2>2. QED BY <1>3, <2>1, ASequence, Zenon
<1>. DEFINE texts == [i \in DOMAIN css |-> Added(css[i])]
<1>6. texts = [i \in DOMAIN sections |-> TextOf(sections[i])]
  <2>. HIDE DEF css
  <2>. QED BY <1>4, <1>5
<1>7. cs \in Seq(Chunk) /\ Added(cs) = FlattenSeq(texts)
  <2>. HIDE DEF css
  <2>. QED BY <1>5, AddedParts
<1>8. FlattenSeq(texts) = TextOf(d.sentences)
  <2>. HIDE DEF texts
  <2>. QED BY <1>1, <1>6, TextsOfTheParts
<1>9. 1 \notin following
  OBVIOUS
<1>. HIDE DEF cs, following, texts
<1>10. Overlapped(cs, 20, following) \in Seq(Chunk) /\ Owns(Overlapped(cs, 20, following)) = Owns(cs)
  <2>1. PICK percent \in Percent : percent = 20
    BY DEF Percent
  <2>2. Overlapped(cs, percent, following) \in Seq(Chunk)
        /\ Owns(Overlapped(cs, percent, following)) = Owns(cs)
    BY <1>7, <1>9, OverlappedKeepsTheOwn
  <2>3. QED BY <2>1, <2>2
<1>11. QED BY <1>2, <1>7, <1>8, <1>10 DEF Added

\* The document, cut into chunks: their own texts say what it says.
Cuts(cs, d) == cs \in Seq(Chunk) /\ Spoken(Added(cs)) = Spoken(TextOf(d.sentences))

Bare(text) == [i \in DOMAIN text |-> [text[i] EXCEPT !.sentence = FALSE]]

LEMMA BareSaysTheSame ==
    ASSUME NEW t \in Text PROVE Bare(t) \in Text /\ Spoken(Bare(t)) = Spoken(t)
<1>1. DOMAIN t = 1..Len(t) /\ Len(t) \in Nat
  BY DEF Text
<1>2. ASSUME NEW i \in 1..Len(t) PROVE Bare(t)[i] \in Unit /\ Bare(t)[i].word = t[i].word
  <2>1. PICK u \in Unit : u = t[i]
    BY DEF Text
  <2>2. Bare(t)[i] = [u EXCEPT !.sentence = FALSE]
    BY <1>1, <2>1 DEF Bare
  <2>3. QED BY <2>1, <2>2 DEF Unit
<1>3. Bare(t) \in [1..Len(t) -> Unit]
  BY <1>1, <1>2 DEF Bare
<1>4. Bare(t) \in Seq(Unit) /\ DOMAIN Bare(t) = 1..Len(t)
  BY <1>1, <1>3, ASequence, Zenon
<1>5. Spoken(Bare(t)) = Spoken(t)
  BY <1>1, <1>2, <1>4 DEF Spoken
<1>6. QED BY <1>4, <1>5 DEF Text

LEMMA ClauseChunksAreTheDocument ==
    ASSUME NEW d \in Document, NEW max
    PROVE  Cuts(ClauseChunks(d, max), d)
<1>. DEFINE clauses == SplitBefore(d.sentences, {i \in DOMAIN d.sentences : d.sentences[i].clauses # {}})
            groups == Pack(clauses, max)
            cs == [i \in DOMAIN groups |-> ChunkOf(Bare(TextOf(groups[i])), "clause_group", None)]
<1>0. d.sentences \in Sentences
  BY DEF Document, Sentences
<1>1. groups \in Seq(Sentences) /\ FlattenSeq(groups) = d.sentences
  BY <1>0, SplittingLosesNothing, PackingLosesNothing
<1>2. ClauseChunks(d, max) = Overlapped(cs, 25, 2..Len(groups))
  BY DEF ClauseChunks, Bare
<1>. HIDE DEF clauses, groups
<1>3. DOMAIN groups = 1..Len(groups) /\ Len(groups) \in Nat
  BY <1>1
<1>4. ASSUME NEW i \in DOMAIN groups
      PROVE  cs[i] \in Chunk /\ cs[i].own = Bare(TextOf(groups[i])) /\ TextOf(groups[i]) \in Text
  <2>1. TextOf(groups[i]) \in Text
    BY <1>1, TextConcatenates
  <2>2. Bare(TextOf(groups[i])) \in Text
    BY <2>1, BareSaysTheSame
  <2>3. QED BY <2>1, <2>2, NoParent, ANewChunk DEF Type
<1>5. cs \in Seq(Chunk) /\ DOMAIN cs = DOMAIN groups
  <2>1. cs \in [1..Len(groups) -> Chunk]
    BY <1>3, <1>4
  <2>. HIDE DEF cs
  <2>2. QED BY <1>3, <2>1, ASequence, Zenon
<1>. HIDE DEF cs
<1>. DEFINE texts == [i \in DOMAIN groups |-> TextOf(groups[i])]
            words == [i \in DOMAIN texts |-> Spoken(texts[i])]
            owns == Owns(cs)
<1>6. texts \in Seq(Text) /\ FlattenSeq(texts) = TextOf(d.sentences)
  <2>. HIDE DEF texts
  <2>. QED BY <1>1, TextsOfTheParts DEF texts
<1>7. owns \in Seq(Text) /\ DOMAIN owns = DOMAIN groups
  BY <1>5, OwnsAreTexts DEF Owns
<1>8. words = [i \in DOMAIN owns |-> Spoken(owns[i])]
  <2>1. ASSUME NEW i \in DOMAIN groups PROVE Spoken(owns[i]) = Spoken(texts[i])
    BY <1>4, <1>5, BareSaysTheSame DEF Owns
  <2>2. DOMAIN texts = DOMAIN groups
    OBVIOUS
  <2>. HIDE DEF texts, owns
  <2>3. QED BY <1>7, <2>1, <2>2
<1>9. Spoken(FlattenSeq(texts)) = FlattenSeq(words)
  <2>. HIDE DEF texts
  <2>. QED BY <1>6, SpokenParts
<1>10. Spoken(FlattenSeq(owns)) = FlattenSeq(words)
  <2>. HIDE DEF owns, words
  <2>. QED BY <1>7, <1>8, SpokenParts
<1>11. Overlapped(cs, 25, 2..Len(groups)) \in Seq(Chunk)
       /\ Owns(Overlapped(cs, 25, 2..Len(groups))) = Owns(cs)
  <2>1. PICK percent \in Percent : percent = 25
    BY DEF Percent
  <2>0. PICK following : following = 2..Len(groups)
    OBVIOUS
  <2>2. 1 \notin following
    BY <2>0
  <2>3. Overlapped(cs, percent, following) \in Seq(Chunk)
        /\ Owns(Overlapped(cs, percent, following)) = Owns(cs)
    BY <1>5, <2>2, OverlappedKeepsTheOwn
  <2>4. QED BY <2>0, <2>1, <2>3
<1>. HIDE DEF texts, words
<1>12. QED BY <1>2, <1>6, <1>9, <1>10, <1>11 DEF Cuts, Added

-----------------------------------------------------------------------------
(* Sentence by sentence                                                    *)

SoFar == [done : Seq(Chunk), again : Sentences, own : Sentences]

Closed(b) == [ChunkOf(TextOf(b.own), "sentence_adaptive", None)
                  EXCEPT !.content = TextOf(b.again \o b.own)]
Again(all, percent) == LET n == Larger(1, (Len(all) * percent) \div 100)
                       IN  SubSeq(all, Len(all) - n + 1, Len(all))
WithSentence(b, s, percent) ==
    LET all == b.again \o b.own
    IN  IF all # <<>> /\ Size(all) + s.size > 20
        THEN [done |-> Append(b.done, Closed(b)), again |-> Again(all, percent), own |-> <<s>>]
        ELSE [b EXCEPT !.own = Append(@, s)]

LEMMA ClosedIsAChunk ==
    ASSUME NEW b \in SoFar PROVE Closed(b) \in Chunk /\ Closed(b).own = TextOf(b.own)
<1>. DEFINE c == ChunkOf(TextOf(b.own), "sentence_adaptive", None)
<1>1. b.again \in Sentences /\ b.own \in Sentences
  BY DEF SoFar
<1>2. TextOf(b.own) \in Text /\ TextOf(b.again) \in Text
      /\ TextOf(b.again \o b.own) = TextOf(b.again) \o TextOf(b.own)
  BY <1>1, TextConcatenates
<1>3. TextOf(b.again) \o TextOf(b.own) \in Text
  BY <1>2, ConcatProperties DEF Text
<1>4. c \in [own : Text, content : Text, type : Type, parent : Parent] /\ c.own = TextOf(b.own)
  BY <1>2, NoParent DEF ChunkOf, Type
<1>5. Closed(b) = [c EXCEPT !.content = TextOf(b.again) \o TextOf(b.own)]
  BY <1>2 DEF Closed
<1>6. /\ Closed(b) \in [own : Text, content : Text, type : Type, parent : Parent]
      /\ Closed(b).own = TextOf(b.own) /\ Closed(b).content = TextOf(b.again) \o TextOf(b.own)
  <2>. HIDE DEF c
  <2>. QED BY <1>3, <1>4, <1>5
<1>7. \E t \in Text : Closed(b).content = t \o Closed(b).own
  BY <1>2, <1>6
<1>8. QED BY <1>6, <1>7 DEF Chunk

LEMMA AgainIsSentences ==
    ASSUME NEW all \in Sentences, all # <<>>, NEW percent \in {20, 50}
    PROVE  Again(all, percent) \in Sentences
<1>. DEFINE n == Larger(1, (Len(all) * percent) \div 100)
<1>1. Len(all) \in Nat /\ Len(all) >= 1
  BY DEF Sentences
<1>2. n \in Nat /\ n <= Len(all)
  <2>1. PICK l \in Nat : l = Len(all) /\ l >= 1
    BY <1>1
  <2>2. /\ (l * 20) \div 100 \in Nat /\ (l * 20) \div 100 <= l
        /\ (l * 50) \div 100 \in Nat /\ (l * 50) \div 100 <= l
    OBVIOUS
  <2>3. QED BY <2>1, <2>2 DEF Larger
<1>. HIDE DEF n
<1>3. \A i \in (Len(all) - n + 1)..Len(all) : all[i] \in Sentence
  BY <1>1, <1>2 DEF Sentences
<1>4. SubSeq(all, Len(all) - n + 1, Len(all)) \in Seq(Sentence)
  <2>1. Len(all) - n + 1 \in Int /\ Len(all) \in Int
    BY <1>1, <1>2
  <2>2. QED BY <1>3, <2>1, SubSeqProperties
<1>5. QED BY <1>4 DEF Again, Sentences, n

LEMMA WithASentence ==
    ASSUME NEW b \in SoFar, NEW s \in Sentence, NEW percent \in {20, 50}
    PROVE  LET c == WithSentence(b, s, percent) IN
           /\ c \in SoFar
           /\ Added(c.done) \o TextOf(c.own) = (Added(b.done) \o TextOf(b.own)) \o TextOf(<<s>>)
<1>. DEFINE all == b.again \o b.own
            c == WithSentence(b, s, percent)
<1>1. b.done \in Seq(Chunk) /\ b.again \in Sentences /\ b.own \in Sentences
  BY DEF SoFar
<1>2. all \in Sentences /\ <<s>> \in Sentences
  BY <1>1 DEF Sentences
<1>3. PICK t \in Seq(Unit), u \in Seq(Unit), v \in Seq(Unit) :
          t = Added(b.done) /\ u = TextOf(b.own) /\ v = TextOf(<<s>>)
  BY <1>1, <1>2, AddedConcatenates, TextConcatenates DEF Text
<1>4. CASE all # <<>> /\ Size(all) + s.size > 20
  <2>1. c = [done |-> Append(b.done, Closed(b)), again |-> Again(all, percent), own |-> <<s>>]
    BY <1>4 DEF WithSentence
  <2>2. Closed(b) \in Chunk /\ Closed(b).own = TextOf(b.own)
    BY ClosedIsAChunk
  <2>3. Again(all, percent) \in Sentences
    <3>. HIDE DEF all
    <3>. QED BY <1>2, <1>4, AgainIsSentences
  <2>. HIDE DEF c, all
  <2>4. Append(b.done, Closed(b)) \in Seq(Chunk)
    BY <1>1, <2>2, AppendProperties
  <2>5. c \in SoFar
    BY <1>2, <2>1, <2>3, <2>4 DEF SoFar
  <2>6. c.done = Append(b.done, Closed(b)) /\ c.own = <<s>>
    BY <2>1
  <2>7. Added(Append(b.done, Closed(b))) = Added(b.done) \o TextOf(b.own)
    BY <1>1, <2>2, AddedConcatenates, ZenonT(30)
  <2>8. QED BY <2>5, <2>6, <2>7 DEF c
<1>5. CASE ~(all # <<>> /\ Size(all) + s.size > 20)
  <2>1. c = [b EXCEPT !.own = Append(b.own, s)]
    BY <1>5 DEF WithSentence
  <2>2. b.own \o <<s>> = Append(b.own, s) /\ Append(b.own, s) \in Sentences
    BY <1>1 DEF Sentences
  <2>. HIDE DEF c
  <2>3. c \in SoFar /\ c.done = b.done /\ c.own = Append(b.own, s)
    BY <2>1, <2>2 DEF SoFar
  <2>4. TextOf(Append(b.own, s)) = u \o v
    <3>1. TextOf(b.own \o <<s>>) = TextOf(b.own) \o TextOf(<<s>>)
      BY <1>1, <1>2, TextConcatenates
    <3>2. QED BY <1>3, <2>2, <3>1
  <2>5. Associated(t, u, v)
    BY Associates
  <2>6. Added(c.done) \o TextOf(c.own) = (Added(b.done) \o TextOf(b.own)) \o TextOf(<<s>>)
    BY <1>3, <2>3, <2>4, <2>5 DEF Associated
  <2>7. QED BY <2>3, <2>6 DEF c
<1>6. QED BY <1>4, <1>5

LEMMA SentenceChunksAreTheDocument ==
    ASSUME NEW d \in Document
    PROVE  /\ SentenceChunks(d) \in Seq(Chunk)
           /\ Added(SentenceChunks(d)) = TextOf(d.sentences)
<1>. DEFINE ss == d.sentences
            N == Len(ss)
            percent == IF Size(ss) > 200 THEN 50 ELSE 20
            none == [done |-> <<>>, again |-> <<>>, own |-> <<>>]
            Is(f) == f = [n \in 0..N |-> IF n = 0 THEN none ELSE WithSentence(f[n - 1], ss[n], percent)]
            soFar == CHOOSE f : Is(f)
            end == soFar[N]
            step == [n \in 1..N |-> [b \in SoFar |-> WithSentence(b, ss[n], percent)]]
<1>0. /\ ss \in Sentences /\ N \in Nat /\ percent \in {20, 50} /\ none \in SoFar
      /\ \A n \in 1..N : ss[n] \in Sentence
  BY DEF Document, Sentences, SoFar
<1>1. SentenceChunks(d) = IF end.own = <<>> THEN end.done ELSE Append(end.done, Closed(end))
  BY DEF SentenceChunks, WithSentence, Closed, Again
<1>2. ASSUME NEW n \in 1..N, NEW b \in SoFar
      PROVE  step[n][b] = WithSentence(b, ss[n], percent) /\ step[n][b] \in SoFar
  <2>1. step[n][b] = WithSentence(b, ss[n], percent)
    OBVIOUS
  <2>. HIDE DEF step, ss, N, percent
  <2>2. QED BY <1>0, <2>1, WithASentence, ZenonT(30)
<1>3. PICK f : Computes(f, N, SoFar, none, step)
  <2>. HIDE DEF N, step, none, ss
  <2>. QED BY <1>0, <1>2, Loop
<1>4. Is(f)
  <2>1. ASSUME NEW n \in 0..N
        PROVE  f[n] = IF n = 0 THEN none ELSE WithSentence(f[n - 1], ss[n], percent)
    <3>1. CASE n = 0
      <4>. HIDE DEF none, step, ss, N
      <4>. QED BY <1>3, <3>1 DEF Computes
    <3>2. CASE n # 0
      <4>. HIDE DEF none, step, ss, N, percent
      <4>1. n \in 1..N /\ n - 1 \in 0..N
        BY <1>0, <3>2
      <4>2. f[n] = step[n][f[n - 1]] /\ f[n - 1] \in SoFar
        BY <1>3, <4>1 DEF Computes
      <4>3. QED BY <1>2, <3>2, <4>1, <4>2
    <3>3. QED BY <3>1, <3>2
  <2>2. f = [n \in 0..N |-> f[n]]
    <3>. HIDE DEF none, step, ss, N
    <3>. QED BY <1>3 DEF Computes
  <2>. HIDE DEF none, step, ss, N, percent
  <2>3. QED BY <2>1, <2>2
<1>5. Is(soFar)
  <2>. HIDE DEF Is
  <2>. QED BY <1>4
<1>. HIDE DEF soFar, step
<1>. DEFINE Upto(n) == SubSeq(ss, 1, n)
            S == {n \in 0..N : /\ soFar[n] \in SoFar
                               /\ Added(soFar[n].done) \o TextOf(soFar[n].own) = TextOf(Upto(n))}
<1>6. 0 \in S
  <2>1. soFar[0] = none /\ 0 \in 0..N
    <3>1. 0 \in 0..N
      BY <1>0
    <3>. HIDE DEF N, none
    <3>2. QED BY <1>5, <3>1
  <2>2. Upto(0) = <<>>
    BY SubSeqEmpty
  <2>3. Added(none.done) = <<>> /\ TextOf(none.own) = <<>> /\ TextOf(<<>>) = <<>>
    BY AddedConcatenates, TextConcatenates
  <2>4. <<>> \o <<>> = <<>>
    OBVIOUS
  <2>5. Added(none.done) \o TextOf(none.own) = TextOf(Upto(0))
    BY <2>2, <2>3, <2>4
  <2>. HIDE DEF N, none, Upto
  <2>6. QED BY <1>0, <2>1, <2>5
<1>7. ASSUME NEW n \in 1..N, n - 1 \in S PROVE n \in S
  <2>1. PICK b \in SoFar, s \in Sentence : b = soFar[n - 1] /\ s = ss[n]
    <3>. HIDE DEF ss, N
    <3>. QED BY <1>0, <1>7
  <2>2. Added(b.done) \o TextOf(b.own) = TextOf(Upto(n - 1))
    BY <1>7, <2>1
  <2>3. soFar[n] = WithSentence(b, s, percent)
    <3>1. n \in 0..N /\ n # 0
      BY <1>0
    <3>. HIDE DEF N, none, percent
    <3>2. QED BY <1>5, <2>1, <3>1
  <2>4. /\ soFar[n] \in SoFar
        /\ Added(soFar[n].done) \o TextOf(soFar[n].own)
             = (Added(b.done) \o TextOf(b.own)) \o TextOf(<<s>>)
    <3>. HIDE DEF percent
    <3>1. PICK p \in {20, 50} : p = percent
      BY <1>0
    <3>2. /\ WithSentence(b, s, p) \in SoFar
          /\ Added(WithSentence(b, s, p).done) \o TextOf(WithSentence(b, s, p).own)
               = (Added(b.done) \o TextOf(b.own)) \o TextOf(<<s>>)
      BY WithASentence
    <3>3. QED BY <2>3, <3>1, <3>2
  <2>5. Upto(n) = Upto(n - 1) \o <<s>> /\ Upto(n - 1) \in Sentences /\ <<s>> \in Sentences
    <3>1. ss \in Seq(Sentence)
      BY <1>0 DEF Sentences
    <3>. HIDE DEF ss
    <3>2. 1 \in 1..N /\ n \in 1..Len(ss)
      BY <1>0
    <3>3. SubSeq(ss, 1, n) = SubSeq(ss, 1, n - 1) \o <<ss[n]>>
      BY <3>1, <3>2, SubSeqRecursiveSecond
    <3>4. SubSeq(ss, 1, n - 1) \in Seq(Sentence)
      BY <3>1, <3>2
    <3>5. QED BY <2>1, <3>3, <3>4 DEF Sentences
  <2>6. TextOf(Upto(n)) = TextOf(Upto(n - 1)) \o TextOf(<<s>>)
    <3>. HIDE DEF Upto
    <3>. QED BY <2>5, TextConcatenates
  <2>7. n \in 0..N
    BY <1>0
  <2>. HIDE DEF Upto, N
  <2>8. QED BY <2>2, <2>4, <2>6, <2>7
<1>8. N \in S
  <2>. HIDE DEF S, N
  <2>1. 0..N \subseteq S
    BY <1>0, <1>6, <1>7, Upwards
  <2>2. QED BY <1>0, <2>1
<1>9. end \in SoFar /\ Added(end.done) \o TextOf(end.own) = TextOf(ss)
  <2>1. Upto(N) = ss
    BY <1>0, SubSeqFull DEF Sentences
  <2>. HIDE DEF N, Upto, ss
  <2>2. QED BY <1>8, <2>1
<1>. HIDE DEF end, ss
<1>10. end.done \in Seq(Chunk) /\ end.own \in Sentences
  BY <1>9 DEF SoFar
<1>11. CASE end.own = <<>>
  <2>1. Added(end.done) \o <<>> = Added(end.done)
    BY <1>10, AddedConcatenates, ConcatEmptySeq DEF Text
  <2>2. QED BY <1>1, <1>9, <1>10, <1>11, <2>1, TextConcatenates DEF ss
<1>12. CASE end.own # <<>>
  <2>1. Closed(end) \in Chunk /\ Closed(end).own = TextOf(end.own)
    BY <1>9, ClosedIsAChunk
  <2>2. Append(end.done, Closed(end)) \in Seq(Chunk)
    BY <1>10, <2>1, AppendProperties
  <2>3. Added(Append(end.done, Closed(end))) = Added(end.done) \o TextOf(end.own)
    BY <1>10, <2>1, AddedConcatenates
  <2>4. QED BY <1>1, <1>9, <1>12, <2>2, <2>3 DEF ss
<1>13. QED BY <1>11, <1>12

-----------------------------------------------------------------------------
(* The overlap                                                             *)

From(S, i) == {j \in S : j >= i}

\* Counted from the end, every member of a set of numbers has a number of its own.
LEMMA CountedFromTheEnd ==
    ASSUME NEW N \in Nat, NEW S, S \subseteq 1..N, NEW k \in 1..Cardinality(S)
    PROVE  \E i \in S : Cardinality(From(S, i)) = k
<1>. DEFINE later == {p \in S \X S : p[1] > p[2]}
<1>1. IsFiniteSet(S)
  <2>1. IsFiniteSet(1..N)
    BY FS_Interval
  <2>2. QED BY <2>1, FS_Subset
<1>2. \A i, j \in S : <<j, i>> \in later <=> j > i
  OBVIOUS
<1>3. Orders(later, S)
  BY DEF Orders
<1>. HIDE DEF later
<1>4. PICK i \in S : Cardinality(Ahead(S, later, i)) = k - 1
  BY <1>1, <1>3, EveryRankIsTaken
<1>. DEFINE T == Ahead(S, later, i)
<1>5. From(S, i) = T \cup {i} /\ i \notin T /\ T \subseteq S
  <2>1. T = {j \in S : j > i}
    BY <1>2 DEF Ahead
  <2>. HIDE DEF T
  <2>2. \A j \in S : j >= i <=> j > i \/ j = i
    OBVIOUS
  <2>3. From(S, i) = T \cup {i}
    BY <2>1, <2>2 DEF From
  <2>4. i \notin T /\ T \subseteq S
    BY <2>1
  <2>5. QED BY <2>3, <2>4
<1>. HIDE DEF T
<1>6. IsFiniteSet(T) /\ Cardinality(T) = k - 1
  BY <1>1, <1>4, <1>5, FS_Subset DEF T
<1>7. Cardinality(T \cup {i}) = Cardinality(T) + 1
  BY <1>5, <1>6, FS_AddElement
<1>8. Cardinality(From(S, i)) = k
  BY <1>5, <1>6, <1>7
<1>9. QED BY <1>8

LEMMA SemanticOverlapIsAText ==
    ASSUME NEW t \in Text PROVE SemanticOverlap(t) \in Text
<1>. DEFINE starts == {1} \cup {i \in DOMAIN t : t[i].sentence}
            n == Larger(1, (Cardinality(starts) * 20) \div 100)
            first == CHOOSE i \in starts : Cardinality(From(starts, i)) = n
<1>1. Len(t) \in Nat /\ DOMAIN t = 1..Len(t) /\ starts \subseteq 1..Len(t) + 1
  BY DEF Text
<1>2. IsFiniteSet(starts)
  <2>1. IsFiniteSet(1..Len(t) + 1)
    BY <1>1, FS_Interval
  <2>. HIDE DEF starts
  <2>2. QED BY <1>1, <2>1, FS_Subset
<1>3. n \in 1..Cardinality(starts)
  <2>1. 1 \in starts
    OBVIOUS
  <2>. HIDE DEF starts
  <2>2. Cardinality(starts) \in Nat /\ Cardinality(starts) # 0
    BY <1>2, <2>1, FS_CardinalityType, FS_EmptySet
  <2>3. PICK c \in Nat : c = Cardinality(starts) /\ c >= 1
    BY <2>2
  <2>4. (c * 20) \div 100 \in Nat /\ (c * 20) \div 100 <= c
    OBVIOUS
  <2>5. QED BY <2>3, <2>4 DEF Larger
<1>4. \E i \in starts : Cardinality(From(starts, i)) = n
  <2>1. Len(t) + 1 \in Nat
    BY <1>1
  <2>. HIDE DEF starts, n
  <2>2. QED BY <1>1, <1>3, <2>1, CountedFromTheEnd
<1>5. first \in starts
  <2>. HIDE DEF starts, n
  <2>. QED BY <1>4
<1>6. SemanticOverlap(t) = SubSeq(t, first, Len(t))
  BY DEF SemanticOverlap, From
<1>. HIDE DEF first, starts
<1>7. QED BY <1>1, <1>5, <1>6, EndOfAText

LEMMA ClauseOverlapIsAText ==
    ASSUME NEW t \in Text PROVE ClauseOverlap(t) \in Text
<1>. DEFINE boundaries == {i \in DOMAIN t : t[i].clause \/ (i > 1 /\ t[i].sentence)}
            before == {i \in boundaries : 4 * (i - 1) <= 3 * Len(t)}
            some == IF before = {} THEN boundaries ELSE before
<1>1. Len(t) \in Nat /\ boundaries \subseteq 1..Len(t)
  BY DEF Text
<1>2. CASE boundaries = {}
  BY <1>2, SemanticOverlapIsAText DEF ClauseOverlap
<1>3. CASE boundaries # {}
  <2>1. some # {} /\ some \subseteq 1..Len(t)
    <3>. HIDE DEF boundaries
    <3>. QED BY <1>1, <1>3
  <2>2. ClauseOverlap(t) = SubSeq(t, Max(some), Len(t))
    <3>. HIDE DEF Max
    <3>. QED BY <1>3 DEF ClauseOverlap
  <2>. HIDE DEF some
  <2>3. \E n \in some : \A m \in some : m <= n
    BY <1>1, <2>1, HasLast
  <2>4. \E n \in some : \A m \in some : n >= m
    BY <1>1, <2>1, <2>3
  <2>5. Max(some) \in some
    BY <2>4 DEF Max
  <2>6. Max(some) \in 1..Len(t) + 1
    <3>1. PICK m \in some : m = Max(some)
      BY <2>5
    <3>2. QED BY <1>1, <2>1, <3>1
  <2>7. QED BY <2>2, <2>6, EndOfAText
<1>4. QED BY <1>2, <1>3

LEMMA AdvancedOverlapKeepsTheOwn ==
    ASSUME NEW cs \in Seq(Chunk), NEW d
    PROVE  /\ AdvancedOverlap(d, cs) \in Seq(Chunk)
           /\ Owns(AdvancedOverlap(d, cs)) = Owns(cs)
<1>. DEFINE overlap(t) == IF IsLegal(d) THEN ClauseOverlap(t) ELSE SemanticOverlap(t)
            following == d.continuous \ {1}
            over == [t \in Text |-> overlap(t)]
            Is(f) == f = [i \in DOMAIN cs |->
                            IF i \in following THEN overlap(f[i - 1]) \o cs[i].content
                            ELSE cs[i].content]
            content == CHOOSE f : Is(f)
<1>1. AdvancedOverlap(d, cs) = Lengthened(cs, content)
  BY DEF AdvancedOverlap, Lengthened
<1>2. \A t \in Text : overlap(t) \in Text
  BY ClauseOverlapIsAText, SemanticOverlapIsAText
<1>. HIDE DEF overlap
<1>3. over \in [Text -> Text]
  BY <1>2
<1>4. PICK f : f \in [1..Len(cs) -> Text] /\ Repeats(f, cs, over, following)
  <2>1. 1 \notin following
    OBVIOUS
  <2>. HIDE DEF over, following
  <2>2. QED BY <1>3, <2>1, RepeatingIsPossible
<1>5. Is(f)
  <2>0. DOMAIN cs = 1..Len(cs) /\ 1 \notin following
    OBVIOUS
  <2>. HIDE DEF following
  <2>1. ASSUME NEW i \in DOMAIN cs
        PROVE  (IF i \in following THEN over[f[i - 1]] \o cs[i].content ELSE cs[i].content)
                 = IF i \in following THEN overlap(f[i - 1]) \o cs[i].content ELSE cs[i].content
    <3>1. i \in following => over[f[i - 1]] = overlap(f[i - 1])
      <4>1. i \in following => i - 1 \in 1..Len(cs)
        BY <2>0
      <4>2. i \in following => f[i - 1] \in Text
        BY <1>4, <4>1
      <4>3. QED BY <4>2
    <3>. HIDE DEF over
    <3>2. QED BY <3>1
  <2>. HIDE DEF over
  <2>2. QED BY <1>4, <2>1 DEF Repeats
<1>6. Is(content)
  <2>. HIDE DEF Is
  <2>. QED BY <1>5
<1>7. Lengthens(content, cs)
  <2>1. ASSUME NEW i \in 1..Len(cs)
        PROVE  \/ content[i] = cs[i].content
               \/ i # 1 /\ (content[i - 1] \in Text => \E u \in Text : content[i] = u \o cs[i].content)
    <3>. HIDE DEF content, over
    <3>0. 1 \notin following
      OBVIOUS
    <3>. HIDE DEF following
    <3>1. content[i] = IF i \in following THEN overlap(content[i - 1]) \o cs[i].content
                       ELSE cs[i].content
      <4>1. i \in DOMAIN cs
        OBVIOUS
      <4>2. QED BY <1>6, <4>1
    <3>. HIDE DEF Is
    <3>2. content[i - 1] \in Text => overlap(content[i - 1]) \in Text
      BY <1>2
    <3>3. QED BY <3>0, <3>1, <3>2
  <2>. HIDE DEF content
  <2>2. QED BY <2>1 DEF Lengthens
<1>8. QED
  <2>. HIDE DEF content
  <2>1. \A i \in 1..Len(cs) : \E u \in Text : content[i] = u \o cs[i].content
    BY <1>7, RepeatingLengthens
  <2>2. Lengthened(cs, content) \in Seq(Chunk) /\ Owns(Lengthened(cs, content)) = Owns(cs)
    BY <2>1, RepeatingKeepsTheOwn
  <2>3. QED BY <1>1, <2>2

-----------------------------------------------------------------------------
(* A strategy                                                              *)

LEMMA CutIsTheDocument ==
    ASSUME NEW d \in Document, NEW strategy \in Creatable, NEW max
    PROVE  Cuts(Cut(d, strategy, max), d)
<1>1. CASE strategy = "section"
  BY <1>1, SectionChunksAreTheDocument DEF Cut, Cuts
<1>2. CASE strategy = "clause"
  BY <1>2, ClauseChunksAreTheDocument DEF Cut
<1>3. CASE strategy = "paragraph"
  BY <1>3, ParagraphChunksAreTheDocument DEF Cut, Cuts
<1>4. QED BY <1>1, <1>2, <1>3 DEF Creatable

LEMMA CutWithFallbackIsTheDocument ==
    ASSUME NEW d \in Document PROVE Cuts(CutWithFallback(d), d)
<1>. DEFINE max == MaxSize(d)
            works == {k \in FallbackChain(d) : /\ Strategies[k] \in Creatable
                                               /\ GoodEnough(Cut(d, Strategies[k], max))}
<1>1. CutWithFallback(d) = IF works = {} THEN SentenceChunks(d) ELSE Cut(d, Strategies[Min(works)], max)
  <2>. HIDE DEF Min
  <2>. QED BY DEF CutWithFallback
<1>2. CASE works = {}
  <2>. HIDE DEF works
  <2>. QED BY <1>1, <1>2, SentenceChunksAreTheDocument DEF Cuts
<1>3. CASE works # {}
  <2>1. works \subseteq Nat /\ \A k \in works : Strategies[k] \in Creatable
    BY DEF FallbackChain, Strategies
  <2>. HIDE DEF works, max
  <2>2. \E n \in works : \A m \in works : n <= m
    BY <1>3, <2>1, HasFirst
  <2>3. Min(works) \in works
    BY <2>2 DEF Min
  <2>4. Strategies[Min(works)] \in Creatable
    <3>. HIDE DEF Min
    <3>. QED BY <2>1, <2>3
  <2>5. Cuts(Cut(d, Strategies[Min(works)], max), d)
    <3>1. PICK strategy \in Creatable : strategy = Strategies[Min(works)]
      BY <2>4, Zenon
    <3>2. Cuts(Cut(d, strategy, max), d)
      BY CutIsTheDocument
    <3>3. QED BY <3>1, <3>2
  <2>6. QED BY <1>1, <1>3, <2>5
<1>4. QED BY <1>2, <1>3

-----------------------------------------------------------------------------
(* Batches and duplicates                                                  *)

LEMMA BatchesOfASize ==
    ASSUME NEW length \in Nat, NEW size \in Nat, size > 0,
           NEW count, count = (length + size - 1) \div size
    PROVE  /\ count \in Nat /\ length <= count * size
           /\ \A b \in 1..count : (b - 1) * size < length /\ b * size = (b - 1) * size + size
<1>. DEFINE x == length + size - 1
<1>1. x \in Nat
  OBVIOUS
<1>2. count \in Nat /\ size * count <= x /\ x < size * count + size
  <2>. HIDE DEF x
  <2>1. /\ size * (x \div size) <= x /\ x < size * (x \div size) + size
        /\ (x \div size) \in Nat
    BY <1>1
  <2>2. count = x \div size
    BY DEF x
  <2>3. QED BY <2>1, <2>2
<1>3. length <= count * size
  <2>1. length - 1 < size * count
    BY <1>2
  <2>2. size * count = count * size
    BY <1>2
  <2>3. QED BY <1>2, <2>1, <2>2
<1>4. ASSUME NEW b \in 1..count
      PROVE  (b - 1) * size < length /\ b * size = (b - 1) * size + size
  <2>1. b * size = (b - 1) * size + size
    BY <1>2
  <2>2. b * size <= count * size
    BY <1>2
  <2>3. PICK c \in Nat, e \in Nat, g \in Nat : c = (b - 1) * size /\ e = b * size /\ g = count * size
    BY <1>2
  <2>4. g <= length + size - 1
    BY <1>2, <2>3
  <2>5. c < length
    BY <2>1, <2>2, <2>3, <2>4
  <2>6. QED BY <2>1, <2>3, <2>5
<1>5. QED BY <1>2, <1>3, <1>4

\* Chunks that went through the pool in batches are the same, in the same order.
LEMMA BatchesAreGathered ==
    ASSUME NEW cs \in Seq(Chunk) PROVE InBatches(cs) = cs
<1>1. CASE Len(cs) <= 10
  BY <1>1 DEF InBatches
<1>2. CASE ~(Len(cs) <= 10)
  <2>. DEFINE length == Len(cs)
              size == Larger(2, length \div 4)
              count == (length + size - 1) \div size
              upto(b) == Smaller(b * size, length)
              batches == [b \in 1..count |-> SubSeq(cs, (b - 1) * size + 1, upto(b))]
              f == [b \in 0..count |-> SubSeq(cs, 1, upto(b))]
  <2>1. InBatches(cs) = FlattenSeq(batches)
    BY <1>2 DEF InBatches
  <2>2. length \in Nat /\ size \in Nat /\ size > 0
    BY DEF Larger
  <2>. HIDE DEF size, length
  <2>3. /\ count \in Nat /\ length <= count * size
        /\ \A b \in 1..count : (b - 1) * size < length /\ b * size = (b - 1) * size + size
    BY <2>2, BatchesOfASize
  <2>. HIDE DEF count
  <2>4. ASSUME NEW b \in 0..count PROVE upto(b) \in 0..length
    <3>1. b * size \in Nat
      BY <2>2, <2>3
    <3>2. QED BY <2>2, <3>1 DEF Smaller
  <2>5. ASSUME NEW b \in 1..count
        PROVE /\ upto(b - 1) = (b - 1) * size /\ upto(b - 1) \in 0..length
              /\ upto(b) \in upto(b - 1)..length
    <3>1. PICK c \in Nat, e \in Nat : c = (b - 1) * size /\ e = b * size
      BY <2>2, <2>3
    <3>2. c < length /\ e = c + size
      BY <2>3, <3>1
    <3>3. upto(b - 1) = c
      BY <2>2, <3>1, <3>2 DEF Smaller
    <3>4. upto(b) \in c..length
      BY <2>2, <3>1, <3>2 DEF Smaller
    <3>5. QED BY <2>2, <3>1, <3>2, <3>3, <3>4
  <2>. HIDE DEF upto
  <2>6. ASSUME NEW b \in 1..count
        PROVE /\ SubSeq(cs, 1, upto(b - 1)) \o SubSeq(cs, (b - 1) * size + 1, upto(b)) = SubSeq(cs, 1, upto(b))
              /\ SubSeq(cs, (b - 1) * size + 1, upto(b)) \in Seq(Chunk)
    <3>1. PICK k \in 0..length, n \in 0..length : k = upto(b - 1) /\ n = upto(b) /\ n \in k..length /\ k = (b - 1) * size
      BY <2>3, <2>4, <2>5
    <3>2. length = Len(cs)
      BY DEF length
    <3>3. 1 \in 1..Len(cs) + 1 /\ k \in 1 - 1..Len(cs) /\ n \in k..Len(cs)
      BY <2>2, <3>1, <3>2
    <3>4. SubSeq(cs, 1, k) \o SubSeq(cs, k + 1, n) = SubSeq(cs, 1, n)
      BY <3>3, ConcatAdjacentSubSeq
    <3>5. SubSeq(cs, k + 1, n) \in Seq(Chunk)
      <4>1. \A i \in k + 1..n : cs[i] \in Chunk
        BY <3>3
      <4>2. k + 1 \in Int /\ n \in Int
        BY <2>2, <3>1
      <4>3. QED BY <4>1, <4>2, SubSeqProperties
    <3>6. QED BY <3>1, <3>4, <3>5
  <2>7. batches \in Seq(Seq(Chunk)) /\ Len(batches) = count
    <3>1. batches \in [1..count -> Seq(Chunk)]
      BY <2>6
    <3>. HIDE DEF batches
    <3>2. QED BY <2>3, <3>1, ASequence, Zenon
  <2>8. f \in [0..count -> Seq(Chunk)]
    <3>1. ASSUME NEW b \in 0..count PROVE SubSeq(cs, 1, upto(b)) \in Seq(Chunk)
      <4>1. PICK n \in 0..length : n = upto(b)
        BY <2>4
      <4>2. \A i \in 1..n : cs[i] \in Chunk
        BY <2>2 DEF length
      <4>3. n \in Int
        BY <2>2
      <4>4. SubSeq(cs, 1, n) \in Seq(Chunk)
        BY <4>2, <4>3, SubSeqProperties
      <4>5. QED BY <4>1, <4>4
    <3>2. QED BY <3>1
  <2>9. f[0] = <<>>
    <3>1. upto(0) = 0
      BY <2>2 DEF upto, Smaller
    <3>2. 0 \in 0..count
      BY <2>3
    <3>3. f[0] = SubSeq(cs, 1, upto(0))
      BY <3>2
    <3>4. SubSeq(cs, 1, 0) = <<>>
      BY SubSeqEmpty
    <3>. HIDE DEF f
    <3>5. QED BY <3>1, <3>3, <3>4
  <2>10. ASSUME NEW b \in 1..count PROVE f[b] = f[b - 1] \o batches[b]
    <3>1. b \in 0..count /\ b - 1 \in 0..count
      BY <2>3
    <3>2. f[b] = SubSeq(cs, 1, upto(b)) /\ f[b - 1] = SubSeq(cs, 1, upto(b - 1))
      BY <3>1
    <3>3. batches[b] = SubSeq(cs, (b - 1) * size + 1, upto(b))
      OBVIOUS
    <3>. HIDE DEF f, batches
    <3>4. QED BY <2>6, <3>2, <3>3
  <2>11. f[count] = cs
    <3>1. upto(count) = length
      BY <2>2, <2>3 DEF upto, Smaller
    <3>2. f[count] = SubSeq(cs, 1, Len(cs))
      BY <2>3, <3>1 DEF length
    <3>3. QED BY <3>2, SubSeqFull
  <2>. HIDE DEF f, batches
  <2>12. FlattenSeq(batches) = f[count]
    <3>1. f \in [0..Len(batches) -> Seq(Chunk)] /\ \A n \in 1..Len(batches) : f[n] = f[n - 1] \o batches[n]
      BY <2>7, <2>8, <2>10
    <3>2. FlattenSeq(batches) = f[Len(batches)]
      BY <2>7, <2>9, <3>1, FlattenedStepByStep
    <3>3. QED BY <2>7, <3>2
  <2>13. QED BY <2>1, <2>11, <2>12
<1>3. QED BY <1>1, <1>2

\* The place of the first chunk that is `c`.
IsFirst(cs, c, p) == p \in 1..Len(cs) /\ cs[p] = c /\ \A q \in 1..p - 1 : cs[q] # c

FirstPlace(cs, c) == SelectInSeq(cs, LAMBDA x : x = c)

LEMMA TheFirstIsSelected ==
    ASSUME NEW cs \in Seq(Chunk), NEW c, NEW p, IsFirst(cs, c, p)
    PROVE  FirstPlace(cs, c) = p
<1>. DEFINE I == {i \in 1..Len(cs) : cs[i] = c}
<1>1. p \in I /\ \A i \in I : p <= i
  BY DEF IsFirst
<1>2. FirstPlace(cs, c) = IF I # {} THEN Min(I) ELSE 0
  BY DEF FirstPlace, SelectInSeq
<1>3. I \subseteq Nat
  OBVIOUS
<1>. HIDE DEF I
<1>4. Min(I) \in I /\ \A i \in I : Min(I) <= i
  BY <1>1 DEF Min
<1>5. Min(I) = p
  <2>1. PICK m \in I : m = Min(I)
    BY <1>4
  <2>2. m \in Nat /\ p \in Nat /\ m <= p /\ p <= m
    BY <1>1, <1>3, <1>4, <2>1
  <2>3. m = p
    BY <2>2
  <2>4. QED BY <2>1, <2>3
<1>6. QED BY <1>1, <1>2, <1>5

LEMMA AlikeItself ==
    ASSUME NEW c \in Chunk PROVE Alike(c, c)
<1>. DEFINE words == Words(c.content)
            n == Len(c.content)
            word == [i \in 1..n |-> c.content[i].word]
<1>1. n \in Nat /\ DOMAIN c.content = 1..n
  BY DEF Chunk, Text
<1>2. words = {word[i] : i \in 1..n}
  BY <1>1 DEF Words, Range
<1>3. word \in Surjection(1..n, words)
  <2>. HIDE DEF n
  <2>1. word \in [1..n -> words]
    BY <1>2
  <2>. HIDE DEF word, words
  <2>2. QED BY <1>2, <2>1 DEF Surjection
<1>4. IsFiniteSet(1..n)
  BY <1>1, FS_Interval
<1>5. IsFiniteSet(words)
  <2>. HIDE DEF word, words, n
  <2>. QED BY <1>3, <1>4, FS_Surjection
<1>6. Cardinality(words) \in Nat
  <2>. HIDE DEF words
  <2>. QED BY <1>5, FS_CardinalityType
<1>7. words \cap words = words /\ words \cup words = words
  OBVIOUS
<1>8. QED
  <2>. HIDE DEF words
  <2>1. 100 * Cardinality(words) >= 85 * Cardinality(words)
    BY <1>6
  <2>2. QED BY <1>7, <2>1 DEF Alike, words

\* `r` has what the first n chunks are without the duplicates.
Kept(r, cs, n) ==
    /\ r \in Seq(Chunk)
    /\ \A i \in 1..Len(r) : \E p \in 1..n : IsFirst(cs, r[i], p)
    /\ \A i, j \in 1..Len(r) : i < j => \A p, q \in 1..Len(cs) :
          IsFirst(cs, r[i], p) /\ IsFirst(cs, r[j], q) => p < q
    /\ \A p \in 1..n : \E i \in 1..Len(r) : Alike(cs[p], r[i])

LEMMA KeepingOne ==
    ASSUME NEW cs \in Seq(Chunk), NEW n \in 1..Len(cs), NEW r, Kept(r, cs, n - 1),
           ~ \E i \in 1..Len(r) : Alike(cs[n], r[i])
    PROVE  Kept(Append(r, cs[n]), cs, n)
<1>. DEFINE s == Append(r, cs[n])
<1>1. r \in Seq(Chunk) /\ cs[n] \in Chunk
  BY DEF Kept
<1>2. /\ s \in Seq(Chunk) /\ Len(s) = Len(r) + 1 /\ s[Len(r) + 1] = cs[n]
      /\ \A i \in 1..Len(r) : s[i] = r[i]
      /\ Len(r) \in Nat
  BY <1>1, AppendProperties
<1>. HIDE DEF s
<1>3. IsFirst(cs, cs[n], n)
  <2>1. ASSUME NEW q \in 1..n - 1, cs[q] = cs[n] PROVE FALSE
    <3>1. PICK i \in 1..Len(r) : Alike(cs[q], r[i])
      BY DEF Kept
    <3>2. Alike(cs[n], r[i])
      BY <2>1, <3>1
    <3>3. QED BY <3>2
  <2>2. QED BY <2>1 DEF IsFirst
<1>4. ASSUME NEW i \in 1..Len(s) PROVE \E p \in 1..n : IsFirst(cs, s[i], p)
  <2>1. CASE i \in 1..Len(r)
    <3>1. PICK p \in 1..n - 1 : IsFirst(cs, r[i], p)
      BY <2>1 DEF Kept
    <3>2. p \in 1..n
      OBVIOUS
    <3>3. QED BY <1>2, <2>1, <3>1, <3>2
  <2>2. CASE i \notin 1..Len(r)
    <3>1. i = Len(r) + 1 /\ n \in 1..n
      BY <1>2, <2>2
    <3>2. QED BY <1>2, <1>3, <3>1
  <2>3. QED BY <2>1, <2>2
<1>5. ASSUME NEW i \in 1..Len(s), NEW j \in 1..Len(s), i < j,
             NEW p \in 1..Len(cs), NEW q \in 1..Len(cs), IsFirst(cs, s[i], p), IsFirst(cs, s[j], q)
      PROVE  p < q
  <2>1. i \in 1..Len(r)
    BY <1>2, <1>5
  <2>2. CASE j \in 1..Len(r)
    <3>1. IsFirst(cs, r[i], p) /\ IsFirst(cs, r[j], q)
      BY <1>2, <1>5, <2>1, <2>2
    <3>2. QED BY <1>5, <2>1, <2>2, <3>1 DEF Kept
  <2>3. CASE j \notin 1..Len(r)
    <3>1. j = Len(r) + 1
      BY <1>2, <2>3
    <3>2. IsFirst(cs, cs[n], q)
      BY <1>2, <1>5, <3>1
    <3>3. ~(q < n)
      BY <1>3, <3>2 DEF IsFirst
    <3>4. PICK pp \in 1..n - 1 : IsFirst(cs, r[i], pp)
      BY <2>1 DEF Kept
    <3>5. IsFirst(cs, r[i], p)
      BY <1>2, <1>5, <2>1
    <3>6. p <= pp
      BY <3>4, <3>5 DEF IsFirst
    <3>7. QED BY <3>3, <3>4, <3>6
  <2>4. QED BY <2>2, <2>3
<1>6. ASSUME NEW p \in 1..n PROVE \E i \in 1..Len(s) : Alike(cs[p], s[i])
  <2>1. CASE p = n
    <3>1. Alike(cs[n], s[Len(r) + 1])
      BY <1>1, <1>2, AlikeItself
    <3>2. Len(r) + 1 \in 1..Len(s)
      BY <1>2
    <3>3. QED BY <2>1, <3>1, <3>2
  <2>2. CASE p # n
    <3>1. p \in 1..n - 1
      BY <2>2
    <3>2. PICK i \in 1..Len(r) : Alike(cs[p], r[i])
      BY <3>1 DEF Kept
    <3>3. i \in 1..Len(s) /\ s[i] = r[i]
      BY <1>2
    <3>4. QED BY <3>2, <3>3
  <2>3. QED BY <2>1, <2>2
<1>7. Kept(s, cs, n)
  BY <1>2, <1>4, <1>5, <1>6 DEF Kept
<1>8. QED BY <1>7 DEF s

LEMMA DroppingOne ==
    ASSUME NEW cs \in Seq(Chunk), NEW n \in 1..Len(cs), NEW r, Kept(r, cs, n - 1),
           \E i \in 1..Len(r) : Alike(cs[n], r[i])
    PROVE  Kept(r, cs, n)
<1>1. ASSUME NEW i \in 1..Len(r) PROVE \E p \in 1..n : IsFirst(cs, r[i], p)
  <2>1. PICK p \in 1..n - 1 : IsFirst(cs, r[i], p)
    BY DEF Kept
  <2>2. p \in 1..n
    OBVIOUS
  <2>3. QED BY <2>1, <2>2
<1>2. ASSUME NEW p \in 1..n PROVE \E i \in 1..Len(r) : Alike(cs[p], r[i])
  <2>1. p = n \/ p \in 1..n - 1
    OBVIOUS
  <2>2. QED BY <2>1 DEF Kept
<1>3. QED BY <1>1, <1>2 DEF Kept

LEMMA WithoutDuplicatesKeeps ==
    ASSUME NEW cs \in Seq(Chunk) PROVE Kept(WithoutDuplicates(cs), cs, Len(cs))
<1>. DEFINE N == Len(cs)
            duplicate(r, n) == \E k \in Range(r) : Alike(cs[n], k)
            Is(f) == f = [n \in 0..N |-> IF n = 0 THEN <<>>
                                         ELSE IF duplicate(f[n - 1], n) THEN f[n - 1]
                                         ELSE Append(f[n - 1], cs[n])]
            kept == CHOOSE f : Is(f)
            step == [n \in 1..N |-> [r \in Seq(Chunk) |-> IF duplicate(r, n) THEN r ELSE Append(r, cs[n])]]
<1>0. N \in Nat /\ \A n \in 1..N : cs[n] \in Chunk
  OBVIOUS
<1>1. WithoutDuplicates(cs) = kept[N]
  BY DEF WithoutDuplicates
<1>2. ASSUME NEW n \in 1..N, NEW r \in Seq(Chunk)
      PROVE  /\ step[n][r] = IF duplicate(r, n) THEN r ELSE Append(r, cs[n])
             /\ step[n][r] \in Seq(Chunk)
  <2>1. step[n][r] = IF duplicate(r, n) THEN r ELSE Append(r, cs[n])
    <3>. HIDE DEF duplicate
    <3>. QED OBVIOUS
  <2>. HIDE DEF step, duplicate, N
  <2>2. QED BY <1>0, <2>1, AppendProperties
<1>. HIDE DEF duplicate
<1>3. PICK f : Computes(f, N, Seq(Chunk), <<>>, step)
  <2>1. <<>> \in Seq(Chunk)
    OBVIOUS
  <2>. HIDE DEF N, step
  <2>2. QED BY <1>0, <1>2, <2>1, Loop
<1>4. Is(f)
  <2>. HIDE DEF step, N
  <2>1. ASSUME NEW n \in 0..N
        PROVE  f[n] = IF n = 0 THEN <<>> ELSE IF duplicate(f[n - 1], n) THEN f[n - 1]
                      ELSE Append(f[n - 1], cs[n])
    <3>1. CASE n = 0
      BY <1>3, <3>1 DEF Computes
    <3>2. CASE n # 0
      <4>1. n \in 1..N /\ n - 1 \in 0..N
        BY <1>0, <3>2
      <4>2. f[n] = step[n][f[n - 1]] /\ f[n - 1] \in Seq(Chunk)
        BY <1>3, <4>1 DEF Computes
      <4>3. QED BY <1>2, <3>2, <4>1, <4>2
    <3>3. QED BY <3>1, <3>2
  <2>2. f = [n \in 0..N |-> f[n]]
    BY <1>3 DEF Computes
  <2>3. QED BY <2>1, <2>2
<1>5. Is(kept)
  <2>. HIDE DEF Is
  <2>. QED BY <1>4
<1>. HIDE DEF kept, step
<1>. DEFINE S == {n \in 0..N : Kept(kept[n], cs, n)}
<1>6. 0 \in S
  <2>1. kept[0] = <<>>
    <3>1. 0 \in 0..N
      BY <1>0
    <3>. HIDE DEF N
    <3>2. QED BY <1>5, <3>1
  <2>2. Kept(<<>>, cs, 0)
    BY DEF Kept
  <2>3. QED BY <1>0, <2>1, <2>2
<1>7. ASSUME NEW n \in 1..N, n - 1 \in S PROVE n \in S
  <2>1. Kept(kept[n - 1], cs, n - 1) /\ n \in 0..N
    BY <1>7
  <2>2. PICK r \in Seq(Chunk) : r = kept[n - 1]
    BY <2>1 DEF Kept
  <2>3. kept[n] = IF duplicate(r, n) THEN r ELSE Append(r, cs[n])
    <3>1. n # 0
      OBVIOUS
    <3>. HIDE DEF N
    <3>2. QED BY <1>5, <2>1, <2>2, <3>1
  <2>4. duplicate(r, n) <=> \E i \in 1..Len(r) : Alike(cs[n], r[i])
    <3>1. Range(r) = {r[i] : i \in 1..Len(r)}
      BY DEF Range
    <3>2. QED BY <3>1 DEF duplicate
  <2>5. Kept(kept[n], cs, n)
    <3>1. CASE duplicate(r, n)
      BY <2>1, <2>2, <2>3, <2>4, <3>1, DroppingOne
    <3>2. CASE ~duplicate(r, n)
      <4>1. Kept(Append(r, cs[n]), cs, n)
        BY <2>1, <2>2, <2>4, <3>2, KeepingOne
      <4>2. QED BY <2>3, <3>2, <4>1
    <3>3. QED BY <3>1, <3>2
  <2>6. QED BY <2>1, <2>5
<1>8. N \in S
  <2>. HIDE DEF S, N
  <2>1. 0..N \subseteq S
    BY <1>0, <1>6, <1>7, Upwards
  <2>2. QED BY <1>0, <2>1
<1>9. QED BY <1>1, <1>8

\* What the removal of duplicates keeps.
Keeps(cs, all) ==
    /\ \/ cs = all
       \/ /\ Range(cs) \subseteq Range(all)
          /\ \A i, j \in DOMAIN cs : i < j => FirstPlace(all, cs[i]) < FirstPlace(all, cs[j])
    /\ \A c \in Range(all) \ Range(cs) : \E k \in Range(cs) : Alike(c, k)

LEMMA WithoutDuplicatesIsTheRest ==
    ASSUME NEW all \in Seq(Chunk)
    PROVE  WithoutDuplicates(all) \in Seq(Chunk) /\ Keeps(WithoutDuplicates(all), all)
<1>1. PICK r \in Seq(Chunk) : r = WithoutDuplicates(all) /\ Kept(r, all, Len(all))
  BY WithoutDuplicatesKeeps DEF Kept
<1>2. /\ Range(r) = {r[i] : i \in 1..Len(r)} /\ DOMAIN r = 1..Len(r)
      /\ Range(all) = {all[i] : i \in 1..Len(all)}
  BY DEF Range
<1>3. Range(r) \subseteq Range(all)
  BY <1>1, <1>2 DEF Kept, IsFirst
<1>4. ASSUME NEW i \in DOMAIN r, NEW j \in DOMAIN r, i < j
      PROVE  FirstPlace(all, r[i]) < FirstPlace(all, r[j])
  <2>1. PICK p \in 1..Len(all), q \in 1..Len(all) : IsFirst(all, r[i], p) /\ IsFirst(all, r[j], q)
    BY <1>1, <1>2 DEF Kept
  <2>2. p < q
    BY <1>1, <1>2, <1>4, <2>1 DEF Kept
  <2>3. FirstPlace(all, r[i]) = p /\ FirstPlace(all, r[j]) = q
    BY <2>1, TheFirstIsSelected
  <2>4. QED BY <2>2, <2>3
<1>5. ASSUME NEW c \in Range(all) PROVE \E k \in Range(r) : Alike(c, k)
  BY <1>1, <1>2 DEF Kept
<1>6. Keeps(r, all)
  BY <1>3, <1>4, <1>5 DEF Keeps
<1>7. QED BY <1>1, <1>6

-----------------------------------------------------------------------------
(* How a chunk ends                                                        *)

LEMMA TheRestIsASuffix ==
    ASSUME NEW A, NEW s \in Seq(A), NEW t \in Seq(A)
    PROVE  IsSuffix(s, t \o s)
<1>. DEFINE ts == t \o s
<1>1. /\ ts \in Seq(A) /\ Len(ts) = Len(t) + Len(s)
      /\ \A i \in 1..Len(s) : ts[Len(t) + i] = s[i]
      /\ Len(s) \in Nat /\ Len(t) \in Nat
  BY ConcatProperties
<1>. HIDE DEF ts
<1>2. Reverse(s) \in [1..Len(s) -> A] /\ Reverse(ts) \in [1..Len(ts) -> A]
  <2>1. ASSUME NEW i \in 1..Len(s) PROVE s[Len(s) - i + 1] \in A
    <3>1. Len(s) - i + 1 \in 1..Len(s)
      BY <1>1
    <3>2. QED BY <3>1
  <2>2. ASSUME NEW i \in 1..Len(ts) PROVE ts[Len(ts) - i + 1] \in A
    <3>1. Len(ts) - i + 1 \in 1..Len(ts)
      BY <1>1
    <3>2. QED BY <1>1, <3>1
  <2>3. QED BY <2>1, <2>2 DEF Reverse
<1>3. PICK v \in Seq(A), w \in Seq(A) : v = Reverse(s) /\ w = Reverse(ts)
                                        /\ Len(v) = Len(s) /\ Len(w) = Len(ts)
  <2>1. PICK m \in Nat, n \in Nat : m = Len(s) /\ n = Len(ts)
    BY <1>1, SMTT(30)
  <2>2. PICK f \in [1..m -> A], g \in [1..n -> A] : f = Reverse(s) /\ g = Reverse(ts)
    BY <1>2, <2>1
  <2>3. f \in Seq(A) /\ Len(f) = m /\ g \in Seq(A) /\ Len(g) = n
    BY <2>2, ASequence
  <2>4. QED BY <2>1, <2>2, <2>3
<1>4. ASSUME NEW i \in 1..Len(s) PROVE w[i] = v[i]
  <2>1. v[i] = s[Len(s) - i + 1]
    BY <1>3 DEF Reverse
  <2>2. i \in 1..Len(ts)
    BY <1>1
  <2>3. w[i] = ts[Len(ts) - i + 1]
    BY <1>3, <2>2 DEF Reverse
  <2>4. PICK j \in 1..Len(s) : j = Len(s) - i + 1
    <3>1. PICK n \in Nat : n = Len(s)
      BY <1>1
    <3>2. i \in 1..n
      BY <3>1
    <3>3. n - i + 1 \in 1..n
      BY <3>2
    <3>4. QED BY <3>1, <3>3
  <2>5. Len(ts) - i + 1 = Len(t) + j
    <3>1. Len(ts) = Len(t) + Len(s)
      BY <1>1
    <3>. HIDE DEF ts
    <3>2. PICK a \in Nat, b \in Nat : a = Len(t) /\ b = Len(s)
      BY <1>1
    <3>3. Len(ts) = a + b /\ i \in Int /\ j = b - i + 1
      BY <2>4, <3>1, <3>2
    <3>4. Len(ts) - i + 1 = a + j
      BY <3>3
    <3>5. QED BY <3>2, <3>4
  <2>6. ts[Len(ts) - i + 1] = s[j]
    BY <1>1, <2>5
  <2>7. QED BY <2>1, <2>3, <2>4, <2>6
<1>5. SubSeq(v, 1, Len(v)) = SubSeq(w, 1, Len(v)) /\ Len(v) <= Len(w)
  <2>0. Len(v) <= Len(w)
    BY <1>1, <1>3
  <2>1. /\ \A i \in 1..Len(v) : v[i] \in A /\ w[i] \in A /\ v[i] = w[i]
        /\ 1 \in Int /\ Len(v) \in Int
    BY <1>1, <1>3, <1>4
  <2>2. /\ SubSeq(v, 1, Len(v)) \in Seq(A) /\ SubSeq(w, 1, Len(v)) \in Seq(A)
        /\ Len(SubSeq(v, 1, Len(v))) = Len(v) /\ Len(SubSeq(w, 1, Len(v))) = Len(v)
        /\ \A i \in 1..Len(v) : SubSeq(v, 1, Len(v))[i] = v[i] /\ SubSeq(w, 1, Len(v))[i] = w[i]
    BY <2>0, <2>1
  <2>3. PICK x \in Seq(A), y \in Seq(A) : x = SubSeq(v, 1, Len(v)) /\ y = SubSeq(w, 1, Len(v))
    BY <2>2
  <2>4. x = y
    BY <2>1, <2>2, <2>3, SeqEqual
  <2>5. QED BY <2>0, <2>3, <2>4
<1>6. QED BY <1>3, <1>5 DEF IsSuffix, IsPrefix, ts

LEMMA AChunkEndsWithItsOwn ==
    ASSUME NEW c \in Chunk PROVE IsSuffix(Spoken(c.own), Spoken(c.content))
<1>1. PICK t \in Text, u \in Text : c.content = t \o u /\ u = c.own
  BY DEF Chunk
<1>2. /\ Spoken(t \o u) = Spoken(t) \o Spoken(u)
      /\ Spoken(t) \in Seq(Word) /\ Spoken(u) \in Seq(Word)
  BY SpokenConcatenates
<1>3. IsSuffix(Spoken(u), Spoken(t) \o Spoken(u))
  BY <1>2, TheRestIsASuffix
<1>4. QED BY <1>1, <1>2, <1>3

-----------------------------------------------------------------------------
(* The document                                                            *)

LEMMA AllIsKept ==
    ASSUME NEW cs PROVE Keeps(cs, cs)
BY DEF Keeps

\* What the chunks have of the document, while they are cut, overlapped and freed
\* of duplicates, and after.
Accounted ==
    /\ doc \in Document
    /\ chunks \in Seq(Chunk)
    /\ stage \in {"cut", "plan"} => cut = <<>> /\ chunks = <<>>
    /\ stage \in {"overlap", "optimize"} => cut = <<>> /\ Cuts(chunks, doc)
    /\ IF cut = <<>> THEN chunks = <<>> \/ Cuts(chunks, doc)
       ELSE Cuts(cut, doc) /\ Keeps(chunks, cut)

\* The chunks once they are there.
Counted(cs, all, d) ==
    /\ cs \in Seq(Chunk)
    /\ IF all = <<>> THEN cs = <<>> \/ Cuts(cs, d) ELSE Cuts(all, d) /\ Keeps(cs, all)

LEMMA CutsAreCounted ==
    ASSUME NEW d, NEW cs, Cuts(cs, d) PROVE Counted(cs, cs, d)
BY AllIsKept DEF Cuts, Counted

LEMMA InitAccounted == Init => Accounted
<1>1. <<>> \in Seq(Chunk)
  OBVIOUS
<1>2. QED BY <1>1, DocumentsAssumption DEF Init, Accounted

LEMMA OverlapAccounted ==
    ASSUME Accounted, Overlap PROVE Cuts(chunks', doc)
<1>1. chunks \in Seq(Chunk) /\ Cuts(chunks, doc)
  BY DEF Accounted, Overlap
<1>2. PICK cs : cs = AdvancedOverlap(doc, chunks)
  OBVIOUS
<1>3. cs \in Seq(Chunk) /\ Owns(cs) = Owns(chunks)
  BY <1>1, <1>2, AdvancedOverlapKeepsTheOwn
<1>4. Cuts(cs, doc)
  BY <1>1, <1>3 DEF Cuts, Added
<1>5. QED BY <1>2, <1>4 DEF Overlap

LEMMA OptimizeAccounted ==
    ASSUME Accounted, Optimize PROVE Counted(chunks', cut', doc)
<1>1. chunks \in Seq(Chunk) /\ Cuts(chunks, doc)
  BY DEF Accounted, Optimize
<1>2. PICK cs : cs = WithoutDuplicates(chunks)
  OBVIOUS
<1>3. chunks' = cs /\ cut' = chunks
  BY <1>1, <1>2, BatchesAreGathered DEF Optimize
<1>4. cs \in Seq(Chunk) /\ Keeps(cs, chunks)
  BY <1>1, <1>2, WithoutDuplicatesIsTheRest
<1>5. CASE chunks # <<>>
  BY <1>1, <1>3, <1>4, <1>5 DEF Counted
<1>6. CASE chunks = <<>>
  <2>1. Range(chunks) = {}
    BY <1>6 DEF Range
  <2>2. cs = <<>>
    <3>1. cs = chunks \/ Range(cs) \subseteq Range(chunks)
      BY <1>4 DEF Keeps
    <3>2. CASE Range(cs) \subseteq Range(chunks)
      <4>1. \A i \in 1..Len(cs) : cs[i] \in Range(cs)
        BY <1>4 DEF Range
      <4>2. 1 \notin 1..Len(cs)
        BY <2>1, <3>2, <4>1
      <4>3. QED BY <1>4, <4>2
    <3>3. QED BY <1>6, <3>1, <3>2
  <2>3. QED BY <1>3, <1>4, <1>6, <2>2 DEF Counted
<1>7. QED BY <1>5, <1>6

LEMMA NextAccounted ==
    ASSUME Accounted, [Next]_vars PROVE Accounted'
<1>1. doc \in Document /\ doc' = doc
  BY DEF Accounted, Next, vars, Execute, Overlap, Optimize, OrchestratorFails, Plan, Assess, StoreDocument,
     StoreChunk, StoreFails, GenerateBatch, Generated, StoreEmbedding, StoreEmbeddingFails,
     EmbeddingsStored, Sync, StoreLegacy, LegacyStored
<1>2. CASE Execute
  <2>1. Cuts(chunks', doc) /\ cut' = <<>> /\ stage' = "overlap"
    BY <1>1, <1>2, CutWithFallbackIsTheDocument DEF Execute, Goto, Accounted
  <2>2. chunks' \in Seq(Chunk)
    BY <2>1 DEF Cuts
  <2>3. QED BY <1>1, <2>1, <2>2 DEF Accounted
<1>3. CASE Overlap
  <2>1. Cuts(chunks', doc) /\ cut' = <<>> /\ stage' = "optimize"
    BY <1>3, OverlapAccounted DEF Overlap, Goto, Accounted
  <2>2. chunks' \in Seq(Chunk)
    BY <2>1 DEF Cuts
  <2>3. QED BY <1>1, <2>1, <2>2 DEF Accounted
<1>4. CASE Optimize
  <2>1. Counted(chunks', cut', doc) /\ stage' = "store_document"
    BY <1>4, OptimizeAccounted DEF Optimize, Goto
  <2>2. QED BY <1>1, <2>1 DEF Accounted, Counted
<1>5. CASE OrchestratorFails
  <2>1. cut' = <<>> /\ chunks' = <<>> /\ stage' = "plan"
    BY <1>5 DEF OrchestratorFails, Accounted
  <2>2. <<>> \in Seq(Chunk)
    OBVIOUS
  <2>3. QED BY <1>1, <2>1, <2>2 DEF Accounted
<1>6. CASE Plan
  <2>1. CASE Recommended(doc) \in Creatable
    <3>1. PICK cs : cs = Cut(doc, Recommended(doc), MaxSize(doc))
      OBVIOUS
    <3>2. Cuts(cs, doc)
      BY <1>1, <2>1, <3>1, CutIsTheDocument
    <3>3. chunks' = cs /\ cut' = cs /\ stage' = "generate"
      BY <1>6, <2>1, <3>1 DEF Plan, Goto
    <3>4. Counted(cs, cs, doc)
      BY <3>2, CutsAreCounted
    <3>5. QED BY <1>1, <3>3, <3>4 DEF Accounted, Counted
  <2>2. CASE Recommended(doc) \notin Creatable
    <3>1. chunks' = chunks /\ cut' = cut /\ stage' = "sync"
      BY <1>6, <2>2 DEF Plan
    <3>2. QED BY <1>1, <3>1 DEF Accounted
  <2>3. QED BY <2>1, <2>2
<1>7. CASE Sync
  <2>1. PICK cs : cs = SentenceChunks(doc)
    OBVIOUS
  <2>2. Cuts(cs, doc)
    BY <1>1, <2>1, SentenceChunksAreTheDocument DEF Cuts
  <2>3. chunks' = cs /\ cut' = cs /\ stage' = "store_legacy"
    BY <1>7, <2>1 DEF Sync, Goto
  <2>4. Counted(cs, cs, doc)
    BY <2>2, CutsAreCounted
  <2>5. QED BY <1>1, <2>3, <2>4 DEF Accounted, Counted
<1>8. CASE \/ \E good \in BOOLEAN : Assess(good)
           \/ StoreDocument \/ StoreChunk \/ StoreFails
           \/ GenerateBatch \/ Generated
           \/ StoreEmbedding \/ StoreEmbeddingFails \/ EmbeddingsStored
           \/ StoreLegacy \/ LegacyStored
  <2>1. chunks' = chunks /\ cut' = cut
    BY <1>8 DEF Assess, StoreDocument, StoreChunk, StoreFails, GenerateBatch, Generated, StoreEmbedding,
       StoreEmbeddingFails, EmbeddingsStored, StoreLegacy, LegacyStored, pipeline
  <2>2. stage' \notin {"cut", "plan", "overlap", "optimize"}
    BY <1>8 DEF Assess, StoreDocument, StoreChunk, StoreFails, GenerateBatch, Generated, StoreEmbedding,
       StoreEmbeddingFails, EmbeddingsStored, StoreLegacy, LegacyStored, pipeline, Goto, AfterStore
  <2>3. QED BY <1>1, <2>1, <2>2 DEF Accounted
<1>9. CASE UNCHANGED vars
  BY <1>9 DEF vars, pipeline, Accounted
<1>10. QED
  BY <1>2, <1>3, <1>4, <1>5, <1>6, <1>7, <1>8, <1>9 DEF Next

LEMMA AccountedIsTheDocument ==
    ASSUME Accounted PROVE ChunksAreTheDocument
<1>. DEFINE all == IF cut = <<>> THEN chunks ELSE cut
<1>. SUFFICES ASSUME all # <<>>
     PROVE /\ Spoken(FlattenSeq([i \in DOMAIN all |-> all[i].own])) = Spoken(TextOf(doc.sentences))
           /\ \A c \in Range(all) : IsSuffix(Spoken(c.own), Spoken(c.content))
           /\ \/ chunks = all
              \/ /\ Range(chunks) \subseteq Range(all)
                 /\ \A i, j \in DOMAIN chunks : i < j =>
                      FirstPlace(all, chunks[i]) < FirstPlace(all, chunks[j])
           /\ \A c \in Range(all) \ Range(chunks) : \E k \in Range(chunks) : Alike(c, k)
  <2>. HIDE DEF all
  <2>. QED BY DEF ChunksAreTheDocument, FirstPlace, all
<1>1. Cuts(all, doc) /\ Keeps(chunks, all)
  <2>1. CASE cut = <<>>
    BY <2>1, AllIsKept DEF Accounted
  <2>2. CASE cut # <<>>
    BY <2>2 DEF Accounted
  <2>3. QED BY <2>1, <2>2
<1>. HIDE DEF all
<1>2. Spoken(FlattenSeq([i \in DOMAIN all |-> all[i].own])) = Spoken(TextOf(doc.sentences))
  BY <1>1 DEF Cuts, Added, Owns
<1>3. ASSUME NEW c \in Range(all) PROVE IsSuffix(Spoken(c.own), Spoken(c.content))
  <2>1. c \in Chunk
    BY <1>1 DEF Cuts, Range
  <2>2. QED BY <2>1, AChunkEndsWithItsOwn
<1>4. QED BY <1>1, <1>2, <1>3 DEF Keeps

\* For any documents, whichever of the strategies cuts one and whatever fails on the
\* way: the chunks' own texts are the document, in order and once, each chunk ends
\* with its own text, and what the removal of duplicates drops is nearly in a chunk
\* that stays, the others in their order.
THEOREM ChunksAreAlwaysTheDocument == Spec => []ChunksAreTheDocument
<1>1. Init => Accounted
  BY InitAccounted
<1>2. Accounted /\ [Next]_vars => Accounted'
  BY NextAccounted
<1>3. Accounted => ChunksAreTheDocument
  BY AccountedIsTheDocument
<1>4. QED BY <1>1, <1>2, <1>3, PTL DEF Spec

-----------------------------------------------------------------------------
(* The nodes                                                               *)

\* A node of a chunk, by its number.
Node == [id : Nat, content : Text, embedding : Text \cup {None}]
Embedding == [id : Nat, of : Nat]

\* Which path takes which step.
OnItsPath ==
    /\ stage \in {"cut", "overlap", "optimize"} => path = "orchestrator"
    /\ stage \in {"plan", "assess"} => path = "original"
    /\ stage \in {"sync", "store_legacy"} => path = "sync"
    /\ path = "sync" => stage \in {"sync", "store_legacy", "done"}
    /\ path \in {"orchestrator", "original", "sync"}
    /\ stage \in {"cut", "overlap", "optimize", "plan", "generate", "assess", "store_document", "store_chunk",
                  "store_embedding", "sync", "store_legacy", "done"}

NoNodesYet ==
    \/ stage \in {"cut", "overlap", "optimize", "plan", "assess", "store_document"}
    \/ path = "original" /\ stage = "generate"
    \/ path = "sync"

NoEmbeddingsYet ==
    \/ stage \in {"cut", "overlap", "optimize", "plan"}
    \/ path = "orchestrator" /\ stage \in {"store_document", "store_chunk"}

\* The nodes are the first chunks', the embeddings are of the chunks of their nodes.
NodesSound ==
    /\ nodes \in Seq(Node) /\ Len(nodes) <= Len(chunks)
    /\ \A i \in 1..Len(nodes) :
          /\ nodes[i].id = i
          /\ nodes[i].content = Redact(chunks[i].content)
          /\ nodes[i].embedding \in {None, chunks[i].content}

EmbeddingsSound ==
    /\ embeddings \in Seq(Embedding)
    /\ \A k \in 1..Len(embeddings) :
          embeddings[k].of \in 1..Len(chunks) /\ embeddings[k].id = embeddings[k].of

\* An embedding of the i-th chunk waits to be stored.
Waiting(i) == \E k \in 1..Len(embeddings) : embeddings[k].of = i
Embedded(i) == i \in 1..Len(nodes) /\ nodes[i].embedding # None

\* The chunks are all stored.
AllStored ==
    \/ path = "orchestrator" /\ stage = "generate"
    \/ stage = "store_embedding"
    \/ path # "sync" /\ stage = "done"

\* What there is when no call has failed.
Complete ==
    /\ stage = "generate" => \A i \in 1..tried : Waiting(i)
    /\ path = "original" /\ stage \in {"assess", "store_document", "store_chunk"} =>
          \A i \in 1..Len(chunks) : Waiting(i)
    /\ stage = "store_embedding" => \A i \in 1..Len(chunks) : Waiting(i) \/ Embedded(i)
    /\ AllStored => Len(nodes) = Len(chunks)
    /\ path # "sync" /\ stage = "done" => \A i \in 1..Len(chunks) : Embedded(i)

\* Nothing is there before its step, and the orchestrator stores for the uploader.
InTurn ==
    /\ NoNodesYet => nodes = <<>>
    /\ stage = "store_chunk" => Len(nodes) < Len(chunks)
    /\ NoEmbeddingsYet => embeddings = <<>> /\ tried = 0
    /\ path = "sync" => embeddings = <<>>
    /\ tried \in Nat /\ failures \in Nat
    /\ path = "orchestrator" => owner \in {"absent", Tenant}

\* The inductive invariant: a failure may leave less, never something else.
AsStored == OnItsPath /\ NodesSound /\ EmbeddingsSound /\ InTurn /\ (failures = 0 => Complete)

LEMMA RedactIsAText ==
    ASSUME NEW t \in Text PROVE Redact(t) \in Text
<1>1. DOMAIN t = 1..Len(t) /\ Len(t) \in Nat
  BY DEF Text
<1>2. ASSUME NEW i \in 1..Len(t) PROVE Redact(t)[i] \in Unit
  <2>1. PICK u \in Unit : u = t[i]
    BY DEF Text
  <2>2. Redact(t)[i] = IF u.word \in Private THEN [u EXCEPT !.word = None] ELSE u
    BY <1>1, <2>1 DEF Redact
  <2>3. [u EXCEPT !.word = None] \in Unit
    BY DEF Unit
  <2>4. QED BY <2>2, <2>3
<1>3. Redact(t) \in [1..Len(t) -> Unit]
  BY <1>1, <1>2 DEF Redact
<1>4. Redact(t) \in Seq(Unit)
  BY <1>1, <1>3, ASequence, Zenon
<1>5. QED BY <1>4 DEF Text

LEMMA NothingIsSound ==
    ASSUME NEW cs \in Seq(Chunk), chunks = cs
    PROVE  /\ nodes = <<>> => NodesSound
           /\ embeddings = <<>> => EmbeddingsSound
<1>1. Len(cs) \in Nat /\ Len(<<>>) = 0 /\ <<>> \in Seq(Node) /\ <<>> \in Seq(Embedding)
  OBVIOUS
<1>2. nodes = <<>> => NodesSound
  BY <1>1 DEF NodesSound
<1>3. embeddings = <<>> => EmbeddingsSound
  BY <1>1 DEF EmbeddingsSound
<1>4. QED BY <1>2, <1>3

LEMMA ANodeIsStored ==
    ASSUME chunks \in Seq(Chunk), NodesSound, StoreChunk, Len(nodes) < Len(chunks)
    PROVE  NodesSound' /\ Len(nodes') = Len(nodes) + 1 /\ Len(nodes) \in Nat
<1>1. PICK ns \in Seq(Node), cs \in Seq(Chunk) : ns = nodes /\ cs = chunks
  BY DEF NodesSound
<1>. DEFINE i == Len(ns) + 1
            node == [id |-> i, content |-> Redact(cs[i].content), embedding |-> None]
<1>2. Len(ns) \in Nat /\ i \in 1..Len(cs)
  BY <1>1
<1>3. node \in Node
  <2>1. cs[i].content \in Text
    BY <1>2 DEF Chunk
  <2>2. Redact(cs[i].content) \in Text
    BY <2>1, RedactIsAText
  <2>3. QED BY <1>2, <2>2 DEF Node
<1>4. nodes' = Append(ns, node) /\ chunks' = cs
  BY <1>1 DEF StoreChunk, ChunkIndex
<1>5. /\ Append(ns, node) \in Seq(Node) /\ Len(Append(ns, node)) = Len(ns) + 1
      /\ Append(ns, node)[Len(ns) + 1] = node
      /\ \A k \in 1..Len(ns) : Append(ns, node)[k] = ns[k]
  <2>. HIDE DEF node
  <2>. QED BY <1>3, AppendProperties
<1>6. ASSUME NEW k \in 1..Len(nodes')
      PROVE  /\ nodes'[k].id = k
             /\ nodes'[k].content = Redact(cs[k].content)
             /\ nodes'[k].embedding \in {None, cs[k].content}
  <2>1. CASE k \in 1..Len(ns)
    BY <1>1, <1>4, <1>5, <2>1 DEF NodesSound
  <2>2. CASE k \notin 1..Len(ns)
    <3>1. k = i
      BY <1>2, <1>4, <1>5, <2>2
    <3>2. nodes'[k] = node
      BY <1>4, <1>5, <3>1
    <3>3. QED BY <3>1, <3>2
  <2>3. QED BY <2>1, <2>2
<1>7. Len(nodes') <= Len(cs)
  BY <1>2, <1>4, <1>5
<1>8. QED BY <1>1, <1>2, <1>4, <1>5, <1>6, <1>7 DEF NodesSound

LEMMA AnEmbeddingIsStored ==
    ASSUME chunks \in Seq(Chunk), NodesSound, EmbeddingsSound, StoreEmbedding
    PROVE  /\ NodesSound' /\ EmbeddingsSound' /\ Len(nodes') = Len(nodes)
           /\ \A i : Embedded(i) => Embedded(i)'
           /\ \A i \in 1..Len(nodes) : Waiting(i) => Waiting(i)' \/ Embedded(i)'
<1>1. PICK ns \in Seq(Node), cs \in Seq(Chunk), es \in Seq(Embedding) :
           ns = nodes /\ cs = chunks /\ es = embeddings /\ es # <<>>
  BY DEF NodesSound, EmbeddingsSound, StoreEmbedding
<1>2. Len(ns) \in Nat /\ Len(cs) \in Nat /\ DOMAIN ns = 1..Len(ns)
  OBVIOUS
<1>3. /\ Tail(es) \in Seq(Embedding) /\ Len(es) \in Nat /\ Len(Tail(es)) = Len(es) - 1
      /\ Head(es) = es[1] /\ 1 \in 1..Len(es)
      /\ \A k \in 1..Len(Tail(es)) : Tail(es)[k] = es[k + 1]
  BY <1>1, HeadTailProperties
<1>4. PICK e \in Embedding : e = Head(es) /\ e.of \in 1..Len(cs) /\ e.id = e.of
  BY <1>1, <1>3 DEF EmbeddingsSound
<1>5. cs[e.of].content \in Text /\ cs[e.of].content # None
  <2>1. cs[e.of].content \in Text
    BY <1>4 DEF Chunk
  <2>2. QED BY <2>1, NoneAssumption DEF Text
<1>. DEFINE Stored(n) == IF ns[n].id = e.id THEN [ns[n] EXCEPT !.embedding = cs[e.of].content] ELSE ns[n]
<1>6. /\ nodes' = [n \in 1..Len(ns) |-> Stored(n)]
      /\ embeddings' = Tail(es) /\ chunks' = cs
  BY <1>1, <1>2, <1>4 DEF StoreEmbedding, pipeline
<1>7. ASSUME NEW n \in 1..Len(ns)
      PROVE  /\ Stored(n) \in Node
             /\ Stored(n).id = n
             /\ Stored(n).content = Redact(cs[n].content)
             /\ Stored(n).embedding \in {None, cs[n].content}
             /\ Stored(n).embedding = None => ns[n].embedding = None /\ n # e.of
  <2>1. PICK node \in Node : node = ns[n]
    OBVIOUS
  <2>2. /\ node.id = n /\ node.content = Redact(cs[n].content)
        /\ node.embedding \in {None, cs[n].content}
    BY <1>1, <2>1 DEF NodesSound
  <2>3. CASE n = e.of
    <3>1. Stored(n) = [node EXCEPT !.embedding = cs[e.of].content]
      BY <1>4, <2>1, <2>2, <2>3
    <3>2. PICK text \in Text : text = cs[e.of].content /\ text # None
      BY <1>5
    <3>3. Stored(n) = [node EXCEPT !.embedding = text]
      BY <3>1, <3>2
    <3>4. PICK stored : stored = Stored(n)
      OBVIOUS
    <3>5. stored = [node EXCEPT !.embedding = text]
      BY <3>3, <3>4
    <3>6. /\ stored \in Node /\ stored.id = node.id /\ stored.content = node.content
          /\ stored.embedding = text
      BY <3>5 DEF Node
    <3>7. text = cs[n].content
      BY <2>3, <3>2
    <3>. HIDE DEF Stored
    <3>8. QED BY <2>2, <3>2, <3>4, <3>6, <3>7
  <2>4. CASE n # e.of
    <3>1. Stored(n) = node
      BY <1>4, <2>1, <2>2, <2>4
    <3>2. QED BY <2>1, <2>2, <2>4, <3>1
  <2>5. QED BY <2>3, <2>4
<1>. HIDE DEF Stored
<1>8. nodes' \in Seq(Node) /\ Len(nodes') = Len(ns)
  <2>1. PICK len \in Nat : len = Len(ns)
    BY <1>2
  <2>2. PICK f : f = [n \in 1..len |-> Stored(n)]
    OBVIOUS
  <2>3. f \in [1..len -> Node]
    BY <1>7, <2>1, <2>2
  <2>4. f \in Seq(Node) /\ Len(f) = len
    BY <2>3, ASequence
  <2>5. QED BY <1>6, <2>1, <2>2, <2>4, SMTT(30)
<1>9. NodesSound'
  <2>1. \A n \in 1..Len(ns) : nodes'[n] = Stored(n)
    BY <1>6
  <2>2. Len(nodes') <= Len(chunks')
    BY <1>1, <1>6, <1>8 DEF NodesSound
  <2>3. QED BY <1>6, <1>7, <1>8, <2>1, <2>2 DEF NodesSound
<1>10. EmbeddingsSound'
  <2>1. ASSUME NEW k \in 1..Len(Tail(es))
        PROVE  Tail(es)[k].of \in 1..Len(cs) /\ Tail(es)[k].id = Tail(es)[k].of
    <3>1. k + 1 \in 1..Len(es) /\ Tail(es)[k] = es[k + 1]
      BY <1>3
    <3>2. QED BY <1>1, <3>1 DEF EmbeddingsSound
  <2>2. QED BY <1>3, <1>6, <2>1 DEF EmbeddingsSound
<1>11. ASSUME NEW i, Embedded(i) PROVE Embedded(i)'
  <2>1. i \in 1..Len(ns) /\ ns[i].embedding # None
    BY <1>1, <1>11 DEF Embedded
  <2>2. nodes'[i].embedding # None
    BY <1>6, <1>7, <2>1
  <2>3. QED BY <1>8, <2>1, <2>2 DEF Embedded
<1>12. ASSUME NEW i \in 1..Len(nodes), Waiting(i) PROVE Waiting(i)' \/ Embedded(i)'
  <2>1. PICK k \in 1..Len(es) : es[k].of = i
    BY <1>1, <1>12 DEF Waiting
  <2>2. CASE k = 1
    <3>1. i \in 1..Len(ns) /\ i = e.of
      BY <1>1, <1>3, <1>4, <2>1, <2>2
    <3>2. nodes'[i].embedding # None
      BY <1>6, <1>7, <3>1
    <3>3. QED BY <1>8, <3>1, <3>2 DEF Embedded
  <2>3. CASE k # 1
    <3>1. PICK l \in 1..Len(Tail(es)) : l = k - 1
      BY <1>3, <2>3
    <3>2. Tail(es)[l] = es[k]
      BY <1>3, <3>1
    <3>3. QED BY <1>6, <2>1, <3>2 DEF Waiting
  <2>4. QED BY <2>2, <2>3
<1>13. QED BY <1>1, <1>8, <1>9, <1>10, <1>11, <1>12

LEMMA ABatchIsGenerated ==
    ASSUME chunks \in Seq(Chunk), EmbeddingsSound, tried \in Nat, failures \in Nat, GenerateBatch
    PROVE  /\ EmbeddingsSound' /\ tried' \in Nat /\ failures' \in Nat
           /\ \A i : Waiting(i) => Waiting(i)'
           /\ failures' = 0 => failures = 0 /\ \A i \in tried + 1..tried' : Waiting(i)'
<1>1. PICK es \in Seq(Embedding), cs \in Seq(Chunk) : es = embeddings /\ cs = chunks
  BY DEF EmbeddingsSound
<1>2. PICK last \in Nat : last = Smaller(tried + 5, Len(cs)) /\ last <= Len(cs) /\ tried < last
  BY <1>1 DEF Smaller, GenerateBatch
<1>. DEFINE batch == tried + 1..last
<1>3. batch \subseteq 1..Len(cs) /\ batch \subseteq Nat
  BY <1>2
<1>4. IsFiniteSet(batch) /\ Cardinality(batch) = last - tried
  <2>1. PICK first \in Nat : first = tried + 1 /\ first <= last
    BY <1>2
  <2>2. IsFiniteSet(first..last) /\ Cardinality(first..last) = last - first + 1
    BY <2>1, FS_Interval
  <2>3. QED BY <2>1, <2>2
<1>5. PICK failed \in SUBSET batch :
         /\ failures' = failures + Cardinality(failed)
         /\ LET made == InOrder(batch \ failed, Earlier(batch \ failed))
            IN  embeddings' = es \o [k \in DOMAIN made |-> [id |-> made[k], of |-> made[k]]]
  BY <1>1, <1>2, ZenonT(30) DEF GenerateBatch, ChunkIndex
<1>6. chunks' = cs /\ tried' = last
  BY <1>1, <1>2, <1>4 DEF GenerateBatch, pipeline
<1>7. IsFiniteSet(failed) /\ Cardinality(failed) \in Nat
  <2>. HIDE DEF batch
  <2>. QED BY <1>4, <1>5, FS_Subset, FS_CardinalityType
<1>8. PICK S : S = batch \ failed
  OBVIOUS
<1>9. IsFiniteSet(S) /\ S \subseteq batch
  <2>. HIDE DEF batch
  <2>. QED BY <1>4, <1>8, FS_Subset
<1>. DEFINE made == InOrder(S, Earlier(S))
            more == [k \in DOMAIN made |-> [id |-> made[k], of |-> made[k]]]
<1>10. PICK n \in Nat : n = Cardinality(S) /\ made \in [1..n -> S] /\ \A i \in S : \E k \in 1..n : made[k] = i
  <2>1. S \subseteq Nat
    BY <1>3, <1>9
  <2>2. Orders(Earlier(S), S)
    BY <2>1, EarlierOrders
  <2>3. PICK order : order = Earlier(S)
    OBVIOUS
  <2>4. Orders(order, S)
    BY <2>2, <2>3
  <2>5. Cardinality(S) \in Nat /\ InOrder(S, order) \in [1..Cardinality(S) -> S]
    BY <1>9, <2>4, InOrderIsAnOrder
  <2>6. \A i \in S : \E k \in 1..Cardinality(S) : InOrder(S, order)[k] = i
    BY <1>9, <2>4, InOrderIsAnOrder
  <2>7. QED BY <2>3, <2>5, <2>6
<1>11. embeddings' = es \o more
  BY <1>5, <1>8
<1>. HIDE DEF made
<1>12. more \in [1..n -> Embedding] /\ \A k \in 1..n : more[k].id = made[k] /\ more[k].of = made[k]
  <2>1. \A k \in 1..n : made[k] \in Nat
    BY <1>3, <1>9, <1>10
  <2>2. DOMAIN made = 1..n
    BY <1>10
  <2>3. QED BY <2>1, <2>2 DEF Embedding
<1>. HIDE DEF more
<1>13. more \in Seq(Embedding) /\ Len(more) = n
  BY <1>12, ASequence
<1>14. /\ es \o more \in Seq(Embedding) /\ Len(es \o more) = Len(es) + n /\ Len(es) \in Nat
       /\ \A k \in 1..Len(es) : (es \o more)[k] = es[k]
       /\ \A k \in 1..n : (es \o more)[Len(es) + k] = more[k]
  <2>1. PICK ms \in Seq(Embedding) : ms = more /\ Len(ms) = n
    BY <1>13
  <2>2. /\ es \o ms \in Seq(Embedding) /\ Len(es \o ms) = Len(es) + Len(ms) /\ Len(es) \in Nat
        /\ \A k \in 1..Len(es) : (es \o ms)[k] = es[k]
        /\ \A k \in 1..Len(ms) : (es \o ms)[Len(es) + k] = ms[k]
    BY ConcatProperties
  <2>3. QED BY <2>1, <2>2
<1>15. PICK all \in Seq(Embedding) : all = es \o more
  BY <1>14
<1>16. EmbeddingsSound'
  <2>1. ASSUME NEW k \in 1..Len(all) PROVE all[k].of \in 1..Len(cs) /\ all[k].id = all[k].of
    <3>1. CASE k \in 1..Len(es)
      BY <1>1, <1>14, <1>15, <3>1 DEF EmbeddingsSound
    <3>2. CASE k \notin 1..Len(es)
      <4>1. PICK l \in 1..n : k = Len(es) + l
        <5>1. PICK len \in Nat : len = Len(es)
          BY <1>14
        <5>2. k \in 1..len + n /\ k \notin 1..len
          BY <1>14, <1>15, <3>2, <5>1
        <5>3. k - len \in 1..n /\ k = len + (k - len)
          BY <5>2
        <5>4. QED BY <5>1, <5>3
      <4>2. all[k].id = made[l] /\ all[k].of = made[l]
        BY <1>12, <1>14, <1>15, <4>1
      <4>3. made[l] \in 1..Len(cs)
        BY <1>3, <1>9, <1>10
      <4>4. QED BY <4>2, <4>3
    <3>3. QED BY <3>1, <3>2
  <2>2. QED BY <1>6, <1>11, <1>15, <2>1 DEF EmbeddingsSound
<1>17. ASSUME NEW i, Waiting(i) PROVE Waiting(i)'
  <2>1. PICK k \in 1..Len(es) : es[k].of = i
    BY <1>1, <1>17 DEF Waiting
  <2>2. k \in 1..Len(all) /\ all[k].of = i
    BY <1>14, <1>15, <2>1
  <2>3. QED BY <1>11, <1>15, <2>2 DEF Waiting
<1>18. ASSUME failures' = 0 PROVE failures = 0 /\ \A i \in tried + 1..tried' : Waiting(i)'
  <2>1. failures = 0 /\ Cardinality(failed) = 0
    BY <1>5, <1>7, <1>18
  <2>2. failed = {}
    BY <1>7, <2>1, FS_EmptySet
  <2>3. ASSUME NEW i \in tried + 1..tried' PROVE Waiting(i)'
    <3>1. i \in S
      BY <1>6, <1>8, <2>2
    <3>2. PICK k \in 1..n : made[k] = i
      BY <1>10, <3>1
    <3>3. all[Len(es) + k].of = i
      BY <1>12, <1>14, <1>15, <3>2
    <3>4. Len(es) + k \in 1..Len(all)
      BY <1>14, <1>15
    <3>5. QED BY <1>11, <1>15, <3>3, <3>4 DEF Waiting
  <2>4. QED BY <2>1, <2>3
<1>19. QED BY <1>2, <1>5, <1>6, <1>7, <1>16, <1>17, <1>18

\* Before anything is stored, whatever the chunks become.
LEMMA StillNothing ==
    ASSUME chunks' \in Seq(Chunk), OnItsPath', nodes' = <<>>, embeddings' = <<>>,
           InTurn', failures' = 0 => Complete'
    PROVE  AsStored'
<1>1. NodesSound' /\ EmbeddingsSound'
  <2>1. Len(chunks') \in Nat /\ Len(<<>>) = 0 /\ <<>> \in Seq(Node) /\ <<>> \in Seq(Embedding)
    OBVIOUS
  <2>2. QED BY <2>1 DEF NodesSound, EmbeddingsSound
<1>2. QED BY <1>1 DEF AsStored

LEMMA InitAsStored == Init => AsStored
<1>. SUFFICES ASSUME Init PROVE AsStored
  OBVIOUS
<1>1. OnItsPath /\ InTurn
  BY DEF Init, OnItsPath, InTurn
<1>2. Complete
  BY DEF Init, Complete, AllStored
<1>3. chunks \in Seq(Chunk)
  BY DEF Init
<1>4. NodesSound /\ EmbeddingsSound
  BY <1>3, NothingIsSound DEF Init
<1>5. QED BY <1>1, <1>2, <1>4 DEF AsStored

\* The steps until there are chunks, and what starts again when one fails.
LEMMA CuttingStoresNothing ==
    ASSUME AsStored, chunks' \in Seq(Chunk),
           Execute \/ Overlap \/ Optimize \/ OrchestratorFails \/ Plan \/ Sync
    PROVE  AsStored'
<1>. USE DEF OnItsPath, InTurn, NoNodesYet, NoEmbeddingsYet, Complete, AllStored, Goto, graph
<1>1. CASE Execute
  <2>1. nodes' = <<>> /\ embeddings' = <<>>
    BY <1>1 DEF AsStored, Execute
  <2>2. OnItsPath'
    BY <1>1 DEF AsStored, Execute
  <2>3. InTurn'
    BY <1>1 DEF AsStored, Execute
  <2>4. Complete'
    BY <1>1 DEF AsStored, Execute
  <2>5. QED BY <2>1, <2>2, <2>3, <2>4, StillNothing
<1>2. CASE Overlap
  <2>1. nodes' = <<>> /\ embeddings' = <<>>
    BY <1>2 DEF AsStored, Overlap
  <2>2. OnItsPath'
    BY <1>2 DEF AsStored, Overlap
  <2>3. InTurn'
    BY <1>2 DEF AsStored, Overlap
  <2>4. Complete'
    BY <1>2 DEF AsStored, Overlap
  <2>5. QED BY <2>1, <2>2, <2>3, <2>4, StillNothing
<1>3. CASE Optimize
  <2>1. nodes' = <<>> /\ embeddings' = <<>>
    BY <1>3 DEF AsStored, Optimize
  <2>2. OnItsPath'
    BY <1>3 DEF AsStored, Optimize
  <2>3. InTurn'
    BY <1>3 DEF AsStored, Optimize
  <2>4. Complete'
    BY <1>3 DEF AsStored, Optimize
  <2>5. QED BY <2>1, <2>2, <2>3, <2>4, StillNothing
<1>4. CASE OrchestratorFails
  <2>1. nodes' = <<>> /\ embeddings' = <<>>
    BY <1>4 DEF AsStored, OrchestratorFails
  <2>2. OnItsPath'
    BY <1>4 DEF AsStored, OrchestratorFails
  <2>3. InTurn'
    BY <1>4 DEF AsStored, OrchestratorFails
  <2>4. Complete'
    BY <1>4 DEF AsStored, OrchestratorFails
  <2>5. QED BY <2>1, <2>2, <2>3, <2>4, StillNothing
<1>5. CASE Plan
  <2>1. /\ nodes' = <<>> /\ embeddings' = <<>> /\ tried' = 0 /\ failures' \in Nat
        /\ UNCHANGED owner
    BY <1>5 DEF AsStored, Plan
  <2>2. \/ path' = "original" /\ stage' = "generate"
        \/ path' = "sync" /\ stage' = "sync"
    BY <1>5 DEF AsStored, Plan
  <2>3. OnItsPath'
    BY <2>2
  <2>4. InTurn'
    BY <2>1, <2>2
  <2>5. Complete'
    BY <2>1, <2>2
  <2>6. QED BY <2>1, <2>3, <2>4, <2>5, StillNothing
<1>6. CASE Sync
  <2>1. /\ nodes' = <<>> /\ embeddings' = <<>> /\ tried' = 0 /\ failures' \in Nat
        /\ path' = "sync" /\ stage' = "store_legacy"
    BY <1>6 DEF AsStored, Sync
  <2>2. OnItsPath'
    BY <2>1
  <2>3. InTurn'
    BY <2>1
  <2>4. Complete'
    BY <2>1
  <2>5. QED BY <2>1, <2>2, <2>3, <2>4, StillNothing
<1>7. QED BY <1>1, <1>2, <1>3, <1>4, <1>5, <1>6

\* A step that leaves nodes, embeddings and chunks as they are.
LEMMA StillSound ==
    ASSUME AsStored, UNCHANGED <<chunks, nodes, embeddings>>
    PROVE  NodesSound' /\ EmbeddingsSound' /\ \A i : (Waiting(i)' <=> Waiting(i)) /\ (Embedded(i)' <=> Embedded(i))
BY DEF AsStored, NodesSound, EmbeddingsSound, Waiting, Embedded

LEMMA StoringKeepsThem ==
    ASSUME AsStored, chunks \in Seq(Chunk),
           StoreDocument \/ StoreChunk \/ StoreFails
    PROVE  AsStored'
<1>1. CASE StoreDocument
  <2>1. NodesSound' /\ EmbeddingsSound' /\ \A i : Waiting(i)' <=> Waiting(i)
    BY <1>1, StillSound DEF StoreDocument
  <2>2. /\ stage = "store_document" /\ stage' = "store_chunk" /\ path' = path /\ chunks' = chunks
        /\ nodes' = <<>> /\ nodes = <<>> /\ chunks # <<>> /\ embeddings' = embeddings /\ tried' = tried
        /\ failures' = failures /\ owner' = IF path = "orchestrator" THEN Tenant ELSE None
    BY <1>1 DEF StoreDocument, Goto, AsStored, InTurn, NoNodesYet
  <2>3. OnItsPath'
    BY <2>2 DEF AsStored, OnItsPath
  <2>4. InTurn'
    <3>1. Len(nodes') < Len(chunks')
      BY <2>2, EmptySeq
    <3>2. QED BY <2>2, <3>1 DEF AsStored, InTurn, NoNodesYet, NoEmbeddingsYet, OnItsPath
  <2>5. failures' = 0 => Complete'
    BY <2>1, <2>2 DEF AsStored, Complete, AllStored
  <2>6. QED BY <2>1, <2>3, <2>4, <2>5 DEF AsStored
<1>2. CASE StoreChunk
  <2>1. NodesSound' /\ Len(nodes') = Len(nodes) + 1 /\ Len(nodes) \in Nat
    BY <1>2, ANodeIsStored DEF AsStored, InTurn, StoreChunk
  <2>2. /\ stage = "store_chunk" /\ path' = path /\ chunks' = chunks /\ embeddings' = embeddings
        /\ tried' = tried /\ failures' = failures /\ owner' = owner
        /\ stage' = IF Len(nodes) + 1 < Len(chunks) THEN "store_chunk" ELSE AfterStore
    BY <1>2 DEF StoreChunk, Goto
  <2>3. EmbeddingsSound' /\ \A i : Waiting(i)' <=> Waiting(i)
    BY <2>2 DEF AsStored, EmbeddingsSound, Waiting
  <2>4. path \in {"orchestrator", "original"}
    BY <2>2 DEF AsStored, OnItsPath
  <2>5. OnItsPath'
    BY <2>2, <2>4 DEF OnItsPath, AfterStore
  <2>6. InTurn'
    BY <2>1, <2>2, <2>4 DEF AsStored, InTurn, NoNodesYet, NoEmbeddingsYet, AfterStore
  <2>7. ASSUME failures' = 0 PROVE Complete'
    <3>1. Complete
      BY <2>2, <2>7 DEF AsStored
    <3>2. stage' # "store_chunk" => Len(nodes') = Len(chunks')
      <4>1. Len(nodes) < Len(chunks)
        BY <2>2 DEF AsStored, InTurn
      <4>2. QED BY <2>1, <2>2, <4>1
    <3>3. CASE path = "original"
      <4>1. \A i \in 1..Len(chunks') : Waiting(i)'
        BY <2>2, <2>3, <3>1, <3>3 DEF Complete
      <4>2. stage' \in {"store_chunk", "store_embedding"} /\ path' = "original"
        BY <2>2, <3>3 DEF AfterStore
      <4>3. QED BY <3>2, <4>1, <4>2 DEF Complete, AllStored
    <3>4. CASE path = "orchestrator"
      <4>1. stage' \in {"store_chunk", "generate"} /\ path' = "orchestrator" /\ tried' = 0
        BY <2>2, <3>4 DEF AfterStore, AsStored, InTurn, NoEmbeddingsYet
      <4>2. QED BY <3>2, <4>1 DEF Complete, AllStored
    <3>5. QED BY <2>4, <3>3, <3>4
  <2>8. QED BY <2>1, <2>3, <2>5, <2>6, <2>7 DEF AsStored
<1>3. CASE StoreFails
  <2>1. NodesSound' /\ EmbeddingsSound' /\ \A i : Waiting(i)' <=> Waiting(i)
    BY <1>3, StillSound DEF StoreFails, graph
  <2>2. /\ stage \in {"store_document", "store_chunk"} /\ stage' = AfterStore /\ path' = path
        /\ chunks' = chunks /\ nodes' = nodes /\ embeddings' = embeddings /\ tried' = tried /\ owner' = owner
        /\ failures' = IF chunks = <<>> THEN failures ELSE failures + 1
    BY <1>3 DEF StoreFails, Goto, graph
  <2>3. path \in {"orchestrator", "original"}
    BY <2>2 DEF AsStored, OnItsPath
  <2>4. OnItsPath'
    BY <2>2, <2>3 DEF OnItsPath, AfterStore
  <2>5. InTurn'
    BY <2>2, <2>3 DEF AsStored, InTurn, NoNodesYet, NoEmbeddingsYet, AfterStore
  <2>6. ASSUME failures' = 0 PROVE Complete'
    <3>1. chunks = <<>> /\ failures = 0
      BY <2>2, <2>6 DEF AsStored, InTurn
    <3>2. Len(chunks') = 0 /\ Len(nodes') = 0
      <4>1. nodes \in Seq(Node) /\ Len(nodes) <= Len(chunks) /\ Len(chunks) = 0
        BY <3>1 DEF AsStored, NodesSound
      <4>2. Len(nodes) \in Nat
        BY <4>1
      <4>3. QED BY <2>2, <4>1, <4>2
    <3>3. CASE path = "original"
      <4>1. stage' = "store_embedding" /\ path' = "original"
        BY <2>2, <3>3 DEF AfterStore
      <4>2. QED BY <3>2, <4>1 DEF Complete, AllStored
    <3>4. CASE path = "orchestrator"
      <4>1. stage' = "generate" /\ path' = "orchestrator" /\ tried' = 0
        BY <2>2, <3>4 DEF AfterStore, AsStored, InTurn, NoEmbeddingsYet
      <4>2. QED BY <3>2, <4>1 DEF Complete, AllStored
    <3>5. QED BY <2>3, <3>3, <3>4
  <2>7. QED BY <2>1, <2>4, <2>5, <2>6 DEF AsStored
<1>4. QED BY <1>1, <1>2, <1>3

LEMMA GeneratingKeepsThem ==
    ASSUME AsStored, chunks \in Seq(Chunk),
           GenerateBatch \/ Generated \/ \E good \in BOOLEAN : Assess(good)
    PROVE  AsStored'
<1>1. CASE GenerateBatch
  <2>1. /\ EmbeddingsSound' /\ tried' \in Nat /\ failures' \in Nat
        /\ \A i : Waiting(i) => Waiting(i)'
        /\ failures' = 0 => failures = 0 /\ \A i \in tried + 1..tried' : Waiting(i)'
    BY <1>1, ABatchIsGenerated DEF AsStored, InTurn
  <2>2. /\ stage = "generate" /\ stage' = "generate" /\ path' = path /\ chunks' = chunks
        /\ nodes' = nodes /\ owner' = owner
    BY <1>1 DEF GenerateBatch, pipeline, graph
  <2>3. NodesSound'
    BY <2>2 DEF AsStored, NodesSound
  <2>4. path \in {"orchestrator", "original"}
    BY <2>2 DEF AsStored, OnItsPath
  <2>5. OnItsPath'
    BY <2>2, <2>4 DEF OnItsPath
  <2>6. InTurn'
    BY <2>1, <2>2, <2>4 DEF AsStored, InTurn, NoNodesYet, NoEmbeddingsYet
  <2>7. ASSUME failures' = 0 PROVE Complete'
    <3>1. Complete
      BY <2>1, <2>7 DEF AsStored
    <3>2. ASSUME NEW i \in 1..tried' PROVE Waiting(i)'
      <4>1. i \in 1..tried \/ i \in tried + 1..tried'
        BY <2>1 DEF AsStored, InTurn
      <4>2. QED BY <2>1, <2>2, <2>7, <3>1, <4>1 DEF Complete
    <3>3. QED BY <2>2, <3>1, <3>2 DEF Complete, AllStored
  <2>8. QED BY <2>1, <2>3, <2>5, <2>6, <2>7 DEF AsStored
<1>2. CASE Generated
  <2>1. NodesSound' /\ EmbeddingsSound' /\ \A i : Waiting(i)' <=> Waiting(i)
    BY <1>2, StillSound DEF Generated, graph
  <2>2. /\ stage = "generate" /\ tried = Len(chunks) /\ path' = path /\ chunks' = chunks /\ nodes' = nodes
        /\ embeddings' = embeddings /\ tried' = tried /\ owner' = owner /\ failures' = failures
        /\ stage' = IF path = "orchestrator" THEN "store_embedding" ELSE "assess"
    BY <1>2 DEF Generated, Goto, graph
  <2>3. path \in {"orchestrator", "original"}
    BY <2>2 DEF AsStored, OnItsPath
  <2>4. OnItsPath'
    BY <2>2, <2>3 DEF OnItsPath
  <2>5. InTurn'
    BY <2>2, <2>3 DEF AsStored, InTurn, NoNodesYet, NoEmbeddingsYet
  <2>6. ASSUME failures' = 0 PROVE Complete'
    <3>1. Complete
      BY <2>2, <2>6 DEF AsStored
    <3>2. \A i \in 1..Len(chunks') : Waiting(i)'
      BY <2>1, <2>2, <3>1 DEF Complete
    <3>3. path = "orchestrator" => Len(nodes') = Len(chunks')
      BY <2>2, <3>1 DEF Complete, AllStored
    <3>4. QED BY <2>2, <2>3, <3>2, <3>3 DEF Complete, AllStored
  <2>7. QED BY <2>1, <2>4, <2>5, <2>6 DEF AsStored
<1>3. ASSUME NEW good \in BOOLEAN, Assess(good) PROVE AsStored'
  <2>1. /\ stage = "assess" /\ path = "original" /\ chunks' = chunks /\ nodes' = <<>> /\ nodes = <<>>
        /\ tried' = tried /\ owner' = owner /\ failures' = failures
    BY <1>3 DEF Assess, graph, AsStored, OnItsPath, InTurn, NoNodesYet
  <2>2. CASE good
    <3>1. stage' = "store_document" /\ path' = "original" /\ embeddings' = embeddings
      BY <1>3, <2>1, <2>2 DEF Assess, Goto
    <3>2. NodesSound' /\ EmbeddingsSound' /\ \A i : Waiting(i)' <=> Waiting(i)
      BY <2>1, <3>1, StillSound
    <3>3. OnItsPath'
      BY <3>1 DEF OnItsPath
    <3>4. InTurn'
      BY <2>1, <3>1 DEF AsStored, InTurn, NoNodesYet, NoEmbeddingsYet
    <3>5. failures' = 0 => Complete'
      BY <2>1, <3>1, <3>2 DEF AsStored, Complete, AllStored
    <3>6. QED BY <3>2, <3>3, <3>4, <3>5 DEF AsStored
  <2>3. CASE ~good
    <3>1. stage' = "sync" /\ path' = "sync" /\ embeddings' = <<>>
      BY <1>3, <2>3 DEF Assess
    <3>2. OnItsPath'
      BY <3>1 DEF OnItsPath
    <3>3. InTurn'
      BY <2>1, <3>1 DEF AsStored, InTurn, NoNodesYet, NoEmbeddingsYet
    <3>4. Complete'
      BY <3>1 DEF Complete, AllStored
    <3>5. QED BY <2>1, <3>1, <3>2, <3>3, <3>4, StillNothing
  <2>4. QED BY <2>2, <2>3
<1>4. QED BY <1>1, <1>2, <1>3

LEMMA EmbeddingKeepsThem ==
    ASSUME AsStored, chunks \in Seq(Chunk),
           StoreEmbedding \/ StoreEmbeddingFails \/ EmbeddingsStored
    PROVE  AsStored'
<1>0. stage = "store_embedding" /\ path \in {"orchestrator", "original"} /\ tried \in Nat /\ failures \in Nat
  BY DEF AsStored, OnItsPath, InTurn, StoreEmbedding, StoreEmbeddingFails, EmbeddingsStored
<1>1. CASE StoreEmbedding
  <2>1. /\ NodesSound' /\ EmbeddingsSound' /\ Len(nodes') = Len(nodes)
        /\ \A i : Embedded(i) => Embedded(i)'
        /\ \A i \in 1..Len(nodes) : Waiting(i) => Waiting(i)' \/ Embedded(i)'
    BY <1>1, AnEmbeddingIsStored DEF AsStored
  <2>2. /\ stage' = "store_embedding" /\ path' = path /\ chunks' = chunks /\ tried' = tried
        /\ owner' = owner /\ failures' = failures
    BY <1>0, <1>1 DEF StoreEmbedding, pipeline
  <2>3. OnItsPath'
    BY <1>0, <2>2 DEF OnItsPath
  <2>4. InTurn'
    BY <1>0, <2>2 DEF AsStored, InTurn, NoNodesYet, NoEmbeddingsYet
  <2>5. ASSUME failures' = 0 PROVE Complete'
    <3>1. Complete
      BY <2>2, <2>5 DEF AsStored
    <3>2. Len(nodes) = Len(chunks) /\ \A i \in 1..Len(chunks) : Waiting(i) \/ Embedded(i)
      BY <1>0, <3>1 DEF Complete, AllStored
    <3>3. Len(nodes') = Len(chunks')
      BY <2>1, <2>2, <3>2
    <3>4. \A i \in 1..Len(chunks') : Waiting(i)' \/ Embedded(i)'
      BY <2>1, <2>2, <3>2
    <3>5. QED BY <2>2, <3>3, <3>4 DEF Complete, AllStored
  <2>6. QED BY <2>1, <2>3, <2>4, <2>5 DEF AsStored
<1>2. CASE StoreEmbeddingFails
  <2>1. /\ stage' = "store_embedding" /\ path' = path /\ chunks' = chunks /\ nodes' = nodes /\ tried' = tried
        /\ owner' = owner /\ failures' = failures + 1 /\ embeddings' = <<>>
    BY <1>0, <1>2 DEF StoreEmbeddingFails, pipeline, graph
  <2>2. NodesSound' /\ EmbeddingsSound'
    BY <2>1 DEF AsStored, NodesSound, EmbeddingsSound
  <2>3. OnItsPath'
    BY <1>0, <2>1 DEF OnItsPath
  <2>4. InTurn'
    BY <1>0, <2>1 DEF AsStored, InTurn, NoNodesYet, NoEmbeddingsYet
  <2>5. failures' # 0
    BY <1>0, <2>1
  <2>6. QED BY <2>2, <2>3, <2>4, <2>5 DEF AsStored
<1>3. CASE EmbeddingsStored
  <2>1. /\ stage' = "done" /\ path' = path /\ chunks' = chunks /\ nodes' = nodes /\ tried' = tried
        /\ owner' = owner /\ failures' = failures /\ embeddings' = embeddings /\ embeddings = <<>>
    BY <1>0, <1>3 DEF EmbeddingsStored, Goto, graph
  <2>2. NodesSound' /\ EmbeddingsSound' /\ \A i : Embedded(i)' <=> Embedded(i)
    BY <2>1, StillSound
  <2>3. OnItsPath'
    BY <1>0, <2>1 DEF OnItsPath
  <2>4. InTurn'
    BY <1>0, <2>1 DEF AsStored, InTurn, NoNodesYet, NoEmbeddingsYet
  <2>5. ASSUME failures' = 0 PROVE Complete'
    <3>1. Complete
      BY <2>1, <2>5 DEF AsStored
    <3>2. \A i : ~Waiting(i)
      BY <2>1 DEF Waiting
    <3>3. Len(nodes') = Len(chunks') /\ \A i \in 1..Len(chunks') : Embedded(i)'
      BY <1>0, <2>1, <2>2, <3>1, <3>2 DEF Complete, AllStored
    <3>4. QED BY <2>1, <3>3 DEF Complete, AllStored
  <2>6. QED BY <2>2, <2>3, <2>4, <2>5 DEF AsStored
<1>4. QED BY <1>1, <1>2, <1>3

LEMMA LegacyKeepsThem ==
    ASSUME AsStored, StoreLegacy \/ LegacyStored PROVE AsStored'
<1>1. /\ path = "sync" /\ path' = "sync" /\ stage' \in {"store_legacy", "done"}
      /\ UNCHANGED <<chunks, nodes, embeddings>>
  BY DEF AsStored, OnItsPath, StoreLegacy, LegacyStored, Goto, pipeline, graph
<1>2. tried' \in Nat /\ failures' \in Nat
  BY DEF AsStored, InTurn, StoreLegacy, LegacyStored
<1>3. NodesSound' /\ EmbeddingsSound'
  BY <1>1, StillSound
<1>4. OnItsPath'
  BY <1>1 DEF OnItsPath
<1>5. InTurn'
  <2>1. nodes' = <<>> /\ embeddings' = <<>>
    BY <1>1 DEF AsStored, InTurn, NoNodesYet
  <2>2. QED BY <1>1, <1>2, <2>1 DEF InTurn, NoEmbeddingsYet
<1>6. Complete'
  BY <1>1 DEF Complete, AllStored
<1>7. QED BY <1>3, <1>4, <1>5, <1>6 DEF AsStored

LEMMA NextAsStored ==
    ASSUME Accounted, Accounted', AsStored, [Next]_vars PROVE AsStored'
<1>1. chunks \in Seq(Chunk) /\ chunks' \in Seq(Chunk)
  BY DEF Accounted
<1>2. CASE Execute \/ Overlap \/ Optimize \/ OrchestratorFails \/ Plan \/ Sync
  BY <1>1, <1>2, CuttingStoresNothing
<1>3. CASE StoreDocument \/ StoreChunk \/ StoreFails
  BY <1>1, <1>3, StoringKeepsThem
<1>4. CASE GenerateBatch \/ Generated \/ \E good \in BOOLEAN : Assess(good)
  BY <1>1, <1>4, GeneratingKeepsThem
<1>5. CASE StoreEmbedding \/ StoreEmbeddingFails \/ EmbeddingsStored
  BY <1>1, <1>5, EmbeddingKeepsThem
<1>6. CASE StoreLegacy \/ LegacyStored
  BY <1>6, LegacyKeepsThem
<1>7. CASE UNCHANGED vars
  BY <1>7 DEF vars, pipeline, graph, AsStored, OnItsPath, NodesSound, EmbeddingsSound, InTurn, NoNodesYet,
     NoEmbeddingsYet, Complete, AllStored, Waiting, Embedded
<1>8. QED
  BY <1>2, <1>3, <1>4, <1>5, <1>6, <1>7 DEF Next

LEMMA AsStoredAreTheChunks ==
    ASSUME AsStored PROVE NodesAreTheChunks
<1>1. DOMAIN nodes = 1..Len(nodes)
  BY DEF AsStored, NodesSound
<1>2. ASSUME stage = "done", path # "sync", failures = 0
      PROVE  Len(nodes) = Len(chunks) /\ \A i \in DOMAIN nodes : nodes[i].embedding # None
  <2>1. Complete
    BY <1>2 DEF AsStored
  <2>2. Len(nodes) = Len(chunks) /\ \A i \in 1..Len(chunks) : Embedded(i)
    BY <1>2, <2>1 DEF Complete, AllStored
  <2>3. QED BY <1>1, <2>2 DEF Embedded
<1>3. QED BY <1>1, <1>2 DEF AsStored, NodesSound, InTurn, NodesAreTheChunks

\* For any documents and any number of failures: the i-th Chunk node is the i-th chunk's,
\* redacted, and has the embedding of that chunk's content or none; the orchestrator's
\* Document is the uploader's; and when no call has failed every chunk has a node that
\* its embedding finds.
THEOREM NodesAreAlwaysTheChunks == Spec => []NodesAreTheChunks
<1>1. Init => Accounted /\ AsStored
  BY InitAccounted, InitAsStored
<1>2. Accounted /\ AsStored /\ [Next]_vars => (Accounted /\ AsStored)'
  BY NextAccounted, NextAsStored
<1>3. AsStored => NodesAreTheChunks
  BY AsStoredAreTheChunks
<1>4. QED BY <1>1, <1>2, <1>3, PTL DEF Spec
===============================================================================
