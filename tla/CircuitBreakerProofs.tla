------------------------ MODULE CircuitBreakerProofs ------------------------
(***************************************************************************)
(* For every number of callers, threshold and timeout: the breaker's type  *)
(* correctness, and that it never opens before failure_threshold guarded   *)
(* calls have failed, that it rejects only for a bounded time, stays       *)
(* closed once it has recovered, and loses no count while calls fail.  For *)
(* every threshold and timeout: that a caller who is alone meets the       *)
(* breaker of the docstring, AtomicBreaker.                                *)
(***************************************************************************)
EXTENDS SequentialBreaker, FiniteSetTheorems, TLAPS

LEMMA UpToType ==
    ASSUME NEW limit \in Nat, NEW n \in Nat
    PROVE  /\ UpTo(limit, n) \in 0..limit
           /\ n < limit => UpTo(limit, n) = n
           /\ n >= limit => UpTo(limit, n) = limit
BY DEF UpTo

LEMMA TypeInit == Init => TypeOK
<1> SUFFICES ASSUME Init PROVE TypeOK
  OBVIOUS
<1>1. healthy \in BOOLEAN /\ flaky \in BOOLEAN
  BY DEF Init
<1>2. QED
  BY <1>1, ThresholdAssumption, TimeoutAssumption, CrashAssumption
     DEF Init, TypeOK, CircuitState, Label

LEMMA TypeStep == TypeOK /\ [Next]_vars => TypeOK'
<1> SUFFICES ASSUME TypeOK, [Next]_vars PROVE TypeOK'
  OBVIOUS
<1> USE ThresholdAssumption, TimeoutAssumption, CrashAssumption
<1>1. ASSUME NEW p \in Caller, Admission(p) PROVE TypeOK'
  <2>1. StateRead \subseteq CircuitState
    BY DEF TypeOK, StateRead, CircuitState
  <2>2. CASE ReadState(p)
    BY <2>1, <2>2 DEF ReadState, TypeOK, Label, Goto, redis, history
  <2>3. CASE TimeoutElapsed(p)
    BY <2>3 DEF TimeoutElapsed, TypeOK, Label, Goto, redis, history
  <2>4. CASE Reject(p)
    BY <2>4 DEF Reject, TypeOK, Label, CircuitState, Goto, Leave, redis, history
  <2>5. CASE SetHalfOpen(p)
    BY <2>5 DEF SetHalfOpen, TypeOK, Label, CircuitState, Goto, history
  <2>6. QED BY <1>1, <2>2, <2>3, <2>4, <2>5 DEF Admission
<1>2. ASSUME NEW p \in Caller, CallReturns(p) PROVE TypeOK'
  BY <1>2 DEF CallReturns, TypeOK, Label, Goto, redis, history
<1>3. ASSUME NEW p \in Caller, CallRaises(p) PROVE TypeOK'
  <2>1. failed_calls' \in 0..FailureThreshold
    BY <1>3, UpToType DEF CallRaises, TypeOK
  <2>2. QED BY <1>3, <2>1 DEF CallRaises, TypeOK, Label, Goto, redis
<1>4. ASSUME NEW p \in Caller, RecordSuccess(p) PROVE TypeOK'
  <2>1. CASE ResetCount(p)
    BY <2>1 DEF ResetCount, TypeOK, Label, Goto, history
  <2>2. CASE SetClosed(p)
    BY <2>2 DEF SetClosed, TypeOK, Label, CircuitState, Goto, Leave, history
  <2>3. QED BY <1>4, <2>1, <2>2 DEF RecordSuccess
<1>5. ASSUME NEW p \in Caller, RecordFailure(p) PROVE TypeOK'
  <2>1. StateRead \subseteq CircuitState
    BY DEF TypeOK, StateRead, CircuitState
  <2>2. CASE ReadStateAfterFailure(p)
    BY <2>1, <2>2 DEF ReadStateAfterFailure, TypeOK, Label, Goto, redis, history
  <2>3. CASE IncrCount(p)
    <3>1. failure_count' \in 0..FailureThreshold
      BY <2>3, UpToType DEF IncrCount, TypeOK
    <3>2. pc' \in [Caller -> Label] /\ seen' \in [Caller -> CircuitState]
      BY <2>3 DEF IncrCount, TypeOK, Label, CircuitState, Goto, Leave
    <3>3. QED BY <2>3, <3>1, <3>2 DEF IncrCount, TypeOK, history
  <2>4. CASE SetOpen(p)
    BY <2>4 DEF SetOpen, TypeOK, Label, CircuitState, Goto
  <2>5. CASE SetOpenedAt(p)
    BY <2>5 DEF SetOpenedAt, TypeOK, Label, CircuitState, Goto, Leave, history
  <2>6. QED BY <1>5, <2>2, <2>3, <2>4, <2>5 DEF RecordFailure
<1>6. ASSUME NEW p \in Caller, RecordingFails(p) PROVE TypeOK'
  BY <1>6 DEF RecordingFails, TypeOK, Label, CircuitState, Goto, Leave, redis, history
<1>7. ASSUME NEW p \in Caller, Crash(p) PROVE TypeOK'
  BY <1>7 DEF Crash, TypeOK, Label, CircuitState, Goto, Leave, redis, history
<1>8. CASE Tick
  <2>1. opened_age' \in 0..RecoveryTimeout /\ open_age' \in 0..RecoveryTimeout
    BY <1>8, UpToType DEF Tick, TypeOK
  <2>2. QED BY <1>8, <2>1 DEF Tick, TypeOK
<1>9. CASE DependencyChanges
  BY <1>9 DEF DependencyChanges, TypeOK, redis, history
<1>10. CASE RedisChanges
  BY <1>10 DEF RedisChanges, TypeOK, redis, history
<1>11. CASE UNCHANGED vars
  BY <1>11 DEF TypeOK, vars, redis, history
<1>12. QED
  BY <1>1, <1>2, <1>3, <1>4, <1>5, <1>6, <1>7, <1>8, <1>9, <1>10, <1>11 DEF Next, Step

\* The breaker's variables keep their types, for any callers and parameters.
THEOREM TypeCorrect == Spec => []TypeOK
BY TypeInit, TypeStep, PTL DEF Spec

-----------------------------------------------------------------------------
(* NoSpuriousOpen, by the invariant OpenInv                                *)

LEMMA CountingFinite ==
    IsFiniteSet(Counting) /\ Cardinality(Counting) \in Nat
<1>1. Counting \in SUBSET Caller
  BY DEF Counting
<1>2. IsFiniteSet(Counting)
  BY <1>1, CallerAssumption, FS_Subset
<1>3. QED BY <1>2, FS_CardinalityType

\* A step of p moves at most p into Counting, ...
LEMMA CountingAfter ==
    ASSUME NEW p \in Caller, \A q \in Caller \ {p} : pc'[q] = pc[q]
    PROVE  /\ Cardinality(Counting') \in Nat
           /\ Cardinality(Counting') <= Cardinality(Counting) + 1
           /\ p \in Counting => Cardinality(Counting') <= Cardinality(Counting)
<1> USE CountingFinite
<1>1. CASE p \in Counting'
  <2>1. Counting' = Counting \cup {p}
    BY <1>1 DEF Counting
  <2>2. QED BY <2>1, FS_AddElement
<1>2. CASE p \notin Counting'
  <2>1. Counting' = Counting \ {p}
    BY <1>2 DEF Counting
  <2>2. IsFiniteSet(Counting') /\ Cardinality(Counting') =
          IF p \in Counting THEN Cardinality(Counting) - 1 ELSE Cardinality(Counting)
    BY <2>1, FS_RemoveElement
  <2>3. Cardinality(Counting') \in Nat
    BY <2>2, FS_CardinalityType
  <2>4. QED BY <2>2, <2>3
<1>3. QED BY <1>1, <1>2

\* ... and out of it when the step leads elsewhere.
LEMMA CountingWithout ==
    ASSUME NEW p \in Caller, \A q \in Caller \ {p} : pc'[q] = pc[q],
           pc'[p] \notin {"read_state", "incr_count"}
    PROVE  /\ Cardinality(Counting') \in Nat
           /\ Cardinality(Counting') <= Cardinality(Counting)
           /\ p \in Counting => Cardinality(Counting') = Cardinality(Counting) - 1
<1> USE CountingFinite
<1>1. Counting' = Counting \ {p}
  BY DEF Counting
<1>2. IsFiniteSet(Counting') /\ Cardinality(Counting') =
        IF p \in Counting THEN Cardinality(Counting) - 1 ELSE Cardinality(Counting)
  BY <1>1, FS_RemoveElement
<1>3. Cardinality(Counting') \in Nat
  BY <1>2, FS_CardinalityType
<1>4. QED BY <1>2, <1>3

LEMMA OpenInit == Init => OpenInv
<1> SUFFICES ASSUME Init PROVE OpenInv
  OBVIOUS
<1>1. Counting = {}
  BY DEF Init, Counting
<1>2. Cardinality(Counting) = 0
  BY <1>1, FS_EmptySet
<1>3. QED
  BY <1>2, TypeInit, ThresholdAssumption
     DEF Init, OpenInv, NoSpuriousOpen, CountedOnce, Evidence

LEMMA OpenStep == OpenInv /\ [Next]_vars => OpenInv'
<1> SUFFICES ASSUME OpenInv, [Next]_vars PROVE OpenInv'
  OBVIOUS
<1> USE ThresholdAssumption, TimeoutAssumption
<1>1. TypeOK /\ TypeOK'
  BY TypeStep DEF OpenInv
\* What it takes, once the types are known.
<1>2. ASSUME NoSpuriousOpen', CountedOnce', \A q \in Caller : Evidence(q)'
      PROVE  OpenInv'
  BY <1>1, <1>2 DEF OpenInv
<1> DEFINE Counts == failed_calls < FailureThreshold
                       => failure_count + Cardinality(Counting) <= failed_calls
<1>3. /\ Counts
      /\ failure_count \in Nat /\ failed_calls \in Nat
      /\ failed_calls <= FailureThreshold
      /\ Cardinality(Counting) \in Nat
  BY <1>1, CountingFinite DEF OpenInv, CountedOnce, TypeOK
<1>4. ASSUME NEW p \in Caller, Admission(p) PROVE OpenInv'
  <2>1. CASE ReadState(p)
    <3>1. PICK s \in StateRead :
            /\ seen' = [seen EXCEPT ![p] = s]
            /\ pc' = [pc EXCEPT ![p] = IF s = "OPEN" THEN "read_opened_at" ELSE "calling"]
      BY <2>1 DEF ReadState, Goto
    <3>2. Cardinality(Counting') \in Nat /\ Cardinality(Counting') <= Cardinality(Counting)
      BY <1>1, <3>1, CountingWithout DEF TypeOK
    <3>3. s # "CLOSED" => failed_calls >= FailureThreshold
      BY DEF StateRead, OpenInv, NoSpuriousOpen
    <3>4. CountedOnce'
      BY <1>3, <2>1, <3>2 DEF ReadState, redis, history, CountedOnce
    <3>5. QED
      BY <1>1, <1>2, <2>1, <3>1, <3>3, <3>4
         DEF OpenInv, ReadState, redis, history, NoSpuriousOpen, Evidence, TypeOK
  <2>2. CASE TimeoutElapsed(p)
    <3>1. Cardinality(Counting') \in Nat /\ Cardinality(Counting') <= Cardinality(Counting)
      BY <1>1, <2>2, CountingWithout DEF TimeoutElapsed, Goto, TypeOK
    <3>2. CountedOnce'
      BY <1>3, <2>2, <3>1 DEF TimeoutElapsed, redis, history, CountedOnce
    <3>3. QED
      BY <1>1, <1>2, <2>2, <3>2
         DEF OpenInv, TimeoutElapsed, At, Goto, redis, history, NoSpuriousOpen, Evidence, TypeOK
  <2>3. CASE Reject(p)
    <3>1. Cardinality(Counting') \in Nat /\ Cardinality(Counting') <= Cardinality(Counting)
      BY <1>1, <2>3, CountingWithout DEF Reject, Leave, Goto, TypeOK
    <3>2. CountedOnce'
      BY <1>3, <2>3, <3>1 DEF Reject, redis, history, CountedOnce
    <3>3. QED
      BY <1>1, <1>2, <2>3, <3>2
         DEF OpenInv, Reject, Leave, Goto, redis, history, NoSpuriousOpen, Evidence, TypeOK
  <2>4. CASE SetHalfOpen(p)
    <3>1. Cardinality(Counting') \in Nat /\ Cardinality(Counting') <= Cardinality(Counting)
      BY <1>1, <2>4, CountingWithout DEF SetHalfOpen, Goto, TypeOK
    <3>2. CountedOnce'
      BY <1>3, <2>4, <3>1 DEF SetHalfOpen, history, CountedOnce
    <3>3. failed_calls >= FailureThreshold
      BY <2>4 DEF OpenInv, SetHalfOpen, At, Evidence
    <3>4. QED
      BY <1>1, <1>2, <2>4, <3>2, <3>3
         DEF OpenInv, SetHalfOpen, Goto, history, NoSpuriousOpen, Evidence, TypeOK
  <2>5. QED BY <1>4, <2>1, <2>2, <2>3, <2>4 DEF Admission
<1>5. ASSUME NEW p \in Caller, CallReturns(p) PROVE OpenInv'
  <2>1. Cardinality(Counting') \in Nat /\ Cardinality(Counting') <= Cardinality(Counting)
    BY <1>1, <1>5, CountingWithout DEF CallReturns, Goto, TypeOK
  <2>2. CountedOnce'
    BY <1>3, <1>5, <2>1 DEF CallReturns, redis, history, CountedOnce
  <2>3. QED
    BY <1>1, <1>2, <1>5, <2>2
       DEF OpenInv, CallReturns, Goto, redis, history, NoSpuriousOpen, Evidence, TypeOK
<1>6. ASSUME NEW p \in Caller, CallRaises(p) PROVE OpenInv'
  <2>1. failed_calls' = UpTo(FailureThreshold, failed_calls + 1)
    BY <1>6 DEF CallRaises
  <2>2. failed_calls' >= failed_calls /\ failed_calls' <= FailureThreshold
    BY <1>3, <2>1 DEF UpTo
  <2>3. failed_calls' < FailureThreshold => failed_calls' = failed_calls + 1
    BY <1>3, <2>1 DEF UpTo
  <2>4. /\ Cardinality(Counting') \in Nat
        /\ Cardinality(Counting') <= Cardinality(Counting) + 1
    BY <1>1, <1>3, <1>6, CountingAfter DEF CallRaises, Goto, TypeOK
  <2>5. failure_count' = failure_count
    BY <1>6 DEF CallRaises, redis
  <2>6. CountedOnce'
    BY <1>1, <1>3, <2>2, <2>3, <2>4, <2>5 DEF CountedOnce, TypeOK
  <2>7. failed_calls >= FailureThreshold => failed_calls' >= FailureThreshold
    BY <1>1, <1>3, <2>2 DEF TypeOK
  <2>8. QED
    BY <1>1, <1>2, <1>6, <2>6, <2>7
       DEF OpenInv, CallRaises, Goto, redis, NoSpuriousOpen, Evidence, TypeOK
<1>7. ASSUME NEW p \in Caller, RecordSuccess(p) PROVE OpenInv'
  <2>1. CASE ResetCount(p)
    <3>1. Cardinality(Counting') \in Nat /\ Cardinality(Counting') <= Cardinality(Counting)
      BY <1>1, <2>1, CountingWithout DEF ResetCount, Goto, TypeOK
    <3>2. CountedOnce'
      BY <1>3, <2>1, <3>1 DEF ResetCount, history, CountedOnce
    <3>3. QED
      BY <1>1, <1>2, <2>1, <3>2
         DEF OpenInv, ResetCount, Goto, history, NoSpuriousOpen, Evidence, TypeOK
  <2>2. CASE SetClosed(p)
    <3>1. Cardinality(Counting') \in Nat /\ Cardinality(Counting') <= Cardinality(Counting)
      BY <1>1, <2>2, CountingWithout DEF SetClosed, Leave, Goto, TypeOK
    <3>2. CountedOnce'
      BY <1>3, <2>2, <3>1 DEF SetClosed, history, CountedOnce
    <3>3. QED
      BY <1>1, <1>2, <2>2, <3>2
         DEF OpenInv, SetClosed, Leave, Goto, history, NoSpuriousOpen, Evidence, TypeOK
  <2>3. QED BY <1>7, <2>1, <2>2 DEF RecordSuccess
<1>8. ASSUME NEW p \in Caller, RecordFailure(p) PROVE OpenInv'
  <2>1. CASE ReadStateAfterFailure(p)
    <3>1. PICK s \in StateRead :
            /\ seen' = [seen EXCEPT ![p] = s]
            /\ pc' = [pc EXCEPT ![p] = IF s = "HALF_OPEN" THEN "set_open" ELSE "incr_count"]
      BY <2>1 DEF ReadStateAfterFailure, Goto
    <3>2. p \in Counting
      BY <2>1 DEF ReadStateAfterFailure, At, Counting
    <3>3. Cardinality(Counting') \in Nat /\ Cardinality(Counting') <= Cardinality(Counting)
      BY <1>1, <1>3, <3>1, <3>2, CountingAfter DEF TypeOK
    <3>4. s # "CLOSED" => failed_calls >= FailureThreshold
      BY DEF StateRead, OpenInv, NoSpuriousOpen
    <3>5. CountedOnce'
      BY <1>3, <2>1, <3>3 DEF ReadStateAfterFailure, redis, history, CountedOnce
    <3>6. QED
      BY <1>1, <1>2, <2>1, <3>1, <3>4, <3>5
         DEF OpenInv, ReadStateAfterFailure, redis, history, NoSpuriousOpen, Evidence, TypeOK
  <2>2. CASE IncrCount(p)
    <3>1. PICK l \in {"set_open", "idle"} :
            /\ pc' = [pc EXCEPT ![p] = l]
            /\ l = "set_open" => failure_count' >= FailureThreshold
            /\ seen' = seen \/ seen' = [seen EXCEPT ![p] = "CLOSED"]
      BY <2>2 DEF IncrCount, Goto, Leave
    <3>2. p \in Counting
      BY <2>2 DEF IncrCount, At, Counting
    <3>3. Cardinality(Counting') \in Nat /\ Cardinality(Counting') = Cardinality(Counting) - 1
      BY <1>1, <3>1, <3>2, CountingWithout DEF TypeOK
    <3>4. failure_count' \in Nat /\ failure_count' <= failure_count + 1
      BY <1>3, <2>2 DEF IncrCount, UpTo
    <3>5. failed_calls' = failed_calls /\ state' = state
      BY <2>2 DEF IncrCount, history
    <3>6. CountedOnce'
      BY <1>3, <3>3, <3>4, <3>5 DEF CountedOnce
    <3>7. l = "set_open" => failed_calls >= FailureThreshold
      BY <1>1, <1>3, <3>1, <3>3, <3>4 DEF TypeOK
    <3>8. QED
      BY <1>1, <1>2, <3>1, <3>5, <3>6, <3>7 DEF OpenInv, NoSpuriousOpen, Evidence, TypeOK
  <2>3. CASE SetOpen(p)
    <3>1. Cardinality(Counting') \in Nat /\ Cardinality(Counting') <= Cardinality(Counting)
      BY <1>1, <2>3, CountingWithout DEF SetOpen, Goto, TypeOK
    <3>2. CountedOnce'
      BY <1>3, <2>3, <3>1 DEF SetOpen, CountedOnce
    <3>3. failed_calls >= FailureThreshold
      BY <2>3 DEF OpenInv, SetOpen, At, Evidence
    <3>4. QED
      BY <1>1, <1>2, <2>3, <3>2, <3>3
         DEF OpenInv, SetOpen, Goto, NoSpuriousOpen, Evidence, TypeOK
  <2>4. CASE SetOpenedAt(p)
    <3>1. Cardinality(Counting') \in Nat /\ Cardinality(Counting') <= Cardinality(Counting)
      BY <1>1, <2>4, CountingWithout DEF SetOpenedAt, Leave, Goto, TypeOK
    <3>2. CountedOnce'
      BY <1>3, <2>4, <3>1 DEF SetOpenedAt, history, CountedOnce
    <3>3. QED
      BY <1>1, <1>2, <2>4, <3>2
         DEF OpenInv, SetOpenedAt, Leave, Goto, history, NoSpuriousOpen, Evidence, TypeOK
  <2>5. QED BY <1>8, <2>1, <2>2, <2>3, <2>4 DEF RecordFailure
<1>9. ASSUME NEW p \in Caller, RecordingFails(p) \/ Crash(p) PROVE OpenInv'
  <2>1. Leave(p) /\ UNCHANGED <<redis, history>>
    BY <1>9 DEF RecordingFails, Crash
  <2>2. Cardinality(Counting') \in Nat /\ Cardinality(Counting') <= Cardinality(Counting)
    BY <1>1, <2>1, CountingWithout DEF Leave, Goto, TypeOK
  <2>3. CountedOnce'
    BY <1>3, <2>1, <2>2 DEF redis, history, CountedOnce
  <2>4. QED
    BY <1>1, <1>2, <2>1, <2>3
       DEF OpenInv, Leave, Goto, redis, history, NoSpuriousOpen, Evidence, TypeOK
<1>10. CASE Tick \/ DependencyChanges \/ RedisChanges \/ UNCHANGED vars
  <2>1. UNCHANGED <<state, failure_count, pc, seen, failed_calls>>
    BY <1>10 DEF Tick, DependencyChanges, RedisChanges, vars, redis, history
  <2>2. QED
    BY <1>1, <1>2, <2>1 DEF OpenInv, NoSpuriousOpen, CountedOnce, Counting, Evidence
<1>11. QED
  BY <1>4, <1>5, <1>6, <1>7, <1>8, <1>9, <1>10 DEF Next, Step

\* The breaker leaves CLOSED only after failure_threshold guarded calls have
\* failed, for any callers, crashes, Redis errors and interleaving.
THEOREM NeverOpensSpuriously == Spec => []NoSpuriousOpen
<1>1. OpenInv => NoSpuriousOpen
  BY DEF OpenInv
<1>2. QED
  BY <1>1, OpenInit, OpenStep, PTL DEF Spec

-----------------------------------------------------------------------------
(* What NeverWedged, Recovers and FailsFast rest on: fairness adds only that *)
(* the clock and the callers go on.                                          *)

\* The callers that may still write opened_at: their own call has failed.
Recording == {p \in Caller : pc[p] \in {"read_state", "incr_count", "set_open", "set_opened_at"}}

\* The most clock ticks during which guard() may still reject before another
\* call has to fail: what is left of the timeout, and one more for each of them.
ShutFor == (RecoveryTimeout + 1) * Cardinality(Recording) + (RecoveryTimeout - opened_age)

LEMMA RecordingFinite == IsFiniteSet(Recording) /\ Cardinality(Recording) \in Nat
<1>1. Recording \in SUBSET Caller
  BY DEF Recording
<1>2. IsFiniteSet(Recording)
  BY <1>1, CallerAssumption, FS_Subset
<1>3. QED BY <1>2, FS_CardinalityType

\* A step of p moves nobody else into Recording or out of it.
LEMMA RecordingAfter ==
    ASSUME NEW p \in Caller, \A q \in Caller \ {p} : pc'[q] = pc[q]
    PROVE  /\ (p \in Recording <=> p \in Recording') => Recording' = Recording
           /\ p \in Recording /\ p \notin Recording' => Cardinality(Recording') = Cardinality(Recording) - 1
<1>1. (p \in Recording <=> p \in Recording') => Recording' = Recording
  BY DEF Recording
<1>2. ASSUME p \in Recording, p \notin Recording'
      PROVE  Cardinality(Recording') = Cardinality(Recording) - 1
  <2>1. Recording' = Recording \ {p}
    BY <1>2 DEF Recording
  <2>2. QED BY <1>2, <2>1, RecordingFinite, FS_RemoveElement
<1>3. QED BY <1>1, <1>2

\* The timeout that runs, and one and a tick for every caller.
Longest == (RecoveryTimeout + 1) * Cardinality(Caller) + RecoveryTimeout

LEMMA ShutForRange == TypeOK => ShutFor \in 0..Longest
<1>1. TypeOK => ShutFor \in 0..Longest
  <2> SUFFICES ASSUME TypeOK PROVE ShutFor \in 0..Longest
    OBVIOUS
  <2> DEFINE n == Cardinality(Recording)
             all == Cardinality(Caller)
             k == RecoveryTimeout + 1
  <2>1. Recording \in SUBSET Caller
    BY DEF Recording
  <2>2. n \in Nat /\ all \in Nat /\ n <= all
    BY <2>1, RecordingFinite, CallerAssumption, FS_CardinalityType, FS_Subset
  <2>3. k \in Nat /\ RecoveryTimeout \in Nat /\ opened_age \in 0..RecoveryTimeout
    BY TimeoutAssumption DEF TypeOK
  <2>4. ShutFor = k * n + (RecoveryTimeout - opened_age)
    BY DEF ShutFor
  <2> HIDE DEF n, all, k
  <2>5. k * n \in Nat /\ k * all \in Nat /\ k * n <= k * all
    <3>1. all - n \in Nat
      BY <2>2
    <3>2. k * (all - n) \in Nat
      BY <2>3, <3>1
    <3>3. k * (all - n) = k * all - k * n
      BY <2>2, <2>3
    <3>4. k * n \in Nat /\ k * all \in Nat
      BY <2>2, <2>3
    <3>5. QED BY <3>2, <3>3, <3>4
  <2>6. ShutFor \in 0 .. k * all + RecoveryTimeout
    BY <2>3, <2>4, <2>5
  <2>7. QED BY <2>6 DEF k, all, Longest
<1>2. QED BY <1>1

\* guard() rejects only while it has time left to, which is bounded.  Only a call
\* that fails prolongs it, and every tick while guard() rejects shortens it: dead
\* trials, half-done updates and Redis errors keep no breaker shut.
THEOREM RejectionsEnd ==
    Spec => [][/\ (\E p \in Caller : Reject(p)) => ShutFor \in 1..Longest
               /\ \/ \E p \in Caller : CallRaises(p)
                  \/ /\ ShutFor' <= ShutFor
                     /\ (Tick /\ opened_age < RecoveryTimeout) => ShutFor' < ShutFor]_vars
<1>1. ASSUME TypeOK, Next
      PROVE  /\ (\E p \in Caller : Reject(p)) => ShutFor \in 1..Longest
             /\ \/ \E p \in Caller : CallRaises(p)
                \/ /\ ShutFor' <= ShutFor
                   /\ (Tick /\ opened_age < RecoveryTimeout) => ShutFor' < ShutFor
  <2> DEFINE n == Cardinality(Recording)
             k == RecoveryTimeout + 1
             rest == k * n
  <2>1. n \in Nat /\ k \in Nat /\ RecoveryTimeout \in Nat /\ opened_age \in 0..RecoveryTimeout
    BY <1>1, RecordingFinite, TimeoutAssumption DEF TypeOK
  <2>2. rest \in Nat /\ k * (n - 1) = rest - k
    <3> HIDE DEF n, k
    <3>1. QED BY <2>1
  <2>3. ShutFor = rest + (RecoveryTimeout - opened_age)
    BY DEF ShutFor
  <2>4. Recording' = Recording => ShutFor' = rest + (RecoveryTimeout - opened_age')
    BY DEF ShutFor
  <2>5. Cardinality(Recording') = n - 1 => ShutFor' = (rest - k) + (RecoveryTimeout - opened_age')
    <3>1. ASSUME Cardinality(Recording') = n - 1
          PROVE  ShutFor' = k * (n - 1) + (RecoveryTimeout - opened_age')
      BY <3>1 DEF ShutFor
    <3>2. QED BY <2>2, <3>1
  <2> HIDE DEF n, rest
  <2>6. (\E p \in Caller : Reject(p)) => ShutFor \in 1..Longest
    <3>1. (\E p \in Caller : Reject(p)) => opened_age < RecoveryTimeout
      BY DEF Reject
    <3>2. ShutFor \in 0..Longest
      BY <1>1, ShutForRange
    <3>3. QED BY <2>1, <2>2, <2>3, <3>1, <3>2
  <2>7. ASSUME Recording' = Recording, opened_age' = opened_age PROVE ShutFor' <= ShutFor
    BY <2>1, <2>2, <2>3, <2>4, <2>7
  <2>8. ASSUME Cardinality(Recording') = n - 1, opened_age' = opened_age \/ opened_age' = 0
        PROVE  ShutFor' <= ShutFor
    BY <2>1, <2>2, <2>3, <2>5, <2>8
  <2>9. ASSUME NEW p \in Caller, pc' = [pc EXCEPT ![p] = pc'[p]], p \in Recording' => p \in Recording,
               opened_age' = opened_age
        PROVE  ShutFor' <= ShutFor
    <3>1. \A q \in Caller \ {p} : pc'[q] = pc[q]
      BY <1>1, <2>9 DEF TypeOK
    <3>2. Recording' = Recording \/ Cardinality(Recording') = Cardinality(Recording) - 1
      BY <2>9, <3>1, RecordingAfter
    <3>3. QED BY <2>7, <2>8, <2>9, <3>2 DEF n
  <2>10. ASSUME NEW p \in Caller, Step(p) \/ RecordingFails(p) \/ Crash(p), ~CallRaises(p)
         PROVE  ShutFor' <= ShutFor
    <3>1. CASE SetOpenedAt(p)
      <4>1. /\ p \in Recording /\ p \notin Recording' /\ opened_age' = 0
            /\ \A q \in Caller \ {p} : pc'[q] = pc[q]
        BY <1>1, <3>1 DEF SetOpenedAt, Leave, Goto, At, Recording, TypeOK
      <4>2. QED BY <2>8, <4>1, RecordingAfter DEF n
    <3>2. CASE Admission(p) \/ CallReturns(p) \/ RecordSuccess(p)
      <4>1. pc' = [pc EXCEPT ![p] = pc'[p]] /\ opened_age' = opened_age
        BY <1>1, <3>2 DEF Admission, ReadState, TimeoutElapsed, Reject, SetHalfOpen, CallReturns, RecordSuccess,
              ResetCount, SetClosed, Leave, Goto, redis, TypeOK
      <4>2. p \notin Recording'
        BY <1>1, <3>2 DEF Admission, ReadState, TimeoutElapsed, Reject, SetHalfOpen, CallReturns, RecordSuccess,
              ResetCount, SetClosed, Leave, Goto, Recording, TypeOK
      <4>3. QED BY <2>9, <4>1, <4>2
    <3>3. CASE ReadStateAfterFailure(p) \/ IncrCount(p) \/ SetOpen(p)
      <4>1. pc' = [pc EXCEPT ![p] = pc'[p]] /\ opened_age' = opened_age
        BY <1>1, <3>3 DEF ReadStateAfterFailure, IncrCount, SetOpen, Leave, Goto, redis, TypeOK
      <4>2. p \in Recording
        BY <3>3 DEF ReadStateAfterFailure, IncrCount, SetOpen, At, Recording
      <4>3. QED BY <2>9, <4>1, <4>2
    <3>4. CASE RecordingFails(p) \/ Crash(p)
      <4>1. pc' = [pc EXCEPT ![p] = pc'[p]] /\ opened_age' = opened_age /\ p \notin Recording'
        BY <1>1, <3>4 DEF RecordingFails, Crash, Leave, Goto, redis, Recording, TypeOK
      <4>2. QED BY <2>9, <4>1
    <3>5. QED BY <2>10, <3>1, <3>2, <3>3, <3>4 DEF Step, RecordFailure
  <2>11. CASE Tick
    <3>1. Recording' = Recording
      BY <2>11 DEF Tick, Recording
    <3>2. /\ opened_age < RecoveryTimeout => opened_age' = opened_age + 1
          /\ opened_age >= RecoveryTimeout => opened_age' = RecoveryTimeout
      BY <2>1, <2>11, UpToType DEF Tick, UpTo
    <3>3. QED BY <2>1, <2>2, <2>3, <2>4, <2>6, <3>1, <3>2
  <2>12. ASSUME DependencyChanges \/ RedisChanges PROVE ShutFor' <= ShutFor
    <3>1. Recording' = Recording /\ opened_age' = opened_age
      BY <2>12 DEF DependencyChanges, RedisChanges, redis, Recording
    <3>2. QED BY <2>7, <3>1
  <2>13. CASE ~Tick
    BY <1>1, <2>6, <2>10, <2>12, <2>13 DEF Next
  <2>14. QED BY <2>11, <2>13
<1>2. QED BY <1>1, TypeCorrect, PTL DEF Spec

\* The dependency answers, the breaker is closed, and no caller is left that read
\* or decided something older than that.
Recovered ==
    /\ healthy
    /\ state = "CLOSED"
    /\ \A p \in Caller : pc[p] \in {"idle", "calling", "reset_count", "set_closed"}

\* Then the breaker stays closed for good, as long as the dependency answers:
\* no crash, no Redis error and no late write opens it.
THEOREM ClosedForGood == Spec => [][Recovered /\ healthy' => Recovered']_vars
<1>1. ASSUME TypeOK, Next, Recovered, healthy' PROVE Recovered'
  <2>1. ASSUME NEW p \in Caller, Step(p) \/ RecordingFails(p) \/ Crash(p) PROVE Recovered'
    <3>1. CASE ReadState(p)
      <4>1. StateRead = {"CLOSED"}
        BY <1>1 DEF StateRead, Recovered
      <4>2. Goto(p, "calling") /\ UNCHANGED state
        BY <3>1, <4>1 DEF ReadState, redis
      <4>3. QED BY <1>1, <4>2 DEF Goto, Recovered, TypeOK
    <3>2. CASE CallReturns(p)
      BY <1>1, <3>2 DEF CallReturns, Goto, redis, Recovered, TypeOK
    <3>3. CASE ResetCount(p)
      BY <1>1, <3>3 DEF ResetCount, Goto, Recovered, TypeOK
    <3>4. CASE SetClosed(p)
      BY <1>1, <3>4 DEF SetClosed, Leave, Goto, Recovered, TypeOK
    <3>5. CASE RecordingFails(p) \/ Crash(p)
      BY <1>1, <3>5 DEF RecordingFails, Crash, Leave, Goto, redis, Recovered, TypeOK
    <3>6. ~CallRaises(p)
      BY <1>1 DEF CallRaises, Recovered
    <3>7. ~(TimeoutElapsed(p) \/ Reject(p) \/ SetHalfOpen(p) \/ RecordFailure(p))
      BY <1>1 DEF TimeoutElapsed, Reject, SetHalfOpen, RecordFailure, ReadStateAfterFailure, IncrCount,
                  SetOpen, SetOpenedAt, At, Recovered
    <3>8. QED BY <2>1, <3>1, <3>2, <3>3, <3>4, <3>5, <3>6, <3>7 DEF Step, Admission, RecordSuccess
  <2>2. CASE Tick \/ DependencyChanges \/ RedisChanges
    BY <1>1, <2>2 DEF Tick, DependencyChanges, RedisChanges, redis, Recovered
  <2>3. QED BY <1>1, <2>1, <2>2 DEF Next
<1>2. QED BY <1>1, TypeCorrect, PTL DEF Spec

\* The dependency is down, and no caller is left whose call still succeeded.
Failing ==
    /\ ~healthy
    /\ \A p \in Caller : pc[p] \notin {"reset_count", "set_closed"}

\* Then every failure that is counted adds up towards the threshold, nothing
\* closes the breaker, and this stays so until the dependency answers again.
THEOREM FailuresAddUp ==
    Spec => [][Failing /\ ~healthy' => (/\ Failing'
                                        /\ failure_count' >= failure_count
                                        /\ state' = "CLOSED" => state = "CLOSED")]_vars
<1>1. ASSUME TypeOK, Next, Failing, ~healthy'
      PROVE  /\ Failing'
             /\ failure_count' >= failure_count
             /\ state' = "CLOSED" => state = "CLOSED"
  <2>1. failure_count \in 0..FailureThreshold
    BY <1>1 DEF TypeOK
  <2>2. ASSUME NEW p \in Caller, Step(p) \/ RecordingFails(p) \/ Crash(p)
        PROVE  /\ Failing'
               /\ failure_count' >= failure_count
               /\ state' = "CLOSED" => state = "CLOSED"
    <3>1. CASE IncrCount(p)
      <4>1. failure_count' >= failure_count
        BY <2>1, <3>1, ThresholdAssumption DEF IncrCount, UpTo
      <4>2. Failing' /\ UNCHANGED state
        BY <1>1, <3>1 DEF IncrCount, Leave, Goto, Failing, TypeOK
      <4>3. QED BY <4>1, <4>2
    <3>2. CASE SetOpen(p)
      BY <1>1, <2>1, <3>2 DEF SetOpen, Goto, Failing, TypeOK
    <3>3. CASE SetHalfOpen(p)
      BY <1>1, <2>1, <3>3 DEF SetHalfOpen, Goto, Failing, TypeOK
    <3>4. CASE ReadState(p) \/ TimeoutElapsed(p) \/ Reject(p)
      BY <1>1, <2>1, <3>4 DEF ReadState, TimeoutElapsed, Reject, Leave, Goto, redis, Failing, TypeOK
    <3>5. CASE CallRaises(p) \/ ReadStateAfterFailure(p) \/ SetOpenedAt(p)
      BY <1>1, <2>1, <3>5 DEF CallRaises, ReadStateAfterFailure, SetOpenedAt, Leave, Goto, redis, Failing, TypeOK
    <3>6. CASE RecordingFails(p) \/ Crash(p)
      BY <1>1, <2>1, <3>6 DEF RecordingFails, Crash, Leave, Goto, redis, Failing, TypeOK
    <3>7. ~(CallReturns(p) \/ RecordSuccess(p))
      BY <1>1 DEF CallReturns, RecordSuccess, ResetCount, SetClosed, At, Failing
    <3>8. QED BY <2>2, <3>1, <3>2, <3>3, <3>4, <3>5, <3>6, <3>7 DEF Step, Admission, RecordFailure
  <2>3. CASE Tick \/ DependencyChanges \/ RedisChanges
    BY <1>1, <2>1, <2>3 DEF Tick, DependencyChanges, RedisChanges, redis, Failing
  <2>4. QED BY <1>1, <2>2, <2>3 DEF Next
<1>2. QED BY <1>1, TypeCorrect, PTL DEF Spec

-----------------------------------------------------------------------------
(* ImplementsDocstring: what a caller who is alone knows of the keys at     *)
(* each of its Redis operations.                                            *)

AloneInv ==
    /\ TypeOK
    /\ ~flaky
    \* Only a caller on its way to trip the breaker finds CLOSED at the threshold.
    /\ state = "CLOSED" => At1({"set_open"}) \/ failure_count < FailureThreshold
    /\ At1({"read_opened_at", "set_half_open"}) => state = "OPEN"
    /\ At1({"set_half_open"}) => opened_age = RecoveryTimeout
    /\ At1({"calling", "read_state"}) => state # "OPEN"
    /\ At1({"set_closed"}) => failure_count = 0
    /\ At1({"incr_count"}) => state = "CLOSED" /\ seen[caller] = "CLOSED"
    /\ At1({"set_open"}) => state = seen[caller]
    /\ At1({"set_opened_at"}) => state = "OPEN"
    /\ Tripping => \/ seen[caller] = "HALF_OPEN"
                   \/ seen[caller] = "CLOSED" /\ failure_count = FailureThreshold

Bars == <<breakerBar, failuresBar, opened_age, callingBar>>

LEMMA AloneInit == Init /\ Alone => AloneInv /\ Docstring!AbstractInit
<1> SUFFICES ASSUME Init, Alone PROVE AloneInv /\ Docstring!AbstractInit
  OBVIOUS
<1>1. pc[caller] = "idle"
  BY DEF Init, Alone
<1>2. AloneInv
  BY <1>1, TypeInit, ThresholdAssumption DEF AloneInv, Init, At1, Tripping
<1>3. Docstring!AbstractInit
  BY <1>1 DEF Init, Docstring!AbstractInit, breakerBar, failuresBar, callingBar, At1, Tripping
<1>4. QED BY <1>2, <1>3

\* Each Redis operation is a transition of the docstring or no step of it, and
\* leaves the caller knowing what it relies on next.
LEMMA AloneStep ==
    ASSUME Alone, AloneInv, [Next]_vars
    PROVE  AloneInv' /\ [Docstring!AbstractNext]_(Docstring!abstractVars)
<1> USE ThresholdAssumption, TimeoutAssumption DEF At1, Tripping
<1> DEFINE Goal == AloneInv' /\ (Docstring!AbstractNext \/ UNCHANGED Bars)
<1>1. /\ TypeOK /\ TypeOK' /\ ~flaky
      /\ pc \in [{caller} -> Label] /\ seen \in [{caller} -> CircuitState]
      /\ failure_count \in 0..FailureThreshold /\ opened_age \in 0..RecoveryTimeout
  BY TypeStep DEF Alone, AloneInv, TypeOK
<1>2. ASSUME ReadState(caller) PROVE Goal
  <2>1. /\ pc[caller] = "idle"
        /\ pc'[caller] = IF state = "OPEN" THEN "read_opened_at" ELSE "calling"
        /\ UNCHANGED <<state, failure_count, opened_age, flaky>>
    BY <1>1, <1>2 DEF ReadState, At, Goto, StateRead, redis
  <2>2. AloneInv'
    BY <1>1, <2>1 DEF AloneInv
  <2>3. Docstring!Admit \/ UNCHANGED Bars
    BY <1>1, <2>1 DEF Docstring!Admit, Bars, breakerBar, failuresBar, callingBar
  <2>4. QED BY <2>2, <2>3 DEF Docstring!AbstractNext
<1>3. ASSUME TimeoutElapsed(caller) PROVE Goal
  <2>1. /\ pc[caller] = "read_opened_at" /\ pc'[caller] = "set_half_open"
        /\ opened_age = RecoveryTimeout
        /\ UNCHANGED <<state, failure_count, opened_age, flaky>>
    BY <1>1, <1>3 DEF TimeoutElapsed, At, Goto, redis
  <2>2. AloneInv'
    BY <1>1, <2>1 DEF AloneInv
  <2>3. UNCHANGED Bars
    BY <1>1, <2>1 DEF Bars, breakerBar, failuresBar, callingBar
  <2>4. QED BY <2>2, <2>3
<1>4. ASSUME Reject(caller) PROVE Goal
  <2>1. /\ pc[caller] = "read_opened_at" /\ pc'[caller] = "idle"
        /\ UNCHANGED <<state, failure_count, opened_age, flaky>>
    BY <1>1, <1>4 DEF Reject, At, Goto, Leave, redis
  <2>2. AloneInv'
    BY <1>1, <2>1 DEF AloneInv
  <2>3. UNCHANGED Bars
    BY <1>1, <2>1 DEF Bars, breakerBar, failuresBar, callingBar
  <2>4. QED BY <2>2, <2>3
<1>5. ASSUME SetHalfOpen(caller) PROVE Goal
  <2>1. /\ pc[caller] = "set_half_open" /\ pc'[caller] = "calling"
        /\ state' = "HALF_OPEN"
        /\ UNCHANGED <<failure_count, opened_age, flaky>>
    BY <1>1, <1>5 DEF SetHalfOpen, At, Goto
  <2>2. AloneInv'
    BY <1>1, <2>1 DEF AloneInv
  <2>3. Docstring!Admit
    BY <1>1, <2>1 DEF AloneInv, Docstring!Admit, breakerBar, failuresBar, callingBar
  <2>4. QED BY <2>2, <2>3 DEF Docstring!AbstractNext
<1>6. ASSUME CallReturns(caller) \/ CallRaises(caller) PROVE Goal
  <2>1. /\ pc[caller] = "calling" /\ pc'[caller] \in {"reset_count", "read_state"}
        /\ UNCHANGED <<state, failure_count, opened_age, seen, flaky>>
    BY <1>1, <1>6 DEF CallReturns, CallRaises, At, Goto, redis
  <2>2. AloneInv'
    BY <1>1, <2>1 DEF AloneInv
  <2>3. UNCHANGED Bars
    BY <1>1, <2>1 DEF Bars, breakerBar, failuresBar, callingBar
  <2>4. QED BY <2>2, <2>3
<1>7. ASSUME ResetCount(caller) PROVE Goal
  <2>1. /\ pc[caller] = "reset_count" /\ pc'[caller] = "set_closed"
        /\ failure_count' = 0
        /\ UNCHANGED <<state, opened_age, seen, flaky>>
    BY <1>1, <1>7 DEF ResetCount, At, Goto
  <2>2. AloneInv'
    BY <1>1, <2>1 DEF AloneInv
  <2>3. Docstring!Succeed
    BY <1>1, <2>1 DEF Docstring!Succeed, breakerBar, failuresBar, callingBar
  <2>4. QED BY <2>2, <2>3 DEF Docstring!AbstractNext
<1>8. ASSUME SetClosed(caller) PROVE Goal
  <2>1. /\ pc[caller] = "set_closed" /\ pc'[caller] = "idle"
        /\ state' = "CLOSED"
        /\ UNCHANGED <<failure_count, opened_age, flaky>>
    BY <1>1, <1>8 DEF SetClosed, At, Goto, Leave
  <2>2. AloneInv'
    BY <1>1, <2>1 DEF AloneInv
  <2>3. UNCHANGED Bars
    BY <1>1, <2>1 DEF Bars, breakerBar, failuresBar, callingBar
  <2>4. QED BY <2>2, <2>3
<1>9. ASSUME ReadStateAfterFailure(caller) PROVE Goal
  <2>1. /\ pc[caller] = "read_state"
        /\ pc'[caller] = IF state = "HALF_OPEN" THEN "set_open" ELSE "incr_count"
        /\ seen'[caller] = state
        /\ UNCHANGED <<state, failure_count, opened_age, flaky>>
    BY <1>1, <1>9 DEF ReadStateAfterFailure, At, Goto, StateRead, redis
  <2>2. state \in {"CLOSED", "HALF_OPEN"}
    BY <1>1, <2>1 DEF AloneInv, TypeOK, CircuitState
  <2>3. AloneInv'
    BY <1>1, <2>1, <2>2 DEF AloneInv
  <2>4. UNCHANGED Bars
    BY <1>1, <2>1, <2>2 DEF Bars, breakerBar, failuresBar, callingBar
  <2>5. QED BY <2>3, <2>4
<1>10. ASSUME IncrCount(caller) PROVE Goal
  <2>1. /\ pc[caller] = "incr_count" /\ state = "CLOSED" /\ seen[caller] = "CLOSED"
        /\ failure_count < FailureThreshold
    BY <1>10 DEF IncrCount, At, AloneInv
  <2>2. /\ failure_count' = failure_count + 1
        /\ UNCHANGED <<state, opened_age, flaky>>
    BY <1>1, <1>10, <2>1 DEF IncrCount, UpTo
  <2>3. CASE failure_count' >= FailureThreshold
    <3>1. pc'[caller] = "set_open" /\ seen' = seen /\ failure_count' = FailureThreshold
      BY <1>1, <1>10, <2>1, <2>2, <2>3 DEF IncrCount, Goto
    <3>2. AloneInv'
      BY <1>1, <2>1, <2>2, <3>1 DEF AloneInv
    <3>3. UNCHANGED Bars
      BY <1>1, <2>1, <2>2, <3>1 DEF Bars, breakerBar, failuresBar, callingBar
    <3>4. QED BY <3>2, <3>3
  <2>4. CASE ~(failure_count' >= FailureThreshold)
    <3>1. pc'[caller] = "idle"
      BY <1>1, <1>10, <2>4 DEF IncrCount, Leave, Goto
    <3>2. failure_count' < FailureThreshold
      BY <1>1, <2>2, <2>4
    <3>3. AloneInv'
      BY <1>1, <2>1, <2>2, <3>1, <3>2 DEF AloneInv
    <3>4. Docstring!Fail
      BY <1>1, <2>1, <2>2, <3>1, <3>2
         DEF Docstring!Fail, breakerBar, failuresBar, callingBar
    <3>5. QED BY <3>3, <3>4 DEF Docstring!AbstractNext
  <2>5. QED BY <2>3, <2>4
<1>11. ASSUME SetOpen(caller) PROVE Goal
  <2>1. /\ pc[caller] = "set_open" /\ pc'[caller] = "set_opened_at"
        /\ state' = "OPEN"
        /\ UNCHANGED <<failure_count, opened_age, seen, flaky>>
    BY <1>1, <1>11 DEF SetOpen, At, Goto
  <2>2. AloneInv'
    BY <1>1, <2>1 DEF AloneInv
  <2>3. UNCHANGED Bars
    BY <1>1, <2>1 DEF Bars, breakerBar, failuresBar, callingBar
  <2>4. QED BY <2>2, <2>3
<1>12. ASSUME SetOpenedAt(caller) PROVE Goal
  <2>1. /\ pc[caller] = "set_opened_at" /\ pc'[caller] = "idle"
        /\ state = "OPEN" /\ opened_age' = 0
        /\ UNCHANGED <<state, failure_count, flaky>>
    BY <1>1, <1>12 DEF SetOpenedAt, At, Goto, Leave, AloneInv
  <2>2. AloneInv'
    BY <1>1, <2>1 DEF AloneInv
  <2>3. Docstring!Fail
    BY <1>1, <2>1
       DEF AloneInv, Docstring!Fail, Docstring!Trip, breakerBar, failuresBar, callingBar
  <2>4. QED BY <2>2, <2>3 DEF Docstring!AbstractNext
<1>13. ASSUME Tick PROVE Goal
  <2>1. /\ opened_age' = IF opened_age < RecoveryTimeout THEN opened_age + 1 ELSE RecoveryTimeout
        /\ UNCHANGED <<state, failure_count, pc, seen, flaky>>
    BY <1>1, <1>13 DEF Tick, UpTo
  <2>2. AloneInv'
    BY <1>1, <2>1 DEF AloneInv
  <2>3. Docstring!AbstractTick
    BY <2>1 DEF Docstring!AbstractTick, breakerBar, failuresBar, callingBar
  <2>4. QED BY <2>2, <2>3 DEF Docstring!AbstractNext
<1>14. ASSUME DependencyChanges \/ UNCHANGED vars PROVE Goal
  <2>1. UNCHANGED <<state, failure_count, opened_age, pc, seen, flaky>>
    BY <1>14 DEF DependencyChanges, vars, redis
  <2>2. AloneInv'
    BY <1>1, <2>1 DEF AloneInv
  <2>3. UNCHANGED Bars
    BY <2>1 DEF Bars, breakerBar, failuresBar, callingBar
  <2>4. QED BY <2>2, <2>3
\* Nobody dies and Redis does not fail.
<1>15. ~RedisChanges /\ \A p \in Caller : p = caller /\ ~RecordingFails(p) /\ ~Crash(p)
  BY <1>1 DEF Alone, RedisChanges, RecordingFails, Crash, TypeOK
<1>16. ASSUME Step(caller) PROVE Goal
  <2> HIDE DEF Goal
  <2> QED
    BY <1>2, <1>3, <1>4, <1>5, <1>6, <1>7, <1>8, <1>9, <1>10, <1>11, <1>12, <1>16
       DEF Step, Admission, RecordSuccess, RecordFailure
<1>17. Goal
  <2> HIDE DEF Goal
  <2> QED BY <1>13, <1>14, <1>15, <1>16 DEF Next
<1>18. QED
  BY <1>17 DEF Bars, Docstring!abstractVars

\* A caller who is alone, whose Redis answers and who does not die meets the
\* breaker its docstring describes: every behaviour of the Redis operations is
\* one of AtomicBreaker under the mapping of SequentialBreaker.
THEOREM ImplementsTheDocstring == Alone => (Spec => ImplementsDocstring)
<1>1. Alone /\ Init => AloneInv /\ Docstring!AbstractInit
  BY AloneInit
<1>2. Alone /\ AloneInv /\ [Next]_vars
        => AloneInv' /\ [Docstring!AbstractNext]_(Docstring!abstractVars)
  BY AloneStep
<1>3. Alone => Alone'
  BY DEF Alone
<1>4. QED
  BY <1>1, <1>2, <1>3, PTL DEF Spec, ImplementsDocstring, Docstring!AbstractSpec
=============================================================================
