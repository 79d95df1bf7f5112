--------------------------- MODULE CircuitBreaker ---------------------------
(***************************************************************************)
(* The Redis-backed circuit breaker of                                     *)
(* backend/shared/reliability/circuit_breaker.py, used by several callers  *)
(* (request threads, Celery workers, containers) at once.                  *)
(*                                                                         *)
(* A breaker keeps three Redis keys: state, failure_count and opened_at.   *)
(* There is no transaction around them, so every Redis operation is a step *)
(* of its own here and callers interleave between any two.  A caller is    *)
(* somewhere inside `with breaker.guard(): call()`; pc says where.         *)
(***************************************************************************)
EXTENDS Naturals, FiniteSets

CONSTANTS
    Caller,            \* threads and processes that share the breaker
    FailureThreshold,  \* failure_threshold
    RecoveryTimeout,   \* recovery_timeout_seconds, in clock ticks
    RedisMayFail,      \* may Redis become unreliable?
    MaxCrashes         \* bound: how many callers may die inside guard()

ASSUME CallerAssumption    == IsFiniteSet(Caller)
ASSUME ThresholdAssumption == FailureThreshold \in Nat \ {0}
ASSUME TimeoutAssumption   == RecoveryTimeout \in Nat \ {0}
ASSUME RedisAssumption     == RedisMayFail \in BOOLEAN
ASSUME CrashAssumption     == MaxCrashes \in Nat

VARIABLES
    \* The three Redis keys.  A missing state reads as CLOSED, a missing count
    \* as 0.  opened_at is kept as its age, the ticks since it was written, up
    \* to RecoveryTimeout (all the code asks is whether that much has passed);
    \* a missing opened_at reads as 0.0, which is longer ago than any timeout.
    state,
    failure_count,     \* exact up to FailureThreshold, where it saturates
    opened_age,
    \* The callers.
    pc,                \* the next step of each caller inside guard()
    seen,              \* local `state` of allow_request / record_failure
    crashes,           \* callers that have died so far
    \* The protected dependency: do calls to it succeed at present?
    healthy,
    \* Redis: may an operation on it raise at present?
    flaky,
    \* History, read by no action.
    failed_calls,      \* calls that raised so far, up to FailureThreshold
    open_age           \* ticks since state last became OPEN, saturating

redis   == <<state, failure_count, opened_age>>
history == <<failed_calls, open_age>>
vars    == <<redis, pc, seen, crashes, healthy, flaky, history>>

CircuitState == {"CLOSED", "OPEN", "HALF_OPEN"}

Label == {"idle", "read_opened_at", "set_half_open", "calling",
          "reset_count", "set_closed",
          "read_state", "incr_count", "set_open", "set_opened_at"}

TypeOK ==
    /\ state \in CircuitState
    /\ failure_count \in 0..FailureThreshold
    /\ opened_age \in 0..RecoveryTimeout
    /\ pc \in [Caller -> Label]
    /\ seen \in [Caller -> CircuitState]
    /\ crashes \in 0..MaxCrashes
    /\ healthy \in BOOLEAN
    /\ flaky \in BOOLEAN
    /\ failed_calls \in 0..FailureThreshold
    /\ open_age \in 0..RecoveryTimeout

Init ==
    /\ state = "CLOSED"
    /\ failure_count = 0
    /\ opened_age = RecoveryTimeout
    /\ pc = [p \in Caller |-> "idle"]
    /\ seen = [p \in Caller |-> "CLOSED"]
    /\ crashes = 0
    /\ healthy = TRUE
    /\ flaky = FALSE
    /\ failed_calls = 0
    /\ open_age = RecoveryTimeout

UpTo(limit, n) == IF n < limit THEN n ELSE limit

At(p, here)  == pc[p] = here
Goto(p, there) == pc' = [pc EXCEPT ![p] = there]
\* The caller leaves guard(), its locals are gone.
Leave(p) == /\ Goto(p, "idle")
            /\ seen' = [seen EXCEPT ![p] = "CLOSED"]

-----------------------------------------------------------------------------
(* allow_request                                                           *)

\* What _get_state answers: the key, or CLOSED when reading it raises.
StateRead == {state} \cup (IF flaky THEN {"CLOSED"} ELSE {})

\* Mutant of ReadState: HALF_OPEN rejects everyone but the trial, which may be dead.
MutantReadState(p) ==
    /\ At(p, "idle")
    /\ state # "HALF_OPEN"
    /\ seen' = [seen EXCEPT ![p] = state]
    /\ Goto(p, IF state = "OPEN" THEN "read_opened_at" ELSE "calling")
    /\ UNCHANGED <<redis, crashes, healthy, flaky, history>>

\* guard() begins: CLOSED and HALF_OPEN admit the call, OPEN looks at the clock.
ReadState(p) ==
    /\ At(p, "idle")
    /\ \E s \in StateRead :
         /\ seen' = [seen EXCEPT ![p] = s]
         /\ Goto(p, IF s = "OPEN" THEN "read_opened_at" ELSE "calling")
    /\ UNCHANGED <<redis, crashes, healthy, flaky, history>>

\* OPEN, and the timeout has passed.  An opened_at that cannot be read is 0.0.
TimeoutElapsed(p) ==
    /\ At(p, "read_opened_at")
    /\ opened_age >= RecoveryTimeout \/ flaky
    /\ Goto(p, "set_half_open")
    /\ UNCHANGED <<redis, seen, crashes, healthy, flaky, history>>

\* OPEN, and it has not: guard() raises CircuitBreakerOpenError.
Reject(p) ==
    /\ At(p, "read_opened_at")
    /\ opened_age < RecoveryTimeout
    /\ Leave(p)
    /\ UNCHANGED <<redis, crashes, healthy, flaky, history>>

\* _set_state swallows a Redis error; the call is admitted all the same.
SetHalfOpen(p) ==
    /\ At(p, "set_half_open")
    /\ state' = "HALF_OPEN" \/ (flaky /\ state' = state)
    /\ Goto(p, "calling")
    /\ UNCHANGED <<failure_count, opened_age, seen, crashes, healthy, flaky, history>>

-----------------------------------------------------------------------------
(* The guarded block                                                       *)

CallReturns(p) ==
    /\ At(p, "calling")
    /\ healthy
    /\ Goto(p, "reset_count")
    /\ UNCHANGED <<redis, seen, crashes, healthy, flaky, history>>

CallRaises(p) ==
    /\ At(p, "calling")
    /\ ~healthy
    /\ Goto(p, "read_state")
    /\ failed_calls' = UpTo(FailureThreshold, failed_calls + 1)
    /\ UNCHANGED <<redis, seen, crashes, healthy, flaky, open_age>>

-----------------------------------------------------------------------------
(* record_success: two writes, the second not attempted if the first raises *)

ResetCount(p) ==
    /\ At(p, "reset_count")
    /\ failure_count' = 0
    /\ Goto(p, "set_closed")
    /\ UNCHANGED <<state, opened_age, seen, crashes, healthy, flaky, history>>

\* Mutant of SetClosed: a success resets the counter but leaves the state.
MutantSetClosed(p) ==
    /\ At(p, "set_closed")
    /\ Leave(p)
    /\ UNCHANGED <<redis, crashes, healthy, flaky, history>>

SetClosed(p) ==
    /\ At(p, "set_closed")
    /\ state' = "CLOSED"
    /\ Leave(p)
    /\ UNCHANGED <<failure_count, opened_age, crashes, healthy, flaky, history>>

-----------------------------------------------------------------------------
(* record_failure and _trip_open                                           *)

\* A failed trial reopens at once, any other failure is counted.
ReadStateAfterFailure(p) ==
    /\ At(p, "read_state")
    /\ \E s \in StateRead :
         /\ seen' = [seen EXCEPT ![p] = s]
         /\ Goto(p, IF s = "HALF_OPEN" THEN "set_open" ELSE "incr_count")
    /\ UNCHANGED <<redis, crashes, healthy, flaky, history>>

\* Mutants of IncrCount: compare the threshold with a count that is one too
\* high, or wait for one failure more than the counter is ever seen to hold.
TripWhen(p, trip) ==
    /\ At(p, "incr_count")
    /\ failure_count' = UpTo(FailureThreshold, failure_count + 1)
    /\ IF trip THEN Goto(p, "set_open") /\ UNCHANGED seen ELSE Leave(p)
    /\ UNCHANGED <<state, opened_age, crashes, healthy, flaky, history>>
MutantIncrEarly(p) == TripWhen(p, failure_count + 2 >= FailureThreshold)
MutantIncrLate(p)  == TripWhen(p, failure_count + 1 > FailureThreshold + 1)

\* INCR is atomic in Redis: no two callers obtain the same count.
IncrCount(p) ==
    /\ At(p, "incr_count")
    /\ failure_count' = UpTo(FailureThreshold, failure_count + 1)
    /\ IF failure_count' >= FailureThreshold
         THEN Goto(p, "set_open") /\ UNCHANGED seen
         ELSE Leave(p)
    /\ UNCHANGED <<state, opened_age, crashes, healthy, flaky, history>>

SetOpen(p) ==
    /\ At(p, "set_open")
    /\ state' = "OPEN"
    /\ open_age' = 0
    /\ Goto(p, "set_opened_at")
    /\ UNCHANGED <<failure_count, opened_age, seen, crashes, healthy, flaky, failed_calls>>

\* Mutants of SetOpenedAt: the breaker reopens without a fresh timestamp, or
\* stores when it may be tried again instead of when it opened.
MutantKeepOpenedAt(p) ==
    /\ At(p, "set_opened_at")
    /\ Leave(p)
    /\ UNCHANGED <<redis, crashes, healthy, flaky, history>>
SetOpenedAt(p) ==
    /\ At(p, "set_opened_at")
    /\ opened_age' = 0
    /\ Leave(p)
    /\ UNCHANGED <<state, failure_count, crashes, healthy, flaky, history>>

-----------------------------------------------------------------------------
(* Failures of the caller and of Redis; the environment                    *)

\* Any Redis error while recording is logged and ends the recording.
RecordingFails(p) ==
    /\ flaky
    /\ pc[p] \in {"reset_count", "set_closed", "incr_count", "set_open", "set_opened_at"}
    /\ Leave(p)
    /\ UNCHANGED <<redis, crashes, healthy, flaky, history>>

\* The process dies inside guard() (or the block raises something that is not
\* an Exception): nothing more is recorded.
Crash(p) ==
    /\ crashes < MaxCrashes
    /\ ~At(p, "idle")
    /\ crashes' = crashes + 1
    /\ Leave(p)
    /\ UNCHANGED <<redis, healthy, flaky, history>>

Tick ==
    /\ opened_age' = UpTo(RecoveryTimeout, opened_age + 1)
    /\ open_age' = UpTo(RecoveryTimeout, open_age + 1)
    /\ UNCHANGED <<state, failure_count, pc, seen, crashes, healthy, flaky, failed_calls>>

DependencyChanges ==
    /\ healthy' = ~healthy
    /\ UNCHANGED <<redis, pc, seen, crashes, flaky, history>>

\* Redis goes away, or comes back.
RedisChanges ==
    /\ RedisMayFail
    /\ flaky' = ~flaky
    /\ UNCHANGED <<redis, pc, seen, crashes, healthy, history>>

Admission(p) == ReadState(p) \/ TimeoutElapsed(p) \/ Reject(p) \/ SetHalfOpen(p)
RecordSuccess(p) == ResetCount(p) \/ SetClosed(p)
RecordFailure(p) == ReadStateAfterFailure(p) \/ IncrCount(p) \/ SetOpen(p) \/ SetOpenedAt(p)

Step(p) == \/ Admission(p)
           \/ CallReturns(p) \/ CallRaises(p)
           \/ RecordSuccess(p) \/ RecordFailure(p)

Next == \/ \E p \in Caller : Step(p) \/ RecordingFails(p) \/ Crash(p)
        \/ Tick
        \/ DependencyChanges
        \/ RedisChanges

Spec == Init /\ [][Next]_vars

\* Callers keep using the breaker and threads get scheduled, calls return or
\* time out (every guarded client has a timeout), and the clock advances.
Fairness == WF_vars(Tick) /\ \A p \in Caller : WF_vars(Step(p))

FairSpec == Spec /\ Fairness

-----------------------------------------------------------------------------
(* Properties                                                              *)

\* The breaker leaves CLOSED only after failure_threshold guarded calls have
\* really failed, whatever the interleaving of callers, crashes and Redis
\* errors: a burst of rejections, crashes or unreadable keys never opens it.
NoSpuriousOpen ==
    state # "CLOSED" => failed_calls >= FailureThreshold

\* Why NoSpuriousOpen is inductive.  Callers whose own call has failed and who
\* have yet to count it:
Counting == {p \in Caller : pc[p] \in {"read_state", "incr_count"}}

\* ... are among the failed calls that failure_count does not hold yet (resets
\* only lower the count), so a count at the threshold is evidence enough;
CountedOnce ==
    failed_calls < FailureThreshold
        => failure_count + Cardinality(Counting) <= failed_calls

\* ... and a caller that has seen the breaker open, or is about to open it,
\* carries that evidence from one step to the next.
Evidence(p) ==
    seen[p] # "CLOSED" \/ pc[p] \in {"read_opened_at", "set_half_open", "set_open", "set_opened_at"}
        => failed_calls >= FailureThreshold

OpenInv ==
    /\ TypeOK
    /\ NoSpuriousOpen
    /\ CountedOnce
    /\ \A p \in Caller : Evidence(p)

\* The breaker never wedges: even if callers die while they hold the half-open
\* trial and Redis comes and goes, calls keep reaching the dependency.
NeverWedged == []<>(\E p \in Caller : pc[p] = "calling")

\* Once the dependency stays healthy and Redis answers, the breaker closes for
\* good, whatever half-done updates the errors left behind.
Recovers == <>[](healthy /\ ~flaky) => <>[](state = "CLOSED")

\* If the dependency stays down while Redis answers, the breaker opens, and
\* opens again after every half-open trial: no interleaving of the updates
\* loses failures for ever.
FailsFast == <>[](~healthy /\ ~flaky) => []<>(state = "OPEN")

=============================================================================
