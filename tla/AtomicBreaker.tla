---------------------------- MODULE AtomicBreaker ----------------------------
(***************************************************************************)
(* The state machine the docstring of circuit_breaker.py describes, with   *)
(* each of its transitions in one step: what a breaker promises to a       *)
(* caller who is alone.  CircuitBreaker implements it when its Redis       *)
(* operations do not interleave with another caller's (module              *)
(* SequentialBreaker); the README says what is left of it otherwise.       *)
(***************************************************************************)
EXTENDS Naturals

CONSTANTS FailureThreshold, RecoveryTimeout

VARIABLES
    breaker,   \* CLOSED, OPEN or HALF_OPEN
    failures,  \* consecutive failures counted while CLOSED
    age,       \* ticks since the breaker opened, up to RecoveryTimeout
    calling    \* is the caller's call in progress?

abstractVars == <<breaker, failures, age, calling>>

AbstractInit ==
    /\ breaker = "CLOSED"
    /\ failures = 0
    /\ age = RecoveryTimeout
    /\ ~calling

\* An OPEN breaker admits nothing before the timeout, and then a trial.
Admit ==
    /\ ~calling
    /\ calling'
    /\ IF breaker = "OPEN"
         THEN age >= RecoveryTimeout /\ breaker' = "HALF_OPEN"
         ELSE UNCHANGED breaker
    /\ UNCHANGED <<failures, age>>

\* Any success closes the breaker and resets the counter.
Succeed ==
    /\ calling
    /\ ~calling'
    /\ breaker' = "CLOSED"
    /\ failures' = 0
    /\ UNCHANGED age

Trip == breaker' = "OPEN" /\ age' = 0

\* A failed trial reopens; the failure_threshold-th failure in a row opens.
Fail ==
    /\ calling
    /\ ~calling'
    /\ \/ /\ breaker = "HALF_OPEN"
          /\ Trip
          /\ UNCHANGED failures
       \/ /\ breaker = "CLOSED"
          /\ failures' = failures + 1
          /\ IF failures' = FailureThreshold
               THEN Trip
               ELSE UNCHANGED <<breaker, age>>

AbstractTick ==
    /\ age' = IF age < RecoveryTimeout THEN age + 1 ELSE RecoveryTimeout
    /\ UNCHANGED <<breaker, failures, calling>>

AbstractNext == Admit \/ Succeed \/ Fail \/ AbstractTick

AbstractSpec == AbstractInit /\ [][AbstractNext]_abstractVars
=============================================================================
