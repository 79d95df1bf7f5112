-------------------------- MODULE SequentialBreaker --------------------------
(***************************************************************************)
(* One caller, reliable Redis, no crash: the breaker of CircuitBreaker     *)
(* implements AtomicBreaker.  The mapping says at which of its Redis       *)
(* operations each transition of the docstring takes effect.               *)
(***************************************************************************)
EXTENDS CircuitBreaker

CONSTANT caller

\* What this module is about.  It is a hypothesis of the theorem, not of the
\* module, so that the proofs about any number of callers may extend it.
Alone ==
    /\ Caller = {caller}
    /\ RedisMayFail = FALSE
    /\ MaxCrashes = 0

At1(labels) == pc[caller] \in labels

\* A trip takes effect when opened_at is written: until then the breaker is
\* still in the state record_failure read, and the failure is not yet counted.
Tripping == At1({"set_open", "set_opened_at"})

\* A success takes effect with the first of its two writes.
breakerBar ==
    CASE At1({"set_closed"}) -> "CLOSED"
      [] Tripping            -> seen[caller]
      [] OTHER               -> state

failuresBar ==
    IF Tripping /\ seen[caller] = "CLOSED" THEN failure_count - 1 ELSE failure_count

callingBar == ~At1({"idle", "read_opened_at", "set_half_open", "set_closed"})

Docstring == INSTANCE AtomicBreaker
    WITH breaker <- breakerBar, failures <- failuresBar,
         age <- opened_age, calling <- callingBar

\* With one caller the breaker behaves as its docstring says, step by step:
\* OPEN rejects until the timeout, one trial decides, failure_threshold
\* consecutive failures open, any success closes and resets.
ImplementsDocstring == Docstring!AbstractSpec

=============================================================================
