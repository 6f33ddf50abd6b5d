--------------------------- MODULE CircuitBreaker ---------------------------
(***************************************************************************)
(* app/core/resilience/circuit_breaker.py: the failure gate kept for each  *)
(* provider (and for the Redis rate limiter).  A breaker is a record and   *)
(* each method is a function of it.  No method awaits while it holds       *)
(* _lock, so under asyncio each of them is one atomic step.                *)
(*                                                                         *)
(* _opened_at is kept as the cooldown still to run: `cool` is set to       *)
(* ResetTimeout where the code stores time.monotonic(), one unit elapses   *)
(* per tick, and `now - _opened_at >= _reset_timeout_s` is `cool = 0`.     *)
(*                                                                         *)
(* An operator such as AdmitsEarly, placed before the operator it varies   *)
(* and used by no other, is a plausible mistake in the method: PROJECT.json*)
(* names the property that rules it out.                                   *)
(***************************************************************************)
EXTENDS Naturals

CONSTANTS
    FailThreshold,  \* fail_threshold: consecutive failures that trip the circuit
    ResetTimeout    \* reset_timeout_s, in ticks

ASSUME FailThresholdAssumption == FailThreshold \in Nat \ {0}
ASSUME ResetTimeoutAssumption == ResetTimeout \in Nat

CLOSED == "closed"
OPEN == "open"
HALF_OPEN == "half_open"
CircuitState == {CLOSED, OPEN, HALF_OPEN}

Breaker == [state: CircuitState, failures: Nat, cool: 0..ResetTimeout,
            trial: BOOLEAN, gen: Nat]

NewBreaker ==
    [state |-> CLOSED, failures |-> 0, cool |-> 0, trial |-> FALSE, gen |-> 0]

\* A method's result when the state is kept ...
Stay(b, failures, trial) ==
    [state |-> b.state, failures |-> failures, cool |-> b.cool,
     trial |-> trial, gen |-> b.gen]

\* ... and when it moves to s: _enter retires the current generation.
EnterKeepsGeneration(b, s, failures, cool, trial) ==
    [state |-> s, failures |-> failures, cool |-> cool,
     trial |-> trial, gen |-> b.gen]
Enter(b, s, failures, cool, trial) ==
    [state |-> s, failures |-> failures, cool |-> cool,
     trial |-> trial, gen |-> b.gen + 1]

\* allow() returns (Admits(b), Allow(b).gen) and leaves the breaker Allow(b).
AdmitsEarly(b) ==
    \/ b.state = CLOSED
    \/ b.state = OPEN
    \/ b.state = HALF_OPEN /\ ~b.trial
Admits(b) ==
    \/ b.state = CLOSED
    \/ b.state = OPEN /\ b.cool = 0
    \/ b.state = HALF_OPEN /\ ~b.trial

Allow(b) ==
    IF ~Admits(b) \/ b.state = CLOSED THEN b
    ELSE IF b.state = OPEN THEN Enter(b, HALF_OPEN, b.failures, b.cool, TRUE)
    ELSE Stay(b, b.failures, TRUE)

RecordSuccessStaysHalfOpen(b, gen) ==
    IF gen # b.gen THEN b ELSE Stay(b, 0, FALSE)
RecordSuccess(b, gen) ==
    IF gen # b.gen THEN b
    ELSE IF b.state = CLOSED THEN Stay(b, 0, FALSE)
    ELSE Enter(b, CLOSED, 0, b.cool, FALSE)

TripsLate(b) == b.state = HALF_OPEN \/ b.failures >= FailThreshold
Trips(b) == b.state = HALF_OPEN \/ b.failures + 1 >= FailThreshold

RecordFailureAnyGeneration(b, gen) ==
    IF Trips(b) THEN Enter(b, OPEN, b.failures + 1, ResetTimeout, FALSE)
    ELSE Stay(b, b.failures + 1, FALSE)
RecordFailure(b, gen) ==
    IF gen # b.gen THEN b
    ELSE IF Trips(b) THEN Enter(b, OPEN, b.failures + 1, ResetTimeout, FALSE)
    ELSE Stay(b, b.failures + 1, FALSE)

RecordAbortForgotten(b, gen) == b
RecordAbort(b, gen) ==
    IF gen # b.gen THEN b ELSE Stay(b, b.failures, FALSE)

\* One unit of time.monotonic(); only an open circuit looks at the clock.
CoolingForever(b) == b.state = OPEN
Cooling(b) == b.state = OPEN /\ b.cool > 0
Elapse(b) == [b EXCEPT !.cool = b.cool - 1]

=============================================================================
