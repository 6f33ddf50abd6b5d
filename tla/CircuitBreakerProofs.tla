------------------------ MODULE CircuitBreakerProofs ------------------------
(***************************************************************************)
(* Facts about the breaker's methods that the proofs about its users rest  *)
(* on: the provider adapters', the gateway's and the rate limiter's.       *)
(***************************************************************************)
EXTENDS CircuitBreaker, TLAPS

\* The breaker's methods keep it a breaker and never turn its generation back.
LEMMA BreakerOperations ==
    ASSUME NEW b \in Breaker, NEW g \in Nat
    PROVE  /\ Allow(b) \in Breaker /\ Allow(b).gen >= b.gen
           /\ RecordSuccess(b, g) \in Breaker /\ RecordSuccess(b, g).gen >= b.gen
           /\ RecordFailure(b, g) \in Breaker /\ RecordFailure(b, g).gen >= b.gen
           /\ RecordAbort(b, g) \in Breaker /\ RecordAbort(b, g).gen >= b.gen
           /\ Cooling(b) => Elapse(b) \in Breaker /\ Elapse(b).gen = b.gen
<1> USE ResetTimeoutAssumption, FailThresholdAssumption
        DEF Breaker, CircuitState, Enter, Stay, CLOSED, OPEN, HALF_OPEN
<1>1. Allow(b) \in Breaker /\ Allow(b).gen >= b.gen
  BY DEF Allow, Admits
<1>2. RecordSuccess(b, g) \in Breaker /\ RecordSuccess(b, g).gen >= b.gen
  BY DEF RecordSuccess
<1>3. RecordFailure(b, g) \in Breaker /\ RecordFailure(b, g).gen >= b.gen
  BY DEF RecordFailure, Trips
<1>4. RecordAbort(b, g) \in Breaker /\ RecordAbort(b, g).gen >= b.gen
  BY DEF RecordAbort
<1>5. Cooling(b) => Elapse(b) \in Breaker /\ Elapse(b).gen = b.gen
  BY DEF Cooling, Elapse
<1> QED BY <1>1, <1>2, <1>3, <1>4, <1>5

\* A trial slot changes hands only through allow(), which gives it to the caller
\* together with the generation it returns, and is free once the outcome of a
\* call of the current generation is known; a stale outcome changes nothing.
LEMMA TrialSlot ==
    ASSUME NEW b \in Breaker, NEW g \in Nat
    PROVE  /\ Admits(b) => (Allow(b) = b /\ b.state = CLOSED) \/ Allow(b).trial
           /\ g # b.gen => /\ RecordSuccess(b, g) = b
                           /\ RecordFailure(b, g) = b
                           /\ RecordAbort(b, g) = b
           /\ g = b.gen => /\ ~RecordSuccess(b, g).trial
                           /\ ~RecordFailure(b, g).trial
                           /\ ~RecordAbort(b, g).trial
           /\ Cooling(b) => Elapse(b).trial = b.trial /\ Elapse(b).gen = b.gen
<1> USE DEF Breaker, CircuitState, Enter, Stay, CLOSED, OPEN, HALF_OPEN
<1>1. Admits(b) => (Allow(b) = b /\ b.state = CLOSED) \/ Allow(b).trial
  BY DEF Allow, Admits
<1>2. g # b.gen => /\ RecordSuccess(b, g) = b
                   /\ RecordFailure(b, g) = b
                   /\ RecordAbort(b, g) = b
  BY DEF RecordSuccess, RecordFailure, RecordAbort
<1>3. g = b.gen => /\ ~RecordSuccess(b, g).trial
                   /\ ~RecordFailure(b, g).trial
                   /\ ~RecordAbort(b, g).trial
  BY DEF RecordSuccess, RecordFailure, RecordAbort
<1>4. Cooling(b) => Elapse(b).trial = b.trial /\ Elapse(b).gen = b.gen
  BY DEF Cooling, Elapse
<1> QED BY <1>1, <1>2, <1>3, <1>4

=============================================================================
