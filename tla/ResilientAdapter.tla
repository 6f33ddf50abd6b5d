-------------------------- MODULE ResilientAdapter --------------------------
(***************************************************************************)
(* app/core/resilience/resilient_adapter.py: every call to one provider,   *)
(* made by concurrent callers through the provider's one circuit breaker.  *)
(*                                                                         *)
(* The module keeps the points where a coroutine is suspended, because     *)
(* another caller may run there: awaiting the inner adapter ("completing", *)
(* "pulling") and, for the async generator stream(), parked at a `yield`   *)
(* until its consumer asks for more ("at_delta", "at_last").  What lies    *)
(* between two suspension points is one action.                            *)
(*                                                                         *)
(* A consumer in Drainers is GatewayService._drain: it returns at the      *)
(* terminal ChatResponse and never asks the generator for another event,   *)
(* so the generator is closed at its last `yield` by the interpreter.      *)
(***************************************************************************)
EXTENDS CircuitBreaker

CONSTANTS
    Callers,
    Drainers,    \* consumers that stop at the terminal event
    MaxFaults,   \* bound: timeouts and errors of the provider
    MaxAborts    \* bound: cancelled calls and streams closed by their consumer

ASSUME DrainersAssumption == Drainers \subseteq Callers
ASSUME BudgetAssumption == MaxFaults \in Nat /\ MaxAborts \in Nat

VARIABLES
    breaker,  \* self._breaker
    pc,       \* where each caller's coroutine is suspended
    gen,      \* the local `generation` of each caller's last admitted call
    emitted,  \* the local `emitted_any`
    result,   \* how each caller's last call ended
    leaked,   \* history: a trial's stream ended without a terminal event
    faults, aborts

vars == <<breaker, pc, gen, emitted, result, leaked, faults, aborts>>

Suspended == {"completing", "pulling", "at_delta", "at_last"}
Results == {"none", "response", "circuit_open", "unavailable", "ambiguous",
            "interrupted", "raw", "no_terminal", "cancelled", "closed"}

TypeOK ==
    /\ breaker \in Breaker
    /\ pc \in [Callers -> Suspended \cup {"idle"}]
    /\ gen \in [Callers -> Nat]
    /\ emitted \in [Callers -> BOOLEAN]
    /\ result \in [Callers -> Results]
    /\ leaked \in BOOLEAN
    /\ faults \in 0..MaxFaults
    /\ aborts \in 0..MaxAborts

Init ==
    /\ breaker = NewBreaker
    /\ pc = [c \in Callers |-> "idle"]
    /\ gen = [c \in Callers |-> 0]
    /\ emitted = [c \in Callers |-> FALSE]
    /\ result = [c \in Callers |-> "none"]
    /\ leaked = FALSE
    /\ faults = 0
    /\ aborts = 0

-----------------------------------------------------------------------------
\* allow(), then either CircuitOpen or a call suspended at `to`.
Begin(c, to) ==
    /\ pc[c] = "idle"
    /\ breaker' = Allow(breaker)
    /\ emitted' = [emitted EXCEPT ![c] = FALSE]
    /\ IF Admits(breaker)
       THEN /\ pc' = [pc EXCEPT ![c] = to]
            /\ gen' = [gen EXCEPT ![c] = Allow(breaker).gen]
            /\ result' = [result EXCEPT ![c] = "none"]
       ELSE /\ result' = [result EXCEPT ![c] = "circuit_open"]
            /\ UNCHANGED <<pc, gen>>
    /\ UNCHANGED <<leaked, faults, aborts>>

\* The call is over, with result r and the breaker left as b.
End(c, r, b) ==
    /\ breaker' = b
    /\ pc' = [pc EXCEPT ![c] = "idle"]
    /\ result' = [result EXCEPT ![c] = r]
    /\ UNCHANGED <<gen, emitted>>

Succeeds(c) ==
    /\ End(c, "response", RecordSuccess(breaker, gen[c]))
    /\ UNCHANGED <<leaked, faults, aborts>>

\* `except Exception` (a TimeoutError included): the failure counts.
Fails(c, r) ==
    /\ faults < MaxFaults
    /\ faults' = faults + 1
    /\ End(c, r, RecordFailure(breaker, gen[c]))
    /\ UNCHANGED <<leaked, aborts>>

\* `except BaseException`: CancelledError, or GeneratorExit at a `yield`.
Aborts(c, r) ==
    /\ aborts < MaxAborts
    /\ aborts' = aborts + 1
    /\ End(c, r, RecordAbort(breaker, gen[c]))
    /\ UNCHANGED <<leaked, faults>>

Moves(c, to) ==
    /\ pc' = [pc EXCEPT ![c] = to]
    /\ UNCHANGED <<breaker, gen, result, leaked, faults, aborts>>

-----------------------------------------------------------------------------
\* complete()
Complete(c) == Begin(c, "completing")

CompleteReturns(c) == pc[c] = "completing" /\ Succeeds(c)

CompleteTimesOut(c) == pc[c] = "completing" /\ Fails(c, "ambiguous")

\* The inner adapter raised; its error passes through unchanged.  An adapter maps
\* the SDK's errors to the first two; anything else it raises is "raw".
CompleteErrors == {"unavailable", "ambiguous", "raw"}
CompleteRaises(c) ==
    /\ pc[c] = "completing"
    /\ \E e \in CompleteErrors : Fails(c, e)

CompleteCancelled(c) == pc[c] = "completing" /\ Aborts(c, "cancelled")

-----------------------------------------------------------------------------
\* stream(); the code up to the first suspension runs at the first anext().
Stream(c) == Begin(c, "pulling")

PullsDelta(c) ==
    /\ pc[c] = "pulling"
    /\ emitted' = [emitted EXCEPT ![c] = TRUE]
    /\ Moves(c, "at_delta")

PullsTerminal(c) ==
    /\ pc[c] = "pulling"
    /\ Moves(c, "at_last")
    /\ UNCHANGED emitted

\* asyncio.timeout around __anext__ expired.
StallResultForgetsDeltas(c) == "ambiguous"
StallResult(c) == IF emitted[c] THEN "interrupted" ELSE "ambiguous"
PullStalls(c) == pc[c] = "pulling" /\ Fails(c, StallResult(c))

\* _raise_stream_failure: an SDK error after content is always an interruption.
PullErrors(c) ==
    IF emitted[c] THEN {"interrupted", "raw"} ELSE CompleteErrors
PullRaises(c) ==
    /\ pc[c] = "pulling"
    /\ \E e \in PullErrors(c) : Fails(c, e)

\* StopAsyncIteration without a terminal event, against the contract of base.py:
\* the loop breaks and no outcome is handed back to the breaker.
PullStops(c) ==
    /\ pc[c] = "pulling"
    /\ End(c, "no_terminal", breaker)
    /\ leaked' = (leaked \/ (breaker.trial /\ gen[c] = breaker.gen))
    /\ UNCHANGED <<faults, aborts>>

PullCancelled(c) == pc[c] = "pulling" /\ Aborts(c, "cancelled")

\* The consumer asks for the next event after a delta.
Resumes(c) ==
    /\ pc[c] = "at_delta"
    /\ Moves(c, "pulling")
    /\ UNCHANGED emitted

\* The consumer closes the generator (aclose) while it is parked at a `yield`.
ConsumerCloses(c) ==
    /\ pc[c] \in {"at_delta", "at_last"}
    /\ Aborts(c, "closed")

\* The consumer exhausts the generator: record_success after the last `yield`.
Exhausts(c) ==
    /\ pc[c] = "at_last"
    /\ c \notin Drainers
    /\ Succeeds(c)

\* _drain has returned at the terminal event; dropping its reference closes the
\* generator, and GeneratorExit at the last `yield` is a BaseException.
DrainFinalized(c) ==
    /\ pc[c] = "at_last"
    /\ c \in Drainers
    /\ End(c, "response", RecordAbort(breaker, gen[c]))
    /\ UNCHANGED <<leaked, faults, aborts>>

-----------------------------------------------------------------------------
\* time.monotonic() advances.
Tick ==
    /\ Cooling(breaker)
    /\ breaker' = Elapse(breaker)
    /\ UNCHANGED <<pc, gen, emitted, result, leaked, faults, aborts>>

Call(c) ==
    \/ Complete(c) \/ CompleteReturns(c) \/ CompleteTimesOut(c)
    \/ CompleteRaises(c) \/ CompleteCancelled(c)
    \/ Stream(c) \/ PullsDelta(c) \/ PullsTerminal(c) \/ PullStalls(c)
    \/ PullRaises(c) \/ PullStops(c) \/ PullCancelled(c)
    \/ Resumes(c) \/ ConsumerCloses(c) \/ Exhausts(c) \/ DrainFinalized(c)

Next == Tick \/ \E c \in Callers : Call(c)

Spec == Init /\ [][Next]_vars

(***************************************************************************)
(* Traffic keeps arriving, the clock runs, the provider answers the calls  *)
(* it does not fail (MaxFaults of them), every stream reaches its end      *)
(* (max_tokens bounds it) and consumers keep reading; _drain's abandoned   *)
(* generators are finalized.  A caller that is not a drainer keeps calling *)
(* and is not passed over for ever while the circuit would admit it.       *)
(***************************************************************************)
Fairness ==
    /\ WF_vars(Tick)
    /\ WF_vars(\E c \in Callers : Complete(c) \/ Stream(c))
    /\ \A c \in Callers :
        /\ WF_vars(CompleteReturns(c))
        /\ SF_vars(PullsTerminal(c))
        /\ WF_vars(Resumes(c) \/ Exhausts(c) \/ DrainFinalized(c))
    /\ \A c \in Callers \ Drainers :
        SF_vars(Admits(breaker) /\ (Complete(c) \/ Stream(c)))

FairSpec == Spec /\ Fairness

-----------------------------------------------------------------------------
\* The calls whose outcome the breaker will still accept.
Voters == {c \in Callers : pc[c] \in Suspended /\ gen[c] = breaker.gen}

\* While a circuit is half open at most one admitted call can still decide it,
\* however many calls of older generations are under way; with the circuit open
\* there is none (allow's trial flag and record_*'s generation check together).
AtMostOneTrial ==
    /\ breaker.state = OPEN => Voters = {}
    /\ breaker.state = HALF_OPEN => \A c, d \in Voters : c = d
    /\ breaker.state = HALF_OPEN /\ Voters # {} => breaker.trial

\* The trial slot is leaked in one way only: while it is taken, the call that
\* took it is still under way and will hand it back, by whatever way that call
\* ends, unless it was a stream that stopped without a terminal event.
NoLeakedSlot ==
    breaker.trial => breaker.state = HALF_OPEN /\ (Voters # {} \/ leaked)

\* The circuit is off CLOSED exactly when fail_threshold counted failures have
\* come in with no counted success since, across any number of re-openings.
TripsAreEarned ==
    breaker.state # CLOSED <=> breaker.failures >= FailThreshold

\* An open circuit is left only when its whole cooldown has run, and only by
\* admitting the trial; no late outcome re-opens it or restarts its clock.
OpenRunsItsCooldown ==
    [][breaker.state = OPEN =>
         \/ breaker'.state = OPEN /\ breaker'.cool \in {breaker.cool, breaker.cool - 1}
         \/ /\ breaker'.state = HALF_OPEN /\ breaker.cool = 0
            /\ \E c \in Callers : pc[c] = "idle" /\ Voters' = {c}]_vars

\* Once content has reached the consumer no end of the call invites a retry
\* elsewhere: neither "unavailable" nor a plain "ambiguous" (emitted_any, and
\* _raise_stream_failure in the adapters).
EmittedIsFinal ==
    \A c \in Callers :
        pc[c] = "idle" /\ emitted[c] => result[c] \notin {"unavailable", "ambiguous"}

(***************************************************************************)
(* The inductive invariant behind the properties above.  The bound on gen  *)
(* is what makes a retired generation stay retired.                        *)
(***************************************************************************)
GenerationsPast == \A c \in Callers : gen[c] <= breaker.gen

BreakerConsistent ==
    /\ breaker.trial => breaker.state = HALF_OPEN
    /\ breaker.state # OPEN => breaker.cool = 0
    /\ TripsAreEarned

\* Deltas belong to streams; with EmittedIsFinal, inductive given TypeOK.
OnlyStreamsEmit == \A c \in Callers : pc[c] = "completing" => ~emitted[c]

Inv ==
    /\ TypeOK
    /\ BreakerConsistent
    /\ GenerationsPast
    /\ AtMostOneTrial
    /\ NoLeakedSlot

\* HALF_OPEN -> "Success closes the circuit": once the provider has stopped
\* failing, a circuit that tripped closes again, unless its slot was leaked.
Heals == breaker.state # CLOSED ~> breaker.state = CLOSED \/ leaked

\* The breaker with its generations and trial flag implements the gate that
\* keeps only the set of voters.
Gate == INSTANCE CircuitGate WITH
    phase <- breaker.state, voters <- Voters,
    strikes <- breaker.failures, wait <- breaker.cool
ImplementsGate == Gate!Spec

=============================================================================
