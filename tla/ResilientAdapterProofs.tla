----------------------- MODULE ResilientAdapterProofs -----------------------
(***************************************************************************)
(* The breaker's safety for any number of callers, any threshold and any   *)
(* cooldown, and its refinement of CircuitGate.                            *)
(*                                                                         *)
(* Every action of ResilientAdapter has one of five shapes: it begins a    *)
(* call, ends one handing a breaker operation its generation, ends one     *)
(* without telling the breaker, moves it between suspension points, or     *)
(* lets time pass.  One lemma per shape shows that Inv survives it.        *)
(***************************************************************************)
EXTENDS ResilientAdapter, CircuitBreakerProofs, TLAPS

USE DEF CLOSED, OPEN, HALF_OPEN

\* A call that begins: the three ways allow() admits, and a rejection.
LEMMA BeginKeepsInv ==
    ASSUME Inv, NEW c \in Callers, NEW to \in Suspended, Begin(c, to)
    PROVE  Inv' /\ (Admits(breaker) /\ breaker.state # CLOSED => Voters' = {c})
<1> USE DEF Inv
<1>1. breaker' \in Breaker /\ breaker'.gen >= breaker.gen
  BY BreakerOperations DEF TypeOK, Begin
<1>0. leaked' = leaked
  BY DEF Begin
<1>2. TypeOK'
  BY <1>1 DEF TypeOK, Begin, Breaker, Suspended, Results
<1>3. BreakerConsistent'
  BY DEF BreakerConsistent, TripsAreEarned, Begin, Allow, Admits, Enter, Stay,
         TypeOK, Breaker
<1>4. GenerationsPast'
  BY <1>1 DEF GenerationsPast, Begin, TypeOK, Breaker
<1>5. CASE ~Admits(breaker)
  <2>1. breaker' = breaker /\ Voters' = Voters
    BY <1>5 DEF Begin, Allow, Voters
  <2> QED BY <1>0, <1>2, <1>3, <1>4, <2>1, <1>5 DEF AtMostOneTrial, NoLeakedSlot
<1>6. CASE breaker.state = CLOSED
  <2>1. breaker' = breaker
    BY <1>6 DEF Begin, Allow
  <2> QED BY <1>0, <1>2, <1>3, <1>4, <1>6, <2>1 DEF AtMostOneTrial, NoLeakedSlot
<1>7. CASE Admits(breaker) /\ breaker.state # CLOSED
  <2>1. /\ breaker'.state = HALF_OPEN /\ breaker'.trial = TRUE
        /\ pc' = [pc EXCEPT ![c] = to]
        /\ gen' = [gen EXCEPT ![c] = breaker'.gen]
    BY <1>7 DEF Begin, Allow, Admits, Enter, Stay
  <2>2. c \in Voters'
    BY <2>1 DEF Voters, TypeOK
  <2>3. ASSUME NEW d \in Voters', d # c PROVE FALSE
    <3>1. d \in Callers /\ pc[d] \in Suspended /\ gen[d] = breaker'.gen
      BY <2>1, <2>3 DEF Voters, TypeOK
    <3>2. CASE breaker.state = OPEN
      <4>1. breaker'.gen = breaker.gen + 1
        BY <1>7, <3>2 DEF Begin, Allow, Enter
      <4> QED BY <3>1, <4>1 DEF GenerationsPast, TypeOK, Breaker
    <3>3. CASE breaker.state = HALF_OPEN
      <4>1. breaker'.gen = breaker.gen /\ ~breaker.trial
        BY <1>7, <3>3 DEF Begin, Allow, Stay, Admits
      <4> QED BY <3>1, <3>3, <4>1 DEF AtMostOneTrial, Voters
    <3> QED BY <1>7, <3>2, <3>3 DEF Admits
  <2>4. Voters' = {c}
    BY <2>2, <2>3
  <2> QED BY <1>2, <1>3, <1>4, <2>1, <2>4 DEF AtMostOneTrial, NoLeakedSlot
<1> QED BY <1>5, <1>6, <1>7

\* A call that ends with an outcome: a stale one changes nothing; a counted one
\* frees the slot and, if the circuit moves, retires every other voter.
LEMMA EndKeepsInv ==
    ASSUME Inv, NEW c \in Callers, pc[c] \in Suspended, NEW r \in Results,
           NEW b, End(c, r, b),
           \/ b = RecordSuccess(breaker, gen[c])
           \/ b = RecordFailure(breaker, gen[c])
           \/ b = RecordAbort(breaker, gen[c]),
           faults' \in 0..MaxFaults, aborts' \in 0..MaxAborts, leaked' = leaked
    PROVE  /\ Inv'
           /\ gen[c] # breaker.gen => breaker' = breaker /\ Voters' = Voters
           /\ gen[c] = breaker.gen => 
                 Voters' = IF breaker'.gen = breaker.gen THEN Voters \ {c} ELSE {}
<1> USE DEF Inv
<1>0. breaker \in Breaker /\ gen[c] \in Nat
  BY DEF TypeOK
<1>1. breaker' \in Breaker /\ breaker'.gen >= breaker.gen
  BY <1>0, BreakerOperations DEF End
<1>2. TypeOK'
  BY <1>1 DEF TypeOK, End
<1>3. BreakerConsistent'
  BY <1>0, FailThresholdAssumption, ResetTimeoutAssumption
     DEF BreakerConsistent, TripsAreEarned, AtMostOneTrial, Voters, End,
         RecordSuccess, RecordFailure, RecordAbort, Trips, Enter, Stay, Breaker
<1>4. GenerationsPast'
  BY <1>1 DEF GenerationsPast, End, TypeOK, Breaker
<1>5. CASE gen[c] # breaker.gen
  <2>1. breaker' = breaker
    BY <1>5 DEF End, RecordSuccess, RecordFailure, RecordAbort
  <2>2. Voters' = Voters
    BY <1>5, <2>1 DEF Voters, End, TypeOK, Suspended
  <2> QED BY <1>2, <1>3, <1>4, <1>5, <2>1, <2>2 DEF AtMostOneTrial, NoLeakedSlot
<1>6. CASE gen[c] = breaker.gen
  <2>1. c \in Voters
    BY <1>6 DEF Voters
  <2>2. ~breaker'.trial /\ breaker.state # OPEN
    BY <1>6, <2>1 DEF End, RecordSuccess, RecordFailure, RecordAbort,
                      Enter, Stay, AtMostOneTrial
  <2>3. \/ breaker'.gen = breaker.gen /\ breaker'.state = breaker.state
        \/ breaker'.gen = breaker.gen + 1
    BY <1>6 DEF End, RecordSuccess, RecordFailure, RecordAbort, Enter, Stay
  <2>4. Voters' = IF breaker'.gen = breaker.gen THEN Voters \ {c} ELSE {}
    <3>1. CASE breaker'.gen = breaker.gen
      BY <3>1 DEF Voters, End, TypeOK, Suspended
    <3>2. CASE breaker'.gen = breaker.gen + 1
      BY <3>2, <1>0 DEF Voters, End, GenerationsPast, TypeOK, Breaker
    <3> QED BY <2>3, <3>1, <3>2
  <2>5. AtMostOneTrial'
    <3>1. CASE breaker'.gen = breaker.gen /\ breaker'.state = breaker.state
      BY <3>1, <2>1, <2>2, <2>4 DEF AtMostOneTrial
    <3>2. CASE breaker'.gen = breaker.gen + 1
      BY <3>2, <2>4, <1>0 DEF AtMostOneTrial, Breaker
    <3> QED BY <2>3, <3>1, <3>2
  <2>6. NoLeakedSlot'
    BY <2>2 DEF NoLeakedSlot
  <2> QED BY <1>2, <1>3, <1>4, <1>6, <2>4, <2>5, <2>6
<1> QED BY <1>5, <1>6

\* A call that moves from one suspension point to another keeps its vote.
LEMMA MoveKeepsInv ==
    ASSUME Inv, NEW c \in Callers, pc[c] \in Suspended, NEW to \in Suspended,
           Moves(c, to), emitted' \in [Callers -> BOOLEAN]
    PROVE  Inv' /\ breaker' = breaker /\ Voters' = Voters
<1>1. breaker' = breaker /\ Voters' = Voters
  BY DEF Moves, Voters, Inv, TypeOK
<1>2. TypeOK'
  BY DEF Inv, TypeOK, Moves
<1> QED
  BY <1>1, <1>2 DEF Inv, Moves, BreakerConsistent, TripsAreEarned,
     GenerationsPast, AtMostOneTrial, NoLeakedSlot

\* A stream that stops without a terminal event leaves the breaker untouched,
\* and takes the trial slot with it only if it held it: then `leaked` says so.
LEMMA StopKeepsInv ==
    ASSUME Inv, NEW c \in Callers, PullStops(c)
    PROVE  Inv' /\ breaker' = breaker /\ Voters' = Voters \ {c}
<1>1. breaker' = breaker /\ Voters' = Voters \ {c}
  BY DEF PullStops, End, Voters, Inv, TypeOK, Suspended
<1>2. TypeOK'
  <2>1. leaked' \in BOOLEAN
    BY DEF PullStops
  <2> QED BY <2>1 DEF Inv, TypeOK, PullStops, End, Results
<1>3. GenerationsPast'
  BY <1>1 DEF Inv, GenerationsPast, PullStops, End
<1>4. NoLeakedSlot'
  <2> SUFFICES ASSUME breaker.trial, Voters = {c} PROVE leaked'
    BY <1>1 DEF Inv, NoLeakedSlot, PullStops
  <2> QED BY DEF PullStops, Voters
<1> QED
  BY <1>1, <1>2, <1>3, <1>4 DEF Inv, BreakerConsistent, TripsAreEarned, AtMostOneTrial

\* Time only moves the cooldown of an open circuit.
LEMMA TickKeepsInv ==
    ASSUME Inv, Tick
    PROVE  Inv' /\ Voters' = Voters
<1>1. breaker' \in Breaker /\ breaker'.gen = breaker.gen
  BY BreakerOperations DEF Inv, TypeOK, Tick
<1>2. /\ breaker'.state = OPEN /\ breaker.state = OPEN
      /\ breaker'.failures = breaker.failures /\ breaker'.trial = breaker.trial
  BY DEF Inv, TypeOK, Breaker, Tick, Elapse, Cooling
<1>3. Voters' = Voters
  BY <1>1 DEF Voters, Tick
<1>4. TypeOK'
  BY <1>1 DEF Inv, TypeOK, Tick
<1> QED
  BY <1>1, <1>2, <1>3, <1>4 DEF Inv, Tick, BreakerConsistent, TripsAreEarned,
     GenerationsPast, AtMostOneTrial, NoLeakedSlot

-----------------------------------------------------------------------------
\* Every step of a call keeps Inv and maps to a step of the gate or to none.
LEMMA CallKeepsInv ==
    ASSUME Inv, NEW c \in Callers, Call(c)
    PROVE  Inv'
<1>1. CASE Complete(c) \/ Stream(c)
  BY <1>1, BeginKeepsInv DEF Complete, Stream, Suspended
<1>2. CASE CompleteReturns(c) \/ Exhausts(c)
  <2>1. pc[c] \in Suspended /\ Succeeds(c)
    BY <1>2 DEF CompleteReturns, Exhausts, Suspended
  <2>2. faults' \in 0..MaxFaults /\ aborts' \in 0..MaxAborts /\ leaked' = leaked
    BY <2>1 DEF Succeeds, Inv, TypeOK
  <2> QED BY <2>1, <2>2, EndKeepsInv DEF Succeeds, Results
<1>3. CASE CompleteTimesOut(c) \/ CompleteRaises(c) \/ PullStalls(c) \/ PullRaises(c)
  <2>1. PICK r \in Results : pc[c] \in Suspended /\ Fails(c, r)
    BY <1>3 DEF CompleteTimesOut, CompleteRaises, CompleteErrors, PullStalls, PullRaises,
       StallResult, PullErrors, Suspended, Results
  <2>2. faults' \in 0..MaxFaults /\ aborts' \in 0..MaxAborts /\ leaked' = leaked
    BY <2>1, BudgetAssumption DEF Fails, Inv, TypeOK
  <2> QED BY <2>1, <2>2, EndKeepsInv DEF Fails
<1>4. CASE CompleteCancelled(c) \/ PullCancelled(c) \/ ConsumerCloses(c)
  <2>1. PICK r \in Results : pc[c] \in Suspended /\ Aborts(c, r)
    BY <1>4 DEF CompleteCancelled, PullCancelled, ConsumerCloses, Suspended, Results
  <2>2. faults' \in 0..MaxFaults /\ aborts' \in 0..MaxAborts /\ leaked' = leaked
    BY <2>1, BudgetAssumption DEF Aborts, Inv, TypeOK
  <2> QED BY <2>1, <2>2, EndKeepsInv DEF Aborts
<1>5. CASE DrainFinalized(c)
  <2>1. faults' \in 0..MaxFaults /\ aborts' \in 0..MaxAborts /\ leaked' = leaked
    BY <1>5 DEF DrainFinalized, Inv, TypeOK
  <2> QED BY <1>5, <2>1, EndKeepsInv DEF DrainFinalized, Suspended, Results
<1>6. CASE PullsDelta(c) \/ PullsTerminal(c) \/ Resumes(c)
  <2>1. emitted' \in [Callers -> BOOLEAN]
    BY <1>6 DEF PullsDelta, PullsTerminal, Resumes, Inv, TypeOK
  <2> QED
    BY <1>6, <2>1, MoveKeepsInv DEF PullsDelta, PullsTerminal, Resumes, Suspended
<1>7. CASE PullStops(c)
  BY <1>7, StopKeepsInv
<1> QED BY <1>1, <1>2, <1>3, <1>4, <1>5, <1>6, <1>7 DEF Call

\* Inv holds in every state of every behaviour of the adapter, for any number of
\* callers and any threshold, cooldown and budget of faults.
THEOREM Invariance == Spec => []Inv
<1>1. Init => Inv
  <2> SUFFICES ASSUME Init PROVE Inv
    OBVIOUS
  <2>1. leaked \in BOOLEAN
    BY DEF Init
  <2>2. TypeOK
    BY <2>1, ResetTimeoutAssumption, BudgetAssumption
       DEF Init, TypeOK, NewBreaker, Breaker, CircuitState, Results
  <2>3. Voters = {} /\ ~breaker.trial /\ breaker.state = CLOSED
    BY DEF Init, NewBreaker, Voters, Suspended
  <2>4. BreakerConsistent /\ GenerationsPast
    BY FailThresholdAssumption
       DEF Init, NewBreaker, BreakerConsistent, TripsAreEarned, GenerationsPast
  <2> QED BY <2>2, <2>3, <2>4 DEF Inv, AtMostOneTrial, NoLeakedSlot
<1>2. Inv /\ [Next]_vars => Inv'
  <2> SUFFICES ASSUME Inv, [Next]_vars PROVE Inv'
    OBVIOUS
  <2>1. CASE Tick
    BY <2>1, TickKeepsInv
  <2>2. CASE \E c \in Callers : Call(c)
    BY <2>2, CallKeepsInv
  <2>3. CASE UNCHANGED vars
    BY <2>3 DEF vars, Inv, TypeOK, BreakerConsistent, TripsAreEarned,
       GenerationsPast, AtMostOneTrial, NoLeakedSlot, Voters
  <2> QED BY <2>1, <2>2, <2>3 DEF Next
<1> QED BY <1>1, <1>2, PTL DEF Spec

\* Type correctness of the breaker and of every caller's coroutine.
THEOREM TypeCorrect == Spec => []TypeOK
<1>1. Inv => TypeOK
  BY DEF Inv
<1> QED BY <1>1, Invariance, PTL

\* Content that has reached the consumer rules out every result that would let
\* the gateway try the request elsewhere, in every interleaving of callers.
THEOREM EmittedEndsTheCall == Spec => []EmittedIsFinal
<1> DEFINE EInv == EmittedIsFinal /\ OnlyStreamsEmit
<1>1. Init => EInv
  BY DEF Init, EmittedIsFinal, OnlyStreamsEmit
<1>2. Inv /\ EInv /\ [Next]_vars => EInv'
  <2> SUFFICES ASSUME Inv, EInv, [Next]_vars PROVE EInv'
    OBVIOUS
  <2>1. CASE Tick \/ UNCHANGED vars
    BY <2>1 DEF Tick, vars, EmittedIsFinal, OnlyStreamsEmit
  <2>2. ASSUME NEW c \in Callers, Call(c) PROVE EInv'
    <3>1. CASE Complete(c) \/ Stream(c)
      BY <3>1 DEF Complete, Stream, Begin, EmittedIsFinal, OnlyStreamsEmit, Inv, TypeOK
    <3>2. CASE \/ CompleteReturns(c) \/ Exhausts(c) \/ CompleteCancelled(c)
               \/ PullCancelled(c) \/ ConsumerCloses(c) \/ DrainFinalized(c)
               \/ PullStops(c)
      BY <3>2 DEF CompleteReturns, Exhausts, CompleteCancelled, PullCancelled,
         ConsumerCloses, DrainFinalized, PullStops, Succeeds, Aborts, End,
         EmittedIsFinal, OnlyStreamsEmit, Inv, TypeOK
    <3>3. CASE PullStalls(c) \/ PullRaises(c)
      BY <3>3 DEF PullStalls, StallResult, PullRaises, PullErrors, CompleteErrors,
         Fails, End, EmittedIsFinal, OnlyStreamsEmit, Inv, TypeOK
    <3>4. CASE CompleteTimesOut(c) \/ CompleteRaises(c)
      BY <3>4 DEF CompleteTimesOut, CompleteRaises, CompleteErrors,
         Fails, End, EmittedIsFinal, OnlyStreamsEmit, Inv, TypeOK
    <3>5. CASE PullsDelta(c) \/ PullsTerminal(c) \/ Resumes(c)
      BY <3>5 DEF PullsDelta, PullsTerminal, Resumes, Moves, EmittedIsFinal, OnlyStreamsEmit, Inv, TypeOK
    <3> QED BY <2>2, <3>1, <3>2, <3>3, <3>4, <3>5 DEF Call
  <2> QED BY <2>1, <2>2 DEF Next
<1> QED BY <1>1, <1>2, Invariance, PTL DEF Spec

\* allow() and record_*() together never let two calls decide a half-open
\* circuit, nor any call decide an open one.
THEOREM SingleTrial == Spec => []AtMostOneTrial
<1>1. Inv => AtMostOneTrial
  BY DEF Inv
<1> QED BY <1>1, Invariance, PTL

\* The circuit is off CLOSED exactly when the counted failures reach the threshold.
THEOREM EarnedTrips == Spec => []TripsAreEarned
<1>1. Inv => TripsAreEarned
  BY DEF Inv, BreakerConsistent
<1> QED BY <1>1, Invariance, PTL

\* A taken trial slot has a call under way that will hand it back, or was taken
\* away by a stream that stopped without a terminal event.
THEOREM SlotNeverLeaks == Spec => []NoLeakedSlot
<1>1. Inv => NoLeakedSlot
  BY DEF Inv
<1> QED BY <1>1, Invariance, PTL

\* Leaving OPEN takes a whole cooldown and admits exactly one call; outcomes of
\* calls admitted earlier neither close, re-open nor prolong it.
THEOREM CooldownIsServed == Spec => OpenRunsItsCooldown
<1> DEFINE Served ==
      breaker.state = OPEN =>
         \/ breaker'.state = OPEN /\ breaker'.cool \in {breaker.cool, breaker.cool - 1}
         \/ /\ breaker'.state = HALF_OPEN /\ breaker.cool = 0
            /\ \E c \in Callers : pc[c] = "idle" /\ Voters' = {c}
<1>1. Inv /\ [Next]_vars => [Served]_vars
  <2> SUFFICES ASSUME Inv, Next, breaker.state = OPEN PROVE Served
    BY DEF vars
  <2>1. CASE Tick
    BY <2>1 DEF Tick, Elapse, Inv, TypeOK, Breaker
  <2>2. ASSUME NEW c \in Callers, Call(c) PROVE Served
    <3>1. Voters = {} /\ breaker \in Breaker
      BY DEF Inv, TypeOK, AtMostOneTrial
    <3>2. CASE Complete(c) \/ Stream(c)
      <4>1. PICK to \in Suspended : Begin(c, to)
        BY <3>2 DEF Complete, Stream, Suspended
      <4>2. CASE Admits(breaker)
        <5>1. Voters' = {c} /\ pc[c] = "idle"
          BY <4>1, <4>2, BeginKeepsInv DEF Begin
        <5>2. breaker'.state = HALF_OPEN /\ breaker.cool = 0
          BY <4>1, <4>2 DEF Begin, Allow, Admits, Enter
        <5> QED BY <5>1, <5>2
      <4>3. CASE ~Admits(breaker)
        BY <4>1, <4>3 DEF Begin, Allow
      <4> QED BY <4>2, <4>3
    <3>3. CASE ~(Complete(c) \/ Stream(c))
      <4>1. pc[c] \in Suspended
        BY <2>2, <3>3 DEF Call, CompleteReturns, Exhausts, CompleteTimesOut,
           CompleteRaises, PullStalls, PullRaises, CompleteCancelled, PullCancelled,
           ConsumerCloses, DrainFinalized, PullsDelta, PullsTerminal, Resumes,
           PullStops, Suspended
      <4>2. gen[c] # breaker.gen
        BY <3>1, <4>1 DEF Voters
      <4>3. breaker' = breaker
        BY <2>2, <3>3, <4>2 DEF Call, CompleteReturns, Exhausts, CompleteTimesOut,
           CompleteRaises, PullStalls, PullRaises, CompleteCancelled, PullCancelled,
           ConsumerCloses, DrainFinalized, PullsDelta, PullsTerminal, Resumes,
           PullStops, Succeeds, Fails, Aborts, Moves, End,
           RecordSuccess, RecordFailure, RecordAbort
      <4> QED BY <4>3
    <3> QED BY <3>2, <3>3
  <2> QED BY <2>1, <2>2 DEF Next
<1> QED BY <1>1, Invariance, PTL DEF Spec, OpenRunsItsCooldown

-----------------------------------------------------------------------------
\* allow() is the gate's Admit, or changes nothing the gate can see.
LEMMA BeginMapsToGate ==
    ASSUME Inv, NEW c \in Callers, NEW to \in Suspended, Begin(c, to)
    PROVE  Gate!Admit(c) \/ UNCHANGED Gate!vars
<1>1. c \notin Voters /\ breaker \in Breaker
  BY DEF Begin, Voters, Suspended, Inv, TypeOK
<1>2. CASE ~Admits(breaker)
  BY <1>2 DEF Begin, Allow, Voters, Gate!vars
<1>3. CASE breaker.state = CLOSED
  <2>1. breaker' = breaker /\ Admits(breaker)
    BY <1>3 DEF Begin, Allow, Admits
  <2>2. Voters' = Voters \cup {c}
    BY <2>1 DEF Begin, Voters, Inv, TypeOK
  <2> QED BY <1>1, <1>3, <2>1, <2>2 DEF Gate!Admit
<1>4. CASE Admits(breaker) /\ breaker.state # CLOSED
  <2>1. Voters' = {c} /\ Voters = {}
    BY <1>4, BeginKeepsInv DEF Inv, AtMostOneTrial, Admits
  <2>2. /\ breaker'.state = HALF_OPEN
        /\ breaker'.failures = breaker.failures /\ breaker'.cool = breaker.cool
        /\ (breaker.state = OPEN /\ breaker.cool = 0) \/ breaker.state = HALF_OPEN
    BY <1>4, <1>1 DEF Begin, Allow, Admits, Enter, Stay, Breaker
  <2> QED BY <1>1, <2>1, <2>2 DEF Gate!Admit
<1> QED BY <1>2, <1>3, <1>4

\* record_success, record_failure and record_abort are the gate's Succeed, Fail
\* and Withdraw when the generation is current, and invisible when it is not.
LEMMA EndMapsToGate ==
    ASSUME Inv, NEW c \in Callers, pc[c] \in Suspended,
           NEW r \in Results, NEW b, End(c, r, b),
           \/ b = RecordSuccess(breaker, gen[c])
           \/ b = RecordFailure(breaker, gen[c])
           \/ b = RecordAbort(breaker, gen[c]),
           faults' \in 0..MaxFaults, aborts' \in 0..MaxAborts, leaked' = leaked
    PROVE  Gate!Succeed(c) \/ Gate!Fail(c) \/ Gate!Withdraw(c) \/ UNCHANGED Gate!vars
<1>1. /\ gen[c] # breaker.gen => breaker' = breaker /\ Voters' = Voters
      /\ gen[c] = breaker.gen =>
            Voters' = IF breaker'.gen = breaker.gen THEN Voters \ {c} ELSE {}
  BY EndKeepsInv
<1>2. CASE gen[c] # breaker.gen
  BY <1>1, <1>2 DEF Gate!vars
<1>3. CASE gen[c] = breaker.gen
  <2>1. c \in Voters /\ breaker \in Breaker /\ breaker.state # OPEN
    BY <1>3 DEF Voters, Inv, TypeOK, AtMostOneTrial
  <2>2. breaker.state = HALF_OPEN => Voters \ {c} = {}
    BY <2>1 DEF Inv, AtMostOneTrial
  <2>3. CASE b = RecordSuccess(breaker, gen[c])
    BY <1>1, <1>3, <2>1, <2>2, <2>3
       DEF End, RecordSuccess, Enter, Stay, Breaker, CircuitState, Gate!Succeed
  <2>4. CASE b = RecordFailure(breaker, gen[c])
    BY <1>1, <1>3, <2>1, <2>4
       DEF End, RecordFailure, Trips, Enter, Stay, Breaker, Gate!Fail
  <2>5. CASE b = RecordAbort(breaker, gen[c])
    BY <1>1, <1>3, <2>1, <2>5 DEF End, RecordAbort, Stay, Breaker, Gate!Withdraw
  <2> QED BY <2>3, <2>4, <2>5
<1> QED BY <1>2, <1>3

\* One step of a caller, seen through the refinement mapping.
LEMMA CallMapsToGate ==
    ASSUME Inv, NEW c \in Callers, Call(c)
    PROVE  Gate!Next \/ UNCHANGED Gate!vars
<1>1. CASE Complete(c) \/ Stream(c)
  BY <1>1, BeginMapsToGate DEF Complete, Stream, Suspended, Gate!Next
<1>2. CASE \/ CompleteReturns(c) \/ Exhausts(c) \/ CompleteTimesOut(c)
           \/ CompleteRaises(c) \/ PullStalls(c) \/ PullRaises(c)
           \/ CompleteCancelled(c) \/ PullCancelled(c) \/ ConsumerCloses(c)
           \/ DrainFinalized(c)
  <2>1. PICK r \in Results :
          /\ pc[c] \in Suspended
          /\ \/ Succeeds(c) /\ r = "response"
             \/ Fails(c, r) \/ Aborts(c, r)
             \/ DrainFinalized(c) /\ r = "response"
    BY <1>2 DEF CompleteReturns, Exhausts, CompleteTimesOut, CompleteRaises, CompleteErrors,
       PullStalls, PullRaises, CompleteCancelled, PullCancelled, ConsumerCloses,
       DrainFinalized, StallResult, PullErrors, Suspended, Results
  <2>2. faults' \in 0..MaxFaults /\ aborts' \in 0..MaxAborts /\ leaked' = leaked
    BY <2>1, BudgetAssumption
       DEF Succeeds, Fails, Aborts, DrainFinalized, Inv, TypeOK
  <2>3. PICK b : /\ End(c, r, b)
                 /\ \/ b = RecordSuccess(breaker, gen[c])
                    \/ b = RecordFailure(breaker, gen[c])
                    \/ b = RecordAbort(breaker, gen[c])
    BY <2>1 DEF Succeeds, Fails, Aborts, DrainFinalized
  <2> QED BY <2>1, <2>2, <2>3, EndMapsToGate DEF Gate!Next
<1>3. CASE PullsDelta(c) \/ PullsTerminal(c) \/ Resumes(c)
  <2>1. emitted' \in [Callers -> BOOLEAN]
    BY <1>3 DEF PullsDelta, PullsTerminal, Resumes, Inv, TypeOK
  <2>2. breaker' = breaker /\ Voters' = Voters
    BY <1>3, <2>1, MoveKeepsInv DEF PullsDelta, PullsTerminal, Resumes, Suspended
  <2> QED BY <2>2 DEF Gate!vars
<1>4. CASE PullStops(c)
  <2>1. breaker' = breaker /\ Voters' = Voters \ {c}
    BY <1>4, StopKeepsInv
  <2>2. CASE c \in Voters
    BY <2>1, <2>2 DEF Gate!Withdraw, Gate!Next
  <2>3. CASE c \notin Voters
    BY <2>1, <2>3 DEF Gate!vars
  <2> QED BY <2>2, <2>3
<1> QED BY <1>1, <1>2, <1>3, <1>4 DEF Call

\* Generations and the trial flag implement the gate that knows only its voters.
THEOREM Refinement == Spec => ImplementsGate
<1>1. Init => Gate!Init
  BY DEF Init, Gate!Init, NewBreaker, Voters, Suspended
<1>2. Inv /\ [Next]_vars => [Gate!Next]_(Gate!vars)
  <2> SUFFICES ASSUME Inv, [Next]_vars PROVE Gate!Next \/ UNCHANGED Gate!vars
    OBVIOUS
  <2>1. CASE Tick
    <3>1. Voters' = Voters
      BY <2>1, TickKeepsInv
    <3> QED BY <2>1, <3>1
            DEF Tick, Cooling, Elapse, Inv, TypeOK, Breaker, Gate!Next, Gate!Cool
  <2>2. CASE \E c \in Callers : Call(c)
    BY <2>2, CallMapsToGate
  <2>3. CASE UNCHANGED vars
    BY <2>3 DEF vars, Voters, Gate!vars
  <2> QED BY <2>1, <2>2, <2>3 DEF Next
<1> QED BY <1>1, <1>2, Invariance, PTL DEF Spec, ImplementsGate, Gate!Spec

=============================================================================
