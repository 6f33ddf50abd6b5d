-------------------------- MODULE IdempotencyProofs --------------------------
(***************************************************************************)
(* Exclusive ownership of the idempotency record, and execution at most    *)
(* once, for any number of requests and any TTLs and durations such that   *)
(* the claim outlives its owner (ClaimOutlivesOwner).                      *)
(***************************************************************************)
EXTENDS Idempotency, TLAPS

\* What a pending store command leaves in Redis is always a record.
LEMMA AppliedIsRecord ==
    ASSUME TypeOK, NEW a \in Attempts
    PROVE  Applied(a) \in Record
  BY TTLAssumption DEF Applied, TypeOK, Record, Claim, Completed, Ambiguous,
                       Absent, Terminal

\* Type correctness is preserved by every step, with no assumption on timing.
LEMMA TypeStep ==
    ASSUME TypeOK, RecordConsistent, [Next]_vars
    PROVE  TypeOK'
<1>1. CASE Tick
  <2>1. Aged(rec) \in Record
    BY <1>1, TTLAssumption DEF Tick, Aged, TypeOK, Record, RecordConsistent, Absent, Terminal
  <2>2. left' \in [Attempts -> Nat]
    BY <1>1 DEF Tick, TypeOK
  <2> QED BY <1>1, <2>1, <2>2 DEF Tick, TypeOK
<1>2. ASSUME NEW a \in Attempts, Step(a) PROVE TypeOK'
  <2> USE AppliedIsRecord, TTLAssumption, TimingAssumption, TriesAssumption
  <2> USE DEF TypeOK, Goto, Finish, Leads, Owning, Results
  <2>1. CASE SetNX(a)
    <3>1. /\ rec' \in Record
          /\ UNCHANGED <<req, tries, got, result, ran, forgot, lost>>
      BY <2>1 DEF SetNX
    <3>2. pc' \in [Attempts -> Owning \cup {"claiming", "reading", "done", "crashed"}]
      BY <2>1 DEF SetNX
    <3>3. left' \in [Attempts -> Nat]
      BY <2>1 DEF SetNX
    <3> QED BY <3>1, <3>2, <3>3
  <2>2. CASE Get(a)
    <3>1. CASE rec.status = "absent"
      <4>1. tries' \in [Attempts -> Nat] /\ got' = got
        BY <2>2, <3>1 DEF Get
      <4>2. pc' \in [Attempts -> Owning \cup {"claiming", "reading", "done", "crashed"}]
        BY <2>2, <3>1 DEF Get
      <4>3. result' \in [Attempts -> Results]
        BY <2>2, <3>1 DEF Get
      <4> QED BY <2>2, <4>1, <4>2, <4>3 DEF Get
    <3>2. CASE rec.status # "absent"
      <4>1. Answer(a) \in Results
        BY DEF Answer
      <4>2. rec.by \in Attempts \cup {NoAttempt}
        BY DEF Record
      <4> QED BY <2>2, <3>2, <4>1, <4>2 DEF Get
    <3> QED BY <3>1, <3>2
  <2>3. CASE RunReturns(a)
    BY <2>3 DEF RunReturns
  <2>4. CASE PrimeReturns(a)
    BY <2>4 DEF PrimeReturns
  <2>5. CASE OpAmbiguous(a)
    BY <2>5 DEF OpAmbiguous
  <2>6. CASE OpUnavailable(a)
    BY <2>6 DEF OpUnavailable
  <2>7. CASE OpLateError(a)
    BY <2>7 DEF OpLateError
  <2>8. CASE StreamEnds(a)
    BY <2>8 DEF StreamEnds
  <2>9. CASE StreamBreaks(a)
    BY <2>9 DEF StreamBreaks
  <2>10. CASE Save(a)
    BY <2>10 DEF Save
  <2>11. CASE Park(a)
    BY <2>11 DEF Park
  <2>12. CASE Release(a)
    BY <2>12 DEF Release
  <2>13. CASE StoreFails(a)
    <3>1. lost' \in BOOLEAN
      BY <2>13 DEF StoreFails
    <3> QED BY <2>13, <3>1 DEF StoreFails
  <2>14. CASE Crash(a) \/ CutShort(a)
    <3>1. lost' \in BOOLEAN
      BY <2>14 DEF Crash, CutShort, Gone
    <3>2. Gone(a)
      BY <2>14 DEF Crash, CutShort
    <3> QED BY <3>1, <3>2 DEF Gone
  <2> QED BY <1>2, <2>1, <2>2, <2>3, <2>4, <2>5, <2>6, <2>7, <2>8, <2>9, <2>10, <2>11, <2>12, <2>13, <2>14 DEF Step, Works
<1>3. CASE UNCHANGED vars
  BY <1>3 DEF vars, TypeOK
<1> QED BY <1>1, <1>2, <1>3 DEF Next

\* A step leaves the record as it was or applies one attempt's command to it.
LEMMA RecordStep ==
    ASSUME NEW a \in Attempts, Step(a)
    PROVE  rec' \in {rec, Applied(a)}
  BY DEF Step, Works, SetNX, Get, RunReturns, PrimeReturns, OpAmbiguous, OpUnavailable,
     OpLateError, StreamEnds, StreamBreaks, Save, Park, Release, StoreFails, Crash, CutShort, Gone,
     Leads

\* The variables keep their types, whatever fails and however long things take.
THEOREM TypeCorrect == Spec => [](TypeOK /\ RecordConsistent)
<1>1. Init => TypeOK /\ RecordConsistent
  <2> SUFFICES ASSUME Init PROVE TypeOK /\ RecordConsistent
    OBVIOUS
  <2>1. Absent \in Record
    BY TTLAssumption DEF Absent, Record, Terminal
  <2>2. TypeOK
    BY <2>1 DEF Init, TypeOK, Results
  <2> QED BY <2>2 DEF Init, RecordConsistent, Absent
<1>2. TypeOK /\ RecordConsistent /\ [Next]_vars => TypeOK' /\ RecordConsistent'
  <2> SUFFICES ASSUME TypeOK, RecordConsistent, [Next]_vars
               PROVE  TypeOK' /\ RecordConsistent'
    OBVIOUS
  <2>1. TypeOK'
    BY TypeStep
  <2>2. CASE Tick
    BY <2>1, <2>2 DEF Tick, Aged, RecordConsistent, Absent, TypeOK, Record
  <2>3. CASE \E a \in Attempts : Step(a)
    BY <2>1, <2>3, RecordStep, TTLAssumption
       DEF RecordConsistent, Applied, Claim, Completed, Ambiguous, Absent
  <2>4. CASE UNCHANGED vars
    BY <2>1, <2>4 DEF vars, RecordConsistent
  <2> QED BY <2>1, <2>2, <2>3, <2>4 DEF Next
<1> QED BY <1>1, <1>2, PTL DEF Spec

-----------------------------------------------------------------------------
\* A step in which attempt a leaves the record to its owners: they are the same,
\* with the same time ahead, except that a itself may have stopped owning it.
LEMMA OwnersUndisturbed ==
    ASSUME Inv, NEW a \in Attempts, TypeOK', rec' = rec, left' = left,
           \A d \in Attempts : d # a => pc'[d] = pc[d],
           \/ pc'[a] \notin Owning
           \/ /\ Owns(a) /\ pc'[a] # "priming"
              /\ pc'[a] = "parking" \/ pc[a] # "parking"
    PROVE  Inv'
<1>1. RecordConsistent'
  BY DEF Inv, RecordConsistent
<1>2. ASSUME NEW d \in Attempts, pc'[d] \in Owning
      PROVE  /\ Owns(d) /\ Need(d)' <= Need(d)
             /\ pc'[d] # "parking" => pc[d] # "parking"
  BY <1>2, TimingAssumption DEF Inv, TypeOK, Owns, Need
<1>3. \A d \in Attempts : Need(d) \in Nat /\ Need(d)' \in Nat
  BY TimingAssumption DEF Inv, TypeOK, Need
<1>4. OwnersCovered'
  BY <1>2, <1>3, TTLAssumption DEF Inv, TypeOK, Record, OwnersCovered, Owns
<1> QED BY <1>1, <1>4 DEF Inv

\* A step in which the owner's command reaches Redis and it owns nothing more.
LEMMA OwnerSettles ==
    ASSUME Inv, NEW a \in Attempts, Owns(a), TypeOK',
           rec' \in {rec, Applied(a)}, pc'[a] \notin Owning, left' = left,
           \A d \in Attempts : d # a => pc'[d] = pc[d]
    PROVE  Inv'
<1>1. RecordConsistent'
  BY TTLAssumption DEF Inv, RecordConsistent, Applied, Claim, Completed, Ambiguous, Absent
<1>2. \A d \in Attempts : d # a => ~Owns(d)
  BY DEF Inv, OwnersCovered
<1>3. OwnersCovered'
  BY <1>2 DEF OwnersCovered, Owns
<1> QED BY <1>1, <1>3 DEF Inv

\* A step in which an attempt that owned nothing gives up: at most it leaves an
\* orphan claim, and only where there was no record at all.
LEMMA ClaimantLeaves ==
    ASSUME Inv, NEW a \in Attempts, pc[a] \in {"claiming", "reading"}, TypeOK',
           rec' \in {rec, Applied(a)}, pc'[a] \notin Owning, left' = left,
           \A d \in Attempts : d # a => pc'[d] = pc[d]
    PROVE  Inv'
<1>1. CASE rec' = rec
  BY <1>1, OwnersUndisturbed
<1>2. CASE rec' # rec
  <2>1. rec.status = "absent" /\ rec' = Claim(a)
    BY <1>2 DEF Applied
  <2>2. \A d \in Attempts : ~Owns(d)
    BY <2>1 DEF Inv, OwnersCovered
  <2>3. \A d \in Attempts : ~Owns(d)'
    BY <2>2 DEF Owns
  <2> QED BY <2>1, <2>3, TTLAssumption DEF Inv, RecordConsistent, OwnersCovered, Claim
<1> QED BY <1>1, <1>2

\* A step in which a stream's complete() is cut short and mark_ambiguous follows.
LEMMA SaveTurnsToPark ==
    ASSUME Inv, NEW a \in Attempts, pc[a] = "saving", TypeOK',
           rec' \in {rec, Applied(a)}, pc'[a] = "parking", left' = left,
           \A d \in Attempts : d # a => pc'[d] = pc[d]
    PROVE  Inv'
<1>1. CASE rec' = rec
  BY <1>1, OwnersUndisturbed DEF Owns, Owning
<1>2. CASE rec' = Applied(a)
  <2>1. rec' = Completed(a)
    BY <1>2 DEF Applied
  <2>2. Owns(a) /\ Need(a) < InflightTTL /\ Need(a) = left[a] /\ left[a] \in Nat
    BY DEF Inv, TypeOK, OwnersCovered, Owns, Owning, Need
  <2>3. \A d \in Attempts : d # a => ~Owns(d)'
    BY <2>2 DEF Inv, OwnersCovered, Owns
  <2>4. Need(a)' = left[a]
    BY DEF Need
  <2> QED BY <2>1, <2>2, <2>3, <2>4, TTLAssumption
          DEF Inv, RecordConsistent, OwnersCovered, Completed
<1> QED BY <1>1, <1>2

\* SET NX: the only step that makes an owner, and it does so alone.
LEMMA ClaimKeepsInv ==
    ASSUME ClaimOutlivesOwner, Inv, NEW a \in Attempts, TypeOK', SetNX(a)
    PROVE  Inv'
<1>1. CASE rec.status = "absent"
  <2>1. /\ rec' = Claim(a) /\ left'[a] = OpBudget
        /\ pc'[a] \in {"running", "priming"}
        /\ \A d \in Attempts : d # a => pc'[d] = pc[d]
    BY <1>1 DEF SetNX, Applied, Goto, Inv, TypeOK
  <2>2. \A d \in Attempts : d # a => ~Owns(d)'
    BY <1>1, <2>1 DEF Inv, OwnersCovered, Owns
  <2>3. Need(a)' \in Nat /\ Need(a)' < InflightTTL
    BY <2>1, TimingAssumption, TTLAssumption DEF Need, ClaimOutlivesOwner
  <2> QED BY <2>1, <2>2, <2>3, TTLAssumption
          DEF Inv, RecordConsistent, OwnersCovered, Claim
<1>2. CASE rec.status # "absent"
  <2>1. /\ rec' = rec /\ left' = left /\ pc'[a] = "reading"
        /\ \A d \in Attempts : d # a => pc'[d] = pc[d]
    BY <1>2 DEF SetNX, Applied, Goto, Inv, TypeOK
  <2> QED BY <2>1, OwnersUndisturbed DEF Owning
<1> QED BY <1>1, <1>2

\* The first event of a stream trades the reserved stream time for real time.
LEMMA PrimeKeepsInv ==
    ASSUME Inv, NEW a \in Attempts, TypeOK', PrimeReturns(a)
    PROVE  Inv'
<1>1. /\ rec' = rec /\ pc[a] = "priming" /\ pc'[a] = "streaming"
      /\ left'[a] = StreamBudget
      /\ \A d \in Attempts : d # a => pc'[d] = pc[d] /\ left'[d] = left[d]
  BY DEF PrimeReturns, Leads, Goto, Inv, TypeOK
<1>2. \A d \in Attempts : d # a => ~Owns(d)'
  BY <1>1 DEF Inv, OwnersCovered, Owns, Owning
<1>3. Need(a)' = StreamBudget /\ Need(a) = left[a] + StreamBudget /\ left[a] \in Nat
  BY <1>1 DEF Need, Inv, TypeOK
<1>4. /\ rec.by = a /\ rec.ttl > Need(a) /\ Need(a) < InflightTTL
      /\ rec.status = "in_progress" /\ rec.ttl \in Nat
  BY <1>1 DEF Inv, OwnersCovered, Owns, Owning, TypeOK, Record
<1>5. OwnersCovered'
  BY <1>1, <1>2, <1>3, <1>4, TimingAssumption, TTLAssumption DEF OwnersCovered
<1> QED BY <1>1, <1>5 DEF Inv, RecordConsistent

\* Time: the record and its owner age together, and no owner is at its limit.
LEMMA TickKeepsInv ==
    ASSUME Inv, TypeOK', Tick
    PROVE  Inv'
<1>1. RecordConsistent'
  BY DEF Tick, Aged, Inv, RecordConsistent, Absent, TypeOK, Record
<1>2. ASSUME NEW a \in Attempts, Owns(a)'
      PROVE  /\ rec'.by = a /\ rec'.ttl > Need(a)' /\ Need(a)' < InflightTTL
             /\ rec'.status = rec.status
  <2>1. Owns(a) /\ left[a] > 0 /\ left'[a] = left[a] - 1 /\ left[a] \in Nat
    BY <1>2 DEF Tick, Owns, Inv, TypeOK
  <2>2. Need(a)' = Need(a) - 1 /\ Need(a) \in Nat /\ Need(a) > 0
    BY <2>1, TimingAssumption DEF Need, Tick
  <2>3. rec.by = a /\ rec.ttl > Need(a) /\ Need(a) < InflightTTL /\ rec.ttl \in Nat
    BY <2>1 DEF Inv, OwnersCovered, TypeOK, Record
  <2>4. rec' = [status |-> rec.status, by |-> rec.by, ttl |-> rec.ttl - 1]
    BY <2>2, <2>3 DEF Tick, Aged
  <2> QED BY <2>2, <2>3, <2>4, TTLAssumption
<1>3. OwnersCovered'
  <2>1. \A a \in Attempts : Owns(a)' => Owns(a) /\ pc'[a] = pc[a]
    BY DEF Tick, Owns
  <2> QED BY <1>2, <2>1 DEF OwnersCovered, Inv
<1> QED BY <1>1, <1>3 DEF Inv

-----------------------------------------------------------------------------
\* One step of an attempt.
LEMMA StepKeepsInv ==
    ASSUME ClaimOutlivesOwner, Inv, NEW a \in Attempts, TypeOK', Step(a)
    PROVE  Inv'
<1> USE DEF Goto, Finish, Leads
<1>1. CASE SetNX(a)
  BY <1>1, ClaimKeepsInv
<1>2. CASE PrimeReturns(a)
  BY <1>2, PrimeKeepsInv
<1>3. CASE \/ Get(a) \/ RunReturns(a) \/ OpAmbiguous(a) \/ OpUnavailable(a)
           \/ OpLateError(a) \/ StreamEnds(a)
  <2>1. /\ rec' = rec /\ left' = left
        /\ \A d \in Attempts : d # a => pc'[d] = pc[d]
    BY <1>3 DEF Get, RunReturns, OpAmbiguous, OpUnavailable, OpLateError,
       StreamEnds, Inv, TypeOK
  <2>2. \/ pc'[a] \notin Owning
        \/ Owns(a) /\ pc'[a] # "priming" /\ pc[a] # "parking"
    BY <1>3 DEF Get, RunReturns, OpAmbiguous, OpUnavailable, OpLateError,
       StreamEnds, Inv, TypeOK, Owning, Owns
  <2> QED BY <2>1, <2>2, OwnersUndisturbed
<1>4. CASE StreamBreaks(a)
  <2>1. /\ left' = left /\ pc'[a] = "parking"
        /\ \A d \in Attempts : d # a => pc'[d] = pc[d]
    BY <1>4 DEF StreamBreaks, Inv, TypeOK
  <2>2. CASE pc[a] = "streaming"
    BY <1>4, <2>1, <2>2, OwnersUndisturbed DEF StreamBreaks, Owns, Owning
  <2>3. CASE pc[a] = "saving"
    BY <1>4, <2>1, <2>3, SaveTurnsToPark DEF StreamBreaks
  <2> QED BY <1>4, <2>2, <2>3 DEF StreamBreaks
<1>5. CASE Save(a) \/ Park(a) \/ Release(a)
  <2>1. /\ left' = left /\ pc'[a] = "done" /\ rec' = Applied(a) /\ Owns(a)
        /\ \A d \in Attempts : d # a => pc'[d] = pc[d]
    BY <1>5 DEF Save, Park, Release, Inv, TypeOK, Owns, Owning
  <2> QED BY <2>1, OwnerSettles DEF Owning
<1>6. CASE StoreFails(a)
  <2>1. /\ left' = left /\ rec' \in {rec, Applied(a)}
        /\ \A d \in Attempts : d # a => pc'[d] = pc[d]
    BY <1>6 DEF StoreFails, Inv, TypeOK
  <2>2. CASE pc'[a] = "parking"
    <3>1. pc[a] = "saving"
      BY <1>6, <2>2 DEF StoreFails, Inv, TypeOK
    <3> QED BY <2>1, <2>2, <3>1, SaveTurnsToPark
  <2>3. CASE pc'[a] # "parking"
    <3>1. pc'[a] = "done"
      BY <1>6, <2>3 DEF StoreFails, Inv, TypeOK
    <3>2. CASE pc[a] \in {"claiming", "reading"}
      BY <2>1, <3>1, <3>2, ClaimantLeaves DEF Owning
    <3>3. CASE pc[a] \in {"saving", "parking", "releasing"}
      BY <2>1, <3>1, <3>3, OwnerSettles DEF Owning, Owns
    <3> QED BY <1>6, <3>2, <3>3 DEF StoreFails
  <2> QED BY <2>2, <2>3
<1>7. CASE Crash(a) \/ CutShort(a)
  <2>0. Gone(a)
    BY <1>7 DEF Crash, CutShort
  <2>1. /\ left' = left /\ rec' \in {rec, Applied(a)} /\ pc'[a] = "crashed"
        /\ \A d \in Attempts : d # a => pc'[d] = pc[d]
    BY <2>0 DEF Gone, Inv, TypeOK
  <2>2. CASE pc[a] \in {"claiming", "reading"}
    BY <2>1, <2>2, ClaimantLeaves DEF Owning
  <2>3. CASE Owns(a)
    BY <2>1, <2>3, OwnerSettles DEF Owning
  <2>4. pc[a] \in {"claiming", "reading"} \/ Owns(a)
    BY <2>0 DEF Gone, Inv, TypeOK, Owns
  <2> QED BY <2>2, <2>3, <2>4
<1> QED BY <1>1, <1>2, <1>3, <1>4, <1>5, <1>6, <1>7 DEF Step, Works

\* The inductive invariant, under every combination of crashes, store failures
\* and late errors.
THEOREM Ownership == ASSUME ClaimOutlivesOwner PROVE Spec => []Inv
<1>1. Init /\ TypeOK /\ RecordConsistent => Inv
  BY DEF Init, Inv, OwnersCovered, Owns, Owning
<1>2. Inv /\ [Next]_vars => Inv'
  <2> SUFFICES ASSUME Inv, [Next]_vars PROVE Inv'
    OBVIOUS
  <2>1. TypeOK'
    BY TypeStep DEF Inv
  <2>2. CASE Tick
    BY <2>1, <2>2, TickKeepsInv
  <2>3. CASE \E a \in Attempts : Step(a)
    BY <2>1, <2>3, StepKeepsInv
  <2>4. CASE UNCHANGED vars
    BY <2>1, <2>4 DEF vars, Inv, RecordConsistent, OwnersCovered, Owns, Need
  <2> QED BY <2>2, <2>3, <2>4 DEF Next
<1> QED BY <1>1, <1>2, TypeCorrect, PTL DEF Spec

\* The attempt that is executing or has yet to record an outcome is the only one,
\* and the record it will write over is its own claim.
THEOREM Exclusive == ASSUME ClaimOutlivesOwner PROVE Spec => []ExclusiveOwner
<1>1. Inv => ExclusiveOwner
  <2> SUFFICES ASSUME Inv, NEW a \in Attempts, Owns(a)
               PROVE  rec.by = a /\ rec.ttl > left[a]
    BY DEF ExclusiveOwner
  <2>1. rec.by = a /\ rec.ttl > Need(a) /\ rec.ttl \in Nat /\ left[a] \in Nat
    BY DEF Inv, OwnersCovered, TypeOK, Record
  <2> QED BY <2>1, TimingAssumption DEF Need
<1> QED BY <1>1, Ownership, PTL

\* A settled key is never claimed, nor overwritten by anyone but its writer,
\* before its retention ends.
THEOREM Settled == ASSUME ClaimOutlivesOwner PROVE Spec => SettledIsStable
<1> DEFINE Stable ==
      rec.status \in Terminal /\ <<rec'.status, rec'.by>> # <<rec.status, rec.by>> =>
         \/ rec.ttl = 1 /\ rec' = Absent
         \/ rec'.status \in Terminal /\ rec'.by = rec.by
<1>1. Inv /\ [Next]_vars => [Stable]_vars
  <2> SUFFICES ASSUME Inv, Next, rec.status \in Terminal PROVE Stable
    BY DEF vars
  <2>1. CASE Tick
    BY <2>1 DEF Tick, Aged, Terminal
  <2>2. ASSUME NEW a \in Attempts, Step(a) PROVE Stable
    <3>1. rec' \in {rec, Applied(a)}
      BY <2>2, RecordStep
    <3>2. pc[a] \notin {"saving", "releasing"}
      BY DEF Inv, OwnersCovered, Owns, Owning, Terminal
    <3>3. pc[a] = "parking" => rec.by = a
      BY DEF Inv, OwnersCovered, Owns, Owning
    <3> QED BY <3>1, <3>2, <3>3 DEF Applied, Ambiguous, Terminal
  <2> QED BY <2>1, <2>2 DEF Next
<1> QED BY <1>1, Ownership, PTL DEF Spec, SettledIsStable

-----------------------------------------------------------------------------
\* Responses are linked to executions by every step, with no timing assumption.
LEMMA ResponsesRealStep ==
    ASSUME TypeOK, ResponsesReal, ReplayIsFaithful, [Next]_vars
    PROVE  ResponsesReal' /\ ReplayIsFaithful'
<1>1. CASE Tick
  <2>1. rec'.status = "completed" => rec.status = "completed" /\ rec'.by = rec.by
    BY <1>1 DEF Tick, Aged, Absent
  <2> QED BY <1>1, <2>1 DEF Tick, ResponsesReal, ReplayIsFaithful
<1>2. ASSUME NEW a \in Attempts, Step(a) PROVE ResponsesReal' /\ ReplayIsFaithful'
  <2>1. req' = req /\ ran \subseteq ran'
    BY <1>2 DEF Step, Works, SetNX, Get, RunReturns, PrimeReturns, OpAmbiguous,
       OpUnavailable, OpLateError, StreamEnds, StreamBreaks, Save, Park, Release,
       StoreFails, Crash, CutShort, Gone, Leads
  <2>2. rec' \in {rec, Applied(a)}
    BY <1>2, RecordStep
  <2>3. rec'.status = "completed" => rec'.by \in ran'
    BY <2>1, <2>2 DEF Applied, Claim, Completed, Ambiguous, Absent, ResponsesReal
  <2>4. \A d \in Attempts : d # a => pc'[d] = pc[d] /\ got'[d] = got[d]
    BY <1>2 DEF Step, Works, SetNX, Get, RunReturns, PrimeReturns, OpAmbiguous,
       OpUnavailable, OpLateError, StreamEnds, StreamBreaks, Save, Park, Release,
       StoreFails, Crash, CutShort, Gone, Leads, Goto, Finish, TypeOK
  <2>5. pc'[a] \in {"streaming", "saving"} => a \in ran'
    BY <1>2 DEF Step, Works, SetNX, Get, RunReturns, PrimeReturns, OpAmbiguous,
       OpUnavailable, OpLateError, StreamEnds, StreamBreaks, Save, Park, Release,
       StoreFails, Crash, CutShort, Gone, Leads, Goto, Finish, TypeOK, ResponsesReal
  <2>6. \/ got'[a] = got[a]
        \/ got'[a] = a /\ a \in ran
        \/ got'[a] \in ran /\ req[got'[a]].fp = req[a].fp
    <3>1. CASE Get(a)
      BY <3>1 DEF Get, Answer, TypeOK, ResponsesReal
    <3>2. CASE StreamEnds(a) \/ Save(a)
      BY <3>2 DEF StreamEnds, Save, TypeOK, ResponsesReal
    <3>3. CASE ~(Get(a) \/ StreamEnds(a) \/ Save(a))
      BY <1>2, <3>3 DEF Step, Works, SetNX, RunReturns, PrimeReturns, OpAmbiguous,
         OpUnavailable, OpLateError, StreamBreaks, Park, Release,
         StoreFails, Crash, CutShort, Gone, Leads
    <3> QED BY <3>1, <3>2, <3>3
  <2>7. ResponsesReal'
    BY <2>1, <2>3, <2>4, <2>5 DEF ResponsesReal
  <2>8. ReplayIsFaithful'
    BY <2>1, <2>4, <2>6 DEF ReplayIsFaithful
  <2> QED BY <2>7, <2>8
<1>3. CASE UNCHANGED vars
  BY <1>3 DEF vars, ResponsesReal, ReplayIsFaithful
<1> QED BY <1>1, <1>2, <1>3 DEF Next

\* Only an operation that really ran gets to complete the record.
LEMMA RealAndFaithful == Spec => [](ResponsesReal /\ ReplayIsFaithful)
<1>1. Init => ResponsesReal /\ ReplayIsFaithful
  BY NobodyAssumption DEF Init, ResponsesReal, ReplayIsFaithful, Absent
<1>2. TypeOK /\ ResponsesReal /\ ReplayIsFaithful /\ [Next]_vars
        => ResponsesReal' /\ ReplayIsFaithful'
  BY ResponsesRealStep
<1> QED BY <1>1, <1>2, TypeCorrect, PTL DEF Spec

\* A client is only given the response of an executed operation with its own body.
THEOREM Faithful == Spec => []ReplayIsFaithful
  BY RealAndFaithful, PTL

-----------------------------------------------------------------------------
\* `lost` and `forgot` are never taken back.
LEMMA HistoryStays ==
    ASSUME TypeOK, [Next]_vars
    PROVE  (lost => lost') /\ (forgot => forgot')
<1>1. CASE Tick
  BY <1>1 DEF Tick
<1>2. ASSUME NEW a \in Attempts, Step(a) PROVE (lost => lost') /\ forgot' = forgot
  <2>1. CASE StoreFails(a)
    BY <2>1 DEF StoreFails
  <2>2. CASE Crash(a) \/ CutShort(a)
    BY <2>2 DEF Crash, CutShort, Gone
  <2>3. CASE OpLateError(a)
    BY <2>3 DEF OpLateError, Leads
  <2>4. CASE Works(a)
    <3>1. lost' = lost /\ forgot' = forgot
      BY <2>4 DEF Works, SetNX, Get, RunReturns, PrimeReturns, OpAmbiguous,
         OpUnavailable, StreamEnds, StreamBreaks, Save, Park, Release, Leads
    <3> QED BY <3>1
  <2> QED BY <1>2, <2>1, <2>2, <2>3, <2>4 DEF Step
<1>3. CASE UNCHANGED vars
  BY <1>3 DEF vars
<1> QED BY <1>1, <1>2, <1>3 DEF Next

\* The faults that lose no outcome hit an attempt that has executed nothing, or
\* a stream whose complete() failed and that parks the record instead.
LEMMA HarmlessFaults ==
    ASSUME Inv, NEW a \in Attempts,
           StoreFails(a) \/ Crash(a) \/ CutShort(a) \/ OpLateError(a), ~lost'
    PROVE  /\ ran' = ran
           /\ \/ /\ pc[a] \in {"claiming", "reading", "releasing"}
                 /\ pc'[a] \in {"done", "crashed"}
              \/ pc[a] = "saving" /\ pc'[a] = "parking"
  BY DEF StoreFails, Crash, CutShort, Gone, OpLateError, Goto, Finish, Inv, TypeOK, Owning

\* An execution stays on record until a fault loses it or retention drops it.
LEMMA ExecutionsStep ==
    ASSUME Inv, Inv', ExecutionsOnRecord, [Next]_vars
    PROVE  ExecutionsOnRecord'
<1> SUFFICES ASSUME ~lost'
             PROVE  /\ ~forgot' => \A d \in ran' : OnRecord(d)'
                    /\ \A d \in Attempts :
                         pc'[d] \in {"claiming", "reading", "running", "priming", "releasing"}
                            => d \notin ran'
  BY DEF ExecutionsOnRecord
<1>0. ~lost /\ (forgot => forgot')
  BY HistoryStays DEF Inv
<1>a. /\ ~forgot => \A d \in ran : OnRecord(d)
      /\ \A d \in Attempts :
            pc[d] \in {"claiming", "reading", "running", "priming", "releasing"} => d \notin ran
  BY <1>0 DEF ExecutionsOnRecord
<1>1. CASE Tick
  <2>1. \A a \in Attempts : Owns(a) => rec'.by = a /\ Owns(a)'
    BY <1>1 DEF Inv, OwnersCovered, Owns, Tick
  <2>2. rec.status \in Terminal /\ ~forgot' => rec'.by = rec.by /\ rec'.status = rec.status
    BY <1>1 DEF Tick, Aged, Terminal
  <2>3. \A a \in ran : a \in Attempts
    BY DEF Inv, TypeOK
  <2> QED BY <1>1, <1>a, <2>1, <2>2, <2>3 DEF Tick, OnRecord
<1>2. ASSUME NEW a \in Attempts, Step(a)
      PROVE  /\ ~forgot' => \A d \in ran' : OnRecord(d)'
             /\ \A d \in Attempts :
                  pc'[d] \in {"claiming", "reading", "running", "priming", "releasing"}
                     => d \notin ran'
  <2> USE DEF Goto, Finish, Leads
  <2>0. /\ \A d \in Attempts : d # a => pc'[d] = pc[d]
        /\ ran' \in {ran, ran \cup {a}}
    BY <1>2 DEF Step, Works, SetNX, Get, RunReturns, PrimeReturns, OpAmbiguous,
       OpUnavailable, OpLateError, StreamEnds, StreamBreaks, Save, Park, Release,
       StoreFails, Crash, CutShort, Gone, Inv, TypeOK
  <2>1. \A d \in ran : d \in Attempts
    BY DEF Inv, TypeOK
  <2>b. \A d \in Attempts : d # a => pc'[d] = pc[d] /\ (d \in ran' <=> d \in ran)
    BY <2>0
  <2>2. CASE pc[a] \in {"claiming", "reading"}
    <3>1. a \notin ran /\ ran' = ran /\ ~Owns(a)
      BY <1>2, <1>a, <2>2, HarmlessFaults DEF Step, Works, SetNX, Get, RunReturns,
         PrimeReturns, OpAmbiguous, OpUnavailable, StreamEnds, StreamBreaks, Save, Park,
         Release, Owns, Owning
    <3>2. CASE rec' = rec
      <4>1. \A d \in ran : OnRecord(d) => OnRecord(d)'
        BY <2>0, <2>1, <3>1, <3>2 DEF OnRecord, Owns
      <4> QED BY <1>0, <1>a, <2>b, <3>1, <4>1
    <3>3. CASE rec' # rec
      <4>1. rec.status = "absent"
        <5>1. rec' = Applied(a)
          BY <1>2, <3>3, RecordStep
        <5> QED BY <2>2, <3>3, <5>1 DEF Applied
      <4>2. ~forgot => ran = {}
        BY <4>1, <1>a, <2>1 DEF OnRecord, Inv, OwnersCovered, Terminal
      <4> QED BY <1>0, <1>a, <2>b, <3>1, <4>2
    <3> QED BY <3>2, <3>3
  <2>3. CASE Owns(a)
    <3>1. rec.by = a
      BY <2>3 DEF Inv, OwnersCovered
    <3>2. ~forgot => ran \subseteq {a}
      BY <1>a, <3>1 DEF OnRecord
    <3>4. CASE \/ RunReturns(a) \/ PrimeReturns(a) \/ OpAmbiguous(a)
               \/ StreamEnds(a) \/ StreamBreaks(a) \/ Save(a) \/ Park(a)
               \/ (pc[a] = "saving" /\ pc'[a] = "parking")
      <4>1. pc'[a] \in {"saving", "streaming", "parking", "done"}
        BY <3>4 DEF RunReturns, PrimeReturns, OpAmbiguous, StreamEnds, StreamBreaks,
           Save, Park, Inv, TypeOK
      <4>2. OnRecord(a)'
        <5>1. CASE Save(a) \/ Park(a)
          BY <5>1 DEF Save, Park, Applied, Completed, Ambiguous, OnRecord, Terminal
        <5>2. CASE ~(Save(a) \/ Park(a))
          <6>1. Owns(a)'
            BY <3>4, <5>2 DEF RunReturns, PrimeReturns, OpAmbiguous, StreamEnds,
               StreamBreaks, Inv, TypeOK, Owns, Owning
          <6> QED BY <6>1 DEF Inv, OwnersCovered, OnRecord
        <5> QED BY <5>1, <5>2
      <4>3. ~forgot' => \A d \in ran' : OnRecord(d)'
        BY <1>0, <2>0, <3>2, <4>2
      <4>4. pc'[a] \notin {"claiming", "reading", "running", "priming", "releasing"}
        BY <4>1
      <4> QED BY <1>a, <2>b, <4>3, <4>4
    <3>5. CASE OpUnavailable(a) \/ Release(a) \/ (pc[a] = "releasing" /\ ran' = ran)
      <4>1. a \notin ran /\ ran' = ran
        BY <1>a, <3>5 DEF OpUnavailable, Release
      <4> QED BY <1>0, <1>a, <2>b, <3>2, <4>1
    <3>6. CASE StoreFails(a) \/ Crash(a) \/ CutShort(a) \/ OpLateError(a)
      <4>1. \/ pc[a] = "releasing" /\ ran' = ran
            \/ pc[a] = "saving" /\ pc'[a] = "parking"
        BY <2>3, <3>6, HarmlessFaults DEF Owns, Owning
      <4> QED BY <3>4, <3>5, <4>1
    <3>7. ~(SetNX(a) \/ Get(a))
      BY <2>3 DEF SetNX, Get, Owns, Owning
    <3> QED BY <1>2, <3>4, <3>5, <3>6, <3>7 DEF Step, Works
  <2>4. pc[a] \in {"claiming", "reading"} \/ Owns(a)
    BY <1>2 DEF Step, Works, SetNX, Get, RunReturns, PrimeReturns, OpAmbiguous,
       OpUnavailable, OpLateError, StreamEnds, StreamBreaks, Save, Park, Release,
       StoreFails, Crash, CutShort, Gone, Owns, Owning, Inv, TypeOK
  <2> QED BY <2>2, <2>3, <2>4
<1>3. CASE UNCHANGED vars
  BY <1>3, <1>a DEF vars, OnRecord, Owns
<1> QED BY <1>1, <1>2, <1>3 DEF Next

LEMMA ExecutionsRecorded == ASSUME ClaimOutlivesOwner PROVE Spec => []ExecutionsOnRecord
<1>1. Init => ExecutionsOnRecord
  BY DEF Init, ExecutionsOnRecord
<1>2. Inv /\ Inv' /\ ExecutionsOnRecord /\ [Next]_vars => ExecutionsOnRecord'
  BY ExecutionsStep
<1> QED BY <1>1, <1>2, Ownership, PTL DEF Spec

\* IdempotencyService's promise, with a claim that outlives its owner and under
\* every fault: the provider executes the operation of at most one of the
\* requests that carry the key, until a fault has kept an outcome off the record.
THEOREM RunsAtMostOnce == ASSUME ClaimOutlivesOwner PROVE Spec => []RerunsExplained
<1>1. ExecutionsOnRecord => RerunsExplained
  BY DEF ExecutionsOnRecord, OnRecord, RerunsExplained, AtMostOnce
<1> QED BY <1>1, ExecutionsRecorded, PTL

\* Without faults nothing is lost, and the promise holds as it is stated.
THEOREM FaultFreeAtMostOnce ==
    ASSUME ClaimOutlivesOwner, Faults = {} PROVE Spec => []AtMostOnce
<1>1. Init => ~lost
  BY DEF Init
<1>2. ~lost /\ [Next]_vars => ~lost'
  BY DEF Next, vars, Tick, Step, Works, SetNX, Get, RunReturns, PrimeReturns, OpAmbiguous,
     OpUnavailable, OpLateError, StreamEnds, StreamBreaks, Save, Park, Release,
     StoreFails, Crash, CutShort, Gone, Leads
<1>3. ~lost /\ RerunsExplained => AtMostOnce
  BY DEF RerunsExplained
<1> QED BY <1>1, <1>2, <1>3, RunsAtMostOnce, PTL DEF Spec

=============================================================================
