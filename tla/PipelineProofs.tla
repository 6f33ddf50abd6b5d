--------------------------- MODULE PipelineProofs ---------------------------
(***************************************************************************)
(* What the request pipeline adds to the idempotency service, for any      *)
(* number of requests that carry one key, any pool and any durations: it   *)
(* implements the service as specified by itself, so that the service's    *)
(* theorems hold of it; what is answered is billed; and what is executed   *)
(* and not billed is on record as ambiguous.                               *)
(***************************************************************************)
EXTENDS Pipeline, IdempotencyProofs

\* What request a may do, faults included.
RequestStep(a) == Serves(a) \/ Suffers(a)
KeyStep == Create \/ Revoke \/ AdminCommits \/ AdminCommitFails

\* Every step of the pipeline is a step of the service, or none of its business.
LEMMA StepsOfTheService ==
    /\ \A a \in Attempts : RequestStep(a) => Step(a) \/ UNCHANGED vars
    /\ KeyStep => UNCHANGED vars
    /\ TimePasses => Tick
<1>1. ASSUME NEW a \in Attempts, RequestStep(a) PROVE Step(a) \/ UNCHANGED vars
  BY <1>1 DEF RequestStep, Serves, Suffers, Disconnects, Finalizes,
     FinalizationFails, StoreErrs, Dies, CommitFails, Authenticate,
     Unauthorized, PoolTimesOut, Admitted, RateLimited, Proceeds, Flushes, Interrupted,
     Commits, RollsBack, Moves, Step, Works
<1>2. KeyStep => UNCHANGED vars
  BY DEF KeyStep, Create, Revoke, AdminCommits, AdminCommitFails
<1>3. TimePasses => Tick
  BY DEF TimePasses
<1> QED BY <1>1, <1>2, <1>3

LEMMA PipelineNextCases ==
    PipelineNext <=> TimePasses \/ KeyStep \/ \E a \in Attempts : RequestStep(a)
  BY DEF PipelineNext, KeyStep, RequestStep

\* The pipeline implements the idempotency service: authentication, the pool, the
\* rate limiter, the transaction and the api-key endpoints never make it take a
\* step, or keep a state, that the service alone does not have.
THEOREM PipelineImplementsService == PipelineSpec => Spec
<1>1. PipelineInit => Init
  BY DEF PipelineInit
<1>2. [PipelineNext]_pvars => [Next]_vars
  <2>1. PipelineNext => Next \/ UNCHANGED vars
    BY PipelineNextCases, StepsOfTheService DEF Next
  <2>2. UNCHANGED pvars => UNCHANGED vars
    BY DEF pvars
  <2> QED BY <2>1, <2>2
<1> QED BY <1>1, <1>2, PTL DEF PipelineSpec, Spec

-----------------------------------------------------------------------------
\* Types.

LEMMA PipelineTypeStep ==
    ASSUME PipelineTypeOK, RecordConsistent, [PipelineNext]_pvars
    PROVE  PipelineTypeOK'
<1>1. TypeOK'
  <2>1. PipelineNext => Next \/ UNCHANGED vars
    BY PipelineNextCases, StepsOfTheService DEF Next
  <2>2. UNCHANGED pvars => UNCHANGED vars
    BY DEF pvars
  <2> QED BY <2>1, <2>2, TypeStep DEF PipelineTypeOK
<1>2. /\ stage \in [Attempts -> Stages] /\ row \in [Attempts -> Rows]
      /\ mishap \subseteq Attempts
      /\ key \in {"absent", "active", "revoked"}
      /\ admin \in {"none", "create", "revoke"} /\ told \in BOOLEAN
  BY DEF PipelineTypeOK
<1>3. CASE UNCHANGED pvars
  BY <1>1, <1>2, <1>3 DEF pvars, PipelineTypeOK
<1>4. CASE TimePasses
  BY <1>1, <1>2, <1>4 DEF TimePasses, keys, PipelineTypeOK
<1>5. CASE KeyStep
  BY <1>1, <1>2, <1>5 DEF KeyStep, Create, Revoke, AdminCommits, AdminCommitFails,
                          PipelineTypeOK
<1>6. ASSUME NEW a \in Attempts, RequestStep(a) PROVE PipelineTypeOK'
  <2>1. UNCHANGED <<key, admin, told>>
    BY <1>6 DEF RequestStep, Serves, Suffers, Disconnects, Finalizes,
     FinalizationFails, StoreErrs, Dies, CommitFails, Authenticate,
       Unauthorized, PoolTimesOut, Admitted, RateLimited, Proceeds, Flushes, Interrupted,
       Commits, RollsBack, Moves, keys
  <2>2. mishap' \in {mishap, mishap \cup {a}}
    BY <1>6 DEF RequestStep, Serves, Suffers, Disconnects, Finalizes,
     FinalizationFails, StoreErrs, Dies, CommitFails, Authenticate,
       Unauthorized, PoolTimesOut, Admitted, RateLimited, Proceeds, Flushes, Interrupted,
       Commits, RollsBack, Moves
  <2>3. stage' = stage \/ \E to \in Stages : stage' = [stage EXCEPT ![a] = to]
    BY <1>6 DEF RequestStep, Serves, Suffers, Disconnects, Finalizes,
     FinalizationFails, StoreErrs, Dies, CommitFails, Authenticate,
       Unauthorized, PoolTimesOut, Admitted, RateLimited, Proceeds, Flushes, Interrupted,
       Commits, RollsBack, Moves, Ends, Stages
  <2>4. row' = row \/ \E to \in Rows : row' = [row EXCEPT ![a] = to]
    <3>1. row[a] \in Rows /\ Unsaved(a) \in Rows
      BY <1>2 DEF Unsaved, Rows
    <3>2. CASE Dies(a) \/ CommitFails(a) \/ Commits(a) \/ RollsBack(a)
      BY <3>1, <3>2 DEF Dies, CommitFails, Commits, RollsBack, Ends, Rows
    <3>3. CASE ~(Dies(a) \/ CommitFails(a) \/ Commits(a) \/ RollsBack(a))
      BY <1>6, <3>3 DEF RequestStep, Serves, Suffers, Disconnects, Finalizes,
     FinalizationFails, StoreErrs, Authenticate,
         Unauthorized, PoolTimesOut, Admitted, RateLimited, Proceeds, Flushes,
         Interrupted, Moves, Rows
    <3> QED BY <3>2, <3>3
  <2>5. stage' \in [Attempts -> Stages]
    BY <1>2, <2>3
  <2>6. row' \in [Attempts -> Rows]
    BY <1>2, <2>4
  <2> QED BY <1>1, <1>2, <2>1, <2>2, <2>5, <2>6 DEF PipelineTypeOK
<1> QED BY <1>3, <1>4, <1>5, <1>6, PipelineNextCases

\* Every variable of the pipeline keeps its type.
THEOREM PipelineTypeCorrect == PipelineSpec => []PipelineTypeOK
<1>1. PipelineInit /\ TypeOK => PipelineTypeOK
  BY DEF PipelineInit, PipelineTypeOK, Stages, Rows
<1>2. PipelineTypeOK /\ RecordConsistent /\ [PipelineNext]_pvars => PipelineTypeOK'
  BY PipelineTypeStep
<1> QED BY <1>1, <1>2, TypeCorrect, PipelineImplementsService, PTL DEF PipelineSpec

-----------------------------------------------------------------------------
\* The inductive invariant.

\* A step of request a leaves the other requests' share of the state alone.
Untouched(a) ==
    /\ req' = req /\ ran \subseteq ran' /\ mishap \subseteq mishap'
    /\ \A d \in Attempts \ {a} :
          /\ pc'[d] = pc[d] /\ result'[d] = result[d] /\ got'[d] = got[d]
          /\ stage'[d] = stage[d] /\ row'[d] = row[d]

LEMMA ServiceTouches ==
    ASSUME TypeOK, NEW a \in Attempts, Step(a) \/ UNCHANGED vars
    PROVE  /\ req' = req /\ ran \subseteq ran'
           /\ \A d \in Attempts \ {a} :
                 pc'[d] = pc[d] /\ result'[d] = result[d] /\ got'[d] = got[d]
<1> USE DEF Goto, Finish, Leads
<1>1. CASE SetNX(a)
  BY <1>1 DEF SetNX, TypeOK
<1>2. CASE Get(a)
  BY <1>2 DEF Get, TypeOK
<1>3. CASE RunReturns(a) \/ PrimeReturns(a) \/ OpAmbiguous(a) \/ OpUnavailable(a)
           \/ OpLateError(a)
  BY <1>3 DEF RunReturns, PrimeReturns, OpAmbiguous, OpUnavailable, OpLateError, TypeOK
<1>4. CASE StreamEnds(a) \/ StreamBreaks(a) \/ Save(a) \/ Park(a) \/ Release(a)
  BY <1>4 DEF StreamEnds, StreamBreaks, Save, Park, Release, TypeOK
<1>5. CASE StoreFails(a)
  BY <1>5 DEF StoreFails, TypeOK
<1>6. CASE Crash(a) \/ CutShort(a)
  BY <1>6 DEF Crash, CutShort, Gone, TypeOK
<1>7. CASE UNCHANGED vars
  BY <1>7 DEF vars
<1> QED BY <1>1, <1>2, <1>3, <1>4, <1>5, <1>6, <1>7 DEF Step, Works

LEMMA RequestTouches ==
    ASSUME PipelineTypeOK, NEW a \in Attempts, RequestStep(a)
    PROVE  Untouched(a)
<1>1. /\ req' = req /\ ran \subseteq ran'
      /\ \A d \in Attempts \ {a} :
            pc'[d] = pc[d] /\ result'[d] = result[d] /\ got'[d] = got[d]
  BY StepsOfTheService, ServiceTouches DEF PipelineTypeOK
<1>2. mishap \subseteq mishap' /\ \A d \in Attempts \ {a} : stage'[d] = stage[d]
  BY DEF RequestStep, Serves, Suffers, Disconnects, Finalizes,
     FinalizationFails, StoreErrs, Dies, CommitFails, Authenticate, Unauthorized,
     PoolTimesOut, Admitted, RateLimited, Proceeds, Flushes, Interrupted, Commits,
     RollsBack, Moves, Ends, PipelineTypeOK
<1>3. \A d \in Attempts \ {a} : row'[d] = row[d]
  BY DEF RequestStep, Serves, Suffers, Disconnects, Finalizes,
     FinalizationFails, StoreErrs, Dies, CommitFails, Authenticate, Unauthorized,
     PoolTimesOut, Admitted, RateLimited, Proceeds, Flushes, Interrupted, Commits,
     RollsBack, Moves, Ends, PipelineTypeOK
<1> QED BY <1>1, <1>2, <1>3 DEF Untouched

\* What a step of a does to a itself.  It has not reached the service yet; ...
NotYet(a) ==
    /\ UNCHANGED <<vars, row, mishap>>
    /\ stage[a] \in {"arriving", "authenticated"}
    /\ stage'[a] \in {"authenticated", "handling", "closed"}

\* ... or takes a step of the service, with its session left alone, ...
LeavesSession(a) ==
    /\ Handling(a) /\ Handling(a)' /\ row'[a] = row[a]
    /\ \/ SetNX(a) \/ Get(a) \/ PrimeReturns(a) \/ OpAmbiguous(a)
       \/ OpUnavailable(a) \/ OpLateError(a) \/ Save(a) \/ Park(a) \/ Release(a)

\* ... with its usage record flushed, ...
FlushesRow(a) ==
    /\ Handling(a) /\ Handling(a)' /\ row'[a] = "flushed"
    /\ RunReturns(a) \/ StreamEnds(a)

\* ... or interrupted ...
BreaksOff(a) ==
    /\ Handling(a) /\ Handling(a)' /\ row'[a] \in {row[a], "flushed"}
    /\ StreamBreaks(a)

\* ... or left by its client ...
LeftByClient(a) ==
    /\ Handling(a) /\ Handling(a)' /\ row'[a] = row[a] /\ CutShort(a)

\* ... or failed by the store, ...
FailedByStore(a) ==
    /\ Handling(a) /\ Handling(a)' /\ row'[a] = row[a] /\ StoreFails(a)
    /\ pc[a] = "saving" => req[a].stream \/ a \in mishap'

\* ... or is over, hit by a mishap, or with its transaction committed or not, ...
EndsBadly(a) ==
    /\ Handling(a) /\ stage'[a] = "closed" /\ a \in mishap'
    /\ Crash(a) \/ (Exiting(a) /\ UNCHANGED vars)
    /\ row'[a] # "none" => row[a] # "none"
EndsWell(a) ==
    /\ Exiting(a) /\ stage'[a] = "closed" /\ UNCHANGED vars
    /\ row'[a] # "none" => row[a] # "none"
    /\ row[a] = "flushed" /\ ExitsNormally(a) => row'[a] = "committed"

\* ... or is a stream that is closed after its session.
Closes(a) ==
    /\ stage[a] = "closed" /\ stage'[a] = "closed" /\ row'[a] = row[a]
    /\ \/ StreamBreaks(a) \/ Park(a)
       \/ pc[a] = "parking" /\ StoreFails(a)
       \/ Owns(a) /\ Crash(a)

LEMMA OwnSteps ==
    ASSUME PipelineInv, NEW a \in Attempts, RequestStep(a)
    PROVE  \/ NotYet(a) \/ LeavesSession(a) \/ FlushesRow(a) \/ BreaksOff(a)
           \/ LeftByClient(a) \/ FailedByStore(a) \/ EndsBadly(a) \/ EndsWell(a)
           \/ Closes(a)
<1> USE DEF PipelineInv, PipelineTypeOK, TypeOK, Handling
<1>1. CASE Authenticate(a) \/ Unauthorized(a) \/ PoolTimesOut(a) \/ Admitted(a)
           \/ RateLimited(a)
  BY <1>1 DEF NotYet, Authenticate, Unauthorized, PoolTimesOut, Admitted, RateLimited, Moves
<1>2. CASE Proceeds(a)
  BY <1>2 DEF LeavesSession, Proceeds
<1>3. CASE Flushes(a)
  BY <1>3 DEF FlushesRow, Flushes
<1>4. CASE Interrupted(a)
  BY <1>4 DEF BreaksOff, Interrupted
<1>5. CASE StoreErrs(a)
  BY <1>5 DEF FailedByStore, StoreErrs
<1>6. CASE Dies(a)
  BY <1>6 DEF EndsBadly, Dies, Exiting, Ends, Unsaved
<1>7. CASE Commits(a) \/ RollsBack(a)
  BY <1>7 DEF EndsWell, Commits, RollsBack, Exiting, Ends, Unsaved
<1>8. CASE CommitFails(a)
  BY <1>8 DEF EndsBadly, CommitFails, Exiting, Ends, Unsaved
<1>9. CASE Disconnects(a)
  BY <1>9 DEF LeftByClient, Disconnects
<1>10. CASE Finalizes(a) \/ FinalizationFails(a)
  BY <1>10 DEF Closes, Finalizes, FinalizationFails
<1> QED BY <1>1, <1>2, <1>3, <1>4, <1>5, <1>6, <1>7, <1>8, <1>9, <1>10
        DEF RequestStep, Serves, Suffers

\* Whoever is going to be paid for still is after the step.
LEMMA PaidStays ==
    ASSUME PipelineInv, NEW a \in Attempts, RequestStep(a), NEW b \in Attempts, Paid(b)
    PROVE  Paid(b)'
<1>1. Untouched(a)
  BY RequestTouches DEF PipelineInv
<1>2. CASE b # a
  BY <1>1, <1>2 DEF Untouched, Paid, Handling
<1>3. CASE b = a
  <2> USE <1>1 DEF Untouched, Paid, Handling
  <2>1. SessionConsistent(a) /\ req'[a] = req[a]
    BY DEF PipelineInv
  <2>2. CASE a \in mishap
    BY <1>3, <2>2
  <2>3. CASE row[a] = "committed" /\ stage[a] = "closed"
    BY <1>3, <2>3, OwnSteps DEF NotYet, LeavesSession, FlushesRow, BreaksOff,
                                LeftByClient, FailedByStore, EndsBadly, EndsWell,
                                Exiting, Closes
  <2>4. CASE /\ row[a] = "flushed" /\ Handling(a)
             /\ req[a].stream \/ pc[a] = "saving" \/ result[a] = "response"
    <3>1. result[a] = "response" => pc[a] = "done"
      BY <2>1 DEF SessionConsistent
    <3>2. CASE NotYet(a)
      BY <2>4, <3>2 DEF NotYet
    <3>3. CASE LeavesSession(a)
      <4>1. CASE req[a].stream
        BY <1>3, <2>1, <2>4, <3>3, <4>1 DEF LeavesSession
      <4>2. CASE ~req[a].stream
        <5>1. Save(a)
          BY <2>4, <3>1, <3>3, <4>2 DEF LeavesSession, SetNX, Get, PrimeReturns,
             OpAmbiguous, OpUnavailable, OpLateError, Park, Release
        <5>2. result'[a] = "response"
          BY <5>1 DEF Save, Finish, PipelineInv, PipelineTypeOK, TypeOK
        <5> QED BY <1>3, <2>4, <3>3, <5>2 DEF LeavesSession
      <4> QED BY <4>1, <4>2
    <3>4. CASE FlushesRow(a)
      BY <1>3, <2>1, <2>4, <3>1, <3>4 DEF FlushesRow, RunReturns, StreamEnds
    <3>5. CASE BreaksOff(a)
      BY <1>3, <2>1, <2>4, <3>5 DEF BreaksOff, StreamBreaks
    <3>6. CASE FailedByStore(a)
      BY <1>3, <2>1, <2>4, <3>1, <3>6 DEF FailedByStore, StoreFails
    <3>7. CASE EndsBadly(a)
      BY <1>3, <3>7 DEF EndsBadly
    <3>8. CASE EndsWell(a)
      BY <1>3, <2>4, <3>8 DEF EndsWell, ExitsNormally, Exiting, Abandoned
    <3>9. CASE LeftByClient(a)
      BY <1>3, <2>1, <2>4, <3>9 DEF LeftByClient, CutShort
    <3>10. ~Closes(a)
      BY <2>4 DEF Closes
    <3> QED BY <3>2, <3>3, <3>4, <3>5, <3>6, <3>7, <3>8, <3>9, <3>10, OwnSteps
  <2> QED BY <1>3, <2>2, <2>3, <2>4
<1> QED BY <1>2, <1>3

\* A response that is on record after a step of a is paid for.
LEMMA RecordPaidStep ==
    ASSUME PipelineInv, RecordConsistent, NEW a \in Attempts, RequestStep(a),
           rec'.status = "completed"
    PROVE  \E b \in Attempts : b = rec'.by /\ Paid(b)'
<1>1. rec' \in {rec, Applied(a)}
  BY StepsOfTheService, RecordStep DEF vars
<1>2. CASE rec' = rec
  <2>1. rec.by \in Attempts
    BY <1>2 DEF RecordConsistent
  <2>2. PICK b \in Attempts : b = rec.by
    BY <2>1
  <2>3. Paid(b)
    BY <1>2, <2>2 DEF PipelineInv
  <2>4. Paid(b)'
    BY <2>3, PaidStays
  <2> QED BY <1>2, <2>2, <2>4
<1>3. CASE rec' # rec
  <2>1. pc[a] = "saving" /\ rec'.by = a
    BY <1>1, <1>3 DEF Applied, Claim, Completed, Ambiguous, Absent
  <2>2. Paid(a)
    BY <2>1 DEF PipelineInv, SessionConsistent
  <2>3. Paid(a)'
    BY <2>2, PaidStays
  <2> QED BY <2>1, <2>3
<1> QED BY <1>2, <1>3

\* What a is given by its own step is paid for.
LEMMA GivenPaidStep ==
    ASSUME PipelineInv, RecordConsistent, NEW a \in Attempts, RequestStep(a),
           got'[a] # got[a]
    PROVE  \E b \in Attempts : b = got'[a] /\ Paid(b)'
<1>1. CASE FlushesRow(a)
  <2>1. got'[a] = a /\ pc'[a] = "saving"
    BY <1>1 DEF FlushesRow, RunReturns, StreamEnds, Leads, Goto, PipelineInv,
                PipelineTypeOK, TypeOK
  <2> QED BY <1>1, <2>1 DEF FlushesRow, Paid
<1>2. CASE Save(a)
  <2>1. got'[a] = a /\ Paid(a)
    BY <1>2 DEF Save, PipelineInv, PipelineTypeOK, TypeOK, SessionConsistent
  <2> QED BY <2>1, PaidStays
<1>3. CASE Get(a)
  <2>1. rec.status = "completed" /\ got'[a] = rec.by
    BY <1>3 DEF Get, Answer, PipelineInv, PipelineTypeOK, TypeOK
  <2>2. PICK b \in Attempts : b = rec.by
    BY <2>1 DEF RecordConsistent
  <2>3. Paid(b)
    BY <2>1, <2>2 DEF PipelineInv
  <2> QED BY <2>1, <2>2, <2>3, PaidStays
<1>4. CASE /\ ~FlushesRow(a) /\ ~Save(a) /\ ~Get(a)
  BY <1>4, OwnSteps DEF NotYet, LeavesSession, BreaksOff, LeftByClient, FailedByStore,
     EndsBadly, EndsWell, Closes, vars, SetNX, PrimeReturns, OpAmbiguous, OpUnavailable,
     OpLateError, Park, Release, StreamBreaks, StoreFails, Crash, CutShort, Gone, Leads
<1> QED BY <1>1, <1>2, <1>3, <1>4

\* A request's own step keeps its session consistent.
LEMMA OwnSessionStep ==
    ASSUME PipelineInv, RecordConsistent, ResponsesReal, NEW a \in Attempts, RequestStep(a)
    PROVE  SessionConsistent(a)'
<1> USE DEF Goto, Finish, Leads, Owns, Owning, Handling
<1>1. SessionConsistent(a) /\ PipelineTypeOK /\ TypeOK /\ Untouched(a)
  BY RequestTouches DEF PipelineInv, PipelineTypeOK
<1>2. got'[a] # NoAttempt => Paid(got[a])'
  <2>1. CASE got'[a] = got[a]
    <3>1. CASE got[a] = NoAttempt
      BY <2>1, <3>1
    <3>2. CASE got[a] # NoAttempt
      <4>1. PICK b \in Attempts : b = got[a]
        BY <1>1, <3>2 DEF TypeOK
      <4>2. Paid(b)
        BY <1>1, <3>2, <4>1 DEF SessionConsistent
      <4>3. Paid(b)'
        BY <4>2, PaidStays
      <4>4. b = got'[a]
        BY <2>1, <4>1
      <4> QED BY <4>3, <4>4
    <3> QED BY <3>1, <3>2
  <2>2. CASE got'[a] # got[a]
    BY <2>2, GivenPaidStep
  <2> QED BY <2>1, <2>2
<1>3. ran \subseteq ran'
  BY <1>1 DEF Untouched
<1>5. pc'[a] = "saving" => Paid(a)'
  <2>1. CASE pc[a] = "saving"
    BY <1>1, <2>1, PaidStays DEF SessionConsistent
  <2>2. CASE FlushesRow(a)
    BY <2>2 DEF FlushesRow, Paid
  <2>3. CASE pc[a] # "saving" /\ ~FlushesRow(a)
    <3>1. pc'[a] # "saving"
      BY <1>1, <2>3, OwnSteps DEF NotYet, LeavesSession, BreaksOff, LeftByClient,
         FailedByStore, EndsBadly, EndsWell, Closes, vars, SetNX, Get, PrimeReturns,
         OpAmbiguous, OpUnavailable, OpLateError, Save, Park, Release, StreamBreaks,
         StoreFails, Crash, CutShort, Gone, TypeOK
    <3> QED BY <3>1
  <2> QED BY <2>1, <2>2, <2>3
<1> DEFINE Rest == /\ pc'[a] \in Owning =>
                        stage'[a] = "handling" \/ (stage'[a] = "closed" /\ LeftOver(a)')
                   /\ stage'[a] \in {"arriving", "authenticated"} => pc'[a] = "claiming"
                   /\ result'[a] = "response" => pc'[a] = "done"
                   /\ row'[a] # "none" => a \in ran'
<1>4. Rest
  <2>1. CASE NotYet(a)
    BY <1>1, <2>1 DEF NotYet, vars, SessionConsistent
  <2>2. CASE LeavesSession(a)
    <3>1. CASE Get(a)
      BY <1>1, <2>2, <3>1 DEF LeavesSession, SessionConsistent, Get, Answer, TypeOK
    <3>2. CASE SetNX(a)
      BY <1>1, <2>2, <3>2 DEF LeavesSession, SessionConsistent, SetNX, TypeOK
    <3>3. CASE \/ PrimeReturns(a) \/ OpAmbiguous(a) \/ OpUnavailable(a)
               \/ OpLateError(a)
      BY <1>1, <1>3, <2>2, <3>3 DEF LeavesSession, SessionConsistent, PrimeReturns,
         OpAmbiguous, OpUnavailable, OpLateError, TypeOK
    <3>4. CASE Save(a) \/ Park(a) \/ Release(a)
      BY <1>1, <2>2, <3>4 DEF LeavesSession, SessionConsistent, Save, Park, Release,
         TypeOK
    <3> QED BY <2>2, <3>1, <3>2, <3>3, <3>4 DEF LeavesSession
  <2>3. CASE FlushesRow(a)
    <3>1. a \in ran'
      BY <1>3, <2>3 DEF FlushesRow, RunReturns, StreamEnds, ResponsesReal
    <3> QED BY <1>1, <2>3, <3>1 DEF FlushesRow, SessionConsistent, RunReturns,
               StreamEnds, TypeOK
  <2>4. CASE BreaksOff(a)
    <3>1. a \in ran'
      BY <1>3, <2>4 DEF BreaksOff, StreamBreaks, ResponsesReal
    <3> QED BY <1>1, <2>4, <3>1 DEF BreaksOff, SessionConsistent, StreamBreaks, TypeOK
  <2>5. CASE FailedByStore(a)
    BY <1>1, <1>3, <2>5 DEF FailedByStore, SessionConsistent, StoreFails, TypeOK
  <2>6. CASE EndsBadly(a)
    <3>1. CASE Crash(a)
      <4>1. pc'[a] = "crashed" /\ result'[a] # "response"
        BY <1>1, <3>1 DEF SessionConsistent, Crash, Gone, TypeOK
      <4> QED BY <1>1, <1>3, <2>6, <4>1 DEF EndsBadly, SessionConsistent
    <3>2. CASE Exiting(a) /\ UNCHANGED vars
      BY <1>1, <2>6, <3>2 DEF EndsBadly, SessionConsistent, vars, Exiting, Abandoned,
         LeftOver
    <3> QED BY <2>6, <3>1, <3>2 DEF EndsBadly
  <2>7. CASE EndsWell(a)
    BY <1>1, <2>7 DEF EndsWell, SessionConsistent, vars, Exiting, Abandoned, LeftOver
  <2>8. CASE LeftByClient(a)
    BY <1>1, <1>3, <2>8 DEF LeftByClient, SessionConsistent, CutShort, Gone, TypeOK
  <2>9. CASE Closes(a)
    <3>1. result[a] # "response" /\ result'[a] # "response"
      BY <1>1, <2>9 DEF Closes, SessionConsistent, StreamBreaks, Park, StoreFails, Crash,
         Gone, TypeOK
    <3>2. \/ pc'[a] \in {"done", "crashed"}
          \/ pc'[a] = "parking" /\ req'[a].stream
      BY <1>1, <2>9 DEF Closes, StreamBreaks, Park, StoreFails, Crash, Gone, TypeOK
    <3> QED BY <1>1, <1>3, <2>9, <3>1, <3>2 DEF Closes, SessionConsistent, LeftOver
  <2> QED BY <2>1, <2>2, <2>3, <2>4, <2>5, <2>6, <2>7, <2>8, <2>9, OwnSteps
<1> QED BY <1>2, <1>4, <1>5 DEF SessionConsistent

LEMMA PipelineInvStep ==
    ASSUME PipelineInv, RecordConsistent, ResponsesReal, [PipelineNext]_pvars
    PROVE  PipelineInv'
<1>1. PipelineTypeOK'
  BY PipelineTypeStep DEF PipelineInv
<1>2. CASE UNCHANGED <<req, pc, got, result, ran, stage, row, mishap>>
           /\ (rec'.status = "completed" => rec.status = "completed" /\ rec'.by = rec.by)
  <2>1. \A d \in Attempts : SessionConsistent(d)'
    BY <1>2 DEF PipelineInv, SessionConsistent, Paid, Handling, Owns, LeftOver
  <2>2. (rec.status = "completed" => Paid(rec.by))'
    BY <1>2 DEF PipelineInv, Paid, Handling
  <2> QED BY <1>1, <2>1, <2>2 DEF PipelineInv
<1>3. CASE UNCHANGED pvars
  BY <1>2, <1>3 DEF pvars, vars
<1>4. CASE KeyStep
  BY <1>2, <1>4 DEF KeyStep, Create, Revoke, AdminCommits, AdminCommitFails, vars
<1>5. CASE TimePasses
  <2>1. rec'.status = "completed" => rec.status = "completed" /\ rec'.by = rec.by
    BY <1>5 DEF TimePasses, Tick, Aged, Absent
  <2> QED BY <1>2, <1>5, <2>1 DEF TimePasses, Tick, keys
<1>6. ASSUME NEW a \in Attempts, RequestStep(a) PROVE PipelineInv'
  <2>1. SessionConsistent(a)'
    BY <1>6, OwnSessionStep
  <2>2. ASSUME NEW d \in Attempts, d # a PROVE SessionConsistent(d)'
    <3>1. Untouched(a) /\ SessionConsistent(d)
      BY <1>6, RequestTouches DEF PipelineInv
    <3>2. got'[d] # NoAttempt => Paid(got[d])'
      <4>1. CASE got[d] = NoAttempt
        BY <2>2, <3>1, <4>1 DEF Untouched
      <4>2. CASE got[d] # NoAttempt
        <5>1. PICK b \in Attempts : b = got[d]
          BY <4>2 DEF PipelineInv, PipelineTypeOK, TypeOK
        <5>2. Paid(b)
          BY <3>1, <4>2, <5>1 DEF SessionConsistent
        <5>3. Paid(b)'
          BY <1>6, <5>2, PaidStays
        <5>4. b = got'[d]
          BY <2>2, <3>1, <5>1 DEF Untouched
        <5> QED BY <5>3, <5>4
      <4> QED BY <4>1, <4>2
    <3>3. pc'[d] = "saving" => Paid(d)'
      BY <1>6, <2>2, <3>1, PaidStays DEF Untouched, SessionConsistent
    <3> QED BY <2>2, <3>1, <3>2, <3>3 DEF Untouched, SessionConsistent, Handling, Owns,
               LeftOver
  <2>3. (rec.status = "completed" => Paid(rec.by))'
    BY <1>6, RecordPaidStep
  <2> QED BY <1>1, <2>1, <2>2, <2>3 DEF PipelineInv
<1> QED BY <1>3, <1>4, <1>5, <1>6, PipelineNextCases

\* The invariant holds with no assumption on how long anything takes.
THEOREM PipelineInvariance == PipelineSpec => []PipelineInv
<1>1. PipelineInit /\ PipelineTypeOK => PipelineInv
  BY DEF PipelineInit, Init, PipelineInv, SessionConsistent, Owns, Owning, Absent
<1>2. PipelineInv /\ RecordConsistent /\ ResponsesReal /\ [PipelineNext]_pvars
        => PipelineInv'
  BY PipelineInvStep
<1> QED BY <1>1, <1>2, PipelineTypeCorrect, TypeCorrect, RealAndFaithful,
           PipelineImplementsService, PTL DEF PipelineSpec

-----------------------------------------------------------------------------
\* What it gives.

\* Every response that was given or replayed is paid for once the request that
\* executed it is over and nothing befell it.
THEOREM ResponsesBilled == PipelineSpec => []ResponsesAreBilled
<1>1. PipelineInv => ResponsesAreBilled
  <2> SUFFICES ASSUME PipelineInv, NEW a \in Attempts, NEW b \in Attempts,
                      got[a] = b, stage[b] = "closed", b \notin mishap
               PROVE  row[b] = "committed"
    BY DEF ResponsesAreBilled
  <2>1. Paid(b)
    BY NobodyAssumption DEF PipelineInv, SessionConsistent
  <2> QED BY <2>1 DEF Paid, Handling
<1> QED BY <1>1, PipelineInvariance, PTL

\* One key, one charge, as long as the claim outlives its owner: the only way to a
\* second usage record is the one to a second execution.
THEOREM OneKeyOneCharge == ASSUME ClaimOutlivesOwner PROVE PipelineSpec => []KeyBilledOnce
<1>1. PipelineInv /\ RerunsExplained => KeyBilledOnce
  BY DEF PipelineInv, SessionConsistent, RerunsExplained, AtMostOnce, KeyBilledOnce
<1> QED BY <1>1, PipelineInvariance, RunsAtMostOnce, PipelineImplementsService, PTL

\* Nothing is given away in silence, as long as the claim outlives its owner: what was
\* executed and is not paid for is on record as ambiguous, also when the stream was
\* closed after its session.
THEOREM UnpaidUnknown == ASSUME ClaimOutlivesOwner PROVE PipelineSpec => []UnpaidIsUnknown
<1>1. PipelineInv /\ ExecutionsOnRecord => UnpaidIsUnknown
  <2> SUFFICES ASSUME PipelineInv, ExecutionsOnRecord, NEW a \in ran,
                      stage[a] = "closed", ~Owns(a), row[a] # "committed",
                      a \notin mishap, ~lost, ~forgot
               PROVE  rec.by = a /\ rec.status = "ambiguous"
    BY DEF UnpaidIsUnknown
  <2>1. rec.by = a /\ rec.status \in Terminal
    BY DEF ExecutionsOnRecord, OnRecord
  <2>2. ~Paid(a)
    BY DEF Paid, Handling
  <2> QED BY <2>1, <2>2 DEF PipelineInv, Terminal
<1> QED BY <1>1, PipelineInvariance, ExecutionsRecorded, PipelineImplementsService, PTL

\* The service's own promises, of the whole pipeline.
THEOREM PipelineExclusive ==
    ASSUME ClaimOutlivesOwner
    PROVE  PipelineSpec => [](ExclusiveOwner /\ RerunsExplained /\ ReplayIsFaithful)
  BY Exclusive, RunsAtMostOnce, Faithful, PipelineImplementsService, PTL

=============================================================================
