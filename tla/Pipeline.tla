------------------------------ MODULE Pipeline ------------------------------
(***************************************************************************)
(* A chat request from its arrival to the end of its database transaction: *)
(* app/api/deps.py, app/api/v1/chat.py and app/infra/database/session.py   *)
(* around the idempotency service, for the requests that carry one         *)
(* (api key, Idempotency-Key), next to the api-key endpoints.              *)
(*                                                                         *)
(* get_session opens one transaction per request.  Its connection is       *)
(* checked out by the SELECT that authenticates the caller and given back  *)
(* when the dependency exits, with a commit or, on an exception, a         *)
(* rollback.  FastAPI (0.139) lets dependencies exit after the response    *)
(* has been sent, so what a client has been told is not committed yet.     *)
(*                                                                         *)
(* A client that leaves cancels the response.  The cancellation reaches    *)
(* the stream only if it is awaiting something itself; a stream suspended  *)
(* at a yield is left where it is, get_session commits and closes, and     *)
(* only then does the event loop close the generators.                     *)
(*                                                                         *)
(* The usage record is flushed inside the operation, before the            *)
(* idempotency record is completed; the two stores share no transaction.   *)
(***************************************************************************)
EXTENDS Idempotency, FiniteSets

CONSTANTS
    PoolSize,     \* db_pool_size + db_max_overflow
    CommitsFail   \* whether a COMMIT may fail

ASSUME PoolAssumption == PoolSize \in Nat \ {0} /\ CommitsFail \in BOOLEAN

VARIABLES
    stage,   \* how far each request has come through the dependencies
    row,     \* the usage record of each request
    mishap,  \* history: requests hit by a crash, a failed commit or a failed save
    key,     \* the api key as committed
    admin,   \* the api-key operation that is answered and not yet committed
    told     \* history: a revocation of the key has been answered with a success

pvars == <<vars, stage, row, mishap, key, admin, told>>

Stages == {"arriving", "authenticated", "handling", "closed"}
Rows == {"none", "flushed", "committed", "lost"}

PipelineTypeOK ==
    /\ TypeOK
    /\ stage \in [Attempts -> Stages]
    /\ row \in [Attempts -> Rows]
    /\ mishap \subseteq Attempts
    /\ key \in {"absent", "active", "revoked"}
    /\ admin \in {"none", "create", "revoke"}
    /\ told \in BOOLEAN

PipelineInit ==
    /\ Init
    /\ stage = [a \in Attempts |-> "arriving"]
    /\ row = [a \in Attempts |-> "none"]
    /\ mishap = {}
    /\ key = "absent"
    /\ admin = "none"
    /\ told = FALSE

keys == <<key, admin, told>>

\* The transactions that hold a connection.
Connected == {a \in Attempts : stage[a] \in {"authenticated", "handling"}}
InUse == Cardinality(Connected) + (IF admin = "none" THEN 0 ELSE 1)
Free == InUse < PoolSize

Moves(a, to) ==
    /\ stage' = [stage EXCEPT ![a] = to]
    /\ UNCHANGED <<vars, row, mishap, keys>>

-----------------------------------------------------------------------------
\* get_current_api_key: the SELECT takes a connection and sees what is committed.
Authenticate(a) ==
    /\ stage[a] = "arriving" /\ Free
    /\ key = "active"
    /\ Moves(a, "authenticated")

\* No such active key: 401, and the transaction is rolled back.
Unauthorized(a) ==
    /\ stage[a] = "arriving" /\ Free
    /\ key # "active"
    /\ Moves(a, "closed")

\* No connection within pool_timeout: an unexpected error, 500.
PoolTimesOut(a) ==
    /\ stage[a] = "arriving" /\ ~Free
    /\ Moves(a, "closed")

\* enforce_rate_limit, see RateLimiter: the request passes, or ends with 429.
Admitted(a) == stage[a] = "authenticated" /\ Moves(a, "handling")
RateLimited(a) == stage[a] = "authenticated" /\ Moves(a, "closed")

-----------------------------------------------------------------------------
\* create_completion: the idempotency service's steps, and what the operation
\* they run does to the session.
Handling(a) == stage[a] = "handling"

\* Steps that leave the session alone.
Proceeds(a) ==
    /\ Handling(a)
    /\ \/ SetNX(a) \/ Get(a) \/ PrimeReturns(a) \/ OpAmbiguous(a) \/ OpUnavailable(a)
       \/ OpLateError(a) \/ Save(a) \/ Park(a) \/ Release(a)
    /\ UNCHANGED <<stage, row, mishap, keys>>

\* GatewayService.complete has flushed the usage record when it returns, and
\* _drain when it yields the terminal event.
FlushesAfterwards(a) ==
    /\ Handling(a)
    /\ RunReturns(a) \/ StreamEnds(a)
    /\ UNCHANGED <<stage, row, mishap, keys>>
Flushes(a) ==
    /\ Handling(a)
    /\ RunReturns(a) \/ StreamEnds(a)
    /\ row' = [row EXCEPT ![a] = "flushed"]
    /\ UNCHANGED <<stage, mishap, keys>>

\* An interrupted stream may have flushed its partial usage.
Interrupted(a) ==
    /\ Handling(a)
    /\ StreamBreaks(a)
    /\ row' \in {row, [row EXCEPT ![a] = "flushed"]}
    /\ UNCHANGED <<stage, mishap, keys>>

\* The client leaves before the stream is started, or while it is being parked: the
\* claim is left as it is, the session is not touched and is still to exit.
Disconnects(a) ==
    /\ Handling(a)
    /\ CutShort(a)
    /\ UNCHANGED <<stage, row, mishap, keys>>

\* A store command fails; complete()'s error makes a plain request an error.
StoreErrs(a) ==
    /\ Handling(a)
    /\ StoreFails(a)
    /\ mishap' = IF pc[a] = "saving" /\ ~req[a].stream THEN mishap \cup {a} ELSE mishap
    /\ UNCHANGED <<stage, row, keys>>

\* The process dies, before or after the request was answered: the database
\* rolls the transaction back.
Ends(a, r) ==
    /\ stage' = [stage EXCEPT ![a] = "closed"]
    /\ row' = [row EXCEPT ![a] = r]

Unsaved(a) == IF row[a] = "flushed" THEN "lost" ELSE row[a]

Dies(a) ==
    /\ Handling(a)
    /\ \/ Crash(a)
       \/ "crash" \in Faults /\ pc[a] = "done" /\ UNCHANGED vars
    /\ Ends(a, Unsaved(a))
    /\ mishap' = mishap \cup {a}
    /\ UNCHANGED keys

-----------------------------------------------------------------------------
\* get_session exits.  A plain request that raised is rolled back; a stream whose
\* response has begun always exits normally, since _encode_sse lets nothing out.
ExitsNormally(a) ==
    result[a] \in {"response", "replayed"} \/ (req[a].stream /\ row[a] = "flushed")
\* It exits when the request is over, or when a stream has been abandoned at one
\* of _settle's yields: between two events or after the terminal one.
Abandoned(a) == req[a].stream /\ pc[a] \in {"streaming", "saving"}
Exiting(a) == Handling(a) /\ (pc[a] \in {"done", "crashed"} \/ Abandoned(a))

Commits(a) ==
    /\ Exiting(a) /\ ExitsNormally(a)
    /\ Ends(a, IF row[a] = "flushed" THEN "committed" ELSE row[a])
    /\ UNCHANGED <<vars, mishap, keys>>

RollsBack(a) ==
    /\ Exiting(a) /\ ~ExitsNormally(a)
    /\ Ends(a, Unsaved(a))
    /\ UNCHANGED <<vars, mishap, keys>>

CommitFails(a) ==
    /\ CommitsFail
    /\ Exiting(a) /\ ExitsNormally(a)
    /\ Ends(a, Unsaved(a))
    /\ mishap' = mishap \cup {a}
    /\ UNCHANGED <<vars, keys>>

\* The event loop closes an abandoned stream once the session is gone: GeneratorExit
\* at the yield, mark_ambiguous.  _drain bills nothing for it.
FinalizesSilently(a) ==
    /\ stage[a] = "closed"
    /\ Abandoned(a)
    /\ Finish(a, "upstream_error")
    /\ UNCHANGED <<rec, req, tries, left, got, ran, forgot, lost, stage, row, mishap, keys>>
Finalizes(a) ==
    /\ stage[a] = "closed"
    /\ \/ StreamBreaks(a) /\ rec' = rec
       \/ Park(a)
    /\ UNCHANGED <<stage, row, mishap, keys>>

\* Until it has, its store command may fail and its process may die.
FinalizationFails(a) ==
    /\ stage[a] = "closed"
    /\ \/ pc[a] = "parking" /\ StoreFails(a)
       \/ Owns(a) /\ Crash(a)
    /\ UNCHANGED <<stage, row, mishap, keys>>

-----------------------------------------------------------------------------
\* The api-key endpoints: create_api_key and revoke_api_key flush their change
\* and are answered, then commit when get_session exits.  (To revoke a key that
\* does not exist is a 404, to revoke it again changes nothing.)
Create ==
    /\ admin = "none" /\ Free
    /\ key = "absent"
    /\ admin' = "create"
    /\ UNCHANGED <<vars, stage, row, mishap, key, told>>

Revoke ==
    /\ admin = "none" /\ Free
    /\ key = "active"
    /\ admin' = "revoke"
    /\ told' = TRUE
    /\ UNCHANGED <<vars, stage, row, mishap, key>>

AdminCommits ==
    /\ admin # "none"
    /\ admin' = "none"
    /\ key' = IF admin = "create" THEN "active" ELSE "revoked"
    /\ UNCHANGED <<vars, stage, row, mishap, told>>

AdminCommitFails ==
    /\ CommitsFail
    /\ admin # "none"
    /\ admin' = "none"
    /\ UNCHANGED <<vars, stage, row, mishap, key, told>>

-----------------------------------------------------------------------------
\* Time passes, as in Idempotency.
TimePasses == Tick /\ UNCHANGED <<stage, row, mishap, keys>>

\* What a request does unless a fault befalls it.
Serves(a) ==
    \/ Authenticate(a) \/ Unauthorized(a) \/ PoolTimesOut(a)
    \/ Admitted(a) \/ RateLimited(a)
    \/ Proceeds(a) \/ Flushes(a) \/ Interrupted(a)
    \/ Commits(a) \/ RollsBack(a) \/ Finalizes(a)

Suffers(a) ==
    \/ Disconnects(a) \/ StoreErrs(a) \/ Dies(a) \/ CommitFails(a)
    \/ FinalizationFails(a)

PipelineNext ==
    \/ TimePasses
    \/ \E a \in Attempts : Serves(a) \/ Suffers(a)
    \/ Create \/ Revoke \/ AdminCommits \/ AdminCommitFails

PipelineSpec == PipelineInit /\ [][PipelineNext]_pvars

\* The clock runs, and a request that can go on does: providers, Redis and the
\* database answer or time out, the event loop closes what is left.  Nothing obliges a fault to happen.
PipelineFairSpec ==
    /\ PipelineSpec
    /\ WF_pvars(TimePasses)
    /\ \A a \in Attempts : WF_pvars(Serves(a))

-----------------------------------------------------------------------------
\* Nobody is given, or replayed, a response that is not paid for: once the
\* request that executed it is over, its usage record is committed, unless that
\* request was hit by a crash, a failed commit or a failed save of the response.
ResponsesAreBilled ==
    \A a, b \in Attempts :
        got[a] = b /\ stage[b] = "closed" /\ b \notin mishap => row[b] = "committed"

\* One key, one charge: until an outcome is lost or forgotten, at most one of the
\* requests that carry the key has a usage record, whatever becomes of the
\* transactions; and a request has one only if the provider executed it.
KeyBilledOnce ==
    /\ \A a \in Attempts : row[a] # "none" => a \in ran
    /\ ~lost /\ ~forgot => \A a, b \in Attempts : row[a] # "none" /\ row[b] # "none" => a = b

\* Nothing is given away in silence: what a provider executed and nobody is charged
\* for is on record as ambiguous, so that a retry is told and not served, once the
\* request and its stream are over, whichever of the two ended first; unless the
\* request met a mishap, or its outcome was lost or forgotten.
UnpaidIsUnknown ==
    \A a \in ran :
        /\ stage[a] = "closed" /\ ~Owns(a) /\ row[a] # "committed"
        /\ a \notin mishap /\ ~lost /\ ~forgot
        => rec.by = a /\ rec.status = "ambiguous"

(***************************************************************************)
(* The inductive invariant behind these three.  A request has to do with   *)
(* the idempotency service only while it is handled, or as a stream that   *)
(* is being closed after it; it completes the record only with its usage   *)
(* record flushed; and whoever wrote a response that is on record, or that *)
(* someone was given, is going to commit that usage record unless a mishap *)
(* befalls it.                                                             *)
(***************************************************************************)
Paid(b) ==
    \/ b \in mishap
    \/ row[b] = "committed" /\ stage[b] = "closed"
    \/ /\ row[b] = "flushed" /\ Handling(b)
       /\ req[b].stream \/ pc[b] = "saving" \/ result[b] = "response"

LeftOver(a) == req[a].stream /\ pc[a] \in {"streaming", "saving", "parking"}

SessionConsistent(a) ==
    /\ Owns(a) => Handling(a) \/ (stage[a] = "closed" /\ LeftOver(a))
    /\ stage[a] \in {"arriving", "authenticated"} => pc[a] = "claiming"
    /\ pc[a] = "saving" => Paid(a)
    /\ result[a] = "response" => pc[a] = "done"
    /\ row[a] # "none" => a \in ran
    /\ got[a] # NoAttempt => Paid(got[a])

PipelineInv ==
    /\ PipelineTypeOK
    /\ \A a \in Attempts : SessionConsistent(a)
    /\ rec.status = "completed" => Paid(rec.by)

\* A revoked key "can no longer authenticate" once its revocation is answered.
RevokedIsRefused ==
    [][\A a \in Attempts : told /\ stage[a] = "arriving" =>
          stage'[a] # "authenticated"]_pvars

\* Every request ends and gives its connection back, whatever the pool, Redis,
\* the provider and the database do.
EveryRequestCloses ==
    \A a \in Attempts : stage[a] = "arriving" ~> stage[a] = "closed"

=============================================================================
