----------------------------- MODULE Idempotency -----------------------------
(***************************************************************************)
(* app/services/idempotency_service.py over app/infra/idempotency/         *)
(* redis_store.py: what happens to ONE (api key, Idempotency-Key) when     *)
(* several requests carry it, on any workers, at once or as retries.       *)
(*                                                                         *)
(* Every Redis command is an await, so it is a step of its own: between    *)
(* two of them other requests run, the record may expire and the process   *)
(* may die.  The record's TTL is a countdown that Tick decrements; `left`  *)
(* is the time an attempt may still spend before its operation and its     *)
(* final store command are over.                                           *)
(*                                                                         *)
(* The operation is GatewayService.complete or GatewayService.stream.  It  *)
(* is seen here by its outcome only: a response, UpstreamAmbiguous (the    *)
(* provider may have run it), a clean failure (it did not), or some other  *)
(* exception after the provider has run it.                                *)
(***************************************************************************)
EXTENDS Naturals

CONSTANTS
    Attempts,      \* HTTP requests that carry the key
    Fingerprints,  \* request bodies
    InflightTTL,   \* idempotency_inflight_ttl_s
    CompletedTTL,  \* idempotency_ttl_s
    OpBudget,      \* longest operation() plus the store command that ends it
    StreamBudget,  \* longest a stream runs once it has produced its first event
    ReserveTries,  \* _RESERVE_ATTEMPTS
    Faults,        \* which of "crash", "redis", "late_error", "disconnect" can happen
    NoAttempt      \* nobody

ASSUME NobodyAssumption == NoAttempt \notin Attempts
ASSUME TTLAssumption ==
    /\ InflightTTL \in Nat \ {0}
    /\ CompletedTTL \in Nat
    /\ InflightTTL <= CompletedTTL
ASSUME TimingAssumption == OpBudget \in Nat /\ StreamBudget \in Nat
ASSUME TriesAssumption == ReserveTries \in Nat \ {0}
ASSUME FaultsAssumption ==
    Faults \subseteq {"crash", "redis", "late_error", "disconnect"}

VARIABLES
    rec,     \* the Redis record: status, fingerprint and TTL, and who wrote it
    req,     \* each attempt's body and whether it asked for a stream
    pc,      \* the await each attempt is suspended at
    tries,   \* failed rounds of the reserve loop
    left,    \* time left to an attempt that owns the claim
    got,     \* the attempt whose response each client has been given
    result,  \* how each attempt was answered
    ran,     \* attempts whose operation the provider executed
    forgot,  \* history: a terminal record has outlived its retention
    lost     \* history: a fault has kept an outcome off the record

vars == <<rec, req, pc, tries, left, got, result, ran, forgot, lost>>

Terminal == {"completed", "ambiguous"}
Record == [status: Terminal \cup {"absent", "in_progress"},
           by: Attempts \cup {NoAttempt}, ttl: 0..CompletedTTL]
Owning == {"running", "priming", "streaming", "saving", "parking", "releasing"}
Results == {"none", "response", "replayed", "conflict", "outcome_unknown",
            "in_progress", "store_unavailable", "upstream_error"}

\* The record holds a fingerprint; it is its writer's.
Absent == [status |-> "absent", by |-> NoAttempt, ttl |-> 0]
Claim(a) == [status |-> "in_progress", by |-> a, ttl |-> InflightTTL]
Completed(a) == [status |-> "completed", by |-> a, ttl |-> CompletedTTL]
Ambiguous(a) == [status |-> "ambiguous", by |-> a, ttl |-> CompletedTTL]

TypeOK ==
    /\ rec \in Record
    /\ req \in [Attempts -> [fp: Fingerprints, stream: BOOLEAN]]
    /\ pc \in [Attempts -> Owning \cup {"claiming", "reading", "done", "crashed"}]
    /\ tries \in [Attempts -> Nat]
    /\ left \in [Attempts -> Nat]
    /\ got \in [Attempts -> Attempts \cup {NoAttempt}]
    /\ result \in [Attempts -> Results]
    /\ ran \subseteq Attempts
    /\ forgot \in BOOLEAN
    /\ lost \in BOOLEAN

Init ==
    /\ rec = Absent
    /\ req \in [Attempts -> [fp: Fingerprints, stream: BOOLEAN]]
    /\ pc = [a \in Attempts |-> "claiming"]
    /\ tries = [a \in Attempts |-> 0]
    /\ left = [a \in Attempts |-> 0]
    /\ got = [a \in Attempts |-> NoAttempt]
    /\ result = [a \in Attempts |-> "none"]
    /\ ran = {}
    /\ forgot = FALSE
    /\ lost = FALSE

Goto(a, to) == pc' = [pc EXCEPT ![a] = to]

Finish(a, r) ==
    /\ Goto(a, "done")
    /\ result' = [result EXCEPT ![a] = r]

-----------------------------------------------------------------------------
\* What Redis holds once the command attempt a is waiting for has been applied.
\* complete, mark_ambiguous and release write whatever the key holds by then.
AppliedWithoutNX(a) ==
    IF pc[a] = "claiming" THEN Claim(a)
    ELSE IF pc[a] = "saving" THEN Completed(a)
    ELSE IF pc[a] = "parking" THEN Ambiguous(a)
    ELSE IF pc[a] = "releasing" THEN Absent
    ELSE rec
Applied(a) ==
    IF pc[a] = "claiming" THEN (IF rec.status = "absent" THEN Claim(a) ELSE rec)
    ELSE IF pc[a] = "saving" THEN Completed(a)
    ELSE IF pc[a] = "parking" THEN Ambiguous(a)
    ELSE IF pc[a] = "releasing" THEN Absent
    ELSE rec

\* reserve: SET NX EX, the atomic claim.
SetNX(a) ==
    /\ pc[a] = "claiming"
    /\ rec' = Applied(a)
    /\ IF rec.status = "absent"
       THEN /\ Goto(a, IF req[a].stream THEN "priming" ELSE "running")
            /\ left' = [left EXCEPT ![a] = OpBudget]
       ELSE Goto(a, "reading") /\ left' = left
    /\ UNCHANGED <<req, tries, got, result, ran, forgot, lost>>

\* What a request is told about a record it did not get to write.
AnswerIgnoringBody(a) ==
    IF rec.status = "completed" THEN "replayed"
    ELSE IF rec.status = "ambiguous" THEN "outcome_unknown"
    ELSE "in_progress"
Answer(a) ==
    IF req[rec.by].fp # req[a].fp THEN "conflict"
    ELSE IF rec.status = "completed" THEN "replayed"
    ELSE IF rec.status = "ambiguous" THEN "outcome_unknown"
    ELSE "in_progress"

\* A loop that polls GET instead of claiming again.
GetPolls(a) ==
    /\ pc[a] = "reading"
    /\ rec.status # "absent"
    /\ Finish(a, Answer(a))
    /\ got' = IF Answer(a) = "replayed" THEN [got EXCEPT ![a] = rec.by] ELSE got
    /\ UNCHANGED <<rec, req, tries, left, ran, forgot, lost>>

\* reserve: GET.  The record may have expired since SET NX found it; then the
\* claim is tried again, ReserveTries times in all.
Get(a) ==
    /\ pc[a] = "reading"
    /\ \/ /\ rec.status = "absent"
          /\ tries' = [tries EXCEPT ![a] = tries[a] + 1]
          /\ IF tries[a] + 1 = ReserveTries
             THEN Finish(a, "store_unavailable")
             ELSE Goto(a, "claiming") /\ result' = result
          /\ got' = got
       \/ /\ rec.status # "absent"
          /\ Finish(a, Answer(a))
          /\ got' = IF Answer(a) = "replayed"
                    THEN [got EXCEPT ![a] = rec.by] ELSE got
          /\ tries' = tries
    /\ UNCHANGED <<rec, req, left, ran, forgot, lost>>

-----------------------------------------------------------------------------
\* The operation of execute() or of execute_stream() ends.

Leads(a, to) ==
    /\ Goto(a, to)
    /\ UNCHANGED <<rec, req, tries, got, result, forgot>>

\* execute: the provider answered; the response is about to be stored.
RunReturns(a) ==
    /\ pc[a] = "running"
    /\ Leads(a, "saving")
    /\ ran' = ran \cup {a}
    /\ UNCHANGED <<left, lost>>

\* execute_stream: a candidate produced its first event; the generator _settle is
\* handed to the response, which has yet to start it.
PrimeReturns(a) ==
    /\ pc[a] = "priming"
    /\ Leads(a, "streaming")
    /\ ran' = ran \cup {a}
    /\ left' = [left EXCEPT ![a] = StreamBudget]
    /\ lost' = lost

\* UpstreamAmbiguous: mark_ambiguous.  Whether the provider ran it is unknown.
OpAmbiguousReleases(a) ==
    /\ pc[a] \in {"running", "priming"}
    /\ Leads(a, "releasing")
    /\ ran' \in {ran, ran \cup {a}}
    /\ UNCHANGED <<left, lost>>
OpAmbiguous(a) ==
    /\ pc[a] \in {"running", "priming"}
    /\ Leads(a, "parking")
    /\ ran' \in {ran, ran \cup {a}}
    /\ UNCHANGED <<left, lost>>

\* Any other exception of an operation the provider did not run: release.
OpUnavailable(a) ==
    /\ pc[a] \in {"running", "priming"}
    /\ Leads(a, "releasing")
    /\ UNCHANGED <<ran, left, lost>>

\* Any other exception raised after the provider ran it (no pricing rate, a
\* database error, a cancellation): the same handler, release.
OpLateError(a) ==
    /\ "late_error" \in Faults
    /\ pc[a] \in {"running", "priming"}
    /\ Leads(a, "releasing")
    /\ ran' = ran \cup {a}
    /\ lost' = TRUE
    /\ left' = left

\* _settle: the terminal event reaches the client, then complete() is awaited.
StreamEnds(a) ==
    /\ pc[a] = "streaming"
    /\ Goto(a, "saving")
    /\ got' = [got EXCEPT ![a] = a]
    /\ UNCHANGED <<rec, req, tries, left, result, ran, forgot, lost>>

\* _settle: a provider error, a disconnect or a cancellation, also while
\* complete() is awaited: mark_ambiguous, never release.
StreamBreaksReleases(a) ==
    /\ req[a].stream
    /\ \/ pc[a] = "streaming" /\ rec' = rec
       \/ pc[a] = "saving" /\ rec' \in {rec, Applied(a)}
    /\ Goto(a, "releasing")
    /\ UNCHANGED <<req, tries, left, got, result, ran, forgot, lost>>
StreamBreaks(a) ==
    /\ req[a].stream
    /\ \/ pc[a] = "streaming" /\ rec' = rec
       \/ pc[a] = "saving" /\ rec' \in {rec, Applied(a)}
    /\ Goto(a, "parking")
    /\ UNCHANGED <<req, tries, left, got, result, ran, forgot, lost>>

-----------------------------------------------------------------------------
\* The store commands that end an attempt.

\* complete(): SET EX over the claim; execute() then returns the response.
Save(a) ==
    /\ pc[a] = "saving"
    /\ rec' = Applied(a)
    /\ Finish(a, "response")
    /\ got' = [got EXCEPT ![a] = a]
    /\ UNCHANGED <<req, tries, left, ran, forgot, lost>>

\* mark_ambiguous(): SET EX over the claim; the upstream error is re-raised.
Park(a) ==
    /\ pc[a] = "parking"
    /\ rec' = Applied(a)
    /\ Finish(a, "upstream_error")
    /\ UNCHANGED <<req, tries, left, got, ran, forgot, lost>>

\* release(): DEL; the operation's error is re-raised.
Release(a) ==
    /\ pc[a] = "releasing"
    /\ rec' = Applied(a)
    /\ Finish(a, "upstream_error")
    /\ UNCHANGED <<req, tries, left, got, ran, forgot, lost>>

\* A RedisError or OSError from the command under way, which Redis may have
\* applied all the same.  reserve and complete raise StoreUnavailable (inside
\* _settle that is one more exception: mark_ambiguous); the other two swallow it.
StoreFails(a) ==
    /\ "redis" \in Faults
    /\ pc[a] \in {"claiming", "reading", "saving", "parking", "releasing"}
    /\ rec' \in {rec, Applied(a)}
    /\ IF pc[a] \in {"parking", "releasing"} THEN Finish(a, "upstream_error")
       ELSE IF pc[a] = "saving" /\ req[a].stream
            THEN Goto(a, "parking") /\ result' = result
       ELSE Finish(a, "store_unavailable")
    /\ lost' = (lost \/ pc[a] = "parking" \/ (pc[a] = "saving" /\ ~req[a].stream))
    /\ UNCHANGED <<req, tries, left, got, ran, forgot>>

\* The attempt goes no further; a command under way may have been applied, an
\* operation under way may have been executed.
Gone(a) ==
    /\ pc[a] \notin {"done", "crashed"}
    /\ Goto(a, "crashed")
    /\ rec' \in {rec, Applied(a)}
    /\ ran' \in IF pc[a] \in {"running", "priming"} THEN {ran, ran \cup {a}} ELSE {ran}
    /\ lost' = (lost \/ pc[a] \in Owning \ {"releasing"})
    /\ UNCHANGED <<req, tries, left, got, result, forgot>>

\* The process dies.
Crash(a) == "crash" \in Faults /\ Gone(a)

\* The client of a stream disconnects and the response is cancelled, either
\* before _settle was started, so that its handler never runs, or again while the
\* handler awaits mark_ambiguous: nobody settles the claim.
CutShort(a) ==
    /\ "disconnect" \in Faults
    /\ req[a].stream
    /\ pc[a] \in {"streaming", "parking"}
    /\ Gone(a)

-----------------------------------------------------------------------------
AgedForever(r) ==
    IF r.status = "absent" THEN r
    ELSE [status |-> r.status, by |-> r.by, ttl |-> r.ttl - 1]
AgedOnlyTerminal(r) ==
    IF r.status \notin Terminal THEN r
    ELSE IF r.ttl = 1 THEN Absent
    ELSE [status |-> r.status, by |-> r.by, ttl |-> r.ttl - 1]
Aged(r) ==
    IF r.status = "absent" THEN r
    ELSE IF r.ttl = 1 THEN Absent
    ELSE [status |-> r.status, by |-> r.by, ttl |-> r.ttl - 1]

\* Time passes for Redis and for every owner; no owner outstays its budget.  (The
\* time of an attempt that is over means nothing: it is set to 0.)
Tick ==
    /\ rec.status # "absent"
    /\ \A a \in Attempts : pc[a] \in Owning => left[a] > 0
    /\ rec' = Aged(rec)
    /\ left' = [a \in Attempts |-> IF pc[a] \in Owning THEN left[a] - 1 ELSE 0]
    /\ forgot' = (forgot \/ (rec.status \in Terminal /\ rec.ttl = 1))
    /\ UNCHANGED <<req, pc, tries, got, result, ran, lost>>

Works(a) ==
    \/ SetNX(a) \/ Get(a)
    \/ RunReturns(a) \/ PrimeReturns(a) \/ OpAmbiguous(a) \/ OpUnavailable(a)
    \/ StreamEnds(a) \/ StreamBreaks(a)
    \/ Save(a) \/ Park(a) \/ Release(a)

Step(a) == Works(a) \/ OpLateError(a) \/ StoreFails(a) \/ Crash(a) \/ CutShort(a)

Next == Tick \/ \E a \in Attempts : Step(a)

Spec == Init /\ [][Next]_vars

-----------------------------------------------------------------------------
\* The bound on durations under which the claim cannot expire under its owner.
ClaimOutlivesOwner == OpBudget + StreamBudget < InflightTTL

Owns(a) == pc[a] \in Owning

\* Whoever is executing the request, or has yet to record its outcome, is the
\* writer of the live record and alone, whatever crashed or failed before: no
\* claim is shared, and no late complete, mark_ambiguous or release can hit
\* another attempt's record.
ExclusiveOwner ==
    \A a \in Attempts : Owns(a) => rec.by = a /\ rec.ttl > left[a]

\* IdempotencyService "runs at most once per (api_key, idempotency key)": while
\* no terminal record has been dropped by retention, the provider has executed
\* the operation of at most one attempt.
AtMostOnce == ~forgot => \A a, b \in ran : a = b

\* What the service does achieve under every fault: a second execution of a key
\* happens only after the first one's outcome was kept off the record, by an
\* exception raised after the provider had run, by a store command that failed
\* while it was being settled, by the death of its owner or by the cancellation of
\* its stream; or after retention.
RerunsExplained == ~lost => AtMostOnce

\* A client is only ever given the response of an operation that really ran,
\* for the same request body as its own.
ReplayIsFaithful ==
    \A a \in Attempts :
        got[a] # NoAttempt => got[a] \in ran /\ req[got[a]].fp = req[a].fp

(***************************************************************************)
(* The inductive invariant.  An owner's time must fit in what is left of   *)
(* the record's life, with the whole of a stream still ahead while it is   *)
(* being primed; and the record is a claim until its owner has settled it. *)
(***************************************************************************)
Need(a) == IF pc[a] = "priming" THEN left[a] + StreamBudget ELSE left[a]

RecordConsistent ==
    IF rec.status = "absent" THEN rec = Absent
    ELSE rec.by \in Attempts /\ rec.ttl > 0

OwnersCovered ==
    \A a \in Attempts : Owns(a) =>
        /\ rec.by = a
        /\ rec.ttl > Need(a) /\ Need(a) < InflightTTL
        /\ pc[a] # "parking" => rec.status = "in_progress"
        /\ rec.status # "absent"

Inv == TypeOK /\ RecordConsistent /\ OwnersCovered

\* What links the response a client is given to the operation that produced it.
ResponsesReal ==
    /\ rec.status = "completed" => rec.by \in ran
    /\ \A a \in Attempts : pc[a] \in {"streaming", "saving"} => a \in ran

\* Until an outcome is lost, the one execution is either still owned or on record.
OnRecord(a) == rec.by = a /\ (Owns(a) \/ rec.status \in Terminal)
ExecutionsOnRecord ==
    ~lost =>
      /\ ~forgot => \A a \in ran : OnRecord(a)
      /\ \A a \in Attempts :
            pc[a] \in {"claiming", "reading", "running", "priming", "releasing"} => a \notin ran

\* Once settled, a key stays settled: a terminal record is replaced only by
\* its own writer or dropped when its retention ends, and is never claimed.
SettledIsStable ==
    [][rec.status \in Terminal /\ <<rec'.status, rec'.by>> # <<rec.status, rec.by>> =>
         \/ rec.ttl = 1 /\ rec' = Absent
         \/ rec'.status \in Terminal /\ rec'.by = rec.by]_vars

\* No key is blocked for good: a claim ends, by its owner or, when the owner
\* died or could not reach Redis, by its TTL.
ClaimsEnd == rec.status = "in_progress" ~> rec.status # "in_progress"

=============================================================================
