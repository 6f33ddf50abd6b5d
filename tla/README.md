# Relayix: a TLA+ model of the gateway

Relayix is an HTTP gateway in front of several LLM providers. A client authenticates
with an API key that has a rate limit and asks for a routing *tier*; the gateway ranks
the (provider, model) candidates of the tier, tries them in order behind one circuit
breaker per provider, bills what was executed, and, when the client sends an
`Idempotency-Key`, promises to execute the request once. This directory models that
path from authentication to the end of the database transaction, model-checks it on
small instances with TLC and proves its central properties for every instance with
TLAPS.

All paths below are relative to `src/app/` unless they start with `docs/` or `tests/`.

## 1. Inventory

| Component | State | Operations | Hard behaviour |
|---|---|---|---|
| Circuit breaker (`core/resilience/circuit_breaker.py`) | state, failures, opened_at, trial flag, generation | `allow`, `record_success`, `record_failure`, `record_abort` | outcomes of calls admitted before the last transition; exactly one trial |
| Resilient adapter (`core/resilience/resilient_adapter.py`) | the breaker; per call: generation, emitted_any | `complete`, `stream` | timeouts, cancellation, generators abandoned between two events |
| Provider adapters (`core/adapters/*_adapter.py`) | none | `complete`, `stream` | classifying SDK errors into *did not run* and *may have run* |
| Registry (`core/adapters/registry.py`) | adapter per configured provider | `get`, `build_registry` | unconfigured candidates |
| Router (`core/routing/`) | catalog, model metadata, strategies | `candidates_for`, `validate_registry` | pure; its order meets breakers that other requests change |
| Gateway service (`services/gateway_service.py`) | per request: candidate, ambiguous_error | `complete`, `stream`, `_drain` | failover after an unknown outcome; commitment to a stream; billing in a generator |
| Idempotency service and store (`services/idempotency_service.py`, `infra/idempotency/redis_store.py`) | one Redis record per (api key, key), with a TTL | `execute`, `execute_stream`, `_settle`; `reserve`, `complete`, `mark_ambiguous`, `release` | expiry between any two commands, lost replies, crashes, unconditional writes |
| Rate limiting (`core/ratelimit/`, `infra/ratelimit/`) | a bucket in Redis, one in memory and a breaker per process | `check` | clocks of several processes, scripts delayed or run after their caller gave up, fallback, cancelled checks |
| Chat endpoint and dependencies (`api/v1/chat.py`, `api/deps.py`) | none | authenticate, limit, handle | their order around one database session |
| Database session (`infra/database/session.py`) | transaction, pooled connection | commit, rollback | commits after the response has been sent; a pool at its limit |
| API keys (`services/api_key_service.py`, `repositories/api_key_repo.py`) | rows | create, revoke, look up | a revocation is answered before it is committed |
| Usage recording, pricing (`core/accounting/`, `repositories/`) | usage rows, rate history, the rates a process has loaded | `record`, `cost_for`, `save` | fails after the provider has executed; rates that take effect while a process runs; rounding |
| Usage reporting (`services/usage_service.py`, `api/v1/usage.py`) | none | summary, by model, list | pages over rows that are committed meanwhile |
| Token counters, health, logging, tracing, configuration, migrations | none | | |

The dependencies of the HTTP handler (`api/v1/chat.py`) authenticate the caller and
check its rate limit, both before the handler runs. The handler calls
`IdempotencyService.execute[_stream]` when a key is present, with a `GatewayService` call
as the operation, and the gateway service directly otherwise. The gateway calls the
router, the registry, the `ResilientAdapter` of the candidate, and the usage recorder,
which writes into the request's session. Everything runs on one event loop per process;
processes share Redis and PostgreSQL, and Redis and PostgreSQL share no transaction.

What makes each part correct is stated by the properties of the runs in section 3; the
places where it could go wrong are the `hazards` of `PROJECT.json`, each at its line.

## 2. Modules

| Module | Models |
|---|---|
| `CircuitBreaker` | the breaker as a record, its methods as operators |
| `CircuitGate` | abstract specification of a breaker: a phase and the set of callers whose outcome counts |
| `ResilientAdapter` | concurrent callers of one provider through its breaker |
| `Gateway` | routing, and concurrent requests failing over between providers, with all their breakers |
| `Idempotency` | concurrent requests that carry one idempotency key, and its Redis record |
| `Pipeline` | the same requests from authentication to commit, the connection pool, and the life of their API key |
| `RateLimiter` | one API key's requests on several processes, the Redis bucket, the in-memory buckets and the breakers |
| `Accounting` | pricing, usage rows and reports of one API key |
| `MC*` | instances for TLC |
| `CircuitBreakerProofs`, `ResilientAdapterProofs`, `IdempotencyProofs`, `RateLimiterProofs`, `GatewayProofs`, `PipelineProofs`, `AccountingProofs` | theorems and proofs about those modules |
| `FiniteOrders` | lemmas about finite sets that several proofs need: ranks in a total order, least elements, sums |

`ResilientAdapter`, `Gateway` and `RateLimiter` extend `CircuitBreaker`, as the code
uses one class in all three places. `Pipeline` extends `Idempotency` and takes its
actions whole, adding what each does to the session. `ResilientAdapter` instantiates
`CircuitGate` with `phase <- breaker.state`, `voters` the suspended callers whose
generation is current, `strikes <- breaker.failures`, `wait <- breaker.cool`.

**Granularity.** asyncio runs a coroutine from one suspension to the next without
interruption, so an action is exactly such a stretch of code. The breaker's methods
take an `asyncio.Lock` but never await while they hold it; the lock is never
contended and each method is one atomic step. A `yield` of an async generator is a
suspension too: the consumer may take its time, close the generator or drop it.

**History variables** say what the code cannot see or does not keep. They never guard an
action; they let a property say exactly which fault excuses what. `leaked`
(`ResilientAdapter`, `Gateway`, `RateLimiter`): a call took the half-open trial slot
with it. `stopped` (`Gateway`): a stream ended without its terminal event. `lost` and
`forgot` (`Idempotency`): a fault kept an outcome off the record, retention dropped one.
`mishap`, `told` (`Pipeline`), `rewound`, `granted`, `served` (`RateLimiter`) and the
`fair` prices of a row (`Accounting`) are of the same kind.

**ResilientAdapter.** `pc` is the suspension point of each caller: `completing`,
`pulling` (awaiting the inner adapter), `at_delta` and `at_last` (parked at a
`yield`). A call either returns, times out, raises, is cancelled, is closed by its
consumer, stops without a terminal event or, if its consumer is
`GatewayService._drain` (`Drainers`), is dropped at the terminal event and closed by the
interpreter. `_opened_at` is kept as the cooldown still to run.

**Gateway.** `Ranked` is what `candidates_for` returns: the tier's catalog entries under
the stable sort of its strategy (cost, reasoning, latency, or provider priority). `at` is
the index of the candidate being tried. Skipping candidates that are not registered or
whose circuit is open, and sending the request to the next one, need no suspension: they
are the operator `TryFrom`, part of the step in which the previous candidate's outcome
arrives. `ran` is the set of candidates whose provider executed the request. The
adapters' classification is taken at its word: `UpstreamUnavailable` means not executed,
any other error leaves it open. That includes the one case where the word is doubtful: a
connection that breaks after the provider's HTTP 200 and before any content is classified
as unavailable too, and what the provider did by then no code can see. `_drain`'s abandoned generator is finalized by the event
loop some time later (`Finalized`). The registered providers, the catalog and the request
(`tier`, `failover_policy`, `stream`) are inputs.

**Idempotency.** One key. `rec` is the Redis value with its remaining TTL and, as a
history variable, the attempt that wrote it (its fingerprint is that attempt's).
`pc` is the await an attempt is suspended at: a Redis command (`claiming`,
`reading`, `saving`, `parking`, `releasing`) or the operation (`running`, `priming`,
`streaming`). A Redis command that fails may have been applied (`StoreFails`), and a
process may die anywhere (`Crash`). A client that disconnects cancels its stream, which
`_settle` handles (`StreamBreaks`), except in two places: before the generator is iterated
for the first time, when its `try` has not been entered, and again while its handler awaits
`mark_ambiguous`. There nobody settles the claim (`CutShort`). `ran` records which attempts the provider
executed, which the code cannot see. Durations are `OpBudget` and `StreamBudget`: an
owner finishes its stage within its budget, and `Tick` cannot pass beyond it.

**Pipeline.** `stage` is how far a request has come through the dependencies. Its
connection is taken by the SELECT that authenticates it and given back when
`get_session` exits; `PoolSize` counts chat requests and admin requests alike. `row` is
the usage record, flushed by the operation (`Flushes`), committed or rolled back when
the dependency exits, which is after the response. A process that dies loses the
transaction and keeps whatever Redis has. A cancellation reaches a stream that is awaiting
something itself; one that is suspended at a `yield` of `_settle`, between two events or
after the terminal one, is left there (`Abandoned`): `get_session` exits first, with a
commit or a rollback, and the event loop closes the generator later (`Finalizes`), which
parks the key, bills nothing and may itself fail (`FinalizationFails`). That late ending
counts towards `StreamBudget`. The rate limiter appears as its two answers.

**RateLimiter.** One key. `check()` suspends once, while the Lua script is under way.
The script works with the wall clock its caller read before it was sent (`stamp`), runs
within `MaxDelay` or never, and may run after its caller has fallen back to the in-memory
bucket. Tokens are integers, `TokenUnits` to a token. The two buckets' arithmetic
(`Refilled`, `RetryAfter`) is the code's with exact numbers in place of floats.

**Accounting.** Rates are published in the database, loaded by a process when it starts
(`Start`) and looked up by (provider, model) pair and date (`Latest`). The date, and the
`created_at` of the row, are the wall clock of the process (`Clock`); clocks differ by up
to `MaxSkew`. (The code reads the clock once for each, with no suspension in between;
here both are one reading.) A cost is priced and rounded to the column's scale (`Stored`)
when its row is flushed, and seen by reports once committed. A report is a function of
the committed rows (`Window`, `Total`, `ByModel`); `ReadPage` is a client's call of the
list endpoint. Prompt and completion prices are one price.

Definitions whose name describes a mistake (`SettlesWithoutReturning`,
`FlushesAfterwards`) stand before the definition they vary and are used nowhere: they
are the mutants of `PROJECT.json`, each of which must break the property it is listed
with.

## 3. Runs

| Run | Instance | Checks | Result |
|---|---|---|---|
| `adapter` | 2 callers, one of them `_drain` | `TypeOK`, `AtMostOneTrial`, `NoLeakedSlot`, `TripsAreEarned`, `EmittedIsFinal`, `OpenRunsItsCooldown`, `ImplementsGate`, `Heals` | hold |
| `adapter_drained` | both callers are `_drain` | `Heals` | **violated** |
| `idempotency` | 3 requests, 2 bodies; crashes, disconnects, Redis failures, late errors | `TypeOK`, `ExclusiveOwner`, `RerunsExplained`, `ReplayIsFaithful`, `SettledIsStable` | hold |
| `idempotency_long_stream` | a stream longer than the in-flight TTL | `AtMostOnce` | **violated** |
| `idempotency_late_error` | an error after the provider answered | `AtMostOnce` | **violated** |
| `gateway` | 2 requests, 3 ranked candidates, one not configured, one unknown tier, all faults | `TypeOK`, `AtMostOneExecution`, `UnavailableNeverRan`, `BilledOnce`, `TrialsAreHeld`, `BestFirst`, `CommitIsFinal`, `EveryRequestEnds` | hold |
| `gateway_record` | the recorder fails | `StreamFailsOnlyInterrupted` | **violated** |
| `limiter` | 3 callers on 2 processes, clocks a tick apart, Redis failures, cancellation | `TypeOK`, `SharedBucketBound`, `FallbackBound`, `TrialsComeBack`, `RetryAfterSuffices` | hold |
| `limiter_clocks` | 2 callers on 2 processes, clocks a tick apart, no faults | `GloballyEnforced` | **violated** |
| `pipeline` | 2 requests with one key, a pool of 2, all faults, failing commits, streams closed after their session | `PipelineTypeOK`, `ResponsesAreBilled`, `KeyBilledOnce`, `UnpaidIsUnknown`, `ClaimsEnd`, `EveryRequestCloses` | hold |
| `pipeline_revoke` | one request next to a revocation, no faults | `RevokedIsRefused` | **violated** |
| `accounting` | 3 requests on 2 processes with clocks a tick apart, 2 models, a price that goes up, restarts | `TypeOK`, `ChargedInEffect`, `TotalsWithinRounding`, `PagesMissNothing` | hold |

Some of these need a word:

- `AtMostOnce` cannot hold under faults: a lost `mark_ambiguous` lets the key expire and
  be executed again, and the code says so (`redis_store.py:109` and the message at 128).
  `RerunsExplained` is what does hold under all of them: a second execution has an
  outcome that was kept off the record, or outlived its retention, behind it.
- `SharedBucketBound` is the limit that the Redis bucket does enforce when clocks differ:
  the documented one, plus the refill of all the time by which `ts` has been moved back.
- `ResponsesAreBilled` says that a response handed out, or replayed to a later request,
  is paid for, with exactly the requests excused that a crash, a failed commit or a
  failed save of the response has hit.
- `UnpaidIsUnknown` is its counterpart for what is not paid for: an execution that nobody
  is charged for (a client that left, a stream rolled back) is on record as ambiguous once
  the request and its stream are over, in whichever order the session exits and the event
  loop closes the stream, so that a retry is told and not served.
- `ChargedInEffect` allows a price that was in effect at some moment within `MaxSkew` of
  the recording: around a price change, processes with different clocks charge
  differently. Usage may also be dated into a period that has been reported on already,
  by a clock that is behind or a late commit; the code promises nothing else and no
  property claims it.
- `BestFirst` states the router's promise where it matters, at the moment a request is
  sent: no strictly better candidate was left that could have been used just then.

### Where documents and code disagree

1. **Streamed success is never recorded** (`adapter_drained`). `ResilientAdapter.stream`
   calls `record_success` on the line after it yields the terminal event
   (`resilient_adapter.py:95-96`), which runs only when the consumer asks for one more
   event. `_drain` returns at that event, the generator is closed by the interpreter, and
   the call counts as aborted. Streamed calls alone never close a half-open circuit, nor
   reset the failures of a closed one; `docs/core/resilience.md:19` says success closes it.
2. **A long stream loses its claim** (`idempotency_long_stream`). The claim's TTL is
   120 s and not renewed, a stream is bounded only per event (40 s); a retry after
   expiry is executed, against `idempotency_service.py:58`.
3. **An error after execution releases the key** (`idempotency_late_error`), against
   `tests/integration/test_idempotency_service.py:151`.
4. **The returned stream fails with more than `UpstreamStreamInterrupted`**
   (`gateway_record`), against `gateway_service.py:128-129`.
5. **Clocks that differ multiply the rate** (`limiter_clocks`). The script stores its
   caller's wall clock as the bucket's `ts` even when that moves it back
   (`redis_limiter.py:43`); processes with clocks `d` apart taking turns are refilled for
   `d` again and again. `infra/config.py:63-64` says the limit is enforced globally.
6. **A revoked key works until the commit** (`pipeline_revoke`). The session commits after
   the response (`session.py:49`), so a client that has been told its key is revoked can
   still be authenticated with it, against `tests/flow/test_api_keys.py:88-102`.

### Bounds

- `adapter`: two callers give a straggler of an old generation next to a trial; the fault
  and abort budgets (4 and 1) allow a trip at threshold 2, a failed trial and a second
  trial. Safety for more callers is proved.
- `idempotency`: three attempts are an owner, an attempt between its `SET NX` and `GET`,
  and one that claims in between. `InflightTTL = 3` exceeds `OpBudget + StreamBudget = 2`
  by the one tick the proofs need; in `idempotency_long_stream` it does not. TTLs are in
  ticks; what matters is their order. `ReserveTries` is 2 where the code has 3: one
  retry and one exhaustion.
- `gateway`: two requests, so that one trips or tries a circuit the other is using, and
  two faults, so that either can fail at both of its configured candidates or each once. With
  `FailThreshold = 1` one request can trip the circuit and the other be its trial;
  counting failures up to a higher threshold is covered by `adapter`. The catalog is
  listed in another order than the strategy ranks it in.
- `limiter`: `rpm` 1 and a bucket of one token, which is three units; a tick brings two,
  so that `Retry-After` has something to round up, and a bucket is kept for four ticks.
  (In `limiter_clocks` a token is two units and a tick brings one.) Two callers in one process make a straggler and a trial of
  one breaker; the third is in the process whose clock is ahead. Four checks in four
  ticks suffice for an expired bucket, an overtaken script and a trial after the cooldown.
- `pipeline`: two requests are an execution and its retry or replay; a pool of two is
  exhausted by one of them, or both, and an admin request. Streams end in the tick they
  begin (`StreamBudget = 0`); their interleavings are not affected, their TTLs are
  `idempotency`'s question. One reserve try and one body for the same reason.
- `accounting`: with three rows and pages of one, some are committed between two pages
  while others wait to be listed. Two processes a tick apart put a rate change between
  their clocks as well as between two ticks, and date rows in another order than they are
  recorded in; `Cent = 4` makes both ways of rounding happen, ties included. Two pairs
  with one model name and different providers are told apart.

Deadlock checking is off where all requests can be finished; it is on for the adapter,
whose callers can always call again. Symmetry is used only in runs without liveness.

### Fairness

- `ResilientAdapter!FairSpec`: the clock advances, callers keep arriving, the provider
  answers calls it does not fail (failures are bounded by `MaxFaults`), a stream that
  keeps producing events reaches its end (strong fairness of `PullsTerminal`: `max_tokens`
  bounds it), consumers keep reading, and abandoned generators are finalized.
- `Gateway!FairSpec`: a request that can go on does, and a stream reaches its last event.
  The clock need not advance: no request waits for a breaker.
- `Pipeline!PipelineFairSpec`: the clock advances and a request that can go on does:
  every await is on a provider call, a Redis command or a database statement with a
  timeout, and the event loop closes the generators left to it. Crashes, disconnects, store failures and failed commits are not fair, so `ClaimsEnd` (an
  owner's claim always ends, a dead owner's by expiry) and `EveryRequestCloses` hold
  with and without them. `ClaimsEnd` is a property of `Idempotency`.

## 4. Proofs

Every safety property that a passing run checks, invariant or action property, is also
proved, for every value of the constants that satisfies the assumptions of its module.
The inductive invariants were first checked by TLC on the instances of section 3.

For any set of callers, any `FailThreshold > 0`, any `ResetTimeout`, and any budgets
(`ResilientAdapterProofs`, on the breaker's lemmas in `CircuitBreakerProofs`):

- `Invariance`: `Spec => []Inv`. `AtMostOneTrial` is not inductive alone: an old
  generation must never become current again (`GenerationsPast`: every caller's
  generation is at most the breaker's, and every transition increments it), and the
  flag, the state and the cooldown must agree (`BreakerConsistent`).
- `TypeCorrect`, `SingleTrial`, `EarnedTrips`, `SlotNeverLeaks`, `CooldownIsServed` follow
  from it; `EmittedEndsTheCall` has an induction of its own.
- `Refinement`: `Spec => ImplementsGate`, that is `Gate!Spec`. An admission maps to
  `Admit`, an outcome of the current generation to `Succeed` or `Fail`, a call that hands
  its slot back, or a stream that stops without a terminal event, to `Withdraw`, and an
  outcome of an older generation to a stutter.

For any set of attempts and bodies and any TTLs (`IdempotencyProofs`):

- `TypeCorrect` and `Faithful` need no assumption: no response is handed out that was not
  produced for the same body, whatever expires, crashes or is lost.
- `Ownership`: under `ClaimOutlivesOwner` (`OpBudget + StreamBudget < InflightTTL`) the
  time an owner may still need is less than what its record has left; while a stream is
  being primed its whole streaming time must be counted too (`Need`). `Exclusive` and
  `Settled` follow, under every fault.
- `RunsAtMostOnce` adds the invariant `ExecutionsOnRecord`: an execution is still owned or
  on record until a fault keeps it off or retention drops it. It proves
  `RerunsExplained` under every fault; `FaultFreeAtMostOnce` is `AtMostOnce` from it
  when `Faults = {}`.

For any number of processes and callers, any clocks within `MaxSkew` and any delays within
`MaxDelay` (`RateLimiterProofs`), assuming that the key's TTL covers a full refill
(`TTLCoversRefill`):

- `LimiterTypeCorrect`, `SharedBucketIsBounded`, `FallbackIsBounded`. The bounds are not
  inductive: a grant must be paid for by what is in the bucket or by the distance `ts` has
  covered (`Credit`, `LocalCredit`), a script that runs must be recent (`StampsAreRecent`),
  and a bucket that has expired must be old enough to be full (`BucketAge`), or its
  replacement by a full one would be a gift.
- `TrialSlotsComeBack`: every slot of a limiter's breaker has its check under way, unless
  a cancelled one took it.
- `RetryAfterIsEnough`: `RetryAfterSuffices`, for a positive limit (`LimitIsPositive`;
  `rate_limit_rpm` is validated as such, `models/domain/api_key.py:36`, and with no
  capacity for a token no wait would help). The invariant is `PromisesHold`: by the time
  a bucket's last denial announced, it will hold a token, counting from `ts`, however
  `ts` has moved.

- `RewindsAreSmall`: one script moves `ts` back by at most `MaxSkew + MaxDelay`, which with
  `SharedBucketBound` says what a disagreement of clocks can cost. `EnforcedWithOneClock`:
  when both are 0 nothing is ever moved back, and the documented limit
  (`GloballyEnforced`, violated in `limiter_clocks`) does hold, under every fault.

For any set of requests, any catalog, strategies, model metadata and registered providers
(`GatewayProofs`; costs and scores are integers, `MetadataAssumption`):

- `RankIsStableSort`: `Ranked` is a permutation of the catalog's entries, in the order of
  the strategy's key and, among equals, of the catalog. The proof counts how many entries
  go ahead of each (`RanksAreTaken` in `FiniteOrders`), since the sort itself is defined
  by those counts.
- `Invariance`: `Spec => []Inv`. `AtMostOneExecution` alone says nothing of a request that
  is still failing over; `Consistent` adds that while candidates are being tried nothing
  is billed, that no provider has executed the request unless an outcome was ambiguous (or
  a stream stopped without its terminal event), that under `AT_MOST_ONCE` nothing is tried
  after an ambiguous outcome, and that a candidate which has answered has executed it.
  It is local to a request, so that a step of one never disturbs another.
- From it `TypeCorrectness`, `NoDoubleSpend`, `CleanFailure`, `BilledExactlyOnce`, and the
  action properties `NoFailoverAfterFirstEvent` and `BestCandidateFirst`; the latter rests
  on what `TryFrom` returns (the first usable candidate of those left, with the circuits
  as they are then).
- `TrialSlotsAreHeld` has an induction of its own, as the slots are what requests do share.

For any set of requests with one key, any pool size and any faults (`PipelineProofs`):

- `PipelineImplementsService`: `PipelineSpec => Spec` of `Idempotency`. Everything proved
  of the service thereby holds of the whole path; `PipelineExclusive` states it.
- `PipelineInvariance`: whoever wrote a response that is on record, or that someone has
  been given, has its usage record committed, is going to commit it, or has been hit by a
  mishap (`Paid`); a request owns the claim only while it is handled, or as a stream that
  the session left over, and has a usage record only if it was executed
  (`SessionConsistent`). No timing is assumed: a claim that
  expires under its owner does not break it.
- `PipelineTypeCorrect` and `ResponsesBilled` follow. `OneKeyOneCharge` (`KeyBilledOnce`)
  needs `RunsAtMostOnce` of the service and with it `ClaimOutlivesOwner`. `UnpaidUnknown`
  (`UnpaidIsUnknown`) needs the invariant behind it, that an execution is owned or on
  record (`ExecutionsRecorded`): once it is owned no more, its record is either completed,
  and then `Paid` says it is charged for, or ambiguous.

For any finite set of requests, any rates, page size and scale of the cost column, and any
processes with clocks within `MaxSkew` (`AccountingProofs`):

- `Invariance`, and from it `TypeCorrectness`, `ChargedTheRateInEffect` (a process has
  loaded only what is published, and `Latest` picks among the loaded what is in effect by
  a clock that shows `now` or up to `MaxSkew` more, `ClockShows`) and `PagingIsComplete`.
  For the last one the invariant is that a row which the client has still to see is preceded by at least as
  many newer rows as the client is going to skip; commits only add to those.
- `TotalsStayWithinRounding`: `RowsWithinRounding` bounds the error of one row, and
  `SumsStayClose` (`FiniteOrders`) adds it up. The library's induction theorems cannot be
  used here; `SumExists` and `SumsStayClose` take a smallest set for which they would
  fail (`LeastOfInterval`) instead.

Only model-checked: liveness (`Heals`, `ClaimsEnd`, `EveryRequestEnds`,
`EveryRequestCloses`), which is outside the prover's reach, and the six disagreements of
section 3, which are counterexamples.

## 5. Not modelled

- Message and finish-reason translation of the provider adapters, request and response
  schemas, SSE framing, logging and tracing: formatting.
- Fingerprint and key hashing (bodies and keys are compared directly; `failover_policy`
  and `stream` are not part of the fingerprint in the code either, and the model lets
  `stream` differ between requests of one body), the admin token, the validation of key
  names and limits: single-step checks without state.
- Token counters: stateless calls to tokenizer libraries that no request path uses.
- Health endpoint, configuration, start-up wiring, migrations and deployment. What
  `main.py` builds at start-up is the initial state of the modules; `session.startup`
  and `shutdown` are called by nobody.
- Clocks that jump: those of processes differ by a constant amount, in `RateLimiter` and in
  `Accounting`.
- Floating-point error of the token buckets, whose arithmetic is exact in the model.

## 6. Plan

1. *(done)* `CircuitBreaker`, `CircuitGate`, `ResilientAdapter`, their proofs.
2. *(done)* `Idempotency` and its proofs.
3. *(done)* `Gateway`: routing, failover, commitment, billing.
4. *(done)* `RateLimiter` and its proofs.
5. *(done)* `Pipeline`: dependencies, idempotency, usage record, transaction, pool and API
   keys composed.
6. *(done)* `Accounting`: pricing, recording, reports.
7. *(done)* Proofs about `Gateway`, `Pipeline` and `Accounting`, and of
   `RetryAfterSuffices`.
8. To be proved: that the breakers of `Gateway` and of `RateLimiter` implement
   `CircuitGate`, as the adapter's does.
