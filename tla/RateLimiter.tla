----------------------------- MODULE RateLimiter -----------------------------
(***************************************************************************)
(* app/core/ratelimit and app/infra/ratelimit: the requests of ONE api key *)
(* on several worker processes.  Each process has a ResilientRateLimiter:  *)
(* the token bucket in Redis, shared by all of them, behind the process's  *)
(* own circuit breaker, and an in-memory bucket to fall back on.           *)
(*                                                                         *)
(* check() suspends once, while the Lua script is under way.  The script   *)
(* works with the wall clock its caller read before it was sent, and not   *)
(* with Redis's: clocks differ between processes, scripts are overtaken on *)
(* their way, and one whose caller has given up may still run.             *)
(*                                                                         *)
(* Tokens are counted in units, TokenUnits to the token, and time in ticks *)
(* of the real clock, in each of which a bucket gains Refill units.        *)
(***************************************************************************)
EXTENDS CircuitBreaker, Integers

CONSTANTS
    Processes,
    Callers,     \* coroutines in which a check() runs
    At,          \* the process each of them is in
    Skew,        \* how far each process's wall clock is ahead of real time
    MaxSkew,
    MaxDelay,    \* a script that reaches Redis does so within this time
    TokenUnits,
    Refill,      \* units per tick: rpm / 60 tokens per second
    Capacity,    \* units: rpm tokens
    BucketTTL,   \* ttl_s
    Faults,      \* which of "redis", "cancel" can happen
    MaxChecks,   \* bound: calls of check()
    MaxTime      \* bound: ticks

ASSUME ProcessAssumption == At \in [Callers -> Processes]
ASSUME ClockAssumption ==
    MaxSkew \in Nat /\ MaxDelay \in Nat /\ Skew \in [Processes -> 0..MaxSkew]
ASSUME BucketAssumption ==
    /\ TokenUnits \in Nat \ {0} /\ Refill \in Nat \ {0}
    /\ Capacity \in Nat /\ BucketTTL \in Nat \ {0}
\* "a bucket fully refills in 60s, keep it around a bit longer".
ASSUME TTLCoversRefill == Refill * (BucketTTL - MaxSkew - MaxDelay) >= Capacity
ASSUME LimiterFaultsAssumption == Faults \subseteq {"redis", "cancel"}
ASSUME BoundsAssumption == MaxChecks \in Nat /\ MaxTime \in Nat

VARIABLES
    now,      \* real time
    redis,    \* the shared bucket; once ttl is 0 the key has expired
    local,    \* the in-memory bucket of each process
    breaker,  \* the breaker of each process
    pc,       \* "idle", or "calling" while the script is awaited
    gen,      \* the generation the call was admitted under
    stamp,    \* ARGV[3]: the wall clock when the script was sent
    script,   \* the script: not under way, sent, or run with its verdict
    checks,   \* check() calls so far
    granted,  \* history: tokens the Redis bucket has given out
    served,   \* history: tokens each process's own bucket has given out
    rewound,  \* history: by how much `ts` has been moved back in all
    leaked    \* history: processes where a cancelled call took the trial slot along

vars == <<now, redis, local, breaker, pc, gen, stamp, script, checks,
          granted, served, rewound, leaked>>

\* due: history, the stamp from which the last denial promised a token (0: none).
Bucket == [tokens: 0..Capacity, ts: Nat, ttl: 0..BucketTTL, due: Nat]
LocalBucket == [tokens: 0..Capacity, last_refill: Nat, due: Nat]

TypeOK ==
    /\ now \in Nat
    /\ redis \in Bucket
    /\ local \in [Processes -> LocalBucket]
    /\ breaker \in [Processes -> Breaker]
    /\ pc \in [Callers -> {"idle", "calling"}]
    /\ gen \in [Callers -> Nat]
    /\ stamp \in [Callers -> Nat]
    /\ script \in [Callers -> {"none", "sent", "granted", "denied"}]
    /\ checks \in 0..MaxChecks
    /\ granted \in Nat
    /\ served \in [Processes -> Nat]
    /\ rewound \in Nat
    /\ leaked \in SUBSET Processes

\* A caller without a bucket starts with a full one, in Redis and in memory.
Init ==
    /\ now = 0
    /\ redis = [tokens |-> Capacity, ts |-> 0, ttl |-> 0, due |-> 0]
    /\ local = [p \in Processes |-> [tokens |-> Capacity, last_refill |-> 0, due |-> 0]]
    /\ breaker = [p \in Processes |-> NewBreaker]
    /\ pc = [c \in Callers |-> "idle"]
    /\ gen = [c \in Callers |-> 0]
    /\ stamp = [c \in Callers |-> 0]
    /\ script = [c \in Callers |-> "none"]
    /\ checks = 0
    /\ granted = 0
    /\ served = [p \in Processes |-> 0]
    /\ rewound = 0
    /\ leaked = {}

-----------------------------------------------------------------------------
AtMost(a, b) == IF a <= b THEN a ELSE b
Monus(a, b) == IF a <= b THEN 0 ELSE a - b

\* A bucket with `tokens` left after `elapsed`, capped so that idle time cannot
\* bank a burst; and the ticks until it will hold a token.
RefilledUncapped(tokens, elapsed) == tokens + Refill * elapsed
Refilled(tokens, elapsed) == AtMost(Capacity, tokens + Refill * elapsed)

RetryAfter(tokens) == (TokenUnits - tokens + Refill - 1) \div Refill

\* InMemoryRateLimiter.check on process p, which never suspends.
FallbackStampsGrants(p) ==
    LET b == local[p]
        tokens == Refilled(b.tokens, now - b.last_refill)
        allowed == tokens >= TokenUnits
    IN  /\ local' = [local EXCEPT ![p] =
              [tokens |-> IF allowed THEN tokens - TokenUnits ELSE tokens,
               last_refill |-> IF allowed THEN now ELSE b.last_refill,
               due |-> IF allowed THEN 0 ELSE now + RetryAfter(tokens)]]
        /\ served' = [served EXCEPT ![p] = IF allowed THEN @ + 1 ELSE @]
Fallback(p) ==
    LET b == local[p]
        tokens == Refilled(b.tokens, now - b.last_refill)
        allowed == tokens >= TokenUnits
    IN  /\ local' = [local EXCEPT ![p] =
              [tokens |-> IF allowed THEN tokens - TokenUnits ELSE tokens,
               last_refill |-> now,
               due |-> IF allowed THEN 0 ELSE now + RetryAfter(tokens)]]
        /\ served' = [served EXCEPT ![p] = IF allowed THEN @ + 1 ELSE @]

-----------------------------------------------------------------------------
\* ResilientRateLimiter.check up to its suspension point.
Check(c) ==
    LET p == At[c] IN
    /\ pc[c] = "idle" /\ script[c] = "none"
    /\ checks < MaxChecks
    /\ checks' = checks + 1
    /\ \/ /\ Admits(breaker[p])
          /\ breaker' = [breaker EXCEPT ![p] = Allow(breaker[p])]
          /\ gen' = [gen EXCEPT ![c] = Allow(breaker[p]).gen]
          /\ stamp' = [stamp EXCEPT ![c] = now + Skew[p]]
          /\ script' = [script EXCEPT ![c] = "sent"]
          /\ pc' = [pc EXCEPT ![c] = "calling"]
          /\ UNCHANGED <<local, served>>
       \/ /\ ~Admits(breaker[p])
          /\ Fallback(p)
          /\ UNCHANGED <<breaker, gen, stamp, script, pc>>
    /\ UNCHANGED <<now, redis, granted, rewound, leaked>>

\* The Lua script, atomic in Redis, run with the wall clock s: it stores s as
\* the bucket's `ts` even when that moves it back.
ElapsedEitherWay(s) ==
    IF redis.ttl = 0 THEN 0 ELSE Monus(s, redis.ts) + Monus(redis.ts, s)
Elapsed(s) == IF redis.ttl = 0 THEN 0 ELSE Monus(s, redis.ts)
TokensAt(s) ==
    IF redis.ttl = 0 THEN Capacity ELSE Refilled(redis.tokens, Elapsed(s))

RunScriptKeepsDenied(c) ==
    LET tokens == TokensAt(stamp[c])
        allowed == tokens >= TokenUnits
    IN  /\ script[c] = "sent"
        /\ script' = [script EXCEPT ![c] = IF allowed THEN "granted" ELSE "denied"]
        /\ redis' =
              [tokens |-> IF allowed THEN tokens - TokenUnits ELSE redis.tokens,
               ts |-> stamp[c], ttl |-> BucketTTL,
               due |-> IF allowed THEN 0 ELSE stamp[c] + RetryAfter(tokens)]
        /\ granted' = IF allowed THEN granted + 1 ELSE granted
        /\ rewound' = IF redis.ttl = 0 THEN rewound
                      ELSE rewound + Monus(redis.ts, stamp[c])
        /\ stamp' = [stamp EXCEPT ![c] = 0]
        /\ UNCHANGED <<now, local, breaker, pc, gen, checks, served, leaked>>
RunScript(c) ==
    LET tokens == TokensAt(stamp[c])
        allowed == tokens >= TokenUnits
    IN  /\ script[c] = "sent"
        /\ script' = [script EXCEPT ![c] = IF allowed THEN "granted" ELSE "denied"]
        /\ redis' =
              [tokens |-> IF allowed THEN tokens - TokenUnits ELSE tokens,
               ts |-> stamp[c], ttl |-> BucketTTL,
               due |-> IF allowed THEN 0 ELSE stamp[c] + RetryAfter(tokens)]
        /\ granted' = IF allowed THEN granted + 1 ELSE granted
        /\ rewound' = IF redis.ttl = 0 THEN rewound
                      ELSE rewound + Monus(redis.ts, stamp[c])
        /\ stamp' = [stamp EXCEPT ![c] = 0]
        /\ UNCHANGED <<now, local, breaker, pc, gen, checks, served, leaked>>

\* The script never reaches Redis.
Dropped(c) ==
    /\ "redis" \in Faults
    /\ script[c] = "sent"
    /\ script' = [script EXCEPT ![c] = "none"]
    /\ stamp' = [stamp EXCEPT ![c] = 0]
    /\ UNCHANGED <<now, redis, local, breaker, pc, gen, checks,
                   granted, served, rewound, leaked>>

\* check() is over, and so are its local variables.
Returns(c) ==
    /\ pc' = [pc EXCEPT ![c] = "idle"]
    /\ gen' = [gen EXCEPT ![c] = 0]

\* The script's answer arrives.  A denial is an answer too: both are successes.
ReplyDeniedFails(c) ==
    /\ pc[c] = "calling" /\ script[c] \in {"granted", "denied"}
    /\ Returns(c)
    /\ script' = [script EXCEPT ![c] = "none"]
    /\ breaker' = IF script[c] = "denied" THEN breaker
                  ELSE [breaker EXCEPT ![At[c]] = RecordSuccess(breaker[At[c]], gen[c])]
    /\ UNCHANGED <<now, redis, local, stamp, checks, granted, served, rewound, leaked>>
Reply(c) ==
    /\ pc[c] = "calling" /\ script[c] \in {"granted", "denied"}
    /\ Returns(c)
    /\ script' = [script EXCEPT ![c] = "none"]
    /\ breaker' = [breaker EXCEPT ![At[c]] = RecordSuccess(breaker[At[c]], gen[c])]
    /\ UNCHANGED <<now, redis, local, stamp, checks, granted, served, rewound, leaked>>

\* The caller stops waiting: a script still on its way may yet run.
GivesUp(c) ==
    script' = IF script[c] = "sent" THEN script ELSE [script EXCEPT ![c] = "none"]

\* RedisError or OSError (a timeout, no connection, the pool's limit), whether or
\* not Redis has run or will still run the script: the in-memory bucket decides.
Unavailable(c) ==
    /\ "redis" \in Faults
    /\ pc[c] = "calling"
    /\ Returns(c)
    /\ breaker' = [breaker EXCEPT ![At[c]] = RecordFailure(breaker[At[c]], gen[c])]
    /\ Fallback(At[c])
    /\ GivesUp(c)
    /\ UNCHANGED <<now, redis, stamp, checks, granted, rewound, leaked>>

\* CancelledError passes check() by: the breaker is told nothing.
Cancelled(c) ==
    /\ "cancel" \in Faults
    /\ pc[c] = "calling"
    /\ Returns(c)
    /\ leaked' = IF breaker[At[c]].trial /\ gen[c] = breaker[At[c]].gen
                 THEN leaked \cup {At[c]} ELSE leaked
    /\ GivesUp(c)
    /\ UNCHANGED <<now, redis, local, breaker, stamp, checks,
                   granted, served, rewound>>

-----------------------------------------------------------------------------
\* Time passes: buckets expire, breakers cool down; no script is older than
\* MaxDelay when it reaches Redis.
Tick ==
    /\ now < MaxTime
    /\ \A c \in Callers : script[c] = "sent" => now - (stamp[c] - Skew[At[c]]) < MaxDelay
    /\ now' = now + 1
    /\ redis' = [tokens |-> redis.tokens, ts |-> redis.ts,
                 ttl |-> Monus(redis.ttl, 1), due |-> redis.due]
    /\ breaker' = [p \in Processes |->
                     IF Cooling(breaker[p]) THEN Elapse(breaker[p]) ELSE breaker[p]]
    /\ UNCHANGED <<local, pc, gen, stamp, script, checks, granted, served, rewound, leaked>>

Step(c) ==
    Check(c) \/ RunScript(c) \/ Dropped(c) \/ Reply(c) \/ Unavailable(c) \/ Cancelled(c)

Next == Tick \/ \E c \in Callers : Step(c)

Spec == Init /\ [][Next]_vars

-----------------------------------------------------------------------------
\* "the limit is enforced globally across every worker/instance": up to any
\* moment Redis has granted no more than a full bucket and the refill since,
\* allowing for the clock that is furthest ahead.
GloballyEnforced ==
    granted * TokenUnits <= Capacity + Refill * (now + MaxSkew)

\* What the shared bucket does enforce, on any number of processes, with clocks
\* apart, scripts overtaking one another, keys expiring and answers lost: the
\* excess is exactly what callers whose clock reads less move `ts` back by.
SharedBucketBound ==
    granted * TokenUnits <= Capacity + Refill * (now + MaxSkew + rewound)

(***************************************************************************)
(* The inductive form of that bound.  Each token granted was in the bucket *)
(* or is paid for by the distance `ts` has covered; a script that runs was *)
(* stamped recently; and an expired bucket was last used so long ago that  *)
(* it would be full again.                                                 *)
(***************************************************************************)
StampsAreRecent ==
    \A c \in Callers : script[c] = "sent" =>
        stamp[c] <= now + MaxSkew /\ now <= stamp[c] + MaxDelay

BucketAge == granted = 0 \/ redis.ts + (BucketTTL - redis.ttl) <= now + MaxSkew

Credit == granted * TokenUnits + redis.tokens <= Capacity + Refill * (redis.ts + rewound)

\* The same for the in-memory buckets, whose clock never turns back.
LocalCredit ==
    \A p \in Processes :
        /\ local[p].last_refill <= now
        /\ served[p] * TokenUnits + local[p].tokens
              <= Capacity + Refill * local[p].last_refill

\* While Redis is away each process grants at most its own full bucket and the
\* refill since, however often the breaker sends the key back and forth.
FallbackBound ==
    \A p \in Processes : served[p] * TokenUnits <= Capacity + Refill * now

\* "retry_after_s, the exact wait until one token is available": a caller that
\* comes back that much later by the clock of the bucket, nobody having been
\* granted a token in between, is granted one.
RetryAfterSuffices ==
    [][/\ \A c \in Callers :
            script[c] = "sent" /\ script'[c] = "denied" => stamp[c] < redis.due \/ redis.due = 0
       /\ \A p \in Processes :
            local'[p] # local[p] /\ served'[p] = served[p] =>
                now < local[p].due \/ local[p].due = 0]_vars

\* Why: the bucket, last used at t, will hold a token when the wait it promised is
\* over.  A key's rate_limit_rpm is at least one token.
LimitIsPositive == TokenUnits <= Capacity
Promise(b, t) == b.due # 0 => t <= b.due /\ TokenUnits <= b.tokens + Refill * (b.due - t)
PromisesHold ==
    /\ Promise(redis, redis.ts)
    /\ \A p \in Processes : Promise(local[p], local[p].last_refill)

\* Every trial slot of a process's breaker comes back, by an answer, a denial or
\* a failure of Redis: a slot is taken only while its call is under way, unless
\* that call was cancelled.
TrialsComeBack ==
    \A p \in Processes : breaker[p].trial /\ p \notin leaked =>
        \E c \in Callers : At[c] = p /\ pc[c] = "calling" /\ gen[c] = breaker[p].gen

=============================================================================
