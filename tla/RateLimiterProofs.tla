------------------------- MODULE RateLimiterProofs -------------------------
(***************************************************************************)
(* What the rate limiter grants, for any number of processes and callers,  *)
(* any limit and any clocks within MaxSkew of real time.                   *)
(***************************************************************************)
EXTENDS RateLimiter, CircuitBreakerProofs, TLAPS

\* Arithmetic on refills, which the provers need spelt out.
LEMMA RefillMonotone ==
    ASSUME NEW a \in Int, NEW b \in Int, a <= b
    PROVE  Refill * a <= Refill * b
BY BucketAssumption

LEMMA RefillAdds ==
    ASSUME NEW a \in Int, NEW b \in Int
    PROVE  Refill * (a + b) = Refill * a + Refill * b /\ Refill * a \in Int
BY BucketAssumption

LEMMA RefillOfNat ==
    ASSUME NEW a \in Nat
    PROVE  Refill * a \in Nat
BY BucketAssumption

\* One more grant costs one token.
LEMMA OneMore ==
    ASSUME NEW n \in Nat
    PROVE  /\ (n + 1) * TokenUnits = n * TokenUnits + TokenUnits
           /\ n * TokenUnits \in Nat
BY BucketAssumption

\* Refilling never exceeds the capacity, nor what the elapsed time brings.
LEMMA RefilledBounds ==
    ASSUME NEW tokens \in 0..Capacity, NEW elapsed \in Nat
    PROVE  /\ Refilled(tokens, elapsed) \in 0..Capacity
           /\ Refilled(tokens, elapsed) <= tokens + Refill * elapsed
<1>1. Refill * elapsed \in Nat
  BY RefillOfNat
<1> QED BY <1>1, BucketAssumption DEF Refilled, AtMost

LEMMA RetryAfterType ==
    ASSUME NEW tokens \in Nat, tokens < TokenUnits
    PROVE  RetryAfter(tokens) \in Nat
BY BucketAssumption DEF RetryAfter

-----------------------------------------------------------------------------
\* The in-memory check keeps its bucket a bucket, and its account.
LEMMA FallbackKeeps ==
    ASSUME TypeOK, LocalCredit, NEW p \in Processes, Fallback(p), now' = now
    PROVE  /\ local' \in [Processes -> LocalBucket]
           /\ served' \in [Processes -> Nat]
           /\ LocalCredit'
<1> DEFINE b == local[p]
           tokens == Refilled(b.tokens, now - b.last_refill)
<1>1. /\ b \in LocalBucket /\ b.tokens \in 0..Capacity /\ b.last_refill \in Nat
      /\ now \in Nat /\ b.last_refill <= now /\ served[p] \in Nat
  BY DEF TypeOK, LocalBucket, LocalCredit
<1>2. now - b.last_refill \in Nat
  BY <1>1
<1>3. tokens \in 0..Capacity /\ tokens <= b.tokens + Refill * (now - b.last_refill)
  BY <1>1, <1>2, RefilledBounds
<1>4. Refill * now = Refill * b.last_refill + Refill * (now - b.last_refill)
      /\ Refill * b.last_refill \in Int /\ Refill * (now - b.last_refill) \in Int
  <2>1. now = b.last_refill + (now - b.last_refill)
        /\ b.last_refill \in Int /\ now - b.last_refill \in Int
    BY <1>1
  <2>2. /\ Refill * (b.last_refill + (now - b.last_refill))
              = Refill * b.last_refill + Refill * (now - b.last_refill)
        /\ Refill * b.last_refill \in Int /\ Refill * (now - b.last_refill) \in Int
    BY <2>1, RefillAdds
  <2> QED BY <2>1, <2>2
<1>5. served[p] * TokenUnits + b.tokens <= Capacity + Refill * b.last_refill
  BY DEF LocalCredit
<1>6. served[p] * TokenUnits + tokens <= Capacity + Refill * now
  BY <1>1, <1>3, <1>4, <1>5, OneMore, BucketAssumption
<1>7. local'[p].last_refill = now /\ local'[p] \in LocalBucket
      /\ served'[p] \in Nat
      /\ served'[p] * TokenUnits + local'[p].tokens <= Capacity + Refill * now
  <2>1. CASE tokens >= TokenUnits
    <3>1. /\ local'[p] = [tokens |-> tokens - TokenUnits, last_refill |-> now, due |-> 0]
          /\ served'[p] = served[p] + 1
      BY <2>1 DEF Fallback, TypeOK
    <3>2. tokens - TokenUnits \in 0..Capacity
      BY <1>3, <2>1, BucketAssumption
    <3>3. (served[p] + 1) * TokenUnits + (tokens - TokenUnits)
             = served[p] * TokenUnits + tokens
      BY <1>1, <1>3, OneMore, BucketAssumption
    <3>4. local'[p] \in LocalBucket /\ local'[p].last_refill = now
          /\ local'[p].tokens = tokens - TokenUnits
      BY <1>1, <3>1, <3>2 DEF LocalBucket
    <3>5. served'[p] \in Nat
      BY <1>1, <3>1
    <3> QED BY <1>6, <3>1, <3>3, <3>4, <3>5
  <2>2. CASE ~(tokens >= TokenUnits)
    <3>1. /\ local'[p] = [tokens |-> tokens, last_refill |-> now,
                          due |-> now + RetryAfter(tokens)]
          /\ served'[p] = served[p]
      BY <2>2 DEF Fallback, TypeOK
    <3>2. now + RetryAfter(tokens) \in Nat
      BY <1>1, <1>3, <2>2, RetryAfterType, BucketAssumption
    <3>3. local'[p] \in LocalBucket /\ local'[p].last_refill = now
          /\ local'[p].tokens = tokens
      BY <1>1, <1>3, <3>1, <3>2 DEF LocalBucket
    <3> QED BY <1>1, <1>6, <3>1, <3>3
  <2> QED BY <2>1, <2>2
<1>8. \A q \in Processes : q # p => local'[q] = local[q] /\ served'[q] = served[q]
  BY DEF Fallback, TypeOK
<1>9. DOMAIN local' = Processes /\ DOMAIN served' = Processes
      /\ local' = [q \in Processes |-> local'[q]]
      /\ served' = [q \in Processes |-> served'[q]]
  BY DEF Fallback, TypeOK
<1>10. local' \in [Processes -> LocalBucket]
  BY <1>7, <1>8, <1>9 DEF TypeOK
<1>11. served' \in [Processes -> Nat]
  BY <1>7, <1>8, <1>9 DEF TypeOK
<1>12. LocalCredit'
  <2> SUFFICES ASSUME NEW q \in Processes
               PROVE  /\ local'[q].last_refill <= now
                      /\ served'[q] * TokenUnits + local'[q].tokens
                            <= Capacity + Refill * local'[q].last_refill
    BY DEF LocalCredit
  <2>1. CASE q = p
    BY <1>1, <1>7, <2>1
  <2>2. CASE q # p
    BY <1>8, <2>2 DEF LocalCredit
  <2> QED BY <2>1, <2>2
<1> QED BY <1>10, <1>11, <1>12

\* The Lua script keeps the shared bucket a bucket, and its account: live or
\* expired, and whichever way the caller's clock moves `ts`.
LEMMA ScriptKeeps ==
    ASSUME TypeOK, StampsAreRecent, BucketAge, Credit,
           NEW c \in Callers, RunScript(c)
    PROVE  redis' \in Bucket /\ granted' \in Nat /\ rewound' \in Nat
           /\ BucketAge' /\ Credit'
<1> DEFINE s == stamp[c]
           tokens == TokensAt(s)
<1>1. /\ s \in Nat /\ now \in Nat /\ granted \in Nat /\ rewound \in Nat
      /\ redis.tokens \in 0..Capacity /\ redis.ts \in Nat
      /\ redis.ttl \in 0..BucketTTL /\ redis.due \in Nat
      /\ s <= now + MaxSkew /\ now <= s + MaxDelay
      /\ now' = now
  BY DEF TypeOK, Bucket, StampsAreRecent, RunScript
<1>2. TokenUnits \in Nat \ {0} /\ Refill \in Nat \ {0} /\ Capacity \in Nat
      /\ BucketTTL \in Nat \ {0} /\ MaxSkew \in Nat /\ MaxDelay \in Nat
  BY BucketAssumption, ClockAssumption
<1>3. tokens \in 0..Capacity /\ rewound' \in Nat
      /\ granted * TokenUnits + tokens <= Capacity + Refill * (s + rewound')
  <2>1. CASE redis.ttl = 0
    <3>1. tokens = Capacity /\ rewound' = rewound
      BY <2>1 DEF TokensAt, RunScript
    <3>2. CASE granted = 0
      <4>1. Refill * (s + rewound) \in Nat
        BY <1>1, RefillOfNat
      <4> QED BY <1>1, <1>2, <3>1, <3>2, <4>1
    <3>3. CASE granted # 0
      <4> DEFINE idle == BucketTTL - MaxSkew - MaxDelay
      <4>1. redis.ts + idle <= s
        BY <1>1, <1>2, <2>1, <3>3 DEF BucketAge
      <4>2. Refill * ((redis.ts + rewound) + idle) <= Refill * (s + rewound)
        <5>1. (redis.ts + rewound) + idle <= s + rewound
          BY <1>1, <1>2, <4>1
        <5>2. (redis.ts + rewound) + idle \in Int /\ s + rewound \in Int
          BY <1>1, <1>2
        <5> QED BY <5>1, <5>2, RefillMonotone
      <4>3. /\ Refill * ((redis.ts + rewound) + idle)
                  = Refill * (redis.ts + rewound) + Refill * idle
            /\ Refill * (redis.ts + rewound) \in Int /\ Refill * idle \in Int
        <5>1. redis.ts + rewound \in Int /\ idle \in Int
          BY <1>1, <1>2
        <5> QED BY <5>1, RefillAdds
      <4>4. Refill * idle >= Capacity
        BY TTLCoversRefill
      <4>5. granted * TokenUnits + redis.tokens <= Capacity + Refill * (redis.ts + rewound)
        BY DEF Credit
      <4>6. Refill * (s + rewound) \in Int /\ granted * TokenUnits \in Int
        BY <1>1, RefillOfNat, OneMore
      <4> HIDE DEF idle
      <4> QED BY <1>1, <1>2, <3>1, <4>2, <4>3, <4>4, <4>5, <4>6
    <3> QED BY <3>2, <3>3
  <2>2. CASE redis.ttl # 0
    <3>1. tokens = Refilled(redis.tokens, Monus(s, redis.ts))
          /\ rewound' = rewound + Monus(redis.ts, s)
      BY <2>2 DEF TokensAt, Elapsed, RunScript
    <3>2. Monus(s, redis.ts) \in Nat /\ Monus(redis.ts, s) \in Nat
          /\ s + (rewound + Monus(redis.ts, s))
                = (redis.ts + rewound) + Monus(s, redis.ts)
      BY <1>1 DEF Monus
    <3>3. tokens \in 0..Capacity
          /\ tokens <= redis.tokens + Refill * Monus(s, redis.ts)
      BY <1>1, <3>1, <3>2, RefilledBounds
    <3>4. /\ Refill * ((redis.ts + rewound) + Monus(s, redis.ts))
                = Refill * (redis.ts + rewound) + Refill * Monus(s, redis.ts)
          /\ Refill * (redis.ts + rewound) \in Int
      <4>1. redis.ts + rewound \in Int /\ Monus(s, redis.ts) \in Int
        BY <1>1, <3>2
      <4> QED BY <4>1, RefillAdds
    <3>5. Refill * Monus(s, redis.ts) \in Nat /\ granted * TokenUnits \in Nat
      BY <1>1, <3>2, RefillOfNat, OneMore
    <3>6. granted * TokenUnits + redis.tokens <= Capacity + Refill * (redis.ts + rewound)
      BY DEF Credit
    <3>7. granted * TokenUnits + tokens
             <= Capacity + Refill * ((redis.ts + rewound) + Monus(s, redis.ts))
      BY <1>1, <1>2, <3>3, <3>4, <3>5, <3>6
    <3>8. rewound' \in Nat /\ s + rewound' = (redis.ts + rewound) + Monus(s, redis.ts)
      BY <1>1, <3>1, <3>2
    <3> QED BY <3>3, <3>7, <3>8
  <2> QED BY <2>1, <2>2
<1> HIDE DEF tokens
<1>4. /\ redis'.tokens = (IF tokens >= TokenUnits THEN tokens - TokenUnits ELSE tokens)
      /\ redis'.ts = s /\ redis'.ttl = BucketTTL
      /\ granted' = (IF tokens >= TokenUnits THEN granted + 1 ELSE granted)
      /\ redis' = [tokens |-> redis'.tokens, ts |-> s, ttl |-> BucketTTL,
                   due |-> IF tokens >= TokenUnits THEN 0 ELSE s + RetryAfter(tokens)]
  BY DEF RunScript, tokens
<1>5. redis' \in Bucket
  <2>1. redis'.tokens \in 0..Capacity
    BY <1>2, <1>3, <1>4
  <2>2. (IF tokens >= TokenUnits THEN 0 ELSE s + RetryAfter(tokens)) \in Nat
    BY <1>1, <1>2, <1>3, RetryAfterType
  <2>3. BucketTTL \in 0..BucketTTL
    BY <1>2
  <2> HIDE DEF s
  <2> QED BY <1>1, <1>4, <2>1, <2>2, <2>3 DEF Bucket
<1>6. granted' \in Nat
  BY <1>1, <1>4
<1>7. BucketAge'
  BY <1>1, <1>2, <1>4 DEF BucketAge
<1>8. granted' * TokenUnits + redis'.tokens = granted * TokenUnits + tokens
  <2>1. (granted + 1) * TokenUnits = granted * TokenUnits + TokenUnits
        /\ granted * TokenUnits \in Nat
    BY <1>1, OneMore
  <2> QED BY <1>2, <1>3, <1>4, <2>1
<1>9. Credit'
  BY <1>3, <1>4, <1>8 DEF Credit
<1> QED BY <1>3, <1>5, <1>6, <1>7, <1>9

-----------------------------------------------------------------------------
Account == StampsAreRecent /\ BucketAge /\ Credit /\ LocalCredit

LEMMA InitEstablishes == Init => TypeOK /\ Account /\ TrialsComeBack
<1> SUFFICES ASSUME Init PROVE TypeOK /\ Account /\ TrialsComeBack
  OBVIOUS
<1> USE DEF Init
<1>1. NewBreaker \in Breaker
  BY ResetTimeoutAssumption DEF NewBreaker, Breaker, CircuitState, CLOSED, OPEN, HALF_OPEN
<1>2. TypeOK
  BY <1>1, BucketAssumption, BoundsAssumption DEF TypeOK, Bucket, LocalBucket
<1>3. Credit /\ BucketAge /\ StampsAreRecent
  BY BucketAssumption DEF Credit, BucketAge, StampsAreRecent
<1>4. LocalCredit
  BY BucketAssumption DEF LocalCredit
<1>5. TrialsComeBack
  BY DEF TrialsComeBack, NewBreaker
<1> QED BY <1>2, <1>3, <1>4, <1>5 DEF Account

\* One case per action: what is left alone, and for the rest the lemmas above.
LEMMA StepKeeps ==
    TypeOK /\ Account /\ [Next]_vars => TypeOK' /\ Account'
<1> SUFFICES ASSUME TypeOK, Account, [Next]_vars PROVE TypeOK' /\ Account'
  OBVIOUS
<1> USE DEF Account
<1>0. CASE UNCHANGED vars
  BY <1>0 DEF vars, TypeOK, StampsAreRecent, BucketAge, Credit, LocalCredit
<1>1. ASSUME NEW c \in Callers, Check(c) PROVE TypeOK' /\ Account'
  <2> DEFINE p == At[c]
  <2>1. p \in Processes /\ breaker[p] \in Breaker /\ Skew[p] \in 0..MaxSkew
        /\ now \in Nat
    BY ProcessAssumption, ClockAssumption DEF TypeOK
  <2>2. /\ UNCHANGED <<now, redis, granted, rewound, leaked>>
        /\ checks' \in 0..MaxChecks
    BY <1>1, BoundsAssumption DEF Check, TypeOK
  <2>3. BucketAge' /\ Credit'
    BY <2>2 DEF BucketAge, Credit
  <2>4. CASE Admits(breaker[p])
    <3>1. /\ breaker' = [breaker EXCEPT ![p] = Allow(breaker[p])]
          /\ gen' = [gen EXCEPT ![c] = Allow(breaker[p]).gen]
          /\ stamp' = [stamp EXCEPT ![c] = now + Skew[p]]
          /\ script' = [script EXCEPT ![c] = "sent"]
          /\ pc' = [pc EXCEPT ![c] = "calling"]
          /\ UNCHANGED <<local, served>>
      BY <1>1, <2>4 DEF Check
    <3>2. Allow(breaker[p]) \in Breaker
      BY <2>1, BreakerOperations
    <3>3. now + Skew[p] \in Nat /\ Allow(breaker[p]).gen \in Nat
      BY <2>1, <3>2, ClockAssumption DEF Breaker
    <3>4. TypeOK'
      BY <2>1, <2>2, <3>1, <3>2, <3>3 DEF TypeOK
    <3>5. StampsAreRecent'
      BY <2>1, <2>2, <3>1, ClockAssumption DEF StampsAreRecent, TypeOK
    <3>6. LocalCredit'
      BY <2>2, <3>1 DEF LocalCredit
    <3> QED BY <2>3, <3>4, <3>5, <3>6
  <2>5. CASE ~Admits(breaker[p])
    <3>1. Fallback(p) /\ UNCHANGED <<breaker, gen, stamp, script, pc>>
      BY <1>1, <2>5 DEF Check
    <3>2. /\ local' \in [Processes -> LocalBucket]
          /\ served' \in [Processes -> Nat] /\ LocalCredit'
      BY <2>1, <2>2, <3>1, FallbackKeeps
    <3>3. TypeOK'
      BY <2>2, <3>1, <3>2 DEF TypeOK
    <3>4. StampsAreRecent'
      BY <2>2, <3>1 DEF StampsAreRecent
    <3> QED BY <2>3, <3>2, <3>3, <3>4
  <2> QED BY <2>4, <2>5
<1>2. ASSUME NEW c \in Callers, RunScript(c) PROVE TypeOK' /\ Account'
  <2>1. redis' \in Bucket /\ granted' \in Nat /\ rewound' \in Nat
        /\ BucketAge' /\ Credit'
    BY <1>2, ScriptKeeps
  <2>2. /\ UNCHANGED <<now, local, breaker, pc, gen, checks, served, leaked>>
        /\ stamp' = [stamp EXCEPT ![c] = 0]
        /\ \E v \in {"granted", "denied"} : script' = [script EXCEPT ![c] = v]
    BY <1>2 DEF RunScript
  <2>3. TypeOK'
    BY <2>1, <2>2 DEF TypeOK
  <2>4. StampsAreRecent'
    BY <2>2 DEF StampsAreRecent, TypeOK
  <2>5. LocalCredit'
    BY <2>2 DEF LocalCredit
  <2> QED BY <2>1, <2>3, <2>4, <2>5
<1>3. ASSUME NEW c \in Callers, Dropped(c) PROVE TypeOK' /\ Account'
  <2>1. /\ UNCHANGED <<now, redis, local, breaker, pc, gen, checks, granted, served,
                       rewound, leaked>>
        /\ stamp' = [stamp EXCEPT ![c] = 0] /\ script' = [script EXCEPT ![c] = "none"]
    BY <1>3 DEF Dropped
  <2>2. TypeOK'
    BY <2>1 DEF TypeOK
  <2>3. StampsAreRecent'
    BY <2>1 DEF StampsAreRecent, TypeOK
  <2> QED BY <2>1, <2>2, <2>3 DEF BucketAge, Credit, LocalCredit
<1>4. ASSUME NEW c \in Callers, Reply(c) PROVE TypeOK' /\ Account'
  <2>1. At[c] \in Processes /\ breaker[At[c]] \in Breaker /\ gen[c] \in Nat
    BY ProcessAssumption DEF TypeOK
  <2>2. RecordSuccess(breaker[At[c]], gen[c]) \in Breaker
    BY <2>1, BreakerOperations
  <2>3. TypeOK'
    BY <1>4, <2>1, <2>2 DEF Reply, Returns, TypeOK
  <2>4. StampsAreRecent'
    BY <1>4 DEF Reply, Returns, StampsAreRecent, TypeOK
  <2>5. BucketAge' /\ Credit' /\ LocalCredit'
    BY <1>4 DEF Reply, BucketAge, Credit, LocalCredit
  <2> QED BY <2>3, <2>4, <2>5
<1>5. ASSUME NEW c \in Callers, Unavailable(c) PROVE TypeOK' /\ Account'
  <2>1. At[c] \in Processes /\ breaker[At[c]] \in Breaker /\ gen[c] \in Nat
    BY ProcessAssumption DEF TypeOK
  <2>2. RecordFailure(breaker[At[c]], gen[c]) \in Breaker
    BY <2>1, BreakerOperations
  <2>3. /\ UNCHANGED <<now, redis, stamp, checks, granted, rewound, leaked>>
        /\ Fallback(At[c])
    BY <1>5 DEF Unavailable
  <2>4. /\ local' \in [Processes -> LocalBucket]
        /\ served' \in [Processes -> Nat] /\ LocalCredit'
    BY <2>1, <2>3, FallbackKeeps
  <2>5. /\ script' \in [Callers -> {"none", "sent", "granted", "denied"}]
        /\ \A d \in Callers : script'[d] = "sent" => script[d] = "sent"
    BY <1>5 DEF Unavailable, GivesUp, TypeOK
  <2>6. TypeOK'
    BY <1>5, <2>1, <2>2, <2>3, <2>4, <2>5 DEF Unavailable, Returns, TypeOK
  <2>7. StampsAreRecent'
    BY <2>3, <2>5 DEF StampsAreRecent
  <2>8. BucketAge' /\ Credit'
    BY <2>3 DEF BucketAge, Credit
  <2> QED BY <2>4, <2>6, <2>7, <2>8
<1>6. ASSUME NEW c \in Callers, Cancelled(c) PROVE TypeOK' /\ Account'
  <2>1. UNCHANGED <<now, redis, local, breaker, stamp, checks, granted, served, rewound>>
    BY <1>6 DEF Cancelled
  <2>2. /\ script' \in [Callers -> {"none", "sent", "granted", "denied"}]
        /\ \A d \in Callers : script'[d] = "sent" => script[d] = "sent"
    BY <1>6 DEF Cancelled, GivesUp, TypeOK
  <2>3. leaked' \in SUBSET Processes
    BY <1>6, ProcessAssumption DEF Cancelled, TypeOK
  <2>4. TypeOK'
    BY <1>6, <2>1, <2>2, <2>3 DEF Cancelled, Returns, TypeOK
  <2>5. StampsAreRecent'
    BY <2>1, <2>2 DEF StampsAreRecent
  <2> QED BY <2>1, <2>4, <2>5 DEF BucketAge, Credit, LocalCredit
<1>7. ASSUME Tick PROVE TypeOK' /\ Account'
  <2>1. /\ now' = now + 1 /\ now \in Nat
        /\ UNCHANGED <<local, pc, gen, stamp, script, checks, granted, served,
                       rewound, leaked>>
    BY <1>7 DEF Tick, TypeOK
  <2>2. /\ redis' \in Bucket /\ redis'.tokens = redis.tokens /\ redis'.ts = redis.ts
        /\ redis'.ttl = Monus(redis.ttl, 1)
        /\ redis.ttl \in 0..BucketTTL /\ redis.ts \in Nat
    BY <1>7, BucketAssumption DEF Tick, TypeOK, Bucket, Monus
  <2>3. breaker' \in [Processes -> Breaker]
    BY <1>7, BreakerOperations DEF Tick, TypeOK
  <2>4. TypeOK'
    BY <2>1, <2>2, <2>3 DEF TypeOK
  <2>5. StampsAreRecent'
    <3> SUFFICES ASSUME NEW c \in Callers, script[c] = "sent"
                 PROVE  stamp[c] <= now + 1 + MaxSkew /\ now + 1 <= stamp[c] + MaxDelay
      BY <2>1 DEF StampsAreRecent
    <3>1. stamp[c] \in Nat /\ Skew[At[c]] \in 0..MaxSkew
      BY ProcessAssumption, ClockAssumption DEF TypeOK
    <3>2. now - (stamp[c] - Skew[At[c]]) < MaxDelay
      BY <1>7 DEF Tick
    <3> QED BY <2>1, <3>1, <3>2, ClockAssumption DEF StampsAreRecent
  <2>6. BucketAge'
    BY <2>1, <2>2, BucketAssumption, ClockAssumption DEF BucketAge, Monus, TypeOK
  <2>7. Credit'
    BY <2>1, <2>2 DEF Credit
  <2>8. LocalCredit'
    BY <2>1 DEF LocalCredit, TypeOK, LocalBucket
  <2> QED BY <2>4, <2>5, <2>6, <2>7, <2>8
<1> QED BY <1>0, <1>1, <1>2, <1>3, <1>4, <1>5, <1>6, <1>7 DEF Next, Step

\* What the account says about the number of grants.
LEMMA AccountBounds == TypeOK /\ Account => SharedBucketBound /\ FallbackBound
<1> SUFFICES ASSUME TypeOK, Account PROVE SharedBucketBound /\ FallbackBound
  OBVIOUS
<1> USE DEF Account
<1>1. /\ now \in Nat /\ granted \in Nat /\ rewound \in Nat /\ MaxSkew \in Nat
      /\ redis.tokens \in Nat /\ redis.ts \in Nat /\ redis.ttl \in 0..BucketTTL
      /\ Capacity \in Nat /\ BucketTTL \in Nat
  BY BucketAssumption, ClockAssumption DEF TypeOK, Bucket
<1>2. SharedBucketBound
  <2>1. now + MaxSkew + rewound \in Nat /\ redis.ts + rewound \in Nat
    BY <1>1
  <2>2. /\ Refill * (now + MaxSkew + rewound) \in Nat
        /\ Refill * (redis.ts + rewound) \in Nat
        /\ granted * TokenUnits \in Nat
    BY <1>1, <2>1, RefillOfNat, OneMore
  <2>3. CASE granted = 0
    <3>1. granted * TokenUnits = 0
      BY <2>3, BucketAssumption
    <3> QED BY <1>1, <2>2, <3>1 DEF SharedBucketBound
  <2>4. CASE granted # 0
    <3>1. redis.ts + rewound <= now + MaxSkew + rewound
      BY <1>1, <2>4 DEF BucketAge
    <3>2. Refill * (redis.ts + rewound) <= Refill * (now + MaxSkew + rewound)
      BY <2>1, <3>1, RefillMonotone
    <3> QED BY <1>1, <2>2, <3>2 DEF Credit, SharedBucketBound
  <2> QED BY <2>3, <2>4
<1>3. FallbackBound
  <2> SUFFICES ASSUME NEW p \in Processes
               PROVE  served[p] * TokenUnits <= Capacity + Refill * now
    BY DEF FallbackBound
  <2>1. local[p].last_refill \in Nat /\ local[p].tokens \in Nat /\ served[p] \in Nat
        /\ local[p].last_refill <= now
    BY BucketAssumption DEF TypeOK, LocalBucket, LocalCredit
  <2>2. Refill * local[p].last_refill <= Refill * now
    BY <1>1, <2>1, RefillMonotone
  <2>3. Refill * local[p].last_refill \in Nat /\ Refill * now \in Nat
        /\ served[p] * TokenUnits \in Nat
    BY <1>1, <2>1, RefillOfNat, OneMore
  <2> QED BY <1>1, <2>1, <2>2, <2>3 DEF LocalCredit
<1> QED BY <1>2, <1>3

\* Type correctness of the rate limiter, for any number of processes and callers.
THEOREM LimiterTypeCorrect == Spec => []TypeOK
<1>1. Init => TypeOK /\ Account
  BY InitEstablishes
<1>2. TypeOK /\ Account /\ [Next]_vars => (TypeOK /\ Account)'
  BY StepKeeps
<1> QED BY <1>1, <1>2, PTL DEF Spec

\* Whatever the clocks, the delays, the failures of Redis and the expiry of its
\* key: the Lua script grants at most a full bucket, the refill of the time that
\* has passed, and the refill of the time callers have moved `ts` back by.
THEOREM SharedBucketIsBounded == Spec => []SharedBucketBound
<1>1. Init => TypeOK /\ Account
  BY InitEstablishes
<1>2. TypeOK /\ Account /\ [Next]_vars => (TypeOK /\ Account)'
  BY StepKeeps
<1>3. TypeOK /\ Account => SharedBucketBound
  BY AccountBounds
<1> QED BY <1>1, <1>2, <1>3, PTL DEF Spec

\* Each process's in-memory bucket grants at most a full bucket and the refill of
\* the time that has passed, however often the breaker falls back to it.
THEOREM FallbackIsBounded == Spec => []FallbackBound
<1>1. Init => TypeOK /\ Account
  BY InitEstablishes
<1>2. TypeOK /\ Account /\ [Next]_vars => (TypeOK /\ Account)'
  BY StepKeeps
<1>3. TypeOK /\ Account => FallbackBound
  BY AccountBounds
<1> QED BY <1>1, <1>2, <1>3, PTL DEF Spec

\* What one call's outcome does to the slots, when it leaves the breaker of its
\* process as b: a call of the current generation frees the slot, a stale call
\* did not hold it.
LEMMA OutcomeKeepsTrials ==
    ASSUME TypeOK, TrialsComeBack, NEW c \in Callers, NEW b \in Breaker,
           pc[c] = "calling",
           Returns(c), breaker' = [breaker EXCEPT ![At[c]] = b], leaked' = leaked,
           gen[c] # breaker[At[c]].gen => b = breaker[At[c]],
           gen[c] = breaker[At[c]].gen => ~b.trial
    PROVE  TrialsComeBack'
<1> SUFFICES ASSUME NEW p \in Processes, breaker'[p].trial, p \notin leaked
             PROVE  \E d \in Callers : At[d] = p /\ pc'[d] = "calling" /\ gen'[d] = breaker'[p].gen
  BY DEF TrialsComeBack
<1>1. breaker \in [Processes -> Breaker] /\ At[c] \in Processes
      /\ pc \in [Callers -> {"idle", "calling"}] /\ gen \in [Callers -> Nat]
  BY ProcessAssumption DEF TypeOK
<1>2. breaker'[p] = breaker[p] /\ (p = At[c] => gen[c] # breaker[p].gen)
  BY <1>1
<1>3. PICK d \in Callers : At[d] = p /\ pc[d] = "calling" /\ gen[d] = breaker[p].gen
  BY <1>2 DEF TrialsComeBack
<1>4. d # c
  BY <1>2, <1>3
<1>5. pc'[d] = pc[d] /\ gen'[d] = gen[d]
  BY <1>1, <1>4 DEF Returns
<1> QED BY <1>2, <1>3, <1>5

LEMMA TrialsStep ==
    TypeOK /\ TrialsComeBack /\ [Next]_vars => TrialsComeBack'
<1> SUFFICES ASSUME TypeOK, TrialsComeBack, [Next]_vars PROVE TrialsComeBack'
  OBVIOUS
<1>0. /\ breaker \in [Processes -> Breaker] /\ gen \in [Callers -> Nat]
      /\ pc \in [Callers -> {"idle", "calling"}]
      /\ \A c \in Callers : At[c] \in Processes
  BY ProcessAssumption DEF TypeOK
<1>1. CASE UNCHANGED <<breaker, pc, gen, leaked>>
  BY <1>1 DEF TrialsComeBack
<1>2. ASSUME NEW c \in Callers, Check(c) PROVE TrialsComeBack'
  <2> DEFINE p == At[c]
  <2>1. CASE ~Admits(breaker[p])
    BY <1>1, <1>2, <2>1 DEF Check
  <2>2. CASE Admits(breaker[p])
    <3>1. /\ breaker' = [breaker EXCEPT ![p] = Allow(breaker[p])]
          /\ gen' = [gen EXCEPT ![c] = Allow(breaker[p]).gen]
          /\ pc' = [pc EXCEPT ![c] = "calling"] /\ pc[c] = "idle"
          /\ leaked' = leaked
      BY <1>2, <2>2 DEF Check
    <3> SUFFICES ASSUME NEW q \in Processes, breaker'[q].trial, q \notin leaked
                 PROVE  \E d \in Callers :
                           At[d] = q /\ pc'[d] = "calling" /\ gen'[d] = breaker'[q].gen
      BY <3>1 DEF TrialsComeBack
    <3>2. CASE q = p
      BY <1>0, <3>1, <3>2
    <3>3. CASE q # p
      <4>1. PICK d \in Callers : At[d] = q /\ pc[d] = "calling" /\ gen[d] = breaker[q].gen
        BY <1>0, <3>1, <3>3 DEF TrialsComeBack
      <4> QED BY <1>0, <3>1, <3>3, <4>1
    <3> QED BY <3>2, <3>3
  <2> QED BY <2>1, <2>2
<1>3. ASSUME NEW c \in Callers, Reply(c) PROVE TrialsComeBack'
  <2> DEFINE b == RecordSuccess(breaker[At[c]], gen[c])
  <2>1. b \in Breaker /\ (gen[c] # breaker[At[c]].gen => b = breaker[At[c]])
        /\ (gen[c] = breaker[At[c]].gen => ~b.trial)
    BY <1>0, BreakerOperations, TrialSlot
  <2> QED BY <1>3, <2>1, OutcomeKeepsTrials DEF Reply
<1>4. ASSUME NEW c \in Callers, Unavailable(c) PROVE TrialsComeBack'
  <2> DEFINE b == RecordFailure(breaker[At[c]], gen[c])
  <2>1. b \in Breaker /\ (gen[c] # breaker[At[c]].gen => b = breaker[At[c]])
        /\ (gen[c] = breaker[At[c]].gen => ~b.trial)
    BY <1>0, BreakerOperations, TrialSlot
  <2> QED BY <1>4, <2>1, OutcomeKeepsTrials DEF Unavailable
<1>5. ASSUME NEW c \in Callers, Cancelled(c) PROVE TrialsComeBack'
  <2>1. /\ UNCHANGED breaker /\ leaked \subseteq leaked'
        /\ (breaker[At[c]].trial /\ gen[c] = breaker[At[c]].gen => At[c] \in leaked')
        /\ Returns(c) /\ pc[c] = "calling"
    BY <1>5 DEF Cancelled
  <2> SUFFICES ASSUME NEW p \in Processes, breaker[p].trial, p \notin leaked'
               PROVE  \E d \in Callers : At[d] = p /\ pc'[d] = "calling" /\ gen'[d] = breaker[p].gen
    BY <2>1 DEF TrialsComeBack
  <2>2. PICK d \in Callers : At[d] = p /\ pc[d] = "calling" /\ gen[d] = breaker[p].gen
    BY <2>1 DEF TrialsComeBack
  <2>3. d # c
    BY <2>1, <2>2
  <2> QED BY <1>0, <2>1, <2>2, <2>3 DEF Returns
<1>6. CASE Tick
  <2>1. /\ UNCHANGED <<pc, gen, leaked>>
        /\ breaker' = [p \in Processes |->
                         IF Cooling(breaker[p]) THEN Elapse(breaker[p]) ELSE breaker[p]]
    BY <1>6 DEF Tick
  <2>2. ASSUME NEW p \in Processes
        PROVE  breaker'[p].trial = breaker[p].trial /\ breaker'[p].gen = breaker[p].gen
    <3>1. breaker[p] \in Breaker /\ 0 \in Nat
      BY <1>0
    <3>2. Cooling(breaker[p]) => /\ Elapse(breaker[p]).trial = breaker[p].trial
                                 /\ Elapse(breaker[p]).gen = breaker[p].gen
      BY <3>1, TrialSlot
    <3> QED BY <2>1, <3>2
  <2> QED BY <2>1, <2>2 DEF TrialsComeBack
<1>7. ASSUME NEW c \in Callers, RunScript(c) \/ Dropped(c) PROVE TrialsComeBack'
  BY <1>1, <1>7 DEF RunScript, Dropped
<1> QED BY <1>1, <1>2, <1>3, <1>4, <1>5, <1>6, <1>7 DEF Next, Step, vars

\* On every process, however checks fail, are denied, time out or race: the trial
\* slot of the limiter's breaker is held by a check under way, unless a
\* cancellation took it.
THEOREM TrialSlotsComeBack == Spec => []TrialsComeBack
<1>1. Init => TypeOK /\ Account /\ TrialsComeBack
  BY InitEstablishes
<1>2. TypeOK /\ Account /\ TrialsComeBack /\ [Next]_vars
        => (TypeOK /\ Account /\ TrialsComeBack)'
  BY StepKeeps, TrialsStep
<1> QED BY <1>1, <1>2, PTL DEF Spec

-----------------------------------------------------------------------------
\* The wait a denial reports brings the missing part of a token.
LEMMA RetryAfterRefills ==
    ASSUME NEW tokens \in Nat, tokens < TokenUnits
    PROVE  /\ RetryAfter(tokens) \in Nat \ {0}
           /\ TokenUnits <= tokens + Refill * RetryAfter(tokens)
<1> DEFINE n == TokenUnits - tokens + Refill - 1
           w == RetryAfter(tokens)
<1>1. n \in Nat /\ n >= Refill /\ Refill \in Nat \ {0} /\ TokenUnits \in Nat
  BY BucketAssumption
<1>2. w = n \div Refill
  BY DEF RetryAfter
<1> HIDE DEF n, w
<1>3. w \in Int /\ Refill * w <= n /\ n < Refill * w + Refill
  BY <1>1, <1>2
<1>4. w > 0
  <2> SUFFICES ASSUME w <= 0 PROVE FALSE
    BY <1>3
  <2>1. Refill * w <= Refill * 0 /\ Refill * 0 = 0 /\ Refill * w \in Int
    BY <1>1, <1>3
  <2> QED BY <1>1, <1>3, <2>1
<1>5. Refill * w \in Int
  BY <1>1, <1>3
<1> QED BY <1>1, <1>3, <1>4, <1>5 DEF n, w

\* A fresh denial makes a promise that holds.
LEMMA DenialPromises ==
    ASSUME NEW tokens \in Nat, tokens < TokenUnits, NEW t \in Nat, NEW b,
           b.tokens = tokens, b.due = t + RetryAfter(tokens)
    PROVE  Promise(b, t)
<1>1. /\ RetryAfter(tokens) \in Nat \ {0}
      /\ TokenUnits <= tokens + Refill * RetryAfter(tokens)
  BY RetryAfterRefills
<1>2. b.due - t = RetryAfter(tokens) /\ t <= b.due
  BY <1>1
<1> QED BY <1>1, <1>2 DEF Promise

\* A promise is kept: whoever comes at s, not before it is due, finds a token.
LEMMA PromiseKept ==
    ASSUME LimitIsPositive, NEW b, NEW t \in Nat, NEW s \in Nat, b.due \in Nat \ {0},
           b.tokens \in 0..Capacity, Promise(b, t), b.due <= s
    PROVE  s - t \in Nat /\ Refilled(b.tokens, s - t) >= TokenUnits
<1>1. t <= b.due /\ TokenUnits <= b.tokens + Refill * (b.due - t)
  BY DEF Promise
<1>2. s - t \in Nat /\ b.due - t \in Nat /\ b.due - t <= s - t
  BY <1>1
<1>3. Refill * (b.due - t) <= Refill * (s - t)
  BY <1>2, RefillMonotone
<1>4. Refill * (b.due - t) \in Nat /\ Refill * (s - t) \in Nat
  BY <1>2, RefillOfNat
<1>5. TokenUnits <= b.tokens + Refill * (s - t)
  BY <1>1, <1>3, <1>4, BucketAssumption
<1> QED BY <1>2, <1>5 DEF Refilled, AtMost, LimitIsPositive

\* What the in-memory check does to the promise, and whom it denies.
LEMMA FallbackPromises ==
    ASSUME TypeOK, LocalCredit, PromisesHold, NEW p \in Processes, Fallback(p)
    PROVE  /\ \A q \in Processes : Promise(local[q], local[q].last_refill)'
           /\ LimitIsPositive => \A q \in Processes :
                local'[q] # local[q] /\ served'[q] = served[q] =>
                    now < local[q].due \/ local[q].due = 0
<1> DEFINE b == local[p]
           tokens == Refilled(b.tokens, now - b.last_refill)
<1>1. /\ b.tokens \in 0..Capacity /\ b.last_refill \in Nat /\ b.due \in Nat
      /\ now \in Nat /\ b.last_refill <= now /\ served[p] \in Nat
  BY DEF TypeOK, LocalBucket, LocalCredit
<1>2. now - b.last_refill \in Nat
  BY <1>1
<1>3. tokens \in 0..Capacity
  BY <1>1, <1>2, RefilledBounds
<1>4. \A q \in Processes : q # p => local'[q] = local[q]
  BY DEF Fallback, TypeOK
<1>5. CASE tokens >= TokenUnits
  <2>1. /\ local'[p] = [tokens |-> tokens - TokenUnits, last_refill |-> now, due |-> 0]
        /\ served'[p] = served[p] + 1
    BY <1>5 DEF Fallback, TypeOK
  <2>2. Promise(local[p], local[p].last_refill)'
    BY <2>1 DEF Promise
  <2>3. served'[p] # served[p]
    BY <1>1, <2>1
  <2> QED BY <1>4, <2>2, <2>3 DEF PromisesHold
<1>6. CASE ~(tokens >= TokenUnits)
  <2>1. /\ local'[p] = [tokens |-> tokens, last_refill |-> now,
                        due |-> now + RetryAfter(tokens)]
    BY <1>6 DEF Fallback, TypeOK
  <2>2. tokens \in Nat /\ tokens < TokenUnits
    BY <1>3, <1>6, BucketAssumption
  <2>3. Promise(local'[p], now)
    <3> HIDE DEF tokens
    <3>1. local'[p].tokens = tokens /\ local'[p].due = now + RetryAfter(tokens)
      BY <2>1
    <3> QED BY <1>1, <2>2, <3>1, DenialPromises
  <2>4. local'[p].last_refill = now
    BY <2>1
  <2>5. LimitIsPositive => now < b.due \/ b.due = 0
    <3> SUFFICES ASSUME LimitIsPositive, b.due # 0, b.due <= now PROVE FALSE
      BY <1>1
    <3>1. Promise(b, b.last_refill) /\ b.due \in Nat \ {0}
      BY <1>1 DEF PromisesHold
    <3> HIDE DEF b
    <3>2. Refilled(b.tokens, now - b.last_refill) >= TokenUnits
      BY <1>1, <3>1, PromiseKept
    <3> QED BY <1>6, <3>2
  <2>6. \A q \in Processes : Promise(local[q], local[q].last_refill)'
    BY <1>4, <2>3, <2>4 DEF PromisesHold
  <2> QED BY <1>4, <2>5, <2>6
<1> QED BY <1>5, <1>6

\* The same for the Lua script, on a live bucket and an expired one, also when it
\* moves `ts` back.
LEMMA ScriptPromises ==
    ASSUME TypeOK, PromisesHold, NEW c \in Callers, RunScript(c)
    PROVE  /\ Promise(redis, redis.ts)'
           /\ LimitIsPositive /\ script'[c] = "denied" =>
                stamp[c] < redis.due \/ redis.due = 0
<1> DEFINE s == stamp[c]
           tokens == TokensAt(s)
<1>1. /\ s \in Nat /\ redis.tokens \in 0..Capacity /\ redis.ts \in Nat /\ redis.due \in Nat
  BY DEF TypeOK, Bucket
<1>2. Monus(s, redis.ts) \in Nat /\ (redis.ts <= s => Monus(s, redis.ts) = s - redis.ts)
  BY <1>1 DEF Monus
<1>3. tokens \in 0..Capacity
  <2>1. Refilled(redis.tokens, Monus(s, redis.ts)) \in 0..Capacity
    BY <1>1, <1>2, RefilledBounds
  <2> QED BY <2>1, BucketAssumption DEF TokensAt, Elapsed
<1>4. CASE tokens >= TokenUnits
  <2>1. redis'.due = 0 /\ script'[c] = "granted"
    BY <1>4 DEF RunScript, TypeOK
  <2> QED BY <2>1 DEF Promise
<1>5. CASE ~(tokens >= TokenUnits)
  <2>1. /\ redis'.tokens = tokens /\ redis'.ts = s
        /\ redis'.due = s + RetryAfter(tokens)
    BY <1>5 DEF RunScript
  <2>2. tokens \in Nat /\ tokens < TokenUnits
    BY <1>3, <1>5, BucketAssumption
  <2>3. Promise(redis', s)
    <3> HIDE DEF tokens
    <3> QED BY <1>1, <2>1, <2>2, DenialPromises
  <2>4. LimitIsPositive => s < redis.due \/ redis.due = 0
    <3> SUFFICES ASSUME LimitIsPositive, redis.due # 0, redis.due <= s PROVE FALSE
      BY <1>1
    <3>1. redis.ttl # 0
      BY <1>5, BucketAssumption DEF TokensAt, LimitIsPositive
    <3>2. Promise(redis, redis.ts) /\ redis.due \in Nat \ {0}
      BY <1>1 DEF PromisesHold
    <3>3. s - redis.ts \in Nat /\ Refilled(redis.tokens, s - redis.ts) >= TokenUnits
      BY <1>1, <3>2, PromiseKept
    <3>4. Monus(s, redis.ts) = s - redis.ts
      BY <1>1, <1>2, <3>3
    <3> QED BY <1>5, <3>1, <3>3, <3>4 DEF TokensAt, Elapsed
  <2> QED BY <2>1, <2>3, <2>4
<1> QED BY <1>4, <1>5

\* No step breaks a promise, or denies a caller to whom a token was promised.
NoneDeniedWhenDue ==
    /\ \A c \in Callers :
         script[c] = "sent" /\ script'[c] = "denied" => stamp[c] < redis.due \/ redis.due = 0
    /\ \A p \in Processes :
         local'[p] # local[p] /\ served'[p] = served[p] =>
             now < local[p].due \/ local[p].due = 0

LEMMA PromisesStep ==
    ASSUME TypeOK, Account, PromisesHold, [Next]_vars
    PROVE  PromisesHold' /\ (LimitIsPositive => NoneDeniedWhenDue)
<1>0. /\ script \in [Callers -> {"none", "sent", "granted", "denied"}] /\ LocalCredit
      /\ \A c \in Callers : At[c] \in Processes
  BY ProcessAssumption DEF TypeOK, Account
\* Only RunScript answers a script, and only the fallback uses a local bucket.
<1>1. ASSUME UNCHANGED <<local, served, redis>>,
             \A c \in Callers : script[c] = "sent" => script'[c] # "denied"
      PROVE  PromisesHold' /\ NoneDeniedWhenDue
  BY <1>1 DEF PromisesHold, Promise, NoneDeniedWhenDue
<1>2. ASSUME NEW p \in Processes, Fallback(p), UNCHANGED redis,
             \A c \in Callers : script[c] = "sent" => script'[c] # "denied"
      PROVE  PromisesHold' /\ (LimitIsPositive => NoneDeniedWhenDue)
  <2>1. /\ \A q \in Processes : Promise(local[q], local[q].last_refill)'
        /\ LimitIsPositive => \A q \in Processes :
              local'[q] # local[q] /\ served'[q] = served[q] =>
                  now < local[q].due \/ local[q].due = 0
    BY <1>0, <1>2, FallbackPromises
  <2>2. Promise(redis, redis.ts)'
    BY <1>2 DEF PromisesHold, Promise
  <2> QED BY <1>2, <2>1, <2>2 DEF PromisesHold, NoneDeniedWhenDue
<1>3. CASE UNCHANGED vars
  BY <1>0, <1>1, <1>3 DEF vars
<1>4. ASSUME NEW c \in Callers, Check(c)
      PROVE  PromisesHold' /\ (LimitIsPositive => NoneDeniedWhenDue)
  <2>1. UNCHANGED redis /\ \A d \in Callers : script[d] = "sent" => script'[d] # "denied"
    BY <1>0, <1>4 DEF Check
  <2>2. UNCHANGED <<local, served>> \/ Fallback(At[c])
    BY <1>4 DEF Check
  <2> QED BY <1>0, <1>1, <1>2, <2>1, <2>2
<1>5. ASSUME NEW c \in Callers, RunScript(c)
      PROVE  PromisesHold' /\ (LimitIsPositive => NoneDeniedWhenDue)
  <2>1. /\ Promise(redis, redis.ts)'
        /\ LimitIsPositive /\ script'[c] = "denied" =>
              stamp[c] < redis.due \/ redis.due = 0
    BY <1>5, ScriptPromises
  <2>2. UNCHANGED <<local, served>> /\ \A d \in Callers : d # c => script'[d] = script[d]
    BY <1>0, <1>5 DEF RunScript
  <2>3. PromisesHold'
    BY <2>1, <2>2 DEF PromisesHold
  <2> QED BY <2>1, <2>2, <2>3 DEF NoneDeniedWhenDue
<1>6. ASSUME NEW c \in Callers, Unavailable(c)
      PROVE  PromisesHold' /\ (LimitIsPositive => NoneDeniedWhenDue)
  <2>1. /\ UNCHANGED redis /\ Fallback(At[c])
        /\ \A d \in Callers : script[d] = "sent" => script'[d] # "denied"
    BY <1>0, <1>6 DEF Unavailable, GivesUp
  <2> QED BY <1>0, <1>2, <2>1
<1>7. ASSUME NEW c \in Callers, Dropped(c) \/ Reply(c) \/ Cancelled(c)
      PROVE  PromisesHold' /\ (LimitIsPositive => NoneDeniedWhenDue)
  <2>1. UNCHANGED <<local, served, redis>>
    BY <1>7 DEF Dropped, Reply, Cancelled
  <2>2. \A d \in Callers : script[d] = "sent" => script'[d] # "denied"
    BY <1>0, <1>7 DEF Dropped, Reply, Cancelled, GivesUp
  <2> QED BY <1>1, <2>1, <2>2
<1>8. CASE Tick
  <2>1. /\ UNCHANGED <<local, served, script>>
        /\ redis'.tokens = redis.tokens /\ redis'.ts = redis.ts /\ redis'.due = redis.due
    BY <1>8 DEF Tick
  <2>2. PromisesHold'
    BY <2>1 DEF PromisesHold, Promise
  <2> QED BY <1>0, <2>1, <2>2 DEF NoneDeniedWhenDue
<1> QED BY <1>3, <1>4, <1>5, <1>6, <1>7, <1>8 DEF Next, Step

\* "retry_after_s, the exact wait until one token is available": with a positive
\* limit, a caller that comes back after it, in Redis or on the same process, is
\* not denied unless somebody else was granted a token in between; for any limit,
\* refill rate and number of processes, however `ts` was moved.
THEOREM RetryAfterIsEnough ==
    ASSUME LimitIsPositive PROVE Spec => RetryAfterSuffices
<1>1. Init => TypeOK /\ Account /\ PromisesHold
  BY InitEstablishes DEF Init, PromisesHold, Promise
<1>2. TypeOK /\ Account /\ PromisesHold /\ [Next]_vars
        => (TypeOK /\ Account /\ PromisesHold)'
  BY StepKeeps, PromisesStep
<1>3. TypeOK /\ Account /\ PromisesHold /\ [Next]_vars => [NoneDeniedWhenDue]_vars
  BY PromisesStep
<1>4. Spec => [][NoneDeniedWhenDue]_vars
  BY <1>1, <1>2, <1>3, PTL DEF Spec
<1> QED BY <1>4 DEF RetryAfterSuffices, NoneDeniedWhenDue

-----------------------------------------------------------------------------
\* How far a script can move `ts` back.
NotAhead == redis.ts <= now + MaxSkew

LEMMA RewindStep ==
    ASSUME TypeOK, Account, NotAhead, [Next]_vars
    PROVE  NotAhead' /\ rewound' <= rewound + MaxSkew + MaxDelay
<1>1. /\ now \in Nat /\ rewound \in Nat /\ redis.ts \in Nat
      /\ MaxSkew \in Nat /\ MaxDelay \in Nat
  BY ClockAssumption DEF TypeOK, Bucket
<1>2. ASSUME redis'.ts = redis.ts, now' \in {now, now + 1}, rewound' = rewound
      PROVE  NotAhead' /\ rewound' <= rewound + MaxSkew + MaxDelay
  BY <1>1, <1>2 DEF NotAhead
<1>3. ASSUME NEW c \in Callers, RunScript(c)
      PROVE  NotAhead' /\ rewound' <= rewound + MaxSkew + MaxDelay
  <2>1. /\ stamp[c] \in Nat /\ stamp[c] <= now + MaxSkew /\ now <= stamp[c] + MaxDelay
    BY <1>3 DEF TypeOK, Account, StampsAreRecent, RunScript
  <2>2. redis'.ts = stamp[c] /\ now' = now
    BY <1>3 DEF RunScript
  <2>3. rewound' = rewound \/ rewound' = rewound + Monus(redis.ts, stamp[c])
    BY <1>3 DEF RunScript
  <2>4. Monus(redis.ts, stamp[c]) \in 0..(MaxSkew + MaxDelay)
    BY <1>1, <2>1 DEF Monus, NotAhead
  <2>5. rewound' <= rewound + MaxSkew + MaxDelay
    BY <1>1, <2>3, <2>4
  <2> QED BY <2>1, <2>2, <2>5 DEF NotAhead
<1>4. ASSUME NEW c \in Callers,
             Check(c) \/ Dropped(c) \/ Reply(c) \/ Unavailable(c) \/ Cancelled(c)
      PROVE  NotAhead' /\ rewound' <= rewound + MaxSkew + MaxDelay
  BY <1>2, <1>4 DEF Check, Dropped, Reply, Unavailable, Cancelled
<1>5. CASE Tick
  BY <1>2, <1>5 DEF Tick
<1>6. CASE UNCHANGED vars
  BY <1>2, <1>6 DEF vars
<1> QED BY <1>3, <1>4, <1>5, <1>6 DEF Next, Step

\* One script moves `ts` back by no more than the clocks differ and the script was
\* delayed: together with SharedBucketBound, what a caller whose clock reads less
\* can gain by it.
THEOREM RewindsAreSmall == Spec => [][rewound' <= rewound + MaxSkew + MaxDelay]_vars
<1>1. Init => TypeOK /\ Account /\ NotAhead
  BY InitEstablishes, ClockAssumption DEF Init, NotAhead
<1>2. TypeOK /\ Account /\ NotAhead /\ [Next]_vars => (TypeOK /\ Account /\ NotAhead)'
  BY StepKeeps, RewindStep
<1>3. TypeOK /\ Account /\ NotAhead /\ [Next]_vars
        => [rewound' <= rewound + MaxSkew + MaxDelay]_vars
  BY RewindStep
<1> QED BY <1>1, <1>2, <1>3, PTL DEF Spec

\* "enforced globally across every worker/instance" is true when the processes
\* share one clock and scripts take no time, with every fault, any number of
\* processes and the fallback: it is only clocks and delays that break it.
THEOREM EnforcedWithOneClock ==
    ASSUME MaxSkew = 0, MaxDelay = 0
    PROVE  Spec => []GloballyEnforced
<1> DEFINE I == TypeOK /\ Account /\ NotAhead /\ rewound = 0
<1>1. Init => I
  BY InitEstablishes, ClockAssumption DEF Init, NotAhead
<1>2. I /\ [Next]_vars => I'
  <2> SUFFICES ASSUME I, [Next]_vars PROVE I'
    OBVIOUS
  <2>1. TypeOK' /\ Account'
    BY StepKeeps
  <2>2. NotAhead' /\ rewound' <= rewound + MaxSkew + MaxDelay
    BY RewindStep
  <2>3. rewound' \in Nat
    BY <2>1 DEF TypeOK
  <2> QED BY <2>1, <2>2, <2>3
<1>3. I => GloballyEnforced
  <2> SUFFICES ASSUME I PROVE GloballyEnforced
    OBVIOUS
  <2>1. SharedBucketBound
    BY AccountBounds
  <2>2. now + MaxSkew + rewound = now + MaxSkew
    BY ClockAssumption DEF TypeOK
  <2> QED BY <2>1, <2>2 DEF SharedBucketBound, GloballyEnforced
<1> QED BY <1>1, <1>2, <1>3, PTL DEF Spec

=============================================================================
