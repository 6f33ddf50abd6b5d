---------------------------- MODULE GatewayProofs ----------------------------
(***************************************************************************)
(* The gateway's promises, for any catalog, any set of providers and any   *)
(* number of concurrent requests: what the router's sort returns, that     *)
(* candidates are tried best first, and what failover, billing and the     *)
(* circuits guarantee whatever fails.                                      *)
(***************************************************************************)
EXTENDS Gateway, CircuitBreakerProofs, FiniteOrders

-----------------------------------------------------------------------------
\* Routing.

\* Every strategy's key is an integer.
LEMMA KeyIsInteger ==
    ASSUME NEW t \in DOMAIN Catalog, NEW i \in DOMAIN Catalog[t]
    PROVE  Key(t, Catalog[t][i]) \in Int
<1> DEFINE c == Catalog[t][i]
<1>1. c.model \in DOMAIN Registry /\ c.provider \in Providers
  <2> DEFINE T == [provider: Providers, model: DOMAIN Registry]
  <2>1. Catalog[t] \in Seq(T)
    BY CatalogAssumption
  <2>2. i \in 1..Len(Catalog[t]) /\ Len(Catalog[t]) \in Nat
    BY <2>1
  <2>3. c \in T
    <3> HIDE DEF T
    <3> QED BY <2>1, <2>2
  <2> QED BY <2>3
<1>2. CASE t \in DOMAIN Strategy
  BY <1>1, <1>2, MetadataAssumption DEF Key, Metric
<1>3. CASE t \notin DOMAIN Strategy
  <2> DEFINE listed == {k \in DOMAIN Priority : Priority[k] = c.provider}
             ranked == {Priority[k] : k \in DOMAIN Priority}
  <2>1. Len(Priority) \in Nat /\ DOMAIN Priority = 1..Len(Priority)
    BY CatalogAssumption
  <2>2. CASE listed = {}
    <3>1. IsFiniteSet(1..Len(Priority))
      BY <2>1, FS_Interval
    <3>2. Priority \in Surjection(1..Len(Priority), ranked)
      BY <2>1, CatalogAssumption DEF Surjection
    <3>3. IsFiniteSet(ranked)
      BY <3>1, <3>2, FS_Surjection
    <3>4. Cardinality(ranked) \in Nat
      BY <3>3, FS_CardinalityType
    <3> QED BY <1>3, <2>2, <3>4 DEF Key, PriorityKey
  <2>3. CASE listed # {}
    <3>1. listed \in SUBSET (0..Len(Priority))
      BY <2>1
    <3>2. Max(listed) \in listed
      BY <2>1, <2>3, <3>1, GreatestElement
    <3> QED BY <1>3, <2>1, <2>3, <3>1, <3>2 DEF Key, PriorityKey
  <2> QED BY <2>2, <2>3
<1> QED BY <1>2, <1>3

\* RoutingStrategy.rank: what the router returns for a tier is the tier's list of
\* candidates in another order, sorted by the strategy's key, and stable.
THEOREM RankIsStableSort ==
    ASSUME NEW t \in DOMAIN Catalog
    PROVE  \E order \in Bijection(DOMAIN Catalog[t], DOMAIN Catalog[t]) :
              /\ Ranked[t] = [k \in DOMAIN Catalog[t] |-> Catalog[t][order[k]]]
              /\ \A k, l \in DOMAIN Catalog[t] : k < l => Ahead(t, order[k], order[l])
<1> DEFINE D == DOMAIN Catalog[t]
           n == Len(Catalog[t])
           R == {ss \in D \X D : Ahead(t, ss[1], ss[2])}
           Rank(i) == Cardinality({j \in D : Ahead(t, j, i)})
           order == [k \in D |-> CHOOSE i \in D : Rank(i) = k - 1]
<1>1. D = 1..n /\ n \in Nat
  BY CatalogAssumption
<1>2. IsFiniteSet(D) /\ Cardinality(D) = n
  <2> HIDE DEF D, n
  <2>1. /\ IsFiniteSet(1..n)
        /\ Cardinality(1..n) = IF 1 > n THEN 0 ELSE n - 1 + 1
    BY <1>1, FS_Interval
  <2> QED BY <1>1, <2>1
<1>3. \A i, j \in D : <<i, j>> \in R <=> Ahead(t, i, j)
  OBVIOUS
<1>4. StrictTotalOrder(R, D)
  <2>1. \A i \in D : Key(t, Catalog[t][i]) \in Int /\ i \in Nat
    BY <1>1, KeyIsInteger
  <2> HIDE DEF R, D
  <2> QED BY <1>3, <2>1 DEF StrictTotalOrder, Ahead
<1>5. \A i \in D : RankIn(R, D, i) = Rank(i)
  <2> SUFFICES ASSUME NEW i \in D PROVE RankIn(R, D, i) = Rank(i)
    OBVIOUS
  <2>1. {j \in D : <<j, i>> \in R} = {j \in D : Ahead(t, j, i)}
    BY <1>3
  <2> QED BY <2>1 DEF RankIn
<1> HIDE DEF R, D, Rank
<1>6. /\ \A i, j \in D : Ahead(t, i, j) => Rank(i) < Rank(j)
      /\ \A i \in D : Rank(i) \in 0..(n - 1)
      /\ \A k \in 0..(n - 1) : \E i \in D : Rank(i) = k
  <2>1. /\ \A i, j \in D : <<i, j>> \in R => RankIn(R, D, i) < RankIn(R, D, j)
        /\ \A i \in D : RankIn(R, D, i) \in 0..(Cardinality(D) - 1)
        /\ \A k \in 0..(Cardinality(D) - 1) : \E i \in D : RankIn(R, D, i) = k
    BY <1>2, <1>4, RanksAreTaken
  <2> QED BY <1>2, <1>3, <1>5, <2>1
<1>7. \A i, j \in D : i # j => Ahead(t, i, j) \/ Ahead(t, j, i)
  BY <1>3, <1>4 DEF StrictTotalOrder
<1>8. \A k \in D : order[k] \in D /\ Rank(order[k]) = k - 1
  <2> SUFFICES ASSUME NEW k \in D PROVE order[k] \in D /\ Rank(order[k]) = k - 1
    OBVIOUS
  <2>1. \E i \in D : Rank(i) = k - 1
    BY <1>1, <1>6
  <2> QED BY <2>1
<1>9. Ranked[t] = [k \in D |-> Catalog[t][order[k]]]
  BY DEF Ranked, D, Rank
<1> HIDE DEF order
<1>10. order \in Bijection(D, D)
  <2>1. order \in [D -> D]
    BY <1>8 DEF order
  <2>2. \A k, l \in D : order[k] = order[l] => k = l
    BY <1>1, <1>8
  <2>3. \A i \in D : \E k \in D : order[k] = i
    <3> SUFFICES ASSUME NEW i \in D PROVE \E k \in D : order[k] = i
      OBVIOUS
    <3>1. Rank(i) \in 0..(n - 1) /\ Rank(i) + 1 \in D
      BY <1>1, <1>6
    <3>2. order[Rank(i) + 1] \in D /\ Rank(order[Rank(i) + 1]) = Rank(i)
      BY <1>8, <3>1
    <3>3. order[Rank(i) + 1] = i
      BY <1>6, <1>7, <3>1, <3>2
    <3> QED BY <3>1, <3>3
  <2> QED BY <2>1, <2>2, <2>3 DEF Bijection, Injection, IsInjective, Surjection
<1>11. ASSUME NEW k \in D, NEW l \in D, k < l PROVE Ahead(t, order[k], order[l])
  <2>1. Rank(order[k]) < Rank(order[l]) /\ order[k] \in D /\ order[l] \in D
    BY <1>1, <1>8, <1>11
  <2>2. /\ order[k] # order[l]
        /\ ~Ahead(t, order[l], order[k])
    BY <1>6, <2>1
  <2> QED BY <1>7, <2>1, <2>2
<1> QED BY <1>9, <1>10, <1>11 DEF D

CandidateType == [provider: Providers, model: DOMAIN Registry]

\* What the failover loop needs to know of that order.
LEMMA RankedFacts ==
    ASSUME NEW t \in DOMAIN Catalog
    PROVE  /\ Ranked[t] \in Seq(CandidateType)
           /\ Len(Ranked[t]) = Len(Catalog[t])
           /\ \A k, l \in 1..Len(Ranked[t]) :
                 k <= l => Key(t, Ranked[t][k]) <= Key(t, Ranked[t][l])
           /\ \A i \in DOMAIN Catalog[t] :
                 \E k \in 1..Len(Ranked[t]) : Ranked[t][k] = Catalog[t][i]
<1> DEFINE D == DOMAIN Catalog[t]
           n == Len(Catalog[t])
<1>1. PICK order \in Bijection(D, D) :
          /\ Ranked[t] = [k \in D |-> Catalog[t][order[k]]]
          /\ \A k, l \in D : k < l => Ahead(t, order[k], order[l])
  BY RankIsStableSort
<1>2. Catalog[t] \in Seq(CandidateType)
  BY CatalogAssumption DEF CandidateType
<1>3. D = 1..n /\ n \in Nat
  BY <1>2
<1>4. order \in [D -> D] /\ \A i \in D : \E k \in D : order[k] = i
  BY <1>1 DEF Bijection, Injection, Surjection
<1>5. \A k \in D : Catalog[t][order[k]] \in CandidateType
  BY <1>2, <1>3, <1>4
<1>6. Ranked[t] \in Seq(CandidateType) /\ Len(Ranked[t]) = n
  <2> HIDE DEF D, n
  <2> QED BY <1>1, <1>3, <1>5
<1>7. ASSUME NEW k \in D, NEW l \in D, k <= l
      PROVE  Key(t, Ranked[t][k]) <= Key(t, Ranked[t][l])
  <2>1. /\ Ranked[t][k] = Catalog[t][order[k]] /\ Ranked[t][l] = Catalog[t][order[l]]
        /\ order[k] \in D /\ order[l] \in D
    BY <1>1, <1>4
  <2>2. /\ Key(t, Catalog[t][order[k]]) \in Int
        /\ Key(t, Catalog[t][order[l]]) \in Int
    BY <2>1, KeyIsInteger
  <2>3. k = l \/ k < l
    BY <1>3, <1>7
  <2> HIDE DEF D
  <2> QED BY <1>1, <2>1, <2>2, <2>3 DEF Ahead
<1>8. ASSUME NEW i \in D PROVE \E k \in D : Ranked[t][k] = Catalog[t][i]
  BY <1>1, <1>4
<1> QED BY <1>3, <1>6, <1>7, <1>8

-----------------------------------------------------------------------------
\* Failover.

\* The candidates of a request are a list of candidates.
LEMMA CandidatesType == \A r \in Requests : Candidates(r) \in Seq(CandidateType)
  BY RankedFacts DEF Candidates

\* The loop goes to the first usable candidate from index i on.
LEMMA FirstUsable ==
    ASSUME NEW r \in Requests, NEW i \in Nat, NEW brs, Usable(r, i, brs) # {}
    PROVE  /\ Min(Usable(r, i, brs)) \in Usable(r, i, brs)
           /\ Min(Usable(r, i, brs)) \in i..Len(Candidates(r))
           /\ \A j \in Usable(r, i, brs) : Min(Usable(r, i, brs)) <= j
<1>1. Len(Candidates(r)) \in Nat
  BY CandidatesType
<1>2. Usable(r, i, brs) \in SUBSET (i..Len(Candidates(r)))
  BY DEF Usable
<1>3. IsFiniteSet(i..Len(Candidates(r)))
  BY <1>1, FS_Interval
<1>4. IsFiniteSet(Usable(r, i, brs)) /\ Usable(r, i, brs) \in SUBSET Int
  BY <1>1, <1>2, <1>3, FS_Subset
<1> QED BY <1>2, <1>4, LeastElement

\* Everything the invariant says of one request.
Local(r) ==
    /\ Consistent(r)
    /\ req[r].failover_policy = AT_MOST_ONCE => \A i, j \in ran[r] \ stopped[r] : i = j
    /\ outcome[r] = "unavailable" => ran[r] \subseteq stopped[r]
    /\ Len(billed[r]) <= 1
    /\ \A k \in DOMAIN billed[r] : billed[r][k] \in ran[r] /\ billed[r][k] = at[r]
    /\ outcome[r] = "response" => billed[r] # <<>>

LEMMA InvIsLocal == Inv <=> TypeOK /\ \A r \in Requests : Local(r)
  BY DEF Inv, Local, AtMostOneExecution, UnavailableNeverRan, BilledOnce

\* A step of request r leaves the other requests' share of the state alone.
Others(r) ==
    /\ req' = req
    /\ \A d \in Requests \ {r} :
          /\ pc'[d] = pc[d] /\ at'[d] = at[d] /\ gen'[d] = gen[d]
          /\ ambiguous'[d] = ambiguous[d] /\ outcome'[d] = outcome[d]
          /\ ran'[d] = ran[d] /\ billed'[d] = billed[d] /\ stopped'[d] = stopped[d]

LEMMA OthersKeepLocal ==
    ASSUME NEW r \in Requests, Others(r), NEW d \in Requests, d # r, Local(d)
    PROVE  Local(d)'
  BY DEF Others, Local, Consistent, Candidates

\* A candidate that is being tried has a provider, and that provider's breaker
\* stays a breaker whatever outcome it is told.
LEMMA OutcomesAreRecorded ==
    ASSUME TypeOK, NEW r \in Requests, at[r] \in 1..Len(Candidates(r))
    PROVE  /\ Provider(r) \in Providers
           /\ Failed(r) \in [Providers -> Breaker]
           /\ Aborted(r) \in [Providers -> Breaker]
           /\ Succeeded(r) \in [Providers -> Breaker]
<1>1. Candidates(r)[at[r]] \in CandidateType
  BY CandidatesType
<1>2. Provider(r) \in Providers
  BY <1>1 DEF Provider, CandidateType
<1>3. Circuit(r) \in Breaker /\ gen[r] \in Nat /\ breaker \in [Providers -> Breaker]
  BY <1>2 DEF Circuit, TypeOK
<1>4. /\ RecordFailure(Circuit(r), gen[r]) \in Breaker
      /\ RecordAbort(Circuit(r), gen[r]) \in Breaker
      /\ RecordSuccess(Circuit(r), gen[r]) \in Breaker
  BY <1>3, BreakerOperations
<1> HIDE DEF Provider, Circuit
<1> QED BY <1>2, <1>3, <1>4 DEF Failed, Aborted, Succeeded

\* The loop keeps the types, and leaves the request answered as Exhausted says or
\* sent to a later candidate.
LEMMA TryFromDoes ==
    ASSUME TypeOK, NEW r \in Requests, NEW i \in Nat \ {0}, NEW amb \in BOOLEAN,
           NEW brs \in [Providers -> Breaker], TryFrom(r, i, brs, amb)
    PROVE  /\ breaker' \in [Providers -> Breaker]
           /\ at' \in [Requests -> Nat] /\ gen' \in [Requests -> Nat]
           /\ ambiguous' = [ambiguous EXCEPT ![r] = amb]
           /\ \/ /\ pc' = [pc EXCEPT ![r] = "done"] /\ at' = at /\ gen' = gen
                 /\ outcome' = [outcome EXCEPT ![r] = Exhausted(amb)]
              \/ \E j \in i..Len(Candidates(r)) :
                    /\ at' = [at EXCEPT ![r] = j] /\ outcome' = outcome
                    /\ \A d \in Requests \ {r} : gen'[d] = gen[d]
                    /\ \E to \in {"completing", "priming"} :
                          pc' = [pc EXCEPT ![r] = to]
<1>1. CASE Usable(r, i, brs) = {}
  BY <1>1 DEF TryFrom, Answer, TypeOK
<1>2. CASE Usable(r, i, brs) # {}
  <2> DEFINE j == Min(Usable(r, i, brs))
             p == Candidates(r)[j].provider
  <2>1. j \in i..Len(Candidates(r)) /\ Len(Candidates(r)) \in Nat
    BY <1>2, FirstUsable, CandidatesType
  <2>2. /\ breaker' = [brs EXCEPT ![p] = Allow(brs[p])]
        /\ at' = [at EXCEPT ![r] = j]
        /\ gen' = [gen EXCEPT ![r] = Allow(brs[p]).gen]
        /\ ambiguous' = [ambiguous EXCEPT ![r] = amb]
        /\ Goto(r, IF req[r].stream THEN "priming" ELSE "completing")
    BY <1>2 DEF TryFrom
  <2> HIDE DEF j
  <2>3. Candidates(r)[j] \in CandidateType
    BY <2>1, CandidatesType
  <2>4. p \in Providers
    BY <2>3 DEF CandidateType
  <2> HIDE DEF p
  <2>5. Allow(brs[p]) \in Breaker
    BY <2>4, BreakerOperations
  <2>6. Allow(brs[p]).gen \in Nat
    BY <2>5 DEF Breaker
  <2>7. /\ breaker' \in [Providers -> Breaker]
        /\ at' \in [Requests -> Nat] /\ gen' \in [Requests -> Nat]
    <3>1. breaker' \in [Providers -> Breaker]
      BY <2>2, <2>5
    <3>2. at \in [Requests -> Nat] /\ gen \in [Requests -> Nat] /\ j \in Nat
      BY <2>1 DEF TypeOK
    <3> QED BY <2>2, <2>6, <3>1, <3>2
  <2>8. \E to \in {"completing", "priming"} : pc' = [pc EXCEPT ![r] = to]
    BY <2>2 DEF Goto
  <2>9. \A d \in Requests \ {r} : gen'[d] = gen[d]
    BY <2>2 DEF TypeOK
  <2> QED BY <2>1, <2>2, <2>7, <2>8, <2>9 DEF Goto
<1> QED BY <1>1, <1>2

\* Entering the loop at a later candidate, or at the first one, keeps a request's
\* share of the invariant, if what was ambiguous is remembered as the policy asks
\* and what may have run is either excused or remembered.
LEMMA TryFromKeeps ==
    ASSUME TypeOK, NEW r \in Requests, Local(r), NEW i \in Nat \ {0},
           NEW amb \in BOOLEAN, NEW brs \in [Providers -> Breaker],
           TryFrom(r, i, brs, amb),
           pc[r] \in {"new", "completing", "priming"},
           ~amb => ran'[r] \subseteq stopped'[r],
           req[r].failover_policy = AT_MOST_ONCE =>
               ~amb /\ \A k, l \in ran'[r] \ stopped'[r] : k = l,
           req' = req, billed' = billed
    PROVE  Local(r)'
<1>1. /\ outcome[r] = "none" /\ billed[r] = <<>> /\ req'[r] = req[r]
      /\ billed'[r] = <<>> /\ Candidates(r)' = Candidates(r)
  BY DEF Local, Consistent, Candidates
<1>2. /\ r \in DOMAIN pc /\ r \in DOMAIN at /\ r \in DOMAIN outcome
      /\ r \in DOMAIN ambiguous /\ Len(Candidates(r)) \in Nat
  BY CandidatesType DEF TypeOK
<1>3. ambiguous'[r] = amb
  BY <1>2, TryFromDoes
<1>4. CASE /\ pc' = [pc EXCEPT ![r] = "done"]
           /\ outcome' = [outcome EXCEPT ![r] = Exhausted(amb)]
  <2>1. pc'[r] = "done" /\ outcome'[r] = Exhausted(amb)
    BY <1>2, <1>4
  <2> QED BY <1>1, <1>3, <2>1 DEF Local, Consistent, Exhausted, Calling, Committed
<1>5. CASE \E j \in i..Len(Candidates(r)) :
              /\ at' = [at EXCEPT ![r] = j] /\ outcome' = outcome
              /\ \E to \in {"completing", "priming"} : pc' = [pc EXCEPT ![r] = to]
  <2>1. /\ pc'[r] \in {"completing", "priming"} /\ outcome'[r] = "none"
        /\ at'[r] \in 1..Len(Candidates(r))
    BY <1>1, <1>2, <1>5
  <2> QED BY <1>1, <1>3, <2>1 DEF Local, Consistent, Calling, Committed
<1> QED BY <1>4, <1>5, TryFromDoes

\* Entering the loop keeps the types and leaves the other requests alone.
LEMMA TryFromTypes ==
    ASSUME TypeOK, NEW r \in Requests, NEW i \in Nat \ {0},
           NEW amb \in BOOLEAN, NEW brs \in [Providers -> Breaker],
           TryFrom(r, i, brs, amb), req' = req, billed' = billed,
           ran' = ran \/ ran' = [ran EXCEPT ![r] = @ \cup {at[r]}],
           stopped' = stopped \/ stopped' = [stopped EXCEPT ![r] = @ \cup {at[r]}],
           at[r] = 0 => ran' = ran /\ stopped' = stopped,
           leaked' \in SUBSET Providers, faults' \in 0..MaxFaults
    PROVE  TypeOK' /\ Others(r)
<1>1. /\ breaker' \in [Providers -> Breaker]
      /\ at' \in [Requests -> Nat] /\ gen' \in [Requests -> Nat]
      /\ ambiguous' = [ambiguous EXCEPT ![r] = amb]
  BY TryFromDoes
<1>2. \/ /\ pc' = [pc EXCEPT ![r] = "done"] /\ at' = at /\ gen' = gen
         /\ outcome' = [outcome EXCEPT ![r] = Exhausted(amb)]
      \/ \E j \in i..Len(Candidates(r)) :
            /\ at' = [at EXCEPT ![r] = j] /\ outcome' = outcome
            /\ \A d \in Requests \ {r} : gen'[d] = gen[d]
            /\ \E to \in {"completing", "priming"} : pc' = [pc EXCEPT ![r] = to]
  BY TryFromDoes
<1>3. Exhausted(amb) \in Outcomes
  BY DEF Exhausted, Outcomes
<1>4. at[r] \in Nat
  BY DEF TypeOK
<1>5. /\ ran' \in [Requests -> SUBSET (Nat \ {0})]
      /\ stopped' \in [Requests -> SUBSET (Nat \ {0})]
  <2>1. CASE at[r] = 0
    BY <2>1 DEF TypeOK
  <2>2. CASE at[r] # 0
    <3>1. /\ ran \in [Requests -> SUBSET (Nat \ {0})]
          /\ stopped \in [Requests -> SUBSET (Nat \ {0})]
      BY DEF TypeOK
    <3>2. ran[r] \cup {at[r]} \in SUBSET (Nat \ {0})
      BY <1>4, <2>2, <3>1
    <3>3. stopped[r] \cup {at[r]} \in SUBSET (Nat \ {0})
      BY <1>4, <2>2, <3>1
    <3> QED BY <3>1, <3>2, <3>3
  <2> QED BY <2>1, <2>2
<1>6. /\ pc' \in [Requests -> Calling \cup Committed \cup {"new", "recording", "done"}]
      /\ outcome' \in [Requests -> Outcomes]
      /\ ambiguous' \in [Requests -> BOOLEAN]
  <2>1. PICK to \in {"done", "completing", "priming"} : pc' = [pc EXCEPT ![r] = to]
    BY <1>2
  <2>2. outcome' = outcome \/ outcome' = [outcome EXCEPT ![r] = Exhausted(amb)]
    BY <1>2
  <2>3. pc' \in [Requests -> Calling \cup Committed \cup {"new", "recording", "done"}]
    BY <2>1 DEF TypeOK, Calling
  <2>4. outcome' \in [Requests -> Outcomes]
    BY <1>3, <2>2 DEF TypeOK
  <2>5. ambiguous' \in [Requests -> BOOLEAN]
    BY <1>1 DEF TypeOK
  <2> QED BY <2>3, <2>4, <2>5
<1>7. TypeOK'
  BY <1>1, <1>5, <1>6 DEF TypeOK
<1>8. \A d \in Requests \ {r} : /\ pc'[d] = pc[d] /\ outcome'[d] = outcome[d]
                                /\ at'[d] = at[d] /\ gen'[d] = gen[d]
  BY <1>2 DEF TypeOK
<1>9. \A d \in Requests \ {r} : /\ ambiguous'[d] = ambiguous[d] /\ ran'[d] = ran[d]
                                /\ stopped'[d] = stopped[d]
  BY <1>1 DEF TypeOK
<1> QED BY <1>7, <1>8, <1>9 DEF Others

\* The steps of a request, one by one: each keeps the types and the request's share
\* of the invariant, and leaves the other requests' share alone.
LEMMA StartKeeps ==
    ASSUME TypeOK, NEW r \in Requests, Local(r), Start(r)
    PROVE  TypeOK' /\ Others(r) /\ Local(r)'
<1> DEFINE amb == FALSE
<1>1. /\ pc[r] = "new" /\ TryFrom(r, 1, breaker, amb)
      /\ UNCHANGED <<req, ran, billed, faults, stopped, leaked>>
      /\ amb \in BOOLEAN /\ ~amb
  BY DEF Start, history
<1> HIDE DEF amb
<1>2. /\ breaker \in [Providers -> Breaker] /\ leaked \in SUBSET Providers
      /\ faults \in 0..MaxFaults
  BY DEF TypeOK
<1>3. /\ ~amb => ran'[r] \subseteq stopped'[r]
      /\ req[r].failover_policy = AT_MOST_ONCE =>
            ~amb /\ \A k, l \in ran'[r] \ stopped'[r] : k = l
  BY <1>1 DEF Local, Consistent
<1>4. TypeOK' /\ Others(r)
  BY <1>1, <1>2, TryFromTypes
<1>5. Local(r)'
  BY <1>1, <1>2, <1>3, TryFromKeeps
<1> QED BY <1>4, <1>5

\* UpstreamUnavailable goes to the next candidate and claims that nothing ran.
LEMMA FailsUnavailableKeeps ==
    ASSUME TypeOK, NEW r \in Requests, Local(r), FailsUnavailable(r)
    PROVE  TypeOK' /\ Others(r) /\ Local(r)'
<1>1. /\ pc[r] \in {"completing", "priming"} /\ faults' = faults + 1
      /\ faults < MaxFaults
      /\ TryFrom(r, at[r] + 1, Failed(r), ambiguous[r])
      /\ UNCHANGED <<req, ran, billed, stopped, leaked>>
  BY DEF FailsUnavailable, Waiting, Fault, history
<1>2. /\ leaked \in SUBSET Providers /\ faults' \in 0..MaxFaults
      /\ ambiguous[r] \in BOOLEAN /\ at[r] + 1 \in Nat \ {0}
  BY <1>1, GatewayConstantsAssumption DEF TypeOK
<1>3. at[r] \in 1..Len(Candidates(r))
  BY <1>1 DEF Local, Consistent, Calling
<1>4. Failed(r) \in [Providers -> Breaker]
  BY <1>3, OutcomesAreRecorded
<1>5. /\ ~ambiguous[r] => ran'[r] \subseteq stopped'[r]
      /\ req[r].failover_policy = AT_MOST_ONCE =>
            ~ambiguous[r] /\ \A k, l \in ran'[r] \ stopped'[r] : k = l
  BY <1>1 DEF Local, Consistent
<1>6. TypeOK' /\ Others(r)
  BY <1>1, <1>2, <1>4, TryFromTypes
<1>7. Local(r)'
  BY <1>1, <1>2, <1>4, <1>5, TryFromKeeps
<1> QED BY <1>6, <1>7

\* A step that stays with the current candidate, moving the request to `to` with
\* outcome o; the usage record, what ran and what stopped are stated where used.
Moves(r, to, o) ==
    /\ pc' = [pc EXCEPT ![r] = to]
    /\ \/ outcome' = [outcome EXCEPT ![r] = o]
       \/ outcome' = outcome /\ o = outcome[r]
    /\ UNCHANGED <<req, at, gen>>
    /\ ambiguous' \in {ambiguous, [ambiguous EXCEPT ![r] = TRUE]}
    /\ breaker' \in [Providers -> Breaker]
    /\ leaked' \in SUBSET Providers
    /\ faults' \in 0..MaxFaults
    /\ ran' \in {ran, [ran EXCEPT ![r] = @ \cup {at[r]}]}
    /\ billed' \in {billed, [billed EXCEPT ![r] = Append(@, at[r])]}
    /\ stopped' \in {stopped, [stopped EXCEPT ![r] = @ \cup {at[r]}]}

LEMMA MovesTypes ==
    ASSUME TypeOK, NEW r \in Requests, NEW to, NEW o, Moves(r, to, o),
           to \in Calling \cup Committed \cup {"recording", "done"}, o \in Outcomes,
           at[r] # 0
    PROVE  /\ TypeOK' /\ Others(r)
           /\ pc'[r] = to /\ outcome'[r] = o /\ at'[r] = at[r] /\ req'[r] = req[r]
           /\ Candidates(r)' = Candidates(r)
<1>1. at[r] \in Nat \ {0}
  BY DEF TypeOK
<1>2. ran' \in [Requests -> SUBSET (Nat \ {0})]
  <2>1. ran \in [Requests -> SUBSET (Nat \ {0})]
    BY DEF TypeOK
  <2>2. ran[r] \cup {at[r]} \in SUBSET (Nat \ {0})
    BY <1>1, <2>1
  <2> QED BY <2>1, <2>2 DEF Moves
<1>3. stopped' \in [Requests -> SUBSET (Nat \ {0})]
  <2>1. stopped \in [Requests -> SUBSET (Nat \ {0})]
    BY DEF TypeOK
  <2>2. stopped[r] \cup {at[r]} \in SUBSET (Nat \ {0})
    BY <1>1, <2>1
  <2> QED BY <2>1, <2>2 DEF Moves
<1>4. billed' \in [Requests -> Seq(Nat \ {0})]
  <2>1. billed \in [Requests -> Seq(Nat \ {0})]
    BY DEF TypeOK
  <2>2. billed[r] \in Seq(Nat \ {0})
    BY <2>1
  <2>3. Append(billed[r], at[r]) \in Seq(Nat \ {0})
    BY <1>1, <2>2
  <2> QED BY <2>1, <2>3 DEF Moves
<1>5. pc' \in [Requests -> Calling \cup Committed \cup {"new", "recording", "done"}]
  BY DEF TypeOK, Moves
<1>6. outcome' \in [Requests -> Outcomes]
  BY DEF TypeOK, Moves
<1>7. ambiguous' \in [Requests -> BOOLEAN]
  BY DEF TypeOK, Moves
<1>8. TypeOK'
  BY <1>2, <1>3, <1>4, <1>5, <1>6, <1>7 DEF TypeOK, Moves
<1>9. \A d \in Requests \ {r} : /\ pc'[d] = pc[d] /\ outcome'[d] = outcome[d]
                                /\ at'[d] = at[d] /\ gen'[d] = gen[d]
  BY DEF TypeOK, Moves
<1>10. \A d \in Requests \ {r} : ambiguous'[d] = ambiguous[d] /\ ran'[d] = ran[d]
  BY DEF TypeOK, Moves
<1>11. \A d \in Requests \ {r} : billed'[d] = billed[d] /\ stopped'[d] = stopped[d]
  BY DEF TypeOK, Moves
<1>12. Others(r)
  BY <1>9, <1>10, <1>11 DEF Others, Moves
<1>13. pc'[r] = to /\ outcome'[r] = o /\ at'[r] = at[r] /\ req'[r] = req[r]
  BY DEF TypeOK, Moves
<1>14. Candidates(r)' = Candidates(r)
  BY DEF Candidates, Moves
<1> QED BY <1>8, <1>12, <1>13, <1>14

\* A call that ends before any event, with the caller told so: the candidate may
\* have run, and no other will.
LEMMA EndsWaiting ==
    ASSUME TypeOK, NEW r \in Requests, Local(r), NEW o, Moves(r, "done", o),
           pc[r] \in {"completing", "priming"}, o \in {"ambiguous", "error", "cancelled"},
           UNCHANGED <<billed, stopped>>
    PROVE  TypeOK' /\ Others(r) /\ Local(r)'
<1>1. /\ at[r] \in 1..Len(Candidates(r)) /\ billed[r] = <<>>
      /\ req[r].failover_policy = AT_MOST_ONCE => ran[r] \subseteq stopped[r]
  BY DEF Local, Consistent, Calling
<1>2. /\ TypeOK' /\ Others(r) /\ pc'[r] = "done" /\ outcome'[r] = o
      /\ at'[r] = at[r] /\ req'[r] = req[r] /\ Candidates(r)' = Candidates(r)
  BY <1>1, MovesTypes DEF Outcomes
<1>3. ran'[r] = ran[r] \/ ran'[r] = ran[r] \cup {at[r]}
  BY DEF Moves, TypeOK
<1>4. req[r].failover_policy = AT_MOST_ONCE => \A i, j \in ran'[r] \ stopped'[r] : i = j
  BY <1>1, <1>3
<1>5. Local(r)'
  BY <1>1, <1>2, <1>4 DEF Local, Consistent, Calling, Committed
<1> QED BY <1>2, <1>5

\* The candidate answers: from now on it has executed the request.
LEMMA CandidateAnswers ==
    ASSUME TypeOK, NEW r \in Requests, Local(r), NEW to, Moves(r, to, outcome[r]),
           pc[r] \in {"completing", "priming"}, to \in {"recording", "at_delta", "settling"},
           ran' = [ran EXCEPT ![r] = @ \cup {at[r]}], UNCHANGED <<billed, stopped>>
    PROVE  TypeOK' /\ Others(r) /\ Local(r)'
<1>1. /\ at[r] \in 1..Len(Candidates(r)) /\ billed[r] = <<>> /\ outcome[r] = "none"
      /\ req[r].failover_policy = AT_MOST_ONCE => ran[r] \subseteq stopped[r]
  BY DEF Local, Consistent, Calling
<1>2. /\ TypeOK' /\ Others(r) /\ pc'[r] = to /\ outcome'[r] = outcome[r]
      /\ at'[r] = at[r] /\ req'[r] = req[r] /\ Candidates(r)' = Candidates(r)
  BY <1>1, MovesTypes DEF Outcomes, Calling, Committed
<1>3. ran'[r] = ran[r] \cup {at[r]}
  BY DEF TypeOK
<1>4. req[r].failover_policy = AT_MOST_ONCE => \A i, j \in ran'[r] \ stopped'[r] : i = j
  BY <1>1, <1>3
<1>5. Local(r)'
  BY <1>1, <1>2, <1>3, <1>4 DEF Local, Consistent, Calling, Committed
<1> QED BY <1>2, <1>5

\* Draining goes on with the candidate it began with.
LEMMA DrainGoesOn ==
    ASSUME TypeOK, NEW r \in Requests, Local(r), NEW to, Moves(r, to, outcome[r]),
           pc[r] \in Committed, to \in Committed, UNCHANGED <<ran, billed, stopped>>
    PROVE  TypeOK' /\ Others(r) /\ Local(r)'
<1>1. at[r] \in 1..Len(Candidates(r)) /\ billed[r] = <<>> /\ outcome[r] = "none"
  BY DEF Local, Consistent, Committed
<1>2. /\ TypeOK' /\ Others(r) /\ pc'[r] = to /\ outcome'[r] = outcome[r]
      /\ at'[r] = at[r] /\ req'[r] = req[r] /\ Candidates(r)' = Candidates(r)
  BY <1>1, MovesTypes DEF Outcomes
<1>3. Local(r)'
  BY <1>1, <1>2 DEF Local, Consistent, Committed
<1> QED BY <1>2, <1>3

\* The candidate that answered ends without a usage record.
LEMMA EndsUnbilled ==
    ASSUME TypeOK, NEW r \in Requests, Local(r), NEW to, NEW o, Moves(r, to, o),
           pc[r] \in Committed \cup {"recording"}, to \in {"done", "finalizing"},
           o \in {"interrupted", "error", "cancelled"}, UNCHANGED <<ran, billed>>
    PROVE  TypeOK' /\ Others(r) /\ Local(r)'
<1>1. at[r] \in 1..Len(Candidates(r)) /\ billed[r] = <<>>
  BY DEF Local, Consistent, Committed
<1>2. /\ TypeOK' /\ Others(r) /\ pc'[r] = to /\ outcome'[r] = o
      /\ at'[r] = at[r] /\ req'[r] = req[r] /\ Candidates(r)' = Candidates(r)
  BY <1>1, MovesTypes DEF Outcomes, Calling
<1>3. stopped'[r] = stopped[r] \/ stopped'[r] = stopped[r] \cup {at[r]}
  BY DEF Moves, TypeOK
<1>4. req[r].failover_policy = AT_MOST_ONCE => \A i, j \in ran'[r] \ stopped'[r] : i = j
  BY <1>3 DEF Local
<1>5. Local(r)'
  BY <1>1, <1>2, <1>4 DEF Local, Consistent, Calling, Committed
<1> QED BY <1>2, <1>5

\* The candidate that answered is billed, once, and that ends the request.
LEMMA EndsBilled ==
    ASSUME TypeOK, NEW r \in Requests, Local(r), NEW to, NEW o, Moves(r, to, o),
           pc[r] \in Committed \cup {"recording"}, to \in {"done", "finalizing"},
           o \in {"response", "interrupted"}, UNCHANGED <<ran, stopped>>,
           billed' = [billed EXCEPT ![r] = Append(@, at[r])]
    PROVE  TypeOK' /\ Others(r) /\ Local(r)'
<1>1. at[r] \in 1..Len(Candidates(r)) /\ billed[r] = <<>> /\ at[r] \in ran[r]
  BY DEF Local, Consistent, Committed
<1>2. /\ TypeOK' /\ Others(r) /\ pc'[r] = to /\ outcome'[r] = o
      /\ at'[r] = at[r] /\ req'[r] = req[r] /\ Candidates(r)' = Candidates(r)
  BY <1>1, MovesTypes DEF Outcomes, Calling
<1>3. Len(billed'[r]) = 1 /\ DOMAIN billed'[r] = {1} /\ billed'[r][1] = at[r]
  <2>1. billed[r] \in Seq(Nat \ {0}) /\ Len(billed[r]) = 0 /\ at[r] \in Nat \ {0}
    BY <1>1 DEF TypeOK
  <2>2. billed'[r] = Append(billed[r], at[r])
    BY DEF TypeOK
  <2>3. Len(billed'[r]) = 1 /\ billed'[r][1] = at[r]
    BY <2>1, <2>2
  <2>4. billed'[r] \in Seq(Nat \ {0})
    BY <1>2 DEF TypeOK
  <2>5. DOMAIN billed'[r] = 1..1
    BY <2>3, <2>4
  <2> QED BY <2>3, <2>5
<1>4. Local(r)'
  BY <1>1, <1>2, <1>3 DEF Local, Consistent, Calling, Committed
<1> QED BY <1>2, <1>4

\* Closing an abandoned generator changes nothing but the circuit.
LEMMA FinalizedKeeps ==
    ASSUME TypeOK, NEW r \in Requests, Local(r), Finalized(r)
    PROVE  TypeOK' /\ Others(r) /\ Local(r)'
<1>1. at[r] \in 1..Len(Candidates(r))
  BY DEF Local, Consistent, Calling, Finalized
<1>2. Moves(r, "done", outcome[r]) /\ UNCHANGED <<ran, billed, stopped>>
  BY <1>1, OutcomesAreRecorded DEF Finalized, Moves, Goto, history, TypeOK
<1>3. /\ TypeOK' /\ Others(r) /\ pc'[r] = "done" /\ outcome'[r] = outcome[r]
      /\ at'[r] = at[r] /\ req'[r] = req[r] /\ Candidates(r)' = Candidates(r)
  BY <1>1, <1>2, MovesTypes DEF TypeOK
<1>4. Local(r)'
  BY <1>2, <1>3 DEF Local, Consistent, Calling, Committed
<1> QED BY <1>3, <1>4

\* UpstreamAmbiguous: AT_MOST_ONCE ends the request, AT_LEAST_ONCE remembers it.
LEMMA FailsAmbiguousKeeps ==
    ASSUME TypeOK, NEW r \in Requests, Local(r), FailsAmbiguous(r)
    PROVE  TypeOK' /\ Others(r) /\ Local(r)'
<1> DEFINE amb == TRUE
<1>1. /\ pc[r] \in {"completing", "priming"} /\ faults' = faults + 1
      /\ faults < MaxFaults
      /\ UNCHANGED <<req, billed, stopped, leaked>>
      /\ ran' \in {ran, [ran EXCEPT ![r] = @ \cup {at[r]}]}
  BY DEF FailsAmbiguous, Waiting, Fault, MayHaveRun, history
<1>2. /\ leaked \in SUBSET Providers /\ faults' \in 0..MaxFaults
      /\ at[r] + 1 \in Nat \ {0}
  BY <1>1, GatewayConstantsAssumption DEF TypeOK
<1>3. at[r] \in 1..Len(Candidates(r))
  BY <1>1 DEF Local, Consistent, Calling
<1>4. Failed(r) \in [Providers -> Breaker]
  BY <1>3, OutcomesAreRecorded
<1>5. CASE req[r].failover_policy = AT_LEAST_ONCE
  <2>1. TryFrom(r, at[r] + 1, Failed(r), amb) /\ amb /\ amb \in BOOLEAN
    BY <1>5 DEF FailsAmbiguous, AT_LEAST_ONCE, AT_MOST_ONCE
  <2> HIDE DEF amb
  <2>2. req[r].failover_policy # AT_MOST_ONCE
    BY <1>5 DEF AT_LEAST_ONCE, AT_MOST_ONCE
  <2>3. at[r] # 0
    BY <1>3
  <2>4. TypeOK' /\ Others(r)
    BY <1>1, <1>2, <1>4, <2>1, <2>3, TryFromTypes
  <2>5. Local(r)'
    BY <1>1, <1>2, <1>4, <2>1, <2>2, TryFromKeeps
  <2> QED BY <2>4, <2>5
<1>6. CASE req[r].failover_policy # AT_LEAST_ONCE
  <2>1. Moves(r, "done", "ambiguous")
    BY <1>1, <1>2, <1>4, <1>6 DEF FailsAmbiguous, Moves, Answer
  <2> QED BY <1>1, <2>1, EndsWaiting
<1> QED BY <1>5, <1>6

\* A stream that stops before any event: the next candidate is tried, and the one
\* that stopped is set aside.
LEMMA PrimeStopsKeeps ==
    ASSUME TypeOK, NEW r \in Requests, Local(r), PrimeStops(r)
    PROVE  TypeOK' /\ Others(r) /\ Local(r)'
<1>1. /\ pc[r] = "priming" /\ UNCHANGED <<req, billed, faults>>
      /\ TryFrom(r, at[r] + 1, breaker, ambiguous[r])
      /\ ran' \in {ran, [ran EXCEPT ![r] = @ \cup {at[r]}]}
      /\ stopped' = [stopped EXCEPT ![r] = @ \cup {at[r]}]
      /\ leaked' \in {leaked, leaked \cup {Provider(r)}}
  BY DEF PrimeStops, Stops, MayHaveRun
<1>2. at[r] \in 1..Len(Candidates(r))
  BY <1>1 DEF Local, Consistent, Calling
<1>3. /\ leaked' \in SUBSET Providers /\ faults' \in 0..MaxFaults
      /\ at[r] + 1 \in Nat \ {0} /\ at[r] # 0
      /\ ambiguous[r] \in BOOLEAN /\ breaker \in [Providers -> Breaker]
  BY <1>1, <1>2, OutcomesAreRecorded DEF TypeOK
<1>4. /\ ran'[r] = ran[r] \/ ran'[r] = ran[r] \cup {at[r]}
      /\ stopped'[r] = stopped[r] \cup {at[r]}
  BY <1>1 DEF TypeOK
<1>5. /\ ~ambiguous[r] => ran'[r] \subseteq stopped'[r]
      /\ req[r].failover_policy = AT_MOST_ONCE =>
            ~ambiguous[r] /\ \A k, l \in ran'[r] \ stopped'[r] : k = l
  BY <1>1, <1>4 DEF Local, Consistent
<1>6. TypeOK' /\ Others(r)
  BY <1>1, <1>3, TryFromTypes
<1>7. Local(r)'
  BY <1>1, <1>3, <1>5, TryFromKeeps
<1> QED BY <1>6, <1>7

\* Every other step stays with its candidate.
LEMMA HandleKeeps ==
    ASSUME TypeOK, NEW r \in Requests, Local(r), Handle(r)
    PROVE  TypeOK' /\ Others(r) /\ Local(r)'
<1>a. /\ pc[r] \in Calling \cup Committed \cup {"recording"} =>
            /\ Failed(r) \in [Providers -> Breaker]
            /\ Aborted(r) \in [Providers -> Breaker]
            /\ Succeeded(r) \in [Providers -> Breaker]
            /\ Provider(r) \in Providers
      /\ breaker \in [Providers -> Breaker] /\ leaked \in SUBSET Providers
      /\ faults \in 0..MaxFaults
      /\ faults < MaxFaults => faults + 1 \in 0..MaxFaults
  <2>1. faults \in 0..MaxFaults /\ faults < MaxFaults => faults + 1 \in 0..MaxFaults
    BY GatewayConstantsAssumption
  <2>2. pc[r] \in Calling \cup Committed \cup {"recording"} =>
            at[r] \in 1..Len(Candidates(r))
    BY DEF Local, Consistent
  <2> QED BY <2>1, <2>2, OutcomesAreRecorded DEF TypeOK
<1> USE <1>a DEF Calling, Committed, Waiting, Fault, Answer, Abandon, Goto, HasRun,
               MayHaveRun, Bill, history
<1>1. CASE Start(r) BY <1>1, StartKeeps
<1>2. CASE FailsUnavailable(r) BY <1>2, FailsUnavailableKeeps
<1>3. CASE FailsAmbiguous(r) BY <1>3, FailsAmbiguousKeeps
<1>4. CASE PrimeStops(r) BY <1>4, PrimeStopsKeeps
<1>5. CASE Finalized(r) BY <1>5, FinalizedKeeps
<1>6. CASE FailsRaw(r)
  <2>1. /\ Moves(r, "done", "error") /\ pc[r] \in {"completing", "priming"}
        /\ UNCHANGED <<billed, stopped>>
    BY <1>6 DEF FailsRaw, Moves
  <2> QED BY <2>1, EndsWaiting
<1>7. CASE CancelledWaiting(r)
  <2>1. /\ Moves(r, "done", "cancelled") /\ pc[r] \in {"completing", "priming"}
        /\ UNCHANGED <<billed, stopped>>
    BY <1>7 DEF CancelledWaiting, Moves
  <2> QED BY <2>1, EndsWaiting
<1>8. CASE CompleteReturns(r)
  <2>1. /\ Moves(r, "recording", outcome[r]) /\ pc[r] = "completing"
        /\ ran' = [ran EXCEPT ![r] = @ \cup {at[r]}] /\ UNCHANGED <<billed, stopped>>
    BY <1>8 DEF CompleteReturns, Moves
  <2> QED BY <2>1, CandidateAnswers
<1>9. CASE FirstDelta(r)
  <2>1. /\ Moves(r, "at_delta", outcome[r]) /\ pc[r] = "priming"
        /\ ran' = [ran EXCEPT ![r] = @ \cup {at[r]}] /\ UNCHANGED <<billed, stopped>>
    BY <1>9 DEF FirstDelta, Moves
  <2> QED BY <2>1, CandidateAnswers
<1>10. CASE FirstTerminal(r)
  <2>1. /\ Moves(r, "settling", outcome[r]) /\ pc[r] = "priming"
        /\ ran' = [ran EXCEPT ![r] = @ \cup {at[r]}] /\ UNCHANGED <<billed, stopped>>
    BY <1>10 DEF FirstTerminal, Moves
  <2> QED BY <2>1, CandidateAnswers
<1>11. CASE Resumes(r) \/ NextDelta(r) \/ NextTerminal(r) \/ BreaksWithPartial(r)
  <2>1. PICK to \in {"pulling", "at_delta", "settling", "salvaging"} :
            /\ Moves(r, to, outcome[r]) /\ pc[r] \in {"pulling", "at_delta"}
            /\ UNCHANGED <<ran, billed, stopped>>
    BY <1>11 DEF Resumes, NextDelta, NextTerminal, BreaksWithPartial, Moves
  <2> QED BY <2>1, DrainGoesOn
<1>12. CASE Stalls(r) \/ BreaksRaw(r) \/ CancelledPulling(r)
  <2>1. PICK o \in {"interrupted", "error", "cancelled"} :
            /\ Moves(r, "done", o) /\ pc[r] = "pulling" /\ UNCHANGED <<ran, billed>>
    BY <1>12 DEF Stalls, BreaksRaw, CancelledPulling, Moves
  <2> QED BY <2>1, EndsUnbilled
<1>13. CASE PullStops(r)
  <2>1. /\ Moves(r, "done", "error") /\ pc[r] = "pulling" /\ UNCHANGED <<ran, billed>>
    BY <1>13 DEF PullStops, Stops, Moves
  <2> QED BY <2>1, EndsUnbilled
<1>14. CASE ConsumerCloses(r) \/ SettleFails(r)
  <2>1. PICK o \in {"error", "cancelled"} :
            /\ Moves(r, "finalizing", o) /\ pc[r] \in {"at_delta", "settling"}
            /\ UNCHANGED <<ran, billed>>
    BY <1>14 DEF ConsumerCloses, SettleFails, Moves
  <2> QED BY <2>1, EndsUnbilled
<1>15. CASE RecordFails(r) \/ SalvageFails(r)
  <2>1. /\ Moves(r, "done", "error") /\ pc[r] \in {"recording", "salvaging"}
        /\ UNCHANGED <<ran, billed>>
    BY <1>15 DEF RecordFails, SalvageFails, Moves
  <2> QED BY <2>1, EndsUnbilled
<1>16. CASE CancelledRecording(r)
  <2>1. PICK to \in {"done", "finalizing"} :
            /\ Moves(r, to, "cancelled") /\ UNCHANGED <<ran, billed>>
            /\ pc[r] \in {"recording", "salvaging", "settling"}
    BY <1>16 DEF CancelledRecording, Moves
  <2> QED BY <2>1, EndsUnbilled
<1>17. CASE Records(r) \/ Salvages(r)
  <2>1. PICK o \in {"response", "interrupted"} :
            /\ Moves(r, "done", o) /\ pc[r] \in {"recording", "salvaging"}
            /\ UNCHANGED <<ran, stopped>>
            /\ billed' = [billed EXCEPT ![r] = Append(@, at[r])]
    BY <1>17 DEF Records, Salvages, Moves
  <2> QED BY <2>1, EndsBilled
<1>18. CASE Settles(r)
  <2>1. /\ Moves(r, "finalizing", "response") /\ pc[r] = "settling"
        /\ UNCHANGED <<ran, stopped>>
        /\ billed' = [billed EXCEPT ![r] = Append(@, at[r])]
    BY <1>18 DEF Settles, Moves
  <2> QED BY <2>1, EndsBilled
<1> QED BY <1>1, <1>2, <1>3, <1>4, <1>5, <1>6, <1>7, <1>8, <1>9, <1>10, <1>11, <1>12,
           <1>13, <1>14, <1>15, <1>16, <1>17, <1>18 DEF Handle

\* The passing of time touches only the breakers.
LEMMA TickKeeps ==
    ASSUME TypeOK, Tick
    PROVE  TypeOK' /\ \A r \in Requests : Local(r) => Local(r)'
<1>1. breaker' \in [Providers -> Breaker]
  <2>1. \A p \in Providers :
            breaker[p] \in Breaker /\ (Cooling(breaker[p]) => Elapse(breaker[p]) \in Breaker)
    BY BreakerOperations DEF TypeOK
  <2> QED BY <2>1 DEF Tick
<1>2. UNCHANGED <<req, pc, at, gen, ambiguous, outcome, ran, billed, faults, stopped, leaked>>
  BY DEF Tick, history
<1>3. TypeOK'
  BY <1>1, <1>2 DEF TypeOK
<1>4. \A r \in Requests : Local(r) => Local(r)'
  BY <1>2 DEF Local, Consistent, Candidates
<1> QED BY <1>3, <1>4

LEMMA InitInv == Init => Inv
<1> SUFFICES ASSUME Init PROVE Inv
  OBVIOUS
<1>1. NewBreaker \in Breaker
  BY ResetTimeoutAssumption DEF NewBreaker, Breaker, CircuitState, CLOSED
<1>2. TypeOK
  BY <1>1, GatewayConstantsAssumption DEF Init, TypeOK, Outcomes
<1>3. \A r \in Requests : Local(r)
  BY DEF Init, Local, Consistent, Calling, Committed
<1> QED BY <1>2, <1>3, InvIsLocal

LEMMA NextInv == Inv /\ [Next]_vars => Inv'
<1> SUFFICES ASSUME Inv, [Next]_vars PROVE Inv'
  OBVIOUS
<1>1. TypeOK /\ \A r \in Requests : Local(r)
  BY InvIsLocal
<1>2. TypeOK' /\ \A r \in Requests : Local(r)'
  <2>1. CASE Tick
    BY <1>1, <2>1, TickKeeps
  <2>2. CASE \E r \in Requests : Handle(r)
    <3> PICK r \in Requests : Handle(r)
      BY <2>2
    <3>1. TypeOK' /\ Others(r) /\ Local(r)'
      BY <1>1, HandleKeeps
    <3>2. \A d \in Requests : d # r => Local(d)'
      BY <1>1, <3>1, OthersKeepLocal
    <3> QED BY <3>1, <3>2
  <2>3. CASE UNCHANGED vars
    BY <1>1, <2>3 DEF vars, history, TypeOK, Local, Consistent, Candidates
  <2> QED BY <2>1, <2>2, <2>3 DEF Next
<1> QED BY <1>2, InvIsLocal DEF Inv, Local, AtMostOneExecution, UnavailableNeverRan,
                              BilledOnce

\* The invariant holds of any number of concurrent requests.
THEOREM Invariance == Spec => []Inv
  BY InitInv, NextInv, PTL DEF Spec

\* Every variable keeps its type.
THEOREM TypeCorrectness == Spec => []TypeOK
<1>1. Inv => TypeOK
  BY DEF Inv
<1> QED BY <1>1, Invariance, PTL

\* AT_MOST_ONCE: whatever fails, and whatever the other requests do to the
\* circuits meanwhile, at most one provider executes the request.
THEOREM NoDoubleSpend == Spec => []AtMostOneExecution
<1>1. Inv => AtMostOneExecution
  BY DEF Inv
<1> QED BY <1>1, Invariance, PTL

\* ProviderNotAvailable is raised only for a request no provider executed.
THEOREM CleanFailure == Spec => []UnavailableNeverRan
<1>1. Inv => UnavailableNeverRan
  BY DEF Inv
<1> QED BY <1>1, Invariance, PTL

\* A request has at most one usage record, for the candidate that executed it, and
\* a caller that gets the full response has one.
THEOREM BilledExactlyOnce == Spec => []BilledOnce
<1>1. Inv => BilledOnce
  BY DEF Inv
<1> QED BY <1>1, Invariance, PTL

-----------------------------------------------------------------------------
\* No failover after the first event.

\* A step of a request that is being drained stays with its candidate.
LEMMA CommittedStep ==
    ASSUME TypeOK, NEW r \in Requests, Local(r), Handle(r), pc[r] \in Committed
    PROVE  at'[r] = at[r] /\ outcome'[r] \notin {"unavailable", "ambiguous"}
<1> USE DEF Committed, Answer, Abandon, Goto
<1>1. outcome[r] = "none" /\ r \in DOMAIN outcome
  BY DEF Local, Consistent, TypeOK
<1>2. CASE \/ Resumes(r) \/ NextDelta(r) \/ NextTerminal(r) \/ BreaksWithPartial(r)
           \/ Stalls(r) \/ BreaksRaw(r) \/ PullStops(r) \/ ConsumerCloses(r)
           \/ CancelledPulling(r)
  BY <1>1, <1>2 DEF Resumes, NextDelta, NextTerminal, BreaksWithPartial, Stalls,
                    BreaksRaw, PullStops, ConsumerCloses, CancelledPulling
<1>3. CASE \/ Settles(r) \/ SettleFails(r) \/ Salvages(r) \/ SalvageFails(r)
           \/ CancelledRecording(r)
  BY <1>1, <1>3 DEF Settles, SettleFails, Salvages, SalvageFails, CancelledRecording
<1>4. ~( \/ Start(r) \/ FailsUnavailable(r) \/ FailsAmbiguous(r) \/ FailsRaw(r)
         \/ CancelledWaiting(r) \/ CompleteReturns(r) \/ Records(r) \/ RecordFails(r)
         \/ FirstDelta(r) \/ FirstTerminal(r) \/ PrimeStops(r) \/ Finalized(r))
  BY DEF Start, FailsUnavailable, FailsAmbiguous, FailsRaw, CancelledWaiting, Waiting,
         CompleteReturns, Records, RecordFails, FirstDelta, FirstTerminal, PrimeStops,
         Finalized
<1> QED BY <1>2, <1>3, <1>4 DEF Handle

\* Once a candidate has produced its first event the request ends with it, and
\* never with an outcome that invites a retry.
THEOREM NoFailoverAfterFirstEvent == Spec => CommitIsFinal
<1> DEFINE Final == \A r \in Requests : pc[r] \in Committed =>
                       /\ at'[r] = at[r]
                       /\ outcome'[r] \notin {"unavailable", "ambiguous"}
<1>1. Inv /\ [Next]_vars => [Final]_vars
  <2> SUFFICES ASSUME Inv, Next, NEW r \in Requests, pc[r] \in Committed
               PROVE  at'[r] = at[r] /\ outcome'[r] \notin {"unavailable", "ambiguous"}
    OBVIOUS
  <2>1. TypeOK /\ (\A d \in Requests : Local(d)) /\ outcome[r] = "none"
    BY InvIsLocal DEF Local, Consistent, Committed
  <2>2. CASE Tick
    BY <2>1, <2>2 DEF Tick
  <2>3. ASSUME NEW d \in Requests, Handle(d)
        PROVE  at'[r] = at[r] /\ outcome'[r] \notin {"unavailable", "ambiguous"}
    <3>1. CASE d = r
      BY <2>1, <2>3, <3>1, CommittedStep
    <3>2. CASE d # r
      BY <2>1, <2>3, <3>2, HandleKeeps DEF Others
    <3> QED BY <3>1, <3>2
  <2> QED BY <2>2, <2>3 DEF Next
<1> QED BY <1>1, Invariance, PTL DEF Spec, CommitIsFinal

-----------------------------------------------------------------------------
\* Best candidate first.

\* What BestFirst says of one request's step.
BestNext(r) ==
    LET t == req[r].tier
        old == Candidates(r)[at[r]]
        new == Candidates(r)[at'[r]]
    IN  /\ at[r] # 0 => Key(t, old) <= Key(t, new)
        /\ \A i \in DOMAIN Catalog[t] :
             LET c == Catalog[t][i] IN
             /\ Key(t, c) < Key(t, new)
             /\ at[r] # 0 => Key(t, old) < Key(t, c)
             => \/ c.provider \notin Registered
                \/ ~Admits(breaker'[c.provider]) /\ c.provider # new.provider

\* The loop, entered after the current candidate, goes to the best usable one.
LEMMA TryFromBestNext ==
    ASSUME TypeOK, NEW r \in Requests, at[r] = 0 \/ at[r] \in 1..Len(Candidates(r)),
           NEW amb, NEW brs \in [Providers -> Breaker],
           TryFrom(r, at[r] + 1, brs, amb), at'[r] # at[r]
    PROVE  BestNext(r)
<1> DEFINE t == req[r].tier
           C == Candidates(r)
           i == at[r] + 1
           j == Min(Usable(r, i, brs))
           p == C[j].provider
<1>1. /\ Usable(r, i, brs) # {}
      /\ breaker' = [brs EXCEPT ![p] = Allow(brs[p])]
      /\ at' = [at EXCEPT ![r] = j]
  <2>1. CASE Usable(r, i, brs) = {}
    BY <2>1 DEF TryFrom
  <2>2. CASE Usable(r, i, brs) # {}
    BY <2>2 DEF TryFrom
  <2> QED BY <2>1, <2>2
<1>2. i \in Nat \ {0} /\ at[r] \in Nat /\ at'[r] = j
  BY <1>1 DEF TypeOK
<1>3. /\ j \in i..Len(C) /\ j \in Usable(r, i, brs) /\ Len(C) \in Nat
      /\ \A k \in Usable(r, i, brs) : j <= k
  BY <1>1, <1>2, FirstUsable, CandidatesType
<1>4. t \in DOMAIN Catalog /\ C = Ranked[t]
  <2>1. C # <<>>
    BY <1>2, <1>3
  <2> QED BY <2>1 DEF Candidates
<1>5. /\ \A k, l \in 1..Len(C) : k <= l => Key(t, C[k]) <= Key(t, C[l])
      /\ \A d \in DOMAIN Catalog[t] : \E k \in 1..Len(C) : C[k] = Catalog[t][d]
  BY <1>4, RankedFacts
<1>6. \A k \in 1..Len(C) : Key(t, C[k]) \in Int /\ C[k].provider \in Providers
  <2> SUFFICES ASSUME NEW k \in 1..Len(C)
               PROVE  Key(t, C[k]) \in Int /\ C[k].provider \in Providers
    OBVIOUS
  <2>1. C[k] \in CandidateType
    BY CandidatesType
  <2>2. \E d \in DOMAIN Catalog[t] : Catalog[t][d] = C[k]
    <3>1. PICK order \in Bijection(DOMAIN Catalog[t], DOMAIN Catalog[t]) :
              Ranked[t] = [x \in DOMAIN Catalog[t] |-> Catalog[t][order[x]]]
      BY <1>4, RankIsStableSort
    <3>2. k \in DOMAIN Catalog[t]
      BY <1>4, RankedFacts, CatalogAssumption
    <3>3. order[k] \in DOMAIN Catalog[t]
      BY <3>1, <3>2 DEF Bijection, Injection
    <3> QED BY <1>4, <3>1, <3>2, <3>3
  <2> QED BY <1>4, <2>1, <2>2, KeyIsInteger DEF CandidateType
<1>7. Admits(brs[p]) /\ p \in Providers
  <2>1. \A k \in Usable(r, i, brs) : k \in i..Len(C) /\ Admits(brs[C[k].provider])
    BY DEF Usable
  <2> HIDE DEF C, j, i
  <2>2. Admits(brs[p]) /\ j \in 1..Len(C)
    BY <1>2, <1>3, <2>1
  <2> QED BY <1>6, <2>2
<1> HIDE DEF t, C, j, p, i
<1>8. at[r] # 0 => Key(t, C[at[r]]) <= Key(t, C[j])
  BY <1>2, <1>3, <1>5 DEF i, C
<1>9. ASSUME NEW d \in DOMAIN Catalog[t],
             Key(t, Catalog[t][d]) < Key(t, C[j]),
             at[r] # 0 => Key(t, C[at[r]]) < Key(t, Catalog[t][d]),
             Catalog[t][d].provider \in Registered
      PROVE  /\ ~Admits(breaker'[Catalog[t][d].provider])
             /\ Catalog[t][d].provider # p
  <2>1. PICK k \in 1..Len(C) : C[k] = Catalog[t][d]
    BY <1>5
  <2>2. k < j
    <3>1. j \in 1..Len(C)
      BY <1>2, <1>3
    <3>2. j <= k => Key(t, C[j]) <= Key(t, C[k])
      BY <1>5, <3>1
    <3> QED BY <1>3, <1>6, <1>9, <2>1, <3>1, <3>2
  <2>3. k >= i
    <3>1. CASE at[r] = 0
      BY <3>1 DEF i
    <3>2. CASE at[r] # 0
      <4>1. at[r] \in 1..Len(C)
        BY <3>2 DEF C
      <4>2. k <= at[r] => Key(t, C[k]) <= Key(t, C[at[r]])
        BY <1>5, <4>1
      <4>3. ~(k <= at[r])
        BY <1>6, <1>9, <2>1, <3>2, <4>1, <4>2
      <4> QED BY <1>3, <4>1, <4>3 DEF i
    <3> QED BY <3>1, <3>2
  <2>4. k \notin Usable(r, i, brs)
    BY <1>2, <1>3, <2>2
  <2>5. k \in i..Len(C)
    BY <1>2, <1>3, <2>3
  <2>6. ~Admits(brs[C[k].provider])
    BY <1>9, <2>1, <2>4, <2>5 DEF Usable, C
  <2>7. C[k].provider # p
    BY <1>7, <2>6
  <2>8. breaker'[C[k].provider] = brs[C[k].provider]
    BY <1>1, <1>6, <2>7
  <2> QED BY <2>1, <2>6, <2>7, <2>8
<1> QED BY <1>2, <1>8, <1>9 DEF BestNext, t, C, p

\* Whenever a request is sent to a candidate, it is the best one the circuits and
\* the configuration leave, whatever its strategy and its tier's catalog.
THEOREM BestCandidateFirst == Spec => BestFirst
<1> DEFINE Best == \A r \in Requests : at'[r] # at[r] => BestNext(r)
<1>1. Inv /\ [Next]_vars => [Best]_vars
  <2> SUFFICES ASSUME Inv, Next, NEW r \in Requests, at'[r] # at[r]
               PROVE  BestNext(r)
    OBVIOUS
  <2>1. TypeOK /\ (\A d \in Requests : Local(d))
    BY InvIsLocal
  <2>2. Handle(r)
    <3>1. ~Tick
      BY DEF Tick
    <3>2. \A d \in Requests : Handle(d) => d = r
      BY <2>1, HandleKeeps DEF Others
    <3> QED BY <3>1, <3>2 DEF Next
  <2>3. CASE Start(r)
    <3> DEFINE amb == FALSE
    <3>1. at[r] = 0 /\ TryFrom(r, 1, breaker, amb)
      BY <2>1, <2>3 DEF Start, Local, Consistent
    <3> HIDE DEF amb
    <3>2. TryFrom(r, at[r] + 1, breaker, amb)
      BY <3>1
    <3> QED BY <2>1, <3>1, <3>2, TryFromBestNext DEF TypeOK
  <2>4. CASE FailsUnavailable(r) \/ FailsAmbiguous(r) \/ PrimeStops(r)
    <3>1. at[r] \in 1..Len(Candidates(r))
      BY <2>1, <2>4 DEF FailsUnavailable, FailsAmbiguous, PrimeStops, Waiting, Local,
                        Consistent, Calling
    <3>2. \E amb : \E brs \in {breaker, Failed(r)} : TryFrom(r, at[r] + 1, brs, amb)
      BY <2>4 DEF FailsUnavailable, FailsAmbiguous, PrimeStops
    <3>3. breaker \in [Providers -> Breaker] /\ Failed(r) \in [Providers -> Breaker]
      BY <2>1, <3>1, OutcomesAreRecorded DEF TypeOK
    <3> QED BY <2>1, <3>1, <3>2, <3>3, TryFromBestNext
  <2>5. ~( \/ FailsRaw(r) \/ CancelledWaiting(r) \/ CompleteReturns(r) \/ Records(r)
           \/ RecordFails(r) \/ FirstDelta(r) \/ FirstTerminal(r) \/ Resumes(r)
           \/ NextDelta(r) \/ NextTerminal(r) \/ BreaksWithPartial(r) \/ Stalls(r)
           \/ BreaksRaw(r) \/ PullStops(r) \/ ConsumerCloses(r) \/ CancelledPulling(r)
           \/ Settles(r) \/ SettleFails(r) \/ Finalized(r) \/ Salvages(r)
           \/ SalvageFails(r) \/ CancelledRecording(r))
    BY DEF FailsRaw, CancelledWaiting, CompleteReturns, Records, RecordFails, FirstDelta,
           FirstTerminal, Resumes, NextDelta, NextTerminal, BreaksWithPartial, Stalls,
           BreaksRaw, PullStops, ConsumerCloses, CancelledPulling, Settles, SettleFails,
           Finalized, Salvages, SalvageFails, CancelledRecording
  <2> QED BY <2>2, <2>3, <2>4, <2>5 DEF Handle
<1> QED BY <1>1, Invariance, PTL DEF Spec, BestFirst, BestNext

-----------------------------------------------------------------------------
\* The trial slots.

HeldBy(d, p) == pc[d] \in Calling /\ Provider(d) = p /\ gen[d] = breaker[p].gen

\* A step of r takes no trial slot without holding it, and lets go of none that it
\* held unless it frees the slot or leaks it.
HandsOver(r) ==
    \A p \in Providers : breaker'[p].trial /\ p \notin leaked' =>
        \/ HeldBy(r, p)'
        \/ /\ breaker'[p] = breaker[p] /\ p \notin leaked
           /\ HeldBy(r, p) => HeldBy(r, p)'

LEMMA HandsOverKeeps ==
    ASSUME TrialsAreHeld, NEW r \in Requests, Others(r), HandsOver(r)
    PROVE  TrialsAreHeld'
<1> SUFFICES ASSUME NEW p \in Providers, breaker'[p].trial, p \notin leaked'
             PROVE  \E d \in Requests : HeldBy(d, p)'
  BY DEF TrialsAreHeld, HeldBy
<1>1. CASE HeldBy(r, p)'
  BY <1>1
<1>2. CASE /\ breaker'[p] = breaker[p] /\ p \notin leaked
           /\ HeldBy(r, p) => HeldBy(r, p)'
  <2>1. PICK d \in Requests : HeldBy(d, p)
    BY <1>2 DEF TrialsAreHeld, HeldBy
  <2>2. CASE d = r
    BY <1>2, <2>1, <2>2
  <2>3. CASE d # r
    BY <1>2, <2>1, <2>3 DEF HeldBy, Others, Provider, Candidates
  <2> QED BY <2>2, <2>3
<1> QED BY <1>1, <1>2 DEF HandsOver

\* Once the outcome of r's call is recorded, a slot still taken is another's.
LEMMA RecordedReleases ==
    ASSUME TypeOK, NEW r \in Requests, at[r] \in 1..Len(Candidates(r)),
           NEW brs \in {Failed(r), Aborted(r), Succeeded(r)}, NEW p \in Providers,
           brs[p].trial
    PROVE  brs[p] = breaker[p] /\ ~HeldBy(r, p)
<1>1. Provider(r) \in Providers /\ breaker \in [Providers -> Breaker] /\ gen[r] \in Nat
  BY OutcomesAreRecorded DEF TypeOK
<1>2. CASE p # Provider(r)
  BY <1>1, <1>2 DEF Failed, Aborted, Succeeded, HeldBy
<1>3. CASE p = Provider(r)
  <2>1. brs[p] \in {RecordFailure(breaker[p], gen[r]), RecordAbort(breaker[p], gen[r]),
                    RecordSuccess(breaker[p], gen[r])}
    BY <1>1, <1>3 DEF Failed, Aborted, Succeeded, Circuit
  <2>2. gen[r] # breaker[p].gen
    BY <1>1, <2>1, TrialSlot
  <2> QED BY <1>1, <2>1, <2>2, TrialSlot DEF HeldBy
<1> QED BY <1>2, <1>3

\* The loop passes on the slots that are others', and the one it takes is r's.
LEMMA TryFromHandsOver ==
    ASSUME TypeOK, NEW r \in Requests, NEW i \in Nat \ {0}, NEW amb,
           NEW brs \in [Providers -> Breaker], TryFrom(r, i, brs, amb), req' = req,
           \A p \in Providers : brs[p].trial /\ p \notin leaked' =>
               brs[p] = breaker[p] /\ p \notin leaked /\ ~HeldBy(r, p)
    PROVE  HandsOver(r)
<1>1. CASE Usable(r, i, brs) = {}
  <2>1. breaker' = brs
    BY <1>1 DEF TryFrom
  <2> QED BY <2>1 DEF HandsOver
<1>2. CASE Usable(r, i, brs) # {}
  <2> DEFINE j == Min(Usable(r, i, brs))
             q == Candidates(r)[j].provider
  <2>1. j \in i..Len(Candidates(r)) /\ Len(Candidates(r)) \in Nat
    BY <1>2, FirstUsable, CandidatesType
  <2>2. /\ breaker' = [brs EXCEPT ![q] = Allow(brs[q])]
        /\ at' = [at EXCEPT ![r] = j]
        /\ gen' = [gen EXCEPT ![r] = Allow(brs[q]).gen]
        /\ Goto(r, IF req[r].stream THEN "priming" ELSE "completing")
    BY <1>2 DEF TryFrom
  <2> HIDE DEF j
  <2>3. Candidates(r)[j] \in CandidateType
    BY <2>1, CandidatesType
  <2>4. q \in Providers
    BY <2>3 DEF CandidateType
  <2>5. at'[r] = j /\ gen'[r] = Allow(brs[q]).gen /\ breaker'[q].gen = Allow(brs[q]).gen
    BY <2>2, <2>4 DEF TypeOK
  <2>6. pc'[r] \in {"priming", "completing"}
    BY <2>2 DEF Goto, TypeOK
  <2>7. Provider(r)' = q
    BY <2>5 DEF Provider, Candidates
  <2> HIDE DEF q
  <2>8. \A p \in Providers : p = q => HeldBy(r, p)'
    BY <2>5, <2>6, <2>7 DEF HeldBy, Calling
  <2>9. \A p \in Providers : p # q => breaker'[p] = brs[p]
    BY <2>2
  <2> QED BY <2>8, <2>9 DEF HandsOver
<1> QED BY <1>1, <1>2

LEMMA HandleHandsOver ==
    ASSUME TypeOK, NEW r \in Requests, Local(r), Handle(r)
    PROVE  HandsOver(r)
<1> USE DEF Calling, Committed, Waiting, Answer, Abandon, Goto, history
<1>1. pc[r] \in Calling => at[r] \in 1..Len(Candidates(r))
  BY DEF Local, Consistent
<1>2. CASE Start(r)
  <2> DEFINE amb == FALSE
  <2>1. TryFrom(r, 1, breaker, amb) /\ req' = req /\ leaked' = leaked /\ pc[r] = "new"
    BY <1>2 DEF Start
  <2>2. \A p \in Providers : ~HeldBy(r, p)
    BY <2>1 DEF HeldBy
  <2>3. breaker \in [Providers -> Breaker]
    BY DEF TypeOK
  <2> HIDE DEF amb
  <2> QED BY <2>1, <2>2, <2>3, TryFromHandsOver
<1>3. CASE FailsUnavailable(r) \/ (FailsAmbiguous(r) /\ req[r].failover_policy = AT_LEAST_ONCE)
  <2>1. PICK amb : TryFrom(r, at[r] + 1, Failed(r), amb)
    BY <1>3 DEF FailsUnavailable, FailsAmbiguous, AT_LEAST_ONCE, AT_MOST_ONCE
  <2>2. req' = req /\ leaked' = leaked /\ pc[r] \in {"completing", "priming"}
    BY <1>3 DEF FailsUnavailable, FailsAmbiguous
  <2>3. \A p \in Providers : Failed(r)[p].trial =>
            Failed(r)[p] = breaker[p] /\ ~HeldBy(r, p)
    BY <1>1, <2>2, RecordedReleases
  <2>4. at[r] + 1 \in Nat \ {0}
    BY DEF TypeOK
  <2> QED BY <1>1, <2>1, <2>2, <2>3, <2>4, OutcomesAreRecorded, TryFromHandsOver
<1>4. CASE PrimeStops(r)
  <2>1. /\ TryFrom(r, at[r] + 1, breaker, ambiguous[r]) /\ req' = req
        /\ pc[r] = "priming"
        /\ leaked' = IF Circuit(r).trial /\ gen[r] = Circuit(r).gen
                     THEN leaked \cup {Provider(r)} ELSE leaked
    BY <1>4 DEF PrimeStops, Stops
  <2>2. \A p \in Providers : breaker[p].trial /\ p \notin leaked' =>
            p \notin leaked /\ ~HeldBy(r, p)
    BY <2>1 DEF HeldBy, Circuit
  <2>3. at[r] + 1 \in Nat \ {0} /\ breaker \in [Providers -> Breaker]
    BY DEF TypeOK
  <2> QED BY <2>1, <2>2, <2>3, TryFromHandsOver
<1>5. CASE \/ FailsAmbiguous(r) /\ req[r].failover_policy # AT_LEAST_ONCE
           \/ FailsRaw(r) \/ CancelledWaiting(r) \/ CompleteReturns(r)
           \/ BreaksWithPartial(r) \/ Stalls(r) \/ BreaksRaw(r) \/ CancelledPulling(r)
           \/ Finalized(r)
  <2>1. /\ breaker' \in {Failed(r), Aborted(r), Succeeded(r)} /\ leaked' = leaked
        /\ pc[r] \in Calling
    BY <1>5 DEF FailsAmbiguous, FailsRaw, CancelledWaiting, CompleteReturns,
                BreaksWithPartial, Stalls, BreaksRaw, CancelledPulling, Finalized
  <2> QED BY <1>1, <2>1, RecordedReleases DEF HandsOver
<1>6. CASE PullStops(r)
  <2>1. /\ breaker' = breaker
        /\ leaked' = IF Circuit(r).trial /\ gen[r] = Circuit(r).gen
                     THEN leaked \cup {Provider(r)} ELSE leaked
    BY <1>6 DEF PullStops, Stops
  <2> QED BY <2>1 DEF HandsOver, HeldBy, Circuit
<1>7. CASE \/ FirstDelta(r) \/ FirstTerminal(r) \/ Resumes(r) \/ NextDelta(r)
           \/ NextTerminal(r) \/ ConsumerCloses(r) \/ Settles(r) \/ SettleFails(r)
           \/ CancelledRecording(r) /\ pc[r] = "settling"
  <2>1. /\ UNCHANGED <<breaker, leaked, at, gen, req>> /\ pc'[r] \in Calling
    BY <1>7 DEF FirstDelta, FirstTerminal, Resumes, NextDelta, NextTerminal,
                ConsumerCloses, Settles, SettleFails, CancelledRecording, TypeOK
  <2> QED BY <2>1 DEF HandsOver, HeldBy, Provider, Candidates
<1>8. CASE \/ Records(r) \/ RecordFails(r) \/ Salvages(r) \/ SalvageFails(r)
           \/ CancelledRecording(r) /\ pc[r] # "settling"
  <2>1. UNCHANGED <<breaker, leaked>> /\ pc[r] \notin Calling
    BY <1>8 DEF Records, RecordFails, Salvages, SalvageFails, CancelledRecording
  <2> QED BY <2>1 DEF HandsOver, HeldBy
<1> QED BY <1>2, <1>3, <1>4, <1>5, <1>6, <1>7, <1>8 DEF Handle

\* No trial slot is ever lost but to a stream that breaks the adapters' contract:
\* a provider whose circuit is half open is always being tried, or can be.
THEOREM TrialSlotsAreHeld == Spec => []TrialsAreHeld
<1>1. Init => TrialsAreHeld
  BY DEF Init, TrialsAreHeld, NewBreaker
<1>2. Inv /\ TrialsAreHeld /\ [Next]_vars => TrialsAreHeld'
  <2> SUFFICES ASSUME Inv, TrialsAreHeld, [Next]_vars PROVE TrialsAreHeld'
    OBVIOUS
  <2>1. TypeOK /\ (\A d \in Requests : Local(d))
    BY InvIsLocal
  <2>2. CASE Tick
    <3>1. \A p \in Providers : breaker'[p].trial = breaker[p].trial
                               /\ breaker'[p].gen = breaker[p].gen
      <4> SUFFICES ASSUME NEW p \in Providers
                   PROVE  /\ breaker'[p].trial = breaker[p].trial
                          /\ breaker'[p].gen = breaker[p].gen
        OBVIOUS
      <4>1. breaker[p] \in Breaker /\ 0 \in Nat
        BY <2>1 DEF TypeOK
      <4>2. Cooling(breaker[p]) => /\ Elapse(breaker[p]).trial = breaker[p].trial
                                   /\ Elapse(breaker[p]).gen = breaker[p].gen
        BY <4>1, TrialSlot
      <4> QED BY <2>2, <4>2 DEF Tick
    <3> QED BY <2>2, <3>1 DEF Tick, history, TrialsAreHeld, Provider, Candidates
  <2>3. ASSUME NEW r \in Requests, Handle(r) PROVE TrialsAreHeld'
    BY <2>1, <2>3, HandleKeeps, HandleHandsOver, HandsOverKeeps
  <2>4. CASE UNCHANGED vars
    BY <2>4 DEF vars, history, TrialsAreHeld, Provider, Candidates
  <2> QED BY <2>2, <2>3, <2>4 DEF Next
<1> QED BY <1>1, <1>2, Invariance, PTL DEF Spec

=============================================================================
