------------------------------- MODULE Gateway -------------------------------
(***************************************************************************)
(* app/services/gateway_service.py over the router, the adapter registry   *)
(* and the per-provider ResilientAdapters: concurrent requests, each       *)
(* trying the ranked candidates of its tier in order, and billed once.     *)
(*                                                                         *)
(* As in ResilientAdapter, an action runs from one suspension point to the *)
(* next.  The breakers never suspend, so recording an outcome, skipping    *)
(* candidates that are not configured or whose circuit is open, and        *)
(* sending the request to the next one are a single step (TryFrom).        *)
(*                                                                         *)
(* `ran` is what the gateway cannot see: the candidates whose provider     *)
(* executed the request.  The adapters' classification of SDK errors is    *)
(* taken at its word: UpstreamUnavailable is raised only for a request     *)
(* the provider did not execute, every other error may follow execution.   *)
(***************************************************************************)
EXTENDS CircuitBreaker, Integers, Sequences, FiniteSets, FiniteSetsExt

CONSTANTS
    Requests,
    Providers,
    Registered,  \* providers with an API key (build_registry)
    Tiers,       \* routing keys a client may send
    Catalog,     \* the candidates of each known tier, as written down
    Registry,    \* metadata of each model (MODEL_REGISTRY)
    Strategy,    \* the tiers ranked by a metadata field, and by which
    Priority,    \* provider preference, for every other tier
    Faults,      \* which of "raw", "record", "cancel", "stop" can happen
    MaxFaults    \* bound: failed provider calls

ASSUME RegisteredAssumption == Registered \subseteq Providers
ASSUME CatalogAssumption ==
    /\ DOMAIN Catalog \subseteq Tiers
    /\ \A t \in DOMAIN Catalog :
          Catalog[t] \in Seq([provider: Providers, model: DOMAIN Registry])
    /\ Priority \in Seq(Providers)
ASSUME MetadataAssumption ==
    /\ \A m \in DOMAIN Registry :
          Registry[m] \in [provider: Providers, input_cost: Int, output_cost: Int,
                          reasoning_score: Int, latency_score: Int]
    /\ \A t \in DOMAIN Strategy : Strategy[t] \in {"cost", "reasoning", "latency"}
\* The application does not start with a catalog validate_registry rejects.
validate_registry ==
    \A t \in DOMAIN Catalog : \A i \in DOMAIN Catalog[t] :
        Registry[Catalog[t][i].model].provider = Catalog[t][i].provider
ASSUME RegistryAssumption == validate_registry
ASSUME GatewayConstantsAssumption ==
    /\ Faults \subseteq {"raw", "record", "cancel", "stop"}
    /\ MaxFaults \in Nat

-----------------------------------------------------------------------------
\* Routing: a tier's candidates, best first.

\* PriorityStrategy's sort key; providers without a preference come last.
PriorityKey(c) ==
    LET listed == {i \in DOMAIN Priority : Priority[i] = c.provider}
    IN  IF listed = {}
        THEN Cardinality({Priority[i] : i \in DOMAIN Priority}) + 1
        ELSE Max(listed)

\* _metric of the metadata strategies, negated where higher is better.
Metric(strategy, meta) ==
    CASE strategy = "cost" -> meta.input_cost + meta.output_cost
      [] strategy = "reasoning" -> -meta.reasoning_score
      [] strategy = "latency" -> -meta.latency_score

\* The key that tier t's strategy sorts by: lower is better.
Key(t, c) ==
    IF t \in DOMAIN Strategy THEN Metric(Strategy[t], Registry[c.model])
                             ELSE PriorityKey(c)

\* sorted(candidates, key=...): stable.
Ahead(t, i, j) ==
    LET ki == Key(t, Catalog[t][i])
        kj == Key(t, Catalog[t][j])
    IN  ki < kj \/ (ki = kj /\ i < j)
Ranked ==
    [t \in DOMAIN Catalog |->
        [k \in DOMAIN Catalog[t] |->
            Catalog[t][CHOOSE i \in DOMAIN Catalog[t] :
                Cardinality({j \in DOMAIN Catalog[t] : Ahead(t, j, i)}) = k - 1]]]

-----------------------------------------------------------------------------
VARIABLES
    breaker,    \* the breaker of each provider's ResilientAdapter
    req,        \* tier, failover_policy and stream flag of each request
    pc,         \* where each request is suspended
    at,         \* index of the candidate being tried
    gen,        \* the generation that candidate's call was admitted under
    ambiguous,  \* ambiguous_error is not None
    outcome,    \* what the caller of the gateway got
    ran,        \* candidates whose provider executed the request
    billed,     \* candidates for which a usage record was saved, in order
    stopped,    \* history: candidates whose stream stopped without its last event
    leaked,     \* history: providers whose trial slot such a stream took with it
    faults

history == <<stopped, leaked>>
vars == <<breaker, req, pc, at, gen, ambiguous, outcome, ran, billed, history, faults>>

AT_MOST_ONCE == "at_most_once"
AT_LEAST_ONCE == "at_least_once"
RequestType ==
    [tier: Tiers, failover_policy: {AT_MOST_ONCE, AT_LEAST_ONCE}, stream: BOOLEAN]

\* Suspension points: awaiting adapter.complete or recorder.record in complete;
\* awaiting the first event in stream; in _drain, parked at a delta, awaiting
\* the next event, recording the terminal event or the partial usage.  After
\* _drain has ended, "finalizing": the adapter's generator, abandoned at a yield,
\* waits for the event loop to close it.
Calling == {"completing", "priming", "at_delta", "pulling", "settling", "finalizing"}
Committed == {"at_delta", "pulling", "settling", "salvaging"}
Outcomes == {"none", "response", "unavailable", "ambiguous", "interrupted",
             "error", "cancelled"}

\* candidates_for: a tier that is unknown or empty is as good as exhausted.
CandidatesUnsorted(r) ==
    IF req[r].tier \in DOMAIN Catalog THEN Catalog[req[r].tier] ELSE <<>>
Candidates(r) == IF req[r].tier \in DOMAIN Catalog THEN Ranked[req[r].tier] ELSE <<>>
Provider(r) == Candidates(r)[at[r]].provider

TypeOK ==
    /\ breaker \in [Providers -> Breaker]
    /\ req \in [Requests -> RequestType]
    /\ pc \in [Requests -> Calling \cup Committed \cup {"new", "recording", "done"}]
    /\ at \in [Requests -> Nat]
    /\ gen \in [Requests -> Nat]
    /\ ambiguous \in [Requests -> BOOLEAN]
    /\ outcome \in [Requests -> Outcomes]
    /\ ran \in [Requests -> SUBSET (Nat \ {0})]
    /\ billed \in [Requests -> Seq(Nat \ {0})]
    /\ stopped \in [Requests -> SUBSET (Nat \ {0})]
    /\ leaked \in SUBSET Providers
    /\ faults \in 0..MaxFaults

Init ==
    /\ breaker = [p \in Providers |-> NewBreaker]
    /\ req \in [Requests -> RequestType]
    /\ pc = [r \in Requests |-> "new"]
    /\ at = [r \in Requests |-> 0]
    /\ gen = [r \in Requests |-> 0]
    /\ ambiguous = [r \in Requests |-> FALSE]
    /\ outcome = [r \in Requests |-> "none"]
    /\ ran = [r \in Requests |-> {}]
    /\ billed = [r \in Requests |-> <<>>]
    /\ stopped = [r \in Requests |-> {}]
    /\ leaked = {}
    /\ faults = 0

-----------------------------------------------------------------------------
\* Helpers on one request's share of the state.

Answer(r, o) ==
    /\ pc' = [pc EXCEPT ![r] = "done"]
    /\ outcome' = [outcome EXCEPT ![r] = o]

\* The request ends, leaving the adapter's generator parked at a yield.
Abandon(r, o) ==
    /\ pc' = [pc EXCEPT ![r] = "finalizing"]
    /\ outcome' = [outcome EXCEPT ![r] = o]

Goto(r, to) == pc' = [pc EXCEPT ![r] = to] /\ outcome' = outcome

\* The outcome of r's call is handed to the breaker of its candidate's provider.
Circuit(r) == breaker[Provider(r)]
Failed(r) == [breaker EXCEPT ![Provider(r)] = RecordFailure(Circuit(r), gen[r])]
Aborted(r) == [breaker EXCEPT ![Provider(r)] = RecordAbort(Circuit(r), gen[r])]
Succeeded(r) == [breaker EXCEPT ![Provider(r)] = RecordSuccess(Circuit(r), gen[r])]

\* The candidates from index i on that have an adapter whose breaker admits.
Usable(r, i, brs) ==
    {j \in i..Len(Candidates(r)) :
        /\ Candidates(r)[j].provider \in Registered
        /\ Admits(brs[Candidates(r)[j].provider])}

\* What is raised when no candidate is left.
ExhaustedForgetsAmbiguity(amb) == "unavailable"
Exhausted(amb) == IF amb THEN "ambiguous" ELSE "unavailable"

\* The `for candidate in candidates` loop from index i on, with the breakers as
\* brs and ambiguous_error set or not.
TryFrom(r, i, brs, amb) ==
    /\ ambiguous' = [ambiguous EXCEPT ![r] = amb]
    /\ IF Usable(r, i, brs) = {}
       THEN /\ breaker' = brs
            /\ Answer(r, Exhausted(amb))
            /\ UNCHANGED <<at, gen>>
       ELSE LET j == Min(Usable(r, i, brs))
                p == Candidates(r)[j].provider
            IN  /\ breaker' = [brs EXCEPT ![p] = Allow(brs[p])]
                /\ at' = [at EXCEPT ![r] = j]
                /\ gen' = [gen EXCEPT ![r] = Allow(brs[p]).gen]
                /\ Goto(r, IF req[r].stream THEN "priming" ELSE "completing")

\* The provider may or may not have executed the request it was sent.
MayHaveRun(r) == ran' \in {ran, [ran EXCEPT ![r] = @ \cup {at[r]}]}
HasRun(r) == ran' = [ran EXCEPT ![r] = @ \cup {at[r]}]

Fault == faults < MaxFaults /\ faults' = faults + 1

-----------------------------------------------------------------------------
\* complete() or stream() is called: the tier is resolved, then tried.
StartWaitsForCircuit(r) ==
    /\ pc[r] = "new"
    /\ \A i \in DOMAIN Candidates(r) :
          Candidates(r)[i].provider \in Registered =>
              Admits(breaker[Candidates(r)[i].provider])
    /\ TryFrom(r, 1, breaker, FALSE)
    /\ UNCHANGED <<req, ran, billed, faults, history>>
Start(r) ==
    /\ pc[r] = "new"
    /\ TryFrom(r, 1, breaker, FALSE)
    /\ UNCHANGED <<req, ran, billed, faults, history>>

\* Before any event: complete() awaiting its response, stream() its first event.
Waiting(r) == pc[r] \in {"completing", "priming"}

\* UpstreamUnavailable, from either adapter: connection error, or a 4xx.
FailsUnavailable(r) ==
    /\ Waiting(r)
    /\ Fault
    /\ TryFrom(r, at[r] + 1, Failed(r), ambiguous[r])
    /\ UNCHANGED <<req, ran, billed, history>>

\* UpstreamAmbiguous: the hard timeout, an SDK timeout, a 5xx, an unknown SDK
\* error, or a 200 that could not be parsed.
FailsAmbiguousAlwaysRetries(r) ==
    /\ Waiting(r)
    /\ Fault
    /\ TryFrom(r, at[r] + 1, Failed(r), TRUE)
    /\ MayHaveRun(r)
    /\ UNCHANGED <<req, billed, history>>
FailsAmbiguous(r) ==
    /\ Waiting(r)
    /\ Fault
    /\ \/ /\ req[r].failover_policy = AT_LEAST_ONCE
          /\ TryFrom(r, at[r] + 1, Failed(r), TRUE)
       \/ /\ req[r].failover_policy = AT_MOST_ONCE
          /\ Answer(r, "ambiguous")
          /\ breaker' = Failed(r)
          /\ ambiguous' = [ambiguous EXCEPT ![r] = TRUE]
          /\ UNCHANGED <<at, gen>>
    /\ MayHaveRun(r)
    /\ UNCHANGED <<req, billed, history>>

\* An exception outside the taxonomy passes through every layer.
FailsRaw(r) ==
    /\ "raw" \in Faults
    /\ Waiting(r)
    /\ Fault
    /\ Answer(r, "error")
    /\ breaker' = Failed(r)
    /\ MayHaveRun(r)
    /\ UNCHANGED <<req, at, gen, ambiguous, billed, history>>

\* CancelledError while the provider is awaited.
CancelledWaiting(r) ==
    /\ "cancel" \in Faults
    /\ Waiting(r)
    /\ Answer(r, "cancelled")
    /\ breaker' = Aborted(r)
    /\ MayHaveRun(r)
    /\ UNCHANGED <<req, at, gen, ambiguous, billed, faults, history>>

-----------------------------------------------------------------------------
\* complete() after the response.

CompleteReturns(r) ==
    /\ pc[r] = "completing"
    /\ Goto(r, "recording")
    /\ breaker' = Succeeded(r)
    /\ HasRun(r)
    /\ UNCHANGED <<req, at, gen, ambiguous, billed, faults, history>>

Bill(r) == billed' = [billed EXCEPT ![r] = Append(@, at[r])]

Records(r) ==
    /\ pc[r] = "recording"
    /\ Bill(r)
    /\ Answer(r, "response")
    /\ UNCHANGED <<breaker, req, at, gen, ambiguous, ran, faults, history>>

\* recorder.record raises: no pricing rate for the model, or the database.
RecordFails(r) ==
    /\ "record" \in Faults
    /\ pc[r] = "recording"
    /\ Answer(r, "error")
    /\ UNCHANGED <<breaker, req, at, gen, ambiguous, ran, billed, faults, history>>

-----------------------------------------------------------------------------
\* stream() up to the first event, then _drain.

\* The candidate has produced a delta: stream() returns, _drain forwards it.
FirstDelta(r) ==
    /\ pc[r] = "priming"
    /\ Goto(r, "at_delta")
    /\ HasRun(r)
    /\ UNCHANGED <<breaker, req, at, gen, ambiguous, billed, faults, history>>

\* The candidate's first event is its terminal one.
FirstTerminal(r) ==
    /\ pc[r] = "priming"
    /\ Goto(r, "settling")
    /\ HasRun(r)
    /\ UNCHANGED <<breaker, req, at, gen, ambiguous, billed, faults, history>>

\* The adapter's stream stops without its terminal event, a contract violation:
\* its breaker is told nothing, and a trial slot the call held is gone.
Stops(r) ==
    /\ "stop" \in Faults
    /\ stopped' = [stopped EXCEPT ![r] = @ \cup {at[r]}]
    /\ leaked' = IF Circuit(r).trial /\ gen[r] = Circuit(r).gen
                 THEN leaked \cup {Provider(r)} ELSE leaked

\* StopAsyncIteration before any event: the next candidate is tried.
PrimeStops(r) ==
    /\ pc[r] = "priming"
    /\ Stops(r)
    /\ TryFrom(r, at[r] + 1, breaker, ambiguous[r])
    /\ MayHaveRun(r)
    /\ UNCHANGED <<req, billed, faults>>

\* StopAsyncIteration in _drain, itself a generator: a RuntimeError.
PullStops(r) ==
    /\ pc[r] = "pulling"
    /\ Stops(r)
    /\ Answer(r, "error")
    /\ UNCHANGED <<breaker, req, at, gen, ambiguous, ran, billed, faults>>

\* The consumer asks _drain for the next event.
Resumes(r) ==
    /\ pc[r] = "at_delta"
    /\ Goto(r, "pulling")
    /\ UNCHANGED <<breaker, req, at, gen, ambiguous, ran, billed, faults, history>>

NextDelta(r) ==
    /\ pc[r] = "pulling"
    /\ Goto(r, "at_delta")
    /\ UNCHANGED <<breaker, req, at, gen, ambiguous, ran, billed, faults, history>>

NextTerminal(r) ==
    /\ pc[r] = "pulling"
    /\ Goto(r, "settling")
    /\ UNCHANGED <<breaker, req, at, gen, ambiguous, ran, billed, faults, history>>

\* UpstreamStreamInterrupted from the adapter, with the partial usage attached.
BreaksWithPartial(r) ==
    /\ pc[r] = "pulling"
    /\ Fault
    /\ Goto(r, "salvaging")
    /\ breaker' = Failed(r)
    /\ UNCHANGED <<req, at, gen, ambiguous, ran, billed, history>>

\* UpstreamStreamInterrupted from the stall timeout: no partial, nothing billed.
StallsFailsOver(r) ==
    /\ pc[r] = "pulling"
    /\ Fault
    /\ TryFrom(r, at[r] + 1, Failed(r), TRUE)
    /\ UNCHANGED <<req, ran, billed, history>>
Stalls(r) ==
    /\ pc[r] = "pulling"
    /\ Fault
    /\ Answer(r, "interrupted")
    /\ breaker' = Failed(r)
    /\ UNCHANGED <<req, at, gen, ambiguous, ran, billed, history>>

BreaksRaw(r) ==
    /\ "raw" \in Faults
    /\ pc[r] = "pulling"
    /\ Fault
    /\ Answer(r, "error")
    /\ breaker' = Failed(r)
    /\ UNCHANGED <<req, at, gen, ambiguous, ran, billed, history>>

\* The client goes away while it holds a delta: GeneratorExit in _drain.
ConsumerCloses(r) ==
    /\ "cancel" \in Faults
    /\ pc[r] = "at_delta"
    /\ Abandon(r, "cancelled")
    /\ UNCHANGED <<breaker, req, at, gen, ambiguous, ran, billed, faults, history>>

\* CancelledError while the next event is awaited, in _drain and the adapter.
CancelledPulling(r) ==
    /\ "cancel" \in Faults
    /\ pc[r] = "pulling"
    /\ Answer(r, "cancelled")
    /\ breaker' = Aborted(r)
    /\ UNCHANGED <<req, at, gen, ambiguous, ran, billed, faults, history>>

\* The terminal event is billed and forwarded, and _drain returns.
SettlesWithoutReturning(r) ==
    /\ pc[r] = "settling"
    /\ Bill(r)
    /\ Goto(r, "pulling")
    /\ UNCHANGED <<breaker, req, at, gen, ambiguous, ran, faults, history>>
Settles(r) ==
    /\ pc[r] = "settling"
    /\ Bill(r)
    /\ Abandon(r, "response")
    /\ UNCHANGED <<breaker, req, at, gen, ambiguous, ran, faults, history>>

\* Building, pricing or saving the terminal event's usage record raises.
SettleFails(r) ==
    /\ "record" \in Faults
    /\ pc[r] = "settling"
    /\ Abandon(r, "error")
    /\ UNCHANGED <<breaker, req, at, gen, ambiguous, ran, billed, faults, history>>

\* The abandoned generator is closed: GeneratorExit at its yield.
Finalized(r) ==
    /\ pc[r] = "finalizing"
    /\ Goto(r, "done")
    /\ breaker' = Aborted(r)
    /\ UNCHANGED <<req, at, gen, ambiguous, ran, billed, faults, history>>

\* The partial usage is billed and the interruption re-raised.
Salvages(r) ==
    /\ pc[r] = "salvaging"
    /\ Bill(r)
    /\ Answer(r, "interrupted")
    /\ UNCHANGED <<breaker, req, at, gen, ambiguous, ran, faults, history>>

SalvageFails(r) ==
    /\ "record" \in Faults
    /\ pc[r] = "salvaging"
    /\ Answer(r, "error")
    /\ UNCHANGED <<breaker, req, at, gen, ambiguous, ran, billed, faults, history>>

\* CancelledError while the usage record is being written: the record is lost
\* with its session.
CancelledRecording(r) ==
    /\ "cancel" \in Faults
    /\ \/ pc[r] \in {"recording", "salvaging"} /\ Answer(r, "cancelled")
       \/ pc[r] = "settling" /\ Abandon(r, "cancelled")
    /\ UNCHANGED <<breaker, req, at, gen, ambiguous, ran, billed, faults, history>>

-----------------------------------------------------------------------------
Tick ==
    /\ \E p \in Providers : Cooling(breaker[p])
    /\ breaker' = [p \in Providers |->
                     IF Cooling(breaker[p]) THEN Elapse(breaker[p]) ELSE breaker[p]]
    /\ UNCHANGED <<req, pc, at, gen, ambiguous, outcome, ran, billed, faults, history>>

Handle(r) ==
    \/ Start(r)
    \/ FailsUnavailable(r) \/ FailsAmbiguous(r) \/ FailsRaw(r) \/ CancelledWaiting(r)
    \/ CompleteReturns(r) \/ Records(r) \/ RecordFails(r)
    \/ FirstDelta(r) \/ FirstTerminal(r) \/ PrimeStops(r)
    \/ Resumes(r) \/ NextDelta(r) \/ NextTerminal(r)
    \/ BreaksWithPartial(r) \/ Stalls(r) \/ BreaksRaw(r) \/ PullStops(r)
    \/ ConsumerCloses(r) \/ CancelledPulling(r)
    \/ Settles(r) \/ SettleFails(r) \/ Finalized(r)
    \/ Salvages(r) \/ SalvageFails(r) \/ CancelledRecording(r)

Next == Tick \/ \E r \in Requests : Handle(r)

Spec == Init /\ [][Next]_vars

(***************************************************************************)
(* A request that can go on does; a stream that keeps producing events     *)
(* reaches its last one.                                                   *)
(***************************************************************************)
FairSpec ==
    /\ Spec
    /\ \A r \in Requests : WF_vars(Handle(r)) /\ SF_vars(NextTerminal(r))

-----------------------------------------------------------------------------
\* The candidates are tried best first: whenever a request is sent to one, every
\* strictly better candidate of its tier that it has not already passed is not
\* configured or has its circuit shut, whatever the other requests have just done
\* to the circuits.
BestFirst ==
    [][\A r \in Requests : at'[r] # at[r] =>
         LET t == req[r].tier
             old == Candidates(r)[at[r]]
             new == Candidates(r)[at'[r]]
         IN  /\ at[r] # 0 => Key(t, old) <= Key(t, new)
             /\ \A i \in DOMAIN Catalog[t] :
                  LET c == Catalog[t][i] IN
                  /\ Key(t, c) < Key(t, new)
                  /\ at[r] # 0 => Key(t, old) < Key(t, c)
                  => \/ c.provider \notin Registered
                     \/ ~Admits(breaker'[c.provider]) /\ c.provider # new.provider]_vars

\* FailoverPolicy.AT_MOST_ONCE, "no double-spend": whatever fails on the way, at
\* most one candidate's provider executes the request, not counting a stream that
\* stopped without an event, which the gateway takes for one that did not run.
AtMostOneExecution ==
    \A r \in Requests : req[r].failover_policy = AT_MOST_ONCE =>
        \A i, j \in ran[r] \ stopped[r] : i = j

\* ProviderNotAvailable is a clean failure under either policy: it is raised only
\* if no provider can have executed the request, however many were tried (again
\* taking a stream that stopped without an event for one that did not run).
UnavailableNeverRan ==
    \A r \in Requests : outcome[r] = "unavailable" => ran[r] \subseteq stopped[r]

\* A request is billed at most once, for a candidate that executed it and is the
\* last one tried, and always when its caller gets the full response.
BilledOnce ==
    \A r \in Requests :
        /\ Len(billed[r]) <= 1
        /\ \A k \in DOMAIN billed[r] : billed[r][k] \in ran[r] /\ billed[r][k] = at[r]
        /\ outcome[r] = "response" => billed[r] # <<>>

\* No failover once a candidate has produced its first event: a stream that is
\* being drained ends with that candidate, and with an outcome no layer retries.
CommitIsFinal ==
    [][\A r \in Requests : pc[r] \in Committed =>
         /\ at'[r] = at[r]
         /\ outcome'[r] \notin {"unavailable", "ambiguous"}]_vars

\* Across all requests and providers, a taken trial slot belongs to a request
\* whose call, or the closing of its generator, is still to come, unless a stream
\* that broke the adapters' contract took it along.
TrialsAreHeld ==
    \A p \in Providers : breaker[p].trial /\ p \notin leaked =>
        \E r \in Requests :
            pc[r] \in Calling /\ Provider(r) = p /\ gen[r] = breaker[p].gen

(***************************************************************************)
(* The inductive invariant, request by request.  While candidates are      *)
(* being tried nothing is billed or answered, and as long as no outcome is *)
(* ambiguous no provider has executed the request; under AT_MOST_ONCE no   *)
(* candidate is tried after an ambiguous outcome.  Once a candidate has    *)
(* answered, it has executed the request.                                  *)
(***************************************************************************)
Consistent(r) ==
    /\ pc[r] \in Calling \cup Committed \cup {"recording"} =>
          at[r] \in 1..Len(Candidates(r))
    /\ pc[r] = "new" => at[r] = 0 /\ ~ambiguous[r]
    /\ pc[r] \notin {"finalizing", "done"} => outcome[r] = "none" /\ billed[r] = <<>>
    /\ pc[r] \in {"new", "completing", "priming"} =>
          /\ ~ambiguous[r] => ran[r] \subseteq stopped[r]
          /\ req[r].failover_policy = AT_MOST_ONCE => ~ambiguous[r]
    /\ pc[r] \in Committed \cup {"recording"} => at[r] \in ran[r]

Inv ==
    /\ TypeOK
    /\ \A r \in Requests : Consistent(r)
    /\ AtMostOneExecution /\ UnavailableNeverRan /\ BilledOnce

\* stream()'s contract: once it has returned, the generator "can still fail, and
\* only as UpstreamStreamInterrupted" (or be given up by its consumer).
StreamFailsOnlyInterrupted ==
    [][\A r \in Requests : pc[r] \in Committed =>
         outcome'[r] \in {"none", "response", "interrupted", "cancelled"}]_vars

\* Every request is answered.
EveryRequestEnds == \A r \in Requests : pc[r] = "new" ~> pc[r] = "done"

=============================================================================
