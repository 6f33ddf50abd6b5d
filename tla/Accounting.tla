----------------------------- MODULE Accounting -----------------------------
(***************************************************************************)
(* app/core/accounting/pricing.py and usage_recorder.py, the usage and     *)
(* pricing repositories, and the usage endpoints, for ONE api key: how     *)
(* requests are priced, and what the reports say while requests go on.     *)
(*                                                                         *)
(* Each process reads the pricing rows once, when it starts (lifespan).    *)
(* The transaction of a request is open from its authentication; its usage *)
(* is priced and flushed when the provider has answered, and is visible to *)
(* reports once it is committed, some time after.  Rates are looked up,    *)
(* and rows dated, by the wall clock of the process: these clocks differ,  *)
(* by at most MaxSkew, and `now` is the time no clock is behind.           *)
(*                                                                         *)
(* A cost is an integer number of the smallest amounts a rate can yield,   *)
(* Cent of which make one unit of the column Numeric(12, 6).               *)
(***************************************************************************)
EXTENDS Integers, FiniteSets, FiniteSetsExt

CONSTANTS
    Processes,
    Requests,
    Skew,       \* how far each process's wall clock is ahead of now
    MaxSkew,
    Rates,      \* pricing rows that may be published: model, price, effective_from
    Models,     \* (provider, model) pairs
    Tokens,     \* token counts a provider may report
    Cent,
    PageSize,   \* limit
    MaxTime     \* bound: ticks

ASSUME ClockAssumption == MaxSkew \in Nat /\ Skew \in [Processes -> 0..MaxSkew]
ASSUME RatesAssumption ==
    \A r \in Rates : r.model \in Models /\ r.price \in Nat /\ r.effective_from \in Nat
ASSUME AccountingAssumption ==
    /\ IsFiniteSet(Requests) /\ Models # {}
    /\ Tokens \subseteq Nat /\ Cent \in Nat \ {0}
    /\ PageSize \in Nat \ {0} /\ MaxTime \in Nat

VARIABLES
    now,
    published,  \* the pricing table in the database
    table,      \* the rates each process has loaded; none until it starts
    status,     \* the transaction of each request
    row,        \* the usage record of each request
    paging      \* a client's walk through list_usage_records

vars == <<now, published, table, status, row, paging>>

Statuses == {"open", "unpriced", "flushed", "committed", "lost"}
NoRow == [model |-> CHOOSE m \in Models : TRUE, tokens |-> 0, cost |-> 0,
          created_at |-> 0, price |-> 0, fair |-> {0}]
Row == [model: Models, tokens: Tokens \cup {0}, cost: Nat, created_at: 0..(MaxTime + MaxSkew),
        price: Nat, fair: SUBSET Nat]

TypeOK ==
    /\ now \in 0..MaxTime
    /\ published \subseteq Rates
    /\ table \in [Processes -> SUBSET Rates]
    /\ status \in [Requests -> Statuses]
    /\ row \in [Requests -> Row]
    /\ paging \in [offset: 0..(Cardinality(Requests) + PageSize), seen: SUBSET Requests,
                   due: SUBSET Requests, state: {"idle", "reading", "done"}]

Init ==
    /\ now = 0
    /\ published = {}
    /\ table = [p \in Processes |-> {}]
    /\ status = [q \in Requests |-> "open"]
    /\ row = [q \in Requests |-> NoRow]
    /\ paging = [offset |-> 0, seen |-> {}, due |-> {}, state |-> "idle"]

In(s) == {q \in Requests : status[q] \in s}
Visible == In({"committed"})
Clock(p) == now + Skew[p]

-----------------------------------------------------------------------------
\* PricingTable.get: the latest rates in effect at t (one, unless two start
\* together; then the first that was loaded, in no particular order).
InEffectIgnoresDates(rates, m, t) == {r \in rates : r.model = m}
InEffect(rates, m, t) == {r \in rates : r.model = m /\ r.effective_from <= t}
Latest(rates, m, t) ==
    {r \in InEffect(rates, m, t) :
        \A s \in InEffect(rates, m, t) : s.effective_from <= r.effective_from}

\* What a cost becomes in its Numeric(12, 6) column: the nearest unit.
StoredTruncated(cost) == cost \div Cent
Stored(cost) == (2 * cost + Cent) \div (2 * Cent)

-----------------------------------------------------------------------------
\* A pricing row is inserted (by hand or by a migration: the code never does).
Publish(r) ==
    /\ r \notin published
    /\ published' = published \cup {r}
    /\ UNCHANGED <<now, table, status, row, paging>>

\* lifespan: load_pricing_rates and build_pricing_table.
Start(p) ==
    /\ table[p] # published
    /\ table' = [table EXCEPT ![p] = published]
    /\ UNCHANGED <<now, published, status, row, paging>>

\* History: the prices that the rates published so far ask for at this moment, give
\* or take MaxSkew, or any price if one of those rates came too late for process p
\* to load it.
Superseded(r) ==
    \E s \in published : s.model = r.model /\ r.effective_from < s.effective_from
                         /\ s.effective_from <= now
Fair(p, m) ==
    LET current == {r \in published : r.model = m /\ r.effective_from <= now + MaxSkew}
    IN  IF current \subseteq table[p]
        THEN {r.price : r \in {s \in current : ~Superseded(s)}}
        ELSE {r.price : r \in Rates}

\* UsageRecorder.record on process p, up to the flush.
Flushed(q, p, m, n, r) ==
    [row EXCEPT ![q] =
        [model |-> m, tokens |-> n, cost |-> Stored(n * r.price),
         created_at |-> Clock(p), price |-> r.price, fair |-> Fair(p, m)]]

Record(q, p) ==
    /\ status[q] = "open"
    /\ \E m \in Models, n \in Tokens :
          \/ \E r \in Latest(table[p], m, Clock(p)) :
                /\ row' = Flushed(q, p, m, n, r)
                /\ status' = [status EXCEPT ![q] = "flushed"]
          \/ /\ Latest(table[p], m, Clock(p)) = {}    \* PricingRateNotFound
             /\ status' = [status EXCEPT ![q] = "unpriced"]
             /\ row' = row
    /\ UNCHANGED <<now, published, table, paging>>

\* get_session exits: the row becomes visible, or is rolled back.
Close(q) ==
    /\ status[q] = "flushed"
    /\ \E s \in {"committed", "lost"} : status' = [status EXCEPT ![q] = s]
    /\ UNCHANGED <<now, published, table, row, paging>>

Tick ==
    /\ now < MaxTime
    /\ now' = now + 1
    /\ UNCHANGED <<published, table, status, row, paging>>

-----------------------------------------------------------------------------
\* The usage endpoints, each one SELECT over what is committed.

\* _apply_window: both ends are included.
Window(since, until) ==
    {q \in Visible : since <= row[q].created_at /\ row[q].created_at <= until}

\* usage_summary, and usage_by_model for each (provider, model): a count and the
\* sum of the stored costs.
Total(s) == [requests |-> Cardinality(s), cost |-> MapThenSumSet(LAMBDA q : row[q].cost, s)]
ByModel(s, m) == {q \in s : row[q].model = m}

\* list_usage_records: the rows x may come before y ...
NotAfterUnordered(x, y) == TRUE
NotAfter(x, y) == row[x].created_at >= row[y].created_at

\* ... and the pages that skip `offset` rows and take PageSize more: rows of the
\* same instant come in any order.
PagesIgnoringOffset(offset) ==
    {page \in SUBSET Visible :
        /\ Cardinality(page) <= PageSize
        /\ page # Visible => Cardinality(page) = PageSize
        /\ \A x \in page, y \in Visible \ page : NotAfter(x, y)}
Pages(offset) ==
    {page \in SUBSET Visible :
        \E before \in SUBSET (Visible \ page) :
            LET after == Visible \ (before \cup page) IN
            /\ Cardinality(before) <= offset /\ Cardinality(page) <= PageSize
            /\ page \cup after # {} => Cardinality(before) = offset
            /\ after # {} => Cardinality(page) = PageSize
            /\ \A x \in before, y \in page \cup after : NotAfter(x, y)
            /\ \A x \in page, y \in after : NotAfter(x, y)}

\* A client lists its records page by page, until a page is not full; `due` is
\* history: what was there to be listed when it began.
ReadPage ==
    /\ paging.state # "done"
    /\ \E page \in Pages(paging.offset) :
          paging' = [offset |-> paging.offset + PageSize,
                     seen |-> paging.seen \cup page,
                     due |-> IF paging.state = "idle" THEN Visible ELSE paging.due,
                     state |-> IF Cardinality(page) < PageSize THEN "done" ELSE "reading"]
    /\ UNCHANGED <<now, published, table, status, row>>

Next ==
    \/ \E r \in Rates : Publish(r)
    \/ \E p \in Processes : Start(p)
    \/ \E q \in Requests : Close(q) \/ \E p \in Processes : Record(q, p)
    \/ Tick \/ ReadPage

Spec == Init /\ [][Next]_vars

-----------------------------------------------------------------------------
\* A request is charged what a rate asks for that is in effect when it is recorded,
\* give or take the difference between the clocks, on every process and also when a
\* rate takes effect while the process runs, as long as the process has been started
\* since that rate was published.
ChargedInEffect ==
    \A q \in In({"flushed", "committed"}) : row[q].price \in row[q].fair

\* Rounding to the column's scale does not add up: a report on any period is off by
\* at most half a unit per request, in total and for each model.
TotalsWithinRounding ==
    \A m \in Models, since, until \in 0..(MaxTime + MaxSkew) :
      \A s \in {Window(since, until), ByModel(Window(since, until), m)} :
        LET off == 2 * (Cent * Total(s).cost
                        - MapThenSumSet(LAMBDA q : row[q].tokens * row[q].price, s))
            most == Cent * Total(s).requests
        IN  -most <= off /\ off <= most

\* Another row has the same created_at.
Tied(q) == \E r \in Visible \ {q} : row[r].created_at = row[q].created_at

\* Listing page by page misses nothing that was there at the start, though rows
\* are committed meanwhile in another order than they were created in; rows of
\* the same instant excepted, whose order no query fixes.
PagesMissNothing ==
    paging.state = "done" => \A q \in paging.due \ paging.seen : Tied(q)

(***************************************************************************)
(* The inductive invariant.  A process has loaded only what is published;  *)
(* a row is charged fairly and off by at most half a unit; and a row that  *)
(* the paging client has still to see is preceded by at least as many rows *)
(* as the client is going to skip.                                         *)
(***************************************************************************)
RowConsistent(q) ==
    /\ row[q].price \in row[q].fair
    /\ 2 * (Cent * row[q].cost - row[q].tokens * row[q].price) \in (-Cent)..Cent

Newer(q) == {x \in Visible : row[x].created_at > row[q].created_at}
PagingConsistent ==
    /\ paging.due \subseteq Visible
    /\ paging.state = "idle" => paging.offset = 0 /\ paging.due = {}
    /\ paging.state # "done" => paging.offset <= Cardinality(Requests)
    /\ \A q \in paging.due \ paging.seen :
          \/ Tied(q)
          \/ paging.state = "reading" /\ Cardinality(Newer(q)) >= paging.offset

Inv ==
    /\ TypeOK
    /\ \A p \in Processes : table[p] \subseteq published
    /\ \A q \in In({"flushed", "committed"}) : RowConsistent(q)
    /\ PagingConsistent

=============================================================================
