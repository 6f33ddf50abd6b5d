-------------------------- MODULE AccountingProofs --------------------------
(***************************************************************************)
(* What usage accounting promises one api key, for any pricing rows, any   *)
(* number of processes and requests, any clocks, any scale of the cost     *)
(* column and any page size.                                               *)
(***************************************************************************)
EXTENDS Accounting, FiniteOrders

-----------------------------------------------------------------------------
\* Pricing.

\* The column stores the nearest unit.
LEMMA StoredIsNearest ==
    ASSUME NEW cost \in Nat
    PROVE  /\ Stored(cost) \in Nat
           /\ 2 * (Cent * Stored(cost) - cost) \in (-Cent)..Cent
<1> DEFINE d == Stored(cost)
           r == (2 * cost + Cent) % (2 * Cent)
<1>1. Cent \in Nat \ {0} /\ 2 * Cent \in Nat \ {0} /\ 2 * cost + Cent \in Nat
  BY AccountingAssumption
<1>2. d \in Nat
  BY <1>1 DEF Stored
<1>3. 2 * cost + Cent = (2 * Cent) * d + r /\ r \in 0..(2 * Cent - 1)
  BY <1>1 DEF Stored
<1> HIDE DEF d, r
<1>4. Cent * d \in Nat /\ (2 * Cent) * d = 2 * (Cent * d)
  BY <1>1, <1>2
<1>5. 2 * (Cent * d - cost) \in (-Cent)..Cent
  BY <1>1, <1>3, <1>4
<1> QED BY <1>2, <1>5 DEF d

\* What a process's clock shows.
LEMMA ClockShows ==
    ASSUME TypeOK, NEW p \in Processes
    PROVE  /\ Clock(p) \in 0..(MaxTime + MaxSkew) /\ now <= Clock(p)
           /\ Clock(p) <= now + MaxSkew
           /\ now \in Nat /\ MaxSkew \in Nat /\ MaxTime \in Nat
<1>1. Skew[p] \in 0..MaxSkew /\ MaxSkew \in Nat /\ MaxTime \in Nat /\ now \in 0..MaxTime
  BY ClockAssumption, AccountingAssumption DEF TypeOK
<1> QED BY <1>1 DEF Clock

\* A rate that the process looks up asks for a price that is fair: it is in effect by
\* some clock, and no rate that was published before the process started and is in
\* effect by all of them is newer.
LEMMA LatestIsFair ==
    ASSUME TypeOK, NEW p \in Processes, table[p] \subseteq published, NEW m \in Models,
           NEW r \in Latest(table[p], m, Clock(p))
    PROVE  r.price \in Fair(p, m)
<1> DEFINE current == {s \in published : s.model = m /\ s.effective_from <= now + MaxSkew}
<1>0. /\ Clock(p) \in Nat /\ now <= Clock(p) /\ Clock(p) <= now + MaxSkew
      /\ now \in Nat /\ MaxSkew \in Nat
  BY ClockShows
<1>1. /\ r \in table[p] /\ r.model = m /\ r.effective_from <= Clock(p) /\ r \in Rates
      /\ r \in published /\ r.effective_from \in Nat
  BY RatesAssumption DEF Latest, InEffect, TypeOK
<1>2. CASE current \subseteq table[p]
  <2>1. r \in current
    BY <1>0, <1>1
  <2>2. ~Superseded(r)
    <3> SUFFICES ASSUME NEW s \in published, s.model = r.model,
                        r.effective_from < s.effective_from, s.effective_from <= now
                 PROVE  FALSE
      BY DEF Superseded
    <3>1. s \in Rates /\ s.effective_from \in Nat
      BY RatesAssumption DEF TypeOK
    <3>2. s \in current /\ s.effective_from <= Clock(p)
      BY <1>0, <1>1, <3>1
    <3>3. s \in InEffect(table[p], m, Clock(p))
      BY <1>2, <3>2 DEF InEffect
    <3>4. s.effective_from <= r.effective_from
      BY <3>3 DEF Latest
    <3> QED BY <1>1, <3>1, <3>4
  <2> QED BY <1>2, <2>1, <2>2 DEF Fair
<1>3. CASE ~(current \subseteq table[p])
  BY <1>1, <1>3 DEF Fair
<1> QED BY <1>2, <1>3

\* The row a request is charged with is a row, fair and rounded.
LEMMA FlushedRow ==
    ASSUME TypeOK, NEW p \in Processes, table[p] \subseteq published, NEW q \in Requests,
           NEW m \in Models, NEW n \in Tokens, NEW r \in Latest(table[p], m, Clock(p)),
           row' = Flushed(q, p, m, n, r)
    PROVE  /\ row' \in [Requests -> Row]
           /\ row'[q].price \in row'[q].fair
           /\ 2 * (Cent * row'[q].cost - row'[q].tokens * row'[q].price) \in (-Cent)..Cent
           /\ \A x \in Requests \ {q} : row'[x] = row[x]
<1>1. r \in Rates
  BY DEF Latest, InEffect, TypeOK
<1>2. r.price \in Nat /\ n \in Nat
  BY <1>1, RatesAssumption, AccountingAssumption
<1>3. n * r.price \in Nat
  BY <1>2
<1> DEFINE cost == Stored(n * r.price)
           new == [model |-> m, tokens |-> n, cost |-> cost, created_at |-> Clock(p),
                   price |-> r.price, fair |-> Fair(p, m)]
<1>4. cost \in Nat /\ 2 * (Cent * cost - n * r.price) \in (-Cent)..Cent
  BY <1>3, StoredIsNearest
<1> HIDE DEF cost
<1>5. Fair(p, m) \in SUBSET Nat
  <2>1. published \subseteq Rates
    BY DEF TypeOK
  <2> QED BY <2>1, RatesAssumption DEF Fair
<1>6. row' = [row EXCEPT ![q] = new] /\ row \in [Requests -> Row]
  BY DEF Flushed, cost, TypeOK
<1>7. new \in Row
  BY <1>2, <1>4, <1>5, ClockShows DEF Row
<1>8. row'[q] = new
  BY <1>6
<1>9. r.price \in Fair(p, m)
  BY LatestIsFair
<1>10. row' \in [Requests -> Row] /\ \A x \in Requests \ {q} : row'[x] = row[x]
  <2> HIDE DEF new
  <2> QED BY <1>6, <1>7
<1> QED BY <1>4, <1>8, <1>9, <1>10

-----------------------------------------------------------------------------
\* Paging.

LEMMA VisibleIsFinite ==
    /\ IsFiniteSet(Visible) /\ Visible \subseteq Requests
    /\ \A s \in SUBSET Visible : /\ IsFiniteSet(s) /\ Cardinality(s) \in Nat
                                 /\ Cardinality(s) <= Cardinality(Requests)
    /\ Cardinality(Requests) \in Nat
<1>1. Visible \subseteq Requests
  BY DEF Visible, In
<1>2. \A s \in SUBSET Requests : /\ IsFiniteSet(s) /\ Cardinality(s) \in Nat
                                 /\ Cardinality(s) <= Cardinality(Requests)
  BY FS_Subset, FS_CardinalityType, AccountingAssumption
<1>3. Cardinality(Requests) \in Nat
  BY FS_CardinalityType, AccountingAssumption
<1> QED BY <1>1, <1>2, <1>3

\* A page that is cut out of what is visible at an offset: a full page fits, and a
\* row that is not on it shares its instant with another, or is so new that it was
\* skipped, or comes after the whole page.
LEMMA PageFacts ==
    ASSUME TypeOK, NEW offset \in Nat, NEW page \in Pages(offset)
    PROVE  /\ page \subseteq Visible /\ Cardinality(page) \in Nat
           /\ Cardinality(page) <= PageSize
           /\ Cardinality(page) = PageSize => offset + PageSize <= Cardinality(Requests)
           /\ \A q \in Visible \ page :
                 \/ Tied(q)
                 \/ Cardinality(Newer(q)) < offset
                 \/ /\ Cardinality(page) = PageSize
                    /\ Cardinality(Newer(q)) >= offset + PageSize
<1>1. page \in SUBSET Visible
  BY DEF Pages
<1>2. PICK before \in SUBSET (Visible \ page) :
            /\ Cardinality(before) <= offset /\ Cardinality(page) <= PageSize
            /\ page \cup (Visible \ (before \cup page)) # {} => Cardinality(before) = offset
            /\ Visible \ (before \cup page) # {} => Cardinality(page) = PageSize
            /\ \A x \in before, y \in page \cup (Visible \ (before \cup page)) : NotAfter(x, y)
            /\ \A x \in page, y \in Visible \ (before \cup page) : NotAfter(x, y)
  BY DEF Pages
<1> DEFINE after == Visible \ (before \cup page)
<1>3. /\ IsFiniteSet(before) /\ IsFiniteSet(page)
      /\ Cardinality(before) \in Nat /\ Cardinality(page) \in Nat
      /\ PageSize \in Nat \ {0} /\ Cardinality(Requests) \in Nat
  BY <1>1, <1>2, VisibleIsFinite, AccountingAssumption
<1>4. Cardinality(before \cup page) = Cardinality(before) + Cardinality(page)
  <2>1. before \cap page = {}
    BY <1>2
  <2>2. Cardinality(before \cap page) = 0
    BY <2>1, FS_EmptySet
  <2>3. Cardinality(before \cup page)
            = Cardinality(before) + Cardinality(page) - Cardinality(before \cap page)
    BY <1>3, FS_Union
  <2> QED BY <1>3, <2>2, <2>3
<1>5. Cardinality(page) = PageSize => offset + PageSize <= Cardinality(Requests)
  <2> SUFFICES ASSUME Cardinality(page) = PageSize
               PROVE  offset + PageSize <= Cardinality(Requests)
    OBVIOUS
  <2>1. page # {}
    BY <1>3, FS_EmptySet
  <2>2. Cardinality(before) = offset
    BY <1>2, <2>1
  <2>3. Cardinality(before \cup page) <= Cardinality(Requests)
    <3>1. before \cup page \in SUBSET Visible
      BY <1>1, <1>2
    <3> QED BY <3>1, VisibleIsFinite
  <2> QED BY <1>4, <2>2, <2>3
<1>6. ASSUME NEW q \in Visible \ page, ~Tied(q)
      PROVE  \/ Cardinality(Newer(q)) < offset
             \/ /\ Cardinality(page) = PageSize
                /\ Cardinality(Newer(q)) >= offset + PageSize
  <2>1. \A x \in Visible : row[x].created_at \in Nat
    BY VisibleIsFinite, AccountingAssumption, ClockAssumption DEF TypeOK, Row
  <2>2. \A x \in Visible \ {q} : row[x].created_at # row[q].created_at
    BY <1>6 DEF Tied
  <2>3. IsFiniteSet(Newer(q)) /\ Cardinality(Newer(q)) \in Nat
    BY VisibleIsFinite DEF Newer
  <2>4. CASE q \in before
    <3>1. Newer(q) \in SUBSET before /\ q \notin Newer(q)
      <4> SUFFICES ASSUME NEW x \in Newer(q) PROVE x \in before /\ x # q
        OBVIOUS
      <4>1. x \in Visible /\ row[x].created_at > row[q].created_at
        BY DEF Newer
      <4>2. ~NotAfter(q, x)
        BY <2>1, <4>1 DEF NotAfter
      <4>3. x \notin page \cup after
        BY <1>2, <2>4, <4>2
      <4> QED BY <2>1, <4>1, <4>3
    <3>2. Cardinality(Newer(q)) < Cardinality(before)
      BY <1>3, <2>3, <2>4, <3>1, FS_Subset
    <3> QED BY <1>2, <1>3, <2>3, <3>2
  <2>5. CASE q \in after
    <3>1. Cardinality(before) = offset /\ Cardinality(page) = PageSize
      BY <1>2, <2>5
    <3>2. before \cup page \in SUBSET Newer(q)
      <4> SUFFICES ASSUME NEW x \in before \cup page PROVE x \in Newer(q)
        OBVIOUS
      <4>1. NotAfter(x, q) /\ x \in Visible /\ x # q
        BY <1>1, <1>2, <2>5
      <4> QED BY <2>1, <2>2, <4>1 DEF NotAfter, Newer
    <3>3. Cardinality(before \cup page) <= Cardinality(Newer(q))
      BY <2>3, <3>2, FS_Subset
    <3> QED BY <1>3, <1>4, <2>3, <3>1, <3>3
  <2> QED BY <1>6, <2>4, <2>5
<1> QED BY <1>1, <1>2, <1>3, <1>5, <1>6

\* Rows that become visible leave the paging client's account in order: none of
\* them makes a tie go away or a row less new.
LEMMA VisibleGrows ==
    ASSUME TypeOK, PagingConsistent, paging' = paging, Visible \subseteq Visible',
           \A x \in Visible : row'[x] = row[x]
    PROVE  PagingConsistent'
<1>1. \A q \in Visible : Tied(q) => Tied(q)'
  BY DEF Tied
<1>2. ASSUME NEW q \in Visible PROVE Cardinality(Newer(q)') >= Cardinality(Newer(q))
                                     /\ Cardinality(Newer(q)) \in Nat
                                     /\ Cardinality(Newer(q)') \in Nat
  <2>1. Newer(q) \in SUBSET Newer(q)'
    BY DEF Newer
  <2>2. Newer(q)' \in SUBSET Requests /\ Newer(q) \in SUBSET Requests
    BY DEF Newer, Visible, In
  <2>3. IsFiniteSet(Newer(q)') /\ IsFiniteSet(Newer(q))
    BY <2>2, FS_Subset, AccountingAssumption
  <2> QED BY <2>1, <2>3, FS_Subset, FS_CardinalityType
<1>3. paging.offset \in Nat /\ paging.due \subseteq Visible
  BY VisibleIsFinite, AccountingAssumption DEF TypeOK, PagingConsistent
<1>4. ASSUME NEW q \in paging.due \ paging.seen
      PROVE  Tied(q)' \/ (paging.state = "reading" /\ Cardinality(Newer(q)') >= paging.offset)
  <2>1. q \in Visible
    BY <1>3, <1>4
  <2>2. Tied(q) \/ (paging.state = "reading" /\ Cardinality(Newer(q)) >= paging.offset)
    BY <1>4 DEF PagingConsistent
  <2> QED BY <1>1, <1>2, <1>3, <2>1, <2>2
<1> QED BY <1>3, <1>4 DEF PagingConsistent

\* Reading the next page.
LEMMA ReadPageKeeps ==
    ASSUME TypeOK, PagingConsistent, ReadPage
    PROVE  TypeOK' /\ PagingConsistent'
<1>1. PICK page \in Pages(paging.offset) :
          paging' = [offset |-> paging.offset + PageSize,
                     seen |-> paging.seen \cup page,
                     due |-> IF paging.state = "idle" THEN Visible ELSE paging.due,
                     state |-> IF Cardinality(page) < PageSize THEN "done" ELSE "reading"]
  BY DEF ReadPage
<1>2. /\ UNCHANGED <<now, published, table, status, row>>
      /\ paging.state \in {"idle", "reading"}
      /\ paging.offset \in Nat /\ PageSize \in Nat \ {0}
      /\ paging.offset <= Cardinality(Requests) /\ Cardinality(Requests) \in Nat
  BY VisibleIsFinite, AccountingAssumption DEF ReadPage, TypeOK, PagingConsistent
<1>3. Visible' = Visible /\ (\A q \in Requests : Tied(q)' = Tied(q) /\ Newer(q)' = Newer(q))
  BY <1>2 DEF Visible, In, Tied, Newer
<1>4. /\ page \subseteq Visible /\ Cardinality(page) \in Nat
      /\ Cardinality(page) <= PageSize
      /\ Cardinality(page) = PageSize => paging.offset + PageSize <= Cardinality(Requests)
      /\ \A q \in Visible \ page :
            \/ Tied(q)
            \/ Cardinality(Newer(q)) < paging.offset
            \/ /\ Cardinality(page) = PageSize
               /\ Cardinality(Newer(q)) >= paging.offset + PageSize
  BY <1>2, PageFacts
<1>5. /\ paging'.offset = paging.offset + PageSize
      /\ paging'.seen = paging.seen \cup page
      /\ paging'.due = IF paging.state = "idle" THEN Visible ELSE paging.due
      /\ paging'.state = IF Cardinality(page) < PageSize THEN "done" ELSE "reading"
  BY <1>1
<1>6. TypeOK'
  <2>1. paging.offset + PageSize \in 0..(Cardinality(Requests) + PageSize)
    BY <1>2
  <2>2. paging.seen \cup page \in SUBSET Requests
    BY <1>4, VisibleIsFinite DEF TypeOK
  <2>3. (IF paging.state = "idle" THEN Visible ELSE paging.due) \in SUBSET Requests
    BY VisibleIsFinite DEF TypeOK
  <2>4. paging' \in [offset: 0..(Cardinality(Requests) + PageSize), seen: SUBSET Requests,
                     due: SUBSET Requests, state: {"idle", "reading", "done"}]
    BY <1>1, <2>1, <2>2, <2>3
  <2> QED BY <1>2, <2>4 DEF TypeOK
<1>7. paging'.due \subseteq Visible'
  BY <1>3, <1>5 DEF PagingConsistent
<1>8. ASSUME NEW q \in paging'.due \ paging'.seen
      PROVE  Tied(q)' \/ (paging'.state = "reading" /\ Cardinality(Newer(q)') >= paging'.offset)
  <2>1. q \in Visible /\ q \in Requests /\ q \notin page /\ q \notin paging.seen
    BY <1>3, <1>5, <1>7, <1>8, VisibleIsFinite
  <2>2. Cardinality(Newer(q)) \in Nat
    BY VisibleIsFinite DEF Newer
  <2>3. Tied(q) \/ Cardinality(Newer(q)) >= paging.offset
    <3>1. CASE paging.state = "idle"
      BY <2>2, <3>1 DEF PagingConsistent
    <3>2. CASE paging.state # "idle"
      BY <1>5, <1>8, <2>1, <3>2 DEF PagingConsistent
    <3> QED BY <3>1, <3>2
  <2>4. Tied(q) \/ (/\ Cardinality(page) = PageSize
                    /\ Cardinality(Newer(q)) >= paging.offset + PageSize)
    BY <1>2, <1>4, <2>1, <2>2, <2>3
  <2> QED BY <1>2, <1>3, <1>5, <2>1, <2>4
<1>9. /\ paging'.state # "idle"
      /\ paging'.state # "done" => paging'.offset <= Cardinality(Requests)
  BY <1>2, <1>4, <1>5
<1> QED BY <1>6, <1>7, <1>8, <1>9 DEF PagingConsistent

-----------------------------------------------------------------------------
\* The inductive invariant.

LEMMA InitInv == Init => Inv
<1> SUFFICES ASSUME Init PROVE Inv
  OBVIOUS
<1>1. NoRow \in Row
  BY AccountingAssumption, ClockAssumption DEF NoRow, Row
<1>2. paging \in [offset: 0..(Cardinality(Requests) + PageSize), seen: SUBSET Requests,
                  due: SUBSET Requests, state: {"idle", "reading", "done"}]
  BY VisibleIsFinite, AccountingAssumption DEF Init
<1>3. TypeOK
  BY <1>1, <1>2, AccountingAssumption DEF Init, TypeOK, Statuses
<1>4. In({"flushed", "committed"}) = {}
  BY DEF Init, In
<1>5. PagingConsistent
  BY VisibleIsFinite DEF Init, PagingConsistent
<1> QED BY <1>3, <1>4, <1>5 DEF Init, Inv

\* A step that leaves the rows alone.
LEMMA RowsStay ==
    ASSUME NEW q, RowConsistent(q), UNCHANGED row
    PROVE  RowConsistent(q)'
  BY DEF RowConsistent

LEMMA RecordKeeps ==
    ASSUME Inv, NEW q \in Requests, NEW p \in Processes, Record(q, p)
    PROVE  Inv'
<1>1. /\ TypeOK /\ table[p] \subseteq published /\ PagingConsistent /\ status[q] = "open"
      /\ UNCHANGED <<now, published, table, paging>>
  BY DEF Inv, Record
<1>2. CASE row' = row /\ status' = [status EXCEPT ![q] = "unpriced"]
  <2>1. TypeOK'
    BY <1>1, <1>2 DEF TypeOK, Statuses
  <2>2. In({"flushed", "committed"})' = In({"flushed", "committed"}) /\ Visible' = Visible
    BY <1>1, <1>2 DEF In, Visible, TypeOK
  <2>3. PagingConsistent'
    BY <1>1, <1>2, <2>2, VisibleGrows
  <2>4. \A x \in In({"flushed", "committed"}) : RowConsistent(x)'
    BY <1>1, <1>2 DEF Inv, RowConsistent
  <2> QED BY <1>1, <2>1, <2>2, <2>3, <2>4 DEF Inv
<1>3. CASE \E m \in Models, n \in Tokens : \E r \in Latest(table[p], m, Clock(p)) :
              row' = Flushed(q, p, m, n, r) /\ status' = [status EXCEPT ![q] = "flushed"]
  <2>1. /\ row' \in [Requests -> Row] /\ row'[q].price \in row'[q].fair
        /\ 2 * (Cent * row'[q].cost - row'[q].tokens * row'[q].price) \in (-Cent)..Cent
        /\ \A x \in Requests \ {q} : row'[x] = row[x]
    BY <1>1, <1>3, FlushedRow
  <2>2. status' = [status EXCEPT ![q] = "flushed"]
    BY <1>3
  <2>3. TypeOK'
    BY <1>1, <2>1, <2>2 DEF TypeOK, Statuses
  <2>4. /\ \A x \in In({"flushed", "committed"})' :
              x = q \/ (x # q /\ x \in Requests /\ x \in In({"flushed", "committed"}))
        /\ Visible' = Visible /\ q \notin Visible
    BY <1>1, <2>2 DEF In, Visible, TypeOK
  <2>5. PagingConsistent'
    BY <1>1, <2>1, <2>4, VisibleGrows, VisibleIsFinite
  <2>6. RowConsistent(q)'
    BY <2>1 DEF RowConsistent
  <2>7. \A x \in In({"flushed", "committed"}) : x # q /\ x \in Requests => RowConsistent(x)'
    BY <1>1, <2>1 DEF Inv, RowConsistent
  <2> QED BY <1>1, <2>3, <2>4, <2>5, <2>6, <2>7 DEF Inv
<1> QED BY <1>2, <1>3 DEF Record

LEMMA CloseKeeps ==
    ASSUME Inv, NEW q \in Requests, Close(q)
    PROVE  Inv'
<1>1. /\ TypeOK /\ PagingConsistent /\ status[q] = "flushed"
      /\ UNCHANGED <<now, published, table, row, paging>>
      /\ \E s \in {"committed", "lost"} : status' = [status EXCEPT ![q] = s]
  BY DEF Inv, Close
<1>2. TypeOK'
  BY <1>1 DEF TypeOK, Statuses
<1>3. /\ In({"flushed", "committed"})' \subseteq In({"flushed", "committed"})
      /\ Visible \subseteq Visible'
  BY <1>1 DEF In, Visible, TypeOK
<1>4. PagingConsistent'
  BY <1>1, <1>3, VisibleGrows
<1>5. \A x \in In({"flushed", "committed"}) : RowConsistent(x)'
  BY <1>1 DEF Inv, RowConsistent
<1> QED BY <1>1, <1>2, <1>3, <1>4, <1>5 DEF Inv

LEMMA NextInv == Inv /\ [Next]_vars => Inv'
<1> SUFFICES ASSUME Inv, [Next]_vars PROVE Inv'
  OBVIOUS
<1>1. TypeOK /\ PagingConsistent
  BY DEF Inv
<1>2. ASSUME UNCHANGED <<status, row>>
      PROVE  /\ In({"flushed", "committed"})' = In({"flushed", "committed"})
             /\ Visible' = Visible
  BY <1>2 DEF In, Visible
<1>3. ASSUME NEW r \in Rates, Publish(r) PROVE Inv'
  <2>1. UNCHANGED <<now, table, status, row, paging>>
        /\ published' = published \cup {r}
    BY <1>3 DEF Publish
  <2>2. TypeOK' /\ \A p \in Processes : table'[p] \subseteq published'
    BY <1>1, <2>1 DEF TypeOK, Inv
  <2>3. PagingConsistent'
    BY <1>1, <1>2, <2>1, VisibleGrows
  <2>4. \A x \in In({"flushed", "committed"}) : RowConsistent(x)'
    BY <1>1, <2>1, RowsStay DEF Inv
  <2> QED BY <1>1, <1>2, <2>1, <2>2, <2>3, <2>4 DEF Inv
<1>4. ASSUME NEW p \in Processes, Start(p) PROVE Inv'
  <2>1. UNCHANGED <<now, published, status, row, paging>>
        /\ table' = [table EXCEPT ![p] = published]
    BY <1>4 DEF Start
  <2>2. TypeOK' /\ \A d \in Processes : table'[d] \subseteq published'
    BY <1>1, <2>1 DEF TypeOK, Inv
  <2>3. PagingConsistent'
    BY <1>1, <1>2, <2>1, VisibleGrows
  <2>4. \A x \in In({"flushed", "committed"}) : RowConsistent(x)'
    BY <1>1, <2>1, RowsStay DEF Inv
  <2> QED BY <1>1, <1>2, <2>1, <2>2, <2>3, <2>4 DEF Inv
<1>5. CASE Tick
  <2>1. UNCHANGED <<published, table, status, row, paging>>
        /\ now < MaxTime /\ now' = now + 1
    BY <1>5 DEF Tick
  <2>2. TypeOK'
    BY <1>1, <2>1, AccountingAssumption DEF TypeOK
  <2>3. PagingConsistent'
    BY <1>1, <1>2, <2>1, VisibleGrows
  <2>4. \A x \in In({"flushed", "committed"}) : RowConsistent(x)'
    BY <1>1, <2>1, <2>2, RowsStay DEF Inv
  <2> QED BY <1>2, <2>1, <2>2, <2>3, <2>4 DEF Inv
<1>6. CASE ReadPage
  <2>1. UNCHANGED <<now, published, table, status, row>>
    BY <1>6 DEF ReadPage
  <2>2. TypeOK' /\ PagingConsistent'
    BY <1>1, <1>6, ReadPageKeeps
  <2>3. \A x \in In({"flushed", "committed"}) : RowConsistent(x)'
    BY <1>1, <2>1, RowsStay DEF Inv
  <2> QED BY <1>1, <1>2, <2>1, <2>2, <2>3 DEF Inv
<1>7. CASE UNCHANGED vars
  <2>1. UNCHANGED <<now, published, table, status, row, paging>>
    BY <1>7 DEF vars
  <2>2. PagingConsistent'
    BY <1>1, <1>2, <2>1, VisibleGrows
  <2>3. \A x \in In({"flushed", "committed"}) : RowConsistent(x)'
    BY <1>1, <2>1, RowsStay DEF Inv
  <2> QED BY <1>1, <1>2, <2>1, <2>2, <2>3 DEF Inv, TypeOK
<1> QED BY <1>3, <1>4, <1>5, <1>6, <1>7, RecordKeeps, CloseKeeps DEF Next

\* The invariant holds for any prices, processes, requests and page size.
THEOREM Invariance == Spec => []Inv
  BY InitInv, NextInv, PTL DEF Spec

\* Every variable keeps its type; no paging client is led past the end.
THEOREM TypeCorrectness == Spec => []TypeOK
<1>1. Inv => TypeOK
  BY DEF Inv
<1> QED BY <1>1, Invariance, PTL

\* Every request is charged a rate in effect, give or take the difference between the
\* clocks, if its process could have known it.
THEOREM ChargedTheRateInEffect == Spec => []ChargedInEffect
<1>1. Inv => ChargedInEffect
  BY DEF Inv, RowConsistent, ChargedInEffect
<1> QED BY <1>1, Invariance, PTL

\* A client that lists page by page has seen, when it is done, every row that was
\* there when it began, unless another row has the same created_at.
THEOREM PagingIsComplete == Spec => []PagesMissNothing
<1>1. Inv => PagesMissNothing
  BY DEF Inv, PagingConsistent, PagesMissNothing
<1> QED BY <1>1, Invariance, PTL

\* Every stored cost is within half a unit of what its tokens ask for: the bound
\* that TotalsWithinRounding adds up.
THEOREM RowsWithinRounding ==
    Spec => [](\A q \in Visible :
        2 * (Cent * row[q].cost - row[q].tokens * row[q].price) \in (-Cent)..Cent)
<1>1. Inv => \A q \in Visible :
        2 * (Cent * row[q].cost - row[q].tokens * row[q].price) \in (-Cent)..Cent
  BY DEF Inv, RowConsistent, Visible, In
<1> QED BY <1>1, Invariance, PTL

\* The total that a report shows for some committed requests, and what their
\* tokens asked for, are sums that SumsStayClose compares.
LEMMA TotalsOfSomeRows ==
    ASSUME Inv, NEW S \in SUBSET Visible
    PROVE  2 * (Cent * Total(S).cost
                - MapThenSumSet(LAMBDA q : row[q].tokens * row[q].price, S))
             \in (-(Cent * Cardinality(S)))..(Cent * Cardinality(S))
<1> DEFINE f == [q \in S |-> row[q].cost]
           e == [q \in S |-> row[q].tokens * row[q].price]
           Costs(g) == g = [u \in SUBSET S |->
                  IF u = {} THEN 0
                  ELSE row[CHOOSE x \in u : TRUE].cost + g[u \ {CHOOSE x \in u : TRUE}]]
           Asked(g) == g = [u \in SUBSET S |->
                  IF u = {} THEN 0
                  ELSE row[CHOOSE x \in u : TRUE].tokens * row[CHOOSE x \in u : TRUE].price
                         + g[u \ {CHOOSE x \in u : TRUE}]]
           F == CHOOSE g : Costs(g)
           E == CHOOSE g : Asked(g)
<1>1. IsFiniteSet(S)
  BY VisibleIsFinite, FS_Subset DEF Inv
<1>2. Cent \in Nat
  BY AccountingAssumption
<1>3. \A q \in S : /\ row[q].cost \in Int /\ row[q].tokens * row[q].price \in Int
                   /\ 2 * (Cent * row[q].cost - row[q].tokens * row[q].price) \in (-Cent)..Cent
  <2>1. \A q \in S : q \in Requests /\ RowConsistent(q)
    BY DEF Inv, Visible, In
  <2>2. \A q \in S : row[q].cost \in Nat /\ row[q].tokens \in Nat /\ row[q].price \in Nat
    <3>1. \A q \in S : row[q] \in Row
      BY <2>1 DEF Inv, TypeOK
    <3>2. \A x \in Tokens \cup {0} : x \in Nat
      BY AccountingAssumption
    <3>3. \A r \in Row : r.cost \in Nat /\ r.tokens \in Tokens \cup {0} /\ r.price \in Nat
      BY DEF Row
    <3> HIDE DEF Row
    <3> QED BY <3>1, <3>2, <3>3
  <2> QED BY <2>1, <2>2 DEF RowConsistent
<1>4. f \in [S -> Int] /\ e \in [S -> Int]
  BY <1>3
<1>5. \A x \in S : 2 * (Cent * f[x] - e[x]) \in (-Cent)..Cent
  BY <1>3
<1>6. \A u \in SUBSET S : u # {} => First(u) \in S
  BY DEF First
<1>7. IsSum(F, f, S)
  <2>1. PICK g : IsSum(g, f, S)
    <3> HIDE DEF f
    <3> QED BY <1>1, <1>4, SumExists
  <2>2. \A h : IsSum(h, f, S) <=> Costs(h)
    BY <1>6 DEF IsSum, First
  <2> HIDE DEF Costs
  <2>3. Costs(F)
    BY <2>1, <2>2
  <2> QED BY <2>2, <2>3
<1>8. IsSum(E, e, S)
  <2>1. PICK g : IsSum(g, e, S)
    <3> HIDE DEF e
    <3> QED BY <1>1, <1>4, SumExists
  <2>2. \A h : IsSum(h, e, S) <=> Asked(h)
    BY <1>6 DEF IsSum, First
  <2> HIDE DEF Asked
  <2>3. Asked(E)
    BY <2>1, <2>2
  <2> QED BY <2>2, <2>3
<1>9. Total(S).cost = F[S]
  BY DEF Total, MapThenSumSet, MapThenFoldSet
<1>10. MapThenSumSet(LAMBDA q : row[q].tokens * row[q].price, S) = E[S]
  BY DEF MapThenSumSet, MapThenFoldSet
<1>11. 2 * (Cent * F[S] - E[S]) \in (-(Cent * Cardinality(S)))..(Cent * Cardinality(S))
  <2> HIDE DEF f, e, F, E
  <2> QED BY <1>1, <1>2, <1>4, <1>5, <1>7, <1>8, SumsStayClose
<1> HIDE DEF F, E
<1> QED BY <1>9, <1>10, <1>11

\* Rounding does not add up (usage_service, usage_summary): for any number of
\* requests and any period, a report's total and its total for each model are off by
\* at most half a unit per request.
THEOREM TotalsStayWithinRounding == Spec => []TotalsWithinRounding
<1>1. Inv => TotalsWithinRounding
  <2> SUFFICES ASSUME Inv, NEW m \in Models, NEW since \in 0..(MaxTime + MaxSkew),
                      NEW until \in 0..(MaxTime + MaxSkew),
                      NEW S \in {Window(since, until), ByModel(Window(since, until), m)}
               PROVE  LET off == 2 * (Cent * Total(S).cost
                            - MapThenSumSet(LAMBDA q : row[q].tokens * row[q].price, S))
                          most == Cent * Total(S).requests
                      IN  -most <= off /\ off <= most
    BY DEF TotalsWithinRounding
  <2>1. S \in SUBSET Visible
    BY DEF ByModel, Window
  <2>2. Total(S).requests = Cardinality(S) /\ Cardinality(S) \in Nat /\ Cent \in Nat
    BY <2>1, VisibleIsFinite, AccountingAssumption DEF Total
  <2> DEFINE off == 2 * (Cent * Total(S).cost
                         - MapThenSumSet(LAMBDA q : row[q].tokens * row[q].price, S))
             most == Cent * Cardinality(S)
  <2>3. off \in (-most)..most
    BY <2>1, TotalsOfSomeRows
  <2>4. most \in Nat
    BY <2>2
  <2>5. Cent * Total(S).requests = most
    BY <2>2
  <2> HIDE DEF off, most
  <2>6. -most <= off /\ off <= most
    BY <2>3, <2>4
  <2> QED BY <2>5, <2>6 DEF off
<1> QED BY <1>1, Invariance, PTL

=============================================================================
