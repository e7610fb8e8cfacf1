--------------------------- MODULE DataTable_proofs ---------------------------
(***************************************************************************)
(* The paged table, for every page size, number of records, set of filters *)
(* and number of loads, whatever overlaps.                                 *)
(***************************************************************************)
EXTENDS DataTable, TLAPS

-----------------------------------------------------------------------------
(* Arithmetic of the pages.                                                 *)

LEMMA DivBounds ==
  ASSUME NEW a \in Nat, NEW b \in Nat \ {0}
  PROVE  LET q == a \div b IN q \in Nat /\ q * b <= a /\ a < (q + 1) * b
BY Z3

\* The pages are those that have rows, and the first.
LEMMA PagesHaveRows ==
  ASSUME NEW total \in Nat, NEW p \in Nat
  PROVE  /\ Pages(total) \in Nat \ {0}
         /\ p < Pages(total) <=> p = 0 \/ HasRows(p, total)
<1> DEFINE n == total + PageSize - 1
           q == n \div PageSize
<1>1. PageSize \in Nat \ {0} /\ n \in Nat
  BY TableAssumption
<1>2. q \in Nat /\ q * PageSize <= n /\ n < (q + 1) * PageSize
  BY <1>1, DivBounds
<1>3. CASE total = 0
  BY <1>1, <1>3, Z3 DEF Pages, HasRows
<1>4. CASE total # 0
  <2>1. Pages(total) = q
    BY <1>4 DEF Pages
  <2> HIDE DEF q
  <2>2. p < q => p * PageSize < total
    <3>1. p < q => (p + 1) * PageSize <= q * PageSize
      BY <1>1, <1>2, Z3
    <3>2. (p + 1) * PageSize = p * PageSize + PageSize /\ p * PageSize \in Nat
      BY <1>1, Z3
    <3> QED
      BY <1>1, <1>2, <3>1, <3>2, Z3
  <2>3. p * PageSize < total => p < q
    <3>1. p >= q => (p + 1) * PageSize >= (q + 1) * PageSize
      BY <1>1, <1>2, Z3
    <3>2. (p + 1) * PageSize = p * PageSize + PageSize /\ p * PageSize \in Nat
      BY <1>1, Z3
    <3> QED
      BY <1>1, <1>2, <3>1, <3>2, Z3
  <2>4. 0 < q
    <3>1. PageSize <= n
      BY <1>1, <1>4
    <3>2. q = 0 => (q + 1) * PageSize = PageSize
      BY <1>1, Z3
    <3> QED
      BY <1>1, <1>2, <3>1, <3>2, Z3
  <2> QED
    BY <2>1, <2>2, <2>3, <2>4, <1>2 DEF HasRows
<1> QED
  BY <1>3, <1>4

-----------------------------------------------------------------------------
(* Types.                                                                   *)

LEMMA QueryType ==
  ASSUME NEW no \in 1..MaxLoads, NEW p \in Nat, NEW f \in Filters, NEW u \in BOOLEAN
  PROVE  Query(no, p, f, u) \in Calls
BY DEF Query, Calls

LEMMA CallFields ==
  ASSUME NEW c \in Calls
  PROVE  /\ c.page \in Nat /\ c.filter \in Filters /\ c.total \in Nat
         /\ c.found \in BOOLEAN /\ c.undisturbed \in BOOLEAN
         /\ [c EXCEPT !.undisturbed = FALSE] \in Calls
         /\ \A b \in BOOLEAN : [c EXCEPT !.at = "rowsRead", !.found = b] \in Calls
         /\ \A n \in Nat : [c EXCEPT !.at = "counted", !.total = n] \in Calls
BY DEF Calls

LEMMA TableTypeInit == TableInit => TableTypeOK
BY TableAssumption DEF TableInit, TableTypeOK, Bodies, Pagers

LEMMA TableTypeStep == TableTypeOK /\ [TableNext]_tableVars => TableTypeOK'
<1> SUFFICES ASSUME TableTypeOK, [TableNext]_tableVars PROVE TableTypeOK'
  OBVIOUS
<1>t. /\ records \in [Filters -> Nat] /\ filter \in Filters /\ page \in Nat
      /\ loads \in Nat /\ MaxLoads \in Nat /\ inflight \subseteq Calls
      /\ body \in Bodies /\ pager \in Pagers
  BY TableAssumption DEF TableTypeOK
<1>1. ASSUME NEW p \in Nat, Load(p) PROVE TableTypeOK'
  <2> DEFINE alone == inflight = {} /\ (p = 0 \/ filter = pager.filter)
             call == Query(loads + 1, p, filter, alone)
  <2>1. /\ loads' = loads + 1 /\ loads < MaxLoads /\ page' = p /\ body' = Loading
        /\ inflight' = Disturbed \cup {call}
        /\ UNCHANGED <<records, filter, pager>>
    BY <1>1 DEF Load
  <2>2. loads + 1 \in 1..MaxLoads
    BY <1>t, <2>1
  <2>3. call \in Calls
    BY <1>t, <2>2, QueryType
  <2> HIDE DEF call
  <2>4. inflight' \subseteq Calls
    BY <1>t, <2>1, <2>3, CallFields DEF Disturbed
  <2>5. body' \in Bodies
    BY <2>1 DEF Loading, Bodies
  <2>6. loads' \in 0..MaxLoads
    BY <2>1, <2>2
  <2> QED
    BY <1>t, <2>1, <2>4, <2>5, <2>6 DEF TableTypeOK
<1>2. CASE Create \/ Refresh \/ PrevPage \/ NextPage
  <2>1. PICK p \in Nat : Load(p)
    <3>1. page + 1 \in Nat /\ (page > 0 => page - 1 \in Nat) /\ 0 \in Nat
      BY <1>t
    <3> QED
      BY <1>2, <3>1 DEF Create, Refresh, PrevPage, NextPage
  <2> QED
    BY <2>1, <1>1
<1>3. ASSUME NEW f \in Filters, EditFilter(f) PROVE TableTypeOK'
  BY <1>3 DEF EditFilter, TableTypeOK
<1>4. ASSUME NEW f \in Filters, RecordsChange(f) PROVE TableTypeOK'
  <2>1. records' \in [Filters -> Nat]
    BY <1>4, <1>t DEF RecordsChange
  <2> QED
    BY <1>4, <2>1 DEF RecordsChange, TableTypeOK
<1>5. ASSUME NEW call \in inflight, ReadRows(call) \/ CountRecords(call) PROVE TableTypeOK'
  <2>1. inflight' \subseteq Calls
    <3>1. call \in Calls /\ records[call.filter] \in Nat
      BY <1>t, CallFields
    <3>2. CASE ReadRows(call)
      <4> DEFINE b == HasRows(call.page, records[call.filter])
                 c == [call EXCEPT !.at = "rowsRead", !.found = b]
      <4>1. b \in BOOLEAN
        BY DEF HasRows
      <4>2. inflight' = (inflight \ {call}) \cup {c}
        BY <3>2 DEF ReadRows
      <4> HIDE DEF b
      <4>3. c \in Calls
        BY <3>1, <4>1, CallFields
      <4> HIDE DEF c
      <4> QED
        BY <1>t, <4>2, <4>3
    <3>3. CASE CountRecords(call)
      <4> DEFINE c == [call EXCEPT !.at = "counted", !.total = records[call.filter]]
      <4>1. inflight' = (inflight \ {call}) \cup {c}
        BY <3>3 DEF CountRecords
      <4>2. c \in Calls
        BY <3>1, CallFields
      <4> HIDE DEF c
      <4> QED
        BY <1>t, <4>1, <4>2
    <3> QED
      BY <1>5, <3>2, <3>3
  <2> QED
    BY <1>5, <2>1 DEF ReadRows, CountRecords, TableTypeOK
<1>6. ASSUME NEW call \in inflight, Done(call) PROVE TableTypeOK'
  <2>1. Pages(call.total) \in Nat \ {0} /\ call \in Calls
    BY <1>t, CallFields, PagesHaveRows
  <2> DEFINE p == IF page >= Pages(call.total) THEN Pages(call.total) - 1 ELSE page
  <2>2. p \in Nat /\ p + 1 \in Nat
    BY <1>t, <2>1
  <2>3. /\ page' = p
        /\ pager' = [rendered |-> TRUE, ind |-> p + 1, pages |-> Pages(call.total),
                     filter |-> call.filter]
    BY <1>6 DEF Done, RenderPager
  <2> HIDE DEF p
  <2>4. pager' \in Pagers
    BY <2>1, <2>2, <2>3, CallFields DEF Pagers
  <2>5. body' \in Bodies
    BY <1>6, <2>1, CallFields DEF Done, Answer, Bodies
  <2>6. inflight' \subseteq Calls
    BY <1>6, <1>t DEF Done
  <2> QED
    BY <1>6, <2>2, <2>3, <2>4, <2>5, <2>6 DEF Done, TableTypeOK
<1>7. ASSUME NEW call \in inflight, Fail(call) PROVE TableTypeOK'
  BY <1>7 DEF Fail, Error, Bodies, TableTypeOK
<1>8. CASE UNCHANGED tableVars
  BY <1>8 DEF tableVars, TableTypeOK
<1> QED
  BY <1>2, <1>3, <1>4, <1>5, <1>6, <1>7, <1>8 DEF TableNext, Serve

\* The type invariant of the table (Ulak.dataTable).
THEOREM TableTypes == TableSpec => []TableTypeOK
BY TableTypeInit, TableTypeStep, PTL DEF TableSpec

-----------------------------------------------------------------------------
(* The pager.                                                               *)

LEMMA PagerInit == TableInit => PageInRange /\ IndicatorIsPage
BY DEF TableInit, PageInRange, IndicatorIsPage

LEMMA PagerStep ==
  TableTypeOK /\ PageInRange /\ IndicatorIsPage /\ [TableNext]_tableVars
    => PageInRange' /\ IndicatorIsPage'
<1> SUFFICES ASSUME TableTypeOK, PageInRange, IndicatorIsPage, [TableNext]_tableVars
             PROVE  PageInRange' /\ IndicatorIsPage'
  OBVIOUS
<1>t. page \in Nat /\ pager.pages \in Nat /\ pager.ind \in Nat /\ inflight \subseteq Calls
  BY DEF TableTypeOK, Pagers
<1>1. ASSUME NEW p \in Nat, Load(p), pager.rendered => p < pager.pages
      PROVE  PageInRange' /\ IndicatorIsPage'
  <2>1. page' = p /\ pager' = pager /\ body'.shows = "loading"
    BY <1>1 DEF Load, Loading
  <2> QED
    BY <1>1, <2>1 DEF PageInRange, IndicatorIsPage
<1>2. CASE Create \/ Refresh \/ PrevPage \/ NextPage
  <2>1. PICK p \in Nat : Load(p) /\ (pager.rendered => p < pager.pages)
    <3>1. pager.rendered => page < pager.pages
      BY DEF PageInRange
    <3>2. CASE Create \/ Refresh
      BY <3>1, <3>2, <1>t DEF Create, Refresh
    <3>3. CASE PrevPage
      BY <3>1, <3>3, <1>t DEF PrevPage
    <3>4. CASE NextPage
      BY <3>1, <3>4, <1>t DEF NextPage
    <3> QED
      BY <1>2, <3>2, <3>3, <3>4
  <2> QED
    BY <1>1, <2>1
<1>3. ASSUME NEW call \in inflight, Done(call) PROVE PageInRange' /\ IndicatorIsPage'
  <2>1. Pages(call.total) \in Nat \ {0}
    BY <1>t, CallFields, PagesHaveRows
  <2> DEFINE p == IF page >= Pages(call.total) THEN Pages(call.total) - 1 ELSE page
  <2>2. p \in Nat /\ p < Pages(call.total) /\ p + 1 <= Pages(call.total)
    BY <1>t, <2>1
  <2>3. /\ page' = p
        /\ pager' = [rendered |-> TRUE, ind |-> p + 1, pages |-> Pages(call.total),
                     filter |-> call.filter]
    BY <1>3 DEF Done, RenderPager
  <2> HIDE DEF p
  <2>4. /\ pager'.rendered /\ pager'.ind = page' + 1
        /\ page' < pager'.pages /\ pager'.ind <= pager'.pages
    BY <2>2, <2>3
  <2> QED
    BY <2>4 DEF PageInRange, IndicatorIsPage
<1>4. ASSUME NEW call \in inflight, Fail(call) PROVE PageInRange' /\ IndicatorIsPage'
  <2>1. page' = page /\ pager' = pager /\ body'.shows = "error"
    BY <1>4 DEF Fail, Error
  <2> QED
    BY <2>1 DEF PageInRange, IndicatorIsPage
<1>5. CASE UNCHANGED <<page, pager, body>>
  BY <1>5 DEF PageInRange, IndicatorIsPage
<1> QED
  BY <1>2, <1>3, <1>4, <1>5
  DEF TableNext, Serve, EditFilter, RecordsChange, ReadRows, CountRecords, tableVars

LEMMA PagerHolds == TableSpec => [](PageInRange /\ IndicatorIsPage)
BY TableTypes, PagerInit, PagerStep, PTL DEF TableSpec

\* Whatever overlaps, fails or comes late, the table is on a page the pager knows
\* (renderPager, prev, next).
THEOREM PagerIsRight == TableSpec => []PageInRange
BY PagerHolds, PTL

\* And while rows are shown the indicator names the page they are of and that the next click
\* counts from (renderPager, renderBody).
THEOREM IndicatorIsRight == TableSpec => []IndicatorIsPage
BY PagerHolds, PTL

-----------------------------------------------------------------------------
(* An undisturbed load.                                                     *)

\* There are rows on the page, or it is the first, and this stays so.
Reaches(p, f) == f \in Shrinking \/ p = 0 \/ HasRows(p, records[f])

Counted(c) ==
  c.at = "counted" /\ c.filter \notin Shrinking =>
    c.total <= records[c.filter] /\ (c.undisturbed => c.page = 0 \/ HasRows(c.page, c.total))

Alone(c) ==
  c.undisturbed =>
    /\ inflight = {c}
    /\ c.page = page
    /\ Reaches(c.page, c.filter)
    /\ c.at = "asked" \/ c.found \/ c.page = 0 \/ c.filter \in Shrinking

LoadInv ==
  /\ \A c \in inflight : Counted(c) /\ Alone(c)
  /\ pager.rendered => \A p \in Nat : p < pager.pages => Reaches(p, pager.filter)
  /\ UndisturbedLoadIsRight

LEMMA LoadInvInit == TableInit => LoadInv
BY DEF TableInit, LoadInv, UndisturbedLoadIsRight

\* Records come, and go only under the filters that shrink.
LEMMA RecordsGrow ==
  ASSUME TableTypeOK, NEW f \in Filters, RecordsChange(f)
  PROVE  /\ \A g \in Filters \ Shrinking : records[g] <= records'[g]
         /\ \A p \in Nat, g \in Filters : Reaches(p, g) => Reaches(p, g)'
<1>t. PageSize \in Nat /\ records \in [Filters -> Nat] /\ records' \in [Filters -> Nat]
  BY TableAssumption DEF TableTypeOK, RecordsChange
<1>1. \A g \in Filters \ Shrinking : records[g] <= records'[g]
  BY <1>t DEF RecordsChange
<1>2. ASSUME NEW p \in Nat, NEW g \in Filters, Reaches(p, g) PROVE Reaches(p, g)'
  <2>1. CASE g \in Shrinking \/ p = 0
    BY <2>1 DEF Reaches
  <2>2. CASE g \notin Shrinking /\ HasRows(p, records[g])
    <3>1. records[g] <= records'[g] /\ records[g] \in Nat /\ records'[g] \in Nat
      BY <1>t, <1>1, <2>2
    <3>2. p * PageSize < records[g] /\ p * PageSize \in Nat
      BY <1>t, <2>2 DEF HasRows
    <3>3. p * PageSize < records'[g]
      BY <3>1, <3>2
    <3> QED
      BY <3>3 DEF Reaches, HasRows
  <2> QED
    BY <1>2, <2>1, <2>2 DEF Reaches
<1> QED
  BY <1>1, <1>2

\* A click: the calls before it are disturbed, and it goes to a page that the pager showed.
LEMMA LoadKeeps ==
  ASSUME TableTypeOK, LoadInv, NEW p \in Nat, Load(p),
         p = 0 \/ (pager.rendered /\ p < pager.pages)
  PROVE  LoadInv'
<1> DEFINE alone == inflight = {} /\ (p = 0 \/ filter = pager.filter)
<1>1. /\ page' = p /\ body' = Loading /\ records' = records /\ pager' = pager
      /\ inflight' = Disturbed \cup {Query(loads + 1, p, filter, alone)}
  BY DEF Load
<1>2. PICK call : /\ inflight' = Disturbed \cup {call}
                  /\ call.page = p /\ call.filter = filter /\ call.undisturbed = alone
                  /\ call.at = "asked"
  <2> DEFINE q == Query(loads + 1, p, filter, alone)
  <2>1. q.page = p /\ q.filter = filter /\ q.undisturbed = alone /\ q.at = "asked"
    BY DEF Query
  <2> HIDE DEF q
  <2> QED
    BY <1>1, <2>1 DEF q
<1>3. Counted(call)' /\ Alone(call)'
  <2>1. Counted(call)'
    BY <1>2 DEF Counted
  <2>2. ASSUME alone PROVE inflight' = {call} /\ Reaches(p, filter)
    <3>1. inflight' = {call}
      BY <1>2, <2>2 DEF Disturbed
    <3>2. p # 0 => filter = pager.filter /\ pager.rendered /\ p < pager.pages
      BY <2>2
    <3>3. p # 0 => Reaches(p, filter)
      BY <3>2 DEF LoadInv
    <3> QED
      BY <3>1, <3>3 DEF Reaches
  <2> QED
    BY <1>1, <1>2, <2>1, <2>2 DEF Alone, Reaches
<1>4. ASSUME NEW c \in inflight PROVE Counted([c EXCEPT !.undisturbed = FALSE])'
                                      /\ Alone([c EXCEPT !.undisturbed = FALSE])'
  <2>1. c \in Calls /\ Counted(c)
    BY DEF TableTypeOK, LoadInv
  <2> DEFINE d == [c EXCEPT !.undisturbed = FALSE]
  <2>2. /\ d.at = c.at /\ d.filter = c.filter /\ d.total = c.total /\ d.page = c.page
        /\ d.undisturbed = FALSE
    BY <2>1 DEF Calls
  <2> HIDE DEF d
  <2>3. Counted(d)' /\ Alone(d)'
    BY <1>1, <2>1, <2>2 DEF Counted, Alone
  <2> QED
    BY <2>3 DEF d
<1>5. \A c \in inflight' : Counted(c)' /\ Alone(c)'
  BY <1>2, <1>3, <1>4 DEF Disturbed
<1>6. (pager.rendered => \A q \in Nat : q < pager.pages => Reaches(q, pager.filter))'
  BY <1>1 DEF LoadInv, Reaches
<1>7. UndisturbedLoadIsRight'
  BY <1>1 DEF UndisturbedLoadIsRight, Loading
<1> QED
  BY <1>5, <1>6, <1>7 DEF LoadInv

\* The server's two statements: a call is replaced by what it has become.
LEMMA ServerKeeps ==
  ASSUME TableTypeOK, LoadInv, NEW call \in inflight, ReadRows(call) \/ CountRecords(call)
  PROVE  LoadInv'
<1>1. call \in Calls /\ Counted(call) /\ Alone(call) /\ records[call.filter] \in Nat
  <2>1. call \in Calls /\ Counted(call) /\ Alone(call)
    BY DEF TableTypeOK, LoadInv
  <2> QED
    BY <2>1, CallFields DEF TableTypeOK
<1>2. UNCHANGED <<records, filter, page, loads, body, pager>>
  BY DEF ReadRows, CountRecords
<1>3. PICK d : /\ inflight' = (inflight \ {call}) \cup {d}
               /\ d.page = call.page /\ d.filter = call.filter
               /\ d.undisturbed = call.undisturbed
               /\ \/ d.at = "rowsRead" /\ d.found = HasRows(call.page, records[call.filter])
                  \/ /\ d.at = "counted" /\ call.at = "rowsRead" /\ d.found = call.found
                     /\ d.total = records[call.filter]
  <2>1. CASE ReadRows(call)
    <3> DEFINE b == HasRows(call.page, records[call.filter])
               e == [call EXCEPT !.at = "rowsRead", !.found = b]
    <3>1. inflight' = (inflight \ {call}) \cup {e}
      BY <2>1 DEF ReadRows
    <3> HIDE DEF b
    <3>2. /\ e.page = call.page /\ e.filter = call.filter /\ e.at = "rowsRead"
          /\ e.undisturbed = call.undisturbed /\ e.found = b
      BY <1>1 DEF Calls
    <3> HIDE DEF e
    <3> QED
      BY <3>1, <3>2 DEF b
  <2>2. CASE CountRecords(call)
    <3> DEFINE n == records[call.filter]
               e == [call EXCEPT !.at = "counted", !.total = n]
    <3>1. inflight' = (inflight \ {call}) \cup {e} /\ call.at = "rowsRead"
      BY <2>2 DEF CountRecords
    <3> HIDE DEF n
    <3>2. /\ e.page = call.page /\ e.filter = call.filter /\ e.at = "counted"
          /\ e.undisturbed = call.undisturbed /\ e.found = call.found /\ e.total = n
      BY <1>1 DEF Calls
    <3> HIDE DEF e
    <3> QED
      BY <3>1, <3>2 DEF n
  <2> QED
    BY <2>1, <2>2
<1>4. call.undisturbed => inflight' = {d}
  BY <1>1, <1>3 DEF Alone
<1>5. Alone(d)'
  BY <1>1, <1>2, <1>3, <1>4 DEF Alone, Reaches
<1>6. Counted(d)'
  <2>1. SUFFICES ASSUME d.at = "counted", d.filter \notin Shrinking
                 PROVE  /\ d.total <= records[d.filter]
                        /\ d.undisturbed => d.page = 0 \/ HasRows(d.page, d.total)
    BY <1>2 DEF Counted
  <2>2. d.total = records[d.filter] /\ d.total \in Nat
    BY <1>1, <1>3, <2>1
  <2>3. d.total <= records[d.filter]
    BY <2>2
  <2>4. d.undisturbed => Reaches(d.page, d.filter)
    BY <1>1, <1>3 DEF Alone
  <2> QED
    BY <2>1, <2>2, <2>3, <2>4 DEF Reaches
<1>7. ASSUME NEW c \in inflight \ {call} PROVE (Counted(c) /\ Alone(c))'
  <2>1. Counted(c) /\ Alone(c) /\ ~c.undisturbed
    BY <1>7 DEF LoadInv, Alone
  <2> QED
    BY <2>1, <1>2 DEF Counted, Alone
<1>8. \A c \in inflight' : (Counted(c) /\ Alone(c))'
  BY <1>3, <1>5, <1>6, <1>7
<1> QED
  BY <1>2, <1>8 DEF LoadInv, Reaches, UndisturbedLoadIsRight

\* An answer: what it counted is still there, and an undisturbed one stays on its page.
LEMMA DoneKeeps ==
  ASSUME TableTypeOK, LoadInv, NEW call \in inflight, Done(call)
  PROVE  LoadInv'
<1>1. call \in Calls /\ Counted(call) /\ Alone(call) /\ call.at = "counted"
  BY DEF TableTypeOK, LoadInv, Done
<1>2. /\ call.total \in Nat /\ call.page \in Nat /\ call.filter \in Filters
      /\ records[call.filter] \in Nat /\ page \in Nat /\ PageSize \in Nat
  <2>1. call.total \in Nat /\ call.page \in Nat /\ call.filter \in Filters
    BY <1>1, CallFields
  <2> QED
    BY <2>1, TableAssumption DEF TableTypeOK
<1>3. /\ records' = records /\ inflight' = inflight \ {call} /\ body' = Answer(call)
      /\ pager'.rendered /\ pager'.pages = Pages(call.total) /\ pager'.filter = call.filter
      /\ page' = IF page >= Pages(call.total) THEN Pages(call.total) - 1 ELSE page
  BY DEF Done, RenderPager
<1>4. \A c \in inflight' : (Counted(c) /\ Alone(c))'
  <2>1. SUFFICES ASSUME NEW c \in inflight, c # call PROVE (Counted(c) /\ Alone(c))'
    BY <1>3
  <2>2. Counted(c) /\ ~c.undisturbed
    BY <2>1 DEF LoadInv, Alone
  <2> QED
    BY <2>2, <1>3 DEF Counted, Alone
<1>5. ASSUME NEW p \in Nat, p < Pages(call.total) PROVE Reaches(p, call.filter)
  <2>1. p = 0 \/ HasRows(p, call.total)
    BY <1>2, <1>5, PagesHaveRows
  <2>2. CASE call.filter \notin Shrinking /\ HasRows(p, call.total)
    <3>1. call.total <= records[call.filter]
      BY <1>1, <2>2 DEF Counted
    <3>2. p * PageSize \in Nat /\ p * PageSize < call.total
      BY <1>2, <2>2 DEF HasRows
    <3>3. p * PageSize < records[call.filter]
      BY <1>2, <3>1, <3>2
    <3> QED
      BY <3>3 DEF Reaches, HasRows
  <2> QED
    BY <2>1, <2>2 DEF Reaches
<1>6. (pager.rendered => \A p \in Nat : p < pager.pages => Reaches(p, pager.filter))'
  BY <1>3, <1>5 DEF Reaches
<1>7. UndisturbedLoadIsRight'
  <2>1. SUFFICES ASSUME call.undisturbed, call.filter \notin Shrinking
                 PROVE  call.page = page' /\ (~call.found => page' = 0)
    BY <1>3 DEF UndisturbedLoadIsRight, Answer
  <2>2. page = call.page /\ (call.page = 0 \/ HasRows(call.page, call.total))
    BY <1>1, <2>1 DEF Alone, Counted
  <2>3. Pages(call.total) \in Nat /\ page < Pages(call.total)
    BY <1>2, <2>2, PagesHaveRows
  <2>4. page' = page
    BY <1>2, <1>3, <2>3
  <2>5. ~call.found => page = 0
    BY <1>1, <2>1, <2>2 DEF Alone
  <2> QED
    BY <2>2, <2>4, <2>5
<1> QED
  BY <1>4, <1>6, <1>7 DEF LoadInv

LEMMA LoadInvStep ==
  TableTypeOK /\ PageInRange /\ LoadInv /\ [TableNext]_tableVars => LoadInv'
<1> SUFFICES ASSUME TableTypeOK, PageInRange, LoadInv, [TableNext]_tableVars PROVE LoadInv'
  OBVIOUS
<1>1. CASE Create \/ Refresh \/ PrevPage \/ NextPage
  <2>1. page \in Nat /\ pager.pages \in Nat
    BY DEF TableTypeOK, Pagers
  <2>2. PICK p \in Nat : Load(p) /\ (p = 0 \/ (pager.rendered /\ p < pager.pages))
    <3>1. CASE Create \/ Refresh
      BY <3>1 DEF Create, Refresh
    <3>2. CASE PrevPage
      BY <3>2, <2>1 DEF PrevPage, PageInRange
    <3>3. CASE NextPage
      BY <3>3, <2>1 DEF NextPage
    <3> QED
      BY <1>1, <3>1, <3>2, <3>3
  <2> QED
    BY <2>2, LoadKeeps
<1>2. ASSUME NEW f \in Filters, RecordsChange(f) PROVE LoadInv'
  <2>1. UNCHANGED <<filter, page, loads, inflight, body, pager>>
    BY <1>2 DEF RecordsChange
  <2>2. /\ \A g \in Filters \ Shrinking : records[g] <= records'[g]
        /\ \A p \in Nat, g \in Filters : Reaches(p, g) => Reaches(p, g)'
    BY <1>2, RecordsGrow
  <2>3. ASSUME NEW c \in inflight PROVE (Counted(c) /\ Alone(c))'
    <3>1. c \in Calls /\ c.page \in Nat /\ c.filter \in Filters /\ c.total \in Nat
      BY CallFields DEF TableTypeOK
    <3>2. Counted(c) /\ Alone(c)
      BY DEF LoadInv
    <3>3. Alone(c)'
      BY <2>1, <2>2, <3>1, <3>2 DEF Alone
    <3>4. c.filter \notin Shrinking =>
            /\ records[c.filter] \in Nat /\ records'[c.filter] \in Nat
            /\ records[c.filter] <= records'[c.filter]
      <4>1. records \in [Filters -> Nat] /\ records' \in [Filters -> Nat]
        BY <1>2 DEF TableTypeOK, RecordsChange
      <4> QED
        BY <2>2, <3>1, <4>1
    <3>5. c.at = "counted" /\ c.filter \notin Shrinking => c.total <= records'[c.filter]
      BY <3>1, <3>2, <3>4 DEF Counted
    <3>6. Counted(c)'
      BY <2>1, <3>2, <3>5 DEF Counted
    <3> QED
      BY <3>3, <3>6
  <2>4. pager.filter \in Filters
    BY DEF TableTypeOK, Pagers
  <2>5. (pager.rendered => \A p \in Nat : p < pager.pages => Reaches(p, pager.filter))'
    BY <2>1, <2>2, <2>4 DEF LoadInv
  <2> QED
    BY <2>1, <2>3, <2>5 DEF LoadInv, UndisturbedLoadIsRight
<1>3. ASSUME NEW call \in inflight, Fail(call) PROVE LoadInv'
  <2>1. /\ inflight' = inflight \ {call} /\ body' = Error
        /\ UNCHANGED <<records, filter, page, loads, pager>>
    BY <1>3 DEF Fail
  <2>2. ASSUME NEW c \in inflight \ {call} PROVE (Counted(c) /\ Alone(c))'
    <3>1. Counted(c) /\ ~c.undisturbed
      BY <2>2, <1>3 DEF LoadInv, Alone
    <3> QED
      BY <3>1, <2>1 DEF Counted, Alone
  <2> QED
    BY <2>1, <2>2 DEF LoadInv, Reaches, UndisturbedLoadIsRight, Error
<1>4. ASSUME UNCHANGED <<records, page, inflight, body, pager>> PROVE LoadInv'
  BY <1>4 DEF LoadInv, Counted, Alone, Reaches, UndisturbedLoadIsRight
<1>5. ASSUME NEW f \in Filters, EditFilter(f) PROVE LoadInv'
  BY <1>4, <1>5 DEF EditFilter
<1>6. CASE UNCHANGED tableVars
  BY <1>4, <1>6 DEF tableVars
<1> QED
  BY <1>1, <1>2, <1>3, <1>5, <1>6, ServerKeeps, DoneKeeps DEF TableNext, Serve

\* A load nobody interfered with, under a filter whose records do not shrink, shows the
\* page the pager names and says "no records" on the first page only.
THEOREM UndisturbedIsRight == TableSpec => []UndisturbedLoadIsRight
<1>1. LoadInv => UndisturbedLoadIsRight
  BY DEF LoadInv
<1> QED
  BY <1>1, TableTypes, PagerIsRight, LoadInvInit, LoadInvStep, PTL DEF TableSpec
=============================================================================
