------------------------------ MODULE DataTable ------------------------------
(***************************************************************************)
(* Ulak.dataTable of site.js: the paged table of the deliveries and of the *)
(* proofs page.  Every click loads a page from the server; nothing waits   *)
(* for the answer, nothing numbers it, and the stored procedure behind it  *)
(* reads the rows of the page and counts the records in two statements.    *)
(* Answers may come in any order, and records come and go meanwhile.       *)
(***************************************************************************)
EXTENDS Integers, FiniteSets

CONSTANTS
  Filters,     \* what the filter inputs of the page may say
  Shrinking,   \* the filters (by status, by driver) whose records may become fewer
  PageSize,
  MaxRecords,  \* a bound: the records that match a filter, for each
  MaxLoads     \* a bound: how often the table is loaded

ASSUME TableAssumption ==
  /\ Shrinking \subseteq Filters
  /\ PageSize \in Nat \ {0}
  /\ MaxRecords \in [Filters -> Nat]
  /\ MaxLoads \in Nat \ {0}

VARIABLES
  records,   \* the records of the database that match a filter
  filter,    \* what the filter inputs say
  page,      \* the page the table is on, from 0
  loads,     \* how often it was loaded
  inflight,  \* the getJSON calls whose callback has not run
  body,      \* what <tbody> shows
  pager      \* what is below it: "ind / pages"; the filter it was rendered for is history

tableVars == <<records, filter, page, loads, inflight, body, pager>>

-----------------------------------------------------------------------------
\* A call; "undisturbed" is history: it was alone from the click to the answer, and went
\* to the first page or to one that the pager showed for the same filter.
Calls ==
  [no : 1..MaxLoads, page : Nat, filter : Filters, undisturbed : BOOLEAN,
   at : {"asked", "rowsRead", "counted"}, found : BOOLEAN, total : Nat]

\* The table shows nothing yet, a placeholder, an error, or an answer: its call is history.
Bodies ==
  [shows : {"nothing", "loading", "error"}]
  \cup [shows : {"rows", "empty"}, page : Nat, filter : Filters, undisturbed : BOOLEAN]

Pagers == [rendered : BOOLEAN, ind : Nat, pages : Nat, filter : Filters]

TableTypeOK ==
  /\ records \in [Filters -> Nat]
  /\ filter \in Filters
  /\ page \in Nat
  /\ loads \in 0..MaxLoads
  /\ inflight \subseteq Calls
  /\ body \in Bodies
  /\ pager \in Pagers

\* Math.max(1, Math.ceil(total / pageSize))
Pages(total) == IF total = 0 THEN 1 ELSE (total + PageSize - 1) \div PageSize

\* OFFSET @Skip ROWS FETCH NEXT @Take ROWS ONLY finds any, of n records
HasRows(p, n) == p * PageSize < n

\* Of a call: the query read from the filter inputs and the page when it is made.
Query(no, p, f, undisturbed) ==
  [no |-> no, page |-> p, filter |-> f, undisturbed |-> undisturbed,
   at |-> "asked", found |-> FALSE, total |-> 0]

Loading == [shows |-> "loading"]
Error == [shows |-> "error"]

Answer(call) ==
  [shows |-> IF call.found THEN "rows" ELSE "empty", page |-> call.page,
   filter |-> call.filter, undisturbed |-> call.undisturbed]

TableInit ==
  \E f \in Filters :
    /\ records = [g \in Filters |-> 0]
    /\ filter = f
    /\ page = 0
    /\ loads = 0
    /\ inflight = {}
    /\ body = [shows |-> "nothing"]
    /\ pager = [rendered |-> FALSE, ind |-> 0, pages |-> 0, filter |-> f]

-----------------------------------------------------------------------------
(* The table.                                                               *)

Disturbed == {[c EXCEPT !.undisturbed = FALSE] : c \in inflight}

\* Mutant: the rows stay until the answer comes.
LoadSilently(p) ==
  LET alone == inflight = {} /\ (p = 0 \/ filter = pager.filter)
      call  == Query(loads + 1, p, filter, alone)
  IN  /\ loads < MaxLoads
      /\ loads' = loads + 1
      /\ page' = p
      /\ inflight' = Disturbed \cup {call}
      /\ UNCHANGED <<records, filter, pager, body>>

\* load(), with the page already set.
Load(p) ==
  LET alone == inflight = {} /\ (p = 0 \/ filter = pager.filter)
      call  == Query(loads + 1, p, filter, alone)
  IN  /\ loads < MaxLoads
      /\ loads' = loads + 1
      /\ page' = p
      /\ inflight' = Disturbed \cup {call}
      /\ body' = Loading
      /\ UNCHANGED <<records, filter, pager>>

\* The script of the page creates the table.
Create ==
  /\ loads = 0
  /\ Load(0)

\* The filter button, Enter in the search box, and the page after a save.
Refresh ==
  /\ loads > 0
  /\ Load(0)

\* The buttons are enabled by the page and the pages at the time the pager was rendered.
PrevPage ==
  /\ pager.rendered
  /\ pager.ind > 1
  /\ page > 0
  /\ Load(page - 1)

\* Mutant: both bounds one too far.
NextTooFar ==
  /\ pager.rendered
  /\ pager.ind <= pager.pages
  /\ page < pager.pages
  /\ Load(page + 1)

NextPage ==
  /\ pager.rendered
  /\ pager.ind < pager.pages
  /\ page < pager.pages - 1
  /\ Load(page + 1)

\* Mutant: the page is not brought back into range.
RenderPagerUnclamped(call) ==
  /\ page' = page
  /\ pager' = [rendered |-> TRUE, ind |-> page + 1, pages |-> Pages(call.total),
               filter |-> call.filter]

\* renderPager: it may move the page back, and does not load again.
RenderPager(call) ==
  LET pages == Pages(call.total)
      p     == IF page >= pages THEN pages - 1 ELSE page
  IN  /\ page' = p
      /\ pager' = [rendered |-> TRUE, ind |-> p + 1, pages |-> pages, filter |-> call.filter]

Done(call) ==
  /\ call.at = "counted"
  /\ inflight' = inflight \ {call}
  /\ body' = Answer(call)
  /\ RenderPager(call)
  /\ UNCHANGED <<records, filter, loads>>

\* Mutant: the handler of a failure leaves the placeholder.
FailSilently(call) ==
  /\ inflight' = inflight \ {call}
  /\ UNCHANGED <<records, filter, page, loads, body, pager>>

\* The pager stays as it is, whatever page the click had asked for.
Fail(call) ==
  /\ inflight' = inflight \ {call}
  /\ body' = Error
  /\ UNCHANGED <<records, filter, page, loads, pager>>

EditFilter(f) ==
  /\ filter # f
  /\ filter' = f
  /\ UNCHANGED <<records, page, loads, inflight, body, pager>>

-----------------------------------------------------------------------------
(* The server: usp_Delivery_AdminSearch, usp_Admin_ProofSearch.             *)

ReadRows(call) ==
  /\ call.at = "asked"
  /\ inflight' = (inflight \ {call}) \cup
       {[call EXCEPT !.at = "rowsRead", !.found = HasRows(call.page, records[call.filter])]}
  /\ UNCHANGED <<records, filter, page, loads, body, pager>>

CountRecords(call) ==
  /\ call.at = "rowsRead"
  /\ inflight' = (inflight \ {call}) \cup
       {[call EXCEPT !.at = "counted", !.total = records[call.filter]]}
  /\ UNCHANGED <<records, filter, page, loads, body, pager>>

\* Deliveries are opened, assigned and proved, never deleted: what a status or a driver
\* selects may become less.
RecordsChange(f) ==
  /\ \/ /\ records[f] < MaxRecords[f]
        /\ records' = [records EXCEPT ![f] = @ + 1]
     \/ /\ f \in Shrinking
        /\ records[f] > 0
        /\ records' = [records EXCEPT ![f] = @ - 1]
  /\ UNCHANGED <<filter, page, loads, inflight, body, pager>>

-----------------------------------------------------------------------------
Serve(call) == ReadRows(call) \/ CountRecords(call) \/ Done(call) \/ Fail(call)

TableNext ==
  \/ Create \/ Refresh \/ PrevPage \/ NextPage
  \/ \E f \in Filters : EditFilter(f) \/ RecordsChange(f)
  \/ \E call \in inflight : Serve(call)

TableSpec == TableInit /\ [][TableNext]_tableVars

\* The browser ends every call it has begun, by an answer or an error.
ServeNo(n) == \E call \in inflight : call.no = n /\ Serve(call)

-----------------------------------------------------------------------------
(* Properties.                                                              *)

\* Whatever was clicked while answers were missing and in whichever order they came or
\* failed, the table is never on a page past the last one the pager counts, and the pager
\* never shows a page number past it (renderPager, prev, next).
PageInRange ==
  pager.rendered => page < pager.pages /\ pager.ind <= pager.pages

\* When the table shows an answer, the "n / m" below it is the page the next click starts
\* from, however many other answers are still to come.
IndicatorIsPage ==
  body.shows \in {"rows", "empty"} => pager.rendered /\ pager.ind = page + 1

\* A load nobody interfered with, under a filter whose records do not shrink, shows the
\* rows of the page the pager names, and says "no records" on the first page only.  Loads
\* that overlap, filters edited but not applied, and records that leave a status make the
\* page and its rows disagree.
UndisturbedLoadIsRight ==
  /\ body.shows \in {"rows", "empty"}
  /\ body.undisturbed
  /\ body.filter \notin Shrinking
  => /\ body.page = page
     /\ body.shows = "empty" => page = 0

\* The placeholder "..." does not stay: what a load began, its answer or its failure ends.
LoadingEnds == body.shows = "loading" ~> body.shows # "loading"
=============================================================================
