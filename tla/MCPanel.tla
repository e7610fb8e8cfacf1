------------------------------- MODULE MCPanel -------------------------------
(***************************************************************************)
(* Small instances of the parts of the web panel, checked side by side and *)
(* not together: they share no state, and each behaviour is one of the     *)
(* part that "part" names, while the variables of the others stay as they  *)
(* begin.                                                                  *)
(***************************************************************************)
EXTENDS DataTable, DriversPage, SignUpForm, ThemeToggle, BarChart, WebSession

VARIABLE part

panelVars ==
  <<part, tableVars, driversVars, full, stage, themeVars, chartVars, webVars>>

\* Small values: two filters; dial codes known, unknown, none and empty; numbers with leading
\* zeros, too long and of zeros only; short weeks and a long one.
PanelFilters == {"all", "pending"}
PanelShrinking == {"pending"}
PanelRecords == [f \in PanelFilters |-> IF f = "all" THEN 3 ELSE 1]
PanelCodes == {NoCode, <<>>, <<3, 4>>, <<1>>, <<3, 6>>, <<0, 0, 4>>}
PanelNationals ==
  {<<0, 5, 5, 1, 2, 3, 4>>, <<5, 5, 1, 2>>, <<2, 0, 1, 2, 3, 4, 5, 6, 7, 8, 9>>, <<0, 0>>}
PanelOthers == {<<3, 4, 2, 0, 1, 2, 3, 4, 5, 6, 7, 8>>}
PanelWeeks ==
  LET Day(ok, fail) == [ok |-> ok, fail |-> fail]
  IN  {<<>>,
       <<Day(1, 0)>>,
       <<Day(0, 0), Day(3, 0)>>,
       <<Day(2, 1), Day(0, 0), Day(300, 1), Day(9, 4),
         Day(5, 5), Day(1, 0), Day(0, 2), Day(7, 3)>>}
PanelPointers == {40, 60, 63, 105, 327, 333} \X {10, 16, 188}

\* A bound, on the drivers page: one number is typed, under the dial code that the box has,
\* the default one or that of a number which the other admin gave.
SmallTyping == TypePhone => cc' = cc /\ nat' = FormatNational(<<0, 5, 5, 1, 2, 3, 4>>)

\* Another: behind the page, one driver changes between two reloads.
OneStale == Cardinality(stale') <= 1

-----------------------------------------------------------------------------
PanelInit ==
  /\ part \in {"table", "drivers", "form", "theme", "chart", "session"}
  /\ TableInit
  /\ DriversInit
  /\ FormInit
  /\ ThemeInit
  /\ ChartInit
  /\ WebInit
  /\ filter = "all"
  /\ part # "theme" => storage
  /\ part # "chart" => days = <<>>

TableStep(Step) ==
  /\ part = "table"
  /\ Step
  /\ UNCHANGED <<part, driversVars, full, stage, themeVars, chartVars, webVars>>

PanelNext ==
  \/ TableStep(TableNext)
  \/ /\ part = "drivers"
     /\ DriversNext
     /\ SmallTyping
     /\ OneStale
     /\ UNCHANGED <<part, tableVars, full, stage, themeVars, chartVars, webVars>>
  \/ /\ part = "form"
     /\ FormNext
     /\ UNCHANGED <<part, tableVars, listVars, dialog, callVars, crossed, stale>>
     /\ UNCHANGED <<themeVars, chartVars, webVars>>
  \/ /\ part = "theme"
     /\ ThemeNext
     /\ UNCHANGED <<part, tableVars, driversVars, full, stage, chartVars, webVars>>
  \/ /\ part = "chart"
     /\ ChartNext
     /\ UNCHANGED <<part, tableVars, driversVars, full, stage, themeVars, webVars>>
  \/ /\ part = "session"
     /\ WebNext
     /\ UNCHANGED <<part, tableVars, driversVars, full, stage, themeVars, chartVars>>

PanelRuns == PanelInit /\ [][PanelNext]_panelVars

\* The browser ends every call of the table that it has begun.
PanelFairness == \A n \in 1..MaxLoads : WF_panelVars(TableStep(ServeNo(n)))

PanelSpec == PanelRuns /\ PanelFairness

-----------------------------------------------------------------------------
\* The variables of every part keep their types.
PanelTypeOK ==
  /\ TableTypeOK
  /\ DriversTypeOK
  /\ FormTypeOK
  /\ ThemeTypeOK
  /\ ChartTypeOK
  /\ WebTypeOK
=============================================================================
