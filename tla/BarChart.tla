------------------------------- MODULE BarChart -------------------------------
(***************************************************************************)
(* The chart of the dashboard: Ulak.drawBarChart and niceTicks of site.js. *)
(* For each day two bars, delivered and failed, over a transparent "hit"   *)
(* rectangle; the mouse over any of the three shows one shared tooltip.    *)
(*                                                                         *)
(* Lengths are integers: an x is multiplied by 2 * (number of days) and a  *)
(* y or a height by the topmost tick, which the code divides by.  A bar of *)
(* nothing has height 0 (0.001 in the code).  Lines, axis and labels are   *)
(* left out, save that a number above a bar takes the mouse and hears      *)
(* nothing.                                                                *)
(***************************************************************************)
EXTENDS Integers, Sequences

CONSTANTS
  MaxInt,    \* the largest count: a sum of INT
  Weeks,     \* what the server may send: sequences of [ok |-> count, fail |-> count]
  Pointers,  \* where in the drawing the mouse may be: pairs <<x, y>>
  Away       \* the mouse is not over the drawing, or over no element of it

\* The days are those of proofs captured from seven days ago to five minutes ahead.
MaxDays == 9

\* What is drawn for a day.
Parts == {"hit", "ok", "fail"}

ASSUME ChartAssumption ==
  /\ MaxInt \in Nat \ {0}
  /\ Weeks \subseteq {w \in Seq([ok : 0..MaxInt, fail : 0..MaxInt]) : Len(w) <= MaxDays}
  /\ Pointers \subseteq Nat \X Nat
  /\ Away \notin Pointers
  /\ Away \notin Nat \X Parts

VARIABLES
  days,     \* the days of the page
  pointer,  \* where the mouse is
  over,     \* the element that was entered last and not left
  tip,      \* the tooltip: is-visible, the day it names, where it is
  hovered   \* the bars with class is-hovered

chartVars == <<days, pointer, over, tip, hovered>>

-----------------------------------------------------------------------------
(* The geometry.                                                            *)

PlotLeft == 26
PlotTop == 14
PlotWidth == 640 - PlotLeft - 12
PlotHeight == 220 - PlotTop - 30
BarWidth == 15
Gap == 4
MinHeight == 3

Larger(a, b) == IF a >= b THEN a ELSE b

\* Math.ceil(max / 4), where max is at least 1
TickStep(max) == (max + 3) \div 4

\* niceTicks: from 0 to four steps.
TopTick(max) == 4 * TickStep(max)

Counts(week) == {week[i].ok : i \in DOMAIN week} \cup {week[i].fail : i \in DOMAIN week}

\* Math.max(1, days.reduce(...))
MaxCount(week) == CHOOSE m \in Counts(week) \cup {1} : \A n \in Counts(week) \cup {1} : n <= m

\* Mutant: the smallest bar is as high as its share.
BarHeightPlain(count, top) == count * PlotHeight

BarHeight(count, top) ==
  IF count > 0 THEN Larger(count * PlotHeight, MinHeight * top) ELSE 0

\* The middle of a group of n; the first is 1.
Middle(i, n) == 2 * n * PlotLeft + (2 * i - 1) * PlotWidth

Halfway(n) == n * Gap
HitReach(n) == 2 * n * (BarWidth + 2) + Halfway(n)
BarReach(n) == 2 * n * BarWidth + Halfway(n)

Elements(week) == (DOMAIN week) \X Parts

\* Is a point in an element?  A group's rectangle is appended before its bars.
InRange(x, a, b) == a <= x /\ x < b

Covers(week, p, e) ==
  LET n   == Len(week)
      x   == 2 * n * p[1]
      mid == Middle(e[1], n)
      top == TopTick(MaxCount(week))
      bar == IF e[2] = "hit" THEN PlotHeight * top ELSE BarHeight(week[e[1]][e[2]], top)
  IN  /\ InRange(p[2] * top, (PlotTop + PlotHeight) * top - bar, (PlotTop + PlotHeight) * top)
      /\ CASE e[2] = "hit"  -> InRange(x, mid - HitReach(n), mid + HitReach(n))
           [] e[2] = "ok"   -> InRange(x, mid - BarReach(n), mid - Halfway(n))
           [] e[2] = "fail" -> InRange(x, mid + Halfway(n), mid + BarReach(n))

\* The last one appended of those below the mouse.
Above(e, f) == e[1] > f[1] \/ (e[1] = f[1] /\ e[2] # "hit" /\ f[2] = "hit")

ElementAt(week, p) ==
  LET below == {e \in Elements(week) : Covers(week, p, e)}
  IN  IF p = Away \/ below = {} THEN Away
      ELSE CHOOSE e \in below : \A f \in below \ {e} : Above(e, f)

\* What may be under the mouse: where a number above a bar is, only the browser knows.
Under(p) ==
  {ElementAt(days, p)} \cup (IF \E i \in DOMAIN days : days[i].ok > 0 THEN {Away} ELSE {})

-----------------------------------------------------------------------------
ChartTypeOK ==
  /\ days \in Weeks
  /\ pointer \in Pointers \cup {Away}
  /\ over \in Elements(days) \cup {Away}
  /\ tip \in [visible : BOOLEAN, day : {0} \cup DOMAIN days, at : Pointers \cup {Away}]
  /\ hovered \subseteq Elements(days)

\* The page is drawn once, for the days the server rendered into it.
ChartInit ==
  /\ days \in Weeks
  /\ pointer = Away
  /\ over = Away
  /\ tip = [visible |-> FALSE, day |-> 0, at |-> Away]
  /\ hovered = {}

\* The mouse moves within an element: mousemove only.
MoveWithin(p) ==
  /\ over \in Under(p)
  /\ pointer' = p
  /\ tip' = IF over = Away THEN tip ELSE [tip EXCEPT !.at = p]
  /\ UNCHANGED <<days, over, hovered>>

\* Mutant: leaving a bar does not hide the tooltip.
LeaveShowing ==
  /\ hovered' = hovered \ {over}
  /\ tip' = [tip EXCEPT !.visible = over[2] # "hit"]

\* The mouseleave listeners.
Leave ==
  /\ hovered' = hovered \ {over}
  /\ tip' = [tip EXCEPT !.visible = FALSE]

LeaveTo(p) ==
  /\ over # Away
  /\ Away \in Under(p)
  /\ pointer' = p
  /\ over' = Away
  /\ Leave
  /\ UNCHANGED days

\* The mouse comes to another element: mouseleave of the one, then mouseenter and mousemove
\* of the other.
Enter(p, e) ==
  /\ hovered' = (hovered \ {over}) \cup (IF e[2] = "hit" THEN {} ELSE {e})
  /\ tip' = [visible |-> TRUE, day |-> e[1], at |-> p]

EnterFrom(p) ==
  /\ ElementAt(days, p) \notin {Away, over}
  /\ pointer' = p
  /\ over' = ElementAt(days, p)
  /\ Enter(p, ElementAt(days, p))
  /\ UNCHANGED days

ChartNext ==
  \E p \in Pointers \cup {Away} : MoveWithin(p) \/ LeaveTo(p) \/ EnterFrom(p)

ChartSpec == ChartInit /\ [][ChartNext]_chartVars

-----------------------------------------------------------------------------
(* Properties.                                                              *)

\* No bar leaves the plot, not even one stretched to three pixels; every count but 0 has a
\* bar one can point at; and of two counts the larger never has the lower bar.
BarsTellCounts ==
  LET top == TopTick(MaxCount(days))
  IN  \A m, n \in Counts(days) :
        /\ BarHeight(m, top) <= PlotHeight * top
        /\ m > 0 => BarHeight(m, top) >= MinHeight * top
        /\ m <= n => BarHeight(m, top) <= BarHeight(n, top)

\* The tooltip is visible exactly when the mouse is over a group (and not over a number), and
\* names the day in whose share of the width the mouse is: no group reaches into the next
\* one's, so that no day hides a neighbour's bar (the widths are fixed, the number of days is
\* the server's).
\* The bar the mouse is over is the only one highlighted.
TipNamesDay ==
  /\ tip.visible <=> over # Away
  /\ hovered = {e \in Elements(days) : e = over /\ e[2] # "hit"}
  /\ tip.visible =>
       LET n == Len(days)
       IN  /\ tip.at = pointer
           /\ InRange(n * pointer[1], n * PlotLeft + (tip.day - 1) * PlotWidth,
                                      n * PlotLeft + tip.day * PlotWidth)
=============================================================================
