----------------------------- MODULE ThemeToggle -----------------------------
(***************************************************************************)
(* The theme of the panel (initTheme of site.js), in several tabs of one   *)
(* browser: an attribute of each page, one value in localStorage that the  *)
(* tabs share, and the preference of the system, which may change at any   *)
(* time and is read anew whenever a page has no attribute.                 *)
(***************************************************************************)
CONSTANT Tabs

VARIABLES
  system,   \* prefers-color-scheme
  storage,  \* localStorage works (not in a private window)
  stored,   \* what it holds; "none" is nothing usable
  attr,     \* data-theme of the page in a tab, or "none"
  label,    \* the theme the button of the page offers
  chosen,   \* history: the theme the last click in any tab turned on, or "none"
  current   \* history: the tabs loaded or clicked in since then

themeVars == <<system, storage, stored, attr, label, chosen, current>>

Themes == {"dark", "light"}
Opposite(t) == IF t = "dark" THEN "light" ELSE "dark"

ThemeTypeOK ==
  /\ system \in Themes
  /\ storage \in BOOLEAN
  /\ stored \in Themes \cup {"none"}
  /\ attr \in [Tabs -> Themes \cup {"none"}]
  /\ label \in [Tabs -> Themes]
  /\ chosen \in Themes \cup {"none"}
  /\ current \subseteq Tabs

CurrentTheme(explicit) == IF explicit = "none" THEN system ELSE explicit
StoredTheme == IF storage THEN stored ELSE "none"

\* The pages are loaded for the first time.
ThemeInit ==
  /\ system = "light"
  /\ storage \in BOOLEAN
  /\ stored = "none"
  /\ attr = [t \in Tabs |-> "none"]
  /\ label = [t \in Tabs |-> "dark"]
  /\ chosen = "none"
  /\ current = Tabs

\* A page is loaded in a tab: the stored theme, or else no attribute; the label is set.
LoadPage(t) ==
  /\ attr' = [attr EXCEPT ![t] = StoredTheme]
  /\ label' = [label EXCEPT ![t] = Opposite(CurrentTheme(StoredTheme))]
  /\ current' = current \cup {t}
  /\ UNCHANGED <<system, storage, stored, chosen>>

\* Mutant: the theme that was left is what is stored.
ToggleStoringOld(t) ==
  LET next == Opposite(CurrentTheme(attr[t]))
  IN  /\ attr' = [attr EXCEPT ![t] = next]
      /\ stored' = IF storage THEN CurrentTheme(attr[t]) ELSE stored
      /\ label' = [label EXCEPT ![t] = Opposite(next)]
      /\ chosen' = next
      /\ current' = {t}
      /\ UNCHANGED <<system, storage>>

\* Mutant: the label is swapped, whatever it said.
ToggleSwappingLabel(t) ==
  LET next == Opposite(CurrentTheme(attr[t]))
  IN  /\ attr' = [attr EXCEPT ![t] = next]
      /\ stored' = IF storage THEN next ELSE stored
      /\ label' = [label EXCEPT ![t] = Opposite(@)]
      /\ chosen' = next
      /\ current' = {t}
      /\ UNCHANGED <<system, storage>>

\* The click on the button.
Toggle(t) ==
  LET next == Opposite(CurrentTheme(attr[t]))
  IN  /\ attr' = [attr EXCEPT ![t] = next]
      /\ stored' = IF storage THEN next ELSE stored
      /\ label' = [label EXCEPT ![t] = Opposite(next)]
      /\ chosen' = next
      /\ current' = {t}
      /\ UNCHANGED <<system, storage>>

\* Pages without the attribute follow at once; their labels do not.
SystemChanges ==
  /\ system' = Opposite(system)
  /\ UNCHANGED <<storage, stored, attr, label, chosen, current>>

ThemeNext ==
  \/ \E t \in Tabs : LoadPage(t) \/ Toggle(t)
  \/ SystemChanges

ThemeSpec == ThemeInit /\ [][ThemeNext]_themeVars

-----------------------------------------------------------------------------
(* Properties.                                                              *)

\* Where localStorage works, a theme once chosen outlives reloads and changes of the system:
\* every tab that was loaded or clicked in since the last choice of any tab shows it
\* (storeTheme on the click, storedTheme on the load).
ChoiceIsKept ==
  storage /\ chosen # "none" => \A t \in current : CurrentTheme(attr[t]) = chosen

\* The button of a page with a theme of its own offers the other one, also where the system
\* changed between the load and the first click, so that the label was stale by then.
ButtonOffersOther ==
  \A t \in Tabs : attr[t] # "none" => label[t] = Opposite(attr[t])
=============================================================================
