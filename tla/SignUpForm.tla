----------------------------- MODULE SignUpForm ------------------------------
(***************************************************************************)
(* The phone of the sign-up and sign-in forms: the box of PhoneInput with  *)
(* a hidden input (".phone-full") that is what the browser posts.  A form  *)
(* that is refused (a short password, a phone already registered) comes    *)
(* back with the hidden input filled in and the visible fields empty, and  *)
(* wirePhones fills them from it.                                          *)
(***************************************************************************)
EXTENDS PhoneInput

VARIABLES
  full,   \* the value of the hidden input
  stage   \* another page is shown, or the form, or the form was posted

formVars == <<boxVars, full, stage>>

FormTypeOK ==
  /\ PhoneTypeOK
  /\ full \in Seq(Digit)
  /\ stage \in {"away", "form", "posted"}

FormInit ==
  /\ EmptyBox
  /\ full = <<>>
  /\ stage = "away"

Sync == full' = PhoneValue(cc', nat')

\* The form is rendered with nothing to hydrate from.
Open ==
  /\ stage = "away"
  /\ stage' = "form"
  /\ cc' = DefaultDialCode
  /\ nat' = <<>>
  /\ Sync

\* An input event of a field: it is formatted, then synced.
Fill ==
  /\ stage = "form"
  /\ Type
  /\ Sync
  /\ UNCHANGED stage

\* The submit listener syncs once more.
Submit ==
  /\ stage = "form"
  /\ stage' = "posted"
  /\ UNCHANGED boxVars
  /\ Sync

\* The page is rendered with what was posted; wirePhones hydrates the empty box.
Refused ==
  /\ stage = "posted"
  /\ stage' = "form"
  /\ IF full = <<>>
     THEN cc' = DefaultDialCode /\ nat' = <<>>
     ELSE SetPhone(full)
  /\ Sync

Accepted ==
  /\ stage = "posted"
  /\ ValidPhone(full)
  /\ stage' = "away"
  /\ UNCHANGED <<boxVars, full>>

FormNext == Open \/ Fill \/ Submit \/ Refused \/ Accepted

FormSpec == FormInit /\ [][FormNext]_formVars

-----------------------------------------------------------------------------
(* Properties.                                                              *)

\* A form that was refused and is sent again posts the same number, for a number of a
\* country the script knows: "hydrate from a server-rendered full value (e.g. after a
\* validation error)" (site.js:115).
RefusalKeepsNumber ==
  [][stage = "posted" /\ stage' = "form" /\ KnownNumber(full)
       => PhoneValue(cc', nat') = full]_formVars
=============================================================================
