----------------------------- MODULE DriversPage -----------------------------
(***************************************************************************)
(* The drivers page of the panel: the list, Ulak.modal and the one dialog  *)
(* in which a driver is created or edited, the buttons that switch a       *)
(* driver on and off, and the accounts behind them, which other admins of  *)
(* the company change as well.                                             *)
(*                                                                         *)
(* Saving is a POST whose callbacks write into the dialog, whatever the    *)
(* dialog is about by then: it can be closed, and opened for another row,  *)
(* while the answer is missing.  An edit or a switch that succeeded        *)
(* reloads the page, which shows the drivers that are switched off only on *)
(* demand.  Names are left out: the account is known by its phone.         *)
(***************************************************************************)
EXTENDS PhoneInput

CONSTANTS
  MaxDrivers,  \* a bound: accounts created
  MaxSaves,    \* a bound: saves and switches sent by this page
  OtherPhones  \* the phones that other admins give their drivers

ASSUME DriversAssumption ==
  /\ MaxDrivers \in Nat
  /\ MaxSaves \in Nat
  /\ OtherPhones \subseteq Seq(Digit) \ {<<>>}

VARIABLES
  accounts,      \* the drivers in AppUser
  rows,          \* those in the table of the page
  showInactive,  \* ?showInactive= of the page
  dialog,        \* the dialog
  saves,         \* the POSTs of the dialog that are not over
  switches,      \* those of the buttons "activate" and "deactivate"
  sent,          \* how many were sent
  crossed,       \* history: the dialog was opened while a save was under way
  stale          \* history: the drivers that changed since the page was rendered without
                 \* an answer that this page will hear

listVars == <<accounts, rows, showInactive>>
callVars == <<saves, switches, sent>>
driversVars == <<listVars, dialog, boxVars, callVars, crossed, stale>>

-----------------------------------------------------------------------------
Drivers == 1..MaxDrivers

Accounts == [phone : Seq(Digit), active : BOOLEAN]
NoAccount == [phone |-> <<>>, active |-> FALSE]

\* "editing" is the driver, or 0 to create one; "shown" the driver whose temporary password
\* the dialog shows instead of the form and of the Save button, or 0.  "from" and "touched"
\* are history: the phone the dialog was opened with, and whether the admin typed in the box.
Dialogs ==
  [open : BOOLEAN, editing : 0..MaxDrivers, disabled : BOOLEAN, shown : 0..MaxDrivers,
   from : Seq(Digit), touched : BOOLEAN]

\* "heard": the page that sent it is still there.  A save is "checked" between the two
\* statements of its procedure.
Saves ==
  [no : 1..MaxSaves, editing : 0..MaxDrivers, phone : Seq(Digit), heard : BOOLEAN,
   at : {"sent", "checked", "done", "failed"}, id : 0..MaxDrivers,
   from : Seq(Digit), touched : BOOLEAN]

Switches ==
  [no : 1..MaxSaves, driver : Drivers, to : BOOLEAN, heard : BOOLEAN,
   at : {"sent", "done", "failed"}]

DriversTypeOK ==
  /\ PhoneTypeOK
  /\ accounts \in [Drivers -> Accounts]
  /\ rows \in [Drivers -> Accounts]
  /\ showInactive \in BOOLEAN
  /\ dialog \in Dialogs
  /\ saves \subseteq Saves
  /\ switches \subseteq Switches
  /\ sent \in 0..MaxSaves
  /\ crossed \in BOOLEAN
  /\ stale \subseteq Drivers

ClosedDialog ==
  [open |-> FALSE, editing |-> 0, disabled |-> FALSE, shown |-> 0,
   from |-> <<>>, touched |-> FALSE]

DriversInit ==
  /\ EmptyBox
  /\ accounts = [d \in Drivers |-> NoAccount]
  /\ rows = accounts
  /\ showInactive = FALSE
  /\ dialog = ClosedDialog
  /\ saves = {}
  /\ switches = {}
  /\ sent = 0
  /\ crossed = FALSE
  /\ stale = {}

Heard == {s \in saves : s.heard}

\* usp_AppUser_ListDrivers
Listing(show) ==
  [d \in Drivers |-> IF accounts[d].active \/ show THEN accounts[d] ELSE NoAccount]

-----------------------------------------------------------------------------
(* The dialog and the buttons of a row.                                     *)

\* openModal: for a new driver (0) or for a row that has the button, which it has while the
\* driver is active; it forgets the save under way.
OpenModal(d) ==
  LET phone == IF d = 0 THEN <<>> ELSE rows[d].phone
  IN  /\ d # 0 => rows[d].active
      /\ dialog' = [ClosedDialog EXCEPT !.open = TRUE, !.editing = d, !.from = phone]
      /\ SetPhone(phone)
      /\ crossed' = (crossed \/ Heard # {})
      /\ UNCHANGED <<listVars, callVars, stale>>

\* The backdrop, a [data-close] button, Escape.
CloseModal ==
  /\ dialog.open
  /\ dialog' = [dialog EXCEPT !.open = FALSE]
  /\ UNCHANGED <<listVars, boxVars, callVars, crossed, stale>>

TypePhone ==
  /\ dialog.open
  /\ dialog.shown = 0
  /\ Type
  /\ dialog' = [dialog EXCEPT !.touched = TRUE]
  /\ UNCHANGED <<listVars, callVars, crossed, stale>>

NewSave ==
  [no |-> sent + 1, editing |-> dialog.editing, phone |-> PhoneValue(cc, nat),
   heard |-> TRUE, at |-> "sent", id |-> 0, from |-> dialog.from, touched |-> dialog.touched]

\* The click on Save; without a phone there is only an error to read.
SaveSends ==
  /\ dialog.open
  /\ dialog.shown = 0
  /\ ~dialog.disabled
  /\ PhoneValue(cc, nat) # <<>>
  /\ sent < MaxSaves
  /\ sent' = sent + 1
  /\ saves' = saves \cup {NewSave}
  /\ UNCHANGED <<listVars, boxVars, switches, crossed, stale>>

\* Mutant: the button stays enabled.
SaveAgain == SaveSends /\ UNCHANGED dialog

Save == SaveSends /\ dialog' = [dialog EXCEPT !.disabled = TRUE]

\* setActive, of a row that has the button "deactivate" or "activate".
SetActive(d) ==
  /\ rows[d] # NoAccount
  /\ sent < MaxSaves
  /\ sent' = sent + 1
  /\ switches' = switches \cup
       {[no |-> sent + 1, driver |-> d, to |-> ~rows[d].active, heard |-> TRUE, at |-> "sent"]}
  /\ UNCHANGED <<listVars, dialog, boxVars, saves, crossed, stale>>

-----------------------------------------------------------------------------
(* The server: usp_AppUser_CreateDriver, usp_AppUser_UpdateDriver and       *)
(* usp_AppUser_SetDriverActive, called by this page and by other admins.    *)

Free(phone, d) == \A e \in Drivers \ {d} : accounts[e].phone # phone

Becomes(s, t) == saves' = (saves \ {s}) \cup (IF s.heard THEN {t} ELSE {})

\* A change that this page will not hear of.
Unheard(call, d) == stale' = stale \cup (IF call.heard THEN {} ELSE {d})

serverVars == <<rows, showInactive, dialog, boxVars, sent, crossed>>

\* The phone is not valid, or somebody has it, a driver of the list or a user elsewhere: the
\* check says so, or the unique key at the write.
Refuse(s) ==
  /\ s.at \in {"sent", "checked"}
  /\ Becomes(s, [s EXCEPT !.at = "failed"])
  /\ UNCHANGED <<serverVars, accounts, switches, stale>>

\* IF EXISTS (... Phone = @Phone): nobody has it yet.
CheckPhone(s) ==
  /\ s.at = "sent"
  /\ ValidPhone(s.phone)
  /\ Free(s.phone, s.editing)
  /\ saves' = (saves \ {s}) \cup {[s EXCEPT !.at = "checked"]}
  /\ UNCHANGED <<serverVars, accounts, switches, stale>>

NextId(d) == accounts[d] = NoAccount /\ \A e \in 1..(d - 1) : accounts[e] # NoAccount

\* Mutant: the phone is no unique key.
InsertUnchecked(s, d) ==
  /\ s.at = "checked"
  /\ s.editing = 0
  /\ NextId(d)
  /\ accounts' = [accounts EXCEPT ![d] = [phone |-> s.phone, active |-> TRUE]]
  /\ Becomes(s, [s EXCEPT !.at = "done", !.id = d])
  /\ Unheard(s, d)
  /\ UNCHANGED <<serverVars, switches>>

\* INSERT dbo.AppUser; the phone is a unique key.
InsertDriver(s, d) ==
  /\ s.at = "checked"
  /\ s.editing = 0
  /\ NextId(d)
  /\ Free(s.phone, d)
  /\ accounts' = [accounts EXCEPT ![d] = [phone |-> s.phone, active |-> TRUE]]
  /\ Becomes(s, [s EXCEPT !.at = "done", !.id = d])
  /\ Unheard(s, d)
  /\ UNCHANGED <<serverVars, switches>>

UpdateDriver(s) ==
  /\ s.at = "checked"
  /\ s.editing # 0
  /\ Free(s.phone, s.editing)
  /\ accounts' = [accounts EXCEPT ![s.editing].phone = s.phone]
  /\ Becomes(s, [s EXCEPT !.at = "done", !.id = s.editing])
  /\ Unheard(s, s.editing)
  /\ UNCHANGED <<serverVars, switches>>

SetDriverActive(w) ==
  /\ w.at = "sent"
  /\ accounts' = [accounts EXCEPT ![w.driver].active = w.to]
  /\ switches' = (switches \ {w}) \cup (IF w.heard THEN {[w EXCEPT !.at = "done"]} ELSE {})
  /\ Unheard(w, w.driver)
  /\ UNCHANGED <<serverVars, saves>>

\* The write of a call by another admin of the company, or by another page of this one.
OtherAdmin(d) ==
  /\ \/ \E phone \in OtherPhones :
          /\ NextId(d)
          /\ Free(phone, d)
          /\ accounts' = [accounts EXCEPT ![d] = [phone |-> phone, active |-> TRUE]]
     \/ \E phone \in OtherPhones :
          /\ accounts[d] # NoAccount
          /\ Free(phone, d)
          /\ accounts' = [accounts EXCEPT ![d].phone = phone]
     \/ \E active \in BOOLEAN :
          /\ accounts[d] # NoAccount
          /\ accounts' = [accounts EXCEPT ![d].active = active]
  /\ stale' = stale \cup {d}
  /\ UNCHANGED <<serverVars, saves, switches>>

-----------------------------------------------------------------------------
(* The answers.                                                             *)

Left(calls) ==
  {[c EXCEPT !.heard = FALSE] : c \in {o \in calls : o.at \in {"sent", "checked"}}}

\* The page is rendered anew, with or without the drivers that are switched off, and hears
\* nobody; what is not executed may be executed later.
Reload(others, otherSwitches, show) ==
  /\ rows' = Listing(show)
  /\ showInactive' = show
  /\ dialog' = ClosedDialog
  /\ cc' = DefaultDialCode
  /\ nat' = <<>>
  /\ saves' = Left(others)
  /\ switches' = Left(otherSwitches)
  /\ stale' = {}
  /\ UNCHANGED <<accounts, sent, crossed>>

\* A visit; the link above the list changes what it shows.
Visit == \E show \in BOOLEAN : Reload(saves, switches, show)

\* location.reload()
EditDone(s) ==
  /\ s.heard
  /\ s.at = "done"
  /\ s.editing # 0
  /\ Reload(saves \ {s}, switches, showInactive)

SwitchDone(w) ==
  /\ w.heard
  /\ w.at = "done"
  /\ Reload(saves, switches \ {w}, showInactive)

\* Mutant: the row of the new driver is not added.
CreateDoneWithoutRow(s) ==
  /\ s.heard
  /\ s.at = "done"
  /\ s.editing = 0
  /\ dialog' = [dialog EXCEPT !.shown = s.id]
  /\ saves' = saves \ {s}
  /\ UNCHANGED <<listVars, boxVars, switches, sent, crossed, stale>>

\* The temporary password takes the place of the form, and the row is added.
CreateDone(s) ==
  /\ s.heard
  /\ s.at = "done"
  /\ s.editing = 0
  /\ dialog' = [dialog EXCEPT !.shown = s.id]
  /\ rows' = [rows EXCEPT ![s.id] = [phone |-> s.phone, active |-> TRUE]]
  /\ saves' = saves \ {s}
  /\ UNCHANGED <<accounts, showInactive, boxVars, switches, sent, crossed, stale>>

\* Mutant: the button is not given back.
SaveFailedSilently(s) ==
  /\ s.heard
  /\ s.at = "failed"
  /\ saves' = saves \ {s}
  /\ UNCHANGED <<listVars, dialog, boxVars, switches, sent, crossed, stale>>

SaveFailed(s) ==
  /\ s.heard
  /\ s.at = "failed"
  /\ dialog' = [dialog EXCEPT !.disabled = FALSE]
  /\ saves' = saves \ {s}
  /\ UNCHANGED <<listVars, boxVars, switches, sent, crossed, stale>>

\* An alert, and nothing else.
SwitchFailed(w) ==
  /\ w.heard
  /\ w.at = "failed"
  /\ switches' = switches \ {w}
  /\ UNCHANGED <<listVars, dialog, boxVars, saves, sent, crossed, stale>>

\* No answer reaches the page; what was not executed may be executed later.
LoseSave(s) ==
  /\ s.heard
  /\ s.at # "failed"
  /\ \E rest \in {{}, {[s EXCEPT !.heard = FALSE]}} :
       /\ rest # {} => s.at # "done"
       /\ saves' = (saves \ {s}) \cup {[s EXCEPT !.at = "failed"]} \cup rest
  /\ stale' = stale \cup (IF s.at = "done" THEN {s.id} ELSE {})
  /\ UNCHANGED <<listVars, dialog, boxVars, switches, sent, crossed>>

LoseSwitch(w) ==
  /\ w.heard
  /\ w.at # "failed"
  /\ \E rest \in {{}, {[w EXCEPT !.heard = FALSE]}} :
       /\ rest # {} => w.at # "done"
       /\ switches' = (switches \ {w}) \cup {[w EXCEPT !.at = "failed"]} \cup rest
  /\ stale' = stale \cup (IF w.at = "done" THEN {w.driver} ELSE {})
  /\ UNCHANGED <<listVars, dialog, boxVars, saves, sent, crossed>>

-----------------------------------------------------------------------------
SaveSteps(s) ==
  \/ CheckPhone(s) \/ Refuse(s) \/ UpdateDriver(s) \/ \E d \in Drivers : InsertDriver(s, d)
  \/ EditDone(s) \/ CreateDone(s) \/ SaveFailed(s) \/ LoseSave(s)

SwitchSteps(w) == SetDriverActive(w) \/ SwitchDone(w) \/ SwitchFailed(w) \/ LoseSwitch(w)

DriversNext ==
  \/ \E d \in 0..MaxDrivers : OpenModal(d)
  \/ CloseModal
  \/ TypePhone
  \/ Save
  \/ Visit
  \/ \E d \in Drivers : SetActive(d) \/ OtherAdmin(d)
  \/ \E s \in saves : SaveSteps(s)
  \/ \E w \in switches : SwitchSteps(w)

DriversSpec == DriversInit /\ [][DriversNext]_driversVars

-----------------------------------------------------------------------------
(* Properties.                                                              *)

\* The Save button of the dialog is never disabled for good: while it is disabled and
\* visible, an answer is under way that will enable it, hide it or reload the page, whatever
\* the dialog was closed and opened for meanwhile (openModal, the callbacks of d-save).
SaveNeverStuck ==
  dialog.disabled /\ dialog.shown = 0 => Heard # {}

\* Unless the dialog was opened again during a save, one save at most is under way: a double
\* click cannot send a form twice.
OneSaveAtATime == ~crossed => Cardinality(Heard) <= 1

\* A driver is listed as the server would list it now, with what it is known by and whether
\* it is switched on, or an answer that repairs the row is on its way, or the driver changed
\* behind this page: by another admin, or by a call whose answer was lost.  No order of
\* saves, switches, reloads and late answers leaves another row behind.
ListShowsStored ==
  \A d \in Drivers \ stale : rows[d] # Listing(showInactive)[d] =>
    \/ \E s \in Heard : s.at = "done" /\ s.id = d
    \/ \E w \in switches : w.heard /\ w.at = "done" /\ w.driver = d

\* No two drivers have one phone, however many saves passed the check before any of them
\* wrote (001_schema.sql:40 decides).
PhonesStayUnique ==
  \A d, e \in Drivers : d # e /\ accounts[d] # NoAccount => accounts[d].phone # accounts[e].phone

\* Opening a driver and saving without touching the phone keeps the phone, for a number of
\* a country the script knows: splitPhone, formatNational and phoneValue lose no digit.
UntouchedPhoneKept ==
  \A s \in saves :
    s.editing # 0 /\ ~s.touched /\ KnownNumber(s.from) => s.phone = s.from
=============================================================================
