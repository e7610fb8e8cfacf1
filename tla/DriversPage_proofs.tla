-------------------------- MODULE DriversPage_proofs --------------------------
(***************************************************************************)
(* The drivers page, for any number of drivers and of calls, whatever the  *)
(* dialog is closed and opened for while answers are missing, and whatever *)
(* other admins do.                                                        *)
(***************************************************************************)
EXTENDS DriversPage, PanelScripts_proofs

-----------------------------------------------------------------------------
(* What the steps do to the calls.                                          *)

SameForm(s, t) ==
  t.editing = s.editing /\ t.phone = s.phone /\ t.from = s.from /\ t.touched = s.touched

LEMMA SaveFields ==
  ASSUME NEW s \in Saves
  PROVE  /\ s.editing \in 0..MaxDrivers /\ s.phone \in Seq(Digit) /\ s.from \in Seq(Digit)
         /\ s.heard \in BOOLEAN /\ s.touched \in BOOLEAN /\ s.id \in 0..MaxDrivers
         /\ s.at \in {"sent", "checked", "done", "failed"}
BY DEF Saves

LEMMA SwitchFields ==
  ASSUME NEW w \in Switches
  PROVE  /\ w.driver \in Drivers /\ w.to \in BOOLEAN /\ w.heard \in BOOLEAN
         /\ w.at \in {"sent", "done", "failed"}
BY DEF Switches

LEMMA AccountFields ==
  ASSUME NEW a \in Accounts
  PROVE  a.phone \in Seq(Digit) /\ a.active \in BOOLEAN
BY DEF Accounts

LEMMA DriverNumbers ==
  /\ \A d \in 0..MaxDrivers : d # 0 => d \in Drivers
  /\ \A d \in Drivers : d \in 0..MaxDrivers /\ d # 0
BY DriversAssumption DEF Drivers

LEMMA NoAccountType == NoAccount \in Accounts /\ NoAccount.phone = <<>> /\ ~NoAccount.active
<1>1. <<>> \in Seq(Digit)
  BY DefaultCodeType
<1> QED
  BY <1>1 DEF NoAccount, Accounts

\* A save that is checked, answered, lost or left behind is about the same form as before.
LEMMA CheckedCopy ==
  ASSUME NEW s \in Saves, NEW t, t = [s EXCEPT !.at = "checked"]
  PROVE  t \in Saves /\ SameForm(s, t) /\ t.at = "checked" /\ t.heard = s.heard
BY DEF Saves, SameForm

LEMMA FailedCopy ==
  ASSUME NEW s \in Saves, NEW t, t = [s EXCEPT !.at = "failed"]
  PROVE  t \in Saves /\ SameForm(s, t) /\ t.at = "failed" /\ t.heard = s.heard
BY DEF Saves, SameForm

LEMMA UnheardCopy ==
  ASSUME NEW s \in Saves, NEW t, t = [s EXCEPT !.heard = FALSE]
  PROVE  t \in Saves /\ SameForm(s, t) /\ t.at = s.at /\ t.id = s.id /\ ~t.heard
BY DEF Saves, SameForm

LEMMA DoneCopy ==
  ASSUME NEW s \in Saves, NEW d \in 0..MaxDrivers, NEW t, t = [s EXCEPT !.at = "done", !.id = d]
  PROVE  t \in Saves /\ SameForm(s, t) /\ t.at = "done" /\ t.id = d /\ t.heard = s.heard
BY DEF Saves, SameForm

LEMMA SwitchCopies ==
  ASSUME NEW w \in Switches
  PROVE  /\ \A at \in {"done", "failed"} :
              LET t == [w EXCEPT !.at = at]
              IN  t \in Switches /\ t.driver = w.driver /\ t.at = at /\ t.heard = w.heard
         /\ LET t == [w EXCEPT !.heard = FALSE]
            IN  t \in Switches /\ t.driver = w.driver /\ ~t.heard
BY DEF Switches

\* Somebody's account is written: with a phone, the one it had or one that was free.
Writes(d, a) ==
  /\ accounts' = [accounts EXCEPT ![d] = a]
  /\ a \in Accounts
  /\ a.phone = accounts[d].phone \/ Free(a.phone, d)

ServerSteps(s) ==
  CheckPhone(s) \/ Refuse(s) \/ UpdateDriver(s) \/ \E d \in Drivers : InsertDriver(s, d)

\* What the server does with a save: it checks it, refuses it, or stores its phone.
Stored(s, t) ==
  /\ t.at = "done" /\ t.id \in Drivers
  /\ \E a : Writes(t.id, a) /\ a.phone = s.phone /\ (s.editing = 0 => a.active)
  /\ Unheard(s, t.id)
  /\ IF s.editing = 0 THEN accounts[t.id] = NoAccount ELSE t.id = s.editing

LEMMA UpdateStores ==
  ASSUME DriversTypeOK, NEW s \in saves, UpdateDriver(s)
  PROVE  \E t \in Saves : /\ SameForm(s, t) /\ t.heard = s.heard /\ Stored(s, t)
                          /\ saves' = (saves \ {s}) \cup (IF s.heard THEN {t} ELSE {})
<1>1. s \in Saves /\ accounts \in [Drivers -> Accounts]
  BY DEF DriversTypeOK
<1>2. s.editing \in 0..MaxDrivers /\ s.editing # 0 /\ s.phone \in Seq(Digit)
  BY <1>1, SaveFields DEF UpdateDriver
<1>3. s.editing \in Drivers
  BY <1>2, DriverNumbers, Zenon
<1> DEFINE t == [s EXCEPT !.at = "done", !.id = s.editing]
           a == [accounts[s.editing] EXCEPT !.phone = s.phone]
<1>4. t \in Saves /\ SameForm(s, t) /\ t.at = "done" /\ t.id = s.editing /\ t.heard = s.heard
  BY <1>1, <1>2, DoneCopy
<1>5. a \in Accounts /\ a.phone = s.phone
  BY <1>1, <1>2, <1>3 DEF Accounts
<1>6. accounts' = [accounts EXCEPT ![s.editing] = a]
  BY <1>1, <1>3 DEF UpdateDriver
<1>7. /\ saves' = (saves \ {s}) \cup (IF s.heard THEN {t} ELSE {})
      /\ Unheard(s, s.editing) /\ Free(s.phone, s.editing)
  BY DEF UpdateDriver, Becomes
<1> HIDE DEF t, a
<1>8. Writes(s.editing, a)
  BY <1>5, <1>6, <1>7 DEF Writes
<1> QED
  BY <1>2, <1>3, <1>4, <1>5, <1>7, <1>8 DEF Stored

LEMMA InsertStores ==
  ASSUME DriversTypeOK, NEW s \in saves, NEW d \in Drivers, InsertDriver(s, d)
  PROVE  \E t \in Saves : /\ SameForm(s, t) /\ t.heard = s.heard /\ Stored(s, t)
                          /\ saves' = (saves \ {s}) \cup (IF s.heard THEN {t} ELSE {})
<1>1. s \in Saves /\ s.phone \in Seq(Digit) /\ d \in 0..MaxDrivers
  BY SaveFields, DriverNumbers DEF DriversTypeOK
<1> DEFINE t == [s EXCEPT !.at = "done", !.id = d]
           a == [phone |-> s.phone, active |-> TRUE]
<1>2. t \in Saves /\ SameForm(s, t) /\ t.at = "done" /\ t.id = d /\ t.heard = s.heard
  BY <1>1 DEF Saves, SameForm
<1>3. a \in Accounts /\ a.phone = s.phone /\ a.active
  BY <1>1 DEF Accounts
<1>4. /\ accounts' = [accounts EXCEPT ![d] = a]
      /\ saves' = (saves \ {s}) \cup (IF s.heard THEN {t} ELSE {})
      /\ Unheard(s, d) /\ Free(s.phone, d) /\ s.editing = 0 /\ accounts[d] = NoAccount
  BY DEF InsertDriver, Becomes, NextId
<1> HIDE DEF t, a
<1>5. Writes(d, a)
  BY <1>3, <1>4 DEF Writes
<1> QED
  BY <1>2, <1>3, <1>4, <1>5 DEF Stored

LEMMA ServerAnswers ==
  ASSUME DriversTypeOK, NEW s \in saves, ServerSteps(s)
  PROVE  /\ UNCHANGED <<serverVars, switches>> /\ s.at \in {"sent", "checked"}
         /\ \E t \in Saves :
              /\ SameForm(s, t) /\ t.heard = s.heard
              /\ saves' \subseteq (saves \ {s}) \cup {t}
              /\ saves \ {s} \subseteq saves'
              /\ s.heard => t \in saves'
              /\ \/ t.at \in {"checked", "failed"} /\ UNCHANGED <<accounts, stale>>
                 \/ Stored(s, t)
<1>1. s \in Saves
  BY DEF DriversTypeOK
<1>2. UNCHANGED <<serverVars, switches>> /\ s.at \in {"sent", "checked"}
  BY DEF ServerSteps, CheckPhone, Refuse, UpdateDriver, InsertDriver
<1>3. CASE CheckPhone(s)
  <2> DEFINE t == [s EXCEPT !.at = "checked"]
  <2>1. t \in Saves /\ SameForm(s, t) /\ t.at = "checked" /\ t.heard = s.heard
    BY <1>1, CheckedCopy
  <2>2. saves' = (saves \ {s}) \cup {t} /\ UNCHANGED <<accounts, stale>>
    BY <1>3 DEF CheckPhone
  <2> HIDE DEF t
  <2> QED
    BY <1>2, <2>1, <2>2
<1>4. CASE Refuse(s)
  <2> DEFINE t == [s EXCEPT !.at = "failed"]
  <2>1. t \in Saves /\ SameForm(s, t) /\ t.at = "failed" /\ t.heard = s.heard
    BY <1>1, FailedCopy
  <2>2. /\ saves' = (saves \ {s}) \cup (IF s.heard THEN {t} ELSE {})
        /\ UNCHANGED <<accounts, stale>>
    BY <1>4 DEF Refuse, Becomes
  <2> HIDE DEF t
  <2> QED
    BY <1>2, <2>1, <2>2
<1>5. CASE UpdateDriver(s) \/ \E d \in Drivers : InsertDriver(s, d)
  <2>1. PICK t \in Saves : /\ SameForm(s, t) /\ t.heard = s.heard /\ Stored(s, t)
                           /\ saves' = (saves \ {s}) \cup (IF s.heard THEN {t} ELSE {})
    BY <1>5, UpdateStores, InsertStores
  <2> QED
    BY <1>2, <2>1
<1> QED
  BY <1>3, <1>4, <1>5 DEF ServerSteps

\* A driver is switched on or off.
LEMMA ServerSwitches ==
  ASSUME DriversTypeOK, NEW w \in switches, SetDriverActive(w)
  PROVE  /\ UNCHANGED <<serverVars, saves>> /\ w.at = "sent" /\ Unheard(w, w.driver)
         /\ \E a : Writes(w.driver, a) /\ a.phone = accounts[w.driver].phone
         /\ \E t \in Switches :
              /\ t.driver = w.driver /\ t.at = "done" /\ t.heard = w.heard
              /\ switches' = (switches \ {w}) \cup (IF w.heard THEN {t} ELSE {})
<1>1. /\ w \in Switches /\ w.driver \in Drivers /\ w.to \in BOOLEAN
      /\ accounts \in [Drivers -> Accounts]
  BY SwitchFields DEF DriversTypeOK
<1>2. /\ UNCHANGED <<serverVars, saves>> /\ w.at = "sent" /\ Unheard(w, w.driver)
      /\ accounts' = [accounts EXCEPT ![w.driver] = [@ EXCEPT !.active = w.to]]
      /\ switches' = (switches \ {w}) \cup (IF w.heard THEN {[w EXCEPT !.at = "done"]} ELSE {})
  BY DEF SetDriverActive
<1> DEFINE a == [accounts[w.driver] EXCEPT !.active = w.to]
<1>3. a \in Accounts /\ a.phone = accounts[w.driver].phone
  BY <1>1 DEF Accounts
<1>4. accounts' = [accounts EXCEPT ![w.driver] = a]
  BY <1>1, <1>2
<1> HIDE DEF a
<1>5. Writes(w.driver, a)
  BY <1>3, <1>4 DEF Writes
<1>6. LET t == [w EXCEPT !.at = "done"]
      IN  t \in Switches /\ t.driver = w.driver /\ t.at = "done" /\ t.heard = w.heard
  BY <1>1, SwitchCopies
<1> QED
  BY <1>2, <1>3, <1>5, <1>6

\* Another admin writes an account that this page does not hear of.
LEMMA OtherWrites ==
  ASSUME DriversTypeOK, NEW d \in Drivers, OtherAdmin(d)
  PROVE  /\ UNCHANGED <<serverVars, saves, switches>> /\ stale' = stale \cup {d}
         /\ \E a : /\ Writes(d, a)
                   /\ a.phone # <<>> \/ (a.phone = accounts[d].phone /\ accounts[d] # NoAccount)
<1>1. accounts \in [Drivers -> Accounts] /\ accounts[d] \in Accounts
  BY DEF DriversTypeOK
<1>2. UNCHANGED <<serverVars, saves, switches>> /\ stale' = stale \cup {d}
  BY DEF OtherAdmin
<1>3. ASSUME NEW phone \in OtherPhones, Free(phone, d),
             accounts' = [accounts EXCEPT ![d] = [phone |-> phone, active |-> TRUE]]
      PROVE  \E a : Writes(d, a) /\ a.phone # <<>>
  <2> DEFINE a == [phone |-> phone, active |-> TRUE]
  <2>1. a \in Accounts /\ a.phone = phone /\ phone # <<>>
    BY DriversAssumption DEF Accounts
  <2> HIDE DEF a
  <2>2. Writes(d, a)
    BY <1>3, <2>1 DEF Writes, a
  <2> QED
    BY <2>1, <2>2
<1>4. ASSUME NEW phone \in OtherPhones, Free(phone, d),
             accounts' = [accounts EXCEPT ![d].phone = phone]
      PROVE  \E a : Writes(d, a) /\ a.phone # <<>>
  <2> DEFINE a == [accounts[d] EXCEPT !.phone = phone]
  <2>1. a \in Accounts /\ a.phone = phone /\ phone # <<>>
    BY <1>1, DriversAssumption DEF Accounts
  <2>2. accounts' = [accounts EXCEPT ![d] = a]
    BY <1>1, <1>4
  <2> HIDE DEF a
  <2>3. Writes(d, a)
    BY <1>4, <2>1, <2>2 DEF Writes
  <2> QED
    BY <2>1, <2>3
<1>5. ASSUME NEW active \in BOOLEAN, accounts' = [accounts EXCEPT ![d].active = active]
      PROVE  \E a : Writes(d, a) /\ a.phone = accounts[d].phone
  <2> DEFINE a == [accounts[d] EXCEPT !.active = active]
  <2>1. a \in Accounts /\ a.phone = accounts[d].phone
    BY <1>1 DEF Accounts
  <2>2. accounts' = [accounts EXCEPT ![d] = a]
    BY <1>1, <1>5
  <2> HIDE DEF a
  <2>3. Writes(d, a)
    BY <2>1, <2>2 DEF Writes
  <2> QED
    BY <2>1, <2>3
<1>6. \/ \E a : Writes(d, a) /\ a.phone # <<>>
      \/ accounts[d] # NoAccount /\ \E a : Writes(d, a) /\ a.phone = accounts[d].phone
  BY <1>3, <1>4, <1>5 DEF OtherAdmin
<1> QED
  BY <1>2, <1>6

\* A call is lost: it fails for the page, and may still be executed.
LEMMA LostSave ==
  ASSUME DriversTypeOK, NEW s \in saves, LoseSave(s)
  PROVE  /\ UNCHANGED <<listVars, dialog, boxVars, switches, sent, crossed>>
         /\ s.heard /\ s.at # "failed"
         /\ stale' = stale \cup (IF s.at = "done" THEN {s.id} ELSE {})
         /\ \E t \in Saves, u \in Saves :
              /\ SameForm(s, t) /\ t.at = "failed" /\ t.heard
              /\ SameForm(s, u) /\ u.at = s.at /\ u.id = s.id /\ ~u.heard
              /\ saves' \in {(saves \ {s}) \cup {t}, (saves \ {s}) \cup {t, u}}
<1>1. s \in Saves
  BY DEF DriversTypeOK
<1> DEFINE t == [s EXCEPT !.at = "failed"]
           u == [s EXCEPT !.heard = FALSE]
<1>2. t \in Saves /\ SameForm(s, t) /\ t.at = "failed" /\ t.heard = s.heard
  BY <1>1, FailedCopy
<1>3. u \in Saves /\ SameForm(s, u) /\ u.at = s.at /\ u.id = s.id /\ ~u.heard
  BY <1>1, UnheardCopy
<1>4. saves' \in {(saves \ {s}) \cup {t} \cup {}, (saves \ {s}) \cup {t} \cup {u}}
  BY DEF LoseSave
<1> HIDE DEF t, u
<1>5. saves' \in {(saves \ {s}) \cup {t}, (saves \ {s}) \cup {t, u}}
  BY <1>4
<1>6. /\ UNCHANGED <<listVars, dialog, boxVars, switches, sent, crossed>>
      /\ s.heard /\ s.at # "failed"
      /\ stale' = stale \cup (IF s.at = "done" THEN {s.id} ELSE {})
  BY DEF LoseSave
<1> QED
  BY <1>2, <1>3, <1>5, <1>6

LEMMA LostSwitch ==
  ASSUME DriversTypeOK, NEW w \in switches, LoseSwitch(w)
  PROVE  /\ UNCHANGED <<listVars, dialog, boxVars, saves, sent, crossed>> /\ w.heard
         /\ stale' = stale \cup (IF w.at = "done" THEN {w.driver} ELSE {})
         /\ \E t \in Switches, u \in Switches :
              /\ t.driver = w.driver /\ t.at = "failed" /\ t.heard
              /\ u.driver = w.driver /\ ~u.heard
              /\ saves' = saves
              /\ switches' \in {(switches \ {w}) \cup {t}, (switches \ {w}) \cup {t, u}}
<1>1. w \in Switches
  BY DEF DriversTypeOK
<1> DEFINE t == [w EXCEPT !.at = "failed"]
           u == [w EXCEPT !.heard = FALSE]
<1>2. /\ t \in Switches /\ t.driver = w.driver /\ t.at = "failed" /\ t.heard = w.heard
      /\ u \in Switches /\ u.driver = w.driver /\ ~u.heard
  BY <1>1, SwitchCopies
<1>3. switches' \in {(switches \ {w}) \cup {t} \cup {}, (switches \ {w}) \cup {t} \cup {u}}
  BY DEF LoseSwitch
<1> HIDE DEF t, u
<1>4. switches' \in {(switches \ {w}) \cup {t}, (switches \ {w}) \cup {t, u}}
  BY <1>3
<1>5. /\ UNCHANGED <<listVars, dialog, boxVars, saves, sent, crossed>> /\ w.heard
      /\ stale' = stale \cup (IF w.at = "done" THEN {w.driver} ELSE {})
  BY DEF LoseSwitch
<1> QED
  BY <1>2, <1>4, <1>5

\* The page is rendered anew.
LEMMA Reloaded ==
  ASSUME DriversTypeOK, NEW others \in SUBSET saves, NEW left \in SUBSET switches, NEW show,
         Reload(others, left, show)
  PROVE  /\ rows' = Listing(show) /\ showInactive' = show /\ dialog' = ClosedDialog
         /\ cc' = DefaultDialCode /\ nat' = <<>> /\ stale' = {}
         /\ UNCHANGED <<accounts, sent, crossed>>
         /\ \A t \in saves' : /\ t \in Saves /\ ~t.heard /\ t.at \in {"sent", "checked"}
                              /\ \E s \in others : SameForm(s, t)
         /\ \A t \in switches' : /\ t \in Switches /\ ~t.heard
                                 /\ \E w \in left : t.driver = w.driver
<1>1. /\ rows' = Listing(show) /\ showInactive' = show /\ dialog' = ClosedDialog
      /\ cc' = DefaultDialCode /\ nat' = <<>> /\ stale' = {}
      /\ UNCHANGED <<accounts, sent, crossed>>
      /\ saves' = Left(others) /\ switches' = Left(left)
  BY DEF Reload
<1>2. ASSUME NEW t \in saves'
      PROVE  /\ t \in Saves /\ ~t.heard /\ t.at \in {"sent", "checked"}
             /\ \E s \in others : SameForm(s, t)
  <2>1. PICK s \in others : s.at \in {"sent", "checked"} /\ t = [s EXCEPT !.heard = FALSE]
    BY <1>1, <1>2 DEF Left
  <2>2. s \in Saves
    BY DEF DriversTypeOK
  <2> QED
    BY <2>1, <2>2, UnheardCopy
<1>3. ASSUME NEW t \in switches'
      PROVE  t \in Switches /\ ~t.heard /\ \E w \in left : t.driver = w.driver
  <2>1. PICK w \in left : t = [w EXCEPT !.heard = FALSE]
    BY <1>1, <1>3 DEF Left
  <2>2. w \in Switches
    BY DEF DriversTypeOK
  <2> QED
    BY <2>1, <2>2, SwitchCopies
<1> QED
  BY <1>1, <1>2, <1>3

\* The click on Save, for the form in the dialog.
LEMMA SaveIsSent ==
  ASSUME DriversTypeOK, Save
  PROVE  /\ UNCHANGED <<listVars, boxVars, switches, crossed, stale>>
         /\ dialog.open /\ dialog.shown = 0 /\ ~dialog.disabled
         /\ dialog' = [dialog EXCEPT !.disabled = TRUE]
         /\ sent' \in 0..MaxSaves
         /\ \E t \in Saves :
              /\ saves' = saves \cup {t} /\ t.heard /\ t.at = "sent"
              /\ t.editing = dialog.editing /\ t.phone = PhoneValue(cc, nat) /\ t.phone # <<>>
              /\ t.from = dialog.from /\ t.touched = dialog.touched
<1>1. /\ UNCHANGED <<listVars, boxVars, switches, crossed, stale>>
      /\ dialog.open /\ dialog.shown = 0 /\ ~dialog.disabled
      /\ dialog' = [dialog EXCEPT !.disabled = TRUE]
      /\ PhoneValue(cc, nat) # <<>>
      /\ sent < MaxSaves /\ sent' = sent + 1 /\ saves' = saves \cup {NewSave}
  BY DEF Save, SaveSends
<1>2. sent + 1 \in 1..MaxSaves
  BY <1>1, DriversAssumption DEF DriversTypeOK
<1>3. /\ dialog.editing \in 0..MaxDrivers /\ dialog.from \in Seq(Digit)
      /\ dialog.touched \in BOOLEAN
  BY DEF DriversTypeOK, Dialogs
<1>4. PhoneValue(cc, nat) \in Seq(Digit)
  BY PhoneValueType DEF DriversTypeOK, PhoneTypeOK
<1>5. 0 \in 0..MaxDrivers
  BY DriversAssumption
<1>6. NewSave \in Saves
  BY <1>2, <1>3, <1>4, <1>5 DEF NewSave, Saves
<1>7. /\ NewSave.heard /\ NewSave.at = "sent" /\ NewSave.editing = dialog.editing
      /\ NewSave.phone = PhoneValue(cc, nat)
      /\ NewSave.from = dialog.from /\ NewSave.touched = dialog.touched
  BY DEF NewSave
<1> QED
  BY <1>1, <1>2, <1>6, <1>7

\* The click on a switch, of a driver in the list.
LEMMA SwitchIsSent ==
  ASSUME DriversTypeOK, NEW d \in Drivers, SetActive(d)
  PROVE  /\ UNCHANGED <<listVars, dialog, boxVars, saves, crossed, stale>>
         /\ rows[d] # NoAccount /\ sent' \in 0..MaxSaves
         /\ \E t \in Switches : switches' = switches \cup {t} /\ t.driver = d /\ t.at = "sent"
<1> DEFINE t == [no |-> sent + 1, driver |-> d, to |-> ~rows[d].active,
                 heard |-> TRUE, at |-> "sent"]
<1>1. /\ UNCHANGED <<listVars, dialog, boxVars, saves, crossed, stale>>
      /\ rows[d] # NoAccount /\ sent < MaxSaves /\ sent' = sent + 1
      /\ switches' = switches \cup {t}
  BY DEF SetActive
<1>2. sent + 1 \in 1..MaxSaves
  BY <1>1, DriversAssumption DEF DriversTypeOK
<1>3. t \in Switches /\ t.driver = d /\ t.at = "sent"
  BY <1>2 DEF Switches
<1> HIDE DEF t
<1> QED
  BY <1>1, <1>2, <1>3

\* Opening the dialog puts a phone of the list into the box, or none.
LEMMA OpenSets ==
  ASSUME DriversTypeOK, NEW d \in 0..MaxDrivers, OpenModal(d)
  PROVE  /\ UNCHANGED <<listVars, callVars, stale>>
         /\ crossed' = (crossed \/ Heard # {})
         /\ d # 0 => rows[d] # NoAccount
         /\ dialog' \in Dialogs /\ dialog'.editing = d /\ ~dialog'.disabled /\ ~dialog'.touched
         /\ dialog'.from \in Seq(Digit)
         /\ cc' = CodeFor(dialog'.from) /\ nat' = NationalFor(dialog'.from)
<1> DEFINE phone == IF d = 0 THEN <<>> ELSE rows[d].phone
<1>1. phone \in Seq(Digit)
  <2>1. CASE d = 0
    BY <2>1, DefaultCodeType
  <2>2. CASE d # 0
    <3>1. d \in Drivers
      BY <2>2, DriverNumbers
    <3>2. rows[d] \in Accounts
      BY <3>1 DEF DriversTypeOK
    <3> QED
      BY <2>2, <3>2, AccountFields
  <2> QED
    BY <2>1, <2>2
<1>2. /\ UNCHANGED <<listVars, callVars, stale>>
      /\ crossed' = (crossed \/ Heard # {})
      /\ d # 0 => rows[d].active
      /\ dialog' = [ClosedDialog EXCEPT !.open = TRUE, !.editing = d, !.from = phone]
      /\ cc' = CodeFor(phone) /\ nat' = NationalFor(phone)
  BY DEF OpenModal, SetPhone
<1> HIDE DEF phone
<1>3. dialog' = [open |-> TRUE, editing |-> d, disabled |-> FALSE, shown |-> 0,
                 from |-> phone, touched |-> FALSE]
  BY <1>2 DEF ClosedDialog
<1>4. 0 \in 0..MaxDrivers
  BY DriversAssumption
<1>5. dialog' \in Dialogs
  BY <1>1, <1>3, <1>4 DEF Dialogs
<1>6. /\ dialog'.editing = d /\ ~dialog'.disabled /\ ~dialog'.touched /\ dialog'.from = phone
  BY <1>3
<1>7. dialog'.from \in Seq(Digit) /\ cc' = CodeFor(dialog'.from) /\ nat' = NationalFor(dialog'.from)
  BY <1>1, <1>2, <1>6, Zenon
<1>8. d # 0 => rows[d] # NoAccount
  BY <1>2, NoAccountType
<1> QED
  BY <1>2, <1>5, <1>6, <1>7, <1>8, Zenon

LEMMA ClosedType == ClosedDialog \in Dialogs
<1>1. 0 \in 0..MaxDrivers
  BY DriversAssumption
<1> QED
  BY <1>1, DefaultCodeType DEF ClosedDialog, Dialogs

LEMMA DialogChanges ==
  ASSUME NEW d \in Dialogs
  PROVE  /\ [d EXCEPT !.open = FALSE] \in Dialogs
         /\ [d EXCEPT !.touched = TRUE] \in Dialogs
         /\ [d EXCEPT !.disabled = TRUE] \in Dialogs
         /\ [d EXCEPT !.disabled = FALSE] \in Dialogs
         /\ \A e \in 0..MaxDrivers : [d EXCEPT !.shown = e] \in Dialogs
BY DEF Dialogs

\* The steps, by what the proofs below need of them.  Switches and other admins leave the
\* dialog and its saves alone.
Elsewhere == UNCHANGED <<saves, dialog, boxVars, crossed>>

LEMMA DriversSteps ==
  ASSUME [DriversNext]_driversVars
  PROVE  \/ \E d \in 0..MaxDrivers : OpenModal(d)
         \/ CloseModal \/ TypePhone \/ Save
         \/ \E others \in SUBSET saves, left \in SUBSET switches, show \in BOOLEAN \cup {showInactive} :
              Reload(others, left, show)
         \/ \E s \in saves : ServerSteps(s)
         \/ \E s \in saves : CreateDone(s) \/ SaveFailed(s) \/ LoseSave(s)
         \/ \E d \in Drivers : SetActive(d) \/ OtherAdmin(d)
         \/ \E w \in switches : SetDriverActive(w) \/ SwitchFailed(w) \/ LoseSwitch(w)
         \/ UNCHANGED driversVars
<1> DEFINE Reloads ==
      \E others \in SUBSET saves, left \in SUBSET switches, show \in BOOLEAN \cup {showInactive} :
        Reload(others, left, show)
<1>1. ASSUME NEW s \in saves, EditDone(s) PROVE Reloads
  BY <1>1 DEF EditDone
<1>2. ASSUME NEW w \in switches, SwitchDone(w) PROVE Reloads
  BY <1>2 DEF SwitchDone
<1>3. Visit => Reloads
  BY DEF Visit
<1> HIDE DEF Reloads
<1>4. \/ \E d \in 0..MaxDrivers : OpenModal(d)
      \/ CloseModal \/ TypePhone \/ Save
      \/ Reloads
      \/ \E s \in saves : ServerSteps(s)
      \/ \E s \in saves : CreateDone(s) \/ SaveFailed(s) \/ LoseSave(s)
      \/ \E d \in Drivers : SetActive(d) \/ OtherAdmin(d)
      \/ \E w \in switches : SetDriverActive(w) \/ SwitchFailed(w) \/ LoseSwitch(w)
      \/ UNCHANGED driversVars
  BY <1>1, <1>2, <1>3 DEF DriversNext, SaveSteps, SwitchSteps, ServerSteps
<1> QED
  BY <1>4 DEF Reloads

\* The same, of the steps that the dialog and its saves see.
LEMMA DialogSteps ==
  ASSUME DriversTypeOK, [DriversNext]_driversVars
  PROVE  \/ \E d \in 0..MaxDrivers : OpenModal(d)
         \/ CloseModal \/ TypePhone \/ Save
         \/ \E others \in SUBSET saves, left \in SUBSET switches, show \in BOOLEAN \cup {showInactive} :
              Reload(others, left, show)
         \/ \E s \in saves : ServerSteps(s)
         \/ \E s \in saves : CreateDone(s) \/ SaveFailed(s) \/ LoseSave(s)
         \/ Elsewhere
<1>1. \/ \E d \in Drivers : SetActive(d) \/ OtherAdmin(d)
      \/ \E w \in switches : SetDriverActive(w) \/ SwitchFailed(w) \/ LoseSwitch(w)
      \/ UNCHANGED driversVars
      => Elsewhere
  BY DEF SetActive, OtherAdmin, SetDriverActive, SwitchFailed, LoseSwitch, driversVars, callVars,
         serverVars, Elsewhere
<1> QED
  BY <1>1, DriversSteps

-----------------------------------------------------------------------------
(* Types.                                                                   *)

LEMMA ListingType ==
  ASSUME DriversTypeOK, NEW show
  PROVE  /\ Listing(show) \in [Drivers -> Accounts]
         /\ \A d \in Drivers : Listing(show)[d] \in {accounts[d], NoAccount}
         /\ \A d \in Drivers : accounts[d].active => Listing(show)[d] = accounts[d]
BY NoAccountType DEF Listing, DriversTypeOK

\* The accounts, whoever writes them.
LEMMA WritesType ==
  ASSUME DriversTypeOK, NEW d \in Drivers, NEW a, Writes(d, a)
  PROVE  /\ accounts' \in [Drivers -> Accounts] /\ accounts'[d] = a
         /\ \A e \in Drivers : e # d => accounts'[e] = accounts[e]
BY DEF Writes, DriversTypeOK

LEMMA UnheardType ==
  ASSUME DriversTypeOK, NEW call, NEW d \in Drivers, Unheard(call, d)
  PROVE  stale' \subseteq Drivers /\ stale \subseteq stale' /\ (~call.heard => d \in stale')
BY DEF Unheard, DriversTypeOK

LEMMA DriversTypeInit == DriversInit => DriversTypeOK
<1> SUFFICES ASSUME DriversInit PROVE DriversTypeOK
  OBVIOUS
<1>1. PhoneTypeOK
  BY EmptyBoxType DEF DriversInit, EmptyBox
<1>2. accounts \in [Drivers -> Accounts] /\ rows \in [Drivers -> Accounts]
  BY NoAccountType DEF DriversInit
<1>3. sent \in 0..MaxSaves
  BY DriversAssumption DEF DriversInit
<1> QED
  BY <1>1, <1>2, <1>3, ClosedType DEF DriversInit, DriversTypeOK

\* An answer that reports a driver reports one of the list: the one that was edited, if any.
DoneNamed ==
  \A s \in saves : s.at = "done" => s.id \in Drivers /\ (s.editing # 0 => s.id = s.editing)

LEMMA DriversTypeStep ==
  DriversTypeOK /\ DoneNamed /\ [DriversNext]_driversVars => DriversTypeOK'
<1> SUFFICES ASSUME DriversTypeOK, DoneNamed, [DriversNext]_driversVars PROVE DriversTypeOK'
  OBVIOUS
<1>t. /\ PhoneTypeOK /\ accounts \in [Drivers -> Accounts] /\ rows \in [Drivers -> Accounts]
      /\ showInactive \in BOOLEAN /\ dialog \in Dialogs
      /\ saves \subseteq Saves /\ switches \subseteq Switches /\ sent \in 0..MaxSaves
      /\ crossed \in BOOLEAN /\ stale \subseteq Drivers
  BY DEF DriversTypeOK
<1>p. UNCHANGED boxVars => PhoneTypeOK'
  BY <1>t DEF boxVars, PhoneTypeOK
<1>1. ASSUME NEW d \in 0..MaxDrivers, OpenModal(d) PROVE DriversTypeOK'
  <2>1. /\ UNCHANGED <<listVars, callVars, stale>> /\ crossed' = (crossed \/ Heard # {})
        /\ dialog' \in Dialogs
    BY <1>1, OpenSets
  <2>2. PhoneTypeOK'
    <3>1. dialog'.from \in Seq(Digit)
      BY <1>1, OpenSets
    <3>2. cc' = CodeFor(dialog'.from) /\ nat' = NationalFor(dialog'.from)
      BY <1>1, OpenSets
    <3> QED
      BY <3>1, <3>2, SetPhoneType, Zenon DEF PhoneTypeOK
  <2>3. crossed' \in BOOLEAN
    BY <2>1, Zenon
  <2> QED
    BY <1>t, <2>1, <2>2, <2>3 DEF DriversTypeOK, listVars, callVars
<1>2. CASE CloseModal
  <2>1. dialog' \in Dialogs
    BY <1>2, <1>t, DialogChanges DEF CloseModal
  <2> QED
    BY <1>2, <1>t, <1>p, <2>1 DEF CloseModal, DriversTypeOK, listVars, callVars
<1>3. CASE TypePhone
  <2>1. PhoneTypeOK'
    BY <1>3, <1>t, TypingKeepsType DEF TypePhone
  <2>2. dialog' \in Dialogs
    BY <1>3, <1>t, DialogChanges DEF TypePhone
  <2> QED
    BY <1>3, <1>t, <2>1, <2>2 DEF TypePhone, DriversTypeOK, listVars, callVars
<1>4. CASE Save
  <2>1. /\ dialog' = [dialog EXCEPT !.disabled = TRUE]
        /\ UNCHANGED <<listVars, boxVars, switches, crossed, stale>>
    BY <1>4, SaveIsSent
  <2>2. dialog' \in Dialogs
    BY <2>1, <1>t, DialogChanges
  <2>3. saves' \subseteq Saves /\ sent' \in 0..MaxSaves
    BY <1>4, <1>t, SaveIsSent
  <2> QED
    BY <1>t, <1>p, <2>1, <2>2, <2>3 DEF DriversTypeOK, listVars
<1>5. ASSUME NEW others \in SUBSET saves, NEW left \in SUBSET switches,
             NEW show \in BOOLEAN \cup {showInactive}, Reload(others, left, show)
      PROVE  DriversTypeOK'
  <2>1. /\ rows' = Listing(show) /\ showInactive' = show /\ dialog' = ClosedDialog
        /\ cc' = DefaultDialCode /\ nat' = <<>> /\ stale' = {}
        /\ UNCHANGED <<accounts, sent, crossed>>
        /\ saves' \subseteq Saves /\ switches' \subseteq Switches
    BY <1>5, Reloaded
  <2>2. PhoneTypeOK'
    <3>1. 0 <= MaxNational
      BY DEF MaxNational
    <3> QED
      BY <2>1, <3>1, DefaultCodeType, Zenon DEF PhoneTypeOK
  <2>3. rows' \in [Drivers -> Accounts] /\ showInactive' \in BOOLEAN
    BY <1>t, <2>1, ListingType
  <2> QED
    BY <1>t, <2>1, <2>2, <2>3, ClosedType DEF DriversTypeOK
<1>6. ASSUME NEW s \in saves, ServerSteps(s) PROVE DriversTypeOK'
  <2>1. UNCHANGED <<serverVars, switches>>
    BY <1>6, ServerAnswers
  <2>2. PICK t \in Saves : /\ saves' \subseteq (saves \ {s}) \cup {t}
                           /\ \/ UNCHANGED <<accounts, stale>>
                              \/ Stored(s, t)
    BY <1>6, ServerAnswers
  <2>3. accounts' \in [Drivers -> Accounts] /\ stale' \subseteq Drivers
    <3>1. CASE UNCHANGED <<accounts, stale>>
      BY <1>t, <3>1
    <3>2. CASE Stored(s, t)
      BY <3>2, WritesType, UnheardType DEF Stored
    <3> QED
      BY <2>2, <3>1, <3>2
  <2>4. saves' \subseteq Saves
    BY <1>t, <2>2
  <2> QED
    BY <1>t, <1>p, <2>1, <2>3, <2>4 DEF DriversTypeOK, serverVars
<1>7. ASSUME NEW s \in saves, CreateDone(s) PROVE DriversTypeOK'
  <2>1. s \in Saves /\ s.id \in 0..MaxDrivers /\ s.phone \in Seq(Digit)
    BY <1>t, SaveFields
  <2>2. dialog' \in Dialogs
    BY <1>7, <1>t, <2>1, DialogChanges DEF CreateDone
  <2>3. [phone |-> s.phone, active |-> TRUE] \in Accounts
    BY <2>1 DEF Accounts
  <2>4. rows' \in [Drivers -> Accounts] /\ saves' \subseteq Saves
    BY <1>7, <1>t, <2>3 DEF CreateDone
  <2> QED
    BY <1>7, <1>t, <1>p, <2>2, <2>4 DEF CreateDone, DriversTypeOK
<1>8. ASSUME NEW s \in saves, SaveFailed(s) PROVE DriversTypeOK'
  <2>1. dialog' \in Dialogs /\ saves' \subseteq Saves
    BY <1>8, <1>t, DialogChanges DEF SaveFailed
  <2> QED
    BY <1>8, <1>t, <1>p, <2>1 DEF SaveFailed, DriversTypeOK, listVars
<1>9. ASSUME NEW s \in saves, LoseSave(s) PROVE DriversTypeOK'
  <2>1. /\ UNCHANGED <<listVars, dialog, boxVars, switches, sent, crossed>>
        /\ stale' = stale \cup (IF s.at = "done" THEN {s.id} ELSE {})
    BY <1>9, LostSave
  <2>2. saves' \subseteq Saves
    BY <1>9, <1>t, LostSave
  <2>3. stale' \subseteq Drivers
    BY <1>t, <2>1 DEF DoneNamed
  <2> QED
    BY <1>t, <1>p, <2>1, <2>2, <2>3 DEF DriversTypeOK, listVars
<1>10. ASSUME NEW d \in Drivers, SetActive(d) PROVE DriversTypeOK'
  <2>1. UNCHANGED <<listVars, dialog, boxVars, saves, crossed, stale>> /\ sent' \in 0..MaxSaves
    BY <1>10, SwitchIsSent
  <2>2. switches' \subseteq Switches
    BY <1>10, <1>t, SwitchIsSent
  <2> QED
    BY <1>t, <1>p, <2>1, <2>2 DEF DriversTypeOK, listVars
<1>11. ASSUME NEW d \in Drivers, OtherAdmin(d) PROVE DriversTypeOK'
  <2>1. UNCHANGED <<serverVars, saves, switches>> /\ stale' = stale \cup {d}
    BY <1>11, OtherWrites
  <2>2. accounts' \in [Drivers -> Accounts]
    BY <1>11, OtherWrites, WritesType
  <2>3. stale' \subseteq Drivers
    BY <1>t, <2>1
  <2> QED
    BY <1>t, <1>p, <2>1, <2>2, <2>3 DEF DriversTypeOK, serverVars
<1>12. ASSUME NEW w \in switches, SetDriverActive(w) PROVE DriversTypeOK'
  <2>1. UNCHANGED <<serverVars, saves>> /\ Unheard(w, w.driver) /\ w.driver \in Drivers
    BY <1>12, <1>t, ServerSwitches, SwitchFields
  <2>2. switches' \subseteq Switches
    BY <1>12, <1>t, ServerSwitches
  <2>3. accounts' \in [Drivers -> Accounts] /\ stale' \subseteq Drivers
    BY <1>12, <2>1, ServerSwitches, WritesType, UnheardType
  <2> QED
    BY <1>t, <1>p, <2>1, <2>2, <2>3 DEF DriversTypeOK, serverVars
<1>13. ASSUME NEW w \in switches, SwitchFailed(w) PROVE DriversTypeOK'
  BY <1>13, <1>t, <1>p DEF SwitchFailed, DriversTypeOK, listVars
<1>14. ASSUME NEW w \in switches, LoseSwitch(w) PROVE DriversTypeOK'
  <2>1. /\ UNCHANGED <<listVars, dialog, boxVars, saves, sent, crossed>>
        /\ stale' = stale \cup (IF w.at = "done" THEN {w.driver} ELSE {})
        /\ w.driver \in Drivers
    BY <1>14, <1>t, LostSwitch, SwitchFields
  <2>2. switches' \subseteq Switches
    BY <1>14, <1>t, LostSwitch
  <2>3. stale' \subseteq Drivers
    BY <1>t, <2>1
  <2> QED
    BY <1>t, <1>p, <2>1, <2>2, <2>3 DEF DriversTypeOK, listVars
<1>15. CASE UNCHANGED driversVars
  BY <1>15, <1>t, <1>p DEF driversVars, DriversTypeOK, listVars, callVars
<1> QED
  BY <1>1, <1>2, <1>3, <1>4, <1>5, <1>6, <1>7, <1>8, <1>9, <1>10, <1>11, <1>12, <1>13, <1>14,
     <1>15, DriversSteps

LEMMA DoneNamedStep == DriversTypeOK /\ DoneNamed /\ [DriversNext]_driversVars => DoneNamed'
<1> SUFFICES ASSUME DriversTypeOK, DoneNamed, [DriversNext]_driversVars PROVE DoneNamed'
  OBVIOUS
<1>1. (saves' \subseteq saves) => DoneNamed'
  BY DEF DoneNamed
<1>2. CASE Save
  BY <1>2, SaveIsSent DEF DoneNamed
<1>3. ASSUME NEW others \in SUBSET saves, NEW left \in SUBSET switches, NEW show,
             Reload(others, left, show)
      PROVE  DoneNamed'
  BY <1>3, Reloaded DEF DoneNamed
<1>4. ASSUME NEW s \in saves, ServerSteps(s) PROVE DoneNamed'
  <2>1. PICK t \in Saves : /\ SameForm(s, t) /\ saves' \subseteq (saves \ {s}) \cup {t}
                           /\ t.at \in {"checked", "failed"} \/ Stored(s, t)
    BY <1>4, ServerAnswers
  <2>2. t.at = "done" => t.id \in Drivers /\ (t.editing # 0 => t.id = t.editing)
    BY <2>1 DEF Stored, SameForm
  <2> QED
    BY <2>1, <2>2 DEF DoneNamed
<1>5. ASSUME NEW s \in saves, LoseSave(s) PROVE DoneNamed'
  <2>1. PICK t \in Saves, u \in Saves :
          /\ t.at = "failed" /\ u.at = s.at /\ u.id = s.id /\ u.editing = s.editing
          /\ saves' \in {(saves \ {s}) \cup {t}, (saves \ {s}) \cup {t, u}}
    BY <1>5, LostSave DEF SameForm
  <2>2. saves' \subseteq saves \cup {t, u}
    BY <2>1
  <2> QED
    BY <2>1, <2>2 DEF DoneNamed
<1>6. \/ \E d \in 0..MaxDrivers : OpenModal(d)
      \/ CloseModal \/ TypePhone
      \/ \E s \in saves : CreateDone(s) \/ SaveFailed(s)
      \/ Elsewhere
      => saves' \subseteq saves
  BY DEF OpenModal, CloseModal, TypePhone, CreateDone, SaveFailed, Elsewhere, callVars
<1> QED
  BY <1>1, <1>2, <1>3, <1>4, <1>5, <1>6, DialogSteps

DriversIInv == DriversTypeOK /\ DoneNamed

LEMMA DriversIInvIsInductive ==
  /\ DriversInit => DriversIInv
  /\ DriversIInv /\ [DriversNext]_driversVars => DriversIInv'
<1>1. DriversInit => DoneNamed
  BY DEF DriversInit, DoneNamed
<1> QED
  BY <1>1, DriversTypeInit, DriversTypeStep, DoneNamedStep DEF DriversIInv

\* The type invariant of the drivers page, its dialog and the accounts.
THEOREM DriversTypes == DriversSpec => []DriversTypeOK
<1>1. DriversIInv => DriversTypeOK
  BY DEF DriversIInv
<1> QED
  BY <1>1, DriversIInvIsInductive, PTL DEF DriversSpec

-----------------------------------------------------------------------------
(* The Save button.                                                         *)

\* The Save button is never disabled for good: an answer that is under way gives it back.
THEOREM SaveComesBack == DriversSpec => []SaveNeverStuck
<1> DEFINE Inv == DriversIInv /\ SaveNeverStuck
<1>1. DriversInit => Inv
  BY DriversIInvIsInductive DEF DriversInit, SaveNeverStuck, ClosedDialog
<1>2. Inv /\ [DriversNext]_driversVars => Inv'
  <2> SUFFICES ASSUME DriversTypeOK, DoneNamed, SaveNeverStuck, [DriversNext]_driversVars
               PROVE  SaveNeverStuck'
    BY DriversIInvIsInductive DEF DriversIInv
  <2>1. ASSUME NEW d \in 0..MaxDrivers, OpenModal(d) PROVE SaveNeverStuck'
    BY <2>1, OpenSets DEF SaveNeverStuck
  <2>2. CASE CloseModal
    BY <2>2 DEF CloseModal, SaveNeverStuck, Heard, DriversTypeOK, Dialogs, callVars
  <2>3. CASE TypePhone
    BY <2>3 DEF TypePhone, SaveNeverStuck, Heard, DriversTypeOK, Dialogs, callVars
  <2>4. CASE Save
    BY <2>4, SaveIsSent DEF SaveNeverStuck, Heard
  <2>5. ASSUME NEW others \in SUBSET saves, NEW left \in SUBSET switches, NEW show,
               Reload(others, left, show)
        PROVE  SaveNeverStuck'
    <3>1. dialog' = ClosedDialog
      BY <2>5, Reloaded, Zenon
    <3> QED
      BY <3>1 DEF SaveNeverStuck, ClosedDialog
  <2>6. ASSUME NEW s \in saves, ServerSteps(s) PROVE SaveNeverStuck'
    <3>1. dialog' = dialog
      BY <2>6, ServerAnswers DEF serverVars
    <3>2. PICK t \in Saves : /\ t.heard = s.heard /\ saves \ {s} \subseteq saves'
                             /\ s.heard => t \in saves'
      BY <2>6, ServerAnswers
    <3>3. Heard # {} => Heard' # {}
      BY <3>2 DEF Heard
    <3> QED
      BY <3>1, <3>3 DEF SaveNeverStuck
  <2>7. ASSUME NEW s \in saves, CreateDone(s) PROVE SaveNeverStuck'
    <3>1. s.id \in Drivers /\ dialog' = [dialog EXCEPT !.shown = s.id]
      BY <2>7 DEF CreateDone, DoneNamed
    <3>2. s.id # 0
      BY <3>1, DriverNumbers, Zenon
    <3>3. dialog'.shown = s.id
      BY <3>1 DEF DriversTypeOK, Dialogs
    <3> QED
      BY <3>2, <3>3 DEF SaveNeverStuck
  <2>8. ASSUME NEW s \in saves, SaveFailed(s) PROVE SaveNeverStuck'
    BY <2>8 DEF SaveFailed, SaveNeverStuck, DriversTypeOK, Dialogs
  <2>9. ASSUME NEW s \in saves, LoseSave(s) PROVE SaveNeverStuck'
    BY <2>9, LostSave DEF SaveNeverStuck, Heard
  <2>10. CASE Elsewhere
    BY <2>10 DEF Elsewhere, SaveNeverStuck, Heard
  <2> QED
    BY <2>1, <2>2, <2>3, <2>4, <2>5, <2>6, <2>7, <2>8, <2>9, <2>10, DialogSteps
<1> QED
  BY <1>1, <1>2, PTL DEF DriversSpec

-----------------------------------------------------------------------------
(* One save at a time.                                                      *)

\* As long as the dialog is not opened again during a save, the button is disabled while
\* its answer is missing.
OneHeard ==
  ~crossed => /\ \A s, t \in Heard : s = t
              /\ Heard # {} => dialog.disabled

LEMMA OneHeardStep == DriversTypeOK /\ OneHeard /\ [DriversNext]_driversVars => OneHeard'
<1> SUFFICES ASSUME DriversTypeOK, OneHeard, [DriversNext]_driversVars PROVE OneHeard'
  OBVIOUS
<1>1. ASSUME NEW d \in 0..MaxDrivers, OpenModal(d) PROVE OneHeard'
  BY <1>1, OpenSets DEF OneHeard, Heard, callVars
<1>2. CASE CloseModal
  BY <1>2 DEF CloseModal, OneHeard, Heard, DriversTypeOK, Dialogs, callVars
<1>3. CASE TypePhone
  BY <1>3 DEF TypePhone, OneHeard, Heard, DriversTypeOK, Dialogs, callVars
<1>4. CASE Save
  <2>1. ~dialog.disabled /\ crossed' = crossed /\ dialog' = [dialog EXCEPT !.disabled = TRUE]
    BY <1>4, SaveIsSent
  <2>2. dialog'.disabled
    BY <2>1 DEF DriversTypeOK, Dialogs
  <2>3. PICK t : saves' = saves \cup {t}
    BY <1>4, SaveIsSent
  <2> QED
    BY <2>1, <2>2, <2>3 DEF OneHeard, Heard
<1>5. ASSUME NEW others \in SUBSET saves, NEW left \in SUBSET switches, NEW show,
             Reload(others, left, show)
      PROVE  OneHeard'
  BY <1>5, Reloaded DEF OneHeard, Heard
<1>6. ASSUME NEW s \in saves, ServerSteps(s) PROVE OneHeard'
  <2>1. dialog' = dialog /\ crossed' = crossed
    BY <1>6, ServerAnswers DEF serverVars
  <2>2. PICK t \in Saves : t.heard = s.heard /\ saves' \subseteq (saves \ {s}) \cup {t}
    BY <1>6, ServerAnswers
  <2> QED
    BY <2>1, <2>2 DEF OneHeard, Heard
<1>7. ASSUME NEW s \in saves, CreateDone(s) \/ SaveFailed(s) PROVE OneHeard'
  BY <1>7 DEF CreateDone, SaveFailed, OneHeard, Heard
<1>8. ASSUME NEW s \in saves, LoseSave(s) PROVE OneHeard'
  <2>1. dialog' = dialog /\ crossed' = crossed /\ s.heard
    BY <1>8, LostSave
  <2>2. PICK t \in Saves, u \in Saves :
          /\ t.heard /\ ~u.heard
          /\ saves' \in {(saves \ {s}) \cup {t}, (saves \ {s}) \cup {t, u}}
    BY <1>8, LostSave
  <2> QED
    BY <2>1, <2>2 DEF OneHeard, Heard
<1>9. CASE Elsewhere
  BY <1>9 DEF Elsewhere, OneHeard, Heard
<1> QED
  BY <1>1, <1>2, <1>3, <1>4, <1>5, <1>6, <1>7, <1>8, <1>9, DialogSteps

\* A double click cannot send a form twice.
THEOREM OneSave == DriversSpec => []OneSaveAtATime
<1>1. DriversInit => OneHeard
  BY DEF DriversInit, OneHeard, Heard
<1>2. OneHeard => OneSaveAtATime
  <2> SUFFICES ASSUME \A s, t \in Heard : s = t PROVE Cardinality(Heard) <= 1
    BY DEF OneHeard, OneSaveAtATime
  <2>1. CASE Heard = {}
    BY <2>1, FS_EmptySet
  <2>2. CASE Heard # {}
    <3>1. PICK s : Heard = {s}
      BY <2>2
    <3> QED
      BY <3>1, FS_Singleton
  <2> QED
    BY <2>1, <2>2
<1>3. DriversIInv => DriversTypeOK
  BY DEF DriversIInv
<1> QED
  BY <1>1, <1>2, <1>3, DriversIInvIsInductive, OneHeardStep, PTL DEF DriversSpec

-----------------------------------------------------------------------------
(* A phone that nobody touched.                                             *)

\* While nobody has typed, the box says the number the dialog was opened with.
BoxKept == ~dialog.touched /\ KnownNumber(dialog.from) => PhoneValue(cc, nat) = dialog.from

SaveKept(s) == ~s.touched /\ KnownNumber(s.from) => s.phone = s.from

Untouched == BoxKept /\ \A s \in saves : SaveKept(s)

\* Every save is about the form of one that was there, or of the dialog.
LEMMA SavesComeFrom ==
  ASSUME DriversTypeOK, [DriversNext]_driversVars, NEW t \in saves'
  PROVE  \/ \E s \in saves : SameForm(s, t)
         \/ /\ t.phone = PhoneValue(cc, nat) /\ t.phone # <<>>
            /\ t.from = dialog.from /\ t.touched = dialog.touched
<1>1. saves' \subseteq saves => \E s \in saves : SameForm(s, t)
  BY DEF SameForm
<1>2. CASE Save
  BY <1>2, SaveIsSent DEF SameForm
<1>3. ASSUME NEW others \in SUBSET saves, NEW left \in SUBSET switches, NEW show,
             Reload(others, left, show)
      PROVE  \E s \in saves : SameForm(s, t)
  BY <1>3, Reloaded
<1>4. ASSUME NEW s \in saves, ServerSteps(s) PROVE \E o \in saves : SameForm(o, t)
  <2>1. PICK u : SameForm(s, u) /\ saves' \subseteq (saves \ {s}) \cup {u}
    BY <1>4, ServerAnswers
  <2>2. t = u \/ t \in saves
    BY <2>1
  <2> QED
    BY <2>1, <2>2 DEF SameForm
<1>5. ASSUME NEW s \in saves, LoseSave(s) PROVE \E o \in saves : SameForm(o, t)
  <2>1. PICK v \in Saves, u \in Saves :
          /\ SameForm(s, v) /\ SameForm(s, u)
          /\ saves' \in {(saves \ {s}) \cup {v}, (saves \ {s}) \cup {v, u}}
    BY <1>5, LostSave
  <2>2. t = v \/ t = u \/ t \in saves
    BY <2>1
  <2> QED
    BY <2>1, <2>2 DEF SameForm
<1>6. \/ \E d \in 0..MaxDrivers : OpenModal(d)
      \/ CloseModal \/ TypePhone
      \/ \E s \in saves : CreateDone(s) \/ SaveFailed(s)
      \/ Elsewhere
      => saves' \subseteq saves
  BY DEF OpenModal, CloseModal, TypePhone, CreateDone, SaveFailed, Elsewhere, callVars
<1> QED
  BY <1>1, <1>2, <1>3, <1>4, <1>5, <1>6, DialogSteps

LEMMA UntouchedStep == DriversTypeOK /\ Untouched /\ [DriversNext]_driversVars => Untouched'
<1> SUFFICES ASSUME DriversTypeOK, Untouched, [DriversNext]_driversVars PROVE Untouched'
  OBVIOUS
<1>1. ASSUME NEW t \in saves' PROVE SaveKept(t)
  BY <1>1, SavesComeFrom DEF Untouched, BoxKept, SaveKept, SameForm
<1>2. BoxKept'
  <2>1. ASSUME NEW d \in 0..MaxDrivers, OpenModal(d) PROVE BoxKept'
    <3>1. dialog'.from \in Seq(Digit)
      BY <2>1, OpenSets
    <3>2. cc' = CodeFor(dialog'.from) /\ nat' = NationalFor(dialog'.from)
      BY <2>1, OpenSets
    <3>3. KnownNumber(dialog'.from) => PhoneValue(cc', nat') = dialog'.from
      BY <3>1, <3>2, KnownNumberSurvives
    <3> QED
      BY <3>3, Zenon DEF BoxKept
  <2>2. /\ dialog'.from = dialog.from /\ dialog'.touched = dialog.touched /\ UNCHANGED boxVars
        => BoxKept'
    BY DEF Untouched, BoxKept, boxVars
  <2>3. CASE CloseModal
    BY <2>2, <2>3 DEF CloseModal, DriversTypeOK, Dialogs
  <2>4. CASE TypePhone
    <3>1. dialog'.touched
      BY <2>4 DEF TypePhone, DriversTypeOK, Dialogs
    <3> QED
      BY <3>1 DEF BoxKept
  <2>5. CASE Save
    BY <2>2, <2>5, SaveIsSent DEF DriversTypeOK, Dialogs
  <2>6. ASSUME NEW others \in SUBSET saves, NEW left \in SUBSET switches, NEW show,
               Reload(others, left, show)
        PROVE  BoxKept'
    <3>1. dialog' = ClosedDialog
      BY <2>6, Reloaded, Zenon
    <3>2. dialog'.from = <<>>
      BY <3>1 DEF ClosedDialog
    <3> QED
      BY <3>2, KnownNumberIsSome, Zenon DEF BoxKept
  <2>7. ASSUME NEW s \in saves, ServerSteps(s) PROVE BoxKept'
    <3>1. UNCHANGED <<dialog, boxVars>>
      BY <2>7, ServerAnswers DEF serverVars
    <3> QED
      BY <2>2, <3>1
  <2>8. ASSUME NEW s \in saves, CreateDone(s) \/ SaveFailed(s) PROVE BoxKept'
    BY <2>2, <2>8 DEF CreateDone, SaveFailed, DriversTypeOK, Dialogs
  <2>9. ASSUME NEW s \in saves, LoseSave(s) PROVE BoxKept'
    BY <2>2, <2>9, LostSave
  <2>10. CASE Elsewhere
    BY <2>2, <2>10 DEF Elsewhere
  <2> QED
    BY <2>1, <2>3, <2>4, <2>5, <2>6, <2>7, <2>8, <2>9, <2>10, DialogSteps
<1> QED
  BY <1>1, <1>2 DEF Untouched, SaveKept

\* Opening a driver and saving keeps the phone that nobody touched, for a number of a country
\* the script knows.
THEOREM UntouchedPhone == DriversSpec => []UntouchedPhoneKept
<1>1. DriversInit => Untouched
  BY KnownNumberIsSome DEF DriversInit, ClosedDialog, Untouched, BoxKept
<1>2. Untouched => UntouchedPhoneKept
  BY DEF Untouched, SaveKept, UntouchedPhoneKept
<1>3. DriversIInv => DriversTypeOK
  BY DEF DriversIInv
<1> QED
  BY <1>1, <1>2, <1>3, DriversIInvIsInductive, UntouchedStep, PTL DEF DriversSpec

-----------------------------------------------------------------------------
(* The accounts.                                                            *)

\* Who is in the list, and whom a call is about, has an account; every account has a phone.
Existing ==
  /\ \A d \in Drivers : accounts[d] # NoAccount => accounts[d].phone # <<>>
  /\ \A d \in Drivers : rows[d] # NoAccount => accounts[d] # NoAccount
  /\ \A s \in saves : s.phone # <<>>
  /\ \A w \in switches : accounts[w.driver] # NoAccount

Unique ==
  \A d, e \in Drivers : d # e /\ accounts[d] # NoAccount => accounts[d].phone # accounts[e].phone

\* A write of an account that is, or becomes, one.
LEMMA UniqueWrites ==
  ASSUME DriversTypeOK, Existing, Unique, NEW d \in Drivers, NEW a, Writes(d, a),
         a.phone # <<>>
  PROVE  /\ \A e \in Drivers : accounts'[e] # NoAccount => accounts'[e].phone # <<>>
         /\ \A e \in Drivers : accounts[e] # NoAccount => accounts'[e] # NoAccount
         /\ Unique'
<1>1. /\ accounts'[d] = a /\ a # NoAccount
      /\ \A e \in Drivers : e # d => accounts'[e] = accounts[e]
  BY WritesType, NoAccountType
<1>2. /\ \A e \in Drivers : accounts'[e] # NoAccount => accounts'[e].phone # <<>>
      /\ \A e \in Drivers : accounts[e] # NoAccount => accounts'[e] # NoAccount
  BY <1>1 DEF Existing
<1>3. \A e \in Drivers : e # d => accounts[e].phone # a.phone
  <2>1. CASE Free(a.phone, d)
    BY <2>1 DEF Free
  <2>2. CASE a.phone = accounts[d].phone
    BY <2>2, NoAccountType DEF Unique
  <2> QED
    BY <2>1, <2>2 DEF Writes
<1>4. Unique'
  <2> SUFFICES ASSUME NEW e \in Drivers, NEW f \in Drivers, e # f, accounts'[e] # NoAccount
               PROVE  accounts'[e].phone # accounts'[f].phone
    BY DEF Unique
  <2>1. CASE e = d
    BY <1>1, <1>3, <2>1
  <2>2. CASE f = d
    BY <1>1, <1>3, <2>2
  <2>3. CASE e # d /\ f # d
    BY <1>1, <2>3 DEF Unique
  <2> QED
    BY <2>1, <2>2, <2>3
<1> QED
  BY <1>2, <1>4

\* An answer that reports a driver reports one that has an account.
Reported == \A s \in saves : s.at = "done" => s.id \in Drivers /\ accounts[s.id] # NoAccount

\* No account goes away.
Kept ==
  /\ Existing'
  /\ Unique'
  /\ \A d \in Drivers : accounts[d] # NoAccount => accounts'[d] # NoAccount

LEMMA ExistingStep ==
  DriversTypeOK /\ Existing /\ Unique /\ Reported /\ [DriversNext]_driversVars => Kept
<1> SUFFICES ASSUME DriversTypeOK, Existing, Unique, Reported, [DriversNext]_driversVars
             PROVE  Kept
  OBVIOUS
<1>s. \A t \in saves' : t.phone # <<>>
  BY SavesComeFrom DEF Existing, SameForm
\* steps that write no account, and list no driver without one
<1>q. ASSUME accounts' = accounts, \A d \in Drivers : rows'[d] # NoAccount => accounts[d] # NoAccount,
             \A t \in switches' : accounts[t.driver] # NoAccount
      PROVE  Kept
  BY <1>s, <1>q DEF Existing, Unique, Kept
<1>w. ASSUME NEW d \in Drivers, NEW a, Writes(d, a), a.phone # <<>>, rows' = rows,
             \A t \in switches' : \E w \in switches : t.driver = w.driver
      PROVE  Kept
  <2>1. \A t \in switches' : accounts'[t.driver] # NoAccount
    <3> SUFFICES ASSUME NEW t \in switches' PROVE accounts'[t.driver] # NoAccount
      OBVIOUS
    <3>1. PICK w \in switches : t.driver = w.driver
      BY <1>w
    <3>2. w.driver \in Drivers /\ accounts[w.driver] # NoAccount
      BY SwitchFields DEF Existing, DriversTypeOK
    <3> QED
      BY <1>w, <3>1, <3>2, UniqueWrites
  <2>2. \A e \in Drivers : rows'[e] # NoAccount => accounts'[e] # NoAccount
    BY <1>w, UniqueWrites DEF Existing
  <2>3. \A e \in Drivers : accounts'[e] # NoAccount => accounts'[e].phone # <<>>
    BY <1>w, UniqueWrites
  <2>4. Unique'
    BY <1>w, UniqueWrites
  <2>5. \A e \in Drivers : accounts[e] # NoAccount => accounts'[e] # NoAccount
    BY <1>w, UniqueWrites
  <2> QED
    BY <1>s, <2>1, <2>2, <2>3, <2>4, <2>5 DEF Existing, Kept
<1>1. ASSUME NEW d \in 0..MaxDrivers, OpenModal(d) PROVE Kept
  BY <1>1, <1>q DEF OpenModal, listVars, callVars, Existing
<1>2. CASE CloseModal \/ TypePhone \/ UNCHANGED driversVars
  BY <1>2, <1>q DEF CloseModal, TypePhone, driversVars, listVars, callVars, Existing
<1>3. CASE Save
  <2>1. UNCHANGED <<listVars, switches>>
    BY <1>3, SaveIsSent
  <2> QED
    BY <2>1, <1>q DEF listVars, Existing
<1>4. ASSUME NEW others \in SUBSET saves, NEW left \in SUBSET switches, NEW show,
             Reload(others, left, show)
      PROVE  Kept
  <2>1. accounts' = accounts /\ rows' = Listing(show)
    BY <1>4, Reloaded
  <2>2. \A d \in Drivers : rows'[d] # NoAccount => accounts[d] # NoAccount
    BY <2>1, ListingType
  <2>3. ASSUME NEW t \in switches' PROVE accounts[t.driver] # NoAccount
    <3>1. PICK w \in left : t.driver = w.driver
      BY <1>4, Reloaded
    <3> QED
      BY <3>1 DEF Existing
  <2> QED
    BY <2>1, <2>2, <2>3, <1>q
<1>5. ASSUME NEW s \in saves, ServerSteps(s) PROVE Kept
  <2>1. UNCHANGED <<rows, switches>>
    BY <1>5, ServerAnswers DEF serverVars
  <2>2. PICK t : UNCHANGED accounts \/ Stored(s, t)
    BY <1>5, ServerAnswers
  <2>3. CASE UNCHANGED accounts
    BY <2>1, <2>3, <1>q DEF Existing
  <2>4. CASE Stored(s, t)
    <3>1. PICK a : Writes(t.id, a) /\ a.phone = s.phone
      BY <2>4 DEF Stored
    <3>2. a.phone # <<>> /\ t.id \in Drivers
      BY <2>4, <3>1 DEF Existing, Stored
    <3> QED
      BY <2>1, <3>1, <3>2, <1>w
  <2> QED
    BY <2>2, <2>3, <2>4
<1>6. ASSUME NEW s \in saves, CreateDone(s) PROVE Kept
  <2>1. /\ accounts' = accounts /\ switches' = switches
        /\ rows' = [rows EXCEPT ![s.id] = [phone |-> s.phone, active |-> TRUE]]
        /\ s.at = "done"
    BY <1>6 DEF CreateDone
  <2>2. \A d \in Drivers : rows'[d] # NoAccount => accounts[d] # NoAccount
    BY <2>1 DEF Existing, DriversTypeOK, Reported
  <2> QED
    BY <2>1, <2>2, <1>q DEF Existing
<1>7. ASSUME NEW s \in saves, SaveFailed(s) \/ LoseSave(s) PROVE Kept
  BY <1>7, <1>q DEF SaveFailed, LoseSave, listVars, Existing
<1>8. ASSUME NEW d \in Drivers, SetActive(d) PROVE Kept
  <2>1. UNCHANGED listVars /\ rows[d] # NoAccount
    BY <1>8, SwitchIsSent
  <2>2. \A t \in switches' : t \in switches \/ t.driver = d
    BY <1>8, SwitchIsSent
  <2> QED
    BY <2>1, <2>2, <1>q DEF listVars, Existing
<1>9. ASSUME NEW d \in Drivers, OtherAdmin(d) PROVE Kept
  <2>1. UNCHANGED <<rows, switches>>
    BY <1>9, OtherWrites DEF serverVars
  <2>2. PICK a : /\ Writes(d, a)
                 /\ a.phone # <<>> \/ (a.phone = accounts[d].phone /\ accounts[d] # NoAccount)
    BY <1>9, OtherWrites
  <2>3. a.phone # <<>>
    BY <2>2 DEF Existing
  <2> QED
    BY <2>1, <2>2, <2>3, <1>w
<1>10. ASSUME NEW w \in switches, SetDriverActive(w) PROVE Kept
  <2>1. rows' = rows /\ w.driver \in Drivers
    BY <1>10, ServerSwitches, SwitchFields DEF serverVars, DriversTypeOK
  <2>2. PICK a : Writes(w.driver, a) /\ a.phone = accounts[w.driver].phone
    BY <1>10, ServerSwitches
  <2>3. a.phone # <<>>
    BY <2>1, <2>2 DEF Existing
  <2>4. \A t \in switches' : \E o \in switches : t.driver = o.driver
    BY <1>10, ServerSwitches
  <2> QED
    BY <2>1, <2>2, <2>3, <2>4, <1>w
<1>11. ASSUME NEW w \in switches, SwitchFailed(w) PROVE Kept
  BY <1>11, <1>q DEF SwitchFailed, listVars, Existing
<1>12. ASSUME NEW w \in switches, LoseSwitch(w) PROVE Kept
  <2>1. UNCHANGED listVars
    BY <1>12, LostSwitch
  <2>2. \A t \in switches' : t \in switches \/ t.driver = w.driver
    BY <1>12, LostSwitch
  <2> QED
    BY <2>1, <2>2, <1>q DEF listVars, Existing
<1> QED
  BY <1>1, <1>2, <1>3, <1>4, <1>5, <1>6, <1>7, <1>8, <1>9, <1>10, <1>11, <1>12, DriversSteps

LEMMA ReportedStep ==
  DriversTypeOK /\ Existing /\ Unique /\ Reported /\ [DriversNext]_driversVars => Reported'
<1> SUFFICES ASSUME DriversTypeOK, Existing, Unique, Reported, [DriversNext]_driversVars
             PROVE  Reported'
  OBVIOUS
<1>k. \A d \in Drivers : accounts[d] # NoAccount => accounts'[d] # NoAccount
  BY ExistingStep DEF Kept
<1>1. (\A t \in saves' : t.at = "done" => \E s \in saves : s.at = "done" /\ s.id = t.id) => Reported'
  BY <1>k DEF Reported
<1>2. CASE Save
  BY <1>1, <1>2, SaveIsSent
<1>3. ASSUME NEW others \in SUBSET saves, NEW left \in SUBSET switches, NEW show,
             Reload(others, left, show)
      PROVE  Reported'
  BY <1>1, <1>3, Reloaded
<1>4. ASSUME NEW s \in saves, ServerSteps(s) PROVE Reported'
  <2>1. PICK t \in Saves : /\ SameForm(s, t) /\ saves' \subseteq (saves \ {s}) \cup {t}
                           /\ t.at \in {"checked", "failed"} \/ Stored(s, t)
    BY <1>4, ServerAnswers
  <2>2. CASE t.at \in {"checked", "failed"}
    BY <1>1, <2>1, <2>2
  <2>3. CASE Stored(s, t)
    <3>1. PICK a : Writes(t.id, a) /\ a.phone = s.phone
      BY <2>3 DEF Stored
    <3>2. a.phone # <<>> /\ t.id \in Drivers
      BY <2>3, <3>1 DEF Existing, Stored
    <3>3. accounts'[t.id] # NoAccount
      BY <3>1, <3>2, WritesType, NoAccountType
    <3> QED
      BY <1>k, <2>1, <3>2, <3>3 DEF Reported
  <2> QED
    BY <2>1, <2>2, <2>3
<1>5. ASSUME NEW s \in saves, LoseSave(s) PROVE Reported'
  <2>1. PICK t \in Saves, u \in Saves :
          /\ t.at = "failed" /\ u.at = s.at /\ u.id = s.id
          /\ saves' \in {(saves \ {s}) \cup {t}, (saves \ {s}) \cup {t, u}}
    BY <1>5, LostSave
  <2>2. saves' \subseteq saves \cup {t, u}
    BY <2>1
  <2> QED
    BY <1>1, <2>1, <2>2
<1>6. \/ \E d \in 0..MaxDrivers : OpenModal(d)
      \/ CloseModal \/ TypePhone
      \/ \E s \in saves : CreateDone(s) \/ SaveFailed(s)
      \/ Elsewhere
      => saves' \subseteq saves
  BY DEF OpenModal, CloseModal, TypePhone, CreateDone, SaveFailed, Elsewhere, callVars
<1> QED
  BY <1>1, <1>2, <1>3, <1>4, <1>5, <1>6, DialogSteps

AccountsIInv == DriversIInv /\ Existing /\ Unique /\ Reported

LEMMA AccountsIInvIsInductive ==
  /\ DriversInit => AccountsIInv
  /\ AccountsIInv /\ [DriversNext]_driversVars => AccountsIInv'
<1>1. DriversInit => Existing /\ Unique /\ Reported
  BY DEF DriversInit, Existing, Unique, Reported
<1>2. AccountsIInv /\ [DriversNext]_driversVars => Existing' /\ Unique' /\ Reported'
  BY ExistingStep, ReportedStep DEF AccountsIInv, DriversIInv, Kept
<1> QED
  BY <1>1, <1>2, DriversIInvIsInductive DEF AccountsIInv

\* No two drivers have one phone: whatever was checked before, the unique key is there when
\* a phone is written.
THEOREM PhonesAreUnique == DriversSpec => []PhonesStayUnique
<1>1. AccountsIInv => PhonesStayUnique
  BY DEF AccountsIInv, Unique, PhonesStayUnique
<1> QED
  BY <1>1, AccountsIInvIsInductive, PTL DEF DriversSpec

-----------------------------------------------------------------------------
(* The list.                                                                *)

\* A save the page will hear of stored a new driver, who is not in the list.
Created(s) == s.heard /\ s.at = "done" /\ s.editing = 0

\* The row it is about to add is right, unless the driver changed meanwhile; and one answer
\* at most adds it.
CreatedIsNew ==
  /\ \A s \in saves : Created(s) =>
       /\ s.id \in Drivers /\ rows[s.id] = NoAccount
       /\ s.id \notin stale => accounts[s.id] = [phone |-> s.phone, active |-> TRUE]
  /\ \A s, t \in saves : Created(s) /\ Created(t) /\ s.id = t.id => s = t

\* What is edited or switched from this page is in its list.
EditedIsListed ==
  /\ dialog.editing # 0 => rows[dialog.editing] # NoAccount
  /\ \A s \in saves : s.heard /\ s.editing # 0 => rows[s.editing] # NoAccount
  /\ \A w \in switches : w.heard => rows[w.driver] # NoAccount

\* An answer about a driver is on its way to the page.
Answered(d) ==
  \/ \E s \in Heard : s.at = "done" /\ s.id = d
  \/ \E w \in switches : w.heard /\ w.at = "done" /\ w.driver = d

\* The row of the new driver is a row.
LEMMA AddedRow ==
  ASSUME DriversTypeOK, Reported, NEW s \in saves, CreateDone(s)
  PROVE  /\ Created(s) /\ s.id \in Drivers
         /\ rows'[s.id] = [phone |-> s.phone, active |-> TRUE] /\ rows'[s.id] # NoAccount
         /\ \A d \in Drivers : d # s.id => rows'[d] = rows[d]
<1>1. Created(s) /\ s.id \in Drivers
  BY DEF CreateDone, Created, Reported
<1>2. rows' = [rows EXCEPT ![s.id] = [phone |-> s.phone, active |-> TRUE]]
  BY DEF CreateDone
<1>3. [phone |-> s.phone, active |-> TRUE] # NoAccount
  BY DEF NoAccount
<1> QED
  BY <1>1, <1>2, <1>3 DEF DriversTypeOK

LEMMA EditedStep ==
  DriversTypeOK /\ Reported /\ EditedIsListed /\ [DriversNext]_driversVars => EditedIsListed'
<1> SUFFICES ASSUME DriversTypeOK, Reported, EditedIsListed, [DriversNext]_driversVars
             PROVE  EditedIsListed'
  OBVIOUS
<1>1. ASSUME NEW d \in 0..MaxDrivers, OpenModal(d) PROVE EditedIsListed'
  <2>1. UNCHANGED <<rows, saves, switches>> /\ dialog'.editing = d /\ (d # 0 => rows[d] # NoAccount)
    BY <1>1, OpenSets DEF listVars, callVars
  <2> QED
    BY <2>1 DEF EditedIsListed
<1>2. CASE CloseModal \/ TypePhone
  <2>1. UNCHANGED <<rows, saves, switches>> /\ dialog'.editing = dialog.editing
    BY <1>2 DEF CloseModal, TypePhone, DriversTypeOK, Dialogs, listVars, callVars
  <2> QED
    BY <2>1 DEF EditedIsListed
<1>3. CASE Save
  <2>1. UNCHANGED <<rows, switches>> /\ dialog' = [dialog EXCEPT !.disabled = TRUE]
    BY <1>3, SaveIsSent DEF listVars
  <2>2. dialog'.editing = dialog.editing
    BY <2>1 DEF DriversTypeOK, Dialogs
  <2>3. PICK t : saves' = saves \cup {t} /\ t.editing = dialog.editing
    BY <1>3, SaveIsSent
  <2> QED
    BY <2>1, <2>2, <2>3 DEF EditedIsListed
<1>4. ASSUME NEW others \in SUBSET saves, NEW left \in SUBSET switches, NEW show,
             Reload(others, left, show)
      PROVE  EditedIsListed'
  <2>1. dialog' = ClosedDialog
    BY <1>4, Reloaded, Zenon
  <2>2. (\A t \in saves' : ~t.heard) /\ \A t \in switches' : ~t.heard
    BY <1>4, Reloaded
  <2> QED
    BY <2>1, <2>2 DEF EditedIsListed, ClosedDialog
<1>5. ASSUME NEW s \in saves, ServerSteps(s) PROVE EditedIsListed'
  <2>1. UNCHANGED <<rows, dialog, switches>>
    BY <1>5, ServerAnswers DEF serverVars
  <2>2. PICK t : SameForm(s, t) /\ t.heard = s.heard /\ saves' \subseteq (saves \ {s}) \cup {t}
    BY <1>5, ServerAnswers
  <2> QED
    BY <2>1, <2>2 DEF EditedIsListed, SameForm
<1>6. ASSUME NEW s \in saves, CreateDone(s) PROVE EditedIsListed'
  <2>1. saves' \subseteq saves /\ switches' = switches /\ dialog'.editing = dialog.editing
    BY <1>6 DEF CreateDone, DriversTypeOK, Dialogs
  <2>2. \A d \in Drivers : rows[d] # NoAccount => rows'[d] # NoAccount
    BY <1>6, AddedRow
  <2>3. \A e \in 0..MaxDrivers : e # 0 /\ rows[e] # NoAccount => rows'[e] # NoAccount
    BY <2>2, DriverNumbers, Zenon
  <2>4. dialog.editing \in 0..MaxDrivers
    BY DEF DriversTypeOK, Dialogs
  <2>5. ASSUME NEW t \in saves', t.heard, t.editing # 0 PROVE rows'[t.editing] # NoAccount
    <3>1. t \in saves /\ t.editing \in 0..MaxDrivers
      BY <2>1, SaveFields DEF DriversTypeOK
    <3> QED
      BY <2>3, <2>5, <3>1 DEF EditedIsListed
  <2>6. ASSUME NEW w \in switches', w.heard PROVE rows'[w.driver] # NoAccount
    <3>1. w \in switches /\ w.driver \in Drivers
      BY <2>1, SwitchFields DEF DriversTypeOK
    <3> QED
      BY <2>2, <2>6, <3>1 DEF EditedIsListed
  <2>7. dialog'.editing # 0 => rows'[dialog'.editing] # NoAccount
    BY <2>1, <2>3, <2>4 DEF EditedIsListed
  <2> QED
    BY <2>5, <2>6, <2>7 DEF EditedIsListed
<1>7. ASSUME NEW s \in saves, SaveFailed(s) PROVE EditedIsListed'
  <2>1. /\ UNCHANGED <<rows, switches>> /\ dialog'.editing = dialog.editing
        /\ saves' \subseteq saves
    BY <1>7 DEF SaveFailed, listVars, DriversTypeOK, Dialogs
  <2> QED
    BY <2>1 DEF EditedIsListed
<1>8. ASSUME NEW s \in saves, LoseSave(s) PROVE EditedIsListed'
  <2>1. UNCHANGED <<rows, switches, dialog>> /\ s.heard
    BY <1>8, LostSave DEF listVars
  <2>2. \A t \in saves' : t \in saves \/ t.editing = s.editing
    BY <1>8, LostSave DEF SameForm
  <2> QED
    BY <2>1, <2>2 DEF EditedIsListed
<1>9. ASSUME NEW d \in Drivers, SetActive(d) PROVE EditedIsListed'
  <2>1. UNCHANGED <<rows, saves, dialog>> /\ rows[d] # NoAccount
    BY <1>9, SwitchIsSent DEF listVars
  <2>2. \A t \in switches' : t \in switches \/ t.driver = d
    BY <1>9, SwitchIsSent
  <2> QED
    BY <2>1, <2>2 DEF EditedIsListed
<1>10. ASSUME NEW d \in Drivers, OtherAdmin(d) PROVE EditedIsListed'
  <2>1. UNCHANGED <<rows, saves, switches, dialog>>
    BY <1>10, OtherWrites DEF serverVars
  <2> QED
    BY <2>1 DEF EditedIsListed
<1>11. ASSUME NEW w \in switches, SetDriverActive(w) PROVE EditedIsListed'
  <2>1. UNCHANGED <<rows, saves, dialog>>
    BY <1>11, ServerSwitches DEF serverVars
  <2>2. \A t \in switches' : t \in switches \/ (t.driver = w.driver /\ t.heard = w.heard)
    BY <1>11, ServerSwitches
  <2> QED
    BY <2>1, <2>2 DEF EditedIsListed
<1>12. ASSUME NEW w \in switches, SwitchFailed(w) PROVE EditedIsListed'
  BY <1>12 DEF SwitchFailed, listVars, EditedIsListed
<1>13. ASSUME NEW w \in switches, LoseSwitch(w) PROVE EditedIsListed'
  <2>1. UNCHANGED <<rows, saves, dialog>> /\ w.heard
    BY <1>13, LostSwitch DEF listVars
  <2>2. \A t \in switches' : t \in switches \/ t.driver = w.driver
    BY <1>13, LostSwitch
  <2> QED
    BY <2>1, <2>2 DEF EditedIsListed
<1>14. CASE UNCHANGED driversVars
  BY <1>14 DEF driversVars, listVars, callVars, EditedIsListed
<1> QED
  BY <1>1, <1>2, <1>3, <1>4, <1>5, <1>6, <1>7, <1>8, <1>9, <1>10, <1>11, <1>12, <1>13, <1>14,
     DriversSteps

ListIInv ==
  /\ AccountsIInv
  /\ EditedIsListed
  /\ CreatedIsNew
  /\ ListShowsStored

\* A step that shows nothing new: what it changes in the database is in an answer to come,
\* or behind the page, and no answer goes away without leaving a mark.
LEMMA ListStays ==
  ASSUME DriversTypeOK, CreatedIsNew, ListShowsStored,
         UNCHANGED <<rows, showInactive>>, stale \subseteq stale',
         \A t \in saves' : Created(t)' => t \in saves /\ Created(t),
         \A d \in Drivers : accounts'[d] # accounts[d] => d \in stale' \/ rows[d] # NoAccount,
         \A d \in Drivers : accounts'[d] # accounts[d] => d \in stale' \/ Answered(d)',
         \A d \in Drivers : Answered(d) => d \in stale' \/ Answered(d)'
  PROVE  CreatedIsNew' /\ ListShowsStored'
<1>1. CreatedIsNew'
  <2>1. ASSUME NEW s \in saves', Created(s)'
        PROVE  /\ s.id \in Drivers /\ rows'[s.id] = NoAccount
               /\ s.id \notin stale' => accounts'[s.id] = [phone |-> s.phone, active |-> TRUE]
    <3>1. s \in saves /\ Created(s)
      BY <2>1
    <3>2. /\ s.id \in Drivers /\ rows[s.id] = NoAccount
          /\ s.id \notin stale => accounts[s.id] = [phone |-> s.phone, active |-> TRUE]
      BY <3>1 DEF CreatedIsNew
    <3> QED
      BY <3>2
  <2>2. \A s, t \in saves' : Created(s)' /\ Created(t)' /\ s.id = t.id => s = t
    BY DEF CreatedIsNew
  <2> QED
    BY <2>1, <2>2, Zenon DEF CreatedIsNew, Created
<1>2. ListShowsStored'
  <2> SUFFICES ASSUME NEW d \in Drivers, d \notin stale', rows'[d] # Listing(showInactive)'[d]
               PROVE  Answered(d)'
    BY DEF ListShowsStored, Answered, Heard
  <2>1. CASE accounts'[d] # accounts[d]
    BY <2>1
  <2>2. CASE accounts'[d] = accounts[d]
    <3>1. Listing(showInactive)'[d] = Listing(showInactive)[d]
      BY <2>2 DEF Listing
    <3>2. Answered(d)
      BY <3>1 DEF ListShowsStored, Answered
    <3> QED
      BY <3>2
  <2> QED
    BY <2>1, <2>2
<1> QED
  BY <1>1, <1>2

LEMMA ListIInvStep ==
  ListIInv /\ [DriversNext]_driversVars => CreatedIsNew' /\ ListShowsStored'
<1> SUFFICES ASSUME ListIInv, [DriversNext]_driversVars
             PROVE  CreatedIsNew' /\ ListShowsStored'
  OBVIOUS
<1> DEFINE Right == CreatedIsNew' /\ ListShowsStored'
<1>i. /\ DriversTypeOK /\ Existing /\ Reported /\ EditedIsListed /\ CreatedIsNew
      /\ ListShowsStored
  BY DEF ListIInv, AccountsIInv, DriversIInv
\* steps that leave answers and accounts alone
<1>q. ASSUME UNCHANGED <<listVars, stale>>,
             \A t \in saves' : t.at = "done" => t \in saves,
             \A t \in saves : t.at = "done" => t \in saves',
             \A t \in switches : t.at = "done" => t \in switches'
      PROVE  Right
  <2>1. \A d \in Drivers : Answered(d) => Answered(d)'
    BY <1>q DEF Answered, Heard
  <2>2. \A t \in saves' : Created(t)' => t \in saves /\ Created(t)
    BY <1>q DEF Created
  <2> QED
    BY <1>i, <1>q, <2>1, <2>2, ListStays DEF listVars
<1>1. ASSUME NEW d \in 0..MaxDrivers, OpenModal(d) PROVE Right
  <2>1. UNCHANGED <<listVars, stale>> /\ UNCHANGED callVars
    BY <1>1, <1>i, OpenSets
  <2>2. saves' = saves /\ switches' = switches
    BY <2>1 DEF callVars
  <2> QED
    BY <1>q, <2>1, <2>2
<1>2. CASE CloseModal \/ TypePhone \/ UNCHANGED driversVars
  BY <1>2, <1>q DEF CloseModal, TypePhone, driversVars, callVars
<1>3. CASE Save
  BY <1>3, <1>i, <1>q, SaveIsSent
<1>4. ASSUME NEW s \in saves, SaveFailed(s) PROVE Right
  BY <1>4, <1>q DEF SaveFailed
<1>5. ASSUME NEW d \in Drivers, SetActive(d) PROVE Right
  <2>1. UNCHANGED <<listVars, stale, saves>> /\ switches \subseteq switches'
    BY <1>5, <1>i, SwitchIsSent
  <2> QED
    BY <2>1, <1>q
<1>6. ASSUME NEW w \in switches, SwitchFailed(w) PROVE Right
  BY <1>6, <1>q DEF SwitchFailed
<1>7. ASSUME NEW others \in SUBSET saves, NEW left \in SUBSET switches, NEW show,
             Reload(others, left, show)
      PROVE  Right
  <2>1. rows' = Listing(show) /\ showInactive' = show /\ accounts' = accounts
    BY <1>7, <1>i, Reloaded
  <2>2. \A t \in saves' : ~t.heard
    BY <1>7, <1>i, Reloaded
  <2>3. CreatedIsNew'
    BY <2>2 DEF CreatedIsNew, Created
  <2>4. rows' = Listing(showInactive)'
    BY <2>1 DEF Listing
  <2> QED
    BY <2>3, <2>4 DEF ListShowsStored
<1>8. ASSUME NEW d \in Drivers, OtherAdmin(d) PROVE Right
  <2>1. UNCHANGED <<rows, showInactive, saves, switches>> /\ stale' = stale \cup {d}
    BY <1>8, <1>i, OtherWrites DEF serverVars
  <2>2. \A e \in Drivers : e # d => accounts'[e] = accounts[e]
    BY <1>8, <1>i, OtherWrites, WritesType
  <2>3. \A e \in Drivers : Answered(e) => Answered(e)'
    BY <2>1 DEF Answered, Heard
  <2>4. \A t \in saves' : Created(t)' => t \in saves /\ Created(t)
    BY <2>1 DEF Created
  <2> QED
    BY <1>i, <2>1, <2>2, <2>3, <2>4, ListStays
<1>9. ASSUME NEW s \in saves, LoseSave(s) PROVE Right
  <2>1. /\ UNCHANGED <<listVars, switches>> /\ s.heard
        /\ stale' = stale \cup (IF s.at = "done" THEN {s.id} ELSE {})
    BY <1>9, <1>i, LostSave
  <2>2. PICK t \in Saves, u \in Saves :
          /\ t.at = "failed" /\ ~u.heard
          /\ saves' \in {(saves \ {s}) \cup {t}, (saves \ {s}) \cup {t, u}}
    BY <1>9, <1>i, LostSave
  <2>3. \A d \in Drivers : Answered(d) => d \in stale' \/ Answered(d)'
    BY <2>1, <2>2 DEF Answered, Heard
  <2>4. \A v \in saves' : Created(v)' => v \in saves /\ Created(v)
    BY <2>2 DEF Created
  <2> QED
    BY <1>i, <2>1, <2>3, <2>4, ListStays DEF listVars
<1>10. ASSUME NEW w \in switches, LoseSwitch(w) PROVE Right
  <2>1. /\ UNCHANGED <<listVars, saves>>
        /\ stale' = stale \cup (IF w.at = "done" THEN {w.driver} ELSE {})
    BY <1>10, <1>i, LostSwitch
  <2>2. \A t \in switches : t # w => t \in switches'
    BY <1>10, <1>i, LostSwitch
  <2>3. \A d \in Drivers : Answered(d) => d \in stale' \/ Answered(d)'
    BY <2>1, <2>2 DEF Answered, Heard
  <2>4. \A v \in saves' : Created(v)' => v \in saves /\ Created(v)
    BY <2>1 DEF Created
  <2> QED
    BY <1>i, <2>1, <2>3, <2>4, ListStays DEF listVars
<1>11. ASSUME NEW w \in switches, SetDriverActive(w) PROVE Right
  <2>1. /\ UNCHANGED <<rows, showInactive, saves>> /\ w.at = "sent"
        /\ Unheard(w, w.driver) /\ w.driver \in Drivers
    BY <1>11, <1>i, ServerSwitches, SwitchFields DEF serverVars, DriversTypeOK
  <2>2. PICK t : /\ t.driver = w.driver /\ t.at = "done" /\ t.heard = w.heard
                 /\ switches' = (switches \ {w}) \cup (IF w.heard THEN {t} ELSE {})
    BY <1>11, <1>i, ServerSwitches
  <2>3. \A e \in Drivers : e # w.driver => accounts'[e] = accounts[e]
    BY <1>11, <1>i, <2>1, ServerSwitches, WritesType
  <2>4. stale \subseteq stale' /\ (~w.heard => w.driver \in stale')
    BY <1>i, <2>1, UnheardType
  <2>5. w.heard => Answered(w.driver)'
    BY <2>2 DEF Answered
  <2>6. \A d \in Drivers : Answered(d) => Answered(d)'
    BY <2>1, <2>2 DEF Answered, Heard
  <2>7. w.heard => rows[w.driver] # NoAccount
    BY <1>i DEF EditedIsListed
  <2>8. \A v \in saves' : Created(v)' => v \in saves /\ Created(v)
    BY <2>1 DEF Created
  <2>9. w.heard \in BOOLEAN
    BY <1>i, SwitchFields DEF DriversTypeOK
  <2> QED
    BY <1>i, <2>1, <2>3, <2>4, <2>5, <2>6, <2>7, <2>8, <2>9, ListStays
<1>12. ASSUME NEW s \in saves, ServerSteps(s) PROVE Right
  <2>1. UNCHANGED <<rows, showInactive, switches>> /\ s.at \in {"sent", "checked"}
    BY <1>12, <1>i, ServerAnswers DEF serverVars
  <2>2. PICK t \in Saves :
          /\ SameForm(s, t) /\ t.heard = s.heard
          /\ saves' \subseteq (saves \ {s}) \cup {t}
          /\ saves \ {s} \subseteq saves'
          /\ s.heard => t \in saves'
          /\ \/ t.at \in {"checked", "failed"} /\ UNCHANGED <<accounts, stale>>
             \/ Stored(s, t)
    BY <1>12, <1>i, ServerAnswers
  <2>3. \A d \in Drivers : Answered(d) => Answered(d)'
    BY <2>1, <2>2 DEF Answered, Heard
  <2>4. CASE t.at \in {"checked", "failed"} /\ UNCHANGED <<accounts, stale>>
    <3>1. \A v \in saves' : Created(v)' => v \in saves /\ Created(v)
      BY <2>2, <2>4 DEF Created
    <3> QED
      BY <1>i, <2>1, <2>3, <2>4, <3>1, ListStays
  <2>5. CASE Stored(s, t)
    <3>1. /\ t.at = "done" /\ t.id \in Drivers
          /\ IF s.editing = 0 THEN accounts[t.id] = NoAccount ELSE t.id = s.editing
      BY <2>5 DEF Stored
    <3>2. PICK a : Writes(t.id, a) /\ a.phone = s.phone /\ (s.editing = 0 => a.active)
      BY <2>5 DEF Stored
    <3>3. accounts'[t.id] = a /\ \A e \in Drivers : e # t.id => accounts'[e] = accounts[e]
      BY <1>i, <3>1, <3>2, WritesType
    <3>4. stale \subseteq stale' /\ (~s.heard => t.id \in stale')
      BY <1>i, <2>5, <3>1, UnheardType DEF Stored
    <3>5. s.heard => Answered(t.id)'
      BY <2>2, <3>1 DEF Answered, Heard
    <3>6. s.heard \in BOOLEAN
      BY <1>i, SaveFields DEF DriversTypeOK
    <3>7. CASE ~Created(t)
      <4>1. \A v \in saves' : Created(v)' => v \in saves /\ Created(v)
        BY <2>2, <3>7 DEF Created
      <4>2. s.heard => rows[t.id] # NoAccount
        <5>1. s.heard => s.editing # 0
          BY <2>2, <3>1, <3>7 DEF Created, SameForm
        <5> QED
          BY <1>i, <3>1, <5>1 DEF EditedIsListed
      <4> QED
        BY <1>i, <2>1, <2>3, <3>3, <3>4, <3>5, <3>6, <4>1, <4>2, ListStays
    <3>8. CASE Created(t)
      <4>1. s.editing = 0 /\ s.heard
        BY <2>2, <3>8 DEF Created, SameForm
      <4>2. accounts[t.id] = NoAccount /\ rows[t.id] = NoAccount
        BY <1>i, <3>1, <4>1 DEF Existing
      <4>3. a = [phone |-> s.phone, active |-> TRUE]
        <5>1. a \in Accounts /\ a.phone = s.phone /\ a.active
          BY <3>2, <4>1 DEF Writes
        <5> QED
          BY <5>1 DEF Accounts
      <4>4. t.phone = s.phone
        BY <2>2 DEF SameForm
      \* the other new drivers are others
      <4>5. \A v \in saves : v.at = "done" => v.id \in Drivers /\ v.id # t.id
        BY <1>i, <4>2 DEF Reported
      <4>6. ASSUME NEW v \in saves', Created(v)
            PROVE  /\ v.id \in Drivers /\ rows'[v.id] = NoAccount
                   /\ v.id \notin stale' => accounts'[v.id] = [phone |-> v.phone, active |-> TRUE]
        <5>1. CASE v = t
          BY <2>1, <3>1, <3>3, <4>2, <4>3, <4>4, <5>1
        <5>2. CASE v # t
          <6>1. v \in saves /\ v.id # t.id
            BY <2>2, <4>5, <4>6, <5>2 DEF Created
          <6> QED
            BY <1>i, <2>1, <3>3, <3>4, <4>6, <6>1 DEF CreatedIsNew
        <5> QED
          BY <5>1, <5>2
      <4>7. ASSUME NEW v \in saves', NEW x \in saves', Created(v), Created(x), v.id = x.id
            PROVE  v = x
        <5>1. (v = t \/ v \in saves) /\ (x = t \/ x \in saves)
          BY <2>2
        <5>2. (v \in saves => v.id # t.id) /\ (x \in saves => x.id # t.id)
          BY <4>5, <4>7 DEF Created
        <5>3. v \in saves /\ x \in saves => v = x
          BY <1>i, <4>7 DEF CreatedIsNew
        <5> QED
          BY <4>7, <5>1, <5>2, <5>3
      <4>8. CreatedIsNew'
        BY <4>6, <4>7, Zenon DEF CreatedIsNew, Created
      <4>9. ListShowsStored'
        <5> SUFFICES ASSUME NEW d \in Drivers, d \notin stale',
                            rows'[d] # Listing(showInactive)'[d]
                     PROVE  Answered(d)'
          BY DEF ListShowsStored, Answered, Heard
        <5>1. CASE d = t.id
          BY <3>5, <4>1, <5>1
        <5>2. CASE d # t.id
          <6>1. Listing(showInactive)'[d] = Listing(showInactive)[d]
            BY <2>1, <3>3, <5>2 DEF Listing
          <6>2. Answered(d)
            BY <1>i, <2>1, <3>4, <6>1 DEF ListShowsStored, Answered
          <6> QED
            BY <2>3, <6>2
        <5> QED
          BY <5>1, <5>2
      <4> QED
        BY <4>8, <4>9
    <3> QED
      BY <3>7, <3>8
  <2> QED
    BY <2>2, <2>4, <2>5
<1>13. ASSUME NEW s \in saves, CreateDone(s) PROVE Right
  <2>1. /\ Created(s) /\ s.id \in Drivers
        /\ rows'[s.id] = [phone |-> s.phone, active |-> TRUE]
        /\ \A d \in Drivers : d # s.id => rows'[d] = rows[d]
    BY <1>13, <1>i, AddedRow
  <2>2. UNCHANGED <<accounts, showInactive, switches, stale>> /\ saves' = saves \ {s}
    BY <1>13 DEF CreateDone
  <2>3. s.id \notin stale => accounts[s.id] = [phone |-> s.phone, active |-> TRUE]
    BY <1>i, <2>1 DEF CreatedIsNew
  <2>4. CreatedIsNew'
    <3>1. ASSUME NEW v \in saves', Created(v)
          PROVE  /\ v.id \in Drivers /\ rows'[v.id] = NoAccount
                 /\ v.id \notin stale => accounts[v.id] = [phone |-> v.phone, active |-> TRUE]
      <4>1. v \in saves /\ v # s
        BY <2>2
      <4>2. v.id # s.id
        BY <1>i, <2>1, <3>1, <4>1 DEF CreatedIsNew
      <4> QED
        BY <1>i, <2>1, <3>1, <4>1, <4>2 DEF CreatedIsNew
    <3>2. \A v, x \in saves' : Created(v) /\ Created(x) /\ v.id = x.id => v = x
      BY <1>i, <2>2 DEF CreatedIsNew
    <3> QED
      BY <2>2, <3>1, <3>2, Zenon DEF CreatedIsNew, Created
  <2>5. ListShowsStored'
    <3> SUFFICES ASSUME NEW d \in Drivers, d \notin stale,
                        rows'[d] # Listing(showInactive)'[d]
                 PROVE  Answered(d)'
      BY <2>2 DEF ListShowsStored, Answered, Heard
    <3>1. Listing(showInactive)'[d] = Listing(showInactive)[d]
      BY <2>2 DEF Listing
    <3>2. d # s.id
      <4> SUFFICES ASSUME d = s.id PROVE FALSE
        OBVIOUS
      <4>1. accounts[d] = [phone |-> s.phone, active |-> TRUE]
        BY <2>3
      <4>2. Listing(showInactive)[d] = accounts[d]
        BY <1>i, <4>1, ListingType
      <4> QED
        BY <2>1, <3>1, <4>1, <4>2
    <3>3. Answered(d)
      BY <1>i, <2>1, <3>1, <3>2 DEF ListShowsStored, Answered
    <3> QED
      BY <2>2, <3>2, <3>3 DEF Answered, Heard
  <2> QED
    BY <2>4, <2>5
<1> QED
  BY <1>1, <1>2, <1>3, <1>4, <1>5, <1>6, <1>7, <1>8, <1>9, <1>10, <1>11, <1>12, <1>13, DriversSteps

\* A driver is listed as it is stored, or an answer will repair the row, or the driver
\* changed behind this page.
THEOREM ListStaysRight == DriversSpec => []ListShowsStored
<1>1. DriversInit => EditedIsListed /\ CreatedIsNew /\ ListShowsStored
  <2> SUFFICES ASSUME DriversInit PROVE EditedIsListed /\ CreatedIsNew /\ ListShowsStored
    OBVIOUS
  <2>1. EditedIsListed /\ CreatedIsNew
    BY DEF DriversInit, ClosedDialog, EditedIsListed, CreatedIsNew
  <2>2. \A d \in Drivers : rows[d] = NoAccount /\ Listing(showInactive)[d] = NoAccount
    BY DEF DriversInit, Listing
  <2> QED
    BY <2>1, <2>2 DEF ListShowsStored
<1>2. DriversInit => ListIInv
  BY <1>1, AccountsIInvIsInductive DEF ListIInv
<1>3. ListIInv /\ [DriversNext]_driversVars => ListIInv'
  <2>1. ListIInv => AccountsIInv /\ DriversTypeOK /\ Reported /\ EditedIsListed
    BY DEF ListIInv, AccountsIInv, DriversIInv
  <2> QED
    BY <2>1, AccountsIInvIsInductive, EditedStep, ListIInvStep DEF ListIInv
<1>4. ListIInv => ListShowsStored
  BY DEF ListIInv
<1> QED
  BY <1>2, <1>3, <1>4, PTL DEF DriversSpec
=============================================================================
