# Ulak: a formal model of deliveries, proofs, the offline queue, the sessions and the panel

Ulak is a proof-of-delivery system. An admin opens delivery orders in a web panel and assigns
drivers; a driver captures a *pickup* proof and a *delivery* proof (photos, a signature, a
result) on a phone, online or not; the phone queues proofs in SQLite and drains the queue to an
ASP.NET API, which records them through SQL Server stored procedures.

This directory holds TLA+ modules translated from the source, TLC configurations that check
them on small instances, and TLAPS proofs about every detailed module. Paths below are relative to
the repository root (`src/` here), so `db/scripts/025_company_settings.sql` is
`src/db/scripts/025_company_settings.sql` in `PROJECT.json`.

| module | what it is |
|---|---|
| `ProofLifecycle` | abstract: what is promised of one delivery, with no concurrency |
| `ProofStore` | the stored procedures, statement by statement, run concurrently |
| `ProofStore_proofs` | TLAPS theorems about `ProofStore`, among them that it implements `ProofLifecycle` |
| `ProofOutbox` | abstract: what the offline queue promises of each proof, with no files, drains or network |
| `ProofQueue` | the phone's offline queue against a sequential API, with crashes and losses |
| `ProofQueue_proofs` | TLAPS theorems about `ProofQueue`: all its safety properties, and that it implements `ProofOutbox` |
| `Session` | tokens, refresh, sign-in, sign-out, forced password change |
| `Session_proofs` | TLAPS theorems about `Session`: all its safety properties |
| `WebSession` | the panel's cookie and the refreshes of `BearerTokenHandler`, requests in parallel |
| `WebSession_proofs` | TLAPS theorems about `WebSession` |
| `DataTable` | `Ulak.dataTable`: overlapping loads of a paged table, and the search behind it |
| `DataTable_proofs` | TLAPS theorems about `DataTable` |
| `PhoneInput` | the phone box of `site.js`: dial codes and numbers, digit by digit |
| `SignUpForm` | a form with a phone box that is refused and comes back (extends `PhoneInput`) |
| `DriversPage` | the drivers page: list, dialog, saves, switching on and off, the accounts and other admins (extends `PhoneInput`) |
| `DriversPage_proofs` | TLAPS theorems about `DriversPage` |
| `ThemeToggle` | the theme, in several tabs |
| `BarChart` | the chart of the dashboard and its tooltip |
| `PanelScripts_proofs` | TLAPS theorems about `PhoneInput`, `SignUpForm`, `ThemeToggle`, `BarChart` |
| `MCProofStore`, `MCProofQueue`, `MCSession`, `MCPanel` | the small instances TLC checks |

Run `tlc -workers 2 -config MCProofStoreRace.cfg MCProofStore` (and so on for the other
configurations) and `tlapm ProofStore_proofs.tla` (and so on for the other `_proofs` modules).


## 1. Inventory

For each component: its state, its operations, what is hard about it, what makes it correct.

### Proof store: `usp_Proof_Create` and the tables behind it
*State*: `Delivery` (status, assignee, company), `Proof` (unique by `ClientUuid` and by delivery
and type), `ProofPhoto`, `CompanySettings`. *Operation*: `POST /proofs`, that is the validator,
then one execution of the procedure in its latest version (025). *Hard*: the procedure reads
five times, decides, and only then opens a transaction to write; under READ COMMITTED every read
may be stale when it is used, and a phone that timed out sends the same request again while the
first copy is still running. *Correct when*: a delivery has one proof per type at most, its
status is the result of its last proof, a delivery proof stands on a successful pickup, no row
crosses tenants, the capture rules cannot be evaded, and a 200 or 201 always stands for a stored
proof (the phone deletes its only copy on it).

### Delivery desk: `usp_Delivery_Create`, `usp_Delivery_Assign`
*State*: the same `Delivery` rows. *Operations*: open an order, assign a driver. *Hard*: check and write are
separate statements, concurrent with each other and with proofs. *Correct when*: the order reference is
unique within its tenant, no admin touches another tenant's delivery or gives one to another tenant's
driver, drivers are active when chosen, only pending deliveries change hands (they do not: see findings).

### Company settings and driver administration
*State*: `CompanySettings.RequirePhoto/RequireSignature`, `AppUser.IsActive`. *Operations*:
`usp_Company_UpdateSettings`, `usp_AppUser_SetDriverActive` and the driver CRUD. *Hard*: they
change in the middle of calls that read them.

### Offline queue: `ProofQueue`, `LocalDatabase`, `ProofSyncService`, `OfflineQueueRetryPolicy`
*State*: SQLite rows (`PendingProof`, `PendingPhoto`, `CachedDelivery`), the photo files, the lock of the
drain. *Operations*: enqueue, drain (hold, mark, upload, submit, delete), back off, fail, "send now".
*Hard*: the app is killed anywhere; the network goes; answers are lost after the server stored the proof;
capture runs beside the drain. *Correct when*: a row goes only when the API has the proof, nothing saved is
lost before it is sent, a delivery proof never overtakes its pickup and waits until the pickup has left the
phone, a proof fails exactly when its attempts are used up, everything queued settles.

### Capture view models
*State*: the delivery on the page, the cached list. *Operations*: load, open, capture, submit.
*Hard*: what may be captured depends on a status that may be stale.

### Tokens on the server: `AuthAppService` and the refresh-token procedures
*State*: `RefreshToken` rows, `AppUser` flags. *Operations*: login, refresh (validate, revoke,
store: three statements), change password. *Hard*: rotation is not atomic and its answer may be
lost. *Correct when*: an account switched off gets no new tokens.

### Session on the phone: `AuthHandler`, `TokenStore`, `LoginViewModel`, `ChangePasswordViewModel`
*State*: three secure-storage keys, `_refreshLock`, the page. *Hard*: several requests are answered
401 at once; sign-in and sign-out run beside a refresh; the app is killed between two keys.
*Correct when*: the app's own concurrency never signs the driver out, the lock is always given
back, and a temporary password stays one until it is changed (it does not: see findings).

### Session of the panel: `BearerTokenHandler`, `AccountController`
*State*: a pair of API tokens in the browser's cookie, and a copy in each request. *Operations*:
sign in, sign out, any page or script call. *Hard*: pages and scripts send requests in parallel
with one cookie, each may rotate the pair before or after its API call, nothing makes them wait
for each other, and their cookies arrive in any order. *Correct when*: the rotation that wins is
the one whose cookie stays.

### Paged table: `Ulak.dataTable` and `usp_Delivery_AdminSearch`
*State*: page, total, the rows shown, the pager, the calls not answered. *Operations*: refresh,
previous, next, edit a filter. *Hard*: loads overlap, answers come late or not at all, rows and
total are read by two statements while records come and go. *Correct when*: the table never goes
beyond the pager's last page, and rows, pager and page agree unless something interfered.

### Drivers page: the dialog and `Ulak.modal`
*State*: list, dialog, what it edits, the Save button, POSTs without an answer, the accounts.
*Operations*: open, close, type, save, activate, deactivate, reload, show the inactive drivers.
*Hard*: an answer writes into whatever the dialog is about by then; saves and switches overtake each
other; phones are checked in one statement and written in another; other admins change the same
drivers. *Correct when*: Save comes back, a form is sent once, the list is what the server would list,
no two drivers have one phone, a phone nobody touched is kept.

### Phone boxes, theme, chart (`site.js`)
*State*: two visible fields and a hidden one; an attribute per tab, one stored value, the system's
preference; the hovered element and one tooltip. *Hard*: conversions that must lose no digit and
are applied in both directions; tabs that share storage; a tooltip shared by overlapping shapes,
whose widths are fixed while the number of days is the server's. *Correct when*: a known number
survives splitting and joining; a choice outlives reloads; the tooltip speaks of the day under the
mouse.

### Modelled in part or not at all (the reasons are in section 8)
Sign-up and lists of users, exports and PDF documents, object storage itself, web controllers,
database migrator, device input.

### How they interact
```
 capture view models --EnqueueAsync--> SQLite rows, files <--drain-- ProofSyncService
        ^                                                               |  upload, POST /proofs
        | GET /deliveries (status)                                      v  through AuthHandler
   DeliveryListViewModel                     AuthHandler --POST /auth/refresh--> AuthAppService
                                                                        |
 web panel --create, assign, settings, drivers--> API controllers --> stored procedures
```
The queue and the store meet in three places: the status a page shows, the answer to
`POST /proofs` (200/201 deletes, 400/403/409/422 is final, anything else is retried) and the
`ClientUuid` that identifies a proof on both sides. The session is below the queue: a 401 that
survives a refresh is one more failed attempt. The panel's scripts call the web controllers, whose
API calls go through `BearerTokenHandler` to the same three statements of refresh as the phone's;
the drivers they create are those to whom the desk assigns.


## 2. `ProofStore`: state and steps

| variable | code |
|---|---|
| `status`, `assigned` | `Delivery.Status`, `Delivery.AssignedDriverId`; `"Absent"` is no row |
| `active`, `required` | `AppUser.IsActive`, the company's `RequirePhoto`/`RequireSignature` |
| `proof` | the `Proof` table: the driver recorded under each uuid |
| `step`, `uuid`, `caller`, `seen` | the program counter, parameters and `@deliveryStatus` of a call |
| `deskStep`, `order` | the same for a create or an assign: the delivery, the driver and the company of the admin who calls |
| `waived` | history, read by no guard: what the caller's company did not require at some moment of the call |

One action is one SQL statement: `Receive`/`RefuseMalformed` (the validator), `Dedupe`,
`ReadDelivery`, `ReadExisting`, `ReadPickup`, `ReadSettings`, `Insert`, and `Cancel` for a client
that goes away. `Insert` is the transaction at the end of the procedure: the proof, its photos
and the delivery's status become visible together, and a violated unique key undoes all of them
(`XACT_ABORT`). The desk calls are `BeginDesk`, `FindDelivery`, `FindDriver`, `ReadStatus` and
`InsertDelivery` or `UpdateAssignee`. `BeginDesk` is a call by an admin of any company, whose claim is
`@CompanyId`: an order reference belongs to that company, but the delivery to assign and the driver
are Ids, which an admin may send of any company. `Acceptable` (022:223, 249) compares the delivery with
the caller's company, `Assignable` (022:226-229, 252-254) the driver, and `UpdateAssignee` nothing.

Abstractions: photos are a count, the signature and the failure reason flags; the content under a
`ClientUuid` never changes, because a row of the queue is sent as it was captured; the caller may
(any driver's token). A delivery is identified by its order reference within its company, which
stands for its Id too.
`RefuseMalformed` keeps the rules of the validator that the procedure depends on.
The `UniqueViolation` answer is the 2627/2601 that the exception mapper does not know: a 500.

`ProofLifecycle` says what this adds up to: a delivery is opened, then gets a pickup result from
`Pending` and a delivery result from `PickedUp`, each leaving one piece of evidence. The
refinement maps `evidence[d]` to the type and result of the recorded proofs of `d`; every other
step is a stutter.


## 3. `ProofQueue`: state and steps

| variable | code |
|---|---|
| `row`, `attempts`, `due` | `PendingProof.State`, `.Attempts`, `NextAttemptUtc <= now` |
| `earlier` | for each row, the rows with an earlier `CreatedAt`, which the drain takes first |
| `files`, `photoRows`, `keys` | photo files, `PendingPhoto` rows, those with a `RemoteKey` |
| `saving`, `progress`, `saved` | where `EnqueueAsync` is; history: what the driver was told is saved |
| `batch`, `current`, `stage`, `snapshot` | the drain: the rows of `GetDueAsync` it has still to process, the one it is at and where, the photos it read |
| `recorded`, `evidence`, `late` | the API's proofs and their photos; requests nobody waits for any more |
| `shown`, `cached`, `online`, `crashes` | the page, the cached list, the network, a counter |
| `raced` | history: a late copy of the request in flight was stored after it was sent |

Every `await` of `EnqueueAsync` and of `ProcessAsync` at which another actor can matter is a step
boundary; `_runLock` makes the drain a single process (`RunOnce` needs `stage = "idle"`). A wake-up
that finds the lock taken is dropped, as in the code; the timer makes up for it.
`FailAttempt` is the catch-all (no network, a missing file, timeout, 401, 404, 5xx),
`Reject` is `IsPermanentFailure`. A request whose caller gave up may be lost or may
reach the API later (`Abandon`, `ArriveLate`), and may then overlap the retry (`raced`): that is
where `ProofStore`'s race between two copies of a request is felt on the phone.

Abstractions: the lengths of the backoff and the 15 seconds of a hold become "not due until
`Elapse`"; a signature is treated like one more photo; `RetryAllAsync` re-arms all failed rows in
one step (its rows are independent and the drain starts after them); the API is the sequential
meaning of the procedure, with the company's default rule (a photo is required), plus a `refusal`
for everything the device cannot know (reassigned, stricter rules).

Two abstract specifications say what this adds up to. `ProofOutbox` is the driver's view: a
captured proof waits, is tried at most `MaxAttempts` times and then shown as failed until the driver
sends it again, is stored by the API once, and is removed only when it is stored. The refinement maps
the state of a row to a place (`PlaceOf`: a row that is `Pending` and one that is `Syncing` both
wait), the attempts to the tries, `saved` to what was promised, and `recorded` and `evidence` to
themselves; pages, files, batches, stages, crashes and the network are stutters. The other
is `ProofLifecycle` once more: `ApiFollowsLifecycle` says that each proof the API of this module
stores is a step of it, with the status computed from the proofs (`ServerStatus`). The orders are
there from the start here, so that only the steps are compared, not the initial state. `ProofStore`
implements the same lifecycle, which is what allows the queue to be checked against the sequential
API.


## 4. `Session`: state and steps

| variable | code |
|---|---|
| `active`, `mustChange`, `live`, `fresh`, `issued` | `AppUser` flags, unrevoked refresh tokens, unexpired access tokens, a counter |
| `call` | executions of login and refresh in the API: `ReadUser`, or `Validate`, `Revoke`, then `Issue` |
| `req`, `lock` | the app's concurrent requests, `_refreshLock` |
| `store`, `page` | the three keys of `TokenStore`, the page |
| `cut` | history: a rotation was cut off between the API and the store |

A request is sent with the stored access token (`Start`); a 401 takes it to the lock (`Acquire`),
to the API, through the three writes of `TokenStore.SaveAsync` (`SaveAccess`, `SaveRefresh`,
`SaveFlag`, a step each) and to one retry. A refresh the client gave up may run to its end in the
API (`GiveUp`). A 5xx clears the session like a 401, as in `TryRefreshAsync`. Sign-in is outside
the lock, and sign-out may come at any moment. A pair of tokens issued together has one number.

Abstractions: `TokenStore.Clear` and the check-and-update of the password are one step each; the
30 days of a refresh token do not run out (the access token's expiry does, at any
moment); one driver, one phone; an admin's reset of the password is not modelled.

Two properties say that the app's own concurrency harms no session. `SessionSurvives` is about
states: a stored refresh token works whenever nobody holds the lock. `SessionEndsForCause` is about
steps: the store is emptied by a sign-out, or by the holder of the lock when the API refused a token
that works (only an account that was switched off gets that answer), or after a rotation was cut off.


## 5. The web panel: state and steps

### `WebSession`
| variable | code |
|---|---|
| `cookie` | the pair of tokens in the ticket of the browser's cookie; 0 is signed out |
| `live`, `issued`, `age` | unrevoked refresh tokens, a counter, the access tokens' expiry (two minutes or nothing left) |
| `web` | a slot per request: its step, the pair in its properties, whether it signed in or out (`set`), whether a 401 came (`forced`) |
| `cut`, `slid` | history: a rotation never reached the browser; a sliding renewal put another cookie back |

`Choose` is `GetValidAccessTokenAsync`, `CallApi` the call and the one retry after a 401,
`CheckToken`, `RevokeToken`, `IssuePair` the three statements of `AuthAppService.RefreshAsync` with
what `BearerTokenHandler.RefreshAsync` makes of them, `Respond` the response with its `Set-Cookie`
(`SlidingExpiration` may renew an older ticket), `Abort` a browser that leaves. Each request
calls the API once.

### `DataTable`
`page`, `loads`, `inflight`, `body`, `pager` are the closure's variables and what is on the screen;
`filter` the inputs, read anew by every load; `records` how many rows the server has under each
filter. `Load` is `load()`; `Done` renders an answer and then the pager, which may move the page
back and does not load again; `Fail` leaves the pager alone. `ReadRows` and `CountRecords` are the
two statements of the search. A row is no more than the page it belongs to. `undisturbed` marks
a load with which nothing interfered: no other was under way or began, and the filter was the
pager's or the page the first.

### `PhoneInput`, `SignUpForm`, `DriversPage`
A number is the sequence of its digits. `CodeLength`, `FormatNational`, `PhoneValue`, `CodeFor` and
`NationalFor` are `splitPhone`, `formatNational`, `phoneValue` and `setPhone` without the spaces;
the listeners are `CodeInput` and `NationalInput`. `SignUpForm` adds the hidden input (`Sync`), the
POST, and a refused form that is hydrated from it.

| `DriversPage` | code |
|---|---|
| `accounts` | the drivers in `AppUser`: phone and `IsActive` |
| `rows`, `showInactive` | the table of the page and its `?showInactive=` |
| `dialog`, `cc`, `nat` | the dialog: open or not, whom it edits, the Save button, the temporary password; the phone box |
| `saves`, `switches`, `sent` | the POSTs of the dialog and of the buttons "activate" and "deactivate", from the click to the end of the callback; how many |
| `crossed`, `stale` | history: the dialog was opened during a save; the drivers that changed since the page was rendered without an answer the page will hear |

The page's actions are `OpenModal`, `CloseModal`, `TypePhone`, `Save`, `SetActive` and `Visit` (a reload,
or the link that shows or hides the inactive drivers). On the server a save is two statements,
`CheckPhone` and then `InsertDriver` or `UpdateDriver`, and may be refused at either (`Refuse`); a switch
is `SetDriverActive`; `OtherAdmin` is a write by somebody else at any moment. The callbacks are
`CreateDone`, `EditDone`, `SwitchDone`, `SaveFailed`, `SwitchFailed`, and `LoseSave` and `LoseSwitch` for
answers that never come, their statements executed or not. `Reload` renders what
`usp_AppUser_ListDrivers` selects (`Listing`), hides the drivers that are switched off unless
`showInactive` is set, and makes nobody hear the calls that are still executed. A row has an edit button
only while its driver is active. A driver is known by the phone; names are left out.

### `ThemeToggle`, `BarChart`
`attr` and `label` are `data-theme` and the button of the page in each tab, `stored` the value in
`localStorage` that the tabs share (if `storage` works), `system` the preference. In `BarChart`, lengths
are integers, multiplied by what the code divides by; `ElementAt` is the topmost of a day's
rectangle and its two bars (external: that is how SVG picks the target of an event), `Under` adds
the number above a bar, which takes the mouse and has no listener. `EnterFrom`, `LeaveTo` and
`MoveWithin` are the listeners in the order the browser calls them. The query goes back seven days
from today, so the "7-day" chart may show eight days, or nine with a proof captured five minutes
ahead of midnight (`MaxDays`).

## 6. What the runs check

| run | bounds | shows |
|---|---|---|
| `store_race` | one delivery, two proof calls, one desk call, two pickups, two delivery proofs that disagree and a malformed one | `TypeOK`, `OneProofPerType`, `StatusMatchesProofs`, `ReadsStayTrue`, `ConfirmationsAreTrue`, and that `ProofStore` implements `ProofLifecycle` |
| `store_tenants` | two companies with a driver and admins each, an order of one of them, two desk calls with any delivery and driver, rules changed at will | `TenantIsolation`, `CaptureRulesEnforced`, and the refinement again, now with two desk calls opening one order reference |
| `store_reassign` | one proof call, one desk call, two drivers | **violated**: "Only pending deliveries can be reassigned." |
| `store_resend` | two copies of one request | **violated**: "re-sending is safe" |
| `queue_safe` | a two-photo pickup and a handover, 2 attempts, a crash, one late request, all faults | `TypeOK`, `DeletedOnlyWhenStored`, `NothingLostUnsent`, `FailedWhenExhausted`, `NeverTooEarly`, `PickupLeavesFirst`; that `ProofQueue` implements `ProofOutbox` (`ImplementsOutbox`), and `ApiFollowsLifecycle` |
| `queue_live` | a pickup and a handover, 2 attempts, all faults, under `FairSpec` | `QueuedSettlesOrWaits` |
| `queue_photos` | one proof with two photos, no fault at all | **violated**: a delivered proof has all its photos |
| `queue_held` | two pickups and a handover, no fault, "send now" pressed for ever (`PatientSpec`) | **violated**: every queued proof arrives or is shown as failed |
| `session_safe` | two requests, two API calls, three pairs of tokens, a kill, deactivation | `TypeOK`, `SessionSurvives`, `DeactivatedGetsNothing`, `SessionEndsForCause` |
| `session_live` | two requests, one API call, two pairs, losses, under `FairSpec` | `LockIsReleased` |
| `session_temp` | two requests, no fault | **violated**: the must-change flag stays until the password is changed |
| `panel` | table: three loads, two filters, pages of two; drivers: two drivers, two calls, another admin; form: six dial codes, four numbers; theme: two tabs; chart: four weeks, eighteen positions of the mouse; session: two requests, three pairs | `PanelTypeOK`; `PageInRange`, `IndicatorIsPage`, `UndisturbedLoadIsRight`, and `LoadingEnds` under `PanelSpec`; `SaveNeverStuck`, `OneSaveAtATime`, `ListShowsStored`, `PhonesStayUnique`, `UntouchedPhoneKept`; `RefusalKeepsNumber`; `ChoiceIsKept`, `ButtonOffersOther`; `BarsTellCounts`, `TipNamesDay`; `SessionAlive` |

Why these bounds are enough to be interesting. Deliveries do not interact, so one is checked (the
theorems hold for any number). Two proof calls give every overtaking of one call by
another; a third would only repeat it. Two attempts instead of the code's five
(`MAX_ATTEMPTS`) are the least with a retry, an exhaustion and a re-arm. One crash and one late
request may fall at every point of the two proofs. Two requests are the least that meet at the
lock, and three pairs of tokens a sign-in and two rotations. The rules an admin may choose
(`SettingsMenu`) are all that can be told apart by the proofs of the instance. Requests and API
calls of `Session` are symmetric and reduced by `SYMMETRY` in the safety run only.

The parts of the panel share a browser and no state. `MCPanel` checks them side by side in one run of
about 800,000 states and does not compose them: `part` says which part a behaviour is about, and the
variables of the others rest. *Table* (about 130,000 states): three loads (`MaxLoads`), enough for one
to overtake another while a third begins; pages of two, at most three records under a filter that only
grows and one under a filter that shrinks, so that there are two pages, half a page and none. *Drivers*
(about 240,000): two accounts and two calls, saves or switches, for a dialog that is opened for another
driver while the first answer is missing and for two saves of one phone that both pass the check. Two
bounds keep it small: one national number is typed, under the dial code the box has (`SmallTyping`;
numbers collide all the same, and differ where another admin gave a foreign one), and behind the page one
driver changes between two reloads (`OneStale`). *Form*: dial codes that are known, unknown, empty and
none; numbers with leading zeros and with one digit too many; posted and refused any number of times.
*Theme*: two tabs, with and without storage. *Chart*: weeks of none, one, two and eight days, with
counts from 0 to 300, the mouse inside, between and beside the groups. *Session* (about 420,000): two
requests and three pairs, a sign-in and two rotations, which may be of one pair.

What some properties leave out, because the code does not promise it. `NeverTooEarly` holds by the guard
of the capture page alone; it is `PickupLeavesFirst` that needs the hold of `ProcessAsync`.
`DeactivatedGetsNothing` asks for an account that is inactive during the whole call: a switch-off between
two statements still yields tokens. `SessionSurvives` and `SessionEndsForCause` leave out a rotation that
was cut off (`cut`). `PageInRange` bounds page and indicator and does not say that a button leads
somewhere: after "Next" and a failed load of the second of two pages neither button does
(`site.js:216`, `site.js:226`), and after records left a filter "Previous" may lead to an empty page.
`UndisturbedLoadIsRight` is about loads that overlap with nothing under filters that only grow.
`OneSaveAtATime` ends where the dialog is opened again during a save, which enables the button.
`ListShowsStored` excuses exactly the drivers in `stale`.

### Fairness
`ProofQueue!FairSpec`: the drain's own steps are taken (its HTTP calls time out after 30 seconds or
2 minutes, the rest is local), the `PeriodicTimer` loop of `ProofSyncService` ticks for ever, so a
drain that is possible again and again starts (`SF`), backoffs elapse, and the network comes back.
The driver owes nothing. `PatientSpec` adds a driver who presses "send now" whenever something
has failed, only to show that even that does not help in `queue_held`. `Session!FairSpec`: the API
executes what it has begun and awaited calls return or time out; drivers, admins, kills and the
order in which the lock is granted owe nothing. `MCPanel!PanelSpec`: the browser ends every call of
the table that it has begun, by an answer or an error (`WF` for each number of a load); who clicks
owes nothing.

### Findings
1. **A picked-up delivery can be reassigned** (`store_reassign`, `022_tenant.sql:260`):
   `usp_Delivery_Assign` checks the status and updates in two statements.
2. **A proof sent twice may be answered 409** (`store_resend`, `025_company_settings.sql:70`): the
   second copy passes the idempotency read before the first commits, and then fails the checks;
   the queue takes a 409 as final and shows a stored proof as failed.
3. **Photos may be lost** (`queue_photos`, `ProofQueue.cs:33`): the row is due before its photos are
   written; a drain in between sends what it found and then deletes the directory.
4. **A delivery proof may wait for ever** (`queue_held`, `LocalDatabase.cs:93`): a failed pickup row
   holds it, and a row refused with 409 never goes away.
5. **A temporary password is forgotten** (`session_temp`, `AuthAppService.cs:87`): every refresh
   answers `mustChangePassword: false`.


## 7. What is proved

Everything here is proved from the assumption each module states about its constants (their types,
and that the values standing for "none" are no others), so for any number of companies, drivers,
deliveries, proofs and concurrent calls, and any bound on attempts, crashes and late requests.

The table, the drivers page, the form, the theme and the chart are proved in the same way for any
page size, number of loads, saves, tabs and texts typed, and for any week of at most nine days.

### The store (`ProofStore_proofs`)

| theorem | says |
|---|---|
| `TypeCorrect` | `Spec => []TypeOK` |
| `OneRecordExactly` | `Spec => []OneProofPerType` |
| `StatusIsEarned` | `Spec => []StatusMatchesProofs` |
| `StaleReadsHold` | `Spec => []ReadsStayTrue` |
| `ConfirmedIsStored` | `Spec => ConfirmationsAreTrue` |
| `Refinement` | `Spec => ImplementsLifecycle` |
| `TenantsStayApart` | `Spec => []TenantIsolation` |
| `RulesAreEnforced` | `Spec => CaptureRulesEnforced` |
| `ReSendingAloneIsSafe` | `Spec /\ []SentOneAtATime => ReSendingIsSafe` |
| `ReassignedAlone` | `Spec /\ []AssignedAlone => OnlyPendingReassigned` |

The argument. None of the properties is inductive by itself, because the procedure acts on
what it read several statements ago. The invariant is

    IInv == TypeOK /\ SentWellFormed /\ OneProofPerType /\ StatusMatchesProofs /\ ReadsStayTrue

`SentWellFormed` carries what the validator established to the `INSERT`. `ReadsStayTrue` says
what survives of a stale read: a delivery once seen exists, and a kept status `PickedUp` still
stands on a successful pickup proof, because proofs are never deleted (`TablesGrow`). What a
stale read does *not* guarantee, that no other proof of the type was stored meanwhile, the
unique key does. `StoredInTime` puts the two together: when the `INSERT` goes through, the status
is in fact still the one the checks wanted, although nobody looked again. For a pickup: a status
past `Pending` would need a pickup proof (`StatusMatchesProofs`), which would violate the key.
For a delivery proof: the pickup succeeded and there is no other delivery proof, so the status
is `PickedUp`. From there each part is a lemma `StepKeeps...`, with one step per kind of table
change (`TableSteps`: no change, an order opened, a proof stored), `Inductive` collects them, and
the refinement is one case each.

`TenantsStayApart` and `RulesAreEnforced` are about a check and a write that are statements apart. The desk
may be called by an admin of any company with any delivery and driver, and what is written joins a delivery
and a driver that were each compared with a third, the caller. `TenantInv` carries the two comparisons to
the write: `CallsInTenant` (a proof call past its read of the delivery is of the delivery's tenant) and
`OrdersInTenant` (an order past `FindDelivery` is for a delivery of the caller's company, one past
`FindDriver` for a driver of it). They survive because neither a driver's nor a delivery's company ever
changes. For the rules, `RulesFollowed` says that whatever the company does not require now is counted as
waived for every running call, and that a call at its `INSERT` lacks only what was waived; the admin's
update can only add to `waived`.

`ReSendingAloneIsSafe` is the other side of finding 2. Under the hypothesis that no two executions of
one request overlap (`SentOneAtATime`), a call past its idempotency read executes a request that is
still not stored (`Unrecorded`), because a proof enters the table only by the `INSERT` of a call
that executes it (`StoringCall`). So the second copy of a stored proof is always at that read, and is
answered as a duplicate: the overlap that `store_resend` shows is the only thing that breaks the
promise. `ReassignedAlone` does the same for finding 1: when no proof of a delivery is at its `INSERT`
while an assignment of it is at its `UPDATE` (`AssignedAlone`), what the assignment has checked still
holds when it writes (`PendingAtWrite`), other assignments of the same order included.

### The queue (`ProofQueue_proofs`)

| theorem | says |
|---|---|
| `TypeCorrect` | `Spec => []TypeOK` |
| `DeletionIsEarned` | `Spec => []DeletedOnlyWhenStored` |
| `SavedIsKept` | `Spec => []NothingLostUnsent` |
| `FailureIsExhaustion` | `Spec => []FailedWhenExhausted` |
| `PickupGoesFirst` | `Spec => []NeverTooEarly` |
| `PickupIsGone` | `Spec => []PickupLeavesFirst` |
| `Refinement` | `Spec => ImplementsOutbox` |
| `LifecycleIsFollowed` | `Spec => ApiFollowsLifecycle` |
| `SavedFirstArrivesWhole` | `Spec /\ []SavedBeforeSent => []AllPhotosArrive` |

One invariant serves them all, with some more parts for the last three:

    IInv == TypeOK /\ Working /\ NewUntried /\ FailedWhenExhausted /\ ConfirmedStored
            /\ DeletedOnlyWhenStored /\ SavedSoFar /\ NothingLostUnsent /\ KnownPickups

- `Working`: what the drain has still to do is queued and the row it is at is marked. Nobody else
  changes such a row: capture inserts new ones and "send now" takes only failed ones. With it the
  attempts of the current row are below the limit (`CurrentHasAttempts`).
- `ConfirmedStored`: past a confirmation the API has the proof; a crash forgets the stage and
  with it the obligation. Files and rows are only removed in those stages, which is `UnsentIsKept`:
  what the phone has of a proof that the API lacks never shrinks.
- `SavedSoFar`: `NothingLostUnsent` seen from inside `EnqueueAsync`'s loop, photo by photo. A drain
  may send and clean the row while the loop still runs (that is finding 3); the API then has the
  proof, and the property says no more than that.
- `KnownPickups`: `NeverTooEarly` does not follow from the hold in `ProcessAsync`, which looks only
  at the phone, but from the page: a delivery proof can be captured only where the page, or the
  cache behind it, shows `PickedUp`; that status once came from the server; and the server's
  proofs are never removed (`RecordedGrows`). So its age does not matter.

`IInv` was first checked by TLC on the instance of `queue_safe`.

`PickupIsGone` is what the hold itself gives. The drain turns to a delivery proof only after it found no
pickup of the delivery on the phone (`CurrentIsChecked`); those captured before it all have a row or had
one (`EarlierRows`), so they are deleted by then, and a deleted row never comes back (`RowsStay`). A
pickup captured after the check may be on the phone, which is why the property asks for the earlier ones.

For `Refinement`, `CapturedFirst` adds that a proof the API has, or that a late request may still
bring to it, was captured. The rest is one case per action: `Working` makes every failure and every
removal one of a waiting proof, `ConfirmedStored` makes every removal one of a stored proof,
`FailedWhenExhausted` gives the tries, and a request that arrives twice is a stutter because `Accepts`
refuses what is stored.

`LifecycleIsFollowed` needs `OneOfEach`: no two stored proofs of one delivery have one type, and a
delivery proof is never stored without a pickup. Then the
status of a delivery is the result of its delivery proof, else of its pickup proof, else `Pending`
(`ServerIs`), so the condition of `Accepts` is the lifecycle's condition on the status, and the new
proof's result is the new status (`StatusIsLast`).

`SavedFirstArrivesWhole` is the other side of finding 3. Under the hypothesis that the drain is never at
the proof that `EnqueueAsync` is saving (`SavedBeforeSent`), nothing of it is sent before its last photo
has a row (`NotSentYet`), and whatever is read, sent, late or stored of a saved proof is whole
(`SentWhole`); a drain that is repeated after the rows of the photos are gone sends fewer, but the
API has the proof by then and changes nothing. So the overlap that `queue_photos` shows is the only
way to lose a photo.

The hypotheses of this theorem and of the two conditional ones about the store are not promises of the
code: the violated runs leave them, and these theorems say that no other run breaks the property. Each
was checked by TLC, as a constraint, together with the invariant it is used for.

### The session (`Session_proofs`)

| theorem | says |
|---|---|
| `TypeCorrect` | `Spec => []TypeOK` |
| `ConcurrencyKeepsSession` | `Spec => []SessionSurvives` |
| `OnlyActiveGetTokens` | `Spec => DeactivatedGetsNothing` |
| `SessionsEndForCause` | `Spec => SessionEndsForCause` |

`SessionSurvives` looks only at moments when the lock is free; the invariant has to say what
happens while it is taken, to tokens that are in nobody's store yet:

- `StoredLive`: the stored token is alive, or the holder of the lock will replace it
  (it is calling, or saving and not past the refresh token).
- `RotationHeld`: unless a rotation was cut off, whatever the API validates or revokes, it does for
  the holder of the lock. With `Awaited` (a call's caller waits for it, and for it alone) the holder
  is then still calling, so a revoked token is always one that will be replaced.
- `PairsUnseen`: a pair on its way from the API to the store, of a refresh or of a sign-in outside the
  lock, is alive, is not stored, is presented by nobody, and is on one way only. That is what makes it
  safe for a sign-in and a refresh to write to the store in any order: each stores a live token.
- `LockIsForRefresh`: a sign-in never holds the lock, so `ReleasedBy` never gives away another's.
- `Vouched`: the account check of login and refresh happens before the statements that act on it.

`SessionsEndForCause` follows a token from the store to the API's refusal and back. `PresentedLive`:
unless a rotation was cut off, a token that is presented, or was refused to a refresh, works. It is
stable because only a refresh revokes tokens, and whoever refreshes holds the lock (`RefreshersHold`),
so no second request can have presented the same token; `SignInsLogIn` keeps a refused password
from passing for a refused token.

Each part was checked by TLC on the instance of `session_safe` and on one with lost answers first.

### The panel's session (`WebSession_proofs`)

| theorem | says |
|---|---|
| `WebTypes` | `WebSpec => []WebTypeOK` |
| `SessionStaysAlive` | `WebSpec => []SessionAlive` |

`SessionAlive` speaks of the cookie when its token is revoked; the invariant `SessionInv` has to say
what the requests carry: as long as no rotation was cut off, a request that will bring a new pair
*owns* it (`Owns`: the pair is alive, is not in the cookie and is in no other request). A pair in
the cookie can only be revoked by the one request that validated it and won, so either a request is
at `issue` or one brings a pair of its own (`Alive`), whoever lost the race.

### The table (`DataTable_proofs`)

| theorem | says |
|---|---|
| `TableTypes` | `TableSpec => []TableTypeOK` |
| `PagerIsRight` | `TableSpec => []PageInRange` |
| `IndicatorIsRight` | `TableSpec => []IndicatorIsPage` |
| `UndisturbedIsRight` | `TableSpec => []UndisturbedLoadIsRight` |

`PageInRange` and `IndicatorIsPage` are inductive together (`PagerHolds`): "Next" is guarded by the pager of
the last answer and by the page, so no load goes beyond it. `UndisturbedLoadIsRight` needs `LoadInv`: a page
the pager offers has rows and will keep them, under a filter whose records only grow (`Reaches`); an
undisturbed call is the only one in flight, is for the current page, and either found rows or is for the
first page (`Alone`); the total it read after its rows cannot exclude its page (`Counted`).

### The drivers page (`DriversPage_proofs`)

| theorem | says |
|---|---|
| `DriversTypes` | `DriversSpec => []DriversTypeOK` |
| `SaveComesBack` | `DriversSpec => []SaveNeverStuck` |
| `OneSave` | `DriversSpec => []OneSaveAtATime` |
| `UntouchedPhone` | `DriversSpec => []UntouchedPhoneKept` |
| `PhonesAreUnique` | `DriversSpec => []PhonesStayUnique` |
| `ListStaysRight` | `DriversSpec => []ListShowsStored` |

`SaveComesBack` needs that an answer names a driver (`DoneNamed`), `OneSave` that the button is
disabled while its answer is missing (`OneHeard`). `PhonesAreUnique` is proved with what keeps accounts
apart from free numbers (`Existing`, `Reported`): every account has a phone, and every row, switch and
answered save an account. `ListStaysRight` adds two facts about answers. That the answer to a creation
writes the right row is the harder half: nobody can edit or switch a driver from this page whose
creation is not yet in its list, because both start from a row (`EditedIsListed`), so the new account is
still as it was created unless it is in `stale`, and only one answer speaks of it (`CreatedIsNew`).
`UntouchedPhone` follows `KnownNumberSurvives` from the dialog (`BoxKept`) to each save (`SaveKept`).

### Phone box, form, theme, chart (`PanelScripts_proofs`)

| theorem | says |
|---|---|
| `FormTypes` | `FormSpec => []FormTypeOK` |
| `RefusedNumberIsKept` | `FormSpec => RefusalKeepsNumber` |
| `ThemeTypes` | `ThemeSpec => []ThemeTypeOK` |
| `ChoiceStays` | `ThemeSpec => []ChoiceIsKept` |
| `ButtonStaysRight` | `ThemeSpec => []ButtonOffersOther` |
| `ChartTypes` | `ChartSpec => []ChartTypeOK` |
| `TipIsRight` | `ChartSpec => []TipNamesDay` |
| `BarsTellEverywhere` | `ChartSpec => []BarsTellCounts` |

The lemma behind the form and the drivers page is `KnownNumberSurvives`: for every sequence of
digits that begins with a dial code of `KNOWN_CC` and goes on with at most ten digits, the first not
a zero, `setPhone` and then `phoneValue` give the number back. No known code is the beginning of
another (`CodesArePrefixFree`), so the code found is the code meant; `LeadingZeros` counts none, so
nothing is dropped. `ChoiceIsStored` strengthens `ChoiceIsKept` to the attribute and the stored value,
which the system's preference does not move. For the chart, `CoveredDay` is the arithmetic: the
rectangles of the days do not overlap for up to nine days (nor up to fifteen), so the topmost element
exists (`TopmostIs`) and is of the right day; `TipFollows` keeps the tooltip with it. The largest
count of a week exists because counts are bounded (`LargestOfBounded`).

### Only model-checked
Liveness: `QueuedSettlesOrWaits`, `LockIsReleased`, `LoadingEnds` (the prover has no fairness or
`ENABLED` reasoning). Every other property of a passing run has a theorem. The violated properties are
shown violated by TLC's traces.


## 8. What is not modelled, and why

- *Panel session*: a request that calls the API several times (it would rotate at most as often as
  several requests do), and a sign-in while signed in.
- *Accounts*: `usp_Company_SignUp` writes company, admin and settings in one transaction behind the
  same unique phone; lists of users are reads. `PhoneNumber.Normalize` is reduced to what it
  accepts (`ValidPhone`): the panel always sends it a `+` and digits, so that its handling of local
  prefixes is not reached. (Its comment at `PhoneNumber.cs:9` speaks of a single leading zero, and
  the code drops all of them; nothing here depends on it.)
- *A dial code outside `KNOWN_CC`*: modelled, and excluded from the properties. `splitPhone` then takes
  three digits as the code, and leading zeros of the rest are lost: `+36201234567` becomes `+362`
  and `01234567`, and an untouched save stores `+3621234567`.
- *The dialog that opens a delivery* (`n-save` in `Views/Deliveries/Index.cshtml`): its button stays
  enabled, and the unique order reference catches the second request (`ImplementsLifecycle`).
- *Exports, PDF documents, sorting*: reads and formatting of stored rows. Of the chart, the grid, the
  axis and the labels; of `site.js`, escaping and the caret of the phone box. Libraries under
  `wwwroot/lib` are vendored.
- *Object storage*: presign and PUT are one step of the drain that may fail or be refused.
- *Web controllers and client*: forward forms to the API; what they interleave are the desk calls
  and the saves of the drivers page.
- *Queue and store in one module*: the queue runs against the sequential meaning of the procedure,
  with a history variable for a late copy that overlaps a retry; the overlap itself is in
  `ProofStore`. What ties the two is `ProofLifecycle`: the store implements it, and the queue's API
  takes only steps of it. Two drains and the statements of two calls together are beyond what TLC explores in
  minutes.
- *The delays of `OfflineQueueRetryPolicy`*: "not due yet"; no property depends on their length.
- *Migrator, device input, drawing, maps*: no protocol, no lasting state of their own.


## 9. Plan

Everything planned is done, in this order: the store with its abstract specification, the queue, the
mobile session, the panel's session, the panel's scripts and the drivers page, each with its
inductive invariants and proofs; then the outbox and the link between queue and store. What section 8
names is left out for the reasons it gives.
