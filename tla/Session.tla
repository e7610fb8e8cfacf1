------------------------------- MODULE Session -------------------------------
(***************************************************************************)
(* The session of one driver on one phone: AuthHandler and TokenStore, the *)
(* sign-in and change-password pages, and AuthAppService with the refresh- *)
(* token procedures behind them.                                           *)
(*                                                                         *)
(* Requests of the app (the sync loop's, the pages') run concurrently; the *)
(* ones answered 401 meet at _refreshLock.  The API executes a refresh as  *)
(* three statements, and goes on when its client has given up.  An access  *)
(* and a refresh token issued together bear the same number; the TokenStore*)
(* writes them one after the other, so a kill may come in between.         *)
(***************************************************************************)
EXTENDS Integers, FiniteSets

CONSTANTS
  Requests,   \* slots for what the app does concurrently
  ApiCalls,   \* slots for the executions of /auth/login and /auth/refresh
  Faults,     \* what may go wrong: "loss", "deactivation"
  MaxTokens,  \* a bound: how many pairs are issued
  MaxKills,   \* a bound: how often the app is killed
  NoOne       \* no request: the free lock, the client that gave up

ASSUME ConstantsAssumption ==
  /\ Faults \subseteq {"loss", "deactivation"}
  /\ MaxTokens \in Nat
  /\ MaxKills \in Nat
  /\ NoOne \notin Requests

VARIABLES
  active,      \* AppUser.IsActive
  mustChange,  \* AppUser.MustChangePassword
  issued,      \* how many pairs of tokens have been issued
  live,        \* RefreshToken rows that are neither revoked nor expired
  fresh,       \* access tokens that have not expired
  call,        \* the executions of the API
  req,         \* what the app is doing
  lock,        \* the holder of _refreshLock
  store,       \* TokenStore: the pair and the must-change flag; 0 is no token
  page,        \* the page the driver is on
  kills,
  cut          \* history: a rotation was cut off between the API and the store

serverVars == <<active, mustChange, issued, live, fresh>>
clientVars == <<req, lock, store, page>>
vars == <<serverVars, call, clientVars, kills, cut>>

-----------------------------------------------------------------------------
Tokens == 1..MaxTokens
TokenOrNone == 0..MaxTokens

Free == [at |-> "free", client |-> NoOne, token |-> 0, flag |-> FALSE, vouched |-> FALSE]
Idle == [step |-> "idle", kind |-> "read", token |-> 0, flag |-> FALSE]
SignedOut == [access |-> 0, refresh |-> 0, mustChange |-> FALSE]

Saving == {"saveAccess", "saveRefresh", "saveFlag"}

\* What an API call is at; "vouched" is history: the account was active during the call.
Executions ==
  [at      : {"free", "readUser", "validate", "revoke", "issue", "granted", "refused"},
   client  : Requests \cup {NoOne},
   token   : TokenOrNone,
   flag    : BOOLEAN,
   vouched : BOOLEAN]

\* What a request of the app is at.
Activities ==
  [step  : {"idle", "sent", "waiting", "calling", "retried", "changed"} \cup Saving,
   kind  : {"read", "change", "login"},
   token : TokenOrNone,
   flag  : BOOLEAN]

Stores == [access : TokenOrNone, refresh : TokenOrNone, mustChange : BOOLEAN]

TypeOK ==
  /\ active \in BOOLEAN
  /\ mustChange \in BOOLEAN
  /\ issued \in TokenOrNone
  /\ live \subseteq 1..issued
  /\ fresh \subseteq 1..issued
  /\ call \in [ApiCalls -> Executions]
  /\ req \in [Requests -> Activities]
  /\ lock \in Requests \cup {NoOne}
  /\ lock # NoOne => req[lock].step \in {"calling"} \cup Saving
  /\ store \in Stores
  /\ page \in {"login", "changePassword", "deliveries"}
  /\ kills \in 0..MaxKills
  /\ cut \in BOOLEAN

\* A driver created by the admin (temporary password), who has not signed in.
Init ==
  /\ active = TRUE
  /\ mustChange = TRUE
  /\ issued = 0
  /\ live = {}
  /\ fresh = {}
  /\ call = [a \in ApiCalls |-> Free]
  /\ req = [r \in Requests |-> Idle]
  /\ lock = NoOne
  /\ store = SignedOut
  /\ page = "login"
  /\ kills = 0
  /\ cut = FALSE

-----------------------------------------------------------------------------
(* The API: AuthAppService.LoginAsync and RefreshAsync.                     *)

\* An answer to a client that has given up reaches nobody.
Finish(a, outcome) ==
  IF call[a].client = NoOne THEN Free ELSE [call[a] EXCEPT !.at = outcome]

\* LoginAsync: the account is read; the password is right.
ReadUser(a) ==
  /\ call[a].at = "readUser"
  /\ call' = [call EXCEPT ![a] = IF active THEN [@ EXCEPT !.at = "issue", !.flag = mustChange]
                                           ELSE Finish(a, "refused")]
  /\ UNCHANGED <<serverVars, clientVars, kills, cut>>

\* Mutant: the account's state is not asked for.
ValidateAnyone(a) ==
  /\ call[a].at = "validate"
  /\ call' = [call EXCEPT ![a] = IF @.token \in live THEN [@ EXCEPT !.at = "revoke"]
                                                     ELSE Finish(a, "refused")]
  /\ UNCHANGED <<serverVars, clientVars, kills, cut>>

\* usp_Auth_ValidateRefreshToken.
Validate(a) ==
  /\ call[a].at = "validate"
  /\ call' = [call EXCEPT ![a] = IF @.token \in live /\ active THEN [@ EXCEPT !.at = "revoke"]
                                                               ELSE Finish(a, "refused")]
  /\ UNCHANGED <<serverVars, clientVars, kills, cut>>

\* usp_Auth_RevokeRefreshToken; the new pair will say that no password need be changed.
Revoke(a) ==
  /\ call[a].at = "revoke"
  /\ live' = live \ {call[a].token}
  /\ call' = [call EXCEPT ![a] = [@ EXCEPT !.at = "issue", !.flag = FALSE]]
  /\ UNCHANGED <<active, mustChange, issued, fresh, clientVars, kills, cut>>

\* IssueTokensAsync: usp_Auth_StoreRefreshToken and the response.
Issue(a) ==
  /\ call[a].at = "issue"
  /\ issued < MaxTokens
  /\ issued' = issued + 1
  /\ live' = live \cup {issued + 1}
  /\ fresh' = fresh \cup {issued + 1}
  /\ call' = [call EXCEPT ![a] =
                IF @.client = NoOne THEN Free ELSE [@ EXCEPT !.at = "granted", !.token = issued + 1]]
  /\ UNCHANGED <<active, mustChange, clientVars, kills, cut>>

\* The app calls the API: a login, or a refresh presenting the token.
Begin(a, r, at, token) ==
  /\ call[a] = Free
  /\ call' = [call EXCEPT ![a] =
                [at |-> at, client |-> r, token |-> token, flag |-> FALSE, vouched |-> active]]

\* The call works for nobody from now on.
Orphaned(c) ==
  IF c.at \in {"free", "granted", "refused"} THEN Free ELSE [c EXCEPT !.client = NoOne]

-----------------------------------------------------------------------------
(* AuthHandler.SendAsync and TryRefreshAsync.                               *)

GoesTo(r, step) == req' = [req EXCEPT ![r] = [@ EXCEPT !.step = step]]
Ends(r) == req' = [req EXCEPT ![r] = Idle]
Busy(kind) == \E r \in Requests : req[r].step # "idle" /\ req[r].kind = kind

\* A request is sent with the stored access token, or with none.
Start(r, kind) ==
  /\ req[r] = Idle
  /\ kind = "change" => page = "changePassword" /\ ~Busy("change")
  /\ req' = [req EXCEPT ![r] = [step |-> "sent", kind |-> kind, token |-> store.access,
                                flag |-> FALSE]]
  /\ UNCHANGED <<serverVars, call, lock, store, page, kills, cut>>

\* The answer of the API: the password change is done, or refused because the current
\* password was mistyped; a 401 goes on to the lock, or ends the retry.
Answered(r) ==
  /\ req[r].step \in {"sent", "retried"}
  /\ \/ /\ req[r].token \notin fresh
        /\ IF req[r].step = "sent" THEN GoesTo(r, "waiting") ELSE Ends(r)
        /\ UNCHANGED mustChange
     \/ /\ req[r].token \in fresh
        /\ Ends(r)
        /\ UNCHANGED mustChange
     \/ /\ req[r].token \in fresh
        /\ req[r].kind = "change"
        /\ mustChange' = FALSE
        /\ GoesTo(r, "changed")
  /\ UNCHANGED <<active, issued, live, fresh, call, lock, store, page, kills, cut>>

\* No answer, or a 401 or 5xx to the retry: an exception, or an error page for the driver.
NotAnswered(r) ==
  /\ "loss" \in Faults
  /\ req[r].step \in {"sent", "retried", "waiting"}
  /\ Ends(r)
  /\ \/ UNCHANGED mustChange
     \/ /\ req[r].kind = "change"
        /\ req[r].token \in fresh
        /\ req[r].step # "waiting"
        /\ mustChange' = FALSE
  /\ UNCHANGED <<active, issued, live, fresh, call, lock, store, page, kills, cut>>

\* Mutant: the token that failed is presented, not the one stored now.
AcquireStale(r) ==
  /\ req[r].step = "waiting"
  /\ lock = NoOne
  /\ req[r].token # 0
  /\ lock' = r
  /\ GoesTo(r, "calling")
  /\ \E a \in ApiCalls : Begin(a, r, "validate", req[r].token)
  /\ UNCHANGED <<serverVars, store, page, kills, cut>>

\* The lock is taken and the stored refresh token presented.
Acquire(r) ==
  /\ req[r].step = "waiting"
  /\ lock = NoOne
  /\ store.refresh # 0
  /\ lock' = r
  /\ GoesTo(r, "calling")
  /\ \E a \in ApiCalls : Begin(a, r, "validate", store.refresh)
  /\ UNCHANGED <<serverVars, store, page, kills, cut>>

\* There is nothing to present any more: SessionExpired, the sign-in page.
NothingToPresent(r) ==
  /\ req[r].step = "waiting"
  /\ lock = NoOne
  /\ store.refresh = 0
  /\ page' = "login"
  /\ Ends(r)
  /\ UNCHANGED <<serverVars, call, lock, store, kills, cut>>

\* The pair arrives, of a refresh or of a login.
HearGranted(r) ==
  /\ req[r].step = "calling"
  /\ \E a \in ApiCalls :
       /\ call[a].client = r
       /\ call[a].at = "granted"
       /\ call' = [call EXCEPT ![a] = Free]
       /\ req' = [req EXCEPT ![r] = [@ EXCEPT !.step = "saveAccess", !.token = call[a].token,
                                              !.flag = call[a].flag]]
  /\ UNCHANGED <<serverVars, lock, store, page, kills, cut>>

\* Mutant: the early return does not release the lock.
HearRefusedInside(r) ==
  /\ req[r].step = "calling"
  /\ \E a \in ApiCalls :
       /\ call[a].client = r
       /\ call[a].at = "refused"
       /\ call' = [call EXCEPT ![a] = Free]
  /\ IF req[r].kind = "login"
     THEN UNCHANGED store
     ELSE store' = SignedOut
  /\ page' = "login"
  /\ Ends(r)
  /\ UNCHANGED <<serverVars, lock, kills, cut>>

\* Only a request that refreshes holds the lock.
ReleasedBy(r) == IF lock = r THEN NoOne ELSE lock

\* A 401: a refresh clears the session and raises SessionExpired.
HearRefused(r) ==
  /\ req[r].step = "calling"
  /\ \E a \in ApiCalls :
       /\ call[a].client = r
       /\ call[a].at = "refused"
       /\ call' = [call EXCEPT ![a] = Free]
  /\ IF req[r].kind = "login"
     THEN UNCHANGED store
     ELSE store' = SignedOut
  /\ page' = "login"
  /\ lock' = ReleasedBy(r)
  /\ Ends(r)
  /\ UNCHANGED <<serverVars, kills, cut>>

\* No answer, or a 5xx, which clears the session as well; the API may go on or not.
GiveUp(r) ==
  /\ "loss" \in Faults
  /\ req[r].step = "calling"
  /\ \E a \in ApiCalls :
       /\ call[a].client = r
       /\ call' \in {[call EXCEPT ![a] = Orphaned(@)], [call EXCEPT ![a] = Free]}
  /\ \/ UNCHANGED store
     \/ /\ req[r].kind # "login"
        /\ store' = SignedOut
  /\ page' = "login"
  /\ lock' = ReleasedBy(r)
  /\ cut' = (cut \/ req[r].kind # "login")
  /\ Ends(r)
  /\ UNCHANGED <<serverVars, kills>>

-----------------------------------------------------------------------------
(* TokenStore.SaveAsync, one key after the other.                           *)

SaveAccess(r) ==
  /\ req[r].step = "saveAccess"
  /\ store' = [store EXCEPT !.access = req[r].token]
  /\ GoesTo(r, "saveRefresh")
  /\ UNCHANGED <<serverVars, call, lock, page, kills, cut>>

SaveRefresh(r) ==
  /\ req[r].step = "saveRefresh"
  /\ store' = [store EXCEPT !.refresh = req[r].token]
  /\ GoesTo(r, "saveFlag")
  /\ UNCHANGED <<serverVars, call, lock, page, kills, cut>>

\* The last key; then a login leaves its page, and a refresh repeats its request.
SaveFlag(r) ==
  /\ req[r].step = "saveFlag"
  /\ store' = [store EXCEPT !.mustChange = req[r].flag]
  /\ lock' = ReleasedBy(r)
  /\ IF req[r].kind = "login"
     THEN /\ page' = IF req[r].flag THEN "changePassword" ELSE "deliveries"
          /\ Ends(r)
     ELSE /\ GoesTo(r, "retried")
          /\ UNCHANGED page
  /\ UNCHANGED <<serverVars, call, kills, cut>>

-----------------------------------------------------------------------------
(* The pages.                                                               *)

\* LoginViewModel.SignInAsync: a call of its own, outside the lock.
SignIn(r) ==
  /\ req[r] = Idle
  /\ page = "login"
  /\ ~Busy("login")
  /\ req' = [req EXCEPT ![r] = [Idle EXCEPT !.step = "calling", !.kind = "login"]]
  /\ \E a \in ApiCalls : Begin(a, r, "readUser", 0)
  /\ UNCHANGED <<serverVars, lock, store, page, kills, cut>>

\* The password is changed: ClearMustChangePasswordAsync, and on to the deliveries.
ClearFlag(r) ==
  /\ req[r].step = "changed"
  /\ store' = [store EXCEPT !.mustChange = FALSE]
  /\ page' = "deliveries"
  /\ Ends(r)
  /\ UNCHANGED <<serverVars, call, lock, kills, cut>>

SignOut ==
  /\ page # "login"
  /\ store' = SignedOut
  /\ page' = "login"
  /\ UNCHANGED <<serverVars, call, req, lock, kills, cut>>

\* AppShell.OnShellLoaded: where the app starts, by what is stored.
Landing ==
  IF store.refresh = 0 THEN "login"
  ELSE IF store.mustChange THEN "changePassword" ELSE "deliveries"

\* The app is killed and started again; the calls it made work for nobody.
Restart ==
  /\ kills < MaxKills
  /\ kills' = kills + 1
  /\ page' = Landing
  /\ req' = [r \in Requests |-> Idle]
  /\ lock' = NoOne
  /\ call' = [a \in ApiCalls |-> Orphaned(call[a])]
  /\ cut' = (cut \/ lock # NoOne)
  /\ UNCHANGED <<serverVars, store>>

-----------------------------------------------------------------------------
(* Time and the admin.                                                      *)

ExpireAccess(t) ==
  /\ t \in fresh
  /\ fresh' = fresh \ {t}
  /\ UNCHANGED <<active, mustChange, issued, live, call, clientVars, kills, cut>>

\* usp_AppUser_SetDriverActive.
SetDriverActive(isActive) ==
  /\ "deactivation" \in Faults
  /\ active' = isActive
  /\ call' = [a \in ApiCalls |->
                IF call[a] = Free THEN Free
                ELSE [call[a] EXCEPT !.vouched = @ \/ isActive]]
  /\ UNCHANGED <<mustChange, issued, live, fresh, clientVars, kills, cut>>

-----------------------------------------------------------------------------
Api(a) == ReadUser(a) \/ Validate(a) \/ Revoke(a) \/ Issue(a)

\* What a request does once it is started.
Proceed(r) ==
  \/ Answered(r) \/ NotAnswered(r)
  \/ NothingToPresent(r)
  \/ HearGranted(r) \/ HearRefused(r) \/ GiveUp(r)
  \/ SaveAccess(r) \/ SaveRefresh(r) \/ SaveFlag(r)
  \/ ClearFlag(r)

Driver ==
  \/ \E r \in Requests, kind \in {"read", "change"} : Start(r, kind)
  \/ \E r \in Requests : SignIn(r)
  \/ SignOut
  \/ Restart

World ==
  \/ \E t \in Tokens : ExpireAccess(t)
  \/ \E isActive \in BOOLEAN : SetDriverActive(isActive)

Next ==
  \/ \E a \in ApiCalls : Api(a)
  \/ \E r \in Requests : Proceed(r) \/ Acquire(r)
  \/ Driver
  \/ World

Spec == Init /\ [][Next]_vars

\* The API executes what it has begun, and awaited calls return or time out; drivers,
\* admins, kills and the order in which the lock is granted owe nothing.
Fairness ==
  /\ \A a \in ApiCalls : WF_vars(Api(a))
  /\ \A r \in Requests : WF_vars(Proceed(r))

FairSpec == Spec /\ Fairness

-----------------------------------------------------------------------------
(* Properties.                                                              *)

\* While no rotation has been cut off (an unheard answer, a 5xx, a kill), the stored
\* refresh token works whenever nobody rotates it, whatever requests, sign-ins and
\* sign-outs overlap: the driver is not signed out by the app's own concurrency.
SessionSurvives ==
  ~cut /\ lock = NoOne /\ store.refresh # 0 => store.refresh \in live

\* And while none has been cut off, the app gives up a stored session only when the driver
\* signs out, or when the API refuses the holder of the lock a token that still works, which it
\* does only to an account that is switched off: no overlap of requests makes the app present
\* a spent token.
SessionEndsForCause ==
  [][store.refresh # 0 /\ store'.refresh = 0 =>
       \/ SignOut
       \/ cut'
       \/ \E a \in ApiCalls :
            call[a].at = "refused" /\ call[a].client = lock /\ call[a].token \in live]_vars

\* "A deactivated driver can't log in" (db/scripts/023_driver_admin.sql:4): a pair of
\* tokens is issued only to an account that was active at some moment of the call.
DeactivatedGetsNothing ==
  [][\A a \in ApiCalls : call[a].at = "issue" /\ issued' # issued /\ call'[a].at # "issue"
        => call[a].vouched]_vars

\* Whoever takes _refreshLock releases it, on every way out of a refresh: otherwise no
\* request could ever renew its token again and the app would be offline for good.
LockIsReleased == lock # NoOne ~> lock = NoOne

\* MustChangePasswordAsync: "True when the driver logged in with a temp password and
\* hasn't set their own yet." (TokenStore.cs:43): once stored, the flag stays until the
\* password is changed or the session ends.
TempPasswordRemembered ==
  [][store.mustChange /\ ~store'.mustChange => ~mustChange \/ store' = SignedOut]_vars
=============================================================================
