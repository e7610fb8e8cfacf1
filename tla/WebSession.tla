------------------------------ MODULE WebSession ------------------------------
(***************************************************************************)
(* The session of one admin in one browser: the authentication cookie of   *)
(* the panel, which carries a pair of API tokens, and BearerTokenHandler,  *)
(* which rotates the pair in the middle of any request and re-issues the   *)
(* cookie on its response.                                                 *)
(*                                                                         *)
(* The browser sends requests in parallel, all with the cookie it has at   *)
(* that moment, and takes cookies from the responses in the order they     *)
(* come.  Unlike the phone's AuthHandler, no lock makes rotations wait for *)
(* each other.  The tokens of one pair bear one number.                    *)
(***************************************************************************)
EXTENDS Integers

CONSTANTS
  WebRequests,  \* slots for the requests of the browser
  MaxPairs      \* a bound: how many pairs of tokens are issued

ASSUME WebAssumption == MaxPairs \in Nat

VARIABLES
  cookie,  \* the pair in the cookie of the browser; 0 is no cookie
  live,    \* RefreshToken rows that are neither revoked nor expired
  issued,  \* how many pairs have been issued
  age,     \* of the access token of each pair
  web,     \* the requests
  cut,     \* history: a rotation did not make it into a response that arrived
  slid     \* history: a renewed cookie replaced another one

tokenVars == <<live, issued, age>>
webVars == <<cookie, tokenVars, web, cut, slid>>

-----------------------------------------------------------------------------
Pairs == 1..MaxPairs
PairOrNone == 0..MaxPairs

\* Where a request is: its token is looked at; auth/refresh is at its three statements;
\* the API is called; there is an answer.
InRefresh == {"validate", "revoke", "issue"}
Steps == {"free", "choose", "call", "answered"} \cup InRefresh

\* "held" is the pair in the properties of the request, "set" that SignInAsync or
\* SignOutAsync was called with it, "forced" that the API has answered 401.
WebActivities ==
  [step : Steps, held : PairOrNone, set : BOOLEAN, forced : BOOLEAN]

At(step, held, set) == [step |-> step, held |-> held, set |-> set, forced |-> FALSE]
NoRequest == At("free", 0, FALSE)

WebTypeOK ==
  /\ cookie \in 0..issued
  /\ issued \in PairOrNone
  /\ live \subseteq 1..issued
  /\ age \in [Pairs -> {"fresh", "due", "expired"}]
  /\ web \in [WebRequests -> WebActivities]
  /\ \A r \in WebRequests : web[r].held <= issued
  /\ \A r \in WebRequests : web[r].step = "free" => web[r] = NoRequest
  /\ cut \in BOOLEAN
  /\ slid \in BOOLEAN

WebInit ==
  /\ cookie = 0
  /\ live = {}
  /\ issued = 0
  /\ age = [n \in Pairs |-> "fresh"]
  /\ web = [r \in WebRequests |-> NoRequest]
  /\ cut = FALSE
  /\ slid = FALSE

NewPair ==
  /\ issued < MaxPairs
  /\ issued' = issued + 1
  /\ live' = live \cup {issued + 1}

Goes(r, step) == web' = [web EXCEPT ![r].step = step]

-----------------------------------------------------------------------------
(* The account pages.                                                       *)

\* POST Login or SignUp, which the API granted: the response will bring the cookie.
LogIn(r) ==
  /\ web[r].step = "free"
  /\ cookie = 0
  /\ NewPair
  /\ web' = [web EXCEPT ![r] = At("answered", issued + 1, TRUE)]
  /\ UNCHANGED <<cookie, age, cut, slid>>

\* POST Login or SignUp, refused: the form again.
LogInRefused(r) ==
  /\ web[r].step = "free"
  /\ cookie = 0
  /\ web' = [web EXCEPT ![r] = At("answered", 0, FALSE)]
  /\ UNCHANGED <<cookie, tokenVars, cut, slid>>

\* POST Logout: the response will take the cookie away; the API is not told.
LogOut(r) ==
  /\ web[r].step = "free"
  /\ cookie # 0
  /\ web' = [web EXCEPT ![r] = At("answered", 0, TRUE)]
  /\ UNCHANGED <<cookie, tokenVars, cut, slid>>

-----------------------------------------------------------------------------
(* A request that calls the API once, as every other action of the panel.   *)

Arrive(r) ==
  /\ web[r].step = "free"
  /\ cookie # 0
  /\ web' = [web EXCEPT ![r] = At("choose", cookie, FALSE)]
  /\ UNCHANGED <<cookie, tokenVars, cut, slid>>

\* GetValidAccessTokenAsync: a token with less than two minutes left is rotated first.
Choose(r) ==
  /\ web[r].step = "choose"
  /\ Goes(r, IF age[web[r].held] = "fresh" THEN "call" ELSE "validate")
  /\ UNCHANGED <<cookie, tokenVars, cut, slid>>

\* Without a new token the call is made with the old one, or its 401 is the answer.
NotRefreshed(r) == Goes(r, IF web[r].forced THEN "answered" ELSE "call")

\* The API, AuthAppService.RefreshAsync: three statements.
CheckToken(r) ==
  /\ web[r].step = "validate"
  /\ IF web[r].held \in live THEN Goes(r, "revoke") ELSE NotRefreshed(r)
  /\ UNCHANGED <<cookie, tokenVars, cut, slid>>

RevokeToken(r) ==
  /\ web[r].step = "revoke"
  /\ live' = live \ {web[r].held}
  /\ Goes(r, "issue")
  /\ UNCHANGED <<cookie, issued, age, cut, slid>>

\* Mutant: after a 401 the new token is used and not signed in with.
IssueForRetry(r) ==
  /\ web[r].step = "issue"
  /\ NewPair
  /\ web' = [web EXCEPT ![r] =
               IF @.forced THEN [@ EXCEPT !.step = "call"]
                           ELSE [@ EXCEPT !.step = "call", !.held = issued + 1, !.set = TRUE]]
  /\ UNCHANGED <<cookie, age, cut, slid>>

\* The answer of the refresh: the properties are updated and SignInAsync is called; then
\* the call is made, or made again.
IssuePair(r) ==
  /\ web[r].step = "issue"
  /\ NewPair
  /\ web' = [web EXCEPT ![r] = [@ EXCEPT !.step = "call", !.held = issued + 1, !.set = TRUE]]
  /\ UNCHANGED <<cookie, age, cut, slid>>

\* The refresh fails between panel and API: the handler goes on as if it was refused.  What
\* the API has begun it may have finished, for nobody.
RefreshThrows(r) ==
  /\ web[r].step \in InRefresh
  /\ live' \in {live, live \ {web[r].held}}
  /\ cut' = (cut \/ web[r].step = "issue" \/ live' # live)
  /\ NotRefreshed(r)
  /\ UNCHANGED <<cookie, issued, age, slid>>

\* A 401 leads to one refresh more; after that, whatever the API says is the answer.
CallApi(r) ==
  /\ web[r].step = "call"
  /\ IF age[web[r].held] = "expired" /\ ~web[r].forced
     THEN web' = [web EXCEPT ![r] = [@ EXCEPT !.step = "validate", !.forced = TRUE]]
     ELSE Goes(r, "answered")
  /\ UNCHANGED <<cookie, tokenVars, cut, slid>>

\* The response comes to the browser.  If the request did not sign in or out, its cookie may
\* be due for a renewal (SlidingExpiration): it is sent once more as it came.
Respond(r) ==
  /\ web[r].step = "answered"
  /\ \/ web[r].set /\ cookie' = web[r].held
     \/ ~web[r].set /\ cookie' = cookie
     \/ ~web[r].set /\ web[r].held # 0 /\ cookie' = web[r].held
  /\ slid' = (slid \/ (~web[r].set /\ cookie' # cookie))
  /\ web' = [web EXCEPT ![r] = NoRequest]
  /\ UNCHANGED <<tokenVars, cut>>

\* The browser leaves the page before the response came, or never gets it.
Abort(r) ==
  /\ web[r].step # "free"
  /\ live' \in {live} \cup (IF web[r].step \in InRefresh THEN {live \ {web[r].held}} ELSE {})
  /\ cut' = (cut \/ web[r].step = "issue" \/ live' # live \/ (web[r].set /\ web[r].held # 0))
  /\ web' = [web EXCEPT ![r] = NoRequest]
  /\ UNCHANGED <<cookie, issued, age, slid>>

-----------------------------------------------------------------------------
\* Time passes for an access token: two minutes are left, or none.
AgeToken(n) ==
  /\ n <= issued
  /\ age[n] # "expired"
  /\ age' = [age EXCEPT ![n] = IF @ = "fresh" THEN "due" ELSE "expired"]
  /\ UNCHANGED <<cookie, live, issued, web, cut, slid>>

WebHandles(r) ==
  \/ LogIn(r) \/ LogInRefused(r) \/ LogOut(r) \/ Arrive(r) \/ Choose(r)
  \/ CheckToken(r) \/ RevokeToken(r) \/ IssuePair(r) \/ RefreshThrows(r)
  \/ CallApi(r) \/ Respond(r) \/ Abort(r)

WebNext ==
  \/ \E r \in WebRequests : WebHandles(r)
  \/ \E n \in Pairs : AgeToken(n)

WebSpec == WebInit /\ [][WebNext]_webVars

-----------------------------------------------------------------------------
(* Properties.                                                              *)

\* Requests that rotate one pair in parallel do not end the session: whenever the refresh
\* token in the cookie is not valid any more, a request is about to bring a cookie with one
\* that is - unless a rotation was cut off, or a renewal put an older cookie back.
SessionAlive ==
  ~cut /\ ~slid /\ cookie # 0 /\ cookie \notin live
    => \E r \in WebRequests :
         web[r].step = "issue" \/ (web[r].set /\ web[r].held \in live)
=============================================================================
