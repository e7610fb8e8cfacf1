--------------------------- MODULE WebSession_proofs ---------------------------
(***************************************************************************)
(* The session of the panel survives parallel rotations: for every number  *)
(* of requests and of pairs.                                               *)
(***************************************************************************)
EXTENDS WebSession, TLAPS

-----------------------------------------------------------------------------
(* Types.                                                                   *)

LEMMA WebTypeInit == WebInit => WebTypeOK
<1> SUFFICES ASSUME WebInit PROVE WebTypeOK
  OBVIOUS
<1>1. NoRequest \in WebActivities
  BY WebAssumption DEF NoRequest, At, WebActivities, Steps, PairOrNone
<1>2. \A r \in WebRequests : web[r] = NoRequest
  BY DEF WebInit
<1>3. NoRequest.held = 0
  BY DEF NoRequest, At
<1>4. web \in [WebRequests -> WebActivities]
  BY <1>1 DEF WebInit
<1>5. 0 \in PairOrNone /\ age \in [Pairs -> {"fresh", "due", "expired"}]
  BY WebAssumption DEF WebInit, Pairs, PairOrNone
<1>6. issued = 0 /\ cookie = 0
  BY DEF WebInit
<1>7. \A r \in WebRequests : web[r].held = 0
  BY <1>2, <1>3
<1>8. ASSUME NEW r \in WebRequests PROVE web[r].held <= issued
  <2>1. web[r].held = 0 /\ issued = 0
    BY <1>6, <1>7
  <2> QED
    BY <2>1
<1>9. cookie \in 0..issued /\ issued \in PairOrNone /\ live \subseteq 1..issued
  <2>1. live = {}
    BY DEF WebInit
  <2> QED
    BY <2>1, <1>5, <1>6
<1>10. cut \in BOOLEAN /\ slid \in BOOLEAN
  BY DEF WebInit
<1> QED
  BY <1>2, <1>4, <1>5, <1>8, <1>9, <1>10 DEF WebTypeOK

\* A step of one request keeps the types if it gives that request a typed record.
LEMMA WebFrame ==
  ASSUME WebTypeOK, NEW r \in WebRequests, NEW a \in WebActivities,
         web' = [web EXCEPT ![r] = a], a.held <= issued',
         a.step = "free" => a = NoRequest,
         issued' \in PairOrNone, issued <= issued', cookie' \in 0..issued',
         live' \subseteq 1..issued', age' = age, cut' \in BOOLEAN, slid' \in BOOLEAN
  PROVE  WebTypeOK'
<1>1. web' \in [WebRequests -> WebActivities]
  BY DEF WebTypeOK
<1>2. \A q \in WebRequests : web[q].held \in Int
  BY DEF WebTypeOK, WebActivities, PairOrNone
<1>3. issued \in Int /\ issued' \in Int
  BY DEF WebTypeOK, PairOrNone
<1>4. \A q \in WebRequests : web'[q] = IF q = r THEN a ELSE web[q]
  BY DEF WebTypeOK
<1>5. \A q \in WebRequests : web'[q].held <= issued'
  BY <1>2, <1>3, <1>4 DEF WebTypeOK
<1>6. \A q \in WebRequests : web'[q].step = "free" => web'[q] = NoRequest
  BY <1>4 DEF WebTypeOK
<1> QED
  BY <1>1, <1>5, <1>6 DEF WebTypeOK

\* The same, for a step that moves no token.
LEMMA WebFrameGoes ==
  ASSUME WebTypeOK, NEW r \in WebRequests, NEW step \in Steps \ {"free"}, Goes(r, step),
         UNCHANGED <<cookie, issued, age>>, live' \subseteq live,
         cut' \in BOOLEAN, slid' \in BOOLEAN
  PROVE  WebTypeOK'
<1> DEFINE a == [web[r] EXCEPT !.step = step]
<1>1. web' = [web EXCEPT ![r] = a]
  BY DEF Goes
<1>2. a \in WebActivities /\ a.step = step /\ a.held = web[r].held
  BY DEF WebTypeOK, WebActivities
<1>3. a.held <= issued' /\ issued' \in PairOrNone /\ issued <= issued' /\ cookie' \in 0..issued'
  BY <1>2 DEF WebTypeOK, PairOrNone
<1>4. live' \subseteq 1..issued'
  BY DEF WebTypeOK
<1> HIDE DEF a
<1> QED
  BY <1>1, <1>2, <1>3, <1>4, WebFrame

\* And for one that gives the request a new record and issues nothing.
LEMMA WebFrameQuiet ==
  ASSUME WebTypeOK, NEW r \in WebRequests, NEW a \in WebActivities,
         web' = [web EXCEPT ![r] = a], a.held <= issued,
         a.step = "free" => a = NoRequest,
         issued' = issued, cookie' \in 0..issued, live' \subseteq live, age' = age,
         cut' \in BOOLEAN, slid' \in BOOLEAN
  PROVE  WebTypeOK'
<1>1. issued' \in PairOrNone /\ issued <= issued' /\ cookie' \in 0..issued'
  BY DEF WebTypeOK, PairOrNone
<1>2. live' \subseteq 1..issued'
  BY DEF WebTypeOK
<1> QED
  BY <1>1, <1>2, WebFrame

LEMMA WebTypeStep == WebTypeOK /\ [WebNext]_webVars => WebTypeOK'
<1> SUFFICES ASSUME WebTypeOK, [WebNext]_webVars PROVE WebTypeOK'
  OBVIOUS
<1>t. /\ issued \in Nat /\ issued <= MaxPairs /\ MaxPairs \in Nat
      /\ cookie \in Nat /\ cookie <= issued
      /\ \A r \in WebRequests : web[r].held \in PairOrNone /\ web[r].held <= issued
  BY WebAssumption DEF WebTypeOK, PairOrNone, WebActivities
<1>b. /\ cut \in BOOLEAN /\ slid \in BOOLEAN
      /\ \A r \in WebRequests :
           web[r] \in WebActivities /\ web[r].set \in BOOLEAN /\ web[r].forced \in BOOLEAN
  BY DEF WebTypeOK, WebActivities
<1>a. \A step \in Steps, held \in PairOrNone, set \in BOOLEAN, forced \in BOOLEAN :
        [step |-> step, held |-> held, set |-> set, forced |-> forced] \in WebActivities
  BY DEF WebActivities
<1>s. /\ {"free", "choose", "call", "answered", "validate", "revoke", "issue"} \subseteq Steps
      /\ 0 \in PairOrNone /\ cookie \in PairOrNone
  BY <1>t DEF Steps, InRefresh, PairOrNone
<1>1. ASSUME NEW r \in WebRequests, LogIn(r) \/ IssuePair(r) PROVE WebTypeOK'
  <2> DEFINE a == IF web[r].step = "free"
                  THEN [step |-> "answered", held |-> issued + 1, set |-> TRUE, forced |-> FALSE]
                  ELSE [step |-> "call", held |-> issued + 1, set |-> TRUE,
                        forced |-> web[r].forced]
  <2>0. issued < MaxPairs /\ issued' = issued + 1 /\ live' = live \cup {issued + 1}
    BY <1>1 DEF LogIn, IssuePair, NewPair
  <2>1. issued + 1 \in PairOrNone /\ issued' = issued + 1
    BY <2>0, <1>t DEF PairOrNone
  <2>2. a \in WebActivities
    BY <2>1, <1>a, <1>s, <1>b
  <2>3. web' = [web EXCEPT ![r] = a]
    BY <1>1, <1>b DEF LogIn, IssuePair, At, WebActivities
  <2>4. a.held = issued + 1 /\ a.step # "free"
    OBVIOUS
  <2>5. cookie' \in 0..issued' /\ issued <= issued' /\ issued + 1 <= issued'
    <3>1. cookie' = cookie
      BY <1>1 DEF LogIn, IssuePair
    <3> QED
      BY <3>1, <1>t, <2>0
  <2>6. live' \subseteq 1..issued'
    <3>1. live \subseteq 1..issued
      BY DEF WebTypeOK
    <3>2. issued \in Int
      BY <1>t
    <3>3. 1..issued \subseteq 1..(issued + 1) /\ issued + 1 \in 1..(issued + 1)
      BY <1>t, <3>2
    <3>4. live' \subseteq 1..(issued + 1)
      BY <2>0, <3>1, <3>3
    <3> QED
      BY <2>0, <3>4
  <2>7. age' = age /\ cut' = cut /\ slid' = slid
    BY <1>1 DEF LogIn, IssuePair
  <2> HIDE DEF a
  <2> QED
    BY <2>1, <2>2, <2>3, <2>4, <2>5, <2>6, <2>7, <1>b, WebFrame
<1>2. ASSUME NEW r \in WebRequests, LogInRefused(r) \/ LogOut(r) \/ Arrive(r) PROVE WebTypeOK'
  <2>1. \E a \in WebActivities :
          web' = [web EXCEPT ![r] = a] /\ a.held <= issued /\ a.step # "free"
    <3>1. CASE LogInRefused(r)
      <4> DEFINE a == At("answered", 0, FALSE)
      <4>1. a \in WebActivities
        BY <1>a, <1>s DEF At
      <4>2. a.held <= issued /\ a.step # "free"
        BY <1>t DEF At
      <4>3. web' = [web EXCEPT ![r] = a]
        BY <3>1 DEF LogInRefused
      <4> HIDE DEF a
      <4> QED
        BY <4>1, <4>2, <4>3
    <3>2. CASE LogOut(r)
      <4> DEFINE a == At("answered", 0, TRUE)
      <4>1. a \in WebActivities
        BY <1>a, <1>s DEF At
      <4>2. a.held <= issued /\ a.step # "free"
        BY <1>t DEF At
      <4>3. web' = [web EXCEPT ![r] = a]
        BY <3>2 DEF LogOut
      <4> HIDE DEF a
      <4> QED
        BY <4>1, <4>2, <4>3
    <3>3. CASE Arrive(r)
      <4> DEFINE a == At("choose", cookie, FALSE)
      <4>1. a \in WebActivities
        BY <1>a, <1>s DEF At
      <4>2. a.held <= issued /\ a.step # "free"
        BY <1>t DEF At
      <4>3. web' = [web EXCEPT ![r] = a]
        BY <3>3 DEF Arrive
      <4> HIDE DEF a
      <4> QED
        BY <4>1, <4>2, <4>3
    <3> QED
      BY <1>2, <3>1, <3>2, <3>3
  <2>2. issued' = issued /\ cookie' \in 0..issued /\ live' = live /\ age' = age
    <3>1. UNCHANGED <<issued, cookie, live, age>>
      BY <1>2 DEF LogInRefused, LogOut, Arrive, tokenVars
    <3> QED
      BY <3>1, <1>t
  <2>3. cut' = cut /\ slid' = slid
    BY <1>2 DEF LogInRefused, LogOut, Arrive
  <2> QED
    BY <2>1, <2>2, <2>3, <1>b, WebFrameQuiet
<1>3. ASSUME NEW r \in WebRequests,
             \/ Choose(r) \/ CheckToken(r) \/ RevokeToken(r) \/ RefreshThrows(r)
      PROVE WebTypeOK'
  <2>1. \E step \in Steps \ {"free"} : Goes(r, step)
    BY <1>3, <1>s DEF Choose, CheckToken, RevokeToken, RefreshThrows, NotRefreshed
  <2>2. UNCHANGED <<cookie, issued, age>> /\ live' \subseteq live
    BY <1>3 DEF Choose, CheckToken, RevokeToken, RefreshThrows, tokenVars
  <2>3. cut' \in BOOLEAN /\ slid' \in BOOLEAN
    BY <1>3, <1>b DEF Choose, CheckToken, RevokeToken, RefreshThrows
  <2> QED
    BY <2>1, <2>2, <2>3, WebFrameGoes
<1>4. ASSUME NEW r \in WebRequests, CallApi(r) PROVE WebTypeOK'
  <2>1. UNCHANGED <<cookie, issued, age, live, cut, slid>>
    BY <1>4 DEF CallApi, tokenVars
  <2>2. CASE Goes(r, "answered")
    BY <2>1, <2>2, <1>b, <1>s, WebFrameGoes
  <2>3. CASE web' = [web EXCEPT ![r] = [@ EXCEPT !.step = "validate", !.forced = TRUE]]
    <3> DEFINE a == [web[r] EXCEPT !.step = "validate", !.forced = TRUE]
    <3>1. web' = [web EXCEPT ![r] = a]
      BY <2>3
    <3>2. a \in WebActivities
      BY <1>b, <1>s DEF WebActivities
    <3>3. a.held = web[r].held /\ a.step # "free"
      BY <1>b DEF WebActivities
    <3> HIDE DEF a
    <3>4. a.held <= issued
      BY <3>3, <1>t
    <3>5. issued' = issued /\ cookie' \in 0..issued /\ live' \subseteq live /\ age' = age
      BY <2>1, <1>t
    <3> QED
      BY <2>1, <3>1, <3>2, <3>3, <3>4, <3>5, <1>b, WebFrameQuiet
  <2> QED
    BY <1>4, <2>2, <2>3 DEF CallApi
<1>5. ASSUME NEW r \in WebRequests, Respond(r) \/ Abort(r) PROVE WebTypeOK'
  <2>0. NoRequest \in WebActivities /\ NoRequest.held = 0
    BY <1>a, <1>s DEF NoRequest, At
  <2>1. NoRequest \in WebActivities /\ NoRequest.held <= issued
    BY <2>0, <1>t
  <2>2. web' = [web EXCEPT ![r] = NoRequest] /\ issued' = issued /\ age' = age
    BY <1>5 DEF Respond, Abort, tokenVars
  <2>3. live' \subseteq live
    BY <1>5 DEF Respond, Abort, tokenVars
  <2>4. cookie' \in 0..issued
    <3>1. cookie' \in {cookie, web[r].held}
      BY <1>5 DEF Respond, Abort
    <3> QED
      BY <3>1, <1>t DEF PairOrNone
  <2>5. cut' \in BOOLEAN /\ slid' \in BOOLEAN
    BY <1>5, <1>b DEF Respond, Abort
  <2> QED
    BY <2>1, <2>2, <2>3, <2>4, <2>5, WebFrameQuiet
<1>6. ASSUME NEW n \in Pairs, AgeToken(n) PROVE WebTypeOK'
  BY <1>6 DEF AgeToken, WebTypeOK
<1>7. CASE UNCHANGED webVars
  BY <1>7 DEF webVars, tokenVars, WebTypeOK
<1> QED
  BY <1>1, <1>2, <1>3, <1>4, <1>5, <1>6, <1>7 DEF WebNext, WebHandles

\* The type invariant of the panel's session (BearerTokenHandler, AccountController).
THEOREM WebTypes == WebSpec => []WebTypeOK
BY WebTypeInit, WebTypeStep, PTL DEF WebSpec

-----------------------------------------------------------------------------
(* The session.                                                             *)

\* A request that will bring a pair of its own: it was issued for it, and nobody has it yet.
Brings(r) == web[r].set /\ web[r].held # 0 /\ web[r].step # "issue"

Owns(r) ==
  /\ web[r].held \in live
  /\ web[r].held # cookie
  /\ \A q \in WebRequests \ {r} : web[q].held # web[r].held

Alive ==
  slid \/ cookie = 0 \/ cookie \in live
    \/ \E r \in WebRequests : web[r].step = "issue" \/ Brings(r)

\* As long as no rotation was cut off.
SessionInv ==
  ~cut => /\ \A r \in WebRequests : Brings(r) => Owns(r)
          /\ Alive

LEMMA SessionInvInit == WebInit => SessionInv
<1> SUFFICES ASSUME WebInit PROVE SessionInv
  OBVIOUS
<1>1. \A r \in WebRequests : web[r].set = FALSE
  BY DEF WebInit, NoRequest, At
<1>2. cookie = 0
  BY DEF WebInit
<1> QED
  BY <1>1, <1>2 DEF SessionInv, Brings, Alive

\* A step of request r that leaves the cookie: what is left to show of r.
LEMMA SessionFrame ==
  ASSUME WebTypeOK, SessionInv, ~cut, NEW r \in WebRequests, NEW a,
         web' = [web EXCEPT ![r] = a], cookie' = cookie, slid' = slid,
         live \ {web[r].held} \subseteq live',
         web[r].held \notin live' /\ web[r].held \in live => a.step = "issue",
         a.held # web[r].held => a.held = 0 \/ a.held = cookie \/ a.held = issued + 1,
         a.set /\ a.held # 0 /\ a.step # "issue"
           => \/ a.held = issued + 1 /\ a.held \in live'
              \/ Brings(r) /\ a.held = web[r].held /\ a.held \in live',
         web[r].step = "issue" \/ Brings(r)
           => a.step = "issue" \/ (a.set /\ a.held # 0)
  PROVE  SessionInv'
<1> DEFINE Bears(q) == web[q].step = "issue" \/ Brings(q)
<1>1. \A q \in WebRequests \ {r} : web'[q] = web[q]
  BY DEF WebTypeOK
<1>2. web'[r] = a
  BY DEF WebTypeOK
<1>3. \A q \in WebRequests \ {r} : Brings(q)' <=> Brings(q)
  BY <1>1 DEF Brings
<1>4. Brings(r)' <=> a.set /\ a.held # 0 /\ a.step # "issue"
  BY <1>2 DEF Brings
<1>5. \A q \in WebRequests : Brings(q) => Owns(q)
  BY DEF SessionInv
<1>6. /\ issued \in Nat /\ cookie # issued + 1
      /\ \A q \in WebRequests : web[q].held # issued + 1
  <2>1. issued \in Nat /\ cookie \in Nat /\ cookie <= issued
    BY WebAssumption DEF WebTypeOK, PairOrNone
  <2>2. \A q \in WebRequests : web[q].held \in Nat /\ web[q].held <= issued
    BY WebAssumption DEF WebTypeOK, PairOrNone, WebActivities
  <2> QED
    BY <2>1, <2>2
<1>7. ASSUME NEW q \in WebRequests, Brings(q)' PROVE Owns(q)'
  <2>1. CASE q = r
    <3>1. a.held \in live'
      BY <1>4, <1>7, <2>1
    <3>2. a.held # cookie
      BY <1>4, <1>5, <1>6, <1>7, <2>1 DEF Owns
    <3>3. \A p \in WebRequests \ {r} : web[p].held # a.held
      BY <1>4, <1>5, <1>6, <1>7, <2>1 DEF Owns
    <3> QED
      BY <1>1, <1>2, <2>1, <3>1, <3>2, <3>3 DEF Owns
  <2>2. CASE q # r
    <3>1. Owns(q) /\ Brings(q) /\ web'[q] = web[q]
      BY <1>1, <1>3, <1>5, <1>7, <2>2
    <3>2. web[q].held # web[r].held /\ web[q].held # cookie /\ web[q].held # issued + 1
      BY <2>2, <3>1, <1>6 DEF Owns
    <3>3. web[q].held # 0
      BY <3>1 DEF Brings
    <3>4. web[q].held # a.held
      BY <3>2, <3>3
    <3>5. web[q].held \in live'
      BY <3>1, <3>2 DEF Owns
    <3>6. \A p \in WebRequests \ {q} : web'[p].held # web[q].held
      BY <1>1, <1>2, <3>1, <3>4 DEF Owns
    <3> QED
      BY <3>1, <3>2, <3>5, <3>6 DEF Owns
  <2> QED
    BY <2>1, <2>2
<1>8. Alive'
  <2>1. CASE slid \/ cookie = 0
    BY <2>1 DEF Alive
  <2>2. CASE cookie \in live
    <3>1. CASE cookie \in live'
      BY <3>1 DEF Alive
    <3>2. CASE cookie \notin live'
      <4>1. cookie = web[r].held
        BY <2>2, <3>2
      <4>2. a.step = "issue"
        BY <2>2, <3>2, <4>1
      <4> QED
        BY <4>2, <1>2 DEF Alive
    <3> QED
      BY <3>1, <3>2
  <2>3. ASSUME NEW q \in WebRequests, web[q].step = "issue" \/ Brings(q) PROVE Alive'
    <3>1. web'[q].step = "issue" \/ Brings(q)'
      <4>1. CASE q = r
        BY <1>2, <1>4, <2>3, <4>1
      <4>2. CASE q # r
        BY <1>1, <1>3, <2>3, <4>2
      <4> QED
        BY <4>1, <4>2
    <3> QED
      BY <3>1 DEF Alive
  <2> QED
    BY <2>1, <2>2, <2>3 DEF SessionInv, Alive
<1> QED
  BY <1>7, <1>8 DEF SessionInv

\* A step in which a request goes on with the pair it holds, or revokes it.
LEMMA SessionGoesOn ==
  ASSUME WebTypeOK, SessionInv, ~cut, NEW r \in WebRequests, NEW a,
         web' = [web EXCEPT ![r] = a], a.held = web[r].held, a.set = web[r].set,
         UNCHANGED <<cookie, slid>>, web[r].step # "issue",
         live' = live \/ (a.step = "issue" /\ live' = live \ {web[r].held})
  PROVE  SessionInv'
<1>1. Brings(r) => web[r].held \in live
  BY DEF SessionInv, Owns
<1>2. a.set /\ a.held # 0 <=> Brings(r)
  BY DEF Brings
<1> QED
  BY <1>1, <1>2, SessionFrame

LEMMA SessionInvStep == WebTypeOK /\ SessionInv /\ [WebNext]_webVars => SessionInv'
<1> SUFFICES ASSUME WebTypeOK, SessionInv, [WebNext]_webVars, ~cut' PROVE SessionInv'
  BY DEF SessionInv
<1>c. ~cut
  BY DEF WebNext, WebHandles, LogIn, LogInRefused, LogOut, Arrive, Choose, CheckToken,
         RevokeToken, IssuePair, RefreshThrows, CallApi, Respond, Abort, AgeToken, webVars
<1>w. \A r \in WebRequests :
        /\ web[r] \in WebActivities
        /\ web[r].step = "free" => web[r].held = 0 /\ web[r].set = FALSE
        /\ web[r].step = "free" => ~Brings(r)
  BY DEF WebTypeOK, NoRequest, At, Brings
<1>1. ASSUME NEW r \in WebRequests, LogIn(r) \/ LogInRefused(r) \/ LogOut(r) \/ Arrive(r)
      PROVE SessionInv'
  <2>1. web[r].step = "free" /\ UNCHANGED <<cookie, slid>>
    BY <1>1 DEF LogIn, LogInRefused, LogOut, Arrive
  <2>2. ~Brings(r) /\ web[r].held = 0
    BY <2>1, <1>w
  <2>3. CASE LogIn(r)
    <3> DEFINE a == At("answered", issued + 1, TRUE)
    <3>1. web' = [web EXCEPT ![r] = a] /\ live' = live \cup {issued + 1}
      BY <2>3 DEF LogIn, NewPair
    <3>2. a.held = issued + 1 /\ a.step = "answered"
      BY DEF At
    <3> HIDE DEF a
    <3> QED
      BY <1>c, <2>1, <2>2, <3>1, <3>2, SessionFrame
  <2>4. CASE LogInRefused(r) \/ LogOut(r)
    <3>0. PICK set : web' = [web EXCEPT ![r] = At("answered", 0, set)]
      BY <2>4 DEF LogInRefused, LogOut
    <3> DEFINE a == At("answered", 0, set)
    <3>1. web' = [web EXCEPT ![r] = a] /\ a.held = 0
      BY <3>0 DEF At
    <3> HIDE DEF a
    <3>2. live' = live
      BY <2>4 DEF LogInRefused, LogOut, tokenVars
    <3> QED
      BY <1>c, <2>1, <2>2, <3>1, <3>2, SessionFrame
  <2>5. CASE Arrive(r)
    <3> DEFINE a == At("choose", cookie, FALSE)
    <3>1. web' = [web EXCEPT ![r] = a] /\ live' = live
      BY <2>5 DEF Arrive, tokenVars
    <3>2. a.held = cookie /\ a.set = FALSE
      BY DEF At
    <3> HIDE DEF a
    <3> QED
      BY <1>c, <2>1, <2>2, <3>1, <3>2, SessionFrame
  <2> QED
    BY <1>1, <2>3, <2>4, <2>5
<1>2. ASSUME NEW r \in WebRequests,
             Choose(r) \/ CheckToken(r) \/ RevokeToken(r) \/ RefreshThrows(r)
      PROVE SessionInv'
  <2>1. web[r].step # "issue" /\ UNCHANGED <<cookie, slid>>
    BY <1>2 DEF Choose, CheckToken, RevokeToken, RefreshThrows, tokenVars
  <2>2. PICK step : /\ Goes(r, step)
                    /\ \/ step = "issue" /\ live' = live \ {web[r].held}
                       \/ step # "issue" /\ live' = live
    <3>1. CASE Choose(r) \/ CheckToken(r)
      BY <3>1 DEF Choose, CheckToken, NotRefreshed, tokenVars
    <3>2. CASE RevokeToken(r)
      BY <3>2 DEF RevokeToken
    <3>3. CASE RefreshThrows(r)
      <4>1. PICK step \in {"answered", "call"} : Goes(r, step)
        BY <3>3 DEF RefreshThrows, NotRefreshed
      <4>2. live' = live
        BY <3>3 DEF RefreshThrows
      <4> QED
        BY <4>1, <4>2
    <3> QED
      BY <1>2, <3>1, <3>2, <3>3
  <2>3. PICK a : /\ web' = [web EXCEPT ![r] = a]
                 /\ a.held = web[r].held /\ a.set = web[r].set /\ a.step = step
    <3> DEFINE a == [web[r] EXCEPT !.step = step]
    <3>1. web' = [web EXCEPT ![r] = a]
      BY <2>2 DEF Goes
    <3>2. a.held = web[r].held /\ a.set = web[r].set /\ a.step = step
      BY <1>w DEF WebActivities
    <3> QED
      BY <3>1, <3>2
  <2>4. live' = live \/ (a.step = "issue" /\ live' = live \ {web[r].held})
    BY <2>2, <2>3
  <2> QED
    BY <1>c, <2>1, <2>3, <2>4, SessionGoesOn
<1>3. ASSUME NEW r \in WebRequests, IssuePair(r) PROVE SessionInv'
  <2> DEFINE a == [web[r] EXCEPT !.step = "call", !.held = issued + 1, !.set = TRUE]
  <2>1. web' = [web EXCEPT ![r] = a] /\ live' = live \cup {issued + 1}
    BY <1>3 DEF IssuePair, NewPair
  <2>2. a.held = issued + 1 /\ a.set = TRUE
    BY <1>w DEF WebActivities
  <2>3. UNCHANGED <<cookie, slid>> /\ web[r].step = "issue"
    BY <1>3 DEF IssuePair
  <2>4. issued + 1 # 0
    BY WebAssumption DEF WebTypeOK, PairOrNone
  <2> HIDE DEF a
  <2>5. ~Brings(r)
    BY <2>3 DEF Brings
  <2>6. a.held \in live' /\ live \subseteq live'
    BY <2>1, <2>2
  <2> QED
    BY <1>c, <2>1, <2>2, <2>3, <2>4, <2>5, <2>6, SessionFrame
<1>4. ASSUME NEW r \in WebRequests, CallApi(r) PROVE SessionInv'
  <2>1. web[r].step # "issue" /\ UNCHANGED <<cookie, live, slid>>
    BY <1>4 DEF CallApi, tokenVars
  <2>2. PICK a : /\ web' = [web EXCEPT ![r] = a]
                 /\ a.held = web[r].held /\ a.set = web[r].set /\ a.step # "issue"
    <3>1. CASE web' = [web EXCEPT ![r] = [@ EXCEPT !.step = "validate", !.forced = TRUE]]
      <4> DEFINE a == [web[r] EXCEPT !.step = "validate", !.forced = TRUE]
      <4>1. a.held = web[r].held /\ a.set = web[r].set /\ a.step = "validate"
        BY <1>w DEF WebActivities
      <4> QED
        BY <3>1, <4>1
    <3>2. CASE Goes(r, "answered")
      <4> DEFINE a == [web[r] EXCEPT !.step = "answered"]
      <4>1. a.held = web[r].held /\ a.set = web[r].set /\ a.step = "answered"
        BY <1>w DEF WebActivities
      <4> QED
        BY <3>2, <4>1 DEF Goes
    <3> QED
      BY <1>4, <3>1, <3>2 DEF CallApi
  <2> QED
    BY <1>c, <2>1, <2>2, SessionGoesOn
<1>5. ASSUME NEW r \in WebRequests, Abort(r) PROVE SessionInv'
  <2>1. /\ web' = [web EXCEPT ![r] = NoRequest] /\ UNCHANGED <<cookie, slid>>
        /\ web[r].step # "issue" /\ live' = live
        /\ ~(web[r].set /\ web[r].held # 0)
    BY <1>5 DEF Abort
  <2>2. ~Brings(r)
    BY <2>1 DEF Brings
  <2>3. NoRequest.held = 0
    BY DEF NoRequest, At
  <2> QED
    BY <1>c, <2>1, <2>2, <2>3, SessionFrame
<1>6. ASSUME NEW r \in WebRequests, Respond(r) PROVE SessionInv'
  <2>1. \A q \in WebRequests \ {r} : web'[q] = web[q]
    BY <1>6 DEF Respond, WebTypeOK
  <2>2. web'[r].held = 0 /\ ~Brings(r)'
    BY <1>6 DEF Respond, WebTypeOK, NoRequest, At, Brings
  <2>3. live' = live /\ web[r].step = "answered"
    BY <1>6 DEF Respond, tokenVars
  <2>4. \A q \in WebRequests \ {r} : Brings(q)' <=> Brings(q)
    BY <2>1 DEF Brings
  <2>5. \A q \in WebRequests : Brings(q) => Owns(q) /\ web[q].held # 0
    BY <1>c DEF SessionInv, Brings
  <2>6. cookie' = cookie \/ cookie' = web[r].held
    BY <1>6 DEF Respond
  <2>7. ASSUME NEW q \in WebRequests, Brings(q)' PROVE Owns(q)'
    <3>1. q # r /\ Brings(q) /\ Owns(q) /\ web'[q] = web[q] /\ web[q].held # 0
      BY <2>1, <2>2, <2>4, <2>5, <2>7
    <3>2. web[q].held # cookie'
      BY <3>1, <2>6 DEF Owns
    <3>3. \A p \in WebRequests \ {q} : web'[p].held # web'[q].held
      BY <3>1, <2>1, <2>2 DEF Owns
    <3> QED
      BY <3>1, <3>2, <3>3, <2>3 DEF Owns
  <2>8. Alive'
    <3>1. CASE web[r].set
      <4>1. cookie' = web[r].held
        BY <1>6, <3>1 DEF Respond
      <4>2. cookie' = 0 \/ Brings(r)
        BY <3>1, <4>1, <2>3 DEF Brings
      <4> QED
        BY <4>1, <4>2, <2>3, <2>5 DEF Alive, Owns
    <3>2. CASE ~web[r].set
      <4>1. slid' \/ cookie' = cookie
        BY <1>6, <3>2 DEF Respond
      <4>2. slid => slid'
        BY <1>6 DEF Respond
      <4>3. ~Brings(r) /\ web[r].step # "issue"
        BY <3>2, <2>3 DEF Brings
      <4>4. ASSUME NEW q \in WebRequests, web[q].step = "issue" \/ Brings(q) PROVE Alive'
        BY <4>3, <4>4, <2>1, <2>4 DEF Alive
      <4> QED
        BY <1>c, <4>1, <4>2, <4>4, <2>3 DEF SessionInv, Alive
    <3> QED
      BY <3>1, <3>2
  <2> QED
    BY <2>7, <2>8 DEF SessionInv
<1>7. CASE UNCHANGED webVars \/ \E n \in Pairs : AgeToken(n)
  <2>1. UNCHANGED <<cookie, live, web, cut, slid>>
    BY <1>7 DEF webVars, tokenVars, AgeToken
  <2> QED
    BY <2>1 DEF SessionInv, Alive, Brings, Owns
<1> QED
  BY <1>1, <1>2, <1>3, <1>4, <1>5, <1>6, <1>7 DEF WebNext, WebHandles

\* Parallel requests that rotate the tokens of one cookie do not end the session, for every
\* number of requests: a cookie whose refresh token was revoked is about to be replaced
\* (BearerTokenHandler.RefreshAsync).
THEOREM SessionStaysAlive == WebSpec => []SessionAlive
<1>1. WebTypeOK /\ SessionInv => SessionAlive
  BY DEF SessionInv, SessionAlive, Alive, Brings, Owns
<1> QED
  BY <1>1, WebTypes, SessionInvInit, SessionInvStep, PTL DEF WebSpec
=============================================================================
