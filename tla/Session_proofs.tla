---------------------------- MODULE Session_proofs ----------------------------
(***************************************************************************)
(* Theorems about Session for any number of concurrent requests, calls of  *)
(* the API, pairs of tokens and kills of the app.                          *)
(***************************************************************************)
EXTENDS Session, TLAPS

-----------------------------------------------------------------------------
(* The inductive invariant.                                                 *)

\* A slot of the API is free or has a caller who waits for it, one slot at a time.
FreeIsFree == \A a \in ApiCalls : call[a].at = "free" <=> call[a] = Free

Awaited ==
  /\ \A a \in ApiCalls : call[a].client # NoOne => req[call[a].client].step = "calling"
  /\ \A a, b \in ApiCalls : call[a].client # NoOne /\ call[a].client = call[b].client => a = b
  /\ \A a \in ApiCalls : call[a].at \in {"granted", "refused"} => call[a].client # NoOne

\* A sign-in stays outside the lock, and sends nothing that could take it there.
LockIsForRefresh ==
  \A r \in Requests : req[r].kind = "login" => req[r].step \in {"calling"} \cup Saving /\ lock # r

\* A call that acts for the account has seen it active.
Vouched ==
  \A a \in ApiCalls :
    /\ active /\ call[a].at # "free" => call[a].vouched
    /\ call[a].at \in {"revoke", "issue"} => call[a].vouched

\* A token is rotated for the holder of the lock, unless a rotation was cut off.
Rotating(a) == call[a].at \in {"validate", "revoke"}
RotationHeld == ~cut => \A a \in ApiCalls : Rotating(a) => lock # NoOne /\ call[a].client = lock

\* A pair on its way to the store is alive, nowhere else, and nobody rotates it.
Granted(a) == call[a].at = "granted"
HasPair(r) == req[r].step \in {"saveAccess", "saveRefresh"}
Unseen(t) ==
  /\ t \in live
  /\ t # store.refresh
  /\ \A a \in ApiCalls : Rotating(a) => call[a].token # t
PairsUnseen ==
  /\ \A a \in ApiCalls : Granted(a) => Unseen(call[a].token)
  /\ \A r \in Requests : HasPair(r) => Unseen(req[r].token)
  /\ \A a, b \in ApiCalls : Granted(a) /\ Granted(b) /\ a # b => call[a].token # call[b].token
  /\ \A r, s \in Requests : HasPair(r) /\ HasPair(s) /\ r # s => req[r].token # req[s].token
  /\ \A a \in ApiCalls, r \in Requests : Granted(a) /\ HasPair(r) => call[a].token # req[r].token

\* Tokens that are presented have been issued.
KnownTokens ==
  /\ store.refresh <= issued
  /\ \A a \in ApiCalls : Rotating(a) => call[a].token <= issued

\* SessionSurvives, and what holds while the lock is taken: the stored token may be dead
\* until the holder stores the next one.
StoredLive ==
  ~cut /\ store.refresh # 0 =>
    \/ store.refresh \in live
    \/ lock # NoOne /\ req[lock].step \in {"calling", "saveAccess", "saveRefresh"}

IInv ==
  /\ TypeOK
  /\ FreeIsFree
  /\ Awaited
  /\ LockIsForRefresh
  /\ Vouched
  /\ RotationHeld
  /\ PairsUnseen
  /\ KnownTokens
  /\ StoredLive

-----------------------------------------------------------------------------
(* Records.                                                                 *)

Stages == {"free", "readUser", "validate", "revoke", "issue", "granted", "refused"}
Steps == {"idle", "sent", "waiting", "calling", "retried", "changed"} \cup Saving

\* The constant records are of their types.
LEMMA Constants == ConstantsAssumption => /\ Free \in Executions
                                          /\ Idle \in Activities
                                          /\ SignedOut \in Stores
BY DEF ConstantsAssumption, Free, Idle, SignedOut, Executions, Activities, Stores, TokenOrNone

\* A call that moves on, or works for nobody, is still a call.
LEMMA CallMoves ==
  ASSUME NEW c \in Executions, NEW s \in Stages
  PROVE  /\ [c EXCEPT !.at = s] \in Executions
         /\ [c EXCEPT !.client = NoOne] \in Executions
         /\ \A f \in BOOLEAN : [c EXCEPT !.at = s, !.flag = f] \in Executions
         /\ \A t \in TokenOrNone : [c EXCEPT !.at = s, !.token = t] \in Executions
BY DEF Executions, Stages

\* So is one that has just begun, or is vouched for.
LEMMA CallBegins ==
  ASSUME NEW s \in Stages, NEW r \in Requests, NEW t \in TokenOrNone, NEW v \in BOOLEAN,
         NEW c \in Executions
  PROVE  /\ [at |-> s, client |-> r, token |-> t, flag |-> FALSE, vouched |-> v] \in Executions
         /\ [c EXCEPT !.vouched = v] \in Executions
BY DEF Executions, Stages

\* A request that moves on, with or without a pair, is still a request.
LEMMA RequestMoves ==
  ASSUME NEW q \in Activities, NEW s \in Steps
  PROVE  /\ [q EXCEPT !.step = s] \in Activities
         /\ \A t \in TokenOrNone, f \in BOOLEAN :
              [q EXCEPT !.step = s, !.token = t, !.flag = f] \in Activities
BY DEF Activities, Steps

\* So is one that starts.
LEMMA RequestStarts ==
  ASSUME NEW q \in Activities, NEW s \in Steps, NEW k \in {"read", "change", "login"},
         NEW t \in TokenOrNone, NEW f \in BOOLEAN
  PROVE  /\ [q EXCEPT !.step = s, !.kind = k] \in Activities
         /\ [step |-> s, kind |-> k, token |-> t, flag |-> f] \in Activities
BY DEF Activities, Steps

\* What is stored is.
LEMMA StoreMoves ==
  ASSUME NEW s \in Stores, NEW t \in TokenOrNone, NEW f \in BOOLEAN
  PROVE  /\ [s EXCEPT !.access = t] \in Stores
         /\ [s EXCEPT !.refresh = t] \in Stores
         /\ [s EXCEPT !.mustChange = f] \in Stores
BY DEF Stores

-----------------------------------------------------------------------------
(* Types.                                                                   *)

\* The slots of the API keep their types.
LEMMA StepKeepsCalls ==
  ASSUME ConstantsAssumption, TypeOK, [Next]_vars
  PROVE  call' \in [ApiCalls -> Executions]
<1> DEFINE Typed == call' \in [ApiCalls -> Executions]
<1>0. /\ call \in [ApiCalls -> Executions]
      /\ active \in BOOLEAN
      /\ issued \in TokenOrNone
      /\ store \in Stores
  BY DEF TypeOK
<1>1. ASSUME NEW a \in ApiCalls, NEW c \in Executions, call' = [call EXCEPT ![a] = c]
      PROVE  Typed
  BY <1>0, <1>1
<1>2. ASSUME UNCHANGED call PROVE Typed
  BY <1>0, <1>2
<1>3. Free \in Executions
  BY Constants
<1>4. ASSUME NEW a \in ApiCalls PROVE call[a] \in Executions
  BY <1>0, <1>4
<1>5. ASSUME NEW a \in ApiCalls, NEW s \in Stages
      PROVE  /\ [call[a] EXCEPT !.at = s] \in Executions
             /\ Finish(a, s) \in Executions
  BY <1>3, <1>4, CallMoves DEF Finish
<1>6. ASSUME NEW a \in ApiCalls, Api(a) PROVE Typed
  <2>1. CASE ReadUser(a)
    <3>1. [call[a] EXCEPT !.at = "issue", !.flag = mustChange] \in Executions
      BY <1>4, CallMoves DEF TypeOK, Stages
    <3>2. QED
      BY <2>1, <3>1, <1>1, <1>5 DEF ReadUser, Stages
  <2>2. CASE Validate(a)
    BY <2>2, <1>1, <1>5 DEF Validate, Stages
  <2>3. CASE Revoke(a)
    <3>1. [call[a] EXCEPT !.at = "issue", !.flag = FALSE] \in Executions
      BY <1>4, CallMoves DEF Stages
    <3>2. QED
      BY <2>3, <3>1, <1>1 DEF Revoke
  <2>4. CASE Issue(a)
    <3>1. issued + 1 \in TokenOrNone
      BY <1>0, <2>4 DEF Issue, TokenOrNone, ConstantsAssumption
    <3>2. [call[a] EXCEPT !.at = "granted", !.token = issued + 1] \in Executions
      BY <1>4, <3>1, CallMoves DEF Stages
    <3>3. QED
      BY <2>4, <3>2, <1>1, <1>3 DEF Issue
  <2>5. QED
    BY <1>6, <2>1, <2>2, <2>3, <2>4 DEF Api
<1>7. ASSUME NEW a \in ApiCalls, NEW r \in Requests, NEW s \in Stages, NEW t \in TokenOrNone,
             Begin(a, r, s, t)
      PROVE  Typed
  BY <1>0, <1>1, <1>7, CallBegins DEF Begin
<1>8. ASSUME NEW r \in Requests, Proceed(r) \/ Acquire(r) \/ SignIn(r) PROVE Typed
  <2>1. CASE Acquire(r)
    <3>1. store.refresh \in TokenOrNone
      BY <1>0 DEF Stores
    <3>2. QED
      BY <1>7, <2>1, <3>1 DEF Acquire, Stages
  <2>2. CASE SignIn(r)
    BY <1>7, <2>2 DEF SignIn, Stages, TokenOrNone
  <2>3. CASE HearGranted(r) \/ HearRefused(r)
    BY <1>1, <1>3, <2>3 DEF HearGranted, HearRefused
  <2>4. CASE GiveUp(r)
    <3>1. PICK a \in ApiCalls : \E c \in {Orphaned(call[a]), Free} : call' = [call EXCEPT ![a] = c]
      BY <2>4 DEF GiveUp
    <3>2. Orphaned(call[a]) \in Executions
      BY <1>3, <1>4 DEF Orphaned, Executions
    <3>3. QED
      BY <1>1, <1>3, <3>1, <3>2
  <2>5. QED
    BY <1>2, <1>8, <2>1, <2>2, <2>3, <2>4
    DEF Proceed, Answered, NotAnswered, NothingToPresent, SaveAccess, SaveRefresh, SaveFlag,
        ClearFlag
<1>9. CASE Restart
  <2>1. ASSUME NEW a \in ApiCalls PROVE Orphaned(call[a]) \in Executions
    BY <1>3, <1>4 DEF Orphaned, Executions
  <2>2. QED
    BY <1>9, <2>1 DEF Restart
<1>10. CASE World
  <2>1. ASSUME NEW v \in BOOLEAN, NEW a \in ApiCalls
        PROVE  [call[a] EXCEPT !.vouched = @ \/ v] \in Executions
    <3>1. call[a].vouched \/ v \in BOOLEAN
      OBVIOUS
    <3>2. QED
      BY <1>4, <3>1 DEF Executions
  <2>2. ASSUME NEW v \in BOOLEAN, SetDriverActive(v) PROVE Typed
    BY <1>3, <2>1, <2>2 DEF SetDriverActive
  <2>3. QED
    BY <1>2, <1>10, <2>2 DEF World, ExpireAccess
<1>11. ASSUME NEW r \in Requests, NEW k, Start(r, k) PROVE Typed
  BY <1>2, <1>11 DEF Start
<1>12. CASE SignOut \/ UNCHANGED vars
  BY <1>2, <1>12 DEF SignOut, vars
<1>13. QED
  BY <1>6, <1>8, <1>9, <1>10, <1>11, <1>12 DEF Next, Driver

\* The requests of the app keep theirs.
LEMMA StepKeepsRequests ==
  ASSUME ConstantsAssumption, TypeOK, [Next]_vars
  PROVE  req' \in [Requests -> Activities]
<1> DEFINE Typed == req' \in [Requests -> Activities]
<1>0. /\ req \in [Requests -> Activities]
      /\ call \in [ApiCalls -> Executions]
      /\ store \in Stores
  BY DEF TypeOK
<1>1. ASSUME NEW r \in Requests, NEW q \in Activities, req' = [req EXCEPT ![r] = q]
      PROVE  Typed
  BY <1>0, <1>1
<1>2. ASSUME UNCHANGED req PROVE Typed
  BY <1>0, <1>2
<1>3. Idle \in Activities
  BY Constants
<1>4. ASSUME NEW r \in Requests PROVE req[r] \in Activities
  BY <1>0, <1>4
<1>5. ASSUME NEW r \in Requests, NEW s \in Steps, GoesTo(r, s) PROVE Typed
  BY <1>1, <1>4, <1>5, RequestMoves DEF GoesTo
<1>6. ASSUME NEW r \in Requests, Ends(r) PROVE Typed
  BY <1>1, <1>3, <1>6 DEF Ends
<1>7. ASSUME NEW r \in Requests, Proceed(r) \/ Acquire(r) PROVE Typed
  <2>1. CASE HearGranted(r)
    <3>1. PICK a \in ApiCalls :
            req' = [req EXCEPT ![r] = [req[r] EXCEPT !.step = "saveAccess", !.token = call[a].token,
                                                     !.flag = call[a].flag]]
      BY <2>1 DEF HearGranted
    <3>2. call[a].token \in TokenOrNone /\ call[a].flag \in BOOLEAN
      BY <1>0 DEF Executions
    <3>3. QED
      BY <1>1, <1>4, <3>1, <3>2, RequestMoves DEF Steps, Saving
  <2>2. QED
    BY <1>5, <1>6, <1>7, <2>1
    DEF Proceed, Acquire, Answered, NotAnswered, NothingToPresent, HearRefused, GiveUp, SaveAccess,
        SaveRefresh, SaveFlag, ClearFlag, Steps, Saving
<1>8. CASE Driver
  <2>1. ASSUME NEW r \in Requests, NEW k \in {"read", "change"}, Start(r, k) PROVE Typed
    <3>1. store.access \in TokenOrNone
      BY <1>0 DEF Stores
    <3>2. QED
      BY <1>1, <1>3, <2>1, <3>1, RequestStarts DEF Start, Steps
  <2>2. ASSUME NEW r \in Requests, SignIn(r) PROVE Typed
    <3>1. 0 \in TokenOrNone
      BY DEF TokenOrNone, ConstantsAssumption
    <3>2. [Idle EXCEPT !.step = "calling", !.kind = "login"] \in Activities
      BY <1>3, <3>1, RequestStarts DEF Steps
    <3>3. QED
      BY <1>1, <2>2, <3>2 DEF SignIn
  <2>3. QED
    BY <1>2, <1>3, <1>8, <2>1, <2>2 DEF Driver, SignOut, Restart
<1>9. CASE (\E a \in ApiCalls : Api(a)) \/ World \/ UNCHANGED vars
  BY <1>2, <1>9
  DEF Api, ReadUser, Validate, Revoke, Issue, World, ExpireAccess, SetDriverActive, clientVars, vars
<1>10. QED
  BY <1>7, <1>8, <1>9 DEF Next

\* Who holds the lock is refreshing.
LEMMA StepKeepsHolder ==
  ASSUME ConstantsAssumption, TypeOK, [Next]_vars
  PROVE  /\ lock' \in Requests \cup {NoOne}
         /\ lock' # NoOne => req'[lock'].step \in {"calling"} \cup Saving
<1> DEFINE Holds == /\ lock' \in Requests \cup {NoOne}
                    /\ lock' # NoOne => req'[lock'].step \in {"calling"} \cup Saving
<1>0. /\ req \in [Requests -> Activities]
      /\ lock \in Requests \cup {NoOne}
      /\ lock # NoOne => req[lock].step \in {"calling"} \cup Saving
      /\ NoOne \notin Requests
  BY DEF TypeOK, ConstantsAssumption
<1>1. ASSUME UNCHANGED <<req, lock>> PROVE Holds
  BY <1>0, <1>1
<1>2. ASSUME NEW r \in Requests, NEW q, req' = [req EXCEPT ![r] = q],
             UNCHANGED lock, lock = r => q.step \in {"calling"} \cup Saving
      PROVE  Holds
  BY <1>0, <1>2
<1>3. ASSUME NEW r \in Requests, NEW q, req' = [req EXCEPT ![r] = q], lock' = ReleasedBy(r)
      PROVE  Holds
  BY <1>0, <1>3 DEF ReleasedBy
<1>4. ASSUME NEW r \in Requests, Proceed(r) \/ Acquire(r) PROVE Holds
  <2>1. CASE Answered(r) \/ NotAnswered(r) \/ NothingToPresent(r) \/ ClearFlag(r)
    <3>1. lock # r
      BY <1>0, <2>1 DEF Answered, NotAnswered, NothingToPresent, ClearFlag, Saving
    <3>2. QED
      BY <1>2, <2>1, <3>1
      DEF Answered, NotAnswered, NothingToPresent, ClearFlag, GoesTo, Ends
  <2>2. CASE HearRefused(r) \/ GiveUp(r) \/ SaveFlag(r)
    BY <1>3, <2>2 DEF HearRefused, GiveUp, SaveFlag, GoesTo, Ends
  <2>3. CASE Acquire(r)
    <3>1. [req[r] EXCEPT !.step = "calling"].step = "calling"
      BY <1>0 DEF Activities
    <3>2. QED
      BY <1>0, <2>3, <3>1 DEF Acquire, GoesTo
  <2>4. CASE HearGranted(r) \/ SaveAccess(r) \/ SaveRefresh(r)
    <3>1. UNCHANGED lock
      BY <2>4 DEF HearGranted, SaveAccess, SaveRefresh
    <3>2. PICK q : req' = [req EXCEPT ![r] = q] /\ q.step \in Saving
      <4>1. ASSUME NEW s \in Saving PROVE [req[r] EXCEPT !.step = s].step = s
        BY <1>0 DEF Activities
      <4>2. ASSUME NEW a \in ApiCalls
            PROVE  [req[r] EXCEPT !.step = "saveAccess", !.token = call[a].token,
                                  !.flag = call[a].flag].step = "saveAccess"
        BY <1>0 DEF Activities
      <4>3. QED
        BY <2>4, <4>1, <4>2 DEF HearGranted, SaveAccess, SaveRefresh, GoesTo, Saving
    <3>3. QED
      BY <1>2, <3>1, <3>2
  <2>5. QED
    BY <1>4, <2>1, <2>2, <2>3, <2>4 DEF Proceed
<1>5. CASE Driver
  <2>1. ASSUME NEW r \in Requests, req[r] = Idle PROVE lock # r
    BY <1>0, <2>1 DEF Idle, Saving
  <2>2. QED
    BY <1>0, <1>1, <1>2, <1>5, <2>1 DEF Driver, Start, SignIn, SignOut, Restart
<1>6. CASE (\E a \in ApiCalls : Api(a)) \/ World \/ UNCHANGED vars
  BY <1>1, <1>6
  DEF Api, ReadUser, Validate, Revoke, Issue, World, ExpireAccess, SetDriverActive, clientVars, vars
<1>7. QED
  BY <1>4, <1>5, <1>6 DEF Next

\* What the API and the phone have stored keeps its types.
LEMMA StepKeepsStored ==
  ASSUME ConstantsAssumption, TypeOK, [Next]_vars
  PROVE  /\ issued' \in TokenOrNone /\ live' \subseteq 1..issued' /\ fresh' \subseteq 1..issued'
         /\ store' \in Stores
         /\ page' \in {"login", "changePassword", "deliveries"}
         /\ kills' \in 0..MaxKills
         /\ active' \in BOOLEAN /\ mustChange' \in BOOLEAN /\ cut' \in BOOLEAN
<1> DEFINE ServerTyped == /\ issued' \in TokenOrNone
                          /\ live' \subseteq 1..issued'
                          /\ fresh' \subseteq 1..issued'
           PhoneTyped == /\ store' \in Stores
                         /\ page' \in {"login", "changePassword", "deliveries"}
           FlagsTyped == active' \in BOOLEAN /\ mustChange' \in BOOLEAN /\ cut' \in BOOLEAN
<1>0. /\ issued \in TokenOrNone /\ live \subseteq 1..issued /\ fresh \subseteq 1..issued
      /\ store \in Stores
      /\ page \in {"login", "changePassword", "deliveries"}
      /\ kills \in 0..MaxKills
      /\ active \in BOOLEAN /\ mustChange \in BOOLEAN /\ cut \in BOOLEAN
      /\ req \in [Requests -> Activities]
      /\ MaxTokens \in Nat /\ MaxKills \in Nat
  BY DEF TypeOK, ConstantsAssumption
<1>1. ASSUME UNCHANGED serverVars PROVE ServerTyped /\ active' = active /\ mustChange' = mustChange
  BY <1>0, <1>1 DEF serverVars
<1>2. ASSUME UNCHANGED <<store, page>> PROVE PhoneTyped
  BY <1>0, <1>2
<1>3. ASSUME NEW a \in ApiCalls, Api(a)
      PROVE  ServerTyped /\ PhoneTyped /\ FlagsTyped /\ kills' = kills
  <2>1. UNCHANGED <<active, mustChange, store, page, kills, cut>>
    BY <1>3 DEF Api, ReadUser, Validate, Revoke, Issue, serverVars, clientVars
  <2>2. ServerTyped
    <3>1. CASE ReadUser(a) \/ Validate(a)
      BY <1>1, <3>1 DEF ReadUser, Validate
    <3>2. CASE Revoke(a)
      BY <1>0, <3>2 DEF Revoke
    <3>3. CASE Issue(a)
      <4>1. issued' = issued + 1 /\ issued + 1 \in 1..MaxTokens
        BY <1>0, <3>3 DEF Issue, TokenOrNone
      <4>2. live' \subseteq live \cup {issued + 1} /\ fresh' \subseteq fresh \cup {issued + 1}
        BY <3>3 DEF Issue
      <4>3. QED
        BY <1>0, <4>1, <4>2 DEF TokenOrNone
    <3>4. QED
      BY <1>3, <3>1, <3>2, <3>3 DEF Api
  <2>3. QED
    BY <1>0, <1>2, <2>1, <2>2
<1>4. ASSUME NEW r \in Requests, Proceed(r) \/ Acquire(r)
      PROVE  ServerTyped /\ PhoneTyped /\ FlagsTyped /\ kills' = kills
  <2>1. kills' = kills /\ ServerTyped /\ active' = active
    BY <1>0, <1>1, <1>4
    DEF Proceed, Acquire, Answered, NotAnswered, NothingToPresent, HearGranted, HearRefused, GiveUp,
        SaveAccess, SaveRefresh, SaveFlag, ClearFlag, serverVars
  <2>2. mustChange' = mustChange \/ mustChange' = FALSE
    BY <1>4
    DEF Proceed, Acquire, Answered, NotAnswered, NothingToPresent, HearGranted, HearRefused, GiveUp,
        SaveAccess, SaveRefresh, SaveFlag, ClearFlag, serverVars
  <2>3. cut' = cut \/ cut' = (cut \/ req[r].kind # "login")
    BY <1>4
    DEF Proceed, Acquire, Answered, NotAnswered, NothingToPresent, HearGranted, HearRefused, GiveUp,
        SaveAccess, SaveRefresh, SaveFlag, ClearFlag
  <2>4. FlagsTyped
    BY <1>0, <2>1, <2>2, <2>3
  <2>5. store' \in Stores
    <3>1. SignedOut \in Stores
      BY Constants
    <3>2. req[r].token \in TokenOrNone /\ req[r].flag \in BOOLEAN
      BY <1>0 DEF Activities
    <3>3. /\ [store EXCEPT !.access = req[r].token] \in Stores
          /\ [store EXCEPT !.refresh = req[r].token] \in Stores
          /\ [store EXCEPT !.mustChange = req[r].flag] \in Stores
          /\ [store EXCEPT !.mustChange = FALSE] \in Stores
      BY <1>0, <3>2, StoreMoves
    <3>4. QED
      BY <1>0, <1>4, <3>1, <3>3
      DEF Proceed, Acquire, Answered, NotAnswered, NothingToPresent, HearGranted, HearRefused,
          GiveUp, SaveAccess, SaveRefresh, SaveFlag, ClearFlag
  <2>6. page' \in {"login", "changePassword", "deliveries"}
    BY <1>0, <1>4
    DEF Proceed, Acquire, Answered, NotAnswered, NothingToPresent, HearGranted, HearRefused, GiveUp,
        SaveAccess, SaveRefresh, SaveFlag, ClearFlag
  <2>7. QED
    BY <2>1, <2>4, <2>5, <2>6
<1>5. CASE Driver
  <2>1. ServerTyped /\ active' = active /\ mustChange' = mustChange
    BY <1>1, <1>5 DEF Driver, Start, SignIn, SignOut, Restart
  <2>2. PhoneTyped
    <3>1. SignedOut \in Stores
      BY Constants
    <3>2. Landing \in {"login", "changePassword", "deliveries"}
      BY DEF Landing
    <3>3. QED
      BY <1>0, <1>5, <3>1, <3>2 DEF Driver, Start, SignIn, SignOut, Restart
  <2>3. cut' = cut \/ cut' = (cut \/ lock # NoOne)
    BY <1>5 DEF Driver, Start, SignIn, SignOut, Restart
  <2>4. kills' \in 0..MaxKills
    BY <1>0, <1>5 DEF Driver, Start, SignIn, SignOut, Restart
  <2>5. FlagsTyped
    BY <1>0, <2>1, <2>3
  <2>6. QED
    BY <2>1, <2>2, <2>4, <2>5
<1>6. CASE World
  <2>1. ASSUME NEW t \in Tokens, ExpireAccess(t)
        PROVE  ServerTyped /\ PhoneTyped /\ FlagsTyped /\ kills' = kills
    BY <1>0, <1>2, <2>1 DEF ExpireAccess, clientVars
  <2>2. ASSUME NEW v \in BOOLEAN, SetDriverActive(v)
        PROVE  ServerTyped /\ PhoneTyped /\ FlagsTyped /\ kills' = kills
    BY <1>0, <1>2, <2>2 DEF SetDriverActive, clientVars
  <2>3. QED
    BY <1>0, <1>6, <2>1, <2>2 DEF World
<1>7. CASE UNCHANGED vars
  BY <1>0, <1>1, <1>2, <1>7 DEF vars, clientVars
<1>8. QED
  BY <1>0, <1>3, <1>4, <1>5, <1>6, <1>7 DEF Next

\* All of that together.
LEMMA StepKeepsTypes ==
  ASSUME ConstantsAssumption, TypeOK, [Next]_vars
  PROVE  TypeOK'
BY StepKeepsCalls, StepKeepsRequests, StepKeepsHolder, StepKeepsStored DEF TypeOK

-----------------------------------------------------------------------------
(* Calls and who waits for them.                                            *)

\* Only the actions of a call, of its caller, of the admin and a kill touch the calls.
LEMMA CallSteps ==
  ASSUME [Next]_vars
  PROVE  \/ UNCHANGED call
         \/ \E a \in ApiCalls : Api(a)
         \/ \E r \in Requests : \/ Acquire(r) \/ SignIn(r)
                                \/ HearGranted(r) \/ HearRefused(r) \/ GiveUp(r)
         \/ Restart
         \/ \E v \in BOOLEAN : SetDriverActive(v)
BY DEF Next, Proceed, Driver, World, Answered, NotAnswered, NothingToPresent, SaveAccess,
       SaveRefresh, SaveFlag, ClearFlag, Start, SignOut, ExpireAccess, vars

\* What the API does to a slot: it moves on, or is free when nobody waits.
LEMMA ApiMoves ==
  ASSUME ConstantsAssumption, TypeOK, FreeIsFree, NEW a \in ApiCalls, Api(a)
  PROVE  /\ call' = [call EXCEPT ![a] = call'[a]]
         /\ call[a] # Free
         /\ \/ call'[a] = Free
            \/ /\ call'[a].at # "free"
               /\ call'[a].client = call[a].client
               /\ call'[a].vouched = call[a].vouched
               /\ call'[a].at \in {"granted", "refused"} => call[a].client # NoOne
               /\ call'[a].at \in {"revoke", "issue"} => active \/ call[a].at = "revoke"
         /\ UNCHANGED <<active, req, lock, store, cut>>
<1>0. call \in [ApiCalls -> Executions] /\ call[a] \in Executions
  BY DEF TypeOK
<1>1. call[a] # Free
  BY DEF Api, ReadUser, Validate, Revoke, Issue, Free
<1>2. ASSUME NEW outcome \in {"granted", "refused"}
      PROVE  \/ Finish(a, outcome) = Free
             \/ /\ Finish(a, outcome).at = outcome
                /\ Finish(a, outcome).client = call[a].client
                /\ Finish(a, outcome).vouched = call[a].vouched
                /\ call[a].client # NoOne
  <2>1. CASE call[a].client = NoOne
    BY <2>1 DEF Finish
  <2>2. CASE call[a].client # NoOne
    <3>1. Finish(a, outcome) = [call[a] EXCEPT !.at = outcome]
      BY <2>2 DEF Finish
    <3>2. QED
      BY <1>0, <2>2, <3>1 DEF Executions
  <2>3. QED
    BY <2>1, <2>2
<1>3. CASE ReadUser(a)
  BY <1>0, <1>1, <1>2, <1>3 DEF ReadUser, Executions, serverVars, clientVars
<1>4. CASE Validate(a)
  <2>1. CASE call'[a] = Finish(a, "refused")
    BY <1>0, <1>1, <1>2, <1>4, <2>1 DEF Validate, serverVars, clientVars
  <2>2. CASE call'[a] = [call[a] EXCEPT !.at = "revoke"] /\ active
    BY <1>0, <1>1, <1>4, <2>2 DEF Validate, Executions, serverVars, clientVars
  <2>3. QED
    BY <1>0, <1>4, <2>1, <2>2 DEF Validate
<1>5. CASE Revoke(a)
  BY <1>0, <1>1, <1>5 DEF Revoke, Executions, clientVars
<1>6. CASE Issue(a)
  BY <1>0, <1>1, <1>6 DEF Issue, Executions, clientVars
<1>7. QED
  BY <1>3, <1>4, <1>5, <1>6 DEF Api

\* A slot is free or properly taken, and a call acts only for an account seen active.
LEMMA StepKeepsVouched ==
  ASSUME ConstantsAssumption, TypeOK, FreeIsFree, Vouched, [Next]_vars
  PROVE  FreeIsFree' /\ Vouched'
<1>0. /\ call \in [ApiCalls -> Executions] /\ active \in BOOLEAN
      /\ \A a \in ApiCalls : call[a].at = "free" <=> call[a] = Free
      /\ \A a \in ApiCalls : active /\ call[a].at # "free" => call[a].vouched
      /\ \A a \in ApiCalls : call[a].at \in {"revoke", "issue"} => call[a].vouched
  BY DEF TypeOK, FreeIsFree, Vouched
<1>1. Free.at = "free"
  BY DEF Free
<1> DEFINE Good(c) == /\ c.at = "free" <=> c = Free
                      /\ active' /\ c.at # "free" => c.vouched
                      /\ c.at \in {"revoke", "issue"} => c.vouched
<1>2. SUFFICES \A a \in ApiCalls : Good(call'[a])
  BY DEF FreeIsFree, Vouched
<1>3. Good(Free)
  BY <1>1
<1>4. ASSUME UNCHANGED active, NEW a \in ApiCalls, call'[a] = call[a] PROVE Good(call'[a])
  BY <1>0, <1>4
<1>5. ASSUME NEW c \in Executions, Good(c) PROVE Good(Orphaned(c))
  <2>1. CASE c.at \in {"free", "granted", "refused"}
    BY <1>3, <2>1 DEF Orphaned
  <2>2. CASE c.at \notin {"free", "granted", "refused"}
    <3>1. Orphaned(c) = [c EXCEPT !.client = NoOne]
      BY <2>2 DEF Orphaned
    <3>2. Orphaned(c).at = c.at /\ Orphaned(c).vouched = c.vouched
      BY <3>1 DEF Executions
    <3>3. Orphaned(c) # Free
      BY <1>1, <2>2, <3>2
    <3>4. QED
      BY <1>5, <2>2, <3>2, <3>3
  <2>3. QED
    BY <2>1, <2>2
<1>6. CASE UNCHANGED call
  <2>1. CASE UNCHANGED active
    BY <1>4, <1>6, <2>1
  <2>2. CASE \E v \in BOOLEAN : SetDriverActive(v)
    <3>1. ASSUME NEW v \in BOOLEAN, SetDriverActive(v), NEW a \in ApiCalls, call[a] # Free, v
          PROVE  call[a].vouched
      <4>1. call'[a] = [call[a] EXCEPT !.vouched = @ \/ v]
        BY <3>1 DEF SetDriverActive
      <4>2. call'[a].vouched
        BY <1>0, <3>1, <4>1 DEF Executions
      <4>3. QED
        BY <1>6, <4>2
    <3>2. QED
      BY <1>0, <1>1, <1>6, <2>2, <3>1 DEF SetDriverActive
  <2>3. QED
    BY <2>1, <2>2
    DEF Next, Api, ReadUser, Validate, Revoke, Issue, Proceed, Acquire, Answered, NotAnswered,
        NothingToPresent, HearGranted, HearRefused, GiveUp, SaveAccess, SaveRefresh, SaveFlag,
        ClearFlag, Driver, Start, SignIn, SignOut, Restart, World, ExpireAccess, serverVars, vars
<1>7. ASSUME NEW a \in ApiCalls, Api(a) PROVE \A b \in ApiCalls : Good(call'[b])
  <2>1. ASSUME NEW b \in ApiCalls, b # a PROVE call'[b] = call[b] /\ UNCHANGED active
    BY <1>0, <1>7, <2>1, ApiMoves
  <2>2. Good(call'[a])
    <3>1. CASE call'[a] = Free
      BY <1>3, <3>1
    <3>2. CASE call'[a] # Free
      BY <1>0, <1>1, <1>7, <3>2, ApiMoves
    <3>3. QED
      BY <3>1, <3>2
  <2>3. QED
    BY <1>4, <2>1, <2>2
<1>8. ASSUME NEW r \in Requests,
             Acquire(r) \/ SignIn(r) \/ HearGranted(r) \/ HearRefused(r) \/ GiveUp(r)
      PROVE  \A b \in ApiCalls : Good(call'[b])
  <2>1. active' = active
    BY <1>8 DEF Acquire, SignIn, HearGranted, HearRefused, GiveUp, serverVars
  <2>2. ASSUME NEW a \in ApiCalls, NEW c, Good(c), call' = [call EXCEPT ![a] = c]
        PROVE  \A b \in ApiCalls : Good(call'[b])
    BY <1>0, <1>4, <2>1, <2>2
  <2>3. ASSUME NEW a \in ApiCalls PROVE Good(Orphaned(call[a]))
    BY <1>0, <1>5, <2>1
  <2>4. ASSUME NEW s \in {"readUser", "validate"}, NEW t, NEW a \in ApiCalls, Begin(a, r, s, t)
        PROVE  \A b \in ApiCalls : Good(call'[b])
    <3>1. Good([at |-> s, client |-> r, token |-> t, flag |-> FALSE, vouched |-> active])
      BY <1>1, <2>1
    <3>2. QED
      BY <2>2, <2>4, <3>1 DEF Begin
  <2>5. CASE Acquire(r) \/ SignIn(r)
    BY <2>4, <2>5 DEF Acquire, SignIn
  <2>6. CASE HearGranted(r) \/ HearRefused(r)
    BY <1>3, <2>2, <2>6 DEF HearGranted, HearRefused
  <2>7. CASE GiveUp(r)
    BY <1>3, <2>2, <2>3, <2>7 DEF GiveUp
  <2>8. QED
    BY <1>8, <2>5, <2>6, <2>7
<1>9. CASE Restart
  <2>1. active' = active
    BY <1>9 DEF Restart, serverVars
  <2>2. QED
    BY <1>0, <1>5, <1>9, <2>1 DEF Restart
<1>10. ASSUME NEW v \in BOOLEAN, SetDriverActive(v) PROVE \A a \in ApiCalls : Good(call'[a])
  <2> SUFFICES ASSUME NEW a \in ApiCalls PROVE Good(call'[a])
    OBVIOUS
  <2>1. CASE call[a] = Free
    BY <1>3, <1>10, <2>1 DEF SetDriverActive
  <2>2. CASE call[a] # Free
    <3>1. call'[a] = [call[a] EXCEPT !.vouched = @ \/ v] /\ active' = v
      BY <1>10, <2>2 DEF SetDriverActive
    <3>2. call'[a].at = call[a].at
      BY <1>0, <3>1 DEF Executions
    <3>3. call'[a].vouched <=> call[a].vouched \/ v
      BY <1>0, <3>1 DEF Executions
    <3>4. QED
      BY <1>0, <1>1, <2>2, <3>1, <3>2, <3>3
  <2>3. QED
    BY <2>1, <2>2
<1>11. QED
  BY <1>6, <1>7, <1>8, <1>9, <1>10, CallSteps

\* A call whose caller is gone goes on for nobody.
LEMMA OrphanedCalls ==
  ASSUME NEW c \in Executions
  PROVE  /\ Orphaned(c).client = NoOne
         /\ Orphaned(c).at \notin {"granted", "refused"}
         /\ Orphaned(c).at \in {"validate", "revoke"} =>
              Orphaned(c).at = c.at /\ Orphaned(c).token = c.token
BY DEF Orphaned, Free, Executions

\* A call's caller waits for it, and for no other.
LEMMA StepKeepsAwaited ==
  ASSUME ConstantsAssumption, TypeOK, FreeIsFree, Awaited, [Next]_vars
  PROVE  Awaited'
<1>0. /\ call \in [ApiCalls -> Executions]
      /\ req \in [Requests -> Activities]
      /\ NoOne \notin Requests
      /\ \A a \in ApiCalls : call[a] \in Executions
      /\ \A a \in ApiCalls : call[a].client \in Requests \cup {NoOne}
      /\ call' \in [ApiCalls -> Executions]
  BY StepKeepsCalls DEF TypeOK, ConstantsAssumption, Executions
<1>1. Free.client = NoOne /\ Free.at = "free"
  BY DEF Free
<1>2. ASSUME \A a \in ApiCalls : call'[a].client \in {call[a].client, NoOne},
             \A a \in ApiCalls : call'[a].at \in {"granted", "refused"} => call'[a].client # NoOne,
             \A a \in ApiCalls : call'[a].client # NoOne =>
               req'[call'[a].client] = req[call'[a].client]
      PROVE  Awaited'
  BY <1>0, <1>2 DEF Awaited
<1>3. ASSUME UNCHANGED call,
             \A r \in Requests : req[r].step = "calling" => req'[r] = req[r]
      PROVE  Awaited'
  BY <1>0, <1>2, <1>3 DEF Awaited
<1>4. ASSUME NEW a \in ApiCalls, Api(a) PROVE Awaited'
  <2>1. /\ \A b \in ApiCalls : b # a => call'[b] = call[b]
        /\ req' = req
        /\ call'[a] = Free \/ /\ call'[a].client = call[a].client
                              /\ call'[a].at \in {"granted", "refused"} => call[a].client # NoOne
    BY <1>0, <1>4, ApiMoves
  <2>2. QED
    BY <1>0, <1>1, <1>2, <2>1 DEF Awaited
<1>5. ASSUME NEW r \in Requests, NEW a \in ApiCalls, NEW s \in {"readUser", "validate"}, NEW t,
             Begin(a, r, s, t), req[r].step # "calling", NEW q, q.step = "calling",
             req' = [req EXCEPT ![r] = q]
      PROVE  Awaited'
  <2>1. \A b \in ApiCalls : call[b].client # r
    BY <1>0, <1>5 DEF Awaited
  <2>2. call'[a].client = r /\ call'[a].at = s /\ \A b \in ApiCalls : b # a => call'[b] = call[b]
    BY <1>0, <1>5 DEF Begin
  <2>3. QED
    BY <1>0, <1>5, <2>1, <2>2 DEF Awaited
<1>6. ASSUME NEW r \in Requests, Acquire(r) PROVE Awaited'
  <2>1. [req[r] EXCEPT !.step = "calling"].step = "calling"
    BY <1>0 DEF Activities
  <2>2. QED
    BY <1>5, <1>6, <2>1 DEF Acquire, GoesTo
<1>7. ASSUME NEW r \in Requests, SignIn(r) PROVE Awaited'
  <2>1. [Idle EXCEPT !.step = "calling", !.kind = "login"].step = "calling" /\ req[r].step # "calling"
    BY <1>7 DEF SignIn, Idle
  <2>2. QED
    BY <1>5, <1>7, <2>1 DEF SignIn
<1>8. ASSUME NEW r \in Requests, HearGranted(r) \/ HearRefused(r) \/ GiveUp(r) PROVE Awaited'
  <2>1. PICK a \in ApiCalls :
          /\ call[a].client = r
          /\ \E c \in {Free, Orphaned(call[a])} : call' = [call EXCEPT ![a] = c]
    BY <1>8 DEF HearGranted, HearRefused, GiveUp
  <2>2. call'[a].client = NoOne /\ call'[a].at \notin {"granted", "refused"}
    BY <1>0, <1>1, <2>1, OrphanedCalls
  <2>3. \A s \in Requests : s # r => req'[s] = req[s]
    BY <1>0, <1>8 DEF HearGranted, HearRefused, GiveUp, Ends
  <2>4. \A b \in ApiCalls : b # a => call[b].client # r /\ call'[b] = call[b]
    BY <1>0, <2>1 DEF Awaited
  <2>5. QED
    BY <1>0, <1>2, <2>1, <2>2, <2>3, <2>4 DEF Awaited
<1>9. CASE Restart
  BY <1>0, <1>2, <1>9, OrphanedCalls DEF Restart
<1>10. ASSUME NEW v \in BOOLEAN, SetDriverActive(v) PROVE Awaited'
  <2>1. \A a \in ApiCalls : call'[a].client = call[a].client /\ call'[a].at = call[a].at
    BY <1>0, <1>10 DEF SetDriverActive, Executions
  <2>2. req' = req
    BY <1>10 DEF SetDriverActive, clientVars
  <2>3. QED
    BY <1>2, <2>1, <2>2 DEF Awaited
<1>11. CASE UNCHANGED call
  <2>1. ASSUME NEW r \in Requests,
               \/ Answered(r) \/ NotAnswered(r) \/ NothingToPresent(r) \/ SaveAccess(r)
               \/ SaveRefresh(r) \/ SaveFlag(r) \/ ClearFlag(r)
               \/ \E k \in {"read", "change"} : Start(r, k)
        PROVE  Awaited'
    <3>1. req[r].step # "calling"
      BY <2>1 DEF Answered, NotAnswered, NothingToPresent, SaveAccess, SaveRefresh, SaveFlag,
                  ClearFlag, Start, Idle
    <3>2. \A s \in Requests : s # r => req'[s] = req[s]
      BY <1>0, <2>1 DEF Answered, NotAnswered, NothingToPresent, SaveAccess, SaveRefresh, SaveFlag,
                        ClearFlag, Start, GoesTo, Ends
    <3>3. QED
      BY <1>3, <1>11, <3>1, <3>2
  <2>2. CASE SignOut \/ UNCHANGED vars \/ \E t \in Tokens : ExpireAccess(t)
    BY <1>3, <1>11, <2>2 DEF SignOut, vars, ExpireAccess, clientVars
  <2>3. QED
    BY <1>4, <1>6, <1>7, <1>8, <1>9, <1>10, <2>1, <2>2 DEF Next, Proceed, Driver, World
<1>12. QED
  BY <1>4, <1>6, <1>7, <1>8, <1>9, <1>10, <1>11, CallSteps

-----------------------------------------------------------------------------
(* The lock.                                                                *)

\* The lock is for those who refresh.
LEMMA StepKeepsLock ==
  ASSUME ConstantsAssumption, TypeOK, LockIsForRefresh, [Next]_vars
  PROVE  LockIsForRefresh'
<1>0. /\ req \in [Requests -> Activities]
      /\ \A r \in Requests : req[r] \in Activities
      /\ call \in [ApiCalls -> Executions]
      /\ NoOne \notin Requests
  BY DEF TypeOK, ConstantsAssumption
<1>1. ASSUME NEW r \in Requests, NEW q, req' = [req EXCEPT ![r] = q],
             q.kind = "login" => q.step \in {"calling"} \cup Saving /\ lock' # r,
             lock' \in {lock, NoOne, r}
      PROVE  LockIsForRefresh'
  BY <1>0, <1>1 DEF LockIsForRefresh
<1>2. ASSUME UNCHANGED <<req, lock>> PROVE LockIsForRefresh'
  BY <1>2 DEF LockIsForRefresh
<1>3. ASSUME NEW r \in Requests, Ends(r), lock' \in {lock, NoOne, r} PROVE LockIsForRefresh'
  <2>1. Idle.kind # "login"
    BY DEF Idle
  <2>2. QED
    BY <1>1, <1>3, <2>1 DEF Ends
<1>4. ASSUME NEW r \in Requests, NEW s, GoesTo(r, s), lock' \in {lock, NoOne, r},
             req[r].kind = "login" => s \in Saving /\ UNCHANGED lock
      PROVE  LockIsForRefresh'
  <2>1. [req[r] EXCEPT !.step = s].kind = req[r].kind /\ [req[r] EXCEPT !.step = s].step = s
    BY <1>0 DEF Activities
  <2>2. QED
    BY <1>1, <1>4, <2>1 DEF GoesTo, LockIsForRefresh
<1>5. ASSUME NEW r \in Requests, Proceed(r) \/ Acquire(r) PROVE LockIsForRefresh'
  <2>1. CASE Answered(r) \/ NotAnswered(r) \/ NothingToPresent(r) \/ Acquire(r) \/ ClearFlag(r)
    <3>1. req[r].kind # "login"
      BY <2>1 DEF Answered, NotAnswered, NothingToPresent, Acquire, ClearFlag, LockIsForRefresh,
                  Saving
    <3>2. QED
      BY <1>3, <1>4, <2>1, <3>1 DEF Answered, NotAnswered, NothingToPresent, Acquire, ClearFlag
  <2>2. CASE HearRefused(r) \/ GiveUp(r)
    BY <1>3, <2>2 DEF HearRefused, GiveUp, ReleasedBy
  <2>3. CASE SaveAccess(r) \/ SaveRefresh(r)
    BY <1>4, <2>3 DEF SaveAccess, SaveRefresh, Saving
  <2>4. CASE SaveFlag(r)
    BY <1>3, <1>4, <2>4 DEF SaveFlag, ReleasedBy
  <2>5. CASE HearGranted(r)
    <3>1. PICK a \in ApiCalls :
            req' = [req EXCEPT ![r] = [req[r] EXCEPT !.step = "saveAccess", !.token = call[a].token,
                                                     !.flag = call[a].flag]]
      BY <2>5 DEF HearGranted
    <3>2. /\ req'[r].kind = req[r].kind
          /\ req'[r].step = "saveAccess"
          /\ req' = [req EXCEPT ![r] = req'[r]]
      BY <1>0, <3>1 DEF Activities
    <3>3. UNCHANGED lock
      BY <2>5 DEF HearGranted
    <3>4. QED
      BY <1>1, <3>2, <3>3 DEF LockIsForRefresh, Saving
  <2>6. QED
    BY <1>5, <2>1, <2>2, <2>3, <2>4, <2>5 DEF Proceed
<1>6. CASE Driver
  <2>1. ASSUME NEW r \in Requests, NEW k \in {"read", "change"}, Start(r, k) PROVE LockIsForRefresh'
    BY <1>1, <2>1 DEF Start
  <2>2. ASSUME NEW r \in Requests, SignIn(r) PROVE LockIsForRefresh'
    <3>1. lock # r
      BY <2>2 DEF SignIn, Idle, TypeOK, Saving
    <3>2. /\ [Idle EXCEPT !.step = "calling", !.kind = "login"].step = "calling"
          /\ UNCHANGED lock
      BY <2>2 DEF SignIn, Idle
    <3>3. QED
      BY <1>1, <2>2, <3>1, <3>2 DEF SignIn
  <2>3. CASE Restart
    BY <2>3 DEF Restart, LockIsForRefresh, Idle
  <2>4. CASE SignOut
    BY <1>2, <2>4 DEF SignOut
  <2>5. QED
    BY <1>6, <2>1, <2>2, <2>3, <2>4 DEF Driver
<1>7. CASE (\E a \in ApiCalls : Api(a)) \/ World \/ UNCHANGED vars
  BY <1>2, <1>7
  DEF Api, ReadUser, Validate, Revoke, Issue, World, ExpireAccess, SetDriverActive, clientVars, vars
<1>8. QED
  BY <1>5, <1>6, <1>7 DEF Next

\* Whoever rotates a token does it for the holder of the lock.
LEMMA StepKeepsRotation ==
  ASSUME ConstantsAssumption, TypeOK, FreeIsFree, Awaited, LockIsForRefresh, RotationHeld,
         [Next]_vars
  PROVE  RotationHeld'
<1>0. /\ call \in [ApiCalls -> Executions]
      /\ \A a \in ApiCalls : call[a] \in Executions
      /\ NoOne \notin Requests
  BY DEF TypeOK, ConstantsAssumption
<1>1. Free.at = "free"
  BY DEF Free
<1>2. ASSUME ~cut' => ~cut /\ UNCHANGED lock,
             \A a \in ApiCalls : Rotating(a)' => Rotating(a) /\ call'[a].client = call[a].client
      PROVE  RotationHeld'
  BY <1>2 DEF RotationHeld, Rotating
<1>3. ASSUME NEW a \in ApiCalls, Api(a) PROVE RotationHeld'
  <2>1. /\ \A b \in ApiCalls : b # a => call'[b] = call[b]
        /\ UNCHANGED <<lock, cut>>
        /\ call'[a] = Free \/ call'[a].client = call[a].client
    BY <1>0, <1>3, ApiMoves
  <2>2. Rotating(a)' => Rotating(a)
    <3>1. CASE ReadUser(a)
      <4>1. \/ call'[a] = Free
            \/ call'[a] = [call[a] EXCEPT !.at = "refused"]
            \/ call'[a] = [call[a] EXCEPT !.at = "issue", !.flag = mustChange]
        BY <1>0, <3>1 DEF ReadUser, Finish
      <4>2. QED
        BY <1>0, <1>1, <4>1 DEF Rotating, Executions
    <3>2. CASE Validate(a) \/ Revoke(a)
      BY <3>2 DEF Validate, Revoke, Rotating
    <3>3. CASE Issue(a)
      <4>1. \/ call'[a] = Free
            \/ call'[a] = [call[a] EXCEPT !.at = "granted", !.token = issued + 1]
        BY <1>0, <3>3 DEF Issue
      <4>2. QED
        BY <1>0, <1>1, <4>1 DEF Rotating, Executions
    <3>4. QED
      BY <1>3, <3>1, <3>2, <3>3 DEF Api
  <2>3. QED
    BY <1>1, <1>2, <2>1, <2>2 DEF Rotating
<1>4. ASSUME NEW r \in Requests, NEW a \in ApiCalls, NEW s, NEW t, Begin(a, r, s, t)
      PROVE  /\ call'[a].client = r /\ call'[a].at = s
             /\ \A b \in ApiCalls : b # a => call'[b] = call[b]
  BY <1>0, <1>4 DEF Begin
<1>5. ASSUME NEW r \in Requests, Acquire(r) PROVE RotationHeld'
  <2>1. lock = NoOne /\ lock' = r /\ cut' = cut
    BY <1>5 DEF Acquire
  <2>2. QED
    BY <1>0, <1>4, <1>5, <2>1 DEF Acquire, RotationHeld, Rotating
<1>6. ASSUME NEW r \in Requests, SignIn(r) PROVE RotationHeld'
  <2>1. UNCHANGED <<lock, cut>>
    BY <1>6 DEF SignIn
  <2>2. QED
    BY <1>2, <1>4, <1>6, <2>1 DEF SignIn, Rotating
<1>7. ASSUME NEW r \in Requests, HearGranted(r) \/ HearRefused(r) \/ GiveUp(r) PROVE RotationHeld'
  <2>1. PICK a \in ApiCalls :
          /\ call[a].client = r
          /\ \E c \in {Free, Orphaned(call[a])} : call' = [call EXCEPT ![a] = c]
    BY <1>7 DEF HearGranted, HearRefused, GiveUp
  <2>2. \A b \in ApiCalls : b # a => call'[b] = call[b] /\ call[b].client # r
    BY <1>0, <2>1 DEF Awaited
  <2>3. CASE HearGranted(r) \/ HearRefused(r)
    <3>1. call'[a] = Free /\ cut' = cut
      <4>1. PICK b \in ApiCalls : call[b].client = r /\ call' = [call EXCEPT ![b] = Free]
        BY <2>3 DEF HearGranted, HearRefused
      <4>2. b = a
        BY <1>0, <2>1, <4>1 DEF Awaited
      <4>3. QED
        BY <1>0, <2>3, <4>1, <4>2 DEF HearGranted, HearRefused
    <3>2. lock' = lock \/ lock = r
      BY <2>3 DEF HearGranted, HearRefused, ReleasedBy
    <3>3. QED
      BY <1>1, <2>2, <3>1, <3>2 DEF RotationHeld, Rotating
  <2>4. CASE GiveUp(r)
    <3>1. CASE req[r].kind # "login"
      BY <2>4, <3>1 DEF GiveUp, RotationHeld
    <3>2. CASE req[r].kind = "login"
      <4>1. lock # r
        BY <3>2 DEF LockIsForRefresh
      <4>2. ~cut' => ~cut
        BY <2>4 DEF GiveUp
      <4>3. ~cut => ~Rotating(a)
        BY <2>1, <4>1 DEF RotationHeld
      <4>4. call'[a] = Free \/ call'[a] = Orphaned(call[a])
        BY <1>0, <2>1
      <4>5. ~cut => ~Rotating(a)'
        BY <1>0, <1>1, <4>3, <4>4, OrphanedCalls DEF Rotating
      <4>6. lock' = lock
        BY <2>4, <4>1 DEF GiveUp, ReleasedBy
      <4>7. QED
        BY <2>2, <4>2, <4>5, <4>6 DEF RotationHeld, Rotating
    <3>3. QED
      BY <3>1, <3>2
  <2>5. QED
    BY <1>7, <2>3, <2>4
<1>8. CASE Restart
  <2>1. ~cut' => ~cut /\ lock = NoOne
    BY <1>8 DEF Restart
  <2>2. ASSUME NEW a \in ApiCalls, ~cut' PROVE ~Rotating(a)'
    <3>1. ~Rotating(a)
      BY <2>1, <2>2 DEF RotationHeld
    <3>2. call'[a] = Orphaned(call[a])
      BY <1>8 DEF Restart
    <3>3. QED
      BY <1>0, <3>1, <3>2, OrphanedCalls DEF Rotating
  <2>3. QED
    BY <2>2 DEF RotationHeld
<1>9. ASSUME NEW v \in BOOLEAN, SetDriverActive(v) PROVE RotationHeld'
  <2>1. \A a \in ApiCalls : call'[a].client = call[a].client /\ call'[a].at = call[a].at
    BY <1>0, <1>9 DEF SetDriverActive, Executions
  <2>2. UNCHANGED <<lock, cut>>
    BY <1>9 DEF SetDriverActive, clientVars
  <2>3. QED
    BY <1>2, <2>1, <2>2 DEF Rotating
<1>10. ASSUME NEW r \in Requests, SaveFlag(r) PROVE RotationHeld'
  <2>1. call' = call /\ cut' = cut /\ lock' \in {lock, NoOne} /\ (lock' # lock => lock = r)
    BY <1>10 DEF SaveFlag, ReleasedBy
  <2>2. lock = r => \A a \in ApiCalls : call[a].client # r
    BY <1>0, <1>10 DEF SaveFlag, Awaited
  <2>3. QED
    BY <2>1, <2>2 DEF RotationHeld, Rotating
<1>11. CASE UNCHANGED <<call, lock, cut>>
  BY <1>2, <1>11 DEF Rotating
<1>12. ASSUME NEW r \in Requests,
              \/ Answered(r) \/ NotAnswered(r) \/ NothingToPresent(r) \/ SaveAccess(r)
              \/ SaveRefresh(r) \/ ClearFlag(r)
              \/ \E k \in {"read", "change"} : Start(r, k)
       PROVE  RotationHeld'
  BY <1>11, <1>12 DEF Answered, NotAnswered, NothingToPresent, SaveAccess, SaveRefresh, ClearFlag,
                      Start
<1>13. CASE SignOut \/ UNCHANGED vars \/ \E t \in Tokens : ExpireAccess(t)
  BY <1>11, <1>13 DEF SignOut, vars, ExpireAccess, clientVars
<1>14. QED
  BY <1>3, <1>5, <1>6, <1>7, <1>8, <1>9, <1>10, <1>12, <1>13 DEF Next, Proceed, Driver, World

-----------------------------------------------------------------------------
(* Tokens.                                                                  *)

\* A pair on its way to the store stays alive and unseen, and only issued tokens are known.
LEMMA StepKeepsTokens ==
  ASSUME ConstantsAssumption, TypeOK, FreeIsFree, PairsUnseen, KnownTokens, [Next]_vars
  PROVE  PairsUnseen' /\ KnownTokens'
<1>0. /\ call \in [ApiCalls -> Executions]
      /\ \A a \in ApiCalls : call[a] \in Executions
      /\ req \in [Requests -> Activities]
      /\ \A r \in Requests : req[r] \in Activities
      /\ store \in Stores /\ store.refresh \in Nat
      /\ issued \in Nat /\ live \subseteq 1..issued
  BY DEF TypeOK, ConstantsAssumption, Stores, TokenOrNone
<1>1. Free.at = "free" /\ Idle.step = "idle" /\ SignedOut.refresh = 0
  BY DEF Free, Idle, SignedOut
<1> DEFINE NoneAdded == /\ \A a \in ApiCalls :
                             Granted(a)' => Granted(a) /\ call'[a].token = call[a].token
                        /\ \A a \in ApiCalls :
                             Rotating(a)' => Rotating(a) /\ call'[a].token = call[a].token
           NoneTaken == \A r \in Requests :
                          HasPair(r)' => HasPair(r) /\ req'[r].token = req[r].token
           Kept == store'.refresh \in {store.refresh, 0} /\ issued' = issued
\* Steps that put no pair on its way, store none, present none and revoke none.
<1>2. ASSUME NoneAdded, NoneTaken, Kept, live' = live
      PROVE  PairsUnseen' /\ KnownTokens'
  <2>1. ASSUME NEW t, Unseen(t) PROVE Unseen(t)'
    BY <1>0, <1>2, <2>1 DEF Unseen
  <2>2. PairsUnseen'
    BY <1>2, <2>1 DEF PairsUnseen
  <2>3. KnownTokens'
    BY <1>0, <1>2 DEF KnownTokens
  <2>4. QED
    BY <2>2, <2>3
<1>3. ASSUME NEW r \in Requests, NEW q, req' = [req EXCEPT ![r] = q],
             q.step \notin {"saveAccess", "saveRefresh"}
      PROVE  NoneTaken
  BY <1>0, <1>3 DEF HasPair
<1>4. ASSUME NEW r \in Requests, NEW s, GoesTo(r, s), s \notin {"saveAccess", "saveRefresh"}
      PROVE  NoneTaken
  <2>1. [req[r] EXCEPT !.step = s].step = s
    BY <1>0 DEF Activities
  <2>2. QED
    BY <1>3, <1>4, <2>1 DEF GoesTo
<1>5. ASSUME NEW r \in Requests, Ends(r) PROVE NoneTaken
  BY <1>1, <1>3, <1>5 DEF Ends
<1>6. ASSUME UNCHANGED call PROVE NoneAdded
  BY <1>6 DEF Granted, Rotating
<1>7. ASSUME NEW a \in ApiCalls, NEW c \in {Free, Orphaned(call[a])}, call' = [call EXCEPT ![a] = c]
      PROVE  NoneAdded
  BY <1>0, <1>1, <1>7, OrphanedCalls DEF Granted, Rotating
<1>8. ASSUME NEW a \in ApiCalls, ReadUser(a) \/ Validate(a) PROVE PairsUnseen' /\ KnownTokens'
  <2>1. /\ live' = live /\ Kept /\ NoneTaken
        /\ \A b \in ApiCalls : b # a => call'[b] = call[b]
    BY <1>0, <1>8 DEF ReadUser, Validate, serverVars, clientVars, HasPair
  <2>2. \/ call'[a] = Free
        \/ call'[a] = [call[a] EXCEPT !.at = "refused"]
        \/ call'[a] = [call[a] EXCEPT !.at = "issue", !.flag = mustChange]
        \/ call'[a] = [call[a] EXCEPT !.at = "revoke"] /\ Rotating(a)
    BY <1>0, <1>8 DEF ReadUser, Validate, Finish, Rotating
  <2>3. NoneAdded
    BY <1>0, <1>1, <2>1, <2>2 DEF Granted, Rotating, Executions
  <2>4. QED
    BY <1>2, <2>1, <2>3
<1>9. ASSUME NEW a \in ApiCalls, Revoke(a) PROVE PairsUnseen' /\ KnownTokens'
  <2>1. /\ live' = live \ {call[a].token} /\ issued' = issued /\ store' = store /\ req' = req
        /\ Rotating(a)
        /\ \A b \in ApiCalls : b # a => call'[b] = call[b]
        /\ call'[a] = [call[a] EXCEPT !.at = "issue", !.flag = FALSE]
    BY <1>0, <1>9 DEF Revoke, clientVars, Rotating
  <2>2. NoneAdded
    BY <1>0, <2>1 DEF Granted, Rotating, Executions
  <2>3. NoneTaken
    BY <2>1 DEF HasPair
  <2>4. ASSUME NEW t, Unseen(t) PROVE Unseen(t)'
    BY <2>1, <2>2, <2>4 DEF Unseen
  <2>5. PairsUnseen'
    BY <2>2, <2>3, <2>4 DEF PairsUnseen
  <2>6. KnownTokens'
    BY <2>1, <2>2 DEF KnownTokens
  <2>7. QED
    BY <2>5, <2>6
<1>10. ASSUME NEW a \in ApiCalls, Issue(a) PROVE PairsUnseen' /\ KnownTokens'
  <2>1. /\ live' = live \cup {issued + 1} /\ issued' = issued + 1 /\ store' = store /\ req' = req
        /\ \A b \in ApiCalls : b # a => call'[b] = call[b]
        /\ \/ call'[a] = Free
           \/ call'[a] = [call[a] EXCEPT !.at = "granted", !.token = issued + 1]
    BY <1>0, <1>10 DEF Issue, clientVars
  <2>2. ~Rotating(a)' /\ (Granted(a)' => call'[a].token = issued + 1)
    BY <1>0, <1>1, <2>1 DEF Rotating, Granted, Executions
  <2>3. ASSUME NEW t, Unseen(t) PROVE Unseen(t)' /\ t # issued + 1
    BY <1>0, <2>1, <2>2, <2>3 DEF Unseen, Rotating
  <2>4. \A b \in ApiCalls : b # a =>
          /\ Granted(b)' <=> Granted(b)
          /\ Rotating(b)' <=> Rotating(b)
          /\ call'[b].token = call[b].token
    BY <2>1 DEF Granted, Rotating
  <2>5. \A r \in Requests : (HasPair(r)' <=> HasPair(r)) /\ req'[r].token = req[r].token
    BY <2>1 DEF HasPair
  <2>6. KnownTokens'
    <3>1. \A b \in ApiCalls : call[b].token \in Nat
      BY <1>0 DEF Executions, TokenOrNone, ConstantsAssumption
    <3>2. QED
      BY <1>0, <2>1, <2>2, <2>4, <3>1 DEF KnownTokens
  <2>7. ASSUME NEW t, t = issued + 1 PROVE Unseen(t)'
    <3>1. t # store'.refresh /\ t \in live'
      BY <1>0, <2>1, <2>7 DEF KnownTokens
    <3>2. ASSUME NEW b \in ApiCalls, Rotating(b)' PROVE call'[b].token # t
      BY <1>0, <2>2, <2>4, <2>7, <3>2 DEF KnownTokens
    <3>3. QED
      BY <3>1, <3>2 DEF Unseen
  <2>8. PairsUnseen'
    BY <2>2, <2>3, <2>4, <2>5, <2>7 DEF PairsUnseen
  <2>9. QED
    BY <2>6, <2>8
<1>11. ASSUME NEW r \in Requests, Acquire(r) PROVE PairsUnseen' /\ KnownTokens'
  <2>1. PICK a \in ApiCalls : Begin(a, r, "validate", store.refresh)
    BY <1>11 DEF Acquire
  <2>2. /\ call'[a].token = store.refresh /\ ~Granted(a)'
        /\ \A b \in ApiCalls : b # a => call'[b] = call[b]
    BY <1>0, <2>1 DEF Begin, Granted
  <2>3. live' = live /\ issued' = issued /\ store' = store /\ NoneTaken
    BY <1>4, <1>11 DEF Acquire, serverVars
  <2>4. \A b \in ApiCalls : b # a =>
          /\ Granted(b)' <=> Granted(b)
          /\ Rotating(b)' <=> Rotating(b)
          /\ call'[b].token = call[b].token
    BY <2>2 DEF Granted, Rotating
  <2>5. ASSUME NEW t, Unseen(t) PROVE Unseen(t)'
    BY <2>2, <2>3, <2>4, <2>5 DEF Unseen
  <2>6. PairsUnseen'
    BY <2>2, <2>3, <2>4, <2>5 DEF PairsUnseen
  <2>7. KnownTokens'
    BY <2>2, <2>3, <2>4 DEF KnownTokens
  <2>8. QED
    BY <2>6, <2>7
<1>12. ASSUME NEW r \in Requests, HearGranted(r) PROVE PairsUnseen' /\ KnownTokens'
  <2>1. PICK a \in ApiCalls :
          /\ call[a].at = "granted"
          /\ call' = [call EXCEPT ![a] = Free]
          /\ req' = [req EXCEPT ![r] = [req[r] EXCEPT !.step = "saveAccess", !.token = call[a].token,
                                                      !.flag = call[a].flag]]
    BY <1>12 DEF HearGranted
  <2>2. live' = live /\ issued' = issued /\ store' = store
    BY <1>12 DEF HearGranted, serverVars
  <2>3. NoneAdded /\ ~Granted(a)' /\ Granted(a)
    BY <1>0, <1>1, <1>7, <2>1 DEF Granted
  <2>4. /\ req'[r].token = call[a].token
        /\ \A s \in Requests : s # r => req'[s] = req[s]
    BY <1>0, <2>1 DEF Activities
  <2>5. \A s \in Requests : s # r => (HasPair(s)' <=> HasPair(s)) /\ req'[s].token = req[s].token
    BY <2>4 DEF HasPair
  <2>6. ASSUME NEW t, Unseen(t) PROVE Unseen(t)'
    BY <2>2, <2>3, <2>6 DEF Unseen
  <2>7. PairsUnseen'
    BY <2>3, <2>4, <2>5, <2>6 DEF PairsUnseen
  <2>8. KnownTokens'
    BY <2>2, <2>3 DEF KnownTokens
  <2>9. QED
    BY <2>7, <2>8
<1>13. ASSUME NEW r \in Requests, SaveRefresh(r) PROVE PairsUnseen' /\ KnownTokens'
  <2>1. /\ live' = live /\ issued' = issued /\ call' = call
        /\ store'.refresh = req[r].token
        /\ HasPair(r)
        /\ GoesTo(r, "saveFlag")
    BY <1>0, <1>13 DEF SaveRefresh, serverVars, Stores, HasPair
  <2>2. NoneAdded /\ NoneTaken /\ ~HasPair(r)'
    <3>1. req'[r].step = "saveFlag"
      BY <1>0, <2>1 DEF GoesTo, Activities
    <3>2. QED
      BY <1>4, <1>6, <2>1, <3>1 DEF HasPair
  <2>3. ASSUME NEW t, Unseen(t), t # req[r].token PROVE Unseen(t)'
    BY <2>1, <2>2, <2>3 DEF Unseen
  <2>4. \A a \in ApiCalls : Granted(a) => call[a].token # req[r].token
    BY <2>1 DEF PairsUnseen
  <2>5. \A s \in Requests : HasPair(s) /\ s # r => req[s].token # req[r].token
    BY <2>1 DEF PairsUnseen
  <2>6. PairsUnseen'
    BY <2>2, <2>3, <2>4, <2>5 DEF PairsUnseen
  <2>7. KnownTokens'
    <3>1. req[r].token \in live
      BY <2>1 DEF PairsUnseen, Unseen
    <3>2. req[r].token \in 1..issued /\ issued \in Nat
      BY <1>0, <3>1
    <3>3. req[r].token <= issued
      BY <3>2
    <3>4. store'.refresh <= issued'
      BY <2>1, <3>3
    <3>5. QED
      BY <2>1, <2>2, <3>4 DEF KnownTokens
  <2>8. QED
    BY <2>6, <2>7
<1>14. ASSUME NEW r \in Requests, HearRefused(r) \/ GiveUp(r) PROVE PairsUnseen' /\ KnownTokens'
  <2>1. live' = live /\ Kept /\ NoneTaken
    BY <1>1, <1>5, <1>14 DEF HearRefused, GiveUp, serverVars
  <2>2. NoneAdded
    BY <1>7, <1>14 DEF HearRefused, GiveUp
  <2>3. QED
    BY <1>2, <2>1, <2>2
<1>15. ASSUME NEW r \in Requests, SaveAccess(r) PROVE PairsUnseen' /\ KnownTokens'
  <2>1. NoneTaken
    BY <1>0, <1>15 DEF SaveAccess, GoesTo, HasPair, Activities
  <2>2. live' = live /\ Kept /\ NoneAdded
    BY <1>0, <1>6, <1>15 DEF SaveAccess, serverVars, Stores
  <2>3. QED
    BY <1>2, <2>1, <2>2
<1>16. ASSUME NEW r \in Requests,
              Answered(r) \/ NotAnswered(r) \/ NothingToPresent(r) \/ SaveFlag(r) \/ ClearFlag(r)
       PROVE  PairsUnseen' /\ KnownTokens'
  <2>1. NoneTaken
    BY <1>4, <1>5, <1>16 DEF Answered, NotAnswered, NothingToPresent, SaveFlag, ClearFlag
  <2>2. live' = live /\ issued' = issued /\ NoneAdded
    BY <1>6, <1>16 DEF Answered, NotAnswered, NothingToPresent, SaveFlag, ClearFlag, serverVars
  <2>3. store'.refresh = store.refresh
    BY <1>0, <1>16 DEF Answered, NotAnswered, NothingToPresent, SaveFlag, ClearFlag, Stores
  <2>4. QED
    BY <1>2, <2>1, <2>2, <2>3
<1>17. CASE Driver
  <2>1. ASSUME NEW r \in Requests, NEW k \in {"read", "change"}, Start(r, k)
        PROVE  PairsUnseen' /\ KnownTokens'
    <3>1. NoneTaken
      BY <1>3, <2>1 DEF Start
    <3>2. live' = live /\ Kept /\ NoneAdded
      BY <1>6, <2>1 DEF Start, serverVars
    <3>3. QED
      BY <1>2, <3>1, <3>2
  <2>2. ASSUME NEW r \in Requests, SignIn(r) PROVE PairsUnseen' /\ KnownTokens'
    <3>1. NoneTaken
      <4>1. [Idle EXCEPT !.step = "calling", !.kind = "login"].step = "calling"
        BY DEF Idle
      <4>2. QED
        BY <1>3, <2>2, <4>1 DEF SignIn
    <3>2. live' = live /\ Kept
      BY <2>2 DEF SignIn, serverVars
    <3>3. NoneAdded
      BY <1>0, <2>2 DEF SignIn, Begin, Granted, Rotating
    <3>4. QED
      BY <1>2, <3>1, <3>2, <3>3
  <2>3. CASE SignOut
    <3>1. live' = live /\ Kept /\ NoneAdded /\ NoneTaken
      BY <1>1, <1>6, <2>3 DEF SignOut, serverVars, HasPair
    <3>2. QED
      BY <1>2, <3>1
  <2>4. CASE Restart
    <3>1. live' = live /\ Kept
      BY <2>4 DEF Restart, serverVars
    <3>2. NoneTaken
      BY <1>1, <2>4 DEF Restart, HasPair
    <3>3. NoneAdded
      BY <1>0, <2>4, OrphanedCalls DEF Restart, Granted, Rotating
    <3>4. QED
      BY <1>2, <3>1, <3>2, <3>3
  <2>5. QED
    BY <1>17, <2>1, <2>2, <2>3, <2>4 DEF Driver
<1>18. CASE World
  <2>1. live' = live /\ Kept /\ NoneTaken
    BY <1>18 DEF World, ExpireAccess, SetDriverActive, clientVars, HasPair
  <2>2. NoneAdded
    <3>1. ASSUME NEW v \in BOOLEAN, SetDriverActive(v) PROVE NoneAdded
      <4>1. \A a \in ApiCalls : call'[a].token = call[a].token /\ call'[a].at = call[a].at
        BY <1>0, <3>1 DEF SetDriverActive, Executions
      <4>2. QED
        BY <4>1 DEF Granted, Rotating
    <3>2. QED
      BY <1>6, <1>18, <3>1 DEF World, ExpireAccess
  <2>3. QED
    BY <1>2, <2>1, <2>2
<1>19. CASE UNCHANGED vars
  <2>1. live' = live /\ Kept /\ NoneTaken /\ NoneAdded
    BY <1>6, <1>19 DEF vars, serverVars, clientVars, HasPair
  <2>2. QED
    BY <1>2, <2>1
<1>20. QED
  BY <1>8, <1>9, <1>10, <1>11, <1>12, <1>13, <1>14, <1>15, <1>16, <1>17, <1>18, <1>19
  DEF Next, Api, Proceed

\* The stored token is alive, or the holder of the lock is about to replace it.
LEMMA StepKeepsStoredLive ==
  ASSUME ConstantsAssumption, IInv, [Next]_vars
  PROVE  StoredLive'
<1>0. /\ req \in [Requests -> Activities]
      /\ \A r \in Requests : req[r] \in Activities
      /\ call \in [ApiCalls -> Executions]
      /\ store \in Stores
      /\ NoOne \notin Requests
      /\ lock # NoOne => req[lock].step \in {"calling"} \cup Saving
      /\ SignedOut.refresh = 0
  BY DEF IInv, TypeOK, ConstantsAssumption, SignedOut
<1> DEFINE Replacing == lock # NoOne /\ req[lock].step \in {"calling", "saveAccess", "saveRefresh"}
\* Steps of others than the holder, while nothing is revoked.
<1>1. ASSUME ~cut' => ~cut, store'.refresh \in {store.refresh, 0}, live \subseteq live',
             Replacing => Replacing'
      PROVE  StoredLive'
  BY <1>1 DEF IInv, StoredLive
<1>2. ASSUME NEW r \in Requests, lock # r, UNCHANGED lock, NEW q, req' = [req EXCEPT ![r] = q]
      PROVE  Replacing => Replacing'
  BY <1>0, <1>2
<1>3. ASSUME NEW a \in ApiCalls, Api(a) PROVE StoredLive'
  <2>1. UNCHANGED <<req, lock, store, cut>>
    BY <1>3, ApiMoves DEF IInv
  <2>2. CASE Revoke(a)
    <3>1. ~cut => lock # NoOne /\ req[lock].step = "calling"
      BY <2>2 DEF Revoke, IInv, RotationHeld, Rotating, Awaited
    <3>2. QED
      BY <2>1, <3>1 DEF StoredLive
  <2>3. CASE ReadUser(a) \/ Validate(a) \/ Issue(a)
    <3>1. live \subseteq live'
      BY <2>3 DEF ReadUser, Validate, Issue, serverVars
    <3>2. QED
      BY <1>1, <2>1, <3>1
  <2>4. QED
    BY <1>3, <2>2, <2>3 DEF Api
<1>4. ASSUME NEW r \in Requests,
             Answered(r) \/ NotAnswered(r) \/ NothingToPresent(r) \/ ClearFlag(r)
      PROVE  StoredLive'
  <2>1. lock # r
    BY <1>0, <1>4 DEF Answered, NotAnswered, NothingToPresent, ClearFlag, Saving
  <2>2. UNCHANGED <<live, lock, cut>> /\ store'.refresh = store.refresh
    BY <1>0, <1>4 DEF Answered, NotAnswered, NothingToPresent, ClearFlag, serverVars, Stores
  <2>3. Replacing => Replacing'
    BY <1>2, <1>4, <2>1, <2>2
    DEF Answered, NotAnswered, NothingToPresent, ClearFlag, GoesTo, Ends
  <2>4. QED
    BY <1>1, <2>2, <2>3
<1>5. ASSUME NEW r \in Requests, Acquire(r) PROVE StoredLive'
  <2>1. lock' = r /\ req'[r].step = "calling"
    BY <1>0, <1>5 DEF Acquire, GoesTo, Activities
  <2>2. QED
    BY <1>0, <2>1 DEF StoredLive
<1>6. ASSUME NEW r \in Requests, HearGranted(r) \/ SaveAccess(r) PROVE StoredLive'
  <2>1. UNCHANGED <<live, lock, cut>> /\ store'.refresh = store.refresh
    BY <1>0, <1>6 DEF HearGranted, SaveAccess, serverVars, Stores
  <2>2. /\ req'[r].step \in {"saveAccess", "saveRefresh"}
        /\ \A s \in Requests : s # r => req'[s] = req[s]
    <3>1. CASE SaveAccess(r)
      BY <1>0, <3>1 DEF SaveAccess, GoesTo, Activities
    <3>2. CASE HearGranted(r)
      <4>1. PICK a \in ApiCalls :
              req' = [req EXCEPT ![r] = [req[r] EXCEPT !.step = "saveAccess",
                                                       !.token = call[a].token,
                                                       !.flag = call[a].flag]]
        BY <3>2 DEF HearGranted
      <4>2. QED
        BY <1>0, <4>1 DEF Activities
    <3>3. QED
      BY <1>6, <3>1, <3>2
  <2>3. lock \in Requests \cup {NoOne}
    BY DEF IInv, TypeOK
  <2>4. Replacing => Replacing'
    BY <2>1, <2>2, <2>3
  <2>5. QED
    BY <1>1, <2>1, <2>4
<1>7. ASSUME NEW r \in Requests, SaveRefresh(r) PROVE StoredLive'
  <2>1. store'.refresh = req[r].token /\ live' = live
    BY <1>0, <1>7 DEF SaveRefresh, serverVars, Stores
  <2>2. req[r].token \in live
    BY <1>7 DEF SaveRefresh, IInv, PairsUnseen, HasPair, Unseen
  <2>3. QED
    BY <2>1, <2>2 DEF StoredLive
<1>8. ASSUME NEW r \in Requests, SaveFlag(r) PROVE StoredLive'
  <2>1. UNCHANGED <<live, cut>> /\ store'.refresh = store.refresh /\ req[r].step = "saveFlag"
    BY <1>0, <1>8 DEF SaveFlag, serverVars, Stores
  <2>2. CASE lock = r
    <3>1. ~Replacing
      BY <2>1, <2>2
    <3>2. QED
      BY <2>1, <3>1 DEF IInv, StoredLive
  <2>3. CASE lock # r
    <3>1. lock' = lock
      BY <1>8, <2>3 DEF SaveFlag, ReleasedBy
    <3>2. Replacing => Replacing'
      BY <1>2, <1>8, <2>3, <3>1 DEF SaveFlag, Ends, GoesTo
    <3>3. QED
      BY <1>1, <2>1, <3>2
  <2>4. QED
    BY <2>2, <2>3
<1>9. ASSUME NEW r \in Requests, HearRefused(r) \/ GiveUp(r) PROVE StoredLive'
  <2>0. ~cut' => ~cut
    BY <1>9 DEF HearRefused, GiveUp
  <2>1. live' = live /\ store' \in {store, SignedOut}
    BY <1>9 DEF HearRefused, GiveUp, serverVars
  <2>2. CASE lock = r
    <3>1. req[r].kind # "login"
      BY <2>2 DEF IInv, LockIsForRefresh
    <3>2. cut' \/ store' = SignedOut
      BY <1>9, <3>1 DEF HearRefused, GiveUp
    <3>3. QED
      BY <1>0, <3>2 DEF StoredLive
  <2>3. CASE lock # r
    <3>1. lock' = lock
      BY <1>9, <2>3 DEF HearRefused, GiveUp, ReleasedBy
    <3>2. Replacing => Replacing'
      BY <1>2, <1>9, <2>3, <3>1 DEF HearRefused, GiveUp, Ends
    <3>3. QED
      BY <1>0, <1>1, <2>0, <2>1, <3>2
  <2>4. QED
    BY <2>2, <2>3
<1>10. CASE Driver
  <2>1. ASSUME NEW r \in Requests, SignIn(r) \/ \E k \in {"read", "change"} : Start(r, k)
        PROVE  StoredLive'
    <3>1. lock # r
      BY <1>0, <2>1 DEF SignIn, Start, Idle, Saving
    <3>2. UNCHANGED <<live, lock, store, cut>>
      BY <2>1 DEF SignIn, Start, serverVars
    <3>3. Replacing => Replacing'
      BY <1>2, <2>1, <3>1, <3>2 DEF SignIn, Start
    <3>4. QED
      BY <1>1, <3>2, <3>3
  <2>2. CASE SignOut
    BY <1>0, <2>2 DEF SignOut, StoredLive
  <2>3. CASE Restart
    <3>1. UNCHANGED <<live, store>> /\ (~cut' => ~cut /\ lock = NoOne)
      BY <2>3 DEF Restart, serverVars
    <3>2. QED
      BY <3>1 DEF IInv, StoredLive
  <2>4. QED
    BY <1>10, <2>1, <2>2, <2>3 DEF Driver
<1>11. CASE World \/ UNCHANGED vars
  <2>1. UNCHANGED <<live, req, lock, store, cut>>
    BY <1>11 DEF World, ExpireAccess, SetDriverActive, clientVars, serverVars, vars
  <2>2. QED
    BY <1>1, <2>1
<1>12. QED
  BY <1>3, <1>4, <1>5, <1>6, <1>7, <1>8, <1>9, <1>10, <1>11 DEF Next, Proceed

-----------------------------------------------------------------------------
(* The theorems.                                                            *)

\* The invariant holds at first and is kept by every step.
LEMMA Inductive == Spec => []IInv
<1> USE ConstantsAssumption
<1>1. Init => IInv
  <2> SUFFICES ASSUME Init PROVE IInv
    OBVIOUS
  <2>1. /\ MaxTokens \in Nat /\ MaxKills \in Nat /\ NoOne \notin Requests
        /\ Free \in Executions /\ Idle \in Activities /\ SignedOut \in Stores
    BY Constants DEF ConstantsAssumption
  <2>2. TypeOK
    <3>1. call \in [ApiCalls -> Executions] /\ req \in [Requests -> Activities] /\ store \in Stores
      BY <2>1 DEF Init
    <3>2. issued \in TokenOrNone /\ kills \in 0..MaxKills
      BY <2>1 DEF Init, TokenOrNone
    <3>3. /\ live \subseteq 1..issued /\ fresh \subseteq 1..issued
          /\ lock \in Requests \cup {NoOne}
          /\ lock # NoOne => req[lock].step \in {"calling"} \cup Saving
          /\ page \in {"login", "changePassword", "deliveries"}
      BY DEF Init
    <3>4. active \in BOOLEAN /\ mustChange \in BOOLEAN /\ cut \in BOOLEAN
      BY DEF Init
    <3>5. QED
      BY <3>1, <3>2, <3>3, <3>4 DEF TypeOK
  <2>3. /\ Free.at = "free" /\ Free.client = NoOne
        /\ Idle.step = "idle" /\ Idle.kind = "read"
        /\ SignedOut.refresh = 0
    BY DEF Free, Idle, SignedOut
  <2>4. FreeIsFree /\ Awaited /\ Vouched /\ RotationHeld
    BY <2>3 DEF Init, FreeIsFree, Awaited, Vouched, RotationHeld, Rotating
  <2>5. LockIsForRefresh /\ PairsUnseen /\ KnownTokens /\ StoredLive
    BY <2>3 DEF Init, LockIsForRefresh, PairsUnseen, KnownTokens, StoredLive, Granted, HasPair,
                Rotating
  <2>6. QED
    BY <2>2, <2>4, <2>5 DEF IInv
<1>2. IInv /\ [Next]_vars => IInv'
  <2> SUFFICES ASSUME IInv, [Next]_vars PROVE IInv'
    OBVIOUS
  <2>1. /\ TypeOK' /\ FreeIsFree' /\ Vouched' /\ Awaited' /\ LockIsForRefresh' /\ RotationHeld'
        /\ PairsUnseen' /\ KnownTokens'
    BY StepKeepsTypes, StepKeepsVouched, StepKeepsAwaited, StepKeepsLock, StepKeepsRotation,
       StepKeepsTokens
    DEF IInv
  <2>2. QED
    BY <2>1, StepKeepsStoredLive DEF IInv
<1>3. QED
  BY <1>1, <1>2, PTL DEF Spec

\* The session keeps its types.
THEOREM TypeCorrect == Spec => []TypeOK
BY Inductive, PTL DEF IInv

\* The app's own concurrency never leaves a dead token in the store.
THEOREM ConcurrencyKeepsSession == Spec => []SessionSurvives
<1>1. IInv => SessionSurvives
  BY DEF IInv, StoredLive, SessionSurvives
<1>2. QED
  BY <1>1, Inductive, PTL

\* A pair of tokens is issued only to an account that was active during the call.
THEOREM OnlyActiveGetTokens == Spec => DeactivatedGetsNothing
<1>1. IInv => \A a \in ApiCalls : call[a].at = "issue" => call[a].vouched
  BY DEF IInv, Vouched
<1>2. IInv /\ [Next]_vars =>
        [\A a \in ApiCalls : call[a].at = "issue" /\ issued' # issued /\ call'[a].at # "issue"
           => call[a].vouched]_vars
  BY <1>1
<1>3. QED
  BY <1>2, Inductive, PTL DEF Spec, DeactivatedGetsNothing

-----------------------------------------------------------------------------
(* Why a session ends.                                                      *)

\* Whoever refreshes, from the call to the last key stored, holds the lock.
RefreshersHold ==
  \A r \in Requests :
    req[r].kind # "login" /\ req[r].step \in {"calling"} \cup Saving => lock = r

\* An account is read for somebody who signs in.
SignInsLogIn ==
  \A a \in ApiCalls :
    call[a].at = "readUser" /\ call[a].client # NoOne => req[call[a].client].kind = "login"

\* A token that is presented, or was refused to a refresh, works.
Presented(a) ==
  \/ call[a].at = "validate"
  \/ call[a].at = "refused" /\ req[call[a].client].kind # "login"
PresentedLive == ~cut => \A a \in ApiCalls : Presented(a) => call[a].token \in live

\* The lock stays with whoever refreshes.
LEMMA StepKeepsRefreshers ==
  ASSUME ConstantsAssumption, TypeOK, RefreshersHold, [Next]_vars
  PROVE  RefreshersHold'
<1>0. /\ req \in [Requests -> Activities]
      /\ \A r \in Requests : req[r] \in Activities
      /\ NoOne \notin Requests
  BY DEF TypeOK, ConstantsAssumption
<1>1. ASSUME NEW r \in Requests, NEW q, req' = [req EXCEPT ![r] = q],
             q.kind # "login" /\ q.step \in {"calling"} \cup Saving => lock' = r,
             \A s \in Requests : s # r /\ lock = s => lock' = s
      PROVE  RefreshersHold'
  BY <1>0, <1>1 DEF RefreshersHold
<1>2. ASSUME UNCHANGED <<req, lock>> PROVE RefreshersHold'
  BY <1>2 DEF RefreshersHold
<1>3. ASSUME NEW r \in Requests, Ends(r), lock' \in {lock, ReleasedBy(r)} PROVE RefreshersHold'
  <2>1. Idle.step \notin {"calling"} \cup Saving
    BY DEF Idle, Saving
  <2>2. QED
    BY <1>1, <1>3, <2>1 DEF Ends, ReleasedBy
<1>4. ASSUME NEW r \in Requests, NEW s, GoesTo(r, s),
             \/ s \notin {"calling"} \cup Saving /\ lock' \in {lock, ReleasedBy(r)}
             \/ req[r].step \in {"calling"} \cup Saving /\ UNCHANGED lock
             \/ lock = NoOne /\ lock' = r
      PROVE  RefreshersHold'
  <2>1. [req[r] EXCEPT !.step = s].kind = req[r].kind /\ [req[r] EXCEPT !.step = s].step = s
    BY <1>0 DEF Activities
  <2>2. \A t \in Requests : t # r /\ lock = t => lock' = t
    BY <1>0, <1>4 DEF ReleasedBy
  <2>3. QED
    BY <1>1, <1>4, <2>1, <2>2 DEF GoesTo, RefreshersHold
<1>5. ASSUME NEW r \in Requests, Proceed(r) \/ Acquire(r) PROVE RefreshersHold'
  <2>1. CASE Answered(r)
    BY <1>3, <1>4, <2>1 DEF Answered, Saving
  <2>2. CASE NotAnswered(r) \/ NothingToPresent(r) \/ HearRefused(r) \/ GiveUp(r) \/ ClearFlag(r)
    BY <1>3, <2>2 DEF NotAnswered, NothingToPresent, HearRefused, GiveUp, ClearFlag
  <2>3. CASE SaveAccess(r) \/ SaveRefresh(r)
    BY <1>4, <2>3 DEF SaveAccess, SaveRefresh, Saving
  <2>4. CASE SaveFlag(r)
    BY <1>3, <1>4, <2>4 DEF SaveFlag, Saving
  <2>5. CASE Acquire(r)
    BY <1>4, <2>5 DEF Acquire
  <2>6. CASE HearGranted(r)
    <3>1. PICK a \in ApiCalls :
            req' = [req EXCEPT ![r] = [req[r] EXCEPT !.step = "saveAccess", !.token = call[a].token,
                                                     !.flag = call[a].flag]]
      BY <2>6 DEF HearGranted
    <3>2. req'[r].kind = req[r].kind /\ req' = [req EXCEPT ![r] = req'[r]]
      BY <1>0, <3>1 DEF Activities
    <3>3. UNCHANGED lock /\ req[r].step = "calling"
      BY <2>6 DEF HearGranted
    <3>4. QED
      BY <1>1, <3>2, <3>3 DEF RefreshersHold
  <2>7. QED
    BY <1>5, <2>1, <2>2, <2>3, <2>4, <2>5, <2>6 DEF Proceed
<1>6. CASE Driver
  <2>1. ASSUME NEW r \in Requests, NEW k \in {"read", "change"}, Start(r, k) PROVE RefreshersHold'
    <3>1. [step |-> "sent", kind |-> k, token |-> store.access, flag |-> FALSE].step
            \notin {"calling"} \cup Saving
      BY DEF Saving
    <3>2. QED
      BY <1>1, <2>1, <3>1 DEF Start
  <2>2. ASSUME NEW r \in Requests, SignIn(r) PROVE RefreshersHold'
    <3>1. [Idle EXCEPT !.step = "calling", !.kind = "login"].kind = "login" /\ UNCHANGED lock
      BY <2>2 DEF SignIn, Idle
    <3>2. QED
      BY <1>1, <2>2, <3>1 DEF SignIn
  <2>3. CASE Restart
    BY <2>3 DEF Restart, RefreshersHold, Idle, Saving
  <2>4. CASE SignOut
    BY <1>2, <2>4 DEF SignOut
  <2>5. QED
    BY <1>6, <2>1, <2>2, <2>3, <2>4 DEF Driver
<1>7. CASE (\E a \in ApiCalls : Api(a)) \/ World \/ UNCHANGED vars
  BY <1>2, <1>7
  DEF Api, ReadUser, Validate, Revoke, Issue, World, ExpireAccess, SetDriverActive, clientVars, vars
<1>8. QED
  BY <1>5, <1>6, <1>7 DEF Next

\* As long as a call has its caller, that one waits for the same thing.
LEMMA CallersKeepKind ==
  ASSUME ConstantsAssumption, TypeOK, Awaited, [Next]_vars,
         NEW a \in ApiCalls, call[a].client # NoOne, call'[a].client = call[a].client
  PROVE  req'[call[a].client].kind = req[call[a].client].kind
<1> DEFINE c == call[a].client
<1>0. /\ req \in [Requests -> Activities] /\ call \in [ApiCalls -> Executions]
      /\ c \in Requests /\ req[c] \in Activities /\ req[c].step = "calling"
      /\ call[a] \in Executions
      /\ \A b \in ApiCalls : call[b].client = c => b = a
  BY DEF TypeOK, Executions, Awaited
<1>1. ASSUME NEW r \in Requests, Proceed(r) \/ Acquire(r) \/ SignIn(r) \/ \E k \in {"read", "change"} : Start(r, k)
      PROVE  req'[c].kind = req[c].kind
  <2>1. CASE r # c
    BY <1>0, <1>1, <2>1 DEF Proceed, Answered, NotAnswered, NothingToPresent, HearGranted, HearRefused,
       GiveUp, SaveAccess, SaveRefresh, SaveFlag, ClearFlag, Acquire, SignIn, Start, GoesTo, Ends
  <2>2. CASE r = c /\ HearGranted(c)
    <3>1. PICK b \in ApiCalls :
            req' = [req EXCEPT ![c] = [req[c] EXCEPT !.step = "saveAccess", !.token = call[b].token,
                                                     !.flag = call[b].flag]]
      BY <2>2 DEF HearGranted
    <3>2. QED
      BY <1>0, <3>1 DEF Activities
  <2>3. CASE r = c /\ (HearRefused(c) \/ GiveUp(c))
    <3>1. \E b \in ApiCalls :
            /\ call[b].client = c
            /\ \E d \in {Free, Orphaned(call[b])} : call' = [call EXCEPT ![b] = d]
      BY <2>3 DEF HearRefused, GiveUp
    <3>2. \E d \in {Free, Orphaned(call[a])} : call'[a] = d
      BY <1>0, <3>1
    <3>3. call'[a].client = NoOne
      BY <1>0, <3>2, OrphanedCalls DEF Free
    <3>4. QED
      BY <3>3
  <2>4. r = c => HearGranted(c) \/ HearRefused(c) \/ GiveUp(c)
    BY <1>0, <1>1 DEF Proceed, Answered, NotAnswered, NothingToPresent, SaveAccess, SaveRefresh,
       SaveFlag, ClearFlag, Acquire, SignIn, Start, Idle, Saving
  <2>5. QED
    BY <2>1, <2>2, <2>3, <2>4
<1>2. CASE Restart
  BY <1>0, <1>2, OrphanedCalls DEF Restart
<1>3. CASE (\E b \in ApiCalls : Api(b)) \/ SignOut \/ World \/ UNCHANGED vars
  BY <1>3 DEF Api, ReadUser, Validate, Revoke, Issue, SignOut, World, ExpireAccess,
              SetDriverActive, clientVars, vars
<1>4. QED
  BY <1>1, <1>2, <1>3 DEF Next, Driver

EndInv == IInv /\ RefreshersHold /\ SignInsLogIn /\ PresentedLive

\* Tokens die by being rotated only, and rotations are not uncut.
LEMMA LiveSteps ==
  ASSUME [Next]_vars, TypeOK
  PROVE  /\ cut => cut'
         /\ \/ live \subseteq live'
            \/ \E b \in ApiCalls : Revoke(b)
BY DEF TypeOK, Next, Api, ReadUser, Validate, Revoke, Issue, Proceed, Acquire, Answered, NotAnswered,
       NothingToPresent, HearGranted, HearRefused, GiveUp, SaveAccess, SaveRefresh, SaveFlag,
       ClearFlag, Driver, Start, SignIn, SignOut, Restart, World, ExpireAccess, SetDriverActive,
       serverVars, vars

\* No step takes the life of a token that is presented, other than by rotating it.
LEMMA PresentedStay ==
  ASSUME ConstantsAssumption, EndInv, [Next]_vars, ~cut', NEW a \in ApiCalls, Presented(a),
         ~Revoke(a)
  PROVE  call[a].token \in live'
<1>0. ~cut /\ call[a].token \in live
  BY LiveSteps DEF EndInv, IInv, PresentedLive
<1>1. ASSUME NEW b \in ApiCalls, Revoke(b), b # a PROVE FALSE
  <2>1. lock # NoOne /\ call[b].client = lock
    BY <1>0, <1>1 DEF Revoke, EndInv, IInv, RotationHeld, Rotating
  <2>2. call[a].client # lock
    BY <1>1, <2>1 DEF EndInv, IInv, Awaited
  <2>3. CASE call[a].at = "validate"
    BY <1>0, <2>2, <2>3 DEF EndInv, IInv, RotationHeld, Rotating
  <2>4. CASE call[a].at = "refused" /\ req[call[a].client].kind # "login"
    <3>1. call[a].client \in Requests /\ req[call[a].client].step = "calling"
      BY <2>4 DEF EndInv, IInv, Awaited, TypeOK, Executions
    <3>2. QED
      BY <2>2, <2>4, <3>1 DEF EndInv, RefreshersHold
  <2>5. QED
    BY <2>3, <2>4 DEF Presented
<1>2. QED
  BY <1>0, <1>1, LiveSteps DEF EndInv, IInv

\* Who signs in goes on signing in, and what is presented works.
LEMMA StepKeepsPresented ==
  ASSUME ConstantsAssumption, EndInv, [Next]_vars
  PROVE  SignInsLogIn' /\ PresentedLive'
<1>0. /\ TypeOK /\ FreeIsFree /\ Awaited /\ NoOne \notin Requests
      /\ call \in [ApiCalls -> Executions]
      /\ \A a \in ApiCalls : call[a] \in Executions
      /\ req \in [Requests -> Activities]
      /\ \A r \in Requests : req[r] \in Activities
  BY DEF EndInv, IInv, TypeOK, ConstantsAssumption
<1>1. Free.at = "free" /\ Free.client = NoOne
  BY DEF Free
<1> DEFINE Good(a) ==
             /\ call'[a].at = "readUser" /\ call'[a].client # NoOne =>
                  req'[call'[a].client].kind = "login"
             /\ ~cut' /\ Presented(a)' => call'[a].token \in live'
<1>2. SUFFICES \A a \in ApiCalls : Good(a)
  BY DEF SignInsLogIn, PresentedLive
<1>3. ASSUME NEW a \in ApiCalls, Revoke(a) PROVE call[a].at = "revoke" /\ call'[a].at = "issue"
  BY <1>0, <1>3 DEF Revoke, Executions
<1>4. ASSUME NEW a \in ApiCalls, call'[a].at = call[a].at, call'[a].token = call[a].token,
             call'[a].client = call[a].client
      PROVE  Good(a)
  <2>1. ~Revoke(a)
    BY <1>4, <1>3
  <2>2. CASE call[a].client # NoOne
    <3>1. req'[call[a].client].kind = req[call[a].client].kind
      BY <1>0, <1>4, <2>2, CallersKeepKind
    <3>2. Presented(a)' => Presented(a)
      BY <1>4, <3>1 DEF Presented
    <3>3. QED
      BY <1>4, <2>1, <3>1, <3>2, PresentedStay DEF EndInv, SignInsLogIn
  <2>3. CASE call[a].client = NoOne
    <3>1. call[a].at # "refused"
      BY <1>0, <2>3 DEF Awaited
    <3>2. QED
      BY <1>4, <2>1, <2>3, <3>1, PresentedStay DEF Presented
  <2>4. QED
    BY <2>2, <2>3
<1>5. ASSUME NEW a \in ApiCalls, call'[a] = Free PROVE Good(a)
  BY <1>1, <1>5 DEF Presented
<1>6. ASSUME NEW a \in ApiCalls, call'[a] = Orphaned(call[a]) PROVE Good(a)
  <2>1. CASE call'[a] = Free
    BY <1>5, <2>1
  <2>2. CASE call'[a] # Free
    <3>1. call'[a] = [call[a] EXCEPT !.client = NoOne]
      BY <1>6, <2>2 DEF Orphaned
    <3>2. call'[a].at = call[a].at /\ call'[a].token = call[a].token /\ call'[a].client = NoOne
          /\ call'[a].at # "refused"
      BY <1>0, <1>6, <3>1, OrphanedCalls DEF Executions
    <3>3. ~Revoke(a)
      BY <3>2, <1>3
    <3>4. QED
      BY <3>2, <3>3, PresentedStay DEF Presented
  <2>3. QED
    BY <2>1, <2>2
<1>7. ASSUME NEW b \in ApiCalls, Api(b) PROVE \A a \in ApiCalls : Good(a)
  <2>1. \A a \in ApiCalls : a # b => Good(a)
    BY <1>0, <1>4, <1>7, ApiMoves
  <2>2. UNCHANGED req
    BY <1>0, <1>7, ApiMoves
  <2>3. ASSUME ReadUser(b) PROVE Good(b)
    <3>1. \/ call'[b] = Free
          \/ call'[b] = [call[b] EXCEPT !.at = "issue", !.flag = mustChange]
          \/ call'[b] = [call[b] EXCEPT !.at = "refused"] /\ call[b].client # NoOne
      BY <1>0, <2>3 DEF ReadUser, Finish
    <3>2. CASE call'[b] = [call[b] EXCEPT !.at = "issue", !.flag = mustChange]
      <4>1. call'[b].at = "issue"
        BY <1>0, <3>2 DEF Executions
      <4>2. QED
        BY <4>1 DEF Presented
    <3>3. CASE call'[b] = [call[b] EXCEPT !.at = "refused"] /\ call[b].client # NoOne
      <4>1. call'[b].at = "refused" /\ call'[b].client = call[b].client
        BY <1>0, <3>3 DEF Executions
      <4>2. req[call[b].client].kind = "login"
        BY <2>3, <3>3 DEF ReadUser, EndInv, SignInsLogIn
      <4>3. QED
        BY <2>2, <4>1, <4>2 DEF Presented
    <3>4. QED
      BY <1>5, <3>1, <3>2, <3>3
  <2>4. ASSUME Validate(b) PROVE Good(b)
    <3>1. \/ call'[b] = Free
          \/ call'[b] = [call[b] EXCEPT !.at = "revoke"]
          \/ call'[b] = [call[b] EXCEPT !.at = "refused"]
      BY <1>0, <2>4 DEF Validate, Finish
    <3>2. CASE call'[b] = [call[b] EXCEPT !.at = "revoke"]
      <4>1. call'[b].at = "revoke"
        BY <1>0, <3>2 DEF Executions
      <4>2. QED
        BY <4>1 DEF Presented
    <3>3. CASE call'[b] = [call[b] EXCEPT !.at = "refused"]
      <4>1. call'[b].at = "refused" /\ call'[b].token = call[b].token
        BY <1>0, <3>3 DEF Executions
      <4>2. Presented(b) /\ ~Revoke(b)
        BY <2>4 DEF Validate, Revoke, Presented
      <4>3. QED
        BY <4>1, <4>2, PresentedStay
    <3>4. QED
      BY <1>5, <3>1, <3>2, <3>3
  <2>5. ASSUME Revoke(b) PROVE Good(b)
    <3>1. call'[b].at = "issue"
      BY <1>0, <2>5 DEF Revoke, Executions
    <3>2. QED
      BY <3>1 DEF Presented
  <2>6. ASSUME Issue(b) PROVE Good(b)
    <3>1. \/ call'[b] = Free
          \/ call'[b] = [call[b] EXCEPT !.at = "granted", !.token = issued + 1]
      BY <1>0, <2>6 DEF Issue
    <3>2. call'[b] # Free => call'[b].at = "granted"
      BY <1>0, <3>1 DEF Executions
    <3>3. QED
      BY <1>5, <2>1, <3>2 DEF Presented
  <2>7. QED
    BY <1>7, <2>1, <2>3, <2>4, <2>5, <2>6 DEF Api
<1>8. ASSUME NEW r \in Requests, NEW b \in ApiCalls, NEW s, NEW t, Begin(b, r, s, t),
             s \in {"readUser", "validate"},
             s = "readUser" => req'[r].kind = "login",
             s = "validate" /\ ~cut' => t \in live'
      PROVE  \A a \in ApiCalls : Good(a)
  <2>1. /\ call'[b].at = s /\ call'[b].client = r /\ call'[b].token = t
        /\ \A a \in ApiCalls : a # b => call'[a] = call[a]
    BY <1>0, <1>8 DEF Begin
  <2>2. QED
    BY <1>4, <1>8, <2>1 DEF Presented
<1>9. ASSUME NEW r \in Requests, Acquire(r) PROVE \A a \in ApiCalls : Good(a)
  <2>1. ~cut' => store.refresh \in live'
    BY <1>9 DEF Acquire, EndInv, IInv, StoredLive, serverVars
  <2>2. QED
    BY <1>8, <1>9, <2>1 DEF Acquire
<1>10. ASSUME NEW r \in Requests, SignIn(r) PROVE \A a \in ApiCalls : Good(a)
  <2>1. req'[r].kind = "login"
    BY <1>0, <1>10 DEF SignIn, Idle
  <2>2. PICK b \in ApiCalls : Begin(b, r, "readUser", 0)
    BY <1>10 DEF SignIn
  <2>3. QED
    <3> HIDE DEF Good
    <3>1. QED
      BY <1>8, <2>1, <2>2
<1>11. ASSUME NEW r \in Requests, HearGranted(r) \/ HearRefused(r) \/ GiveUp(r)
       PROVE  \A a \in ApiCalls : Good(a)
  <2>1. PICK b \in ApiCalls : \E c \in {Free, Orphaned(call[b])} : call' = [call EXCEPT ![b] = c]
    BY <1>11 DEF HearGranted, HearRefused, GiveUp
  <2>2. QED
    BY <1>0, <1>4, <1>5, <1>6, <2>1
<1>12. CASE Restart
  BY <1>6, <1>12 DEF Restart
<1>13. ASSUME NEW v \in BOOLEAN, SetDriverActive(v) PROVE \A a \in ApiCalls : Good(a)
  <2>1. \A a \in ApiCalls : /\ call'[a].client = call[a].client
                            /\ call'[a].at = call[a].at
                            /\ call'[a].token = call[a].token
    BY <1>0, <1>13 DEF SetDriverActive, Executions
  <2>2. QED
    BY <1>4, <2>1
<1>14. CASE UNCHANGED call
  BY <1>4, <1>14
<1>15. QED
  BY <1>7, <1>9, <1>10, <1>11, <1>12, <1>13, <1>14, CallSteps

\* A stored session ends by its driver, by a rotation that was cut off, or by a refusal of a
\* token that works.
THEOREM SessionsEndForCause == Spec => SessionEndsForCause
<1> USE ConstantsAssumption
<1>1. Init => RefreshersHold /\ SignInsLogIn /\ PresentedLive
  BY DEF Init, RefreshersHold, SignInsLogIn, PresentedLive, Presented, Idle, Free, Saving
<1>2. EndInv /\ [Next]_vars =>
        RefreshersHold' /\ SignInsLogIn' /\ PresentedLive'
  BY StepKeepsRefreshers, StepKeepsPresented DEF EndInv, IInv
<1>3. ASSUME EndInv, [Next]_vars, store.refresh # 0, store'.refresh = 0, ~SignOut, ~cut'
      PROVE  \E a \in ApiCalls :
               call[a].at = "refused" /\ call[a].client = lock /\ call[a].token \in live
  <2>0. store \in Stores /\ live \subseteq 1..issued
    BY <1>3 DEF EndInv, IInv, TypeOK
  <2>1. ASSUME NEW r \in Requests, SaveAccess(r) \/ SaveFlag(r) \/ ClearFlag(r)
        PROVE  store'.refresh = store.refresh
    BY <2>0, <2>1 DEF SaveAccess, SaveFlag, ClearFlag, Stores
  <2>2. ASSUME NEW r \in Requests, SaveRefresh(r) PROVE store'.refresh # 0
    <3>1. req[r].token \in live /\ 0 \notin live
      BY <1>3, <2>0, <2>2 DEF SaveRefresh, EndInv, IInv, PairsUnseen, HasPair, Unseen
    <3>2. store'.refresh = req[r].token
      BY <2>0, <2>2 DEF SaveRefresh, Stores
    <3>3. QED
      BY <3>1, <3>2
  <2>3. \E r \in Requests : HearRefused(r) /\ req[r].kind # "login"
    <3>1. store' # store
      BY <1>3
    <3>2. \E r \in Requests : \/ HearRefused(r) \/ GiveUp(r)
                              \/ SaveAccess(r) \/ SaveRefresh(r) \/ SaveFlag(r) \/ ClearFlag(r)
      BY <1>3, <3>1
      DEF Next, Api, ReadUser, Validate, Revoke, Issue, Proceed, Acquire, Answered, NotAnswered,
          NothingToPresent, HearGranted, Driver, Start, SignIn, Restart, World, ExpireAccess,
          SetDriverActive, clientVars, vars
    <3>3. ~\E r \in Requests : SaveAccess(r) \/ SaveRefresh(r) \/ SaveFlag(r) \/ ClearFlag(r)
      BY <1>3, <2>1, <2>2
    <3>4. ~\E r \in Requests : GiveUp(r)
      BY <1>3, <3>1 DEF GiveUp
    <3>5. QED
      BY <3>1, <3>2, <3>3, <3>4 DEF HearRefused
  <2>4. PICK r \in Requests : HearRefused(r) /\ req[r].kind # "login"
    BY <2>3
  <2>5. PICK a \in ApiCalls : call[a].client = r /\ call[a].at = "refused"
    BY <2>4 DEF HearRefused
  <2>6. lock = r
    BY <1>3, <2>4 DEF HearRefused, EndInv, RefreshersHold
  <2>7. ~cut
    BY <1>3, LiveSteps DEF EndInv, IInv
  <2>8. call[a].token \in live
    BY <1>3, <2>4, <2>5, <2>7 DEF EndInv, PresentedLive, Presented
  <2>9. QED
    BY <2>5, <2>6, <2>8
<1>4. EndInv /\ [Next]_vars =>
        [store.refresh # 0 /\ store'.refresh = 0 =>
           \/ SignOut
           \/ cut'
           \/ \E a \in ApiCalls :
                call[a].at = "refused" /\ call[a].client = lock /\ call[a].token \in live]_vars
  BY <1>3
<1>5. Spec => []EndInv
  BY <1>1, <1>2, Inductive, PTL DEF Spec, EndInv
<1>6. QED
  BY <1>4, <1>5, PTL DEF Spec, SessionEndsForCause
=============================================================================
