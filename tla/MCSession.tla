----------------------------- MODULE MCSession -----------------------------
(***************************************************************************)
(* Small instances of Session: two concurrent requests of the app, and one *)
(* or two API calls, so that an abandoned call may run beside a new one.   *)
(***************************************************************************)
EXTENDS Session, TLC

CONSTANTS r1, r2, a1, a2

\* The slots are interchangeable.
Slots == Permutations(Requests) \cup Permutations(ApiCalls)
=============================================================================
