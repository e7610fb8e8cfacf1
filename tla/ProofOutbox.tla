----------------------------- MODULE ProofOutbox -----------------------------
(***************************************************************************)
(* What the offline queue promises about each proof, with no files, rows,  *)
(* drains, crashes or network: a captured proof waits in the outbox until  *)
(* the API stores it, once and for all; it leaves the outbox only then; it *)
(* is tried MaxTries times and then shown as failed until the driver sends *)
(* it again.  ProofQueue, the services of the app as they are executed,    *)
(* implements this specification.                                          *)
(***************************************************************************)
EXTENDS Integers

CONSTANTS Proofs,    \* the proofs the driver may capture
          MaxTries,  \* how often one is tried before it is shown as failed
          PhotosOf   \* the photos of each

VARIABLES outbox,    \* where each proof is for the driver
          tries,     \* how often it has been tried
          promised,  \* the proofs the driver was told are saved
          stored,    \* the proofs the API has
          evidence   \* the photos it has of each

vars == <<outbox, tries, promised, stored, evidence>>

Init ==
  /\ outbox = [u \in Proofs |-> "absent"]
  /\ tries = [u \in Proofs |-> 0]
  /\ promised = {}
  /\ stored = {}
  /\ evidence = [u \in Proofs |-> {}]

Capture(u) ==
  /\ outbox[u] = "absent"
  /\ outbox' = [outbox EXCEPT ![u] = "waiting"]
  /\ UNCHANGED <<tries, promised, stored, evidence>>

Promise(u) ==
  /\ outbox[u] # "absent"
  /\ promised' = promised \cup {u}
  /\ UNCHANGED <<outbox, tries, stored, evidence>>

\* The API stores a proof that is still in the outbox, and never changes it again.
Deliver(u, photos) ==
  /\ outbox[u] \in {"waiting", "failed"}
  /\ u \notin stored
  /\ photos \subseteq PhotosOf[u]
  /\ stored' = stored \cup {u}
  /\ evidence' = [evidence EXCEPT ![u] = photos]
  /\ UNCHANGED <<outbox, tries, promised>>

\* A try fails, or fails for good, which is as bad as the last one.
Fail(u, count) ==
  /\ outbox[u] = "waiting"
  /\ tries[u] < MaxTries
  /\ count \in {tries[u] + 1, MaxTries}
  /\ tries' = [tries EXCEPT ![u] = count]
  /\ outbox' = [outbox EXCEPT ![u] = IF count = MaxTries THEN "failed" ELSE "waiting"]
  /\ UNCHANGED <<promised, stored, evidence>>

Failed == {u \in Proofs : outbox[u] = "failed"}

\* The driver sends everything that failed again.
SendAgain ==
  /\ Failed # {}
  /\ outbox' = [u \in Proofs |-> IF u \in Failed THEN "waiting" ELSE outbox[u]]
  /\ tries' = [u \in Proofs |-> IF u \in Failed THEN 0 ELSE tries[u]]
  /\ UNCHANGED <<promised, stored, evidence>>

Remove(u) ==
  /\ outbox[u] = "waiting"
  /\ u \in stored
  /\ outbox' = [outbox EXCEPT ![u] = "removed"]
  /\ UNCHANGED <<tries, promised, stored, evidence>>

Next ==
  \/ \E u \in Proofs : Capture(u) \/ Promise(u) \/ Remove(u)
  \/ \E u \in Proofs, photos \in SUBSET UNION {PhotosOf[v] : v \in Proofs} : Deliver(u, photos)
  \/ \E u \in Proofs, count \in 1..MaxTries : Fail(u, count)
  \/ SendAgain

Spec == Init /\ [][Next]_vars
=============================================================================
