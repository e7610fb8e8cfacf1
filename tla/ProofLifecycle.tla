--------------------------- MODULE ProofLifecycle ---------------------------
(***************************************************************************)
(* What Ulak promises about one delivery, with no database, no queue and   *)
(* no concurrency: an order is opened, picked up or abandoned, and then    *)
(* delivered or abandoned; each of the two moves leaves exactly one piece  *)
(* of evidence (a proof) and the status of the delivery is the result of   *)
(* the last one.  ProofStore, the stored procedures as they are executed,  *)
(* implements this specification.                                          *)
(***************************************************************************)
CONSTANTS Deliveries

VARIABLES status,    \* the delivery's status, "Absent" before the order exists
          evidence   \* the <<proof type, proof status>> pairs recorded for it

vars == <<status, evidence>>

DeliveryStatuses == {"Pending", "PickedUp", "Delivered", "Failed"}

\* ProofStatuses.IsValidFor: the results a proof of each type may have.
ResultsFor == [Pickup   |-> {"PickedUp", "Failed"},
               Delivery |-> {"Delivered", "Failed"}]

\* The only status from which a proof of each type may be taken.
StatusBefore == [Pickup |-> "Pending", Delivery |-> "PickedUp"]

Init ==
  /\ status = [d \in Deliveries |-> "Absent"]
  /\ evidence = [d \in Deliveries |-> {}]

Open(d) ==
  /\ status[d] = "Absent"
  /\ status' = [status EXCEPT ![d] = "Pending"]
  /\ UNCHANGED evidence

Record(d, type, result) ==
  /\ result \in ResultsFor[type]
  /\ status[d] = StatusBefore[type]
  /\ status' = [status EXCEPT ![d] = result]
  /\ evidence' = [evidence EXCEPT ![d] = @ \cup {<<type, result>>}]

Next ==
  \E d \in Deliveries :
    \/ Open(d)
    \/ \E type \in {"Pickup", "Delivery"} :
         \E result \in ResultsFor[type] : Record(d, type, result)

Spec == Init /\ [][Next]_vars
=============================================================================
