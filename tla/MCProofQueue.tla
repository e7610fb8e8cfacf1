----------------------------- MODULE MCProofQueue -----------------------------
(***************************************************************************)
(* Small instances of ProofQueue: one delivery, its pickup, its handover   *)
(* and a second pickup captured while the first is still queued.           *)
(***************************************************************************)
EXTENDS ProofQueue

CONSTANTS d1

Captured(type, result, photos) ==
  [delivery |-> d1, type |-> type, status |-> result, photos |-> photos]

MCContent ==
  [u \in Proofs |->
     CASE u = "pickup"   -> Captured("Pickup", "PickedUp", 1)
       [] u = "again"    -> Captured("Pickup", "PickedUp", 1)
       [] u = "twoShots" -> Captured("Pickup", "PickedUp", 2)
       [] u = "noPickup" -> Captured("Pickup", "Failed", 0)
       [] u = "handover" -> Captured("Delivery", "Delivered", 1)]
=============================================================================
