----------------------------- MODULE MCProofStore -----------------------------
(***************************************************************************)
(* Small instances of ProofStore: one delivery of tenant k1, its drivers   *)
(* r1 and r2 and a driver x of another tenant k2, and proofs that conflict *)
(* in every way the procedures tell apart.                                 *)
(***************************************************************************)
EXTENDS ProofStore

CONSTANTS r1, r2, x, k1, k2, d1

MCDriverCompany == [r \in Drivers |-> IF r = x THEN k2 ELSE k1]
MCDeliveryCompany == [d \in Deliveries |-> k1]

Captured(type, result, photos, signed) ==
  [delivery |-> d1, type |-> type, status |-> result, photos |-> photos,
   signed |-> signed, reason |-> result = "Failed"]

\* Every way two proofs of one delivery can conflict: two pickups and two delivery
\* proofs that disagree, and one whose status does not fit its type.
Conflicting == [pickup    |-> Captured("Pickup", "PickedUp", 1, FALSE),
                noPickup  |-> Captured("Pickup", "Failed", 0, FALSE),
                handover  |-> Captured("Delivery", "Delivered", 1, FALSE),
                refused   |-> Captured("Delivery", "Failed", 0, FALSE),
                malformed |-> Captured("Pickup", "Delivered", 1, FALSE)]

\* One pickup and one handover that lack what a tenant may require.
Bare == [pickup   |-> Captured("Pickup", "PickedUp", 0, FALSE),
         handover |-> Captured("Delivery", "Delivered", 1, FALSE)]

\* A pickup and a handover no rule objects to.
Plain == [pickup   |-> Captured("Pickup", "PickedUp", 1, TRUE),
          handover |-> Captured("Delivery", "Delivered", 1, TRUE)]

NoChange == {}
AnyRules == {{}, {"photo"}, {"photo", "signature"}}
=============================================================================
