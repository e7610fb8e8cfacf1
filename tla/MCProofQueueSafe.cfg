CONSTANTS
  d1 = d1
  Deliveries = {d1}
  Proofs = {"twoShots", "handover"}
  Content <- MCContent
  MaxAttempts = 2
  Faults = {"outage", "loss", "refusal"}
  MaxCrashes = 1
  MaxLate = 1
  NoProof = NoProof

SPECIFICATION Spec

INVARIANTS TypeOK DeletedOnlyWhenStored NothingLostUnsent FailedWhenExhausted NeverTooEarly PickupLeavesFirst
PROPERTIES ImplementsOutbox ApiFollowsLifecycle
