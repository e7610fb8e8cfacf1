CONSTANTS
  d1 = d1
  Deliveries = {d1}
  Proofs = {"pickup", "handover"}
  Content <- MCContent
  MaxAttempts = 2
  Faults = {"outage", "loss", "refusal"}
  MaxCrashes = 1
  MaxLate = 1
  NoProof = NoProof

SPECIFICATION FairSpec

PROPERTIES QueuedSettlesOrWaits
