CONSTANTS
  d1 = d1
  Deliveries = {d1}
  Proofs = {"pickup", "again", "handover"}
  Content <- MCContent
  MaxAttempts = 2
  Faults = {}
  MaxCrashes = 0
  MaxLate = 0
  NoProof = NoProof

SPECIFICATION PatientSpec

PROPERTIES QueuedSettles
