CONSTANTS
  d1 = d1
  Deliveries = {d1}
  Proofs = {"twoShots"}
  Content <- MCContent
  MaxAttempts = 2
  Faults = {}
  MaxCrashes = 0
  MaxLate = 0
  NoProof = NoProof

SPECIFICATION Spec

INVARIANTS AllPhotosArrive
