CONSTANTS
  r1 = r1
  r2 = r2
  x = x
  k1 = k1
  k2 = k2
  d1 = d1
  Companies = {k1, k2}
  Drivers = {r1}
  Deliveries = {d1}
  Uuids = {"pickup", "noPickup", "handover", "refused", "malformed"}
  ProofCalls = {p1, p2}
  DeskCalls = {a1}
  DriverCompany <- MCDriverCompany
  DeliveryCompany <- MCDeliveryCompany
  Content <- Conflicting
  SettingsMenu <- NoChange
  NoDriver = NoDriver
  NoUuid = NoUuid

SPECIFICATION Spec

INVARIANTS TypeOK OneProofPerType StatusMatchesProofs ReadsStayTrue
PROPERTIES ConfirmationsAreTrue ImplementsLifecycle
