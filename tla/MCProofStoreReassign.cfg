CONSTANTS
  r1 = r1
  r2 = r2
  x = x
  k1 = k1
  k2 = k2
  d1 = d1
  Companies = {k1, k2}
  Drivers = {r1, r2}
  Deliveries = {d1}
  Uuids = {"pickup", "handover"}
  ProofCalls = {p1}
  DeskCalls = {a1}
  DriverCompany <- MCDriverCompany
  DeliveryCompany <- MCDeliveryCompany
  Content <- Plain
  SettingsMenu <- NoChange
  NoDriver = NoDriver
  NoUuid = NoUuid

SPECIFICATION Spec

PROPERTIES OnlyPendingReassigned
