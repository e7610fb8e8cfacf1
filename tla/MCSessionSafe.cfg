CONSTANTS
  r1 = r1
  r2 = r2
  a1 = a1
  a2 = a2
  Requests = {r1, r2}
  ApiCalls = {a1, a2}
  Faults = {"deactivation"}
  MaxTokens = 3
  MaxKills = 1
  NoOne = NoOne

SPECIFICATION Spec
SYMMETRY Slots

INVARIANTS TypeOK SessionSurvives
PROPERTIES DeactivatedGetsNothing SessionEndsForCause
