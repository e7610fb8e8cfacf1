CONSTANTS
  r1 = r1
  r2 = r2
  a1 = a1
  a2 = a2
  Requests = {r1, r2}
  ApiCalls = {a1}
  Faults = {"loss"}
  MaxTokens = 2
  MaxKills = 0
  NoOne = NoOne

SPECIFICATION FairSpec

PROPERTIES LockIsReleased
