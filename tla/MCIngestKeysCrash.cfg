\* As MCIngestKeys, with one crash.
CONSTANTS
  r1 = r1
  r2 = r2
  Rooms = {r1}
  Ignored = {}
  Encrypted <- FirstEventEncrypted
  NoToken = NoToken
  NoEvent = NoEvent
  SyncLimit = 1
  PageLimit = 1
  PagesMax = 0
  MaxEvents = 2
  MaxStops = 1
  MaxKills = 1
  MaxFaults = 0
  MaxFetchErrors = 0
SPECIFICATION Spec
CHECK_DEADLOCK FALSE
INVARIANTS
  ImportedKeysReachHistory

