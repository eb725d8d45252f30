\* A kept and an ignored room, a key backup added between two runs, orderly shutdowns at any await, no crash.
CONSTANTS
  r1 = r1
  r2 = r2
  Rooms = {r1, r2}
  Ignored = {r2}
  Encrypted <- FirstEventEncrypted
  NoToken = NoToken
  NoEvent = NoEvent
  SyncLimit = 1
  PageLimit = 1
  PagesMax = 0
  MaxEvents = 3
  MaxStops = 2
  MaxKills = 0
  MaxFaults = 0
  MaxFetchErrors = 0
SPECIFICATION Spec
CHECK_DEADLOCK FALSE
INVARIANTS
  TypeOK
  ImportedKeysReachHistory
PROPERTY StartSettles
