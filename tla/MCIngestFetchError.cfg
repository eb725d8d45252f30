\* One error response from the homeserver during the backfill, nothing else.
CONSTANTS
  r1 = r1
  r2 = r2
  Rooms = {r1}
  Ignored = {}
  Encrypted = {}
  NoToken = NoToken
  NoEvent = NoEvent
  SyncLimit = 1
  PageLimit = 1
  PagesMax = 0
  MaxEvents = 3
  MaxStops = 0
  MaxKills = 0
  MaxFaults = 0
  MaxFetchErrors = 1
SPECIFICATION Spec
CHECK_DEADLOCK FALSE
INVARIANTS
  SentinelMeansBackfilled

