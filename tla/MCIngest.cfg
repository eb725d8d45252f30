\* Two rooms, a backfill capped at one page, and one crash, failure and error response each.
CONSTANTS
  r1 = r1
  r2 = r2
  Rooms = {r1, r2}
  Ignored = {}
  Encrypted = {}
  NoToken = NoToken
  NoEvent = NoEvent
  SyncLimit = 1
  PageLimit = 1
  PagesMax = 1
  MaxEvents = 3
  MaxStops = 0
  MaxKills = 1
  MaxFaults = 1
  MaxFetchErrors = 1
SPECIFICATION Spec
SYMMETRY RoomSymmetry
CHECK_DEADLOCK FALSE
INVARIANTS
  StoresAgree
  NothingLeftUnretried
  DispatchedOnceAndSearchable
  GapsOnlyAfterErrors
  MissingOnlyForCause
