\* The script run beside the server, no failure of any kind.
CONSTANTS
  u1 = u1
  u2 = u2
  m1 = m1
  m2 = m2
  Members = {u1}
  Messages = {m1, m2}
  Author <- AllByFirst
  RawNames = {"Ann", "Anna"}
  Fallback = "ann"
  NoName = NoName
  Gone = Gone
  None = None
  Failures = {}
  KeyBackup = FALSE
  Script = "beside"
SPECIFICATION Spec
INVARIANTS
  NamesAgreeWhenLive
