\* Two members with a message each, every kind of failure, a key backup and the script while the server is down.
CONSTANTS
  u1 = u1
  u2 = u2
  m1 = m1
  m2 = m2
  Members = {u1, u2}
  Messages = {m1, m2}
  Author <- OneEach
  RawNames = {"Ann", "Anna"}
  Fallback = "ann"
  NoName = NoName
  Gone = Gone
  None = None
  Failures = {"crash", "script_crash", "index", "qdrant", "lost_reply", "sqlite", "limited"}
  KeyBackup = TRUE
  Script = "alone"
SYMMETRY Exchange
SPECIFICATION Spec
INVARIANTS
  TypeOK
  DisagreeOnlyForCause
  UnnoticedOnlyIfTorn
PROPERTIES
  NeverDowngraded
