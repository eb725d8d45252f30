\* The smallest case: a named room, one other member, an orderly stop and a restart.
SPECIFICATION Spec
CONSTANTS
  Titles = {t1}
  NoName = NoName
  People = {a}
  Bot = Bot
  None = None
  MaxPending = 1
  MaxLimited = 0
  MaxFaults = 0
INVARIANT NamedAsFromFullSync
