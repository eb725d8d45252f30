\* One room with two other members and two names, events in timelines and state sections, faults.
SPECIFICATION Spec
CONSTANTS
  Titles = {t1, t2}
  NoName = NoName
  People = {a, b}
  Bot = Bot
  None = None
  MaxPending = 2
  MaxLimited = 1
  MaxFaults = 1
SYMMETRY RosterSymmetry
INVARIANTS
  MembersErrOnlyIfUnheard
  NameErrsOnlyForCause
  SendWorksWhenLive
