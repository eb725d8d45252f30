\* Any number of starts, failures, crashes and shutdowns; a tick is five seconds.
SPECIFICATION Spec
CONSTANTS
  Window = 7
  PollMax = 6
  NotCut = NotCut
INVARIANTS
  NothingUsedAfterClose
  OnlySlowCallbacksAreCut
  IndexedWhenServing
PROPERTY ShutdownCompletes
