\* A wait of five units, a poll every three, requests of at most one unit.
CONSTANTS
  Timeout = 5
  PollInterval = 3
  Latency = 1
SPECIFICATION Spec
INVARIANTS
  TypeOK
  AnswerIsFinal
  WaitIsBounded
  TimeoutOnlyIfLate
PROPERTIES
  RunEnds
