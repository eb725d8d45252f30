\* With and without an LLM: five records, batches of at most three, a maximum age of one and a half cooldowns, one SSE client with a queue of two.
CONSTANTS
  MaxRecords = 5
  BatchMax = 3
  Cooldown = 2
  MaxQueue = 3
  Subscribers = {s1}
  QueueMaxsize = 2
SPECIFICATION Spec
INVARIANTS
  TypeOK
  NoRecordLostOrRepeated
  MaxAgeBound
  CancelNeverHitsABatch
  OnlyBegunCallsOutliveClose
  QueuesKeepNewest
PROPERTIES
  FlushOnlyWhenDue
  EventuallyCalled
  ImplementsHandoff
