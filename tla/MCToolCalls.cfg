\* One call of either tool, with the collection, the room and the network moving under it.
SPECIFICATION Spec
CONSTANTS
  p1 = p1  p2 = p2  p3 = p3
  u1 = u1  u2 = u2
  r1 = r1  r2 = r2
  NoArg = NoArg
  NoPosition = NoPosition
  Points = {p1, p2, p3}
  Users = {u1, u2}
  SentBy <- MCSentBy
  SentIn <- MCSentIn
  SentAt <- MCSentAt
  Likeness <- MCLikeness
  Names <- MCNames
  RoomNames <- MCRoomNames
  SenderArgs <- MCSenderArgs
  RoomArgs <- MCRoomArgs
  TimeRanges <- MCTimeRanges
  Limits = {1, 2}
  MaxChanges = 1
  MaxRetries = 3
  MaxPosition = 5
  MaxSide = 2
INVARIANTS
  TypeOK
  ResultsAreRelevant
  NothingBetterIsLeftOut
  ResultsInOrder
  BackoffDoubles
  ContextIsTheNeighbourhood
PROPERTY CallEnds
\* A behaviour stops when its call has ended.
CHECK_DEADLOCK FALSE
