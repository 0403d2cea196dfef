\* Two orders whose ids may collide, a reader, the smallest pool that does
\* not block the relay, one fault (after SIGTERM a SIGKILL is free).
CONSTANTS
  c1 = c1
  c2 = c2
  Creators = {c1, c2}
  Readers = {g1}
  ItemCount <- TwoAndOne
  Precision = 3
  PoolSize = 2
  MaxNow = 3
  MaxFaults = 1
  None = None
SPECIFICATION FairSpec
CONSTRAINTS
  SensibleQuestions
  NoErrorsToReaders
INVARIANTS
  WholeOrders
  CreatedMeansStored
  ShownWhole
PROPERTIES
  RequestsAreAnswered
  EventsArePublished
CHECK_DEADLOCK FALSE
