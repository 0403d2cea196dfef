\* One instance, as docker-compose runs it: overlapping transactions, a
\* failed call and a crash; the result set does not hold every row.
CONSTANTS
  Rows = {r1, r2, r3}
  Poison = {}
  Relays = {i1}
  BatchLimit = 2
  MaxOpen = 2
  MaxErrors = 2
  MaxCrashes = 1
SPECIFICATION FairSpec
INVARIANTS
  CausalOrder
  DuplicatesNeedFaults
PROPERTIES
  ImplementsDelivery
  EveryEventDelivered
\* When every row is published the relay finds nothing to do.
CHECK_DEADLOCK FALSE
