\* Two instances, one event published twice, rebalances and enough failed
\* calls for a dead letter and for a failed send to the DLQ topic.
CONSTANTS
  Events = {e1, e2}
  Instances = {i1, i2}
  MaxRetry = 2
  MaxRecords = 3
  MaxErrors = 3
  MaxRebalances = 2
SPECIFICATION FairSpec
CONSTRAINT FirstOfEach
INVARIANTS
  AtMostOncePerInstance
  NothingSkipped
PROPERTIES
  EveryEventSettled
\* When every record is handled and committed nothing is left to do.
CHECK_DEADLOCK FALSE
