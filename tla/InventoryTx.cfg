\* Opposite item orders, a product listed twice, a negative quantity,
\* redeliveries and one failed call.
CONSTANTS
  Products = {"p", "q"}
  Orders <- ThreeOrders
  Items <- MixedItems
  Total <- MixedTotal
  Stock <- Short
  MaxRetry = 2
  MaxRecords = 3
  MaxErrors = 1
  None = None
SPECIFICATION FairSpec
INVARIANTS
  OversoldOnlyByNegativeQuantity
  DeadlockNeedsOppositeOrders
PROPERTIES
  ImplementsAtomicStock
  EveryRecordSettled
\* When both consumers have handled all their records nothing is left to do.
CHECK_DEADLOCK FALSE
