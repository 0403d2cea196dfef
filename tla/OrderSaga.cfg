\* A small order with a call that fails or a crash, anywhere, and the stock to
\* serve a redelivery; or the small order against a bigger one, and the stock
\* for one of them.
CONSTANTS
  o1 = o1
  o2 = o2
  Orders = {o1, o2}
  Products = {p1}
  Demand <- OneAndTwo
  Stock <- Two
  MaxRetry = 1
  FailureThreshold = 1
  MaxErrors = 1
  MaxCrashes = 1
SPECIFICATION FairSpec
CONSTRAINTS OneFault FaultOrRival StoreForCrash
ACTION_CONSTRAINT StoreBeforeFault
INVARIANTS
  SagaInvariant
  NoStepLost
  ExactlyOnceWithoutFaults
  StockLedger
PROPERTIES
  EveryOrderSettles
\* When every event is handled and committed nothing is left to do.
CHECK_DEADLOCK FALSE
