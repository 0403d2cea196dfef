\* A crash before the offset of order.created is committed.
CONSTANTS
  o1 = o1
  o2 = o2
  Orders = {o1}
  Products = {p1}
  Demand <- OneAndTwo
  Stock <- Two
  MaxRetry = 3
  FailureThreshold = 3
  MaxErrors = 0
  MaxCrashes = 1
SPECIFICATION Spec
CHECK_DEADLOCK FALSE
INVARIANTS
  ReservedOnce
