\* A service that ends with its consumer: a record that always fails,
\* failed calls and fetches, SIGTERM and crashes.
CONSTANTS
  N = 3
  Poison = {2}
  MaxRetry = 2
  FatalOnReturn = TRUE
  MaxErrors = 2
  MaxStops = 2
SPECIFICATION FairSpec
INVARIANTS
  RetryBudget
  GivenUpOnlyAfterRetries
PROPERTIES
  NoRunAfterCommit
  ImplementsCursor
  EveryRecordSettled
\* When every record is handled and committed nothing is left to do.
CHECK_DEADLOCK FALSE
