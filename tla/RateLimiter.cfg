\* Three requests of one client that overlap, half tokens, and an idle time
\* that just suffices to fill a bucket.
CONSTANTS
  Clients = {c1}
  Requests = {r1, r2, r3}
  Buckets = {1, 2, 3, 4}
  Full = 3
  Cost = 2
  IdleTTL = 4
  Grace = 1
  None = None
SPECIFICATION LimiterFairSpec
INVARIANTS
  LimitHolds
PROPERTIES
  NobodyIsRejectedEarly
  IdleEntriesGo
