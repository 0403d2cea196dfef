\* As many logouts as the pool has connections, and one more.
CONSTANTS
  Users = {u1}
  Tokens = {t1, t2}
  Requests = {r1}
  PoolSize = 2
  MaxErrors = 0
  None = None
SPECIFICATION FairSpec
PROPERTY
  LogoutCompletes
\* With every connection kept, the service really stops.
CHECK_DEADLOCK FALSE
