\* One durable adapter; batches end within their lease; liveness, so no symmetry.
CONSTANTS
  w1 = w1
  w2 = w2
  a1 = a1
  Orders = {o1, o2}
  Workers = {w1, w2}
  Tokens = {t1, t2, t3}
  NoToken = NoToken
  ResultEvents = {e1}
  NoEvent = NoEvent
  Adapters = {a1}
  AdapterOf <- SharedAdapter
  Fake = FALSE
  BatchSize = 2
  Lease = 2
  RetryBase = 1
  RetryMax = 1
  MaxAttempt = 1
  RetryDelay <- MCRetryDelay
  MaxBatchTime = 1
  MaxCrashes = 1
SPECIFICATION FairSpec
INVARIANT SoldOnce
 
