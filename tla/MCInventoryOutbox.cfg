\* FAKE mode: each process has an adapter of its own in memory, so answers may
\* disagree; and batches that may outlive their leases (MaxBatchTime > Lease).
CONSTANTS
  w1 = w1
  w2 = w2
  a1 = a1
  Orders = {o1, o2}
  Workers = {w1, w2}
  Tokens = {t1, t2, t3}
  NoToken = NoToken
  ResultEvents = {e1, e2}
  NoEvent = NoEvent
  Adapters = {w1, w2}
  AdapterOf <- OwnAdapter
  Fake = TRUE
  BatchSize = 2
  Lease = 2
  RetryBase = 1
  RetryMax = 2
  MaxAttempt = 2
  RetryDelay <- MCRetryDelay
  MaxBatchTime = 3
  MaxCrashes = 1
SPECIFICATION Spec
SYMMETRY Symmetry
INVARIANTS TypeOK  TablesAgree
PROPERTY SagaSpec
