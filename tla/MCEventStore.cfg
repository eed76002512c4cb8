\* Two bodies sharing a key, two workers, two failures, and deliveries enough to
\* outlast them: safety, refinement and liveness of one instance.
SPECIFICATION FairSpec
CONSTANTS
  Workers = {w1, w2}
  p1 = p1
  p2 = p2
  k1 = k1
  k2 = k2
  Payloads = {p1, p2}
  Batch <- Bodies
  NoKey = NoKey
  MaxDeliveries = 8
  MaxFailures = 2
  Nothing = Nothing
  Failed = Failed
  NoWorker = NoWorker
INVARIANTS TypeOK OncePerKey FreeLockIsClean AckedIsDurable CopiesNeedFailures
PROPERTIES ImplementsEventLog EveryPayloadAcknowledged
CHECK_DEADLOCK FALSE
