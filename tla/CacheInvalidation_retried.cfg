SPECIFICATION FairSpec
CONSTANTS
  Operations = {o1, o2}
  Callers = {c1, c2, c3}
  RETRY_INTERVAL_MS = 2
  RETRY_MAX_DELAY_MS = 3
  RETRY_MAX_QUEUE = 1
  AttemptsCap = 1
  MaxFaults = 2
INVARIANTS CacheTypeOK RetriesAreScheduled
PROPERTIES ForgottenOnlyByLimits OverfullOnlyByRetry QueueDrains
