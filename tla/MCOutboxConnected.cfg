SPECIFICATION FairSpec
CONSTANTS
  Events = {1}
  Dispatchers = {d1, d2}
  BatchSize = 1
  MaxHandlerRetries = 2
  JobAttempts = 2
  WorkerHasMongo = TRUE
  MaxFaults = 4
INVARIANTS
  SentIsCovered
  NotDeadTooSoon
  EmailScheduledOnce
PROPERTIES
  EveryEventSettles
