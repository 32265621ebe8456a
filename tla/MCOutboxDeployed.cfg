SPECIFICATION Spec
CONSTANTS
  Events = {1, 2}
  Dispatchers = {d1, d2}
  BatchSize = 2
  MaxHandlerRetries = 2
  JobAttempts = 2
  WorkerHasMongo = FALSE
  MaxFaults = 1
SYMMETRY DispatcherSymmetry
INVARIANTS
  TypeOK
  SentIsCovered
  OneDispatcherAtATime
