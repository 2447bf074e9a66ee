\* One permanent worker, one more on demand, a buffer of one job; a fourth job
\* for which there may be no room.
SPECIFICATION FairSpec
CONSTANTS
  Jobs = {j1, j2, j3, j4}
  Workers = {w1, w2, w3}
  Submitters = {s1, s2}
  None = None
  ConfMaxNumberOfWorker = 2
  ConfMinNumberOfWorker = 1
  ConfQueueSize = 1
INVARIANTS TypeOK CountersExact WorkerLimits AvailabilityHonest NoSendOnClosedQueue JobConservation StopDrains
PROPERTIES NoAddDuringWait StopCompletes ImplementsJobService
