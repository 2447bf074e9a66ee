\* No permanent worker but a buffer: a buffered job can be stranded.
SPECIFICATION Spec
CONSTANTS
  Jobs = {j1, j2}
  Workers = {w1, w2, w3}
  Submitters = {s1}
  None = None
  ConfMaxNumberOfWorker = 2
  ConfMinNumberOfWorker = 0
  ConfQueueSize = 1
INVARIANT StopDrains
