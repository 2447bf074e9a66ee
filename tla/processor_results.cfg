\* Results that are still being sent when the process ends.
SPECIFICATION Spec
CONSTANTS
  Queues = {q1}
  MaxJobs = 1
INVARIANT ResultsSent
