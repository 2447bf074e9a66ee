\* Two queues that tokens list in any combination, a signal at any moment,
\* inside the Windows service.
SPECIFICATION ServiceSpec
CONSTANTS
  Queues = {q1, q2}
  MaxJobs = 1
INVARIANTS TypeOK PollersMatchToken OrderlyStop
PROPERTIES StopCompletes JecFollowsService
