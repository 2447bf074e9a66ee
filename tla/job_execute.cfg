\* Three goroutines execute the same job.
SPECIFICATION FairSpec
CONSTANTS
  Callers = {c1, c2, c3}
  NoCaller = NoCaller
INVARIANTS TypeOK ExecutedOnce
PROPERTIES OutcomeHandedOver ExecuteReturns
