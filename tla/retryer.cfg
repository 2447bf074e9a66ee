\* The real retry count; statuses on both sides of every boundary.
SPECIFICATION Spec
CONSTANTS
  maxRetryCount = 5
  Statuses = {200, 202, 429, 499, 500, 599, 600}
INVARIANTS TypeOK EffortJustified BodyIntact HonestOutcome BackoffBudget
PROPERTY RetriesRunOut
CHECK_DEADLOCK FALSE
