\* Two actions with any source, two executions, two repositories.
SPECIFICATION Spec
CONSTANTS
  ActionNames = {a1, a2}
  Urls = {u1, u2}
  Executions = {e1, e2}
  MaxCommits = 2
  Spare = FALSE
  None = None
SYMMETRY Symmetry
INVARIANTS AcceptedActionsRun OneCommitPerScript
