\* Two executions of two actions without git: whose variables does a script get?
SPECIFICATION Spec
CONSTANTS
  ActionNames = {a1, a2}
  Urls = {}
  Executions = {e1, e2}
  MaxCommits = 1
  Spare = TRUE
  None = None
SYMMETRY Symmetry
INVARIANT OwnEnvironment
