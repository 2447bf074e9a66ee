\* Two executions, of one message or of two, with pipes left or not.
SPECIFICATION Spec
CONSTANTS
  Executions = {e1, e2}
  None = None
  Left = Left
  MaxOpens = 2
  MaxChunks = 1
  BufferSize = 2
INVARIANTS ContextGenuine NobodyLeftBlocked
CHECK_DEADLOCK FALSE
