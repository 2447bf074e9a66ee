\* The sender of the result overwrites the error of the handler.
SPECIFICATION Spec
CONSTANTS
  Callers = {c1}
  NoCaller = NoCaller
INVARIANT HandlerErrorReported
