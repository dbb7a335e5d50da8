\* A call that another thread's call overlaps returns the wrong output.
CONSTANTS
  MaxJobs = 1
  MaxFiles = 2
  MaxCalls = 2
  h = h
  g = g
  Callers <- MCCallers
  Console = Console
  Lost = Lost
  None = None
  Garbled = Garbled
SPECIFICATION Spec
INVARIANT CallReturnsOwnResult
CHECK_DEADLOCK FALSE
