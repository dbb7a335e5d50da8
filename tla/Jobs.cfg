\* A worker and two handlers make overlapping calls; a job has a second file
\* after its first.
CONSTANTS
  MaxJobs = 1
  MaxFiles = 2
  MaxCalls = 2
  h = h
  g = g
  Callers <- MCCallers
  Console = Console
  Lost = Lost
  None = None
  Garbled = Garbled
SPECIFICATION FairSpec
INVARIANT LoneCallIsRight
PROPERTIES JobsMoveForward JobsSettle
CHECK_DEADLOCK FALSE
