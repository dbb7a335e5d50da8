\* Two clients, each in the other's way, and the status task of one recording
\* after the other.
CONSTANTS
  Clients = {c1, c2}
  Task = Task
  Nobody = Nobody
SPECIFICATION FairSpec
INVARIANTS OneProcess ToldIsStoppable
PROPERTIES NoStatusAfterStop CommandsEnd
CHECK_DEADLOCK FALSE
