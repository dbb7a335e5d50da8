\* Three instances: one holds the lock, one waits for it, and one arrives
\* when the file has been removed. As many inodes as files can be open.
CONSTANTS
  Procs = {p1, p2, p3}
  Inodes = {i1, i2, i3}
  Nobody = Nobody
  MaxCrashes = 1
SPECIFICATION FairSpec
INVARIANTS ReadyMeansMigrated FailureHasACause
PROPERTIES StartTerminates
CHECK_DEADLOCK FALSE
