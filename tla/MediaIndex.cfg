\* Two paths that may hold the same content, two threads of overlapping scans,
\* two changes: enough to rewrite or move a file during one scan.
\* Only one of the two names is a word that the full-text query accepts.
CONSTANTS
  Paths = {a, b}
  Contents = {x, y}
  Barewords = {a}
  Workers = {w1, w2}
  None = None
  MaxChanges = 2
  MaxCleans = 1
  MaxFailures = 1
SPECIFICATION FairSpec
INVARIANTS StaleIsDetected SearchFinds
PROPERTIES ScansConverge
CHECK_DEADLOCK FALSE
