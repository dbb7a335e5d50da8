\* A deleted row and a second file are enough.
CONSTANTS
  Paths = {a, b}
  Contents = {x, y}
  Barewords = {a}
  Workers = {w1, w2}
  None = None
  MaxChanges = 2
  MaxCleans = 1
  MaxFailures = 1
SPECIFICATION Spec
INVARIANT SearchIsSound
CHECK_DEADLOCK FALSE
