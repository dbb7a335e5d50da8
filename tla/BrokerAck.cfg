\* A message, its successor and a failing connection.
CONSTANTS
  BufSize = 2
  MaxMsgs = 4
SPECIFICATION Spec
INVARIANT AckMeansDelivered
CHECK_DEADLOCK FALSE
