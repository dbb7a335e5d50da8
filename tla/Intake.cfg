\* Three uploads, two of one content, under two names: the same name twice,
\* the same content under two names, and a third one beside them.
CONSTANTS
  Uploads = {u1, u2, u3}
  Names = {m, n}
  u1 = u1
  u2 = u2
  u3 = u3
  x = x
  y = y
  Body <- MCBody
  None = None
  MaxCrashes = 1
SPECIFICATION FairSpec
INVARIANTS StoreIsAddressedByContent AnsweredIsKept
PROPERTIES UploadsAreStored
CHECK_DEADLOCK FALSE
