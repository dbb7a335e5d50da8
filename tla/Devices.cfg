\* Two threads over two lifetimes of the device list; one routed recording
\* that shares a file name with one of a pair; two viewers of a pool of two
\* buffers; two states of the WiFi; an agent that
\* is killed twice and loses two answers or writes.
CONSTANTS
  Threads = {t1, t2}
  Ttl = 2
  ScanTime = 1
  MaxTime = 6
  NotYet = NotYet
  j1 = j1
  m1 = m1
  m2 = m2
  n1 = n1
  n2 = n2
  Routed = {j1}
  Group <- MCGroup
  w1 = w1
  w2 = w2
  Witness <- MCWitness
  Readers = {r1}
  Names = {n1, n2}
  NameOf <- MCNameOf
  MaxWrites = 2
  NoFile = NoFile
  Viewers = {v1, v2, v3}
  PoolSize = 2
  Links = {l1, l2}
  Unknown = Unknown
  MaxDeaths = 2
  MaxLosses = 2
SPECIFICATION Spec
INVARIANTS AnswersAreRecent NothingStaysOpen StoredIsWhole RecordingIsKept LossesExplainRegistrations
PROPERTIES WaiterIsServed StatusConverges
CHECK_DEADLOCK FALSE
