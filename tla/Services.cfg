\* Two runs of sync or backup over two photos of one second and one file; a
\* database of two pages and two transactions; a batch of up to three videos; three
\* signals; two threads of one process and one of another; films of seven frames;
\* three commands.
CONSTANTS
  a1 = a1
  a2 = a2
  f1 = f1
  p1 = p1
  p2 = p2
  s1 = s1
  s2 = s2
  t1 = t1
  t2 = t2
  t3 = t3
  q1 = q1
  q2 = q2
  Runs = {r1, r2}
  Assets = {a1, a2}
  Files = {f1}
  Shas = {s1, s2}
  Paths = {p1, p2}
  Target <- MCTarget
  Recorded <- MCRecorded
  None = None
  Torn = Torn
  MaxCopyFails = 1
  Pages = {p1, p2}
  Txns = {t1, t2}
  SamePath = FALSE
  Absent = Absent
  MaxCrashes = 1
  Requests = {r1}
  Videos = {f1, a1, a2}
  MaxSignals = 3
  Callers = {t1, t2, t3}
  ProcessOf <- MCProcessOf
  Shares = {a1, a2}
  NoSection = NoSection
  Garbled = Garbled
  MaxCalls = 3
  MaxRestarts = 1
  Pictures = {s1, s2}
  MaxFrames = 7
  IdleCounts = {0, 2}
  Fps = 2
  Rates = {1, 2, 3}
  Media = {f1}
  Mounts = {a1, a2}
  NoArg = NoArg
  MaxVerbs = 3
SPECIFICATION Spec
INVARIANTS RememberedIsThere SnapshotIsWhole CompletedIsAll CleanersRunOnce AddedIsKept FramesAreRight 
PROPERTY EveryBatchEnds
CHECK_DEADLOCK FALSE
