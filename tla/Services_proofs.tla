--------------------------- MODULE Services_proofs ---------------------------
(* Machine-checked proofs about the smaller components, each for every value of *)
(* its constants: the copies table, the counters of batches, the snapshots of the *)
(* database, the cleaners of a process, the network paths                         *)
(* and, of the programs around the cameras, the age of the device list, the       *)
(* registration of the camera agent and the frame buffers of the previews.        *)
EXTENDS Copies, Batches, Snapshots, Lifecycle, NetPaths, DeviceCache, CameraAgent, Preview,
  FiniteSetTheorems, SequenceTheorems, TLAPS

-----------------------------------------------------------------------------
(* The copies table. *)

CopyPcs == {"idle", "open", "write", "remember"}
Busy == {"write", "remember"}

\* A run that is at an item has a content and, through it, a destination.
CopyTypeOK ==
  /\ source \in [Items -> Shas]
  /\ copyOf \in [Paths -> Shas \cup {None, Torn}]
  /\ copies \in [Shas -> Paths \cup {None}] /\ flushed \in [Shas -> Paths \cup {None}]
  /\ copyJob \in [Runs -> [pc : CopyPcs, item : Items \cup {None}, sha : Shas \cup {None}]]
  /\ \A r \in Runs : copyJob[r].pc # "idle" => copyJob[r].item \in Items /\ copyJob[r].sha \in Shas
  /\ orphans \subseteq Shas \X Paths
  /\ \A r \in Runs : toCopy[r] \subseteq Items

\* What the table says holds, and what it said at the last flush.
Holds(table) ==
  \A s \in Shas : table[s] # None /\ table[s] \notin excused => copyOf[table[s]] = s

\* What a run is about to remember is there.
WrittenIsThere ==
  \A r \in Runs : copyJob[r].pc = "remember" /\ Dest(r) \notin excused =>
    copyOf[Dest(r)] = copyJob[r].sha

\* A destination that a run has open is nobody else's.
OpenIsFree ==
  \A r \in Runs : copyJob[r].pc \in Busy /\ Dest(r) \notin excused =>
    /\ \A q \in Runs \ {r} : ~(copyJob[q].pc \in Busy /\ Dest(q) = Dest(r))
    /\ copyJob[r].pc = "write" => \A s \in Shas : copies[s] # Dest(r) /\ flushed[s] # Dest(r)

CopyInv == CopyTypeOK /\ Holds(copies) /\ Holds(flushed) /\ WrittenIsThere /\ OpenIsFree

LEMMA CopyConstants ==
  /\ Target \in [Items -> Paths] /\ Recorded \in [Items -> Shas]
  /\ None \notin Shas /\ None \notin Paths /\ Torn \notin Shas /\ Files \subseteq Items
BY TargetAssumption, NoneAssumption DEF Items

LEMMA CopyInitInv == CopyInit => CopyInv
BY CopyConstants DEF CopyInit, CopyInv, CopyTypeOK, Holds, WrittenIsThere, OpenIsFree, NoJob,
     CopyPcs, Busy, Dest

LEMMA CopyNextInv == CopyInv /\ [CopyNext]_copyVars => CopyInv'
<1> SUFFICES ASSUME CopyInv, [CopyNext]_copyVars
             PROVE  CopyInv'
  OBVIOUS
<1> USE CopyConstants DEF CopyInv, CopyTypeOK, Holds, WrittenIsThere, OpenIsFree, CopyPcs, Busy, Dest
<1>1. CASE UNCHANGED copyVars
  BY <1>1 DEF copyVars
<1>2. ASSUME NEW r \in Runs, BeginRun(r)
      PROVE  CopyInv'
  BY <1>2 DEF BeginRun, Items
<1>3. ASSUME NEW r \in Runs, NEW i \in Items, CheckCopied(r, i)
      PROVE  CopyInv'
  <2>1. KeyOf(i) \in Shas
    BY DEF KeyOf
  <2> QED BY <1>3, <2>1 DEF CheckCopied, NoJob
<1>4. ASSUME NEW r \in Runs, OpenCopy(r)
      PROVE  CopyInv'
  BY <1>4 DEF OpenCopy, InUse
<1>5. ASSUME NEW r \in Runs, WriteCopy(r)
      PROVE  CopyInv'
  BY <1>5 DEF WriteCopy
<1>6. ASSUME NEW r \in Runs, Remember(r)
      PROVE  CopyInv'
  BY <1>6 DEF Remember, NoJob
<1>7. ASSUME NEW r \in Runs, FailCopy(r)
      PROVE  CopyInv'
  BY <1>7 DEF FailCopy, NoJob, OneMoreFailure
<1>8. CASE BeginCleanup
  BY <1>8 DEF BeginCleanup
<1>9. ASSUME NEW s \in Shas, NEW p \in Paths, CleanUp(s, p)
      PROVE  CopyInv'
  BY <1>9 DEF CleanUp
<1>10. CASE FlushProxy
  BY <1>10 DEF FlushProxy
<1>11. CASE CopyCrash
  BY <1>11 DEF CopyCrash, NoJob, OneMoreFailure
<1>12. ASSUME NEW i \in Items, NEW s \in Shas, EditSource(i, s)
       PROVE  CopyInv'
  BY <1>12 DEF EditSource, OneMoreFailure
<1>13. ASSUME NEW p \in Paths, DeleteCopy(p)
       PROVE  CopyInv'
  BY <1>13 DEF DeleteCopy, OneMoreFailure
<1> QED
  BY <1>1, <1>2, <1>3, <1>4, <1>5, <1>6, <1>7, <1>8, <1>9, <1>10, <1>11, <1>12, <1>13
  DEF CopyNext, CopyStep

\* An entry of the copies table has its content at its destination, through
\* overlapping runs, failures, crashes and roll-backs (sync.py, backup in
\* __init__.py), with the exceptions that RememberedIsThere names.
THEOREM RememberedCopiesExist == CopyInit /\ [][CopyNext]_copyVars => []RememberedIsThere
<1>1. CopyInv => RememberedIsThere
  BY DEF CopyInv, Holds, RememberedIsThere
<1> QED BY CopyInitInv, CopyNextInv, <1>1, PTL

-----------------------------------------------------------------------------
(* Batches. *)

Phases == {"new", "built", "loop", "done", "none", "error"}

BatchTypeOK ==
  /\ phase \in [Requests -> Phases]
  /\ videos \in [Requests -> SUBSET Videos] /\ todo \in [Requests -> SUBSET Videos]
  /\ processed \in [Requests -> Nat] /\ failed \in [Requests -> Nat]
  /\ state \in [Requests -> {"created", "processing", "completed", "failed"}]

\* Before its loop a batch has counted nothing and is not completed.
NothingCounted(r) ==
  phase[r] \notin {"loop", "done"} => processed[r] + failed[r] = 0 /\ todo[r] = {}

\* Each video is to be taken or has been counted.
EachIsCounted(r) ==
  phase[r] \in {"loop", "done"} =>
    Cardinality(todo[r]) + processed[r] + failed[r] = Cardinality(videos[r])

CompletedIsTaken(r) ==
  state[r] = "completed" => phase[r] \in {"loop", "done"} /\ todo[r] = {}

BatchInv ==
  /\ BatchTypeOK
  /\ \A r \in Requests : NothingCounted(r) /\ EachIsCounted(r) /\ CompletedIsTaken(r)

LEMMA VideosAreFinite ==
  ASSUME NEW S \in SUBSET Videos
  PROVE  /\ IsFiniteSet(S) /\ Cardinality(S) \in Nat
         /\ Cardinality(S) = 0 => S = {}
         /\ \A v \in S : Cardinality(S \ {v}) = Cardinality(S) - 1
<1>1. IsFiniteSet(S)
  BY BatchesAssumption, FS_Subset
<1> QED BY <1>1, FS_CardinalityType, FS_EmptySet, FS_RemoveElement

\* What taking one video does, however it is counted.
LEMMA TakenOne ==
  ASSUME NEW r \in Requests, NEW v \in Videos, Take(r, v), BatchInv
  PROVE  /\ todo' \in [Requests -> SUBSET Videos]
         /\ phase[r] = "loop"
         /\ Cardinality(todo'[r]) = Cardinality(todo[r]) - 1
         /\ Cardinality(todo'[r]) \in Nat /\ Cardinality(videos[r]) \in Nat
         /\ Cardinality(todo'[r]) = 0 => todo'[r] = {}
         /\ \A q \in Requests \ {r} : todo'[q] = todo[q]
<1>1. /\ todo[r] \in SUBSET Videos /\ todo'[r] = todo[r] \ {v} /\ v \in todo[r]
      /\ videos[r] \in SUBSET Videos
  BY DEF Take, BatchInv, BatchTypeOK
<1>2. todo'[r] \in SUBSET Videos
  BY <1>1
<1> QED BY <1>1, <1>2, VideosAreFinite DEF Take, BatchInv, BatchTypeOK

\* A video that is counted p times as processed and f times as failed.
LEMMA OneCounted ==
  ASSUME NEW r \in Requests, NEW v \in Videos, Take(r, v), BatchInv,
         NEW p \in {0, 1}, NEW f \in {0, 1}, p + f = 1,
         processed' = [processed EXCEPT ![r] = @ + p], failed' = [failed EXCEPT ![r] = @ + f],
         NEW st \in {"created", "processing", "completed", "failed"}, state' = [state EXCEPT ![r] = st],
         st = "completed" => processed[r] + p + failed[r] + f = Cardinality(videos[r])
  PROVE  BatchInv'
<1> DEFINE n == Cardinality(todo'[r])
           k == Cardinality(videos[r])
<1>1. /\ todo' \in [Requests -> SUBSET Videos] /\ phase[r] = "loop"
      /\ Cardinality(todo[r]) = n + 1 /\ n \in Nat /\ k \in Nat
      /\ n = 0 => todo'[r] = {}
      /\ \A q \in Requests \ {r} : todo'[q] = todo[q]
  <2>1. /\ Cardinality(todo'[r]) = Cardinality(todo[r]) - 1 /\ Cardinality(todo[r]) \in Nat
    BY TakenOne, VideosAreFinite DEF BatchInv, BatchTypeOK
  <2> QED BY <2>1, TakenOne
<1>2. phase' = phase /\ videos' = videos
  BY DEF Take
<1>3. /\ processed[r] \in Nat /\ failed[r] \in Nat /\ state'[r] = st
      /\ processed'[r] = processed[r] + p /\ failed'[r] = failed[r] + f
  BY DEF BatchInv, BatchTypeOK
<1>4. BatchTypeOK'
  <2>1. phase' \in [Requests -> Phases] /\ videos' \in [Requests -> SUBSET Videos]
    BY <1>2 DEF BatchInv, BatchTypeOK
  <2>2. processed[r] + p \in Nat /\ failed[r] + f \in Nat
    BY <1>3
  <2>3. processed' \in [Requests -> Nat] /\ failed' \in [Requests -> Nat]
    BY <2>2 DEF BatchInv, BatchTypeOK
  <2>4. state' \in [Requests -> {"created", "processing", "completed", "failed"}]
    BY DEF BatchInv, BatchTypeOK
  <2> QED BY <1>1, <2>1, <2>3, <2>4 DEF BatchTypeOK
<1>5. n + processed'[r] + failed'[r] = k
  <2>1. n + 1 + processed[r] + failed[r] = k
    BY <1>1 DEF BatchInv, EachIsCounted
  <2> HIDE DEF n, k
  <2> QED BY <1>1, <1>3, <2>1
<1>6. st = "completed" => n = 0
  <2>1. st = "completed" => processed[r] + p + failed[r] + f = k
    OBVIOUS
  <2> HIDE DEF n, k
  <2> QED BY <1>1, <1>3, <1>5, <2>1
<1>7. ASSUME NEW q \in Requests
      PROVE  NothingCounted(q)' /\ EachIsCounted(q)' /\ CompletedIsTaken(q)'
  <2>1. CASE q = r
    BY <1>1, <1>2, <1>3, <1>5, <1>6, <2>1 DEF NothingCounted, EachIsCounted, CompletedIsTaken
  <2>2. CASE q # r
    <3>1. /\ todo'[q] = todo[q] /\ processed'[q] = processed[q] /\ failed'[q] = failed[q]
          /\ state'[q] = state[q] /\ NothingCounted(q) /\ EachIsCounted(q) /\ CompletedIsTaken(q)
      BY <1>1, <2>2 DEF BatchInv, BatchTypeOK
    <3> QED BY <1>2, <3>1 DEF NothingCounted, EachIsCounted, CompletedIsTaken
  <2> QED BY <2>1, <2>2
<1> QED BY <1>4, <1>7 DEF BatchInv

LEMMA CompleteCounts ==
  ASSUME NEW r \in Requests, NEW v \in Videos, Complete(r, v), BatchInv
  PROVE  BatchInv'
<1> DEFINE st == Applied("processing_completed", r, processed[r] + 1 + failed[r])
           p == 1
           f == 0
<1>1. /\ Take(r, v) /\ processed' = [processed EXCEPT ![r] = @ + 1] /\ failed' = failed
      /\ state' = [state EXCEPT ![r] = st]
  BY DEF Complete
<1>2. /\ failed \in [Requests -> Nat] /\ processed[r] \in Nat /\ failed[r] \in Nat
      /\ state[r] \in {"created", "processing", "completed", "failed"} /\ CompletedIsTaken(r)
  BY DEF BatchInv, BatchTypeOK
<1>3. st = IF processed[r] + 1 + failed[r] = Cardinality(videos[r]) THEN "completed" ELSE state[r]
  BY Zenon DEF Applied
<1>4. failed' = [failed EXCEPT ![r] = @ + 0]
  BY <1>1, <1>2
<1> HIDE DEF st
<1>5. st \in {"created", "processing", "completed", "failed"}
  BY <1>2, <1>3
<1>6. st = "completed" => processed[r] + 1 + failed[r] = Cardinality(videos[r])
  <2>1. state[r] # "completed"
    BY <1>1, <1>2 DEF CompletedIsTaken, Take
  <2> QED BY <1>3, <2>1
<1>7. p \in {0, 1} /\ f \in {0, 1} /\ p + f = 1
  OBVIOUS
<1>8. processed' = [processed EXCEPT ![r] = @ + p] /\ failed' = [failed EXCEPT ![r] = @ + f]
  BY <1>1, <1>4
<1>9. st = "completed" => processed[r] + p + failed[r] + f = Cardinality(videos[r])
  <2>1. processed[r] + p + failed[r] + f = processed[r] + 1 + failed[r]
    BY <1>2
  <2> QED BY <1>6, <2>1
<1> HIDE DEF p, f
<1> QED BY <1>1, <1>5, <1>7, <1>8, <1>9, OneCounted

LEMMA FailCounts ==
  ASSUME NEW r \in Requests, NEW v \in Videos, FailVideo(r, v), BatchInv
  PROVE  BatchInv'
<1> DEFINE p == 0
           f == 1
<1>1. Applied("processing_failed", r, 0) = "failed"
  BY Zenon DEF Applied
<1>2. /\ Take(r, v) /\ processed' = processed /\ processed \in [Requests -> Nat]
      /\ failed' = [failed EXCEPT ![r] = @ + 1] /\ state' = [state EXCEPT ![r] = "failed"]
  BY <1>1 DEF FailVideo, BatchInv, BatchTypeOK
<1>3. /\ p \in {0, 1} /\ f \in {0, 1} /\ p + f = 1
      /\ processed' = [processed EXCEPT ![r] = @ + p] /\ failed' = [failed EXCEPT ![r] = @ + f]
  BY <1>2
<1> HIDE DEF p, f
<1> QED BY <1>2, <1>3, OneCounted

LEMMA BatchInitInv == BatchInit => BatchInv
<1>1. Cardinality({}) = 0
  BY FS_EmptySet
<1> QED BY <1>1 DEF BatchInit, BatchInv, BatchTypeOK, Phases, NothingCounted, EachIsCounted, CompletedIsTaken

LEMMA BatchNextInv == BatchInv /\ [BatchNext]_batchVars => BatchInv'
<1> SUFFICES ASSUME BatchInv, [BatchNext]_batchVars
             PROVE  BatchInv'
  OBVIOUS
<1> USE DEF BatchInv, BatchTypeOK, Phases, NothingCounted, EachIsCounted, CompletedIsTaken
<1>1. CASE UNCHANGED batchVars
  BY <1>1 DEF batchVars
<1>2. ASSUME NEW r \in Requests, NEW vs \in SUBSET Videos, Build(r, vs)
      PROVE  BatchInv'
  BY <1>2 DEF Build
<1>3. ASSUME NEW r \in Requests, BuildFails(r) \/ Group(r)
      PROVE  BatchInv'
  BY <1>3 DEF BuildFails, Group
<1>4. ASSUME NEW r \in Requests, Start(r)
      PROVE  BatchInv'
  <2>1. Cardinality({}) = 0 /\ Cardinality(videos[r]) \in Nat
    BY FS_EmptySet, VideosAreFinite
  <2>2. ASSUME NEW q \in Requests \ {r}
        PROVE  NothingCounted(q)' /\ EachIsCounted(q)' /\ CompletedIsTaken(q)'
    BY <1>4, <2>2 DEF Start
  <2>3. processed[r] + failed[r] = 0 /\ todo[r] = {} /\ state[r] # "completed"
    BY <1>4 DEF Start
  <2>4. processed[r] = 0 /\ failed[r] = 0
    <3>1. processed[r] \in Nat /\ failed[r] \in Nat
      OBVIOUS
    <3> QED BY <2>3, <3>1
  <2>5. processed' = processed /\ failed' = failed /\ videos' = videos
    BY <1>4 DEF Start
  <2>6. CASE videos[r] = {}
    <3>1. phase' = [phase EXCEPT ![r] = "done"] /\ state' = state /\ todo' = todo
      BY <1>4, <2>6 DEF Start
    <3>2. BatchTypeOK'
      BY <2>5, <3>1
    <3>3. NothingCounted(r)' /\ CompletedIsTaken(r)'
      BY <2>3, <2>5, <3>1
    <3>4. EachIsCounted(r)'
      <4>1. Cardinality(todo[r]) = 0 /\ Cardinality(videos[r]) = 0
        BY <2>1, <2>3, <2>6
      <4>2. Cardinality(todo[r]) + processed[r] + failed[r] = Cardinality(videos[r])
        BY <2>4, <4>1
      <4> QED BY <2>5, <3>1, <4>2
    <3> QED BY <2>2, <3>2, <3>3, <3>4
  <2>7. CASE videos[r] # {}
    <3>1. /\ phase' = [phase EXCEPT ![r] = "loop"] /\ state' = [state EXCEPT ![r] = "processing"]
          /\ todo' = [todo EXCEPT ![r] = videos[r]]
      BY <1>4, <2>7 DEF Start
    <3>2. Cardinality(todo'[r]) = Cardinality(videos[r])
      BY <3>1
    <3> QED BY <2>1, <2>2, <2>4, <2>5, <3>1, <3>2
  <2> QED BY <2>6, <2>7
<1>5. ASSUME NEW r \in Requests, NEW v \in Videos, Complete(r, v)
      PROVE  BatchInv'
  BY <1>5, CompleteCounts DEF BatchInv
<1>6. ASSUME NEW r \in Requests, NEW v \in Videos, FailVideo(r, v)
      PROVE  BatchInv'
  BY <1>6, FailCounts DEF BatchInv
<1>7. ASSUME NEW r \in Requests, Finalize(r)
      PROVE  BatchInv'
  BY <1>7 DEF Finalize
<1>8. ASSUME NEW r \in Requests, GetManifest(r)
      PROVE  BatchInv'
  BY <1>8 DEF GetManifest
<1> QED
  BY <1>1, <1>2, <1>3, <1>4, <1>5, <1>6, <1>7, <1>8 DEF BatchNext, Process

\* A completed batch has taken and counted each of its videos, for any number of
\* requests and videos (BatchArtifact, BatchProcessor.process_batch).
THEOREM CompletedBatchesAreWhole == BatchInit /\ [][BatchNext]_batchVars => []CompletedIsAll
<1>1. BatchInv => CompletedIsAll
  <2> SUFFICES ASSUME BatchInv, NEW r \in Requests, state[r] = "completed"
               PROVE  todo[r] = {} /\ processed[r] + failed[r] = Cardinality(videos[r])
    BY DEF CompletedIsAll
  <2>1. phase[r] \in {"loop", "done"} /\ todo[r] = {} /\ Cardinality({}) = 0
    BY FS_EmptySet DEF BatchInv, CompletedIsTaken
  <2>2. /\ processed[r] \in Nat /\ failed[r] \in Nat /\ Cardinality(videos[r]) \in Nat
        /\ Cardinality(todo[r]) + processed[r] + failed[r] = Cardinality(videos[r])
    BY <2>1, VideosAreFinite DEF BatchInv, BatchTypeOK, EachIsCounted
  <2> QED BY <2>1, <2>2
<1> QED BY BatchInitInv, BatchNextInv, <1>1, PTL

-----------------------------------------------------------------------------
(* The snapshots of a database in use, when the snapshot is a file of          *)
(* its own.                                                                    *)

File == [Pages -> SUBSET Txns]
Movers == [pc : {"idle", "open", "checkpoint", "copy"}, left : SUBSET Pages]

SnapTypeOK ==
  /\ db \in File /\ committed \in SUBSET Txns /\ (log = Absent \/ log \in File)
  /\ writer \in Movers /\ thread \in Movers

\* The pages that x has moved and the log agree, until the log is emptied.
MovedAgree(x) ==
  x.pc = "checkpoint" /\ x.left # {} /\ log # Absent => \A q \in Pages \ x.left : db[q] = log[q]

SnapInv ==
  /\ SnapTypeOK /\ orphan = Absent
  /\ MovedAgree(writer) /\ MovedAgree(thread)

LEMMA SnapInitInv == SnapInit => SnapInv
BY DEF SnapInit, SnapInv, SnapTypeOK, File, Movers, MovedAgree, At, Blank

LEMMA SnapNextInv == SnapInv /\ ~SamePath /\ [SnapNext]_snapVars => SnapInv'
<1> SUFFICES ASSUME SnapInv, ~SamePath, [SnapNext]_snapVars
             PROVE  SnapInv'
  OBVIOUS
<1> USE AbsentAssumption DEF SnapInv, SnapTypeOK, File, Movers, MovedAgree, At
<1>1. CASE UNCHANGED snapVars
  BY <1>1 DEF snapVars
<1>2. CASE OpenConn \/ CloseConn \/ Wake \/ BeginCopy \/ LoopFails \/ SnapCrash
  BY <1>2 DEF OpenConn, CloseConn, Wake, BeginCopy, LoopFails, SnapCrash
<1>3. ASSUME NEW t \in Txns, Commit(t)
      PROVE  SnapInv'
  BY <1>3 DEF Commit, Read, Moving
<1>4. ASSUME NEW p \in Pages, WriterMoves(p)
      PROVE  SnapInv'
  BY <1>4 DEF WriterMoves, Moving
<1>5. ASSUME NEW p \in Pages, ThreadMoves(p)
      PROVE  SnapInv'
  BY <1>5 DEF ThreadMoves, Moving
<1>6. ASSUME NEW p \in Pages, CopyPage(p)
      PROVE  SnapInv'
  BY <1>6 DEF CopyPage
<1>7. CASE Replace
  BY <1>7 DEF Replace
<1> QED
  BY <1>1, <1>2, <1>3, <1>4, <1>5, <1>6, <1>7 DEF SnapNext, ThreadStep, WriterStep

\* Every page of a file is at the same transactions.
Whole(file) == \A p, q \in Pages : file[p] = file[q]

\* Where the file under the name is whole: outside of a checkpoint that goes on or
\* was cut off by a death, and then the log still is; and while it is copied, up to
\* the checkpoint that overlap remembers, with the copied pages equal to its own.
WholeInv ==
  /\ log # Absent => Whole(log)
  /\ log = Absent => Whole(db)
  /\ thread.pc = "checkpoint" /\ thread.left = {} /\ ~Moving(writer) => Whole(db)
  /\ thread.pc = "copy" => tmp \in File
  /\ thread.pc = "copy" /\ ~overlap =>
       Whole(db) /\ \A p \in Pages \ thread.left : tmp[p] = db[p]
  /\ SnapshotIsWhole

LEMMA WholeInitInv == SnapInit => WholeInv
BY DEF SnapInit, WholeInv, Whole, SnapshotIsWhole, At, Blank

LEMMA WholeNextInv ==
  ASSUME SnapInv, ~SamePath, WholeInv, [SnapNext]_snapVars
  PROVE  WholeInv'
<1> USE AbsentAssumption DEF SnapTypeOK, File, Movers, At, Whole, SnapshotIsWhole
<1>0. SnapTypeOK /\ orphan = Absent /\ MovedAgree(writer) /\ MovedAgree(thread)
  BY DEF SnapInv
<1>1. CASE UNCHANGED snapVars
  BY <1>1 DEF snapVars, WholeInv, Moving
<1>2. CASE OpenConn \/ CloseConn \/ Wake \/ LoopFails \/ SnapCrash
  <2>1. /\ db' = db /\ log' = log /\ snapshot' = snapshot
        /\ overlap' = overlap
    BY <1>2 DEF OpenConn, CloseConn, Wake, LoopFails, SnapCrash
  <2>2. \/ tmp' = tmp /\ thread' = thread
        \/ thread' \in {At("idle"), At("checkpoint")}
    BY <1>2 DEF OpenConn, CloseConn, Wake, LoopFails, SnapCrash
  <2>3. thread'.pc = "checkpoint" /\ thread'.left = {} /\ Moving(writer) =>
          log = Absent \/ Moving(writer)' \/ Pages = {}
    BY <1>2, <1>0 DEF OpenConn, CloseConn, Wake, LoopFails, SnapCrash, Moving
  <2> QED BY <2>1, <2>2, <2>3 DEF WholeInv
<1>3. CASE BeginCopy
  <2>1. /\ db' = db /\ log' = log /\ snapshot' = snapshot /\ writer' = writer
        /\ thread' = [pc |-> "copy", left |-> Pages] /\ tmp' = Blank
        /\ overlap' = Moving(writer)
    BY <1>3 DEF BeginCopy
  <2>2. Blank \in File
    BY DEF Blank
  <2>3. ~Moving(writer) => Whole(db)
    BY <1>3 DEF BeginCopy, WholeInv
  <2> HIDE DEF File, Moving
  <2> QED BY <2>1, <2>2, <2>3 DEF WholeInv
<1>4. ASSUME NEW t \in Txns, Commit(t)
      PROVE  WholeInv'
  BY <1>0, <1>4 DEF Commit, Read, WholeInv, Moving
<1>5. ASSUME NEW p \in Pages, WriterMoves(p)
      PROVE  WholeInv'
  <2>1. /\ log \in File /\ db \in File /\ p \in writer.left /\ writer.left \in SUBSET Pages
        /\ db' = [db EXCEPT ![p] = log[p]] /\ writer'.left = writer.left \ {p}
        /\ writer'.pc = "checkpoint" /\ \A q \in Pages \ writer.left : db[q] = log[q]
        /\ overlap' = (overlap \/ (thread.pc = "copy" /\ db[p] # log[p]))
        /\ log' = (IF writer.left = {p} THEN Absent ELSE log)
        /\ UNCHANGED <<thread, tmp, snapshot>> /\ Whole(log)
    BY <1>0, <1>5 DEF WriterMoves, MovedAgree, WholeInv
  <2>2. writer'.left = {} => Whole(db')
    BY <2>1
  <2>3. writer'.left # Pages
    BY <2>1
  <2>4. db[p] = log[p] => db' = db
    BY <2>1
  <2>5. Whole(log') \/ log' = Absent
    BY <2>1
  <2>6. ~Moving(writer)' => Whole(db')
    BY <2>1, <2>2, <2>3 DEF Moving
  <2>7. log' = Absent => Whole(db')
    BY <2>1, <2>2
  <2>8. thread.pc = "copy" /\ ~overlap' => db' = db /\ ~overlap
    BY <2>1, <2>4
  <2> QED BY <2>1, <2>5, <2>6, <2>7, <2>8 DEF WholeInv
<1>6. ASSUME NEW p \in Pages, ThreadMoves(p)
      PROVE  WholeInv'
  BY <1>0, <1>6 DEF ThreadMoves, WholeInv, Moving, MovedAgree
<1>7. ASSUME NEW p \in Pages, CopyPage(p)
      PROVE  WholeInv'
  BY <1>0, <1>7 DEF CopyPage, WholeInv, Moving
<1>8. CASE Replace
  BY <1>0, <1>8 DEF Replace, WholeInv, Moving
<1> QED
  BY <1>1, <1>2, <1>3, <1>4, <1>5, <1>6, <1>7, <1>8 DEF SnapNext, ThreadStep, WriterStep

\* A published snapshot of a database of any number of pages is one state of it,
\* whatever the order of commits, checkpoints and copies and wherever the process
\* dies or the copy fails, unless a checkpoint by a writer overlapped the copy. The
\* snapshot has a path of its own: in the default configuration it is the database
\* itself, and this is false (bootstrap.py).
THEOREM SnapshotsAreWhole ==
  ASSUME ~SamePath
  PROVE  SnapInit /\ [][SnapNext]_snapVars => []SnapshotIsWhole
<1>1. WholeInv => SnapshotIsWhole
  BY DEF WholeInv
<1>2. SnapInv /\ WholeInv /\ [SnapNext]_snapVars => SnapInv' /\ WholeInv'
  BY SnapNextInv, WholeNextInv
<1> QED BY SnapInitInv, WholeInitInv, <1>1, <1>2, PTL

-----------------------------------------------------------------------------
(* The cleaners of a process that imports video, for any number of signals. The  *)
(* inductive invariant says where a registered cleaner is: on the list, in the    *)
(* hand of one shutdown, called or lost; and that nothing but an idle shutdown is  *)
(* on top of the one that has the bus, since the list is empty by then.           *)

Cleaners == {"bus", "publisher"}
FrameKinds == {"loop", "pop", "got bus", "got publisher", "publisher", "bus", "close"}
BusFrames == {"got bus", "bus", "close"}
BeforeBus == {"init", "start", "announce", "register"}
AfterHook == {"serve", "exit", "atexit", "dead"}

\* The bus is registered first, so there are four lists.
LifeTypeOK ==
  /\ main \in BeforeBus \cup {"assign", "hook"} \cup AfterHook
  /\ broker \in BOOLEAN /\ failedBus \in BOOLEAN /\ early \in BOOLEAN
  /\ bus \in {"none", "up", "closed"}
  /\ cleaners \in {<<>>, <<"bus">>, <<"publisher">>, <<"bus", "publisher">>}
  /\ frames \in Seq(FrameKinds)
  /\ calls \in [Cleaners -> {0, 1}]
  /\ hooked \subseteq Cleaners /\ lost \subseteq {"publisher"}

HasBus == cleaners \in {<<"bus">>, <<"bus", "publisher">>}
HasPublisher == cleaners \in {<<"publisher">>, <<"bus", "publisher">>}
InFrame(kinds) == \E i \in 1..Len(frames) : frames[i] \in kinds

\* Who has been registered, by the place of the main thread.
RegisteredInv ==
  /\ main \in BeforeBus => hooked = {}
  /\ main \in BeforeBus \cup {"assign"} => bus = "none"
  /\ bus # "none" => "bus" \in hooked
  /\ main = "assign" => "bus" \in hooked
  /\ main \in {"assign", "hook"} => hooked \subseteq {"bus"}
  /\ HasBus => "bus" \in hooked
  /\ HasPublisher => "publisher" \in hooked

\* A cleaner is in one place at a time, and a registered one is in one.
BusInv ==
  /\ "bus" \notin hooked \/ HasBus \/ InFrame({"got bus"}) => calls["bus"] = 0
  /\ "bus" \in hooked => HasBus \/ InFrame({"got bus"}) \/ calls["bus"] = 1
  /\ InFrame({"got bus"}) => "bus" \in hooked

PublisherInv ==
  /\ "publisher" \notin hooked \/ HasPublisher \/ InFrame({"got publisher"}) => calls["publisher"] = 0
  /\ HasPublisher => ~InFrame({"got publisher"})
  /\ \A i, j \in 1..Len(frames) : frames[i] = "got publisher" /\ frames[j] = "got publisher" => i = j
  /\ "publisher" \in hooked =>
       HasPublisher \/ InFrame({"got publisher"}) \/ calls["publisher"] = 1 \/ "publisher" \in lost
  /\ InFrame({"got publisher"}) => "publisher" \in hooked

OnTopOfBus ==
  /\ InFrame(BusFrames) => cleaners = <<>>
  /\ \A i, j \in 1..Len(frames) : frames[i] \in BusFrames /\ i < j => frames[j] = "loop"

\* The thread leaves atexit with an empty list.
EndsEmpty ==
  /\ main = "atexit" /\ frames = <<>> => cleaners = <<>>
  /\ main = "dead" => cleaners = <<>> /\ frames = <<>>

\* A bus that stays up after its cleaner was called is being closed, or the call
\* came before the assignment.
BusIsClosing ==
  /\ calls["bus"] = 1 /\ bus = "none" => early \/ InFrame({"bus"})
  /\ calls["bus"] = 1 /\ bus = "up" => early \/ broker \/ InFrame({"bus", "close"})

LifeInv ==
  /\ LifeTypeOK /\ RegisteredInv /\ BusInv /\ PublisherInv /\ OnTopOfBus
  /\ EndsEmpty /\ BusIsClosing

LEMMA Lists ==
  /\ <<>> # <<"bus">> /\ <<>> # <<"publisher">> /\ <<>> # <<"bus", "publisher">>
  /\ <<"bus">> # <<"publisher">> /\ <<"bus">> # <<"bus", "publisher">>
  /\ <<"publisher">> # <<"bus", "publisher">>
  /\ Append(<<>>, "bus") = <<"bus">> /\ Append(<<>>, "publisher") = <<"publisher">>
  /\ Append(<<"bus">>, "publisher") = <<"bus", "publisher">>
  /\ Len(<<"bus">>) = 1 /\ Len(<<"publisher">>) = 1 /\ Len(<<"bus", "publisher">>) = 2
  /\ SubSeq(<<"bus">>, 1, 0) = <<>> /\ SubSeq(<<"publisher">>, 1, 0) = <<>>
  /\ SubSeq(<<"bus", "publisher">>, 1, 1) = <<"bus">>
<1>1. /\ Len(<<>>) = 0 /\ Len(<<"bus">>) = 1 /\ Len(<<"publisher">>) = 1
      /\ Len(<<"bus", "publisher">>) = 2
  OBVIOUS
<1>2. /\ <<>> # <<"bus">> /\ <<>> # <<"publisher">> /\ <<>> # <<"bus", "publisher">>
      /\ <<"bus">> # <<"bus", "publisher">> /\ <<"publisher">> # <<"bus", "publisher">>
  BY <1>1
<1>3. <<"bus">> # <<"publisher">>
  <2>1. <<"bus">>[1] = "bus" /\ <<"publisher">>[1] = "publisher"
    OBVIOUS
  <2> QED BY <2>1
<1>4. /\ Append(<<>>, "bus") = <<"bus">> /\ Append(<<>>, "publisher") = <<"publisher">>
      /\ Append(<<"bus">>, "publisher") = <<"bus", "publisher">>
  <2>1. ASSUME NEW c \in Cleaners
        PROVE  Append(<<>>, c) = <<c>>
    <3>1. Append(<<>>, c) \in Seq(Cleaners) /\ Len(Append(<<>>, c)) = 1 /\ Append(<<>>, c)[1] = c
      BY EmptySeq, AppendProperties
    <3>2. <<c>> \in Seq(Cleaners) /\ Len(<<c>>) = 1 /\ <<c>>[1] = c
      OBVIOUS
    <3> QED BY <3>1, <3>2, SeqEqual
  <2>2. Append(<<"bus">>, "publisher") = <<"bus", "publisher">>
    <3> DEFINE s == <<"bus">>
               t == <<"bus", "publisher">>
    <3>1. s \in Seq(Cleaners) /\ "publisher" \in Cleaners /\ Len(s) = 1 /\ s[1] = "bus"
      BY DEF Cleaners
    <3>2. t \in Seq(Cleaners) /\ Len(t) = 2 /\ t[1] = "bus" /\ t[2] = "publisher"
      BY DEF Cleaners
    <3> HIDE DEF s, t
    <3>3. /\ Append(s, "publisher") \in Seq(Cleaners) /\ Len(Append(s, "publisher")) = 2
          /\ Append(s, "publisher")[1] = "bus" /\ Append(s, "publisher")[2] = "publisher"
      <4> DEFINE u == Append(s, "publisher")
      <4>1. /\ u \in Seq(Cleaners) /\ Len(u) = Len(s) + 1 /\ u[Len(s) + 1] = "publisher"
            /\ \A i \in 1..Len(s) : u[i] = s[i]
        <5>1. \A i \in 1..Len(s) : u[i] = s[i]
          <6> SUFFICES ASSUME NEW i \in 1..Len(s)
                       PROVE  Append(s, "publisher")[i] = s[i]
            OBVIOUS
          <6>1. \A S : \A q \in Seq(S) : \A e \in S : \A k \in 1..Len(q) : Append(q, e)[k] = q[k]
            BY AppendProperties
          <6> QED BY <3>1, <6>1
        <5>2. u[Len(s) + 1] = "publisher"
          BY <3>1, AppendProperties
        <5>3. u \in Seq(Cleaners) /\ Len(u) = Len(s) + 1
          BY <3>1, AppendProperties
        <5> QED BY <5>1, <5>2, <5>3
      <4> HIDE DEF u
      <4>2. Len(u) = 2 /\ u[2] = "publisher" /\ u[1] = "bus"
        BY <3>1, <4>1
      <4> QED BY <4>1, <4>2 DEF u
    <3>4. Append(s, "publisher") = t
      BY <3>2, <3>3, SeqEqual
    <3> QED BY <3>4 DEF s, t
  <2> QED BY <2>1, <2>2 DEF Cleaners
<1>5. SubSeq(<<"bus">>, 1, 0) = <<>> /\ SubSeq(<<"publisher">>, 1, 0) = <<>>
  BY SubSeqEmpty
<1>6. SubSeq(<<"bus", "publisher">>, 1, 1) = <<"bus">>
  <2> DEFINE s == <<"bus">>
             t == <<"bus", "publisher">>
  <2>1. s \in Seq(Cleaners) /\ "publisher" \in Cleaners /\ Len(s) = 1 /\ s[1] = "bus"
    BY DEF Cleaners
  <2>2. t \in Seq(Cleaners) /\ Len(t) = 2 /\ t[1] = "bus" /\ t[2] = "publisher"
    BY DEF Cleaners
  <2> HIDE DEF s, t
  <2>3. /\ SubSeq(t, 1, 1) \in Seq(Cleaners) /\ Len(SubSeq(t, 1, 1)) = 1
        /\ SubSeq(t, 1, 1)[1] = "bus"
    BY <2>2, SubSeqProperties, "bus" \in Cleaners DEF Cleaners
  <2>4. SubSeq(t, 1, 1) = s
    BY <2>1, <2>3, SeqEqual
  <2> QED BY <2>4 DEF s, t
<1> QED BY <1>1, <1>2, <1>3, <1>4, <1>5, <1>6

LEMMA LifeInitInv == LifeInit => LifeInv
<1> SUFFICES ASSUME LifeInit
             PROVE  LifeInv
  OBVIOUS
<1>1. /\ main = "init" /\ broker \in BOOLEAN /\ bus = "none" /\ failedBus = FALSE
      /\ cleaners = <<>> /\ frames = <<>> /\ early = FALSE /\ hooked = {} /\ lost = {}
      /\ calls = [c \in Cleaners |-> 0]
  BY DEF LifeInit, Cleaners
<1>2. LifeTypeOK
  BY <1>1, EmptySeq DEF LifeTypeOK, BeforeBus
<1>3. ~HasBus /\ ~HasPublisher /\ calls["bus"] = 0 /\ calls["publisher"] = 0
  BY <1>1, Lists DEF HasBus, HasPublisher, Cleaners
<1>4. Len(frames) = 0
  BY <1>1, EmptySeq
<1> QED
  BY <1>1, <1>2, <1>3, <1>4
  DEF LifeInv, RegisteredInv, BusInv, PublisherInv, OnTopOfBus, EndsEmpty, BusIsClosing, InFrame,
      BeforeBus, AfterHook

\* What becomes of the frames when the topmost one changes, a new one comes, or all
\* from the k-th up are replaced by an idle one.
LEMMA FrameChanges ==
  ASSUME NEW from \in FrameKinds, NEW to \in FrameKinds, Frame(from, to), LifeTypeOK
  PROVE  LET n == Len(frames)
         IN /\ frames' \in Seq(FrameKinds) /\ frames' # <<>> /\ frames # <<>>
            /\ n \in Nat \ {0} /\ Len(frames') = n
            /\ frames[n] = from /\ frames'[n] = to /\ \A i \in 1..n : i # n => frames'[i] = frames[i]
<1>1. /\ frames \in Seq(FrameKinds) /\ frames # <<>> /\ frames[Len(frames)] = from
      /\ frames' = [frames EXCEPT ![Len(frames)] = to]
  BY DEF Frame, Top, LifeTypeOK
<1>2. /\ frames' \in Seq(FrameKinds) /\ Len(frames') = Len(frames) /\ Len(frames) \in Nat \ {0}
  BY <1>1, ExceptSeq, EmptySeq, LenProperties
<1>3. \A i \in 1..Len(frames) : frames'[i] = IF i = Len(frames) THEN to ELSE frames[i]
  BY <1>1, <1>2, ExceptSeq
<1>4. frames' # <<>>
  BY <1>2, EmptySeq
<1>5. Len(frames) \in 1..Len(frames)
  BY <1>2
<1>6. frames'[Len(frames)] = to
  BY <1>3, <1>5
<1>7. \A i \in 1..Len(frames) : i # Len(frames) => frames'[i] = frames[i]
  BY <1>3
<1> QED BY <1>1, <1>2, <1>4, <1>6, <1>7

LEMMA FramePush ==
  ASSUME LifeTypeOK, frames' = Append(frames, "loop")
  PROVE  LET n == Len(frames)
         IN /\ frames' \in Seq(FrameKinds) /\ frames' # <<>> /\ n \in Nat /\ Len(frames') = n + 1
            /\ frames'[n + 1] = "loop" /\ \A i \in 1..n : frames'[i] = frames[i]
<1>1. frames \in Seq(FrameKinds) /\ "loop" \in FrameKinds
  BY DEF LifeTypeOK, FrameKinds
<1>2. /\ frames' \in Seq(FrameKinds) /\ frames' # <<>> /\ Len(frames') = Len(frames) + 1
      /\ \A i \in 1..Len(frames) : frames'[i] = frames[i]
      /\ frames'[Len(frames) + 1] = "loop"
  BY <1>1, AppendProperties
<1> QED BY <1>1, <1>2, LenProperties

LEMMA FrameFront ==
  ASSUME LifeTypeOK, frames # <<>>, NEW m, m + 1 \in 1..Len(frames), m \in Nat
  PROVE  LET front == SubSeq(frames, 1, m)
         IN front \in Seq(FrameKinds) /\ Len(front) = m /\ \A i \in 1..m : front[i] = frames[i]
<1> DEFINE n == Len(frames)
           front == SubSeq(frames, 1, m)
<1>1. frames \in Seq(FrameKinds) /\ n \in Nat \ {0} /\ \A i \in 1..n : frames[i] \in FrameKinds
  BY EmptySeq, ElementOfSeq DEF LifeTypeOK
<1>2. \A i \in 1..m : frames[i] \in FrameKinds
  BY <1>1
<1>3. 1 \in Int /\ m \in Int
  OBVIOUS
<1>4. /\ front \in Seq(FrameKinds) /\ Len(front) = IF 1 <= m THEN m - 1 + 1 ELSE 0
      /\ \A i \in 1..(m - 1 + 1) : front[i] = frames[1 + i - 1]
  BY <1>2, <1>3, SubSeqProperties
<1> HIDE DEF front, n
<1>5. Len(front) = m /\ \A i \in 1..m : front[i] = frames[i]
  BY <1>4
<1> QED BY <1>4, <1>5 DEF front

LEMMA FrameCut ==
  ASSUME LifeTypeOK, frames # <<>>, NEW k \in 1..Len(frames),
         frames' = Append(SubSeq(frames, 1, k - 1), "loop")
  PROVE  /\ frames' \in Seq(FrameKinds) /\ frames' # <<>> /\ Len(frames') = k
         /\ frames'[k] = "loop" /\ \A i \in 1..k : i # k => frames'[i] = frames[i]
<1> DEFINE front == SubSeq(frames, 1, k - 1)
<1>1. front \in Seq(FrameKinds) /\ Len(front) = k - 1 /\ \A i \in 1..(k - 1) : front[i] = frames[i]
  <2>1. k - 1 \in Nat /\ (k - 1) + 1 \in 1..Len(frames)
    OBVIOUS
  <2> QED BY <2>1, FrameFront
<1>2. frames' = Append(front, "loop") /\ "loop" \in FrameKinds
  BY DEF FrameKinds
<1> HIDE DEF front
<1>4. front \in Seq(FrameKinds) /\ frames' = Append(front, "loop") /\ "loop" \in FrameKinds
  BY <1>1, <1>2
<1>3. /\ frames' \in Seq(FrameKinds) /\ frames' # <<>> /\ Len(frames') = Len(front) + 1
      /\ \A i \in 1..Len(front) : frames'[i] = front[i]
      /\ frames'[Len(front) + 1] = "loop"
  <2>1. /\ Append(front, "loop") \in Seq(FrameKinds) /\ Append(front, "loop") # <<>>
        /\ Len(Append(front, "loop")) = Len(front) + 1
        /\ Append(front, "loop")[Len(front) + 1] = "loop"
    BY <1>4, AppendProperties
  <2>2. \A i \in 1..Len(front) : Append(front, "loop")[i] = front[i]
    <3>1. \A S : \A q \in Seq(S) : \A e \in S : \A j \in 1..Len(q) : Append(q, e)[j] = q[j]
      BY AppendProperties
    <3> QED BY <1>4, <3>1
  <2> QED BY <1>4, <2>1, <2>2
<1> QED BY <1>1, <1>3

\* A step that leaves the list and the cleaners alone, while no frame of interest
\* comes or goes.
LEMMA FramesAlone ==
  ASSUME LifeInv, LifeTypeOK', RegisteredInv', EndsEmpty', UNCHANGED <<cleaners, hooked, calls>>,
         lost \subseteq lost',
         frames' = frames \/ frames' = Append(frames, "loop") \/ (frames = <<>> /\ frames' = <<"loop">>)
  PROVE  BusInv' /\ PublisherInv' /\ OnTopOfBus' /\ \A kinds : InFrame(kinds) => InFrame(kinds)'
<1>1. HasBus' = HasBus /\ HasPublisher' = HasPublisher
  BY DEF HasBus, HasPublisher
<1>2. CASE frames' = frames
  <2>1. \A kinds : InFrame(kinds)' = InFrame(kinds)
    BY <1>2 DEF InFrame
  <2>2. BusInv'
    BY <1>1, <2>1 DEF LifeInv, BusInv
  <2>3. PublisherInv'
    BY <1>1, <1>2, <2>1 DEF LifeInv, PublisherInv
  <2>4. OnTopOfBus'
    BY <1>2, <2>1 DEF LifeInv, OnTopOfBus
  <2> QED BY <2>1, <2>2, <2>3, <2>4
<1>3. CASE frames' # frames
  <2> DEFINE n == Len(frames)
  <2>1. /\ n \in Nat /\ Len(frames') = n + 1
        /\ frames'[n + 1] = "loop" /\ \A i \in 1..n : frames'[i] = frames[i]
    <3>1. CASE frames' = Append(frames, "loop")
      BY <3>1, FramePush DEF LifeInv
    <3>2. CASE frames = <<>> /\ frames' = <<"loop">>
      BY <3>2, EmptySeq
    <3> QED BY <1>3, <3>1, <3>2
  <2> HIDE DEF n
  <2>2. \A i \in 1..Len(frames') : frames'[i] # "loop" => i \in 1..n /\ frames[i] = frames'[i]
    BY <2>1
  <2>3. \A kinds : InFrame(kinds) => InFrame(kinds)'
    BY <2>1 DEF InFrame, n
  <2>4. \A kinds : "loop" \notin kinds => InFrame(kinds)' = InFrame(kinds)
    BY <2>2, <2>3 DEF InFrame, n
  <2>5. BusInv'
    BY <1>1, <2>4 DEF LifeInv, BusInv
  <2>6. PublisherInv'
    BY <1>1, <2>2, <2>4 DEF LifeInv, PublisherInv, n
  <2>7. OnTopOfBus'
    BY <2>1, <2>2, <2>4 DEF LifeInv, OnTopOfBus, BusFrames, n
  <2> QED BY <2>3, <2>5, <2>6, <2>7
<1> QED BY <1>2, <1>3

LEMMA BootKeeps ==
  ASSUME LifeInv, BootStep \/ Finish \/ AtExit \/ Exit \/ SignalMain
  PROVE  LifeInv'
<1> USE DEF BeforeBus, AfterHook
<1>1. LifeTypeOK /\ RegisteredInv /\ BusInv /\ PublisherInv /\ OnTopOfBus /\ EndsEmpty /\ BusIsClosing
  BY DEF LifeInv
<1>2. CASE InitBus \/ Announce \/ \E ok \in BOOLEAN : StartBus(ok)
  <2>1. /\ main \in {"init", "start", "announce"} /\ main' \in {"hook", "start", "announce", "register"}
        /\ failedBus' \in BOOLEAN /\ UNCHANGED <<broker, bus, cleaners, frames, historyVars>>
    BY <1>1, <1>2 DEF InitBus, Announce, StartBus, Main, LifeTypeOK
  <2>2. LifeTypeOK' /\ RegisteredInv' /\ EndsEmpty'
    BY <1>1, <2>1 DEF LifeTypeOK, RegisteredInv, EndsEmpty, HasBus, HasPublisher, historyVars
  <2>3. BusInv' /\ PublisherInv' /\ OnTopOfBus' /\ \A kinds : InFrame(kinds) => InFrame(kinds)'
    BY <2>1, <2>2, FramesAlone DEF historyVars
  <2>4. BusIsClosing'
    BY <1>1, <2>1, <2>3 DEF BusIsClosing, historyVars
  <2> QED BY <2>2, <2>3, <2>4 DEF LifeInv
<1>3. CASE RegisterBus \/ RegisterPublisher
  <2>1. PICK c \in Cleaners :
          /\ cleaners' = Append(cleaners, c) /\ hooked' = hooked \cup {c} /\ frames = <<>>
          /\ UNCHANGED <<broker, bus, failedBus, frames, calls, lost, early>>
          /\ \/ c = "bus" /\ main = "register" /\ main' = "assign"
             \/ c = "publisher" /\ main = "hook" /\ main' = "serve"
    BY <1>3 DEF RegisterBus, RegisterPublisher, OnShutdown, Main, Cleaners
  <2>2. c \notin hooked
    BY <1>1, <2>1 DEF RegisteredInv
  <2>3. /\ c = "bus" => cleaners = <<>> /\ cleaners' = <<"bus">>
        /\ c = "publisher" => \/ cleaners = <<>> /\ cleaners' = <<"publisher">>
                              \/ cleaners = <<"bus">> /\ cleaners' = <<"bus", "publisher">>
    BY <1>1, <2>1, <2>2, Lists DEF RegisteredInv, LifeTypeOK, HasBus, HasPublisher
  <2>4. /\ c = "bus" => HasBus' /\ ~HasPublisher' /\ ~HasPublisher
        /\ c = "publisher" => HasBus' = HasBus /\ HasPublisher'
    BY <2>1, <2>3, Lists DEF HasBus, HasPublisher
  <2>5. LifeTypeOK' /\ RegisteredInv' /\ EndsEmpty'
    BY <1>1, <2>1, <2>3, <2>4 DEF LifeTypeOK, RegisteredInv, EndsEmpty, Cleaners
  <2>6. Len(frames) = 0 /\ frames' = frames
    BY <2>1, EmptySeq
  <2>7. BusInv' /\ PublisherInv' /\ OnTopOfBus' /\ BusIsClosing'
    BY <1>1, <2>1, <2>2, <2>4, <2>6 DEF BusInv, PublisherInv, OnTopOfBus, BusIsClosing, InFrame, Cleaners
  <2> QED BY <2>5, <2>7 DEF LifeInv
<1>4. CASE AssignBus
  <2>1. /\ main = "assign" /\ main' = "hook" /\ bus = "none" /\ bus' = "up" /\ frames = <<>>
        /\ UNCHANGED <<failedBus, cleaners, frames, broker, historyVars>>
    BY <1>1, <1>4 DEF AssignBus, Main, RegisteredInv
  <2>2. LifeTypeOK' /\ RegisteredInv' /\ EndsEmpty'
    BY <1>1, <2>1 DEF LifeTypeOK, RegisteredInv, EndsEmpty, HasBus, HasPublisher, historyVars
  <2>3. BusInv' /\ PublisherInv' /\ OnTopOfBus'
    BY <1>1, <2>1 DEF BusInv, PublisherInv, OnTopOfBus, InFrame, HasBus, HasPublisher, historyVars
  <2>4. BusIsClosing'
    <3>1. ~InFrame({"bus"})
      BY <2>1, EmptySeq DEF InFrame
    <3> QED BY <1>1, <2>1, <3>1 DEF BusIsClosing, historyVars
  <2> QED BY <2>2, <2>3, <2>4 DEF LifeInv
<1>5. CASE Finish \/ AtExit \/ Exit \/ SignalMain
  <2>1. UNCHANGED <<broker, bus, failedBus, cleaners, historyVars>>
    BY <1>5 DEF Finish, AtExit, Exit, SignalMain
  <2>2. /\ frames' = frames \/ frames' = Append(frames, "loop") \/ (frames = <<>> /\ frames' = <<"loop">>)
        /\ \/ main' = main /\ main # "dead" /\ frames' = Append(frames, "loop")
           \/ main = "serve" /\ main' = "exit"
           \/ main = "exit" /\ main' = "atexit" /\ frames' = <<"loop">>
           \/ main = "atexit" /\ main' = "dead" /\ frames = <<>> /\ frames' = <<>>
    BY <1>5 DEF Finish, AtExit, Exit, SignalMain, Main
  <2>3. frames' = Append(frames, "loop") => frames' \in Seq(FrameKinds) /\ frames' # <<>>
    BY <1>1, FramePush
  <2>4. <<"loop">> # <<>> /\ <<"loop">> \in Seq(FrameKinds)
    BY DEF FrameKinds
  <2>5. LifeTypeOK' /\ RegisteredInv' /\ EndsEmpty'
    BY <1>1, <2>1, <2>2, <2>3, <2>4
    DEF LifeTypeOK, RegisteredInv, EndsEmpty, HasBus, HasPublisher, historyVars
  <2>6. BusInv' /\ PublisherInv' /\ OnTopOfBus' /\ \A kinds : InFrame(kinds) => InFrame(kinds)'
    BY <2>1, <2>2, <2>5, FramesAlone DEF historyVars
  <2>7. BusIsClosing'
    BY <1>1, <2>1, <2>6 DEF BusIsClosing, historyVars
  <2> QED BY <2>5, <2>6, <2>7 DEF LifeInv
<1> QED BY <1>2, <1>3, <1>4, <1>5 DEF BootStep

\* A shutdown that does something has none with the bus under it.
LEMMA NoBusBelow ==
  ASSUME LifeInv, frames # <<>>, frames[Len(frames)] # "loop"
  PROVE  \A i \in 1..Len(frames) : i # Len(frames) => frames[i] \notin BusFrames
<1> SUFFICES ASSUME NEW i \in 1..Len(frames), i # Len(frames), frames[i] \in BusFrames
             PROVE  FALSE
  OBVIOUS
<1>1. Len(frames) \in 1..Len(frames) /\ i < Len(frames)
  BY EmptySeq, LenProperties DEF LifeInv, LifeTypeOK
<1> QED BY <1>1 DEF LifeInv, OnTopOfBus

\* The steps of the shutdown on top: it tests, pops and calls,
LEMMA TakeKeeps ==
  ASSUME LifeInv, Test \/ Pop \/ \E c \in DOMAIN calls : Call(c)
  PROVE  LifeInv'
<1> USE DEF BeforeBus, AfterHook
<1> DEFINE n == Len(frames)
<1>1. LifeTypeOK /\ RegisteredInv /\ BusInv /\ PublisherInv /\ OnTopOfBus /\ EndsEmpty /\ BusIsClosing
  BY DEF LifeInv
<1>2. CASE Test
  <2>1. /\ cleaners # <<>> /\ Frame("loop", "pop")
        /\ UNCHANGED <<main, broker, bus, failedBus, cleaners, historyVars>>
    BY <1>2 DEF Test
  <2>2. /\ frames' \in Seq(FrameKinds) /\ frames' # <<>> /\ frames # <<>> /\ n \in Nat \ {0} /\ Len(frames') = n
        /\ frames[n] = "loop" /\ frames'[n] = "pop" /\ \A i \in 1..n : i # n => frames'[i] = frames[i]
    BY <1>1, <2>1, FrameChanges DEF FrameKinds
  <2>3. \A kinds : "loop" \notin kinds /\ "pop" \notin kinds => InFrame(kinds)' = InFrame(kinds)
    BY <2>2 DEF InFrame
  <2> HIDE DEF n
  <2>4. HasBus' = HasBus /\ HasPublisher' = HasPublisher /\ ~InFrame(BusFrames)
    BY <1>1, <2>1 DEF HasBus, HasPublisher, OnTopOfBus
  <2>5. LifeTypeOK' /\ RegisteredInv' /\ EndsEmpty'
    BY <1>1, <2>1, <2>2, <2>4 DEF LifeTypeOK, RegisteredInv, EndsEmpty, historyVars
  <2>6. BusInv' /\ BusIsClosing'
    BY <1>1, <2>1, <2>3, <2>4 DEF BusInv, BusIsClosing, historyVars
  <2>7. PublisherInv'
    BY <1>1, <2>1, <2>2, <2>3, <2>4 DEF PublisherInv, historyVars, n
  <2>8. OnTopOfBus'
    <3>1. ~InFrame(BusFrames)'
      BY <2>3, <2>4 DEF BusFrames
    <3> QED BY <3>1 DEF OnTopOfBus, InFrame
  <2> QED BY <2>5, <2>6, <2>7, <2>8 DEF LifeInv
<1>3. CASE Pop
  <2>1. PICK c \in Cleaners :
          /\ cleaners # <<>> /\ Frame("pop", Got(c))
          /\ c = cleaners[Len(cleaners)] /\ cleaners' = SubSeq(cleaners, 1, Len(cleaners) - 1)
          /\ UNCHANGED <<main, broker, bus, failedBus, historyVars>>
    <3>1. cleaners[Len(cleaners)] \in Cleaners
      <4>1. CASE cleaners = <<"bus">>
        BY <4>1, Lists DEF Cleaners
      <4>2. CASE cleaners = <<"publisher">>
        BY <4>2, Lists DEF Cleaners
      <4>3. CASE cleaners = <<"bus", "publisher">>
        BY <4>3, Lists DEF Cleaners
      <4> QED BY <1>1, <1>3, <4>1, <4>2, <4>3 DEF Pop, LifeTypeOK
    <3> QED BY <1>3, <3>1 DEF Pop
  <2>0. hooked' = hooked /\ calls' = calls /\ lost' = lost
    BY <2>1 DEF historyVars
  <2>2. \/ cleaners = <<"bus">> /\ cleaners' = <<>> /\ c = "bus"
        \/ cleaners = <<"publisher">> /\ cleaners' = <<>> /\ c = "publisher"
        \/ cleaners = <<"bus", "publisher">> /\ cleaners' = <<"bus">> /\ c = "publisher"
    <3>1. CASE cleaners = <<"bus">>
      BY <2>1, <3>1, Lists
    <3>2. CASE cleaners = <<"publisher">>
      BY <2>1, <3>2, Lists
    <3>3. CASE cleaners = <<"bus", "publisher">>
      BY <2>1, <3>3, Lists
    <3> QED BY <1>1, <2>1, <3>1, <3>2, <3>3 DEF LifeTypeOK
  <2>3. Got(c) \in FrameKinds /\ Got(c) \in {"got bus", "got publisher"} /\ "pop" \in FrameKinds
        /\ (Got(c) = "got bus" <=> c = "bus") /\ (Got(c) = "got publisher" <=> c = "publisher")
    BY <2>1 DEF FrameKinds, Cleaners, Got
  <2>4. /\ frames' \in Seq(FrameKinds) /\ frames' # <<>> /\ frames # <<>> /\ n \in Nat \ {0} /\ Len(frames') = n
        /\ frames[n] = "pop" /\ frames'[n] = Got(c) /\ \A i \in 1..n : i # n => frames'[i] = frames[i]
    BY <1>1, <2>1, <2>3, FrameChanges
  <2>5. \A kinds : "pop" \notin kinds /\ Got(c) \notin kinds => InFrame(kinds)' = InFrame(kinds)
    BY <2>4 DEF InFrame
  <2> HIDE DEF n
  <2>6. /\ c = "bus" => HasBus /\ ~HasBus' /\ HasPublisher' = HasPublisher
        /\ c = "publisher" => HasPublisher /\ ~HasPublisher' /\ HasBus' = HasBus
        /\ cleaners' \in {<<>>, <<"bus">>} /\ (c = "bus" => cleaners' = <<>>)
    BY <2>2, Lists DEF HasBus, HasPublisher
  <2>7. ~InFrame(BusFrames) /\ InFrame({Got(c)})'
    BY <1>1, <2>1, <2>4 DEF OnTopOfBus, InFrame, n
  <2>8. \A i \in 1..n : frames[i] \notin BusFrames
    BY <2>7 DEF InFrame, n
  <2>9. LifeTypeOK' /\ RegisteredInv' /\ EndsEmpty'
    BY <1>1, <2>1, <2>2, <2>4, <2>6 DEF LifeTypeOK, RegisteredInv, EndsEmpty, historyVars, Cleaners
  <2>10. BusIsClosing'
    BY <1>1, <2>1, <2>3, <2>5 DEF BusIsClosing, historyVars
  <2>11. BusInv'
    <3>1. CASE c = "bus"
      <4>1. InFrame({"got bus"})'
        BY <2>3, <2>7, <3>1
      <4> QED BY <1>1, <2>0, <2>6, <3>1, <4>1 DEF BusInv, RegisteredInv
    <3>2. CASE c = "publisher"
      <4>1. InFrame({"got bus"})' = InFrame({"got bus"})
        BY <2>3, <2>5, <3>2
      <4>2. HasBus' = HasBus /\ c # "bus"
        BY <2>6, <3>2
      <4>3. calls' = calls /\ hooked' = hooked
        BY <2>0
      <4> QED BY <1>1, <4>1, <4>2, <4>3 DEF BusInv
    <3> QED BY <2>2, <3>1, <3>2
  <2>12. PublisherInv'
    <3>1. CASE c = "bus"
      <4>1. InFrame({"got publisher"})' = InFrame({"got publisher"})
        BY <2>3, <2>5, <3>1
      <4>2. \A i \in 1..n : frames'[i] = "got publisher" => frames[i] = "got publisher"
        BY <2>3, <2>4, <3>1
      <4>3. HasPublisher' = HasPublisher
        BY <2>6, <3>1
      <4>4. \A i, j \in 1..n : frames'[i] = "got publisher" /\ frames'[j] = "got publisher" => i = j
        BY <1>1, <4>2 DEF PublisherInv, n
      <4>5. Len(frames') = n
        BY <2>4
      <4> QED BY <1>1, <2>0, <4>1, <4>3, <4>4, <4>5 DEF PublisherInv
    <3>2. CASE c = "publisher"
      <4>1. \A i \in 1..n : frames[i] # "got publisher"
        BY <1>1, <2>6, <3>2 DEF PublisherInv, InFrame, n
      <4>2. \A i \in 1..n : frames'[i] = "got publisher" => i = n
        BY <2>4, <4>1
      <4>3. /\ InFrame({"got publisher"})' /\ calls["publisher"] = 0 /\ ~HasPublisher'
            /\ "publisher" \in hooked
        BY <1>1, <2>3, <2>6, <2>7, <3>2 DEF PublisherInv, RegisteredInv
      <4> QED BY <2>0, <2>4, <4>2, <4>3 DEF PublisherInv
    <3> QED BY <2>2, <3>1, <3>2
  <2>13. OnTopOfBus'
    <3>1. \A i \in 1..n : frames'[i] \in BusFrames => i = n /\ c = "bus"
      BY <2>3, <2>4, <2>8 DEF BusFrames
    <3> QED BY <2>4, <2>6, <3>1 DEF OnTopOfBus, InFrame
  <2> QED BY <2>9, <2>10, <2>11, <2>12, <2>13 DEF LifeInv
<1>4. ASSUME NEW c \in DOMAIN calls, Call(c)
      PROVE  LifeInv'
  <2>1. /\ c \in Cleaners /\ Frame(Got(c), c) /\ calls' = [calls EXCEPT ![c] = @ + 1]
        /\ UNCHANGED <<main, broker, bus, failedBus, cleaners, hooked, lost, early>>
    BY <1>1, <1>4 DEF Call, LifeTypeOK
  <2>2. Got(c) \in FrameKinds /\ c \in FrameKinds /\ Got(c) \in {"got bus", "got publisher"}
        /\ (Got(c) = "got bus" <=> c = "bus") /\ (Got(c) = "got publisher" <=> c = "publisher")
        /\ c \in {"bus", "publisher"}
    BY <2>1 DEF FrameKinds, Cleaners, Got
  <2>3. /\ frames' \in Seq(FrameKinds) /\ frames' # <<>> /\ frames # <<>> /\ n \in Nat \ {0} /\ Len(frames') = n
        /\ frames[n] = Got(c) /\ frames'[n] = c /\ \A i \in 1..n : i # n => frames'[i] = frames[i]
    BY <1>1, <2>1, <2>2, FrameChanges
  <2>4. \A kinds : c \notin kinds /\ Got(c) \notin kinds => InFrame(kinds)' = InFrame(kinds)
    BY <2>3 DEF InFrame
  <2>5. InFrame({Got(c)}) /\ InFrame({c})'
    BY <2>3 DEF InFrame
  <2>12. n \in 1..Len(frames)
    BY <2>3
  <2> HIDE DEF n
  <2>6. HasBus' = HasBus /\ HasPublisher' = HasPublisher
    BY <2>1 DEF HasBus, HasPublisher
  <2>7. /\ calls[c] = 0 /\ calls'[c] = 1 /\ calls' \in [Cleaners -> {0, 1}]
        /\ \A d \in Cleaners \ {c} : calls'[d] = calls[d]
    <3>1. calls[c] = 0
      BY <1>1, <2>2, <2>5 DEF BusInv, PublisherInv
    <3> QED BY <1>1, <2>1, <3>1 DEF LifeTypeOK
  <2>8. LifeTypeOK' /\ RegisteredInv' /\ EndsEmpty'
    BY <1>1, <2>1, <2>3, <2>6, <2>7 DEF LifeTypeOK, RegisteredInv, EndsEmpty
  <2>9. c \in hooked
    BY <1>1, <2>2, <2>5 DEF BusInv, PublisherInv
  <2>10. CASE c = "bus"
    <3>1. calls'["publisher"] = calls["publisher"] /\ Got(c) = "got bus"
      BY <2>2, <2>7, <2>10 DEF Cleaners
    <3>2. InFrame({"got publisher"})' = InFrame({"got publisher"})
      BY <2>2, <2>4, <2>10
    <3>3. \A i \in 1..n : i # n => frames[i] \notin BusFrames
      BY <2>3, <3>1, NoBusBelow DEF n
    <3>4. cleaners = <<>> /\ ~HasBus'
      <4>1. InFrame(BusFrames)
        <5>1. frames[n] \in BusFrames
          BY <2>3, <3>1 DEF BusFrames
        <5> QED BY <2>12, <5>1 DEF InFrame
      <4> QED BY <1>1, <2>6, <4>1, Lists DEF OnTopOfBus, HasBus
    <3>5. \A i \in 1..n : frames'[i] \in BusFrames => i = n
      BY <2>3, <3>3
    <3>6. ~InFrame({"got bus"})'
      BY <2>3, <2>10, <3>5 DEF InFrame, BusFrames
    <3>7. BusInv'
      BY <2>1, <2>7, <2>9, <2>10, <3>4, <3>6 DEF BusInv
    <3>8. PublisherInv'
      <4>1. \A i \in 1..n : frames'[i] = "got publisher" => frames[i] = "got publisher"
        BY <2>3, <2>10
      <4> QED BY <1>1, <2>1, <2>3, <2>6, <3>1, <3>2, <4>1 DEF PublisherInv, n
    <3>9. OnTopOfBus'
      BY <2>1, <2>3, <3>4, <3>5 DEF OnTopOfBus, InFrame
    <3>10. BusIsClosing'
      BY <2>5, <2>10 DEF BusIsClosing, InFrame
    <3> QED BY <2>8, <3>7, <3>8, <3>9, <3>10 DEF LifeInv
  <2>11. CASE c = "publisher"
    <3>1. calls'["bus"] = calls["bus"] /\ Got(c) = "got publisher"
      BY <2>2, <2>7, <2>11 DEF Cleaners
    <3>2. \A kinds \in {{"got bus"}, {"bus"}, {"bus", "close"}, BusFrames} : InFrame(kinds)' = InFrame(kinds)
      BY <2>4, <2>11, <3>1 DEF BusFrames
    <3>3. \A i \in 1..n : frames[i] = "got publisher" => i = n
      <4>1. frames[n] = "got publisher"
        BY <2>3, <3>1
      <4> QED BY <1>1, <2>12, <4>1 DEF PublisherInv, n
    <3>4. ~InFrame({"got publisher"})'
      BY <2>3, <2>11, <3>3 DEF InFrame
    <3>5. ~HasPublisher'
      BY <1>1, <2>5, <2>6, <3>1 DEF PublisherInv
    <3>6. BusInv'
      BY <1>1, <2>1, <2>6, <3>1, <3>2 DEF BusInv
    <3>7. PublisherInv'
      BY <2>1, <2>7, <2>9, <2>11, <3>4, <3>5 DEF PublisherInv, InFrame
    <3>8. OnTopOfBus'
      <4>1. \A i \in 1..n : frames'[i] \in BusFrames => frames[i] \in BusFrames /\ i # n
        BY <2>3, <2>11, <3>1 DEF BusFrames
      <4>2. \A i \in 1..n : i # n => frames[i] \notin BusFrames
        BY <2>3, <3>1, NoBusBelow DEF n
      <4>3. ~InFrame(BusFrames)'
        BY <2>3, <4>1, <4>2 DEF InFrame
      <4> QED BY <4>3 DEF OnTopOfBus, InFrame
    <3>9. BusIsClosing'
      BY <1>1, <2>1, <3>1, <3>2 DEF BusIsClosing
    <3> QED BY <2>8, <3>6, <3>7, <3>8, <3>9 DEF LifeInv
  <2> QED BY <2>2, <2>10, <2>11
<1> QED BY <1>2, <1>3, <1>4

\* a cleaner runs, and the shutdown ends as it should,
LEMMA CleanersKeep ==
  ASSUME LifeInv, Publish \/ Shutdown \/ ReturnShutdown \/ \E ok \in BOOLEAN : Close(ok)
  PROVE  LifeInv'
<1> USE DEF BeforeBus, AfterHook
<1> DEFINE n == Len(frames)
<1>1. LifeTypeOK /\ RegisteredInv /\ BusInv /\ PublisherInv /\ OnTopOfBus /\ EndsEmpty /\ BusIsClosing
  BY DEF LifeInv
<1>2. UNCHANGED <<main, broker, failedBus, cleaners, hooked, calls, lost>>
  BY DEF Publish, Shutdown, ReturnShutdown, Close, historyVars
<1>3. HasBus' = HasBus /\ HasPublisher' = HasPublisher
  BY <1>2 DEF HasBus, HasPublisher
<1>4. ASSUME NEW from \in FrameKinds, NEW to \in FrameKinds, Frame(from, to),
             <<from, to>> \in {<<"publisher", "loop">>, <<"bus", "close">>, <<"close", "loop">>}
      PROVE  /\ frames' \in Seq(FrameKinds) /\ frames' # <<>> /\ frames # <<>>
             /\ BusInv' /\ PublisherInv' /\ OnTopOfBus'
             /\ \A kinds : from \notin kinds /\ InFrame(kinds) => InFrame(kinds)'
             /\ InFrame({to})'
  <2>1. /\ frames' \in Seq(FrameKinds) /\ frames' # <<>> /\ frames # <<>> /\ n \in Nat \ {0} /\ Len(frames') = n
        /\ frames[n] = from /\ frames'[n] = to /\ \A i \in 1..n : i # n => frames'[i] = frames[i]
    BY <1>1, <1>4, FrameChanges
  <2>2. from \in {"publisher", "bus", "close"} /\ to \in {"loop", "close"}
        /\ (to \in BusFrames => from \in BusFrames)
    BY <1>4 DEF BusFrames
  <2>3. \A kinds : from \notin kinds /\ to \notin kinds => InFrame(kinds)' = InFrame(kinds)
    BY <2>1 DEF InFrame
  <2>4. InFrame({to})' /\ \A kinds : from \notin kinds /\ InFrame(kinds) => InFrame(kinds)'
    BY <2>1 DEF InFrame
  <2>5. InFrame({"got bus"})' = InFrame({"got bus"}) /\ InFrame({"got publisher"})' = InFrame({"got publisher"})
    BY <2>2, <2>3
  <2> HIDE DEF n
  <2>6. BusInv'
    BY <1>1, <1>2, <1>3, <2>5 DEF BusInv
  <2>7. PublisherInv'
    <3>1. \A i \in 1..n : frames'[i] = "got publisher" => frames[i] = "got publisher"
      BY <2>1, <2>2
    <3> QED BY <1>1, <1>2, <1>3, <2>1, <2>5, <3>1 DEF PublisherInv, n
  <2>8. OnTopOfBus'
    <3>1. \A i \in 1..n : frames'[i] \in BusFrames => frames[i] \in BusFrames
      BY <2>1, <2>2
    <3>2. \A i \in 1..n : i # n /\ frames[i] = "loop" => frames'[i] = "loop"
      BY <2>1
    <3>3. \A i \in 1..n : i # n => frames[i] \notin BusFrames
      BY <2>1, <2>2, NoBusBelow DEF n
    <3>4. InFrame(BusFrames)' => InFrame(BusFrames)
      BY <2>1, <3>1 DEF InFrame, n
    <3>5. \A i, j \in 1..n : frames'[i] \in BusFrames /\ i < j => frames'[j] = "loop"
      BY <2>1, <3>1, <3>3
    <3> QED BY <1>1, <1>2, <2>1, <3>4, <3>5 DEF OnTopOfBus
  <2> QED BY <2>1, <2>4, <2>6, <2>7, <2>8
<1>5. CASE Publish
  <2>1. Frame("publisher", "loop") /\ UNCHANGED <<bus, early>>
    BY <1>5 DEF Publish, historyVars
  <2>2. /\ frames' \in Seq(FrameKinds) /\ frames' # <<>> /\ frames # <<>> /\ BusInv' /\ PublisherInv' /\ OnTopOfBus'
        /\ \A kinds : "publisher" \notin kinds /\ InFrame(kinds) => InFrame(kinds)'
    BY <1>4, <2>1 DEF FrameKinds
  <2>3. LifeTypeOK' /\ RegisteredInv' /\ EndsEmpty'
    BY <1>1, <1>2, <1>3, <2>1, <2>2 DEF LifeTypeOK, RegisteredInv, EndsEmpty
  <2>4. BusIsClosing'
    BY <1>1, <1>2, <2>1, <2>2 DEF BusIsClosing
  <2> QED BY <2>2, <2>3, <2>4 DEF LifeInv
<1>6. CASE Shutdown
  <2>1. Frame("bus", "close") /\ early' = (early \/ bus = "none") /\ bus' = bus
    BY <1>6 DEF Shutdown
  <2>2. /\ frames' \in Seq(FrameKinds) /\ frames' # <<>> /\ frames # <<>> /\ BusInv' /\ PublisherInv' /\ OnTopOfBus'
        /\ InFrame({"close"})'
    BY <1>4, <2>1 DEF FrameKinds
  <2>3. InFrame({"bus", "close"})'
    BY <2>2 DEF InFrame
  <2>4. LifeTypeOK' /\ RegisteredInv' /\ EndsEmpty'
    BY <1>1, <1>2, <1>3, <2>1, <2>2 DEF LifeTypeOK, RegisteredInv, EndsEmpty
  <2>5. BusIsClosing'
    BY <1>1, <1>2, <2>1, <2>3 DEF BusIsClosing
  <2> QED BY <2>2, <2>4, <2>5 DEF LifeInv
<1>7. ASSUME NEW ok \in BOOLEAN, Close(ok)
      PROVE  LifeInv'
  <2>1. /\ Frame("close", "loop") /\ ok \in StartResults /\ early' = early
        /\ bus' = (IF bus = "up" /\ ok THEN "closed" ELSE bus)
    BY <1>7 DEF Close, historyVars
  <2>2. /\ frames' \in Seq(FrameKinds) /\ frames' # <<>> /\ frames # <<>> /\ BusInv' /\ PublisherInv' /\ OnTopOfBus'
        /\ \A kinds : "close" \notin kinds /\ InFrame(kinds) => InFrame(kinds)'
    BY <1>4, <2>1 DEF FrameKinds
  <2>3. broker \/ ok
    BY <2>1 DEF StartResults
  <2>4. LifeTypeOK' /\ RegisteredInv' /\ EndsEmpty'
    BY <1>1, <1>2, <1>3, <2>1, <2>2 DEF LifeTypeOK, RegisteredInv, EndsEmpty
  <2>5. BusIsClosing'
    BY <1>1, <1>2, <2>1, <2>2, <2>3 DEF BusIsClosing
  <2> QED BY <2>2, <2>4, <2>5 DEF LifeInv
<1>8. CASE ReturnShutdown
  <2>1. /\ cleaners = <<>> /\ frames # <<>> /\ frames[n] = "loop"
        /\ frames' = SubSeq(frames, 1, n - 1) /\ UNCHANGED <<bus, early>>
    BY <1>8 DEF ReturnShutdown, Top, historyVars
  <2>2. n \in Nat \ {0} /\ n - 1 \in Nat /\ (n - 1) + 1 \in 1..n
    BY <1>1, <2>1, EmptySeq, LenProperties DEF LifeTypeOK
  <2>3. /\ frames' \in Seq(FrameKinds) /\ Len(frames') = n - 1
        /\ \A i \in 1..(n - 1) : frames'[i] = frames[i]
    BY <1>1, <2>1, <2>2, FrameFront
  <2> HIDE DEF n
  <2>4. \A kinds : "loop" \notin kinds => InFrame(kinds)' = InFrame(kinds)
    BY <2>1, <2>2, <2>3 DEF InFrame, n
  <2>5. LifeTypeOK' /\ RegisteredInv' /\ EndsEmpty' /\ BusIsClosing' /\ BusInv'
    BY <1>1, <1>2, <1>3, <2>1, <2>3, <2>4
    DEF LifeTypeOK, RegisteredInv, EndsEmpty, BusIsClosing, BusInv
  <2>6. PublisherInv' /\ OnTopOfBus'
    <3>1. \A i \in 1..(n - 1) : i \in 1..n
      BY <2>2
    <3>2. \A i \in 1..Len(frames') : i \in 1..Len(frames) /\ frames'[i] = frames[i]
      BY <2>3, <3>1 DEF n
    <3>3. PublisherInv'
      BY <1>1, <1>2, <1>3, <2>4, <3>2 DEF PublisherInv
    <3>4. InFrame(BusFrames)' = InFrame(BusFrames)
      BY <2>4 DEF BusFrames
    <3> QED BY <1>1, <1>2, <3>2, <3>3, <3>4 DEF OnTopOfBus
  <2> QED BY <2>5, <2>6 DEF LifeInv
<1> QED BY <1>5, <1>6, <1>7, <1>8

\* or it pops from a list that is empty by then. No shutdown under it has the bus.
LEMMA RaiseKeeps ==
  ASSUME LifeInv, NEW k \in 0..Len(frames), PopRaises(k)
  PROVE  LifeInv'
<1> USE DEF BeforeBus, AfterHook
<1> DEFINE n == Len(frames)
<1>1. LifeTypeOK /\ RegisteredInv /\ BusInv /\ PublisherInv /\ OnTopOfBus /\ EndsEmpty /\ BusIsClosing
  BY DEF LifeInv
<1>2. /\ cleaners = <<>> /\ frames # <<>> /\ frames[n] = "pop"
      /\ lost' = lost \cup {c \in DOMAIN calls : \E i \in k + 1 .. n : frames[i] = Got(c)}
      /\ UNCHANGED <<broker, bus, cleaners, hooked, calls, early>>
  BY DEF PopRaises, Top
<1>3. n \in Nat \ {0} /\ k \in Nat
  BY <1>1, <1>2, EmptySeq, LenProperties DEF LifeTypeOK
<1> HIDE DEF n
<1>4. \A i \in 1..n : frames[i] \notin BusFrames
  <2>1. \A i \in 1..n : i # n => frames[i] \notin BusFrames
    BY <1>2, NoBusBelow DEF n
  <2> QED BY <1>2, <2>1 DEF BusFrames
<1>5. ~InFrame(BusFrames) /\ ~InFrame({"got bus"}) /\ ~InFrame({"bus"}) /\ ~InFrame({"bus", "close"})
  BY <1>4 DEF InFrame, BusFrames, n
<1>6. /\ frames' \in Seq(FrameKinds) /\ Len(frames') \in Nat /\ Len(frames') <= n
      /\ \A i \in 1..Len(frames') : frames'[i] # "loop" => i \in 1..k /\ i # k /\ frames'[i] = frames[i]
      /\ \A i \in 1..k : i # k => i \in 1..Len(frames') /\ frames'[i] = frames[i]
  <2>1. CASE k = 0
    <3>1. frames' = <<>>
      BY <2>1 DEF PopRaises
    <3> QED BY <1>3, <2>1, <3>1, EmptySeq
  <2>2. CASE k # 0
    <3>1. frames' = Append(SubSeq(frames, 1, k - 1), "loop") /\ k \in 1..Len(frames)
      BY <1>3, <2>2 DEF PopRaises
    <3>2. /\ frames' \in Seq(FrameKinds) /\ Len(frames') = k
          /\ frames'[k] = "loop" /\ \A i \in 1..k : i # k => frames'[i] = frames[i]
      BY <1>1, <1>2, <3>1, FrameCut
    <3> QED BY <1>3, <3>1, <3>2 DEF n
  <2> QED BY <2>1, <2>2
<1>7. \A i \in 1..Len(frames') : frames'[i] # "loop" => i \in 1..n /\ frames'[i] = frames[i]
  BY <1>3, <1>6 DEF n
<1>8. lost' \subseteq {"publisher"} /\ lost \subseteq lost'
  <2>1. \A i \in k + 1 .. n : frames[i] # "got bus"
    <3>1. \A i \in k + 1 .. n : i \in 1..n
      BY <1>3
    <3> QED BY <1>4, <3>1 DEF BusFrames
  <2>2. DOMAIN calls = {"bus", "publisher"} /\ lost \subseteq {"publisher"}
    BY <1>1 DEF LifeTypeOK, Cleaners
  <2>3. Got("bus") = "got bus"
    BY DEF Got
  <2> QED BY <1>2, <2>1, <2>2, <2>3
<1>9. HasBus' = HasBus /\ HasPublisher' = HasPublisher /\ ~HasBus /\ ~HasPublisher
  BY <1>2, Lists DEF HasBus, HasPublisher
<1>10. /\ ~InFrame({"got bus"})' /\ ~InFrame(BusFrames)'
       /\ \A i \in 1..Len(frames') : frames'[i] \notin BusFrames
  <2>1. \A i \in 1..Len(frames') : frames'[i] \notin BusFrames
    BY <1>4, <1>7 DEF BusFrames
  <2> QED BY <2>1 DEF InFrame, BusFrames
<1>11. BusInv' /\ OnTopOfBus' /\ BusIsClosing'
  BY <1>1, <1>2, <1>5, <1>9, <1>10 DEF BusInv, OnTopOfBus, BusIsClosing
<1>12. PublisherInv'
  <2>1. InFrame({"got publisher"})' => InFrame({"got publisher"})
    BY <1>7 DEF InFrame, n
  <2>2. InFrame({"got publisher"}) => InFrame({"got publisher"})' \/ "publisher" \in lost'
    <3>1. ASSUME NEW i \in 1..n, frames[i] = "got publisher"
          PROVE  InFrame({"got publisher"})' \/ "publisher" \in lost'
      <4>1. CASE i \in 1..k /\ i # k
        BY <1>6, <3>1, <4>1 DEF InFrame
      <4>2. CASE i \in k + 1 .. n
        <5>1. "publisher" \in DOMAIN calls /\ Got("publisher") = "got publisher"
          BY <1>1 DEF LifeTypeOK, Cleaners, Got
        <5> QED BY <1>2, <3>1, <4>2, <5>1
      <4>3. CASE i = k
        <5>1. k # 0 /\ frames[k] \in Catching
          <6>2. i \in 1..n
            BY <3>1
          <6>3. i # 0
            BY <1>3, <6>2
          <6>1. k # 0
            BY <4>3, <6>3
          <6> QED BY <6>1 DEF PopRaises
        <5> QED BY <3>1, <4>3, <5>1 DEF Catching
      <4>4. i \in 1..k \/ i \in k + 1 .. n
        BY <1>3
      <4> QED BY <4>1, <4>2, <4>3, <4>4
    <3> QED BY <3>1 DEF InFrame, n
  <2>3. \A i, j \in 1..Len(frames') :
          frames'[i] = "got publisher" /\ frames'[j] = "got publisher" => i = j
    BY <1>1, <1>7 DEF PublisherInv, n
  <2> QED BY <1>1, <1>2, <1>8, <1>9, <2>1, <2>2, <2>3 DEF PublisherInv
<1>13. /\ failedBus' \in BOOLEAN
       /\ \/ main' = main
          \/ main = "assign" /\ main' = "hook"
          \/ main \in {"hook", "serve"} /\ main' = "exit"
       /\ main = "dead" => FALSE
  <2>1. main # "dead"
    BY <1>1, <1>2 DEF EndsEmpty
  <2>2. CASE k # 0
    BY <1>1, <2>1, <2>2 DEF PopRaises, LifeTypeOK
  <2>3. CASE k = 0
    <3>1. MainRaises
      BY <2>3 DEF PopRaises
    <3>2. failedBus' \in BOOLEAN
      BY <1>1, <3>1 DEF MainRaises, LifeTypeOK
    <3>3. main' \in CASE main = "assign" -> {"hook"}
                     [] main \in {"hook", "serve"} -> {main, "exit"}
                     [] OTHER -> {main}
      BY <3>1 DEF MainRaises
    <3>4. CASE main = "assign"
      BY <2>1, <3>2, <3>3, <3>4
    <3>5. CASE main \in {"hook", "serve"}
      BY <2>1, <3>2, <3>3, <3>5
    <3>6. CASE main # "assign" /\ main \notin {"hook", "serve"}
      BY <2>1, <3>2, <3>3, <3>6
    <3> QED BY <3>4, <3>5, <3>6
  <2> QED BY <2>2, <2>3
<1>14. LifeTypeOK' /\ RegisteredInv' /\ EndsEmpty'
  BY <1>1, <1>2, <1>6, <1>8, <1>9, <1>13 DEF LifeTypeOK, RegisteredInv, EndsEmpty
<1> QED BY <1>11, <1>12, <1>14 DEF LifeInv

LEMMA LifeNextInv == LifeInv /\ [LifeNext]_lifeVars => LifeInv'
<1> SUFFICES ASSUME LifeInv, [LifeNext]_lifeVars
             PROVE  LifeInv'
  OBVIOUS
<1>1. CASE UNCHANGED lifeVars
  <2>1. /\ UNCHANGED <<main, broker, bus, failedBus, cleaners, frames, hooked, calls, lost, early>>
    BY <1>1 DEF lifeVars, historyVars
  <2>2. LifeTypeOK' /\ RegisteredInv' /\ EndsEmpty'
    BY <2>1 DEF LifeInv, LifeTypeOK, RegisteredInv, EndsEmpty, HasBus, HasPublisher
  <2>3. BusInv' /\ PublisherInv' /\ OnTopOfBus' /\ \A kinds : InFrame(kinds) => InFrame(kinds)'
    BY <2>1, <2>2, FramesAlone
  <2>4. BusIsClosing'
    BY <2>1, <2>3 DEF LifeInv, BusIsClosing
  <2> QED BY <2>2, <2>3, <2>4 DEF LifeInv
<1>2. CASE BootStep \/ Finish \/ AtExit \/ Exit \/ SignalMain
  BY <1>2, BootKeeps
<1>3. CASE FrameStep
  BY <1>3, TakeKeeps, CleanersKeep, RaiseKeeps DEF FrameStep
<1> QED BY <1>1, <1>2, <1>3 DEF LifeNext

\* No cleaner is called twice and a process that has exited has called each one that
\* was registered, but for a _publish_shutdown that an IndexError has lost, however
\* many signals come, also in the middle of a shutdown (lifecycle.py, bootstrap.py).
THEOREM CleanersAreCalledOnce == LifeInit /\ [][LifeNext]_lifeVars => []CleanersRunOnce
<1>1. LifeInv => CleanersRunOnce
  <2> SUFFICES ASSUME LifeInv
               PROVE  CleanersRunOnce
    OBVIOUS
  <2>1. calls \in [Cleaners -> {0, 1}] /\ hooked \subseteq Cleaners
    BY DEF LifeInv, LifeTypeOK
  <2>2. ASSUME main = "dead"
        PROVE  ~HasBus /\ ~HasPublisher /\ \A kinds : ~InFrame(kinds)
    BY <2>2, Lists, EmptySeq DEF LifeInv, EndsEmpty, HasBus, HasPublisher, InFrame
  <2>3. ASSUME main = "dead"
        PROVE  \A c \in hooked : calls[c] = 1 \/ (c = "publisher" /\ c \in lost)
    BY <2>1, <2>2, <2>3 DEF LifeInv, BusInv, PublisherInv, Cleaners
  <2>4. ASSUME main = "dead", bus = "up"
        PROVE  broker \/ early
    <3>1. calls["bus"] = 1
      BY <2>3, <2>4 DEF LifeInv, RegisteredInv
    <3> QED BY <2>2, <2>4, <3>1 DEF LifeInv, BusIsClosing
  <2> QED BY <2>1, <2>3, <2>4 DEF CleanersRunOnce, Cleaners
<1> QED BY LifeInitInv, LifeNextInv, <1>1, PTL

-----------------------------------------------------------------------------
(* The age of the device list, for any number of threads, any time to live and  *)
(* any duration of a scan.                                                     *)

Times == Nat \cup {NotYet}
CallPcs == {"idle", "scan", "set", "stamp", "return"}

CacheTypeOK ==
  /\ now \in Nat /\ stamp \in Nat /\ cache \in Times
  /\ call \in [Threads -> [pc : CallPcs, began : Nat, probed : Times]]

\* A call does not last longer than a scan; what a thread has probed it has
\* probed during its call.
CallsAreShort ==
  \A t \in Threads :
    /\ call[t].pc # "idle" => call[t].began <= now /\ now <= call[t].began + ScanTime
    /\ call[t].pc \in {"set", "stamp"} => call[t].probed \in Nat /\ call[t].began <= call[t].probed

\* The time that is kept is no later than the list by more than one scan,
\* whoever set the two; the list is as new as a thread that has set it.
StampFitsList ==
  /\ stamp <= now
  /\ cache # NotYet => stamp <= cache + ScanTime
  /\ \A t \in Threads : call[t].pc = "stamp" => cache # NotYet /\ call[t].began <= cache + ScanTime

CacheInv == CacheTypeOK /\ CallsAreShort /\ StampFitsList /\ AnswersAreRecent

LEMMA CacheNumbers == Ttl \in Nat /\ ScanTime \in Nat /\ MaxTime \in Nat /\ NotYet \notin Nat
BY DeviceCacheAssumption

LEMMA CacheInitInv == CacheInit => CacheInv
BY CacheNumbers DEF CacheInit, Ready, CacheInv, CacheTypeOK, CallsAreShort, StampFitsList,
     AnswersAreRecent, Times, CallPcs

LEMMA CacheNextInv == CacheInv /\ [CacheNext]_cacheVars => CacheInv'
<1> SUFFICES ASSUME CacheInv, [CacheNext]_cacheVars
             PROVE  CacheInv'
  OBVIOUS
<1> USE CacheNumbers
<1> USE DEF CacheInv, CacheTypeOK, CallsAreShort, StampFitsList, AnswersAreRecent, Times, CallPcs
<1>1. CASE UNCHANGED cacheVars
  BY <1>1 DEF cacheVars
<1>2. CASE Tick
  BY <1>2 DEF Tick
<1>3. ASSUME NEW t \in Threads, NEW force \in BOOLEAN, GetDevices(t, force)
      PROVE  CacheInv'
  <2> PICK pc \in {"scan", "return"} :
        /\ pc = "return" => cache # NotYet /\ now <= stamp + Ttl
        /\ call' = [call EXCEPT ![t] = [pc |-> pc, began |-> now, probed |-> NotYet]]
        /\ UNCHANGED <<now, cache, stamp>>
  <3> DEFINE old == force \/ cache = NotYet \/ now > stamp + Ttl
             at == IF old THEN "scan" ELSE "return"
  <3>1. at \in {"scan", "return"} /\ (at = "return" => ~old)
    OBVIOUS
  <3>2. ~old => cache # NotYet /\ now <= stamp + Ttl
    OBVIOUS
  <3>3. /\ call' = [call EXCEPT ![t] = [pc |-> at, began |-> now, probed |-> NotYet]]
        /\ UNCHANGED <<now, cache, stamp>>
    BY <1>3 DEF GetDevices
  <3> QED BY <3>1, <3>2, <3>3
  <2>1. CacheTypeOK'
    OBVIOUS
  <2>2. CallsAreShort' /\ StampFitsList'
    OBVIOUS
  <2>3. AnswersAreRecent'
    OBVIOUS
  <2> QED BY <2>1, <2>2, <2>3
<1>4. ASSUME NEW t \in Threads, ScanDevices(t)
      PROVE  CacheInv'
  BY <1>4 DEF ScanDevices
<1>5. ASSUME NEW t \in Threads, SetCache(t)
      PROVE  CacheInv'
  BY <1>5 DEF SetCache, To
<1>6. ASSUME NEW t \in Threads, SetStamp(t)
      PROVE  CacheInv'
  BY <1>6 DEF SetStamp, To
<1>7. ASSUME NEW t \in Threads, Return(t)
      PROVE  CacheInv'
  BY <1>7 DEF Return, Ready
<1> QED BY <1>1, <1>2, <1>3, <1>4, <1>5, <1>6, <1>7 DEF CacheNext

\* get_devices never returns a list of devices as they were longer ago than the
\* time to live and one scan before the call (DeviceManager.get_devices).
THEOREM DeviceListIsRecent == CacheInit /\ [][CacheNext]_cacheVars => []AnswersAreRecent
<1>1. CacheInv => AnswersAreRecent
  BY DEF CacheInv
<1> QED BY CacheInitInv, CacheNextInv, <1>1, PTL

-----------------------------------------------------------------------------
\* The registration that holds: its credentials are on their way to the file
\* or stored.
Stands == agent \in {"answer", "open", "write"} \/ agentFile = "whole"

AgentInv ==
  /\ registered \in Nat /\ spoilt \in Nat
  /\ registered = IF Stands THEN spoilt + 1 ELSE spoilt
  /\ agentFile = "whole" => agent \in {"camera", "loop", "exit", "load"}
  /\ agentFile = "part" => 0 < spoilt /\ agent \in {"camera", "loop", "exit", "load"}

\* The camera agent registers once, and once more for each time that credentials
\* were lost before they were stored, however often it fails, exits or is killed and
\* started again (camera_agent.py, ensure_config and persist_cfg).
THEOREM AgentRegistersOnce == AgentInit /\ [][AgentNext]_agentVars => []LossesExplainRegistrations
<1>1. AgentInit => AgentInv
  BY DEF AgentInit, AgentInv, Stands
<1>2. AgentInv /\ [AgentNext]_agentVars => AgentInv'
  <2> SUFFICES ASSUME AgentInv, [AgentNext]_agentVars
               PROVE  AgentInv'
    OBVIOUS
  <2>1. CASE LoadCfg \/ Discover \/ RegisterFails \/ Register \/ Credentials
    BY <2>1 DEF AgentInv, Stands, AgentTo, Rest, LoadCfg, Discover, RegisterFails, Register, Credentials
  <2>2. CASE AnswerLost \/ PersistFails
    BY <2>2 DEF AgentInv, Stands, AgentTo, Lose, Spoil, AnswerLost, PersistFails
  <2>3. CASE OpenCfg \/ WriteCfg \/ OpenCamera \/ CamLoop \/ Restart
    BY <2>3 DEF AgentInv, Stands, AgentTo, Rest, OpenCfg, WriteCfg, OpenCamera, CamLoop, Restart
  <2>4. CASE KillAgent
    BY <2>4 DEF AgentInv, Stands, KillAgent, Spoil
  <2>5. CASE UNCHANGED agentVars
    BY <2>5 DEF AgentInv, Stands, agentVars
  <2> QED BY <2>1, <2>2, <2>3, <2>4, <2>5 DEF AgentNext, AgentStep
<1>3. AgentInv => LossesExplainRegistrations
  BY DEF AgentInv, LossesExplainRegistrations
<1> QED BY <1>1, <1>2, <1>3, PTL

-----------------------------------------------------------------------------
(* The network paths. *)

CallPlaces == {"idle", "set", "open", "write", "answer"}

\* A process has no unparsable configuration, and no list is set without one.
NetTypeOK ==
  /\ cfg \in [Processes -> Seq(Shares) \cup {NoSection}]
  /\ cfgFile \in Seq(Shares) \cup {NoSection, Garbled}
  /\ op \in [Callers -> [pc : CallPlaces, path : Shares \cup {NoSection}, list : Seq(Shares)]]
  /\ opened = {t \in Callers : op[t].pc = "write"}
  /\ added \subseteq Processes \X Shares
  /\ \A t \in Callers : /\ op[t].pc \in {"open", "write"} => Mine(t) # NoSection
                        /\ op[t].pc = "idle" => op[t].path = NoSection
                        /\ op[t].pc = "set" /\ op[t].path # NoSection => op[t].path \in ToSet(op[t].list)

\* What threads of process q have put on its list, and what was written for them.
SetBy(q) ==
  {p \in Shares : \/ <<q, p>> \in added
                  \/ \E t \in Callers : /\ ProcessOf[t] = q /\ op[t].path = p
                                        /\ op[t].pc \in {"open", "write", "answer"}}
WrittenBy(q) ==
  {p \in Shares : \/ <<q, p>> \in added
                  \/ \E t \in Callers : ProcessOf[t] = q /\ op[t].path = p /\ op[t].pc = "answer"}

\* A process that has a list keeps what it has set, and a file that can be read has
\* what any of them has written.
NetInv ==
  /\ NetTypeOK
  /\ \A q \in Processes : cfg[q] # NoSection => SetBy(q) \subseteq contested \cup ToSet(List(cfg[q]))
  /\ cfgFile \notin {NoSection, Garbled} =>
       \A q \in Processes : WrittenBy(q) \subseteq contested \cup ToSet(cfgFile)

\* What SequencesExt makes of a list and an item.
LEMMA AppendToSet ==
  ASSUME NEW S, NEW s \in Seq(S), NEW e \in S
  PROVE  Append(s, e) \in Seq(S) /\ ToSet(Append(s, e)) = ToSet(s) \cup {e}
<1> DEFINE a == Append(s, e)
<1>1. /\ a \in Seq(S) /\ Len(a) = Len(s) + 1 /\ a[Len(s) + 1] = e
      /\ \A i \in 1 .. Len(s) : a[i] = s[i]
  BY AppendProperties
<1>2. DOMAIN a = DOMAIN s \cup {Len(s) + 1} /\ DOMAIN s = 1 .. Len(s)
  <2>1. DOMAIN a = 1 .. Len(s) + 1 /\ DOMAIN s = 1 .. Len(s) /\ Len(s) \in Nat
    BY <1>1
  <2>2. \A n \in Nat : 1 .. n + 1 = (1 .. n) \cup {n + 1}
    OBVIOUS
  <2> QED BY <2>1, <2>2
<1> HIDE DEF a
<1>3. ToSet(a) = ToSet(s) \cup {e}
  BY <1>1, <1>2 DEF ToSet
<1> QED BY <1>1, <1>3 DEF a

LEMMA RemoveAtSeq ==
  ASSUME NEW S, NEW s \in Seq(S), NEW i \in 1 .. Len(s)
  PROVE  RemoveAt(s, i) \in Seq(S)
<1>1. SubSeq(s, 1, i - 1) \in Seq(S)
  BY SubSeqProperties, SMT
<1>2. SubSeq(s, i + 1, Len(s)) \in Seq(S)
  BY SubSeqProperties, SMT
<1> QED BY <1>1, <1>2, ConcatProperties DEF RemoveAt

\* List of what is no list.
LEMMA ListOf ==
  /\ NoSection # Garbled /\ NoSection \notin Shares /\ NoSection \notin Seq(Shares) /\ Garbled \notin Seq(Shares)
  /\ \A c \in Seq(Shares) : List(c) = c
  /\ List(NoSection) = << >> /\ List(Garbled) = << >> /\ ToSet(<< >>) = {}
  /\ \A c \in Seq(Shares) \cup {NoSection, Garbled} : List(c) \in Seq(Shares) /\ ToSet(List(c)) \subseteq Shares
<1>1. NoSection # Garbled /\ NoSection \notin Shares /\ NoSection \notin Seq(Shares) /\ Garbled \notin Seq(Shares)
  BY NetPathsAssumption
<1>2. \A c \in Seq(Shares) : List(c) = c
  BY <1>1 DEF List
<1>3. List(NoSection) = << >> /\ List(Garbled) = << >> /\ << >> \in Seq(Shares)
  BY DEF List
<1>4. ToSet(<< >>) = {}
  BY DEF ToSet
<1>5. \A c \in Seq(Shares) : ToSet(c) \subseteq Shares
  BY DEF ToSet
<1> QED BY <1>1, <1>2, <1>3, <1>4, <1>5

LEMMA OpenedCall ==
  ASSUME NEW S, NEW Q, NEW r \in [pc : CallPlaces, path : S, list : Q]
  PROVE  [r EXCEPT !.pc = "open"] \in [pc : CallPlaces, path : S, list : Q]
BY DEF CallPlaces

LEMMA NetInitInv == NetInit => NetInv
<1> SUFFICES ASSUME NetInit PROVE NetInv
  OBVIOUS
<1> USE ListOf DEF NetInit, NoCall, CallPlaces
<1>1. NetTypeOK
  BY DEF NetTypeOK, Mine, Processes
<1>2. \A q \in Processes : SetBy(q) = {} /\ WrittenBy(q) = {}
  BY DEF SetBy, WrittenBy
<1> QED BY <1>1, <1>2 DEF NetInv

LEMMA NetNextInv == NetInv /\ [NetNext]_netVars => NetInv'
<1> SUFFICES ASSUME NetInv, [NetNext]_netVars
             PROVE  NetInv'
  OBVIOUS
<1> USE ListOf DEF CallPlaces
<1>t. NetTypeOK
  BY DEF NetInv
<1>s. \A q \in Processes : cfg[q] # NoSection => SetBy(q) \subseteq contested \cup ToSet(List(cfg[q]))
  BY DEF NetInv
<1>w. cfgFile \notin {NoSection, Garbled} =>
        \A q \in Processes : WrittenBy(q) \subseteq contested \cup ToSet(cfgFile)
  BY DEF NetInv
<1>p. \A t \in Callers : ProcessOf[t] \in Processes
  BY DEF Processes
<1>1. CASE UNCHANGED netVars
  <2>1. NetTypeOK'
    BY <1>1, <1>t DEF NetTypeOK, netVars, Mine
  <2>2. \A q : SetBy(q)' = SetBy(q) /\ WrittenBy(q)' = WrittenBy(q)
    BY <1>1 DEF SetBy, WrittenBy, netVars
  <2> QED BY <1>1, <2>1, <2>2, <1>s, <1>w DEF NetInv, netVars
<1>2. ASSUME NEW t \in Callers, NEW p \in Shares, AddPath(t, p)
      PROVE  NetInv'
  <2>1. NetTypeOK'
    <3>1. /\ List(Mine(t)) \in Seq(Shares) /\ Append(List(Mine(t)), p) \in Seq(Shares)
          /\ p \in ToSet(Append(List(Mine(t)), p))
      BY <1>t, <1>p, AppendToSet DEF NetTypeOK, Mine
    <3>2. CASE op' = op
      BY <3>2, <1>2, <1>t DEF NetTypeOK, AddPath, Mine
    <3>3. CASE op' = [op EXCEPT ![t] = [pc |-> "set", path |-> p, list |-> Append(List(Mine(t)), p)]]
      BY <3>1, <3>3, <1>2, <1>t DEF NetTypeOK, AddPath, Mine
    <3> QED BY <3>2, <3>3, <1>2 DEF AddPath
  <2>2. \A q : SetBy(q)' = SetBy(q) /\ WrittenBy(q)' = WrittenBy(q)
    BY <1>2, <1>t DEF SetBy, WrittenBy, AddPath, NetTypeOK
  <2> QED BY <1>2, <2>1, <2>2, <1>s, <1>w DEF NetInv, AddPath
<1>3. ASSUME NEW t \in Callers, NEW i \in 1 .. MaxCalls, RemovePath(t, i)
      PROVE  NetInv'
  <2>1. NetTypeOK'
    <3>2. CASE op' = op
      BY <3>2, <1>3, <1>t DEF NetTypeOK, RemovePath, Mine
    <3>3. CASE i \in 1 .. Len(List(Mine(t))) /\
               op' = [op EXCEPT ![t] = [pc |-> "set", path |-> NoSection, list |-> RemoveAt(Mine(t), i)]]
      <4>1. Mine(t) \in Seq(Shares) \cup {NoSection}
        BY <1>t, <1>p DEF NetTypeOK, Mine
      <4>2. Mine(t) \in Seq(Shares) /\ List(Mine(t)) = Mine(t)
        BY <4>1, <3>3
      <4>3. RemoveAt(Mine(t), i) \in Seq(Shares)
        BY <4>2, <3>3, RemoveAtSeq
      <4> QED BY <4>3, <3>3, <1>3, <1>t DEF NetTypeOK, RemovePath, Mine
    <3>4. List(Mine(t)) \in Seq(Shares) /\ i \in Nat
      BY <1>t, <1>p, NetPathsAssumption DEF NetTypeOK, Mine
    <3>5. i > Len(List(Mine(t))) \/ i \in 1 .. Len(List(Mine(t)))
      BY <3>4
    <3>6. \/ op' = op
          \/ ~(i > Len(List(Mine(t)))) /\
               op' = [op EXCEPT ![t] = [pc |-> "set", path |-> NoSection, list |-> RemoveAt(Mine(t), i)]]
      BY <1>3 DEF RemovePath
    <3> QED BY <3>2, <3>3, <3>5, <3>6
  <2>2. \A q : SetBy(q)' = SetBy(q) /\ WrittenBy(q)' = WrittenBy(q)
    BY <1>3, <1>t DEF SetBy, WrittenBy, RemovePath, NetTypeOK
  <2>3. contested \subseteq contested'
    BY <1>3 DEF RemovePath
  <2> QED BY <1>3, <2>1, <2>2, <2>3, <1>s, <1>w DEF NetInv, RemovePath
<1>4. ASSUME NEW t \in Callers, Set(t)
      PROVE  NetInv'
  <2>0. /\ op[t].pc = "set" /\ cfgFile' = cfgFile /\ opened' = opened /\ added' = added
        /\ \/ /\ Mine(t) = NoSection /\ cfg' = cfg /\ contested' = contested
              /\ op' = [op EXCEPT ![t] = NoCall]
           \/ /\ Mine(t) # NoSection /\ cfg' = [cfg EXCEPT ![ProcessOf[t]] = op[t].list]
              /\ op' = [op EXCEPT ![t].pc = "open"]
              /\ contested' = contested \cup (ToSet(Mine(t)) \ ToSet(op[t].list))
    BY <1>4 DEF Set
  <2>a. /\ \A u \in Callers \ {t} : op'[u] = op[u]
        /\ op'[t].pc \in {"idle", "open"} /\ op'[t].path \in {NoSection, op[t].path}
    BY <2>0, <1>t DEF NetTypeOK, NoCall
  <2>b. cfg'[ProcessOf[t]] = NoSection => op'[t].pc = "idle" /\ op'[t].path = NoSection
    BY <2>0, <1>t, <1>p DEF NetTypeOK, NoCall, Mine
  <2>1. NetTypeOK'
    <3>1. CASE Mine(t) = NoSection
      <4>1. NoCall \in [pc : CallPlaces, path : Shares \cup {NoSection}, list : Seq(Shares)]
        BY DEF NoCall
      <4>2. op' \in [Callers -> [pc : CallPlaces, path : Shares \cup {NoSection}, list : Seq(Shares)]]
        BY <2>0, <3>1, <4>1, <1>t DEF NetTypeOK
      <4>3. opened' = {u \in Callers : op'[u].pc = "write"}
        BY <2>0, <2>a, <1>t DEF NetTypeOK
      <4>4. op'[t].pc = "idle" /\ op'[t].path = NoSection
        BY <2>0, <3>1, <1>t DEF NetTypeOK, NoCall
      <4>5. \A u \in Callers : Mine(u)' = Mine(u)
        BY <2>0, <2>a, <3>1 DEF Mine
      <4>6. \A u \in Callers : /\ op'[u].pc \in {"open", "write"} => Mine(u)' # NoSection
                               /\ op'[u].pc = "idle" => op'[u].path = NoSection
                               /\ op'[u].pc = "set" /\ op'[u].path # NoSection => op'[u].path \in ToSet(op'[u].list)
        BY <2>a, <4>4, <4>5, <1>t DEF NetTypeOK
      <4>7. cfg' = cfg
        BY <2>0, <3>1
      <4> QED BY <2>0, <4>2, <4>3, <4>6, <4>7, <1>t DEF NetTypeOK
    <3>2. CASE Mine(t) # NoSection
      <4>0. op' = [op EXCEPT ![t].pc = "open"]
        BY <2>0, <3>2
      <4>1. op' \in [Callers -> [pc : CallPlaces, path : Shares \cup {NoSection}, list : Seq(Shares)]]
        <5>1. op \in [Callers -> [pc : CallPlaces, path : Shares \cup {NoSection}, list : Seq(Shares)]]
          BY <1>t DEF NetTypeOK
        <5>2. [op[t] EXCEPT !.pc = "open"] \in [pc : CallPlaces, path : Shares \cup {NoSection}, list : Seq(Shares)]
          BY <5>1, OpenedCall
        <5> QED BY <4>0, <5>1, <5>2
      <4>2. cfg' \in [Processes -> Seq(Shares) \cup {NoSection}]
        BY <2>0, <3>2, <1>t DEF NetTypeOK
      <4>3. opened' = {u \in Callers : op'[u].pc = "write"}
        BY <2>0, <2>a, <1>t DEF NetTypeOK
      <4>4. op'[t].pc = "open" /\ cfg'[ProcessOf[t]] # NoSection
        BY <2>0, <3>2, <1>t, <1>p DEF NetTypeOK
      <4>5. \A u \in Callers : Mine(u) # NoSection => Mine(u)' # NoSection
        BY <2>0, <3>2, <4>4, <1>t, <1>p DEF NetTypeOK, Mine
      <4>6. \A u \in Callers : /\ op'[u].pc \in {"open", "write"} => Mine(u)' # NoSection
                               /\ op'[u].pc = "idle" => op'[u].path = NoSection
                               /\ op'[u].pc = "set" /\ op'[u].path # NoSection => op'[u].path \in ToSet(op'[u].list)
        BY <2>a, <4>4, <4>5, <1>t DEF NetTypeOK, Mine
      <4> QED BY <2>0, <4>1, <4>2, <4>3, <4>6, <1>t DEF NetTypeOK
    <3> QED BY <3>1, <3>2
  <2>2. \A q : WrittenBy(q)' = WrittenBy(q)
    BY <2>0, <2>a DEF WrittenBy
  <2>3. contested \subseteq contested' /\ cfgFile' = cfgFile /\ opened' = opened
    BY <1>4 DEF Set
  <2>4. ASSUME NEW q \in Processes
        PROVE  cfg'[q] # NoSection => SetBy(q)' \subseteq contested' \cup ToSet(List(cfg'[q]))
    <3>1. CASE Mine(t) = NoSection
      <4>1. SetBy(q)' = SetBy(q)
        <5>1. op'[t].pc = "idle"
          BY <3>1, <2>0, <1>t DEF NetTypeOK, NoCall
        <5> QED BY <5>1, <2>0, <2>a DEF SetBy
      <4> QED BY <3>1, <4>1, <1>4, <1>s DEF Set
    <3>2. CASE Mine(t) # NoSection /\ q # ProcessOf[t]
      <4>1. SetBy(q)' = SetBy(q)
        BY <3>2, <1>4, <1>t DEF SetBy, Set, NetTypeOK
      <4>2. cfg'[q] = cfg[q]
        BY <3>2, <1>4, <1>t DEF Set, NetTypeOK
      <4> QED BY <4>1, <4>2, <2>3, <1>s
    <3>3. CASE Mine(t) # NoSection /\ q = ProcessOf[t]
      <4>1. SetBy(q)' \subseteq SetBy(q) \cup ({op[t].path} \cap Shares)
        BY <2>0, <2>a DEF SetBy
      <4>2. cfg'[q] = op[t].list /\ op[t].list \in Seq(Shares)
        BY <3>3, <1>4, <1>t DEF Set, NetTypeOK
      <4>3. {op[t].path} \cap Shares \subseteq ToSet(List(cfg'[q]))
        BY <4>2, <1>4, <1>t DEF Set, NetTypeOK
      <4>4. Mine(t) = cfg[q] /\ List(Mine(t)) = Mine(t)
        BY <3>3, <1>t DEF Mine, NetTypeOK
      <4>5. contested' = contested \cup (ToSet(Mine(t)) \ ToSet(op[t].list))
        BY <3>3, <1>4 DEF Set
      <4> QED BY <4>1, <4>2, <4>3, <4>4, <4>5, <1>s
    <3> QED BY <3>1, <3>2, <3>3
  <2> QED BY <2>1, <2>2, <2>3, <2>4, <1>w DEF NetInv
<1>5. ASSUME NEW t \in Callers, OpenFile(t)
      PROVE  NetInv'
  <2>1. NetTypeOK'
    BY <1>5, <1>t DEF NetTypeOK, OpenFile, Mine
  <2>2. \A q : SetBy(q)' = SetBy(q)
    BY <1>5, <1>t DEF SetBy, OpenFile, NetTypeOK
  <2>3. cfgFile' = NoSection /\ opened' # {} /\ contested' = contested /\ cfg' = cfg
    BY <1>5 DEF OpenFile
  <2> QED BY <2>1, <2>2, <2>3, <1>s DEF NetInv
<1>6. ASSUME NEW t \in Callers, WriteFile(t)
      PROVE  NetInv'
  <2>1. Mine(t) \in Seq(Shares) /\ List(Mine(t)) = Mine(t) /\ Mine(t) = cfg[ProcessOf[t]] /\ op[t].pc = "write"
    BY <1>6, <1>t, <1>p DEF NetTypeOK, Mine, WriteFile
  <2>2. NetTypeOK'
    BY <1>6, <1>t, <2>1 DEF NetTypeOK, WriteFile, Mine
  <2>3. \A q : SetBy(q)' = SetBy(q) /\ WrittenBy(q)' \subseteq SetBy(q)'
    BY <1>6, <1>t DEF SetBy, WrittenBy, WriteFile, NetTypeOK
  <2>4. contested \subseteq contested' /\ cfg' = cfg /\ cfgFile' \in {Garbled, Mine(t)}
    BY <1>6 DEF WriteFile
  <2>6. ASSUME NEW q \in Processes
        PROVE  WrittenBy(q)' \subseteq contested' \cup ToSet(Mine(t))
    <3>1. CASE q = ProcessOf[t]
      BY <3>1, <2>1, <2>3, <2>4, <1>s
    <3>2. CASE q # ProcessOf[t]
      <4>1. WrittenBy(q)' \subseteq Foreign(t)
        BY <3>2, <1>6, <1>t DEF WrittenBy, Foreign, WriteFile, NetTypeOK, Processes
      <4>2. Foreign(t) \ ToSet(Mine(t)) \subseteq contested'
        BY <1>6 DEF WriteFile
      <4> QED BY <4>1, <4>2
    <3> QED BY <3>1, <3>2
  <2> QED BY <2>1, <2>2, <2>3, <2>4, <2>6, <1>s DEF NetInv
<1>7. ASSUME NEW t \in Callers, Answer(t)
      PROVE  NetInv'
  <2>1. NetTypeOK'
    BY <1>7, <1>t, <1>p DEF NetTypeOK, Answer, Mine, NoCall
  <2>2. \A q : SetBy(q)' = SetBy(q) /\ WrittenBy(q)' = WrittenBy(q)
    <3>1. /\ \A u \in Callers \ {t} : op'[u] = op[u]
          /\ op[t].pc = "answer" /\ op'[t].pc = "idle" /\ op'[t].path = NoSection
      BY <1>7, <1>t DEF Answer, NetTypeOK, NoCall
    <3>2. added' = added \cup {<<ProcessOf[t], p>> : p \in {op[t].path} \cap Shares}
      BY <1>7 DEF Answer
    <3>3. \A q, p : <<q, p>> \in added' <=>
            <<q, p>> \in added \/ (q = ProcessOf[t] /\ p = op[t].path /\ p \in Shares)
      BY <3>2
    <3> QED BY <3>1, <3>3 DEF SetBy, WrittenBy
  <2> QED BY <1>7, <2>1, <2>2, <1>s, <1>w DEF NetInv, Answer
<1>8. ASSUME NEW p \in Processes, Renew(p)
      PROVE  NetInv'
  <2>1. NetTypeOK'
    BY <1>8, <1>t DEF NetTypeOK, Renew, Mine, NoCall
  <2>2. \A q : SetBy(q)' \subseteq SetBy(q) /\ WrittenBy(q)' \subseteq WrittenBy(q)
    BY <1>8, <1>t DEF SetBy, WrittenBy, Renew, NetTypeOK, NoCall
  <2>3. SetBy(p)' \subseteq WrittenBy(p)
    BY <1>8, <1>t DEF SetBy, WrittenBy, Renew, NetTypeOK, NoCall
  <2>4. /\ cfgFile' = cfgFile /\ cfgFile # Garbled /\ cfg'[p] = cfgFile
        /\ \A q \in Processes \ {p} : cfg'[q] = cfg[q]
    BY <1>8, <1>t DEF Renew, NetTypeOK
  <2>5. contested' = contested
    BY <1>8 DEF Renew
  <2>6. cfgFile # NoSection => cfgFile \in Seq(Shares) /\ List(cfgFile) = cfgFile
    BY <2>4, <1>t DEF NetTypeOK
  <2>7. cfgFile # NoSection => SetBy(p)' \subseteq contested \cup ToSet(List(cfg'[p]))
    BY <2>3, <2>4, <2>6, <1>w
  <2>8. \A q \in Processes : cfg'[q] # NoSection => SetBy(q)' \subseteq contested \cup ToSet(List(cfg'[q]))
    BY <2>2, <2>4, <2>7, <1>s
  <2> QED BY <2>1, <2>2, <2>4, <2>5, <2>8, <1>w DEF NetInv
<1> QED BY <1>1, <1>2, <1>3, <1>4, <1>5, <1>6, <1>7, <1>8 DEF NetNext, CallerStep

\* Whatever the threads and processes, a network path whose addition was answered is
\* in video.cfg whenever nobody is writing it and it can be read, unless the path was
\* removed or overtaken by a change from a list that lacked it (add_network_path,
\* _write_cfg).
THEOREM AddedPathsAreKept == NetInit /\ [][NetNext]_netVars => []AddedIsKept
<1>1. NetInv => AddedIsKept
  <2> SUFFICES ASSUME NetInv, cfgFile \notin {NoSection, Garbled}, NEW a \in added
               PROVE  a[2] \in contested \cup ToSet(cfgFile)
    BY DEF AddedIsKept
  <2>1. /\ a[1] \in Processes /\ a[2] \in Shares /\ a = <<a[1], a[2]>>
        /\ cfgFile \in Seq(Shares) \cup {NoSection, Garbled}
    BY DEF NetInv, NetTypeOK
  <2>2. a[2] \in WrittenBy(a[1])
    BY <2>1 DEF WrittenBy
  <2> QED BY <2>1, <2>2, ListOf DEF NetInv
<1> QED BY <1>1, NetInitInv, NetNextInv, PTL


-----------------------------------------------------------------------------
(* The frame buffers of the previews. *)

ViewerPlaces == {"new", "setup", "stuck", "live", "wait", "ended", "gone"}
WithCapture == {"setup", "stuck", "live", "wait", "ended"}

\* Each buffer is in the pool or was lost to a frame of another shape, so that
\* whoever waits finds one or all were lost that way; and a capture is open exactly
\* for the tracks that have begun and whose connection has not ended.
BuffersAccounted ==
  /\ free \in Nat /\ misfits \in Nat /\ free + misfits = PoolSize
  /\ capOpen = {v \in Viewers : viewer[v] \in WithCapture}
PreviewInv == viewer \in [Viewers -> ViewerPlaces] /\ BuffersAccounted

\* No buffer is lost to a failing read, a broken connection or viewers that come
\* and go, which is what WaiterIsServed rests on; and a connection that ends
\* releases its capture (CameraTrack, recv and the pool in ws.py).
THEOREM BuffersAreNotLost ==
  PreviewInit /\ [][PreviewNext]_previewVars => []BuffersAccounted
<1>1. PreviewInit => PreviewInv
  BY PreviewAssumption DEF PreviewInit, PreviewInv, BuffersAccounted, ViewerPlaces, WithCapture
<1>2. PreviewInv /\ [PreviewNext]_previewVars => PreviewInv'
  <2> SUFFICES ASSUME PreviewInv, [PreviewNext]_previewVars
               PROVE  PreviewInv'
    OBVIOUS
  <2> USE PreviewAssumption DEF PreviewInv, BuffersAccounted, ViewerPlaces, WithCapture
  <2>1. CASE UNCHANGED previewVars
    BY <2>1 DEF previewVars
  <2>2. ASSUME NEW v \in Viewers, Offer(v)
        PROVE  PreviewInv'
    BY <2>2 DEF Offer, Becomes
  <2>3. ASSUME NEW v \in Viewers, Negotiated(v) \/ SetupFails(v) \/ AskBuffer(v) \/ Again(v)
        PROVE  PreviewInv'
    BY <2>3 DEF Negotiated, SetupFails, AskBuffer, Again, Becomes
  <2>4. ASSUME NEW v \in Viewers, Recv(v)
        PROVE  PreviewInv'
    BY <2>4 DEF Recv, GotFrame, NoFrame, Misfit, Becomes
  <2>5. ASSUME NEW v \in Viewers, ConnectionEnds(v)
        PROVE  PreviewInv'
    BY <2>5 DEF ConnectionEnds
  <2> QED BY <2>1, <2>2, <2>3, <2>4, <2>5 DEF PreviewNext
<1>3. PreviewInv => BuffersAccounted
  BY DEF PreviewInv
<1> QED BY <1>1, <1>2, <1>3, PTL
=============================================================================
