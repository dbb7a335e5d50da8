------------------------------ MODULE Snapshots ------------------------------
(***************************************************************************)
(* The snapshot thread of video/bootstrap.py beside a writer that uses      *)
(* MediaDB.conn: commits go to the write-ahead log, a checkpoint moves the   *)
(* log into the database file page by page, and the thread copies that file  *)
(* page by page to a temporary one which it renames over the snapshot. When  *)
(* neither VIDEO_DB_PATH nor VIDEO_DB_BACKUP is set the snapshot is the       *)
(* database file itself (SamePath): the rename replaces it under the writer,  *)
(* whose connection keeps the old file.                                       *)
(* A page is the set of transactions it shows; every transaction writes every *)
(* page.                                                                      *)
(***************************************************************************)
EXTENDS Naturals

CONSTANTS
  Pages, Txns,
  SamePath,    \* the snapshot is configured to be the database itself
  Absent,
  MaxCrashes   \* bound: deaths of the process

ASSUME SnapAssumption == SamePath \in BOOLEAN /\ MaxCrashes \in Nat
ASSUME AbsentAssumption == Absent \notin [Pages -> SUBSET Txns]

VARIABLES
  db,        \* the database file
  log,       \* what the write-ahead log holds for each page, or Absent
  orphan,    \* the file a replaced database leaves to the writer, or Absent
  committed, \* transactions that were committed
  writer, thread,   \* where the two are, and the pages they have left to move
  tmp, snapshot,    \* the copy being made and the published one
  overlap,   \* history: the file changed while it was being copied
  snapCrashes

snapVars == <<db, log, orphan, committed, writer, thread, tmp, snapshot, overlap, snapCrashes>>

At(pc) == [pc |-> pc, left |-> Pages]
Blank == [p \in Pages |-> {}]

SnapInit ==
  /\ db = Blank /\ log = Absent /\ orphan = Absent /\ committed = {}
  /\ writer = At("idle") /\ thread = At("idle")
  /\ tmp = Absent /\ snapshot = Absent /\ overlap = FALSE /\ snapCrashes = 0

Read(file) == IF log # Absent THEN log ELSE file

\* In the middle of a checkpoint, which no other one and no commit can enter.
Moving(x) == x.pc = "checkpoint" /\ x.left \notin {{}, Pages}

\* MediaDB.conn: the connection opens the file that has the name now.
OpenConn ==
  /\ writer.pc = "idle" /\ writer' = At("open") /\ orphan' = Absent
  /\ UNCHANGED <<db, log, committed, thread, tmp, snapshot, overlap, snapCrashes>>

Commit(t) ==
  /\ writer.pc = "open" /\ t \notin committed /\ ~Moving(thread)
  /\ LET mine == Read(IF orphan = Absent THEN db ELSE orphan)
     IN log' = [p \in Pages |-> mine[p] \cup {t}]
  /\ committed' = committed \cup {t} /\ writer' = At("checkpoint")
  /\ UNCHANGED <<db, orphan, thread, tmp, snapshot, overlap, snapCrashes>>

\* One page of PRAGMA wal_checkpoint(TRUNCATE) by the writer, into the file it
\* has open; the log is emptied with the last. When the other one is at it for too
\* long the pragma gives up, without an error.
WriterMoves(p) ==
  /\ writer.pc = "checkpoint" /\ p \in writer.left /\ log # Absent /\ ~Moving(thread)
  /\ IF orphan = Absent
     THEN /\ db' = [db EXCEPT ![p] = log[p]] /\ orphan' = orphan
          /\ overlap' = (overlap \/ (thread.pc = "copy" /\ db[p] # log[p]))
     ELSE orphan' = [orphan EXCEPT ![p] = log[p]] /\ UNCHANGED <<db, overlap>>
  /\ writer' = [writer EXCEPT !.left = @ \ {p}]
  /\ log' = IF writer.left = {p} THEN Absent ELSE log
  /\ UNCHANGED <<committed, thread, tmp, snapshot, snapCrashes>>

CloseConn ==
  /\ \/ writer.pc = "open"
     \/ writer.pc = "checkpoint" /\ (writer.left = {} \/ log = Absent)
     \/ writer = At("checkpoint") /\ Moving(thread)
  /\ writer' = At("idle")
  /\ UNCHANGED <<db, log, orphan, committed, thread, tmp, snapshot, overlap, snapCrashes>>

\* _loop, every DB_SNAPSHOT_SECS.
Wake ==
  /\ thread.pc = "idle"
  /\ thread' = At("checkpoint")
  /\ UNCHANGED <<db, log, orphan, committed, writer, tmp, snapshot, overlap, snapCrashes>>

ThreadMoves(p) ==
  /\ thread.pc = "checkpoint" /\ p \in thread.left /\ log # Absent /\ ~Moving(writer)
  /\ db' = [db EXCEPT ![p] = log[p]]
  /\ thread' = [thread EXCEPT !.left = @ \ {p}]
  /\ log' = IF thread.left = {p} THEN Absent ELSE log
  /\ UNCHANGED <<orphan, committed, writer, tmp, snapshot, overlap, snapCrashes>>

BeginCopy ==
  /\ thread.pc = "checkpoint"
  /\ log = Absent \/ thread.left = {} \/ (thread.left = Pages /\ Moving(writer))
  /\ thread' = At("copy") /\ tmp' = Blank /\ overlap' = Moving(writer)
  /\ UNCHANGED <<db, log, orphan, committed, writer, snapshot, snapCrashes>>

\* Fault: shutil.copy2 writes to the snapshot itself.
CopyInPlace(p) ==
  /\ thread.pc = "copy" /\ p \in thread.left
  /\ tmp' = [tmp EXCEPT ![p] = db[p]] /\ snapshot' = [pages |-> tmp', torn |-> overlap]
  /\ thread' = [thread EXCEPT !.left = @ \ {p}]
  /\ UNCHANGED <<db, log, orphan, committed, writer, overlap, snapCrashes>>

CopyPage(p) ==
  /\ thread.pc = "copy" /\ p \in thread.left
  /\ tmp' = [tmp EXCEPT ![p] = db[p]]
  /\ thread' = [thread EXCEPT !.left = @ \ {p}]
  /\ UNCHANGED <<db, log, orphan, committed, writer, snapshot, overlap, snapCrashes>>

\* tmp.replace(backup_to)
Replace ==
  /\ thread.pc = "copy" /\ thread.left = {}
  /\ snapshot' = [pages |-> tmp, torn |-> overlap]
  /\ IF SamePath
     THEN db' = tmp /\ orphan' = (IF writer.pc # "idle" /\ orphan = Absent THEN db ELSE orphan)
     ELSE UNCHANGED <<db, orphan>>
  /\ tmp' = Absent /\ thread' = At("idle") /\ overlap' = FALSE
  /\ UNCHANGED <<log, committed, writer, snapCrashes>>

\* A checkpoint or a copy that raises is logged; the thread sleeps and starts over,
\* and what there is of the temporary file stays for the next copy to overwrite.
LoopFails ==
  /\ thread.pc # "idle" /\ thread' = At("idle")
  /\ UNCHANGED <<db, log, orphan, committed, writer, tmp, snapshot, overlap, snapCrashes>>

SnapCrash ==
  /\ snapCrashes < MaxCrashes /\ snapCrashes' = snapCrashes + 1
  /\ writer' = At("idle") /\ thread' = At("idle") /\ orphan' = Absent
  /\ UNCHANGED <<db, log, committed, tmp, snapshot, overlap>>

ThreadStep == Wake \/ BeginCopy \/ Replace \/ LoopFails \/ \E p \in Pages : ThreadMoves(p) \/ CopyPage(p)
WriterStep == CloseConn \/ \E p \in Pages : WriterMoves(p)

SnapNext == OpenConn \/ (\E t \in Txns : Commit(t)) \/ WriterStep \/ ThreadStep \/ SnapCrash

-----------------------------------------------------------------------------
\* A published snapshot is one state of the database, with all of a transaction
\* or nothing of it, also when the process dies or the copy fails in the middle; only
\* a checkpoint by a writer during the copy can tear it.
SnapshotIsWhole ==
  snapshot # Absent => snapshot.torn \/ \A p, q \in Pages : snapshot.pages[p] = snapshot.pages[q]

=============================================================================
