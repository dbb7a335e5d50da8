------------------------------ MODULE MediaIndex ------------------------------
(***************************************************************************)
(* The media index: the files table and its full-text index (video/db.py)  *)
(* and the scanner that fills them (video/scanner.py), while files appear, *)
(* change, move and vanish on disk. Scans overlap: each handler runs its   *)
(* own thread pool.                                                        *)
(*                                                                         *)
(* A content stands for its hash; a stamp for the (mtime, size) pair, which *)
(* every write changes. The full-text index is reduced to one word for each *)
(* path, the one a user types to find it.                                  *)
(***************************************************************************)
EXTENDS Naturals, FiniteSets, FiniteSetsExt

CONSTANTS
  Paths,       \* media files a scan may find
  Contents,    \* hashes of what may be in them
  Barewords,   \* the paths whose word FTS5 takes as it is: no '.', '-', quote, ...
  Workers,     \* threads of the scan pools
  None,        \* no file, row, path or hash
  MaxChanges,  \* bound: changes of the disk
  MaxCleans,   \* bound: calls of clean_all
  MaxFailures  \* bound: analyses that raise

ASSUME NamesDiffer ==
  /\ None \notin Paths \cup Contents
  /\ Paths \cap Contents = {}
ASSUME BarewordsAssumption == Barewords \subseteq Paths
ASSUME BoundsAssumption == {MaxChanges, MaxCleans, MaxFailures} \subseteq Nat

VARIABLES
  disk,     \* per path: the file, or None
  changes,  \* changes of the disk so far; the stamp of the last write
  rows,     \* the files table, by path; None where there is no row
  fts,      \* entries of files_fts: <<rowid, word>>
  stripped, \* history: rows whose entry clean_all has taken, not stored since
  todo,     \* files a running scan has submitted to its pool
  pc,       \* per worker: where process_file is
  job,      \* per worker: the path it processes and what it read so far
  failures, \* analyses that raised so far
  missing,  \* cleanup_missing_files: the path it is about to delete
  cleaning, \* clean_all has emptied files and not yet files_fts
  cleans,   \* calls of clean_all so far
  been,     \* history: per path, where the file there has been before
  returned  \* history: a file was moved back to where it had been

diskVars == <<disk, changes, been, returned>>
tableVars == <<rows, fts, stripped>>
workerVars == <<todo, pc, job, failures>>
cleanVars == <<missing, cleaning, cleans>>
vars == <<diskVars, tableVars, workerVars, cleanVars>>

NoJob == [path |-> None, stamp |-> 0, hash |-> None]

Listed == {p \in Paths : rows[p] # None}
RowIds == {rows[p].rowid : p \in Listed}
OnDisk == {p \in Paths : disk[p] # None}

Init ==
  /\ disk = [p \in Paths |-> None] /\ changes = 0
  /\ rows = [p \in Paths |-> None] /\ fts = {} /\ stripped = {}
  /\ todo = {}
  /\ pc = [w \in Workers |-> "idle"] /\ job = [w \in Workers |-> NoJob]
  /\ failures = 0
  /\ missing = None /\ cleaning = FALSE /\ cleans = 0
  /\ been = [p \in Paths |-> {}] /\ returned = FALSE

-----------------------------------------------------------------------------
(* The disk. *)

Change ==
  /\ changes < MaxChanges
  /\ changes' = changes + 1
  /\ UNCHANGED <<tableVars, workerVars, cleanVars>>

Write(p, c) ==
  /\ Change
  /\ disk' = [disk EXCEPT ![p] = [content |-> c, stamp |-> changes']]
  /\ been' = [been EXCEPT ![p] = {}] /\ UNCHANGED returned

\* A moved file keeps its content and its mtime.
Move(p, q) ==
  /\ Change /\ p # q /\ disk[p] # None
  /\ disk' = [disk EXCEPT ![p] = None, ![q] = disk[p]]
  /\ been' = [been EXCEPT ![p] = {}, ![q] = been[p] \cup {p}]
  /\ returned' = (returned \/ q \in been[p])

Delete(p) ==
  /\ Change /\ disk[p] # None
  /\ disk' = [disk EXCEPT ![p] = None]
  /\ been' = [been EXCEPT ![p] = {}] /\ UNCHANGED returned

-----------------------------------------------------------------------------
(* The tables. *)

NextRowid == IF RowIds = {} THEN 1 ELSE Max(RowIds) + 1

\* Fault: the trigger lets the index number its entries itself.
EntryNumberedByIndex(p, rowid) ==
  <<IF fts = {} THEN 1 ELSE Max({e[1] : e \in fts}) + 1, p>>

\* What the files_ai and files_au triggers enter into the index.
Entry(p, rowid) == <<rowid, p>>

\* upsert_file. A row of that path is updated, its id stays and files_au enters
\* its words again. Otherwise a row is inserted, unless another row has that
\* id: IntegrityError. The version and parent_id columns are left out.
Upsert(p, hash, stamp) ==
  LET old == rows[p]
  IN  \/ /\ old # None
         /\ rows' = [rows EXCEPT ![p].sha = hash, ![p].stamp = stamp]
         /\ fts' = fts \cup {Entry(p, old.rowid)}
         /\ stripped' = stripped \ {p}
      \/ /\ old = None /\ \A q \in Listed : rows[q].id # hash
         /\ rows' = [rows EXCEPT ![p] = [rowid |-> NextRowid, id |-> hash,
                                         sha |-> hash, stamp |-> stamp]]
         /\ fts' = fts \cup {Entry(p, NextRowid)}
         /\ stripped' = stripped \ {p}
      \/ /\ old = None /\ \E q \in Listed : rows[q].id = hash
         /\ UNCHANGED tableVars

\* files_ad asks the external-content index to forget a rowid whose content
\* row is already gone: no word is found for it and every entry stays.
DeleteRow(p) ==
  /\ rows' = [rows EXCEPT ![p] = None]
  /\ UNCHANGED <<fts, stripped>>

\* search_files: the full-text index, which refuses a word that is no bareword,
\* then LIKE if it returned nothing.
Search(word) ==
  LET hits == {p \in Listed : <<rows[p].rowid, word>> \in fts}
  IN  IF word \notin Barewords
      THEN [error |-> TRUE, found |-> {}]
      ELSE [error |-> FALSE,
            found |-> IF hits # {} THEN hits ELSE {p \in Listed : p = word}]

-----------------------------------------------------------------------------
(* The scanner. *)

\* safe_iter_files: media files in folders that can be read, links not followed.
FilesBelow == OnDisk

\* bulk_scan lists the files below its root and submits one job for each; it
\* may start while the threads of an earlier scan are still at their last jobs.
StartScan ==
  /\ todo = {}
  /\ todo' = FilesBelow
  /\ UNCHANGED <<diskVars, tableVars, pc, job, failures, cleanVars>>

\* Fault: a file that has a row is never looked at again.
LookSkipsKnown(w) ==
  /\ pc[w] = "idle"
  /\ \E p \in todo :
       /\ todo' = todo \ {p}
       /\ IF disk[p] = None \/ rows[p] # None
          THEN UNCHANGED <<pc, job>>
          ELSE /\ pc' = [pc EXCEPT ![w] = "stat"]
               /\ job' = [job EXCEPT ![w] = [NoJob EXCEPT !.path = p]]
  /\ UNCHANGED <<diskVars, tableVars, failures, cleanVars>>

\* process_file: nothing to do for a file that is gone, or whose row has its
\* present mtime and size.
Look(w) ==
  /\ pc[w] = "idle"
  /\ \E p \in todo :
       /\ todo' = todo \ {p}
       /\ IF \/ disk[p] = None
             \/ rows[p] # None /\ rows[p].stamp = disk[p].stamp
          THEN UNCHANGED <<pc, job>>
          ELSE /\ pc' = [pc EXCEPT ![w] = "stat"]
               /\ job' = [job EXCEPT ![w] = [NoJob EXCEPT !.path = p]]
  /\ UNCHANGED <<diskVars, tableVars, failures, cleanVars>>

\* analyze_file: first stat, which fails for a file that has vanished.
Stat(w) ==
  /\ pc[w] = "stat"
  /\ LET p == job[w].path
     IN  IF disk[p] = None
         THEN /\ pc' = [pc EXCEPT ![w] = "idle"]
              /\ job' = [job EXCEPT ![w] = NoJob]
         ELSE /\ pc' = [pc EXCEPT ![w] = "hash"]
              /\ job' = [job EXCEPT ![w].stamp = disk[p].stamp]
  /\ UNCHANGED <<diskVars, tableVars, todo, failures, cleanVars>>

\* What quick_hash may return: the hash of the content, or of the path when
\* the file cannot be read.
HashesOf(p) == {p} \cup IF disk[p] = None THEN {} ELSE {disk[p].content}

\* Fault: the stamp stored is taken after the content was read.
StoreWithLateStat(w) ==
  LET p == job[w].path
  IN  /\ pc[w] = "upsert" /\ disk[p] # None
      /\ Upsert(p, job[w].hash, disk[p].stamp)
      /\ pc' = [pc EXCEPT ![w] = "idle"]
      /\ job' = [job EXCEPT ![w] = NoJob]
      /\ UNCHANGED <<diskVars, todo, failures, cleanVars>>

\* Then the content. An exception here, in probing or in making the preview
\* ends the analysis without a result.
Hash(w) ==
  /\ pc[w] = "hash"
  /\ \/ /\ \E h \in HashesOf(job[w].path) : job' = [job EXCEPT ![w].hash = h]
        /\ pc' = [pc EXCEPT ![w] = "upsert"]
        /\ UNCHANGED failures
     \/ /\ failures < MaxFailures
        /\ failures' = failures + 1
        /\ job' = [job EXCEPT ![w] = NoJob]
        /\ pc' = [pc EXCEPT ![w] = "idle"]
  /\ UNCHANGED <<diskVars, tableVars, todo, cleanVars>>

\* Then upsert_file; its IntegrityError is counted and the scan goes on. A
\* change of the table fails the DELETE of a cleanup that read it before.
Store(w) ==
  /\ pc[w] = "upsert"
  /\ Upsert(job[w].path, job[w].hash, job[w].stamp)
  /\ missing' = IF rows' # rows THEN None ELSE missing
  /\ pc' = [pc EXCEPT ![w] = "idle"]
  /\ job' = [job EXCEPT ![w] = NoJob]
  /\ UNCHANGED <<diskVars, todo, failures, cleaning, cleans>>

WorkerStep(w) == Look(w) \/ Stat(w) \/ Hash(w) \/ Store(w)

-----------------------------------------------------------------------------
(* Cleaning up. *)

\* cleanup_missing_files looks at one row's file,
CheckMissing(p) ==
  /\ missing = None
  /\ p \in Listed /\ disk[p] = None
  /\ missing' = p
  /\ UNCHANGED <<diskVars, tableVars, workerVars, cleaning, cleans>>

\* then deletes the row.
DeleteMissing ==
  /\ missing # None
  /\ DeleteRow(missing)
  /\ missing' = None
  /\ UNCHANGED <<diskVars, workerVars, cleaning, cleans>>

\* clean_all: DELETE FROM files,
CleanFiles ==
  /\ ~cleaning /\ cleans < MaxCleans
  /\ rows' = [p \in Paths |-> None]
  /\ cleaning' = TRUE /\ cleans' = cleans + 1
  /\ missing' = None
  /\ UNCHANGED <<diskVars, fts, stripped, workerVars>>

\* then DELETE FROM files_fts: only entries of rows that exist are found, so
\* those of rows a scan has stored meanwhile. The _repair_fts after it compares
\* files with itself and adds nothing.
CleanFts ==
  /\ cleaning
  /\ fts' = {e \in fts : \A p \in Listed : e # <<rows[p].rowid, p>>}
  /\ stripped' = Listed
  /\ cleaning' = FALSE
  /\ UNCHANGED <<diskVars, rows, workerVars, missing, cleans>>

-----------------------------------------------------------------------------
Next ==
  \/ \E p \in Paths : \/ \E c \in Contents : Write(p, c)
                      \/ \E q \in Paths : Move(p, q)
                      \/ Delete(p)
                      \/ CheckMissing(p)
  \/ StartScan
  \/ \E w \in Workers : WorkerStep(w)
  \/ DeleteMissing \/ CleanFiles \/ CleanFts

Spec == Init /\ [][Next]_vars

\* Scans are started again and again, and the pool's threads run.
FairSpec ==
  /\ Spec
  /\ WF_vars(StartScan)
  /\ \A w \in Workers : WF_vars(WorkerStep(w))

-----------------------------------------------------------------------------
(* Properties. *)

Hashes == Contents \cup Paths
Busy == {"stat", "hash", "upsert"}

\* Types; and a thread that is at work has a file.
TypeOK ==
  /\ disk \in [Paths -> [content : Contents, stamp : Nat] \cup {None}]
  /\ been \in [Paths -> SUBSET Paths] /\ returned \in BOOLEAN
  /\ changes \in Nat
  /\ pc \in [Workers -> Busy \cup {"idle"}]
  /\ job \in [Workers -> [path : Paths \cup {None}, stamp : Nat, hash : Hashes \cup {None}]]
  /\ todo \in SUBSET Paths
  /\ \A w \in Workers : pc[w] \in Busy => job[w].path \in Paths
  /\ missing \in Paths \cup {None}

\* No change is missed for good: whenever a row holds the hash of another
\* content than the file's, its stamp is not the file's either, so the next
\* scan reads the file again. It holds against writes, moves and removals between
\* the steps of a scan and against overlapping scans, because the stamp is read
\* first; but a file that is moved back to where it had been brings its old stamp.
StaleIsDetected ==
  ~returned => \A p \in Listed \cap OnDisk :
    rows[p].sha \notin {disk[p].content, p} => rows[p].stamp # disk[p].stamp

\* A search for the word of a listed file returns that file, whatever entries of
\* deleted rows have stayed in the index and whoever has their numbers now. It does
\* not hold of a row that a scan stores between the two DELETEs of clean_all: it
\* loses its entry, and an old one that leads to another row hides it from LIKE.
\* Nor is anything claimed of a word that the query syntax refuses.
SearchFinds ==
  \A p \in Listed \ stripped : LET answer == Search(p)
                               IN  ~answer.error => p \in answer.found

\* Once the disk is quiet, scanning makes every row agree with its file, or
\* leaves it with the fallback hash, and gives every file a row unless one
\* elsewhere already has its hash as id.
ScansConverge ==
  <>[](~returned => \A p \in OnDisk :
         \/ p \in Listed /\ rows[p].sha \in {disk[p].content, p}
         \/ p \notin Listed /\ \E q \in Listed : rows[q].id = disk[p].content)

(* What the comments say and the code does not do. *)

\* "Search by prefix via FTS" and clean_all's "delete all file records and
\* their FTS entries": a search returns files with that name only.
SearchIsSound == \A word \in Paths : Search(word).found \subseteq {word}
=============================================================================
