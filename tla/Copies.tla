-------------------------------- MODULE Copies --------------------------------
(***************************************************************************)
(* The copies table and the two procedures that share it: the photo sync    *)
(* (video/sync.py) and the backup (video/__init__.py). Both ask for each    *)
(* item whether its hash is in the table, write the item to a file, and     *)
(* enter the hash. Neither holds a lock, so runs overlap.                   *)
(*                                                                         *)
(* A sync names its files by the second of the asset's creation and by a    *)
(* count that stays 0: upsert_file lacks a preview_path, raises, and the    *)
(* count is behind it. The name is therefore a function of the item, as it  *)
(* is for the backup. With the temporary database of wal_proxy.py a crash   *)
(* takes the table back to the last flush.                                  *)
(***************************************************************************)
EXTENDS Naturals

CONSTANTS
  Runs,      \* processes that run a sync or a backup
  Assets,    \* photos in the album
  Files,     \* rows of the files table
  Shas,      \* contents, which stand for their hashes
  Paths,     \* destinations
  Target,    \* the destination of each item
  Recorded,  \* what each item contained when it was scanned or taken
  None, Torn,
  MaxCopyFails \* bound: failed writes, crashes, deleted files and edited sources

Items == Assets \cup Files
ASSUME ItemsAssumption == Assets \cap Files = {} /\ MaxCopyFails \in Nat
ASSUME TargetAssumption == Target \in [Items -> Paths] /\ Recorded \in [Items -> Shas]
ASSUME NoneAssumption == {None, Torn} \cap (Shas \cup Paths) = {} /\ None # Torn

VARIABLES
  source,   \* what each item contains now
  copyOf,   \* what each destination contains
  copies,   \* copies: sha1 -> dest
  flushed,  \* copies as of the last flush to the real database
  toCopy,   \* per run: items not looked at yet
  copyJob,  \* per run: the item being copied, its hash and how far it is
  orphans,  \* cleanup_orphaned_copies: rows it has read and not looked at
  copyFails, \* failures so far
  excused   \* history: destinations whose content may differ from their row

copyVars == <<source, copyOf, copies, flushed, toCopy, copyJob, orphans, copyFails, excused>>

NoJob == [pc |-> "idle", item |-> None, sha |-> None]

CopyInit ==
  /\ source = Recorded
  /\ copyOf = [p \in Paths |-> None]
  /\ copies = [s \in Shas |-> None] /\ flushed = copies
  /\ toCopy = [r \in Runs |-> {}] /\ copyJob = [r \in Runs |-> NoJob]
  /\ orphans = {} /\ copyFails = 0 /\ excused = {}

KeyOf(i) == IF i \in Files THEN Recorded[i] ELSE source[i]
Dest(r) == Target[copyJob[r].item]
OneMoreFailure == copyFails < MaxCopyFails /\ copyFails' = copyFails + 1

-----------------------------------------------------------------------------
\* _sync_photos_album takes the album, backup takes the table.
BeginRun(r) ==
  /\ toCopy[r] = {} /\ copyJob[r] = NoJob
  /\ \E batch \in {Assets, Files} : toCopy' = [toCopy EXCEPT ![r] = batch]
  /\ UNCHANGED <<source, copyOf, copies, flushed, copyJob, orphans, copyFails, excused>>

\* already_copied: an asset is hashed, a row has its hash from the last scan.
CheckCopied(r, i) ==
  /\ copyJob[r] = NoJob /\ i \in toCopy[r]
  /\ toCopy' = [toCopy EXCEPT ![r] = @ \ {i}]
  /\ copyJob' = IF copies[KeyOf(i)] # None THEN copyJob
            ELSE [copyJob EXCEPT ![r] = [pc |-> "open", item |-> i, sha |-> KeyOf(i)]]
  /\ UNCHANGED <<source, copyOf, copies, flushed, orphans, copyFails, excused>>

\* Somebody relies on p, is about to, or will after a crash.
InUse(r, p) ==
  \/ \E s \in Shas : p \in {copies[s], flushed[s]}
  \/ \E q \in Runs \ {r} : copyJob[q].pc \in {"write", "remember"} /\ Dest(q) = p

\* Opening the destination empties it.
OpenCopy(r) ==
  /\ copyJob[r].pc = "open"
  /\ copyOf' = [copyOf EXCEPT ![Dest(r)] = Torn]
  /\ copyJob' = [copyJob EXCEPT ![r].pc = "write"]
  /\ excused' = IF InUse(r, Dest(r)) THEN excused \cup {Dest(r)} ELSE excused
  /\ UNCHANGED <<source, copies, flushed, toCopy, orphans, copyFails>>

\* A sync writes the data it has hashed, a backup what the source holds now.
WriteCopy(r) ==
  /\ copyJob[r].pc = "write"
  /\ LET data == IF copyJob[r].item \in Files THEN source[copyJob[r].item] ELSE copyJob[r].sha
     IN /\ copyOf' = [copyOf EXCEPT ![Dest(r)] = data]
        /\ excused' = IF data = copyJob[r].sha THEN excused ELSE excused \cup {Dest(r)}
  /\ copyJob' = [copyJob EXCEPT ![r].pc = "remember"]
  /\ UNCHANGED <<source, copies, flushed, toCopy, orphans, copyFails>>

\* Fault: the hash is entered when the write fails as well.
RememberAlways(r) ==
  /\ copyJob[r].pc \in {"write", "remember"}
  /\ copies' = [copies EXCEPT ![copyJob[r].sha] = Dest(r)]
  /\ copyJob' = [copyJob EXCEPT ![r] = NoJob]
  /\ UNCHANGED <<source, copyOf, flushed, toCopy, orphans, copyFails, excused>>

\* remember_copy: INSERT OR REPLACE.
Remember(r) ==
  /\ copyJob[r].pc = "remember"
  /\ copies' = [copies EXCEPT ![copyJob[r].sha] = Dest(r)]
  /\ copyJob' = [copyJob EXCEPT ![r] = NoJob]
  /\ UNCHANGED <<source, copyOf, flushed, toCopy, orphans, copyFails, excused>>

\* Opening, writing or remembering raises; the run goes on with the next item.
FailCopy(r) ==
  /\ copyJob[r] # NoJob /\ OneMoreFailure
  /\ copyJob' = [copyJob EXCEPT ![r] = NoJob]
  /\ UNCHANGED <<source, copyOf, copies, flushed, toCopy, orphans, excused>>

-----------------------------------------------------------------------------
\* cleanup_orphaned_copies reads the table, then looks at one row after the
\* other and deletes by hash.
BeginCleanup ==
  /\ orphans = {}
  /\ orphans' = {<<s, copies[s]>> : s \in {t \in Shas : copies[t] # None}}
  /\ UNCHANGED <<source, copyOf, copies, flushed, toCopy, copyJob, copyFails, excused>>

CleanUp(s, p) ==
  /\ <<s, p>> \in orphans
  /\ orphans' = orphans \ {<<s, p>>}
  /\ copies' = IF copyOf[p] = None THEN [copies EXCEPT ![s] = None] ELSE copies
  /\ UNCHANGED <<source, copyOf, flushed, toCopy, copyJob, copyFails, excused>>

FlushProxy ==
  /\ flushed' = copies
  /\ UNCHANGED <<source, copyOf, copies, toCopy, copyJob, orphans, copyFails, excused>>

CopyCrash ==
  /\ OneMoreFailure
  /\ copies' = flushed /\ orphans' = {}
  /\ toCopy' = [r \in Runs |-> {}] /\ copyJob' = [r \in Runs |-> NoJob]
  /\ UNCHANGED <<source, copyOf, flushed, excused>>

\* Somebody edits a source or deletes a copy.
EditSource(i, s) ==
  /\ OneMoreFailure /\ source[i] # s
  /\ source' = [source EXCEPT ![i] = s]
  /\ UNCHANGED <<copyOf, copies, flushed, toCopy, copyJob, orphans, excused>>

DeleteCopy(p) ==
  /\ OneMoreFailure /\ copyOf[p] # None
  /\ copyOf' = [copyOf EXCEPT ![p] = None]
  /\ excused' = excused \cup {p}
  /\ UNCHANGED <<source, copies, flushed, toCopy, copyJob, orphans>>

CopyStep(r) == OpenCopy(r) \/ WriteCopy(r) \/ Remember(r) \/ \E i \in Items : CheckCopied(r, i)

CopyNext ==
  \/ \E r \in Runs : BeginRun(r) \/ CopyStep(r) \/ FailCopy(r)
  \/ BeginCleanup \/ \E s \in Shas, p \in Paths : CleanUp(s, p)
  \/ FlushProxy \/ CopyCrash
  \/ \E i \in Items, s \in Shas : EditSource(i, s)
  \/ \E p \in Paths : DeleteCopy(p)

-----------------------------------------------------------------------------
\* A hash in the copies table has its content at its destination, whatever
\* failed, crashed or was rolled back, unless the destination was opened again
\* by a run that had not seen the entry or has another content for the same
\* name, was deleted, or was copied from a source that had changed since its
\* scan: remember_copy comes after the write.
RememberedIsThere ==
  \A s \in Shas :
    copies[s] # None /\ copies[s] \notin excused => copyOf[copies[s]] = s
=============================================================================
