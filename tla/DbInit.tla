-------------------------------- MODULE DbInit --------------------------------
(***************************************************************************)
(* MediaDB.__init__ (video/db.py): instances that start on one database     *)
(* file, in the workers of a server and in command line calls, take a lock  *)
(* file in turn, create the schema and remove the lock file. The schema is  *)
(* migrated by a script whose statements commit one by one.                 *)
(***************************************************************************)
EXTENDS Naturals, Sequences, SequencesExt

CONSTANTS
  Procs,      \* instances
  Inodes,     \* identities a lock file may have
  Nobody,     \* no instance, and no inode
  MaxCrashes  \* bound: instances killed inside __init__

ASSUME NobodyAssumption == Nobody \notin Procs \cup Inodes
ASSUME MaxCrashesAssumption == MaxCrashes \in Nat

VARIABLES
  pc,          \* per instance: where __init__ is
  fd,          \* per instance: the inode its open lock file has
  file,        \* the inode the lock path names
  holder,      \* per inode: the instance that has it flocked
  schema,      \* what the migration script created so far
  userVersion, \* PRAGMA user_version
  at,          \* per instance: the next statement of the script
  crashes,     \* instances killed so far
  torn,        \* history: an instance was killed inside the script
  overlapped   \* history: two instances were in the locked part at once

lockVars == <<fd, file, holder>>
dbVars == <<schema, userVersion>>
history == <<crashes, torn, overlapped>>
vars == <<pc, at, lockVars, dbVars, history>>

\* The three triggers stand for one statement: only the instance that created
\* the virtual table ever reaches them.
Script == <<"files_fts", "triggers">>
Locked == {"bootstrap", "tables", "script", "unlock", "unlock_failed"}
Starting == Locked \cup {"open", "flock", "unlink", "unlink_failed"}
Pcs == Starting \cup {"idle", "ready", "failed"}

Init ==
  /\ pc = [p \in Procs |-> "idle"]
  /\ fd = [p \in Procs |-> Nobody]
  /\ file = Nobody
  /\ holder = [i \in Inodes |-> Nobody]
  /\ schema = {} /\ userVersion = 0
  /\ at = [p \in Procs |-> 1]
  /\ crashes = 0 /\ torn = FALSE /\ overlapped = FALSE

Goto(p, to) == pc' = [pc EXCEPT ![p] = to]

-----------------------------------------------------------------------------
(* The lock file. *)

\* A lock file that exists when an instance starts is taken for a stale one.
Clean(p) ==
  /\ pc[p] = "idle"
  /\ file' = Nobody
  /\ Goto(p, "open")
  /\ UNCHANGED <<at, fd, holder, dbVars, history>>

\* Which of the unused identities a new file gets makes no difference.
NewInode == CHOOSE i \in Inodes : \A q \in Procs : fd[q] # i

\* open(path, "w"): the file the path names, or a new one.
Open(p) ==
  /\ pc[p] = "open"
  /\ file' = IF file = Nobody THEN NewInode ELSE file
  /\ fd' = [fd EXCEPT ![p] = file']
  /\ Goto(p, "flock")
  /\ UNCHANGED <<at, holder, dbVars, history>>

Flock(p) ==
  /\ pc[p] = "flock"
  /\ holder[fd[p]] = Nobody
  /\ holder' = [holder EXCEPT ![fd[p]] = p]
  /\ Goto(p, "bootstrap")
  /\ overlapped' = (overlapped \/ \E q \in Procs : pc[q] \in Locked)
  /\ UNCHANGED <<at, fd, file, dbVars, crashes, torn>>

\* Fault: no finally, a failing instance keeps the lock.
UnlockUnlessFailed(p) ==
  /\ pc[p] \in {"unlock", "unlock_failed"}
  /\ holder' = [holder EXCEPT ![fd[p]] = IF pc[p] = "unlock" THEN Nobody ELSE @]
  /\ Goto(p, IF pc[p] = "unlock" THEN "unlink" ELSE "unlink_failed")
  /\ UNCHANGED <<at, fd, file, dbVars, history>>

\* finally: release the lock, then remove whatever file is at the path.
Unlock(p) ==
  /\ pc[p] \in {"unlock", "unlock_failed"}
  /\ holder' = [holder EXCEPT ![fd[p]] = Nobody]
  /\ Goto(p, IF pc[p] = "unlock" THEN "unlink" ELSE "unlink_failed")
  /\ UNCHANGED <<at, fd, file, dbVars, history>>

Unlink(p) ==
  /\ pc[p] \in {"unlink", "unlink_failed"}
  /\ file' = Nobody
  /\ fd' = [fd EXCEPT ![p] = Nobody]
  /\ Goto(p, IF pc[p] = "unlink" THEN "ready" ELSE "failed")
  /\ UNCHANGED <<at, holder, dbVars, history>>

-----------------------------------------------------------------------------
(* What is done under the lock. *)

\* _bootstrap_wal: the pragmas succeed, or the database is busy under both
\* journal modes, which another instance at work on it can cause.
Bootstrap(p) ==
  /\ pc[p] = "bootstrap"
  /\ \/ Goto(p, "tables")
     \/ /\ \E q \in Procs \ {p} : pc[q] \in Locked
        /\ Goto(p, "unlock_failed")
  /\ UNCHANGED <<at, lockVars, dbVars, history>>

\* Fault: the script is run whatever the version.
TablesAlways(p) ==
  /\ pc[p] = "tables"
  /\ Goto(p, "script")
  /\ UNCHANGED <<at, lockVars, dbVars, history>>

\* The tables and indexes are created if missing; the script is run on a
\* database whose user_version is still 0. _repair_fts then finds nothing.
Tables(p) ==
  /\ pc[p] = "tables"
  /\ Goto(p, IF userVersion < 1 THEN "script" ELSE "unlock")
  /\ UNCHANGED <<at, lockVars, dbVars, history>>

\* Fault: the version is set before the objects exist.
ScriptVersionFirst(p) ==
  /\ pc[p] = "script"
  /\ userVersion' = 1
  /\ IF at[p] > Len(Script)
     THEN Goto(p, "unlock") /\ UNCHANGED <<schema, at>>
     ELSE /\ Script[at[p]] \notin schema
          /\ schema' = schema \cup {Script[at[p]]}
          /\ at' = [at EXCEPT ![p] = @ + 1]
          /\ UNCHANGED pc
  /\ UNCHANGED <<lockVars, history>>

\* One statement: CREATE without IF NOT EXISTS fails on what is there; the
\* last one sets user_version.
ScriptStatement(p) ==
  /\ pc[p] = "script"
  /\ \/ /\ at[p] > Len(Script)
        /\ userVersion' = 1
        /\ Goto(p, "unlock")
        /\ at' = [at EXCEPT ![p] = 1]
        /\ UNCHANGED schema
     \/ /\ at[p] <= Len(Script) /\ Script[at[p]] \notin schema
        /\ schema' = schema \cup {Script[at[p]]}
        /\ at' = [at EXCEPT ![p] = @ + 1]
        /\ UNCHANGED <<pc, userVersion>>
     \/ /\ at[p] <= Len(Script) /\ Script[at[p]] \in schema
        /\ Goto(p, "unlock_failed")
        /\ at' = [at EXCEPT ![p] = 1]
        /\ UNCHANGED <<schema, userVersion>>
  /\ UNCHANGED <<lockVars, history>>

-----------------------------------------------------------------------------
(* The end of the process. *)

\* The atexit hook removes the lock path once more, whoever made the file.
Exit(p) ==
  /\ pc[p] \in {"ready", "failed"}
  /\ file' = Nobody
  /\ Goto(p, "idle")
  /\ UNCHANGED <<at, fd, holder, dbVars, history>>

\* Killed inside __init__: the kernel drops the lock, the file stays.
Crash(p) ==
  /\ pc[p] \in Starting /\ crashes < MaxCrashes
  /\ crashes' = crashes + 1
  /\ torn' = (torn \/ (pc[p] = "script" /\ at[p] > 1))
  /\ fd' = [fd EXCEPT ![p] = Nobody]
  /\ holder' = [i \in Inodes |-> IF holder[i] = p THEN Nobody ELSE holder[i]]
  /\ at' = [at EXCEPT ![p] = 1]
  /\ Goto(p, "idle")
  /\ UNCHANGED <<file, dbVars, overlapped>>

InitStep(p) ==
  \/ Open(p) \/ Flock(p) \/ Bootstrap(p) \/ Tables(p) \/ ScriptStatement(p)
  \/ Unlock(p) \/ Unlink(p)

Next == \E p \in Procs : Clean(p) \/ InitStep(p) \/ Exit(p) \/ Crash(p)

Spec == Init /\ [][Next]_vars

\* An instance inside __init__ is scheduled; the kernel hands a lock that is
\* released again and again to each waiting instance in the end.
FairSpec == Spec /\ \A p \in Procs : WF_vars(InitStep(p)) /\ SF_vars(Flock(p))

-----------------------------------------------------------------------------
(* Properties. *)

\* Types of the database and of what each instance is at.
TypeOK ==
  /\ pc \in [Procs -> Pcs]
  /\ at \in [Procs -> 1 .. Len(Script) + 1]
  /\ userVersion \in {0, 1}
  /\ schema \in SUBSET ToSet(Script)
  /\ torn \in BOOLEAN /\ overlapped \in BOOLEAN

\* Whoever comes out of __init__ without an error uses a complete schema,
\* whatever overlapping starts and crashes went before.
ReadyMeansMigrated ==
  \A p \in Procs :
    pc[p] = "ready" => userVersion = 1 /\ schema = ToSet(Script)

\* __init__ only raises because two instances overlapped in the locked part
\* or because an earlier one was killed inside the script: with a lock that
\* excludes, and without crashes, every start would succeed.
FailureHasACause ==
  (\E p \in Procs : pc[p] \in {"unlock_failed", "unlink_failed", "failed"})
    => overlapped \/ torn

\* No start hangs: the lock is always released.
StartTerminates ==
  \A p \in Procs : pc[p] \in Starting ~> pc[p] \notin Starting
=============================================================================
