-------------------------------- MODULE Intake --------------------------------
(***************************************************************************)
(* Uploads (video/modules/uploader/routes.py) and their ingest into the     *)
(* content-addressed store (video/core/ingest.py). A request streams its    *)
(* body into a staging file named by the client, one chunk per await, and   *)
(* queues ingest_files, which runs in a thread after the response: hash the *)
(* file, then rename it to the place its hash names, or remove it if that   *)
(* place is taken.                                                         *)
(*                                                                         *)
(* A body has two chunks. Staging and store are one file system, so a move *)
(* keeps the inode, and a request that has the file open writes on into it. *)
(***************************************************************************)
EXTENDS Naturals, FiniteSets

CONSTANTS
  Uploads,   \* requests
  Names,     \* file names clients may send
  Body,      \* the content each upload sends
  None,      \* no file, name or hash; a chunk not written
  MaxCrashes \* bound: crashes of the server

Contents == {Body[u] : u \in Uploads}

ASSUME BodyAssumption == DOMAIN Body = Uploads
ASSUME NoneAssumption == None \notin Uploads \cup Names \cup Contents
ASSUME MaxCrashesAssumption == MaxCrashes \in Nat

VARIABLES
  pc,       \* per upload: how far it is
  name,     \* per upload: its file name
  fd,       \* per upload: the inode it has open for writing
  digest,   \* per upload: the hash ingest computed
  data,     \* per inode: its two chunks
  staging,  \* per name: the inode in the staging directory
  store,    \* per hash: the inode in the store
  catalog,  \* hashes registered in the database
  crashes,  \* crashes so far
  collided  \* history: an upload began under the name of an unfinished one

files == <<data, staging, store>>
request == <<name, fd, digest>>
vars == <<pc, request, files, catalog, crashes, collided>>

\* One inode per open call that creates a file.
Inodes == Uploads

\* A hash stands for the data it was computed from.
Data == (Contents \cup {None}) \X (Contents \cup {None})
Whole(c) == <<c, c>>

Pcs == {"new", "first", "second", "staged", "hashed", "duplicate", "move",
        "register", "done", "aborted", "dropped"}

\* Requests whose body is still coming, and ingests that are queued or under way.
Uploading == {"first", "second"}
Ingesting == {"staged", "hashed", "duplicate", "move", "register"}

Init ==
  /\ pc = [u \in Uploads |-> "new"]
  /\ name = [u \in Uploads |-> None]
  /\ fd = [u \in Uploads |-> None] /\ digest = [u \in Uploads |-> None]
  /\ data = [i \in Inodes |-> <<None, None>>]
  /\ staging = [n \in Names |-> None]
  /\ store = [h \in Data |-> None]
  /\ catalog = {} /\ crashes = 0 /\ collided = FALSE

Goto(u, to) == pc' = [pc EXCEPT ![u] = to]

-----------------------------------------------------------------------------
(* upload_batch, for one file. *)

\* open(tgt, "wb"): truncates the file of that name, or creates one.
Open(u, n) ==
  /\ pc[u] = "new"
  /\ name' = [name EXCEPT ![u] = n]
  /\ fd' = [fd EXCEPT ![u] = IF staging[n] = None THEN u ELSE staging[n]]
  /\ data' = [data EXCEPT ![fd'[u]] = <<None, None>>]
  /\ staging' = [staging EXCEPT ![n] = fd'[u]]
  /\ Goto(u, "first")
  /\ collided' = (collided \/ \E v \in Uploads : name[v] = n /\ pc[v] # "done")
  /\ UNCHANGED <<digest, store, catalog, crashes>>

FirstChunk(u) ==
  /\ pc[u] = "first"
  /\ data' = [data EXCEPT ![fd[u]][1] = Body[u]]
  /\ Goto(u, "second")
  /\ UNCHANGED <<request, staging, store, catalog, crashes, collided>>

\* The last chunk; the file is closed and the ingest is queued.
SecondChunk(u) ==
  /\ pc[u] = "second"
  /\ data' = [data EXCEPT ![fd[u]][2] = Body[u]]
  /\ fd' = [fd EXCEPT ![u] = None]
  /\ Goto(u, "staged")
  /\ UNCHANGED <<name, digest, staging, store, catalog, crashes, collided>>

-----------------------------------------------------------------------------
(* ingest_files, for that file: it knows the path only. *)

Staged(u) == IF name[u] = None THEN None ELSE staging[name[u]]

\* Fault: only the first chunk is hashed.
DigestOfHead(u) ==
  /\ pc[u] = "staged"
  /\ IF Staged(u) = None
     THEN Goto(u, "done") /\ UNCHANGED digest
     ELSE Goto(u, "hashed") /\ digest' = [digest EXCEPT ![u] = <<data[Staged(u)][1], None>>]
  /\ UNCHANGED <<name, fd, files, catalog, crashes, collided>>

\* A path that is no file is skipped.
Digest(u) ==
  /\ pc[u] = "staged"
  /\ IF Staged(u) = None
     THEN Goto(u, "done") /\ UNCHANGED digest
     ELSE Goto(u, "hashed") /\ digest' = [digest EXCEPT ![u] = data[Staged(u)]]
  /\ UNCHANGED <<name, fd, files, catalog, crashes, collided>>

\* Fault: the staged file is removed before it is known to be a duplicate.
RemoveFirst(u) ==
  /\ pc[u] = "hashed"
  /\ staging' = [staging EXCEPT ![name[u]] = None]
  /\ Goto(u, IF store[digest[u]] = None THEN "move" ELSE "register")
  /\ UNCHANGED <<request, data, store, catalog, crashes, collided>>

DestExists(u) ==
  /\ pc[u] = "hashed"
  /\ Goto(u, IF store[digest[u]] = None THEN "move" ELSE "duplicate")
  /\ UNCHANGED <<request, files, catalog, crashes, collided>>

RemoveDuplicate(u) ==
  /\ pc[u] = "duplicate"
  /\ staging' = [staging EXCEPT ![name[u]] = None]
  /\ Goto(u, "register")
  /\ UNCHANGED <<request, data, store, catalog, crashes, collided>>

\* The rename replaces what another ingest put there in the meantime; a
\* missing source raises, which ends the ingest of this file.
Move(u) ==
  /\ pc[u] = "move"
  /\ IF Staged(u) = None
     THEN Goto(u, "done") /\ UNCHANGED <<staging, store>>
     ELSE /\ store' = [store EXCEPT ![digest[u]] = Staged(u)]
          /\ staging' = [staging EXCEPT ![name[u]] = None]
          /\ Goto(u, "register")
  /\ UNCHANGED <<request, data, catalog, crashes, collided>>

\* DB.add_video: DB is a WALProxyDB, which has no such method; the
\* AttributeError is logged and the file is not counted.
Register(u) ==
  /\ pc[u] = "register"
  /\ Goto(u, "done")
  /\ UNCHANGED <<request, files, catalog, crashes, collided>>

\* The server stops: requests and queued ingests are gone, files stay. Nothing
\* looks for staged files at the next start, so an ingest is dropped for good.
Crash ==
  /\ crashes < MaxCrashes
  /\ crashes' = crashes + 1
  /\ pc' = [u \in Uploads |-> IF pc[u] \in Uploading THEN "aborted"
                             ELSE IF pc[u] \in Ingesting THEN "dropped" ELSE pc[u]]
  /\ fd' = [u \in Uploads |-> None]
  /\ UNCHANGED <<name, digest, files, catalog, collided>>

-----------------------------------------------------------------------------
Step(u) ==
  \/ FirstChunk(u) \/ SecondChunk(u)
  \/ Digest(u) \/ DestExists(u) \/ RemoveDuplicate(u) \/ Move(u) \/ Register(u)

Next ==
  \/ \E u \in Uploads :
       Step(u) \/ \E n \in Names : Open(u, n)
  \/ Crash

Spec == Init /\ [][Next]_vars

\* A request whose client keeps sending and a queued task are scheduled.
FairSpec == Spec /\ \A u \in Uploads : WF_vars(Step(u))

-----------------------------------------------------------------------------
(* Properties. *)

\* Types; and a request has its file open exactly while it writes it.
TypeOK ==
  /\ pc \in [Uploads -> Pcs]
  /\ name \in [Uploads -> Names \cup {None}]
  /\ fd \in [Uploads -> Inodes \cup {None}]
  /\ \A u \in Uploads : fd[u] # None <=> pc[u] \in Uploading
  /\ digest \in [Uploads -> Data \cup {None}]
  /\ data \in [Inodes -> Data]
  /\ staging \in [Names -> Inodes \cup {None}]
  /\ store \in [Data -> Inodes \cup {None}]
  /\ catalog \subseteq Data
  /\ crashes \in 0 .. MaxCrashes
  /\ collided \in BOOLEAN

\* As long as no upload began under the name of an unfinished one, whatever
\* else runs concurrently and whatever crashes: a stored file is what its
\* hash says,
StoreIsAddressedByContent ==
  ~collided => \A h \in Data : store[h] # None => data[store[h]] = h

\* and an upload that was answered is still in the staging directory or in
\* the store, whole, also when a crash has dropped its ingest at whatever step:
\* deduplication never removes the last copy.
Answered(u) == pc[u] \in Ingesting \cup {"done", "dropped"}
AnsweredIsKept ==
  ~collided =>
    \A u \in Uploads : Answered(u) =>
      \/ Staged(u) # None /\ data[Staged(u)] = Whole(Body[u])
      \/ store[Whole(Body[u])] # None

\* Every queued upload is ingested: what was answered ends in the store, unless
\* its ingest is dropped by a crash or two unfinished uploads had one name.
UploadsAreStored ==
  \A u \in Uploads :
    pc[u] = "staged" ~>
      \/ pc[u] = "done" /\ store[Whole(Body[u])] # None
      \/ pc[u] = "dropped" \/ collided
=============================================================================
