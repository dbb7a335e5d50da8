------------------------------ MODULE Captures ------------------------------
(***************************************************************************)
(* Who holds a capture device, and what becomes of a recording: the routes   *)
(* of modules/hwcapture, record and record_multiple, the loops that read     *)
(* frames, and the patch of core/auto.py that has every stop_recording       *)
(* ingest the whole folder of its output file.                               *)
(* A file is an inode: a name and a place in the store lead to it, and the    *)
(* ffmpeg process that opened it writes on, wherever it has been moved. Its   *)
(* version stands for its content, <<inode, version>> for the hash. Folder and *)
(* store are one file system, so that a move is a rename.                      *)
(***************************************************************************)
EXTENDS Naturals, Sequences, FiniteSets

CONSTANTS
  Routed,   \* recordings started over HTTP
  Group,    \* those of one record_multiple call (of record: just one)
  Readers,  \* frame streams and processors
  Witness,  \* the main and the witness capture of one record_with_witness
  Names, NameOf,  \* the file each recording writes, all in one folder
  MaxWrites, NoFile

Captors == Readers \cup {Witness[1], Witness[2]}
Recordings == Routed \cup {Group[i] : i \in DOMAIN Group}
ASSUME CapturesAssumption ==
  /\ NameOf \in [Recordings -> Names] /\ MaxWrites \in Nat /\ NoFile \notin Recordings
  /\ Recordings \cap Captors = {} /\ \A i \in DOMAIN Group : Group[i] \notin Routed

VARIABLES
  rpc,      \* where each recording and reader is
  live,     \* those whose process or capture has the device open
  jobs,     \* routes._jobs
  group,    \* record_multiple: "start", "wait", "stop" or "over"
  folder,   \* the inode behind each name
  fd,       \* the inode each recording has opened
  version,  \* of each inode
  store,    \* MEDIA_ROOT: pairs of a hash and an inode
  scan,     \* per stop: names that ingest_folder has listed and not taken
  hashed,   \* per stop: the name in hand and its hash
  choice,   \* per stop: "none", or whether to "move" or to "remove" that file
  disturbed \* history: inodes stored while another recording had to do with them

captureVars == <<rpc, live, jobs, group, folder, fd, version, store, scan, hashed, choice, disturbed>>
fileVars == <<folder, fd, version, store, scan, hashed, choice, disturbed>>

CaptureInit ==
  /\ rpc = [s \in Recordings \cup Captors |-> "new"]
  /\ live = {} /\ jobs = {} /\ group = "start"
  /\ folder = [n \in Names |-> NoFile] /\ fd = [s \in Recordings |-> NoFile]
  /\ version = [s \in Recordings |-> 0] /\ store = {} /\ disturbed = {}
  /\ scan = [s \in Recordings |-> {}] /\ hashed = [s \in Recordings |-> NoFile]
  /\ choice = [s \in Recordings |-> "none"]

Go(s, pc) == rpc' = [rpc EXCEPT ![s] = pc]

\* HWAccelRecorder and start_recording_hw: the device must be known and there
\* must be an encoder. ffmpeg -y empties the file if the name exists.
StartRecorder(s) ==
  /\ rpc[s] = "new"
  /\ LET inode == IF folder[NameOf[s]] = NoFile THEN s ELSE folder[NameOf[s]]
     IN /\ folder' = [folder EXCEPT ![NameOf[s]] = inode]
        /\ fd' = [fd EXCEPT ![s] = inode] /\ version' = [version EXCEPT ![inode] = @ + 1]
  /\ live' = live \cup {s}
  /\ UNCHANGED <<store, scan, hashed, choice, disturbed>>

RefuseStart(s) == rpc[s] = "new" /\ Go(s, "over") /\ UNCHANGED <<live, fileVars>>

WriteFrames(s) ==
  /\ s \in live \cap Recordings /\ version[fd[s]] < MaxWrites
  /\ version' = [version EXCEPT ![fd[s]] = @ + 1]
  /\ UNCHANGED <<rpc, live, jobs, group, folder, fd, store, scan, hashed, choice, disturbed>>

\* ffmpeg fails by itself, as when the device is in use or unplugged.
FfmpegEnds(s) ==
  /\ s \in live \cap Recordings /\ live' = live \ {s}
  /\ UNCHANGED <<rpc, jobs, group, fileVars>>

\* POST /record: the recorder starts in a thread, then its job is registered.
RouteStart(s) ==
  /\ s \in Routed /\ UNCHANGED <<jobs, group>>
  /\ (StartRecorder(s) /\ Go(s, "started")) \/ RefuseStart(s)

RouteRegister(s) ==
  /\ rpc[s] = "started" /\ s \in Routed
  /\ jobs' = jobs \cup {s} /\ Go(s, "recording")
  /\ UNCHANGED <<live, group, fileVars>>

\* DELETE /record: the job is taken out of the table before it is stopped.
RouteStop(s) ==
  /\ s \in jobs /\ jobs' = jobs \ {s} /\ Go(s, "stop")
  /\ UNCHANGED <<live, group, fileVars>>

GroupStartEscapes(i) ==   \* Fault: a start that raises leaves the others running.
  /\ group = "start" /\ \A j \in 1 .. i - 1 : rpc[Group[j]] # "new"
  /\ \/ StartRecorder(Group[i]) /\ Go(Group[i], "recording")
        /\ group' = IF i = Len(Group) THEN "wait" ELSE group
     \/ RefuseStart(Group[i]) /\ group' = "over"
  /\ UNCHANGED jobs

\* record_multiple starts one after the other; when a start raises or all are
\* recorded for long enough, those that were started are stopped in turn.
GroupStart(i) ==
  /\ group = "start" /\ \A j \in 1 .. i - 1 : rpc[Group[j]] # "new"
  /\ \/ StartRecorder(Group[i]) /\ Go(Group[i], "recording")
        /\ group' = IF i = Len(Group) THEN "wait" ELSE group
     \/ RefuseStart(Group[i]) /\ group' = "stop"
  /\ UNCHANGED jobs

GroupWaited ==
  /\ group = "wait" /\ group' = "stop"
  /\ UNCHANGED <<rpc, live, jobs, fileVars>>

GroupStop(i) ==
  /\ group = "stop" /\ rpc[Group[i]] = "recording"
  /\ \A j \in 1 .. i - 1 : rpc[Group[j]] = "over"
  /\ Go(Group[i], "stop") /\ UNCHANGED <<live, jobs, group, fileVars>>

GroupOver ==
  /\ group = "stop" /\ \A i \in DOMAIN Group : rpc[Group[i]] \in {"new", "over"}
  /\ group' = "over" /\ UNCHANGED <<rpc, live, jobs, fileVars>>

-----------------------------------------------------------------------------
\* stop_recording waits for the process, and kills it after five seconds; then
\* ingest_folder lists the media files in the folder.
IngestFirst(s) ==   \* Fault: the folder is ingested while ffmpeg still runs.
  /\ rpc[s] = "stop" /\ Go(s, "ingest")
  /\ scan' = [scan EXCEPT ![s] = {n \in Names : folder[n] # NoFile}]
  /\ UNCHANGED <<live, jobs, group, folder, fd, version, store, hashed, choice, disturbed>>

StopRecorder(s) ==
  /\ rpc[s] = "stop" /\ Go(s, "ingest") /\ live' = live \ {s}
  /\ scan' = [scan EXCEPT ![s] = {n \in Names : folder[n] # NoFile}]
  /\ UNCHANGED <<jobs, group, folder, fd, version, store, hashed, choice, disturbed>>

Take(s, n) == n \in scan[s] /\ hashed[s] = NoFile /\ scan' = [scan EXCEPT ![s] = @ \ {n}]

IngestHash(s, n) ==
  /\ Take(s, n)
  /\ hashed' = IF folder[n] = NoFile THEN hashed
               ELSE [hashed EXCEPT ![s] = [name |-> n, sha |-> <<folder[n], version[folder[n]]>>]]
  /\ UNCHANGED <<rpc, live, jobs, group, folder, fd, version, store, choice, disturbed>>

IngestDestByFolder(s) ==  \* Fault: it looks for the directory of the hash, which it has just made.
  /\ hashed[s] # NoFile /\ choice[s] = "none"
  /\ choice' = [choice EXCEPT ![s] = "remove"]
  /\ UNCHANGED <<rpc, live, jobs, group, folder, fd, version, store, scan, hashed, disturbed>>

\* The place of the hash is looked at,
IngestDest(s) ==
  /\ hashed[s] # NoFile /\ choice[s] = "none"
  /\ choice' = [choice EXCEPT ![s] = IF \E e \in store : e.sha = hashed[s].sha
                                    THEN "remove" ELSE "move"]
  /\ UNCHANGED <<rpc, live, jobs, group, folder, fd, version, store, scan, hashed, disturbed>>

\* then what has the name by now, if anything, is removed or moved there, over
\* what another stop has put there meanwhile. Registration fails in any case.
Finish(s) ==
  /\ hashed' = [hashed EXCEPT ![s] = NoFile] /\ choice' = [choice EXCEPT ![s] = "none"]
  /\ folder' = [folder EXCEPT ![hashed[s].name] = NoFile]
  /\ UNCHANGED <<rpc, live, jobs, group, fd, version, scan>>

IngestRemove(s) == choice[s] = "remove" /\ Finish(s) /\ UNCHANGED <<store, disturbed>>

IngestMove(s) ==
  LET sha == hashed[s].sha
      inode == folder[hashed[s].name]
  IN  /\ choice[s] = "move" /\ Finish(s)
      /\ store' = IF inode = NoFile THEN store
                  ELSE {e \in store : e.sha # sha} \cup {[sha |-> sha, inode |-> inode]}
      /\ disturbed' = IF \/ inode # sha[1]
                         \/ \E q \in Recordings \ {s} : fd[q] = inode /\
                              (q \in live \/ version[inode] # sha[2])
                      THEN disturbed \cup {inode} ELSE disturbed

IngestDone(s) ==
  /\ rpc[s] = "ingest" /\ scan[s] = {} /\ hashed[s] = NoFile
  /\ Go(s, "over") /\ UNCHANGED <<live, jobs, group, fileVars>>

-----------------------------------------------------------------------------
\* FrameCapture and HWAccelProcessor open the device, read until a read fails, a
\* flag is set, the client goes or something raises, and release it in finally.
\* record_with_witness does so with two devices, in turn. A stream whose read fails
\* goes on with a blank frame.
ReaderOpen(s) ==
  /\ rpc[s] = "new" /\ Go(s, "loop") /\ live' = live \cup {s}
  /\ UNCHANGED <<jobs, group, fileVars>>

ReaderEnds(s) ==
  /\ rpc[s] = "loop" /\ Go(s, "over") /\ live' = live \ {s}
  /\ UNCHANGED <<jobs, group, fileVars>>

WitnessOpen ==
  \/ ReaderOpen(Witness[1])
  \/ rpc[Witness[1]] = "loop" /\ ReaderOpen(Witness[2])

\* The finally clause: both have been opened by then, and are released before the
\* writers, which may not be there.
WitnessEnds ==
  \/ rpc[Witness[2]] = "loop" /\ ReaderEnds(Witness[1])
  \/ rpc[Witness[1]] = "over" /\ ReaderEnds(Witness[2])

RecorderStep(s) ==
  \/ RouteRegister(s) \/ StopRecorder(s) \/ IngestDest(s) \/ IngestRemove(s) \/ IngestMove(s)
  \/ IngestDone(s)
  \/ \E n \in Names : IngestHash(s, n)

GroupStep == GroupWaited \/ GroupOver \/ \E i \in DOMAIN Group : GroupStart(i) \/ GroupStop(i)

CaptureNext ==
  \/ \E s \in Recordings :
       RouteStart(s) \/ RouteStop(s) \/ RecorderStep(s) \/ WriteFrames(s) \/ FfmpegEnds(s)
  \/ GroupStep \/ WitnessOpen \/ WitnessEnds \/ \E s \in Readers : ReaderOpen(s) \/ ReaderEnds(s)

-----------------------------------------------------------------------------
\* What has ended holds no device: not a recording of record_multiple whose
\* neighbour failed to start, not a stopped one, not a reader.
NothingStaysOpen ==
  /\ \A s \in live : rpc[s] # "over"
  /\ group = "over" => \A i \in DOMAIN Group : Group[i] \notin live

\* A file in the store has the content of its hash for good, unless another
\* recording was writing it or had taken its name when it was moved.
StoredIsWhole ==
  \A e \in store : e.inode \in disturbed \/ e.sha = <<e.inode, version[e.inode]>>

\* A recording whose name nobody else uses is in the folder or in the store for
\* good, however many stops of others ingest the folder at the same time.
RecordingIsKept ==
  \A s \in Recordings :
    fd[s] # NoFile /\ (\A q \in Recordings \ {s} : NameOf[q] # NameOf[s]) =>
      folder[NameOf[s]] = s \/ \E e \in store : e.inode = s

=============================================================================
