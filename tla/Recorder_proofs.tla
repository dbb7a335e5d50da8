--------------------------- MODULE Recorder_proofs ---------------------------
(* Machine-checked proofs about recording over the control WebSocket, for any   *)
(* number of clients. The inductive invariant adds to the types and the holders *)
(* of the locks what each holder of _recording_lock may count on, and what the  *)
(* members of a broadcast that is under way have heard so far. Then, about the   *)
(* recordings of hwcapture and the ingestion of their folder, for any number of   *)
(* recordings, groups, file names and readers.                                 *)
EXTENDS Recorder, Captures, TLAPS

\* Somebody is at one of these places, with _recording_lock.
Holder(places) == recLock # Nobody /\ pc[recLock] \in places

\* What the lock protects: a feed being started has a recorder and no process, one
\* being stopped has no recorder, and one that is stopped neither.
ProcessInv ==
  /\ OneProcess
  /\ \A c \in Clients :
       /\ pc[c] = "starting" => processes = 0
       /\ pc[c] \in {"starting", "tell_started"} => recorder
       /\ pc[c] \in {"stopping", "tell_stopped"} => ~recorder
       /\ pc[c] = "tell_stopped" => processes = 0

\* Only members have heard anything, and a broadcast goes to members only.
MemberInv ==
  /\ cliLock = Nobody => todo = {}
  /\ todo \subseteq members
  /\ \A c \in Clients : c \notin members \/ socket[c] = "gone" => heard[c] = "nothing"

\* The members that a broadcast has reached.
Reached == members \ todo
TaskLives == taskPc # "none" /\ ~cancelled

HeardInv ==
  /\ ToldIsStoppable
  /\ TaskLives => recorder \/ Holder({"stopping"})
  /\ TaskLives => \A c \in Clients : heard[c] # "stopped"
  /\ \A b \in Clients : cliLock = b =>
       /\ pc[b] = "tell_started" => \A c \in Reached : heard[c] # "stopped"
       /\ pc[b] = "tell_stopped" => \A c \in Reached : heard[c] \notin {"started", "status"}

IInv == TypeOK /\ ProcessInv /\ MemberInv /\ HeardInv

LEMMA InitInv == Init => IInv
<1> SUFFICES ASSUME Init
             PROVE  IInv
  OBVIOUS
<1> USE DistinctAssumption DEF Init
<1>1. TypeOK
  BY DEF TypeOK, Holding, Pcs
<1>2. ProcessInv
  BY DEF ProcessInv, OneProcess
<1>3. MemberInv
  BY DEF MemberInv
<1>4. HeardInv
  BY DEF HeardInv, ToldIsStoppable, TaskLives
<1> QED BY <1>1, <1>2, <1>3, <1>4 DEF IInv

LEMMA NextInv == IInv /\ [Next]_vars => IInv'
<1> SUFFICES ASSUME IInv, [Next]_vars
             PROVE  IInv'
  OBVIOUS
<1> USE DistinctAssumption
    DEF IInv, TypeOK, ProcessInv, MemberInv, HeardInv, OneProcess, ToldIsStoppable, TaskLives,
        Holder, Holding, Telling, Pcs, Reached, sockVars, lockVars, recVars, taskVars, Goto
<1>1. CASE UNCHANGED vars
  BY <1>1 DEF vars
<1>2. ASSUME NEW c \in Clients, Disturb(c) \/ Recover(c)
      PROVE  IInv'
  BY <1>2 DEF Disturb, Recover, Becomes
<1>3. CASE ProcessEnds
  BY <1>3 DEF ProcessEnds
<1>4. ASSUME NEW b \in Clients \cup {Task}, TakeClients(b)
      PROVE  IInv'
  BY <1>4 DEF TakeClients, Broadcasting
<1>5. ASSUME NEW b \in Clients, NEW d \in Clients, Send(b, d)
      PROVE  IInv'
  BY <1>5 DEF Send, SendTo, Broadcasting, EventFor
<1>6. ASSUME NEW d \in Clients, Send(Task, d)
      PROVE  IInv'
  BY <1>6 DEF Send, SendTo, Broadcasting, EventFor
<1>7. ASSUME NEW c \in Clients, Connect(c) \/ Join(c) \/ Command(c) \/ Disconnect(c) \/ Leave(c)
      PROVE  IInv'
  BY <1>7 DEF Connect, Join, Command, Disconnect, Leave
<1>8. ASSUME NEW c \in Clients, Refuse(c)
      PROVE  IInv'
  BY <1>8 DEF Refuse
<1>9. ASSUME NEW c \in Clients, Told(c)
      PROVE  IInv'
  BY <1>9 DEF Told
<1>10. ASSUME NEW c \in Clients, BeginStart(c)
       PROVE  IInv'
  <2>1. /\ pc[c] = "start" /\ recLock = Nobody /\ recLock' = c
        /\ UNCHANGED <<sockVars, cliLock, todo, processes, taskVars>>
    BY <1>10 DEF BeginStart, StartAs
  <2>2. CASE UNCHANGED recorder /\ Goto(c, "refuse")
    BY <2>1, <2>2
  <2>3. CASE ~recorder /\ recorder' = TRUE /\ Goto(c, "starting")
    BY <2>1, <2>3
  <2> QED BY <1>10, <2>2, <2>3 DEF BeginStart, StartAs
<1>11. ASSUME NEW c \in Clients, StartProcess(c)
       PROVE  IInv'
  BY <1>11 DEF StartProcess
<1>12. ASSUME NEW c \in Clients, Started(c)
       PROVE  IInv'
  BY <1>12 DEF Started
<1>13. ASSUME NEW c \in Clients, BeginStop(c)
       PROVE  IInv'
  <2>1. TypeOK'
    BY <1>13 DEF BeginStop
  <2>2. ProcessInv'
    BY <1>13 DEF BeginStop
  <2>3. MemberInv'
    BY <1>13 DEF BeginStop
  <2>4. HeardInv'
    BY <1>13 DEF BeginStop
  <2> QED BY <2>1, <2>2, <2>3, <2>4
<1>14. ASSUME NEW c \in Clients, StopProcess(c)
       PROVE  IInv'
  <2>1. TypeOK'
    BY <1>14 DEF StopProcess, Stopping
  <2>2. ProcessInv'
    BY <1>14 DEF StopProcess, Stopping
  <2>3. MemberInv'
    BY <1>14 DEF StopProcess, Stopping
  <2>4. HeardInv'
    <3>1. /\ pc[c] = "stopping" /\ recLock = c /\ recLock' = c /\ cliLock # c
          /\ pc' = [pc EXCEPT ![c] = "tell_stopped"] /\ ~TaskLives'
          /\ UNCHANGED <<heard, members, todo, cliLock, recorder>>
      BY <1>14 DEF StopProcess, Stopping
    <3>2. pc'[recLock'] = "tell_stopped" /\ recLock' # Nobody
      BY <3>1
    <3> QED BY <3>1, <3>2
  <2> QED BY <2>1, <2>2, <2>3, <2>4
<1>15. CASE TaskCheck
  BY <1>15 DEF TaskCheck
<1>16. CASE TaskTold
  BY <1>16 DEF TaskTold, Broadcasting
<1>17. CASE TaskCancelled
  <2>1. /\ taskPc' = "none" /\ cancelled' = FALSE /\ recLock' = recLock
        /\ UNCHANGED <<sockVars, pc, recVars>>
        /\ \/ cliLock = Task /\ cliLock' = Nobody /\ todo' = {}
           \/ cliLock # Task /\ cliLock' = cliLock /\ todo' = todo
    BY <1>17 DEF TaskCancelled
  <2>2. TypeOK'
    <3>1. /\ cliLock' \in Clients \cup {Task, Nobody} /\ cliLock' # Task
          /\ cliLock' \in Clients => cliLock' = cliLock /\ pc[cliLock] \in Telling
      BY <2>1
    <3>2. UNCHANGED <<socket, heard, members, pc, recLock, recorder, processes>> /\ todo' \in SUBSET Clients
      BY <2>1
    <3> QED BY <2>1, <3>1, <3>2
  <2>3. ProcessInv'
    BY <2>1
  <2>4. MemberInv'
    BY <2>1
  <2>5. HeardInv'
    <3>1. ~TaskLives' /\ Holder({"stopping", "tell_stopped"})' = Holder({"stopping", "tell_stopped"})
      BY <2>1
    <3>2. ToldIsStoppable'
      BY <2>1
    <3>3. CASE cliLock = Task
      BY <2>1, <3>1, <3>2, <3>3
    <3>4. CASE cliLock # Task
      <4>1. UNCHANGED <<heard, members, pc, cliLock, todo>>
        BY <2>1, <3>4
      <4>2. Reached' = Reached
        BY <4>1
      <4> QED BY <3>1, <3>2, <4>1, <4>2
    <3> QED BY <3>3, <3>4
  <2> QED BY <2>2, <2>3, <2>4, <2>5
<1> QED
  BY <1>1, <1>2, <1>3, <1>4, <1>5, <1>6, <1>7, <1>8, <1>9, <1>10, <1>11, <1>12, <1>13, <1>14, <1>15, <1>16, <1>17
  DEF Next, Waiting, Going, TaskWaiting, TaskGoing

\* The types, and whoever holds a lock is inside its "async with" block (ws.py).
THEOREM RecorderTypes == Spec => []TypeOK
<1>1. IInv => TypeOK
  BY DEF IInv
<1> QED BY InitInv, NextInv, <1>1, PTL DEF Spec

\* A feed never has two ffmpeg processes, nor one without a recorder unless it is
\* being stopped (_start_record, _stop_record).
THEOREM NeverTwoProcesses == Spec => []OneProcess
<1>1. IInv => OneProcess
  BY DEF IInv, ProcessInv
<1> QED BY InitInv, NextInv, <1>1, PTL DEF Spec

\* Whoever was told of a recording can stop it (_broadcast_control, _stop_record).
THEOREM ToldCanStop == Spec => []ToldIsStoppable
<1>1. IInv => ToldIsStoppable
  BY DEF IInv, HeardInv
<1> QED BY InitInv, NextInv, <1>1, PTL DEF Spec

\* No status follows the end of a recording (status_loop, _stop_record).
THEOREM NoLateStatus == Spec => NoStatusAfterStop
<1>1. IInv /\ [Next]_vars => [\A c \in Clients : heard[c] = "stopped" => heard'[c] # "status"]_vars
  <2> SUFFICES ASSUME IInv, Next, NEW c \in Clients, heard[c] = "stopped", heard'[c] = "status"
               PROVE  FALSE
    OBVIOUS
  <2>1. heard \in [Clients -> {"nothing", "started", "status", "stopped"}] /\ Task \notin Clients
    BY DistinctAssumption DEF IInv, TypeOK
  <2>2. \E d \in Clients : Send(Task, d)
    BY <2>1
    DEF Next, Waiting, Going, TaskWaiting, TaskGoing, Disturb, Recover, Becomes, ProcessEnds,
        TakeClients, Send, SendTo, EventFor, Connect, Join, Command, Disconnect, Leave, Refuse, Told,
        BeginStart, StartAs, StartProcess, Started, BeginStop, StopProcess, Stopping, TaskCheck,
        TaskTold, TaskCancelled, sockVars, Broadcasting, Telling
  <2>3. TaskLives
    BY <2>1, <2>2 DEF Send, SendTo, Broadcasting, TaskLives
  <2> QED BY <2>3 DEF IInv, HeardInv
<1> QED BY InitInv, NextInv, <1>1, PTL DEF Spec, NoStatusAfterStop

-----------------------------------------------------------------------------
(* Recordings and readers of the capture devices, and the stops that ingest a    *)
(* folder. The inductive invariant says where a recording may hold its device and  *)
(* which inode a name, a process, a hash and an entry of the store lead to.        *)

\* A place of a recorder in which its process may have the device open.
OpenPlaces == {"started", "recording", "stop"}
RecPlaces == OpenPlaces \cup {"new", "ingest", "over"}
Inodes == Recordings \cup {NoFile}
Hashes == [name : Names, sha : Recordings \X Nat]

\* The types. An inode is named after the recording that made it.
CaptureTypeOK ==
  /\ rpc \in [Recordings \cup Captors -> RecPlaces \cup {"loop"}]
  /\ live \subseteq Recordings \cup Captors /\ jobs \subseteq Routed
  /\ folder \in [Names -> Inodes] /\ fd \in [Recordings -> Inodes]
  /\ version \in [Recordings -> Nat]
  /\ store \subseteq [sha : Recordings \X Nat, inode : Recordings]
  /\ scan \in [Recordings -> SUBSET Names]
  /\ hashed \in [Recordings -> Hashes \cup {NoFile}]
  /\ choice \in [Recordings -> {"none", "remove", "move"}]
  /\ disturbed \subseteq Inodes

\* Where somebody has the device open, and where a stop ingests the folder.
PlacesInv ==
  /\ \A s \in live : rpc[s] \in (IF s \in Captors THEN {"loop"} ELSE OpenPlaces)
  /\ \A s \in jobs : rpc[s] = "recording"
  /\ \A s \in Recordings : scan[s] # {} \/ hashed[s] # NoFile => rpc[s] = "ingest"
  /\ \A s \in Recordings : choice[s] # "none" => hashed[s] # NoFile
  /\ \A s \in Recordings : /\ rpc[s] = "new" => fd[s] = NoFile
                           /\ fd[s] = NoFile => rpc[s] \in {"new", "over"}
  /\ group = "over" => \A i \in DOMAIN Group : Group[i] \notin live

\* An inode exists once its recording has begun, keeps the name of that recording,
\* and is in the folder or in the store but not in both.
InodesInv ==
  /\ \A n \in Names : folder[n] # NoFile => NameOf[folder[n]] = n /\ rpc[folder[n]] # "new"
  /\ \A s \in Recordings : fd[s] # NoFile => NameOf[fd[s]] = NameOf[s] /\ rpc[fd[s]] # "new"
  /\ \A s \in Recordings : hashed[s] # NoFile => NameOf[hashed[s].sha[1]] = hashed[s].name
  /\ \A e \in store : /\ NameOf[e.sha[1]] = NameOf[e.inode] /\ rpc[e.inode] # "new"
                      /\ folder[NameOf[e.inode]] # e.inode

\* Only another recording can have changed a file since it was hashed, nobody
\* writes to a stored one that was left alone, and a file is to be removed only if
\* the place of its hash is taken.
ContentInv ==
  /\ \A s \in Recordings : hashed[s] # NoFile =>
       LET sha == hashed[s].sha
       IN version[sha[1]] = sha[2] \/ \E q \in Recordings \ {s} : fd[q] = sha[1]
  /\ \A e \in store : e.inode \notin disturbed =>
       \A q \in live \cap Recordings : fd[q] # e.inode
  /\ \A s \in Recordings : choice[s] = "remove" => \E e \in store : e.sha = hashed[s].sha

CaptureInv ==
  /\ CaptureTypeOK /\ PlacesInv /\ InodesInv /\ ContentInv
  /\ StoredIsWhole /\ RecordingIsKept

LEMMA CaptureInitInv == CaptureInit => CaptureInv
<1> SUFFICES ASSUME CaptureInit
             PROVE  CaptureInv
  OBVIOUS
<1> USE CapturesAssumption DEF CaptureInit, Inodes, RecPlaces, OpenPlaces
<1>1. CaptureTypeOK
  BY DEF CaptureTypeOK
<1>2. PlacesInv
  BY DEF PlacesInv
<1>3. InodesInv
  BY DEF InodesInv
<1>4. ContentInv
  BY DEF ContentInv
<1>5. StoredIsWhole /\ RecordingIsKept
  BY DEF StoredIsWhole, RecordingIsKept
<1> QED BY <1>1, <1>2, <1>3, <1>4, <1>5 DEF CaptureInv

\* A step that leaves the files alone disturbs nothing that is said of them, unless
\* a recording becomes new again or opens its device.
LEMMA FilesAlone ==
  ASSUME CaptureInv, CaptureTypeOK', PlacesInv', UNCHANGED fileVars,
         \A s \in Recordings : rpc[s] # "new" => rpc'[s] # "new",
         live' \cap Recordings \subseteq live
  PROVE  CaptureInv'
<1>1. InodesInv'
  <2>1. InodesInv /\ UNCHANGED <<folder, fd, version, store, hashed, choice>>
    BY DEF CaptureInv, fileVars
  <2>2. CaptureTypeOK
    BY DEF CaptureInv
  <2> QED BY <2>1, <2>2, CapturesAssumption DEF InodesInv, CaptureTypeOK, Inodes
<1>2. ContentInv'
  BY DEF CaptureInv, ContentInv, fileVars
<1>3. StoredIsWhole' /\ RecordingIsKept'
  BY DEF CaptureInv, StoredIsWhole, RecordingIsKept, fileVars
<1> QED BY <1>1, <1>2, <1>3 DEF CaptureInv

\* A recorder that starts makes its file or empties the one of its name.
LEMMA StartKeeps ==
  ASSUME CaptureInv, NEW s \in Recordings, StartRecorder(s),
         NEW place \in {"started", "recording"}, Go(s, place), jobs' = jobs,
         group' = "over" => \A i \in DOMAIN Group : Group[i] \notin live \cup {s}
  PROVE  CaptureInv'
<1> DEFINE inode == IF folder[NameOf[s]] = NoFile THEN s ELSE folder[NameOf[s]]
<1>1. CaptureTypeOK /\ PlacesInv /\ InodesInv /\ ContentInv /\ StoredIsWhole /\ RecordingIsKept
  BY DEF CaptureInv
<1>2. /\ rpc[s] = "new" /\ folder' = [folder EXCEPT ![NameOf[s]] = inode]
      /\ fd' = [fd EXCEPT ![s] = inode] /\ version' = [version EXCEPT ![inode] = @ + 1]
      /\ live' = live \cup {s} /\ rpc' = [rpc EXCEPT ![s] = place]
      /\ UNCHANGED <<store, scan, hashed, choice, disturbed>>
  BY DEF StartRecorder, Go
<1>3. /\ inode \in Recordings /\ NameOf[s] \in Names /\ NameOf[inode] = NameOf[s]
      /\ inode = s \/ (rpc[inode] # "new" /\ folder[NameOf[s]] = inode)
  BY <1>1, CapturesAssumption DEF CaptureTypeOK, InodesInv, Inodes
<1>4. \A e \in store : e.inode # inode /\ e.inode \in Recordings
  BY <1>1, <1>2, <1>3 DEF CaptureTypeOK, InodesInv
<1> HIDE DEF inode
<1>5. CaptureTypeOK'
  BY <1>1, <1>2, <1>3 DEF CaptureTypeOK, Inodes, RecPlaces, OpenPlaces
<1>6. PlacesInv'
  BY <1>1, <1>2, <1>3, CapturesAssumption DEF PlacesInv, CaptureTypeOK, OpenPlaces, RecPlaces, Inodes
<1>7. InodesInv'
  <2>1. \A r \in Recordings : rpc[r] # "new" \/ r = inode => rpc'[r] # "new"
    BY <1>1, <1>2, <1>3 DEF CaptureTypeOK
  <2>2. \A n \in Names : folder'[n] = (IF n = NameOf[s] THEN inode ELSE folder[n])
    BY <1>1, <1>2 DEF CaptureTypeOK
  <2>3. \A r \in Recordings : fd'[r] = (IF r = s THEN inode ELSE fd[r])
    BY <1>1, <1>2 DEF CaptureTypeOK
  <2> QED
    BY <1>1, <1>2, <1>3, <1>4, <2>1, <2>2, <2>3, CapturesAssumption
    DEF InodesInv, CaptureTypeOK, Inodes
<1>8. ContentInv'
  <2>1. \A r \in Recordings : fd'[r] = (IF r = s THEN inode ELSE fd[r])
    BY <1>1, <1>2 DEF CaptureTypeOK
  <2>2. \A r \in Recordings : r # inode => version'[r] = version[r]
    BY <1>1, <1>2 DEF CaptureTypeOK
  <2>3. hashed[s] = NoFile /\ fd[s] = NoFile
    BY <1>1, <1>2 DEF PlacesInv
  <2>4. ASSUME NEW r \in Recordings, hashed[r] # NoFile
        PROVE  LET sha == hashed[r].sha
               IN version'[sha[1]] = sha[2] \/ \E q \in Recordings \ {r} : fd'[q] = sha[1]
    <3>1. hashed[r].sha[1] \in Recordings /\ r # s
      BY <1>1, <2>3, <2>4 DEF CaptureTypeOK, Hashes
    <3>2. CASE hashed[r].sha[1] = inode
      BY <2>1, <3>1, <3>2
    <3>3. CASE hashed[r].sha[1] # inode
      <4>1. version'[hashed[r].sha[1]] = version[hashed[r].sha[1]]
        BY <2>2, <3>1, <3>3
      <4>2. \A q \in Recordings : fd[q] = hashed[r].sha[1] => fd'[q] = fd[q]
        BY <2>1, <2>3, <3>1, CapturesAssumption
      <4> QED BY <1>1, <2>4, <4>1, <4>2 DEF ContentInv
    <3> QED BY <3>2, <3>3
  <2>5. \A e \in store' : e.inode \notin disturbed' =>
          \A q \in live' \cap Recordings : fd'[q] # e.inode
    BY <1>1, <1>2, <1>4, <2>1 DEF ContentInv
  <2>6. \A r \in Recordings : choice'[r] = "remove" => \E e \in store' : e.sha = hashed'[r].sha
    BY <1>1, <1>2 DEF ContentInv
  <2> QED BY <1>2, <2>4, <2>5, <2>6 DEF ContentInv
<1>9. StoredIsWhole'
  BY <1>1, <1>2, <1>3, <1>4 DEF StoredIsWhole, CaptureTypeOK
<1>10. RecordingIsKept'
  <2>1. \A n \in Names : folder'[n] = (IF n = NameOf[s] THEN inode ELSE folder[n])
    BY <1>1, <1>2 DEF CaptureTypeOK
  <2>2. \A r \in Recordings : fd'[r] = (IF r = s THEN inode ELSE fd[r])
    BY <1>1, <1>2 DEF CaptureTypeOK
  <2>3. (\A q \in Recordings \ {s} : NameOf[q] # NameOf[s]) => inode = s
    BY <1>3
  <2> QED BY <1>1, <1>2, <1>3, <2>1, <2>2, <2>3 DEF RecordingIsKept
<1> QED BY <1>5, <1>6, <1>7, <1>8, <1>9, <1>10 DEF CaptureInv

\* A process that runs writes to the inode it has open.
LEMMA WriteKeeps ==
  ASSUME CaptureInv, NEW s \in Recordings, WriteFrames(s)
  PROVE  CaptureInv'
<1>1. CaptureTypeOK /\ PlacesInv /\ InodesInv /\ ContentInv /\ StoredIsWhole /\ RecordingIsKept
  BY DEF CaptureInv
<1>2. /\ s \in live /\ version' = [version EXCEPT ![fd[s]] = @ + 1]
      /\ UNCHANGED <<rpc, live, jobs, group, folder, fd, store, scan, hashed, choice, disturbed>>
  BY DEF WriteFrames
<1>3. fd[s] \in Recordings /\ rpc[s] \in OpenPlaces
  BY <1>1, <1>2, CapturesAssumption DEF PlacesInv, CaptureTypeOK, OpenPlaces, Inodes
<1>4. \A r \in Recordings : r # fd[s] => version'[r] = version[r]
  BY <1>1, <1>2 DEF CaptureTypeOK
<1>5. CaptureTypeOK'
  BY <1>1, <1>2, <1>3 DEF CaptureTypeOK
<1>6. PlacesInv'
  BY <1>1, <1>2 DEF PlacesInv
<1>7. InodesInv'
  BY <1>1, <1>2 DEF InodesInv
<1>8. ContentInv'
  <2>1. ASSUME NEW r \in Recordings, hashed[r] # NoFile
        PROVE  LET sha == hashed[r].sha
               IN version'[sha[1]] = sha[2] \/ \E q \in Recordings \ {r} : fd[q] = sha[1]
    <3>1. hashed[r].sha[1] \in Recordings /\ r # s
      BY <1>1, <1>3, <2>1 DEF CaptureTypeOK, Hashes, PlacesInv, OpenPlaces
    <3> QED BY <1>1, <1>4, <2>1, <3>1 DEF ContentInv
  <2> QED BY <1>1, <1>2, <2>1 DEF ContentInv
<1>9. StoredIsWhole'
  <2>1. \A e \in store : e.inode \in disturbed \/ (e.inode # fd[s] /\ e.inode \in Recordings)
    BY <1>1, <1>2 DEF ContentInv, CaptureTypeOK
  <2> QED BY <1>1, <1>2, <1>4, <2>1 DEF StoredIsWhole
<1>10. RecordingIsKept'
  BY <1>1, <1>2 DEF RecordingIsKept
<1> QED BY <1>5, <1>6, <1>7, <1>8, <1>9, <1>10 DEF CaptureInv

\* A stop lists the folder once its process has ended.
LEMMA StopKeeps ==
  ASSUME CaptureInv, NEW s \in Recordings, StopRecorder(s)
  PROVE  CaptureInv'
<1>1. CaptureTypeOK /\ PlacesInv /\ InodesInv /\ ContentInv /\ StoredIsWhole /\ RecordingIsKept
  BY DEF CaptureInv
<1>2. /\ rpc[s] = "stop" /\ rpc' = [rpc EXCEPT ![s] = "ingest"] /\ live' = live \ {s}
      /\ scan' = [scan EXCEPT ![s] = {n \in Names : folder[n] # NoFile}]
      /\ UNCHANGED <<jobs, group, folder, fd, version, store, hashed, choice, disturbed>>
  BY DEF StopRecorder, Go
<1>3. CaptureTypeOK'
  BY <1>1, <1>2 DEF CaptureTypeOK, RecPlaces, OpenPlaces
<1>4. PlacesInv'
  BY <1>1, <1>2, CapturesAssumption DEF PlacesInv, CaptureTypeOK, OpenPlaces, RecPlaces
<1>5. \A r \in Recordings : rpc[r] # "new" => rpc'[r] # "new"
  BY <1>1, <1>2 DEF CaptureTypeOK
<1>6. InodesInv'
  BY <1>1, <1>2, <1>5, CapturesAssumption DEF InodesInv, CaptureTypeOK, Inodes
<1>7. ContentInv' /\ StoredIsWhole' /\ RecordingIsKept'
  BY <1>1, <1>2 DEF ContentInv, StoredIsWhole, RecordingIsKept
<1> QED BY <1>3, <1>4, <1>6, <1>7 DEF CaptureInv

\* The hash is taken of what the file holds now.
LEMMA HashKeeps ==
  ASSUME CaptureInv, NEW s \in Recordings, NEW n \in Names, IngestHash(s, n)
  PROVE  CaptureInv'
<1> DEFINE hash == [name |-> n, sha |-> <<folder[n], version[folder[n]]>>]
<1>1. CaptureTypeOK /\ PlacesInv /\ InodesInv /\ ContentInv /\ StoredIsWhole /\ RecordingIsKept
  BY DEF CaptureInv
<1>2. /\ n \in scan[s] /\ hashed[s] = NoFile /\ scan' = [scan EXCEPT ![s] = @ \ {n}]
      /\ hashed' = IF folder[n] = NoFile THEN hashed ELSE [hashed EXCEPT ![s] = hash]
      /\ UNCHANGED <<rpc, live, jobs, group, folder, fd, version, store, choice, disturbed>>
  BY DEF IngestHash, Take
<1>3. folder[n] # NoFile => hash \in Hashes /\ folder[n] \in Recordings /\ NameOf[folder[n]] = n
  BY <1>1 DEF CaptureTypeOK, Inodes, InodesInv, Hashes
<1>4. /\ hash.name = n /\ hash.sha[1] = folder[n] /\ hash.sha[2] = version[folder[n]]
  OBVIOUS
<1> HIDE DEF hash
<1>5. \A r \in Recordings : hashed'[r] \in {hashed[r], hash} /\ (hashed'[r] # hashed[r] => r = s /\ folder[n] # NoFile)
  BY <1>1, <1>2 DEF CaptureTypeOK
<1>6. \A r \in Recordings : choice[r] # "none" => hashed'[r] = hashed[r]
  BY <1>1, <1>2, <1>5 DEF PlacesInv
<1>7. CaptureTypeOK'
  BY <1>1, <1>2, <1>3 DEF CaptureTypeOK
<1>8. PlacesInv'
  <2>1. \A r \in Recordings : scan'[r] # {} \/ hashed'[r] # NoFile => rpc[r] = "ingest"
    BY <1>1, <1>2, <1>5 DEF PlacesInv, CaptureTypeOK
  <2>2. \A r \in Recordings : choice[r] # "none" => hashed'[r] # NoFile
    BY <1>1, <1>6 DEF PlacesInv
  <2> QED BY <1>1, <1>2, <2>1, <2>2 DEF PlacesInv
<1>9. InodesInv'
  BY <1>1, <1>2, <1>3, <1>4, <1>5 DEF InodesInv
<1>10. ContentInv'
  <2>1. ASSUME NEW r \in Recordings, hashed'[r] # NoFile
        PROVE  LET sha == hashed'[r].sha
               IN version[sha[1]] = sha[2] \/ \E q \in Recordings \ {r} : fd[q] = sha[1]
    <3>1. CASE hashed'[r] = hashed[r]
      BY <1>1, <2>1, <3>1 DEF ContentInv
    <3>2. CASE hashed'[r] # hashed[r]
      BY <1>4, <1>5, <3>2
    <3> QED BY <3>1, <3>2
  <2>2. \A r \in Recordings : choice[r] = "remove" => \E e \in store : e.sha = hashed'[r].sha
    BY <1>1, <1>6 DEF ContentInv
  <2> QED BY <1>1, <1>2, <2>1, <2>2 DEF ContentInv
<1>11. StoredIsWhole' /\ RecordingIsKept'
  BY <1>1, <1>2 DEF StoredIsWhole, RecordingIsKept
<1> QED BY <1>7, <1>8, <1>9, <1>10, <1>11 DEF CaptureInv

\* A look at the place of the hash.
LEMMA DestKeeps ==
  ASSUME CaptureInv, NEW s \in Recordings, IngestDest(s)
  PROVE  CaptureInv'
<1>1. CaptureTypeOK /\ PlacesInv /\ InodesInv /\ ContentInv /\ StoredIsWhole /\ RecordingIsKept
  BY DEF CaptureInv
<1>2. /\ hashed[s] # NoFile
      /\ choice' = [choice EXCEPT ![s] = IF \E e \in store : e.sha = hashed[s].sha THEN "remove" ELSE "move"]
      /\ UNCHANGED <<rpc, live, jobs, group, folder, fd, version, store, scan, hashed, disturbed>>
  BY DEF IngestDest
<1>3. \A r \in Recordings : choice'[r] = choice[r] \/ (r = s /\ choice'[s] # "none"
        /\ (choice'[s] = "remove" => \E e \in store : e.sha = hashed[s].sha))
  BY <1>1, <1>2 DEF CaptureTypeOK
<1>4. CaptureTypeOK'
  BY <1>1, <1>2 DEF CaptureTypeOK
<1>5. PlacesInv'
  BY <1>1, <1>2, <1>3 DEF PlacesInv
<1>6. InodesInv' /\ StoredIsWhole' /\ RecordingIsKept'
  BY <1>1, <1>2 DEF InodesInv, StoredIsWhole, RecordingIsKept
<1>7. ContentInv'
  BY <1>1, <1>2, <1>3 DEF ContentInv
<1> QED BY <1>4, <1>5, <1>6, <1>7 DEF CaptureInv

\* The end of a file in hand, whatever has become of the store: the name is free.
LEMMA FinishKeeps ==
  ASSUME CaptureInv, NEW s \in Recordings, choice[s] # "none", Finish(s)
  PROVE  /\ hashed[s] \in Hashes /\ rpc[s] = "ingest" /\ s \notin live
         /\ \A r \in Recordings : /\ hashed'[r] = (IF r = s THEN NoFile ELSE hashed[r])
                                 /\ choice'[r] = (IF r = s THEN "none" ELSE choice[r])
         /\ \A m \in Names : folder'[m] = (IF m = hashed[s].name THEN NoFile ELSE folder[m])
         /\ PlacesInv'
         /\ CaptureTypeOK' \/ ~(store' \subseteq [sha : Recordings \X Nat, inode : Recordings])
              \/ ~(disturbed' \subseteq Inodes)
<1>1. CaptureTypeOK /\ PlacesInv
  BY DEF CaptureInv
<1>2. /\ hashed' = [hashed EXCEPT ![s] = NoFile] /\ choice' = [choice EXCEPT ![s] = "none"]
      /\ folder' = [folder EXCEPT ![hashed[s].name] = NoFile]
      /\ UNCHANGED <<rpc, live, jobs, group, fd, version, scan>>
  BY DEF Finish
<1>3. hashed[s] \in Hashes /\ rpc[s] = "ingest" /\ s \notin live
  BY <1>1, CapturesAssumption DEF PlacesInv, CaptureTypeOK, OpenPlaces
<1>4. \A r \in Recordings : /\ hashed'[r] = (IF r = s THEN NoFile ELSE hashed[r])
                            /\ choice'[r] = (IF r = s THEN "none" ELSE choice[r])
  BY <1>1, <1>2 DEF CaptureTypeOK
<1>5. hashed[s].name \in Names
  BY <1>3 DEF Hashes
<1>6. \A m \in Names : folder'[m] = (IF m = hashed[s].name THEN NoFile ELSE folder[m])
  BY <1>1, <1>2, <1>5 DEF CaptureTypeOK
<1>7. PlacesInv'
  BY <1>1, <1>2, <1>4 DEF PlacesInv
<1>8. folder' \in [Names -> Inodes]
  BY <1>1, <1>2 DEF CaptureTypeOK, Inodes
<1>9. CaptureTypeOK' \/ ~(store' \subseteq [sha : Recordings \X Nat, inode : Recordings])
        \/ ~(disturbed' \subseteq Inodes)
  BY <1>1, <1>2, <1>8 DEF CaptureTypeOK
<1> QED BY <1>3, <1>4, <1>6, <1>7, <1>9

\* A duplicate is removed: what is stored under its hash has its name, and is that
\* recording if no other has the name.
LEMMA RemoveKeeps ==
  ASSUME CaptureInv, NEW s \in Recordings, IngestRemove(s)
  PROVE  CaptureInv'
<1> DEFINE n == hashed[s].name
<1>1. CaptureTypeOK /\ PlacesInv /\ InodesInv /\ ContentInv /\ StoredIsWhole /\ RecordingIsKept
  BY DEF CaptureInv
<1>2. choice[s] = "remove" /\ Finish(s) /\ UNCHANGED <<rpc, live, jobs, group, fd, version, scan, store, disturbed>>
  BY DEF IngestRemove, Finish
<1>3. /\ hashed[s] \in Hashes
      /\ \A r \in Recordings : /\ hashed'[r] = (IF r = s THEN NoFile ELSE hashed[r])
                              /\ choice'[r] = (IF r = s THEN "none" ELSE choice[r])
      /\ \A m \in Names : folder'[m] = (IF m = n THEN NoFile ELSE folder[m])
      /\ PlacesInv' /\ CaptureTypeOK'
  BY <1>1, <1>2, FinishKeeps DEF CaptureTypeOK
<1>4. InodesInv'
  <2>1. \A e \in store : folder'[NameOf[e.inode]] # e.inode
    <3> SUFFICES ASSUME NEW e \in store
                 PROVE  folder'[NameOf[e.inode]] # e.inode
      OBVIOUS
    <3>1. e.inode \in Recordings /\ folder[NameOf[e.inode]] # e.inode /\ NameOf[e.inode] \in Names
      BY <1>1, CapturesAssumption DEF CaptureTypeOK, InodesInv
    <3> QED BY <1>3, <3>1, CapturesAssumption
  <2> QED BY <1>1, <1>2, <1>3, <2>1 DEF InodesInv
<1>5. ContentInv' /\ StoredIsWhole'
  BY <1>1, <1>2, <1>3 DEF ContentInv, StoredIsWhole
<1>6. RecordingIsKept'
  <2> SUFFICES ASSUME NEW r \in Recordings, fd[r] # NoFile,
                      \A q \in Recordings \ {r} : NameOf[q] # NameOf[r], folder[NameOf[r]] = r, NameOf[r] = n
               PROVE  \E e \in store : e.inode = r
    BY <1>1, <1>2, <1>3, CapturesAssumption DEF RecordingIsKept
  <2>1. PICK e \in store : e.sha = hashed[s].sha
    BY <1>1, <1>2 DEF ContentInv
  <2>2. NameOf[hashed[s].sha[1]] = n
    BY <1>1, <1>2 DEF InodesInv, PlacesInv
  <2>3. e.inode \in Recordings /\ NameOf[e.inode] = n
    BY <1>1, <2>1, <2>2 DEF CaptureTypeOK, InodesInv
  <2> QED BY <2>1, <2>3
<1> QED BY <1>3, <1>4, <1>5, <1>6 DEF CaptureInv

\* The file in hand goes to the store, over what is there, or has been taken.
LEMMA MoveKeeps ==
  ASSUME CaptureInv, NEW s \in Recordings, IngestMove(s)
  PROVE  CaptureInv'
<1> DEFINE n == hashed[s].name
           sha == hashed[s].sha
           inode == folder[n]
           entry == [sha |-> sha, inode |-> inode]
           shared == \/ inode # sha[1]
                     \/ \E q \in Recordings \ {s} : fd[q] = inode /\
                          (q \in live \/ version[inode] # sha[2])
<1>1. CaptureTypeOK /\ PlacesInv /\ InodesInv /\ ContentInv /\ StoredIsWhole /\ RecordingIsKept
  BY DEF CaptureInv
<1>2. /\ choice[s] = "move" /\ Finish(s)
      /\ store' = IF inode = NoFile THEN store ELSE {e \in store : e.sha # sha} \cup {entry}
      /\ disturbed' = IF shared THEN disturbed \cup {inode} ELSE disturbed
      /\ UNCHANGED <<rpc, live, jobs, group, fd, version, scan>>
  BY DEF IngestMove, Finish
<1>3. /\ hashed[s] \in Hashes /\ hashed[s] # NoFile /\ s \notin live
      /\ \A r \in Recordings : /\ hashed'[r] = (IF r = s THEN NoFile ELSE hashed[r])
                              /\ choice'[r] = (IF r = s THEN "none" ELSE choice[r])
      /\ \A m \in Names : folder'[m] = (IF m = n THEN NoFile ELSE folder[m])
      /\ PlacesInv'
      /\ CaptureTypeOK' \/ ~(store' \subseteq [sha : Recordings \X Nat, inode : Recordings])
              \/ ~(disturbed' \subseteq Inodes)
  BY <1>1, <1>2, FinishKeeps DEF PlacesInv
<1>4. /\ n \in Names /\ sha \in Recordings \X Nat /\ sha[1] \in Recordings
      /\ NameOf[sha[1]] = n /\ inode \in Inodes
      /\ inode # NoFile => NameOf[inode] = n /\ inode \in Recordings /\ rpc[inode] # "new"
  <2>1. n \in Names /\ sha \in Recordings \X Nat
    BY <1>3 DEF Hashes
  <2>2. NameOf[sha[1]] = n
    BY <1>1, <1>3 DEF InodesInv
  <2> QED BY <1>1, <2>1, <2>2 DEF CaptureTypeOK, InodesInv, Inodes
<1>5. entry.sha = sha /\ entry.inode = inode
  OBVIOUS
<1>6. version[sha[1]] = sha[2] \/ \E q \in Recordings \ {s} : fd[q] = sha[1]
  BY <1>1, <1>3 DEF ContentInv
<1>8. sha = <<sha[1], sha[2]>>
  BY <1>4
<1>9. inode # NoFile => entry \in [sha : Recordings \X Nat, inode : Recordings]
  BY <1>4
<1>10. ~shared => /\ inode = sha[1] /\ version[inode] = sha[2]
                  /\ \A q \in live \cap Recordings : fd[q] # inode
  BY <1>3, <1>6
<1>11. /\ disturbed \subseteq disturbed' /\ disturbed' \subseteq Inodes
       /\ shared => inode \in disturbed'
  BY <1>1, <1>2, <1>4 DEF CaptureTypeOK
<1> HIDE DEF shared, n, sha, inode, entry
<1>14. /\ \A e \in store' : e \in store \/ (e = entry /\ inode # NoFile)
       /\ \A e \in store : e.sha # sha \/ inode = NoFile => e \in store'
       /\ inode # NoFile => entry \in store'
  BY <1>2
<1>15. CaptureTypeOK'
  BY <1>1, <1>3, <1>9, <1>11, <1>14 DEF CaptureTypeOK
<1>17. InodesInv'
  <2>1. \A e \in store' : /\ NameOf[e.sha[1]] = NameOf[e.inode] /\ rpc[e.inode] # "new"
                          /\ folder'[NameOf[e.inode]] # e.inode
    <3>1. ASSUME NEW e \in store
          PROVE  folder'[NameOf[e.inode]] # e.inode
      <4>1. e.inode \in Recordings /\ folder[NameOf[e.inode]] # e.inode /\ NameOf[e.inode] \in Names
        BY <1>1, CapturesAssumption DEF CaptureTypeOK, InodesInv
      <4> QED BY <1>3, <4>1, CapturesAssumption
    <3>2. inode # NoFile => folder'[NameOf[inode]] = NoFile
      BY <1>3, <1>4
    <3> QED BY <1>1, <1>4, <1>5, <1>14, <3>1, <3>2 DEF InodesInv
  <2>2. \A m \in Names : folder'[m] # NoFile => NameOf[folder'[m]] = m /\ rpc[folder'[m]] # "new"
    BY <1>1, <1>3 DEF InodesInv
  <2> QED BY <1>1, <1>2, <1>3, <2>1, <2>2 DEF InodesInv
<1>18. ContentInv'
  <2>1. \A e \in store' : e.inode \notin disturbed' =>
          \A q \in live \cap Recordings : fd[q] # e.inode
    BY <1>1, <1>5, <1>10, <1>11, <1>14 DEF ContentInv
  <2>2. \A r \in Recordings \ {s} : choice[r] = "remove" => \E e \in store' : e.sha = hashed[r].sha
    <3> SUFFICES ASSUME NEW r \in Recordings \ {s}, choice[r] = "remove"
                 PROVE  \E e \in store' : e.sha = hashed[r].sha
      OBVIOUS
    <3>1. PICK e \in store : e.sha = hashed[r].sha
      BY <1>1 DEF ContentInv
    <3> QED BY <1>5, <1>14, <3>1
  <2> QED BY <1>1, <1>2, <1>3, <2>1, <2>2 DEF ContentInv
<1>19. StoredIsWhole'
  BY <1>1, <1>2, <1>5, <1>8, <1>10, <1>11, <1>14 DEF StoredIsWhole
<1>20. RecordingIsKept'
  <2> SUFFICES ASSUME NEW r \in Recordings, fd[r] # NoFile,
                      \A q \in Recordings \ {r} : NameOf[q] # NameOf[r]
               PROVE  folder'[NameOf[r]] = r \/ \E e \in store' : e.inode = r
    BY <1>2 DEF RecordingIsKept
  <2>1. NameOf[r] \in Names
    BY CapturesAssumption
  <2>2. ASSUME NEW e \in store, e.inode = r
        PROVE  \E d \in store' : d.inode = r
    <3>1. e \in store' \/ (e.sha = sha /\ inode # NoFile)
      BY <1>14
    <3>2. e.sha = sha /\ inode # NoFile => r = inode
      BY <1>1, <1>4, <2>2 DEF InodesInv
    <3> QED BY <1>5, <1>14, <2>2, <3>1, <3>2
  <2>3. CASE folder[NameOf[r]] = r /\ NameOf[r] # n
    BY <1>3, <2>1, <2>3 DEF n
  <2>4. CASE folder[NameOf[r]] = r /\ NameOf[r] = n
    <3>1. inode = r /\ r # NoFile
      BY <2>4, CapturesAssumption DEF inode
    <3> QED BY <1>5, <1>14, <3>1
  <2> QED BY <1>1, <2>2, <2>3, <2>4 DEF RecordingIsKept
<1> QED BY <1>3, <1>15, <1>17, <1>18, <1>19, <1>20 DEF CaptureInv

LEMMA CaptureNextInv == CaptureInv /\ [CaptureNext]_captureVars => CaptureInv'
<1> SUFFICES ASSUME CaptureInv, [CaptureNext]_captureVars
             PROVE  CaptureInv'
  OBVIOUS
<1>1. CaptureTypeOK /\ PlacesInv
  BY DEF CaptureInv
<1> USE CapturesAssumption DEF Go
<1>2. CASE UNCHANGED captureVars
  <2>1. CaptureTypeOK' /\ PlacesInv'
    BY <1>1, <1>2 DEF captureVars, CaptureTypeOK, PlacesInv
  <2> QED BY <1>2, <2>1, FilesAlone DEF captureVars, fileVars
<1>3. ASSUME NEW s \in Recordings \cup Captors,
             \/ RefuseStart(s) /\ s \in Recordings /\ jobs' = jobs
                /\ (group' = group \/ (s \notin Routed /\ group' = "stop"))
             \/ s \in Routed /\ (RouteRegister(s) \/ RouteStop(s))
             \/ s \in Recordings /\ (FfmpegEnds(s) \/ IngestDone(s))
             \/ s \in Captors /\ (ReaderOpen(s) \/ ReaderEnds(s))
             \/ (GroupWaited \/ GroupOver \/ \E i \in DOMAIN Group : GroupStop(i))
      PROVE  CaptureInv'
  <2>1. UNCHANGED fileVars /\ \A r \in Recordings : rpc[r] # "new" => rpc'[r] # "new"
    BY <1>1, <1>3
    DEF CaptureTypeOK, RefuseStart, RouteRegister, RouteStop, FfmpegEnds, IngestDone, ReaderOpen,
        ReaderEnds, GroupWaited, GroupOver, GroupStop
  <2>2. live' \cap Recordings \subseteq live
    BY <1>1, <1>3
    DEF RefuseStart, RouteRegister, RouteStop, FfmpegEnds, IngestDone, ReaderOpen,
        ReaderEnds, GroupWaited, GroupOver, GroupStop
  <2>3. CaptureTypeOK'
    <3>1. /\ rpc \in [Recordings \cup Captors -> RecPlaces \cup {"loop"}]
          /\ live \subseteq Recordings \cup Captors /\ jobs \subseteq Routed
          /\ \A i \in DOMAIN Group : Group[i] \in Recordings
          /\ Routed \subseteq Recordings
      BY <1>1 DEF CaptureTypeOK, Recordings
    <3>2. /\ rpc' \in [Recordings \cup Captors -> RecPlaces \cup {"loop"}]
          /\ live' \subseteq Recordings \cup Captors /\ jobs' \subseteq Routed
      <4>1. CASE RefuseStart(s) /\ s \in Recordings /\ jobs' = jobs
        BY <3>1, <4>1 DEF RefuseStart, RecPlaces, OpenPlaces
      <4>2. CASE s \in Routed /\ (RouteRegister(s) \/ RouteStop(s))
        BY <3>1, <4>2 DEF RouteRegister, RouteStop, RecPlaces, OpenPlaces
      <4>3. CASE s \in Recordings /\ (FfmpegEnds(s) \/ IngestDone(s))
        BY <3>1, <4>3 DEF FfmpegEnds, IngestDone, RecPlaces, OpenPlaces
      <4>4. CASE s \in Captors /\ (ReaderOpen(s) \/ ReaderEnds(s))
        BY <3>1, <4>4 DEF ReaderOpen, ReaderEnds, RecPlaces, OpenPlaces
      <4>5. CASE GroupWaited \/ GroupOver \/ \E i \in DOMAIN Group : GroupStop(i)
        BY <3>1, <4>5 DEF GroupWaited, GroupOver, GroupStop, RecPlaces, OpenPlaces
      <4> QED BY <1>3, <4>1, <4>2, <4>3, <4>4, <4>5
    <3> QED BY <1>1, <2>1, <3>2 DEF CaptureTypeOK, fileVars
  <2>4. PlacesInv'
    <3> USE <1>1 DEF PlacesInv, CaptureTypeOK
    <3>1. UNCHANGED <<scan, hashed, choice, fd>> /\ \A i \in DOMAIN Group : Group[i] \in Recordings
      BY <2>1 DEF fileVars, Recordings
    <3>2. CASE RefuseStart(s) /\ s \in Recordings /\ jobs' = jobs
               /\ (group' = group \/ (s \notin Routed /\ group' = "stop"))
      BY <3>1, <3>2 DEF RefuseStart, OpenPlaces
    <3>3. CASE s \in Routed /\ (RouteRegister(s) \/ RouteStop(s))
      BY <3>1, <3>3 DEF RouteRegister, RouteStop, OpenPlaces, Recordings
    <3>4. CASE s \in Recordings /\ (FfmpegEnds(s) \/ IngestDone(s))
      <4>1. CASE FfmpegEnds(s)
        BY <3>1, <3>4, <4>1 DEF FfmpegEnds
      <4>2. CASE IngestDone(s)
        <5>1. s \in Recordings /\ s \notin Captors /\ s \notin jobs /\ s \notin live
          BY <3>4, <4>2 DEF IngestDone, OpenPlaces
        <5>2. \A r \in Recordings \cup Captors : rpc'[r] = (IF r = s THEN "over" ELSE rpc[r])
          BY <4>2 DEF IngestDone
        <5> QED BY <3>1, <4>2, <5>1, <5>2 DEF IngestDone, Recordings
      <4> QED BY <3>4, <4>1, <4>2
    <3>5. CASE s \in Captors /\ (ReaderOpen(s) \/ ReaderEnds(s))
      BY <3>1, <3>5 DEF ReaderOpen, ReaderEnds, OpenPlaces, Recordings
    <3>6. CASE GroupWaited
      BY <3>1, <3>6 DEF GroupWaited
    <3>7. CASE GroupOver
      BY <3>1, <3>7 DEF GroupOver, OpenPlaces
    <3>8. ASSUME NEW i \in DOMAIN Group, GroupStop(i)
          PROVE  PlacesInv'
      BY <3>1, <3>8 DEF GroupStop, OpenPlaces, Recordings
    <3> QED BY <1>3, <3>2, <3>3, <3>4, <3>5, <3>6, <3>7, <3>8
  <2> QED BY <2>1, <2>2, <2>3, <2>4, FilesAlone
<1>4. ASSUME NEW s \in Recordings, RouteStart(s)
      PROVE  CaptureInv'
  <2>1. CASE StartRecorder(s) /\ Go(s, "started")
    <3>1. group' = "over" => \A i \in DOMAIN Group : Group[i] \notin live \cup {s}
      BY <1>1, <1>4 DEF RouteStart, PlacesInv
    <3> QED BY <1>4, <2>1, <3>1, StartKeeps DEF RouteStart
  <2>2. CASE RefuseStart(s)
    BY <1>3, <1>4, <2>2 DEF RouteStart
  <2> QED BY <1>4, <2>1, <2>2 DEF RouteStart
<1>5. ASSUME NEW i \in DOMAIN Group, GroupStart(i)
      PROVE  CaptureInv'
  <2>1. Group[i] \in Recordings /\ Group[i] \notin Routed
    BY DEF Recordings
  <2>2. CASE StartRecorder(Group[i]) /\ Go(Group[i], "recording")
    BY <1>5, <2>1, <2>2, StartKeeps DEF GroupStart, RefuseStart
  <2>3. CASE RefuseStart(Group[i]) /\ group' = "stop"
    BY <1>3, <1>5, <2>1, <2>3 DEF GroupStart
  <2> QED BY <1>5, <2>2, <2>3 DEF GroupStart
<1>6. ASSUME NEW s \in Recordings, RecorderStep(s)
      PROVE  CaptureInv'
  <2>1. CASE RouteRegister(s)
    BY <1>3, <2>1 DEF RouteRegister
  <2> QED BY <1>3, <1>6, <2>1, StopKeeps, HashKeeps, DestKeeps, RemoveKeeps, MoveKeeps DEF RecorderStep
<1>7. Witness[1] \in Captors /\ Witness[2] \in Captors /\ Readers \subseteq Captors
  BY DEF Captors
<1>8. CASE WitnessOpen \/ WitnessEnds \/ \E s \in Readers : ReaderOpen(s) \/ ReaderEnds(s)
  <2>1. \E s \in Captors : ReaderOpen(s) \/ ReaderEnds(s)
    BY <1>7, <1>8 DEF WitnessOpen, WitnessEnds
  <2> QED BY <1>3, <2>1
<1>9. ASSUME NEW s \in Recordings, RouteStop(s) \/ WriteFrames(s) \/ FfmpegEnds(s)
      PROVE  CaptureInv'
  <2>1. RouteStop(s) => s \in Routed
    BY <1>1 DEF RouteStop, CaptureTypeOK
  <2> QED BY <1>3, <1>9, <2>1, WriteKeeps
<1>10. CASE GroupStep
  <2>1. Witness[1] \in Recordings \cup Captors
    BY <1>7
  <2> QED BY <1>3, <1>5, <1>10, <2>1 DEF GroupStep
<1> QED
  BY <1>2, <1>4, <1>6, <1>8, <1>9, <1>10 DEF CaptureNext

\* What has ended holds no device, whichever recordings of whichever group failed to
\* start (record, record_multiple, start_recording_hw, FrameCapture).
THEOREM DevicesAreReleased == CaptureInit /\ [][CaptureNext]_captureVars => []NothingStaysOpen
<1>1. CaptureInv => NothingStaysOpen
  BY DEF CaptureInv, PlacesInv, NothingStaysOpen, OpenPlaces
<1> QED BY CaptureInitInv, CaptureNextInv, <1>1, PTL

\* A stored file has the content of its hash, for any number of recordings and of
\* names, unless another recording had to do with it (stop_recording, ingest_folder).
THEOREM StoredFilesAreWhole == CaptureInit /\ [][CaptureNext]_captureVars => []StoredIsWhole
<1>1. CaptureInv => StoredIsWhole
  BY DEF CaptureInv
<1> QED BY CaptureInitInv, CaptureNextInv, <1>1, PTL

\* No stop of another recording loses a file of its own name (ingest_folder).
THEOREM RecordingsAreKept == CaptureInit /\ [][CaptureNext]_captureVars => []RecordingIsKept
<1>1. CaptureInv => RecordingIsKept
  BY DEF CaptureInv
<1> QED BY CaptureInitInv, CaptureNextInv, <1>1, PTL
=============================================================================
