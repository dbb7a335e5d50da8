------------------------------ MODULE MCServices ------------------------------
(* The parts of the video package around the database, the server and the      *)
(* recordings, each on a small instance: one of them is chosen in the initial    *)
(* state and runs alone.                                                      *)
EXTENDS Copies, Snapshots, Batches, Lifecycle, NetPaths, FrameTools, Commands, TLC

CONSTANTS a1, a2, f1, p1, p2, s1, s2, t1, t2, t3, q1, q2

MCTarget == a1 :> p1 @@ a2 :> p1 @@ f1 :> p2  \* two assets of one second
MCRecorded == a1 :> s1 @@ a2 :> s2 @@ f1 :> s1  \* the file is in the album too
MCProcessOf == t1 :> q1 @@ t2 :> q1 @@ t3 :> q2

VARIABLE part

Init ==
  /\ part \in {"copies", "snapshots", "batches", "lifecycle", "paths", "frames", "commands"}
  /\ CopyInit /\ SnapInit /\ BatchInit /\ LifeInit /\ NetInit /\ FrameInit /\ CommandInit
  /\ part # "lifecycle" => broker
  /\ part # "paths" => cfgFile = NoSection
  /\ part # "frames" => film = <<>> /\ tool = "opencv" /\ span = 0
  /\ part # "commands" => disk = {}

vars == <<part, copyVars, snapVars, batchVars, lifeVars, netVars, frameVars, commandVars>>

CopyPart == part = "copies" /\ CopyNext /\ UNCHANGED <<part, snapVars, batchVars, lifeVars, netVars, frameVars, commandVars>>
SnapPart == part = "snapshots" /\ SnapNext /\ UNCHANGED <<part, copyVars, batchVars, lifeVars, netVars, frameVars, commandVars>>
BatchPart == part = "batches" /\ BatchNext /\ UNCHANGED <<part, copyVars, snapVars, lifeVars, netVars, frameVars, commandVars>>
LifePart == part = "lifecycle" /\ LifeNext /\ UNCHANGED <<part, copyVars, snapVars, batchVars, netVars, frameVars, commandVars>>
NetPart == part = "paths" /\ NetNext /\ UNCHANGED <<part, copyVars, snapVars, batchVars, lifeVars, frameVars, commandVars>>
FramePart == part = "frames" /\ FrameNext /\ UNCHANGED <<part, copyVars, snapVars, batchVars, lifeVars, netVars, commandVars>>
CommandPart == part = "commands" /\ CommandNext /\ UNCHANGED <<part, copyVars, snapVars, batchVars, lifeVars, netVars, frameVars>>

Next == CopyPart \/ SnapPart \/ BatchPart \/ LifePart \/ NetPart \/ FramePart \/ CommandPart

\* A request's thread takes its batch through to the end; requests need not come.
Fairness == \A r \in Requests : WF_batchVars(part = "batches" /\ Process(r))

Spec == Init /\ [][Next]_vars /\ Fairness
=============================================================================
