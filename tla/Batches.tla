------------------------------- MODULE Batches -------------------------------
(***************************************************************************)
(* Batches of video/core: every request builds a batch (core/factory.py) and *)
(* takes it through the pipeline's process_batch in its own thread, while    *)
(* other threads ask for its manifest. The pipeline's lock guards the table  *)
(* of batches, not the batches. A batch counts its videos by how they ended; *)
(* its state is set by the events that it emits to itself.                   *)
(***************************************************************************)
EXTENDS Naturals, FiniteSets

CONSTANTS Requests, Videos  \* videos a request may name
ASSUME BatchesAssumption == IsFiniteSet(Videos)

VARIABLES
  phase,      \* per request: "new", "built", "loop", "done", "none" or "error"
  videos,     \* the batch's videos
  state,      \* the batch's state
  processed, failed,  \* its counters
  todo,       \* process_batch: videos it has not taken yet
  active,     \* the pipeline's table
  asked       \* the last answer to get_manifest

batchVars == <<phase, videos, state, processed, failed, todo, active, asked>>

BatchInit ==
  /\ phase = [r \in Requests |-> "new"] /\ state = [r \in Requests |-> "created"]
  /\ videos = [r \in Requests |-> {}] /\ todo = videos
  /\ processed = [r \in Requests |-> 0] /\ failed = processed
  /\ active = {} /\ asked = [r \in Requests |-> "unknown"]

\* Fault: the comparison is off by one.
AppliedEarly(event, r, done) ==
  CASE event = "processing_failed" -> "failed"
    [] event = "processing_completed" /\ done + 1 >= Cardinality(videos[r]) -> "completed"
    [] OTHER -> state[r]

\* _apply: an event that reports a video as completed ends the batch when the
\* counters have reached the total.
Applied(event, r, done) ==
  CASE event = "processing_failed" -> "failed"
    [] event = "processing_completed" /\ done = Cardinality(videos[r]) -> "completed"
    [] OTHER -> state[r]

\* create_batch_from_api, _from_folder, _from_cli, _from_ios: one video for each
\* upload or file.
Build(r, vs) ==
  /\ phase[r] = "new"
  /\ phase' = [phase EXCEPT ![r] = "built"] /\ videos' = [videos EXCEPT ![r] = vs]
  /\ UNCHANGED <<state, processed, failed, todo, active, asked>>

\* set_source_data reads the file to hash it; one that cannot be read makes the
\* whole request fail.
BuildFails(r) ==
  /\ phase[r] = "new" /\ Videos # {}
  /\ phase' = [phase EXCEPT ![r] = "error"]
  /\ UNCHANGED <<videos, state, processed, failed, todo, active, asked>>

\* auto_group, and with it process_flat, makes no batch of no artefacts; for others
\* it gives BatchArtifact no id: TypeError.
Group(r) ==
  /\ phase[r] = "new"
  /\ \E end \in {"none", "error"} : phase' = [phase EXCEPT ![r] = end]
  /\ UNCHANGED <<videos, state, processed, failed, todo, active, asked>>

\* process_batch registers the batch and starts it, unless it is empty.
Start(r) ==
  /\ phase[r] = "built"
  /\ active' = active \cup {r}
  /\ IF videos[r] = {}
     THEN phase' = [phase EXCEPT ![r] = "done"] /\ UNCHANGED <<state, todo>>
     ELSE /\ phase' = [phase EXCEPT ![r] = "loop"]
          /\ state' = [state EXCEPT ![r] = "processing"]
          /\ todo' = [todo EXCEPT ![r] = videos[r]]
  /\ UNCHANGED <<videos, processed, failed, asked>>

Take(r, v) ==
  /\ phase[r] = "loop" /\ v \in todo[r]
  /\ todo' = [todo EXCEPT ![r] = @ \ {v}]
  /\ UNCHANGED <<phase, videos, active, asked>>

\* complete_video
Complete(r, v) ==
  /\ Take(r, v)
  /\ processed' = [processed EXCEPT ![r] = @ + 1]
  /\ state' = [state EXCEPT ![r] = Applied("processing_completed", r, processed[r] + 1 + failed[r])]
  /\ UNCHANGED failed

\* Fault: a failure that is not caught ends the thread.
FailEscapes(r, v) ==
  /\ phase[r] = "loop" /\ v \in todo[r]
  /\ phase' = [phase EXCEPT ![r] = "error"] /\ state' = [state EXCEPT ![r] = "failed"]
  /\ UNCHANGED <<videos, processed, failed, todo, active, asked>>

\* fail_video: the worker raises. The default worker always does, for want of a
\* frame_rate on VideoArtifact.
FailVideo(r, v) ==
  /\ Take(r, v)
  /\ failed' = [failed EXCEPT ![r] = @ + 1]
  /\ state' = [state EXCEPT ![r] = Applied("processing_failed", r, 0)]
  /\ UNCHANGED processed

Finalize(r) ==
  /\ phase[r] = "loop" /\ todo[r] = {}
  /\ phase' = [phase EXCEPT ![r] = "done"] /\ state' = [state EXCEPT ![r] = "completed"]
  /\ UNCHANGED <<videos, processed, failed, todo, active, asked>>

\* get_manifest: to_dict asks each video for its meta data's to_dict, which
\* VideoMetaContainer lacks; only an empty batch has a manifest.
GetManifest(r) ==
  /\ asked' = [asked EXCEPT ![r] =
       IF r \notin active THEN "unknown" ELSE IF videos[r] = {} THEN state[r] ELSE "error"]
  /\ UNCHANGED <<phase, videos, state, processed, failed, todo, active>>

Process(r) == Start(r) \/ Finalize(r) \/ \E v \in Videos : Complete(r, v) \/ FailVideo(r, v)

BatchNext ==
  \E r \in Requests : Process(r) \/ BuildFails(r) \/ Group(r) \/ GetManifest(r) \/ \E vs \in SUBSET Videos : Build(r, vs)

-----------------------------------------------------------------------------
\* A batch says that it is completed only when each of its videos has been
\* taken and counted once.
CompletedIsAll ==
  \A r \in Requests : state[r] = "completed" =>
    todo[r] = {} /\ processed[r] + failed[r] = Cardinality(videos[r])

\* A batch that was started is finished, also when all its videos fail: its
\* last state is "completed", whatever came before.
EveryBatchEnds ==
  \A r \in Requests : phase[r] = "loop" ~> (phase[r] = "done" /\ state[r] = "completed")
=============================================================================
