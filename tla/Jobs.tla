--------------------------------- MODULE Jobs ---------------------------------
(***************************************************************************)
(* Batch jobs of the stdlib server (video/server.py): POST /batches makes a *)
(* record and starts a worker thread, which updates the record under a lock *)
(* and makes one command line call per file and one for the batch; DELETE   *)
(* and the clean-up thread remove records, also those of running workers.   *)
(* Other handlers make command line calls of their own.                     *)
(***************************************************************************)
EXTENDS CliCall, Naturals

CONSTANTS
  MaxJobs,  \* bound: jobs posted
  MaxFiles, \* bound: files of a job
  MaxCalls  \* bound: calls of other handlers

JobIds == 1 .. MaxJobs
Handlers == Callers \ JobIds

ASSUME JobsAssumption == JobIds \subseteq Callers
ASSUME BoundsAssumption == {MaxJobs, MaxFiles, MaxCalls} \subseteq Nat

VARIABLES
  jobs,     \* _jobs: per id a record, or None
  posted,   \* ids handed out so far
  calls,    \* calls of other handlers so far
  workPc,   \* per job: where its worker thread is
  total,    \* per job: number of its files
  skip,     \* per job: skip_transcode
  file      \* per job: the file its worker is at

workVars == <<workPc, total, skip, file>>
vars == <<callVars, jobs, posted, calls, workVars>>

Statuses == {"pending", "transcoding", "creating_batch", "completed", "error"}
Settled == {"completed", "error"}
WorkPcs == {"none", "begin", "file", "transcode", "create", "finish", "failed", "end"}

Exists(j) == jobs[j] # None

Init ==
  /\ CallInit
  /\ jobs = [j \in JobIds |-> None] /\ posted = 0 /\ calls = 0
  /\ workPc = [j \in JobIds |-> "none"]
  /\ total = [j \in JobIds |-> 0]
  /\ skip = [j \in JobIds |-> FALSE]
  /\ file = [j \in JobIds |-> 0]

-----------------------------------------------------------------------------
(* Requests. *)

\* POST /batches: the record, then the thread.
PostBatch(n, s) ==
  LET j == posted + 1
  IN  /\ posted < MaxJobs
      /\ posted' = j
      /\ jobs' = [jobs EXCEPT ![j] = [status |-> "pending", processed |-> 0]]
      /\ total' = [total EXCEPT ![j] = n]
      /\ skip' = [skip EXCEPT ![j] = s]
      /\ file' = [file EXCEPT ![j] = 1]
      /\ workPc' = [workPc EXCEPT ![j] = "begin"]
      /\ UNCHANGED <<callVars, calls>>

\* DELETE /jobs/<id>, whatever its worker is doing.
DeleteJob(j) ==
  /\ Exists(j)
  /\ jobs' = [jobs EXCEPT ![j] = None]
  /\ UNCHANGED <<callVars, posted, calls, workVars>>

\* cleanup_old_jobs: all records older than an hour. Ids follow the time of
\* creation.
Cleanup(k) ==
  /\ \E j \in 1 .. k : Exists(j)
  /\ jobs' = [j \in JobIds |-> IF j <= k THEN None ELSE jobs[j]]
  /\ UNCHANGED <<callVars, posted, calls, workVars>>

\* GET /batches, POST /cli and the like.
HandlerStep(h) ==
  /\ \/ Save(h) /\ calls < MaxCalls /\ calls' = calls + 1
     \/ (CallStep(h) \/ Restore(h)) /\ UNCHANGED calls
  /\ UNCHANGED <<jobs, posted, workVars>>

-----------------------------------------------------------------------------
(* _process_batch. Every access to a record that is gone raises KeyError. *)

Goto(j, to) == workPc' = [workPc EXCEPT ![j] = to]

\* Set the record's status and progress and go on, or fail if it is gone.
Record(j, status, processed, to) ==
  IF Exists(j)
  THEN /\ jobs' = [jobs EXCEPT ![j] = [status |-> status, processed |-> processed]]
       /\ Goto(j, to)
  ELSE Goto(j, "failed") /\ UNCHANGED jobs

Begin(j) ==
  /\ workPc[j] = "begin"
  /\ Record(j, IF skip[j] THEN "creating_batch" ELSE "transcoding", 0, "file")
  /\ UNCHANGED <<callVars, posted, calls, total, skip, file>>

\* The loop over the files: note the progress, make the _INCOMING directory,
\* which may fail the job.
StartFile(j) ==
  /\ workPc[j] = "file" /\ ~skip[j] /\ file[j] <= total[j]
  /\ \/ Record(j, "transcoding", file[j] - 1, "transcode")
     \/ Record(j, "transcoding", file[j] - 1, "failed")
  /\ UNCHANGED <<callVars, posted, calls, total, skip, file>>

StartCreate(j) ==
  /\ workPc[j] = "file" /\ (skip[j] \/ file[j] > total[j])
  /\ Record(j, "creating_batch", IF Exists(j) THEN jobs[j].processed ELSE 0, "create")
  /\ UNCHANGED <<callVars, posted, calls, total, skip, file>>

\* The command line calls; what a transcode call returns is not looked at, nor that it
\* raised. A call for the batch that raises fails the job; so does json.loads on
\* anything but one result, like a record that is gone.
AfterCall(j) ==
  IF workPc[j] = "transcode" THEN "file"
  ELSE IF returned[j] \in Callers THEN "finish" ELSE "failed"

WorkerCall(j) ==
  /\ workPc[j] \in {"transcode", "create"}
  /\ \/ (Save(j) \/ CallStep(j)) /\ UNCHANGED <<workPc, file>>
     \/ /\ Restore(j)
        /\ Goto(j, AfterCall(j))
        /\ file' = [file EXCEPT ![j] = @ + 1]
  /\ UNCHANGED <<jobs, posted, calls, total, skip>>

Finish(j) ==
  /\ workPc[j] = "finish"
  /\ Record(j, "completed", total[j], "end")
  /\ UNCHANGED <<callVars, posted, calls, total, skip, file>>

\* Faults: the record is written anew instead of updated; or not at all.
FailedAnew(j) ==
  /\ workPc[j] = "failed"
  /\ jobs' = [jobs EXCEPT ![j] = [status |-> "error", processed |-> 0]]
  /\ Goto(j, "end")
  /\ UNCHANGED <<callVars, posted, calls, total, skip, file>>
FailedQuietly(j) ==
  /\ workPc[j] = "failed"
  /\ Goto(j, "end")
  /\ UNCHANGED <<callVars, jobs, posted, calls, total, skip, file>>

\* except: a KeyError here ends the thread.
Failed(j) ==
  /\ workPc[j] = "failed"
  /\ Goto(j, "end")
  /\ jobs' = IF Exists(j) THEN [jobs EXCEPT ![j].status = "error"] ELSE jobs
  /\ UNCHANGED <<callVars, posted, calls, total, skip, file>>

WorkerStep(j) ==
  Begin(j) \/ StartFile(j) \/ StartCreate(j) \/ WorkerCall(j) \/ Finish(j) \/ Failed(j)

-----------------------------------------------------------------------------
Next ==
  \/ \E n \in 1 .. MaxFiles, s \in BOOLEAN : PostBatch(n, s)
  \/ \E j \in JobIds : DeleteJob(j) \/ Cleanup(j) \/ WorkerStep(j)
  \/ \E h \in Handlers : HandlerStep(h)

Spec == Init /\ [][Next]_vars

\* Started threads run.
FairSpec == Spec /\ \A j \in JobIds : WF_vars(WorkerStep(j))

-----------------------------------------------------------------------------
(* Properties. *)

JobRecord == [status : Statuses, processed : 0 .. MaxFiles]

TypeOK ==
  /\ CallTypeOK
  /\ jobs \in [JobIds -> JobRecord \cup {None}]
  /\ posted \in 0 .. MaxJobs /\ calls \in 0 .. MaxCalls
  /\ workPc \in [JobIds -> WorkPcs]
  /\ total \in [JobIds -> 0 .. MaxFiles]
  /\ skip \in [JobIds -> BOOLEAN]
  /\ file \in [JobIds -> 0 .. MaxFiles + 2]

\* A worker never brings back a job that was deleted or cleaned up while it
\* was running, whatever it was doing and whether it fails or succeeds; and what
\* a client sees of a job that exists only moves forward: the progress never
\* falls and is complete only for a completed job, and a final status is final.
JobsMoveForward ==
  [][/\ \A j \in 1 .. posted : ~Exists(j) => jobs'[j] = None
     /\ \A j \in JobIds : Exists(j) /\ jobs'[j] # None =>
       /\ jobs[j].processed <= jobs'[j].processed
       /\ jobs'[j].processed = total'[j] => jobs'[j].status = "completed"
       /\ jobs[j].status \in Settled => jobs'[j] = jobs[j]]_vars

\* No job stays unfinished: its record gets a final status or is removed.
JobsSettle ==
  \A j \in JobIds : j <= posted ~> ~Exists(j) \/ jobs[j].status \in Settled
=============================================================================
