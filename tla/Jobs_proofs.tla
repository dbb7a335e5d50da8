----------------------------- MODULE Jobs_proofs -----------------------------
(* Machine-checked proofs about in-process command line calls and batch jobs,   *)
(* for any number of threads, jobs and files; about what becomes of a command on  *)
(* its way through dispatch; and about the tools that choose frames of a film,    *)
(* whatever its length.                                                       *)
EXTENDS Jobs, Commands, FrameTools,
  SequenceTheorems, FiniteSetTheorems, WellFoundedInduction, TLAPS

-----------------------------------------------------------------------------
(* Calls. *)

\* A buffer that is sys.stdout, or is to be put back, is that of a call in
\* progress, and no call puts its own buffer back.
BuffersAreLive ==
  \A c \in Callers :
    /\ orig[c] \in Callers => Inside(orig[c]) /\ orig[c] # c
    /\ Inside(c) => orig[c] # None
    /\ ~Inside(c) => text[c] = None

\* A call that no other has overlapped is alone and has the steps behind it that
\* it has made.
LoneCall(c) ==
  /\ \A d \in Callers \ {c} : ~Inside(d)
  /\ callPc[c] \in {"redirect", "print"} => text[c] = None
  /\ callPc[c] = "print" => stdout = c
  /\ callPc[c] = "getvalue" => text[c] = c
  /\ callPc[c] = "restore" => returned[c] = c

CallInv ==
  /\ CallTypeOK /\ BuffersAreLive
  /\ \A c \in Callers : Inside(c) /\ ~shared[c] => LoneCall(c)

LEMMA CallInitInv == CallInit => CallInv
BY CallersAssumption, PlacesAssumption
DEF CallInit, CallInv, CallTypeOK, BuffersAreLive, Inside, CallPcs

LEMMA CallNextInv ==
  ASSUME CallInv, NEW c \in Callers, Save(c) \/ CallStep(c) \/ Restore(c)
  PROVE  CallInv'
<1> USE CallersAssumption, PlacesAssumption
    DEF CallInv, CallTypeOK, BuffersAreLive, Inside, CallPcs, LoneCall
<1>1. CASE Save(c)
  BY <1>1 DEF Save
<1>2. CASE Redirect(c)
  BY <1>2 DEF Redirect
<1>3. CASE PrintResult(c)
  BY <1>3 DEF PrintResult
<1>4. CASE GetValue(c)
  BY <1>4 DEF GetValue
<1>5. CASE CallRaises(c)
  BY <1>5 DEF CallRaises
<1>6. CASE Restore(c)
  BY <1>6 DEF Restore
<1> QED BY <1>1, <1>2, <1>3, <1>4, <1>5, <1>6 DEF CallStep

-----------------------------------------------------------------------------
(* Jobs. *)

\* Where a worker is bounds the file it is at.
FileOK(j) ==
  /\ workPc[j] = "begin" => file[j] = 1
  /\ workPc[j] \in {"file", "create"} => file[j] \in 1 .. total[j] + 1
  /\ workPc[j] = "transcode" => file[j] \in 1 .. total[j]
  /\ workPc[j] \in {"finish", "failed", "end"} => file[j] \in 1 .. total[j] + 2
  /\ workPc[j] # "none" => total[j] # 0

\* A job that is being worked on is not settled and has a file to come; one whose
\* worker has ended has come through its files only if it is completed.
RecordOK(j) ==
  /\ workPc[j] = "none" <=> j > posted
  /\ j > posted => jobs[j] = None
  /\ Exists(j) /\ workPc[j] # "end" =>
       /\ jobs[j].status \notin Settled /\ jobs[j].processed < total[j]
       /\ workPc[j] \in {"begin", "file", "transcode"} => jobs[j].processed <= file[j] - 1
  /\ Exists(j) /\ workPc[j] = "end" /\ jobs[j].processed = total[j] => jobs[j].status = "completed"

JobInv == CallInv /\ TypeOK /\ \A j \in JobIds : FileOK(j) /\ RecordOK(j)

LEMMA JobConstants == MaxJobs \in Nat /\ MaxFiles \in Nat /\ MaxCalls \in Nat /\ JobIds \subseteq Callers
BY JobsAssumption, BoundsAssumption

LEMMA JobInitInv == Init => JobInv
BY CallInitInv, JobConstants
DEF Init, JobInv, CallInv, TypeOK, FileOK, RecordOK, Exists, JobIds, WorkPcs

\* A worker's step writes its own record, or nothing when that is gone.
LEMMA WorkerKeeps ==
  ASSUME JobInv, NEW j \in JobIds, CallInv', UNCHANGED <<posted, calls, total, skip>>,
         NEW to \in WorkPcs \ {"none"}, workPc[j] # "none", workPc' = [workPc EXCEPT ![j] = to],
         NEW f \in 0 .. MaxFiles + 2, file' = [file EXCEPT ![j] = f],
         NEW r \in JobRecord \cup {None}, jobs' = [jobs EXCEPT ![j] = r],
         FileOK(j)', jobs[j] = None => r = None,
         r # None /\ to # "end" =>
           /\ r.status \notin Settled /\ r.processed < total[j]
           /\ to \in {"begin", "file", "transcode"} => r.processed <= f - 1,
         r # None /\ to = "end" /\ r.processed = total[j] => r.status = "completed"
  PROVE  JobInv'
<1>1. TypeOK'
  BY DEF JobInv, TypeOK, CallInv
<1>2. /\ jobs'[j] = r /\ workPc'[j] = to /\ file'[j] = f
      /\ \A i \in JobIds \ {j} : jobs'[i] = jobs[i] /\ workPc'[i] = workPc[i] /\ file'[i] = file[i]
  BY DEF JobInv, TypeOK
<1>3. \A i \in JobIds \ {j} : FileOK(i)' /\ RecordOK(i)'
  BY <1>2 DEF JobInv, FileOK, RecordOK, Exists
<1>4. RecordOK(j)'
  BY <1>2 DEF JobInv, RecordOK, Exists
<1> QED BY <1>1, <1>3, <1>4 DEF JobInv

\* A step that sets the record, or fails for want of one.
LEMMA RecordKeeps ==
  ASSUME JobInv, NEW j \in JobIds, UNCHANGED <<callVars, posted, calls, total, skip, file>>,
         NEW st \in Statuses, NEW p \in 0 .. MaxFiles, NEW to \in WorkPcs \ {"none"},
         workPc[j] # "none", Record(j, st, p, to),
         to \in {"file", "create"} => file[j] \in 1 .. total[j] + 1,
         to = "transcode" => file[j] \in 1 .. total[j],
         to # "begin", file[j] \in 1 .. total[j] + 2,
         to # "end" => st \notin Settled /\ p < total[j], to = "end" => st = "completed",
         to \in {"file", "transcode"} => p <= file[j] - 1
  PROVE  JobInv'
<1>1. CallInv'
  BY DEF JobInv, callVars, CallInv, CallTypeOK, BuffersAreLive, LoneCall, Inside
<1>2. /\ file' = [file EXCEPT ![j] = file[j]] /\ file[j] \in 0 .. MaxFiles + 2
      /\ jobs \in [JobIds -> JobRecord \cup {None}] /\ workPc \in [JobIds -> WorkPcs]
      /\ total \in [JobIds -> 0 .. MaxFiles] /\ total[j] # 0 /\ total' = total
  BY DEF JobInv, TypeOK, FileOK
<1>3. CASE Exists(j)
  <2> DEFINE r == [status |-> st, processed |-> p]
  <2>1. r \in JobRecord /\ r.status = st /\ r.processed = p
    BY DEF JobRecord
  <2>2. jobs' = [jobs EXCEPT ![j] = r] /\ workPc' = [workPc EXCEPT ![j] = to]
    BY <1>3 DEF Record, Goto
  <2>3. FileOK(j)'
    BY <1>2, <2>2 DEF FileOK
  <2> HIDE DEF r
  <2> QED BY <1>1, <1>2, <1>3, <2>1, <2>2, <2>3, WorkerKeeps DEF Exists
<1>4. CASE ~Exists(j)
  <2>1. workPc' = [workPc EXCEPT ![j] = "failed"] /\ jobs' = [jobs EXCEPT ![j] = None]
    BY <1>2, <1>4 DEF Record, Goto, Exists
  <2>2. FileOK(j)'
    BY <1>2, <2>1 DEF FileOK
  <2> QED BY <1>1, <1>2, <1>4, <2>1, <2>2, WorkerKeeps DEF Exists, WorkPcs
<1> QED BY <1>3, <1>4

\* What the invariant says of the job of a worker.
LEMMA WorkerFacts ==
  ASSUME JobInv, NEW j \in JobIds
  PROVE  /\ total[j] \in 0 .. MaxFiles /\ file[j] \in 0 .. MaxFiles + 2 /\ MaxFiles \in Nat
         /\ FileOK(j) /\ RecordOK(j) /\ workPc[j] \in WorkPcs
         /\ Exists(j) => jobs[j].status \in Statuses /\ jobs[j].processed \in 0 .. MaxFiles
BY JobConstants DEF JobInv, TypeOK, Exists, JobRecord

LEMMA BeginKeeps == ASSUME JobInv, NEW j \in JobIds, Begin(j) PROVE JobInv'
<1> DEFINE st == IF skip[j] THEN "creating_batch" ELSE "transcoding"
<1>1. st \in Statuses \ Settled
  BY DEF Statuses, Settled
<1>2. /\ workPc[j] = "begin" /\ Record(j, st, 0, "file")
      /\ UNCHANGED <<callVars, posted, calls, total, skip, file>>
  BY DEF Begin
<1> HIDE DEF st
<1>3. file[j] = 1 /\ total[j] \in Nat \ {0} /\ 0 \in 0 .. MaxFiles
  BY <1>2, WorkerFacts DEF FileOK
<1>4. "file" \in WorkPcs \ {"none"}
  BY DEF WorkPcs
<1> QED BY <1>1, <1>2, <1>3, <1>4, RecordKeeps

LEMMA StartFileKeeps == ASSUME JobInv, NEW j \in JobIds, StartFile(j) PROVE JobInv'
<1>1. /\ workPc[j] = "file" /\ file[j] <= total[j]
      /\ UNCHANGED <<callVars, posted, calls, total, skip, file>>
      /\ \E to \in {"transcode", "failed"} : Record(j, "transcoding", file[j] - 1, to)
  BY DEF StartFile
<1>2. PICK to \in {"transcode", "failed"} : Record(j, "transcoding", file[j] - 1, to)
  BY <1>1
<1>3. /\ file[j] \in 1 .. total[j] /\ file[j] \in 1 .. total[j] + 2 /\ file[j] - 1 \in 0 .. MaxFiles
      /\ file[j] - 1 < total[j] /\ file[j] - 1 <= file[j] - 1
  BY <1>1, WorkerFacts DEF FileOK
<1>4. "transcoding" \in Statuses \ Settled /\ to \in WorkPcs \ {"none"}
  BY DEF Statuses, Settled, WorkPcs
<1> QED BY <1>1, <1>2, <1>3, <1>4, RecordKeeps

LEMMA StartCreateKeeps == ASSUME JobInv, NEW j \in JobIds, StartCreate(j) PROVE JobInv'
<1> DEFINE p == IF Exists(j) THEN jobs[j].processed ELSE 0
<1>1. /\ workPc[j] = "file" /\ Record(j, "creating_batch", p, "create")
      /\ UNCHANGED <<callVars, posted, calls, total, skip, file>>
  BY DEF StartCreate
<1>2. file[j] \in 1 .. total[j] + 1 /\ file[j] \in 1 .. total[j] + 2 /\ total[j] \in Nat \ {0}
  BY <1>1, WorkerFacts DEF FileOK
<1>3. p \in 0 .. MaxFiles /\ p < total[j]
  BY <1>1, <1>2, WorkerFacts DEF RecordOK
<1> HIDE DEF p
<1>4. "creating_batch" \in Statuses \ Settled /\ "create" \in WorkPcs \ {"none"}
  BY DEF Statuses, Settled, WorkPcs
<1> QED BY <1>1, <1>2, <1>3, <1>4, RecordKeeps

LEMMA FinishKeeps == ASSUME JobInv, NEW j \in JobIds, Finish(j) PROVE JobInv'
<1>1. /\ workPc[j] = "finish" /\ Record(j, "completed", total[j], "end")
      /\ UNCHANGED <<callVars, posted, calls, total, skip, file>>
  BY DEF Finish
<1>2. file[j] \in 1 .. total[j] + 2 /\ total[j] \in 0 .. MaxFiles
  BY <1>1, WorkerFacts DEF FileOK
<1>3. "completed" \in Statuses /\ "end" \in WorkPcs \ {"none"}
  BY DEF Statuses, WorkPcs
<1> QED BY <1>1, <1>2, <1>3, RecordKeeps

LEMMA FailedKeeps == ASSUME JobInv, NEW j \in JobIds, Failed(j) PROVE JobInv'
<1>1. CallInv'
  BY DEF Failed, JobInv, callVars, CallInv, CallTypeOK, BuffersAreLive, LoneCall, Inside
<1>2. /\ workPc[j] = "failed" /\ workPc' = [workPc EXCEPT ![j] = "end"]
      /\ UNCHANGED <<posted, calls, total, skip, file>>
  BY DEF Failed, Goto
<1>3. /\ file' = [file EXCEPT ![j] = file[j]] /\ file[j] \in 0 .. MaxFiles + 2
      /\ jobs \in [JobIds -> JobRecord \cup {None}] /\ workPc \in [JobIds -> WorkPcs]
      /\ total[j] # 0 /\ file[j] \in 1 .. total[j] + 2
  BY <1>2 DEF JobInv, TypeOK, FileOK
<1>4. FileOK(j)'
  BY <1>2, <1>3 DEF FileOK
<1>5. CASE Exists(j)
  <2>1. PICK r \in JobRecord : r = [jobs[j] EXCEPT !.status = "error"]
    BY <1>3, <1>5 DEF JobRecord, Exists, Statuses
  <2>2. jobs' = [jobs EXCEPT ![j] = r]
    BY <1>5, <2>1 DEF Failed
  <2>3. r.processed = jobs[j].processed /\ jobs[j].processed < total[j]
    BY <1>2, <1>3, <1>5, <2>1, WorkerFacts DEF RecordOK, JobRecord, Exists
  <2>4. r.processed \in Nat /\ total[j] \in Nat /\ r.processed # total[j]
    BY <1>5, <2>3, WorkerFacts
  <2> QED BY <1>1, <1>2, <1>3, <1>4, <1>5, <2>2, <2>4, WorkerKeeps DEF Exists, WorkPcs
<1>6. CASE ~Exists(j)
  <2>1. jobs' = [jobs EXCEPT ![j] = None]
    BY <1>3, <1>6 DEF Failed, Exists
  <2> QED BY <1>1, <1>2, <1>3, <1>4, <2>1, WorkerKeeps DEF Exists, WorkPcs
<1> QED BY <1>5, <1>6

LEMMA WorkerCallKeeps == ASSUME JobInv, NEW j \in JobIds, WorkerCall(j) PROVE JobInv'
<1>1. CallInv'
  BY CallNextInv, JobConstants DEF WorkerCall, JobInv
<1>2. workPc[j] \in {"transcode", "create"} /\ UNCHANGED <<jobs, posted, calls, total, skip>>
  BY DEF WorkerCall
<1>3. /\ jobs' = [jobs EXCEPT ![j] = jobs[j]] /\ jobs[j] \in JobRecord \cup {None}
      /\ file \in [JobIds -> 0 .. MaxFiles + 2] /\ workPc \in [JobIds -> WorkPcs]
  BY <1>2 DEF JobInv, TypeOK
<1>4. CASE UNCHANGED <<workPc, file>>
  BY <1>1, <1>2, <1>4 DEF JobInv, TypeOK, FileOK, RecordOK, Exists, CallInv
<1>5. CASE Goto(j, AfterCall(j)) /\ file' = [file EXCEPT ![j] = @ + 1]
  <2>1. PICK to \in {"file", "finish", "failed"} :
          /\ workPc' = [workPc EXCEPT ![j] = to]
          /\ to = "file" <=> workPc[j] = "transcode"
    BY <1>2, <1>5 DEF Goto, AfterCall
  <2>2. /\ total[j] \in Nat \ {0} /\ file[j] \in 1 .. total[j] + 1 /\ total[j] <= MaxFiles
        /\ MaxFiles \in Nat
        /\ to = "file" => file[j] \in 1 .. total[j]
    BY <1>2, <2>1, WorkerFacts DEF FileOK
  <2> DEFINE f == file[j] + 1
  <2>3. /\ f \in 0 .. MaxFiles + 2 /\ file' = [file EXCEPT ![j] = f] /\ f \in 1 .. total[j] + 2
        /\ (to = "file" => f \in 1 .. total[j] + 1) /\ file[j] - 1 <= f - 1
    BY <1>5, <2>2
  <2>4. workPc'[j] = to /\ file'[j] = f /\ total' = total
    BY <1>2, <1>3, <2>1, <2>3
  <2>5. FileOK(j)'
    <3> HIDE DEF f
    <3> QED BY <2>2, <2>3, <2>4 DEF FileOK
  <2>6. jobs[j] # None =>
          /\ jobs[j].status \notin Settled /\ jobs[j].processed < total[j]
          /\ to = "file" => jobs[j].processed <= file[j] - 1 /\ jobs[j].processed <= f - 1
    BY <1>2, <2>1, <2>2, WorkerFacts DEF RecordOK, Exists
  <2>7. to \in WorkPcs \ {"none"}
    BY DEF WorkPcs
  <2> HIDE DEF f
  <2> QED BY <1>1, <1>2, <1>3, <2>1, <2>3, <2>5, <2>6, <2>7, WorkerKeeps
<1> QED BY <1>4, <1>5 DEF WorkerCall

LEMMA JobNextInv == JobInv /\ [Next]_vars => JobInv'
<1> SUFFICES ASSUME JobInv, [Next]_vars
             PROVE  JobInv'
  OBVIOUS
<1> USE JobConstants DEF JobInv, FileOK, RecordOK, Exists, Settled, Statuses, JobRecord, WorkPcs
<1>1. UNCHANGED callVars => CallInv'
  BY DEF callVars, CallInv, CallTypeOK, BuffersAreLive, LoneCall, Inside
<1>2. CallInv' => CallTypeOK'
  BY DEF CallInv
<1>3. CASE UNCHANGED vars
  BY <1>1, <1>2, <1>3 DEF vars, workVars, TypeOK
<1>4. ASSUME NEW n \in 1 .. MaxFiles, NEW s \in BOOLEAN, PostBatch(n, s)
      PROVE  JobInv'
  BY <1>1, <1>2, <1>4 DEF PostBatch, TypeOK, JobIds
<1>5. ASSUME NEW j \in JobIds, DeleteJob(j) \/ Cleanup(j)
      PROVE  JobInv'
  BY <1>1, <1>2, <1>5 DEF DeleteJob, Cleanup, TypeOK, workVars
<1>6. ASSUME NEW j \in JobIds, WorkerStep(j)
      PROVE  JobInv'
  <2> HIDE DEF JobInv
  <2> QED
    BY <1>6, BeginKeeps, StartFileKeeps, StartCreateKeeps, WorkerCallKeeps, FinishKeeps, FailedKeeps
    DEF WorkerStep
<1>7. ASSUME NEW h \in Handlers, HandlerStep(h)
      PROVE  JobInv'
  <2>1. CallInv'
    BY <1>7, CallNextInv DEF HandlerStep, Handlers
  <2> QED BY <1>2, <1>7, <2>1 DEF HandlerStep, TypeOK, workVars
<1> QED
  BY <1>3, <1>4, <1>5, <1>6, <1>7 DEF Next

\* The variables of calls and jobs keep their types, and sys.stdout is never the
\* buffer of a call that has ended (server.py, run_cli_from_json).
THEOREM JobTypes == Spec => []TypeOK
<1>1. JobInv => TypeOK
  BY DEF JobInv
<1> QED BY JobInitInv, JobNextInv, <1>1, PTL DEF Spec

\* A call that no other overlaps returns its own result, whatever overlapping
\* calls did to sys.stdout before it (run_cli_from_json).
THEOREM LoneCallReturns == Spec => []LoneCallIsRight
<1>1. JobInv => LoneCallIsRight
  BY DEF JobInv, CallInv, LoneCall, LoneCallIsRight, Inside
<1> QED BY JobInitInv, JobNextInv, <1>1, PTL DEF Spec

\* What a step may do to the record of one job.
Forward(j) ==
  /\ j <= posted /\ ~Exists(j) => jobs'[j] = None
  /\ Exists(j) /\ jobs'[j] # None =>
       /\ jobs[j].processed <= jobs'[j].processed
       /\ jobs'[j].processed = total'[j] => jobs'[j].status = "completed"
       /\ jobs[j].status \in Settled => jobs'[j] = jobs[j]

LEMMA KeptIsForward ==
  ASSUME JobInv, NEW j \in JobIds, jobs'[j] = jobs[j] \/ jobs'[j] = None, Exists(j) => total'[j] = total[j]
  PROVE  Forward(j)
BY WorkerFacts DEF Forward, RecordOK, Exists

\* The steps of a worker move its own record forward and leave the others alone.
LEMMA WorkerMovesForward ==
  ASSUME JobInv, NEW i \in JobIds, NEW j \in JobIds, WorkerStep(i)
  PROVE  Forward(j)
<1>1. /\ jobs \in [JobIds -> JobRecord \cup {None}] /\ total' = total
      /\ FileOK(i) /\ RecordOK(i) /\ total[i] \in Nat /\ file[i] \in Nat
      /\ Exists(i) => jobs[i].processed \in Nat
  BY WorkerFacts DEF WorkerStep, Begin, StartFile, StartCreate, WorkerCall, Finish, Failed, JobInv, TypeOK
<1>2. CASE j # i
  BY <1>1, <1>2, KeptIsForward
  DEF WorkerStep, Begin, StartFile, StartCreate, WorkerCall, Finish, Failed, Record
<1>3. CASE j = i /\ ~Exists(i)
  BY <1>1, <1>3
  DEF Forward, Exists, WorkerStep, Begin, StartFile, StartCreate, WorkerCall, Finish, Failed, Record
<1>4. CASE j = i /\ Exists(i)
  <2> USE <1>1, <1>4 DEF Forward, Exists, FileOK, RecordOK, Settled
  <2>1. CASE Begin(i)
    BY <2>1 DEF Begin, Record
  <2>2. CASE StartFile(i)
    BY <2>2 DEF StartFile, Record
  <2>3. CASE StartCreate(i)
    BY <2>3 DEF StartCreate, Record
  <2>4. CASE WorkerCall(i)
    BY <2>4, KeptIsForward DEF WorkerCall
  <2>5. CASE Finish(i)
    BY <2>5 DEF Finish, Record
  <2>6. CASE Failed(i)
    BY <2>6 DEF Failed
  <2> QED BY <2>1, <2>2, <2>3, <2>4, <2>5, <2>6 DEF WorkerStep
<1> QED BY <1>2, <1>3, <1>4

LEMMA JobStepForward == ASSUME JobInv, Next PROVE \A j \in JobIds : Forward(j)
<1> SUFFICES ASSUME NEW j \in JobIds
             PROVE  Forward(j)
  OBVIOUS
<1>1. ASSUME NEW n \in 1 .. MaxFiles, NEW s \in BOOLEAN, PostBatch(n, s)
      PROVE  Forward(j)
  <2>1. /\ jobs \in [JobIds -> JobRecord \cup {None}] /\ total \in [JobIds -> 0 .. MaxFiles]
        /\ posted \in Nat
    BY JobConstants DEF JobInv, TypeOK
  <2>2. CASE j = posted + 1
    BY <2>1, <2>2 DEF Forward, JobInv, RecordOK, Exists, JobIds
  <2>3. CASE j # posted + 1
    BY <1>1, <2>1, <2>3, KeptIsForward DEF PostBatch
  <2> QED BY <2>2, <2>3
<1>2. ASSUME NEW i \in JobIds, DeleteJob(i) \/ Cleanup(i)
      PROVE  Forward(j)
  BY <1>2, KeptIsForward DEF DeleteJob, Cleanup, workVars, JobInv, TypeOK
<1>3. ASSUME NEW h \in Handlers, HandlerStep(h)
      PROVE  Forward(j)
  BY <1>3, KeptIsForward DEF HandlerStep, workVars
<1> QED BY <1>1, <1>2, <1>3, WorkerMovesForward DEF Next

\* A worker never brings a removed job back, and what a client sees of a job only
\* moves forward (_process_batch, DELETE /jobs, cleanup_old_jobs).
THEOREM JobsOnlyMoveForward == Spec => JobsMoveForward
<1>1. JobInv /\ [Next]_vars =>
        [/\ \A j \in 1 .. posted : ~Exists(j) => jobs'[j] = None
         /\ \A j \in JobIds : Exists(j) /\ jobs'[j] # None =>
           /\ jobs[j].processed <= jobs'[j].processed
           /\ jobs'[j].processed = total'[j] => jobs'[j].status = "completed"
           /\ jobs[j].status \in Settled => jobs'[j] = jobs[j]]_vars
  <2> SUFFICES ASSUME JobInv, Next
               PROVE  /\ \A j \in 1 .. posted : ~Exists(j) => jobs'[j] = None
                      /\ \A j \in JobIds : Exists(j) /\ jobs'[j] # None =>
                        /\ jobs[j].processed <= jobs'[j].processed
                        /\ jobs'[j].processed = total'[j] => jobs'[j].status = "completed"
                        /\ jobs[j].status \in Settled => jobs'[j] = jobs[j]
    OBVIOUS
  <2>1. posted \in 0 .. MaxJobs /\ MaxJobs \in Nat
    BY JobConstants DEF JobInv, TypeOK
  <2>2. 1 .. posted \subseteq JobIds /\ \A j \in 1 .. posted : j <= posted
    BY <2>1 DEF JobIds
  <2> QED BY <2>2, JobStepForward DEF Forward
<1> QED BY JobInitInv, JobNextInv, <1>1, PTL DEF Spec, JobsMoveForward

-----------------------------------------------------------------------------
(* Induction over the numbers, from the library's theorem about well-founded      *)
(* relations, for the recursive functions of what follows.                      *)

\* A set of numbers with 0 and with the successor of each is all of them.
LEMMA SetInduction ==
  ASSUME NEW S \in SUBSET Nat, 0 \in S, \A n \in S : n + 1 \in S
  PROVE  S = Nat
<1> SUFFICES ASSUME Nat \ S # {}
             PROVE  FALSE
  OBVIOUS
<1> DEFINE R == {ss \in Nat \X Nat : ss[1] < ss[2]}
           T == Nat \ S
<1>1. IsWellFoundedOn(R, Nat)
  BY NatLessThanWellFounded DEF OpToRel
<1>2. \E x \in T : \A y \in T : ~ (<<y, x>> \in R)
  <2> HIDE DEF R
  <2> QED BY <1>1, WFMin
<1>3. PICK x \in T : \A y \in T : ~ (<<y, x>> \in R)
  BY <1>2
<1>4. x \in Nat /\ x # 0 /\ x - 1 \in Nat /\ x - 1 < x /\ x = (x - 1) + 1
  OBVIOUS
<1>5. <<x - 1, x>> \in R
  BY <1>4
<1> QED BY <1>3, <1>4, <1>5

\* A set of numbers has a least one.
LEMMA LeastOne ==
  ASSUME NEW S \in SUBSET Nat, S # {}
  PROVE  \E m \in S : \A x \in S : m <= x
<1> DEFINE R == {ss \in Nat \X Nat : ss[1] < ss[2]}
<1>1. IsWellFoundedOn(R, Nat)
  BY NatLessThanWellFounded DEF OpToRel
<1>2. \E m \in S : \A x \in S : ~ (<<x, m>> \in R)
  <2> HIDE DEF R
  <2> QED BY <1>1, WFMin
<1>3. PICK m \in S : \A x \in S : ~ (<<x, m>> \in R)
  BY <1>2
<1>4. \A x \in S : m <= x
  <2> SUFFICES ASSUME NEW x \in S, x < m PROVE FALSE
    OBVIOUS
  <2>1. <<x, m>> \in R
    OBVIOUS
  <2> QED BY <1>3, <2>1
<1> QED BY <1>4

\* What is on a list with one more item.
LEMMA AppendToSet ==
  ASSUME NEW S, NEW s \in Seq(S), NEW e \in S
  PROVE  Append(s, e) \in Seq(S) /\ ToSet(Append(s, e)) = ToSet(s) \cup {e}
<1> DEFINE a == Append(s, e)
<1>1. /\ a \in Seq(S) /\ Len(a) = Len(s) + 1 /\ a[Len(s) + 1] = e
      /\ \A i \in 1 .. Len(s) : a[i] = s[i]
  BY AppendProperties
<1>2. DOMAIN a = DOMAIN s \cup {Len(s) + 1} /\ DOMAIN s = 1 .. Len(s)
  <2>1. DOMAIN a = 1 .. Len(s) + 1 /\ DOMAIN s = 1 .. Len(s) /\ Len(s) \in Nat
    BY <1>1
  <2>2. \A n \in Nat : 1 .. n + 1 = (1 .. n) \cup {n + 1}
    OBVIOUS
  <2> QED BY <2>1, <2>2
<1> HIDE DEF a
<1>3. ToSet(a) = ToSet(s) \cup {e}
  BY <1>1, <1>2 DEF ToSet
<1> QED BY <1>1, <1>3 DEF a

\* The remainder of the next number.
LEMMA ModStep ==
  ASSUME NEW n \in Nat \ {0}, NEW a \in Nat
  PROVE  (a + 1) % n = IF a % n = n - 1 THEN 0 ELSE (a % n) + 1
<1> DEFINE q == a \div n
           r == a % n
<1>1. q \in Int /\ r \in 0 .. n - 1 /\ a = (q * n) + r
  OBVIOUS
<1>2. \A b, p, s \in Int : s \in 0 .. n - 1 /\ b = (p * n) + s => b % n = s
  OBVIOUS
<1> HIDE DEF q, r
<1>3. CASE r = n - 1
  <2>1. a + 1 = ((q + 1) * n) + 0 /\ 0 \in 0 .. n - 1 /\ q + 1 \in Int /\ a + 1 \in Int
    BY <1>1, <1>3
  <2> QED BY <1>2, <1>3, <2>1 DEF r
<1>4. CASE r # n - 1
  <2>1. a + 1 = (q * n) + (r + 1) /\ r + 1 \in 0 .. n - 1 /\ r + 1 \in Int /\ a + 1 \in Int
    BY <1>1, <1>4
  <2> QED BY <1>1, <1>2, <1>4, <2>1 DEF r
<1> QED BY <1>3, <1>4
-----------------------------------------------------------------------------
(* Commands. *)

Kinds == {"result", "error"}
Holdings == [catalogue : SUBSET Media, backup : SUBSET Media, mounts : Seq(Mounts)]
OfferedVerbs == UNION {Offered[f] : f \in DOMAIN Offered}
JobNames == {"transcode", "batches create", "nothing"}

CommandTypeOK ==
  /\ disk \in SUBSET Media /\ holdings \in Holdings /\ prior \in Holdings
  /\ results \in Seq(Kinds) /\ request \in Seq(OfferedVerbs)
  /\ reply.kind = "answer" => reply.list \in Seq(Kinds)

\* No network path is listed twice.
AllDiffer(list) == \A k, l \in DOMAIN list : list[k] = list[l] => k = l
MountsDiffer == AllDiffer(holdings.mounts)

\* While a front end is at work, the results so far are what a caller could rely on,
\* and the command in hand is the one behind them.
AtWork ==
  /\ reply.kind = "none" /\ DoneIsThere(results) /\ RestIsUntouched(results)
  /\ IF verb = Nothing THEN Len(request) = Len(results)
     ELSE Len(request) = Len(results) + 1 /\ request[Len(request)] = verb
  /\ results = <<>> => holdings = prior
  /\ front = "job" => holdings = prior /\ verb.name \in JobNames

CommandInv ==
  /\ CommandTypeOK /\ MountsDiffer
  /\ IF front = "none" THEN verb = Nothing /\ results = <<>> /\ RepliesAreTrue ELSE AtWork

LEMMA CommandInitInv == CommandInit => CommandInv
<1> SUFFICES ASSUME CommandInit PROVE CommandInv
  OBVIOUS
<1>1. /\ disk \in SUBSET Media /\ holdings = Empty /\ prior = Empty /\ results = <<>> /\ request = <<>>
      /\ reply.kind = "none" /\ front = "none" /\ verb = Nothing
  BY DEF CommandInit, Reply
<1>2. Empty \in Holdings /\ Empty.mounts = <<>>
  BY DEF Empty, Holdings
<1>3. CommandTypeOK /\ MountsDiffer
  BY <1>1, <1>2 DEF CommandTypeOK, MountsDiffer, AllDiffer
<1>4. RepliesAreTrue
  BY <1>1 DEF RepliesAreTrue
<1> QED BY <1>1, <1>3, <1>4 DEF CommandInv

\* What a command that was answered with an object of some kind has done.
Effect(kind) ==
  LET name == verb.name
      done == kind = "result"
  IN /\ holdings'.catalogue = IF done /\ name = "scan" THEN holdings.catalogue \cup disk
                              ELSE IF done /\ name = "confirmed clean" THEN {} ELSE holdings.catalogue
     /\ holdings'.backup = IF done /\ name = "backup" THEN holdings.backup \cup (holdings.catalogue \cap disk)
                           ELSE holdings.backup
     /\ \/ ~(done /\ name \in {"paths add", "paths remove"}) /\ holdings'.mounts = holdings.mounts
        \/ /\ done /\ name = "paths add" /\ verb.arg \in Mounts /\ ~Contains(holdings.mounts, verb.arg)
           /\ holdings'.mounts = Append(holdings.mounts, verb.arg)
        \/ /\ done /\ name = "paths remove" /\ verb.arg \in Nat /\ verb.arg < Len(holdings.mounts)
           /\ holdings'.mounts = RemoveAt(holdings.mounts, verb.arg + 1)

\* A list of which one item was removed.
LEMMA OneRemoved ==
  ASSUME NEW S, NEW s \in Seq(S), NEW i \in 1 .. Len(s)
  PROVE  /\ RemoveAt(s, i) \in Seq(S) /\ Len(RemoveAt(s, i)) = Len(s) - 1
         /\ \A k \in 1 .. Len(s) - 1 : RemoveAt(s, i)[k] = s[IF k < i THEN k ELSE k + 1]
<1> DEFINE n == Len(s)
           a == SubSeq(s, 1, i - 1)
           b == SubSeq(s, i + 1, n)
<1>0. n \in Nat /\ i \in Nat /\ 1 <= i /\ i <= n /\ s \in Seq(S)
  OBVIOUS
<1>1. a \in Seq(S) /\ Len(a) = i - 1 /\ \A k \in 1 .. i - 1 : a[k] = s[k]
  <2>1. \A k \in 1 .. i - 1 : s[k] \in S
    BY <1>0
  <2>2. 1 \in Int /\ i - 1 \in Int
    BY <1>0
  <2>3. /\ a \in Seq(S) /\ Len(a) = IF 1 <= i - 1 THEN (i - 1) - 1 + 1 ELSE 0
        /\ \A k \in 1 .. (i - 1) - 1 + 1 : a[k] = s[1 + k - 1]
    BY <2>1, <2>2, SubSeqProperties
  <2> HIDE DEF a
  <2>4. Len(a) = i - 1 /\ \A k \in 1 .. i - 1 : a[k] = s[k]
    BY <1>0, <2>3
  <2> QED BY <2>3, <2>4
<1>2. b \in Seq(S) /\ Len(b) = n - i /\ \A k \in 1 .. n - i : b[k] = s[i + k]
  <2>1. \A k \in i + 1 .. n : s[k] \in S
    BY <1>0
  <2>2. i + 1 \in Int /\ n \in Int
    BY <1>0
  <2>3. /\ b \in Seq(S) /\ Len(b) = IF i + 1 <= n THEN n - (i + 1) + 1 ELSE 0
        /\ \A k \in 1 .. n - (i + 1) + 1 : b[k] = s[(i + 1) + k - 1]
    BY <2>1, <2>2, SubSeqProperties
  <2> HIDE DEF b, n
  <2>4. Len(b) = n - i
    BY <1>0, <2>3
  <2>5. ASSUME NEW k \in 1 .. n - i
        PROVE  b[k] = s[i + k]
    <3>1. k \in 1 .. n - (i + 1) + 1 /\ (i + 1) + k - 1 = i + k
      BY <1>0
    <3> QED BY <2>3, <3>1
  <2> QED BY <2>3, <2>4, <2>5
<1>3. RemoveAt(s, i) = a \o b
  BY DEF RemoveAt
<1> HIDE DEF a, b, n
<1>4. /\ a \o b \in Seq(S) /\ Len(a \o b) = Len(a) + Len(b)
      /\ \A k \in 1 .. Len(a) + Len(b) : (a \o b)[k] = IF k <= Len(a) THEN a[k] ELSE b[k - Len(a)]
  BY <1>1, <1>2, ConcatProperties
<1>5. Len(a) + Len(b) = n - 1
  BY <1>0, <1>1, <1>2
<1>6. ASSUME NEW k \in 1 .. n - 1
      PROVE  (a \o b)[k] = s[IF k < i THEN k ELSE k + 1]
  <2>1. CASE k < i
    <3>1. k \in 1 .. i - 1 /\ k <= Len(a) /\ k \in 1 .. Len(a) + Len(b)
      BY <1>0, <1>1, <1>5, <2>1
    <3> QED BY <1>1, <1>4, <2>1, <3>1
  <2>2. CASE ~(k < i)
    <3>1. /\ k - (i - 1) \in 1 .. n - i /\ i + (k - (i - 1)) = k + 1 /\ ~(k <= Len(a))
          /\ k \in 1 .. Len(a) + Len(b) /\ k - Len(a) = k - (i - 1)
      BY <1>0, <1>1, <1>5, <2>2
    <3>2. (a \o b)[k] = b[k - (i - 1)]
      BY <1>4, <3>1
    <3>3. b[k - (i - 1)] = s[i + (k - (i - 1))]
      BY <1>2, <3>1
    <3> QED BY <2>2, <3>1, <3>2, <3>3
  <2> QED BY <2>1, <2>2
<1> QED BY <1>3, <1>4, <1>5, <1>6 DEF n

\* A list to which one item was added, or from which one was removed, that has no
\* item twice.
LEMMA OneAppended ==
  \A S : \A s \in Seq(S) : \A e \in S :
    /\ Append(s, e) \in Seq(S) /\ Len(Append(s, e)) = Len(s) + 1 /\ Append(s, e)[Len(s) + 1] = e
    /\ \A k \in 1 .. Len(s) : Append(s, e)[k] = s[k]
BY AppendProperties

LEMMA AppendedDiffer ==
  ASSUME NEW S, NEW s \in Seq(S), NEW e \in S, ~Contains(s, e), AllDiffer(s)
  PROVE  /\ Append(s, e) \in Seq(S) /\ AllDiffer(Append(s, e))
         /\ \A k \in DOMAIN s : k \in DOMAIN Append(s, e) /\ Append(s, e)[k] = s[k]
         /\ \E k \in DOMAIN Append(s, e) : Append(s, e)[k] = e
<1> DEFINE n == Len(s)
           t == Append(s, e)
<1>1. n \in Nat /\ DOMAIN s = 1 .. n /\ \A k, l \in 1 .. n : s[k] = s[l] => k = l
  BY DEF AllDiffer
<1>2. \A k \in 1 .. n : s[k] # e
  BY <1>1 DEF Contains
<1>3. t \in Seq(S) /\ Len(t) = n + 1 /\ t[n + 1] = e /\ \A k \in 1 .. n : t[k] = s[k]
  BY OneAppended
<1> HIDE DEF t, n
<1>4. DOMAIN t = 1 .. n + 1 /\ n + 1 \in 1 .. n + 1 /\ \A k \in 1 .. n : k \in 1 .. n + 1
  BY <1>1, <1>3
<1>5. \A k, l \in 1 .. n + 1 : t[k] = t[l] => k = l
  <2> SUFFICES ASSUME NEW k \in 1 .. n + 1, NEW l \in 1 .. n + 1, t[k] = t[l]
               PROVE  k = l
    OBVIOUS
  <2>1. (k \in 1 .. n \/ k = n + 1) /\ (l \in 1 .. n \/ l = n + 1)
    BY <1>1
  <2> QED BY <1>1, <1>2, <1>3, <2>1
<1> QED BY <1>1, <1>3, <1>4, <1>5 DEF AllDiffer, t

LEMMA RemovedDiffer ==
  ASSUME NEW S, NEW s \in Seq(S), NEW i \in 1 .. Len(s), AllDiffer(s)
  PROVE  /\ RemoveAt(s, i) \in Seq(S) /\ AllDiffer(RemoveAt(s, i))
         /\ \A l \in DOMAIN RemoveAt(s, i) : RemoveAt(s, i)[l] # s[i]
<1> DEFINE n == Len(s)
           t == RemoveAt(s, i)
           at(k) == IF k < i THEN k ELSE k + 1
<1>1. n \in Nat /\ i \in 1 .. n /\ DOMAIN s = 1 .. n /\ \A k, l \in 1 .. n : s[k] = s[l] => k = l
  BY DEF AllDiffer
<1>2. t \in Seq(S) /\ Len(t) = n - 1 /\ \A k \in 1 .. n - 1 : t[k] = s[at(k)]
  BY OneRemoved
<1> HIDE DEF t, n
<1>3. DOMAIN t = 1 .. n - 1
  BY <1>2
<1>4. \A k \in 1 .. n - 1 : at(k) \in 1 .. n /\ at(k) # i
  BY <1>1
<1>5. \A k, l \in 1 .. n - 1 : at(k) = at(l) => k = l
  BY <1>1
<1> HIDE DEF at
<1>6. \A k, l \in 1 .. n - 1 : t[k] = t[l] => k = l
  BY <1>1, <1>2, <1>4, <1>5
<1>7. \A l \in 1 .. n - 1 : t[l] # s[i]
  BY <1>1, <1>2, <1>4
<1> QED BY <1>2, <1>3, <1>6, <1>7 DEF AllDiffer, t

\* The list of network paths after an effect.
LEMMA MountsKeep ==
  ASSUME CommandInv, NEW kind, Effect(kind)
  PROVE  /\ holdings'.mounts \in Seq(Mounts) /\ AllDiffer(holdings'.mounts)
         /\ ~(kind = "result" /\ verb.name = "paths remove") =>
              \A k \in DOMAIN holdings.mounts : k \in DOMAIN holdings'.mounts /\ holdings'.mounts[k] = holdings.mounts[k]
         /\ kind = "result" /\ verb.name = "paths add" =>
              \E k \in DOMAIN holdings'.mounts : holdings'.mounts[k] = verb.arg
         /\ kind = "result" /\ verb.name = "paths remove" =>
              \A l \in DOMAIN holdings'.mounts : holdings'.mounts[l] # holdings.mounts[verb.arg + 1]
<1> DEFINE ms == holdings.mounts
           after == holdings'.mounts
           Adds == kind = "result" /\ verb.name = "paths add"
           Removes == kind = "result" /\ verb.name = "paths remove"
<1>1. ms \in Seq(Mounts) /\ AllDiffer(ms)
  BY DEF CommandInv, CommandTypeOK, Holdings, MountsDiffer
<1>2. \/ ~Adds /\ ~Removes /\ after = ms
      \/ Adds /\ ~Removes /\ verb.arg \in Mounts /\ ~Contains(ms, verb.arg) /\ after = Append(ms, verb.arg)
      \/ Removes /\ ~Adds /\ verb.arg \in Nat /\ verb.arg < Len(ms) /\ after = RemoveAt(ms, verb.arg + 1)
  BY DEF Effect
<1> HIDE DEF ms, after, Adds, Removes
<1>3. CASE ~Adds /\ ~Removes /\ after = ms
  BY <1>1, <1>3 DEF ms, after, Adds, Removes
<1>4. CASE Adds /\ ~Removes /\ verb.arg \in Mounts /\ ~Contains(ms, verb.arg) /\ after = Append(ms, verb.arg)
  <2>1. /\ after \in Seq(Mounts) /\ AllDiffer(after)
        /\ \A k \in DOMAIN ms : k \in DOMAIN after /\ after[k] = ms[k]
        /\ \E k \in DOMAIN after : after[k] = verb.arg
    BY <1>1, <1>4, AppendedDiffer
  <2> QED BY <1>4, <2>1 DEF ms, after, Adds, Removes
<1>5. CASE Removes /\ ~Adds /\ verb.arg \in Nat /\ verb.arg < Len(ms) /\ after = RemoveAt(ms, verb.arg + 1)
  <2>1. Len(ms) \in Nat
    BY <1>1
  <2>2. \A a, n \in Nat : a < n => a + 1 \in 1 .. n
    OBVIOUS
  <2>3. verb.arg + 1 \in 1 .. Len(ms)
    BY <1>5, <2>1, <2>2
  <2>4. after \in Seq(Mounts) /\ AllDiffer(after) /\ \A l \in DOMAIN after : after[l] # ms[verb.arg + 1]
    BY <1>1, <1>5, <2>3, RemovedDiffer
  <2> QED BY <1>5, <2>4 DEF ms, after, Adds, Removes
<1> QED BY <1>2, <1>3, <1>4, <1>5

\* A command is answered, and the results with its own can be relied on.
LEMMA ObjectKeeps ==
  ASSUME CommandInv, front # "none", verb # Nothing, NEW kind \in Kinds, Object(kind), Effect(kind),
         holdings' \in Holdings
  PROVE  CommandInv'
<1> DEFINE n == Len(results)
<1>1. CommandTypeOK /\ AtWork /\ n \in Nat
  BY DEF CommandInv, CommandTypeOK
<1>2. /\ results' = Append(results, kind) /\ verb' = Nothing
      /\ UNCHANGED <<disk, front, reply, request, prior>>
  BY DEF Object
<1>3. /\ results' \in Seq(Kinds) /\ Len(results') = n + 1 /\ DOMAIN results' = 1 .. n + 1 /\ DOMAIN results = 1 .. n
      /\ results'[n + 1] = kind /\ \A i \in 1 .. n : results'[i] = results[i]
  <2>1. /\ Append(results, kind) \in Seq(Kinds) /\ Len(Append(results, kind)) = n + 1
        /\ Append(results, kind)[n + 1] = kind
    BY <1>1, OneAppended DEF CommandTypeOK
  <2>2. \A i \in 1 .. n : Append(results, kind)[i] = results[i]
    BY <1>1, OneAppended DEF CommandTypeOK
  <2>3. DOMAIN results = 1 .. n
    BY <1>1 DEF CommandTypeOK
  <2> HIDE DEF n
  <2>4. DOMAIN results' = 1 .. n + 1
    BY <1>1, <1>2, <2>1
  <2> QED BY <1>2, <2>1, <2>2, <2>3, <2>4
<1>4. Len(request) = n + 1 /\ request[n + 1] = verb
  BY <1>1 DEF AtWork
<1> HIDE DEF n
<1> DEFINE Now(name) == kind = "result" /\ verb.name = name
           G(i, name) == i \in 1 .. n + 1 /\ results'[i] = "result" /\ request[i].name = name
           After(j, name) == \E k \in 1 .. n + 1 : k > j /\ G(k, name)
           Some(name) == AnyGranted(results, name) \/ Now(name)
<1>5. \A i, name : Granted(results, i, name)' <=> G(i, name)
  BY <1>2, <1>3 DEF Granted
<1>6. \A name : \A i \in 1 .. n : G(i, name) <=> Granted(results, i, name)
  BY <1>1, <1>3 DEF Granted
<1>7. \A name : G(n + 1, name) <=> Now(name)
  BY <1>1, <1>3, <1>4
<1>8. \A i \in 1 .. n + 1 : i \in 1 .. n \/ i = n + 1
  BY <1>1
<1>9. \A name : AnyGranted(results, name)' <=> Some(name)
  <2> SUFFICES ASSUME NEW name PROVE (\E i \in 1 .. n + 1 : G(i, name)) <=> Some(name)
    BY <1>3, <1>5 DEF AnyGranted
  <2>1. AnyGranted(results, name) <=> \E i \in 1 .. n : Granted(results, i, name)
    BY <1>3 DEF AnyGranted
  <2>2. \A i \in 1 .. n : i \in 1 .. n + 1
    BY <1>1
  <2>3. n + 1 \in 1 .. n + 1
    BY <1>1
  <2> QED BY <1>6, <1>7, <1>8, <2>1, <2>2, <2>3
<1>10. ASSUME NEW i \in 1 .. n, NEW name
       PROVE  (\E j \in 1 .. n : j > i /\ Granted(results, j, name)) \/ Now(name) => After(i, name)
  <2>1. \A j \in 1 .. n : j \in 1 .. n + 1
    BY <1>1
  <2>2. n + 1 \in 1 .. n + 1 /\ n + 1 > i
    BY <1>1
  <2> QED BY <1>6, <1>7, <2>1, <2>2
<1>11. /\ holdings'.mounts \in Seq(Mounts) /\ MountsDiffer'
       /\ ~Now("paths remove") =>
            \A k \in DOMAIN holdings.mounts : k \in DOMAIN holdings'.mounts /\ holdings'.mounts[k] = holdings.mounts[k]
       /\ Now("paths add") => \E k \in DOMAIN holdings'.mounts : holdings'.mounts[k] = verb.arg
       /\ Now("paths remove") => \A l \in DOMAIN holdings'.mounts : holdings'.mounts[l] # holdings.mounts[verb.arg + 1]
  BY MountsKeep DEF MountsDiffer
<1>12. /\ Now("scan") => holdings'.catalogue = holdings.catalogue \cup disk
       /\ Now("confirmed clean") => holdings'.catalogue = {}
       /\ ~Now("scan") /\ ~Now("confirmed clean") => holdings'.catalogue = holdings.catalogue
       /\ Now("backup") => holdings'.backup = holdings.backup \cup (holdings.catalogue \cap disk)
       /\ ~Now("backup") => holdings'.backup = holdings.backup
       /\ ~Now("paths add") /\ ~Now("paths remove") => holdings'.mounts = holdings.mounts
  BY DEF Effect
<1>13. DoneIsThere(results) /\ RestIsUntouched(results) /\ (n = 0 => holdings = prior)
  <2>1. n = 0 => results = <<>>
    BY <1>1, EmptySeq DEF n, CommandTypeOK
  <2> QED BY <1>1, <2>1 DEF AtWork
<1>14. Some("confirmed clean") \/ prior.catalogue \subseteq holdings.catalogue
  BY <1>13 DEF RestIsUntouched
<1> HIDE DEF Now
<1>15. ASSUME NEW i \in 1 .. n + 1
       PROVE  /\ G(i, "scan") => disk \subseteq holdings'.catalogue \/ After(i, "confirmed clean")
              /\ G(i, "confirmed clean") => holdings'.catalogue = {} \/ After(i, "scan")
              /\ G(i, "paths add") =>
                   \/ \E k \in DOMAIN holdings'.mounts : holdings'.mounts[k] = request[i].arg
                   \/ After(i, "paths remove")
  <2>1. CASE i \in 1 .. n
    <3>1. /\ Granted(results, i, "scan") =>
               \/ disk \subseteq holdings.catalogue
               \/ \E j \in 1 .. n : j > i /\ Granted(results, j, "confirmed clean")
          /\ Granted(results, i, "confirmed clean") =>
               holdings.catalogue = {} \/ \E j \in 1 .. n : j > i /\ Granted(results, j, "scan")
          /\ Granted(results, i, "paths add") =>
               \/ \E k \in DOMAIN holdings.mounts : holdings.mounts[k] = request[i].arg
               \/ \E j \in 1 .. n : j > i /\ Granted(results, j, "paths remove")
      BY <1>3, <1>13, <2>1 DEF DoneIsThere
    <3>2. \A name \in {"scan", "confirmed clean", "paths remove"} :
            (\E j \in 1 .. n : j > i /\ Granted(results, j, name)) \/ Now(name) => After(i, name)
      BY <1>10, <2>1
    <3>3. \A name : G(i, name) => Granted(results, i, name)
      BY <1>6, <2>1
    <3> HIDE DEF G, After
    <3>4. G(i, "scan") => disk \subseteq holdings'.catalogue \/ After(i, "confirmed clean")
      BY <1>12, <3>1, <3>2, <3>3
    <3>5. G(i, "confirmed clean") => holdings'.catalogue = {} \/ After(i, "scan")
      BY <1>12, <3>1, <3>2, <3>3
    <3>6. G(i, "paths add") =>
            \/ \E k \in DOMAIN holdings'.mounts : holdings'.mounts[k] = request[i].arg
            \/ After(i, "paths remove")
      BY <1>11, <3>1, <3>2, <3>3
    <3> QED BY <3>4, <3>5, <3>6
  <2>2. CASE i = n + 1
    <3>1. \A name : G(i, name) => Now(name)
      BY <1>7, <2>2
    <3> HIDE DEF G, After
    <3> QED BY <1>4, <1>11, <1>12, <2>2, <3>1
  <2> QED BY <1>8, <2>1, <2>2
<1>16. ASSUME NEW i \in 1 .. n + 1, G(i, "backup"), ~Some("confirmed clean")
       PROVE  /\ disk \cap prior.catalogue \subseteq holdings'.backup
              /\ (\E j \in 1 .. n + 1 : j < i /\ G(j, "scan")) => disk \subseteq holdings'.backup
  <2>0. ~AnyGranted(results, "confirmed clean") /\ holdings.backup \subseteq holdings'.backup
    BY <1>12, <1>16
  <2>1. CASE i \in 1 .. n
    <3>1. Granted(results, i, "backup")
      BY <1>6, <1>16, <2>1
    <3>2. disk \cap prior.catalogue \subseteq holdings.backup
      BY <1>3, <1>13, <2>0, <2>1, <3>1 DEF DoneIsThere
    <3>3. (\E j \in 1 .. n : j < i /\ Granted(results, j, "scan")) => disk \subseteq holdings.backup
      BY <1>3, <1>13, <2>0, <2>1, <3>1 DEF DoneIsThere
    <3>4. (\E j \in 1 .. n + 1 : j < i /\ G(j, "scan")) => \E j \in 1 .. n : j < i /\ Granted(results, j, "scan")
      <4> SUFFICES ASSUME NEW j \in 1 .. n + 1, j < i, G(j, "scan")
                   PROVE  j \in 1 .. n /\ Granted(results, j, "scan")
        OBVIOUS
      <4>1. j \in 1 .. n
        BY <1>1, <2>1
      <4> QED BY <1>6, <4>1
    <3> HIDE DEF G
    <3> QED BY <2>0, <3>2, <3>3, <3>4
  <2>2. CASE i = n + 1
    <3>1. Now("backup")
      BY <1>7, <1>16, <2>2
    <3>2. disk \cap prior.catalogue \subseteq holdings'.backup
      BY <1>12, <1>14, <1>16, <3>1
    <3>3. ASSUME NEW j \in 1 .. n + 1, j < i, G(j, "scan")
          PROVE  disk \subseteq holdings'.backup
      <4>1. j \in 1 .. n
        BY <1>1, <2>2, <3>3
      <4>2. Granted(results, j, "scan")
        BY <1>6, <3>3, <4>1
      <4>3. disk \subseteq holdings.catalogue \/ \E k \in DOMAIN results : k > j /\ Granted(results, k, "confirmed clean")
        BY <1>3, <1>13, <4>1, <4>2 DEF DoneIsThere
      <4>4. disk \subseteq holdings.catalogue
        BY <2>0, <4>3 DEF AnyGranted
      <4> QED BY <1>12, <3>1, <4>4
    <3> HIDE DEF G
    <3> QED BY <3>2, <3>3
  <2> QED BY <1>8, <2>1, <2>2
<1>17. ASSUME NEW i \in 1 .. n + 1, G(i, "paths remove"), Len(request) = 1
       PROVE  \A l \in DOMAIN holdings'.mounts : holdings'.mounts[l] # prior.mounts[request[i].arg + 1]
  <2>0. n + 1 = 1
    BY <1>4, <1>17
  <2>1. n = 0 /\ i = n + 1
    BY <1>1, <2>0
  <2>2. Now("paths remove") /\ request[i] = verb /\ holdings = prior
    BY <1>4, <1>7, <1>13, <1>17, <2>1
  <2> QED BY <1>11, <2>2
<1>18. DoneIsThere(results)'
  <2> HIDE DEF G
  <2>1. \A name : (\E j \in DOMAIN results' : Granted(results, j, name)') <=> Some(name)
    BY <1>9 DEF AnyGranted
  <2> QED BY <1>2, <1>3, <1>5, <1>9, <1>15, <1>16, <1>17 DEF DoneIsThere
<1>19. RestIsUntouched(results)'
  <2> HIDE DEF G
  <2>1. /\ Some("scan") \/ Some("confirmed clean") \/ holdings'.catalogue = prior.catalogue
        /\ Some("confirmed clean") \/ prior.catalogue \subseteq holdings'.catalogue
        /\ Some("backup") \/ holdings'.backup = prior.backup
        /\ Some("paths add") \/ Some("paths remove") \/ holdings'.mounts = prior.mounts
    BY <1>12, <1>13, <1>14 DEF RestIsUntouched
  <2> QED BY <1>2, <1>9, <2>1 DEF RestIsUntouched
<1>20. front = "job" => holdings' = prior
  <2> SUFFICES ASSUME front = "job" PROVE holdings' = holdings
    BY <1>1 DEF AtWork
  <2>1. verb.name \in JobNames
    BY <1>1 DEF AtWork
  <2>2. /\ holdings'.catalogue = holdings.catalogue /\ holdings'.backup = holdings.backup
        /\ holdings'.mounts = holdings.mounts
    BY <1>12, <2>1 DEF JobNames, Now
  <2>3. holdings \in Holdings
    BY <1>1 DEF CommandTypeOK
  <2> QED BY <2>2, <2>3 DEF Holdings
<1>21. AtWork'
  <2>1. results' # <<>>
    BY <1>1, <1>3, EmptySeq
  <2>2. verb'.name \in JobNames
    BY <1>2 DEF Nothing, V, JobNames
  <2> QED BY <1>1, <1>2, <1>3, <1>4, <1>18, <1>19, <1>20, <2>1, <2>2 DEF AtWork
<1>22. CommandTypeOK'
  BY <1>1, <1>2, <1>3 DEF CommandTypeOK
<1> QED BY <1>2, <1>11, <1>21, <1>22 DEF CommandInv

\* The two parts of what can be relied on, of the state that they are about.
Done(list, req, d, h, p) ==
  \A i \in DOMAIN list :
    LET G(j, name) == j \in DOMAIN list /\ list[j] = "result" /\ req[j].name = name
        Some(name) == \E j \in DOMAIN list : G(j, name)
    IN /\ G(i, "scan") => d \subseteq h.catalogue \/ \E j \in DOMAIN list : j > i /\ G(j, "confirmed clean")
       /\ G(i, "confirmed clean") => h.catalogue = {} \/ \E j \in DOMAIN list : j > i /\ G(j, "scan")
       /\ G(i, "backup") /\ ~Some("confirmed clean") => d \cap p.catalogue \subseteq h.backup
       /\ G(i, "backup") /\ (\E j \in DOMAIN list : j < i /\ G(j, "scan")) /\ ~Some("confirmed clean") =>
            d \subseteq h.backup
       /\ G(i, "paths add") =>
            \/ \E k \in DOMAIN h.mounts : h.mounts[k] = req[i].arg
            \/ \E j \in DOMAIN list : j > i /\ G(j, "paths remove")
       /\ G(i, "paths remove") /\ Len(req) = 1 => \A l \in DOMAIN h.mounts : h.mounts[l] # p.mounts[req[i].arg + 1]

Rest(list, req, h, p) ==
  LET Some(name) == \E j \in DOMAIN list : j \in DOMAIN list /\ list[j] = "result" /\ req[j].name = name
  IN /\ Some("scan") \/ Some("confirmed clean") \/ h.catalogue = p.catalogue
     /\ Some("confirmed clean") \/ p.catalogue \subseteq h.catalogue
     /\ Some("backup") \/ h.backup = p.backup
     /\ Some("paths add") \/ Some("paths remove") \/ h.mounts = p.mounts

LEMMA DoneMeans ==
  /\ DoneIsThere(results) <=> Done(results, request, disk, holdings, prior)
  /\ DoneIsThere(results)' <=> Done(results', request', disk', holdings', prior')
  /\ DoneIsThere(reply.list) <=> Done(reply.list, request, disk, holdings, prior)
  /\ DoneIsThere(reply.list)' <=> Done(reply'.list, request', disk', holdings', prior')
<1>1. DoneIsThere(results) <=> Done(results, request, disk, holdings, prior)
  BY DEF DoneIsThere, Done, Granted, AnyGranted
<1>2. DoneIsThere(results)' <=> Done(results', request', disk', holdings', prior')
  BY DEF DoneIsThere, Done, Granted, AnyGranted
<1>3. DoneIsThere(reply.list) <=> Done(reply.list, request, disk, holdings, prior)
  BY DEF DoneIsThere, Done, Granted, AnyGranted
<1>4. DoneIsThere(reply.list)' <=> Done(reply'.list, request', disk', holdings', prior')
  BY DEF DoneIsThere, Done, Granted, AnyGranted
<1> QED BY <1>1, <1>2, <1>3, <1>4

LEMMA RestMeans ==
  /\ RestIsUntouched(results) <=> Rest(results, request, holdings, prior)
  /\ RestIsUntouched(results)' <=> Rest(results', request', holdings', prior')
  /\ RestIsUntouched(reply.list) <=> Rest(reply.list, request, holdings, prior)
  /\ RestIsUntouched(reply.list)' <=> Rest(reply'.list, request', holdings', prior')
<1>1. RestIsUntouched(results) <=> Rest(results, request, holdings, prior)
  BY DEF RestIsUntouched, Rest, Granted, AnyGranted
<1>2. RestIsUntouched(results)' <=> Rest(results', request', holdings', prior')
  BY DEF RestIsUntouched, Rest, Granted, AnyGranted
<1>3. RestIsUntouched(reply.list) <=> Rest(reply.list, request, holdings, prior)
  BY DEF RestIsUntouched, Rest, Granted, AnyGranted
<1>4. RestIsUntouched(reply.list)' <=> Rest(reply'.list, request', holdings', prior')
  BY DEF RestIsUntouched, Rest, Granted, AnyGranted
<1> QED BY <1>1, <1>2, <1>3, <1>4

\* They stay true when files go away, and when a command is taken up.
LEMMA FewerFiles ==
  ASSUME NEW list, NEW req, NEW d, NEW h, NEW p, Done(list, req, d, h, p), NEW less \in SUBSET d
  PROVE  Done(list, req, less, h, p)
<1> DEFINE G(j, name) == j \in DOMAIN list /\ list[j] = "result" /\ req[j].name = name
           Some(name) == \E j \in DOMAIN list : G(j, name)
           Over(i) == \E j \in DOMAIN list : j > i /\ G(j, "confirmed clean")
           Before(i) == \E j \in DOMAIN list : j < i /\ G(j, "scan")
           Part(i, files) ==
             /\ G(i, "scan") => files \subseteq h.catalogue \/ Over(i)
             /\ G(i, "backup") /\ ~Some("confirmed clean") => files \cap p.catalogue \subseteq h.backup
             /\ G(i, "backup") /\ Before(i) /\ ~Some("confirmed clean") => files \subseteq h.backup
<1>1. ASSUME NEW i \in DOMAIN list, Part(i, d) PROVE Part(i, less)
  <2> HIDE DEF G, Some, Over, Before
  <2> QED BY <1>1
<1>2. \A i \in DOMAIN list : Part(i, d)
  BY DEF Done
<1>3. \A i \in DOMAIN list : Part(i, less)
  <2> HIDE DEF Part
  <2> QED BY <1>1, <1>2
<1> QED BY <1>3 DEF Done

LEMMA MoreRequested ==
  ASSUME NEW list, NEW req, NEW more, NEW d, NEW h, NEW p, \A i \in DOMAIN list : more[i] = req[i]
  PROVE  /\ Done(list, req, d, h, p) /\ (Len(more) = 1 => DOMAIN list = {}) => Done(list, more, d, h, p)
         /\ Rest(list, req, h, p) => Rest(list, more, h, p)
<1> DEFINE G(j, name, r) == j \in DOMAIN list /\ list[j] = "result" /\ r[j].name = name
           Some(name, r) == \E j \in DOMAIN list : G(j, name, r)
           Over(i, name, r) == \E j \in DOMAIN list : j > i /\ G(j, name, r)
           Before(i, name, r) == \E j \in DOMAIN list : j < i /\ G(j, name, r)
<1>1. \A j, name : G(j, name, req) <=> G(j, name, more)
  OBVIOUS
<1>2. /\ \A name : Some(name, req) <=> Some(name, more)
      /\ \A i, name : Over(i, name, req) <=> Over(i, name, more)
      /\ \A i, name : Before(i, name, req) <=> Before(i, name, more)
  <2> HIDE DEF G
  <2> QED BY <1>1
<1>3. Rest(list, req, h, p) => Rest(list, more, h, p)
  <2> DEFINE All(r) == /\ Some("scan", r) \/ Some("confirmed clean", r) \/ h.catalogue = p.catalogue
                       /\ Some("confirmed clean", r) \/ p.catalogue \subseteq h.catalogue
                       /\ Some("backup", r) \/ h.backup = p.backup
                       /\ Some("paths add", r) \/ Some("paths remove", r) \/ h.mounts = p.mounts
  <2>1. (Rest(list, req, h, p) <=> All(req)) /\ (Rest(list, more, h, p) <=> All(more))
    BY DEF Rest
  <2>2. All(req) => All(more)
    <3> HIDE DEF Some
    <3> QED BY <1>2
  <2> HIDE DEF All
  <2> QED BY <2>1, <2>2
<1>4. ASSUME Done(list, req, d, h, p), Len(more) = 1 => DOMAIN list = {}
      PROVE  Done(list, more, d, h, p)
  <2> DEFINE Part(i, r) ==
               /\ G(i, "scan", r) => d \subseteq h.catalogue \/ Over(i, "confirmed clean", r)
               /\ G(i, "confirmed clean", r) => h.catalogue = {} \/ Over(i, "scan", r)
               /\ G(i, "backup", r) /\ ~Some("confirmed clean", r) => d \cap p.catalogue \subseteq h.backup
               /\ G(i, "backup", r) /\ Before(i, "scan", r) /\ ~Some("confirmed clean", r) => d \subseteq h.backup
               /\ G(i, "paths add", r) =>
                    (\E k \in DOMAIN h.mounts : h.mounts[k] = r[i].arg) \/ Over(i, "paths remove", r)
               /\ G(i, "paths remove", r) /\ Len(r) = 1 => \A l \in DOMAIN h.mounts : h.mounts[l] # p.mounts[r[i].arg + 1]
  <2>1. ASSUME NEW i \in DOMAIN list, Part(i, req) PROVE Part(i, more)
    <3>1. more[i] = req[i] /\ Len(more) # 1
      BY <1>4
    <3> HIDE DEF G, Some, Over, Before
    <3> QED BY <1>1, <1>2, <2>1, <3>1
  <2>2. \A i \in DOMAIN list : Part(i, req)
    BY <1>4 DEF Done
  <2>3. \A i \in DOMAIN list : Part(i, more)
    <3> HIDE DEF Part
    <3> QED BY <2>1, <2>2
  <2> QED BY <2>3 DEF Done
<1> QED BY <1>3, <1>4

\* What front ends can ask for.
LEMMA VerbFacts ==
  /\ \A v \in OfferedVerbs : /\ v # Nothing
                             /\ v.name = "paths add" => v.arg \in Mounts
                             /\ v.name = "paths remove" => v.arg \in Nat
  /\ \A v \in Offered["job"] : v.name \in JobNames
  /\ \A f \in DOMAIN Offered : f # "none" /\ Offered[f] \subseteq OfferedVerbs
<1>1. ASSUME NEW names, NEW v \in Plain(names), "paths add" \notin names, "paths remove" \notin names, "nothing" \notin names
      PROVE  v.name \in names /\ v.name # "paths add" /\ v.name # "paths remove" /\ v # Nothing
  <2>1. PICK n \in names : v = V(n, NoArg)
    BY DEF Plain
  <2>2. v.name = n /\ Nothing.name = "nothing"
    BY <2>1 DEF V, Nothing
  <2> QED BY <1>1, <2>1, <2>2
<1>2. ASSUME NEW v \in PathVerbs
      PROVE  v # Nothing /\ (v.name = "paths add" => v.arg \in Mounts) /\ (v.name = "paths remove" => v.arg \in Nat)
  <2>0. Nothing.name = "nothing"
    BY DEF V, Nothing
  <2>1. CASE \E m \in Mounts : v = V("paths add", m)
    <3>0. PICK m \in Mounts : v = V("paths add", m)
      BY <2>1
    <3>1. v.name = "paths add" /\ v.arg \in Mounts
      BY <3>0 DEF V
    <3>2. v.name # "nothing" /\ v.name # "paths remove"
      BY <3>1
    <3>3. v # Nothing
      BY <2>0, <3>2
    <3> QED BY <3>1, <3>2, <3>3
  <2>2. CASE \E i \in 0 .. 1 : v = V("paths remove", i)
    <3>1. PICK i \in 0 .. 1 : v = V("paths remove", i)
      BY <2>2
    <3>2. v.name = "paths remove" /\ v.arg = i
      BY <3>1 DEF V
    <3>3. v.name # "nothing" /\ v.name # "paths add"
      BY <3>2
    <3>4. v # Nothing
      BY <2>0, <3>3
    <3>5. i \in Nat
      OBVIOUS
    <3>6. v.arg \in Nat
      BY <3>2, <3>5
    <3> HIDE DEF Nothing
    <3> QED BY <3>3, <3>4, <3>6
  <2> QED BY <2>1, <2>2 DEF PathVerbs
<1> DEFINE Fine(v) == /\ v # Nothing
                      /\ v.name = "paths add" => v.arg \in Mounts
                      /\ v.name = "paths remove" => v.arg \in Nat
<1>3. \A v \in ShellVerbs : Fine(v)
  <2>1. \A v \in Plain({"scan", "ask", "search", "list", "clean", "confirmed clean", "backup", "sync", "dam",
                        "plugin", "batches create"}) : Fine(v)
    BY <1>1
  <2> QED BY <1>2, <2>1 DEF ShellVerbs
<1>4. \A v \in StdinVerbs : Fine(v)
  <2>1. \A v \in Plain({"batches add"} \cup UnknownVerbs) : Fine(v)
    BY <1>1 DEF UnknownVerbs
  <2> QED BY <1>3, <2>1 DEF StdinVerbs
<1>5. \A v \in ApiVerbs : Fine(v)
  <2>1. \A v \in Plain({"scan", "ask", "search", "list", "backup", "sync", "batches add", "batches delete"}) : Fine(v)
    BY <1>1
  <2> QED BY <1>2, <2>1 DEF ApiVerbs
<1>6. \A v \in TuiVerbs : Fine(v)
  BY <1>1 DEF TuiVerbs
<1>7. \A v \in JobVerbs : Fine(v) /\ v.name \in JobNames
  BY <1>1 DEF JobVerbs, JobNames
<1> HIDE DEF Fine
<1>8. \A f \in DOMAIN Offered : f # "none" /\ \A v \in Offered[f] : Fine(v)
  BY <1>3, <1>4, <1>5, <1>6, <1>7 DEF Offered
<1>9. Offered["job"] = JobVerbs
  BY DEF Offered
<1> QED BY <1>7, <1>8, <1>9 DEF OfferedVerbs, Fine

\* The command in hand.
LEMMA InHand ==
  ASSUME CommandInv, verb # Nothing
  PROVE  /\ front # "none" /\ AtWork /\ holdings \in Holdings /\ disk \in SUBSET Media
         /\ verb.name = "paths add" => verb.arg \in Mounts
         /\ verb.name = "paths remove" => verb.arg \in Nat
         /\ Len(request) = 1 => request[1] = verb /\ holdings = prior
<1>1. front # "none" /\ AtWork /\ CommandTypeOK
  BY DEF CommandInv
<1>2. Len(request) = Len(results) + 1 /\ request[Len(request)] = verb /\ results \in Seq(Kinds) /\ request \in Seq(OfferedVerbs)
  BY <1>1 DEF AtWork, CommandTypeOK
<1>3. verb \in OfferedVerbs
  BY <1>2
<1>4. ASSUME Len(request) = 1 PROVE request[1] = verb /\ holdings = prior
  <2>1. Len(results) = 0
    BY <1>2, <1>4
  <2>2. results = <<>>
    BY <1>2, <2>1, EmptySeq
  <2> QED BY <1>1, <1>2, <1>4, <2>2 DEF AtWork
<1> QED BY <1>1, <1>3, <1>4, VerbFacts DEF CommandTypeOK

\* A command fails.
LEMMA RaisesKeeps ==
  ASSUME CommandInv, verb # Nothing, Raises, holdings' \in Holdings, holdings'.mounts = holdings.mounts,
         IF verb.name = "batches add"
         THEN disk \subseteq holdings'.catalogue /\ holdings'.backup = holdings.backup
         ELSE holdings' = holdings
  PROVE  CommandInv'
<1>1. /\ results' = <<>> /\ reply' = Reply("failed", <<>>) /\ front' = "none" /\ verb' = Nothing
      /\ UNCHANGED <<disk, request, prior>>
  BY DEF Raises
<1>2. reply'.kind = "failed"
  BY <1>1 DEF Reply
<1>3. CommandTypeOK /\ MountsDiffer
  BY DEF CommandInv
<1>4. <<>> \in Seq(Kinds)
  BY EmptySeq
<1>5. CommandTypeOK'
  BY <1>1, <1>2, <1>3, <1>4 DEF CommandTypeOK
<1>6. MountsDiffer'
  BY <1>3 DEF MountsDiffer, AllDiffer
<1>7. RepliesAreTrue'
  <2>1. ASSUME Len(request) = 1
        PROVE  IF request[1].name = "batches add"
               THEN disk \subseteq holdings'.catalogue /\ [holdings' EXCEPT !.catalogue = prior.catalogue] = prior
               ELSE holdings' = prior
    <3>1. request[1] = verb /\ holdings = prior /\ holdings \in Holdings
      BY <2>1, InHand
    <3>2. CASE verb.name = "batches add"
      BY <3>1, <3>2 DEF Holdings
    <3>3. CASE verb.name # "batches add"
      BY <3>1, <3>3
    <3> QED BY <3>1, <3>2, <3>3
  <2> QED BY <1>1, <1>2, <2>1 DEF RepliesAreTrue
<1> QED BY <1>1, <1>5, <1>6, <1>7 DEF CommandInv

\* All steps are done.
LEMMA PrintKeeps == ASSUME CommandInv, PrintResults PROVE CommandInv'
<1>1. /\ verb = Nothing /\ results # <<>> /\ results' = <<>> /\ front' = "none"
      /\ UNCHANGED <<disk, holdings, verb, request, prior>>
      /\ reply' = IF front = "job" THEN Reply("completed", <<>>) ELSE Reply("answer", results)
  BY DEF PrintResults
<1>2. AtWork /\ CommandTypeOK /\ MountsDiffer
  BY <1>1 DEF CommandInv
<1>3. <<>> \in Seq(Kinds)
  BY EmptySeq
<1>4. CASE front = "job"
  <2>1. reply'.kind = "completed" /\ holdings = prior
    BY <1>1, <1>2, <1>4 DEF Reply, AtWork
  <2> QED BY <1>1, <1>2, <1>3, <2>1 DEF CommandInv, CommandTypeOK, MountsDiffer, RepliesAreTrue
<1>5. CASE front # "job"
  <2>1. reply'.kind = "answer" /\ reply'.list = results
    BY <1>1, <1>5 DEF Reply
  <2>2. Len(request) = Len(results) /\ DoneIsThere(results) /\ RestIsUntouched(results)
    BY <1>1, <1>2 DEF AtWork
  <2>3. DoneIsThere(reply.list)' /\ RestIsUntouched(reply.list)'
    BY <1>1, <2>1, <2>2, DoneMeans, RestMeans
  <2>4. RepliesAreTrue'
    BY <1>1, <2>1, <2>2, <2>3 DEF RepliesAreTrue
  <2> QED BY <1>1, <1>2, <1>3, <2>1, <2>4 DEF CommandInv, CommandTypeOK, MountsDiffer
<1> QED BY <1>4, <1>5

\* A file goes away.
LEMMA VanishKeeps == ASSUME CommandInv, NEW m \in Media, Vanish(m) PROVE CommandInv'
<1>1. disk' \subseteq disk /\ UNCHANGED <<holdings, front, verb, results, reply, request, prior>>
  BY DEF Vanish
<1>2. /\ DoneIsThere(results) => DoneIsThere(results)'
      /\ DoneIsThere(reply.list) => DoneIsThere(reply.list)'
  <2>1. disk' \in SUBSET disk
    BY <1>1
  <2> QED BY <1>1, <2>1, DoneMeans, FewerFiles
<1>3. /\ RestIsUntouched(results) => RestIsUntouched(results)'
      /\ RestIsUntouched(reply.list) => RestIsUntouched(reply.list)'
  BY <1>1, RestMeans
<1>4. CommandTypeOK' /\ MountsDiffer'
  BY <1>1 DEF CommandInv, CommandTypeOK, MountsDiffer
<1>5. CASE front = "none"
  <2>1. verb = Nothing /\ results = <<>> /\ RepliesAreTrue
    BY <1>5 DEF CommandInv
  <2>2. reply.kind = "answer" => DoneIsThere(reply.list)' /\ RestIsUntouched(reply.list)'
    BY <1>2, <1>3, <2>1 DEF RepliesAreTrue
  <2>3. RepliesAreTrue'
    BY <1>1, <2>1, <2>2 DEF RepliesAreTrue
  <2> QED BY <1>1, <1>4, <1>5, <2>1, <2>3 DEF CommandInv
<1>6. CASE front # "none"
  <2>1. AtWork
    BY <1>6 DEF CommandInv
  <2>2. AtWork'
    BY <1>1, <1>2, <1>3, <2>1 DEF AtWork
  <2> QED BY <1>1, <1>4, <1>6, <2>2 DEF CommandInv
<1> QED BY <1>5, <1>6

\* A command is taken up.
LEMMA EnterKeeps == ASSUME CommandInv, NEW f \in DOMAIN Offered, NEW v \in Offered[f], Enter(f, v) PROVE CommandInv'
<1>1. verb = Nothing /\ front' = f /\ verb' = v /\ UNCHANGED <<disk, holdings, results>>
  BY DEF Enter
<1>2. v \in OfferedVerbs /\ v # Nothing /\ f # "none" /\ (f = "job" => v.name \in JobNames)
  BY VerbFacts
<1>3. CommandTypeOK /\ MountsDiffer
  BY DEF CommandInv
<1>4. CASE front = "none" /\ reply' = Reply("none", <<>>) /\ request' = <<v>> /\ prior' = holdings
  <2>1. results = <<>> /\ results' = <<>> /\ reply'.kind = "none"
    BY <1>1, <1>4 DEF CommandInv, Reply
  <2>2. \A i, name : ~Granted(results, i, name)' /\ i \notin DOMAIN results'
    BY <2>1 DEF Granted
  <2>3. DoneIsThere(results)' /\ RestIsUntouched(results)'
    BY <1>1, <1>4, <2>2 DEF DoneIsThere, RestIsUntouched
  <2>4. request' \in Seq(OfferedVerbs) /\ Len(request') = 1 /\ request'[1] = v
    BY <1>2, <1>4
  <2>5. Len(results') = 0
    BY <2>1
  <2>6. AtWork'
    BY <1>1, <1>2, <1>4, <2>1, <2>3, <2>4, <2>5 DEF AtWork
  <2>7. CommandTypeOK' /\ MountsDiffer'
    BY <1>1, <1>3, <1>4, <2>1, <2>4 DEF CommandTypeOK, MountsDiffer
  <2> QED BY <1>1, <1>2, <2>6, <2>7 DEF CommandInv
<1>5. CASE front = f /\ request' = Append(request, v) /\ UNCHANGED <<reply, prior>>
  <2>1. AtWork
    BY <1>2, <1>5 DEF CommandInv
  <2>2. Len(request) = Len(results) /\ request \in Seq(OfferedVerbs) /\ results \in Seq(Kinds)
    BY <1>1, <1>3, <2>1 DEF AtWork, CommandTypeOK
  <2>3. /\ request' \in Seq(OfferedVerbs) /\ Len(request') = Len(request) + 1 /\ request'[Len(request) + 1] = v
        /\ \A i \in 1 .. Len(request) : request'[i] = request[i]
    BY <1>2, <1>5, <2>2, OneAppended
  <2>4. DOMAIN results = 1 .. Len(request) /\ Len(request) \in Nat
    BY <2>2
  <2>5. \A i \in DOMAIN results : request'[i] = request[i]
    BY <2>3, <2>4
  <2>6. Len(request') = 1 => DOMAIN results = {}
    <3>1. \A n \in Nat : n + 1 = 1 => 1 .. n = {}
      OBVIOUS
    <3> QED BY <2>3, <2>4, <3>1
  <2>7. DoneIsThere(results) /\ RestIsUntouched(results)
    BY <2>1 DEF AtWork
  <2>8. DoneIsThere(results)' /\ RestIsUntouched(results)'
    BY <1>1, <1>5, <2>5, <2>6, <2>7, MoreRequested, DoneMeans, RestMeans
  <2>9. AtWork'
    BY <1>1, <1>2, <1>5, <2>1, <2>2, <2>3, <2>4, <2>8 DEF AtWork
  <2>10. CommandTypeOK' /\ MountsDiffer'
    BY <1>1, <1>3, <1>5, <2>3 DEF CommandTypeOK, MountsDiffer
  <2> QED BY <1>1, <1>2, <2>9, <2>10 DEF CommandInv
<1> QED BY <1>4, <1>5 DEF Enter

\* Every command that is answered, and every one that fails.
LEMMA AnswerKeeps ==
  ASSUME CommandInv, verb # Nothing, NEW kind \in Kinds, Object(kind), Effect(kind),
         NEW c \in SUBSET Media, NEW b \in SUBSET Media,
         holdings' = [holdings EXCEPT !.catalogue = c, !.backup = b, !.mounts = holdings'.mounts]
  PROVE  CommandInv'
<1>1. front # "none" /\ holdings \in Holdings
  BY InHand
<1>2. holdings'.mounts \in Seq(Mounts)
  BY MountsKeep
<1> DEFINE ms == holdings'.mounts
<1>3. [holdings EXCEPT !.catalogue = c, !.backup = b, !.mounts = ms] \in Holdings
  <2> HIDE DEF ms
  <2> QED BY <1>1, <1>2 DEF Holdings, ms
<1>4. holdings' \in Holdings
  BY <1>3
<1> QED BY <1>1, <1>4, ObjectKeeps

LEMMA DispatchKeeps ==
  ASSUME CommandInv,
         \/ DispatchScan \/ DispatchAdd \/ DispatchQuery \/ DispatchSearch \/ DispatchClean \/ DispatchBackup
         \/ DispatchSync \/ DispatchPathAdd \/ DispatchPathRemove \/ DispatchUnknown,
         verb # Nothing
  PROVE  CommandInv'
<1> DEFINE hs == holdings
<1>1. /\ hs \in Holdings /\ disk \in SUBSET Media
      /\ verb.name = "paths add" => verb.arg \in Mounts
      /\ verb.name = "paths remove" => verb.arg \in Nat
  BY InHand
<1>2. hs.catalogue \in SUBSET Media /\ hs.backup \in SUBSET Media
  BY <1>1 DEF Holdings
<1>3. "result" \in Kinds /\ "error" \in Kinds
  BY DEF Kinds
<1>4. ASSUME NEW kind \in Kinds, Object(kind), UNCHANGED holdings,
             kind = "result" => verb.name \notin {"scan", "confirmed clean", "backup", "paths add", "paths remove"}
      PROVE  CommandInv'
  <2>1. Effect(kind)
    BY <1>4 DEF Effect
  <2> QED BY <1>1, <1>4, <2>1, InHand, ObjectKeeps
<1>5. ASSUME Raises, UNCHANGED holdings, verb.name # "batches add" PROVE CommandInv'
  BY <1>1, <1>5, RaisesKeeps
<1>6. CASE DispatchScan
  <2>1. verb.name = "scan" /\ Object("result") /\ hs' = [hs EXCEPT !.catalogue = @ \cup disk]
    BY <1>6 DEF DispatchScan, Result, Scanned
  <2>2. /\ hs'.catalogue = hs.catalogue \cup disk /\ hs'.backup = hs.backup /\ hs'.mounts = hs.mounts
        /\ hs' \in Holdings
    BY <1>1, <2>1 DEF Holdings
  <2>3. Effect("result")
    BY <2>1, <2>2 DEF Effect
  <2> QED BY <1>3, <2>1, <2>2, <2>3, InHand, ObjectKeeps
<1>7. CASE DispatchAdd
  <2>1. CASE disk = {}
    BY <1>3, <1>4, <1>7, <2>1 DEF DispatchAdd, Result
  <2>2. CASE disk # {}
    <3>1. verb.name = "batches add" /\ Raises /\ hs' = [hs EXCEPT !.catalogue = @ \cup disk]
      BY <1>7, <2>2 DEF DispatchAdd, Scanned
    <3>2. disk \subseteq hs'.catalogue /\ hs'.backup = hs.backup /\ hs'.mounts = hs.mounts /\ hs' \in Holdings
      BY <1>1, <3>1 DEF Holdings
    <3> QED BY <3>1, <3>2, RaisesKeeps
  <2> QED BY <2>1, <2>2
<1>8. CASE DispatchQuery
  <2>1. verb.name \in {"ask", "list"} /\ Object("result") /\ UNCHANGED holdings
    BY <1>8 DEF DispatchQuery, Rows, Result
  <2> QED BY <1>3, <1>4, <2>1
<1>9. CASE DispatchSearch
  <2>1. CASE LosesKey
    BY <1>5, <1>9, <2>1 DEF DispatchSearch
  <2>2. CASE ~LosesKey
    BY <1>3, <1>4, <1>9, <2>2 DEF DispatchSearch, Rows, Result
  <2> QED BY <2>1, <2>2
<1>10. CASE DispatchClean
  <2>1. CASE verb.name = "clean" /\ ErrorObject /\ UNCHANGED holdings
    BY <1>3, <1>4, <2>1 DEF ErrorObject
  <2>2. CASE verb.name = "confirmed clean" /\ Result /\ hs' = [hs EXCEPT !.catalogue = {}]
    <3>1. Object("result")
      BY <2>2 DEF Result
    <3>2. hs'.catalogue = {} /\ hs'.backup = hs.backup /\ hs'.mounts = hs.mounts /\ hs' \in Holdings
      BY <1>1, <2>2 DEF Holdings
    <3>3. Effect("result")
      BY <2>2, <3>2 DEF Effect
    <3> QED BY <1>3, <3>1, <3>2, <3>3, InHand, ObjectKeeps
  <2> QED BY <1>10, <2>1, <2>2 DEF DispatchClean
<1>11. CASE DispatchBackup
  <2>1. verb.name = "backup" /\ Object("result") /\ hs' = [hs EXCEPT !.backup = @ \cup (hs.catalogue \cap disk)]
    BY <1>11 DEF DispatchBackup, Result
  <2>2. /\ hs'.catalogue = hs.catalogue /\ hs'.backup = hs.backup \cup (hs.catalogue \cap disk) /\ hs'.mounts = hs.mounts
        /\ hs' \in Holdings
    BY <1>1, <2>1 DEF Holdings
  <2>3. Effect("result")
    BY <2>1, <2>2 DEF Effect
  <2> QED BY <1>3, <2>1, <2>2, <2>3, InHand, ObjectKeeps
<1>12. CASE DispatchSync
  BY <1>5, <1>12 DEF DispatchSync
<1>13. CASE DispatchPathAdd
  <2>1. CASE Contains(hs.mounts, verb.arg)
    BY <1>3, <1>4, <1>13, <2>1 DEF DispatchPathAdd, ErrorObject
  <2>2. CASE ~Contains(hs.mounts, verb.arg)
    <3>1. verb.name = "paths add" /\ Object("result") /\ hs' = [hs EXCEPT !.mounts = Append(@, verb.arg)]
      BY <1>13, <2>2 DEF DispatchPathAdd, Result
    <3>2. hs'.catalogue = hs.catalogue /\ hs'.backup = hs.backup /\ hs'.mounts = Append(hs.mounts, verb.arg)
      BY <1>1, <3>1 DEF Holdings
    <3>3. Effect("result")
      BY <1>1, <2>2, <3>1, <3>2 DEF Effect
    <3>4. hs' = [hs EXCEPT !.catalogue = hs.catalogue, !.backup = hs.backup, !.mounts = hs'.mounts]
      BY <1>1, <3>1, <3>2 DEF Holdings
    <3> QED BY <1>2, <1>3, <3>1, <3>3, <3>4, AnswerKeeps
  <2> QED BY <2>1, <2>2
<1>14. CASE DispatchPathRemove
  <2>1. CASE LosesKey \/ verb.arg >= Len(hs.mounts)
    BY <1>5, <1>14, <2>1 DEF DispatchPathRemove
  <2>2. CASE ~(LosesKey \/ verb.arg >= Len(hs.mounts))
    <3>1. verb.name = "paths remove" /\ Object("result") /\ hs' = [hs EXCEPT !.mounts = RemoveAt(@, verb.arg + 1)]
      BY <1>14, <2>2 DEF DispatchPathRemove, Result
    <3>2. hs'.catalogue = hs.catalogue /\ hs'.backup = hs.backup /\ hs'.mounts = RemoveAt(hs.mounts, verb.arg + 1)
      BY <1>1, <3>1 DEF Holdings
    <3>3. Len(hs.mounts) \in Nat /\ verb.arg \in Nat
      <4>1. hs.mounts \in Seq(Mounts)
        BY <1>1 DEF Holdings
      <4>2. Len(hs.mounts) \in Nat
        BY <4>1
      <4> HIDE DEF hs
      <4>3. verb.arg \in Nat
        BY <1>1, <3>1
      <4> QED BY <4>2, <4>3
    <3>4. \A a, n \in Nat : ~(a >= n) => a < n
      OBVIOUS
    <3>5. verb.arg < Len(hs.mounts)
      BY <2>2, <3>3, <3>4
    <3>6. Effect("result")
      BY <3>1, <3>2, <3>3, <3>5 DEF Effect
    <3>7. hs' = [hs EXCEPT !.catalogue = hs.catalogue, !.backup = hs.backup, !.mounts = hs'.mounts]
      BY <1>1, <3>1, <3>2 DEF Holdings
    <3> QED BY <1>2, <1>3, <3>1, <3>6, <3>7, AnswerKeeps
  <2> QED BY <2>1, <2>2
<1>15. CASE DispatchUnknown
  BY <1>3, <1>4, <1>15 DEF DispatchUnknown, ErrorObject
<1> QED BY <1>6, <1>7, <1>8, <1>9, <1>10, <1>11, <1>12, <1>13, <1>14, <1>15

LEMMA CommandNextInv == CommandInv /\ [CommandNext]_commandVars => CommandInv'
<1> SUFFICES ASSUME CommandInv, [CommandNext]_commandVars PROVE CommandInv'
  OBVIOUS
<1>1. CASE verb # Nothing /\ CommandNext
  <2>1. ~PrintResults /\ \A f, v : ~Enter(f, v)
    BY <1>1 DEF PrintResults, Enter
  <2> QED BY <1>1, <2>1, DispatchKeeps, VanishKeeps DEF CommandNext
<1>2. CASE verb = Nothing /\ CommandNext
  <2>1. verb.name = "nothing"
    BY <1>2 DEF Nothing, V
  <2>2. ~DispatchScan /\ ~DispatchAdd /\ ~DispatchQuery /\ ~DispatchSearch /\ ~DispatchClean
    BY <2>1 DEF DispatchScan, DispatchAdd, DispatchQuery, DispatchSearch, DispatchClean
  <2>3. ~DispatchBackup /\ ~DispatchSync /\ ~DispatchPathAdd /\ ~DispatchPathRemove
    BY <2>1 DEF DispatchBackup, DispatchSync, DispatchPathAdd, DispatchPathRemove
  <2>4. ~DispatchUnknown
    BY <2>1 DEF DispatchUnknown, LosesCmd, UnknownVerbs
  <2> QED BY <1>2, <2>2, <2>3, <2>4, PrintKeeps, VanishKeeps, EnterKeeps DEF CommandNext
<1>3. CASE UNCHANGED commandVars
  <2>1. UNCHANGED <<disk, holdings, front, verb, results, reply, request, prior>>
    BY <1>3 DEF commandVars
  <2>2. CommandTypeOK' /\ MountsDiffer'
    BY <2>1 DEF CommandInv, CommandTypeOK, MountsDiffer
  <2>3. CASE front = "none"
    <3>1. RepliesAreTrue'
      BY <2>1, <2>3, DoneMeans, RestMeans DEF CommandInv, RepliesAreTrue
    <3> QED BY <2>1, <2>2, <2>3, <3>1 DEF CommandInv
  <2>4. CASE front # "none"
    <3>1. AtWork'
      BY <2>1, <2>4, DoneMeans, RestMeans DEF CommandInv, AtWork
    <3> QED BY <2>1, <2>2, <2>4, <3>1 DEF CommandInv
  <2> QED BY <2>3, <2>4
<1> QED BY <1>1, <1>2, <1>3

\* Commands.RepliesAreTrue, for any files, network paths and length of workflows. A
\* reply is what whoever asked reads, and the state it is held against is moved by the
\* commands themselves: a list answers every command of the request, what it calls
\* done is there unless a later command undid it, and nothing else was changed. That
\* a single failed command left nothing behind excepts "batches add"; of a longer
\* workflow that failed nothing is claimed, and of a completed job that it did
\* nothing.
THEOREM AnswersHold == CommandInit /\ [][CommandNext]_commandVars => []RepliesAreTrue
<1>1. CommandInv => RepliesAreTrue
  <2>1. ASSUME AtWork PROVE RepliesAreTrue
    BY <2>1 DEF AtWork, RepliesAreTrue
  <2> QED BY <2>1 DEF CommandInv
<1> QED BY <1>1, CommandInitInv, CommandNextInv, PTL

-----------------------------------------------------------------------------
(* The tools that choose frames of a film. *)

\* Ranges in their order, with a frame between two of them.
Apart(rs) ==
  /\ rs \in Seq(Nat \X Nat)
  /\ \A i \in DOMAIN rs : rs[i][1] < rs[i][2] /\ rs[i][2] <= LastFrame
  /\ \A i, j \in DOMAIN rs : i < j => rs[i][2] < rs[j][1]

\* The stretch that the scan is in began idleCnt frames ago, and the stretches that
\* ended are on the list; but where no frame at all is long enough, there is no list.
NoStretch == startIdle = -1 /\ ranges = <<>>
ScanInv ==
  /\ idleCnt \in 0 .. fidx /\ (fidx = 0 \/ fidx <= LastFrame) /\ Still(fidx - idleCnt, fidx)
  /\ idleCnt < fidx => ~Same(fidx - idleCnt - 1, fidx - idleCnt)
  /\ startIdle = IF idleCnt >= span THEN fidx - idleCnt ELSE -1
  /\ ranges \in Seq(Nat \X Nat) /\ ToSet(ranges) = {r \in Stretches : r[2] < fidx}
  /\ \A i, j \in DOMAIN ranges : i < j => ranges[i][1] < ranges[j][1]

\* The frame looked at last is span frames before the next one to look at.
SampleInv ==
  \/ prevGray = -1 /\ fidx = 0
  \/ /\ prevGray \in 0 .. fidx - 1 /\ prevGray % span = 0 /\ fidx - prevGray <= span
     /\ fidx % span = (IF fidx - prevGray = span THEN 0 ELSE fidx - prevGray)

FrameTypeOK ==
  /\ film \in Seq(Pictures) /\ span \in Nat /\ (tool = "motion" => span # 0) /\ fidx \in Nat
  /\ tool \in {"opencv", "ffmpeg", "motion"} /\ tpc \in {"scan", "cut", "done", "gone", "raised"}
  /\ tool = "motion" => saved \in Seq(Nat)

Found(rs) == IF span = 0 THEN rs = <<>> ELSE Lists(rs)

FrameInv ==
  /\ FrameTypeOK
  /\ tool = "opencv" /\ tpc = "scan" => idleCnt \in Nat /\ IF span = 0 THEN NoStretch ELSE ScanInv
  /\ tool # "motion" /\ tpc = "cut" => Apart(ranges) /\ (tool = "opencv" => Found(ranges))
  /\ tool = "motion" /\ tpc = "scan" => SampleInv
  /\ FramesAreRight

-----------------------------------------------------------------------------
LEMMA ApartFacts ==
  ASSUME NEW rs, Apart(rs)
  PROVE  /\ Len(rs) \in Nat /\ DOMAIN rs = 1 .. Len(rs)
         /\ \A j \in 1 .. Len(rs) : rs[j][1] \in Nat /\ rs[j][2] \in Nat /\ rs[j][1] < rs[j][2] /\ rs[j][2] <= LastFrame
         /\ \A i, j \in 1 .. Len(rs) : i < j => rs[i][2] < rs[j][1]
         /\ \A i, j \in 1 .. Len(rs) : i <= j => rs[i][1] <= rs[j][1] /\ rs[i][2] <= rs[j][2]
         /\ \A k : InRange(k, rs) <=> \E j \in 1 .. Len(rs) : k \in Frames(rs[j])
<1>1. Len(rs) \in Nat /\ DOMAIN rs = 1 .. Len(rs)
  BY DEF Apart
<1>2. \A j \in 1 .. Len(rs) : rs[j][1] \in Nat /\ rs[j][2] \in Nat
  BY <1>1 DEF Apart
<1>3. \A j \in 1 .. Len(rs) : rs[j][1] < rs[j][2] /\ rs[j][2] <= LastFrame
  BY <1>1 DEF Apart
<1>4. \A i, j \in 1 .. Len(rs) : i < j => rs[i][2] < rs[j][1]
  BY <1>1 DEF Apart
<1>5. \A i, j \in 1 .. Len(rs) : i <= j => rs[i][1] <= rs[j][1] /\ rs[i][2] <= rs[j][2]
  BY <1>1, <1>2, <1>3, <1>4
<1> QED BY <1>1, <1>2, <1>3, <1>4, <1>5 DEF InRange

\* No frame of a gap is in a range.
LEMMA GapOutside ==
  ASSUME NEW rs, Apart(rs), NEW dur \in Nat, NEW i \in 1 .. Len(rs) + 1,
         NEW k \in Frames(Gap(rs, i, dur))
  PROVE  ~InRange(k, rs) /\ k \in Nat
<1>1. Len(rs) \in Nat
  BY ApartFacts
<1>2. \A j \in 1 .. Len(rs) : rs[j][1] \in Nat /\ rs[j][2] \in Nat /\ rs[j][1] < rs[j][2]
  BY ApartFacts
<1>3. i # 1 => i - 1 \in 1 .. Len(rs) /\ rs[i - 1][2] <= k
  BY <1>1, <1>2 DEF Frames, Gap
<1>4. i <= Len(rs) => i \in 1 .. Len(rs) /\ k < rs[i][1]
  BY <1>1, <1>2 DEF Frames, Gap
<1>5. k \in Nat
  <2>1. CASE i = 1
    BY <2>1, <1>1, <1>2 DEF Frames, Gap
  <2>2. CASE i # 1
    BY <2>2, <1>1, <1>2, <1>3 DEF Frames, Gap
  <2> QED BY <2>1, <2>2
<1>6. ASSUME NEW j \in 1 .. Len(rs)
      PROVE  k \notin Frames(rs[j])
  <2>1. CASE j < i
    <3>1. j <= i - 1 /\ i # 1 /\ i - 1 \in 1 .. Len(rs)
      BY <2>1, <1>1
    <3>2. rs[j][2] <= rs[i - 1][2]
      BY <3>1, ApartFacts
    <3>3. rs[j][2] <= k
      BY <3>1, <3>2, <1>2, <1>3, <1>5
    <3> QED BY <3>3, <1>2, <1>5 DEF Frames
  <2>2. CASE j >= i
    <3>1. i <= Len(rs) /\ i \in 1 .. Len(rs) /\ i <= j
      BY <2>2, <1>1
    <3>2. rs[i][1] <= rs[j][1]
      BY <3>1, ApartFacts
    <3>3. k < rs[j][1]
      BY <3>1, <3>2, <1>2, <1>4, <1>5
    <3> QED BY <3>3, <1>2, <1>5 DEF Frames
  <2> QED BY <2>1, <2>2, <1>1
<1> QED BY <1>5, <1>6, ApartFacts

\* A frame outside the ranges is in a gap; if it is before one, the film's length
\* does not matter.
LEMMA GapCovers ==
  ASSUME NEW rs, Apart(rs), NEW dur \in Nat, NEW k \in Nat, ~InRange(k, rs),
         k < dur \/ \E j \in DOMAIN rs : k < rs[j][1]
  PROVE  \E i \in Inverted(rs, dur) : k \in Frames(Gap(rs, i, dur))
<1>1. Len(rs) \in Nat /\ DOMAIN rs = 1 .. Len(rs)
  BY ApartFacts
<1>2. \A j \in 1 .. Len(rs) : rs[j][1] \in Nat /\ rs[j][2] \in Nat /\ rs[j][1] < rs[j][2]
  BY ApartFacts
<1>3. \A j \in 1 .. Len(rs) : k < rs[j][1] \/ rs[j][2] <= k
  <2> SUFFICES ASSUME NEW j \in 1 .. Len(rs)
               PROVE  k < rs[j][1] \/ rs[j][2] <= k
    OBVIOUS
  <2>1. k \notin Frames(rs[j])
    BY ApartFacts
  <2> QED BY <2>1, <1>2 DEF Frames
<1>4. SUFFICES \E i \in 1 .. Len(rs) + 1 :
                 /\ Gap(rs, i, dur)[1] \in Nat /\ Gap(rs, i, dur)[2] \in Nat
                 /\ Gap(rs, i, dur)[1] <= k /\ k < Gap(rs, i, dur)[2]
  <2> SUFFICES ASSUME NEW i \in 1 .. Len(rs) + 1,
                      Gap(rs, i, dur)[1] \in Nat, Gap(rs, i, dur)[2] \in Nat,
                      Gap(rs, i, dur)[1] <= k, k < Gap(rs, i, dur)[2]
               PROVE  i \in Inverted(rs, dur) /\ k \in Frames(Gap(rs, i, dur))
    BY <1>4
  <2> QED BY DEF Inverted, Frames
<1>5. CASE \A j \in 1 .. Len(rs) : rs[j][2] <= k
  <2>1. k < dur
    <3>1. ASSUME NEW j \in 1 .. Len(rs), k < rs[j][1]
          PROVE  FALSE
      BY <3>1, <1>2, <1>5
    <3> QED BY <3>1, <1>1
  <2>2. CASE Len(rs) = 0
    <3>1. Gap(rs, 1, dur) = <<0, dur>> /\ 1 \in 1 .. Len(rs) + 1
      BY <2>2 DEF Gap
    <3> QED BY <2>1, <3>1
  <2>3. CASE Len(rs) # 0
    <3>1. /\ Len(rs) + 1 # 1 /\ (Len(rs) + 1) - 1 = Len(rs) /\ Len(rs) \in 1 .. Len(rs)
          /\ Len(rs) + 1 > Len(rs) /\ Len(rs) + 1 \in 1 .. Len(rs) + 1
      BY <2>3, <1>1
    <3>2. Gap(rs, Len(rs) + 1, dur) = <<rs[Len(rs)][2], dur>>
      BY <3>1 DEF Gap
    <3>3. rs[Len(rs)][2] \in Nat /\ rs[Len(rs)][2] <= k
      BY <3>1, <1>2, <1>5
    <3>4. Gap(rs, Len(rs) + 1, dur)[1] = rs[Len(rs)][2] /\ Gap(rs, Len(rs) + 1, dur)[2] = dur
      BY <3>2
    <3> QED BY <2>1, <3>1, <3>3, <3>4
  <2> QED BY <2>2, <2>3
<1>6. CASE \E j \in 1 .. Len(rs) : k < rs[j][1]
  <2> DEFINE Later == {j \in 1 .. Len(rs) : k < rs[j][1]}
  <2>1. Later \in SUBSET Nat /\ Later # {}
    BY <1>1, <1>6
  <2>2. PICK i \in Later : \A j \in Later : i <= j
    <3> HIDE DEF Later
    <3> QED BY <2>1, LeastOne
  <2>3. i \in 1 .. Len(rs) /\ k < rs[i][1] /\ rs[i][1] \in Nat /\ i \in 1 .. Len(rs) + 1 /\ ~(i > Len(rs))
    BY <1>1, <1>2
  <2>4. CASE i = 1
    <3>1. Gap(rs, i, dur) = <<0, rs[i][1]>>
      BY <2>3, <2>4 DEF Gap
    <3>2. Gap(rs, i, dur)[1] = 0 /\ Gap(rs, i, dur)[2] = rs[i][1]
      BY <3>1
    <3> QED BY <2>3, <3>2
  <2>5. CASE i # 1
    <3>1. i - 1 \in 1 .. Len(rs) /\ ~(i <= i - 1)
      BY <2>3, <2>5, <1>1
    <3>2. i - 1 \notin Later
      BY <3>1, <2>2
    <3>3. rs[i - 1][2] <= k /\ rs[i - 1][2] \in Nat
      BY <3>1, <3>2, <1>2, <1>3
    <3>4. Gap(rs, i, dur) = <<rs[i - 1][2], rs[i][1]>>
      BY <2>3, <2>5 DEF Gap
    <3>5. Gap(rs, i, dur)[1] = rs[i - 1][2] /\ Gap(rs, i, dur)[2] = rs[i][1]
      BY <3>4
    <3> QED BY <2>3, <3>3, <3>5
  <2> QED BY <2>4, <2>5
<1> QED BY <1>3, <1>5, <1>6

\* f follows the filters of a chain up to the n-th.
FollowsChain(f, rs, dur, n) ==
  f = [i \in 0 .. n |->
         IF i = 0 THEN <<0, dur>>
         ELSE IF i \in Inverted(rs, dur) THEN Trimmed(f[i - 1], Gap(rs, i, dur)) ELSE f[i - 1]]

LEMMA ChainPoints ==
  ASSUME NEW f, NEW rs, NEW dur, NEW n \in Nat, FollowsChain(f, rs, dur, n)
  PROVE  /\ f[0] = <<0, dur>>
         /\ \A i \in 1 .. n : f[i] = IF i \in Inverted(rs, dur)
                                   THEN Trimmed(f[i - 1], Gap(rs, i, dur)) ELSE f[i - 1]
<1>1. \A i \in 0 .. n :
        f[i] = IF i = 0 THEN <<0, dur>>
               ELSE IF i \in Inverted(rs, dur) THEN Trimmed(f[i - 1], Gap(rs, i, dur)) ELSE f[i - 1]
  BY DEF FollowsChain
<1>2. 0 \in 0 .. n /\ \A i \in 1 .. n : i \in 0 .. n /\ i # 0
  OBVIOUS
<1> QED BY <1>1, <1>2

LEMMA ChainExists ==
  ASSUME NEW rs, NEW dur, NEW m \in Nat
  PROVE  \E f : FollowsChain(f, rs, dur, m)
<1> DEFINE Filtered(w, i) == IF i \in Inverted(rs, dur) THEN Trimmed(w, Gap(rs, i, dur)) ELSE w
           S == {n \in Nat : \E f : FollowsChain(f, rs, dur, n)}
<1>1. 0 \in S
  <2>1. FollowsChain([i \in 0 .. 0 |-> <<0, dur>>], rs, dur, 0)
    BY DEF FollowsChain
  <2> QED BY <2>1
<1>2. ASSUME NEW n \in S
      PROVE  n + 1 \in S
  <2>1. PICK f : FollowsChain(f, rs, dur, n)
    OBVIOUS
  <2> DEFINE g == [i \in 0 .. n + 1 |-> IF i = n + 1 THEN Filtered(f[n], n + 1) ELSE f[i]]
  <2>2. \A i \in 0 .. n + 1 : g[i] = IF i = 0 THEN <<0, dur>> ELSE Filtered(g[i - 1], i)
    <3> HIDE DEF Filtered
    <3>0. \A i \in 1 .. n : f[i] = Filtered(f[i - 1], i)
      BY <2>1, ChainPoints DEF Filtered
    <3> SUFFICES ASSUME NEW i \in 0 .. n + 1
                 PROVE  g[i] = IF i = 0 THEN <<0, dur>> ELSE Filtered(g[i - 1], i)
      OBVIOUS
    <3>1. CASE i = 0
      BY <2>1, <3>1, ChainPoints
    <3>2. CASE i \in 1 .. n
      <4>1. g[i] = f[i] /\ g[i - 1] = f[i - 1] /\ i # 0
        BY <3>2
      <4> QED BY <3>0, <3>2, <4>1
    <3>3. CASE i = n + 1
      <4>1. g[i] = Filtered(f[n], n + 1) /\ i # 0 /\ i - 1 = n
        BY <3>3
      <4>2. g[n] = f[n]
        OBVIOUS
      <4> QED BY <3>3, <4>1, <4>2
    <3> QED BY <3>1, <3>2, <3>3
  <2>3. g = [i \in 0 .. n + 1 |-> IF i = 0 THEN <<0, dur>> ELSE Filtered(g[i - 1], i)]
    <3> HIDE DEF Filtered
    <3> QED BY <2>2
  <2> HIDE DEF g
  <2>4. FollowsChain(g, rs, dur, n + 1)
    BY <2>3 DEF FollowsChain
  <2> QED BY <2>4
<1>3. S = Nat
  <2> HIDE DEF S
  <2>1. S \in SUBSET Nat
    BY DEF S
  <2> QED BY <1>1, <1>2, <2>1, SetInduction
<1> QED BY <1>3

LEMMA ChainedFollows ==
  ASSUME NEW rs, NEW dur, Len(rs) \in Nat
  PROVE  \E f : FollowsChain(f, rs, dur, Len(rs) + 1) /\ Chained(rs, dur) = f[Len(rs) + 1]
<1> DEFINE f == CHOOSE g : FollowsChain(g, rs, dur, Len(rs) + 1)
<1>1. FollowsChain(f, rs, dur, Len(rs) + 1)
  BY ChainExists
<1>2. Chained(rs, dur) = f[Len(rs) + 1]
  BY DEF Chained, FollowsChain
<1> QED BY <1>1, <1>2

\* What a chain leaves lies in one of the gaps, and is all of it if there is no other.
LEMMA ChainedInGap ==
  ASSUME NEW rs, Apart(rs), NEW dur \in Nat, LastFrame \in Int, LastFrame < dur, Inverted(rs, dur) # {}
  PROVE  \E i \in Inverted(rs, dur) :
           /\ Frames(Chained(rs, dur)) \subseteq Frames(Gap(rs, i, dur))
           /\ Inverted(rs, dur) = {i} => Chained(rs, dur) = Gap(rs, i, dur)
<1> DEFINE n == Len(rs) + 1
           Keep == Inverted(rs, dur)
           G(i) == Gap(rs, i, dur)
<1>1. n \in Nat /\ Keep \subseteq 1 .. n
  BY ApartFacts DEF Inverted
<1>2. \A i \in Keep : G(i)[1] \in Nat /\ G(i)[2] \in Nat /\ G(i)[2] <= dur /\ G(i) = <<G(i)[1], G(i)[2]>>
  <2> SUFFICES ASSUME NEW i \in Keep
               PROVE  G(i)[1] \in Nat /\ G(i)[2] \in Nat /\ G(i)[2] <= dur
    BY DEF Gap
  <2>1. i \in 1 .. Len(rs) + 1
    BY <1>1
  <2>2. i # 1 => i - 1 \in 1 .. Len(rs) /\ rs[i - 1][2] \in Nat
    BY <2>1, ApartFacts
  <2>3. i <= Len(rs) => rs[i][1] \in Nat /\ rs[i][1] <= dur
    <3>1. ASSUME i <= Len(rs)
          PROVE  rs[i][1] \in Nat /\ rs[i][1] <= dur
      <4>1. i \in 1 .. Len(rs)
        BY <2>1, <3>1, ApartFacts
      <4>2. rs[i][1] \in Nat /\ rs[i][2] \in Nat /\ rs[i][1] < rs[i][2] /\ rs[i][2] <= LastFrame
        BY <4>1, ApartFacts
      <4> QED BY <4>2
    <3> QED BY <3>1
  <2>4. G(i)[1] \in Nat
    BY <2>2 DEF Gap
  <2>5. G(i)[2] \in Nat /\ G(i)[2] <= dur
    <3>1. CASE i > Len(rs)
      BY <3>1 DEF Gap
    <3>2. CASE ~(i > Len(rs))
      BY <2>1, <2>3, <3>2, ApartFacts DEF Gap
    <3> QED BY <3>1, <3>2
  <2> QED BY <2>4, <2>5
<1>3. PICK f : FollowsChain(f, rs, dur, n) /\ Chained(rs, dur) = f[n]
  BY ChainedFollows, ApartFacts
<1> HIDE DEF n, Keep, G
<1>4. /\ f[0] = <<0, dur>>
      /\ \A i \in 1 .. n : f[i] = IF i \in Keep THEN Trimmed(f[i - 1], G(i)) ELSE f[i - 1]
  BY <1>1, <1>3, ChainPoints DEF Keep, G
<1> DEFINE Untouched(k) == f[k] = <<0, dur>> /\ \A i \in Keep : i > k
           InGap(k, i) ==
                           /\ f[k] = <<f[k][1], f[k][2]>> /\ f[k][1] \in Nat /\ f[k][2] \in Nat
                           /\ G(i)[1] <= f[k][1] /\ f[k][2] <= G(i)[2]
                           /\ (\A j \in Keep : j <= k => j = i) => f[k] = G(i)
           S == {k \in Nat : k <= n => Untouched(k) \/ \E i \in Keep : i <= k /\ InGap(k, i)}
<1>5. 0 \in S
  <2>1. Untouched(0)
    BY <1>1, <1>4
  <2> QED BY <2>1
<1>6. ASSUME NEW k \in S
      PROVE  k + 1 \in S
  <2> SUFFICES ASSUME k + 1 <= n
               PROVE  Untouched(k + 1) \/ \E i \in Keep : i <= k + 1 /\ InGap(k + 1, i)
    BY <1>6
  <2>0. k \in Nat /\ k <= n /\ k + 1 \in 1 .. n /\ (k + 1) - 1 = k
    BY <1>1
  <2>1. Untouched(k) \/ \E i \in Keep : i <= k /\ InGap(k, i)
    BY <2>0
  <2>2. f[k + 1] = IF k + 1 \in Keep THEN Trimmed(f[k], G(k + 1)) ELSE f[k]
    BY <2>0, <1>4
  <2>3. \A j \in Keep : j \in Nat
    BY <1>1
  <2>4. CASE k + 1 \notin Keep
    <3>1. f[k + 1] = f[k] /\ \A j \in Keep : (j <= k + 1 <=> j <= k) /\ (j > k => j > k + 1)
      BY <2>0, <2>2, <2>3, <2>4
    <3>2. CASE Untouched(k)
      BY <3>1, <3>2
    <3>3. ASSUME NEW i \in Keep, i <= k, InGap(k, i)
          PROVE  i <= k + 1 /\ InGap(k + 1, i)
      BY <3>1, <3>3
    <3> QED BY <2>1, <3>2, <3>3
  <2>5. CASE k + 1 \in Keep
    <3>0. G(k + 1)[1] \in Nat /\ G(k + 1)[2] \in Nat /\ G(k + 1)[2] <= dur /\ G(k + 1) = <<G(k + 1)[1], G(k + 1)[2]>>
      BY <2>5, <1>2
    <3>1. CASE Untouched(k)
      <4>1. f[k + 1] = <<0 + G(k + 1)[1], IF 0 + G(k + 1)[2] < dur THEN 0 + G(k + 1)[2] ELSE dur>>
        BY <2>2, <2>5, <3>1 DEF Trimmed
      <4>2. 0 + G(k + 1)[1] = G(k + 1)[1]
            /\ (IF 0 + G(k + 1)[2] < dur THEN 0 + G(k + 1)[2] ELSE dur) = G(k + 1)[2]
        BY <3>0
      <4>3. f[k + 1] = G(k + 1)
        BY <4>1, <4>2, <3>0
      <4>4. InGap(k + 1, k + 1)
        BY <4>3, <3>0
      <4> QED BY <4>4, <2>0, <2>5
    <3>2. ASSUME NEW i \in Keep, i <= k, InGap(k, i)
          PROVE  i <= k + 1 /\ InGap(k + 1, i)
      <4>1. f[k + 1] = <<f[k][1] + G(k + 1)[1],
                         IF f[k][1] + G(k + 1)[2] < f[k][2] THEN f[k][1] + G(k + 1)[2] ELSE f[k][2]>>
        BY <2>2, <2>5 DEF Trimmed
      <4>2. /\ f[k + 1] = <<f[k + 1][1], f[k + 1][2]>> /\ f[k + 1][1] = f[k][1] + G(k + 1)[1]
            /\ f[k + 1][2] = IF f[k][1] + G(k + 1)[2] < f[k][2] THEN f[k][1] + G(k + 1)[2] ELSE f[k][2]
        BY <4>1
      <4>3. /\ f[k + 1][1] \in Nat /\ f[k + 1][2] \in Nat /\ G(i)[1] <= f[k + 1][1] /\ f[k + 1][2] <= G(i)[2]
        <5>1. f[k][1] \in Nat /\ f[k][2] \in Nat /\ G(i)[1] \in Nat /\ G(i)[2] \in Nat /\ G(i)[1] <= f[k][1] /\ f[k][2] <= G(i)[2]
          <6>1. f[k][1] \in Nat /\ f[k][2] \in Nat /\ G(i)[1] <= f[k][1] /\ f[k][2] <= G(i)[2]
            BY <3>2, Zenon
          <6>2. G(i)[1] \in Nat /\ G(i)[2] \in Nat
            BY <3>2, <1>2, Zenon
          <6> QED BY <6>1, <6>2
        <5> QED BY <4>2, <5>1, <3>0
      <4>4. ~(\A j \in Keep : j <= k + 1 => j = i)
        BY <2>0, <2>5, <3>2, <2>3
      <4> QED BY <4>2, <4>3, <4>4, <3>2, <2>0, <2>3
    <3> QED BY <2>1, <3>1, <3>2
  <2> QED BY <2>4, <2>5
<1>7. S = Nat
  <2> HIDE DEF S
  <2>1. S \in SUBSET Nat
    BY DEF S
  <2> QED BY <1>5, <1>6, <2>1, SetInduction
<1>8. PICK i \in Keep : InGap(n, i)
  <2>1. Untouched(n) \/ \E i \in Keep : i <= n /\ InGap(n, i)
    BY <1>1, <1>7
  <2>2. ~Untouched(n)
    <3>1. Keep # {} /\ \A i \in Keep : ~(i > n)
      BY <1>1 DEF Keep
    <3> QED BY <3>1
  <2> QED BY <2>1, <2>2
<1>9. Frames(f[n]) \subseteq Frames(G(i))
  <2>1. f[n][1] \in Nat /\ f[n][2] \in Nat /\ G(i)[1] \in Nat /\ G(i)[2] \in Nat /\ G(i)[1] <= f[n][1] /\ f[n][2] <= G(i)[2]
    <3>1. f[n][1] \in Nat /\ f[n][2] \in Nat /\ G(i)[1] <= f[n][1] /\ f[n][2] <= G(i)[2]
      BY <1>8, Zenon
    <3>2. G(i)[1] \in Nat /\ G(i)[2] \in Nat
      BY <1>2, Zenon
    <3> QED BY <3>1, <3>2
  <2> QED BY <2>1 DEF Frames
<1>10. Keep = {i} => f[n] = G(i)
  <2>1. (\A j \in Keep : j <= n => j = i) => f[n] = G(i)
    BY <1>8, Zenon
  <2> QED BY <2>1, Zenon
<1> QED BY <1>3, <1>8, <1>9, <1>10 DEF Keep, G

LEMMA GapBounds ==
  ASSUME NEW rs, Apart(rs), NEW dur \in Nat, NEW i \in Inverted(rs, dur)
  PROVE  /\ i \in 1 .. Len(rs) + 1 /\ Gap(rs, i, dur)[1] \in Nat /\ Gap(rs, i, dur)[2] \in Nat
         /\ Gap(rs, i, dur)[1] < Gap(rs, i, dur)[2]
         /\ Gap(rs, i, dur)[1] = IF i = 1 THEN 0 ELSE rs[i - 1][2]
         /\ Gap(rs, i, dur)[2] = IF i > Len(rs) THEN dur ELSE rs[i][1]
<1>1. i \in 1 .. Len(rs) + 1 /\ Gap(rs, i, dur)[1] < Gap(rs, i, dur)[2] /\ Len(rs) \in Nat
  BY ApartFacts DEF Inverted
<1>2. /\ Gap(rs, i, dur)[1] = IF i = 1 THEN 0 ELSE rs[i - 1][2]
      /\ Gap(rs, i, dur)[2] = IF i > Len(rs) THEN dur ELSE rs[i][1]
  BY DEF Gap
<1>3. i = 1 \/ i - 1 \in 1 .. Len(rs)
  BY <1>1
<1>4. i > Len(rs) \/ i \in 1 .. Len(rs)
  BY <1>1
<1>5. Gap(rs, i, dur)[1] \in Nat
  BY <1>2, <1>3, ApartFacts
<1>6. Gap(rs, i, dur)[2] \in Nat
  BY <1>2, <1>4, ApartFacts
<1> QED BY <1>1, <1>2, <1>5, <1>6

\* A gap begins a piece of what is to be kept, and two gaps begin two.
LEMMA GapsArePieces ==
  ASSUME NEW rs, Apart(rs), NEW dur \in Nat, LastFrame = dur - 1,
         OnePiece({k \in 0 .. LastFrame : ~InRange(k, rs)}),
         NEW i \in Inverted(rs, dur), NEW j \in Inverted(rs, dur)
  PROVE  i = j
<1> DEFINE G(h) == Gap(rs, h, dur)
           W == {k \in 0 .. LastFrame : ~InRange(k, rs)}
<1>1. ASSUME NEW h \in Inverted(rs, dur)
      PROVE  G(h)[1] \in W /\ G(h)[1] - 1 \notin W
  <2>1. G(h)[1] \in Nat /\ G(h)[2] \in Nat /\ G(h)[1] < G(h)[2] /\ h \in 1 .. Len(rs) + 1
    BY GapBounds
  <2>2. G(h)[1] \in Frames(G(h))
    BY <2>1 DEF Frames
  <2>3. ~InRange(G(h)[1], rs)
    BY <2>1, <2>2, GapOutside
  <2>4. G(h)[1] <= LastFrame
    <3>1. CASE h > Len(rs)
      <4>1. G(h)[2] = dur
        BY <3>1, GapBounds
      <4> QED BY <4>1, <2>1
    <3>2. CASE ~(h > Len(rs))
      <4>1. h \in 1 .. Len(rs) /\ G(h)[2] = rs[h][1]
        BY <3>2, <2>1, GapBounds, ApartFacts
      <4>2. rs[h][1] \in Nat /\ rs[h][2] \in Nat /\ rs[h][1] < rs[h][2] /\ rs[h][2] <= LastFrame
        BY <4>1, ApartFacts
      <4> QED BY <4>1, <4>2, <2>1
    <3> QED BY <3>1, <3>2
  <2>5. G(h)[1] - 1 \notin W
    <3>1. CASE h = 1
      <4>1. G(h)[1] = 0
        BY <3>1, GapBounds
      <4> QED BY <4>1
    <3>2. CASE h # 1
      <4>1. h - 1 \in 1 .. Len(rs) /\ G(h)[1] = rs[h - 1][2]
        BY <3>2, <2>1, GapBounds, ApartFacts
      <4>2. rs[h - 1][1] \in Nat /\ rs[h - 1][2] \in Nat /\ rs[h - 1][1] < rs[h - 1][2]
        BY <4>1, ApartFacts
      <4>3. G(h)[1] - 1 \in Frames(rs[h - 1])
        BY <4>1, <4>2 DEF Frames
      <4>4. InRange(G(h)[1] - 1, rs)
        BY <4>1, <4>3, ApartFacts
      <4> QED BY <4>4
    <3> QED BY <3>1, <3>2
  <2> QED BY <2>1, <2>3, <2>4, <2>5
<1>2. G(i)[1] = G(j)[1]
  BY <1>1 DEF OnePiece
<1>3. ASSUME NEW h \in Inverted(rs, dur), NEW g \in Inverted(rs, dur), h < g
      PROVE  G(h)[1] < G(g)[1]
  <2>1. /\ h \in 1 .. Len(rs) + 1 /\ g \in 1 .. Len(rs) + 1 /\ G(h)[1] < G(h)[2]
        /\ G(h)[1] \in Nat /\ G(h)[2] \in Nat /\ G(g)[1] \in Nat
    BY GapBounds
  <2>2. g # 1 /\ ~(h > Len(rs)) /\ h \in 1 .. Len(rs) /\ g - 1 \in 1 .. Len(rs) /\ h <= g - 1
    BY <1>3, <2>1, ApartFacts
  <2>3. G(h)[2] = rs[h][1] /\ G(g)[1] = rs[g - 1][2]
    <3>1. /\ G(h)[2] = IF h > Len(rs) THEN dur ELSE rs[h][1]
          /\ G(g)[1] = IF g = 1 THEN 0 ELSE rs[g - 1][2]
      BY GapBounds
    <3> QED BY <2>2, <3>1
  <2>4. rs[h][2] <= rs[g - 1][2]
    BY <2>2, ApartFacts
  <2>5. rs[h][1] < rs[h][2] /\ rs[h][1] \in Nat /\ rs[h][2] \in Nat /\ rs[g - 1][2] \in Nat
    BY <2>2, ApartFacts
  <2> QED BY <2>1, <2>3, <2>4, <2>5
<1>4. G(i)[1] \in Nat /\ G(j)[1] \in Nat /\ i \in Int /\ j \in Int
  <2>1. i \in 1 .. Len(rs) + 1 /\ j \in 1 .. Len(rs) + 1 /\ Len(rs) \in Nat
    BY GapBounds, ApartFacts
  <2> QED BY <2>1, GapBounds
<1> HIDE DEF G
<1>5. ~(i < j) /\ ~(j < i)
  BY <1>2, <1>3, <1>4
<1> QED BY <1>4, <1>5

-----------------------------------------------------------------------------
LEMMA FilmLength ==
  ASSUME film \in Seq(Pictures)
  PROVE  Len(film) \in Nat /\ LastFrame \in Int /\ LastFrame = Len(film) - 1
BY DEF LastFrame

LEMMA StretchBounds ==
  ASSUME film \in Seq(Pictures), NEW r \in Stretches
  PROVE  /\ r[1] \in Nat /\ r[2] \in Nat /\ r[1] < r[2] /\ r[2] <= LastFrame /\ r = <<r[1], r[2]>>
         /\ r \in Nat \X Nat /\ r[2] - r[1] >= span
BY FilmLength DEF Stretches

\* Two stretches have a frame between them.
LEMMA StretchesApart ==
  ASSUME film \in Seq(Pictures), NEW r \in Stretches, NEW q \in Stretches, r[1] < q[1]
  PROVE  r[2] < q[1]
<1>1. r[1] \in Nat /\ r[2] \in Nat /\ q[1] \in Nat
  BY StretchBounds
<1> SUFFICES ASSUME ~(r[2] < q[1])
             PROVE  FALSE
  OBVIOUS
<1>2. q[1] - 1 \in r[1] .. r[2] - 1 /\ (q[1] - 1) + 1 = q[1] /\ q[1] > 0
  BY <1>1
<1>3. Same(q[1] - 1, q[1])
  <2>1. \A k \in r[1] .. r[2] - 1 : Same(k, k + 1)
    BY DEF Stretches, Still
  <2> QED BY <1>2, <2>1
<1>4. q[1] > 0 => ~Same(q[1] - 1, q[1])
  BY DEF Stretches
<1> QED BY <1>2, <1>3, <1>4

LEMMA ListsAreApart ==
  ASSUME film \in Seq(Pictures), NEW rs \in Seq(Nat \X Nat), Lists(rs)
  PROVE  Apart(rs)
<1>1. \A i \in DOMAIN rs : rs[i] \in Stretches
  BY DEF Lists, ToSet
<1>2. \A i \in DOMAIN rs : rs[i][1] < rs[i][2] /\ rs[i][2] <= LastFrame
  BY <1>1, StretchBounds
<1>3. \A i, j \in DOMAIN rs : i < j => rs[i][2] < rs[j][1]
  BY <1>1, StretchesApart DEF Lists
<1> QED BY <1>2, <1>3 DEF Apart

LEMMA SameFilm ==
  ASSUME film' = film, span' = span
  PROVE  /\ LastFrame' = LastFrame /\ Stretches' = Stretches
         /\ \A i, j : Same(i, j)' = Same(i, j)
         /\ \A i, j : Still(i, j)' = Still(i, j)
<1>1. LastFrame' = LastFrame
  BY DEF LastFrame
<1>2. \A i, j : Same(i, j)' = Same(i, j)
  BY DEF Same
<1>3. \A i, j : Still(i, j)' = Still(i, j)
  BY <1>2 DEF Still
<1>4. Stretches' = Stretches
  BY <1>1, <1>2, <1>3 DEF Stretches
<1> QED BY <1>1, <1>2, <1>3, <1>4

LEMMA SameLists ==
  ASSUME film' = film, span' = span, ranges' = ranges
  PROVE  /\ Apart(ranges)' = Apart(ranges) /\ Lists(ranges)' = Lists(ranges)
         /\ Found(ranges)' = Found(ranges)
<1>1. LastFrame' = LastFrame /\ Stretches' = Stretches
  BY SameFilm
<1> QED BY <1>1 DEF Apart, Lists, Found

\* What OpenCV's way leaves.
LEMMA ConcatIsRight ==
  ASSUME FrameInv, Concat
  PROVE  TrimmingIsRight'
<1>1. tool = "opencv" /\ tpc = "cut" /\ film \in Seq(Pictures) /\ Apart(ranges) /\ Found(ranges)
  BY DEF Concat, FrameInv, FrameTypeOK
<1>2. UNCHANGED <<film, tool, span, ranges>>
  BY DEF Concat
<1>3. LastFrame' = LastFrame /\ Found(ranges)'
  BY <1>1, <1>2, SameFilm, SameLists
<1>4. LastFrame \in Int /\ 2 \in Nat
  BY <1>1, FilmLength
<1> DEFINE W == {k \in 0 .. LastFrame : ~InRange(k, ranges)}
<1> SUFFICES ASSUME tpc' = "done"
             PROVE  kept' \subseteq W /\ \A k \in W \ kept', i \in DOMAIN ranges : ranges[i][2] <= k
  BY <1>1, <1>2, <1>3 DEF TrimmingIsRight, InRange, Found
<1>5. kept' = (0 .. LastFrame) \cap UNION {Frames(Gap(ranges, i, 2)) : i \in Inverted(ranges, 2)}
  BY DEF Concat
<1>6. ASSUME NEW k \in kept'
      PROVE  k \in W
  <2>1. PICK i \in Inverted(ranges, 2) : k \in Frames(Gap(ranges, i, 2))
    BY <1>5
  <2>2. i \in 1 .. Len(ranges) + 1
    BY DEF Inverted
  <2>3. ~InRange(k, ranges)
    BY <1>1, <1>4, <2>1, <2>2, GapOutside
  <2> QED BY <1>5, <2>3
<1>7. ASSUME NEW k \in W \ kept', NEW i \in DOMAIN ranges
      PROVE  ranges[i][2] <= k
  <2>1. k \in Nat /\ k \in 0 .. LastFrame /\ ~InRange(k, ranges)
    BY <1>4
  <2>2. /\ i \in 1 .. Len(ranges) /\ ranges[i][1] \in Nat /\ ranges[i][2] \in Nat
        /\ ranges[i][1] < ranges[i][2] /\ k \notin Frames(ranges[i])
    BY <1>1, <2>1, ApartFacts
  <2>3. k < ranges[i][1] \/ ranges[i][2] <= k
    BY <2>1, <2>2 DEF Frames
  <2>4. ASSUME k < ranges[i][1]
        PROVE  FALSE
    <3>1. \E h \in Inverted(ranges, 2) : k \in Frames(Gap(ranges, h, 2))
      BY <1>1, <1>4, <2>1, <2>4, GapCovers
    <3> QED BY <3>1, <2>1, <1>5
  <2> QED BY <2>3, <2>4
<1> QED BY <1>6, <1>7

\* What the chain of ffmpeg's filters leaves.
LEMMA RunIsRight ==
  ASSUME FrameInv, RunFfmpeg
  PROVE  TrimmingIsRight'
<1>1. tool = "ffmpeg" /\ tpc = "cut" /\ film \in Seq(Pictures) /\ Apart(ranges)
  BY DEF RunFfmpeg, FrameInv, FrameTypeOK
<1>2. UNCHANGED <<film, tool, span, ranges>>
  BY DEF RunFfmpeg
<1>3. LastFrame' = LastFrame
  BY <1>2, SameFilm
<1> DEFINE W == {k \in 0 .. LastFrame : ~InRange(k, ranges)}
           dur == Len(film)
<1>4. dur \in Nat /\ LastFrame \in Int /\ LastFrame = dur - 1 /\ LastFrame < dur
  BY <1>1, FilmLength
<1> SUFFICES ASSUME tpc' = "done"
             PROVE  kept' \subseteq W /\ (OnePiece(W) => kept' = W)
  BY <1>1, <1>2, <1>3 DEF TrimmingIsRight, InRange
<1>5. Inverted(ranges, dur) # {} /\ kept' = Frames(Chained(ranges, dur))
  BY DEF RunFfmpeg
<1> HIDE DEF dur
<1>6. PICK i \in Inverted(ranges, dur) :
        /\ kept' \subseteq Frames(Gap(ranges, i, dur))
        /\ Inverted(ranges, dur) = {i} => kept' = Frames(Gap(ranges, i, dur))
  BY <1>1, <1>4, <1>5, ChainedInGap
<1>7. Frames(Gap(ranges, i, dur)) \subseteq W
  <2> SUFFICES ASSUME NEW k \in Frames(Gap(ranges, i, dur))
               PROVE  k \in 0 .. LastFrame /\ ~InRange(k, ranges)
    OBVIOUS
  <2>1. /\ i \in 1 .. Len(ranges) + 1
        /\ Gap(ranges, i, dur)[1] \in Nat /\ Gap(ranges, i, dur)[2] \in Nat
        /\ Gap(ranges, i, dur)[2] = IF i > Len(ranges) THEN dur ELSE ranges[i][1]
    BY <1>1, <1>4, GapBounds
  <2>2. k \in Nat /\ ~InRange(k, ranges)
    BY <1>1, <1>4, <2>1, GapOutside
  <2>3. Gap(ranges, i, dur)[2] <= dur
    <3>1. CASE i > Len(ranges)
      BY <2>1, <3>1, <1>4
    <3>2. CASE ~(i > Len(ranges))
      <4>1. i \in 1 .. Len(ranges)
        BY <2>1, <3>2, <1>1, ApartFacts
      <4>2. ranges[i][1] \in Nat /\ ranges[i][2] \in Nat /\ ranges[i][1] < ranges[i][2] /\ ranges[i][2] <= LastFrame
        BY <1>1, <4>1, ApartFacts
      <4> QED BY <2>1, <3>2, <4>2, <1>4
    <3> QED BY <3>1, <3>2
  <2>4. k < Gap(ranges, i, dur)[2]
    BY <2>1 DEF Frames
  <2> QED BY <2>1, <2>2, <2>3, <2>4, <1>4
<1>8. ASSUME OnePiece(W)
      PROVE  kept' = W
  <2>1. Inverted(ranges, dur) = {i}
    BY <1>1, <1>4, <1>8, GapsArePieces
  <2>2. ASSUME NEW k \in W
        PROVE  k \in Frames(Gap(ranges, i, dur))
    <3>1. k \in Nat /\ k < dur /\ ~InRange(k, ranges)
      BY <1>4
    <3>2. \E h \in Inverted(ranges, dur) : k \in Frames(Gap(ranges, h, dur))
      BY <1>1, <1>4, <3>1, GapCovers
    <3> QED BY <2>1, <3>2
  <2> QED BY <1>6, <1>7, <2>1, <2>2
<1> QED BY <1>6, <1>7, <1>8

\* The stretch that ends at the frame in hand is the one that the scan is in.
LEMMA StretchEnds ==
  ASSUME film \in Seq(Pictures), fidx \in Nat, span \in Nat \ {0}, ScanInv, fidx <= LastFrame,
         fidx < LastFrame => ~Same(fidx, fidx + 1)
  PROVE  {r \in Stretches : r[2] = fidx} = IF startIdle = -1 THEN {} ELSE {<<startIdle, fidx>>}
<1> DEFINE b == fidx - idleCnt
<1>1. /\ b \in 0 .. fidx /\ idleCnt \in 0 .. fidx /\ idleCnt = fidx - b
      /\ Still(b, fidx) /\ (b > 0 => ~Same(b - 1, b))
  BY DEF ScanInv
<1>2. startIdle = IF idleCnt >= span THEN b ELSE -1
  BY DEF ScanInv
<1>3. LastFrame \in Int
  BY FilmLength
<1> HIDE DEF b
<1>4. ASSUME NEW r \in Stretches, r[2] = fidx
      PROVE  r = <<b, fidx>> /\ idleCnt >= span
  <2>1. r[1] \in Nat /\ r[2] \in Nat /\ r[1] < r[2] /\ r[2] - r[1] >= span /\ r = <<r[1], r[2]>>
    BY StretchBounds
  <2>2. ~(r[1] < b)
    <3> SUFFICES ASSUME r[1] < b
                 PROVE  FALSE
      OBVIOUS
    <3>1. b - 1 \in r[1] .. r[2] - 1 /\ (b - 1) + 1 = b /\ b > 0
      BY <1>1, <1>4, <2>1
    <3>2. \A k \in r[1] .. r[2] - 1 : Same(k, k + 1)
      BY DEF Stretches, Still
    <3>3. Same(b - 1, (b - 1) + 1)
      BY <3>1, <3>2
    <3> QED BY <3>1, <3>3, <1>1
  <2>3. ~(b < r[1])
    <3> SUFFICES ASSUME b < r[1]
                 PROVE  FALSE
      OBVIOUS
    <3>1. r[1] - 1 \in b .. fidx - 1 /\ (r[1] - 1) + 1 = r[1] /\ r[1] > 0
      BY <1>1, <1>4, <2>1
    <3>2. Same(r[1] - 1, (r[1] - 1) + 1)
      BY <1>1, <3>1 DEF Still
    <3>3. ~Same(r[1] - 1, r[1])
      BY <3>1 DEF Stretches
    <3> QED BY <3>1, <3>2, <3>3
  <2>4. r[1] = b
    BY <1>1, <2>1, <2>2, <2>3
  <2> QED BY <1>1, <1>3, <1>4, <2>1, <2>4
<1>5. ASSUME idleCnt >= span
      PROVE  <<b, fidx>> \in Stretches
  <2>1. b \in 0 .. LastFrame /\ fidx \in 0 .. LastFrame
    BY <1>1, <1>3
  <2>2. <<b, fidx>>[1] = b /\ <<b, fidx>>[2] = fidx /\ fidx - b >= span /\ b < fidx
    BY <1>1, <1>5
  <2> QED BY <1>1, <2>1, <2>2 DEF Stretches
<1>6. CASE idleCnt >= span
  <2>1. startIdle = b /\ startIdle # -1
    BY <1>1, <1>2, <1>6
  <2>2. <<b, fidx>>[2] = fidx
    OBVIOUS
  <2> QED BY <1>4, <1>5, <1>6, <2>1, <2>2
<1>7. CASE ~(idleCnt >= span)
  <2>1. startIdle = -1
    BY <1>2, <1>7
  <2> QED BY <1>4, <1>7, <2>1
<1> QED BY <1>6, <1>7

\* The list with that stretch.
LEMMA StretchAppended ==
  ASSUME film \in Seq(Pictures), fidx \in Nat, span \in Nat \ {0}, ScanInv, fidx <= LastFrame,
         fidx < LastFrame => ~Same(fidx, fidx + 1), NEW rs,
         rs = IF startIdle = -1 THEN ranges ELSE Append(ranges, <<startIdle, fidx>>)
  PROVE  /\ rs \in Seq(Nat \X Nat) /\ ToSet(rs) = {r \in Stretches : r[2] < fidx + 1}
         /\ \A i, j \in DOMAIN rs : i < j => rs[i][1] < rs[j][1]
<1>1. /\ ranges \in Seq(Nat \X Nat) /\ ToSet(ranges) = {r \in Stretches : r[2] < fidx}
      /\ \A i, j \in DOMAIN ranges : i < j => ranges[i][1] < ranges[j][1]
  BY DEF ScanInv
<1>2. \A r \in Stretches : r[2] < fidx + 1 <=> r[2] < fidx \/ r[2] = fidx
  <2>1. \A r \in Stretches : r[2] \in Nat
    BY StretchBounds
  <2> QED BY <2>1
<1>3. CASE startIdle = -1
  <2>1. {r \in Stretches : r[2] = fidx} = {}
    BY <1>3, StretchEnds
  <2>2. {r \in Stretches : r[2] < fidx + 1} = {r \in Stretches : r[2] < fidx}
    BY <1>2, <2>1
  <2> QED BY <1>1, <1>3, <2>2
<1>4. CASE startIdle # -1
  <2> DEFINE e == <<startIdle, fidx>>
  <2>1. {r \in Stretches : r[2] = fidx} = {e}
    BY <1>4, StretchEnds
  <2>2. e \in Stretches /\ e[1] = startIdle /\ e[2] = fidx
    BY <2>1
  <2>3. e \in Nat \X Nat /\ startIdle \in Nat /\ startIdle < fidx
    BY <2>2, StretchBounds
  <2> HIDE DEF e
  <2>4. rs = Append(ranges, e)
    BY <1>4 DEF e
  <2>5. rs \in Seq(Nat \X Nat) /\ ToSet(rs) = ToSet(ranges) \cup {e}
    <3> DEFINE Pairs == Nat \X Nat
    <3>1. ranges \in Seq(Pairs) /\ e \in Pairs
      BY <1>1, <2>3
    <3> HIDE DEF Pairs
    <3>2. Append(ranges, e) \in Seq(Pairs) /\ ToSet(Append(ranges, e)) = ToSet(ranges) \cup {e}
      BY <3>1, AppendToSet
    <3> QED BY <2>4, <3>2 DEF Pairs
  <2>6. ToSet(rs) = {r \in Stretches : r[2] < fidx + 1}
    BY <1>1, <1>2, <2>1, <2>5
  <2>7. \A r \in ToSet(ranges) : r[1] < e[1]
    <3> SUFFICES ASSUME NEW r \in Stretches, r[2] < fidx, ~(r[1] < e[1])
                 PROVE  FALSE
      BY <1>1
    <3>1. r[1] \in Nat /\ r[2] \in Nat /\ r[1] < r[2]
      BY StretchBounds
    <3>2. CASE r[1] = e[1]
      <4>1. Same(r[2], r[2] + 1)
        <5>1. \A k \in e[1] .. e[2] - 1 : Same(k, k + 1)
          BY <2>2 DEF Stretches, Still
        <5>2. r[2] \in e[1] .. e[2] - 1
          BY <2>2, <2>3, <3>1, <3>2
        <5> QED BY <5>1, <5>2
      <4>2. r[2] < LastFrame
        BY <3>1, FilmLength
      <4> QED BY <4>1, <4>2 DEF Stretches
    <3>3. CASE r[1] # e[1]
      <4>1. e[1] < r[1]
        BY <2>2, <2>3, <3>1, <3>3
      <4>2. e[2] < r[1]
        BY <2>2, <4>1, StretchesApart
      <4> QED BY <2>2, <3>1, <4>2
    <3> QED BY <3>2, <3>3
  <2>8. \A i, j \in DOMAIN rs : i < j => rs[i][1] < rs[j][1]
    <3>1. /\ Len(ranges) \in Nat /\ DOMAIN ranges = 1 .. Len(ranges) /\ Len(rs) = Len(ranges) + 1
          /\ DOMAIN rs = 1 .. Len(rs) /\ rs[Len(ranges) + 1] = e
          /\ \A i \in 1 .. Len(ranges) : rs[i] = ranges[i]
      BY <1>1, <2>3, <2>4, AppendProperties
    <3> SUFFICES ASSUME NEW i \in DOMAIN rs, NEW j \in DOMAIN rs, i < j
                 PROVE  rs[i][1] < rs[j][1]
      OBVIOUS
    <3>2. i \in DOMAIN ranges /\ rs[i] = ranges[i] /\ ranges[i] \in ToSet(ranges)
      BY <3>1 DEF ToSet
    <3>3. CASE j \in DOMAIN ranges
      BY <1>1, <3>1, <3>2, <3>3
    <3>4. CASE j \notin DOMAIN ranges
      <4>1. rs[j] = e
        BY <3>1, <3>4
      <4> QED BY <2>7, <3>2, <4>1
    <3> QED BY <3>3, <3>4
  <2> QED BY <2>5, <2>6, <2>8
<1> QED BY <1>3, <1>4

LEMMA NothingKeeps ==
  ASSUME FrameInv, span = 0, ScanFrame \/ ScanTail
  PROVE  FrameInv'
<1>1. /\ tool = "opencv" /\ tpc = "scan" /\ FrameTypeOK /\ idleCnt \in Nat /\ startIdle = -1 /\ ranges = <<>>
  BY DEF ScanFrame, ScanTail, FrameInv, NoStretch
<1>2. UNCHANGED <<film, tool, span, saved>> /\ fidx' \in {fidx, fidx + 1} /\ tpc' \in {"scan", "cut"}
  BY <1>1 DEF ScanFrame, ScanTail
<1>3. (idleCnt' \in Nat /\ NoStretch') \/ (tpc' = "cut" /\ ranges' = <<>>)
  <2>1. CASE ScanFrame
    <3>1. /\ idleCnt' \in {0, idleCnt + 1} /\ (idleCnt' = 0 \/ idleCnt' = idleCnt + 1)
          /\ startIdle' = -1 /\ ranges' = ranges
      BY <1>1, <2>1 DEF ScanFrame
    <3> QED BY <1>1, <3>1 DEF NoStretch
  <2>2. CASE ScanTail
    BY <1>1, <2>2 DEF ScanTail
  <2> QED BY <2>1, <2>2
<1>4. ranges' = <<>> /\ (tpc' = "scan" => idleCnt' \in Nat /\ NoStretch')
  BY <1>3 DEF NoStretch, ScanTail, ScanFrame
<1>5. Apart(ranges)'
  BY <1>4 DEF Apart
<1>6. FrameTypeOK'
  BY <1>1, <1>2 DEF FrameTypeOK
<1> QED BY <1>1, <1>2, <1>4, <1>5, <1>6 DEF FrameInv, Found, FramesAreRight, TrimmingIsRight, MotionIsSaved

LEMMA ScanKeeps == ASSUME FrameInv, ScanFrame, span # 0 PROVE FrameInv'
<1>1. /\ tool = "opencv" /\ tpc = "scan" /\ film \in Seq(Pictures) /\ fidx \in Nat /\ ScanInv /\ FrameTypeOK
      /\ fidx < LastFrame /\ LastFrame \in Int
  BY FilmLength DEF ScanFrame, FrameInv, FrameTypeOK
<1>2. UNCHANGED <<film, tool, span, tpc, prevGray, saved, kept>> /\ fidx' = fidx + 1
  BY DEF ScanFrame
<1>3. /\ LastFrame' = LastFrame /\ Stretches' = Stretches
      /\ \A i, j : Same(i, j)' = Same(i, j) /\ Still(i, j)' = Still(i, j)
  BY <1>2, SameFilm
<1>4. /\ idleCnt \in 0 .. fidx /\ Still(fidx - idleCnt, fidx)
      /\ (idleCnt < fidx => ~Same(fidx - idleCnt - 1, fidx - idleCnt))
      /\ startIdle = IF idleCnt >= span THEN fidx - idleCnt ELSE -1
      /\ ranges \in Seq(Nat \X Nat) /\ ToSet(ranges) = {r \in Stretches : r[2] < fidx}
      /\ \A i, j \in DOMAIN ranges : i < j => ranges[i][1] < ranges[j][1]
  BY <1>1 DEF ScanInv
<1>5. span \in Nat \ {0}
  BY <1>1 DEF FrameTypeOK
<1>6. ScanInv'
  <2>1. CASE Same(fidx, fidx + 1)
    <3>1. /\ idleCnt' = idleCnt + 1 /\ ranges' = ranges
          /\ startIdle' = IF idleCnt' = span THEN fidx - span + 1 ELSE startIdle
      BY <2>1 DEF ScanFrame
    <3>2. fidx' - idleCnt' = fidx - idleCnt /\ idleCnt' \in 0 .. fidx' /\ fidx' <= LastFrame
      BY <1>1, <1>2, <1>4, <3>1
    <3>3. Still(fidx - idleCnt, fidx + 1)
      <4>1. \A k \in fidx - idleCnt .. (fidx + 1) - 1 : k \in fidx - idleCnt .. fidx - 1 \/ k = fidx
        BY <1>1, <1>4
      <4> QED BY <1>4, <2>1, <4>1 DEF Still
    <3>4. startIdle' = IF idleCnt' >= span THEN fidx' - idleCnt' ELSE -1
      BY <1>1, <1>2, <1>4, <1>5, <3>1, <3>2
    <3>5. {r \in Stretches : r[2] < fidx + 1} = {r \in Stretches : r[2] < fidx}
      <4> SUFFICES ASSUME NEW r \in Stretches
                   PROVE  r[2] < fidx + 1 <=> r[2] < fidx
        OBVIOUS
      <4>1. r[2] \in Nat
        BY <1>1, StretchBounds
      <4>2. r[2] # fidx
        BY <1>1, <2>1 DEF Stretches
      <4> QED BY <1>1, <4>1, <4>2
    <3>6. idleCnt' < fidx' => ~Same(fidx' - idleCnt' - 1, fidx' - idleCnt')
      BY <1>1, <1>2, <1>4, <3>1, <3>2
    <3>7. ToSet(ranges') = {r \in Stretches : r[2] < fidx'}
      BY <1>2, <1>4, <3>1, <3>5
    <3>8. \A i, j \in DOMAIN ranges' : i < j => ranges'[i][1] < ranges'[j][1]
      BY <1>4, <3>1
    <3>9. Still(fidx' - idleCnt', fidx')
      BY <1>2, <3>2, <3>3
    <3> QED BY <1>2, <1>3, <1>4, <3>1, <3>2, <3>4, <3>6, <3>7, <3>8, <3>9 DEF ScanInv
  <2>2. CASE ~Same(fidx, fidx + 1)
    <3>1. /\ idleCnt' = 0 /\ startIdle' = -1
          /\ ranges' = IF startIdle = -1 THEN ranges ELSE Append(ranges, <<startIdle, fidx>>)
      BY <2>2 DEF ScanFrame
    <3>2. /\ ranges' \in Seq(Nat \X Nat) /\ ToSet(ranges') = {r \in Stretches : r[2] < fidx + 1}
          /\ \A i, j \in DOMAIN ranges' : i < j => ranges'[i][1] < ranges'[j][1]
      <4>1. fidx <= LastFrame /\ (fidx < LastFrame => ~Same(fidx, fidx + 1))
        BY <1>1, <2>2
      <4> DEFINE rs == ranges'
      <4>2. rs = IF startIdle = -1 THEN ranges ELSE Append(ranges, <<startIdle, fidx>>)
        BY <3>1
      <4> HIDE DEF rs
      <4>3. /\ rs \in Seq(Nat \X Nat) /\ ToSet(rs) = {r \in Stretches : r[2] < fidx + 1}
            /\ \A i, j \in DOMAIN rs : i < j => rs[i][1] < rs[j][1]
        BY <1>1, <1>5, <4>1, <4>2, StretchAppended
      <4> QED BY <4>3 DEF rs
    <3>3. fidx' - idleCnt' = fidx + 1 /\ fidx' - idleCnt' - 1 = fidx /\ idleCnt' \in 0 .. fidx' /\ fidx' <= LastFrame
      BY <1>1, <1>2, <3>1
    <3>4. Still(fidx + 1, fidx + 1)
      BY <1>1 DEF Still
    <3>5. ~(idleCnt' >= span)
      BY <1>5, <3>1
    <3>6. ~Same(fidx' - idleCnt' - 1, fidx' - idleCnt')
      BY <2>2, <3>3
    <3>7. ToSet(ranges') = {r \in Stretches : r[2] < fidx'}
      BY <1>2, <3>2
    <3>8. Still(fidx' - idleCnt', fidx')
      BY <1>2, <3>3, <3>4
    <3> QED BY <1>2, <1>3, <3>1, <3>2, <3>3, <3>5, <3>6, <3>7, <3>8 DEF ScanInv
  <2> QED BY <2>1, <2>2
<1>7. FrameTypeOK'
  BY <1>1, <1>2 DEF FrameTypeOK
<1>8. idleCnt' \in Nat
  BY <1>1, <1>2, <1>6 DEF ScanInv
<1> QED BY <1>1, <1>2, <1>6, <1>7, <1>8 DEF FrameInv, FramesAreRight, TrimmingIsRight, MotionIsSaved

LEMMA TailKeeps == ASSUME FrameInv, ScanTail, span # 0 PROVE FrameInv'
<1>1. /\ tool = "opencv" /\ tpc = "scan" /\ film \in Seq(Pictures) /\ fidx \in Nat /\ ScanInv /\ FrameTypeOK
      /\ fidx >= LastFrame /\ LastFrame \in Int /\ span \in Nat \ {0}
  BY FilmLength DEF ScanTail, FrameInv, FrameTypeOK
<1>2. /\ UNCHANGED <<film, tool, span, fidx, kept, saved>> /\ tpc' = "cut"
      /\ ranges' = IF startIdle = -1 THEN ranges ELSE Append(ranges, <<startIdle, fidx>>)
  BY DEF ScanTail
<1>3. ranges' \in Seq(Nat \X Nat) /\ Lists(ranges')
  <2>1. CASE fidx <= LastFrame
    <3>1. /\ ranges' \in Seq(Nat \X Nat) /\ ToSet(ranges') = {r \in Stretches : r[2] < fidx + 1}
          /\ \A i, j \in DOMAIN ranges' : i < j => ranges'[i][1] < ranges'[j][1]
      <4>1. fidx < LastFrame => ~Same(fidx, fidx + 1)
        BY <1>1
      <4> QED BY <1>1, <1>2, <2>1, <4>1, StretchAppended
    <3>2. \A r \in Stretches : r[2] < fidx + 1
      <4> SUFFICES ASSUME NEW r \in Stretches
                   PROVE  r[2] < fidx + 1
        OBVIOUS
      <4>1. r[2] \in Nat /\ r[2] <= LastFrame
        BY <1>1, StretchBounds
      <4> QED BY <1>1, <4>1
    <3>3. ToSet(ranges') = Stretches
      BY <3>1, <3>2
    <3> QED BY <3>1, <3>3 DEF Lists
  <2>2. CASE ~(fidx <= LastFrame)  \* no frame at all
    <3>1. /\ fidx = 0 /\ idleCnt \in 0 .. fidx /\ startIdle = (IF idleCnt >= span THEN fidx - idleCnt ELSE -1)
          /\ ranges \in Seq(Nat \X Nat) /\ ToSet(ranges) = {r \in Stretches : r[2] < fidx}
          /\ \A i, j \in DOMAIN ranges : i < j => ranges[i][1] < ranges[j][1]
      BY <2>2, <1>1 DEF ScanInv
    <3>2. idleCnt = 0 /\ span \in Nat \ {0}
      BY <1>1, <3>1
    <3>3. ranges' = ranges
      BY <1>2, <3>1, <3>2
    <3>4. ASSUME NEW r \in Stretches
          PROVE  FALSE
      <4>1. r[2] \in Nat /\ r[2] <= LastFrame
        BY <1>1, StretchBounds
      <4> QED BY <1>1, <2>2, <3>1, <4>1
    <3>5. ToSet(ranges) = Stretches
      BY <3>1, <3>4
    <3> QED BY <3>1, <3>3, <3>5 DEF Lists
  <2> QED BY <2>1, <2>2
<1>4. Apart(ranges')
  BY <1>1, <1>3, ListsAreApart
<1>5. Apart(ranges)' /\ Lists(ranges)'
  <2>1. LastFrame' = LastFrame /\ Stretches' = Stretches
    BY <1>2, SameFilm
  <2> QED BY <1>3, <1>4, <2>1 DEF Apart, Lists
<1>6. FrameTypeOK'
  BY <1>1, <1>2 DEF FrameTypeOK
<1> QED BY <1>1, <1>2, <1>5, <1>6 DEF FrameInv, Found, FramesAreRight, TrimmingIsRight, MotionIsSaved

LEMMA StretchesFinite == ASSUME film \in Seq(Pictures) PROVE IsFiniteSet(Stretches)
<1>1. LastFrame \in Int
  BY FilmLength
<1>2. IsFiniteSet((0 .. LastFrame) \X (0 .. LastFrame))
  <2>1. IsFiniteSet(0 .. LastFrame)
    BY <1>1, FS_Interval
  <2> QED BY <2>1, FS_Product
<1>3. Stretches \subseteq (0 .. LastFrame) \X (0 .. LastFrame)
  BY DEF Stretches
<1> QED BY <1>2, <1>3, FS_Subset

LEMMA ParseKeeps == ASSUME FrameInv, ParseLog PROVE FrameInv'
<1>1. tool = "ffmpeg" /\ tpc' \in {"cut", "raised"} /\ film \in Seq(Pictures) /\ FrameTypeOK
  BY DEF ParseLog, FrameInv, FrameTypeOK
<1>2. UNCHANGED <<film, tool, span, fidx, saved, kept>>
  BY DEF ParseLog
<1>3. tpc' = "cut" => Apart(ranges')
  <2>1. CASE ranges' = <<>>
    BY <2>1 DEF Apart
  <2>2. ASSUME NEW rs \in [1 .. Cardinality(Stretches) -> Stretches], Lists(rs), ranges' = rs
        PROVE  Apart(ranges')
    <3>1. Cardinality(Stretches) \in Nat
      BY <1>1, StretchesFinite, FS_CardinalityType
    <3>2. Stretches \subseteq Nat \X Nat
      BY <1>1, StretchBounds
    <3>3. rs \in [1 .. Cardinality(Stretches) -> Nat \X Nat]
      BY <3>2
    <3>4. rs \in Seq(Nat \X Nat)
      BY <3>1, <3>3
    <3> QED BY <1>1, <2>2, <3>4, ListsAreApart
  <2> QED BY <2>1, <2>2 DEF ParseLog
<1>4. tpc' = "cut" => Apart(ranges)'
  <2>1. LastFrame' = LastFrame
    BY <1>2, SameFilm
  <2> QED BY <1>3, <2>1 DEF Apart
<1>5. FrameTypeOK'
  BY <1>1, <1>2 DEF FrameTypeOK
<1> QED BY <1>1, <1>2, <1>4, <1>5 DEF FrameInv, FramesAreRight, TrimmingIsRight, MotionIsSaved

LEMMA SendKeeps == ASSUME FrameInv, SendTrimmed PROVE FrameInv'
<1>1. FrameTypeOK'
  BY DEF SendTrimmed, FrameInv, FrameTypeOK
<1> QED BY <1>1 DEF SendTrimmed, FrameInv, FramesAreRight, TrimmingIsRight, MotionIsSaved

LEMMA ConcatKeeps == ASSUME FrameInv, Concat PROVE FrameInv'
<1>1. FrameTypeOK' /\ tool' = "opencv" /\ tpc' \in {"done", "raised"}
  BY DEF Concat, FrameInv, FrameTypeOK
<1> QED BY <1>1, ConcatIsRight DEF FrameInv, FramesAreRight, MotionIsSaved

LEMMA RunKeeps == ASSUME FrameInv, RunFfmpeg PROVE FrameInv'
<1>1. FrameTypeOK' /\ tool' = "ffmpeg" /\ tpc' \in {"done", "raised"}
  BY DEF RunFfmpeg, FrameInv, FrameTypeOK
<1> QED BY <1>1, RunIsRight DEF FrameInv, FramesAreRight, MotionIsSaved

-----------------------------------------------------------------------------
Moves(k) == k % span = 0 /\ (k = 0 \/ ~Same(k - span, k))
Saved(ks, n) == ToSet(ks) = {k \in 0 .. n - 1 : Moves(k)} /\ \A i, j \in DOMAIN ks : i < j => ks[i] < ks[j]

LEMMA SavedMore ==
  ASSUME NEW ks \in Seq(Nat), NEW n \in Nat, Saved(ks, n), NEW more,
         more = IF Moves(n) THEN Append(ks, n) ELSE ks
  PROVE  more \in Seq(Nat) /\ Saved(more, n + 1)
<1>1. {k \in 0 .. (n + 1) - 1 : Moves(k)} = {k \in 0 .. n - 1 : Moves(k)} \cup {k \in {n} : Moves(k)}
  <2>1. 0 .. (n + 1) - 1 = (0 .. n - 1) \cup {n}
    OBVIOUS
  <2> QED BY <2>1
<1>2. CASE ~Moves(n)
  BY <1>1, <1>2 DEF Saved
<1>3. CASE Moves(n)
  <2>1. more = Append(ks, n)
    BY <1>3
  <2>2. more \in Seq(Nat) /\ ToSet(more) = ToSet(ks) \cup {n}
    BY <2>1, AppendToSet
  <2>3. ToSet(more) = {k \in 0 .. (n + 1) - 1 : Moves(k)}
    BY <1>1, <1>3, <2>2 DEF Saved
  <2>4. \A k \in ToSet(ks) : k < n
    BY DEF Saved
  <2>5. \A i, j \in DOMAIN more : i < j => more[i] < more[j]
    <3>1. /\ Len(ks) \in Nat /\ DOMAIN ks = 1 .. Len(ks) /\ Len(more) = Len(ks) + 1
          /\ DOMAIN more = 1 .. Len(more) /\ more[Len(ks) + 1] = n
          /\ \A i \in 1 .. Len(ks) : more[i] = ks[i]
      BY <2>1, AppendProperties
    <3> SUFFICES ASSUME NEW i \in DOMAIN more, NEW j \in DOMAIN more, i < j
                 PROVE  more[i] < more[j]
      OBVIOUS
    <3>2. i \in DOMAIN ks /\ more[i] = ks[i] /\ ks[i] \in ToSet(ks)
      BY <3>1 DEF ToSet
    <3>3. CASE j \in DOMAIN ks
      BY <3>1, <3>2, <3>3 DEF Saved
    <3>4. CASE j \notin DOMAIN ks
      <4>1. more[j] = n
        BY <3>1, <3>4
      <4> QED BY <2>4, <3>2, <4>1
    <3> QED BY <3>3, <3>4
  <2> QED BY <2>2, <2>3, <2>5 DEF Saved
<1> QED BY <1>2, <1>3

LEMMA SavedMeans == tool = "motion" => (MotionIsSaved <=> Saved(saved, fidx))
BY DEF MotionIsSaved, Saved, Moves

LEMMA SavedNext ==
  ASSUME film' = film, span' = span
  PROVE  \A ks, n : Saved(ks, n)' = Saved(ks, n)
<1>1. \A k : Moves(k)' = Moves(k)
  BY SameFilm DEF Moves
<1> QED BY <1>1 DEF Saved

LEMMA SkipKeeps == ASSUME FrameInv, SkipFrame PROVE FrameInv'
<1>1. /\ tool = "motion" /\ tpc = "scan" /\ FrameTypeOK /\ span \in Nat \ {0} /\ fidx \in Nat
      /\ saved \in Seq(Nat) /\ SampleInv /\ Saved(saved, fidx) /\ fidx % span # 0
  BY SavedMeans DEF SkipFrame, FrameInv, FrameTypeOK, FramesAreRight
<1>2. UNCHANGED <<film, tool, span, tpc, prevGray, saved>> /\ fidx' = fidx + 1
  BY DEF SkipFrame
<1>3. Saved(saved, fidx + 1)
  <2>1. ~Moves(fidx)
    BY <1>1 DEF Moves
  <2> QED BY <1>1, <2>1, SavedMore
<1>4. Saved(saved, fidx)'
  BY <1>2, <1>3, SavedNext
<1>5. SampleInv'
  <2>1. 0 % span = 0
    BY <1>1
  <2>2. /\ prevGray \in 0 .. fidx - 1 /\ prevGray % span = 0 /\ fidx - prevGray <= span
        /\ fidx % span = IF fidx - prevGray = span THEN 0 ELSE fidx - prevGray
    BY <1>1, <2>1 DEF SampleInv
  <2>3. fidx - prevGray # span /\ fidx % span = fidx - prevGray
    BY <1>1, <2>2
  <2>4. (fidx + 1) % span = IF fidx % span = span - 1 THEN 0 ELSE (fidx % span) + 1
    BY <1>1, ModStep
  <2>5. prevGray' \in 0 .. fidx' - 1 /\ prevGray' % span' = 0 /\ fidx' - prevGray' <= span'
    BY <1>1, <1>2, <2>2, <2>3
  <2>6. (fidx + 1) % span = IF (fidx + 1) - prevGray = span THEN 0 ELSE (fidx + 1) - prevGray
    BY <1>1, <2>2, <2>3, <2>4
  <2> QED BY <1>2, <2>5, <2>6 DEF SampleInv
<1>6. FrameTypeOK'
  BY <1>1, <1>2 DEF FrameTypeOK
<1> QED BY <1>1, <1>2, <1>4, <1>5, <1>6, SavedMeans DEF FrameInv, FramesAreRight, TrimmingIsRight, MotionIsSaved, Saved, Moves

LEMMA LookKeeps == ASSUME FrameInv, LookAt PROVE FrameInv'
<1>1. /\ tool = "motion" /\ tpc = "scan" /\ FrameTypeOK /\ span \in Nat \ {0} /\ fidx \in Nat
      /\ saved \in Seq(Nat) /\ SampleInv /\ Saved(saved, fidx) /\ fidx % span = 0
  BY SavedMeans DEF LookAt, FrameInv, FrameTypeOK, FramesAreRight
<1>2. UNCHANGED <<film, tool, span>> /\ prevGray' = fidx
  BY DEF LookAt
<1>3. prevGray = -1 \/ ~Same(prevGray, fidx) <=> Moves(fidx)
  <2>1. CASE prevGray = -1 /\ fidx = 0
    BY <1>1, <2>1 DEF Moves
  <2>2. CASE prevGray \in 0 .. fidx - 1
    <3>1. fidx % span = IF fidx - prevGray = span THEN 0 ELSE fidx - prevGray
      BY <1>1, <2>2 DEF SampleInv
    <3>2. prevGray = fidx - span /\ prevGray # -1 /\ fidx # 0
      BY <1>1, <2>2, <3>1
    <3> QED BY <1>1, <3>2 DEF Moves
  <2> QED BY <1>1, <2>1, <2>2 DEF SampleInv
<1>4. CASE tpc' = "raised" /\ UNCHANGED <<saved, fidx>>
  <2>1. Saved(saved, fidx)'
    BY <1>1, <1>2, <1>4, SavedNext
  <2>2. FrameTypeOK'
    BY <1>1, <1>2, <1>4 DEF FrameTypeOK
  <2> QED BY <1>1, <1>2, <1>4, <2>1, <2>2 DEF FrameInv, FramesAreRight, TrimmingIsRight, MotionIsSaved, Saved, Moves
<1>5. CASE saved' = (IF Moves(fidx) THEN Append(saved, fidx) ELSE saved) /\ fidx' = fidx + 1 /\ UNCHANGED tpc
  <2>1. saved' \in Seq(Nat) /\ Saved(saved', fidx + 1)
    BY <1>1, <1>5, SavedMore
  <2>2. Saved(saved, fidx)'
    BY <1>2, <1>5, <2>1, SavedNext
  <2>3. SampleInv'
    <3>1. (fidx + 1) % span = IF fidx % span = span - 1 THEN 0 ELSE (fidx % span) + 1
      BY <1>1, ModStep
    <3>2. (fidx + 1) % span = IF (fidx + 1) - fidx = span THEN 0 ELSE (fidx + 1) - fidx
      BY <1>1, <3>1
    <3>3. fidx \in 0 .. (fidx + 1) - 1 /\ (fidx + 1) - fidx <= span
      BY <1>1
    <3> QED BY <1>1, <1>2, <1>5, <3>2, <3>3 DEF SampleInv
  <2>4. FrameTypeOK'
    BY <1>1, <1>2, <1>5, <2>1 DEF FrameTypeOK
  <2> QED BY <1>1, <1>2, <1>5, <2>2, <2>3, <2>4 DEF FrameInv, FramesAreRight, TrimmingIsRight, MotionIsSaved, Saved, Moves
<1> QED BY <1>3, <1>4, <1>5 DEF LookAt

LEMMA ExtractedKeeps == ASSUME FrameInv, Extracted PROVE FrameInv'
<1>1. tool = "motion" /\ FrameTypeOK /\ Saved(saved, fidx)
  BY SavedMeans DEF Extracted, FrameInv, FramesAreRight
<1>2. UNCHANGED <<film, tool, span, fidx, saved>> /\ tpc' = "done"
  BY DEF Extracted
<1>3. Saved(saved, fidx)'
  BY <1>1, <1>2, SavedNext
<1>4. FrameTypeOK'
  BY <1>1, <1>2 DEF FrameTypeOK
<1> QED BY <1>1, <1>2, <1>3, <1>4 DEF FrameInv, FramesAreRight, TrimmingIsRight, MotionIsSaved, Saved, Moves

LEMMA FrameInitInv == FrameInit => FrameInv
<1> SUFFICES ASSUME FrameInit PROVE FrameInv
  OBVIOUS
<1>1. film \in Seq(Pictures)
  BY FrameToolsAssumption DEF FrameInit
<1>2. span \in Nat /\ (tool = "motion" => span # 0)
  <2>1. ASSUME NEW rate \in Nat \ {0}
        PROVE  IntervalFor(rate) \in Nat \ {0}
    <3>1. Fps \div rate \in Int
      BY FrameToolsAssumption
    <3> QED BY <3>1 DEF IntervalFor
  <2>2. Rates \subseteq Nat \ {0} /\ IdleCounts \subseteq Nat
    BY FrameToolsAssumption
  <2> QED BY <2>1, <2>2 DEF FrameInit, QuickInterval
<1>3. FrameTypeOK
  BY <1>1, <1>2 DEF FrameInit, FrameTypeOK
<1>4. span # 0 => ScanInv
  <2>1. \A r \in Stretches : ~(r[2] < 0)
    <3>1. \A r \in Stretches : r[2] \in Nat
      BY <1>1, StretchBounds
    <3> QED BY <3>1
  <2>2. Still(0, 0)
    BY DEF Still
  <2>3. ToSet(<<>>) = {}
    BY DEF ToSet
  <2>4. span # 0 => ~(0 >= span)
    BY <1>2
  <2> QED BY <2>1, <2>2, <2>3, <2>4 DEF FrameInit, ScanInv
<1>5. FramesAreRight
  <2>1. ToSet(<<>>) = {} /\ 0 .. 0 - 1 = {}
    BY DEF ToSet
  <2> QED BY <2>1 DEF FrameInit, FramesAreRight, TrimmingIsRight, MotionIsSaved
<1> QED BY <1>3, <1>4, <1>5 DEF FrameInit, FrameInv, SampleInv, NoStretch

LEMMA FrameNextInv == FrameInv /\ [FrameNext]_frameVars => FrameInv'
<1> SUFFICES ASSUME FrameInv, [FrameNext]_frameVars
             PROVE  FrameInv'
  OBVIOUS
<1>1. CASE UNCHANGED frameVars
  <2>1. /\ LastFrame' = LastFrame /\ Stretches' = Stretches /\ Apart(ranges)' = Apart(ranges) /\ Lists(ranges)' = Lists(ranges)
        /\ \A i, j : Same(i, j)' = Same(i, j) /\ Still(i, j)' = Still(i, j)
    BY <1>1, SameFilm, SameLists DEF frameVars
  <2>2. UNCHANGED <<film, tool, span, tpc, fidx, idleCnt, startIdle, ranges, prevGray, saved, kept>>
    BY <1>1 DEF frameVars
  <2>3. FrameTypeOK' = FrameTypeOK /\ SampleInv' = SampleInv
    BY <2>2 DEF FrameTypeOK, SampleInv
  <2>4. ScanInv' = ScanInv /\ NoStretch' = NoStretch /\ Found(ranges)' = Found(ranges)
    BY <2>1, <2>2 DEF ScanInv, NoStretch, Found
  <2>5. TrimmingIsRight' = TrimmingIsRight
    BY <2>1, <2>2 DEF TrimmingIsRight, InRange
  <2>6. MotionIsSaved' = MotionIsSaved
    BY <2>1, <2>2 DEF MotionIsSaved
  <2> QED BY <2>1, <2>2, <2>3, <2>4, <2>5, <2>6 DEF FrameInv, FramesAreRight
<1> QED BY <1>1, NothingKeeps, ScanKeeps, TailKeeps, ConcatKeeps, ParseKeeps, RunKeeps, SendKeeps, SkipKeeps, LookKeeps,
           ExtractedKeeps DEF FrameNext

\* For films of any length, any duration, one of no frame included, and any interval:
\* the stretches that OpenCV's scan finds are the still ones, none if the duration is
\* no frame; what it keeps lies outside them and lacks no other frame before the end
\* of the last; ffmpeg's chain keeps nothing of the stretches that were parsed, and
\* all the rest if that is one piece, but need not have found any; and extraction
\* saves what moves (_run_opencv, _invert_ranges, _run_ffmpeg, extract).
THEOREM FramesStayRight == FrameInit /\ [][FrameNext]_frameVars => []FramesAreRight
<1>1. FrameInv => FramesAreRight
  BY DEF FrameInv
<1> QED BY <1>1, FrameInitInv, FrameNextInv, PTL

=============================================================================
