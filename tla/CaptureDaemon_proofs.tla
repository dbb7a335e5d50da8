------------------------ MODULE CaptureDaemon_proofs ------------------------
(* Machine-checked proofs about CaptureDaemon, for any sets of devices and    *)
(* goroutine slots and any MaxFails > 0.                                     *)
EXTENDS CaptureDaemon, TLAPS

\* A goroutine that still runs has not used up its failures.
FailsBelowLimit == \A r \in Runners : Live(r) => fails[r] < MaxFails

\* The launch loop only visits devices of the registry.
TodoListed == todo \subseteq devices

\* TypeOK and the three safety invariants, with what makes them inductive.
IInv ==
  /\ TypeOK
  /\ FailsBelowLimit
  /\ TodoListed
  /\ NoOrphanRunner
  /\ StopFuncMatches

\* Every goroutine step leaves the registry, the poll loop and the cancelled
\* contexts alone, and moves one program counter.
RunFrame(r) ==
  /\ UNCHANGED <<usable, rootDone, mainVars, runDev, cancelled>>
  /\ \E pc \in LivePcs \cup EndPcs : runPc' = [runPc EXCEPT ![r] = pc]

LEMMA InitIInv == Init => IInv
<1> SUFFICES ASSUME Init PROVE IInv
  OBVIOUS
<1>1. TypeOK
  <2>1. /\ usable \in SUBSET Devices
        /\ todo \in SUBSET Devices
        /\ devices \in SUBSET Devices
        /\ mainPc \in MainPcs /\ rootDone \in BOOLEAN
    BY DEF Init, MainPcs
  <2>2. /\ stopFuncs \in [Devices -> Runners \cup {NoRunner}]
        /\ runPc \in [Runners -> LivePcs \cup EndPcs]
        /\ runDev \in [Runners -> Devices]
    BY DEF Init, EndPcs
  <2>3. fails \in [Runners -> 0 .. MaxFails]
    BY MaxFailsAssumption DEF Init
  <2>4. /\ cancelled \in [Runners -> BOOLEAN]
        /\ announced \in [Runners -> BOOLEAN]
        /\ ffmpeg \in [Runners -> BOOLEAN]
    BY DEF Init
  <2> QED BY <2>1, <2>2, <2>3, <2>4 DEF TypeOK
<1>2. \A r \in Runners : ~Live(r)
  BY DEF Init, Live, LivePcs
<1>3. FailsBelowLimit /\ NoOrphanRunner
  BY <1>2 DEF FailsBelowLimit, NoOrphanRunner
<1>4. TodoListed /\ StopFuncMatches
  BY DEF Init, TodoListed, StopFuncMatches, HasRunner
<1> QED BY <1>1, <1>3, <1>4 DEF IInv

-----------------------------------------------------------------------------
(* The poll loop. *)

LEMMA LaunchIInv ==
  ASSUME IInv, NEW d \in Devices, NEW r \in Runners, Launch(d, r)
  PROVE  IInv'
<1> USE DEF IInv
<1>1. TypeOK'
  BY MaxFailsAssumption DEF Launch, Start, TypeOK, LivePcs
<1>2. FailsBelowLimit'
  BY MaxFailsAssumption DEF Launch, Start, TypeOK, FailsBelowLimit, Live
<1>3. TodoListed'
  BY DEF Launch, Start, TodoListed
<1>4. NoOrphanRunner'
  <2>1. SUFFICES ASSUME NEW s \in Runners, Live(s)', ~cancelled'[s]
                 PROVE  stopFuncs'[runDev'[s]] = s
    BY DEF NoOrphanRunner
  <2>2. CASE s = r
    BY <2>2 DEF Launch, Start, TypeOK
  <2>3. CASE s # r
    <3>1. Live(s) /\ ~cancelled[s] /\ runDev'[s] = runDev[s]
      BY <2>1, <2>3 DEF Launch, Start, TypeOK, Live
    <3>2. stopFuncs[runDev[s]] = s /\ runDev[s] # d
      BY <3>1, NoRunnerAssumption DEF NoOrphanRunner, Launch, Start, HasRunner
    <3> QED BY <3>1, <3>2 DEF Launch, Start, TypeOK
  <2> QED BY <2>2, <2>3
<1>5. StopFuncMatches'
  <2>1. SUFFICES ASSUME NEW e \in Devices, HasRunner(e)'
                 PROVE  e \in devices' /\ runDev'[stopFuncs'[e]] = e
    BY DEF StopFuncMatches
  <2>2. CASE e = d
    BY <2>2 DEF Launch, Start, TypeOK, TodoListed
  <2>3. CASE e # d
    <3>1. stopFuncs'[e] = stopFuncs[e] /\ HasRunner(e) /\ stopFuncs[e] # r
      BY <2>1, <2>3 DEF Launch, Start, TypeOK, HasRunner, Reusable
    <3> QED BY <2>1, <2>3, <3>1 DEF Launch, Start, TypeOK, StopFuncMatches
  <2> QED BY <2>2, <2>3
<1> QED BY <1>1, <1>2, <1>3, <1>4, <1>5

LEMMA PollIInv == IInv /\ Poll => IInv'
<1> SUFFICES ASSUME IInv, Poll PROVE IInv'
  OBVIOUS
<1> USE DEF IInv
<1>1. TypeOK'
  BY DEF Poll, Update, TypeOK, MainPcs
<1>2. FailsBelowLimit'
  BY DEF Poll, Update, FailsBelowLimit, Live
<1>3. TodoListed'
  BY DEF Poll, Update, TodoListed
<1>4. NoOrphanRunner'
  BY DEF Poll, Update, TypeOK, NoOrphanRunner, Live
<1>5. StopFuncMatches'
  BY DEF Poll, Update, TypeOK, StopFuncMatches, HasRunner
<1> QED BY <1>1, <1>2, <1>3, <1>4, <1>5

LEMMA CheckIInv == IInv /\ Check => IInv'
<1> SUFFICES ASSUME IInv, Check PROVE IInv'
  OBVIOUS
<1> USE DEF IInv
<1>1. TypeOK'
  BY DEF Check, StopAll, TypeOK, MainPcs
<1>2. FailsBelowLimit' /\ TodoListed'
  BY DEF Check, StopAll, FailsBelowLimit, TodoListed, Live
<1>3. NoOrphanRunner'
  BY DEF Check, StopAll, TypeOK, NoOrphanRunner, Live
<1>4. StopFuncMatches'
  BY DEF Check, StopAll, TypeOK, StopFuncMatches, HasRunner
<1> QED BY <1>1, <1>2, <1>3, <1>4

\* The remaining steps of the poll loop and of the environment touch neither
\* the registry nor a goroutine.
QuietStep ==
  \/ \E d \in Devices : Replug(d) \/ Skip(d)
  \/ Signal \/ Return \/ LaunchDone

LEMMA QuietIInv == IInv /\ (QuietStep \/ UNCHANGED vars) => IInv'
<1> SUFFICES ASSUME IInv, QuietStep \/ UNCHANGED vars PROVE IInv'
  OBVIOUS
<1> USE DEF QuietStep, Replug, Skip, Signal, Return,
            LaunchDone, vars, mainVars, runVars
<1>1. UNCHANGED <<devices, stopFuncs, runVars>> /\ todo' \subseteq todo
  OBVIOUS
<1>2. TypeOK'
  BY DEF IInv, TypeOK, MainPcs
<1>3. FailsBelowLimit' /\ TodoListed' /\ NoOrphanRunner' /\ StopFuncMatches'
  BY <1>1 DEF IInv, FailsBelowLimit, TodoListed, NoOrphanRunner,
              StopFuncMatches, HasRunner, Live
<1> QED BY <1>2, <1>3 DEF IInv

-----------------------------------------------------------------------------
(* The capture goroutines. *)

\* A goroutine step only ever comes from a live goroutine, so it can turn a
\* goroutine into a returned one but never the reverse.
LEMMA RunStepFrame ==
  ASSUME TypeOK, NEW r \in Runners, RunStep(r) \/ FfmpegExits(r)
  PROVE  RunFrame(r) /\ Live(r)
BY DEF RunStep, FfmpegExits, MkOutDir, LoopTop, StartFfmpeg, FfmpegKilled, KilledIf,
       AfterError, AfterSuccess, RetryDelay, Goto, RunUnchanged, RunFrame,
       Live, LivePcs, EndPcs

LEMMA RunStepType ==
  ASSUME IInv, NEW r \in Runners, RunStep(r) \/ FfmpegExits(r)
  PROVE  TypeOK' /\ FailsBelowLimit'
<1> USE DEF IInv
<1>1. RunFrame(r) /\ Live(r)
  BY RunStepFrame
<1>2. fails' \in [Runners -> 0 .. MaxFails] /\ FailsBelowLimit'
  <2>1. CASE AfterError(r)
    <3>1. CASE CtxDone(r)
      BY <2>1, <3>1 DEF AfterError, Goto, TypeOK, FailsBelowLimit, Live, LivePcs, EndPcs
    <3>2. CASE ~CtxDone(r)
      <4>1. /\ fails' = [fails EXCEPT ![r] = fails[r] + 1]
            /\ runPc' = [runPc EXCEPT ![r] =
                           IF fails[r] + 1 >= MaxFails THEN "gaveup" ELSE "delay"]
        BY <2>1, <3>2 DEF AfterError, Goto
      <4>2. fails[r] \in Nat /\ fails[r] < MaxFails /\ MaxFails \in Nat
        BY <1>1, MaxFailsAssumption DEF TypeOK, FailsBelowLimit
      <4> QED BY <4>1, <4>2 DEF TypeOK, FailsBelowLimit, Live, LivePcs
    <3> QED BY <3>1, <3>2
  <2>2. CASE AfterSuccess(r)
    BY <2>2, MaxFailsAssumption
       DEF AfterSuccess, Goto, TypeOK, FailsBelowLimit, Live, LivePcs
  <2>3. CASE ~AfterError(r) /\ ~AfterSuccess(r)
    <3>1. UNCHANGED fails
      BY <2>3 DEF RunStep, FfmpegExits, MkOutDir, LoopTop, StartFfmpeg,
                  FfmpegKilled, KilledIf, RetryDelay
    <3> QED BY <1>1, <3>1 DEF RunFrame, TypeOK, FailsBelowLimit, Live
  <2> QED BY <2>1, <2>2, <2>3
<1>3. announced' \in [Runners -> BOOLEAN] /\ ffmpeg' \in [Runners -> BOOLEAN]
  BY DEF TypeOK, RunStep, FfmpegExits, MkOutDir, LoopTop, StartFfmpeg,
         FfmpegKilled, KilledIf, AfterError, AfterSuccess, RetryDelay
<1>4. runPc' \in [Runners -> LivePcs \cup EndPcs]
  BY <1>1 DEF RunFrame, TypeOK
<1> QED BY <1>1, <1>2, <1>3, <1>4 DEF TypeOK, RunFrame, mainVars

LEMMA RunStepIInv ==
  ASSUME IInv, NEW r \in Runners, RunStep(r) \/ FfmpegExits(r)
  PROVE  IInv'
<1> USE DEF IInv
<1>1. RunFrame(r) /\ Live(r)
  BY RunStepFrame
<1>2. TypeOK' /\ FailsBelowLimit'
  BY RunStepType
<1>3. UNCHANGED <<todo, devices, stopFuncs, runDev, cancelled>>
  BY <1>1 DEF RunFrame, mainVars
<1>4. \A s \in Runners : Live(s)' => Live(s)
  BY <1>1 DEF RunFrame, TypeOK, Live
<1>5. TodoListed' /\ NoOrphanRunner' /\ StopFuncMatches'
  BY <1>3, <1>4 DEF TodoListed, NoOrphanRunner, StopFuncMatches, HasRunner
<1> QED BY <1>2, <1>5

-----------------------------------------------------------------------------
LEMMA NextIInv == IInv /\ [Next]_vars => IInv'
<1> SUFFICES ASSUME IInv, [Next]_vars PROVE IInv'
  OBVIOUS
<1>1. CASE QuietStep \/ UNCHANGED vars
  BY <1>1, QuietIInv
<1>2. CASE Poll
  BY <1>2, PollIInv
<1>3. CASE Check
  BY <1>3, CheckIInv
<1>4. CASE \E d \in Devices, r \in Runners : Launch(d, r)
  BY <1>4, LaunchIInv
<1>5. CASE \E r \in Runners : RunStep(r) \/ FfmpegExits(r)
  BY <1>5, RunStepIInv
<1> QED BY <1>1, <1>2, <1>3, <1>4, <1>5 DEF Next, MainStep, QuietStep

\* IInv holds in every reachable state.
THEOREM InductiveInvariant == Spec => []IInv
BY InitIInv, NextIInv, PTL DEF Spec

\* Every variable of the daemon keeps its type; in particular a goroutine
\* never counts more than MaxFails failures.
THEOREM TypeCorrect == Spec => []TypeOK
<1>1. IInv => TypeOK
  BY DEF IInv
<1> QED BY <1>1, InductiveInvariant, PTL

\* No capture goroutine escapes the registry: each one that was not cancelled
\* is the one its device's cancel func stops.
THEOREM NoOrphan == Spec => []NoOrphanRunner
<1>1. IInv => NoOrphanRunner
  BY DEF IInv
<1> QED BY <1>1, InductiveInvariant, PTL

\* The registry has no stale cancel funcs.
THEOREM StopFuncsMatch == Spec => []StopFuncMatches
<1>1. IInv => StopFuncMatches
  BY DEF IInv
<1> QED BY <1>1, InductiveInvariant, PTL

\* At most one goroutine per device is not being stopped.
THEOREM OneActive == Spec => []OneActiveRunner
<1>1. IInv => OneActiveRunner
  BY DEF IInv, NoOrphanRunner, OneActiveRunner
<1> QED BY <1>1, InductiveInvariant, PTL

-----------------------------------------------------------------------------
\* A step that cancels a goroutine is a shutdown or a removal of its device.
LEMMA CancelStep ==
  ASSUME IInv, Next, NEW r \in Runners, ~cancelled[r], cancelled'[r]
  PROVE  rootDone \/ runDev[r] \notin devices'
<1>1. CASE Check
  BY <1>1 DEF Check
<1>2. CASE Poll
  <2>1. PICK d \in devices \ usable : stopFuncs[d] = r
    BY <1>2 DEF Poll, Update, IInv, TypeOK
  <2>2. runDev[r] = d
    BY <2>1, NoRunnerAssumption DEF IInv, TypeOK, StopFuncMatches, HasRunner
  <2> QED BY <1>2, <2>1, <2>2 DEF Poll, Update
<1>3. CASE \E d \in Devices, s \in Runners : Launch(d, s)
  BY <1>3 DEF Launch, Start, IInv, TypeOK
<1>4. CASE \E s \in Runners : RunStep(s) \/ FfmpegExits(s)
  BY <1>4, RunStepFrame DEF IInv, RunFrame
<1>5. CASE QuietStep
  BY <1>5 DEF QuietStep, Replug, Skip, Signal, Return,
              LaunchDone, runVars
<1> QED BY <1>1, <1>2, <1>3, <1>4, <1>5 DEF Next, MainStep, QuietStep

\* A capture goroutine is only told to stop when its device left the registry
\* or the daemon is shutting down.
THEOREM CancelsAreJustified == Spec => CancelOnlyWhenGone
<1>1. IInv /\ [Next]_vars =>
        [\A r \in Runners :
           ~cancelled[r] /\ cancelled'[r] => rootDone \/ runDev[r] \notin devices']_vars
  BY CancelStep
<1> QED BY <1>1, InductiveInvariant, PTL DEF Spec, CancelOnlyWhenGone
-----------------------------------------------------------------------------
\* Where RunCaptureLoop is decides what has been announced and what runs.
EventsFollowPc ==
  \A r \in Runners :
    /\ ffmpeg[r] => runPc[r] = "ffmpeg"
    /\ announced[r] <=> runPc[r] \in {"start", "ffmpeg", "ok", "error"}

LEMMA RunStepEvents ==
  ASSUME TypeOK, EventsFollowPc, NEW r \in Runners, RunStep(r) \/ FfmpegExits(r)
  PROVE  EventsFollowPc'
<1> USE DEF TypeOK, EventsFollowPc, Goto
<1>1. CASE MkOutDir(r)
  BY <1>1 DEF MkOutDir
<1>2. CASE LoopTop(r)
  BY <1>2 DEF LoopTop
<1>3. CASE StartFfmpeg(r)
  BY <1>3 DEF StartFfmpeg
<1>4. CASE FfmpegKilled(r) \/ FfmpegExits(r)
  BY <1>4 DEF FfmpegKilled, KilledIf, FfmpegExits
<1>5. CASE AfterError(r)
  BY <1>5 DEF AfterError
<1>6. CASE AfterSuccess(r)
  BY <1>6 DEF AfterSuccess
<1>7. CASE RetryDelay(r)
  BY <1>7 DEF RetryDelay
<1> QED BY <1>1, <1>2, <1>3, <1>4, <1>5, <1>6, <1>7 DEF RunStep

LEMMA NextEvents == TypeOK /\ EventsFollowPc /\ [Next]_vars => EventsFollowPc'
<1> SUFFICES ASSUME TypeOK, EventsFollowPc, [Next]_vars PROVE EventsFollowPc'
  OBVIOUS
<1>1. CASE \E r \in Runners : RunStep(r) \/ FfmpegExits(r)
  BY <1>1, RunStepEvents
<1>2. CASE \E d \in Devices, r \in Runners : Launch(d, r)
  <2>1. PICK d \in Devices, r \in Runners : Launch(d, r)
    BY <1>2
  <2> QED BY <2>1 DEF Launch, Start, TypeOK, EventsFollowPc
<1>3. CASE Check \/ Poll \/ QuietStep \/ UNCHANGED vars
  <2>1. UNCHANGED <<runPc, announced, ffmpeg>>
    BY <1>3 DEF Check, Poll, Update, QuietStep, Replug, Skip, Signal,
                Return, LaunchDone, vars, runVars
  <2> QED BY <2>1 DEF EventsFollowPc
<1> QED BY <1>1, <1>2, <1>3 DEF Next, MainStep, QuietStep

\* recording_started and recording_stopped bracket every ffmpeg process, on
\* every path through the capture loop.
THEOREM AnnouncementsCorrect == Spec => []AnnouncementsMatch
<1>1. Init => EventsFollowPc
  BY DEF Init, EventsFollowPc
<1>2. EventsFollowPc => AnnouncementsMatch
  BY DEF EventsFollowPc, AnnouncementsMatch, Live, LivePcs, EndPcs
<1> QED BY <1>1, <1>2, NextEvents, TypeCorrect, PTL DEF Spec
=============================================================================
