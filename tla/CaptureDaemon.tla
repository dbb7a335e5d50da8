---------------------------- MODULE CaptureDaemon ----------------------------
(***************************************************************************)
(* The capture-daemon: a poll loop (main.go) that scans for capture        *)
(* devices, keeps them in a registry (registry/registry.go) and starts one *)
(* capture goroutine per device (runner/ffmpeg.go), which runs ffmpeg over *)
(* and over, gives up after MaxFails consecutive failures, and stops when  *)
(* its context is cancelled.                                               *)
(*                                                                         *)
(* A goroutine is a slot of Runners; a slot is reused once its goroutine   *)
(* has returned and no stop function refers to it, so Runners bounds how   *)
(* many goroutines are alive or referenced at the same time.               *)
(***************************************************************************)
EXTENDS Naturals

CONSTANTS Devices,   \* the device nodes that may appear
          Runners,   \* slots for capture goroutines
          MaxFails,  \* consecutive ffmpeg failures after which a runner gives up
          NoRunner   \* a device without a stop function

ASSUME MaxFailsAssumption == MaxFails \in Nat \ {0}
ASSUME NoRunnerAssumption == NoRunner \notin Runners

VARIABLES
  usable,     \* environment: nodes for which IsCaptureNode answers true now
  mainPc,     \* main: where the poll loop is
  todo,       \* main: part of the List() snapshot not yet visited
  rootDone,   \* the root context is cancelled (SIGINT or SIGTERM arrived)
  devices,    \* registry: ids of the devices map
  stopFuncs,  \* registry: the goroutine each registered cancel func stops
  runPc,      \* per goroutine: where RunCaptureLoop is
  runDev,     \* per goroutine: the device it captures
  fails,      \* per goroutine: consecutive failures
  cancelled,  \* per goroutine: its own cancel func was called
  announced,  \* per goroutine: recording_started not yet followed by _stopped
  ffmpeg      \* per goroutine: its ffmpeg child process is alive

mainVars == <<mainPc, todo, devices, stopFuncs>>
runVars == <<runPc, runDev, fails, cancelled, announced, ffmpeg>>
vars == <<usable, rootDone, mainVars, runVars>>

MainPcs == {"check", "poll", "launch", "return", "exited"}
LivePcs == {"mkdir", "top", "start", "ffmpeg", "ok", "error", "delay"}
EndPcs  == {"unused", "stopped", "gaveup", "nodir"}

Live(r) == runPc[r] \in LivePcs

\* ctx.Err() # nil for the context RunCaptureLoop was given.
CtxDone(r) == rootDone \/ cancelled[r]

HasRunner(d) == stopFuncs[d] # NoRunner

\* A slot a new goroutine may take.
Reusable(r) == runPc[r] \in EndPcs /\ \A d \in Devices : stopFuncs[d] # r

Running == mainPc # "exited"

Init ==
  /\ usable \in SUBSET Devices
  /\ todo = {} /\ devices = {}
  /\ mainPc = "check"
  /\ rootDone = FALSE
  /\ stopFuncs = [d \in Devices |-> NoRunner]
  /\ runPc = [r \in Runners |-> "unused"]
  /\ runDev \in [Runners -> Devices]
  /\ fails = [r \in Runners |-> 0]
  /\ cancelled = [r \in Runners |-> FALSE]
  /\ announced = [r \in Runners |-> FALSE]
  /\ ffmpeg = [r \in Runners |-> FALSE]

-----------------------------------------------------------------------------
(* Environment. *)

\* A node appears, or starts or stops answering VIDIOC_QUERYCAP.
Replug(d) ==
  /\ Running
  /\ usable' = IF d \in usable THEN usable \ {d} ELSE usable \cup {d}
  /\ UNCHANGED <<rootDone, mainVars, runVars>>

Signal ==
  /\ Running /\ ~rootDone
  /\ rootDone' = TRUE
  /\ UNCHANGED <<usable, mainVars, runVars>>

-----------------------------------------------------------------------------
(* The poll loop. *)

\* StopAll calls and forgets every cancel func; the devices map stays.
StopAll ==
  /\ cancelled' = [r \in Runners |->
                     cancelled[r] \/ \E d \in Devices : stopFuncs[d] = r]
  /\ stopFuncs' = [d \in Devices |-> NoRunner]
  /\ UNCHANGED devices

\* Fault: the loop does not look at the root context.
CheckIgnoresSignal ==
  /\ mainPc = "check"
  /\ mainPc' = "poll"
  /\ UNCHANGED <<usable, rootDone, todo, devices, stopFuncs, runVars>>

Check ==
  /\ mainPc = "check"
  /\ IF rootDone
     THEN StopAll /\ mainPc' = "return"
     ELSE mainPc' = "poll" /\ UNCHANGED <<cancelled, stopFuncs, devices>>
  /\ UNCHANGED <<usable, rootDone, todo,
                 runPc, runDev, fails, announced, ffmpeg>>

Return ==
  /\ mainPc = "return"
  /\ mainPc' = "exited"
  /\ UNCHANGED <<usable, rootDone, todo, devices, stopFuncs, runVars>>

\* One pass of the registry: cancel the goroutines of the devices in stop,
\* forget the cancel funcs of those in forget, keep and list what was found.
Update(stop, forget) ==
  /\ mainPc = "poll"
  /\ cancelled' = [r \in Runners |->
                     cancelled[r] \/ \E d \in stop : stopFuncs[d] = r]
  /\ stopFuncs' = [d \in Devices |->
                     IF d \in forget THEN NoRunner ELSE stopFuncs[d]]
  /\ devices' = usable
  /\ todo' = usable
  /\ mainPc' = "launch"
  /\ UNCHANGED <<usable, rootDone, runPc, runDev, fails, announced, ffmpeg>>

\* Faults: a vanished device's cancel func is dropped without being called, or
\* called and kept.
PollForgets == Update({}, devices \ usable)
PollKeeps   == Update(devices \ usable, {})

\* ScanAll, where a scanner that fails contributes nothing and the scan itself
\* never fails; Registry.Update with its result; List() for the launch loop.
Poll == Update(devices \ usable, devices \ usable)

\* Register a cancel func, then start the goroutine.
Start(d, r) ==
  /\ mainPc = "launch" /\ d \in todo
  /\ Reusable(r)
  /\ stopFuncs' = [stopFuncs EXCEPT ![d] = r]
  /\ runPc' = [runPc EXCEPT ![r] = "mkdir"]
  /\ runDev' = [runDev EXCEPT ![r] = d]
  /\ fails' = [fails EXCEPT ![r] = 0]
  /\ cancelled' = [cancelled EXCEPT ![r] = FALSE]
  /\ announced' = [announced EXCEPT ![r] = FALSE]
  /\ ffmpeg' = [ffmpeg EXCEPT ![r] = FALSE]
  /\ todo' = todo \ {d}
  /\ UNCHANGED <<usable, rootDone, mainPc, devices>>

\* Fault: the launch loop does not ask the registry first.
LaunchAlways(d, r) == Start(d, r)

\* Only if no cancel func is registered.
Launch(d, r) == ~HasRunner(d) /\ Start(d, r)

Skip(d) ==
  /\ mainPc = "launch" /\ d \in todo
  /\ HasRunner(d)
  /\ todo' = todo \ {d}
  /\ UNCHANGED <<usable, rootDone, mainPc, devices, stopFuncs, runVars>>

\* Then sleep for pollInterval and start over.
LaunchDone ==
  /\ mainPc = "launch" /\ todo = {}
  /\ mainPc' = "check"
  /\ UNCHANGED <<usable, rootDone, todo, devices, stopFuncs, runVars>>

MainStep ==
  \/ Check \/ Return \/ Poll \/ LaunchDone
  \/ \E d \in Devices : Skip(d) \/ \E r \in Runners : Launch(d, r)

-----------------------------------------------------------------------------
(* RunCaptureLoop. Its "Not a tty" exit is left out: cmd.Run reports the    *)
(* exit status, never ffmpeg's standard error, so that text does not occur. *)

Goto(r, pc) == Running /\ runPc' = [runPc EXCEPT ![r] = pc]

RunUnchanged == UNCHANGED <<usable, rootDone, mainVars, runDev, cancelled>>

MkOutDir(r) ==
  /\ runPc[r] = "mkdir"
  /\ Goto(r, "top") \/ Goto(r, "nodir")
  /\ RunUnchanged /\ UNCHANGED <<fails, announced, ffmpeg>>

\* The loop head: return if cancelled, else publish recording_started.
LoopTop(r) ==
  /\ runPc[r] = "top"
  /\ IF CtxDone(r)
     THEN Goto(r, "stopped") /\ UNCHANGED announced
     ELSE Goto(r, "start") /\ announced' = [announced EXCEPT ![r] = TRUE]
  /\ RunUnchanged /\ UNCHANGED <<fails, ffmpeg>>

\* cmd.Start refuses a cancelled context, and may fail on its own.
StartFfmpeg(r) ==
  /\ runPc[r] = "start"
  /\ \/ ~CtxDone(r) /\ Goto(r, "ffmpeg") /\ ffmpeg' = [ffmpeg EXCEPT ![r] = TRUE]
     \/ Goto(r, "error") /\ UNCHANGED ffmpeg
  /\ RunUnchanged /\ UNCHANGED <<fails, announced>>

\* ffmpeg ends by itself.
FfmpegExits(r) ==
  /\ runPc[r] = "ffmpeg"
  /\ Goto(r, "ok") \/ Goto(r, "error")
  /\ ffmpeg' = [ffmpeg EXCEPT ![r] = FALSE]
  /\ RunUnchanged /\ UNCHANGED <<fails, announced>>

\* ffmpeg is killed when the context it was started with is done.
KilledIf(r, done) ==
  /\ runPc[r] = "ffmpeg" /\ done
  /\ Goto(r, "error")
  /\ ffmpeg' = [ffmpeg EXCEPT ![r] = FALSE]
  /\ RunUnchanged /\ UNCHANGED <<fails, announced>>

\* Fault: the command was built with the root context.
KilledOnShutdown(r) == KilledIf(r, rootDone)

\* exec.CommandContext was given the runner's own context.
FfmpegKilled(r) == KilledIf(r, CtxDone(r))

\* Fault: the cancelled path returns before it publishes.
SilentStop(r) ==
  /\ runPc[r] = "error" /\ CtxDone(r)
  /\ Goto(r, "stopped")
  /\ RunUnchanged /\ UNCHANGED <<fails, announced, ffmpeg>>

\* After cmd.Run: every path publishes recording_stopped.
AfterError(r) ==
  /\ runPc[r] = "error"
  /\ announced' = [announced EXCEPT ![r] = FALSE]
  /\ IF CtxDone(r)
     THEN Goto(r, "stopped") /\ UNCHANGED fails
     ELSE /\ fails' = [fails EXCEPT ![r] = @ + 1]
          /\ Goto(r, IF fails[r] + 1 >= MaxFails THEN "gaveup" ELSE "delay")
  /\ RunUnchanged /\ UNCHANGED ffmpeg

AfterSuccess(r) ==
  /\ runPc[r] = "ok"
  /\ announced' = [announced EXCEPT ![r] = FALSE]
  /\ fails' = [fails EXCEPT ![r] = 0]
  /\ Goto(r, "delay")
  /\ RunUnchanged /\ UNCHANGED ffmpeg

\* select between ctx.Done and the timer; either may win when both are ready.
RetryDelay(r) ==
  /\ runPc[r] = "delay"
  /\ \/ CtxDone(r) /\ Goto(r, "stopped")
     \/ Goto(r, "top")
  /\ RunUnchanged /\ UNCHANGED <<fails, announced, ffmpeg>>

\* The steps the goroutine's own scheduling brings about.
RunStep(r) ==
  \/ MkOutDir(r) \/ LoopTop(r) \/ StartFfmpeg(r) \/ FfmpegKilled(r)
  \/ AfterError(r) \/ AfterSuccess(r) \/ RetryDelay(r)

-----------------------------------------------------------------------------
Next ==
  \/ \E d \in Devices : Replug(d)
  \/ Signal
  \/ MainStep
  \/ \E r \in Runners : RunStep(r) \/ FfmpegExits(r)

Spec == Init /\ [][Next]_vars

\* The Go scheduler runs every goroutine, timers fire, and a killed ffmpeg
\* exits. Nothing makes ffmpeg end by itself, a signal arrive or a device move.
FairSpec ==
  /\ Spec
  /\ WF_vars(MainStep)
  /\ \A r \in Runners : WF_vars(RunStep(r))

-----------------------------------------------------------------------------
(* Properties. *)

TypeOK ==
  /\ usable \in SUBSET Devices
  /\ todo \in SUBSET Devices
  /\ devices \in SUBSET Devices
  /\ mainPc \in MainPcs
  /\ rootDone \in BOOLEAN
  /\ stopFuncs \in [Devices -> Runners \cup {NoRunner}]
  /\ runPc \in [Runners -> LivePcs \cup EndPcs]
  /\ runDev \in [Runners -> Devices]
  /\ fails \in [Runners -> 0 .. MaxFails]
  /\ cancelled \in [Runners -> BOOLEAN]
  /\ announced \in [Runners -> BOOLEAN]
  /\ ffmpeg \in [Runners -> BOOLEAN]

\* Whoever runs without having been cancelled can still be stopped: the
\* registry holds the cancel func of every such goroutine under its device.
\* Otherwise the daemon could neither stop it nor avoid starting a second one.
NoOrphanRunner ==
  \A r \in Runners : Live(r) /\ ~cancelled[r] => stopFuncs[runDev[r]] = r

\* Two goroutines on one device only while one of them is being stopped.
OneActiveRunner ==
  \A r, s \in Runners :
    Live(r) /\ Live(s) /\ runDev[r] = runDev[s] /\ r # s => cancelled[r] \/ cancelled[s]

\* A cancel func is kept only for a device in the registry, and stops the
\* goroutine of that device: a device that comes back finds no stale entry.
StopFuncMatches ==
  \A d \in Devices : HasRunner(d) => d \in devices /\ runDev[stopFuncs[d]] = d

\* A runner is never told to stop while its device is in the registry,
\* except on shutdown.
CancelOnlyWhenGone ==
  [][\A r \in Runners :
        ~cancelled[r] /\ cancelled'[r] => rootDone \/ runDev[r] \notin devices']_vars

\* The events bracket the process on every path of RunCaptureLoop: a living
\* ffmpeg was announced as started, and a loop that waits or has returned has
\* announced the stop of every recording it started.
AnnouncementsMatch ==
  \A r \in Runners :
    /\ ffmpeg[r] => announced[r] /\ Live(r)
    /\ runPc[r] \in EndPcs \cup {"delay", "top"} => ~announced[r]

\* A cancelled runner returns and its ffmpeg is gone, unless the daemon exits.
CancelledRunnerEnds ==
  \A r \in Runners :
    cancelled[r] ~> (~Live(r) /\ ~ffmpeg[r]) \/ ~Running

\* A device that stays usable ends up with a live runner of its own, or with
\* one that returned for a reason of its own (it gave up, or had no directory).
Served(d) ==
  /\ HasRunner(d)
  /\ ~cancelled[stopFuncs[d]]
  /\ Live(stopFuncs[d]) \/ runPc[stopFuncs[d]] \in {"gaveup", "nodir"}

StableDeviceIsServed ==
  \A d \in Devices :
    <>[](d \in usable) => <>[](Served(d) \/ rootDone \/ ~Running)

\* SIGTERM ends the process.
ShutdownEnds == rootDone ~> ~Running

\* Whoever is told to stop does stop: a runner whose device has gone, in
\* whichever of its waits it is, and the daemon after a signal.
StopsAreServed == CancelledRunnerEnds /\ ShutdownEnds
=============================================================================
