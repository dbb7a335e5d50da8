------------------------------- MODULE Recorder -------------------------------
(***************************************************************************)
(* Recording over the control WebSocket (video/ws.py). Every client has a   *)
(* coroutine that handles its commands one after the other; start and stop  *)
(* hold _recording_lock over their awaits, and every broadcast holds        *)
(* _clients_lock while it sends to one client after the other. A recording  *)
(* has a task that broadcasts its status every second.                      *)
(*                                                                         *)
(* One feed is modelled; feeds share the locks and nothing else. A feed has *)
(* one status task at a time: a task is cancelled before the end of its     *)
(* recording is announced and is gone when the event loop next runs it.     *)
(***************************************************************************)
EXTENDS Naturals

CONSTANTS
  Clients,  \* control clients
  Task,     \* the feed's status task, as a holder of _clients_lock
  Nobody    \* no holder of a lock

ASSUME DistinctAssumption == Task \notin Clients /\ Nobody \notin Clients \cup {Task}

VARIABLES
  socket,    \* per client: whether it reads, lags behind, or is gone
  heard,     \* per client: the last event about the feed it received
  members,   \* _control_clients
  pc,        \* per client: where its coroutine is
  recLock,   \* holder of _recording_lock
  cliLock,   \* holder of _clients_lock
  todo,      \* the clients the holder of _clients_lock has yet to send to
  recorder,  \* the feed has an entry in _recorders
  processes, \* ffmpeg processes alive for the feed
  taskPc,    \* where status_loop is
  cancelled  \* the task's cancel() was called

sockVars == <<socket, heard, members>>
lockVars == <<recLock, cliLock, todo>>
recVars == <<recorder, processes>>
taskVars == <<taskPc, cancelled>>
vars == <<sockVars, pc, lockVars, recVars, taskVars>>

Holding == {"starting", "tell_started", "stopping", "tell_stopped", "refuse"}
Telling == {"tell", "tell_started", "tell_stopped"}
Pcs == {"off", "join", "idle", "start", "stop", "leave"} \cup Holding \cup Telling

Init ==
  /\ socket = [c \in Clients |-> "reads"]
  /\ heard = [c \in Clients |-> "nothing"]
  /\ members = {}
  /\ pc = [c \in Clients |-> "off"]
  /\ recLock = Nobody /\ cliLock = Nobody /\ todo = {}
  /\ recorder = FALSE /\ processes = 0
  /\ taskPc = "none" /\ cancelled = FALSE

Goto(c, to) == pc' = [pc EXCEPT ![c] = to]

-----------------------------------------------------------------------------
(* The clients' sockets and the process. *)

Becomes(c, s) ==
  /\ socket' = [socket EXCEPT ![c] = s]
  /\ heard' = [heard EXCEPT ![c] = IF s = "gone" THEN "nothing" ELSE @]
  /\ UNCHANGED <<members, pc, lockVars, recVars, taskVars>>

\* A client stops reading, or its connection ends.
Disturb(c) ==
  /\ pc[c] # "off" /\ socket[c] = "reads"
  /\ Becomes(c, "gone") \/ (c \in members /\ Becomes(c, "lags"))

\* A client that lags reads again, or is dropped because it answers no ping.
Recover(c) ==
  /\ socket[c] = "lags"
  /\ \E s \in {"reads", "gone"} : Becomes(c, s)

\* ffmpeg may end at any time; the recorder does not notice.
ProcessEnds ==
  /\ processes > 0
  /\ processes' = processes - 1
  /\ UNCHANGED <<sockVars, pc, lockVars, recorder, taskVars>>

-----------------------------------------------------------------------------
(* _broadcast_control. Its holders are coroutines and the status task. *)

Broadcasting(b) ==
  IF b \in Clients THEN pc[b] \in Telling ELSE taskPc = "tell" /\ ~cancelled

\* A preview, an overlay or a stream is not about the recording.
EventFor(b, d) ==
  IF b = Task THEN "status"
  ELSE CASE pc[b] = "tell" -> heard[d]
         [] pc[b] = "tell_started" -> "started"
         [] pc[b] = "tell_stopped" -> "stopped"

TakeClients(b) ==
  /\ Broadcasting(b) /\ cliLock = Nobody
  /\ cliLock' = b /\ todo' = members
  /\ UNCHANGED <<sockVars, pc, recLock, recVars, taskVars>>

SendTo(b, d) ==
  /\ cliLock = b /\ d \in todo /\ Broadcasting(b)
  /\ todo' = todo \ {d}
  /\ heard' = [heard EXCEPT ![d] = IF socket[d] = "reads" THEN EventFor(b, d) ELSE @]
  /\ UNCHANGED <<socket, pc, recLock, cliLock, recVars, taskVars>>

\* Fault: a client whose send fails is removed the way its own coroutine does
\* it, under the lock, which is held already.
SendLocksAgain(b, d) ==
  /\ socket[d] = "reads"
  /\ SendTo(b, d)
  /\ UNCHANGED members

\* A client that lags is waited for. One that is gone raises and is discarded,
\* or takes the message without a complaint.
Send(b, d) ==
  /\ socket[d] # "lags"
  /\ SendTo(b, d)
  /\ \/ UNCHANGED members
     \/ socket[d] = "gone" /\ members' = members \ {d}

-----------------------------------------------------------------------------
(* ws_control: a client's coroutine. *)

Connect(c) ==
  /\ pc[c] = "off"
  /\ Goto(c, "join")
  /\ UNCHANGED <<sockVars, lockVars, recVars, taskVars>>

Join(c) ==
  /\ pc[c] = "join" /\ cliLock = Nobody
  /\ members' = members \cup {c}
  /\ Goto(c, "idle")
  /\ UNCHANGED <<socket, heard, lockVars, recVars, taskVars>>

\* start_record, stop_record, an action that is only announced, or a command
\* that lacks a key, whose exception ends the coroutine.
Command(c) ==
  /\ pc[c] = "idle" /\ socket[c] # "gone"
  /\ \E to \in {"start", "stop", "tell", "leave"} : Goto(c, to)
  /\ UNCHANGED <<sockVars, lockVars, recVars, taskVars>>

\* receive_text raises.
Disconnect(c) ==
  /\ pc[c] = "idle" /\ socket[c] = "gone"
  /\ Goto(c, "leave")
  /\ UNCHANGED <<sockVars, lockVars, recVars, taskVars>>

\* The next connection of the same client has another socket.
Leave(c) ==
  /\ pc[c] = "leave" /\ cliLock = Nobody
  /\ members' = members \ {c}
  /\ socket' = [socket EXCEPT ![c] = "reads"]
  /\ heard' = [heard EXCEPT ![c] = "nothing"]
  /\ Goto(c, "off")
  /\ UNCHANGED <<lockVars, recVars, taskVars>>

\* An error is sent to the client alone, under _recording_lock; if the client
\* is gone that may raise and end the coroutine.
Refuse(c) ==
  /\ pc[c] = "refuse" /\ socket[c] # "lags"
  /\ recLock' = Nobody
  /\ Goto(c, "idle") \/ (socket[c] = "gone" /\ Goto(c, "leave"))
  /\ UNCHANGED <<sockVars, cliLock, todo, recVars, taskVars>>

\* Everybody has been told of something other than a start.
Told(c) ==
  /\ pc[c] \in {"tell", "tell_stopped"} /\ cliLock = c /\ todo = {}
  /\ cliLock' = Nobody
  /\ recLock' = IF recLock = c THEN Nobody ELSE recLock
  /\ Goto(c, "idle")
  /\ UNCHANGED <<sockVars, todo, recVars, taskVars>>

-----------------------------------------------------------------------------
(* _start_record. *)

\* Refused if the feed has a recorder, if the device is not there, or if
\* HWAccelRecorder cannot be made; otherwise entered before it is started.
StartAs(c) ==
  /\ pc[c] = "start"
  /\ recLock' = c
  /\ \/ UNCHANGED recorder /\ Goto(c, "refuse")
     \/ ~recorder /\ recorder' = TRUE /\ Goto(c, "starting")
  /\ UNCHANGED <<sockVars, cliLock, todo, processes, taskVars>>

\* Fault: nothing waits for the start or stop that another client is in.
BeginStartUnlocked(c) == StartAs(c)

BeginStart(c) == recLock = Nobody /\ StartAs(c)

\* start_recording_hw in a thread. If it raises the recorder stays entered.
StartProcess(c) ==
  /\ pc[c] = "starting"
  /\ \/ processes' = processes + 1 /\ Goto(c, "tell_started")
     \/ Goto(c, "refuse") /\ UNCHANGED processes
  /\ UNCHANGED <<sockVars, lockVars, recorder, taskVars>>

\* Everybody has been told; the status task is made.
Started(c) ==
  /\ pc[c] = "tell_started" /\ cliLock = c /\ todo = {}
  /\ taskPc = "none" /\ taskPc' = "check"
  /\ cliLock' = Nobody /\ recLock' = Nobody
  /\ Goto(c, "idle")
  /\ UNCHANGED <<sockVars, todo, recVars, cancelled>>

-----------------------------------------------------------------------------
(* _stop_record. *)

BeginStop(c) ==
  /\ pc[c] = "stop" /\ recLock = Nobody
  /\ recLock' = c
  /\ recorder' = FALSE
  /\ Goto(c, IF recorder THEN "stopping" ELSE "refuse")
  /\ UNCHANGED <<sockVars, cliLock, todo, processes, taskVars>>

Stopping(c) ==
  /\ pc[c] = "stopping"
  /\ Goto(c, "tell_stopped")
  /\ UNCHANGED <<sockVars, lockVars, recorder, taskPc>>

\* Faults: the status task is left to notice the end by itself; the task is
\* cancelled and the process left alone.
StopLeavesTask(c) == Stopping(c) /\ processes' = 0 /\ UNCHANGED cancelled
StopLeavesProcess(c) == Stopping(c) /\ cancelled' = (taskPc # "none") /\ UNCHANGED processes

\* stop_recording in a thread, then the task is cancelled. It terminates a child
\* of its own, kills it after 5 seconds, and raises neither way, so "Stop failed"
\* is never answered.
StopProcess(c) == Stopping(c) /\ processes' = 0 /\ cancelled' = (taskPc # "none")

-----------------------------------------------------------------------------
(* status_loop. *)

TaskCheck ==
  /\ taskPc = "check" /\ ~cancelled
  /\ taskPc' = IF recorder THEN "tell" ELSE "none"
  /\ UNCHANGED <<sockVars, pc, lockVars, recVars, cancelled>>

\* Everybody has been told; a second later it checks again.
TaskTold ==
  /\ Broadcasting(Task) /\ cliLock = Task /\ todo = {}
  /\ cliLock' = Nobody /\ taskPc' = "check"
  /\ UNCHANGED <<sockVars, pc, recLock, todo, recVars, cancelled>>

\* CancelledError wherever the task waits; the lock it may hold is released.
TaskCancelled ==
  /\ cancelled
  /\ taskPc' = "none" /\ cancelled' = FALSE
  /\ IF cliLock = Task THEN cliLock' = Nobody /\ todo' = {} ELSE UNCHANGED <<cliLock, todo>>
  /\ UNCHANGED <<sockVars, pc, recLock, recVars>>

-----------------------------------------------------------------------------
\* Steps that wait for a lock or a socket, and steps that do not.
Waiting(c) ==
  \/ Join(c) \/ Leave(c) \/ BeginStart(c) \/ BeginStop(c) \/ TakeClients(c)
  \/ Refuse(c) \/ \E d \in Clients : Send(c, d)
Going(c) == Disconnect(c) \/ StartProcess(c) \/ Started(c) \/ StopProcess(c) \/ Told(c)
TaskWaiting == TakeClients(Task) \/ \E d \in Clients : Send(Task, d)
TaskGoing == TaskCheck \/ TaskTold \/ TaskCancelled

Next ==
  \/ \E c \in Clients :
       \/ Disturb(c) \/ Recover(c) \/ Connect(c) \/ Command(c)
       \/ Waiting(c) \/ Going(c)
  \/ ProcessEnds \/ TaskWaiting \/ TaskGoing

Spec == Init /\ [][Next]_vars

\* The event loop runs every coroutine that can go on. Locks are handed out in
\* the order of the requests, and a client that lags is at some time read from
\* or dropped, so whoever waits for one of them again and again gets through.
FairSpec ==
  /\ Spec
  /\ \A c \in Clients : WF_vars(Recover(c)) /\ WF_vars(Going(c)) /\ SF_vars(Waiting(c))
  /\ WF_vars(TaskGoing) /\ SF_vars(TaskWaiting)

-----------------------------------------------------------------------------
(* Properties. *)

\* Types, and whoever holds a lock is at a place where it is held: the
\* "async with" blocks of ws.py.
TypeOK ==
  /\ socket \in [Clients -> {"reads", "lags", "gone"}]
  /\ heard \in [Clients -> {"nothing", "started", "status", "stopped"}]
  /\ members \in SUBSET Clients /\ todo \in SUBSET Clients
  /\ pc \in [Clients -> Pcs]
  /\ recLock \in Clients \cup {Nobody}
  /\ cliLock \in Clients \cup {Task, Nobody}
  /\ recorder \in BOOLEAN /\ processes \in Nat
  /\ taskPc \in {"none", "check", "tell"} /\ cancelled \in BOOLEAN
  /\ \A c \in Clients : pc[c] \in Holding <=> recLock = c
  /\ cliLock \in Clients => pc[cliLock] \in Telling
  /\ cliLock = Task => taskPc = "tell"

\* The feed never has two ffmpeg processes, and none without a recorder but
\* while it is being stopped: what _recording_lock is held over the awaits of
\* _start_record and _stop_record for.
OneProcess ==
  /\ processes <= 1
  /\ processes = 1 => recorder \/ (recLock # Nobody /\ pc[recLock] = "stopping")

\* A client that was told of a recording, and not of its end, finds a recorder
\* it can stop, unless somebody is stopping it right now: the broadcasts of
\* starts, statuses and stops arrive in the order of what they announce.
ToldIsStoppable ==
  \A c \in members :
    heard[c] \in {"started", "status"} =>
      recorder \/ (recLock # Nobody /\ pc[recLock] \in {"stopping", "tell_stopped"})

\* Nobody is told the status of a recording after its end, also if the task
\* is in the middle of a broadcast when it is cancelled.
NoStatusAfterStop ==
  [][\A c \in Clients : heard[c] = "stopped" => heard'[c] # "status"]_vars

\* Every command is answered or carried out, and every client that is gone is
\* forgotten: nobody waits for a lock for ever, however slow some clients are.
CommandsEnd ==
  \A c \in Clients : pc[c] \notin {"off", "idle"} ~> pc[c] \in {"off", "idle"}
=============================================================================
