------------------------------ MODULE Lifecycle ------------------------------
(***************************************************************************)
(* The main thread of a process that imports video: bootstrap.py starts the   *)
(* event bus, whose close it registers as a cleaner, and later registers       *)
(* _publish_shutdown; video/lifecycle.py calls shutdown at exit and in the      *)
(* handler of SIGINT and SIGTERM. A handler runs on top of whatever the main    *)
(* thread is doing, a shutdown too, also between its test of the list, its pop  *)
(* and the call; then the thread goes on. A pop from a list that was emptied in  *)
(* between raises. uvicorn has handlers of its own, and raises the signal again   *)
(* when it has stopped.                                                       *)
(***************************************************************************)
EXTENDS Naturals, Sequences

CONSTANT MaxSignals  \* bound
ASSUME LifecycleAssumption == MaxSignals \in Nat

VARIABLES
  main,      \* "init", "start", "announce", "register", "assign", "hook", "serve", "exit", "atexit", "dead"
  broker,    \* EVENT_BROKER_URL is set
  bus,       \* _EVENT_BUS: "none", "up" or "closed"
  failedBus, \* _INIT_FAILED
  cleaners,  \* _CLEANERS
  frames,    \* calls of shutdown, each on top of the one before: what it is at
  signals,
  hooked, calls, \* history: the cleaners given to on_shutdown, how often each was called
  lost,      \* history: cleaners taken by a shutdown that an exception ended before the call
  early      \* history: the bus cleaner was called before _EVENT_BUS was set

historyVars == <<hooked, calls, lost, early>>
lifeVars == <<main, broker, bus, failedBus, cleaners, frames, signals, historyVars>>

LifeInit ==
  /\ main = "init" /\ broker \in BOOLEAN /\ bus = "none" /\ failedBus = FALSE
  /\ cleaners = <<>> /\ frames = <<>> /\ signals = 0
  /\ calls = [c \in {"bus", "publisher"} |-> 0] /\ hooked = {} /\ lost = {} /\ early = FALSE

\* Only the topmost frame runs, and the main thread when there is none.
Main(from, to) == frames = <<>> /\ main = from /\ main' = to
Top == frames[Len(frames)]
Frame(from, to) ==
  /\ frames # <<>> /\ Top = from
  /\ frames' = [frames EXCEPT ![Len(frames)] = to]

\* RabbitMQBus.start and publish fail or take too long; EventBus is then only
\* used without a broker, within the process, and its handlers' errors are caught.
StartResults == IF broker THEN BOOLEAN ELSE {TRUE}

-----------------------------------------------------------------------------
\* init_event_bus takes _INIT_LOCK, unless the bus exists or has failed.
InitBus ==
  /\ Main("init", IF bus # "none" \/ failedBus THEN "hook" ELSE "start")
  /\ UNCHANGED <<broker, bus, failedBus, cleaners, frames, signals, historyVars>>

StartBus(ok) ==
  /\ ok \in StartResults
  /\ Main("start", IF ok THEN "announce" ELSE "hook") /\ failedBus' = ~ok
  /\ UNCHANGED <<broker, bus, cleaners, frames, signals, historyVars>>

\* The startup event may fail; the bus is used all the same.
Announce ==
  /\ Main("announce", "register")
  /\ UNCHANGED <<broker, bus, failedBus, cleaners, frames, signals, historyVars>>

\* on_shutdown
OnShutdown(c) ==
  /\ cleaners' = Append(cleaners, c) /\ hooked' = hooked \cup {c}
  /\ UNCHANGED <<broker, bus, failedBus, frames, signals, calls, lost, early>>

RegisterBus == Main("register", "assign") /\ OnShutdown("bus")

AssignBus ==
  /\ Main("assign", "hook") /\ bus' = "up"
  /\ UNCHANGED <<broker, failedBus, cleaners, frames, signals, historyVars>>

\* The end of bootstrap.py, after the database, the plug-ins and the snapshots.
RegisterPublisher == Main("hook", "serve") /\ OnShutdown("publisher")

\* A command has run, or the server has been told to stop: then the signal is
\* raised again after it has stopped.
Finish ==
  /\ Main("serve", "exit")
  /\ \/ UNCHANGED <<frames, signals>>
     \/ signals < MaxSignals /\ signals' = signals + 1 /\ frames' = <<"loop">>
  /\ UNCHANGED <<broker, bus, failedBus, cleaners, historyVars>>

AtExit ==
  /\ Main("exit", "atexit") /\ frames' = <<"loop">>
  /\ UNCHANGED <<broker, bus, failedBus, cleaners, signals, historyVars>>

Exit ==
  /\ Main("atexit", "dead")
  /\ UNCHANGED <<broker, bus, failedBus, cleaners, frames, signals, historyVars>>

\* Anywhere in bootstrap or in a command.
SignalMain ==
  /\ main # "dead" /\ signals < MaxSignals
  /\ signals' = signals + 1 /\ frames' = Append(frames, "loop")
  /\ UNCHANGED <<main, broker, bus, failedBus, cleaners, historyVars>>

-----------------------------------------------------------------------------
\* shutdown: while _CLEANERS,
Test ==
  /\ cleaners # <<>> /\ Frame("loop", "pop")
  /\ UNCHANGED <<main, broker, bus, failedBus, cleaners, signals, historyVars>>

Got(c) == IF c = "bus" THEN "got bus" ELSE "got publisher"

PopKeeps ==  \* Fault: shutdown calls the cleaners and leaves them on the list.
  /\ cleaners # <<>> /\ Frame("pop", Got(cleaners[Len(cleaners)]))
  /\ UNCHANGED <<main, broker, bus, failedBus, cleaners, signals, historyVars>>

\* fn = _CLEANERS.pop(),
Pop ==
  /\ cleaners # <<>> /\ Frame("pop", Got(cleaners[Len(cleaners)]))
  /\ cleaners' = SubSeq(cleaners, 1, Len(cleaners) - 1)
  /\ UNCHANGED <<main, broker, bus, failedBus, signals, historyVars>>

\* fn().
Call(c) ==
  /\ Frame(Got(c), c) /\ calls' = [calls EXCEPT ![c] = @ + 1]
  /\ UNCHANGED <<main, broker, bus, failedBus, cleaners, signals, hooked, lost, early>>

\* What becomes of the main thread when a handler raises in it: init_event_bus
\* gives up; elsewhere bootstrap or the command may end, if nothing catches it;
\* atexit prints it.
MainRaises ==
  /\ failedBus' = (failedBus \/ main = "assign")
  /\ main' \in CASE main = "assign" -> {"hook"}
                [] main \in {"hook", "serve"} -> {main, "exit"}
                [] OTHER -> {main}

\* pop raises IndexError when a handler has emptied the list since the test. That
\* ends the shutdown and, k being the next frame that is in its try, those above k.
Catching == {"publisher", "bus", "close"}
PopRaises(k) ==
  /\ cleaners = <<>> /\ frames # <<>> /\ Top = "pop"
  /\ k # 0 => frames[k] \in Catching
  /\ \A i \in k + 1 .. Len(frames) : frames[i] \notin Catching
  /\ lost' = lost \cup {c \in DOMAIN calls : \E i \in k + 1 .. Len(frames) : frames[i] = Got(c)}
  /\ IF k = 0 THEN frames' = <<>> /\ MainRaises
     ELSE frames' = Append(SubSeq(frames, 1, k - 1), "loop") /\ UNCHANGED <<main, failedBus>>
  /\ UNCHANGED <<broker, bus, cleaners, signals, hooked, calls, early>>

\* _publish_shutdown: get_bus answers at once by now; publish is called with a
\* topic and a payload instead of an event, and the TypeError is caught.
Publish ==
  /\ Frame("publisher", "loop")
  /\ UNCHANGED <<main, broker, bus, failedBus, cleaners, signals, historyVars>>

\* _shutdown_async publishes the event and closes the bus. Each may fail or take
\* too long, so that the connection stays open.
Shutdown ==
  /\ Frame("bus", "close") /\ early' = (early \/ bus = "none")
  /\ UNCHANGED <<main, broker, bus, failedBus, cleaners, signals, hooked, calls, lost>>

Close(ok) ==
  /\ ok \in StartResults /\ Frame("close", "loop")
  /\ bus' = IF bus = "up" /\ ok THEN "closed" ELSE bus
  /\ UNCHANGED <<main, broker, failedBus, cleaners, signals, historyVars>>

ReturnShutdown ==
  /\ cleaners = <<>> /\ frames # <<>> /\ Top = "loop"
  /\ frames' = SubSeq(frames, 1, Len(frames) - 1)
  /\ UNCHANGED <<main, broker, bus, failedBus, cleaners, signals, historyVars>>

FrameStep ==
  \/ Test \/ Pop \/ Publish \/ Shutdown \/ ReturnShutdown
  \/ (\E c \in DOMAIN calls : Call(c)) \/ (\E k \in 0 .. Len(frames) : PopRaises(k))
  \/ \E ok \in BOOLEAN : Close(ok)
BootStep == InitBus \/ Announce \/ RegisterBus \/ AssignBus \/ RegisterPublisher \/ \E ok \in BOOLEAN : StartBus(ok)
LifeNext == FrameStep \/ BootStep \/ Finish \/ AtExit \/ Exit \/ SignalMain

-----------------------------------------------------------------------------
\* However many signals arrive, also in the middle of a shutdown, no cleaner is
\* called twice, and a process that has exited has called each one that was
\* registered, except for _publish_shutdown if an IndexError met the shutdown that
\* had just taken it; the bus was up by the time its cleaner ran, unless a signal
\* came in the moment between the registration and the assignment.
CleanersRunOnce ==
  /\ \A c \in DOMAIN calls : calls[c] <= 1
  /\ main = "dead" =>
       /\ \A c \in hooked : calls[c] = 1 \/ (c = "publisher" /\ c \in lost)
       /\ bus = "up" => broker \/ early
=============================================================================
