-------------------------------- MODULE Wifi --------------------------------
(***************************************************************************)
(* The WiFi daemon of the camera rig (docker/touch-display/pi). One thread    *)
(* asks the ESP32 and the system every ten seconds, enters what it learns in   *)
(* current_status and writes the status file; the API thread reads the status  *)
(* field by field. Signals only clear a flag.                                *)
(***************************************************************************)
EXTENDS Naturals

CONSTANTS Links, Unknown  \* what the system can report, and what it says first
ASSUME WifiAssumption == Unknown \notin Links

VARIABLES
  link,     \* the connection the system has
  current,  \* current_status: link, error, whether the ESP32 is known
  reply,    \* the answer the API thread is composing
  statusFile, \* "none", "torn" or "whole"
  running, wifi, \* the flag; where the poll loop is
  wpc       \* whether the answer has both of its fields

wifiVars == <<link, current, reply, statusFile, running, wifi, wpc>>

WifiInit ==
  /\ link = CHOOSE l \in Links : TRUE  \* it may change at once
  /\ current = [link |-> Unknown, error |-> FALSE, esp |-> FALSE]
  /\ reply = current /\ statusFile = "none" /\ running = TRUE /\ wifi = "ask" /\ wpc = "idle"

Reconnect(l) ==
  /\ link # l /\ link' = l /\ UNCHANGED <<current, reply, statusFile, running, wifi, wpc>>

\* send_command_to_esp32: an answer over 32 bytes cannot be parsed, and any
\* error gives None: the fields stay as they are.
AskEsp32(answer) ==
  /\ wifi = "ask" /\ wifi' = "poll"
  /\ current' = [current EXCEPT !.esp = @ \/ answer]
  /\ UNCHANGED <<link, reply, statusFile, running, wpc>>

\* An answer that parses and is no object raises in the loop: the error is noted,
\* the system is not asked and the file not written before the next round.
LoopFails ==
  /\ wifi = "ask" /\ wifi' = "sleep"
  /\ current' = [current EXCEPT !.error = TRUE]
  /\ UNCHANGED <<link, reply, statusFile, running, wpc>>

\* get_current_wifi_status; an error has a text, which no later success clears.
PollOnlyNew ==  \* Fault: the status is entered while it is unknown only.
  /\ wifi = "poll" /\ wifi' = "save"
  /\ current' = IF current.link \in Links THEN current ELSE [current EXCEPT !.link = link]
  /\ UNCHANGED <<link, reply, statusFile, running, wpc>>

Poll ==
  /\ wifi = "poll" /\ wifi' = "save"
  /\ current' = [current EXCEPT !.link = link]
  /\ UNCHANGED <<link, reply, statusFile, running, wpc>>

PollFails ==
  /\ wifi = "poll" /\ wifi' = "save"
  /\ current' = [current EXCEPT !.link = Unknown, !.error = TRUE]
  /\ UNCHANGED <<link, reply, statusFile, running, wpc>>

\* save_status opens the file, which empties it, and then writes.
OpenStatus ==
  /\ wifi = "save" /\ wifi' = "write" /\ statusFile' = "torn"
  /\ UNCHANGED <<link, current, reply, running, wpc>>

WriteStatus ==
  /\ wifi = "write" /\ wifi' = "sleep" /\ statusFile' = "whole"
  /\ UNCHANGED <<link, current, reply, running, wpc>>

\* The file cannot be opened or written; the error is logged.
SaveFails ==
  /\ wifi \in {"save", "write"} /\ wifi' = "sleep"
  /\ UNCHANGED <<link, current, reply, statusFile, running, wpc>>

Sleep ==
  /\ wifi = "sleep" /\ wifi' = IF running THEN "ask" ELSE "cleanup"
  /\ UNCHANGED <<link, current, reply, statusFile, running, wpc>>

\* cleanup closes the bus and removes the file; the process ends.
WifiCleanup ==
  /\ wifi = "cleanup" /\ wifi' = "exit" /\ statusFile' = "none" /\ wpc' = "idle"
  /\ UNCHANGED <<link, current, reply, running>>

SignalWifi ==
  /\ running /\ wifi # "exit" /\ running' = FALSE
  /\ UNCHANGED <<link, current, reply, statusFile, wifi, wpc>>

\* GET /api/status: one field, then the other.
ReadFirst ==
  /\ wifi # "exit" /\ wpc = "idle" /\ wpc' = "half" /\ reply' = [reply EXCEPT !.link = current.link]
  /\ UNCHANGED <<link, current, statusFile, running, wifi>>

ReadSecond ==
  /\ wpc = "half" /\ wpc' = "idle"
  /\ reply' = [reply EXCEPT !.error = current.error, !.esp = current.esp]
  /\ UNCHANGED <<link, current, statusFile, running, wifi>>

LoopStep == Poll \/ OpenStatus \/ WriteStatus \/ Sleep \/ WifiCleanup \/ \E answer \in BOOLEAN : AskEsp32(answer)
WifiNext ==
  \/ LoopStep \/ LoopFails \/ PollFails \/ SaveFails \/ SignalWifi \/ ReadFirst \/ ReadSecond \/ \E l \in Links : Reconnect(l)

-----------------------------------------------------------------------------
\* The API comes to answer with the connection the system has, once that stays
\* and asking it does not fail any more, whatever the ESP32 answers now and then and
\* whether or not the file can be written, unless the daemon is told to stop.
StatusConverges ==
  \A l \in Links : <>[](link = l /\ current.link # Unknown) => <>(~running) \/ <>[](reply.link = l)

=============================================================================
