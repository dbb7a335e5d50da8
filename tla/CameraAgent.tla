----------------------------- MODULE CameraAgent -----------------------------
(***************************************************************************)
(* docker/camera-agent: load the configuration, or find a gateway, register   *)
(* and store the credentials; then open the camera and stream. The loop is     *)
(* written `async for` over a plain generator, which raises TypeError before    *)
(* the first connection. The container starts the agent again when it exits.   *)
(***************************************************************************)
EXTENDS Naturals

CONSTANTS
  MaxDeaths,  \* bound: times the agent is killed
  MaxLosses   \* bound: answers of the gateway and writes of the file that fail
ASSUME AgentAssumption == {MaxDeaths, MaxLosses} \subseteq Nat

VARIABLES
  agent,       \* where the agent is, "load" to "loop", or "exit"
  agentFile,   \* agent.yaml: "none", "empty", "part" or "whole"
  agentDeaths,
  losses,      \* answers and writes that have failed so far
  registered,  \* history: registrations that the gateway has made
  spoilt       \* history: those whose credentials were lost on their way to the file

agentVars == <<agent, agentFile, agentDeaths, losses, registered, spoilt>>

AgentInit ==
  /\ agent = "load" /\ agentFile = "none"
  /\ agentDeaths = 0 /\ losses = 0 /\ registered = 0 /\ spoilt = 0

AgentTo(from, to) == agent = from /\ agent' = to
Rest == UNCHANGED <<agentDeaths, losses, registered, spoilt>>

\* The registration at hand comes to nothing.
Spoil == spoilt' = spoilt + 1 /\ UNCHANGED registered
Lose == losses < MaxLosses /\ losses' = losses + 1 /\ Spoil /\ UNCHANGED agentDeaths

LoadAlways ==  \* Fault: the stored configuration is not used.
  AgentTo("load", "discover") /\ UNCHANGED agentFile /\ Rest

\* ensure_config: an empty file is no configuration; a part of one is, and lacks
\* the gateway or the device, or has a part of its name.
LoadCfg ==
  /\ \/ agentFile = "whole" /\ AgentTo("load", "camera")
     \/ agentFile = "part" /\ (AgentTo("load", "exit") \/ AgentTo("load", "camera"))
     \/ agentFile \in {"none", "empty"} /\ AgentTo("load", "discover")
  /\ UNCHANGED agentFile /\ Rest

\* mDNS, the environment and /.well-known; each may fail.
Discover ==
  /\ AgentTo("discover", "register") \/ AgentTo("discover", "exit")
  /\ UNCHANGED agentFile /\ Rest

\* The request is refused or does not get there,
RegisterFails == AgentTo("register", "exit") /\ UNCHANGED agentFile /\ Rest

\* or the gateway registers the device; its answer holds the credentials,
Register ==
  /\ AgentTo("register", "answer") /\ registered' = registered + 1
  /\ UNCHANGED <<agentFile, agentDeaths, losses, spoilt>>
Credentials == AgentTo("answer", "open") /\ UNCHANGED agentFile /\ Rest

\* and may come too late, or not at all.
AnswerLost == AgentTo("answer", "exit") /\ Lose /\ UNCHANGED agentFile

\* persist_cfg empties the file and writes it; either may fail.
OpenCfg == AgentTo("open", "write") /\ agentFile' = "empty" /\ Rest
WriteCfg == AgentTo("write", "camera") /\ agentFile' = "whole" /\ Rest
PersistFails ==
  /\ \/ AgentTo("open", "exit") /\ UNCHANGED agentFile
     \/ AgentTo("write", "exit") /\ agentFile' \in {"empty", "part"}
  /\ Lose

OpenCamera ==
  /\ AgentTo("camera", "loop") \/ AgentTo("camera", "exit")
  /\ UNCHANGED agentFile /\ Rest

\* cam_loop: TypeError; the finally clause releases the camera.
CamLoop == AgentTo("loop", "exit") /\ UNCHANGED agentFile /\ Rest

Restart == AgentTo("exit", "load") /\ UNCHANGED agentFile /\ Rest

KillAgent ==
  /\ agentDeaths < MaxDeaths /\ agentDeaths' = agentDeaths + 1 /\ agent' = "exit"
  /\ agentFile' \in IF agent = "write" THEN {"empty", "part"} ELSE {agentFile}
  /\ IF agent \in {"answer", "open", "write"} THEN Spoil ELSE UNCHANGED <<registered, spoilt>>
  /\ UNCHANGED losses

AgentStep ==
  \/ LoadCfg \/ Discover \/ Register \/ RegisterFails \/ Credentials \/ AnswerLost
  \/ OpenCfg \/ WriteCfg \/ PersistFails \/ OpenCamera \/ CamLoop \/ Restart
AgentNext == AgentStep \/ KillAgent

-----------------------------------------------------------------------------
\* The gateway gets no registration more than one for each whose credentials were
\* lost before they were stored, by a kill, a lost answer or a failed write, and
\* one that holds: neither exits nor kills and restarts in between make a device
\* register that has been told who it is. And a part of a file, with which no
\* later start gets any further, is left only where such credentials were lost.
LossesExplainRegistrations ==
  /\ registered <= spoilt + 1
  /\ agentFile = "part" => 0 < spoilt
=============================================================================
