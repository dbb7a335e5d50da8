------------------------------ MODULE MCDevices ------------------------------
(* The programs around the cameras, each on a small instance: one of them is   *)
(* chosen in the initial state and runs alone.                                *)
EXTENDS DeviceCache, Captures, Preview, Wifi, CameraAgent, TLC

CONSTANTS j1, m1, m2, n1, n2, w1, w2

MCGroup == <<m1, m2>>
MCWitness == <<w1, w2>>
MCNameOf == j1 :> n1 @@ m1 :> n1 @@ m2 :> n2

VARIABLE part

Init ==
  /\ part \in {"cache", "captures", "preview", "wifi", "agent"}
  /\ CacheInit /\ CaptureInit /\ PreviewInit /\ WifiInit /\ AgentInit

vars == <<part, cacheVars, captureVars, previewVars, wifiVars, agentVars>>

CachePart == part = "cache" /\ CacheNext /\ UNCHANGED <<part, captureVars, previewVars, wifiVars, agentVars>>
CapturePart == part = "captures" /\ CaptureNext /\ UNCHANGED <<part, cacheVars, previewVars, wifiVars, agentVars>>
PreviewPart == part = "preview" /\ PreviewNext /\ UNCHANGED <<part, cacheVars, captureVars, wifiVars, agentVars>>
WifiPart == part = "wifi" /\ WifiNext /\ UNCHANGED <<part, cacheVars, captureVars, previewVars, agentVars>>
AgentPart == part = "agent" /\ AgentNext /\ UNCHANGED <<part, cacheVars, captureVars, previewVars, wifiVars>>

Next == CachePart \/ CapturePart \/ PreviewPart \/ WifiPart \/ AgentPart

\* A buffer that is there is given to somebody who waits for it: asyncio.Queue
\* serves them in turn. The WiFi daemon runs on, the ESP32's answers and the
\* system's are of use again and again, and the API's threads finish their answers.
Fairness ==
  /\ \A v \in Viewers : WF_previewVars(part = "preview" /\ Recv(v))
  /\ WF_wifiVars(part = "wifi" /\ LoopStep) /\ SF_wifiVars(part = "wifi" /\ Poll)
  /\ SF_wifiVars(part = "wifi" /\ \E answer \in BOOLEAN : AskEsp32(answer))
  /\ WF_wifiVars(part = "wifi" /\ ReadFirst) /\ WF_wifiVars(part = "wifi" /\ ReadSecond)

Spec == Init /\ [][Next]_vars /\ Fairness
=============================================================================
