----------------------------- MODULE DeviceCache -----------------------------
(***************************************************************************)
(* DeviceManager of modules/hwcapture: a list of devices and the time it is   *)
(* from, two class attributes that threads read and set without a lock. Every *)
(* validation, and so every stream and recording, asks it. Probing a device    *)
(* takes time.                                                              *)
(***************************************************************************)
EXTENDS Naturals

CONSTANTS
  Threads, Ttl,
  ScanTime,  \* bound: how long a call takes
  MaxTime,   \* bound: the last moment
  NotYet

ASSUME DeviceCacheAssumption == {Ttl, ScanTime, MaxTime} \subseteq Nat /\ NotYet \notin Nat

VARIABLES
  now,
  cache,   \* _device_cache: when each device of the list was probed, or NotYet
  stamp,   \* _cache_timestamp
  call     \* per thread: where get_devices is, when it began, what it has probed

cacheVars == <<now, cache, stamp, call>>

Ready == [pc |-> "idle", began |-> 0, probed |-> NotYet]

CacheInit ==
  /\ now = 0 /\ cache = NotYet /\ stamp = 0
  /\ call = [t \in Threads |-> Ready]

To(t, pc) == call' = [call EXCEPT ![t].pc = pc]

\* get_devices(force_refresh): a list that is missing or too old is renewed.
GetDevices(t, force) ==
  /\ call[t].pc = "idle"
  /\ call' = [call EXCEPT ![t] =
       [pc |-> IF force \/ cache = NotYet \/ now > stamp + Ttl THEN "scan" ELSE "return",
        began |-> now, probed |-> NotYet]]
  /\ UNCHANGED <<now, cache, stamp>>

\* _scan_devices and _probe_v4l2_device
ScanDevices(t) ==
  /\ call[t].pc = "scan"
  /\ call' = [call EXCEPT ![t].probed = now, ![t].pc = "set"]
  /\ UNCHANGED <<now, cache, stamp>>

SetCache(t) ==
  /\ call[t].pc = "set" /\ To(t, "stamp")
  /\ cache' = call[t].probed
  /\ UNCHANGED <<now, stamp>>

SetStampLate(t) ==  \* Fault: the time is taken when the list is set.
  /\ call[t].pc = "stamp" /\ To(t, "return")
  /\ stamp' = now + ScanTime /\ UNCHANGED <<now, cache>>

\* The time is the one before the scan.
SetStamp(t) ==
  /\ call[t].pc = "stamp" /\ To(t, "return")
  /\ stamp' = call[t].began /\ UNCHANGED <<now, cache>>

\* validate_device, get_device_info, list_video_devices: what the attribute
\* holds by then.
Return(t) ==
  /\ call[t].pc = "return" /\ call' = [call EXCEPT ![t] = Ready]
  /\ UNCHANGED <<now, cache, stamp>>

Tick ==
  /\ now < MaxTime /\ \A t \in Threads : call[t].pc = "idle" \/ now < call[t].began + ScanTime
  /\ now' = now + 1 /\ UNCHANGED <<cache, stamp, call>>

CacheNext ==
  \/ Tick
  \/ \E t \in Threads :
       \/ \E force \in BOOLEAN : GetDevices(t, force)
       \/ ScanDevices(t) \/ SetCache(t) \/ SetStamp(t) \/ Return(t)

-----------------------------------------------------------------------------
\* No answer is from devices as they were longer ago than the time to live and
\* one scan, although a slow thread can set an old list after a quick one has
\* set the newer, under the newer time.
AnswersAreRecent ==
  \A t \in Threads : call[t].pc = "return" =>
    cache # NotYet /\ cache + Ttl + ScanTime >= call[t].began
=============================================================================
