------------------------------- MODULE Preview -------------------------------
(***************************************************************************)
(* WebRTC previews of video/ws.py: each offer makes a CameraTrack with a      *)
(* capture of its own, and all tracks take their frame buffers from one pool. *)
(* recv waits for a buffer, then reads, copies and puts it back without       *)
(* another await. A frame of another shape than the buffer's makes the copy   *)
(* raise, and the buffer is lost.                                           *)
(***************************************************************************)
EXTENDS Naturals, FiniteSets

CONSTANTS Viewers, PoolSize
ASSUME PreviewAssumption == PoolSize \in Nat \ {0}

VARIABLES
  viewer,   \* per viewer: "new", "setup", "stuck", "live", "wait", "ended", "gone"
  capOpen,  \* viewers whose track holds a capture
  free,     \* buffers in the pool
  misfits   \* buffers lost to a frame of another shape

previewVars == <<viewer, capOpen, free, misfits>>

PreviewInit ==
  /\ viewer = [v \in Viewers |-> "new"] /\ capOpen = {} /\ free = PoolSize /\ misfits = 0

Becomes(v, from, to) == viewer[v] = from /\ viewer' = [viewer EXCEPT ![v] = to]

\* offer: the track validates the device and opens it, or the answer is 400.
Offer(v) ==
  /\ \/ Becomes(v, "new", "setup") /\ capOpen' = capOpen \cup {v}
     \/ Becomes(v, "new", "gone") /\ UNCHANGED capOpen
  /\ UNCHANGED <<free, misfits>>

Negotiated(v) == Becomes(v, "setup", "live") /\ UNCHANGED <<capOpen, free, misfits>>

\* A description that is refused: nobody stops the track that exists by then.
SetupFails(v) == Becomes(v, "setup", "stuck") /\ UNCHANGED <<capOpen, free, misfits>>

\* recv: sleep, then ask the pool.
AskBuffer(v) == Becomes(v, "live", "wait") /\ UNCHANGED <<capOpen, free, misfits>>

GotFrame(v) == free > 0 /\ Becomes(v, "wait", "live") /\ UNCHANGED <<capOpen, free, misfits>>

NoFrameKeeps(v) ==  \* Fault: the buffer is not put back before the exception.
  free > 0 /\ Becomes(v, "wait", "ended") /\ free' = free - 1 /\ UNCHANGED <<capOpen, misfits>>

\* The read fails: the buffer goes back and the track ends.
NoFrame(v) == free > 0 /\ Becomes(v, "wait", "ended") /\ UNCHANGED <<capOpen, free, misfits>>

Misfit(v) ==
  /\ free > 0 /\ Becomes(v, "wait", "ended")
  /\ free' = free - 1 /\ misfits' = misfits + 1 /\ UNCHANGED capOpen

\* connectionstatechange to failed, closed or disconnected, also in the middle
\* of waiting.
ConnectionEnds(v) ==
  /\ viewer[v] \in {"live", "wait", "ended"}
  /\ viewer' = [viewer EXCEPT ![v] = "gone"] /\ capOpen' = capOpen \ {v}
  /\ UNCHANGED <<free, misfits>>

\* The next viewer takes the place of one that has gone.
Again(v) == Becomes(v, "gone", "new") /\ UNCHANGED <<capOpen, free, misfits>>

Recv(v) == GotFrame(v) \/ NoFrame(v) \/ Misfit(v)

PreviewNext ==
  \E v \in Viewers :
    Offer(v) \/ Negotiated(v) \/ SetupFails(v) \/ AskBuffer(v) \/ Recv(v) \/ ConnectionEnds(v) \/ Again(v)

-----------------------------------------------------------------------------
\* A track that waits for a buffer gets one, as long as the buffers have not all
\* been lost to frames of another shape: reads that fail, connections that break
\* off and viewers that come and go cost none.
WaiterIsServed ==
  \A v \in Viewers : viewer[v] = "wait" ~> (viewer[v] # "wait" \/ misfits = PoolSize)
=============================================================================
