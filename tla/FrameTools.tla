----------------------------- MODULE FrameTools -----------------------------
(***************************************************************************)
(* The two tools that choose frames of a film: trim_idle removes what stands *)
(* still, motion_extractor saves what moves. A film is a sequence of pictures;*)
(* frames have their index from 0, as in the code, and a time t is the frame  *)
(* t * fps. A range is the frames from its first up to, not including, its    *)
(* second number.                                                           *)
(***************************************************************************)
EXTENDS Integers, Sequences, FiniteSets, SequencesExt

CONSTANTS
  Pictures,
  MaxFrames,   \* bound: frames of a film
  IdleCounts,  \* int(freeze_dur * fps), for the durations that callers ask for
  Fps, Rates   \* of the film; the values of fps_sampling that callers ask for

ASSUME FrameToolsAssumption ==
  MaxFrames \in Nat /\ IdleCounts \subseteq Nat /\ Fps \in Nat /\ Rates \subseteq Nat \ {0}

VARIABLES
  film, tool,  \* the input; "opencv", "ffmpeg" or "motion"
  tpc,         \* "scan", "cut", "done", "gone" or "raised"
  fidx,        \* frame_idx
  idleCnt, startIdle, \* opencv: still frames in a row, where they began or -1
  ranges,      \* what is to be cut
  span,        \* motion: frame_interval; otherwise idle_frames, or freeze_dur in frames
  prevGray, saved,    \* the last frame looked at or -1, those written
  kept         \* the frames of the result

frameVars == <<film, tool, tpc, fidx, idleCnt, startIdle, ranges, span, prevGray, saved, kept>>

LastFrame == Len(film) - 1
Same(i, j) == film[i + 1] = film[j + 1]

IntervalFor(rate) == IF Fps \div rate > 1 THEN Fps \div rate ELSE 1

\* quick_extract and extract_motion_frames make the extractor without the rate
\* that they were asked for, and it takes one frame a second.
QuickInterval == IntervalFor(1)

FrameInit ==
  /\ film \in UNION {[1 .. n -> Pictures] : n \in 0 .. MaxFrames}
  /\ tool \in {"opencv", "ffmpeg", "motion"} /\ tpc = "scan"
  /\ \/ tool # "motion" /\ span \in IdleCounts
     \/ tool = "motion" /\ span \in {QuickInterval} \cup {IntervalFor(rate) : rate \in Rates}
  /\ fidx = 0 /\ idleCnt = 0 /\ startIdle = -1 /\ ranges = <<>>
  /\ prevGray = -1 /\ saved = <<>> /\ kept = {}

-----------------------------------------------------------------------------
\* Trimming. What freezedetect finds: the longest stretches that stand still, if
\* they are long enough; however short that is, two frames are compared.
Still(s, e) == \A k \in s .. e - 1 : Same(k, k + 1)
Stretches ==
  {r \in (0 .. LastFrame) \X (0 .. LastFrame) :
     /\ r[1] < r[2] /\ r[2] - r[1] >= span /\ Still(r[1], r[2])
     /\ (r[1] > 0 => ~Same(r[1] - 1, r[1])) /\ (r[2] < LastFrame => ~Same(r[2], r[2] + 1))}

\* The stretches as a list, sorted.
Lists(rs) == ToSet(rs) = Stretches /\ \A i, j \in DOMAIN rs : i < j => rs[i][1] < rs[j][1]

\* _invert_ranges: what is before the i-th range, or behind the last, and which of
\* these are kept.
Gap(rs, i, total) == <<IF i = 1 THEN 0 ELSE rs[i - 1][2], IF i > Len(rs) THEN total ELSE rs[i][1]>>
Inverted(rs, total) == {i \in 1 .. Len(rs) + 1 : Gap(rs, i, total)[1] < Gap(rs, i, total)[2]}

Frames(r) == r[1] .. r[2] - 1
InRange(k, rs) == \E i \in DOMAIN rs : k \in Frames(rs[i])

\* The frames that a chain of trim filters, one for each kept range, leaves: every
\* filter counts from the first frame that the one before has left.
Trimmed(w, r) == <<w[1] + r[1], IF w[1] + r[2] < w[2] THEN w[1] + r[2] ELSE w[2]>>
Chained(rs, total) ==
  LET left[i \in 0 .. Len(rs) + 1] ==
        IF i = 0 THEN <<0, total>>
        ELSE IF i \in Inverted(rs, total) THEN Trimmed(left[i - 1], Gap(rs, i, total)) ELSE left[i - 1]
  IN left[Len(rs) + 1]

ScanFrameKeeps ==  \* Fault: motion does not end the count.
  /\ tool = "opencv" /\ tpc = "scan" /\ fidx < LastFrame
  /\ LET still == Same(fidx, fidx + 1) IN
       /\ idleCnt' = IF still THEN idleCnt + 1 ELSE idleCnt
       /\ startIdle' = IF still /\ idleCnt' = span THEN fidx - span + 1
                       ELSE IF still THEN startIdle ELSE -1
       /\ ranges' = IF ~still /\ startIdle # -1 THEN Append(ranges, <<startIdle, fidx>>) ELSE ranges
  /\ fidx' = fidx + 1
  /\ UNCHANGED <<film, tool, span, tpc, prevGray, saved, kept>>

\* _run_opencv compares each frame with the one before. A count of still frames is
\* never 0, and a span of 0 frames is never reached.
ScanFrame ==
  /\ tool = "opencv" /\ tpc = "scan" /\ fidx < LastFrame
  /\ LET still == Same(fidx, fidx + 1) IN
       /\ idleCnt' = IF still THEN idleCnt + 1 ELSE 0
       /\ startIdle' = IF still /\ idleCnt' = span THEN fidx - span + 1
                       ELSE IF still THEN startIdle ELSE -1
       /\ ranges' = IF ~still /\ startIdle # -1 THEN Append(ranges, <<startIdle, fidx>>) ELSE ranges
  /\ fidx' = fidx + 1
  /\ UNCHANGED <<film, tool, span, tpc, prevGray, saved, kept>>

ScanTail ==
  /\ tool = "opencv" /\ tpc = "scan" /\ fidx >= LastFrame /\ tpc' = "cut"
  /\ ranges' = IF startIdle = -1 THEN ranges ELSE Append(ranges, <<startIdle, fidx>>)
  /\ UNCHANGED <<film, tool, span, fidx, idleCnt, startIdle, prevGray, saved, kept>>

\* _concat_keep_ranges_opencv: the length of the film is taken from the pair that
\* one read returns, so it is always 2. Without a range ffmpeg fails.
Concat ==
  /\ tool = "opencv" /\ tpc = "cut"
  /\ LET keep == Inverted(ranges, 2) IN
       IF keep = {} THEN tpc' = "raised" /\ UNCHANGED kept
       ELSE tpc' = "done" /\ kept' = (0 .. LastFrame) \cap UNION {Frames(Gap(ranges, i, 2)) : i \in keep}
  /\ UNCHANGED <<film, tool, span, fidx, idleCnt, startIdle, ranges, prevGray, saved>>

\* _parse_freeze_log: the log may lack the times it looks for; a stretch that
\* lasts to the end has no freeze_end.
ParseLog ==
  /\ tool = "ffmpeg" /\ tpc = "scan"
  /\ \/ tpc' = "cut" /\ ranges' = <<>>
     \/ /\ tpc' = "cut" /\ \A r \in Stretches : r[2] < LastFrame
        /\ \E rs \in [1 .. Cardinality(Stretches) -> Stretches] : Lists(rs) /\ ranges' = rs
     \/ tpc' = "raised" /\ (\E r \in Stretches : r[2] = LastFrame) /\ UNCHANGED ranges
  /\ UNCHANGED <<film, tool, span, fidx, idleCnt, startIdle, prevGray, saved, kept>>

\* One trim filter for each range, every one on what the one before has left.
RunFfmpeg ==
  /\ tool = "ffmpeg" /\ tpc = "cut"
  /\ IF Inverted(ranges, Len(film)) = {} THEN tpc' = "raised" /\ UNCHANGED kept
     ELSE tpc' = "done" /\ kept' = Frames(Chained(ranges, Len(film)))
  /\ UNCHANGED <<film, tool, span, fidx, idleCnt, startIdle, ranges, prevGray, saved>>

\* The route answers with a file in a directory that is removed as the function
\* returns, before the file is sent.
SendTrimmed ==
  /\ tool # "motion" /\ tpc \in {"done", "raised"} /\ tpc' = "gone" /\ kept' = {}
  /\ UNCHANGED <<film, tool, span, fidx, idleCnt, startIdle, ranges, prevGray, saved>>

-----------------------------------------------------------------------------
\* Extraction looks at every interval-th frame and passes over the others.
SkipFrame ==
  /\ tool = "motion" /\ tpc = "scan" /\ fidx <= LastFrame /\ fidx % span # 0
  /\ fidx' = fidx + 1
  /\ UNCHANGED <<film, tool, span, tpc, idleCnt, startIdle, ranges, prevGray, saved, kept>>

\* _detect_motion and _save_frame; a picture that cannot be written ends it, and
\* what was saved stays.
LookAt ==
  /\ tool = "motion" /\ tpc = "scan" /\ fidx <= LastFrame /\ fidx % span = 0
  /\ prevGray' = fidx
  /\ IF prevGray = -1 \/ ~Same(prevGray, fidx)
     THEN \/ saved' = Append(saved, fidx) /\ fidx' = fidx + 1 /\ UNCHANGED tpc
          \/ tpc' = "raised" /\ UNCHANGED <<saved, fidx>>
     ELSE fidx' = fidx + 1 /\ UNCHANGED <<saved, tpc>>
  /\ UNCHANGED <<film, tool, span, idleCnt, startIdle, ranges, kept>>

Extracted ==
  /\ tool = "motion" /\ tpc = "scan" /\ fidx > LastFrame /\ tpc' = "done"
  /\ UNCHANGED <<film, tool, span, fidx, idleCnt, startIdle, ranges, prevGray, saved, kept>>

FrameNext ==
  \/ ScanFrame \/ ScanTail \/ Concat \/ ParseLog \/ RunFfmpeg \/ SendTrimmed
  \/ SkipFrame \/ LookAt \/ Extracted

-----------------------------------------------------------------------------
OnePiece(ks) == \A k, l \in ks : k - 1 \notin ks /\ l - 1 \notin ks => k = l

TrimmingIsRight ==
  tpc = "done" /\ tool # "motion" =>
    LET wanted == {k \in 0 .. LastFrame : ~InRange(k, ranges)}
    IN /\ kept \subseteq wanted
       /\ tool = "opencv" =>
            /\ IF span = 0 THEN ranges = <<>> ELSE Lists(ranges)
            /\ \A k \in wanted \ kept, i \in DOMAIN ranges : ranges[i][2] <= k
       /\ tool = "ffmpeg" /\ OnePiece(wanted) => kept = wanted

MotionIsSaved ==
  tool = "motion" =>
    /\ ToSet(saved) = {k \in 0 .. fidx - 1 : k % span = 0 /\ (k = 0 \/ ~Same(k - span, k))}
    /\ \A i, j \in DOMAIN saved : i < j => saved[i] < saved[j]

\* Trimming by OpenCV finds exactly the long still stretches, none if the duration
\* comes to no frame at all, and keeps all other frames up to the last of them.
\* Trimming by ffmpeg keeps no frame of a stretch that it found, and all others if
\* they are in one piece. Extraction saves the first frame, and of those sampled each
\* that differs from the one sampled before it, in their order, also when saving
\* breaks off.
FramesAreRight == TrimmingIsRight /\ MotionIsSaved
=============================================================================
