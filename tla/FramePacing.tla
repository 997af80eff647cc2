---------------------------- MODULE FramePacing ----------------------------
(***************************************************************************)
(* Latest-frame-wins pacing of the RealESRGAN path, as pure operators on   *)
(* the scheduler's state: src/shared/realesrgan-pacing.ts and the          *)
(* admission rule of src/core/realesrgan-frame-job.ts.                     *)
(*                                                                         *)
(* A scheduler is a record: inFlight, the frames whose inference runs;     *)
(* newestSeen, the newest frame started or skipped; skipped, the count     *)
(* shown in the stats overlay.                                             *)
(***************************************************************************)
EXTENDS Integers, FiniteSets

NewScheduler == [inFlight |-> {}, newestSeen |-> -1, skipped |-> 0]

\* A slot below `depth` is free and the frame is newer than all seen so far.
ShouldProcess(s, frame, depth) ==
  /\ Cardinality(s.inFlight) < depth
  /\ frame > s.newestSeen

MarkStarted(s, frame) ==
  [s EXCEPT !.inFlight = @ \cup {frame},
            !.newestSeen = IF frame > @ THEN frame ELSE @]

\* mutant: the gap is counted but the newest seen frame does not advance
NoteSkippedTwice(s, frame) ==
  IF frame <= s.newestSeen \/ s.inFlight = {}
    THEN s
    ELSE [s EXCEPT !.skipped = @ + (frame - s.newestSeen)]

\* A frame that will not be processed. The gap since the newest seen frame
\* counts only while work is in flight.
NoteSkipped(s, frame) ==
  IF frame <= s.newestSeen
    THEN s
    ELSE [s EXCEPT !.skipped = IF s.inFlight # {} THEN @ + (frame - s.newestSeen) ELSE @,
                   !.newestSeen = frame]


MarkCompleted(s, frame) == [s EXCEPT !.inFlight = @ \ {frame}]

\* `frame` trails the newest frame in flight by more than `threshold`.
ShouldStaleSkip(s, frame, threshold) == \E g \in s.inFlight : g - frame > threshold
=============================================================================
