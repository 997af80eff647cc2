--------------------------- MODULE FramePipeline ---------------------------
(***************************************************************************)
(* One RealESRGAN pipeline instance: the renderer calls pass() and         *)
(* afterSubmit() for every video frame; the GPU reports completed copies;  *)
(* up to `depth` asynchronous drains map a staging buffer, decide whether  *)
(* the frame is worth inferring, infer it, and present the result.         *)
(*                                                                         *)
(* Sources: src/src/core/realesrgan-pipeline.ts, realesrgan-staging-       *)
(* slots.ts, realesrgan-frame-job.ts, realesrgan-drain-processor.ts,       *)
(* realesrgan-runner-guard.ts, realesrgan-output-writer.ts and the shared  *)
(* modules they call.                                                      *)
(*                                                                         *)
(* An action is one run-to-completion section of the JavaScript thread;    *)
(* actions interleave where the code awaits. Pixels are abstracted to the  *)
(* frame they were copied from (`buf`) and to a content value, which is    *)
(* what the still-frame hash tells apart.                                  *)
(***************************************************************************)
EXTENDS FramePacing, Sequences

CONSTANTS
  NumSlots,        \* staging buffers (stagingBufferCount, 8)
  NativeDepth,     \* maxInFlight of the native runner (8)
  MaxTimeouts,     \* consecutive transient failures before a runner is dead (3)
  StaleBehind,     \* STALE_SKIP_BEHIND (6)
  FatalFailures,   \* FATAL_INFERENCE_FAILURES (4)
  HoldAfter,       \* STILLFRAME_HOLD_AFTER (3)
  InitialRunners,  \* runners an instance may be built with
  TargetSized,     \* the output texture has transport-target size
  Drops,           \* the renderer may drop a frame between pass() and submit
  Content,         \* what frames may show
  MaxFrame         \* bound: frames per behaviour

ASSUME PipelineAssumption ==
  /\ NumSlots \in Nat \ {0}
  /\ NativeDepth \in Nat \ {0}
  /\ MaxTimeouts \in Nat \ {0}
  /\ StaleBehind \in Nat
  /\ FatalFailures \in Nat \ {0}
  /\ HoldAfter \in Nat \ {0}
  /\ InitialRunners \subseteq {"native", "worker", "none"}
  /\ TargetSized \in BOOLEAN /\ Drops \in BOOLEAN
  /\ Content # {}
  /\ MaxFrame \in Nat

Slot    == 0..(NumSlots - 1)
Frame   == 1..MaxFrame
NoSlot  == -1
NoClaim == [slot |-> NoSlot, frame |-> 0]
Claim   == [slot : Slot, frame : Frame]
Stage   == {"none", "queued", "mapping", "inferring", "burying", "leaving", "done"}
NoInput == [form |-> "none", crop |-> FALSE, bytes |-> 0]

VARIABLES
  frameCounter,  \* frames seen by pass()
  video,         \* content of each frame seen
  busy,          \* staging slots owned by someone
  cursor,        \* where the free-slot scan starts
  pending,       \* claim encoded by pass() and awaiting afterSubmit()
  queue,         \* claims whose submitted work the GPU has not completed
  buf,           \* per slot: WebGPU map state and the frame its bytes show
  sched,         \* the frame scheduler
  stage,         \* progress of each frame's job
  slotOf,        \* slot a live job drains, NoSlot otherwise
  input,         \* form, crop and true origin of what a job infers
  watermark,     \* presentedFrame: newest frame allowed to present
  canvas,        \* [frame, bytes] of the result on the output texture, 0 = primed
  landed,        \* firstResultLanded
  runner,        \* runner still attached, "none" once dead
  timeouts,      \* consecutive transient failures of the runner
  still,         \* last observed runner input and its run length
  cropSkips,     \* consecutive unpresentable crop results
  errors,        \* failed drains, saturating at FatalFailures
  fatal,         \* onFatalInferenceFailure fired
  dropped,       \* presentedDropped
  staleSkips,    \* staleSkippedFrames
  destroyed

slotVars  == <<busy, cursor, pending, queue, buf>>
jobVars   == <<stage, slotOf, input>>
showVars  == <<watermark, canvas, landed, cropSkips>>
guardVars == <<runner, timeouts>>
errorVars == <<errors, fatal>>
countVars == <<dropped, staleSkips>>
vars == <<frameCounter, video, slotVars, sched, jobVars, showVars, guardVars,
          still, errorVars, countVars, destroyed>>

Init ==
  /\ frameCounter = 0
  /\ video = [f \in Frame |-> CHOOSE c \in Content : TRUE]
  /\ busy = {} /\ cursor = 0 /\ pending = NoClaim /\ queue = <<>>
  /\ buf = [s \in Slot |-> [map |-> "unmapped", frame |-> 0]]
  /\ sched = NewScheduler
  /\ stage = [f \in Frame |-> "none"]
  /\ slotOf = [f \in Frame |-> NoSlot]
  /\ input = [f \in Frame |-> NoInput]
  /\ watermark = -1 /\ canvas = [frame |-> 0, bytes |-> 0] /\ landed = FALSE
  /\ runner \in InitialRunners /\ timeouts = 0
  /\ still = [key |-> <<>>, run |-> 0]
  /\ cropSkips = 0 /\ errors = 0 /\ fatal = FALSE
  /\ dropped = 0 /\ staleSkips = 0
  /\ destroyed = FALSE
-----------------------------------------------------------------------------
(***************************************************************************)
(* Helpers.                                                                *)
(***************************************************************************)
\* The slots in scan order from the cursor; claim() takes the first free one.
ScanPosition(s) == IF s >= cursor THEN s - cursor ELSE s - cursor + NumSlots
NextCursor(s) == (s + 1) % NumSlots
FirstFree(used) ==
  CHOOSE s \in Slot \ used :
    \A t \in Slot \ used : ScanPosition(s) <= ScanPosition(t)

\* Depth follows the attached runner and never exceeds the staging slots.
InferenceDepth ==
  LET d == IF runner = "native" THEN NativeDepth ELSE 1
  IN  IF d < NumSlots THEN d ELSE NumSlots

\* What bytes copied from frame b show; 0 for a buffer no copy ever reached.
ContentOf(b) == IF b = 0 THEN 0 ELSE video[b]

StaleNow(f) == landed /\ ~destroyed /\ ShouldStaleSkip(sched, f, StaleBehind)

\* claimPresentation refuses f: a newer frame was allowed to present.
NeverSuperseded(f) == FALSE       \* mutant: presentation without the watermark
Superseded(f) == f <= watermark

\* mutant: the drain ends without giving its slot back
LeaveDrainLeaking(f) ==
  /\ UNCHANGED busy
  /\ stage' = [stage EXCEPT ![f] = "leaving"]
  /\ slotOf' = [slotOf EXCEPT ![f] = NoSlot]
  /\ input' = [input EXCEPT ![f] = NoInput]

\* The drain's finally: the slot is released, markCompleted is still to come.
LeaveDrain(f) ==
  /\ busy' = busy \ {slotOf[f]}
  /\ stage' = [stage EXCEPT ![f] = "leaving"]
  /\ slotOf' = [slotOf EXCEPT ![f] = NoSlot]
  /\ input' = [input EXCEPT ![f] = NoInput]

\* handleInferenceError; `nowLanded` is firstResultLanded when it runs.
CountError ==
  IF destroyed THEN UNCHANGED errorVars
  ELSE /\ errors' = IF errors + 1 < FatalFailures THEN errors + 1 ELSE FatalFailures
       /\ fatal' = (fatal \/ (~landed /\ errors + 1 >= FatalFailures))
-----------------------------------------------------------------------------
(***************************************************************************)
(* The renderer's side.                                                    *)
(***************************************************************************)
\* pass(): prime the output until a result landed, recover a claim the last
\* frame leaked, then claim a slot and encode the copy into it. The encode
\* may throw (lost device, validation).
Pass ==
  /\ ~destroyed /\ frameCounter < MaxFrame
  /\ LET frame  == frameCounter + 1
         leaked == pending # NoClaim
         used   == IF leaked THEN busy \ {pending.slot} ELSE busy
         seen   == IF leaked THEN NoteSkipped(sched, pending.frame) ELSE sched
     IN  /\ frameCounter' = frame
         /\ \E c \in Content : video' = [video EXCEPT ![frame] = c]
         /\ \/ /\ used = Slot
               /\ sched' = NoteSkipped(seen, frame)
               /\ busy' = used /\ pending' = NoClaim
               /\ UNCHANGED cursor
            \/ /\ used # Slot
               /\ cursor' = NextCursor(FirstFree(used))
               /\ \/ /\ busy' = used \cup {FirstFree(used)}
                     /\ pending' = [slot |-> FirstFree(used), frame |-> frame]
                     /\ sched' = seen
                  \/ /\ busy' = used /\ pending' = NoClaim
                     /\ sched' = NoteSkipped(seen, frame)
  /\ canvas' = IF landed THEN canvas ELSE [frame |-> 0, bytes |-> 0]
  /\ UNCHANGED <<queue, buf, jobVars, watermark, landed, cropSkips, guardVars, still,
                 errorVars, countVars, destroyed>>

\* afterSubmit(): the renderer calls it on every frame path. The copy reached
\* the queue only if the encoder was submitted, and the queue executes it only
\* into an unmapped buffer: a submit that writes a mapped one is rejected whole.
AfterSubmit ==
  /\ pending # NoClaim
  /\ pending' = NoClaim
  /\ \/ /\ destroyed
        /\ busy' = busy \ {pending.slot}
        /\ UNCHANGED <<queue, buf>>
     \/ /\ ~destroyed
        /\ queue' = Append(queue, pending)
        /\ \E submitted \in {TRUE, ~Drops} :
             buf' = IF submitted /\ buf[pending.slot].map = "unmapped"
                      THEN [buf EXCEPT ![pending.slot].frame = pending.frame]
                      ELSE buf
        /\ UNCHANGED busy
  /\ UNCHANGED <<frameCounter, video, cursor, sched, jobVars, showVars, guardVars, still,
                 errorVars, countVars, destroyed>>

\* onSubmittedWorkDone() settles, oldest first. Fulfilled: the frame job is
\* submitted, or refused and its slot freed. Rejected (device lost): freed.
WorkDone ==
  /\ queue # <<>>
  /\ queue' = Tail(queue)
  /\ LET f == Head(queue).frame
         s == Head(queue).slot
     IN  \/ /\ ShouldProcess(sched, f, InferenceDepth)
            /\ sched' = MarkStarted(sched, f)
            /\ stage' = [stage EXCEPT ![f] = "queued"]
            /\ slotOf' = [slotOf EXCEPT ![f] = s]
            /\ UNCHANGED busy
         \/ /\ ~ShouldProcess(sched, f, InferenceDepth)
            /\ sched' = NoteSkipped(sched, f)
            /\ busy' = busy \ {s}
            /\ UNCHANGED <<stage, slotOf>>
         \/ \* the promise rejected
            /\ sched' = NoteSkipped(sched, f)
            /\ busy' = busy \ {s}
            /\ UNCHANGED <<stage, slotOf>>
  /\ UNCHANGED <<frameCounter, video, cursor, pending, buf, input, showVars, guardVars,
                 still, errorVars, countVars, destroyed>>

\* destroy(): idempotent; job and presentation state is reset, buffers go away.
Destroy ==
  /\ ~destroyed
  /\ destroyed' = TRUE
  /\ sched' = NewScheduler
  /\ watermark' = -1
  /\ dropped' = 0
  /\ UNCHANGED <<frameCounter, video, slotVars, jobVars, canvas, landed, cropSkips,
                 guardVars, still, errorVars, staleSkips>>
-----------------------------------------------------------------------------
(***************************************************************************)
(* The drain of one frame.                                                 *)
(***************************************************************************)
\* The drain begins: an early stale skip, or the input form is fixed and the
\* buffer's map requested. mapAsync rejects at once unless the buffer is
\* unmapped; a pool allocation may throw.
DrainStart(f) ==
  /\ stage[f] = "queued"
  /\ \/ /\ StaleNow(f)
        /\ staleSkips' = staleSkips + 1
        /\ LeaveDrain(f)
        /\ UNCHANGED <<buf, errorVars>>
     \/ /\ ~StaleNow(f)
        /\ buf[slotOf[f]].map = "unmapped" /\ ~destroyed
        /\ buf' = [buf EXCEPT ![slotOf[f]].map = "pending"]
        /\ stage' = [stage EXCEPT ![f] = "mapping"]
        /\ input' = [input EXCEPT ![f].form =
                       IF runner = "native" /\ landed THEN "rgba" ELSE "planar"]
        /\ UNCHANGED <<busy, slotOf, staleSkips, errorVars>>
     \/ /\ ~StaleNow(f)
        /\ CountError
        /\ LeaveDrain(f)
        /\ UNCHANGED <<buf, staleSkips>>
  /\ UNCHANGED <<frameCounter, video, cursor, pending, queue, sched, showVars, guardVars,
                 still, dropped, destroyed>>

\* The map succeeded: the bytes are copied out and the buffer unmapped, then
\* without another await the crop is decided, the still-frame run advanced,
\* and the frame held, stale-skipped, refused for want of an input its path
\* accepts, or sent to inference.
MapDone(f) ==
  /\ stage[f] = "mapping"
  /\ \/ /\ destroyed
        /\ LeaveDrain(f)
        /\ UNCHANGED <<buf, still, staleSkips, errorVars>>
     \/ /\ ~destroyed
        /\ buf' = [buf EXCEPT ![slotOf[f]].map = "unmapped"]
        /\ \E crop \in BOOLEAN :
             LET bytes == buf[slotOf[f]].frame
                 key   == <<ContentOf(bytes), input[f].form, crop>>
                 run   == IF key # still.key THEN 1
                          ELSE IF still.run < HoldAfter THEN still.run + 1 ELSE HoldAfter
             IN  /\ still' = [key |-> key, run |-> run]
                 /\ \/ /\ landed /\ run >= HoldAfter
                       /\ LeaveDrain(f)
                       /\ UNCHANGED <<staleSkips, errorVars>>
                    \/ /\ ~(landed /\ run >= HoldAfter) /\ StaleNow(f)
                       /\ staleSkips' = staleSkips + 1
                       /\ LeaveDrain(f)
                       /\ UNCHANGED errorVars
                    \/ /\ ~(landed /\ run >= HoldAfter) /\ ~StaleNow(f)
                       /\ runner = "none" /\ input[f].form = "rgba"
                       /\ CountError
                       /\ LeaveDrain(f)
                       /\ UNCHANGED staleSkips
                    \/ /\ ~(landed /\ run >= HoldAfter) /\ ~StaleNow(f)
                       /\ runner # "none" \/ input[f].form = "planar"
                       /\ stage' = [stage EXCEPT ![f] = "inferring"]
                       /\ input' = [input EXCEPT ![f] =
                            [form |-> IF runner = "none" THEN "session" ELSE input[f].form,
                             crop |-> crop, bytes |-> bytes]]
                       /\ UNCHANGED <<busy, slotOf, staleSkips, errorVars>>
  /\ UNCHANGED <<frameCounter, video, cursor, pending, queue, sched, showVars, guardVars,
                 dropped, destroyed>>

\* The map failed or lost the race against its 8 s timer. After a timeout the
\* map request is still outstanding when the slot is released.
MapFail(f) ==
  /\ stage[f] = "mapping"
  /\ \E timedOut \in BOOLEAN :
       buf' = IF timedOut THEN buf ELSE [buf EXCEPT ![slotOf[f]].map = "unmapped"]
  /\ CountError
  /\ LeaveDrain(f)
  /\ UNCHANGED <<frameCounter, video, cursor, pending, queue, sched, showVars, guardVars,
                 still, countVars, destroyed>>

\* A map request nobody waits for any more is granted: nothing unmaps it.
LateMap(s) ==
  /\ buf[s].map = "pending" /\ ~destroyed
  /\ \A f \in Frame : ~(stage[f] = "mapping" /\ slotOf[f] = s)
  /\ buf' = [buf EXCEPT ![s].map = "mapped"]
  /\ UNCHANGED <<frameCounter, video, busy, cursor, pending, queue, sched, jobVars, showVars,
                 guardVars, still, errorVars, countVars, destroyed>>

\* A session crop result has full 4x size: rounding decides whether it fits a texture
\* of the target's size.
MayNotFit(f) == TargetSized /\ input[f].form = "session" /\ input[f].crop

\* Inference returned a well-formed result: present it if no newer frame has.
InferOk(f) ==
  /\ stage[f] = "inferring"
  /\ timeouts' = IF input[f].form = "session" THEN timeouts ELSE 0
  /\ \/ /\ destroyed
        /\ UNCHANGED <<showVars, dropped, errorVars>>
     \/ /\ ~destroyed /\ Superseded(f)
        /\ dropped' = dropped + 1
        /\ UNCHANGED <<showVars, errorVars>>
     \/ /\ ~destroyed /\ ~Superseded(f)
        /\ watermark' = f
        /\ canvas' = [frame |-> f, bytes |-> input[f].bytes]
        /\ landed' = TRUE
        /\ cropSkips' = IF input[f].form = "session" /\ ~input[f].crop THEN cropSkips ELSE 0
        /\ UNCHANGED <<dropped, errorVars>>
     \/ \* the crop does not fit: skipped, and the skip is an error from the budget on
        /\ ~destroyed /\ ~Superseded(f) /\ MayNotFit(f)
        /\ watermark' = f
        /\ dropped' = dropped + 1
        /\ cropSkips' = IF cropSkips + 1 < FatalFailures THEN cropSkips + 1 ELSE FatalFailures
        /\ IF cropSkips + 1 >= FatalFailures
             THEN CountError /\ UNCHANGED landed
             ELSE landed' = TRUE /\ UNCHANGED errorVars
        /\ UNCHANGED canvas
     \/ \* the texture write threw after the claim
        /\ ~destroyed /\ ~Superseded(f)
        /\ watermark' = f
        /\ CountError
        /\ UNCHANGED <<canvas, landed, cropSkips, dropped>>
  /\ LeaveDrain(f)
  /\ UNCHANGED <<frameCounter, video, cursor, pending, queue, buf, sched, runner, still,
                 staleSkips, destroyed>>

\* A malformed runner result, or a failed session run: the drain fails, the
\* runner stays attached.
InferBad(f) ==
  /\ stage[f] = "inferring"
  /\ timeouts' = IF input[f].form = "session" THEN timeouts ELSE 0
  /\ CountError
  /\ LeaveDrain(f)
  /\ UNCHANGED <<frameCounter, video, cursor, pending, queue, buf, sched, showVars, runner,
                 still, countVars, destroyed>>

\* The guard sees a runner failure: a transient one below the budget fails the
\* frame; a permanent one, or the last of the budget, detaches the runner and
\* parks the drain until the escalation and the fallback warmup settle.
RunnerFail(f) ==
  /\ stage[f] = "inferring" /\ input[f].form # "session"
  /\ \E transient \in BOOLEAN :
       /\ timeouts' = IF transient /\ timeouts + 1 < MaxTimeouts THEN timeouts + 1 ELSE MaxTimeouts
       /\ IF transient /\ timeouts + 1 < MaxTimeouts
            THEN /\ CountError
                 /\ LeaveDrain(f)
                 /\ UNCHANGED runner
            ELSE /\ runner' = "none"
                 /\ stage' = [stage EXCEPT ![f] = "burying"]
                 /\ UNCHANGED <<errorVars, busy, slotOf, input>>
  /\ UNCHANGED <<frameCounter, video, cursor, pending, queue, buf, sched, showVars, still,
                 countVars, destroyed>>

\* Escalation and warmup have settled: the original error fails the frame.
Buried(f) ==
  /\ stage[f] = "burying"
  /\ CountError
  /\ LeaveDrain(f)
  /\ UNCHANGED <<frameCounter, video, cursor, pending, queue, buf, sched, showVars, guardVars,
                 still, countVars, destroyed>>

\* The job runner's finally.
Complete(f) ==
  /\ stage[f] = "leaving"
  /\ stage' = [stage EXCEPT ![f] = "done"]
  /\ sched' = MarkCompleted(sched, f)
  /\ UNCHANGED <<frameCounter, video, slotVars, slotOf, input, showVars, guardVars, still,
                 errorVars, countVars, destroyed>>
-----------------------------------------------------------------------------
\* The steps whose awaits a timer bounds: 8 s for a map, the runner's and the
\* session's own timeouts for inference.
TimedStep(f) ==
  \/ DrainStart(f)
  \/ MapDone(f) \/ MapFail(f)
  \/ InferOk(f) \/ InferBad(f) \/ RunnerFail(f)
  \/ Complete(f)

Next ==
  \/ Pass
  \/ AfterSubmit
  \/ WorkDone
  \/ Destroy
  \/ \E f \in Frame : TimedStep(f) \/ Buried(f)
  \/ \E s \in Slot : LateMap(s)

Spec == Init /\ [][Next]_vars

\* The renderer runs afterSubmit() on every frame path and promises of the queue
\* settle. Nothing bounds the fallback warmup a dying runner's drain waits for, so
\* no fairness is assumed of Buried.
Fairness ==
  /\ WF_vars(AfterSubmit)
  /\ WF_vars(WorkDone)
  /\ \A f \in Frame : WF_vars(TimedStep(f))

FairSpec == Spec /\ Fairness
-----------------------------------------------------------------------------
(***************************************************************************)
(* Properties.                                                             *)
(***************************************************************************)
Holding == {"queued", "mapping", "inferring", "burying"}   \* stages that own a slot
Live    == Holding \cup {"leaving"}                        \* started, not completed

\* Types of the variables.
TypeOK ==
  /\ frameCounter \in 0..MaxFrame
  /\ video \in [Frame -> Content]
  /\ busy \subseteq Slot
  /\ cursor \in Slot
  /\ pending \in Claim \cup {NoClaim}
  /\ queue \in Seq(Claim)
  /\ buf \in [Slot -> [map : {"unmapped", "pending", "mapped"}, frame : 0..MaxFrame]]
  /\ sched \in [inFlight : SUBSET Frame, newestSeen : -1..MaxFrame, skipped : Nat]
  /\ stage \in [Frame -> Stage]
  /\ slotOf \in [Frame -> Slot \cup {NoSlot}]
  /\ input \in [Frame -> [form : {"none", "planar", "rgba", "session"}, crop : BOOLEAN,
                          bytes : 0..MaxFrame]]
  /\ watermark \in -1..MaxFrame
  /\ canvas \in [frame : 0..MaxFrame, bytes : 0..MaxFrame]
  /\ landed \in BOOLEAN
  /\ runner \in {"native", "worker", "none"}
  /\ timeouts \in 0..MaxTimeouts
  /\ still.run \in 0..HoldAfter
  /\ cropSkips \in 0..FatalFailures
  /\ errors \in 0..FatalFailures
  /\ fatal \in BOOLEAN
  /\ dropped \in Nat /\ staleSkips \in Nat
  /\ destroyed \in BOOLEAN

PendingSlots == IF pending = NoClaim THEN {} ELSE {pending.slot}
QueueSlots   == {queue[i].slot : i \in DOMAIN queue}
JobSlots     == {slotOf[f] : f \in Frame} \ {NoSlot}

\* Every busy staging slot has exactly one owner - the encoded claim, a submitted
\* copy or a drain - and every owner's slot is busy: no exit path leaks a slot
\* into "no free slot", none releases a slot another frame has claimed.
SlotOwnership ==
  /\ busy = PendingSlots \cup QueueSlots \cup JobSlots
  /\ PendingSlots \cap QueueSlots = {}
  /\ PendingSlots \cap JobSlots = {}
  /\ QueueSlots \cap JobSlots = {}
  /\ \A i, j \in DOMAIN queue : queue[i].slot = queue[j].slot => i = j
  /\ \A f, g \in Frame : slotOf[f] # NoSlot /\ slotOf[f] = slotOf[g] => f = g

\* Until destroy() the scheduler's in-flight set is exactly the frames whose job
\* has started and not completed, whatever path the drain left by, so a failed or
\* skipped drain never keeps a depth slot for good.
InFlightExact == ~destroyed => sched.inFlight = {f \in Frame : stage[f] \in Live}

\* The overlay's skip total counts no frame twice and none that still runs or
\* that is on screen: it never exceeds the frames that arrived and came to nothing.
SkipTotal == sched.skipped + dropped + staleSkips
SkipsCountOnce ==
  ~destroyed => SkipTotal + Cardinality({f \in Frame : stage[f] \in Live \ {"leaving"}})
                  + (IF canvas.frame > 0 THEN 1 ELSE 0) <= frameCounter

\* The output texture moves only forward, shows only frames that arrived, and is
\* not painted after destroy(): the pipeline implements FramePresentation.
Presentation == INSTANCE FramePresentation
  WITH arrived <- frameCounter, shown <- canvas.frame, alive <- ~destroyed
PresentsInOrder == Presentation!Spec

\* No slot stays busy for good, so the pipeline never wedges into "no free slot";
\* the one exception is a drain that waits for the fallback session to be built
\* after its runner died.
SlotsReturn ==
  \A s \in Slot : s \in busy ~> \/ s \notin busy
                               \/ \E f \in Frame : slotOf[f] = s /\ stage[f] = "burying"

(***************************************************************************)
(* What comments of the source say and the code does not keep.             *)
(***************************************************************************)
\* A slot pass() may claim holds an unmapped buffer ("either way the slot is
\* reusable", at the end of drain()).
FreeSlotUnmapped ==
  ~destroyed => \A s \in Slot \ busy : buf[s].map = "unmapped"

\* Once nothing is in flight, a held still frame is what the canvas shows
\* ("bytes already presented" at the hold in drain()).
HeldIsShown ==
  /\ landed /\ still.run >= HoldAfter /\ ~destroyed
  /\ \A f \in Frame : stage[f] \notin Live
  => canvas.frame > 0 /\ ContentOf(canvas.bytes) = still.key[1]

\* A drain infers the bytes of its own frame (afterSubmit() "makes the promise
\* cover the copy").
InfersOwnFrame == \A f \in Frame : stage[f] = "inferring" => input[f].bytes = f

\* A persistent crop mismatch "escalates after the same budget as inference
\* failures": the fatal hook has fired once the skip budget is spent.
CropSkipsEscalate == cropSkips >= FatalFailures => fatal

\* The main-thread session serves one frame at a time ("stays at 1 ... as does the
\* main-thread fallback (shared session)").
SessionSingleFlight ==
  \A f, g \in Frame : stage[f] = "inferring" /\ input[f].form = "session"
                     /\ stage[g] = "inferring" /\ input[g].form = "session" => f = g
=============================================================================
