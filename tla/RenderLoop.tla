------------------------------ MODULE RenderLoop ------------------------------
(***************************************************************************)
(* The WebGPU renderer: the frame loop driven by video frame callbacks, the*)
(* chain of state updates (configuration, video source, device recovery),  *)
(* the rebuild a frame runs when the source changes its size, and destroy().*)
(*                                                                         *)
(* Source: src/src/core/renderer.ts. WebGPU, the video element and the     *)
(* kernels of the pipelines are external; the frame generator, which only  *)
(* decides which picture is presented, is left out.                        *)
(*                                                                         *)
(* An action is one run-to-completion section of the page's thread. Two    *)
(* activities process frames: "loop" is drainFrames started by a callback, *)
(* "chain" a frame awaited by the state update that runs. The model starts *)
(* when create() has returned.                                             *)
(***************************************************************************)
EXTENDS Integers, Sequences, FiniteSets

CONSTANTS
  MaxUpdates,  \* bound: calls of updateConfiguration and updateVideoSource
  MaxLosses,   \* bound: lost devices
  MaxReports,  \* bound: losses that a pipeline reports too
  MaxResizes,  \* bound: changes of the source's size or depth
  MaxOps       \* bound: length of the chain

ASSUME RenderAssumption ==
  {MaxUpdates, MaxLosses, MaxReports, MaxResizes, MaxOps} \subseteq Nat

Act     == {"loop", "chain"}
Builder == Act \cup {"op"}
Kind    == {"config", "source", "recover"}

VARIABLES
  destroyed, released,
  reported,    \* onError was called, or an update was rejected that leaves the
               \* callbacks stopped
  late,        \* a wait of waitForCondition gave up
  armed,       \* frameCallbackId # null
  due,         \* a callback of the current source is queued by the browser
  pending,     \* pendingFrame
  frameProcessing,
  rebuilding,
  frame,       \* where each activity awaits: "none", "copy", "queue", "build"
  chain,       \* stateUpdateChain: the operation that runs, and the others
  step,        \* where the running operation awaits
  diff,        \* what diffRendererConfig found for it; "history" is a change of
               \* frame generation alone
  mode,        \* how its frame runs: "once", "locked" or "drain"
  gen,         \* deviceGeneration
  recovered,   \* lastRecoveredGeneration
  dev,         \* the device: "up", "lost" or "down"
  lostEvents,  \* device.lost promises whose reaction has not run
  reports,     \* context losses the pipelines have not reported
  base,        \* the source texture a build under way reads: "current", "old"
  fits,        \* the pipelines read videoFrameTexture, not an older one
  stale,       \* the video no longer fits the texture
  updates, losses, resizes

loopVars    == <<armed, due, pending, frameProcessing, rebuilding, frame>>
chainVars   == <<chain, step, diff, mode>>
lossVars    == <<lostEvents, reports, losses>>
deviceVars  == <<gen, recovered, dev, lossVars>>
textureVars == <<base, fits, stale, resizes>>
\* What an operation or a frame may change beside its step.
flowVars    == <<armed, pending, frameProcessing, rebuilding, frame, chain, diff, mode,
                 reported, destroyed>>
endVars     == <<destroyed, released, reported, late>>
vars == <<endVars, loopVars, chainVars, deviceVars, textureVars, updates>>

Init ==
  /\ destroyed = FALSE /\ released = FALSE /\ reported = FALSE /\ late = FALSE
  /\ armed = TRUE /\ due = FALSE /\ pending = FALSE
  /\ frameProcessing = FALSE /\ rebuilding = FALSE
  /\ frame = [a \in Act |-> "none"]
  /\ chain = <<>> /\ step = "none" /\ diff = "none" /\ mode = "once"
  /\ gen = 1 /\ recovered = 0 /\ dev = "up" /\ lostEvents = 0 /\ reports = 0
  /\ base = [b \in Builder |-> "none"] /\ fits = TRUE /\ stale = FALSE
  /\ updates = 0 /\ losses = 0 /\ resizes = 0

------------------------------------------------------------------------------
(* The frame path. *)

\* processFrame up to its first await, given rebuilding and whether the video
\* still fits the source texture.
EntryOf(locked, misfit) ==
  IF destroyed \/ locked THEN "none" ELSE IF misfit THEN "queue" ELSE "copy"
Entry(locked) == EntryOf(locked, stale)

\* drainFrames takes the frame that came meanwhile.
Again(locked) == pending /\ Entry(locked) # "none"

\* The running operation is over; the next one of the chain may begin.
Finish ==
  chain' = Tail(chain) /\ step' = "none" /\ diff' = "none" /\ mode' = "once"

\* createSourceTexture: b builds on the new one, whatever is built or being
\* built reads an old one.
NewTexture(b) ==
  /\ base' = [c \in Builder |-> IF c = b THEN "current"
                              ELSE IF base[c] = "none" THEN "none" ELSE "old"]
  /\ fits' = FALSE /\ stale' = FALSE

\* buildPipelines of b commits, or throws.
BuildEnds(b, failed) ==
  /\ fits' = IF failed THEN fits ELSE base[b] = "current"
  /\ base' = [base EXCEPT ![b] = "none"]

\* mutant: A failed rebuild is swallowed, and the loop goes on.
FatalNever(failed) == FALSE

\* An error counts unless the renderer was destroyed meanwhile.
Fatal(failed) == failed /\ ~destroyed

\* stopFrameCallbacks.
StopCallbacks == armed' = FALSE /\ pending' = FALSE

\* drainFrames of a callback, after one of its frames: it takes the pending
\* one, or leaves by its finally. An error stops the callbacks.
LoopGoesOn(failed, locked) ==
  \/ /\ ~failed /\ Again(locked)
     /\ frame' = [frame EXCEPT !["loop"] = Entry(locked)]
     /\ rebuilding' = (locked \/ Entry(locked) = "queue")
     /\ pending' = FALSE
     /\ UNCHANGED <<armed, frameProcessing, reported, destroyed, chainVars>>
  \/ /\ failed \/ ~Again(locked)
     /\ frame' = [frame EXCEPT !["loop"] = "none"]
     /\ rebuilding' = locked /\ frameProcessing' = FALSE
     /\ armed' = (armed /\ ~Fatal(failed)) /\ pending' = (pending /\ ~Fatal(failed))
     /\ reported' = (reported \/ Fatal(failed))
     /\ UNCHANGED <<destroyed, chainVars>>

\* The end of applyConfiguration: callbacks are armed again.
ConfigurationEnds(locked) ==
  /\ frame' = [frame EXCEPT !["chain"] = "none"]
  /\ rebuilding' = locked
  /\ armed' = (armed \/ ~destroyed)
  /\ Finish

\* A frame of applyConfiguration. The first one runs under the processing lock
\* unless a callback is pending; what came meanwhile is drained.
ConfigurationGoesOn(failed, locked) ==
  \/ /\ failed /\ mode = "locked"                      \* destroy(), rejected
     /\ destroyed' = TRUE /\ reported' = TRUE
     /\ StopCallbacks /\ frameProcessing' = FALSE
     /\ frame' = [frame EXCEPT !["chain"] = "none"] /\ rebuilding' = locked
     /\ Finish
  \/ /\ failed /\ mode = "drain"
     /\ ConfigurationEnds(locked)
     /\ reported' = (reported \/ ~destroyed)
     /\ pending' = (pending /\ destroyed) /\ frameProcessing' = FALSE
     /\ UNCHANGED destroyed
  \/ /\ ~failed /\ Again(locked)
     /\ frame' = [frame EXCEPT !["chain"] = Entry(locked)]
     /\ rebuilding' = (locked \/ Entry(locked) = "queue")
     /\ mode' = "drain" /\ frameProcessing' = TRUE /\ pending' = FALSE
     /\ UNCHANGED <<armed, reported, destroyed, chain, step, diff>>
  \/ /\ ~failed /\ ~Again(locked)
     /\ ConfigurationEnds(locked)
     /\ pending' = (pending /\ destroyed) /\ frameProcessing' = FALSE
     /\ UNCHANGED <<reported, destroyed>>

\* The frame of applyVideoSource, and its finally. A throw leaves the
\* callbacks unarmed and rejects the update.
SourceGoesOn(failed) ==
  /\ frame' = [frame EXCEPT !["chain"] = "none"]
  /\ rebuilding' = FALSE
  /\ armed' = (armed \/ (~failed /\ ~destroyed))
  /\ reported' = (reported \/ failed)
  /\ Finish
  /\ UNCHANGED <<pending, frameProcessing, destroyed>>

\* What follows a frame of activity a, given rebuilding.
GoesOn(a, failed, locked) ==
  \/ a = "loop" /\ LoopGoesOn(failed, locked)
  \/ a = "chain" /\ Head(chain).kind = "config" /\ ConfigurationGoesOn(failed, locked)
  \/ a = "chain" /\ Head(chain).kind = "source" /\ SourceGoesOn(failed)

\* handleVideoFrame, for the video that scheduled the callback. Bound: one
\* activity of the loop at a time.
VideoFrame ==
  /\ due /\ ~destroyed /\ frame["loop"] = "none"
  /\ due' = FALSE /\ armed' = TRUE
  /\ \/ /\ frameProcessing \/ rebuilding
        /\ pending' = TRUE
        /\ UNCHANGED <<frameProcessing, rebuilding, frame>>
     \/ /\ ~frameProcessing /\ ~rebuilding
        /\ frameProcessing' = TRUE /\ pending' = FALSE
        /\ frame' = [frame EXCEPT !["loop"] = Entry(FALSE)]
        /\ rebuilding' = (Entry(FALSE) = "queue")
  /\ UNCHANGED <<endVars, chainVars, deviceVars, textureVars, updates>>

\* copyCurrentVideoFrame settles. The frame is encoded and submitted, or
\* dropped by a guard, or given up because of destroy(); or the copy throws.
CopyDone(a) ==
  /\ frame[a] = "copy"
  /\ \E failed \in BOOLEAN : GoesOn(a, failed, rebuilding)
  /\ UNCHANGED <<due, released, late, deviceVars, textureVars, updates>>

\* rebuildForSourceResize, by a frame: the queue has drained, or the wait gave
\* up. The source texture is replaced before the pipelines are.
RebuildStarts(a) ==
  /\ frame[a] = "queue"
  /\ \/ /\ destroyed
        /\ GoesOn(a, FALSE, FALSE)
        /\ UNCHANGED <<base, fits, stale>>
     \/ /\ ~destroyed
        /\ NewTexture(a)
        /\ frame' = [frame EXCEPT ![a] = "build"]
        /\ UNCHANGED <<armed, pending, frameProcessing, rebuilding, reported, destroyed,
                       chainVars>>
  /\ UNCHANGED <<resizes, due, released, late, deviceVars, updates>>

\* The build commits, or throws; its frame is not rendered.
RebuildEnds(a) ==
  /\ frame[a] = "build"
  /\ \E failed \in BOOLEAN : GoesOn(a, failed, FALSE) /\ BuildEnds(a, failed)
  /\ UNCHANGED <<stale, resizes, due, released, late, deviceVars, updates>>

------------------------------------------------------------------------------
(* The chain of state updates. *)

Op    == Head(chain)
At(s) == chain # <<>> /\ step = s

\* updateConfiguration or updateVideoSource is called.
Update(kind) ==
  /\ updates < MaxUpdates /\ Len(chain) < MaxOps /\ ~late
  /\ updates' = updates + 1
  /\ chain' = Append(chain, [kind |-> kind, gen |-> 0])
  /\ UNCHANGED <<endVars, loopVars, step, diff, mode, deviceVars, textureVars>>

\* The operation's first section. A recovery for a generation that was
\* already rebuilt is skipped; one for a destroyed renderer is reported.
Begins ==
  /\ At("none")
  /\ LET skipped == Op.kind = "recover" /\ Op.gen <= recovered
     IN \/ /\ destroyed /\ Finish
           /\ reported' = (reported \/ Op.kind = "recover")
        \/ /\ ~destroyed /\ skipped /\ Finish /\ UNCHANGED reported
        \/ /\ ~destroyed /\ ~skipped
           /\ step' = "idle" /\ UNCHANGED <<chain, diff, mode, reported>>
  /\ UNCHANGED <<destroyed, released, late, loopVars, deviceVars, textureVars, updates>>

\* mutant: Waits return at once.
WaitedNot(predicate) == UNCHANGED late

\* mutant: Waits are not bounded by a timer.
WaitedForever(predicate) == ~predicate /\ UNCHANGED late

\* waitForCondition returns when its predicate is false, or after 5 s.
Waited(predicate) == late' = (late \/ predicate)

\* waitForIdle watches frames and rebuilds.
Busy == frameProcessing \/ rebuilding

\* waitForIdle has returned: the operation takes the rebuild lock before it
\* yields. A configuration without a difference ends here.
TakesLock ==
  /\ At("idle") /\ Waited(Busy)
  /\ \/ /\ destroyed \/ Op.kind = "config"                \* isUnchanged
        /\ Finish
        /\ UNCHANGED loopVars
     \/ /\ ~destroyed
        /\ diff' \in (IF Op.kind = "config" THEN {"pipelines", "history", "canvas"} ELSE {"none"})
        /\ rebuilding' = TRUE /\ StopCallbacks
        /\ due' = (due /\ Op.kind # "source")                \* the revision moved on
        /\ step' = "frameIdle"
        /\ UNCHANGED <<chain, mode, frameProcessing, frame>>
  /\ UNCHANGED <<destroyed, released, reported, deviceVars, textureVars, updates>>

\* A frame of the operation begins.
FrameBegins(how, misfit) ==
  /\ mode' = how /\ step' = "frame"
  /\ frame' = [frame EXCEPT !["chain"] = EntryOf(FALSE, misfit)]
  /\ rebuilding' = (EntryOf(FALSE, misfit) = "queue")
  /\ UNCHANGED <<armed, chain, diff, reported, destroyed>>

\* The configuration is committed and presented at once, if the video has data.
Commit ==
  /\ pending' = FALSE
  /\ \/ /\ ~destroyed
        /\ FrameBegins(IF pending THEN "drain" ELSE "locked", stale)
        /\ frameProcessing' = TRUE
     \/ /\ ConfigurationEnds(FALSE)
        /\ UNCHANGED <<frameProcessing, reported, destroyed>>

\* A configuration fails before anything was swapped: the old pipelines stay,
\* and a pending frame is drained with them.
ConfigurationFails ==
  /\ pending' = FALSE
  /\ \/ /\ pending /\ ~destroyed
        /\ FrameBegins("drain", stale) /\ frameProcessing' = TRUE
     \/ /\ ~pending \/ destroyed
        /\ ConfigurationEnds(FALSE)
        /\ UNCHANGED <<frameProcessing, reported, destroyed>>

\* A configuration fails after the swap: destroy(), and it is rejected.
FailsClosed ==
  /\ destroyed' = TRUE /\ reported' = TRUE
  /\ StopCallbacks /\ rebuilding' = FALSE
  /\ Finish
  /\ UNCHANGED <<frame, frameProcessing>>

\* The operation gives up its lock and ends; callbacks stay stopped.
Unlock ==
  /\ rebuilding' = FALSE
  /\ Finish
  /\ UNCHANGED <<armed, pending, frame, frameProcessing, destroyed>>

\* A recovery or a change of source that fails is reported.
GivesUp == Unlock /\ reported' = TRUE

\* waitForFrameIdle has returned. A configuration goes on to the wait for the
\* queue, or commits if only the canvas changes; a source is swapped, whose
\* size differs, fits or is not known yet; the lost device is destroyed and
\* another one requested.
HasFrames ==
  /\ At("frameIdle") /\ Waited(frameProcessing)
  /\ \/ /\ destroyed /\ Unlock
        /\ UNCHANGED <<reported, gen, dev, stale>>
     \/ /\ ~destroyed /\ Op.kind = "config"
        /\ \/ diff = "canvas" /\ Commit
           \/ diff # "canvas" /\ step' = "queue" /\ UNCHANGED flowVars
        /\ UNCHANGED <<gen, dev, stale>>
     \/ /\ ~destroyed /\ Op.kind = "source"
        /\ \/ stale' = TRUE /\ step' = "queue" /\ UNCHANGED flowVars
           \/ /\ stale' \in {FALSE, stale}
              /\ FrameBegins("once", stale')
              /\ UNCHANGED <<pending, frameProcessing>>
           \/ stale' = TRUE /\ SourceGoesOn(FALSE)
        /\ UNCHANGED <<gen, dev>>
     \/ /\ ~destroyed /\ Op.kind = "recover"
        /\ dev' = "down" /\ gen' = gen + 1 /\ step' = "adapter"
        /\ UNCHANGED <<flowVars, stale>>
  /\ UNCHANGED <<due, released, recovered, lossVars, base, fits, resizes, updates>>

\* waitForQueueIdle has returned, which its own timer bounds. Pipelines are
\* built; a change of frame generation alone commits; a source of another
\* size gets its texture first.
QueueIdle ==
  /\ At("queue")
  /\ \/ /\ Op.kind = "config" /\ diff = "pipelines"
        /\ step' = "build" /\ base' = [base EXCEPT !["op"] = "current"]
        /\ UNCHANGED <<flowVars, fits, stale>>
     \/ /\ Op.kind = "config" /\ diff = "history" /\ (Commit \/ FailsClosed)
        /\ UNCHANGED <<base, fits, stale>>
     \/ /\ Op.kind = "source" /\ destroyed /\ Unlock
        /\ UNCHANGED <<reported, base, fits, stale>>
     \/ /\ Op.kind = "source" /\ ~destroyed
        /\ step' = "build" /\ NewTexture("op")
        /\ UNCHANGED flowVars
  /\ UNCHANGED <<due, released, late, deviceVars, resizes, updates>>

\* createDevice settles. A new device comes with a source texture of its own.
DeviceComes ==
  /\ At("adapter")
  /\ \/ /\ GivesUp
        /\ UNCHANGED <<dev, base, fits, stale>>
     \/ /\ dev' = "up" /\ step' = "build" /\ NewTexture("op")
        /\ UNCHANGED flowVars
  /\ UNCHANGED <<due, released, late, gen, recovered, lossVars, resizes, updates>>

\* The operation's build commits, or throws.
Built ==
  /\ At("build")
  /\ \/ /\ BuildEnds("op", FALSE)
        /\ \/ Op.kind = "config" /\ (Commit \/ FailsClosed)
           \/ /\ Op.kind = "source" /\ FrameBegins("once", stale)
              /\ ~destroyed /\ UNCHANGED <<pending, frameProcessing>>
           \/ Op.kind = "source" /\ SourceGoesOn(FALSE)
           \/ Op.kind = "recover" /\ step' = "present" /\ UNCHANGED flowVars
     \/ /\ BuildEnds("op", TRUE)
        /\ \/ Op.kind = "config" /\ ConfigurationFails
           \/ Op.kind # "config" /\ GivesUp
  /\ UNCHANGED <<due, released, late, deviceVars, stale, resizes, updates>>

\* mutant: The generation of the new device is noted.
RebuiltAhead == gen

\* The generation a recovery has rebuilt is the one it was asked for.
Rebuilt == Op.gen

\* createPresentationPipeline settles: the recovery is complete, its
\* generation is noted and the callbacks are armed again.
Recovers ==
  /\ At("present")
  /\ \/ /\ recovered' = Rebuilt
        /\ armed' = (armed \/ ~destroyed)
        /\ rebuilding' = FALSE
        /\ Finish
        /\ UNCHANGED <<pending, frame, frameProcessing, destroyed, reported>>
     \/ GivesUp /\ UNCHANGED recovered
  /\ UNCHANGED <<due, released, late, gen, dev, lossVars, textureVars, updates>>

------------------------------------------------------------------------------
(* destroy(). *)

\* destroy() is called.
Destroy ==
  /\ ~destroyed /\ destroyed' = TRUE
  /\ StopCallbacks /\ due' = FALSE                         \* the handler ignores it
  /\ UNCHANGED <<released, reported, late, frameProcessing, rebuilding, frame, chainVars,
                 deviceVars, textureVars, updates>>

\* waitForIdle has returned, and the last frame has completed: everything is
\* released.
Release ==
  /\ destroyed /\ ~released
  /\ Waited(Busy)
  /\ released' = TRUE /\ dev' = "down"
  /\ UNCHANGED <<destroyed, reported, loopVars, chainVars, gen, recovered, lossVars,
                 textureVars, updates>>

------------------------------------------------------------------------------
(* The browser. *)

\* In all of these the browser brings no further change once a wait gave up
\* (bound: late), so that what the wait let through is followed to its end.

\* A video frame is presented: the callback is queued. It cannot be retracted.
FrameDue ==
  /\ armed /\ ~due /\ due' = TRUE
  /\ UNCHANGED <<endVars, armed, pending, frameProcessing, rebuilding, frame, chainVars,
                 deviceVars, textureVars, updates>>

\* The source changes its size or its depth.
Resizes ==
  /\ resizes < MaxResizes /\ ~stale /\ ~late
  /\ resizes' = resizes + 1 /\ stale' = TRUE
  /\ UNCHANGED <<endVars, loopVars, chainVars, deviceVars, base, fits, updates>>

\* The device is lost: its promise resolves, and a pipeline may notice.
LosesDevice ==
  /\ dev = "up" /\ losses < MaxLosses /\ ~late /\ ~destroyed
  /\ dev' = "lost" /\ losses' = losses + 1
  /\ lostEvents' = lostEvents + 1
  /\ reports' = reports + (IF losses < MaxReports THEN 1 ELSE 0)
  /\ UNCHANGED <<endVars, loopVars, chainVars, gen, recovered, textureVars, updates>>

\* Both readers of a loss take the generation of that moment.
Recovery == [kind |-> "recover", gen |-> gen]

\* The reaction to device.lost.
LostEvent ==
  /\ lostEvents > 0 /\ lostEvents' = lostEvents - 1
  /\ chain' = IF destroyed THEN chain ELSE Append(chain, Recovery)
  /\ UNCHANGED <<endVars, loopVars, step, diff, mode, gen, recovered, dev, reports, losses,
                 textureVars, updates>>

\* onDeviceContextLost of a pipeline, which may belong to an older device.
ContextReported ==
  /\ reports > 0 /\ reports' = reports - 1
  /\ chain' = Append(chain, Recovery)
  /\ UNCHANGED <<endVars, loopVars, step, diff, mode, gen, recovered, dev, lostEvents, losses,
                 textureVars, updates>>

------------------------------------------------------------------------------
FrameStep(a) == CopyDone(a) \/ RebuildStarts(a) \/ RebuildEnds(a)
\* A drain of a state update ends: no callback came during its last frame.
DrainEnds == FrameStep("chain") /\ frame'["chain"] = "none"
ChainStep == Begins \/ TakesLock \/ HasFrames \/ QueueIdle \/ DeviceComes \/ Built \/ Recovers

Next ==
  \/ VideoFrame
  \/ \E a \in Act : FrameStep(a)
  \/ \E k \in {"config", "source"} : Update(k)
  \/ ChainStep \/ Destroy \/ Release
  \/ FrameDue \/ Resizes \/ LosesDevice \/ LostEvent \/ ContextReported

\* Waits are bounded by timers; bitmaps, adapters and compilations settle; the
\* reaction to a lost device is delivered. A drain that a state update awaits
\* ends: not every frame takes longer to copy than the next one to come.
Fairness ==
  /\ \A a \in Act : WF_vars(FrameStep(a))
  /\ SF_vars(DrainEnds)
  /\ WF_vars(ChainStep) /\ WF_vars(Release) /\ WF_vars(LostEvent)

Spec == Init /\ [][Next]_vars /\ Fairness

------------------------------------------------------------------------------
TypeOK ==
  /\ {destroyed, released, reported, late, armed, due, pending, frameProcessing, rebuilding,
      fits, stale} \subseteq BOOLEAN
  /\ frame \in [Act -> {"none", "copy", "queue", "build"}]
  /\ chain \in Seq([kind : Kind, gen : Nat])
  /\ step \in {"none", "idle", "frameIdle", "queue", "adapter", "build", "present", "frame"}
  /\ (step # "none" => chain # <<>>) /\ (step = "frame" <=> frame["chain"] # "none")
  /\ diff \in {"none", "pipelines", "history", "canvas"} /\ mode \in {"once", "locked", "drain"}
  /\ gen \in Nat /\ recovered \in 0..gen
  /\ dev \in {"up", "lost", "down"} /\ lostEvents \in Nat /\ reports \in Nat
  /\ base \in [Builder -> {"none", "current", "old"}]
  /\ updates \in 0..MaxUpdates /\ losses \in 0..MaxLosses /\ resizes \in 0..MaxResizes

\* Who replaces textures, pipelines or the device.
Builders ==
  {a \in Act : frame[a] \in {"queue", "build"}}
    \cup (IF step \in {"queue", "adapter", "build", "present"} THEN {"op"} ELSE {})

\* renderer.ts:1220-1223, :1366-1368, :1397-1399. Frame-path rebuilds and state
\* updates never build at the same time, and the flag that holds frames back is
\* up as long as one of them does; unless a 5 s wait gave up.
OneBuilder ==
  late \/ (Cardinality(Builders) <= 1 /\ (Builders # {} => rebuilding))

\* renderer.ts:1238-1240. A frame that is being copied is encoded on pipelines
\* that read the texture it was copied to, while nobody replaces them; unless a
\* wait gave up, or a failure was reported.
FrameFitsPipelines ==
  \A a \in Act : frame[a] = "copy" /\ ~destroyed =>
    late \/ reported \/ (Builders = {} /\ fits)

\* Whatever updates, rebuilds and recoveries came before, an idle renderer that
\* reported nothing has its callback armed: the picture does not freeze.
LoopArmed ==
  chain = <<>> /\ (\A a \in Act : frame[a] = "none") =>
    armed \/ destroyed \/ reported

\* renderer.ts:1442-1450. Nothing is acquired or built once destroy() has
\* released everything, unless a wait gave up.
ReleasedForGood == released => late \/ (dev = "down" /\ Builders = {})

\* renderer.ts:1389-1395. A lost device is replaced, or the loss is reported.
LossRecovered == dev = "lost" ~> dev = "up" \/ reported \/ destroyed

\* renderer.ts:1134-1137, :1155-1159. No update waits forever for a renderer that
\* frames, rebuilds, failures or destroy() keep busy, nor for one queued before it.
UpdatesSettle == chain # <<>> ~> chain = <<>>

==============================================================================
