# Formal models of AniWebScale

AniWebScale is a Chrome/Firefox extension that upscales the video of the page it
runs in. It does so either inside the page (WebGPU shaders, or RealESRGAN through
ONNX Runtime or a local Vulkan host) or, for protected playback, by handing the tab
to a native program that captures the browser window. This directory holds TLA+
models of its concurrent core, the TLC runs that check them on small instances and
the proofs that carry the main results to every instance.

Paths below are relative to the repository, which is `src/` here: the extension's
TypeScript is in `src/src/`.

## What is here

| File | What it is |
| --- | --- |
| `FramePacing.tla` | the frame scheduler as operators |
| `FramePipeline.tla` | one RealESRGAN pipeline: renderer side, GPU queue, drains, runner, presentation |
| `FramePresentation.tla` | what the pipeline promises the viewer |
| `FramePipelineProofs.tla` | theorems about the pipeline, checked by TLAPS |
| `NativeSession.tla` | claims and native capture sessions: background worker, pages, enhancers, host |
| `SessionLifecycle.tla` | what the background promises about sessions |
| `NativeSessionProofs.tla` | theorems about captures, pages, sessions and who owns them, checked by TLAPS |
| `WorkerRunner.tla` | runners shared by pipelines: broker, worker clients, guards |
| `WorkerRunnerProofs.tla` | theorems about the runners and the labels of the worker thread, checked by TLAPS |
| `NativeTransport.tla` | request slots, upload buffers and endpoint of the client of the Vulkan host, and the background broker of that endpoint |
| `NativeTransportProofs.tla` | theorems about slots, waiters, upload buffers and the host process, and about the GPU of the Linux host, checked by TLAPS |
| `InferenceWorker.tla` | the ONNX worker: overlapping frames over one session cache |
| `FrameContent.tla` | what part of a frame is inferred, and what the output texture then shows |
| `FrameContentProofs.tla` | theorems about crops, their tiles, where they land and the bars around them, checked by TLAPS |
| `FrameLayout.tla` | where each pixel of a frame lies in readback rows, tensors, batches and outputs |
| `RenderLoop.tla` | the WebGPU renderer: frames, state updates, device loss |
| `RenderLoopProofs.tla` | theorems about the renderer's builders and frames, checked by TLAPS |
| `Enhancer.tla` | one video's enhancer: backends, settings, automation, stash and reattach |
| `AutoCap.tla` | the automatic resolution cap and its way to the renderer |
| `EnhancerProofs.tla` | theorems about the automatic cap and about the enhancer it belongs to, checked by TLAPS |
| `SiteAccess.tla` | granted sites, the scripts registered for them, and the prompts |
| `SiteAccessProofs.tla` | theorems about site access, checked by TLAPS |
| `LinuxHost.tla` | the Linux Vulkan host: two transports, one GPU, deadlines and shutdown |
| `<Module>.cfg` | the passing run of each module |
| `NativeSession_NoTaskWaitsForAnother.cfg` | a claim of a comment, refuted |

Run `tlc -config FramePipeline.cfg FramePipeline` and so on; `tlapm FramePipelineProofs.tla`
and so on check the proofs. Every run takes less than four minutes on two cores, and all the proofs together about half an hour. Each module
also defines a `TypeOK`, proved where the module has proofs of it, and otherwise a help when the
module is changed: name it in the cfg.

How the modules meet: `FramePipeline` is one pipeline with its runner reduced to outcomes;
`WorkerRunner` gives the browser-side runner and the broker that hands runners out,
`NativeTransport` the native one, `InferenceWorker` the thread behind the first and `LinuxHost`
the process behind the second. `FrameContent` is the data side of the same drain. `RenderLoop`
is the caller of `pass()` and `afterSubmit()`, `Enhancer` the owner of the renderer and of the
page's side of `NativeSession`, `AutoCap` one loop through enhancer and renderer. Each module
abstracts its neighbours to what they may answer, and says so.

## Inventory

For each component: its state, its operations, whom it talks to, what is hard about
it, and what makes it correct. PROJECT.json lists the same components with their
status, and the hazards at their lines.

### RealESRGAN inside the page

* **Frame pipeline** (`core/realesrgan-pipeline.ts`, `-drain-processor.ts`,
  `-frame-job.ts`, `-staging-slots.ts`, `shared/realesrgan-pacing.ts`). State: a
  frame counter, eight staging buffers with an owner each, the claim between `pass()`
  and `afterSubmit()`, the set of frames in flight, the presentation watermark, error
  and skip counters. Operations: `pass`, `afterSubmit`, the completion of submitted
  work, `drain`, `destroy`. The renderer calls it synchronously; every drain is an
  async function of its own, so up to eight interleave at their awaits. Correct when no
  slot or depth slot leaks, results are presented in order, nothing is written after
  `destroy`, and chronic failure is noticed. *Modelled.*
* **Frame decision, letterbox, tiles, output writer** (`shared/realesrgan-frame-decision.ts`,
  `-letterbox.ts`, `-tile-geometry.js`, `core/realesrgan-output-writer.ts`). State: the adopted
  crop and how it was confirmed, the output texture, the key of the bars drawn, the run of
  unpresentable crops, the GPU composer. Hard: a crop adopted on one frame is applied to
  others, results of several sizes meet one texture, rounding. Correct when no content is cut
  off and nothing old stays visible. *`FrameContent`; the failure budget in `FramePipeline`.*
* **Runner guard and broker** (`core/realesrgan-runner-guard.ts`, `-broker.ts`). The
  guard counts consecutive transient failures and declares a runner dead; the broker
  caches the process-wide runners, forgets dead ones and retries a missing native host
  after a cooldown. Hard: verdicts of several pipelines about one shared runner, across
  awaits. Correct when a buried runner is not served again. *The guard in both
  `FramePipeline` and `WorkerRunner`, the broker in `WorkerRunner`.*
* **Worker client** (`core/realesrgan-worker-client.ts`). Requests by id with a timer each.
  Hard: a timed-out request whose computation goes on under the next one, late answers,
  worker errors. Correct when every request is answered once and no slot idles.
  *`WorkerRunner`.*
* **Inference worker** (`worker/realesrgan-inference-worker.js`). State: the session cache, the
  fp16 and batching verdicts, the pixel module. It does not serialize messages. Hard: creates
  that time out and arrive late, rebuilds under a running frame. Correct when every frame is
  answered and the answer says which model served it. *`InferenceWorker`.*
* **Native Vulkan client and its broker** (`core/realesrgan-native-vulkan-client.ts`,
  `background/realesrgan-http-info.ts`). Eight request slots with waiters, rotating upload
  buffers, an endpoint that is invalidated on 403, a host process per port. Hard: lost wakeups,
  buffer reuse, disposal with waiters, handshakes that fail or are overtaken. Correct when
  slots are exact, every frame posts its own bytes and one host runs. *`NativeTransport`.*
* **Automatic cap** (`shared/realesrgan-auto-cap.ts`, `core/enhancer-stats-consumer.ts`). Correct
  when it does not flap and the renderer infers with the cap it believes in. *`AutoCap`.*
* **Sessions, coordinator, model assets**: build and cache ONNX sessions per shape. *Seen
  by the pipeline only through their outcome.*
* **Readback, tensors, pixel kernels** (`shared/realesrgan-readback.ts`, `-tensor.ts`,
  `-pixels.js`, `-compose-kernels.js`, `native/wasm-pixels`): pure functions over arrays. Hard: row
  padding, planes against interleaved bytes, batches of shifted tiles. Correct when every pixel comes
  out where it went in. *`FrameLayout`, without pixel values; the buffer pool is not modelled.*

### The renderer and the enhancer

* **Renderer** (`core/renderer.ts`). State: the frame callback, the rebuild lock, the chain of
  state updates, the device and its generation. Hard: frames, resizes, configurations, losses
  and `destroy()` overlap at every await. Correct when nobody encodes on what is being
  replaced, a lost device is replaced or reported, and updates end. *`RenderLoop`.*
* **Video enhancer** (`core/video-enhancer.ts`, `enhancer-lifecycle.ts`, `backend-state.ts`,
  `native-switch.ts`, `native-session-client.ts`, `enhancer-native-observer.ts`). One per video: a
  backend phase and a transition revision that every await rechecks; a ledger of pending
  fallback requests. Hard: a start that an explicit stop, protected playback, a device error or
  a settings change overtakes. *`Enhancer`; its conversation with the background, for two
  videos, in `NativeSession`.*
* **Fullscreen automation** (`core/enhancer-fullscreen-reconciler.ts`) and **video management**
  (`core/video-manager.ts`): debounced starts and stops, enhancers stashed across element
  swaps. *In `Enhancer`; DOM walking is not modelled.*
* **Page isolation, input bridge, overlay**: DOM work on behalf of a session. *Isolation
  marks and titles are modelled; the rest is not.*

### The extension's background and the native hosts

* **Session manager** (`background/native-session.ts`, `router.ts`, `background.ts`,
  `session-store.ts`, `native-bridge.ts`). State: the serializer's queue, the session record
  in memory and in storage, the enhancement claim in storage, the port to the host.
  Operations: claim, release, start, stop, event routing, recovery, tab and window events,
  settings. Hard: long async transitions, each of which the browser may cut by killing the
  worker; events that outlive their session; several tabs. Correct when there is one session
  at most, every stop meets the session it means, a capture is always reachable from the
  record, and the pages are restored. *`NativeSession`.*
* **Site access** (`background/iframe-site-access.ts`, `site-access.ts`,
  `site-access-registration.ts`, the grant, options and popup pages). State: the browser's
  permissions, the registered scripts, prompts and their cooldowns. Hard: several sources of
  change, three calls that may fail in between, a worker that dies. Correct when the scripts
  follow the grants and prompts do not pile up. *`SiteAccess`.*
* **Native messaging client** (`native/client.ts`): requests by id with timers over one port.
  *Its outcomes are modelled.*
* **Windows host and renderer** (`native/src/host`, `native/src/renderer`): starts, captures,
  stops, reports. *Modelled as: which session is captured, and what it answers.*
* **Linux Vulkan host** (`native/linux-host`). State: a main thread on stdin, an HTTP thread with
  one connection, a mutex, the GPU instance and its weights, an idle clock. Hard: peers that
  trickle or stop reading, shutdown while a frame is computed. Correct when the GPU is only
  taken down when nobody can use it and nothing holds the process for ever. *`LinuxHost`.*
* **Settings and migration, user interface, generated shaders, scripts, benches, website**: not
  modelled.

## FramePipeline

An action is one run-to-completion section of JavaScript. `Pass`, `AfterSubmit`,
`WorkDone` (the settling of `onSubmittedWorkDone`) and `Destroy` are the renderer's
side; `DrainStart`, `MapDone`/`MapFail`, `InferOk`/`InferBad`/`RunnerFail`, `Buried` and
`Complete` are one frame's drain from `frameJobs.submit` to the `finally` of the job.
`LateMap` is the browser granting a map request that nobody awaits any more.

| State | Code |
| --- | --- |
| `busy`, `cursor`, `pending` | `RealEsrganStagingSlots` |
| `queue` | unsettled `onSubmittedWorkDone()` promises |
| `buf` | per slot, the WebGPU map state of its buffer and the frame its bytes show |
| `sched` | `RealEsrganFrameScheduler`: in-flight set, newest frame seen, skip count |
| `stage`, `slotOf`, `input` | the local state of each running `drain()` |
| `watermark`, `canvas`, `landed` | `presentedFrame`, the output texture, `firstResultLanded` |
| `runner`, `timeouts` | the attached runner and its guard |
| `still`, `cropSkips`, `errors`, `fatal`, `dropped`, `staleSkips` | counters of the same names |

Pixels are abstracted to the number of the frame they were copied from and to a
content value, which is what the still-frame hash tells apart; the crop decision is a
free choice per drain. Counters that only ever meet a threshold saturate at it.
`canvas.frame` is 0 while the texture holds a primed image.

**What the run shows** (`FramePipeline.cfg`): `SlotOwnership`, `SkipsCountOnce`, the
refinement `PresentsInOrder` of `FramePresentation` and, under fairness, `SlotsReturn`. The
invariant `InFlightExact` is proved for every instance, so no run repeats it.

**Bounds.** Two slots, native depth two, three frames, one content. Two slots and three
frames make every case happen: no free slot, a slot reused while an older drain runs,
a busy refusal, results out of order, a stale skip (`StaleBehind = 0`, six in the code).
The thresholds (three timeouts, four failures, three equal frames) are two here: with
three frames they are then reached, crossed and reset. One content value makes every
frame a repeat of the last, so holds occur; two contents matter only to the refuted
`HeldIsShown`. The renderer may drop a frame after `pass()` (`Drops = TRUE`).

**Fairness.** The renderer runs `afterSubmit()` on every frame path
(`runAfterSubmit` in `core/renderer.ts`), the browser settles promises, a map request
races an 8 s timer and runners and sessions have timeouts of their own: weak fairness of
these steps. Nothing bounds the fallback warmup that a dying runner's drain awaits
(`runner-guard.ts:76`), so `Buried` gets none, and `SlotsReturn` excepts that drain.

The model stops when `MaxFrame` frames have come and gone, so deadlock is not checked.

## WorkerRunner

An action is one run-to-completion section of the page's thread. All pipelines share the
broker's two cached promises; a promise is the number of the attempt it stands for, 0 for null.

| State | Code |
| --- | --- |
| `nativeP`, `missAt`, `workerP` | `nativePromise`, `nativeMissAt`, `workerPromise` of the broker |
| `nativeOut`, `workerOut` | what became of each handshake and each spawn |
| `build`, `wait` | a pipeline's way through `resolveRunner()` and the promise it awaits |
| `runner`, `timeouts`, `destroyed` | the pipeline's binding, its guard's counter |
| `call`, `victim` | the guarded call: waiting, in `markRunnerDead` at the native or the worker await, warming |
| `queue`, `pend`, `active` | `requestQueue`, `pending`, `activeRequests` of each worker client |
| `req`, `host`, `mail` | a request's promise, the worker it was made to, what that worker's thread did with it |
| `buried`, `seen` | history, for `BuriedNotServed` only |

| Actions | Code |
| --- | --- |
| `StartBuild`, `BuildNative`, `BuildWorker`, `NativeAnswer`, `WorkerAnswer`, `CooldownPasses` | `resolveRunner`, `getNativeRunner`, `getWorkerRunner`, the loader and the oversize guard |
| `Ask`, `HandleMessage`, `InferTimeout`, `WorkerError`, the first three through `Pump` | `runFrame`, `handleMessage`, the request timer, `failAll`, `pumpRequests` |
| `Return`, `NativeCall`, by `Judge` and `RunnerDead` | `RealEsrganRunnerGuard.guard`, the pipeline's `onRunnerDead` |
| `BuryNative`, `BuryWorker`, `Warmed` | `markRunnerDead` after each of its awaits, the end of the warming |

Decisions worth knowing:

* `pumpRequests()` calls itself; `Pump` is its whole effect: a prefix of the queue is taken until
  the slots are full, and any of the posts may throw.
* The worker's thread is external: it may answer a posted request at any time, after the client has
  given up on it too, or never. So is the native runner, whose calls are one step.
* A pipeline has one guarded call at a time. With the native depth of two a second call may fail
  during the verdict of the first; it finds no runner left and buries nothing.
* The frame itself, the composition path label, the storage overrides of the end-to-end tests and a
  native handshake that rejects instead of missing are left out. A worker client is disposed only
  when its init failed, before it has requests.

**What the run shows** (`WorkerRunner.cfg`): `RequestsHeld` and `NoIdleSlot` of the client,
`BuriedNotServed` of the broker and, under fairness, `CallsReturn`.

**Bounds.** Two pipelines, so that one runner is shared, verdicts overlap and one request queues
behind the other; two handshakes and two spawns, so that a buried or failed attempt is replaced;
two requests and a budget of two transient failures (three in the code), so that one pipeline can
be forgiven once and then spend its budget, while a reply or a timeout of one request meets the
pump of the other. The proofs need none of these bounds.

**Fairness.** The handshake, the spawn and every posted request are raced by timers of the page,
and promise reactions run: weak fairness of `NativeAnswer`, `WorkerAnswer`, `InferTimeout`,
`Return`, `BuryNative` and `BuryWorker`. None of the worker's answers, of native calls or of the
warming: `CallsReturn` promises that a call comes back or reaches the warming, not that it leaves it.

A behaviour ends when its attempts and requests are used up, so deadlock is not checked.

## NativeSession

An action is the code between two awaits of a task of the background's serializer, or one
event elsewhere. `queue` is the serializer (its running task first), `pc` the place in the
running task, `stopping` the arguments of the `stopNativeSession` call it is in. The durable
state is `session` and `claim`; `loaded`, `client` and `routing` die with the worker.

| Actions | Code |
| --- | --- |
| `TakeClaim`, `ForceStop`, `ForceAnswered`, `Claimed`, `TakeRelease` | `doClaimEnhancement`, `releaseEnhancement`, `ANIME4K_FORCE_STOP` |
| `TakeStart`, `Consent`, `StartSession`, `Prepare`, `SetTitle`, `Measure`, `Connect`, `HostStart`, `Started`, `StartLost`, `StartReply` | `doStartNativeFallback` and what it calls |
| `Updating`, `TakeControl`, by `UpdateNative`, `Heartbeat` and `PushSettings` | new settings for a running session, from its page or the options page, and the page's playback heartbeats |
| `TakeStop`, `TakeScopedStop`, `TakeDisable`, `Stop`, `NotifyHost`, `RestoreFrame`, `RestoreTitle`, `Drop`, `Unclaim`, `Finish` | `NATIVE_STOP`, host and tab events, `SETTINGS_UPDATED`, `stopNativeSession` |
| `Crash`, `Startup`, `TakeRecover`, `Reattach` | worker death, `recoverPersistedSession` |
| `HostFault`, `HostExit`, `RouteStop` | the host, `routeNativeEvent`, `exitNativeFullscreen` |
| `Begin`, `GotClaim`, `Ask`, `Admit`, `StopEnhancement`, `GotReply`, `GotNote`, `UpdateNative`, `GotUpdate` | the enhancer, its request ledger and its observer |
| `Leave`, `Reroute` | the tab goes to another document or is closed; its address changes within the document; with the listeners' tasks |
| `Disable`, `SettingsUpdated`, `ClearActive` | switching the extension off |

Decisions worth knowing:

* A session is named by the request it was started for (the code draws a random id and nonce).
* Every video is in a tab of its own; those in `Framed` live in an iframe, so that the isolation
  mark and the title nonce are set by two messages.
* The worker may die before any action. Its host dies with the port. The stored record,
  the claim, the pages and messages under way to pages survive.
* Replies and events on their way to a page are unordered with each other; messages to the
  worker join the queue in the order they are sent, except a fallback request, which first
  awaits a storage read (`Admit`).
* Clearing the claim after the extension was disabled runs outside the serializer, as in the
  router (`ClearActive`).
* An enhancer that passes new settings on is in the phase "updating" until they are answered: it
  follows its session, but its backend is not native, so a stop meanwhile releases the claim and
  sends no `NATIVE_STOP`. `forsaken` collects the sessions an enhancer let go of like this, or by
  asking for another one meanwhile (the refuted `StopsOwnedSession` below).
* The listener for a changed address does not tell a same-document navigation from another
  (`Reroute`): it clears the claim and stops the session, but the page and its enhancer stay. Only
  the session in memory is stopped: a start under way in that tab ends active without its claim.
* A page that left does not come back, and the extension is not switched on again.

**What the run shows** (`NativeSession.cfg`): whatever the host captures is on record
(`CaptureOnRecord`); when nothing is under way a session on record is active and followed by an
enhancer that can still stop it, unless that has forsaken it (`SessionOwned`), pages are restored (`PagesRestored`) and a disabled
extension has no session (`DisabledEnds`); the whole refines `SessionLifecycle`
(`SessionsInOrder`); and a stop that has begun finishes, through worker deaths (`StopsFinish`).

**Bounds.** Two videos are needed to compete for the claim, one of them in an iframe; two
requests for a session to be superseded or replaced; a queue of three for tasks to wait behind
the running one. `MaxEvents` bounds the events from outside (user starts and stops, tabs that
leave, switching off, host faults, worker deaths) to three together: enough for one video to take
over from another and a fault in the middle. That is 1.6 million states.

**Fairness.** Weak fairness of `Take` and `Continue`: the serializer runs its tasks, storage and
tab calls are answered, requests to the host have timers. No fairness of `Consent` (a modal
prompt), of `ForceAnswered` (see the finding) or of anything the user, the tabs and the host do.

A finished behaviour stops, so deadlock is not checked by TLC; the one real deadlock found is
stated as the invariant `NoTaskWaitsForAnother`.

## NativeTransport

In the page an action is one run-to-completion section; those marked "task" start only when the
microtask queue `micro` is empty, and microtasks run in their order. That order is the point: a
woken waiter competes with whoever calls next.

| Actions | Code |
| --- | --- |
| `Run`, `Recheck`, `Post`, `Serve`, `Fail`, `Refuse`, `Reject` | `runFrame`, `runFrameRgba`, `withSlot`, `claimUploadBuffer`, `runFrameInner` |
| `Create`, `Dispose`, `QueryReplied`, `QueryLost` | `create`, `dispose`, `queryBackgroundEndpoint` |
| `Get`, `GetElsewhere`, `ShakeReady`, `ShakeFailed`, `InfoExpires`, `PortGone` | `RealEsrganHttpInfoBroker` |
| `HostExits` | the host process (external) |

**What the run shows.** `SlotsExact`: the counter is exactly the calls that hold a slot. `BodyIsOwn`:
no POST carries another frame's bytes, although buffers rotate while requests end out of order.
`OneHost`: one host process at most, and the cached endpoint is that of the port the broker keeps.
`CallsSettle`: every call settles, through failures, stale endpoints and disposal.

**Bounds.** Five frames, two slots and two buffers (eight of each in the code) let two frames be in
flight, two wait and one arrive at the wrong moment; one of the five is planar and too large. Two
hosts: one dies and is replaced. `Large` lies in `Planar` because the one caller of `runFrameRgba`
refuses oversize frames first (`realesrgan-pipeline.ts:569`); `BodyIsOwn` rests on that check: a
rejected oversize frame would advance the buffers without holding its slot.

**Fairness.** Microtasks run; a POST ends by its 6 s abort or body guard; a query ends by its 10 s
timeout. None of the host or of the broker's answers.

## InferenceWorker

An action is a section of the worker's thread. A message goes through `create`, `run`, `compose`,
`load` and `blend`; the model URL is that of one pipeline, so that a cache key is the batch size.

| Actions | Code |
| --- | --- |
| `Start`, `Refuse` | `handleInfer`, `getSession` |
| `Created`, `CreateFails`, `CreateTimeout`, `LateCreate`, `Idle` | `getSession` with its timer, and what arrives after it |
| `Run`, `RunFails` by `Cascade`, `Downgrade`, `Rebuilds` | `runBatchedTiles`, `runSequentialTiles`, the fp16 and shape fallbacks |
| `Compose`, `Blend`, `PixelsLoaded`, `Cooled` | `composeFrameOutput`, `loadPixelsModule`, `disablePixelsModule` |

**What the run shows.** `InfersAnswered`: every frame taken is answered, whatever creates and runs do.
`LabelTellsServer`: for the frames of one run the precision a reply names is that of the session
whose output the frame is. For frames of several tiles it is not, see below.

**Bounds.** Two overlapping messages of two tiles, one cached session (sixteen) so that entries are
evicted, one late create, two strikes of batching (three).

**Fairness.** Creates and runs are under a timer; the download of a finished run and the fetch of
the pixel module are assumed to end.

## FrameContent

A frame is the bounding box of its bright pixels, the only thing the detectors and the check of a
crop read of it. `Capture`, `Decide`, `RunnerResult`, `SessionResult` and `Leave` are the drain of
`FramePipeline` seen from its data; the algorithms (`Observe`, `SnapCropToTargetGrid`,
`TileAxis`, `CropPaste`, ...) are operators named as in the code. `painted` lists the areas of the
output texture that are not black, with who drew them.

**What the run shows.** `CropKeepsContent`: what is inferred holds the whole bright content of its
frame. `ResultsLand`: a result lies on the texture, and on whole output pixels where the target
grid can be met. `TilesBlend`: tiles lie inside the frame, are of one size, hold every pixel and
overlap, and whichever engine infers them every pixel comes out where it
belongs. `BarsForgotten`: what the writer drew of a full frame or of another crop does not stay visible
beside a crop. What may stay is a frame of the GPU composer, and the edge of a larger result of the same
crop: see below.

A result of the main thread is four times its crop, whatever the texture was made for. Where it is a
pixel or two larger, the shift back inside gives it a negative origin and the write throws, before the
bars are filled and after the count of skips was reset (third disjunct of `PresentCroppedResult`,
`PastesFit` below). The target of width 23 makes that happen.

`RunnerLost` fails nothing but the call it is about, as `guard` does: what other calls return is
presented still (`by` of a flight says who infers it). A frame that waited for its readback may so be
served by the session and be followed by a late result of the runner for the same crop. That result is
smaller, and the key of the bars is the same, so that nothing is filled and a row of the session's
result stays visible beside it until another crop or a full frame comes: the last disjunct of `BarsForgotten`, which
allows it of the session's result of this very crop and only once the runner is gone.

**Bounds.** A frame of 6 x 6 pixels with tiles of 4 and 3 and an overlap of 1: sizes that do not
divide each other, so that the last tile is shifted. Content edges at two places per axis, which is
enough for a rectangle to appear, shrink, shift and vanish; transport targets of width 9 and 23 (no
multiples, the second a pixel less than the full fourfold size) or none; two frames in flight; detection on every second frame (`Interval`). The two
thresholds of the writer and the confirmations of the tracker have their real values.

Beside the rectangles, `TilesBlend` follows the pixels. `FrameLayout` defines the arrays of the code
as functions from their indices: the padded rows of a readback, the planar tensor, a tile cut from it,
a batch of tiles, the weighted composition and the shrunk transport image. A pixel keeps its name
instead of a value, so that the invariant can say that each one comes out where it went in, whatever
way through these layouts the code picks. `RowAlign` is 16 here (256 in the code), so that rows of six
pixels are padded. There are 783 256 states in all.

## AutoCap

Time is counted in windows of statistics. The policy is a record; its steps wait in the queue of the
enhancer's lifecycle, a configuration waits in the chain of the renderer (`jobs`), and the late
refresh of the target size enters that chain past the queue.

| Actions | Code |
| --- | --- |
| `Sample` by `Overloaded`, `Strained`, `Relaxed` | `handleStats`, `feedAutoCap`, `RealEsrganAutoCap.onStats` |
| `UpdateSettings`, `ApplyCapSettings`, `SettingsFailed` | `updateSettings`, `applySettings`, `restoreSettings` |
| `ApplyAutoCapStep`, `RefreshAutoTarget`, `Configured` | `applyAutoCapStep`, `refreshAutoTarget`, `applyConfiguration` |
| `Released`, `Started` | `releaseWebGPUResources`, `initRenderer` |

**What the run shows.** `PolicyTellsLive`: between operations the renderer infers with the cap the
policy believes in, except after a late refresh or a failed settings change (see below). `NoFlap`:
one step per cooldown, and upwards only after an unbroken window of headroom.

**Bounds.** User caps 480 and 405, so that the user's choice lies below the top of the ladder once;
a cooldown of three windows, so that a step is really held back; two settings changes and one
refresh. The cooldown belongs to a policy: changing the mode or releasing the renderer drops the
policy with its clock, and the next one may step at once.

## RenderLoop

Two activities process frames: `loop` is `drainFrames` started by a callback, `chain` a frame
awaited by the state update that runs. `chain` is `stateUpdateChain`; `rebuilding` the flag that
holds frames back; `gen` and `recovered` the device generations.

| Actions | Code |
| --- | --- |
| `VideoFrame`, `CopyDone`, `RebuildStarts`, `RebuildEnds`, `FrameDue` | `handleVideoFrame`, `processFrame`, `rebuildForSourceResize` |
| `Update`, `Begins`, `TakesLock`, `HasFrames`, `QueueIdle`, `Built` | `updateConfiguration`, `updateVideoSource`, `applyConfiguration`, `applyVideoSource` |
| `LosesDevice`, `LostEvent`, `ContextReported`, `DeviceComes`, `Recovers` | `device.lost`, `recoverDevice`, `createDevice` |
| `Destroy`, `Release`, `Resizes` | `destroy`, `releaseResources`, a new size or depth of the source |

**What the run shows.** `OneBuilder`: frame rebuilds and state updates never build at the same time.
`FrameFitsPipelines`: a frame under way is encoded on pipelines that read the texture it was copied
to. Both except what follows a 5 s wait that gave up (`late`), as the code does. `LossRecovered`: a
lost device is replaced or the loss reported. `UpdatesSettle`: no update waits for ever.

**Bounds.** One update, two losses (one during the recovery of the other), one of them also reported by
a pipeline, one resize, a chain of two.

**Fairness.** Bitmaps, adapters and compilations settle, waits are bounded by timers, the reaction to
a lost device is delivered. Strong fairness of `DrainEnds`: a drain that a state update awaits comes
to an end, that is, not every frame takes longer than the next one needs to arrive. Without it a
sustained overload keeps `applyConfiguration` waiting, which is a hazard of its own.

## Enhancer

The page is one record which the helpers take and give back, as the methods of the class act on its
fields. A revision or token counter is only ever compared with its latest value, so that each
operation keeps one flag for "mine is the latest". `Tasks` are the running operations: the job of the
lifecycle queue and operations outside it (`Sides`: a stop, a signal).

| Actions | Code |
| --- | --- |
| `Activity`, `ReapplySettings`, `OverloadStep`, `TimerFires`, `RunJob` | events, `updateSettings`, the debounced reconciler, the serializer |
| `Claimed`, `SlotFree`, `Created`, `Aligned`, `FallbackAnswered`, `Absorbed` | `startEnhancement`, `initRenderer`, `requestNativeFallback` |
| `Stopped`, `UpdateAnswered`, `SwitchStopped`, `Reconfigured`, `SettingsLoaded` | the awaits of stop, update, switch and reconcile |
| `ForceStop`, `BfcacheRestore`, `Encrypted`, `RendererError`, `Watchdog`, `RefreshTarget` | what comes from outside the queue |
| `VideoRemoved`, `Reattach`, `SourceSwitched`, `Destroy`, `Constructed` | `detach`, `reattach`, `destroy` |
| `Serve`, `SessionEnded`, `HostEnds` | the background and the host (`NativeSession`) |

**What the run shows.** `PhaseTellsResources`: when nothing is under way the phase tells what the
enhancer holds. `RenderersAccounted`: every renderer not destroyed is the enhancer's or still in the
hands of the start that made it. `StopsHold`: after an explicit stop nothing starts until something
new asks for it, not even a reconcile that was reading the settings.

**Bounds.** Four stimuli (events of the page, the user and the host) in any order and at any await,
two sessions, five settings (off, automatic, manual, WebGPU, native).

## SiteAccess

Grants are the browser's; each change is announced to the worker by an event. `chain` is the queue of
`updateSiteAccess`, whose running member reads the registered scripts, unregisters and registers in
three calls, each of which may fail. The worker may be stopped at any time and synchronizes when it
wakes.

| Actions | Code |
| --- | --- |
| `SyncStarts`, `SyncLists`, `SyncUnregisters`, `SyncRegisters`, `SyncFails` | `SiteAccessRegistration.synchronize` |
| `Report`, `Decide`, `PromptDenied`, `PromptGranted` | `IframeSiteAccessManager.handle`, `complete`, `clearPending` |
| `AskSite`, `AskPlayer`, `AskUndo`, `PageGranted`, `PageDenied`, `RevokeSite`, `RevokeListed` | popup, grant page, options page |
| `PermissionEvent`, `RevokedOutside`, `Stop`, `Wake` | the browser |

**What the run shows.** `RegistrationFollows`: once the worker has worked off what it was asked for,
the scripts are registered for exactly the granted origins, unless the last synchronization failed.
`ChangesApplied`: a page that is told its change was applied finds it applied. `OneDoorhanger`: no
second prompt for a player before the first counts as forgotten. All three are proved.

**Bounds.** A site and a player, two documents (interchangeable), one extension page, one failing call,
one death of the worker, one revocation from outside, a queue of two, four ticks with a cooldown of
one and a stale limit of two, so that a prompt outlives both.

## LinuxHost

Two threads and the peers at their ends. Time is counted in ticks: the idle clock counts up, a
deadline counts down. A message arrives in pieces, so that a peer can trickle.

| Actions | Code |
| --- | --- |
| `InitDevice`, `LoadModels`, `WarmFrame`, `WarmupSkipped`, `StartHttp` | `main`, `GpuRuntime`, `UpscaleCore::warmup` |
| `LoopCheck`, `PollReady`, `PollTimedOut`, `ReadPiece`, `ReadTimedOut`, `ReadOversize`, `ReadMessage`, `MainRecords`, `MainSubmits`, `BrowserGone` | the loop of `main`, `read_framed` |
| `Accept`, `RequestLine`, `HeaderLine`, `HeadersEnd`, `BodyPiece`, `BodyDone`, `HttpRecords`, `HttpSubmits`, `ReplyEnds`, `ConnEnds`, ... | `accept_loop`, `handle_conn`, `ConnBuf`, `write_response` |
| `StopListening`, `Hangup`, `Join`, `ShutDown` | `HttpTransport::stop`, `GpuRuntime::shutdown` |
| `PeerChanges`, `Tick` | the page, the clock (external) |

A frame under the mutex records its commands first and submits them next, so that the latch of the
weights (`weights.latched`) and the copy it stands for can come apart.

**What the run shows.** `GpuOwned`: nobody works on the GPU, or can still come to it, when it is taken
down, and never both threads at once. `StopFinishes`: stopping ends whatever the connected page does.
`ReadersLetGo`: no page keeps the HTTP thread reading one request for ever. `ForgottenHostExits`: a host
nobody uses exits, even with a message half sent or a page connected.

**Bounds.** Three ticks of idle budget against two of a request's, so that each can end first; lines,
bodies and messages in two pieces. There is no bound on connections, requests or frames.

**Fairness.** Threads run, a mutex that is released again and again is obtained (strong fairness of
`MainRecords` and `HttpRecords`), time passes. Nobody outside owes the host anything.

## What the code does not keep

`NoTaskWaitsForAnother` is a run and a finding with the quoted line: a claim awaits the forced stop of
another page, which awaits a `NATIVE_STOP` queued behind that claim.

The properties below are defined in their modules, stated as a comment or document of the repository
does, and refuted by TLC when named in the module's cfg. They are not runs, to keep one run per module.

| Module, property | What happens | What says otherwise |
| --- | --- | --- |
| `FramePipeline`, `FreeSlotUnmapped` | a slot is freed by the map timeout while its map request is outstanding; granted later, nothing unmaps it | `realesrgan-drain-processor.ts:459-462` |
| `FramePipeline`, `HeldIsShown` | a still picture whose inferences failed is held without ever having been presented (two contents) | `realesrgan-drain-processor.ts:280-281` |
| `FramePipeline`, `InfersOwnFrame` | a frame dropped by the renderer is drained from an older frame's bytes | `realesrgan-pipeline.ts:731-735` |
| `FramePipeline`, `CropSkipsEscalate` | a skipped crop counts as a landed result, which disarms the failover it should trigger | `realesrgan-output-writer.ts:78-80` |
| `FramePipeline`, `SessionSingleFlight` | drains admitted at the native depth run the shared session concurrently after the runner died | `realesrgan-pipeline.ts:870-873` |
| `NativeSession`, `EndedEventsCount` | a session ends before its start reply reaches the page: the event is dropped, the enhancer follows a dead session | `enhancer-native-observer.ts:89-92` |
| `NativeSession`, `PagesAlwaysRestored` | worker death between isolating an iframe and naming the tab: recovery leaves the page isolated | `src/README.md:205-206` |
| `NativeTransport`, `PostsDoNotAlias` | buffers advance by claim while requests end out of order: a frame may rewrite the buffer of a POST still in flight (harmless, `fetch` has copied the bytes) | `realesrgan-native-vulkan-client.ts:276-280` |
| `InferenceWorker`, `TrapIsSticky` | a load begun before the trap restores the pixel module after it | `realesrgan-inference-worker.js:845-850` |
| `InferenceWorker`, `EveryLabelTellsServer` | tiles before a rebuild are of one precision, those after it of another; the reply names the last | `realesrgan-inference-worker.js:1027-1031` |
| `FrameContent`, `BarsStayBlack` | a frame of the GPU composer does not reset the key of the bars: the next crop of the old key leaves it visible beside | `realesrgan-output-writer.ts:203-206` |
| `FrameContent`, `PastesFit` | after the runner died, a main-thread result one or two pixels larger than the texture is shifted to a negative origin, where the write throws instead of being skipped | `realesrgan-frame-decision.ts:152-154` |
| `Enhancer`, `StopsOwnedSession` | a stop or `destroy()` while a configuration update of the native session is in flight reads the phase "starting" and never stops the session | `video-enhancer.ts:818-822` |
| `LinuxHost`, `ServedWithWeights` | a frame that fails after recording the upload of the weights is not submitted, and the latch stays set | `srvgg-vulkan.h:62-66` |
| `LinuxHost`, `WedgedPageLetsGo` | `send_all` has no deadline: a page that stops reading keeps the HTTP thread | `http-transport.cpp:31-32` |

Smaller observations, made while modelling and visible as exceptions in the properties:

* `RenderLoop`: a context loss reported after `deviceGeneration` was raised rebuilds a healthy device;
  a paused video is not presented again after a recovery.
* `InferenceWorker`: two overlapping messages can cache an fp16 session again after fp16 was disabled.
* `Enhancer`: the applied marker can be set without a live backend when a session ends while
  `switchToNative` waits for the slot; an encrypted-media signal during the switch from native to
  WebGPU is dropped; a stashed enhancer misses settings changes; `refreshAutoTarget` and
  `initRenderer` use the cap of the settings and so revert an automatic step.
* `AutoCap`: that refresh leaves the policy believing in its override (at 360 it cannot step again);
  after a failed settings change a step "down" may raise the live cap above the user's choice.
* `SiteAccess`: a failing register after a successful unregister leaves granted sites without scripts until
  the next synchronization; pages that load between the two calls get none.
* `LinuxHost`: one keep-alive connection occupies the only accept thread; a message that trickles in on
  stdin ends the host although HTTP frames are being served; a frame that fails is no activity; a
  failed `load_models` returns without taking the instance down.

## What is proved

`FramePipelineProofs` proves, for every value of the constants that satisfies
`PipelineAssumption` (any number of slots, frames, contents, any thresholds and depths, with
and without dropped frames):

* `TypeCorrect`: `Spec => []TypeOK`
* `SlotsOwned`: `Spec => []SlotOwnership`
* `InFlightCorrect`: `Spec => []InFlightExact`
* `Refinement`: `Spec => PresentsInOrder`, the pipeline implements `FramePresentation`
* `SkipsCorrect`: `Spec => []SkipsCountOnce`

None of these invariants is inductive alone. The inductive invariant `IInv` joins them with three
facts. `JobsHold` says which stages own a slot, so that the slot a drain releases is its own.
`FreshFrames` says that a frame waits in one place at most before its job starts (in `pending` or
once in `queue`), and that neither such a frame nor one above the frame counter has a job yet:
without it one frame could get two jobs and two slots. `ShownInv` says that the canvas holds a
frame only once a result landed, and until `destroy` never a frame above the watermark; from it
and the guard `f > watermark` the step `Show` of the abstract specification follows. One lemma per
action proves that it preserves the types, one lemma per remaining conjunct and disturbing action
proves the rest, and `IInvStep` joins them; each temporal theorem is then one invariance step.
The proof assumes nothing about the runner, the GPU or the renderer beyond the actions of the
model.

A frame comes to nothing in one of two places: before its job starts, where the scheduler counts the
gap up to the newest frame seen, or when its drain ends. `CountInv` keeps the two apart until
`destroy`: what the drain dropped or found stale, and the frame on the canvas, are no more than the
jobs that ended; what the scheduler skipped and the jobs that started are no more than the frames up
to the newest one seen. Since every job that ended started, `SkipsCountOnce` is their sum. The
lemmas are about cardinalities: a step moves one frame from one of these sets to the next.

`WorkerRunnerProofs` proves, for every value of the constants that satisfies `RunnerAssumption`
(any number of pipelines, attempts and requests, any limit and any budget):

* `TypeCorrect`: `Spec => []TypeOK`
* `RequestsAreHeld`: `Spec => []RequestsHeld`
* `SlotsNeverIdle`: `Spec => []NoIdleSlot`
* `BuriedStaysBuried`: `Spec => []BuriedNotServed`
* `LabelsCorrect`: `InferSpec => []LabelTellsServer`, about `InferenceWorker`, the thread behind the
  runner; it assumes nothing of the thread's constants

The inductive invariant has two halves that need each other only for types. `ClientInv` adds to
`RequestsHeld` and `NoIdleSlot` that ids are given out in order, so that a new request goes to the
end of an increasing queue. Its heart is the lemma `PumpKeeps`: a pump that starts with the
client's books in order, for whatever slot count and pending map its caller left it, ends with them
in order and with the slots full or the queue empty; it rests on counting the requests of an
increasing queue by their places (`PlacesAreRequests`) and on what is left of such a queue
(`RestOfQueue`). `BrokerInv` is about runners. `CacheSound` says that no cached promise is that of a
buried runner; since an attempt is never repeated, none becomes one again (`MadeStays`).
`BurialSound` says of each pipeline that the runner it holds or the promise it awaits was not buried
when its build began, and of each verdict under way that if its victim is still cached, it is the
promise being awaited: therefore the victim is out of the cache when the verdict ends, whatever
other verdicts, handshakes and spawns came in between.

`LabelInv` is about one message at a time: a frame of one run has no output before its run, runs on the
session its label names, and is made of that session's output from then on. Nothing is needed about the
cache, since a message takes url and session together, whatever was evicted, purged or rebuilt before.

`NativeTransportProofs` proves, for any number of frames, slots, buffers and host processes:

* `SlotsCorrect`: `Spec => []SlotsExact`
* `WaitersCorrect`: `Spec => []NoStrandedWaiter`: while calls are parked, no more slots are free
  than woken calls are on their way to them
* `OneHostCorrect`: `Spec => []OneHost`
* `BodiesCorrect`: `Spec => []BodyIsOwn`

`SlotInv` adds that the waiters are parked calls, each in line once (`Lined`), so that the call a
release wakes is neither its own nor one that holds a slot; the rest is counting with
`HolderEnters` and `HolderLeaves`. `WaitInv` adds that a disposed client has no waiters.
`HostInv` says that a handshake runs over a new port while the broker keeps none, or over the port
it keeps, that every running process is at one of these ports, and that a port whose disconnect is
under way has no process: a late disconnect then finds nothing it could orphan.

The upload buffers rotate, so whether a call finds its own frame in its buffer depends on how far the
rotation may run before it posts. `BufferInv` follows the rotation: a call that has yet to post has its
buffer to itself, and every buffer claimed since (`Ring`) belongs to a call that is as far and still
holds its slot (`Covered`). If the rotation came round to the first call's buffer, these would be as
many calls as there are buffers, beside the one that claims: more than `MaxInFlight`. That is why the
theorem needs no fewer buffers than slots, which `TransportAssumption` states, and a buffer that is
claimed only by a call that holds a slot.

And, for the host at its other end (`LinuxHost`) with any budgets, any fragmentation of messages and any
page, from `LinuxHostAssumption`:

* `HostTypesCorrect`: `HostSpec => []HostTypeOK`
* `GpuCorrect`: `HostSpec => []GpuOwned`

`Owning` says that the mutex tells who records a frame; `Living`, that the models live from the end of
loading to the end of the shutdown and the HTTP thread until the join before it.

`RenderLoopProofs` proves, for any number of updates, losses, reports and resizes, and any chain:

* `OneBuilderCorrect`: `Spec => []OneBuilder`
* `FramesFit`: `Spec => []FrameFitsPipelines`
* `CallbackArmed`: `Spec => []LoopArmed`, an idle renderer that reported nothing has its callback armed
* `ReleaseCorrect`: `Spec => []ReleasedForGood`, nothing is acquired or built after `destroy()` released all

`RInv` is `Shape`, which is about types and the head of the chain, and what holds until a wait gives
up: `Alone` says what keeps the loop's frame and an operation apart, which is the rebuild flag, the
processing flag, or callbacks that are off and a queue without one of the new source. `Building` says
that whoever builds does so on the current texture, and that pipelines which do not fit are being
replaced by a builder that does not keep the old ones when it fails. `Alive` adds that only an operation
past its wait for idle keeps the callbacks off, `Still` that a released renderer has no lock held.
The last two hold of the run's instance as well; the run does not repeat them.

`EnhancerProofs` proves, for any cooldown, window of headroom and choices of the user:

* `NoFlapCorrect`: `Spec => NoFlap`
* `PolicyCorrect`: `Spec => []PolicyTellsLive`

and, for an enhancer with any sides, settings, sessions and stimuli:

* `StopsHeld`: `EnhancerSpec => []StopsHold`
* `RenderersCounted`: `EnhancerSpec => []RenderersAccounted`
* `PhaseCorrect`: `EnhancerSpec => []PhaseTellsResources`

For the first, the invariant `Measured` bounds the policy's clocks by the history they measure;
`Judged` states once, for all three verdicts, what a window may do to a policy. For the second,
`Agrees` says what holds in the middle of operations too: the cap the renderer ends up with, once the
waiting configurations are applied, is the policy's, or the step towards it waits in the queue.
`JobsInv` adds that the one operation that runs has asked for one configuration at most.

The enhancer's inductive invariant is `PageInv` (`PageSound`), with these parts:

* `Wants`: whatever runs, or may still bring something up, was wanted after the last explicit stop.
* `Counted`: the renderers alive are those in the hands of operations and the one the enhancer owns.
* `OneLatest`, `Spent`: one start at most is the latest; a destroyed enhancer has none and owns no renderer.
* `TaskSound`: what an operation has where it waits. It holds a renderer exactly while it aligns one,
  and reconfigures one that is there unless it is stale.
* An active native session excludes a renderer.

An action runs several methods in a row, with operations half done in between. `Runs(p, X)` is the
invariant while those in `X` run; each method is proved once to keep it (the lemmas named `...Runs`, on
those named `...Is`, which say what the method changes), and each action puts its methods together.

`PhaseCorrect` needs `PhaseInv`, which adds two things to it. `Phased` is what the phase tells at any
moment, not only at rest: WebGPU is active exactly with a renderer, there is a session while native
capture is active and only then or while something starts, and "starting" belongs to the one operation
whose revision is the latest; `Placed` says what that operation has where it waits. The hard case is a
switch from native capture to WebGPU: the end of the session it gave up arrives later, is not the end of
the present one, and yet resets the page. `Converses` is why that does no harm. An operation has one
request or one answer under way (`Talk`), sessions are numbered as they start and each ends once
(`Numbered`), and while a session that was given up still captures, or its end was not heard of
(`Danger`), the switch still waits for its stop, and whatever superseded it asked for native capture
behind that stop (`GivenUp`): the background tells the end of a session before it answers the stop. A
handler does one thing to the page (`Lands`, `Turns`, `Drifts`) and says at most one thing (`Said`), so
each action is proved once to land, and the conversation is proved once for all that do.

`SiteAccessProofs` proves, for any number of origins, players, documents and pages, and any queue:

* `TypeCorrect`: `Spec => []TypeInv`, which is `TypeOK` and that a stopped worker remembers nothing
* `RegistrationCorrect`: `Spec => []RegistrationFollows`
* `DoorhangerCorrect`: `Spec => []OneDoorhanger`
* `ChangesCorrect`: `Spec => ChangesApplied`

`Follows` says that a synchronization which nothing waits behind works with the grants as they are
now. `Tracked` says that a prompt that is not stale is the one that counts as open for its player.
`Waits` says that a page waits for one synchronization at most; `Promised`, that what a waiting page
was promised holds of the grants, and of the set its synchronization works with.

`FrameContentProofs` proves, for any sizes of frames, targets and tiles, any cuts of the content, any
interval of detection and any depth, from `FrameContentAssumption` alone:

* `TypeCorrect`: `Spec => []TypeOK`
* `CropCorrect`: `Spec => []CropKeepsContent`
* `LandingCorrect`: `Spec => []ResultsLand`
* `BarsCorrect`: `Spec => []BarsForgotten`
* `TilesCorrect`: `Spec => []TilesCover`, the part of `TilesBlend` that is about the plan of tiles

They share the inductive invariant `ContentInv` (`ContentSound`): `DimsSound` about the texture, which is
of the target's size or four times the frame; `Typed`, in which a frame that is inferred has a crop on the
grid that holds its content (`Flights`); and `BarsSound`, which makes `BarsForgotten` inductive: where the
writer believes the bars filled for a crop, all it has painted are results of that crop, each where its
engine's results of that crop land (`OfCrop`), and none of the session while a runner serves (nor is a
frame under way with the session then: `Flights`). The two places differ: `LandingGrows` says that the session's
result, which is as large or larger, covers what the runner's covered, and not the other way round.

`TilesCorrect` needs of it only that an inferred crop has an area. Along one axis (`AxisIsCovered`) the
positions step by less than a tile and the last is pulled back to the edge, so that every point lies in
a tile and a tile that ends before the edge has a successor that overlaps it; `GridCovers` joins two
axes. That an overlap is at least a pixel and less than a tile (`OverlapIs`) is what
`FrameContentAssumption` says of its bounds: the code has a sixteenth of a tile, at most 24 pixels.

That a result lands is arithmetic: `RoundSum` compares the sum of two rounded numbers with the rounded
sum, `AxisScaled` concludes that origin and length overshoot by no more than the shift takes back, and
`GridLine` that an edge on the grid is exact. `SnapSound` says that snapping grows a rectangle, keeps it
inside the frame and reaches the grid where it can be met; that the code's grid step divides the frame
rests on `GcdDivides`, which finds the greatest common divisor by well-foundedness of the naturals.

`NativeSessionProofs` proves, for any videos and requests, any number of events and any length of the
queue:

* `TypeCorrect`: `Spec => []TypeOK`
* `CaptureCorrect`: `Spec => []CaptureOnRecord`
* `Refinement`: `Spec => SessionsInOrder`, the manager implements `SessionLifecycle`
* `PagesCorrect`: `Spec => []PagesRestored`
* `DisabledCorrect`: `Spec => []DisabledEnds`
* `OwnedCorrect`: `Spec => []SessionOwned`

`IInv` carries the first three. A task is a chain of steps with awaits in between, during which
content scripts, events and crashes act; `Running` therefore says for each place such a chain can
stand at which task it belongs to and what is on record meanwhile. `StartsQueued` and `StartsDiffer`
say that a request is queued once and answered once, so that no session begins twice (`BegunAsked`);
`Recorded` that a session on record has begun and, once its start is through, is active.

`PagesInv` is about isolation: a page that is gone has no marks (`Gone`); the marks of a page are those of
the session on record, or of one whose restoration was given up (`MarkedOnly`); a stop has taken the
marks off by the time it reaches the steps behind (`Restoring`); and a stop that restores nothing
is one of a page that is gone or was given up (`StopsApart`).

`DisabledInv` says that while the extension is disabled and its last word has reached the background, the session
on record and every start in the queue have an ending behind them: a disabling, or a recovery, which
finds the extension disabled. `DisableOnce` says that no disabling is queued while the extension is
enabled or the word is still on its way, so that the one it brings is behind everything queued before.

`SessionOwned` says that when nothing is under way the session on record is the one its enhancer follows,
unless the enhancer has forsaken it. That is a matter of several actors: a page may stop, navigate, lose
the claim or give its request up while its start runs, and the answer may reach it late. The claim is no
part of it: a same-document navigation, or an event that ends an older session while a new one starts,
clears the claim of a session that goes on. `OwnInv` holds in the middle of all this:

* `Accounted`: a session on record is `Doomed` (an event to be routed, a queued task, the running stop
  or a late answer nobody wants any more will end it), or `Owned`, or its start still runs in a page that
  is present. `Notified`: a session whose end was told to its frame is doomed.
  An owned session is active, and its enhancer follows it, has its answer on the way, or has forsaken it.
* `Listening`: only an enhancer that claims or updates awaits an answer, and only one that asked for a
  session awaits the reply to a request that it has not given up.
* `Updates`: the update that an enhancer waits for is in the queue, so that in the end it is native again
  and a stop of its reaches the session.
* `Served`, `StartsOwn`, `Granted`: the session that a start reports is on record for the video that asked,
  when it is reported and while the reply is on its way.
* `Forced`: a video the claim is taken from has no session left once its page is forced to stop.
* `Remembered`: a worker that woke up with a session in storage recovers it before it does anything else.

The heart is `DoomedStep`: what will end a session is not lost before the session is gone. A stop with
the id of another session and a recovery that meets its own capture end nothing, so that each kind of
ending is followed to the step that carries it out. `DisabledCorrect` closes the case of a
disabled extension, in which no one need own anything.

Only model-checked: of `TilesBlend` the pixels' way through the layouts and the blending. The run tags
every channel of a small picture with a value of its own, of which a byte has 256: for pictures of any
size the formula would say something else than it means. Liveness is only model-checked too
(`SlotsReturn`, `CallsReturn`, `CallsSettle`, `InfersAnswered`, `LossRecovered`, `UpdatesSettle`, `StopsFinish`,
`StopFinishes`, `ReadersLetGo`, `ForgottenHostExits`), which the prover does not treat under
fairness, as it does not treat ENABLED or induction over recursive definitions.

## Not modelled, and why

* `NativeSession`: pointer and media commands, the restoration
  of windows of the old popup capture, pages that return from the back/forward cache, switching the
  extension on again. Of the enhancer it keeps what the background sees; the rest is in `Enhancer`.
* `Enhancer`: a second enhancer of the page, the 500 ms burst guard of encrypted-media events, WebGPU that
  is missing altogether, layout and overlay, `native.stop` that rejects.
* `RenderLoop`: `initialize()` (its result is the initial state), frame generation, statistics.
* `LinuxHost`: a disabled reaper, the traffic probe, the fp32 governor and the arithmetic of tiles.
* `SiteAccess`: the shape test by which a frame counts as a player, the report deduplication of a document.
* The relay threads, capture health and renderer process of the Windows host; ONNX sessions, coordinator and
  model assets; the buffer pool.
* Pixel arithmetic, shaders, layout, wording and statistics have no state the properties could be about.
  WebGPU, the browser's extension API, ncnn and ONNX Runtime are modelled only by what they answer.
* Whether a steady overload presents anything at all (`noteSkipped` on a full slot array refuses older frames
  still on the GPU, `core/realesrgan-pipeline.ts:676`) depends on arrival rates.

## Plan

Done: all modules of the table above and their proofs.

1. `HostRelay`: the Windows host's relay threads and renderer process, behind `HostStart`, `HostFault` and
   `NotifyHost` of `NativeSession`.
2. The compositions: `RenderLoop` with the interface of `FramePipeline`, discharging its assumption that
   `afterSubmit` follows every `pass`; `Enhancer` in place of the enhancers of `NativeSession`.
3. Sessions, coordinator and model assets: one build per shape, shared by pipelines.
4. Refinements: what `Enhancer` promises of its session (`PhaseCorrect`) as the interface the composition
   of point 2 needs.
