---------------------------- MODULE InferenceWorker ----------------------------
(***************************************************************************)
(* The browser lane's inference worker: it answers infer messages with the *)
(* frame its ONNX session upscales. Messages are not serialized: a request *)
(* posted after the client gave up on the one before it runs beside it, and*)
(* both share the session cache, the fp16 verdict, the batching verdict and*)
(* the pixel module.                                                       *)
(*                                                                         *)
(* Source: src/src/worker/realesrgan-inference-worker.js. onnxruntime, the *)
(* GPU and WebAssembly are external: a create, a run or a load succeeds or *)
(* fails in the ways the code tells apart. Model URL and tile geometry are *)
(* those of one pipeline, so a cache key is the batch size. An action is a *)
(* run-to-completion section of the worker's thread.                       *)
(***************************************************************************)
EXTENDS Integers, Sequences, FiniteSets, SequencesExt

CONSTANTS
  MaxInfer,   \* bound: infer messages per behaviour
  Single,     \* the messages whose frame is one tile
  Tiles,      \* the tiles of the others
  MaxCached,  \* MAX_CACHED_SESSIONS (16)
  MaxLate,    \* bound: given up creates that may still end; others hang
  Strikes     \* BATCHED_TIMEOUT_STRIKES (3)

ASSUME WorkerAssumption ==
  /\ MaxInfer \in Nat
  /\ Single \subseteq 1..MaxInfer
  /\ Tiles \in Nat /\ Tiles >= 2
  /\ MaxCached \in Nat \ {0}
  /\ MaxLate \in Nat
  /\ Strikes \in Nat \ {0}

Infer == 1..MaxInfer
Fp16  == "fp16"     \* modelUrlFp16
Fp32  == "fp32"     \* modelUrl
NoUrl == "none"
Url   == {Fp16, Fp32}
Key   == {"batch", "one"}
\* What the code tells apart in an error: the timeout code, a shader failure,
\* the shape-pinned output buffer, anything else.
Error == {"timeout", "shader", "pinned", "other"}

VARIABLES
  ort,         \* ort is loaded
  sessions,    \* sessions, the stalest first: [key, url, idle]
  late,        \* creates whose request stopped waiting: [key, url]
  fp16Off,     \* fp16Disabled
  batchOff,    \* batchedTilesDisabled
  streak,      \* batchedTimeoutStreak
  pixels,      \* pixelsModule is loaded
  loading,     \* pixelsLoadPromise is pending
  cooling,     \* Date.now() < pixelsNextRetryAt
  st,          \* the messages
  struck,      \* history: whose batched attempts timed out since one succeeded
  retiredBy,   \* history: what retired batching
  trapped      \* history: the pixel module has trapped

batchVars  == <<batchOff, streak, struck, retiredBy>>
pixelVars  == <<pixels, loading, cooling, trapped>>
inferVars       == <<ort, sessions, late, fp16Off, batchVars, pixelVars, st>>

\* A message: its place in handleInfer (pc), the fp16Fallback round, the lane,
\* the tiles done, whether runShapePinned has rebuilt for this run, the session
\* it holds, the one it creates or runs on, probe.url, the sessions whose output
\* the frame is made of, whether it composes with the pixel module, its reply.
FreshInfer(pc, round) ==
  [pc |-> pc, round |-> round, lane |-> "batch", tile |-> 0, rebuilt |-> FALSE,
   held |-> NoUrl, on |-> NoUrl, probe |-> NoUrl, ran |-> {}, mod |-> FALSE,
   reply |-> "none"]

InferInit ==
  /\ ort = FALSE
  /\ sessions = <<>> /\ late = {} /\ fp16Off = FALSE
  /\ batchOff = FALSE /\ streak = 0 /\ struck = {} /\ retiredBy = "none"
  /\ pixels = FALSE /\ loading = FALSE /\ cooling = FALSE /\ trapped = FALSE
  /\ st = [i \in Infer |-> FreshInfer("new", 0)]

------------------------------------------------------------------------------
(* The session cache. *)

Served(cache, key)  == \E n \in DOMAIN cache : cache[n].key = key
Entry(cache, key)   == CHOOSE e \in ToSet(cache) : e.key = key
Without(cache, key) == SelectSeq(cache, LAMBDA e : e.key # key)

\* cacheSession: the entry becomes the freshest; past the cap the stalest goes.
Cache(cache, key, url) ==
  LET all == Append(Without(cache, key), [key |-> key, url |-> url, idle |-> FALSE])
  IN IF Len(all) > MaxCached THEN Tail(all) ELSE all

\* purgeSessionsResolvedTo(modelUrlFp16).
PurgeFp16(cache) == SelectSeq(cache, LAMBDA e : e.url # Fp16)

KeyOf(i, s) == IF s.lane = "batch" /\ i \notin Single THEN "batch" ELSE "one"

\* mutant: a rebuild leaves the report of the poisoned session
AttachQuietly(s, url) ==
  IF s.rebuilt
  THEN [s EXCEPT !.pc = "run", !.on = url]
  ELSE [s EXCEPT !.pc = "run", !.on = url, !.held = url, !.probe = url]

\* A request has its session: a rebuild serves the run that failed, and the
\* loop over the tiles keeps the session it started with.
Attach(s, url) ==
  IF s.rebuilt
  THEN [s EXCEPT !.pc = "run", !.on = url, !.probe = url]
  ELSE [s EXCEPT !.pc = "run", !.on = url, !.held = url, !.probe = url]

\* getSession up to its first await: a cached session that is not idle for too
\* long is refreshed and used, otherwise the first create is started.
GetSession(i, s, cache, off) ==
  LET key == KeyOf(i, s)
      hit == Served(cache, key) /\ ~Entry(cache, key).idle
      url == Entry(cache, key).url
  IN /\ fp16Off' = off
     /\ sessions' = IF hit
                    THEN Append(Without(cache, key), Entry(cache, key))
                    ELSE Without(cache, key)
     /\ st' = [st EXCEPT ![i] =
                 IF hit THEN Attach(s, url)
                 ELSE [s EXCEPT !.pc = "create", !.on = IF off THEN Fp32 ELSE Fp16]]

------------------------------------------------------------------------------
(* What handleInfer does with an error. *)

\* The body of the fp16Fallback loop begins: batched unless that was retired.
StartRound(i, round, cache, off) ==
  GetSession(i, [FreshInfer("run", round) EXCEPT !.lane = IF batchOff THEN "seq" ELSE "batch"],
             cache, off)

\* The reply to i; of the rest only what the properties speak of is kept.
ReplyTo(i, s, reply, cache, off) ==
  /\ st' = [st EXCEPT ![i] = [FreshInfer("done", 0) EXCEPT
              !.reply = reply, !.lane = s.lane, !.ran = s.ran]]
  /\ sessions' = cache /\ fp16Off' = off

\* The frames whose batched attempts timed out in a row, until batching retires.
Striking(who) == struck' = IF retiredBy = "none" THEN who ELSE struck

\* The inner catch: the frame goes on tile by tile; a timeout only counts,
\* anything else (and one timeout too many) retires batching.
Downgrade(i, s, error, cache, off) ==
  /\ \/ /\ error = "timeout" /\ streak + 1 < Strikes
        /\ streak' = streak + 1
        /\ Striking(struck \cup {i})
        /\ UNCHANGED <<batchOff, retiredBy>>
     \/ /\ error = "timeout" /\ streak + 1 = Strikes
        /\ streak' = 0 /\ batchOff' = TRUE
        /\ Striking(struck \cup {i})
        /\ retiredBy' = IF retiredBy = "none" THEN "timeouts" ELSE retiredBy
     \/ /\ error # "timeout"
        /\ streak' = 0 /\ batchOff' = TRUE
        /\ Striking({})
        /\ retiredBy' = IF retiredBy = "none" THEN "failure" ELSE retiredBy
  /\ GetSession(i, [s EXCEPT !.lane = "seq", !.rebuilt = FALSE], cache, off)

\* The outer catch: a shader failure on fp16 is redone once on fp32.
Cascade(i, s, error, cache, off) ==
  /\ UNCHANGED batchVars
  /\ IF s.round = 0 /\ s.probe = Fp16 /\ error = "shader"
     THEN StartRound(i, 1, PurgeFp16(cache), TRUE)
     ELSE ReplyTo(i, s, IF error = "timeout" THEN "timeout" ELSE "failed", cache, off)

Throw(i, s, error, cache, off) ==
  IF s.lane = "batch" /\ error # "shader"
  THEN Downgrade(i, s, error, cache, off)
  ELSE Cascade(i, s, error, cache, off)

------------------------------------------------------------------------------
(* Messages. *)

\* handleInit has imported the runtime.
Initialised ==
  /\ ~ort
  /\ ort' = TRUE
  /\ UNCHANGED <<sessions, late, fp16Off, batchVars, pixelVars, st>>

\* handleInfer up to its first await.
Start(i) ==
  /\ st[i].pc = "new"
  /\ \A j \in Infer : j < i => st[j].pc # "new"
  /\ ort
  /\ StartRound(i, 0, sessions, fp16Off)
  /\ UNCHANGED <<ort, late, batchVars, pixelVars>>

\* A message before the runtime is there, or one whose size and data disagree.
Refuse(i) ==
  /\ st[i].pc = "new"
  /\ \A j \in Infer : j < i => st[j].pc # "new"
  /\ ReplyTo(i, st[i], "failed", sessions, fp16Off)
  /\ UNCHANGED <<ort, late, batchVars, pixelVars>>

------------------------------------------------------------------------------
(* Sessions. *)

\* InferenceSession.create succeeded in time.
Created(i) ==
  LET s == st[i]
  IN /\ s.pc = "create"
     /\ sessions' = Cache(sessions, KeyOf(i, s), s.on)
     /\ st' = [st EXCEPT ![i] = Attach(s, s.on)]
     /\ UNCHANGED <<ort, late, fp16Off, batchVars, pixelVars>>

\* It failed or was given up: a shader failure proves fp16 unrunnable, and the
\* next attempt is fp32; after that one getSession throws.
CreateEnds(i, error) ==
  LET s      == st[i]
      proved == ~fp16Off /\ s.on = Fp16 /\ error = "shader"
      cache  == IF proved THEN PurgeFp16(sessions) ELSE sessions
      off    == fp16Off \/ proved
  IN /\ s.pc = "create"
     /\ IF s.on = Fp16
        THEN /\ st' = [st EXCEPT ![i].on = Fp32]
             /\ sessions' = cache /\ fp16Off' = off
             /\ UNCHANGED batchVars
        ELSE Throw(i, s, error, cache, off)
     /\ UNCHANGED <<ort, pixelVars>>

CreateFails(i) ==
  \E error \in {"shader", "other"} : CreateEnds(i, error) /\ UNCHANGED late

\* sessionCreateTimeoutMs: the create goes on without its request.
CreateTimeout(i) ==
  /\ late' = IF Cardinality(late) < MaxLate
             THEN late \cup {[key |-> KeyOf(i, st[i]), url |-> st[i].on]} ELSE late
  /\ CreateEnds(i, "timeout")

\* A create nobody waits for ends: it is kept if its key is unserved and fp16
\* was not proved unrunnable meanwhile.
LateCreate(l) ==
  /\ late' = late \ {l}
  /\ \/ UNCHANGED sessions
     \/ /\ ~Served(sessions, l.key)
        /\ ~(fp16Off /\ l.url = Fp16)
        /\ sessions' = Cache(sessions, l.key, l.url)
  /\ UNCHANGED <<ort, fp16Off, batchVars, pixelVars, st>>

\* SESSION_IDLE_TTL_MS passes, longer than the timers of creates and runs.
Idle ==
  /\ \A i \in Infer : st[i].pc \notin {"create", "run"}
  /\ \E n \in DOMAIN sessions : ~sessions[n].idle
  /\ sessions' = [n \in DOMAIN sessions |-> [sessions[n] EXCEPT !.idle = TRUE]]
  /\ UNCHANGED <<ort, late, fp16Off, batchVars, pixelVars, st>>

------------------------------------------------------------------------------
(* Runs. *)

\* The message after a run: composing, or at its next tile on the session the
\* loop holds.
Ran(s, done) ==
  LET ran == s.ran \cup {s.on}
  IN IF done
     THEN [FreshInfer("compose", 0) EXCEPT !.lane = s.lane, !.probe = s.probe, !.ran = ran]
     ELSE [s EXCEPT !.tile = @ + 1, !.ran = ran, !.rebuilt = FALSE, !.on = s.held]

\* session.run and the download of its output succeed: the batch is done, or
\* the next tile follows on the session the loop holds.
Run(i) ==
  LET s    == st[i]
      done == s.lane = "batch" \/ i \in Single \/ s.tile + 1 = Tiles
  IN /\ s.pc = "run"
     /\ st' = [st EXCEPT ![i] = Ran(s, done)]
     /\ IF s.lane = "batch" THEN streak' = 0 /\ Striking({}) ELSE UNCHANGED <<streak, struck>>
     /\ UNCHANGED <<ort, sessions, late, fp16Off, batchOff, retiredBy, pixelVars>>

\* mutant: a rebuilt session that fails the same way is rebuilt again
RebuildsAgain(s, error) == error \in {"timeout", "pinned"}

\* runShapePinned rebuilds the session once.
Rebuilds(s, error) == error \in {"timeout", "pinned"} /\ ~s.rebuilt

\* It fails, or RUN_TIMEOUT_MS passes. The rebuild purges every session of the
\* model; what is not rebuilt is thrown.
RunFails(i, error) ==
  LET s == st[i]
  IN /\ s.pc = "run"
     /\ IF Rebuilds(s, error)
        THEN GetSession(i, [s EXCEPT !.rebuilt = TRUE], <<>>, fp16Off) /\ UNCHANGED batchVars
        ELSE Throw(i, s, error, sessions, fp16Off)
     /\ UNCHANGED <<ort, late, pixelVars>>

------------------------------------------------------------------------------
(* The frame's output. *)

\* composeFrameOutput up to ensurePixelsModule's answer.
Compose(i) ==
  /\ st[i].pc = "compose"
  /\ st' = [st EXCEPT ![i] = [@ EXCEPT
              !.pc = IF pixels \/ (cooling /\ ~loading) THEN "blend" ELSE "load",
              !.mod = pixels]]
  /\ loading' = (loading \/ (~pixels /\ ~cooling))
  /\ UNCHANGED <<ort, sessions, late, fp16Off, batchVars, pixels, cooling, trapped>>

\* loadPixelsModule settles, for every frame that shares it.
PixelsLoaded ==
  /\ loading
  /\ loading' = FALSE
  /\ \E ok \in BOOLEAN :
       /\ pixels' = ok
       /\ cooling' = (cooling \/ ~ok)
       /\ st' = [i \in Infer |-> IF st[i].pc = "load"
                                 THEN [st[i] EXCEPT !.pc = "blend", !.mod = ok] ELSE st[i]]
  /\ UNCHANGED <<ort, sessions, late, fp16Off, batchVars, trapped>>

\* PIXELS_LOAD_RETRY_COOLDOWN_MS passes.
Cooled ==
  /\ cooling
  /\ cooling' = FALSE
  /\ UNCHANGED <<ort, sessions, late, fp16Off, batchVars, pixels, loading, trapped, st>>

\* The frame is composed and the reply posted; a module that traps is dropped
\* and the frame composed without it. Tiles served one by one never use it.
Blend(i) ==
  LET s == st[i]
  IN /\ s.pc = "blend"
     /\ \/ UNCHANGED <<pixels, trapped>>
        \/ /\ s.mod /\ (i \in Single \/ s.lane = "batch")
           /\ pixels' = FALSE /\ trapped' = TRUE
     /\ ReplyTo(i, s, s.probe, sessions, fp16Off)
     /\ UNCHANGED <<ort, late, batchVars, loading, cooling>>

------------------------------------------------------------------------------
Step(i) ==
  \/ Created(i) \/ CreateFails(i) \/ CreateTimeout(i)
  \/ Run(i) \/ \E error \in Error : RunFails(i, error)
  \/ Compose(i) \/ Blend(i)

InferNext ==
  \/ Initialised \/ Idle \/ PixelsLoaded \/ Cooled
  \/ \E l \in late : LateCreate(l)
  \/ \E i \in Infer : Start(i) \/ Refuse(i) \/ Step(i)

\* A message that was taken goes on: creates and runs are under a timer, and
\* the download of a finished run and the fetch of the pixel module are assumed
\* to end.
Fairness ==
  /\ \A i \in Infer : WF_inferVars(Step(i))
  /\ WF_inferVars(PixelsLoaded)

InferSpec == InferInit /\ [][InferNext]_inferVars /\ Fairness

------------------------------------------------------------------------------
(* Properties. *)

\* The cache has one entry for a key and stays within its cap; a message that
\* runs has a session; replies name a session or a failure.
InferTypeOK ==
  /\ {ort, fp16Off, batchOff, pixels, loading, cooling, trapped} \subseteq BOOLEAN
  /\ sessions \in Seq([key : Key, url : Url, idle : BOOLEAN])
  /\ Len(sessions) <= MaxCached
  /\ \A m, n \in DOMAIN sessions : sessions[m].key = sessions[n].key => m = n
  /\ late \subseteq [key : Key, url : Url]
  /\ streak \in 0..(Strikes - 1)
  /\ struck \subseteq Infer
  /\ retiredBy \in {"none", "timeouts", "failure"}
  /\ st \in [Infer ->
        [pc : {"new", "create", "run", "compose", "load", "blend", "done"},
         round : 0..1, lane : {"batch", "seq"}, tile : 0..Tiles, rebuilt : BOOLEAN,
         held : Url \cup {NoUrl}, on : Url \cup {NoUrl}, probe : Url \cup {NoUrl},
         ran : SUBSET Url, mod : BOOLEAN,
         reply : Url \cup {"none", "failed", "timeout"}]]

\* One slow frame cannot retire batching: when timeouts retire it, those of at
\* least two frames did, with no batched success in between (lines 829-838).
BatchingKept ==
  retiredBy = "timeouts" => Cardinality(struck) >= 2

\* The precision a reply reports is that of the session whose output the frame
\* is, also after a rebuild that resolved to the other model (1027-1031), for
\* the frames of one run.
LabelTellsServer ==
  \A i \in Infer :
    st[i].reply \in Url /\ (st[i].lane = "batch" \/ i \in Single) => st[i].ran = {st[i].reply}

\* A frame the worker took is answered, whatever creates and runs do.
InfersAnswered ==
  <>[](\A i \in Infer : st[i].pc \in {"new", "done"})

------------------------------------------------------------------------------
(* What the comments claim and the code does not keep. *)

\* A trapping module disables itself for the worker's life (lines 845-850).
TrapIsSticky == [][trapped => ~pixels']_inferVars

\* The precision is that of the session that served, for every frame.
EveryLabelTellsServer ==
  \A i \in Infer : st[i].reply \in Url => st[i].ran = {st[i].reply}
==============================================================================
