---------------------------- MODULE WorkerRunner ----------------------------
(***************************************************************************)
(* The runners behind RealESRGAN pipelines. One broker per document caches *)
(* a native runner and a worker runner as promises; every pipeline resolves*)
(* a runner when it is built and shares it with the others; a worker       *)
(* client queues the pipelines' requests, posts them to its worker under a *)
(* limit, and times each of them; a guard per pipeline decides when a      *)
(* failing runner is dead and has the broker forget it.                    *)
(*                                                                         *)
(* Sources: src/src/core/realesrgan-runner-broker.ts, realesrgan-worker-   *)
(* client.ts, realesrgan-runner-guard.ts, realesrgan-pipeline.ts (the      *)
(* guard's events) and pipeline-loader.ts.                                 *)
(*                                                                         *)
(* An action is one run-to-completion section of the page's thread. The    *)
(* worker's thread is external here: it answers a posted request at any    *)
(* time, or never, or raises an uncaught error. So is the native runner.   *)
(***************************************************************************)
EXTENDS Integers, Sequences, FiniteSets

CONSTANTS
  Pipeline,       \* pipeline instances, each built once
  MaxConcurrent,  \* requests a worker client posts at once (1 in production)
  MaxTimeouts,    \* consecutive transient failures before a runner is dead (3)
  MaxNative,      \* bound: native handshakes per behaviour
  MaxWorker,      \* bound: workers spawned per behaviour
  MaxRequest      \* bound: requests per behaviour

ASSUME RunnerAssumption ==
  /\ MaxConcurrent \in Nat \ {0}
  /\ MaxTimeouts \in Nat \ {0}
  /\ MaxNative \in Nat /\ MaxWorker \in Nat /\ MaxRequest \in Nat

Request  == 1..MaxRequest
Native   == 1..MaxNative
Worker   == 1..MaxWorker
Runner   == [kind : {"native"}, id : Native] \cup [kind : {"worker"}, id : Worker]
NoRunner == [kind |-> "none", id |-> 0]
\* A cached promise: 0 is null, k the k-th attempt, whose runner is also k.
Promise  == {"none", "pending", "miss", "ok"}
Failed   == {"transient", "permanent"}
Settled  == {"ok"} \cup Failed
Reply    == {"ok", "timeout", "failed"}

VARIABLES
  nativeP,    \* nativePromise
  nativeOut,  \* what became of each native attempt
  missAt,     \* nativeMissAt: 0, inside the cooldown, or beyond it
  workerP,    \* workerPromise
  workerOut,  \* what became of each spawn
  build,      \* progress of resolveRunner for a pipeline
  wait,       \* the promise a pipeline's build or verdict awaits
  runner,     \* the runner a pipeline is bound to
  destroyed,
  timeouts,   \* the guard's consecutive transient failures
  call,       \* progress of a pipeline's guarded runner call
  mine,       \* the request that call waits for
  victim,     \* the runner its verdict buries
  asked,      \* requests made so far (nextId)
  host,       \* worker a request was made to
  req,        \* request states: queued, pending, or how it settled
  queue,      \* per worker client: requestQueue
  pend,       \* per worker client: ids in the pending map
  active,     \* per worker client: activeRequests
  mail,       \* what the worker's thread did with a posted request
  buried,     \* history: runners whose verdict the broker has carried out
  seen        \* history: the runners buried when a pipeline's build began

brokerVars == <<nativeP, nativeOut, missAt, workerP, workerOut>>
buildVars  == <<build, wait, runner, destroyed, seen>>
guardVars  == <<timeouts, call, mine, victim, buried>>
clientVars == <<asked, host, req, queue, pend, active, mail>>
vars == <<brokerVars, buildVars, guardVars, clientVars>>

Init ==
  /\ nativeP = 0 /\ nativeOut = [n \in Native |-> "none"] /\ missAt = "zero"
  /\ workerP = 0 /\ workerOut = [w \in Worker |-> "none"]
  /\ build = [p \in Pipeline |-> "none"]
  /\ wait = [p \in Pipeline |-> 0]
  /\ runner = [p \in Pipeline |-> NoRunner]
  /\ destroyed = [p \in Pipeline |-> FALSE]
  /\ timeouts = [p \in Pipeline |-> 0]
  /\ call = [p \in Pipeline |-> "idle"]
  /\ mine = [p \in Pipeline |-> 0]
  /\ victim = [p \in Pipeline |-> NoRunner]
  /\ asked = 0
  /\ host = [i \in Request |-> 0]
  /\ req = [i \in Request |-> "none"]
  /\ queue = [w \in Worker |-> <<>>]
  /\ pend = [w \in Worker |-> {}]
  /\ active = [w \in Worker |-> 0]
  /\ mail = [i \in Request |-> "none"]
  /\ buried = {}
  /\ seen = [p \in Pipeline |-> {}]

-----------------------------------------------------------------------------
(***************************************************************************)
(* The broker: RealEsrganRunnerBroker.                                     *)
(***************************************************************************)
\* The next attempt of a kind nobody has made yet.
Fresh(out, n) == out[n] = "none" /\ \A m \in DOMAIN out : m < n => out[m] # "none"

NativeSettled(n) == n # 0 => nativeOut[n] \in {"miss", "ok"}
WorkerSettled(w) == workerOut[w] \in {"miss", "ok"}

\* getNativeRunner(): a buried runner parks the native path for the cooldown,
\* a miss is retried after it, and any other promise is shared. wait is 0 when
\* the caller gets a promise of no runner.
GetNativeRunner(p) ==
  \/ /\ nativeP = 0 /\ missAt = "cooling"
     /\ wait' = [wait EXCEPT ![p] = 0]
     /\ UNCHANGED <<nativeP, nativeOut, missAt>>
  \/ /\ IF nativeP = 0 THEN missAt # "cooling" ELSE missAt = "elapsed"
     /\ \E n \in Native :
          /\ Fresh(nativeOut, n)
          /\ nativeOut' = [nativeOut EXCEPT ![n] = "pending"]
          /\ nativeP' = n
          /\ wait' = [wait EXCEPT ![p] = n]
     /\ missAt' = "zero"
  \/ /\ nativeP # 0 /\ missAt # "elapsed"
     /\ wait' = [wait EXCEPT ![p] = nativeP]
     /\ UNCHANGED <<nativeP, nativeOut, missAt>>

\* getWorkerRunner(): spawn once, then share the promise.
GetWorkerRunner(p) ==
  \/ /\ workerP # 0
     /\ wait' = [wait EXCEPT ![p] = workerP]
     /\ UNCHANGED <<workerP, workerOut>>
  \/ /\ workerP = 0
     /\ \E w \in Worker :
          /\ Fresh(workerOut, w)
          /\ workerOut' = [workerOut EXCEPT ![w] = "pending"]
          /\ workerP' = w
          /\ wait' = [wait EXCEPT ![p] = w]

\* The host's endpoint query answers or runs into its timeout.
NativeAnswer(n) ==
  /\ nativeOut[n] = "pending"
  /\ \/ nativeOut' = [nativeOut EXCEPT ![n] = "ok"] /\ UNCHANGED missAt
     \/ nativeOut' = [nativeOut EXCEPT ![n] = "miss"] /\ missAt' = "cooling"
  /\ UNCHANGED <<nativeP, workerP, workerOut, buildVars, guardVars, clientVars>>

\* The worker is spawned and answers init, or fails to: a failed spawn is not
\* kept in the cache.
WorkerAnswer(w) ==
  /\ workerOut[w] = "pending"
  /\ \/ workerOut' = [workerOut EXCEPT ![w] = "ok"] /\ UNCHANGED workerP
     \/ workerOut' = [workerOut EXCEPT ![w] = "miss"] /\ workerP' = 0
  /\ UNCHANGED <<nativeP, nativeOut, missAt, buildVars, guardVars, clientVars>>

\* NATIVE_RUNNER_RETRY_COOLDOWN_MS pass on the clock.
CooldownPasses ==
  /\ missAt = "cooling"
  /\ missAt' = "elapsed"
  /\ UNCHANGED <<nativeP, nativeOut, workerP, workerOut, buildVars, guardVars, clientVars>>

\* A pipeline is built: resolveRunner() asks for the native runner first.
StartBuild(p) ==
  /\ build[p] = "none"
  /\ GetNativeRunner(p)
  /\ build' = [build EXCEPT ![p] = "native"]
  /\ seen' = [seen EXCEPT ![p] = buried]
  /\ UNCHANGED <<workerP, workerOut, runner, destroyed, guardVars, clientVars>>

\* The native promise settled. The pipeline takes its runner, unless its
\* frames exceed maxFrameDim; without a native runner it asks for the worker.
BuildNative(p) ==
  /\ build[p] = "native" /\ NativeSettled(wait[p])
  /\ \/ /\ wait[p] # 0 /\ nativeOut[wait[p]] = "ok"
        /\ \E fits \in BOOLEAN :
             runner' = IF fits THEN [runner EXCEPT ![p] = [kind |-> "native", id |-> wait[p]]]
                               ELSE runner
        /\ build' = [build EXCEPT ![p] = "done"]
        /\ wait' = [wait EXCEPT ![p] = 0]
        /\ UNCHANGED <<workerP, workerOut>>
     \/ /\ wait[p] # 0 => nativeOut[wait[p]] = "miss"
        /\ GetWorkerRunner(p)
        /\ build' = [build EXCEPT ![p] = "worker"]
        /\ UNCHANGED runner
  /\ UNCHANGED <<nativeP, nativeOut, missAt, destroyed, seen, guardVars, clientVars>>

\* The worker promise settled: its runner, or the main-thread session.
BuildWorker(p) ==
  /\ build[p] = "worker" /\ WorkerSettled(wait[p])
  /\ runner' = IF workerOut[wait[p]] = "ok"
                 THEN [runner EXCEPT ![p] = [kind |-> "worker", id |-> wait[p]]]
                 ELSE runner
  /\ build' = [build EXCEPT ![p] = "done"]
  /\ wait' = [wait EXCEPT ![p] = 0]
  /\ UNCHANGED <<destroyed, seen, brokerVars, guardVars, clientVars>>

\* destroy() of a pipeline; a call under way goes on.
Destroy(p) ==
  /\ build[p] = "done" /\ ~destroyed[p]
  /\ destroyed' = [destroyed EXCEPT ![p] = TRUE]
  /\ UNCHANGED <<build, wait, runner, seen, brokerVars, guardVars, clientVars>>
-----------------------------------------------------------------------------
(***************************************************************************)
(* The worker client: RealEsrganWorkerClient.                              *)
(***************************************************************************)
HasRoom(n) == n < MaxConcurrent

FreedNever(n) == n                        \* mutant: the slot is not given back
Freed(n) == IF n > 0 THEN n - 1 ELSE 0

\* pumpRequests(), with its calls of itself: of the queue q, post requests in
\* order until no slot is free. A post that throws rejects its request and
\* leaves the slot to the next. n0 slots are taken, `open` is the pending map,
\* `state` and `box` the requests and replies as
\* the caller leaves them.
Pump(w, q, open, n0, state, box) ==
  \E n \in 0..Len(q) : \E bad \in SUBSET (1..n) :
    LET posted == (1..n) \ bad
    IN  /\ \A k \in 1..n : HasRoom(n0 + Cardinality(posted \cap (1..(k - 1))))
        /\ n < Len(q) => ~HasRoom(n0 + Cardinality(posted))
        /\ queue' = [queue EXCEPT ![w] = SubSeq(q, n + 1, Len(q))]
        /\ pend' = [pend EXCEPT ![w] = open \cup {q[k] : k \in posted}]
        /\ active' = [active EXCEPT ![w] = n0 + Cardinality(posted)]
        /\ req' = [i \in Request |-> IF i \in {q[k] : k \in bad} THEN "permanent"
                                     ELSE IF i \in {q[k] : k \in posted} THEN "pending"
                                     ELSE state[i]]
        /\ mail' = [i \in Request |-> IF i \in {q[k] : k \in posted} THEN "posted" ELSE box[i]]

\* mutant: the freed slot is not offered to the queue
SettleOnly(i, outcome, box) ==
  /\ pend' = [pend EXCEPT ![host[i]] = @ \ {i}]
  /\ active' = [active EXCEPT ![host[i]] = Freed(@)]
  /\ req' = [req EXCEPT ![i] = outcome]
  /\ mail' = box
  /\ UNCHANGED queue

\* The pending entry of request i is deleted and settled, its slot freed, and
\* the queue pumped.
SettleAndPump(i, outcome, box) ==
  Pump(host[i], queue[host[i]], pend[host[i]] \ {i}, Freed(active[host[i]]),
       [req EXCEPT ![i] = outcome], box)

\* runFrame(): a request of pipeline p, guarded by runnerGuard.guard().
Ask(p) ==
  /\ runner[p].kind = "worker" /\ call[p] = "idle" /\ ~destroyed[p]
  /\ asked < MaxRequest
  /\ LET i == asked + 1
         w == runner[p].id
     IN  /\ asked' = i
         /\ host' = [host EXCEPT ![i] = w]
         /\ mine' = [mine EXCEPT ![p] = i]
         /\ Pump(w, Append(queue[w], i), pend[w], active[w],
                 [req EXCEPT ![i] = "queued"], mail)
  /\ call' = [call EXCEPT ![p] = "waiting"]
  /\ UNCHANGED <<brokerVars, buildVars, timeouts, victim, buried>>

\* External: the worker's thread answers a request that was posted to it,
\* whether or not the client still waits for the answer.
Answer(i) ==
  /\ mail[i] = "posted"
  /\ \E r \in Reply : mail' = [mail EXCEPT ![i] = r]
  /\ UNCHANGED <<asked, host, req, queue, pend, active, brokerVars, buildVars, guardVars>>

\* handleMessage(): the reply of a request no longer pending is ignored. A
\* frame of the wrong shape is an error without a code.
HandleMessage(i) ==
  /\ mail[i] \in Reply
  /\ \/ /\ i \notin pend[host[i]]
        /\ mail' = [mail EXCEPT ![i] = "read"]
        /\ UNCHANGED <<req, queue, pend, active>>
     \/ /\ i \in pend[host[i]]
        /\ \E outcome \in CASE mail[i] = "ok"      -> {"ok", "permanent"}
                            [] mail[i] = "timeout" -> {"transient"}
                            [] mail[i] = "failed"  -> {"permanent"} :
             SettleAndPump(i, outcome, [mail EXCEPT ![i] = "read"])
  /\ UNCHANGED <<asked, host, brokerVars, buildVars, guardVars>>

\* mutant: the timer drops the entry and rejects nobody
InferTimeoutSilent(i) ==
  /\ req[i] = "pending" /\ i \in pend[host[i]]
  /\ SettleAndPump(i, "pending", mail)
  /\ UNCHANGED <<asked, host, brokerVars, buildVars, guardVars>>

\* The 18 s timer of a pending request. The worker is not told.
InferTimeout(i) ==
  /\ req[i] = "pending" /\ i \in pend[host[i]]
  /\ SettleAndPump(i, "transient", mail)
  /\ UNCHANGED <<asked, host, brokerVars, buildVars, guardVars>>

\* onerror: failAll() rejects what is pending and what is queued. The worker
\* is not terminated and may still answer.
WorkerError(w) ==
  /\ workerOut[w] = "ok"
  /\ req' = [i \in Request |->
               IF i \in pend[w] \/ \E k \in DOMAIN queue[w] : queue[w][k] = i
                 THEN "permanent" ELSE req[i]]
  /\ queue' = [queue EXCEPT ![w] = <<>>]
  /\ pend' = [pend EXCEPT ![w] = {}]
  /\ active' = [active EXCEPT ![w] = 0]
  /\ UNCHANGED <<asked, host, mail, brokerVars, buildVars, guardVars>>
-----------------------------------------------------------------------------
(***************************************************************************)
(* The guard: RealEsrganRunnerGuard and the pipeline's onRunnerDead.       *)
(***************************************************************************)
\* A failed call below the budget of consecutive transient failures is retried
\* with the next frame.
Forgiven(p, outcome) == outcome = "transient" /\ timeouts[p] + 1 < MaxTimeouts

\* markRunnerDead(dead) of pipeline p awaits a cached promise, or is done.
Await(p, kind, promise, dead) ==
  /\ call' = [call EXCEPT ![p] = kind]
  /\ wait' = [wait EXCEPT ![p] = promise]
  /\ victim' = [victim EXCEPT ![p] = dead]
  /\ UNCHANGED buried

VerdictDone(p, dead) ==
  /\ call' = [call EXCEPT ![p] = "warming"]
  /\ wait' = [wait EXCEPT ![p] = 0]
  /\ victim' = [victim EXCEPT ![p] = NoRunner]
  /\ buried' = buried \cup {dead}

\* onRunnerDead(): a destroyed pipeline detaches in silence; a live one
\* detaches and has the broker forget the runner, starting with the native
\* promise if one is cached.
RunnerDead(p) ==
  /\ runner' = [runner EXCEPT ![p] = NoRunner]
  /\ timeouts' = [timeouts EXCEPT ![p] = MaxTimeouts]
  /\ IF destroyed[p]
       THEN /\ call' = [call EXCEPT ![p] = "idle"]
            /\ UNCHANGED <<victim, wait, buried>>
       ELSE \/ /\ nativeP # 0
               /\ Await(p, "native", nativeP, runner[p])
            \/ /\ nativeP = 0 /\ workerP # 0
               /\ Await(p, "worker", workerP, runner[p])
            \/ /\ nativeP = 0 /\ workerP = 0
               /\ VerdictDone(p, runner[p])
  /\ UNCHANGED <<build, destroyed, seen>>

\* guard(): the outcome of the runner call of pipeline p.
Judge(p, outcome) ==
  \/ /\ outcome = "ok" \/ Forgiven(p, outcome)
     /\ timeouts' = [timeouts EXCEPT ![p] = IF outcome = "ok" THEN 0 ELSE @ + 1]
     /\ call' = [call EXCEPT ![p] = "idle"]
     /\ UNCHANGED <<victim, buried, buildVars>>
  \/ /\ outcome \in Failed /\ ~Forgiven(p, outcome)
     /\ RunnerDead(p)

\* The promise of the call's request settled.
Return(p) ==
  /\ call[p] = "waiting" /\ req[mine[p]] \in Settled
  /\ Judge(p, req[mine[p]])
  /\ mine' = [mine EXCEPT ![p] = 0]
  /\ UNCHANGED <<brokerVars, clientVars>>

\* External: a call of the native runner, from its start to its outcome. The
\* native path overlaps two calls of a pipeline; the second to fail finds no
\* runner left to bury.
NativeCall(p) ==
  /\ runner[p].kind = "native" /\ call[p] = "idle" /\ ~destroyed[p]
  /\ \E outcome \in Settled : Judge(p, outcome)
  /\ UNCHANGED <<mine, brokerVars, clientVars>>

\* markRunnerDead(): the awaited native promise settled. If it is the victim
\* the cache is emptied and the cooldown starts; then the worker promise.
BuryNative(p) ==
  /\ call[p] = "native" /\ NativeSettled(wait[p])
  /\ IF victim[p] = [kind |-> "native", id |-> wait[p]]
       THEN nativeP' = 0 /\ missAt' = "cooling"
       ELSE UNCHANGED <<nativeP, missAt>>
  /\ \/ /\ workerP # 0
        /\ Await(p, "worker", workerP, victim[p])
     \/ /\ workerP = 0
        /\ VerdictDone(p, victim[p])
  /\ UNCHANGED <<nativeOut, workerP, workerOut, build, runner, destroyed, seen, timeouts,
                 mine, clientVars>>

KeepsWorker(p) == workerP    \* mutant: the dead worker stays cached
ForgetsWorker(p) ==
  IF victim[p] = [kind |-> "worker", id |-> wait[p]] THEN 0 ELSE workerP

\* markRunnerDead(): the awaited worker promise settled.
BuryWorker(p) ==
  /\ call[p] = "worker" /\ WorkerSettled(wait[p])
  /\ workerP' = ForgetsWorker(p)
  /\ VerdictDone(p, victim[p])
  /\ UNCHANGED <<nativeP, nativeOut, missAt, workerOut, build, runner, destroyed, seen,
                 timeouts, mine, clientVars>>

\* warmFallback() settled and the error reaches the drain. The pipeline has no
\* runner any more and makes no further call.
Warmed(p) ==
  /\ call[p] = "warming"
  /\ call' = [call EXCEPT ![p] = "idle"]
  /\ UNCHANGED <<brokerVars, buildVars, timeouts, mine, victim, buried, clientVars>>
-----------------------------------------------------------------------------
Next ==
  \/ \E n \in Native : NativeAnswer(n)
  \/ \E w \in Worker : WorkerAnswer(w) \/ WorkerError(w)
  \/ CooldownPasses
  \/ \E i \in Request : Answer(i) \/ HandleMessage(i) \/ InferTimeout(i)
  \/ \E p \in Pipeline :
       \/ StartBuild(p) \/ BuildNative(p) \/ BuildWorker(p) \/ Destroy(p)
       \/ Ask(p) \/ NativeCall(p) \/ Return(p)
       \/ BuryNative(p) \/ BuryWorker(p) \/ Warmed(p)

Spec == Init /\ [][Next]_vars

\* Handshakes and spawns are bounded by timers, requests by the 18 s timer, and
\* the page's own promise reactions run. Nothing is assumed of the worker's
\* thread, of native calls, of frames arriving or of the warmed session.
FairSpec ==
  /\ Spec
  /\ \A n \in Native : WF_vars(NativeAnswer(n))
  /\ \A w \in Worker : WF_vars(WorkerAnswer(w))
  /\ \A i \in Request : WF_vars(InferTimeout(i))
  /\ \A p \in Pipeline : WF_vars(Return(p)) /\ WF_vars(BuryNative(p)) /\ WF_vars(BuryWorker(p))
-----------------------------------------------------------------------------
(***************************************************************************)
(* Properties.                                                             *)
(***************************************************************************)
BrokerTypes ==
  /\ nativeP \in 0..MaxNative /\ nativeOut \in [Native -> Promise]
  /\ missAt \in {"zero", "cooling", "elapsed"}
  /\ workerP \in 0..MaxWorker /\ workerOut \in [Worker -> Promise]

PipelineTypes ==
  /\ build \in [Pipeline -> {"none", "native", "worker", "done"}]
  /\ wait \in [Pipeline -> Nat]
  /\ runner \in [Pipeline -> Runner \cup {NoRunner}]
  /\ destroyed \in [Pipeline -> BOOLEAN]
  /\ timeouts \in [Pipeline -> 0..MaxTimeouts]
  /\ call \in [Pipeline -> {"idle", "waiting", "native", "worker", "warming"}]
  /\ mine \in [Pipeline -> 0..MaxRequest]
  /\ victim \in [Pipeline -> Runner \cup {NoRunner}]
  /\ buried \subseteq Runner
  /\ seen \in [Pipeline -> SUBSET Runner]

ClientTypes ==
  /\ asked \in 0..MaxRequest
  /\ host \in [Request -> 0..MaxWorker]
  /\ req \in [Request -> {"none", "queued", "pending"} \cup Settled]
  /\ queue \in [Worker -> Seq(Request)]
  /\ pend \in [Worker -> SUBSET Request]
  /\ active \in [Worker -> 0..MaxConcurrent]
  /\ mail \in [Request -> {"none", "posted", "read"} \cup Reply]

\* Types: counters stay in range and ids name attempts that were made.
TypeOK == BrokerTypes /\ PipelineTypes /\ ClientTypes

\* No request is lost or answered twice, whichever of reply, timer, post
\* failure and worker error comes first: the requests that have not settled are
\* exactly those the client queues, in order, or holds in its pending map, and
\* activeRequests counts the latter.
RequestsHeld ==
  \A w \in Worker :
    /\ active[w] = Cardinality(pend[w])
    /\ pend[w] = {i \in Request : host[i] = w /\ req[i] = "pending"}
    /\ {queue[w][k] : k \in DOMAIN queue[w]} = {i \in Request : host[i] = w /\ req[i] = "queued"}
    /\ \A j, k \in DOMAIN queue[w] : j < k => queue[w][j] < queue[w][k]

\* Whoever frees a slot pumps the queue: no request waits beside a free slot.
NoIdleSlot == \A w \in Worker : queue[w] # <<>> => active[w] = MaxConcurrent

\* The verdict on a runner is global and awaited: a pipeline whose build began
\* after a verdict was carried out is never bound to the buried runner
\* (realesrgan-runner-guard.ts:31-36), whatever handshakes, spawns and verdicts
\* of other pipelines overlap with it.
BuriedNotServed == \A p \in Pipeline : runner[p] # NoRunner => runner[p] \notin seen[p]

\* A runner call returns to its drain, or to the warming of the fallback, even
\* if the worker never answers again.
CallsReturn == \A p \in Pipeline : call[p] # "idle" ~> call[p] \in {"idle", "warming"}
=============================================================================
