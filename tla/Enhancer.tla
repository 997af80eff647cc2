------------------------------ MODULE Enhancer ------------------------------
(***************************************************************************)
(* One video's enhancer in the page: the lifecycle queue, the transition   *)
(* revisions and the reconcile tokens that decide which of its             *)
(* asynchronous operations still counts, the backend phase, the renderer   *)
(* and the native session it holds, and the conversation with the          *)
(* background that starts and stops that session                           *)
(* (core/video-enhancer.ts and its collaborators).                         *)
(*                                                                         *)
(* An action is one run-to-completion section of the page's thread: from   *)
(* a timer, an event or a resolved promise to the next await.  The page is *)
(* one record; the helpers take it and give it back, as the methods of the *)
(* class act on its fields, so that a handler reads in the order of its    *)
(* calls.  A revision or token counter is only ever compared with its      *)
(* latest value, so each operation keeps one flag for "mine is the latest".*)
(***************************************************************************)
EXTENDS Integers, Sequences, SequencesExt, FiniteSets

CONSTANTS
  Sides,        \* operations outside the queue that may overlap (stop, EME, error)
  Settings,     \* settings the user may choose, see UserChoices
  MaxSessions,  \* bound: native sessions the host starts
  MaxStimuli    \* bound: events of the page, the user and the host

UserChoices == {"off", "auto", "manual", "webgpu", "native"}

ASSUME EnhancerAssumption ==
  /\ Settings \subseteq UserChoices
  /\ "job" \notin Sides /\ "event" \notin Sides /\ "nobody" \notin Sides
  /\ MaxSessions \in Nat /\ MaxStimuli \in Nat

Tasks == Sides \cup {"job"}
NoSession == 0
Sessions == 1 .. MaxSessions
Nobody == "nobody"

VARIABLES
  page,      \* the enhancer and its running operations, see PageType
  inbox,     \* the background's answers and host events, in order
  host,      \* the session the native host captures for, or NoSession
  stored,    \* the settings in storage
  started,   \* sessions started so far
  left       \* stimuli left

enhancerVars == <<page, inbox, host, stored, started, left>>

Pcs == {"none", "load", "claim", "slot", "create", "align", "fallback", "absorb",
        "stopping", "update", "switchstop", "reconfig", "source"}

\* One asynchronous operation.  "cur" and "fresh" say that its transition
\* revision and its reconcile token are still the latest; "made" that it holds
\* a renderer the enhancer does not own yet, "stale" that the video node, or the
\* renderer it reconfigures, was replaced since, "gone" that its node was
\* removed; "cancelled" that its fallback request was stopped.
NoTask == [pc |-> "none", cur |-> FALSE, fresh |-> FALSE, made |-> FALSE, stale |-> FALSE,
           cancelled |-> FALSE, gone |-> FALSE, kind |-> "side", flow |-> "start", then |-> "end", prev |-> "none"]

TaskType ==
  [pc : Pcs, cur : BOOLEAN, fresh : BOOLEAN, made : BOOLEAN, stale : BOOLEAN,
   cancelled : BOOLEAN, gone : BOOLEAN,
   kind : {"reconcile", "auto", "update", "cap", "reattach", "side"},
   flow : {"start", "toNative", "toWeb"}, then : {"end", "schedule", "restart"},
   prev : Settings \cup {"none"}]

JobType == [kind : {"reconcile", "update", "cap"}, fresh : BOOLEAN, to : Settings \cup {"none"}]

MailType == [op : {"claim", "start", "update", "stop"}, from : Tasks \cup {Nobody},
             sid : {NoSession} \cup Sessions]

PageType ==
  [phase : {"idle", "starting", "webgpu-active", "native-active"},
   renderer : BOOLEAN,             \* this.renderer is set
   owns : BOOLEAN,                 \* the transition that made it is the latest
   alive : 0 .. 2 + Cardinality(Sides),  \* renderers created and not destroyed
   session : {NoSession} \cup Sessions,
   settings : Settings \cup {"none"},
   automatic : BOOLEAN, blocked : BOOLEAN, applied : BOOLEAN,
   timer : {"off", "live", "stale"},
   queue : Seq(JobType), task : [Tasks -> TaskType],
   pending : Tasks \cup {Nobody},  \* the client's ledger entry for the video
   abandoned : {NoSession} \cup Sessions, switch : Tasks \cup {Nobody},
   protected : BOOLEAN, full : BOOLEAN, attached : BOOLEAN, destroyed : BOOLEAN,
   constructing : BOOLEAN,         \* the constructor still reads the settings
   restarted : BOOLEAN,            \* the watchdog used its single restart
   wanted : BOOLEAN,               \* history: a reason to run since the last stop
   mail : Seq(MailType)]           \* messages to the background, served in order

EnhancerTypeOK ==
  /\ page \in PageType
  /\ inbox \in Seq([to : Tasks \cup {"event"}, ok : BOOLEAN, sid : {NoSession} \cup Sessions])
  /\ host \in {NoSession} \cup Sessions
  /\ stored \in Settings
  /\ started \in 0 .. MaxSessions
  /\ left \in 0 .. MaxStimuli

EnhancerInit ==
  /\ page = [phase |-> "idle", renderer |-> FALSE, owns |-> FALSE, alive |-> 0,
             session |-> NoSession, settings |-> "none", automatic |-> FALSE,
             blocked |-> FALSE, applied |-> FALSE, timer |-> "off", queue |-> <<>>,
             task |-> [t \in Tasks |-> NoTask], pending |-> Nobody,
             abandoned |-> NoSession, switch |-> Nobody, protected |-> FALSE,
             full |-> FALSE, attached |-> TRUE, destroyed |-> FALSE, restarted |-> FALSE,
             constructing |-> TRUE,
             wanted |-> FALSE, mail |-> <<>>]
  /\ inbox = <<>>
  /\ host = NoSession /\ started = 0
  /\ stored \in Settings
  /\ left = MaxStimuli

-----------------------------------------------------------------------------
(* The lifecycle, the backend phase and the reconciler's timer.            *)

NativeActive(p) == p.phase = "native-active"
Starting(p) == p.phase = "starting"
ActiveFallback(p) == p.pending # Nobody /\ ~p.task[p.pending].cancelled

\* begin() makes this revision the latest; whatever ran before is superseded.
Superseded(p) ==
  [p EXCEPT !.owns = FALSE, !.task = [t \in Tasks |-> [@[t] EXCEPT !.cur = FALSE]]]

BeginTransition(p, t) ==
  [Superseded(p) EXCEPT !.phase = "starting", !.task[t].cur = TRUE]

\* A new token, or none: no reconcile scheduled, queued or loading is fresh.
InvalidateReconcile(p) ==
  [p EXCEPT !.timer = IF @ = "off" THEN "off" ELSE "stale",
            !.queue = [i \in DOMAIN @ |-> [@[i] EXCEPT !.fresh = FALSE]],
            !.task = [t \in Tasks |-> [@[t] EXCEPT !.fresh = FALSE]]]

Schedule(p) ==
  IF p.destroyed THEN p
  ELSE [InvalidateReconcile(p) EXCEPT !.timer = "live", !.wanted = TRUE]

MarkIdle(p) == [p EXCEPT !.phase = "idle"]

MarkActive(p, phase) == IF p.destroyed THEN p ELSE [p EXCEPT !.phase = phase]

\* resetEnhancementState(), with the applied marker its callers remove.
ResetEnhancement(p) ==
  [MarkIdle(p) EXCEPT !.session = NoSession, !.automatic = FALSE, !.applied = FALSE]

\* releaseWebGPUResources(): a reconfiguration under way loses its renderer.
ReleaseRenderer(p) ==
  [p EXCEPT !.renderer = FALSE,
            !.alive = IF p.renderer THEN @ - 1 ELSE @,
            !.task = [t \in Tasks |->
              [@[t] EXCEPT !.stale = p.task[t].stale \/ p.task[t].pc \in {"reconfig", "source"}]]]

Post(p, op, t, sid) == [p EXCEPT !.mail = Append(@, [op |-> op, from |-> t, sid |-> sid])]

\* The client marks the pending request before the stop leaves the page.
CancelPending(p) ==
  IF p.pending = Nobody THEN p ELSE [p EXCEPT !.task[p.pending].cancelled = TRUE]

\* Whether stopEnhancement() finds a session or a request to stop in the background.
StopsNative(p, native) == (native /\ NativeActive(p)) \/ p.pending # Nobody

\* stopEnhancement() before its first call of the client.
ResetAll(p) ==
  [ResetEnhancement(ReleaseRenderer(InvalidateReconcile(Superseded(p)))) EXCEPT
     !.timer = "off", !.wanted = FALSE, !.abandoned = NoSession, !.switch = Nobody]

\* stopEnhancement() up to its await, on behalf of operation t or of nobody.
StopHere(p, native, t) ==
  IF StopsNative(p, native) THEN Post(CancelPending(ResetAll(p)), "stop", t, p.session)
  ELSE ResetAll(p)

\* destroy(): the stop reads who owns the session before the phase goes idle.
DestroyNow(p) ==
  IF p.destroyed THEN p
  ELSE [StopHere([p EXCEPT !.destroyed = TRUE], TRUE, Nobody) EXCEPT
          !.phase = "idle", !.session = NoSession, !.timer = "off"]

\* The end of an operation: a reconcile whose start brought nothing up gives
\* the automatic session back, a switch to WebGPU clears its ledger, and a
\* reattachment marks the new node and reconciles, or destroys the enhancer
\* when its node was removed again.
Finish(p, t) ==
  LET o == p.task[t]
      failed == o.kind = "auto" /\ ~p.renderer /\ ~NativeActive(p)
      q == [p EXCEPT !.automatic = @ /\ ~failed, !.task[t] = NoTask]
  IN  IF o.flow = "toWeb"
      THEN [q EXCEPT !.abandoned = NoSession, !.switch = IF @ = t THEN Nobody ELSE @]
      ELSE IF o.kind = "reattach" /\ o.gone THEN DestroyNow(q)
      ELSE IF o.kind = "reattach" /\ ~p.destroyed
      THEN [Schedule(q) EXCEPT !.applied = @ \/ p.renderer \/ NativeActive(p)]
      ELSE q

Await(p, t, pc) == [p EXCEPT !.task[t].pc = pc]

-----------------------------------------------------------------------------
(* Starting a backend: startEnhancement, initRenderer, requestNativeFallback *)
(* and the two switches share their awaits; "flow" tells whose they are.     *)

Enabled(settings) == settings \notin {"off", "none"}

AllowsNative(settings) == settings # "webgpu"

SelectBackend(p, settings) ==
  IF settings = "native" \/ (settings \in {"auto", "manual"} /\ p.protected)
  THEN "native" ELSE "webgpu"

Commit(p, t) == Finish([p EXCEPT !.applied = TRUE], t)

\* requestFallback(): a request still in flight is superseded in the ledger.
RequestNative(p, t) ==
  LET q == [CancelPending(ReleaseRenderer(p)) EXCEPT !.pending = t, !.task[t].cancelled = FALSE]
  IN  Await(Post(q, "start", t, NoSession), t, "fallback")

\* After the claim and the slot: the selected backend.
Proceed(p, t) ==
  IF p.task[t].flow = "start" /\ SelectBackend(p, p.settings) = "native"
  THEN RequestNative(p, t)
  ELSE [Await(p, t, "create") EXCEPT !.task[t].stale = FALSE]

StartEnhancement(p, t) ==
  IF p.renderer \/ NativeActive(p) \/ p.destroyed \/ Starting(p) THEN Finish(p, t)
  ELSE LET q == [BeginTransition(p, t) EXCEPT !.task[t].flow = "start"]
       IN  IF ~Enabled(p.settings) THEN Finish(MarkIdle(q), t)
           ELSE Await(Post(q, "claim", t, NoSession), t, "claim")

\* What the caller of stopEnhancement() does when it is done.
AfterStop(p, t) ==
  CASE p.task[t].then = "end"      -> Finish(p, t)
    [] p.task[t].then = "schedule" -> Finish(Schedule(p), t)
    [] p.task[t].then = "restart"  -> StartEnhancement([p EXCEPT !.wanted = TRUE], t)

StopThen(p, t, native, then) ==
  LET q == [StopHere(p, native, t) EXCEPT !.task[t].then = then]
  IN  IF StopsNative(p, native) THEN Await(q, t, "stopping") ELSE AfterStop(q, t)

\* The catch of a start or a switch whose transition is still the latest.
Fail(p, t) == StopThen(p, t, p.task[t].flow = "toWeb" /\ NativeActive(p), "end")

SwitchToNative(p, t) ==
  LET q == [p EXCEPT !.task[t].flow = "toNative"]
  IN  IF AllowsNative(p.settings) THEN RequestNative(q, t) ELSE Fail(q, t)

\* A backend is up: a start owns the slot already, a switch asks for it.
\* Another enhancer of the page may have to be stopped first (busy).
BackendUp(p, t, busy) ==
  IF p.task[t].flow # "start" /\ busy THEN Await(p, t, "slot") ELSE Commit(p, t)

OwnRenderer(p, t, busy) ==
  BackendUp([MarkActive(p, "webgpu-active") EXCEPT
               !.renderer = TRUE, !.owns = TRUE, !.task[t].made = FALSE], t, busy)

HandleRendererError(p, t) ==
  IF p.destroyed THEN Finish(p, t) ELSE SwitchToNative(BeginTransition(p, t), t)

\* A page without WebGPU for this video falls back, unless WebGPU is forced.
InitFailed(p, t) ==
  IF ~p.task[t].cur THEN Finish(p, t)
  ELSE IF AllowsNative(p.settings) THEN RequestNative(p, t) ELSE Fail(p, t)

-----------------------------------------------------------------------------
(* The two queued operations: a reconciliation and a settings change.      *)

\* reconcile() once it has its settings.
Decide(p, t) ==
  LET q == [p EXCEPT !.blocked = @ /\ p.full]
      run == Enabled(p.settings) /\ p.full /\ ~q.blocked
      free == ~p.renderer /\ ~NativeActive(p) /\ ~Starting(p)
  IN  CASE run /\ p.settings # "manual" /\ free /\ ~ActiveFallback(p) ->
             StartEnhancement([q EXCEPT !.automatic = TRUE, !.task[t].kind = "auto"], t)
        [] ~run /\ (p.automatic \/ ~free \/ p.pending # Nobody) ->
             StopThen([q EXCEPT !.automatic = FALSE], t, TRUE, "end")
        [] OTHER -> Finish(q, t)

\* mutant: the token is not looked at again after the settings were read
LoadedRegardless(p, t, settings) ==
  IF p.destroyed THEN Finish(p, t) ELSE Decide([p EXCEPT !.settings = settings], t)

\* The settings were read from storage while anything could happen.
Loaded(p, t, settings) ==
  IF p.destroyed \/ ~p.task[t].fresh THEN Finish(p, t)
  ELSE Decide([p EXCEPT !.settings = settings], t)

Reconcile(p, t) ==
  IF p.destroyed \/ ~p.task[t].fresh \/ ~p.attached THEN Finish(p, t)
  ELSE IF p.settings = "none" THEN Await(p, t, "load")
  ELSE Decide(p, t)

\* switchActiveNativeToWebGPU() up to its await: the ledger remembers the
\* session given up, whose end is then no surprise.
SwitchToWeb(p, t) ==
  LET q == [BeginTransition(p, t) EXCEPT
              !.session = NoSession, !.abandoned = p.session, !.switch = t, !.task[t].flow = "toWeb"]
  IN  Await(Post(CancelPending(q), "stop", t, p.session), t, "switchstop")

ApplySettings(p, t, to) ==
  LET q == [p EXCEPT !.settings = to, !.task[t].prev = p.settings]
      native == SelectBackend(p, to) = "native"
      busy == Starting(p) \/ p.pending # Nobody
  IN  CASE p.destroyed -> Finish(p, t)
        [] ~p.destroyed /\ ~Enabled(to) ->
             IF p.renderer \/ NativeActive(p) \/ busy
             THEN StopThen([q EXCEPT !.automatic = FALSE], t, TRUE, "end")
             ELSE Finish([q EXCEPT !.automatic = FALSE, !.applied = FALSE], t)
        [] ~p.destroyed /\ Enabled(to) /\ ~p.renderer /\ ~NativeActive(p) ->
             IF busy THEN StopThen(q, t, TRUE, "schedule") ELSE Finish(Schedule(q), t)
        [] ~p.destroyed /\ Enabled(to) /\ NativeActive(p) ->
             IF native
             THEN Await(Post(BeginTransition(q, t), "update", t, p.session), t, "update")
             ELSE SwitchToWeb(q, t)
        [] OTHER ->
             IF native THEN SwitchToNative(BeginTransition(q, t), t)
             ELSE [Await(q, t, "reconfig") EXCEPT !.task[t].stale = FALSE]

\* An auto-cap step is dropped when the renderer it configures is gone.
ApplyCapStep(p, t) ==
  IF p.destroyed \/ ~p.renderer THEN Finish(p, t)
  ELSE [Await(p, t, "reconfig") EXCEPT !.task[t].stale = FALSE]

-----------------------------------------------------------------------------
(* What resumes an operation: an answer of the background, or the page.    *)

Answered(t, pc) ==
  /\ page.task[t].pc = pc
  /\ inbox # <<>> /\ Head(inbox).to = t
  /\ inbox' = Tail(inbox)
  /\ UNCHANGED <<host, stored, started, left>>

Resumed(t, pc) ==
  /\ page.task[t].pc = pc
  /\ UNCHANGED <<inbox, host, stored, started, left>>

Claimed(t) ==
  /\ Answered(t, "claim")
  /\ \E busy \in BOOLEAN :
       page' = IF ~page.task[t].cur THEN Finish(page, t)
               ELSE IF ~Head(inbox).ok THEN Fail(page, t)
               ELSE IF busy /\ page.task[t].flow = "start" THEN Await(page, t, "slot")
               ELSE Proceed(page, t)

\* The other enhancer of the page has stopped.
SlotFree(t) ==
  /\ Resumed(t, "slot")
  /\ page' = IF ~page.task[t].cur THEN Finish(page, t)
             ELSE IF page.task[t].flow = "start" THEN Proceed(page, t) ELSE Commit(page, t)

\* mutant: a renderer whose start was superseded meanwhile is forgotten
CreatedForgotten(p, t, busy) ==
  LET q == [p EXCEPT !.alive = @ + 1, !.task[t].made = TRUE]
  IN  IF ~p.task[t].cur THEN Finish([p EXCEPT !.alive = @ + 1], t)
      ELSE IF p.task[t].stale THEN [Await(q, t, "align") EXCEPT !.task[t].stale = FALSE]
      ELSE OwnRenderer(q, t, busy)

\* The renderer exists: destroyed again when its start was superseded, moved to
\* the latest node when the player replaced it meanwhile, and else owned.
RendererCreated(p, t, busy) ==
  LET q == [p EXCEPT !.alive = @ + 1, !.task[t].made = TRUE]
  IN  IF ~p.task[t].cur THEN Finish(p, t)
      ELSE IF p.task[t].stale THEN [Await(q, t, "align") EXCEPT !.task[t].stale = FALSE]
      ELSE OwnRenderer(q, t, busy)

Created(t) ==
  /\ Resumed(t, "create")
  /\ \/ \E busy \in BOOLEAN : page' = RendererCreated(page, t, busy)
     \/ page' = InitFailed(page, t)

Aligned(t) ==
  LET dropped == [page EXCEPT !.alive = @ - 1, !.task[t].made = FALSE]
  IN  /\ Resumed(t, "align")
      /\ \/ \E busy \in BOOLEAN :
              page' = IF ~page.task[t].cur THEN Finish(dropped, t)
                      ELSE IF page.task[t].stale THEN [page EXCEPT !.task[t].stale = FALSE]
                      ELSE OwnRenderer(page, t, busy)
         \/ page' = InitFailed(dropped, t)

\* The request left the ledger, unless a newer one took its place.
Settled(p, t) == [p EXCEPT !.pending = IF @ = t THEN Nobody ELSE @]

\* A session that comes after its stop is stopped before the caller hears of it.
FallbackAnswered(t) ==
  LET p == page
      r == Head(inbox)
      q == Settled(p, t)
  IN  /\ Answered(t, "fallback")
      /\ \E busy \in BOOLEAN :
           page' = IF r.ok /\ p.task[t].cancelled THEN Await(Post(p, "stop", t, r.sid), t, "absorb")
                   ELSE IF ~p.task[t].cur THEN Finish(q, t)
                   ELSE IF r.ok /\ ~p.task[t].cancelled
                   THEN BackendUp([MarkActive(q, "native-active") EXCEPT !.session = r.sid], t, busy)
                   ELSE Fail(q, t)

Absorbed(t) ==
  /\ Answered(t, "absorb")
  /\ page' = IF page.task[t].cur THEN Fail(Settled(page, t), t) ELSE Finish(Settled(page, t), t)

Stopped(t) == Answered(t, "stopping") /\ page' = AfterStop(page, t)

\* mutant: a session that ended during the update is committed again
UpdatedBlindly(p, t, ok) ==
  IF ~p.task[t].cur THEN Finish(p, t)
  ELSE IF ok THEN Finish(MarkActive(p, "native-active"), t)
  ELSE Finish([MarkActive(p, "native-active") EXCEPT !.settings = p.task[t].prev], t)

\* updateActiveNativeConfiguration() after its await.
Updated(p, t, ok) ==
  LET alive == IF p.session # NoSession THEN MarkActive(p, "native-active") ELSE p
  IN  IF ~p.task[t].cur THEN Finish(p, t)
      ELSE IF ok /\ p.session # NoSession THEN Finish(alive, t)
      ELSE Finish([alive EXCEPT !.settings = p.task[t].prev], t)

UpdateAnswered(t) == Answered(t, "update") /\ page' = Updated(page, t, Head(inbox).ok)

SwitchStopped(t) ==
  /\ Answered(t, "switchstop")
  /\ page' = IF page.task[t].cur THEN Await(Post(page, "claim", t, NoSession), t, "claim")
             ELSE Finish(page, t)

\* renderer.updateConfiguration() settles, or fails with the renderer gone or not.
Reconfigured(t) ==
  LET p == page
      restored == [p EXCEPT !.settings = p.task[t].prev]
      same == ~p.task[t].stale
  IN  /\ Resumed(t, "reconfig")
      /\ \/ page' = Finish(p, t)
         \/ /\ p.task[t].kind = "update"
            /\ \E died \in BOOLEAN :
                 page' = IF same /\ died THEN StopThen(restored, t, FALSE, "end")
                         ELSE Finish(restored, t)
         \/ /\ p.task[t].kind # "update"
            /\ page' = IF same THEN HandleRendererError(p, t) ELSE Finish(p, t)

\* reattach(): the renderer follows the new node, or fails like any renderer.
SourceSwitched(t) ==
  /\ Resumed(t, "source")
  /\ \/ page' = Finish(page, t)
     \/ page' = IF page.destroyed \/ page.task[t].stale
                THEN [page EXCEPT !.task[t] = NoTask]
                ELSE HandleRendererError(page, t)

SettingsLoaded(t) ==
  /\ Resumed(t, "load")
  /\ \/ page' = Loaded(page, t, stored)
     \/ page' = Finish(page, t)

\* The queue starts its next operation when the last one has settled.
RunJob ==
  LET job == Head(page.queue)
      p == [page EXCEPT !.queue = Tail(@),
                        !.task["job"] = [NoTask EXCEPT !.kind = job.kind, !.fresh = job.fresh]]
  IN  /\ page.task["job"].pc = "none"
      /\ page.queue # <<>>
      /\ page' = CASE job.kind = "reconcile" -> Reconcile(p, "job")
                   [] job.kind = "update"    -> ApplySettings(p, "job", job.to)
                   [] job.kind = "cap"       -> ApplyCapStep(p, "job")
      /\ UNCHANGED <<inbox, host, stored, started, left>>

Queued(p, kind, fresh, to) ==
  [p EXCEPT !.queue = Append(@, [kind |-> kind, fresh |-> fresh, to |-> to])]

TimerFires ==
  /\ page.timer # "off"
  /\ page' = Queued([page EXCEPT !.timer = "off"], "reconcile", page.timer = "live", "none")
  /\ UNCHANGED <<inbox, host, stored, started, left>>

Constructed ==
  /\ page.constructing
  /\ page' = [Schedule(IF page.destroyed THEN page ELSE [page EXCEPT !.settings = stored])
                EXCEPT !.constructing = FALSE]
  /\ UNCHANGED <<inbox, host, stored, started, left>>

\* handleEvent(): the end of the session the page knows, or gave up on purpose.
SessionEnded ==
  LET r == Head(inbox)
      p == page
      mine == p.session # NoSession /\ r.sid = p.session
      givenUp == p.abandoned # NoSession /\ r.sid = p.abandoned
      intended == p.switch # Nobody /\ p.task[p.switch].cur
  IN  /\ inbox # <<>> /\ r.to = "event"
      /\ \E blocks \in BOOLEAN :
           page' = IF p.destroyed \/ ~(mine \/ givenUp) THEN p
                   ELSE IF intended
                   THEN [MarkIdle(p) EXCEPT !.session = NoSession, !.blocked = @ \/ blocks]
                   ELSE [ResetEnhancement(p) EXCEPT !.blocked = @ \/ blocks]
      /\ inbox' = Tail(inbox)
      /\ UNCHANGED <<host, stored, started, left>>

-----------------------------------------------------------------------------
(* The background: one request at a time, one session for the video.       *)

Serve ==
  LET m == Head(page.mail)
      reply(ok, sid) == IF m.from = Nobody THEN <<>> ELSE <<[to |-> m.from, ok |-> ok, sid |-> sid]>>
      ended == <<[to |-> "event", ok |-> TRUE, sid |-> host]>>
      matches == host # NoSession /\ m.sid \in {NoSession, host}
  IN  /\ page.mail # <<>>
      /\ page' = [page EXCEPT !.mail = Tail(@)]
      /\ \/ /\ m.op = "claim"
            /\ \E ok \in BOOLEAN : inbox' = inbox \o reply(ok, NoSession)
            /\ UNCHANGED <<host, started>>
         \/ /\ m.op = "start"
            /\ \/ inbox' = inbox \o reply(FALSE, NoSession) /\ UNCHANGED <<host, started>>
               \/ /\ host # NoSession
                  /\ inbox' = inbox \o reply(TRUE, host) /\ UNCHANGED <<host, started>>
               \/ /\ host = NoSession /\ started < MaxSessions
                  /\ started' = started + 1 /\ host' = started + 1
                  /\ inbox' = inbox \o reply(TRUE, started + 1)
         \/ /\ m.op = "update"
            /\ \E ok \in {FALSE, matches} : inbox' = inbox \o reply(ok, NoSession)
            /\ UNCHANGED <<host, started>>
         \/ /\ m.op = "stop"
            /\ host' = IF matches THEN NoSession ELSE host
            /\ \E told \in {FALSE, matches} :
                 inbox' = inbox \o (IF told THEN ended ELSE <<>>) \o reply(TRUE, NoSession)
            /\ UNCHANGED started
      /\ UNCHANGED <<stored, left>>

-----------------------------------------------------------------------------
(* What happens to the page.                                               *)

Stimulus ==
  /\ left > 0 /\ left' = left - 1
  /\ UNCHANGED started

PageOnly == Stimulus /\ UNCHANGED <<inbox, host, stored>>

Side(t) == t \in Sides /\ page.task[t].pc = "none"

\* Fullscreen, geometry or playback changed (full: the video is the one elected).
Activity ==
  /\ PageOnly
  /\ \E full \in BOOLEAN : page' = Schedule([page EXCEPT !.full = full])

ReapplySettings ==
  /\ Stimulus
  /\ \E to \in Settings \ {stored} :
       /\ stored' = to
       /\ page' = IF page.attached /\ ~page.destroyed THEN Queued(page, "update", FALSE, to) ELSE page
  /\ UNCHANGED <<inbox, host>>

\* Another video was chosen, here or in another frame.
ForceStop(t) ==
  /\ PageOnly /\ Side(t)
  /\ page.attached /\ ~page.destroyed
  /\ page' = StopThen(page, t, TRUE, "end")

\* The page comes back from the back/forward cache; its session did not survive.
BfcacheRestore(t) ==
  /\ Stimulus /\ Side(t) /\ ~page.destroyed
  /\ page' = IF NativeActive(page) THEN StopThen(page, t, TRUE, "schedule") ELSE page
  /\ host' = NoSession
  /\ UNCHANGED <<inbox, stored>>

Encrypted(t) ==
  LET p == [page EXCEPT !.protected = TRUE]
  IN  /\ PageOnly /\ Side(t)
      /\ page.attached /\ ~page.destroyed /\ ~page.protected
      /\ page' = IF NativeActive(p) \/ ~(p.renderer \/ Starting(p)) THEN p
                 ELSE SwitchToNative(BeginTransition(p, t), t)

RendererError(t) ==
  /\ PageOnly /\ Side(t)
  /\ page.renderer /\ page.owns
  /\ page' = HandleRendererError(page, t)

\* The auto target is refreshed 150 ms after a geometry change.
RefreshTarget(t) ==
  /\ PageOnly /\ Side(t)
  /\ page.renderer /\ page.settings # "none" /\ ~page.destroyed
  /\ page' = Await(page, t, "reconfig")

OverloadStep ==
  /\ PageOnly
  /\ page.renderer /\ page.phase = "webgpu-active"
  /\ page' = Queued(page, "cap", FALSE, "none")

\* No first frame 8 s after a start: one restart in the enhancer's life.
Watchdog(t) ==
  /\ PageOnly /\ Side(t)
  /\ ~page.destroyed /\ ~page.restarted /\ page.applied /\ page.renderer /\ ~NativeActive(page)
  /\ page' = StopThen([page EXCEPT !.restarted = TRUE], t, TRUE, "restart")

\* The player removed the node: an enhancer at work is kept for a while.
VideoRemoved ==
  /\ PageOnly
  /\ page.attached /\ ~page.destroyed
  /\ LET p == [page EXCEPT !.task = [t \in Tasks |->
                 [@[t] EXCEPT !.gone = page.task[t].gone \/ page.task[t].kind = "reattach"]]]
     IN  page' = IF page.applied
                 THEN [p EXCEPT !.attached = FALSE, !.applied = FALSE, !.timer = "off"]
                 ELSE DestroyNow(p)

Reattach(t) ==
  LET p == [page EXCEPT !.attached = TRUE, !.timer = "off",
              !.task = [u \in Tasks |->
                [@[u] EXCEPT !.stale = page.task[u].stale \/ page.task[u].pc \in {"create", "align"}]]]
      q == [p EXCEPT !.task[t] = [NoTask EXCEPT !.kind = "reattach"]]
  IN  /\ PageOnly /\ Side(t)
      /\ ~page.attached /\ ~page.destroyed
      /\ page' = IF page.renderer THEN Await(q, t, "source") ELSE Finish(q, t)

\* The stash expired, the page unloads or the extension was switched off.
Destroy ==
  /\ PageOnly
  /\ ~page.destroyed
  /\ page' = DestroyNow(page)

HostEnds ==
  /\ Stimulus
  /\ host # NoSession
  /\ host' = NoSession
  /\ inbox' = Append(inbox, [to |-> "event", ok |-> TRUE, sid |-> host])
  /\ UNCHANGED <<page, stored>>

EnhancerNext ==
  \/ \E t \in Tasks :
       \/ Claimed(t) \/ SlotFree(t) \/ Created(t) \/ Aligned(t) \/ FallbackAnswered(t)
       \/ Absorbed(t) \/ Stopped(t) \/ UpdateAnswered(t) \/ SwitchStopped(t)
       \/ Reconfigured(t) \/ SourceSwitched(t) \/ SettingsLoaded(t)
  \/ RunJob \/ TimerFires \/ Constructed \/ SessionEnded \/ Serve
  \/ Activity \/ ReapplySettings \/ OverloadStep \/ VideoRemoved \/ Destroy \/ HostEnds
  \/ \E t \in Sides :
       \/ ForceStop(t) \/ BfcacheRestore(t) \/ Encrypted(t) \/ RendererError(t)
       \/ RefreshTarget(t) \/ Watchdog(t) \/ Reattach(t)

EnhancerSpec == EnhancerInit /\ [][EnhancerNext]_enhancerVars

-----------------------------------------------------------------------------
(* Properties.                                                             *)

AtRest ==
  /\ \A t \in Tasks : page.task[t].pc = "none"
  /\ page.queue = <<>> /\ page.timer = "off"
  /\ page.mail = <<>> /\ inbox = <<>>

\* When nothing is under way any more, the phase tells what the enhancer holds:
\* no start is left pending, WebGPU is active exactly with a renderer and
\* native exactly with a session (video-enhancer.ts 597-600, 868-876).
PhaseTellsResources ==
  AtRest =>
    /\ page.phase # "starting"
    /\ page.renderer <=> page.phase = "webgpu-active"
    /\ page.session # NoSession <=> page.phase = "native-active"

\* Every renderer that was not destroyed is the enhancer's own or still in the
\* hands of the start that made it (video-enhancer.ts 376-412).
RenderersAccounted ==
  page.alive = Cardinality({t \in Tasks : page.task[t].made}) + (IF page.renderer THEN 1 ELSE 0)

\* An explicit stop holds: nothing starts or runs again until something new
\* asks for it, not even a reconcile that was reading the settings
\* (video-enhancer.ts 890-893, enhancer-fullscreen-reconciler.ts 112).
StopsHold ==
  (page.renderer \/ page.session # NoSession \/ page.phase = "starting") => page.wanted

\* Claimed by the comments on stopEnhancement() and destroy() (video-enhancer.ts
\* 818-823, 882-887): an enhancer never lets go of a session that still
\* captures.  A stop while a configuration update is in flight does: the phase
\* it reads is "starting", not "native-active".
StopsOwnedSession == AtRest /\ host # NoSession => page.session = host

=============================================================================
