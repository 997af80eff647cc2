---------------------------- MODULE NativeSession ----------------------------
(***************************************************************************)
(* The native capture session of AniWebScale, end to end: the background   *)
(* worker that serializes every transition (src/background/native-         *)
(* session.ts, router.ts, background.ts, session-store.ts, native-         *)
(* bridge.ts), the pages it marks, the content scripts' enhancers with     *)
(* their ledger of fallback requests (src/core/native-session-client.ts,   *)
(* video-enhancer.ts), and the native host.                                *)
(*                                                                         *)
(* An action is the code between two awaits. The worker can die at any     *)
(* such point: it loses its memory and queue, its host dies with the port, *)
(* and storage stays. A session is named by the request it was started     *)
(* for (the code draws a random id and nonce). Every video lives in a tab  *)
(* of its own.                                                             *)
(***************************************************************************)
EXTENDS Integers, Sequences, FiniteSets

CONSTANTS
  Video,       \* videos that may be enhanced
  Framed,      \* those whose player lives in an iframe
  MaxRequest,  \* bound: fallback requests per behaviour
  MaxQueue,    \* bound: tasks waiting in the worker's queue
  MaxEvents    \* bound: starts and stops by the user, tabs that leave, disabling,
               \* host faults and exits, and worker deaths, together

ASSUME SessionAssumption ==
  /\ Framed \subseteq Video
  /\ 0 \notin Video
  /\ {MaxRequest, MaxQueue, MaxEvents} \subseteq Nat

Request == 1..MaxRequest
Session == Request
NoVideo == 0
NoSession == [s |-> 0, v |-> NoVideo, phase |-> "off"]
Kinds == {"claim", "release", "start", "stop", "hostStop", "exitStop", "navStop",
          "closeStop", "disable", "recover", "update", "push", "playback"}
Unused == [v |-> NoVideo, stop |-> FALSE, st |-> "unused", s |-> 0]
Spent == [Unused EXCEPT !.st = "done"]
NoStop == [expect |-> 0, notify |-> FALSE, restore |-> FALSE, next |-> "idle", owner |-> NoVideo]

VARIABLES
  \* background worker, volatile
  queue,       \* tasks of the serializer, the running one first
  pc,          \* where in the running task, "idle" between tasks
  stopping,    \* parameters of the stopNativeSession call in progress
  loaded,      \* the session record is in memory
  client,      \* port to the host: "none", "open", "dropped"
  routing,     \* stops that await the forwarding of the event that caused them
  \* background worker, durable
  session,     \* NativeSessionRecord in storage
  claim,       \* ActiveEnhancementRecord in storage
  enabled,     \* extensionEnabled
  settings,    \* SETTINGS_UPDATED: "none", "sent", "queued", "clear"
  \* pages
  present,     \* videos whose page still exists
  frameMark,   \* session whose isolation is active in the video's frame
  titleMark,   \* session whose nonce is in the tab's title
  \* content scripts
  phase,       \* the enhancer: "off", "claiming", "page", "asking", "native", "updating"
  sid,         \* session a native enhancer follows
  answer,      \* reply to its claim or update on the way: "none", "ok", "no"
  ledger,      \* its pending fallback request, 0 when none
  req,         \* every fallback request
  notes,       \* session-ended events on their way to a frame
  \* native host
  capturing,   \* session the host captures, 0 when none
  \* history and bounds
  begun,       \* sessions that ever were on record
  unverified,  \* sessions whose tab recovery could not verify
  forsaken,    \* sessions their enhancer let go of and did not ask to stop
  events

workerVars  == <<queue, pc, stopping>>
memoryVars  == <<loaded, client, routing>>
durableVars == <<session, claim>>
switchVars  == <<enabled, settings>>
pageVars    == <<present, frameMark, titleMark>>
enhVars     == <<phase, sid, answer, ledger, req, notes>>
ghostVars   == <<begun, unverified, forsaken>>
vars == <<workerVars, memoryVars, durableVars, switchVars, pageVars, enhVars, capturing,
          ghostVars, events>>

Init ==
  /\ queue = <<>> /\ pc = "idle" /\ stopping = NoStop
  /\ loaded = FALSE /\ client = "none" /\ routing = {}
  /\ session = NoSession /\ claim = NoVideo
  /\ enabled = TRUE /\ settings = "none"
  /\ present = Video
  /\ frameMark = [v \in Video |-> 0] /\ titleMark = [v \in Video |-> 0]
  /\ phase = [v \in Video |-> "off"] /\ sid = [v \in Video |-> 0]
  /\ answer = [v \in Video |-> "none"] /\ ledger = [v \in Video |-> 0]
  /\ req = [r \in Request |-> Unused]
  /\ notes = {}
  /\ capturing = 0
  /\ begun = {} /\ unverified = {} /\ forsaken = {}
  /\ events = 0
-----------------------------------------------------------------------------
(***************************************************************************)
(* Helpers.                                                                *)
(***************************************************************************)
Task(kind, v, n) == [kind |-> kind, v |-> v, n |-> n]
Room == Len(queue) < MaxQueue
Event == events < MaxEvents /\ events' = events + 1

\* The record the listeners and the event router see.
ActiveSession == IF loaded THEN session ELSE NoSession
IsActiveOf(v) == loaded /\ session.s # 0 /\ session.v = v

\* loadPersistedSession: a record was stored.
Persisted == session # NoSession

\* The serializer runs one task at a time, in order.
Job == Head(queue)
Takes(kinds) == pc = "idle" /\ queue # <<>> /\ Job.kind \in kinds
Waiting(kind, v) == \E i \in 2..Len(queue) : queue[i].kind = kind /\ queue[i].v = v
Done == pc' = "idle" /\ stopping' = NoStop /\ queue' = Tail(queue)

\* The task calls stopNativeSession and goes on at `next`.
CallStop(expect, notify, restore, next) ==
  /\ pc' = "stop" /\ UNCHANGED queue
  /\ stopping' = [NoStop EXCEPT !.expect = expect, !.notify = notify,
                                !.restore = restore, !.next = next]

\* The reply to request r; nobody receives it once the page is gone.
Outcome(r, outcome, s) ==
  IF req[r].v \in present THEN [req[r] EXCEPT !.st = outcome, !.s = s] ELSE Spent
Answered(r, outcome, s) == [req EXCEPT ![r] = Outcome(r, outcome, s)]

\* sendSessionEvent: every event forwarded to a frame is scoped to the session.
Scoped == [v |-> session.v, s |-> session.s]

\* An event that ends session s is forwarded to its frame, and a stop of that
\* session is enqueued once the frame has answered.
Forward(kind) ==
  /\ notes' = IF ActiveSession.s # 0 /\ ActiveSession.v \in present
                THEN notes \cup {Scoped} ELSE notes
  /\ routing' = IF ActiveSession.s # 0
                  THEN routing \cup {[kind |-> kind, s |-> session.s]} ELSE routing
-----------------------------------------------------------------------------
(***************************************************************************)
(* The worker: claims.                                                     *)
(***************************************************************************)
\* The reply to a claim counts only if it is the enhancer's latest.
AnswerClaim(v, outcome) ==
  IF v \in present /\ phase[v] = "claiming" /\ ~Waiting("claim", v)
    THEN [answer EXCEPT ![v] = outcome]
    ELSE answer

\* doClaimEnhancement: refused when disabled, granted at once when no other
\* video holds the claim; otherwise the other video is stopped first.
TakeClaim ==
  /\ Takes({"claim"})
  /\ \/ /\ ~enabled
        /\ answer' = AnswerClaim(Job.v, "no")
        /\ Done
        /\ UNCHANGED claim
     \/ /\ enabled /\ claim \in {NoVideo, Job.v}
        /\ claim' = Job.v
        /\ answer' = AnswerClaim(Job.v, "ok")
        /\ Done
     \/ /\ enabled /\ claim \notin {NoVideo, Job.v} /\ IsActiveOf(claim)
        /\ CallStop(0, TRUE, TRUE, "claimed")
        /\ UNCHANGED <<claim, answer>>
     \/ /\ enabled /\ claim \notin {NoVideo, Job.v} /\ ~IsActiveOf(claim)
        /\ pc' = "forcing"
        /\ UNCHANGED <<queue, stopping, claim, answer>>
  /\ UNCHANGED <<memoryVars, session, switchVars, pageVars, phase, sid, ledger, req, notes,
                 capturing, ghostVars, events>>

\* What stopEnhancement does about the native session: the pending request is
\* marked, and NATIVE_STOP is sent if v follows a session or a request is pending.
\* While an update is under way v follows its session, but its backend is not
\* native: the session is left to itself.
NeedsNativeStop(v) == phase[v] = "native" \/ ledger[v] # 0
Forsaken(v) == IF NeedsNativeStop(v) THEN {} ELSE {sid[v]} \ {0}
Marked(r) == [q \in Request |-> IF q = r THEN [req[q] EXCEPT !.stop = TRUE] ELSE req[q]]

\* The messages of a stopEnhancement that also releases the claim.
Goodbye(v) == <<Task("release", v, 0)>>
              \o (IF NeedsNativeStop(v) THEN <<Task("stop", v, sid[v])>> ELSE <<>>)

\* ANIME4K_FORCE_STOP in the page that holds the claim: its enhancer stops
\* without releasing the claim, and answers once its NATIVE_STOP was answered.
ForceStop ==
  /\ pc = "forcing"
  /\ IF claim \in present
       THEN /\ phase' = [phase EXCEPT ![claim] = "off"]
            /\ sid' = [sid EXCEPT ![claim] = 0]
            /\ answer' = [answer EXCEPT ![claim] = "none"]
            /\ req' = Marked(ledger[claim])
            /\ forsaken' = forsaken \cup Forsaken(claim)
       ELSE UNCHANGED <<phase, sid, answer, req, forsaken>>
  /\ IF claim \in present /\ NeedsNativeStop(claim)
       THEN queue' = Append(queue, Task("stop", claim, sid[claim])) /\ pc' = "forced"
       ELSE UNCHANGED queue /\ pc' = "claimed"
  /\ UNCHANGED <<stopping, memoryVars, durableVars, switchVars, pageVars, ledger, notes,
                 capturing, begun, unverified, events>>

\* The forced page's NATIVE_STOP was answered, or the page went away.
ForceAnswered ==
  /\ pc = "forced"
  /\ claim \notin present \/ ~Waiting("stop", claim)
  /\ pc' = "claimed"
  /\ UNCHANGED <<queue, stopping, memoryVars, durableVars, switchVars, pageVars, enhVars,
                 capturing, ghostVars, events>>

Claimed ==
  /\ pc = "claimed"
  /\ claim' = Job.v
  /\ answer' = AnswerClaim(Job.v, "ok")
  /\ Done
  /\ UNCHANGED <<memoryVars, session, switchVars, pageVars, phase, sid, ledger, req, notes,
                 capturing, ghostVars, events>>

\* releaseEnhancement, and the clearing of the claim when its tab goes away.
TakeRelease ==
  /\ Takes({"release"})
  /\ claim' = IF claim = Job.v THEN NoVideo ELSE claim
  /\ Done
  /\ UNCHANGED <<memoryVars, session, switchVars, pageVars, enhVars, capturing, ghostVars,
                 events>>
-----------------------------------------------------------------------------
(***************************************************************************)
(* The worker: starting a session.                                         *)
(***************************************************************************)
\* resolveTrustedSender: a request must come from the video that holds the claim.
TrustedSender(v) == claim = v

\* doStartNativeFallback: a request that does not belong to the claimed video
\* is denied, otherwise the user is asked for consent.
TakeStart ==
  /\ Takes({"start"})
  /\ IF TrustedSender(Job.v)
       THEN pc' = "consent" /\ UNCHANGED <<queue, stopping, req>>
       ELSE Done /\ req' = Answered(Job.n, "no", 0)
  /\ UNCHANGED <<memoryVars, durableVars, switchVars, pageVars, phase, sid, answer, ledger,
                 notes, capturing, ghostVars, events>>

\* Consent is refused, or given (now or earlier). A session this video already
\* has is reconfigured; any other is stopped before the new one is prepared.
Consent ==
  /\ pc = "consent"
  /\ \/ /\ req' = Answered(Job.n, "no", 0)
        /\ Done
     \/ /\ IsActiveOf(Job.v)
        /\ pc' = "updating"
        /\ UNCHANGED <<queue, stopping, req>>
     \/ /\ ~IsActiveOf(Job.v)
        /\ CallStop(0, TRUE, TRUE, "start")
        /\ UNCHANGED req
  /\ UNCHANGED <<memoryVars, durableVars, switchVars, pageVars, phase, sid, answer, ledger,
                 notes, capturing, ghostVars, events>>

\* transport.connect: keeps an open port, else opens one to a fresh host or fails.
MayReconnect == client' \in {"open", IF client = "open" THEN "open" ELSE "none"}

\* updateNativeConfiguration: it needs a host that still captures the session;
\* the connection may fail, and a fresh host answers with an error event.
Reconfigured == capturing = session.s /\ UNCHANGED <<client, notes, routing>>
NotReconfigured ==
  \/ MayReconnect /\ UNCHANGED <<notes, routing>>
  \/ capturing # session.s /\ client' = "open" /\ Forward("hostStop")

\* ... on behalf of a start for the video that already has the session.
Updating ==
  /\ pc = "updating"
  /\ \/ Reconfigured /\ req' = Answered(Job.n, "ok", session.s)
     \/ NotReconfigured /\ req' = Answered(Job.n, "no", 0)
  /\ Done
  /\ UNCHANGED <<loaded, durableVars, switchVars, pageVars, phase, sid, answer, ledger,
                 capturing, ghostVars, events>>

\* The record of a session that starts.
Preparing(task) == [s |-> task.n, v |-> task.v, phase |-> "preparing"]

\* The previous session is gone: the new record is stored before anything else
\* happens, unless the tab is gone.
StartSession ==
  /\ pc = "start"
  /\ IF Job.v \notin present
       THEN /\ req' = Answered(Job.n, "no", 0)
            /\ Done
            /\ UNCHANGED <<loaded, session, begun>>
       ELSE /\ session' = Preparing(Job)
            /\ loaded' = TRUE
            /\ begun' = begun \cup {Job.n}
            /\ pc' = "prepare"
            /\ UNCHANGED <<queue, stopping, req>>
  /\ UNCHANGED <<client, routing, claim, switchVars, pageVars, phase, sid, answer, ledger,
                 notes, capturing, unverified, forsaken, events>>

StartFails == CallStop(0, TRUE, TRUE, "failed")

\* The marks of the pages once the page of the session is marked for it.
MarkedFor(mark) == [mark EXCEPT ![session.v] = session.s]

\* prepareDirectFullscreen: the player's frame is isolated (which also puts the
\* nonce in the title of a top frame), or it is no longer fullscreen.
Prepare ==
  /\ pc = "prepare"
  /\ \/ /\ StartFails
        /\ UNCHANGED <<frameMark, titleMark>>
     \/ /\ session.v \in present
        /\ frameMark' = MarkedFor(frameMark)
        /\ IF session.v \in Framed
             THEN pc' = "title" /\ UNCHANGED titleMark
             ELSE pc' = "measure" /\ titleMark' = MarkedFor(titleMark)
        /\ UNCHANGED <<queue, stopping>>
  /\ UNCHANGED <<memoryVars, durableVars, switchVars, present, enhVars, capturing, ghostVars,
                 events>>

\* The nonce in the title of the top frame of an iframe player.
SetTitle ==
  /\ pc = "title"
  /\ \/ /\ StartFails
        /\ UNCHANGED titleMark
     \/ /\ session.v \in present
        /\ titleMark' = MarkedFor(titleMark)
        /\ pc' = "measure"
        /\ UNCHANGED <<queue, stopping>>
  /\ UNCHANGED <<memoryVars, durableVars, switchVars, present, frameMark, enhVars, capturing,
                 ghostVars, events>>

\* measureDirectFullscreenCapture: the page is measured after its fullscreen
\* transition has settled, or it is no longer fullscreen.
Measure ==
  /\ pc = "measure"
  /\ \/ StartFails
     \/ session.v \in present /\ pc' = "connect" /\ UNCHANGED <<queue, stopping>>
  /\ UNCHANGED <<memoryVars, durableVars, switchVars, pageVars, enhVars, capturing, ghostVars,
                 events>>

\* The host is connected, or it is not.
Connect ==
  /\ pc = "connect"
  /\ \/ StartFails /\ MayReconnect
     \/ client' = "open" /\ pc' = "starting" /\ UNCHANGED <<queue, stopping>>
  /\ UNCHANGED <<loaded, routing, durableVars, switchVars, pageVars, enhVars, capturing,
                 ghostVars, events>>

\* The host gets the start request: it captures, or answers with an error event.
HostStart ==
  /\ pc = "starting" /\ client = "open"
  /\ \/ /\ capturing = 0 /\ capturing' = session.s
        /\ pc' = "started"
        /\ UNCHANGED <<queue, stopping, notes, routing>>
     \/ /\ Forward("hostStop")
        /\ StartFails
        /\ UNCHANGED capturing
  /\ UNCHANGED <<loaded, client, durableVars, switchVars, pageVars, phase, sid, answer, ledger,
                 req, ghostVars, events>>

\* The start reply arrives and the session is recorded as active.
Started ==
  /\ pc = "started"
  /\ session' = [session EXCEPT !.phase = "active"]
  /\ pc' = "reply"
  /\ UNCHANGED <<queue, stopping, memoryVars, claim, switchVars, pageVars, enhVars, capturing,
                 ghostVars, events>>

\* No start reply in 15 s, or the port closed: whether the host captures or not.
StartLost ==
  /\ pc \in {"starting", "started"}
  /\ StartFails
  /\ UNCHANGED <<memoryVars, durableVars, switchVars, pageVars, enhVars, capturing, ghostVars,
                 events>>

\* The start event was forwarded to the frame, or the failed start cleaned up:
\* the request is answered.
StartReply ==
  /\ pc \in {"reply", "failed"}
  /\ req' = IF pc = "reply" THEN Answered(Job.n, "ok", Job.n) ELSE Answered(Job.n, "no", 0)
  /\ Done
  /\ UNCHANGED <<memoryVars, durableVars, switchVars, pageVars, phase, sid, answer, ledger,
                 notes, capturing, ghostVars, events>>
-----------------------------------------------------------------------------
(***************************************************************************)
(* The worker: stopping a session.                                         *)
(***************************************************************************)
\* NATIVE_STOP: honoured only for the session of the sender's own video.
TakeStop ==
  /\ Takes({"stop"})
  /\ IF IsActiveOf(Job.v) /\ Job.n \in {0, session.s}
       THEN CallStop(0, TRUE, TRUE, "finish")
       ELSE Done
  /\ UNCHANGED <<memoryVars, durableVars, switchVars, pageVars, enhVars, capturing, ghostVars,
                 events>>

\* Settings and heartbeats reach the host only while the session they were sent
\* for is active; new settings from the options page, whichever is. The status
\* that answers a heartbeat is never forwarded, but ends a session whose host
\* does not capture it.
Authorized(task) ==
  /\ ActiveSession.s # 0
  /\ \/ task.kind = "push"
     \/ IsActiveOf(task.v) /\ task.n = session.s

\* The reply to an update counts only while its enhancer waits for it; whether the
\* host took the configuration is all the same to the session.
AnswerUpdate(task) ==
  IF task.kind = "update" /\ task.v \in present /\ phase[task.v] = "updating"
       /\ ~Waiting("update", task.v)
    THEN [answer EXCEPT ![task.v] = "ok"]
    ELSE answer

TakeControl ==
  /\ Takes({"update", "push", "playback"})
  /\ answer' = AnswerUpdate(Job)
  /\ \/ ~Authorized(Job) /\ UNCHANGED <<client, notes, routing>>
     \/ /\ Authorized(Job) /\ Job.kind # "playback"
        /\ Reconfigured \/ NotReconfigured
     \/ /\ Authorized(Job) /\ Job.kind = "playback" /\ MayReconnect
        /\ routing' = IF client' = "open" /\ capturing # session.s
                        THEN routing \cup {[kind |-> "hostStop", s |-> session.s]} ELSE routing
        /\ UNCHANGED notes
  /\ Done
  /\ UNCHANGED <<loaded, durableVars, switchVars, pageVars, phase, sid, ledger, req,
                 capturing, ghostVars, events>>

\* A stop enqueued by a host or tab event is for the session of that event only.
ScopedKinds == {"hostStop", "exitStop", "navStop", "closeStop"}
Scope(task) == task.n

TakeScopedStop ==
  /\ Takes(ScopedKinds)
  /\ CallStop(Scope(Job), Job.kind # "hostStop", Job.kind # "closeStop", "finish")
  /\ UNCHANGED <<memoryVars, durableVars, switchVars, pageVars, enhVars, capturing, ghostVars,
                 events>>

\* SETTINGS_UPDATED after the extension was disabled.
DisableUnclaims ==   \* mutant: disabling only clears the claim
  /\ Takes({"disable"}) /\ pc' = "disabled"
  /\ UNCHANGED <<queue, stopping, memoryVars, durableVars, switchVars, pageVars, enhVars,
                 capturing, ghostVars, events>>
TakeDisable ==
  /\ Takes({"disable"})
  /\ CallStop(0, TRUE, TRUE, "disabled")
  /\ UNCHANGED <<memoryVars, durableVars, switchVars, pageVars, enhVars, capturing, ghostVars,
                 events>>

StoppedLater == session   \* mutant: the stopping phase is not stored
Stopped == [session EXCEPT !.phase = "stopping"]

\* stopNativeSession: nothing to do for another session, a bare disconnect when
\* there is none; otherwise the record is marked stopping.
Stop ==
  /\ pc = "stop"
  /\ \/ /\ stopping.expect \notin {0, session.s}
        /\ pc' = stopping.next
        /\ UNCHANGED <<loaded, client, session, capturing>>
     \/ /\ stopping.expect = 0 /\ session = NoSession
        /\ client' = "none" /\ capturing' = 0
        /\ pc' = stopping.next
        /\ UNCHANGED <<loaded, session>>
     \/ /\ stopping.expect \in {0, session.s} /\ session # NoSession
        /\ session' = Stopped
        /\ loaded' = TRUE
        /\ pc' = "notify"
        /\ UNCHANGED <<client, capturing>>
  /\ UNCHANGED <<queue, stopping, routing, claim, switchVars, pageVars, enhVars, ghostVars,
                 events>>

AfterNotified == IF stopping.notify THEN "restoreFrame" ELSE "drop"   \* mutant: wrong flag
AfterNotify == IF stopping.restore THEN "restoreFrame" ELSE "drop"

\* The host is asked to stop: it ends the capture and says so, which is also
\* routed as an event, or it does not answer within 3 s.
NotifyHost ==
  /\ pc = "notify"
  /\ pc' = AfterNotify
  /\ \/ /\ stopping.notify /\ client = "open"
        /\ capturing' = IF capturing = session.s THEN 0 ELSE capturing
        /\ Forward("hostStop")
     \/ UNCHANGED <<capturing, notes, routing>>
  /\ UNCHANGED <<queue, stopping, loaded, client, durableVars, switchVars, pageVars, phase, sid,
                 answer, ledger, req, ghostVars, events>>

\* The marks of the pages once the page of the session is restored. A page marked
\* for another session is left alone.
Restored(mark) ==
  [v \in Video |-> IF v = session.v /\ mark[v] = session.s THEN 0 ELSE mark[v]]

\* restoreContent: first the frame's isolation, then the title of the tab, by
\* which a restarted worker finds the page again.
RestoreFrame ==
  /\ pc = "restoreFrame"
  /\ frameMark' = Restored(frameMark)
  /\ titleMark' = IF session.v \in Framed THEN titleMark ELSE Restored(titleMark)
  /\ pc' = "restoreTitle"
  /\ UNCHANGED <<queue, stopping, memoryVars, durableVars, switchVars, present, enhVars,
                 capturing, ghostVars, events>>

RestoreTitle ==
  /\ pc = "restoreTitle"
  /\ titleMark' = Restored(titleMark)
  /\ pc' = "drop"
  /\ UNCHANGED <<queue, stopping, memoryVars, durableVars, switchVars, present, frameMark,
                 enhVars, capturing, ghostVars, events>>

\* Disconnecting closes the port, and the host exits with its renderer.
KeepPort == UNCHANGED <<client, capturing>>   \* mutant: the record goes, the port stays
ClosePort == client' = "none" /\ capturing' = 0

Cleared == NoSession

Drop ==
  /\ pc = "drop"
  /\ ClosePort
  /\ session' = Cleared
  /\ stopping' = [stopping EXCEPT !.owner = session.v]
  /\ pc' = "unclaim"
  /\ UNCHANGED <<queue, loaded, routing, claim, switchVars, pageVars, enhVars, ghostVars,
                 events>>

Unclaim ==
  /\ pc = "unclaim"
  /\ claim' = IF claim = stopping.owner THEN NoVideo ELSE claim
  /\ pc' = stopping.next
  /\ UNCHANGED <<queue, stopping, memoryVars, session, switchVars, pageVars, enhVars, capturing,
                 ghostVars, events>>

Finish ==
  /\ pc \in {"finish", "disabled"}
  /\ settings' = IF pc = "disabled" THEN "clear" ELSE settings
  /\ Done
  /\ UNCHANGED <<memoryVars, durableVars, enabled, pageVars, enhVars, capturing, ghostVars,
                 events>>
-----------------------------------------------------------------------------
(***************************************************************************)
(* The worker: death and recovery.                                         *)
(***************************************************************************)
NotRecovered == <<>>   \* mutant: only startup and installation recover
Restarted == <<Task("recover", NoVideo, 0)>>

\* The worker dies: memory, queue and port are lost, requests it had not
\* answered are rejected, and the new worker recovers the stored session when
\* its module is evaluated.
Crash ==
  /\ Event
  /\ queue' = Restarted
  /\ pc' = "idle" /\ stopping' = NoStop
  /\ loaded' = FALSE /\ client' = "none" /\ routing' = {}
  /\ capturing' = 0
  /\ req' = [r \in Request |-> IF req[r].st \in {"inbox", "queued"}
                                 THEN Outcome(r, "no", 0) ELSE req[r]]
  /\ answer' = [v \in Video |-> IF phase[v] \in {"claiming", "updating"} /\ answer[v] = "none"
                                  THEN "no" ELSE answer[v]]
  /\ settings' = IF settings = "sent" THEN "sent" ELSE "none"
  /\ UNCHANGED <<durableVars, enabled, pageVars, phase, sid, ledger, notes, ghostVars>>

\* Startup and installation events recover too, and may reach a worker that
\* already has a session.
Startup ==
  /\ Event /\ Room
  /\ queue' = Append(queue, Task("recover", NoVideo, 0))
  /\ UNCHANGED <<pc, stopping, memoryVars, durableVars, switchVars, pageVars, enhVars,
                 capturing, ghostVars>>

\* The page of the stored session is the one tab whose title has its nonce.
NonceIn(v) == v \in present /\ titleMark[v] = session.s
Verified == NonceIn(session.v)

\* recoverPersistedSession: a session that was active in a page that can be
\* verified may go on; any other is stopped, and a page that cannot be verified
\* is not touched.
TakeRecover ==
  /\ Takes({"recover"})
  /\ \/ /\ ~Persisted
        /\ Done
        /\ UNCHANGED <<loaded, client, unverified>>
     \/ /\ Persisted /\ ~enabled
        /\ loaded' = TRUE
        /\ CallStop(0, TRUE, TRUE, "finish")
        /\ UNCHANGED <<client, unverified>>
     \/ /\ Persisted /\ enabled /\ ~Verified
        /\ loaded' = TRUE /\ MayReconnect
        /\ unverified' = unverified \cup {session.s}
        /\ CallStop(0, TRUE, FALSE, "finish")
     \/ /\ Persisted /\ enabled /\ Verified /\ session.phase # "active"
        /\ loaded' = TRUE /\ MayReconnect
        /\ CallStop(0, TRUE, TRUE, "finish")
        /\ UNCHANGED unverified
     \/ /\ Persisted /\ enabled /\ Verified /\ session.phase = "active"
        /\ loaded' = TRUE
        /\ pc' = "reattach"
        /\ UNCHANGED <<queue, stopping, client, unverified>>
  /\ UNCHANGED <<routing, durableVars, switchVars, pageVars, enhVars, capturing, begun,
                 forsaken, events>>

\* The host is asked for its status: only a host that still captures the
\* session keeps it; one that does not says so, which is routed as an event.
Reattach ==
  /\ pc = "reattach"
  /\ \/ /\ capturing = session.s
        /\ Done
        /\ UNCHANGED <<client, notes, routing>>
     \/ /\ capturing # session.s
        /\ client' = "open"
        /\ Forward("hostStop")
        /\ CallStop(0, TRUE, TRUE, "finish")
     \/ /\ MayReconnect
        /\ CallStop(0, TRUE, TRUE, "finish")
        /\ UNCHANGED <<notes, routing>>
  /\ UNCHANGED <<loaded, durableVars, switchVars, pageVars, phase, sid, answer, ledger, req,
                 capturing, ghostVars, events>>
-----------------------------------------------------------------------------
(***************************************************************************)
(* The native host and its events.                                         *)
(***************************************************************************)
\* The host or its renderer dies, the capture ends by itself, or the renderer
\* reports an error and goes on capturing.
HostFault ==
  /\ client = "open" /\ Event
  /\ \/ client' = "dropped" /\ capturing' = 0 /\ Forward("hostStop")
     \/ /\ capturing # 0 /\ capturing' = 0
        /\ IF ActiveSession.s = capturing THEN Forward("hostStop") ELSE UNCHANGED <<notes, routing>>
        /\ UNCHANGED client
     \/ Forward("hostStop") /\ UNCHANGED <<client, capturing>>
  /\ UNCHANGED <<workerVars, loaded, durableVars, switchVars, pageVars, phase, sid, answer,
                 ledger, req, ghostVars>>

\* The user leaves fullscreen in the host's window and the page confirms it.
HostExit ==
  /\ capturing # 0 /\ ActiveSession.s = capturing /\ session.v \in present
  /\ Event
  /\ routing' = routing \cup {[kind |-> "exitStop", s |-> session.s]}
  /\ UNCHANGED <<workerVars, loaded, client, durableVars, switchVars, pageVars, enhVars,
                 capturing, ghostVars>>

\* The event has been forwarded; the stop it causes joins the queue.
RouteStop ==
  /\ Room
  /\ \E e \in routing :
       /\ routing' = routing \ {e}
       /\ queue' = Append(queue, Task(e.kind, NoVideo, e.s))
  /\ UNCHANGED <<pc, stopping, loaded, client, durableVars, switchVars, pageVars, enhVars,
                 capturing, ghostVars, events>>
-----------------------------------------------------------------------------
(***************************************************************************)
(* The enhancer of a video.                                                *)
(***************************************************************************)
\* startEnhancement: the claim is requested first. A request that is still pending
\* holds it up, unless it was stopped.
Begin(v) ==
  /\ Event
  /\ v \in present /\ phase[v] = "off" /\ Room
  /\ ledger[v] # 0 => req[ledger[v]].stop
  /\ phase' = [phase EXCEPT ![v] = "claiming"]
  /\ queue' = Append(queue, Task("claim", v, 0))
  /\ UNCHANGED <<pc, stopping, memoryVars, durableVars, switchVars, pageVars, sid, answer,
                 ledger, req, notes, capturing, ghostVars>>

GotClaim(v) ==
  /\ phase[v] = "claiming" /\ answer[v] # "none"
  /\ answer' = [answer EXCEPT ![v] = "none"]
  /\ IF answer[v] = "ok"
       THEN phase' = [phase EXCEPT ![v] = "page"] /\ UNCHANGED queue
       ELSE phase' = [phase EXCEPT ![v] = "off"] /\ queue' = queue \o Goodbye(v)
  /\ Len(queue') <= MaxQueue
  /\ UNCHANGED <<pc, stopping, memoryVars, durableVars, switchVars, pageVars, sid, ledger, req,
                 notes, capturing, ghostVars, events>>

\* requestFallback: also from a start that protected playback overtakes, in
\* which case the older request is superseded, or from an update, whose reply
\* then no longer counts.
Ask(v) ==
  /\ v \in present /\ phase[v] \in {"page", "asking", "updating"}
  /\ \E r \in Request :
       /\ req[r].st = "unused" /\ \A q \in 1..(r - 1) : req[q].st # "unused"
       /\ req' = [Marked(ledger[v]) EXCEPT
                     ![r] = [v |-> v, stop |-> FALSE, st |-> "inbox", s |-> 0]]
       /\ ledger' = [ledger EXCEPT ![v] = r]
  /\ phase' = [phase EXCEPT ![v] = "asking"]
  /\ answer' = [answer EXCEPT ![v] = "none"]
  /\ UNCHANGED <<workerVars, memoryVars, durableVars, switchVars, pageVars, sid, notes,
                 capturing, ghostVars, events>>

\* NATIVE_FALLBACK_REQUEST waits for extensionEnabled before it is queued, so
\* messages sent later may overtake it.
Admit(r) ==
  /\ req[r].st = "inbox"
  /\ IF enabled
       THEN /\ Room
            /\ queue' = Append(queue, Task("start", req[r].v, r))
            /\ req' = [req EXCEPT ![r].st = "queued"]
       ELSE req' = Answered(r, "no", 0) /\ UNCHANGED queue
  /\ UNCHANGED <<pc, stopping, memoryVars, durableVars, switchVars, pageVars, phase, sid,
                 answer, ledger, notes, capturing, ghostVars, events>>

\* stopEnhancement: the claim is released and the native session, or the one a
\* pending request may still start, is stopped.
StopEnhancement(v) ==
  /\ Event
  /\ v \in present /\ (phase[v] # "off" \/ ledger[v] # 0)
  /\ phase' = [phase EXCEPT ![v] = "off"]
  /\ sid' = [sid EXCEPT ![v] = 0]
  /\ answer' = [answer EXCEPT ![v] = "none"]
  /\ req' = Marked(ledger[v])
  /\ queue' = queue \o Goodbye(v)
  /\ Len(queue') <= MaxQueue
  /\ forsaken' = forsaken \cup Forsaken(v)
  /\ UNCHANGED <<pc, stopping, memoryVars, durableVars, switchVars, pageVars, ledger, notes,
                 capturing, begun, unverified>>

\* A fallback request is answered. A late session of a request that was stopped
\* or superseded is stopped again; otherwise the enhancer follows the session or
\* gives up.
AbsorbNothing(r) == <<>>          \* mutant: a late session is left alone
AbsorbLate(r) == <<Task("stop", req[r].v, req[r].s)>>

GotReply(r) ==
  /\ req[r].st \in {"ok", "no"} /\ Room
  /\ LET v == req[r].v
     IN  /\ ledger' = [ledger EXCEPT ![v] = IF @ = r THEN 0 ELSE @]
         /\ \/ /\ req[r].stop /\ req[r].st = "ok"
               /\ queue' = queue \o AbsorbLate(r)
               /\ UNCHANGED <<phase, sid, forsaken>>
            \/ /\ req[r].stop /\ req[r].st = "no"
               /\ UNCHANGED <<queue, phase, sid, forsaken>>
            \/ /\ ~req[r].stop /\ req[r].st = "ok"
               /\ phase' = [phase EXCEPT ![v] = "native"]
               /\ sid' = [sid EXCEPT ![v] = req[r].s]
               /\ forsaken' = (forsaken \cup ({sid[v]} \ {0})) \ {req[r].s}
               /\ UNCHANGED queue
            \/ /\ ~req[r].stop /\ req[r].st = "no"
               /\ phase' = [phase EXCEPT ![v] = "off"]
               /\ sid' = [sid EXCEPT ![v] = 0]
               /\ forsaken' = forsaken \cup ({sid[v]} \ {0})
               /\ queue' = Append(queue, Task("release", v, 0))
  /\ req' = [req EXCEPT ![r] = Spent]
  /\ UNCHANGED <<pc, stopping, memoryVars, durableVars, switchVars, pageVars, answer, notes,
                 capturing, begun, unverified, events>>

\* A native enhancer passes on its playback state, every second, and new settings:
\* those it waits for to be taken, and its backend is not native meanwhile.
Heartbeat(v) ==
  /\ Event
  /\ v \in present /\ phase[v] = "native" /\ Room
  /\ queue' = Append(queue, Task("playback", v, sid[v]))
  /\ UNCHANGED <<pc, stopping, memoryVars, durableVars, switchVars, pageVars, enhVars, capturing,
                 ghostVars>>

UpdateNative(v) ==
  /\ Event
  /\ v \in present /\ phase[v] = "native" /\ Room
  /\ phase' = [phase EXCEPT ![v] = "updating"]
  /\ IF enabled
       THEN queue' = Append(queue, Task("update", v, sid[v])) /\ UNCHANGED answer
       ELSE answer' = [answer EXCEPT ![v] = "no"] /\ UNCHANGED queue
  /\ UNCHANGED <<pc, stopping, memoryVars, durableVars, switchVars, pageVars, sid, ledger, req,
                 notes, capturing, ghostVars>>

\* Taken or not, the enhancer follows its session again.
GotUpdate(v) ==
  /\ phase[v] = "updating" /\ answer[v] # "none"
  /\ phase' = [phase EXCEPT ![v] = "native"]
  /\ answer' = [answer EXCEPT ![v] = "none"]
  /\ UNCHANGED <<workerVars, memoryVars, durableVars, switchVars, pageVars, sid, ledger, req,
                 notes, capturing, ghostVars, events>>

\* A session-ended event reaches the frame: only the session followed counts,
\* whatever the enhancer is waiting for. A request under way stays pending.
GotNote(n) ==
  /\ n \in notes /\ notes' = notes \ {n} /\ Room
  /\ IF sid[n.v] = n.s
       THEN /\ phase' = [phase EXCEPT ![n.v] = "off"]
            /\ sid' = [sid EXCEPT ![n.v] = 0]
            /\ answer' = [answer EXCEPT ![n.v] = "none"]
            /\ queue' = Append(queue, Task("release", n.v, 0))
       ELSE UNCHANGED <<phase, sid, answer, queue>>
  /\ UNCHANGED <<pc, stopping, memoryVars, durableVars, switchVars, pageVars, ledger,
                 req, capturing, ghostVars, events>>

\* What the listeners enqueue when the tab of v goes to another address or is closed:
\* the clearing of its claim, and the stop of its session if it has one.
Departure(v, kind) ==
  <<Task("release", v, 0)>> \o (IF IsActiveOf(v) THEN <<Task(kind, v, session.s)>> ELSE <<>>)

\* The address of the tab changes within its document: the page and its enhancer
\* stay.
Reroute(v) ==
  /\ Event
  /\ v \in present
  /\ queue' = queue \o Departure(v, "navStop")
  /\ Len(queue') <= MaxQueue
  /\ UNCHANGED <<pc, stopping, memoryVars, durableVars, switchVars, pageVars, enhVars, capturing,
                 ghostVars>>

\* The tab navigates to another document or is closed: page and enhancer are gone.
Leave(v) ==
  /\ Event
  /\ v \in present /\ present' = present \ {v}
  /\ frameMark' = [frameMark EXCEPT ![v] = 0]
  /\ titleMark' = [titleMark EXCEPT ![v] = 0]
  /\ phase' = [phase EXCEPT ![v] = "off"]
  /\ sid' = [sid EXCEPT ![v] = 0]
  /\ answer' = [answer EXCEPT ![v] = "none"]
  /\ ledger' = [ledger EXCEPT ![v] = 0]
  /\ req' = [r \in Request |-> IF req[r].v = v /\ req[r].st \in {"ok", "no"}
                                 THEN Spent ELSE req[r]]
  /\ notes' = {n \in notes : n.v # v}
  /\ \E kind \in {"navStop", "closeStop"} : queue' = queue \o Departure(v, kind)
  /\ Len(queue') <= MaxQueue
  /\ UNCHANGED <<pc, stopping, memoryVars, durableVars, switchVars, capturing, ghostVars>>

\* The user disables the extension: storage first, then SETTINGS_UPDATED, which
\* stops the session in the queue and then clears the claim outside of it.
Disable ==
  /\ Event
  /\ enabled /\ enabled' = FALSE /\ settings' = "sent"
  /\ UNCHANGED <<workerVars, memoryVars, durableVars, pageVars, enhVars, capturing, ghostVars>>

SettingsUpdated ==
  /\ settings = "sent" /\ settings' = "queued" /\ Room
  /\ queue' = Append(queue, Task("disable", NoVideo, 0))
  /\ UNCHANGED <<pc, stopping, memoryVars, durableVars, enabled, pageVars, enhVars, capturing,
                 ghostVars, events>>

\* SETTINGS_UPDATED while enabled: the configuration goes to the active session.
PushSettings ==
  /\ Event
  /\ enabled /\ claim # NoVideo /\ ActiveSession.s # 0 /\ Room
  /\ queue' = Append(queue, Task("push", NoVideo, 0))
  /\ UNCHANGED <<pc, stopping, memoryVars, durableVars, switchVars, pageVars, enhVars,
                 capturing, ghostVars>>

ClearActive ==
  /\ settings = "clear" /\ settings' = "none"
  /\ claim' = NoVideo
  /\ UNCHANGED <<workerVars, memoryVars, session, enabled, pageVars, enhVars, capturing,
                 ghostVars, events>>
-----------------------------------------------------------------------------
Take ==
  \/ TakeClaim \/ TakeRelease \/ TakeStart \/ TakeStop \/ TakeScopedStop \/ TakeDisable
  \/ TakeRecover \/ TakeControl
\* Steps of a running task that need no answer from the user or a forced page.
Continue ==
  \/ ForceStop \/ Claimed
  \/ Updating \/ StartSession \/ Prepare \/ SetTitle \/ Measure \/ Connect
  \/ HostStart \/ Started \/ StartLost \/ StartReply
  \/ Stop \/ NotifyHost \/ RestoreFrame \/ RestoreTitle \/ Drop \/ Unclaim \/ Finish
  \/ Reattach

Next ==
  \/ Take \/ Continue
  \/ Consent \/ ForceAnswered
  \/ Crash \/ Startup
  \/ HostFault \/ HostExit \/ RouteStop
  \/ \E v \in Video : Begin(v) \/ GotClaim(v) \/ Ask(v) \/ StopEnhancement(v) \/ Leave(v)
                        \/ Heartbeat(v) \/ UpdateNative(v) \/ GotUpdate(v) \/ Reroute(v)
  \/ \E r \in Request : Admit(r) \/ GotReply(r)
  \/ \E n \in notes : GotNote(n)
  \/ Disable \/ SettingsUpdated \/ ClearActive \/ PushSettings

Spec == Init /\ [][Next]_vars

\* The serializer keeps running tasks; the browser answers storage, tab and
\* message calls, and timers bound the host's. A consent prompt and a page that
\* was forced to stop may not answer.
FairSpec == Spec /\ WF_vars(Take) /\ WF_vars(Continue)
-----------------------------------------------------------------------------
(***************************************************************************)
(* Properties.                                                             *)
(***************************************************************************)
\* Types of the variables.
TypeOK ==
  /\ queue \in Seq([kind : Kinds, v : Video \cup {NoVideo}, n : Session \cup {0}])
  /\ pc \in {"idle", "forcing", "forced", "claimed", "consent", "updating", "start", "prepare",
             "title", "measure", "connect", "starting", "started", "reply", "failed", "stop",
             "notify", "restoreFrame", "restoreTitle", "drop", "unclaim", "finish", "disabled",
             "reattach"}
  /\ stopping \in [expect : Session \cup {0}, notify : BOOLEAN, restore : BOOLEAN,
                   next : {"idle", "claimed", "start", "failed", "finish", "disabled"},
                   owner : Video \cup {NoVideo}]
  /\ loaded \in BOOLEAN
  /\ client \in {"none", "open", "dropped"}
  /\ routing \subseteq [kind : {"hostStop", "exitStop"}, s : Session]
  /\ session \in [s : Session, v : Video, phase : {"preparing", "active", "stopping"}]
                   \cup {NoSession}
  /\ claim \in Video \cup {NoVideo}
  /\ enabled \in BOOLEAN /\ settings \in {"none", "sent", "queued", "clear"}
  /\ present \subseteq Video
  /\ frameMark \in [Video -> Session \cup {0}] /\ titleMark \in [Video -> Session \cup {0}]
  /\ phase \in [Video -> {"off", "claiming", "page", "asking", "native", "updating"}]
  /\ sid \in [Video -> Session \cup {0}]
  /\ answer \in [Video -> {"none", "ok", "no"}]
  /\ ledger \in [Video -> Request \cup {0}]
  /\ req \in [Request -> [v : Video \cup {NoVideo}, stop : BOOLEAN,
                          st : {"unused", "inbox", "queued", "ok", "no", "done"},
                          s : Session \cup {0}]]
  /\ notes \subseteq [v : Video, s : Session]
  /\ capturing \in Session \cup {0}
  /\ begun \subseteq Session /\ unverified \subseteq Session /\ forsaken \subseteq Session
  /\ events \in 0..MaxEvents

\* Whatever the host captures is the session on record, so a stop, a recovery or
\* an event can always reach it: no capture outlives its record, whichever way a
\* start fails and whenever the worker dies.
CaptureOnRecord == capturing # 0 => session.s = capturing /\ client = "open"

\* Nothing is under way: every task, message, reply and event has been handled.
Quiet ==
  /\ pc = "idle" /\ queue = <<>> /\ routing = {} /\ notes = {} /\ settings = "none"
  /\ \A v \in Video : answer[v] = "none" /\ phase[v] # "asking"
  /\ \A r \in Request : req[r].st \in {"unused", "done"}

\* When nothing is under way, a page is isolated or renamed only for the session
\* on record, except a page that recovery could not verify and left alone.
PagesRestored ==
  Quiet => \A v \in Video :
             {frameMark[v], titleMark[v]} \subseteq {0, session.s} \cup unverified

\* When nothing is under way, a session on record is active and an enhancer follows
\* it that can still stop it: a late start never leaves a session that nobody owns,
\* whatever is stopped, superseded, rerouted or lost meanwhile. Only a session that
\* the enhancer itself let go of during an update goes on without one.
SessionOwned ==
  Quiet /\ session # NoSession
    => /\ session.phase = "active"
       /\ \/ session.s \in forsaken
          \/ phase[session.v] = "native" /\ sid[session.v] = session.s

\* Once the extension is disabled and that has been handled, there is no session.
DisabledEnds == Quiet /\ ~enabled => session = NoSession

\* A stop caused by a host or tab event never touches another session, however
\* late it runs.
ScopedStopsSpareOthers ==
  [][queue # <<>> /\ Job.kind \in ScopedKinds /\ session.s # Job.n
       => session' = session \/ pc = "idle"]_vars

\* Every session passes through its phases once and never comes back, through
\* restarts of the worker: NativeSession implements SessionLifecycle.
Lifecycle == INSTANCE SessionLifecycle
  WITH current <- session.s, phase <- session.phase, used <- begun
SessionsInOrder == Lifecycle!Spec

\* A stop that has begun is carried through, also by a restarted worker: no
\* session stays in the stopping phase.
StopsFinish == session.phase = "stopping" ~> session.phase # "stopping"

(***************************************************************************)
(* What comments of the source say and the code does not keep.             *)
(***************************************************************************)
\* Every task the serializer starts settles: none waits for one queued behind it
\* (async-serializer.ts: operations "run one at a time, in order").
NoTaskWaitsForAnother == ~(pc = "forced" /\ claim \in present /\ Waiting("stop", claim))

\* A page whose fallback request is about to be answered with a session does not
\* drop an event that ends that session: "dropping it would leave a zombie session
\* whose cleanup never runs" (enhancer-native-observer.ts).
EndedEventsCount ==
  [][\A n \in notes \ notes' :
       pc' = "reply" /\ session'.s = n.s => req'[n.s].stop \/ n.v \notin present']_vars

\* Cleanup is shared by every way a session ends, restart recovery included: no
\* page stays isolated.
PagesAlwaysRestored ==
  Quiet => \A v \in Video : frameMark[v] \in {0, session.s}
=============================================================================
