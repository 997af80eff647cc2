-------------------------- MODULE NativeSessionProofs --------------------------
(***************************************************************************)
(* What holds of the native capture session for any videos, any number of  *)
(* fallback requests and events, any length of the worker's queue, and     *)
(* whenever the worker dies: no capture outlives its record, every session *)
(* passes through its phases once, a page is only marked for the session   *)
(* on record, disabling the extension ends the session, and no session is  *)
(* left that no enhancer follows.                                          *)
(***************************************************************************)
EXTENDS NativeSession, SequenceTheorems, TLAPS

USE SessionAssumption

Tasks == [kind : Kinds, v : Video \cup {NoVideo}, n : Session \cup {0}]
Requests == [v : Video \cup {NoVideo}, stop : BOOLEAN,
             st : {"unused", "inbox", "queued", "ok", "no", "done"}, s : Session \cup {0}]
Records == [s : Session, v : Video, phase : {"preparing", "active", "stopping"}]
Stops == [expect : Session \cup {0}, notify : BOOLEAN, restore : BOOLEAN,
          next : {"idle", "claimed", "start", "failed", "finish", "disabled"},
          owner : Video \cup {NoVideo}]

\* The types, by part.
QueueOK == queue \in Seq(Tasks)
WorkerOK ==
  /\ pc \in {"idle", "forcing", "forced", "claimed", "consent", "updating", "start", "prepare",
             "title", "measure", "connect", "starting", "started", "reply", "failed", "stop",
             "notify", "restoreFrame", "restoreTitle", "drop", "unclaim", "finish", "disabled",
             "reattach"}
  /\ stopping \in Stops
  /\ loaded \in BOOLEAN
  /\ client \in {"none", "open", "dropped"}
  /\ routing \subseteq [kind : {"hostStop", "exitStop"}, s : Session]
RecordOK ==
  /\ session \in Records \cup {NoSession}
  /\ claim \in Video \cup {NoVideo}
  /\ enabled \in BOOLEAN /\ settings \in {"none", "sent", "queued", "clear"}
PageOK ==
  /\ present \subseteq Video
  /\ frameMark \in [Video -> Session \cup {0}] /\ titleMark \in [Video -> Session \cup {0}]
  /\ notes \subseteq [v : Video, s : Session]
  /\ capturing \in Session \cup {0}
  /\ begun \subseteq Session /\ unverified \subseteq Session /\ forsaken \subseteq Session
  /\ events \in 0..MaxEvents
ScriptOK ==
  /\ phase \in [Video -> {"off", "claiming", "page", "asking", "native", "updating"}]
  /\ sid \in [Video -> Session \cup {0}]
  /\ answer \in [Video -> {"none", "ok", "no"}]
  /\ ledger \in [Video -> Request \cup {0}]
  /\ req \in [Request -> Requests]

LEMMA Types == TypeOK <=> QueueOK /\ WorkerOK /\ RecordOK /\ PageOK /\ ScriptOK
  BY DEF TypeOK, QueueOK, WorkerOK, RecordOK, PageOK, ScriptOK, Tasks, Requests, Records, Stops

StartPcs == {"prepare", "title", "measure", "connect", "starting", "started", "reply"}
DropPcs == {"notify", "restoreFrame", "restoreTitle", "drop"}
StopPcs == {"stop"} \cup DropPcs

\* A task is running exactly when the queue has one, and a start goes on where
\* only a start can be.
Running ==
  /\ pc # "idle" => queue # <<>>
  /\ pc \in {"consent", "updating", "start", "failed"} \cup StartPcs => Job.kind = "start"
  /\ pc \in StopPcs \cup {"unclaim"} => stopping.next # "idle"
  /\ pc \in StopPcs \cup {"unclaim"} /\ stopping.next \in {"start", "failed"}
       => Job.kind = "start" /\ stopping.expect = 0

\* The running start has not put its session on record.
Before == \/ pc \in {"idle", "consent", "updating", "start"}
          \/ pc \in StopPcs \cup {"unclaim"} /\ stopping.next = "start"

\* A queued start waits for its answer, no other task will give it one, and its
\* session has not been on record, unless it is the running one.
StartsQueued ==
  \A i \in DOMAIN queue : queue[i].kind = "start" =>
    /\ queue[i].n \in Request /\ queue[i].v \in Video
    /\ req[queue[i].n].st = "queued"
    /\ (i = 1 => Before) => queue[i].n \notin begun
StartsDiffer ==
  \A i, j \in DOMAIN queue :
    queue[i].kind = "start" /\ queue[j].kind = "start" /\ queue[i].n = queue[j].n => i = j
BegunAsked ==
  /\ \A r \in begun : req[r].st \notin {"unused", "inbox"}
  /\ \A r \in Request : req[r].st \notin {"unused", "done"} => req[r].v \in Video

\* What the record holds at each step of a start and of a stop.
Recorded ==
  /\ session # NoSession => session.s \in begun
  /\ pc \in StartPcs => /\ loaded /\ session.s = Job.n
                        /\ session.phase = IF pc = "reply" THEN "active" ELSE "preparing"
  /\ pc \in DropPcs => loaded /\ session.phase = "stopping"
  /\ pc \in {"start", "unclaim"} => session = NoSession

\* Pages.
Gone == \A v \in Video \ present : frameMark[v] = 0 /\ titleMark[v] = 0
MarkedOnly(mark) ==
  \A v \in Video : mark[v] # 0 /\ mark[v] \notin unverified => session.v = v /\ mark[v] = session.s
Restoring ==
  /\ pc \in {"restoreTitle", "drop"} /\ stopping.restore
       => frameMark[session.v] # session.s
  /\ pc = "drop" /\ stopping.restore => titleMark[session.v] # session.s
LeftAlone == session.s \in unverified \/ session.v \notin present
StopsApart ==
  /\ pc \in DropPcs => stopping.expect \in {0, session.s}
  /\ pc \in StopPcs /\ ~stopping.restore /\ session # NoSession
       /\ stopping.expect \in {0, session.s} => LeftAlone
  /\ \A i \in DOMAIN queue : queue[i].kind = "closeStop" =>
       queue[i].n \in begun /\ (session.s = queue[i].n => session.v \notin present)
PagesInv == Gone /\ MarkedOnly(frameMark) /\ MarkedOnly(titleMark) /\ Restoring /\ StopsApart

\* Disabling.
Ends(i) == /\ queue[i].kind \in {"disable", "recover"}
           /\ i = 1 => \/ pc = "idle"
                       \/ pc \in StopPcs /\ stopping.expect = 0
DisableOnce ==
  /\ enabled => settings = "none"
  /\ pc = "disabled" => Job.kind = "disable"
  /\ pc \in StopPcs \cup {"unclaim"} /\ stopping.next = "disabled" => Job.kind = "disable"
  /\ enabled \/ settings = "sent" =>
       \A i \in DOMAIN queue : queue[i].kind # "disable"
DisabledInv ==
  ~enabled /\ settings # "sent" =>
    /\ session # NoSession => \E i \in DOMAIN queue : Ends(i)
    /\ \A j \in DOMAIN queue : queue[j].kind = "start" =>
         \E i \in DOMAIN queue : i > j /\ Ends(i)
-----------------------------------------------------------------------------
(* How a step leaves the queue                                             *)

LEMMA TaskType ==
  ASSUME NEW kind \in Kinds, NEW v \in Video \cup {NoVideo}, NEW n \in Session \cup {0}
  PROVE  /\ Task(kind, v, n) \in Tasks
         /\ Task(kind, v, n).kind = kind /\ Task(kind, v, n).v = v /\ Task(kind, v, n).n = n
  BY DEF Task, Tasks

LEMMA JobType ==
  ASSUME QueueOK, queue # <<>>
  PROVE  Job \in Tasks /\ Tail(queue) \in Seq(Tasks) /\ 1 \in DOMAIN queue /\ Job = queue[1]
  BY DEF QueueOK, Job

\* The serializer pops the task it has finished; anybody appends.
Same == queue' = queue
Popped == queue # <<>> /\ queue' = Tail(queue) /\ pc' = "idle"
Added(s) == s \in Seq(Tasks) /\ queue' = queue \o s
Disabling == settings = "sent" /\ settings' = "queued"
Plain(s) == \A i \in DOMAIN s : /\ s[i].kind \notin {"start", "closeStop"}
                                /\ s[i].kind = "disable" => Disabling

LEMMA AppendIsAdd ==
  ASSUME QueueOK, NEW kind \in Kinds, kind \notin {"start", "closeStop"},
         NEW v \in Video \cup {NoVideo}, NEW n \in Session \cup {0},
         kind = "disable" => Disabling,
         queue' = Append(queue, Task(kind, v, n))
  PROVE  \E s : Added(s) /\ Plain(s)
<1> DEFINE t == Task(kind, v, n)
<1>1. t \in Tasks /\ t.kind = kind
  BY TaskType DEF Disabling
<1>2. queue' = Append(queue, t)
  OBVIOUS
<1> HIDE DEF t
<1>3. <<t>> \in Seq(Tasks) /\ Append(queue, t) = queue \o <<t>>
  BY <1>1 DEF QueueOK
<1>4. Plain(<<t>>)
  BY <1>1 DEF Plain
<1> QED  BY <1>2, <1>3, <1>4 DEF Added

LEMMA PlainConcat ==
  ASSUME NEW s \in Seq(Tasks), NEW t \in Seq(Tasks), Plain(s), Plain(t)
  PROVE  s \o t \in Seq(Tasks) /\ Plain(s \o t)
<1>1. /\ s \o t \in Seq(Tasks) /\ Len(s \o t) = Len(s) + Len(t)
      /\ \A i \in 1 .. Len(s) + Len(t) :
           (s \o t)[i] = IF i <= Len(s) THEN s[i] ELSE t[i - Len(s)]
  BY ConcatProperties
<1>2. DOMAIN s = 1..Len(s) /\ DOMAIN t = 1..Len(t) /\ DOMAIN (s \o t) = 1..Len(s \o t)
  BY <1>1, LenProperties
<1>3. Len(s) \in Nat /\ Len(t) \in Nat
  BY LenProperties
<1>4. ASSUME NEW i \in DOMAIN (s \o t)
      PROVE  (s \o t)[i].kind \notin {"start", "closeStop"}
             /\ ((s \o t)[i].kind = "disable" => Disabling)
  <2>1. i \in 1..(Len(s) + Len(t))
    BY <1>1, <1>2
  <2>2. CASE i <= Len(s)
    BY <1>1, <1>2, <1>3, <2>1, <2>2 DEF Plain
  <2>3. CASE i > Len(s)
    <3>1. i - Len(s) \in DOMAIN t /\ (s \o t)[i] = t[i - Len(s)]
      BY <1>1, <1>2, <1>3, <2>1, <2>3
    <3> QED  BY <3>1 DEF Plain
  <2> QED  BY <1>3, <2>1, <2>2, <2>3
<1> QED  BY <1>1, <1>4 DEF Plain

LEMMA GoodbyePlain ==
  ASSUME NEW v \in Video, ScriptOK
  PROVE  Goodbye(v) \in Seq(Tasks) /\ Plain(Goodbye(v))
<1>1. sid[v] \in Session \cup {0}
  BY DEF ScriptOK
<1>2. /\ Task("release", v, 0) \in Tasks /\ Task("release", v, 0).kind = "release"
      /\ Task("stop", v, sid[v]) \in Tasks /\ Task("stop", v, sid[v]).kind = "stop"
  BY <1>1, TaskType DEF Kinds
<1> DEFINE a == Task("release", v, 0)
           b == Task("stop", v, sid[v])
           c == IF NeedsNativeStop(v) THEN <<b>> ELSE <<>>
<1>3. a \in Tasks /\ b \in Tasks /\ a.kind = "release" /\ b.kind = "stop"
  BY <1>2
<1>4. Goodbye(v) = <<a>> \o c
  BY DEF Goodbye
<1> HIDE DEF a, b
<1>5. <<a>> \in Seq(Tasks) /\ Plain(<<a>>)
  BY <1>3 DEF Plain
<1>6. c \in Seq(Tasks) /\ Plain(c)
  BY <1>3 DEF Plain
<1> HIDE DEF c
<1> QED  BY <1>4, <1>5, <1>6, PlainConcat

LEMMA DepartureTasks ==
  ASSUME NEW v \in Video, NEW kind \in {"navStop", "closeStop"}, RecordOK
  PROVE  Departure(v, kind) \in Seq(Tasks) /\ (kind = "navStop" => Plain(Departure(v, kind)))
<1>1. session.s \in Session \cup {0}
  BY DEF RecordOK, Records, NoSession
<1> DEFINE a == Task("release", v, 0)
           b == Task(kind, v, session.s)
           c == IF IsActiveOf(v) THEN <<b>> ELSE <<>>
<1>2. a \in Tasks /\ b \in Tasks /\ a.kind = "release" /\ b.kind = kind
  BY <1>1, TaskType DEF Kinds
<1>3. Departure(v, kind) = <<a>> \o c
  BY DEF Departure
<1> HIDE DEF a, b
<1>4. <<a>> \in Seq(Tasks) /\ Plain(<<a>>)
  BY <1>2 DEF Plain
<1>5. c \in Seq(Tasks) /\ (kind = "navStop" => Plain(c))
  BY <1>2 DEF Plain
<1> HIDE DEF c
<1>6. <<a>> \o c \in Seq(Tasks)
  BY <1>4, <1>5
<1> QED  BY <1>3, <1>4, <1>5, <1>6, PlainConcat

LEMMA DeparturePlain ==
  ASSUME NEW v \in Video, RecordOK
  PROVE  Departure(v, "navStop") \in Seq(Tasks) /\ Plain(Departure(v, "navStop"))
  BY DepartureTasks

\* Steps of the running task.
LEMMA WorkerQueue ==
  ASSUME QueueOK, pc # "idle" => queue # <<>>,
         \/ Take
         \/ Claimed \/ Updating \/ StartSession \/ Prepare \/ SetTitle \/ Measure \/ Connect
         \/ HostStart \/ Started \/ StartLost \/ StartReply \/ Stop \/ NotifyHost
         \/ RestoreFrame \/ RestoreTitle \/ Drop \/ Unclaim \/ Finish \/ Reattach
         \/ Consent \/ ForceAnswered
  PROVE  Same \/ Popped
<1> USE DEF Same, Popped
<1>1. CASE TakeClaim
  BY <1>1 DEF TakeClaim, Takes, Done, CallStop
<1>2. CASE TakeRelease \/ TakeStart \/ TakeStop \/ TakeScopedStop \/ TakeDisable
  BY <1>2 DEF TakeRelease, TakeStart, TakeStop, TakeScopedStop, TakeDisable, Takes, Done, CallStop
<1>3. CASE TakeRecover
  BY <1>3 DEF TakeRecover, Takes, Done, CallStop
<1>4. CASE TakeControl
  BY <1>4 DEF TakeControl, Takes, Done
<1>5. CASE Claimed \/ Updating \/ StartReply \/ Finish
  BY <1>5 DEF Claimed, Updating, StartReply, Finish, Done
<1>6. CASE StartSession \/ Consent
  BY <1>6 DEF StartSession, Consent, Done, CallStop
<1>7. CASE Prepare \/ SetTitle \/ Measure \/ Connect \/ HostStart \/ Started \/ StartLost
  BY <1>7 DEF Prepare, SetTitle, Measure, Connect, HostStart, Started, StartLost, StartFails,
    CallStop
<1>8. CASE Stop \/ NotifyHost \/ RestoreFrame \/ RestoreTitle \/ Drop \/ Unclaim \/ ForceAnswered
  BY <1>8 DEF Stop, NotifyHost, RestoreFrame, RestoreTitle, Drop, Unclaim, ForceAnswered
<1>9. CASE Reattach
  BY <1>9 DEF Reattach, Done, CallStop
<1> QED  BY <1>1, <1>2, <1>3, <1>4, <1>5, <1>6, <1>7, <1>8, <1>9 DEF Take

\* Other steps that append tasks, none of which starts a session or follows a
\* page that went away.
LEMMA PlainQueue ==
  ASSUME QueueOK, ScriptOK, RecordOK, WorkerOK, PageOK,
         \/ ForceStop \/ Startup \/ RouteStop \/ SettingsUpdated \/ PushSettings
         \/ \E v \in Video : Begin(v) \/ GotClaim(v) \/ StopEnhancement(v) \/ Heartbeat(v)
                             \/ UpdateNative(v) \/ GotUpdate(v) \/ Reroute(v)
         \/ \E r \in Request : GotReply(r)
         \/ \E n \in notes : GotNote(n)
  PROVE  Same \/ \E s : Added(s) /\ Plain(s)
<1>1. CASE ForceStop
  <2>1. claim \in Video \/ claim \notin present
    BY DEF RecordOK, PageOK
  <2>2. CASE claim \in Video /\ queue' = Append(queue, Task("stop", claim, sid[claim]))
    <3>1. sid[claim] \in Session \cup {0}
      BY <2>2 DEF ScriptOK
    <3> QED  BY <2>2, <3>1, AppendIsAdd DEF Kinds
  <2> QED  BY <1>1, <2>1, <2>2 DEF ForceStop, Same
<1>2. CASE Startup
  BY <1>2, AppendIsAdd DEF Startup, Kinds
<1>3. CASE RouteStop
  <2>1. PICK e \in routing : queue' = Append(queue, Task(e.kind, NoVideo, e.s))
    BY <1>3 DEF RouteStop
  <2>2. e.kind \in {"hostStop", "exitStop"} /\ e.s \in Session
    BY DEF WorkerOK
  <2> QED  BY <2>1, <2>2, AppendIsAdd DEF Kinds
<1>4. CASE SettingsUpdated
  BY <1>4, AppendIsAdd DEF SettingsUpdated, Disabling, Kinds
<1>5. CASE PushSettings
  BY <1>5, AppendIsAdd DEF PushSettings, Kinds
<1>6. ASSUME NEW v \in Video, Begin(v)
      PROVE  \E s : Added(s) /\ Plain(s)
  BY <1>6, AppendIsAdd DEF Begin, Kinds
<1>7. ASSUME NEW v \in Video, GotClaim(v)
      PROVE  Same \/ \E s : Added(s) /\ Plain(s)
  BY <1>7, GoodbyePlain DEF GotClaim, Added, Same
<1>8. ASSUME NEW v \in Video, StopEnhancement(v)
      PROVE  \E s : Added(s) /\ Plain(s)
  BY <1>8, GoodbyePlain DEF StopEnhancement, Added
<1>9. ASSUME NEW v \in Video, Heartbeat(v) \/ UpdateNative(v) \/ GotUpdate(v)
      PROVE  Same \/ \E s : Added(s) /\ Plain(s)
  <2>1. sid[v] \in Session \cup {0}
    BY DEF ScriptOK
  <2>2. CASE queue' = Append(queue, Task("playback", v, sid[v]))
    BY <2>1, <2>2, AppendIsAdd DEF Kinds
  <2>3. CASE queue' = Append(queue, Task("update", v, sid[v]))
    BY <2>1, <2>3, AppendIsAdd DEF Kinds
  <2> QED  BY <1>9, <2>2, <2>3 DEF Heartbeat, UpdateNative, GotUpdate, Same, workerVars
<1>12. ASSUME NEW v \in Video, Reroute(v)
       PROVE  \E s : Added(s) /\ Plain(s)
  BY <1>12, DeparturePlain DEF Reroute, Added
<1>10. ASSUME NEW r \in Request, GotReply(r)
       PROVE  Same \/ \E s : Added(s) /\ Plain(s)
  <2>1. req[r].v \in Video \cup {NoVideo} /\ req[r].s \in Session \cup {0}
    BY DEF ScriptOK, Requests
  <2>2. CASE queue' = queue \o AbsorbLate(r)
    <3>1. queue' = queue \o <<Task("stop", req[r].v, req[r].s)>>
      BY <2>2 DEF AbsorbLate
    <3>2. Task("stop", req[r].v, req[r].s) \in Tasks /\ Task("stop", req[r].v, req[r].s).kind = "stop"
      BY <2>1, TaskType DEF Kinds
    <3> DEFINE t == Task("stop", req[r].v, req[r].s)
    <3>3. <<t>> \in Seq(Tasks) /\ Plain(<<t>>)
      <4> HIDE DEF t
      <4>1. t \in Tasks /\ t.kind = "stop"
        BY <3>2 DEF t
      <4> QED  BY <4>1 DEF Plain
    <3> QED  BY <3>1, <3>3 DEF Added
  <2>3. CASE queue' = Append(queue, Task("release", req[r].v, 0))
    BY <2>1, <2>3, AppendIsAdd DEF Kinds
  <2> QED  BY <1>10, <2>2, <2>3 DEF GotReply, Same
<1>11. ASSUME NEW n \in notes, GotNote(n)
       PROVE  Same \/ \E s : Added(s) /\ Plain(s)
  <2>1. n.v \in Video
    BY DEF PageOK
  <2>2. CASE queue' = Append(queue, Task("release", n.v, 0))
    BY <2>1, <2>2, AppendIsAdd DEF Kinds
  <2> QED  BY <1>11, <2>2 DEF GotNote, Same
<1> QED
  BY <1>1, <1>2, <1>3, <1>4, <1>5, <1>6, <1>7, <1>8, <1>9, <1>10, <1>11, <1>12

\* The others.
LEMMA OtherQueue ==
  ASSUME \/ HostFault \/ HostExit \/ Disable \/ ClearActive \/ \E v \in Video : Ask(v)
  PROVE  Same
  BY DEF HostFault, HostExit, Disable, ClearActive, Ask, Same, workerVars

Parting(v) == \E kind \in {"navStop", "closeStop"} : Added(Departure(v, kind))

LEMMA LeaveQueue ==
  ASSUME QueueOK, RecordOK, NEW v \in Video, Leave(v)
  PROVE  Parting(v)
  BY DepartureTasks DEF Leave, Parting, Added

Starting(r) == Added(<<Task("start", req[r].v, r)>>)

LEMMA AdmitQueue ==
  ASSUME QueueOK, ScriptOK, NEW r \in Request, Admit(r)
  PROVE  Same \/ Starting(r)
<1>1. CASE enabled
  <2>1. queue' = Append(queue, Task("start", req[r].v, r))
    BY <1>1 DEF Admit
  <2>2. req[r].v \in Video \cup {NoVideo}
    BY DEF ScriptOK, Requests
  <2> DEFINE t == Task("start", req[r].v, r)
  <2>3. t \in Tasks
    BY <2>2, TaskType DEF Kinds, Session
  <2> HIDE DEF t
  <2>4. <<t>> \in Seq(Tasks) /\ Append(queue, t) = queue \o <<t>>
    BY <2>3 DEF QueueOK
  <2> QED  BY <2>1, <2>4 DEF Starting, Added, t
<1> QED  BY <1>1 DEF Admit, Same

\* Whatever the pages, the host and the browser do, tasks only join the queue.
LEMMA OutsideQueue ==
  ASSUME TypeOK,
         \/ Startup \/ HostFault \/ HostExit \/ RouteStop
         \/ \E v \in Video : \/ Begin(v) \/ GotClaim(v) \/ Ask(v) \/ StopEnhancement(v)
                             \/ Leave(v) \/ Heartbeat(v) \/ UpdateNative(v) \/ GotUpdate(v)
                               \/ Reroute(v)
         \/ \E r \in Request : Admit(r) \/ GotReply(r)
         \/ \E n \in notes : GotNote(n)
         \/ Disable \/ SettingsUpdated \/ ClearActive \/ PushSettings
  PROVE  Same \/ \E s : Added(s)
<1> USE Types
<1>1. CASE \/ Startup \/ RouteStop \/ SettingsUpdated \/ PushSettings
           \/ \E v \in Video : Begin(v) \/ GotClaim(v) \/ StopEnhancement(v) \/ Heartbeat(v)
                               \/ UpdateNative(v) \/ GotUpdate(v) \/ Reroute(v)
           \/ \E r \in Request : GotReply(r)
           \/ \E n \in notes : GotNote(n)
  BY <1>1, PlainQueue
<1>2. CASE HostFault \/ HostExit \/ Disable \/ ClearActive \/ \E v \in Video : Ask(v)
  BY <1>2, OtherQueue
<1>3. CASE \E r \in Request : Admit(r)
  BY <1>3, AdmitQueue DEF Starting
<1>4. CASE \E v \in Video : Leave(v)
  BY <1>4, LeaveQueue DEF Parting
<1> QED  BY <1>1, <1>2, <1>3, <1>4

LEMMA QueueStep ==
  ASSUME TypeOK, pc # "idle" => queue # <<>>, Next
  PROVE  \/ Same \/ Popped
         \/ \E s : Added(s) /\ Plain(s)
         \/ \E r \in Request : Admit(r) /\ (Same \/ Starting(r))
         \/ \E v \in Video : Leave(v) /\ Parting(v)
         \/ Crash
<1> USE Types
<1>1. CASE \/ Take
           \/ Claimed \/ Updating \/ StartSession \/ Prepare \/ SetTitle \/ Measure \/ Connect
           \/ HostStart \/ Started \/ StartLost \/ StartReply \/ Stop \/ NotifyHost
           \/ RestoreFrame \/ RestoreTitle \/ Drop \/ Unclaim \/ Finish \/ Reattach
           \/ Consent \/ ForceAnswered
  BY <1>1, WorkerQueue
<1>2. CASE \/ ForceStop \/ Startup \/ RouteStop \/ SettingsUpdated \/ PushSettings
           \/ \E v \in Video : Begin(v) \/ GotClaim(v) \/ StopEnhancement(v) \/ Heartbeat(v)
                               \/ UpdateNative(v) \/ GotUpdate(v) \/ Reroute(v)
           \/ \E r \in Request : GotReply(r)
           \/ \E n \in notes : GotNote(n)
  BY <1>2, PlainQueue
<1>3. CASE HostFault \/ HostExit \/ Disable \/ ClearActive \/ \E v \in Video : Ask(v)
  BY <1>3, OtherQueue
<1>4. ASSUME NEW r \in Request, Admit(r)
      PROVE  Same \/ Starting(r)
  BY <1>4, AdmitQueue
<1>5. ASSUME NEW v \in Video, Leave(v)
      PROVE  Parting(v)
  BY <1>5, LeaveQueue
<1> QED  BY <1>1, <1>2, <1>3, <1>4, <1>5 DEF Next, Continue

-----------------------------------------------------------------------------
(* Types                                                                   *)

LEMMA RestartedType == Restarted \in Seq(Tasks) /\ Plain(Restarted) /\ Len(Restarted) = 1
                       /\ Restarted[1].kind = "recover"
<1> DEFINE t == Task("recover", NoVideo, 0)
<1>1. t \in Tasks /\ t.kind = "recover"
  BY TaskType DEF Kinds
<1>2. Restarted = <<t>>
  BY DEF Restarted
<1> HIDE DEF t
<1> QED  BY <1>1, <1>2 DEF Plain

LEMMA QueueType ==
  ASSUME TypeOK, pc # "idle" => queue # <<>>, Next
  PROVE  QueueOK'
<1>1. QueueOK
  BY Types
<1>2. ASSUME NEW s, Added(s)
      PROVE  queue' \in Seq(Tasks)
  BY <1>1, <1>2, ConcatProperties DEF Added, QueueOK
<1>3. Same \/ Popped => queue' \in Seq(Tasks)
  BY <1>1, JobType DEF Same, Popped, QueueOK
<1>4. Crash => queue' \in Seq(Tasks)
  BY RestartedType DEF Crash
<1> QED  BY <1>2, <1>3, <1>4, QueueStep DEF QueueOK, Starting, Parting

\* Steps that tell the frame, or the queue of stops, of the session on record.
LEMMA ForwardType ==
  ASSUME RecordOK, WorkerOK, PageOK, NEW kind \in {"hostStop", "exitStop"}, Forward(kind)
  PROVE  /\ routing' \subseteq [kind : {"hostStop", "exitStop"}, s : Session]
         /\ notes' \subseteq [v : Video, s : Session]
<1>1. ActiveSession.s # 0 => session \in Records /\ ActiveSession = session
  BY DEF ActiveSession, RecordOK, NoSession
<1> QED  BY <1>1 DEF Forward, Scoped, Records, WorkerOK, PageOK

LEMMA StopCall ==
  ASSUME NEW expect \in Session \cup {0}, NEW notify \in BOOLEAN, NEW restore \in BOOLEAN,
         NEW next \in {"idle", "claimed", "start", "failed", "finish", "disabled"},
         CallStop(expect, notify, restore, next)
  PROVE  /\ stopping' \in Stops /\ pc' = "stop" /\ queue' = queue
         /\ stopping'.expect = expect /\ stopping'.restore = restore /\ stopping'.next = next
  BY DEF CallStop, Stops, NoStop

LEMMA DoneCall ==
  ASSUME Done
  PROVE  stopping' \in Stops /\ pc' = "idle" /\ queue' = Tail(queue)
  BY DEF Done, Stops, NoStop

PcOK ==
  /\ pc \in {"idle", "forcing", "forced", "claimed", "consent", "updating", "start", "prepare",
             "title", "measure", "connect", "starting", "started", "reply", "failed", "stop",
             "notify", "restoreFrame", "restoreTitle", "drop", "unclaim", "finish", "disabled",
             "reattach"}
  /\ stopping \in Stops
PortOK ==
  /\ loaded \in BOOLEAN
  /\ client \in {"none", "open", "dropped"}
  /\ routing \subseteq [kind : {"hostStop", "exitStop"}, s : Session]

LEMMA WorkerParts == WorkerOK <=> PcOK /\ PortOK
  BY DEF WorkerOK, PcOK, PortOK

\* Where the running task is.
LEMMA PcType ==
  ASSUME TypeOK, Next
  PROVE  PcOK'
<1> USE Types, WorkerParts, DoneCall, StopCall
<1>1. CASE TakeClaim
  BY <1>1 DEF TakeClaim, PcOK
<1>2. CASE TakeScopedStop
  <2>1. Job \in Tasks
    BY <1>2, JobType DEF TakeScopedStop, Takes
  <2>2. Scope(Job) \in Session \cup {0}
    BY <2>1 DEF Scope, Tasks
  <2> QED  BY <1>2, <2>2 DEF TakeScopedStop, PcOK
<1>3. CASE TakeRelease \/ TakeStart \/ TakeStop \/ TakeDisable \/ TakeControl
  BY <1>3 DEF TakeRelease, TakeStart, TakeStop, TakeDisable, TakeControl, PcOK
<1>4. CASE TakeRecover
  BY <1>4 DEF TakeRecover, PcOK
<1>5. CASE ForceStop \/ Claimed \/ Updating \/ StartSession \/ Consent \/ StartReply \/ Finish
  BY <1>5 DEF ForceStop, Claimed, Updating, StartSession, Consent, StartReply, Finish, PcOK
<1>6. CASE Prepare \/ SetTitle \/ Measure \/ Connect \/ HostStart \/ Started \/ StartLost \/ Reattach
  BY <1>6 DEF Prepare, SetTitle, Measure, Connect, HostStart, Started, StartLost, Reattach,
    StartFails, PcOK
<1>7. CASE Stop \/ NotifyHost \/ RestoreFrame \/ RestoreTitle \/ Unclaim \/ ForceAnswered
  BY <1>7 DEF Stop, NotifyHost, AfterNotify, RestoreFrame, RestoreTitle, Unclaim, ForceAnswered,
    PcOK, Stops
<1>8. CASE Drop
  <2>1. session.v \in Video \cup {NoVideo}
    BY DEF RecordOK, Records, NoSession
  <2> QED  BY <1>8, <2>1 DEF Drop, PcOK, Stops
<1>9. CASE Crash
  BY <1>9 DEF Crash, PcOK, Stops, NoStop
<1>10. CASE \/ Startup \/ HostFault \/ HostExit \/ RouteStop
            \/ \E v \in Video : \/ Begin(v) \/ GotClaim(v) \/ Ask(v) \/ StopEnhancement(v)
                                \/ Leave(v) \/ Heartbeat(v) \/ UpdateNative(v) \/ GotUpdate(v)
                                  \/ Reroute(v)
            \/ \E r \in Request : Admit(r) \/ GotReply(r)
            \/ \E n \in notes : GotNote(n)
            \/ Disable \/ SettingsUpdated \/ ClearActive \/ PushSettings
  <2>1. UNCHANGED <<pc, stopping>>
    BY <1>10 DEF Startup, HostFault, HostExit, RouteStop, Begin, GotClaim, Ask, StopEnhancement,
      Leave, Heartbeat, UpdateNative, GotUpdate, Reroute, Admit, GotReply, GotNote, Disable,
      SettingsUpdated, ClearActive,
      PushSettings, workerVars
  <2> QED  BY <2>1 DEF PcOK
<1> QED
  BY <1>1, <1>2, <1>3, <1>4, <1>5, <1>6, <1>7, <1>8, <1>9, <1>10 DEF Next, Take, Continue

\* The port and what comes over it.
LEMMA PortType ==
  ASSUME TypeOK, Next
  PROVE  PortOK'
<1> USE Types, WorkerParts, ForwardType DEF memoryVars
<1>1. CASE \/ TakeClaim \/ TakeRelease \/ TakeStart \/ TakeStop \/ TakeScopedStop \/ TakeDisable
           \/ ForceStop \/ Claimed \/ Consent \/ Prepare \/ SetTitle \/ Measure \/ Started
           \/ StartLost \/ StartReply \/ RestoreFrame \/ RestoreTitle \/ Unclaim \/ Finish
           \/ ForceAnswered \/ Startup
           \/ \E v \in Video : \/ Begin(v) \/ GotClaim(v) \/ Ask(v) \/ StopEnhancement(v)
                               \/ Leave(v) \/ Heartbeat(v) \/ UpdateNative(v) \/ GotUpdate(v)
                                 \/ Reroute(v)
           \/ \E r \in Request : Admit(r) \/ GotReply(r)
           \/ \E n \in notes : GotNote(n)
           \/ Disable \/ SettingsUpdated \/ ClearActive \/ PushSettings
  <2>1. UNCHANGED <<loaded, client, routing>>
    BY <1>1 DEF TakeClaim, TakeRelease, TakeStart, TakeStop, TakeScopedStop, TakeDisable,
      ForceStop, Claimed, Consent, Prepare, SetTitle, Measure, Started, StartLost, StartReply,
      RestoreFrame, RestoreTitle, Unclaim, Finish, ForceAnswered, Startup, Begin, GotClaim, Ask,
      StopEnhancement, Leave, Heartbeat, UpdateNative, GotUpdate, Reroute, Admit, GotReply,
      GotNote, Disable, SettingsUpdated,
      ClearActive, PushSettings
  <2> QED  BY <2>1 DEF PortOK
<1>2. CASE Updating
  BY <1>2 DEF Updating, Reconfigured, NotReconfigured, MayReconnect, PortOK
<1>3. CASE TakeControl
  <2>1. Authorized(Job) => session.s \in Session
    BY DEF Authorized, ActiveSession, RecordOK, Records, NoSession
  <2> QED
    BY <1>3, <2>1 DEF TakeControl, Reconfigured, NotReconfigured, MayReconnect, PortOK
<1>4. CASE TakeRecover \/ Connect
  BY <1>4 DEF TakeRecover, Connect, MayReconnect, PortOK
<1>5. CASE StartSession \/ Stop \/ Drop \/ Crash
  BY <1>5 DEF StartSession, Stop, Drop, Crash, ClosePort, PortOK
<1>6. CASE HostStart \/ NotifyHost \/ HostFault \/ Reattach
  BY <1>6 DEF HostStart, NotifyHost, HostFault, Reattach, MayReconnect, PortOK
<1>7. CASE HostExit
  <2>1. session.s \in Session
    BY <1>7 DEF HostExit, ActiveSession, RecordOK, Records, NoSession
  <2> QED  BY <1>7, <2>1 DEF HostExit, PortOK
<1>8. CASE RouteStop
  BY <1>8 DEF RouteStop, PortOK
<1> QED
  BY <1>1, <1>2, <1>3, <1>4, <1>5, <1>6, <1>7, <1>8 DEF Next, Take, Continue

\* The running start is a request of a video.
LEMMA JobStarts ==
  ASSUME QueueOK, Running, StartsQueued,
         pc \in {"consent", "updating", "start", "failed"} \cup StartPcs
  PROVE  Job.n \in Request /\ Job.v \in Video /\ Job.kind = "start" /\ queue # <<>>
<1>1. queue # <<>> /\ Job.kind = "start"
  BY DEF Running, StartPcs
<1>2. 1 \in DOMAIN queue /\ Job = queue[1]
  BY <1>1, JobType
<1> QED  BY <1>1, <1>2 DEF StartsQueued

\* What the worker stores.
LEMMA RecordType ==
  ASSUME TypeOK, Running, StartsQueued, Recorded, Next
  PROVE  RecordOK'
<1> USE Types DEF durableVars, switchVars
<1>1. CASE \/ TakeStart \/ TakeStop \/ TakeScopedStop \/ TakeDisable \/ TakeRecover \/ TakeControl
           \/ ForceStop \/ Updating \/ Consent \/ Prepare \/ SetTitle \/ Measure \/ Connect
           \/ HostStart \/ StartLost \/ StartReply \/ NotifyHost \/ RestoreFrame \/ RestoreTitle
           \/ Reattach \/ ForceAnswered
  BY <1>1
  DEF TakeStart, TakeStop, TakeScopedStop, TakeDisable, TakeRecover, TakeControl, ForceStop,
    Updating, Consent, Prepare, SetTitle, Measure, Connect, HostStart, StartLost, StartReply,
    NotifyHost, RestoreFrame, RestoreTitle, Reattach, ForceAnswered, RecordOK
<1>2. CASE \/ Startup \/ HostFault \/ HostExit \/ RouteStop
           \/ \E v \in Video : \/ Begin(v) \/ GotClaim(v) \/ Ask(v) \/ StopEnhancement(v)
                               \/ Leave(v) \/ Heartbeat(v) \/ UpdateNative(v) \/ GotUpdate(v)
                                 \/ Reroute(v)
           \/ \E r \in Request : Admit(r) \/ GotReply(r)
           \/ \E n \in notes : GotNote(n)
           \/ PushSettings
  BY <1>2
  DEF Startup, HostFault, HostExit, RouteStop, Begin, GotClaim, Ask, StopEnhancement, Leave,
    Heartbeat, UpdateNative, GotUpdate, Reroute, Admit, GotReply, GotNote, PushSettings, RecordOK
<1>3. CASE TakeClaim \/ TakeRelease \/ Claimed
  <2>1. pc = "claimed" => queue # <<>>
    BY DEF Running
  <2>2. Job.v \in Video \cup {NoVideo}
    BY <1>3, <2>1, JobType DEF TakeClaim, TakeRelease, Claimed, Takes, Tasks, Running
  <2> QED  BY <1>3, <2>2 DEF TakeClaim, TakeRelease, Claimed, RecordOK
<1>4. CASE StartSession
  <2>1. Job.n \in Session /\ Job.v \in Video
    BY <1>4, JobStarts DEF StartSession, Session
  <2> QED  BY <1>4, <2>1 DEF StartSession, Preparing, RecordOK, Records
<1>5. CASE Started
  <2>1. session \in Records
    BY <1>5 DEF Started, Recorded, StartPcs, RecordOK, NoSession
  <2> QED  BY <1>5, <2>1 DEF Started, RecordOK, Records
<1>6. CASE Stop
  <2>1. session # NoSession => session \in Records
    BY DEF RecordOK
  <2>2. session \in Records => Stopped \in Records
    BY DEF Stopped, Records
  <2> QED  BY <1>6, <2>1, <2>2 DEF Stop, RecordOK
<1>7. CASE Drop \/ Unclaim \/ Finish \/ Crash \/ Disable \/ SettingsUpdated \/ ClearActive
  BY <1>7 DEF Drop, Cleared, Unclaim, Finish, Crash, Disable, SettingsUpdated, ClearActive, RecordOK
<1> QED
  BY <1>1, <1>2, <1>3, <1>4, <1>5, <1>6, <1>7 DEF Next, Take, Continue

\* The pages, the host and the history.
MarksOK == /\ frameMark \in [Video -> Session \cup {0}]
           /\ titleMark \in [Video -> Session \cup {0}]
HostOK ==
  /\ present \subseteq Video
  /\ notes \subseteq [v : Video, s : Session]
  /\ capturing \in Session \cup {0}
  /\ begun \subseteq Session /\ unverified \subseteq Session /\ forsaken \subseteq Session
  /\ events \in 0..MaxEvents

LEMMA PageParts == PageOK <=> MarksOK /\ HostOK
  BY DEF PageOK, MarksOK, HostOK

LEMMA MarkTypes ==
  ASSUME RecordOK, PageOK, NEW mark \in [Video -> Session \cup {0}]
  PROVE  MarkedFor(mark) \in [Video -> Session \cup {0}]
         /\ Restored(mark) \in [Video -> Session \cup {0}]
<1>1. session.s \in Session \cup {0}
  BY DEF RecordOK, Records, NoSession
<1> QED  BY <1>1 DEF MarkedFor, Restored

LEMMA MarksType ==
  ASSUME TypeOK, Next
  PROVE  MarksOK'
<1> USE Types, PageParts DEF pageVars
<1>1. CASE Prepare \/ SetTitle \/ RestoreFrame \/ RestoreTitle
  BY <1>1, MarkTypes DEF Prepare, SetTitle, RestoreFrame, RestoreTitle, MarksOK
<1>2. CASE \E v \in Video : Leave(v)
  BY <1>2 DEF Leave, MarksOK
<1>3. CASE \/ Take
           \/ ForceStop \/ Claimed \/ Updating \/ StartSession \/ Measure \/ Connect \/ HostStart
           \/ Started \/ StartLost \/ StartReply \/ Stop \/ NotifyHost \/ Drop \/ Unclaim
           \/ Finish \/ Reattach \/ Consent \/ ForceAnswered
  <2>1. UNCHANGED <<frameMark, titleMark>>
    BY <1>3
    DEF Take, TakeClaim, TakeRelease, TakeStart, TakeStop, TakeScopedStop, TakeDisable,
      TakeRecover, TakeControl, ForceStop, Claimed, Updating, StartSession, Measure, Connect,
      HostStart, Started, StartLost, StartReply, Stop, NotifyHost, Drop, Unclaim, Finish,
      Reattach, Consent, ForceAnswered
  <2> QED  BY <2>1 DEF MarksOK
<1>4. CASE \/ Crash \/ Startup \/ HostFault \/ HostExit \/ RouteStop
           \/ \E v \in Video : \/ Begin(v) \/ GotClaim(v) \/ Ask(v) \/ StopEnhancement(v)
                               \/ Heartbeat(v) \/ UpdateNative(v) \/ GotUpdate(v) \/ Reroute(v)
           \/ \E r \in Request : Admit(r) \/ GotReply(r)
           \/ \E n \in notes : GotNote(n)
           \/ Disable \/ SettingsUpdated \/ ClearActive \/ PushSettings
  <2>1. UNCHANGED <<frameMark, titleMark>>
    BY <1>4
    DEF Crash, Startup, HostFault, HostExit, RouteStop, Begin, GotClaim, Ask, StopEnhancement,
      Heartbeat, UpdateNative, GotUpdate, Reroute, Admit, GotReply, GotNote, Disable,
      SettingsUpdated, ClearActive, PushSettings
  <2> QED  BY <2>1 DEF MarksOK
<1> QED  BY <1>1, <1>2, <1>3, <1>4 DEF Next, Continue

LEMMA EventType ==
  ASSUME HostOK, Event
  PROVE  events' \in 0..MaxEvents
  BY DEF HostOK, Event

LEMMA HostType ==
  ASSUME TypeOK, Running, StartsQueued, BegunAsked, Next
  PROVE  HostOK'
<1> USE Types, PageParts DEF pageVars, enhVars, ghostVars
<1>a. \A v \in Video : {sid[v]} \ {0} \subseteq Session /\ Forsaken(v) \subseteq Session
  BY DEF ScriptOK, Forsaken
<1>1. CASE \/ TakeClaim \/ TakeRelease \/ TakeStart \/ TakeStop \/ TakeScopedStop \/ TakeDisable
           \/ Claimed \/ Prepare \/ SetTitle \/ Measure \/ Connect
           \/ Started \/ StartLost \/ StartReply \/ RestoreFrame \/ RestoreTitle
           \/ Unclaim \/ Finish \/ Consent \/ ForceAnswered
  BY <1>1
  DEF TakeClaim, TakeRelease, TakeStart, TakeStop, TakeScopedStop, TakeDisable,
    Claimed, Prepare, SetTitle, Measure, Connect, Started, StartLost, StartReply,
    RestoreFrame, RestoreTitle, Unclaim, Finish, Consent, ForceAnswered, HostOK
<1>2. CASE Updating \/ TakeControl \/ Reattach
  BY <1>2, ForwardType
  DEF Updating, TakeControl, Reattach, Reconfigured, NotReconfigured, HostOK
<1>3. CASE TakeRecover
  <2>1. session # NoSession => session.s \in Session
    BY DEF RecordOK, Records
  <2> QED  BY <1>3, <2>1 DEF TakeRecover, Persisted, HostOK
<1>4. CASE StartSession
  <2>1. Job.n \in Session
    BY <1>4, JobStarts DEF StartSession, Session
  <2> QED  BY <1>4, <2>1 DEF StartSession, HostOK
<1>5. CASE HostStart \/ NotifyHost
  <2>1. session.s \in Session \cup {0}
    BY DEF RecordOK, Records, NoSession
  <2> QED  BY <1>5, <2>1, ForwardType DEF HostStart, NotifyHost, HostOK
<1>6. CASE Stop \/ Drop \/ Crash
  BY <1>6, EventType DEF Stop, Drop, ClosePort, Crash, HostOK
<1>7. CASE HostFault
  BY <1>7, ForwardType, EventType DEF HostFault, HostOK
<1>8. CASE \/ Startup \/ HostExit \/ Disable \/ PushSettings
           \/ \E v \in Video : Begin(v) \/ Heartbeat(v) \/ UpdateNative(v) \/ Reroute(v)
  BY <1>8, EventType
  DEF Startup, HostExit, Disable, PushSettings, Begin, Heartbeat, UpdateNative, Reroute, HostOK
<1>9. CASE \/ RouteStop \/ SettingsUpdated \/ ClearActive
           \/ \E v \in Video : GotClaim(v) \/ Ask(v) \/ GotUpdate(v)
           \/ \E r \in Request : Admit(r)
  BY <1>9 DEF RouteStop, SettingsUpdated, ClearActive, GotClaim, Ask, GotUpdate, Admit, HostOK
<1>10. CASE \/ \E n \in notes : GotNote(n)
            \/ \E v \in Video : Leave(v)
  BY <1>10, EventType DEF GotNote, Leave, HostOK
<1>11. CASE ForceStop \/ \E v \in Video : StopEnhancement(v)
  <2>1. claim \in present => claim \in Video
    BY DEF PageOK
  <2> QED  BY <1>11, <1>a, <2>1, EventType DEF ForceStop, StopEnhancement, HostOK
<1>12. ASSUME NEW r \in Request, GotReply(r)
       PROVE  HostOK'
  <2>1. req[r].v \in Video
    BY <1>12 DEF GotReply, BegunAsked
  <2>2. {sid[req[r].v]} \ {0} \subseteq Session
    BY <1>a, <2>1
  <2>3. UNCHANGED <<present, notes, capturing, begun, unverified, events>>
    BY <1>12 DEF GotReply
  <2>4. forsaken' \subseteq Session
    BY <1>12, <2>2 DEF GotReply, HostOK
  <2> QED  BY <2>3, <2>4 DEF HostOK
<1> QED
  BY <1>1, <1>2, <1>3, <1>4, <1>5, <1>6, <1>7, <1>8, <1>9, <1>10, <1>11, <1>12
  DEF Next, Take, Continue

\* What a step makes of the requests.
LEMMA ReplyType ==
  ASSUME ScriptOK, NEW r \in Request, NEW outcome \in {"ok", "no"}, NEW s \in Session \cup {0}
  PROVE  /\ Outcome(r, outcome, s) \in Requests
         /\ Outcome(r, outcome, s).st \in {outcome, "done"}
         /\ Outcome(r, outcome, s).st # "done" => Outcome(r, outcome, s).v = req[r].v
         /\ Answered(r, outcome, s) \in [Request -> Requests]
<1>1. req[r] \in Requests
  BY DEF ScriptOK
<1>2. [req[r] EXCEPT !.st = outcome, !.s = s] \in Requests
  BY <1>1 DEF Requests
<1>3. /\ [req[r] EXCEPT !.st = outcome, !.s = s].st = outcome
      /\ [req[r] EXCEPT !.st = outcome, !.s = s].v = req[r].v
  BY <1>1 DEF Requests
<1>4. Spent \in Requests /\ Spent.st = "done"
  BY DEF Spent, Unused, Requests
<1>5. /\ Outcome(r, outcome, s) \in Requests /\ Outcome(r, outcome, s).st \in {outcome, "done"}
      /\ Outcome(r, outcome, s).st # "done" => Outcome(r, outcome, s).v = req[r].v
  BY <1>2, <1>3, <1>4 DEF Outcome
<1> QED  BY <1>5 DEF Answered, ScriptOK

LEMMA MarkedType ==
  ASSUME ScriptOK, NEW r \in Request \cup {0}
  PROVE  /\ Marked(r) \in [Request -> Requests]
         /\ \A q \in Request : Marked(r)[q].st = req[q].st
<1>1. ASSUME NEW q \in Request
      PROVE  /\ req[q] \in Requests /\ [req[q] EXCEPT !.stop = TRUE] \in Requests
             /\ [req[q] EXCEPT !.stop = TRUE].st = req[q].st
  <2>1. req[q] \in Requests
    BY DEF ScriptOK
  <2> QED  BY <2>1 DEF Requests
<1>2. \A q \in Request : /\ Marked(r)[q] = IF q = r THEN [req[q] EXCEPT !.stop = TRUE] ELSE req[q]
                         /\ Marked(r)[q] \in Requests
  BY <1>1 DEF Marked
<1>3. Marked(r) = [q \in Request |-> Marked(r)[q]]
  BY DEF Marked
<1> QED  BY <1>1, <1>2, <1>3

ReqOK == req \in [Request -> Requests]
FollowOK ==
  /\ phase \in [Video -> {"off", "claiming", "page", "asking", "native", "updating"}]
  /\ sid \in [Video -> Session \cup {0}]
  /\ answer \in [Video -> {"none", "ok", "no"}]
  /\ ledger \in [Video -> Request \cup {0}]

LEMMA ScriptParts == ScriptOK <=> ReqOK /\ FollowOK
  BY DEF ScriptOK, ReqOK, FollowOK

LEMMA ReqType ==
  ASSUME TypeOK, Running, StartsQueued, Next
  PROVE  ReqOK'
<1> USE Types, ScriptParts DEF enhVars
<1>1. CASE \/ Updating \/ Consent \/ StartSession \/ StartReply
  <2>1. Job.n \in Request
    BY <1>1, JobStarts DEF Updating, Consent, StartSession, StartReply, StartPcs
  <2>2. session.s \in Session \cup {0}
    BY DEF RecordOK, Records, NoSession
  <2>3. Job.n \in Session \cup {0}
    BY <2>1 DEF Session
  <2>4. /\ Answered(Job.n, "no", 0) \in [Request -> Requests]
        /\ Answered(Job.n, "ok", session.s) \in [Request -> Requests]
        /\ Answered(Job.n, "ok", Job.n) \in [Request -> Requests]
    BY <2>1, <2>2, <2>3, ReplyType
  <2> QED  BY <1>1, <2>4 DEF Updating, Consent, StartSession, StartReply, ReqOK
<1>2. CASE TakeStart
  <2>1. Job.kind = "start" /\ 1 \in DOMAIN queue /\ Job = queue[1]
    BY <1>2, JobType DEF TakeStart, Takes
  <2>2. Job.n \in Request
    BY <2>1 DEF StartsQueued
  <2> QED  BY <1>2, <2>2, ReplyType DEF TakeStart, ReqOK
<1>3. CASE ForceStop
  <2>1. claim \in present => ledger[claim] \in Request \cup {0}
    BY DEF PageOK, FollowOK
  <2> QED  BY <1>3, <2>1, MarkedType DEF ForceStop, ReqOK
<1>4. CASE Crash
  BY <1>4, ReplyType DEF Crash, ReqOK
<1>5. ASSUME NEW v \in Video, Ask(v)
      PROVE  ReqOK'
  <2>1. PICK r \in Request :
          req' = [Marked(ledger[v]) EXCEPT ![r] = [v |-> v, stop |-> FALSE, st |-> "inbox", s |-> 0]]
    BY <1>5 DEF Ask
  <2>2. [v |-> v, stop |-> FALSE, st |-> "inbox", s |-> 0] \in Requests
    BY DEF Requests
  <2>3. Marked(ledger[v]) \in [Request -> Requests]
    BY MarkedType DEF FollowOK
  <2> QED  BY <2>1, <2>2, <2>3 DEF ReqOK
<1>6. ASSUME NEW v \in Video, StopEnhancement(v)
      PROVE  ReqOK'
  BY <1>6, MarkedType DEF StopEnhancement, ReqOK, FollowOK
<1>7. ASSUME NEW v \in Video, Leave(v)
      PROVE  ReqOK'
  <2>1. Spent \in Requests
    BY DEF Spent, Unused, Requests
  <2> QED  BY <1>7, <2>1 DEF Leave, ReqOK
<1>8. ASSUME NEW r \in Request, Admit(r)
      PROVE  ReqOK'
  <2>1. [req EXCEPT ![r].st = "queued"] \in [Request -> Requests]
    BY DEF ReqOK, Requests
  <2> QED  BY <1>8, <2>1, ReplyType DEF Admit, ReqOK
<1>9. ASSUME NEW r \in Request, GotReply(r)
      PROVE  ReqOK'
  <2>1. Spent \in Requests
    BY DEF Spent, Unused, Requests
  <2> QED  BY <1>9, <2>1 DEF GotReply, ReqOK
<1>10. CASE \/ TakeClaim \/ TakeRelease \/ TakeStop \/ TakeScopedStop \/ TakeDisable \/ TakeRecover
            \/ TakeControl \/ Claimed \/ Prepare \/ SetTitle \/ Measure \/ Connect \/ HostStart
            \/ Started \/ StartLost \/ Stop \/ NotifyHost \/ RestoreFrame \/ RestoreTitle \/ Drop
            \/ Unclaim \/ Finish \/ Reattach \/ ForceAnswered
  <2>1. UNCHANGED req
    BY <1>10
    DEF TakeClaim, TakeRelease, TakeStop, TakeScopedStop, TakeDisable, TakeRecover, TakeControl,
      Claimed, Prepare, SetTitle, Measure, Connect, HostStart, Started, StartLost, Stop,
      NotifyHost, RestoreFrame, RestoreTitle, Drop, Unclaim, Finish, Reattach, ForceAnswered
  <2> QED  BY <2>1 DEF ReqOK
<1>11. CASE \/ Startup \/ HostFault \/ HostExit \/ RouteStop
            \/ \E v \in Video : Begin(v) \/ GotClaim(v) \/ Heartbeat(v) \/ UpdateNative(v)
                                \/ GotUpdate(v) \/ Reroute(v)
            \/ \E n \in notes : GotNote(n)
            \/ Disable \/ SettingsUpdated \/ ClearActive \/ PushSettings
  <2>1. UNCHANGED req
    BY <1>11
    DEF Startup, HostFault, HostExit, RouteStop, Begin, GotClaim, Heartbeat, UpdateNative,
    GotUpdate, Reroute, GotNote, Disable,
      SettingsUpdated, ClearActive, PushSettings
  <2> QED  BY <2>1 DEF ReqOK
<1> QED
  BY <1>1, <1>2, <1>3, <1>4, <1>5, <1>6, <1>7, <1>8, <1>9, <1>10, <1>11 DEF Next, Take, Continue

LEMMA FollowType ==
  ASSUME TypeOK, Next
  PROVE  FollowOK'
<1> USE Types, ScriptParts DEF enhVars
<1>1. CASE TakeClaim \/ Claimed \/ TakeControl
  BY <1>1 DEF TakeClaim, Claimed, TakeControl, AnswerClaim, AnswerUpdate, FollowOK
<1>2. CASE ForceStop
  BY <1>2 DEF ForceStop, FollowOK
<1>3. CASE Crash
  BY <1>3 DEF Crash, FollowOK
<1>4. CASE \/ TakeRelease \/ TakeStart \/ TakeStop \/ TakeScopedStop \/ TakeDisable \/ TakeRecover
           \/ Updating \/ StartSession \/ Prepare \/ SetTitle \/ Measure \/ Connect
           \/ HostStart \/ Started \/ StartLost \/ StartReply \/ Stop \/ NotifyHost
           \/ RestoreFrame \/ RestoreTitle \/ Drop \/ Unclaim \/ Finish \/ Reattach \/ Consent
           \/ ForceAnswered
  <2>1. UNCHANGED <<phase, sid, answer, ledger>>
    BY <1>4
    DEF TakeRelease, TakeStart, TakeStop, TakeScopedStop, TakeDisable, TakeRecover,
      Updating, StartSession, Prepare, SetTitle, Measure, Connect, HostStart, Started, StartLost,
      StartReply, Stop, NotifyHost, RestoreFrame, RestoreTitle, Drop, Unclaim, Finish, Reattach,
      Consent, ForceAnswered
  <2> QED  BY <2>1 DEF FollowOK
<1>5. CASE \/ Startup \/ HostFault \/ HostExit \/ RouteStop
           \/ Disable \/ SettingsUpdated \/ ClearActive \/ PushSettings
           \/ \E v \in Video : Heartbeat(v) \/ Reroute(v)
           \/ \E r \in Request : Admit(r)
  <2>1. UNCHANGED <<phase, sid, answer, ledger>>
    BY <1>5
    DEF Startup, HostFault, HostExit, RouteStop, Disable, SettingsUpdated, ClearActive,
      PushSettings, Heartbeat, Reroute, Admit
  <2> QED  BY <2>1 DEF FollowOK
<1>6. ASSUME NEW v \in Video, \/ Begin(v) \/ GotClaim(v) \/ Ask(v) \/ StopEnhancement(v)
                              \/ Leave(v) \/ UpdateNative(v) \/ GotUpdate(v)
      PROVE  FollowOK'
  <2>1. CASE Begin(v) \/ GotClaim(v)
    BY <2>1 DEF Begin, GotClaim, FollowOK
  <2>2. CASE Ask(v)
    BY <2>2 DEF Ask, FollowOK
  <2>3. CASE StopEnhancement(v)
    BY <2>3 DEF StopEnhancement, FollowOK
  <2>4. CASE Leave(v)
    BY <2>4 DEF Leave, FollowOK
  <2>5. CASE UpdateNative(v) \/ GotUpdate(v)
    BY <2>5 DEF UpdateNative, GotUpdate, FollowOK
  <2> QED  BY <1>6, <2>1, <2>2, <2>3, <2>4, <2>5
<1>7. ASSUME NEW r \in Request, GotReply(r)
      PROVE  FollowOK'
  <2>1. req[r].s \in Session \cup {0} /\ req[r].v \in Video \cup {NoVideo}
    BY DEF ReqOK, Requests
  <2> QED  BY <1>7, <2>1 DEF GotReply, FollowOK
<1>8. ASSUME NEW n \in notes, GotNote(n)
      PROVE  FollowOK'
  BY <1>8 DEF GotNote, FollowOK
<1> QED
  BY <1>1, <1>2, <1>3, <1>4, <1>5, <1>6, <1>7, <1>8 DEF Next, Take, Continue

LEMMA TypeStep ==
  ASSUME TypeOK, Running, StartsQueued, BegunAsked, Recorded, [Next]_vars
  PROVE  TypeOK'
<1>1. CASE Next
  <2>1. QueueOK' /\ PcOK' /\ PortOK'
    BY <1>1, QueueType, PcType, PortType DEF Running
  <2>2. RecordOK' /\ MarksOK' /\ HostOK' /\ ReqOK' /\ FollowOK'
    BY <1>1, RecordType, MarksType, HostType, ReqType, FollowType
  <2>3. WorkerOK' /\ PageOK' /\ ScriptOK'
    BY <2>1, <2>2 DEF WorkerOK, PcOK, PortOK, PageOK, MarksOK, HostOK, ScriptOK, ReqOK, FollowOK
  <2> QED
    BY <2>1, <2>2, <2>3
    DEF TypeOK, QueueOK, WorkerOK, RecordOK, PageOK, ScriptOK, Tasks, Requests, Records, Stops
<1>2. CASE UNCHANGED vars
  BY <1>2
  DEF TypeOK, vars, workerVars, memoryVars, durableVars, switchVars, pageVars, enhVars, ghostVars
<1> QED  BY <1>1, <1>2

-----------------------------------------------------------------------------
(* The running task                                                        *)

\* What the elements of the queue become.
LEMMA AddedItems ==
  ASSUME QueueOK, NEW s, Added(s)
  PROVE  /\ Len(queue) \in Nat /\ Len(s) \in Nat /\ DOMAIN queue = 1..Len(queue)
         /\ DOMAIN s = 1..Len(s) /\ DOMAIN queue' = 1..(Len(queue) + Len(s))
         /\ \A i \in DOMAIN queue : i \in DOMAIN queue' /\ queue'[i] = queue[i]
         /\ \A i \in DOMAIN queue' : i \notin DOMAIN queue =>
              i - Len(queue) \in DOMAIN s /\ queue'[i] = s[i - Len(queue)]
<1>1. /\ queue \o s \in Seq(Tasks) /\ Len(queue \o s) = Len(queue) + Len(s)
      /\ \A i \in 1 .. Len(queue) + Len(s) :
           (queue \o s)[i] = IF i <= Len(queue) THEN queue[i] ELSE s[i - Len(queue)]
  BY ConcatProperties DEF QueueOK, Added
<1>2. /\ Len(queue) \in Nat /\ Len(s) \in Nat
      /\ DOMAIN queue = 1..Len(queue) /\ DOMAIN s = 1..Len(s)
      /\ DOMAIN (queue \o s) = 1..Len(queue \o s)
  BY <1>1, LenProperties DEF QueueOK, Added
<1> QED  BY <1>1, <1>2 DEF Added

LEMMA PoppedItems ==
  ASSUME QueueOK, Popped
  PROVE  /\ Len(queue) \in Nat \ {0} /\ DOMAIN queue = 1..Len(queue)
         /\ DOMAIN queue' = 1..(Len(queue) - 1)
         /\ \A i \in DOMAIN queue' : i + 1 \in DOMAIN queue /\ queue'[i] = queue[i + 1]
<1>1. /\ Tail(queue) \in Seq(Tasks) /\ Len(Tail(queue)) = Len(queue) - 1
      /\ \A i \in 1 .. Len(Tail(queue)) : Tail(queue)[i] = queue[i + 1]
  BY HeadTailProperties DEF QueueOK, Popped
<1>2. Len(queue) \in Nat \ {0}
  BY EmptySeq DEF QueueOK, Popped
<1>3. DOMAIN queue = 1..Len(queue) /\ DOMAIN Tail(queue) = 1..Len(Tail(queue))
  BY <1>1, LenProperties DEF QueueOK
<1> QED  BY <1>1, <1>2, <1>3 DEF Popped

LEMMA AddedHead ==
  ASSUME QueueOK, NEW s, Added(s), queue # <<>>
  PROVE  queue' # <<>> /\ Head(queue') = Head(queue)
<1>1. 1 \in DOMAIN queue
  BY JobType
<1>2. 1 \in DOMAIN queue' /\ queue'[1] = queue[1]
  BY <1>1, AddedItems
<1>3. queue' \in Seq(Tasks)
  BY ConcatProperties DEF QueueOK, Added
<1> QED  BY <1>1, <1>2, <1>3 DEF QueueOK

LEMMA RunningStep ==
  ASSUME TypeOK, Running, Recorded, [Next]_vars
  PROVE  Running'
<1> USE Types, StopCall DEF StartPcs, StopPcs, DropPcs
<1>1. CASE UNCHANGED vars
  BY <1>1 DEF vars, workerVars, Running, Job
<1>2. CASE \/ TakeRelease \/ Claimed \/ Updating \/ StartReply \/ Finish \/ TakeControl \/ Crash
  <2>1. pc' = "idle" 
    BY <1>2 DEF TakeRelease, Claimed, Updating, StartReply, Finish, TakeControl, Crash, Done
  <2> QED  BY <2>1 DEF Running
<1>3. CASE \/ TakeClaim \/ TakeStop \/ TakeScopedStop \/ TakeDisable \/ TakeRecover \/ TakeStart
  <2>1. \/ pc' = "idle"
        \/ /\ queue' = queue /\ queue # <<>>
           /\ \/ pc' = "forcing" \/ pc' = "reattach"
              \/ pc' = "consent" /\ Job.kind = "start"
              \/ pc' = "stop" /\ stopping'.next \notin {"idle", "start", "failed"}
    <3>1. CASE TakeClaim
      BY <3>1 DEF TakeClaim, Takes, Done
    <3>2. CASE TakeStop
      BY <3>2 DEF TakeStop, Takes, Done
    <3>3. CASE TakeScopedStop
      BY <3>3 DEF TakeScopedStop, Takes, CallStop, NoStop
    <3>4. CASE TakeDisable
      BY <3>4 DEF TakeDisable, Takes
    <3>5. CASE TakeRecover
      BY <3>5 DEF TakeRecover, Takes, Done
    <3>6. CASE TakeStart
      BY <3>6 DEF TakeStart, Takes, Done
    <3> QED  BY <1>3, <3>1, <3>2, <3>3, <3>4, <3>5, <3>6
  <2> QED  BY <2>1 DEF Running, Job
<1>4. CASE \/ Consent \/ StartSession \/ Prepare \/ SetTitle \/ Measure \/ Connect \/ HostStart
           \/ Started \/ StartLost \/ Reattach
  <2>1. queue # <<>> /\ (~Reattach => Job.kind = "start")
    BY <1>4 DEF Running, Consent, StartSession, Prepare, SetTitle, Measure, Connect, HostStart,
      Started, StartLost, Reattach
  <2>2. \/ pc' = "idle"
        \/ /\ queue' = queue
           /\ \/ ~Reattach /\ pc' \in {"updating"} \cup StartPcs
              \/ /\ ~Reattach /\ pc' = "stop" /\ stopping'.expect = 0
                 /\ stopping'.next \in {"start", "failed"}
              \/ pc' = "stop" /\ stopping'.next = "finish"
    BY <1>4 DEF Consent, StartSession, Prepare, SetTitle, Measure, Connect, HostStart,
      Started, StartLost, StartFails, Reattach, Done
  <2> QED  BY <2>1, <2>2 DEF Running, Job
<1>5. CASE Stop \/ NotifyHost \/ RestoreFrame \/ RestoreTitle \/ Drop \/ Unclaim
  <2>1. queue' = queue /\ queue # <<>> /\ pc \in StopPcs \cup {"unclaim"}
    BY <1>5 DEF Stop, NotifyHost, RestoreFrame, RestoreTitle, Drop, Unclaim, Running
  <2>2. stopping'.next = stopping.next /\ stopping'.expect = stopping.expect
    BY <1>5 DEF Stop, NotifyHost, RestoreFrame, RestoreTitle, Drop, Unclaim, WorkerOK, Stops
  <2>3. stopping.next \in {"idle", "claimed", "start", "failed", "finish", "disabled"}
    BY DEF WorkerOK, Stops
  <2>4. pc' \in StopPcs \cup {"unclaim", stopping.next}
    BY <1>5 DEF Stop, NotifyHost, AfterNotify, RestoreFrame, RestoreTitle, Drop, Unclaim
  <2> QED  BY <2>1, <2>2, <2>3, <2>4 DEF Running, Job
<1>6. CASE \/ ForceStop \/ ForceAnswered
  <2>1. pc' \in {"forced", "claimed"} /\ queue # <<>>
    BY <1>6 DEF ForceStop, ForceAnswered, Running
  <2>2. queue' # <<>>
    <3>1. \A t : Append(queue, t) # <<>>
      BY <2>1 DEF QueueOK
    <3> QED  BY <1>6, <2>1, <3>1 DEF ForceStop, ForceAnswered
  <2> QED  BY <2>1, <2>2 DEF Running
<1>7. CASE \/ HostFault \/ HostExit \/ Disable \/ ClearActive \/ \E v \in Video : Ask(v)
  <2>1. UNCHANGED <<queue, pc, stopping>>
    BY <1>7 DEF HostFault, HostExit, Disable, ClearActive, Ask, workerVars
  <2> QED  BY <2>1 DEF Running, Job
<1>8. CASE \/ Startup \/ RouteStop \/ SettingsUpdated \/ PushSettings
           \/ \E v \in Video : Begin(v) \/ GotClaim(v) \/ StopEnhancement(v) \/ Heartbeat(v)
                               \/ UpdateNative(v) \/ GotUpdate(v) \/ Reroute(v) \/ Leave(v)
           \/ \E r \in Request : Admit(r) \/ GotReply(r)
           \/ \E n \in notes : GotNote(n)
  <2>1. UNCHANGED <<pc, stopping>>
    BY <1>8 DEF Startup, RouteStop, SettingsUpdated, PushSettings, Begin, GotClaim,
      StopEnhancement, Heartbeat, UpdateNative, GotUpdate, Reroute, Leave, Admit, GotReply,
      GotNote, workerVars
  <2>2. pc = "idle" \/ Same \/ \E s : Added(s)
    <3>1. TypeOK /\ (pc # "idle" => queue # <<>>) /\ Next
      BY <1>8 DEF Running, Next
    <3>2. Popped \/ Crash => pc' = "idle"
      BY DEF Popped, Crash
    <3> QED  BY <2>1, <3>1, <3>2, QueueStep DEF Starting, Parting
  <2>3. ASSUME pc # "idle", NEW s, Added(s)
        PROVE  queue' # <<>> /\ Job' = Job
    BY <2>3, AddedHead DEF Running, Job
  <2> QED  BY <2>1, <2>2, <2>3 DEF Running, Same, Job
<1> QED
  BY <1>1, <1>2, <1>3, <1>4, <1>5, <1>6, <1>7, <1>8 DEF Next, Take, Continue
-----------------------------------------------------------------------------
(* Requests                                                                *)

LEMMA IdleStep ==
  ASSUME Running, Next, pc' = "idle"
  PROVE  pc = "idle" \/ Popped \/ Crash
<1>1. CASE \/ TakeClaim \/ TakeRelease \/ TakeStart \/ TakeStop \/ TakeScopedStop \/ TakeDisable
           \/ TakeRecover \/ TakeControl
  BY <1>1 DEF TakeClaim, TakeRelease, TakeStart, TakeStop, TakeScopedStop, TakeDisable,
    TakeRecover, TakeControl, Takes
<1>2. CASE \/ Claimed \/ Updating \/ StartReply \/ Finish \/ StartSession \/ Reattach \/ Consent
  BY <1>2 DEF Claimed, Updating, StartReply, Finish, StartSession, Reattach, Consent, CallStop,
    Done, Running, Popped
<1>3. CASE \/ ForceStop \/ Prepare \/ SetTitle \/ Measure \/ Connect \/ HostStart \/ Started
           \/ StartLost \/ NotifyHost \/ RestoreFrame \/ RestoreTitle \/ Drop \/ ForceAnswered
  BY <1>3 DEF ForceStop, Prepare, SetTitle, Measure, Connect, HostStart, Started, StartLost,
    StartFails, CallStop, NotifyHost, AfterNotify, RestoreFrame, RestoreTitle, Drop, ForceAnswered
<1>4. CASE Stop \/ Unclaim
  BY <1>4 DEF Stop, Unclaim, Running, StopPcs
<1>5. CASE \/ Startup \/ HostFault \/ HostExit \/ RouteStop
           \/ \E v \in Video : \/ Begin(v) \/ GotClaim(v) \/ Ask(v) \/ StopEnhancement(v)
                               \/ Leave(v) \/ Heartbeat(v) \/ UpdateNative(v) \/ GotUpdate(v)
                                 \/ Reroute(v)
           \/ \E r \in Request : Admit(r) \/ GotReply(r)
           \/ \E n \in notes : GotNote(n)
           \/ Disable \/ SettingsUpdated \/ ClearActive \/ PushSettings
  BY <1>5 DEF Startup, HostFault, HostExit, RouteStop, Begin, GotClaim, Ask, StopEnhancement,
      Leave, Heartbeat, UpdateNative, GotUpdate, Reroute, Admit, GotReply, GotNote, Disable,
      SettingsUpdated, ClearActive,
      PushSettings, workerVars
<1> QED  BY <1>1, <1>2, <1>3, <1>4, <1>5 DEF Next, Take, Continue

\* A start that has put no session on record had not done so before.
LEMMA BeforeStep ==
  ASSUME TypeOK, Running, Next, Before', pc' # "idle"
  PROVE  Before
<1> USE DEF Before, StopPcs, DropPcs
<1>1. CASE \/ TakeClaim \/ TakeRelease \/ TakeStart \/ TakeStop \/ TakeScopedStop \/ TakeDisable
           \/ TakeRecover \/ TakeControl
  BY <1>1 DEF TakeClaim, TakeRelease, TakeStart, TakeStop, TakeScopedStop, TakeDisable,
    TakeRecover, TakeControl, Takes
<1>2. CASE \/ Claimed \/ Updating \/ StartReply \/ Finish \/ StartSession \/ Consent
  BY <1>2 DEF Claimed, Updating, StartReply, Finish, StartSession, Consent, Done
<1>3. CASE \/ ForceStop \/ Prepare \/ SetTitle \/ Measure \/ Connect \/ HostStart \/ Started
           \/ StartLost \/ ForceAnswered \/ Reattach
  BY <1>3 DEF ForceStop, Prepare, SetTitle, Measure, Connect, HostStart, Started,
    StartLost, StartFails, CallStop, NoStop, ForceAnswered, Reattach, Done
<1>4. CASE Stop \/ NotifyHost \/ RestoreFrame \/ RestoreTitle \/ Drop \/ Unclaim
  <2>1. stopping'.next = stopping.next
    BY <1>4 DEF TypeOK, Stop, NotifyHost, RestoreFrame, RestoreTitle, Drop, Unclaim
  <2>2. pc \in StopPcs \cup {"unclaim"} /\ pc' \in StopPcs \cup {"unclaim", stopping.next}
    BY <1>4 DEF Stop, NotifyHost, AfterNotify, RestoreFrame, RestoreTitle, Drop, Unclaim
  <2>3. stopping.next \in {"idle", "claimed", "start", "failed", "finish", "disabled"}
    BY DEF TypeOK
  <2> QED  BY <2>1, <2>2, <2>3
<1>5. CASE \/ Startup \/ HostFault \/ HostExit \/ RouteStop
           \/ \E v \in Video : \/ Begin(v) \/ GotClaim(v) \/ Ask(v) \/ StopEnhancement(v)
                               \/ Leave(v) \/ Heartbeat(v) \/ UpdateNative(v) \/ GotUpdate(v)
                                 \/ Reroute(v)
           \/ \E r \in Request : Admit(r) \/ GotReply(r)
           \/ \E n \in notes : GotNote(n)
           \/ Disable \/ SettingsUpdated \/ ClearActive \/ PushSettings
  <2>1. UNCHANGED <<pc, stopping>>
    BY <1>5 DEF Startup, HostFault, HostExit, RouteStop, Begin, GotClaim, Ask, StopEnhancement,
      Leave, Heartbeat, UpdateNative, GotUpdate, Reroute, Admit, GotReply, GotNote, Disable,
      SettingsUpdated, ClearActive,
      PushSettings, workerVars
  <2> QED  BY <2>1
<1>6. CASE Crash
  BY <1>6 DEF Crash
<1> QED  BY <1>1, <1>2, <1>3, <1>4, <1>5, <1>6 DEF Next, Take, Continue

LEMMA AnsweredItems ==
  ASSUME ScriptOK, NEW r \in Request, NEW outcome \in {"ok", "no"}, NEW s \in Session \cup {0},
         NEW n \in Request
  PROVE  /\ n # r => Answered(r, outcome, s)[n] = req[n]
         /\ Answered(r, outcome, s)[r].st \in {outcome, "done"}
         /\ Answered(r, outcome, s)[r].st # "done" => Answered(r, outcome, s)[r].v = req[r].v
  BY ReplyType DEF Answered, ScriptOK

\* What a step makes of one request.
Answers(n) == Popped /\ Job.kind = "start" /\ Job.n = n
Asked(n) == req[n].st \notin {"unused", "done"}
Kept(n) ==
  /\ req[n].st = "queued" => req'[n].st = "queued" \/ Answers(n) \/ Crash
  /\ req'[n].st \in {"unused", "inbox"} => req[n].st \in {"unused", "inbox"}
  /\ (Asked(n) => req[n].v \in Video) => (Asked(n)' => req'[n].v \in Video)

LEMMA RequestStep ==
  ASSUME TypeOK, Running, StartsQueued, Next, NEW n \in Request
  PROVE  Kept(n)
<1> USE Types DEF enhVars
<1>1. CASE Updating \/ Consent \/ StartSession \/ StartReply
  <2>1. Job.n \in Request /\ Job.kind = "start" /\ queue # <<>>
    BY <1>1, JobStarts DEF Updating, Consent, StartSession, StartReply, StartPcs
  <2>4. Asked(Job.n)
    BY <2>1, JobType DEF StartsQueued, Asked
  <2>2. session.s \in Session \cup {0} /\ Job.n \in Session \cup {0}
    BY <2>1 DEF RecordOK, Records, NoSession, Session
  <2>3. \/ UNCHANGED req
        \/ /\ Popped
           /\ \E outcome \in {"ok", "no"}, s \in Session \cup {0} :
                req' = Answered(Job.n, outcome, s)
    BY <1>1, <2>1, <2>2
    DEF Updating, Consent, StartSession, StartReply, Done, Popped
  <2> QED  BY <2>1, <2>3, <2>4, AnsweredItems DEF Kept, Answers, Asked
<1>2. CASE TakeStart
  <2>1. Job.kind = "start" /\ 1 \in DOMAIN queue /\ Job = queue[1] /\ queue # <<>>
    BY <1>2, JobType DEF TakeStart, Takes
  <2>2. Job.n \in Request /\ Asked(Job.n)
    BY <2>1 DEF StartsQueued, Asked
  <2>3. \/ UNCHANGED req
        \/ Popped /\ req' = Answered(Job.n, "no", 0)
    BY <1>2, <2>1 DEF TakeStart, Done, Popped
  <2> QED  BY <2>1, <2>2, <2>3, AnsweredItems DEF Kept, Answers, Asked
<1>3. CASE ForceStop \/ \E v \in Video : StopEnhancement(v)
  <2>1. \A v \in Video : ledger[v] \in Request \cup {0}
    BY DEF ScriptOK
  <2>2. UNCHANGED req \/ \E r \in Request \cup {0} : req' = Marked(r)
    BY <1>3, <2>1 DEF ForceStop, StopEnhancement, PageOK
  <2>3. \A r : Marked(r)[n].v = req[n].v
    BY DEF Marked, ScriptOK, Requests
  <2> QED  BY <2>2, <2>3, MarkedType DEF Kept, Asked
<1>4. CASE Crash
  <2>1. /\ Outcome(n, "no", 0).st \in {"no", "done"}
        /\ Outcome(n, "no", 0).st # "done" => Outcome(n, "no", 0).v = req[n].v
    BY ReplyType
  <2> QED  BY <1>4, <2>1 DEF Crash, Kept, Asked
<1>5. ASSUME NEW v \in Video, Ask(v)
      PROVE  Kept(n)
  <2>1. PICK r \in Request :
          /\ req[r].st = "unused"
          /\ req' = [Marked(ledger[v]) EXCEPT ![r] = [v |-> v, stop |-> FALSE, st |-> "inbox", s |-> 0]]
    BY <1>5 DEF Ask
  <2>2. /\ Marked(ledger[v]) \in [Request -> Requests] /\ Marked(ledger[v])[n].st = req[n].st
        /\ Marked(ledger[v])[n].v = req[n].v
    BY MarkedType DEF ScriptOK, Marked, Requests
  <2>3. /\ n = r => req'[n] = [v |-> v, stop |-> FALSE, st |-> "inbox", s |-> 0]
        /\ n # r => req'[n] = Marked(ledger[v])[n]
    BY <2>1, <2>2
  <2> QED  BY <2>1, <2>2, <2>3 DEF Kept, Asked
<1>6. ASSUME NEW v \in Video, Leave(v)
      PROVE  Kept(n)
  <2>1. req'[n] = IF req[n].v = v /\ req[n].st \in {"ok", "no"} THEN Spent ELSE req[n]
    BY <1>6 DEF Leave
  <2> QED  BY <2>1 DEF Kept, Asked, Spent, Unused
<1>7. ASSUME NEW r \in Request, Admit(r)
      PROVE  Kept(n)
  <2>1. req[r].st = "inbox" /\ req \in [Request -> Requests]
    BY <1>7 DEF Admit, ScriptOK
  <2>2. /\ [req EXCEPT ![r].st = "queued"][r].st = "queued"
        /\ [req EXCEPT ![r].st = "queued"][r].v = req[r].v
        /\ n # r => [req EXCEPT ![r].st = "queued"][n] = req[n]
    BY <2>1 DEF Requests
  <2>3. CASE enabled
    BY <1>7, <2>1, <2>2, <2>3 DEF Admit, Kept, Asked
  <2>4. CASE ~enabled
    BY <1>7, <2>1, <2>4, AnsweredItems DEF Admit, Kept, Asked
  <2> QED  BY <2>3, <2>4
<1>8. ASSUME NEW r \in Request, GotReply(r)
      PROVE  Kept(n)
  <2>1. req[r].st \in {"ok", "no"} /\ req' = [req EXCEPT ![r] = Spent]
    BY <1>8 DEF GotReply
  <2> QED  BY <2>1 DEF Kept, Asked, Spent, Unused, ScriptOK
<1>9. CASE \/ TakeClaim \/ TakeRelease \/ TakeStop \/ TakeScopedStop \/ TakeDisable \/ TakeRecover
           \/ TakeControl \/ Claimed \/ Prepare \/ SetTitle \/ Measure \/ Connect \/ HostStart
           \/ Started \/ StartLost \/ Stop \/ NotifyHost \/ RestoreFrame \/ RestoreTitle \/ Drop
           \/ Unclaim \/ Finish \/ Reattach \/ ForceAnswered
  <2>1. UNCHANGED req
    BY <1>9
    DEF TakeClaim, TakeRelease, TakeStop, TakeScopedStop, TakeDisable, TakeRecover, TakeControl,
      Claimed, Prepare, SetTitle, Measure, Connect, HostStart, Started, StartLost, Stop,
      NotifyHost, RestoreFrame, RestoreTitle, Drop, Unclaim, Finish, Reattach, ForceAnswered
  <2> QED  BY <2>1 DEF Kept, Asked
<1>10. CASE \/ Startup \/ HostFault \/ HostExit \/ RouteStop
            \/ \E v \in Video : Begin(v) \/ GotClaim(v) \/ Heartbeat(v) \/ UpdateNative(v)
                                \/ GotUpdate(v) \/ Reroute(v)
            \/ \E m \in notes : GotNote(m)
            \/ Disable \/ SettingsUpdated \/ ClearActive \/ PushSettings
  <2>1. UNCHANGED req
    BY <1>10
    DEF Startup, HostFault, HostExit, RouteStop, Begin, GotClaim, Heartbeat, UpdateNative,
    GotUpdate, Reroute, GotNote, Disable,
      SettingsUpdated, ClearActive, PushSettings
  <2> QED  BY <2>1 DEF Kept, Asked
<1> QED
  BY <1>1, <1>2, <1>3, <1>4, <1>5, <1>6, <1>7, <1>8, <1>9, <1>10 DEF Next, Take, Continue
-----------------------------------------------------------------------------
(* Queued starts                                                           *)

LEMMA BegunStep ==
  ASSUME QueueOK, Running, Next
  PROVE  \/ begun' = begun
         \/ /\ begun' = begun \cup {Job.n} /\ pc = "start"
            /\ pc' = "prepare" /\ Same /\ req' = req /\ session' = Preparing(Job)
<1> USE DEF ghostVars, enhVars, pageVars
<1>1. CASE StartSession
  BY <1>1 DEF StartSession, Same
<1>2. CASE \/ Take
           \/ ForceStop \/ Claimed \/ Updating \/ Prepare \/ SetTitle \/ Measure \/ Connect
           \/ HostStart \/ Started \/ StartLost \/ StartReply \/ Stop \/ NotifyHost \/ RestoreFrame
           \/ RestoreTitle \/ Drop \/ Unclaim \/ Finish \/ Reattach \/ Consent \/ ForceAnswered
  BY <1>2
  DEF Take, TakeClaim, TakeRelease, TakeStart, TakeStop, TakeScopedStop, TakeDisable, TakeRecover,
    TakeControl, ForceStop, Claimed, Updating, Prepare, SetTitle, Measure, Connect, HostStart,
    Started, StartLost, StartReply, Stop, NotifyHost, RestoreFrame, RestoreTitle, Drop, Unclaim,
    Finish, Reattach, Consent, ForceAnswered
<1>3. CASE \/ Crash \/ Startup \/ HostFault \/ HostExit \/ RouteStop
           \/ \E v \in Video : \/ Begin(v) \/ GotClaim(v) \/ Ask(v) \/ StopEnhancement(v)
                               \/ Leave(v) \/ Heartbeat(v) \/ UpdateNative(v) \/ GotUpdate(v)
                                 \/ Reroute(v)
           \/ \E r \in Request : Admit(r) \/ GotReply(r)
           \/ \E n \in notes : GotNote(n)
           \/ Disable \/ SettingsUpdated \/ ClearActive \/ PushSettings
  BY <1>3
  DEF Crash, Startup, HostFault, HostExit, RouteStop, Begin, GotClaim, Ask, StopEnhancement,
    Leave, Heartbeat, UpdateNative, GotUpdate, Reroute, Admit, GotReply, GotNote, Disable,
    SettingsUpdated, ClearActive, PushSettings
<1> QED  BY <1>1, <1>2, <1>3 DEF Next, Continue

LEMMA BegunAskedStep ==
  ASSUME TypeOK, Running, StartsQueued, BegunAsked, Next
  PROVE  BegunAsked'
<1>1. QueueOK
  BY Types
<1>2. \A r \in Request : Kept(r)
  BY RequestStep
<1>3. begun \subseteq Request
  BY DEF TypeOK, Session
<1>4. ASSUME NEW r \in begun'
      PROVE  req'[r].st \notin {"unused", "inbox"}
  <2>1. CASE r \in begun
    BY <1>2, <1>3, <2>1 DEF Kept, BegunAsked
  <2>2. CASE r \notin begun
    <3>1. r = Job.n /\ pc = "start" /\ req' = req
      BY <1>1, <2>2, BegunStep
    <3>2. queue # <<>> /\ Job.kind = "start"
      BY <3>1 DEF Running
    <3>3. 1 \in DOMAIN queue /\ Job = queue[1]
      BY <1>1, <3>2, JobType
    <3> QED  BY <3>1, <3>2, <3>3 DEF StartsQueued
  <2> QED  BY <2>1, <2>2
<1> QED  BY <1>2, <1>4 DEF BegunAsked, Kept, Asked

\* What a page that goes away leaves in the queue: the last task, if there are
\* two, is the stop of its session.
Parted(v, s) ==
  \A i \in DOMAIN s : /\ s[i].kind \notin {"start", "disable"}
                      /\ s[i].kind = "closeStop" => IsActiveOf(v) /\ s[i].n = session.s

LEMMA PartingKinds ==
  ASSUME RecordOK, NEW v \in Video, Parting(v)
  PROVE  \E s : Added(s) /\ Parted(v, s)
<1>1. PICK kind \in {"navStop", "closeStop"} : Added(Departure(v, kind))
  BY DEF Parting
<1> DEFINE a == Task("release", v, 0)
           b == Task(kind, v, session.s)
           c == IF IsActiveOf(v) THEN <<b>> ELSE <<>>
<1>2. Added(<<a>> \o c)
  BY <1>1 DEF Departure
<1>3. session.s \in Session \cup {0}
  BY DEF RecordOK, Records, NoSession
<1>4. /\ a \in Tasks /\ a.kind = "release" /\ b \in Tasks
      /\ b.kind \notin {"start", "disable"} /\ b.n = session.s
  BY <1>3, TaskType DEF Kinds
<1> HIDE DEF a, b
<1>5. <<a>> \in Seq(Tasks) /\ c \in Seq(Tasks) /\ Len(<<a>>) = 1
  BY <1>4
<1>6. \A i \in DOMAIN c : IsActiveOf(v) /\ c[i] = b
  BY <1>4
<1> HIDE DEF c
<1>7. /\ Len(<<a>> \o c) = 1 + Len(c) /\ <<a>> \o c \in Seq(Tasks)
      /\ \A i \in 1..(1 + Len(c)) : (<<a>> \o c)[i] = IF i <= 1 THEN <<a>>[i] ELSE c[i - 1]
  BY <1>5, ConcatProperties
<1>8. DOMAIN c = 1..Len(c) /\ Len(c) \in Nat /\ DOMAIN (<<a>> \o c) = 1..(1 + Len(c))
  BY <1>5, <1>7, LenProperties
<1>9. ASSUME NEW i \in DOMAIN (<<a>> \o c)
      PROVE  (<<a>> \o c)[i] = a \/ (IsActiveOf(v) /\ (<<a>> \o c)[i] = b)
  <2>1. i \in 1..(1 + Len(c)) /\ (i = 1 \/ i - 1 \in DOMAIN c)
    BY <1>8, <1>9
  <2>2. <<a>>[1] = a
    OBVIOUS
  <2> QED  BY <1>6, <1>7, <1>8, <2>1, <2>2
<1>10. \A i \in DOMAIN (<<a>> \o c) :
         /\ (<<a>> \o c)[i].kind \notin {"start", "disable"}
         /\ (<<a>> \o c)[i].kind = "closeStop" => IsActiveOf(v) /\ (<<a>> \o c)[i].n = session.s
  BY <1>4, <1>9
<1> QED  BY <1>2, <1>10 DEF Parted

\* A start that joins the queue.
LEMMA NewStart ==
  ASSUME TypeOK, BegunAsked, NEW r \in Request, Admit(r), Starting(r)
  PROVE  /\ req[r].st = "inbox" /\ req'[r].st = "queued" /\ req[r].v \in Video
         /\ r \notin begun /\ begun' = begun
         /\ \A i \in DOMAIN <<Task("start", req[r].v, r)>> :
              <<Task("start", req[r].v, r)>>[i] = Task("start", req[r].v, r)
         /\ Task("start", req[r].v, r).n = r /\ Task("start", req[r].v, r).v = req[r].v
<1>1. req[r].st = "inbox" /\ begun' = begun
  BY DEF Admit, ghostVars
<1>2. enabled
  <2>1. CASE ~enabled
    <3>1. queue' = queue
      BY <2>1 DEF Admit
    <3>2. queue' # queue
      <4> DEFINE t == Task("start", req[r].v, r)
      <4>1. queue \in Seq(Tasks) /\ <<t>> \in Seq(Tasks) /\ queue' = queue \o <<t>>
        BY Types DEF Starting, Added, QueueOK
      <4> HIDE DEF t
      <4>2. <<t>> # <<>>
        OBVIOUS
      <4> QED  BY <4>1, <4>2, ConcatEqualIffEmpty
    <3> QED  BY <3>1, <3>2
  <2> QED  BY <2>1
<1>3. req'[r].st = "queued"
  <2>1. req' = [req EXCEPT ![r].st = "queued"]
    BY <1>2 DEF Admit
  <2> QED  BY <2>1 DEF TypeOK
<1> QED  BY <1>1, <1>3, TaskType DEF BegunAsked, Task

\* What becomes of a queued start: it stays queued, or it is the one answered.
LEMMA OldStart ==
  ASSUME TypeOK, Running, StartsQueued, StartsDiffer, Next, ~Crash,
         NEW i \in DOMAIN queue, queue[i].kind = "start", ~(i = 1 /\ Popped)
  PROVE  req'[queue[i].n].st = "queued"
<1>1. queue[i].n \in Request /\ req[queue[i].n].st = "queued"
  BY DEF StartsQueued
<1>2. Kept(queue[i].n)
  BY <1>1, RequestStep
<1>3. CASE Answers(queue[i].n)
  <2>1. QueueOK /\ queue # <<>> /\ Popped /\ Job.kind = "start" /\ Job.n = queue[i].n
    BY <1>3, Types DEF Answers, Popped
  <2>2. 1 \in DOMAIN queue /\ Job = queue[1]
    BY <2>1, JobType
  <2>3. i = 1
    BY <2>1, <2>2 DEF StartsDiffer
  <2> QED  BY <2>1, <2>3
<1> QED  BY <1>1, <1>2, <1>3 DEF Kept

LEMMA StartsQueuedStep ==
  ASSUME TypeOK, Running, StartsQueued, StartsDiffer, BegunAsked, Next
  PROVE  StartsQueued'
<1>1. QueueOK /\ RecordOK
  BY Types
<1>2. CASE Crash
  <2>1. \A i \in DOMAIN queue' : queue'[i].kind # "start"
    BY <1>2, RestartedType DEF Crash, Plain
  <2> QED  BY <2>1 DEF StartsQueued
<1>3. CASE Popped /\ ~Crash
  <2>1. /\ \A i \in DOMAIN queue' : i + 1 \in DOMAIN queue /\ queue'[i] = queue[i + 1]
        /\ DOMAIN queue' \subseteq Nat \ {0}
    BY <1>1, <1>3, PoppedItems
  <2>2. begun' = begun
    BY <1>1, <1>3, BegunStep DEF Popped
  <2>3. ASSUME NEW i \in DOMAIN queue', queue'[i].kind = "start"
        PROVE  /\ queue'[i].n \in Request /\ queue'[i].v \in Video
               /\ req'[queue'[i].n].st = "queued" /\ queue'[i].n \notin begun'
    <3>1. i + 1 \in DOMAIN queue /\ queue'[i] = queue[i + 1] /\ i + 1 # 1
      BY <2>1
    <3>2. req'[queue[i + 1].n].st = "queued"
      BY <1>3, <2>3, <3>1, OldStart
    <3> QED  BY <2>2, <2>3, <3>1, <3>2 DEF StartsQueued
  <2> QED  BY <2>3 DEF StartsQueued
<1>4. ASSUME ~Crash, ~Popped
      PROVE  StartsQueued'
  <2>1. ASSUME NEW i \in DOMAIN queue, queue[i].kind = "start"
        PROVE  /\ queue[i].n \in Request /\ queue[i].v \in Video
               /\ req'[queue[i].n].st = "queued"
               /\ (i = 1 => Before') => queue[i].n \notin begun'
    <3>1. req'[queue[i].n].st = "queued"
      BY <1>4, <2>1, OldStart
    <3>2. Before' /\ i = 1 => Before
      <4>1. CASE pc' = "idle"
        BY <1>4, <4>1, IdleStep DEF Before
      <4>2. CASE pc' # "idle"
        BY <4>2, BeforeStep
      <4> QED  BY <4>1, <4>2
    <3>3. (i = 1 => Before') => queue[i].n \notin begun'
      <4>1. CASE begun' = begun
        BY <2>1, <3>2, <4>1 DEF StartsQueued
      <4>2. CASE begun' = begun \cup {Job.n} /\ pc = "start" /\ pc' = "prepare"
        <5>1. queue # <<>> /\ Job.kind = "start"
          BY <4>2 DEF Running
        <5>2. 1 \in DOMAIN queue /\ Job = queue[1]
          BY <1>1, <5>1, JobType
        <5>3. i # 1 => queue[i].n # Job.n
          BY <2>1, <5>1, <5>2 DEF StartsDiffer
        <5>4. ~Before'
          BY <4>2 DEF Before, StopPcs, DropPcs
        <5> QED  BY <2>1, <3>2, <4>2, <5>3, <5>4 DEF StartsQueued
      <4> QED  BY <1>1, <4>1, <4>2, BegunStep
    <3> QED  BY <2>1, <3>1, <3>3 DEF StartsQueued
  <2>2. CASE Same
    BY <2>1, <2>2 DEF Same, StartsQueued
  <2>3. ASSUME NEW s, Added(s), \A i \in DOMAIN s : s[i].kind # "start"
        PROVE  StartsQueued'
    <3>1. ASSUME NEW i \in DOMAIN queue', queue'[i].kind = "start"
          PROVE  i \in DOMAIN queue /\ queue'[i] = queue[i]
      BY <1>1, <2>3, <3>1, AddedItems
    <3> QED  BY <2>1, <3>1 DEF StartsQueued
  <2>4. ASSUME NEW r \in Request, Admit(r), Starting(r)
        PROVE  StartsQueued'
    <3> DEFINE s == <<Task("start", req[r].v, r)>>
    <3>1. ASSUME NEW i \in DOMAIN queue', i \notin DOMAIN queue
          PROVE  /\ queue'[i].n = r /\ queue'[i].v \in Video /\ req'[r].st = "queued"
                 /\ r \notin begun'
      <4>1. i - Len(queue) \in DOMAIN s /\ queue'[i] = s[i - Len(queue)]
        BY <1>1, <2>4, <3>1, AddedItems DEF Starting
      <4> QED  BY <2>4, <4>1, NewStart
    <3>2. ASSUME NEW i \in DOMAIN queue
          PROVE  queue'[i] = queue[i]
      BY <1>1, <2>4, AddedItems DEF Starting
    <3> HIDE DEF s
    <3> QED  BY <2>1, <3>1, <3>2 DEF StartsQueued
  <2>5. ASSUME NEW v \in Video, Leave(v), Parting(v)
        PROVE  StartsQueued'
    <3>1. PICK s : Added(s) /\ Parted(v, s)
      BY <1>1, <2>5, PartingKinds
    <3> QED  BY <2>3, <3>1 DEF Parted
  <2> QED  BY <1>4, <2>2, <2>3, <2>4, <2>5, QueueStep DEF Plain, Running
<1> QED  BY <1>2, <1>3, <1>4

LEMMA StartsDifferStep ==
  ASSUME TypeOK, Running, StartsQueued, StartsDiffer, BegunAsked, Next
  PROVE  StartsDiffer'
<1>1. QueueOK /\ RecordOK
  BY Types
<1>2. CASE Crash
  BY <1>2, RestartedType DEF Crash, Plain, StartsDiffer
<1>3. CASE Popped
  <2>1. /\ \A i \in DOMAIN queue' : i + 1 \in DOMAIN queue /\ queue'[i] = queue[i + 1]
        /\ DOMAIN queue' \subseteq Nat
    BY <1>1, <1>3, PoppedItems
  <2>2. ASSUME NEW i \in DOMAIN queue', NEW j \in DOMAIN queue', queue'[i].kind = "start",
               queue'[j].kind = "start", queue'[i].n = queue'[j].n
        PROVE  i = j
    <3>1. i + 1 = j + 1
      BY <2>1, <2>2 DEF StartsDiffer
    <3> QED  BY <2>1, <3>1
  <2> QED  BY <2>2 DEF StartsDiffer
<1>4. CASE Same
  BY <1>4 DEF Same, StartsDiffer
<1>5. ASSUME NEW s, Added(s), \A i \in DOMAIN s : s[i].kind # "start"
      PROVE  StartsDiffer'
  <2>1. ASSUME NEW i \in DOMAIN queue', queue'[i].kind = "start"
        PROVE  i \in DOMAIN queue /\ queue'[i] = queue[i]
    BY <1>1, <1>5, <2>1, AddedItems
  <2> QED  BY <2>1 DEF StartsDiffer
<1>6. ASSUME NEW r \in Request, Admit(r), Starting(r)
      PROVE  StartsDiffer'
  <2> DEFINE s == <<Task("start", req[r].v, r)>>
  <2>1. ASSUME NEW i \in DOMAIN queue', i \notin DOMAIN queue
        PROVE  queue'[i].n = r /\ i = Len(queue) + 1
    <3>1. i - Len(queue) \in DOMAIN s /\ queue'[i] = s[i - Len(queue)]
      BY <1>1, <1>6, <2>1, AddedItems DEF Starting
    <3>2. i - Len(queue) = 1 /\ i \in Nat /\ Len(queue) \in Nat
      BY <1>1, <1>6, <2>1, <3>1, AddedItems DEF Starting
    <3> QED  BY <1>6, <3>1, <3>2, NewStart
  <2>2. ASSUME NEW i \in DOMAIN queue, queue[i].kind = "start"
        PROVE  queue'[i] = queue[i] /\ queue[i].n # r
    <3>1. req[r].st = "inbox"
      BY <1>6, NewStart
    <3> QED  BY <1>1, <1>6, <2>2, <3>1, AddedItems DEF Starting, StartsQueued
  <2>3. \A i \in DOMAIN queue : queue'[i] = queue[i]
    BY <1>1, <1>6, AddedItems DEF Starting
  <2> HIDE DEF s
  <2>4. ASSUME NEW i \in DOMAIN queue', NEW j \in DOMAIN queue', queue'[i].kind = "start",
               queue'[j].kind = "start", queue'[i].n = queue'[j].n
        PROVE  i = j
    <3>1. CASE i \in DOMAIN queue /\ j \in DOMAIN queue
      BY <2>3, <2>4, <3>1 DEF StartsDiffer
    <3>2. CASE i \notin DOMAIN queue \/ j \notin DOMAIN queue
      BY <2>1, <2>2, <2>3, <2>4, <3>2
    <3> QED  BY <3>1, <3>2
  <2> QED  BY <2>4 DEF StartsDiffer
<1>7. ASSUME NEW v \in Video, Leave(v), Parting(v)
      PROVE  StartsDiffer'
  <2>1. PICK s : Added(s) /\ Parted(v, s)
    BY <1>1, <1>7, PartingKinds
  <2> QED  BY <1>5, <2>1 DEF Parted
<1> QED  BY <1>2, <1>3, <1>4, <1>5, <1>6, <1>7, QueueStep DEF Plain, Running

-----------------------------------------------------------------------------
(* The record                                                              *)

\* What a step makes of the record.
LEMMA SessionStep ==
  ASSUME Next
  PROVE  \/ session' = session
         \/ /\ pc = "start" /\ pc' = "prepare" /\ session' = Preparing(Job)
            /\ begun' = begun \cup {Job.n} /\ loaded' = TRUE /\ queue' = queue
         \/ /\ pc = "started" /\ pc' = "reply" /\ session' = [session EXCEPT !.phase = "active"]
            /\ UNCHANGED <<loaded, queue, begun>>
         \/ /\ pc = "stop" /\ pc' = "notify" /\ session # NoSession /\ session' = Stopped
            /\ loaded' = TRUE /\ queue' = queue /\ begun' = begun
         \/ /\ pc = "drop" /\ pc' = "unclaim" /\ session' = NoSession
            /\ begun' = begun
<1> USE DEF durableVars, memoryVars, ghostVars
<1>1. CASE StartSession
  BY <1>1 DEF StartSession
<1>2. CASE Started
  BY <1>2 DEF Started
<1>3. CASE Stop
  BY <1>3 DEF Stop
<1>4. CASE Drop
  BY <1>4 DEF Drop, Cleared
<1>5. CASE \/ Take
           \/ ForceStop \/ Claimed \/ Updating \/ Prepare \/ SetTitle \/ Measure \/ Connect
           \/ HostStart \/ StartLost \/ StartReply \/ NotifyHost \/ RestoreFrame
           \/ RestoreTitle \/ Unclaim \/ Finish \/ Reattach \/ Consent \/ ForceAnswered
  BY <1>5
  DEF Take, TakeClaim, TakeRelease, TakeStart, TakeStop, TakeScopedStop, TakeDisable, TakeRecover,
    TakeControl, ForceStop, Claimed, Updating, Prepare, SetTitle, Measure, Connect, HostStart,
    StartLost, StartReply, NotifyHost, RestoreFrame, RestoreTitle, Unclaim, Finish, Reattach,
    Consent, ForceAnswered
<1>6. CASE \/ Crash \/ Startup \/ HostFault \/ HostExit \/ RouteStop
           \/ \E v \in Video : \/ Begin(v) \/ GotClaim(v) \/ Ask(v) \/ StopEnhancement(v)
                               \/ Leave(v) \/ Heartbeat(v) \/ UpdateNative(v) \/ GotUpdate(v)
                                 \/ Reroute(v)
           \/ \E r \in Request : Admit(r) \/ GotReply(r)
           \/ \E n \in notes : GotNote(n)
           \/ Disable \/ SettingsUpdated \/ ClearActive \/ PushSettings
  BY <1>6
  DEF Crash, Startup, HostFault, HostExit, RouteStop, Begin, GotClaim, Ask, StopEnhancement,
    Leave, Heartbeat, UpdateNative, GotUpdate, Reroute, Admit, GotReply, GotNote, Disable,
    SettingsUpdated, ClearActive, PushSettings
<1> QED  BY <1>1, <1>2, <1>3, <1>4, <1>5, <1>6 DEF Next, Continue

LEMMA RecordedStep ==
  ASSUME TypeOK, Running, StartsQueued, Recorded, Next
  PROVE  Recorded'
<1> USE Types DEF StartPcs, DropPcs, StopPcs, memoryVars
<1>1. session' # NoSession => session'.s \in begun'
  <2>1. begun \subseteq begun'
    BY BegunStep
  <2>2. CASE pc = "start" /\ session' = Preparing(Job) /\ begun' = begun \cup {Job.n}
    BY <2>2 DEF Preparing
  <2>3. CASE pc = "started" /\ session' = [session EXCEPT !.phase = "active"]
    <3>1. session \in Records
      BY <2>3 DEF Recorded, RecordOK, NoSession
    <3>2. session # NoSession /\ session'.s = session.s
      BY <2>3, <3>1 DEF Records, NoSession
    <3> QED  BY <2>1, <3>2 DEF Recorded
  <2>4. CASE session # NoSession /\ session' = Stopped
    <3>1. session'.s = session.s
      BY <2>4 DEF Stopped, RecordOK, Records
    <3> QED  BY <2>1, <2>4, <3>1 DEF Recorded
  <2> QED  BY <2>1, <2>2, <2>3, <2>4, SessionStep DEF Recorded
<1>2. CASE \/ TakeClaim \/ TakeRelease \/ TakeStart \/ TakeStop \/ TakeScopedStop \/ TakeDisable
           \/ TakeRecover \/ TakeControl
  <2>1. pc' \in {"idle", "forcing", "consent", "reattach", "stop"}
    BY <1>2 DEF TakeClaim, TakeRelease, TakeStart, TakeStop, TakeScopedStop, TakeDisable,
      TakeRecover, TakeControl, Takes, Done, CallStop
  <2> QED  BY <1>1, <2>1 DEF Recorded
<1>3. CASE \/ Claimed \/ Updating \/ StartReply \/ Finish \/ Consent \/ Reattach \/ ForceStop
           \/ ForceAnswered \/ Crash
  <2>1. pc' \in {"idle", "updating", "stop", "forced", "claimed"}
    BY <1>3 DEF Claimed, Updating, StartReply, Finish, Consent, Reattach, ForceStop,
      ForceAnswered, Crash, Done, CallStop
  <2> QED  BY <1>1, <2>1 DEF Recorded
<1>4. CASE StartSession
  BY <1>1, <1>4 DEF StartSession, Done, Preparing, Recorded, Job
<1>5. CASE Prepare \/ SetTitle \/ Measure \/ Connect \/ HostStart \/ StartLost
  <2>1. \/ pc' = "stop"
        \/ /\ pc \in StartPcs \ {"reply"} /\ pc' \in StartPcs \ {"reply"}
           /\ UNCHANGED <<queue, loaded, session>>
    BY <1>5 DEF Prepare, SetTitle, Measure, Connect, HostStart, StartLost, StartFails, CallStop,
      durableVars
  <2> QED  BY <1>1, <2>1 DEF Recorded, Job
<1>6. CASE Started
  <2>1. session \in Records
    BY <1>6 DEF Started, Recorded, RecordOK, NoSession
  <2> QED  BY <1>1, <1>6, <2>1 DEF Started, Recorded, Records, Job
<1>7. CASE Stop
  <2>1. CASE session # NoSession /\ session' = Stopped /\ pc' = "notify" /\ loaded' = TRUE
    <3>1. session'.phase = "stopping"
      BY <2>1 DEF Stopped, RecordOK, Records
    <3> QED  BY <1>1, <2>1, <3>1 DEF Recorded
  <2>2. CASE session' = session /\ pc' = stopping.next
    <3>1. stopping.next \in {"claimed", "start", "failed", "finish", "disabled"}
      BY <1>7 DEF Stop, Running, WorkerOK, Stops
    <3>2. stopping.next = "start" => session = NoSession
      BY <1>7, <2>2 DEF Stop, Running
    <3> QED  BY <1>1, <2>2, <3>1, <3>2 DEF Recorded
  <2> QED  BY <1>7, <2>1, <2>2 DEF Stop
<1>8. CASE NotifyHost \/ RestoreFrame \/ RestoreTitle
  <2>1. /\ pc \in DropPcs /\ pc' \in DropPcs
        /\ UNCHANGED <<loaded, session>>
    BY <1>8 DEF NotifyHost, AfterNotify, RestoreFrame, RestoreTitle, durableVars
  <2> QED  BY <1>1, <2>1 DEF Recorded
<1>9. CASE Drop
  BY <1>1, <1>9 DEF Drop, Cleared, Recorded
<1>10. CASE Unclaim
  <2>1. stopping.next \in {"claimed", "start", "failed", "finish", "disabled"}
    BY <1>10 DEF Unclaim, Running, WorkerOK, Stops
  <2> QED  BY <1>1, <1>10, <2>1 DEF Unclaim, Recorded
<1>11. CASE \/ Startup \/ HostFault \/ HostExit \/ RouteStop
            \/ \E v \in Video : \/ Begin(v) \/ GotClaim(v) \/ Ask(v) \/ StopEnhancement(v)
                                \/ Leave(v) \/ Heartbeat(v) \/ UpdateNative(v) \/ GotUpdate(v)
                                  \/ Reroute(v)
            \/ \E r \in Request : Admit(r) \/ GotReply(r)
            \/ \E n \in notes : GotNote(n)
            \/ Disable \/ SettingsUpdated \/ ClearActive \/ PushSettings
  <2>1. UNCHANGED <<pc, loaded, session>>
    BY <1>11 DEF Startup, HostFault, HostExit, RouteStop, Begin, GotClaim, Ask, StopEnhancement,
      Leave, Heartbeat, UpdateNative, GotUpdate, Reroute, Admit, GotReply, GotNote, Disable,
      SettingsUpdated, ClearActive,
      PushSettings, workerVars, durableVars
  <2>2. pc \in StartPcs => Job' = Job
    <3>1. ASSUME pc \in StartPcs
          PROVE  Job' = Job
      <4>1. queue # <<>> /\ (Same \/ \E s : Added(s))
        BY <1>11, <2>1, <3>1, QueueStep DEF Popped, Starting, Parting, Running, Crash
      <4> QED  BY <4>1, AddedHead DEF Same, Job
    <3> QED  BY <3>1
  <2> QED  BY <1>1, <2>1, <2>2 DEF Recorded
<1> QED
  BY <1>2, <1>3, <1>4, <1>5, <1>6, <1>7, <1>8, <1>9, <1>10, <1>11 DEF Next, Take, Continue

\* The host captures the session on record, over an open port.
LEMMA CaptureStep ==
  ASSUME TypeOK, Running, StartsQueued, Recorded, CaptureOnRecord, Next
  PROVE  CaptureOnRecord'
<1> USE Types DEF CaptureOnRecord, memoryVars, durableVars
<1>1. CASE \/ TakeClaim \/ TakeRelease \/ TakeStart \/ TakeStop \/ TakeScopedStop \/ TakeDisable
           \/ ForceStop \/ Claimed \/ Consent \/ Prepare \/ SetTitle \/ Measure \/ StartLost
           \/ StartReply \/ RestoreFrame \/ RestoreTitle \/ Unclaim \/ Finish \/ ForceAnswered
  BY <1>1
  DEF TakeClaim, TakeRelease, TakeStart, TakeStop, TakeScopedStop, TakeDisable, ForceStop,
    Claimed, Consent, Prepare, SetTitle, Measure, StartLost, StartReply, RestoreFrame,
    RestoreTitle, Unclaim, Finish, ForceAnswered
<1>2. CASE \/ Startup \/ HostExit \/ RouteStop
           \/ \E v \in Video : \/ Begin(v) \/ GotClaim(v) \/ Ask(v) \/ StopEnhancement(v)
                               \/ Leave(v) \/ Heartbeat(v) \/ UpdateNative(v) \/ GotUpdate(v)
                                 \/ Reroute(v)
           \/ \E r \in Request : Admit(r) \/ GotReply(r)
           \/ \E n \in notes : GotNote(n)
           \/ Disable \/ SettingsUpdated \/ ClearActive \/ PushSettings
  BY <1>2
  DEF Startup, HostExit, RouteStop, Begin, GotClaim, Ask, StopEnhancement, Leave, Heartbeat,
  UpdateNative, GotUpdate, Reroute, Admit,
    GotReply, GotNote, Disable, SettingsUpdated, ClearActive, PushSettings
<1>3. CASE Updating \/ TakeControl \/ TakeRecover \/ Reattach \/ Connect
  <2>1. /\ UNCHANGED <<session, capturing>>
        /\ client = "open" => client' = "open"
    BY <1>3 DEF Updating, TakeControl, TakeRecover, Reattach, Connect, Reconfigured,
      NotReconfigured, MayReconnect
  <2> QED  BY <2>1
<1>4. CASE StartSession
  <2>1. session = NoSession
    BY <1>4 DEF StartSession, Recorded
  <2>2. capturing = 0
    BY <2>1 DEF NoSession
  <2> QED  BY <1>4, <2>2 DEF StartSession
<1>5. CASE HostStart
  BY <1>5 DEF HostStart
<1>6. CASE Started
  <2>1. session \in Records
    BY <1>6 DEF Started, Recorded, StartPcs, RecordOK, NoSession
  <2> QED  BY <1>6, <2>1 DEF Started, Records
<1>7. CASE Stop
  <2>1. session # NoSession => Stopped.s = session.s
    BY DEF Stopped, RecordOK, Records
  <2> QED  BY <1>7, <2>1 DEF Stop
<1>8. CASE Drop \/ Crash
  BY <1>8 DEF Drop, ClosePort, Crash
<1>9. CASE NotifyHost \/ HostFault
  BY <1>9 DEF NotifyHost, HostFault
<1> QED
  BY <1>1, <1>2, <1>3, <1>4, <1>5, <1>6, <1>7, <1>8, <1>9 DEF Next, Take, Continue

-----------------------------------------------------------------------------
(* The invariant of the worker                                             *)

IInv == /\ TypeOK /\ Running /\ StartsQueued /\ StartsDiffer /\ BegunAsked /\ Recorded
        /\ CaptureOnRecord

\* All of it holds when the extension is installed.
LEMMA IInvInit ==
  ASSUME Init
  PROVE  IInv
<1> USE DEF Init
<1>1. QueueOK
  <2>1. <<>> \in Seq(Tasks)
    OBVIOUS
  <2> QED  BY <2>1 DEF QueueOK
<1>2. WorkerOK
  BY DEF WorkerOK, Stops, NoStop
<1>3. RecordOK /\ PageOK
  BY DEF RecordOK, PageOK
<1>4. ScriptOK
  <2>1. Unused \in Requests
    BY DEF Unused, Requests
  <2> QED  BY <2>1 DEF ScriptOK
<1>5. TypeOK
  BY <1>1, <1>2, <1>3, <1>4, Types
<1>6. Running
  BY DEF Running, StartPcs, StopPcs, DropPcs
<1>7. DOMAIN queue = {}
  OBVIOUS
<1>8. StartsQueued /\ StartsDiffer
  BY <1>7 DEF StartsQueued, StartsDiffer
<1>9. BegunAsked
  BY DEF BegunAsked, Unused
<1>10. Recorded /\ CaptureOnRecord
  BY DEF Recorded, CaptureOnRecord, StartPcs, DropPcs
<1> QED  BY <1>5, <1>6, <1>8, <1>9, <1>10 DEF IInv

\* Every step of the worker, the pages and the host keeps it.
LEMMA IInvStep ==
  ASSUME IInv, [Next]_vars
  PROVE  IInv'
<1> USE DEF IInv
<1>1. TypeOK' /\ Running'
  BY TypeStep, RunningStep
<1>2. CASE Next
  BY <1>1, <1>2, StartsQueuedStep, StartsDifferStep, BegunAskedStep, RecordedStep, CaptureStep
<1>3. CASE UNCHANGED vars
  <2>1. UNCHANGED <<queue, pc, stopping, req, begun, session, loaded, capturing, client>>
    BY <1>3 DEF vars, workerVars, memoryVars, durableVars, enhVars, ghostVars
  <2>2. StartsQueued' /\ StartsDiffer' /\ BegunAsked'
    BY <2>1 DEF StartsQueued, StartsDiffer, BegunAsked, Before
  <2>3. Recorded' /\ CaptureOnRecord'
    BY <2>1 DEF Recorded, CaptureOnRecord, Job
  <2> QED  BY <1>1, <2>2, <2>3
<1> QED  BY <1>2, <1>3

\* The inductive invariant: beside the types, where a running task may be, which
\* starts still wait for their answer, and what the record holds at each step of
\* a start and of a stop.
THEOREM Invariant == Spec => []IInv
<1>1. Init => IInv
  BY IInvInit
<1>2. IInv /\ [Next]_vars => IInv'
  BY IInvStep
<1> QED  BY <1>1, <1>2, PTL DEF Spec

\* Every variable keeps its type: a record is whole or absent, a request has one
\* state, and no stop is left without a place to go on.
THEOREM TypeCorrect == Spec => []TypeOK
<1>1. IInv => TypeOK
  BY DEF IInv
<1> QED  BY <1>1, Invariant, PTL

\* No capture outlives its record: whatever the host captures is the session in
\* storage, over an open port, whichever way a start fails, however stops, faults
\* and restarts of the host interleave with it, and whenever the worker dies.
THEOREM CaptureCorrect == Spec => []CaptureOnRecord
<1>1. IInv => CaptureOnRecord
  BY DEF IInv
<1> QED  BY <1>1, Invariant, PTL

\* Storing a record, activating it, marking it as stopping and clearing it are
\* the only things that happen to it, each from the phase before.
LEMMA LifecycleStep ==
  ASSUME IInv, [Next]_vars
  PROVE  Lifecycle!Next \/ UNCHANGED Lifecycle!vars
<1> USE Types DEF IInv, Lifecycle!vars
<1>1. CASE UNCHANGED vars
  BY <1>1 DEF vars, durableVars, ghostVars
<1>2. CASE session' = session /\ begun' = begun
  BY <1>2
<1>3. CASE /\ pc = "start" /\ session' = Preparing(Job) /\ begun' = begun \cup {Job.n}
  <2>1. Job.n \in Request /\ Job.kind = "start" /\ queue # <<>> /\ Job = queue[1]
        /\ 1 \in DOMAIN queue
    BY <1>3, JobStarts, JobType
  <2>2. Job.n \notin begun
    BY <1>3, <2>1 DEF StartsQueued, Before
  <2>3. session = NoSession
    BY <1>3 DEF Recorded
  <2>4. Lifecycle!Prepare(Job.n)
    BY <1>3, <2>2, <2>3 DEF Lifecycle!Prepare, Preparing, NoSession
  <2> QED  BY <2>1, <2>4 DEF Lifecycle!Next, Session
<1>4. CASE /\ pc = "started" /\ session' = [session EXCEPT !.phase = "active"]
           /\ begun' = begun
  <2>1. session.phase = "preparing" /\ session \in Records
    BY <1>4 DEF Recorded, StartPcs, RecordOK, NoSession
  <2>2. session'.phase = "active" /\ session'.s = session.s
    BY <1>4, <2>1 DEF Records
  <2> QED  BY <1>4, <2>1, <2>2 DEF Lifecycle!Next, Lifecycle!Activate
<1>5. CASE session # NoSession /\ session' = Stopped /\ begun' = begun
  <2>1. session \in Records
    BY <1>5 DEF RecordOK
  <2>2. session'.phase = "stopping" /\ session'.s = session.s
        /\ session.phase \in {"preparing", "active", "stopping"}
    BY <1>5, <2>1 DEF Stopped, Records
  <2> QED  BY <1>5, <2>2 DEF Lifecycle!Next, Lifecycle!Stop
<1>6. CASE pc = "drop" /\ session' = NoSession /\ begun' = begun
  <2>1. session.phase = "stopping"
    BY <1>6 DEF Recorded, DropPcs
  <2> QED  BY <1>6, <2>1 DEF Lifecycle!Next, Lifecycle!Clear, NoSession
<1>7. CASE Next
  BY <1>2, <1>3, <1>4, <1>5, <1>6, <1>7, SessionStep, BegunStep
<1> QED  BY <1>1, <1>7

\* Every session passes through its phases once and never comes back, through
\* every restart of the worker: the record implements SessionLifecycle.
THEOREM Refinement == Spec => SessionsInOrder
<1>1. Init => Lifecycle!Init
  BY DEF Init, Lifecycle!Init, NoSession
<1>2. IInv /\ [Next]_vars => [Lifecycle!Next]_Lifecycle!vars
  BY LifecycleStep
<1> QED  BY <1>1, <1>2, Invariant, PTL DEF Spec, SessionsInOrder, Lifecycle!Spec
-----------------------------------------------------------------------------
(* The pages                                                               *)

\* What a step makes of the marks of the pages.
LEMMA MarksStep ==
  ASSUME Next
  PROVE  \/ UNCHANGED <<present, frameMark, titleMark>>
         \/ /\ pc \in {"prepare", "title"} /\ session.v \in present
            /\ frameMark' \in {frameMark, MarkedFor(frameMark)}
            /\ titleMark' \in {titleMark, MarkedFor(titleMark)}
            /\ pc' \in {"title", "measure"}
            /\ UNCHANGED <<present, session, unverified>>
         \/ /\ pc = "restoreFrame" /\ pc' = "restoreTitle" /\ frameMark' = Restored(frameMark)
            /\ titleMark' \in {titleMark, Restored(titleMark)}
            /\ UNCHANGED <<stopping, present, session, unverified>>
         \/ /\ pc = "restoreTitle" /\ pc' = "drop" /\ titleMark' = Restored(titleMark)
            /\ UNCHANGED <<stopping, present, frameMark, session, unverified>>
         \/ \E v \in Video :
              /\ present' = present \ {v}
              /\ frameMark' = [frameMark EXCEPT ![v] = 0]
              /\ titleMark' = [titleMark EXCEPT ![v] = 0]
              /\ UNCHANGED <<pc, stopping, session, unverified>>
<1> USE DEF pageVars, durableVars, ghostVars
<1>1. CASE Prepare \/ SetTitle
  BY <1>1 DEF Prepare, SetTitle
<1>2. CASE RestoreFrame
  BY <1>2 DEF RestoreFrame
<1>3. CASE RestoreTitle
  BY <1>3 DEF RestoreTitle
<1>4. CASE \E v \in Video : Leave(v)
  BY <1>4 DEF Leave
<1>5. CASE \/ Take
           \/ ForceStop \/ Claimed \/ Updating \/ StartSession \/ Measure \/ Connect \/ HostStart
           \/ Started \/ StartLost \/ StartReply \/ Stop \/ NotifyHost \/ Drop \/ Unclaim
           \/ Finish \/ Reattach \/ Consent \/ ForceAnswered
  BY <1>5
  DEF Take, TakeClaim, TakeRelease, TakeStart, TakeStop, TakeScopedStop, TakeDisable, TakeRecover,
    TakeControl, ForceStop, Claimed, Updating, StartSession, Measure, Connect, HostStart, Started,
    StartLost, StartReply, Stop, NotifyHost, Drop, Unclaim, Finish, Reattach, Consent,
    ForceAnswered
<1>6. CASE \/ Crash \/ Startup \/ HostFault \/ HostExit \/ RouteStop
           \/ \E v \in Video : \/ Begin(v) \/ GotClaim(v) \/ Ask(v) \/ StopEnhancement(v)
                               \/ Heartbeat(v) \/ UpdateNative(v) \/ GotUpdate(v) \/ Reroute(v)
           \/ \E r \in Request : Admit(r) \/ GotReply(r)
           \/ \E n \in notes : GotNote(n)
           \/ Disable \/ SettingsUpdated \/ ClearActive \/ PushSettings
  BY <1>6
  DEF Crash, Startup, HostFault, HostExit, RouteStop, Begin, GotClaim, Ask, StopEnhancement,
    Heartbeat, UpdateNative, GotUpdate, Reroute, Admit, GotReply, GotNote, Disable,
    SettingsUpdated, ClearActive, PushSettings
<1> QED  BY <1>1, <1>2, <1>3, <1>4, <1>5, <1>6 DEF Next, Continue

\* How a step gets to where a session is being stopped.
Entered ==
  /\ pc' = "stop"
  /\ UNCHANGED <<session, present>>
  /\ \/ stopping'.restore
     \/ /\ pc = "idle" /\ queue # <<>> /\ Job.kind = "closeStop" /\ stopping'.expect = Job.n
     \/ unverified' = unverified \cup {session.s}
Continued ==
  \/ /\ pc = "stop" /\ pc' = "notify" /\ stopping.expect \in {0, session.s}
     /\ session # NoSession /\ session' = Stopped
  \/ pc = "notify" /\ pc' = AfterNotify /\ session' = session
  \/ /\ pc = "restoreFrame" /\ pc' = "restoreTitle" /\ session' = session
     /\ frameMark' = Restored(frameMark)
  \/ /\ pc = "restoreTitle" /\ pc' = "drop" /\ session' = session
     /\ titleMark' = Restored(titleMark) /\ frameMark' = frameMark

LEMMA StoppingStep ==
  ASSUME TypeOK, Running, Next
  PROVE  \/ pc' \notin StopPcs
         \/ pc' = pc /\ UNCHANGED <<stopping, session>>
         \/ Entered
         \/ Continued /\ UNCHANGED <<stopping, present>>
<1> USE Types DEF StopPcs, DropPcs, StartPcs, durableVars, pageVars, workerVars
<1>1. CASE \/ TakeClaim \/ TakeRelease \/ TakeStart \/ TakeStop \/ TakeDisable \/ TakeControl
  BY <1>1 DEF TakeClaim, TakeRelease, TakeStart, TakeStop, TakeDisable, TakeControl, Done,
    CallStop, NoStop, Entered
<1>2. CASE TakeScopedStop
  <2>1. Job.kind # "closeStop" => stopping'.restore
    BY <1>2 DEF TakeScopedStop, CallStop, NoStop
  <2> QED
    BY <1>2, <2>1 DEF TakeScopedStop, Takes, CallStop, NoStop, Scope, Entered
<1>3. CASE TakeRecover
  BY <1>3 DEF TakeRecover, Done, CallStop, NoStop, Entered
<1>4. CASE \/ Consent \/ Prepare \/ SetTitle \/ Measure \/ Connect \/ HostStart \/ StartLost
           \/ Reattach
  BY <1>4 DEF Consent, Prepare, SetTitle, Measure, Connect, HostStart, StartLost, StartFails,
    Reattach, Done, CallStop, NoStop, Entered
<1>5. CASE Stop
  <2>1. stopping.next \notin StopPcs
    BY DEF WorkerOK, Stops
  <2> QED  BY <1>5, <2>1 DEF Stop, Continued
<1>6. CASE NotifyHost \/ RestoreFrame \/ RestoreTitle
  BY <1>6 DEF NotifyHost, RestoreFrame, RestoreTitle, Continued
<1>7. CASE Drop
  BY <1>7 DEF Drop
<1>8. CASE Unclaim
  <2>1. stopping.next \notin StopPcs
    BY DEF WorkerOK, Stops
  <2> QED  BY <1>8, <2>1 DEF Unclaim
<1>9. CASE \/ ForceStop \/ Claimed \/ Updating \/ StartSession \/ Started \/ StartReply \/ Finish
           \/ ForceAnswered \/ Crash
  BY <1>9 DEF ForceStop, Claimed, Updating, StartSession, Started, StartReply, Finish,
    ForceAnswered, Crash, Done
<1>10. CASE \/ Startup \/ HostFault \/ HostExit \/ RouteStop
            \/ \E v \in Video : \/ Begin(v) \/ GotClaim(v) \/ Ask(v) \/ StopEnhancement(v)
                                \/ Leave(v) \/ Heartbeat(v) \/ UpdateNative(v) \/ GotUpdate(v)
                                  \/ Reroute(v)
            \/ \E r \in Request : Admit(r) \/ GotReply(r)
            \/ \E n \in notes : GotNote(n)
            \/ Disable \/ SettingsUpdated \/ ClearActive \/ PushSettings
  BY <1>10 DEF Startup, HostFault, HostExit, RouteStop, Begin, GotClaim, Ask, StopEnhancement,
    Leave, Heartbeat, UpdateNative, GotUpdate, Reroute, Admit, GotReply, GotNote, Disable,
    SettingsUpdated, ClearActive,
    PushSettings
<1> QED
  BY <1>1, <1>2, <1>3, <1>4, <1>5, <1>6, <1>7, <1>8, <1>9, <1>10 DEF Next, Take, Continue

\* Recovery only adds to the sessions it could not verify; pages only go away.
LEMMA PageSets ==
  ASSUME Next
  PROVE  unverified \subseteq unverified' /\ present' \subseteq present
<1>1. unverified \subseteq unverified'
  <2> USE DEF ghostVars
  <2>1. CASE Take \/ StartSession
    BY <2>1 DEF Take, TakeClaim, TakeRelease, TakeStart, TakeStop, TakeScopedStop, TakeDisable,
      TakeRecover, TakeControl, StartSession
  <2>2. CASE \/ ForceStop \/ Claimed \/ Updating \/ Prepare \/ SetTitle \/ Measure \/ Connect
             \/ HostStart \/ Started \/ StartLost \/ StartReply \/ Stop \/ NotifyHost
             \/ RestoreFrame \/ RestoreTitle \/ Drop \/ Unclaim \/ Finish \/ Reattach \/ Consent
             \/ ForceAnswered
    BY <2>2 DEF ForceStop, Claimed, Updating, Prepare, SetTitle, Measure, Connect, HostStart,
      Started, StartLost, StartReply, Stop, NotifyHost, RestoreFrame, RestoreTitle, Drop,
      Unclaim, Finish, Reattach, Consent, ForceAnswered
  <2>3. CASE \/ Crash \/ Startup \/ HostFault \/ HostExit \/ RouteStop
             \/ \E v \in Video : \/ Begin(v) \/ GotClaim(v) \/ Ask(v) \/ StopEnhancement(v)
                                 \/ Leave(v) \/ Heartbeat(v) \/ UpdateNative(v) \/ GotUpdate(v)
                                   \/ Reroute(v)
             \/ \E r \in Request : Admit(r) \/ GotReply(r)
             \/ \E n \in notes : GotNote(n)
             \/ Disable \/ SettingsUpdated \/ ClearActive \/ PushSettings
    BY <2>3 DEF Crash, Startup, HostFault, HostExit, RouteStop, Begin, GotClaim, Ask,
      StopEnhancement, Leave, Heartbeat, UpdateNative, GotUpdate, Reroute, Admit, GotReply,
      GotNote, Disable, SettingsUpdated,
      ClearActive, PushSettings
  <2> QED  BY <2>1, <2>2, <2>3 DEF Next, Continue
<1>2. present' \subseteq present
  BY MarksStep
<1> QED  BY <1>1, <1>2

\* The record changes its phase, or is replaced where there was none.
LEMMA RecordFate ==
  ASSUME IInv, Next
  PROVE  \/ session' = session
         \/ /\ pc = "start" /\ pc' = "prepare" /\ session = NoSession
            /\ session'.s = Job.n /\ Job.n \in Session \ begun
         \/ /\ pc \in {"started", "stop"} /\ session \in Records /\ session' \in Records
            /\ session'.s = session.s /\ session'.v = session.v
         \/ pc = "drop" /\ pc' = "unclaim" /\ session \in Records /\ session' = NoSession
<1> USE Types DEF IInv
<1>1. CASE pc = "start" /\ pc' = "prepare" /\ session' = Preparing(Job)
  <2>1. Job.n \in Session /\ Job.kind = "start" /\ Job = queue[1] /\ 1 \in DOMAIN queue
    BY <1>1, JobStarts, JobType DEF Session
  <2>2. Job.n \notin begun /\ session = NoSession
    BY <1>1, <2>1 DEF StartsQueued, Before, Recorded
  <2> QED  BY <1>1, <2>1, <2>2 DEF Preparing
<1>2. CASE pc = "started" /\ session' = [session EXCEPT !.phase = "active"]
  <2>1. session \in Records
    BY <1>2 DEF Recorded, StartPcs, RecordOK, NoSession
  <2> QED  BY <1>2, <2>1 DEF Records
<1>3. CASE pc = "stop" /\ session # NoSession /\ session' = Stopped
  <2>1. session \in Records
    BY <1>3 DEF RecordOK
  <2> QED  BY <1>3, <2>1 DEF Records, Stopped
<1>4. CASE pc = "drop" /\ pc' = "unclaim" /\ session' = NoSession
  <2>1. session \in Records
    BY <1>4 DEF Recorded, DropPcs, RecordOK, NoSession
  <2> QED  BY <1>4, <2>1
<1> QED  BY <1>1, <1>2, <1>3, <1>4, SessionStep

\* A page that is gone has no marks.
LEMMA GoneStep ==
  ASSUME IInv, Gone, Next
  PROVE  Gone'
<1> USE Types DEF IInv, PageOK
<1>1. CASE UNCHANGED <<present, frameMark, titleMark>>
  BY <1>1 DEF Gone
<1>2. CASE /\ session.v \in present /\ present' = present
           /\ frameMark' \in {frameMark, MarkedFor(frameMark)}
           /\ titleMark' \in {titleMark, MarkedFor(titleMark)}
  BY <1>2 DEF Gone, MarkedFor
<1>3. CASE /\ present' = present
           /\ frameMark' \in {frameMark, Restored(frameMark)}
           /\ titleMark' \in {titleMark, Restored(titleMark)}
  BY <1>3 DEF Gone, Restored
<1>4. CASE \E v \in Video :
              /\ present' = present \ {v}
              /\ frameMark' = [frameMark EXCEPT ![v] = 0]
              /\ titleMark' = [titleMark EXCEPT ![v] = 0]
  BY <1>4 DEF Gone
<1> QED  BY <1>1, <1>2, <1>3, <1>4, MarksStep

\* When the record is cleared, its page has been restored, or was left alone.
LEMMA DropRestores ==
  ASSUME IInv, PagesInv, pc = "drop", NEW v \in Video
  PROVE  /\ frameMark[v] \in {0} \cup unverified
         /\ titleMark[v] \in {0} \cup unverified
<1> USE Types DEF IInv
<1>1. session # NoSession
  BY DEF Recorded, DropPcs, NoSession
<1>2. CASE stopping.restore
  BY <1>2 DEF PagesInv, Restoring, MarkedOnly
<1>3. CASE ~stopping.restore
  <2>1. LeftAlone
    BY <1>1, <1>3 DEF PagesInv, StopsApart, DropPcs, StopPcs
  <2> QED  BY <2>1 DEF PagesInv, MarkedOnly, LeftAlone, Gone
<1> QED  BY <1>2, <1>3, Types DEF WorkerOK, Stops

\* A page is only marked for the session on record. Stated of one kind of mark,
\* from what MarksStep says of both.
LEMMA MarkedStep ==
  ASSUME IInv, PagesInv, Next, NEW mark \in [Video -> Session \cup {0}],
         NEW mark2 \in [Video -> Session \cup {0}],
         MarkedOnly(mark),
         pc = "drop" => \A v \in Video : mark[v] \in {0} \cup unverified,
         \/ mark2 = mark
         \/ mark2 = MarkedFor(mark) /\ session' = session
         \/ mark2 = Restored(mark)
         \/ \E v \in Video : mark2 = [mark EXCEPT ![v] = 0],
         NEW v \in Video, mark2[v] # 0, mark2[v] \notin unverified'
  PROVE  session'.v = v /\ mark2[v] = session'.s
<1> USE Types DEF IInv
<1>1. mark2[v] \notin unverified
  BY PageSets
<1>2. CASE mark2 = MarkedFor(mark) /\ session' = session
  <2>1. v # session.v => mark2[v] = mark[v]
    BY <1>2 DEF MarkedFor
  <2>2. v = session.v => mark2[v] = session.s
    BY <1>2 DEF MarkedFor
  <2> QED  BY <1>1, <1>2, <2>1, <2>2 DEF MarkedOnly
<1>3. CASE mark2[v] = mark[v]
  <2>1. session.v = v /\ mark[v] = session.s
    BY <1>1, <1>3 DEF MarkedOnly
  <2>2. pc # "drop"
    BY <1>1, <1>3
  <2>3. session # NoSession
    BY <2>1, SessionAssumption DEF NoSession, NoVideo
  <2> QED  BY <1>3, <2>1, <2>2, <2>3, RecordFate
<1>4. mark2[v] = mark[v] \/ (mark2 = MarkedFor(mark) /\ session' = session)
  BY DEF Restored
<1> QED  BY <1>2, <1>3, <1>4

LEMMA RestoringStep ==
  ASSUME IInv, PagesInv, Next
  PROVE  Restoring'
<1> USE Types DEF IInv
<1>1. CASE pc' \notin {"restoreTitle", "drop"} \/ ~stopping'.restore
  BY <1>1 DEF Restoring
<1>2. ASSUME pc' \in {"restoreTitle", "drop"}, stopping'.restore
      PROVE  Restoring'
  <2>1. \/ pc' = pc /\ UNCHANGED <<stopping, session>>
        \/ Continued /\ UNCHANGED <<stopping, present>>
    BY <1>2, StoppingStep DEF StopPcs, DropPcs, Entered
  <2>2. session' = session /\ stopping' = stopping
    BY <1>2, <2>1 DEF Continued
  <2>3. session \in Records
    <3>1. pc \in DropPcs
      BY <1>2, <2>1 DEF Continued, AfterNotify, DropPcs
    <3> QED  BY <3>1 DEF Recorded, RecordOK, NoSession
  <2>4. session.s # 0 /\ session.v \in Video
    BY <2>3 DEF Records, Session, Request
  <2>5. CASE pc = "restoreFrame"
    <3>1. frameMark' = Restored(frameMark) /\ pc' = "restoreTitle"
      BY <1>2, <2>1, <2>5 DEF Continued
    <3>2. frameMark'[session.v] # session.s
      BY <2>4, <3>1 DEF Restored
    <3> QED  BY <2>2, <3>1, <3>2 DEF Restoring
  <2>6. CASE pc = "restoreTitle" /\ pc' = "drop"
    <3>1. titleMark' = Restored(titleMark) /\ frameMark' = frameMark
      BY <2>1, <2>6 DEF Continued
    <3>2. titleMark'[session.v] # session.s
      BY <2>4, <3>1 DEF Restored
    <3>3. frameMark[session.v] # session.s
      BY <1>2, <2>2, <2>6 DEF PagesInv, Restoring
    <3> QED  BY <2>2, <3>1, <3>2, <3>3 DEF Restoring
  <2>7. CASE pc' = pc /\ pc \in {"restoreTitle", "drop"}
    <3>1. \/ UNCHANGED <<frameMark, titleMark>>
          \/ \E v \in Video : /\ frameMark' = [frameMark EXCEPT ![v] = 0]
                              /\ titleMark' = [titleMark EXCEPT ![v] = 0]
      BY <2>7, MarksStep
    <3>2. frameMark'[session.v] \in {0, frameMark[session.v]}
          /\ titleMark'[session.v] \in {0, titleMark[session.v]}
      BY <2>4, <3>1 DEF PageOK
    <3> QED  BY <1>2, <2>2, <2>4, <2>7, <3>2 DEF PagesInv, Restoring
  <2>8. pc \in {"restoreFrame", "restoreTitle", "drop"}
    <3>1. CASE pc = "notify"
      BY <1>2, <2>1, <2>2, <3>1 DEF Continued, AfterNotify
    <3> QED  BY <1>2, <2>1, <3>1 DEF Continued
  <2> QED  BY <1>2, <2>1, <2>5, <2>6, <2>7, <2>8 DEF Continued
<1> QED  BY <1>1, <1>2

\* A stop that restores nothing has nothing left to restore: the tab is closed,
\* or its page could not be verified.
LEMMA StopsApartStep ==
  ASSUME IInv, PagesInv, Next
  PROVE  StopsApart'
<1> USE Types DEF IInv
<1>1. \A s \in Session : s # 0
  BY DEF Session, Request
<1>2. pc' \in DropPcs => stopping'.expect \in {0, session'.s}
  <2> SUFFICES ASSUME pc' \in DropPcs  PROVE  stopping'.expect \in {0, session'.s}
    OBVIOUS
  <2>1. \/ pc' = pc /\ UNCHANGED <<stopping, session>>
        \/ Continued /\ UNCHANGED <<stopping, present>>
    BY StoppingStep DEF StopPcs, DropPcs, Entered
  <2>2. Stopped.s = session.s
    BY DEF Stopped, RecordOK, Records, NoSession
  <2> QED  BY <2>1, <2>2 DEF PagesInv, StopsApart, Continued, DropPcs
<1>3. ASSUME pc' \in StopPcs, ~stopping'.restore, session' # NoSession,
             stopping'.expect \in {0, session'.s}
      PROVE  LeftAlone'
  <2>1. CASE Entered
    <3>1. CASE unverified' = unverified \cup {session.s}
      BY <2>1, <3>1 DEF Entered, LeftAlone
    <3>2. CASE /\ queue # <<>> /\ Job.kind = "closeStop" /\ stopping'.expect = Job.n
      <4>1. 1 \in DOMAIN queue /\ Job = queue[1]
        BY <3>2, JobType
      <4>2. Job.n \in begun /\ (session.s = Job.n => session.v \notin present)
        BY <3>2, <4>1 DEF PagesInv, StopsApart
      <4>3. Job.n # 0
        BY <4>2, <1>1 DEF PageOK
      <4> QED  BY <1>3, <2>1, <3>2, <4>2, <4>3 DEF Entered, LeftAlone
    <3> QED  BY <1>3, <2>1, <3>1, <3>2 DEF Entered
  <2>2. CASE \/ pc' = pc /\ UNCHANGED <<stopping, session>>
             \/ Continued /\ UNCHANGED <<stopping, present>>
    <3>1. pc \in StopPcs /\ stopping' = stopping
      BY <1>3, <2>2 DEF Continued, StopPcs, DropPcs
    <3>2. session'.s = session.s /\ session'.v = session.v /\ session # NoSession
      <4>1. session # NoSession => Stopped.s = session.s /\ Stopped.v = session.v
        BY DEF Stopped, RecordOK, Records
      <4> QED  BY <1>3, <2>2, <4>1 DEF Continued
    <3>3. LeftAlone
      BY <1>3, <3>1, <3>2 DEF PagesInv, StopsApart
    <3> QED  BY <3>2, <3>3, PageSets DEF LeftAlone
  <2> QED  BY <1>3, <2>1, <2>2, StoppingStep
<1>4. ASSUME NEW n \in begun, session.s = n => session.v \notin present
      PROVE  n \in begun' /\ (session'.s = n => session'.v \notin present')
  <2>1. n \in begun' /\ n # 0
    BY <1>1, BegunStep DEF PageOK
  <2> QED  BY <1>4, <2>1, RecordFate, PageSets DEF NoSession
<1>5. ASSUME NEW i \in DOMAIN queue', queue'[i].kind = "closeStop"
      PROVE  queue'[i].n \in begun' /\ (session'.s = queue'[i].n => session'.v \notin present')
  <2>1. CASE \E j \in DOMAIN queue : queue'[i] = queue[j]
    BY <1>4, <1>5, <2>1 DEF PagesInv, StopsApart
  <2>2. CASE Popped
    BY <2>1, <2>2, PoppedItems
  <2>3. ASSUME NEW s, Added(s), i \notin DOMAIN queue,
               i - Len(queue) \in DOMAIN s => s[i - Len(queue)].kind # "closeStop"
        PROVE  FALSE
    BY <1>5, <2>3, AddedItems
  <2>4. ASSUME NEW s, Added(s), i \in DOMAIN queue
        PROVE  \E j \in DOMAIN queue : queue'[i] = queue[j]
    BY <2>4, AddedItems
  <2>5. CASE \E s : Added(s) /\ Plain(s)
    BY <2>1, <2>3, <2>4, <2>5 DEF Plain
  <2>6. ASSUME NEW r \in Request, Admit(r), Starting(r)
        PROVE  \E j \in DOMAIN queue : queue'[i] = queue[j]
    <3>1. Added(<<Task("start", req[r].v, r)>>)
      BY <2>6 DEF Starting
    <3>2. \A j \in DOMAIN <<Task("start", req[r].v, r)>> :
            <<Task("start", req[r].v, r)>>[j].kind # "closeStop"
      BY DEF Task
    <3> QED  BY <2>3, <2>4, <3>1, <3>2
  <2>7. ASSUME NEW v \in Video, Leave(v), Parting(v)
        PROVE  queue'[i].n \in begun' /\ (session'.s = queue'[i].n => session'.v \notin present')
    <3>1. PICK s : Added(s) /\ Parted(v, s)
      BY <2>7, PartingKinds
    <3>2. CASE i \in DOMAIN queue
      BY <2>1, <2>4, <3>1, <3>2
    <3>3. CASE i \notin DOMAIN queue
      <4>1. queue'[i].n = session.s /\ IsActiveOf(v)
        BY <1>5, <3>1, <3>3, AddedItems DEF Parted
      <4>2. session # NoSession /\ session.v = v
        BY <4>1 DEF IsActiveOf, NoSession
      <4>3. session.s \in begun
        BY <4>2 DEF Recorded
      <4>4. session' = session /\ begun' = begun /\ v \notin present'
        BY <2>7 DEF Leave, durableVars, ghostVars
      <4> QED  BY <4>1, <4>2, <4>3, <4>4
    <3> QED  BY <3>2, <3>3
  <2>8. CASE Crash
    <3>1. queue' = Restarted
      BY <2>8 DEF Crash
    <3> QED  BY <1>5, <3>1, RestartedType DEF Plain
  <2> QED
    BY <2>1, <2>2, <2>5, <2>6, <2>7, <2>8, QueueStep DEF Running, Same
<1> QED  BY <1>2, <1>3, <1>5 DEF StopsApart

LEMMA PagesStep ==
  ASSUME IInv, PagesInv, [Next]_vars
  PROVE  PagesInv'
<1>1. CASE Next
  <2>1. /\ frameMark \in [Video -> Session \cup {0}] /\ frameMark' \in [Video -> Session \cup {0}]
        /\ titleMark \in [Video -> Session \cup {0}] /\ titleMark' \in [Video -> Session \cup {0}]
    BY IInvStep, Types DEF IInv, TypeOK
  <2>2. /\ \/ frameMark' = frameMark
           \/ frameMark' = MarkedFor(frameMark) /\ session' = session
           \/ frameMark' = Restored(frameMark)
           \/ \E v \in Video : frameMark' = [frameMark EXCEPT ![v] = 0]
        /\ \/ titleMark' = titleMark
           \/ titleMark' = MarkedFor(titleMark) /\ session' = session
           \/ titleMark' = Restored(titleMark)
           \/ \E v \in Video : titleMark' = [titleMark EXCEPT ![v] = 0]
    BY <1>1, MarksStep
  <2>3. MarkedOnly(frameMark)'
    <3> SUFFICES ASSUME NEW v \in Video, frameMark'[v] # 0, frameMark'[v] \notin unverified'
                 PROVE  session'.v = v /\ frameMark'[v] = session'.s
      BY DEF MarkedOnly
    <3>1. MarkedOnly(frameMark)
      BY DEF PagesInv
    <3>2. pc = "drop" => \A w \in Video : frameMark[w] \in {0} \cup unverified
      BY DropRestores
    <3> QED  BY <1>1, <2>1, <2>2, <3>1, <3>2, MarkedStep
  <2>4. MarkedOnly(titleMark)'
    <3> SUFFICES ASSUME NEW v \in Video, titleMark'[v] # 0, titleMark'[v] \notin unverified'
                 PROVE  session'.v = v /\ titleMark'[v] = session'.s
      BY DEF MarkedOnly
    <3>1. MarkedOnly(titleMark)
      BY DEF PagesInv
    <3>2. pc = "drop" => \A w \in Video : titleMark[w] \in {0} \cup unverified
      BY DropRestores
    <3> QED  BY <1>1, <2>1, <2>2, <3>1, <3>2, MarkedStep
  <2>5. Gone' /\ Restoring' /\ StopsApart'
    BY <1>1, GoneStep, RestoringStep, StopsApartStep DEF PagesInv
  <2> QED  BY <2>3, <2>4, <2>5 DEF PagesInv
<1>2. CASE UNCHANGED vars
  <2>1. UNCHANGED <<present, frameMark, titleMark, unverified, session, pc, stopping, queue, begun>>
    BY <1>2 DEF vars, workerVars, durableVars, pageVars, ghostVars
  <2>2. Gone' /\ MarkedOnly(frameMark)' /\ MarkedOnly(titleMark)'
    BY <2>1 DEF PagesInv, Gone, MarkedOnly
  <2>3. Restoring' /\ StopsApart'
    BY <2>1 DEF PagesInv, Restoring, StopsApart, LeftAlone
  <2> QED  BY <2>2, <2>3 DEF PagesInv
<1> QED  BY <1>1, <1>2

\* A page is isolated or renamed only for the session on record, or for one that
\* recovery could not verify: whichever way a session ends, its page is restored
\* first, unless the tab is gone.
THEOREM PagesCorrect == Spec => []PagesRestored
<1>1. Init => PagesInv
  BY DEF Init, PagesInv, Gone, MarkedOnly, Restoring, StopsApart, StopPcs, DropPcs
<1>2. IInv /\ PagesInv /\ [Next]_vars => PagesInv'
  BY PagesStep
<1>3. PagesInv => PagesRestored
  BY DEF PagesInv, MarkedOnly, PagesRestored
<1> QED  BY <1>1, <1>2, <1>3, Invariant, PTL DEF Spec
-----------------------------------------------------------------------------
(* Disabling                                                               *)

\* What a step makes of the switch and of SETTINGS_UPDATED.
LEMMA SwitchStep ==
  ASSUME Next
  PROVE  \/ UNCHANGED switchVars
         \/ Finish \/ Crash \/ Disable \/ SettingsUpdated \/ ClearActive
<1>1. CASE Take
  BY <1>1 DEF Take, TakeClaim, TakeRelease, TakeStart, TakeStop, TakeScopedStop, TakeDisable,
    TakeRecover, TakeControl
<1>2. CASE \/ ForceStop \/ Claimed \/ Updating \/ StartSession \/ Prepare \/ SetTitle \/ Measure
           \/ Connect \/ HostStart \/ Started \/ StartLost \/ StartReply \/ Stop \/ NotifyHost
           \/ RestoreFrame \/ RestoreTitle \/ Drop \/ Unclaim \/ Reattach \/ Consent
           \/ ForceAnswered
  BY <1>2 DEF ForceStop, Claimed, Updating, StartSession, Prepare, SetTitle, Measure, Connect,
    HostStart, Started, StartLost, StartReply, Stop, NotifyHost, RestoreFrame, RestoreTitle, Drop,
    Unclaim, Reattach, Consent, ForceAnswered
<1>3. CASE \/ Startup \/ HostFault \/ HostExit \/ RouteStop
           \/ \E v \in Video : \/ Begin(v) \/ GotClaim(v) \/ Ask(v) \/ StopEnhancement(v)
                               \/ Leave(v) \/ Heartbeat(v) \/ UpdateNative(v) \/ GotUpdate(v)
                                 \/ Reroute(v)
           \/ \E r \in Request : Admit(r) \/ GotReply(r)
           \/ \E n \in notes : GotNote(n)
           \/ PushSettings
  BY <1>3 DEF Startup, HostFault, HostExit, RouteStop, Begin, GotClaim, Ask, StopEnhancement,
    Leave, Heartbeat, UpdateNative, GotUpdate, Reroute, Admit, GotReply, GotNote, PushSettings
<1> QED  BY <1>1, <1>2, <1>3 DEF Next, Continue

\* How a step gets to where the disabling of the extension is carried out.
LEMMA DisablingStep ==
  ASSUME TypeOK, Running, Next
  PROVE  /\ pc' = "disabled" => \/ pc = "disabled"
                                \/ pc \in {"stop", "unclaim"} /\ stopping.next = "disabled"
         /\ pc' \in StopPcs \cup {"unclaim"} /\ stopping'.next = "disabled" =>
              \/ pc \in StopPcs \cup {"unclaim"} /\ stopping.next = "disabled"
              \/ pc = "idle" /\ queue # <<>> /\ Job.kind = "disable" /\ Same
         /\ pc' # "idle" => Same \/ \E s : Added(s)
<1> USE Types DEF StopPcs, DropPcs
<1>1. CASE \/ TakeClaim \/ TakeRelease \/ TakeStart \/ TakeStop \/ TakeScopedStop \/ TakeControl
           \/ TakeRecover
  BY <1>1 DEF TakeClaim, TakeRelease, TakeStart, TakeStop, TakeScopedStop, TakeControl,
    TakeRecover, Done, CallStop, NoStop, Same
<1>2. CASE TakeDisable
  BY <1>2 DEF TakeDisable, Takes, CallStop, Same
<1>3. CASE \/ Consent \/ Prepare \/ SetTitle \/ Measure \/ Connect \/ HostStart \/ StartLost
           \/ Reattach \/ StartSession \/ Started \/ Claimed \/ Updating \/ StartReply \/ Finish
           \/ ForceAnswered
  BY <1>3 DEF Consent, Prepare, SetTitle, Measure, Connect, HostStart, StartLost, StartFails,
    Reattach, StartSession, Started, Claimed, Updating, StartReply, Finish, ForceAnswered, Done,
    CallStop, NoStop, Same
<1>4. CASE Stop \/ NotifyHost \/ RestoreFrame \/ RestoreTitle \/ Drop \/ Unclaim
  <2>1. stopping'.next = stopping.next
    BY <1>4 DEF Stop, NotifyHost, RestoreFrame, RestoreTitle, Drop, Unclaim, WorkerOK, Stops
  <2> QED  BY <1>4, <2>1 DEF Stop, NotifyHost, AfterNotify, RestoreFrame, RestoreTitle, Drop,
    Unclaim, Same
<1>5. CASE ForceStop
  <2>1. Same \/ \E s : Added(s) /\ Plain(s)
    BY <1>5, PlainQueue
  <2> QED  BY <1>5, <2>1 DEF ForceStop
<1>6. CASE Crash
  BY <1>6 DEF Crash
<1>7. CASE \/ Startup \/ HostFault \/ HostExit \/ RouteStop
           \/ \E v \in Video : \/ Begin(v) \/ GotClaim(v) \/ Ask(v) \/ StopEnhancement(v)
                               \/ Leave(v) \/ Heartbeat(v) \/ UpdateNative(v) \/ GotUpdate(v)
                                 \/ Reroute(v)
           \/ \E r \in Request : Admit(r) \/ GotReply(r)
           \/ \E n \in notes : GotNote(n)
           \/ Disable \/ SettingsUpdated \/ ClearActive \/ PushSettings
  <2>1. pc' = pc /\ stopping' = stopping
    BY <1>7 DEF Startup, HostFault, HostExit, RouteStop, Begin, GotClaim, Ask, StopEnhancement,
      Leave, Heartbeat, UpdateNative, GotUpdate, Reroute, Admit, GotReply, GotNote, Disable,
      SettingsUpdated, ClearActive,
      PushSettings, workerVars
  <2>2. pc' # "idle" => Same \/ \E s : Added(s)
    BY <1>7, <2>1, QueueStep DEF Running, Popped, Starting, Parting, Crash
  <2> QED  BY <2>1, <2>2
<1> QED  BY <1>1, <1>2, <1>3, <1>4, <1>5, <1>6, <1>7 DEF Next, Take, Continue

\* Where the tasks of the queue come from.
LEMMA DisableTasks ==
  ASSUME IInv, Next, NEW i \in DOMAIN queue', queue'[i].kind = "disable"
  PROVE  \/ Disabling
         \/ \E j \in DOMAIN queue : queue'[i] = queue[j]
<1> USE Types DEF IInv
<1>1. ASSUME NEW s, Added(s),
             i - Len(queue) \in DOMAIN s => s[i - Len(queue)].kind # "disable" \/ Disabling
      PROVE  Disabling \/ \E j \in DOMAIN queue : queue'[i] = queue[j]
  BY <1>1, AddedItems
<1>2. CASE Same
  BY <1>2 DEF Same
<1>3. CASE Popped
  BY <1>3, PoppedItems
<1>4. CASE \E s : Added(s) /\ Plain(s)
  <2>1. PICK s : Added(s) /\ Plain(s)
    BY <1>4
  <2>2. i - Len(queue) \in DOMAIN s => s[i - Len(queue)].kind # "disable" \/ Disabling
    BY <2>1 DEF Plain
  <2> QED  BY <1>1, <2>1, <2>2
<1>5. ASSUME NEW r \in Request, Admit(r), Starting(r)
      PROVE  Disabling \/ \E j \in DOMAIN queue : queue'[i] = queue[j]
  <2>1. Added(<<Task("start", req[r].v, r)>>)
    BY <1>5 DEF Starting
  <2>2. \A j \in DOMAIN <<Task("start", req[r].v, r)>> :
          <<Task("start", req[r].v, r)>>[j].kind # "disable"
    BY DEF Task
  <2> QED  BY <1>1, <2>1, <2>2
<1>6. ASSUME NEW v \in Video, Leave(v), Parting(v)
      PROVE  Disabling \/ \E j \in DOMAIN queue : queue'[i] = queue[j]
  <2>1. PICK s : Added(s) /\ Parted(v, s)
    BY <1>6, PartingKinds
  <2>2. i - Len(queue) \in DOMAIN s => s[i - Len(queue)].kind # "disable"
    BY <2>1 DEF Parted
  <2> QED  BY <1>1, <2>1, <2>2
<1>7. CASE Crash
  <2>1. queue' = Restarted
    BY <1>7 DEF Crash
  <2> QED  BY <2>1, RestartedType
<1> QED  BY <1>2, <1>3, <1>4, <1>5, <1>6, <1>7, QueueStep DEF Running

\* The extension is disabled once, and its task is queued once that was announced.
LEMMA SwitchOnce ==
  ASSUME IInv, DisableOnce, Next
  PROVE  /\ enabled' => enabled /\ settings' = "none"
         /\ enabled' \/ settings' = "sent" =>
              (enabled \/ settings = "sent") /\ ~Disabling
<1> USE Types DEF IInv, RecordOK, Disabling
<1>1. CASE UNCHANGED switchVars
  BY <1>1 DEF switchVars, DisableOnce
<1>2. CASE Finish
  <2>1. pc = "disabled" => ~enabled /\ settings # "sent"
    <3>1. ASSUME pc = "disabled"
          PROVE  1 \in DOMAIN queue /\ queue[1].kind = "disable"
      BY <3>1, JobType DEF DisableOnce, Running
    <3> QED  BY <3>1 DEF DisableOnce
  <2> QED  BY <1>2, <2>1 DEF Finish, DisableOnce
<1>3. CASE Crash
  <2>1. enabled' = enabled /\ settings' = IF settings = "sent" THEN "sent" ELSE "none"
    BY <1>3 DEF Crash
  <2> QED  BY <2>1 DEF DisableOnce
<1>4. CASE Disable \/ SettingsUpdated \/ ClearActive
  BY <1>4 DEF Disable, SettingsUpdated, ClearActive, DisableOnce
<1> QED  BY <1>1, <1>2, <1>3, <1>4, SwitchStep

LEMMA DisableOnceStep ==
  ASSUME IInv, DisableOnce, [Next]_vars
  PROVE  DisableOnce'
<1> USE Types DEF IInv
<1>1. CASE Next
  <2>1. enabled' => settings' = "none"
    BY <1>1, SwitchOnce
  <2>2. enabled' \/ settings' = "sent" => \A i \in DOMAIN queue' : queue'[i].kind # "disable"
    <3> SUFFICES ASSUME enabled' \/ settings' = "sent",
                        NEW i \in DOMAIN queue', queue'[i].kind = "disable"
                 PROVE  FALSE
      OBVIOUS
    <3>1. (enabled \/ settings = "sent") /\ ~Disabling
      BY <1>1, SwitchOnce
    <3>2. PICK j \in DOMAIN queue : queue'[i] = queue[j]
      BY <1>1, <3>1, DisableTasks
    <3> QED  BY <3>1, <3>2 DEF DisableOnce
  <2>3. ASSUME \/ pc' = "disabled"
               \/ pc' \in StopPcs \cup {"unclaim"} /\ stopping'.next = "disabled"
        PROVE  Job'.kind = "disable"
    <3>1. queue # <<>> /\ Job.kind = "disable"
      BY <1>1, <2>3, DisablingStep DEF DisableOnce, Running, StopPcs, DropPcs
    <3>2. Same \/ \E s : Added(s)
      <4>1. pc' # "idle"
        BY <2>3 DEF StopPcs, DropPcs
      <4> QED  BY <1>1, <4>1, DisablingStep
    <3>3. Job' = Job
      BY <3>1, <3>2, AddedHead DEF Same, Job
    <3> QED  BY <3>1, <3>3
  <2> QED  BY <2>1, <2>2, <2>3 DEF DisableOnce
<1>2. CASE UNCHANGED vars
  <2>1. UNCHANGED <<queue, pc, stopping, enabled, settings>>
    BY <1>2 DEF vars, workerVars, switchVars
  <2> QED  BY <2>1 DEF DisableOnce, Job
<1> QED  BY <1>1, <1>2

\* Once the disabling was announced, the switch stays off, and that it is
\* announced now means that its task joins the queue.
LEMMA DisabledStays ==
  ASSUME IInv, DisableOnce, Next, ~enabled', settings' # "sent"
  PROVE  ~enabled /\ (settings # "sent" \/ SettingsUpdated)
<1> USE Types DEF IInv, RecordOK
<1>1. CASE UNCHANGED switchVars
  BY <1>1 DEF switchVars
<1>2. CASE Finish
  <2>1. settings = "sent" => pc # "disabled"
    <3>1. ASSUME pc = "disabled"
          PROVE  1 \in DOMAIN queue /\ queue[1].kind = "disable"
      BY <3>1, JobType DEF DisableOnce, Running
    <3> QED  BY <3>1 DEF DisableOnce
  <2> QED  BY <1>2, <2>1 DEF Finish
<1>3. CASE Crash
  <2>1. enabled' = enabled /\ settings' = IF settings = "sent" THEN "sent" ELSE "none"
    BY <1>3 DEF Crash
  <2> QED  BY <2>1
<1>4. CASE Disable
  BY <1>4 DEF Disable
<1>5. CASE SettingsUpdated
  <2>1. enabled' = enabled
    BY <1>5 DEF SettingsUpdated
  <2> QED  BY <1>5, <2>1
<1>6. CASE ClearActive
  <2>1. enabled' = enabled /\ settings = "clear"
    BY <1>6 DEF ClearActive
  <2> QED  BY <2>1
<1> QED  BY <1>1, <1>2, <1>3, <1>4, <1>5, <1>6, SwitchStep

\* The task that disables the extension, or recovers a session while it is
\* disabled, does not finish before the session is gone.
LEMMA EndsStep ==
  ASSUME IInv, Next, ~enabled, 1 \in DOMAIN queue, Ends(1)
  PROVE  \/ session' = NoSession
         \/ Crash
         \/ /\ Same \/ \E s : Added(s)
            /\ pc' = "idle" \/ (pc' \in StopPcs /\ stopping'.expect = 0)
<1> USE Types DEF IInv, Ends, StopPcs, DropPcs
<1>1. queue # <<>> /\ Job = queue[1] /\ Job.kind \in {"disable", "recover"}
  BY JobType
<1>2. CASE \/ TakeClaim \/ TakeRelease \/ TakeStart \/ TakeStop \/ TakeScopedStop \/ TakeControl
  BY <1>1, <1>2 DEF TakeClaim, TakeRelease, TakeStart, TakeStop, TakeScopedStop, TakeControl,
    Takes, ScopedKinds
<1>3. ASSUME NEW next, CallStop(0, TRUE, TRUE, next)
      PROVE  pc' = "stop" /\ stopping'.expect = 0 /\ Same
  BY <1>3 DEF CallStop, NoStop, Same
<1>4. CASE TakeDisable
  BY <1>3, <1>4 DEF TakeDisable
<1>5. CASE TakeRecover
  BY <1>3, <1>5 DEF TakeRecover, Persisted, durableVars
<1>6. pc \in {"idle"} \cup StopPcs
  OBVIOUS
<1>7. CASE \/ ForceStop \/ Claimed \/ Updating \/ StartSession \/ Prepare \/ SetTitle \/ Measure
           \/ Connect \/ HostStart \/ Started \/ StartLost \/ StartReply \/ Unclaim \/ Finish
           \/ Reattach \/ Consent \/ ForceAnswered
  BY <1>6, <1>7 DEF ForceStop, Claimed, Updating, StartSession, Prepare, SetTitle, Measure,
    Connect, HostStart, Started, StartLost, StartReply, Unclaim, Finish, Reattach, Consent,
    ForceAnswered
<1>8. CASE Stop
  <2>1. stopping.expect = 0
    BY <1>8 DEF Stop
  <2> QED  BY <1>8, <2>1 DEF Stop, Same
<1>9. CASE NotifyHost \/ RestoreFrame \/ RestoreTitle
  BY <1>9 DEF NotifyHost, AfterNotify, RestoreFrame, RestoreTitle, Same
<1>10. CASE Drop
  BY <1>10 DEF Drop, Cleared
<1>11. CASE \/ Startup \/ HostFault \/ HostExit \/ RouteStop
            \/ \E v \in Video : \/ Begin(v) \/ GotClaim(v) \/ Ask(v) \/ StopEnhancement(v)
                                \/ Leave(v) \/ Heartbeat(v) \/ UpdateNative(v) \/ GotUpdate(v)
                                  \/ Reroute(v)
            \/ \E r \in Request : Admit(r) \/ GotReply(r)
            \/ \E n \in notes : GotNote(n)
            \/ Disable \/ SettingsUpdated \/ ClearActive \/ PushSettings
  <2>1. pc' = pc /\ stopping' = stopping
    BY <1>11 DEF Startup, HostFault, HostExit, RouteStop, Begin, GotClaim, Ask, StopEnhancement,
      Leave, Heartbeat, UpdateNative, GotUpdate, Reroute, Admit, GotReply, GotNote, Disable,
      SettingsUpdated, ClearActive,
      PushSettings, workerVars
  <2>2. Same \/ \E s : Added(s)
    BY <1>11, OutsideQueue
  <2> QED  BY <2>1, <2>2
<1> QED
  BY <1>2, <1>4, <1>5, <1>7, <1>8, <1>9, <1>10, <1>11 DEF Next, Take, Continue

\* Every start that waits has the end of the session behind it.
Ended(j) == \E i \in DOMAIN queue : i > j /\ Ends(i)

LEMMA EndedStays ==
  ASSUME IInv, NEW j \in DOMAIN queue, queue[j].kind = "start", Ended(j),
         NEW s, Added(s)
  PROVE  Ended(j)'
<1> USE Types DEF IInv
<1>1. PICK i \in DOMAIN queue : i > j /\ Ends(i)
  BY DEF Ended
<1>2. i # 1 /\ i \in DOMAIN queue' /\ queue'[i] = queue[i]
  BY <1>1, AddedItems
<1> QED  BY <1>1, <1>2 DEF Ended, Ends

LEMMA EndedPopped ==
  ASSUME IInv, Popped, NEW j \in DOMAIN queue', Ended(j + 1)
  PROVE  Ended(j)'
<1> USE Types DEF IInv
<1>1. PICK i \in DOMAIN queue : i > j + 1 /\ Ends(i)
  BY DEF Ended
<1>2. i - 1 \in DOMAIN queue' /\ queue'[i - 1] = queue[i] /\ i - 1 > j
  <2>1. i \in Nat /\ j \in Nat /\ i - 1 \in DOMAIN queue'
    BY <1>1, PoppedItems
  <2> QED  BY <1>1, <2>1, PoppedItems
<1>3. Ends(i - 1)'
  BY <1>1, <1>2 DEF Ends, Popped
<1> QED  BY <1>2, <1>3 DEF Ended

\* A task that ends the session stays in the queue until it runs.
LEMMA EndsKept ==
  ASSUME IInv, Next, ~Crash, NEW i \in DOMAIN queue, i # 1, Ends(i)
  PROVE  \E k \in DOMAIN queue' : Ends(k)'
<1> USE Types DEF IInv
<1>1. CASE Same
  BY <1>1 DEF Same, Ends
<1>2. CASE Popped
  <2>1. i - 1 \in DOMAIN queue' /\ queue'[i - 1] = queue[i]
    BY <1>2, PoppedItems
  <2>2. Ends(i - 1)'
    BY <1>2, <2>1 DEF Ends, Popped
  <2> QED  BY <2>1, <2>2
<1>3. CASE \E s : Added(s)
  <2>1. i \in DOMAIN queue' /\ queue'[i] = queue[i]
    BY <1>3, AddedItems
  <2> QED  BY <2>1 DEF Ends
<1> QED  BY <1>1, <1>2, <1>3, QueueStep DEF Running, Starting, Parting

LEMMA DisabledStep ==
  ASSUME IInv, DisableOnce, DisabledInv, Next
  PROVE  DisabledInv'
<1> SUFFICES ASSUME ~enabled', settings' # "sent"
             PROVE  /\ session' # NoSession => \E i \in DOMAIN queue' : Ends(i)'
                    /\ \A j \in DOMAIN queue' : queue'[j].kind = "start" => Ended(j)'
  BY DEF DisabledInv, Ended
<1> USE Types DEF IInv
<1>1. ~enabled /\ (settings # "sent" \/ SettingsUpdated)
  BY DisabledStays
<1>2. CASE SettingsUpdated
  <2>1. Added(<<Task("disable", NoVideo, 0)>>) /\ pc' = pc
    <3> DEFINE t == Task("disable", NoVideo, 0)
    <3>1. t \in Tasks
      BY TaskType DEF Kinds
    <3>2. queue' = Append(queue, t) /\ pc' = pc
      BY <1>2 DEF SettingsUpdated
    <3> HIDE DEF t
    <3>3. <<t>> \in Seq(Tasks) /\ Append(queue, t) = queue \o <<t>>
      BY <3>1 DEF QueueOK
    <3> QED  BY <3>2, <3>3 DEF Added, t
  <2>2. PICK last : last = Len(queue) + 1
    OBVIOUS
  <2>3. /\ last \in DOMAIN queue' /\ queue'[last].kind = "disable"
        /\ \A j \in DOMAIN queue' : j = last \/ j < last
    <3> DEFINE t == Task("disable", NoVideo, 0)
    <3>1. t.kind = "disable" /\ Added(<<t>>)
      BY <2>1 DEF Task
    <3> HIDE DEF t
    <3>2. Len(<<t>>) = 1 /\ <<t>>[1] = t
      OBVIOUS
    <3> DEFINE s == <<t>>
    <3>3. /\ Len(queue) \in Nat /\ DOMAIN queue = 1..Len(queue)
          /\ DOMAIN queue' = 1..(Len(queue) + Len(s))
          /\ \A i \in DOMAIN queue' : i \notin DOMAIN queue => queue'[i] = s[i - Len(queue)]
      <4>1. Added(s)
        BY <3>1
      <4> HIDE DEF s
      <4> QED  BY <4>1, AddedItems
    <3>4. last \in DOMAIN queue' /\ last \notin DOMAIN queue /\ last - Len(queue) = 1
      BY <2>2, <3>2, <3>3
    <3>5. queue'[last] = t
      BY <3>2, <3>3, <3>4
    <3> QED  BY <2>2, <3>1, <3>2, <3>3, <3>4, <3>5
  <2>4. Ends(last)'
    <3>1. last = 1 => pc = "idle"
      <4>1. Len(queue) \in Nat /\ (Len(queue) = 0 => queue = <<>>)
        BY EmptySeq, LenProperties DEF QueueOK
      <4> QED  BY <2>2, <4>1 DEF Running
    <3>2. pc' = pc /\ queue'[last].kind \in {"disable", "recover"}
      BY <2>1, <2>3
    <3> QED  BY <3>1, <3>2 DEF Ends
  <2>5. ASSUME NEW j \in DOMAIN queue', queue'[j].kind = "start"
        PROVE  Ended(j)'
    <3>1. last > j
      <4>1. j # last
        BY <2>3, <2>5
      <4>2. j = last \/ j < last
        BY <2>3
      <4> QED  BY <4>1, <4>2
    <3> QED  BY <2>3, <2>4, <3>1 DEF Ended
  <2> QED  BY <2>3, <2>4, <2>5
<1>3. CASE settings # "sent"
  <2>1. session # NoSession => \E i \in DOMAIN queue : Ends(i)
    BY <1>1, <1>3 DEF DisabledInv
  <2>2. ASSUME NEW j \in DOMAIN queue, queue[j].kind = "start"  PROVE Ended(j)
    BY <1>1, <1>3, <2>2 DEF DisabledInv, Ended
  <2>3. CASE Crash
    <3>1. queue' = Restarted /\ pc' = "idle"
      BY <2>3 DEF Crash
    <3>2. DOMAIN queue' = {1} /\ queue'[1].kind = "recover"
      <4>1. DOMAIN Restarted = 1..Len(Restarted)
        BY RestartedType, LenProperties
      <4> QED  BY <3>1, <4>1, RestartedType
    <3> QED  BY <3>1, <3>2 DEF Ends
  <2>4. ASSUME NEW j \in DOMAIN queue', queue'[j].kind = "start", ~Crash
        PROVE  Ended(j)'
    <3>1. CASE Popped
      <4>1. j + 1 \in DOMAIN queue /\ queue'[j] = queue[j + 1]
        BY <3>1, PoppedItems
      <4> QED  BY <2>2, <2>4, <3>1, <4>1, EndedPopped
    <3>2. CASE Same
      <4>1. j \in DOMAIN queue /\ queue[j].kind = "start"
        BY <2>4, <3>2 DEF Same
      <4>2. PICK i \in DOMAIN queue : i > j /\ Ends(i)
        BY <2>2, <4>1 DEF Ended
      <4>3. i # 1 /\ queue' = queue
        BY <3>2, <4>1, <4>2 DEF QueueOK, Same
      <4> QED  BY <4>2, <4>3 DEF Ended, Ends
    <3>3. ASSUME NEW s, Added(s), j \in DOMAIN queue
          PROVE  Ended(j)'
      <4>1. queue[j].kind = "start"
        BY <2>4, <3>3, AddedItems
      <4> QED  BY <2>2, <3>3, <4>1, EndedStays
    <3>4. ASSUME NEW s, Added(s), j \notin DOMAIN queue,
                 \A k \in DOMAIN s : s[k].kind # "start"
          PROVE  FALSE
      BY <2>4, <3>4, AddedItems
    <3>5. CASE \E s : Added(s) /\ Plain(s)
      BY <3>3, <3>4, <3>5 DEF Plain
    <3>6. ASSUME NEW r \in Request, Admit(r)  PROVE Same
      BY <1>1, <3>6 DEF Admit, Same
    <3>7. ASSUME NEW v \in Video, Leave(v), Parting(v)
          PROVE  Ended(j)'
      <4>1. PICK s : Added(s) /\ Parted(v, s)
        BY <3>7, PartingKinds
      <4> QED  BY <3>3, <3>4, <4>1 DEF Parted
    <3> QED  BY <2>4, <3>1, <3>2, <3>5, <3>6, <3>7, QueueStep DEF Running
  <2>5. ASSUME NEW i \in DOMAIN queue, i # 1, Ends(i), ~Crash
        PROVE  \E k \in DOMAIN queue' : Ends(k)'
    BY <2>5, EndsKept
  <2>6. ASSUME session = NoSession, session' # NoSession, ~Crash
        PROVE  \E k \in DOMAIN queue' : Ends(k)'
    <3>1. pc = "start"
      BY <2>6, RecordFate DEF Records, NoSession
    <3>2. Job.kind = "start" /\ Job = queue[1] /\ 1 \in DOMAIN queue
      BY <3>1, JobStarts, JobType
    <3>3. PICK i \in DOMAIN queue : i > 1 /\ Ends(i)
      BY <2>2, <3>2 DEF Ended
    <3> QED  BY <2>5, <2>6, <3>3
  <2>7. ASSUME session # NoSession, session' # NoSession, ~Crash
        PROVE  \E k \in DOMAIN queue' : Ends(k)'
    <3>1. PICK i \in DOMAIN queue : Ends(i)
      BY <2>1, <2>7
    <3>2. CASE i = 1
      <4>1. /\ Same \/ \E s : Added(s)
            /\ pc' = "idle" \/ (pc' \in StopPcs /\ stopping'.expect = 0)
        BY <1>1, <2>7, <3>1, <3>2, EndsStep
      <4>2. 1 \in DOMAIN queue' /\ queue'[1] = queue[1]
        BY <3>1, <3>2, <4>1, AddedItems DEF Same
      <4>3. Ends(1)'
        BY <3>1, <3>2, <4>1, <4>2 DEF Ends
      <4> QED  BY <4>2, <4>3
    <3> QED  BY <2>5, <2>7, <3>1, <3>2
  <2> QED  BY <2>3, <2>4, <2>6, <2>7
<1> QED  BY <1>1, <1>2, <1>3

\* Once the extension was disabled and that has been handled, there is no session:
\* a start that was queued before, a recovery, and whatever else was under way run
\* before the stop that the disabling queued, or find the extension disabled.
THEOREM DisabledCorrect == Spec => []DisabledEnds
<1>1. Init => DisableOnce /\ DisabledInv
  <2>1. Init => DOMAIN queue = {}
    BY DEF Init
  <2> QED  BY <2>1 DEF Init, DisableOnce, DisabledInv, StopPcs, DropPcs
<1>2. IInv /\ DisableOnce /\ DisabledInv /\ [Next]_vars => (DisableOnce /\ DisabledInv)'
  <2> SUFFICES ASSUME IInv, DisableOnce, DisabledInv, [Next]_vars
               PROVE  DisableOnce' /\ DisabledInv'
    OBVIOUS
  <2>1. CASE Next
    BY <2>1, DisableOnceStep, DisabledStep
  <2>2. CASE UNCHANGED vars
    <3>1. UNCHANGED <<queue, pc, stopping, enabled, settings, session>>
      BY <2>2 DEF vars, workerVars, durableVars, switchVars
    <3> QED  BY <3>1, <2>2, DisableOnceStep DEF DisabledInv, Ends
  <2> QED  BY <2>1, <2>2
<1>3. DisableOnce /\ DisabledInv => DisabledEnds
  <2> SUFFICES ASSUME DisabledInv, Quiet, ~enabled, session # NoSession
               PROVE  FALSE
    BY DEF DisabledEnds
  <2>1. PICK i \in DOMAIN queue : Ends(i)
    BY DEF DisabledInv, Quiet
  <2> QED  BY <2>1 DEF Quiet
<1> QED  BY <1>1, <1>2, <1>3, Invariant, PTL DEF Spec

-----------------------------------------------------------------------------
(* Who owns the session on record                                          *)

Pending(r) == req[r].st \in {"inbox", "queued", "ok", "no"}

\* Only an enhancer that claims or updates awaits an answer, and only one that asked
\* for a session awaits the reply to a request that it has neither stopped nor
\* superseded, unless an event ended the session it followed.
Listening ==
  /\ \A v \in Video : answer[v] # "none" => phase[v] \in {"claiming", "updating"}
  /\ \A v \in Video \ present : phase[v] = "off"
  /\ \A r \in Request : req[r].st \in {"ok", "no"} => req[r].v \in present
  /\ \A r \in Request : Pending(r) /\ ~req[r].stop /\ req[r].v \in present =>
       ledger[req[r].v] = r /\ phase[req[r].v] \in {"asking", "off"}
  /\ \A v \in Video : sid[v] # 0 => phase[v] \in {"native", "updating", "asking"}

\* A worker that has a record in storage only recovers it first.
Remembered ==
  session # NoSession /\ ~loaded =>
    pc = "idle" /\ queue # <<>> /\ Job.kind = "recover" /\ capturing = 0

\* The session that a start reports is its video's.
Served ==
  pc \in StartPcs \cup {"updating"} => session # NoSession /\ session.v = Job.v
StartsOwn == \A i \in DOMAIN queue : queue[i].kind = "start" => queue[i].v = req[queue[i].n].v
Granted ==
  \A r \in Request : req[r].st = "ok" =>
    req[r].s \in begun /\ (req[r].s = session.s => req[r].v = session.v)

\* While a claim runs, the video it is taken from has no session left once its
\* page is forced to stop.
StopFor(next) == pc \in StopPcs \cup {"unclaim"} /\ stopping.next = next
Forcing == pc \in {"forcing", "forced", "claimed"}
Forced ==
  /\ Forcing => session = NoSession \/ session.v # claim
  /\ StopFor("claimed") => stopping.expect = 0

\* An update that its enhancer waits for is in the queue, and not taken yet.
Sought(i, v) ==
  queue[i].kind = "update" /\ queue[i].v = v /\ (i = 1 => pc = "idle")
Updates ==
  \A v \in Video : phase[v] = "updating" /\ answer[v] = "none" =>
    \E i \in DOMAIN queue : Sought(i, v)

\* Something under way will stop the session on record: an event still to be
\* routed, a queued task, the running one, or an enhancer that gave its request up
\* and will get the session as its late answer.
EndsIt(t) ==
  \/ t.kind \in ScopedKinds /\ t.n = session.s
  \/ t.kind = "stop" /\ t.v = session.v /\ t.n \in {0, session.s}
  \/ t.kind = "recover" /\ capturing # session.s /\ pc \notin StartPcs
Late(r) == req[r].st = "ok" /\ req[r].v = session.v /\ req[r].s = session.s
Dooming(i) == (i = 1 => pc = "idle") /\ EndsIt(queue[i])
Stopping == \/ pc = "stop" /\ stopping.expect \in {0, session.s}
            \/ pc \in DropPcs
            \/ pc = "reattach" /\ capturing # session.s
Doomed ==
  \/ \E e \in routing : e.s = session.s
  \/ \E i \in DOMAIN queue : Dooming(i)
  \/ Stopping
  \/ \E r \in Request : Late(r) /\ req[r].stop

\* Otherwise its enhancer follows it, is about to, or has let go of it.
Follows == \/ sid[session.v] = session.s
           \/ \E r \in Request : Late(r) /\ ~req[r].stop
Owned == session.phase = "active" /\ (Follows \/ session.s \in forsaken)
Accounted ==
  enabled /\ session # NoSession =>
    Doomed \/ Owned \/ (pc \in StartPcs /\ session.v \in present)

\* A session whose end was told to its frame will be stopped.
Notified == \A n \in notes : n.s \in begun /\ (n.s = session.s => Doomed)

OwnInv == /\ Listening /\ Remembered /\ Served /\ StartsOwn /\ Granted /\ Forced /\ Updates
          /\ Accounted /\ Notified

\* A step of the running task that answers the start it runs: with a session only
\* if that is on record.
Replying ==
  /\ Popped /\ Job.kind = "start" /\ Job.n \in Request /\ req[Job.n].st = "queued"
  /\ \E outcome \in {"ok", "no"}, s \in Session \cup {0} :
       /\ req' = Answered(Job.n, outcome, s)
       /\ outcome = "ok" =>
            pc \in {"updating", "reply"} /\ s = session.s /\ session' = session

\* The steps that change what the content scripts know.
LEMMA ScriptStep ==
  ASSUME TypeOK, Running, StartsQueued, Recorded, Next
  PROVE  \/ UNCHANGED <<present, phase, sid, answer, ledger, req>>
         \/ /\ UNCHANGED <<present, phase, sid, ledger, req>>
            /\ \/ \E outcome \in {"ok", "no"} : answer' = AnswerClaim(Job.v, outcome)
               \/ TakeControl /\ answer' = AnswerUpdate(Job)
         \/ UNCHANGED <<present, phase, sid, answer, ledger>> /\ Replying
         \/ ForceStop \/ Crash
         \/ \E v \in Video : \/ Begin(v) \/ GotClaim(v) \/ Ask(v) \/ StopEnhancement(v)
                             \/ Leave(v) \/ UpdateNative(v) \/ GotUpdate(v)
         \/ \E r \in Request : Admit(r) \/ GotReply(r)
         \/ \E n \in notes : GotNote(n)
<1> USE Types DEF pageVars, enhVars
<1>1. CASE Updating \/ Consent \/ StartSession \/ StartReply
  <2>1. Job.n \in Request /\ Job.kind = "start" /\ queue # <<>>
    BY <1>1, JobStarts DEF Updating, Consent, StartSession, StartReply, StartPcs
  <2>2. req[Job.n].st = "queued"
    BY <2>1, JobType DEF StartsQueued
  <2>3. session.s \in Session \cup {0} /\ Job.n \in Session \cup {0}
    BY <2>1 DEF RecordOK, Records, NoSession, Session
  <2>4. UNCHANGED req \/ Replying
    <3>1. pc = "reply" => session.s = Job.n
      BY DEF Recorded, StartPcs
    <3>2. CASE Updating
      <4>1. Popped /\ session' = session /\ pc = "updating"
        BY <2>1, <3>2 DEF Updating, Done, Popped, durableVars
      <4>2. req' = Answered(Job.n, "ok", session.s) \/ req' = Answered(Job.n, "no", 0)
        BY <3>2 DEF Updating
      <4> QED  BY <2>1, <2>2, <2>3, <4>1, <4>2 DEF Replying
    <3>3. CASE StartReply
      <4>1. Popped /\ session' = session
        BY <2>1, <3>3 DEF StartReply, Done, Popped, durableVars
      <4>2. \/ pc = "reply" /\ req' = Answered(Job.n, "ok", session.s)
            \/ req' = Answered(Job.n, "no", 0)
        BY <3>1, <3>3 DEF StartReply
      <4> QED  BY <2>1, <2>2, <2>3, <4>1, <4>2 DEF Replying
    <3>4. CASE Consent \/ StartSession
      BY <2>1, <2>2, <2>3, <3>4 DEF Consent, StartSession, Done, Popped, Replying
    <3> QED  BY <1>1, <3>2, <3>3, <3>4
  <2> QED  BY <1>1, <2>4 DEF Updating, Consent, StartSession, StartReply
<1>2. CASE TakeStart
  <2>1. Job.kind = "start" /\ 1 \in DOMAIN queue /\ Job = queue[1] /\ queue # <<>>
    BY <1>2, JobType DEF TakeStart, Takes
  <2>2. Job.n \in Request /\ req[Job.n].st = "queued"
    BY <2>1 DEF StartsQueued
  <2>3. UNCHANGED req \/ Replying
    BY <1>2, <2>1, <2>2 DEF TakeStart, Done, Popped, Replying
  <2> QED  BY <1>2, <2>3 DEF TakeStart
<1>3. CASE TakeClaim
  BY <1>3 DEF TakeClaim
<1>4. CASE Claimed
  BY <1>4 DEF Claimed
<1>7. CASE TakeControl
  BY <1>7 DEF TakeControl
<1>5. CASE \/ TakeRelease \/ TakeStop \/ TakeScopedStop \/ TakeDisable \/ TakeRecover
           \/ Prepare \/ SetTitle \/ Measure \/ Connect \/ HostStart
           \/ Started \/ StartLost \/ Stop \/ NotifyHost \/ RestoreFrame \/ RestoreTitle \/ Drop
           \/ Unclaim \/ Finish \/ Reattach \/ ForceAnswered
  BY <1>5
  DEF TakeRelease, TakeStop, TakeScopedStop, TakeDisable, TakeRecover, Prepare, SetTitle,
    Measure, Connect, HostStart, Started, StartLost, Stop, NotifyHost, RestoreFrame,
    RestoreTitle, Drop, Unclaim, Finish, Reattach, ForceAnswered
<1>6. CASE \/ Startup \/ HostFault \/ HostExit \/ RouteStop
           \/ \E v \in Video : Heartbeat(v) \/ Reroute(v)
           \/ Disable \/ SettingsUpdated \/ ClearActive \/ PushSettings
  BY <1>6
  DEF Startup, HostFault, HostExit, RouteStop, Heartbeat, Reroute, Disable, SettingsUpdated,
    ClearActive, PushSettings
<1> QED
  BY <1>1, <1>2, <1>3, <1>4, <1>5, <1>6, <1>7 DEF Next, Take, Continue

\* One request, after a step that marks or answers one.
LEMMA OneRequest ==
  ASSUME ScriptOK, NEW r \in Request, NEW q \in Request \cup {0}
  PROVE  /\ Marked(q)[r].v = req[r].v /\ Marked(q)[r].st = req[r].st /\ Marked(q)[r].s = req[r].s
         /\ Marked(q)[r].stop = (req[r].stop \/ r = q)
  BY DEF Marked, ScriptOK, Requests

LEMMA Answer ==
  ASSUME ScriptOK, NEW r \in Request, NEW q \in Request, NEW outcome \in {"ok", "no"},
         NEW s \in Session \cup {0}
  PROVE  /\ q # r => Answered(r, outcome, s)[q] = req[q]
         /\ req[r].v \in present =>
              /\ Answered(r, outcome, s)[r].st = outcome /\ Answered(r, outcome, s)[r].s = s
              /\ Answered(r, outcome, s)[r].v = req[r].v
              /\ Answered(r, outcome, s)[r].stop = req[r].stop
         /\ req[r].v \notin present => Answered(r, outcome, s)[r].st = "done"
<1>1. Answered(r, outcome, s)[r] = Outcome(r, outcome, s)
  BY DEF Answered, ScriptOK
<1>2. q # r => Answered(r, outcome, s)[q] = req[q]
  BY DEF Answered, ScriptOK
<1>3. req[r] \in Requests
  BY DEF ScriptOK
<1>4. /\ Outcome(r, outcome, s).st = IF req[r].v \in present THEN outcome ELSE "done"
      /\ req[r].v \in present => /\ Outcome(r, outcome, s).s = s
                                 /\ Outcome(r, outcome, s).v = req[r].v
                                 /\ Outcome(r, outcome, s).stop = req[r].stop
  BY <1>3 DEF Outcome, Spent, Unused, Requests
<1> QED  BY <1>1, <1>2, <1>4

LEMMA ListeningStep ==
  ASSUME IInv, Listening, Next
  PROVE  Listening'
<1> USE Types DEF IInv
<1> DEFINE L1 == \A v \in Video : answer[v] # "none" => phase[v] \in {"claiming", "updating"}
           L2 == \A v \in Video \ present : phase[v] = "off"
           L3 == \A r \in Request : req[r].st \in {"ok", "no"} => req[r].v \in present
           L4 == \A r \in Request : Pending(r) /\ ~req[r].stop /\ req[r].v \in present =>
                   ledger[req[r].v] = r /\ phase[req[r].v] \in {"asking", "off"}
           L5 == \A v \in Video : sid[v] # 0 => phase[v] \in {"native", "updating", "asking"}
<1>0. Listening <=> L1 /\ L2 /\ L3 /\ L4 /\ L5
  BY DEF Listening
<1>p. present \subseteq Video
  BY DEF PageOK
<1>s. /\ phase \in [Video -> {"off", "claiming", "page", "asking", "native", "updating"}]
      /\ answer \in [Video -> {"none", "ok", "no"}] /\ ledger \in [Video -> Request \cup {0}]
      /\ req \in [Request -> Requests] /\ sid \in [Video -> Session \cup {0}]
  BY DEF ScriptOK
<1>1. CASE UNCHANGED <<present, phase, sid, answer, ledger, req>>
  BY <1>0, <1>1 DEF Listening, Pending
<1>2. CASE /\ UNCHANGED <<present, phase, sid, ledger, req>>
           /\ \/ \E outcome \in {"ok", "no"} : answer' = AnswerClaim(Job.v, outcome)
              \/ answer' = AnswerUpdate(Job)
  <2>1. L1'
    <3>1. \/ answer' = answer
          \/ \E v \in Video, outcome \in {"ok", "no"} :
               phase[v] \in {"claiming", "updating"} /\ answer' = [answer EXCEPT ![v] = outcome]
      BY <1>2, <1>p DEF AnswerClaim, AnswerUpdate
    <3> QED  BY <1>0, <1>2, <1>s, <3>1
  <2> QED  BY <1>2, <2>1 DEF Listening, Pending
<1>3. CASE UNCHANGED <<present, phase, sid, answer, ledger>> /\ Replying
  <2>1. PICK outcome \in {"ok", "no"}, s \in Session \cup {0} : req' = Answered(Job.n, outcome, s)
    BY <1>3 DEF Replying
  <2>2. Job.n \in Request /\ req[Job.n].st = "queued"
    BY <1>3 DEF Replying
  <2>3. PICK n : n = Job.n
    OBVIOUS
  <2>4. ASSUME NEW r \in Request
        PROVE  /\ req'[r].st \in {"ok", "no"} => req[r].v = req'[r].v /\ req'[r].v \in present
               /\ req'[r].st \in {"inbox", "queued"} => req'[r] = req[r]
               /\ Pending(r)' => Pending(r) /\ req'[r].stop = req[r].stop /\ req'[r].v = req[r].v
    <3>1. CASE r = n
      BY <1>0, <2>1, <2>2, <2>3, <3>1, Answer DEF Pending
    <3>2. CASE r # n
      <4>1. req'[r] = req[r]
        BY <2>1, <2>2, <2>3, <3>2, Answer
      <4> QED  BY <1>0, <4>1 DEF Pending
    <3> QED  BY <3>1, <3>2
  <2> QED  BY <1>0, <1>3, <2>4 DEF Listening
<1>4. CASE Crash
  <2>1. /\ UNCHANGED <<present, phase, sid, ledger>>
        /\ answer' = [v \in Video |->
                        IF phase[v] \in {"claiming", "updating"} /\ answer[v] = "none"
                          THEN "no" ELSE answer[v]]
        /\ req' = [r \in Request |-> IF req[r].st \in {"inbox", "queued"}
                                       THEN Outcome(r, "no", 0) ELSE req[r]]
    BY <1>4 DEF Crash, pageVars
  <2>2. L1' /\ L2' /\ L5'
    BY <1>0, <2>1
  <2>3. ASSUME NEW r \in Request
        PROVE  /\ req'[r].st \in {"ok", "no"} => req'[r].v \in present
               /\ Pending(r)' => Pending(r) /\ req'[r].stop = req[r].stop /\ req'[r].v = req[r].v
    <3>1. CASE req[r].st \in {"inbox", "queued"}
      <4>1. req'[r] = Outcome(r, "no", 0)
        BY <2>1, <3>1
      <4>2. req[r] \in Requests
        BY <1>s
      <4> QED  BY <3>1, <4>1, <4>2 DEF Outcome, Spent, Unused, Requests, Pending
    <3>2. CASE req[r].st \notin {"inbox", "queued"}
      <4>1. req'[r] = req[r]
        BY <2>1, <3>2
      <4> QED  BY <1>0, <4>1 DEF Pending
    <3> QED  BY <3>1, <3>2
  <2> QED  BY <1>0, <2>1, <2>2, <2>3 DEF Listening
<1>5. CASE ForceStop
  <2>1. CASE UNCHANGED <<present, phase, sid, answer, ledger, req>>
    BY <1>1, <2>1
  <2>2. CASE /\ claim \in present /\ UNCHANGED <<present, ledger>>
             /\ phase' = [phase EXCEPT ![claim] = "off"]
             /\ sid' = [sid EXCEPT ![claim] = 0]
             /\ answer' = [answer EXCEPT ![claim] = "none"]
             /\ req' = Marked(ledger[claim])
    <3>1. claim \in Video /\ ledger[claim] \in Request \cup {0}
      BY <1>p, <1>s, <2>2
    <3>2. \A r \in Request : /\ req'[r].v = req[r].v /\ req'[r].st = req[r].st
                             /\ req'[r].stop = (req[r].stop \/ r = ledger[claim])
      BY <2>2, <3>1, OneRequest
    <3>3. L1' /\ L2' /\ L3' /\ L5'
      BY <1>0, <1>s, <2>2, <3>1, <3>2
    <3>4. ASSUME NEW q \in Request, Pending(q)', ~req'[q].stop, req'[q].v \in present'
          PROVE  ledger'[req'[q].v] = q /\ phase'[req'[q].v] \in {"asking", "off"}
      <4>1. /\ Pending(q) /\ ~req[q].stop /\ q # ledger[claim]
            /\ req[q].v \in present /\ req'[q].v = req[q].v
        BY <2>2, <3>2, <3>4 DEF Pending
      <4>2. /\ ledger[req[q].v] = q /\ phase[req[q].v] \in {"asking", "off"}
            /\ req[q].v \in Video
        BY <1>0, <1>p, <4>1
      <4> QED  BY <1>s, <2>2, <4>1, <4>2
    <3> QED  BY <3>3, <3>4 DEF Listening
  <2> QED  BY <1>5, <2>1, <2>2 DEF ForceStop, pageVars
<1>6. ASSUME NEW v \in Video, StopEnhancement(v)
      PROVE  Listening'
  <2>1. /\ v \in present /\ UNCHANGED <<present, ledger>>
        /\ phase' = [phase EXCEPT ![v] = "off"]
        /\ sid' = [sid EXCEPT ![v] = 0]
        /\ answer' = [answer EXCEPT ![v] = "none"]
        /\ req' = Marked(ledger[v])
    BY <1>6 DEF StopEnhancement, pageVars
  <2>2. \A r \in Request : /\ req'[r].v = req[r].v /\ req'[r].st = req[r].st
                           /\ req'[r].stop = (req[r].stop \/ r = ledger[v])
    BY <1>s, <2>1, OneRequest
  <2>3. L1' /\ L2' /\ L3' /\ L5'
    BY <1>0, <1>s, <2>1, <2>2
  <2>4. ASSUME NEW q \in Request, Pending(q)', ~req'[q].stop, req'[q].v \in present'
        PROVE  ledger'[req'[q].v] = q /\ phase'[req'[q].v] \in {"asking", "off"}
    <3>1. /\ Pending(q) /\ ~req[q].stop /\ q # ledger[v]
          /\ req[q].v \in present /\ req'[q].v = req[q].v
      BY <2>1, <2>2, <2>4 DEF Pending
    <3>2. /\ ledger[req[q].v] = q /\ phase[req[q].v] \in {"asking", "off"}
          /\ req[q].v \in Video
      BY <1>0, <1>p, <3>1
    <3> QED  BY <1>s, <2>1, <3>1, <3>2
  <2> QED  BY <2>3, <2>4 DEF Listening
<1>7. ASSUME NEW v \in Video, Begin(v)
      PROVE  Listening'
  <2>1. /\ v \in present /\ phase[v] = "off" /\ phase' = [phase EXCEPT ![v] = "claiming"]
        /\ UNCHANGED <<present, sid, answer, ledger, req>>
        /\ ledger[v] # 0 => req[ledger[v]].stop
    BY <1>7 DEF Begin, pageVars
  <2>2. L1' /\ L2' /\ L3' /\ L5'
    BY <1>0, <1>s, <2>1
  <2>3. ASSUME NEW q \in Request, Pending(q)', ~req'[q].stop, req'[q].v \in present'
        PROVE  ledger'[req'[q].v] = q /\ phase'[req'[q].v] \in {"asking", "off"}
    <3>1. /\ ledger[req[q].v] = q /\ phase[req[q].v] \in {"asking", "off"}
          /\ req[q].v \in Video
      BY <1>0, <1>p, <2>1, <2>3 DEF Pending
    <3>2. req[q].v # v
      BY <2>1, <2>3, <3>1 DEF Request
    <3> QED  BY <1>s, <2>1, <3>1, <3>2
  <2> QED  BY <2>2, <2>3 DEF Listening
<1>8. ASSUME NEW v \in Video, GotClaim(v)
      PROVE  Listening'
  <2>1. /\ answer[v] # "none" /\ answer' = [answer EXCEPT ![v] = "none"]
        /\ \E p \in {"page", "off"} : phase' = [phase EXCEPT ![v] = p]
        /\ UNCHANGED <<present, sid, ledger, req>>
    BY <1>8 DEF GotClaim, pageVars
  <2>2. phase[v] = "claiming"
    BY <1>8 DEF GotClaim
  <2>3. L1' /\ L2' /\ L3' /\ L5'
    BY <1>0, <1>s, <2>1, <2>2
  <2>4. L4'
    BY <1>0, <1>p, <1>s, <2>1, <2>2 DEF Pending
  <2> QED  BY <2>3, <2>4 DEF Listening
<1>9. ASSUME NEW v \in Video, Ask(v)
      PROVE  Listening'
  <2>1. PICK r \in Request :
          /\ req[r].st = "unused"
          /\ req' = [Marked(ledger[v]) EXCEPT ![r] = [v |-> v, stop |-> FALSE, st |-> "inbox", s |-> 0]]
          /\ ledger' = [ledger EXCEPT ![v] = r]
    BY <1>9 DEF Ask
  <2>2. /\ v \in present /\ phase' = [phase EXCEPT ![v] = "asking"]
        /\ answer' = [answer EXCEPT ![v] = "none"] /\ UNCHANGED <<present, sid>>
    BY <1>9 DEF Ask, pageVars
  <2>3. Marked(ledger[v]) \in [Request -> Requests] /\ ledger[v] \in Request \cup {0}
    BY <1>s, MarkedType
  <2>4. /\ req'[r] = [v |-> v, stop |-> FALSE, st |-> "inbox", s |-> 0]
        /\ \A q \in Request : q # r =>
             /\ req'[q].v = req[q].v /\ req'[q].st = req[q].st
             /\ req'[q].stop = (req[q].stop \/ q = ledger[v])
    BY <2>1, <2>3, OneRequest
  <2>5. L1' /\ L2' /\ L3' /\ L5'
    BY <1>0, <1>s, <2>2, <2>4
  <2>6. ASSUME NEW q \in Request, Pending(q)', ~req'[q].stop, req'[q].v \in present'
        PROVE  ledger'[req'[q].v] = q /\ phase'[req'[q].v] \in {"asking", "off"}
    <3>1. CASE q = r
      BY <1>s, <2>1, <2>2, <2>4, <3>1
    <3>2. CASE q # r
      <4>1. /\ Pending(q) /\ ~req[q].stop /\ q # ledger[v]
            /\ req[q].v \in present /\ req'[q].v = req[q].v
        BY <2>2, <2>4, <2>6, <3>2 DEF Pending
      <4>2. /\ ledger[req[q].v] = q /\ phase[req[q].v] \in {"asking", "off"}
            /\ req[q].v \in Video
        BY <1>0, <1>p, <4>1
      <4> QED  BY <1>s, <2>1, <2>2, <4>1, <4>2
    <3> QED  BY <3>1, <3>2
  <2> QED  BY <2>5, <2>6 DEF Listening
<1>10. ASSUME NEW v \in Video, Leave(v)
       PROVE  Listening'
  <2>1. /\ present' = present \ {v}
        /\ phase' = [phase EXCEPT ![v] = "off"]
        /\ sid' = [sid EXCEPT ![v] = 0]
        /\ answer' = [answer EXCEPT ![v] = "none"]
        /\ ledger' = [ledger EXCEPT ![v] = 0]
        /\ req' = [r \in Request |-> IF req[r].v = v /\ req[r].st \in {"ok", "no"}
                                       THEN Spent ELSE req[r]]
    BY <1>10 DEF Leave
  <2>2. \A r \in Request : req'[r].st \in {"inbox", "queued", "ok", "no"} => req'[r] = req[r]
    BY <2>1 DEF Spent, Unused
  <2>3. \A r \in Request : req'[r].st \in {"ok", "no"} => req'[r].v # v
    BY <2>1 DEF Spent, Unused
  <2>4. L1' /\ L2' /\ L3' /\ L5'
    BY <1>0, <1>s, <2>1, <2>2, <2>3
  <2>5. L4'
    BY <1>0, <1>p, <1>s, <2>1, <2>2 DEF Pending
  <2> QED  BY <2>4, <2>5 DEF Listening
<1>11. ASSUME NEW r \in Request, Admit(r)
       PROVE  Listening'
  <2>1. req[r].st = "inbox" /\ UNCHANGED <<present, phase, sid, answer, ledger>>
    BY <1>11 DEF Admit, pageVars
  <2>2. ASSUME NEW q \in Request
        PROVE  /\ req'[q].st \in {"ok", "no"} => req'[q].v \in present
               /\ Pending(q)' => Pending(q) /\ req'[q].stop = req[q].stop /\ req'[q].v = req[q].v
    <3>1. CASE q # r
      <4>1. req'[q] = req[q]
        BY <1>11, <1>s, <3>1, Answer DEF Admit
      <4> QED  BY <1>0, <4>1 DEF Pending
    <3>2. CASE q = r /\ enabled
      <4>1. req' = [req EXCEPT ![r].st = "queued"]
        BY <1>11, <3>2 DEF Admit
      <4>2. req'[r].st = "queued" /\ req'[r].v = req[r].v /\ req'[r].stop = req[r].stop
        BY <1>s, <4>1 DEF Requests
      <4> QED  BY <2>1, <3>2, <4>2 DEF Pending
    <3>3. CASE q = r /\ ~enabled
      <4>1. req' = Answered(r, "no", 0)
        BY <1>11, <3>3 DEF Admit
      <4> QED  BY <2>1, <3>3, <4>1, Answer DEF Pending
    <3> QED  BY <3>1, <3>2, <3>3
  <2> QED  BY <1>0, <2>1, <2>2 DEF Listening
<1>12. ASSUME NEW r \in Request, GotReply(r)
       PROVE  Listening'
  <2> DEFINE v == req[r].v
  <2>1. /\ req[r].st \in {"ok", "no"}
        /\ ledger' = [ledger EXCEPT ![v] = IF @ = r THEN 0 ELSE @]
        /\ req' = [req EXCEPT ![r] = Spent]
        /\ UNCHANGED <<present, answer>>
        /\ \/ phase' = phase /\ sid' = sid
           \/ /\ ~req[r].stop /\ phase' = [phase EXCEPT ![v] = "native"]
              /\ sid' = [sid EXCEPT ![v] = req[r].s]
           \/ /\ ~req[r].stop /\ phase' = [phase EXCEPT ![v] = "off"]
              /\ sid' = [sid EXCEPT ![v] = 0]
    BY <1>12 DEF GotReply, pageVars
  <2>2. v \in present /\ v \in Video
    BY <1>0, <1>p, <2>1
  <2>3. ~req[r].stop => ledger[v] = r /\ phase[v] \in {"asking", "off"}
    BY <1>0, <2>1, <2>2 DEF Pending
  <2>4. \A q \in Request : IF q = r THEN req'[q].st = "done" ELSE req'[q] = req[q]
    BY <1>s, <2>1 DEF Spent, Unused
  <2> HIDE DEF v
  <2>5. L1' /\ L2' /\ L3' /\ L5'
    BY <1>0, <1>s, <2>1, <2>2, <2>3, <2>4
  <2>6. ASSUME NEW q \in Request, Pending(q)', ~req'[q].stop, req'[q].v \in present'
        PROVE  ledger'[req'[q].v] = q /\ phase'[req'[q].v] \in {"asking", "off"}
    <3>1. q # r /\ req'[q] = req[q]
      BY <2>4, <2>6 DEF Pending
    <3>2. /\ ledger[req[q].v] = q /\ phase[req[q].v] \in {"asking", "off"}
          /\ req[q].v \in Video
      BY <1>0, <1>p, <2>1, <2>6, <3>1 DEF Pending
    <3> QED  BY <1>s, <2>1, <2>2, <2>3, <3>1, <3>2
  <2> QED  BY <2>5, <2>6 DEF Listening
<1>13. ASSUME NEW n \in notes, GotNote(n)
       PROVE  Listening'
  <2>1. CASE UNCHANGED <<present, phase, sid, answer, ledger, req>>
    BY <1>1, <2>1
  <2>2. CASE /\ phase' = [phase EXCEPT ![n.v] = "off"] /\ sid' = [sid EXCEPT ![n.v] = 0]
             /\ answer' = [answer EXCEPT ![n.v] = "none"]
             /\ UNCHANGED <<present, ledger, req>>
    <3>1. n.v \in Video
      BY DEF PageOK
    <3>2. L1' /\ L2' /\ L3' /\ L5'
      BY <1>0, <1>s, <2>2, <3>1
    <3>3. L4'
      BY <1>0, <1>p, <1>s, <2>2, <3>1 DEF Pending
    <3> QED  BY <3>2, <3>3 DEF Listening
  <2> QED  BY <1>13, <2>1, <2>2 DEF GotNote, pageVars
<1>14. ASSUME NEW v \in Video, UpdateNative(v) \/ GotUpdate(v)
       PROVE  Listening'
  <2>1. /\ phase[v] \in {"native", "updating"} /\ UNCHANGED <<present, sid, ledger, req>>
        /\ \/ phase' = [phase EXCEPT ![v] = "updating"] /\ answer' = answer
           \/ /\ phase' = [phase EXCEPT ![v] = "updating"]
              /\ answer' = [answer EXCEPT ![v] = "no"]
           \/ /\ phase' = [phase EXCEPT ![v] = "native"]
              /\ answer' = [answer EXCEPT ![v] = "none"]
    BY <1>14 DEF UpdateNative, GotUpdate, pageVars
  <2>2. L1' /\ L2' /\ L3' /\ L5'
    BY <1>0, <1>s, <2>1
  <2>3. L4'
    BY <1>0, <1>p, <1>s, <2>1 DEF Pending
  <2> QED  BY <2>2, <2>3 DEF Listening
<1> HIDE DEF L1, L2, L3, L4, L5
<1> QED
  BY <1>1, <1>2, <1>3, <1>4, <1>5, <1>6, <1>7, <1>8, <1>9, <1>10, <1>11, <1>12, <1>13, <1>14,
    ScriptStep

-----------------------------------------------------------------------------
(* What joins the queue                                                    *)

LEMMA TaskAdded ==
  ASSUME QueueOK, NEW t \in Tasks, queue' = Append(queue, t)
  PROVE  /\ Added(<<t>>) /\ DOMAIN <<t>> = {1} /\ <<t>>[1] = t
         /\ Len(queue) + 1 \in DOMAIN queue' /\ queue'[Len(queue) + 1] = t
  BY DEF QueueOK, Added

LEMMA PairItems ==
  ASSUME NEW a \in Tasks, NEW b \in Tasks
  PROVE  /\ <<a>> \o <<>> = <<a>> /\ <<a>> \o <<b>> = <<a, b>>
         /\ <<a>> \in Seq(Tasks) /\ DOMAIN <<a>> = {1} /\ <<a>>[1] = a
         /\ <<a, b>> \in Seq(Tasks) /\ DOMAIN <<a, b>> = {1, 2}
         /\ <<a, b>>[1] = a /\ <<a, b>>[2] = b
<1>1. <<a>> \o <<>> = <<a>> /\ <<a>> \in Seq(Tasks) /\ Len(<<a>>) = 1 /\ <<a>>[1] = a
  OBVIOUS
<1>2. <<b>> \in Seq(Tasks) /\ Len(<<b>>) = 1 /\ <<b>>[1] = b
  OBVIOUS
<1>3. <<a, b>> \in Seq(Tasks) /\ Len(<<a, b>>) = 2 /\ <<a, b>>[1] = a /\ <<a, b>>[2] = b
  OBVIOUS
<1>4. /\ <<a>> \o <<b>> \in Seq(Tasks) /\ Len(<<a>> \o <<b>>) = 2
      /\ (<<a>> \o <<b>>)[1] = a /\ (<<a>> \o <<b>>)[2] = b
  BY <1>1, <1>2, ConcatProperties
<1>5. \A i \in 1..2 : (<<a>> \o <<b>>)[i] = <<a, b>>[i]
  BY <1>3, <1>4
<1>6. <<a>> \o <<b>> = <<a, b>>
  BY <1>3, <1>4, <1>5, SeqEqual
<1> QED  BY <1>1, <1>3, <1>6

\* A task added to the queue is in it, and never in the place of a running one.
LEMMA Joined ==
  ASSUME QueueOK, NEW s, Added(s), NEW k \in DOMAIN s
  PROVE  \E i \in DOMAIN queue' : queue'[i] = s[k] /\ (i = 1 => queue = <<>>)
<1>1. Len(queue) \in Nat /\ DOMAIN queue' = 1..(Len(queue) + Len(s)) /\ DOMAIN s = 1..Len(s)
  BY AddedItems
<1>2. k \in 1..Len(s) /\ Len(s) \in Nat /\ k \in Nat
  BY <1>1, AddedItems
<1> DEFINE i == Len(queue) + k
<1>3. i \in 1..(Len(queue) + Len(s)) /\ i \notin 1..Len(queue)
  BY <1>1, <1>2
<1>4. queue'[i] = s[k]
  <2>1. DOMAIN queue = 1..Len(queue)
    BY AddedItems
  <2>2. i - Len(queue) = k
    BY <1>1, <1>2
  <2>3. queue'[i] = s[i - Len(queue)]
    BY <1>1, <1>3, <2>1, AddedItems
  <2> QED  BY <2>2, <2>3
<1>5. i = 1 => Len(queue) = 0
  BY <1>1, <1>2
<1>6. Len(queue) = 0 => queue = <<>>
  BY DEF QueueOK
<1> QED  BY <1>1, <1>3, <1>4, <1>5, <1>6

\* What an enhancer that stops sends: a release, and a stop if it follows a
\* session or a request is pending.
LEMMA GoodbyeItems ==
  ASSUME ScriptOK, NEW v \in Video
  PROVE  /\ Goodbye(v) \in Seq(Tasks)
         /\ \A i \in DOMAIN Goodbye(v) : /\ Goodbye(v)[i].kind \in {"release", "stop"}
                                         /\ Goodbye(v)[i].v = v
         /\ NeedsNativeStop(v) =>
              \E k \in DOMAIN Goodbye(v) : Goodbye(v)[k] = Task("stop", v, sid[v])
<1>1. sid[v] \in Session \cup {0}
  BY DEF ScriptOK
<1> DEFINE a == Task("release", v, 0)
           b == Task("stop", v, sid[v])
<1>2. /\ a \in Tasks /\ a.kind = "release" /\ a.v = v
      /\ b \in Tasks /\ b.kind = "stop" /\ b.v = v
  BY <1>1, TaskType DEF Kinds
<1>3. Goodbye(v) = <<a>> \o (IF NeedsNativeStop(v) THEN <<b>> ELSE <<>>)
  BY DEF Goodbye
<1> HIDE DEF a, b
<1>4. CASE NeedsNativeStop(v)
  <2>1. Goodbye(v) = <<a, b>>
    <3>1. Goodbye(v) = <<a>> \o <<b>>
      BY <1>3, <1>4
    <3>2. <<a>> \o <<b>> = <<a, b>>
      BY <1>2, PairItems
    <3> QED  BY <3>1, <3>2
  <2> DEFINE s == <<a, b>>
  <2>2. s \in Seq(Tasks) /\ DOMAIN s = {1, 2} /\ s[1] = a /\ s[2] = b
    BY <1>2, PairItems
  <2> HIDE DEF s
  <2>3. Goodbye(v) = s
    BY <2>1 DEF s
  <2>4. \E k \in DOMAIN s : s[k] = Task("stop", v, sid[v])
    BY <2>2 DEF b
  <2> QED  BY <1>2, <2>2, <2>3, <2>4
<1>5. CASE ~NeedsNativeStop(v)
  <2>1. Goodbye(v) = <<a>>
    BY <1>2, <1>3, <1>5, PairItems
  <2> QED  BY <1>2, <1>5, <2>1, PairItems
<1> QED  BY <1>4, <1>5

\* What the listeners enqueue for a tab that goes away: the clearing of its claim
\* and, if the session is its own, the stop of that session.
LEMMA LeaveItems ==
  ASSUME QueueOK, RecordOK, NEW v \in Video, Leave(v)
  PROVE  \E s : /\ Added(s)
                /\ IsActiveOf(v) =>
                     \E k \in DOMAIN s : s[k].kind \in ScopedKinds /\ s[k].n = session.s
<1>1. PICK kind \in {"navStop", "closeStop"} : Added(Departure(v, kind))
  BY LeaveQueue DEF Parting
<1>2. session.s \in Session \cup {0}
  BY DEF RecordOK, Records, NoSession
<1> DEFINE a == Task("release", v, 0)
           b == Task(kind, v, session.s)
<1>3. a \in Tasks /\ b \in Tasks /\ b.kind \in ScopedKinds /\ b.n = session.s
  BY <1>2, TaskType DEF Kinds, ScopedKinds
<1>4. Added(<<a>> \o (IF IsActiveOf(v) THEN <<b>> ELSE <<>>))
  BY <1>1 DEF Departure
<1> HIDE DEF a, b
<1>5. CASE IsActiveOf(v)
  <2>1. Added(<<a, b>>)
    <3>1. Added(<<a>> \o <<b>>)
      BY <1>4, <1>5
    <3>2. <<a>> \o <<b>> = <<a, b>>
      BY <1>3, PairItems
    <3> QED  BY <3>1, <3>2
  <2> DEFINE s == <<a, b>>
  <2>2. s \in Seq(Tasks) /\ DOMAIN s = {1, 2} /\ s[1] = a /\ s[2] = b
    BY <1>3, PairItems
  <2> HIDE DEF s
  <2>3. Added(s)
    BY <2>1 DEF s
  <2> QED  BY <1>3, <2>2, <2>3
<1>6. CASE ~IsActiveOf(v)
  <2>1. Added(<<a>>)
    BY <1>3, <1>4, <1>6, PairItems
  <2> QED  BY <1>3, <1>6, <2>1, PairItems
<1> QED  BY <1>5, <1>6

\* What the pages, the host and the browser leave alone.
Outside ==
  /\ UNCHANGED <<pc, stopping, session, loaded, begun>>
  /\ capturing' \in {capturing, 0}
  /\ claim' = claim \/ (settings = "clear" /\ claim' = NoVideo)
  /\ Same \/ \E s : Added(s)

LEMMA OutsideStep ==
  ASSUME TypeOK, Next
  PROVE  Take \/ Continue \/ Consent \/ ForceAnswered \/ Crash \/ Outside
<1> USE DEF workerVars, memoryVars, durableVars, ghostVars
<1>1. CASE \/ Startup \/ HostFault \/ HostExit \/ RouteStop
           \/ \E v \in Video : \/ Begin(v) \/ GotClaim(v) \/ Ask(v) \/ StopEnhancement(v)
                               \/ Leave(v) \/ Heartbeat(v) \/ UpdateNative(v) \/ GotUpdate(v)
                                 \/ Reroute(v)
           \/ \E r \in Request : Admit(r) \/ GotReply(r)
           \/ \E n \in notes : GotNote(n)
           \/ Disable \/ SettingsUpdated \/ ClearActive \/ PushSettings
  <2>1. Same \/ \E s : Added(s)
    BY <1>1, OutsideQueue
  <2>2. /\ UNCHANGED <<pc, stopping, session, loaded, begun>> /\ capturing' \in {capturing, 0}
        /\ claim' = claim \/ (settings = "clear" /\ claim' = NoVideo)
    BY <1>1
    DEF Startup, HostFault, HostExit, RouteStop, Begin, GotClaim, Ask, StopEnhancement,
      Leave, Heartbeat, UpdateNative, GotUpdate, Reroute, Admit, GotReply, GotNote, Disable,
      SettingsUpdated, ClearActive, PushSettings
  <2> QED  BY <2>1, <2>2 DEF Outside
<1> QED  BY <1>1 DEF Next

\* The running task stays at the head of the queue.
LEMMA HeadStays ==
  ASSUME QueueOK, queue # <<>>, Same \/ \E s : Added(s)
  PROVE  Job' = Job /\ queue' # <<>>
<1>1. CASE Same
  BY <1>1 DEF Same, Job
<1>2. ASSUME NEW s, Added(s)
      PROVE  Job' = Job /\ queue' # <<>>
  BY <1>2, AddedHead DEF Job
<1> QED  BY <1>1, <1>2

LEMMA JobStays ==
  ASSUME QueueOK, queue # <<>>, Outside
  PROVE  Job' = Job /\ queue' # <<>> /\ ~Popped
<1>1. Job' = Job /\ queue' # <<>>
  BY HeadStays DEF Outside
<1>2. ASSUME Same, Popped PROVE FALSE
  <2>1. Tail(queue) # queue
    BY DEF QueueOK
  <2> QED  BY <1>2, <2>1 DEF Same, Popped
<1>3. ASSUME NEW s, Added(s), Popped
      PROVE  FALSE
  <2>1. Len(queue) \in Nat /\ Len(s) \in Nat /\ DOMAIN queue' = 1..(Len(queue) + Len(s))
    BY <1>3, AddedItems
  <2>2. DOMAIN queue' = 1..(Len(queue) - 1) /\ Len(queue) # 0
    BY <1>3, PoppedItems
  <2>3. Len(queue) \in DOMAIN queue' /\ Len(queue) \notin DOMAIN queue'
    BY <2>1, <2>2
  <2> QED  BY <2>3
<1> QED  BY <1>1, <1>2, <1>3 DEF Outside
-----------------------------------------------------------------------------
(* The running task                                                        *)

\* A record is forgotten only by a worker that dies, and stored only with the
\* memory of it.
LEMMA RememberedStep ==
  ASSUME IInv, Remembered, Next
  PROVE  Remembered'
<1> USE Types DEF IInv
<1> SUFFICES ASSUME session' # NoSession, ~loaded'
             PROVE  pc' = "idle" /\ queue' # <<>> /\ Job'.kind = "recover" /\ capturing' = 0
  BY DEF Remembered
<1>1. CASE Crash
  <2>1. pc' = "idle" /\ queue' = Restarted /\ capturing' = 0
    BY <1>1 DEF Crash
  <2> QED  BY <2>1 DEF Restarted, Task, Job
<1>2. CASE ~Crash
  <2>1. ~loaded
    BY <1>2
    DEF Next, Take, TakeClaim, TakeRelease, TakeStart, TakeStop, TakeScopedStop, TakeDisable,
      TakeRecover, TakeControl, Continue, ForceStop, Claimed, Updating, StartSession, Prepare,
      SetTitle, Measure, Connect, HostStart, Started, StartLost, StartReply, Stop, NotifyHost,
      RestoreFrame, RestoreTitle, Drop, Unclaim, Finish, Reattach, Consent, ForceAnswered,
      Startup, HostFault, HostExit, RouteStop, Begin, GotClaim, Ask, StopEnhancement, Leave,
      Heartbeat, UpdateNative, GotUpdate, Reroute, Admit, GotReply, GotNote, Disable,
      SettingsUpdated, ClearActive, PushSettings,
      memoryVars
  <2>2. session # NoSession
    BY <1>2, <2>1, SessionStep DEF Recorded, StartPcs
  <2>3. pc = "idle" /\ queue # <<>> /\ Job.kind = "recover" /\ capturing = 0
    BY <2>1, <2>2 DEF Remembered
  <2>4. ~Take
    BY <2>2, <2>3
    DEF Take, TakeClaim, TakeRelease, TakeStart, TakeStop, TakeScopedStop, TakeDisable,
      TakeRecover, TakeControl, Takes, ScopedKinds, Persisted
  <2>5. ~Continue /\ ~Consent /\ ~ForceAnswered
    BY <2>3
    DEF Continue, ForceStop, Claimed, Updating, StartSession, Prepare, SetTitle, Measure, Connect,
      HostStart, Started, StartLost, StartReply, Stop, NotifyHost, RestoreFrame, RestoreTitle,
      Drop, Unclaim, Finish, Reattach, Consent, ForceAnswered
  <2>6. Outside
    BY <1>2, <2>4, <2>5, OutsideStep
  <2>7. Job' = Job /\ queue' # <<>>
    BY <2>3, <2>6, JobStays
  <2> QED  BY <2>3, <2>6, <2>7 DEF Outside
<1> QED  BY <1>1, <1>2

\* The steps of the serializer and of the tasks it runs.
Worker == Take \/ Continue \/ Consent \/ ForceAnswered

\* The steps of a start that has a session to report, and where each comes from.
LEMMA ServingStep ==
  ASSUME IInv, Worker, pc' \in StartPcs \cup {"updating"}
  PROVE  /\ Same
         /\ \/ pc = "consent" /\ IsActiveOf(Job.v) /\ session' = session
            \/ pc = "start" /\ session' = Preparing(Job)
            \/ pc \in StartPcs
<1> USE Types DEF IInv, StartPcs, Same
<1>n. stopping.next \in {"idle", "claimed", "start", "failed", "finish", "disabled"}
  BY DEF WorkerOK, Stops
<1>1. CASE \/ TakeRelease \/ TakeStart \/ TakeStop \/ TakeScopedStop \/ TakeDisable
           \/ TakeControl \/ TakeClaim \/ TakeRecover
  BY <1>1 DEF TakeRelease, TakeStart, TakeStop, TakeScopedStop, TakeDisable, TakeControl,
    TakeClaim, TakeRecover, Done, CallStop
<1>2. CASE \/ ForceStop \/ Claimed \/ Updating \/ StartReply \/ Finish \/ ForceAnswered
           \/ Reattach
  BY <1>2 DEF ForceStop, Claimed, Updating, StartReply, Finish, ForceAnswered, Reattach, Done,
    CallStop
<1>3. CASE StartSession
  BY <1>3 DEF StartSession, Done
<1>4. CASE Prepare \/ SetTitle \/ Measure \/ Connect \/ HostStart \/ Started \/ StartLost
  BY <1>4 DEF Prepare, SetTitle, Measure, Connect, HostStart, Started, StartLost, StartFails,
    CallStop
<1>5. CASE Consent
  BY <1>5 DEF Consent, Done, CallStop, durableVars
<1>6. CASE NotifyHost \/ RestoreFrame \/ RestoreTitle \/ Drop
  BY <1>6 DEF NotifyHost, RestoreFrame, RestoreTitle, Drop, AfterNotify
<1>7. CASE Unclaim \/ Stop
  BY <1>7, <1>n DEF Unclaim, Stop
<1> QED  BY <1>1, <1>2, <1>3, <1>4, <1>5, <1>6, <1>7 DEF Worker, Take, Continue

LEMMA ServedStep ==
  ASSUME IInv, Served, Next
  PROVE  Served'
<1> USE Types DEF IInv
<1> SUFFICES ASSUME pc' \in StartPcs \cup {"updating"}
             PROVE  session' # NoSession /\ session'.v = Job'.v
  BY DEF Served
<1>1. CASE Crash
  BY <1>1 DEF Crash, StartPcs
<1>2. CASE Outside
  <2>1. pc = pc' /\ session = session' /\ queue # <<>>
    BY <1>2 DEF Outside, Running, StartPcs
  <2>2. Job' = Job
    BY <1>2, <2>1, JobStays
  <2> QED  BY <2>1, <2>2 DEF Served
<1>3. CASE Worker
  <2>1. Job' = Job
    BY <1>3, ServingStep DEF Same, Job
  <2>2. CASE pc = "consent" /\ IsActiveOf(Job.v) /\ session' = session
    BY <2>1, <2>2 DEF IsActiveOf, NoSession
  <2>3. CASE pc = "start" /\ session' = Preparing(Job)
    <3>1. Job.n \in Request
      BY <2>3, JobStarts
    <3> QED  BY <2>1, <2>3, <3>1 DEF Preparing, NoSession, Request
  <2>4. CASE pc \in StartPcs
    <3>1. session \in Records /\ session.v = Job.v /\ session.s # 0
      BY <2>4 DEF Served, RecordOK, Records, Session, Request
    <3>2. session' = session \/ session' = [session EXCEPT !.phase = "active"]
      BY <2>4, SessionStep DEF StartPcs
    <3>3. session'.s = session.s /\ session'.v = session.v
      BY <3>1, <3>2 DEF Records
    <3> QED  BY <2>1, <3>1, <3>3 DEF NoSession
  <2> QED  BY <1>3, <2>2, <2>3, <2>4, ServingStep
<1> QED  BY <1>1, <1>2, <1>3, OutsideStep DEF Worker

\* The stop that a claim calls for is of whichever session is on record.
LEMMA ClaimStopStep ==
  ASSUME IInv, Worker, StopFor("claimed")'
  PROVE  stopping'.expect = 0 \/ (StopFor("claimed") /\ stopping'.expect = stopping.expect)
<1> USE Types DEF IInv, StopFor, StopPcs, DropPcs
<1>n. stopping.next \in {"idle", "claimed", "start", "failed", "finish", "disabled"}
  BY DEF WorkerOK, Stops
<1>1. CASE \/ TakeRelease \/ TakeStart \/ TakeStop \/ TakeScopedStop \/ TakeDisable
           \/ TakeControl \/ TakeClaim
  BY <1>1 DEF TakeRelease, TakeStart, TakeStop, TakeScopedStop, TakeDisable, TakeControl,
    TakeClaim, Done, CallStop, NoStop
<1>2. CASE TakeRecover \/ Reattach
  BY <1>2 DEF TakeRecover, Reattach, Done, CallStop, NoStop
<1>3. CASE \/ ForceStop \/ Claimed \/ Updating \/ StartReply \/ Finish \/ ForceAnswered
           \/ StartSession
  BY <1>3 DEF ForceStop, Claimed, Updating, StartReply, Finish, ForceAnswered, StartSession, Done
<1>4. CASE \/ Prepare \/ SetTitle \/ Measure \/ Connect \/ HostStart \/ Started \/ StartLost
           \/ Consent
  BY <1>4 DEF Prepare, SetTitle, Measure, Connect, HostStart, Started, StartLost, Consent,
    StartFails, Done, CallStop, NoStop
<1>5. CASE Stop \/ Unclaim
  BY <1>5, <1>n DEF Stop, Unclaim
<1>6. CASE NotifyHost \/ RestoreFrame \/ RestoreTitle
  BY <1>6 DEF NotifyHost, RestoreFrame, RestoreTitle
<1>7. CASE Drop
  <2>1. stopping' = [stopping EXCEPT !.owner = session.v] /\ stopping \in Stops
    BY <1>7 DEF Drop, WorkerOK
  <2>2. stopping'.expect = stopping.expect /\ stopping'.next = stopping.next
    BY <2>1 DEF Stops
  <2> QED  BY <1>7, <2>2 DEF Drop
<1> QED  BY <1>1, <1>2, <1>3, <1>4, <1>5, <1>6, <1>7 DEF Worker, Take, Continue

\* The steps of a claim that takes the place of another.
LEMMA ForcingStep ==
  ASSUME IInv, Worker, Forcing'
  PROVE  /\ Same \/ \E s : Added(s)
         /\ queue # <<>> /\ UNCHANGED session
         /\ \/ TakeClaim /\ claim' = claim /\ ~IsActiveOf(claim)
            \/ Forcing /\ claim' = claim
            \/ StopFor("claimed") /\ Stop /\ (stopping.expect = 0 => session = NoSession)
            \/ StopFor("claimed") /\ session = NoSession
<1> USE Types DEF IInv
<1>n. stopping.next \in {"idle", "claimed", "start", "failed", "finish", "disabled"}
  BY DEF WorkerOK, Stops
<1>1. CASE TakeClaim
  BY <1>1 DEF TakeClaim, Takes, Done, CallStop, Forcing, Same
<1>2. CASE ForceStop
  <2>1. Same \/ \E s : Added(s)
    BY <1>2, PlainQueue
  <2> QED  BY <1>2, <2>1 DEF ForceStop, Forcing, durableVars, Running
<1>3. CASE ForceAnswered
  BY <1>3 DEF ForceAnswered, Forcing, durableVars, Running, Same
<1>4. CASE Stop
  BY <1>4, <1>n DEF Stop, Forcing, StopFor, StopPcs, Running, Same
<1>5. CASE Unclaim
  BY <1>5, <1>n DEF Unclaim, Forcing, StopFor, StopPcs, Running, Recorded, Same
<1>6. CASE \/ TakeRelease \/ TakeStart \/ TakeStop \/ TakeScopedStop \/ TakeDisable \/ TakeRecover
           \/ TakeControl \/ Claimed \/ Updating \/ StartSession \/ Prepare \/ SetTitle \/ Measure
           \/ Connect \/ HostStart \/ Started \/ StartLost \/ StartReply \/ NotifyHost
           \/ RestoreFrame \/ RestoreTitle \/ Drop \/ Finish \/ Reattach \/ Consent
  BY <1>6
  DEF TakeRelease, TakeStart, TakeStop, TakeScopedStop, TakeDisable, TakeRecover, TakeControl,
    Claimed, Updating, StartSession, Prepare, SetTitle, Measure, Connect, HostStart, Started,
    StartLost, StartFails, StartReply, NotifyHost, AfterNotify, RestoreFrame, RestoreTitle, Drop,
    Finish, Reattach, Consent, Done, CallStop, Forcing
<1> QED  BY <1>1, <1>2, <1>3, <1>4, <1>5, <1>6 DEF Worker, Take, Continue

LEMMA ForcedStep ==
  ASSUME IInv, Remembered, Forced, Next
  PROVE  Forced'
<1> USE Types DEF IInv
<1>1. CASE Crash
  <2>1. pc' = "idle"
    BY <1>1 DEF Crash
  <2> QED  BY <2>1 DEF Forced, Forcing, StopFor, StopPcs, DropPcs
<1>2. CASE Outside
  <2>1. UNCHANGED <<pc, stopping, session>>
    BY <1>2 DEF Outside
  <2>2. claim' = claim \/ session = NoSession \/ session.v # claim'
    BY <1>2 DEF Outside, RecordOK, Records, NoVideo
  <2> QED  BY <2>1, <2>2 DEF Forced, Forcing, StopFor
<1>3. CASE Worker
  <2>1. ASSUME Forcing'
        PROVE  session' = NoSession \/ session'.v # claim'
    <3>1. CASE TakeClaim /\ claim' = claim /\ ~IsActiveOf(claim)
      <4>1. queue # <<>> /\ session' = session /\ Job.kind = "claim"
        BY <1>3, <2>1, <3>1, ForcingStep DEF TakeClaim, Takes
      <4>2. session # NoSession => loaded /\ session.s # 0
        BY <4>1 DEF Remembered, RecordOK, Records, Session, Request
      <4> QED  BY <3>1, <4>1, <4>2 DEF IsActiveOf
    <3> QED  BY <1>3, <2>1, <3>1, ForcingStep DEF Forced
  <2>2. ASSUME StopFor("claimed")'
        PROVE  stopping'.expect = 0
    BY <1>3, <2>2, ClaimStopStep DEF Forced
  <2> QED  BY <2>1, <2>2 DEF Forced
<1> QED  BY <1>1, <1>2, <1>3, OutsideStep DEF Worker

-----------------------------------------------------------------------------
(* Requests                                                                *)

\* What a step makes of a request that waits in the queue or for its page to take
\* note of the session: it stays as it is, unless it is stopped or superseded,
\* answered, or taken note of, or its page goes away.
Untouched(n) == /\ req'[n].v = req[n].v /\ req'[n].st = req[n].st /\ req'[n].s = req[n].s
                /\ req[n].stop => req'[n].stop
LEMMA SameRequest ==
  ASSUME NEW n, req'[n] = req[n]
  PROVE  Untouched(n)
  BY DEF Untouched

LEMMA MarkedRequest ==
  ASSUME ScriptOK, NEW n \in Request, NEW q \in Request \cup {0}, req'[n] = Marked(q)[n]
  PROVE  Untouched(n)
<1>1. /\ Marked(q)[n].v = req[n].v /\ Marked(q)[n].st = req[n].st /\ Marked(q)[n].s = req[n].s
      /\ req[n].stop => Marked(q)[n].stop
  BY OneRequest
<1> QED  BY <1>1 DEF Untouched

LEMMA RequestKeeps ==
  ASSUME IInv, Listening, Next, NEW n \in Request, req[n].st \in {"queued", "ok"}
  PROVE  \/ Untouched(n)
         \/ req[n].st = "queued" /\ req'[n].st # "queued"
         \/ req[n].st = "ok" /\ (GotReply(n) \/ Leave(req[n].v))
<1> USE Types DEF IInv
<1>s. req \in [Request -> Requests] /\ ledger \in [Video -> Request \cup {0}] /\ present \subseteq Video
  BY DEF ScriptOK, PageOK
<1>1. CASE UNCHANGED req
  BY <1>1 DEF Untouched
<1>2. CASE Replying
  <2>1. PICK r \in Request, outcome \in {"ok", "no"}, s \in Session \cup {0} :
          r = Job.n /\ req' = Answered(r, outcome, s) /\ req[r].st = "queued"
    BY <1>2 DEF Replying
  <2>2. CASE n = r
    <3>1. req'[n].st \in {"ok", "no", "done"}
      BY <2>1, <2>2, Answer
    <3> QED  BY <2>1, <2>2, <3>1
  <2>3. CASE n # r
    <3>1. req'[n] = req[n]
      BY <2>1, <2>3, Answer
    <3> QED  BY <3>1, SameRequest
  <2> QED  BY <2>2, <2>3
<1>3. ASSUME NEW q \in Request \cup {0}, req' = Marked(q)
      PROVE  Untouched(n)
  BY <1>3, OneRequest DEF Untouched
<1>4. CASE ForceStop
  <2>1. UNCHANGED req \/ \E q \in Request \cup {0} : req' = Marked(q)
    BY <1>4, <1>s DEF ForceStop
  <2> QED  BY <1>1, <1>3, <2>1
<1>5. ASSUME NEW v \in Video, StopEnhancement(v)
      PROVE  Untouched(n)
  BY <1>3, <1>5, <1>s DEF StopEnhancement
<1>6. CASE Crash
  <2>1. req'[n] = IF req[n].st \in {"inbox", "queued"} THEN Outcome(n, "no", 0) ELSE req[n]
    BY <1>6 DEF Crash
  <2>2. req[n].st = "queued" => req'[n].st \in {"no", "done"}
    BY <2>1, ReplyType
  <2> QED  BY <2>1, <2>2 DEF Untouched
<1>7. ASSUME NEW v \in Video, Ask(v)
      PROVE  Untouched(n)
  <2>1. PICK r \in Request :
          /\ req[r].st = "unused"
          /\ req' = [Marked(ledger[v]) EXCEPT ![r] = [v |-> v, stop |-> FALSE, st |-> "inbox", s |-> 0]]
    BY <1>7 DEF Ask
  <2>2. Marked(ledger[v]) \in [Request -> Requests] /\ ledger[v] \in Request \cup {0}
    BY <1>s, MarkedType
  <2>3. n # r
    BY <2>1
  <2>4. req'[n] = Marked(ledger[v])[n]
    <3> DEFINE m == Marked(ledger[v])
    <3>1. m \in [Request -> Requests]
      BY <2>2
    <3> HIDE DEF m
    <3>2. req' = [m EXCEPT ![r] = [v |-> v, stop |-> FALSE, st |-> "inbox", s |-> 0]]
      BY <2>1 DEF m
    <3>3. req'[n] = m[n]
      BY <2>3, <3>1, <3>2
    <3> QED  BY <3>3 DEF m
  <2> QED  BY <2>2, <2>4, MarkedRequest
<1>8. ASSUME NEW v \in Video, Leave(v)
      PROVE  Untouched(n) \/ (Leave(req[n].v) /\ req[n].st = "ok")
  <2>1. req'[n] = IF req[n].v = v /\ req[n].st \in {"ok", "no"} THEN Spent ELSE req[n]
    BY <1>8 DEF Leave
  <2>2. CASE req[n].v = v /\ req[n].st = "ok"
    BY <1>8, <2>2
  <2>3. CASE ~(req[n].v = v /\ req[n].st = "ok")
    <3>1. req'[n] = req[n]
      BY <2>1, <2>3
    <3> QED  BY <3>1, SameRequest
  <2> QED  BY <2>2, <2>3
<1>9. ASSUME NEW r \in Request, Admit(r)
      PROVE  Untouched(n)
  <2>1. n # r
    BY <1>9 DEF Admit
  <2>2. req'[n] = req[n]
    BY <1>9, <1>s, <2>1, Answer DEF Admit
  <2> QED  BY <2>2 DEF Untouched
<1>10. ASSUME NEW r \in Request, GotReply(r)
       PROVE  Untouched(n) \/ (GotReply(n) /\ req[n].st = "ok")
  <2>1. req[r].st \in {"ok", "no"} /\ req' = [req EXCEPT ![r] = Spent]
    BY <1>10 DEF GotReply
  <2>2. CASE n = r
    BY <1>10, <2>1, <2>2
  <2>3. CASE n # r
    <3>1. req'[n] = req[n]
      BY <1>s, <2>1, <2>3
    <3> QED  BY <3>1, SameRequest
  <2> QED  BY <2>2, <2>3
<1>11. ASSUME NEW v \in Video, Begin(v) \/ GotClaim(v) \/ UpdateNative(v) \/ GotUpdate(v)
       PROVE  UNCHANGED req
  BY <1>11 DEF Begin, GotClaim, UpdateNative, GotUpdate
<1>12. ASSUME NEW m \in notes, GotNote(m)
       PROVE  UNCHANGED req
  BY <1>12 DEF GotNote
<1> QED
  BY <1>1, <1>2, <1>4, <1>5, <1>6, <1>7, <1>8, <1>9, <1>10, <1>11, <1>12, ScriptStep

\* The starts of the queue: one that joins, or one that was there and does not run
\* out.
LEMMA StartTasks ==
  ASSUME IInv, Next, ~Crash, NEW i \in DOMAIN queue', queue'[i].kind = "start"
  PROVE  \/ \E r \in Request : Admit(r) /\ queue'[i].n = r /\ queue'[i].v = req[r].v
                               /\ req'[r].st = "queued"
         \/ \E j \in DOMAIN queue : queue'[i] = queue[j] /\ ~(j = 1 /\ Popped)
<1> USE Types DEF IInv
<1>1. CASE Popped
  <2>1. i + 1 \in DOMAIN queue /\ queue'[i] = queue[i + 1] /\ i + 1 # 1
    BY <1>1, PoppedItems
  <2> QED  BY <2>1
<1>2. CASE Same /\ ~Popped
  BY <1>2 DEF Same
<1>3. ASSUME ~Popped, NEW s, Added(s), \A k \in DOMAIN s : s[k].kind # "start"
      PROVE  \E j \in DOMAIN queue : queue'[i] = queue[j] /\ ~(j = 1 /\ Popped)
  BY <1>3, AddedItems
<1>4. ASSUME ~Popped, NEW r \in Request, Admit(r), Starting(r)
      PROVE  \/ Admit(r) /\ queue'[i].n = r /\ queue'[i].v = req[r].v /\ req'[r].st = "queued"
             \/ \E j \in DOMAIN queue : queue'[i] = queue[j] /\ ~(j = 1 /\ Popped)
  <2> DEFINE s == <<Task("start", req[r].v, r)>>
  <2>1. CASE i \in DOMAIN queue
    BY <1>4, <2>1, AddedItems DEF Starting
  <2>2. CASE i \notin DOMAIN queue
    <3>1. i - Len(queue) \in DOMAIN s /\ queue'[i] = s[i - Len(queue)]
      BY <1>4, <2>2, AddedItems DEF Starting
    <3> QED  BY <1>4, <3>1, NewStart
  <2> QED  BY <2>1, <2>2
<1>5. ASSUME ~Popped, NEW v \in Video, Leave(v), Parting(v)
      PROVE  \E j \in DOMAIN queue : queue'[i] = queue[j] /\ ~(j = 1 /\ Popped)
  <2>1. PICK s : Added(s) /\ Parted(v, s)
    BY <1>5, PartingKinds
  <2> QED  BY <1>3, <1>5, <2>1 DEF Parted
<1> QED  BY <1>1, <1>2, <1>3, <1>4, <1>5, QueueStep DEF Plain, Running

LEMMA StartsOwnStep ==
  ASSUME IInv, Listening, StartsOwn, Next
  PROVE  StartsOwn'
<1> USE Types DEF IInv
<1>1. CASE Crash
  <2>1. \A i \in DOMAIN queue' : queue'[i].kind # "start"
    BY <1>1, RestartedType DEF Crash, Plain
  <2> QED  BY <2>1 DEF StartsOwn
<1>2. ASSUME ~Crash, NEW i \in DOMAIN queue', queue'[i].kind = "start"
      PROVE  queue'[i].v = req'[queue'[i].n].v
  <2>1. ASSUME NEW r \in Request, Admit(r), queue'[i].n = r, queue'[i].v = req[r].v,
               req'[r].st = "queued"
        PROVE  queue'[i].v = req'[queue'[i].n].v
    <3>1. req' = [req EXCEPT ![r].st = "queued"]
      <4>1. req' = Answered(r, "no", 0) => req'[r].st \in {"no", "done"}
        BY AnsweredItems
      <4> QED  BY <2>1, <4>1 DEF Admit
    <3>2. req'[r].v = req[r].v
      BY <3>1 DEF ScriptOK, Requests
    <3> QED  BY <2>1, <3>2
  <2>2. ASSUME NEW j \in DOMAIN queue, queue'[i] = queue[j], ~(j = 1 /\ Popped)
        PROVE  queue'[i].v = req'[queue'[i].n].v
    <3>1. queue[j].kind = "start" /\ queue[j].n \in Request /\ req[queue[j].n].st = "queued"
      BY <1>2, <2>2 DEF StartsQueued
    <3>2. req'[queue[j].n].st = "queued"
      BY <1>2, <2>2, <3>1, OldStart
    <3>3. Untouched(queue[j].n)
      BY <3>1, <3>2, RequestKeeps
    <3> QED  BY <2>2, <3>1, <3>3 DEF Untouched, StartsOwn
  <2> QED  BY <1>2, <2>1, <2>2, StartTasks
<1> QED  BY <1>1, <1>2 DEF StartsOwn

\* A session is reported to the request it was started for, or to another one of
\* the same video.
LEMMA GrantStep ==
  ASSUME IInv, Next, NEW r \in Request, req'[r].st = "ok", req[r].st # "ok"
  PROVE  /\ queue # <<>> /\ Job.kind = "start" /\ r = Job.n /\ pc \in {"updating", "reply"}
         /\ session' = session /\ req'[r].s = session.s /\ req'[r].v = req[r].v
<1> USE Types DEF IInv
<1>s. req \in [Request -> Requests] /\ ledger \in [Video -> Request \cup {0}] /\ present \subseteq Video
  BY DEF ScriptOK, PageOK
<1>1. CASE Replying
  <2>1. PICK outcome \in {"ok", "no"}, s \in Session \cup {0} :
          /\ req' = Answered(Job.n, outcome, s)
          /\ outcome = "ok" =>
               pc \in {"updating", "reply"} /\ s = session.s /\ session' = session
    BY <1>1 DEF Replying
  <2>2. PICK n \in Request : n = Job.n
    BY <1>1 DEF Replying
  <2>3. r = n
    BY <2>1, <2>2, Answer
  <2>4. outcome = "ok" /\ req'[r].s = s /\ req'[r].v = req[r].v
    BY <2>1, <2>2, <2>3, Answer
  <2> QED  BY <1>1, <2>1, <2>2, <2>3, <2>4 DEF Replying, Popped
<1>2. ASSUME NEW q \in Request \cup {0}, req' = Marked(q)
      PROVE  FALSE
  BY <1>2, OneRequest
<1>3. CASE ForceStop
  <2>1. UNCHANGED req \/ \E q \in Request \cup {0} : req' = Marked(q)
    BY <1>3, <1>s DEF ForceStop
  <2> QED  BY <1>2, <2>1
<1>4. ASSUME NEW v \in Video, StopEnhancement(v)
      PROVE  FALSE
  BY <1>2, <1>4, <1>s DEF StopEnhancement
<1>5. CASE Crash
  <2>1. req'[r] = IF req[r].st \in {"inbox", "queued"} THEN Outcome(r, "no", 0) ELSE req[r]
    BY <1>5 DEF Crash
  <2> QED  BY <2>1, ReplyType
<1>6. ASSUME NEW v \in Video, Ask(v)
      PROVE  FALSE
  <2>1. PICK q \in Request :
          req' = [Marked(ledger[v]) EXCEPT ![q] = [v |-> v, stop |-> FALSE, st |-> "inbox", s |-> 0]]
    BY <1>6 DEF Ask
  <2>2. PICK m \in [Request -> Requests] : m = Marked(ledger[v])
    BY <1>s, MarkedType
  <2>3. m[r].st = req[r].st
    BY <1>s, <2>2, OneRequest
  <2>4. req' = [m EXCEPT ![q] = [v |-> v, stop |-> FALSE, st |-> "inbox", s |-> 0]]
    BY <2>1, <2>2
  <2>5. req'[r].st \in {"inbox", m[r].st}
    BY <2>4
  <2> QED  BY <2>3, <2>5
<1>7. ASSUME NEW v \in Video, Leave(v)
      PROVE  FALSE
  <2>1. req'[r] = IF req[r].v = v /\ req[r].st \in {"ok", "no"} THEN Spent ELSE req[r]
    BY <1>7 DEF Leave
  <2> QED  BY <2>1 DEF Spent, Unused
<1>8. ASSUME NEW q \in Request, Admit(q)
      PROVE  FALSE
  <2>1. CASE req' = Answered(q, "no", 0)
    BY <2>1, Answer
  <2>2. CASE req' = [req EXCEPT ![q].st = "queued"]
    <3>1. req[r] \in Requests /\ req[q] \in Requests
      BY <1>s
    <3>2. req'[r].st \in {"queued", req[r].st}
      BY <1>s, <2>2, <3>1 DEF Requests
    <3> QED  BY <3>2
  <2> QED  BY <1>8, <2>1, <2>2 DEF Admit
<1>9. ASSUME NEW q \in Request, GotReply(q)
      PROVE  FALSE
  <2>1. req' = [req EXCEPT ![q] = Spent]
    BY <1>9 DEF GotReply
  <2>2. req'[r] \in {Spent, req[r]}
    BY <1>s, <2>1
  <2> QED  BY <2>2 DEF Spent, Unused
<1>10. ~UNCHANGED req
  OBVIOUS
<1>11. /\ \A v \in Video : Begin(v) \/ GotClaim(v) \/ UpdateNative(v) \/ GotUpdate(v) => UNCHANGED req
       /\ \A n \in notes : GotNote(n) => UNCHANGED req
  BY DEF Begin, GotClaim, UpdateNative, GotUpdate, GotNote
<1> QED
  BY <1>1, <1>3, <1>4, <1>5, <1>6, <1>7, <1>8, <1>9, <1>10, <1>11, ScriptStep

LEMMA GrantedStep ==
  ASSUME IInv, Listening, Served, StartsOwn, Granted, Next
  PROVE  Granted'
<1> USE Types DEF IInv
<1>1. begun \subseteq begun'
  BY BegunStep
<1>2. ASSUME NEW r \in Request, req'[r].st = "ok", req[r].st = "ok"
      PROVE  req'[r].s \in begun' /\ (req'[r].s = session'.s => req'[r].v = session'.v)
  <2>1. Untouched(r)
    <3>1. GotReply(r) => req'[r] = Spent
      BY DEF GotReply, ScriptOK
    <3>2. Leave(req[r].v) => req'[r] = Spent
      BY <1>2 DEF Leave
    <3> QED  BY <1>2, <3>1, <3>2, RequestKeeps DEF Spent, Unused
  <2>2. /\ req'[r].s = req[r].s /\ req'[r].v = req[r].v /\ req[r].s \in begun
        /\ req[r].s = session.s => req[r].v = session.v
    BY <1>2, <2>1 DEF Untouched, Granted
  <2>3. req[r].s # 0
    BY <2>2 DEF PageOK, Session, Request
  <2>4. CASE session'.s = session.s /\ session'.v = session.v
    BY <1>1, <2>2, <2>4
  <2>5. CASE session'.s \notin begun \/ session' = NoSession
    BY <1>1, <2>2, <2>3, <2>5 DEF NoSession
  <2> QED  BY <2>4, <2>5, RecordFate
<1>3. ASSUME NEW r \in Request, req'[r].st = "ok", req[r].st # "ok"
      PROVE  req'[r].s \in begun' /\ (req'[r].s = session'.s => req'[r].v = session'.v)
  <2>1. /\ queue # <<>> /\ Job.kind = "start" /\ r = Job.n /\ pc \in {"updating", "reply"}
        /\ session' = session /\ req'[r].s = session.s /\ req'[r].v = req[r].v
    BY <1>3, GrantStep
  <2>2. session # NoSession /\ session.v = Job.v
    BY <2>1 DEF Served, StartPcs
  <2>3. session.s \in begun
    BY <2>2 DEF Recorded
  <2>4. req[r].v = Job.v
    BY <2>1, JobType DEF StartsOwn
  <2> QED  BY <1>1, <2>1, <2>2, <2>3, <2>4
<1> QED  BY <1>2, <1>3 DEF Granted

-----------------------------------------------------------------------------
(* A session that is doomed                                                *)

\* A start puts its session on record only when there is none.
LEMMA StartPcsStep ==
  ASSUME WorkerOK, Next, pc' \in StartPcs
  PROVE  pc \in StartPcs \cup {"start"}
<1> USE DEF WorkerOK, Stops, StartPcs
<1>1. CASE Take
  BY <1>1 DEF Take, TakeClaim, TakeRelease, TakeStart, TakeStop, TakeScopedStop, TakeDisable,
    TakeRecover, TakeControl, Takes, Done, CallStop
<1>2. CASE \/ ForceStop \/ Claimed \/ Updating \/ StartSession \/ StartReply \/ Finish \/ Reattach
           \/ Consent \/ ForceAnswered \/ Stop \/ Unclaim
  BY <1>2 DEF ForceStop, Claimed, Updating, StartSession, StartReply, Finish, Reattach, Consent,
    ForceAnswered, Stop, Unclaim, Done, CallStop
<1>3. CASE \/ Prepare \/ SetTitle \/ Measure \/ Connect \/ HostStart \/ Started \/ StartLost
           \/ NotifyHost \/ RestoreFrame \/ RestoreTitle \/ Drop
  BY <1>3 DEF Prepare, SetTitle, Measure, Connect, HostStart, Started, StartLost, NotifyHost,
    AfterNotify, RestoreFrame, RestoreTitle, Drop
<1>4. CASE \/ Startup \/ HostFault \/ HostExit \/ RouteStop \/ Crash
           \/ \E v \in Video : \/ Begin(v) \/ GotClaim(v) \/ Ask(v) \/ StopEnhancement(v)
                               \/ Leave(v) \/ Heartbeat(v) \/ UpdateNative(v) \/ GotUpdate(v)
                                 \/ Reroute(v)
           \/ \E r \in Request : Admit(r) \/ GotReply(r)
           \/ \E n \in notes : GotNote(n)
           \/ Disable \/ SettingsUpdated \/ ClearActive \/ PushSettings
  BY <1>4
  DEF Startup, HostFault, HostExit, RouteStop, Crash, Begin, GotClaim, Ask, StopEnhancement,
    Leave, Heartbeat, UpdateNative, GotUpdate, Reroute, Admit, GotReply, GotNote, Disable,
    SettingsUpdated, ClearActive,
    PushSettings, workerVars
<1> QED  BY <1>1, <1>2, <1>3, <1>4 DEF Next, Continue

LEMMA CapturingStep ==
  ASSUME Next
  PROVE  capturing' \in {capturing, 0} \/ (pc = "starting" /\ HostStart)
  BY DEF Next, Take, TakeClaim, TakeRelease, TakeStart, TakeStop, TakeScopedStop, TakeDisable,
    TakeRecover, TakeControl, Continue, ForceStop, Claimed, Updating, StartSession, Prepare,
    SetTitle, Measure, Connect, HostStart, Started, StartLost, StartReply, Stop, NotifyHost,
    RestoreFrame, RestoreTitle, Drop, ClosePort, Unclaim, Finish, Reattach, Consent,
    ForceAnswered, Crash, Startup, HostFault, HostExit, RouteStop, Begin, GotClaim, Ask,
    StopEnhancement, Leave, Heartbeat, UpdateNative, GotUpdate, Reroute, Admit, GotReply, GotNote,
    Disable, SettingsUpdated,
    ClearActive, PushSettings

\* An event waits until its stop joins the queue.
LEMMA RoutingStep ==
  ASSUME Next, NEW e \in routing
  PROVE  \/ e \in routing'
         \/ Crash
         \/ RouteStop /\ queue' = Append(queue, Task(e.kind, NoVideo, e.s))
<1> USE DEF memoryVars, Forward
<1>1. CASE Take
  BY <1>1 DEF Take, TakeClaim, TakeRelease, TakeStart, TakeStop, TakeScopedStop, TakeDisable,
    TakeRecover, TakeControl, Reconfigured, NotReconfigured
<1>2. CASE Continue \/ Consent \/ ForceAnswered
  BY <1>2
  DEF Continue, ForceStop, Claimed, Updating, Reconfigured, NotReconfigured, StartSession,
    Prepare, SetTitle, Measure, Connect, HostStart, Started, StartLost, StartReply, Stop,
    NotifyHost, RestoreFrame, RestoreTitle, Drop, Unclaim, Finish, Reattach, Consent,
    ForceAnswered
<1>3. CASE RouteStop
  BY <1>3 DEF RouteStop
<1>4. CASE \/ Crash \/ Startup \/ HostFault \/ HostExit
           \/ \E v \in Video : \/ Begin(v) \/ GotClaim(v) \/ Ask(v) \/ StopEnhancement(v)
                               \/ Leave(v) \/ Heartbeat(v) \/ UpdateNative(v) \/ GotUpdate(v)
                                 \/ Reroute(v)
           \/ \E r \in Request : Admit(r) \/ GotReply(r)
           \/ \E n \in notes : GotNote(n)
           \/ Disable \/ SettingsUpdated \/ ClearActive \/ PushSettings
  BY <1>4
  DEF Startup, HostFault, HostExit, Begin, GotClaim, Ask, StopEnhancement,
    Leave, Heartbeat, UpdateNative, GotUpdate, Reroute, Admit, GotReply, GotNote, Disable,
    SettingsUpdated, ClearActive, PushSettings
<1> QED  BY <1>1, <1>2, <1>3, <1>4 DEF Next

\* The record of one session.
LEMMA SameRecord ==
  ASSUME IInv, Next, session # NoSession, session' # NoSession
  PROVE  /\ session'.s = session.s /\ session'.v = session.v
         /\ session \in Records /\ session.s # 0 /\ session.v \in Video /\ pc # "start"
<1> USE Types DEF IInv
<1>1. pc # "start"
  BY DEF Recorded
<1>2. session \in Records /\ session.s # 0 /\ session.v \in Video
  BY DEF RecordOK, Records, Session, Request
<1> QED  BY <1>1, <1>2, RecordFate

\* A worker that died recovers the session, whose host died with it.
LEMMA CrashDooms ==
  ASSUME IInv, Crash, session # NoSession
  PROVE  Doomed'
<1> USE Types DEF IInv
<1>1. queue' = Restarted /\ pc' = "idle" /\ capturing' = 0 /\ session' = session
  BY DEF Crash, durableVars
<1>2. session.s # 0
  BY DEF RecordOK, Records, Session, Request
<1>3. 1 \in DOMAIN queue' /\ queue'[1].kind = "recover"
  BY <1>1, RestartedType
<1>4. Dooming(1)'
  BY <1>1, <1>2, <1>3 DEF Dooming, EndsIt, StartPcs
<1> QED  BY <1>3, <1>4 DEF Doomed

\* A stop of the session that joins the queue.
LEMMA JoinDooms ==
  ASSUME IInv, NEW s, Added(s), NEW k \in DOMAIN s, EndsIt(s[k])', pc' = pc
  PROVE  Doomed'
<1> USE Types DEF IInv
<1>1. PICK i \in DOMAIN queue' : queue'[i] = s[k] /\ (i = 1 => queue = <<>>)
  BY Joined
<1>2. i = 1 => pc' = "idle"
  BY <1>1 DEF Running
<1>3. EndsIt(queue[i])'
  BY <1>1 DEF EndsIt
<1>4. Dooming(i)'
  BY <1>2, <1>3 DEF Dooming
<1> QED  BY <1>4 DEF Doomed

LEMMA LeaveDooms ==
  ASSUME IInv, Remembered, session # NoSession, Leave(session.v)
  PROVE  Doomed'
<1> USE Types DEF IInv
<1>1. session \in Records /\ session.s # 0 /\ session.v \in Video
  BY DEF RecordOK, Records, Session, Request
<1>2. UNCHANGED <<pc, session, capturing>>
  BY DEF Leave, workerVars, durableVars
<1>3. PICK s : /\ Added(s)
               /\ IsActiveOf(session.v) =>
                    \E k \in DOMAIN s : s[k].kind \in ScopedKinds /\ s[k].n = session.s
  BY <1>1, LeaveItems
<1>4. CASE loaded
  <2>1. IsActiveOf(session.v)
    BY <1>1, <1>4 DEF IsActiveOf
  <2>2. PICK k \in DOMAIN s : s[k].kind \in ScopedKinds /\ s[k].n = session.s
    BY <1>3, <2>1
  <2>3. EndsIt(s[k])'
    BY <1>2, <2>2 DEF EndsIt
  <2> QED  BY <1>2, <1>3, <2>3, JoinDooms
<1>5. CASE ~loaded
  <2>1. pc = "idle" /\ queue # <<>> /\ Job.kind = "recover" /\ capturing = 0
    BY <1>5 DEF Remembered
  <2>2. 1 \in DOMAIN queue /\ Job = queue[1]
    BY <2>1, JobType
  <2>3. 1 \in DOMAIN queue' /\ queue'[1] = queue[1]
    BY <1>3, <2>2, AddedItems
  <2>4. Dooming(1)'
    BY <1>1, <1>2, <2>1, <2>2, <2>3 DEF Dooming, EndsIt, StartPcs
  <2> QED  BY <2>3, <2>4 DEF Doomed
<1> QED  BY <1>4, <1>5 DEF WorkerOK

\* An enhancer that gets a session it gave up stops it again.
LEMMA ReplyDooms ==
  ASSUME IInv, NEW r \in Request, GotReply(r), Late(r), req[r].stop
  PROVE  Doomed'
<1> USE Types DEF IInv
<1>1. /\ queue' = queue \o <<Task("stop", req[r].v, req[r].s)>>
      /\ UNCHANGED <<pc, session>>
  BY DEF GotReply, Late, AbsorbLate, workerVars, durableVars
<1>2. req[r].v \in Video \cup {NoVideo} /\ req[r].s \in Session \cup {0}
  BY DEF ScriptOK, Requests
<1>3. PICK t \in Tasks : t = Task("stop", req[r].v, req[r].s)
  BY <1>2, TaskType DEF Kinds
<1>4. t.kind = "stop" /\ t.v = session.v /\ t.n = session.s
  BY <1>2, <1>3, TaskType DEF Kinds, Late
<1>5. queue' = Append(queue, t)
  <2>1. queue \o <<t>> = Append(queue, t)
    BY DEF QueueOK
  <2> QED  BY <1>1, <1>3, <2>1
<1>6. Added(<<t>>) /\ DOMAIN <<t>> = {1} /\ <<t>>[1] = t
  BY <1>5, TaskAdded
<1>7. EndsIt(t)'
  BY <1>1, <1>4 DEF EndsIt
<1> DEFINE s == <<t>>
<1>8. Added(s) /\ 1 \in DOMAIN s /\ EndsIt(s[1])'
  BY <1>6, <1>7
<1> HIDE DEF s
<1> QED  BY <1>1, <1>8, JoinDooms

LEMMA RouteDooms ==
  ASSUME IInv, NEW e \in routing, e.s = session.s, Next, ~Crash, session' = session
  PROVE  Doomed'
<1> USE Types DEF IInv
<1>1. CASE e \in routing'
  BY <1>1 DEF Doomed
<1>2. CASE RouteStop /\ queue' = Append(queue, Task(e.kind, NoVideo, e.s))
  <2>1. e.kind \in {"hostStop", "exitStop"} /\ e.s \in Session /\ UNCHANGED pc
    BY <1>2 DEF RouteStop, WorkerOK
  <2>2. PICK t \in Tasks : t = Task(e.kind, NoVideo, e.s)
    BY <2>1, TaskType DEF Kinds
  <2>3. t.kind \in ScopedKinds /\ t.n = session.s
    BY <2>1, <2>2, TaskType DEF Kinds, ScopedKinds
  <2>4. Added(<<t>>) /\ DOMAIN <<t>> = {1} /\ <<t>>[1] = t
    BY <1>2, <2>2, TaskAdded
  <2>5. EndsIt(t)'
    BY <2>3 DEF EndsIt
  <2> DEFINE s == <<t>>
  <2>6. Added(s) /\ 1 \in DOMAIN s /\ EndsIt(s[1])'
    BY <2>4, <2>5
  <2> HIDE DEF s
  <2> QED  BY <2>1, <2>6, JoinDooms
<1> QED  BY <1>1, <1>2, RoutingStep

\* A task that ends the session does so when its turn comes.
LEMMA TakenDooms ==
  ASSUME IInv, Remembered, Take, session # NoSession, EndsIt(Job), queue # <<>>
  PROVE  Stopping' /\ session' = session
<1> USE Types DEF IInv
<1>1. session \in Records /\ session.s # 0
  BY DEF RecordOK, Records, Session, Request
<1>2. Job.kind \in {"stop", "recover"} \cup ScopedKinds /\ pc = "idle"
  BY DEF EndsIt, Take, TakeClaim, TakeRelease, TakeStart, TakeStop, TakeScopedStop, TakeDisable,
    TakeRecover, TakeControl, Takes
<1>3. CASE Job.kind \in ScopedKinds
  <2>1. TakeScopedStop
    BY <1>3 DEF Take, TakeClaim, TakeRelease, TakeStart, TakeStop, TakeDisable,
      TakeRecover, TakeControl, Takes, ScopedKinds
  <2>2. Job.n = session.s
    BY <1>3 DEF EndsIt, ScopedKinds
  <2> QED  BY <2>1, <2>2 DEF TakeScopedStop, CallStop, Scope, NoStop, Stopping, durableVars
<1>4. CASE Job.kind = "stop"
  <2>1. TakeStop
    BY <1>4 DEF Take, TakeClaim, TakeRelease, TakeStart, TakeScopedStop, TakeDisable,
      TakeRecover, TakeControl, Takes, ScopedKinds
  <2>2. Job.v = session.v /\ Job.n \in {0, session.s}
    BY <1>4 DEF EndsIt, ScopedKinds
  <2>3. loaded
    BY <1>4 DEF Remembered
  <2> QED
    BY <1>1, <2>1, <2>2, <2>3 DEF TakeStop, IsActiveOf, CallStop, NoStop, Stopping, durableVars
<1>5. CASE Job.kind = "recover"
  <2>1. TakeRecover
    BY <1>5 DEF Take, TakeClaim, TakeRelease, TakeStart, TakeStop, TakeScopedStop, TakeDisable,
      TakeControl, Takes, ScopedKinds
  <2>2. capturing # session.s
    BY <1>5 DEF EndsIt, ScopedKinds
  <2> QED
    BY <2>1, <2>2 DEF TakeRecover, Persisted, CallStop, NoStop, Stopping, durableVars
<1> QED  BY <1>2, <1>3, <1>4, <1>5

\* A task that is not running is taken next, or stays in the queue.
LEMMA QueuedStays ==
  ASSUME IInv, Next, ~Crash, NEW i \in DOMAIN queue, i = 1 => pc = "idle"
  PROVE  \/ i = 1 /\ Take
         \/ \E j \in DOMAIN queue' : queue'[j] = queue[i] /\ (j = 1 => pc' = "idle")
<1> USE Types DEF IInv
<1>1. CASE i = 1 /\ Worker
  BY <1>1 DEF Worker, Continue, ForceStop, Claimed, Updating, StartSession, Prepare,
    SetTitle, Measure, Connect, HostStart, Started, StartLost, StartReply, Stop, NotifyHost,
    RestoreFrame, RestoreTitle, Drop, Unclaim, Finish, Reattach, Consent, ForceAnswered
<1>2. CASE (i # 1 \/ Outside) /\ Popped
  <2>1. i # 1
    <3>1. queue # <<>>
      BY <1>2 DEF Popped
    <3> QED  BY <1>2, <3>1, JobStays
  <2>2. /\ Len(queue) \in Nat \ {0} /\ DOMAIN queue = 1..Len(queue)
        /\ DOMAIN queue' = 1..(Len(queue) - 1)
        /\ \A k \in DOMAIN queue' : queue'[k] = queue[k + 1]
    BY <1>2, PoppedItems
  <2>3. i - 1 \in DOMAIN queue' /\ (i - 1) + 1 = i
    BY <2>1, <2>2
  <2>4. queue'[i - 1] = queue[(i - 1) + 1]
    BY <2>2, <2>3
  <2> QED  BY <1>2, <2>3, <2>4 DEF Popped
<1>3. CASE (i # 1 \/ Outside) /\ ~Popped
  <2>1. Same \/ \E s : Added(s)
    BY <1>3, QueueStep DEF Running, Starting, Parting
  <2>2. ASSUME NEW s, Added(s)
        PROVE  i \in DOMAIN queue' /\ queue'[i] = queue[i]
    BY <2>2, AddedItems
  <2>3. i \in DOMAIN queue' /\ queue'[i] = queue[i]
    BY <2>1, <2>2 DEF Same
  <2>4. i = 1 => pc' = "idle"
    BY <1>3 DEF Outside
  <2> QED  BY <2>3, <2>4
<1> QED  BY <1>1, <1>2, <1>3, OutsideStep DEF Worker

LEMMA TaskDooms ==
  ASSUME IInv, Remembered, Next, ~Crash, session # NoSession, session' # NoSession,
         NEW i \in DOMAIN queue, Dooming(i)
  PROVE  Doomed'
<1> USE Types DEF IInv
<1>1. session'.s = session.s /\ session'.v = session.v /\ pc # "start"
  BY SameRecord
<1>2. EndsIt(queue[i])
  BY DEF Dooming
<1>3. PICK t : t = queue[i]
  OBVIOUS
<1>4. EndsIt(t)'
  <2>1. t.kind = "recover" /\ capturing # session.s /\ pc \notin StartPcs =>
          capturing' # session'.s /\ pc' \notin StartPcs
    <3>1. pc \notin StartPcs => pc' \notin StartPcs
      BY <1>1, StartPcsStep
    <3>2. pc \notin StartPcs => capturing' \in {capturing, 0}
      BY CapturingStep DEF StartPcs
    <3>3. session.s # 0
      BY SameRecord
    <3> QED  BY <1>1, <3>1, <3>2, <3>3
  <2> QED  BY <1>1, <1>2, <1>3, <2>1 DEF EndsIt
<1>5. ASSUME NEW j \in DOMAIN queue', queue'[j] = t, j = 1 => pc' = "idle"
      PROVE  Doomed'
  <2>1. EndsIt(queue[j])'
    BY <1>4, <1>5 DEF EndsIt
  <2>2. Dooming(j)'
    BY <1>5, <2>1 DEF Dooming
  <2> QED  BY <2>2 DEF Doomed
<1>6. CASE i = 1 /\ Take
  <2>1. queue # <<>> /\ Job = t
    BY <1>3, <1>6, JobType
  <2>2. Stopping'
    BY <1>2, <1>3, <1>6, <2>1, TakenDooms
  <2> QED  BY <2>2 DEF Doomed
<1> QED  BY <1>3, <1>5, <1>6, QueuedStays DEF Dooming

LEMMA StoppingDooms ==
  ASSUME IInv, Next, ~Crash, session # NoSession, session' # NoSession, Stopping
  PROVE  Doomed'
<1> USE Types DEF IInv
<1>1. session'.s = session.s /\ session.s # 0
  BY SameRecord
<1>2. CASE Outside
  <2>1. Stopping'
    BY <1>1, <1>2 DEF Outside, Stopping
  <2> QED  BY <2>1 DEF Doomed
<1>3. CASE Worker
  <2>1. ~Take
    BY DEF Stopping, DropPcs, Take, TakeClaim, TakeRelease, TakeStart, TakeStop, TakeScopedStop,
      TakeDisable, TakeRecover, TakeControl, Takes
  <2>2. Stop \/ NotifyHost \/ RestoreFrame \/ RestoreTitle \/ Drop \/ Reattach
    BY <1>3, <2>1 DEF Stopping, DropPcs, Worker, Continue, ForceStop, Claimed, Updating,
      StartSession, Prepare, SetTitle, Measure, Connect, HostStart, Started, StartLost, StartReply,
      Unclaim, Finish, Consent, ForceAnswered
  <2>3. CASE Stop
    BY <2>3 DEF Stop, Stopping, DropPcs, Doomed
  <2>4. CASE NotifyHost \/ RestoreFrame \/ RestoreTitle
    BY <2>4 DEF NotifyHost, AfterNotify, RestoreFrame, RestoreTitle, Stopping, DropPcs, Doomed
  <2>5. CASE Drop
    BY <2>5 DEF Drop, Cleared
  <2>6. CASE Reattach
    BY <2>6 DEF Reattach, CallStop, NoStop, Stopping, DropPcs, Doomed
  <2> QED  BY <2>2, <2>3, <2>4, <2>5, <2>6
<1> QED  BY <1>2, <1>3, OutsideStep DEF Worker

\* Whatever will end the session is not lost before the session is gone.
LEMMA DoomedStep ==
  ASSUME IInv, Listening, Remembered, Next, session # NoSession, session' # NoSession, Doomed
  PROVE  Doomed'
<1> USE Types DEF IInv
<1>1. CASE Crash
  BY <1>1, CrashDooms
<1>2. ASSUME ~Crash, NEW e \in routing, e.s = session.s
      PROVE  Doomed'
  <2>1. CASE session' = session
    BY <1>2, <2>1, RouteDooms
  <2>2. CASE session' # session
    <3>1. session'.s = session.s
      BY SameRecord
    <3>2. ~RouteStop
      BY <2>2 DEF RouteStop, durableVars
    <3>3. e \in routing'
      BY <1>2, <3>2, RoutingStep
    <3> QED  BY <1>2, <3>1, <3>3 DEF Doomed
  <2> QED  BY <2>1, <2>2
<1>3. ASSUME ~Crash, NEW r \in Request, Late(r), req[r].stop
      PROVE  Doomed'
  <2>1. CASE Untouched(r)
    <3>1. Late(r)' /\ req'[r].stop
      <4>1. session'.s = session.s /\ session'.v = session.v
        BY SameRecord
      <4> QED  BY <1>3, <2>1, <4>1 DEF Untouched, Late
    <3> QED  BY <3>1 DEF Doomed
  <2>2. CASE GotReply(r)
    BY <1>3, <2>2, ReplyDooms
  <2>3. CASE Leave(req[r].v)
    BY <1>3, <2>3, LeaveDooms DEF Late
  <2> QED  BY <1>3, <2>1, <2>2, <2>3, RequestKeeps DEF Late
<1> QED  BY <1>1, <1>2, <1>3, TaskDooms, StoppingDooms DEF Doomed

-----------------------------------------------------------------------------
(* Updates                                                                 *)

\* An enhancer waits for its update from the moment it sends it.
LEMMA UpdatingStep ==
  ASSUME IInv, Next, ~Crash, NEW v \in Video, phase'[v] = "updating", answer'[v] = "none"
  PROVE  UpdateNative(v) \/ (phase[v] = "updating" /\ answer[v] = "none")
<1> USE Types DEF IInv
<1>s. /\ phase \in [Video -> {"off", "claiming", "page", "asking", "native", "updating"}]
      /\ answer \in [Video -> {"none", "ok", "no"}] /\ present \subseteq Video
      /\ \A n \in notes : n.v \in Video
  BY DEF ScriptOK, PageOK
<1>1. CASE UNCHANGED <<phase, answer>>
  BY <1>1
<1>2. CASE /\ phase' = phase
           /\ \/ \E outcome \in {"ok", "no"} : answer' = AnswerClaim(Job.v, outcome)
              \/ answer' = AnswerUpdate(Job)
  <2>1. \/ answer' = answer
        \/ \E w \in Video, outcome \in {"ok", "no"} : answer' = [answer EXCEPT ![w] = outcome]
    BY <1>2, <1>s DEF AnswerClaim, AnswerUpdate
  <2> QED  BY <1>2, <1>s, <2>1
<1>3. ASSUME NEW w \in Video, NEW p \in {"off", "claiming", "page", "asking", "native"},
             phase' = [phase EXCEPT ![w] = p],
             answer' = answer \/ answer' = [answer EXCEPT ![w] = "none"]
      PROVE  phase[v] = "updating" /\ answer[v] = "none"
  BY <1>3, <1>s
<1>4. CASE ForceStop
  BY <1>1, <1>3, <1>4, <1>s DEF ForceStop
<1>5. ASSUME NEW w \in Video,
             \/ Begin(w) \/ GotClaim(w) \/ Ask(w) \/ StopEnhancement(w) \/ Leave(w)
             \/ GotUpdate(w)
      PROVE  phase[v] = "updating" /\ answer[v] = "none"
  <2>1. /\ \E p \in {"off", "claiming", "page", "asking", "native"} : phase' = [phase EXCEPT ![w] = p]
        /\ answer' = answer \/ answer' = [answer EXCEPT ![w] = "none"]
    BY <1>5 DEF Begin, GotClaim, Ask, StopEnhancement, Leave, GotUpdate
  <2> QED  BY <1>3, <2>1
<1>6. ASSUME NEW w \in Video, w # v, UpdateNative(w)
      PROVE  phase[v] = "updating" /\ answer[v] = "none"
  <2>1. /\ phase' = [phase EXCEPT ![w] = "updating"]
        /\ answer' = answer \/ answer' = [answer EXCEPT ![w] = "no"]
    BY <1>6 DEF UpdateNative
  <2> QED  BY <1>6, <1>s, <2>1
<1>7. ASSUME NEW r \in Request, Admit(r) \/ GotReply(r)
      PROVE  phase[v] = "updating" /\ answer[v] = "none"
  <2>1. /\ answer' = answer
        /\ phase' = phase \/ \E p \in {"native", "off"} : phase' = [phase EXCEPT ![req[r].v] = p]
    BY <1>7 DEF Admit, GotReply
  <2>2. phase'[v] \in {phase[v], "native", "off"}
    BY <1>s, <2>1
  <2> QED  BY <2>1, <2>2
<1>8. ASSUME NEW n \in notes, GotNote(n)
      PROVE  phase[v] = "updating" /\ answer[v] = "none"
  BY <1>1, <1>3, <1>8, <1>s DEF GotNote
<1> QED  BY <1>1, <1>2, <1>4, <1>5, <1>6, <1>7, <1>8, ScriptStep

LEMMA UpdatesStep ==
  ASSUME IInv, Listening, Updates, Next
  PROVE  Updates'
<1> USE Types DEF IInv
<1> SUFFICES ASSUME NEW v \in Video, phase'[v] = "updating", answer'[v] = "none"
             PROVE  \E i \in DOMAIN queue' : Sought(i, v)'
  BY DEF Updates
<1>1. CASE Crash
  BY <1>1 DEF Crash
<1>2. CASE UpdateNative(v)
  <2>1. queue' = Append(queue, Task("update", v, sid[v])) /\ pc' = pc
    BY <1>2 DEF UpdateNative, ScriptOK
  <2>2. sid[v] \in Session \cup {0}
    BY DEF ScriptOK
  <2>3. PICK t \in Tasks : t = Task("update", v, sid[v]) /\ t.kind = "update" /\ t.v = v
    BY <2>2, TaskType DEF Kinds
  <2>4. Added(<<t>>) /\ DOMAIN <<t>> = {1} /\ <<t>>[1] = t
    BY <2>1, <2>3, TaskAdded
  <2> DEFINE s == <<t>>
  <2>5. Added(s) /\ 1 \in DOMAIN s /\ s[1] = t
    BY <2>4
  <2> HIDE DEF s
  <2>6. PICK i \in DOMAIN queue' : queue'[i] = t /\ (i = 1 => queue = <<>>)
    BY <2>5, Joined
  <2>7. i = 1 => pc' = "idle"
    BY <2>1, <2>6 DEF Running
  <2> QED  BY <2>3, <2>6, <2>7 DEF Sought
<1>3. CASE phase[v] = "updating" /\ answer[v] = "none" /\ ~Crash
  <2>1. PICK i \in DOMAIN queue : Sought(i, v)
    BY <1>3 DEF Updates
  <2>2. ASSUME NEW j \in DOMAIN queue', queue'[j] = queue[i], j = 1 => pc' = "idle"
        PROVE  Sought(j, v)'
    BY <2>1, <2>2 DEF Sought
  <2>3. CASE i = 1 /\ Take
    <3>1. queue # <<>> /\ Job = queue[1] /\ Job.kind = "update" /\ Job.v = v
      BY <2>1, <2>3, JobType DEF Sought
    <3>2. TakeControl
      BY <2>3, <3>1 DEF Take, TakeClaim, TakeRelease, TakeStart, TakeStop, TakeScopedStop,
        TakeDisable, TakeRecover, Takes, ScopedKinds
    <3>3. answer' = AnswerUpdate(Job) /\ Popped
      BY <3>1, <3>2 DEF TakeControl, Done, Popped
    <3>4. v \in present
      BY <1>3 DEF Listening
    <3>5. Waiting("update", v)
      BY <1>3, <3>1, <3>3, <3>4 DEF AnswerUpdate, ScriptOK
    <3>6. PICK k \in 2..Len(queue) : queue[k].kind = "update" /\ queue[k].v = v
      BY <3>5 DEF Waiting
    <3>7. /\ Len(queue) \in Nat \ {0} /\ DOMAIN queue' = 1..(Len(queue) - 1)
          /\ \A j \in DOMAIN queue' : queue'[j] = queue[j + 1]
      BY <3>3, PoppedItems
    <3>8. k - 1 \in DOMAIN queue' /\ (k - 1) + 1 = k
      BY <3>7
    <3>9. queue'[k - 1] = queue[(k - 1) + 1]
      BY <3>7, <3>8
    <3> QED  BY <3>3, <3>6, <3>8, <3>9 DEF Popped, Sought
  <2> QED  BY <1>3, <2>1, <2>2, <2>3, QueuedStays DEF Sought
<1> QED  BY <1>1, <1>2, <1>3, UpdatingStep

-----------------------------------------------------------------------------
(* A session that is owned                                                 *)

\* An enhancer that follows the session goes on, sends a stop for it, or lets go
\* of it.
LEMMA NativeStep ==
  ASSUME IInv, Listening, Remembered, Forced, Notified, Next, session # NoSession,
         session' = session, sid[session.v] = session.s
  PROVE  Follows' \/ Doomed' \/ session.s \in forsaken'
<1> USE Types DEF IInv
<1>1. session \in Records /\ session.v \in Video /\ session.s # 0
  BY DEF RecordOK, Records, Session, Request
<1>2. PICK v \in Video : v = session.v
  BY <1>1
<1>s. sid \in [Video -> Session \cup {0}] /\ present \subseteq Video
  BY DEF ScriptOK, PageOK
<1>3. sid[v] = session.s /\ sid[v] # 0
  BY <1>1, <1>2
<1>4. ASSUME sid'[v] = sid[v]
      PROVE  Follows'
  BY <1>2, <1>3, <1>4 DEF Follows
<1>5. CASE ForceStop
  <2>1. claim # v
    BY <1>2, <1>5 DEF ForceStop, Forced, Forcing
  <2>2. sid' = sid \/ sid' = [sid EXCEPT ![claim] = 0]
    BY <1>5 DEF ForceStop
  <2> QED  BY <1>4, <1>s, <2>1, <2>2
<1>6. CASE StopEnhancement(v) /\ NeedsNativeStop(v)
  <2>1. queue' = queue \o Goodbye(v) /\ pc' = pc
    BY <1>6 DEF StopEnhancement
  <2>2. PICK k \in DOMAIN Goodbye(v) : Goodbye(v)[k] = Task("stop", v, sid[v])
    BY <1>6, GoodbyeItems
  <2>3. PICK s : s = Goodbye(v)
    OBVIOUS
  <2>4. Added(s)
    BY <2>1, <2>3, GoodbyeItems DEF Added
  <2>5. k \in DOMAIN s /\ s[k].kind = "stop" /\ s[k].v = session.v /\ s[k].n = session.s
    BY <1>2, <1>3, <2>2, <2>3 DEF Task
  <2>6. EndsIt(s[k])'
    BY <2>5 DEF EndsIt
  <2> QED  BY <2>1, <2>4, <2>5, <2>6, JoinDooms
<1>7. CASE StopEnhancement(v) /\ ~NeedsNativeStop(v)
  <2>1. sid[v] \in Forsaken(v)
    BY <1>3, <1>7 DEF Forsaken
  <2> QED  BY <1>3, <1>7, <2>1 DEF StopEnhancement
<1>8. ASSUME NEW w \in Video, w # v, StopEnhancement(w)
      PROVE  Follows'
  BY <1>4, <1>8, <1>s DEF StopEnhancement
<1>9. CASE Leave(v)
  BY <1>2, <1>9, LeaveDooms
<1>10. ASSUME NEW w \in Video, w # v, Leave(w)
       PROVE  Follows'
  BY <1>4, <1>10, <1>s DEF Leave
<1>11. ASSUME NEW r \in Request, GotReply(r)
       PROVE  Follows' \/ session.s \in forsaken'
  <2>1. PICK w \in Video : w = req[r].v
    BY <1>11, <1>s DEF GotReply, Listening
  <2>2. \/ sid' = sid
        \/ /\ sid' = [sid EXCEPT ![w] = req[r].s]
           /\ forsaken' = (forsaken \cup ({sid[w]} \ {0})) \ {req[r].s}
        \/ /\ sid' = [sid EXCEPT ![w] = 0]
           /\ forsaken' = forsaken \cup ({sid[w]} \ {0})
    BY <1>11, <2>1 DEF GotReply
  <2>3. CASE w # v \/ sid' = sid
    BY <1>4, <1>s, <2>2, <2>3
  <2>4. CASE w = v /\ req[r].s = session.s /\ sid' = [sid EXCEPT ![w] = req[r].s]
    BY <1>3, <1>4, <1>s, <2>4
  <2>5. CASE /\ w = v /\ req[r].s # session.s
             /\ forsaken' = (forsaken \cup ({sid[w]} \ {0})) \ {req[r].s}
    BY <1>3, <2>5
  <2>6. CASE w = v /\ forsaken' = forsaken \cup ({sid[w]} \ {0})
    BY <1>3, <2>6
  <2> QED  BY <2>2, <2>3, <2>4, <2>5, <2>6
<1>12. ASSUME NEW n \in notes, GotNote(n)
       PROVE  Follows' \/ Doomed'
  <2>1. CASE n.v = v /\ n.s = session.s
    <3>1. Doomed
      BY <2>1 DEF Notified
    <3> QED  BY <3>1, DoomedStep
  <2>2. CASE ~(n.v = v /\ n.s = session.s)
    <3>1. sid' = sid \/ (n.v # v /\ sid' = [sid EXCEPT ![n.v] = 0])
      BY <1>3, <1>12, <2>2 DEF GotNote
    <3> QED  BY <1>4, <1>s, <3>1
  <2> QED  BY <2>1, <2>2
<1>13. CASE UNCHANGED sid
  BY <1>4, <1>13
<1>14. /\ \A w \in Video : Begin(w) \/ GotClaim(w) \/ Ask(w) \/ UpdateNative(w) \/ GotUpdate(w)
                            => UNCHANGED sid
       /\ \A r \in Request : Admit(r) => UNCHANGED sid
       /\ Crash => UNCHANGED sid
  BY DEF Begin, GotClaim, Ask, UpdateNative, GotUpdate, Admit, Crash
<1> QED
  BY <1>5, <1>6, <1>7, <1>8, <1>9, <1>10, <1>11, <1>12, <1>13, <1>14, ScriptStep

LEMMA FollowsStep ==
  ASSUME IInv, Listening, Remembered, Forced, Notified, Next, session # NoSession,
         session' = session, Follows
  PROVE  Follows' \/ Doomed' \/ session.s \in forsaken'
<1> USE Types DEF IInv
<1>1. ASSUME NEW r \in Request, Late(r), ~req[r].stop
      PROVE  Follows' \/ Doomed'
  <2>1. CASE Untouched(r)
    <3>1. Late(r)'
      BY <1>1, <2>1 DEF Untouched, Late
    <3> QED  BY <3>1 DEF Follows, Doomed
  <2>2. CASE GotReply(r)
    <3>1. sid' = [sid EXCEPT ![session.v] = session.s]
      BY <1>1, <2>2 DEF GotReply, Late
    <3>2. session.v \in Video
      BY DEF RecordOK, Records
    <3>3. PICK v \in Video, s \in {session.s} : v = session.v /\ s = session.s
      BY <3>2
    <3>4. sid'[v] = s
      BY <3>1, <3>3 DEF ScriptOK
    <3> QED  BY <3>3, <3>4 DEF Follows
  <2>3. CASE Leave(req[r].v)
    BY <1>1, <2>3, LeaveDooms DEF Late
  <2> QED  BY <1>1, <2>1, <2>2, <2>3, RequestKeeps DEF Late
<1> QED  BY <1>1, NativeStep DEF Follows

\* Only the answer to a request gives an enhancer back a session it let go of.
LEMMA ForsakenGrows ==
  ASSUME Next
  PROVE  forsaken \subseteq forsaken' \/ \E r \in Request : GotReply(r)
<1> USE DEF ghostVars
<1>1. CASE Take
  BY <1>1 DEF Take, TakeClaim, TakeRelease, TakeStart, TakeStop, TakeScopedStop, TakeDisable,
    TakeRecover, TakeControl
<1>2. CASE Continue \/ Consent \/ ForceAnswered
  BY <1>2
  DEF Continue, ForceStop, Claimed, Updating, StartSession, Prepare, SetTitle, Measure, Connect,
    HostStart, Started, StartLost, StartReply, Stop, NotifyHost, RestoreFrame, RestoreTitle, Drop,
    Unclaim, Finish, Reattach, Consent, ForceAnswered
<1>3. CASE \/ Crash \/ Startup \/ HostFault \/ HostExit \/ RouteStop
           \/ \E v \in Video : \/ Begin(v) \/ GotClaim(v) \/ Ask(v) \/ StopEnhancement(v)
                               \/ Leave(v) \/ Heartbeat(v) \/ UpdateNative(v) \/ GotUpdate(v)
                               \/ Reroute(v)
           \/ \E r \in Request : Admit(r)
           \/ \E n \in notes : GotNote(n)
           \/ Disable \/ SettingsUpdated \/ ClearActive \/ PushSettings
  BY <1>3
  DEF Crash, Startup, HostFault, HostExit, RouteStop, Begin, GotClaim, Ask, StopEnhancement, Leave,
    Heartbeat, UpdateNative, GotUpdate, Reroute, Admit, GotNote, Disable, SettingsUpdated,
    ClearActive, PushSettings
<1> QED  BY <1>1, <1>2, <1>3 DEF Next

\* A session that its enhancer has let go of stays so, or the enhancer follows it
\* again because a new request was answered with it.
LEMMA ForsakenStep ==
  ASSUME IInv, Listening, Granted, Next, session # NoSession, session' = session,
         session.s \in forsaken
  PROVE  Follows' \/ session.s \in forsaken'
<1> USE Types DEF IInv
<1>1. ASSUME NEW r \in Request, GotReply(r)
      PROVE  Follows' \/ session.s \in forsaken'
  <2>1. \/ forsaken \subseteq forsaken'
        \/ /\ req[r].st = "ok" /\ sid' = [sid EXCEPT ![req[r].v] = req[r].s]
           /\ forsaken \ {req[r].s} \subseteq forsaken'
    BY <1>1 DEF GotReply
  <2>2. CASE /\ req[r].st = "ok" /\ sid' = [sid EXCEPT ![req[r].v] = req[r].s]
             /\ req[r].s = session.s
    <3>1. req[r].v = session.v /\ session.v \in Video
      BY <2>2 DEF Granted, RecordOK, Records
    <3>2. PICK v \in Video, s \in {session.s} : v = session.v /\ s = session.s
      BY <3>1
    <3>3. sid' = [sid EXCEPT ![v] = s]
      BY <2>2, <3>1, <3>2
    <3>4. sid'[v] = s
      BY <3>3 DEF ScriptOK
    <3> QED  BY <3>2, <3>4 DEF Follows
  <2> QED  BY <2>1, <2>2
<1>2. forsaken \subseteq forsaken' \/ \E r \in Request : GotReply(r)
  BY ForsakenGrows
<1> QED  BY <1>1, <1>2

\* An active session leaves its phase only to be stopped.
LEMMA ActiveStep ==
  ASSUME IInv, Next, session # NoSession, session' # NoSession, session.phase = "active"
  PROVE  session' = session \/ Doomed'
<1> USE Types DEF IInv
<1>1. pc # "start" /\ pc # "started"
  BY SameRecord DEF Recorded, StartPcs
<1>2. pc' = "notify" => Doomed'
  BY DEF Doomed, Stopping, DropPcs
<1> QED  BY <1>1, <1>2, SessionStep

LEMMA OwnedStep ==
  ASSUME IInv, Listening, Remembered, Granted, Forced, Notified, Next,
         session # NoSession, session' # NoSession, Owned
  PROVE  Owned' \/ Doomed'
<1>1. CASE session' = session
  <2>1. Follows' \/ Doomed' \/ session.s \in forsaken'
    BY <1>1, FollowsStep, ForsakenStep DEF Owned
  <2>2. session'.phase = "active"
    BY <1>1 DEF Owned
  <2> QED  BY <1>1, <2>1, <2>2 DEF Owned
<1> QED  BY <1>1, ActiveStep DEF Owned

\* A page is gone only once its tab has left.
LEMMA PresentStep ==
  ASSUME TypeOK, Running, StartsQueued, Recorded, Next, NEW v \in present, v \notin present'
  PROVE  Leave(v)
<1>1. ASSUME NEW w \in Video, Leave(w)
      PROVE  Leave(v)
  <2>1. present' = present \ {w}
    BY <1>1 DEF Leave
  <2> QED  BY <1>1, <2>1
<1>2. present' = present \/ \E w \in Video : Leave(w)
  BY ScriptStep
  DEF ForceStop, Crash, Begin, GotClaim, Ask, StopEnhancement, UpdateNative, GotUpdate,
    Admit, GotReply, GotNote, pageVars
<1> QED  BY <1>1, <1>2

\* The request that a start answers was its video's: its enhancer will follow the
\* session, or has given the request up and will stop it.
LEMMA ReplyOwned ==
  ASSUME IInv, Served, StartsOwn, StartReply, pc = "reply", session.v \in present
  PROVE  Owned' \/ Doomed'
<1> USE Types DEF IInv
<1>1. Job.n \in Request /\ Job.kind = "start" /\ queue # <<>>
  BY JobStarts DEF StartPcs
<1>2. 1 \in DOMAIN queue /\ Job = queue[1]
  BY <1>1, JobType
<1>3. session.s = Job.n /\ session.phase = "active" /\ session.v = Job.v
  BY DEF Recorded, StartPcs, Served
<1>4. req[Job.n].v = session.v
  BY <1>1, <1>2, <1>3 DEF StartsOwn
<1>5. req' = Answered(Job.n, "ok", Job.n) /\ UNCHANGED session
  BY DEF StartReply, durableVars
<1>6. PICK r \in Request : r = Job.n
  BY <1>1
<1>7. /\ req'[r].st = "ok" /\ req'[r].s = session.s /\ req'[r].v = session.v
  BY <1>3, <1>4, <1>5, <1>6, Answer DEF Session
<1>8. Late(r)'
  BY <1>5, <1>7 DEF Late
<1>9. Follows' \/ Doomed'
  BY <1>8 DEF Follows, Doomed
<1> QED  BY <1>3, <1>5, <1>9 DEF Owned

\* While a start runs its session goes on, is stopped, or is handed over.
LEMMA StartingStep ==
  ASSUME IInv, Remembered, Served, StartsOwn, Next, session # NoSession,
         session' # NoSession, pc \in StartPcs, session.v \in present
  PROVE  Doomed' \/ Owned' \/ (pc' \in StartPcs /\ session'.v \in present')
<1> USE Types DEF IInv
<1>1. session'.v = session.v /\ session.v \in Video
  BY SameRecord
<1>2. CASE session.v \notin present'
  <2>1. Leave(session.v)
    BY <1>2, PresentStep
  <2> QED  BY <2>1, LeaveDooms
<1>3. CASE session.v \in present' /\ pc' \in StartPcs
  BY <1>1, <1>3
<1>4. CASE Crash
  BY <1>4, CrashDooms
<1>5. CASE Outside /\ session.v \in present'
  BY <1>1, <1>5 DEF Outside
<1>6. ASSUME Worker, pc' \notin StartPcs
      PROVE  Doomed' \/ Owned'
  <2>1. \/ Prepare \/ SetTitle \/ Measure \/ Connect \/ HostStart \/ Started \/ StartLost
        \/ StartReply
    BY <1>6
    DEF StartPcs, Worker, Take, TakeClaim, TakeRelease, TakeStart, TakeStop, TakeScopedStop,
      TakeDisable, TakeRecover, TakeControl, Takes, Continue, ForceStop, Claimed, Updating,
      StartSession, Stop, NotifyHost, RestoreFrame, RestoreTitle, Drop, Unclaim, Finish, Reattach,
      Consent, ForceAnswered
  <2>2. CASE StartReply
    BY <2>2, ReplyOwned DEF StartReply, StartPcs
  <2>3. CASE ~StartReply
    <3>1. StartFails
      BY <1>6, <2>1, <2>3
      DEF StartPcs, Prepare, SetTitle, Measure, Connect, HostStart, Started, StartLost
    <3>2. pc' = "stop" /\ stopping'.expect = 0
      BY <3>1 DEF StartFails, CallStop, NoStop
    <3> QED  BY <3>2 DEF Doomed, Stopping
  <2> QED  BY <2>2, <2>3
<1> QED  BY <1>2, <1>3, <1>4, <1>5, <1>6, OutsideStep DEF Worker

LEMMA AccountedStep ==
  ASSUME IInv, DisableOnce, OwnInv, Next
  PROVE  Accounted'
<1> USE Types DEF IInv, OwnInv
<1> SUFFICES ASSUME enabled', session' # NoSession
             PROVE  Doomed' \/ Owned' \/ (pc' \in StartPcs /\ session'.v \in present')
  BY DEF Accounted
<1>1. enabled
  BY SwitchOnce
<1>2. CASE session = NoSession
  <2>1. pc = "start" /\ pc' = "prepare" /\ session' = Preparing(Job)
    BY <1>2, SessionStep DEF Recorded, StartPcs, NoSession
  <2>2. StartSession
    BY <2>1, OutsideStep
    DEF Take, TakeClaim, TakeRelease, TakeStart, TakeStop, TakeScopedStop, TakeDisable,
      TakeRecover, TakeControl, Takes, Continue, ForceStop, Claimed, Updating, Prepare, SetTitle,
      Measure, Connect, HostStart, Started, StartLost, StartReply, Stop, NotifyHost, RestoreFrame,
      RestoreTitle, Drop, Unclaim, Finish, Reattach, Consent, ForceAnswered, Crash, Outside
  <2>3. Job.v \in present /\ present' = present
    BY <2>1, <2>2 DEF StartSession, Done, pageVars
  <2>4. session'.v = Job.v
    BY <2>1 DEF Preparing
  <2> QED  BY <2>1, <2>3, <2>4 DEF StartPcs
<1>3. CASE session # NoSession
  BY <1>1, <1>3, DoomedStep, OwnedStep, StartingStep DEF Accounted
<1> QED  BY <1>2, <1>3

\* An event is forwarded to a frame together with the stop it causes.
Told(n) == /\ n.s = session.s /\ session' = session /\ session.s # 0
           /\ \E e \in routing' : e.s = session.s
LEMMA ForwardTold ==
  ASSUME NEW kind, Forward(kind), session' = session, NEW n \in notes', n \notin notes
  PROVE  Told(n)
<1>1. ActiveSession.s # 0 /\ n = Scoped /\ routing' = routing \cup {[kind |-> kind, s |-> session.s]}
  BY DEF Forward
<1>2. session.s # 0
  BY <1>1 DEF ActiveSession, NoSession
<1>3. PICK e : e = [kind |-> kind, s |-> session.s]
  OBVIOUS
<1>4. e \in routing' /\ e.s = session.s
  BY <1>1, <1>3
<1> QED  BY <1>1, <1>2, <1>4 DEF Told, Scoped

LEMMA NotesStep ==
  ASSUME Next, NEW n \in notes', n \notin notes
  PROVE  Told(n)
<1> USE DEF enhVars, durableVars
<1>1. ASSUME NotReconfigured, session' = session
      PROVE  Told(n)
  BY <1>1, ForwardTold DEF NotReconfigured
<1>2. CASE TakeControl \/ Updating
  BY <1>1, <1>2 DEF TakeControl, Updating, Reconfigured
<1>3. CASE HostStart \/ NotifyHost \/ Reattach \/ HostFault
  BY <1>3, ForwardTold DEF HostStart, NotifyHost, Reattach, HostFault
<1>4. CASE \/ TakeClaim \/ TakeRelease \/ TakeStart \/ TakeStop \/ TakeScopedStop \/ TakeDisable
           \/ TakeRecover \/ ForceStop \/ Claimed \/ StartSession \/ Prepare \/ SetTitle \/ Measure
           \/ Connect \/ Started \/ StartLost \/ StartReply \/ Stop \/ RestoreFrame \/ RestoreTitle
           \/ Drop \/ Unclaim \/ Finish \/ Consent \/ ForceAnswered
  BY <1>4
  DEF TakeClaim, TakeRelease, TakeStart, TakeStop, TakeScopedStop, TakeDisable, TakeRecover,
    ForceStop, Claimed, StartSession, Prepare, SetTitle, Measure, Connect, Started, StartLost,
    StartReply, Stop, RestoreFrame, RestoreTitle, Drop, Unclaim, Finish, Consent, ForceAnswered
<1>5. CASE \/ Crash \/ Startup \/ HostExit \/ RouteStop
           \/ \E v \in Video : \/ Begin(v) \/ GotClaim(v) \/ Ask(v) \/ StopEnhancement(v)
                               \/ Leave(v) \/ Heartbeat(v) \/ UpdateNative(v) \/ GotUpdate(v)
                                 \/ Reroute(v)
           \/ \E r \in Request : Admit(r) \/ GotReply(r)
           \/ \E m \in notes : GotNote(m)
           \/ Disable \/ SettingsUpdated \/ ClearActive \/ PushSettings
  BY <1>5
  DEF Crash, Startup, HostExit, RouteStop, Begin, GotClaim, Ask, StopEnhancement,
    Leave, Heartbeat, UpdateNative, GotUpdate, Reroute, Admit, GotReply, GotNote, Disable,
    SettingsUpdated, ClearActive, PushSettings
<1> QED  BY <1>2, <1>3, <1>4, <1>5 DEF Next, Take, Continue

LEMMA NotifiedStep ==
  ASSUME IInv, Listening, Remembered, Notified, Next
  PROVE  Notified'
<1> USE Types DEF IInv
<1>1. begun \subseteq begun'
  BY BegunStep
<1>2. ASSUME NEW n \in notes', n \in notes
      PROVE  n.s \in begun' /\ (n.s = session'.s => Doomed')
  <2>1. n.s \in begun /\ (n.s = session.s => Doomed) /\ n.s # 0
    BY <1>2 DEF Notified, PageOK, Session, Request
  <2>2. CASE session' = NoSession
    BY <1>1, <2>1, <2>2 DEF NoSession
  <2>3. CASE session = NoSession /\ session' # NoSession
    <3>1. session'.s \notin begun
      BY <2>3, RecordFate DEF Records, NoSession, Session, Request
    <3> QED  BY <1>1, <2>1, <3>1
  <2>4. CASE session # NoSession /\ session' # NoSession
    <3>1. session'.s = session.s
      BY <2>4, SameRecord
    <3> QED  BY <1>1, <2>1, <2>4, <3>1, DoomedStep
  <2> QED  BY <2>2, <2>3, <2>4
<1>3. ASSUME NEW n \in notes', n \notin notes
      PROVE  n.s \in begun' /\ (n.s = session'.s => Doomed')
  <2>1. n.s = session.s /\ session' = session /\ session.s # 0
    BY <1>3, NotesStep DEF Told
  <2>2. PICK e \in routing' : e.s = session.s
    BY <1>3, NotesStep DEF Told
  <2>3. session.s \in begun
    BY <2>1 DEF Recorded, NoSession
  <2> QED  BY <1>1, <2>1, <2>2, <2>3 DEF Doomed
<1> QED  BY <1>2, <1>3 DEF Notified

LEMMA OwnInit ==
  ASSUME Init
  PROVE  OwnInv
<1> USE DEF Init
<1>1. DOMAIN queue = {}
  OBVIOUS
<1>2. \A r \in Request : req[r].st = "unused"
  BY DEF Unused
<1>3. Listening /\ Granted /\ Updates
  BY <1>2 DEF Listening, Granted, Updates, Pending
<1>4. Remembered /\ Served /\ Forced
  BY DEF Remembered, Served, Forced, Forcing, StopFor, StopPcs, DropPcs, StartPcs
<1>5. StartsOwn /\ Accounted /\ Notified
  BY <1>1 DEF StartsOwn, Accounted, Notified
<1> QED  BY <1>3, <1>4, <1>5 DEF OwnInv

LEMMA OwnStep ==
  ASSUME IInv, DisableOnce, OwnInv, [Next]_vars
  PROVE  OwnInv'
<1> USE DEF OwnInv
<1>1. CASE Next
  <2>1. Listening'
    BY <1>1, ListeningStep
  <2>2. Remembered' /\ Served' /\ Forced' /\ StartsOwn'
    BY <1>1, RememberedStep, ServedStep, ForcedStep, StartsOwnStep
  <2>3. Granted' /\ Updates'
    BY <1>1, GrantedStep, UpdatesStep
  <2>4. Accounted' /\ Notified'
    BY <1>1, AccountedStep, NotifiedStep
  <2> QED  BY <2>1, <2>2, <2>3, <2>4
<1>2. CASE UNCHANGED vars
  <2>1. /\ UNCHANGED <<queue, pc, stopping, loaded, routing, session, claim, enabled, present>>
        /\ UNCHANGED <<phase, sid, answer, ledger, req, notes, capturing, begun, forsaken>>
    BY <1>2 DEF vars, workerVars, memoryVars, durableVars, switchVars, pageVars, enhVars, ghostVars
  <2>2. Listening' /\ Granted' /\ Updates'
    BY <2>1 DEF Listening, Pending, Granted, Updates, Sought
  <2>3. Remembered' /\ Served' /\ Forced' /\ StartsOwn'
    BY <2>1 DEF Remembered, Served, Forced, Forcing, StopFor, StartsOwn, Job
  <2>4. Doomed' = Doomed /\ Owned' = Owned
    BY <2>1 DEF Doomed, Dooming, EndsIt, Stopping, Late, Owned, Follows
  <2>5. Accounted' /\ Notified'
    BY <2>1, <2>4 DEF Accounted, Notified
  <2> QED  BY <2>2, <2>3, <2>4, <2>5
<1> QED  BY <1>1, <1>2

\* When nothing is under way, a session on record is active, and an enhancer follows
\* it that can still stop it, unless it let go of the session itself during an
\* update: whatever the order in which claims, starts, their answers, stops and
\* events overtook each other, and whenever the worker died.
THEOREM OwnedCorrect == Spec => []SessionOwned
<1>1. Init => DisableOnce /\ OwnInv
  <2>1. Init => DOMAIN queue = {}
    BY DEF Init
  <2>2. Init => DisableOnce
    BY <2>1 DEF Init, DisableOnce, StopPcs, DropPcs
  <2> QED  BY <2>2, OwnInit
<1>2. IInv /\ DisableOnce /\ OwnInv /\ [Next]_vars => (DisableOnce /\ OwnInv)'
  BY DisableOnceStep, OwnStep
<1>3. OwnInv /\ DisabledEnds /\ IInv => SessionOwned
  <2> SUFFICES ASSUME OwnInv, DisabledEnds, IInv, Quiet, session # NoSession
               PROVE  /\ session.phase = "active"
                      /\ \/ session.s \in forsaken
                         \/ phase[session.v] = "native" /\ sid[session.v] = session.s
    BY DEF SessionOwned
  <2>1. enabled
    BY Types DEF DisabledEnds, IInv, RecordOK
  <2>2. ~Doomed
    <3>1. DOMAIN queue = {} /\ routing = {} /\ pc = "idle"
      BY DEF Quiet
    <3>2. \A r \in Request : ~Late(r)
      BY DEF Quiet, Late
    <3> QED  BY <3>1, <3>2 DEF Doomed, Stopping, DropPcs
  <2>3. Owned
    BY <2>1, <2>2 DEF OwnInv, Accounted, Quiet, StartPcs
  <2>4. session.v \in Video /\ session.s # 0
    BY Types DEF IInv, RecordOK, Records, Session, Request
  <2>5. session.phase = "active" /\ (sid[session.v] = session.s \/ session.s \in forsaken)
    BY <2>3 DEF Owned, Follows, Late, Quiet
  <2>6. ASSUME sid[session.v] = session.s
        PROVE  phase[session.v] = "native"
    <3>1. phase[session.v] \in {"native", "updating"}
      BY <2>4, <2>6 DEF OwnInv, Listening, Quiet
    <3>2. phase[session.v] # "updating"
      BY <2>4 DEF OwnInv, Updates, Quiet
    <3> QED  BY <3>1, <3>2
  <2> QED  BY <2>5, <2>6
<1> QED  BY <1>1, <1>2, <1>3, Invariant, DisabledCorrect, PTL DEF Spec
=============================================================================
