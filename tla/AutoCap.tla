------------------------------ MODULE AutoCap -------------------------------
(***************************************************************************)
(* The automatic cap of the inference height: the policy fed by the        *)
(* renderer's statistics, the queue in which its steps wait behind         *)
(* settings changes, the late refresh of the target size that bypasses     *)
(* that queue, and the cap the renderer really infers with.                *)
(*                                                                         *)
(* Time is counted in windows of statistics: one sample is one window.     *)
(***************************************************************************)
EXTENDS Integers, Sequences, FiniteSets

CONSTANTS
  UserCaps,   \* the caps the user may choose
  Cooldown,   \* windows between two steps (AUTO_CAP_DOWN_COOLDOWN_MS)
  UpWindow,   \* windows of headroom before a step up (AUTO_CAP_UP_WINDOW_MS)
  MaxChanges, \* bound: settings changes
  MaxRefresh, \* bound: refreshes of the target size
  MaxQueue    \* bound: operations waiting in the enhancer's lifecycle

REALESRGAN_CAP_LADDER == <<480, 432, 405, 360>>

Rungs == {REALESRGAN_CAP_LADDER[i] : i \in DOMAIN REALESRGAN_CAP_LADDER}

ASSUME AutoCapAssumption ==
  /\ UserCaps \subseteq Rungs
  /\ Cooldown \in Nat \ {0} /\ UpWindow \in Nat \ {0}
  /\ MaxChanges \in Nat /\ MaxRefresh \in Nat /\ MaxQueue \in Nat \ {0}

VARIABLES
  settings,   \* the user's cap the enhancer works with, and whether the mode is RealESRGAN
  policy,     \* the RealEsrganAutoCap, or Off
  queue,      \* operations waiting in the enhancer's lifecycle
  running,    \* the lifecycle operation that awaits the renderer, or Idle
  jobs,       \* configurations on the renderer's state chain, oldest first
  live,       \* the cap the renderer infers with: Other in another mode, Dead without one
  calm,       \* history: windows of headroom in a row, up to one more than UpWindow
  stepped,    \* history: windows since this policy's last step, up to Cooldown
  changes, refreshes, \* how many settings changes and refreshes have been made
  unaware,    \* history: a refresh, or a failed settings change, has come since the last commit
  takenBack   \* history: the settings are the previous ones of a failed change

vars == <<settings, policy, queue, running, jobs, live, calm, stepped, changes, refreshes,
          unaware, takenBack>>

-----------------------------------------------------------------------------
(* The policy (realesrgan-auto-cap.ts)                                     *)

None == 0    \* no override
Never == -1  \* no headroom is being measured

Off == [user |-> None, override |-> None, age |-> 0, headroom |-> Never]

\* A fresh policy may step at once; reset() cools down first.
NewPolicy(cap) == [user |-> cap, override |-> None, age |-> Cooldown, headroom |-> Never]
ResetPolicy(cap) == [user |-> cap, override |-> None, age |-> 0, headroom |-> Never]

EffectiveCap(p) ==
  IF p.override = None \/ p.override > p.user THEN p.user ELSE p.override

\* The neighbours of a cap on the ladder, None beyond its ends.
NextCapDown(cap) ==
  LET lower == {r \in Rungs : r < cap}
  IN  IF lower = {} THEN None ELSE CHOOSE r \in lower : \A s \in lower : s <= r

NextCapUp(cap) ==
  LET higher == {r \in Rungs : r > cap}
  IN  IF higher = {} THEN None ELSE CHOOSE r \in higher : \A s \in higher : r <= s

Capped(n, top) == IF n < top THEN n ELSE top

\* One window has passed since the last step and since headroom began.
Aged(p) ==
  [p EXCEPT !.age = Capped(p.age + 1, Cooldown),
            !.headroom = IF p.headroom = Never THEN Never ELSE Capped(p.headroom + 1, UpWindow)]

\* The policy after a window with the overload warning.
Overloaded(p) ==
  LET down == NextCapDown(EffectiveCap(p))
  IN  IF down = None \/ p.age < Cooldown THEN [p EXCEPT !.headroom = Never]
      ELSE [p EXCEPT !.headroom = Never, !.override = down, !.age = 0]

\* mutant: the headroom before an interruption still counts.
StrainedKeepsHeadroom(p) == p

\* The policy after a window without warning and without clear headroom.
Strained(p) == [p EXCEPT !.headroom = Never]

\* The policy after a window with clear headroom: only an override in force
\* measures it, and a full window of it, outside the cooldown, steps up.
Relaxed(p) ==
  LET since == IF p.headroom = Never THEN 0 ELSE p.headroom
      up    == NextCapUp(EffectiveCap(p))
  IN  IF p.override = None \/ EffectiveCap(p) >= p.user
        THEN [p EXCEPT !.headroom = Never]
      ELSE IF since < UpWindow \/ p.age < Cooldown
        THEN [p EXCEPT !.headroom = since]
      ELSE [p EXCEPT !.headroom = Never, !.age = 0,
                     !.override = IF up = None \/ up > p.user THEN None ELSE up]

\* onStats returned a cap: the policy has just stepped.
Stepped(before, after) == EffectiveCap(after) # EffectiveCap(before)

-----------------------------------------------------------------------------
(* The enhancer around it (enhancer-stats-consumer.ts)                     *)

Other == 0
Dead == -1

StepOp(cap) == [kind |-> "step", cap |-> cap, esrgan |-> TRUE]
SettingsOp(cap, esrgan) == [kind |-> "settings", cap |-> cap, esrgan |-> esrgan]
Idle == [kind |-> "idle", before |-> [cap |-> None, esrgan |-> FALSE]]

\* getEffectsForPreset: only the RealESRGAN effect has a cap.
EffectsCap(cap, esrgan) == IF esrgan THEN cap ELSE Other

Init ==
  /\ \E cap \in UserCaps : settings = [cap |-> cap, esrgan |-> TRUE] /\ live = cap
  /\ policy = Off
  /\ queue = <<>> /\ running = Idle /\ jobs = <<>>
  /\ calm = 0 /\ stepped = Cooldown
  /\ changes = 0 /\ refreshes = 0
  /\ unaware = FALSE /\ takenBack = FALSE

\* handleStats/feedAutoCap: a window of statistics.  The policy is created by
\* the first one, and a step goes to the end of the lifecycle queue.
Sample(verdict) ==
  LET known == IF policy = Off THEN NewPolicy(settings.cap) ELSE Aged(policy)
      after == CASE verdict = "overload" -> Overloaded(known)
                 [] verdict = "strained" -> Strained(known)
                 [] verdict = "headroom" -> Relaxed(known)
  IN  /\ settings.esrgan /\ live # Dead
      /\ Stepped(known, after) => Len(queue) < MaxQueue
      /\ policy' = after
      /\ queue' = IF Stepped(known, after) THEN Append(queue, StepOp(EffectiveCap(after)))
                  ELSE queue
      /\ calm' = IF verdict = "headroom" THEN Capped(calm + 1, UpWindow + 1) ELSE 0
      /\ stepped' = IF Stepped(known, after) THEN 0 ELSE Capped(stepped + 1, Cooldown)
      /\ UNCHANGED <<settings, running, jobs, live, changes, refreshes, unaware, takenBack>>

\* updateSettings: the new settings wait for their turn.
UpdateSettings ==
  /\ changes < MaxChanges /\ Len(queue) < MaxQueue
  /\ changes' = changes + 1
  /\ \E cap \in UserCaps, esrgan \in BOOLEAN : queue' = Append(queue, SettingsOp(cap, esrgan))
  /\ UNCHANGED <<settings, policy, running, jobs, live, calm, stepped, refreshes, unaware, takenBack>>

\* statsConsumer.applySettings: a settings change owns the cap again.
Retargeted(cap, esrgan) ==
  IF ~esrgan \/ policy = Off THEN Off ELSE ResetPolicy(cap)

\* applySettings: the policy is retargeted at once, and a live renderer is
\* asked for the new configuration.
ApplyCapSettings ==
  /\ running = Idle /\ queue # <<>> /\ Head(queue).kind = "settings"
  /\ queue' = Tail(queue)
  /\ LET op == Head(queue)
     IN  /\ settings' = [cap |-> op.cap, esrgan |-> op.esrgan]
         /\ policy' = Retargeted(op.cap, op.esrgan)
         /\ stepped' = IF policy' = Off THEN Cooldown ELSE stepped
         /\ takenBack' = FALSE
         /\ IF live = Dead THEN UNCHANGED <<running, jobs>>
            ELSE /\ running' = [kind |-> "settings", before |-> settings]
                 /\ jobs' = Append(jobs, [of |-> "settings", cap |-> EffectsCap(op.cap, op.esrgan)])
  /\ UNCHANGED <<live, calm, changes, refreshes, unaware>>

\* mutant: a step that waited behind a settings change is still committed.
CurrentAnyway(cap) == settings.esrgan /\ live # Dead /\ policy # Off

\* A step that is no longer the policy's cap is dropped when its turn comes.
StillCurrent(cap) ==
  settings.esrgan /\ live # Dead /\ policy # Off /\ EffectiveCap(policy) = cap

\* applyAutoCapStep, up to its call of the renderer.
ApplyAutoCapStep ==
  /\ running = Idle /\ queue # <<>> /\ Head(queue).kind = "step"
  /\ queue' = Tail(queue)
  /\ IF StillCurrent(Head(queue).cap)
     THEN /\ running' = [kind |-> "step", before |-> settings]
          /\ jobs' = Append(jobs, [of |-> "step", cap |-> Head(queue).cap])
     ELSE UNCHANGED <<running, jobs>>
  /\ UNCHANGED <<settings, policy, live, calm, stepped, changes, refreshes, unaware, takenBack>>

\* refreshAutoTarget: past the lifecycle queue, and with the settings' cap.
RefreshAutoTarget ==
  /\ refreshes < MaxRefresh /\ live # Dead
  /\ refreshes' = refreshes + 1
  /\ jobs' = Append(jobs, [of |-> "refresh", cap |-> EffectsCap(settings.cap, settings.esrgan)])
  /\ unaware' = TRUE
  /\ UNCHANGED <<settings, policy, queue, running, live, calm, stepped, changes, takenBack>>

\* The renderer has taken over the oldest configuration; the lifecycle
\* operation that asked for it ends.
Configured ==
  /\ jobs # <<>>
  /\ jobs' = Tail(jobs)
  /\ live' = Head(jobs).cap
  /\ running' = IF Head(jobs).of = running.kind THEN Idle ELSE running
  /\ unaware' = (Head(jobs).of = "refresh" \/ \E i \in DOMAIN Tail(jobs) : Tail(jobs)[i].of = "refresh")
  /\ UNCHANGED <<settings, policy, queue, calm, stepped, changes, refreshes, takenBack>>

\* reconfigureActiveRenderer failed: the renderer keeps its configuration and
\* the settings are taken back, but the policy stays retargeted.
SettingsFailed ==
  /\ jobs # <<>> /\ Head(jobs).of = "settings"
  /\ jobs' = Tail(jobs) /\ running' = Idle
  /\ settings' = running.before
  /\ unaware' = TRUE /\ takenBack' = TRUE
  /\ UNCHANGED <<policy, queue, live, calm, stepped, changes, refreshes>>

\* The renderer is released: by a step or refresh that failed, by an error of
\* its own, by a stop or a change of backend.  Pending configurations end
\* without effect; a settings change among them may end with an error.
Released ==
  /\ live # Dead
  /\ live' = Dead
  /\ policy' = Off
  /\ stepped' = Cooldown /\ calm' = 0
  /\ jobs' = <<>> /\ running' = Idle /\ unaware' = FALSE
  /\ \/ UNCHANGED <<settings, takenBack>>
     \/ running.kind = "settings" /\ settings' = running.before /\ takenBack' = TRUE
  /\ UNCHANGED <<queue, changes, refreshes>>

\* Enhancement starts again: a renderer with the effects of the settings.
Started ==
  /\ live = Dead /\ running = Idle
  /\ live' = EffectsCap(settings.cap, settings.esrgan)
  /\ UNCHANGED <<settings, policy, queue, running, jobs, calm, stepped, changes, refreshes, unaware, takenBack>>

Next ==
  \/ \E verdict \in {"overload", "strained", "headroom"} : Sample(verdict)
  \/ UpdateSettings \/ ApplyCapSettings \/ ApplyAutoCapStep \/ RefreshAutoTarget
  \/ Configured \/ SettingsFailed \/ Released \/ Started

Spec == Init /\ [][Next]_vars

-----------------------------------------------------------------------------
(* Properties                                                              *)

\* The operation that runs waits for exactly one configuration, and every
\* configuration but a refresh has its operation; the override is a rung.
TypeOK ==
  /\ settings.cap \in UserCaps /\ live \in Rungs \cup {Other, Dead}
  /\ policy.override \in Rungs \cup {None} /\ policy.headroom \in Never..UpWindow
  /\ Len(queue) <= MaxQueue /\ (live = Dead => jobs = <<>>)
  /\ LET asked == {i \in DOMAIN jobs : jobs[i].of # "refresh"}
     IN  IF running = Idle THEN asked = {}
         ELSE Cardinality(asked) = 1 /\ \A i \in asked : jobs[i].of = running.kind

\* Between operations the cap the renderer infers with is the policy's, or
\* the user's without a policy: no step is lost behind a settings change, a
\* newer step or a restart.  Only the late target refresh and a failed
\* settings change leave the policy with another cap than the renderer's.
PolicyTellsLive ==
  running = Idle /\ live \in Rungs /\ settings.esrgan /\ ~unaware
  /\ (\A i \in DOMAIN queue : queue[i].kind # "step")
    => live = IF policy = Off THEN settings.cap ELSE EffectiveCap(policy)

\* Between operations the renderer never infers with a higher cap than the
\* user chose, unless the settings are the leftovers of a failed change.
WithinChoice ==
  running = Idle /\ live \in Rungs /\ settings.esrgan /\ ~takenBack => live <= settings.cap

\* The cap does not flap: a policy steps at most once per cooldown, and
\* upwards only after an unbroken window of headroom.  (A policy lives until
\* the mode changes or the renderer is released; the next one may step at once.)
NoFlap ==
  [][ policy # Off /\ changes' = changes /\ Len(queue') > Len(queue) =>
        /\ stepped + 1 >= Cooldown
        /\ EffectiveCap(policy') > EffectiveCap(policy) => calm' > UpWindow ]_vars
=============================================================================
