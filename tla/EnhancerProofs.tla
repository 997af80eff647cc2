--------------------------- MODULE EnhancerProofs ---------------------------
(***************************************************************************)
(* The automatic cap does not flap and loses none of its steps, whatever   *)
(* the cooldown, the window of headroom, the caps the user may choose and  *)
(* the order in which settings changes, refreshes, failures and restarts   *)
(* meet its steps.                                                         *)
(*                                                                         *)
(* The enhancer that owns the cap: a stop holds, no renderer leaks, and at *)
(* rest the phase tells what the enhancer holds, for any number of         *)
(* operations that overlap and in whatever order the background answers.   *)
(***************************************************************************)
EXTENDS AutoCap, Enhancer, FiniteSetTheorems, SequenceTheorems, TLAPS

Caps == Rungs \cup {None}
CapChoices == [cap : Caps, esrgan : BOOLEAN]
Policies == [user : Caps, override : Caps, age : 0..Cooldown, headroom : Never..UpWindow]
Ops == [kind : {"step", "settings"}, cap : Caps, esrgan : BOOLEAN]

LEMMA Bounds == Cooldown \in Nat /\ Cooldown > 0 /\ UpWindow \in Nat /\ UpWindow > 0
  BY AutoCapAssumption

-----------------------------------------------------------------------------
(* The ladder                                                              *)

LEMMA Ladder == Rungs = {480, 432, 405, 360}
<1>1. DOMAIN REALESRGAN_CAP_LADDER = 1..4
  BY DEF REALESRGAN_CAP_LADDER
<1>2. Rungs = {REALESRGAN_CAP_LADDER[1], REALESRGAN_CAP_LADDER[2],
               REALESRGAN_CAP_LADDER[3], REALESRGAN_CAP_LADDER[4]}
  BY <1>1 DEF Rungs
<1> QED  BY <1>2 DEF REALESRGAN_CAP_LADDER

LEMMA CapsAreNumbers == \A c \in Caps : c \in Nat
  BY Ladder DEF Caps, None

LEMMA PolicyParts ==
  ASSUME NEW p \in Policies
  PROVE  /\ p.user \in Caps /\ p.override \in Caps
         /\ p.user \in Nat /\ p.override \in Nat /\ p.age \in 0..Cooldown
         /\ p.headroom \in Never..UpWindow
<1>1. /\ p.user \in Caps /\ p.override \in Caps
      /\ p.age \in 0..Cooldown /\ p.headroom \in Never..UpWindow
  BY DEF Policies
<1> QED  BY <1>1, CapsAreNumbers

\* The next rung down is a lower one, the next rung up a higher one.
LEMMA Neighbours ==
  ASSUME NEW c \in Caps
  PROVE  /\ NextCapDown(c) \in Caps /\ (NextCapDown(c) # None => NextCapDown(c) < c)
         /\ NextCapUp(c) \in Caps /\ (NextCapUp(c) # None => NextCapUp(c) > c)
<1> DEFINE lower == {r \in Rungs : r < c}
           higher == {r \in Rungs : r > c}
           d == CHOOSE r \in lower : \A s \in lower : s <= r
           u == CHOOSE r \in higher : \A s \in higher : r <= s
<1>1. c \in Nat
  BY CapsAreNumbers
<1>2. lower # {} => \E r \in lower : \A s \in lower : s <= r
  BY <1>1, Ladder
<1>3. higher # {} => \E r \in higher : \A s \in higher : r <= s
  BY <1>1, Ladder
<1>4. lower # {} => d \in lower
  BY <1>2
<1>5. higher # {} => u \in higher
  BY <1>3
<1>6. NextCapDown(c) = IF lower = {} THEN None ELSE d
  BY DEF NextCapDown
<1>7. NextCapUp(c) = IF higher = {} THEN None ELSE u
  BY DEF NextCapUp
<1> HIDE DEF d, u
<1> QED  BY <1>4, <1>5, <1>6, <1>7 DEF Caps

-----------------------------------------------------------------------------
(* The policy                                                              *)

LEMMA Effective ==
  ASSUME NEW p \in Policies
  PROVE  EffectiveCap(p) \in Caps /\ EffectiveCap(p) <= p.user
  BY PolicyParts DEF EffectiveCap, None

\* A window passes: the cap stays, the age and the headroom grow up to their limits.
LEMMA AgedPolicy ==
  ASSUME NEW p \in Policies
  PROVE  /\ Aged(p) \in Policies /\ EffectiveCap(Aged(p)) = EffectiveCap(p)
         /\ Aged(p).age = Capped(p.age + 1, Cooldown)
         /\ Aged(p).headroom =
              IF p.headroom = Never THEN Never ELSE Capped(p.headroom + 1, UpWindow)
<1> DEFINE a == Capped(p.age + 1, Cooldown)
           h == IF p.headroom = Never THEN Never ELSE Capped(p.headroom + 1, UpWindow)
<1>1. a \in 0..Cooldown /\ h \in Never..UpWindow
  BY Bounds DEF Capped, Policies, Never
<1>2. Aged(p) = [p EXCEPT !.age = a, !.headroom = h]
  BY DEF Aged
<1> HIDE DEF a, h
<1>3. /\ Aged(p) \in Policies /\ Aged(p).age = a /\ Aged(p).headroom = h
      /\ Aged(p).user = p.user /\ Aged(p).override = p.override
  BY <1>1, <1>2 DEF Policies
<1> QED  BY <1>3 DEF EffectiveCap, a, h

\* What a window may make of a policy: it keeps its age and its cap, or steps; it steps only
\* after the cooldown, and upwards only after a full window of headroom.
Judged(p, q, calmNow) ==
  /\ q \in Policies
  /\ q.age = p.age \/ (q.age = 0 /\ q # Off)
  /\ q.headroom = Never \/ (calmNow /\ p.headroom = Never /\ q.headroom = 0)
                        \/ (calmNow /\ q.headroom = p.headroom)
  /\ EffectiveCap(q) # EffectiveCap(p) => p.age >= Cooldown /\ q.age = 0 /\ q # Off
  /\ EffectiveCap(q) > EffectiveCap(p) => calmNow /\ p.headroom >= UpWindow

LEMMA OverloadedJudged ==
  ASSUME NEW p \in Policies
  PROVE  Judged(p, Overloaded(p), FALSE)
<1> DEFINE down == NextCapDown(EffectiveCap(p))
           same == [p EXCEPT !.headroom = Never]
           step == [p EXCEPT !.headroom = Never, !.override = down, !.age = 0]
<1>1. /\ EffectiveCap(p) \in Caps /\ EffectiveCap(p) <= p.user /\ down \in Caps
      /\ (down # None => down < EffectiveCap(p))
  BY Effective, Neighbours
<1>2. /\ same \in Policies /\ same.age = p.age /\ same.headroom = Never
      /\ same.user = p.user /\ same.override = p.override
  BY Bounds DEF Policies, Never
<1>3. EffectiveCap(same) = EffectiveCap(p)
  BY <1>2 DEF EffectiveCap
<1> HIDE DEF same
<1>4. Judged(p, same, FALSE)
  <2>1. EffectiveCap(p) \in Nat
    BY <1>1, CapsAreNumbers
  <2> QED  BY <1>2, <1>3, <2>1 DEF Judged
<1>5. CASE down = None \/ p.age < Cooldown
  BY <1>4, <1>5 DEF Overloaded, same
<1>6. CASE down # None /\ ~(p.age < Cooldown)
  <2> HIDE DEF down
  <2>1. /\ step \in Policies /\ step.age = 0 /\ step.headroom = Never
        /\ step.user = p.user /\ step.override = down
    <3>1. 0 \in 0..Cooldown /\ Never \in Never..UpWindow
      BY Bounds DEF Never
    <3> QED  BY <1>1, <3>1 DEF Policies
  <2> HIDE DEF step
  <2>2. p.user \in Nat /\ down \in Nat /\ EffectiveCap(p) \in Nat /\ p.age \in Nat
    BY <1>1, CapsAreNumbers, PolicyParts, Bounds
  <2>3. EffectiveCap(step) = down
    BY <1>1, <1>6, <2>1, <2>2 DEF EffectiveCap
  <2>4. step # Off
    BY <1>6, <2>1 DEF Off
  <2>5. Judged(p, step, FALSE)
    BY <1>1, <1>6, <2>1, <2>2, <2>3, <2>4, Bounds DEF Judged
  <2>6. Overloaded(p) = step
    BY <1>6 DEF Overloaded, down, step
  <2> QED  BY <2>5, <2>6
<1> QED  BY <1>5, <1>6

LEMMA StrainedJudged ==
  ASSUME NEW p \in Policies
  PROVE  Judged(p, Strained(p), FALSE)
<1> DEFINE same == [p EXCEPT !.headroom = Never]
<1>1. /\ same \in Policies /\ same.age = p.age /\ same.headroom = Never
      /\ same.user = p.user /\ same.override = p.override
  BY Bounds DEF Policies, Never
<1> HIDE DEF same
<1>2. EffectiveCap(same) = EffectiveCap(p) /\ EffectiveCap(p) \in Nat
  <2>1. EffectiveCap(p) \in Nat
    BY Effective, CapsAreNumbers
  <2> QED  BY <1>1, <2>1 DEF EffectiveCap
<1> QED  BY <1>1, <1>2 DEF Judged, Strained, same

LEMMA RelaxedJudged ==
  ASSUME NEW p \in Policies
  PROVE  Judged(p, Relaxed(p), TRUE)
<1> DEFINE since == IF p.headroom = Never THEN 0 ELSE p.headroom
           up == NextCapUp(EffectiveCap(p))
           to == IF up = None \/ up > p.user THEN None ELSE up
           same == [p EXCEPT !.headroom = Never]
           wait == [p EXCEPT !.headroom = since]
           step == [p EXCEPT !.headroom = Never, !.age = 0, !.override = to]
<1>1. /\ EffectiveCap(p) \in Caps /\ EffectiveCap(p) <= p.user /\ up \in Caps
      /\ (up # None => up > EffectiveCap(p))
  BY Effective, Neighbours
<1>2. p.user \in Nat /\ p.override \in Nat /\ EffectiveCap(p) \in Nat /\ p.age \in Nat /\ up \in Nat
  BY <1>1, CapsAreNumbers, PolicyParts, Bounds
<1>3. Judged(p, same, TRUE)
  <2>1. /\ same \in Policies /\ same.age = p.age /\ same.headroom = Never
        /\ same.user = p.user /\ same.override = p.override
    BY Bounds DEF Policies, Never
  <2> HIDE DEF same
  <2>2. EffectiveCap(same) = EffectiveCap(p)
    BY <2>1 DEF EffectiveCap
  <2> QED  BY <1>2, <2>1, <2>2 DEF Judged
<1>4. Judged(p, wait, TRUE)
  <2>1. since \in Never..UpWindow /\ ((since = 0 /\ p.headroom = Never) \/ since = p.headroom)
    BY Bounds DEF Policies, Never
  <2> HIDE DEF since
  <2>2. /\ wait \in Policies /\ wait.age = p.age /\ wait.headroom = since
        /\ wait.user = p.user /\ wait.override = p.override
    BY <2>1 DEF Policies
  <2> HIDE DEF wait
  <2>3. EffectiveCap(wait) = EffectiveCap(p)
    BY <2>2 DEF EffectiveCap
  <2> QED  BY <1>2, <2>1, <2>2, <2>3 DEF Judged
<1>5. ASSUME ~(p.override = None \/ EffectiveCap(p) >= p.user),
             ~(since < UpWindow \/ p.age < Cooldown)
      PROVE  Judged(p, step, TRUE)
  <2>1. p.headroom >= UpWindow /\ p.age >= Cooldown
    BY <1>2, <1>5, Bounds DEF Policies, Never
  <2>2. to \in Caps /\ to <= p.user /\ (to # None => to > EffectiveCap(p))
    BY <1>1, <1>2 DEF Caps, None
  <2> HIDE DEF to
  <2>3. /\ step \in Policies /\ step.age = 0 /\ step.headroom = Never
        /\ step.user = p.user /\ step.override = to
    <3>1. 0 \in 0..Cooldown /\ Never \in Never..UpWindow
      BY Bounds DEF Never
    <3> QED  BY <2>2, <3>1 DEF Policies
  <2> HIDE DEF step
  <2>4. p.user # 0
    BY <1>2, <1>5
  <2>5. step # Off
    BY <2>3, <2>4 DEF Off, None
  <2> QED  BY <2>1, <2>3, <2>5 DEF Judged
<1> QED
  BY <1>3, <1>4, <1>5 DEF Relaxed

-----------------------------------------------------------------------------
(* The inductive invariant                                                 *)

\* What the steps work on has its type.
Typed ==
  /\ settings \in CapChoices /\ running.before \in CapChoices
  /\ policy \in Policies
  /\ queue \in Seq(Ops)
  /\ stepped \in 0..Cooldown /\ calm \in 0..(UpWindow + 1)
  /\ changes \in Nat

\* The policy's clocks never run ahead of what has really passed.
Measured ==
  /\ policy = Off => stepped = Cooldown
  /\ policy.age <= stepped
  /\ policy.headroom # Never => policy.headroom < calm

CapInv == Typed /\ Measured

LEMMA FreshPolicies ==
  ASSUME NEW c \in Caps
  PROVE  NewPolicy(c) \in Policies /\ ResetPolicy(c) \in Policies /\ Off \in Policies
  BY Bounds DEF NewPolicy, ResetPolicy, Off, Policies, None, Never, Caps

\* A window of statistics, as the policy sees it.
LEMMA SampleFacts ==
  ASSUME CapInv, NEW verdict \in {"overload", "strained", "headroom"}, Sample(verdict)
  PROVE  \E known \in Policies :
           /\ Judged(known, policy', verdict = "headroom")
           /\ known = IF policy = Off THEN NewPolicy(settings.cap) ELSE Aged(policy)
           /\ EffectiveCap(policy') # EffectiveCap(known) =>
                queue' = Append(queue, StepOp(EffectiveCap(policy'))) /\ stepped' = 0
           /\ EffectiveCap(policy') = EffectiveCap(known) =>
                queue' = queue /\ stepped' = Capped(stepped + 1, Cooldown)
           /\ calm' = IF verdict = "headroom" THEN Capped(calm + 1, UpWindow + 1) ELSE 0
           /\ UNCHANGED <<settings, running, changes>>
<1> DEFINE known == IF policy = Off THEN NewPolicy(settings.cap) ELSE Aged(policy)
           after == CASE verdict = "overload" -> Overloaded(known)
                      [] verdict = "strained" -> Strained(known)
                      [] verdict = "headroom" -> Relaxed(known)
<1>1. known \in Policies
  <2>1. settings.cap \in Caps
    BY DEF CapInv, Typed, CapChoices
  <2> QED  BY <2>1, FreshPolicies, AgedPolicy DEF CapInv, Typed
<1>2. /\ policy' = after
      /\ queue' = IF Stepped(known, after) THEN Append(queue, StepOp(EffectiveCap(after))) ELSE queue
      /\ stepped' = IF Stepped(known, after) THEN 0 ELSE Capped(stepped + 1, Cooldown)
      /\ calm' = IF verdict = "headroom" THEN Capped(calm + 1, UpWindow + 1) ELSE 0
      /\ UNCHANGED <<settings, running, changes>>
  BY DEF Sample
<1>3. Judged(known, after, verdict = "headroom")
  <2> HIDE DEF known
  <2>1. CASE verdict = "overload"
    <3>1. after = Overloaded(known) /\ (verdict = "headroom") = FALSE
      BY <2>1
    <3> QED  BY <1>1, <3>1, OverloadedJudged
  <2>2. CASE verdict = "strained"
    <3>1. after = Strained(known) /\ (verdict = "headroom") = FALSE
      BY <2>2
    <3> QED  BY <1>1, <3>1, StrainedJudged
  <2>3. CASE verdict = "headroom"
    <3>1. after = Relaxed(known) /\ (verdict = "headroom") = TRUE
      BY <2>3
    <3> QED  BY <1>1, <3>1, RelaxedJudged
  <2> QED  BY <2>1, <2>2, <2>3
<1> HIDE DEF after
<1> QED  BY <1>1, <1>2, <1>3 DEF Stepped

LEMMA SampleKeeps ==
  ASSUME CapInv, NEW verdict \in {"overload", "strained", "headroom"}, Sample(verdict)
  PROVE  CapInv'
<1>1. PICK known \in Policies :
           /\ Judged(known, policy', verdict = "headroom")
           /\ known = IF policy = Off THEN NewPolicy(settings.cap) ELSE Aged(policy)
           /\ EffectiveCap(policy') # EffectiveCap(known) =>
                queue' = Append(queue, StepOp(EffectiveCap(policy'))) /\ stepped' = 0
           /\ EffectiveCap(policy') = EffectiveCap(known) =>
                queue' = queue /\ stepped' = Capped(stepped + 1, Cooldown)
           /\ calm' = IF verdict = "headroom" THEN Capped(calm + 1, UpWindow + 1) ELSE 0
           /\ UNCHANGED <<settings, running, changes>>
  BY SampleFacts
<1>2. /\ policy \in Policies /\ stepped \in 0..Cooldown /\ calm \in 0..(UpWindow + 1)
      /\ queue \in Seq(Ops)
  BY DEF CapInv, Typed
<1>3. policy' \in Policies
  BY <1>1 DEF Judged
<1>4. stepped' \in 0..Cooldown /\ calm' \in 0..(UpWindow + 1)
  BY <1>1, <1>2, Bounds DEF Capped
<1>5. queue' \in Seq(Ops)
  <2>1. CASE EffectiveCap(policy') # EffectiveCap(known)
    <3>1. EffectiveCap(policy') \in Caps
      BY <1>3, Effective
    <3>2. StepOp(EffectiveCap(policy')) \in Ops
      BY <3>1 DEF StepOp, Ops
    <3> QED  BY <1>1, <1>2, <2>1, <3>2
  <2> QED  BY <1>1, <1>2, <2>1
<1>6. Typed'
  BY <1>1, <1>3, <1>4, <1>5 DEF CapInv, Typed
<1>7. known.age <= Capped(stepped + 1, Cooldown)
  <2>1. CASE policy = Off
    BY <1>1, <2>1, Bounds DEF CapInv, Measured, Capped, Policies
  <2>2. CASE policy # Off
    <3>1. known.age = Capped(policy.age + 1, Cooldown)
      BY <1>1, <1>2, <2>2, AgedPolicy
    <3>2. policy.age <= stepped /\ policy.age \in Nat
      BY <1>2 DEF CapInv, Measured, Policies
    <3> QED  BY <1>2, <3>1, <3>2, Bounds DEF Capped
  <2> QED  BY <2>1, <2>2
<1>8. known.headroom # Never => known.headroom <= calm
  <2>1. CASE policy = Off
    BY <1>1, <2>1 DEF NewPolicy
  <2>2. CASE policy # Off
    <3>1. known.headroom = IF policy.headroom = Never THEN Never
                           ELSE Capped(policy.headroom + 1, UpWindow)
      BY <1>1, <1>2, <2>2, AgedPolicy
    <3>2. policy.headroom # Never => policy.headroom < calm
      BY DEF CapInv, Measured
    <3> QED  BY <1>2, <3>1, <3>2, Bounds DEF Capped, Policies, Never
  <2> QED  BY <2>1, <2>2
<1>9. Measured'
  <2>1. policy'.age <= stepped'
    BY <1>1, <1>3, <1>4, <1>7, Bounds DEF Judged, Policies
  <2>2. policy' = Off => stepped' = Cooldown
    <3>1. SUFFICES ASSUME policy' = Off PROVE stepped' = Cooldown
      OBVIOUS
    <3>2. known.age > 0
      <4>1. CASE policy = Off
        BY <1>1, <4>1, Bounds DEF NewPolicy
      <4>2. CASE policy # Off
        <5>1. known.age = Capped(policy.age + 1, Cooldown)
          BY <1>1, <1>2, <4>2, AgedPolicy
        <5> QED  BY <1>2, <5>1, PolicyParts, Bounds DEF Capped
      <4> QED  BY <4>1, <4>2
    <3>3. policy'.age = 0
      BY <3>1 DEF Off
    <3> QED  BY <1>1, <3>1, <3>2, <3>3 DEF Judged
  <2>3. policy'.headroom # Never => policy'.headroom < calm'
    BY <1>1, <1>2, <1>3, <1>8, Bounds DEF Judged, Policies, Capped, Never
  <2> QED  BY <2>1, <2>2, <2>3 DEF Measured
<1> QED  BY <1>6, <1>9 DEF CapInv


\* Every other step keeps the clocks, or starts them again.
LEMMA ApplyCapSettingsKeeps ==
  ASSUME CapInv, ApplyCapSettings
  PROVE  CapInv'
<1> DEFINE op == Head(queue)
<1>1. op \in Ops /\ queue' \in Seq(Ops)
  BY DEF CapInv, Typed, ApplyCapSettings
<1>2. op.cap \in Caps /\ op.esrgan \in BOOLEAN
  BY <1>1 DEF Ops
<1>3. /\ settings' = [cap |-> op.cap, esrgan |-> op.esrgan]
      /\ policy' = Retargeted(op.cap, op.esrgan)
      /\ stepped' = IF policy' = Off THEN Cooldown ELSE stepped
      /\ running' = running \/ running' = [kind |-> "settings", before |-> settings]
      /\ calm' = calm /\ changes' = changes
  BY DEF ApplyCapSettings
<1> HIDE DEF op
<1>4. settings' \in CapChoices
  BY <1>2, <1>3 DEF CapChoices
<1>5. running'.before \in CapChoices
  BY <1>3 DEF CapInv, Typed
<1>6. policy' = Off \/ policy' = ResetPolicy(op.cap)
  BY <1>3 DEF Retargeted
<1>7. policy' \in Policies /\ policy'.age = 0 /\ policy'.headroom = Never
  <2>1. Off.age = 0 /\ Off.headroom = Never
    BY DEF Off
  <2>2. ResetPolicy(op.cap).age = 0 /\ ResetPolicy(op.cap).headroom = Never
    BY DEF ResetPolicy
  <2> QED  BY <1>2, <1>6, <2>1, <2>2, FreshPolicies
<1>8. stepped' \in 0..Cooldown
  BY <1>3, Bounds DEF CapInv, Typed
<1>9. Typed'
  BY <1>1, <1>3, <1>4, <1>5, <1>7, <1>8 DEF CapInv, Typed
<1>10. Measured'
  BY <1>3, <1>7, <1>8, Bounds DEF Measured
<1> QED  BY <1>9, <1>10 DEF CapInv

LEMMA OthersKeep ==
  ASSUME CapInv,
         UpdateSettings \/ ApplyAutoCapStep \/ RefreshAutoTarget \/ Configured
           \/ SettingsFailed \/ Started
  PROVE  CapInv'
<1>1. UNCHANGED <<policy, calm, stepped>>
  BY DEF UpdateSettings, ApplyAutoCapStep, RefreshAutoTarget, Configured, SettingsFailed, Started
<1>2. queue' \in Seq(Ops)
  <2>1. CASE UpdateSettings
    <3>1. PICK cap \in UserCaps, esrgan \in BOOLEAN : queue' = Append(queue, SettingsOp(cap, esrgan))
      BY <2>1 DEF UpdateSettings
    <3>2. SettingsOp(cap, esrgan) \in Ops
      BY AutoCapAssumption DEF SettingsOp, Ops, Caps
    <3> QED  BY <3>1, <3>2 DEF CapInv, Typed
  <2>2. CASE ApplyAutoCapStep
    BY <2>2 DEF ApplyAutoCapStep, CapInv, Typed
  <2>3. CASE RefreshAutoTarget \/ Configured \/ SettingsFailed \/ Started
    BY <2>3 DEF RefreshAutoTarget, Configured, SettingsFailed, Started, CapInv, Typed
  <2> QED  BY <2>1, <2>2, <2>3
<1>3. settings' \in CapChoices
  BY DEF UpdateSettings, ApplyAutoCapStep, RefreshAutoTarget, Configured, SettingsFailed, Started,
         CapInv, Typed
<1>4. running'.before \in CapChoices
  <2>1. Idle.before \in CapChoices
    BY DEF Idle, CapChoices, Caps
  <2>2. running' = running \/ running' = Idle \/ running' = [kind |-> "step", before |-> settings]
    BY DEF UpdateSettings, ApplyAutoCapStep, RefreshAutoTarget, Configured, SettingsFailed, Started
  <2> QED  BY <2>1, <2>2 DEF CapInv, Typed
<1>5. changes' \in Nat
  BY DEF UpdateSettings, ApplyAutoCapStep, RefreshAutoTarget, Configured, SettingsFailed, Started,
         CapInv, Typed
<1>6. Typed'
  BY <1>1, <1>2, <1>3, <1>4, <1>5 DEF CapInv, Typed
<1>7. Measured'
  BY <1>1 DEF CapInv, Measured
<1> QED  BY <1>6, <1>7 DEF CapInv

LEMMA ReleasedKeeps ==
  ASSUME CapInv, Released
  PROVE  CapInv'
<1>1. /\ policy' = Off /\ stepped' = Cooldown /\ calm' = 0 /\ running' = Idle /\ queue' = queue
      /\ settings' = settings \/ settings' = running.before
      /\ changes' = changes
  BY DEF Released
<1>2. Idle.before \in CapChoices /\ Off \in Policies
  BY Bounds DEF Idle, CapChoices, Caps, Off, Policies, None, Never
<1>3. Typed'
  BY <1>1, <1>2, Bounds DEF CapInv, Typed
<1>4. Measured'
  BY <1>1, Bounds DEF Measured, Off
<1> QED  BY <1>3, <1>4 DEF CapInv

LEMMA InitCap == ASSUME Init PROVE CapInv
<1>1. PICK cap \in UserCaps : settings = [cap |-> cap, esrgan |-> TRUE]
  BY DEF Init
<1>2. settings \in CapChoices
  BY <1>1, AutoCapAssumption DEF CapChoices, Caps
<1>3. Idle.before \in CapChoices /\ Off \in Policies
  BY Bounds DEF Idle, CapChoices, Caps, Off, Policies, None, Never
<1>4. /\ policy = Off /\ queue = <<>> /\ running = Idle /\ calm = 0 /\ stepped = Cooldown
      /\ changes = 0
  BY DEF Init
<1>5. Typed
  BY <1>2, <1>3, <1>4, Bounds DEF Typed
<1>6. Measured
  BY <1>4, Bounds DEF Measured, Off
<1> QED  BY <1>5, <1>6 DEF CapInv

LEMMA CapStep == ASSUME CapInv, [Next]_vars PROVE CapInv'
<1>1. CASE \E verdict \in {"overload", "strained", "headroom"} : Sample(verdict)
  BY <1>1, SampleKeeps
<1>2. CASE ApplyCapSettings
  BY <1>2, ApplyCapSettingsKeeps
<1>3. CASE Released
  BY <1>3, ReleasedKeeps
<1>4. CASE UpdateSettings \/ ApplyAutoCapStep \/ RefreshAutoTarget \/ Configured
             \/ SettingsFailed \/ Started
  BY <1>4, OthersKeep
<1>5. CASE UNCHANGED vars
  BY <1>5 DEF vars, CapInv, Typed, Measured
<1> QED  BY <1>1, <1>2, <1>3, <1>4, <1>5 DEF Next

-----------------------------------------------------------------------------
(* The theorem                                                             *)

\* Only a sample makes the queue longer without a settings change.
LEMMA OnlySamplesAppend ==
  ASSUME CapInv, Next, changes' = changes, Len(queue') > Len(queue)
  PROVE  \E verdict \in {"overload", "strained", "headroom"} : Sample(verdict)
<1>1. ~UpdateSettings
  BY DEF UpdateSettings, CapInv, Typed
<1>2. ~(ApplyCapSettings \/ ApplyAutoCapStep)
  BY DEF ApplyCapSettings, ApplyAutoCapStep, CapInv, Typed
<1>3. ~(RefreshAutoTarget \/ Configured \/ SettingsFailed \/ Released \/ Started)
  BY DEF RefreshAutoTarget, Configured, SettingsFailed, Released, Started
<1> QED  BY <1>1, <1>2, <1>3 DEF Next

NoFlapStep ==
  policy # Off /\ changes' = changes /\ Len(queue') > Len(queue) =>
    /\ stepped + 1 >= Cooldown
    /\ EffectiveCap(policy') > EffectiveCap(policy) => calm' > UpWindow

LEMMA StepsAreFarApart == ASSUME CapInv, [Next]_vars PROVE NoFlapStep
<1> SUFFICES ASSUME policy # Off, changes' = changes, Len(queue') > Len(queue)
             PROVE  /\ stepped + 1 >= Cooldown
                    /\ EffectiveCap(policy') > EffectiveCap(policy) => calm' > UpWindow
  BY DEF NoFlapStep
<1>1. queue \in Seq(Ops) /\ policy \in Policies /\ stepped \in 0..Cooldown
      /\ calm \in 0..(UpWindow + 1)
  BY DEF CapInv, Typed
<1>2. Next
  BY <1>1 DEF vars
<1>3. PICK verdict \in {"overload", "strained", "headroom"} : Sample(verdict)
  BY <1>2, OnlySamplesAppend
<1>4. PICK known \in Policies :
           /\ Judged(known, policy', verdict = "headroom")
           /\ known = IF policy = Off THEN NewPolicy(settings.cap) ELSE Aged(policy)
           /\ EffectiveCap(policy') # EffectiveCap(known) =>
                queue' = Append(queue, StepOp(EffectiveCap(policy'))) /\ stepped' = 0
           /\ EffectiveCap(policy') = EffectiveCap(known) =>
                queue' = queue /\ stepped' = Capped(stepped + 1, Cooldown)
           /\ calm' = IF verdict = "headroom" THEN Capped(calm + 1, UpWindow + 1) ELSE 0
           /\ UNCHANGED <<settings, running, changes>>
  BY <1>3, SampleFacts
<1>5. /\ EffectiveCap(known) = EffectiveCap(policy)
      /\ known.age = Capped(policy.age + 1, Cooldown)
      /\ known.headroom = IF policy.headroom = Never THEN Never
                          ELSE Capped(policy.headroom + 1, UpWindow)
  BY <1>1, <1>4, AgedPolicy
<1>6. EffectiveCap(policy') # EffectiveCap(known)
  BY <1>1, <1>4
<1>7. known.age >= Cooldown /\ policy.age <= stepped
  BY <1>4, <1>6 DEF Judged, CapInv, Measured
<1>8. policy.age \in 0..Cooldown /\ policy.headroom \in Never..UpWindow
  BY <1>1, PolicyParts
<1>9. stepped + 1 >= Cooldown
  BY <1>1, <1>5, <1>7, <1>8, Bounds DEF Capped
<1>10. ASSUME EffectiveCap(policy') > EffectiveCap(policy) PROVE calm' > UpWindow
  <2>1. verdict = "headroom" /\ known.headroom >= UpWindow
    BY <1>4, <1>5, <1>10 DEF Judged
  <2>2. policy.headroom # Never /\ policy.headroom + 1 >= UpWindow
    BY <1>5, <1>8, <2>1, Bounds DEF Capped, Never
  <2>3. policy.headroom < calm
    BY <2>2 DEF CapInv, Measured
  <2> QED  BY <1>1, <1>4, <1>8, <2>1, <2>2, <2>3, Bounds DEF Capped, Never
<1> QED  BY <1>9, <1>10

\* The cap does not flap: a policy of the automatic cap (realesrgan-auto-cap.ts) steps at most
\* once per cooldown, and upwards only after an unbroken window of headroom.
THEOREM NoFlapCorrect == Spec => NoFlap
<1>1. Init => CapInv
  BY InitCap
<1>2. CapInv /\ [Next]_vars => CapInv'
  BY CapStep
<1>3. CapInv /\ [Next]_vars => NoFlapStep
  BY StepsAreFarApart
<1>4. [NoFlapStep]_vars <=>
        [policy # Off /\ changes' = changes /\ Len(queue') > Len(queue) =>
           /\ stepped + 1 >= Cooldown
           /\ EffectiveCap(policy') > EffectiveCap(policy) => calm' > UpWindow]_vars
  BY DEF NoFlapStep
<1>5. Spec => [][NoFlapStep]_vars
  BY <1>1, <1>2, <1>3, PTL DEF Spec
<1> QED  BY <1>4, <1>5, PTL DEF NoFlap

-----------------------------------------------------------------------------
(* The cap the renderer infers with                                        *)

Jobs == [of : {"settings", "step", "refresh"}, cap : Caps]

\* The configurations a lifecycle operation waits for.
Asked == {i \in 1..Len(jobs) : jobs[i].of # "refresh"}

\* The cap the renderer ends up with, and whether the settings or the policy chose it.
Latest == IF jobs = <<>> THEN live ELSE jobs[Len(jobs)].cap
Known == IF jobs = <<>> THEN ~unaware ELSE jobs[Len(jobs)].of # "refresh"

Target == IF policy = Off THEN settings.cap ELSE EffectiveCap(policy)
StepWaits ==
  /\ policy # Off
  /\ \E i \in 1..Len(queue) : queue[i].kind = "step" /\ queue[i].cap = EffectiveCap(policy)

\* A configuration is asked for by the one operation that runs, or by a refresh.
JobsInv ==
  /\ jobs \in Seq(Jobs) /\ running.kind # "refresh"
  /\ running = Idle => Asked = {}
  /\ \A i, j \in Asked : i = j
  /\ ~unaware => \A i \in 1..Len(jobs) : jobs[i].of # "refresh"
  /\ live = Dead => policy = Off /\ jobs = <<>> /\ running = Idle

\* The renderer ends up with the policy's cap, or the step towards it waits.
Agrees == Known /\ settings.esrgan /\ Latest \in Rungs => Latest = Target \/ StepWaits

TellInv == CapInv /\ JobsInv /\ Agrees

LEMMA LatestKept ==
  ASSUME UNCHANGED <<jobs, live, unaware>>
  PROVE  Latest' = Latest /\ Known' = Known /\ Asked' = Asked
  BY DEF Latest, Known, Asked

LEMMA LatestAppended ==
  ASSUME jobs \in Seq(Jobs), NEW j \in Jobs, jobs' = Append(jobs, j)
  PROVE  /\ jobs' \in Seq(Jobs) /\ Len(jobs') = Len(jobs) + 1 /\ Len(jobs) \in Nat
         /\ \A i \in 1..Len(jobs) : jobs'[i] = jobs[i]
         /\ jobs'[Len(jobs) + 1] = j
         /\ Latest' = j.cap /\ Known' = (j.of # "refresh")
<1>1. /\ jobs' \in Seq(Jobs) /\ Len(jobs') = Len(jobs) + 1 /\ Len(jobs) \in Nat
      /\ \A i \in 1..Len(jobs) : jobs'[i] = jobs[i]
      /\ jobs'[Len(jobs) + 1] = j
  OBVIOUS
<1>2. jobs' # <<>>
  BY <1>1
<1> QED  BY <1>1, <1>2 DEF Latest, Known

LEMMA LatestTail ==
  ASSUME jobs \in Seq(Jobs), jobs # <<>>, jobs' = Tail(jobs)
  PROVE  /\ jobs' \in Seq(Jobs) /\ Head(jobs) = jobs[1] /\ Head(jobs) \in Jobs
         /\ Len(jobs') \in Nat /\ Len(jobs) = Len(jobs') + 1
         /\ \A i \in 1..Len(jobs') : jobs'[i] = jobs[i + 1] /\ i + 1 \in 1..Len(jobs) /\ i + 1 # 1
         /\ jobs' = <<>> <=> Len(jobs') = 0
         /\ 1 \in 1..Len(jobs)
<1>1. Len(jobs) \in Nat /\ Len(jobs) > 0 /\ Head(jobs) = jobs[1] /\ Head(jobs) \in Jobs
  OBVIOUS
<1>2. jobs' \in Seq(Jobs) /\ Len(jobs') = Len(jobs) - 1
  BY HeadTailProperties
<1>3. \A i \in 1..Len(jobs') : jobs'[i] = jobs[i + 1]
  BY <1>2, HeadTailProperties
<1>4. jobs' = <<>> <=> Len(jobs') = 0
  BY <1>2, EmptySeq
<1> QED  BY <1>1, <1>2, <1>3, <1>4

\* The tail holds only refreshes when the head is what an operation waits for.
LEMMA OnlyOneAsked ==
  ASSUME JobsInv, jobs # <<>>, jobs' = Tail(jobs)
  PROVE  /\ Asked = {} \/ Head(jobs).of # "refresh" => Asked' = {}
         /\ \A i, j \in Asked' : i = j
<1>1. jobs \in Seq(Jobs) /\ \A i, j \in Asked : i = j
  BY DEF JobsInv
<1>2. \A i \in Asked' : i \in Nat /\ i + 1 \in Asked /\ i + 1 # 1
  BY <1>1, LatestTail DEF Asked
<1>3. Head(jobs).of # "refresh" => 1 \in Asked
  BY <1>1, LatestTail DEF Asked
<1>4. ASSUME Head(jobs).of # "refresh", NEW i \in Asked'
      PROVE  FALSE
  <2>1. 1 \in Asked /\ i + 1 \in Asked /\ i + 1 # 1
    BY <1>2, <1>3, <1>4
  <2> QED  BY <1>1, <2>1
<1>5. \A i, j \in Asked' : i = j
  <2> TAKE i, j \in Asked'
  <2>1. i \in Nat /\ j \in Nat /\ i + 1 \in Asked /\ j + 1 \in Asked
    BY <1>2
  <2>2. i + 1 = j + 1
    BY <1>1, <2>1
  <2> QED  BY <2>1, <2>2
<1> QED  BY <1>2, <1>4, <1>5

\* A window of statistics: a policy that steps queues the step.
LEMMA SampleTells ==
  ASSUME TellInv, NEW verdict \in {"overload", "strained", "headroom"}, Sample(verdict)
  PROVE  JobsInv' /\ Agrees'
<1>1. CapInv /\ JobsInv /\ Agrees
  BY DEF TellInv
<1>2. PICK known \in Policies :
           /\ Judged(known, policy', verdict = "headroom")
           /\ known = IF policy = Off THEN NewPolicy(settings.cap) ELSE Aged(policy)
           /\ EffectiveCap(policy') # EffectiveCap(known) =>
                queue' = Append(queue, StepOp(EffectiveCap(policy'))) /\ stepped' = 0
           /\ EffectiveCap(policy') = EffectiveCap(known) =>
                queue' = queue /\ stepped' = Capped(stepped + 1, Cooldown)
           /\ calm' = IF verdict = "headroom" THEN Capped(calm + 1, UpWindow + 1) ELSE 0
           /\ UNCHANGED <<settings, running, changes>>
  BY <1>1, SampleFacts
<1>3. policy \in Policies /\ queue \in Seq(Ops)
  BY <1>1 DEF CapInv, Typed
<1>4. UNCHANGED <<jobs, live, unaware, settings, running>> /\ live # Dead
  BY DEF Sample
<1>5. policy' # Off
  <2>1. SUFFICES ASSUME policy' = Off PROVE FALSE
    OBVIOUS
  <2>2. known.age > 0
    <3>1. CASE policy = Off
      BY <1>2, <3>1, Bounds DEF NewPolicy
    <3>2. CASE policy # Off
      <4>1. known.age = Capped(policy.age + 1, Cooldown)
        BY <1>2, <1>3, <3>2, AgedPolicy
      <4> QED  BY <1>3, <4>1, PolicyParts, Bounds DEF Capped
    <3> QED  BY <3>1, <3>2
  <2>3. policy'.age = 0
    BY <2>1 DEF Off
  <2> QED  BY <1>2, <2>1, <2>2, <2>3 DEF Judged
<1>6. EffectiveCap(known) = Target
  <2>1. CASE policy = Off
    BY <1>2, <2>1 DEF Target, NewPolicy, EffectiveCap
  <2>2. CASE policy # Off
    BY <1>2, <1>3, <2>2, AgedPolicy DEF Target
  <2> QED  BY <2>1, <2>2
<1>7. JobsInv'
  BY <1>1, <1>4, LatestKept DEF JobsInv
<1>8. CASE EffectiveCap(policy') = Target
  <2>1. Target' = Target
    BY <1>5, <1>8 DEF Target
  <2>2. queue' = queue
    BY <1>2, <1>6, <1>8
  <2>3. StepWaits => StepWaits'
    BY <1>5, <1>8, <2>2 DEF StepWaits, Target
  <2> QED  BY <1>1, <1>4, <1>7, <2>1, <2>3, LatestKept DEF Agrees
<1>9. CASE EffectiveCap(policy') # Target
  <2>1. queue' = Append(queue, StepOp(EffectiveCap(policy')))
    BY <1>2, <1>6, <1>9
  <2> DEFINE n == Len(queue) + 1
  <2>2. n \in 1..Len(queue') /\ queue'[n] = StepOp(EffectiveCap(policy'))
    BY <1>3, <2>1
  <2>3. StepWaits'
    BY <1>5, <2>2 DEF StepWaits, StepOp
  <2> QED  BY <1>7, <2>3 DEF Agrees
<1> QED  BY <1>8, <1>9

LEMMA ApplySettingsTells ==
  ASSUME TellInv, ApplyCapSettings
  PROVE  JobsInv' /\ Agrees'
<1>1. CapInv /\ JobsInv /\ Agrees
  BY DEF TellInv
<1>2. PICK op \in Ops : op = Head(queue)
  BY <1>1 DEF ApplyCapSettings, CapInv, Typed
<1>3. /\ running = Idle
      /\ settings' = [cap |-> op.cap, esrgan |-> op.esrgan]
      /\ policy' = Retargeted(op.cap, op.esrgan)
      /\ UNCHANGED <<live, unaware>>
      /\ IF live = Dead THEN UNCHANGED <<running, jobs>>
         ELSE /\ running' = [kind |-> "settings", before |-> settings]
              /\ jobs' = Append(jobs, [of |-> "settings", cap |-> EffectsCap(op.cap, op.esrgan)])
  BY <1>2 DEF ApplyCapSettings
<1>4. policy = Off => policy' = Off
  BY <1>3 DEF Retargeted
<1>5. CASE live = Dead
  <2>1. jobs = <<>> /\ UNCHANGED <<running, jobs>> /\ policy = Off
    BY <1>1, <1>3, <1>5 DEF JobsInv
  <2>2. JobsInv'
    BY <1>1, <1>3, <1>4, <2>1, LatestKept DEF JobsInv
  <2>3. Latest' = Dead /\ Dead \notin Rungs
    BY <1>3, <1>5, <2>1, Ladder DEF Latest, Dead
  <2> QED  BY <2>2, <2>3 DEF Agrees
<1>6. CASE live # Dead
  <2> DEFINE j == [of |-> "settings", cap |-> EffectsCap(op.cap, op.esrgan)]
  <2>1. jobs' = Append(jobs, j) /\ running'.kind = "settings" /\ jobs \in Seq(Jobs)
    BY <1>1, <1>3, <1>6 DEF JobsInv
  <2>2. j \in Jobs /\ j.of = "settings" /\ j.cap = EffectsCap(op.cap, op.esrgan)
    BY DEF Jobs, Ops, EffectsCap, Other, Caps, None
  <2> HIDE DEF j
  <2>3. /\ jobs' \in Seq(Jobs) /\ Len(jobs') = Len(jobs) + 1 /\ Len(jobs) \in Nat
        /\ \A i \in 1..Len(jobs) : jobs'[i] = jobs[i]
        /\ jobs'[Len(jobs) + 1] = j
        /\ Latest' = j.cap
    BY <2>1, <2>2, LatestAppended
  <2>4. Asked = {}
    BY <1>1, <1>3 DEF JobsInv
  <2>5. Asked' \subseteq {Len(jobs) + 1}
    BY <2>3, <2>4 DEF Asked
  <2>6. ~unaware' => \A i \in 1..Len(jobs') : jobs'[i].of # "refresh"
    BY <1>1, <1>3, <2>2, <2>3 DEF JobsInv
  <2>7. running' # Idle /\ running'.kind # "refresh"
    BY <2>1 DEF Idle
  <2>8. JobsInv'
    BY <1>3, <1>6, <2>3, <2>5, <2>6, <2>7 DEF JobsInv
  <2>9. settings'.esrgan => Latest' = Target'
    <3>1. SUFFICES ASSUME op.esrgan PROVE op.cap = Target'
      BY <1>3, <2>2, <2>3 DEF EffectsCap
    <3>2. CASE policy' = Off
      BY <1>3, <3>2 DEF Target
    <3>3. CASE policy' # Off
      <4>1. policy' = ResetPolicy(op.cap)
        BY <1>3, <3>3 DEF Retargeted
      <4> QED  BY <3>3, <4>1 DEF Target, ResetPolicy, EffectiveCap
    <3> QED  BY <3>2, <3>3
  <2> QED  BY <2>8, <2>9 DEF Agrees
<1> QED  BY <1>5, <1>6

LEMMA ApplyStepTells ==
  ASSUME TellInv, ApplyAutoCapStep
  PROVE  JobsInv' /\ Agrees'
<1>1. CapInv /\ JobsInv /\ Agrees
  BY DEF TellInv
<1>2. queue \in Seq(Ops) /\ queue # <<>> /\ queue' = Tail(queue)
  BY <1>1 DEF ApplyAutoCapStep, CapInv, Typed
<1>3. PICK op \in Ops : op = Head(queue)
  BY <1>2
<1>4. /\ running = Idle /\ op.kind = "step" /\ op.cap \in Caps
      /\ UNCHANGED <<settings, policy, live, unaware>>
      /\ IF StillCurrent(op.cap)
         THEN /\ running' = [kind |-> "step", before |-> settings]
              /\ jobs' = Append(jobs, [of |-> "step", cap |-> op.cap])
         ELSE UNCHANGED <<running, jobs>>
  BY <1>3 DEF ApplyAutoCapStep, Ops
<1>5. CASE StillCurrent(op.cap)
  <2> DEFINE j == [of |-> "step", cap |-> op.cap]
  <2>1. jobs' = Append(jobs, j) /\ running'.kind = "step" /\ jobs \in Seq(Jobs)
    BY <1>1, <1>4, <1>5 DEF JobsInv
  <2>2. j \in Jobs /\ j.of = "step" /\ j.cap = op.cap
    BY <1>4 DEF Jobs
  <2> HIDE DEF j
  <2>3. /\ jobs' \in Seq(Jobs) /\ Len(jobs') = Len(jobs) + 1 /\ Len(jobs) \in Nat
        /\ \A i \in 1..Len(jobs) : jobs'[i] = jobs[i]
        /\ jobs'[Len(jobs) + 1] = j
        /\ Latest' = j.cap
    BY <2>1, <2>2, LatestAppended
  <2>4. Asked' \subseteq {Len(jobs) + 1}
    BY <1>1, <1>4, <2>3 DEF Asked, JobsInv
  <2>5. ~unaware' => \A i \in 1..Len(jobs') : jobs'[i].of # "refresh"
    BY <1>1, <1>4, <2>2, <2>3 DEF JobsInv
  <2>6. running' # Idle /\ running'.kind # "refresh" /\ live' # Dead
    BY <1>4, <1>5, <2>1 DEF Idle, StillCurrent
  <2>7. JobsInv'
    BY <2>3, <2>4, <2>5, <2>6 DEF JobsInv
  <2>8. Latest' = Target'
    BY <1>4, <1>5, <2>2, <2>3 DEF StillCurrent, Target
  <2> QED  BY <2>7, <2>8 DEF Agrees
<1>6. CASE ~StillCurrent(op.cap)
  <2>1. UNCHANGED <<running, jobs>>
    BY <1>4, <1>6
  <2>2. JobsInv'
    BY <1>1, <1>4, <2>1, LatestKept DEF JobsInv
  <2>3. Target' = Target
    BY <1>4 DEF Target
  <2>4. ASSUME StepWaits, settings.esrgan
        PROVE  StepWaits'
    <3>1. PICK i \in 1..Len(queue) : queue[i].kind = "step" /\ queue[i].cap = EffectiveCap(policy)
      BY <2>4 DEF StepWaits
    <3>2. policy # Off /\ live # Dead
      BY <1>1, <2>4 DEF StepWaits, JobsInv
    <3>3. queue[1] = op
      BY <1>2, <1>3
    <3>4. i # 1
      BY <1>6, <2>4, <3>1, <3>2, <3>3 DEF StillCurrent
    <3>5. Len(queue) \in Nat /\ Len(queue') = Len(queue) - 1
      BY <1>2
    <3>6. i - 1 \in 1..Len(queue') /\ queue'[i - 1] = queue[i]
      BY <1>2, <3>1, <3>4, <3>5, HeadTailProperties
    <3> QED  BY <1>4, <3>1, <3>2, <3>6 DEF StepWaits
  <2> QED  BY <1>1, <1>4, <2>1, <2>2, <2>3, <2>4, LatestKept DEF Agrees
<1> QED  BY <1>5, <1>6

LEMMA ConfiguredTells ==
  ASSUME TellInv, Configured
  PROVE  JobsInv' /\ Agrees'
<1>1. CapInv /\ JobsInv /\ Agrees /\ jobs \in Seq(Jobs)
  BY DEF TellInv, JobsInv
<1>2. /\ jobs # <<>> /\ jobs' = Tail(jobs) /\ live' = Head(jobs).cap
      /\ running' = IF Head(jobs).of = running.kind THEN Idle ELSE running
      /\ UNCHANGED <<settings, policy, queue>>
  BY DEF Configured
<1>3. unaware' = (Head(jobs).of = "refresh" \/ \E i \in 1..Len(jobs') : jobs'[i].of = "refresh")
  <2>1. DOMAIN Tail(jobs) = 1..Len(jobs')
    BY <1>1, <1>2, HeadTailProperties
  <2> QED  BY <1>2, <2>1 DEF Configured
<1>4. /\ jobs' \in Seq(Jobs) /\ Head(jobs) = jobs[1] /\ Head(jobs) \in Jobs
      /\ Len(jobs') \in Nat /\ Len(jobs) = Len(jobs') + 1
      /\ \A i \in 1..Len(jobs') : jobs'[i] = jobs[i + 1] /\ i + 1 \in 1..Len(jobs) /\ i + 1 # 1
      /\ jobs' = <<>> <=> Len(jobs') = 0
  BY <1>1, <1>2, LatestTail
<1>5. live' # Dead
  BY <1>2, <1>4, CapsAreNumbers DEF Jobs, Dead
<1>6. running' = Idle => Asked' = {}
  <2>1. CASE Head(jobs).of = running.kind
    BY <1>1, <1>2, <2>1, OnlyOneAsked DEF JobsInv
  <2>2. CASE Head(jobs).of # running.kind
    BY <1>1, <1>2, <2>2, OnlyOneAsked DEF JobsInv
  <2> QED  BY <2>1, <2>2
<1>7. running'.kind # "refresh"
  BY <1>1, <1>2 DEF JobsInv, Idle
<1>8. \A i, j \in Asked' : i = j
  BY <1>1, <1>2, OnlyOneAsked
<1>9. JobsInv'
  BY <1>3, <1>4, <1>5, <1>6, <1>7, <1>8 DEF JobsInv
<1>10. Target' = Target /\ StepWaits' = StepWaits
  BY <1>2 DEF Target, StepWaits
<1>11. Latest' = Latest
  <2>1. CASE jobs' = <<>>
    BY <1>2, <1>4, <2>1 DEF Latest
  <2>2. CASE jobs' # <<>>
    <3>1. Len(jobs') \in 1..Len(jobs')
      BY <1>4, <2>2
    <3> QED  BY <1>2, <1>4, <2>2, <3>1 DEF Latest
  <2> QED  BY <2>1, <2>2
<1>12. Known' => Known
  <2>1. CASE jobs' = <<>>
    <3>1. ~unaware' => Head(jobs).of # "refresh"
      BY <1>3
    <3>2. Known' = ~unaware'
      BY <2>1 DEF Known
    <3>3. Known = (Head(jobs).of # "refresh")
      BY <1>2, <1>4, <2>1 DEF Known
    <3> QED  BY <3>1, <3>2, <3>3
  <2>2. CASE jobs' # <<>>
    <3>1. Len(jobs') \in 1..Len(jobs')
      BY <1>4, <2>2
    <3> QED  BY <1>2, <1>4, <2>2, <3>1 DEF Known
  <2> QED  BY <2>1, <2>2
<1> QED  BY <1>1, <1>2, <1>9, <1>10, <1>11, <1>12 DEF Agrees

\* The other steps leave nothing to agree on, or keep it.
LEMMA OthersTell ==
  ASSUME TellInv, UpdateSettings \/ RefreshAutoTarget \/ SettingsFailed \/ Released \/ Started
  PROVE  JobsInv' /\ Agrees'
<1>1. CapInv /\ JobsInv /\ Agrees /\ jobs \in Seq(Jobs) /\ settings \in CapChoices /\ queue \in Seq(Ops)
  BY DEF TellInv, JobsInv, CapInv, Typed
<1>2. CASE UpdateSettings
  <2>1. UNCHANGED <<settings, policy, running, jobs, live, unaware>>
    BY <1>2 DEF UpdateSettings
  <2>2. PICK op \in Ops : queue' = Append(queue, op)
    <3>1. \A cap \in UserCaps, esrgan \in BOOLEAN : SettingsOp(cap, esrgan) \in Ops
      BY AutoCapAssumption DEF SettingsOp, Ops, Caps
    <3> QED  BY <1>2, <3>1 DEF UpdateSettings
  <2>3. Len(queue) \in Nat /\ Len(queue') = Len(queue) + 1 /\ \A i \in 1..Len(queue) : queue'[i] = queue[i]
    BY <1>1, <2>2
  <2>4. Target' = Target /\ (StepWaits => StepWaits')
    BY <2>1, <2>3 DEF Target, StepWaits
  <2>5. JobsInv'
    BY <1>1, <2>1, LatestKept DEF JobsInv
  <2> QED  BY <1>1, <2>1, <2>4, <2>5, LatestKept DEF Agrees
<1>3. CASE RefreshAutoTarget
  <2> DEFINE j == [of |-> "refresh", cap |-> EffectsCap(settings.cap, settings.esrgan)]
  <2>1. /\ jobs' = Append(jobs, j) /\ unaware' = TRUE /\ live # Dead
        /\ UNCHANGED <<policy, running, live>>
    BY <1>3 DEF RefreshAutoTarget
  <2>2. j \in Jobs /\ j.of = "refresh"
    BY <1>1 DEF Jobs, CapChoices, EffectsCap, Other, Caps, None
  <2> HIDE DEF j
  <2>3. /\ jobs' \in Seq(Jobs) /\ Len(jobs') = Len(jobs) + 1 /\ Len(jobs) \in Nat
        /\ \A i \in 1..Len(jobs) : jobs'[i] = jobs[i]
        /\ jobs'[Len(jobs) + 1] = j
        /\ Known' = (j.of # "refresh")
    BY <1>1, <2>1, <2>2, LatestAppended
  <2>4. Asked' = Asked
    BY <2>2, <2>3 DEF Asked
  <2>5. JobsInv'
    BY <1>1, <2>1, <2>3, <2>4 DEF JobsInv
  <2> QED  BY <2>2, <2>3, <2>5 DEF Agrees
<1>4. CASE SettingsFailed
  <2>1. /\ jobs # <<>> /\ Head(jobs).of = "settings" /\ jobs' = Tail(jobs)
        /\ running' = Idle /\ unaware' = TRUE /\ UNCHANGED <<policy, live>>
    BY <1>4 DEF SettingsFailed
  <2>2. jobs' \in Seq(Jobs) /\ Asked' = {} /\ live' # Dead
    BY <1>1, <2>1, LatestTail, OnlyOneAsked DEF JobsInv
  <2>3. Len(jobs') \in Nat /\ (jobs' = <<>> <=> Len(jobs') = 0)
    BY <1>1, <2>1, LatestTail
  <2>4. JobsInv'
    BY <2>1, <2>2 DEF JobsInv, Idle
  <2>5. ~Known'
    BY <2>1, <2>2, <2>3 DEF Known, Asked
  <2> QED  BY <2>4, <2>5 DEF Agrees
<1>5. CASE Released
  <2>1. live' = Dead /\ policy' = Off /\ jobs' = <<>> /\ running' = Idle
    BY <1>5 DEF Released
  <2>2. JobsInv'
    BY <2>1 DEF JobsInv, Idle, Asked
  <2>3. Latest' = Dead /\ Dead \notin Rungs
    BY <2>1, Ladder DEF Latest, Dead
  <2> QED  BY <2>2, <2>3 DEF Agrees
<1>6. CASE Started
  <2>1. /\ live' = EffectsCap(settings.cap, settings.esrgan) /\ live = Dead
        /\ UNCHANGED <<settings, policy, queue, running, jobs, unaware>>
    BY <1>6 DEF Started
  <2>2. policy = Off /\ jobs = <<>>
    BY <1>1, <2>1 DEF JobsInv
  <2>3. live' # Dead
    BY <1>1, <2>1, CapsAreNumbers DEF EffectsCap, CapChoices, Dead, Other
  <2>4. JobsInv'
    BY <1>1, <2>1, <2>3 DEF JobsInv, Asked
  <2>5. settings'.esrgan => Latest' = Target'
    BY <2>1, <2>2 DEF Latest, Target, EffectsCap
  <2> QED  BY <2>4, <2>5 DEF Agrees
<1> QED  BY <1>2, <1>3, <1>4, <1>5, <1>6

LEMMA TellStep == ASSUME TellInv, [Next]_vars PROVE TellInv'
<1>1. CapInv'
  BY CapStep DEF TellInv
<1>2. CASE \E verdict \in {"overload", "strained", "headroom"} : Sample(verdict)
  BY <1>1, <1>2, SampleTells DEF TellInv
<1>3. CASE ApplyCapSettings
  BY <1>1, <1>3, ApplySettingsTells DEF TellInv
<1>4. CASE ApplyAutoCapStep
  BY <1>1, <1>4, ApplyStepTells DEF TellInv
<1>5. CASE Configured
  BY <1>1, <1>5, ConfiguredTells DEF TellInv
<1>6. CASE UpdateSettings \/ RefreshAutoTarget \/ SettingsFailed \/ Released \/ Started
  BY <1>1, <1>6, OthersTell DEF TellInv
<1>7. CASE UNCHANGED vars
  BY <1>1, <1>7 DEF vars, TellInv, JobsInv, Agrees, Asked, Latest, Known, Target, StepWaits
<1> QED  BY <1>2, <1>3, <1>4, <1>5, <1>6, <1>7 DEF Next

\* No step of the policy is lost (applyAutoCapStep, applySettings and refreshAutoTarget in
\* enhancer-stats-consumer.ts and its callers): between operations the renderer infers with
\* the cap the policy stands at, through every order of steps, settings changes, refreshes,
\* failures and restarts, unless a refresh or a failed change has come since.
THEOREM PolicyCorrect == Spec => []PolicyTellsLive
<1>1. Init => TellInv
  <2> SUFFICES ASSUME Init PROVE TellInv
    OBVIOUS
  <2>1. CapInv
    BY InitCap
  <2>2. PICK cap \in UserCaps : settings = [cap |-> cap, esrgan |-> TRUE] /\ live = cap
    BY DEF Init
  <2>3. policy = Off /\ jobs = <<>> /\ running = Idle
    BY DEF Init
  <2>4. live # Dead
    BY <2>2, Ladder, AutoCapAssumption DEF Dead
  <2>5. JobsInv
    BY <2>3, <2>4 DEF JobsInv, Asked, Idle
  <2>6. Agrees
    BY <2>2, <2>3 DEF Agrees, Latest, Target
  <2> QED  BY <2>1, <2>5, <2>6 DEF TellInv
<1>2. TellInv /\ [Next]_vars => TellInv'
  BY TellStep
<1>3. TellInv => PolicyTellsLive
  <2> SUFFICES ASSUME TellInv, running = Idle, live \in Rungs, settings.esrgan, ~unaware,
                      \A i \in DOMAIN queue : queue[i].kind # "step"
               PROVE  live = Target
    BY DEF PolicyTellsLive, Target
  <2>1. jobs \in Seq(Jobs) /\ queue \in Seq(Ops) /\ Asked = {} /\ Agrees
    BY DEF TellInv, JobsInv, CapInv, Typed
  <2>2. \A i \in 1..Len(jobs) : jobs[i].of # "refresh"
    BY DEF TellInv, JobsInv
  <2>3. jobs = <<>>
    BY <2>1, <2>2 DEF Asked
  <2>4. ~StepWaits
    BY <2>1 DEF StepWaits
  <2> QED  BY <2>1, <2>3, <2>4 DEF Agrees, Latest, Known
<1> QED  BY <1>1, <1>2, <1>3, PTL DEF Spec
-----------------------------------------------------------------------------
(***************************************************************************)
(* The enhancer that the cap belongs to, in a model of its own: they share *)
(* the renderer and the lifecycle queue, and Enhancer keeps of a step only *)
(* that it reconfigures the renderer.                                      *)
(*                                                                         *)
(* A page is a record, and the methods take it and give it back.  What     *)
(* each gives back is stated in two steps: which fields it has (the lemmas *)
(* named ...Is), and that it keeps the invariant when the operation that   *)
(* calls it may be anywhere (the lemmas named ...Runs).                    *)
(***************************************************************************)
PageField == {"phase", "renderer", "owns", "alive", "session", "settings", "automatic",
  "blocked", "applied", "timer", "queue", "task", "pending", "abandoned", "switch", "protected",
  "full", "attached", "destroyed", "constructing", "restarted", "wanted", "mail"}
TaskField == {"pc", "cur", "fresh", "made", "stale", "cancelled", "gone", "kind", "flow",
  "then", "prev"}
Ends == {"end", "schedule", "restart"}

IsPage(p) == p = [f \in PageField |-> p[f]]
IsTask(r) == r = [f \in TaskField |-> r[f]] /\ r.then \in Ends
AreTasks(s) == s = [t \in Tasks |-> s[t]] /\ \A t \in Tasks : IsTask(s[t])
Shape(p) == IsPage(p) /\ AreTasks(p.task) /\ p.queue \in Seq(JobType)

\* Something runs, or asks to run: a renderer, a session, a backend, or an operation that
\* may still bring one up.
Wants(p) ==
  \/ p.renderer \/ p.session # NoSession \/ p.phase # "idle" \/ p.timer = "live"
  \/ \E i \in DOMAIN p.queue : p.queue[i].fresh
  \/ \E t \in Tasks : p.task[t].cur \/ p.task[t].fresh

\* The renderers are the enhancer's and those in the hands of an operation.
MadeIn(s) == {t \in Tasks : s[t].made}
Counted(p) ==
  /\ IsFiniteSet(MadeIn(p.task))
  /\ p.alive = Cardinality(MadeIn(p.task)) + (IF p.renderer THEN 1 ELSE 0)

\* One transition is the latest; a destroyed enhancer has neither one nor a renderer.
OneLatest(s) == \A t, u \in Tasks : s[t].cur /\ s[u].cur => t = u
Spent(p) == p.destroyed => ~p.renderer /\ \A t \in Tasks : ~p.task[t].cur

\* Where an operation waits, it holds a renderer while it moves it to the node; the one it
\* reconfigures is there unless it became stale; and the latest operation waits where a
\* start or a switch does, without a renderer unless its switch only waits for the slot.
Transits == {"claim", "slot", "create", "align", "fallback", "absorb", "update", "switchstop"}
TaskSound(p, t) ==
  /\ p.task[t].made <=> p.task[t].pc = "align"
  /\ p.task[t].pc \in {"source", "reconfig"} /\ ~p.task[t].stale => p.renderer
  /\ p.task[t].cur => /\ p.task[t].pc \in Transits
                      /\ p.renderer => p.task[t].pc = "slot" /\ p.task[t].flow # "start"

\* What holds of a page while the operations in X run, none of them with a renderer.
Lives(p, X) ==
  /\ Shape(p) /\ Counted(p) /\ OneLatest(p.task)
  /\ Wants(p) => p.wanted
  /\ p.phase = "native-active" => ~p.renderer
  /\ \A t \in Tasks \ X : TaskSound(p, t)
  /\ \A t \in X : ~p.task[t].made
Runs(p, X) == Lives(p, X) /\ Spent(p)

\* The inductive invariant: between two steps nothing runs.
PageInv == Runs(page, {})

\* p and q differ in their tasks, and in fields the invariant does not read.
Like(p, q) ==
  /\ IsPage(q)
  /\ q.renderer = p.renderer /\ q.alive = p.alive /\ q.session = p.session
  /\ q.phase = p.phase /\ q.timer = p.timer /\ q.queue = p.queue
  /\ q.wanted = p.wanted /\ q.destroyed = p.destroyed
Keeps(p, q) == Like(p, q) /\ q.task = p.task
Puts(p, q, t, r) == Like(p, q) /\ q.task = [p.task EXCEPT ![t] = r]

\* q asks for no more than p, and its operations stand where those of p stand.
Weaker(p, q) ==
  /\ Shape(q)
  /\ q.renderer = p.renderer /\ q.alive = p.alive /\ q.destroyed = p.destroyed
  /\ p.wanted => q.wanted
  /\ Wants(q) => Wants(p) \/ q.wanted
  /\ q.phase = "native-active" => p.phase = "native-active"
  /\ \A t \in Tasks :
       /\ q.task[t].pc = p.task[t].pc /\ q.task[t].flow = p.task[t].flow
       /\ q.task[t].made = p.task[t].made
       /\ q.task[t].cur => p.task[t].cur
       /\ p.task[t].stale => q.task[t].stale

\* What asks for less, with its operations where they stood, is as sound.
LEMMA WeakerRuns ==
  ASSUME NEW p, NEW q, NEW X, X \subseteq Tasks, Lives(p, X), Weaker(p, q)
  PROVE  Lives(q, X) /\ (Spent(p) => Spent(q))
<1>1. MadeIn(q.task) = MadeIn(p.task)
  BY DEF Weaker, MadeIn
<1> QED BY <1>1 DEF Runs, Lives, Weaker, Counted, OneLatest, Spent, TaskSound

\* So is a page that differs in fields the invariant does not read.
LEMMA KeepsRuns ==
  ASSUME NEW p, NEW q, NEW X, X \subseteq Tasks, Runs(p, X), Keeps(p, q)
  PROVE  Runs(q, X)
  BY DEF Runs, Lives, Keeps, Like, Shape, Counted, Spent, TaskSound, Wants

\* Putting an operation leaves the others as they are.
LEMMA PutTask ==
  ASSUME NEW s, AreTasks(s), NEW t \in Tasks, NEW r, IsTask(r)
  PROVE  /\ AreTasks([s EXCEPT ![t] = r])
         /\ [s EXCEPT ![t] = r][t] = r
         /\ \A u \in Tasks \ {t} : [s EXCEPT ![t] = r][u] = s[u]
  BY DEF AreTasks

\* A running operation changes what it is.
LEMMA RunningPuts ==
  ASSUME NEW p, NEW q, NEW t \in Tasks, Runs(p, {t}), NEW r, IsTask(r), Puts(p, q, t, r),
         ~r.made, r.cur => p.task[t].cur, r.fresh => p.task[t].fresh
  PROVE  Runs(q, {t})
<1> USE DEF Runs, Lives, Shape
<1>1. /\ AreTasks(q.task) /\ q.task[t] = r
      /\ \A u \in Tasks \ {t} : q.task[u] = p.task[u]
  BY PutTask DEF Puts
<1>2. MadeIn(q.task) = MadeIn(p.task)
  BY <1>1 DEF MadeIn
<1>3. Wants(q) => Wants(p)
  BY <1>1 DEF Wants, Puts, Like
<1> QED BY <1>1, <1>2, <1>3 DEF Puts, Like, Counted, OneLatest, Spent, TaskSound

\* It comes to a rest where the invariant allows it.
LEMMA Rests ==
  ASSUME NEW p, NEW t \in Tasks, Runs(p, {t}), TaskSound(p, t)
  PROVE  Runs(p, {})
  BY DEF Runs, Lives

\* An operation that has no renderer in its hands may run.
LEMMA StartsRunning ==
  ASSUME NEW p, NEW t \in Tasks, Runs(p, {}), p.task[t].pc # "align"
  PROVE  Runs(p, {t})
  BY DEF Runs, Lives, TaskSound

-----------------------------------------------------------------------------
(* The lifecycle. *)

\* c differs from r only in whether it is the latest, or fresh.
SameTask(r, c) ==
  /\ IsTask(c)
  /\ c.pc = r.pc /\ c.flow = r.flow /\ c.made = r.made /\ c.stale = r.stale
  /\ c.kind = r.kind /\ c.then = r.then /\ c.gone = r.gone

\* Losing a flag changes nothing else of an operation.
LEMMA FlagTask ==
  ASSUME NEW r, IsTask(r), NEW b \in BOOLEAN
  PROVE  /\ LET c == [r EXCEPT !.cur = b]   IN SameTask(r, c) /\ c.cur = b /\ c.fresh = r.fresh
         /\ LET c == [r EXCEPT !.fresh = b] IN SameTask(r, c) /\ c.fresh = b /\ (c.cur <=> r.cur)
  BY DEF IsTask, TaskField, SameTask

\* No operation is the latest any more, and nothing else has changed.
Uncurred(s) == [t \in Tasks |-> [s[t] EXCEPT !.cur = FALSE]]

LEMMA ClearCur ==
  ASSUME NEW s, AreTasks(s), NEW r, r = Uncurred(s)
  PROVE  /\ AreTasks(r)
         /\ \A t \in Tasks : SameTask(s[t], r[t]) /\ ~r[t].cur /\ r[t].fresh = s[t].fresh
<1>1. ASSUME NEW t \in Tasks
      PROVE  SameTask(s[t], r[t]) /\ ~r[t].cur /\ r[t].fresh = s[t].fresh
  <2>1. IsTask(s[t]) /\ r[t] = [s[t] EXCEPT !.cur = FALSE]
    BY DEF AreTasks, Uncurred
  <2> QED BY <2>1 DEF IsTask, TaskField, SameTask
<1> QED BY <1>1 DEF AreTasks, SameTask, Uncurred

\* No operation is fresh any more, and nothing else has changed.
Outdated(s) == [t \in Tasks |-> [s[t] EXCEPT !.fresh = FALSE]]

LEMMA ClearFresh ==
  ASSUME NEW s, AreTasks(s), NEW r, r = Outdated(s)
  PROVE  /\ AreTasks(r)
         /\ \A t \in Tasks : SameTask(s[t], r[t]) /\ ~r[t].fresh /\ (r[t].cur <=> s[t].cur)
<1>1. ASSUME NEW t \in Tasks
      PROVE  SameTask(s[t], r[t]) /\ ~r[t].fresh /\ (r[t].cur <=> s[t].cur)
  <2>1. IsTask(s[t]) /\ r[t] = [s[t] EXCEPT !.fresh = FALSE]
    BY DEF AreTasks, Outdated
  <2> QED BY <2>1 DEF IsTask, TaskField, SameTask
<1> QED BY <1>1 DEF AreTasks, SameTask, Outdated

\* The fields of a page whose operations were superseded.
LEMMA SupersededIs ==
  ASSUME NEW p, IsPage(p)
  PROVE  LET q == Superseded(p) IN
         /\ Like(p, q)
         /\ q.task = Uncurred(p.task)
  BY DEF IsPage, PageField, Like, Uncurred, Superseded

\* Superseding asks for less.
LEMMA SupersededWeaker ==
  ASSUME NEW p, Shape(p)
  PROVE  /\ Weaker(p, Superseded(p))
         /\ \A t \in Tasks : ~Superseded(p).task[t].cur
<1> DEFINE q == Superseded(p)
<1>1. Like(p, q) /\ q.task = Uncurred(p.task)
  BY SupersededIs DEF Shape
<1> HIDE DEF q
<1>2. AreTasks(p.task) /\ q.task = Uncurred(p.task)
  BY <1>1 DEF Shape
<1>3. /\ AreTasks(q.task)
      /\ \A t \in Tasks : SameTask(p.task[t], q.task[t]) /\ ~q.task[t].cur
                          /\ q.task[t].fresh = p.task[t].fresh
  BY <1>2, ClearCur
<1>4. Weaker(p, q)
  BY <1>1, <1>3 DEF Weaker, Like, Shape, Wants, SameTask
<1> QED BY <1>3, <1>4 DEF q

\* A job that is not fresh any more is a job.
LEMMA StaleJob ==
  ASSUME NEW j \in JobType
  PROVE  [j EXCEPT !.fresh = FALSE] \in JobType /\ [j EXCEPT !.fresh = FALSE].fresh = FALSE
  BY DEF JobType

\* Neither is any job of a queue then.
LEMMA StaleQueue ==
  ASSUME NEW s \in Seq(JobType)
  PROVE  LET r == [i \in DOMAIN s |-> [s[i] EXCEPT !.fresh = FALSE]] IN
         /\ r \in Seq(JobType)
         /\ \A i \in DOMAIN r : ~r[i].fresh
<1> DEFINE r == [i \in DOMAIN s |-> [s[i] EXCEPT !.fresh = FALSE]]
<1>1. \A i \in DOMAIN s : /\ [s[i] EXCEPT !.fresh = FALSE] \in JobType
                          /\ ~[s[i] EXCEPT !.fresh = FALSE].fresh
  BY StaleJob
<1>2. DOMAIN s = 1..Len(s) /\ Len(s) \in Nat
  OBVIOUS
<1>3. r \in [1..Len(s) -> JobType]
  BY <1>1, <1>2
<1>4. r \in Seq(JobType)
  BY <1>2, <1>3
<1> QED BY <1>1, <1>4

\* The fields of a page whose reconciles were invalidated.
LEMMA InvalidateIs ==
  ASSUME NEW p, IsPage(p)
  PROVE  LET q == InvalidateReconcile(p) IN
         /\ IsPage(q)
         /\ q.renderer = p.renderer /\ q.alive = p.alive /\ q.session = p.session
         /\ q.phase = p.phase /\ q.wanted = p.wanted /\ q.destroyed = p.destroyed
         /\ q.timer = IF p.timer = "off" THEN "off" ELSE "stale"
         /\ q.queue = [i \in DOMAIN p.queue |-> [p.queue[i] EXCEPT !.fresh = FALSE]]
         /\ q.task = Outdated(p.task)
  BY DEF IsPage, PageField, Outdated, InvalidateReconcile

\* After it nothing is fresh.
Quiet(p) == /\ p.timer # "live"
            /\ \A i \in DOMAIN p.queue : ~p.queue[i].fresh
            /\ \A t \in Tasks : ~p.task[t].fresh

\* Invalidating asks for less, and leaves nothing fresh.
LEMMA InvalidateWeaker ==
  ASSUME NEW p, Shape(p)
  PROVE  /\ Weaker(p, InvalidateReconcile(p)) /\ Quiet(InvalidateReconcile(p))
         /\ \A t \in Tasks : InvalidateReconcile(p).task[t].cur <=> p.task[t].cur
         /\ InvalidateReconcile(p).phase = p.phase
<1> DEFINE q == InvalidateReconcile(p)
<1>1. /\ IsPage(q)
      /\ q.renderer = p.renderer /\ q.alive = p.alive /\ q.session = p.session
      /\ q.phase = p.phase /\ q.wanted = p.wanted /\ q.destroyed = p.destroyed
      /\ q.timer = IF p.timer = "off" THEN "off" ELSE "stale"
      /\ q.queue = [i \in DOMAIN p.queue |-> [p.queue[i] EXCEPT !.fresh = FALSE]]
      /\ q.task = Outdated(p.task)
  BY InvalidateIs DEF Shape
<1> HIDE DEF q
<1>3. AreTasks(p.task) /\ q.task = Outdated(p.task)
  BY <1>1 DEF Shape
<1>2. /\ AreTasks(q.task)
      /\ \A t \in Tasks : /\ SameTask(p.task[t], q.task[t])
                            /\ ~q.task[t].fresh /\ (q.task[t].cur <=> p.task[t].cur)
  BY <1>3, ClearFresh
<1>4. q.queue \in Seq(JobType) /\ \A i \in DOMAIN q.queue : ~q.queue[i].fresh
  BY <1>1, StaleQueue DEF Shape
<1>5. Shape(q)
  BY <1>1, <1>2, <1>4 DEF Shape
<1>6. Quiet(q)
  BY <1>1, <1>2, <1>4 DEF Quiet
<1>7. Wants(q) => Wants(p)
  BY <1>1, <1>2, <1>6 DEF Wants, Quiet
<1>8. Weaker(p, q)
  BY <1>1, <1>2, <1>5, <1>7 DEF Weaker, SameTask
<1> QED BY <1>1, <1>2, <1>6, <1>8 DEF q

\* The fields of a page with a live timer.
LEMMA ScheduleIs ==
  ASSUME NEW q, IsPage(q)
  PROVE  LET s == [q EXCEPT !.timer = "live", !.wanted = TRUE] IN
         /\ IsPage(s)
         /\ s.renderer = q.renderer /\ s.alive = q.alive /\ s.session = q.session
         /\ s.phase = q.phase /\ s.wanted = TRUE /\ s.destroyed = q.destroyed
         /\ s.timer = "live" /\ s.queue = q.queue /\ s.task = q.task
  BY DEF IsPage, PageField

\* Scheduling a reconcile is a reason to run.
LEMMA ScheduleRuns ==
  ASSUME NEW p, NEW X, X \subseteq Tasks, Runs(p, X)
  PROVE  /\ Runs(Schedule(p), X)
         /\ Schedule(p).renderer = p.renderer
<1> DEFINE q == InvalidateReconcile(p)
           s == [q EXCEPT !.timer = "live", !.wanted = TRUE]
<1>1. Weaker(p, q)
  BY InvalidateWeaker DEF Runs, Lives
<1>2. Runs(q, X)
  BY <1>1, WeakerRuns DEF Runs
<1> HIDE DEF q
<1>3. /\ IsPage(s)
      /\ s.renderer = q.renderer /\ s.alive = q.alive /\ s.session = q.session
      /\ s.phase = q.phase /\ s.wanted = TRUE /\ s.destroyed = q.destroyed
      /\ s.timer = "live" /\ s.queue = q.queue /\ s.task = q.task
  BY <1>2, ScheduleIs DEF Runs, Lives, Shape
<1> HIDE DEF s
<1>4. Weaker(q, s)
  BY <1>2, <1>3 DEF Weaker, Runs, Lives, Shape
<1>5. Runs(s, X)
  BY <1>2, <1>4, WeakerRuns DEF Runs
<1> QED BY <1>1, <1>3, <1>5 DEF Schedule, q, s, Weaker

\* The fields of a page in which an operation became the latest.
LEMMA BeginIs ==
  ASSUME NEW q, IsPage(q), NEW t \in Tasks, AreTasks(q.task)
  PROVE  LET b == [q EXCEPT !.phase = "starting", !.task[t].cur = TRUE] IN
         /\ IsPage(b)
         /\ b.renderer = q.renderer /\ b.alive = q.alive /\ b.session = q.session
         /\ b.phase = "starting" /\ b.wanted = q.wanted /\ b.destroyed = q.destroyed
         /\ b.timer = q.timer /\ b.queue = q.queue
         /\ b.task = [q.task EXCEPT ![t] = [q.task[t] EXCEPT !.cur = TRUE]]
  BY DEF IsPage, PageField, AreTasks

\* An operation that somebody wants may become the latest.
LEMMA BeginRuns ==
  ASSUME NEW p, NEW t \in Tasks, Runs(p, {t}), p.wanted, ~p.destroyed
  PROVE  LET b == BeginTransition(p, t) IN
         /\ Runs(b, {t})
         /\ b.renderer = p.renderer /\ b.session = p.session /\ b.wanted /\ ~b.destroyed /\ b.task[t].cur
<1> DEFINE q == Superseded(p)
           b == [q EXCEPT !.phase = "starting", !.task[t].cur = TRUE]
<1>1. Weaker(p, q) /\ (\A u \in Tasks : ~q.task[u].cur) /\ Like(p, q)
  BY SupersededWeaker, SupersededIs DEF Runs, Lives, Shape
<1>2. Runs(q, {t})
  BY <1>1, WeakerRuns DEF Runs
<1> HIDE DEF q
<1>3. /\ IsPage(b)
      /\ b.renderer = q.renderer /\ b.alive = q.alive /\ b.session = q.session
      /\ b.phase = "starting" /\ b.wanted = q.wanted /\ b.destroyed = q.destroyed
      /\ b.timer = q.timer /\ b.queue = q.queue
      /\ b.task = [q.task EXCEPT ![t] = [q.task[t] EXCEPT !.cur = TRUE]]
  BY <1>2, BeginIs DEF Runs, Lives, Shape
<1> HIDE DEF b
<1>4. /\ AreTasks(b.task)
      /\ \A u \in Tasks \ {t} : b.task[u] = q.task[u]
      /\ b.task[t].cur /\ b.task[t].made = q.task[t].made
  <2> DEFINE r == [q.task[t] EXCEPT !.cur = TRUE]
  <2>1. AreTasks(q.task) /\ IsTask(q.task[t])
    BY <1>2 DEF Runs, Lives, Shape, AreTasks
  <2>2. SameTask(q.task[t], r) /\ r.cur
    BY <2>1, FlagTask
  <2>3. b.task = [q.task EXCEPT ![t] = r]
    BY <1>3
  <2> HIDE DEF r
  <2> QED BY <2>1, <2>2, <2>3, PutTask DEF SameTask
<1>5. MadeIn(b.task) = MadeIn(q.task)
  BY <1>4 DEF MadeIn
<1>6. b.wanted /\ ~b.destroyed
  BY <1>1, <1>3 DEF Like
<1>7. Runs(b, {t})
  BY <1>1, <1>2, <1>3, <1>4, <1>5, <1>6 DEF Runs, Lives, Shape, Counted, OneLatest, Spent, TaskSound
<1> QED BY <1>1, <1>3, <1>4, <1>6, <1>7 DEF BeginTransition, q, b, Like

\* p has no renderer, session or transition, and nothing asks for one.
AtRestWith(p, destroyed) ==
  /\ ~p.renderer /\ p.phase = "idle" /\ p.session = NoSession /\ p.destroyed = destroyed
  /\ \A t \in Tasks : ~p.task[t].cur

\* Going idle, and forgetting the session, asks for less.
LEMMA IdleWeaker ==
  ASSUME NEW p, Shape(p), NEW q, IsPage(q),
         q.renderer = p.renderer, q.alive = p.alive, q.timer = p.timer, q.queue = p.queue,
         q.wanted = p.wanted, q.destroyed = p.destroyed, q.task = p.task,
         q.phase \in {p.phase, "idle"}, q.session \in {p.session, NoSession}
  PROVE  Weaker(p, q)
  BY DEF Weaker, Shape, Wants

\* The fields of an idle page, and of one whose enhancement was reset.
LEMMA ResetIs ==
  ASSUME NEW p, IsPage(p)
  PROVE  /\ LET q == ResetEnhancement(p) IN
              /\ IsPage(q)
              /\ q.renderer = p.renderer /\ q.alive = p.alive /\ q.timer = p.timer
              /\ q.queue = p.queue /\ q.wanted = p.wanted /\ q.destroyed = p.destroyed
              /\ q.task = p.task /\ q.phase = "idle" /\ q.session = NoSession
         /\ LET q == MarkIdle(p) IN
              /\ IsPage(q)
              /\ q.renderer = p.renderer /\ q.alive = p.alive /\ q.timer = p.timer
              /\ q.queue = p.queue /\ q.wanted = p.wanted /\ q.destroyed = p.destroyed
              /\ q.task = p.task /\ q.phase = "idle" /\ q.session = p.session
  BY DEF IsPage, PageField, ResetEnhancement, MarkIdle

\* The fields of a page without its renderer.
LEMMA ReleaseIs ==
  ASSUME NEW p, IsPage(p)
  PROVE  LET q == ReleaseRenderer(p) IN
         /\ IsPage(q)
         /\ q.renderer = FALSE /\ q.alive = IF p.renderer THEN p.alive - 1 ELSE p.alive
         /\ q.session = p.session /\ q.phase = p.phase /\ q.wanted = p.wanted
         /\ q.destroyed = p.destroyed /\ q.timer = p.timer /\ q.queue = p.queue
         /\ q.task = [t \in Tasks |->
              [p.task[t] EXCEPT !.stale = p.task[t].stale \/ p.task[t].pc \in {"reconfig", "source"}]]
<1> DEFINE n == IF p.renderer THEN p.alive - 1 ELSE p.alive
           s == [t \in Tasks |->
                  [p.task[t] EXCEPT !.stale = p.task[t].stale \/ p.task[t].pc \in {"reconfig", "source"}]]
           q == [p EXCEPT !.renderer = FALSE, !.alive = n, !.task = s]
<1>1. ReleaseRenderer(p) = q
  BY DEF ReleaseRenderer, IsPage, PageField
<1> HIDE DEF n, s
<1>2. /\ IsPage(q)
      /\ q.renderer = FALSE /\ q.alive = n
      /\ q.session = p.session /\ q.phase = p.phase /\ q.wanted = p.wanted
      /\ q.destroyed = p.destroyed /\ q.timer = p.timer /\ q.queue = p.queue
      /\ q.task = s
  BY DEF IsPage, PageField
<1> QED BY <1>1, <1>2 DEF n, s

\* An operation may become stale.
LEMMA StaleTask ==
  ASSUME NEW r, IsTask(r)
  PROVE  LET c == [r EXCEPT !.stale = r.stale \/ r.pc \in {"reconfig", "source"}] IN
         /\ IsTask(c) /\ (c.stale <=> r.stale \/ r.pc \in {"reconfig", "source"})
         /\ c.pc = r.pc /\ c.flow = r.flow /\ c.made = r.made /\ c.cur = r.cur /\ c.fresh = r.fresh
         /\ c.kind = r.kind /\ c.then = r.then /\ (c.cur <=> r.cur) /\ (c.fresh <=> r.fresh)
  BY DEF IsTask, TaskField

\* Those that reconfigure or move the renderer do.
LEMMA StaleTasks ==
  ASSUME NEW s, AreTasks(s), NEW r,
         r = [t \in Tasks |-> [s[t] EXCEPT !.stale = s[t].stale \/ s[t].pc \in {"reconfig", "source"}]]
  PROVE  AreTasks(r) /\ \A t \in Tasks :
           /\ (r[t].stale <=> s[t].stale \/ s[t].pc \in {"reconfig", "source"})
           /\ r[t].pc = s[t].pc /\ r[t].flow = s[t].flow /\ r[t].made = s[t].made
           /\ (r[t].cur <=> s[t].cur) /\ (r[t].fresh <=> s[t].fresh)
<1>1. ASSUME NEW t \in Tasks
      PROVE  /\ IsTask(r[t]) /\ (r[t].stale <=> s[t].stale \/ s[t].pc \in {"reconfig", "source"})
             /\ r[t].pc = s[t].pc /\ r[t].flow = s[t].flow /\ r[t].made = s[t].made
             /\ (r[t].cur <=> s[t].cur) /\ (r[t].fresh <=> s[t].fresh)
  <2>1. IsTask(s[t]) /\ r[t] = [s[t] EXCEPT !.stale = s[t].stale \/ s[t].pc \in {"reconfig", "source"}]
    BY DEF AreTasks
  <2> QED BY <2>1, StaleTask
<1> QED BY <1>1 DEF AreTasks

\* Releasing the renderer leaves none that is not counted, and no operation that relies on it.
LEMMA ReleaseLives ==
  ASSUME NEW p, NEW X, X \subseteq Tasks, Lives(p, X)
  PROVE  LET q == ReleaseRenderer(p) IN
         /\ Lives(q, X) /\ (Spent(p) => Spent(q))
         /\ ~q.renderer /\ q.wanted = p.wanted /\ q.destroyed = p.destroyed /\ q.phase = p.phase
         /\ \A t \in Tasks : (q.task[t].cur <=> p.task[t].cur)
         /\ Quiet(p) => Quiet(q)
<1> DEFINE q == ReleaseRenderer(p)
<1>1. /\ IsPage(q)
      /\ q.renderer = FALSE /\ q.alive = IF p.renderer THEN p.alive - 1 ELSE p.alive
      /\ q.session = p.session /\ q.phase = p.phase /\ q.wanted = p.wanted
      /\ q.destroyed = p.destroyed /\ q.timer = p.timer /\ q.queue = p.queue
      /\ q.task = [t \in Tasks |->
           [p.task[t] EXCEPT !.stale = p.task[t].stale \/ p.task[t].pc \in {"reconfig", "source"}]]
  BY ReleaseIs DEF Lives, Shape
<1> HIDE DEF q
<1>2. AreTasks(q.task) /\ \A t \in Tasks :
        /\ (q.task[t].stale <=> p.task[t].stale \/ p.task[t].pc \in {"reconfig", "source"})
        /\ q.task[t].pc = p.task[t].pc /\ q.task[t].flow = p.task[t].flow
        /\ q.task[t].made = p.task[t].made
        /\ (q.task[t].cur <=> p.task[t].cur) /\ (q.task[t].fresh <=> p.task[t].fresh)
  BY <1>1, StaleTasks DEF Lives, Shape
<1>3. MadeIn(q.task) = MadeIn(p.task)
  BY <1>2 DEF MadeIn
<1>4. Counted(q)
  <2>1. Cardinality(MadeIn(p.task)) \in Nat
    BY FS_CardinalityType DEF Lives, Counted
  <2> QED BY <1>1, <1>3, <2>1 DEF Lives, Counted
<1>5. Wants(q) => Wants(p)
  BY <1>1, <1>2 DEF Wants
<1>6. Lives(q, X)
  BY <1>1, <1>2, <1>4, <1>5 DEF Lives, Shape, OneLatest, TaskSound
<1>7. Spent(p) => Spent(q)
  BY <1>1, <1>2 DEF Spent
<1>8. Quiet(p) => Quiet(q)
  BY <1>1, <1>2 DEF Quiet
<1> QED BY <1>1, <1>2, <1>6, <1>7, <1>8 DEF q

\* The fields of a page that wants nothing.
LEMMA ResetAllIs ==
  ASSUME NEW q, IsPage(q)
  PROVE  LET r == [q EXCEPT !.timer = "off", !.wanted = FALSE, !.abandoned = NoSession,
                            !.switch = Nobody] IN
         /\ IsPage(r)
         /\ r.renderer = q.renderer /\ r.alive = q.alive /\ r.queue = q.queue
         /\ r.destroyed = q.destroyed /\ r.task = q.task /\ r.phase = q.phase /\ r.session = q.session
         /\ r.timer = "off" /\ r.wanted = FALSE
  BY DEF IsPage, PageField

\* A stop leaves nothing that runs, and nothing that asks to run.
LEMMA ResetAllRuns ==
  ASSUME NEW p, NEW X, X \subseteq Tasks, Lives(p, X)
  PROVE  Runs(ResetAll(p), X) /\ AtRestWith(ResetAll(p), p.destroyed)
<1> DEFINE a == Superseded(p)
           b == InvalidateReconcile(a)
           c == ReleaseRenderer(b)
           d == ResetEnhancement(c)
           r == [d EXCEPT !.timer = "off", !.wanted = FALSE, !.abandoned = NoSession,
                          !.switch = Nobody]
<1>1. Weaker(p, a) /\ \A t \in Tasks : ~a.task[t].cur
  BY SupersededWeaker DEF Lives
<1>2. Lives(a, X)
  BY <1>1, WeakerRuns
<1> HIDE DEF a
<1>3. Weaker(a, b) /\ Quiet(b) /\ \A t \in Tasks : b.task[t].cur <=> a.task[t].cur
  BY <1>2, InvalidateWeaker DEF Lives
<1>4. Lives(b, X)
  BY <1>2, <1>3, WeakerRuns
<1> HIDE DEF b
<1>5. /\ Lives(c, X) /\ ~c.renderer /\ c.destroyed = b.destroyed /\ Quiet(c)
      /\ \A t \in Tasks : (c.task[t].cur <=> b.task[t].cur)
  BY <1>3, <1>4, ReleaseLives
<1> HIDE DEF c
<1>6. /\ IsPage(d)
      /\ d.renderer = c.renderer /\ d.alive = c.alive /\ d.timer = c.timer
      /\ d.queue = c.queue /\ d.wanted = c.wanted /\ d.destroyed = c.destroyed
      /\ d.task = c.task /\ d.phase = "idle" /\ d.session = NoSession
  BY <1>5, ResetIs DEF Lives, Shape
<1>7. Lives(d, X)
  BY <1>5, <1>6, IdleWeaker, WeakerRuns DEF Lives
<1> HIDE DEF d
<1>8. /\ IsPage(r)
      /\ r.renderer = d.renderer /\ r.alive = d.alive /\ r.queue = d.queue
      /\ r.destroyed = d.destroyed /\ r.task = d.task /\ r.phase = d.phase /\ r.session = d.session
      /\ r.timer = "off" /\ r.wanted = FALSE
  BY <1>6, ResetAllIs
<1> HIDE DEF r
<1>9. AtRestWith(r, p.destroyed)
  BY <1>1, <1>3, <1>5, <1>6, <1>8 DEF AtRestWith, Weaker
<1>10. ~Wants(r)
  BY <1>5, <1>6, <1>8, <1>9 DEF Wants, AtRestWith, Quiet
<1>11. Runs(r, X)
  BY <1>7, <1>8, <1>9, <1>10 DEF AtRestWith, Runs, Lives, Shape, Counted, Spent, TaskSound
<1> QED BY <1>9, <1>11 DEF ResetAll, a, b, c, d, r

\* The invariant does not read the mail.
LEMMA PostKeeps ==
  ASSUME NEW p, IsPage(p), NEW op, NEW t, NEW sid
  PROVE  Keeps(p, Post(p, op, t, sid))
  BY DEF IsPage, PageField, Keeps, Like, Post

\* The pending request is the one that is cancelled, if any.
LEMMA CancelIs ==
  ASSUME NEW p, IsPage(p), AreTasks(p.task)
  PROVE  LET q == CancelPending(p) IN
         /\ Like(p, q)
         /\ \/ q.task = p.task
            \/ /\ p.pending \in Tasks
               /\ q.task = [p.task EXCEPT ![p.pending] = [p.task[p.pending] EXCEPT !.cancelled = TRUE]]
<1> DEFINE q == [p EXCEPT !.task[p.pending].cancelled = TRUE]
<1>1. Like(p, q)
  BY DEF IsPage, PageField, Like
<1>2. q.task = [p.task EXCEPT ![p.pending] = [p.task[p.pending] EXCEPT !.cancelled = TRUE]]
  BY DEF IsPage, PageField
<1>3. p.pending \notin Tasks => q.task = p.task
  BY <1>2 DEF AreTasks
<1>4. Like(p, p)
  BY DEF Like
<1> QED BY <1>1, <1>2, <1>3, <1>4 DEF CancelPending

\* Cancelling changes nothing else of an operation.
LEMMA CancelTask ==
  ASSUME NEW r, IsTask(r)
  PROVE  LET c == [r EXCEPT !.cancelled = TRUE] IN
         SameTask(r, c) /\ (c.cur <=> r.cur) /\ (c.fresh <=> r.fresh)
  BY DEF IsTask, TaskField, SameTask

\* Nor anything the invariant reads.
LEMMA CancelRuns ==
  ASSUME NEW p, NEW X, X \subseteq Tasks, Runs(p, X)
  PROVE  LET q == CancelPending(p) IN
         /\ Runs(q, X) /\ Like(p, q)
         /\ \A t \in Tasks : SameTask(p.task[t], q.task[t]) /\ (q.task[t].cur <=> p.task[t].cur)
<1> DEFINE q == CancelPending(p)
<1>1. /\ Like(p, q)
      /\ \/ q.task = p.task
         \/ /\ p.pending \in Tasks
            /\ q.task = [p.task EXCEPT ![p.pending] = [p.task[p.pending] EXCEPT !.cancelled = TRUE]]
  BY CancelIs DEF Runs, Lives, Shape
<1> HIDE DEF q
<1>2. /\ AreTasks(q.task)
      /\ \A t \in Tasks : /\ SameTask(p.task[t], q.task[t])
                          /\ (q.task[t].cur <=> p.task[t].cur) /\ (q.task[t].fresh <=> p.task[t].fresh)
  <2>1. CASE q.task = p.task
    BY <2>1 DEF SameTask, Runs, Lives, Shape, AreTasks
  <2>2. CASE /\ p.pending \in Tasks
             /\ q.task = [p.task EXCEPT ![p.pending] = [p.task[p.pending] EXCEPT !.cancelled = TRUE]]
    <3> DEFINE r == [p.task[p.pending] EXCEPT !.cancelled = TRUE]
    <3>1. AreTasks(p.task) /\ IsTask(p.task[p.pending])
      BY <2>2 DEF Runs, Lives, Shape, AreTasks
    <3>2. /\ SameTask(p.task[p.pending], r)
          /\ (r.cur <=> p.task[p.pending].cur) /\ (r.fresh <=> p.task[p.pending].fresh)
      BY <3>1, CancelTask
    <3>3. q.task = [p.task EXCEPT ![p.pending] = r]
      BY <2>2
    <3> HIDE DEF r
    <3>4. /\ AreTasks(q.task) /\ q.task[p.pending] = r
          /\ \A t \in Tasks \ {p.pending} : q.task[t] = p.task[t]
      BY <2>2, <3>1, <3>2, <3>3, PutTask DEF SameTask
    <3> QED BY <3>1, <3>2, <3>4 DEF SameTask, AreTasks
  <2> QED BY <1>1, <2>1, <2>2
<1>3. Weaker(p, q)
  BY <1>1, <1>2 DEF Weaker, Like, Runs, Lives, Shape, Wants, SameTask
<1> QED BY <1>1, <1>2, <1>3, WeakerRuns DEF Runs, q

\* A stop, with its messages.
LEMMA StopHereRuns ==
  ASSUME NEW p, NEW X, X \subseteq Tasks, Lives(p, X), NEW native, NEW t
  PROVE  Runs(StopHere(p, native, t), X) /\ AtRestWith(StopHere(p, native, t), p.destroyed)
<1> DEFINE a == ResetAll(p)
           b == CancelPending(a)
           c == Post(b, "stop", t, p.session)
<1>1. Runs(a, X) /\ AtRestWith(a, p.destroyed)
  BY ResetAllRuns
<1> HIDE DEF a
<1>2. Runs(b, X) /\ Like(a, b) /\ \A u \in Tasks : b.task[u].cur <=> a.task[u].cur
  BY <1>1, CancelRuns
<1> HIDE DEF b
<1>3. Keeps(b, c)
  BY <1>2, PostKeeps DEF Like
<1> HIDE DEF c
<1>4. Runs(c, X)
  BY <1>2, <1>3, KeepsRuns
<1>5. AtRestWith(c, p.destroyed)
  BY <1>1, <1>2, <1>3 DEF AtRestWith, Keeps, Like
<1> QED BY <1>1, <1>4, <1>5 DEF StopHere, a, b, c

\* Destroying is a stop after which nothing may start.
LEMMA DestroyRuns ==
  ASSUME NEW p, NEW X, X \subseteq Tasks, Runs(p, X)
  PROVE  Runs(DestroyNow(p), X)
<1> DEFINE a == [p EXCEPT !.destroyed = TRUE]
           b == StopHere(a, TRUE, Nobody)
           c == [b EXCEPT !.phase = "idle", !.session = NoSession, !.timer = "off"]
<1>1. /\ IsPage(a)
      /\ a.renderer = p.renderer /\ a.alive = p.alive /\ a.session = p.session
      /\ a.phase = p.phase /\ a.timer = p.timer /\ a.queue = p.queue
      /\ a.wanted = p.wanted /\ a.task = p.task
  BY DEF Runs, Lives, Shape, IsPage, PageField
<1> HIDE DEF a
<1>2. Lives(a, X)
  BY <1>1 DEF Runs, Lives, Shape, Counted, TaskSound, Wants
<1>3. Runs(b, X) /\ AtRestWith(b, a.destroyed)
  BY <1>2, StopHereRuns
<1> HIDE DEF b
<1>4. /\ IsPage(c)
      /\ c.renderer = b.renderer /\ c.alive = b.alive /\ c.session = NoSession
      /\ c.phase = "idle" /\ c.timer = "off" /\ c.queue = b.queue
      /\ c.wanted = b.wanted /\ c.task = b.task /\ c.destroyed = b.destroyed
  BY <1>3 DEF Runs, Lives, Shape, IsPage, PageField
<1> HIDE DEF c
<1>5. Weaker(b, c)
  BY <1>3, <1>4 DEF Weaker, Runs, Lives, Shape, Wants
<1>6. Runs(c, X)
  BY <1>3, <1>5, WeakerRuns DEF Runs
<1> QED BY <1>6 DEF DestroyNow, a, b, c

\* An operation that is over holds nothing.
LEMMA NoTaskIs == /\ IsTask(NoTask) /\ ~NoTask.made /\ ~NoTask.cur /\ ~NoTask.fresh
                  /\ NoTask.pc = "none"
  BY DEF NoTask, IsTask, TaskField, Ends

\* The fields of a page in which an operation ended.
LEMMA FinishIs ==
  ASSUME NEW p, IsPage(p), AreTasks(p.task), NEW t \in Tasks, NEW failed
  PROVE  Puts(p, [p EXCEPT !.automatic = @ /\ ~failed, !.task[t] = NoTask], t, NoTask)
  BY DEF IsPage, PageField, Puts, Like

\* A switch that ended clears its ledger.
LEMMA ToWebKeeps ==
  ASSUME NEW q, IsPage(q), NEW t
  PROVE  Keeps(q, [q EXCEPT !.abandoned = NoSession, !.switch = IF @ = t THEN Nobody ELSE @])
  BY DEF IsPage, PageField, Keeps, Like

\* A reattachment marks its node.
LEMMA AppliedKeeps ==
  ASSUME NEW q, IsPage(q), NEW b
  PROVE  Keeps(q, [q EXCEPT !.applied = @ \/ b])
  BY DEF IsPage, PageField, Keeps, Like

\* An operation may end wherever it runs.
LEMMA FinishRuns ==
  ASSUME NEW p, NEW t \in Tasks, Runs(p, {t})
  PROVE  Runs(Finish(p, t), {})
<1> DEFINE failed == p.task[t].kind = "auto" /\ ~p.renderer /\ ~NativeActive(p)
           q == [p EXCEPT !.automatic = @ /\ ~failed, !.task[t] = NoTask]
           w == [q EXCEPT !.abandoned = NoSession, !.switch = IF @ = t THEN Nobody ELSE @]
           b == p.renderer \/ NativeActive(p)
           s == [Schedule(q) EXCEPT !.applied = @ \/ b]
<1>1. Puts(p, q, t, NoTask)
  BY FinishIs DEF Runs, Lives, Shape
<1>2. Runs(q, {t})
  BY <1>1, NoTaskIs, RunningPuts
<1>3. Runs(q, {})
  <2>1. q.task[t] = NoTask
    BY <1>1 DEF Puts, Runs, Lives, Shape, AreTasks
  <2> QED BY <1>2, <2>1, NoTaskIs, Rests DEF TaskSound
<1>4. Finish(p, t) \in {q, w, s, DestroyNow(q)}
  BY DEF Finish
<1> HIDE DEF q
<1>5. Runs(w, {})
  <2>1. Keeps(q, w)
    BY <1>3, ToWebKeeps DEF Runs, Lives, Shape
  <2> HIDE DEF w
  <2> QED BY <1>3, <2>1, KeepsRuns
<1>6. Runs(s, {})
  <2>1. Runs(Schedule(q), {})
    BY <1>3, ScheduleRuns
  <2> HIDE DEF b
  <2>2. Keeps(Schedule(q), s)
    BY <2>1, AppliedKeeps DEF Runs, Lives, Shape
  <2> QED BY <2>1, <2>2, KeepsRuns
<1>7. Runs(DestroyNow(q), {})
  BY <1>3, DestroyRuns
<1> QED BY <1>3, <1>4, <1>5, <1>6, <1>7

-----------------------------------------------------------------------------
(* Awaiting. *)

\* The fields of a page in which an operation changes one of its own.
LEMMA AlterIs ==
  ASSUME NEW p, IsPage(p), AreTasks(p.task), NEW t \in Tasks, NEW x
  PROVE  /\ Puts(p, [p EXCEPT !.task[t].pc = x], t, [p.task[t] EXCEPT !.pc = x])
         /\ Puts(p, [p EXCEPT !.task[t].flow = x], t, [p.task[t] EXCEPT !.flow = x])
         /\ Puts(p, [p EXCEPT !.task[t].then = x], t, [p.task[t] EXCEPT !.then = x])
         /\ Puts(p, [p EXCEPT !.task[t].stale = x], t, [p.task[t] EXCEPT !.stale = x])
         /\ Puts(p, [p EXCEPT !.task[t].made = x], t, [p.task[t] EXCEPT !.made = x])
  BY DEF IsPage, PageField, Puts, Like, AreTasks

\* c is r with another pc, flow, then or stale.
Moves(r, c) == /\ IsTask(c) /\ (c.made <=> r.made)
               /\ (c.cur <=> r.cur) /\ (c.fresh <=> r.fresh)

\* Another place to wait changes nothing else of an operation.
LEMMA MovePc ==
  ASSUME NEW r, IsTask(r), NEW x
  PROVE  LET c == [r EXCEPT !.pc = x] IN
         Moves(r, c) /\ c.pc = x /\ c.flow = r.flow /\ (c.stale <=> r.stale)
  BY DEF IsTask, TaskField, Moves

\* Another flow changes none of its flags.
LEMMA MoveFlow ==
  ASSUME NEW r, IsTask(r), NEW x
  PROVE  LET c == [r EXCEPT !.flow = x] IN Moves(r, c) /\ c.flow = x
  BY DEF IsTask, TaskField, Moves

\* Another sequel changes neither its flags nor its flow.
LEMMA MoveThen ==
  ASSUME NEW r, IsTask(r), NEW x \in Ends
  PROVE  LET c == [r EXCEPT !.then = x] IN Moves(r, c) /\ c.flow = r.flow
  BY DEF IsTask, TaskField, Moves

\* Being stale, or not, changes neither its flags nor where it is.
LEMMA MoveStale ==
  ASSUME NEW r, IsTask(r), NEW x
  PROVE  LET c == [r EXCEPT !.stale = x] IN
         Moves(r, c) /\ c.pc = r.pc /\ c.flow = r.flow /\ c.stale = x
  BY DEF IsTask, TaskField, Moves

\* What a change of a running operation's own fields leaves of the page.
Alters(p, q, t) == Runs(q, {t}) /\ Like(p, q) /\ (q.task[t].cur <=> p.task[t].cur)

\* The invariant allows any such change of the operation that runs.
LEMMA MoveRuns ==
  ASSUME NEW p, NEW t \in Tasks, Runs(p, {t}), NEW r, Moves(p.task[t], r), NEW q, Puts(p, q, t, r)
  PROVE  Alters(p, q, t) /\ q.task[t] = r
<1>1. ~p.task[t].made
  BY DEF Runs, Lives
<1>2. Runs(q, {t})
  BY <1>1, RunningPuts DEF Moves
<1>3. q.task[t] = r
  BY DEF Puts, Runs, Lives, Shape, AreTasks
<1> QED BY <1>2, <1>3 DEF Puts, Alters, Moves

\* A change of its flow.
LEMMA FlowRuns ==
  ASSUME NEW p, NEW t \in Tasks, Runs(p, {t}), NEW x
  PROVE  LET q == [p EXCEPT !.task[t].flow = x] IN Alters(p, q, t) /\ q.task[t].flow = x
<1> DEFINE q == [p EXCEPT !.task[t].flow = x]
           r == [p.task[t] EXCEPT !.flow = x]
<1>1. IsTask(p.task[t])
  BY DEF Runs, Lives, Shape, AreTasks
<1>2. Moves(p.task[t], r) /\ r.flow = x
  BY <1>1, MoveFlow
<1>3. Puts(p, q, t, r)
  BY AlterIs DEF Runs, Lives, Shape
<1> HIDE DEF q, r
<1>4. Alters(p, q, t) /\ q.task[t] = r
  BY <1>2, <1>3, MoveRuns
<1>5. q.task[t].flow = x
  BY <1>2, <1>4
<1> QED BY <1>4, <1>5 DEF q

\* A change of its sequel.
LEMMA ThenRuns ==
  ASSUME NEW p, NEW t \in Tasks, Runs(p, {t}), NEW x \in Ends
  PROVE  LET q == [p EXCEPT !.task[t].then = x] IN Alters(p, q, t)
<1> DEFINE q == [p EXCEPT !.task[t].then = x]
           r == [p.task[t] EXCEPT !.then = x]
<1>1. IsTask(p.task[t])
  BY DEF Runs, Lives, Shape, AreTasks
<1>2. Moves(p.task[t], r)
  BY <1>1, MoveThen
<1>3. Puts(p, q, t, r)
  BY AlterIs DEF Runs, Lives, Shape
<1> HIDE DEF q, r
<1> QED BY <1>2, <1>3, MoveRuns DEF q

\* Where an operation may wait.
MayAwait(p, t, pc) ==
  /\ pc # "align"
  /\ pc \in {"source", "reconfig"} => p.renderer
  /\ p.task[t].cur => /\ pc \in Transits
                      /\ p.renderer => pc = "slot" /\ p.task[t].flow # "start"

\* An operation rests where it may wait.
LEMMA AwaitRuns ==
  ASSUME NEW p, NEW t \in Tasks, Runs(p, {t}), NEW pc, MayAwait(p, t, pc)
  PROVE  LET q == Await(p, t, pc) IN
         /\ Runs(q, {}) /\ Like(p, q) /\ q.task[t].pc = pc
         /\ (q.task[t].cur <=> p.task[t].cur) /\ q.task[t].flow = p.task[t].flow
<1> DEFINE q == Await(p, t, pc)
           r == [p.task[t] EXCEPT !.pc = pc]
<1>1. IsTask(p.task[t]) /\ ~p.task[t].made
  BY DEF Runs, Lives, Shape, AreTasks
<1>2. Moves(p.task[t], r) /\ r.pc = pc /\ r.flow = p.task[t].flow /\ (r.stale <=> p.task[t].stale)
  BY <1>1, MovePc
<1>3. Puts(p, q, t, r)
  BY AlterIs DEF Runs, Lives, Shape, Await
<1> HIDE DEF q, r
<1>4. Alters(p, q, t) /\ q.task[t] = r
  BY <1>2, <1>3, MoveRuns
<1>5. TaskSound(q, t)
  BY <1>1, <1>2, <1>3, <1>4 DEF Puts, Like, TaskSound, MayAwait, Moves
<1> QED BY <1>2, <1>4, <1>5, Rests DEF Alters, q

\* Also when it looks at the node, or the renderer, as it is now.
LEMMA AwaitAfresh ==
  ASSUME NEW p, NEW t \in Tasks, Runs(p, {t}), NEW pc, MayAwait(p, t, pc)
  PROVE  Runs([Await(p, t, pc) EXCEPT !.task[t].stale = FALSE], {})
<1> DEFINE a == Await(p, t, pc)
           r == [a.task[t] EXCEPT !.stale = FALSE]
           q == [a EXCEPT !.task[t].stale = FALSE]
<1>1. /\ Runs(a, {}) /\ Like(p, a) /\ a.task[t].pc = pc
      /\ (a.task[t].cur <=> p.task[t].cur) /\ a.task[t].flow = p.task[t].flow
  BY AwaitRuns
<1> HIDE DEF a
<1>2. Runs(a, {t})
  BY <1>1, StartsRunning DEF MayAwait
<1>3. IsTask(a.task[t]) /\ ~a.task[t].made
  BY <1>2 DEF Runs, Lives, Shape, AreTasks
<1>4. Moves(a.task[t], r)
  BY <1>3, MoveStale
<1>5. r.pc = pc /\ r.flow = p.task[t].flow
  BY <1>1, <1>3, MoveStale
<1>6. Puts(a, q, t, r)
  BY <1>2, AlterIs DEF Runs, Lives, Shape
<1> HIDE DEF q, r
<1>7. Alters(a, q, t) /\ q.task[t] = r
  BY <1>2, <1>4, <1>6, MoveRuns
<1>8. TaskSound(q, t)
  BY <1>1, <1>3, <1>4, <1>5, <1>7 DEF Alters, Like, TaskSound, MayAwait, Moves
<1> QED BY <1>7, <1>8, Rests DEF Alters, q, a

-----------------------------------------------------------------------------
(* The operations, from where they run to where they rest. *)

\* Posting a message.
LEMMA PostRuns ==
  ASSUME NEW p, NEW X, X \subseteq Tasks, Runs(p, X), NEW op, NEW t, NEW sid
  PROVE  Runs(Post(p, op, t, sid), X) /\ Keeps(p, Post(p, op, t, sid))
<1>1. Keeps(p, Post(p, op, t, sid))
  BY PostKeeps DEF Runs, Lives, Shape
<1> QED BY <1>1, KeepsRuns

\* Fields the invariant does not read.
LEMMA FieldsKeep ==
  ASSUME NEW p, IsPage(p), NEW x
  PROVE  /\ Keeps(p, [p EXCEPT !.applied = x])
         /\ Keeps(p, [p EXCEPT !.settings = x])
         /\ Keeps(p, [p EXCEPT !.automatic = x])
         /\ Keeps(p, [p EXCEPT !.blocked = x])
         /\ Keeps(p, [p EXCEPT !.pending = x])
         /\ Keeps(p, [p EXCEPT !.attached = x])
         /\ Keeps(p, [p EXCEPT !.full = x])
         /\ Keeps(p, [p EXCEPT !.constructing = x])
         /\ Keeps(p, [p EXCEPT !.restarted = x])
         /\ Keeps(p, [p EXCEPT !.protected = x])
         /\ Keeps(p, [p EXCEPT !.mail = x])
  BY DEF IsPage, PageField, Keeps, Like

\* They may be set.
LEMMA FieldsRun ==
  ASSUME NEW p, NEW X, X \subseteq Tasks, Runs(p, X), NEW x
  PROVE  /\ Runs([p EXCEPT !.applied = x], X)
         /\ Runs([p EXCEPT !.settings = x], X)
         /\ Runs([p EXCEPT !.automatic = x], X)
         /\ Runs([p EXCEPT !.blocked = x], X)
         /\ Runs([p EXCEPT !.pending = x], X)
         /\ Runs([p EXCEPT !.attached = x], X)
         /\ Runs([p EXCEPT !.full = x], X)
         /\ Runs([p EXCEPT !.constructing = x], X)
         /\ Runs([p EXCEPT !.restarted = x], X)
         /\ Runs([p EXCEPT !.protected = x], X)
         /\ Runs([p EXCEPT !.mail = x], X)
<1>1. IsPage(p)
  BY DEF Runs, Lives, Shape
<1> QED BY <1>1, FieldsKeep, KeepsRuns

\* Going idle.
LEMMA IdleRuns ==
  ASSUME NEW p, NEW X, X \subseteq Tasks, Runs(p, X)
  PROVE  Runs(MarkIdle(p), X) /\ Runs(ResetEnhancement(p), X)
<1>1. Shape(p)
  BY DEF Runs, Lives
<1>2. Weaker(p, MarkIdle(p))
  BY <1>1, ResetIs, IdleWeaker DEF Shape
<1>3. Weaker(p, ResetEnhancement(p))
  BY <1>1, ResetIs, IdleWeaker DEF Shape
<1> QED BY <1>2, <1>3, WeakerRuns DEF Runs

\* startEnhancement(), when somebody wants it.
LEMMA StartRuns ==
  ASSUME NEW p, NEW t \in Tasks, Runs(p, {t}), p.wanted
  PROVE  Runs(StartEnhancement(p, t), {})
<1> DEFINE b == BeginTransition(p, t)
           q == [b EXCEPT !.task[t].flow = "start"]
           m == Post(q, "claim", t, NoSession)
<1>1. CASE p.renderer \/ NativeActive(p) \/ p.destroyed \/ Starting(p)
  BY <1>1, FinishRuns DEF StartEnhancement
<1>2. CASE ~(p.renderer \/ NativeActive(p) \/ p.destroyed \/ Starting(p))
  <2>1. Runs(b, {t}) /\ b.renderer = p.renderer
    BY <1>2, BeginRuns
  <2> HIDE DEF b
  <2>2. Alters(b, q, t)
    BY <2>1, FlowRuns
  <2> HIDE DEF q
  <2>3. Runs(q, {t}) /\ ~q.renderer
    BY <1>2, <2>1, <2>2 DEF Alters, Like
  <2>4. Runs(Finish(MarkIdle(q), t), {})
    BY <2>3, IdleRuns, FinishRuns
  <2>5. Runs(m, {t}) /\ ~m.renderer
    BY <2>3, PostRuns DEF Keeps, Like
  <2> HIDE DEF m
  <2>6. Runs(Await(m, t, "claim"), {})
    BY <2>5, AwaitRuns DEF MayAwait, Transits
  <2> QED BY <1>2, <2>4, <2>6 DEF StartEnhancement, b, q, m
<1> QED BY <1>1, <1>2

\* What follows a stop: a restart is wanted by the watchdog.
LEMMA AfterStopRuns ==
  ASSUME NEW p, NEW t \in Tasks, Runs(p, {t})
  PROVE  Runs(AfterStop(p, t), {})
<1> DEFINE w == [p EXCEPT !.wanted = TRUE]
<1>1. p.task[t].then \in Ends
  BY DEF Runs, Lives, Shape, AreTasks, IsTask
<1>2. Runs(Finish(p, t), {})
  BY FinishRuns
<1>3. Runs(Finish(Schedule(p), t), {})
  BY ScheduleRuns, FinishRuns
<1>4. Runs(StartEnhancement(w, t), {})
  <2>1. /\ IsPage(w) /\ w.wanted
        /\ w.renderer = p.renderer /\ w.alive = p.alive /\ w.session = p.session
        /\ w.phase = p.phase /\ w.timer = p.timer /\ w.queue = p.queue
        /\ w.task = p.task /\ w.destroyed = p.destroyed
    BY DEF Runs, Lives, Shape, IsPage, PageField
  <2> HIDE DEF w
  <2>2. Weaker(p, w)
    BY <2>1 DEF Weaker, Runs, Lives, Shape
  <2> QED BY <2>1, <2>2, WeakerRuns, StartRuns DEF Runs
<1> QED BY <1>1, <1>2, <1>3, <1>4 DEF AfterStop, Ends

\* stopEnhancement() and what follows it.
LEMMA StopThenRuns ==
  ASSUME NEW p, NEW t \in Tasks, Runs(p, {t}), NEW native, NEW then \in Ends
  PROVE  Runs(StopThen(p, t, native, then), {})
<1> DEFINE s == StopHere(p, native, t)
           q == [s EXCEPT !.task[t].then = then]
<1>1. Runs(s, {t}) /\ ~s.task[t].cur
  BY StopHereRuns DEF Runs, AtRestWith
<1> HIDE DEF s
<1>2. Alters(s, q, t)
  BY <1>1, ThenRuns
<1> HIDE DEF q
<1>3. Runs(q, {t}) /\ ~q.task[t].cur
  BY <1>1, <1>2 DEF Alters
<1>4. Runs(Await(q, t, "stopping"), {})
  BY <1>3, AwaitRuns DEF MayAwait
<1>5. Runs(AfterStop(q, t), {})
  BY <1>3, AfterStopRuns
<1> QED BY <1>4, <1>5 DEF StopThen, s, q

\* The catch of a start or a switch.
LEMMA FailRuns ==
  ASSUME NEW p, NEW t \in Tasks, Runs(p, {t})
  PROVE  Runs(Fail(p, t), {})
  BY StopThenRuns DEF Fail, Ends

\* The fields of a page whose operation became the pending request.
LEMMA RequestIs ==
  ASSUME NEW p, IsPage(p), AreTasks(p.task), NEW t \in Tasks
  PROVE  Puts(p, [p EXCEPT !.pending = t, !.task[t].cancelled = FALSE], t,
              [p.task[t] EXCEPT !.cancelled = FALSE])
  BY DEF IsPage, PageField, Puts, Like, AreTasks

\* It is not cancelled, and as before otherwise.
LEMMA UncancelTask ==
  ASSUME NEW r, IsTask(r)
  PROVE  Moves(r, [r EXCEPT !.cancelled = FALSE])
  BY DEF IsTask, TaskField, Moves

\* A request for native capture gives the renderer up first.
LEMMA RequestNativeRuns ==
  ASSUME NEW p, NEW t \in Tasks, Runs(p, {t})
  PROVE  Runs(RequestNative(p, t), {})
<1> DEFINE a == ReleaseRenderer(p)
           b == CancelPending(a)
           q == [b EXCEPT !.pending = t, !.task[t].cancelled = FALSE]
           r == [b.task[t] EXCEPT !.cancelled = FALSE]
           m == Post(q, "start", t, NoSession)
<1>1. Runs(a, {t}) /\ ~a.renderer
  BY ReleaseLives DEF Runs
<1> HIDE DEF a
<1>2. Runs(b, {t}) /\ ~b.renderer
  BY <1>1, CancelRuns DEF Like
<1> HIDE DEF b
<1>3. Alters(b, q, t)
  <2>1. IsTask(b.task[t])
    BY <1>2 DEF Runs, Lives, Shape, AreTasks
  <2>2. Moves(b.task[t], r)
    BY <2>1, UncancelTask
  <2>3. Puts(b, q, t, r)
    BY <1>2, RequestIs DEF Runs, Lives, Shape
  <2> HIDE DEF q, r
  <2> QED BY <1>2, <2>2, <2>3, MoveRuns
<1> HIDE DEF q
<1>4. Runs(q, {t}) /\ ~q.renderer
  BY <1>2, <1>3 DEF Alters, Like
<1>5. Runs(m, {t}) /\ ~m.renderer
  BY <1>4, PostRuns DEF Keeps, Like
<1> HIDE DEF m
<1>6. Runs(Await(m, t, "fallback"), {})
  BY <1>5, AwaitRuns DEF MayAwait, Transits
<1> QED BY <1>6 DEF RequestNative, a, b, q, m

\* The selected backend is started only without a renderer.
LEMMA ProceedRuns ==
  ASSUME NEW p, NEW t \in Tasks, Runs(p, {t}), p.task[t].cur => ~p.renderer
  PROVE  Runs(Proceed(p, t), {})
<1>1. Runs(RequestNative(p, t), {})
  BY RequestNativeRuns
<1>2. Runs([Await(p, t, "create") EXCEPT !.task[t].stale = FALSE], {})
  BY AwaitAfresh DEF MayAwait, Transits
<1> QED BY <1>1, <1>2 DEF Proceed

\* The switch to native capture.
LEMMA SwitchToNativeRuns ==
  ASSUME NEW p, NEW t \in Tasks, Runs(p, {t})
  PROVE  Runs(SwitchToNative(p, t), {})
<1> DEFINE q == [p EXCEPT !.task[t].flow = "toNative"]
<1>1. Runs(q, {t})
  BY FlowRuns DEF Alters
<1> HIDE DEF q
<1>2. Runs(RequestNative(q, t), {}) /\ Runs(Fail(q, t), {})
  BY <1>1, RequestNativeRuns, FailRuns
<1> QED BY <1>2 DEF SwitchToNative, q

\* The end of a start that succeeded.
LEMMA CommitRuns ==
  ASSUME NEW p, NEW t \in Tasks, Runs(p, {t})
  PROVE  Runs(Commit(p, t), {})
  BY FieldsRun, FinishRuns DEF Commit

\* A backend is up; a switch may still wait for the slot.
LEMMA BackendUpRuns ==
  ASSUME NEW p, NEW t \in Tasks, Runs(p, {t}), NEW busy
  PROVE  Runs(BackendUp(p, t, busy), {})
<1>1. p.task[t].flow # "start" => Runs(Await(p, t, "slot"), {})
  BY AwaitRuns DEF MayAwait, Transits
<1> QED BY <1>1, CommitRuns DEF BackendUp

\* A renderer that failed was wanted.
LEMMA RendererErrorRuns ==
  ASSUME NEW p, NEW t \in Tasks, Runs(p, {t}), p.wanted
  PROVE  Runs(HandleRendererError(p, t), {})
  BY FinishRuns, BeginRuns, SwitchToNativeRuns DEF HandleRendererError

\* A renderer that could not be made.
LEMMA InitFailedRuns ==
  ASSUME NEW p, NEW t \in Tasks, Runs(p, {t})
  PROVE  Runs(InitFailed(p, t), {})
  BY FinishRuns, RequestNativeRuns, FailRuns DEF InitFailed

-----------------------------------------------------------------------------
(* A renderer that was made and is not owned yet. *)

\* What holds while the latest operation t has a new renderer in its hands.
Holds(p, t) ==
  /\ Shape(p) /\ Counted(p) /\ OneLatest(p.task) /\ p.wanted /\ ~p.destroyed
  /\ ~p.renderer /\ p.task[t].cur /\ p.task[t].made
  /\ \A u \in Tasks \ {t} : TaskSound(p, u)

\* The fields of a page that owns the new renderer.
LEMMA OwnIs ==
  ASSUME NEW p, IsPage(p), AreTasks(p.task), NEW t \in Tasks, ~p.destroyed
  PROVE  LET q == [MarkActive(p, "webgpu-active") EXCEPT
                     !.renderer = TRUE, !.owns = TRUE, !.task[t].made = FALSE] IN
         /\ IsPage(q)
         /\ q.renderer = TRUE /\ q.alive = p.alive /\ q.session = p.session
         /\ q.phase = "webgpu-active" /\ q.timer = p.timer /\ q.queue = p.queue
         /\ q.wanted = p.wanted /\ q.destroyed = p.destroyed
         /\ q.task = [p.task EXCEPT ![t] = [p.task[t] EXCEPT !.made = FALSE]]
  BY DEF IsPage, PageField, MarkActive, AreTasks

\* Holding a renderer, or not, changes nothing else of an operation.
LEMMA MakeTask ==
  ASSUME NEW r, IsTask(r), NEW b \in BOOLEAN
  PROVE  LET c == [r EXCEPT !.made = b] IN
         /\ IsTask(c) /\ c.pc = r.pc /\ c.flow = r.flow /\ (c.stale <=> r.stale)
         /\ (c.cur <=> r.cur) /\ (c.fresh <=> r.fresh) /\ (c.made <=> b)
  BY DEF IsTask, TaskField

\* The latest operation hands its renderer over: the count stays right.
LEMMA OwnRuns ==
  ASSUME NEW p, NEW t \in Tasks, Holds(p, t), NEW busy
  PROVE  Runs(OwnRenderer(p, t, busy), {})
<1> DEFINE q == [MarkActive(p, "webgpu-active") EXCEPT
                   !.renderer = TRUE, !.owns = TRUE, !.task[t].made = FALSE]
           r == [p.task[t] EXCEPT !.made = FALSE]
<1>1. /\ IsPage(q)
      /\ q.renderer = TRUE /\ q.alive = p.alive /\ q.session = p.session
      /\ q.phase = "webgpu-active" /\ q.timer = p.timer /\ q.queue = p.queue
      /\ q.wanted = p.wanted /\ q.destroyed = p.destroyed
      /\ q.task = [p.task EXCEPT ![t] = r]
  BY OwnIs DEF Holds, Shape
<1>2. IsTask(p.task[t]) /\ AreTasks(p.task)
  BY DEF Holds, Shape, AreTasks
<1>3. IsTask(r) /\ ~r.made
  BY <1>2, MakeTask
<1>4. OwnRenderer(p, t, busy) = BackendUp(q, t, busy)
  BY DEF OwnRenderer
<1> HIDE DEF q, r
<1>5. /\ AreTasks(q.task) /\ ~q.task[t].made
      /\ \A u \in Tasks \ {t} : q.task[u] = p.task[u]
  BY <1>1, <1>2, <1>3, PutTask
<1>6. MadeIn(q.task) = MadeIn(p.task) \ {t} /\ t \in MadeIn(p.task)
  BY <1>5 DEF MadeIn, Holds
<1>7. Counted(q)
  <2>1. IsFiniteSet(MadeIn(p.task)) /\ p.alive = Cardinality(MadeIn(p.task))
    <3>1. Cardinality(MadeIn(p.task)) \in Nat
      BY FS_CardinalityType DEF Holds, Counted
    <3> QED BY <3>1 DEF Holds, Counted
  <2>2. /\ IsFiniteSet(MadeIn(q.task))
        /\ Cardinality(MadeIn(q.task)) = Cardinality(MadeIn(p.task)) - 1
    BY <1>6, <2>1, FS_RemoveElement
  <2>3. Cardinality(MadeIn(p.task)) \in Nat
    BY <2>1, FS_CardinalityType
  <2> QED BY <1>1, <2>1, <2>2, <2>3 DEF Counted
<1>8. \A u \in Tasks \ {t} : ~q.task[u].cur
  BY <1>5 DEF Holds, OneLatest
<1>9. Runs(q, {t})
  BY <1>1, <1>5, <1>7, <1>8 DEF Holds, Runs, Lives, Shape, OneLatest, Spent, TaskSound
<1> QED BY <1>4, <1>9, BackendUpRuns

\* q is p with another operation t and another number of renderers.
Remakes(p, q, t, n, r) ==
  /\ IsPage(q)
  /\ q.renderer = p.renderer /\ q.alive = n /\ q.session = p.session
  /\ q.phase = p.phase /\ q.timer = p.timer /\ q.queue = p.queue
  /\ q.wanted = p.wanted /\ q.destroyed = p.destroyed
  /\ q.task = [p.task EXCEPT ![t] = r]

\* The fields of a page in which an operation made, or dropped, a renderer.
LEMMA MadeIs ==
  ASSUME NEW p, IsPage(p), AreTasks(p.task), NEW t \in Tasks, NEW n
  PROVE  /\ Remakes(p, [p EXCEPT !.alive = n, !.task[t].made = TRUE], t, n, [p.task[t] EXCEPT !.made = TRUE])
         /\ Remakes(p, [p EXCEPT !.alive = n, !.task[t].made = FALSE], t, n, [p.task[t] EXCEPT !.made = FALSE])
  BY DEF IsPage, PageField, AreTasks, Remakes

\* The latest operation made a renderer where there was none.
LEMMA MadeHolds ==
  ASSUME NEW p, NEW t \in Tasks, Runs(p, {t}), p.task[t].cur, ~p.renderer
  PROVE  LET q == [p EXCEPT !.alive = p.alive + 1, !.task[t].made = TRUE] IN
         Holds(q, t) /\ q.task[t].pc = p.task[t].pc
<1> DEFINE n == p.alive + 1
           q == [p EXCEPT !.alive = n, !.task[t].made = TRUE]
           r == [p.task[t] EXCEPT !.made = TRUE]
<1> HIDE DEF n
<1>1. Remakes(p, q, t, n, r)
  BY MadeIs DEF Runs, Lives, Shape
<1>2. IsTask(p.task[t]) /\ AreTasks(p.task) /\ ~p.task[t].made
  BY DEF Runs, Lives, Shape, AreTasks
<1>3. IsTask(r) /\ r.made /\ r.cur /\ r.pc = p.task[t].pc
  BY <1>2, MakeTask
<1> HIDE DEF q, r
<1>5. /\ AreTasks(q.task) /\ q.task[t] = r
      /\ \A u \in Tasks \ {t} : q.task[u] = p.task[u]
  BY <1>1, <1>2, <1>3, PutTask DEF Remakes
<1>6. MadeIn(q.task) = MadeIn(p.task) \cup {t} /\ t \notin MadeIn(p.task)
  BY <1>2, <1>3, <1>5 DEF MadeIn
<1>7. Counted(q)
  <2>1. IsFiniteSet(MadeIn(p.task)) /\ Cardinality(MadeIn(p.task)) \in Nat
    BY FS_CardinalityType DEF Runs, Lives, Counted
  <2>2. p.alive = Cardinality(MadeIn(p.task))
    BY <2>1 DEF Runs, Lives, Counted
  <2>3. /\ IsFiniteSet(MadeIn(q.task))
        /\ Cardinality(MadeIn(q.task)) = Cardinality(MadeIn(p.task)) + 1
    BY <1>6, <2>1, FS_AddElement
  <2> QED BY <1>1, <2>1, <2>2, <2>3 DEF Remakes, Counted, n
<1>8. OneLatest(q.task)
  BY <1>3, <1>5 DEF Runs, Lives, OneLatest
<1>9. q.wanted /\ ~q.destroyed
  BY <1>1 DEF Remakes, Runs, Lives, Wants, Spent
<1>10. Holds(q, t)
  BY <1>1, <1>3, <1>5, <1>7, <1>8, <1>9 DEF Remakes, Holds, Runs, Lives, Shape, TaskSound
<1> QED BY <1>3, <1>5, <1>10 DEF q, n

\* It waits to move the renderer to the latest node.
LEMMA HoldsAlign ==
  ASSUME NEW p, NEW t \in Tasks, Holds(p, t), NEW q, NEW r, Moves(p.task[t], r),
         r.pc = "align", Puts(p, q, t, r)
  PROVE  Runs(q, {})
<1>1. /\ AreTasks(q.task) /\ q.task[t] = r
      /\ \A u \in Tasks \ {t} : q.task[u] = p.task[u]
  BY PutTask DEF Puts, Holds, Shape, Moves
<1>2. MadeIn(q.task) = MadeIn(p.task)
  BY <1>1 DEF MadeIn, Moves, Holds
<1>3. TaskSound(q, t)
  BY <1>1 DEF TaskSound, Holds, Moves, Puts, Like, Transits
<1>4. \A u \in Tasks : TaskSound(q, u)
  BY <1>1, <1>3 DEF TaskSound, Holds, Puts, Like
<1>5. OneLatest(q.task)
  BY <1>1 DEF OneLatest, Holds, Moves
<1> QED BY <1>1, <1>2, <1>4, <1>5 DEF Holds, Runs, Lives, Shape, Counted, Spent, Puts, Like

\* It waits for the renderer to follow the node.
LEMMA HoldsAwait ==
  ASSUME NEW p, NEW t \in Tasks, Holds(p, t)
  PROVE  Runs([Await(p, t, "align") EXCEPT !.task[t].stale = FALSE], {})
<1> DEFINE a == Await(p, t, "align")
           r == [p.task[t] EXCEPT !.pc = "align"]
           q == [a EXCEPT !.task[t].stale = FALSE]
           c == [r EXCEPT !.stale = FALSE]
<1>1. IsTask(p.task[t]) /\ AreTasks(p.task)
  BY DEF Holds, Shape, AreTasks
<1>2. Moves(p.task[t], r) /\ r.pc = "align"
  BY <1>1, MovePc
<1>3. Puts(p, a, t, r)
  BY AlterIs DEF Holds, Shape, Await
<1> HIDE DEF a
<1>4. Moves(r, c) /\ c.pc = r.pc
  BY <1>2, MoveStale DEF Moves
<1> HIDE DEF r
<1>5. AreTasks(a.task) /\ a.task[t] = r /\ a.task = [p.task EXCEPT ![t] = r] /\ Like(p, a)
  BY <1>1, <1>2, <1>3, PutTask DEF Puts, Moves
<1>6. Puts(a, q, t, [a.task[t] EXCEPT !.stale = FALSE])
  BY <1>5, AlterIs DEF Like
<1>7. Puts(a, q, t, c)
  BY <1>5, <1>6
<1> HIDE DEF q, c
<1>8. Puts(p, q, t, c)
  BY <1>5, <1>7 DEF Puts, Like, AreTasks
<1>9. Moves(p.task[t], c) /\ c.pc = "align"
  BY <1>2, <1>4 DEF Moves
<1> QED BY <1>8, <1>9, HoldsAlign DEF q, a

\* A new renderer is owned, moved, or destroyed again.
LEMMA CreatedRuns ==
  ASSUME NEW p, NEW t \in Tasks, Runs(p, {t}), p.task[t].cur => ~p.renderer, NEW busy
  PROVE  Runs(RendererCreated(p, t, busy), {})
<1> DEFINE q == [p EXCEPT !.alive = @ + 1, !.task[t].made = TRUE]
<1>1. CASE ~p.task[t].cur
  BY <1>1, FinishRuns DEF RendererCreated
<1>2. CASE p.task[t].cur
  <2>1. Holds(q, t)
    BY <1>2, MadeHolds
  <2> HIDE DEF q
  <2>2. Runs([Await(q, t, "align") EXCEPT !.task[t].stale = FALSE], {})
    BY <2>1, HoldsAwait
  <2>3. Runs(OwnRenderer(q, t, busy), {})
    BY <2>1, OwnRuns
  <2> QED BY <1>2, <2>2, <2>3 DEF RendererCreated, q
<1> QED BY <1>1, <1>2

\* The operation that waits to move its renderer drops it.
LEMMA DroppedRuns ==
  ASSUME NEW p, NEW t \in Tasks, Runs(p, {}), p.task[t].pc = "align"
  PROVE  Runs([p EXCEPT !.alive = p.alive - 1, !.task[t].made = FALSE], {t})
<1> DEFINE n == p.alive - 1
           q == [p EXCEPT !.alive = n, !.task[t].made = FALSE]
           r == [p.task[t] EXCEPT !.made = FALSE]
<1> HIDE DEF n
<1>1. Remakes(p, q, t, n, r)
  BY MadeIs DEF Runs, Lives, Shape
<1>2. IsTask(p.task[t]) /\ AreTasks(p.task) /\ p.task[t].made
  BY DEF Runs, Lives, Shape, AreTasks, TaskSound
<1>3. IsTask(r) /\ ~r.made /\ (r.cur <=> p.task[t].cur) /\ (r.fresh <=> p.task[t].fresh)
  BY <1>2, MakeTask
<1> HIDE DEF q, r
<1>5. /\ AreTasks(q.task) /\ q.task[t] = r
      /\ \A u \in Tasks \ {t} : q.task[u] = p.task[u]
  BY <1>1, <1>2, <1>3, PutTask DEF Remakes
<1>6. MadeIn(q.task) = MadeIn(p.task) \ {t} /\ t \in MadeIn(p.task)
  BY <1>2, <1>3, <1>5 DEF MadeIn
<1>7. Counted(q)
  <2>1. IsFiniteSet(MadeIn(p.task)) /\ Cardinality(MadeIn(p.task)) \in Nat
    BY FS_CardinalityType DEF Runs, Lives, Counted
  <2>2. p.alive = Cardinality(MadeIn(p.task)) + (IF p.renderer THEN 1 ELSE 0)
    BY DEF Runs, Lives, Counted
  <2>3. /\ IsFiniteSet(MadeIn(q.task))
        /\ Cardinality(MadeIn(q.task)) = Cardinality(MadeIn(p.task)) - 1
    BY <1>6, <2>1, FS_RemoveElement
  <2> QED BY <1>1, <2>1, <2>2, <2>3 DEF Remakes, Counted, n
<1>8. OneLatest(q.task)
  BY <1>3, <1>5 DEF Runs, Lives, OneLatest
<1>9. Wants(q) => Wants(p)
  BY <1>1, <1>3, <1>5 DEF Remakes, Wants
<1>10. \A u \in Tasks \ {t} : TaskSound(q, u)
  BY <1>1, <1>5 DEF Remakes, Runs, Lives, TaskSound
<1>11. Spent(q)
  BY <1>1, <1>3, <1>5 DEF Remakes, Runs, Spent
<1>12. ~q.task[t].made /\ Shape(q)
  BY <1>1, <1>3, <1>5 DEF Remakes, Shape, Runs, Lives
<1> QED BY <1>1, <1>7, <1>8, <1>9, <1>10, <1>11, <1>12 DEF Remakes, Runs, Lives, q, n

\* The latest operation that moved its renderer still holds it.
LEMMA AlignHolds ==
  ASSUME NEW p, NEW t \in Tasks, Runs(p, {}), p.task[t].pc = "align", p.task[t].cur
  PROVE  Holds(p, t)
  BY DEF Runs, Lives, TaskSound, Spent, Wants, Holds

-----------------------------------------------------------------------------
(* The queued operations. *)

\* The fields of a page in which an operation learned its kind, or what to restore.
LEMMA KindIs ==
  ASSUME NEW p, IsPage(p), AreTasks(p.task), NEW t \in Tasks, NEW x, NEW y
  PROVE  /\ Puts(p, [p EXCEPT !.automatic = x, !.task[t].kind = y], t, [p.task[t] EXCEPT !.kind = y])
         /\ Puts(p, [p EXCEPT !.settings = x, !.task[t].prev = y], t, [p.task[t] EXCEPT !.prev = y])
  BY DEF IsPage, PageField, Puts, Like, AreTasks

\* Neither changes a flag of it.
LEMMA MoveKind ==
  ASSUME NEW r, IsTask(r), NEW x
  PROVE  /\ Moves(r, [r EXCEPT !.kind = x])
         /\ Moves(r, [r EXCEPT !.prev = x])
  BY DEF IsTask, TaskField, Moves

\* Nor anything the invariant reads.
LEMMA KindRuns ==
  ASSUME NEW p, NEW t \in Tasks, Runs(p, {t}), NEW x, NEW y
  PROVE  /\ Alters(p, [p EXCEPT !.automatic = x, !.task[t].kind = y], t)
         /\ Alters(p, [p EXCEPT !.settings = x, !.task[t].prev = y], t)
<1> DEFINE a == [p EXCEPT !.automatic = x, !.task[t].kind = y]
           b == [p EXCEPT !.settings = x, !.task[t].prev = y]
           ra == [p.task[t] EXCEPT !.kind = y]
           rb == [p.task[t] EXCEPT !.prev = y]
<1>1. IsTask(p.task[t])
  BY DEF Runs, Lives, Shape, AreTasks
<1>2. Moves(p.task[t], ra) /\ Moves(p.task[t], rb)
  BY <1>1, MoveKind
<1>3. Puts(p, a, t, ra) /\ Puts(p, b, t, rb)
  BY KindIs DEF Runs, Lives, Shape
<1> HIDE DEF a, b, ra, rb
<1> QED BY <1>2, <1>3, MoveRuns DEF a, b

\* A reconciliation that was asked for starts, stops or leaves things alone.
LEMMA DecideRuns ==
  ASSUME NEW p, NEW t \in Tasks, Runs(p, {t}), p.wanted
  PROVE  Runs(Decide(p, t), {})
<1> DEFINE x == p.blocked /\ p.full
           q == [p EXCEPT !.blocked = x]
           a == [q EXCEPT !.automatic = TRUE, !.task[t].kind = "auto"]
           b == [q EXCEPT !.automatic = FALSE]
<1>1. Decide(p, t) \in {StartEnhancement(a, t), StopThen(b, t, TRUE, "end"), Finish(q, t)}
  BY DEF Decide
<1>2. Keeps(p, q)
  <2> HIDE DEF x
  <2> QED BY FieldsKeep DEF Runs, Lives, Shape
<1> HIDE DEF q
<1>3. Runs(q, {t}) /\ q.wanted
  BY <1>2, KeepsRuns DEF Keeps, Like
<1>4. Alters(q, a, t)
  BY <1>3, KindRuns
<1> HIDE DEF a
<1>5. Runs(StartEnhancement(a, t), {})
  BY <1>3, <1>4, StartRuns DEF Alters, Like
<1>6. Runs(b, {t})
  BY <1>3, FieldsRun
<1> HIDE DEF b
<1>7. Runs(StopThen(b, t, TRUE, "end"), {})
  BY <1>6, StopThenRuns DEF Ends
<1>8. Runs(Finish(q, t), {})
  BY <1>3, FinishRuns
<1> QED BY <1>1, <1>5, <1>7, <1>8

\* Only a reconcile that is still fresh decides, and it was asked for.
LEMMA FreshWanted ==
  ASSUME NEW p, NEW X, NEW t \in Tasks, Runs(p, X), p.task[t].fresh
  PROVE  p.wanted
  BY DEF Runs, Lives, Wants

\* So does one that had to read the settings, if it is still fresh.
LEMMA LoadedRuns ==
  ASSUME NEW p, NEW t \in Tasks, Runs(p, {t}), NEW chosen
  PROVE  Runs(Loaded(p, t, chosen), {})
<1> DEFINE q == [p EXCEPT !.settings = chosen]
<1>1. Keeps(p, q)
  BY FieldsKeep DEF Runs, Lives, Shape
<1> HIDE DEF q
<1>2. p.task[t].fresh => Runs(Decide(q, t), {})
  BY <1>1, KeepsRuns, FreshWanted, DecideRuns DEF Keeps, Like
<1> QED BY <1>2, FinishRuns DEF Loaded, q

\* And one that had not.
LEMMA ReconcileRuns ==
  ASSUME NEW p, NEW t \in Tasks, Runs(p, {t}), ~p.task[t].cur
  PROVE  Runs(Reconcile(p, t), {})
<1>1. Runs(Finish(p, t), {}) /\ Runs(Await(p, t, "load"), {})
  BY FinishRuns, AwaitRuns DEF MayAwait
<1>2. p.task[t].fresh => Runs(Decide(p, t), {})
  BY FreshWanted, DecideRuns
<1> QED BY <1>1, <1>2 DEF Reconcile

\* The fields of a page that gives its session up.
LEMMA SwitchIs ==
  ASSUME NEW b, IsPage(b), AreTasks(b.task), NEW t \in Tasks, NEW sid
  PROVE  LET a == [b EXCEPT !.session = NoSession, !.abandoned = sid, !.switch = t] IN
         /\ IsPage(a)
         /\ a.renderer = b.renderer /\ a.alive = b.alive /\ a.timer = b.timer
         /\ a.queue = b.queue /\ a.wanted = b.wanted /\ a.destroyed = b.destroyed
         /\ a.task = b.task /\ a.phase = b.phase /\ a.session = NoSession
         /\ [b EXCEPT !.session = NoSession, !.abandoned = sid, !.switch = t, !.task[t].flow = "toWeb"]
              = [a EXCEPT !.task[t].flow = "toWeb"]
  BY DEF IsPage, PageField, AreTasks

\* The switch to WebGPU gives the session up before a renderer is made.
LEMMA SwitchToWebRuns ==
  ASSUME NEW p, NEW t \in Tasks, Runs(p, {t}), p.wanted, ~p.destroyed, ~p.renderer
  PROVE  Runs(SwitchToWeb(p, t), {})
<1> DEFINE b == BeginTransition(p, t)
           a == [b EXCEPT !.session = NoSession, !.abandoned = p.session, !.switch = t]
           q == [a EXCEPT !.task[t].flow = "toWeb"]
           c == CancelPending(q)
           m == Post(c, "stop", t, p.session)
<1>1. Runs(b, {t}) /\ b.renderer = p.renderer
  BY BeginRuns
<1>2. SwitchToWeb(p, t) =
        Await(Post(CancelPending([b EXCEPT !.session = NoSession, !.abandoned = p.session, !.switch = t,
                                           !.task[t].flow = "toWeb"]), "stop", t, p.session), t, "switchstop")
  BY DEF SwitchToWeb
<1> HIDE DEF b
<1>3. /\ IsPage(a)
      /\ a.renderer = b.renderer /\ a.alive = b.alive /\ a.timer = b.timer
      /\ a.queue = b.queue /\ a.wanted = b.wanted /\ a.destroyed = b.destroyed
      /\ a.task = b.task /\ a.phase = b.phase /\ a.session = NoSession
      /\ [b EXCEPT !.session = NoSession, !.abandoned = p.session, !.switch = t,
                   !.task[t].flow = "toWeb"] = q
  BY <1>1, SwitchIs DEF Runs, Lives, Shape
<1> HIDE DEF a
<1>4. Runs(a, {t})
  <2>1. Weaker(b, a)
    BY <1>1, <1>3, IdleWeaker DEF Runs, Lives
  <2> QED BY <1>1, <2>1, WeakerRuns DEF Runs
<1>5. Alters(a, q, t)
  BY <1>4, FlowRuns
<1> HIDE DEF q
<1>6. Runs(q, {t}) /\ ~q.renderer
  BY <1>1, <1>3, <1>5 DEF Alters, Like
<1>7. Runs(c, {t}) /\ ~c.renderer
  BY <1>6, CancelRuns DEF Like
<1> HIDE DEF c
<1>8. Runs(m, {t}) /\ ~m.renderer
  BY <1>7, PostRuns DEF Keeps, Like
<1> HIDE DEF m
<1>9. Runs(Await(m, t, "switchstop"), {})
  BY <1>8, AwaitRuns DEF MayAwait, Transits
<1> QED BY <1>2, <1>3, <1>9 DEF c, m

\* A settings change: each of its ways on.
LEMMA ApplySettingsRuns ==
  ASSUME NEW p, NEW t \in Tasks, Runs(p, {t}), ~p.task[t].cur, NEW to
  PROVE  Runs(ApplySettings(p, t, to), {})
<1> DEFINE q == [p EXCEPT !.settings = to, !.task[t].prev = p.settings]
           a == [q EXCEPT !.automatic = FALSE]
           i == [q EXCEPT !.automatic = FALSE, !.applied = FALSE]
           b == BeginTransition(q, t)
           m == Post(b, "update", t, p.session)
           r == [Await(q, t, "reconfig") EXCEPT !.task[t].stale = FALSE]
           result == ApplySettings(p, t, to)
<1>0. NativeActive(p) => ~p.renderer
  BY DEF NativeActive, Runs, Lives
<1>1. Alters(p, q, t)
  BY KindRuns
<1>2. \/ result \in {Finish(p, t), StopThen(a, t, TRUE, "end"), Finish(i, t),
                     StopThen(q, t, TRUE, "schedule"), Finish(Schedule(q), t)}
      \/ ~p.destroyed /\ NativeActive(p) /\ result \in {Await(m, t, "update"), SwitchToWeb(q, t)}
      \/ ~p.destroyed /\ p.renderer /\ result \in {SwitchToNative(b, t), r}
  <2>1. CASE p.destroyed
    BY <2>1 DEF ApplySettings
  <2>2. CASE ~p.destroyed /\ ~Enabled(to)
    BY <2>2 DEF ApplySettings
  <2>3. CASE ~p.destroyed /\ Enabled(to) /\ ~p.renderer /\ ~NativeActive(p)
    BY <2>3 DEF ApplySettings
  <2>4. CASE ~p.destroyed /\ Enabled(to) /\ NativeActive(p)
    BY <2>4, <1>0 DEF ApplySettings
  <2>5. CASE ~p.destroyed /\ Enabled(to) /\ p.renderer /\ ~NativeActive(p)
    BY <2>5 DEF ApplySettings
  <2> QED BY <2>1, <2>2, <2>3, <2>4, <2>5
<1> HIDE DEF q
<1>3. /\ Runs(q, {t}) /\ ~q.task[t].cur
      /\ q.renderer = p.renderer /\ q.phase = p.phase /\ q.destroyed = p.destroyed
  BY <1>1 DEF Alters, Like
<1>4. /\ Runs(Finish(p, t), {}) /\ Runs(StopThen(q, t, TRUE, "schedule"), {})
      /\ Runs(Finish(Schedule(q), t), {})
  BY <1>3, FinishRuns, StopThenRuns, ScheduleRuns DEF Ends
<1>5. Runs(StopThen(a, t, TRUE, "end"), {})
  <2>1. Runs(a, {t})
    BY <1>3, FieldsRun
  <2> HIDE DEF a
  <2> QED BY <2>1, StopThenRuns DEF Ends
<1>6. Runs(Finish(i, t), {})
  <2>1. Runs(a, {t})
    BY <1>3, FieldsRun
  <2>2. i = [a EXCEPT !.applied = FALSE]
    BY <1>3 DEF Runs, Lives, Shape, IsPage, PageField
  <2> HIDE DEF a
  <2>3. Runs(i, {t})
    BY <2>1, <2>2, FieldsRun
  <2> HIDE DEF i
  <2> QED BY <2>3, FinishRuns
<1>7. ASSUME ~p.destroyed, NativeActive(p)
      PROVE  Runs(Await(m, t, "update"), {}) /\ Runs(SwitchToWeb(q, t), {})
  <2>1. q.wanted /\ ~q.renderer
    BY <1>3, <1>7 DEF Runs, Lives, Wants, NativeActive
  <2>2. Runs(b, {t}) /\ ~b.renderer
    BY <1>3, <1>7, <2>1, BeginRuns
  <2> HIDE DEF b
  <2>3. Runs(m, {t}) /\ ~m.renderer
    BY <2>2, PostRuns DEF Keeps, Like
  <2> HIDE DEF m
  <2>4. Runs(Await(m, t, "update"), {})
    BY <2>3, AwaitRuns DEF MayAwait, Transits
  <2> QED BY <1>3, <1>7, <2>1, <2>4, SwitchToWebRuns
<1>8. ASSUME ~p.destroyed, p.renderer
      PROVE  /\ Runs(SwitchToNative(b, t), {})
             /\ Runs([Await(q, t, "reconfig") EXCEPT !.task[t].stale = FALSE], {})
  <2>1. q.wanted /\ q.renderer
    BY <1>3, <1>8 DEF Runs, Lives, Wants
  <2>2. Runs(SwitchToNative(b, t), {})
    BY <1>3, <1>8, <2>1, BeginRuns, SwitchToNativeRuns
  <2>3. Runs([Await(q, t, "reconfig") EXCEPT !.task[t].stale = FALSE], {})
    BY <1>3, <2>1, AwaitAfresh DEF MayAwait
  <2> QED BY <2>2, <2>3
<1> QED BY <1>2, <1>4, <1>5, <1>6, <1>7, <1>8

\* An auto-cap step.
LEMMA ApplyCapRuns ==
  ASSUME NEW p, NEW t \in Tasks, Runs(p, {t}), ~p.task[t].cur
  PROVE  Runs(ApplyCapStep(p, t), {})
<1>1. Runs(Finish(p, t), {})
  BY FinishRuns
<1>2. p.renderer => Runs([Await(p, t, "reconfig") EXCEPT !.task[t].stale = FALSE], {})
  BY AwaitAfresh DEF MayAwait
<1> QED BY <1>1, <1>2 DEF ApplyCapStep

-----------------------------------------------------------------------------
(* The actions. *)

\* An operation that resumes runs in a sound page, and was sound where it waited.
LEMMA RunPage ==
  ASSUME PageInv, NEW t \in Tasks, page.task[t].pc # "align"
  PROVE  Runs(page, {t}) /\ TaskSound(page, t)
  BY StartsRunning DEF PageInv, Runs, Lives

\* The claim was answered.
LEMMA ClaimedKeeps ==
  ASSUME PageInv, NEW t \in Tasks, Claimed(t)
  PROVE  PageInv'
<1>1. page.task[t].pc = "claim"
  BY DEF Claimed, Answered
<1>2. Runs(page, {t}) /\ (page.task[t].cur => ~page.renderer)
  BY <1>1, RunPage DEF TaskSound
<1>3. page' \in {Finish(page, t), Fail(page, t), Await(page, t, "slot"), Proceed(page, t)}
  BY DEF Claimed
<1>4. Runs(Finish(page, t), {}) /\ Runs(Fail(page, t), {}) /\ Runs(Proceed(page, t), {})
  BY <1>2, FinishRuns, FailRuns, ProceedRuns
<1>5. Runs(Await(page, t, "slot"), {})
  BY <1>2, AwaitRuns DEF MayAwait, Transits
<1> QED BY <1>3, <1>4, <1>5 DEF PageInv

\* The slot is free.
LEMMA SlotFreeKeeps ==
  ASSUME PageInv, NEW t \in Tasks, SlotFree(t)
  PROVE  PageInv'
<1>1. page.task[t].pc = "slot"
  BY DEF SlotFree, Resumed
<1>2. Runs(page, {t}) /\ TaskSound(page, t)
  BY <1>1, RunPage
<1>3. \/ page' \in {Finish(page, t), Commit(page, t)}
      \/ page' = Proceed(page, t) /\ page.task[t].cur /\ page.task[t].flow = "start"
  BY DEF SlotFree
<1>4. Runs(Finish(page, t), {}) /\ Runs(Commit(page, t), {})
  BY <1>2, FinishRuns, CommitRuns
<1>5. page.task[t].cur /\ page.task[t].flow = "start" => Runs(Proceed(page, t), {})
  BY <1>2, ProceedRuns DEF TaskSound
<1> QED BY <1>3, <1>4, <1>5 DEF PageInv

\* The renderer was made, or could not be.
LEMMA CreatedKeeps ==
  ASSUME PageInv, NEW t \in Tasks, Created(t)
  PROVE  PageInv'
<1>1. page.task[t].pc = "create"
  BY DEF Created, Resumed
<1>2. Runs(page, {t}) /\ (page.task[t].cur => ~page.renderer)
  BY <1>1, RunPage DEF TaskSound
<1>3. PICK busy \in BOOLEAN : page' \in {RendererCreated(page, t, busy), InitFailed(page, t)}
  BY DEF Created
<1> QED BY <1>2, <1>3, CreatedRuns, InitFailedRuns DEF PageInv

\* Waiting once more is waiting anew.
LEMMA FreshenIs ==
  ASSUME NEW p, IsPage(p), AreTasks(p.task), NEW t \in Tasks, p.task[t].pc = "align"
  PROVE  [p EXCEPT !.task[t].stale = FALSE] = [Await(p, t, "align") EXCEPT !.task[t].stale = FALSE]
  BY DEF IsPage, PageField, AreTasks, IsTask, TaskField, Await

\* The renderer followed the node, or could not.
LEMMA AlignedKeeps ==
  ASSUME PageInv, NEW t \in Tasks, Aligned(t)
  PROVE  PageInv'
<1> DEFINE dropped == [page EXCEPT !.alive = page.alive - 1, !.task[t].made = FALSE]
           moved == [page EXCEPT !.task[t].stale = FALSE]
<1>1. page.task[t].pc = "align"
  BY DEF Aligned, Resumed
<1>2. Runs(dropped, {t})
  BY <1>1, DroppedRuns DEF PageInv
<1>3. PICK busy \in BOOLEAN :
        \/ page' \in {Finish(dropped, t), InitFailed(dropped, t)}
        \/ page.task[t].cur /\ page' \in {moved, OwnRenderer(page, t, busy)}
  BY DEF Aligned
<1> HIDE DEF dropped
<1>4. Runs(Finish(dropped, t), {}) /\ Runs(InitFailed(dropped, t), {})
  BY <1>2, FinishRuns, InitFailedRuns
<1>5. ASSUME page.task[t].cur
      PROVE  Runs(moved, {}) /\ Runs(OwnRenderer(page, t, busy), {})
  <2>1. Holds(page, t)
    BY <1>1, <1>5, AlignHolds DEF PageInv
  <2>2. moved = [Await(page, t, "align") EXCEPT !.task[t].stale = FALSE]
    BY <1>1, FreshenIs DEF PageInv, Runs, Lives, Shape
  <2>3. Runs([Await(page, t, "align") EXCEPT !.task[t].stale = FALSE], {})
    BY <2>1, HoldsAwait
  <2> HIDE DEF moved
  <2> QED BY <2>1, <2>2, <2>3, OwnRuns
<1> QED BY <1>3, <1>4, <1>5 DEF PageInv

\* Native is active in a page that the operation t still runs for.
LEMMA ActiveIs ==
  ASSUME NEW p, IsPage(p), NEW sid
  PROVE  LET q == [MarkActive(p, "native-active") EXCEPT !.session = sid] IN
         /\ IsPage(q)
         /\ q.renderer = p.renderer /\ q.alive = p.alive /\ q.timer = p.timer
         /\ q.queue = p.queue /\ q.wanted = p.wanted /\ q.destroyed = p.destroyed
         /\ q.task = p.task /\ q.phase \in {p.phase, "native-active"} /\ q.session = sid
  BY DEF IsPage, PageField, MarkActive

\* Native capture may become active where no renderer is owned and somebody wants it.
LEMMA ActiveRuns ==
  ASSUME NEW p, NEW t \in Tasks, Runs(p, {t}), p.wanted, ~p.renderer, NEW sid
  PROVE  Runs([MarkActive(p, "native-active") EXCEPT !.session = sid], {t})
<1> DEFINE q == [MarkActive(p, "native-active") EXCEPT !.session = sid]
<1>1. /\ IsPage(q)
      /\ q.renderer = p.renderer /\ q.alive = p.alive /\ q.timer = p.timer
      /\ q.queue = p.queue /\ q.wanted = p.wanted /\ q.destroyed = p.destroyed
      /\ q.task = p.task /\ q.phase \in {p.phase, "native-active"} /\ q.session = sid
  BY ActiveIs DEF Runs, Lives, Shape
<1> HIDE DEF q
<1>2. Runs(q, {t})
  BY <1>1 DEF Runs, Lives, Shape, Counted, Spent, TaskSound
<1> QED BY <1>2 DEF q

\* Also again, with the session it had.
LEMMA MarkActiveRuns ==
  ASSUME NEW p, NEW t \in Tasks, Runs(p, {t}), p.wanted, ~p.renderer
  PROVE  Runs(MarkActive(p, "native-active"), {t})
<1>1. MarkActive(p, "native-active") = [MarkActive(p, "native-active") EXCEPT !.session = p.session]
  BY DEF MarkActive, Runs, Lives, Shape, IsPage, PageField
<1>2. Runs([MarkActive(p, "native-active") EXCEPT !.session = p.session], {t})
  BY ActiveRuns
<1> QED BY <1>1, <1>2

\* The latest operation is wanted.
LEMMA CurWanted ==
  ASSUME NEW p, NEW X, NEW t \in Tasks, Runs(p, X), p.task[t].cur
  PROVE  p.wanted
  BY DEF Runs, Lives, Wants

\* The invariant does not read the ledger.
LEMMA SettledKeeps ==
  ASSUME NEW p, NEW t \in Tasks, Runs(p, {t})
  PROVE  Runs(Settled(p, t), {t}) /\ Keeps(p, Settled(p, t))
<1> DEFINE x == IF p.pending = t THEN Nobody ELSE p.pending
           q == [p EXCEPT !.pending = x]
<1>1. Settled(p, t) = q
  BY DEF Settled
<1> HIDE DEF x
<1>2. Keeps(p, q)
  BY FieldsKeep DEF Runs, Lives, Shape
<1> QED BY <1>1, <1>2, KeepsRuns

\* The request was answered.
LEMMA FallbackKeeps ==
  ASSUME PageInv, NEW t \in Tasks, FallbackAnswered(t)
  PROVE  PageInv'
<1> DEFINE r == Head(inbox)
           q == Settled(page, t)
           m == Post(page, "stop", t, r.sid)
           a == [MarkActive(q, "native-active") EXCEPT !.session = r.sid]
<1>1. page.task[t].pc = "fallback"
  BY DEF FallbackAnswered, Answered
<1>2. Runs(page, {t}) /\ (page.task[t].cur => ~page.renderer)
  BY <1>1, RunPage DEF TaskSound
<1>3. PICK busy \in BOOLEAN :
        \/ page' \in {Await(m, t, "absorb"), Finish(q, t), Fail(q, t)}
        \/ page.task[t].cur /\ page' = BackendUp(a, t, busy)
  BY DEF FallbackAnswered
<1>4. Runs(q, {t}) /\ Keeps(page, q)
  BY <1>2, SettledKeeps
<1> HIDE DEF q
<1>5. Runs(m, {t}) /\ Keeps(page, m)
  BY <1>2, PostRuns
<1> HIDE DEF m
<1>6. Runs(Await(m, t, "absorb"), {})
  <2>1. m.task[t].cur => ~m.renderer
    BY <1>2, <1>5 DEF Keeps, Like
  <2> QED  BY <1>5, <2>1, AwaitRuns DEF MayAwait, Transits
<1>7. Runs(Finish(q, t), {}) /\ Runs(Fail(q, t), {})
  BY <1>4, FinishRuns, FailRuns
<1>8. ASSUME page.task[t].cur
      PROVE  Runs(BackendUp(a, t, busy), {})
  <2>1. Runs(a, {t})
    BY <1>2, <1>4, <1>8, CurWanted, ActiveRuns DEF Keeps, Like
  <2> HIDE DEF a
  <2> QED BY <2>1, BackendUpRuns
<1> QED BY <1>3, <1>6, <1>7, <1>8 DEF PageInv

\* The late session was stopped.
LEMMA AbsorbedKeeps ==
  ASSUME PageInv, NEW t \in Tasks, Absorbed(t)
  PROVE  PageInv'
<1>1. page.task[t].pc = "absorb"
  BY DEF Absorbed, Answered
<1>2. Runs(Settled(page, t), {t})
  BY <1>1, RunPage, SettledKeeps
<1> QED BY <1>2, FailRuns, FinishRuns DEF Absorbed, PageInv

\* The stop was answered.
LEMMA StoppedKeeps ==
  ASSUME PageInv, NEW t \in Tasks, Stopped(t)
  PROVE  PageInv'
<1>1. page.task[t].pc = "stopping" /\ page' = AfterStop(page, t)
  BY DEF Stopped, Answered
<1>2. Runs(page, {t})
  BY <1>1, RunPage
<1> QED BY <1>1, <1>2, AfterStopRuns DEF PageInv

\* The update was answered.
LEMMA UpdateKeeps ==
  ASSUME PageInv, NEW t \in Tasks, UpdateAnswered(t)
  PROVE  PageInv'
<1> DEFINE a == MarkActive(page, "native-active")
           alive == IF page.session # NoSession THEN a ELSE page
           prev == page.task[t].prev
           q == [alive EXCEPT !.settings = prev]
<1>1. page.task[t].pc = "update"
  BY DEF UpdateAnswered, Answered
<1>2. Runs(page, {t}) /\ (page.task[t].cur => ~page.renderer)
  BY <1>1, RunPage DEF TaskSound
<1>3. \/ page' = Finish(page, t)
      \/ page.task[t].cur /\ page' \in {Finish(alive, t), Finish(q, t)}
  BY DEF UpdateAnswered, Updated
<1>4. ASSUME page.task[t].cur
      PROVE  Runs(Finish(alive, t), {}) /\ Runs(Finish(q, t), {})
  <2>1. Runs(a, {t})
    BY <1>2, <1>4, CurWanted, MarkActiveRuns
  <2> HIDE DEF a
  <2>2. Runs(alive, {t})
    BY <1>2, <2>1
  <2> HIDE DEF alive, prev
  <2>3. Runs(q, {t})
    BY <2>2, FieldsRun
  <2> HIDE DEF q
  <2> QED BY <2>2, <2>3, FinishRuns
<1> QED BY <1>2, <1>3, <1>4, FinishRuns DEF PageInv

\* The stop of a switch was answered.
LEMMA SwitchStoppedKeeps ==
  ASSUME PageInv, NEW t \in Tasks, SwitchStopped(t)
  PROVE  PageInv'
<1> DEFINE m == Post(page, "claim", t, NoSession)
<1>1. page.task[t].pc = "switchstop" /\ page' \in {Await(m, t, "claim"), Finish(page, t)}
  BY DEF SwitchStopped, Answered
<1>2. Runs(page, {t}) /\ (page.task[t].cur => ~page.renderer)
  BY <1>1, RunPage DEF TaskSound
<1>3. Runs(m, {t}) /\ Keeps(page, m)
  BY <1>2, PostRuns
<1> HIDE DEF m
<1>4. Runs(Await(m, t, "claim"), {})
  BY <1>2, <1>3, AwaitRuns DEF MayAwait, Transits, Keeps, Like
<1> QED BY <1>1, <1>2, <1>4, FinishRuns DEF PageInv

\* The renderer was reconfigured, or failed.
LEMMA ReconfiguredKeeps ==
  ASSUME PageInv, NEW t \in Tasks, Reconfigured(t)
  PROVE  PageInv'
<1> DEFINE prev == page.task[t].prev
           q == [page EXCEPT !.settings = prev]
<1>1. page.task[t].pc = "reconfig"
  BY DEF Reconfigured, Resumed
<1>2. Runs(page, {t}) /\ (~page.task[t].stale => page.renderer)
  BY <1>1, RunPage DEF TaskSound
<1>3. \/ page' \in {Finish(page, t), StopThen(q, t, FALSE, "end"), Finish(q, t)}
      \/ ~page.task[t].stale /\ page' = HandleRendererError(page, t)
  BY DEF Reconfigured
<1> HIDE DEF prev
<1>4. Runs(q, {t})
  BY <1>2, FieldsRun
<1> HIDE DEF q
<1>5. Runs(StopThen(q, t, FALSE, "end"), {}) /\ Runs(Finish(q, t), {}) /\ Runs(Finish(page, t), {})
  BY <1>2, <1>4, StopThenRuns, FinishRuns DEF Ends
<1>6. ~page.task[t].stale => page.wanted
  BY <1>2 DEF Runs, Lives, Wants
<1> QED BY <1>2, <1>3, <1>5, <1>6, RendererErrorRuns DEF PageInv

\* An operation that ends without another word.
LEMMA DropTask ==
  ASSUME NEW p, NEW t \in Tasks, Runs(p, {t})
  PROVE  Runs([p EXCEPT !.task[t] = NoTask], {})
<1> DEFINE q == [p EXCEPT !.task[t] = NoTask]
<1>1. Puts(p, q, t, NoTask)
  BY DEF Runs, Lives, Shape, IsPage, PageField, Puts, Like
<1> HIDE DEF q
<1>2. Runs(q, {t})
  BY <1>1, NoTaskIs, RunningPuts
<1>3. q.task[t] = NoTask
  BY <1>1 DEF Puts, Runs, Lives, Shape, AreTasks
<1> QED BY <1>2, <1>3, NoTaskIs, Rests DEF TaskSound, q

\* The renderer follows the new node, or failed.
LEMMA SourceKeeps ==
  ASSUME PageInv, NEW t \in Tasks, SourceSwitched(t)
  PROVE  PageInv'
<1>1. page.task[t].pc = "source"
  BY DEF SourceSwitched, Resumed
<1>2. Runs(page, {t}) /\ (~page.task[t].stale => page.renderer)
  BY <1>1, RunPage DEF TaskSound
<1>3. \/ page' \in {Finish(page, t), [page EXCEPT !.task[t] = NoTask]}
      \/ ~page.task[t].stale /\ page' = HandleRendererError(page, t)
  BY DEF SourceSwitched
<1>4. ~page.task[t].stale => page.wanted
  BY <1>2 DEF Runs, Lives, Wants
<1> QED BY <1>2, <1>3, <1>4, RendererErrorRuns, FinishRuns, DropTask DEF PageInv

\* The settings were read.
LEMMA SettingsLoadedKeeps ==
  ASSUME PageInv, NEW t \in Tasks, SettingsLoaded(t)
  PROVE  PageInv'
<1>1. page.task[t].pc = "load" /\ page' \in {Loaded(page, t, stored), Finish(page, t)}
  BY DEF SettingsLoaded, Resumed
<1>2. Runs(page, {t})
  BY <1>1, RunPage
<1> QED BY <1>1, <1>2, LoadedRuns, FinishRuns DEF PageInv

-----------------------------------------------------------------------------
(* The queue. *)

\* q is p with the queue s and the operation r at t.
Takes(p, q, s, t, r) ==
  /\ IsPage(q)
  /\ q.renderer = p.renderer /\ q.alive = p.alive /\ q.session = p.session
  /\ q.phase = p.phase /\ q.timer = p.timer /\ q.queue = s
  /\ q.wanted = p.wanted /\ q.destroyed = p.destroyed
  /\ q.task = [p.task EXCEPT ![t] = r]

\* The fields of a page that took a job.
LEMMA TakeIs ==
  ASSUME NEW p, IsPage(p), NEW s, NEW t, NEW r
  PROVE  Takes(p, [p EXCEPT !.queue = s, !.task[t] = r], s, t, r)
  BY DEF IsPage, PageField, Takes

\* A job begins with nothing in its hands.
LEMMA JobTask ==
  ASSUME NEW k, NEW b \in BOOLEAN
  PROVE  LET r == [NoTask EXCEPT !.kind = k, !.fresh = b] IN
         IsTask(r) /\ ~r.made /\ ~r.cur /\ (r.fresh <=> b)
  BY DEF NoTask, IsTask, TaskField, Ends

\* The head of the queue is a job, and the rest is the queue without it.
LEMMA QueueHead ==
  ASSUME NEW s \in Seq(JobType), s # <<>>
  PROVE  /\ Head(s) \in JobType /\ Tail(s) \in Seq(JobType) /\ Head(s) = s[1] /\ 1 \in DOMAIN s
         /\ \A i \in DOMAIN Tail(s) : i + 1 \in DOMAIN s /\ Tail(s)[i] = s[i + 1]
  OBVIOUS

\* The queue starts a job: fresh only if it was fresh in the queue.
LEMMA RunJobKeeps ==
  ASSUME PageInv, RunJob
  PROVE  PageInv'
<1> DEFINE job == Head(page.queue)
           s == Tail(page.queue)
           t == "job"
           r == [NoTask EXCEPT !.kind = job.kind, !.fresh = job.fresh]
           p == [page EXCEPT !.queue = s, !.task[t] = r]
<1>1. /\ page.task[t].pc = "none" /\ page.queue # <<>>
      /\ page' = CASE job.kind = "reconcile" -> Reconcile(p, t)
                   [] job.kind = "update"    -> ApplySettings(p, t, job.to)
                   [] job.kind = "cap"       -> ApplyCapStep(p, t)
  BY DEF RunJob
<1>2. t \in Tasks
  BY DEF Tasks
<1> HIDE DEF t
<1>3. Runs(page, {t})
  BY <1>1, <1>2, RunPage
<1>4. /\ job \in JobType /\ s \in Seq(JobType) /\ job = page.queue[1] /\ 1 \in DOMAIN page.queue
      /\ \A i \in DOMAIN s : i + 1 \in DOMAIN page.queue /\ s[i] = page.queue[i + 1]
  <2>1. page.queue \in Seq(JobType)
    BY <1>3 DEF Runs, Lives, Shape
  <2> QED BY <1>1, <2>1, QueueHead
<1>5. job.kind \in {"reconcile", "update", "cap"} /\ job.fresh \in BOOLEAN
  BY <1>4 DEF JobType
<1>6. Takes(page, p, s, t, r)
  <2> HIDE DEF s, r
  <2> QED BY <1>3, TakeIs DEF Runs, Lives, Shape
<1>7. IsTask(r) /\ ~r.made /\ ~r.cur /\ (r.fresh <=> job.fresh)
  BY <1>5, JobTask
<1> HIDE DEF p, r, s
<1>8. Runs(p, {t}) /\ ~p.task[t].cur
  <2>1. /\ AreTasks(p.task) /\ p.task[t] = r
        /\ \A u \in Tasks \ {t} : p.task[u] = page.task[u]
    BY <1>2, <1>3, <1>6, <1>7, PutTask DEF Takes, Runs, Lives, Shape
  <2>2. MadeIn(p.task) = MadeIn(page.task)
    BY <1>2, <1>3, <1>7, <2>1 DEF MadeIn, Runs, Lives
  <2>3. Wants(p) => Wants(page)
    BY <1>4, <1>6, <1>7, <2>1 DEF Takes, Wants
  <2>4. \A u \in Tasks \ {t} : TaskSound(p, u)
    BY <1>3, <1>6, <2>1 DEF Takes, Runs, Lives, TaskSound
  <2>5. OneLatest(p.task) /\ Spent(p)
    BY <1>3, <1>6, <1>7, <2>1 DEF Takes, Runs, Lives, OneLatest, Spent
  <2> QED BY <1>3, <1>4, <1>6, <1>7, <2>1, <2>2, <2>3, <2>4, <2>5 DEF Takes, Runs, Lives, Shape, Counted
<1> HIDE DEF job
<1>9. /\ Runs(Reconcile(p, t), {}) /\ Runs(ApplySettings(p, t, job.to), {})
      /\ Runs(ApplyCapStep(p, t), {})
  BY <1>2, <1>8, ReconcileRuns, ApplySettingsRuns, ApplyCapRuns
<1> QED BY <1>1, <1>5, <1>9 DEF PageInv

\* A queue with one more job.
LEMMA QueueJob ==
  ASSUME NEW s \in Seq(JobType), NEW j \in JobType
  PROVE  /\ Append(s, j) \in Seq(JobType)
         /\ \A i \in DOMAIN Append(s, j) :
              (i \in DOMAIN s /\ Append(s, j)[i] = s[i]) \/ Append(s, j)[i] = j
  OBVIOUS

\* The fields of a page with one more job.
LEMMA QueuedIs ==
  ASSUME NEW p, IsPage(p), NEW kind, NEW fresh, NEW to
  PROVE  LET q == Queued(p, kind, fresh, to) IN
         /\ IsPage(q)
         /\ q.renderer = p.renderer /\ q.alive = p.alive /\ q.session = p.session
         /\ q.phase = p.phase /\ q.timer = p.timer
         /\ q.queue = Append(p.queue, [kind |-> kind, fresh |-> fresh, to |-> to])
         /\ q.wanted = p.wanted /\ q.destroyed = p.destroyed /\ q.task = p.task
  BY DEF IsPage, PageField, Queued

\* A fresh job is queued only when something is wanted.
LEMMA QueuedRuns ==
  ASSUME NEW p, NEW X, X \subseteq Tasks, Runs(p, X), NEW kind \in {"reconcile", "update", "cap"},
         NEW fresh \in BOOLEAN, NEW to \in Settings \cup {"none"}, fresh => p.wanted
  PROVE  Runs(Queued(p, kind, fresh, to), X)
<1> DEFINE q == Queued(p, kind, fresh, to)
           j == [kind |-> kind, fresh |-> fresh, to |-> to]
<1>1. j \in JobType /\ (j.fresh <=> fresh)
  BY DEF JobType
<1>2. /\ IsPage(q)
      /\ q.renderer = p.renderer /\ q.alive = p.alive /\ q.session = p.session
      /\ q.phase = p.phase /\ q.timer = p.timer
      /\ q.queue = Append(p.queue, j)
      /\ q.wanted = p.wanted /\ q.destroyed = p.destroyed /\ q.task = p.task
  BY QueuedIs DEF Runs, Lives, Shape
<1> HIDE DEF q, j
<1>3. /\ q.queue \in Seq(JobType)
      /\ \A i \in DOMAIN q.queue :
           (i \in DOMAIN p.queue /\ q.queue[i] = p.queue[i]) \/ q.queue[i] = j
  BY <1>1, <1>2, QueueJob DEF Runs, Lives, Shape
<1>4. Wants(q) => Wants(p) \/ q.wanted
  BY <1>1, <1>2, <1>3 DEF Wants
<1>5. Weaker(p, q)
  BY <1>2, <1>3, <1>4 DEF Weaker, Runs, Lives, Shape
<1> QED BY <1>5, WeakerRuns DEF Runs, q

\* The fields of a page with another timer.
LEMMA TimerIs ==
  ASSUME NEW p, IsPage(p), NEW x
  PROVE  LET q == [p EXCEPT !.timer = x] IN
         /\ IsPage(q)
         /\ q.renderer = p.renderer /\ q.alive = p.alive /\ q.session = p.session
         /\ q.phase = p.phase /\ q.timer = x /\ q.queue = p.queue
         /\ q.wanted = p.wanted /\ q.destroyed = p.destroyed /\ q.task = p.task
  BY DEF IsPage, PageField

\* A timer may be cleared.
LEMMA TimerOffRuns ==
  ASSUME NEW p, NEW X, X \subseteq Tasks, Runs(p, X)
  PROVE  Runs([p EXCEPT !.timer = "off"], X)
<1> DEFINE q == [p EXCEPT !.timer = "off"]
<1>1. /\ IsPage(q)
      /\ q.renderer = p.renderer /\ q.alive = p.alive /\ q.session = p.session
      /\ q.phase = p.phase /\ q.timer = "off" /\ q.queue = p.queue
      /\ q.wanted = p.wanted /\ q.destroyed = p.destroyed /\ q.task = p.task
  BY TimerIs DEF Runs, Lives, Shape
<1> HIDE DEF q
<1>2. Weaker(p, q)
  BY <1>1 DEF Weaker, Runs, Lives, Shape, Wants
<1> QED BY <1>2, WeakerRuns DEF Runs, q

\* The timer queues a reconcile, fresh if it was live.
LEMMA TimerKeeps ==
  ASSUME PageInv, TimerFires
  PROVE  PageInv'
<1> DEFINE q == [page EXCEPT !.timer = "off"]
           fresh == page.timer = "live"
<1>1. page' = Queued(q, "reconcile", fresh, "none")
  BY DEF TimerFires
<1>2. Runs(q, {})
  BY TimerOffRuns DEF PageInv
<1>3. fresh => q.wanted
  BY DEF PageInv, Runs, Lives, Wants, Shape, IsPage, PageField
<1> HIDE DEF q
<1>4. fresh \in BOOLEAN
  OBVIOUS
<1> HIDE DEF fresh
<1> QED BY <1>1, <1>2, <1>3, <1>4, QueuedRuns DEF PageInv

\* The constructor read the settings.
LEMMA ConstructedKeeps ==
  ASSUME PageInv, Constructed
  PROVE  PageInv'
<1> DEFINE q == IF page.destroyed THEN page ELSE [page EXCEPT !.settings = stored]
           s == Schedule(q)
<1>1. page' = [s EXCEPT !.constructing = FALSE]
  BY DEF Constructed
<1>2. Runs(q, {})
  BY FieldsRun DEF PageInv
<1> HIDE DEF q
<1>3. Runs(s, {})
  BY <1>2, ScheduleRuns
<1> HIDE DEF s
<1> QED BY <1>1, <1>3, FieldsRun DEF PageInv

\* The fields of a page without its session.
LEMMA EndIs ==
  ASSUME NEW q, IsPage(q), NEW x
  PROVE  LET r == [q EXCEPT !.session = NoSession, !.blocked = x] IN
         /\ IsPage(r)
         /\ r.renderer = q.renderer /\ r.alive = q.alive /\ r.timer = q.timer
         /\ r.queue = q.queue /\ r.wanted = q.wanted /\ r.destroyed = q.destroyed
         /\ r.task = q.task /\ r.phase = q.phase /\ r.session = NoSession
  BY DEF IsPage, PageField

\* A session ended.
LEMMA SessionEndedKeeps ==
  ASSUME PageInv, SessionEnded
  PROVE  PageInv'
<1> DEFINE idle == MarkIdle(page)
           reset == ResetEnhancement(page)
           ends(q, x) == [q EXCEPT !.session = NoSession, !.blocked = x]
<1>1. Runs(idle, {}) /\ Runs(reset, {})
  BY IdleRuns DEF PageInv
<1>2. PICK blocks \in BOOLEAN :
        page' \in {page, [idle EXCEPT !.session = NoSession, !.blocked = idle.blocked \/ blocks],
                   [reset EXCEPT !.blocked = reset.blocked \/ blocks]}
  BY DEF SessionEnded
<1> HIDE DEF idle, reset
<1>3. ASSUME NEW x PROVE Runs([idle EXCEPT !.session = NoSession, !.blocked = x], {})
  <2> DEFINE r == [idle EXCEPT !.session = NoSession, !.blocked = x]
  <2>1. /\ IsPage(r)
        /\ r.renderer = idle.renderer /\ r.alive = idle.alive /\ r.timer = idle.timer
        /\ r.queue = idle.queue /\ r.wanted = idle.wanted /\ r.destroyed = idle.destroyed
        /\ r.task = idle.task /\ r.phase = idle.phase /\ r.session = NoSession
    BY <1>1, EndIs DEF Runs, Lives, Shape
  <2> HIDE DEF r
  <2>2. Weaker(idle, r)
    BY <1>1, <2>1, IdleWeaker DEF Runs, Lives
  <2> QED BY <1>1, <2>2, WeakerRuns DEF Runs, r
<1>4. ASSUME NEW x PROVE Runs([reset EXCEPT !.blocked = x], {})
  BY <1>1, FieldsRun
<1> QED BY <1>2, <1>3, <1>4 DEF PageInv

\* The background took a message.
LEMMA ServeKeeps ==
  ASSUME PageInv, Serve
  PROVE  PageInv'
<1> DEFINE s == Tail(page.mail)
<1>1. page' = [page EXCEPT !.mail = s]
  BY DEF Serve
<1> HIDE DEF s
<1> QED BY <1>1, FieldsRun DEF PageInv

-----------------------------------------------------------------------------
(* What happens to the page. *)

\* An event finds an operation that does nothing.
LEMMA SideRuns ==
  ASSUME PageInv, NEW t, Side(t)
  PROVE  t \in Tasks /\ Runs(page, {t}) /\ ~page.task[t].cur
<1>1. t \in Tasks /\ page.task[t].pc = "none"
  BY DEF Side, Tasks
<1> QED BY <1>1, RunPage DEF TaskSound, Transits

\* Something changed in the page.
LEMMA ActivityKeeps ==
  ASSUME PageInv, Activity
  PROVE  PageInv'
<1>1. PICK full \in BOOLEAN : page' = Schedule([page EXCEPT !.full = full])
  BY DEF Activity
<1> DEFINE q == [page EXCEPT !.full = full]
<1>2. Runs(q, {})
  BY FieldsRun DEF PageInv
<1> HIDE DEF q
<1>3. Runs(Schedule(q), {})
  BY <1>2, ScheduleRuns
<1> QED BY <1>1, <1>3 DEF PageInv, q

\* The user changed the settings.
LEMMA UpdateSettingsKeeps ==
  ASSUME PageInv, ReapplySettings
  PROVE  PageInv'
<1>1. PICK to \in Settings : page' \in {Queued(page, "update", FALSE, to), page}
  BY DEF ReapplySettings
<1>2. Runs(Queued(page, "update", FALSE, to), {})
  BY QueuedRuns DEF PageInv
<1> QED BY <1>1, <1>2 DEF PageInv

\* The renderer is overloaded.
LEMMA OverloadKeeps ==
  ASSUME PageInv, OverloadStep
  PROVE  PageInv'
<1>1. page' = Queued(page, "cap", FALSE, "none")
  BY DEF OverloadStep
<1>2. Runs(Queued(page, "cap", FALSE, "none"), {})
  BY QueuedRuns DEF PageInv
<1> QED BY <1>1, <1>2 DEF PageInv

\* Another video was chosen.
LEMMA ForceStopKeeps ==
  ASSUME PageInv, NEW t, ForceStop(t)
  PROVE  PageInv'
  BY SideRuns, StopThenRuns DEF ForceStop, PageInv, Ends

\* The page came back from the cache.
LEMMA BfcacheKeeps ==
  ASSUME PageInv, NEW t, BfcacheRestore(t)
  PROVE  PageInv'
<1>1. t \in Tasks /\ Runs(page, {t})
  BY SideRuns DEF BfcacheRestore
<1>2. Runs(StopThen(page, t, TRUE, "schedule"), {})
  BY <1>1, StopThenRuns DEF Ends
<1> QED BY <1>2 DEF BfcacheRestore, PageInv

\* The video turned out to be protected: a start or a renderer was wanted.
LEMMA EncryptedKeeps ==
  ASSUME PageInv, NEW t, Encrypted(t)
  PROVE  PageInv'
<1> DEFINE p == [page EXCEPT !.protected = TRUE]
<1>1. t \in Tasks /\ Runs(page, {t}) /\ ~page.destroyed
  BY SideRuns DEF Encrypted
<1>2. \/ page' = p
      \/ /\ p.renderer \/ Starting(p)
         /\ page' = SwitchToNative(BeginTransition(p, t), t)
  BY DEF Encrypted
<1>3. Keeps(page, p)
  BY <1>1, FieldsKeep DEF Runs, Lives, Shape
<1> HIDE DEF p
<1>4. Runs(p, {}) /\ Runs(p, {t}) /\ ~p.destroyed
  BY <1>1, <1>3, KeepsRuns DEF Keeps, Like, PageInv
<1>5. p.renderer \/ Starting(p) => p.wanted
  BY <1>4 DEF Runs, Lives, Wants, Starting
<1>6. p.renderer \/ Starting(p) => Runs(SwitchToNative(BeginTransition(p, t), t), {})
  BY <1>1, <1>4, <1>5, BeginRuns, SwitchToNativeRuns
<1> QED BY <1>2, <1>4, <1>6 DEF PageInv

\* The renderer failed.
LEMMA ErrorKeeps ==
  ASSUME PageInv, NEW t, RendererError(t)
  PROVE  PageInv'
<1>1. t \in Tasks /\ Runs(page, {t}) /\ page.renderer /\ page' = HandleRendererError(page, t)
  BY SideRuns DEF RendererError
<1>2. page.wanted
  BY <1>1 DEF Runs, Lives, Wants
<1> QED BY <1>1, <1>2, RendererErrorRuns DEF PageInv

\* The target of the renderer is refreshed.
LEMMA RefreshKeeps ==
  ASSUME PageInv, NEW t, RefreshTarget(t)
  PROVE  PageInv'
<1>1. /\ t \in Tasks /\ Runs(page, {t}) /\ page.renderer /\ ~page.task[t].cur
      /\ page' = Await(page, t, "reconfig")
  BY SideRuns DEF RefreshTarget
<1> QED BY <1>1, AwaitRuns DEF PageInv, MayAwait

\* No first frame came.
LEMMA WatchdogKeeps ==
  ASSUME PageInv, NEW t, Watchdog(t)
  PROVE  PageInv'
<1> DEFINE q == [page EXCEPT !.restarted = TRUE]
<1>1. t \in Tasks /\ Runs(page, {t}) /\ page' = StopThen(q, t, TRUE, "restart")
  BY SideRuns DEF Watchdog
<1>2. Runs(q, {t})
  BY <1>1, FieldsRun
<1> HIDE DEF q
<1> QED BY <1>1, <1>2, StopThenRuns DEF PageInv, Ends

\* c differs from r in whether its node was removed.
LEMMA GoneTask ==
  ASSUME NEW r, IsTask(r), NEW x
  PROVE  LET c == [r EXCEPT !.gone = x] IN
         Moves(r, c) /\ c.pc = r.pc /\ c.flow = r.flow /\ (c.stale <=> r.stale)
  BY DEF IsTask, TaskField, Moves

\* The tasks of q are those of p, but for what the invariant reads of a renderer.
SameTasks(p, q) ==
  /\ AreTasks(q.task)
  /\ \A t \in Tasks :
       /\ Moves(p.task[t], q.task[t])
       /\ q.task[t].pc = p.task[t].pc /\ q.task[t].flow = p.task[t].flow
       /\ (p.task[t].stale => q.task[t].stale)

\* Such a page is as sound.
LEMMA SameTasksRun ==
  ASSUME NEW p, NEW q, Runs(p, {}), IsPage(q), SameTasks(p, q), q.wanted = p.wanted,
         q.renderer = p.renderer, q.alive = p.alive, q.session = p.session,
         q.phase = p.phase, q.queue = p.queue, q.destroyed = p.destroyed,
         q.timer \in {p.timer, "off"}
  PROVE  Runs(q, {})
<1>1. MadeIn(q.task) = MadeIn(p.task)
  BY DEF MadeIn, SameTasks, Moves
<1>2. Wants(q) => Wants(p)
  BY DEF Wants, SameTasks, Moves
<1>3. \A t \in Tasks : TaskSound(q, t)
  BY DEF SameTasks, Moves, TaskSound, Runs, Lives
<1>4. OneLatest(q.task) /\ Spent(q)
  BY DEF SameTasks, Moves, OneLatest, Spent, Runs, Lives
<1> QED BY <1>1, <1>2, <1>3, <1>4 DEF Runs, Lives, Shape, Counted, SameTasks

\* q is p with the tasks s and, perhaps, no timer.
Retasks(p, q, s) ==
  /\ IsPage(q)
  /\ q.renderer = p.renderer /\ q.alive = p.alive /\ q.session = p.session
  /\ q.phase = p.phase /\ q.queue = p.queue /\ q.task = s
  /\ q.wanted = p.wanted /\ q.destroyed = p.destroyed
  /\ q.timer \in {p.timer, "off"}

\* The fields of a page whose node was removed.
LEMMA GoneIs ==
  ASSUME NEW p, IsPage(p), NEW s
  PROVE  LET q == [p EXCEPT !.task = s] IN
         /\ Retasks(p, q, s)
         /\ Retasks(p, [q EXCEPT !.attached = FALSE, !.applied = FALSE, !.timer = "off"], s)
  BY DEF IsPage, PageField, Retasks

\* The node was removed.
LEMMA RemovedKeeps ==
  ASSUME PageInv, VideoRemoved
  PROVE  PageInv'
<1> DEFINE s == [t \in Tasks |->
                  [page.task[t] EXCEPT !.gone = page.task[t].gone \/ page.task[t].kind = "reattach"]]
           q == [page EXCEPT !.task = s]
           r == [q EXCEPT !.attached = FALSE, !.applied = FALSE, !.timer = "off"]
<1>1. page' \in {r, DestroyNow(q)}
  BY DEF VideoRemoved
<1>2. AreTasks(page.task) /\ Runs(page, {})
  BY DEF PageInv, Runs, Lives, Shape
<1>3. ASSUME NEW t \in Tasks
      PROVE  /\ Moves(page.task[t], s[t]) /\ s[t].pc = page.task[t].pc /\ s[t].flow = page.task[t].flow
             /\ (s[t].stale <=> page.task[t].stale)
  <2> DEFINE x == page.task[t].gone \/ page.task[t].kind = "reattach"
  <2>1. IsTask(page.task[t]) /\ s[t] = [page.task[t] EXCEPT !.gone = x]
    BY <1>2 DEF AreTasks
  <2> HIDE DEF s, x
  <2> QED BY <2>1, GoneTask
<1>4. AreTasks(s)
  BY <1>3 DEF AreTasks, Moves
<1> HIDE DEF s
<1>5. ASSUME NEW m, Retasks(page, m, s) PROVE Runs(m, {})
  <2>1. SameTasks(page, m)
    BY <1>3, <1>4, <1>5 DEF SameTasks, Retasks
  <2> QED BY <1>2, <1>5, <2>1, SameTasksRun DEF Retasks
<1>6. Retasks(page, q, s) /\ Retasks(page, r, s)
  BY <1>2, GoneIs DEF Runs, Lives, Shape
<1> HIDE DEF q, r
<1>7. Runs(DestroyNow(q), {})
  BY <1>5, <1>6, DestroyRuns
<1> QED BY <1>1, <1>5, <1>6, <1>7 DEF PageInv

\* The fields of a page with another node.
LEMMA NodeIs ==
  ASSUME NEW p, IsPage(p), NEW s
  PROVE  Retasks(p, [p EXCEPT !.attached = TRUE, !.timer = "off", !.task = s], s)
  BY DEF IsPage, PageField, Retasks

\* The fields of a page with another operation.
LEMMA PutsIs ==
  ASSUME NEW p, IsPage(p), NEW t, NEW r
  PROVE  Puts(p, [p EXCEPT !.task[t] = r], t, r)
  BY DEF IsPage, PageField, Puts, Like

\* A reattachment begins with nothing in its hands.
LEMMA ReattachTask == LET r == [NoTask EXCEPT !.kind = "reattach"] IN
                      IsTask(r) /\ ~r.made /\ ~r.cur /\ ~r.fresh /\ r.pc = "none"
  BY DEF NoTask, IsTask, TaskField, Ends

\* The enhancer got another node.
LEMMA ReattachKeeps ==
  ASSUME PageInv, NEW t, Reattach(t)
  PROVE  PageInv'
<1> DEFINE s == [u \in Tasks |->
                  [page.task[u] EXCEPT !.stale = page.task[u].stale \/ page.task[u].pc \in {"create", "align"}]]
           p == [page EXCEPT !.attached = TRUE, !.timer = "off", !.task = s]
           r == [NoTask EXCEPT !.kind = "reattach"]
           q == [p EXCEPT !.task[t] = r]
<1>1. page' = IF page.renderer THEN Await(q, t, "source") ELSE Finish(q, t)
  BY DEF Reattach
<1>2. AreTasks(page.task) /\ Runs(page, {}) /\ t \in Tasks /\ page.task[t].pc = "none"
  BY DEF PageInv, Runs, Lives, Shape, Reattach, Side, Tasks
<1>3. ASSUME NEW u \in Tasks
      PROVE  /\ Moves(page.task[u], s[u]) /\ s[u].pc = page.task[u].pc /\ s[u].flow = page.task[u].flow
             /\ (page.task[u].stale => s[u].stale)
  <2> DEFINE x == page.task[u].stale \/ page.task[u].pc \in {"create", "align"}
  <2>1. IsTask(page.task[u]) /\ s[u] = [page.task[u] EXCEPT !.stale = x]
    BY <1>2 DEF AreTasks
  <2>2. page.task[u].stale => x
    OBVIOUS
  <2> HIDE DEF s, x
  <2> QED BY <2>1, <2>2, MoveStale
<1>4. AreTasks(s)
  BY <1>3 DEF AreTasks, Moves
<1> HIDE DEF s
<1>5. Retasks(page, p, s)
  BY <1>2, NodeIs DEF Runs, Lives, Shape
<1> HIDE DEF p
<1>6. Runs(p, {}) /\ p.task[t].pc = "none"
  <2>1. SameTasks(page, p)
    BY <1>3, <1>4, <1>5 DEF SameTasks, Retasks
  <2> QED BY <1>2, <1>3, <1>5, <2>1, SameTasksRun DEF Retasks
<1>7. Runs(p, {t})
  BY <1>2, <1>6, StartsRunning
<1>8. IsTask(r) /\ ~r.made /\ ~r.cur /\ ~r.fresh
  BY ReattachTask
<1> HIDE DEF r
<1>9. Puts(p, q, t, r)
  BY <1>5, PutsIs DEF Retasks
<1> HIDE DEF q
<1>10. Runs(q, {t})
  BY <1>2, <1>7, <1>8, <1>9, RunningPuts
<1>11. q.task[t] = r /\ q.renderer = page.renderer
  BY <1>2, <1>5, <1>7, <1>9 DEF Retasks, Puts, Like, Runs, Lives, Shape, AreTasks
<1>12. Runs(Finish(q, t), {})
  BY <1>2, <1>10, FinishRuns
<1>13. page.renderer => Runs(Await(q, t, "source"), {})
  BY <1>2, <1>8, <1>10, <1>11, AwaitRuns DEF MayAwait
<1> QED BY <1>1, <1>12, <1>13 DEF PageInv

\* The enhancer is destroyed.
LEMMA DestroyKeeps ==
  ASSUME PageInv, Destroy
  PROVE  PageInv'
  BY DestroyRuns DEF Destroy, PageInv

-----------------------------------------------------------------------------
(* The theorems. *)

\* The invariant holds at first.
LEMMA PageInit ==
  ASSUME EnhancerInit
  PROVE  PageInv
<1>1. /\ IsPage(page) /\ page.queue = <<>> /\ page.alive = 0
      /\ page.task = [t \in Tasks |-> NoTask]
  BY DEF EnhancerInit, IsPage, PageField
<1>2. AreTasks(page.task) /\ \A t \in Tasks : page.task[t] = NoTask
  BY <1>1, NoTaskIs DEF AreTasks
<1>3. MadeIn(page.task) = {}
  BY <1>2, NoTaskIs DEF MadeIn
<1>5. /\ ~page.renderer /\ page.session = NoSession /\ page.phase = "idle"
      /\ page.timer = "off" /\ page.queue = <<>>
  BY DEF EnhancerInit
<1>4. Counted(page)
  <2>1. IsFiniteSet(MadeIn(page.task)) /\ Cardinality(MadeIn(page.task)) = 0
    BY <1>3, FS_EmptySet
  <2>2. page.alive = 0 /\ ~page.renderer
    BY <1>1, <1>5
  <2> QED  BY <2>1, <2>2 DEF Counted
<1>6. ~Wants(page)
  BY <1>2, <1>5, NoTaskIs DEF Wants
<1>7. \A t \in Tasks : TaskSound(page, t)
  BY <1>2, NoTaskIs DEF TaskSound
<1>8. OneLatest(page.task) /\ Spent(page)
  BY <1>2, <1>5, NoTaskIs DEF OneLatest, Spent
<1> QED BY <1>1, <1>2, <1>4, <1>5, <1>6, <1>7, <1>8 DEF PageInv, Runs, Lives, Shape

\* Every step keeps it.
LEMMA PageStep ==
  ASSUME PageInv, [EnhancerNext]_enhancerVars
  PROVE  PageInv'
<1>1. CASE UNCHANGED page
  BY <1>1 DEF PageInv
<1>2. ASSUME NEW t \in Tasks,
             \/ Claimed(t) \/ SlotFree(t) \/ Created(t) \/ Aligned(t) \/ FallbackAnswered(t)
             \/ Absorbed(t) \/ Stopped(t) \/ UpdateAnswered(t) \/ SwitchStopped(t)
             \/ Reconfigured(t) \/ SourceSwitched(t) \/ SettingsLoaded(t)
      PROVE  PageInv'
  BY <1>2, ClaimedKeeps, SlotFreeKeeps, CreatedKeeps, AlignedKeeps, FallbackKeeps,
     AbsorbedKeeps, StoppedKeeps, UpdateKeeps, SwitchStoppedKeeps, ReconfiguredKeeps,
     SourceKeeps, SettingsLoadedKeeps
<1>3. CASE RunJob \/ TimerFires \/ Constructed \/ SessionEnded \/ Serve
  BY <1>3, RunJobKeeps, TimerKeeps, ConstructedKeeps, SessionEndedKeeps, ServeKeeps
<1>4. CASE Activity \/ ReapplySettings \/ OverloadStep \/ VideoRemoved \/ Destroy
  BY <1>4, ActivityKeeps, UpdateSettingsKeeps, OverloadKeeps, RemovedKeeps, DestroyKeeps
<1>5. CASE HostEnds
  BY <1>1, <1>5 DEF HostEnds
<1>6. ASSUME NEW t \in Sides,
             \/ ForceStop(t) \/ BfcacheRestore(t) \/ Encrypted(t) \/ RendererError(t)
             \/ RefreshTarget(t) \/ Watchdog(t) \/ Reattach(t)
      PROVE  PageInv'
  BY <1>6, ForceStopKeeps, BfcacheKeeps, EncryptedKeeps, ErrorKeeps, RefreshKeeps,
     WatchdogKeeps, ReattachKeeps
<1> QED BY <1>1, <1>2, <1>3, <1>4, <1>5, <1>6 DEF EnhancerNext, enhancerVars

\* The invariant is one, for any number of overlapping operations and any settings.
THEOREM PageSound == EnhancerSpec => []PageInv
<1> QED BY PageInit, PageStep, PTL DEF EnhancerSpec

\* An explicit stop holds (StopsHold): a renderer, a session or a start is there only
\* while something has asked for it since, in every interleaving of the operations.
THEOREM StopsHeld == EnhancerSpec => []StopsHold
<1>1. PageInv => StopsHold
  BY DEF PageInv, Runs, Lives, Wants, StopsHold
<1> QED BY <1>1, PageSound, PTL

\* Every renderer that was not destroyed is the enhancer's own or in the hands of the
\* one start that made it (RenderersAccounted): none leaks and none is destroyed twice.
THEOREM RenderersCounted == EnhancerSpec => []RenderersAccounted
<1>1. ASSUME PageInv PROVE RenderersAccounted
  <2>1. page.alive = Cardinality(MadeIn(page.task)) + (IF page.renderer THEN 1 ELSE 0)
    BY <1>1 DEF PageInv, Runs, Lives, Counted
  <2>2. MadeIn(page.task) = {t \in Tasks : page.task[t].made}
    BY DEF MadeIn
  <2> QED  BY <2>1, <2>2 DEF RenderersAccounted
<1> QED BY <1>1, PageSound, PTL

-----------------------------------------------------------------------------
(***************************************************************************)
(* The phase tells what the enhancer holds.                                *)
(***************************************************************************)
Phases == {"idle", "starting", "webgpu-active", "native-active"}
Waits == {"claim", "fallback", "absorb", "stopping", "update", "switchstop"}
Asks(pc) == CASE pc = "claim" -> "claim" [] pc = "fallback" -> "start"
              [] pc = "update" -> "update" [] OTHER -> "stop"

\* The latest operation has nothing in its hands yet: no session either.
Bare(r) == r.pc \in {"claim", "create", "align", "switchstop"} \/ (r.pc = "slot" /\ r.flow = "start")

\* What the phase may be while the latest operation waits where it does.
Placed(p, t) ==
  p.task[t].cur =>
    /\ Bare(p.task[t]) => p.phase \in {"starting", "idle"} /\ p.session = NoSession
    /\ p.task[t].pc \in {"fallback", "absorb", "update"} => p.phase \in {"starting", "idle"}
    /\ p.task[t].pc = "update" /\ p.phase = "starting" => p.session # NoSession
    /\ p.task[t].pc = "slot" /\ p.task[t].flow # "start" => p.phase # "starting"

\* What the phase tells while the operations in X run.
Phased(p, X) ==
  /\ p.phase \in Phases
  /\ p.renderer <=> p.phase = "webgpu-active"
  /\ p.phase = "native-active" => p.session # NoSession
  /\ p.session # NoSession => p.phase \in {"native-active", "starting"}
  /\ p.phase = "starting" => \E t \in Tasks : p.task[t].cur
  /\ \A t \in Tasks \ X : Placed(p, t)

\* q looks like p, and an operation stands in q where it stood in p.
Sees(p, q) ==
  /\ Shape(q)
  /\ q.phase = p.phase /\ q.renderer = p.renderer /\ q.session = p.session
  /\ q.abandoned = p.abandoned /\ q.mail = p.mail /\ q.destroyed = p.destroyed
Stands(p, q, u) ==
  /\ q.task[u].pc = p.task[u].pc /\ q.task[u].flow = p.task[u].flow
  /\ (q.task[u].cur <=> p.task[u].cur)
Same(p, q) == Sees(p, q) /\ \A u \in Tasks : Stands(p, q, u)
View(p, q, t) ==
  /\ Sees(p, q)
  /\ \A u \in Tasks \ {t} : Stands(p, q, u)
  /\ (q.task[t].cur <=> p.task[t].cur)

\* At most one message leaves the page: it is the one its sender waits for, or the stop of a
\* destroyed enhancer, for which nobody waits.
Letters(p) == [op : {"claim", "start", "update", "stop"}, from : Tasks \cup {Nobody},
               sid : Nat \cup {p.session}]
Said(p, q, t) ==
  \/ q.mail = p.mail /\ q.task[t].pc \notin Waits
  \/ \E m \in Letters(p) :
       /\ q.mail = Append(p.mail, m)
       /\ \/ m.from = Nobody /\ q.task[t].pc \notin Waits
          \/ m.from = t /\ q.task[t].pc \in Waits /\ m.op = Asks(q.task[t].pc)

\* A start goes on as one; an operation that supersedes it asks for native capture.
GoesOn(p, q, t) ==
  p.phase = "starting" => /\ q.phase = "starting" /\ q.session = p.session
                          /\ q.task[t].cur => q.task[t].pc = "fallback"

\* What a handler of the operation t makes of the page.
Turns(p, q, t) ==
  /\ \A u \in Tasks \ {t} : q.task[u].pc = p.task[u].pc /\ (q.task[u].cur => p.task[u].cur)
  /\ q.abandoned \in {p.abandoned, NoSession}
  /\ Said(p, q, t)
  /\ ~p.task[t].cur => q.abandoned = NoSession \/ GoesOn(p, q, t)
Lands(p, q, t) ==
  Shape(q) /\ Phased(q, {}) /\ q.session \in {p.session, NoSession} /\ Turns(p, q, t)

\* What it may do on its way: bring a backend up or down, but say nothing.
Leads(p, q, t) ==
  /\ q.session \in {p.session, NoSession} /\ q.abandoned \in {p.abandoned, NoSession}
  /\ q.mail = p.mail
  /\ \A u \in Tasks \ {t} : q.task[u].pc = p.task[u].pc /\ (q.task[u].cur => p.task[u].cur)

\* What an operation changed of its own on the way does not matter.
LEMMA ViewPhased ==
  ASSUME NEW p, NEW q, NEW t \in Tasks, Phased(p, {t}), View(p, q, t)
  PROVE  Phased(q, {t})
  BY DEF Phased, View, Sees, Stands, Placed, Bare

\* What is seen alike on the way does not change where a handler lands.
LEMMA ViewLands ==
  ASSUME NEW p, NEW q, NEW r, NEW t \in Tasks, View(p, q, t), Lands(q, r, t)
  PROVE  Lands(p, r, t)
<1>1. Said(p, r, t)
  BY DEF View, Sees, Lands, Turns, Said, Letters
<1>2. ~p.task[t].cur => r.abandoned = NoSession \/ GoesOn(p, r, t)
  BY DEF View, Sees, Lands, Turns, GoesOn
<1> QED BY <1>1, <1>2 DEF View, Sees, Stands, Lands, Turns

\* Nor does a backend that comes up or goes down on the way, while nothing is said.
LEMMA LeadsLands ==
  ASSUME NEW p, NEW q, NEW r, NEW t \in Tasks, Leads(p, q, t), Lands(q, r, t),
         ~p.task[t].cur => r.abandoned = NoSession \/ GoesOn(p, r, t)
  PROVE  Lands(p, r, t)
<1>1. Said(p, r, t)
  BY DEF Leads, Lands, Turns, Said, Letters, NoSession
<1> QED BY <1>1 DEF Leads, Lands, Turns

\* Two such ways are one.
LEMMA ViewView ==
  ASSUME NEW p, NEW q, NEW r, NEW t \in Tasks, View(p, q, t), View(q, r, t)
  PROVE  View(p, r, t)
  BY DEF View, Sees, Stands

\* The methods that change no more than flags.
LEMMA FlagMethods ==
  ASSUME NEW p, IsPage(p)
  PROVE  /\ \A q \in {Superseded(p), InvalidateReconcile(p), ReleaseRenderer(p), CancelPending(p)} :
              q.mail = p.mail /\ q.abandoned = p.abandoned
         /\ MarkIdle(p).mail = p.mail /\ MarkIdle(p).abandoned = p.abandoned
         /\ ResetEnhancement(p).mail = p.mail /\ ResetEnhancement(p).abandoned = p.abandoned
  BY DEF IsPage, PageField, Superseded, InvalidateReconcile, ReleaseRenderer, CancelPending, MarkIdle,
     ResetEnhancement

\* A new revision is the latest: no other operation is.
LEMMA SupersededSees ==
  ASSUME NEW p, Shape(p)
  PROVE  LET q == Superseded(p) IN
         /\ Sees(p, q)
         /\ \A u \in Tasks : ~q.task[u].cur /\ q.task[u].pc = p.task[u].pc /\ q.task[u].flow = p.task[u].flow
  BY SupersededIs, SupersededWeaker, FlagMethods DEF Shape, Weaker, Sees, Like

\* A new reconcile token changes nothing the phase is about.
LEMMA InvalidateSees ==
  ASSUME NEW p, Shape(p)
  PROVE  LET q == InvalidateReconcile(p) IN Sees(p, q) /\ \A u \in Tasks : Stands(p, q, u)
<1> DEFINE q == InvalidateReconcile(p)
<1>1. Weaker(p, q) /\ \A t \in Tasks : q.task[t].cur <=> p.task[t].cur
  BY InvalidateWeaker
<1>2. /\ q.renderer = p.renderer /\ q.session = p.session /\ q.phase = p.phase
      /\ q.destroyed = p.destroyed /\ q.mail = p.mail /\ q.abandoned = p.abandoned
  BY InvalidateIs, FlagMethods DEF Shape
<1> QED BY <1>1, <1>2 DEF Weaker, Sees, Stands

\* Neither does scheduling a reconcile,
LEMMA ScheduleSees ==
  ASSUME NEW p, Shape(p)
  PROVE  LET q == Schedule(p) IN Sees(p, q) /\ \A u \in Tasks : Stands(p, q, u)
<1> DEFINE q == InvalidateReconcile(p)
           s == [q EXCEPT !.timer = "live", !.wanted = TRUE]
<1>1. Sees(p, q) /\ \A u \in Tasks : Stands(p, q, u)
  BY InvalidateSees
<1> HIDE DEF q
<1>2. /\ IsPage(s)
      /\ s.renderer = q.renderer /\ s.session = q.session /\ s.phase = q.phase
      /\ s.destroyed = q.destroyed /\ s.queue = q.queue /\ s.task = q.task
      /\ s.mail = q.mail /\ s.abandoned = q.abandoned
  BY <1>1 DEF Sees, Shape, IsPage, PageField
<1> HIDE DEF s
<1>3. Sees(p, s) /\ \A u \in Tasks : Stands(p, s, u)
  BY <1>1, <1>2 DEF Sees, Shape, Stands
<1>4. Sees(p, p) /\ \A u \in Tasks : Stands(p, p, u)
  BY DEF Sees, Stands
<1> QED BY <1>3, <1>4 DEF Schedule, q, s

\* marking a request as stopped,
LEMMA CancelSees ==
  ASSUME NEW p, Shape(p)
  PROVE  LET q == CancelPending(p) IN Sees(p, q) /\ \A u \in Tasks : Stands(p, q, u)
<1> DEFINE q == CancelPending(p)
<1>1. /\ Like(p, q) /\ q.mail = p.mail /\ q.abandoned = p.abandoned
      /\ \/ q.task = p.task
         \/ /\ p.pending \in Tasks
            /\ q.task = [p.task EXCEPT ![p.pending] = [p.task[p.pending] EXCEPT !.cancelled = TRUE]]
  BY CancelIs, FlagMethods DEF Shape
<1> HIDE DEF q
<1>2. AreTasks(q.task) /\ \A u \in Tasks : Stands(p, q, u)
  <2>1. CASE q.task = p.task
    BY <2>1 DEF Stands, Shape
  <2>2. CASE /\ p.pending \in Tasks
             /\ q.task = [p.task EXCEPT ![p.pending] = [p.task[p.pending] EXCEPT !.cancelled = TRUE]]
    <3> DEFINE r == [p.task[p.pending] EXCEPT !.cancelled = TRUE]
    <3>1. AreTasks(p.task) /\ IsTask(p.task[p.pending])
      BY <2>2 DEF Shape, AreTasks
    <3>2. SameTask(p.task[p.pending], r) /\ (r.cur <=> p.task[p.pending].cur)
      BY <3>1, CancelTask
    <3>3. q.task = [p.task EXCEPT ![p.pending] = r]
      BY <2>2
    <3> HIDE DEF r
    <3>4. /\ AreTasks(q.task) /\ q.task[p.pending] = r
          /\ \A u \in Tasks \ {p.pending} : q.task[u] = p.task[u]
      BY <2>2, <3>1, <3>2, <3>3, PutTask DEF SameTask
    <3> QED BY <2>2, <3>2, <3>4 DEF SameTask, Stands
  <2> QED BY <1>1, <2>1, <2>2
<1> QED BY <1>1, <1>2 DEF Sees, Shape, Like, q

\* or destroying the renderer, apart from the renderer.
LEMMA ReleaseSees ==
  ASSUME NEW p, Shape(p)
  PROVE  LET q == ReleaseRenderer(p) IN
         /\ Shape(q) /\ ~q.renderer
         /\ q.phase = p.phase /\ q.session = p.session /\ q.abandoned = p.abandoned
         /\ q.mail = p.mail /\ q.destroyed = p.destroyed
         /\ \A u \in Tasks : Stands(p, q, u)
<1> DEFINE q == ReleaseRenderer(p)
<1>1. /\ IsPage(q)
      /\ q.renderer = FALSE
      /\ q.session = p.session /\ q.phase = p.phase
      /\ q.destroyed = p.destroyed /\ q.queue = p.queue
      /\ q.mail = p.mail /\ q.abandoned = p.abandoned
      /\ q.task = [t \in Tasks |->
           [p.task[t] EXCEPT !.stale = p.task[t].stale \/ p.task[t].pc \in {"reconfig", "source"}]]
  BY ReleaseIs, FlagMethods DEF Shape
<1> HIDE DEF q
<1>2. AreTasks(q.task) /\ \A t \in Tasks :
        /\ q.task[t].pc = p.task[t].pc /\ q.task[t].flow = p.task[t].flow
        /\ (q.task[t].cur <=> p.task[t].cur)
  BY <1>1, StaleTasks DEF Shape
<1> QED BY <1>1, <1>2 DEF Shape, Stands, q

\* What a stop leaves: nothing, and every operation where it stood.
Stops(p, q) ==
  /\ Shape(q) /\ ~q.renderer /\ q.phase = "idle" /\ q.session = NoSession /\ q.abandoned = NoSession
  /\ \A u \in Tasks : ~q.task[u].cur /\ q.task[u].pc = p.task[u].pc /\ q.task[u].flow = p.task[u].flow

\* A stop leaves nothing before its first call of the client.
LEMMA ResetAllStops ==
  ASSUME NEW p, Shape(p)
  PROVE  Stops(p, ResetAll(p)) /\ ResetAll(p).mail = p.mail
<1> DEFINE a == Superseded(p)
           b == InvalidateReconcile(a)
           c == ReleaseRenderer(b)
           d == ResetEnhancement(c)
           r == [d EXCEPT !.timer = "off", !.wanted = FALSE, !.abandoned = NoSession,
                          !.switch = Nobody]
<1>1. /\ Sees(p, a)
      /\ \A u \in Tasks : ~a.task[u].cur /\ a.task[u].pc = p.task[u].pc /\ a.task[u].flow = p.task[u].flow
  BY SupersededSees
<1> HIDE DEF a
<1>2. Sees(a, b) /\ \A u \in Tasks : Stands(a, b, u)
  BY <1>1, InvalidateSees DEF Sees
<1> HIDE DEF b
<1>3. /\ Shape(c) /\ ~c.renderer /\ c.mail = b.mail /\ c.destroyed = b.destroyed
      /\ \A u \in Tasks : Stands(b, c, u)
  BY <1>2, ReleaseSees DEF Sees
<1> HIDE DEF c
<1>4. /\ IsPage(d) /\ d.renderer = c.renderer /\ d.queue = c.queue /\ d.destroyed = c.destroyed
      /\ d.task = c.task /\ d.phase = "idle" /\ d.session = NoSession /\ d.mail = c.mail
  BY <1>3, ResetIs, FlagMethods DEF Shape
<1> HIDE DEF d
<1>5. /\ IsPage(r) /\ r.renderer = d.renderer /\ r.queue = d.queue /\ r.destroyed = d.destroyed
      /\ r.task = d.task /\ r.phase = d.phase /\ r.session = d.session /\ r.mail = d.mail
      /\ r.abandoned = NoSession
  BY <1>4 DEF IsPage, PageField
<1> HIDE DEF r
<1>6. Shape(r)
  BY <1>3, <1>4, <1>5 DEF Shape
<1>7. r.mail = p.mail /\ Stops(p, r)
  BY <1>1, <1>2, <1>3, <1>4, <1>5, <1>6 DEF Stops, Sees, Stands
<1> QED BY <1>7 DEF ResetAll, a, b, c, d, r

\* A message is posted at the end of the mail.
LEMMA PostSees ==
  ASSUME NEW p, Shape(p), NEW op, NEW t, NEW sid
  PROVE  LET q == Post(p, op, t, sid) IN
         /\ Shape(q) /\ q.task = p.task
         /\ q.phase = p.phase /\ q.renderer = p.renderer /\ q.session = p.session
         /\ q.abandoned = p.abandoned /\ q.destroyed = p.destroyed
         /\ q.mail = Append(p.mail, [op |-> op, from |-> t, sid |-> sid])
  BY DEF Shape, IsPage, PageField, Post

\* It then posts the stop, if there is something to stop in the background.
LEMMA StopHereStops ==
  ASSUME NEW p, Shape(p), NEW native, NEW t
  PROVE  LET q == StopHere(p, native, t) IN
         /\ Stops(p, q)
         /\ q.mail = IF StopsNative(p, native)
                     THEN Append(p.mail, [op |-> "stop", from |-> t, sid |-> p.session]) ELSE p.mail
<1> DEFINE a == ResetAll(p)
           b == CancelPending(a)
           c == Post(b, "stop", t, p.session)
<1>1. Stops(p, a) /\ a.mail = p.mail
  BY ResetAllStops
<1> HIDE DEF a
<1>2. Sees(a, b) /\ \A u \in Tasks : Stands(a, b, u)
  BY <1>1, CancelSees DEF Stops
<1> HIDE DEF b
<1>3. /\ Shape(c) /\ c.task = b.task
      /\ c.phase = b.phase /\ c.renderer = b.renderer /\ c.session = b.session
      /\ c.abandoned = b.abandoned /\ c.destroyed = b.destroyed
      /\ c.mail = Append(b.mail, [op |-> "stop", from |-> t, sid |-> p.session])
  BY <1>2, PostSees DEF Sees
<1> HIDE DEF c
<1>4. Stops(p, c) /\ c.mail = Append(p.mail, [op |-> "stop", from |-> t, sid |-> p.session])
  BY <1>1, <1>2, <1>3 DEF Stops, Sees, Stands
<1> QED BY <1>1, <1>4 DEF StopHere, a, b, c

\* Destroying is a stop on behalf of nobody, or was one.
LEMMA DestroyStops ==
  ASSUME NEW p, Shape(p)
  PROVE  LET q == DestroyNow(p) IN
         \/ q = p
         \/ /\ Stops(p, q)
            /\ \/ q.mail = p.mail
               \/ q.mail = Append(p.mail, [op |-> "stop", from |-> Nobody, sid |-> p.session])
<1> DEFINE a == [p EXCEPT !.destroyed = TRUE]
           b == StopHere(a, TRUE, Nobody)
           c == [b EXCEPT !.phase = "idle", !.session = NoSession, !.timer = "off"]
<1>1. Shape(a) /\ a.mail = p.mail /\ a.session = p.session /\ a.task = p.task
  BY DEF Shape, IsPage, PageField
<1> HIDE DEF a
<1>2. /\ Stops(p, b)
      /\ \/ b.mail = p.mail
         \/ b.mail = Append(p.mail, [op |-> "stop", from |-> Nobody, sid |-> p.session])
  <2>1. /\ Stops(a, b)
        /\ \/ b.mail = a.mail
           \/ b.mail = Append(a.mail, [op |-> "stop", from |-> Nobody, sid |-> a.session])
    BY <1>1, StopHereStops
  <2> QED BY <1>1, <2>1 DEF Stops
<1> HIDE DEF b
<1>3. /\ IsPage(c) /\ c.renderer = b.renderer /\ c.queue = b.queue
      /\ c.task = b.task /\ c.phase = "idle" /\ c.session = NoSession /\ c.mail = b.mail
      /\ c.abandoned = b.abandoned
  BY <1>2 DEF Stops, Shape, IsPage, PageField
<1> HIDE DEF c
<1>4. Stops(p, c)
  BY <1>2, <1>3 DEF Stops, Shape
<1> QED BY <1>2, <1>3, <1>4 DEF DestroyNow, a, b, c

-----------------------------------------------------------------------------
(* What changes only the operation that runs. *)

\* It says nothing.
Mute(p, q) == q.mail = p.mail /\ q.abandoned = p.abandoned

\* Its own fields.
LEMMA PutsView ==
  ASSUME NEW p, Shape(p), NEW t \in Tasks, NEW r, IsTask(r), r.cur <=> p.task[t].cur,
         NEW q, Puts(p, q, t, r), Mute(p, q)
  PROVE  View(p, q, t) /\ q.task[t] = r
<1>1. AreTasks(q.task) /\ q.task[t] = r /\ \A u \in Tasks \ {t} : q.task[u] = p.task[u]
  BY PutTask DEF Puts, Shape
<1> QED BY <1>1 DEF Puts, Like, Shape, Mute, View, Sees, Stands

\* None of these changes speaks.
LEMMA AlterMail ==
  ASSUME NEW p, IsPage(p), NEW t, NEW x
  PROVE  /\ Mute(p, [p EXCEPT !.task[t].pc = x])
         /\ Mute(p, [p EXCEPT !.task[t].flow = x])
         /\ Mute(p, [p EXCEPT !.task[t].then = x])
         /\ Mute(p, [p EXCEPT !.task[t].stale = x])
  BY DEF IsPage, PageField, Mute

\* Marking an operation posts nothing,
LEMMA KindMail ==
  ASSUME NEW p, IsPage(p), NEW t, NEW x, NEW y
  PROVE  /\ Mute(p, [p EXCEPT !.automatic = x, !.task[t].kind = y])
         /\ Mute(p, [p EXCEPT !.settings = x, !.task[t].prev = y])
  BY DEF IsPage, PageField, Mute

\* and neither does entering a request in the ledger.
LEMMA RequestMail ==
  ASSUME NEW p, IsPage(p), NEW t
  PROVE  Mute(p, [p EXCEPT !.pending = t, !.task[t].cancelled = FALSE])
  BY DEF IsPage, PageField, Mute

\* Where it waits.
LEMMA AwaitView ==
  ASSUME NEW p, Shape(p), NEW t \in Tasks, NEW pc
  PROVE  LET q == Await(p, t, pc) IN
         View(p, q, t) /\ q.task[t].pc = pc /\ q.task[t].flow = p.task[t].flow
<1> DEFINE q == Await(p, t, pc)
           r == [p.task[t] EXCEPT !.pc = pc]
<1>1. IsTask(p.task[t]) /\ IsPage(p)
  BY DEF Shape, AreTasks
<1>2. Moves(p.task[t], r) /\ r.pc = pc /\ r.flow = p.task[t].flow
  BY <1>1, MovePc
<1>3. Puts(p, q, t, r) /\ Mute(p, q)
  BY <1>1, AlterIs, AlterMail DEF Shape, Await
<1> HIDE DEF q, r
<1>4. View(p, q, t) /\ q.task[t] = r
  BY <1>2, <1>3, PutsView DEF Moves
<1> QED BY <1>2, <1>4 DEF q

\* Whose flow it is.
LEMMA FlowView ==
  ASSUME NEW p, Shape(p), NEW t \in Tasks, NEW x
  PROVE  LET q == [p EXCEPT !.task[t].flow = x] IN View(p, q, t) /\ q.task[t].flow = x
<1> DEFINE q == [p EXCEPT !.task[t].flow = x]
           r == [p.task[t] EXCEPT !.flow = x]
<1>1. IsTask(p.task[t]) /\ IsPage(p)
  BY DEF Shape, AreTasks
<1>2. Moves(p.task[t], r) /\ r.flow = x
  BY <1>1, MoveFlow
<1>3. Puts(p, q, t, r) /\ Mute(p, q)
  BY <1>1, AlterIs, AlterMail DEF Shape
<1> HIDE DEF q, r
<1>4. View(p, q, t) /\ q.task[t] = r
  BY <1>2, <1>3, PutsView DEF Moves
<1> QED BY <1>2, <1>4 DEF q

\* What it does next.
LEMMA ThenView ==
  ASSUME NEW p, Shape(p), NEW t \in Tasks, NEW x \in Ends
  PROVE  View(p, [p EXCEPT !.task[t].then = x], t)
<1> DEFINE q == [p EXCEPT !.task[t].then = x]
           r == [p.task[t] EXCEPT !.then = x]
<1>1. IsTask(p.task[t]) /\ IsPage(p)
  BY DEF Shape, AreTasks
<1>2. Moves(p.task[t], r)
  BY <1>1, MoveThen
<1>3. Puts(p, q, t, r) /\ Mute(p, q)
  BY <1>1, AlterIs, AlterMail DEF Shape
<1> HIDE DEF q, r
<1> QED BY <1>2, <1>3, PutsView DEF Moves, q

\* Whether its node or renderer was replaced.
LEMMA StaleView ==
  ASSUME NEW p, Shape(p), NEW t \in Tasks, NEW x
  PROVE  LET q == [p EXCEPT !.task[t].stale = x] IN
         View(p, q, t) /\ q.task[t].pc = p.task[t].pc /\ q.task[t].flow = p.task[t].flow
<1> DEFINE q == [p EXCEPT !.task[t].stale = x]
           r == [p.task[t] EXCEPT !.stale = x]
<1>1. IsTask(p.task[t]) /\ IsPage(p)
  BY DEF Shape, AreTasks
<1>2. Moves(p.task[t], r) /\ r.pc = p.task[t].pc /\ r.flow = p.task[t].flow
  BY <1>1, MoveStale
<1>3. Puts(p, q, t, r) /\ Mute(p, q)
  BY <1>1, AlterIs, AlterMail DEF Shape
<1> HIDE DEF q, r
<1>4. View(p, q, t) /\ q.task[t] = r
  BY <1>2, <1>3, PutsView DEF Moves
<1> QED BY <1>2, <1>4 DEF q

\* Its kind, and what to restore.
LEMMA KindView ==
  ASSUME NEW p, Shape(p), NEW t \in Tasks, NEW x, NEW y
  PROVE  /\ View(p, [p EXCEPT !.automatic = x, !.task[t].kind = y], t)
         /\ View(p, [p EXCEPT !.settings = x, !.task[t].prev = y], t)
<1> DEFINE a == [p EXCEPT !.automatic = x, !.task[t].kind = y]
           b == [p EXCEPT !.settings = x, !.task[t].prev = y]
           ra == [p.task[t] EXCEPT !.kind = y]
           rb == [p.task[t] EXCEPT !.prev = y]
<1>1. IsTask(p.task[t]) /\ IsPage(p) /\ AreTasks(p.task)
  BY DEF Shape, AreTasks
<1>2. Moves(p.task[t], ra) /\ Moves(p.task[t], rb)
  BY <1>1, MoveKind
<1>3. Puts(p, a, t, ra) /\ Puts(p, b, t, rb)
  BY <1>1, KindIs
<1>4. Mute(p, a) /\ Mute(p, b)
  BY <1>1, KindMail
<1> HIDE DEF a, b, ra, rb
<1>5. View(p, a, t) /\ View(p, b, t)
  BY <1>2, <1>3, <1>4, PutsView DEF Moves
<1> QED BY <1>5 DEF a, b

\* Fields of the page that tell nothing of the phase.
LEMMA FieldsSee ==
  ASSUME NEW p, Shape(p), NEW x
  PROVE  /\ Same(p, [p EXCEPT !.applied = x])
         /\ Same(p, [p EXCEPT !.settings = x])
         /\ Same(p, [p EXCEPT !.automatic = x])
         /\ Same(p, [p EXCEPT !.blocked = x])
         /\ Same(p, [p EXCEPT !.pending = x])
         /\ Same(p, [p EXCEPT !.full = x])
         /\ Same(p, [p EXCEPT !.constructing = x])
         /\ Same(p, [p EXCEPT !.restarted = x])
         /\ Same(p, [p EXCEPT !.protected = x])
         /\ Same(p, [p EXCEPT !.wanted = x])
         /\ Same(p, [p EXCEPT !.timer = x])
<1>1. IsPage(p)
  BY DEF Shape
<1>2. ASSUME NEW q, IsPage(q), q.renderer = p.renderer, q.phase = p.phase, q.session = p.session,
             q.abandoned = p.abandoned, q.mail = p.mail, q.destroyed = p.destroyed,
             q.task = p.task, q.queue = p.queue
      PROVE  Same(p, q)
  BY <1>2 DEF Shape, Same, Sees, Stands
<1>3. Same(p, [p EXCEPT !.applied = x]) /\ Same(p, [p EXCEPT !.settings = x])
  BY <1>1, <1>2 DEF IsPage, PageField
<1>4. Same(p, [p EXCEPT !.automatic = x]) /\ Same(p, [p EXCEPT !.blocked = x])
  BY <1>1, <1>2 DEF IsPage, PageField
<1>5. Same(p, [p EXCEPT !.pending = x]) /\ Same(p, [p EXCEPT !.full = x])
  BY <1>1, <1>2 DEF IsPage, PageField
<1>6. Same(p, [p EXCEPT !.constructing = x]) /\ Same(p, [p EXCEPT !.restarted = x])
  BY <1>1, <1>2 DEF IsPage, PageField
<1>7. Same(p, [p EXCEPT !.protected = x]) /\ Same(p, [p EXCEPT !.wanted = x])
  BY <1>1, <1>2 DEF IsPage, PageField
<1>8. Same(p, [p EXCEPT !.timer = x])
  BY <1>1, <1>2 DEF IsPage, PageField
<1> QED BY <1>3, <1>4, <1>5, <1>6, <1>7, <1>8

-----------------------------------------------------------------------------
(* The operations, from where they run to where they rest. *)

\* Where the latest operation may stand.
MayStand(p, t, pc) ==
  p.task[t].cur =>
    /\ pc \in {"claim", "create", "align", "switchstop"} \/ (pc = "slot" /\ p.task[t].flow = "start")
         => p.phase \in {"starting", "idle"} /\ p.session = NoSession
    /\ pc \in {"fallback", "absorb", "update"} => p.phase \in {"starting", "idle"}
    /\ pc = "update" /\ p.phase = "starting" => p.session # NoSession
    /\ pc = "slot" /\ p.task[t].flow # "start" => p.phase # "starting"

\* It rests there without a word.
LEMMA RestLands ==
  ASSUME NEW p, NEW t \in Tasks, Phased(p, {t}), NEW q, View(p, q, t), q.task[t].pc \notin Waits,
         MayStand(q, t, q.task[t].pc)
  PROVE  Lands(p, q, t)
<1>1. Phased(q, {t})
  BY ViewPhased
<1>2. Placed(q, t)
  BY DEF MayStand, Placed, Bare
<1>3. Phased(q, {})
  BY <1>1, <1>2 DEF Phased
<1>4. Turns(p, q, t)
  BY DEF Turns, View, Sees, Stands, Said, GoesOn
<1> QED BY <1>3, <1>4 DEF Lands, View, Sees

\* It waits for a reply.
LEMMA SendLands ==
  ASSUME NEW p, Shape(p), NEW t \in Tasks, Phased(p, {t}), NEW pc \in Waits, NEW op, op = Asks(pc),
         NEW sid, sid \in Nat \/ sid = p.session, MayStand(p, t, pc)
  PROVE  LET q == Await(Post(p, op, t, sid), t, pc) IN
         /\ Lands(p, q, t)
         /\ q.task[t].pc = pc /\ q.phase = p.phase /\ q.session = p.session
<1> DEFINE m == Post(p, op, t, sid)
           q == Await(m, t, pc)
           l == [op |-> op, from |-> t, sid |-> sid]
<1>1. /\ Shape(m) /\ m.task = p.task
      /\ m.phase = p.phase /\ m.renderer = p.renderer /\ m.session = p.session
      /\ m.abandoned = p.abandoned /\ m.mail = Append(p.mail, l)
  BY PostSees
<1> HIDE DEF m
<1>2. View(m, q, t) /\ q.task[t].pc = pc /\ q.task[t].flow = p.task[t].flow
  BY <1>1, AwaitView
<1> HIDE DEF q
<1>3. l \in Letters(p) /\ l.from = t /\ l.op = op
  BY DEF Letters, Asks
<1> HIDE DEF l
<1>4. Said(p, q, t)
  BY <1>1, <1>2, <1>3 DEF Said, View, Sees
<1>5. Phased(m, {t})
  BY <1>1 DEF Phased, Placed, Bare
<1>6. Phased(q, {t})
  BY <1>2, <1>5, ViewPhased
<1>7. Placed(q, t)
  BY <1>1, <1>2 DEF MayStand, Placed, Bare, View, Sees
<1>8. Phased(q, {})
  BY <1>6, <1>7 DEF Phased
<1>9. Turns(p, q, t)
  BY <1>1, <1>2, <1>4 DEF Turns, View, Sees, Stands, GoesOn
<1> QED BY <1>1, <1>2, <1>8, <1>9 DEF Lands, View, Sees, m, q

\* A stop, as the end of what t did.
LEMMA StopsLand ==
  ASSUME NEW p, NEW t \in Tasks, NEW q, Stops(p, q), Said(p, q, t)
  PROVE  Lands(p, q, t) /\ q.abandoned = NoSession
<1>1. Phased(q, {})
  BY DEF Stops, Phased, Phases, Placed
<1> QED BY <1>1 DEF Stops, Lands, Turns

\* The end of an operation that is not a start any more.
LEMMA FinishLands ==
  ASSUME NEW p, Shape(p), NEW t \in Tasks, Phased(p, {t}), p.task[t].cur => p.phase # "starting"
  PROVE  Lands(p, Finish(p, t), t)
<1> DEFINE failed == p.task[t].kind = "auto" /\ ~p.renderer /\ ~NativeActive(p)
           q == [p EXCEPT !.automatic = @ /\ ~failed, !.task[t] = NoTask]
           w == [q EXCEPT !.abandoned = NoSession, !.switch = IF @ = t THEN Nobody ELSE @]
           b == p.renderer \/ NativeActive(p)
           s == [Schedule(q) EXCEPT !.applied = @ \/ b]
<1>1. Puts(p, q, t, NoTask)
  BY FinishIs DEF Shape
<1>2. q.mail = p.mail /\ q.abandoned = p.abandoned
  BY DEF Shape, IsPage, PageField
<1>3. Finish(p, t) \in {q, w, s, DestroyNow(q)}
  BY DEF Finish
<1> HIDE DEF q
<1>4. /\ AreTasks(q.task) /\ q.task[t] = NoTask
      /\ \A u \in Tasks \ {t} : q.task[u] = p.task[u]
  BY <1>1, NoTaskIs, PutTask DEF Puts, Shape
<1>5. Shape(q) /\ q.phase = p.phase /\ q.session = p.session /\ q.renderer = p.renderer
  BY <1>1, <1>4 DEF Puts, Like, Shape
<1>6. ~q.task[t].cur /\ q.task[t].pc = "none"
  BY <1>4, NoTaskIs
<1>7. Phased(q, {t}) /\ Leads(p, q, t) /\ GoesOn(p, q, t)
  BY <1>2, <1>4, <1>5, <1>6 DEF Phased, Placed, Bare, Leads, GoesOn
<1>8. MayStand(q, t, "none") /\ "none" \notin Waits
  BY <1>6 DEF MayStand, Waits
<1>9. ASSUME NEW r, View(q, r, t), r.task[t].pc = "none"
      PROVE  Lands(p, r, t)
  <2>1. Lands(q, r, t)
    BY <1>6, <1>7, <1>8, <1>9, RestLands DEF View, Sees, Stands, MayStand
  <2>2. GoesOn(p, r, t)
    BY <1>6, <1>7, <1>9 DEF GoesOn, View, Sees
  <2> QED BY <1>7, <2>1, <2>2, LeadsLands
<1>10. Lands(p, q, t)
  <2>1. View(q, q, t)
    BY <1>5 DEF View, Sees, Stands
  <2> QED BY <1>6, <1>9, <2>1
<1>11. Lands(p, s, t)
  <2>1. Same(q, Schedule(q))
    BY <1>5, ScheduleSees DEF Same
  <2> HIDE DEF b
  <2>2. Keeps(Schedule(q), s) /\ Mute(Schedule(q), s)
    BY <2>1, AppliedKeeps DEF Same, Sees, Shape, IsPage, PageField, Mute
  <2> HIDE DEF s
  <2>3. View(q, s, t) /\ s.task[t].pc = "none"
    BY <1>6, <2>1, <2>2 DEF Same, Sees, Stands, Keeps, Like, Mute, View, Shape
  <2> QED BY <1>9, <2>3
<1>12. Lands(p, w, t)
  <2>1. Keeps(q, w) /\ w.mail = q.mail /\ w.abandoned = NoSession
    BY <1>5, ToWebKeeps DEF Shape, IsPage, PageField
  <2> HIDE DEF w
  <2>2. Phased(w, {})
    BY <1>6, <1>7, <2>1 DEF Keeps, Like, Phased, Placed, Bare
  <2>3. Shape(w)
    BY <1>5, <2>1 DEF Keeps, Like, Shape
  <2> QED BY <1>2, <1>4, <1>5, <1>6, <1>8, <2>1, <2>2, <2>3 DEF Keeps, Like, Lands, Turns, Said
<1>13. Lands(p, DestroyNow(q), t)
  <2> DEFINE d == DestroyNow(q)
             l == [op |-> "stop", from |-> Nobody, sid |-> q.session]
  <2>1. \/ d = q
        \/ Stops(q, d) /\ (d.mail = q.mail \/ d.mail = Append(q.mail, l))
    BY <1>5, DestroyStops
  <2> HIDE DEF d
  <2>2. l \in Letters(q) /\ l.from = Nobody
    BY DEF Letters
  <2> HIDE DEF l
  <2>3. ASSUME Stops(q, d), d.mail = q.mail \/ d.mail = Append(q.mail, l)
        PROVE  Lands(p, d, t)
    <3>1. Said(q, d, t)
      BY <1>6, <1>8, <2>2, <2>3 DEF Stops, Said
    <3>2. Lands(q, d, t) /\ d.abandoned = NoSession
      BY <2>3, <3>1, StopsLand
    <3> QED BY <1>7, <3>2, LeadsLands
  <2> QED BY <1>10, <2>1, <2>3 DEF d
<1> QED BY <1>3, <1>10, <1>11, <1>12, <1>13

\* A new transition: the phase says so, and t is the latest.
LEMMA BeginSees ==
  ASSUME NEW p, Shape(p), NEW t \in Tasks
  PROVE  LET q == BeginTransition(p, t) IN
         /\ Shape(q) /\ q.phase = "starting" /\ q.renderer = p.renderer /\ q.session = p.session
         /\ q.abandoned = p.abandoned /\ q.mail = p.mail /\ q.destroyed = p.destroyed
         /\ \A u \in Tasks : (q.task[u].cur <=> u = t) /\ q.task[u].pc = p.task[u].pc
                             /\ q.task[u].flow = p.task[u].flow
<1> DEFINE a == Superseded(p)
           b == [a EXCEPT !.phase = "starting", !.task[t].cur = TRUE]
           r == [a.task[t] EXCEPT !.cur = TRUE]
<1>1. /\ Sees(p, a)
      /\ \A u \in Tasks : ~a.task[u].cur /\ a.task[u].pc = p.task[u].pc /\ a.task[u].flow = p.task[u].flow
  BY SupersededSees
<1> HIDE DEF a
<1>2. /\ IsPage(b) /\ b.renderer = a.renderer /\ b.session = a.session /\ b.phase = "starting"
      /\ b.destroyed = a.destroyed /\ b.queue = a.queue /\ b.task = [a.task EXCEPT ![t] = r]
  <2>1. IsPage(a) /\ AreTasks(a.task)
    BY <1>1 DEF Sees, Shape
  <2> QED BY <2>1, BeginIs
<1>3. b.mail = a.mail /\ b.abandoned = a.abandoned
  BY <1>1 DEF Sees, Shape, IsPage, PageField
<1>4. IsTask(r) /\ r.cur /\ r.pc = a.task[t].pc /\ r.flow = a.task[t].flow
  <2>1. IsTask(a.task[t])
    BY <1>1 DEF Sees, Shape, AreTasks
  <2> QED BY <2>1, FlagTask DEF SameTask
<1> HIDE DEF b, r
<1>5. AreTasks(b.task) /\ b.task[t] = r /\ \A u \in Tasks \ {t} : b.task[u] = a.task[u]
  BY <1>1, <1>2, <1>4, PutTask DEF Sees, Shape
<1> QED BY <1>1, <1>2, <1>3, <1>4, <1>5 DEF BeginTransition, a, b, Sees, Shape

\* startEnhancement().
LEMMA StartLands ==
  ASSUME NEW p, Shape(p), NEW t \in Tasks, Phased(p, {t}), ~p.task[t].cur
  PROVE  Lands(p, StartEnhancement(p, t), t)
<1> DEFINE b == BeginTransition(p, t)
           q == [b EXCEPT !.task[t].flow = "start"]
           i == MarkIdle(q)
<1>1. CASE p.renderer \/ NativeActive(p) \/ p.destroyed \/ Starting(p)
  BY <1>1, FinishLands DEF StartEnhancement
<1>2. CASE ~(p.renderer \/ NativeActive(p) \/ p.destroyed \/ Starting(p))
  <2>1. p.phase = "idle" /\ p.session = NoSession /\ ~p.renderer
    BY <1>2 DEF Phased, Phases, NativeActive, Starting
  <2>2. /\ Shape(b) /\ b.phase = "starting" /\ b.renderer = p.renderer /\ b.session = p.session
        /\ b.abandoned = p.abandoned /\ b.mail = p.mail
        /\ \A u \in Tasks : (b.task[u].cur <=> u = t) /\ b.task[u].pc = p.task[u].pc
    BY BeginSees
  <2> HIDE DEF b
  <2>3. View(b, q, t)
    BY <2>2, FlowView
  <2> HIDE DEF q
  <2>4. /\ Shape(q) /\ q.phase = "starting" /\ ~q.renderer /\ q.session = NoSession
        /\ q.abandoned = p.abandoned /\ q.mail = p.mail
        /\ \A u \in Tasks : q.task[u].cur <=> u = t
        /\ \A u \in Tasks \ {t} : q.task[u].pc = p.task[u].pc
    BY <2>1, <2>2, <2>3 DEF View, Sees, Stands
  <2>5. Phased(q, {t}) /\ Leads(p, q, t)
    BY <2>1, <2>4 DEF Phased, Phases, Placed, Leads
  <2>6. Lands(p, Await(Post(q, "claim", t, NoSession), t, "claim"), t)
    <3>1. MayStand(q, t, "claim") /\ "claim" \in Waits /\ Asks("claim") = "claim" /\ NoSession \in Nat
      BY <2>4 DEF MayStand, Waits, Asks, NoSession
    <3>2. Lands(q, Await(Post(q, "claim", t, NoSession), t, "claim"), t)
      BY <2>4, <2>5, <3>1, SendLands
    <3> QED BY <2>1, <2>5, <3>2, LeadsLands DEF GoesOn
  <2>7. Lands(p, Finish(i, t), t)
    <3>1. /\ IsPage(i) /\ i.renderer = q.renderer /\ i.queue = q.queue /\ i.task = q.task
          /\ i.phase = "idle" /\ i.session = q.session /\ Mute(q, i)
      BY <2>4, ResetIs, FlagMethods DEF Shape, Mute
    <3> HIDE DEF i
    <3>2. Shape(i) /\ Phased(i, {t}) /\ Leads(p, i, t)
      BY <2>1, <2>4, <3>1 DEF Shape, Mute, Phased, Phases, Placed, Leads
    <3>3. Lands(i, Finish(i, t), t)
      BY <3>1, <3>2, FinishLands
    <3> QED BY <2>1, <3>2, <3>3, LeadsLands DEF GoesOn
  <2> QED BY <1>2, <2>6, <2>7 DEF StartEnhancement, b, q, i
<1> QED BY <1>1, <1>2

\* What follows a stop.
LEMMA AfterStopLands ==
  ASSUME NEW p, Shape(p), NEW t \in Tasks, Phased(p, {t}), ~p.task[t].cur
  PROVE  Lands(p, AfterStop(p, t), t)
<1> DEFINE s == Schedule(p)
           w == [p EXCEPT !.wanted = TRUE]
<1>1. p.task[t].then \in Ends
  BY DEF Shape, AreTasks, IsTask
<1>2. Lands(p, Finish(p, t), t)
  BY FinishLands
<1>3. ASSUME NEW q, View(p, q, t)
      PROVE  Shape(q) /\ Phased(q, {t}) /\ ~q.task[t].cur
  BY <1>3, ViewPhased DEF View, Sees
<1>4. View(p, s, t) /\ View(p, w, t)
  <2>1. Same(p, s)
    BY ScheduleSees DEF Same
  <2>2. Same(p, w)
    BY FieldsSee
  <2> HIDE DEF s, w
  <2> QED BY <2>1, <2>2 DEF Same, View, Stands
<1> HIDE DEF s, w
<1>5. Lands(p, Finish(s, t), t)
  BY <1>3, <1>4, FinishLands, ViewLands
<1>6. Lands(p, StartEnhancement(w, t), t)
  BY <1>3, <1>4, StartLands, ViewLands
<1> QED BY <1>1, <1>2, <1>5, <1>6 DEF AfterStop, Ends, s, w

\* stopEnhancement() and what follows it: a session that was given up is forgotten.
LEMMA StopThenLands ==
  ASSUME NEW p, Shape(p), NEW t \in Tasks, NEW native, NEW then \in Ends
  PROVE  LET r == StopThen(p, t, native, then) IN Lands(p, r, t) /\ r.abandoned = NoSession
<1> DEFINE s == StopHere(p, native, t)
           q == [s EXCEPT !.task[t].then = then]
           l == [op |-> "stop", from |-> t, sid |-> p.session]
<1>1. Stops(p, s) /\ s.mail = IF StopsNative(p, native) THEN Append(p.mail, l) ELSE p.mail
  BY StopHereStops
<1> HIDE DEF s
<1>2. View(s, q, t)
  BY <1>1, ThenView DEF Stops
<1> HIDE DEF q
<1>3. /\ Shape(q) /\ ~q.renderer /\ q.phase = "idle" /\ q.session = NoSession /\ q.abandoned = NoSession
      /\ q.mail = s.mail /\ \A u \in Tasks : ~q.task[u].cur
      /\ \A u \in Tasks \ {t} : q.task[u].pc = p.task[u].pc /\ q.task[u].flow = p.task[u].flow
  BY <1>1, <1>2 DEF Stops, View, Sees, Stands
<1>4. CASE StopsNative(p, native)
  <2> DEFINE r == Await(q, t, "stopping")
  <2>1. View(q, r, t) /\ r.task[t].pc = "stopping"
    BY <1>3, AwaitView
  <2> HIDE DEF r
  <2>2. l \in Letters(p) /\ l.from = t /\ l.op = Asks("stopping") /\ "stopping" \in Waits
    BY DEF Letters, Asks, Waits
  <2> HIDE DEF l
  <2>3. Said(p, r, t)
    BY <1>1, <1>3, <1>4, <2>1, <2>2 DEF Said, View, Sees
  <2>4. Phased(r, {})
    BY <1>3, <2>1 DEF View, Sees, Stands, Phased, Phases, Placed
  <2>5. Lands(p, r, t) /\ r.abandoned = NoSession
    BY <1>3, <2>1, <2>3, <2>4 DEF Lands, Turns, View, Sees, Stands
  <2> QED BY <1>4, <2>5 DEF StopThen, s, q, r
<1>5. CASE ~StopsNative(p, native)
  <2>1. Phased(q, {t}) /\ Leads(p, q, t)
    BY <1>1, <1>3, <1>5 DEF Phased, Phases, Placed, Leads
  <2>2. Lands(q, AfterStop(q, t), t)
    BY <1>3, <2>1, AfterStopLands
  <2>3. AfterStop(q, t).abandoned = NoSession
    BY <1>3, <2>2 DEF Lands, Turns
  <2>4. Lands(p, AfterStop(q, t), t)
    BY <2>1, <2>2, <2>3, LeadsLands
  <2> QED BY <1>5, <2>3, <2>4 DEF StopThen, s, q
<1> QED BY <1>4, <1>5

\* The catch of a start or a switch.
LEMMA FailLands ==
  ASSUME NEW p, Shape(p), NEW t \in Tasks
  PROVE  Lands(p, Fail(p, t), t) /\ Fail(p, t).abandoned = NoSession
  BY StopThenLands DEF Fail, Ends

\* It rests where it may stand.
LEMMA AwaitLands ==
  ASSUME NEW p, Shape(p), NEW t \in Tasks, Phased(p, {t}), NEW pc, pc \notin Waits, MayStand(p, t, pc)
  PROVE  /\ Lands(p, Await(p, t, pc), t)
         /\ Lands(p, [Await(p, t, pc) EXCEPT !.task[t].stale = FALSE], t)
<1> DEFINE a == Await(p, t, pc)
           q == [a EXCEPT !.task[t].stale = FALSE]
<1>1. View(p, a, t) /\ a.task[t].pc = pc /\ a.task[t].flow = p.task[t].flow
  BY AwaitView
<1> HIDE DEF a
<1>2. View(a, q, t) /\ q.task[t].pc = a.task[t].pc /\ q.task[t].flow = a.task[t].flow
  BY <1>1, StaleView DEF View, Sees
<1> HIDE DEF q
<1>3. View(p, q, t)
  BY <1>1, <1>2, ViewView
<1>4. MayStand(a, t, pc) /\ MayStand(q, t, pc)
  BY <1>1, <1>2, <1>3 DEF MayStand, View, Sees
<1> QED BY <1>1, <1>2, <1>3, <1>4, RestLands DEF a, q

\* The latest operation may ask for native capture.
Alone(p, t) ==
  /\ \A u \in Tasks : p.task[u].cur <=> u = t
  /\ p.phase \in {"starting", "idle"}
  /\ p.session # NoSession => p.phase = "starting"

\* It gives the renderer up first.
LEMMA RequestLands ==
  ASSUME NEW p, Shape(p), NEW t \in Tasks, Alone(p, t)
  PROVE  LET r == RequestNative(p, t) IN
         Lands(p, r, t) /\ r.task[t].pc = "fallback" /\ r.phase = p.phase /\ r.session = p.session
<1> DEFINE a == ReleaseRenderer(p)
           b == CancelPending(a)
           q == [b EXCEPT !.pending = t, !.task[t].cancelled = FALSE]
           c == [b.task[t] EXCEPT !.cancelled = FALSE]
<1>1. /\ Shape(a) /\ ~a.renderer
      /\ a.phase = p.phase /\ a.session = p.session /\ a.abandoned = p.abandoned
      /\ a.mail = p.mail
      /\ \A u \in Tasks : Stands(p, a, u)
  BY ReleaseSees
<1> HIDE DEF a
<1>2. Sees(a, b) /\ \A u \in Tasks : Stands(a, b, u)
  BY <1>1, CancelSees
<1> HIDE DEF b
<1>3. View(b, q, t)
  <2>1. Shape(b) /\ IsPage(b) /\ AreTasks(b.task) /\ IsTask(b.task[t])
    BY <1>2 DEF Sees, Shape, AreTasks
  <2>2. Moves(b.task[t], c)
    BY <2>1, UncancelTask
  <2>3. Puts(b, q, t, c) /\ Mute(b, q)
    BY <2>1, RequestIs, RequestMail
  <2> HIDE DEF q, c
  <2> QED BY <2>1, <2>2, <2>3, PutsView DEF Moves
<1> HIDE DEF q
<1>4. /\ Shape(q) /\ ~q.renderer
      /\ q.phase = p.phase /\ q.session = p.session /\ q.abandoned = p.abandoned /\ q.mail = p.mail
      /\ \A u \in Tasks : q.task[u].cur <=> u = t
      /\ \A u \in Tasks \ {t} : q.task[u].pc = p.task[u].pc
  BY <1>1, <1>2, <1>3 DEF Alone, View, Sees, Stands
<1>5. Phased(q, {t}) /\ Leads(p, q, t)
  BY <1>4 DEF Alone, Phased, Phases, Placed, Leads
<1>6. MayStand(q, t, "fallback") /\ "fallback" \in Waits /\ Asks("fallback") = "start" /\ NoSession \in Nat
  BY <1>4 DEF Alone, MayStand, Waits, Asks, NoSession
<1> DEFINE r == Await(Post(q, "start", t, NoSession), t, "fallback")
<1>7. Lands(q, r, t) /\ r.task[t].pc = "fallback" /\ r.phase = q.phase /\ r.session = q.session
  BY <1>4, <1>5, <1>6, SendLands
<1> HIDE DEF r
<1>8. Lands(p, r, t)
  BY <1>5, <1>7, LeadsLands DEF Alone
<1> QED BY <1>4, <1>7, <1>8 DEF RequestNative, a, b, q, r

\* The switch to native capture; a start that it supersedes goes on as one.
LEMMA SwitchLands ==
  ASSUME NEW p, Shape(p), NEW t \in Tasks, ~p.task[t].cur
  PROVE  Lands(p, SwitchToNative(BeginTransition(p, t), t), t)
<1> DEFINE b == BeginTransition(p, t)
           q == [b EXCEPT !.task[t].flow = "toNative"]
           r == RequestNative(q, t)
<1>1. /\ Shape(b) /\ b.phase = "starting" /\ b.session = p.session
      /\ b.abandoned = p.abandoned /\ b.mail = p.mail
      /\ \A u \in Tasks : (b.task[u].cur <=> u = t) /\ b.task[u].pc = p.task[u].pc
  BY BeginSees
<1> HIDE DEF b
<1>2. View(b, q, t)
  BY <1>1, FlowView
<1> HIDE DEF q
<1>3. Shape(q) /\ Alone(q, t) /\ Leads(p, q, t) /\ q.phase = "starting" /\ q.session = p.session
  BY <1>1, <1>2 DEF View, Sees, Stands, Alone, Leads
<1>4. Lands(q, r, t) /\ r.task[t].pc = "fallback" /\ r.phase = q.phase /\ r.session = q.session
  BY <1>3, RequestLands
<1> HIDE DEF r
<1>5. Lands(p, r, t)
  BY <1>3, <1>4, LeadsLands DEF GoesOn
<1>6. Lands(p, Fail(q, t), t)
  BY <1>3, FailLands, LeadsLands
<1> QED BY <1>5, <1>6 DEF SwitchToNative, b, q, r

\* A renderer that failed.
LEMMA ErrorLands ==
  ASSUME NEW p, Shape(p), NEW t \in Tasks, Phased(p, {t}), ~p.task[t].cur
  PROVE  Lands(p, HandleRendererError(p, t), t)
  BY FinishLands, SwitchLands DEF HandleRendererError

\* The selected backend.
LEMMA ProceedLands ==
  ASSUME NEW p, Shape(p), NEW t \in Tasks, Phased(p, {t}), Alone(p, t), p.session = NoSession
  PROVE  Lands(p, Proceed(p, t), t)
<1>1. Lands(p, RequestNative(p, t), t)
  BY RequestLands
<1>2. MayStand(p, t, "create") /\ "create" \notin Waits
  BY DEF Alone, MayStand, Waits
<1>3. Lands(p, [Await(p, t, "create") EXCEPT !.task[t].stale = FALSE], t)
  BY <1>2, AwaitLands
<1> QED BY <1>1, <1>3 DEF Proceed

\* A renderer that could not be made.
LEMMA InitFailedLands ==
  ASSUME NEW p, Shape(p), NEW t \in Tasks, Phased(p, {t}), p.task[t].cur => Alone(p, t)
  PROVE  Lands(p, InitFailed(p, t), t)
  BY FinishLands, RequestLands, FailLands DEF InitFailed

\* A backend is up.
LEMMA BackendUpLands ==
  ASSUME NEW p, Shape(p), NEW t \in Tasks, Phased(p, {t}), p.phase # "starting", NEW busy
  PROVE  Lands(p, BackendUp(p, t, busy), t)
<1>1. p.task[t].flow # "start" => MayStand(p, t, "slot")
  BY DEF MayStand
<1>2. p.task[t].flow # "start" => Lands(p, Await(p, t, "slot"), t)
  BY <1>1, AwaitLands DEF Waits
<1> DEFINE q == [p EXCEPT !.applied = TRUE]
<1>3. Same(p, q)
  BY FieldsSee
<1> HIDE DEF q
<1>4. View(p, q, t)
  BY <1>3 DEF Same, View, Stands
<1>5. Shape(q) /\ Phased(q, {t}) /\ q.phase # "starting"
  BY <1>4, ViewPhased DEF View, Sees
<1>6. Lands(p, Finish(q, t), t)
  BY <1>4, <1>5, FinishLands, ViewLands
<1> QED BY <1>2, <1>6 DEF BackendUp, Commit, q

\* The enhancer owns the renderer.
LEMMA OwnLands ==
  ASSUME NEW p, Shape(p), NEW t \in Tasks, Alone(p, t), p.session = NoSession, ~p.destroyed, NEW busy
  PROVE  Lands(p, OwnRenderer(p, t, busy), t)
<1> DEFINE q == [MarkActive(p, "webgpu-active") EXCEPT
                   !.renderer = TRUE, !.owns = TRUE, !.task[t].made = FALSE]
           c == [p.task[t] EXCEPT !.made = FALSE]
<1>1. /\ IsPage(q) /\ q.renderer = TRUE /\ q.session = p.session
      /\ q.phase = "webgpu-active" /\ q.queue = p.queue
      /\ q.task = [p.task EXCEPT ![t] = c]
  BY OwnIs DEF Shape
<1>2. Mute(p, q)
  BY DEF Mute, MarkActive, Shape, IsPage, PageField
<1>3. IsTask(c) /\ (c.cur <=> p.task[t].cur)
  <2>1. IsTask(p.task[t])
    BY DEF Shape, AreTasks
  <2> QED BY <2>1, MakeTask
<1>4. OwnRenderer(p, t, busy) = BackendUp(q, t, busy)
  BY DEF OwnRenderer
<1> HIDE DEF q, c
<1>5. AreTasks(q.task) /\ q.task[t] = c /\ \A u \in Tasks \ {t} : q.task[u] = p.task[u]
  BY <1>1, <1>3, PutTask DEF Shape
<1>6. Shape(q) /\ Phased(q, {t}) /\ Leads(p, q, t)
  BY <1>1, <1>2, <1>5 DEF Shape, Mute, Alone, Phased, Phases, Placed, Leads
<1>7. Lands(q, BackendUp(q, t, busy), t)
  BY <1>1, <1>6, BackendUpLands
<1> QED BY <1>4, <1>6, <1>7, LeadsLands DEF Alone

\* A renderer was made, or dropped.
LEMMA MadeView ==
  ASSUME NEW p, Shape(p), NEW t \in Tasks, NEW n
  PROVE  /\ View(p, [p EXCEPT !.alive = n, !.task[t].made = TRUE], t)
         /\ View(p, [p EXCEPT !.alive = n, !.task[t].made = FALSE], t)
<1> DEFINE a == [p EXCEPT !.alive = n, !.task[t].made = TRUE]
           b == [p EXCEPT !.alive = n, !.task[t].made = FALSE]
           ra == [p.task[t] EXCEPT !.made = TRUE]
           rb == [p.task[t] EXCEPT !.made = FALSE]
<1>1. IsPage(p) /\ AreTasks(p.task) /\ IsTask(p.task[t])
  BY DEF Shape, AreTasks
<1>2. Remakes(p, a, t, n, ra) /\ Remakes(p, b, t, n, rb)
  BY <1>1, MadeIs
<1>3. Mute(p, a) /\ Mute(p, b)
  BY <1>1 DEF Mute, IsPage, PageField
<1>4. /\ IsTask(ra) /\ (ra.cur <=> p.task[t].cur)
      /\ IsTask(rb) /\ (rb.cur <=> p.task[t].cur)
  BY <1>1, MakeTask
<1> HIDE DEF a, b, ra, rb
<1>5. ASSUME NEW q, NEW r, IsTask(r), r.cur <=> p.task[t].cur, Remakes(p, q, t, n, r), Mute(p, q)
      PROVE  View(p, q, t)
  <2>1. AreTasks(q.task) /\ q.task[t] = r /\ \A u \in Tasks \ {t} : q.task[u] = p.task[u]
    BY <1>1, <1>5, PutTask DEF Remakes
  <2> QED BY <1>5, <2>1 DEF Remakes, Mute, Shape, View, Sees, Stands
<1> QED BY <1>2, <1>3, <1>4, <1>5 DEF a, b

\* A new renderer.
LEMMA CreatedLands ==
  ASSUME NEW p, Shape(p), NEW t \in Tasks, Phased(p, {t}), NEW busy,
         p.task[t].cur => Alone(p, t) /\ p.session = NoSession /\ ~p.destroyed
  PROVE  Lands(p, RendererCreated(p, t, busy), t)
<1> DEFINE q == [p EXCEPT !.alive = @ + 1, !.task[t].made = TRUE]
<1>1. CASE ~p.task[t].cur
  BY <1>1, FinishLands DEF RendererCreated
<1>2. CASE p.task[t].cur
  <2>1. View(p, q, t)
    BY MadeView
  <2> HIDE DEF q
  <2>2. Shape(q) /\ Phased(q, {t}) /\ Alone(q, t) /\ q.session = NoSession /\ ~q.destroyed
    BY <1>2, <2>1, ViewPhased DEF View, Sees, Stands, Alone
  <2>3. MayStand(q, t, "align") /\ "align" \notin Waits
    BY <2>2 DEF Alone, MayStand, Waits
  <2>4. Lands(q, [Await(q, t, "align") EXCEPT !.task[t].stale = FALSE], t)
    BY <2>2, <2>3, AwaitLands
  <2>5. Lands(q, OwnRenderer(q, t, busy), t)
    BY <2>2, OwnLands
  <2> QED BY <1>2, <2>1, <2>4, <2>5, ViewLands DEF RendererCreated, q
<1> QED BY <1>1, <1>2

-----------------------------------------------------------------------------
(* The operations that resume. *)

\* What the invariants tell of the operation that runs.
Ready(p) == Runs(p, {}) /\ Phased(p, {})

\* What the invariant says of one operation that runs.
LEMMA ReadyRuns ==
  ASSUME NEW p, Ready(p), NEW t \in Tasks
  PROVE  /\ Shape(p) /\ Phased(p, {t}) /\ Phased(p, {}) /\ TaskSound(p, t) /\ Placed(p, t)
         /\ p.task[t].cur => ~p.destroyed /\ \A u \in Tasks : p.task[u].cur <=> u = t
  BY DEF Ready, Runs, Lives, Phased, Spent, OneLatest

\* The latest operation has nothing in its hands where it waits for some.
LEMMA BareAlone ==
  ASSUME NEW p, Ready(p), NEW t \in Tasks, p.task[t].cur, Bare(p.task[t])
  PROVE  Alone(p, t) /\ p.session = NoSession /\ ~p.destroyed
  BY ReadyRuns DEF Placed, Alone

\* Fields that tell nothing do not matter.
LEMMA SameLands ==
  ASSUME NEW p, NEW q, NEW r, NEW t \in Tasks, Same(p, q), Lands(q, r, t)
  PROVE  Lands(p, r, t)
  BY ViewLands DEF Same, View, Stands

\* A page that looks the same tells the same.
LEMMA SamePhased ==
  ASSUME NEW p, NEW q, NEW t \in Tasks, Phased(p, {t}), Same(p, q)
  PROVE  Shape(q) /\ Phased(q, {t}) /\ (q.task[t].cur <=> p.task[t].cur)
  BY DEF Same, Sees, Stands, Phased, Placed, Bare

\* The claim was answered.
LEMMA ClaimedLands ==
  ASSUME Ready(page), NEW t \in Tasks, Claimed(t)
  PROVE  Lands(page, page', t)
<1>1. page.task[t].pc = "claim"
  BY DEF Claimed, Answered
<1>2. \/ page' \in {Finish(page, t)} /\ ~page.task[t].cur
      \/ page' = Fail(page, t)
      \/ page.task[t].cur /\ page.task[t].flow = "start" /\ page' = Await(page, t, "slot")
      \/ page.task[t].cur /\ page' = Proceed(page, t)
  BY DEF Claimed
<1>3. Lands(page, Fail(page, t), t) /\ (~page.task[t].cur => Lands(page, Finish(page, t), t))
  BY ReadyRuns, FailLands, FinishLands
<1>4. page.task[t].cur => Alone(page, t) /\ page.session = NoSession
  BY <1>1, BareAlone DEF Bare
<1>5. page.task[t].cur => Lands(page, Proceed(page, t), t)
  BY <1>4, ReadyRuns, ProceedLands
<1>6. page.task[t].cur /\ page.task[t].flow = "start" => Lands(page, Await(page, t, "slot"), t)
  <2>1. page.task[t].flow = "start" => MayStand(page, t, "slot")
    BY <1>4 DEF MayStand, Alone
  <2> QED BY <2>1, ReadyRuns, AwaitLands DEF Waits
<1> QED BY <1>2, <1>3, <1>5, <1>6

\* A backend that is up is committed.
LEMMA CommitLands ==
  ASSUME NEW p, Shape(p), NEW t \in Tasks, Phased(p, {t}), p.phase # "starting"
  PROVE  Lands(p, Commit(p, t), t)
<1>1. Lands(p, BackendUp(p, t, FALSE), t)
  BY BackendUpLands
<1> QED BY <1>1 DEF BackendUp

\* The slot is free.
LEMMA SlotFreeLands ==
  ASSUME Ready(page), NEW t \in Tasks, SlotFree(t)
  PROVE  Lands(page, page', t)
<1>1. page.task[t].pc = "slot"
  BY DEF SlotFree, Resumed
<1>2. \/ page' = Finish(page, t) /\ ~page.task[t].cur
      \/ page.task[t].cur /\ page.task[t].flow = "start" /\ page' = Proceed(page, t)
      \/ page.task[t].cur /\ page.task[t].flow # "start" /\ page' = Commit(page, t)
  BY DEF SlotFree
<1>3. ~page.task[t].cur => Lands(page, Finish(page, t), t)
  BY ReadyRuns, FinishLands
<1>4. page.task[t].cur /\ page.task[t].flow = "start" => Lands(page, Proceed(page, t), t)
  BY <1>1, BareAlone, ReadyRuns, ProceedLands DEF Bare
<1>5. page.task[t].cur /\ page.task[t].flow # "start" => Lands(page, Commit(page, t), t)
  BY <1>1, ReadyRuns, CommitLands DEF Placed
<1> QED BY <1>2, <1>3, <1>4, <1>5

\* The renderer was made, or could not be.
LEMMA CreatedActionLands ==
  ASSUME Ready(page), NEW t \in Tasks, Created(t)
  PROVE  Lands(page, page', t)
<1>1. page.task[t].pc = "create"
  BY DEF Created, Resumed
<1>2. PICK busy \in BOOLEAN : page' \in {RendererCreated(page, t, busy), InitFailed(page, t)}
  BY DEF Created
<1>3. page.task[t].cur => Alone(page, t) /\ page.session = NoSession /\ ~page.destroyed
  BY <1>1, BareAlone DEF Bare
<1>4. Lands(page, RendererCreated(page, t, busy), t)
  BY <1>3, ReadyRuns, CreatedLands
<1>5. Lands(page, InitFailed(page, t), t)
  BY <1>3, ReadyRuns, InitFailedLands
<1> QED BY <1>2, <1>4, <1>5

\* The renderer followed the node, or could not.
LEMMA AlignedLands ==
  ASSUME Ready(page), NEW t \in Tasks, Aligned(t)
  PROVE  Lands(page, page', t)
<1> DEFINE dropped == [page EXCEPT !.alive = page.alive - 1, !.task[t].made = FALSE]
           moved == [page EXCEPT !.task[t].stale = FALSE]
<1>1. page.task[t].pc = "align"
  BY DEF Aligned, Resumed
<1>2. Shape(page) /\ Phased(page, {t})
  BY ReadyRuns
<1>3. page.task[t].cur => Alone(page, t) /\ page.session = NoSession /\ ~page.destroyed
  BY <1>1, BareAlone DEF Bare
<1>4. PICK busy \in BOOLEAN :
        \/ ~page.task[t].cur /\ page' = Finish(dropped, t)
        \/ page' = InitFailed(dropped, t)
        \/ page.task[t].cur /\ page' \in {moved, OwnRenderer(page, t, busy)}
  BY DEF Aligned
<1>5. View(page, dropped, t)
  <2> DEFINE n == page.alive - 1
  <2>1. dropped = [page EXCEPT !.alive = n, !.task[t].made = FALSE]
    OBVIOUS
  <2> HIDE DEF dropped, n
  <2> QED BY <1>2, <2>1, MadeView
<1> HIDE DEF dropped
<1>6. /\ Shape(dropped) /\ Phased(dropped, {t})
      /\ dropped.task[t].cur <=> page.task[t].cur
      /\ dropped.task[t].cur => Alone(dropped, t)
  BY <1>2, <1>3, <1>5, ViewPhased DEF View, Sees, Stands, Alone
<1>7. Lands(dropped, InitFailed(dropped, t), t)
  BY <1>6, InitFailedLands
<1>8. ~page.task[t].cur => Lands(dropped, Finish(dropped, t), t)
  BY <1>6, FinishLands
<1>9. Lands(page, InitFailed(dropped, t), t) /\ (~page.task[t].cur => Lands(page, Finish(dropped, t), t))
  BY <1>5, <1>7, <1>8, ViewLands
<1>10. page.task[t].cur => Lands(page, OwnRenderer(page, t, busy), t)
  BY <1>2, <1>3, OwnLands
<1>11. page.task[t].cur => Lands(page, moved, t)
  <2>1. View(page, moved, t) /\ moved.task[t].pc = "align" /\ moved.task[t].flow = page.task[t].flow
    BY <1>1, <1>2, StaleView
  <2> HIDE DEF moved
  <2>2. page.task[t].cur => MayStand(moved, t, "align")
    BY <1>3, <2>1 DEF MayStand, Alone, View, Sees
  <2> QED BY <1>2, <2>1, <2>2, RestLands DEF Waits
<1> HIDE DEF moved
<1> QED BY <1>4, <1>9, <1>10, <1>11

\* The request left the ledger.
LEMMA SettledSees ==
  ASSUME NEW p, Shape(p), NEW t
  PROVE  Same(p, Settled(p, t))
<1> DEFINE x == IF p.pending = t THEN Nobody ELSE p.pending
           q == [p EXCEPT !.pending = x]
<1>1. Settled(p, t) = q
  BY DEF Settled
<1> HIDE DEF x
<1>2. Same(p, q)
  BY FieldsSee
<1> HIDE DEF q
<1> QED BY <1>1, <1>2

\* Native capture is active in the page of the latest operation.
Activated(p, sid) == [MarkActive(p, "native-active") EXCEPT !.session = sid]

\* A session that arrives for the latest operation makes native capture active.
LEMMA ActivePhased ==
  ASSUME NEW p, Shape(p), NEW t \in Tasks, Phased(p, {t}), \A u \in Tasks : p.task[u].cur <=> u = t,
         ~p.destroyed, ~p.renderer, NEW sid, sid # NoSession
  PROVE  LET q == Activated(p, sid) IN
         /\ Shape(q) /\ Phased(q, {t}) /\ q.phase = "native-active" /\ q.session = sid
         /\ q.mail = p.mail /\ q.abandoned = p.abandoned /\ q.task = p.task
<1> DEFINE q == Activated(p, sid)
<1>1. /\ IsPage(q) /\ q.renderer = p.renderer /\ q.queue = p.queue
      /\ q.task = p.task /\ q.session = sid
  BY ActiveIs DEF Shape, Activated
<1>2. q.mail = p.mail /\ q.abandoned = p.abandoned /\ q.phase = "native-active"
  BY DEF Activated, MarkActive, Shape, IsPage, PageField
<1> HIDE DEF q
<1>3. Shape(q) /\ Phased(q, {t})
  BY <1>1, <1>2 DEF Shape, Phased, Phases, Placed
<1> QED BY <1>1, <1>2, <1>3 DEF q

\* The request was answered: the page may hold the session it was told of.
LEMMA FallbackLands ==
  ASSUME Ready(page), NEW t \in Tasks, FallbackAnswered(t), Head(inbox).sid \in Nat,
         Head(inbox).ok => Head(inbox).sid # NoSession
  PROVE  /\ Shape(page') /\ Phased(page', {}) /\ Turns(page, page', t)
         /\ page'.session \in {page.session, NoSession, Head(inbox).sid}
<1> DEFINE r == Head(inbox)
           q == Settled(page, t)
           a == Activated(q, r.sid)
           w == Await(Post(page, "stop", t, r.sid), t, "absorb")
<1>1. page.task[t].pc = "fallback"
  BY DEF FallbackAnswered, Answered
<1>2. PICK busy \in BOOLEAN :
        \/ page' = w
        \/ ~page.task[t].cur /\ page' = Finish(q, t)
        \/ page' = Fail(q, t)
        \/ page.task[t].cur /\ r.ok /\ page' = BackendUp(a, t, busy)
  BY DEF FallbackAnswered, Activated
<1>3. /\ Shape(page) /\ Phased(page, {t}) /\ TaskSound(page, t) /\ Placed(page, t)
      /\ page.task[t].cur => ~page.destroyed /\ \A u \in Tasks : page.task[u].cur <=> u = t
  BY ReadyRuns
<1>4. Same(page, q) /\ Shape(q) /\ Phased(q, {t}) /\ (q.task[t].cur <=> page.task[t].cur)
  BY <1>3, SettledSees, SamePhased
<1>5. Lands(page, w, t)
  <2>1. MayStand(page, t, "absorb") /\ "absorb" \in Waits /\ Asks("absorb") = "stop"
    BY <1>1, <1>3 DEF Placed, MayStand, Waits, Asks
  <2> QED BY <1>3, <2>1, SendLands
<1> HIDE DEF q, w
<1>6. Lands(page, Fail(q, t), t) /\ (~page.task[t].cur => Lands(page, Finish(q, t), t))
  BY <1>4, FailLands, FinishLands, SameLands
<1>7. ASSUME page.task[t].cur, r.ok
      PROVE  LET b == BackendUp(a, t, busy) IN
             /\ Shape(b) /\ Phased(b, {}) /\ Turns(page, b, t) /\ b.session \in {r.sid, NoSession}
  <2> DEFINE b == BackendUp(a, t, busy)
  <2>1. /\ Shape(a) /\ Phased(a, {t}) /\ a.phase = "native-active" /\ a.session = r.sid
        /\ a.mail = q.mail /\ a.abandoned = q.abandoned /\ a.task = q.task
    <3>1. /\ \A u \in Tasks : q.task[u].cur <=> u = t
          /\ ~q.destroyed /\ ~q.renderer
      BY <1>1, <1>3, <1>4, <1>7 DEF Same, Sees, Stands, TaskSound
    <3> QED BY <1>4, <1>7, <3>1, ActivePhased
  <2> HIDE DEF a
  <2>2. Lands(a, b, t)
    BY <2>1, BackendUpLands
  <2> HIDE DEF b
  <2>3. Letters(a) \subseteq Letters(page)
    BY <2>1 DEF Letters
  <2>4. Said(page, b, t)
    BY <1>4, <2>1, <2>2, <2>3 DEF Same, Sees, Lands, Turns, Said
  <2>5. Turns(page, b, t)
    BY <1>4, <1>7, <2>1, <2>2, <2>4 DEF Same, Sees, Stands, Lands, Turns
  <2> QED BY <2>1, <2>2, <2>5 DEF Lands, b
<1> QED BY <1>2, <1>5, <1>6, <1>7 DEF Lands

\* The late session was stopped.
LEMMA AbsorbedLands ==
  ASSUME Ready(page), NEW t \in Tasks, Absorbed(t)
  PROVE  Lands(page, page', t)
<1> DEFINE q == Settled(page, t)
<1>1. \/ ~page.task[t].cur /\ page' = Finish(q, t)
      \/ page' = Fail(q, t)
  BY DEF Absorbed
<1>2. Same(page, q) /\ Shape(q) /\ Phased(q, {t}) /\ (q.task[t].cur <=> page.task[t].cur)
  BY ReadyRuns, SettledSees, SamePhased
<1> HIDE DEF q
<1> QED BY <1>1, <1>2, FailLands, FinishLands, SameLands

\* The stop was answered.
LEMMA StoppedLands ==
  ASSUME Ready(page), NEW t \in Tasks, Stopped(t)
  PROVE  Lands(page, page', t)
<1>1. page.task[t].pc = "stopping" /\ page' = AfterStop(page, t)
  BY DEF Stopped, Answered
<1> QED BY <1>1, ReadyRuns, AfterStopLands DEF TaskSound, Transits

\* The update was answered: with its session the page goes on, without it the page is idle.
LEMMA UpdatedLands ==
  ASSUME Ready(page), NEW t \in Tasks, UpdateAnswered(t)
  PROVE  Lands(page, page', t)
<1> DEFINE a == MarkActive(page, "native-active")
           alive == IF page.session # NoSession THEN a ELSE page
           prev == page.task[t].prev
           q == [alive EXCEPT !.settings = prev]
<1>1. page.task[t].pc = "update"
  BY DEF UpdateAnswered, Answered
<1>2. /\ Shape(page) /\ Phased(page, {t}) /\ TaskSound(page, t) /\ Placed(page, t)
      /\ page.task[t].cur => ~page.destroyed /\ \A u \in Tasks : page.task[u].cur <=> u = t
  BY ReadyRuns
<1>3. \/ ~page.task[t].cur /\ page' = Finish(page, t)
      \/ page.task[t].cur /\ page' \in {Finish(alive, t), Finish(q, t)}
  BY DEF UpdateAnswered, Updated
<1>4. ASSUME page.task[t].cur
      PROVE  Lands(page, Finish(alive, t), t) /\ Lands(page, Finish(q, t), t)
  <2>1. /\ Shape(alive) /\ Phased(alive, {t}) /\ alive.phase # "starting" /\ alive.session = page.session
        /\ alive.mail = page.mail /\ alive.abandoned = page.abandoned /\ alive.task = page.task
    <3>1. CASE page.session # NoSession
      <4>1. ~page.renderer
        BY <1>1, <1>2, <1>4 DEF TaskSound
      <4>2. a = Activated(page, page.session)
        BY <1>2 DEF Activated, MarkActive, Shape, IsPage, PageField
      <4> DEFINE sid == page.session
                 w == Activated(page, sid)
      <4>3. sid # NoSession
        BY <3>1
      <4> HIDE DEF sid
      <4>4. /\ Shape(w) /\ Phased(w, {t}) /\ w.phase = "native-active" /\ w.session = sid
            /\ w.mail = page.mail /\ w.abandoned = page.abandoned /\ w.task = page.task
        BY <1>2, <1>4, <4>1, <4>3, ActivePhased
      <4> HIDE DEF w
      <4>5. a = w
        BY <4>2 DEF sid, w
      <4> HIDE DEF a
      <4> QED BY <3>1, <4>4, <4>5 DEF sid
    <3>2. CASE page.session = NoSession
      BY <1>1, <1>2, <1>4, <3>2 DEF Placed
    <3> QED BY <3>1, <3>2
  <2> HIDE DEF alive, prev
  <2>2. Leads(page, alive, t)
    BY <2>1 DEF Leads
  <2>3. Lands(alive, Finish(alive, t), t)
    BY <2>1, FinishLands
  <2>4. Same(alive, q)
    BY <2>1, FieldsSee
  <2> HIDE DEF q
  <2>5. Lands(q, Finish(q, t), t)
    BY <2>1, <2>4, SamePhased, FinishLands DEF Same, Sees
  <2>6. Lands(alive, Finish(q, t), t)
    BY <2>4, <2>5, SameLands
  <2> QED BY <1>4, <2>2, <2>3, <2>6, LeadsLands
<1> QED BY <1>2, <1>3, <1>4, FinishLands

\* The stop of a switch was answered.
LEMMA SwitchStoppedLands ==
  ASSUME Ready(page), NEW t \in Tasks, SwitchStopped(t)
  PROVE  Lands(page, page', t)
<1>1. /\ page.task[t].pc = "switchstop"
      /\ \/ ~page.task[t].cur /\ page' = Finish(page, t)
         \/ page.task[t].cur /\ page' = Await(Post(page, "claim", t, NoSession), t, "claim")
  BY DEF SwitchStopped, Answered
<1>2. page.task[t].cur => Alone(page, t) /\ page.session = NoSession
  BY <1>1, BareAlone DEF Bare
<1>3. ASSUME page.task[t].cur
      PROVE  Lands(page, Await(Post(page, "claim", t, NoSession), t, "claim"), t)
  <2>1. MayStand(page, t, "claim") /\ "claim" \in Waits /\ Asks("claim") = "claim" /\ NoSession \in Nat
    BY <1>2, <1>3 DEF MayStand, Alone, Waits, Asks, NoSession
  <2> QED BY <2>1, ReadyRuns, SendLands
<1> QED BY <1>1, <1>3, ReadyRuns, FinishLands

\* The renderer was reconfigured, or failed.
LEMMA ReconfiguredLands ==
  ASSUME Ready(page), NEW t \in Tasks, Reconfigured(t)
  PROVE  Lands(page, page', t)
<1> DEFINE prev == page.task[t].prev
           q == [page EXCEPT !.settings = prev]
<1>1. page.task[t].pc = "reconfig"
  BY DEF Reconfigured, Resumed
<1>2. Shape(page) /\ Phased(page, {t}) /\ ~page.task[t].cur
  BY <1>1, ReadyRuns DEF TaskSound, Transits
<1>3. page' \in {Finish(page, t), StopThen(q, t, FALSE, "end"), Finish(q, t), HandleRendererError(page, t)}
  BY DEF Reconfigured
<1> HIDE DEF prev
<1>4. Same(page, q)
  BY <1>2, FieldsSee
<1> HIDE DEF q
<1>5. Shape(q) /\ Phased(q, {t}) /\ ~q.task[t].cur
  BY <1>2, <1>4, SamePhased
<1>6. Lands(q, StopThen(q, t, FALSE, "end"), t) /\ Lands(q, Finish(q, t), t)
  BY <1>5, StopThenLands, FinishLands DEF Ends
<1> QED BY <1>2, <1>3, <1>4, <1>6, SameLands, FinishLands, ErrorLands

\* The renderer follows the new node, or failed.
LEMMA SourceLands ==
  ASSUME Ready(page), NEW t \in Tasks, SourceSwitched(t)
  PROVE  Lands(page, page', t)
<1> DEFINE d == [page EXCEPT !.task[t] = NoTask]
<1>1. page.task[t].pc = "source"
  BY DEF SourceSwitched, Resumed
<1>2. Shape(page) /\ Phased(page, {t}) /\ ~page.task[t].cur
  BY <1>1, ReadyRuns DEF TaskSound, Transits
<1>3. page' \in {Finish(page, t), d, HandleRendererError(page, t)}
  BY DEF SourceSwitched
<1>4. Lands(page, d, t)
  <2>1. Puts(page, d, t, NoTask) /\ Mute(page, d)
    BY <1>2 DEF Shape, IsPage, PageField, Puts, Like, Mute
  <2> HIDE DEF d
  <2>2. View(page, d, t) /\ d.task[t] = NoTask
    BY <1>2, <2>1, NoTaskIs, PutsView
  <2> QED BY <1>2, <2>2, NoTaskIs, RestLands DEF MayStand, Waits
<1> HIDE DEF d
<1> QED BY <1>2, <1>3, <1>4, FinishLands, ErrorLands

-----------------------------------------------------------------------------
(* The queued operations. *)

\* A reconciliation starts, stops or leaves things alone.
LEMMA DecideLands ==
  ASSUME NEW p, Shape(p), NEW t \in Tasks, Phased(p, {t}), ~p.task[t].cur
  PROVE  Lands(p, Decide(p, t), t)
<1> DEFINE x == p.blocked /\ p.full
           q == [p EXCEPT !.blocked = x]
           a == [q EXCEPT !.automatic = TRUE, !.task[t].kind = "auto"]
           b == [q EXCEPT !.automatic = FALSE]
<1>1. Decide(p, t) \in {StartEnhancement(a, t), StopThen(b, t, TRUE, "end"), Finish(q, t)}
  BY DEF Decide
<1> HIDE DEF x
<1>2. Same(p, q)
  BY FieldsSee
<1> HIDE DEF q
<1>3. Shape(q) /\ Phased(q, {t}) /\ ~q.task[t].cur
  BY <1>2, SamePhased
<1>4. View(q, a, t) /\ Same(q, b)
  BY <1>3, KindView, FieldsSee
<1> HIDE DEF a, b
<1>5. Shape(a) /\ Phased(a, {t}) /\ ~a.task[t].cur
  BY <1>3, <1>4, ViewPhased DEF View, Sees
<1>6. Shape(b)
  BY <1>4 DEF Same, Sees
<1>7. Lands(q, StartEnhancement(a, t), t)
  BY <1>4, <1>5, StartLands, ViewLands
<1>8. Lands(q, StopThen(b, t, TRUE, "end"), t)
  BY <1>4, <1>6, StopThenLands, SameLands DEF Ends
<1>9. Lands(q, Finish(q, t), t)
  BY <1>3, FinishLands
<1> QED BY <1>1, <1>2, <1>7, <1>8, <1>9, SameLands

\* So does one that had to read the settings.
LEMMA LoadedLands ==
  ASSUME NEW p, Shape(p), NEW t \in Tasks, Phased(p, {t}), ~p.task[t].cur, NEW chosen
  PROVE  Lands(p, Loaded(p, t, chosen), t)
<1> DEFINE q == [p EXCEPT !.settings = chosen]
<1>1. Same(p, q)
  BY FieldsSee
<1> HIDE DEF q
<1>2. Lands(p, Decide(q, t), t)
  BY <1>1, SamePhased, DecideLands, SameLands
<1> QED BY <1>2, FinishLands DEF Loaded, q

\* And one that had not.
LEMMA ReconcileLands ==
  ASSUME NEW p, Shape(p), NEW t \in Tasks, Phased(p, {t}), ~p.task[t].cur
  PROVE  Lands(p, Reconcile(p, t), t)
<1>1. Lands(p, Await(p, t, "load"), t)
  BY AwaitLands DEF MayStand, Waits
<1> QED BY <1>1, FinishLands, DecideLands DEF Reconcile

\* The settings were read.
LEMMA SettingsLoadedLands ==
  ASSUME Ready(page), NEW t \in Tasks, SettingsLoaded(t)
  PROVE  Lands(page, page', t)
<1>1. page.task[t].pc = "load" /\ page' \in {Loaded(page, t, stored), Finish(page, t)}
  BY DEF SettingsLoaded, Resumed
<1>2. Shape(page) /\ Phased(page, {t}) /\ ~page.task[t].cur
  BY <1>1, ReadyRuns DEF TaskSound, Transits
<1> QED BY <1>1, <1>2, LoadedLands, FinishLands

\* The switch to WebGPU gave the session up, and waits for the stop that ends it.
WebSwitched(p, q, t) ==
  /\ Shape(q) /\ Phased(q, {})
  /\ p.session # NoSession /\ q.abandoned = p.session
  /\ q.phase = "starting" /\ q.session = NoSession
  /\ q.mail = Append(p.mail, [op |-> "stop", from |-> t, sid |-> p.session])
  /\ q.task[t].pc = "switchstop"
  /\ \A u \in Tasks : (q.task[u].cur <=> u = t) /\ (u # t => q.task[u].pc = p.task[u].pc)

\* The switch to WebGPU gives the session up and waits for its stop.
LEMMA SwitchToWebLands ==
  ASSUME NEW p, Shape(p), NEW t \in Tasks, Phased(p, {t}), NativeActive(p)
  PROVE  WebSwitched(p, SwitchToWeb(p, t), t)
<1> DEFINE sid == p.session
           b == BeginTransition(p, t)
           a == [b EXCEPT !.session = NoSession, !.abandoned = sid, !.switch = t]
           q == [a EXCEPT !.task[t].flow = "toWeb"]
           e == [b EXCEPT !.session = NoSession, !.abandoned = sid, !.switch = t, !.task[t].flow = "toWeb"]
           c == CancelPending(q)
           m == Post(c, "stop", t, sid)
           r == Await(m, t, "switchstop")
           l == [op |-> "stop", from |-> t, sid |-> sid]
<1>1. /\ Shape(b) /\ b.phase = "starting" /\ b.renderer = p.renderer /\ b.mail = p.mail
      /\ \A u \in Tasks : (b.task[u].cur <=> u = t) /\ b.task[u].pc = p.task[u].pc
  BY BeginSees
<1>2. SwitchToWeb(p, t) =
        Await(Post(CancelPending(e), "stop", t, sid), t, "switchstop")
  BY DEF SwitchToWeb
<1>3. sid # NoSession /\ ~p.renderer
  BY DEF Phased, NativeActive
<1> HIDE DEF b, sid
<1>4. /\ IsPage(a) /\ a.renderer = b.renderer /\ a.queue = b.queue
      /\ a.task = b.task /\ a.phase = b.phase /\ a.session = NoSession
  BY <1>1 DEF Shape, IsPage, PageField
<1>14. e = q
  BY <1>1 DEF Shape, IsPage, PageField, AreTasks
<1> HIDE DEF e
<1>5. a.mail = b.mail /\ a.abandoned = sid
  BY <1>1 DEF Shape, IsPage, PageField
<1> HIDE DEF a
<1>6. Shape(a)
  BY <1>1, <1>4 DEF Shape
<1>7. View(a, q, t)
  BY <1>6, FlowView
<1> HIDE DEF q
<1>8. Sees(q, c) /\ \A u \in Tasks : Stands(q, c, u)
  BY <1>7, CancelSees DEF View, Sees
<1> HIDE DEF c
<1>9. /\ Shape(m) /\ m.task = c.task
      /\ m.phase = c.phase /\ m.renderer = c.renderer /\ m.session = c.session
      /\ m.abandoned = c.abandoned /\ m.mail = Append(c.mail, l)
  BY <1>8, PostSees DEF Sees
<1> HIDE DEF m, l
<1>10. View(m, r, t) /\ r.task[t].pc = "switchstop"
  BY <1>9, AwaitView
<1> HIDE DEF r
<1>11. /\ Shape(r) /\ ~r.renderer /\ r.phase = "starting" /\ r.session = NoSession
       /\ r.abandoned = sid /\ r.mail = Append(p.mail, l)
       /\ \A u \in Tasks : (r.task[u].cur <=> u = t) /\ (u # t => r.task[u].pc = p.task[u].pc)
  BY <1>1, <1>3, <1>4, <1>5, <1>7, <1>8, <1>9, <1>10 DEF View, Sees, Stands
<1>12. Phased(r, {})
  BY <1>10, <1>11 DEF Phased, Phases, Placed
<1>13. SwitchToWeb(p, t) = r
  BY <1>2, <1>14 DEF c, m, r
<1> QED BY <1>3, <1>10, <1>11, <1>12, <1>13 DEF WebSwitched, sid, l

\* A settings change: each of its ways on.
LEMMA ApplySettingsLands ==
  ASSUME NEW p, Shape(p), NEW t \in Tasks, Phased(p, {t}), ~p.task[t].cur, NEW to
  PROVE  LET r == ApplySettings(p, t, to) IN Lands(p, r, t) \/ WebSwitched(p, r, t)
<1> DEFINE q == [p EXCEPT !.settings = to, !.task[t].prev = p.settings]
           a == [q EXCEPT !.automatic = FALSE]
           i == [q EXCEPT !.automatic = FALSE, !.applied = FALSE]
           b == BeginTransition(q, t)
           u == Await(Post(b, "update", t, p.session), t, "update")
           r == [Await(q, t, "reconfig") EXCEPT !.task[t].stale = FALSE]
           result == ApplySettings(p, t, to)
<1>1. View(p, q, t)
  BY KindView
<1>2. \/ result \in {Finish(p, t), StopThen(a, t, TRUE, "end"), Finish(i, t),
                     StopThen(q, t, TRUE, "schedule"), Finish(Schedule(q), t),
                     SwitchToNative(b, t), r}
      \/ NativeActive(p) /\ result \in {u, SwitchToWeb(q, t)}
  <2>1. CASE p.destroyed
    BY <2>1 DEF ApplySettings
  <2>2. CASE ~p.destroyed /\ ~Enabled(to)
    BY <2>2 DEF ApplySettings
  <2>3. CASE ~p.destroyed /\ Enabled(to) /\ ~p.renderer /\ ~NativeActive(p)
    BY <2>3 DEF ApplySettings
  <2>4. CASE ~p.destroyed /\ Enabled(to) /\ NativeActive(p)
    BY <2>4 DEF ApplySettings
  <2>5. CASE ~p.destroyed /\ Enabled(to) /\ p.renderer /\ ~NativeActive(p)
    BY <2>5 DEF ApplySettings
  <2> QED BY <2>1, <2>2, <2>3, <2>4, <2>5
<1> HIDE DEF q
<1>3. Shape(q) /\ Phased(q, {t}) /\ ~q.task[t].cur /\ q.session = p.session /\ q.phase = p.phase
  BY <1>1, ViewPhased DEF View, Sees
<1>4. Lands(p, Finish(p, t), t)
  BY FinishLands
<1>5. Lands(q, StopThen(q, t, TRUE, "schedule"), t)
  BY <1>3, StopThenLands DEF Ends
<1>6. Lands(q, Finish(Schedule(q), t), t)
  <2> DEFINE s == Schedule(q)
  <2>1. Same(q, s)
    BY <1>3, ScheduleSees DEF Same
  <2> HIDE DEF s
  <2> QED BY <1>3, <2>1, SamePhased, FinishLands, SameLands DEF s
<1>7. Lands(q, StopThen(a, t, TRUE, "end"), t) /\ Lands(q, Finish(i, t), t)
  <2>1. Same(q, a) /\ Shape(a) /\ Phased(a, {t}) /\ ~a.task[t].cur
    <3>1. Same(q, a)
      BY <1>3, FieldsSee
    <3> HIDE DEF a
    <3> QED BY <1>3, <3>1, SamePhased
  <2>2. i = [a EXCEPT !.applied = FALSE]
    BY <1>3 DEF Shape, IsPage, PageField
  <2> HIDE DEF a
  <2>3. Same(a, i)
    BY <2>1, <2>2, FieldsSee
  <2> HIDE DEF i
  <2>4. Lands(q, StopThen(a, t, TRUE, "end"), t)
    BY <2>1, StopThenLands, SameLands DEF Ends
  <2>5. Lands(a, Finish(i, t), t)
    BY <2>1, <2>3, SamePhased, FinishLands, SameLands
  <2> QED BY <2>1, <2>4, <2>5, SameLands
<1>8. Lands(q, SwitchToNative(b, t), t) /\ Lands(q, r, t)
  <2>1. MayStand(q, t, "reconfig") /\ "reconfig" \notin Waits
    BY <1>3 DEF MayStand, Waits
  <2> QED BY <1>3, <2>1, SwitchLands, AwaitLands
<1>9. NativeActive(p) => Lands(q, u, t)
  <2> HAVE NativeActive(p)
  <2>1. /\ Shape(b) /\ b.phase = "starting" /\ b.renderer = q.renderer /\ b.session = q.session
        /\ b.abandoned = q.abandoned /\ b.mail = q.mail
        /\ \A w \in Tasks : (b.task[w].cur <=> w = t) /\ b.task[w].pc = q.task[w].pc
    BY <1>3, BeginSees
  <2> HIDE DEF b
  <2>2. b.session # NoSession /\ ~b.renderer
    BY <1>3, <2>1 DEF NativeActive, Phased
  <2>3. Phased(b, {t}) /\ Leads(q, b, t)
    BY <2>1, <2>2 DEF Phased, Phases, Placed, Leads
  <2>4. MayStand(b, t, "update") /\ "update" \in Waits /\ Asks("update") = "update"
    BY <2>1, <2>2 DEF MayStand, Waits, Asks
  <2>5. Lands(b, u, t)
    BY <1>3, <2>1, <2>3, <2>4, SendLands
  <2> QED BY <1>3, <2>3, <2>5, LeadsLands DEF GoesOn, NativeActive
<1>10. NativeActive(p) => WebSwitched(p, SwitchToWeb(q, t), t)
  <2>1. NativeActive(p) => WebSwitched(q, SwitchToWeb(q, t), t)
    BY <1>3, SwitchToWebLands DEF NativeActive
  <2> QED BY <1>1, <2>1 DEF View, Sees, Stands, WebSwitched
<1> HIDE DEF a, i, b, u, r, result
<1>11. /\ Lands(p, StopThen(a, t, TRUE, "end"), t) /\ Lands(p, Finish(i, t), t)
       /\ Lands(p, StopThen(q, t, TRUE, "schedule"), t) /\ Lands(p, Finish(Schedule(q), t), t)
       /\ Lands(p, SwitchToNative(b, t), t) /\ Lands(p, r, t)
       /\ (NativeActive(p) => Lands(p, u, t))
  BY <1>1, <1>5, <1>6, <1>7, <1>8, <1>9, ViewLands
<1> QED BY <1>2, <1>4, <1>10, <1>11 DEF result

\* An auto-cap step.
LEMMA ApplyCapLands ==
  ASSUME NEW p, Shape(p), NEW t \in Tasks, Phased(p, {t}), ~p.task[t].cur
  PROVE  Lands(p, ApplyCapStep(p, t), t)
<1>1. MayStand(p, t, "reconfig") /\ "reconfig" \notin Waits
  BY DEF MayStand, Waits
<1>2. Lands(p, [Await(p, t, "reconfig") EXCEPT !.task[t].stale = FALSE], t)
  BY <1>1, AwaitLands
<1> QED BY <1>2, FinishLands DEF ApplyCapStep

\* The queue starts a job.
LEMMA RunJobLands ==
  ASSUME Ready(page), RunJob
  PROVE  Lands(page, page', "job") \/ WebSwitched(page, page', "job")
<1> DEFINE job == Head(page.queue)
           s == Tail(page.queue)
           t == "job"
           r == [NoTask EXCEPT !.kind = job.kind, !.fresh = job.fresh]
           p == [page EXCEPT !.queue = s, !.task[t] = r]
<1>1. /\ page.task[t].pc = "none" /\ page.queue # <<>>
      /\ page' = CASE job.kind = "reconcile" -> Reconcile(p, t)
                   [] job.kind = "update"    -> ApplySettings(p, t, job.to)
                   [] job.kind = "cap"       -> ApplyCapStep(p, t)
  BY DEF RunJob
<1>2. t \in Tasks
  BY DEF Tasks
<1> HIDE DEF t
<1>3. Shape(page) /\ Phased(page, {t}) /\ ~page.task[t].cur
  BY <1>1, <1>2, ReadyRuns DEF TaskSound, Transits
<1>4. job \in JobType /\ s \in Seq(JobType)
  <2>1. page.queue \in Seq(JobType)
    BY <1>3 DEF Shape
  <2> QED BY <1>1, <2>1, QueueHead
<1>5. job.kind \in {"reconcile", "update", "cap"} /\ job.fresh \in BOOLEAN
  BY <1>4 DEF JobType
<1>6. Takes(page, p, s, t, r) /\ Mute(page, p)
  <2> HIDE DEF s, r
  <2> QED BY <1>3, TakeIs DEF Shape, IsPage, PageField, Mute
<1>7. IsTask(r) /\ ~r.cur
  BY <1>5, JobTask
<1> HIDE DEF p, r, s
<1>8. View(page, p, t)
  <2>1. /\ AreTasks(p.task) /\ p.task[t] = r
        /\ \A u \in Tasks \ {t} : p.task[u] = page.task[u]
    BY <1>2, <1>3, <1>6, <1>7, PutTask DEF Takes, Shape
  <2> QED BY <1>3, <1>4, <1>6, <1>7, <2>1 DEF Takes, Mute, View, Sees, Stands, Shape
<1>9. Shape(p) /\ Phased(p, {t}) /\ ~p.task[t].cur
  BY <1>2, <1>3, <1>8, ViewPhased DEF View, Sees
<1> HIDE DEF job
<1>10. Lands(p, page', t) \/ WebSwitched(p, page', t)
  BY <1>1, <1>2, <1>5, <1>9, ReconcileLands, ApplySettingsLands, ApplyCapLands
<1>11. Lands(p, page', t) => Lands(page, page', t)
  BY <1>2, <1>8, ViewLands
<1>12. WebSwitched(p, page', t) => WebSwitched(page, page', t)
  BY <1>8 DEF WebSwitched, View, Sees, Stands
<1> QED BY <1>10, <1>11, <1>12 DEF t

-----------------------------------------------------------------------------
(* What happens to the page. *)

\* An event finds an operation that does nothing.
LEMMA SideReady ==
  ASSUME Ready(page), NEW t, Side(t)
  PROVE  /\ t \in Tasks /\ Shape(page) /\ Phased(page, {t}) /\ ~page.task[t].cur
         /\ page.task[t].pc = "none"
<1>1. t \in Tasks /\ page.task[t].pc = "none"
  BY DEF Side, Tasks
<1> QED BY <1>1, ReadyRuns DEF TaskSound, Transits

\* It may leave the operation where it is.
LEMMA SameRests ==
  ASSUME NEW p, NEW t \in Tasks, Phased(p, {t}), ~p.task[t].cur, p.task[t].pc = "none",
         NEW q, Same(p, q)
  PROVE  Lands(p, q, t)
<1>1. View(p, q, t) /\ q.task[t].pc = "none" /\ ~q.task[t].cur
  BY DEF Same, Stands, View
<1> QED BY <1>1, RestLands DEF MayStand, Waits

\* Another video was chosen.
LEMMA ForceStopLands ==
  ASSUME Ready(page), NEW t, ForceStop(t)
  PROVE  t \in Tasks /\ Lands(page, page', t)
  BY SideReady, StopThenLands DEF ForceStop, Ends

\* The page comes back from the cache.
LEMMA BfcacheLands ==
  ASSUME Ready(page), NEW t, BfcacheRestore(t)
  PROVE  t \in Tasks /\ Lands(page, page', t)
<1>1. /\ t \in Tasks /\ Shape(page) /\ Phased(page, {t}) /\ ~page.task[t].cur
      /\ page.task[t].pc = "none"
  BY SideReady DEF BfcacheRestore
<1>2. page' \in {StopThen(page, t, TRUE, "schedule"), page}
  BY DEF BfcacheRestore
<1>3. Lands(page, StopThen(page, t, TRUE, "schedule"), t)
  BY <1>1, StopThenLands DEF Ends
<1>4. Lands(page, page, t)
  <2>1. Same(page, page)
    BY <1>1 DEF Same, Sees, Stands
  <2> QED BY <1>1, <2>1, SameRests
<1> QED BY <1>1, <1>2, <1>3, <1>4

\* The video turns out to be protected.
LEMMA EncryptedLands ==
  ASSUME Ready(page), NEW t, Encrypted(t)
  PROVE  t \in Tasks /\ Lands(page, page', t)
<1> DEFINE p == [page EXCEPT !.protected = TRUE]
<1>1. /\ t \in Tasks /\ Shape(page) /\ Phased(page, {t}) /\ ~page.task[t].cur
      /\ page.task[t].pc = "none"
  BY SideReady DEF Encrypted
<1>2. page' \in {p, SwitchToNative(BeginTransition(p, t), t)}
  BY DEF Encrypted
<1>3. Same(page, p)
  BY <1>1, FieldsSee
<1> HIDE DEF p
<1>4. Lands(page, p, t)
  BY <1>1, <1>3, SameRests
<1>5. Lands(page, SwitchToNative(BeginTransition(p, t), t), t)
  BY <1>1, <1>3, SamePhased, SwitchLands, SameLands
<1> QED BY <1>1, <1>2, <1>4, <1>5

\* The renderer fails.
LEMMA RendererErrorLands ==
  ASSUME Ready(page), NEW t, RendererError(t)
  PROVE  t \in Tasks /\ Lands(page, page', t)
  BY SideReady, ErrorLands DEF RendererError

\* The automatic target is refreshed.
LEMMA RefreshLands ==
  ASSUME Ready(page), NEW t, RefreshTarget(t)
  PROVE  t \in Tasks /\ Lands(page, page', t)
<1>1. /\ t \in Tasks /\ Shape(page) /\ Phased(page, {t}) /\ ~page.task[t].cur
      /\ page' = Await(page, t, "reconfig")
  BY SideReady DEF RefreshTarget
<1>2. MayStand(page, t, "reconfig") /\ "reconfig" \notin Waits
  BY <1>1 DEF MayStand, Waits
<1> QED BY <1>1, <1>2, AwaitLands

\* The watchdog restarts the enhancer.
LEMMA WatchdogLands ==
  ASSUME Ready(page), NEW t, Watchdog(t)
  PROVE  t \in Tasks /\ Lands(page, page', t)
<1> DEFINE q == [page EXCEPT !.restarted = TRUE]
<1>1. t \in Tasks /\ Shape(page) /\ Phased(page, {t}) /\ page' = StopThen(q, t, TRUE, "restart")
  BY SideReady DEF Watchdog
<1>2. Same(page, q)
  BY <1>1, FieldsSee
<1> HIDE DEF q
<1> QED BY <1>1, <1>2, SamePhased, StopThenLands, SameLands DEF Ends

\* Tasks that differ in what they know of the node stand where they stood.
LEMMA RetaskedSame ==
  ASSUME NEW p, Shape(p), NEW s, NEW q, Retasks(p, q, s), Mute(p, q), AreTasks(s),
         \A u \in Tasks : Moves(p.task[u], s[u]) /\ s[u].pc = p.task[u].pc /\ s[u].flow = p.task[u].flow
  PROVE  Same(p, q)
  BY DEF Same, Sees, Stands, Retasks, Mute, Moves, Shape

\* The player puts another node in place.
LEMMA ReattachLands ==
  ASSUME Ready(page), NEW t, Reattach(t)
  PROVE  t \in Tasks /\ Lands(page, page', t)
<1> DEFINE s == [u \in Tasks |->
                  [page.task[u] EXCEPT !.stale = page.task[u].stale \/ page.task[u].pc \in {"create", "align"}]]
           p == [page EXCEPT !.attached = TRUE, !.timer = "off", !.task = s]
           r == [NoTask EXCEPT !.kind = "reattach"]
           q == [p EXCEPT !.task[t] = r]
<1>1. page' = IF page.renderer THEN Await(q, t, "source") ELSE Finish(q, t)
  BY DEF Reattach
<1>2. t \in Tasks /\ Shape(page) /\ Phased(page, {t}) /\ ~page.task[t].cur
  BY SideReady DEF Reattach
<1>3. ASSUME NEW u \in Tasks
      PROVE  Moves(page.task[u], s[u]) /\ s[u].pc = page.task[u].pc /\ s[u].flow = page.task[u].flow
  <2> DEFINE x == page.task[u].stale \/ page.task[u].pc \in {"create", "align"}
  <2>1. IsTask(page.task[u]) /\ s[u] = [page.task[u] EXCEPT !.stale = x]
    BY <1>2 DEF Shape, AreTasks
  <2> HIDE DEF s, x
  <2> QED BY <2>1, MoveStale
<1>4. AreTasks(s)
  BY <1>3 DEF AreTasks, Moves
<1> HIDE DEF s
<1>5. Retasks(page, p, s) /\ Mute(page, p)
  BY <1>2, NodeIs DEF Shape, IsPage, PageField, Mute
<1> HIDE DEF p
<1>6. Same(page, p)
  BY <1>2, <1>3, <1>4, <1>5, RetaskedSame
<1>7. Shape(p) /\ Phased(p, {t}) /\ ~p.task[t].cur
  BY <1>2, <1>6, SamePhased
<1>8. IsTask(r) /\ ~r.cur
  BY ReattachTask
<1> HIDE DEF r
<1>9. Puts(p, q, t, r) /\ Mute(p, q)
  BY <1>7, PutsIs DEF Shape, IsPage, PageField, Mute
<1> HIDE DEF q
<1>10. View(p, q, t) /\ Shape(q) /\ Phased(q, {t}) /\ ~q.task[t].cur
  <2>1. View(p, q, t) /\ q.task[t] = r
    BY <1>2, <1>7, <1>8, <1>9, PutsView
  <2> QED BY <1>2, <1>7, <1>8, <2>1, ViewPhased DEF View, Sees
<1>11. MayStand(q, t, "source") /\ "source" \notin Waits
  BY <1>10 DEF MayStand, Waits
<1>12. Lands(q, Await(q, t, "source"), t) /\ Lands(q, Finish(q, t), t)
  BY <1>2, <1>10, <1>11, AwaitLands, FinishLands
<1> QED BY <1>1, <1>2, <1>6, <1>10, <1>12, ViewLands, SameLands

\* The page changes between its operations: one is given up only with the session.
Drifts(p, q) ==
  /\ Shape(q) /\ Phased(q, {})
  /\ \A u \in Tasks : q.task[u].pc = p.task[u].pc /\ (q.task[u].cur => p.task[u].cur)
  /\ q.session \in {p.session, NoSession}
  /\ \/ q.mail = p.mail
     \/ q.mail = Append(p.mail, [op |-> "stop", from |-> Nobody, sid |-> p.session])
  /\ \/ q.abandoned = NoSession
     \/ q.abandoned = p.abandoned /\ q.phase = p.phase /\ q.session = p.session

\* A page that looks the same drifted,
LEMMA SameDrifts ==
  ASSUME NEW p, NEW q, Ready(p), Same(p, q)
  PROVE  Drifts(p, q)
<1>1. Phased(q, {})
  BY DEF Ready, Phased, Placed, Bare, Same, Sees, Stands
<1> QED BY <1>1 DEF Same, Sees, Stands, Drifts

\* and so did one that was destroyed.
LEMMA DestroyDrifts ==
  ASSUME NEW p, NEW q, Ready(p), Same(p, q)
  PROVE  Drifts(p, DestroyNow(q))
<1> DEFINE d == DestroyNow(q)
<1>1. \/ d = q
      \/ /\ Stops(q, d)
         /\ \/ d.mail = q.mail
            \/ d.mail = Append(q.mail, [op |-> "stop", from |-> Nobody, sid |-> q.session])
  BY DestroyStops DEF Same, Sees
<1> HIDE DEF d
<1>2. Stops(q, d) => Phased(d, {})
  BY DEF Stops, Phased, Phases, Placed
<1>3. d = q => Drifts(p, d)
  BY SameDrifts
<1> QED BY <1>1, <1>2, <1>3 DEF Same, Sees, Stands, Stops, Drifts, d

\* A page looks like itself,
LEMMA ReadySame ==
  ASSUME NEW p, Ready(p)
  PROVE  Shape(p) /\ Same(p, p)
  BY DEF Ready, Runs, Lives, Same, Sees, Stands

\* and like what looks the same as its like.
LEMMA SameSame ==
  ASSUME NEW p, NEW q, NEW r, Same(p, q), Same(q, r)
  PROVE  Same(p, r)
  BY DEF Same, Sees, Stands

\* Fullscreen, geometry or playback changed.
LEMMA ActivityDrifts ==
  ASSUME Ready(page), Activity
  PROVE  Drifts(page, page')
<1>1. PICK full \in BOOLEAN : page' = Schedule([page EXCEPT !.full = full])
  BY DEF Activity
<1> DEFINE q == [page EXCEPT !.full = full]
<1>2. Same(page, q)
  BY ReadySame, FieldsSee
<1> HIDE DEF q
<1>3. Same(q, Schedule(q))
  BY <1>2, ScheduleSees DEF Same, Sees
<1> QED BY <1>1, <1>2, <1>3, SameSame, SameDrifts DEF q

\* One more job in the queue.
LEMMA QueuedSees ==
  ASSUME NEW p, Shape(p), NEW kind \in {"reconcile", "update", "cap"},
         NEW fresh \in BOOLEAN, NEW to \in Settings \cup {"none"}
  PROVE  Same(p, Queued(p, kind, fresh, to))
<1> DEFINE q == Queued(p, kind, fresh, to)
           j == [kind |-> kind, fresh |-> fresh, to |-> to]
<1>1. j \in JobType
  BY DEF JobType
<1>2. /\ IsPage(q)
      /\ q.renderer = p.renderer /\ q.session = p.session
      /\ q.phase = p.phase /\ q.queue = Append(p.queue, j)
      /\ q.destroyed = p.destroyed /\ q.task = p.task
  BY QueuedIs DEF Shape
<1>3. Mute(p, q)
  BY DEF Shape, IsPage, PageField, Mute, Queued
<1> HIDE DEF q, j
<1>4. q.queue \in Seq(JobType)
  BY <1>1, <1>2, QueueJob DEF Shape
<1> QED BY <1>2, <1>3, <1>4 DEF Same, Sees, Stands, Shape, Mute, q

\* The reconcile timer fires.
LEMMA TimerDrifts ==
  ASSUME Ready(page), TimerFires
  PROVE  Drifts(page, page')
<1> DEFINE q == [page EXCEPT !.timer = "off"]
           fresh == page.timer = "live"
<1>1. page' = Queued(q, "reconcile", fresh, "none") /\ fresh \in BOOLEAN
  BY DEF TimerFires
<1> HIDE DEF fresh
<1>2. Same(page, q)
  BY ReadySame, FieldsSee
<1> HIDE DEF q
<1>3. Same(q, page')
  BY <1>1, <1>2, QueuedSees DEF Same, Sees
<1> QED BY <1>2, <1>3, SameSame, SameDrifts

\* The constructor has read the settings.
LEMMA ConstructedDrifts ==
  ASSUME Ready(page), Constructed
  PROVE  Drifts(page, page')
<1> DEFINE q == IF page.destroyed THEN page ELSE [page EXCEPT !.settings = stored]
           s == Schedule(q)
<1>1. page' = [s EXCEPT !.constructing = FALSE]
  BY DEF Constructed
<1>2. Same(page, q)
  BY ReadySame, FieldsSee
<1> HIDE DEF q
<1>3. Same(q, s)
  BY <1>2, ScheduleSees DEF Same, Sees
<1> HIDE DEF s
<1>4. Same(s, page')
  BY <1>1, <1>3, FieldsSee DEF Same, Sees
<1> QED BY <1>2, <1>3, <1>4, SameSame, SameDrifts

\* The user changed the settings.
LEMMA ReapplyDrifts ==
  ASSUME Ready(page), ReapplySettings
  PROVE  Drifts(page, page')
<1>1. PICK to \in Settings : page' \in {Queued(page, "update", FALSE, to), page}
  BY DEF ReapplySettings
<1>2. Same(page, Queued(page, "update", FALSE, to)) /\ Same(page, page)
  BY ReadySame, QueuedSees
<1> QED BY <1>1, <1>2, SameDrifts

\* The automatic cap asks for a step.
LEMMA OverloadDrifts ==
  ASSUME Ready(page), OverloadStep
  PROVE  Drifts(page, page')
<1>1. page' = Queued(page, "cap", FALSE, "none")
  BY DEF OverloadStep
<1>2. Same(page, page')
  BY <1>1, ReadySame, QueuedSees
<1> QED BY <1>2, SameDrifts

\* The player removed the node.
LEMMA RemovedDrifts ==
  ASSUME Ready(page), VideoRemoved
  PROVE  Drifts(page, page')
<1> DEFINE s == [t \in Tasks |->
                  [page.task[t] EXCEPT !.gone = page.task[t].gone \/ page.task[t].kind = "reattach"]]
           q == [page EXCEPT !.task = s]
           r == [q EXCEPT !.attached = FALSE, !.applied = FALSE, !.timer = "off"]
<1>1. page' \in {r, DestroyNow(q)}
  BY DEF VideoRemoved
<1>2. Shape(page)
  BY ReadySame
<1>3. ASSUME NEW t \in Tasks
      PROVE  Moves(page.task[t], s[t]) /\ s[t].pc = page.task[t].pc /\ s[t].flow = page.task[t].flow
  <2> DEFINE x == page.task[t].gone \/ page.task[t].kind = "reattach"
  <2>1. IsTask(page.task[t]) /\ s[t] = [page.task[t] EXCEPT !.gone = x]
    BY <1>2 DEF Shape, AreTasks
  <2> HIDE DEF s, x
  <2> QED BY <2>1, GoneTask
<1>4. AreTasks(s)
  BY <1>3 DEF AreTasks, Moves
<1> HIDE DEF s
<1>5. Retasks(page, q, s) /\ Retasks(page, r, s)
  BY <1>2, GoneIs DEF Shape
<1>6. Mute(page, q) /\ Mute(page, r)
  BY <1>2 DEF Shape, IsPage, PageField, Mute
<1> HIDE DEF q, r
<1>7. Same(page, q) /\ Same(page, r)
  BY <1>2, <1>3, <1>4, <1>5, <1>6, RetaskedSame
<1> QED BY <1>1, <1>7, SameDrifts, DestroyDrifts

\* The enhancer is destroyed.
LEMMA DestroyActionDrifts ==
  ASSUME Ready(page), Destroy
  PROVE  Drifts(page, page')
  BY ReadySame, DestroyDrifts DEF Destroy

-----------------------------------------------------------------------------
(***************************************************************************)
(* The conversation with the background.  The end of a session that the    *)
(* page gave up on purpose must not take away what its switch to WebGPU    *)
(* started since: the end is told before the answer to the stop, so it     *)
(* finds the switch still waiting for that answer.                         *)
(***************************************************************************)
Letter == [op : {"claim", "start", "update", "stop"}, from : Tasks \cup {Nobody}, sid : Nat]
Reply == [to : Tasks \cup {"event"}, ok : BOOLEAN, sid : Nat]

MailOf(p, t) == {k \in DOMAIN p.mail : p.mail[k].from = t}
RepliesTo(box, t) == {k \in DOMAIN box : box[k].to = t}

\* An operation has one request or one answer under way, and waits for it.
Talks(p, box, t) ==
  /\ \A j, k \in MailOf(p, t) : j = k
  /\ \A j, k \in RepliesTo(box, t) : j = k
  /\ MailOf(p, t) = {} \/ RepliesTo(box, t) = {}
  /\ \A k \in MailOf(p, t) : p.task[t].pc \in Waits /\ p.mail[k].op = Asks(p.task[t].pc)
  /\ \A k \in RepliesTo(box, t) :
       p.task[t].pc \in Waits /\ (p.task[t].pc = "fallback" /\ box[k].ok => box[k].sid # NoSession)
Talk(p, box) ==
  p.mail \in Seq(Letter) /\ box \in Seq(Reply) /\ \A t \in Tasks : Talks(p, box, t)

\* Sessions are those of the first n that were started, and each ends once.
EndsOf(box, sid) == {k \in RepliesTo(box, "event") : box[k].sid = sid}
Numbered(p, box, h, n) ==
  /\ n \in Nat /\ h \in 0 .. n /\ p.session \in 0 .. n /\ p.abandoned \in 0 .. n
  /\ \A k \in DOMAIN box : box[k].sid \in 0 .. n
  /\ \A k \in RepliesTo(box, "event") : box[k].sid \notin {NoSession, h}
  /\ \A j, k \in RepliesTo(box, "event") : box[j].sid = box[k].sid => j = k

\* The session that was given up still captures, or its end was not heard of yet.
Danger(p, box, h) ==
  p.abandoned # NoSession /\ (h = p.abandoned \/ EndsOf(box, p.abandoned) # {})

\* The request of u comes after the stop that "job" waits for.
Behind(p, box, u) ==
  /\ \A j \in MailOf(p, "job"), k \in MailOf(p, u) : j < k
  /\ \A j \in RepliesTo(box, "job"), k \in RepliesTo(box, u) : j < k
  /\ MailOf(p, "job") = {} \/ RepliesTo(box, u) = {}
GivenUp(p, box, h) ==
  Danger(p, box, h) =>
    /\ p.task["job"].pc = "switchstop" /\ p.phase = "starting" /\ p.session = NoSession
    /\ \A u \in Tasks \ {"job"} : p.task[u].cur => p.task[u].pc = "fallback" /\ Behind(p, box, u)
    /\ \/ \E k \in MailOf(p, "job") : p.mail[k].sid = p.abandoned
       \/ /\ h # p.abandoned
          /\ \E k \in RepliesTo(box, "job") : \A j \in EndsOf(box, p.abandoned) : j < k

Converses(p, box, h, n) == Talk(p, box) /\ Numbered(p, box, h, n) /\ GivenUp(p, box, h)

\* Sequences that grow by e, or lose their head.
Adds(s, r, e) ==
  \E n \in Nat : /\ DOMAIN s = 1 .. n /\ DOMAIN r = 1 .. n + 1
                 /\ (\A k \in 1 .. n : r[k] = s[k]) /\ r[n + 1] = e
Loses(s, r) ==
  \E n \in Nat : /\ DOMAIN s = 1 .. n + 1 /\ DOMAIN r = 1 .. n
                 /\ \A k \in 1 .. n : r[k] = s[k + 1]

\* What Append and Tail do to the positions.
LEMMA AddsLast ==
  ASSUME NEW S, NEW s \in Seq(S), NEW e \in S
  PROVE  Append(s, e) \in Seq(S) /\ Adds(s, Append(s, e), e)
<1>1. /\ Append(s, e) \in Seq(S) /\ Len(s) \in Nat /\ DOMAIN s = 1 .. Len(s)
      /\ DOMAIN Append(s, e) = 1 .. Len(s) + 1
      /\ (\A k \in 1 .. Len(s) : Append(s, e)[k] = s[k]) /\ Append(s, e)[Len(s) + 1] = e
  OBVIOUS
<1> QED BY <1>1 DEF Adds

\* The head is the first position; the others move up.
LEMMA LosesHead ==
  ASSUME NEW S, NEW s \in Seq(S), s # <<>>
  PROVE  Tail(s) \in Seq(S) /\ Loses(s, Tail(s)) /\ Head(s) = s[1] /\ Head(s) \in S /\ 1 \in DOMAIN s
<1>1. /\ Tail(s) \in Seq(S) /\ Len(s) - 1 \in Nat /\ DOMAIN s = 1 .. (Len(s) - 1) + 1
      /\ DOMAIN Tail(s) = 1 .. Len(s) - 1
      /\ \A k \in 1 .. Len(s) - 1 : Tail(s)[k] = s[k + 1]
  OBVIOUS
<1>2. Head(s) = s[1] /\ Head(s) \in S /\ 1 \in DOMAIN s
  OBVIOUS
<1> QED BY <1>1, <1>2 DEF Loses

\* Who takes part.
LEMMA Parties == /\ Nobody \notin Tasks /\ "event" \notin Tasks /\ "job" \in Tasks
                 /\ Nobody # "event" /\ "job" # Nobody /\ "job" # "event"
  BY EnhancerAssumption DEF Tasks, Nobody

\* Nothing from t or to t is under way.
Lull(p, box, t) == MailOf(p, t) = {} /\ RepliesTo(box, t) = {}

\* An operation that does not wait has nothing under way.
LEMMA RestsLull ==
  ASSUME NEW p, NEW box, NEW h, NEW t \in Tasks, Talk(p, box), GivenUp(p, box, h), p.task[t].pc \notin Waits
  PROVE  Lull(p, box, t) /\ (Danger(p, box, h) => t # "job" /\ ~p.task[t].cur)
<1>1. Lull(p, box, t)
  BY DEF Talk, Talks, Lull
<1>2. ASSUME Danger(p, box, h) PROVE t # "job" /\ ~p.task[t].cur
  BY <1>2 DEF GivenUp, Waits
<1> QED BY <1>1, <1>2

\* Hearing takes the head of the box; what is heard by t leaves nothing of t under way, and while
\* the end of a session given up is awaited, it is neither the switch nor the latest that hears.
LEMMA TailTalk ==
  ASSUME NEW p, NEW box, NEW h, NEW n, Converses(p, box, h, n), box # <<>>
  PROVE  LET rest == Tail(box) IN
         Talk(p, rest) /\ Numbered(p, rest, h, n) /\ (Danger(p, rest, h) => Danger(p, box, h))
<1> DEFINE rest == Tail(box)
<1>1. rest \in Seq(Reply) /\ Loses(box, rest)
  BY LosesHead DEF Converses, Talk
<1> HIDE DEF rest
<1>2. PICK m \in Nat : /\ DOMAIN box = 1 .. m + 1 /\ DOMAIN rest = 1 .. m
                       /\ \A k \in 1 .. m : rest[k] = box[k + 1]
  BY <1>1 DEF Loses
<1>3. ASSUME NEW t, NEW k \in RepliesTo(rest, t)
      PROVE  k + 1 \in RepliesTo(box, t) /\ rest[k] = box[k + 1] /\ k \in Nat
  BY <1>2, <1>3 DEF RepliesTo
<1>4. ASSUME NEW t \in Tasks PROVE Talks(p, rest, t)
  <2>1. Talks(p, box, t)
    BY DEF Converses, Talk
  <2>2. \A j, k \in RepliesTo(rest, t) : j = k
    BY <1>3, <2>1 DEF Talks
  <2> QED BY <1>3, <2>1, <2>2 DEF Talks
<1>5. Talk(p, rest)
  BY <1>1, <1>4 DEF Talk, Converses
<1>6. Numbered(p, rest, h, n)
  <2>1. Numbered(p, box, h, n)
    BY DEF Converses
  <2>2. \A k \in DOMAIN rest : rest[k].sid \in 0 .. n
    BY <1>2, <2>1 DEF Numbered
  <2>3. \A k \in RepliesTo(rest, "event") : rest[k].sid \notin {NoSession, h}
    BY <1>3, <2>1 DEF Numbered
  <2>4. \A j, k \in RepliesTo(rest, "event") : rest[j].sid = rest[k].sid => j = k
    BY <1>3, <2>1 DEF Numbered
  <2> QED BY <2>1, <2>2, <2>3, <2>4 DEF Numbered
<1>7. Danger(p, rest, h) => Danger(p, box, h)
  BY <1>3 DEF Danger, EndsOf
<1> QED BY <1>5, <1>6, <1>7 DEF rest

\* After t heard its answer nothing of t is under way, and the rest of the box is in order.
LEMMA HearsLull ==
  ASSUME NEW p, NEW box, NEW h, NEW n, Converses(p, box, h, n), NEW t \in Tasks,
         box # <<>>, Head(box).to = t
  PROVE  LET rest == Tail(box) IN
         /\ Converses(p, rest, h, n) /\ Lull(p, rest, t)
         /\ Danger(p, rest, h) => t # "job" /\ ~p.task[t].cur
<1> DEFINE rest == Tail(box)
<1>1. /\ rest \in Seq(Reply) /\ Loses(box, rest) /\ box[1].to = t
      /\ Talk(p, rest) /\ Numbered(p, rest, h, n) /\ (Danger(p, rest, h) => Danger(p, box, h))
  BY LosesHead, TailTalk DEF Converses, Talk
<1> HIDE DEF rest
<1>2. PICK m \in Nat : /\ DOMAIN box = 1 .. m + 1 /\ DOMAIN rest = 1 .. m
                       /\ \A k \in 1 .. m : rest[k] = box[k + 1]
  BY <1>1 DEF Loses
<1>3. ASSUME NEW u, NEW k \in RepliesTo(rest, u)
      PROVE  k + 1 \in RepliesTo(box, u) /\ rest[k] = box[k + 1] /\ k \in Nat /\ k >= 1
  BY <1>2, <1>3 DEF RepliesTo
<1>4. ASSUME NEW u, NEW k \in RepliesTo(box, u), k # 1
      PROVE  k - 1 \in RepliesTo(rest, u) /\ k \in Nat
  BY <1>2, <1>4 DEF RepliesTo
<1>5. 1 \in RepliesTo(box, t) /\ Talks(p, box, t)
  BY <1>1, <1>2 DEF RepliesTo, Converses, Talk
<1>6. Lull(p, rest, t)
  <2>1. MailOf(p, t) = {}
    BY <1>5 DEF Talks
  <2>2. ASSUME NEW k \in RepliesTo(rest, t) PROVE FALSE
    <3>1. k + 1 = 1
      BY <1>3, <1>5 DEF Talks
    <3> QED BY <1>3, <3>1
  <2> QED BY <2>1, <2>2 DEF Lull
<1>7. ASSUME Danger(p, rest, h)
      PROVE  t # "job" /\ ~p.task[t].cur
  <2>1. /\ \A u \in Tasks \ {"job"} : p.task[u].cur => Behind(p, box, u)
        /\ \/ \E k \in MailOf(p, "job") : p.mail[k].sid = p.abandoned
           \/ /\ h # p.abandoned
              /\ \E k \in RepliesTo(box, "job") : \A j \in EndsOf(box, p.abandoned) : j < k
    BY <1>1, <1>7 DEF Converses, GivenUp
  <2>2. CASE t = "job"
    <3>1. MailOf(p, "job") = {} /\ \A k \in RepliesTo(box, "job") : k = 1
      BY <1>5, <2>2 DEF Talks
    <3>2. h # p.abandoned /\ \A j \in EndsOf(box, p.abandoned) : j < 1
      BY <2>1, <3>1
    <3>3. EndsOf(box, p.abandoned) = {}
      BY <1>2, <3>2 DEF EndsOf, RepliesTo
    <3> QED BY <1>1, <1>7, <3>2, <3>3 DEF Danger
  <2>3. CASE t # "job" /\ p.task[t].cur
    <3>1. Behind(p, box, t)
      BY <2>1, <2>3
    <3>2. MailOf(p, "job") = {} /\ \A j \in RepliesTo(box, "job") : j < 1
      BY <1>5, <3>1 DEF Behind
    <3>3. RepliesTo(box, "job") = {}
      BY <1>2, <3>2 DEF RepliesTo
    <3> QED BY <2>1, <3>2, <3>3
  <2> QED BY <2>2, <2>3
<1>8. GivenUp(p, rest, h)
  <2> SUFFICES ASSUME Danger(p, rest, h) PROVE GivenUp(p, rest, h)
    BY DEF GivenUp
  <2>1. t # "job" /\ GivenUp(p, box, h) /\ Danger(p, box, h)
    BY <1>1, <1>7 DEF Converses
  <2>2. ASSUME NEW u \in Tasks \ {"job"}, p.task[u].cur
        PROVE  p.task[u].pc = "fallback" /\ Behind(p, rest, u)
    <3>1. p.task[u].pc = "fallback" /\ Behind(p, box, u)
      BY <2>1, <2>2 DEF GivenUp
    <3>2. ASSUME NEW j \in RepliesTo(rest, "job"), NEW k \in RepliesTo(rest, u) PROVE j < k
      <4>1. j + 1 < k + 1 /\ j \in Nat /\ k \in Nat
        BY <1>3, <3>1 DEF Behind
      <4> QED BY <4>1
    <3> QED BY <1>3, <3>1, <3>2 DEF Behind
  <2>3. ASSUME h # p.abandoned, NEW k \in RepliesTo(box, "job"), \A j \in EndsOf(box, p.abandoned) : j < k
        PROVE  \E i \in RepliesTo(rest, "job") : \A j \in EndsOf(rest, p.abandoned) : j < i
    <3>1. k # 1
      BY <1>1, <2>1 DEF RepliesTo
    <3>2. k - 1 \in RepliesTo(rest, "job") /\ k \in Nat
      BY <1>4, <3>1
    <3>3. ASSUME NEW j \in EndsOf(rest, p.abandoned) PROVE j < k - 1
      <4>1. j + 1 \in EndsOf(box, p.abandoned) /\ j \in Nat
        BY <1>3 DEF EndsOf
      <4>2. j + 1 < k
        BY <2>3, <4>1
      <4> QED BY <3>2, <4>1, <4>2
    <3> QED BY <3>2, <3>3
  <2> QED BY <2>1, <2>2, <2>3 DEF GivenUp
<1> QED BY <1>1, <1>6, <1>7, <1>8 DEF Converses, rest

\* What t says while nothing of it is under way.
LEMMA SaysTalk ==
  ASSUME NEW p, NEW q, NEW box, NEW t \in Tasks, Talk(p, box), Lull(p, box, t), p.session \in Nat,
         \A u \in Tasks \ {t} : q.task[u].pc = p.task[u].pc, Said(p, q, t)
  PROVE  /\ Talk(q, box)
         /\ \A u \in Tasks \ {t} : MailOf(q, u) = MailOf(p, u)
         /\ \A k \in DOMAIN p.mail : k \in DOMAIN q.mail /\ q.mail[k] = p.mail[k]
         /\ \A j \in DOMAIN p.mail, k \in MailOf(q, t) : j < k
<1>1. CASE q.mail = p.mail /\ q.task[t].pc \notin Waits
  <2>1. \A u \in Tasks : MailOf(q, u) = MailOf(p, u)
    BY <1>1 DEF MailOf
  <2>2. ASSUME NEW u \in Tasks PROVE Talks(q, box, u)
    <3>1. Talks(p, box, u)
      BY DEF Talk
    <3>2. CASE u = t
      BY <2>1, <3>2 DEF Lull, Talks
    <3>3. CASE u # t
      BY <1>1, <2>1, <3>1, <3>3 DEF Talks
    <3> QED BY <3>2, <3>3
  <2> QED BY <1>1, <2>1, <2>2 DEF Talk, Lull
<1>2. ASSUME NEW m \in Letters(p), q.mail = Append(p.mail, m),
             \/ m.from = Nobody /\ q.task[t].pc \notin Waits
             \/ m.from = t /\ q.task[t].pc \in Waits /\ m.op = Asks(q.task[t].pc)
      PROVE  /\ Talk(q, box)
             /\ \A u \in Tasks \ {t} : MailOf(q, u) = MailOf(p, u)
             /\ \A k \in DOMAIN p.mail : k \in DOMAIN q.mail /\ q.mail[k] = p.mail[k]
             /\ \A j \in DOMAIN p.mail, k \in MailOf(q, t) : j < k
  <2>1. m \in Letter
    BY DEF Letters, Letter
  <2>2. q.mail \in Seq(Letter) /\ Adds(p.mail, q.mail, m)
    BY <1>2, <2>1, AddsLast DEF Talk
  <2>3. PICK n \in Nat : /\ DOMAIN p.mail = 1 .. n /\ DOMAIN q.mail = 1 .. n + 1
                         /\ (\A k \in 1 .. n : q.mail[k] = p.mail[k]) /\ q.mail[n + 1] = m
    BY <2>2 DEF Adds
  <2>4. ASSUME NEW u \in Tasks, u # m.from
        PROVE  MailOf(q, u) = MailOf(p, u) /\ \A k \in MailOf(p, u) : q.mail[k] = p.mail[k]
    BY <2>3, <2>4 DEF MailOf
  <2>5. \A u \in Tasks \ {t} : u # m.from
    BY <1>2, Parties
  <2>6. MailOf(q, t) \subseteq {n + 1} /\ (MailOf(q, t) # {} => m.from = t)
    BY <2>3 DEF Lull, MailOf
  <2>7. ASSUME NEW u \in Tasks PROVE Talks(q, box, u)
    <3>1. Talks(p, box, u)
      BY DEF Talk
    <3>2. CASE u = t
      <4>1. \A k \in MailOf(q, t) : q.task[t].pc \in Waits /\ q.mail[k].op = Asks(q.task[t].pc)
        BY <1>2, <2>3, <2>6, Parties
      <4> QED BY <2>6, <3>2, <4>1 DEF Lull, Talks
    <3>3. CASE u # t
      BY <2>4, <2>5, <3>1, <3>3 DEF Talks
    <3> QED BY <3>2, <3>3
  <2>8. \A j \in DOMAIN p.mail, k \in MailOf(q, t) : j < k
    BY <2>3, <2>6
  <2> QED BY <2>2, <2>3, <2>4, <2>5, <2>7, <2>8 DEF Talk
<1> QED BY <1>1, <1>2 DEF Said

\* A handler keeps the conversation.
LEMMA TurnConverses ==
  ASSUME NEW p, NEW q, NEW box, NEW h, NEW n, NEW t \in Tasks, Converses(p, box, h, n),
         Lull(p, box, t), Danger(p, box, h) => t # "job" /\ ~p.task[t].cur,
         Turns(p, q, t), q.session \in 0 .. n
  PROVE  Converses(q, box, h, n)
<1>1. p.session \in Nat /\ n \in Nat
  BY DEF Converses, Numbered
<1>2. /\ Talk(q, box)
      /\ \A u \in Tasks \ {t} : MailOf(q, u) = MailOf(p, u)
      /\ \A k \in DOMAIN p.mail : k \in DOMAIN q.mail /\ q.mail[k] = p.mail[k]
      /\ \A j \in DOMAIN p.mail, k \in MailOf(q, t) : j < k
  BY <1>1, SaysTalk DEF Converses, Turns
<1>3. Numbered(q, box, h, n)
  BY <1>1 DEF Converses, Numbered, Turns, NoSession
<1>4. ASSUME Danger(q, box, h)
      PROVE  GivenUp(q, box, h)
  <2>1. q.abandoned = p.abandoned /\ Danger(p, box, h) /\ q.abandoned # NoSession
    BY <1>4 DEF Turns, Danger
  <2>2. /\ p.task["job"].pc = "switchstop" /\ p.phase = "starting" /\ p.session = NoSession
        /\ \A u \in Tasks \ {"job"} : p.task[u].cur => p.task[u].pc = "fallback" /\ Behind(p, box, u)
        /\ \/ \E k \in MailOf(p, "job") : p.mail[k].sid = p.abandoned
           \/ /\ h # p.abandoned
              /\ \E k \in RepliesTo(box, "job") : \A j \in EndsOf(box, p.abandoned) : j < k
    BY <2>1 DEF Converses, GivenUp
  <2>3. t # "job" /\ ~p.task[t].cur /\ GoesOn(p, q, t)
    BY <2>1 DEF Turns
  <2>4. MailOf(q, "job") = MailOf(p, "job") /\ \A k \in MailOf(p, "job") : q.mail[k] = p.mail[k]
    BY <1>2, <2>3, Parties DEF MailOf
  <2>5. ASSUME NEW u \in Tasks \ {"job"}, q.task[u].cur
        PROVE  q.task[u].pc = "fallback" /\ Behind(q, box, u)
    <3>1. CASE u = t
      <4>1. \A j \in MailOf(q, "job"), k \in MailOf(q, t) : j < k
        BY <1>2, <2>4 DEF MailOf
      <4> QED BY <2>2, <2>3, <2>5, <3>1, <4>1 DEF Behind, Lull, GoesOn
    <3>2. CASE u # t
      <4>1. p.task[u].cur /\ q.task[u].pc = p.task[u].pc
        BY <2>5, <3>2 DEF Turns
      <4> QED BY <1>2, <2>2, <2>4, <3>2, <4>1 DEF Behind
    <3> QED BY <3>1, <3>2
  <2>6. q.task["job"].pc = "switchstop" /\ q.phase = "starting" /\ q.session = NoSession
    BY <2>2, <2>3, Parties DEF Turns, GoesOn
  <2> QED BY <2>1, <2>2, <2>4, <2>5, <2>6 DEF GivenUp
<1> QED BY <1>2, <1>3, <1>4 DEF Converses, GivenUp

\* So does the page between its operations.
LEMMA DriftConverses ==
  ASSUME NEW p, NEW q, NEW box, NEW h, NEW n, Converses(p, box, h, n), Drifts(p, q)
  PROVE  Converses(q, box, h, n)
<1> DEFINE m == [op |-> "stop", from |-> Nobody, sid |-> p.session]
<1>1. p.session \in Nat /\ n \in Nat /\ p.session \in 0 .. n /\ p.abandoned \in 0 .. n
  BY DEF Converses, Numbered
<1>2. /\ q.mail \in Seq(Letter)
      /\ \A u \in Tasks : MailOf(q, u) = MailOf(p, u) /\ \A k \in MailOf(p, u) : q.mail[k] = p.mail[k]
  <2>1. CASE q.mail = p.mail
    BY <2>1 DEF Converses, Talk, MailOf
  <2>2. CASE q.mail = Append(p.mail, m)
    <3>1. m \in Letter /\ m.from = Nobody
      BY <1>1 DEF Letter
    <3> HIDE DEF m
    <3>2. q.mail \in Seq(Letter) /\ Adds(p.mail, q.mail, m)
      BY <2>2, <3>1, AddsLast DEF Converses, Talk
    <3>3. PICK k \in Nat : /\ DOMAIN p.mail = 1 .. k /\ DOMAIN q.mail = 1 .. k + 1
                           /\ (\A j \in 1 .. k : q.mail[j] = p.mail[j]) /\ q.mail[k + 1] = m
      BY <3>2 DEF Adds
    <3> QED BY <3>1, <3>2, <3>3, Parties DEF MailOf
  <2> QED BY <2>1, <2>2 DEF Drifts
<1>3. Talk(q, box)
  BY <1>2 DEF Converses, Talk, Talks, Drifts
<1>4. Numbered(q, box, h, n)
  BY <1>1 DEF Converses, Numbered, Drifts, NoSession
<1>5. ASSUME Danger(q, box, h)
      PROVE  GivenUp(q, box, h)
  <2>1. /\ q.abandoned = p.abandoned /\ Danger(p, box, h) /\ q.phase = p.phase /\ q.session = p.session
        /\ q.abandoned # NoSession
    BY <1>5 DEF Drifts, Danger
  <2>2. /\ p.task["job"].pc = "switchstop" /\ p.phase = "starting" /\ p.session = NoSession
        /\ \A u \in Tasks \ {"job"} : p.task[u].cur => p.task[u].pc = "fallback" /\ Behind(p, box, u)
        /\ \/ \E k \in MailOf(p, "job") : p.mail[k].sid = p.abandoned
           \/ /\ h # p.abandoned
              /\ \E k \in RepliesTo(box, "job") : \A j \in EndsOf(box, p.abandoned) : j < k
    BY <2>1 DEF Converses, GivenUp
  <2>3. \A u \in Tasks : q.task[u].pc = p.task[u].pc /\ (q.task[u].cur => p.task[u].cur)
    BY DEF Drifts
  <2>4. ASSUME NEW u \in Tasks \ {"job"}, q.task[u].cur
        PROVE  q.task[u].pc = "fallback" /\ Behind(q, box, u)
    BY <1>2, <2>2, <2>3, <2>4, Parties DEF Behind
  <2> QED BY <1>2, <2>1, <2>2, <2>3, <2>4, Parties DEF GivenUp
<1> QED BY <1>3, <1>4, <1>5 DEF Converses, GivenUp

\* The switch to WebGPU waits for the stop of the session it gave up.
LEMMA SwitchConverses ==
  ASSUME NEW p, NEW q, NEW box, NEW h, NEW n, Converses(p, box, h, n), p.task["job"].pc \notin Waits,
         WebSwitched(p, q, "job")
  PROVE  Converses(q, box, h, n)
<1> DEFINE m == [op |-> "stop", from |-> "job", sid |-> p.session]
<1>1. p.session \in Nat /\ n \in Nat /\ p.session \in 0 .. n
  BY DEF Converses, Numbered
<1>2. Lull(p, box, "job")
  BY RestsLull, Parties DEF Converses
<1>3. m \in Letters(p) /\ m.from = "job" /\ m.op = Asks("switchstop") /\ m.sid = p.session
  BY <1>1, Parties DEF Letters, Asks
<1>4. q.mail = Append(p.mail, m)
  BY DEF WebSwitched
<1> HIDE DEF m
<1>5. Said(p, q, "job")
  BY <1>3, <1>4 DEF Said, WebSwitched, Waits
<1>6. Talk(q, box)
  BY <1>1, <1>2, <1>5, Parties, SaysTalk DEF Converses, WebSwitched
<1>7. Numbered(q, box, h, n)
  BY <1>1 DEF Converses, Numbered, WebSwitched, NoSession
<1>8. \E k \in MailOf(q, "job") : q.mail[k].sid = q.abandoned
  <2>1. m \in Letter
    BY <1>1, <1>3 DEF Letters, Letter
  <2>2. Adds(p.mail, q.mail, m)
    BY <1>4, <2>1, AddsLast DEF Converses, Talk
  <2>3. PICK k \in Nat : DOMAIN q.mail = 1 .. k + 1 /\ q.mail[k + 1] = m
    BY <2>2 DEF Adds
  <2>4. k + 1 \in MailOf(q, "job") /\ q.mail[k + 1].sid = q.abandoned
    BY <1>3, <2>3 DEF MailOf, WebSwitched
  <2> QED BY <2>4
<1>9. GivenUp(q, box, h)
  BY <1>8 DEF GivenUp, WebSwitched
<1> QED BY <1>6, <1>7, <1>9 DEF Converses

\* An event was heard.
LEMMA EventConverses ==
  ASSUME NEW p, NEW box, NEW h, NEW n, Converses(p, box, h, n), box # <<>>, Head(box).to = "event"
  PROVE  LET rest == Tail(box) IN
         /\ Converses(p, rest, h, n)
         /\ p.abandoned # NoSession /\ Head(box).sid = p.abandoned => Danger(p, box, h) /\ ~Danger(p, rest, h)
<1> DEFINE rest == Tail(box)
<1>1. /\ rest \in Seq(Reply) /\ Loses(box, rest) /\ box[1] = Head(box)
      /\ Talk(p, rest) /\ Numbered(p, rest, h, n) /\ (Danger(p, rest, h) => Danger(p, box, h))
  BY LosesHead, TailTalk DEF Converses, Talk
<1> HIDE DEF rest
<1>2. PICK m \in Nat : /\ DOMAIN box = 1 .. m + 1 /\ DOMAIN rest = 1 .. m
                       /\ \A k \in 1 .. m : rest[k] = box[k + 1]
  BY <1>1 DEF Loses
<1>3. ASSUME NEW u, NEW k \in RepliesTo(rest, u)
      PROVE  k + 1 \in RepliesTo(box, u) /\ rest[k] = box[k + 1] /\ k \in Nat /\ k >= 1
  BY <1>2, <1>3 DEF RepliesTo
<1>4. ASSUME NEW u, NEW k \in RepliesTo(box, u), k # 1
      PROVE  k - 1 \in RepliesTo(rest, u) /\ k \in Nat
  BY <1>2, <1>4 DEF RepliesTo
<1>5. 1 \in RepliesTo(box, "event")
  BY <1>1, <1>2 DEF RepliesTo
<1>6. GivenUp(p, rest, h)
  <2> SUFFICES ASSUME Danger(p, rest, h) PROVE GivenUp(p, rest, h)
    BY DEF GivenUp
  <2>1. GivenUp(p, box, h) /\ Danger(p, box, h)
    BY <1>1 DEF Converses
  <2>2. ASSUME NEW u \in Tasks \ {"job"}, p.task[u].cur
        PROVE  p.task[u].pc = "fallback" /\ Behind(p, rest, u)
    <3>1. p.task[u].pc = "fallback" /\ Behind(p, box, u)
      BY <2>1, <2>2 DEF GivenUp
    <3>2. ASSUME NEW j \in RepliesTo(rest, "job"), NEW k \in RepliesTo(rest, u) PROVE j < k
      <4>1. j + 1 < k + 1 /\ j \in Nat /\ k \in Nat
        BY <1>3, <3>1 DEF Behind
      <4> QED BY <4>1
    <3> QED BY <1>3, <3>1, <3>2 DEF Behind
  <2>3. ASSUME h # p.abandoned, NEW k \in RepliesTo(box, "job"), \A j \in EndsOf(box, p.abandoned) : j < k
        PROVE  \E i \in RepliesTo(rest, "job") : \A j \in EndsOf(rest, p.abandoned) : j < i
    <3>1. k # 1
      BY <1>5, Parties DEF RepliesTo
    <3>2. k - 1 \in RepliesTo(rest, "job") /\ k \in Nat
      BY <1>4, <3>1
    <3>3. ASSUME NEW j \in EndsOf(rest, p.abandoned) PROVE j < k - 1
      <4>1. j + 1 \in EndsOf(box, p.abandoned) /\ j \in Nat
        BY <1>3 DEF EndsOf
      <4>2. j + 1 < k
        BY <2>3, <4>1
      <4> QED BY <3>2, <4>1, <4>2
    <3> QED BY <3>2, <3>3
  <2> QED BY <2>1, <2>2, <2>3 DEF GivenUp
<1>7. ASSUME p.abandoned # NoSession, Head(box).sid = p.abandoned
      PROVE  Danger(p, box, h) /\ ~Danger(p, rest, h)
  <2>1. 1 \in EndsOf(box, p.abandoned)
    BY <1>1, <1>5, <1>7 DEF EndsOf
  <2>2. h # p.abandoned /\ \A j, k \in RepliesTo(box, "event") : box[j].sid = box[k].sid => j = k
    BY <1>1, <1>5, <1>7 DEF Converses, Numbered
  <2>3. ASSUME NEW k \in EndsOf(rest, p.abandoned) PROVE FALSE
    <3>1. k + 1 \in EndsOf(box, p.abandoned) /\ k \in Nat /\ k >= 1
      BY <1>3 DEF EndsOf
    <3>2. k + 1 = 1
      BY <2>1, <2>2, <3>1 DEF EndsOf
    <3> QED BY <3>1, <3>2
  <2> QED BY <1>7, <2>1, <2>2, <2>3 DEF Danger
<1> QED BY <1>1, <1>6, <1>7 DEF Converses, rest

\* Which sessions there are does not depend on what the page forgets.
LEMMA ForgetNumbered ==
  ASSUME NEW p, NEW q, NEW box, NEW h, NEW n, Numbered(p, box, h, n),
         q.session \in {p.session, NoSession}, q.abandoned = p.abandoned
  PROVE  Numbered(q, box, h, n)
  BY DEF Numbered, NoSession

\* The end of the page's session, or of the one it gave up.
LEMMA SessionEndedConverses ==
  ASSUME Ready(page), Converses(page, inbox, host, started), SessionEnded
  PROVE  Phased(page', {}) /\ Converses(page', inbox', host', started')
<1> DEFINE p == page
           r == Head(inbox)
<1>1. inbox # <<>> /\ r.to = "event" /\ inbox' = Tail(inbox) /\ host' = host /\ started' = started
  BY DEF SessionEnded
<1>2. \/ page' = page
      \/ /\ \/ p.session # NoSession /\ r.sid = p.session
            \/ p.abandoned # NoSession /\ r.sid = p.abandoned
         /\ \E blocks \in BOOLEAN :
              \/ page' = [MarkIdle(p) EXCEPT !.session = NoSession, !.blocked = MarkIdle(p).blocked \/ blocks]
              \/ page' = [ResetEnhancement(p) EXCEPT !.blocked = ResetEnhancement(p).blocked \/ blocks]
  BY DEF SessionEnded
<1>3. /\ Converses(p, Tail(inbox), host, started)
      /\ p.abandoned # NoSession /\ r.sid = p.abandoned =>
           Danger(p, inbox, host) /\ ~Danger(p, Tail(inbox), host)
  BY <1>1, EventConverses
<1>4. Shape(p) /\ Phased(p, {})
  BY ReadySame DEF Ready
<1>5. CASE page' = page
  BY <1>1, <1>3, <1>4, <1>5
<1>6. ASSUME page' # page
      PROVE  Phased(page', {}) /\ Converses(page', Tail(inbox), host, started)
  <2>1. /\ IsPage(page') /\ Mute(p, page') /\ page'.renderer = p.renderer /\ page'.task = p.task
        /\ page'.phase = "idle" /\ page'.session = NoSession
    <3>1. PICK blocks \in BOOLEAN :
            \/ page' = [MarkIdle(p) EXCEPT !.session = NoSession, !.blocked = MarkIdle(p).blocked \/ blocks]
            \/ page' = [ResetEnhancement(p) EXCEPT !.blocked = ResetEnhancement(p).blocked \/ blocks]
      BY <1>2, <1>6
    <3> DEFINE x == MarkIdle(p).blocked \/ blocks
               y == ResetEnhancement(p).blocked \/ blocks
               m == [MarkIdle(p) EXCEPT !.session = NoSession, !.blocked = x]
               e == [ResetEnhancement(p) EXCEPT !.blocked = y]
    <3>2. page' \in {m, e}
      BY <3>1
    <3> HIDE DEF x, y
    <3>3. /\ IsPage(m) /\ Mute(p, m) /\ m.renderer = p.renderer /\ m.task = p.task
          /\ m.phase = "idle" /\ m.session = NoSession
      BY <1>4 DEF Shape, IsPage, PageField, MarkIdle, Mute
    <3>4. /\ IsPage(e) /\ Mute(p, e) /\ e.renderer = p.renderer /\ e.task = p.task
          /\ e.phase = "idle" /\ e.session = NoSession
      BY <1>4 DEF Shape, IsPage, PageField, MarkIdle, ResetEnhancement, Mute
    <3> HIDE DEF m, e
    <3> QED BY <3>2, <3>3, <3>4
  <2>2. ~p.renderer
    <3>1. CASE p.session # NoSession
      BY <1>4, <3>1 DEF Phased
    <3>2. CASE Danger(p, inbox, host)
      BY <1>4, <3>2 DEF Phased, Converses, GivenUp
    <3> QED BY <1>2, <1>3, <1>6, <3>1, <3>2
  <2>3. ~Danger(p, Tail(inbox), host)
    <3>1. CASE p.session # NoSession
      BY <1>3, <3>1 DEF Converses, GivenUp
    <3>2. CASE p.session = NoSession
      BY <1>2, <1>3, <1>6, <3>2
    <3> QED BY <3>1, <3>2
  <2>4. Phased(page', {})
    BY <1>4, <2>1, <2>2 DEF Phased, Phases, Placed, Bare
  <2>5. Talk(page', Tail(inbox)) /\ Numbered(page', Tail(inbox), host, started)
    <3>1. Talk(p, Tail(inbox)) /\ Numbered(p, Tail(inbox), host, started)
      BY <1>3 DEF Converses
    <3>2. page'.mail = p.mail /\ page'.abandoned = p.abandoned
      BY <2>1 DEF Mute
    <3>3. \A u \in Tasks : MailOf(page', u) = MailOf(p, u)
      BY <3>2 DEF MailOf
    <3>4. Talk(page', Tail(inbox))
      BY <2>1, <3>1, <3>2, <3>3 DEF Talk, Talks
    <3>5. Numbered(page', Tail(inbox), host, started)
      BY <2>1, <3>1, <3>2, ForgetNumbered
    <3> QED BY <3>4, <3>5
  <2>6. GivenUp(page', Tail(inbox), host)
    BY <2>1, <2>3 DEF GivenUp, Danger, Mute
  <2> QED BY <2>4, <2>5, <2>6 DEF Converses
<1> QED BY <1>1, <1>5, <1>6

\* The host ends its session untold, or tells it.
LEMMA UntoldConverses ==
  ASSUME NEW p, NEW box, NEW h, NEW n, Converses(p, box, h, n)
  PROVE  Converses(p, box, NoSession, n)
<1>1. Numbered(p, box, NoSession, n)
  BY DEF Converses, Numbered, NoSession
<1>2. GivenUp(p, box, NoSession)
  BY DEF Converses, GivenUp, Danger
<1> QED BY <1>1, <1>2 DEF Converses

\* The host's session ends, and the page is told.
LEMMA ToldConverses ==
  ASSUME NEW p, NEW box, NEW h, NEW n, Converses(p, box, h, n), h # NoSession
  PROVE  Converses(p, Append(box, [to |-> "event", ok |-> TRUE, sid |-> h]), NoSession, n)
<1> DEFINE e == [to |-> "event", ok |-> TRUE, sid |-> h]
           b == Append(box, e)
<1>1. h \in Nat /\ n \in Nat /\ h \in 0 .. n
  BY DEF Converses, Numbered
<1>2. e \in Reply /\ e.to = "event" /\ e.sid = h
  BY <1>1 DEF Reply
<1> HIDE DEF e
<1>3. b \in Seq(Reply) /\ Adds(box, b, e)
  BY <1>2, AddsLast DEF Converses, Talk
<1> HIDE DEF b
<1>4. PICK k \in Nat : /\ DOMAIN box = 1 .. k /\ DOMAIN b = 1 .. k + 1
                       /\ (\A j \in 1 .. k : b[j] = box[j]) /\ b[k + 1] = e
  BY <1>3 DEF Adds
<1>5. \A u \in Tasks : RepliesTo(b, u) = RepliesTo(box, u) /\ \A j \in RepliesTo(box, u) : b[j] = box[j]
  BY <1>2, <1>4, Parties DEF RepliesTo
<1>6. /\ RepliesTo(b, "event") = RepliesTo(box, "event") \cup {k + 1}
      /\ \A j \in RepliesTo(box, "event") : b[j] = box[j]
      /\ k + 1 \notin RepliesTo(box, "event")
  BY <1>2, <1>4 DEF RepliesTo
<1>7. Talk(p, b)
  BY <1>3, <1>5 DEF Converses, Talk, Talks
<1>8. Numbered(p, b, NoSession, n)
  <2>1. Numbered(p, box, h, n)
    BY DEF Converses
  <2>2. \A j \in DOMAIN b : b[j].sid \in 0 .. n
    BY <1>1, <1>2, <1>4, <2>1 DEF Numbered
  <2>3. /\ \A j \in RepliesTo(b, "event") : b[j].sid \notin {NoSession}
        /\ \A i, j \in RepliesTo(b, "event") : b[i].sid = b[j].sid => i = j
    BY <1>2, <1>4, <1>6, <2>1 DEF Numbered
  <2> QED BY <1>1, <2>1, <2>2, <2>3 DEF Numbered, NoSession
<1>9. GivenUp(p, b, NoSession)
  <2> SUFFICES ASSUME Danger(p, b, NoSession) PROVE GivenUp(p, b, NoSession)
    BY DEF GivenUp
  <2>1. Danger(p, box, h)
    BY <1>2, <1>4, <1>6 DEF Danger, EndsOf
  <2>2. /\ p.task["job"].pc = "switchstop" /\ p.phase = "starting" /\ p.session = NoSession
        /\ \A u \in Tasks \ {"job"} : p.task[u].cur => p.task[u].pc = "fallback" /\ Behind(p, box, u)
        /\ \/ \E i \in MailOf(p, "job") : p.mail[i].sid = p.abandoned
           \/ /\ h # p.abandoned
              /\ \E i \in RepliesTo(box, "job") : \A j \in EndsOf(box, p.abandoned) : j < i
    BY <2>1 DEF Converses, GivenUp
  <2>3. \A u \in Tasks : Behind(p, box, u) => Behind(p, b, u)
    BY <1>5, Parties DEF Behind
  <2>4. h # p.abandoned => EndsOf(b, p.abandoned) = EndsOf(box, p.abandoned)
    BY <1>2, <1>4, <1>6 DEF EndsOf
  <2>5. p.abandoned # NoSession
    BY <2>1 DEF Danger
  <2> QED BY <1>5, <2>2, <2>3, <2>4, <2>5, Parties DEF GivenUp
<1> QED BY <1>7, <1>8, <1>9 DEF Converses, b, e

\* The host starts a session.
LEMMA StartedConverses ==
  ASSUME NEW p, NEW box, NEW n, Converses(p, box, NoSession, n)
  PROVE  Converses(p, box, n + 1, n + 1)
<1>1. Numbered(p, box, NoSession, n)
  BY DEF Converses
<1>2. \A k \in RepliesTo(box, "event") : box[k].sid \in 0 .. n
  BY <1>1 DEF Numbered, RepliesTo
<1>3. Numbered(p, box, n + 1, n + 1)
  BY <1>1, <1>2 DEF Numbered
<1>4. n \in Nat /\ p.abandoned \in 0 .. n
  BY <1>1 DEF Numbered
<1>5. p.abandoned # n + 1
  BY <1>4
<1>6. GivenUp(p, box, n + 1)
  BY <1>5 DEF Converses, GivenUp, Danger
<1> QED BY <1>3, <1>6 DEF Converses

\* The background served the first message, and answers its sender if there is one.
Answer(box, m, ok, sid) ==
  IF m.from = Nobody THEN box ELSE Append(box, [to |-> m.from, ok |-> ok, sid |-> sid])

Answers(box, b, t, ok, sid) ==
  /\ b \in Seq(Reply)
  /\ \A k \in DOMAIN box : k \in DOMAIN b /\ b[k] = box[k] /\ k \in Nat
  /\ RepliesTo(b, "event") = RepliesTo(box, "event")
  /\ \A u \in Tasks \ {t} : RepliesTo(b, u) = RepliesTo(box, u)
  /\ t \in Tasks =>
       \E l \in Nat : /\ RepliesTo(b, t) = RepliesTo(box, t) \cup {l}
                      /\ (\A k \in DOMAIN box : k < l) /\ b[l].sid = sid /\ (b[l].ok <=> ok)
  /\ \A k \in DOMAIN b : k \in DOMAIN box \/ b[k].sid = sid

\* What serving the first message does to the positions of the others.
LEMMA ServedMail ==
  ASSUME NEW p, NEW q, NEW box, Talk(p, box), p.mail # <<>>, q.mail = Tail(p.mail)
  PROVE  /\ q.mail \in Seq(Letter) /\ Head(p.mail) \in Letter
         /\ 1 \in MailOf(p, Head(p.mail).from) /\ p.mail[1] = Head(p.mail)
         /\ \A u, k : k \in MailOf(q, u) =>
              k \in Nat /\ k + 1 \in MailOf(p, u) /\ q.mail[k] = p.mail[k + 1]
         /\ \A u, k : k \in MailOf(p, u) /\ k # 1 =>
              k \in Nat /\ k - 1 \in MailOf(q, u) /\ q.mail[k - 1] = p.mail[k]
         /\ MailOf(q, Head(p.mail).from) = {} \/ Head(p.mail).from \notin Tasks
<1>1. q.mail \in Seq(Letter) /\ Loses(p.mail, q.mail) /\ Head(p.mail) = p.mail[1] /\ Head(p.mail) \in Letter
      /\ 1 \in DOMAIN p.mail
  BY LosesHead DEF Talk
<1>2. PICK n \in Nat : /\ DOMAIN p.mail = 1 .. n + 1 /\ DOMAIN q.mail = 1 .. n
                       /\ \A k \in 1 .. n : q.mail[k] = p.mail[k + 1]
  BY <1>1 DEF Loses
<1>3. ASSUME NEW u, NEW k \in MailOf(q, u)
      PROVE  k \in Nat /\ k >= 1 /\ k + 1 \in MailOf(p, u) /\ q.mail[k] = p.mail[k + 1]
  BY <1>2, <1>3 DEF MailOf
<1>4. ASSUME NEW u, NEW k \in MailOf(p, u), k # 1
      PROVE  k \in Nat /\ k - 1 \in MailOf(q, u) /\ q.mail[k - 1] = p.mail[k]
  BY <1>2, <1>4 DEF MailOf
<1>5. 1 \in MailOf(p, Head(p.mail).from)
  BY <1>1 DEF MailOf
<1>6. ASSUME Head(p.mail).from \in Tasks, NEW k \in MailOf(q, Head(p.mail).from) PROVE FALSE
  <2>1. k + 1 = 1
    BY <1>3, <1>5, <1>6 DEF Talk, Talks
  <2> QED BY <1>3, <1>6, <2>1
<1> QED BY <1>1, <1>3, <1>4, <1>5, <1>6

\* Where an answer lands in the box.
LEMMA AnswerBox ==
  ASSUME NEW box \in Seq(Reply), NEW m \in Letter, NEW ok \in BOOLEAN, NEW sid \in Nat,
         NEW b, b = Answer(box, m, ok, sid)
  PROVE  Answers(box, b, m.from, ok, sid)
<1> DEFINE e == [to |-> m.from, ok |-> ok, sid |-> sid]
<1>1. CASE m.from = Nobody
  <2>1. b = box /\ m.from \notin Tasks /\ \A k \in DOMAIN box : k \in Nat
    BY <1>1, Parties DEF Answer
  <2> QED BY <2>1 DEF Answers
<1>2. CASE m.from # Nobody
  <2>1. m.from \in Tasks /\ e \in Reply /\ e.to = m.from /\ e.sid = sid /\ (e.ok <=> ok) /\ b = Append(box, e)
    BY <1>2 DEF Answer, Letter, Reply
  <2> HIDE DEF e
  <2>2. b \in Seq(Reply) /\ Adds(box, b, e)
    BY <2>1, AddsLast
  <2>3. PICK n \in Nat : /\ DOMAIN box = 1 .. n /\ DOMAIN b = 1 .. n + 1
                         /\ (\A k \in 1 .. n : b[k] = box[k]) /\ b[n + 1] = e
    BY <2>2 DEF Adds
  <2>4. /\ \A k \in DOMAIN box : k \in DOMAIN b /\ b[k] = box[k] /\ k \in Nat
        /\ \A k \in DOMAIN b : k \in DOMAIN box \/ b[k].sid = sid
    BY <2>1, <2>3
  <2>5. \A u : u # m.from => RepliesTo(b, u) = RepliesTo(box, u)
    BY <2>1, <2>3 DEF RepliesTo
  <2>6. /\ RepliesTo(b, m.from) = RepliesTo(box, m.from) \cup {n + 1}
        /\ (\A k \in DOMAIN box : k < n + 1) /\ b[n + 1].sid = sid /\ (b[n + 1].ok <=> ok)
    BY <2>1, <2>3 DEF RepliesTo
  <2>7. \E l \in Nat : /\ RepliesTo(b, m.from) = RepliesTo(box, m.from) \cup {l}
                       /\ (\A k \in DOMAIN box : k < l) /\ b[l].sid = sid /\ (b[l].ok <=> ok)
    BY <2>6
  <2> QED BY <2>1, <2>2, <2>4, <2>5, <2>7, Parties DEF Answers
<1> QED BY <1>1, <1>2

\* That is in order: the answer to the stop of a session comes after its end.
LEMMA AnswerConverses ==
  ASSUME NEW p, NEW q, NEW box, NEW h, NEW n, Converses(p, box, h, n), p.mail # <<>>,
         q.mail = Tail(p.mail), q.task = p.task, q.phase = p.phase, q.session = p.session,
         q.abandoned = p.abandoned,
         NEW ok \in BOOLEAN, NEW sid \in 0 .. n,
         Head(p.mail).op = "start" /\ ok => sid # NoSession,
         Head(p.mail).op = "stop" /\ Head(p.mail).sid = h => h = NoSession
  PROVE  Converses(q, Answer(box, Head(p.mail), ok, sid), h, n)
<1> DEFINE m == Head(p.mail)
           b == Answer(box, m, ok, sid)
<1>1. Talk(p, box) /\ Numbered(p, box, h, n) /\ n \in Nat /\ sid \in Nat
  BY DEF Converses, Numbered
<1>2. /\ q.mail \in Seq(Letter) /\ m \in Letter
      /\ 1 \in MailOf(p, m.from) /\ p.mail[1] = m
      /\ \A u, k : k \in MailOf(q, u) =>
           k \in Nat /\ k + 1 \in MailOf(p, u) /\ q.mail[k] = p.mail[k + 1]
      /\ \A u, k : k \in MailOf(p, u) /\ k # 1 =>
           k \in Nat /\ k - 1 \in MailOf(q, u) /\ q.mail[k - 1] = p.mail[k]
      /\ MailOf(q, m.from) = {} \/ m.from \notin Tasks
  BY <1>1, ServedMail
<1>3. Answers(box, b, m.from, ok, sid)
  <2>1. box \in Seq(Reply) /\ m \in Letter /\ sid \in Nat
    BY <1>1, <1>2 DEF Talk
  <2>2. b = Answer(box, m, ok, sid)
    OBVIOUS
  <2> HIDE DEF m, b
  <2> QED BY <2>1, <2>2, AnswerBox
<1>4. \A u : RepliesTo(box, u) \subseteq DOMAIN box
  BY DEF RepliesTo
<1> HIDE DEF b, m
<1>5. ASSUME NEW u \in Tasks PROVE Talks(q, b, u)
  <2>1. Talks(p, box, u)
    BY <1>1 DEF Talk
  <2>2. CASE u = m.from
    <3>1. MailOf(q, u) = {} /\ RepliesTo(box, u) = {}
      BY <1>2, <2>1, <2>2 DEF Talks
    <3>2. PICK l \in Nat : RepliesTo(b, u) = {l} /\ b[l].sid = sid /\ (b[l].ok <=> ok)
      BY <1>3, <2>2, <3>1 DEF Answers
    <3>3. p.task[u].pc \in Waits /\ m.op = Asks(p.task[u].pc)
      BY <1>2, <2>1, <2>2 DEF Talks
    <3>4. p.task[u].pc = "fallback" => m.op = "start"
      BY <3>3 DEF Asks
    <3> QED BY <3>1, <3>2, <3>3, <3>4 DEF Talks, m
  <2>3. CASE u # m.from
    <3>1. RepliesTo(b, u) = RepliesTo(box, u) /\ \A k \in RepliesTo(box, u) : b[k] = box[k]
      BY <1>3, <1>4, <2>3 DEF Answers
    <3>2. ASSUME NEW j \in MailOf(q, u), NEW k \in MailOf(q, u) PROVE j = k
      <4>1. j \in Nat /\ k \in Nat /\ j + 1 \in MailOf(p, u) /\ k + 1 \in MailOf(p, u)
        BY <1>2
      <4>2. j + 1 = k + 1
        BY <2>1, <4>1 DEF Talks
      <4> QED BY <4>1, <4>2
    <3>3. ASSUME NEW k \in MailOf(q, u) PROVE p.task[u].pc \in Waits /\ q.mail[k].op = Asks(p.task[u].pc)
      <4>1. k + 1 \in MailOf(p, u) /\ q.mail[k] = p.mail[k + 1]
        BY <1>2
      <4> QED BY <2>1, <4>1 DEF Talks
    <3>4. MailOf(q, u) = {} \/ RepliesTo(box, u) = {}
      BY <1>2, <2>1 DEF Talks
    <3>5. \A j, k \in RepliesTo(b, u) : j = k
      BY <2>1, <3>1 DEF Talks
    <3>6. \A k \in RepliesTo(b, u) :
            p.task[u].pc \in Waits /\ (p.task[u].pc = "fallback" /\ b[k].ok => b[k].sid # NoSession)
      BY <2>1, <3>1 DEF Talks
    <3> QED BY <3>1, <3>2, <3>3, <3>4, <3>5, <3>6 DEF Talks
  <2> QED BY <2>2, <2>3
<1>6. Numbered(q, b, h, n)
  <2>1. \A k \in DOMAIN b : b[k].sid \in 0 .. n
    BY <1>1, <1>3 DEF Numbered, Answers
  <2>2. \A k \in RepliesTo(box, "event") : b[k] = box[k]
    BY <1>3, <1>4 DEF Answers
  <2> QED BY <1>1, <1>3, <2>1, <2>2 DEF Numbered, Answers
<1>7. ASSUME Danger(q, b, h) PROVE GivenUp(q, b, h)
  <2>1. Danger(p, box, h) /\ EndsOf(b, p.abandoned) = EndsOf(box, p.abandoned)
    BY <1>3, <1>4, <1>7 DEF Danger, EndsOf, Answers
  <2>2. /\ p.task["job"].pc = "switchstop" /\ p.phase = "starting" /\ p.session = NoSession
        /\ \A u \in Tasks \ {"job"} : p.task[u].cur => p.task[u].pc = "fallback" /\ Behind(p, box, u)
        /\ \/ \E k \in MailOf(p, "job") : p.mail[k].sid = p.abandoned
           \/ /\ h # p.abandoned
              /\ \E k \in RepliesTo(box, "job") : \A j \in EndsOf(box, p.abandoned) : j < k
    BY <2>1 DEF Converses, GivenUp
  <2>3. ASSUME NEW u \in Tasks \ {"job"}, p.task[u].cur PROVE Behind(q, b, u)
    <3>1. Behind(p, box, u)
      BY <2>2, <2>3
    <3>2. \A j \in MailOf(q, "job"), k \in MailOf(q, u) : j < k
      <4> SUFFICES ASSUME NEW j \in MailOf(q, "job"), NEW k \in MailOf(q, u) PROVE j < k
        OBVIOUS
      <4>1. j \in Nat /\ k \in Nat /\ j + 1 \in MailOf(p, "job") /\ k + 1 \in MailOf(p, u)
        BY <1>2
      <4>2. j + 1 < k + 1
        BY <3>1, <4>1 DEF Behind
      <4> QED BY <4>1, <4>2
    <3>3. CASE m.from = u
      <4>1. 1 \in MailOf(p, u)
        BY <1>2, <3>3
      <4>2. MailOf(q, "job") = {}
        <5> SUFFICES ASSUME NEW j \in MailOf(q, "job") PROVE FALSE
          OBVIOUS
        <5>1. j \in Nat /\ j + 1 \in MailOf(p, "job")
          BY <1>2
        <5>2. j + 1 < 1
          BY <3>1, <4>1, <5>1 DEF Behind
        <5> QED BY <5>1, <5>2
      <4>3. RepliesTo(box, u) = {} /\ RepliesTo(b, "job") = RepliesTo(box, "job")
        <5>1. Talks(p, box, u)
          BY <1>1 DEF Talk
        <5> QED BY <1>3, <2>3, <3>3, <4>1, <5>1, Parties DEF Talks, Answers
      <4>4. \A j \in RepliesTo(b, "job"), k \in RepliesTo(b, u) : j < k
        BY <1>3, <1>4, <3>3, <4>3 DEF Answers
      <4> QED BY <3>2, <4>2, <4>4 DEF Behind
    <3>4. CASE m.from # u
      <4>1. RepliesTo(b, u) = RepliesTo(box, u)
        BY <1>3, <3>4 DEF Answers
      <4>2. CASE m.from = "job"
        BY <1>2, <3>1, <3>2, <4>1, <4>2, Parties DEF Behind
      <4>3. CASE m.from # "job"
        <5>1. RepliesTo(b, "job") = RepliesTo(box, "job")
          BY <1>3, <4>3, Parties DEF Answers
        <5>2. MailOf(q, "job") = {} \/ RepliesTo(b, u) = {}
          BY <1>2, <3>1, <4>1 DEF Behind
        <5> QED BY <3>1, <3>2, <4>1, <5>1, <5>2 DEF Behind
      <4> QED BY <4>2, <4>3
    <3> QED BY <3>3, <3>4
  <2>4. CASE \E k \in MailOf(p, "job") : p.mail[k].sid = p.abandoned
    <3>1. PICK k \in MailOf(p, "job") : p.mail[k].sid = p.abandoned
      BY <2>4
    <3>2. CASE k # 1
      <4>1. k - 1 \in MailOf(q, "job") /\ q.mail[k - 1].sid = p.abandoned
        BY <1>2, <3>1, <3>2
      <4> QED BY <2>2, <2>3, <4>1 DEF GivenUp
    <3>3. CASE k = 1
      <4>1. m.from = "job" /\ m.sid = p.abandoned
        BY <1>2, <3>1, <3>3 DEF MailOf
      <4>2. m.op = "stop"
        <5>1. Talks(p, box, "job")
          BY <1>1, Parties DEF Talk
        <5> QED BY <1>2, <2>2, <3>1, <3>3, <5>1 DEF Talks, Asks
      <4>3. h # p.abandoned
        BY <2>1, <4>1, <4>2 DEF Danger, m
      <4>4. PICK l \in Nat : /\ l \in RepliesTo(b, "job")
                             /\ \A j \in DOMAIN box : j < l
        BY <1>3, <4>1, Parties DEF Answers
      <4>5. \A j \in EndsOf(b, p.abandoned) : j < l
        BY <1>4, <2>1, <4>4 DEF EndsOf
      <4> QED BY <2>2, <2>3, <4>3, <4>4, <4>5 DEF GivenUp
    <3> QED BY <3>2, <3>3
  <2>5. CASE /\ h # p.abandoned
             /\ \E k \in RepliesTo(box, "job") : \A j \in EndsOf(box, p.abandoned) : j < k
    <3>1. RepliesTo(box, "job") \subseteq RepliesTo(b, "job")
      BY <1>3, <1>4, Parties DEF RepliesTo, Answers
    <3> QED BY <2>1, <2>2, <2>3, <2>5, <3>1 DEF GivenUp
  <2> QED BY <2>2, <2>4, <2>5
<1>8. Talk(q, b)
  BY <1>2, <1>3, <1>5 DEF Talk, Answers
<1>9. GivenUp(q, b, h)
  BY <1>7 DEF GivenUp
<1> QED BY <1>6, <1>8, <1>9 DEF Converses, b, m

\* An answer goes to the end of the box.
LEMMA ReplyAnswer ==
  ASSUME NEW box \in Seq(Reply), NEW m \in Letter, NEW ok \in BOOLEAN, NEW sid \in Nat
  PROVE  box \o (IF m.from = Nobody THEN <<>> ELSE <<[to |-> m.from, ok |-> ok, sid |-> sid]>>)
           = Answer(box, m, ok, sid)
<1> DEFINE e == [to |-> m.from, ok |-> ok, sid |-> sid]
<1>1. CASE m.from = Nobody
  <2>1. box \o <<>> = box
    OBVIOUS
  <2> QED BY <1>1, <2>1 DEF Answer
<1>2. CASE m.from # Nobody
  <2>1. e \in Reply
    BY <1>2 DEF Letter, Reply
  <2> HIDE DEF e
  <2>2. box \o <<e>> = Append(box, e)
    BY <2>1
  <2> QED BY <1>2, <2>2 DEF Answer, e
<1> QED BY <1>1, <1>2

\* The background serves one message.
LEMMA ServeConverses ==
  ASSUME Ready(page), Converses(page, inbox, host, started), Serve
  PROVE  Phased(page', {}) /\ Converses(page', inbox', host', started')
<1> DEFINE p == page
           m == Head(page.mail)
           q == [page EXCEPT !.mail = Tail(@)]
           r(ok, sid) == IF m.from = Nobody THEN <<>> ELSE <<[to |-> m.from, ok |-> ok, sid |-> sid]>>
           e == [to |-> "event", ok |-> TRUE, sid |-> host]
           matches == host # NoSession /\ m.sid \in {NoSession, host}
<1>1. p.mail # <<>> /\ page' = q
  BY DEF Serve
<1>2. /\ q.mail = Tail(p.mail) /\ q.task = p.task /\ q.phase = p.phase /\ q.session = p.session
      /\ q.abandoned = p.abandoned /\ q.renderer = p.renderer
  BY ReadySame DEF Shape, IsPage, PageField
<1>3. Phased(p, {})
  BY DEF Ready
<1>4. Talk(p, inbox) /\ Numbered(p, inbox, host, started)
  BY DEF Converses
<1>5. /\ p.mail \in Seq(Letter) /\ m \in Letter /\ inbox \in Seq(Reply)
      /\ host \in 0 .. started /\ started \in Nat /\ host \in Nat
  BY <1>1, <1>4, LosesHead DEF Talk, Numbered
<1>6. \/ /\ m.op = "claim" /\ host' = host /\ started' = started
         /\ \E ok \in BOOLEAN : inbox' = inbox \o r(ok, NoSession)
      \/ /\ m.op = "start"
         /\ \/ inbox' = inbox \o r(FALSE, NoSession) /\ host' = host /\ started' = started
            \/ /\ host # NoSession /\ host' = host /\ started' = started
               /\ inbox' = inbox \o r(TRUE, host)
            \/ /\ host = NoSession /\ started' = started + 1 /\ host' = started + 1
               /\ inbox' = inbox \o r(TRUE, started + 1)
      \/ /\ m.op = "update" /\ host' = host /\ started' = started
         /\ \E ok \in {FALSE, matches} : inbox' = inbox \o r(ok, NoSession)
      \/ /\ m.op = "stop" /\ started' = started
         /\ host' = IF matches THEN NoSession ELSE host
         /\ \E told \in {FALSE, matches} :
              inbox' = inbox \o (IF told THEN <<e>> ELSE <<>>) \o r(TRUE, NoSession)
  BY DEF Serve
<1> HIDE DEF q
<1>7. Phased(q, {})
  BY <1>2, <1>3 DEF Phased, Placed, Bare
<1>8. ASSUME NEW box, NEW h, NEW n, Converses(p, box, h, n), NEW ok \in BOOLEAN, NEW sid \in 0 .. n,
             m.op = "start" /\ ok => sid # NoSession, m.op = "stop" /\ m.sid = h => h = NoSession
      PROVE  Converses(q, box \o r(ok, sid), h, n)
  <2>1. box \in Seq(Reply) /\ sid \in Nat
    BY <1>8 DEF Converses, Talk, Numbered
  <2>2. box \o r(ok, sid) = Answer(box, m, ok, sid)
    BY <1>5, <2>1, ReplyAnswer
  <2>3. Converses(q, Answer(box, m, ok, sid), h, n)
    BY <1>1, <1>2, <1>8, AnswerConverses
  <2> QED BY <2>2, <2>3
<1> HIDE DEF r, m
<1>9. CASE /\ m.op = "claim" /\ host' = host /\ started' = started
           /\ \E ok \in BOOLEAN : inbox' = inbox \o r(ok, NoSession)
  BY <1>1, <1>5, <1>7, <1>8, <1>9 DEF NoSession
<1>10. CASE /\ m.op = "update" /\ host' = host /\ started' = started
            /\ \E ok \in {FALSE, matches} : inbox' = inbox \o r(ok, NoSession)
  <2>1. PICK ok \in BOOLEAN : inbox' = inbox \o r(ok, NoSession)
    BY <1>10
  <2>2. NoSession \in 0 .. started /\ m.op # "start" /\ m.op # "stop"
    BY <1>5, <1>10 DEF NoSession
  <2>3. Converses(q, inbox \o r(ok, NoSession), host, started)
    BY <1>8, <2>2
  <2> QED BY <1>1, <1>7, <1>10, <2>1, <2>3
<1>11. CASE m.op = "start" /\ inbox' = inbox \o r(FALSE, NoSession) /\ host' = host /\ started' = started
  <2>1. NoSession \in 0 .. started /\ m.op # "stop"
    BY <1>5, <1>11 DEF NoSession
  <2>2. Converses(q, inbox \o r(FALSE, NoSession), host, started)
    BY <1>8, <2>1
  <2> QED BY <1>1, <1>7, <1>11, <2>2
<1>12. CASE /\ m.op = "start" /\ host # NoSession /\ host' = host /\ started' = started
            /\ inbox' = inbox \o r(TRUE, host)
  BY <1>1, <1>5, <1>7, <1>8, <1>12
<1>13. CASE /\ m.op = "start" /\ host = NoSession /\ started' = started + 1 /\ host' = started + 1
            /\ inbox' = inbox \o r(TRUE, started + 1)
  <2>1. Converses(p, inbox, started + 1, started + 1)
    <3>1. Converses(p, inbox, NoSession, started)
      BY <1>13
    <3> QED BY <3>1, StartedConverses
  <2>2. started + 1 # NoSession /\ started + 1 \in 0 .. started + 1
    BY <1>5 DEF NoSession
  <2>3. Converses(q, inbox \o r(TRUE, started + 1), started + 1, started + 1)
    <3> DEFINE k == started + 1
    <3>1. Converses(p, inbox, k, k) /\ k \in 0 .. k /\ k # NoSession
      BY <2>1, <2>2
    <3>2. m.op # "stop"
      BY <1>13
    <3> HIDE DEF k
    <3>3. Converses(q, inbox \o r(TRUE, k), k, k)
      BY <1>8, <3>1, <3>2
    <3> QED BY <3>3 DEF k
  <2> QED BY <1>1, <1>7, <1>13, <2>3
<1>14. CASE /\ m.op = "stop" /\ started' = started
            /\ host' = IF matches THEN NoSession ELSE host
            /\ \E told \in {FALSE, matches} :
                 inbox' = inbox \o (IF told THEN <<e>> ELSE <<>>) \o r(TRUE, NoSession)
  <2>1. PICK told \in {FALSE, matches} :
          inbox' = inbox \o (IF told THEN <<e>> ELSE <<>>) \o r(TRUE, NoSession)
    BY <1>14
  <2>2. /\ Converses(p, inbox \o (IF told THEN <<e>> ELSE <<>>), host', started)
        /\ m.sid = host' => host' = NoSession
    <3>1. CASE told
      <4>1. matches /\ host' = NoSession
        BY <1>14, <2>1, <3>1
      <4>2. Converses(p, Append(inbox, e), NoSession, started)
        BY <4>1, ToldConverses
      <4>3. inbox \o <<e>> = Append(inbox, e)
        <5>1. e \in Reply
          BY <1>5 DEF Reply
        <5> HIDE DEF e
        <5> QED BY <1>5, <5>1
      <4> QED BY <3>1, <4>1, <4>2, <4>3
    <3>2. CASE ~told /\ matches
      <4>1. host' = NoSession /\ inbox \o <<>> = inbox
        BY <1>5, <1>14, <3>2
      <4> QED BY <3>2, <4>1, UntoldConverses
    <3>3. CASE ~told /\ ~matches
      <4>1. host' = host /\ inbox \o <<>> = inbox
        BY <1>5, <1>14, <3>3
      <4> QED BY <3>3, <4>1
    <3> QED BY <3>1, <3>2, <3>3
  <2>3. NoSession \in 0 .. started
    BY <1>5 DEF NoSession
  <2> HIDE DEF e
  <2> QED BY <1>1, <1>7, <1>8, <1>14, <2>1, <2>2, <2>3
<1> QED BY <1>6, <1>9, <1>10, <1>11, <1>12, <1>13, <1>14

\* The inductive invariant behind PhaseTellsResources.
PhaseInv == PageInv /\ Phased(page, {}) /\ Converses(page, inbox, host, started)

\* What the invariant gives to a step.
LEMMA PhaseReady ==
  ASSUME PhaseInv
  PROVE  /\ Ready(page) /\ Converses(page, inbox, host, started)
         /\ Talk(page, inbox) /\ GivenUp(page, inbox, host)
         /\ started \in Nat /\ page.session \in 0 .. started /\ NoSession \in 0 .. started
<1>1. started \in Nat /\ page.session \in 0 .. started
  BY DEF PhaseInv, Converses, Numbered
<1> QED BY <1>1 DEF PhaseInv, PageInv, Ready, Converses, NoSession

\* An operation hears the answer it waits for.
LEMMA HearConverses ==
  ASSUME PhaseInv, NEW t \in Tasks, NEW pc, Answered(t, pc),
         Turns(page, page', t), page'.session \in 0 .. started
  PROVE  Converses(page', inbox', host', started')
<1>1. inbox # <<>> /\ Head(inbox).to = t /\ inbox' = Tail(inbox) /\ host' = host /\ started' = started
  BY DEF Answered
<1>2. Converses(page, inbox, host, started)
  BY PhaseReady
<1>3. /\ Converses(page, Tail(inbox), host, started) /\ Lull(page, Tail(inbox), t)
      /\ Danger(page, Tail(inbox), host) => t # "job" /\ ~page.task[t].cur
  BY <1>1, <1>2, HearsLull
<1>4. Converses(page', Tail(inbox), host, started)
  BY <1>3, TurnConverses
<1> QED BY <1>1, <1>4

\* An operation that waits for nothing of the background goes on.
LEMMA GoConverses ==
  ASSUME PhaseInv, NEW t \in Tasks, page.task[t].pc \notin Waits, Lands(page, page', t)
  PROVE  Converses(page', inbox, host, started)
<1>1. Converses(page, inbox, host, started) /\ Talk(page, inbox) /\ GivenUp(page, inbox, host)
  BY PhaseReady
<1>2. /\ Lull(page, inbox, t)
      /\ Danger(page, inbox, host) => t # "job" /\ ~page.task[t].cur
  BY <1>1, RestsLull
<1>3. Turns(page, page', t) /\ page'.session \in 0 .. started
  BY PhaseReady DEF Lands
<1> QED BY <1>1, <1>2, <1>3, TurnConverses

\* A handler that lands keeps what the phase tells, and a known session.
LEMMA LandsSession ==
  ASSUME PhaseInv, NEW t \in Tasks, Lands(page, page', t)
  PROVE  Phased(page', {}) /\ Turns(page, page', t) /\ page'.session \in 0 .. started
  BY PhaseReady DEF Lands

\* The answers.
LEMMA AnsweredPhased ==
  ASSUME PhaseInv, NEW t \in Tasks,
         Claimed(t) \/ Absorbed(t) \/ Stopped(t) \/ UpdateAnswered(t) \/ SwitchStopped(t)
  PROVE  Phased(page', {}) /\ Converses(page', inbox', host', started')
<1>1. Lands(page, page', t)
  BY PhaseReady, ClaimedLands, AbsorbedLands, StoppedLands, UpdatedLands, SwitchStoppedLands
<1>2. \E pc : Answered(t, pc)
  BY DEF Claimed, Absorbed, Stopped, UpdateAnswered, SwitchStopped
<1>3. PICK pc : Answered(t, pc)
  BY <1>2
<1> QED BY <1>1, <1>3, LandsSession, HearConverses

\* The answer to a request for native capture, with the session it brings.
LEMMA FallbackPhased ==
  ASSUME PhaseInv, NEW t \in Tasks, FallbackAnswered(t)
  PROVE  Phased(page', {}) /\ Converses(page', inbox', host', started')
<1>1. Answered(t, "fallback")
  BY DEF FallbackAnswered
<1>2. inbox # <<>> /\ Head(inbox).to = t /\ page.task[t].pc = "fallback"
  BY <1>1 DEF Answered
<1>3. inbox \in Seq(Reply) /\ Talks(page, inbox, t) /\ Numbered(page, inbox, host, started)
  BY PhaseReady DEF Talk, Converses
<1>4. Head(inbox) = inbox[1] /\ 1 \in DOMAIN inbox
  BY <1>2, <1>3, LosesHead
<1>5. Head(inbox).sid \in 0 .. started /\ (Head(inbox).ok => Head(inbox).sid # NoSession)
  BY <1>2, <1>3, <1>4 DEF Talks, RepliesTo, Numbered
<1>6. /\ Phased(page', {}) /\ Turns(page, page', t)
      /\ page'.session \in {page.session, NoSession, Head(inbox).sid}
  <2>1. Head(inbox).sid \in Nat
    BY <1>5, PhaseReady
  <2> QED BY <1>5, <2>1, PhaseReady, FallbackLands
<1>7. page'.session \in 0 .. started
  BY <1>5, <1>6, PhaseReady
<1> QED BY <1>1, <1>6, <1>7, HearConverses

\* What the page does by itself.
LEMMA ResumedPhased ==
  ASSUME PhaseInv, NEW t \in Tasks,
         SlotFree(t) \/ Created(t) \/ Aligned(t) \/ Reconfigured(t) \/ SourceSwitched(t) \/ SettingsLoaded(t)
  PROVE  Phased(page', {}) /\ Converses(page', inbox', host', started')
<1>1. Lands(page, page', t)
  BY PhaseReady, SlotFreeLands, CreatedActionLands, AlignedLands, ReconfiguredLands, SourceLands,
     SettingsLoadedLands
<1>2. page.task[t].pc \notin Waits /\ inbox' = inbox /\ host' = host /\ started' = started
  BY DEF SlotFree, Created, Aligned, Reconfigured, SourceSwitched, SettingsLoaded, Resumed, Waits
<1>3. Converses(page', inbox, host, started)
  BY <1>1, <1>2, GoConverses
<1> QED BY <1>1, <1>2, <1>3, LandsSession

\* The queue starts its next operation.
LEMMA JobPhased ==
  ASSUME PhaseInv, RunJob
  PROVE  Phased(page', {}) /\ Converses(page', inbox', host', started')
<1>1. /\ page.task["job"].pc \notin Waits /\ inbox' = inbox /\ host' = host /\ started' = started
      /\ "job" \in Tasks
  BY Parties DEF RunJob, Waits
<1>2. CASE Lands(page, page', "job")
  <2>1. Converses(page', inbox, host, started)
    BY <1>1, <1>2, GoConverses
  <2> QED BY <1>1, <1>2, <2>1, LandsSession
<1>3. CASE WebSwitched(page, page', "job")
  <2>1. Converses(page', inbox, host, started)
    BY <1>1, <1>3, PhaseReady, SwitchConverses
  <2>2. Phased(page', {})
    BY <1>3 DEF WebSwitched
  <2> QED BY <1>1, <2>1, <2>2
<1> QED BY <1>2, <1>3, PhaseReady, RunJobLands

\* Between the operations.
LEMMA DriftPhased ==
  ASSUME PhaseInv,
         \/ TimerFires \/ Constructed \/ Activity \/ ReapplySettings \/ OverloadStep
         \/ VideoRemoved \/ Destroy
  PROVE  Phased(page', {}) /\ Converses(page', inbox', host', started')
<1>1. Drifts(page, page')
  BY PhaseReady, TimerDrifts, ConstructedDrifts, ActivityDrifts, ReapplyDrifts, OverloadDrifts,
     RemovedDrifts, DestroyActionDrifts
<1>2. inbox' = inbox /\ host' = host /\ started' = started
  BY DEF TimerFires, Constructed, Activity, ReapplySettings, OverloadStep, VideoRemoved, Destroy,
     PageOnly, Stimulus
<1>3. Converses(page', inbox, host, started)
  BY <1>1, PhaseReady, DriftConverses
<1> QED BY <1>1, <1>2, <1>3 DEF Drifts

\* The operations outside the queue.
LEMMA SidePhased ==
  ASSUME PhaseInv, NEW t \in Sides,
         \/ ForceStop(t) \/ BfcacheRestore(t) \/ Encrypted(t) \/ RendererError(t)
         \/ RefreshTarget(t) \/ Watchdog(t) \/ Reattach(t)
  PROVE  Phased(page', {}) /\ Converses(page', inbox', host', started')
<1>1. t \in Tasks /\ Lands(page, page', t)
  BY PhaseReady, ForceStopLands, BfcacheLands, EncryptedLands, RendererErrorLands, RefreshLands,
     WatchdogLands, ReattachLands
<1>2. /\ page.task[t].pc \notin Waits /\ inbox' = inbox /\ host' \in {host, NoSession}
      /\ started' = started
  BY DEF ForceStop, BfcacheRestore, Encrypted, RendererError, RefreshTarget, Watchdog, Reattach,
     PageOnly, Stimulus, Side, Waits
<1>3. Converses(page', inbox, host, started)
  BY <1>1, <1>2, GoConverses
<1>4. Converses(page', inbox, NoSession, started)
  BY <1>3, UntoldConverses
<1> QED BY <1>1, <1>2, <1>3, <1>4, LandsSession

\* The host ends its session.
LEMMA HostPhased ==
  ASSUME PhaseInv, HostEnds
  PROVE  Phased(page', {}) /\ Converses(page', inbox', host', started')
<1>1. /\ page' = page /\ host # NoSession /\ host' = NoSession /\ started' = started
      /\ inbox' = Append(inbox, [to |-> "event", ok |-> TRUE, sid |-> host])
  BY DEF HostEnds, Stimulus
<1>2. Converses(page, Append(inbox, [to |-> "event", ok |-> TRUE, sid |-> host]), NoSession, started)
  BY <1>1, PhaseReady, ToldConverses
<1> QED BY <1>1, <1>2 DEF PhaseInv

\* Every step keeps the invariant.
LEMMA PhaseStep ==
  ASSUME PhaseInv, [EnhancerNext]_enhancerVars
  PROVE  PhaseInv'
<1>1. PageInv'
  BY PageStep DEF PhaseInv
<1>2. Phased(page', {}) /\ Converses(page', inbox', host', started')
  <2>1. CASE UNCHANGED enhancerVars
    BY <2>1 DEF PhaseInv, enhancerVars
  <2>2. ASSUME NEW t \in Tasks,
               \/ Claimed(t) \/ SlotFree(t) \/ Created(t) \/ Aligned(t) \/ FallbackAnswered(t)
               \/ Absorbed(t) \/ Stopped(t) \/ UpdateAnswered(t) \/ SwitchStopped(t)
               \/ Reconfigured(t) \/ SourceSwitched(t) \/ SettingsLoaded(t)
        PROVE  Phased(page', {}) /\ Converses(page', inbox', host', started')
    BY <2>2, AnsweredPhased, FallbackPhased, ResumedPhased
  <2>3. CASE RunJob \/ TimerFires \/ Constructed \/ SessionEnded \/ Serve
    BY <2>3, JobPhased, DriftPhased, PhaseReady, SessionEndedConverses, ServeConverses
  <2>4. CASE Activity \/ ReapplySettings \/ OverloadStep \/ VideoRemoved \/ Destroy \/ HostEnds
    BY <2>4, DriftPhased, HostPhased
  <2>5. ASSUME NEW t \in Sides,
               \/ ForceStop(t) \/ BfcacheRestore(t) \/ Encrypted(t) \/ RendererError(t)
               \/ RefreshTarget(t) \/ Watchdog(t) \/ Reattach(t)
        PROVE  Phased(page', {}) /\ Converses(page', inbox', host', started')
    BY <2>5, SidePhased
  <2> QED BY <2>1, <2>2, <2>3, <2>4, <2>5 DEF EnhancerNext
<1> QED BY <1>1, <1>2 DEF PhaseInv

\* It holds at first.
LEMMA PhaseInit ==
  ASSUME EnhancerInit
  PROVE  PhaseInv
<1>1. PageInv
  BY PageInit
<1>2. /\ page.phase = "idle" /\ page.renderer = FALSE /\ page.session = NoSession
      /\ page.abandoned = NoSession /\ page.mail = <<>> /\ inbox = <<>>
      /\ host = NoSession /\ started = 0 /\ \A t \in Tasks : page.task[t].cur = FALSE
  BY DEF EnhancerInit, NoTask
<1>3. Phased(page, {})
  BY <1>2 DEF Phased, Phases, Placed
<1>4. Talk(page, inbox)
  BY <1>2 DEF Talk, Talks, MailOf, RepliesTo
<1>5. Numbered(page, inbox, host, started)
  BY <1>2 DEF Numbered, RepliesTo, NoSession
<1> QED BY <1>1, <1>2, <1>3, <1>4, <1>5 DEF PhaseInv, Converses, GivenUp, Danger

\* When nothing is under way any more, the phase tells what the enhancer holds
\* (PhaseTellsResources): no start is left pending, WebGPU is active exactly with a renderer
\* and native exactly with a session, whatever operations, answers and host events overlapped.
THEOREM PhaseCorrect == EnhancerSpec => []PhaseTellsResources
<1>1. ASSUME PhaseInv PROVE PhaseTellsResources
  <2> SUFFICES ASSUME AtRest
               PROVE  /\ page.phase # "starting"
                      /\ page.renderer <=> page.phase = "webgpu-active"
                      /\ page.session # NoSession <=> page.phase = "native-active"
    BY DEF PhaseTellsResources
  <2>1. \A t \in Tasks : ~page.task[t].cur
    BY <1>1, PhaseReady, ReadyRuns DEF AtRest, TaskSound, Transits
  <2> QED BY <1>1, <2>1 DEF PhaseInv, Phased
<1> QED BY <1>1, PhaseInit, PhaseStep, PTL DEF EnhancerSpec

=============================================================================
