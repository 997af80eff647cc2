------------------------ MODULE FramePipelineProofs ------------------------
(***************************************************************************)
(* Proofs about FramePipeline, for every number of staging slots, depth,   *)
(* failure budget and frame bound, with and without dropped frames.        *)
(***************************************************************************)
EXTENDS FramePipeline, TLAPS, FiniteSetTheorems, SequenceTheorems, NaturalsInduction

\* pass() claims a slot nobody owns: the scan finds one whenever there is one.
LEMMA FirstFreeIsFree ==
  ASSUME NEW used, cursor \in Slot, used \subseteq Slot, used # Slot
  PROVE  FirstFree(used) \in Slot \ used
<1> DEFINE Positions == {ScanPosition(s) : s \in Slot \ used}
<1>1. \A s \in Slot : ScanPosition(s) \in Nat
  BY PipelineAssumption DEF Slot, ScanPosition
<1>2. Positions \subseteq Nat /\ Positions # {}
  BY <1>1
<1>3. PICK n \in Positions : \A m \in Positions : ~(<<m, n>> \in OpToRel(<, Nat))
  BY <1>2, NatLessThanWellFounded, WFMin
<1>4. ASSUME NEW m \in Positions PROVE n <= m
  <2>1. <<m, n>> \in Nat \X Nat
    BY <1>2
  <2>2. m < n => <<m, n>> \in OpToRel(<, Nat)
    BY <2>1, Zenon DEF OpToRel
  <2>3. ~(m < n)
    BY <1>3, <2>2, Zenon
  <2> QED BY <1>2, <2>3
<1>5. \E s \in Slot \ used : \A t \in Slot \ used : ScanPosition(s) <= ScanPosition(t)
  BY <1>3, <1>4
<1> QED BY <1>5 DEF FirstFree

LEMMA NextCursorType ==
  ASSUME NEW s \in Slot
  PROVE  NextCursor(s) \in Slot
BY PipelineAssumption DEF Slot, NextCursor

LEMMA SlotConstants == /\ NoSlot \notin Slot
                       /\ NoClaim \notin Claim
                       /\ 0 \notin Frame /\ Frame \subseteq Nat
                       /\ \A f \in Frame : f <= MaxFrame
                       /\ MaxFrame \in Nat
BY PipelineAssumption DEF NoSlot, Slot, NoClaim, Claim, Frame

BufType   == [map : {"unmapped", "pending", "mapped"}, frame : 0..MaxFrame]
InputType == [form : {"none", "planar", "rgba", "session"}, crop : BOOLEAN, bytes : 0..MaxFrame]
SchedType == [inFlight : SUBSET Frame, newestSeen : -1..MaxFrame, skipped : Nat]

LEMMA NoteSkippedType ==
  ASSUME NEW s \in SchedType, NEW f \in Frame
  PROVE  NoteSkipped(s, f) \in SchedType
<1>1. CASE f <= s.newestSeen
  BY <1>1 DEF NoteSkipped
<1>2. CASE ~(f <= s.newestSeen)
  <2>1. f \in -1..MaxFrame /\ s.newestSeen \in -1..MaxFrame
    BY SlotConstants DEF SchedType
  <2>2. s.skipped + (f - s.newestSeen) \in Nat
    BY <1>2, <2>1, SlotConstants DEF SchedType
  <2> QED BY <1>2, <2>1, <2>2 DEF NoteSkipped, SchedType
<1> QED BY <1>1, <1>2

LEMMA MarkStartedType ==
  ASSUME NEW s \in SchedType, NEW f \in Frame
  PROVE  MarkStarted(s, f) \in SchedType
<1>1. f \in -1..MaxFrame
  BY SlotConstants
<1> QED BY <1>1 DEF SchedType, MarkStarted

LEMMA MarkCompletedType ==
  ASSUME NEW s \in SchedType, NEW f \in Frame
  PROVE  MarkCompleted(s, f) \in SchedType
BY DEF SchedType, MarkCompleted

LEMMA LeaveDrainType ==
  ASSUME TypeOK, NEW f \in Frame, LeaveDrain(f)
  PROVE  /\ busy' \subseteq Slot
         /\ stage' \in [Frame -> Stage]
         /\ slotOf' \in [Frame -> Slot \cup {NoSlot}]
         /\ input' \in [Frame -> InputType]
<1>1. NoInput \in InputType
  BY SlotConstants DEF NoInput, InputType
<1>2. input \in [Frame -> InputType]
  BY DEF TypeOK, InputType
<1> QED BY <1>1, <1>2 DEF LeaveDrain, TypeOK, Stage

LEMMA CountErrorType ==
  ASSUME TypeOK, CountError
  PROVE  errors' \in 0..FatalFailures /\ fatal' \in BOOLEAN
<1>1. errors' \in 0..FatalFailures
  BY PipelineAssumption DEF TypeOK, CountError, errorVars
<1>2. fatal' \in BOOLEAN
  BY PipelineAssumption DEF TypeOK, CountError, errorVars
<1> QED BY <1>1, <1>2

LEMMA TypeInit == Init => TypeOK
<1> SUFFICES ASSUME Init PROVE TypeOK
  OBVIOUS
<1>1. cursor \in Slot
  BY PipelineAssumption DEF Init, Slot
<1>2. queue \in Seq(Claim)
  BY EmptySeq DEF Init
<1>3. video \in [Frame -> Content]
  BY PipelineAssumption DEF Init
<1>4. sched \in SchedType
  BY SlotConstants DEF Init, NewScheduler, SchedType
<1>5. /\ input \in [Frame -> [form : {"none", "planar", "rgba", "session"}, crop : BOOLEAN,
                          bytes : 0..MaxFrame]]
      /\ buf \in [Slot -> [map : {"unmapped", "pending", "mapped"}, frame : 0..MaxFrame]]
      /\ canvas \in [frame : 0..MaxFrame, bytes : 0..MaxFrame]
  BY SlotConstants DEF Init, NoInput
<1>6. runner \in {"native", "worker", "none"}
  BY PipelineAssumption DEF Init
<1>7. frameCounter \in 0..MaxFrame /\ watermark \in -1..MaxFrame
  BY SlotConstants DEF Init
<1>8. still.run \in 0..HoldAfter /\ timeouts \in 0..MaxTimeouts
  BY PipelineAssumption DEF Init
<1>9. cropSkips \in 0..FatalFailures /\ errors \in 0..FatalFailures
  BY PipelineAssumption DEF Init
<1> QED
  BY <1>1, <1>2, <1>3, <1>4, <1>5, <1>6, <1>7, <1>8, <1>9
  DEF Init, TypeOK, SchedType, Stage

LEMMA TypePass == TypeOK /\ Pass => TypeOK'
<1> SUFFICES ASSUME TypeOK, Pass PROVE TypeOK'
  OBVIOUS
<1> DEFINE frame  == frameCounter + 1
           leaked == pending # NoClaim
           used   == IF leaked THEN busy \ {pending.slot} ELSE busy
           seen   == IF leaked THEN NoteSkipped(sched, pending.frame) ELSE sched
<1>1. frame \in Frame
  BY SlotConstants DEF TypeOK, Pass, Frame
<1>2. used \subseteq Slot /\ seen \in SchedType
  BY NoteSkippedType DEF TypeOK, SchedType, Claim
<1>3. used # Slot => FirstFree(used) \in Slot \ used
  BY <1>2, FirstFreeIsFree DEF TypeOK
<1>4. NoteSkipped(seen, frame) \in SchedType
  BY <1>1, <1>2, NoteSkippedType
<1>5. cursor' \in Slot /\ busy' \subseteq Slot /\ pending' \in Claim \cup {NoClaim}
  <2>1. CASE used = Slot
    BY <1>1, <1>2, <2>1 DEF Pass, TypeOK
  <2>2. CASE used # Slot
    <3>1. FirstFree(used) \in Slot /\ NextCursor(FirstFree(used)) \in Slot
      BY <1>3, <2>2, NextCursorType
    <3>2. [slot |-> FirstFree(used), frame |-> frame] \in Claim
      BY <1>1, <3>1 DEF Claim
    <3>3. cursor' = NextCursor(FirstFree(used))
      BY <2>2 DEF Pass
    <3>4. \/ /\ busy' = used \cup {FirstFree(used)}
             /\ pending' = [slot |-> FirstFree(used), frame |-> frame]
          \/ busy' = used /\ pending' = NoClaim
      BY <2>2 DEF Pass
    <3> HIDE DEF used, frame
    <3> QED BY <1>2, <3>1, <3>2, <3>3, <3>4
  <2> QED BY <2>1, <2>2
<1>6. sched' \in SchedType
  BY <1>2, <1>4 DEF Pass
<1>7. video' \in [Frame -> Content]
  BY DEF Pass, TypeOK
<1>8. canvas' \in [frame : 0..MaxFrame, bytes : 0..MaxFrame]
  BY SlotConstants DEF Pass, TypeOK
<1>9. frameCounter' \in 0..MaxFrame
  BY <1>1, SlotConstants DEF Pass, TypeOK
<1> HIDE DEF used, seen, leaked, frame
<1> QED
  BY <1>5, <1>6, <1>7, <1>8, <1>9
  DEF Pass, TypeOK, SchedType, jobVars, guardVars, errorVars, countVars

\* A job owns a slot exactly in the stages between its start and its finally.
JobsHold == \A f \in Frame : stage[f] \in Holding <=> slotOf[f] # NoSlot

TypeInv == TypeOK /\ JobsHold

LEMMA BufFrameUpdate ==
  ASSUME NEW b \in [Slot -> BufType], NEW s \in Slot, NEW v \in 0..MaxFrame
  PROVE  [b EXCEPT ![s].frame = v] \in [Slot -> BufType]
<1>1. [b[s] EXCEPT !.frame = v] \in BufType
  BY DEF BufType
<1> QED BY <1>1

LEMMA BufMapUpdate ==
  ASSUME NEW b \in [Slot -> BufType], NEW s \in Slot, NEW m \in {"unmapped", "pending", "mapped"}
  PROVE  [b EXCEPT ![s].map = m] \in [Slot -> BufType]
<1>1. [b[s] EXCEPT !.map = m] \in BufType
  BY DEF BufType
<1> QED BY <1>1

LEMMA TypeAfterSubmit == TypeOK /\ AfterSubmit => TypeOK'
<1> SUFFICES ASSUME TypeOK, AfterSubmit PROVE TypeOK'
  OBVIOUS
<1>1. pending \in Claim
  BY DEF AfterSubmit, TypeOK
<1>2. pending.frame \in 0..MaxFrame /\ pending.slot \in Slot
  BY <1>1, SlotConstants DEF Claim, Frame
<1>3. buf' \in [Slot -> BufType]
  <2>1. buf \in [Slot -> BufType]
    BY DEF TypeOK, BufType
  <2>2. buf' \in {buf, [buf EXCEPT ![pending.slot].frame = pending.frame]}
    BY DEF AfterSubmit
  <2>3. [buf EXCEPT ![pending.slot].frame = pending.frame] \in [Slot -> BufType]
    BY <1>2, <2>1, BufFrameUpdate
  <2> QED BY <2>1, <2>2, <2>3
<1>4. queue' \in Seq(Claim)
  <2>1. Append(queue, pending) \in Seq(Claim)
    BY <1>1, AppendProperties DEF TypeOK
  <2>2. queue' \in {queue, Append(queue, pending)}
    BY DEF AfterSubmit
  <2> QED BY <2>1, <2>2 DEF TypeOK
<1>5. busy' \subseteq Slot /\ pending' \in Claim \cup {NoClaim}
  BY DEF AfterSubmit, TypeOK
<1> QED
  BY <1>3, <1>4, <1>5
  DEF AfterSubmit, TypeOK, BufType, jobVars, showVars, guardVars, errorVars, countVars

LEMMA TypeWorkDone == TypeOK /\ WorkDone => TypeOK'
<1> SUFFICES ASSUME TypeOK, WorkDone PROVE TypeOK'
  OBVIOUS
<1>1. Head(queue) \in Claim /\ queue' \in Seq(Claim)
  BY HeadTailProperties DEF WorkDone, TypeOK
<1>2. Head(queue).frame \in Frame /\ Head(queue).slot \in Slot
  BY <1>1 DEF Claim
<1>3. sched' \in SchedType
  <2>1. sched' \in {MarkStarted(sched, Head(queue).frame), NoteSkipped(sched, Head(queue).frame)}
    BY DEF WorkDone
  <2>2. sched \in SchedType
    BY DEF TypeOK, SchedType
  <2> QED BY <1>2, <2>1, <2>2, NoteSkippedType, MarkStartedType
<1>4. /\ busy' \subseteq Slot
      /\ stage' \in [Frame -> Stage]
      /\ slotOf' \in [Frame -> Slot \cup {NoSlot}]
  BY <1>2 DEF WorkDone, TypeOK, Stage
<1> QED
  BY <1>1, <1>3, <1>4
  DEF WorkDone, TypeOK, SchedType, showVars, guardVars, errorVars, countVars

LEMMA TypeDestroy == TypeOK /\ Destroy => TypeOK'
<1> SUFFICES ASSUME TypeOK, Destroy PROVE TypeOK'
  OBVIOUS
<1>1. sched' \in SchedType
  BY SlotConstants DEF Destroy, NewScheduler, SchedType
<1>2. watermark' \in -1..MaxFrame /\ dropped' \in Nat /\ destroyed' \in BOOLEAN
  BY SlotConstants DEF Destroy
<1> QED
  BY <1>1, <1>2
  DEF Destroy, TypeOK, SchedType, slotVars, jobVars, guardVars, errorVars

LEMMA TypeDrainStart == ASSUME TypeInv, NEW f \in Frame, DrainStart(f) PROVE TypeOK'
<1>0. TypeOK /\ slotOf[f] \in Slot /\ buf \in [Slot -> BufType] /\ input \in [Frame -> InputType]
  BY DEF TypeInv, JobsHold, DrainStart, Holding, TypeOK, BufType, InputType
<1>1. /\ busy' \subseteq Slot
      /\ stage' \in [Frame -> Stage]
      /\ slotOf' \in [Frame -> Slot \cup {NoSlot}]
      /\ input' \in [Frame -> InputType]
  <2>1. CASE LeaveDrain(f)
    BY <1>0, <2>1, LeaveDrainType
  <2>2. CASE UNCHANGED <<busy, slotOf, staleSkips, errorVars>>
             /\ stage' = [stage EXCEPT ![f] = "mapping"]
             /\ input' = [input EXCEPT ![f].form =
                            IF runner = "native" /\ landed THEN "rgba" ELSE "planar"]
    <3>1. \A form \in {"rgba", "planar"} : [input[f] EXCEPT !.form = form] \in InputType
      BY <1>0 DEF InputType
    <3>2. input' \in [Frame -> InputType]
      BY <1>0, <2>2, <3>1
    <3> QED BY <1>0, <2>2, <3>2 DEF TypeOK, Stage
  <2> QED BY <2>1, <2>2 DEF DrainStart
<1>2. buf' \in [Slot -> BufType]
  <2>1. buf' \in {buf, [buf EXCEPT ![slotOf[f]].map = "pending"]}
    BY DEF DrainStart
  <2>2. [buf EXCEPT ![slotOf[f]].map = "pending"] \in [Slot -> BufType]
    BY <1>0, BufMapUpdate
  <2> QED BY <1>0, <2>1, <2>2
<1>3. errors' \in 0..FatalFailures /\ fatal' \in BOOLEAN
  BY <1>0, CountErrorType DEF DrainStart, TypeOK, errorVars
<1>4. staleSkips' \in Nat
  <2>1. staleSkips' \in {staleSkips, staleSkips + 1}
    BY DEF DrainStart
  <2> QED BY <1>0, <2>1 DEF TypeOK
<1> QED
  BY <1>0, <1>1, <1>2, <1>3, <1>4
  DEF DrainStart, TypeOK, BufType, InputType, showVars, guardVars

LEMMA TypeMapDone == ASSUME TypeInv, NEW f \in Frame, MapDone(f) PROVE TypeOK'
<1>0. TypeOK /\ slotOf[f] \in Slot /\ buf \in [Slot -> BufType] /\ input \in [Frame -> InputType]
  BY DEF TypeInv, JobsHold, MapDone, Holding, TypeOK, BufType, InputType
<1>1. CASE destroyed
  <2>1. LeaveDrain(f) /\ UNCHANGED <<buf, still, staleSkips, errorVars>>
    BY <1>1 DEF MapDone
  <2>2. /\ busy' \subseteq Slot
        /\ stage' \in [Frame -> Stage]
        /\ slotOf' \in [Frame -> Slot \cup {NoSlot}]
        /\ input' \in [Frame -> InputType]
    BY <1>0, <2>1, LeaveDrainType
  <2> QED
    BY <1>0, <2>1, <2>2
    DEF MapDone, TypeOK, InputType, showVars, guardVars, errorVars
<1>2. CASE ~destroyed
  <2> DEFINE bytes == buf[slotOf[f]].frame
             key(crop) == <<ContentOf(bytes), input[f].form, crop>>
             run(crop) == IF key(crop) # still.key THEN 1
                          ELSE IF still.run < HoldAfter THEN still.run + 1 ELSE HoldAfter
  <2>1. PICK crop \in BOOLEAN :
          /\ still' = [key |-> key(crop), run |-> run(crop)]
          /\ \/ LeaveDrain(f) /\ staleSkips' \in {staleSkips, staleSkips + 1}
                /\ (CountError \/ UNCHANGED errorVars)
             \/ /\ stage' = [stage EXCEPT ![f] = "inferring"]
                /\ input' = [input EXCEPT ![f] =
                     [form |-> IF runner = "none" THEN "session" ELSE input[f].form,
                      crop |-> crop, bytes |-> bytes]]
                /\ UNCHANGED <<busy, slotOf, staleSkips, errorVars>>
    BY <1>2 DEF MapDone
  <2>2. run(crop) \in 0..HoldAfter
    <3>1. still.run \in 0..HoldAfter /\ HoldAfter \in Nat \ {0}
      BY <1>0, PipelineAssumption DEF TypeOK
    <3> HIDE DEF key
    <3> QED BY <3>1
  <2>3. still'.run \in 0..HoldAfter
    BY <2>1, <2>2
  <2>4. buf' \in [Slot -> BufType]
    <3>1. buf' = [buf EXCEPT ![slotOf[f]].map = "unmapped"]
      BY <1>2 DEF MapDone
    <3> QED BY <1>0, <3>1, BufMapUpdate
  <2>5. bytes \in 0..MaxFrame /\ input[f].form \in {"none", "planar", "rgba", "session"}
    BY <1>0 DEF BufType, InputType
  <2>6. [form |-> IF runner = "none" THEN "session" ELSE input[f].form,
         crop |-> crop, bytes |-> bytes] \in InputType
    BY <2>5 DEF InputType
  <2>7. /\ busy' \subseteq Slot
        /\ stage' \in [Frame -> Stage]
        /\ slotOf' \in [Frame -> Slot \cup {NoSlot}]
        /\ input' \in [Frame -> InputType]
    <3>1. CASE LeaveDrain(f)
      BY <1>0, <3>1, LeaveDrainType
    <3>2. CASE ~LeaveDrain(f)
      <4>1. /\ stage' = [stage EXCEPT ![f] = "inferring"]
            /\ input' = [input EXCEPT ![f] =
                 [form |-> IF runner = "none" THEN "session" ELSE input[f].form,
                  crop |-> crop, bytes |-> bytes]]
            /\ UNCHANGED <<busy, slotOf>>
        BY <2>1, <3>2
      <4>2. input' \in [Frame -> InputType]
        BY <1>0, <2>6, <4>1
      <4>3. stage' \in [Frame -> Stage]
        BY <1>0, <4>1 DEF TypeOK, Stage
      <4> QED BY <1>0, <4>1, <4>2, <4>3 DEF TypeOK
    <3> QED BY <3>1, <3>2
  <2>8. errors' \in 0..FatalFailures /\ fatal' \in BOOLEAN
    <3>1. CASE CountError
      BY <1>0, <3>1, CountErrorType
    <3>2. CASE UNCHANGED errorVars
      BY <1>0, <3>2 DEF TypeOK, errorVars
    <3> QED BY <2>1, <3>1, <3>2 DEF errorVars
  <2>9. staleSkips' \in Nat
    <3>1. staleSkips' \in {staleSkips, staleSkips + 1}
      BY <2>1
    <3> QED BY <1>0, <3>1 DEF TypeOK
  <2> QED
    BY <1>0, <2>3, <2>4, <2>7, <2>8, <2>9
    DEF MapDone, TypeOK, BufType, InputType, showVars, guardVars
<1> QED BY <1>1, <1>2

LEMMA TypeMapFail == ASSUME TypeInv, NEW f \in Frame, MapFail(f) PROVE TypeOK'
<1>0. TypeOK /\ slotOf[f] \in Slot /\ buf \in [Slot -> BufType]
  BY DEF TypeInv, JobsHold, MapFail, Holding, TypeOK, BufType
<1>1. buf' \in [Slot -> BufType]
  <2>1. buf' \in {buf, [buf EXCEPT ![slotOf[f]].map = "unmapped"]}
    BY DEF MapFail
  <2>2. [buf EXCEPT ![slotOf[f]].map = "unmapped"] \in [Slot -> BufType]
    BY <1>0, BufMapUpdate
  <2> QED BY <1>0, <2>1, <2>2
<1>2. LeaveDrain(f) /\ CountError
  BY DEF MapFail
<1> QED
  BY <1>0, <1>1, <1>2, LeaveDrainType, CountErrorType
  DEF MapFail, TypeOK, BufType, InputType, showVars, guardVars, countVars

LEMMA TypeLateMap == ASSUME TypeOK, NEW s \in Slot, LateMap(s) PROVE TypeOK'
<1>1. buf \in [Slot -> BufType]
  BY DEF TypeOK, BufType
<1>2. buf' \in [Slot -> BufType]
  BY <1>1, BufMapUpdate DEF LateMap
<1> QED
  BY <1>2 DEF LateMap, TypeOK, BufType, jobVars, showVars, guardVars, errorVars, countVars

LEMMA TypeInferOk == ASSUME TypeInv, NEW f \in Frame, InferOk(f) PROVE TypeOK'
<1>0. TypeOK /\ LeaveDrain(f)
  BY DEF TypeInv, InferOk
<1>1. f \in -1..MaxFrame /\ f \in 0..MaxFrame
  BY SlotConstants
<1>2. watermark' \in -1..MaxFrame /\ dropped' \in Nat
  <2>1. watermark' \in {watermark, f} /\ dropped' \in {dropped, dropped + 1}
    BY DEF InferOk, showVars
  <2>2. watermark' \in -1..MaxFrame
    BY <1>0, <1>1, <2>1 DEF TypeOK
  <2>3. dropped' \in Nat
    BY <1>0, <2>1 DEF TypeOK
  <2> QED BY <2>2, <2>3
<1>3. canvas' \in [frame : 0..MaxFrame, bytes : 0..MaxFrame]
  <2>1. canvas' \in {canvas, [frame |-> f, bytes |-> input[f].bytes]}
    BY DEF InferOk, showVars
  <2>2. input[f].bytes \in 0..MaxFrame
    BY <1>0 DEF TypeOK
  <2> QED BY <1>0, <1>1, <2>1, <2>2 DEF TypeOK
<1>4. landed' \in BOOLEAN
  <2>1. landed' = landed \/ landed' = TRUE
    BY DEF InferOk, showVars
  <2> QED BY <1>0, <2>1 DEF TypeOK
<1>5. cropSkips' \in 0..FatalFailures
  <2>1. cropSkips' \in {cropSkips, 0, IF cropSkips + 1 < FatalFailures THEN cropSkips + 1
                                                                       ELSE FatalFailures}
    BY DEF InferOk, showVars
  <2> QED BY <1>0, <2>1, PipelineAssumption DEF TypeOK
<1>6. errors' \in 0..FatalFailures /\ fatal' \in BOOLEAN
  <2>1. CountError \/ UNCHANGED errorVars
    BY DEF InferOk
  <2> QED BY <1>0, <2>1, CountErrorType DEF TypeOK, errorVars
<1>7. timeouts' \in 0..MaxTimeouts
  <2>1. timeouts' \in {timeouts, 0}
    BY DEF InferOk
  <2> QED BY <1>0, <2>1, PipelineAssumption DEF TypeOK
<1> QED
  BY <1>0, <1>2, <1>3, <1>4, <1>5, <1>6, <1>7, LeaveDrainType DEF InferOk, TypeOK, InputType

LEMMA TypeInferBad == ASSUME TypeInv, NEW f \in Frame, InferBad(f) PROVE TypeOK'
<1>0. TypeOK /\ LeaveDrain(f) /\ CountError
  BY DEF TypeInv, InferBad
<1>1. timeouts' \in 0..MaxTimeouts
  <2>1. timeouts' \in {timeouts, 0}
    BY DEF InferBad
  <2> QED BY <1>0, <2>1, PipelineAssumption DEF TypeOK
<1> QED
  BY <1>0, <1>1, LeaveDrainType, CountErrorType
  DEF InferBad, TypeOK, InputType, showVars, countVars

LEMMA TypeRunnerFail == ASSUME TypeInv, NEW f \in Frame, RunnerFail(f) PROVE TypeOK'
<1>0. TypeOK
  BY DEF TypeInv
<1>1. timeouts' \in 0..MaxTimeouts
  <2>1. timeouts' \in {timeouts + 1, MaxTimeouts} /\ (timeouts' = timeouts + 1 =>
          timeouts + 1 < MaxTimeouts \/ timeouts' = MaxTimeouts)
    BY DEF RunnerFail
  <2> QED BY <1>0, <2>1, PipelineAssumption DEF TypeOK
<1>2. CASE CountError /\ LeaveDrain(f) /\ UNCHANGED runner
  BY <1>0, <1>1, <1>2, LeaveDrainType, CountErrorType
  DEF RunnerFail, TypeOK, InputType, showVars, countVars
<1>3. CASE /\ runner' = "none"
           /\ stage' = [stage EXCEPT ![f] = "burying"]
           /\ UNCHANGED <<errorVars, busy, slotOf, input>>
  BY <1>0, <1>1, <1>3
  DEF RunnerFail, TypeOK, Stage, showVars, countVars, errorVars
<1> QED BY <1>2, <1>3 DEF RunnerFail

LEMMA TypeBuried == ASSUME TypeInv, NEW f \in Frame, Buried(f) PROVE TypeOK'
<1>0. TypeOK /\ LeaveDrain(f) /\ CountError
  BY DEF TypeInv, Buried
<1> QED
  BY <1>0, LeaveDrainType, CountErrorType
  DEF Buried, TypeOK, InputType, showVars, guardVars, countVars

LEMMA TypeComplete == ASSUME TypeInv, NEW f \in Frame, Complete(f) PROVE TypeOK'
<1>1. TypeOK /\ sched \in SchedType
  BY DEF TypeInv, TypeOK, SchedType
<1>2. sched' \in SchedType
  BY <1>1, MarkCompletedType DEF Complete
<1>3. stage' \in [Frame -> Stage]
  BY <1>1 DEF Complete, TypeOK, Stage
<1> QED
  BY <1>1, <1>2, <1>3
  DEF Complete, TypeOK, SchedType, slotVars, showVars, guardVars, errorVars, countVars

LEMMA LeaveDrainHolds ==
  ASSUME TypeInv, NEW f \in Frame, LeaveDrain(f)
  PROVE  JobsHold'
BY DEF TypeInv, TypeOK, JobsHold, LeaveDrain, Holding

\* The stage of a job and the slot it owns change together.
LEMMA JobsHoldStep == TypeInv /\ [Next]_vars => JobsHold'
<1> SUFFICES ASSUME TypeInv, [Next]_vars PROVE JobsHold'
  OBVIOUS
<1>1. CASE UNCHANGED jobVars
  BY <1>1 DEF TypeInv, JobsHold, jobVars
<1>2. CASE WorkDone
  <2>1. Head(queue).frame \in Frame /\ Head(queue).slot \in Slot
    <3>1. queue \in Seq(Claim) /\ queue # <<>>
      BY <1>2 DEF WorkDone, TypeInv, TypeOK
    <3>2. Head(queue) \in Claim
      BY <3>1, HeadTailProperties
    <3> QED BY <3>2 DEF Claim
  <2>2. \/ /\ stage' = [stage EXCEPT ![Head(queue).frame] = "queued"]
           /\ slotOf' = [slotOf EXCEPT ![Head(queue).frame] = Head(queue).slot]
        \/ UNCHANGED <<stage, slotOf>>
    BY <1>2 DEF WorkDone
  <2>3. stage \in [Frame -> Stage] /\ slotOf \in [Frame -> Slot \cup {NoSlot}] /\ JobsHold
    BY DEF TypeInv, TypeOK
  <2>4. Head(queue).slot # NoSlot
    BY <2>1, SlotConstants
  <2> QED BY <2>1, <2>2, <2>3, <2>4 DEF JobsHold, Holding
<1>3. \A f \in Frame : LeaveDrain(f) => JobsHold'
  BY LeaveDrainHolds
<1>4. ASSUME NEW f \in Frame, DrainStart(f) PROVE JobsHold'
  BY <1>3, <1>4 DEF DrainStart, TypeInv, TypeOK, JobsHold, Holding
<1>5. ASSUME NEW f \in Frame, MapDone(f) PROVE JobsHold'
  <2>1. \/ LeaveDrain(f)
        \/ stage' = [stage EXCEPT ![f] = "inferring"] /\ slotOf' = slotOf
    BY <1>5 DEF MapDone
  <2> QED BY <1>3, <1>5, <2>1 DEF MapDone, TypeInv, TypeOK, JobsHold, Holding
<1>6. ASSUME NEW f \in Frame, RunnerFail(f) PROVE JobsHold'
  BY <1>3, <1>6 DEF RunnerFail, TypeInv, TypeOK, JobsHold, Holding
<1>7. ASSUME NEW f \in Frame, Complete(f) PROVE JobsHold'
  BY <1>7 DEF Complete, TypeInv, TypeOK, JobsHold, Holding
<1>8. ASSUME NEW f \in Frame, MapFail(f) \/ InferOk(f) \/ InferBad(f) \/ Buried(f)
      PROVE  JobsHold'
  BY <1>3, <1>8 DEF MapFail, InferOk, InferBad, Buried
<1>9. CASE Pass \/ AfterSubmit \/ Destroy \/ UNCHANGED vars \/ \E s \in Slot : LateMap(s)
  BY <1>1, <1>9 DEF Pass, AfterSubmit, Destroy, LateMap, vars
<1> QED
  BY <1>2, <1>4, <1>5, <1>6, <1>7, <1>8, <1>9 DEF Next, TimedStep

LEMMA TypeStep == TypeInv /\ [Next]_vars => TypeOK'
<1> SUFFICES ASSUME TypeInv, [Next]_vars PROVE TypeOK'
  OBVIOUS
<1>1. CASE Pass \/ AfterSubmit \/ WorkDone \/ Destroy
  BY <1>1, TypePass, TypeAfterSubmit, TypeWorkDone, TypeDestroy DEF TypeInv
<1>2. CASE \E f \in Frame : TimedStep(f) \/ Buried(f)
  BY <1>2, TypeDrainStart, TypeMapDone, TypeMapFail, TypeInferOk, TypeInferBad, TypeRunnerFail,
     TypeComplete, TypeBuried DEF TimedStep
<1>3. CASE \E s \in Slot : LateMap(s)
  BY <1>3, TypeLateMap DEF TypeInv
<1>4. CASE UNCHANGED vars
  BY <1>4 DEF TypeInv, TypeOK, vars, slotVars, jobVars, showVars, guardVars, errorVars, countVars
<1> QED BY <1>1, <1>2, <1>3, <1>4 DEF Next

\* Every reachable state is well typed, for every value of the constants: the ring
\* cursor stays a slot, every counter stays in its range, and the job that owns a
\* slot is one that is still draining.
THEOREM TypeCorrect == Spec => []TypeOK
<1>1. Init => TypeInv
  BY TypeInit DEF Init, TypeInv, JobsHold, Holding
<1>2. TypeInv /\ [Next]_vars => TypeInv'
  BY TypeStep, JobsHoldStep DEF TypeInv
<1>3. TypeInv => TypeOK
  BY DEF TypeInv
<1> QED BY <1>1, <1>2, <1>3, PTL DEF Spec
-----------------------------------------------------------------------------
(***************************************************************************)
(* Slot ownership. SlotOwnership is not inductive: that a completed copy   *)
(* becomes a job without disturbing another job needs its frame to be one  *)
(* no job was started for, which is FreshFrames.                           *)
(***************************************************************************)
SlotsOf(q) == {q[i].slot : i \in DOMAIN q}

\* A frame waits in one place at most before its job starts.
FreshFrames ==
  /\ \A f \in Frame : f > frameCounter => stage[f] = "none"
  /\ pending # NoClaim => stage[pending.frame] = "none" /\ pending.frame <= frameCounter
  /\ \A i \in DOMAIN queue : stage[queue[i].frame] = "none" /\ queue[i].frame <= frameCounter
  /\ \A i, j \in DOMAIN queue : queue[i].frame = queue[j].frame => i = j
  /\ pending # NoClaim => \A i \in DOMAIN queue : queue[i].frame # pending.frame

\* The texture holds a frame only once a result landed, and never a frame the
\* watermark has not reached.
ShownInv ==
  /\ canvas.frame # 0 => landed
  /\ ~destroyed => canvas.frame = 0 \/ canvas.frame <= watermark

IInv == TypeInv /\ FreshFrames /\ SlotOwnership /\ InFlightExact /\ ShownInv

LEMMA SlotsOfAppend ==
  ASSUME NEW q \in Seq(Claim), NEW c \in Claim
  PROVE  SlotsOf(Append(q, c)) = SlotsOf(q) \cup {c.slot}
<1>1. /\ Append(q, c) \in Seq(Claim) /\ Len(Append(q, c)) = Len(q) + 1
      /\ \A i \in 1..Len(q) : Append(q, c)[i] = q[i]
      /\ Append(q, c)[Len(q) + 1] = c
  BY AppendProperties
<1>2. /\ DOMAIN q = 1..Len(q) /\ Len(q) \in Nat
      /\ DOMAIN Append(q, c) = 1..(Len(q) + 1)
  BY <1>1, LenProperties
<1>3. \A i \in 1..(Len(q) + 1) : i \in 1..Len(q) \/ i = Len(q) + 1
  BY <1>2
<1>4. \A i \in 1..Len(q) : i \in 1..(Len(q) + 1)
  BY <1>2
<1>5. Len(q) + 1 \in 1..(Len(q) + 1)
  BY <1>2
<1> QED BY <1>1, <1>2, <1>3, <1>4, <1>5 DEF SlotsOf

LEMMA SlotsOfTail ==
  ASSUME NEW q \in Seq(Claim), q # <<>>,
         \A i, j \in DOMAIN q : q[i].slot = q[j].slot => i = j
  PROVE  /\ SlotsOf(Tail(q)) = SlotsOf(q) \ {Head(q).slot}
         /\ Head(q).slot \in SlotsOf(q)
<1>1. /\ Tail(q) \in Seq(Claim) /\ Len(Tail(q)) = Len(q) - 1
      /\ \A i \in 1..Len(Tail(q)) : Tail(q)[i] = q[i + 1]
  BY HeadTailProperties
<1>2. /\ DOMAIN q = 1..Len(q) /\ Len(q) \in Nat \ {0} /\ Head(q) = q[1]
      /\ DOMAIN Tail(q) = 1..(Len(q) - 1)
  BY <1>1, LenProperties, EmptySeq
<1>3. 1 \in DOMAIN q /\ \A i \in 1..(Len(q) - 1) : i + 1 \in DOMAIN q /\ i + 1 # 1
  BY <1>2
<1>4. \A j \in DOMAIN q : j # 1 => j - 1 \in 1..(Len(q) - 1) /\ Tail(q)[j - 1] = q[j]
  BY <1>1, <1>2
<1>5. SlotsOf(Tail(q)) \subseteq SlotsOf(q) \ {Head(q).slot}
  BY <1>1, <1>2, <1>3 DEF SlotsOf
<1>6. SlotsOf(q) \ {Head(q).slot} \subseteq SlotsOf(Tail(q))
  BY <1>1, <1>2, <1>3, <1>4 DEF SlotsOf
<1> QED BY <1>2, <1>3, <1>5, <1>6 DEF SlotsOf

\* A drain that leaves gives back its own slot and nobody else's.
LEMMA LeaveDrainOwnership ==
  ASSUME IInv, NEW f \in Frame, stage[f] \in Holding, LeaveDrain(f),
         UNCHANGED <<pending, queue>>
  PROVE  SlotOwnership'
<1>1. /\ slotOf \in [Frame -> Slot \cup {NoSlot}] /\ slotOf[f] # NoSlot /\ SlotOwnership
  BY DEF IInv, TypeInv, TypeOK, JobsHold
<1>2. slotOf' = [slotOf EXCEPT ![f] = NoSlot] /\ busy' = busy \ {slotOf[f]}
  BY DEF LeaveDrain
<1>3. JobSlots' = JobSlots \ {slotOf[f]} /\ slotOf[f] \in JobSlots
  BY <1>1, <1>2 DEF JobSlots, SlotOwnership
<1>4. PendingSlots' = PendingSlots /\ QueueSlots' = QueueSlots
  BY DEF PendingSlots, QueueSlots
<1>5. \A g, h \in Frame : slotOf'[g] # NoSlot /\ slotOf'[g] = slotOf'[h] => g = h
  BY <1>1, <1>2 DEF SlotOwnership
<1>6. \A i, j \in DOMAIN queue' : queue'[i].slot = queue'[j].slot => i = j
  BY <1>1 DEF SlotOwnership
<1> QED BY <1>1, <1>2, <1>3, <1>4, <1>5, <1>6 DEF SlotOwnership

LEMMA OwnershipPass == IInv /\ Pass => SlotOwnership'
<1> SUFFICES ASSUME IInv, Pass PROVE SlotOwnership'
  OBVIOUS
<1> DEFINE used == IF pending # NoClaim THEN busy \ {pending.slot} ELSE busy
<1>1. /\ TypeOK /\ SlotOwnership
      /\ JobSlots' = JobSlots /\ QueueSlots' = QueueSlots
  BY DEF IInv, TypeInv, Pass, jobVars, JobSlots, QueueSlots
<1>2. used = QueueSlots \cup JobSlots /\ used \subseteq Slot
  BY <1>1 DEF SlotOwnership, PendingSlots, TypeOK
<1>3. \/ busy' = used /\ pending' = NoClaim
      \/ /\ used # Slot
         /\ busy' = used \cup {FirstFree(used)}
         /\ pending' = [slot |-> FirstFree(used), frame |-> frameCounter + 1]
  BY DEF Pass
<1>4. used # Slot => FirstFree(used) \in Slot \ used
  BY <1>1, <1>2, FirstFreeIsFree DEF TypeOK
<1>5. /\ busy' = PendingSlots' \cup QueueSlots \cup JobSlots
      /\ PendingSlots' \cap used = {}
  <2>1. CASE pending' = NoClaim /\ busy' = used
    BY <1>2, <2>1 DEF PendingSlots
  <2>2. CASE /\ used # Slot
             /\ busy' = used \cup {FirstFree(used)}
             /\ pending' = [slot |-> FirstFree(used), frame |-> frameCounter + 1]
    <3>1. FirstFree(used) # NoSlot /\ FirstFree(used) \notin used
      BY <1>4, <2>2, SlotConstants
    <3>2. pending'.slot = FirstFree(used) /\ NoClaim.slot = NoSlot
      BY <2>2 DEF NoClaim
    <3>3. PendingSlots' = {FirstFree(used)}
      BY <3>1, <3>2 DEF PendingSlots
    <3> HIDE DEF used
    <3> QED BY <1>2, <2>2, <3>1, <3>3
  <2> QED BY <1>3, <2>1, <2>2
<1>6. \A i, j \in DOMAIN queue' : queue'[i].slot = queue'[j].slot => i = j
  BY <1>1 DEF SlotOwnership, Pass
<1>7. \A f, g \in Frame : slotOf'[f] # NoSlot /\ slotOf'[f] = slotOf'[g] => f = g
  BY <1>1 DEF SlotOwnership, Pass, jobVars
<1> HIDE DEF used
<1> QED BY <1>1, <1>2, <1>5, <1>6, <1>7 DEF SlotOwnership

LEMMA OwnershipAfterSubmit == IInv /\ AfterSubmit => SlotOwnership'
<1> SUFFICES ASSUME IInv, AfterSubmit PROVE SlotOwnership'
  OBVIOUS
<1>1. /\ TypeOK /\ SlotOwnership /\ pending \in Claim
      /\ JobSlots' = JobSlots /\ UNCHANGED slotOf
      /\ PendingSlots = {pending.slot} /\ PendingSlots' = {}
  BY DEF IInv, TypeInv, TypeOK, AfterSubmit, jobVars, JobSlots, PendingSlots
<1>2. CASE busy' = busy \ {pending.slot} /\ queue' = queue
  <2>1. QueueSlots' = QueueSlots
    BY <1>2 DEF QueueSlots
  <2> QED BY <1>1, <1>2, <2>1 DEF SlotOwnership
<1>3. CASE busy' = busy /\ queue' = Append(queue, pending)
  <2>1. QueueSlots' = QueueSlots \cup {pending.slot}
    <3>1. SlotsOf(Append(queue, pending)) = SlotsOf(queue) \cup {pending.slot}
      BY <1>1, SlotsOfAppend DEF TypeOK
    <3> QED BY <1>3, <3>1 DEF QueueSlots, SlotsOf
  <2>2. /\ queue \in Seq(Claim) /\ DOMAIN queue = 1..Len(queue) /\ Len(queue) \in Nat
        /\ queue' \in Seq(Claim) /\ Len(queue') = Len(queue) + 1
        /\ \A i \in 1..Len(queue) : queue'[i] = queue[i]
        /\ queue'[Len(queue) + 1] = pending
    BY <1>1, <1>3, AppendProperties, LenProperties DEF TypeOK
  <2>3. DOMAIN queue' = 1..(Len(queue) + 1)
    BY <2>2, LenProperties
  <2>4. \A i \in 1..Len(queue) : queue[i].slot # pending.slot
    BY <1>1, <2>2 DEF SlotOwnership, QueueSlots
  <2>5. \A i \in DOMAIN queue' : i \in DOMAIN queue \/ i = Len(queue) + 1
    BY <2>2, <2>3
  <2>6. \A i, j \in DOMAIN queue : queue[i].slot = queue[j].slot => i = j
    BY <1>1 DEF SlotOwnership
  <2>7. \A i, j \in DOMAIN queue' : queue'[i].slot = queue'[j].slot => i = j
    BY <2>2, <2>4, <2>5, <2>6
  <2> QED BY <1>1, <1>3, <2>1, <2>7 DEF SlotOwnership
<1> QED BY <1>2, <1>3 DEF AfterSubmit

LEMMA OwnershipWorkDone == IInv /\ WorkDone => SlotOwnership'
<1> SUFFICES ASSUME IInv, WorkDone PROVE SlotOwnership'
  OBVIOUS
<1> DEFINE h == Head(queue)
<1>1. /\ TypeOK /\ SlotOwnership /\ JobsHold /\ queue \in Seq(Claim) /\ queue # <<>>
      /\ PendingSlots' = PendingSlots /\ queue' = Tail(queue)
  BY DEF IInv, TypeInv, TypeOK, WorkDone, PendingSlots
<1>2. h \in Claim
  BY <1>1, HeadTailProperties
<1>3. h.frame \in Frame /\ h.slot \in Slot
  BY <1>2 DEF Claim
<1>4. QueueSlots' = QueueSlots \ {h.slot} /\ h.slot \in QueueSlots
  <2>1. \A i, j \in DOMAIN queue : queue[i].slot = queue[j].slot => i = j
    BY <1>1 DEF SlotOwnership
  <2>2. SlotsOf(Tail(queue)) = SlotsOf(queue) \ {h.slot} /\ h.slot \in SlotsOf(queue)
    BY <1>1, <2>1, SlotsOfTail
  <2> QED BY <1>1, <2>2 DEF QueueSlots, SlotsOf
<1>5. \A i, j \in DOMAIN queue' : queue'[i].slot = queue'[j].slot => i = j
  <2>1. /\ Tail(queue) \in Seq(Claim) /\ Len(Tail(queue)) = Len(queue) - 1
        /\ \A i \in 1..Len(Tail(queue)) : Tail(queue)[i] = queue[i + 1]
    BY <1>1, HeadTailProperties
  <2>2. /\ DOMAIN queue = 1..Len(queue) /\ Len(queue) \in Nat
        /\ DOMAIN Tail(queue) = 1..(Len(queue) - 1)
    BY <1>1, <2>1, LenProperties
  <2>3. \A i \in DOMAIN Tail(queue) : i + 1 \in DOMAIN queue /\ Tail(queue)[i] = queue[i + 1]
                                     /\ i \in Int
    BY <2>1, <2>2
  <2>4. \A i, j \in DOMAIN queue : queue[i].slot = queue[j].slot => i = j
    BY <1>1 DEF SlotOwnership
  <2>5. \A i, j \in DOMAIN Tail(queue) : i + 1 = j + 1 => i = j
    BY <2>3
  <2> QED BY <1>1, <2>3, <2>4, <2>5
<1>6. CASE busy' = busy \ {h.slot} /\ UNCHANGED slotOf
  <2>1. JobSlots' = JobSlots
    BY <1>6 DEF JobSlots
  <2> QED BY <1>1, <1>4, <1>5, <1>6, <2>1 DEF SlotOwnership
<1>7. CASE UNCHANGED busy /\ slotOf' = [slotOf EXCEPT ![h.frame] = h.slot]
  <2>1. 1 \in DOMAIN queue /\ queue[1] = h
    BY <1>1, LenProperties, EmptySeq
  <2>2. stage[h.frame] = "none"
    BY <2>1 DEF IInv, FreshFrames
  <2>3. slotOf[h.frame] = NoSlot /\ slotOf \in [Frame -> Slot \cup {NoSlot}] /\ h.slot # NoSlot
    BY <1>1, <1>3, <2>2, SlotConstants DEF JobsHold, Holding, TypeOK
  <2>4. JobSlots' = JobSlots \cup {h.slot}
    BY <1>3, <1>7, <2>3 DEF JobSlots
  <2>5. h.slot \notin JobSlots /\ h.slot \notin PendingSlots
    BY <1>1, <1>4 DEF SlotOwnership
  <2>6. \A f, g \in Frame : slotOf'[f] # NoSlot /\ slotOf'[f] = slotOf'[g] => f = g
    BY <1>1, <1>3, <1>7, <2>3, <2>5 DEF SlotOwnership, JobSlots
  <2> HIDE DEF h
  <2> QED BY <1>1, <1>4, <1>5, <1>7, <2>4, <2>5, <2>6 DEF SlotOwnership
<1> QED BY <1>6, <1>7 DEF WorkDone

LEMMA OwnershipDrain ==
  ASSUME IInv, NEW f \in Frame, TimedStep(f) \/ Buried(f)
  PROVE  SlotOwnership'
<1>1. UNCHANGED <<pending, queue>>
  BY DEF TimedStep, DrainStart, MapDone, MapFail, InferOk, InferBad, RunnerFail, Complete,
         Buried, slotVars
<1>2. \/ stage[f] \in Holding /\ LeaveDrain(f)
      \/ UNCHANGED <<busy, slotOf>>
  BY DEF TimedStep, DrainStart, MapDone, MapFail, InferOk, InferBad, RunnerFail, Complete,
         Buried, Holding, slotVars
<1>3. CASE UNCHANGED <<busy, slotOf>>
  BY <1>1, <1>3 DEF IInv, SlotOwnership, PendingSlots, QueueSlots, JobSlots
<1> QED BY <1>1, <1>2, <1>3, LeaveDrainOwnership

LEMMA OwnershipStep == IInv /\ [Next]_vars => SlotOwnership'
<1> SUFFICES ASSUME IInv, [Next]_vars PROVE SlotOwnership'
  OBVIOUS
<1>1. CASE Destroy \/ UNCHANGED vars \/ \E s \in Slot : LateMap(s)
  BY <1>1 DEF Destroy, LateMap, vars, slotVars, jobVars, IInv, SlotOwnership, PendingSlots,
              QueueSlots, JobSlots
<1> QED
  BY <1>1, OwnershipPass, OwnershipAfterSubmit, OwnershipWorkDone, OwnershipDrain DEF Next

-----------------------------------------------------------------------------
(***************************************************************************)
(* The other conjuncts of the invariant.                                   *)
(***************************************************************************)
LEMMA StagesInDrain ==
  ASSUME TypeOK, NEW f \in Frame, TimedStep(f) \/ Buried(f)
  PROVE  /\ stage[f] \in Live
         /\ \E st \in Stage \ {"none"} :
              /\ stage' = [stage EXCEPT ![f] = st]
              /\ stage[f] # "leaving" => st \in Live
<1> USE DEF Live, Holding, Stage
<1>1. CASE LeaveDrain(f) /\ stage[f] \in Holding
  BY <1>1 DEF LeaveDrain
<1>2. CASE DrainStart(f)
  BY <1>1, <1>2 DEF DrainStart
<1>3. CASE MapDone(f)
  BY <1>1, <1>3 DEF MapDone
<1>4. CASE RunnerFail(f)
  BY <1>1, <1>4 DEF RunnerFail
<1>5. CASE MapFail(f) \/ InferOk(f) \/ InferBad(f) \/ Buried(f)
  BY <1>1, <1>5 DEF MapFail, InferOk, InferBad, Buried
<1>6. CASE Complete(f)
  BY <1>6 DEF Complete
<1> QED BY <1>2, <1>3, <1>4, <1>5, <1>6 DEF TimedStep

LEMMA FreshPass == IInv /\ Pass => FreshFrames'
<1> SUFFICES ASSUME IInv, Pass PROVE FreshFrames'
  OBVIOUS
<1>1. /\ frameCounter \in Nat /\ frameCounter' = frameCounter + 1
      /\ frameCounter + 1 \in Frame
      /\ UNCHANGED <<stage, queue>> /\ FreshFrames
  BY SlotConstants DEF IInv, TypeInv, TypeOK, Pass, jobVars, Frame
<1>2. pending' = NoClaim \/ pending'.frame = frameCounter + 1
  BY DEF Pass
<1>3. stage[frameCounter + 1] = "none"
  BY <1>1 DEF FreshFrames
<1>4. \A i \in DOMAIN queue : queue[i].frame <= frameCounter /\ queue[i].frame \in Nat
  <2>1. queue \in Seq(Claim)
    BY DEF IInv, TypeInv, TypeOK
  <2>2. \A i \in DOMAIN queue : queue[i] \in Claim
    BY <2>1, ElementOfSeq, LenProperties
  <2>3. \A i \in DOMAIN queue : queue[i].frame \in Frame
    BY <2>2 DEF Claim
  <2> QED BY <1>1, <2>3, SlotConstants DEF FreshFrames
<1>5. \A f \in Frame : f \in Nat
  BY SlotConstants
<1> QED BY <1>1, <1>2, <1>3, <1>4, <1>5 DEF FreshFrames

LEMMA FreshAfterSubmit == IInv /\ AfterSubmit => FreshFrames'
<1> SUFFICES ASSUME IInv, AfterSubmit PROVE FreshFrames'
  OBVIOUS
<1>1. /\ pending \in Claim /\ pending' = NoClaim /\ queue \in Seq(Claim)
      /\ UNCHANGED <<stage, frameCounter>> /\ FreshFrames
  BY DEF IInv, TypeInv, TypeOK, AfterSubmit, jobVars
<1>2. CASE queue' = queue
  BY <1>1, <1>2 DEF FreshFrames
<1>3. CASE queue' = Append(queue, pending)
  <2>1. /\ DOMAIN queue = 1..Len(queue) /\ Len(queue) \in Nat
        /\ queue' \in Seq(Claim) /\ Len(queue') = Len(queue) + 1
        /\ \A i \in 1..Len(queue) : queue'[i] = queue[i]
        /\ queue'[Len(queue) + 1] = pending
    BY <1>1, <1>3, AppendProperties, LenProperties
  <2>2. DOMAIN queue' = 1..(Len(queue) + 1)
    BY <2>1, LenProperties
  <2>3. \A i \in DOMAIN queue' : i \in DOMAIN queue \/ i = Len(queue) + 1
    BY <2>1, <2>2
  <2>4. pending # NoClaim
    BY <1>1, SlotConstants
  <2> QED BY <1>1, <2>1, <2>3, <2>4 DEF FreshFrames
<1> QED BY <1>2, <1>3 DEF AfterSubmit

LEMMA FreshWorkDone == IInv /\ WorkDone => FreshFrames'
<1> SUFFICES ASSUME IInv, WorkDone PROVE FreshFrames'
  OBVIOUS
<1> DEFINE h == Head(queue)
<1>1. /\ queue \in Seq(Claim) /\ queue # <<>> /\ queue' = Tail(queue)
      /\ UNCHANGED <<pending, frameCounter>> /\ FreshFrames
      /\ stage \in [Frame -> Stage]
  BY DEF IInv, TypeInv, TypeOK, WorkDone
<1>2. 1 \in DOMAIN queue /\ queue[1] = h /\ h \in Claim
  BY <1>1, LenProperties, EmptySeq, HeadTailProperties
<1>3. stage' = stage \/ stage' = [stage EXCEPT ![h.frame] = "queued"]
  BY DEF WorkDone
<1>4. \A i \in DOMAIN queue' : /\ i + 1 \in DOMAIN queue /\ i + 1 # 1 /\ i \in Int
                              /\ queue'[i] = queue[i + 1]
  <2>1. /\ Tail(queue) \in Seq(Claim) /\ Len(Tail(queue)) = Len(queue) - 1
        /\ \A i \in 1..Len(Tail(queue)) : Tail(queue)[i] = queue[i + 1]
    BY <1>1, HeadTailProperties
  <2>2. /\ DOMAIN queue = 1..Len(queue) /\ Len(queue) \in Nat
        /\ DOMAIN Tail(queue) = 1..(Len(queue) - 1)
    BY <1>1, <2>1, LenProperties
  <2> QED BY <1>1, <2>1, <2>2
<1>5. h.frame \in Frame /\ h.frame <= frameCounter
  BY <1>1, <1>2 DEF FreshFrames, Claim
<1>6. \A i \in DOMAIN queue' : queue'[i].frame # h.frame
  BY <1>1, <1>2, <1>4 DEF FreshFrames
<1>7. pending # NoClaim => pending.frame # h.frame
  BY <1>1, <1>2 DEF FreshFrames
<1>8. \A i, j \in DOMAIN queue' : queue'[i].frame = queue'[j].frame => i = j
  <2>1. \A i, j \in DOMAIN queue' : i + 1 = j + 1 => i = j
    BY <1>4
  <2> QED BY <1>1, <1>4, <2>1 DEF FreshFrames
<1>9. \A f \in Frame : f > frameCounter => f # h.frame
  BY <1>5, SlotConstants DEF IInv, TypeInv, TypeOK
<1>10. \A f \in Frame : f # h.frame => stage'[f] = stage[f]
  BY <1>1, <1>3, <1>5
<1>11. \A i \in DOMAIN queue' : queue'[i].frame \in Frame
  <2>1. \A i \in DOMAIN queue : queue[i] \in Claim
    BY <1>1, ElementOfSeq, LenProperties
  <2> QED BY <1>4, <2>1 DEF Claim
<1>12. pending # NoClaim => pending.frame \in Frame
  BY DEF IInv, TypeInv, TypeOK, Claim
<1> HIDE DEF h
<1> QED BY <1>1, <1>4, <1>5, <1>6, <1>7, <1>8, <1>9, <1>10, <1>11, <1>12 DEF FreshFrames

LEMMA FreshDrain ==
  ASSUME IInv, NEW f \in Frame, TimedStep(f) \/ Buried(f)
  PROVE  FreshFrames'
<1>1. UNCHANGED <<pending, queue, frameCounter>>
  BY DEF TimedStep, DrainStart, MapDone, MapFail, InferOk, InferBad, RunnerFail, Complete,
         Buried, slotVars
<1>2. /\ stage[f] # "none" /\ stage \in [Frame -> Stage]
      /\ \E st \in Stage : stage' = [stage EXCEPT ![f] = st]
  BY StagesInDrain DEF IInv, TypeInv, TypeOK, Live, Holding
<1>3. \A g \in Frame : stage[g] = "none" => stage'[g] = "none"
  BY <1>2
<1>4. \A i \in DOMAIN queue : queue[i].frame \in Frame
  <2>1. queue \in Seq(Claim)
    BY DEF IInv, TypeInv, TypeOK
  <2>2. \A i \in DOMAIN queue : queue[i] \in Claim
    BY <2>1, ElementOfSeq, LenProperties
  <2> QED BY <2>2 DEF Claim
<1>5. pending # NoClaim => pending.frame \in Frame
  BY DEF IInv, TypeInv, TypeOK, Claim
<1> QED BY <1>1, <1>3, <1>4, <1>5 DEF IInv, FreshFrames

LEMMA FreshStep == IInv /\ [Next]_vars => FreshFrames'
<1> SUFFICES ASSUME IInv, [Next]_vars PROVE FreshFrames'
  OBVIOUS
<1>1. CASE Destroy \/ UNCHANGED vars \/ \E s \in Slot : LateMap(s)
  BY <1>1 DEF Destroy, LateMap, vars, slotVars, jobVars, IInv, FreshFrames
<1> QED BY <1>1, FreshPass, FreshAfterSubmit, FreshWorkDone, FreshDrain DEF Next

LEMMA InFlightOfScheduler ==
  ASSUME NEW s \in SchedType, NEW f
  PROVE  /\ NoteSkipped(s, f).inFlight = s.inFlight
         /\ MarkStarted(s, f).inFlight = s.inFlight \cup {f}
         /\ MarkCompleted(s, f).inFlight = s.inFlight \ {f}
BY DEF SchedType, NoteSkipped, MarkStarted, MarkCompleted

LEMMA InFlightStep == IInv /\ [Next]_vars => InFlightExact'
<1> SUFFICES ASSUME IInv, [Next]_vars, ~destroyed' PROVE InFlightExact'
  BY DEF InFlightExact
<1>1. /\ sched \in SchedType /\ stage \in [Frame -> Stage] /\ TypeOK
      /\ (~destroyed => sched.inFlight = {f \in Frame : stage[f] \in Live})
  BY DEF IInv, TypeInv, TypeOK, SchedType, InFlightExact
<1>2. CASE Pass
  <2> DEFINE seen == IF pending # NoClaim THEN NoteSkipped(sched, pending.frame) ELSE sched
  <2>1. sched' = seen \/ sched' = NoteSkipped(seen, frameCounter + 1)
    BY <1>2 DEF Pass
  <2>2. seen \in SchedType /\ seen.inFlight = sched.inFlight
    BY <1>1, InFlightOfScheduler, NoteSkippedType DEF TypeOK, Claim
  <2>3. sched'.inFlight = sched.inFlight
    BY <2>1, <2>2, InFlightOfScheduler
  <2>4. ~destroyed /\ stage' = stage
    BY <1>2 DEF Pass, jobVars
  <2> QED BY <1>1, <2>3, <2>4 DEF InFlightExact
<1>3. CASE WorkDone
  <2> DEFINE f == Head(queue).frame
  <2>1. queue \in Seq(Claim) /\ queue # <<>> /\ ~destroyed
    BY <1>1, <1>3 DEF TypeOK, WorkDone
  <2>2. f \in Frame
    <3>1. Head(queue) \in Claim
      BY <2>1, HeadTailProperties
    <3> QED BY <3>1 DEF Claim
  <2>3. CASE sched' = MarkStarted(sched, f) /\ stage' = [stage EXCEPT ![f] = "queued"]
    <3>1. sched'.inFlight = sched.inFlight \cup {f}
      BY <1>1, <2>3, InFlightOfScheduler
    <3> QED BY <1>1, <2>1, <2>2, <2>3, <3>1 DEF InFlightExact, Live, Holding
  <2>4. CASE sched' = NoteSkipped(sched, f) /\ stage' = stage
    <3>1. sched'.inFlight = sched.inFlight
      BY <1>1, <2>4, InFlightOfScheduler
    <3> QED BY <1>1, <2>1, <2>4, <3>1 DEF InFlightExact
  <2> QED BY <1>3, <2>3, <2>4 DEF WorkDone
<1>4. ASSUME NEW f \in Frame, TimedStep(f) \/ Buried(f) PROVE InFlightExact'
  <2>1. ~destroyed
    BY <1>4 DEF TimedStep, DrainStart, MapDone, MapFail, InferOk, InferBad, RunnerFail,
                Complete, Buried
  <2>2. CASE Complete(f)
    <3>1. sched'.inFlight = sched.inFlight \ {f} /\ stage' = [stage EXCEPT ![f] = "done"]
      BY <1>1, <2>2, InFlightOfScheduler DEF Complete
    <3> QED BY <1>1, <2>1, <3>1 DEF InFlightExact, Live, Holding
  <2>3. CASE ~Complete(f)
    <3>1. sched' = sched /\ stage[f] # "leaving"
      BY <1>4, <2>3 DEF TimedStep, DrainStart, MapDone, MapFail, InferOk, InferBad, RunnerFail,
                        Buried
    <3>2. stage[f] \in Live /\ \E st \in Live : stage' = [stage EXCEPT ![f] = st]
      BY <1>1, <1>4, <3>1, StagesInDrain
    <3> QED BY <1>1, <2>1, <3>1, <3>2 DEF InFlightExact
  <2> QED BY <2>2, <2>3
<1>5. CASE AfterSubmit \/ UNCHANGED vars \/ \E s \in Slot : LateMap(s)
  BY <1>1, <1>5 DEF AfterSubmit, LateMap, vars, jobVars, InFlightExact
<1>6. CASE Destroy
  BY <1>6 DEF Destroy
<1> QED BY <1>2, <1>3, <1>4, <1>5, <1>6 DEF Next

LEMMA ShownStep == IInv /\ [Next]_vars => ShownInv'
<1> SUFFICES ASSUME IInv, [Next]_vars PROVE ShownInv'
  OBVIOUS
<1>1. ShownInv /\ canvas.frame \in 0..MaxFrame /\ watermark \in -1..MaxFrame
  BY DEF IInv, TypeInv, TypeOK
<1>2. CASE Pass
  <2>1. canvas'.frame = canvas.frame
    BY <1>1, <1>2 DEF Pass, ShownInv
  <2> QED BY <1>1, <1>2, <2>1 DEF Pass, ShownInv
<1>3. CASE Destroy
  BY <1>1, <1>3 DEF Destroy, ShownInv
<1>4. ASSUME NEW f \in Frame, InferOk(f) PROVE ShownInv'
  <2>1. f \in Nat /\ f <= f
    BY SlotConstants
  <2>2. \/ UNCHANGED <<watermark, canvas, landed>>
        \/ watermark' = f /\ canvas' = [frame |-> f, bytes |-> input[f].bytes] /\ landed' = TRUE
        \/ watermark' = f /\ ~Superseded(f) /\ UNCHANGED canvas /\ (landed => landed')
    BY <1>4 DEF InferOk, showVars
  <2>3. destroyed' = destroyed
    BY <1>4 DEF InferOk
  <2>4. CASE UNCHANGED <<watermark, canvas, landed>>
    BY <1>1, <2>3, <2>4 DEF ShownInv
  <2>5. CASE watermark' = f /\ canvas' = [frame |-> f, bytes |-> input[f].bytes] /\ landed' = TRUE
    BY <2>1, <2>5 DEF ShownInv
  <2>6. CASE watermark' = f /\ ~Superseded(f) /\ UNCHANGED canvas /\ (landed => landed')
    BY <1>1, <2>1, <2>3, <2>6 DEF ShownInv, Superseded
  <2> QED BY <2>2, <2>4, <2>5, <2>6
<1>5. ASSUME UNCHANGED <<canvas, watermark, landed, destroyed>> PROVE ShownInv'
  BY <1>1, <1>5 DEF ShownInv
<1> QED
  BY <1>2, <1>3, <1>4, <1>5
  DEF Next, TimedStep, AfterSubmit, WorkDone, DrainStart, MapDone, MapFail, LateMap, InferBad,
      RunnerFail, Buried, Complete, vars, showVars

LEMMA IInvInit == Init => IInv
<1> SUFFICES ASSUME Init PROVE IInv
  OBVIOUS
<1>1. TypeInv
  BY TypeInit DEF Init, TypeInv, JobsHold, Holding
<1>2. DOMAIN queue = {}
  BY DEF Init
<1>3. FreshFrames
  BY <1>2 DEF Init, FreshFrames
<1>4. SlotOwnership
  BY <1>2 DEF Init, SlotOwnership, PendingSlots, QueueSlots, JobSlots
<1>5. InFlightExact /\ ShownInv
  BY DEF Init, InFlightExact, NewScheduler, Live, Holding, ShownInv
<1> QED BY <1>1, <1>3, <1>4, <1>5 DEF IInv

LEMMA IInvStep == IInv /\ [Next]_vars => IInv'
<1>1. IInv /\ [Next]_vars => TypeInv'
  BY TypeStep, JobsHoldStep DEF IInv, TypeInv
<1> QED BY <1>1, OwnershipStep, FreshStep, InFlightStep, ShownStep DEF IInv

\* Whatever path a drain leaves by, every busy staging slot keeps exactly one owner,
\* for any number of slots and any depth.
THEOREM SlotsOwned == Spec => []SlotOwnership
<1>1. IInv => SlotOwnership
  BY DEF IInv
<1> QED BY <1>1, IInvInit, IInvStep, PTL DEF Spec

\* No drain keeps a depth slot for good and none gives one back early: the
\* scheduler's in-flight set is exactly the jobs started and not completed.
THEOREM InFlightCorrect == Spec => []InFlightExact
<1>1. IInv => InFlightExact
  BY DEF IInv
<1> QED BY <1>1, IInvInit, IInvStep, PTL DEF Spec

\* The pipeline implements FramePresentation: drains may finish in any order, yet
\* the texture only moves forward, through frames that arrived, while it lives.
THEOREM Refinement == Spec => PresentsInOrder
<1>1. Init => Presentation!Init
  BY DEF Init, Presentation!Init
<1>2. IInv /\ [Next]_vars => [Presentation!Next]_(Presentation!vars)
  <2> SUFFICES ASSUME IInv, [Next]_vars
               PROVE  Presentation!Next \/ UNCHANGED <<frameCounter, canvas.frame, ~destroyed>>
    BY DEF Presentation!vars
  <2>1. CASE Pass
    <3>1. canvas'.frame = canvas.frame
      BY <2>1 DEF Pass, IInv, ShownInv
    <3> QED BY <2>1, <3>1 DEF Pass, Presentation!Next, Presentation!Arrive
  <2>2. CASE Destroy
    BY <2>2 DEF Destroy, Presentation!Next, Presentation!Stop
  <2>3. ASSUME NEW f \in Frame, InferOk(f)
        PROVE  Presentation!Next \/ UNCHANGED <<frameCounter, canvas.frame, ~destroyed>>
    <3>1. UNCHANGED <<frameCounter, destroyed>>
      BY <2>3 DEF InferOk
    <3>2. \/ UNCHANGED canvas
          \/ /\ ~destroyed /\ ~Superseded(f)
             /\ canvas' = [frame |-> f, bytes |-> input[f].bytes]
      BY <2>3 DEF InferOk, showVars
    <3>3. CASE ~destroyed /\ ~Superseded(f) /\ canvas' = [frame |-> f, bytes |-> input[f].bytes]
      <4>1. /\ canvas.frame \in Nat /\ watermark \in Int /\ frameCounter \in Nat /\ f \in Nat
            /\ f # 0
        BY SlotConstants DEF IInv, TypeInv, TypeOK
      <4>2. canvas.frame + 1 <= f
        BY <3>3, <4>1 DEF IInv, ShownInv, Superseded
      <4>3. f <= frameCounter
        BY <2>3, <4>1 DEF IInv, FreshFrames, InferOk
      <4>4. canvas'.frame \in (canvas.frame + 1)..frameCounter
        BY <3>3, <4>1, <4>2, <4>3
      <4> QED BY <3>1, <3>3, <4>4 DEF Presentation!Next, Presentation!Show
    <3> QED BY <3>1, <3>2, <3>3
  <2>4. CASE UNCHANGED <<frameCounter, canvas, destroyed>>
    BY <2>4
  <2> QED
    BY <2>1, <2>2, <2>3, <2>4
    DEF Next, TimedStep, AfterSubmit, WorkDone, DrainStart, MapDone, MapFail, LateMap, InferBad,
        RunnerFail, Buried, Complete, vars, showVars
<1> QED
  BY <1>1, <1>2, IInvInit, IInvStep, PTL DEF Spec, PresentsInOrder, Presentation!Spec

-----------------------------------------------------------------------------
(***************************************************************************)
(* The skip count. A frame comes to nothing in one of two places: before   *)
(* its job starts, where the scheduler counts the gap up to the newest     *)
(* frame seen, or when its drain ends. SkipsCountOnce adds both up.        *)
(***************************************************************************)
Started == {f \in Frame : stage[f] # "none"}
Working == {f \in Frame : stage[f] \in Live \ {"leaving"}}
Ended   == {f \in Frame : stage[f] \in {"leaving", "done"}}

Shown == IF canvas.frame > 0 THEN 1 ELSE 0
Reached(s) == IF s.newestSeen < 0 THEN 0 ELSE s.newestSeen

CountInv ==
  ~destroyed =>
    /\ dropped + staleSkips + Shown <= Cardinality(Ended)
    /\ sched.skipped + Cardinality(Started) <= Reached(sched)
    /\ sched.newestSeen <= frameCounter
    /\ \A f \in Started : f <= sched.newestSeen

LEMMA FramesFinite ==
  /\ IsFiniteSet(Started) /\ IsFiniteSet(Working) /\ IsFiniteSet(Ended)
  /\ Cardinality(Started) \in Nat /\ Cardinality(Working) \in Nat /\ Cardinality(Ended) \in Nat
<1>1. IsFiniteSet(Frame)
  BY SlotConstants, FS_Interval DEF Frame
<1>2. Started \subseteq Frame /\ Working \subseteq Frame /\ Ended \subseteq Frame
  BY DEF Started, Working, Ended
<1> QED BY <1>1, <1>2, FS_Subset, FS_CardinalityType

\* A frame that was started works or has ended.
LEMMA StartedSplit ==
  ASSUME TypeOK
  PROVE  Cardinality(Started) = Cardinality(Working) + Cardinality(Ended)
<1>1. stage \in [Frame -> Stage]
  BY DEF TypeOK
<1>2. Started = Working \cup Ended /\ Working \cap Ended = {}
  BY <1>1 DEF Started, Working, Ended, Live, Holding, Stage
<1>3. Cardinality(Working \cup Ended)
        = Cardinality(Working) + Cardinality(Ended) - Cardinality(Working \cap Ended)
  BY FramesFinite, FS_Union
<1>4. Cardinality(Working \cap Ended) = 0
  BY <1>2, FS_EmptySet
<1> QED BY <1>2, <1>3, <1>4, FramesFinite

\* A skipped frame advances the newest seen, and the gap is counted once.
LEMMA NoteSkippedCounts ==
  ASSUME NEW s \in SchedType, NEW f \in Frame, NEW n \in Nat,
         s.skipped + n <= Reached(s), s.inFlight # {} => s.newestSeen >= 0
  PROVE  /\ NoteSkipped(s, f).skipped + n <= Reached(NoteSkipped(s, f))
         /\ NoteSkipped(s, f).newestSeen >= s.newestSeen
         /\ NoteSkipped(s, f).newestSeen \in {s.newestSeen, f}
<1>1. /\ s.skipped \in Nat /\ s.newestSeen \in Int /\ s.newestSeen >= -1 /\ f \in Nat /\ f >= 1
  BY SlotConstants DEF SchedType, Frame
<1>2. CASE f <= s.newestSeen
  BY <1>1, <1>2 DEF NoteSkipped
<1>3. CASE ~(f <= s.newestSeen)
  <2> DEFINE k == IF s.inFlight # {} THEN s.skipped + (f - s.newestSeen) ELSE s.skipped
  <2>1. NoteSkipped(s, f) = [s EXCEPT !.skipped = k, !.newestSeen = f]
    BY <1>3 DEF NoteSkipped
  <2>2. NoteSkipped(s, f).skipped = k /\ NoteSkipped(s, f).newestSeen = f
    <3> HIDE DEF k
    <3> QED BY <2>1 DEF SchedType
  <2>3. k + n <= f
    BY <1>1, <1>3 DEF Reached
  <2> QED BY <1>1, <1>3, <2>2, <2>3 DEF Reached
<1> QED BY <1>2, <1>3

\* Work in flight has been seen.
LEMMA InFlightSeen ==
  ASSUME IInv, CountInv, ~destroyed, sched.inFlight # {}
  PROVE  sched.newestSeen >= 0
<1>1. PICK f \in Frame : stage[f] \in Live
  BY DEF IInv, InFlightExact
<1>2. f \in Started
  BY <1>1 DEF Started, Live, Holding
<1>3. f <= sched.newestSeen /\ f \in Nat /\ sched.newestSeen \in Int
  BY <1>2, SlotConstants DEF CountInv, IInv, TypeInv, TypeOK
<1> QED BY <1>3

\* A drain ends: whatever it counts, it counts itself.
LEMMA DrainCounts ==
  ASSUME IInv, CountInv, NEW f \in Frame, TimedStep(f) \/ Buried(f)
  PROVE  CountInv'
<1> SUFFICES ASSUME ~destroyed PROVE CountInv'
  BY DEF CountInv, TimedStep, DrainStart, MapDone, MapFail, InferOk, InferBad, RunnerFail,
         Complete, Buried
<1>1. /\ TypeOK /\ stage \in [Frame -> Stage] /\ stage[f] \in Live
      /\ dropped \in Nat /\ staleSkips \in Nat /\ canvas.frame \in Nat
  <2>1. TypeOK
    BY DEF IInv, TypeInv
  <2>2. stage \in [Frame -> Stage] /\ dropped \in Nat /\ staleSkips \in Nat
    BY <2>1 DEF TypeOK
  <2>3. canvas.frame \in 0..MaxFrame
    BY <2>1 DEF TypeOK
  <2>4. stage[f] \in Live
    BY <2>1, StagesInDrain
  <2> QED BY <2>1, <2>2, <2>3, <2>4
<1>2. PICK st \in Stage \ {"none"} :
        stage' = [stage EXCEPT ![f] = st] /\ (stage[f] # "leaving" => st \in Live)
  BY <1>1, StagesInDrain
<1>3. Started' = Started
  BY <1>1, <1>2 DEF Started, Live, Holding
<1>4. /\ frameCounter' = frameCounter /\ destroyed' = destroyed
      /\ sched' = sched \/ sched' = MarkCompleted(sched, f)
  BY DEF TimedStep, DrainStart, MapDone, MapFail, InferOk, InferBad, RunnerFail, Complete, Buried
<1>5. sched'.skipped = sched.skipped /\ sched'.newestSeen = sched.newestSeen
  BY <1>1, <1>4 DEF MarkCompleted, TypeOK
<1>6. dropped' + staleSkips' + Shown' <= Cardinality(Ended')
  <2>1. CASE stage[f] # "leaving" /\ st = "leaving"
    <3>1. Ended' = Ended \cup {f} /\ f \notin Ended
      BY <1>1, <1>2, <2>1 DEF Ended, Live, Holding
    <3>2. Cardinality(Ended') = Cardinality(Ended) + 1
      BY <3>1, FramesFinite, FS_AddElement
    <3>3. \/ UNCHANGED <<dropped, staleSkips, canvas>>
          \/ dropped' = dropped + 1 /\ UNCHANGED <<staleSkips, canvas>>
          \/ staleSkips' = staleSkips + 1 /\ UNCHANGED <<dropped, canvas>>
          \/ canvas' = [frame |-> f, bytes |-> input[f].bytes] /\ UNCHANGED <<dropped, staleSkips>>
      BY DEF TimedStep, DrainStart, MapDone, MapFail, InferOk, InferBad, RunnerFail, Complete,
             Buried, showVars, countVars
    <3>4. dropped' + staleSkips' + Shown' <= dropped + staleSkips + Shown + 1
      <4>1. Shown \in {0, 1} /\ Shown' \in {0, 1} /\ (canvas' = canvas => Shown' = Shown)
        BY DEF Shown
      <4> QED BY <1>1, <3>3, <4>1
    <3>5. Shown \in Nat /\ Shown' \in Nat /\ dropped' \in Nat /\ staleSkips' \in Nat
      BY <1>1, <3>3 DEF Shown
    <3>6. dropped + staleSkips + Shown <= Cardinality(Ended) /\ Cardinality(Ended) \in Nat
      BY FramesFinite DEF CountInv
    <3>7. Cardinality(Ended') = Cardinality(Ended) + 1
      BY <3>2
    <3>8. PICK d \in Nat, k \in Nat, w \in Nat : d = dropped' /\ k = staleSkips' /\ w = Shown'
      BY <3>5
    <3>9. d + k + w <= dropped + staleSkips + Shown + 1
      BY <3>4, <3>8
    <3>10. dropped \in Nat /\ staleSkips \in Nat /\ Shown \in Nat
      BY <1>1, <3>5
    <3> HIDE DEF Shown
    <3>11. d + k + w <= Cardinality(Ended) + 1
      BY <3>6, <3>9, <3>10
    <3> QED BY <3>7, <3>8, <3>11
  <2>2. CASE ~(stage[f] # "leaving" /\ st = "leaving")
    <3>1. Ended' = Ended
      <4>1. CASE stage[f] = "leaving"
        <5>1. Complete(f)
          BY <4>1 DEF TimedStep, DrainStart, MapDone, MapFail, InferOk, InferBad, RunnerFail,
                      Buried
        <5>2. stage' = [stage EXCEPT ![f] = "done"]
          BY <5>1 DEF Complete
        <5> QED BY <1>1, <4>1, <5>2 DEF Ended
      <4>2. CASE stage[f] # "leaving"
        <5>1. st \in Live /\ st # "leaving"
          BY <1>2, <2>2, <4>2
        <5> QED BY <1>1, <1>2, <4>2, <5>1 DEF Ended, Live, Holding
      <4> QED BY <4>1, <4>2
    <3>2. UNCHANGED <<dropped, staleSkips, canvas>>
      <4>1. ~LeaveDrain(f) \/ stage[f] = "leaving"
        BY <1>1, <1>2, <2>2 DEF LeaveDrain
      <4> QED BY <4>1 DEF TimedStep, DrainStart, MapDone, MapFail, InferOk, InferBad, RunnerFail,
                          Complete, Buried, showVars, countVars
    <3> QED BY <3>1, <3>2 DEF CountInv, Shown
  <2> QED BY <2>1, <2>2
<1> QED BY <1>3, <1>4, <1>5, <1>6 DEF CountInv, Reached

\* A frame arrives; the one pass() had encoded and the renderer never submitted is skipped
\* first.
LEMMA PassCounts == IInv /\ CountInv /\ Pass => CountInv'
<1> SUFFICES ASSUME IInv, CountInv, Pass PROVE CountInv'
  OBVIOUS
<1> DEFINE seen == IF pending # NoClaim THEN NoteSkipped(sched, pending.frame) ELSE sched
           n == Cardinality(Started)
<1>1. /\ ~destroyed /\ frameCounter' = frameCounter + 1 /\ frameCounter + 1 \in Frame
      /\ UNCHANGED <<stage, dropped, staleSkips, destroyed>>
      /\ sched' = seen \/ sched' = NoteSkipped(seen, frameCounter + 1)
      /\ canvas' = IF landed THEN canvas ELSE [frame |-> 0, bytes |-> 0]
  BY SlotConstants DEF Pass, jobVars, countVars, IInv, TypeInv, TypeOK, Frame
<1>2. /\ sched \in SchedType /\ frameCounter \in Nat /\ n \in Nat
      /\ dropped \in Nat /\ staleSkips \in Nat /\ canvas.frame \in Nat
  BY FramesFinite DEF IInv, TypeInv, TypeOK, SchedType
<1>3. pending # NoClaim => pending.frame \in Frame /\ pending.frame <= frameCounter
  BY DEF IInv, TypeInv, TypeOK, FreshFrames, Claim
<1> DEFINE Fine(s) == /\ s \in SchedType /\ s.skipped + n <= Reached(s)
                      /\ s.newestSeen >= sched.newestSeen
                      /\ s.inFlight # {} => s.newestSeen >= 0
<1>4. Fine(sched) /\ sched.newestSeen <= frameCounter
  BY <1>1, <1>2, InFlightSeen DEF CountInv, SchedType
<1>5. ASSUME NEW s, Fine(s), NEW f \in Frame
      PROVE  Fine(NoteSkipped(s, f)) /\ NoteSkipped(s, f).newestSeen \in {s.newestSeen, f}
  <2>1. /\ NoteSkipped(s, f).skipped + n <= Reached(NoteSkipped(s, f))
        /\ NoteSkipped(s, f).newestSeen >= s.newestSeen
        /\ NoteSkipped(s, f).newestSeen \in {s.newestSeen, f}
    BY <1>2, <1>5, NoteSkippedCounts
  <2>2. NoteSkipped(s, f) \in SchedType /\ NoteSkipped(s, f).inFlight = s.inFlight
    BY <1>5, NoteSkippedType, InFlightOfScheduler
  <2>3. /\ s.newestSeen \in Int /\ NoteSkipped(s, f).newestSeen \in Int /\ sched.newestSeen \in Int
    BY <1>2, <1>5, <2>2 DEF SchedType
  <2> QED BY <1>5, <2>1, <2>2, <2>3
<1> HIDE DEF Fine
<1>6. Fine(seen) /\ seen.newestSeen <= frameCounter
  BY <1>3, <1>4, <1>5
<1> HIDE DEF seen
<1>7. Fine(sched') /\ sched'.newestSeen <= frameCounter + 1
  <2>1. CASE sched' = seen
    BY <1>2, <1>6, <2>1 DEF Fine, SchedType
  <2>2. CASE sched' = NoteSkipped(seen, frameCounter + 1)
    <3>1. sched'.newestSeen \in {seen.newestSeen, frameCounter + 1} /\ Fine(sched')
      BY <1>1, <1>5, <1>6, <2>2
    <3> QED BY <1>2, <1>6, <3>1 DEF Fine, SchedType
  <2> QED BY <1>1, <2>1, <2>2
<1>8. Started' = Started /\ Ended' = Ended
  BY <1>1 DEF Started, Ended
<1>9. Shown' <= Shown /\ Shown \in Nat /\ Shown' \in Nat
  BY <1>1, <1>2 DEF Shown
<1>10. dropped' + staleSkips' + Shown' <= Cardinality(Ended')
  BY <1>1, <1>2, <1>8, <1>9, FramesFinite DEF CountInv
<1>11. \A f \in Started' : f <= sched'.newestSeen
  <2> TAKE f \in Started'
  <2>1. f <= sched.newestSeen /\ f \in Nat
    BY <1>1, <1>8, SlotConstants DEF CountInv, Started
  <2> QED BY <1>2, <1>7, <2>1 DEF Fine, SchedType
<1>12. sched'.skipped + Cardinality(Started') <= Reached(sched')
  BY <1>7, <1>8 DEF Fine, Reached
<1>13. sched'.newestSeen <= frameCounter'
  BY <1>1, <1>7
<1> QED BY <1>10, <1>11, <1>12, <1>13 DEF CountInv

\* A submitted copy completes: its job starts, or the frame is skipped.
LEMMA WorkDoneCounts == IInv /\ CountInv /\ WorkDone => CountInv'
<1> SUFFICES ASSUME IInv, CountInv, WorkDone, ~destroyed PROVE CountInv'
  BY DEF CountInv, WorkDone
<1> DEFINE f == Head(queue).frame
<1>1. f \in Frame /\ f <= frameCounter /\ stage[f] = "none"
  <2>1. queue \in Seq(Claim) /\ queue # <<>>
    BY DEF IInv, TypeInv, TypeOK, WorkDone
  <2>2. 1 \in DOMAIN queue /\ queue[1] = Head(queue) /\ Head(queue) \in Claim
    BY <2>1, LenProperties, EmptySeq, HeadTailProperties
  <2> QED BY <2>2 DEF IInv, FreshFrames, Claim
<1>2. /\ sched \in SchedType /\ frameCounter \in Nat /\ stage \in [Frame -> Stage]
      /\ Cardinality(Started) \in Nat
  BY FramesFinite DEF IInv, TypeInv, TypeOK, SchedType
<1>3. UNCHANGED <<frameCounter, dropped, staleSkips, canvas, destroyed>>
  BY DEF WorkDone, showVars, countVars
<1>4. /\ sched.skipped + Cardinality(Started) <= Reached(sched)
      /\ sched.newestSeen <= frameCounter
      /\ sched.skipped \in Nat /\ sched.newestSeen \in Int /\ f \in Nat /\ f >= 1
  BY <1>1, <1>2, SlotConstants DEF CountInv, SchedType, Frame
<1>5. CASE /\ ShouldProcess(sched, f, InferenceDepth) /\ sched' = MarkStarted(sched, f)
           /\ stage' = [stage EXCEPT ![f] = "queued"]
  <2>1. f > sched.newestSeen
    BY <1>5 DEF ShouldProcess
  <2>2. sched'.newestSeen = f /\ sched'.skipped = sched.skipped
    BY <1>2, <1>5, <2>1 DEF MarkStarted, SchedType
  <2>3. Started' = Started \cup {f} /\ f \notin Started /\ Ended' = Ended
    BY <1>1, <1>2, <1>5 DEF Started, Ended
  <2>4. Cardinality(Started') = Cardinality(Started) + 1
    BY <2>3, FramesFinite, FS_AddElement
  <2>5. sched'.skipped + Cardinality(Started') <= Reached(sched')
    BY <1>2, <1>4, <2>1, <2>2, <2>4 DEF Reached
  <2>6. \A g \in Started' : g <= sched'.newestSeen
    <3> TAKE g \in Started'
    <3>1. g # f => g <= sched.newestSeen /\ g \in Nat
      BY <2>3, SlotConstants DEF CountInv, Started
    <3> QED BY <1>4, <2>1, <2>2, <3>1
  <2> QED BY <1>1, <1>3, <2>2, <2>3, <2>5, <2>6 DEF CountInv, Shown
<1>6. CASE sched' = NoteSkipped(sched, f) /\ stage' = stage
  <2>1. /\ sched'.skipped + Cardinality(Started) <= Reached(sched')
        /\ sched'.newestSeen >= sched.newestSeen /\ sched'.newestSeen \in {sched.newestSeen, f}
    BY <1>1, <1>2, <1>4, <1>6, InFlightSeen, NoteSkippedCounts
  <2>2. Started' = Started /\ Ended' = Ended
    BY <1>6 DEF Started, Ended
  <2>3. \A g \in Started' : g <= sched'.newestSeen
    <3> TAKE g \in Started'
    <3>1. g <= sched.newestSeen /\ g \in Nat
      BY <2>2, SlotConstants DEF CountInv, Started
    <3> QED BY <1>4, <2>1, <3>1
  <2> QED BY <1>1, <1>3, <1>4, <2>1, <2>2, <2>3 DEF CountInv, Shown, Reached
<1> QED BY <1>5, <1>6 DEF WorkDone

LEMMA CountStep == IInv /\ CountInv /\ [Next]_vars => CountInv'
<1> SUFFICES ASSUME IInv, CountInv, [Next]_vars PROVE CountInv'
  OBVIOUS
<1>1. CASE Destroy
  BY <1>1 DEF Destroy, CountInv
<1>2. CASE AfterSubmit \/ UNCHANGED vars \/ \E s \in Slot : LateMap(s)
  BY <1>2 DEF AfterSubmit, LateMap, vars, slotVars, jobVars, showVars, countVars, CountInv, Started,
              Ended, Shown, Reached
<1> QED BY <1>1, <1>2, PassCounts, WorkDoneCounts, DrainCounts DEF Next

\* The overlay's skip total counts no frame twice, and none that works or is on screen: the
\* gaps of the scheduler and the drains that came to nothing never exceed what arrived.
THEOREM SkipsCorrect == Spec => []SkipsCountOnce
<1>1. Init => CountInv
  <2> SUFFICES ASSUME Init PROVE CountInv
    OBVIOUS
  <2>1. Started = {} /\ Ended = {}
    BY DEF Init, Started, Ended
  <2>2. Cardinality(Started) = 0 /\ Cardinality(Ended) = 0
    BY <2>1, FS_EmptySet
  <2>3. /\ sched.newestSeen = -1 /\ sched.skipped = 0 /\ frameCounter = 0 /\ dropped = 0
        /\ staleSkips = 0 /\ canvas.frame = 0
    BY DEF Init, NewScheduler
  <2> QED BY <2>1, <2>2, <2>3 DEF CountInv, Shown, Reached
<1>2. IInv /\ CountInv => SkipsCountOnce
  <2> SUFFICES ASSUME IInv, CountInv, ~destroyed PROVE SkipsCountOnce
    BY DEF SkipsCountOnce
  <2>1. Cardinality(Started) = Cardinality(Working) + Cardinality(Ended)
    BY StartedSplit DEF IInv, TypeInv
  <2>2. /\ dropped + staleSkips + Shown <= Cardinality(Ended)
        /\ sched.skipped + Cardinality(Started) <= Reached(sched)
        /\ sched.newestSeen <= frameCounter
    BY DEF CountInv
  <2>3. /\ dropped \in Nat /\ staleSkips \in Nat /\ Shown \in Nat /\ sched.skipped \in Nat
        /\ sched.newestSeen \in Int /\ frameCounter \in Nat
    BY DEF IInv, TypeInv, TypeOK, Shown
  <2>4. Reached(sched) <= frameCounter
    BY <2>2, <2>3 DEF Reached
  <2>5. sched.skipped + dropped + staleSkips + Cardinality(Working) + Shown <= frameCounter
    BY <2>1, <2>2, <2>3, <2>4, FramesFinite DEF Reached
  <2> QED BY <2>5 DEF SkipsCountOnce, SkipTotal, Working, Shown
<1> QED BY <1>1, <1>2, IInvInit, IInvStep, CountStep, PTL DEF Spec
=============================================================================
