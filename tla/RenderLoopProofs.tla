-------------------------- MODULE RenderLoopProofs --------------------------
(***************************************************************************)
(* The renderer has one builder at a time, a frame is encoded on pipelines *)
(* that read its texture, the callback of an idle renderer is armed, and   *)
(* what destroy() released stays so: for any number of updates, losses,    *)
(* reports and resizes, and any length of the chain of state updates.      *)
(***************************************************************************)
EXTENDS RenderLoop, FiniteSetTheorems, SequenceTheorems, TLAPS

Places == {"none", "copy", "queue", "build"}
Locked == {"frameIdle", "queue", "adapter", "build", "present"}
Steps  == {"none", "idle", "frame"} \cup Locked
Ops    == [kind : Kind, gen : Nat]

-----------------------------------------------------------------------------
(* The inductive invariant                                                 *)

\* An operation that is under way is the head of the chain, and its frame is the chain's.
Shape ==
  /\ frame \in [Act -> Places] /\ step \in Steps
  /\ chain \in Seq(Ops) /\ gen \in Nat
  /\ base \in [Builder -> {"none", "current", "old"}]
  /\ step # "none" => chain # <<>>
  /\ step = "frame" <=> frame["chain"] # "none"

\* The loop's frame holds the processing flag and meets no operation past its wait for idle; such
\* an operation holds the rebuild flag, or its frame is kept alone by the processing flag or by
\* the callbacks being off.
Alone ==
  /\ frame["loop"] # "none" => frameProcessing /\ step \in {"none", "idle"}
  /\ \A a \in Act : /\ frame[a] = "copy" => ~rebuilding
                    /\ frame[a] \in {"queue", "build"} => rebuilding
  /\ step \in Locked => rebuilding
  /\ step = "frame" => Op.kind \in {"config", "source"}
  /\ step = "adapter" => Op.kind = "recover"
  /\ step = "frame" /\ Op.kind = "config" => frameProcessing
  /\ step \in Locked \cup {"frame"} /\ Op.kind = "source" => ~armed /\ ~due

\* Whoever builds, builds on the current texture; pipelines that do not fit are being replaced, by
\* a builder that is not content with the old ones when it fails.
Building ==
  /\ \A a \in Act : frame[a] = "build" => base[a] = "current"
  /\ step = "build" => base["op"] = "current"
  /\ \/ reported \/ destroyed \/ fits \/ (step = "build" /\ Op.kind # "config")
     \/ \E a \in Act : frame[a] = "build"

Quiet == Alone /\ Building

RInv == Shape /\ (late \/ Quiet)

-----------------------------------------------------------------------------
(* What the invariant says of builders                                     *)

LEMMA BuildersOf ==
  ASSUME Shape, Alone
  PROVE  /\ Builders # {} => rebuilding
         /\ \E b : Builders \subseteq {b}
         /\ \A a \in Act : frame[a] = "copy" => Builders = {}
<1>1. CASE step \in {"none", "idle"}
  <2>1. frame["chain"] = "none"
    BY <1>1 DEF Shape
  <2>2. Builders \subseteq {"loop"}
    BY <1>1, <2>1 DEF Builders, Act
  <2>3. Builders # {} => frame["loop"] \in {"queue", "build"}
    BY <2>2 DEF Builders, Act
  <2> QED  BY <2>1, <2>2, <2>3 DEF Alone, Act
<1>2. CASE step = "frame"
  <2>1. frame["loop"] = "none"
    BY <1>2 DEF Alone
  <2>2. Builders \subseteq {"chain"}
    BY <1>2, <2>1 DEF Builders, Act
  <2>3. Builders # {} => frame["chain"] \in {"queue", "build"}
    BY <2>2 DEF Builders, Act
  <2> QED  BY <2>1, <2>2, <2>3 DEF Alone, Act
<1>3. CASE step \in Locked
  <2>1. frame["loop"] = "none" /\ frame["chain"] = "none"
    BY <1>3 DEF Alone, Shape, Locked
  <2>2. Builders \subseteq {"op"}
    BY <2>1 DEF Builders, Act
  <2> QED  BY <1>3, <2>1, <2>2 DEF Alone, Act
<1> QED  BY <1>1, <1>2, <1>3 DEF Shape, Steps

LEMMA Consequences ==
  ASSUME RInv
  PROVE  OneBuilder /\ FrameFitsPipelines
<1>1. CASE late
  BY <1>1 DEF OneBuilder, FrameFitsPipelines
<1>2. CASE Quiet
  <2>1. /\ Builders # {} => rebuilding
        /\ \A a \in Act : frame[a] = "copy" => Builders = {}
    BY <1>2, BuildersOf DEF RInv, Quiet
  <2>2. PICK b : Builders \subseteq {b}
    BY <1>2, BuildersOf DEF RInv, Quiet
  <2>3. Cardinality(Builders) <= 1
    <3>1. Cardinality({}) = 0 /\ Cardinality({b}) = 1
      BY FS_EmptySet, FS_Singleton
    <3>2. Builders = {} \/ Builders = {b}
      BY <2>2
    <3> QED  BY <3>1, <3>2
  <2>4. ASSUME NEW a \in Act, frame[a] = "copy", ~destroyed, ~reported PROVE fits
    <3>1. Builders = {}
      BY <2>1, <2>4
    <3>2. step # "build" /\ \A x \in Act : frame[x] # "build"
      BY <3>1 DEF Builders
    <3> QED  BY <1>2, <2>4, <3>2 DEF Quiet, Building
  <2> QED  BY <2>1, <2>3, <2>4 DEF OneBuilder, FrameFitsPipelines
<1> QED  BY <1>1, <1>2 DEF RInv

-----------------------------------------------------------------------------
(* Pieces of steps                                                         *)

LEMMA HeadStays ==
  \A s \in Seq(Ops), x \in Ops :
    /\ Append(s, x) \in Seq(Ops) /\ Append(s, x) # <<>>
    /\ s # <<>> => Head(Append(s, x)) = Head(s)
<1> SUFFICES ASSUME NEW s \in Seq(Ops), NEW x \in Ops
             PROVE  /\ Append(s, x) \in Seq(Ops) /\ Append(s, x) # <<>>
                    /\ s # <<>> => Head(Append(s, x)) = Head(s)
  OBVIOUS
<1>1. Append(s, x) \in Seq(Ops) /\ Len(Append(s, x)) = Len(s) + 1 /\ Len(s) \in Nat
  OBVIOUS
<1>2. Append(s, x) # <<>>
  BY <1>1
<1>3. s # <<>> => Append(s, x)[1] = s[1]
  OBVIOUS
<1> QED  BY <1>1, <1>2, <1>3

\* Where a frame begins: nowhere under the lock or after destroy().
LEMMA Entries ==
  ASSUME NEW locked \in BOOLEAN, NEW misfit
  PROVE  /\ EntryOf(locked, misfit) \in {"none", "copy", "queue"}
         /\ EntryOf(locked, misfit) = "none" <=> destroyed \/ locked
  BY DEF EntryOf

\* What follows a frame keeps the shape.
LEMMA GoesOnShape ==
  ASSUME Shape, NEW a \in Act, frame[a] # "none", NEW failed \in BOOLEAN,
         NEW locked \in BOOLEAN, GoesOn(a, failed, locked)
  PROVE  /\ frame' \in [Act -> Places] /\ step' \in Steps /\ chain' \in Seq(Ops)
         /\ step' # "none" => chain' # <<>>
         /\ step' = "frame" <=> frame'["chain"] # "none"
<1> DEFINE e == Entry(locked)
<1>1. e \in {"none", "copy", "queue"}
  BY Entries DEF Entry
<1>2. \A f \in Places : [frame EXCEPT ![a] = f] \in [Act -> Places]
  BY DEF Shape
<1>3. CASE a = "loop"
  <2>1. UNCHANGED <<chain, step>>
    BY <1>3 DEF GoesOn, LoopGoesOn, chainVars
  <2>2. frame' = [frame EXCEPT !["loop"] = e] \/ frame' = [frame EXCEPT !["loop"] = "none"]
    BY <1>3 DEF GoesOn, LoopGoesOn
  <2> HIDE DEF e
  <2>3. frame' \in [Act -> Places] /\ frame'["chain"] = frame["chain"]
    BY <1>1, <1>2, <1>3, <2>2 DEF Shape, Act, Places
  <2> QED  BY <2>1, <2>3 DEF Shape
<1>4. CASE a = "chain"
  <2>1. step = "frame" /\ chain # <<>> /\ chain \in Seq(Ops)
    BY <1>4 DEF Shape
  <2>2. \/ frame' = [frame EXCEPT !["chain"] = "none"] /\ Finish
        \/ frame' = [frame EXCEPT !["chain"] = e] /\ e # "none" /\ UNCHANGED <<chain, step>>
    BY <1>4 DEF GoesOn, ConfigurationGoesOn, ConfigurationEnds, SourceGoesOn, Again
  <2> HIDE DEF e
  <2>3. CASE frame' = [frame EXCEPT !["chain"] = "none"] /\ Finish
    <3>1. step' = "none" /\ chain' \in Seq(Ops)
      BY <2>1, <2>3 DEF Finish
    <3>2. frame' \in [Act -> Places] /\ frame'["chain"] = "none"
      BY <1>2, <1>4, <2>3 DEF Shape, Act, Places
    <3> QED  BY <3>1, <3>2 DEF Steps
  <2>4. CASE frame' = [frame EXCEPT !["chain"] = e] /\ e # "none" /\ UNCHANGED <<chain, step>>
    <3>1. frame' \in [Act -> Places] /\ frame'["chain"] = e
      BY <1>1, <1>2, <1>4, <2>4 DEF Shape, Act, Places
    <3> QED  BY <2>1, <2>4, <3>1 DEF Steps
  <2> QED  BY <2>2, <2>3, <2>4
<1> QED  BY <1>3, <1>4 DEF Act

\* What follows a frame that is the only one, and was not locked out, is alone too; a failure ends
\* the renderer or is reported.
LEMMA GoesOnAlone ==
  ASSUME Shape, Alone, NEW a \in Act, frame[a] # "none", NEW failed \in BOOLEAN,
         GoesOn(a, failed, FALSE), UNCHANGED due
  PROVE  /\ Alone'
         /\ step' # "build" /\ \A x \in Act : frame'[x] # "build"
         /\ (reported => reported') /\ (destroyed => destroyed')
         /\ failed => reported' \/ destroyed'
<1> DEFINE e == Entry(FALSE)
<1>1. e \in {"none", "copy", "queue"}
  BY Entries DEF Entry
<1>2. CASE a = "loop"
  <2>1. /\ frameProcessing /\ step \in {"none", "idle"} /\ frame["chain"] = "none"
        /\ UNCHANGED <<chain, step, destroyed>>
    BY <1>2 DEF Alone, Shape, GoesOn, LoopGoesOn, chainVars
  <2>2. CASE /\ ~failed /\ Again(FALSE)
             /\ frame' = [frame EXCEPT !["loop"] = e]
             /\ rebuilding' = (FALSE \/ e = "queue")
             /\ UNCHANGED <<frameProcessing, reported>>
    <3> HIDE DEF e
    <3>1. frame'["loop"] = e /\ frame'["chain"] = "none"
      BY <2>1, <2>2 DEF Shape, Act
    <3>2. \A x \in Act : frame'[x] = "none" \/ frame'[x] = e
      BY <3>1 DEF Act
    <3>3. rebuilding' <=> e = "queue"
      BY <2>2
    <3>4. frameProcessing' /\ (reported => reported') /\ (destroyed => destroyed')
      BY <2>1, <2>2
    <3>5. Alone'
      BY <1>1, <2>1, <3>2, <3>3, <3>4 DEF Alone, Locked, Act
    <3>6. step' # "build"
      BY <2>1
    <3> QED  BY <1>1, <2>2, <3>2, <3>4, <3>5, <3>6
  <2>3. CASE /\ frame' = [frame EXCEPT !["loop"] = "none"]
             /\ reported' = (reported \/ Fatal(failed))
    <3>1. \A x \in Act : frame'[x] = "none"
      BY <2>1, <2>3 DEF Shape, Act
    <3>2. Alone'
      BY <2>1, <3>1 DEF Alone, Locked, Act
    <3>3. (reported => reported') /\ (failed => reported' \/ destroyed)
      BY <2>3 DEF Fatal
    <3> QED  BY <2>1, <3>1, <3>2, <3>3
  <2> QED
    BY <1>2, <2>2, <2>3 DEF GoesOn, LoopGoesOn
<1>3. CASE a = "chain"
  <2>1. step = "frame" /\ frame["loop"] = "none" /\ Op.kind \in {"config", "source"}
    BY <1>3 DEF Shape, Alone
  <2>2. CASE frame' = [frame EXCEPT !["chain"] = "none"] /\ Finish
    <3>1. \A x \in Act : frame'[x] = "none"
      BY <2>1, <2>2 DEF Shape, Act
    <3>2. step' = "none"
      BY <2>2 DEF Finish
    <3>3. Alone'
      BY <3>1, <3>2 DEF Alone, Locked, Act
    <3>4. (reported => reported') /\ (destroyed => destroyed') /\ (failed => reported' \/ destroyed')
      <4>1. CASE Op.kind = "source"
        <5>1. SourceGoesOn(failed)
          BY <1>3, <4>1 DEF GoesOn, Op
        <5> QED  BY <5>1 DEF SourceGoesOn
      <4>2. CASE Op.kind = "config"
        <5>1. ConfigurationGoesOn(failed, FALSE)
          BY <1>3, <4>2 DEF GoesOn, Op
        <5>2. \/ destroyed' = TRUE /\ reported' = TRUE
              \/ reported' = (reported \/ ~destroyed) /\ destroyed' = destroyed
              \/ ~failed /\ reported' = reported /\ destroyed' = destroyed
          BY <5>1 DEF ConfigurationGoesOn
        <5>3. CASE destroyed' = TRUE /\ reported' = TRUE
          BY <5>3
        <5>4. CASE reported' = (reported \/ ~destroyed) /\ destroyed' = destroyed
          BY <5>4
        <5>5. CASE ~failed /\ reported' = reported /\ destroyed' = destroyed
          BY <5>5
        <5> QED  BY <5>2, <5>3, <5>4, <5>5
      <4> QED  BY <2>1, <4>1, <4>2
    <3> QED  BY <3>1, <3>2, <3>3, <3>4
  <2>3. CASE /\ ~failed /\ Op.kind = "config"
             /\ frame' = [frame EXCEPT !["chain"] = e]
             /\ rebuilding' = (FALSE \/ e = "queue")
             /\ frameProcessing' = TRUE
             /\ UNCHANGED <<reported, destroyed, chain, step>>
    <3> HIDE DEF e
    <3>1. frame'["chain"] = e /\ frame'["loop"] = "none"
      BY <2>1, <2>3 DEF Shape, Act
    <3>2. \A x \in Act : frame'[x] = "none" \/ frame'[x] = e
      BY <3>1 DEF Act
    <3>3. rebuilding' <=> e = "queue"
      BY <2>3
    <3>4. Alone'
      <4>1. frameProcessing' /\ step' = "frame" /\ Op'.kind = "config"
        BY <2>1, <2>3 DEF Op
      <4> QED  BY <1>1, <3>1, <3>2, <3>3, <4>1 DEF Alone, Locked, Act
    <3> QED  BY <1>1, <2>1, <2>3, <3>2, <3>4
  <2>4. CASE Op.kind = "source"
    <3>1. SourceGoesOn(failed)
      BY <1>3, <2>4 DEF GoesOn, Op
    <3> QED  BY <2>2, <3>1 DEF SourceGoesOn
  <2>5. CASE Op.kind = "config"
    <3>1. ConfigurationGoesOn(failed, FALSE)
      BY <1>3, <2>5 DEF GoesOn, Op
    <3> QED  BY <2>2, <2>3, <2>5, <3>1 DEF ConfigurationGoesOn, ConfigurationEnds
  <2> QED  BY <2>1, <2>4, <2>5
<1> QED  BY <1>2, <1>3 DEF Act

-----------------------------------------------------------------------------
(* The frame path                                                          *)

LEMMA VideoFrameKeeps ==
  ASSUME RInv, VideoFrame
  PROVE  RInv'
<1> DEFINE e == Entry(FALSE)
<1>1. /\ due /\ ~destroyed /\ frame["loop"] = "none" /\ due' = FALSE
      /\ UNCHANGED <<chain, step, gen, base, late, destroyed, reported, fits>>
  BY DEF VideoFrame, endVars, chainVars, deviceVars, textureVars
<1>2. e \in {"copy", "queue"}
  BY <1>1, Entries DEF Entry
<1>3. CASE UNCHANGED <<frameProcessing, rebuilding, frame>>
  BY <1>1, <1>3 DEF RInv, Shape, Quiet, Alone, Building, Op
<1>4. CASE /\ ~frameProcessing /\ ~rebuilding /\ frameProcessing' = TRUE
           /\ frame' = [frame EXCEPT !["loop"] = e] /\ rebuilding' = (e = "queue")
  <2> HIDE DEF e
  <2>1. frame' \in [Act -> Places] /\ frame'["loop"] = e /\ frame'["chain"] = frame["chain"]
    BY <1>2, <1>4 DEF RInv, Shape, Act, Places
  <2>2. Shape'
    BY <1>1, <2>1 DEF RInv, Shape
  <2>3. CASE Quiet
    <3>1. step \in {"none", "idle"}
      <4>1. step \notin Locked
        BY <1>4, <2>3 DEF Quiet, Alone
      <4>2. step # "frame"
        BY <1>1, <1>4, <2>3 DEF Quiet, Alone
      <4> QED  BY <4>1, <4>2 DEF RInv, Shape, Steps
    <3>2. frame["chain"] = "none"
      BY <3>1 DEF RInv, Shape
    <3>3. rebuilding' <=> e = "queue"
      BY <1>4
    <3>4. Alone'
      BY <1>1, <1>2, <1>4, <2>1, <3>1, <3>2, <3>3 DEF Alone, Locked, Act
    <3>5. Building'
      BY <1>1, <1>2, <2>1, <2>3, <3>1, <3>2 DEF Quiet, Building, Act
    <3> QED  BY <2>2, <3>4, <3>5 DEF RInv, Quiet
  <2> QED  BY <1>1, <2>2, <2>3 DEF RInv
<1> QED
  BY <1>3, <1>4 DEF VideoFrame

\* A frame at its copy is not locked out; one that rebuilds goes on without the lock.
LEMMA CopyDoneKeeps ==
  ASSUME RInv, NEW a \in Act, CopyDone(a)
  PROVE  RInv'
<1>1. /\ frame[a] = "copy" /\ frame[a] # "none"
      /\ UNCHANGED <<due, late, gen, base, fits>>
  BY DEF CopyDone, deviceVars, textureVars
<1>2. PICK failed \in BOOLEAN : GoesOn(a, failed, rebuilding)
  BY DEF CopyDone
<1>3. Shape'
  <2>1. CASE rebuilding
    <3>1. GoesOn(a, failed, TRUE)
      BY <1>2, <2>1 DEF GoesOn, LoopGoesOn, ConfigurationGoesOn, ConfigurationEnds, Again, Entry, EntryOf
    <3> QED  BY <1>1, <3>1, GoesOnShape DEF RInv, Shape
  <2>2. CASE ~rebuilding
    <3>1. GoesOn(a, failed, FALSE)
      BY <1>2, <2>2 DEF GoesOn, LoopGoesOn, ConfigurationGoesOn, ConfigurationEnds, Again, Entry, EntryOf
    <3> QED  BY <1>1, <3>1, GoesOnShape DEF RInv, Shape
  <2> QED  BY <2>1, <2>2
<1>4. CASE Quiet
  <2>1. ~rebuilding
    BY <1>1, <1>4 DEF Quiet, Alone
  <2>2. GoesOn(a, failed, FALSE)
    BY <1>2, <2>1 DEF GoesOn, LoopGoesOn, ConfigurationGoesOn, ConfigurationEnds, Again, Entry, EntryOf
  <2>3. /\ Alone' /\ step' # "build" /\ \A x \in Act : frame'[x] # "build"
        /\ (reported => reported') /\ (destroyed => destroyed')
    BY <1>1, <1>4, <2>2, GoesOnAlone DEF RInv, Quiet
  <2>4. reported \/ destroyed \/ fits
    <3>1. Builders = {}
      BY <1>1, <1>4, BuildersOf DEF RInv, Quiet
    <3>2. step # "build" /\ \A x \in Act : frame[x] # "build"
      BY <3>1 DEF Builders
    <3> QED  BY <1>4, <3>2 DEF Quiet, Building
  <2> QED  BY <1>1, <1>3, <2>3, <2>4 DEF RInv, Quiet, Building
<1> QED  BY <1>1, <1>3, <1>4 DEF RInv

\* A frame that is at its rebuild is the only builder.
LEMMA OnlyBuilder ==
  ASSUME Shape, Alone, NEW a \in Act, frame[a] \in {"queue", "build"}
  PROVE  step \notin Locked /\ \A x \in Act \ {a} : frame[x] \notin {"queue", "build"}
<1>1. CASE step \in {"none", "idle"}
  BY <1>1 DEF Shape, Act, Locked
<1>2. CASE step = "frame"
  BY <1>2 DEF Alone, Act, Locked
<1>3. CASE step \in Locked
  BY <1>3 DEF Alone, Shape, Act, Locked
<1> QED  BY <1>1, <1>2, <1>3 DEF Shape, Steps

LEMMA RebuildStartsKeeps ==
  ASSUME RInv, NEW a \in Act, RebuildStarts(a)
  PROVE  RInv'
<1>1. /\ frame[a] = "queue" /\ frame[a] # "none" /\ UNCHANGED <<due, late, gen>>
  BY DEF RebuildStarts, deviceVars
<1>2. CASE destroyed /\ GoesOn(a, FALSE, FALSE) /\ UNCHANGED <<base, fits>>
  <2>1. Shape'
    BY <1>1, <1>2, GoesOnShape DEF RInv, Shape
  <2>2. CASE Quiet
    <3>1. /\ Alone' /\ step' # "build" /\ \A x \in Act : frame'[x] # "build"
          /\ (destroyed => destroyed')
      BY <1>1, <1>2, <2>2, GoesOnAlone DEF RInv, Quiet
    <3> QED  BY <1>2, <2>1, <3>1 DEF RInv, Quiet, Building
  <2> QED  BY <1>1, <2>1, <2>2 DEF RInv
<1>3. CASE /\ NewTexture(a) /\ frame' = [frame EXCEPT ![a] = "build"]
           /\ UNCHANGED <<armed, frameProcessing, rebuilding, reported, destroyed, chainVars>>
  <2>1. /\ frame' \in [Act -> Places] /\ frame'[a] = "build"
        /\ \A x \in Act \ {a} : frame'[x] = frame[x]
    BY <1>3 DEF RInv, Shape, Places
  <2>2. base' \in [Builder -> {"none", "current", "old"}] /\ base'[a] = "current"
    BY <1>3 DEF NewTexture, Builder
  <2>3. UNCHANGED <<chain, step>>
    BY <1>3 DEF chainVars
  <2>4. frame'["chain"] = "none" <=> frame["chain"] = "none"
    BY <1>1, <2>1 DEF Act
  <2>5. Shape'
    BY <1>1, <2>1, <2>2, <2>3, <2>4 DEF RInv, Shape
  <2>6. CASE Quiet
    <3>1. step \notin Locked /\ \A x \in Act \ {a} : frame[x] \notin {"queue", "build"}
      BY <1>1, <2>6, OnlyBuilder DEF RInv, Quiet
    <3>2. \A x \in Act : frame'[x] = frame[x] \/ (x = a /\ frame'[x] = "build")
      BY <2>1
    <3>3. rebuilding
      BY <1>1, <2>6 DEF Quiet, Alone
    <3>4. rebuilding'
      BY <1>3, <3>3
    <3>5. \A x \in Act : frame'[x] # "copy"
      BY <2>6, <3>2, <3>3 DEF Quiet, Alone
    <3>6. frame["loop"] = "none" <=> frame'["loop"] = "none"
      BY <1>1, <2>1 DEF Act
    <3>7. Alone'
      BY <1>1, <1>3, <2>3, <2>6, <3>1, <3>4, <3>5, <3>6 DEF Quiet, Alone, Op
    <3>8. Building'
      BY <2>1, <2>2, <2>3, <3>1 DEF Building, Locked
    <3> QED  BY <2>5, <3>7, <3>8 DEF RInv, Quiet
  <2> QED  BY <1>1, <2>5, <2>6 DEF RInv
<1> QED  BY <1>2, <1>3 DEF RebuildStarts

LEMMA RebuildEndsKeeps ==
  ASSUME RInv, NEW a \in Act, RebuildEnds(a)
  PROVE  RInv'
<1>1. /\ frame[a] = "build" /\ frame[a] # "none" /\ UNCHANGED <<due, late, gen>>
  BY DEF RebuildEnds, deviceVars
<1>2. PICK failed \in BOOLEAN : GoesOn(a, failed, FALSE) /\ BuildEnds(a, failed)
  BY DEF RebuildEnds
<1>3. base' \in [Builder -> {"none", "current", "old"}]
  BY <1>2 DEF BuildEnds, RInv, Shape
<1>4. Shape'
  BY <1>1, <1>2, <1>3, GoesOnShape DEF RInv, Shape
<1>5. CASE Quiet
  <2>1. /\ Alone' /\ step' # "build" /\ \A x \in Act : frame'[x] # "build"
        /\ failed => reported' \/ destroyed'
    BY <1>1, <1>2, <1>5, GoesOnAlone DEF RInv, Quiet
  <2>2. ~failed => fits'
    <3>1. base[a] = "current"
      BY <1>1, <1>5 DEF Quiet, Building
    <3> QED  BY <1>2, <3>1 DEF BuildEnds
  <2> QED  BY <1>4, <2>1, <2>2 DEF RInv, Quiet, Building
<1> QED  BY <1>1, <1>4, <1>5 DEF RInv

-----------------------------------------------------------------------------
(* The chain of state updates                                              *)

\* What an operation may do once it holds the lock: end, begin its frame, or go on.
Outcome ==
  \/ Finish /\ (frame' = frame \/ frame' = [frame EXCEPT !["chain"] = "none"])
  \/ /\ ~destroyed /\ \E how, misfit : FrameBegins(how, misfit)
     /\ Op.kind \in {"config", "source"} /\ (Op.kind = "config" => frameProcessing')
  \/ /\ step' \in Locked /\ UNCHANGED flowVars
     /\ step' = "adapter" => Op.kind = "recover"

LEMMA OutcomeShape ==
  ASSUME Shape, step \in Locked, Outcome, gen' \in Nat,
         base' \in [Builder -> {"none", "current", "old"}]
  PROVE  Shape' /\ \A x \in Act : frame'[x] = "build" => frame[x] = "build"
<1>1. frame["chain"] = "none" /\ chain # <<>> /\ chain \in Seq(Ops) /\ frame \in [Act -> Places]
  BY DEF Shape, Locked
<1>2. CASE Finish /\ (frame' = frame \/ frame' = [frame EXCEPT !["chain"] = "none"])
  <2>1. frame' = frame
    BY <1>1, <1>2
  <2>2. step' = "none" /\ chain' \in Seq(Ops)
    BY <1>1, <1>2 DEF Finish
  <2> QED  BY <1>1, <2>1, <2>2 DEF Shape, Steps
<1>3. CASE ~destroyed /\ \E how, misfit : FrameBegins(how, misfit)
  <2>1. PICK how, misfit : FrameBegins(how, misfit)
    BY <1>3
  <2> DEFINE e == EntryOf(FALSE, misfit)
  <2>2. e \in {"copy", "queue"}
    BY <1>3, Entries
  <2>3. step' = "frame" /\ frame' = [frame EXCEPT !["chain"] = e] /\ chain' = chain
    BY <2>1 DEF FrameBegins
  <2> HIDE DEF e
  <2>4. frame' \in [Act -> Places] /\ frame'["chain"] = e /\ frame'["loop"] = frame["loop"]
    BY <1>1, <2>2, <2>3 DEF Act, Places
  <2> QED  BY <1>1, <2>2, <2>3, <2>4 DEF Shape, Steps, Act
<1>4. CASE step' \in Locked /\ UNCHANGED flowVars
  BY <1>1, <1>4 DEF Shape, Steps, Locked, flowVars
<1> QED  BY <1>2, <1>3, <1>4 DEF Outcome

LEMMA OutcomeAlone ==
  ASSUME Shape, Alone, step \in Locked, Outcome, UNCHANGED due
  PROVE  Alone'
<1>1. /\ frame["chain"] = "none" /\ frame["loop"] = "none" /\ frame \in [Act -> Places]
      /\ rebuilding /\ (Op.kind = "source" => ~armed /\ ~due)
  BY DEF Shape, Alone, Locked
<1>2. CASE Finish /\ (frame' = frame \/ frame' = [frame EXCEPT !["chain"] = "none"])
  <2>1. frame' = frame
    BY <1>1, <1>2
  <2>2. step' = "none"
    BY <1>2 DEF Finish
  <2> QED  BY <1>1, <2>1, <2>2 DEF Alone, Locked, Act
<1>3. CASE /\ ~destroyed /\ \E how, misfit : FrameBegins(how, misfit)
           /\ Op.kind \in {"config", "source"} /\ (Op.kind = "config" => frameProcessing')
  <2>1. PICK how, misfit : FrameBegins(how, misfit)
    BY <1>3
  <2> DEFINE e == EntryOf(FALSE, misfit)
  <2>2. e \in {"copy", "queue"}
    BY <1>3, Entries
  <2>3. /\ step' = "frame" /\ frame' = [frame EXCEPT !["chain"] = e] /\ chain' = chain
        /\ armed' = armed /\ rebuilding' = (e = "queue")
    BY <2>1 DEF FrameBegins
  <2> HIDE DEF e
  <2>4. frame'["chain"] = e /\ frame'["loop"] = "none"
    BY <1>1, <2>2, <2>3 DEF Act
  <2>5. rebuilding' <=> e = "queue"
    BY <2>3
  <2>6. Op' = Op
    BY <2>3 DEF Op
  <2>7. Op.kind = "source" => ~armed' /\ ~due'
    BY <1>1, <2>3
  <2> QED  BY <1>3, <2>2, <2>3, <2>4, <2>5, <2>6, <2>7 DEF Alone, Locked, Act
<1>4. CASE /\ step' \in Locked /\ UNCHANGED flowVars
           /\ step' = "adapter" => Op.kind = "recover"
  <2>1. UNCHANGED <<frame, chain, rebuilding, armed>> /\ Op' = Op
    BY <1>4 DEF flowVars, Op
  <2> QED  BY <1>1, <1>4, <2>1 DEF Alone, Locked, Act
<1> QED  BY <1>2, <1>3, <1>4 DEF Outcome

\* The ends of an operation are outcomes.
LEMMA Outcomes ==
  ASSUME ~destroyed => Op.kind \in Kind
  PROVE  /\ \A b \in BOOLEAN : ConfigurationEnds(b) => Outcome
         /\ Op.kind = "config" /\ Commit => Outcome
         /\ Op.kind = "config" /\ ConfigurationFails => Outcome
         /\ FailsClosed \/ Unlock => Outcome
         /\ \A b \in BOOLEAN : SourceGoesOn(b) => Outcome
<1>1. \A b \in BOOLEAN : ConfigurationEnds(b) => Outcome
  BY DEF ConfigurationEnds, Outcome
<1>2. Op.kind = "config" /\ Commit => Outcome
  BY <1>1 DEF Commit, Outcome
<1>3. Op.kind = "config" /\ ConfigurationFails => Outcome
  BY <1>1 DEF ConfigurationFails, Outcome
<1>4. FailsClosed \/ Unlock => Outcome
  BY DEF FailsClosed, Unlock, Outcome
<1>5. \A b \in BOOLEAN : SourceGoesOn(b) => Outcome
  BY DEF SourceGoesOn, Outcome
<1> QED  BY <1>1, <1>2, <1>3, <1>4, <1>5

\* What is reported or destroyed stays so.
Monotone == (reported => reported') /\ (destroyed => destroyed')

LEMMA OutcomesMonotone ==
  /\ Commit \/ ConfigurationFails \/ FailsClosed \/ SourceGoesOn(FALSE) \/ GivesUp => Monotone
  /\ UNCHANGED flowVars => Monotone
  /\ Unlock /\ UNCHANGED reported => Monotone
  /\ \A how, misfit : FrameBegins(how, misfit) => Monotone
<1>0. UNCHANGED <<reported, destroyed>> => Monotone
  BY DEF Monotone
<1>a. \A how, misfit : FrameBegins(how, misfit) => UNCHANGED <<reported, destroyed>>
  BY DEF FrameBegins
<1>1. Commit => Monotone
  <2>1. Commit => \/ FrameBegins(IF pending THEN "drain" ELSE "locked", stale)
                  \/ UNCHANGED <<reported, destroyed>>
    BY DEF Commit
  <2> QED  BY <1>0, <1>a, <2>1
<1>2. ConfigurationFails => Monotone
  <2>1. ConfigurationFails => \/ FrameBegins("drain", stale)
                              \/ UNCHANGED <<reported, destroyed>>
    BY DEF ConfigurationFails
  <2> QED  BY <1>0, <1>a, <2>1
<1>3. FailsClosed => Monotone
  BY DEF FailsClosed, Monotone
<1>4. SourceGoesOn(FALSE) => Monotone
  <2>1. SourceGoesOn(FALSE) => (reported' = (reported \/ FALSE)) /\ (destroyed' = destroyed)
    BY DEF SourceGoesOn
  <2> QED  BY <2>1, Zenon DEF Monotone
<1>5. GivesUp => Monotone
  BY DEF GivesUp, Unlock, Monotone
<1>6. UNCHANGED flowVars => Monotone
  BY DEF flowVars, Monotone
<1>7. Unlock /\ UNCHANGED reported => Monotone
  BY DEF Unlock, Monotone
<1>8. \A how, misfit : FrameBegins(how, misfit) => Monotone
  BY <1>0, <1>a
<1> QED  BY <1>1, <1>2, <1>3, <1>4, <1>5, <1>6, <1>7, <1>8

\* An operation that ends, or begins its frame, does not build.
LEMMA OutcomesBuild ==
  /\ Commit \/ ConfigurationFails \/ FailsClosed \/ SourceGoesOn(FALSE) \/ Unlock => step' # "build"
  /\ \A how, misfit : FrameBegins(how, misfit) => step' # "build"
<1>1. \A how, misfit : FrameBegins(how, misfit) => step' # "build"
  BY DEF FrameBegins
<1>2. Finish => step' # "build"
  BY DEF Finish
<1>3. Commit \/ ConfigurationFails \/ FailsClosed \/ SourceGoesOn(FALSE) \/ Unlock => step' # "build"
  BY <1>1, <1>2 DEF Commit, ConfigurationFails, FailsClosed, SourceGoesOn, Unlock, ConfigurationEnds
<1> QED  BY <1>1, <1>3

\* An operation that holds the lock and neither builds nor replaces the texture.
LEMMA NobodyBuilds ==
  ASSUME Shape, Alone, step \in Locked
  PROVE  \A x \in Act : frame[x] = "none"
  BY DEF Shape, Alone, Locked, Act

\* The state after an operation at the lock: only what it says of builds is left to show.
LEMMA LockedKeeps ==
  ASSUME RInv, step \in Locked, Outcome, UNCHANGED due,
         late => late', gen' \in Nat, base' \in [Builder -> {"none", "current", "old"}],
         Quiet => /\ step' = "build" => base'["op"] = "current"
                  /\ reported' \/ destroyed' \/ fits' \/ (step' = "build" /\ Op'.kind # "config")
  PROVE  RInv'
<1>1. Shape' /\ \A x \in Act : frame'[x] = "build" => frame[x] = "build"
  BY OutcomeShape DEF RInv
<1>2. CASE Quiet
  <2>1. Alone'
    BY <1>2, OutcomeAlone DEF RInv, Quiet
  <2>2. \A x \in Act : frame'[x] # "build"
    BY <1>1, <1>2, NobodyBuilds DEF RInv, Quiet
  <2>3. Building'
    BY <1>2, <2>2 DEF Building
  <2> QED  BY <1>1, <2>1, <2>3 DEF RInv, Quiet
<1> QED  BY <1>1, <1>2 DEF RInv

\* Before an operation at the lock that does not build, the pipelines fit unless it is over.
LEMMA LockedFits ==
  ASSUME Shape, Quiet, step \in Locked, step = "build" => Op.kind = "config"
  PROVE  reported \/ destroyed \/ fits
<1>1. \A x \in Act : frame[x] # "build"
  BY NobodyBuilds DEF Quiet
<1> QED  BY <1>1 DEF Quiet, Building

LEMMA BeginsKeeps ==
  ASSUME RInv, Begins
  PROVE  RInv'
<1>1. /\ step = "none" /\ chain # <<>> /\ chain \in Seq(Ops) /\ frame["chain"] = "none"
      /\ UNCHANGED <<destroyed, late, armed, due, frameProcessing, rebuilding, frame, gen, base, fits>>
  BY DEF Begins, At, RInv, Shape, loopVars, deviceVars, textureVars
<1>2. \/ Finish /\ (reported => reported')
      \/ step' = "idle" /\ chain' = chain /\ reported' = reported
  BY DEF Begins
<1>3. chain' \in Seq(Ops) /\ (step' = "none" \/ (step' = "idle" /\ chain' # <<>>))
      /\ (reported => reported')
  BY <1>1, <1>2 DEF Finish
<1>4. Shape'
  BY <1>1, <1>3 DEF RInv, Shape, Steps
<1>5. CASE Quiet
  <2>1. Alone'
    BY <1>1, <1>3, <1>5 DEF Quiet, Alone, Locked
  <2>2. Building'
    BY <1>1, <1>3, <1>5 DEF Quiet, Building
  <2> QED  BY <1>4, <2>1, <2>2 DEF RInv, Quiet
<1> QED  BY <1>1, <1>4, <1>5 DEF RInv

LEMMA TakesLockKeeps ==
  ASSUME RInv, TakesLock
  PROVE  RInv'
<1>1. /\ step = "idle" /\ chain # <<>> /\ chain \in Seq(Ops) /\ frame["chain"] = "none"
      /\ UNCHANGED <<destroyed, reported, gen, base, fits>>
      /\ late' = (late \/ Busy)
  BY DEF TakesLock, At, Waited, RInv, Shape, deviceVars, textureVars
<1>2. CASE Finish /\ UNCHANGED loopVars
  <2>1. chain' \in Seq(Ops) /\ step' = "none"
    BY <1>1, <1>2 DEF Finish
  <2>2. UNCHANGED <<frame, frameProcessing, rebuilding>>
    BY <1>2 DEF loopVars
  <2>3. Shape'
    BY <1>1, <2>1, <2>2 DEF RInv, Shape, Steps
  <2>4. CASE Quiet
    <3>1. Alone'
      BY <1>1, <2>1, <2>2, <2>4 DEF Quiet, Alone, Locked
    <3>2. Building'
      BY <1>1, <2>1, <2>2, <2>4 DEF Quiet, Building
    <3> QED  BY <2>3, <3>1, <3>2 DEF RInv, Quiet
  <2> QED  BY <1>1, <2>3, <2>4 DEF RInv
<1>3. CASE /\ rebuilding' = TRUE /\ StopCallbacks /\ due' = (due /\ Op.kind # "source")
           /\ step' = "frameIdle" /\ UNCHANGED <<chain, frameProcessing, frame>>
  <2>1. Shape'
    BY <1>1, <1>3 DEF RInv, Shape, Steps, Locked
  <2>2. CASE Quiet /\ ~Busy
    <3>1. frame["loop"] = "none"
      BY <2>2 DEF Quiet, Alone, Busy
    <3>2. ~armed' /\ (Op.kind = "source" => ~due')
      BY <1>3 DEF StopCallbacks
    <3>3. Alone'
      BY <1>1, <1>3, <3>1, <3>2 DEF Alone, Locked, Op, Act
    <3>4. Building'
      BY <1>1, <1>3, <2>2 DEF Quiet, Building
    <3> QED  BY <2>1, <3>3, <3>4 DEF RInv, Quiet
  <2>3. late' \/ (Quiet /\ ~Busy)
    BY <1>1 DEF RInv
  <2> QED  BY <2>1, <2>2, <2>3 DEF RInv
<1> QED  BY <1>2, <1>3 DEF TakesLock

LEMMA HasFramesKeeps ==
  ASSUME RInv, HasFrames
  PROVE  RInv'
<1>1. /\ step = "frameIdle" /\ step \in Locked /\ chain # <<>> /\ Op.kind \in Kind
      /\ UNCHANGED <<due, base, fits>> /\ gen' \in Nat
      /\ late' = (late \/ frameProcessing)
  <2>1. Op \in Ops
    BY DEF HasFrames, At, Op, RInv, Shape
  <2>2. step = "frameIdle" /\ step \in Locked /\ chain # <<>>
    BY DEF HasFrames, At, Locked
  <2>3. Op.kind \in Kind
    BY <2>1 DEF Ops
  <2>4. UNCHANGED <<due, base, fits>>
    BY DEF HasFrames
  <2>5. gen' = gen \/ gen' = gen + 1
    BY DEF HasFrames
  <2>6. gen' \in Nat
    BY <2>5 DEF RInv, Shape
  <2>7. late' = (late \/ frameProcessing)
    BY DEF HasFrames, Waited
  <2> QED  BY <2>2, <2>3, <2>4, <2>6, <2>7
<1>2. \/ Unlock /\ UNCHANGED reported
      \/ Op.kind = "config" /\ Commit
      \/ step' = "queue" /\ UNCHANGED flowVars
      \/ ~destroyed /\ Op.kind = "source" /\ \E how, misfit : FrameBegins(how, misfit)
      \/ SourceGoesOn(FALSE)
      \/ Op.kind = "recover" /\ step' = "adapter" /\ UNCHANGED flowVars
  BY DEF HasFrames
<1>3. Outcome
  BY <1>1, <1>2, Outcomes DEF Outcome, Locked
<1>4. Monotone /\ step' # "build"
  BY <1>2, OutcomesMonotone, OutcomesBuild
<1>5. Quiet => reported \/ destroyed \/ fits
  BY <1>1, LockedFits DEF RInv
<1>6. base' \in [Builder -> {"none", "current", "old"}]
  BY <1>1 DEF RInv, Shape
<1> QED  BY <1>1, <1>3, <1>4, <1>5, <1>6, LockedKeeps DEF Monotone

LEMMA QueueIdleKeeps ==
  ASSUME RInv, QueueIdle
  PROVE  RInv'
<1>1. /\ step = "queue" /\ step \in Locked /\ chain # <<>> /\ Op.kind \in Kind
      /\ UNCHANGED <<due, late, gen>> /\ gen' \in Nat
  <2>1. Op \in Ops
    BY DEF QueueIdle, At, Op, RInv, Shape
  <2> QED
    BY <2>1 DEF QueueIdle, At, Locked, RInv, Shape, Ops, deviceVars
<1>2. Quiet => reported \/ destroyed \/ fits
  BY <1>1, LockedFits DEF RInv
<1>3. CASE /\ step' = "build" /\ base' = [base EXCEPT !["op"] = "current"]
           /\ UNCHANGED <<flowVars, fits>>
  <2>1. Outcome /\ Monotone
    BY <1>3, OutcomesMonotone DEF Outcome, Locked
  <2>2. base' \in [Builder -> {"none", "current", "old"}] /\ base'["op"] = "current"
    BY <1>3 DEF RInv, Shape, Builder
  <2> QED  BY <1>1, <1>2, <1>3, <2>1, <2>2, LockedKeeps DEF Monotone
<1>4. CASE /\ \/ Op.kind = "config" /\ (Commit \/ FailsClosed)
              \/ Unlock /\ UNCHANGED reported
           /\ UNCHANGED <<base, fits>>
  <2>1. Outcome /\ Monotone /\ step' # "build"
    BY <1>1, <1>4, Outcomes, OutcomesMonotone, OutcomesBuild
  <2>2. base' \in [Builder -> {"none", "current", "old"}]
    BY <1>4 DEF RInv, Shape
  <2> QED  BY <1>1, <1>2, <1>4, <2>1, <2>2, LockedKeeps DEF Monotone
<1>5. CASE Op.kind = "source" /\ step' = "build" /\ NewTexture("op") /\ UNCHANGED flowVars
  <2>1. Outcome /\ Monotone
    BY <1>5, OutcomesMonotone DEF Outcome, Locked
  <2>2. base' \in [Builder -> {"none", "current", "old"}] /\ base'["op"] = "current"
    BY <1>5 DEF NewTexture, Builder
  <2>3. Op' = Op
    BY <1>5 DEF flowVars, Op
  <2> QED  BY <1>1, <1>5, <2>1, <2>2, <2>3, LockedKeeps
<1> QED  BY <1>3, <1>4, <1>5 DEF QueueIdle

LEMMA DeviceComesKeeps ==
  ASSUME RInv, DeviceComes
  PROVE  RInv'
<1>1. /\ step = "adapter" /\ step \in Locked /\ chain # <<>> /\ Op.kind \in Kind
      /\ UNCHANGED <<due, late, gen>> /\ gen' \in Nat
  <2>1. Op \in Ops
    BY DEF DeviceComes, At, Op, RInv, Shape
  <2> QED
    BY <2>1 DEF DeviceComes, At, Locked, RInv, Shape, Ops
<1>2. CASE GivesUp /\ UNCHANGED base
  <2>1. Outcome /\ step' # "build" /\ reported'
    BY <1>1, <1>2, Outcomes, OutcomesBuild DEF GivesUp
  <2>2. base' \in [Builder -> {"none", "current", "old"}]
    BY <1>2 DEF RInv, Shape
  <2> QED  BY <1>1, <2>1, <2>2, LockedKeeps
<1>3. CASE step' = "build" /\ NewTexture("op") /\ UNCHANGED flowVars
  <2>1. Outcome
    BY <1>3 DEF Outcome, Locked
  <2>2. base' \in [Builder -> {"none", "current", "old"}] /\ base'["op"] = "current"
    BY <1>3 DEF NewTexture, Builder
  <2>3. Op' = Op
    BY <1>3 DEF flowVars, Op
  <2>4. Quiet => Op.kind = "recover"
    BY <1>1 DEF Quiet, Alone
  <2> QED  BY <1>1, <1>3, <2>1, <2>2, <2>3, <2>4, LockedKeeps
<1> QED  BY <1>2, <1>3 DEF DeviceComes

LEMMA BuiltKeeps ==
  ASSUME RInv, Built
  PROVE  RInv'
<1>1. /\ step = "build" /\ step \in Locked /\ chain # <<>> /\ Op.kind \in Kind
      /\ UNCHANGED <<due, late, gen>> /\ gen' \in Nat
  <2>1. Op \in Ops
    BY DEF Built, At, Op, RInv, Shape
  <2> QED
    BY <2>1 DEF Built, At, Locked, RInv, Shape, Ops, deviceVars
<1>2. PICK failed \in BOOLEAN : BuildEnds("op", failed)
  BY DEF Built
<1>3. base' \in [Builder -> {"none", "current", "old"}]
  BY <1>2 DEF BuildEnds, RInv, Shape
<1>4. CASE /\ BuildEnds("op", FALSE)
           /\ \/ Op.kind = "config" /\ (Commit \/ FailsClosed)
              \/ Op.kind = "source" /\ ~destroyed /\ FrameBegins("once", stale)
              \/ Op.kind = "source" /\ SourceGoesOn(FALSE)
              \/ Op.kind = "recover" /\ step' = "present" /\ UNCHANGED flowVars
  <2>1. Outcome /\ step' # "build"
    BY <1>1, <1>4, Outcomes, OutcomesBuild DEF Outcome, Locked
  <2>2. Quiet => fits'
    <3>1. Quiet => base["op"] = "current"
      BY <1>1 DEF Quiet, Building
    <3> QED  BY <1>4, <3>1 DEF BuildEnds
  <2> QED  BY <1>1, <1>3, <2>1, <2>2, LockedKeeps
<1>5. CASE BuildEnds("op", TRUE) /\ Op.kind = "config" /\ ConfigurationFails
  <2>1. Outcome /\ step' # "build" /\ Monotone
    BY <1>1, <1>5, Outcomes, OutcomesBuild, OutcomesMonotone
  <2>2. Quiet => reported \/ destroyed \/ fits
    BY <1>1, <1>5, LockedFits DEF RInv
  <2>3. fits => fits'
    BY <1>5 DEF BuildEnds
  <2> QED  BY <1>1, <1>3, <2>1, <2>2, <2>3, LockedKeeps DEF Monotone
<1>6. CASE GivesUp
  <2>1. Outcome /\ step' # "build" /\ reported'
    BY <1>1, <1>6, Outcomes, OutcomesBuild DEF GivesUp
  <2> QED  BY <1>1, <1>3, <2>1, LockedKeeps
<1> QED  BY <1>4, <1>5, <1>6 DEF Built

LEMMA RecoversKeeps ==
  ASSUME RInv, Recovers
  PROVE  RInv'
<1>1. /\ step = "present" /\ step \in Locked /\ UNCHANGED <<due, late, gen, base, fits>>
      /\ gen' \in Nat /\ base' \in [Builder -> {"none", "current", "old"}]
  BY DEF Recovers, At, Locked, RInv, Shape, textureVars
<1>2. Finish /\ frame' = frame /\ Monotone
  BY DEF Recovers, GivesUp, Unlock, Monotone
<1>3. Outcome /\ step' # "build"
  BY <1>2 DEF Outcome, Finish
<1>4. Quiet => reported \/ destroyed \/ fits
  BY <1>1, LockedFits DEF RInv
<1> QED  BY <1>1, <1>2, <1>3, <1>4, LockedKeeps DEF Monotone

-----------------------------------------------------------------------------
(* Everything else                                                         *)

\* A request joins the chain behind the operation that runs.
LEMMA RequestKeeps ==
  ASSUME RInv, NEW op \in Ops, chain' = Append(chain, op) \/ chain' = chain,
         UNCHANGED <<late, loopVars, step, gen, base, fits, reported, destroyed>>
  PROVE  RInv'
<1>1. /\ chain \in Seq(Ops) /\ chain' \in Seq(Ops)
      /\ step # "none" => chain' # <<>> /\ Op' = Op
  BY HeadStays DEF RInv, Shape, Op
<1>2. UNCHANGED <<armed, due, frameProcessing, rebuilding, frame>>
  BY DEF loopVars
<1>3. Shape'
  BY <1>1, <1>2 DEF RInv, Shape
<1>4. CASE Quiet
  <2>1. Alone'
    BY <1>1, <1>2, <1>4 DEF Quiet, Alone, Locked
  <2>2. Building'
    BY <1>1, <1>2, <1>4 DEF Quiet, Building
  <2> QED  BY <1>3, <2>1, <2>2 DEF RInv, Quiet
<1> QED  BY <1>3, <1>4 DEF RInv

LEMMA RequestsKeep ==
  ASSUME RInv, (\E k \in {"config", "source"} : Update(k)) \/ LostEvent \/ ContextReported
  PROVE  RInv'
<1>1. \A k \in {"config", "source"} : [kind |-> k, gen |-> 0] \in Ops
  BY DEF Ops, Kind
<1>2. Recovery \in Ops
  BY DEF Recovery, Ops, Kind, RInv, Shape
<1>3. CASE \E k \in {"config", "source"} : Update(k)
  BY <1>1, <1>3, RequestKeeps DEF Update, endVars, deviceVars, textureVars
<1>4. CASE LostEvent \/ ContextReported
  BY <1>2, <1>4, RequestKeeps DEF LostEvent, ContextReported, endVars, textureVars
<1> QED  BY <1>3, <1>4

\* Outside the chain nothing moves a frame or an operation.
LEMMA OutsideKeeps ==
  ASSUME RInv, Destroy \/ Release \/ FrameDue \/ Resizes \/ LosesDevice \/ UNCHANGED vars
  PROVE  RInv'
<1>1. /\ UNCHANGED <<chain, step, frame, frameProcessing, rebuilding, gen, base, fits, reported>>
      /\ (late => late') /\ (destroyed => destroyed') /\ (~armed => ~armed')
      /\ ~armed /\ ~due => ~due'
  <2>1. CASE Destroy
    BY <2>1 DEF Destroy, StopCallbacks, chainVars, deviceVars, textureVars
  <2>2. CASE Release
    BY <2>2 DEF Release, Waited, loopVars, chainVars, textureVars
  <2>3. CASE FrameDue
    BY <2>3 DEF FrameDue, endVars, chainVars, deviceVars, textureVars
  <2>4. CASE Resizes \/ LosesDevice \/ UNCHANGED vars
    BY <2>4 DEF Resizes, LosesDevice, vars, endVars, loopVars, chainVars, deviceVars, textureVars
  <2> QED  BY <2>1, <2>2, <2>3, <2>4
<1>2. Shape'
  BY <1>1 DEF RInv, Shape
<1>3. CASE Quiet
  <2>1. Alone'
    BY <1>1, <1>3 DEF Quiet, Alone, Op
  <2>2. Building'
    BY <1>1, <1>3 DEF Quiet, Building, Op
  <2> QED  BY <1>2, <2>1, <2>2 DEF RInv, Quiet
<1> QED  BY <1>1, <1>2, <1>3 DEF RInv

LEMMA RenderStep == ASSUME RInv, [Next]_vars PROVE RInv'
<1>1. CASE VideoFrame
  BY <1>1, VideoFrameKeeps
<1>2. CASE \E a \in Act : FrameStep(a)
  BY <1>2, CopyDoneKeeps, RebuildStartsKeeps, RebuildEndsKeeps DEF FrameStep
<1>3. CASE (\E k \in {"config", "source"} : Update(k)) \/ LostEvent \/ ContextReported
  BY <1>3, RequestsKeep
<1>4. CASE ChainStep
  BY <1>4, BeginsKeeps, TakesLockKeeps, HasFramesKeeps, QueueIdleKeeps, DeviceComesKeeps, BuiltKeeps,
     RecoversKeeps DEF ChainStep
<1>5. CASE Destroy \/ Release \/ FrameDue \/ Resizes \/ LosesDevice \/ UNCHANGED vars
  BY <1>5, OutsideKeeps
<1> QED  BY <1>1, <1>2, <1>3, <1>4, <1>5 DEF Next

LEMMA InitRender == ASSUME Init PROVE RInv
<1>1. /\ frame = [a \in Act |-> "none"] /\ step = "none" /\ chain = <<>> /\ gen = 1
      /\ base = [b \in Builder |-> "none"] /\ fits
  BY DEF Init
<1>2. Shape
  BY <1>1 DEF Shape, Steps, Places, Act
<1>3. Alone
  BY <1>1 DEF Alone, Locked, Act
<1>4. Building
  BY <1>1 DEF Building
<1> QED  BY <1>2, <1>3, <1>4 DEF RInv, Quiet

-----------------------------------------------------------------------------
(* The callback stays armed                                                *)

\* A renderer that is neither over nor in an error has its callback armed, or is under an
\* operation that will arm it.
Over  == armed \/ destroyed \/ reported
Alive == Over \/ step \in Locked \cup {"frame"}

\* An operation at the lock that ends arms the callback; one that does not end stays under way.
LEMMA OutcomesArm ==
  /\ \A b \in BOOLEAN : ConfigurationEnds(b) => armed' \/ destroyed
  /\ SourceGoesOn(FALSE) => armed' \/ destroyed
  /\ \A how, misfit : FrameBegins(how, misfit) => step' = "frame"
  /\ FailsClosed \/ GivesUp => destroyed' \/ reported'
<1>1. \A b \in BOOLEAN : ConfigurationEnds(b) => armed' \/ destroyed
  BY DEF ConfigurationEnds
<1>2. SourceGoesOn(FALSE) => armed' \/ destroyed
  BY DEF SourceGoesOn
<1>3. \A how, misfit : FrameBegins(how, misfit) => step' = "frame"
  BY DEF FrameBegins
<1>4. FailsClosed \/ GivesUp => destroyed' \/ reported'
  BY DEF FailsClosed, GivesUp
<1> QED  BY <1>1, <1>2, <1>3, <1>4

LEMMA CommitsArm ==
  ASSUME Commit \/ ConfigurationFails
  PROVE  Alive'
<1>1. CASE \E how, misfit : FrameBegins(how, misfit)
  BY <1>1, OutcomesArm DEF Alive
<1>2. CASE ConfigurationEnds(FALSE) /\ UNCHANGED destroyed
  BY <1>2, OutcomesArm DEF Alive, Over
<1> QED  BY <1>1, <1>2 DEF Commit, ConfigurationFails

\* What follows a frame takes back neither destroy() nor a report.
LEMMA GoesOnForGood ==
  ASSUME NEW a \in Act, NEW failed \in BOOLEAN, NEW locked, GoesOn(a, failed, locked)
  PROVE  Monotone
<1>1. CASE LoopGoesOn(failed, locked)
  <2>1. destroyed' = destroyed
    BY <1>1 DEF LoopGoesOn
  <2>2. UNCHANGED reported \/ reported' = (reported \/ Fatal(failed))
    BY <1>1 DEF LoopGoesOn
  <2>3. CASE UNCHANGED reported
    BY <2>1, <2>3 DEF Monotone
  <2>4. CASE reported' = (reported \/ Fatal(failed))
    BY <2>1, <2>4, Zenon DEF Monotone
  <2> QED  BY <2>2, <2>3, <2>4
<1>2. CASE ConfigurationGoesOn(failed, locked)
  <2>1. CASE UNCHANGED <<reported, destroyed>> \/ (destroyed' = TRUE /\ reported' = TRUE)
    BY <2>1 DEF Monotone
  <2>2. CASE destroyed' = destroyed /\ (reported' = (reported \/ ~destroyed))
    BY <2>2, Zenon DEF Monotone
  <2> QED  BY <1>2, <2>1, <2>2 DEF ConfigurationGoesOn
<1>3. CASE SourceGoesOn(failed)
  <2>1. destroyed' = destroyed /\ (reported' = (reported \/ failed))
    BY <1>3 DEF SourceGoesOn
  <2> QED  BY <2>1, Zenon DEF Monotone
<1> QED  BY <1>1, <1>2, <1>3 DEF GoesOn

\* Frames of the loop do not touch the chain.
LEMMA LoopSteps ==
  ASSUME NEW failed, NEW locked, LoopGoesOn(failed, locked)
  PROVE  UNCHANGED <<chain, step, destroyed>>
  BY DEF LoopGoesOn, chainVars

LEMMA GoesOnArms ==
  ASSUME RInv, Alive, NEW a \in Act, frame[a] # "none", NEW failed \in BOOLEAN,
         NEW locked, GoesOn(a, failed, locked)
  PROVE  Alive'
<1>1. CASE LoopGoesOn(failed, locked)
  <2>1. step' = step /\ Monotone
    BY <1>1, GoesOnForGood, LoopSteps
  <2>2. (armed => armed') \/ destroyed' \/ reported'
    <3>1. armed' = armed \/ (/\ armed' = (armed /\ ~Fatal(failed))
                            /\ reported' = (reported \/ Fatal(failed)))
      BY <1>1 DEF LoopGoesOn
    <3> QED  BY <3>1, Zenon
  <2> QED  BY <2>1, <2>2 DEF Alive, Over, Monotone
<1>2. CASE a = "chain" /\ ConfigurationGoesOn(failed, locked)
  <2>1. step = "frame"
    BY <1>2 DEF RInv, Shape
  <2>2. step' = step \/ armed' \/ destroyed' \/ reported'
    <3>1. CASE ConfigurationEnds(locked) /\ (destroyed' = destroyed)
      <4>1. armed' = (armed \/ ~destroyed)
        BY <3>1 DEF ConfigurationEnds
      <4> QED  BY <3>1, <4>1, Zenon
    <3>2. CASE ~failed /\ Again(locked) /\ UNCHANGED step
      BY <3>2
    <3>3. CASE destroyed' = TRUE
      BY <3>3
    <3> QED  BY <1>2, <3>1, <3>2, <3>3 DEF ConfigurationGoesOn
  <2> QED  BY <2>1, <2>2 DEF Alive, Over
<1>3. CASE SourceGoesOn(failed)
  BY <1>3, Zenon DEF SourceGoesOn, Alive, Over
<1> QED  BY <1>1, <1>2, <1>3 DEF GoesOn

LEMMA FramesArm ==
  ASSUME RInv, Alive, NEW a \in Act, FrameStep(a)
  PROVE  Alive'
<1>1. CASE CopyDone(a) \/ RebuildEnds(a)
  <2>1. frame[a] # "none" /\ \E failed \in BOOLEAN : \E locked : GoesOn(a, failed, locked)
    BY <1>1 DEF CopyDone, RebuildEnds
  <2> QED  BY <2>1, GoesOnArms
<1>2. CASE RebuildStarts(a)
  <2>1. CASE GoesOn(a, FALSE, FALSE)
    BY <1>2, <2>1, GoesOnArms DEF RebuildStarts
  <2>2. CASE UNCHANGED <<armed, reported, destroyed, chainVars>>
    BY <2>2 DEF Alive, Over, chainVars
  <2> QED  BY <1>2, <2>1, <2>2 DEF RebuildStarts
<1> QED  BY <1>1, <1>2 DEF FrameStep

LEMMA ChainArms ==
  ASSUME RInv, Alive, ChainStep
  PROVE  Alive'
<1>1. step # "none" => Op.kind \in Kind
  <2>1. chain # <<>> => Op \in Ops
    BY DEF RInv, Shape, Op
  <2> QED  BY <2>1 DEF RInv, Shape, Ops
<1>2. CASE Begins
  <2>1. step = "none" /\ UNCHANGED <<armed, destroyed>>
    BY <1>2 DEF Begins, At, loopVars
  <2>2. reported => reported'
    BY <1>2, Zenon DEF Begins
  <2> QED  BY <2>1, <2>2 DEF Alive, Over, Locked
<1>3. CASE TakesLock
  <2>1. step = "idle" /\ UNCHANGED <<destroyed, reported>>
    BY <1>3 DEF TakesLock, At
  <2>2. armed' = armed \/ step' = "frameIdle"
    BY <1>3 DEF TakesLock, loopVars
  <2> QED  BY <2>1, <2>2 DEF Alive, Over, Locked
<1>4. CASE HasFrames
  <2>1. \/ Commit
        \/ step' \in Locked
        \/ \E how, misfit : FrameBegins(how, misfit)
        \/ SourceGoesOn(FALSE) /\ ~destroyed
        \/ destroyed /\ Unlock
    BY <1>4 DEF HasFrames, Locked
  <2> QED  BY <2>1, CommitsArm, OutcomesArm DEF Alive, Over, Unlock
<1>5. CASE QueueIdle
  <2>1. Commit \/ FailsClosed \/ step' \in Locked \/ (destroyed /\ Unlock)
    BY <1>5 DEF QueueIdle, Locked
  <2> QED  BY <2>1, CommitsArm, OutcomesArm DEF Alive, Over, Unlock
<1>6. CASE DeviceComes
  <2>1. GivesUp \/ step' \in Locked
    BY <1>6 DEF DeviceComes, Locked
  <2> QED  BY <2>1, OutcomesArm DEF Alive, Over
<1>7. CASE Built
  <2>1. \/ Commit \/ ConfigurationFails \/ FailsClosed \/ GivesUp
        \/ step' \in Locked
        \/ \E how, misfit : FrameBegins(how, misfit)
        \/ SourceGoesOn(FALSE)
    BY <1>7 DEF Built, Locked
  <2>2. SourceGoesOn(FALSE) => destroyed' = destroyed
    BY DEF SourceGoesOn
  <2> QED  BY <2>1, <2>2, CommitsArm, OutcomesArm DEF Alive, Over
<1>8. CASE Recovers
  <2>1. GivesUp \/ (armed' = (armed \/ ~destroyed) /\ destroyed' = destroyed)
    BY <1>8 DEF Recovers
  <2> QED  BY <2>1, OutcomesArm DEF Alive, Over
<1> QED  BY <1>2, <1>3, <1>4, <1>5, <1>6, <1>7, <1>8 DEF ChainStep

LEMMA AliveStep ==
  ASSUME RInv, Alive, [Next]_vars
  PROVE  Alive'
<1>1. CASE VideoFrame
  BY <1>1 DEF VideoFrame, Alive, Over
<1>2. CASE \E a \in Act : FrameStep(a)
  BY <1>2, FramesArm
<1>3. CASE ChainStep
  BY <1>3, ChainArms
<1>4. CASE Destroy
  BY <1>4 DEF Destroy, Alive, Over
<1>5. CASE \/ \E k \in {"config", "source"} : Update(k)
           \/ Release \/ FrameDue \/ Resizes \/ LosesDevice \/ LostEvent \/ ContextReported
           \/ UNCHANGED vars
  <2>1. UNCHANGED <<armed, destroyed, reported, step>>
    BY <1>5 DEF Update, Release, FrameDue, Resizes, LosesDevice, LostEvent, ContextReported,
                vars, endVars, loopVars, chainVars
  <2> QED  BY <2>1 DEF Alive, Over
<1> QED  BY <1>1, <1>2, <1>3, <1>4, <1>5 DEF Next

-----------------------------------------------------------------------------
(* After destroy()                                                         *)

\* What destroy() released stays released: the renderer is quiet, unless a wait gave up.
Still == released => destroyed /\ (late \/ (dev = "down" /\ ~rebuilding))

\* Destroyed stays destroyed, and late stays late.
LEMMA ForGood ==
  ASSUME [Next]_vars
  PROVE  (destroyed => destroyed') /\ (late => late')
<1>1. CASE \/ VideoFrame \/ Destroy \/ Release \/ FrameDue \/ Resizes \/ LosesDevice
           \/ LostEvent \/ ContextReported \/ UNCHANGED vars
           \/ \E k \in {"config", "source"} : Update(k)
  <2>1. CASE Release
    BY <2>1 DEF Release, Waited
  <2>2. CASE Destroy
    BY <2>2 DEF Destroy
  <2>3. CASE \/ VideoFrame \/ FrameDue \/ Resizes \/ LosesDevice
             \/ LostEvent \/ ContextReported \/ UNCHANGED vars
             \/ \E k \in {"config", "source"} : Update(k)
    <3>1. UNCHANGED endVars
      BY <2>3 DEF VideoFrame, FrameDue, Resizes, LosesDevice, LostEvent, ContextReported, Update, vars
    <3> QED  BY <3>1 DEF endVars
  <2> QED  BY <1>1, <2>1, <2>2, <2>3
<1>2. CASE \E a \in Act : FrameStep(a)
  <2>1. PICK a \in Act : FrameStep(a)
    BY <1>2
  <2>2. UNCHANGED late
    BY <2>1 DEF FrameStep, CopyDone, RebuildStarts, RebuildEnds
  <2>3. (\E failed \in BOOLEAN : \E locked : GoesOn(a, failed, locked)) \/ UNCHANGED destroyed
    BY <2>1 DEF FrameStep, CopyDone, RebuildStarts, RebuildEnds
  <2> QED  BY <2>2, <2>3, GoesOnForGood DEF Monotone
<1>3. CASE ChainStep
  <2>1. late => late'
    BY <1>3 DEF ChainStep, Begins, TakesLock, HasFrames, QueueIdle, DeviceComes, Built, Recovers, Waited
  <2>2. \/ Commit \/ ConfigurationFails \/ FailsClosed \/ SourceGoesOn(FALSE) \/ Unlock
        \/ UNCHANGED destroyed \/ \E how, misfit : FrameBegins(how, misfit)
    BY <1>3 DEF ChainStep, Begins, TakesLock, HasFrames, QueueIdle, DeviceComes, Built, Recovers,
                GivesUp, flowVars
  <2>3. Unlock => UNCHANGED destroyed
    BY DEF Unlock
  <2>4. CASE Unlock \/ UNCHANGED destroyed
    BY <2>1, <2>3, <2>4
  <2>5. CASE Monotone
    BY <2>1, <2>5 DEF Monotone
  <2> QED  BY <2>2, <2>4, <2>5, OutcomesMonotone
<1> QED  BY <1>1, <1>2, <1>3 DEF Next

\* A frame that ends in a destroyed renderer that nobody holds leaves it so.
LEMMA FramesStill ==
  ASSUME destroyed, NEW a \in Act, NEW failed \in BOOLEAN, NEW locked, ~locked,
         GoesOn(a, failed, locked)
  PROVE  ~rebuilding'
<1>1. ~Again(locked)
  BY DEF Again, Entry, EntryOf
<1>2. LoopGoesOn(failed, locked) => ~rebuilding'
  BY <1>1 DEF LoopGoesOn
<1>3. ConfigurationGoesOn(failed, locked) => ~rebuilding'
  BY <1>1 DEF ConfigurationGoesOn, ConfigurationEnds
<1>4. SourceGoesOn(failed) => ~rebuilding'
  BY DEF SourceGoesOn
<1> QED  BY <1>2, <1>3, <1>4 DEF GoesOn

LEMMA StillStep ==
  ASSUME RInv, Still, [Next]_vars
  PROVE  Still'
<1>1. CASE Release
  BY <1>1 DEF Release, Waited, Busy, Still, loopVars
<1>2. CASE ~Release /\ ~released
  <2>1. UNCHANGED released
    BY <1>2 DEF Next, VideoFrame, FrameStep, CopyDone, RebuildStarts, RebuildEnds, Update, ChainStep,
                Begins, TakesLock, HasFrames, QueueIdle, DeviceComes, Built, Recovers, Destroy,
                FrameDue, Resizes, LosesDevice, LostEvent, ContextReported, vars, endVars
  <2> QED  BY <1>2, <2>1 DEF Still
<1>3. CASE released /\ late
  BY <1>3, ForGood DEF Still
<1>4. CASE released /\ ~late
  <2>1. destroyed /\ dev = "down" /\ ~rebuilding /\ Shape /\ Alone
    BY <1>4 DEF Still, RInv, Quiet
  <2>2. step \notin Locked /\ \A a \in Act : frame[a] \notin {"queue", "build"}
    BY <2>1 DEF Alone
  <2>3. dev' = "down" /\ ~rebuilding'
    <3>1. CASE \E a \in Act : FrameStep(a)
      <4>1. PICK a \in Act : CopyDone(a)
        BY <2>2, <3>1 DEF FrameStep, RebuildStarts, RebuildEnds
      <4>2. PICK failed \in BOOLEAN : GoesOn(a, failed, rebuilding)
        BY <4>1 DEF CopyDone
      <4>3. ~rebuilding /\ destroyed
        BY <2>1
      <4>4. ~rebuilding'
        BY <4>2, <4>3, FramesStill
      <4> QED  BY <2>1, <4>1, <4>4 DEF CopyDone, deviceVars
    <3>2. CASE ChainStep
      <4>1. Begins \/ TakesLock
        BY <2>2, <3>2 DEF ChainStep, HasFrames, QueueIdle, DeviceComes, Built, Recovers, At, Locked
      <4>2. UNCHANGED dev
        BY <4>1 DEF Begins, TakesLock, deviceVars
      <4>3. Begins => UNCHANGED rebuilding
        BY DEF Begins, loopVars
      <4>4. TakesLock => UNCHANGED rebuilding
        BY <2>1 DEF TakesLock, loopVars
      <4> QED  BY <2>1, <4>1, <4>2, <4>3, <4>4
    <3>3. CASE \/ VideoFrame \/ Destroy \/ Release \/ FrameDue \/ Resizes \/ LosesDevice
               \/ LostEvent \/ ContextReported \/ UNCHANGED vars
               \/ \E k \in {"config", "source"} : Update(k)
      BY <1>4, <2>1, <3>3 DEF VideoFrame, Destroy, Release, FrameDue, Resizes, LosesDevice, LostEvent,
                              ContextReported, Update, vars, loopVars, deviceVars
    <3> QED  BY <3>1, <3>2, <3>3 DEF Next
  <2> QED  BY <2>1, <2>3, ForGood DEF Still
<1> QED  BY <1>1, <1>2, <1>3, <1>4

-----------------------------------------------------------------------------
(* The theorems                                                            *)

LEMMA RenderInvariant == Spec => []RInv
<1>1. Init => RInv
  BY InitRender
<1>2. RInv /\ [Next]_vars => RInv'
  BY RenderStep
<1> QED  BY <1>1, <1>2, PTL DEF Spec

\* renderer.ts:1220-1223, :1366-1368, :1397-1399. Frame-path rebuilds and state updates never build
\* at the same time, and the flag that holds frames back is up as long as one of them does, unless
\* a wait of 5 s gave up.
THEOREM OneBuilderCorrect == Spec => []OneBuilder
<1>1. RInv => OneBuilder
  BY Consequences
<1> QED  BY <1>1, RenderInvariant, PTL

\* renderer.ts:1238-1240. A frame that is being copied is encoded on pipelines that read the texture
\* it was copied to, unless a wait gave up or a failure was reported.
THEOREM FramesFit == Spec => []FrameFitsPipelines
<1>1. RInv => FrameFitsPipelines
  BY Consequences
<1> QED  BY <1>1, RenderInvariant, PTL

\* Whatever updates, rebuilds and recoveries came before, an idle renderer that reported nothing
\* has its callback armed: the picture does not freeze.
THEOREM CallbackArmed == Spec => []LoopArmed
<1>1. Init => Alive
  BY DEF Init, Alive, Over
<1>2. RInv /\ Alive /\ [Next]_vars => Alive'
  BY AliveStep
<1>3. RInv /\ Alive => LoopArmed
  <2> SUFFICES ASSUME Shape, Alive, chain = <<>>, frame["chain"] = "none"
               PROVE  armed \/ destroyed \/ reported
    BY DEF LoopArmed, RInv, Act
  <2>1. step \notin Locked \cup {"frame"}
    BY DEF Shape, Locked
  <2> QED  BY <2>1 DEF Alive, Over
<1> QED  BY <1>1, <1>2, <1>3, RenderInvariant, PTL DEF Spec

\* renderer.ts:1442-1450. Nothing is acquired or built once destroy() has released everything,
\* unless a wait gave up.
THEOREM ReleaseCorrect == Spec => []ReleasedForGood
<1>1. Init => Still
  BY DEF Init, Still
<1>2. RInv /\ Still /\ [Next]_vars => Still'
  BY StillStep
<1>3. RInv /\ Still => ReleasedForGood
  BY BuildersOf DEF RInv, Quiet, Still, ReleasedForGood
<1> QED  BY <1>1, <1>2, <1>3, RenderInvariant, PTL DEF Spec
=============================================================================
