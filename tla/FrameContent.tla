---------------------------- MODULE FrameContent ----------------------------
(***************************************************************************)
(* What one RealESRGAN pipeline instance infers of every frame, and what   *)
(* it leaves on its persistent output texture: the letterbox tracker, the  *)
(* per-frame content decision, the tile plan, and the writer that pastes a *)
(* cropped result and re-attaches the bars.  FramePipeline has the slots,  *)
(* the watermark and the failure budget of the same frames.                *)
(*                                                                         *)
(* A frame is the bounding box of its bright pixels: the detectors and the *)
(* verification read nothing else of it.  Up to Depth frames are between   *)
(* capture and presentation, and their readbacks may complete in any       *)
(* order.                                                                  *)
(***************************************************************************)
EXTENDS FrameLayout

CONSTANTS
  Widths, Heights,   \* inference dimensions an instance may have
  XCuts, YCuts,      \* where, inside a frame, the edges of its content may be
  TargetWidths,      \* presentation widths a runner may be asked for (0: none)
  MinDim,            \* LETTERBOX_MIN_CONTENT_DIM
  Interval,          \* LETTERBOX_REDETECT_INTERVAL
  LargeTile,         \* 512: the tile of an ordinary frame
  SmallTile,         \* 384: the tile of a frame of BigFrame pixels or more
  BigFrame,          \* 1920 * 1080
  TileShare,         \* 16: the overlap is this share of a tile, less than half ...
  MaxOverlap,        \* ... and at most 24 pixels
  Gate, GateFrame,   \* 576 and 1024 * 576: frames inferred in one piece
  Depth              \* frames between capture and presentation

ASSUME FrameContentAssumption ==
  /\ Widths \subseteq Nat \ {0} /\ Heights \subseteq Nat \ {0}
  /\ XCuts \subseteq Nat \ {0} /\ YCuts \subseteq Nat \ {0} /\ TargetWidths \subseteq Nat
  /\ MinDim \in Nat /\ Interval \in Nat \ {0} /\ Depth \in Nat \ {0}
  /\ LargeTile \in Nat \ {0} /\ SmallTile \in 1..LargeTile
  /\ BigFrame \in Nat /\ TileShare \in 2..SmallTile /\ MaxOverlap \in Nat \ {0}
  /\ Gate \in Nat \ {0} /\ GateFrame \in Nat

VARIABLES
  dims,     \* the instance's geometry: inference, output and transport size
  tracker,  \* the LetterboxTracker
  flights,  \* the captured frames, oldest first
  runner,   \* a runner serves this instance
  writer,   \* the output writer: bar geometry, skips, GPU composer
  painted,  \* the areas of the output texture that are not black, and by whom
  shown,    \* where the result presented last lies on the texture
  landed    \* firstResultLanded

vars == <<dims, tracker, flights, runner, writer, painted, shown, landed>>

-----------------------------------------------------------------------------
(* Rectangles (realesrgan-letterbox.ts)                                    *)

\* No content, no active rectangle, no bar geometry.
None == Rect(0, 0, 0, 0)

FullContentRect == Rect(0, 0, dims.w, dims.h)

IsFullFrame(r) == r = FullContentRect

RectCovers(outer, inner) ==
  /\ outer.x <= inner.x /\ outer.y <= inner.y
  /\ outer.x + outer.width >= inner.x + inner.width
  /\ outer.y + outer.height >= inner.y + inner.height

ClampRect(r) ==
  LET x == Least(Most(0, r.x), dims.w)
      y == Least(Most(0, r.y), dims.h)
  IN  Rect(x, y, Least(Most(0, r.width), dims.w - x),
                 Least(Most(0, r.height), dims.h - y))

\* The rows, then the columns, that are not black from edge to edge.  A frame
\* without a bright pixel is kept whole.
DetectContentRect(box) == IF box = None THEN FullContentRect ELSE ClampRect(box)

\* Every pixel outside the crop is black: nothing bright lies there.
VerifyCropHolds(box, crop) == box = None \/ RectCovers(crop, box)

\* The part of the content that the runner's input holds after slicing.
CropSlice(box, crop) ==
  LET x0 == Most(box.x, crop.x)
      y0 == Most(box.y, crop.y)
      x1 == Least(box.x + box.width, crop.x + crop.width)
      y1 == Least(box.y + box.height, crop.y + crop.height)
  IN  IF x1 > x0 /\ y1 > y0 THEN Rect(x0, y0, x1 - x0, y1 - y0) ELSE None

Gcd(a, b) ==
  CHOOSE d \in 1..Most(a, b) :
    /\ a % d = 0 /\ b % d = 0
    /\ \A e \in d + 1..Most(a, b) : a % e # 0 \/ b % e # 0

\* Source pixels per line of the target grid along one axis.
SnapStep(full, target) == full \div Gcd(full, target)

MaxSnapStep == 4

SnapLow(at, step) == IF step <= MaxSnapStep THEN (at \div step) * step ELSE at
SnapHigh(at, step) == IF step <= MaxSnapStep THEN CeilDiv(at, step) * step ELSE at

\* The crop grown to the lines of the target grid, per axis, while the grid
\* is fine enough.
SnapCropToTargetGrid(r) ==
  LET sx == SnapStep(dims.w, dims.tw)
      sy == SnapStep(dims.h, dims.th)
      x0 == SnapLow(r.x, sx)
      y0 == SnapLow(r.y, sy)
  IN  IF dims.tw <= 0 \/ dims.th <= 0 \/ (sx <= 1 /\ sy <= 1) THEN r
      ELSE ClampRect(Rect(x0, y0, SnapHigh(r.x + r.width, sx) - x0,
                                  SnapHigh(r.y + r.height, sy) - y0))

-----------------------------------------------------------------------------
(* The letterbox tracker                                                   *)

ShrinkConfirmations == 2

NewTracker == [active |-> None, pending |-> None, confirms |-> 0, since |-> Interval]

Current(t) == IF t.active = None THEN FullContentRect ELSE t.active

\* A crop must leave a content of MinDim and save a hundredth of the pixels.
WorthCropping(r) ==
  /\ r.width >= MinDim /\ r.height >= MinDim
  /\ 100 * (dims.w * dims.h - r.width * r.height) >= dims.w * dims.h

Adopted(t, r) == [t EXCEPT !.active = r, !.pending = None, !.confirms = 0]

\* One detection folded into the tracker: the same again clears the pending
\* one, a larger one is adopted at once, any other after two in a row.
Observe(t, detected) ==
  LET clean == ClampRect(detected)
      seen  == IF t.pending = clean
               THEN Least(t.confirms + 1, ShrinkConfirmations) ELSE 1
  IN  IF clean = Current(t)
        THEN [t EXCEPT !.pending = None, !.confirms = 0]
      ELSE IF RectCovers(clean, Current(t))
        THEN Adopted(t, clean)
      ELSE IF seen >= ShrinkConfirmations /\ WorthCropping(clean)
        THEN Adopted(t, clean)
      ELSE [t EXCEPT !.pending = clean, !.confirms = seen]

\* A processed frame advances the cadence; a detection is due on a full one.
Due(t) == t.since + 1 >= Interval

Polled(t) == [t EXCEPT !.since = IF Due(t) THEN 0 ELSE t.since + 1]

\* mutant: the adopted rectangle is trusted between two detections.
TrackedOnCadence(t, box) ==
  IF Due(t) THEN Observe(Polled(t), DetectContentRect(box)) ELSE Polled(t)

\* The tracker after one frame: a crop that misses content resets it before
\* the cadence may detect again.
Tracked(t, box) ==
  LET kept == IF IsFullFrame(Current(t)) \/ VerifyCropHolds(box, Current(t))
              THEN t ELSE NewTracker
  IN  IF Due(kept) THEN Observe(Polled(kept), DetectContentRect(box)) ELSE Polled(kept)

\* The rectangle to infer, given the tracker after the frame.
Decided(t) ==
  IF IsFullFrame(Current(t)) \/ dims.tw <= 0 \/ dims.th <= 0
  THEN Current(t)
  ELSE SnapCropToTargetGrid(Current(t))

-----------------------------------------------------------------------------
(* Geometry of one inference                                               *)

\* The output texture and the transport size: the presentation target with
\* the aspect of the network's output when a runner can deliver it, the whole
\* fourfold frame (and no transport size) otherwise.
OutputGeometry(w, h, targetW, targetH, downscales) ==
  LET byWidth  == Least(targetW, 4 * w)
      byHeight == RoundDiv(byWidth * h, w)
      tall     == Least(targetH, 4 * h)
      size     == IF byHeight <= targetH THEN <<byWidth, byHeight>>
                  ELSE <<RoundDiv(tall * w, h), tall>>
  IN  IF downscales /\ targetW > 0 /\ targetH > 0 /\ (targetW < 4 * w \/ targetH < 4 * h)
      THEN [w |-> w, h |-> h, ow |-> size[1], oh |-> size[2], tw |-> size[1], th |-> size[2]]
      ELSE [w |-> w, h |-> h, ow |-> 4 * w, oh |-> 4 * h, tw |-> 0, th |-> 0]

Out == Rect(0, 0, dims.ow, dims.oh)

\* The size a runner delivers for a crop: its share of the transport size.
ResultSize(crop) ==
  IF dims.tw = 0 THEN <<4 * crop.width, 4 * crop.height>>
  ELSE IF IsFullFrame(crop) THEN <<dims.tw, dims.th>>
  ELSE <<Least(4 * crop.width, Most(1, RoundDiv(dims.tw * crop.width, dims.w))),
         Least(4 * crop.height, Most(1, RoundDiv(dims.th * crop.height, dims.h)))>>

\* The size the session delivers: it knows of no transport.
SessionSize(crop) == <<4 * crop.width, 4 * crop.height>>

\* mutant: the rounding overshoot of the origin is left alone.
PasteUnshifted(crop, size) ==
  LET ox == RoundDiv(dims.ow * crop.x, dims.w)
      oy == RoundDiv(dims.oh * crop.y, dims.h)
  IN  IF ox + size[1] - dims.ow > 2 \/ oy + size[2] - dims.oh > 2 THEN None
      ELSE Rect(ox, oy, size[1], size[2])

\* Where a result of that size lands on the texture: moved back inside by up
\* to two pixels; None when it does not fit.
CropPaste(crop, size) ==
  LET ox == RoundDiv(dims.ow * crop.x, dims.w)
      oy == RoundDiv(dims.oh * crop.y, dims.h)
      overX == ox + size[1] - dims.ow
      overY == oy + size[2] - dims.oh
  IN  IF overX > 2 \/ overY > 2 THEN None
      ELSE Rect(ox - Most(0, overX), oy - Most(0, overY), size[1], size[2])

\* mutant: the last tile of an axis is not pulled back to the edge.
TileAxisShort(size, tile, overlap) ==
  IF size <= tile THEN {0}
  ELSE {at \in 0..size : at % (tile - overlap) = 0 /\ at + tile < size}

\* The positions of the tiles along one axis.
TileAxis(size, tile, overlap) ==
  IF size <= tile THEN {0}
  ELSE {at \in 0..size : at % (tile - overlap) = 0 /\ at + tile < size} \cup {size - tile}

OverlapFor(tile) == Least(MaxOverlap, tile \div TileShare)

SingleTileMaxHeight(w, h, tile) ==
  IF tile >= LargeTile /\ w * h <= GateFrame THEN Gate ELSE Least(Gate, tile)

\* The tiles of one frame: itself when it is low enough, a grid otherwise.
PlanUniformTiles(w, h, tile, overlap, single) ==
  IF h <= single THEN {Rect(0, 0, w, h)}
  ELSE {Rect(x, y, Least(tile, w - x), Least(tile, h - y)) :
          x \in TileAxis(w, tile, overlap), y \in TileAxis(h, tile, overlap)}

\* The plan of one inferred frame, by the worker and by the main thread.
PlanFrame(w, h) ==
  LET tile    == IF w * h >= BigFrame THEN SmallTile ELSE LargeTile
      overlap == OverlapFor(tile)
  IN  [tiles  |-> PlanUniformTiles(w, h, tile, overlap, SingleTileMaxHeight(w, h, tile)),
       window |-> Most(1, 2 * overlap)]

-----------------------------------------------------------------------------
(* The bytes of a frame, from the GPU's copy to the presented image        *)

\* The tiles in the order the plan lists them, and a batch stacks them.
InOrder(tiles) ==
  LET Before(t) == {u \in tiles : u.y < t.y \/ (u.y = t.y /\ u.x < t.x)}
  IN  [k \in 1..Cardinality(tiles) |-> CHOOSE t \in tiles : Cardinality(Before(t)) = k - 1]

\* A picture in which no two channels of two pixels are alike.
Tag(w, h, c, x, y) == IF c = 3 THEN 255 ELSE c * w * h + y * w + x + 1

\* The GPU's copy of that picture in either format; its padding holds no byte.
CopiedFrame(w, h, format) ==
  LET plan == PlanReadback(w, h, format)
      size == BytesPerPixel(format)
      Stored(v) == IF format = "rgba16float" THEN HalfOf(v) ELSE v
  IN  [o \in 0..plan.byteLength - 1 |->
         LET at == o % plan.bytesPerRow
         IN  IF at >= w * size \/ at % (size \div 4) # 0 THEN -1
             ELSE Stored(Tag(w, h, (at % size) \div (size \div 4), at \div size, o \div plan.bytesPerRow))]

\* One frame with a border of one pixel around a crop of w x h.
Bordered(w, h, format) ==
  UnpackReadback(CopiedFrame(w + 2, h + 2, format), w + 2, h + 2, format)

CroppedInput(w, h, format) ==
  CropRgbaRect(Bordered(w, h, format), w + 2, h + 2, Rect(1, 1, w, h))
-----------------------------------------------------------------------------
(* The output writer                                                       *)

FatalSkips == 4      \* FATAL_INFERENCE_FAILURES
ComposerBudget == 3  \* consecutive throws that retire the GPU composer

NewWriter(gpu) == [bars |-> None, skips |-> 0, composer |-> gpu, throws |-> 0]

\* A write over the whole texture, by the named writer.
PaintsAll(by) ==
  /\ painted' = {[rect |-> Out, by |-> by]}
  /\ shown' = Out

\* The texture keeps what lies outside the paste; what it covers is gone.
Over(paste, by) ==
  {p \in painted : ~RectCovers(paste, p.rect)} \cup {[rect |-> paste, by |-> by]}

\* mutant: a full frame leaves the bar geometry it has painted over.
FullKeepsBars ==
  /\ writer' = [writer EXCEPT !.skips = 0]
  /\ PaintsAll("runner")
  /\ landed' = TRUE

\* writeRgbaResult: a runner's full frame forgets the bars.
WriteRgbaResult ==
  /\ writer' = [writer EXCEPT !.bars = None, !.skips = 0]
  /\ PaintsAll("runner")
  /\ landed' = TRUE

\* A cropped result: skipped when it does not fit (the fourth skip in a row
\* throws), pasted otherwise; the bars are filled when their geometry is not
\* the one they were filled for last.  The write of a result larger than the
\* texture, shifted to a negative origin, throws.
PresentCroppedResult(crop, size, by) ==
  LET paste == CropPaste(crop, size)
  IN  \/ /\ paste = None
         /\ writer' = [writer EXCEPT !.skips = Least(writer.skips + 1, FatalSkips)]
         /\ landed' = TRUE
         /\ UNCHANGED <<painted, shown>>
      \/ /\ ~RectCovers(Out, paste)
         /\ writer' = [writer EXCEPT !.skips = 0]
         /\ UNCHANGED <<painted, shown, landed>>
      \/ /\ paste # None /\ RectCovers(Out, paste)
         /\ landed' = TRUE
         /\ writer' = [writer EXCEPT !.bars = crop, !.skips = 0]
         /\ painted' = IF writer.bars = crop THEN Over(paste, by)
                       ELSE {[rect |-> paste, by |-> by]}
         /\ shown' = paste

\* The GPU composer takes a full frame: the texture must be as large, and it
\* may decline or throw.
GpuCompose ==
  /\ writer.composer /\ 4 * dims.w <= dims.ow /\ 4 * dims.h <= dims.oh
  /\ writer' = [writer EXCEPT !.throws = 0]
  /\ landed' = TRUE
  /\ PaintsAll("composer")

\* The CPU composes a full frame; what the composer did first decides how
\* many throws in a row it has behind it, and three retire it.  A size other
\* than the texture's is stretched over it.
CpuCompose ==
  \E throws \in IF writer.composer THEN {writer.throws, writer.throws + 1} ELSE {0} :
    /\ writer' = [writer EXCEPT !.bars = None,
                    !.composer = writer.composer /\ throws < ComposerBudget,
                    !.throws = IF throws < ComposerBudget THEN throws ELSE 0]
    /\ landed' = TRUE
    /\ PaintsAll("session")

-----------------------------------------------------------------------------
(* Frames                                                                  *)

\* The content a frame may have: edges on the frame's border or on a cut.
Edges(cuts, size) == {0, size} \cup {c \in cuts : c < size}

Boxes ==
  {None} \cup
  {r \in {Rect(x, y, x1 - x, y1 - y) : x, x1 \in Edges(XCuts, dims.w), y, y1 \in Edges(YCuts, dims.h)} :
     r.width > 0 /\ r.height > 0}

\* A captured frame; what it shows is read when its readback is there.
NewFlight == [phase |-> "mapping", crop |-> None, whole |-> FALSE, late |-> FALSE, by |-> "none"]

Init ==
  /\ \E w \in Widths, h \in Heights, tw \in TargetWidths, downscales \in BOOLEAN :
       dims = OutputGeometry(w, h, tw, RoundDiv(tw * h, w), downscales)
  /\ runner \in BOOLEAN /\ (dims.tw > 0 => runner)
  /\ \E gpu \in BOOLEAN : writer = NewWriter(gpu)
  /\ tracker = NewTracker
  /\ flights = <<>>
  /\ painted = {}
  /\ shown = Out
  /\ landed = FALSE

\* pass() captures a frame; until a result has landed it also primes the
\* texture with the plain video.
Capture ==
  /\ Len(flights) < Depth
  /\ flights' = Append(flights, NewFlight)
  /\ IF landed THEN UNCHANGED <<painted, shown>> ELSE PaintsAll("prime")
  /\ UNCHANGED <<dims, tracker, runner, writer, landed>>

\* The readback is there: the tracker decides the crop, the input is sliced,
\* and the frame goes out to the runner or, without one, to the main
\* thread's session, which infers it to the end.  Before the first result the CPU primes the texture.
Decide(i) ==
  /\ flights[i].phase = "mapping"
  /\ \E box \in Boxes :
       /\ tracker' = Tracked(tracker, box)
       /\ LET crop == Decided(tracker')
          IN  flights' = [flights EXCEPT
                ![i] = [@ EXCEPT !.phase = "inferring", !.crop = crop,
                                 !.by = IF runner THEN "runner" ELSE "session",
                                 !.whole = CropSlice(box, crop) = box]]
  /\ IF landed THEN UNCHANGED <<painted, shown>> ELSE PaintsAll("prime")
  /\ UNCHANGED <<dims, runner, writer, landed>>

\* A frame that ends without a result: its readback or inference failed, it
\* repeats the presented one, or newer frames have overtaken it.
Leave(i) ==
  /\ flights' = RemoveAt(flights, i)
  /\ UNCHANGED <<dims, tracker, runner, writer, painted, shown, landed>>

\* claimPresentation: the frames captured before i may not present any more.
Claimed(i) ==
  RemoveAt([j \in DOMAIN flights |->
              IF j < i THEN [flights[j] EXCEPT !.late = TRUE] ELSE flights[j]], i)

InferredBy(by, i) == flights[i].phase = "inferring" /\ flights[i].by = by

\* A result of the runner is presented, also of one given up since: a call it
\* answers in time is used.
RunnerResult(i) ==
  /\ InferredBy("runner", i) /\ ~flights[i].late
  /\ flights' = Claimed(i)
  /\ IF IsFullFrame(flights[i].crop) THEN WriteRgbaResult
     ELSE PresentCroppedResult(flights[i].crop, ResultSize(flights[i].crop), "runner")
  /\ UNCHANGED <<dims, tracker, runner>>

\* A frame of the main thread's session is presented: always four times its
\* size, composed by the GPU only when it is a full frame.
SessionResult(i) ==
  /\ InferredBy("session", i) /\ ~flights[i].late
  /\ flights' = Claimed(i)
  /\ LET crop == flights[i].crop
     IN  IF IsFullFrame(crop) THEN GpuCompose \/ CpuCompose
         ELSE PresentCroppedResult(crop, SessionSize(crop), "session")
  /\ UNCHANGED <<dims, tracker, runner>>

\* The failing call of some frame gives the runner up for good: that frame leaves,
\* frames decided from now on go to the session, and what the other calls return
\* still counts.  The frame may be one that was overtaken long ago.
RunnerLost ==
  /\ runner
  /\ runner' = FALSE
  /\ UNCHANGED <<dims, tracker, flights, writer, painted, shown, landed>>

Next ==
  \/ Capture
  \/ RunnerLost
  \/ \E i \in DOMAIN flights : Decide(i) \/ Leave(i) \/ RunnerResult(i) \/ SessionResult(i)

Spec == Init /\ [][Next]_vars

-----------------------------------------------------------------------------
(* Properties                                                              *)

Rects == [x : Nat, y : Nat, width : Nat, height : Nat]

\* Every rectangle the tracker, the frames and the writer hold lies inside the
\* picture it is about, and their counters stay within their limits.
TypeOK ==
  /\ runner \in BOOLEAN /\ landed \in BOOLEAN
  /\ \A r \in {tracker.active, tracker.pending, writer.bars} : RectCovers(FullContentRect, r)
  /\ tracker.since \in 0..Interval /\ tracker.confirms \in 0..ShrinkConfirmations
  /\ writer.skips \in 0..FatalSkips /\ writer.throws \in 0..ComposerBudget - 1
  /\ Len(flights) <= Depth
  /\ \A i \in DOMAIN flights :
       /\ RectCovers(FullContentRect, flights[i].crop)
       /\ flights[i].phase = "inferring" =>
            flights[i].crop.width > 0 /\ flights[i].crop.height > 0
  /\ \A p \in painted : p.rect \in Rects /\ RectCovers(Out, p.rect)

\* What goes into the network holds the whole bright content of the frame it
\* was cut from, although the crop was adopted on other frames.
CropKeepsContent ==
  \A i \in DOMAIN flights : flights[i].phase = "inferring" => flights[i].whole

\* A runner's result always lands on the texture, and where the target grid
\* could be met the content's edges fall on whole output pixels.
ResultsLand ==
  \A i \in DOMAIN flights :
    LET crop  == flights[i].crop
        paste == CropPaste(crop, ResultSize(crop))
    IN  flights[i].phase = "inferring" =>
          /\ paste # None /\ RectCovers(Out, paste)
          /\ ~IsFullFrame(crop) /\ SnapStep(dims.w, dims.tw) <= MaxSnapStep =>
               (dims.tw * crop.x) % dims.w = 0 /\ (dims.tw * (crop.x + crop.width)) % dims.w = 0

\* The two ways to unpack a copy agree in both formats: the crop of the tight
\* bytes holds the frame's pixels, and the crop of its planes the same ones.
UnpacksAlike(w, h) ==
  \A format \in {"rgba8unorm", "rgba16float"} :
    LET planes == UnpackReadbackToPlanarRgb(CopiedFrame(w + 2, h + 2, format), w + 2, h + 2, format)
    IN  /\ CroppedInput(w, h, format) =
             Rgba(w, h, LAMBDA c, x, y : Tag(w + 2, h + 2, c, x + 1, y + 1))
        /\ CropPlanarRect(planes, w + 2, h + 2, Rect(1, 1, w, h)) =
             RgbaToPlanarRgb(CroppedInput(w, h, format), w, h)

\* Every engine puts every source pixel under its sixteen output pixels: the
\* worker's batch, the main thread's session composed by the CPU or by the
\* shader, and the padded upload of what the CPU composed.
EnginesAgree(w, h) ==
  LET plan     == PlanFrame(w, h)
      tiles    == InOrder(plan.tiles)
      source   == CroppedInput(w, h, "rgba8unorm")
      input    == RgbaToPlanarRgb(source, w, h)
      session  == InferTiledResults(input, w, h, tiles)
      worker   == SplitBatchedOutput(
                    UpscaleBatch(StackTilesToBatch(input, w, h, tiles), Len(tiles),
                                 tiles[1].width, tiles[1].height), tiles)
      rgba     == ComposeFrameOutput(tiles, worker, 4 * w, 4 * h, plan.window)
      composed == ComposeTileResults(tiles, session, 4 * w, 4 * h, plan.window)
      upload   == PlanUpload(4 * w, 4 * h)
      pooled   == [o \in 0..upload.byteLength - 1 |-> -1]
      buffers  == BuildComposeBuffers(tiles, session)
  IN  /\ worker = session
      /\ rgba = Rgba(4 * w, 4 * h, LAMBDA c, x, y : RgbaAt(source, w, c, x \div 4, y \div 4))
      /\ RgbPlanarToRgba(composed, 4 * w, 4 * h) = rgba
      /\ UnpackReadback(RgbPlanarToPaddedRgba(composed, 4 * w, 4 * h, upload.bytesPerRow, pooled),
                        4 * w, 4 * h, "rgba8unorm") = rgba
      /\ \A c \in 0..2, px \in 0..4 * w - 1, py \in 0..4 * h - 1 :
           ComposeShader(buffers, plan.window, c, px, py) = RgbaAt(rgba, 4 * w, c, px, py)
      /\ ToTransport(rgba, 4 * w, 4 * h, w, h) = source

\* Shrinking to any presentation width keeps a plain area plain, to the edge.
ShrinksPlain(w, h) ==
  \A width \in TargetWidths \cup {4 * w} :
    LET height == Most(1, RoundDiv(width * h, w))
        plain(x, y) == Rgba(x, y, LAMBDA c, px, py : IF c = 3 THEN 255 ELSE 77)
    IN  width \in 1..4 * w =>
          ToTransport(plain(4 * w, 4 * h), 4 * w, 4 * h, width, height) = plain(width, height)

\* The tiles of a frame of w x h lie inside it and are of one size, which one
\* batch needs; every pixel is in one; and none ends inside the frame, to the
\* right or below, without another running on over its border.
Covered(w, h, tiles) ==
  /\ \A t \in tiles : t.x + t.width <= w /\ t.y + t.height <= h
  /\ \A t, u \in tiles : t.width = u.width /\ t.height = u.height
  /\ \A px \in 0..w - 1, py \in 0..h - 1 : \E t \in tiles :
       t.x <= px /\ px < t.x + t.width /\ t.y <= py /\ py < t.y + t.height
  /\ \A t \in tiles : t.x + t.width < w =>
       \E u \in tiles : u.y = t.y /\ u.x > t.x /\ u.x < t.x + t.width
  /\ \A t \in tiles : t.y + t.height < h =>
       \E u \in tiles : u.x = t.x /\ u.y > t.y /\ u.y < t.y + t.height

\* The crop sizes whose tiles cover and overlap, and of which all of that is true.
SizesThatLand ==
  {size \in {<<w, h>> : w \in 1..Max(Widths), h \in 1..Max(Heights)} :
     /\ Covered(size[1], size[2], PlanFrame(size[1], size[2]).tiles)
     /\ UnpacksAlike(size[1], size[2])
     /\ EnginesAgree(size[1], size[2])
     /\ ShrinksPlain(size[1], size[2])}

\* The tiles of every inferred frame cover it and overlap.
TilesCover ==
  \A i \in DOMAIN flights :
    LET crop == flights[i].crop
    IN  flights[i].phase = "inferring" =>
          Covered(crop.width, crop.height, PlanFrame(crop.width, crop.height).tiles)

\* That, and whichever engine infers the tiles, every pixel of the frame comes out
\* where it belongs: looked up for the size of the crop, on which alone it depends.
TilesBlend ==
  \A i \in DOMAIN flights :
    flights[i].phase = "inferring" =>
      <<flights[i].crop.width, flights[i].crop.height>> \in SizesThatLand

\* A result of the main thread lands on the texture as well, or is skipped.
PastesFit ==
  \A i \in DOMAIN flights :
    LET crop  == flights[i].crop
        paste == CropPaste(crop, SessionSize(crop))
    IN  InferredBy("session", i) /\ ~IsFullFrame(crop) => RectCovers(Out, paste)

\* Outside the result presented last the texture is black: the bars never
\* show what a full frame or another crop has left there.
BarsStayBlack == \A p \in painted : RectCovers(shown, p.rect)

\* The bars never show what the writer has left of a full frame or of another
\* crop.  Beside the result presented last only two things may stay visible: a
\* frame of the GPU composer, which does not go through the writer's bookkeeping,
\* and the edge of a larger result that the session delivered of the same crop,
\* over which a late result of the runner it replaces was pasted.
BarsForgotten ==
  \A p \in painted :
    \/ RectCovers(shown, p.rect)
    \/ p.by = "composer"
    \/ p.by = "session" /\ ~runner /\ p.rect = CropPaste(writer.bars, SessionSize(writer.bars))
=============================================================================
