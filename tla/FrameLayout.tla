----------------------------- MODULE FrameLayout -----------------------------
(***************************************************************************)
(* Where every byte of a frame lies on its way through an inference: the   *)
(* padded rows of a GPU copy, the tight RGBA bytes, the channel-major      *)
(* planes the network reads, its tiles, one by one or stacked in a batch,  *)
(* the composition of their results, and the shrunk transport image.       *)
(*                                                                         *)
(* An array is a function from 0..length-1.  A float is written in 255ths; *)
(* the floats a composition has averaged are quotients <<sum, weight>>.    *)
(* The lanes the code picks between for speed (32-bit, 16-bit and byte     *)
(* views of one buffer) read the same bytes and are one definition here.   *)
(***************************************************************************)
EXTENDS Integers, Sequences, FiniteSets, SequencesExt

CONSTANT RowAlign   \* 256: rows of a GPU copy start at its multiples

ASSUME RowAlignAssumption == RowAlign \in Nat /\ RowAlign >= 8 /\ RowAlign % 8 = 0

Least(a, b) == IF a < b THEN a ELSE b
Most(a, b) == IF a > b THEN a ELSE b

\* Math.round of a quotient of naturals, and the quotient rounded up.
RoundDiv(a, b) == (2 * a + b) \div (2 * b)
CeilDiv(a, b) == (a + b - 1) \div b

Rect(x, y, width, height) == [x |-> x, y |-> y, width |-> width, height |-> height]

\* What a function returns instead of throwing.
Refused == <<>>

-----------------------------------------------------------------------------
(* Layouts: an array of a w x h picture whose channel c at <<x, y>> is     *)
(* value(c, x, y)                                                          *)

Planar(w, h, value(_, _, _)) ==
  [i \in 0..3 * w * h - 1 |-> value(i \div (w * h), (i % (w * h)) % w, (i % (w * h)) \div w)]

Rgba(w, h, value(_, _, _)) ==
  [i \in 0..4 * w * h - 1 |-> value(i % 4, (i \div 4) % w, (i \div 4) \div w)]

PlanarAt(planar, w, h, c, x, y) == planar[c * (w * h) + y * w + x]

RgbaAt(rgba, w, c, x, y) == rgba[4 * (y * w + x) + c]

Length(array) == Cardinality(DOMAIN array)

-----------------------------------------------------------------------------
(* GPU copies (realesrgan-readback.ts)                                     *)

BytesPerPixel(format) == IF format = "rgba16float" THEN 8 ELSE 4

PlanReadback(w, h, format) ==
  LET pitch == CeilDiv(w * BytesPerPixel(format), RowAlign) * RowAlign
  IN  [bytesPerRow |-> pitch, byteLength |-> pitch * h]

PlanUpload(w, h) ==
  LET pitch == CeilDiv(4 * w, RowAlign) * RowAlign
  IN  [bytesPerRow |-> pitch, byteLength |-> pitch * h]

\* The byte a half-float channel quantises to: not-a-number is white, the
\* rest is clamped to [0, 1] and rounded.
HalfToByte(bits) ==
  LET exponent == (bits \div 1024) % 32
      mantissa == bits % 1024
  IN  IF exponent = 31 /\ mantissa # 0 THEN 255
      ELSE IF bits >= 32768 \/ exponent = 0 THEN 0
      ELSE IF exponent >= 15 THEN 255
      ELSE RoundDiv(255 * (1024 + mantissa), 2 ^ (25 - exponent))

\* The GPU stores v / 255 in a half-float texture.
HalfOf(v) ==
  IF v = 0 THEN 0
  ELSE LET e == CHOOSE k \in 1..15 : v * 2 ^ (15 - k) \in 255..509
       IN  1024 * e + RoundDiv(v * 2 ^ (25 - e), 255) - 1024

Quantised(format, v) == IF format = "rgba16float" THEN HalfToByte(v) ELSE v

\* The channel of a padded copy: a half float takes two bytes, and the
\* function has its value where it starts.
PaddedAt(padded, w, h, format, c, x, y) ==
  LET pitch == PlanReadback(w, h, format).bytesPerRow
      size  == BytesPerPixel(format)
  IN  padded[y * pitch + x * size + c * (size \div 4)]

\* Padding stripped, channels quantised; a short copy is an error.
UnpackReadback(padded, w, h, format) ==
  IF Length(padded) < PlanReadback(w, h, format).byteLength THEN Refused
  ELSE Rgba(w, h, LAMBDA c, x, y : Quantised(format, PaddedAt(padded, w, h, format, c, x, y)))

\* The same in one pass into the planes the network reads.
UnpackReadbackToPlanarRgb(padded, w, h, format) ==
  IF Length(padded) < PlanReadback(w, h, format).byteLength THEN Refused
  ELSE Planar(w, h, LAMBDA c, x, y : Quantised(format, PaddedAt(padded, w, h, format, c, x, y)))

-----------------------------------------------------------------------------
(* Planes (realesrgan-tensor.ts)                                           *)

RgbaToPlanarRgb(rgba, w, h) ==
  IF Length(rgba) < 4 * w * h THEN Refused
  ELSE Planar(w, h, LAMBDA c, x, y : RgbaAt(rgba, w, c, x, y))

\* Clamped to [0, 1] and rounded.
ToByte(float) ==
  IF float[1] <= 0 THEN 0
  ELSE IF float[1] >= 255 * float[2] THEN 255
  ELSE RoundDiv(float[1], float[2])

\* Rows of bytesPerRow bytes; what lies between them is left as it was.
PackPlanarRgba(planar, w, h, bytesPerRow, gap) ==
  [o \in 0..bytesPerRow * h - 1 |->
     LET x == (o % bytesPerRow) \div 4
         c == o % 4
     IN  IF x >= w THEN gap
         ELSE IF c = 3 THEN 255
         ELSE ToByte(PlanarAt(planar, w, h, c, x, o \div bytesPerRow))]

RgbPlanarToRgba(planar, w, h) ==
  IF Length(planar) < 3 * w * h THEN Refused ELSE PackPlanarRgba(planar, w, h, 4 * w, 0)

RgbPlanarToPaddedRgba(planar, w, h, bytesPerRow, out) ==
  IF Length(out) # bytesPerRow * h THEN Refused
  ELSE PackPlanarRgba(planar, w, h, bytesPerRow, out[0])

CropRgbaRect(src, srcWidth, srcHeight, rect) ==
  IF Length(src) < 4 * srcWidth * srcHeight THEN Refused
  ELSE Rgba(rect.width, rect.height,
            LAMBDA c, x, y : RgbaAt(src, srcWidth, c, rect.x + x, rect.y + y))

CropPlanarRect(src, srcWidth, srcHeight, rect) ==
  IF Length(src) < 3 * srcWidth * srcHeight THEN Refused
  ELSE Planar(rect.width, rect.height,
              LAMBDA c, x, y : PlanarAt(src, srcWidth, srcHeight, c, rect.x + x, rect.y + y))

-----------------------------------------------------------------------------
(* Tiles through the network                                               *)

ExtractTileRgb(planar, w, h, tile) ==
  Planar(tile.width, tile.height,
         LAMBDA c, x, y : PlanarAt(planar, w, h, c, tile.x + x, tile.y + y))

\* mutant: every tile is read where the first one lies.
StackFirstTile(planar, w, h, tiles) ==
  LET size == 3 * tiles[1].width * tiles[1].height
  IN  [i \in 0..Len(tiles) * size - 1 |-> ExtractTileRgb(planar, w, h, tiles[1])[i % size]]

\* All the tiles behind each other, in the size of the first.
StackTilesToBatch(planar, w, h, tiles) ==
  LET tw == tiles[1].width
      th == tiles[1].height
  IN  [i \in 0..3 * Len(tiles) * tw * th - 1 |->
         LET t == tiles[i \div (3 * tw * th) + 1]
             c == (i % (3 * tw * th)) \div (tw * th)
             p == i % (tw * th)
         IN  PlanarAt(planar, w, h, c, t.x + (p % tw), t.y + (p \div tw))]

\* The network: every pixel of a w x h picture becomes four by four of it.
Upscale(planar, w, h) ==
  Planar(4 * w, 4 * h, LAMBDA c, x, y : PlanarAt(planar, w, h, c, x \div 4, y \div 4))

UpscaleBatch(batch, n, w, h) ==
  [i \in 0..48 * n * w * h - 1 |->
     LET p == i % (16 * w * h)
     IN  batch[(i \div (16 * w * h)) * (w * h) + (p \div (16 * w)) * w + (p % (4 * w)) \div 4]]

\* Result b of a batch; the tiles keep their places.
SplitBatchedOutput(batched, tiles) ==
  LET up == 16 * tiles[1].width * tiles[1].height
  IN  [b \in DOMAIN tiles |-> [i \in 0..3 * up - 1 |-> batched[3 * (b - 1) * up + i]]]

\* The main thread's session runs the tiles one after another.
InferTiledResults(planar, w, h, tiles) ==
  [b \in DOMAIN tiles |->
     Upscale(ExtractTileRgb(planar, w, h, tiles[b]), tiles[b].width, tiles[b].height)]

-----------------------------------------------------------------------------
(* Composition                                                             *)

\* The feather weight of pixel i of an axis: its distance to the nearer end,
\* counted from one, up to the window.
FeatherRamp(i, length, window) == Least(Least(i, length - 1 - i) + 1, window)

\* The weight one tile gives one pixel of the composed output; 0 outside.
TileWeight(tile, window, px, py) ==
  LET lx == px - 4 * tile.x
      ly == py - 4 * tile.y
  IN  IF lx \in 0..4 * tile.width - 1 /\ ly \in 0..4 * tile.height - 1
      THEN Least(FeatherRamp(lx, 4 * tile.width, window), FeatherRamp(ly, 4 * tile.height, window))
      ELSE 0

\* The weighted average of what the tiles say of one channel of one pixel;
\* a pixel of no weight is divided by one.
Average(tiles, window, px, py, value(_)) ==
  LET over   == {b \in DOMAIN tiles : TileWeight(tiles[b], window, px, py) > 0}
      weight(b) == TileWeight(tiles[b], window, px, py)
  IN  <<MapThenSumSet(LAMBDA b : weight(b) * value(b), over),
        Most(1, MapThenSumSet(weight, over))>>

IsSingleFullCoverTile(tiles, rgbs, outWidth, outHeight) ==
  /\ Len(tiles) = 1
  /\ tiles[1] = Rect(0, 0, outWidth \div 4, outHeight \div 4)
  /\ Length(rgbs[1]) = 3 * outWidth * outHeight

\* The main thread's composition: floats, packed afterwards.
ComposeTileResults(tiles, rgbs, outWidth, outHeight, window) ==
  IF IsSingleFullCoverTile(tiles, rgbs, outWidth, outHeight)
  THEN [i \in DOMAIN rgbs[1] |-> <<rgbs[1][i], 1>>]
  ELSE Planar(outWidth, outHeight, LAMBDA c, px, py :
         Average(tiles, window, px, py, LAMBDA b :
           PlanarAt(rgbs[b], 4 * tiles[b].width, 4 * tiles[b].height,
                    c, px - 4 * tiles[b].x, py - 4 * tiles[b].y)))

\* The worker's composition of several tiles: averaged and packed in one pass.
ComposeTilesToRgba8(tiles, rgbs, outWidth, outHeight, window) ==
  Rgba(outWidth, outHeight, LAMBDA c, px, py :
    IF c = 3 THEN 255
    ELSE ToByte(Average(tiles, window, px, py, LAMBDA b :
           PlanarAt(rgbs[b], 4 * tiles[b].width, 4 * tiles[b].height,
                    c, px - 4 * tiles[b].x, py - 4 * tiles[b].y))))

\* ... and of a single one.
ComposeSingleTileToRgba8(rgb, w, h) ==
  IF Length(rgb) # 3 * w * h THEN Refused
  ELSE Rgba(w, h, LAMBDA c, x, y :
         IF c = 3 THEN 255 ELSE ToByte(<<PlanarAt(rgb, w, h, c, x, y), 1>>))

ComposeFrameOutput(tiles, rgbs, outWidth, outHeight, window) ==
  IF Len(tiles) = 1 THEN ComposeSingleTileToRgba8(rgbs[1], outWidth, outHeight)
  ELSE ComposeTilesToRgba8(tiles, rgbs, outWidth, outHeight, window)

\* The GPU composer's buffers: where each tile lies in the output, and where
\* its data starts in the concatenation of all of them.
BuildComposeBuffers(tiles, rgbs) ==
  LET size(b)   == 48 * tiles[b].width * tiles[b].height
      offset(b) == MapThenSumSet(size, 1..b - 1)
      owner(i)  == CHOOSE b \in DOMAIN tiles : i \in offset(b)..offset(b) + size(b) - 1
  IN  IF \E b \in DOMAIN tiles : Length(rgbs[b]) # size(b) THEN Refused
      ELSE [descs |-> [b \in DOMAIN tiles |->
                         [baseX |-> 4 * tiles[b].x, baseY |-> 4 * tiles[b].y,
                          upW |-> 4 * tiles[b].width, upH |-> 4 * tiles[b].height,
                          dataOffset |-> offset(b)]],
            data  |-> [i \in 0..offset(Len(tiles) + 1) - 1 |-> rgbs[owner(i)][i - offset(owner(i))]]]

\* One invocation of the shader: channel c of one pixel of the texture.
ComposeShader(buffers, window, c, px, py) ==
  LET desc(b)  == buffers.descs[b]
      tile(b)  == Rect(desc(b).baseX \div 4, desc(b).baseY \div 4,
                       desc(b).upW \div 4, desc(b).upH \div 4)
      pixel(b) == desc(b).dataOffset + (py - desc(b).baseY) * desc(b).upW + px - desc(b).baseX
  IN  ToByte(Average([b \in DOMAIN buffers.descs |-> tile(b)], window, px, py,
               LAMBDA b : buffers.data[pixel(b) + c * desc(b).upW * desc(b).upH]))

-----------------------------------------------------------------------------
(* The transport image                                                     *)

IsPow2(v) == \E k \in 0..v : v = 2 ^ k

BoxSum(xs, ys, value(_, _)) ==
  MapThenSumSet(LAMBDA y : MapThenSumSet(LAMBDA x : value(x, y), xs), ys)

\* Whole boxes of a power of two: integers only.
DownscaleWhole(rgba, srcWidth, srcHeight, dstWidth, dstHeight) ==
  LET fx == srcWidth \div dstWidth
      fy == srcHeight \div dstHeight
  IN  Rgba(dstWidth, dstHeight, LAMBDA c, x, y :
        IF c = 3 THEN 255
        ELSE RoundDiv(BoxSum(x * fx..x * fx + fx - 1, y * fy..y * fy + fy - 1,
                             LAMBDA sx, sy : RgbaAt(rgba, srcWidth, c, sx, sy)),
                      fx * fy))

\* The part of source pixel s that destination pixel d covers, of an axis, in
\* parts of 1 / dst.
Overlap(s, d, src, dst) == Least((s + 1) * dst, (d + 1) * src) - Most(s * dst, d * src)

\* The source pixels destination pixel d touches.
Touched(d, src, dst) == {s \in (d * src) \div dst..src - 1 : s * dst < (d + 1) * src}

DownscaleFraction(rgba, srcWidth, srcHeight, dstWidth, dstHeight) ==
  Rgba(dstWidth, dstHeight, LAMBDA c, x, y :
    LET xs == Touched(x, srcWidth, dstWidth)
        ys == Touched(y, srcHeight, dstHeight)
        weight(sx, sy) == Overlap(sx, x, srcWidth, dstWidth) * Overlap(sy, y, srcHeight, dstHeight)
    IN  IF c = 3 THEN 255
        ELSE RoundDiv(BoxSum(xs, ys, LAMBDA sx, sy : weight(sx, sy) * RgbaAt(rgba, srcWidth, c, sx, sy)),
                      BoxSum(xs, ys, weight)))

DownscaleRgba8Box(rgba, srcWidth, srcHeight, dstWidth, dstHeight) ==
  IF /\ srcWidth % dstWidth = 0 /\ srcHeight % dstHeight = 0
     /\ IsPow2(srcWidth \div dstWidth) /\ IsPow2(srcHeight \div dstHeight)
  THEN DownscaleWhole(rgba, srcWidth, srcHeight, dstWidth, dstHeight)
  ELSE DownscaleFraction(rgba, srcWidth, srcHeight, dstWidth, dstHeight)

\* The worker shrinks to a target inside the composed frame and otherwise
\* keeps the whole of it.
ToTransport(rgba, outWidth, outHeight, targetWidth, targetHeight) ==
  IF /\ targetWidth \in 1..outWidth /\ targetHeight \in 1..outHeight
     /\ <<targetWidth, targetHeight>> # <<outWidth, outHeight>>
  THEN DownscaleRgba8Box(rgba, outWidth, outHeight, targetWidth, targetHeight)
  ELSE rgba
=============================================================================
