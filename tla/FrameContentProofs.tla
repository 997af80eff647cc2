------------------------- MODULE FrameContentProofs -------------------------
(***************************************************************************)
(* The crops of a letterboxed frame, for any sizes of frames, targets and  *)
(* tiles, any cuts the content can have and any depth of the pipeline: a   *)
(* crop that is inferred holds the content of its frame, its tiles cover   *)
(* it, its result lands on the texture, and around it the texture shows    *)
(* nothing the writer left there of a full frame or of another crop.       *)
(*                                                                         *)
(* The arithmetic comes first: how rounding a position and rounding a      *)
(* length agree with rounding their sum, and what the grid of a target     *)
(* does to an edge.  The steps come last.                                  *)
(***************************************************************************)
EXTENDS FrameContent, WellFoundedInduction, TLAPS

-----------------------------------------------------------------------------
(* Products, quotients and rounding. *)

\* What the solver does not find of a product by itself.
LEMMA TimesMonotone ==
  ASSUME NEW n \in Nat, NEW p \in Int, NEW q \in Int, p <= q
  PROVE  n * p <= n * q
  OBVIOUS

LEMMA Distribute ==
  ASSUME NEW n \in Int, NEW p \in Int, NEW q \in Int
  PROVE  n * (p + q) = n * p + n * q /\ (p + q) * n = p * n + q * n
  OBVIOUS

LEMMA TimesStrict ==
  ASSUME NEW n \in Nat, NEW p \in Int, NEW q \in Int, p < q
  PROVE  n * p + n <= n * q
<1>1. n * (p + 1) <= n * q
  BY TimesMonotone
<1>2. n * (p + 1) = n * p + n
  BY Distribute
<1> QED BY <1>1, <1>2

\* A quotient is rounded down, RoundDiv to the nearest, and a multiple stays exact.
LEMMA DivBounds ==
  ASSUME NEW a \in Nat, NEW b \in Nat \ {0}
  PROVE  /\ a \div b \in Nat
         /\ b * (a \div b) <= a
         /\ a < b * (a \div b) + b
  OBVIOUS

LEMMA RoundBounds ==
  ASSUME NEW a \in Nat, NEW b \in Nat \ {0}
  PROVE  /\ RoundDiv(a, b) \in Nat
         /\ 2 * (b * RoundDiv(a, b)) <= 2 * a + b
         /\ 2 * a + b < 2 * (b * RoundDiv(a, b)) + 2 * b
<1> DEFINE n == 2 * a + b
           d == 2 * b
           q == n \div d
<1>1. n \in Nat /\ d \in Nat \ {0}
  OBVIOUS
<1> HIDE DEF n, d
<1>2. q \in Nat /\ d * q <= n /\ n < d * q + d
  BY <1>1, DivBounds
<1> HIDE DEF q
<1>3. d * q = 2 * (b * q)
  BY <1>2 DEF d
<1>4. b * q \in Int
  BY <1>2
<1>5. q \in Nat /\ 2 * (b * q) <= 2 * a + b /\ 2 * a + b < 2 * (b * q) + 2 * b
  BY <1>2, <1>3, <1>4 DEF n, d
<1> QED  BY <1>5 DEF RoundDiv, q, n, d

LEMMA RoundMonotone ==
  ASSUME NEW a \in Nat, NEW c \in Nat, NEW b \in Nat \ {0}, a <= c
  PROVE  RoundDiv(a, b) <= RoundDiv(c, b)
<1> DEFINE p == RoundDiv(a, b)
           q == RoundDiv(c, b)
<1>1. p \in Nat /\ q \in Nat /\ 2 * (b * p) <= 2 * a + b /\ 2 * c + b < 2 * (b * q) + 2 * b
  BY RoundBounds
<1>2. b * p \in Int /\ b * q \in Int
  BY <1>1
<1>3. SUFFICES ASSUME q < p PROVE FALSE
  BY <1>1
<1> HIDE DEF p, q
<1>4. b * q + b <= b * p
  BY <1>1, <1>3, TimesStrict
<1> QED  BY <1>1, <1>2, <1>4

LEMMA RoundExact ==
  ASSUME NEW k \in Nat, NEW b \in Nat \ {0}
  PROVE  RoundDiv(k * b, b) = k
<1> DEFINE q == RoundDiv(k * b, b)
           n == k * b
<1>1. n \in Nat /\ n = b * k
  OBVIOUS
<1>2. q \in Nat /\ 2 * (b * q) <= 2 * n + b /\ 2 * n + b < 2 * (b * q) + 2 * b
  BY <1>1, RoundBounds
<1>3. b * q \in Int
  BY <1>2
<1> HIDE DEF q, n
<1>4. ~(k < q)
  <2>1. SUFFICES ASSUME k < q PROVE FALSE
    OBVIOUS
  <2>2. b * k + b <= b * q
    BY <1>2, <2>1, TimesStrict
  <2> QED  BY <1>1, <1>2, <1>3, <2>2
<1>5. ~(q < k)
  <2>1. SUFFICES ASSUME q < k PROVE FALSE
    OBVIOUS
  <2>2. b * q + b <= b * k
    BY <1>2, <2>1, TimesStrict
  <2> QED  BY <1>1, <1>2, <1>3, <2>2
<1>6. q = k
  BY <1>2, <1>4, <1>5
<1> QED  BY <1>6 DEF q, n

\* Two roundings are at most one more than the rounding of the sum.
LEMMA RoundSum ==
  ASSUME NEW a \in Nat, NEW c \in Nat, NEW b \in Nat \ {0}
  PROVE  RoundDiv(a, b) + RoundDiv(c, b) <= RoundDiv(a + c, b) + 1
<1> DEFINE p == RoundDiv(a, b)
           q == RoundDiv(c, b)
           r == RoundDiv(a + c, b)
<1>1. p \in Nat /\ q \in Nat /\ r \in Nat
  BY RoundBounds, a + c \in Nat
<1>2. /\ 2 * (b * p) <= 2 * a + b /\ 2 * (b * q) <= 2 * c + b
      /\ 2 * (a + c) + b < 2 * (b * r) + 2 * b
  BY RoundBounds, a + c \in Nat
<1>3. SUFFICES ASSUME r + 1 < p + q PROVE FALSE
  BY <1>1
<1> HIDE DEF p, q, r
<1>4. b * (r + 1) + b <= b * (p + q)
  BY <1>1, <1>3, TimesStrict
<1>5. b * (r + 1) = b * r + b /\ b * (p + q) = b * p + b * q
  BY <1>1, Distribute
<1>6. b * p \in Int /\ b * q \in Int /\ b * r \in Int
  BY <1>1
<1> QED  BY <1>2, <1>4, <1>5, <1>6

\* A product has no remainder by its factors.
LEMMA ModProduct ==
  ASSUME NEW n \in Nat \ {0}, NEW k \in Nat
  PROVE  (n * k) % n = 0
<1> DEFINE a == n * k
           q == a \div n
<1>1. a \in Nat
  OBVIOUS
<1>2. q \in Nat /\ n * q <= a /\ a < n * q + n
  BY <1>1, DivBounds
<1>3. a % n = a - n * q
  BY <1>1
<1>4. n * q \in Int
  BY <1>2
<1> HIDE DEF q
<1>5. ~(q < k)
  <2>1. SUFFICES ASSUME q < k PROVE FALSE
    OBVIOUS
  <2>2. n * q + n <= n * k
    BY <1>2, <2>1, TimesStrict
  <2> QED  BY <1>2, <1>4, <2>2
<1>6. ~(k < q)
  <2>1. SUFFICES ASSUME k < q PROVE FALSE
    OBVIOUS
  <2>2. n * k + n <= n * q
    BY <1>2, <2>1, TimesStrict
  <2> QED  BY <1>1, <1>2, <1>4, <2>2
<1>7. q = k
  BY <1>2, <1>5, <1>6
<1> QED  BY <1>3, <1>7, <1>1

-----------------------------------------------------------------------------
(* Where a result lands along one axis. *)

\* A result of the size the runner was asked for lands inside the texture.
LEMMA AxisScaled ==
  ASSUME NEW full \in Nat \ {0}, NEW out \in Nat \ {0},
         NEW x \in Nat, NEW len \in Nat \ {0}, x + len <= full
  PROVE  LET o    == RoundDiv(out * x, full)
             s    == Least(4 * len, Most(1, RoundDiv(out * len, full)))
             over == o + s - out
         IN  /\ s \in Nat \ {0} /\ s <= 4 * len /\ o \in Nat
             /\ over <= 2 /\ 0 <= o - Most(0, over) /\ o - Most(0, over) + s <= out
<1> DEFINE o == RoundDiv(out * x, full)
           l == RoundDiv(out * len, full)
           e == RoundDiv(out * x + out * len, full)
<1>1. /\ out * x \in Nat /\ out * len \in Nat /\ out * full \in Nat
      /\ out * x + out * len \in Nat
  OBVIOUS
<1>2. out * x + out * len <= out * full
  <2>1. out * (x + len) <= out * full
    BY TimesMonotone
  <2> QED  BY <2>1, Distribute
<1>3. o \in Nat /\ l \in Nat /\ e \in Nat
  BY <1>1, RoundBounds
<1>4. o + l <= e + 1
  BY <1>1, RoundSum
<1>5. RoundDiv(out * full, full) = out
  BY RoundExact
<1>6. e <= out
  BY <1>1, <1>2, <1>5, RoundMonotone
<1>7. o <= out /\ l <= out
  BY <1>1, <1>2, <1>5, RoundMonotone
<1> HIDE DEF o, l, e
<1> DEFINE s    == Least(4 * len, Most(1, l))
           over == o + s - out
<1>8. /\ s \in Nat \ {0} /\ s <= 4 * len /\ o \in Nat
      /\ over <= 2 /\ 0 <= o - Most(0, over) /\ o - Most(0, over) + s <= out
  <2>1. s \in Nat \ {0} /\ s <= 4 * len /\ s <= out /\ (s <= l \/ s = 1)
    BY <1>3, <1>7 DEF Least, Most
  <2> HIDE DEF s
  <2>2. over \in Int /\ over <= 1
    BY <2>1, <1>3, <1>4, <1>6, <1>7
  <2> QED  BY <2>1, <2>2, <1>3, <1>7 DEF Most
<1> QED  BY <1>8 DEF o, l

\* So does one of four times the size on a texture of that scale.
LEMMA AxisFourfold ==
  ASSUME NEW full \in Nat \ {0}, NEW x \in Nat
  PROVE  RoundDiv((4 * full) * x, full) = 4 * x
<1>1. (4 * full) * x = (4 * x) * full
  OBVIOUS
<1> QED  BY <1>1, RoundExact

\* And the whole frame starts in the corner.
LEMMA AxisWhole ==
  ASSUME NEW full \in Nat \ {0}, NEW out \in Nat
  PROVE  RoundDiv(out * 0, full) = 0
<1>1. out * 0 = 0 * full
  OBVIOUS
<1> QED  BY <1>1, RoundExact

-----------------------------------------------------------------------------
(* The lines of the target grid. *)

\* The greatest common divisor is one.
LEMMA GcdDivides ==
  ASSUME NEW a \in Nat \ {0}, NEW b \in Nat \ {0}
  PROVE  Gcd(a, b) \in Nat \ {0} /\ a % Gcd(a, b) = 0 /\ b % Gcd(a, b) = 0
<1> DEFINE m == Most(a, b)
           Divides(d) == a % d = 0 /\ b % d = 0
           T == {k \in 0..m - 1 : Divides(m - k)}
<1>1. m \in Nat \ {0}
  BY DEF Most
<1> HIDE DEF m
<1>2. T \subseteq Nat /\ m - 1 \in T
  <2>1. a % 1 = 0 /\ b % 1 = 0
    OBVIOUS
  <2>2. m - (m - 1) = 1 /\ m - 1 \in 0..m - 1
    BY <1>1
  <2> QED  BY <1>1, <2>1, <2>2
<1>3. PICK k \in T : \A l \in T : ~(<<l, k>> \in OpToRel(<, Nat))
  BY <1>2, NatLessThanWellFounded, WFMin
<1>4. \A l \in T : ~(l < k)
  BY <1>2, <1>3 DEF OpToRel
<1> DEFINE d == m - k
<1>5. d \in 1..m /\ Divides(d)
  BY <1>1, <1>2
<1>6. ASSUME NEW e \in d + 1..m
      PROVE  a % e # 0 \/ b % e # 0
  <2>1. m - e \in 0..m - 1 /\ m - (m - e) = e /\ m - e < k
    BY <1>1, <1>5, <1>2
  <2>2. m - e \notin T
    BY <1>4, <2>1
  <2> QED  BY <2>1, <2>2
<1>7. \E g \in 1..m : /\ a % g = 0 /\ b % g = 0
                      /\ \A e \in g + 1..m : a % e # 0 \/ b % e # 0
  BY <1>5, <1>6
<1>8. Gcd(a, b) \in 1..m /\ a % Gcd(a, b) = 0 /\ b % Gcd(a, b) = 0
  BY <1>7 DEF Gcd, m
<1> QED  BY <1>1, <1>8

\* A number that has no remainder is the product.
LEMMA Divided ==
  ASSUME NEW a \in Nat \ {0}, NEW d \in Nat \ {0}, a % d = 0
  PROVE  a \div d \in Nat \ {0} /\ a = d * (a \div d)
<1> DEFINE q == a \div d
<1>1. q \in Nat
  BY DivBounds
<1>2. a = d * q
  OBVIOUS
<1> HIDE DEF q
<1>3. q # 0
  BY <1>2
<1> QED  BY <1>1, <1>2, <1>3 DEF q

\* A frame is a whole number of snap steps wide, and a step a whole number of
\* pixels of the target.
LEMMA StepDivides ==
  ASSUME NEW full \in Nat \ {0}, NEW target \in Nat \ {0}
  PROVE  /\ SnapStep(full, target) \in Nat \ {0}
         /\ \E n \in Nat : full = SnapStep(full, target) * n
         /\ \E m \in Nat : target * SnapStep(full, target) = full * m
<1> DEFINE g == Gcd(full, target)
           step == full \div g
           m == target \div g
<1>1. g \in Nat \ {0} /\ full % g = 0 /\ target % g = 0
  BY GcdDivides
<1> HIDE DEF g
<1>2. step \in Nat \ {0} /\ full = g * step /\ m \in Nat /\ target = g * m
  BY <1>1, Divided
<1> HIDE DEF step, m
<1>3. full = step * g
  BY <1>1, <1>2
<1>4. target * step = full * m
  <2>1. (g * m) * step = (g * step) * m
    BY <1>1, <1>2
  <2> QED  BY <1>2, <2>1
<1>5. step = SnapStep(full, target)
  BY DEF step, g, SnapStep
<1> QED  BY <1>1, <1>2, <1>3, <1>4, <1>5

\* Snapping grows an interval, to whole steps where the grid is fine enough,
\* and not beyond the frame.
Snapped(full, step, lo, hi) ==
  /\ SnapLow(lo, step) \in Nat /\ SnapLow(lo, step) <= lo
  /\ SnapHigh(hi, step) \in Nat /\ hi <= SnapHigh(hi, step) /\ SnapHigh(hi, step) <= full
  /\ step <= MaxSnapStep => /\ \E j \in Nat : SnapLow(lo, step) = step * j
                           /\ \E j \in Nat : SnapHigh(hi, step) = step * j

LEMMA SnapGrows ==
  ASSUME NEW full \in Nat, NEW step \in Nat \ {0}, NEW n \in Nat, full = step * n,
         NEW lo \in Nat, NEW hi \in Nat, lo < hi, hi <= full
  PROVE  Snapped(full, step, lo, hi)
<1> DEFINE p == lo \div step
           up == hi + step - 1
           q == up \div step
<1>1. up \in Nat
  OBVIOUS
<1>2. p \in Nat /\ step * p <= lo /\ lo < step * p + step
  BY DivBounds
<1> HIDE DEF up
<1>3. q \in Nat /\ step * q <= up /\ up < step * q + step
  BY <1>1, DivBounds
<1> HIDE DEF p, q
<1>4. p * step = step * p /\ q * step = step * q /\ step * p \in Nat /\ step * q \in Nat
  BY <1>2, <1>3
<1>5. hi <= step * q
  BY <1>3, <1>4 DEF up
<1>6. step * q <= full
  <2>1. q <= n
    <3>1. SUFFICES ASSUME n < q PROVE FALSE
      BY <1>3
    <3>2. step * n + step <= step * q
      BY <1>3, <3>1, TimesStrict
    <3> QED  BY <3>2, <1>3, <1>4 DEF up
  <2> QED  BY <2>1, <1>3, TimesMonotone
<1>7. CASE step <= MaxSnapStep
  <2>1. SnapLow(lo, step) = step * p /\ SnapHigh(hi, step) = step * q
    BY <1>4, <1>7 DEF SnapLow, SnapHigh, CeilDiv, p, q, up
  <2> QED  BY <2>1, <1>2, <1>3, <1>4, <1>5, <1>6 DEF Snapped
<1>8. CASE ~(step <= MaxSnapStep)
  <2>1. SnapLow(lo, step) = lo /\ SnapHigh(hi, step) = hi
    BY <1>8 DEF SnapLow, SnapHigh
  <2> QED  BY <2>1, <1>8 DEF Snapped
<1> QED  BY <1>7, <1>8

-----------------------------------------------------------------------------
(* Rectangles. *)

\* The instance has a frame, and a texture of its own scale or of the target.
DimsSound ==
  /\ dims \in [w : Nat \ {0}, h : Nat \ {0}, ow : Nat \ {0}, oh : Nat \ {0}, tw : Nat, th : Nat]
  /\ \/ dims.tw = 0 /\ dims.th = 0 /\ dims.ow = 4 * dims.w /\ dims.oh = 4 * dims.h
     \/ /\ dims.tw = dims.ow /\ dims.th = dims.oh
        /\ dims.ow <= 4 * dims.w /\ dims.oh <= 4 * dims.h

\* A rectangle with an area, inside the frame.
Insides == {r \in Rects : r.width > 0 /\ r.height > 0 /\ RectCovers(FullContentRect, r)}

LEMMA FullInside ==
  ASSUME DimsSound
  PROVE  FullContentRect \in Insides /\ None \notin Insides
  BY DEF DimsSound, Insides, FullContentRect, Rects, RectCovers, Rect, None

LEMMA InsideIs ==
  ASSUME DimsSound, NEW r \in Insides
  PROVE  /\ r = Rect(r.x, r.y, r.width, r.height)
         /\ r.x \in Nat /\ r.y \in Nat /\ r.width \in Nat \ {0} /\ r.height \in Nat \ {0}
         /\ r.x + r.width <= dims.w /\ r.y + r.height <= dims.h
  BY DEF DimsSound, Insides, FullContentRect, Rects, RectCovers, Rect

\* Two pairs of edges make such a rectangle.
LEMMA InsideFrom ==
  ASSUME DimsSound, NEW x \in Nat, NEW y \in Nat, NEW w \in Nat \ {0}, NEW h \in Nat \ {0},
         x + w <= dims.w, y + h <= dims.h
  PROVE  Rect(x, y, w, h) \in Insides
  BY DEF DimsSound, Insides, FullContentRect, Rects, RectCovers, Rect

\* The operators on rectangles stay among them.
LEMMA RectFields ==
  ASSUME NEW x, NEW y, NEW w, NEW h
  PROVE  LET r == Rect(x, y, w, h) IN r.x = x /\ r.y = y /\ r.width = w /\ r.height = h
  BY DEF Rect

LEMMA ClampInside ==
  ASSUME DimsSound, NEW r \in Insides
  PROVE  ClampRect(r) = r
<1>1. dims.w \in Nat /\ dims.h \in Nat
  BY DEF DimsSound
<1> QED  BY <1>1, InsideIs DEF ClampRect, Least, Most

LEMMA CoversItself ==
  ASSUME DimsSound, NEW r \in Insides
  PROVE  RectCovers(r, r) /\ RectCovers(FullContentRect, r)
  BY InsideIs DEF RectCovers, Insides

LEMMA CoversOn ==
  ASSUME DimsSound, NEW a \in Insides, NEW b \in Insides, NEW c \in Insides,
         RectCovers(a, b), RectCovers(b, c)
  PROVE  RectCovers(a, c)
  BY InsideIs DEF RectCovers

\* What a frame shows is nothing, or an area of it.
LEMMA BoxInside ==
  ASSUME DimsSound, NEW box \in Boxes, box # None
  PROVE  box \in Insides
<1>1. PICK x \in Edges(XCuts, dims.w), x1 \in Edges(XCuts, dims.w),
           y \in Edges(YCuts, dims.h), y1 \in Edges(YCuts, dims.h) :
        box = Rect(x, y, x1 - x, y1 - y) /\ box.width > 0 /\ box.height > 0
  BY DEF Boxes
<1>2. dims.w \in Nat /\ dims.h \in Nat
  BY DEF DimsSound
<1>3. x \in 0..dims.w /\ x1 \in 0..dims.w /\ y \in 0..dims.h /\ y1 \in 0..dims.h
  BY <1>2, FrameContentAssumption DEF Edges
<1>4. x1 - x > 0 /\ y1 - y > 0
  BY <1>1, RectFields
<1> QED  BY <1>1, <1>2, <1>3, <1>4, InsideFrom

-----------------------------------------------------------------------------
(* The tracker. *)

\* A tracker whose rectangles have an area, or are none.
Trackers == [active : Insides \cup {None}, pending : Insides \cup {None},
             confirms : 0..ShrinkConfirmations, since : 0..Interval]

LEMMA CurrentInside ==
  ASSUME DimsSound, NEW t \in Trackers
  PROVE  Current(t) \in Insides
  BY FullInside DEF Trackers, Current

LEMMA NewTrackerIs ==
  ASSUME DimsSound
  PROVE  NewTracker \in Trackers /\ Current(NewTracker) = FullContentRect
  BY FrameContentAssumption DEF NewTracker, Trackers, ShrinkConfirmations, Current

LEMMA PolledIs ==
  ASSUME NEW t \in Trackers
  PROVE  Polled(t) \in Trackers /\ Current(Polled(t)) = Current(t)
  BY FrameContentAssumption DEF Polled, Due, Trackers, Current

LEMMA NothingAllowed == None \in Insides \cup {None} /\ 0 \in 0..ShrinkConfirmations
  BY DEF ShrinkConfirmations

\* An adopted rectangle is the one in use.
LEMMA AdoptedIs ==
  ASSUME DimsSound, NEW t \in Trackers, NEW r \in Insides
  PROVE  Adopted(t, r) \in Trackers /\ Current(Adopted(t, r)) = r
<1>1. Adopted(t, r) \in Trackers /\ Adopted(t, r).active = r
  BY NothingAllowed DEF Adopted, Trackers
<1>2. r # None
  BY FullInside
<1> QED  BY <1>1, <1>2 DEF Current

\* Whatever a detection is folded into, what the tracker holds afterwards is
\* what it held before or covers what was detected.
LEMMA ObserveKeeps ==
  ASSUME DimsSound, NEW t \in Trackers, NEW seen \in Insides
  PROVE  /\ Observe(t, seen) \in Trackers
         /\ Current(Observe(t, seen)) \in {Current(t), seen}
<1> DEFINE confirms == IF t.pending = seen
                       THEN Least(t.confirms + 1, ShrinkConfirmations) ELSE 1
           same  == [t EXCEPT !.pending = None, !.confirms = 0]
           other == [t EXCEPT !.pending = seen, !.confirms = confirms]
<1>1. ClampRect(seen) = seen
  BY ClampInside
<1>2. confirms \in 0..ShrinkConfirmations
  BY DEF Trackers, ShrinkConfirmations, Least
<1> HIDE DEF confirms
<1>3. same \in Trackers /\ Current(same) = Current(t)
  BY NothingAllowed DEF Trackers, Current
<1>4. other \in Trackers /\ Current(other) = Current(t)
  BY <1>2 DEF Trackers, ShrinkConfirmations, Current
<1>5. Adopted(t, seen) \in Trackers /\ Current(Adopted(t, seen)) = seen
  BY AdoptedIs
<1> HIDE DEF same, other
<1>6. Observe(t, seen) \in {same, other, Adopted(t, seen)}
  BY <1>1 DEF Observe, same, other, confirms
<1> QED  BY <1>3, <1>4, <1>5, <1>6

\* After a frame the tracker holds all of the frame's content.
LEMMA TrackedSound ==
  ASSUME DimsSound, NEW t \in Trackers, NEW box \in Boxes
  PROVE  /\ Tracked(t, box) \in Trackers
         /\ box = None \/ RectCovers(Current(Tracked(t, box)), box)
<1> DEFINE kept == IF IsFullFrame(Current(t)) \/ VerifyCropHolds(box, Current(t))
                   THEN t ELSE NewTracker
           seen == DetectContentRect(box)
<1>1. kept \in Trackers
  BY NewTrackerIs
<1>2. box # None => RectCovers(Current(kept), box)
  <2>1. box # None => RectCovers(FullContentRect, box)
    BY BoxInside, CoversItself
  <2> QED  BY <2>1, NewTrackerIs DEF IsFullFrame, VerifyCropHolds
<1>3. seen \in Insides /\ (box # None => RectCovers(seen, box))
  BY FullInside, BoxInside, ClampInside, CoversItself DEF DetectContentRect
<1> HIDE DEF kept, seen
<1>4. Polled(kept) \in Trackers /\ Current(Polled(kept)) = Current(kept)
  BY <1>1, PolledIs
<1>5. /\ Observe(Polled(kept), seen) \in Trackers
      /\ Current(Observe(Polled(kept), seen)) \in {Current(kept), seen}
  BY <1>3, <1>4, ObserveKeeps
<1>6. Tracked(t, box) \in {Polled(kept), Observe(Polled(kept), seen)}
  BY DEF Tracked, kept, seen
<1> QED  BY <1>2, <1>3, <1>4, <1>5, <1>6

-----------------------------------------------------------------------------
(* The crop. *)

\* Where the target grid could be met, the edges of a crop fall on it.
OnGrid(crop) ==
  ~IsFullFrame(crop) /\ SnapStep(dims.w, dims.tw) <= MaxSnapStep =>
     (dims.tw * crop.x) % dims.w = 0 /\ (dims.tw * (crop.x + crop.width)) % dims.w = 0

\* A multiple of a snap step is on the grid.
LEMMA GridLine ==
  ASSUME NEW full \in Nat \ {0}, NEW target \in Nat \ {0}, NEW j \in Nat
  PROVE  (target * (SnapStep(full, target) * j)) % full = 0
<1> DEFINE step == SnapStep(full, target)
<1>1. PICK m \in Nat : target * step = full * m
  BY StepDivides
<1>2. step \in Nat
  BY StepDivides
<1> HIDE DEF step
<1>3. target * (step * j) = (target * step) * j
  BY <1>2
<1>4. (full * m) * j = full * (m * j)
  OBVIOUS
<1>5. (full * (m * j)) % full = 0
  BY ModProduct, m * j \in Nat
<1> QED  BY <1>1, <1>3, <1>4, <1>5 DEF step

\* Snapping a rectangle keeps what it holds.
LEMMA SnapSound ==
  ASSUME DimsSound, dims.tw > 0, dims.th > 0, NEW r \in Insides
  PROVE  LET c == SnapCropToTargetGrid(r) IN
         c \in Insides /\ RectCovers(c, r) /\ OnGrid(c)
<1> DEFINE sx == SnapStep(dims.w, dims.tw)
           sy == SnapStep(dims.h, dims.th)
           x0 == SnapLow(r.x, sx)
           x1 == SnapHigh(r.x + r.width, sx)
           y0 == SnapLow(r.y, sy)
           y1 == SnapHigh(r.y + r.height, sy)
           c  == SnapCropToTargetGrid(r)
<1>1. /\ dims.w \in Nat \ {0} /\ dims.h \in Nat \ {0}
      /\ dims.tw \in Nat \ {0} /\ dims.th \in Nat \ {0}
  BY DEF DimsSound
<1>2. /\ r.x \in Nat /\ r.y \in Nat /\ r.width \in Nat \ {0} /\ r.height \in Nat \ {0}
      /\ r.x + r.width \in Nat /\ r.x < r.x + r.width /\ r.x + r.width <= dims.w
      /\ r.y + r.height \in Nat /\ r.y < r.y + r.height /\ r.y + r.height <= dims.h
  BY InsideIs
<1>3. /\ sx \in Nat \ {0} /\ sy \in Nat \ {0}
      /\ \E n \in Nat : dims.w = sx * n
      /\ \E n \in Nat : dims.h = sy * n
  BY <1>1, StepDivides
<1>4. \A j \in Nat : (dims.tw * (sx * j)) % dims.w = 0
  BY <1>1, GridLine
<1> HIDE DEF sx, sy
<1>5. /\ x0 \in Nat /\ x0 <= r.x /\ x1 \in Nat /\ r.x + r.width <= x1 /\ x1 <= dims.w
      /\ sx <= MaxSnapStep => /\ \E j \in Nat : x0 = sx * j
                             /\ \E j \in Nat : x1 = sx * j
  <2>1. PICK n \in Nat : dims.w = sx * n
    BY <1>3
  <2>2. Snapped(dims.w, sx, r.x, r.x + r.width)
    BY <2>1, <1>1, <1>2, <1>3, SnapGrows
  <2> QED  BY <2>2 DEF Snapped
<1>6. y0 \in Nat /\ y0 <= r.y /\ y1 \in Nat /\ r.y + r.height <= y1 /\ y1 <= dims.h
  <2>1. PICK n \in Nat : dims.h = sy * n
    BY <1>3
  <2>2. Snapped(dims.h, sy, r.y, r.y + r.height)
    BY <2>1, <1>1, <1>2, <1>3, SnapGrows
  <2> QED  BY <2>2 DEF Snapped
<1> HIDE DEF x0, x1, y0, y1
<1>7. CASE sx <= 1 /\ sy <= 1
  <2>1. c = r
    BY <1>7 DEF SnapCropToTargetGrid, sx, sy
  <2>2. sx = 1
    BY <1>3, <1>7
  <2>3. (dims.tw * r.x) % dims.w = 0 /\ (dims.tw * (r.x + r.width)) % dims.w = 0
    <3>1. \A j \in Nat : sx * j = j
      BY <2>2
    <3>2. r.x + r.width \in Nat
      BY <1>2
    <3> QED  BY <3>1, <3>2, <1>2, <1>4
  <2> QED  BY <2>1, <2>3, CoversItself DEF OnGrid
<1>8. CASE ~(sx <= 1 /\ sy <= 1)
  <2> DEFINE s == Rect(x0, y0, x1 - x0, y1 - y0)
  <2>1. /\ x1 - x0 \in Nat \ {0} /\ y1 - y0 \in Nat \ {0}
        /\ x0 + (x1 - x0) = x1 /\ y0 + (y1 - y0) = y1
    BY <1>2, <1>5, <1>6
  <2>2. s \in Insides
    BY <2>1, <1>5, <1>6, InsideFrom
  <2>3. s.x = x0 /\ s.x + s.width = x1 /\ s.y = y0 /\ s.y + s.height = y1
    BY <2>1, RectFields
  <2>4. ~(dims.tw <= 0 \/ dims.th <= 0 \/ (sx <= 1 /\ sy <= 1))
    BY <1>1, <1>8
  <2>5. c = ClampRect(s)
    BY <2>4 DEF SnapCropToTargetGrid, sx, sy, x0, x1, y0, y1
  <2> HIDE DEF s, c
  <2>6. c = s
    BY <2>2, <2>5, ClampInside
  <2>7. RectCovers(s, r)
    BY <2>3, <1>2, <1>5, <1>6 DEF RectCovers
  <2>8. OnGrid(s)
    BY <2>3, <1>4, <1>5 DEF OnGrid, sx
  <2> QED  BY <2>2, <2>6, <2>7, <2>8 DEF c
<1> QED  BY <1>7, <1>8

\* The crop of a frame holds what the tracker holds.
LEMMA DecidedSound ==
  ASSUME DimsSound, NEW t \in Trackers
  PROVE  LET c == Decided(t) IN
         c \in Insides /\ RectCovers(c, Current(t)) /\ OnGrid(c)
<1>1. Current(t) \in Insides
  BY CurrentInside
<1>2. CASE dims.tw > 0 /\ dims.th > 0 /\ ~IsFullFrame(Current(t))
  BY <1>1, <1>2, SnapSound DEF Decided, DimsSound
<1>3. CASE ~(dims.tw > 0 /\ dims.th > 0)
  <2>1. dims.tw = 0
    BY <1>3 DEF DimsSound
  <2>2. Decided(t) = Current(t)
    BY <2>1 DEF Decided
  <2>3. \A x \in Nat : (0 * x) % dims.w = 0
    BY DEF DimsSound
  <2>4. Current(t).x \in Nat /\ Current(t).x + Current(t).width \in Nat
    BY <1>1, InsideIs
  <2> QED  BY <1>1, <2>1, <2>2, <2>3, <2>4, CoversItself DEF OnGrid
<1>4. CASE IsFullFrame(Current(t))
  BY <1>1, <1>4, CoversItself DEF Decided, OnGrid
<1> QED  BY <1>2, <1>3, <1>4

\* Content that lies in the crop comes out of the slice unharmed.
LEMMA SliceWhole ==
  ASSUME DimsSound, NEW crop \in Insides, NEW box, box = None \/ box \in Insides,
         box = None \/ RectCovers(crop, box)
  PROVE  CropSlice(box, crop) = box
<1>1. CASE box = None
  <2>1. box.x = 0 /\ box.y = 0 /\ box.width = 0 /\ box.height = 0
    BY <1>1, RectFields DEF None
  <2> QED  BY <1>1, <2>1, InsideIs DEF CropSlice, Least, Most
<1>2. CASE box # None
  <2>1. box \in Insides /\ RectCovers(crop, box)
    BY <1>2
  <2>2. /\ Most(box.x, crop.x) = box.x /\ Most(box.y, crop.y) = box.y
        /\ Least(box.x + box.width, crop.x + crop.width) = box.x + box.width
        /\ Least(box.y + box.height, crop.y + crop.height) = box.y + box.height
    BY <2>1, InsideIs DEF RectCovers, Least, Most
  <2>3. /\ box.x + box.width > box.x /\ box.y + box.height > box.y
        /\ (box.x + box.width) - box.x = box.width /\ (box.y + box.height) - box.y = box.height
    BY <2>1, InsideIs
  <2> QED  BY <2>1, <2>2, <2>3, InsideIs DEF CropSlice
<1> QED  BY <1>1, <1>2

-----------------------------------------------------------------------------
(* Where a crop lands. *)

\* The paste, whether or not it fits.
Landing(crop, size) ==
  LET ox == RoundDiv(dims.ow * crop.x, dims.w)
      oy == RoundDiv(dims.oh * crop.y, dims.h)
  IN  Rect(ox - Most(0, ox + size[1] - dims.ow), oy - Most(0, oy + size[2] - dims.oh),
           size[1], size[2])

\* A landing has integer edges, and a paste that fits is one.
LEMMA OriginIs ==
  ASSUME DimsSound, NEW crop \in Insides
  PROVE  /\ RoundDiv(dims.ow * crop.x, dims.w) \in Nat
         /\ RoundDiv(dims.oh * crop.y, dims.h) \in Nat
<1>1. /\ dims.w \in Nat \ {0} /\ dims.h \in Nat \ {0} /\ dims.ow \in Nat /\ dims.oh \in Nat
      /\ crop.x \in Nat /\ crop.y \in Nat
  BY InsideIs DEF DimsSound
<1>2. dims.ow * crop.x \in Nat /\ dims.oh * crop.y \in Nat
  BY <1>1
<1> QED  BY <1>1, <1>2, RoundBounds

LEMMA PasteIs ==
  ASSUME NEW crop, NEW size, CropPaste(crop, size) # None
  PROVE  CropPaste(crop, size) = Landing(crop, size)
  BY DEF CropPaste, Landing

Places == [x : Int, y : Int, width : Nat, height : Nat]

LEMMA LandingIs ==
  ASSUME DimsSound, NEW crop \in Insides, NEW a \in Nat, NEW b \in Nat
  PROVE  Landing(crop, <<a, b>>) \in Places
<1> DEFINE ox == RoundDiv(dims.ow * crop.x, dims.w)
           oy == RoundDiv(dims.oh * crop.y, dims.h)
           x == ox - Most(0, ox + a - dims.ow)
           y == oy - Most(0, oy + b - dims.oh)
<1>1. ox \in Nat /\ oy \in Nat /\ dims.ow \in Nat /\ dims.oh \in Nat
  BY OriginIs DEF DimsSound
<1> HIDE DEF ox, oy
<1>2. x \in Int /\ y \in Int
  BY <1>1 DEF Most
<1>3. Landing(crop, <<a, b>>) = Rect(x, y, a, b)
  BY DEF Landing, ox, oy
<1> HIDE DEF x, y
<1> QED  BY <1>2, <1>3 DEF Rect, Places

\* A larger result covers what a smaller one of the same crop covered.
LEMMA LandingGrows ==
  ASSUME DimsSound, NEW crop \in Insides,
         NEW a \in Nat, NEW b \in Nat, NEW c \in Nat, NEW d \in Nat, a <= c, b <= d
  PROVE  RectCovers(Landing(crop, <<c, d>>), Landing(crop, <<a, b>>))
<1> DEFINE ox == RoundDiv(dims.ow * crop.x, dims.w)
           oy == RoundDiv(dims.oh * crop.y, dims.h)
           ax == ox - Most(0, ox + a - dims.ow)
           ay == oy - Most(0, oy + b - dims.oh)
           cx == ox - Most(0, ox + c - dims.ow)
           cy == oy - Most(0, oy + d - dims.oh)
<1>1. ox \in Nat /\ oy \in Nat /\ dims.ow \in Nat /\ dims.oh \in Nat
  BY OriginIs DEF DimsSound
<1>2. /\ Landing(crop, <<a, b>>) = Rect(ax, ay, a, b)
      /\ Landing(crop, <<c, d>>) = Rect(cx, cy, c, d)
  BY DEF Landing
<1> HIDE DEF ox, oy
<1>3. cx <= ax /\ cy <= ay /\ cx + c >= ax + a /\ cy + d >= ay + b
  BY <1>1 DEF Most
<1> HIDE DEF ax, ay, cx, cy
<1> QED  BY <1>2, <1>3, RectFields DEF RectCovers

\* A crop's result is never larger than fourfold.
LEMMA ResultSizeIs ==
  ASSUME DimsSound, NEW crop \in Insides
  PROVE  /\ ResultSize(crop) = <<ResultSize(crop)[1], ResultSize(crop)[2]>>
         /\ ResultSize(crop)[1] \in Nat \ {0} /\ ResultSize(crop)[2] \in Nat \ {0}
         /\ ~IsFullFrame(crop) => /\ ResultSize(crop)[1] <= 4 * crop.width
                                 /\ ResultSize(crop)[2] <= 4 * crop.height
<1>1. /\ dims.w \in Nat \ {0} /\ dims.h \in Nat \ {0}
      /\ dims.ow \in Nat \ {0} /\ dims.oh \in Nat \ {0}
      /\ crop.width \in Nat \ {0} /\ crop.height \in Nat \ {0}
      /\ crop.x \in Nat /\ crop.y \in Nat
      /\ crop.x + crop.width <= dims.w /\ crop.y + crop.height <= dims.h
  BY InsideIs DEF DimsSound
<1>2. CASE dims.tw = 0
  BY <1>1, <1>2 DEF ResultSize
<1>3. CASE dims.tw # 0
  <2>1. dims.tw = dims.ow /\ dims.th = dims.oh
    BY <1>3 DEF DimsSound
  <2>2. CASE IsFullFrame(crop)
    BY <1>1, <1>3, <2>1, <2>2 DEF ResultSize
  <2>3. CASE ~IsFullFrame(crop)
    <3> DEFINE a == Least(4 * crop.width, Most(1, RoundDiv(dims.ow * crop.width, dims.w)))
               b == Least(4 * crop.height, Most(1, RoundDiv(dims.oh * crop.height, dims.h)))
    <3>1. /\ a \in Nat \ {0} /\ a <= 4 * crop.width
          /\ b \in Nat \ {0} /\ b <= 4 * crop.height
      BY <1>1, AxisScaled
    <3> HIDE DEF a, b
    <3>2. ResultSize(crop) = <<a, b>>
      BY <1>3, <2>1, <2>3 DEF ResultSize, a, b
    <3> QED  BY <3>1, <3>2
  <2> QED  BY <2>2, <2>3
<1> QED  BY <1>2, <1>3

\* Along one axis a runner's result lands inside the texture.
Fits(o, s, out) ==
  /\ o + s - out <= 2
  /\ 0 <= o - Most(0, o + s - out) /\ o - Most(0, o + s - out) + s <= out

LEMMA ResultFits ==
  ASSUME DimsSound, NEW crop \in Insides
  PROVE  /\ Fits(RoundDiv(dims.ow * crop.x, dims.w), ResultSize(crop)[1], dims.ow)
         /\ Fits(RoundDiv(dims.oh * crop.y, dims.h), ResultSize(crop)[2], dims.oh)
<1>1. /\ dims.w \in Nat \ {0} /\ dims.h \in Nat \ {0}
      /\ dims.ow \in Nat \ {0} /\ dims.oh \in Nat \ {0}
      /\ crop.width \in Nat \ {0} /\ crop.height \in Nat \ {0}
      /\ crop.x \in Nat /\ crop.y \in Nat
      /\ crop.x + crop.width <= dims.w /\ crop.y + crop.height <= dims.h
  BY InsideIs DEF DimsSound
<1>2. CASE dims.tw = 0
  <2>1. dims.ow = 4 * dims.w /\ dims.oh = 4 * dims.h
    BY <1>2, <1>1 DEF DimsSound
  <2>2. /\ RoundDiv(dims.ow * crop.x, dims.w) = 4 * crop.x
        /\ RoundDiv(dims.oh * crop.y, dims.h) = 4 * crop.y
    BY <1>1, <2>1, AxisFourfold
  <2>3. ResultSize(crop)[1] = 4 * crop.width /\ ResultSize(crop)[2] = 4 * crop.height
    BY <1>2 DEF ResultSize
  <2>4. /\ Fits(4 * crop.x, 4 * crop.width, 4 * dims.w)
        /\ Fits(4 * crop.y, 4 * crop.height, 4 * dims.h)
    BY <1>1 DEF Fits, Most
  <2> QED  BY <2>1, <2>2, <2>3, <2>4
<1>3. CASE dims.tw # 0
  <2>1. dims.tw = dims.ow /\ dims.th = dims.oh
    BY <1>3 DEF DimsSound
  <2>2. CASE IsFullFrame(crop)
    <3>1. crop.x = 0 /\ crop.y = 0
      BY <2>2, RectFields DEF IsFullFrame, FullContentRect
    <3>2. RoundDiv(dims.ow * crop.x, dims.w) = 0 /\ RoundDiv(dims.oh * crop.y, dims.h) = 0
      BY <1>1, <3>1, AxisWhole
    <3>3. ResultSize(crop)[1] = dims.ow /\ ResultSize(crop)[2] = dims.oh
      BY <1>3, <2>1, <2>2 DEF ResultSize
    <3>4. Fits(0, dims.ow, dims.ow) /\ Fits(0, dims.oh, dims.oh)
      BY <1>1 DEF Fits, Most
    <3> QED  BY <3>2, <3>3, <3>4
  <2>3. CASE ~IsFullFrame(crop)
    <3> DEFINE a == Least(4 * crop.width, Most(1, RoundDiv(dims.ow * crop.width, dims.w)))
               b == Least(4 * crop.height, Most(1, RoundDiv(dims.oh * crop.height, dims.h)))
    <3>1. Fits(RoundDiv(dims.ow * crop.x, dims.w), a, dims.ow)
      BY <1>1, AxisScaled DEF Fits
    <3>2. Fits(RoundDiv(dims.oh * crop.y, dims.h), b, dims.oh)
      BY <1>1, AxisScaled DEF Fits
    <3> HIDE DEF a, b
    <3>3. ResultSize(crop)[1] = a /\ ResultSize(crop)[2] = b
      BY <1>3, <2>1, <2>3 DEF ResultSize, a, b
    <3> QED  BY <3>1, <3>2, <3>3
  <2> QED  BY <2>2, <2>3
<1> QED  BY <1>2, <1>3

\* A runner's result lands on the texture.
LEMMA PasteLands ==
  ASSUME DimsSound, NEW crop \in Insides
  PROVE  LET paste == CropPaste(crop, ResultSize(crop)) IN
         paste # None /\ RectCovers(Out, paste)
<1> DEFINE ox == RoundDiv(dims.ow * crop.x, dims.w)
           oy == RoundDiv(dims.oh * crop.y, dims.h)
           a  == ResultSize(crop)[1]
           b  == ResultSize(crop)[2]
           x  == ox - Most(0, ox + a - dims.ow)
           y  == oy - Most(0, oy + b - dims.oh)
<1>1. /\ ox \in Nat /\ oy \in Nat /\ a \in Nat \ {0} /\ b \in Nat \ {0}
      /\ dims.ow \in Nat /\ dims.oh \in Nat
  BY OriginIs, ResultSizeIs DEF DimsSound
<1>2. Fits(ox, a, dims.ow) /\ Fits(oy, b, dims.oh)
  BY ResultFits
<1>3. ~(ox + a - dims.ow > 2 \/ oy + b - dims.oh > 2) =>
        CropPaste(crop, ResultSize(crop)) = Rect(x, y, a, b)
  BY DEF CropPaste
<1> HIDE DEF ox, oy, a, b
<1>4. CropPaste(crop, ResultSize(crop)) = Rect(x, y, a, b)
  BY <1>1, <1>2, <1>3 DEF Fits
<1>5. 0 <= x /\ x + a <= dims.ow /\ 0 <= y /\ y + b <= dims.oh
  BY <1>2 DEF Fits
<1> HIDE DEF x, y
<1>6. Rect(x, y, a, b) # None
  BY <1>1 DEF None, Rect
<1>7. RectCovers(Out, Rect(x, y, a, b))
  BY <1>1, <1>5, RectFields DEF RectCovers, Out
<1> QED  BY <1>4, <1>6, <1>7

-----------------------------------------------------------------------------
(* The inductive invariant. *)

\* The parts of the invariant.
Cropped == {r \in Insides : ~IsFullFrame(r)}

\* A frame that is inferred has a crop that holds its content, and the session
\* infers only when no runner does.
Flights ==
  {f \in [phase : {"mapping", "inferring"}, crop : Insides \cup {None},
          whole : BOOLEAN, late : BOOLEAN, by : {"none", "runner", "session"}] :
     /\ f.phase = "inferring" => f.crop \in Insides /\ f.whole /\ OnGrid(f.crop)
     /\ f.by = "session" => ~runner}

Writers == [bars : Cropped \cup {None}, skips : 0..FatalSkips,
            composer : BOOLEAN, throws : 0..ComposerBudget - 1]

Paints == {p \in [rect : Rects, by : {"prime", "runner", "session", "composer"}] :
             RectCovers(Out, p.rect)}

Typed ==
  /\ runner \in BOOLEAN /\ landed \in BOOLEAN
  /\ tracker \in Trackers /\ writer \in Writers /\ painted \subseteq Paints
  /\ flights \in Seq(Flights) /\ Len(flights) <= Depth

\* Where the runner and the session paste the crop whose bars are filled.
RunnerPaste == CropPaste(writer.bars, ResultSize(writer.bars))
SessionPaste == CropPaste(writer.bars, SessionSize(writer.bars))

\* An area that holds a result of that crop, or a frame of the composer.
OfCrop(p) ==
  \/ p.by = "composer"
  \/ p.by = "runner" /\ p.rect = RunnerPaste
  \/ p.by = "session" /\ ~runner /\ p.rect = SessionPaste

\* Where the writer believes the bars filled, it has painted nothing but results
\* of their crop.
BarsSound == writer.bars # None => landed /\ \A p \in painted : OfCrop(p)

ContentInv == DimsSound /\ Typed /\ BarsSound /\ BarsForgotten

\* The sets depend on nothing but the geometry, which never changes, and on whether
\* a runner serves.
LEMMA SameSets ==
  ASSUME dims' = dims, runner' = runner
  PROVE  /\ (DimsSound' <=> DimsSound) /\ Out' = Out
         /\ Insides' = Insides /\ Cropped' = Cropped /\ Trackers' = Trackers
         /\ Flights' = Flights /\ Writers' = Writers /\ Paints' = Paints
<1>1. (DimsSound' <=> DimsSound) /\ Out' = Out
  BY DEF DimsSound, Out
<1>2. FullContentRect' = FullContentRect
  BY DEF FullContentRect
<1>3. Insides' = Insides
  BY <1>2 DEF Insides
<1>4. Cropped' = Cropped
  BY <1>2, <1>3 DEF Cropped, IsFullFrame
<1>5. Trackers' = Trackers
  BY <1>3 DEF Trackers
<1>6. Flights' = Flights
  BY <1>2, <1>3 DEF Flights, OnGrid, IsFullFrame
<1>7. Writers' = Writers
  BY <1>4 DEF Writers
<1>8. Paints' = Paints
  BY <1>1 DEF Paints
<1> QED  BY <1>1, <1>3, <1>4, <1>5, <1>6, <1>7, <1>8

\* A frame removed leaves the others.
LEMMA Removed ==
  ASSUME NEW S, NEW s \in Seq(S), NEW i \in DOMAIN s
  PROVE  RemoveAt(s, i) \in Seq(S) /\ Len(RemoveAt(s, i)) <= Len(s)
  BY DEF RemoveAt

\* A frame replaced by another.
LEMMA Replaced ==
  ASSUME NEW S, NEW s \in Seq(S), NEW i \in DOMAIN s, NEW f \in S
  PROVE  [s EXCEPT ![i] = f] \in Seq(S) /\ Len([s EXCEPT ![i] = f]) = Len(s)
  OBVIOUS

\* All of them replaced.
LEMMA Mapped ==
  ASSUME NEW S, NEW s \in Seq(S), NEW r, r = [i \in DOMAIN s |-> r[i]],
         \A i \in DOMAIN s : r[i] \in S
  PROVE  r \in Seq(S) /\ Len(r) = Len(s) /\ DOMAIN r = DOMAIN s
  OBVIOUS

LEMMA ClaimedIs ==
  ASSUME Typed, NEW i \in DOMAIN flights
  PROVE  Claimed(i) \in Seq(Flights) /\ Len(Claimed(i)) <= Depth
<1> DEFINE r == [j \in DOMAIN flights |->
                   IF j < i THEN [flights[j] EXCEPT !.late = TRUE] ELSE flights[j]]
<1>1. ASSUME NEW f \in Flights
      PROVE  [f EXCEPT !.late = TRUE] \in Flights
  BY DEF Flights
<1>2. \A j \in DOMAIN flights : flights[j] \in Flights
  BY DEF Typed
<1>3. \A j \in DOMAIN flights : r[j] \in Flights
  BY <1>1, <1>2
<1>4. r = [j \in DOMAIN flights |-> r[j]]
  OBVIOUS
<1> HIDE DEF r
<1>5. r \in Seq(Flights) /\ Len(r) = Len(flights) /\ i \in DOMAIN r
  BY <1>3, <1>4, Mapped DEF Typed
<1>6. RemoveAt(r, i) \in Seq(Flights) /\ Len(RemoveAt(r, i)) <= Len(r)
  BY <1>5, Removed
<1> QED  BY <1>5, <1>6, FrameContentAssumption DEF Typed, Claimed, r

\* A write over the whole texture leaves nothing beside it.
LEMMA PaintsAllSound ==
  ASSUME DimsSound, dims' = dims, NEW by \in {"prime", "runner", "session", "composer"},
         PaintsAll(by)
  PROVE  painted' \subseteq Paints /\ BarsForgotten'
<1>1. Out \in Rects /\ RectCovers(Out, Out)
  BY DEF DimsSound, Out, Rect, Rects, RectCovers
<1>2. painted' = {[rect |-> Out, by |-> by]} /\ shown' = Out
  BY DEF PaintsAll
<1>3. [rect |-> Out, by |-> by] \in Paints
  BY <1>1 DEF Paints
<1> QED  BY <1>1, <1>2, <1>3 DEF BarsForgotten, RectCovers

LEMMA PastesSame ==
  ASSUME dims' = dims, writer'.bars = writer.bars
  PROVE  RunnerPaste' = RunnerPaste /\ SessionPaste' = SessionPaste
  BY DEF RunnerPaste, SessionPaste, CropPaste, SessionSize, ResultSize, IsFullFrame,
         FullContentRect

\* What is painted of a crop stays so while its bars stay filled.
LEMMA BarsKept ==
  ASSUME ContentInv, dims' = dims, runner' = runner \/ runner' = FALSE, writer'.bars = writer.bars,
         painted' = painted, landed' = landed \/ landed' = TRUE
  PROVE  BarsSound'
<1>1. RunnerPaste' = RunnerPaste /\ SessionPaste' = SessionPaste
  BY PastesSame
<1> QED  BY <1>1 DEF ContentInv, BarsSound, OfCrop

\* So does what lies beside the result on display.
LEMMA BesideKept ==
  ASSUME ContentInv, dims' = dims, runner' = runner \/ runner' = FALSE, writer'.bars = writer.bars,
         painted' = painted, shown' = shown
  PROVE  BarsForgotten'
<1>1. SessionPaste' = SessionPaste
  BY PastesSame
<1> QED  BY <1>1 DEF ContentInv, BarsForgotten, SessionPaste, RectCovers

\* The geometry of an instance: a transport size is the texture's.
LEMMA InitGeometry ==
  ASSUME NEW w \in Nat \ {0}, NEW h \in Nat \ {0}, NEW target \in Nat, NEW downscales \in BOOLEAN,
         dims = OutputGeometry(w, h, target, RoundDiv(target * h, w), downscales)
  PROVE  DimsSound
<1> DEFINE high     == RoundDiv(target * h, w)
           byWidth  == Least(target, 4 * w)
           byHeight == RoundDiv(byWidth * h, w)
           scaled   == downscales /\ target > 0 /\ high > 0 /\ (target < 4 * w \/ high < 4 * h)
<1>1. CASE ~scaled
  <2>1. dims = [w |-> w, h |-> h, ow |-> 4 * w, oh |-> 4 * h, tw |-> 0, th |-> 0]
    BY <1>1 DEF OutputGeometry
  <2> QED  BY <2>1 DEF DimsSound
<1>2. CASE scaled
  <2>1. byWidth \in Nat \ {0} /\ byWidth <= 4 * w /\ byWidth <= target
    BY <1>2 DEF Least
  <2>2. /\ target * h \in Nat /\ byWidth * h \in Nat /\ (4 * w) * h \in Nat
        /\ byWidth * h <= target * h /\ byWidth * h <= (4 * w) * h
    <3>1. h * byWidth <= h * target /\ h * byWidth <= h * (4 * w)
      BY <2>1, TimesMonotone
    <3>2. /\ h * byWidth = byWidth * h /\ h * target = target * h /\ h * (4 * w) = (4 * w) * h
          /\ target * h \in Nat /\ byWidth * h \in Nat /\ (4 * w) * h \in Nat
      BY <2>1
    <3> QED  BY <3>1, <3>2
  <2>3. RoundDiv((4 * w) * h, w) = 4 * h
    <3>1. (4 * w) * h = (4 * h) * w
      OBVIOUS
    <3> QED  BY <3>1, RoundExact
  <2>4. byHeight \in Nat /\ high \in Nat /\ byHeight <= high /\ byHeight <= 4 * h
    BY <2>2, <2>3, RoundBounds, RoundMonotone
  <2>5. byHeight > 0
    <3>1. CASE byWidth = target
      BY <3>1, <1>2, <2>4
    <3>2. CASE byWidth = 4 * w
      BY <3>2, <2>3
    <3> QED  BY <3>1, <3>2 DEF Least
  <2>6. dims = [w |-> w, h |-> h, ow |-> byWidth, oh |-> byHeight, tw |-> byWidth, th |-> byHeight]
    <3>1. byHeight <= high
      BY <2>4
    <3> QED  BY <1>2, <3>1 DEF OutputGeometry
  <2> HIDE DEF byWidth, byHeight
  <2> QED  BY <2>1, <2>4, <2>5, <2>6 DEF DimsSound
<1> QED  BY <1>1, <1>2

LEMMA InitInv == Init => ContentInv
<1> SUFFICES ASSUME Init PROVE ContentInv
  OBVIOUS
<1>1. DimsSound
  <2>1. PICK w \in Widths, h \in Heights, tw \in TargetWidths, downscales \in BOOLEAN :
          dims = OutputGeometry(w, h, tw, RoundDiv(tw * h, w), downscales)
    BY DEF Init
  <2>2. w \in Nat \ {0} /\ h \in Nat \ {0} /\ tw \in Nat
    BY FrameContentAssumption
  <2> QED  BY <2>1, <2>2, InitGeometry
<1>2. tracker \in Trackers
  BY NewTrackerIs, <1>1 DEF Init
<1>3. writer \in Writers /\ writer.bars = None
  BY DEF Init, NewWriter, Writers, FatalSkips, ComposerBudget
<1>4. painted \subseteq Paints /\ BarsForgotten
  BY DEF Init, BarsForgotten
<1>5. flights \in Seq(Flights) /\ Len(flights) <= Depth
  BY FrameContentAssumption DEF Init
<1> QED  BY <1>1, <1>2, <1>3, <1>4, <1>5 DEF Init, ContentInv, Typed, BarsSound

\* Every step keeps the invariant.
LEMMA CaptureStep ==
  ASSUME ContentInv, Capture
  PROVE  ContentInv'
<1>1. DimsSound /\ dims' = dims /\ Typed
  BY DEF ContentInv, Capture
<1>2. NewFlight \in Flights
  BY DEF NewFlight, Flights
<1>3. flights' \in Seq(Flights) /\ Len(flights') <= Depth
  BY <1>1, <1>2, FrameContentAssumption DEF Capture, Typed
<1>4. painted' \subseteq Paints /\ BarsForgotten'
  <2>1. CASE landed
    BY <2>1, BesideKept DEF Capture, ContentInv, Typed
  <2>2. CASE ~landed
    BY <2>2, <1>1, PaintsAllSound DEF Capture
  <2> QED  BY <2>1, <2>2
<1>5. BarsSound'
  <2>1. CASE landed
    BY <2>1, BarsKept DEF Capture
  <2>2. CASE ~landed
    BY <2>2 DEF Capture, ContentInv, BarsSound
  <2> QED  BY <2>1, <2>2
<1> QED  BY <1>1, <1>3, <1>4, <1>5, SameSets DEF Capture, ContentInv, Typed

LEMMA DecideStep ==
  ASSUME ContentInv, NEW i \in DOMAIN flights, Decide(i)
  PROVE  ContentInv'
<1>1. DimsSound /\ dims' = dims /\ Typed
  BY DEF ContentInv, Decide
<1>2. PICK box \in Boxes :
        /\ tracker' = Tracked(tracker, box)
        /\ LET crop == Decided(tracker')
           IN  flights' = [flights EXCEPT
                 ![i] = [@ EXCEPT !.phase = "inferring", !.crop = crop,
                                  !.by = IF runner THEN "runner" ELSE "session",
                                  !.whole = CropSlice(box, crop) = box]]
  BY DEF Decide
<1> DEFINE crop == Decided(tracker')
           f    == [flights[i] EXCEPT !.phase = "inferring", !.crop = crop,
                                      !.by = IF runner THEN "runner" ELSE "session",
                                      !.whole = CropSlice(box, crop) = box]
<1>3. /\ tracker' \in Trackers
      /\ box = None \/ RectCovers(Current(tracker'), box)
  BY <1>1, <1>2, TrackedSound DEF Typed
<1>4. /\ Current(tracker') \in Insides
      /\ crop \in Insides /\ RectCovers(crop, Current(tracker')) /\ OnGrid(crop)
  BY <1>1, <1>3, CurrentInside, DecidedSound
<1>5. box = None \/ (box \in Insides /\ RectCovers(crop, box))
  BY <1>1, <1>3, <1>4, BoxInside, CoversOn
<1>6. CropSlice(box, crop) = box
  BY <1>1, <1>4, <1>5, SliceWhole
<1> HIDE DEF crop
<1>7. flights[i] \in Flights
  BY <1>1 DEF Typed
<1>8. f \in Flights
  BY <1>4, <1>6, <1>7 DEF Flights
<1>9. flights' = [flights EXCEPT ![i] = f]
  BY <1>2 DEF crop
<1> HIDE DEF f
<1>10. flights' \in Seq(Flights) /\ Len(flights') <= Depth
  BY <1>1, <1>8, <1>9, Replaced DEF Typed
<1>11. painted' \subseteq Paints /\ BarsForgotten'
  <2>1. CASE landed
    BY <2>1, BesideKept DEF Decide, ContentInv, Typed
  <2>2. CASE ~landed
    BY <2>2, <1>1, PaintsAllSound DEF Decide
  <2> QED  BY <2>1, <2>2
<1>12. BarsSound'
  <2>1. CASE landed
    BY <2>1, BarsKept DEF Decide
  <2>2. CASE ~landed
    BY <2>2 DEF Decide, ContentInv, BarsSound
  <2> QED  BY <2>1, <2>2
<1> QED  BY <1>1, <1>3, <1>10, <1>11, <1>12, SameSets DEF Decide, ContentInv, Typed

\* Nothing but the frames under way has changed.
LEMMA OnlyFlights ==
  ASSUME ContentInv, UNCHANGED <<dims, tracker, runner, writer, painted, shown, landed>>,
         flights' \in Seq(Flights), Len(flights') <= Depth
  PROVE  ContentInv'
<1>1. BarsForgotten' /\ BarsSound'
  BY BesideKept, BarsKept
<1> QED  BY <1>1, SameSets DEF ContentInv, Typed

LEMMA LeaveStep ==
  ASSUME ContentInv, NEW i \in DOMAIN flights, Leave(i)
  PROVE  ContentInv'
<1>1. RemoveAt(flights, i) \in Seq(Flights) /\ Len(RemoveAt(flights, i)) <= Len(flights)
  BY Removed DEF ContentInv, Typed
<1> QED  BY <1>1, OnlyFlights, FrameContentAssumption DEF Leave, ContentInv, Typed

\* The values a writer's fields are reset to.
LEMMA WriterParts ==
  /\ None \in Cropped \cup {None} /\ \A r \in Cropped : r \in Cropped \cup {None}
  /\ 0 \in 0..FatalSkips
  BY DEF FatalSkips

\* A full frame forgets the bars, or leaves nothing but the composer's.
LEMMA FullSound ==
  ASSUME ContentInv, dims' = dims, runner' = runner, WriteRgbaResult \/ GpuCompose \/ CpuCompose
  PROVE  /\ writer' \in Writers /\ painted' \subseteq Paints /\ landed' = TRUE
         /\ BarsSound' /\ BarsForgotten'
<1>1. DimsSound /\ writer \in Writers
  BY DEF ContentInv, Typed
<1>2. /\ painted' \subseteq Paints /\ BarsForgotten'
  BY <1>1, PaintsAllSound DEF WriteRgbaResult, GpuCompose, CpuCompose
<1>3. landed' = TRUE
  BY DEF WriteRgbaResult, GpuCompose, CpuCompose
<1>4. CASE WriteRgbaResult
  <2>1. writer' \in Writers /\ writer'.bars = None
    BY <1>1, <1>4, WriterParts DEF WriteRgbaResult, Writers
  <2> QED  BY <2>1, <1>2, <1>3 DEF BarsSound
<1>5. CASE CpuCompose
  <2>1. writer' \in Writers /\ writer'.bars = None
    <3>1. PICK throws \in IF writer.composer THEN {writer.throws, writer.throws + 1} ELSE {0} :
            writer' = [writer EXCEPT !.bars = None,
                         !.composer = writer.composer /\ throws < ComposerBudget,
                         !.throws = IF throws < ComposerBudget THEN throws ELSE 0]
      BY <1>5 DEF CpuCompose
    <3> DEFINE n == IF throws < ComposerBudget THEN throws ELSE 0
               c == writer.composer /\ throws < ComposerBudget
    <3>2. n \in 0..ComposerBudget - 1
      BY <1>1 DEF Writers, ComposerBudget
    <3>3. c \in BOOLEAN
      OBVIOUS
    <3> HIDE DEF n, c
    <3>4. writer' = [writer EXCEPT !.bars = None, !.composer = c, !.throws = n]
      BY <3>1 DEF n, c
    <3> QED  BY <3>2, <3>3, <3>4, <1>1, WriterParts DEF Writers
  <2> QED  BY <2>1, <1>2, <1>3 DEF BarsSound
<1>6. CASE GpuCompose
  <2>1. writer' \in Writers
    BY <1>1, <1>6 DEF GpuCompose, Writers, ComposerBudget
  <2>2. \A p \in painted' : p.by = "composer"
    BY <1>6 DEF GpuCompose, PaintsAll
  <2> QED  BY <2>1, <2>2, <1>2, <1>3 DEF BarsSound, OfCrop
<1> QED  BY <1>4, <1>5, <1>6

\* The two pastes of a crop: the session's covers the runner's.
LEMMA PastesNest ==
  ASSUME DimsSound, NEW crop \in Cropped, CropPaste(crop, SessionSize(crop)) # None
  PROVE  RectCovers(CropPaste(crop, SessionSize(crop)), CropPaste(crop, ResultSize(crop)))
<1> DEFINE a == ResultSize(crop)[1]
           b == ResultSize(crop)[2]
           c == 4 * crop.width
           d == 4 * crop.height
<1>1. crop \in Insides /\ ~IsFullFrame(crop)
  BY DEF Cropped
<1>2. /\ a \in Nat /\ b \in Nat /\ c \in Nat /\ d \in Nat /\ a <= c /\ b <= d
      /\ ResultSize(crop) = <<a, b>>
  BY <1>1, ResultSizeIs, InsideIs
<1>3. SessionSize(crop) = <<c, d>>
  BY DEF SessionSize
<1>4. CropPaste(crop, ResultSize(crop)) # None
  BY <1>1, PasteLands
<1>5. /\ CropPaste(crop, ResultSize(crop)) = Landing(crop, ResultSize(crop))
      /\ CropPaste(crop, SessionSize(crop)) = Landing(crop, SessionSize(crop))
  BY <1>4, PasteIs
<1> HIDE DEF a, b, c, d
<1>6. RectCovers(Landing(crop, <<c, d>>), Landing(crop, <<a, b>>))
  BY <1>1, <1>2, LandingGrows
<1> QED  BY <1>2, <1>3, <1>5, <1>6

\* A paste that fits is an area of the texture.
LEMMA PasteRect ==
  ASSUME DimsSound, NEW crop \in Cropped, NEW size,
         size = ResultSize(crop) \/ size = SessionSize(crop),
         CropPaste(crop, size) # None, RectCovers(Out, CropPaste(crop, size))
  PROVE  CropPaste(crop, size) \in Rects /\ RectCovers(CropPaste(crop, size), CropPaste(crop, size))
<1> DEFINE paste == CropPaste(crop, size)
<1>1. crop \in Insides
  BY DEF Cropped
<1>2. \E a \in Nat, b \in Nat : size = <<a, b>>
  BY <1>1, ResultSizeIs, InsideIs DEF SessionSize
<1>3. Landing(crop, size) \in Places
  BY <1>1, <1>2, LandingIs
<1>4. paste \in Places /\ RectCovers(Out, paste)
  BY <1>3, PasteIs
<1> HIDE DEF paste
<1>5. paste.x >= 0 /\ paste.y >= 0
  BY <1>4, RectFields DEF RectCovers, Out, Places
<1>6. paste \in Rects /\ RectCovers(paste, paste)
  BY <1>4, <1>5 DEF RectCovers, Places, Rects
<1> QED  BY <1>6 DEF paste

\* A crop lands among results of its own, or fills the bars around it.
LEMMA CropSound ==
  ASSUME ContentInv, dims' = dims, runner' = runner, NEW crop \in Cropped,
         NEW size, NEW by,
         \/ by = "runner" /\ size = ResultSize(crop)
         \/ by = "session" /\ ~runner /\ size = SessionSize(crop),
         PresentCroppedResult(crop, size, by)
  PROVE  /\ writer' \in Writers /\ painted' \subseteq Paints /\ landed' \in BOOLEAN
         /\ BarsSound' /\ BarsForgotten'
<1> DEFINE paste == CropPaste(crop, size)
<1>1. DimsSound /\ writer \in Writers /\ painted \subseteq Paints /\ landed \in BOOLEAN
  BY DEF ContentInv, Typed
<1>2. CASE UNCHANGED <<painted, shown>> /\ (landed' = TRUE \/ landed' = landed)
           /\ \E n \in 0..FatalSkips : writer' = [writer EXCEPT !.skips = n]
  <2>1. writer' \in Writers /\ writer'.bars = writer.bars
    BY <1>1, <1>2 DEF Writers
  <2>2. BarsSound' /\ BarsForgotten'
    BY <1>2, <2>1, BarsKept, BesideKept
  <2> QED  BY <1>1, <1>2, <2>1, <2>2
<1>3. CASE /\ paste # None /\ RectCovers(Out, paste)
           /\ landed' = TRUE
           /\ writer' = [writer EXCEPT !.bars = crop, !.skips = 0]
           /\ painted' = IF writer.bars = crop THEN Over(paste, by)
                         ELSE {[rect |-> paste, by |-> by]}
           /\ shown' = paste
  <2> DEFINE mine == [rect |-> paste, by |-> by]
  <2>1. writer' \in Writers /\ writer'.bars = crop
    BY <1>1, <1>3, WriterParts DEF Writers
  <2>2. /\ RunnerPaste' = CropPaste(crop, ResultSize(crop))
        /\ SessionPaste' = CropPaste(crop, SessionSize(crop))
    BY <2>1 DEF RunnerPaste, SessionPaste, CropPaste, SessionSize, ResultSize, IsFullFrame,
                FullContentRect
  <2>3. writer.bars = crop => /\ RunnerPaste = CropPaste(crop, ResultSize(crop))
                              /\ SessionPaste = CropPaste(crop, SessionSize(crop))
    BY DEF RunnerPaste, SessionPaste
  <2>4. crop # None
    BY <1>1, FullInside DEF Cropped
  <2>5. paste \in Rects /\ RectCovers(paste, paste)
    BY <1>1, <1>3, PasteRect
  <2>6. by = "session" => RectCovers(paste, CropPaste(crop, ResultSize(crop)))
    BY <1>1, <1>3, PastesNest
  <2>7. mine.rect = paste /\ mine.by = by
    OBVIOUS
  <2> HIDE DEF paste
  <2>8. mine \in Paints
    BY <1>3, <2>5 DEF Paints
  <2> HIDE DEF mine
  <2>9. painted' \subseteq painted \cup {mine}
    BY <1>3 DEF Over, mine
  <2>10. \/ mine.by = "runner" /\ mine.rect = RunnerPaste'
         \/ mine.by = "session" /\ ~runner' /\ mine.rect = SessionPaste'
    BY <2>2, <2>7 DEF paste
  <2>11. ASSUME NEW p \in painted', p # mine
         PROVE  OfCrop(p)' /\ ~RectCovers(paste, p.rect)
    <3>1. writer.bars = crop /\ p \in painted /\ ~RectCovers(paste, p.rect)
      BY <2>11, <1>3 DEF Over, mine
    <3>2. OfCrop(p)
      BY <3>1, <2>4 DEF ContentInv, BarsSound
    <3> QED  BY <3>1, <3>2, <2>2, <2>3 DEF OfCrop
  <2>12. BarsSound'
    <3>1. SUFFICES ASSUME NEW p \in painted' PROVE OfCrop(p)'
      BY <1>3 DEF BarsSound
    <3> QED  BY <2>10, <2>11 DEF OfCrop
  <2>13. BarsForgotten'
    <3>1. SUFFICES ASSUME NEW p \in painted'
                   PROVE  \/ RectCovers(paste, p.rect)
                          \/ p.by = "composer"
                          \/ p.by = "session" /\ ~runner' /\ p.rect = SessionPaste'
      <4>1. shown' = paste
        BY <1>3
      <4> QED  BY <4>1 DEF BarsForgotten, SessionPaste, RectCovers
    <3>2. CASE p = mine
      BY <3>2, <2>5, <2>7
    <3>3. CASE p # mine
      <4>1. OfCrop(p)' /\ ~RectCovers(paste, p.rect)
        BY <3>3, <2>11
      <4>2. ~(p.by = "runner" /\ p.rect = RunnerPaste')
        <5>1. by = "runner" => RunnerPaste' = paste
          BY <2>2 DEF paste
        <5> QED  BY <4>1, <5>1, <2>2, <2>5, <2>6
      <4> QED  BY <4>1, <4>2 DEF OfCrop
    <3> QED  BY <3>2, <3>3
  <2>14. painted' \subseteq Paints
    BY <1>1, <2>8, <2>9
  <2> QED  BY <1>3, <2>1, <2>12, <2>13, <2>14
<1>4. Least(writer.skips + 1, FatalSkips) \in 0..FatalSkips /\ 0 \in 0..FatalSkips
  BY <1>1 DEF Writers, FatalSkips, Least
<1> QED  BY <1>2, <1>3, <1>4 DEF PresentCroppedResult

LEMMA RunnerResultStep ==
  ASSUME ContentInv, NEW i \in DOMAIN flights, RunnerResult(i)
  PROVE  ContentInv'
<1> DEFINE crop == flights[i].crop
<1>1. dims' = dims /\ runner' = runner /\ tracker' = tracker
  BY DEF RunnerResult
<1>2. flights' \in Seq(Flights) /\ Len(flights') <= Depth
  BY ClaimedIs DEF RunnerResult, ContentInv
<1>3. crop \in Insides
  BY DEF RunnerResult, InferredBy, ContentInv, Typed, Flights
<1>4. /\ writer' \in Writers /\ painted' \subseteq Paints /\ landed' \in BOOLEAN
      /\ BarsSound' /\ BarsForgotten'
  <2>1. CASE IsFullFrame(crop)
    BY <2>1, <1>1, FullSound DEF RunnerResult
  <2>2. CASE ~IsFullFrame(crop)
    <3>1. PresentCroppedResult(crop, ResultSize(crop), "runner") /\ crop \in Cropped
      BY <2>2, <1>3 DEF RunnerResult, Cropped
    <3> QED  BY <3>1, <1>1, CropSound
  <2> QED  BY <2>1, <2>2
<1> QED  BY <1>1, <1>2, <1>4, SameSets DEF ContentInv, Typed

LEMMA SessionResultStep ==
  ASSUME ContentInv, NEW i \in DOMAIN flights, SessionResult(i)
  PROVE  ContentInv'
<1> DEFINE crop == flights[i].crop
<1>1. dims' = dims /\ runner' = runner /\ tracker' = tracker
  BY DEF SessionResult
<1>2. flights' \in Seq(Flights) /\ Len(flights') <= Depth
  BY ClaimedIs DEF SessionResult, ContentInv
<1>3. crop \in Insides /\ ~runner
  BY DEF SessionResult, InferredBy, ContentInv, Typed, Flights
<1>4. /\ writer' \in Writers /\ painted' \subseteq Paints /\ landed' \in BOOLEAN
      /\ BarsSound' /\ BarsForgotten'
  <2>1. CASE IsFullFrame(crop)
    BY <2>1, <1>1, FullSound DEF SessionResult
  <2>2. CASE ~IsFullFrame(crop)
    <3>1. PresentCroppedResult(crop, SessionSize(crop), "session") /\ crop \in Cropped
      BY <2>2, <1>3 DEF SessionResult, Cropped
    <3> QED  BY <3>1, <1>1, <1>3, CropSound
  <2> QED  BY <2>1, <2>2
<1> QED  BY <1>1, <1>2, <1>4, SameSets DEF ContentInv, Typed

\* The frames under way stay with the engine that infers them.
LEMMA RunnerLostStep ==
  ASSUME ContentInv, RunnerLost
  PROVE  ContentInv'
<1>1. /\ dims' = dims /\ runner' = FALSE
      /\ UNCHANGED <<tracker, flights, writer, painted, shown, landed>>
  BY DEF RunnerLost
<1>2. /\ (DimsSound' <=> DimsSound) /\ Trackers' = Trackers
      /\ Writers' = Writers /\ Paints' = Paints
  BY <1>1 DEF DimsSound, Out, FullContentRect, Insides, Cropped, IsFullFrame, Trackers,
              Writers, Paints
<1>3. FullContentRect' = FullContentRect
  BY <1>1 DEF FullContentRect
<1>4. Insides' = Insides
  BY <1>3 DEF Insides
<1>5. ASSUME NEW f \in Flights
      PROVE  f \in Flights'
  BY <1>1, <1>3, <1>4 DEF Flights, OnGrid, IsFullFrame
<1>6. flights' \in Seq(Flights')
  BY <1>1, <1>5 DEF ContentInv, Typed
<1>7. BarsSound' /\ BarsForgotten'
  BY <1>1, BarsKept, BesideKept
<1> QED  BY <1>1, <1>2, <1>6, <1>7 DEF ContentInv, Typed

LEMMA NextStep == ContentInv /\ [Next]_vars => ContentInv'
<1> SUFFICES ASSUME ContentInv, [Next]_vars PROVE ContentInv'
  OBVIOUS
<1>1. CASE Capture
  BY <1>1, CaptureStep
<1>2. CASE RunnerLost
  BY <1>2, RunnerLostStep
<1>3. ASSUME NEW i \in DOMAIN flights, Decide(i)
      PROVE  ContentInv'
  BY <1>3, DecideStep
<1>4. ASSUME NEW i \in DOMAIN flights, Leave(i)
      PROVE  ContentInv'
  BY <1>4, LeaveStep
<1>5. ASSUME NEW i \in DOMAIN flights, RunnerResult(i)
      PROVE  ContentInv'
  BY <1>5, RunnerResultStep
<1>6. ASSUME NEW i \in DOMAIN flights, SessionResult(i)
      PROVE  ContentInv'
  BY <1>6, SessionResultStep
<1>7. CASE UNCHANGED vars
  BY <1>7, OnlyFlights DEF vars, ContentInv, Typed
<1> QED  BY <1>1, <1>2, <1>3, <1>4, <1>5, <1>6, <1>7 DEF Next

\* The invariant holds of every run, whatever the sizes of frames, targets and tiles.
THEOREM ContentSound == Spec => []ContentInv
  BY InitInv, NextStep, PTL DEF Spec

\* The tracker, the crops, the writer and what it painted stay inside the pictures
\* they are about.
THEOREM TypeCorrect == Spec => []TypeOK
<1>1. ASSUME ContentInv
      PROVE  TypeOK
  <2>1. /\ None.x = 0 /\ None.y = 0 /\ None.width = 0 /\ None.height = 0
        /\ FullContentRect.x = 0 /\ FullContentRect.y = 0
        /\ FullContentRect.width = dims.w /\ FullContentRect.height = dims.h
    BY RectFields DEF None, FullContentRect
  <2>2. RectCovers(FullContentRect, None)
    BY <1>1, <2>1 DEF RectCovers, ContentInv, DimsSound
  <2>3. \A r \in Insides \cup {None} : RectCovers(FullContentRect, r)
    BY <2>2 DEF Insides
  <2>4. /\ tracker.active \in Insides \cup {None} /\ tracker.pending \in Insides \cup {None}
        /\ writer.bars \in Insides \cup {None}
        /\ tracker.since \in 0..Interval /\ tracker.confirms \in 0..ShrinkConfirmations
        /\ writer.skips \in 0..FatalSkips /\ writer.throws \in 0..ComposerBudget - 1
    BY <1>1 DEF ContentInv, Typed, Trackers, Writers, Cropped
  <2>5. ASSUME NEW i \in DOMAIN flights
        PROVE  /\ RectCovers(FullContentRect, flights[i].crop)
               /\ flights[i].phase = "inferring" =>
                    flights[i].crop.width > 0 /\ flights[i].crop.height > 0
    <3>1. flights[i] \in Flights
      BY <1>1 DEF ContentInv, Typed
    <3> QED  BY <3>1, <2>3 DEF Flights, Insides
  <2>6. \A p \in painted : p.rect \in Rects /\ RectCovers(Out, p.rect)
    BY <1>1 DEF ContentInv, Typed, Paints
  <2> QED  BY <1>1, <2>3, <2>4, <2>5, <2>6 DEF TypeOK, ContentInv, Typed
<1> QED  BY <1>1, ContentSound, PTL

\* What the runner reads holds all bright content of the frame it was cut from: no
\* crop adopted on other frames cuts anything off.
THEOREM CropCorrect == Spec => []CropKeepsContent
<1>1. ASSUME ContentInv
      PROVE  CropKeepsContent
  <2>1. \A i \in DOMAIN flights : flights[i] \in Flights
    BY <1>1 DEF ContentInv, Typed
  <2> QED  BY <2>1 DEF CropKeepsContent, Flights
<1> QED  BY <1>1, ContentSound, PTL

\* A runner's result of any crop lands on the texture, its edges on whole pixels where
\* the target grid could be met.
THEOREM LandingCorrect == Spec => []ResultsLand
<1>1. ASSUME ContentInv
      PROVE  ResultsLand
  <2>1. ASSUME NEW i \in DOMAIN flights, flights[i].phase = "inferring"
        PROVE  /\ flights[i].crop \in Insides /\ OnGrid(flights[i].crop)
               /\ CropPaste(flights[i].crop, ResultSize(flights[i].crop)) # None
               /\ RectCovers(Out, CropPaste(flights[i].crop, ResultSize(flights[i].crop)))
    <3>1. flights[i] \in Flights
      BY <1>1 DEF ContentInv, Typed
    <3>2. flights[i].crop \in Insides /\ OnGrid(flights[i].crop)
      BY <2>1, <3>1 DEF Flights
    <3> QED  BY <1>1, <3>2, PasteLands DEF ContentInv
  <2> QED  BY <2>1 DEF ResultsLand, OnGrid
<1> QED  BY <1>1, ContentSound, PTL

\* Around the result on display the texture shows nothing that the writer left there of
\* a full frame or of another crop, through the loss of the runner and its late results.
THEOREM BarsCorrect == Spec => []BarsForgotten
<1>1. ContentInv => BarsForgotten
  BY DEF ContentInv
<1> QED  BY <1>1, ContentSound, PTL

-----------------------------------------------------------------------------
(* The tiles of one frame.                                                 *)

\* The positions along one axis: every tile ends inside the frame, they are of one length,
\* each point lies in one, and one that ends before the edge has a successor that overlaps it.
AxisCovered(size, at, len) ==
  /\ at \subseteq Nat /\ len \in Nat
  /\ \A p \in at : p + len <= size
  /\ \A px \in 0..size - 1 : \E p \in at : p <= px /\ px < p + len
  /\ \A p \in at : p + len < size => \E q \in at : q > p /\ q < p + len

\* The multiples of a stride go on with the next, and the last one below a point is near.
LEMMA Strides ==
  ASSUME NEW step \in Nat \ {0}, NEW a \in Nat
  PROVE  /\ a % step = 0 => (a + step) % step = 0
         /\ \E p \in Nat : p % step = 0 /\ p <= a /\ a < p + step
<1> DEFINE k == a \div step
<1>1. k \in Nat /\ step * k <= a /\ a < step * k + step
  BY DivBounds
<1>2. a % step = 0 => a = step * k
  OBVIOUS
<1> HIDE DEF k
<1>3. (step * k) % step = 0 /\ (step * (k + 1)) % step = 0
  BY <1>1, ModProduct
<1>4. step * (k + 1) = step * k + step
  BY <1>1, Distribute
<1>5. step * k \in Nat
  BY <1>1
<1>6. \E p \in Nat : p % step = 0 /\ p <= a /\ a < p + step
  BY <1>1, <1>3, <1>5
<1> QED BY <1>2, <1>3, <1>4, <1>6

\* Positions that step by less than a tile, the last pulled back to the edge, cover the axis.
LEMMA AxisIsCovered ==
  ASSUME NEW size \in Nat \ {0}, NEW tile \in Nat \ {0}, NEW overlap \in 1..tile - 1
  PROVE  /\ AxisCovered(size, TileAxis(size, tile, overlap), Least(tile, size))
         /\ \A p \in TileAxis(size, tile, overlap) : Least(tile, size - p) = Least(tile, size)
<1> DEFINE step == tile - overlap
           grid == {p \in 0..size : p % step = 0 /\ p + tile < size}
<1>1. step \in Nat \ {0} /\ step < tile
  OBVIOUS
<1> HIDE DEF step
<1>2. CASE size <= tile
  BY <1>2 DEF TileAxis, Least, AxisCovered
<1>3. CASE tile < size
  <2>1. TileAxis(size, tile, overlap) = grid \cup {size - tile}
    BY <1>3 DEF TileAxis, step
  <2>2. Least(tile, size) = tile /\ size - tile \in Nat
    BY <1>3 DEF Least
  <2>3. ASSUME NEW px \in 0..size - 1
        PROVE  \E p \in grid \cup {size - tile} : p <= px /\ px < p + tile
    <3>1. CASE px >= size - tile
      BY <2>2, <3>1
    <3>2. CASE px < size - tile
      <4>1. PICK p \in Nat : p % step = 0 /\ p <= px /\ px < p + step
        <5>1. px \in Nat
          OBVIOUS
        <5> HIDE DEF grid
        <5> QED BY <1>1, <5>1, Strides
      <4>2. p \in grid /\ px < p + tile
        BY <1>1, <2>2, <3>2, <4>1
      <4> QED BY <4>1, <4>2
    <3> QED BY <2>2, <3>1, <3>2
  <2>4. ASSUME NEW p \in grid \cup {size - tile}, p + tile < size
        PROVE  \E q \in grid \cup {size - tile} : q > p /\ q < p + tile
    <3>1. p \in grid /\ p \in Nat
      BY <2>2, <2>4
    <3>2. (p + step) % step = 0 /\ p + step > p /\ p + step < p + tile /\ p + step \in Nat
      <4>1. p % step = 0
        BY <3>1
      <4> HIDE DEF grid
      <4>2. (p + step) % step = 0
        BY <1>1, <3>1, <4>1, Strides
      <4> QED BY <1>1, <3>1, <4>2
    <3>3. CASE p + step + tile < size
      <4>1. p + step \in grid
        BY <3>2, <3>3
      <4> QED BY <3>2, <4>1
    <3>4. CASE p + step + tile >= size
      <4>1. size - tile > p /\ size - tile < p + tile
        BY <1>1, <2>2, <2>4, <3>1, <3>2, <3>4
      <4> QED BY <4>1
    <3> QED BY <1>1, <3>1, <3>3, <3>4
  <2>5. \A p \in grid \cup {size - tile} : p \in Nat /\ p + tile <= size /\ Least(tile, size - p) = tile
    BY <2>2 DEF Least
  <2> HIDE DEF grid
  <2>6. grid \cup {size - tile} \subseteq Nat
    BY <2>5
  <2> QED BY <2>1, <2>2, <2>3, <2>4, <2>5, <2>6 DEF AxisCovered
<1> QED BY <1>2, <1>3

\* The overlap of a tile is at least a pixel and less than the tile.
LEMMA OverlapIs ==
  ASSUME NEW tile \in Nat \ {0}, tile >= SmallTile
  PROVE  OverlapFor(tile) \in 1..tile - 1
<1> DEFINE k == tile \div TileShare
<1>1. TileShare \in Nat \ {0} /\ TileShare >= 2 /\ TileShare <= tile /\ MaxOverlap \in Nat \ {0}
  BY FrameContentAssumption
<1>2. k \in Nat /\ TileShare * k <= tile /\ tile < TileShare * k + TileShare
  BY <1>1, DivBounds
<1> HIDE DEF k
<1>3. k >= 1
  <2> SUFFICES ASSUME k = 0 PROVE FALSE
    BY <1>2
  <2>1. TileShare * k = 0
    BY <1>1
  <2> QED BY <1>1, <1>2, <2>1
<1>4. k * 2 <= k * TileShare
  BY <1>1, <1>2, TimesMonotone
<1>5. k < tile
  BY <1>1, <1>2, <1>3, <1>4
<1> QED BY <1>1, <1>2, <1>3, <1>5 DEF OverlapFor, Least, k

\* The grid of two axes covers the frame when each axis is covered.
LEMMA GridCovers ==
  ASSUME NEW w \in Nat \ {0}, NEW h \in Nat \ {0}, NEW X, NEW Y, NEW a, NEW b,
         AxisCovered(w, X, a), AxisCovered(h, Y, b)
  PROVE  Covered(w, h, {Rect(x, y, a, b) : x \in X, y \in Y})
<1> DEFINE T == {Rect(x, y, a, b) : x \in X, y \in Y}
<1>1. \A t \in T : \E x \in X, y \in Y : t = Rect(x, y, a, b)
  OBVIOUS
<1>2. ASSUME NEW x \in X, NEW y \in Y
      PROVE  /\ Rect(x, y, a, b) \in T
             /\ Rect(x, y, a, b).x = x /\ Rect(x, y, a, b).y = y
             /\ Rect(x, y, a, b).width = a /\ Rect(x, y, a, b).height = b
  BY RectFields
<1> HIDE DEF T
<1>3. \A t \in T : /\ t.x \in X /\ t.y \in Y /\ t.width = a /\ t.height = b
  BY <1>1, <1>2
<1>4. \A t \in T : t.x + t.width <= w /\ t.y + t.height <= h
  BY <1>3 DEF AxisCovered
<1>5. ASSUME NEW px \in 0..w - 1, NEW py \in 0..h - 1
      PROVE  \E t \in T : t.x <= px /\ px < t.x + t.width /\ t.y <= py /\ py < t.y + t.height
  <2>1. PICK x \in X, y \in Y : x <= px /\ px < x + a /\ y <= py /\ py < y + b
    BY DEF AxisCovered
  <2> QED BY <1>2, <2>1
<1>6. ASSUME NEW t \in T, t.x + t.width < w
      PROVE  \E u \in T : u.y = t.y /\ u.x > t.x /\ u.x < t.x + t.width
  <2>1. PICK x \in X : x > t.x /\ x < t.x + a
    BY <1>3, <1>6 DEF AxisCovered
  <2> QED BY <1>2, <1>3, <2>1
<1>7. ASSUME NEW t \in T, t.y + t.height < h
      PROVE  \E u \in T : u.x = t.x /\ u.y > t.y /\ u.y < t.y + t.height
  <2>1. PICK y \in Y : y > t.y /\ y < t.y + b
    BY <1>3, <1>7 DEF AxisCovered
  <2> QED BY <1>2, <1>3, <2>1
<1> QED BY <1>3, <1>4, <1>5, <1>6, <1>7 DEF Covered, T

\* So does the plan of a frame, in one piece or in tiles.
LEMMA PlanCovers ==
  ASSUME NEW w \in Nat \ {0}, NEW h \in Nat \ {0}
  PROVE  Covered(w, h, PlanFrame(w, h).tiles)
<1> DEFINE tile == IF w * h >= BigFrame THEN SmallTile ELSE LargeTile
           overlap == OverlapFor(tile)
           single == SingleTileMaxHeight(w, h, tile)
           X == TileAxis(w, tile, overlap)
           Y == TileAxis(h, tile, overlap)
<1>1. PlanFrame(w, h).tiles = PlanUniformTiles(w, h, tile, overlap, single)
  BY DEF PlanFrame
<1>2. tile \in Nat \ {0} /\ tile >= SmallTile
  BY FrameContentAssumption
<1> HIDE DEF tile
<1>3. overlap \in 1..tile - 1
  BY <1>2, OverlapIs
<1> HIDE DEF overlap, single
<1>4. CASE h <= single
  <2>1. AxisCovered(w, {0}, w) /\ AxisCovered(h, {0}, h)
    BY DEF AxisCovered
  <2>2. PlanFrame(w, h).tiles = {Rect(x, y, w, h) : x \in {0}, y \in {0}}
    BY <1>1, <1>4 DEF PlanUniformTiles
  <2> QED BY <2>1, <2>2, GridCovers
<1>5. CASE ~(h <= single)
  <2>1. /\ AxisCovered(w, X, Least(tile, w)) /\ \A x \in X : Least(tile, w - x) = Least(tile, w)
        /\ AxisCovered(h, Y, Least(tile, h)) /\ \A y \in Y : Least(tile, h - y) = Least(tile, h)
    BY <1>2, <1>3, AxisIsCovered
  <2>2. PlanFrame(w, h).tiles =
          {Rect(x, y, Least(tile, w - x), Least(tile, h - y)) : x \in X, y \in Y}
    BY <1>1, <1>5 DEF PlanUniformTiles
  <2> HIDE DEF X, Y
  <2>3. PlanFrame(w, h).tiles = {Rect(x, y, Least(tile, w), Least(tile, h)) : x \in X, y \in Y}
    BY <2>1, <2>2
  <2> QED BY <2>1, <2>3, GridCovers
<1> QED BY <1>4, <1>5

\* The tiles of every frame that is inferred lie inside it, are of one size, cover every pixel
\* and overlap along both axes, whatever crop was decided for it.
THEOREM TilesCorrect == Spec => []TilesCover
<1>1. ASSUME ContentInv
      PROVE  TilesCover
  <2>1. ASSUME NEW i \in DOMAIN flights, flights[i].phase = "inferring"
        PROVE  flights[i].crop.width \in Nat \ {0} /\ flights[i].crop.height \in Nat \ {0}
    <3>1. flights[i] \in Flights
      BY <1>1 DEF ContentInv, Typed
    <3> QED BY <2>1, <3>1 DEF Flights, Insides, Rects
  <2> QED BY <2>1, PlanCovers DEF TilesCover
<1> QED BY <1>1, ContentSound, PTL
=============================================================================
