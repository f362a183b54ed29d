------------------------------ MODULE Geometry ------------------------------
(***************************************************************************)
(* Image sizes: the arithmetic of resize, rotate, crop, padding and        *)
(* watermark placement that src/codecs/raster.rs and src/codecs/svg.rs     *)
(* share.  A size is <<width, height>>, a rectangle <<x, y, width, height>>*)
(*                                                                         *)
(* The code scales in f64 and rounds half away from zero; here a scale is  *)
(* an exact ratio <<numerator, denominator>>.  Angles are multiples of 45  *)
(* degrees: the quarter turns, which the code computes exactly, and the    *)
(* diagonals, where both |sin| and |cos| are 1/sqrt(2) and the rounded-up  *)
(* bounding box is the least n with 2 n^2 >= (w + h)^2.                    *)
(***************************************************************************)
EXTENDS Options

Lesser(a, b) == IF a <= b THEN a ELSE b
Greater(a, b) == IF a >= b THEN a ELSE b
Monus(a, b) == IF a >= b THEN a - b ELSE 0

Pixels(size) == size[1] * size[2]

\* (value * num / den).round().max(1), num and den naturals and den positive.
ScaledBy(value, num, den) == Greater(1, (2 * value * num + den) \div (2 * den))

\* fit_scale: the smaller (contain, inside) or larger (cover) of the two ratios.
FitScale(source, target, fit) ==
  LET x == <<target[1], source[1]>>
      y == <<target[2], source[2]>>
      xIsSmaller == x[1] * y[2] <= y[1] * x[2]
  IN CASE fit \in {"contain", "inside"} -> IF xIsSmaller THEN x ELSE y
       [] fit = "cover"                 -> IF xIsSmaller THEN y ELSE x
       [] OTHER                         -> <<1, 1>>

FitContent(source, target, fit, keepSmall) ==
  IF fit = "fill"
  THEN IF keepSmall THEN <<Lesser(target[1], source[1]), Lesser(target[2], source[2])>> ELSE target
  ELSE LET s == FitScale(source, target, fit)
           k == IF keepSmall /\ s[1] > s[2] THEN <<1, 1>> ELSE s
       IN <<ScaledBy(source[1], k[1], k[2]), ScaledBy(source[2], k[1], k[2])>>

\* resolved_output_dimensions: the size a resize returns.  One axis alone is a
\* scale request and the other follows; None is an axis not asked for.
ResolvedSize(current, width, height, fit, keepSmall) ==
  LET w == IF keepSmall THEN Lesser(width, current[1]) ELSE width
      h == IF keepSmall THEN Lesser(height, current[2]) ELSE height
      box == <<width, height>>
      content == FitContent(current, box, fit, keepSmall)
  IN CASE width = None /\ height = None -> current
       [] width # None /\ height = None -> <<w, ScaledBy(current[2], w, current[1])>>
       [] width = None /\ height # None -> <<ScaledBy(current[1], h, current[2]), h>>
       [] OTHER -> CASE fit = "contain" -> box
                     [] fit = "cover"   -> <<Lesser(box[1], content[1]), Lesser(box[2], content[2])>>
                     [] OTHER           -> content

\* resize_content_size: what the source is scaled to before padding or cropping.
ContentSize(source, width, height, fit, keepSmall) ==
  IF width # None /\ height # None
  THEN FitContent(source, <<width, height>>, fit, keepSmall)
  ELSE ResolvedSize(source, width, height, fit, keepSmall)

FitsFormat(format, size) ==
  \/ MaxDimension(format) = None
  \/ size[1] <= MaxDimension(format) /\ size[2] <= MaxDimension(format)

----------------------------------------------------------------------------
(* Rotation.                                                               *)

\* ceil(n / sqrt(2)).
DiagonalCeil(n) == CHOOSE k \in 0..n : 2 * k * k >= n * n /\ (k = 0 \/ 2 * (k - 1) * (k - 1) < n * n)

RotatedBox(size, degrees) ==
  CASE degrees \in {0, 180}  -> size
    [] degrees \in {90, 270} -> <<size[2], size[1]>>
    [] OTHER -> LET side == Greater(1, DiagonalCeil(size[1] + size[2])) IN <<side, side>>

\* pre_rotation_render_size: how large to draw a vector image so that turning it
\* gives the target.
PreRotationSize(target, intrinsic, rotated, degrees) ==
  CASE degrees \in {0, 180}  -> target
    [] degrees \in {90, 270} -> <<target[2], target[1]>>
    [] OTHER -> LET s == IF target[1] * rotated[2] >= target[2] * rotated[1]
                         THEN <<target[1], rotated[1]>> ELSE <<target[2], rotated[2]>>
                IN <<ScaledBy(intrinsic[1], s[1], s[2]), ScaledBy(intrinsic[2], s[1], s[2])>>

----------------------------------------------------------------------------
(* Crop and placement.                                                     *)

Saturated(v) == Lesser(v, U32Max)

CropFits(crop, size) ==
  /\ Saturated(crop[1] + crop[3]) <= size[1]
  /\ Saturated(crop[2] + crop[4]) <= size[2]

\* scale_crop_into_render_space: the drawing's full size at the scale the region
\* needs, which is the mean of the two axes' scales, and the rectangle at it.
ScaledCrop(crop, intrinsic, render) ==
  LET num == render[1] * crop[4] + render[2] * crop[3]
      den == 2 * crop[3] * crop[4]
      Origin(v) == Saturated((2 * v * num + den) \div (2 * den))
      Extent(v) == Saturated(ScaledBy(v, num, den))
      full == <<Extent(intrinsic[1]), Extent(intrinsic[2])>>
      x == Lesser(Origin(crop[1]), Monus(full[1], 1))
      y == Lesser(Origin(crop[2]), Monus(full[2], 1))
  IN [full |-> full,
      crop |-> <<x, y, Lesser(Extent(crop[3]), full[1] - x), Lesser(Extent(crop[4]), full[2] - y)>>]

\* position_offset: where content sits in its container.
PositionOffset(container, content, position) ==
  LET h == Monus(container[1], content[1])
      v == Monus(container[2], content[2])
  IN << CASE position \in {"center", "top", "bottom"}        -> h \div 2
          [] position \in {"left", "top-left", "bottom-left"} -> 0
          [] OTHER                                            -> h,
        CASE position \in {"center", "left", "right"}       -> v \div 2
          [] position \in {"top", "top-left", "top-right"}   -> 0
          [] OTHER                                           -> v >>

\* watermark_margins: an axis the watermark is centred on has no margin.
WatermarkMargins(position, margin) ==
  << IF position \in {"center", "top", "bottom"} THEN 0 ELSE margin,
     IF position \in {"center", "left", "right"} THEN 0 ELSE margin >>

\* Mutant: the margin is left out of the comparison.
WatermarkFitsBare(wm, main, position, margin) == wm[1] <= main[1] /\ wm[2] <= main[2]

WatermarkFits(wm, main, position, margin) ==
  LET m == WatermarkMargins(position, margin)
  IN wm[1] + m[1] <= main[1] /\ wm[2] + m[2] <= main[2]

WatermarkOffset(main, wm, position, margin) ==
  LET h == Monus(main[1], wm[1])
      v == Monus(main[2], wm[2])
  IN << CASE position \in {"center", "top", "bottom"}         -> h \div 2
          [] position \in {"left", "top-left", "bottom-left"}  -> margin
          [] OTHER                                             -> Monus(h, margin),
        CASE position \in {"center", "left", "right"}        -> v \div 2
          [] position \in {"top", "top-left", "top-right"}    -> margin
          [] OTHER                                            -> Monus(v, margin) >>
=============================================================================
