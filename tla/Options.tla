------------------------------- MODULE Options -------------------------------
(***************************************************************************)
(* The option vocabulary every adapter shares (src/core.rs): what a media  *)
(* type may be asked to do, which combinations of options are refused and  *)
(* in which order, and the normalized request the codecs work from.        *)
(*                                                                         *)
(* An absent option is None for a number and "none" for a name.  Blur and  *)
(* sharpen are in tenths, a target quality in hundredths; opacity, margin  *)
(* and the watermark image belong to the watermark record.                 *)
(***************************************************************************)
EXTENDS Integers, Sequences

None == -1

MediaTypes == {"jpeg", "png", "webp", "svg", "bmp", "tiff", "gif"}

MaxDimension(t) ==
  CASE t = "jpeg" -> 65535
    [] t = "webp" -> 16383
    [] OTHER      -> None

IsLossy(t) == t \in {"jpeg", "webp"}
SupportsOptimization(t) == t \in {"jpeg", "png", "webp"}
SupportsLossyOptimization(t) == t \in {"jpeg", "webp"}
SupportsIcc(t) == t \in {"jpeg", "png", "webp"}
IsRaster(t) == t # "svg"
IsEncodable(t) == t # "gif"

DefaultOutput(t) == IF IsEncodable(t) THEN t ELSE "png"

DefaultOptions ==
  [width |-> None, height |-> None, fit |-> "none", position |-> "none",
   format |-> "none", quality |-> None, optimize |-> "none",
   target |-> [metric |-> "none", value |-> 0], background |-> "none",
   rotate |-> 0, autoOrient |-> TRUE, strip |-> TRUE, preserveExif |-> FALSE,
   blur |-> None, sharpen |-> None, grayscale |-> FALSE,
   withoutEnlargement |-> FALSE, crop |-> <<>>, deadline |-> FALSE]

Positions == {"center", "top", "right", "bottom", "left",
              "top-left", "top-right", "bottom-left", "bottom-right"}

Fits == {"contain", "cover", "fill", "inside"}

DefaultWatermark(image) ==
  [image |-> image, position |-> "bottom-right", opacity |-> 50, margin |-> 10]

----------------------------------------------------------------------------
(* Reading a value.  A number arrives wide: inside i64, or beyond either   *)
(* end of it, and is narrowed to the field's own range.                    *)

CONSTANTS
  U32Max,   \* the largest dimension a field holds
  I64Max    \* the largest value the wide reader holds; its lowest is -I64Max-1

ASSUME WidthsAssumption ==
  /\ U32Max \in Nat /\ I64Max \in Nat
  /\ 360 < U32Max /\ U32Max < I64Max

\* WideInteger::parse: saturated() of what was read; nothing for a non-number.
Wide(v) == IF v > I64Max THEN I64Max ELSE IF v < -I64Max - 1 THEN -I64Max - 1 ELSE v

\* dimension_value: a u32, or the sentence that names the end it missed.
DimensionValue(v) ==
  IF Wide(v) \in 0..U32Max THEN [ok |-> TRUE, value |-> Wide(v)]
  ELSE [ok |-> FALSE, value |-> IF Wide(v) <= 0 THEN "not positive" ELSE "too large"]

\* validate_quality_value and the opacity rule: 1..=100; a value the u8 field
\* can hold is left for normalize to judge.
PercentValue(v) ==
  IF Wide(v) \in 0..255 THEN [ok |-> TRUE, value |-> Wide(v)]
                        ELSE [ok |-> FALSE, value |-> "between 1 and 100"]

\* Rotation::from_str, from_degrees: whole turns are dropped, a negative angle
\* wraps, and an angle outside i64 is refused rather than reduced.
RotationValue(v) ==
  IF v \in (-I64Max - 1)..I64Max
  THEN [ok |-> TRUE, value |-> ((v % 360) + 360) % 360]
  ELSE [ok |-> FALSE, value |-> "out of range"]

QuarterTurns(degrees) == IF degrees % 90 = 0 THEN degrees \div 90 ELSE None

----------------------------------------------------------------------------
(* The rules.  Each list is in the order of the code; the answer is the    *)
(* first rule broken, "ok" when none is.                                   *)

FirstBroken(rules) ==
  LET broken == {i \in DOMAIN rules : rules[i][1]}
  IN IF broken = {} THEN "ok"
     ELSE rules[CHOOSE i \in broken : \A j \in broken : i <= j][2]

Bounded(o) == o.width # None /\ o.height # None
HasTarget(o) == o.target.metric # "none"

TargetOutOfRange(t) ==
  \/ t.metric = "ssim" /\ t.value \notin 1..100
  \/ t.metric = "psnr" /\ t.value <= 0

ValidateWithoutInput(o) ==
  FirstBroken(<<
    <<o.width = 0, "width">>,
    <<o.height = 0, "height">>,
    <<o.quality # None /\ o.quality \notin 1..100, "quality">>,
    <<TargetOutOfRange(o.target), "targetQuality">>,
    <<o.blur # None /\ o.blur \notin 1..1000, "blur">>,
    <<o.sharpen # None /\ o.sharpen \notin 1..1000, "sharpen">>,
    <<o.crop # <<>> /\ (o.crop[3] = 0 \/ o.crop[4] = 0), "crop">>,
    <<o.fit # "none" /\ ~Bounded(o), "fit needs both">>,
    <<o.position # "none" /\ ~Bounded(o), "position needs both">>,
    <<o.withoutEnlargement /\ o.width = None /\ o.height = None, "withoutEnlargement">>,
    <<o.preserveExif /\ o.strip, "preserveExif needs metadata">> >>)

\* svg_passthrough_unsupported_option: what SVG output cannot honour.
SvgUnsupported(o) ==
  o.width # None \/ o.height # None \/ o.rotate # 0 \/ o.grayscale \/ o.background # "none"

OutputFormat(o, input) == IF o.format = "none" THEN DefaultOutput(input) ELSE o.format

ValidateWithInput(o, input) ==
  LET format == OutputFormat(o, input) IN
  FirstBroken(<<
    <<o.optimize # "none" /\ ~SupportsOptimization(format), "optimization unsupported">>,
    <<o.optimize = "lossy" /\ ~SupportsLossyOptimization(format), "lossy needs jpeg or webp">>,
    <<o.preserveExif /\ format = "svg", "preserveExif with svg">>,
    <<input = "svg" /\ format = "svg" /\ SvgUnsupported(o), "svg passthrough">>,
    <<o.quality # None /\ ~IsLossy(format), "quality needs lossy">>,
    <<o.quality # None /\ o.optimize = "lossless", "quality with lossless">>,
    <<HasTarget(o) /\ o.optimize \in {"none", "lossless"}, "targetQuality needs auto or lossy">>,
    <<HasTarget(o) /\ ~SupportsLossyOptimization(format), "targetQuality needs jpeg or webp">> >>)

Policy(o, format) ==
  CASE o.preserveExif -> "PreserveExif"
    [] ~o.preserveExif /\ o.strip /\ o.optimize # "none" /\ SupportsIcc(format) -> "PreserveIcc"
    [] ~o.preserveExif /\ o.strip /\ ~(o.optimize # "none" /\ SupportsIcc(format)) -> "StripAll"
    [] OTHER -> "KeepAll"

\* validate_watermark; <<>> is no watermark.
ValidateWatermark(wm) ==
  IF wm = <<>> THEN "ok"
  ELSE FirstBroken(<< <<wm[1].opacity \notin 1..100, "watermark opacity">>,
                      <<~IsRaster(wm[1].image.type), "watermark raster">> >>)

\* TransformRequest::normalize: the first refusal, or "ok".
NormalizeRefusal(o, input, wm) ==
  LET a == ValidateWithoutInput(o)
      b == ValidateWithInput(o, input)
  IN IF a # "ok" THEN a ELSE IF b # "ok" THEN b ELSE ValidateWatermark(wm)

Normalized(o, input, wm) ==
  [width |-> o.width, height |-> o.height,
   fit |-> IF ~Bounded(o) THEN "none" ELSE IF o.fit = "none" THEN "contain" ELSE o.fit,
   position |-> IF o.position = "none" THEN "center" ELSE o.position,
   format |-> OutputFormat(o, input), quality |-> o.quality, optimize |-> o.optimize,
   target |-> o.target, background |-> o.background, rotate |-> o.rotate,
   autoOrient |-> o.autoOrient, policy |-> Policy(o, OutputFormat(o, input)),
   blur |-> o.blur, sharpen |-> o.sharpen, grayscale |-> o.grayscale,
   withoutEnlargement |-> o.withoutEnlargement, crop |-> o.crop,
   deadline |-> o.deadline, watermark |-> wm]

\* default_lossy_target_quality, in hundredths.
DefaultLossyTarget(t) ==
  IF t \in {"jpeg", "webp"} THEN [metric |-> "ssim", value |-> 98]
                            ELSE [metric |-> "none", value |-> 0]
=============================================================================
